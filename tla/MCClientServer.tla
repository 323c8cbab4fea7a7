--------------------------- MODULE MCClientServer ---------------------------
(***************************************************************************)
(* Lines typed by the users of ClientServer, for model checking.           *)
(***************************************************************************)
EXTENDS ClientServer, TLC

Name == 97

Typing(word, text) == [word |-> word, rest |-> <<Blank>> \o text]

Account == <<Name, Blank, Name, Blank, Digit(1)>>

Login == Typing("LOGIN", Account)
Logout == [word |-> "LOGOUT", rest |-> <<>>]
Logstat == [word |-> "LOGSTAT", rest |-> <<>>]
LogoutBlank == Typing("LOGOUT", <<>>)
Post == Typing("POST", <<Name>>)
Pm == Typing("PM", <<Name, Blank, Name>>)

\* the other requests, an unknown word, a text with the delimiter in it and what the
\* server takes for a LOGOUT after it, a PM without a text, a REGISTER without a
\* password
Others ==
  {Typing("REGISTER", Account), Typing("REGISTER", <<Name>>),
   Typing("FOLLOW", <<Digit(1), Blank, Name>>), Typing("STAT", <<Name>>),
   Typing("BLOCK", <<Name>>), Logstat, Typing("PM", <<Name>>),
   Typing("POST", <<Name, Semicolon, Digit(0), Digit(3)>>),
   [word |-> "HELP", rest |-> <<>>]}

Anything == {Login, Logout, LogoutBlank, Post, Pm} \cup Others

\* one client that types anything, then tries to log out and to go on
MCAnything == (0 :> <<Anything, {Logout}, {Post}>>)

\* a client that logs in and out or asks for its numbers, and one that writes to it
MCTwo == (0 :> <<{Login}, {Logout, Logstat}>>) @@ (1 :> <<{Pm}>>)

\* a client that is told of its own post
MCOne == (0 :> <<{Login}, {Post}>>)
=============================================================================
