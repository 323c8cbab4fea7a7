---------------------------- MODULE ClientServer ----------------------------
(***************************************************************************)
(* The clients of Client and the server of ThreadPerClient, joined by      *)
(* their connections.                                                      *)
(***************************************************************************)
EXTENDS Framing, FiniteSets

CONSTANTS
  Conn,     \* the connections, each with its client: 0 .. n
  Lines,    \* what the user of a client may type, line by line; bounds the run
  Faulty,   \* clients that fail to start, or whose connection or input ends; bounds the run
  Window    \* bytes in a socket above which a write blocks

ASSUME ConnAssumption == IsFiniteSet(Conn) /\ Conn = 0 .. Cardinality(Conn) - 1

\* text without the NUL that ends a string of C, in ASCII, which the server's
\* conversions from and to UTF-8 leave as it is
ASSUME LinesAssumption ==
  /\ Lines \in [Conn -> Seq(SUBSET [word : STRING, rest : Seq(1 .. 127)])]
  /\ \A c \in Conn : \A i \in DOMAIN Lines[c] :
       \A line \in Lines[c][i] : line.rest # <<>> => Head(line.rest) = Blank

ASSUME WindowAssumption == Window \in Nat \ {0}

VARIABLES
  \* see Client
  link, toServer, toClient,
  terminate, logoutSent, logoutFailed,
  process, keyboard, stdin, reader, typed, printed,
  \* see ThreadPerClient
  serving, connectionId, thread, out, connIds, received, sent

C == INSTANCE Client

S == INSTANCE ThreadPerClient

wireVars == <<link, toServer, toClient>>
clientVars ==
  <<terminate, logoutSent, logoutFailed, process, keyboard, stdin, reader, typed, printed>>
serverVars == <<serving, connectionId, thread, out, connIds, received, sent>>
vars == <<wireVars, clientVars, serverVars>>

-----------------------------------------------------------------------------
Init == C!Init /\ S!Init

\* clients connect in the order of their ids, which accept will give them
InOrder(c) == link[c] = "none" => \A d \in Conn : d < c => link[d] # "none"

ClientStep(c) == C!ClientStep(c) /\ InOrder(c) /\ UNCHANGED serverVars

Lose(c) == C!Lose(c) /\ UNCHANGED serverVars

ServerStep == S!ServerStep /\ UNCHANGED clientVars

Next == ServerStep \/ \E c \in Conn : ClientStep(c) \/ Lose(c)

\* threads; each takes over where the one it is named with ends
Handle(c) == (S!Accept(c) \/ S!ThreadStep(c)) /\ UNCHANGED clientVars
Keyboard(c) == (C!KeyboardStep(c) \/ C!Exit(c)) /\ UNCHANGED serverVars
Reader(c) == C!ReaderStep(c) /\ UNCHANGED serverVars

Spec == Init /\ [][Next]_vars

\* the threads go on, and the server accepts; nothing makes a user type
FairSpec ==
  /\ Spec
  /\ \A c \in Conn :
       /\ WF_vars(Handle(c))
       /\ WF_vars(Keyboard(c))
       /\ WF_vars(Reader(c))

-----------------------------------------------------------------------------
TypeOK == C!TypeOK /\ S!TypeOK

(***************************************************************************)
(* A message of the server is a line of the user: as long as no line has   *)
(* the delimiter in it, each request that process gets is the line typed   *)
(* at its place, and its parts are those the user separated by blanks.     *)
(***************************************************************************)
RequestsAsTyped ==
  \A c \in Conn : \A i \in DOMAIN received[c] :
    (\A j \in DOMAIN typed[c] : j <= i => NoDelimiter(typed[c][j])) =>
      /\ i \in DOMAIN typed[c]
      /\ WellFormed(typed[c][i]) => received[c][i] = Meant(typed[c][i])

\* nobody has typed a line with the delimiter in it, which the server takes for
\* several messages, one of which may have a NUL where the client expects none
Undivided == \A c \in Conn : \A line \in ToSet(typed[c]) : NoDelimiter(line)

(***************************************************************************)
(* A client prints the answers and notifications that threads of the       *)
(* server have sent to it, all of them up to some point, each as it was    *)
(* meant, although several threads write to its stream; as long as no line *)
(* has the delimiter in it.                                                *)
(***************************************************************************)
AnswersAsSent == Undivided => \A c \in Conn : IsPrefix(printed[c], sent[c])

Requested(c, op) == {i \in DOMAIN typed[c] : Op[typed[c][i].word] = op}

AnswersTo(c, op) ==
  {i \in DOMAIN printed[c] : printed[c][i].kind # "NOTIFICATION" /\ printed[c][i].op = op}

(***************************************************************************)
(* A request is answered at most once, through the decoders, the buffered  *)
(* streams and the socket of its connection; LOGSTAT, which answers for    *)
(* each user, aside; as long as no line has the delimiter in it.           *)
(***************************************************************************)
AnsweredOnce ==
  Undivided => \A c \in Conn : \A op \in 1 .. 12 \ {7, 9} :
    Cardinality(AnswersTo(c, op)) <= Cardinality(Requested(c, op))

(***************************************************************************)
(* The decoder remains in step with the frames of the server: it meets     *)
(* bytes that begin no frame only after a table of LOGSTAT, whose zeros    *)
(* follow it; as long as no line has the delimiter in it.                  *)
(***************************************************************************)
MisreadAfterTable ==
  Undivided => \A c \in Conn : process[c] = "misread" => \E a \in ToSet(sent[c]) : IsTable(a)

(***************************************************************************)
(* Nobody's answer is sent on streams not yet open: a connection can be    *)
(* written to by others only when its own thread has processed a request.  *)
(***************************************************************************)
StreamsOpen ==
  \A c \in Conn :
    S!Sending(c) /\ S!Receiver(c) \in S!Known => S!HasStreams(S!Receiver(c))

ExactOnly(c) == \A line \in ToSet(typed[c]) : line.word = "LOGOUT" => line = C!ExactLogout

(***************************************************************************)
(* The keyboard thread sends nothing after a LOGOUT until it is answered:  *)
(* when LOGOUT is acknowledged it is the last line sent; as long as no     *)
(* line has the delimiter in it.                                           *)
(***************************************************************************)
LogoutIsLast ==
  Undivided => \A c \in Conn :
    terminate[c] /\ ExactOnly(c) => typed[c] # <<>> /\ Last(typed[c]) = C!ExactLogout

\* the client no longer reads, but its socket is open: a thread that writes to it blocks
Deaf(c) == link[c] = "up" /\ process[c] = "running" /\ reader[c].step = "done"

(***************************************************************************)
(* LOGOUT ends the client or is refused: the keyboard thread does not wait *)
(* for ever while the server accepts, the connection holds and no client   *)
(* stops reading.                                                          *)
(***************************************************************************)
LogoutIsAnswered ==
  \A c \in Conn :
    []<>(keyboard[c] # "wait" \/ link[c] = "down" \/ ~serving \/ \E d \in Conn : Deaf(d))

(***************************************************************************)
(* An acknowledged LOGOUT ends the program, if every LOGOUT was typed      *)
(* exactly; as long as no line has the delimiter in it, by which the       *)
(* server can be made to acknowledge a LOGOUT that the keyboard thread     *)
(* does not know of.                                                       *)
(***************************************************************************)
LogoutExits ==
  \A c \in Conn : Undivided /\ terminate[c] /\ ExactOnly(c) ~> process[c] # "running"

(***************************************************************************)
(* connectionHandler.h:43-44: getFrameAscii "Returns false in case         *)
(* connection closed before null can be read"; decoder gives up then, and  *)
(* the program with it.                                                    *)
(***************************************************************************)
CutFrameFails ==
  [][\A c \in Conn : \A step \in C!Frames :
       C!CutFrame(c, step) /\ reader'[c] # reader[c] => process'[c] = "cutOff"]_vars
=============================================================================
