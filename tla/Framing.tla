------------------------------ MODULE Framing ------------------------------
(***************************************************************************)
(* The bytes of the protocol: what each side writes and how the other one  *)
(* reads it.  Client: Encoder and bytesToShort of connectionHandler.cpp    *)
(* (its decoder is part of Client); server: api/MessageEncoderDecoderImpl  *)
(* .java, and how api/BidiMessagingProtocolImpl.java takes a request apart *)
(* and puts an answer together.                                            *)
(*                                                                         *)
(* A byte is a number; a line typed by the user is its first word and the  *)
(* rest, which is empty or begins with a blank.                            *)
(***************************************************************************)
EXTENDS Integers, Sequences, SequencesExt

NUL == 0
Blank == 32
Semicolon == 59

Digit(d) == 48 + d

Two(n) == <<Digit(n \div 10), Digit(n % 10)>>

\* the opcodes of the requests
Op == [REGISTER |-> 1, LOGIN |-> 2, LOGOUT |-> 3, FOLLOW |-> 4, POST |-> 5, PM |-> 6,
       LOGSTAT |-> 7, STAT |-> 8, BLOCK |-> 12]

\* the parts of s between separators
Split(s, separator) ==
  LET before(i) == Cardinality({j \in 1 .. i : s[j] = separator})
      part(k) == {i \in DOMAIN s : s[i] # separator /\ before(i) = k - 1}
  IN  [k \in 1 .. before(Len(s)) + 1 |->
         IF part(k) = {} THEN <<>> ELSE SubSeq(s, Min(part(k)), Max(part(k)))]

\* String.split leaves out the empty fields at the end
Trimmed(fields) == SubSeq(fields, 1, SelectLastInSeq(fields, LAMBDA f : f # <<>>))

-----------------------------------------------------------------------------
(* Requests: what the user typed, what the client sends, what the server reads *)

EmptyLine == [word |-> "", rest |-> <<>>]

Text(line) == IF line.rest = <<>> THEN <<>> ELSE Tail(line.rest)

\* what a line asks for, by the formats of the commands
Meant(line) ==
  [op |-> Op[line.word],
   fields |-> CASE line.word \in {"REGISTER", "LOGIN", "FOLLOW"} -> Split(Text(line), Blank)
                [] line.word \in {"LOGOUT", "LOGSTAT"} -> <<>>
                [] OTHER -> <<Text(line)>>]

NoDelimiter(line) == ~Contains(line.rest, Semicolon)

WellFormed(line) ==
  /\ line.word \in {"REGISTER", "LOGIN"} => Len(Meant(line).fields) = 3
  /\ line.word = "FOLLOW" => Len(Meant(line).fields) = 2 /\ Len(Meant(line).fields[1]) = 1
  /\ <<>> \notin ToSet(Meant(line).fields)

\* what is left of s without its blanks
WithoutBlanks(s) ==
  LET kept[i \in 0 .. Len(s)] ==
        IF i = 0 THEN <<>>
        ELSE IF s[i] = Blank THEN kept[i - 1] ELSE Append(kept[i - 1], s[i])
  IN  kept[Len(s)]

\* mutant: FOLLOW keeps the blank between its fields
BodyBlankKept(line) ==
  CASE line.word \in {"REGISTER", "LOGIN"} -> ReplaceAll(Text(line), Blank, NUL)
    [] line.word \in {"LOGOUT", "LOGSTAT"} -> <<>>
    [] OTHER -> Text(line) \o <<NUL>>

Body(line) ==
  CASE line.word = "REGISTER" -> ReplaceAll(Text(line), Blank, NUL) \o <<NUL>>
    [] line.word = "LOGIN" -> ReplaceAll(Text(line), Blank, NUL)
    [] line.word \in {"LOGOUT", "LOGSTAT"} -> <<>>
    [] line.word = "FOLLOW" -> WithoutBlanks(Text(line)) \o <<NUL>>
    [] OTHER -> Text(line) \o <<NUL>>

\* a line that begins with no known word is sent as no bytes at all
Encoder(line) ==
  IF line.word \in DOMAIN Op
  THEN Two(Op[line.word]) \o Body(line) \o <<Semicolon>>
  ELSE <<>>

\* decodeNextByte hands on the bytes before a ';'
HasMessage(bytes) == Contains(bytes, Semicolon)

MessageLength(bytes) == SelectInSeq(bytes, LAMBDA b : b = Semicolon) - 1

\* a message as process takes it apart; 0 where none of its branches matches
ReadRequest(message) ==
  LET code(op) == Two(op) = SubSeq(message, 1, 2)
      rest == SubSeq(message, 3, Len(message))
      whole == SubSeq(message, 3, Len(message) - 1)
  IN  CASE \E op \in {1, 2} : code(op) ->
             [op |-> CHOOSE op \in {1, 2} : code(op), fields |-> Trimmed(Split(rest, NUL))]
        [] code(4) -> [op |-> 4, fields |-> <<SubSeq(rest, 1, 1), SubSeq(whole, 2, Len(whole))>>]
        [] \E op \in {3, 7} : code(op) ->
             [op |-> CHOOSE op \in {3, 7} : code(op), fields |-> <<>>]
        [] \E op \in {5, 6, 8, 12} : code(op) ->
             [op |-> CHOOSE op \in {5, 6, 8, 12} : code(op), fields |-> <<whole>>]
        [] OTHER -> [op |-> 0, fields |-> <<>>]

\* process throws while it takes the message apart
Malformed(message) ==
  \/ Len(message) < 2
  \/ LET request == ReadRequest(message)
     IN  \/ request.op \in {1, 2} /\ Len(request.fields) < 3
         \/ request.op \in {4, 5, 6} /\ Len(message) = 2

-----------------------------------------------------------------------------
(* Answers: what the server sends *)

\* mutant: the sign stays in the first byte
ShortToBytesSigned(n) == <<n \div 256, n % 256>>

\* shortToBytes, and bytesToShort of the client
ShortToBytes(n) == <<(n \div 256) % 256, n % 256>>

BytesToShort(b) ==
  LET n == 256 * b[1] + b[2]
  IN  IF n < 2 ^ 15 THEN n ELSE n - 2 ^ 16

Ack(op) == [kind |-> "ACK", op |-> op, fields |-> <<>>]

Error(op) == [kind |-> "ERROR", op |-> op, fields |-> <<>>]

\* the name and the action of FOLLOW come back with the ack
FollowAck(action, name) ==
  [kind |-> "ACK", op |-> 4, fields |-> <<<<Digit(0)>> \o action, name>>]

\* LOGSTAT: four numbers about one user
Statistics(numbers) == [kind |-> "ACK", op |-> 7, fields |-> <<numbers>>]

Notification(stat, user, content) ==
  [kind |-> "NOTIFICATION", op |-> 9, fields |-> <<stat, user, content>>]

IsTable(answer) == answer.kind = "ACK" /\ answer.op \in {7, 8}

\* encode returns the whole of its 65536 bytes, of which a table fills 13: two
\* zeros stand for the others, since the client reads no further
Padding == <<NUL, NUL>>

\* the four numbers of a user
TableBytes(n) ==
  ShortToBytes(n[1]) \o ShortToBytes(n[2]) \o ShortToBytes(n[3]) \o ShortToBytes(n[4])

\* the strings of process, and what encode makes of them
Encode(answer) ==
  LET f == answer.fields
  IN  CASE IsTable(answer) ->
             Two(10) \o Two(answer.op) \o TableBytes(f[1]) \o <<Semicolon>> \o Padding
        [] answer.kind = "ACK" /\ answer.op = 4 ->
             Two(10) \o Two(4) \o f[1] \o f[2] \o <<NUL, NUL, Semicolon>>
        [] answer.kind = "ACK" /\ answer.op \notin {4, 7, 8} -> Two(10) \o Two(answer.op) \o <<Semicolon>>
        [] answer.kind = "ERROR" -> Two(11) \o Two(answer.op) \o <<Semicolon>>
        [] answer.kind = "NOTIFICATION" ->
             Two(9) \o f[1] \o f[2] \o <<NUL>> \o f[3] \o <<NUL, Semicolon>>
=============================================================================
