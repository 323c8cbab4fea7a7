------------------------------- MODULE Client -------------------------------
(***************************************************************************)
(* The client program, src/client: the keyboard thread, which encodes and  *)
(* sends what the user types, the socket thread, which decodes and prints  *)
(* what the server sends, and the flags of connectionHandler they share.   *)
(* Several clients run, one for each connection.                           *)
(*                                                                         *)
(* The three flags are plain bools: the build has no optimisation (-g      *)
(* only) and reads them by calls into another file, so that every test     *)
(* reads the flag again.                                                   *)
(*                                                                         *)
(* A read takes a field as soon as all of it has arrived, where getBytes   *)
(* and getFrameAscii collect it piece by piece: nobody else sees the       *)
(* pieces, and a connection that ends within a field is a case of its own. *)
(* What a thread does between two looks at shared state is one step: a     *)
(* line is encoded and sent in the step that types it, and the socket      *)
(* thread, which alone sets terminate, tests it as it prints an answer.    *)
(***************************************************************************)
EXTENDS Framing

CONSTANTS
  Conn,     \* the connections
  Lines,    \* what the user of a client may type, line by line; bounds the run
  Faulty    \* clients that fail to start, or whose connection or input ends; bounds the run

VARIABLES
  \* the connections
  link,          \* "none", "up", "down"
  toServer,      \* bytes written by the client and not read by the server
  toClient,      \* bytes written by the server and not read by the client
  \* connectionHandler
  terminate,
  logoutSent,
  logoutFailed,
  \* threads
  process,       \* "running", "misread" or "cutOff" (both abort), "exited"
  keyboard,      \* the step of the keyboard thread
  stdin,         \* cin: "ok", "failed"
  reader,        \* the socket thread: its step and the answer it decodes
  \* history variables: no action reads them
  typed,         \* lines sent, but for those that Encoder does not know
  printed        \* answers printed, as they were decoded

wireVars == <<link, toServer, toClient>>
flagVars == <<terminate, logoutSent, logoutFailed>>
keyboardVars == <<keyboard, stdin, typed>>
readerVars == <<reader, printed>>
clientVars == <<flagVars, process, keyboardVars, readerVars>>
vars == <<wireVars, clientVars>>

\* what a client may still read of s when its connection ends; and a server,
\* which has no use for a message without its end
ArrivesAtClient(s) == Prefixes(s)
ArrivesAtServer(s) == {p \in Prefixes(s) : p # <<>> => Last(p) = Semicolon}

NoAnswer == [kind |-> "none", op |-> 0, fields |-> <<>>]

-----------------------------------------------------------------------------
(* client.cpp: main *)

\* the constructor of connectionHandler, connect, and the two threads
Start(c) ==
  /\ process[c] = "running"
  /\ link[c] = "none"
  /\ link' = [link EXCEPT ![c] = "up"]
  /\ keyboard' = [keyboard EXCEPT ![c] = "test"]
  /\ reader' = [reader EXCEPT ![c].step = "opCode"]
  /\ UNCHANGED <<toServer, toClient, flagVars, process, stdin, typed, printed>>

\* connect returned false
StartFails(c) ==
  /\ c \in Faulty
  /\ process[c] = "running"
  /\ link[c] = "none"
  /\ process' = [process EXCEPT ![c] = "exited"]
  /\ UNCHANGED <<wireVars, flagVars, keyboardVars, readerVars>>

\* the socket of a process is closed with it
Closed(c) ==
  /\ link' = [link EXCEPT ![c] = "down"]
  /\ toClient' = [toClient EXCEPT ![c] = <<>>]
  /\ \E s \in ArrivesAtServer(toServer[c]) : toServer' = [toServer EXCEPT ![c] = s]

\* both threads are joined; the destructor of connectionHandler calls close
Exit(c) ==
  /\ process[c] = "running"
  /\ keyboard[c] = "done" /\ reader[c].step = "done"
  /\ process' = [process EXCEPT ![c] = "exited"]
  /\ Closed(c)
  /\ UNCHANGED <<flagVars, keyboardVars, readerVars>>

-----------------------------------------------------------------------------
(* readFromKeyboardThread.cpp: run *)

KeyboardAt(c, step) == process[c] = "running" /\ keyboard[c] = step

KeyboardTo(c, step) == keyboard' = [keyboard EXCEPT ![c] = step]

KeyboardTest(c) ==
  /\ KeyboardAt(c, "test")
  /\ KeyboardTo(c, IF terminate[c] THEN "done" ELSE "getline")
  /\ UNCHANGED <<wireVars, flagVars, process, stdin, typed, readerVars>>

ExactLogout == [word |-> "LOGOUT", rest |-> <<>>]

\* sendLine and what follows it in the loop: Encoder notes a LOGOUT; sendBytes
\* succeeds, though the bytes may be lost with the connection, or ends the loop.
\* The test for "LOGOUT" takes seven characters: it fails if any follows the word
SendLine(c, line) ==
  /\ logoutSent' = [logoutSent EXCEPT ![c] = @ \/ line.word = "LOGOUT"]
  /\ typed' = IF Encoder(line) = <<>> THEN typed ELSE [typed EXCEPT ![c] = Append(@, line)]
  /\ \/ /\ toServer' = IF link[c] = "up"
                        THEN [toServer EXCEPT ![c] = @ \o Encoder(line)]
                        ELSE toServer
        /\ KeyboardTo(c, IF line = ExactLogout THEN "wait" ELSE "test")
     \/ /\ link[c] = "down" /\ Encoder(line) # <<>>
        /\ KeyboardTo(c, "done")
        /\ UNCHANGED toServer
  /\ UNCHANGED <<link, toClient, terminate, logoutFailed, process, readerVars>>

MayType(c) ==
  IF Len(typed[c]) < Len(Lines[c]) THEN Lines[c][Len(typed[c]) + 1] ELSE {}

\* getline returns with a line, while the user types any
Type(c) ==
  /\ KeyboardAt(c, "getline")
  /\ stdin[c] = "ok"
  /\ \E line \in MayType(c) : SendLine(c, line)
  /\ UNCHANGED stdin

\* a line of more than 1023 characters: it is cut off, and cin has failed
TypeTooLong(c) ==
  /\ c \in Faulty
  /\ KeyboardAt(c, "getline")
  /\ stdin[c] = "ok"
  /\ \E line \in MayType(c) : line.word = "POST" /\ SendLine(c, line)
  /\ stdin' = [stdin EXCEPT ![c] = "failed"]

\* end of input
InputEnds(c) ==
  /\ c \in Faulty
  /\ KeyboardAt(c, "getline")
  /\ stdin[c] = "ok"
  /\ SendLine(c, EmptyLine)
  /\ stdin' = [stdin EXCEPT ![c] = "failed"]

\* once cin has failed, getline returns at once, with an empty line
GetNothing(c) ==
  /\ KeyboardAt(c, "getline")
  /\ stdin[c] = "failed"
  /\ SendLine(c, EmptyLine)
  /\ UNCHANGED stdin

\* mutant: the inner loop ends by a refusal only
WaitEndsRefused(c) ==
  /\ KeyboardAt(c, "wait")
  /\ logoutFailed[c]
  /\ KeyboardTo(c, "reset")
  /\ UNCHANGED <<wireVars, flagVars, process, stdin, typed, readerVars>>

\* the inner loop ends
WaitEnds(c) ==
  /\ KeyboardAt(c, "wait")
  /\ terminate[c] \/ logoutFailed[c]
  /\ KeyboardTo(c, "reset")
  /\ UNCHANGED <<wireVars, flagVars, process, stdin, typed, readerVars>>

\* mutant: the refusal is left for the next LOGOUT
ResetLogoutSent(c) ==
  /\ KeyboardAt(c, "reset")
  /\ logoutSent' = [logoutSent EXCEPT ![c] = FALSE]
  /\ KeyboardTo(c, "test")
  /\ UNCHANGED <<wireVars, terminate, logoutFailed, process, stdin, typed, readerVars>>

ResetLogout(c) ==
  /\ KeyboardAt(c, "reset")
  /\ logoutSent' = [logoutSent EXCEPT ![c] = FALSE]
  /\ logoutFailed' = [logoutFailed EXCEPT ![c] = FALSE]
  /\ KeyboardTo(c, "test")
  /\ UNCHANGED <<wireVars, terminate, process, stdin, typed, readerVars>>

-----------------------------------------------------------------------------
(* readFromSocketThread.cpp: run, and decoder with its parts *)

\* the bytes a step reads by getBytes
Size == [opCode |-> 2, stat |-> 1, messageOpcode |-> 2, action |-> 2, extra |-> 1,
         arguments |-> 8, arg |-> 2, last |-> 1]

\* the strings read by getFrameAscii, up to a NUL
Frames == {"postingUser", "content", "userName"}

\* what is read after a part of the answer
After == [stat |-> "postingUser", postingUser |-> "content", content |-> "last",
          action |-> "userName", userName |-> "extra", extra |-> "last", arguments |-> "last"]

ReaderAt(c, step) == process[c] = "running" /\ reader[c].step = step

\* getBytes: the bytes have arrived
CanGet(c, step) == ReaderAt(c, step) /\ Len(toClient[c]) >= Size[step]

Got(c, step) == SubSeq(toClient[c], 1, Size[step])

Consume(c, n) == toClient' = [toClient EXCEPT ![c] = SubSeq(@, n + 1, Len(@))]

\* the fields decoded so far, with one more
Field(c, f) == [reader[c].answer EXCEPT !.fields = Append(@, f)]

OnTo(c, step, answer) == reader' = [reader EXCEPT ![c] = [step |-> step, answer |-> answer]]

DecodeOpcode(c) ==
  /\ CanGet(c, "opCode")
  /\ Consume(c, 2)
  /\ \/ /\ Got(c, "opCode") = Two(9)
        /\ OnTo(c, "stat", [NoAnswer EXCEPT !.kind = "NOTIFICATION", !.op = 9])
     \/ /\ Got(c, "opCode") = Two(10)
        /\ OnTo(c, "messageOpcode", [NoAnswer EXCEPT !.kind = "ACK"])
     \/ /\ Got(c, "opCode") = Two(11)
        /\ OnTo(c, "arg", [NoAnswer EXCEPT !.kind = "ERROR"])
  /\ UNCHANGED <<link, toServer, flagVars, process, keyboardVars, printed>>

\* no such frame: the std::string made from NULL throws, and nothing catches it
DecodeNothing(c) ==
  /\ CanGet(c, "opCode")
  /\ Got(c, "opCode") \notin {Two(9), Two(10), Two(11)}
  /\ process' = [process EXCEPT ![c] = "misread"]
  /\ Closed(c)
  /\ UNCHANGED <<flagVars, keyboardVars, readerVars>>

Number(b) == 10 * (b[1] - Digit(0)) + b[2] - Digit(0)

\* ackDecoder.  The two characters are also put into what is printed, as if they ended
\* with a NUL: other characters may follow them there, which the answer here, that
\* the flags depend on, leaves out
DecodeAck(c) ==
  /\ CanGet(c, "messageOpcode")
  /\ Consume(c, 2)
  /\ LET op == Number(Got(c, "messageOpcode"))
     IN  /\ terminate' = [terminate EXCEPT ![c] = @ \/ op = 3]
         /\ OnTo(c,
                 CASE op = 4 -> "action" [] op \in {7, 8} -> "arguments" [] OTHER -> "last",
                 [reader[c].answer EXCEPT !.op = op])
  /\ UNCHANGED <<link, toServer, logoutSent, logoutFailed, process, keyboardVars, printed>>

\* mutant: a refused LOGOUT is not noted
DecodeErrorSilently(c) ==
  /\ CanGet(c, "arg")
  /\ Consume(c, 2)
  /\ OnTo(c, "last", [reader[c].answer EXCEPT !.op = Number(Got(c, "arg"))])
  /\ UNCHANGED <<link, toServer, flagVars, process, keyboardVars, printed>>

\* errorDecoder
DecodeError(c) ==
  /\ CanGet(c, "arg")
  /\ Consume(c, 2)
  /\ LET op == Number(Got(c, "arg"))
     IN  /\ logoutFailed' = [logoutFailed EXCEPT ![c] = @ \/ op = 3]
         /\ OnTo(c, "last", [reader[c].answer EXCEPT !.op = op])
  /\ UNCHANGED <<link, toServer, terminate, logoutSent, process, keyboardVars, printed>>

\* the four arguments, by bytesToShort
Numbers(b) == [i \in 1 .. 4 |-> BytesToShort(<<b[2 * i - 1], b[2 * i]>>)]

\* a part that getBytes reads
DecodeBytes(c, step) ==
  /\ CanGet(c, step)
  /\ Consume(c, Size[step])
  /\ OnTo(c, After[step],
          CASE step = "extra" -> reader[c].answer
            [] step = "arguments" -> Field(c, Numbers(Got(c, step)))
            [] OTHER -> Field(c, Got(c, step)))
  /\ UNCHANGED <<link, toServer, flagVars, process, keyboardVars, printed>>

\* where the NUL is that ends the frame; 0 if it has not arrived
FrameEnd(c) == SelectInSeq(toClient[c], LAMBDA b : b = NUL)

\* mutant: the NUL is left in the socket
DecodeFrameShort(c, step) ==
  /\ ReaderAt(c, step)
  /\ FrameEnd(c) # 0
  /\ Consume(c, FrameEnd(c) - 1)
  /\ OnTo(c, After[step], Field(c, SubSeq(toClient[c], 1, FrameEnd(c) - 1)))
  /\ UNCHANGED <<link, toServer, flagVars, process, keyboardVars, printed>>

\* a part that getFrameAscii reads
DecodeFrame(c, step) ==
  /\ ReaderAt(c, step)
  /\ FrameEnd(c) # 0
  /\ Consume(c, FrameEnd(c))
  /\ OnTo(c, After[step], Field(c, SubSeq(toClient[c], 1, FrameEnd(c) - 1)))
  /\ UNCHANGED <<link, toServer, flagVars, process, keyboardVars, printed>>

\* the last byte of a frame; the answer is printed.  An ACK has a blank after its
\* opcode and never equals "ACK 03": the rest of the loop is not reached
PrintAnswer(c) ==
  /\ CanGet(c, "last")
  /\ Consume(c, 1)
  /\ printed' = [printed EXCEPT ![c] = Append(@, reader[c].answer)]
  /\ OnTo(c, IF terminate[c] THEN "done" ELSE "opCode", NoAnswer)
  /\ UNCHANGED <<link, toServer, flagVars, process, keyboardVars>>

\* getBytes returns false, and the decoder NULL, which throws
ReadFails(c, step) ==
  /\ ReaderAt(c, step)
  /\ link[c] = "down"
  /\ Len(toClient[c]) < Size[step]
  /\ process' = [process EXCEPT ![c] = "cutOff"]
  /\ UNCHANGED <<wireVars, flagVars, keyboardVars, readerVars>>

CutFrame(c, step) == ReaderAt(c, step) /\ link[c] = "down" /\ FrameEnd(c) = 0

\* getFrameAscii pays no heed to getBytes: it appends the last byte it has read
\* again and again, as long as there is memory for it
FrameRepeats(c, step) ==
  /\ CutFrame(c, step)
  /\ reader' = [reader EXCEPT ![c].step = "repeat"]
  /\ toClient' = [toClient EXCEPT ![c] = <<>>]
  /\ UNCHANGED <<link, toServer, flagVars, process, keyboardVars, printed>>

\* it has read none, and ch, never written, happens to be NUL
FrameOfNothing(c, step) ==
  /\ CutFrame(c, step)
  /\ toClient[c] = <<>>
  /\ OnTo(c, After[step], Field(c, <<>>))
  /\ UNCHANGED <<wireVars, flagVars, process, keyboardVars, printed>>

-----------------------------------------------------------------------------
(* The network may end a connection *)

Lose(c) ==
  /\ c \in Faulty
  /\ link[c] = "up"
  /\ link' = [link EXCEPT ![c] = "down"]
  /\ \E s \in ArrivesAtClient(toClient[c]) : toClient' = [toClient EXCEPT ![c] = s]
  /\ \E s \in ArrivesAtServer(toServer[c]) : toServer' = [toServer EXCEPT ![c] = s]
  /\ UNCHANGED clientVars

-----------------------------------------------------------------------------
Init ==
  /\ link = [c \in Conn |-> "none"]
  /\ toServer = [c \in Conn |-> <<>>] /\ toClient = [c \in Conn |-> <<>>]
  /\ terminate = [c \in Conn |-> FALSE]
  /\ logoutSent = [c \in Conn |-> FALSE] /\ logoutFailed = [c \in Conn |-> FALSE]
  /\ process = [c \in Conn |-> "running"]
  /\ keyboard = [c \in Conn |-> "none"]
  /\ stdin = [c \in Conn |-> "ok"]
  /\ reader = [c \in Conn |-> [step |-> "none", answer |-> NoAnswer]]
  /\ typed = [c \in Conn |-> <<>>] /\ printed = [c \in Conn |-> <<>>]

MainStep(c) == Start(c) \/ StartFails(c) \/ Exit(c)

UserStep(c) == Type(c) \/ InputEnds(c) \/ TypeTooLong(c)

KeyboardStep(c) ==
  KeyboardTest(c) \/ GetNothing(c) \/ WaitEnds(c) \/ ResetLogout(c)

ReaderStep(c) ==
  \/ DecodeOpcode(c) \/ DecodeNothing(c)
  \/ DecodeAck(c) \/ DecodeError(c) \/ PrintAnswer(c)
  \/ \E step \in {"stat", "action", "extra", "arguments"} : DecodeBytes(c, step)
  \/ \E step \in Frames :
       DecodeFrame(c, step) \/ FrameRepeats(c, step) \/ FrameOfNothing(c, step)
  \/ \E step \in DOMAIN Size : ReadFails(c, step)

ClientStep(c) == MainStep(c) \/ UserStep(c) \/ KeyboardStep(c) \/ ReaderStep(c)

Next == \E c \in Conn : ClientStep(c) \/ Lose(c)

-----------------------------------------------------------------------------
ReaderSteps == {"none", "done", "repeat"} \cup DOMAIN Size \cup Frames

Line == (UNION {UNION {Lines[c][i] : i \in DOMAIN Lines[c]} : c \in Conn}) \cup {EmptyLine}

TypeOK ==
  /\ link \in [Conn -> {"none", "up", "down"}]
  /\ toServer \in [Conn -> Seq(0 .. 255)] /\ toClient \in [Conn -> Seq(0 .. 255)]
  /\ terminate \in [Conn -> BOOLEAN]
  /\ logoutSent \in [Conn -> BOOLEAN] /\ logoutFailed \in [Conn -> BOOLEAN]
  /\ process \in [Conn -> {"running", "misread", "cutOff", "exited"}]
  /\ keyboard \in [Conn -> {"none", "test", "getline", "wait", "reset", "done"}]
  /\ stdin \in [Conn -> {"ok", "failed"}]
  /\ \A c \in Conn : reader[c].step \in ReaderSteps
  /\ typed \in [Conn -> Seq(Line)]
=============================================================================
