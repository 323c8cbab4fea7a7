-------------------------- MODULE ThreadPerClient --------------------------
(***************************************************************************)
(* The server with a thread for each client: srv/BaseServer.java accepts,  *)
(* api/ConnectionHandlerImpl.java reads, decodes and processes the         *)
(* requests of its client and sends, on the streams of any connection.     *)
(*                                                                         *)
(* What the protocol answers is BidiMessagingProtocol's subject: here it   *)
(* is any of the answers that process has for the request, and its         *)
(* notifications go to connections that some User has as its connId.       *)
(*                                                                         *)
(* Connections are their ids, which are given in the order of accept.      *)
(* A thread's steps end where another could notice: the bytes of a message *)
(* are read in the step that processes it, and process returns in the step *)
(* that sends its last answer.                                             *)
(*                                                                         *)
(* close of ConnectionHandlerImpl has no caller and is left out, as is     *)
(* close of BaseServer, which main calls when serve is over.               *)
(***************************************************************************)
EXTENDS Framing

CONSTANTS
  Conn,      \* the connections, 0 .. n
  Window     \* bytes in a socket above which a write blocks

VARIABLES
  \* the connections, as in Client
  link, toServer, toClient,
  \* BaseServer
  serving,       \* serve has not ended
  connectionId,  \* id of the next connection
  \* ConnectionHandlerImpl
  thread,        \* its thread: the step, what it has still to send unless it has ended
  out,           \* what the buffered output stream of a connection holds
  \* the protocol
  connIds,       \* ids that a User has as its connId: LOGIN was accepted there
  \* history variables: no action reads them
  received,      \* requests decoded
  sent           \* answers written to a stream, in order

wireVars == <<link, toServer, toClient>>
serveVars == <<serving, connectionId>>
historyVars == <<received, sent>>
serverVars == <<serveVars, thread, out, connIds, historyVars>>
vars == <<wireVars, serverVars>>

At(c, step) == thread[c].step = step

-----------------------------------------------------------------------------
(* BaseServer.java: serve *)

\* the handler is put into connectionsMap, its protocol gets its id, and its
\* thread is started: one step, since no other thread knows the id before
Accept(c) ==
  /\ serving
  /\ c = connectionId
  /\ link[c] # "none"
  /\ connectionId' = connectionId + 1
  /\ thread' = [thread EXCEPT ![c].step = "started"]
  /\ UNCHANGED <<wireVars, serving, out, connIds, historyVars>>

\* an IOException ends serve; the threads it has started go on
AcceptFails ==
  /\ serving
  /\ serving' = FALSE
  /\ UNCHANGED <<wireVars, connectionId, thread, out, connIds, historyVars>>

\* the ids in connectionsMap, which never loses one
Known == {c \in Conn : c < connectionId}

-----------------------------------------------------------------------------
(* ConnectionHandlerImpl.java: run *)

To(c, answer) == [to |-> c, answer |-> answer]

\* process has still to send; or it returns, and the loop goes on, since
\* shouldTerminate is false and connected true
HasToSend(sends) ==
  [step |-> IF sends = <<>> THEN "read" ELSE "send", sends |-> sends]

\* the stream of c has its buffer; before, out is null
OpenStreams(c) ==
  /\ At(c, "started")
  /\ thread' = [thread EXCEPT ![c].step = "read"]
  /\ UNCHANGED <<wireVars, serveVars, out, connIds, historyVars>>

\* one user's numbers: an age, which may be wrong, and three counters
Numbers == <<-1, 300, 32767, 59>>

\* a notification of what the client of c wrote
NoteOf(content) == Notification(<<Digit(1)>>, <<97>>, content)

\* mutant: whoever is connected is told
TargetsAll == Known

NoConn == -1

\* whom process may notify: the connId of users that logged in, and for PM of any
\* other user as well, whose connId is not that of a connection
Targets == connIds

\* what process may send, in order: nothing for a request it does not know, for
\* FOLLOW by a user that is not active and for LOGSTAT when nobody is.  One
\* notification stands for those of a POST or of a LOGIN, which go to what is the
\* user's connId by then; two answers for those of LOGSTAT, one for each user
Sends(c, request) ==
  LET op == request.op
      refused == <<To(c, Error(op))>>
      accepted == <<To(c, Ack(op))>>
  IN  CASE op \in {1, 3, 12} -> {refused, accepted}
        [] op = 2 -> {refused, accepted}
                       \cup {Append(accepted, To(d, NoteOf(<<>>))) : d \in Targets \cup {c}}
        [] op = 4 -> {refused, <<>>, <<To(c, FollowAck(request.fields[1], request.fields[2]))>>}
        [] op = 5 -> {refused, accepted}
                       \cup {<<To(d, NoteOf(request.fields[1]))>> \o accepted : d \in Targets}
        [] op = 6 -> {refused}
                       \cup IF Contains(request.fields[1], Blank)
                            THEN {<<To(d, NoteOf(request.fields[1]))>> \o accepted :
                                     d \in Targets \cup {NoConn}}
                            ELSE {}
        [] op = 7 -> LET table == <<To(c, Statistics(Numbers))>>
                     IN  {refused, <<>>, table, table \o refused, table \o table}
        [] op = 8 -> {refused}
        [] op = 0 -> {<<>>}

\* STAT throws as soon as somebody has logged in, PM without a text if it is not
\* refused
Throws(request) ==
  \/ request.op = 8 /\ connIds # {}
  \/ request.op = 6 /\ ~Contains(request.fields[1], Blank)

\* the socket is closed when run is left, by its end or by an exception
Closed(c) ==
  /\ link' = [link EXCEPT ![c] = "down"]
  /\ toServer' = [toServer EXCEPT ![c] = <<>>]
  /\ \E s \in Prefixes(toClient[c]) : toClient' = [toClient EXCEPT ![c] = s]

\* the message that has arrived whole, if any
Arrived(c) ==
  IF HasMessage(toServer[c])
  THEN {SubSeq(toServer[c], 1, MessageLength(toServer[c]))}
  ELSE {}

\* the bytes up to a ';' go into the decoder one by one, which nobody sees;
\* then the message is processed
Process(c) ==
  /\ At(c, "read")
  /\ \E message \in Arrived(c) :
       /\ ~Malformed(message)
       /\ \E request \in {ReadRequest(message)} :
            /\ \E sends \in Sends(c, request) :
                 /\ thread' = [thread EXCEPT ![c] = HasToSend(sends)]
                 /\ connIds' = IF request.op = 2 /\ To(c, Ack(2)) \in ToSet(sends)
                               THEN connIds \cup {c} ELSE connIds
            /\ request.op = 8 => connIds = {}
            /\ received' = [received EXCEPT ![c] = Append(@, request)]
       /\ toServer' = [toServer EXCEPT ![c] = SubSeq(@, Len(message) + 2, Len(@))]
  /\ UNCHANGED <<link, toClient, serveVars, out, sent>>

\* an exception of process leaves run: the thread ends
ProcessThrows(c) ==
  /\ At(c, "read")
  /\ \E message \in Arrived(c) : Malformed(message) \/ Throws(ReadRequest(message))
  /\ Closed(c)
  /\ thread' = [thread EXCEPT ![c].step = "ended"]
  /\ UNCHANGED <<serveVars, out, connIds, historyVars>>

\* the year of a user's birthday is no number: LOGSTAT throws where it would have
\* sent this user's numbers, after those of the users before
LogstatThrows(c) ==
  /\ At(c, "send")
  /\ IsTable(Head(thread[c].sends).answer)
  /\ Closed(c)
  /\ thread' = [thread EXCEPT ![c].step = "ended"]
  /\ UNCHANGED <<serveVars, out, connIds, historyVars>>

\* in.read() returns -1, or throws an IOException
ReadEnds(c) ==
  /\ At(c, "read")
  /\ link[c] = "down"
  /\ ~HasMessage(toServer[c])
  /\ Closed(c)
  /\ thread' = [thread EXCEPT ![c].step = "ended"]
  /\ UNCHANGED <<serveVars, out, connIds, historyVars>>

-----------------------------------------------------------------------------
(* ConnectionsImpl.send, ConnectionHandlerImpl.send *)

Sending(c) == At(c, "send")

Receiver(c) == Head(thread[c].sends).to

Answer(c) == Head(thread[c].sends).answer

NextSend(c) == HasToSend(Tail(thread[c].sends))

HasStreams(d) == thread[d].step \notin {"none", "started"}

Noted(c) == sent' = [sent EXCEPT ![Receiver(c)] = Append(@, Answer(c))]

\* no handler has the id: send returns false
SendNowhere(c) ==
  /\ Sending(c)
  /\ Receiver(c) \notin Known
  /\ thread' = [thread EXCEPT ![c] = NextSend(c)]
  /\ UNCHANGED <<wireVars, serveVars, out, connIds, historyVars>>

\* out.write, which locks the stream: the message goes into its buffer at one go
SendWrite(c) ==
  /\ Sending(c)
  /\ Receiver(c) \in Known /\ HasStreams(Receiver(c))
  /\ ~IsTable(Answer(c))
  /\ out' = [out EXCEPT ![Receiver(c)] = @ \o Encode(Answer(c))]
  /\ thread' = [thread EXCEPT ![c].step = "flush"]
  /\ Noted(c)
  /\ UNCHANGED <<wireVars, serveVars, connIds, received>>

Room(d) == Len(toClient[d]) < Window

\* mutant: what does not fit into the buffer goes past what is in it
SendLargeFirst(c) ==
  /\ Sending(c)
  /\ IsTable(Answer(c))
  /\ link[c] = "up" /\ Room(c)
  /\ toClient' = [toClient EXCEPT ![c] = @ \o Encode(Answer(c))]
  /\ thread' = [thread EXCEPT ![c] = NextSend(c)]
  /\ Noted(c)
  /\ UNCHANGED <<link, toServer, serveVars, out, connIds, received>>

\* what does not fit into the buffer: the buffer, then the message are written
\* to the socket; LOGSTAT answers its own connection
SendLarge(c) ==
  /\ Sending(c)
  /\ IsTable(Answer(c))
  /\ link[c] = "up" /\ Room(c)
  /\ toClient' = [toClient EXCEPT ![c] = @ \o out[c] \o Encode(Answer(c))]
  /\ out' = [out EXCEPT ![c] = <<>>]
  /\ thread' = [thread EXCEPT ![c] = NextSend(c)]
  /\ Noted(c)
  /\ UNCHANGED <<link, toServer, serveVars, connIds, received>>

\* mutant: what was flushed stays in the buffer
SendFlushKept(c) ==
  /\ At(c, "flush")
  /\ link[Receiver(c)] = "up" /\ Room(Receiver(c))
  /\ toClient' = [toClient EXCEPT ![Receiver(c)] = @ \o out[Receiver(c)]]
  /\ thread' = [thread EXCEPT ![c] = NextSend(c)]
  /\ UNCHANGED <<link, toServer, serveVars, out, connIds, historyVars>>

\* out.flush: the buffer goes to the socket, also what others wrote into it; it
\* blocks while the socket is full
SendFlush(c) ==
  /\ At(c, "flush")
  /\ link[Receiver(c)] = "up" /\ Room(Receiver(c))
  /\ toClient' = [toClient EXCEPT ![Receiver(c)] = @ \o out[Receiver(c)]]
  /\ out' = [out EXCEPT ![Receiver(c)] = <<>>]
  /\ thread' = [thread EXCEPT ![c] = NextSend(c)]
  /\ UNCHANGED <<link, toServer, serveVars, connIds, historyVars>>

\* an IOException, which send prints; or the bytes are lost with the connection
SendFails(c) ==
  /\ At(c, "flush") \/ (Sending(c) /\ IsTable(Answer(c)))
  /\ link[Receiver(c)] = "down"
  /\ out' = [out EXCEPT ![Receiver(c)] = <<>>]
  /\ thread' = [thread EXCEPT ![c] = NextSend(c)]
  /\ UNCHANGED <<wireVars, serveVars, connIds, historyVars>>

-----------------------------------------------------------------------------
Init ==
  /\ link = [c \in Conn |-> "none"]
  /\ toServer = [c \in Conn |-> <<>>] /\ toClient = [c \in Conn |-> <<>>]
  /\ serving = TRUE
  /\ connectionId = 0
  /\ thread = [c \in Conn |-> [step |-> "none", sends |-> <<>>]]
  /\ out = [c \in Conn |-> <<>>]
  /\ connIds = {}
  /\ received = [c \in Conn |-> <<>>] /\ sent = [c \in Conn |-> <<>>]

ServeStep == AcceptFails \/ \E c \in Conn : Accept(c)

ThreadStep(c) ==
  \/ OpenStreams(c)
  \/ Process(c) \/ ProcessThrows(c) \/ LogstatThrows(c) \/ ReadEnds(c)
  \/ SendNowhere(c) \/ SendWrite(c) \/ SendLarge(c) \/ SendFlush(c) \/ SendFails(c)

ServerStep == ServeStep \/ \E c \in Conn : ThreadStep(c)

Next == ServerStep

-----------------------------------------------------------------------------
TypeOK ==
  /\ serving \in BOOLEAN
  /\ connectionId \in Nat
  /\ \A c \in Conn : /\ thread[c].step \in {"none", "started", "read", "send", "flush", "ended"}
                     /\ \A send \in ToSet(thread[c].sends) : send.to \in Conn \cup {NoConn}
  /\ out \in [Conn -> Seq(0 .. 255)]
  /\ connIds \subseteq Conn
=============================================================================
