------------------------------ MODULE Reactor ------------------------------
(***************************************************************************)
(* srv/Reactor.java with its connections, srv/NonBlockingConnectionHandler *)
(* .java: one selector thread accepts, reads and writes; the threads of an *)
(* ActorThreadPool run the handlers, whose answers go through send into    *)
(* the write queue of a connection.  Of the pool only its promise is used, *)
(* SerialActors, which ActorThreadPool is shown to keep.                   *)
(*                                                                         *)
(* A connection is its id; ids are given in the order of accept, which is  *)
(* that of connecting, so that clients have the ids they will be given.    *)
(* close is called by main only, when serve is over, and is left out.      *)
(***************************************************************************)
EXTENDS Integers, Sequences, FiniteSets

CONSTANTS
  NConn,   \* number of clients
  Asks,    \* number of requests each client may send
  Silent,  \* requests whose handler sends nothing: a FOLLOW by a user logged out
  Bad,     \* requests whose handler throws, before its sends or after some
  MaxSends,  \* bound: messages that one handler sends
  Size,    \* pieces of a message that a socket may take one by one
  Window   \* pieces a socket holds until its client reads them

ASSUME BoundAssumption ==
  /\ NConn \in Nat
  /\ Size \in Nat \ {0} /\ Window \in Nat \ {0}

Conn == 0 .. NConn - 1

\* the n-th request of client c
Request == UNION {{c} \X (1 .. Asks[c]) : c \in Conn}

ASSUME RequestAssumption ==
  /\ Asks \in [Conn -> Nat]
  /\ Silent \subseteq Request /\ Bad \subseteq Request
  /\ MaxSends \in Nat

VARIABLES
  peer,          \* the clients: "absent", "connected", "gone"
  asked,         \* number of requests a client has sent
  inbox,         \* requests sent and not read by the server
  room,          \* pieces the socket can take
  connectionId,  \* id of the next connection
  chan,          \* channels: "none", "open", "closed"; closing cancels the key
  interest,      \* interest sets of the keys
  writeQueue,    \* messages to a connection, each by the request it is about
  written,       \* history: messages written to the end, in order
  selectorTasks, \* connections whose interest set is to become read and write
  wakeup,        \* selector.wakeup() was called since the last select
  loop,          \* the selector thread
  poolOpen, tasks, running,  \* the pool: see SerialActors
  worker         \* the thread that runs the task of a connection

clientVars == <<peer, asked>>
socketVars == <<inbox, room>>
connVars == <<connectionId, chan, interest>>
outVars == <<writeQueue, written>>
selectorVars == <<selectorTasks, wakeup>>
poolVars == <<poolOpen, tasks, running>>
reactorVars ==
  <<clientVars, socketVars, connVars, outVars, selectorVars, loop, poolVars, worker>>

\* what one read returns, and so what one task decodes
Chunk == Seq(Request) \ {<<>>}

Pool == INSTANCE SerialActors WITH
          Act <- Conn, Task <- Chunk,
          open <- poolOpen, queue <- tasks, running <- running

Idle == [step |-> "idle"]

At(step) == loop.step = step

Valid(c) == chan[c] = "open"

\* the connections in the map of ConnectionsImpl, which never loses one
Known == {c \in Conn : chan[c] # "none"}

-----------------------------------------------------------------------------
(* The clients and the network *)

Connect(c) ==
  /\ peer[c] = "absent"
  /\ \A d \in Conn : d < c => peer[d] # "absent"
  /\ peer' = [peer EXCEPT ![c] = "connected"]
  /\ UNCHANGED <<asked, socketVars, connVars, outVars, selectorVars, loop, poolVars, worker>>

Ask(c) ==
  /\ peer[c] = "connected"
  /\ asked[c] < Asks[c]
  /\ asked' = [asked EXCEPT ![c] = @ + 1]
  /\ inbox' = [inbox EXCEPT ![c] = Append(@, <<c, asked[c] + 1>>)]
  /\ UNCHANGED <<peer, room, connVars, outVars, selectorVars, loop, poolVars, worker>>

Drain(c) ==
  /\ peer[c] = "connected"
  /\ room' = [room EXCEPT ![c] = Window]
  /\ UNCHANGED <<clientVars, inbox, connVars, outVars, selectorVars, loop, poolVars, worker>>

\* by close or by failure; a client need not log out first
LeaveServer(c) ==
  /\ peer[c] = "connected"
  /\ peer' = [peer EXCEPT ![c] = "gone"]
  /\ UNCHANGED <<asked, socketVars, connVars, outVars, selectorVars, loop, poolVars, worker>>

-----------------------------------------------------------------------------
(* The selector thread: serve *)

CanAccept == connectionId \in Conn /\ peer[connectionId] # "absent"

ReadyOps(c) ==
  {op \in interest[c] :
     \/ peer[c] = "gone"
     \/ op = "read" /\ inbox[c] # <<>>
     \/ op = "write" /\ room[c] > 0}

\* the keys select returns, each with its ready set
Selected ==
  {[conn |-> c, ready |-> ReadyOps(c)] : c \in {d \in Conn : Valid(d) /\ ReadyOps(d) # {}}}

\* the key, and what remains of the round
Handle(key) == [loop EXCEPT !.step = "keys", !.keys = @ \ {key}]

Select ==
  /\ At("select")
  /\ wakeup \/ CanAccept \/ Selected # {}
  /\ wakeup' = FALSE
  /\ loop' = [loop EXCEPT !.step = "tasks", !.accept = CanAccept, !.keys = Selected]
  /\ UNCHANGED <<clientVars, socketVars, connVars, outVars, selectorTasks, poolVars, worker>>

\* interestOps of a cancelled key throws, and so does keyFor's null: serve
\* catches neither, and pool.shutdown() is not reached
RunTask ==
  /\ At("tasks")
  /\ selectorTasks # <<>>
  /\ LET c == Head(selectorTasks)
     IN  IF Valid(c)
         THEN interest' = [interest EXCEPT ![c] = {"read", "write"}] /\ UNCHANGED loop
         ELSE loop' = [loop EXCEPT !.step = "ended"] /\ UNCHANGED interest
  /\ selectorTasks' = Tail(selectorTasks)
  /\ UNCHANGED <<clientVars, socketVars, connectionId, chan, outVars, wakeup, poolVars, worker>>

TasksDone ==
  /\ At("tasks")
  /\ selectorTasks = <<>>
  /\ loop' = [loop EXCEPT !.step = "keys"]
  /\ UNCHANGED <<clientVars, socketVars, connVars, outVars, selectorVars, poolVars, worker>>

\* map entry, protocol id and key in one step: no other thread knows the id
\* before its client logs in
Accept ==
  /\ At("keys")
  /\ loop.accept
  /\ chan' = [chan EXCEPT ![connectionId] = "open"]
  /\ interest' = [interest EXCEPT ![connectionId] = {"read"}]
  /\ connectionId' = connectionId + 1
  /\ loop' = [loop EXCEPT !.accept = FALSE]
  /\ UNCHANGED <<clientVars, socketVars, outVars, selectorVars, poolVars, worker>>

\* an IOException, for lack of descriptors: serve ends and shuts the pool down
AcceptFails ==
  /\ At("keys")
  /\ loop.accept
  /\ loop' = [loop EXCEPT !.step = "ended"]
  /\ Pool!Shutdown
  /\ UNCHANGED <<clientVars, socketVars, connVars, outVars, selectorVars, worker>>

EndRound ==
  /\ At("keys")
  /\ ~loop.accept
  /\ loop.keys = {}
  /\ loop' = [loop EXCEPT !.step = "select"]
  /\ UNCHANGED <<clientVars, socketVars, connVars, outVars, selectorVars, poolVars, worker>>

-----------------------------------------------------------------------------
(* The selector thread: handleReadWrite, continueRead, continueWrite *)

\* after the read: the write, if the key is valid and was selected for it
Onward(key) ==
  IF "write" \in key.ready
  THEN [Handle(key) EXCEPT !.step = "write", !.conn = key.conn]
  ELSE Handle(key)

\* continueRead: a buffer, with any number of the requests that have arrived,
\* becomes a task
Read(key) ==
  /\ At("keys")
  /\ "read" \in key.ready
  /\ LET c == key.conn
     IN  \E n \in 1 .. Len(inbox[c]) :
           /\ Pool!Submit(c, SubSeq(inbox[c], 1, n))
           /\ inbox' = [inbox EXCEPT ![c] = SubSeq(@, n + 1, Len(@))]
  /\ loop' = Onward(key)
  /\ UNCHANGED <<clientVars, room, connVars, outVars, selectorVars, worker>>

\* continueRead: end of stream, or an IOException
ReadEnd(key) ==
  /\ At("keys")
  /\ "read" \in key.ready
  /\ peer[key.conn] = "gone"
  /\ chan' = [chan EXCEPT ![key.conn] = "closed"]
  /\ loop' = Handle(key)
  /\ UNCHANGED <<clientVars, socketVars, connectionId, interest, outVars, selectorVars, poolVars, worker>>

\* a key selected for writing only
NoRead(key) ==
  /\ At("keys")
  /\ "read" \notin key.ready
  /\ loop' = Onward(key)
  /\ UNCHANGED <<clientVars, socketVars, connVars, outVars, selectorVars, poolVars, worker>>

Finished == [loop EXCEPT !.step = "keys"]

Top == Head(writeQueue[loop.conn])

\* write() on an open channel, with something to write
CanWrite == At("write") /\ writeQueue[loop.conn] # <<>> /\ Valid(loop.conn)

TakeRoom(n) == room' = [room EXCEPT ![loop.conn] = @ - n]

\* mutant: a break where the code returns, and no second look at the queue
WritePartThenReads ==
  /\ CanWrite
  /\ room[loop.conn] < Top.left
  /\ TakeRoom(room[loop.conn])
  /\ writeQueue' = [writeQueue EXCEPT ![loop.conn][1].left = @ - room[loop.conn]]
  /\ loop' = [loop EXCEPT !.step = "reads"]
  /\ UNCHANGED <<clientVars, inbox, connVars, written, selectorVars, poolVars, worker>>

\* mutant: the message leaves the queue for the write, and what remains of it is
\* queued again
WritePartRequeued ==
  /\ CanWrite
  /\ room[loop.conn] < Top.left
  /\ TakeRoom(room[loop.conn])
  /\ writeQueue' = [writeQueue EXCEPT ![loop.conn] =
                      Append(Tail(@), [Top EXCEPT !.left = @ - room[loop.conn]])]
  /\ loop' = Finished
  /\ UNCHANGED <<clientVars, inbox, connVars, written, selectorVars, poolVars, worker>>

\* the socket takes a part of the message, which stays at the head of the queue
WritePart ==
  /\ CanWrite
  /\ room[loop.conn] < Top.left
  /\ TakeRoom(room[loop.conn])
  /\ writeQueue' = [writeQueue EXCEPT ![loop.conn][1].left = @ - room[loop.conn]]
  /\ loop' = Finished
  /\ UNCHANGED <<clientVars, inbox, connVars, written, selectorVars, poolVars, worker>>

\* mutant: no remove
WriteWholeKept ==
  /\ CanWrite
  /\ room[loop.conn] >= Top.left
  /\ TakeRoom(Top.left)
  /\ writeQueue' = [writeQueue EXCEPT ![loop.conn][1].left = 0]
  /\ written' = [written EXCEPT ![loop.conn] = Append(@, Top.about)]
  /\ UNCHANGED <<clientVars, inbox, connVars, selectorVars, loop, poolVars, worker>>

\* it takes the rest of the message, and the loop goes on with the next
WriteWhole ==
  /\ CanWrite
  /\ room[loop.conn] >= Top.left
  /\ TakeRoom(Top.left)
  /\ writeQueue' = [writeQueue EXCEPT ![loop.conn] = Tail(@)]
  /\ written' = [written EXCEPT ![loop.conn] = Append(@, Top.about)]
  /\ UNCHANGED <<clientVars, inbox, connVars, selectorVars, loop, poolVars, worker>>

\* an IOException: the channel is closed, and the loop goes round again with
\* the same message at the head of the queue
WriteFails ==
  /\ At("write")
  /\ writeQueue[loop.conn] # <<>>
  /\ peer[loop.conn] = "gone"
  /\ chan' = [chan EXCEPT ![loop.conn] = "closed"]
  /\ UNCHANGED <<clientVars, socketVars, connectionId, interest, outVars, selectorVars, loop, poolVars, worker>>

\* the loop ends on an empty queue ...
WriteDone ==
  /\ At("write")
  /\ writeQueue[loop.conn] = <<>>
  /\ loop' = [loop EXCEPT !.step = "empty"]
  /\ UNCHANGED <<clientVars, socketVars, connVars, outVars, selectorVars, poolVars, worker>>

\* ... which may have been filled since when it is tested again;
\* shouldTerminate is false in BidiMessagingProtocolImpl
TestEmpty ==
  /\ At("empty")
  /\ loop' = IF writeQueue[loop.conn] = <<>> THEN [loop EXCEPT !.step = "reads"] ELSE Finished
  /\ UNCHANGED <<clientVars, socketVars, connVars, outVars, selectorVars, poolVars, worker>>

\* mutant: the connection ends with its last message, as if shouldTerminate were true
ReadsOnlyClosing ==
  /\ At("reads")
  /\ chan' = [chan EXCEPT ![loop.conn] = "closed"]
  /\ loop' = Finished
  /\ UNCHANGED <<clientVars, socketVars, connectionId, interest, outVars, selectorVars, poolVars, worker>>

\* updateInterestedOps(chan, OP_READ), on the selector thread
ReadsOnly ==
  /\ At("reads")
  /\ interest' = [interest EXCEPT ![loop.conn] = {"read"}]
  /\ loop' = Finished
  /\ UNCHANGED <<clientVars, socketVars, connectionId, chan, outVars, selectorVars, poolVars, worker>>

-----------------------------------------------------------------------------
(* The threads of the pool *)

StartTask(c) ==
  /\ Pool!Start(c)
  /\ worker' = [worker EXCEPT ![c] =
                  [step |-> "decode", chunk |-> Head(tasks[c]), to |-> <<>>]]
  /\ UNCHANGED <<clientVars, socketVars, connVars, outVars, selectorVars, loop>>

\* the connections that the handler of c may send to for r, in order: answers,
\* notifications and the posts that follow a LOGIN's ACK
SendLists(c, r) ==
  {to \in UNION {[1 .. n -> Known] : n \in 0 .. MaxSends} :
     /\ r \in Silent => to = <<>>
     /\ r \notin Silent \cup Bad => \E i \in DOMAIN to : to[i] = c}

\* where process is, with the sends that remain for the head of the chunk: it
\* sends, or throws, or the next request is decoded
AfterSend(chunk, to) ==
  LET step == IF to # <<>> THEN "add" ELSE IF Head(chunk) \in Bad THEN "throw" ELSE "decode"
  IN  [step |-> step, chunk |-> IF step = "decode" THEN Tail(chunk) ELSE chunk, to |-> to]

\* process: what is sent is settled here, and sent by the steps that follow
Process(c) ==
  /\ worker[c].step = "decode"
  /\ worker[c].chunk # <<>>
  /\ \E to \in SendLists(c, Head(worker[c].chunk)) :
       worker' = [worker EXCEPT ![c] = AfterSend(worker[c].chunk, to)]
  /\ UNCHANGED <<clientVars, socketVars, connVars, outVars, selectorVars, loop, poolVars>>

\* the task returns, or an exception of process ends it with what is left
TaskOver(c) ==
  \/ worker[c].step = "decode" /\ worker[c].chunk = <<>>
  \/ worker[c].step = "throw"

\* mutant: no finally: after an exception the task is never completed
EndTaskUnfinished(c) ==
  /\ TaskOver(c)
  /\ IF worker[c].step = "decode" THEN Pool!Finish(c) ELSE UNCHANGED poolVars
  /\ worker' = [worker EXCEPT ![c] = Idle]
  /\ UNCHANGED <<clientVars, socketVars, connVars, outVars, selectorVars, loop>>

EndTask(c) ==
  /\ TaskOver(c)
  /\ Pool!Finish(c)
  /\ worker' = [worker EXCEPT ![c] = Idle]
  /\ UNCHANGED <<clientVars, socketVars, connVars, outVars, selectorVars, loop>>

\* send: writeQueue.add
SendAdd(c) ==
  /\ worker[c].step = "add"
  /\ writeQueue' = [writeQueue EXCEPT ![Head(worker[c].to)] =
                      Append(@, [about |-> Head(worker[c].chunk), left |-> Size])]
  /\ worker' = [worker EXCEPT ![c].step = "update"]
  /\ UNCHANGED <<clientVars, socketVars, connVars, written, selectorVars, loop, poolVars>>

\* after send: the next connection to be told, or the next request
NextSend(c) ==
  worker' = [worker EXCEPT ![c] = AfterSend(worker[c].chunk, Tail(worker[c].to))]

\* mutant: no wakeup
SendUpdateSilently(c) ==
  /\ worker[c].step = "update"
  /\ selectorTasks' = Append(selectorTasks, Head(worker[c].to))
  /\ NextSend(c)
  /\ UNCHANGED <<clientVars, socketVars, connVars, outVars, wakeup, loop, poolVars>>

\* send: updateInterestedOps, off the selector thread
SendUpdate(c) ==
  /\ worker[c].step = "update"
  /\ selectorTasks' = Append(selectorTasks, Head(worker[c].to))
  /\ worker' = [worker EXCEPT ![c].step = "wakeup"]
  /\ UNCHANGED <<clientVars, socketVars, connVars, outVars, wakeup, loop, poolVars>>

SendWakeup(c) ==
  /\ worker[c].step = "wakeup"
  /\ wakeup' = TRUE
  /\ NextSend(c)
  /\ UNCHANGED <<clientVars, socketVars, connVars, outVars, selectorTasks, loop, poolVars>>

-----------------------------------------------------------------------------
Init ==
  /\ peer = [c \in Conn |-> "absent"]
  /\ asked = [c \in Conn |-> 0]
  /\ inbox = [c \in Conn |-> <<>>]
  /\ room = [c \in Conn |-> Window]
  /\ connectionId = 0
  /\ chan = [c \in Conn |-> "none"]
  /\ interest = [c \in Conn |-> {}]
  /\ writeQueue = [c \in Conn |-> <<>>]
  /\ written = [c \in Conn |-> <<>>]
  /\ selectorTasks = <<>>
  /\ wakeup = FALSE
  /\ loop = [step |-> "select", accept |-> FALSE, keys |-> {}, conn |-> 0]
  /\ Pool!Init
  /\ worker = [c \in Conn |-> Idle]

ClientStep(c) == Connect(c) \/ Ask(c) \/ Drain(c) \/ LeaveServer(c)

LoopStep ==
  \/ Select \/ RunTask \/ TasksDone
  \/ Accept \/ AcceptFails \/ EndRound
  \/ \E key \in loop.keys : Read(key) \/ ReadEnd(key) \/ NoRead(key)
  \/ WritePart \/ WriteWhole \/ WriteFails \/ WriteDone \/ TestEmpty \/ ReadsOnly

WorkerStep(c) ==
  \/ StartTask(c) \/ Process(c) \/ EndTask(c)
  \/ SendAdd(c) \/ SendUpdate(c) \/ SendWakeup(c)

Next == LoopStep \/ \E c \in Conn : ClientStep(c) \/ WorkerStep(c)

Spec == Init /\ [][Next]_reactorVars

\* the server's threads go on, and a client reads what is sent to it; nothing
\* makes it connect, ask or leave
FairSpec ==
  /\ Spec
  /\ WF_reactorVars(LoopStep)
  /\ \A c \in Conn : WF_reactorVars(WorkerStep(c)) /\ WF_reactorVars(Drain(c))

-----------------------------------------------------------------------------
(* Type correctness; no message in a write queue is used up *)

Message == [about : Request, left : 1 .. Size]

Steps == {"select", "tasks", "keys", "write", "empty", "reads", "ended"}

Loop == [step : Steps, accept : BOOLEAN,
         keys : SUBSET [conn : Conn, ready : SUBSET {"read", "write"}], conn : Conn \cup {0}]

Task == [step : {"decode", "add", "update", "wakeup", "throw"}, chunk : Seq(Request), to : Seq(Conn)]

TypeOK ==
  /\ peer \in [Conn -> {"absent", "connected", "gone"}]
  /\ asked \in [Conn -> Nat] /\ \A c \in Conn : asked[c] <= Asks[c]
  /\ inbox \in [Conn -> Seq(Request)]
  /\ room \in [Conn -> 0 .. Window]
  /\ connectionId \in 0 .. NConn
  /\ chan \in [Conn -> {"none", "open", "closed"}]
  /\ interest \in [Conn -> SUBSET {"read", "write"}]
  /\ writeQueue \in [Conn -> Seq(Message)]
  /\ written \in [Conn -> Seq(Request)]
  /\ selectorTasks \in Seq(Conn)
  /\ wakeup \in BOOLEAN
  /\ loop \in Loop
  /\ poolOpen \in BOOLEAN
  /\ tasks \in [Conn -> Seq(Chunk)]
  /\ running \in [Conn -> SUBSET Chunk]
  /\ worker \in [Conn -> Task \cup {Idle}]

(***************************************************************************)
(* No interest in writing is lost between send, on a pool thread, and the  *)
(* end of continueWrite, on the selector thread: while an open connection  *)
(* has something to write, its key is interested in writing, or will be by *)
(* a task of the selector thread or a send under way.                      *)
(***************************************************************************)
WriteInterestKept ==
  \A c \in Conn :
    chan[c] = "open" /\ writeQueue[c] # <<>> =>
      \/ "write" \in interest[c]
      \/ \E i \in DOMAIN selectorTasks : selectorTasks[i] = c
      \/ \E d \in Conn : worker[d].step = "update" /\ Head(worker[d].to) = c
      \/ loop.step = "ended"

(***************************************************************************)
(* The selector thread does not sleep on its tasks: while select may block *)
(* with one waiting, a wakeup was called or is about to be.                *)
(***************************************************************************)
TasksWakeSelector ==
  At("select") /\ selectorTasks # <<>> =>
    wakeup \/ \E c \in Conn : worker[c].step = "wakeup"

\* the requests that messages to c are about, written or in its queue
Told(c) == written[c] \o [i \in DOMAIN writeQueue[c] |-> writeQueue[c][i].about]

(***************************************************************************)
(* Through the selector, the pool's tasks and the write queue, a client is *)
(* answered in the order of its requests, whatever others are told of them *)
(* and however many messages answer one.                                   *)
(***************************************************************************)
RepliesInOrder ==
  \A c \in Conn : \A i, j \in DOMAIN Told(c) :
    i < j /\ Told(c)[i][1] = c /\ Told(c)[j][1] = c => Told(c)[i][2] <= Told(c)[j][2]

(***************************************************************************)
(* What is left of a message at the head of a queue is written before any  *)
(* other: only the head may have been written in part.                     *)
(***************************************************************************)
MessagesWhole ==
  \A c \in Conn : \A i \in DOMAIN writeQueue[c] : i > 1 => writeQueue[c][i].left = Size

(***************************************************************************)
(* serve ends only when accept failed, or when some client was gone and    *)
(* its channel closed.                                                     *)
(***************************************************************************)
ServeEndsByLeaving ==
  At("ended") =>
    \/ ~poolOpen
    \/ \E c \in Conn : peer[c] = "gone" /\ chan[c] = "closed"

\* the selector thread writes to a channel it has closed, for ever
Stuck == At("write") /\ chan[loop.conn] = "closed"

Arrived(r) == \E i \in DOMAIN inbox[r[1]] : inbox[r[1]][i] = r

Answered(r) == \E i \in DOMAIN written[r[1]] : written[r[1]][i] = r

\* r is in a buffer whose task an exception of process ends, for r or before it
Dropped(r) ==
  /\ worker[r[1]].step = "throw"
  /\ \E i \in DOMAIN worker[r[1]].chunk : worker[r[1]].chunk[i] = r

(***************************************************************************)
(* A request that has arrived is answered, unless the code has no answer   *)
(* for it, its client leaves or the selector thread is lost.  An exception *)
(* of process costs what follows it in its own buffer, and not the buffers *)
(* that wait behind it.                                                    *)
(***************************************************************************)
RequestsAnswered ==
  \A r \in Request \ Silent :
    Arrived(r) ~>
      Answered(r) \/ Dropped(r) \/ peer[r[1]] = "gone" \/ At("ended") \/ Stuck
=============================================================================
