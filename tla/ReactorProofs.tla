--------------------------- MODULE ReactorProofs ---------------------------
(***************************************************************************)
(* Theorems about Reactor, for every number of clients and requests, every *)
(* set of requests that fail and every size of messages and sockets.       *)
(***************************************************************************)
EXTENDS Reactor, SequenceTheorems, TLAPS

-----------------------------------------------------------------------------
(* The inductive invariant *)

\* what the selector thread has in its hands are connections it has accepted,
\* or the one it is about to accept
LoopInv ==
  /\ loop.accept => connectionId \in Conn
  /\ \A key \in loop.keys : key.conn \in Known
  /\ loop.step \in {"write", "empty", "reads"} => loop.conn \in Known

\* c is in a send of its handler
Sends(c) == worker[c].step \in {"add", "update", "wakeup"}

\* a handler that sends has a request, and accepted connections to send to
SendInv ==
  \A c \in Conn : Sends(c) =>
    worker[c].chunk # <<>> /\ worker[c].to \in Seq(Known) /\ worker[c].to # <<>>

\* nothing is kept for a connection that was not accepted
KnownInv ==
  /\ \A c \in Conn : c >= connectionId => chan[c] = "none"
  /\ \A c \in Conn : chan[c] = "none" =>
       writeQueue[c] = <<>> /\ tasks[c] = <<>> /\ worker[c] = Idle
  /\ \A i \in DOMAIN selectorTasks : selectorTasks[i] \in Known

\* a handler under way is a task the pool counts as running
PoolInv == \A c \in Conn : worker[c] # Idle => running[c] # {}

\* c is to be made interested in writing, by a task or by a send before it
Pending(c) ==
  \/ \E i \in DOMAIN selectorTasks : selectorTasks[i] = c
  \/ \E d \in Conn : worker[d].step = "update" /\ Head(worker[d].to) = c

\* what was added since the selector thread saw an empty queue is announced
ReadsInv == At("reads") /\ writeQueue[loop.conn] # <<>> => Pending(loop.conn)

\* tasks that came since the selector thread went through them come with a wakeup
WakeInv ==
  loop.step \notin {"tasks", "ended"} /\ selectorTasks # <<>> =>
    wakeup \/ \E c \in Conn : worker[c].step = "wakeup"

\* only a client that is gone has its channel closed
ClosedInv == \A c \in Conn : chan[c] = "closed" => peer[c] = "gone"

IInv ==
  /\ TypeOK /\ LoopInv /\ SendInv /\ KnownInv /\ PoolInv
  /\ ReadsInv /\ WriteInterestKept
  /\ WakeInv
  /\ ClosedInv /\ ServeEndsByLeaving
  /\ MessagesWhole

-----------------------------------------------------------------------------
(* Lemmas about the fields of the threads *)

\* connections are numbered from 0
LEMMA ConnFacts == Conn \subseteq Nat /\ NConn \in Nat
BY BoundAssumption DEF Conn

\* a thread that is not idle has a chunk and connections to tell
LEMMA WorkerFields ==
  ASSUME TypeOK, NEW c \in Conn, worker[c].step # "idle"
  PROVE  /\ worker[c] \in Task /\ worker[c] # Idle
         /\ worker[c].chunk \in Seq(Request) /\ worker[c].to \in Seq(Conn)
BY DEF TypeOK, Idle, Task

(***************************************************************************)
(* A handler that sends has a request, and a connection to send to.        *)
(***************************************************************************)
LEMMA SendFields ==
  ASSUME TypeOK, SendInv, KnownInv, NEW c \in Conn, Sends(c)
  PROVE  /\ worker[c].chunk # <<>> /\ Head(worker[c].chunk) \in Request
         /\ worker[c].to # <<>> /\ Head(worker[c].to) \in Known
         /\ c \in Known
<1>1. worker[c].chunk # <<>> /\ worker[c].chunk \in Seq(Request)
  BY WorkerFields DEF SendInv, Sends
<1>2. Head(worker[c].chunk) \in Request
  BY <1>1, HeadTailProperties
<1>3. c \in Known
  BY DEF KnownInv, Known, Sends, Idle
<1>4. worker[c].to # <<>> /\ Head(worker[c].to) \in Known
  BY HeadTailProperties DEF SendInv
<1>5. QED
  BY <1>1, <1>2, <1>3, <1>4

\* the handler of c goes on to its next connection, throws, or goes on to its next
\* request
GoesOn(c) ==
  /\ \/ worker'[c].step \in {"add", "throw"} /\ worker'[c].chunk = worker[c].chunk
     \/ worker'[c].step = "decode" /\ worker'[c].chunk = Tail(worker[c].chunk)
  /\ worker'[c].step = "add" => worker'[c].to \in Seq(Known) /\ worker'[c].to # <<>>

(***************************************************************************)
(* So does a handler that is left with some connections to tell, or none.  *)
(***************************************************************************)
LEMMA AfterSendFields ==
  ASSUME TypeOK, NEW c \in Conn, worker[c].step # "idle", worker[c].chunk # <<>>,
         NEW to \in Seq(Known), worker' = [worker EXCEPT ![c] = AfterSend(worker[c].chunk, to)]
  PROVE  /\ worker' \in [Conn -> Task \cup {Idle}]
         /\ \A d \in Conn : d # c => worker'[d] = worker[d]
         /\ GoesOn(c)
<1>1. PICK chunk \in Seq(Request) : chunk = worker[c].chunk /\ chunk # <<>>
  BY WorkerFields
<1>2. PICK rest \in Seq(Request) : rest = Tail(chunk)
  BY <1>1, HeadTailProperties
<1>3. to \in Seq(Conn)
  BY SeqMonotonic DEF Known
<1>4. PICK next : next = AfterSend(chunk, to)
  OBVIOUS
<1>5. \/ to # <<>> /\ next = [step |-> "add", chunk |-> chunk, to |-> to]
      \/ next = [step |-> "throw", chunk |-> chunk, to |-> to]
      \/ next = [step |-> "decode", chunk |-> rest, to |-> to]
  BY <1>2, <1>4 DEF AfterSend
<1>6. next \in Task
  BY <1>1, <1>3, <1>5 DEF Task
<1>7. worker'[c] = next /\ \A d \in Conn : d # c => worker'[d] = worker[d]
  BY <1>1, <1>4 DEF TypeOK
<1>8. worker' \in [Conn -> Task \cup {Idle}]
  BY <1>1, <1>4, <1>6 DEF TypeOK
<1>9. GoesOn(c)
  <2>1. CASE to # <<>> /\ next = [step |-> "add", chunk |-> chunk, to |-> to]
    BY <1>1, <1>7, <2>1 DEF GoesOn
  <2>2. CASE next = [step |-> "throw", chunk |-> chunk, to |-> to]
    BY <1>1, <1>7, <2>2 DEF GoesOn
  <2>3. CASE next = [step |-> "decode", chunk |-> rest, to |-> to]
    <3>1. worker'[c].step = "decode" /\ worker'[c].chunk = rest
      BY <1>7, <2>3
    <3>2. rest = Tail(worker[c].chunk)
      BY <1>1, <1>2
    <3>3. QED
      BY <3>1, <3>2 DEF GoesOn
  <2>4. QED
    BY <1>5, <2>1, <2>2, <2>3
<1>10. QED
  BY <1>7, <1>8, <1>9

\* a handler sends to accepted connections, each time process runs
LEMMA ProcessFields ==
  ASSUME TypeOK, NEW c \in Conn, Process(c)
  PROVE  /\ worker[c].chunk # <<>>
         /\ worker' \in [Conn -> Task \cup {Idle}]
         /\ \A d \in Conn : d # c => worker'[d] = worker[d]
         /\ GoesOn(c)
<1>1. PICK to \in SendLists(c, Head(worker[c].chunk)) :
        worker' = [worker EXCEPT ![c] = AfterSend(worker[c].chunk, to)]
  BY DEF Process
<1>2. PICK n \in 0 .. MaxSends : to \in [1 .. n -> Known]
  BY <1>1 DEF SendLists
<1>3. n \in Nat
  BY <1>2, RequestAssumption
<1>4. to \in Seq(Known)
  BY <1>2, <1>3
<1>5. worker[c].step # "idle" /\ worker[c].chunk # <<>>
  BY DEF Process
<1>6. QED
  BY <1>1, <1>4, <1>5, AfterSendFields

\* after a send the handler goes on
LEMMA NextSendFields ==
  ASSUME TypeOK, SendInv, NEW c \in Conn, Sends(c), NextSend(c)
  PROVE  /\ worker' \in [Conn -> Task \cup {Idle}]
         /\ \A d \in Conn : d # c => worker'[d] = worker[d]
         /\ GoesOn(c)
<1>1. worker[c].chunk # <<>> /\ worker[c].to \in Seq(Known) /\ worker[c].to # <<>>
  BY DEF SendInv
<1>2. Tail(worker[c].to) \in Seq(Known)
  BY <1>1, HeadTailProperties
<1>3. QED
  BY <1>1, <1>2, AfterSendFields DEF NextSend, Sends

\* the selector thread writes to an accepted connection
LEMMA LoopFields ==
  ASSUME TypeOK, LoopInv, loop.step \in {"write", "empty", "reads"}
  PROVE  loop.conn \in Conn /\ chan[loop.conn] # "none"
BY DEF LoopInv, Known

\* a selected key, and the loop after its read
LEMMA KeyFields ==
  ASSUME TypeOK, NEW key \in loop.keys
  PROVE  /\ key.conn \in Conn /\ key.ready \subseteq {"read", "write"}
         /\ Handle(key) \in Loop /\ Handle(key).step = "keys"
         /\ Handle(key).accept = loop.accept /\ Handle(key).keys = loop.keys \ {key}
         /\ Onward(key) \in Loop /\ Onward(key).step \in {"keys", "write"}
         /\ Onward(key).accept = loop.accept /\ Onward(key).keys = loop.keys \ {key}
         /\ Onward(key).step = "write" => Onward(key).conn = key.conn
<1>1. loop \in Loop /\ loop.keys \subseteq [conn : Conn, ready : SUBSET {"read", "write"}]
  BY DEF TypeOK, Loop
<1>2. key.conn \in Conn /\ key.ready \subseteq {"read", "write"}
  BY <1>1
<1>3. Handle(key) = [loop EXCEPT !.step = "keys", !.keys = loop.keys \ {key}]
  BY DEF Handle
<1>4. /\ Handle(key) \in Loop /\ Handle(key).step = "keys"
      /\ Handle(key).accept = loop.accept /\ Handle(key).keys = loop.keys \ {key}
  <2>1. PICK keys : keys = loop.keys \ {key}
    OBVIOUS
  <2>2. keys \subseteq [conn : Conn, ready : SUBSET {"read", "write"}]
    BY <1>1, <2>1
  <2>3. Handle(key) = [loop EXCEPT !.step = "keys", !.keys = keys]
    BY <1>3, <2>1
  <2>4. Handle(key) \in Loop
    BY <1>1, <2>2, <2>3 DEF Loop, Steps
  <2>5. Handle(key).step = "keys" /\ Handle(key).accept = loop.accept /\ Handle(key).keys = keys
    BY <1>1, <2>3 DEF Loop
  <2>6. QED
    BY <2>1, <2>4, <2>5
<1>5. /\ Onward(key) \in Loop /\ Onward(key).step \in {"keys", "write"}
      /\ Onward(key).accept = loop.accept /\ Onward(key).keys = loop.keys \ {key}
      /\ Onward(key).step = "write" => Onward(key).conn = key.conn
  BY <1>2, <1>4 DEF Onward, Loop, Steps
<1>6. QED
  BY <1>2, <1>4, <1>5

(***************************************************************************)
(* The head of a queue, written in part.                                   *)
(***************************************************************************)
LEMMA PartWritten ==
  ASSUME NEW q \in Seq(Message), q # <<>>, NEW n \in Nat, n < Head(q).left,
         NEW r, r = [q EXCEPT ![1].left = @ - n]
  PROVE  /\ r \in Seq(Message) /\ r # <<>> /\ Len(r) = Len(q) /\ DOMAIN r = DOMAIN q
         /\ r[1].about = q[1].about
         /\ \A i \in DOMAIN q : i # 1 => r[i] = q[i]
<1>1. Len(q) \in Nat \ {0} /\ DOMAIN q = 1 .. Len(q)
  BY EmptySeq, LenProperties
<1>2. Head(q) = q[1] /\ q[1] \in Message
  BY <1>1, ElementOfSeq
<1>3. PICK m \in Message : m = [about |-> q[1].about, left |-> q[1].left - n]
  <2>1. q[1].left \in 1 .. Size /\ n < q[1].left
    BY <1>2 DEF Message
  <2>2. q[1].left - n \in 1 .. Size
    BY <2>1, BoundAssumption
  <2>3. QED
    BY <1>2, <2>2 DEF Message
<1>4. r = [q EXCEPT ![1] = m]
  <2>1. m = [q[1] EXCEPT !.left = q[1].left - n]
    BY <1>2, <1>3 DEF Message
  <2>2. QED
    BY <2>1
<1>5. r \in Seq(Message) /\ Len(r) = Len(q)
  BY <1>1, <1>4, ExceptSeq
<1>6. DOMAIN r = DOMAIN q /\ r # <<>>
  BY <1>1, <1>5, LenProperties
<1>7. QED
  BY <1>1, <1>3, <1>4, <1>5, <1>6

-----------------------------------------------------------------------------
(* Type correctness *)

\* the steps of the clients keep the types
LEMMA TypeClient ==
  ASSUME TypeOK, NEW c \in Conn, ClientStep(c)
  PROVE  TypeOK'
<1> USE DEF clientVars, socketVars, connVars, outVars, selectorVars, poolVars
<1>1. CASE Connect(c)
  BY <1>1 DEF TypeOK, Connect
<1>2. CASE Ask(c)
  <2>1. /\ inbox[c] \in Seq(Request) /\ asked[c] \in Nat /\ Asks[c] \in Nat
        /\ asked[c] + 1 <= Asks[c]
    <3>1. inbox[c] \in Seq(Request) /\ asked[c] \in Nat /\ Asks[c] \in Nat
      BY RequestAssumption DEF TypeOK
    <3>2. asked[c] < Asks[c]
      BY <1>2 DEF Ask
    <3>3. QED
      BY <3>1, <3>2
  <2>2. <<c, asked[c] + 1>> \in Request
    <3>1. <<c, asked[c] + 1>> \in {c} \X (1 .. Asks[c])
      BY <2>1
    <3>2. QED
      BY <3>1 DEF Request
  <2>3. Append(inbox[c], <<c, asked[c] + 1>>) \in Seq(Request)
    <3>1. PICK r \in Request : r = <<c, asked[c] + 1>>
      BY <2>2
    <3>2. Append(inbox[c], r) \in Seq(Request)
      BY <2>1, <3>1, AppendProperties
    <3>3. QED
      BY <3>1, <3>2
  <2>4. inbox' \in [Conn -> Seq(Request)]
    BY <1>2, <2>3 DEF TypeOK, Ask
  <2>5. asked' \in [Conn -> Nat] /\ \A d \in Conn : asked'[d] <= Asks[d]
    <3>1. asked \in [Conn -> Nat] /\ \A d \in Conn : asked[d] <= Asks[d]
      BY DEF TypeOK
    <3>2. asked' = [asked EXCEPT ![c] = asked[c] + 1]
      BY <1>2 DEF Ask
    <3>3. asked' \in [Conn -> Nat]
      BY <2>1, <3>1, <3>2
    <3>4. ASSUME NEW d \in Conn PROVE asked'[d] <= Asks[d]
      <4>1. CASE d = c
        BY <2>1, <3>1, <3>2, <4>1
      <4>2. CASE d # c
        BY <3>1, <3>2, <4>2
      <4>3. QED
        BY <4>1, <4>2
    <3>5. QED
      BY <3>3, <3>4
  <2>6. QED
    BY <1>2, <2>4, <2>5 DEF TypeOK, Ask
<1>3. CASE Drain(c)
  BY <1>3, BoundAssumption DEF TypeOK, Drain
<1>4. CASE LeaveServer(c)
  BY <1>4 DEF TypeOK, LeaveServer
<1>5. QED
  BY <1>1, <1>2, <1>3, <1>4 DEF ClientStep

\* the steps of the selector thread keep the types
LEMMA TypeLoop ==
  ASSUME TypeOK, LoopInv, LoopStep
  PROVE  TypeOK'
<1> USE DEF At, clientVars, socketVars, connVars, outVars, selectorVars, poolVars
<1>1. CASE Select
  <2>1. Selected \subseteq [conn : Conn, ready : SUBSET {"read", "write"}]
    BY DEF Selected, ReadyOps, TypeOK
  <2>2. loop' \in Loop
    BY <1>1, <2>1 DEF Select, TypeOK, Loop, Steps, CanAccept
  <2>3. QED
    BY <1>1, <2>2 DEF Select, TypeOK
<1>2. CASE RunTask
  <2>1. Head(selectorTasks) \in Conn /\ selectorTasks' \in Seq(Conn)
    BY <1>2, HeadTailProperties DEF RunTask, TypeOK
  <2>2. interest' \in [Conn -> SUBSET {"read", "write"}] /\ loop' \in Loop
    <3>1. CASE Valid(Head(selectorTasks))
      <4>1. /\ interest' = [interest EXCEPT ![Head(selectorTasks)] = {"read", "write"}]
            /\ UNCHANGED loop
        BY <1>2, <3>1 DEF RunTask
      <4>2. QED
        BY <2>1, <4>1 DEF TypeOK
    <3>2. CASE ~Valid(Head(selectorTasks))
      <4>1. loop' = [loop EXCEPT !.step = "ended"] /\ UNCHANGED interest
        BY <1>2, <3>2 DEF RunTask
      <4>2. QED
        BY <4>1 DEF TypeOK, Loop, Steps
    <3>3. QED
      BY <3>1, <3>2
  <2>3. QED
    BY <1>2, <2>1, <2>2 DEF RunTask, TypeOK
<1>3. CASE TasksDone
  BY <1>3 DEF TasksDone, TypeOK, Loop, Steps
<1>4. CASE Accept
  <2>1. connectionId' \in 0 .. NConn
    BY <1>4, BoundAssumption DEF Accept, LoopInv, Conn
  <2>2. loop' \in Loop
    BY <1>4 DEF Accept, TypeOK, Loop, Steps
  <2>3. chan' \in [Conn -> {"none", "open", "closed"}]
    BY <1>4 DEF Accept, TypeOK
  <2>4. interest' \in [Conn -> SUBSET {"read", "write"}]
    BY <1>4 DEF Accept, TypeOK
  <2>5. QED
    BY <1>4, <2>1, <2>2, <2>3, <2>4 DEF Accept, TypeOK
<1>5. CASE AcceptFails
  <2>1. loop' \in Loop
    BY <1>5 DEF AcceptFails, TypeOK, Loop, Steps
  <2>2. poolOpen' \in BOOLEAN /\ tasks' \in [Conn -> Seq(Chunk)] /\ running' = running
    BY <1>5, EmptySeq DEF AcceptFails, Pool!Shutdown
  <2>3. QED
    BY <1>5, <2>1, <2>2 DEF AcceptFails, TypeOK
<1>6. CASE EndRound
  BY <1>6 DEF EndRound, TypeOK, Loop, Steps
<1>7. ASSUME NEW key \in loop.keys, Read(key)
      PROVE  TypeOK'
  <2>1. key.conn \in Conn /\ loop' \in Loop
    BY <1>7, KeyFields DEF Read
  <2>2. PICK n \in 1 .. Len(inbox[key.conn]) :
          /\ Pool!Submit(key.conn, SubSeq(inbox[key.conn], 1, n))
          /\ inbox' = [inbox EXCEPT ![key.conn] =
                         SubSeq(inbox[key.conn], n + 1, Len(inbox[key.conn]))]
    BY <1>7 DEF Read
  <2>3. inbox[key.conn] \in Seq(Request) /\ Len(inbox[key.conn]) \in Nat /\ n \in Int
    BY <2>1, LenProperties DEF TypeOK
  <2>4. SubSeq(inbox[key.conn], 1, n) \in Chunk
    <3>1. /\ SubSeq(inbox[key.conn], 1, n) \in Seq(Request)
          /\ Len(SubSeq(inbox[key.conn], 1, n)) = n
      BY <2>2, <2>3, ElementOfSeq, SubSeqProperties
    <3>2. SubSeq(inbox[key.conn], 1, n) # <<>>
      BY <2>2, <3>1, EmptySeq
    <3>3. QED
      BY <3>1, <3>2 DEF Chunk
  <2>5. SubSeq(inbox[key.conn], n + 1, Len(inbox[key.conn])) \in Seq(Request)
    <3>1. \A i \in n + 1 .. Len(inbox[key.conn]) : inbox[key.conn][i] \in Request
      BY <2>2, <2>3, ElementOfSeq
    <3>2. QED
      BY <2>3, <3>1, SubSeqProperties
  <2>6. inbox' \in [Conn -> Seq(Request)]
    BY <2>1, <2>2, <2>5 DEF TypeOK
  <2>7. tasks' \in [Conn -> Seq(Chunk)] /\ UNCHANGED <<poolOpen, running>>
    BY <2>1, <2>2, <2>4, AppendProperties DEF Pool!Submit, TypeOK
  <2>8. QED
    BY <1>7, <2>1, <2>6, <2>7 DEF Read, TypeOK
<1>8. ASSUME NEW key \in loop.keys, ReadEnd(key) \/ NoRead(key)
      PROVE  TypeOK'
  <2>1. loop' \in Loop
    BY <1>8, KeyFields DEF ReadEnd, NoRead
  <2>2. chan' \in [Conn -> {"none", "open", "closed"}]
    BY <1>8 DEF ReadEnd, NoRead, TypeOK
  <2>3. QED
    BY <1>8, <2>1, <2>2 DEF ReadEnd, NoRead, TypeOK
<1>9. CASE WritePart
  <2>1. loop.conn \in Conn
    BY <1>9, LoopFields DEF WritePart, CanWrite
  <2>2. writeQueue[loop.conn] \in Seq(Message) /\ room[loop.conn] \in Nat
    BY <2>1, BoundAssumption DEF TypeOK
  <2>3. [writeQueue[loop.conn] EXCEPT ![1].left = @ - room[loop.conn]] \in Seq(Message)
    BY <1>9, <2>2, PartWritten DEF WritePart, CanWrite, Top
  <2>4. writeQueue' \in [Conn -> Seq(Message)]
    BY <1>9, <2>1, <2>3 DEF WritePart, TypeOK
  <2>5. room' \in [Conn -> 0 .. Window]
    BY <1>9, <2>1, <2>2, BoundAssumption DEF WritePart, TakeRoom, TypeOK
  <2>6. loop' \in Loop
    BY <1>9 DEF WritePart, Finished, TypeOK, Loop, Steps
  <2>7. QED
    BY <1>9, <2>4, <2>5, <2>6 DEF WritePart, TypeOK
<1>10. CASE WriteWhole
  <2>1. loop.conn \in Conn
    BY <1>10, LoopFields DEF WriteWhole, CanWrite
  <2>2. writeQueue[loop.conn] \in Seq(Message) /\ writeQueue[loop.conn] # <<>>
    BY <1>10, <2>1 DEF WriteWhole, CanWrite, TypeOK
  <2>3. Top \in Message /\ Tail(writeQueue[loop.conn]) \in Seq(Message)
    BY <2>2, HeadTailProperties DEF Top
  <2>4. Append(written[loop.conn], Top.about) \in Seq(Request)
    BY <2>1, <2>3, AppendProperties DEF TypeOK, Message
  <2>5. writeQueue' \in [Conn -> Seq(Message)] /\ written' \in [Conn -> Seq(Request)]
    BY <1>10, <2>1, <2>3, <2>4 DEF WriteWhole, TypeOK
  <2>6. room' \in [Conn -> 0 .. Window]
    <3>1. Top.left \in Nat /\ room[loop.conn] \in 0 .. Window /\ room[loop.conn] >= Top.left
      BY <1>10, <2>1, <2>3, BoundAssumption DEF WriteWhole, TypeOK, Message
    <3>2. room[loop.conn] - Top.left \in 0 .. Window
      BY <3>1, BoundAssumption
    <3>3. QED
      BY <1>10, <2>1, <3>2 DEF WriteWhole, TakeRoom, TypeOK
  <2>7. QED
    BY <1>10, <2>5, <2>6 DEF WriteWhole, TypeOK
<1>11. CASE WriteFails
  <2>1. chan' \in [Conn -> {"none", "open", "closed"}]
    BY <1>11 DEF WriteFails, TypeOK
  <2>2. UNCHANGED <<peer, asked, inbox, room, connectionId, interest, writeQueue, written,
                    selectorTasks, wakeup, loop, poolOpen, tasks, running, worker>>
    BY <1>11 DEF WriteFails
  <2>3. QED
    BY <2>1, <2>2 DEF TypeOK
<1>12. CASE WriteDone \/ TestEmpty
  <2>1. loop \in Loop
    BY DEF TypeOK
  <2>2. \A st \in Steps : [loop EXCEPT !.step = st] \in Loop
    BY <2>1 DEF Loop
  <2>3. \E st \in Steps : loop' = [loop EXCEPT !.step = st]
    BY <1>12 DEF WriteDone, TestEmpty, Finished, Steps
  <2>4. loop' \in Loop
    BY <2>2, <2>3
  <2>5. QED
    BY <1>12, <2>4 DEF WriteDone, TestEmpty, TypeOK
<1>13. CASE ReadsOnly
  BY <1>13 DEF ReadsOnly, Finished, TypeOK, Loop, Steps
<1>14. QED
  BY <1>1, <1>2, <1>3, <1>4, <1>5, <1>6, <1>7, <1>8, <1>9, <1>10, <1>11, <1>12, <1>13
     DEF LoopStep

\* the steps of the threads of the pool keep the types
LEMMA TypeWorker ==
  ASSUME TypeOK, SendInv, KnownInv, NEW c \in Conn, WorkerStep(c)
  PROVE  TypeOK'
<1> USE DEF clientVars, socketVars, connVars, outVars, selectorVars, poolVars
<1>1. CASE StartTask(c)
  <2>1. tasks[c] \in Seq(Chunk) /\ tasks[c] # <<>> /\ UNCHANGED poolOpen
    BY <1>1 DEF StartTask, Pool!Start, TypeOK
  <2>2. Head(tasks[c]) \in Chunk /\ Tail(tasks[c]) \in Seq(Chunk)
    BY <2>1, HeadTailProperties
  <2>3. tasks' \in [Conn -> Seq(Chunk)] /\ running' \in [Conn -> SUBSET Chunk]
    BY <1>1, <2>2 DEF StartTask, Pool!Start, TypeOK
  <2>4. [step |-> "decode", chunk |-> Head(tasks[c]), to |-> <<>>] \in Task
    BY <2>2, EmptySeq DEF Task, Chunk
  <2>5. worker' \in [Conn -> Task \cup {Idle}]
    BY <1>1, <2>4 DEF StartTask, TypeOK
  <2>6. QED
    BY <1>1, <2>1, <2>3, <2>5 DEF StartTask, TypeOK
<1>2. CASE Process(c)
  BY <1>2, ProcessFields DEF Process, TypeOK
<1>3. CASE EndTask(c)
  BY <1>3 DEF EndTask, Pool!Finish, TypeOK
<1>4. CASE SendAdd(c)
  <2>1. worker[c] \in Task /\ Head(worker[c].to) \in Conn /\ Head(worker[c].chunk) \in Request
    BY <1>4, WorkerFields, SendFields DEF SendAdd, Sends, Known
  <2>2. [about |-> Head(worker[c].chunk), left |-> Size] \in Message
    BY <2>1, BoundAssumption DEF Message
  <2>3. writeQueue' \in [Conn -> Seq(Message)]
    BY <1>4, <2>1, <2>2, AppendProperties DEF SendAdd, TypeOK
  <2>4. worker' \in [Conn -> Task \cup {Idle}]
    BY <1>4, <2>1 DEF SendAdd, TypeOK, Task
  <2>5. QED
    BY <1>4, <2>3, <2>4 DEF SendAdd, TypeOK
<1>5. CASE SendUpdate(c)
  <2>1. worker[c] \in Task /\ Head(worker[c].to) \in Conn
    BY <1>5, WorkerFields, SendFields DEF SendUpdate, Sends, Known
  <2>2. selectorTasks' \in Seq(Conn)
    BY <1>5, <2>1, AppendProperties DEF SendUpdate, TypeOK
  <2>3. worker' \in [Conn -> Task \cup {Idle}]
    BY <1>5, <2>1 DEF SendUpdate, TypeOK, Task
  <2>4. QED
    BY <1>5, <2>2, <2>3 DEF SendUpdate, TypeOK
<1>6. CASE SendWakeup(c)
  BY <1>6, NextSendFields DEF SendWakeup, Sends, TypeOK
<1>7. QED
  BY <1>1, <1>2, <1>3, <1>4, <1>5, <1>6 DEF WorkerStep

\* every step keeps the types
LEMMA TypeStep ==
  ASSUME TypeOK, LoopInv, SendInv, KnownInv, [Next]_reactorVars
  PROVE  TypeOK'
<1>1. CASE UNCHANGED reactorVars
  BY <1>1 DEF TypeOK, reactorVars, clientVars, socketVars, connVars, outVars, selectorVars,
              poolVars
<1>2. QED
  BY <1>1, TypeClient, TypeLoop, TypeWorker DEF Next

-----------------------------------------------------------------------------
(* Channels and connections *)

(***************************************************************************)
(* Channels are opened by accept only, and closed for clients that left.   *)
(***************************************************************************)
LEMMA ChanSteps ==
  ASSUME TypeOK, LoopInv, [Next]_reactorVars
  PROVE  \/ Accept
         \/ UNCHANGED <<chan, connectionId>>
         \/ /\ UNCHANGED <<connectionId, peer>>
            /\ \E c \in Known : peer[c] = "gone" /\ chan' = [chan EXCEPT ![c] = "closed"]
<1> USE DEF connVars, clientVars
<1>1. CASE LoopStep
  <2>1. CASE \E key \in loop.keys : ReadEnd(key)
    BY <2>1 DEF ReadEnd, LoopInv
  <2>2. CASE WriteFails
    BY <2>2 DEF WriteFails, LoopInv, At
  <2>3. CASE \E key \in loop.keys : Read(key) \/ NoRead(key)
    BY <2>3 DEF Read, NoRead
  <2>4. QED
    BY <1>1, <2>1, <2>2, <2>3
       DEF LoopStep, Select, RunTask, TasksDone, AcceptFails, EndRound, WritePart, WriteWhole,
           WriteDone, TestEmpty, ReadsOnly
<1>2. CASE \E c \in Conn : ClientStep(c)
  BY <1>2 DEF ClientStep, Connect, Ask, Drain, LeaveServer
<1>3. CASE \E c \in Conn : WorkerStep(c)
  BY <1>3 DEF WorkerStep, StartTask, Process, EndTask, SendAdd, SendUpdate, SendWakeup
<1>4. CASE UNCHANGED reactorVars
  BY <1>4 DEF reactorVars
<1>5. QED
  BY <1>1, <1>2, <1>3, <1>4 DEF Next

(***************************************************************************)
(* ConnectionsImpl never loses a connection.                               *)
(***************************************************************************)
LEMMA KnownGrows ==
  ASSUME TypeOK, LoopInv, [Next]_reactorVars
  PROVE  Known \subseteq Known'
BY ChanSteps DEF Accept, Known, TypeOK

(***************************************************************************)
(* A client that is gone does not come back.                               *)
(***************************************************************************)
LEMMA GoneStays ==
  ASSUME TypeOK, [Next]_reactorVars
  PROVE  \A c \in Conn : peer[c] = "gone" => peer'[c] = "gone"
<1> USE DEF clientVars
<1>1. CASE LoopStep
  BY <1>1 DEF LoopStep, Select, RunTask, TasksDone, Accept, AcceptFails, EndRound, Read,
              ReadEnd, NoRead, WritePart, WriteWhole, WriteFails, WriteDone, TestEmpty, ReadsOnly
<1>2. CASE \E c \in Conn : ClientStep(c)
  BY <1>2 DEF ClientStep, Connect, Ask, Drain, LeaveServer, TypeOK
<1>3. CASE \E c \in Conn : WorkerStep(c)
  BY <1>3 DEF WorkerStep, StartTask, Process, EndTask, SendAdd, SendUpdate, SendWakeup
<1>4. CASE UNCHANGED reactorVars
  BY <1>4 DEF reactorVars
<1>5. QED
  BY <1>1, <1>2, <1>3, <1>4 DEF Next

\* a channel is closed for a client that is gone only
LEMMA ClosedStep ==
  ASSUME TypeOK, LoopInv, ClosedInv, [Next]_reactorVars
  PROVE  ClosedInv'
<1>1. CASE Accept
  BY <1>1, GoneStays DEF Accept, ClosedInv, TypeOK
<1>2. CASE UNCHANGED chan
  BY <1>2, GoneStays DEF ClosedInv
<1>3. CASE \E c \in Known : peer[c] = "gone" /\ chan' = [chan EXCEPT ![c] = "closed"]
  BY <1>3, GoneStays DEF ClosedInv, TypeOK, Known
<1>4. QED
  BY <1>1, <1>2, <1>3, ChanSteps

\* the selector thread handles only connections it has accepted
LEMMA LoopInvStep ==
  ASSUME TypeOK, LoopInv, [Next]_reactorVars
  PROVE  LoopInv'
<1> USE DEF At, connVars
<1>1. Known \subseteq Known'
  BY KnownGrows
<1>2. ASSUME UNCHANGED connectionId, loop'.accept => loop.accept, loop'.keys \subseteq loop.keys,
             loop'.step \in {"write", "empty", "reads"} => loop'.conn \in Known
      PROVE  LoopInv'
  BY <1>1, <1>2 DEF LoopInv
<1>3. CASE Select
  <2>1. \A key \in Selected : key.conn \in Known
    BY DEF Selected, Valid, Known
  <2>2. loop'.accept = CanAccept /\ loop'.keys = Selected /\ loop'.step = "tasks"
    BY <1>3 DEF Select, TypeOK, Loop
  <2>3. QED
    BY <1>1, <1>3, <2>1, <2>2 DEF Select, LoopInv, CanAccept
<1>4. CASE Accept
  <2>1. loop'.accept = FALSE /\ loop'.keys = loop.keys /\ loop'.step = "keys"
    BY <1>4 DEF Accept, TypeOK, Loop
  <2>2. QED
    BY <1>1, <2>1 DEF LoopInv
<1>5. CASE RunTask
  <2>1. loop' = loop \/ loop' = [loop EXCEPT !.step = "ended"]
    BY <1>5 DEF RunTask
  <2>2. QED
    BY <1>2, <1>5, <2>1 DEF RunTask, TypeOK, Loop, LoopInv
<1>6. CASE TasksDone \/ AcceptFails \/ EndRound
  <2>1. PICK st \in {"keys", "ended", "select"} : loop' = [loop EXCEPT !.step = st]
    BY <1>6 DEF TasksDone, AcceptFails, EndRound
  <2>2. QED
    BY <1>2, <1>6, <2>1 DEF TasksDone, AcceptFails, EndRound, TypeOK, Loop
<1>7. ASSUME NEW key \in loop.keys, Read(key) \/ ReadEnd(key) \/ NoRead(key)
      PROVE  LoopInv'
  <2>1. loop' = Onward(key) \/ loop' = Handle(key)
    BY <1>7 DEF Read, ReadEnd, NoRead
  <2>2. UNCHANGED connectionId
    BY <1>7 DEF Read, ReadEnd, NoRead
  <2>3. key.conn \in Known
    BY DEF LoopInv
  <2>4. QED
    BY <1>2, <2>1, <2>2, <2>3, KeyFields
<1>8. CASE WritePart \/ WriteWhole \/ WriteFails \/ WriteDone \/ TestEmpty \/ ReadsOnly
  <2>1. loop' = loop \/ \E st \in {"keys", "empty", "reads"} : loop' = [loop EXCEPT !.step = st]
    BY <1>8 DEF WritePart, WriteWhole, WriteFails, WriteDone, TestEmpty, ReadsOnly, Finished
  <2>2. /\ UNCHANGED connectionId
        /\ loop.conn \in Known
    BY <1>8 DEF WritePart, WriteWhole, WriteFails, WriteDone, TestEmpty, ReadsOnly, CanWrite,
                LoopInv
  <2>3. QED
    BY <1>2, <2>1, <2>2 DEF TypeOK, Loop
<1>9. CASE LoopStep
  BY <1>3, <1>4, <1>5, <1>6, <1>7, <1>8, <1>9 DEF LoopStep
<1>10. ASSUME UNCHANGED <<loop, connectionId>>
       PROVE  LoopInv'
  BY <1>2, <1>10 DEF LoopInv
<1>11. CASE \E c \in Conn : ClientStep(c)
  BY <1>10, <1>11 DEF ClientStep, Connect, Ask, Drain, LeaveServer
<1>12. CASE \E c \in Conn : WorkerStep(c)
  BY <1>10, <1>12 DEF WorkerStep, StartTask, Process, EndTask, SendAdd, SendUpdate, SendWakeup
<1>13. CASE UNCHANGED reactorVars
  BY <1>10, <1>13 DEF reactorVars
<1>14. QED
  BY <1>9, <1>11, <1>12, <1>13 DEF Next

(***************************************************************************)
(* What a handler has in its hands after each of its steps.                *)
(***************************************************************************)
LEMMA WorkerSteps ==
  ASSUME TypeOK, SendInv, KnownInv, NEW c \in Conn, WorkerStep(c)
  PROVE  /\ c \in Known
         /\ \A d \in Conn : d # c => worker'[d] = worker[d]
         /\ StartTask(c) =>
              worker'[c] = [step |-> "decode", chunk |-> Head(tasks[c]), to |-> <<>>]
         /\ EndTask(c) => worker'[c] = Idle
         /\ Process(c) => worker[c].chunk # <<>> /\ GoesOn(c)
         /\ SendAdd(c) =>
              /\ worker'[c].step = "update"
              /\ worker'[c].chunk = worker[c].chunk /\ worker'[c].to = worker[c].to
         /\ SendUpdate(c) =>
              /\ worker'[c].step = "wakeup"
              /\ worker'[c].chunk = worker[c].chunk /\ worker'[c].to = worker[c].to
         /\ SendWakeup(c) => GoesOn(c)
<1> DEFINE Others == \A d \in Conn : d # c => worker'[d] = worker[d]
<1>1. c \in Known
  BY DEF WorkerStep, StartTask, Pool!Start, EndTask, TaskOver, Process, SendAdd, SendUpdate,
         SendWakeup, TypeOK, KnownInv, Known, Idle
<1>2. StartTask(c) =>
        /\ worker'[c] = [step |-> "decode", chunk |-> Head(tasks[c]), to |-> <<>>]
        /\ Others
  BY DEF StartTask, TypeOK
<1>3. EndTask(c) => worker'[c] = Idle /\ Others
  BY DEF EndTask, TypeOK
<1>4. Process(c) => worker[c].chunk # <<>> /\ GoesOn(c) /\ Others
  BY ProcessFields
<1>5. ASSUME NEW st, SendAdd(c) \/ SendUpdate(c), worker' = [worker EXCEPT ![c].step = st]
      PROVE  /\ worker'[c].step = st
             /\ worker'[c].chunk = worker[c].chunk /\ worker'[c].to = worker[c].to
             /\ Others
  <2>1. worker[c] \in Task
    BY <1>5, WorkerFields DEF SendAdd, SendUpdate
  <2>2. QED
    BY <1>5, <2>1 DEF TypeOK, Task
<1>6. SendWakeup(c) => GoesOn(c) /\ Others
  BY NextSendFields DEF SendWakeup, Sends
<1>7. (SendAdd(c) => worker' = [worker EXCEPT ![c].step = "update"])
      /\ (SendUpdate(c) => worker' = [worker EXCEPT ![c].step = "wakeup"])
  BY DEF SendAdd, SendUpdate
<1>8. Others
  BY <1>2, <1>3, <1>4, <1>5, <1>6, <1>7 DEF WorkerStep
<1>9. QED
  BY <1>1, <1>2, <1>3, <1>4, <1>5, <1>6, <1>7, <1>8

\* a handler that sends has a request and accepted connections to tell
LEMMA SendStep ==
  ASSUME TypeOK, LoopInv, SendInv, KnownInv, [Next]_reactorVars
  PROVE  SendInv'
<1>1. ASSUME NEW to \in Seq(Known)
      PROVE  to \in Seq(Known')
  BY KnownGrows, SeqMonotonic
<1>2. ASSUME NEW c \in Conn, WorkerStep(c)
      PROVE  SendInv'
  <2>1. \A d \in Conn : d # c => worker'[d] = worker[d]
    BY <1>2, WorkerSteps
  <2>2. ASSUME Sends(c)'
        PROVE  worker'[c].chunk # <<>> /\ worker'[c].to \in Seq(Known) /\ worker'[c].to # <<>>
    <3>1. CASE StartTask(c) \/ EndTask(c)
      <4>1. worker'[c].step \notin {"add", "update", "wakeup"}
        BY <1>2, <3>1 DEF StartTask, EndTask, TypeOK, Idle
      <4>2. QED
        BY <2>2, <4>1 DEF Sends
    <3>2. CASE Process(c)
      BY <1>2, <2>2, <3>2, WorkerSteps DEF GoesOn, Sends
    <3>3. CASE SendAdd(c) \/ SendUpdate(c) \/ SendWakeup(c)
      <4>1. Sends(c)
        BY <3>3 DEF SendAdd, SendUpdate, SendWakeup, Sends
      <4>2. worker[c].chunk # <<>> /\ worker[c].to \in Seq(Known) /\ worker[c].to # <<>>
        BY <4>1 DEF SendInv
      <4>3. QED
        BY <1>2, <2>2, <3>3, <4>2, WorkerSteps DEF GoesOn, Sends
    <3>4. QED
      BY <1>2, <3>1, <3>2, <3>3 DEF WorkerStep
  <2>3. QED
    BY <1>1, <2>1, <2>2 DEF SendInv, Sends
<1>3. ASSUME UNCHANGED worker
      PROVE  SendInv'
  BY <1>1, <1>3 DEF SendInv, Sends
<1>4. CASE LoopStep
  BY <1>3, <1>4
     DEF LoopStep, Select, RunTask, TasksDone, Accept, AcceptFails, EndRound, Read, ReadEnd,
         NoRead, WritePart, WriteWhole, WriteFails, WriteDone, TestEmpty, ReadsOnly
<1>5. CASE \E c \in Conn : ClientStep(c)
  BY <1>3, <1>5 DEF ClientStep, Connect, Ask, Drain, LeaveServer
<1>6. CASE UNCHANGED reactorVars
  BY <1>3, <1>6 DEF reactorVars
<1>7. QED
  BY <1>2, <1>4, <1>5, <1>6 DEF Next

(***************************************************************************)
(* What the steps may add to: the write queue and the tasks of known       *)
(* connections, and selector tasks for them.                               *)
(***************************************************************************)
LEMMA KnownKept ==
  ASSUME TypeOK, LoopInv, KnownInv, [Next]_reactorVars,
         \A c \in Conn : c \notin Known =>
           writeQueue'[c] = writeQueue[c] /\ tasks'[c] \in {tasks[c], <<>>} /\ worker'[c] = worker[c],
         \A i \in DOMAIN selectorTasks' : selectorTasks'[i] \in Known
  PROVE  KnownInv'
<1>1. Known \subseteq Known'
  BY KnownGrows
<1>2. \A c \in Conn : chan'[c] = "none" =>
        writeQueue'[c] = <<>> /\ tasks'[c] = <<>> /\ worker'[c] = Idle
  BY <1>1 DEF KnownInv, Known
<1>3. \A c \in Conn : c >= connectionId' => chan'[c] = "none"
  <2>1. CASE Accept
    <3>1. connectionId \in Nat /\ connectionId' = connectionId + 1
      BY <2>1 DEF Accept, TypeOK
    <3>2. \A c \in Conn : c # connectionId => chan'[c] = chan[c]
      BY <2>1 DEF Accept, TypeOK
    <3> QED  BY <3>1, <3>2, ConnFacts DEF KnownInv
  <2>2. CASE UNCHANGED <<chan, connectionId>>
    BY <2>2 DEF KnownInv
  <2>3. CASE UNCHANGED connectionId /\ \E c \in Known : chan' = [chan EXCEPT ![c] = "closed"]
    BY <2>3 DEF KnownInv, Known, TypeOK
  <2>4. QED
    BY <2>1, <2>2, <2>3, ChanSteps
<1>4. QED
  BY <1>1, <1>2, <1>3 DEF KnownInv

\* nothing is kept for a connection that was not accepted
LEMMA KnownStep ==
  ASSUME TypeOK, LoopInv, SendInv, KnownInv, [Next]_reactorVars
  PROVE  KnownInv'
<1> USE DEF clientVars, socketVars, outVars, selectorVars, poolVars, At
<1>1. ASSUME UNCHANGED <<writeQueue, tasks, worker, selectorTasks>>
      PROVE  KnownInv'
  BY <1>1, KnownKept DEF KnownInv
<1>2. CASE Select \/ TasksDone \/ Accept \/ EndRound
  BY <1>1, <1>2 DEF Select, TasksDone, Accept, EndRound
<1>3. CASE RunTask
  <2>1. /\ selectorTasks \in Seq(Conn) /\ selectorTasks # <<>>
        /\ selectorTasks' = Tail(selectorTasks)
    BY <1>3 DEF RunTask, TypeOK
  <2>2. \A i \in DOMAIN selectorTasks' :
          i + 1 \in DOMAIN selectorTasks /\ selectorTasks'[i] = selectorTasks[i + 1]
    <3>1. /\ DOMAIN selectorTasks = 1 .. Len(selectorTasks) /\ Len(selectorTasks) \in Nat \ {0}
          /\ DOMAIN selectorTasks' = 1 .. Len(selectorTasks) - 1
      BY <2>1, HeadTailProperties, LenProperties, EmptySeq
    <3>2. QED
      BY <2>1, <3>1, HeadTailProperties
  <2>3. QED
    BY <1>3, <2>2, KnownKept DEF RunTask, KnownInv
<1>4. CASE AcceptFails
  BY <1>4, KnownKept DEF AcceptFails, Pool!Shutdown, KnownInv
<1>5. ASSUME NEW key \in loop.keys, Read(key) \/ ReadEnd(key) \/ NoRead(key)
      PROVE  KnownInv'
  <2>1. CASE Read(key)
    <3>1. PICK chunk : Pool!Submit(key.conn, chunk)
      BY <2>1 DEF Read
    <3>2. \A c \in Conn : c # key.conn => tasks'[c] = tasks[c]
      BY <3>1 DEF Pool!Submit, TypeOK
    <3>3. QED
      BY <2>1, <3>2, KnownKept DEF Read, LoopInv, KnownInv
  <2>2. CASE ReadEnd(key) \/ NoRead(key)
    BY <1>1, <2>2 DEF ReadEnd, NoRead
  <2>3. QED
    BY <1>5, <2>1, <2>2
<1>6. CASE WritePart \/ WriteWhole
  <2>1. loop.conn \in Known
    BY <1>6 DEF WritePart, WriteWhole, CanWrite, LoopInv
  <2>2. \A c \in Conn : c # loop.conn => writeQueue'[c] = writeQueue[c]
    BY <1>6 DEF WritePart, WriteWhole, TypeOK
  <2>3. QED
    BY <1>6, <2>1, <2>2, KnownKept DEF WritePart, WriteWhole, KnownInv
<1>7. CASE WriteFails \/ WriteDone \/ TestEmpty \/ ReadsOnly
  BY <1>1, <1>7 DEF WriteFails, WriteDone, TestEmpty, ReadsOnly
<1>8. CASE LoopStep
  BY <1>2, <1>3, <1>4, <1>5, <1>6, <1>7, <1>8 DEF LoopStep
<1>9. ASSUME NEW c \in Conn, ClientStep(c)
      PROVE  KnownInv'
  BY <1>1, <1>9 DEF ClientStep, Connect, Ask, Drain, LeaveServer
<1>10. ASSUME NEW c \in Conn, WorkerStep(c)
       PROVE  KnownInv'
  <2>1. c \in Known /\ \A d \in Conn : d # c => worker'[d] = worker[d]
    BY <1>10, WorkerSteps
  <2>2. CASE StartTask(c)
    BY <2>1, <2>2, KnownKept DEF StartTask, Pool!Start, TypeOK, KnownInv
  <2>3. CASE Process(c) \/ EndTask(c) \/ SendWakeup(c)
    BY <2>1, <2>3, KnownKept DEF Process, EndTask, SendWakeup, Pool!Finish, KnownInv
  <2>4. CASE SendAdd(c)
    <3>1. Head(worker[c].to) \in Known
      BY <2>4, SendFields DEF SendAdd, Sends
    <3>2. \A d \in Conn : d \notin Known => writeQueue'[d] = writeQueue[d]
      BY <2>4, <3>1 DEF SendAdd, TypeOK
    <3>3. QED
      BY <2>1, <2>4, <3>2, KnownKept DEF SendAdd, KnownInv
  <2>5. CASE SendUpdate(c)
    <3>1. Head(worker[c].to) \in Known /\ Head(worker[c].to) \in Conn
      BY <2>5, SendFields DEF SendUpdate, Sends, Known
    <3>2. selectorTasks' = Append(selectorTasks, Head(worker[c].to)) /\ selectorTasks \in Seq(Conn)
      BY <2>5 DEF SendUpdate, TypeOK
    <3>3. \A i \in DOMAIN selectorTasks' :
            \/ i \in DOMAIN selectorTasks /\ selectorTasks'[i] = selectorTasks[i]
            \/ selectorTasks'[i] = Head(worker[c].to)
      <4>1. /\ Len(selectorTasks) \in Nat /\ DOMAIN selectorTasks = 1 .. Len(selectorTasks)
            /\ DOMAIN selectorTasks' = 1 .. Len(selectorTasks) + 1
        BY <3>1, <3>2, AppendProperties, LenProperties
      <4>2. QED
        BY <3>1, <3>2, <4>1, AppendProperties
    <3>4. QED
      BY <2>1, <2>5, <3>1, <3>3, KnownKept DEF SendUpdate, KnownInv
  <2>6. QED
    BY <1>10, <2>2, <2>3, <2>4, <2>5 DEF WorkerStep
<1>11. CASE UNCHANGED reactorVars
  BY <1>1, <1>11 DEF reactorVars
<1>12. QED
  BY <1>8, <1>9, <1>10, <1>11 DEF Next

(***************************************************************************)
(* The pool runs one task of a connection at a time.                       *)
(***************************************************************************)
LEMMA PoolStep ==
  ASSUME TypeOK, SendInv, KnownInv, PoolInv, [Next]_reactorVars
  PROVE  PoolInv'
<1> USE DEF poolVars
<1>1. ASSUME UNCHANGED <<worker, running>>
      PROVE  PoolInv'
  BY <1>1 DEF PoolInv
<1>2. CASE LoopStep
  BY <1>1, <1>2
     DEF LoopStep, Select, RunTask, TasksDone, Accept, AcceptFails, EndRound, Read, ReadEnd,
         NoRead, WritePart, WriteWhole, WriteFails, WriteDone, TestEmpty, ReadsOnly,
         Pool!Submit, Pool!Shutdown
<1>3. CASE \E c \in Conn : ClientStep(c)
  BY <1>1, <1>3 DEF ClientStep, Connect, Ask, Drain, LeaveServer
<1>4. ASSUME NEW c \in Conn, WorkerStep(c)
      PROVE  PoolInv'
  <2>1. \A d \in Conn : d # c => worker'[d] = worker[d]
    BY <1>4, WorkerSteps
  <2>2. CASE StartTask(c)
    BY <2>1, <2>2 DEF StartTask, Pool!Start, PoolInv, TypeOK
  <2>3. CASE EndTask(c)
    BY <2>3 DEF EndTask, Pool!Finish, PoolInv, TypeOK
  <2>4. CASE Process(c) \/ SendAdd(c) \/ SendUpdate(c) \/ SendWakeup(c)
    BY <2>1, <2>4 DEF Process, SendAdd, SendUpdate, SendWakeup, PoolInv, Idle
  <2>5. QED
    BY <1>4, <2>2, <2>3, <2>4 DEF WorkerStep
<1>5. CASE UNCHANGED reactorVars
  BY <1>1, <1>5 DEF reactorVars
<1>6. QED
  BY <1>2, <1>3, <1>4, <1>5 DEF Next

-----------------------------------------------------------------------------
(* Interest in writing *)

\* the elements of a tail, and the head, by their indexes
LEMMA TailElements ==
  ASSUME NEW S, NEW s \in Seq(S), s # <<>>
  PROVE  /\ DOMAIN s = 1 .. Len(s) /\ Len(s) \in Nat \ {0}
         /\ DOMAIN Tail(s) = 1 .. Len(s) - 1
         /\ Head(s) = s[1] /\ 1 \in DOMAIN s
         /\ \A i \in DOMAIN Tail(s) : i + 1 \in DOMAIN s /\ Tail(s)[i] = s[i + 1]
         /\ \A i \in DOMAIN s : i # 1 => i - 1 \in DOMAIN Tail(s) /\ Tail(s)[i - 1] = s[i]
<1>1. /\ DOMAIN s = 1 .. Len(s) /\ Len(s) \in Nat \ {0}
      /\ Tail(s) \in Seq(S) /\ Len(Tail(s)) = Len(s) - 1
      /\ \A i \in 1 .. Len(Tail(s)) : Tail(s)[i] = s[i + 1]
  BY HeadTailProperties, LenProperties, EmptySeq
<1>2. DOMAIN Tail(s) = 1 .. Len(s) - 1
  BY <1>1, LenProperties
<1>3. Head(s) = s[1]
  OBVIOUS
<1>4. QED
  BY <1>1, <1>2, <1>3

\* the elements of a sequence with one more
LEMMA AppendElements ==
  ASSUME NEW S, NEW s \in Seq(S), NEW e \in S
  PROVE  /\ DOMAIN s = 1 .. Len(s) /\ Len(s) \in Nat
         /\ DOMAIN Append(s, e) = 1 .. Len(s) + 1
         /\ Append(s, e)[Len(s) + 1] = e /\ Len(s) + 1 \in DOMAIN Append(s, e)
         /\ \A i \in DOMAIN s : i \in DOMAIN Append(s, e) /\ Append(s, e)[i] = s[i]
         /\ \A i \in DOMAIN Append(s, e) : i \in DOMAIN s \/ i = Len(s) + 1
<1>1. /\ DOMAIN s = 1 .. Len(s) /\ Len(s) \in Nat
      /\ Append(s, e) \in Seq(S) /\ Len(Append(s, e)) = Len(s) + 1
      /\ \A i \in 1 .. Len(s) : Append(s, e)[i] = s[i]
      /\ Append(s, e)[Len(s) + 1] = e
  BY AppendProperties, LenProperties
<1>2. DOMAIN Append(s, e) = 1 .. Len(s) + 1
  BY <1>1, LenProperties
<1>3. QED
  BY <1>1, <1>2

(***************************************************************************)
(* Only the selector thread's task for c makes c no longer pending.        *)
(***************************************************************************)
LEMMA PendingStep ==
  ASSUME TypeOK, SendInv, KnownInv, PoolInv, NEW c \in Conn, Pending(c), [Next]_reactorVars,
         ~(RunTask /\ Head(selectorTasks) = c)
  PROVE  Pending(c)'
<1> USE DEF selectorVars
<1>1. ASSUME UNCHANGED <<selectorTasks, worker>>
      PROVE  Pending(c)'
  BY <1>1 DEF Pending
<1>2. CASE RunTask
  <2>1. selectorTasks \in Seq(Conn) /\ selectorTasks # <<>> /\ selectorTasks' = Tail(selectorTasks)
    BY <1>2 DEF RunTask, TypeOK
  <2>2. ASSUME NEW i \in DOMAIN selectorTasks, selectorTasks[i] = c
        PROVE  \E j \in DOMAIN selectorTasks' : selectorTasks'[j] = c
    <3>1. i # 1
      BY <1>2, <2>1, <2>2, TailElements
    <3>2. i - 1 \in DOMAIN Tail(selectorTasks) /\ Tail(selectorTasks)[i - 1] = c
      BY <2>1, <2>2, <3>1, TailElements
    <3>3. QED
      BY <2>1, <3>2
  <2>3. UNCHANGED worker
    BY <1>2 DEF RunTask
  <2>4. QED
    BY <2>2, <2>3 DEF Pending
<1>3. CASE LoopStep
  BY <1>1, <1>2, <1>3
     DEF LoopStep, Select, TasksDone, Accept, AcceptFails, EndRound, Read,
         ReadEnd, NoRead, WritePart, WriteWhole, WriteFails, WriteDone, TestEmpty, ReadsOnly
<1>4. CASE \E d \in Conn : ClientStep(d)
  BY <1>1, <1>4 DEF ClientStep, Connect, Ask, Drain, LeaveServer
<1>5. ASSUME NEW d \in Conn, WorkerStep(d)
      PROVE  Pending(c)'
  <2>1. \A e \in Conn : e # d => worker'[e] = worker[e]
    BY <1>5, WorkerSteps
  <2>2. CASE SendUpdate(d)
    <3>1. PICK to \in Conn : to = Head(worker[d].to)
      BY <2>2, SendFields DEF SendUpdate, Sends, Known
    <3>2. selectorTasks \in Seq(Conn) /\ selectorTasks' = Append(selectorTasks, to)
      BY <2>2, <3>1 DEF SendUpdate, TypeOK
    <3>3. /\ \A i \in DOMAIN selectorTasks :
               i \in DOMAIN selectorTasks' /\ selectorTasks'[i] = selectorTasks[i]
          /\ \E i \in DOMAIN selectorTasks' : selectorTasks'[i] = to
      BY <3>2, AppendElements
    <3>4. CASE \E e \in Conn : e # d /\ worker[e].step = "update" /\ Head(worker[e].to) = c
      BY <2>1, <3>4 DEF Pending
    <3>5. QED
      BY <3>1, <3>3, <3>4 DEF Pending
  <2>3. CASE ~SendUpdate(d)
    <3>1. UNCHANGED selectorTasks /\ worker[d].step # "update"
      BY <1>5, <2>3
         DEF WorkerStep, StartTask, Pool!Start, Process, EndTask, TaskOver, SendAdd, SendWakeup,
             PoolInv, Idle
    <3>2. QED
      BY <2>1, <3>1 DEF Pending
  <2>4. QED
    BY <2>2, <2>3
<1>6. CASE UNCHANGED reactorVars
  BY <1>1, <1>6 DEF reactorVars
<1>7. QED
  BY <1>3, <1>4, <1>5, <1>6 DEF Next

(***************************************************************************)
(* A connection that gets something to write is pending.                   *)
(***************************************************************************)
LEMMA QueueFilled ==
  ASSUME TypeOK, LoopInv, SendInv, KnownInv, [Next]_reactorVars,
         NEW c \in Conn, writeQueue[c] = <<>>, writeQueue'[c] # <<>>
  PROVE  Pending(c)' /\ UNCHANGED loop
<1> USE DEF outVars
<1>1. PICK d \in Conn : SendAdd(d)
  <2>1. ASSUME LoopStep
        PROVE  FALSE
    BY <2>1
       DEF LoopStep, Select, RunTask, TasksDone, Accept, AcceptFails, EndRound, Read, ReadEnd,
           NoRead, WritePart, WriteWhole, WriteFails, WriteDone, TestEmpty, ReadsOnly,
           CanWrite, TypeOK
  <2>2. ASSUME NEW d \in Conn, ClientStep(d)
        PROVE  FALSE
    BY <2>2 DEF ClientStep, Connect, Ask, Drain, LeaveServer
  <2>3. ASSUME UNCHANGED reactorVars
        PROVE  FALSE
    BY <2>3 DEF reactorVars
  <2>4. QED
    BY <2>1, <2>2, <2>3
       DEF Next, WorkerStep, StartTask, Process, EndTask, SendUpdate, SendWakeup
<1>2. Head(worker[d].to) = c
  BY <1>1 DEF SendAdd, TypeOK
<1>3. worker'[d].step = "update" /\ worker'[d].to = worker[d].to
  BY <1>1, WorkerSteps DEF WorkerStep
<1>4. QED
  BY <1>1, <1>2, <1>3 DEF Pending, SendAdd

\* before the interest is set back to reads, what came is pending
LEMMA ReadsStep ==
  ASSUME TypeOK, LoopInv, SendInv, KnownInv, PoolInv, ReadsInv, [Next]_reactorVars
  PROVE  ReadsInv'
<1> USE DEF At
<1> SUFFICES ASSUME At("reads")', writeQueue'[loop'.conn] # <<>>
             PROVE  Pending(loop.conn)' /\ loop'.conn = loop.conn
  BY DEF ReadsInv, Pending
<1>1. CASE UNCHANGED loop
  <2>1. loop.conn \in Conn
    BY <1>1, LoopFields
  <2>2. CASE writeQueue[loop.conn] = <<>>
    BY <1>1, <2>1, <2>2, QueueFilled
  <2>3. CASE writeQueue[loop.conn] # <<>>
    <3>1. Pending(loop.conn) /\ ~RunTask
      BY <1>1, <2>3 DEF ReadsInv, RunTask
    <3>2. QED
      BY <1>1, <2>1, <3>1, PendingStep
  <2>4. QED
    BY <2>2, <2>3
<1>2. ASSUME LoopStep
      PROVE  UNCHANGED loop
  <2>1. loop \in Loop
    BY DEF TypeOK
  <2>2. ~Select /\ ~TasksDone /\ ~Accept /\ ~AcceptFails /\ ~EndRound
    BY <2>1 DEF Select, TasksDone, Accept, AcceptFails, EndRound, Loop
  <2>3. RunTask => UNCHANGED loop
    BY <2>1 DEF RunTask, Loop
  <2>4. \A key \in loop.keys : ~Read(key) /\ ~ReadEnd(key) /\ ~NoRead(key)
    BY KeyFields DEF Read, ReadEnd, NoRead
  <2>5. ~WritePart /\ ~WriteDone /\ ~ReadsOnly
    BY <2>1 DEF WritePart, WriteDone, ReadsOnly, Finished, Loop
  <2>6. ASSUME TestEmpty
        PROVE  FALSE
    <3>1. UNCHANGED writeQueue
      BY <2>6 DEF TestEmpty, outVars
    <3>2. CASE writeQueue[loop.conn] = <<>>
      BY <2>1, <2>6, <3>1, <3>2 DEF TestEmpty, Loop
    <3>3. CASE writeQueue[loop.conn] # <<>>
      BY <2>1, <2>6, <3>3 DEF TestEmpty, Finished, Loop
    <3>4. QED
      BY <3>2, <3>3
  <2>7. QED
    BY <1>2, <2>2, <2>3, <2>4, <2>5, <2>6 DEF LoopStep, WriteWhole, WriteFails
<1>3. ASSUME NEW c \in Conn, ClientStep(c) \/ WorkerStep(c)
      PROVE  UNCHANGED loop
  BY <1>3 DEF ClientStep, Connect, Ask, Drain, LeaveServer,
              WorkerStep, StartTask, Process, EndTask, SendAdd, SendUpdate, SendWakeup
<1>4. UNCHANGED reactorVars => UNCHANGED loop
  BY DEF reactorVars
<1>5. QED
  BY <1>1, <1>2, <1>3, <1>4 DEF Next

(***************************************************************************)
(* What happens to the interest sets, seen from one connection.            *)
(***************************************************************************)
LEMMA InterestSteps ==
  ASSUME TypeOK, LoopInv, SendInv, KnownInv, [Next]_reactorVars,
         NEW c \in Conn, chan'[c] = "open", writeQueue'[c] # <<>>
  PROVE  \/ /\ chan[c] = "open"
            /\ interest'[c] = interest[c] /\ ~(RunTask /\ Head(selectorTasks) = c)
         \/ "write" \in interest'[c]
         \/ loop'.step = "ended"
         \/ At("reads") /\ loop.conn = c /\ ReadsOnly
<1> USE DEF connVars, outVars
<1>1. ASSUME UNCHANGED <<chan, interest>>, ~RunTask
      PROVE  chan[c] = "open" /\ interest'[c] = interest[c] /\ ~RunTask
  BY <1>1
<1>2. CASE RunTask
  <2>1. PICK h \in Conn : h = Head(selectorTasks)
    BY <1>2, HeadTailProperties DEF RunTask, TypeOK
  <2>2. CASE Valid(h)
    <3>1. interest' = [interest EXCEPT ![h] = {"read", "write"}]
      BY <1>2, <2>1, <2>2 DEF RunTask
    <3>2. UNCHANGED chan
      BY <1>2 DEF RunTask
    <3>3. QED
      BY <2>1, <3>1, <3>2 DEF TypeOK
  <2>3. CASE ~Valid(h)
    <3>1. loop' = [loop EXCEPT !.step = "ended"]
      BY <1>2, <2>1, <2>3 DEF RunTask
    <3>2. QED
      BY <3>1 DEF TypeOK, Loop
  <2>4. QED
    BY <2>2, <2>3
<1>3. CASE Accept
  <2>1. connectionId \in Conn /\ writeQueue[connectionId] = <<>>
    BY <1>3, ConnFacts DEF Accept, LoopInv, KnownInv, TypeOK
  <2>2. c # connectionId
    BY <1>3, <2>1 DEF Accept
  <2>3. chan'[c] = chan[c] /\ interest'[c] = interest[c] /\ ~RunTask
    BY <1>3, <2>1, <2>2 DEF Accept, RunTask, At, TypeOK
  <2>4. QED
    BY <2>3
<1>4. ASSUME ~RunTask, UNCHANGED interest, NEW d \in Conn, chan' = [chan EXCEPT ![d] = "closed"]
      PROVE  chan[c] = "open" /\ interest'[c] = interest[c] /\ ~RunTask
  BY <1>4 DEF TypeOK
<1>5. CASE \E key \in loop.keys : ReadEnd(key)
  BY <1>4, <1>5, KeyFields DEF ReadEnd, RunTask, At
<1>6. CASE WriteFails
  BY <1>4, <1>6, LoopFields DEF WriteFails, RunTask, At
<1>7. CASE ReadsOnly
  <2>1. loop.conn \in Conn /\ ~RunTask /\ At("reads")
    BY <1>7, LoopFields DEF ReadsOnly, RunTask, At
  <2>2. CASE c # loop.conn
    BY <1>7, <2>1, <2>2 DEF ReadsOnly, TypeOK
  <2>3. QED
    BY <1>7, <2>1, <2>2
<1>8. CASE LoopStep
  <2>1. CASE \E key \in loop.keys : Read(key) \/ NoRead(key)
    BY <1>1, <2>1 DEF Read, NoRead, RunTask, At
  <2>2. CASE WritePart \/ WriteWhole \/ WriteDone \/ TestEmpty
    BY <1>1, <2>2 DEF WritePart, WriteWhole, CanWrite, WriteDone, TestEmpty, RunTask, At
  <2>3. CASE Select \/ TasksDone \/ AcceptFails \/ EndRound
    BY <1>1, <2>3 DEF Select, TasksDone, AcceptFails, EndRound, RunTask, At
  <2>4. QED
    BY <1>2, <1>3, <1>5, <1>6, <1>7, <1>8, <2>1, <2>2, <2>3 DEF LoopStep
<1>9. ASSUME ~LoopStep
      PROVE  UNCHANGED <<chan, interest>> /\ ~RunTask
  <2>1. CASE \E d \in Conn : ClientStep(d)
    BY <1>9, <2>1 DEF LoopStep, ClientStep, Connect, Ask, Drain, LeaveServer
  <2>2. CASE \E d \in Conn : WorkerStep(d)
    BY <1>9, <2>2
       DEF LoopStep, WorkerStep, StartTask, Process, EndTask, SendAdd, SendUpdate, SendWakeup
  <2>3. CASE UNCHANGED reactorVars
    BY <1>9, <2>3 DEF LoopStep, reactorVars
  <2>4. QED
    BY <1>9, <2>1, <2>2, <2>3 DEF Next
<1>10. QED
  BY <1>1, <1>8, <1>9

(***************************************************************************)
(* Once ended, the selector thread does nothing.                           *)
(***************************************************************************)
LEMMA EndedStays ==
  ASSUME TypeOK, At("ended"), [Next]_reactorVars
  PROVE  UNCHANGED <<loop, chan>> /\ ~LoopStep
<1> USE DEF At, connVars
<1>1. ~LoopStep
  BY DEF LoopStep, Select, RunTask, TasksDone, Accept, AcceptFails, EndRound, Read, ReadEnd,
         NoRead, WritePart, WriteWhole, WriteFails, WriteDone, TestEmpty, ReadsOnly, CanWrite
<1>2. CASE \E c \in Conn : ClientStep(c)
  BY <1>1, <1>2 DEF ClientStep, Connect, Ask, Drain, LeaveServer
<1>3. CASE \E c \in Conn : WorkerStep(c)
  BY <1>1, <1>3
     DEF WorkerStep, StartTask, Process, EndTask, SendAdd, SendUpdate, SendWakeup
<1>4. CASE UNCHANGED reactorVars
  BY <1>1, <1>4 DEF reactorVars
<1>5. QED
  BY <1>1, <1>2, <1>3, <1>4 DEF Next

\* every step keeps the interest in writing
LEMMA InterestStep ==
  ASSUME TypeOK, LoopInv, SendInv, KnownInv, PoolInv, ReadsInv, WriteInterestKept,
         [Next]_reactorVars
  PROVE  WriteInterestKept'
<1> SUFFICES ASSUME NEW c \in Conn, chan'[c] = "open", writeQueue'[c] # <<>>
             PROVE  "write" \in interest'[c] \/ Pending(c)' \/ loop'.step = "ended"
  BY DEF WriteInterestKept, Pending
<1>1. CASE At("reads") /\ loop.conn = c /\ ReadsOnly
  <2>1. writeQueue[c] # <<>> /\ ~RunTask
    BY <1>1 DEF ReadsOnly, RunTask, At, outVars
  <2>2. Pending(c)
    BY <1>1, <2>1 DEF ReadsInv
  <2>3. QED
    BY <2>1, <2>2, PendingStep
<1>2. CASE /\ chan[c] = "open" /\ interest'[c] = interest[c]
           /\ ~(RunTask /\ Head(selectorTasks) = c)
  <2>1. CASE writeQueue[c] = <<>>
    BY <2>1, QueueFilled
  <2>2. CASE writeQueue[c] # <<>>
    <3>1. "write" \in interest[c] \/ Pending(c) \/ At("ended")
      BY <1>2, <2>2 DEF WriteInterestKept, Pending, At
    <3>2. QED
      BY <1>2, <3>1, PendingStep, EndedStays DEF At
  <2>3. QED
    BY <2>1, <2>2
<1>3. QED
  BY <1>1, <1>2, InterestSteps

-----------------------------------------------------------------------------
(* The wakeup of the selector *)

\* tasks come with a wakeup
LEMMA WakeStep ==
  ASSUME TypeOK, LoopInv, SendInv, KnownInv, PoolInv, WakeInv, [Next]_reactorVars
  PROVE  WakeInv'
<1> USE DEF At, selectorVars
<1>1. loop \in Loop /\ loop.step \in Steps
  BY DEF TypeOK, Loop
<1>2. CASE Select
  <2>1. loop'.step = "tasks"
    BY <1>1, <1>2 DEF Select, Loop
  <2>2. QED
    BY <2>1 DEF WakeInv
<1>3. CASE RunTask
  <2>1. loop' = loop \/ loop' = [loop EXCEPT !.step = "ended"]
    BY <1>3 DEF RunTask
  <2>2. loop'.step \in {"tasks", "ended"}
    BY <1>1, <1>3, <2>1 DEF RunTask, Loop
  <2>3. QED
    BY <2>2 DEF WakeInv
<1>4. CASE TasksDone
  BY <1>4 DEF TasksDone, WakeInv
<1>5. ASSUME UNCHANGED <<selectorTasks, wakeup, worker>>,
             loop.step \notin {"tasks", "ended"} \/ loop' = loop
      PROVE  WakeInv'
  BY <1>5 DEF WakeInv
<1>6. CASE LoopStep
  <2>1. CASE Accept \/ AcceptFails \/ EndRound
    BY <1>5, <2>1 DEF Accept, AcceptFails, EndRound
  <2>2. CASE \E key \in loop.keys : Read(key) \/ ReadEnd(key) \/ NoRead(key)
    BY <1>5, <2>2 DEF Read, ReadEnd, NoRead
  <2>3. CASE WritePart \/ WriteWhole \/ WriteFails \/ WriteDone \/ TestEmpty \/ ReadsOnly
    BY <1>5, <2>3
       DEF WritePart, WriteWhole, WriteFails, WriteDone, TestEmpty, ReadsOnly, CanWrite
  <2>4. QED
    BY <1>2, <1>3, <1>4, <1>6, <2>1, <2>2, <2>3 DEF LoopStep
<1>7. ASSUME NEW c \in Conn, ClientStep(c)
      PROVE  WakeInv'
  BY <1>5, <1>7 DEF ClientStep, Connect, Ask, Drain, LeaveServer
<1>8. ASSUME NEW c \in Conn, WorkerStep(c)
      PROVE  WakeInv'
  <2>1. UNCHANGED loop /\ \A d \in Conn : d # c => worker'[d] = worker[d]
    BY <1>8, WorkerSteps
       DEF WorkerStep, StartTask, Process, EndTask, SendAdd, SendUpdate, SendWakeup
  <2>2. CASE SendUpdate(c)
    <3>1. worker'[c].step = "wakeup"
      BY <1>8, <2>2, WorkerSteps
    <3>2. QED
      BY <3>1 DEF WakeInv
  <2>3. CASE SendWakeup(c)
    BY <2>3 DEF SendWakeup, WakeInv
  <2>4. CASE StartTask(c) \/ Process(c) \/ EndTask(c) \/ SendAdd(c)
    <3>1. worker[c].step # "wakeup" /\ UNCHANGED <<selectorTasks, wakeup>>
      BY <2>4 DEF StartTask, Pool!Start, Process, EndTask, TaskOver, SendAdd, PoolInv, Idle
    <3>2. QED
      BY <2>1, <3>1 DEF WakeInv
  <2>5. QED
    BY <1>8, <2>2, <2>3, <2>4 DEF WorkerStep
<1>9. CASE UNCHANGED reactorVars
  BY <1>5, <1>9 DEF reactorVars
<1>10. QED
  BY <1>6, <1>7, <1>8, <1>9 DEF Next

-----------------------------------------------------------------------------
(* The end of serve *)

\* the selector thread ends by a failure of accept or a closed channel
LEMMA EndStep ==
  ASSUME TypeOK, LoopInv, KnownInv, ClosedInv, ServeEndsByLeaving, [Next]_reactorVars
  PROVE  ServeEndsByLeaving'
<1> USE DEF At
<1> SUFFICES ASSUME At("ended")'
             PROVE  \/ ~poolOpen'
                    \/ \E c \in Conn : peer'[c] = "gone" /\ chan'[c] = "closed"
  BY DEF ServeEndsByLeaving
<1>1. CASE At("ended")
  <2>1. UNCHANGED chan
    BY <1>1, EndedStays
  <2>2. ~poolOpen => ~poolOpen'
    <3>1. ~LoopStep
      BY <1>1, EndedStays
    <3>2. CASE \E c \in Conn : ClientStep(c)
      BY <3>2 DEF ClientStep, Connect, Ask, Drain, LeaveServer, poolVars
    <3>3. CASE \E c \in Conn : WorkerStep(c)
      BY <3>3 DEF WorkerStep, StartTask, Process, EndTask, SendAdd, SendUpdate, SendWakeup,
                  Pool!Start, Pool!Finish, poolVars
    <3>4. CASE UNCHANGED reactorVars
      BY <3>4 DEF reactorVars, poolVars
    <3>5. QED
      BY <3>1, <3>2, <3>3, <3>4 DEF Next
  <2>3. CASE ~poolOpen
    BY <2>2, <2>3
  <2>4. CASE poolOpen
    BY <1>1, <2>1, <2>4, GoneStays DEF ServeEndsByLeaving
  <2>5. QED
    BY <2>3, <2>4
<1>2. CASE ~At("ended")
  <2>1. loop \in Loop /\ loop' # loop
    BY <1>2 DEF TypeOK
  <2>2. RunTask \/ AcceptFails
    <3>1. ASSUME NEW st, st # "ended"
          PROVE  loop' # [loop EXCEPT !.step = st]
      BY <2>1, <3>1 DEF Loop
    <3>2. ASSUME LoopStep
          PROVE  RunTask \/ AcceptFails
      <4>1. ~Select /\ ~Accept
        BY <1>2, <2>1 DEF Select, Accept, Loop
      <4>2. ~TasksDone /\ ~EndRound /\ ~WritePart /\ ~WriteDone /\ ~TestEmpty /\ ~ReadsOnly
        BY <3>1 DEF TasksDone, EndRound, WritePart, WriteDone, TestEmpty, ReadsOnly, Finished
      <4>3. \A key \in loop.keys : ~Read(key) /\ ~ReadEnd(key) /\ ~NoRead(key)
        BY KeyFields DEF Read, ReadEnd, NoRead
      <4>4. ~WriteWhole /\ ~WriteFails
        BY <2>1 DEF WriteWhole, WriteFails
      <4>5. QED
        BY <3>2, <4>1, <4>2, <4>3, <4>4 DEF LoopStep
    <3>3. ~\E c \in Conn : ClientStep(c) \/ WorkerStep(c)
      BY <2>1 DEF ClientStep, Connect, Ask, Drain, LeaveServer,
                  WorkerStep, StartTask, Process, EndTask, SendAdd, SendUpdate, SendWakeup
    <3>4. ~UNCHANGED reactorVars
      BY <2>1 DEF reactorVars
    <3>5. QED
      BY <3>2, <3>3, <3>4 DEF Next
  <2>3. CASE AcceptFails
    BY <2>3 DEF AcceptFails, Pool!Shutdown
  <2>4. CASE RunTask
    <3>1. PICK c \in Known : c = Head(selectorTasks)
      BY <2>4, TailElements DEF RunTask, TypeOK, KnownInv
    <3>2. ~Valid(c)
      BY <2>1, <2>4, <3>1 DEF RunTask
    <3>3. chan[c] = "closed" /\ peer[c] = "gone" /\ UNCHANGED <<chan, peer>>
      BY <2>4, <3>1, <3>2 DEF Valid, Known, TypeOK, ClosedInv, RunTask, clientVars
    <3>4. QED
      BY <3>1, <3>3 DEF Known
  <2>5. QED
    BY <2>2, <2>3, <2>4
<1>3. QED
  BY <1>1, <1>2

-----------------------------------------------------------------------------
(* Messages written in part *)

(***************************************************************************)
(* What happens to the write queues: a part or the whole of the head is    *)
(* written, or a message about a handler's request is added.               *)
(***************************************************************************)
LEMMA QueueSteps ==
  ASSUME TypeOK, LoopInv, SendInv, KnownInv, [Next]_reactorVars
  PROVE  \/ UNCHANGED <<writeQueue, written>>
         \/ WritePart \/ WriteWhole
         \/ \E c \in Conn : SendAdd(c)
<1> USE DEF outVars
<1>1. CASE LoopStep
  BY <1>1
     DEF LoopStep, Select, RunTask, TasksDone, Accept, AcceptFails, EndRound, Read, ReadEnd,
         NoRead, WriteFails, WriteDone, TestEmpty, ReadsOnly
<1>2. CASE \E c \in Conn : ClientStep(c)
  BY <1>2 DEF ClientStep, Connect, Ask, Drain, LeaveServer
<1>3. CASE \E c \in Conn : WorkerStep(c)
  BY <1>3 DEF WorkerStep, StartTask, Process, EndTask, SendUpdate, SendWakeup
<1>4. CASE UNCHANGED reactorVars
  BY <1>4 DEF reactorVars
<1>5. QED
  BY <1>1, <1>2, <1>3, <1>4 DEF Next

\* WritePart shortens the head of one queue
LEMMA PartWrites ==
  ASSUME TypeOK, LoopInv, WritePart
  PROVE  /\ loop.conn \in Conn /\ UNCHANGED written
         /\ \A c \in Conn : c # loop.conn => writeQueue'[c] = writeQueue[c]
         /\ writeQueue[loop.conn] \in Seq(Message) /\ writeQueue[loop.conn] # <<>>
         /\ DOMAIN writeQueue'[loop.conn] = DOMAIN writeQueue[loop.conn]
         /\ writeQueue'[loop.conn][1].about = writeQueue[loop.conn][1].about
         /\ \A i \in DOMAIN writeQueue[loop.conn] :
              i # 1 => writeQueue'[loop.conn][i] = writeQueue[loop.conn][i]
<1>1. PICK c \in Conn : c = loop.conn
  BY LoopFields DEF WritePart, CanWrite, At
<1>2. writeQueue[c] \in Seq(Message) /\ writeQueue[c] # <<>> /\ room[c] \in Nat
  BY <1>1, BoundAssumption DEF WritePart, CanWrite, TypeOK
<1>3. PICK q : q = [writeQueue[c] EXCEPT ![1].left = @ - room[c]]
  OBVIOUS
<1>4. writeQueue' = [writeQueue EXCEPT ![c] = q]
  BY <1>1, <1>3 DEF WritePart
<1>5. room[c] < Head(writeQueue[c]).left
  BY <1>1 DEF WritePart, Top
<1>6. /\ DOMAIN q = DOMAIN writeQueue[c] /\ q[1].about = writeQueue[c][1].about
      /\ \A i \in DOMAIN writeQueue[c] : i # 1 => q[i] = writeQueue[c][i]
  BY <1>2, <1>3, <1>5, PartWritten
<1>7. writeQueue'[c] = q /\ \A d \in Conn : d # c => writeQueue'[d] = writeQueue[d]
  BY <1>4 DEF TypeOK
<1>8. UNCHANGED written
  BY DEF WritePart
<1>9. QED
  BY <1>1, <1>2, <1>6, <1>7, <1>8

\* WriteWhole moves the head of one queue to what was written
LEMMA WholeWrites ==
  ASSUME TypeOK, LoopInv, WriteWhole
  PROVE  /\ loop.conn \in Conn
         /\ \A c \in Conn : c # loop.conn =>
              writeQueue'[c] = writeQueue[c] /\ written'[c] = written[c]
         /\ writeQueue[loop.conn] \in Seq(Message) /\ writeQueue[loop.conn] # <<>>
         /\ writeQueue'[loop.conn] = Tail(writeQueue[loop.conn])
         /\ written'[loop.conn] = Append(written[loop.conn], writeQueue[loop.conn][1].about)
<1>1. PICK c \in Conn : c = loop.conn
  BY LoopFields DEF WriteWhole, CanWrite, At
<1>2. writeQueue[c] \in Seq(Message) /\ writeQueue[c] # <<>>
  BY <1>1 DEF WriteWhole, CanWrite, TypeOK
<1>3. Top = writeQueue[c][1]
  BY <1>1, <1>2, TailElements DEF Top
<1>4. QED
  BY <1>1, <1>2, <1>3 DEF WriteWhole, TypeOK

\* SendAdd adds one message, whole, to one queue
LEMMA SendAdds ==
  ASSUME TypeOK, SendInv, KnownInv, NEW c \in Conn, SendAdd(c)
  PROVE  \E d \in Conn, m \in Message :
           /\ d = Head(worker[c].to) /\ m.about = Head(worker[c].chunk) /\ m.left = Size
           /\ writeQueue'[d] = Append(writeQueue[d], m)
           /\ \A e \in Conn : e # d => writeQueue'[e] = writeQueue[e]
           /\ UNCHANGED written
<1>1. PICK d \in Conn : d = Head(worker[c].to)
  BY SendFields DEF SendAdd, Sends, Known
<1>2. Head(worker[c].chunk) \in Request
  BY SendFields DEF SendAdd, Sends
<1>3. PICK m \in Message : m = [about |-> Head(worker[c].chunk), left |-> Size]
  <2>1. [about |-> Head(worker[c].chunk), left |-> Size] \in Message
    BY <1>2, BoundAssumption DEF Message
  <2>2. QED
    BY <2>1
<1>4. writeQueue' = [writeQueue EXCEPT ![d] = Append(writeQueue[d], m)]
  BY <1>1, <1>3 DEF SendAdd
<1>5. UNCHANGED written /\ m.about = Head(worker[c].chunk) /\ m.left = Size
  BY <1>3 DEF SendAdd
<1>6. QED
  BY <1>1, <1>4, <1>5 DEF TypeOK

\* every step leaves messages behind the head whole
LEMMA WholeStep ==
  ASSUME TypeOK, LoopInv, SendInv, KnownInv, MessagesWhole, [Next]_reactorVars
  PROVE  MessagesWhole'
<1>1. CASE UNCHANGED <<writeQueue, written>>
  BY <1>1 DEF MessagesWhole
<1>2. CASE WritePart
  BY <1>2, PartWrites DEF MessagesWhole
<1>3. CASE WriteWhole
  <2>1. PICK c \in Conn : c = loop.conn
    BY <1>3, WholeWrites
  <2>2. /\ \A i \in DOMAIN writeQueue'[c] :
             i + 1 \in DOMAIN writeQueue[c] /\ writeQueue'[c][i] = writeQueue[c][i + 1]
        /\ DOMAIN writeQueue'[c] \subseteq Int
    <3>1. PICK q \in Seq(Message) : q = writeQueue[c] /\ q # <<>> /\ writeQueue'[c] = Tail(q)
      BY <1>3, <2>1, WholeWrites
    <3>2. /\ \A i \in DOMAIN Tail(q) : i + 1 \in DOMAIN q /\ Tail(q)[i] = q[i + 1]
          /\ DOMAIN Tail(q) = 1 .. Len(q) - 1
      BY <3>1, TailElements
    <3>3. QED
      BY <3>1, <3>2
  <2>3. \A i \in DOMAIN writeQueue'[c] : i > 1 => writeQueue'[c][i].left = Size
    BY <2>2 DEF MessagesWhole
  <2>4. QED
    BY <1>3, <2>1, <2>3, WholeWrites DEF MessagesWhole
<1>4. ASSUME NEW c \in Conn, SendAdd(c)
      PROVE  MessagesWhole'
  <2>1. PICK d \in Conn, m \in Message :
          /\ m.left = Size
          /\ writeQueue'[d] = Append(writeQueue[d], m)
          /\ \A e \in Conn : e # d => writeQueue'[e] = writeQueue[e]
    BY <1>4, SendAdds
  <2>2. \A i \in DOMAIN writeQueue'[d] :
          \/ i \in DOMAIN writeQueue[d] /\ writeQueue'[d][i] = writeQueue[d][i]
          \/ writeQueue'[d][i].left = Size
    <3>1. writeQueue[d] \in Seq(Message)
      BY DEF TypeOK
    <3>2. QED
      BY <2>1, <3>1, AppendElements
  <2>3. QED
    BY <2>1, <2>2 DEF MessagesWhole
<1>5. QED
  BY <1>1, <1>2, <1>3, <1>4, QueueSteps

-----------------------------------------------------------------------------
(* The invariant *)

\* the invariant holds initially ...
LEMMA InitInv == Init => IInv
<1> SUFFICES ASSUME Init
             PROVE  IInv
  OBVIOUS
<1> USE DEF Init, Pool!Init
<1>1. TypeOK
  <2>1. connectionId \in 0 .. NConn /\ \A c \in Conn : Asks[c] \in Nat /\ 0 <= Asks[c]
    BY BoundAssumption, RequestAssumption
  <2>2. room \in [Conn -> 0 .. Window]
    BY BoundAssumption
  <2>3. loop \in Loop
    BY DEF Loop, Steps
  <2>4. worker \in [Conn -> Task \cup {Idle}]
    OBVIOUS
  <2>5. asked \in [Conn -> Nat] /\ \A c \in Conn : asked[c] <= Asks[c]
    BY <2>1
  <2>6. /\ inbox \in [Conn -> Seq(Request)] /\ writeQueue \in [Conn -> Seq(Message)]
        /\ written \in [Conn -> Seq(Request)] /\ selectorTasks \in Seq(Conn)
        /\ tasks \in [Conn -> Seq(Chunk)]
    BY EmptySeq
  <2>7. QED
    BY <2>1, <2>2, <2>3, <2>4, <2>5, <2>6 DEF TypeOK
<1>2. DOMAIN selectorTasks = {}
  BY EmptySeq, LenProperties
<1>3. LoopInv /\ SendInv /\ PoolInv
  BY DEF LoopInv, SendInv, PoolInv, Sends, Idle
<1>4. KnownInv
  BY <1>2 DEF KnownInv
<1>5. ReadsInv /\ WriteInterestKept /\ WakeInv
  BY DEF ReadsInv, WriteInterestKept, WakeInv, At
<1>6. ClosedInv /\ ServeEndsByLeaving
  BY DEF ClosedInv, ServeEndsByLeaving, At
<1>7. MessagesWhole
  <2>1. \A c \in Conn : DOMAIN writeQueue[c] = {}
    BY EmptySeq, LenProperties
  <2>2. QED
    BY <2>1 DEF MessagesWhole
<1>8. QED
  BY <1>1, <1>3, <1>4, <1>5, <1>6, <1>7 DEF IInv

\* ... and every step keeps it
LEMMA StepInv == IInv /\ [Next]_reactorVars => IInv'
BY TypeStep, LoopInvStep, SendStep, KnownStep, PoolStep, ReadsStep, InterestStep, WakeStep,
   ClosedStep, EndStep, WholeStep
   DEF IInv

(***************************************************************************)
(* The invariant holds of every reachable state of the reactor.            *)
(***************************************************************************)
THEOREM Invariance == Spec => []IInv
<1>1. QED
  BY InitInv, StepInv, PTL DEF Spec

-----------------------------------------------------------------------------
(* The order of the answers *)

\* number of the last request of c that the server has read
Taken(c) == asked[c] - Len(inbox[c])

\* the n-th request of c may still be answered: it was not read, waits in a task,
\* or is in the hands of the handler
ToAnswer(c, n) ==
  \/ n > Taken(c)
  \/ \E k \in DOMAIN tasks[c] : \E i \in DOMAIN tasks[c][k] : tasks[c][k][i][2] = n
  \/ /\ worker[c] # Idle
     /\ \E i \in DOMAIN worker[c].chunk : worker[c].chunk[i][2] = n

\* requests of c up to the n-th, in their order
OwnChunk(c, chunk, n) ==
  /\ \A i \in DOMAIN chunk : chunk[i][1] = c /\ chunk[i][2] <= n
  /\ \A i, j \in DOMAIN chunk : i < j => chunk[i][2] < chunk[j][2]

Before(one, other) ==
  \A i \in DOMAIN one : \A j \in DOMAIN other : one[i][2] < other[j][2]

\* requests reach the handlers in the order in which they were sent
InboxInv == \A c \in Conn : \A i \in DOMAIN inbox[c] : inbox[c][i] = <<c, Taken(c) + i>>

TasksInv ==
  \A c \in Conn :
    /\ \A k \in DOMAIN tasks[c] : OwnChunk(c, tasks[c][k], Taken(c))
    /\ \A k, l \in DOMAIN tasks[c] : k < l => Before(tasks[c][k], tasks[c][l])

HandlerInv ==
  \A c \in Conn : worker[c] # Idle =>
    /\ OwnChunk(c, worker[c].chunk, Taken(c))
    /\ \A k \in DOMAIN tasks[c] : Before(worker[c].chunk, tasks[c][k])

\* a client was answered nothing that comes after what may still be answered
ToldInv ==
  \A c \in Conn : \A i \in DOMAIN Told(c) : Told(c)[i][1] = c =>
    \A n \in Nat : ToAnswer(c, n) => Told(c)[i][2] <= n

OrderInv == InboxInv /\ TasksInv /\ HandlerInv /\ ToldInv /\ RepliesInOrder

\* a request is a client and a number
LEMMA RequestFields ==
  ASSUME NEW r \in Request
  PROVE  r[1] \in Conn /\ r[2] \in Nat
BY RequestAssumption DEF Request

\* so is each in a sequence of requests
LEMMA RequestsIn ==
  ASSUME NEW s \in Seq(Request)
  PROVE  /\ DOMAIN s = 1 .. Len(s) /\ Len(s) \in Nat
         /\ \A i \in DOMAIN s : s[i][1] \in Conn /\ s[i][2] \in Nat
<1>1. DOMAIN s = 1 .. Len(s) /\ Len(s) \in Nat
  BY LenProperties
<1>2. \A i \in DOMAIN s : s[i] \in Request
  BY <1>1, ElementOfSeq
<1>3. QED
  BY <1>1, <1>2, RequestFields

(***************************************************************************)
(* The numbers of requests in inboxes, tasks and handlers.                 *)
(***************************************************************************)
LEMMA Numbers ==
  ASSUME TypeOK, NEW c \in Conn
  PROVE  /\ Taken(c) \in Int
         /\ \A i \in DOMAIN inbox[c] : i \in Nat \ {0} /\ inbox[c][i][2] \in Nat
         /\ \A k \in DOMAIN tasks[c] :
              /\ k \in Nat /\ tasks[c][k] \in Chunk
              /\ \A i \in DOMAIN tasks[c][k] : i \in Nat \ {0} /\ tasks[c][k][i][2] \in Nat
         /\ worker[c] # Idle =>
              /\ worker[c].chunk \in Seq(Request)
              /\ \A i \in DOMAIN worker[c].chunk : i \in Nat \ {0} /\ worker[c].chunk[i][2] \in Nat
<1>1. inbox[c] \in Seq(Request) /\ tasks[c] \in Seq(Chunk) /\ asked[c] \in Nat
  BY DEF TypeOK
<1>2. Taken(c) \in Int /\ \A i \in DOMAIN inbox[c] : i \in Nat \ {0} /\ inbox[c][i][2] \in Nat
  BY <1>1, RequestsIn DEF Taken
<1>3. ASSUME NEW k \in DOMAIN tasks[c]
      PROVE  /\ k \in Nat /\ tasks[c][k] \in Chunk
             /\ \A i \in DOMAIN tasks[c][k] : i \in Nat \ {0} /\ tasks[c][k][i][2] \in Nat
  <2>1. k \in Nat /\ tasks[c][k] \in Chunk
    BY <1>1, <1>3, ElementOfSeq, LenProperties
  <2>2. QED
    BY <2>1, RequestsIn DEF Chunk
<1>4. ASSUME worker[c] # Idle
      PROVE  /\ worker[c].chunk \in Seq(Request)
             /\ \A i \in DOMAIN worker[c].chunk : i \in Nat \ {0} /\ worker[c].chunk[i][2] \in Nat
  <2>1. worker[c].chunk \in Seq(Request)
    BY <1>4 DEF TypeOK, Task
  <2>2. QED
    BY <2>1, RequestsIn
<1>5. QED
  BY <1>2, <1>3, <1>4

\* the elements of a concatenation
LEMMA ConcatElements ==
  ASSUME NEW S, NEW s \in Seq(S), NEW t \in Seq(S)
  PROVE  /\ s \o t \in Seq(S) /\ Len(s \o t) = Len(s) + Len(t)
         /\ \A i \in 1 .. Len(s) : (s \o t)[i] = s[i]
         /\ \A i \in 1 .. Len(t) : (s \o t)[Len(s) + i] = t[i]
OBVIOUS

\* Told, of what was written and what is in the queue
ToldOf(w, v) == w \o [i \in DOMAIN v |-> v[i].about]

\* what was told is what was written, then what is in the queue
LEMMA ToldElements ==
  ASSUME NEW w \in Seq(Request), NEW v \in Seq(Message)
  PROVE  /\ ToldOf(w, v) \in Seq(Request)
         /\ DOMAIN ToldOf(w, v) = 1 .. Len(w) + Len(v)
         /\ Len(w) \in Nat /\ Len(v) \in Nat
         /\ \A i \in 1 .. Len(w) : ToldOf(w, v)[i] = w[i]
         /\ \A i \in 1 .. Len(v) : ToldOf(w, v)[Len(w) + i] = v[i].about
<1>1. PICK q : q = [i \in DOMAIN v |-> v[i].about]
  OBVIOUS
<1>2. Len(w) \in Nat /\ Len(v) \in Nat /\ DOMAIN v = 1 .. Len(v)
  BY LenProperties
<1>3. \A i \in 1 .. Len(v) : v[i].about \in Request
  <2>1. \A i \in 1 .. Len(v) : v[i] \in Message
    BY ElementOfSeq
  <2>2. QED
    BY <2>1 DEF Message
<1>4. q \in Seq(Request) /\ Len(q) = Len(v)
  BY <1>1, <1>2, <1>3, LenProperties
<1>5. /\ w \o q \in Seq(Request) /\ Len(w \o q) = Len(w) + Len(q)
      /\ \A i \in 1 .. Len(w) : (w \o q)[i] = w[i]
      /\ \A i \in 1 .. Len(q) : (w \o q)[Len(w) + i] = q[i]
  <2>1. q \in Seq(Request)
    BY <1>4
  <2>2. QED
    BY <2>1, ConcatElements
<1>6. PICK t : t = ToldOf(w, v) /\ t = w \o q
  BY <1>1 DEF ToldOf
<1>7. DOMAIN t = 1 .. Len(w) + Len(v)
  BY <1>4, <1>5, <1>6, LenProperties
<1>8. \A i \in 1 .. Len(v) : t[Len(w) + i] = v[i].about
  BY <1>1, <1>2, <1>4, <1>5, <1>6
<1>9. QED
  BY <1>2, <1>5, <1>6, <1>7, <1>8

\* moving the head of the queue to what was written changes nothing
LEMMA ToldShift ==
  ASSUME NEW w \in Seq(Request), NEW v \in Seq(Message), v # <<>>
  PROVE  ToldOf(Append(w, v[1].about), Tail(v)) = ToldOf(w, v)
<1>1. PICK w1 : w1 = Append(w, v[1].about)
  OBVIOUS
<1>2. PICK v1 : v1 = Tail(v)
  OBVIOUS
<1>3. PICK l, m : l = Len(w) /\ m = Len(v)
  OBVIOUS
<1>4. /\ l \in Nat /\ m \in Nat \ {0}
      /\ v1 \in Seq(Message) /\ Len(v1) = m - 1
      /\ \A i \in 1 .. m - 1 : v1[i] = v[i + 1]
  BY <1>2, <1>3, HeadTailProperties, EmptySeq, LenProperties
<1>5. v[1].about \in Request
  <2>1. v[1] \in Message
    BY <1>3, <1>4, ElementOfSeq
  <2>2. QED
    BY <2>1 DEF Message
<1>6. /\ w1 \in Seq(Request) /\ Len(w1) = l + 1 /\ w1[l + 1] = v[1].about
      /\ \A i \in 1 .. l : w1[i] = w[i]
  BY <1>1, <1>3, <1>5, AppendProperties
<1>7. PICK t, t1 : t = ToldOf(w, v) /\ t1 = ToldOf(w1, v1)
  OBVIOUS
<1>8. /\ t \in Seq(Request)
      /\ DOMAIN t = 1 .. l + m
      /\ \A i \in 1 .. l : t[i] = w[i]
      /\ \A i \in 1 .. m : t[l + i] = v[i].about
  BY <1>3, <1>7, ToldElements
<1>9. /\ t1 \in Seq(Request)
      /\ DOMAIN t1 = 1 .. (l + 1) + (m - 1)
      /\ \A i \in 1 .. l + 1 : t1[i] = w1[i]
      /\ \A i \in 1 .. m - 1 : t1[(l + 1) + i] = v1[i].about
  <2>1. w1 \in Seq(Request) /\ v1 \in Seq(Message)
    BY <1>4, <1>6
  <2>2. /\ t1 \in Seq(Request)
        /\ DOMAIN t1 = 1 .. Len(w1) + Len(v1)
        /\ \A i \in 1 .. Len(w1) : t1[i] = w1[i]
        /\ \A i \in 1 .. Len(v1) : t1[Len(w1) + i] = v1[i].about
    BY <1>7, <2>1, ToldElements
  <2>3. Len(w1) = l + 1 /\ Len(v1) = m - 1
    BY <1>4, <1>6
  <2>4. DOMAIN t1 = 1 .. (l + 1) + (m - 1) /\ \A i \in 1 .. l + 1 : t1[i] = w1[i]
    BY <2>2, <2>3
  <2>5. \A i \in 1 .. m - 1 : t1[(l + 1) + i] = v1[i].about
    BY <2>2, <2>3
  <2>6. QED
    BY <2>2, <2>4, <2>5
<1>10. Len(t) = l + m /\ Len(t1) = l + m
  BY <1>4, <1>8, <1>9, LenProperties
<1>11. ASSUME NEW i \in 1 .. l + m
       PROVE  t1[i] = t[i]
  <2> USE <1>4
  <2>1. CASE i <= l
    BY <1>6, <1>8, <1>9, <2>1
  <2>2. CASE i = l + 1
    BY <1>6, <1>8, <1>9, <2>2
  <2>3. CASE i > l + 1
    <3>1. PICK j \in 2 .. m : i = l + j
      <4>1. i - l \in 2 .. m /\ i = l + (i - l)
        BY <2>3
      <4>2. QED
        BY <4>1
    <3>2. j - 1 \in 1 .. m - 1 /\ i = (l + 1) + (j - 1) /\ (j - 1) + 1 = j
      BY <3>1
    <3>3. t[i] = v[j].about /\ t1[i] = v1[j - 1].about /\ v1[j - 1] = v[j]
      BY <1>8, <1>9, <3>1, <3>2
    <3>4. QED
      BY <3>3
  <2>4. QED
    BY <2>1, <2>2, <2>3
<1>12. t1 = t
  BY <1>8, <1>9, <1>10, <1>11, SeqEqual
<1>13. QED
  BY <1>1, <1>2, <1>7, <1>12

\* only a send to c changes what c is told
LEMMA ToldUnchanged ==
  ASSUME TypeOK, TypeOK', LoopInv, SendInv, KnownInv, [Next]_reactorVars,
         NEW c \in Conn, ~\E d \in Conn : SendAdd(d) /\ Head(worker[d].to) = c
  PROVE  Told(c)' = Told(c)
<1>1. ASSUME writeQueue'[c] = writeQueue[c], written'[c] = written[c]
      PROVE  Told(c)' = Told(c)
  BY <1>1 DEF Told
<1>2. CASE WritePart
  <2>1. CASE c # loop.conn
    BY <1>1, <1>2, <2>1, PartWrites
  <2>2. CASE c = loop.conn
    <3>1. /\ DOMAIN writeQueue'[c] = DOMAIN writeQueue[c]
          /\ \A i \in DOMAIN writeQueue[c] : writeQueue'[c][i].about = writeQueue[c][i].about
      BY <1>2, <2>2, PartWrites
    <3>2. [i \in DOMAIN writeQueue'[c] |-> writeQueue'[c][i].about]
            = [i \in DOMAIN writeQueue[c] |-> writeQueue[c][i].about]
      BY <3>1
    <3>3. UNCHANGED written
      BY <1>2, PartWrites
    <3>4. QED
      BY <3>2, <3>3 DEF Told
  <2>3. QED
    BY <2>1, <2>2
<1>3. CASE WriteWhole
  <2>1. CASE c # loop.conn
    BY <1>1, <1>3, <2>1, WholeWrites
  <2>2. CASE c = loop.conn
    <3>1. /\ written[c] \in Seq(Request) /\ writeQueue[c] \in Seq(Message)
          /\ writeQueue[c] # <<>>
          /\ writeQueue'[c] = Tail(writeQueue[c])
          /\ written'[c] = Append(written[c], writeQueue[c][1].about)
      BY <1>3, <2>2, WholeWrites DEF TypeOK
    <3>2. ToldOf(written'[c], writeQueue'[c]) = ToldOf(written[c], writeQueue[c])
      BY <3>1, ToldShift
    <3>3. QED
      BY <3>2 DEF Told, ToldOf
  <2>3. QED
    BY <2>1, <2>2
<1>4. ASSUME NEW d \in Conn, SendAdd(d)
      PROVE  Told(c)' = Told(c)
  <2>1. c # Head(worker[d].to)
    BY <1>4
  <2>2. writeQueue'[c] = writeQueue[c] /\ written'[c] = written[c]
    BY <1>4, <2>1, SendAdds
  <2>3. QED
    BY <1>1, <2>2
<1>5. QED
  BY <1>1, <1>2, <1>3, <1>4, QueueSteps

\* a message added to the queue is told last
LEMMA ToldAppended ==
  ASSUME NEW w \in Seq(Request), NEW v \in Seq(Message), NEW m \in Message
  PROVE  /\ ToldOf(w, v) \in Seq(Request) /\ m.about \in Request
         /\ ToldOf(w, Append(v, m)) = Append(ToldOf(w, v), m.about)
<1>1. PICK v1 : v1 = Append(v, m)
  OBVIOUS
<1>2. PICK l, n : l = Len(w) /\ n = Len(v)
  OBVIOUS
<1>3. /\ l \in Nat /\ n \in Nat /\ m.about \in Request
      /\ v1 \in Seq(Message) /\ Len(v1) = n + 1 /\ v1[n + 1] = m
      /\ \A i \in 1 .. n : v1[i] = v[i]
  BY <1>1, <1>2, AppendProperties, LenProperties DEF Message
<1>4. PICK t, t1 : t = ToldOf(w, v) /\ t1 = ToldOf(w, v1)
  OBVIOUS
<1>5. /\ t \in Seq(Request)
      /\ DOMAIN t = 1 .. l + n
      /\ \A i \in 1 .. l : t[i] = w[i]
      /\ \A i \in 1 .. n : t[l + i] = v[i].about
  BY <1>2, <1>4, ToldElements
<1>6. /\ t1 \in Seq(Request)
      /\ DOMAIN t1 = 1 .. l + (n + 1)
      /\ \A i \in 1 .. l : t1[i] = w[i]
      /\ \A i \in 1 .. n + 1 : t1[l + i] = v1[i].about
  <2>1. /\ t1 \in Seq(Request)
        /\ DOMAIN t1 = 1 .. Len(w) + Len(v1)
        /\ \A i \in 1 .. Len(w) : t1[i] = w[i]
        /\ \A i \in 1 .. Len(v1) : t1[Len(w) + i] = v1[i].about
    BY <1>3, <1>4, ToldElements
  <2>2. Len(v1) = n + 1 /\ Len(w) = l
    BY <1>2, <1>3
  <2>3. \A i \in 1 .. n + 1 : t1[l + i] = v1[i].about
    BY <2>1, <2>2
  <2>4. QED
    BY <2>1, <2>2, <2>3
<1>7. PICK s : s = Append(t, m.about)
  OBVIOUS
<1>8. /\ s \in Seq(Request) /\ Len(t) = l + n /\ Len(t1) = l + n + 1 /\ Len(s) = l + n + 1
      /\ \A i \in 1 .. l + n : s[i] = t[i]
      /\ s[l + n + 1] = m.about
  <2>1. Len(t) = l + n /\ Len(t1) = l + n + 1
    BY <1>3, <1>5, <1>6, LenProperties
  <2>2. /\ s \in Seq(Request) /\ Len(s) = Len(t) + 1 /\ s[Len(t) + 1] = m.about
        /\ \A i \in 1 .. Len(t) : s[i] = t[i]
    BY <1>3, <1>5, <1>7, AppendProperties
  <2>3. QED
    BY <2>1, <2>2
<1>9. ASSUME NEW i \in 1 .. l + n + 1
      PROVE  t1[i] = s[i]
  <2> USE <1>3
  <2>1. CASE i <= l
    BY <1>5, <1>6, <1>8, <2>1
  <2>2. CASE i = l + n + 1
    BY <1>6, <1>8, <2>2
  <2>3. CASE i > l /\ i <= l + n
    <3>1. PICK j \in 1 .. n : i = l + j
      <4>1. i - l \in 1 .. n /\ i = l + (i - l)
        BY <2>3
      <4>2. QED
        BY <4>1
    <3>2. t[i] = v[j].about /\ t1[i] = v1[j].about /\ v1[j] = v[j] /\ s[i] = t[i]
      BY <1>5, <1>6, <1>8, <3>1
    <3>3. QED
      BY <3>2
  <2>4. QED
    BY <2>1, <2>2, <2>3
<1>10. t1 = s
  BY <1>6, <1>8, <1>9, SeqEqual
<1>11. QED
  BY <1>1, <1>3, <1>4, <1>5, <1>7, <1>10

\* a send to d tells d of the request in hand
LEMMA ToldAdded ==
  ASSUME TypeOK, SendInv, KnownInv, NEW c \in Conn, SendAdd(c),
         NEW d \in Conn, d = Head(worker[c].to)
  PROVE  /\ Told(d) \in Seq(Request) /\ Head(worker[c].chunk) \in Request
         /\ Told(d)' = Append(Told(d), Head(worker[c].chunk))
<1>1. PICK m \in Message :
        /\ m.about = Head(worker[c].chunk)
        /\ writeQueue'[d] = Append(writeQueue[d], m)
        /\ UNCHANGED written
  BY SendAdds
<1>2. written[d] \in Seq(Request) /\ writeQueue[d] \in Seq(Message)
  BY DEF TypeOK
<1>3. /\ ToldOf(written[d], writeQueue[d]) \in Seq(Request) /\ m.about \in Request
      /\ ToldOf(written'[d], writeQueue'[d])
           = Append(ToldOf(written[d], writeQueue[d]), m.about)
  <2>1. PICK w \in Seq(Request), v \in Seq(Message) : w = written[d] /\ v = writeQueue[d]
    BY <1>2
  <2>2. /\ ToldOf(w, v) \in Seq(Request) /\ m.about \in Request
        /\ ToldOf(w, Append(v, m)) = Append(ToldOf(w, v), m.about)
    BY <1>1, ToldAppended
  <2>3. QED
    BY <1>1, <2>1, <2>2
<1>4. QED
  BY <1>1, <1>3 DEF Told, ToldOf

(***************************************************************************)
(* The steps that move the requests of c.                                  *)
(***************************************************************************)
LEMMA RequestSteps ==
  ASSUME TypeOK, SendInv, KnownInv, [Next]_reactorVars, NEW c \in Conn
  PROVE  \/ /\ asked'[c] = asked[c] /\ inbox'[c] = inbox[c]
            /\ tasks'[c] = tasks[c] /\ worker'[c] = worker[c]
         \/ Ask(c)
         \/ \E key \in loop.keys : key.conn = c /\ Read(key)
         \/ AcceptFails
         \/ WorkerStep(c)
<1> USE DEF clientVars, socketVars, poolVars
<1>1. CASE LoopStep
  <2>1. ASSUME NEW key \in loop.keys, Read(key), key.conn # c
        PROVE  /\ UNCHANGED <<asked, worker>>
               /\ inbox'[c] = inbox[c] /\ tasks'[c] = tasks[c]
    <3>1. PICK n \in 1 .. Len(inbox[key.conn]) :
            /\ Pool!Submit(key.conn, SubSeq(inbox[key.conn], 1, n))
            /\ inbox' = [inbox EXCEPT ![key.conn] =
                           SubSeq(inbox[key.conn], n + 1, Len(inbox[key.conn]))]
      BY <2>1 DEF Read
    <3>2. QED
      BY <2>1, <3>1 DEF Read, Pool!Submit, TypeOK
  <2>2. ASSUME LoopStep, ~AcceptFails, ~\E key \in loop.keys : Read(key)
        PROVE  UNCHANGED <<asked, inbox, tasks, worker>>
    BY <2>2
       DEF LoopStep, Select, RunTask, TasksDone, Accept, EndRound, ReadEnd, NoRead, WritePart,
           WriteWhole, WriteFails, WriteDone, TestEmpty, ReadsOnly
  <2>3. QED
    BY <1>1, <2>1, <2>2
<1>2. ASSUME NEW d \in Conn, ClientStep(d)
      PROVE  \/ Ask(c)
             \/ /\ asked'[c] = asked[c] /\ inbox'[c] = inbox[c]
                /\ tasks'[c] = tasks[c] /\ worker'[c] = worker[c]
  BY <1>2 DEF ClientStep, Connect, Ask, Drain, LeaveServer, TypeOK
<1>3. ASSUME NEW d \in Conn, WorkerStep(d), d # c
      PROVE  /\ asked'[c] = asked[c] /\ inbox'[c] = inbox[c]
             /\ tasks'[c] = tasks[c] /\ worker'[c] = worker[c]
  <2>1. worker'[c] = worker[c]
    BY <1>3, WorkerSteps
  <2>2. UNCHANGED <<asked, inbox>> /\ tasks'[c] = tasks[c]
    BY <1>3 DEF WorkerStep, StartTask, Process, EndTask, SendAdd, SendUpdate, SendWakeup,
                Pool!Start, Pool!Finish, TypeOK
  <2>3. QED
    BY <2>1, <2>2
<1>4. CASE UNCHANGED reactorVars
  BY <1>4 DEF reactorVars
<1>5. QED
  BY <1>1, <1>2, <1>3, <1>4 DEF Next

\* Ask adds the next request to the inbox
LEMMA AskFacts ==
  ASSUME TypeOK, NEW c \in Conn, Ask(c)
  PROVE  /\ Taken(c)' = Taken(c)
         /\ tasks'[c] = tasks[c] /\ worker'[c] = worker[c]
         /\ inbox[c] \in Seq(Request) /\ Len(inbox[c]) \in Nat
         /\ DOMAIN inbox'[c] = 1 .. Len(inbox[c]) + 1
         /\ \A i \in DOMAIN inbox[c] : inbox'[c][i] = inbox[c][i]
         /\ inbox'[c][Len(inbox[c]) + 1] = <<c, Taken(c) + (Len(inbox[c]) + 1)>>
<1>1. PICK l \in Nat, a \in Nat : l = Len(inbox[c]) /\ a = asked[c]
  BY LenProperties DEF TypeOK
<1>2. inbox[c] \in Seq(Request) /\ DOMAIN inbox[c] = 1 .. l
  BY <1>1, LenProperties DEF TypeOK
<1>3. a + 1 \in 1 .. Asks[c]
  BY <1>1, RequestAssumption DEF Ask
<1>4. <<c, a + 1>> \in Request
  <2>1. <<c, a + 1>> \in {c} \X (1 .. Asks[c])
    BY <1>3
  <2>2. QED
    BY <2>1 DEF Request
<1>5. inbox'[c] = Append(inbox[c], <<c, a + 1>>)
  BY <1>1 DEF Ask, TypeOK
<1>6. asked'[c] = a + 1
  BY <1>1 DEF Ask, TypeOK
<1>7. /\ inbox'[c] \in Seq(Request) /\ Len(inbox'[c]) = l + 1
      /\ \A i \in 1 .. l : inbox'[c][i] = inbox[c][i]
      /\ inbox'[c][l + 1] = <<c, a + 1>>
  BY <1>1, <1>2, <1>4, <1>5, AppendProperties
<1>8. Taken(c) = a - l /\ Taken(c)' = (a + 1) - (l + 1)
  BY <1>1, <1>6, <1>7 DEF Taken
<1>9. Taken(c)' = Taken(c) /\ Taken(c) + (l + 1) = a + 1
  BY <1>8
<1>10. DOMAIN inbox'[c] = 1 .. l + 1
  BY <1>7, LenProperties
<1>11. tasks'[c] = tasks[c] /\ worker'[c] = worker[c]
  BY DEF Ask, poolVars
<1>12. QED
  BY <1>1, <1>2, <1>7, <1>9, <1>10, <1>11

\* n requests of c, the chunk, go from the inbox to a task
Takes(c, n, chunk) ==
  /\ Taken(c)' = Taken(c) + n
  /\ \A i \in DOMAIN inbox'[c] :
       i \in Nat /\ n + i \in DOMAIN inbox[c] /\ inbox'[c][i] = inbox[c][n + i]
  /\ DOMAIN chunk = 1 .. n
  /\ \A i \in 1 .. n : i \in DOMAIN inbox[c] /\ chunk[i] = inbox[c][i]
  /\ tasks'[c] = Append(tasks[c], chunk)

\* Read takes the first requests of the inbox
LEMMA ReadFacts ==
  ASSUME TypeOK, NEW key \in loop.keys, Read(key), NEW c, c = key.conn
  PROVE  /\ c \in Conn
         /\ \E n \in Nat \ {0}, chunk \in Chunk : Takes(c, n, chunk)
         /\ worker'[c] = worker[c]
<1>1. c \in Conn /\ UNCHANGED <<asked, worker>>
  BY KeyFields DEF Read, clientVars
<1>2. PICK n \in 1 .. Len(inbox[c]) :
        /\ Pool!Submit(c, SubSeq(inbox[c], 1, n))
        /\ inbox' = [inbox EXCEPT ![c] = SubSeq(inbox[c], n + 1, Len(inbox[c]))]
  BY DEF Read
<1>3. PICK l : l = Len(inbox[c])
  OBVIOUS
<1>4. inbox[c] \in Seq(Request) /\ DOMAIN inbox[c] = 1 .. l /\ l \in Nat /\ n \in 1 .. l
  BY <1>1, <1>2, <1>3, LenProperties DEF TypeOK
<1>5. \A i \in 1 .. l : inbox[c][i] \in Request
  BY <1>3, <1>4, ElementOfSeq
<1>6. PICK chunk : chunk = SubSeq(inbox[c], 1, n)
  OBVIOUS
<1>7. /\ chunk \in Chunk /\ DOMAIN chunk = 1 .. n
      /\ \A i \in 1 .. n : chunk[i] = inbox[c][i]
  <2>1. \A i \in 1 .. n : inbox[c][i] \in Request
    BY <1>4, <1>5
  <2>2. /\ chunk \in Seq(Request) /\ Len(chunk) = n
        /\ \A i \in 1 .. n : chunk[i] = inbox[c][i]
    BY <1>4, <1>6, <2>1, SubSeqProperties
  <2>3. chunk # <<>> /\ DOMAIN chunk = 1 .. n
    BY <1>4, <2>2, EmptySeq, LenProperties
  <2>4. QED
    BY <2>2, <2>3 DEF Chunk
<1>8. PICK rest : rest = SubSeq(inbox[c], n + 1, l)
  OBVIOUS
<1>9. /\ Len(rest) = l - n /\ DOMAIN rest = 1 .. l - n
      /\ \A i \in 1 .. l - n : rest[i] = inbox[c][n + i]
  <2>1. \A i \in n + 1 .. l : inbox[c][i] \in Request
    BY <1>4, <1>5
  <2>2. /\ rest \in Seq(Request) /\ Len(rest) = IF n + 1 <= l THEN l - (n + 1) + 1 ELSE 0
        /\ \A i \in 1 .. l - (n + 1) + 1 : rest[i] = inbox[c][(n + 1) + i - 1]
    BY <1>4, <1>8, <2>1, SubSeqProperties
  <2>3. Len(rest) = l - n
    BY <1>4, <2>2
  <2>4. \A i \in 1 .. l - n : rest[i] = inbox[c][n + i]
    <3> TAKE i \in 1 .. l - n
    <3>1. i \in 1 .. l - (n + 1) + 1 /\ (n + 1) + i - 1 = n + i
      BY <1>4
    <3>2. QED
      BY <2>2, <3>1
  <2>5. QED
    BY <2>2, <2>3, <2>4, LenProperties
<1>10. inbox'[c] = rest /\ tasks'[c] = Append(tasks[c], chunk)
  BY <1>1, <1>2, <1>3, <1>6, <1>8 DEF TypeOK, Pool!Submit
<1>11. Taken(c)' = Taken(c) + n
  <2>1. asked[c] \in Nat /\ asked'[c] = asked[c] /\ Len(inbox'[c]) = l - n
    BY <1>1, <1>9, <1>10 DEF TypeOK
  <2>2. QED
    BY <1>3, <1>4, <2>1 DEF Taken
<1>12. n \in Nat \ {0} /\ n <= l
  BY <1>4
<1>13. \A i \in DOMAIN inbox'[c] :
         i \in Nat /\ n + i \in DOMAIN inbox[c] /\ inbox'[c][i] = inbox[c][n + i]
  BY <1>4, <1>9, <1>10
<1>14. Takes(c, n, chunk)
  BY <1>4, <1>7, <1>10, <1>11, <1>13 DEF Takes
<1>15. QED
  BY <1>1, <1>7, <1>12, <1>14

\* the pool reads no requests, and takes tasks by StartTask only
LEMMA WorkerKeepsInbox ==
  ASSUME TypeOK, NEW c \in Conn, WorkerStep(c)
  PROVE  /\ UNCHANGED <<asked, inbox>> /\ Taken(c)' = Taken(c)
         /\ tasks'[c] = tasks[c] \/ StartTask(c)
<1>1. UNCHANGED <<asked, inbox>>
  BY DEF WorkerStep, StartTask, Process, EndTask, SendAdd, SendUpdate, SendWakeup, clientVars,
         socketVars
<1>2. tasks'[c] = tasks[c] \/ StartTask(c)
  BY DEF WorkerStep, Process, EndTask, SendAdd, SendUpdate, SendWakeup, Pool!Finish, poolVars
<1>3. QED
  BY <1>1, <1>2 DEF Taken

\* what was read stays read
LEMMA TakenGrows ==
  ASSUME TypeOK, SendInv, KnownInv, [Next]_reactorVars, NEW c \in Conn
  PROVE  Taken(c) \in Int /\ Taken(c)' \in Int /\ Taken(c)' >= Taken(c)
<1>1. Taken(c) \in Int
  BY Numbers
<1>2. CASE asked'[c] = asked[c] /\ inbox'[c] = inbox[c]
  BY <1>1, <1>2 DEF Taken
<1>3. CASE Ask(c)
  BY <1>1, <1>3, AskFacts
<1>4. ASSUME NEW key \in loop.keys, key.conn = c, Read(key)
      PROVE  Taken(c)' \in Int /\ Taken(c)' >= Taken(c)
  <2>1. PICK n \in Nat \ {0}, chunk \in Chunk : Takes(c, n, chunk)
    BY <1>4, ReadFacts
  <2>2. QED
    BY <1>1, <2>1 DEF Takes
<1>5. CASE AcceptFails \/ WorkerStep(c)
  BY <1>2, <1>5, WorkerKeepsInbox DEF AcceptFails, clientVars, socketVars
<1>6. QED
  BY <1>1, <1>2, <1>3, <1>4, <1>5, RequestSteps

\* Read leaves the inbox in order ...
LEMMA InboxRead ==
  ASSUME TypeOK, InboxInv, NEW key \in loop.keys, Read(key), NEW c, c = key.conn
  PROVE  \A i \in DOMAIN inbox'[c] : inbox'[c][i] = <<c, Taken(c)' + i>>
<1>1. c \in Conn
  BY ReadFacts
<1>2. PICK n \in Nat \ {0}, chunk \in Chunk : Takes(c, n, chunk)
  BY ReadFacts
<1>3. ASSUME NEW i \in DOMAIN inbox'[c]
      PROVE  inbox'[c][i] = <<c, Taken(c)' + i>>
  <2>1. /\ n + i \in DOMAIN inbox[c] /\ i \in Nat /\ inbox'[c][i] = inbox[c][n + i]
        /\ Taken(c)' = Taken(c) + n
    BY <1>2 DEF Takes
  <2>2. inbox[c][n + i] = <<c, Taken(c) + (n + i)>>
    BY <1>1, <2>1 DEF InboxInv
  <2>3. Taken(c) + (n + i) = Taken(c)' + i
    BY <1>1, <2>1, Numbers
  <2>4. QED
    BY <2>1, <2>2, <2>3
<1>4. QED
  BY <1>3

\* ... and so does every step
LEMMA InboxStep ==
  ASSUME TypeOK, SendInv, KnownInv, InboxInv, [Next]_reactorVars
  PROVE  InboxInv'
<1> SUFFICES ASSUME NEW c \in Conn
             PROVE  \A i \in DOMAIN inbox'[c] : inbox'[c][i] = <<c, Taken(c)' + i>>
  BY DEF InboxInv
<1>1. CASE asked'[c] = asked[c] /\ inbox'[c] = inbox[c]
  BY <1>1 DEF InboxInv, Taken
<1>2. CASE Ask(c)
  <2>1. PICK l \in Nat : l = Len(inbox[c]) /\ DOMAIN inbox[c] = 1 .. l
    BY LenProperties DEF TypeOK
  <2>2. /\ Taken(c)' = Taken(c) /\ DOMAIN inbox'[c] = 1 .. l + 1
        /\ \A i \in DOMAIN inbox[c] : inbox'[c][i] = inbox[c][i]
        /\ inbox'[c][l + 1] = <<c, Taken(c) + (l + 1)>>
    BY <1>2, <2>1, AskFacts
  <2>3. ASSUME NEW i \in DOMAIN inbox'[c]
        PROVE  inbox'[c][i] = <<c, Taken(c) + i>>
    <3>1. i \in DOMAIN inbox[c] \/ i = l + 1
      BY <2>1, <2>2
    <3>2. CASE i \in DOMAIN inbox[c]
      BY <2>2, <3>2 DEF InboxInv
    <3>3. CASE i = l + 1
      BY <2>2, <3>3
    <3>4. QED
      BY <3>1, <3>2, <3>3
  <2>4. QED
    BY <2>2, <2>3
<1>3. ASSUME NEW key \in loop.keys, key.conn = c, Read(key)
      PROVE  \A i \in DOMAIN inbox'[c] : inbox'[c][i] = <<c, Taken(c)' + i>>
  BY <1>3, InboxRead
<1>4. CASE AcceptFails \/ WorkerStep(c)
  BY <1>1, <1>4, WorkerKeepsInbox DEF AcceptFails, clientVars, socketVars
<1>5. QED
  BY <1>1, <1>2, <1>3, <1>4, RequestSteps

(***************************************************************************)
(* What a task gets when the requests of c are read.                       *)
(***************************************************************************)
\* the chunk, of requests that were not read before, becomes a task of c
NewChunk(c, chunk) ==
  /\ tasks'[c] = Append(tasks[c], chunk)
  /\ OwnChunk(c, chunk, Taken(c)')
  /\ \A i \in DOMAIN chunk : chunk[i][2] \in Nat /\ chunk[i][2] > Taken(c)

\* what Read hands to the pool comes after all that was read before
LEMMA ReadChunk ==
  ASSUME TypeOK, InboxInv, NEW key \in loop.keys, Read(key), NEW c, c = key.conn
  PROVE  /\ c \in Conn /\ worker'[c] = worker[c]
         /\ \E chunk \in Chunk : NewChunk(c, chunk)
<1>1. c \in Conn /\ worker'[c] = worker[c]
  BY ReadFacts
<1>2. PICK n \in Nat \ {0}, chunk \in Chunk : Takes(c, n, chunk)
  BY ReadFacts
<1>3. PICK taken \in Int : taken = Taken(c)
  BY <1>1, Numbers
<1>4. ASSUME NEW i \in 1 .. n
      PROVE  chunk[i] = <<c, taken + i>> /\ chunk[i][2] \in Nat
  <2>1. i \in DOMAIN inbox[c] /\ chunk[i] = inbox[c][i]
    BY <1>2 DEF Takes
  <2>2. inbox[c][i] = <<c, Taken(c) + i>>
    BY <1>1, <2>1 DEF InboxInv
  <2>3. inbox[c][i][2] \in Nat
    BY <1>1, <2>1, Numbers
  <2>4. QED
    BY <1>3, <2>1, <2>2, <2>3
<1>5. \A i \in 1 .. n : chunk[i][2] \in Nat
  BY <1>4
<1>6. Taken(c)' = taken + n
  BY <1>2, <1>3 DEF Takes
<1>7. \A i \in 1 .. n : chunk[i][1] = c /\ chunk[i][2] = taken + i
  BY <1>4
<1>8. \A i \in DOMAIN chunk :
        /\ i \in Nat /\ chunk[i][1] = c /\ chunk[i][2] \in Nat
        /\ chunk[i][2] > Taken(c) /\ chunk[i][2] <= Taken(c)'
  BY <1>2, <1>3, <1>5, <1>6, <1>7 DEF Takes
<1>9. \A i, j \in DOMAIN chunk : i < j => chunk[i][2] < chunk[j][2]
  BY <1>2, <1>3, <1>7 DEF Takes
<1>10. NewChunk(c, chunk)
  BY <1>2, <1>8, <1>9 DEF Takes, NewChunk, OwnChunk
<1>11. QED
  BY <1>1, <1>2, <1>10

\* StartTask takes the first task of an idle connection
LEMMA StartFacts ==
  ASSUME TypeOK, PoolInv, NEW c \in Conn, StartTask(c)
  PROVE  /\ worker[c] = Idle
         /\ tasks[c] \in Seq(Chunk) /\ tasks[c] # <<>>
         /\ worker'[c] # Idle /\ worker'[c].step = "decode"
         /\ worker'[c].chunk = Head(tasks[c])
         /\ tasks'[c] = Tail(tasks[c])
         /\ \A k \in DOMAIN tasks'[c] :
              k \in Nat \ {0} /\ k + 1 \in DOMAIN tasks[c] /\ tasks'[c][k] = tasks[c][k + 1]
         /\ 1 \in DOMAIN tasks[c] /\ worker'[c].chunk = tasks[c][1]
<1>1. worker[c] = Idle
  BY DEF StartTask, Pool!Start, PoolInv
<1>2. tasks[c] \in Seq(Chunk) /\ tasks[c] # <<>> /\ tasks'[c] = Tail(tasks[c])
  BY DEF StartTask, Pool!Start, TypeOK
<1>3. worker'[c] = [step |-> "decode", chunk |-> Head(tasks[c]), to |-> <<>>]
  BY DEF StartTask, TypeOK
<1>4. worker'[c] # Idle /\ worker'[c].step = "decode" /\ worker'[c].chunk = Head(tasks[c])
  BY <1>3 DEF Idle
<1>5. \A k \in DOMAIN Tail(tasks[c]) :
        k \in Nat \ {0} /\ k + 1 \in DOMAIN tasks[c] /\ Tail(tasks[c])[k] = tasks[c][k + 1]
  BY <1>2, TailElements
<1>6. 1 \in DOMAIN tasks[c] /\ Head(tasks[c]) = tasks[c][1]
  BY <1>2, TailElements
<1>7. QED
  BY <1>1, <1>2, <1>4, <1>5, <1>6

(***************************************************************************)
(* A chunk stays one of requests that were read.                           *)
(***************************************************************************)
LEMMA OwnChunkKept ==
  ASSUME NEW c, NEW chunk, NEW m \in Int, NEW n \in Int, m <= n,
         \A i \in DOMAIN chunk : chunk[i][2] \in Nat, OwnChunk(c, chunk, m)
  PROVE  OwnChunk(c, chunk, n)
BY DEF OwnChunk

\* the tasks of a connection stay in the order of its requests
LEMMA TasksStep ==
  ASSUME TypeOK, SendInv, KnownInv, PoolInv, InboxInv, TasksInv, [Next]_reactorVars
  PROVE  TasksInv'
<1> SUFFICES ASSUME NEW c \in Conn
             PROVE  /\ \A k \in DOMAIN tasks'[c] : OwnChunk(c, tasks'[c][k], Taken(c)')
                    /\ \A k, l \in DOMAIN tasks'[c] :
                         k < l => Before(tasks'[c][k], tasks'[c][l])
  BY DEF TasksInv
<1>1. Taken(c) \in Int /\ Taken(c)' \in Int /\ Taken(c) <= Taken(c)'
  BY TakenGrows
<1>2. \A k \in DOMAIN tasks[c] :
        /\ k \in Nat /\ OwnChunk(c, tasks[c][k], Taken(c)')
        /\ \A i \in DOMAIN tasks[c][k] : tasks[c][k][i][2] \in Nat
  <2> TAKE k \in DOMAIN tasks[c]
  <2>1. k \in Nat /\ \A i \in DOMAIN tasks[c][k] : tasks[c][k][i][2] \in Nat
    BY Numbers
  <2>2. OwnChunk(c, tasks[c][k], Taken(c))
    BY DEF TasksInv
  <2>3. OwnChunk(c, tasks[c][k], Taken(c)')
    BY <1>1, <2>1, <2>2, OwnChunkKept
  <2>4. QED
    BY <2>1, <2>3
<1>3. \A k, l \in DOMAIN tasks[c] : k < l => Before(tasks[c][k], tasks[c][l])
  BY DEF TasksInv
<1>4. CASE tasks'[c] = tasks[c]
  BY <1>2, <1>3, <1>4
<1>5. ASSUME NEW key \in loop.keys, key.conn = c, Read(key)
      PROVE  /\ \A k \in DOMAIN tasks'[c] : OwnChunk(c, tasks'[c][k], Taken(c)')
             /\ \A k, l \in DOMAIN tasks'[c] : k < l => Before(tasks'[c][k], tasks'[c][l])
  <2>1. PICK chunk \in Chunk : NewChunk(c, chunk)
    BY <1>5, ReadChunk
  <2>2. PICK n \in Nat :
          /\ DOMAIN tasks[c] = 1 .. n /\ DOMAIN tasks'[c] = 1 .. n + 1
          /\ tasks'[c][n + 1] = chunk
          /\ \A k \in 1 .. n : tasks'[c][k] = tasks[c][k]
    <3>1. tasks[c] \in Seq(Chunk) /\ tasks'[c] = Append(tasks[c], chunk)
      BY <2>1 DEF TypeOK, NewChunk
    <3>2. PICK n \in Nat : n = Len(tasks[c])
      BY <3>1, LenProperties
    <3>3. /\ DOMAIN tasks[c] = 1 .. n /\ DOMAIN tasks'[c] = 1 .. n + 1
          /\ tasks'[c][n + 1] = chunk
      BY <2>1, <3>1, <3>2, AppendElements
    <3>4. \A k \in 1 .. n : tasks'[c][k] = tasks[c][k]
      BY <2>1, <3>1, <3>2, AppendElements
    <3>5. QED
      BY <3>3, <3>4
  <2>3. ASSUME NEW k \in 1 .. n
        PROVE  Before(tasks[c][k], chunk)
    <3>1. \A i \in DOMAIN tasks[c][k] :
            tasks[c][k][i][2] \in Nat /\ tasks[c][k][i][2] <= Taken(c)
      BY <1>2, <2>2 DEF TasksInv, OwnChunk
    <3>2. \A i \in DOMAIN chunk : chunk[i][2] \in Nat /\ chunk[i][2] > Taken(c)
      BY <2>1 DEF NewChunk
    <3>3. QED
      BY <1>1, <3>1, <3>2 DEF Before
  <2>4. OwnChunk(c, chunk, Taken(c)')
    BY <2>1 DEF NewChunk
  <2>5. ASSUME NEW k \in DOMAIN tasks'[c]
        PROVE  OwnChunk(c, tasks'[c][k], Taken(c)')
    BY <1>2, <2>2, <2>4
  <2>6. ASSUME NEW k \in DOMAIN tasks'[c], NEW l \in DOMAIN tasks'[c], k < l
        PROVE  Before(tasks'[c][k], tasks'[c][l])
    <3>1. k \in 1 .. n
      BY <2>2, <2>6
    <3>2. CASE l = n + 1
      BY <2>2, <2>3, <3>1, <3>2
    <3>3. CASE l \in 1 .. n
      BY <1>3, <2>2, <2>6, <3>1, <3>3
    <3>4. QED
      BY <2>2, <3>2, <3>3
  <2>7. QED
    BY <2>5, <2>6
<1>6. CASE AcceptFails
  <2>1. tasks'[c] = <<>>
    BY <1>6 DEF AcceptFails, Pool!Shutdown
  <2>2. DOMAIN tasks'[c] = {}
    BY <2>1
  <2>3. QED
    BY <2>2
<1>7. CASE StartTask(c)
  <2>1. \A k \in DOMAIN tasks'[c] :
          k \in Nat \ {0} /\ k + 1 \in DOMAIN tasks[c] /\ tasks'[c][k] = tasks[c][k + 1]
    BY <1>7, StartFacts
  <2>2. QED
    BY <1>2, <1>3, <2>1
<1>8. QED
  BY <1>4, <1>5, <1>6, <1>7, RequestSteps, WorkerKeepsInbox DEF Ask, poolVars

(***************************************************************************)
(* The requests of a handler only become fewer, until its next task.       *)
(***************************************************************************)
LEMMA HandlerChunk ==
  ASSUME TypeOK, SendInv, KnownInv, NEW c \in Conn, WorkerStep(c), ~StartTask(c),
         worker'[c] # Idle
  PROVE  /\ worker[c] # Idle /\ worker[c].chunk \in Seq(Request) /\ worker[c].chunk # <<>>
         /\ \/ worker'[c].chunk = worker[c].chunk
            \/ worker'[c].chunk = Tail(worker[c].chunk)
<1>1. CASE Process(c)
  <2>1. worker[c] # Idle
    BY <1>1 DEF Process, Idle
  <2>2. worker[c].chunk # <<>>
    BY <1>1, WorkerSteps
  <2>3. worker'[c].chunk = worker[c].chunk \/ worker'[c].chunk = Tail(worker[c].chunk)
    BY <1>1, WorkerSteps DEF GoesOn
  <2>4. QED
    BY <2>1, <2>2, <2>3, Numbers
<1>2. CASE EndTask(c)
  BY <1>2, WorkerSteps
<1>3. CASE SendAdd(c) \/ SendUpdate(c) \/ SendWakeup(c)
  <2>1. Sends(c) /\ worker[c] # Idle
    BY <1>3 DEF SendAdd, SendUpdate, SendWakeup, Sends, Idle
  <2>2. worker[c].chunk # <<>> /\ worker[c].chunk \in Seq(Request)
    BY <2>1, SendFields, Numbers
  <2>3. worker'[c].chunk = worker[c].chunk \/ worker'[c].chunk = Tail(worker[c].chunk)
    BY <1>3, WorkerSteps DEF GoesOn
  <2>4. QED
    BY <2>1, <2>2, <2>3
<1>4. QED
  BY <1>1, <1>2, <1>3 DEF WorkerStep

\* what the handler has in hand comes before what waits in tasks
LEMMA HandlerStep ==
  ASSUME TypeOK, SendInv, KnownInv, PoolInv, InboxInv, TasksInv, HandlerInv, [Next]_reactorVars
  PROVE  HandlerInv'
<1> SUFFICES ASSUME NEW c \in Conn, worker'[c] # Idle
             PROVE  /\ OwnChunk(c, worker'[c].chunk, Taken(c)')
                    /\ \A k \in DOMAIN tasks'[c] : Before(worker'[c].chunk, tasks'[c][k])
  BY DEF HandlerInv
<1>1. Taken(c) \in Int /\ Taken(c)' \in Int /\ Taken(c) <= Taken(c)'
  BY TakenGrows
<1>2. ASSUME worker[c] # Idle
      PROVE  /\ \A i \in DOMAIN worker[c].chunk :
                  worker[c].chunk[i][2] \in Nat /\ worker[c].chunk[i][2] <= Taken(c)
             /\ OwnChunk(c, worker[c].chunk, Taken(c)')
             /\ \A k \in DOMAIN tasks[c] : Before(worker[c].chunk, tasks[c][k])
  <2>1. \A i \in DOMAIN worker[c].chunk : worker[c].chunk[i][2] \in Nat
    BY <1>2, Numbers
  <2>2. OwnChunk(c, worker[c].chunk, Taken(c))
    BY <1>2 DEF HandlerInv
  <2>3. OwnChunk(c, worker[c].chunk, Taken(c)')
    BY <1>1, <2>1, <2>2, OwnChunkKept
  <2>4. QED
    BY <1>2, <2>1, <2>2, <2>3 DEF HandlerInv, OwnChunk
<1>3. CASE worker'[c] = worker[c] /\ tasks'[c] = tasks[c]
  BY <1>2, <1>3
<1>4. CASE Ask(c)
  BY <1>3, <1>4, AskFacts
<1>5. ASSUME NEW key \in loop.keys, key.conn = c, Read(key)
      PROVE  /\ OwnChunk(c, worker'[c].chunk, Taken(c)')
             /\ \A k \in DOMAIN tasks'[c] : Before(worker'[c].chunk, tasks'[c][k])
  <2>1. PICK chunk \in Chunk : NewChunk(c, chunk)
    BY <1>5, ReadChunk
  <2>2. worker'[c] = worker[c]
    BY <1>5, ReadChunk
  <2>3. PICK n \in Nat :
          /\ DOMAIN tasks[c] = 1 .. n /\ DOMAIN tasks'[c] = 1 .. n + 1
          /\ tasks'[c][n + 1] = chunk
          /\ \A k \in 1 .. n : tasks'[c][k] = tasks[c][k]
    <3>1. tasks[c] \in Seq(Chunk) /\ tasks'[c] = Append(tasks[c], chunk)
      BY <2>1 DEF TypeOK, NewChunk
    <3>2. PICK n \in Nat : n = Len(tasks[c])
      BY <3>1, LenProperties
    <3>3. /\ DOMAIN tasks[c] = 1 .. n /\ DOMAIN tasks'[c] = 1 .. n + 1
          /\ tasks'[c][n + 1] = chunk
      BY <2>1, <3>1, <3>2, AppendElements
    <3>4. \A k \in 1 .. n : tasks'[c][k] = tasks[c][k]
      BY <2>1, <3>1, <3>2, AppendElements
    <3>5. QED
      BY <3>3, <3>4
  <2>4. Before(worker[c].chunk, chunk)
    <3>1. \A i \in DOMAIN chunk : chunk[i][2] \in Nat /\ chunk[i][2] > Taken(c)
      BY <2>1 DEF NewChunk
    <3>2. QED
      BY <1>1, <1>2, <2>2, <3>1 DEF Before
  <2>5. ASSUME NEW k \in DOMAIN tasks'[c]
        PROVE  Before(worker[c].chunk, tasks'[c][k])
    <3>1. k \in 1 .. n \/ k = n + 1
      BY <2>3
    <3>2. QED
      BY <1>2, <2>2, <2>3, <2>4, <3>1
  <2>6. QED
    BY <1>2, <2>2, <2>5
<1>6. CASE AcceptFails
  <2>1. DOMAIN tasks'[c] = {}
    <3>1. tasks'[c] = <<>>
      BY <1>6 DEF AcceptFails, Pool!Shutdown
    <3>2. QED
      BY <3>1
  <2>2. worker'[c] = worker[c]
    BY <1>6 DEF AcceptFails
  <2>3. QED
    BY <1>2, <2>1, <2>2
<1>7. CASE StartTask(c)
  <2>1. /\ 1 \in DOMAIN tasks[c] /\ worker'[c].chunk = tasks[c][1]
        /\ \A k \in DOMAIN tasks'[c] :
             k \in Nat \ {0} /\ k + 1 \in DOMAIN tasks[c] /\ tasks'[c][k] = tasks[c][k + 1]
    BY <1>7, StartFacts
  <2>2. Taken(c)' = Taken(c)
    BY <1>7, WorkerKeepsInbox DEF WorkerStep
  <2>3. OwnChunk(c, worker'[c].chunk, Taken(c)')
    BY <2>1, <2>2 DEF TasksInv
  <2>4. ASSUME NEW k \in DOMAIN tasks'[c]
        PROVE  Before(worker'[c].chunk, tasks'[c][k])
    <3>1. k \in Nat /\ k + 1 \in DOMAIN tasks[c] /\ k # 0
      BY <2>1
    <3>2. 1 < k + 1
      BY <3>1
    <3>3. QED
      BY <2>1, <3>1, <3>2 DEF TasksInv
  <2>5. QED
    BY <2>3, <2>4
<1>8. CASE WorkerStep(c) /\ ~StartTask(c)
  <2>1. tasks'[c] = tasks[c]
    BY <1>8, WorkerKeepsInbox
  <2>2. /\ worker[c] # Idle /\ worker[c].chunk \in Seq(Request) /\ worker[c].chunk # <<>>
        /\ worker'[c].chunk = worker[c].chunk \/ worker'[c].chunk = Tail(worker[c].chunk)
    BY <1>8, HandlerChunk
  <2>3. CASE worker'[c].chunk = worker[c].chunk
    BY <1>2, <2>1, <2>2, <2>3
  <2>4. CASE worker'[c].chunk = Tail(worker[c].chunk)
    <3>1. PICK s, t : s = worker[c].chunk /\ t = Tail(s)
      OBVIOUS
    <3>2. \A i \in DOMAIN t : i \in Int /\ i + 1 \in DOMAIN s /\ t[i] = s[i + 1]
      <4>1. s \in Seq(Request) /\ s # <<>>
        BY <2>2, <3>1
      <4>2. /\ DOMAIN Tail(s) = 1 .. Len(s) - 1
            /\ \A i \in DOMAIN Tail(s) : i + 1 \in DOMAIN s /\ Tail(s)[i] = s[i + 1]
        BY <4>1, TailElements
      <4>3. QED
        BY <3>1, <4>2
    <3>3. OwnChunk(c, t, Taken(c)')
      <4>1. OwnChunk(c, s, Taken(c)')
        BY <1>2, <2>2, <3>1
      <4>2. \A i \in DOMAIN t : t[i][1] = c /\ t[i][2] <= Taken(c)'
        BY <3>2, <4>1 DEF OwnChunk
      <4>3. ASSUME NEW i \in DOMAIN t, NEW j \in DOMAIN t, i < j
            PROVE  t[i][2] < t[j][2]
        <5>1. i + 1 \in DOMAIN s /\ j + 1 \in DOMAIN s /\ i + 1 < j + 1
          BY <3>2, <4>3
        <5>2. s[i + 1][2] < s[j + 1][2]
          BY <4>1, <5>1 DEF OwnChunk
        <5>3. QED
          BY <3>2, <5>2
      <4>4. QED
        BY <4>2, <4>3 DEF OwnChunk
    <3>4. \A k \in DOMAIN tasks[c] : Before(t, tasks[c][k])
      BY <1>2, <2>2, <3>1, <3>2 DEF Before
    <3>5. QED
      BY <2>1, <2>4, <3>1, <3>3, <3>4
  <2>5. QED
    BY <2>2, <2>3, <2>4
<1>9. QED
  BY <1>3, <1>4, <1>5, <1>6, <1>7, <1>8, RequestSteps

(***************************************************************************)
(* Only Ask and Read add to what may be answered, and they do so beyond    *)
(* what was taken before: no number comes back.                            *)
(***************************************************************************)
LEMMA ToAnswerStep ==
  ASSUME TypeOK, SendInv, KnownInv, PoolInv, InboxInv, [Next]_reactorVars,
         NEW c \in Conn, NEW n \in Nat, ToAnswer(c, n)'
  PROVE  ToAnswer(c, n)
<1>1. Taken(c) \in Int /\ Taken(c)' \in Int /\ Taken(c) <= Taken(c)'
  BY TakenGrows
<1>2. CASE n > Taken(c)'
  BY <1>1, <1>2 DEF ToAnswer
<1>3. CASE \E k \in DOMAIN tasks'[c] : \E i \in DOMAIN tasks'[c][k] : tasks'[c][k][i][2] = n
  <2>1. PICK k \in DOMAIN tasks'[c] :
          \E i \in DOMAIN tasks'[c][k] : tasks'[c][k][i][2] = n
    BY <1>3
  <2>2. CASE tasks'[c] = tasks[c]
    BY <2>1, <2>2 DEF ToAnswer
  <2>3. ASSUME NEW key \in loop.keys, key.conn = c, Read(key)
        PROVE  ToAnswer(c, n)
    <3>1. PICK chunk \in Chunk : NewChunk(c, chunk)
      BY <2>3, ReadChunk
    <3>2. tasks[c] \in Seq(Chunk) /\ tasks'[c] = Append(tasks[c], chunk)
      BY <3>1 DEF TypeOK, NewChunk
    <3>3. (k \in DOMAIN tasks[c] /\ tasks'[c][k] = tasks[c][k]) \/ tasks'[c][k] = chunk
      BY <3>1, <3>2, AppendElements
    <3>4. CASE tasks'[c][k] = chunk
      BY <2>1, <3>1, <3>4 DEF ToAnswer, NewChunk
    <3>5. CASE k \in DOMAIN tasks[c] /\ tasks'[c][k] = tasks[c][k]
      BY <2>1, <3>5 DEF ToAnswer
    <3>6. QED
      BY <3>3, <3>4, <3>5
  <2>4. ASSUME AcceptFails
        PROVE  FALSE
    <3>1. tasks'[c] = <<>>
      BY <2>4 DEF AcceptFails, Pool!Shutdown
    <3>2. QED
      BY <2>1, <3>1
  <2>5. CASE StartTask(c)
    BY <2>1, <2>5, StartFacts DEF ToAnswer
  <2>6. QED
    BY <2>2, <2>3, <2>4, <2>5, RequestSteps, WorkerKeepsInbox, AskFacts
<1>4. CASE /\ worker'[c] # Idle
           /\ \E i \in DOMAIN worker'[c].chunk : worker'[c].chunk[i][2] = n
  <2>1. PICK i \in DOMAIN worker'[c].chunk : worker'[c].chunk[i][2] = n
    BY <1>4
  <2>2. CASE worker'[c] = worker[c]
    BY <1>4, <2>1, <2>2 DEF ToAnswer
  <2>3. CASE StartTask(c)
    BY <2>1, <2>3, StartFacts DEF ToAnswer
  <2>4. CASE WorkerStep(c) /\ ~StartTask(c) /\ worker'[c].chunk = worker[c].chunk
    <3>1. worker[c] # Idle
      BY <1>4, <2>4, HandlerChunk
    <3>2. QED
      BY <2>1, <2>4, <3>1 DEF ToAnswer
  <2>5. CASE WorkerStep(c) /\ ~StartTask(c) /\ worker'[c].chunk = Tail(worker[c].chunk)
    <3>1. worker[c] # Idle /\ worker[c].chunk \in Seq(Request) /\ worker[c].chunk # <<>>
      BY <1>4, <2>5, HandlerChunk
    <3>2. /\ i \in Nat \ {0} /\ i + 1 \in DOMAIN worker[c].chunk
          /\ worker'[c].chunk[i] = worker[c].chunk[i + 1]
      <4>1. PICK s, t : s = worker[c].chunk /\ t = Tail(s)
        OBVIOUS
      <4>2. /\ DOMAIN t = 1 .. Len(s) - 1
            /\ \A j \in DOMAIN t : j + 1 \in DOMAIN s /\ t[j] = s[j + 1]
        BY <3>1, <4>1, TailElements
      <4>3. QED
        BY <2>5, <4>1, <4>2
    <3>3. QED
      BY <2>1, <3>1, <3>2 DEF ToAnswer
  <2>6. ASSUME NEW key \in loop.keys, key.conn = c, Read(key)
        PROVE  worker'[c] = worker[c]
    BY <2>6, ReadChunk
  <2>7. ASSUME Ask(c) \/ AcceptFails
        PROVE  worker'[c] = worker[c]
    BY <2>7 DEF Ask, AcceptFails
  <2>8. QED
    BY <1>4, <2>2, <2>3, <2>4, <2>5, <2>6, <2>7, RequestSteps, HandlerChunk
<1>5. QED
  BY <1>2, <1>3, <1>4 DEF ToAnswer

(***************************************************************************)
(* The answer that a send adds to the queue of its own client: it is to a  *)
(* request that may still be answered, and no other comes before that.     *)
(***************************************************************************)
LEMMA AnswerAdded ==
  ASSUME TypeOK, SendInv, KnownInv, TasksInv, HandlerInv, NEW c \in Conn, SendAdd(c),
         NEW r, r = Head(worker[c].chunk)
  PROVE  /\ r[1] = c /\ r[2] \in Nat
         /\ ToAnswer(c, r[2])
         /\ \A n \in Nat : ToAnswer(c, n)' => r[2] <= n
<1>1. worker[c] # Idle /\ worker[c].step = "add" /\ Sends(c)
  BY DEF SendAdd, Idle, Sends
<1>2. worker[c].chunk \in Seq(Request) /\ worker[c].chunk # <<>>
  BY <1>1, SendFields, Numbers
<1>3. 1 \in DOMAIN worker[c].chunk /\ r = worker[c].chunk[1]
  BY <1>2, TailElements
<1>4. r[1] = c /\ r[2] \in Nat /\ r[2] <= Taken(c)
  BY <1>1, <1>3, Numbers DEF HandlerInv, OwnChunk
<1>5. ToAnswer(c, r[2])
  BY <1>1, <1>3 DEF ToAnswer
<1>6. ASSUME NEW n \in Nat, ToAnswer(c, n)'
      PROVE  r[2] <= n
  <2>1. Taken(c)' = Taken(c) /\ tasks'[c] = tasks[c] /\ Taken(c) \in Int
    BY WorkerKeepsInbox, Numbers DEF SendAdd, WorkerStep, poolVars
  <2>2. /\ worker'[c].step = "update"
        /\ worker'[c].chunk = worker[c].chunk /\ worker'[c].to = worker[c].to
    BY WorkerSteps DEF WorkerStep
  <2>3. CASE n > Taken(c)'
    BY <1>4, <2>1, <2>3
  <2>4. CASE \E k \in DOMAIN tasks'[c] : \E i \in DOMAIN tasks'[c][k] : tasks'[c][k][i][2] = n
    <3>1. PICK k \in DOMAIN tasks[c] : \E i \in DOMAIN tasks[c][k] : tasks[c][k][i][2] = n
      BY <2>1, <2>4
    <3>2. r[2] < n
      BY <1>1, <1>3, <3>1 DEF HandlerInv, Before
    <3>3. QED
      BY <1>4, <3>2
  <2>5. CASE \E i \in DOMAIN worker'[c].chunk : worker'[c].chunk[i][2] = n
    <3>1. PICK i \in DOMAIN worker[c].chunk : worker[c].chunk[i][2] = n
      BY <2>2, <2>5
    <3>2. i = 1 \/ i > 1
      BY <1>1, <3>1, Numbers
    <3>3. CASE i = 1
      BY <1>3, <1>4, <3>1, <3>3
    <3>4. CASE i > 1
      BY <1>1, <1>3, <1>4, <3>1, <3>4 DEF HandlerInv, OwnChunk
    <3>5. QED
      BY <3>2, <3>3, <3>4
  <2>6. QED
    BY <1>6, <2>3, <2>4, <2>5 DEF ToAnswer
<1>7. QED
  BY <1>4, <1>5, <1>6

\* every step keeps the answers in order
LEMMA AnswersStep ==
  ASSUME TypeOK, TypeOK', LoopInv, SendInv, KnownInv, PoolInv, OrderInv, [Next]_reactorVars
  PROVE  ToldInv' /\ RepliesInOrder'
<1> USE DEF OrderInv
<1> SUFFICES ASSUME NEW c \in Conn
             PROVE  /\ \A i \in DOMAIN Told(c)' : Told(c)'[i][1] = c =>
                         \A n \in Nat : ToAnswer(c, n)' => Told(c)'[i][2] <= n
                    /\ \A i, j \in DOMAIN Told(c)' :
                         i < j /\ Told(c)'[i][1] = c /\ Told(c)'[j][1] = c =>
                           Told(c)'[i][2] <= Told(c)'[j][2]
  BY DEF ToldInv, RepliesInOrder
<1>1. \A i \in DOMAIN Told(c) : Told(c)[i][1] = c =>
        \A n \in Nat : ToAnswer(c, n) => Told(c)[i][2] <= n
  BY DEF ToldInv
<1>2. \A n \in Nat : ToAnswer(c, n)' => ToAnswer(c, n)
  BY ToAnswerStep
<1>3. CASE Told(c)' = Told(c)
  <2>1. \A i, j \in DOMAIN Told(c) :
          i < j /\ Told(c)[i][1] = c /\ Told(c)[j][1] = c => Told(c)[i][2] <= Told(c)[j][2]
    BY DEF RepliesInOrder
  <2>2. QED
    BY <1>1, <1>2, <1>3, <2>1
<1>4. ASSUME NEW d \in Conn, SendAdd(d), Head(worker[d].to) = c
      PROVE  /\ \A i \in DOMAIN Told(c)' : Told(c)'[i][1] = c =>
                  \A n \in Nat : ToAnswer(c, n)' => Told(c)'[i][2] <= n
             /\ \A i, j \in DOMAIN Told(c)' :
                  i < j /\ Told(c)'[i][1] = c /\ Told(c)'[j][1] = c =>
                    Told(c)'[i][2] <= Told(c)'[j][2]
  <2>1. PICK t, t1, r : t = Told(c) /\ t1 = Told(c)' /\ r = Head(worker[d].chunk)
    OBVIOUS
  <2>2. t \in Seq(Request) /\ r \in Request /\ t1 = Append(t, r)
    BY <1>4, <2>1, ToldAdded
  <2>3. PICK l \in Nat : /\ DOMAIN t = 1 .. l /\ DOMAIN t1 = 1 .. l + 1 /\ t1[l + 1] = r
                         /\ \A i \in 1 .. l : t1[i] = t[i]
    BY <2>2, AppendElements
  <2>4. /\ r[1] = d /\ r[2] \in Nat
        /\ ToAnswer(d, r[2])
        /\ d = c => \A n \in Nat : ToAnswer(c, n)' => r[2] <= n
    BY <1>4, <2>1, AnswerAdded
  <2>5. ASSUME NEW i \in DOMAIN t1, t1[i][1] = c, NEW n \in Nat, ToAnswer(c, n)'
        PROVE  t1[i][2] <= n
    <3>1. CASE i \in 1 .. l
      BY <1>1, <1>2, <2>1, <2>3, <2>5, <3>1
    <3>2. CASE i = l + 1
      BY <2>3, <2>4, <2>5, <3>2
    <3>3. QED
      BY <2>3, <3>1, <3>2
  <2>6. ASSUME NEW i \in DOMAIN t1, NEW j \in DOMAIN t1, i < j, t1[i][1] = c, t1[j][1] = c
        PROVE  t1[i][2] <= t1[j][2]
    <3>1. i \in 1 .. l
      BY <2>3, <2>6
    <3>2. CASE j \in 1 .. l
      BY <2>1, <2>3, <2>6, <3>1, <3>2 DEF RepliesInOrder
    <3>3. CASE j = l + 1
      BY <1>1, <2>1, <2>3, <2>4, <2>6, <3>1, <3>3
    <3>4. QED
      BY <2>3, <3>2, <3>3
  <2>7. QED
    BY <2>1, <2>5, <2>6
<1>5. QED
  BY <1>3, <1>4, ToldUnchanged

\* the order holds initially ...
LEMMA OrderInit == Init => OrderInv
<1> SUFFICES ASSUME Init
             PROVE  OrderInv
  OBVIOUS
<1>1. \A c \in Conn : DOMAIN inbox[c] = {} /\ DOMAIN tasks[c] = {} /\ worker[c] = Idle
  BY DEF Init, Pool!Init
<1>2. ASSUME NEW c \in Conn
      PROVE  DOMAIN Told(c) = {}
  <2>1. written[c] = <<>> /\ writeQueue[c] = <<>>
    BY DEF Init
  <2>2. PICK w \in Seq(Request), v \in Seq(Message) : w = <<>> /\ v = <<>>
    BY EmptySeq
  <2>3. Len(w) = 0 /\ Len(v) = 0 /\ DOMAIN ToldOf(w, v) = 1 .. Len(w) + Len(v)
    BY <2>2, ToldElements
  <2>4. DOMAIN ToldOf(w, v) = {}
    BY <2>3
  <2>5. QED
    BY <2>1, <2>2, <2>4 DEF Told, ToldOf
<1>3. QED
  BY <1>1, <1>2 DEF OrderInv, InboxInv, TasksInv, HandlerInv, ToldInv, RepliesInOrder

\* ... and every step keeps it
LEMMA OrderStep == IInv /\ IInv' /\ OrderInv /\ [Next]_reactorVars => OrderInv'
BY InboxStep, TasksStep, HandlerStep, AnswersStep DEF IInv, OrderInv

-----------------------------------------------------------------------------
(* What holds of the reactor *)

(***************************************************************************)
(* Every reachable state has its type, for any number of clients, requests *)
(* and pieces of a message: a room of a socket is never taken twice, and a *)
(* message in a write queue is never used up (continueWrite).              *)
(***************************************************************************)
THEOREM Typing == Spec => []TypeOK
BY Invariance, PTL DEF IInv

(***************************************************************************)
(* No interest in writing is lost between send, on the pool's threads, and *)
(* the end of continueWrite, on the selector's.                            *)
(***************************************************************************)
THEOREM InterestKept == Spec => []WriteInterestKept
BY Invariance, PTL DEF IInv

(***************************************************************************)
(* updateInterestedOps never leaves a task behind for a selector thread    *)
(* that sleeps in select.                                                  *)
(***************************************************************************)
THEOREM TasksWake == Spec => []TasksWakeSelector
<1>1. WakeInv => TasksWakeSelector
  BY DEF WakeInv, TasksWakeSelector, At
<1>2. QED
  BY <1>1, Invariance, PTL DEF IInv

(***************************************************************************)
(* serve ends by a failing accept or by a client that left, and no other   *)
(* way.                                                                    *)
(***************************************************************************)
THEOREM EndsByLeaving == Spec => []ServeEndsByLeaving
BY Invariance, PTL DEF IInv

(***************************************************************************)
(* continueWrite never starts a message before the one it wrote a part of  *)
(* is out.                                                                 *)
(***************************************************************************)
THEOREM Whole == Spec => []MessagesWhole
BY Invariance, PTL DEF IInv

(***************************************************************************)
(* Requests stay in the order they were sent, from the inbox through the   *)
(* pool's tasks to the handler, and nothing was answered that comes after  *)
(* what may still be.                                                      *)
(***************************************************************************)
THEOREM OrderInvariance == Spec => []OrderInv
<1>1. QED
  BY OrderInit, OrderStep, Invariance, PTL DEF Spec

(***************************************************************************)
(* Each client is answered in the order of its requests, through           *)
(* continueRead, the pool, send and continueWrite, however many messages   *)
(* answer a request.                                                       *)
(***************************************************************************)
THEOREM InOrder == Spec => []RepliesInOrder
BY OrderInvariance, PTL DEF OrderInv
=============================================================================
