---------------------------- MODULE SerialActors ----------------------------
(***************************************************************************)
(* What ActorThreadPool promises its user, the Reactor: the tasks of one   *)
(* actor run one at a time, in the order in which they were submitted,     *)
(* while those of different actors may run at once; and every task runs,   *)
(* unless the pool is shut down first.                                     *)
(***************************************************************************)
EXTENDS Sequences, FiniteSets

CONSTANTS Act, Task

VARIABLES
  open,     \* the pool was not shut down
  queue,    \* per actor: the tasks that wait, in the order of submission
  running   \* per actor: the tasks that run

serialVars == <<open, queue, running>>

TasksIn(seq) == {seq[i] : i \in DOMAIN seq}

Init ==
  /\ open = TRUE
  /\ queue = [a \in Act |-> <<>>]
  /\ running = [a \in Act |-> {}]

Submit(a, t) ==
  /\ open
  /\ \A b \in Act : t \notin TasksIn(queue[b]) \cup running[b]
  /\ queue' = [queue EXCEPT ![a] = Append(@, t)]
  /\ UNCHANGED <<open, running>>

Start(a) ==
  /\ open
  /\ running[a] = {}
  /\ queue[a] # <<>>
  /\ running' = [running EXCEPT ![a] = {Head(queue[a])}]
  /\ queue' = [queue EXCEPT ![a] = Tail(@)]
  /\ UNCHANGED open

Finish(a) ==
  /\ running[a] # {}
  /\ running' = [running EXCEPT ![a] = {}]
  /\ UNCHANGED <<open, queue>>

\* what waits is dropped, what runs may finish
Shutdown ==
  /\ open
  /\ open' = FALSE
  /\ queue' = [a \in Act |-> <<>>]
  /\ UNCHANGED running

Next ==
  \/ \E a \in Act : (\E t \in Task : Submit(a, t)) \/ Start(a) \/ Finish(a)
  \/ Shutdown

Spec == Init /\ [][Next]_serialVars

FairSpec ==
  Spec /\ \A a \in Act : WF_serialVars(Start(a)) /\ WF_serialVars(Finish(a))
=============================================================================
