----------------------- MODULE ActorThreadPoolProofs -----------------------
(***************************************************************************)
(* Theorems about ActorThreadPool, for every number of actors, tasks and   *)
(* threads: no task is forgotten, and the pool implements SerialActors.    *)
(***************************************************************************)
EXTENDS ActorThreadPool, SequenceTheorems, TLAPS

-----------------------------------------------------------------------------
(* The inductive invariant *)

InMonitor(p) ==
  thread[p].step \in {"test", "mark", "execute", "enqueue", "look", "remove", "next"}

\* what submit and complete do belongs to threads of their own
RoleInv ==
  /\ \A s \in Submitter :
       thread[s].step \in {"idle", "enter", "test", "mark", "execute", "enqueue"}
  /\ \A w \in Worker :
       thread[w].step \in {"idle", "run", "complete", "look", "remove", "next"}

\* a thread between the braces of synchronized (act) owns the monitor
MonitorInv == \A p \in Thread : InMonitor(p) => monitor[thread[p].act] = p

\* what a thread has read inside the monitor is still so, and only an actor
\* that plays has pending tasks
PlayingInv ==
  /\ \A a \in Act : acts[a] # <<>> => a \in playingNow
  /\ \A p \in Thread :
       /\ At(p, "mark") => thread[p].act \notin playingNow
       /\ At(p, "enqueue") => thread[p].act \in playingNow
       /\ thread[p].step \in {"execute", "remove"} => acts[thread[p].act] = <<>>
       /\ At(p, "next") => acts[thread[p].act] # <<>>

\* p is to hand over, run or complete a task of a
Holds(p, a) ==
  /\ thread[p].step \in {"execute", "run", "complete", "look", "remove", "next"}
  /\ thread[p].act = a

\* an actor that plays has one token, a job in the executor's queue or a thread
\* that holds the actor; any other has none
Token(a) ==
  /\ a \notin playingNow =>
       (\A p \in Thread : ~Holds(p, a)) /\ (\A i \in DOMAIN ready : ready[i].act # a)
  /\ \A p, q \in Thread : Holds(p, a) /\ Holds(q, a) => p = q
  /\ \A i, j \in DOMAIN ready : ready[i].act = a /\ ready[j].act = a => i = j
  /\ \A p \in Thread, i \in DOMAIN ready : ~(Holds(p, a) /\ ready[i].act = a)
  /\ open /\ a \in playingNow =>
       (\E p \in Thread : Holds(p, a)) \/ (\E i \in DOMAIN ready : ready[i].act = a)

TokenInv == \A a \in Act : Token(a)

ClosedInv == ~open => ready = <<>>

\* p has a task that is not run to its end
Carries(p) ==
  thread[p].step \in {"enter", "test", "mark", "execute", "enqueue", "run"}

\* the tasks that threads and queues hold were submitted and have not run ...
HeldSubmitted ==
  /\ \A p \in Thread : Carries(p) => thread[p].task \in submitted
  /\ \A i \in DOMAIN ready : ready[i].task \in submitted
  /\ \A a \in Act : \A i \in DOMAIN acts[a] : acts[a][i] \in submitted

\* ... and no task is held twice
HeldOnce ==
  /\ \A p, q \in Thread :
       Carries(p) /\ Carries(q) /\ thread[p].task = thread[q].task => p = q
  /\ \A p \in Thread, i \in DOMAIN ready : Carries(p) => thread[p].task # ready[i].task
  /\ \A p \in Thread, a \in Act :
       Carries(p) => \A i \in DOMAIN acts[a] : acts[a][i] # thread[p].task
  /\ \A i, j \in DOMAIN ready : ready[i].task = ready[j].task => i = j
  /\ \A a \in Act : \A i \in DOMAIN acts[a], j \in DOMAIN ready : acts[a][i] # ready[j].task
  /\ \A a, b \in Act : \A i \in DOMAIN acts[a], j \in DOMAIN acts[b] :
       acts[a][i] = acts[b][j] => a = b /\ i = j

IInv ==
  TypeOK /\ RoleInv /\ MonitorInv /\ PlayingInv /\ TokenInv /\ ClosedInv

TaskInv == HeldSubmitted /\ HeldOnce

-----------------------------------------------------------------------------
(* Lemmas about the steps of a thread *)

(***************************************************************************)
(* A thread that is not idle has an actor and a task.                      *)
(***************************************************************************)
LEMMA BusyFields ==
  ASSUME TypeOK, NEW p \in Thread, thread[p].step # "idle"
  PROVE  /\ thread[p] \in [step : Steps, act : Act, task : Task]
         /\ thread[p].act \in Act /\ thread[p].task \in Task
         /\ thread[p] # Idle
         /\ JobOf(p) \in Job
BY DEF TypeOK, Idle, JobOf, Job

(***************************************************************************)
(* Going on moves one thread, which keeps its actor and its task.          *)
(***************************************************************************)
LEMMA GoFields ==
  ASSUME TypeOK, NEW p \in Thread, thread[p].step # "idle", NEW st \in Steps, Go(p, st)
  PROVE  /\ thread' \in [Thread -> {Idle} \cup [step : Steps, act : Act, task : Task]]
         /\ thread'[p].step = st
         /\ thread'[p].act = thread[p].act /\ thread'[p].task = thread[p].task
         /\ \A q \in Thread : q # p => thread'[q] = thread[q]
BY BusyFields DEF TypeOK, Go

(***************************************************************************)
(* Stopping makes one thread idle.                                         *)
(***************************************************************************)
LEMMA StopFields ==
  ASSUME TypeOK, NEW p \in Thread, Stop(p)
  PROVE  /\ thread' \in [Thread -> {Idle} \cup [step : Steps, act : Act, task : Task]]
         /\ thread'[p].step = "idle"
         /\ \A q \in Thread : q # p => thread'[q] = thread[q]
BY DEF TypeOK, Stop, Idle

(***************************************************************************)
(* execute leaves jobs in the executor's queue.                            *)
(***************************************************************************)
LEMMA ExecuteFields ==
  ASSUME TypeOK, NEW job \in Job, Execute(job)
  PROVE  ready' \in Seq(Job)
BY AppendProperties DEF TypeOK, Execute

-----------------------------------------------------------------------------
(* Type correctness *)

LEMMA TypeStep ==
  ASSUME TypeOK, RoleInv, PlayingInv, [Next]_poolVars
  PROVE  TypeOK'
<1>1. ASSUME NEW s \in Submitter, NEW a \in Act, NEW t \in Task, Submit(s, a, t)
      PROVE  TypeOK'
  BY <1>1 DEF TypeOK, Submit, Thread, Steps
<1>2. ASSUME NEW s \in Submitter, SubmitterStep(s)
      PROVE  TypeOK'
  <2>1. s \in Thread
    BY DEF Thread
  <2>2. CASE SubmitEnter(s)
    BY <2>1, <2>2, BusyFields, GoFields DEF TypeOK, SubmitEnter, At, Enter, Steps
  <2>3. CASE SubmitTest(s)
    BY <2>1, <2>3, GoFields DEF TypeOK, SubmitTest, At, Steps
  <2>4. CASE SubmitMark(s)
    BY <2>1, <2>4, BusyFields, GoFields DEF TypeOK, SubmitMark, At, Steps
  <2>5. CASE SubmitExecute(s)
    BY <2>1, <2>5, BusyFields, StopFields, ExecuteFields DEF TypeOK, SubmitExecute, At, Leave
  <2>6. CASE SubmitEnqueue(s)
    <3>1. thread[s].act \in Act /\ thread[s].task \in Task
      BY <2>1, <2>6, BusyFields DEF SubmitEnqueue, At
    <3>2. acts' \in [Act -> Seq(Task)]
      BY <2>6, <3>1, AppendProperties DEF TypeOK, SubmitEnqueue
    <3>3. QED
      BY <2>1, <2>6, <3>1, <3>2, StopFields DEF TypeOK, SubmitEnqueue, Leave
  <2>7. QED
    BY <1>2, <2>2, <2>3, <2>4, <2>5, <2>6 DEF SubmitterStep
<1>3. ASSUME NEW s \in Submitter, Shutdown(s)
      PROVE  TypeOK'
  BY <1>3, EmptySeq DEF TypeOK, Shutdown
<1>4. ASSUME NEW w \in Worker, WorkerStep(w)
      PROVE  TypeOK'
  <2>1. w \in Thread
    BY DEF Thread
  <2>2. CASE Take(w)
    <3>1. Head(ready) \in Job /\ ready' \in Seq(Job)
      BY <2>2, HeadTailProperties DEF TypeOK, Take
    <3>2. QED
      BY <2>1, <2>2, <3>1 DEF TypeOK, Take, Job, Steps
  <2>3. CASE Run(w)
    BY <2>1, <2>3, GoFields DEF TypeOK, Run, At, Steps
  <2>4. CASE CompleteEnter(w)
    BY <2>1, <2>4, BusyFields, GoFields DEF TypeOK, CompleteEnter, At, Enter, Steps
  <2>5. CASE CompleteLook(w)
    BY <2>1, <2>5, GoFields DEF TypeOK, CompleteLook, At, Steps
  <2>6. CASE CompleteRemove(w)
    BY <2>1, <2>6, BusyFields, StopFields DEF TypeOK, CompleteRemove, At, Leave
  <2>7. CASE CompleteNext(w)
    <3> DEFINE a == thread[w].act
    <3>1. a \in Act /\ acts[a] # <<>>
      BY <2>1, <2>7, BusyFields DEF PlayingInv, CompleteNext, At
    <3>2. Head(acts[a]) \in Task /\ Tail(acts[a]) \in Seq(Task)
      BY <3>1, HeadTailProperties DEF TypeOK
    <3>3. ready' \in Seq(Job)
      <4>1. [act |-> a, task |-> Head(acts[a])] \in Job
        BY <3>1, <3>2 DEF Job
      <4>2. QED
        BY <2>7, <4>1, ExecuteFields DEF CompleteNext
    <3>4. QED
      BY <2>1, <2>7, <3>1, <3>2, <3>3, StopFields DEF TypeOK, CompleteNext, Leave
  <2>8. QED
    BY <1>4, <2>2, <2>3, <2>4, <2>5, <2>6, <2>7 DEF WorkerStep
<1>5. CASE UNCHANGED poolVars
  BY <1>5 DEF TypeOK, poolVars
<1>6. QED
  BY <1>1, <1>2, <1>3, <1>4, <1>5 DEF Next

-----------------------------------------------------------------------------
(* Threads and their monitors *)

LEMMA RoleStep ==
  ASSUME TypeOK, RoleInv, [Next]_poolVars
  PROVE  RoleInv'
<1>1. ASSUME NEW s \in Submitter, NEW a \in Act, NEW t \in Task, Submit(s, a, t)
      PROVE  RoleInv'
  BY <1>1, ThreadAssumption DEF RoleInv, TypeOK, Submit, Thread
<1>2. ASSUME NEW s \in Submitter, SubmitterStep(s)
      PROVE  RoleInv'
  <2>1. s \in Thread /\ s \notin Worker
    BY ThreadAssumption DEF Thread
  <2>2. CASE SubmitEnter(s) \/ SubmitTest(s) \/ SubmitMark(s)
    <3>1. PICK st \in {"test", "enqueue", "mark", "execute"} : Go(s, st)
      BY <2>2 DEF SubmitEnter, SubmitTest, SubmitMark
    <3>2. thread[s].step # "idle" /\ st \in Steps
      BY <2>2 DEF SubmitEnter, SubmitTest, SubmitMark, At, Steps
    <3>3. QED
      BY <2>1, <3>1, <3>2, GoFields DEF RoleInv, Thread
  <2>3. CASE SubmitExecute(s) \/ SubmitEnqueue(s)
    <3>1. Stop(s)
      BY <2>3 DEF SubmitExecute, SubmitEnqueue
    <3>2. QED
      BY <2>1, <3>1, StopFields DEF RoleInv, Thread
  <2>4. QED
    BY <1>2, <2>2, <2>3 DEF SubmitterStep
<1>3. ASSUME NEW s \in Submitter, Shutdown(s)
      PROVE  RoleInv'
  BY <1>3 DEF RoleInv, Shutdown
<1>4. ASSUME NEW w \in Worker, WorkerStep(w)
      PROVE  RoleInv'
  <2>1. w \in Thread /\ w \notin Submitter
    BY ThreadAssumption DEF Thread
  <2>2. CASE Take(w)
    BY <2>1, <2>2 DEF RoleInv, TypeOK, Take, Thread
  <2>3. CASE Run(w) \/ CompleteEnter(w) \/ CompleteLook(w)
    <3>1. PICK st \in {"complete", "look", "remove", "next"} : Go(w, st)
      BY <2>3 DEF Run, CompleteEnter, CompleteLook
    <3>2. thread[w].step # "idle" /\ st \in Steps
      BY <2>3 DEF Run, CompleteEnter, CompleteLook, At, Steps
    <3>3. QED
      BY <2>1, <3>1, <3>2, GoFields DEF RoleInv, Thread
  <2>4. CASE CompleteRemove(w) \/ CompleteNext(w)
    <3>1. Stop(w)
      BY <2>4 DEF CompleteRemove, CompleteNext
    <3>2. QED
      BY <2>1, <3>1, StopFields DEF RoleInv, Thread
  <2>5. QED
    BY <1>4, <2>2, <2>3, <2>4 DEF WorkerStep
<1>5. CASE UNCHANGED poolVars
  BY <1>5 DEF RoleInv, poolVars
<1>6. QED
  BY <1>1, <1>2, <1>3, <1>4, <1>5 DEF Next

LEMMA MonitorStep ==
  ASSUME TypeOK, RoleInv, MonitorInv, [Next]_poolVars
  PROVE  MonitorInv'
<1>1. ASSUME NEW s \in Submitter, NEW a \in Act, NEW t \in Task, Submit(s, a, t)
      PROVE  MonitorInv'
  BY <1>1 DEF MonitorInv, InMonitor, TypeOK, Submit, Thread
<1>2. ASSUME NEW p \in Thread, At(p, "enter") \/ At(p, "complete"),
             Enter(thread[p].act, p), Go(p, "test") \/ Go(p, "look")
      PROVE  MonitorInv'
  <2>1. thread[p].step # "idle" /\ "test" \in Steps /\ "look" \in Steps
    BY <1>2 DEF At, Steps
  <2>2. /\ \A q \in Thread : q # p => thread'[q] = thread[q]
        /\ thread'[p].act = thread[p].act
    BY <1>2, <2>1, GoFields
  <2>3. thread[p].act \in Act
    BY <2>1, BusyFields
  <2>4. /\ monitor'[thread[p].act] = p
        /\ \A a \in Act : a # thread[p].act => monitor'[a] = monitor[a]
        /\ monitor[thread[p].act] = NoThread
    BY <1>2, <2>3 DEF Enter, TypeOK
  <2>5. ASSUME NEW q \in Thread, q # p, InMonitor(q)
        PROVE  monitor'[thread[q].act] = q
    <3>1. monitor[thread[q].act] = q /\ thread[q].act \in Act
      BY <2>5, BusyFields DEF MonitorInv, InMonitor
    <3>2. QED
      BY <2>4, <3>1, ThreadAssumption DEF Thread
  <2>6. QED
    BY <2>2, <2>4, <2>5 DEF MonitorInv, InMonitor
<1>3. ASSUME NEW p \in Thread, InMonitor(p), UNCHANGED monitor,
             NEW st \in Steps, Go(p, st)
      PROVE  MonitorInv'
  BY <1>3, GoFields DEF MonitorInv, InMonitor
<1>4. ASSUME NEW p \in Thread, InMonitor(p), Leave(thread[p].act), Stop(p)
      PROVE  MonitorInv'
  <2>1. thread[p].act \in Act /\ monitor[thread[p].act] = p
    BY <1>4, BusyFields DEF MonitorInv, InMonitor
  <2>2. \A a \in Act : a # thread[p].act => monitor'[a] = monitor[a]
    BY <1>4, <2>1 DEF Leave, TypeOK
  <2>3. ASSUME NEW q \in Thread, q # p, InMonitor(q)
        PROVE  monitor'[thread[q].act] = q
    <3>1. monitor[thread[q].act] = q /\ thread[q].act \in Act
      BY <2>3, BusyFields DEF MonitorInv, InMonitor
    <3>2. QED
      BY <2>1, <2>2, <2>3, <3>1
  <2>4. QED
    BY <1>4, <2>3, StopFields DEF MonitorInv, InMonitor
<1>5. ASSUME NEW s \in Submitter, SubmitterStep(s)
      PROVE  MonitorInv'
  <2>1. s \in Thread
    BY DEF Thread
  <2>2. CASE SubmitEnter(s)
    BY <2>1, <2>2, <1>2 DEF SubmitEnter
  <2>3. CASE SubmitTest(s)
    <3>1. PICK st \in {"enqueue", "mark"} : Go(s, st)
      BY <2>3 DEF SubmitTest
    <3>2. QED
      BY <2>1, <2>3, <3>1, <1>3 DEF SubmitTest, At, InMonitor, Steps
  <2>4. CASE SubmitMark(s)
    BY <2>1, <2>4, <1>3 DEF SubmitMark, At, InMonitor, Steps
  <2>5. CASE SubmitExecute(s) \/ SubmitEnqueue(s)
    BY <2>1, <2>5, <1>4 DEF SubmitExecute, SubmitEnqueue, At, InMonitor
  <2>6. QED
    BY <1>5, <2>2, <2>3, <2>4, <2>5 DEF SubmitterStep
<1>6. ASSUME NEW s \in Submitter, Shutdown(s)
      PROVE  MonitorInv'
  BY <1>6 DEF MonitorInv, InMonitor, Shutdown
<1>7. ASSUME NEW w \in Worker, WorkerStep(w)
      PROVE  MonitorInv'
  <2>1. w \in Thread
    BY DEF Thread
  <2>2. CASE Take(w)
    BY <2>1, <2>2 DEF MonitorInv, InMonitor, TypeOK, Take
  <2>3. CASE Run(w)
    <3>1. thread[w].step # "idle" /\ "complete" \in Steps
      BY <2>3 DEF Run, At, Steps
    <3>2. QED
      BY <2>1, <2>3, <3>1, GoFields DEF MonitorInv, InMonitor, Run
  <2>4. CASE CompleteEnter(w)
    BY <2>1, <2>4, <1>2 DEF CompleteEnter
  <2>5. CASE CompleteLook(w)
    <3>1. PICK st \in {"remove", "next"} : Go(w, st)
      BY <2>5 DEF CompleteLook
    <3>2. QED
      BY <2>1, <2>5, <3>1, <1>3 DEF CompleteLook, At, InMonitor, Steps
  <2>6. CASE CompleteRemove(w) \/ CompleteNext(w)
    BY <2>1, <2>6, <1>4 DEF CompleteRemove, CompleteNext, At, InMonitor
  <2>7. QED
    BY <1>7, <2>2, <2>3, <2>4, <2>5, <2>6 DEF WorkerStep
<1>8. CASE UNCHANGED poolVars
  BY <1>8 DEF MonitorInv, InMonitor, poolVars
<1>9. QED
  BY <1>1, <1>5, <1>6, <1>7, <1>8 DEF Next

(***************************************************************************)
(* synchronized (act): one thread at a time is inside the monitor of an    *)
(* actor.                                                                  *)
(***************************************************************************)
LEMMA MutualExclusion ==
  ASSUME MonitorInv, NEW p \in Thread, NEW q \in Thread,
         InMonitor(p), InMonitor(q), thread[p].act = thread[q].act
  PROVE  p = q
BY DEF MonitorInv

\* what PlayingInv says of one thread
Sees(p) ==
  /\ At(p, "mark") => thread[p].act \notin playingNow
  /\ At(p, "enqueue") => thread[p].act \in playingNow
  /\ thread[p].step \in {"execute", "remove"} => acts[thread[p].act] = <<>>
  /\ At(p, "next") => acts[thread[p].act] # <<>>

\* the tasks and the mark of an actor are as they were
Untouched(a) == acts'[a] = acts[a] /\ (a \in playingNow' <=> a \in playingNow)

(***************************************************************************)
(* A thread that does not move sees what it saw, unless its own actor is   *)
(* touched; and it is touched only by the thread inside the monitor.       *)
(***************************************************************************)
LEMMA SeenByOthers ==
  ASSUME TypeOK, MonitorInv, PlayingInv,
         NEW p \in Thread, InMonitor(p), \A a \in Act : a # thread[p].act => Untouched(a),
         \A q \in Thread : q # p => thread'[q] = thread[q]
  PROVE  \A q \in Thread : q # p => Sees(q)'
<1> SUFFICES ASSUME NEW q \in Thread, q # p
             PROVE  Sees(q)'
  OBVIOUS
<1>1. CASE InMonitor(q)
  <2>1. thread[q].act \in Act /\ Untouched(thread[q].act)
    BY <1>1, MutualExclusion, BusyFields DEF InMonitor
  <2>2. QED
    BY <2>1 DEF PlayingInv, Sees, Untouched, At
<1>2. CASE ~InMonitor(q)
  BY <1>2 DEF Sees, At, InMonitor
<1>3. QED
  BY <1>1, <1>2

LEMMA PlayingStep ==
  ASSUME TypeOK, RoleInv, MonitorInv, PlayingInv, [Next]_poolVars
  PROVE  PlayingInv'
<1> USE DEF At
<1>1. ASSUME NEW p \in Thread, UNCHANGED <<acts, playingNow>>, Sees(p)',
             \A q \in Thread : q # p => thread'[q] = thread[q]
      PROVE  PlayingInv'
  BY <1>1 DEF PlayingInv, Sees
<1>2. ASSUME NEW p \in Thread, InMonitor(p), Sees(p)',
             \A a \in Act : a # thread[p].act => Untouched(a),
             acts'[thread[p].act] # <<>> => thread[p].act \in playingNow',
             \A q \in Thread : q # p => thread'[q] = thread[q]
      PROVE  PlayingInv'
  <2>1. \A q \in Thread : Sees(q)'
    BY <1>2, SeenByOthers
  <2>2. \A a \in Act : acts'[a] # <<>> => a \in playingNow'
    BY <1>2 DEF PlayingInv, Untouched
  <2>3. QED
    BY <2>1, <2>2 DEF PlayingInv, Sees
<1>3. ASSUME NEW s \in Submitter, NEW a \in Act, NEW t \in Task, Submit(s, a, t)
      PROVE  PlayingInv'
  BY <1>3, <1>1 DEF TypeOK, Submit, Thread, Sees
<1>4. ASSUME NEW s \in Submitter, SubmitterStep(s)
      PROVE  PlayingInv'
  <2>1. s \in Thread
    BY DEF Thread
  <2>2. CASE SubmitEnter(s)
    BY <2>1, <2>2, <1>1, GoFields DEF SubmitEnter, Sees, Steps
  <2>3. CASE SubmitTest(s)
    <3>1. Sees(s)'
      BY <2>1, <2>3, GoFields DEF SubmitTest, Sees, Steps
    <3>2. QED
      BY <2>1, <2>3, <3>1, <1>1, GoFields DEF SubmitTest, Steps
  <2>4. CASE SubmitMark(s)
    <3>1. thread[s].act \in Act /\ acts[thread[s].act] = <<>>
      BY <2>1, <2>4, BusyFields DEF SubmitMark, PlayingInv
    <3>2. Sees(s)'
      BY <2>1, <2>4, <3>1, GoFields DEF SubmitMark, Sees, Steps
    <3>3. \A a \in Act : a # thread[s].act => Untouched(a)
      BY <2>4 DEF SubmitMark, Untouched
    <3>4. InMonitor(s)
      BY <2>4 DEF SubmitMark, InMonitor
    <3>5. QED
      BY <2>1, <2>4, <3>1, <3>2, <3>3, <3>4, <1>2, GoFields DEF SubmitMark, Steps
  <2>5. CASE SubmitExecute(s)
    BY <2>1, <2>5, <1>1, StopFields DEF SubmitExecute, Sees
  <2>6. CASE SubmitEnqueue(s)
    <3>1. thread[s].act \in Act /\ thread[s].act \in playingNow
      BY <2>1, <2>6, BusyFields DEF SubmitEnqueue, PlayingInv
    <3>2. \A a \in Act : a # thread[s].act => Untouched(a)
      BY <2>6, <3>1 DEF SubmitEnqueue, Untouched, TypeOK
    <3>3. InMonitor(s)
      BY <2>6 DEF SubmitEnqueue, InMonitor
    <3>4. Sees(s)'
      BY <2>1, <2>6, StopFields DEF SubmitEnqueue, Sees
    <3>5. QED
      BY <2>1, <2>6, <3>1, <3>2, <3>3, <3>4, <1>2, StopFields DEF SubmitEnqueue
  <2>7. QED
    BY <1>4, <2>2, <2>3, <2>4, <2>5, <2>6 DEF SubmitterStep
<1>5. ASSUME NEW s \in Submitter, Shutdown(s)
      PROVE  PlayingInv'
  BY <1>5 DEF PlayingInv, Shutdown
<1>6. ASSUME NEW w \in Worker, WorkerStep(w)
      PROVE  PlayingInv'
  <2>1. w \in Thread
    BY DEF Thread
  <2>2. CASE Take(w)
    BY <2>1, <2>2, <1>1 DEF TypeOK, Take, Sees
  <2>3. CASE Run(w)
    BY <2>1, <2>3, <1>1, GoFields DEF Run, Sees, Steps
  <2>4. CASE CompleteEnter(w)
    BY <2>1, <2>4, <1>1, GoFields DEF CompleteEnter, Sees, Steps
  <2>5. CASE CompleteLook(w)
    <3>1. Sees(w)'
      BY <2>1, <2>5, GoFields DEF CompleteLook, Sees, Steps
    <3>2. QED
      BY <2>1, <2>5, <3>1, <1>1, GoFields DEF CompleteLook, Steps
  <2>6. CASE CompleteRemove(w)
    <3>1. thread[w].act \in Act /\ acts[thread[w].act] = <<>>
      BY <2>1, <2>6, BusyFields DEF CompleteRemove, PlayingInv
    <3>2. \A a \in Act : a # thread[w].act => Untouched(a)
      BY <2>6 DEF CompleteRemove, Untouched
    <3>3. InMonitor(w)
      BY <2>6 DEF CompleteRemove, InMonitor
    <3>4. Sees(w)'
      BY <2>1, <2>6, StopFields DEF CompleteRemove, Sees
    <3>5. QED
      BY <2>1, <2>6, <3>1, <3>2, <3>3, <3>4, <1>2, StopFields DEF CompleteRemove
  <2>7. CASE CompleteNext(w)
    <3>1. thread[w].act \in Act /\ thread[w].act \in playingNow
      BY <2>1, <2>7, BusyFields DEF CompleteNext, PlayingInv
    <3>2. \A a \in Act : a # thread[w].act => Untouched(a)
      BY <2>7, <3>1 DEF CompleteNext, Untouched, TypeOK
    <3>3. InMonitor(w)
      BY <2>7 DEF CompleteNext, InMonitor
    <3>4. Sees(w)'
      BY <2>1, <2>7, StopFields DEF CompleteNext, Sees
    <3>5. QED
      BY <2>1, <2>7, <3>1, <3>2, <3>3, <3>4, <1>2, StopFields DEF CompleteNext
  <2>8. QED
    BY <1>6, <2>2, <2>3, <2>4, <2>5, <2>6, <2>7 DEF WorkerStep
<1>7. CASE UNCHANGED poolVars
  BY <1>7 DEF PlayingInv, poolVars
<1>8. QED
  BY <1>3, <1>4, <1>5, <1>6, <1>7 DEF Next

-----------------------------------------------------------------------------
(* Tokens *)

(***************************************************************************)
(* A step that moves no token keeps them all.                              *)
(***************************************************************************)
LEMMA TokensKept ==
  ASSUME TokenInv, UNCHANGED <<ready, playingNow, open>>,
         \A p \in Thread, a \in Act : Holds(p, a)' <=> Holds(p, a)
  PROVE  TokenInv'
BY DEF TokenInv, Token

(***************************************************************************)
(* The thread that holds an actor hands its token to the executor, which   *)
(* drops it when it is shut down.                                          *)
(***************************************************************************)
LEMMA TokenHandedOver ==
  ASSUME TypeOK, TokenInv, ClosedInv, UNCHANGED <<playingNow, open>>,
         NEW p \in Thread, NEW a \in Act, Holds(p, a), Stop(p),
         NEW job \in Job, job.act = a, Execute(job)
  PROVE  TokenInv'
<1>1. ready \in Seq(Job) /\ ready' \in Seq(Job)
  BY ExecuteFields DEF TypeOK
<1>2. DOMAIN ready = 1 .. Len(ready) /\ DOMAIN ready' = 1 .. Len(ready')
  BY <1>1, LenProperties
<1>3. /\ \A b \in Act : ~Holds(p, b)'
      /\ \A q \in Thread, b \in Act : q # p => (Holds(q, b)' <=> Holds(q, b))
  BY StopFields DEF Holds
<1>4. \A b \in Act : b # a => ~Holds(p, b)
  BY DEF Holds
<1>5. CASE open
  <2>1. /\ Len(ready') = Len(ready) + 1 /\ ready'[Len(ready')] = job
        /\ \A i \in DOMAIN ready : ready'[i] = ready[i]
        /\ Len(ready) \in Nat
    <3>1. ready' = Append(ready, job)
      BY <1>5 DEF Execute
    <3>2. QED
      BY <1>1, <1>2, <3>1, LenProperties, AppendProperties
  <2>2. DOMAIN ready' = DOMAIN ready \cup {Len(ready')}
    BY <1>2, <2>1
  <2>3. ASSUME NEW b \in Act, b # a
        PROVE  \A i \in DOMAIN ready' : ready'[i].act = b => i \in DOMAIN ready /\ ready[i].act = b
    BY <2>1, <2>2, <2>3
  <2>4. \A i \in DOMAIN ready : ready[i].act # a
    BY DEF TokenInv, Token
  <2>5. \A i \in DOMAIN ready' : ready'[i].act = a => i = Len(ready')
    BY <2>1, <2>2, <2>4
  <2>6. a \in playingNow
    BY DEF TokenInv, Token
  <2>7. ASSUME NEW b \in Act, b # a
        PROVE  Token(b)'
    <3>1. \A q \in Thread : Holds(q, b)' <=> Holds(q, b)
      BY <1>3, <1>4, <2>7
    <3>2. \A i \in DOMAIN ready : i \in DOMAIN ready' /\ ready'[i] = ready[i]
      BY <2>1, <2>2
    <3>3. QED
      BY <2>3, <2>7, <3>1, <3>2 DEF TokenInv, Token
  <2>8. Token(a)'
    <3>1. \A q \in Thread : ~Holds(q, a)'
      BY <1>3 DEF TokenInv, Token
    <3>2. QED
      BY <2>1, <2>2, <2>5, <2>6, <3>1 DEF Token
  <2>9. QED
    BY <2>7, <2>8 DEF TokenInv
<1>6. CASE ~open
  <2>1. ready = <<>> /\ ready' = ready
    BY <1>6 DEF ClosedInv, Execute
  <2>2. QED
    <3>1. \A i \in DOMAIN ready : FALSE
      BY <2>1
    <3>2. \A b \in Act : b \notin playingNow => \A q \in Thread : ~Holds(q, b)'
      BY <1>3 DEF TokenInv, Token
    <3>3. \A b \in Act : \A q, r \in Thread : Holds(q, b)' /\ Holds(r, b)' => q = r
      BY <1>3 DEF TokenInv, Token
    <3>4. QED
      BY <1>6, <2>1, <3>1, <3>2, <3>3 DEF TokenInv, Token
<1>7. QED
  BY <1>5, <1>6

LEMMA TokenStep ==
  ASSUME TypeOK, RoleInv, MonitorInv, PlayingInv, TokenInv, ClosedInv, [Next]_poolVars
  PROVE  TokenInv'
<1> USE DEF At
<1>1. ASSUME NEW s \in Submitter, NEW a \in Act, NEW t \in Task, Submit(s, a, t)
      PROVE  TokenInv'
  BY <1>1, TokensKept DEF TypeOK, Submit, Thread, Holds, Idle
<1>2. ASSUME NEW s \in Submitter, SubmitterStep(s)
      PROVE  TokenInv'
  <2>1. s \in Thread
    BY DEF Thread
  <2>2. CASE SubmitEnter(s)
    BY <2>1, <2>2, GoFields, TokensKept DEF SubmitEnter, Holds, Steps
  <2>3. CASE SubmitTest(s)
    BY <2>1, <2>3, GoFields, TokensKept DEF SubmitTest, Holds, Steps
  <2>4. CASE SubmitMark(s)
    <3>1. PICK a \in Act : a = thread[s].act /\ a \notin playingNow
      BY <2>1, <2>4, BusyFields DEF SubmitMark, PlayingInv
    <3>2. /\ playingNow' = playingNow \cup {a}
          /\ UNCHANGED <<ready, open>>
          /\ Holds(s, a)'
          /\ \A b \in Act : b # a => ~Holds(s, b)'
          /\ \A b \in Act : ~Holds(s, b)
          /\ \A q \in Thread, b \in Act : q # s => (Holds(q, b)' <=> Holds(q, b))
      BY <2>1, <2>4, <3>1, GoFields DEF SubmitMark, Holds, Steps
    <3>3. /\ \A q \in Thread : ~Holds(q, a)
          /\ \A i \in DOMAIN ready : ready[i].act # a
      BY <3>1 DEF TokenInv, Token
    <3>4. Token(a)'
      BY <2>1, <3>2, <3>3 DEF Token
    <3>5. ASSUME NEW b \in Act, b # a
          PROVE  Token(b)'
      <4>1. \A q \in Thread : Holds(q, b)' <=> Holds(q, b)
        BY <3>2, <3>5
      <4>2. QED
        BY <3>2, <3>5, <4>1 DEF TokenInv, Token
    <3>6. QED
      BY <3>4, <3>5 DEF TokenInv
  <2>5. CASE SubmitExecute(s)
    BY <2>1, <2>5, BusyFields, TokenHandedOver DEF SubmitExecute, Holds, JobOf, Job
  <2>6. CASE SubmitEnqueue(s)
    BY <2>1, <2>6, StopFields, TokensKept DEF SubmitEnqueue, Holds
  <2>7. QED
    BY <1>2, <2>2, <2>3, <2>4, <2>5, <2>6 DEF SubmitterStep
<1>3. ASSUME NEW s \in Submitter, Shutdown(s)
      PROVE  TokenInv'
  BY <1>3 DEF TokenInv, Token, Shutdown, Holds
<1>4. ASSUME NEW w \in Worker, WorkerStep(w)
      PROVE  TokenInv'
  <2>1. w \in Thread
    BY DEF Thread
  <2>2. CASE Take(w)
    <3>1. PICK a \in Act :
          /\ a = Head(ready).act
          /\ Len(ready) \in Nat \ {0} /\ DOMAIN ready = 1 .. Len(ready)
          /\ a = ready[1].act
          /\ DOMAIN ready' = 1 .. Len(ready) - 1
          /\ \A i \in DOMAIN ready' : ready'[i] = ready[i + 1]
      <4>1. ready \in Seq(Job) /\ ready # <<>> /\ ready' = Tail(ready)
        BY <2>2 DEF Take, TypeOK
      <4>2. /\ Len(ready) \in Nat \ {0} /\ DOMAIN ready = 1 .. Len(ready)
            /\ Head(ready) = ready[1] /\ Head(ready) \in Job
        BY <4>1, HeadTailProperties, LenProperties, EmptySeq
      <4>3. /\ Len(ready') = Len(ready) - 1 /\ DOMAIN ready' = 1 .. Len(ready')
            /\ \A i \in 1 .. Len(ready') : ready'[i] = ready[i + 1]
        BY <4>1, HeadTailProperties, LenProperties
      <4>4. QED
        BY <4>2, <4>3 DEF Job
    <3>2. /\ UNCHANGED <<playingNow, open>>
          /\ Holds(w, a)'
          /\ \A b \in Act : b # a => ~Holds(w, b)'
          /\ \A b \in Act : ~Holds(w, b)
          /\ \A q \in Thread, b \in Act : q # w => (Holds(q, b)' <=> Holds(q, b))
      <4>1. /\ thread'[w].step = "run" /\ thread'[w].act = a
            /\ \A q \in Thread : q # w => thread'[q] = thread[q]
            /\ thread[w].step = "idle"
        BY <2>1, <2>2, <3>1 DEF Take, TypeOK, Idle
      <4>2. QED
        BY <2>1, <2>2, <4>1 DEF Take, Holds
    <3>3. \A i \in DOMAIN ready' : i + 1 \in DOMAIN ready /\ i + 1 # 1
      BY <3>1
    <3>4. \A i \in DOMAIN ready : i = 1 \/ (i - 1 \in DOMAIN ready' /\ ready'[i - 1] = ready[i])
      BY <3>1
    <3>5. 1 \in DOMAIN ready
      BY <3>1
    <3>6. /\ \A q \in Thread : ~Holds(q, a)
          /\ a \in playingNow
          /\ \A i \in DOMAIN ready' : ready'[i].act # a
      BY <3>1, <3>3, <3>5 DEF TokenInv, Token
    <3>7. /\ \A q, r \in Thread : Holds(q, a)' /\ Holds(r, a)' => q = r
          /\ \E q \in Thread : Holds(q, a)'
      BY <2>1, <3>2, <3>6
    <3>8. ASSUME NEW b \in Act, b # a
          PROVE  Token(b)'
      <4>1. \A q \in Thread : Holds(q, b)' <=> Holds(q, b)
        BY <3>2, <3>8
      <4>2. \A i, j \in DOMAIN ready' : ready'[i].act = b /\ ready'[j].act = b => i = j
        <5>1. \A i, j \in DOMAIN ready' : i + 1 = j + 1 => i = j
          BY <3>1
        <5>2. QED
          BY <3>1, <3>3, <5>1 DEF TokenInv, Token
      <4>3. (\E i \in DOMAIN ready : ready[i].act = b) => \E i \in DOMAIN ready' : ready'[i].act = b
        BY <3>1, <3>4, <3>8
      <4>4. (\E i \in DOMAIN ready' : ready'[i].act = b) => \E i \in DOMAIN ready : ready[i].act = b
        BY <3>1, <3>3
      <4>5. QED
        BY <3>2, <4>1, <4>2, <4>3, <4>4 DEF TokenInv, Token
    <3>9. Token(a)'
      BY <3>2, <3>6, <3>7 DEF Token
    <3>10. QED
      BY <3>8, <3>9 DEF TokenInv
  <2>3. CASE Run(w)
    BY <2>1, <2>3, GoFields, TokensKept DEF Run, Holds, Steps
  <2>4. CASE CompleteEnter(w)
    BY <2>1, <2>4, GoFields, TokensKept DEF CompleteEnter, Holds, Steps
  <2>5. CASE CompleteLook(w)
    BY <2>1, <2>5, GoFields, TokensKept DEF CompleteLook, Holds, Steps
  <2>6. CASE CompleteRemove(w)
    <3>1. PICK a \in Act :
            a = thread[w].act /\ Holds(w, a) /\ \A b \in Act : b # a => ~Holds(w, b)
      BY <2>1, <2>6, BusyFields DEF CompleteRemove, Holds
    <3>2. /\ playingNow' = playingNow \ {a}
          /\ UNCHANGED <<ready, open>>
          /\ \A b \in Act : ~Holds(w, b)'
          /\ \A q \in Thread, b \in Act : q # w => (Holds(q, b)' <=> Holds(q, b))
      BY <2>1, <2>6, <3>1, StopFields DEF CompleteRemove, Holds
    <3>3. /\ \A q \in Thread : ~Holds(q, a)'
          /\ \A i \in DOMAIN ready : ready[i].act # a
      BY <2>1, <3>1, <3>2 DEF TokenInv, Token
    <3>4. Token(a)'
      BY <3>2, <3>3 DEF Token
    <3>5. ASSUME NEW b \in Act, b # a
          PROVE  Token(b)'
      <4>1. \A q \in Thread : Holds(q, b)' <=> Holds(q, b)
        BY <3>1, <3>2, <3>5
      <4>2. QED
        BY <3>2, <3>5, <4>1 DEF TokenInv, Token
    <3>6. QED
      BY <3>4, <3>5 DEF TokenInv
  <2>7. CASE CompleteNext(w)
    <3>1. thread[w].act \in Act /\ Holds(w, thread[w].act) /\ acts[thread[w].act] # <<>>
      BY <2>1, <2>7, BusyFields DEF CompleteNext, Holds, PlayingInv
    <3>2. [act |-> thread[w].act, task |-> Head(acts[thread[w].act])] \in Job
      BY <3>1, HeadTailProperties DEF TypeOK, Job
    <3>3. QED
      BY <2>1, <2>7, <3>1, <3>2, TokenHandedOver DEF CompleteNext
  <2>8. QED
    BY <1>4, <2>2, <2>3, <2>4, <2>5, <2>6, <2>7 DEF WorkerStep
<1>5. CASE UNCHANGED poolVars
  BY <1>5 DEF TokenInv, Token, Holds, poolVars
<1>6. QED
  BY <1>1, <1>2, <1>3, <1>4, <1>5 DEF Next

LEMMA ClosedStep ==
  ASSUME TypeOK, ClosedInv, [Next]_poolVars
  PROVE  ClosedInv'
<1>1. ASSUME NEW s \in Submitter, NEW a \in Act, NEW t \in Task, Submit(s, a, t)
      PROVE  ClosedInv'
  BY <1>1 DEF ClosedInv, Submit
<1>2. ASSUME NEW s \in Submitter, SubmitterStep(s)
      PROVE  ClosedInv'
  BY <1>2 DEF ClosedInv, SubmitterStep, SubmitEnter, SubmitTest, SubmitMark, SubmitExecute,
              SubmitEnqueue, Execute
<1>3. ASSUME NEW s \in Submitter, Shutdown(s)
      PROVE  ClosedInv'
  BY <1>3 DEF ClosedInv, Shutdown
<1>4. ASSUME NEW w \in Worker, WorkerStep(w)
      PROVE  ClosedInv'
  BY <1>4 DEF ClosedInv, WorkerStep, Take, Run, CompleteEnter, CompleteLook, CompleteRemove,
              CompleteNext, Execute
<1>5. CASE UNCHANGED poolVars
  BY <1>5 DEF ClosedInv, poolVars
<1>6. QED
  BY <1>1, <1>2, <1>3, <1>4, <1>5 DEF Next

-----------------------------------------------------------------------------
(* Tasks *)

(***************************************************************************)
(* A queue after an addition at its end and after a removal at its head.   *)
(***************************************************************************)
LEMMA AppendIndexes ==
  ASSUME NEW S, NEW s \in Seq(S), NEW e \in S
  PROVE  \E n : /\ n \notin DOMAIN s /\ DOMAIN Append(s, e) = DOMAIN s \cup {n}
                /\ Append(s, e)[n] = e
                /\ \A i \in DOMAIN s : Append(s, e)[i] = s[i]
<1>1. Len(s) \in Nat /\ DOMAIN s = 1 .. Len(s)
  BY LenProperties
<1>2. DOMAIN Append(s, e) = 1 .. Len(s) + 1
  BY AppendProperties, LenProperties
<1>3. QED
  BY <1>1, <1>2, AppendProperties, Len(s) + 1 \notin DOMAIN s

LEMMA JobAppended ==
  ASSUME TypeOK, open, NEW job \in Job, Execute(job)
  PROVE  \E n : /\ n \notin DOMAIN ready /\ DOMAIN ready' = DOMAIN ready \cup {n}
                /\ ready'[n] = job
                /\ \A i \in DOMAIN ready : ready'[i] = ready[i]
<1>1. ready' = Append(ready, job) /\ ready \in Seq(Job)
  BY DEF TypeOK, Execute
<1>2. QED
  BY <1>1, AppendIndexes

LEMMA TailIndexes ==
  ASSUME NEW S, NEW s \in Seq(S), s # <<>>
  PROVE  /\ 1 \in DOMAIN s /\ Head(s) = s[1]
         /\ \A i \in DOMAIN Tail(s) : i + 1 \in DOMAIN s /\ i + 1 # 1 /\ Tail(s)[i] = s[i + 1]
         /\ \A i, j \in DOMAIN Tail(s) : i + 1 = j + 1 => i = j
<1>1. Len(s) \in Nat \ {0} /\ DOMAIN s = 1 .. Len(s)
  BY LenProperties, EmptySeq
<1>2. /\ DOMAIN Tail(s) = 1 .. Len(s) - 1
      /\ \A i \in 1 .. Len(s) - 1 : Tail(s)[i] = s[i + 1]
  BY <1>1, HeadTailProperties, LenProperties
<1>3. QED
  BY <1>1, <1>2

(***************************************************************************)
(* A step that hands no task over keeps them apart.                        *)
(***************************************************************************)
LEMMA TasksKept ==
  ASSUME TaskInv, UNCHANGED <<acts, submitted>>, ready' = ready \/ ready' = <<>>,
         \A p \in Thread : Carries(p)' => Carries(p) /\ thread'[p].task = thread[p].task
  PROVE  TaskInv'
<1>1. CASE ready' = ready
  BY <1>1 DEF TaskInv, HeldSubmitted, HeldOnce
<1>2. CASE ready' = <<>>
  <2>1. \A i \in DOMAIN ready' : FALSE
    BY <1>2
  <2>2. QED
    BY <2>1 DEF TaskInv, HeldSubmitted, HeldOnce
<1>3. QED
  BY <1>1, <1>2

(***************************************************************************)
(* A task that leaves its thread for the end of the executor's queue ...   *)
(***************************************************************************)
LEMMA TaskExecuted ==
  ASSUME TypeOK, TaskInv, UNCHANGED <<acts, submitted>>,
         NEW p \in Thread, Carries(p), Stop(p), Execute(JobOf(p))
  PROVE  TaskInv'
<1>1. /\ \A q \in Thread : q # p => (Carries(q)' <=> Carries(q)) /\ thread'[q] = thread[q]
      /\ ~Carries(p)'
  BY StopFields DEF Carries
<1>2. JobOf(p) \in Job /\ JobOf(p).task = thread[p].task
  BY BusyFields DEF Carries, JobOf
<1>3. CASE open
  <2>1. PICK n : /\ n \notin DOMAIN ready /\ DOMAIN ready' = DOMAIN ready \cup {n}
                 /\ ready'[n] = JobOf(p)
                 /\ \A i \in DOMAIN ready : ready'[i] = ready[i]
    BY <1>2, <1>3, JobAppended
  <2>2. HeldSubmitted'
    BY <1>1, <1>2, <2>1 DEF TaskInv, HeldSubmitted
  <2>3. HeldOnce'
    BY <1>1, <1>2, <2>1 DEF TaskInv, HeldOnce
  <2>4. QED
    BY <2>2, <2>3 DEF TaskInv
<1>4. CASE ~open
  BY <1>1, <1>4, TasksKept DEF Execute
<1>5. QED
  BY <1>3, <1>4

(***************************************************************************)
(* ... or for the end of the queue of its actor.                           *)
(***************************************************************************)
LEMMA TaskEnqueued ==
  ASSUME TypeOK, TaskInv, UNCHANGED <<ready, submitted>>,
         NEW p \in Thread, Carries(p), Stop(p),
         acts' = [acts EXCEPT ![thread[p].act] = Append(@, thread[p].task)]
  PROVE  TaskInv'
<1>1. /\ \A q \in Thread : q # p => (Carries(q)' <=> Carries(q)) /\ thread'[q] = thread[q]
      /\ ~Carries(p)'
  BY StopFields DEF Carries
<1>2. PICK a \in Act, t \in Task : a = thread[p].act /\ t = thread[p].task
  BY BusyFields DEF Carries
<1>3. /\ acts'[a] = Append(acts[a], t) /\ acts[a] \in Seq(Task)
      /\ \A b \in Act : b # a => acts'[b] = acts[b]
  BY <1>2 DEF TypeOK
<1>4. PICK n : /\ n \notin DOMAIN acts[a] /\ DOMAIN acts'[a] = DOMAIN acts[a] \cup {n}
               /\ acts'[a][n] = t
               /\ \A i \in DOMAIN acts[a] : acts'[a][i] = acts[a][i]
  BY <1>3, AppendIndexes
<1>5. HeldSubmitted'
  BY <1>1, <1>2, <1>3, <1>4 DEF TaskInv, HeldSubmitted
<1>6. ASSUME NEW b \in Act, NEW i \in DOMAIN acts'[b]
      PROVE  \/ b = a /\ i = n /\ acts'[b][i] = t
             \/ ~(b = a /\ i = n) /\ i \in DOMAIN acts[b] /\ acts'[b][i] = acts[b][i]
  BY <1>3, <1>4, <1>6
<1>7. \A b \in Act : \A i \in DOMAIN acts[b] : acts[b][i] # t
  BY <1>2 DEF TaskInv, HeldOnce
<1>8. \A b, c \in Act : \A i \in DOMAIN acts'[b], j \in DOMAIN acts'[c] :
        acts'[b][i] = acts'[c][j] => b = c /\ i = j
  BY <1>6, <1>7 DEF TaskInv, HeldOnce
<1>9. HeldOnce'
  BY <1>1, <1>2, <1>6, <1>8 DEF TaskInv, HeldOnce
<1>10. QED
  BY <1>5, <1>9 DEF TaskInv

(***************************************************************************)
(* A task taken from the head of the executor's queue by a thread ...      *)
(***************************************************************************)
LEMMA TaskTaken ==
  ASSUME TypeOK, TaskInv, NEW w \in Worker, Take(w)
  PROVE  TaskInv'
<1>1. w \in Thread
  BY DEF Thread
<1>2. /\ \A q \in Thread : q # w => (Carries(q)' <=> Carries(q)) /\ thread'[q] = thread[q]
      /\ thread'[w].task = Head(ready).task
  BY <1>1 DEF Take, TypeOK, Carries
<1>3. ready \in Seq(Job) /\ ready # <<>> /\ ready' = Tail(ready)
  BY DEF Take, TypeOK
<1>4. /\ 1 \in DOMAIN ready /\ Head(ready) = ready[1]
      /\ \A i \in DOMAIN ready' : i + 1 \in DOMAIN ready /\ i + 1 # 1 /\ ready'[i] = ready[i + 1]
      /\ \A i, j \in DOMAIN ready' : i + 1 = j + 1 => i = j
  BY <1>3, TailIndexes
<1>5. HeldSubmitted'
  BY <1>1, <1>2, <1>4 DEF TaskInv, HeldSubmitted, Take
<1>6. HeldOnce'
  BY <1>1, <1>2, <1>4 DEF TaskInv, HeldOnce, Take
<1>7. QED
  BY <1>5, <1>6 DEF TaskInv

(***************************************************************************)
(* ... and one that complete moves from the queue of its actor to that of  *)
(* the executor.                                                           *)
(***************************************************************************)
LEMMA TaskMoved ==
  ASSUME TypeOK, PlayingInv, TaskInv, NEW w \in Worker, CompleteNext(w)
  PROVE  TaskInv'
<1>1. w \in Thread
  BY DEF Thread
<1>2. \A q \in Thread : Carries(q)' => Carries(q) /\ thread'[q] = thread[q]
  BY <1>1, StopFields DEF CompleteNext, Carries
<1>3. PICK a \in Act : a = thread[w].act /\ acts[a] # <<>>
  BY <1>1, BusyFields DEF CompleteNext, PlayingInv, At
<1>4. /\ acts'[a] = Tail(acts[a]) /\ acts[a] \in Seq(Task)
      /\ \A b \in Act : b # a => acts'[b] = acts[b]
      /\ UNCHANGED submitted
  BY <1>3 DEF CompleteNext, TypeOK
<1>5. /\ 1 \in DOMAIN acts[a] /\ Head(acts[a]) = acts[a][1]
      /\ \A i \in DOMAIN acts'[a] :
           i + 1 \in DOMAIN acts[a] /\ i + 1 # 1 /\ acts'[a][i] = acts[a][i + 1]
      /\ \A i, j \in DOMAIN acts'[a] : i + 1 = j + 1 => i = j
  BY <1>3, <1>4, TailIndexes
<1>6. PICK job \in Job : job = [act |-> a, task |-> acts[a][1]]
  <2>1. acts[a][1] \in Task
    BY <1>3, <1>4, <1>5, HeadTailProperties
  <2>2. QED
    BY <2>1 DEF Job
<1>7. Execute(job)
  BY <1>3, <1>5, <1>6 DEF CompleteNext
<1>8. ASSUME NEW b \in Act, NEW i \in DOMAIN acts'[b], NEW c \in Act, NEW j \in DOMAIN acts'[c],
             acts'[b][i] = acts'[c][j]
      PROVE  b = c /\ i = j
  <2> DEFINE before(d, k) == IF d = a THEN k + 1 ELSE k
  <2>1. \A d, e \in Act : \A k \in DOMAIN acts[d], m \in DOMAIN acts[e] :
          acts[d][k] = acts[e][m] => d = e /\ k = m
    BY DEF TaskInv, HeldOnce
  <2>2. \A d \in Act : \A k \in DOMAIN acts'[d] :
          before(d, k) \in DOMAIN acts[d] /\ acts'[d][k] = acts[d][before(d, k)]
    BY <1>4, <1>5
  <2>3. b = c /\ before(b, i) = before(c, j)
    <3> HIDE DEF before
    <3>1. QED
      BY <1>8, <2>1, <2>2
  <2>4. QED
    BY <1>5, <1>8, <2>3
<1>9. ASSUME NEW b \in Act, NEW i \in DOMAIN acts'[b]
      PROVE  \E j \in DOMAIN acts[b] : acts'[b][i] = acts[b][j] /\ ~(b = a /\ j = 1)
  <2>1. CASE b = a
    BY <1>5, <1>9, <2>1
  <2>2. CASE b # a
    BY <1>4, <1>9, <2>2
  <2>3. QED
    BY <2>1, <2>2
<1>10. \A b \in Act : \A i \in DOMAIN acts'[b] : acts'[b][i] # acts[a][1]
  BY <1>5, <1>9 DEF TaskInv, HeldOnce
<1>11. CASE open
  <2>1. PICK n : /\ n \notin DOMAIN ready /\ DOMAIN ready' = DOMAIN ready \cup {n}
                 /\ ready'[n] = job
                 /\ \A i \in DOMAIN ready : ready'[i] = ready[i]
    BY <1>6, <1>7, <1>11, JobAppended
  <2>2. HeldSubmitted'
    BY <1>2, <1>4, <1>5, <1>6, <1>9, <2>1 DEF TaskInv, HeldSubmitted
  <2>3. HeldOnce'
    BY <1>2, <1>5, <1>6, <1>8, <1>9, <1>10, <2>1 DEF TaskInv, HeldOnce
  <2>4. QED
    BY <2>2, <2>3 DEF TaskInv
<1>12. CASE ~open
  <2>1. ready' = ready
    BY <1>7, <1>12 DEF Execute
  <2>2. HeldSubmitted'
    BY <1>2, <1>4, <1>9, <2>1 DEF TaskInv, HeldSubmitted
  <2>3. HeldOnce'
    BY <1>2, <1>8, <1>9, <2>1 DEF TaskInv, HeldOnce
  <2>4. QED
    BY <2>2, <2>3 DEF TaskInv
<1>13. QED
  BY <1>11, <1>12

LEMMA TaskStep ==
  ASSUME TypeOK, PlayingInv, TaskInv, [Next]_poolVars
  PROVE  TaskInv'
<1> USE DEF At
<1>1. ASSUME NEW s \in Submitter, NEW a \in Act, NEW t \in Task, Submit(s, a, t)
      PROVE  TaskInv'
  <2>1. /\ s \in Thread
        /\ thread'[s].task = t /\ thread'[s].step = "enter"
        /\ \A q \in Thread : q # s => thread'[q] = thread[q]
        /\ t \notin submitted /\ submitted' = submitted \cup {t}
        /\ UNCHANGED <<acts, ready>>
    BY <1>1 DEF Submit, TypeOK, Thread
  <2>2. Carries(s)' /\ \A q \in Thread : q # s => (Carries(q)' <=> Carries(q))
    BY <2>1 DEF Carries
  <2>3. HeldSubmitted'
    BY <2>1, <2>2 DEF TaskInv, HeldSubmitted
  <2>4. HeldOnce'
    <3>1. \A p, q \in Thread :
            Carries(p)' /\ Carries(q)' /\ thread'[p].task = thread'[q].task => p = q
      BY <2>1, <2>2 DEF TaskInv, HeldSubmitted, HeldOnce
    <3>2. /\ \A p \in Thread, i \in DOMAIN ready : Carries(p)' => thread'[p].task # ready[i].task
          /\ \A p \in Thread, b \in Act :
               Carries(p)' => \A i \in DOMAIN acts[b] : acts[b][i] # thread'[p].task
      BY <2>1, <2>2 DEF TaskInv, HeldSubmitted, HeldOnce
    <3>3. QED
      BY <2>1, <3>1, <3>2 DEF TaskInv, HeldOnce
  <2>5. QED
    BY <2>3, <2>4 DEF TaskInv
<1>2. ASSUME NEW s \in Submitter, SubmitterStep(s)
      PROVE  TaskInv'
  <2>1. s \in Thread
    BY DEF Thread
  <2>2. CASE SubmitEnter(s)
    BY <2>1, <2>2, GoFields, TasksKept DEF SubmitEnter, Carries, Steps
  <2>3. CASE SubmitTest(s)
    BY <2>1, <2>3, GoFields, TasksKept DEF SubmitTest, Carries, Steps
  <2>4. CASE SubmitMark(s)
    BY <2>1, <2>4, GoFields, TasksKept DEF SubmitMark, Carries, Steps
  <2>5. CASE SubmitExecute(s)
    BY <2>1, <2>5, TaskExecuted DEF SubmitExecute, Carries
  <2>6. CASE SubmitEnqueue(s)
    BY <2>1, <2>6, TaskEnqueued DEF SubmitEnqueue, Carries
  <2>7. QED
    BY <1>2, <2>2, <2>3, <2>4, <2>5, <2>6 DEF SubmitterStep
<1>3. ASSUME NEW s \in Submitter, Shutdown(s)
      PROVE  TaskInv'
  BY <1>3, TasksKept DEF Shutdown, Carries
<1>4. ASSUME NEW w \in Worker, WorkerStep(w)
      PROVE  TaskInv'
  <2>1. w \in Thread
    BY DEF Thread
  <2>2. CASE Take(w)
    BY <2>2, TaskTaken
  <2>3. CASE Run(w)
    <3>1. /\ ~Carries(w)'
          /\ \A q \in Thread : q # w => (Carries(q)' <=> Carries(q)) /\ thread'[q] = thread[q]
          /\ Carries(w)
          /\ submitted' = submitted \ {thread[w].task} /\ UNCHANGED <<acts, ready>>
      BY <2>1, <2>3, GoFields DEF Run, Carries, Steps
    <3>2. HeldOnce'
      BY <3>1 DEF TaskInv, HeldOnce
    <3>3. \A q \in Thread : Carries(q)' => thread'[q].task \in submitted'
      BY <2>1, <3>1 DEF TaskInv, HeldSubmitted, HeldOnce
    <3>4. \A i \in DOMAIN ready' : ready'[i].task \in submitted'
      BY <2>1, <3>1 DEF TaskInv, HeldSubmitted, HeldOnce
    <3>5. \A a \in Act : \A i \in DOMAIN acts'[a] : acts'[a][i] \in submitted'
      BY <2>1, <3>1 DEF TaskInv, HeldSubmitted, HeldOnce
    <3>6. QED
      BY <3>2, <3>3, <3>4, <3>5 DEF TaskInv, HeldSubmitted
  <2>4. CASE CompleteEnter(w)
    BY <2>1, <2>4, GoFields, TasksKept DEF CompleteEnter, Carries, Steps
  <2>5. CASE CompleteLook(w)
    BY <2>1, <2>5, GoFields, TasksKept DEF CompleteLook, Carries, Steps
  <2>6. CASE CompleteRemove(w)
    BY <2>1, <2>6, StopFields, TasksKept DEF CompleteRemove, Carries
  <2>7. CASE CompleteNext(w)
    BY <2>7, TaskMoved
  <2>8. QED
    BY <1>4, <2>2, <2>3, <2>4, <2>5, <2>6, <2>7 DEF WorkerStep
<1>5. CASE UNCHANGED poolVars
  BY <1>5, TasksKept DEF Carries, poolVars
<1>6. QED
  BY <1>1, <1>2, <1>3, <1>4, <1>5 DEF Next

-----------------------------------------------------------------------------
(* The invariant, and what follows from it *)

LEMMA InitInv == Init => IInv /\ TaskInv
<1> SUFFICES ASSUME Init
             PROVE  IInv /\ TaskInv
  OBVIOUS
<1>1. \A p \in Thread : thread[p] = Idle /\ thread[p].step = "idle"
  BY DEF Init, Idle
<1>2. TypeOK
  BY EmptySeq DEF Init, TypeOK
<1>3. RoleInv /\ MonitorInv
  BY <1>1 DEF RoleInv, MonitorInv, InMonitor, Thread
<1>4. PlayingInv /\ ClosedInv
  BY <1>1 DEF Init, PlayingInv, At, ClosedInv
<1>5. \A i \in DOMAIN ready : FALSE
  BY DEF Init
<1>6. TokenInv
  BY <1>1, <1>5 DEF Init, TokenInv, Token, Holds
<1>7. \A a \in Act : \A i \in DOMAIN acts[a] : FALSE
  BY DEF Init
<1>8. TaskInv
  BY <1>1, <1>5, <1>7 DEF TaskInv, HeldSubmitted, HeldOnce, Carries
<1>9. QED
  BY <1>2, <1>3, <1>4, <1>6, <1>8 DEF IInv

LEMMA NextInv == IInv /\ TaskInv /\ [Next]_poolVars => IInv' /\ TaskInv'
BY TypeStep, RoleStep, MonitorStep, PlayingStep, TokenStep, ClosedStep, TaskStep DEF IInv

(***************************************************************************)
(* The inductive invariant: a thread inside synchronized (act) has the     *)
(* monitor to itself, an actor that plays is handed to the executor or     *)
(* held by one thread, and no task is held twice.                          *)
(***************************************************************************)
THEOREM Invariance == Spec => [](IInv /\ TaskInv)
BY InitInv, NextInv, PTL DEF Spec

(***************************************************************************)
(* Type correctness.                                                       *)
(***************************************************************************)
THEOREM Typing == Spec => []TypeOK
<1>1. IInv /\ TaskInv => TypeOK
  BY DEF IInv
<1>2. QED
  BY <1>1, Invariance, PTL

(***************************************************************************)
(* The monitors of submit and complete exclude each other: no two threads  *)
(* are inside the monitor of one actor.                                    *)
(***************************************************************************)
Exclusion ==
  \A p, q \in Thread :
    InMonitor(p) /\ InMonitor(q) /\ thread[p].act = thread[q].act => p = q

\* the synchronized methods of an ActorThreadPool keep its threads apart
THEOREM OneInside == Spec => []Exclusion
<1>1. IInv /\ TaskInv => Exclusion
  BY MutualExclusion DEF IInv, Exclusion
<1>2. QED
  BY <1>1, Invariance, PTL

(***************************************************************************)
(* No task is forgotten: an actor with pending tasks, outside its monitor, *)
(* plays, and has a job in the executor's queue or a worker to complete.   *)
(***************************************************************************)
THEOREM Served == Spec => []PendingIsServed
<1>1. ASSUME IInv
      PROVE  PendingIsServed
  <2> SUFFICES ASSUME NEW a \in Act, open, acts[a] # <<>>, monitor[a] = NoThread
               PROVE  /\ a \in playingNow
                      /\ \/ \E i \in DOMAIN ready : ready[i].act = a
                         \/ \E w \in Worker : thread[w] # Idle /\ thread[w].act = a
    BY DEF PendingIsServed
  <2>1. a \in playingNow
    BY <1>1 DEF IInv, PlayingInv
  <2>2. ASSUME NEW p \in Thread, Holds(p, a)
        PROVE  \E w \in Worker : thread[w] # Idle /\ thread[w].act = a
    <3>1. ~InMonitor(p)
      BY <1>1, <2>2, ThreadAssumption DEF IInv, MonitorInv, Holds, Thread
    <3>2. thread[p].step \in {"run", "complete"}
      BY <2>2, <3>1 DEF Holds, InMonitor
    <3>3. p \in Worker
      BY <1>1, <3>2 DEF IInv, RoleInv, Thread
    <3>4. QED
      BY <2>2, <3>2, <3>3 DEF Holds, Idle
  <2>3. QED
    BY <1>1, <2>1, <2>2 DEF IInv, TokenInv, Token
<1>2. IInv /\ TaskInv => PendingIsServed
  BY <1>1
<1>3. QED
  BY <1>2, Invariance, PTL

-----------------------------------------------------------------------------
(* Refinement: the pool implements SerialActors *)

(***************************************************************************)
(* What the tasks of an actor wait in: the job in the executor's queue, if *)
(* there is one, and then its own queue.                                   *)
(***************************************************************************)
LEMMA WaitingCases ==
  ASSUME TokenInv, open, NEW a \in Act
  PROVE  /\ (\A i \in DOMAIN ready : ready[i].act # a) => Waiting(a) = acts[a]
         /\ \A i \in DOMAIN ready :
              ready[i].act = a => Waiting(a) = <<ready[i].task>> \o acts[a]
<1>1. (\A i \in DOMAIN ready : ready[i].act # a) => Handed(a) = {}
  BY DEF Handed
<1>2. ASSUME NEW i \in DOMAIN ready, ready[i].act = a
      PROVE  Handed(a) = {ready[i].task}
  BY <1>2 DEF Handed, TokenInv, Token
<1>3. QED
  BY <1>1, <1>2 DEF Waiting

LEMMA WaitingCasesNext ==
  ASSUME TokenInv', open', NEW a \in Act
  PROVE  /\ (\A i \in DOMAIN ready' : ready'[i].act # a) => Waiting(a)' = acts'[a]
         /\ \A i \in DOMAIN ready' :
              ready'[i].act = a => Waiting(a)' = <<ready'[i].task>> \o acts'[a]
<1>1. (\A i \in DOMAIN ready' : ready'[i].act # a) => Handed(a)' = {}
  BY DEF Handed
<1>2. ASSUME NEW i \in DOMAIN ready', ready'[i].act = a
      PROVE  Handed(a)' = {ready'[i].task}
  BY <1>2 DEF Handed, TokenInv, Token
<1>3. QED
  BY <1>1, <1>2 DEF Waiting

(***************************************************************************)
(* The executor's queue holds tasks.                                       *)
(***************************************************************************)
LEMMA ReadyTasks ==
  ASSUME TypeOK, NEW i \in DOMAIN ready
  PROVE  ready[i].task \in Task /\ <<ready[i].task>> \in Seq(Task)
<1>1. ready \in Seq(Job)
  BY DEF TypeOK
<1>2. i \in 1 .. Len(ready)
  BY <1>1, LenProperties
<1>3. ready[i] \in Job
  BY <1>1, <1>2, ElementOfSeq
<1>4. QED
  BY <1>3 DEF Job

(***************************************************************************)
(* Tasks wait in a sequence.                                               *)
(***************************************************************************)
LEMMA WaitingType ==
  ASSUME TypeOK, TokenInv, NEW a \in Act
  PROVE  Waiting(a) \in Seq(Task)
<1>1. acts[a] \in Seq(Task)
  BY DEF TypeOK
<1>2. CASE open /\ \E i \in DOMAIN ready : ready[i].act = a
  <2>1. PICK i \in DOMAIN ready : ready[i].act = a
    BY <1>2
  <2>2. Waiting(a) = <<ready[i].task>> \o acts[a]
    BY <1>2, <2>1, WaitingCases
  <2>3. QED
    BY <1>1, <2>1, <2>2, ReadyTasks, ConcatProperties
<1>3. CASE open /\ \A i \in DOMAIN ready : ready[i].act # a
  BY <1>1, <1>3, WaitingCases
<1>4. CASE ~open
  BY <1>4, EmptySeq DEF Waiting
<1>5. QED
  BY <1>2, <1>3, <1>4

(***************************************************************************)
(* A task that a thread carries neither waits nor runs elsewhere.          *)
(***************************************************************************)
LEMMA CarriedIsFresh ==
  ASSUME TypeOK, TokenInv, TaskInv, NEW s \in Submitter, Carries(s), RoleInv, NEW a \in Act
  PROVE  thread[s].task \notin Actors!TasksIn(Waiting(a)) \cup Running(a)
<1>1. s \in Thread /\ s \notin Worker
  BY ThreadAssumption DEF Thread
<1>2. thread[s].task \notin Running(a)
  BY <1>1 DEF Running, TaskInv, HeldOnce, Carries, At, Thread
<1>3. \A i \in DOMAIN Waiting(a) : Waiting(a)[i] # thread[s].task
  <2>1. acts[a] \in Seq(Task)
    BY DEF TypeOK
  <2>2. \A i \in DOMAIN acts[a] : acts[a][i] # thread[s].task
    BY <1>1 DEF TaskInv, HeldOnce
  <2>3. CASE open /\ \E i \in DOMAIN ready : ready[i].act = a
    <3>1. PICK i \in DOMAIN ready : ready[i].act = a
      BY <2>3
    <3>2. ready[i].task # thread[s].task
      BY <1>1, <3>1 DEF TaskInv, HeldOnce
    <3>3. Waiting(a) = <<ready[i].task>> \o acts[a]
      BY <2>3, <3>1, WaitingCases
    <3>4. <<ready[i].task>> \in Seq(Task) /\ Len(<<ready[i].task>>) = 1
      BY <3>1, ReadyTasks
    <3>5. /\ DOMAIN acts[a] = 1 .. Len(acts[a]) /\ Len(acts[a]) \in Nat
          /\ DOMAIN Waiting(a) = 1 .. 1 + Len(acts[a])
          /\ \A j \in 1 .. 1 + Len(acts[a]) :
               Waiting(a)[j] = IF j <= 1 THEN ready[i].task ELSE acts[a][j - 1]
      <4>1. Len(Waiting(a)) = 1 + Len(acts[a]) /\ Waiting(a) \in Seq(Task)
        BY <2>1, <3>3, <3>4, ConcatProperties
      <4>2. \A j \in 1 .. 1 + Len(acts[a]) :
              Waiting(a)[j] = IF j <= 1 THEN <<ready[i].task>>[j] ELSE acts[a][j - 1]
        BY <2>1, <3>3, <3>4, ConcatProperties
      <4>3. QED
        BY <2>1, <4>1, <4>2, LenProperties
    <3>6. ASSUME NEW j \in DOMAIN Waiting(a)
          PROVE  Waiting(a)[j] # thread[s].task
      <4>1. j \in Int /\ 1 <= j /\ j <= 1 + Len(acts[a])
        BY <3>5
      <4>2. CASE j = 1
        BY <3>2, <3>5, <4>1, <4>2
      <4>3. CASE j # 1
        <5>1. j - 1 \in DOMAIN acts[a] /\ Waiting(a)[j] = acts[a][j - 1]
          BY <3>5, <4>1, <4>3
        <5>2. QED
          BY <2>2, <5>1
      <4>4. QED
        BY <4>2, <4>3
    <3>7. QED
      BY <3>6
  <2>4. CASE open /\ \A i \in DOMAIN ready : ready[i].act # a
    BY <2>2, <2>4, WaitingCases
  <2>5. CASE ~open
    BY <2>5 DEF Waiting
  <2>6. QED
    BY <2>3, <2>4, <2>5
<1>4. QED
  BY <1>2, <1>3 DEF Actors!TasksIn

(***************************************************************************)
(* A step that changes neither what waits nor what runs is a stuttering    *)
(* step of SerialActors.                                                   *)
(***************************************************************************)
LEMMA Stutters ==
  ASSUME UNCHANGED open, \A a \in Act : Waiting(a)' = Waiting(a) /\ Running(a)' = Running(a)
  PROVE  UNCHANGED Actors!serialVars
BY DEF Actors!serialVars

\* the workers that run tasks, and their tasks, are the same
RunsKept ==
  \A w \in Worker : /\ At(w, "run")' <=> At(w, "run")
                    /\ At(w, "run") => thread'[w] = thread[w]

LEMMA RunningKept ==
  ASSUME RunsKept, NEW a \in Act
  PROVE  Running(a)' = Running(a)
BY DEF RunsKept, Running, At

LEMMA QueuesKept ==
  ASSUME UNCHANGED <<acts, ready, open>>, NEW a \in Act
  PROVE  Waiting(a)' = Waiting(a)
BY DEF Waiting, Handed

(***************************************************************************)
(* A task handed over by submit, at either of its ends, is submitted; a    *)
(* pool that is shut down drops it.                                        *)
(***************************************************************************)
LEMMA SubmitImplements ==
  ASSUME TypeOK, RoleInv, TokenInv, TaskInv, NEW s \in Submitter, Carries(s), UNCHANGED open,
         NEW a \in Act, a = thread[s].act, Stop(s),
         open => Waiting(a)' = Append(Waiting(a), thread[s].task),
         \A b \in Act : b # a => Waiting(b)' = Waiting(b)
  PROVE  [Actors!Next]_Actors!serialVars
<1>1. s \in Thread /\ s \notin Worker
  BY ThreadAssumption DEF Thread
<1>2. \A b \in Act : Running(b)' = Running(b)
  BY <1>1, StopFields, RunningKept DEF RunsKept, At, Thread
<1>3. CASE open
  <2>1. thread[s].task \in Task
    BY <1>1, BusyFields DEF Carries
  <2>2. Actors!Submit(a, thread[s].task)
    BY <1>2, <1>3, CarriedIsFresh DEF Actors!Submit
  <2>3. QED
    BY <2>1, <2>2 DEF Actors!Next
<1>4. CASE ~open
  <2>1. \A b \in Act : Waiting(b)' = Waiting(b)
    BY <1>4 DEF Waiting
  <2>2. QED
    BY <1>2, <2>1, Stutters
<1>5. QED
  BY <1>3, <1>4

LEMMA SubmitExecuteImplements ==
  ASSUME IInv, IInv', TaskInv, NEW s \in Submitter, SubmitExecute(s)
  PROVE  [Actors!Next]_Actors!serialVars
<1> USE DEF IInv
<1>1. s \in Thread /\ Carries(s) /\ Stop(s) /\ UNCHANGED open
  BY DEF SubmitExecute, Carries, At, Thread
<1>2. PICK a \in Act : a = thread[s].act
  BY <1>1, BusyFields DEF Carries
<1>3. acts[a] = <<>> /\ UNCHANGED acts /\ Execute(JobOf(s))
  BY <1>1, <1>2 DEF SubmitExecute, PlayingInv, At
<1>4. \A i \in DOMAIN ready : ready[i].act # a
  BY <1>1, <1>2 DEF SubmitExecute, At, TokenInv, Token, Holds
<1>5. JobOf(s) \in Job /\ JobOf(s).act = a /\ JobOf(s).task = thread[s].task
  BY <1>1, <1>2, BusyFields DEF Carries, JobOf
<1>6. CASE open
  <2>1. PICK n : /\ n \notin DOMAIN ready /\ DOMAIN ready' = DOMAIN ready \cup {n}
                 /\ ready'[n] = JobOf(s)
                 /\ \A i \in DOMAIN ready : ready'[i] = ready[i]
    BY <1>3, <1>5, <1>6, JobAppended
  <2>2. Waiting(a) = <<>>
    BY <1>3, <1>4, <1>6, WaitingCases
  <2>3. Waiting(a)' = <<thread[s].task>> \o <<>>
    <3>1. n \in DOMAIN ready' /\ ready'[n].act = a /\ ready'[n].task = thread[s].task
      BY <1>5, <2>1
    <3>2. open' /\ acts'[a] = <<>>
      BY <1>1, <1>3, <1>6
    <3>3. QED
      BY <3>1, <3>2, WaitingCasesNext
  <2>4. Waiting(a)' = Append(Waiting(a), thread[s].task)
    BY <1>1, <2>2, <2>3, BusyFields DEF Carries
  <2>5. ASSUME NEW b \in Act, b # a
        PROVE  Waiting(b)' = Waiting(b)
    <3> open' /\ acts'[b] = acts[b]
      BY <1>1, <1>3, <1>6
    <3>1. CASE \E i \in DOMAIN ready : ready[i].act = b
      <4>1. PICK i \in DOMAIN ready : ready[i].act = b
        BY <3>1
      <4>2. Waiting(b) = <<ready[i].task>> \o acts[b]
        BY <1>6, <4>1, WaitingCases
      <4>3. i \in DOMAIN ready' /\ ready'[i] = ready[i]
        BY <2>1
      <4>4. Waiting(b)' = <<ready'[i].task>> \o acts'[b]
        BY <4>1, <4>3, WaitingCasesNext
      <4>5. QED
        BY <4>2, <4>3, <4>4
    <3>2. CASE \A i \in DOMAIN ready : ready[i].act # b
      <4>1. \A i \in DOMAIN ready' : ready'[i].act # b
        BY <1>5, <2>1, <2>5, <3>2
      <4>2. QED
        BY <1>6, <3>2, <4>1, WaitingCases, WaitingCasesNext
    <3>3. QED
      BY <3>1, <3>2
  <2>6. QED
    BY <1>1, <1>2, <2>4, <2>5, SubmitImplements
<1>7. CASE ~open
  <2>1. \A b \in Act : Waiting(b)' = Waiting(b)
    BY <1>1, <1>7 DEF Waiting
  <2>2. QED
    BY <1>1, <1>2, <1>7, <2>1, SubmitImplements
<1>8. QED
  BY <1>6, <1>7

LEMMA SubmitEnqueueImplements ==
  ASSUME IInv, IInv', TaskInv, NEW s \in Submitter, SubmitEnqueue(s)
  PROVE  [Actors!Next]_Actors!serialVars
<1> USE DEF IInv
<1>1. s \in Thread /\ Carries(s) /\ Stop(s) /\ UNCHANGED <<ready, open>>
  BY DEF SubmitEnqueue, Carries, At, Thread
<1>2. PICK a \in Act, t \in Task : a = thread[s].act /\ t = thread[s].task
  BY <1>1, BusyFields DEF Carries
<1>3. /\ acts[a] \in Seq(Task) /\ acts'[a] = Append(acts[a], t)
      /\ \A b \in Act : b # a => acts'[b] = acts[b]
  BY <1>2 DEF SubmitEnqueue, TypeOK
<1>4. ASSUME NEW b \in Act, b # a
      PROVE  Waiting(b)' = Waiting(b)
  <2>1. Handed(b)' = Handed(b) /\ acts'[b] = acts[b] /\ open' = open
    BY <1>1, <1>3, <1>4 DEF Handed
  <2>2. QED
    BY <2>1 DEF Waiting
<1>5. ASSUME open
      PROVE  Waiting(a)' = Append(Waiting(a), t)
  <2>1. CASE \E i \in DOMAIN ready : ready[i].act = a
    <3>1. PICK i \in DOMAIN ready : ready[i].act = a
      BY <2>1
    <3>2. /\ Waiting(a) = <<ready[i].task>> \o acts[a]
          /\ Waiting(a)' = <<ready[i].task>> \o Append(acts[a], t)
      BY <1>1, <1>3, <1>5, <3>1, WaitingCases, WaitingCasesNext
    <3>3. <<ready[i].task>> \in Seq(Task)
      BY <3>1, ReadyTasks
    <3>4. /\ Append(acts[a], t) = acts[a] \o <<t>>
          /\ <<t>> \in Seq(Task) /\ <<ready[i].task>> \o acts[a] \in Seq(Task)
      BY <1>3, <3>3, AppendIsConcat, ConcatProperties
    <3>5. Append(<<ready[i].task>> \o acts[a], t) = (<<ready[i].task>> \o acts[a]) \o <<t>>
      BY <3>4, AppendIsConcat
    <3>6. QED
      BY <1>3, <3>2, <3>3, <3>4, <3>5, ConcatAssociative
  <2>2. CASE \A i \in DOMAIN ready : ready[i].act # a
    BY <1>1, <1>3, <1>5, <2>2, WaitingCases, WaitingCasesNext
  <2>3. QED
    BY <2>1, <2>2
<1>6. QED
  BY <1>1, <1>2, <1>4, <1>5, SubmitImplements

(***************************************************************************)
(* A job taken from the executor's queue starts a task.                    *)
(***************************************************************************)
LEMMA TakeImplements ==
  ASSUME IInv, IInv', NEW w \in Worker, Take(w)
  PROVE  Actors!Next
<1> USE DEF IInv
<1>1. /\ w \in Thread /\ thread[w].step = "idle"
      /\ ready \in Seq(Job) /\ ready # <<>> /\ ready' = Tail(ready)
      /\ UNCHANGED <<acts, open>> /\ open
  BY DEF Take, TypeOK, Thread, ClosedInv, Idle
<1>2. /\ 1 \in DOMAIN ready /\ Head(ready) = ready[1] /\ Head(ready) \in Job
      /\ \A i \in DOMAIN ready' : i + 1 \in DOMAIN ready /\ i + 1 # 1 /\ ready'[i] = ready[i + 1]
  BY <1>1, TailIndexes, HeadTailProperties
<1>3. PICK a \in Act, t \in Task : a = ready[1].act /\ t = ready[1].task
  BY <1>2 DEF Job
<1>4. /\ thread'[w].step = "run" /\ thread'[w].act = a /\ thread'[w].task = t
      /\ \A q \in Thread : q # w => thread'[q] = thread[q]
  BY <1>1, <1>2, <1>3 DEF Take, TypeOK
<1>5. /\ \A i \in DOMAIN ready' : ready'[i].act # a
      /\ \A q \in Thread : ~Holds(q, a)
  BY <1>2, <1>3 DEF TokenInv, Token
<1>6. acts[a] \in Seq(Task)
  BY DEF TypeOK
<1>7. Waiting(a) = <<t>> \o acts[a] /\ Waiting(a)' = acts[a]
  BY <1>1, <1>2, <1>3, <1>5, WaitingCases, WaitingCasesNext
<1>8. Waiting(a) # <<>> /\ Head(Waiting(a)) = t /\ Tail(Waiting(a)) = acts[a]
  BY <1>6, <1>7
<1>9. ASSUME NEW b \in Act, b # a
      PROVE  Waiting(b)' = Waiting(b)
  <2> open' /\ acts'[b] = acts[b]
    BY <1>1
  <2>1. CASE \E i \in DOMAIN ready' : ready'[i].act = b
    <3>1. PICK i \in DOMAIN ready' : ready'[i].act = b
      BY <2>1
    <3>2. Waiting(b)' = <<ready'[i].task>> \o acts'[b]
      BY <3>1, WaitingCasesNext
    <3>3. i + 1 \in DOMAIN ready /\ ready'[i] = ready[i + 1]
      BY <1>2
    <3>4. Waiting(b) = <<ready[i + 1].task>> \o acts[b]
      BY <1>1, <3>1, <3>3, WaitingCases
    <3>5. QED
      BY <3>2, <3>3, <3>4
  <2>2. CASE \A i \in DOMAIN ready' : ready'[i].act # b
    <3>1. \A i \in DOMAIN ready : i = 1 \/ (i - 1 \in DOMAIN ready' /\ ready'[i - 1] = ready[i])
      <4>1. /\ DOMAIN ready = 1 .. Len(ready) /\ Len(ready) \in Nat
            /\ DOMAIN ready' = 1 .. Len(ready) - 1
        BY <1>1, HeadTailProperties, LenProperties
      <4>2. QED
        BY <1>2, <4>1
    <3>2. \A i \in DOMAIN ready : ready[i].act # b
      BY <1>3, <1>9, <2>2, <3>1
    <3>3. QED
      BY <1>1, <2>2, <3>2, WaitingCases, WaitingCasesNext
  <2>3. QED
    BY <2>1, <2>2
<1>10. Running(a) = {} /\ Running(a)' = {t}
  BY <1>1, <1>4, <1>5 DEF Running, At, Holds, Thread
<1>11. \A b \in Act : b # a => Running(b)' = Running(b)
  BY <1>1, <1>4 DEF Running, At, Thread
<1>12. Actors!Start(a)
  BY <1>1, <1>7, <1>8, <1>9, <1>10, <1>11 DEF Actors!Start
<1>13. QED
  BY <1>12 DEF Actors!Next

(***************************************************************************)
(* The end of run finishes the one task of its actor that runs.            *)
(***************************************************************************)
LEMMA RunImplements ==
  ASSUME IInv, NEW w \in Worker, Run(w)
  PROVE  Actors!Next
<1> USE DEF IInv
<1>1. /\ w \in Thread /\ thread[w].step = "run"
      /\ thread'[w].step = "complete"
      /\ \A q \in Thread : q # w => thread'[q] = thread[q]
      /\ UNCHANGED <<acts, ready, open>>
  BY GoFields DEF Run, At, Thread, Steps
<1>2. PICK a \in Act : a = thread[w].act /\ Holds(w, a)
  BY <1>1, BusyFields DEF Holds
<1>3. \A q \in Thread : Holds(q, a) => q = w
  BY <1>1, <1>2 DEF TokenInv, Token
<1>4. Running(a) # {}
  BY <1>1, <1>2 DEF Running, At
<1>5. Running(a)' = {}
  BY <1>1, <1>3 DEF Running, At, Holds, Thread
<1>6. \A b \in Act : b # a => Running(b)' = Running(b)
  BY <1>1, <1>2 DEF Running, At, Thread
<1>7. \A b \in Act : Waiting(b)' = Waiting(b)
  BY <1>1, QueuesKept
<1>8. Actors!Finish(a)
  BY <1>1, <1>4, <1>5, <1>6, <1>7 DEF Actors!Finish
<1>9. QED
  BY <1>8 DEF Actors!Next

(***************************************************************************)
(* The task that complete hands over keeps its place before the others.    *)
(***************************************************************************)
LEMMA CompleteNextStutters ==
  ASSUME IInv, IInv', NEW w \in Worker, CompleteNext(w)
  PROVE  UNCHANGED Actors!serialVars
<1> USE DEF IInv
<1>1. w \in Thread /\ At(w, "next") /\ Stop(w) /\ UNCHANGED open
  BY DEF CompleteNext, Thread
<1>2. PICK a \in Act : a = thread[w].act /\ acts[a] # <<>> /\ Holds(w, a)
  BY <1>1, BusyFields DEF PlayingInv, At, Holds
<1>3. /\ acts[a] \in Seq(Task) /\ acts'[a] = Tail(acts[a])
      /\ \A b \in Act : b # a => acts'[b] = acts[b]
  BY <1>2 DEF CompleteNext, TypeOK
<1>4. PICK t \in Task : t = Head(acts[a])
  BY <1>2, <1>3, HeadTailProperties
<1>5. PICK job \in Job : job = [act |-> a, task |-> t]
  BY <1>4 DEF Job
<1>6. Execute(job) /\ \A i \in DOMAIN ready : ready[i].act # a
  BY <1>1, <1>2, <1>4, <1>5 DEF CompleteNext, TokenInv, Token
<1>7. \A b \in Act : Running(b)' = Running(b)
  BY <1>1, StopFields, RunningKept DEF RunsKept, At, Thread
<1>8. CASE open
  <2>1. PICK n : /\ n \notin DOMAIN ready /\ DOMAIN ready' = DOMAIN ready \cup {n}
                 /\ ready'[n] = job
                 /\ \A i \in DOMAIN ready : ready'[i] = ready[i]
    BY <1>5, <1>6, <1>8, JobAppended
  <2>2. open'
    BY <1>1, <1>8
  <2>3. Waiting(a)' = Waiting(a)
    <3>1. Waiting(a) = acts[a]
      BY <1>6, <1>8, WaitingCases
    <3>2. n \in DOMAIN ready' /\ ready'[n].act = a /\ ready'[n].task = t
      BY <1>5, <2>1
    <3>3. Waiting(a)' = <<t>> \o Tail(acts[a])
      BY <1>3, <2>2, <3>2, WaitingCasesNext
    <3>4. acts[a] = <<t>> \o Tail(acts[a])
      <4>1. Len(acts[a]) \in Nat \ {0}
        BY <1>2, <1>3, EmptySeq
      <4>2. SubSeq(acts[a], 1, Len(acts[a])) = <<acts[a][1]>> \o SubSeq(acts[a], 2, Len(acts[a]))
        BY <1>3, <4>1, SubSeqRecursiveFirst
      <4>3. QED
        BY <1>2, <1>3, <1>4, <4>2, SubSeqFull, TailIsSubSeq, TailIndexes
    <3>5. QED
      BY <3>1, <3>3, <3>4
  <2>4. ASSUME NEW b \in Act, b # a
        PROVE  Waiting(b)' = Waiting(b)
    <3>1. acts'[b] = acts[b]
      BY <1>3, <2>4
    <3>2. CASE \E i \in DOMAIN ready : ready[i].act = b
      <4>1. PICK i \in DOMAIN ready : ready[i].act = b
        BY <3>2
      <4>2. Waiting(b) = <<ready[i].task>> \o acts[b]
        BY <1>8, <4>1, WaitingCases
      <4>3. i \in DOMAIN ready' /\ ready'[i] = ready[i]
        BY <2>1
      <4>4. Waiting(b)' = <<ready'[i].task>> \o acts'[b]
        BY <2>2, <4>1, <4>3, WaitingCasesNext
      <4>5. QED
        BY <3>1, <4>2, <4>3, <4>4
    <3>3. CASE \A i \in DOMAIN ready : ready[i].act # b
      <4>1. \A i \in DOMAIN ready' : ready'[i].act # b
        BY <1>5, <2>1, <2>4, <3>3
      <4>2. QED
        BY <1>8, <2>2, <3>1, <3>3, <4>1, WaitingCases, WaitingCasesNext
    <3>4. QED
      BY <3>2, <3>3
  <2>5. QED
    BY <1>1, <1>7, <2>3, <2>4, Stutters
<1>9. CASE ~open
  <2>1. \A b \in Act : Waiting(b)' = Waiting(b)
    BY <1>1, <1>9 DEF Waiting
  <2>2. QED
    BY <1>1, <1>7, <2>1, Stutters
<1>10. QED
  BY <1>8, <1>9

(***************************************************************************)
(* Every step of the pool is a step of SerialActors, or a stuttering step. *)
(***************************************************************************)
LEMMA StepImplements ==
  ASSUME IInv, IInv', TaskInv, [Next]_poolVars
  PROVE  [Actors!Next]_Actors!serialVars
<1> USE DEF IInv, At
<1>1. ASSUME UNCHANGED <<acts, ready, open>>, RunsKept
      PROVE  UNCHANGED Actors!serialVars
  BY <1>1, QueuesKept, RunningKept, Stutters
<1>2. ASSUME NEW s \in Submitter, NEW a \in Act, NEW t \in Task, Submit(s, a, t)
      PROVE  UNCHANGED Actors!serialVars
  <2>1. s \in Thread /\ s \notin Worker
    BY ThreadAssumption DEF Thread
  <2>2. RunsKept
    BY <1>2, <2>1 DEF Submit, RunsKept, TypeOK, Thread
  <2>3. QED
    BY <1>1, <1>2, <2>2 DEF Submit
<1>3. ASSUME NEW s \in Submitter, SubmitterStep(s)
      PROVE  [Actors!Next]_Actors!serialVars
  <2>1. s \in Thread /\ s \notin Worker
    BY ThreadAssumption DEF Thread
  <2>2. CASE SubmitEnter(s)
    BY <2>1, <2>2, <1>1, GoFields DEF SubmitEnter, RunsKept, Thread, Steps
  <2>3. CASE SubmitTest(s)
    BY <2>1, <2>3, <1>1, GoFields DEF SubmitTest, RunsKept, Thread, Steps
  <2>4. CASE SubmitMark(s)
    BY <2>1, <2>4, <1>1, GoFields DEF SubmitMark, RunsKept, Thread, Steps
  <2>5. CASE SubmitExecute(s)
    BY <2>5, SubmitExecuteImplements
  <2>6. CASE SubmitEnqueue(s)
    BY <2>6, SubmitEnqueueImplements
  <2>7. QED
    BY <1>3, <2>2, <2>3, <2>4, <2>5, <2>6 DEF SubmitterStep
<1>4. ASSUME NEW s \in Submitter, Shutdown(s)
      PROVE  Actors!Next
  <2>1. /\ open /\ open' = FALSE /\ \A b \in Act : Waiting(b)' = <<>>
        /\ \A b \in Act : Running(b)' = Running(b)
    BY <1>4, RunningKept DEF Shutdown, Waiting, RunsKept
  <2>2. Actors!Shutdown
    BY <2>1 DEF Actors!Shutdown
  <2>3. QED
    BY <2>2 DEF Actors!Next
<1>5. ASSUME NEW w \in Worker, WorkerStep(w)
      PROVE  [Actors!Next]_Actors!serialVars
  <2>1. w \in Thread
    BY DEF Thread
  <2>2. CASE Take(w)
    BY <2>2, TakeImplements
  <2>3. CASE Run(w)
    BY <2>3, RunImplements
  <2>4. CASE CompleteEnter(w)
    BY <2>1, <2>4, <1>1, GoFields DEF CompleteEnter, RunsKept, Thread, Steps
  <2>5. CASE CompleteLook(w)
    BY <2>1, <2>5, <1>1, GoFields DEF CompleteLook, RunsKept, Thread, Steps
  <2>6. CASE CompleteRemove(w)
    BY <2>1, <2>6, <1>1, StopFields DEF CompleteRemove, RunsKept, Thread
  <2>7. CASE CompleteNext(w)
    BY <2>7, CompleteNextStutters
  <2>8. QED
    BY <1>5, <2>2, <2>3, <2>4, <2>5, <2>6, <2>7 DEF WorkerStep
<1>6. CASE UNCHANGED poolVars
  BY <1>1, <1>6 DEF poolVars, RunsKept
<1>7. QED
  BY <1>2, <1>3, <1>4, <1>5, <1>6 DEF Next

(***************************************************************************)
(* submit, complete and the executor together run the tasks of an actor in *)
(* the order of submission and never two at once.                          *)
(***************************************************************************)
THEOREM Refinement == Spec => ImplementsSerialActors
<1>1. Init => Actors!Init
  <2> SUFFICES ASSUME Init
               PROVE  Actors!Init
    OBVIOUS
  <2>1. \A i \in DOMAIN ready : FALSE
    BY DEF Init
  <2>2. \A a \in Act : Waiting(a) = <<>>
    BY <2>1 DEF Init, Waiting, Handed
  <2>3. \A w \in Worker : ~At(w, "run")
    BY DEF Init, At, Idle, Thread
  <2>4. \A a \in Act : Running(a) = {}
    BY <2>3 DEF Running
  <2>5. QED
    BY <2>2, <2>4 DEF Init, Actors!Init
<1>2. /\ IInv /\ TaskInv /\ (IInv /\ TaskInv)' /\ [Next]_poolVars
      => [Actors!Next]_Actors!serialVars
  BY StepImplements
<1>3. QED
  BY <1>1, <1>2, Invariance, PTL DEF Spec, ImplementsSerialActors, Actors!Spec
=============================================================================
