-------------------------- MODULE ActorThreadPool --------------------------
(***************************************************************************)
(* srv/ActorThreadPool.java: a fixed pool of threads that runs the tasks   *)
(* of each actor one at a time.  submit and complete take the monitor of   *)
(* the actor; between two steps inside it other threads go on, so that     *)
(* what the monitor protects is a result here and no assumption.  The      *)
(* read-write lock around the map acts is taken and released within single *)
(* steps, inside the monitor.                                              *)
(***************************************************************************)
EXTENDS Sequences, FiniteSets

CONSTANTS
  Act,        \* actors: in the server, the connection handlers
  Task,       \* tasks; one may be submitted again when it has run
  Submitter,  \* threads that call submit: in the server, the selector thread
  Worker,     \* threads of the executor
  NoThread    \* the owner of a free monitor

ASSUME ThreadAssumption ==
  /\ Submitter \cap Worker = {}
  /\ NoThread \notin Submitter \cup Worker

VARIABLES
  acts,        \* pending tasks per actor; no entry is an empty queue
  playingNow,  \* actors with a task handed to the executor
  ready,       \* the executor's queue
  open,        \* the executor was not shut down
  monitor,     \* per actor: the thread inside synchronized (act)
  thread,      \* per thread: where it is, and with which task
  submitted    \* tasks submitted and not run to their end

poolVars == <<acts, playingNow, ready, open, monitor, thread, submitted>>

Thread == Submitter \cup Worker

Job == [act : Act, task : Task]

Steps == {"enter", "test", "mark", "execute", "enqueue",
          "run", "complete", "look", "remove", "next"}

Idle == [step |-> "idle"]

At(p, step) == thread[p].step = step

Go(p, step) == thread' = [thread EXCEPT ![p].step = step]

Stop(p) == thread' = [thread EXCEPT ![p] = Idle]

Enter(a, p) == monitor[a] = NoThread /\ monitor' = [monitor EXCEPT ![a] = p]

Leave(a) == monitor' = [monitor EXCEPT ![a] = NoThread]

\* threads.execute(...), which throws once the executor is shut down
Execute(job) == ready' = IF open THEN Append(ready, job) ELSE ready

JobOf(p) == [act |-> thread[p].act, task |-> thread[p].task]

-----------------------------------------------------------------------------
(* submit *)

Submit(s, a, t) ==
  /\ thread[s] = Idle
  /\ open
  /\ t \notin submitted
  /\ submitted' = submitted \cup {t}
  /\ thread' = [thread EXCEPT ![s] = [step |-> "enter", act |-> a, task |-> t]]
  /\ UNCHANGED <<acts, playingNow, ready, open, monitor>>

\* mutant: no synchronized in submit
SubmitEnterUnlocked(s) ==
  /\ At(s, "enter")
  /\ Go(s, "test")
  /\ UNCHANGED <<acts, playingNow, ready, open, monitor, submitted>>

SubmitEnter(s) ==
  /\ At(s, "enter")
  /\ Enter(thread[s].act, s)
  /\ Go(s, "test")
  /\ UNCHANGED <<acts, playingNow, ready, open, submitted>>

SubmitTest(s) ==
  /\ At(s, "test")
  /\ Go(s, IF thread[s].act \in playingNow THEN "enqueue" ELSE "mark")
  /\ UNCHANGED <<acts, playingNow, ready, open, monitor, submitted>>

\* mutant: the actor is not marked
SubmitMarkNot(s) ==
  /\ At(s, "mark")
  /\ Go(s, "execute")
  /\ UNCHANGED <<acts, playingNow, ready, open, monitor, submitted>>

\* mutant: the task is added where the actor should be
SubmitMarkTask(s) ==
  /\ At(s, "mark")
  /\ playingNow' = playingNow \cup {thread[s].task}
  /\ Go(s, "execute")
  /\ UNCHANGED <<acts, ready, open, monitor, submitted>>

SubmitMark(s) ==
  /\ At(s, "mark")
  /\ playingNow' = playingNow \cup {thread[s].act}
  /\ Go(s, "execute")
  /\ UNCHANGED <<acts, ready, open, monitor, submitted>>

SubmitExecute(s) ==
  /\ At(s, "execute")
  /\ Execute(JobOf(s))
  /\ Leave(thread[s].act)
  /\ Stop(s)
  /\ UNCHANGED <<acts, playingNow, open, submitted>>

SubmitEnqueue(s) ==
  /\ At(s, "enqueue")
  /\ acts' = [acts EXCEPT ![thread[s].act] = Append(@, thread[s].task)]
  /\ Leave(thread[s].act)
  /\ Stop(s)
  /\ UNCHANGED <<playingNow, ready, open, submitted>>

-----------------------------------------------------------------------------
(* execute and complete, on a thread of the executor *)

\* a free thread takes the job at the head of the executor's queue
Take(w) ==
  /\ thread[w] = Idle
  /\ ready # <<>>
  /\ thread' = [thread EXCEPT ![w] =
                  [step |-> "run", act |-> Head(ready).act, task |-> Head(ready).task]]
  /\ ready' = Tail(ready)
  /\ UNCHANGED <<acts, playingNow, open, monitor, submitted>>

\* r.run() returns or throws: finally, complete is called
Run(w) ==
  /\ At(w, "run")
  /\ submitted' = submitted \ {thread[w].task}
  /\ Go(w, "complete")
  /\ UNCHANGED <<acts, playingNow, ready, open, monitor>>

CompleteEnter(w) ==
  /\ At(w, "complete")
  /\ Enter(thread[w].act, w)
  /\ Go(w, "look")
  /\ UNCHANGED <<acts, playingNow, ready, open, submitted>>

CompleteLook(w) ==
  /\ At(w, "look")
  /\ Go(w, IF acts[thread[w].act] = <<>> THEN "remove" ELSE "next")
  /\ UNCHANGED <<acts, playingNow, ready, open, monitor, submitted>>

\* mutant: the actor stays marked when it has nothing more to do
CompleteRemoveNot(w) ==
  /\ At(w, "remove")
  /\ Leave(thread[w].act)
  /\ Stop(w)
  /\ UNCHANGED <<acts, playingNow, ready, open, submitted>>

CompleteRemove(w) ==
  /\ At(w, "remove")
  /\ playingNow' = playingNow \ {thread[w].act}
  /\ Leave(thread[w].act)
  /\ Stop(w)
  /\ UNCHANGED <<acts, ready, open, submitted>>

CompleteNext(w) ==
  /\ At(w, "next")
  /\ LET a == thread[w].act
     IN  /\ acts' = [acts EXCEPT ![a] = Tail(@)]
         /\ Execute([act |-> a, task |-> Head(acts[a])])
         /\ Leave(a)
  /\ Stop(w)
  /\ UNCHANGED <<playingNow, open, submitted>>

-----------------------------------------------------------------------------
(* shutdown: shutdownNow empties the executor's queue *)
Shutdown(s) ==
  /\ thread[s] = Idle
  /\ open
  /\ open' = FALSE
  /\ ready' = <<>>
  /\ UNCHANGED <<acts, playingNow, monitor, thread, submitted>>

-----------------------------------------------------------------------------
Init ==
  /\ acts = [a \in Act |-> <<>>]
  /\ playingNow = {}
  /\ ready = <<>>
  /\ open = TRUE
  /\ monitor = [a \in Act |-> NoThread]
  /\ thread = [p \in Thread |-> Idle]
  /\ submitted = {}

SubmitterStep(s) ==
  SubmitEnter(s) \/ SubmitTest(s) \/ SubmitMark(s) \/ SubmitExecute(s) \/ SubmitEnqueue(s)

WorkerStep(w) ==
  \/ Take(w) \/ Run(w)
  \/ CompleteEnter(w) \/ CompleteLook(w) \/ CompleteRemove(w) \/ CompleteNext(w)

Next ==
  \/ \E s \in Submitter :
       (\E a \in Act, t \in Task : Submit(s, a, t)) \/ SubmitterStep(s) \/ Shutdown(s)
  \/ \E w \in Worker : WorkerStep(w)

Spec == Init /\ [][Next]_poolVars

\* threads that can go on do; nothing makes the user submit or shut down
FairSpec ==
  /\ Spec
  /\ \A s \in Submitter : WF_poolVars(SubmitterStep(s))
  /\ \A w \in Worker : WF_poolVars(WorkerStep(w))

-----------------------------------------------------------------------------
(* Type correctness *)
TypeOK ==
  /\ acts \in [Act -> Seq(Task)]
  /\ playingNow \subseteq Act
  /\ ready \in Seq(Job)
  /\ open \in BOOLEAN
  /\ monitor \in [Act -> Thread \cup {NoThread}]
  /\ thread \in [Thread -> {Idle} \cup [step : Steps, act : Act, task : Task]]
  /\ submitted \subseteq Task

(***************************************************************************)
(* No task is forgotten: while an actor has pending tasks and no thread is *)
(* inside its monitor, the actor is playing, and some job of its own is in *)
(* the executor's queue or on a worker whose complete is still to come.    *)
(* A shut-down executor forgets them.                                      *)
(***************************************************************************)
PendingIsServed ==
  \A a \in Act :
    open /\ acts[a] # <<>> /\ monitor[a] = NoThread =>
      /\ a \in playingNow
      /\ \/ \E i \in DOMAIN ready : ready[i].act = a
         \/ \E w \in Worker : thread[w] # Idle /\ thread[w].act = a

-----------------------------------------------------------------------------
(* Refinement: the pool implements SerialActors, its fairness included *)

\* the task of an actor that was handed to the executor: there is one at most
Handed(a) == {ready[i].task : i \in {j \in DOMAIN ready : ready[j].act = a}}

Waiting(a) ==
  IF ~open THEN <<>>
  ELSE IF Handed(a) = {} THEN acts[a]
  ELSE <<CHOOSE t \in Handed(a) : TRUE>> \o acts[a]

Running(a) ==
  {thread[w].task : w \in {v \in Worker : At(v, "run") /\ thread[v].act = a}}

Actors == INSTANCE SerialActors WITH
            queue <- [a \in Act |-> Waiting(a)], running <- [a \in Act |-> Running(a)]

(***************************************************************************)
(* submit, complete and the executor together run the tasks of an actor in *)
(* the order of submission and never two at once.                          *)
(***************************************************************************)
ImplementsSerialActors == Actors!Spec

(***************************************************************************)
(* ... and run each of them, however few threads there are.                *)
(***************************************************************************)
ImplementsFairly == Actors!FairSpec
=============================================================================
