\* Two actors on two threads, three tasks: two may wait for one actor.
SPECIFICATION FairSpec
CONSTANTS
  Act = {a1, a2}
  Task = {t1, t2, t3}
  Submitter = {selector}
  Worker = {w1, w2}
  NoThread = NoThread
CHECK_DEADLOCK FALSE
INVARIANTS
  TypeOK
  PendingIsServed
PROPERTIES
  ImplementsSerialActors
  ImplementsFairly
