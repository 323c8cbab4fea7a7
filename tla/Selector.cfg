\* Two clients, of two requests and of one, which may leave at any time.  The first
\* request of the first makes process throw, after a message to itself or to the
\* other, or none.
SPECIFICATION Spec
CONSTANTS
  NConn = 2
  Asks <- MCTwoAndOne
  Silent <- MCNone
  Bad <- MCFirst
  MaxSends = 1
  Size = 2
  Window = 1
CHECK_DEADLOCK FALSE
INVARIANTS
  TypeOK
  WriteInterestKept
  TasksWakeSelector
  ServeEndsByLeaving
  MessagesWhole
