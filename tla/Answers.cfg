\* One client that asks three times: the first request has no answer, the second
\* makes process throw after none, one or two answers, and the third has one or two.
SPECIFICATION FairSpec
CONSTANTS
  NConn = 1
  Asks <- MCThreeEach
  Silent <- MCFirst
  Bad <- MCSecond
  MaxSends = 2
  Size = 2
  Window = 3
CHECK_DEADLOCK FALSE
INVARIANTS
  RepliesInOrder
PROPERTIES
  RequestsAnswered
