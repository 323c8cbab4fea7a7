\* Two clients: one logs in, then out or asks, the other writes to it.
SPECIFICATION FairSpec
CONSTANTS
  Conn = {0, 1}
  Lines <- MCTwo
  Faulty = {}
  Window = 2
CHECK_DEADLOCK FALSE
INVARIANTS
  AnswersAsSent
  StreamsOpen
PROPERTIES
  LogoutIsAnswered
