\* One client that types anything, whose connection and input may end at any time.
SPECIFICATION FairSpec
CONSTANTS
  Conn = {0}
  Lines <- MCAnything
  Faulty = {0}
  Window = 4
CHECK_DEADLOCK FALSE
INVARIANTS
  TypeOK
  RequestsAsTyped
  AnsweredOnce
  MisreadAfterTable
  LogoutIsLast
PROPERTIES
  LogoutExits
