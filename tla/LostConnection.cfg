\* A client that is notified loses its connection.
SPECIFICATION Spec
CONSTANTS
  Conn = {0}
  Lines <- MCOne
  Faulty = {0}
  Window = 12
CHECK_DEADLOCK FALSE
PROPERTIES
  CutFrameFails
