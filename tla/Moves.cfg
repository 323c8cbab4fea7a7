\* A third client, where an addressee may log in while a post or a PM is sent to it.
SPECIFICATION Spec
CONSTANTS
  Conn = {c1, c2, c3}
  NoConn = NoConn
  Name = {"carmela", "roy"}
  Contains <- MCApart
  FirstOf <- MCFirstOf
  LastOf <- MCLastOf
  NoUser = NoUser
  Ops = {"REGISTER", "LOGIN", "LOGOUT", "FOLLOW", "POST", "PM"}
  Texts <- MCCarmela
  Tags <- MCNoTags
  NThreads = 2
  MaxSerial = 2
  MaxPosts = 1
  MaxShort = 1
CONSTRAINTS MCFewStale MCSendStale MCOneAccount
SYMMETRY MCSymmetry
INVARIANTS
  PushInSession
  PmInSession
