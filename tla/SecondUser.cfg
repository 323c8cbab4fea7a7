\* One handler at a time, two users logging in from one client.
SPECIFICATION Spec
CONSTANTS
  Conn = {c1, c2}
  NoConn = NoConn
  Name = {"carmela", "roy"}
  Contains <- MCApart
  FirstOf <- MCFirstOf
  LastOf <- MCLastOf
  NoUser = NoUser
  Ops <- MCAccountOps
  Texts = {}
  Tags = {}
  NThreads = 1
  MaxSerial = 1
  MaxPosts = 0
  MaxShort = 1
SYMMETRY MCSymmetry
INVARIANT SessionActs
