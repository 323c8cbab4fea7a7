\* Two users, two clients: FOLLOW, UNFOLLOW and BLOCK interleaved.
SPECIFICATION Spec
CONSTANTS
  Conn = {c1, c2}
  NoConn = NoConn
  Name = {"carmela", "roy"}
  Contains <- MCApart
  FirstOf <- MCFirstOf
  LastOf <- MCLastOf
  NoUser = NoUser
  Ops = {"REGISTER", "LOGIN", "FOLLOW", "UNFOLLOW", "BLOCK"}
  Texts <- MCNameEach
  Tags = {}
  NThreads = 2
  MaxSerial = 2
  MaxPosts = 0
  MaxShort = 2
CONSTRAINTS MCFewStale MCOneAccount
SYMMETRY MCSymmetry
INVARIANTS
  TypeOK
  BlockedNotFollowed
  FollowingCounted
