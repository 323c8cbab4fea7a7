\* Two clients, three usernames of which one occurs in another, two handlers at once.
SPECIFICATION Spec
CONSTANTS
  Conn = {c1, c2}
  NoConn = NoConn
  Name = {"royi", "roy", "carmela"}
  Contains <- MCNested
  FirstOf <- MCFirstOf
  LastOf <- MCLastOf
  NoUser = NoUser
  Ops <- MCAccountOps
  Texts = {}
  Tags = {}
  NThreads = 2
  MaxSerial = 2
  MaxPosts = 0
  MaxShort = 1
CONSTRAINT MCFewStale
SYMMETRY MCSymmetry
INVARIANTS
  SessionBacked
  SessionIsIndexed
  RegistrationsBounded
