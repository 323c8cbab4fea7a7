\* Every operation, one handler at a time.
SPECIFICATION Spec
CONSTANTS
  Conn = {c1, c2}
  NoConn = NoConn
  Name = {"carmela", "roy"}
  Contains <- MCApart
  FirstOf <- MCFirstOf
  LastOf <- MCLastOf
  NoUser = NoUser
  Ops <- AllOps
  Texts <- MCNoneOrCarmela
  Tags <- MCTags
  NThreads = 1
  MaxSerial = 1
  MaxPosts = 1
  MaxShort = 1
SYMMETRY MCSymmetry
INVARIANT SerialHandlers
