\* Posts pushed or kept while their addressees log in and out.
SPECIFICATION Spec
CONSTANTS
  Conn = {c1, c2}
  NoConn = NoConn
  Name = {"carmela", "roy"}
  Contains <- MCApart
  FirstOf <- MCFirstOf
  LastOf <- MCLastOf
  NoUser = NoUser
  Ops = {"REGISTER", "LOGIN", "LOGOUT", "FOLLOW", "POST"}
  Texts <- MCNoneOrCarmela
  Tags <- MCTags
  NThreads = 2
  MaxSerial = 2
  MaxPosts = 1
  MaxShort = 1
CONSTRAINTS MCFewStale MCOneAccount
SYMMETRY MCSymmetry
INVARIANTS
  PostsPushed
  AddressedAsDue
