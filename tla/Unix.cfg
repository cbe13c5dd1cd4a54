SPECIFICATION FairSpec
CONSTANTS
  Words <- MCWords
  Addresses <- MCAddresses
  Lower <- MCLower
  IPv6Texts <- MCTexts
  AddrsOf <- MCAddrsOf
  UNIX_PATH <- MCPath
  SunPathSize = 5
  ServerPorts <- MCServerPorts
INVARIANTS  RebuiltParsesAlike OnlyLocal RightServer
PROPERTIES Reaches
