SPECIFICATION ReadSpec
CONSTANTS
  p1 = p1
  p2 = p2
  public = public
  corp = corp
  Target <- MCTarget
  ProxyAuthority <- MCProxy
  Address <- MCAddress
  PublicIP <- MCPublic
  Configs <- MCConfigs
  MaxAddrs = 2
  MaxRequests = 3
  MaxRendered = 3
  Texts <- MCTexts
  Image = Image
  NoText = NoText
  Doc <- MCDoc
  Starts <- MCStarts
  Lengths <- MCLengths
INVARIANTS
  ConnectionsAllowed
  HintsLeadOn
  FollowedWhole
