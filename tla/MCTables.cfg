SPECIFICATION Spec
CONSTANTS
  Patterns <- MCPatterns
  Paths <- MCPaths
  Params <- MCParams
  Fold <- MCFold
  Rank <- MCRank
  Width <- MCWidth
  Resources = {"r1", "r2"}
  MaxCalls = 4
  Addresses <- MCAddresses
  IpPatterns <- MCIpPatterns
  Star = Star
  MaxEntries = 3
  Waiters = {w1, w2}
  Frames = {0, 1}
  CommandLines <- MCCommandLines
  Option <- MCOption
  Number <- MCNumber
  Path <- MCPath
  Cwds <- MCCwds
  Existing = {"/srv/www", "/128", "/132", "spoilt", "/root/run"}
  Scraps = {0, 24929}
  Bytes = {47, 37, 52, 32, 0}
  MaxPath = 4
  AddressTexts <- MCAddressTexts
INVARIANTS
  TablesAgree
  MostSpecificWins
  PolicyFollowsCalls
  WaitResult
  ConfigChecked
  PathsSurvive
  AddressesFill
PROPERTY
  WaiterReturns
CHECK_DEADLOCK FALSE
