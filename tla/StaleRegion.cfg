CONSTANTS
  PdId = 2
  MaxChannels = 2
  Resources <- MCResources
  Requests <- RegionRequests
  MaxXrt = 2
  PageEntries = 2
  Slack = {0}
  IntBits = 32
  KeepsPage = TRUE
  PrivilegesFirst = TRUE
SPECIFICATION Spec
INVARIANT RevokeLeavesNoUsed
