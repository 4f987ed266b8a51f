CONSTANTS
  PdId = 2
  MaxChannels = 1
  Resources <- FewResources
  Requests <- OneChannelRequests
  MaxXrt = 2
  PageEntries = 2
  Slack = {0, 1}
  IntBits = 32
  KeepsPage = FALSE
  PrivilegesFirst = FALSE
SPECIFICATION FairSpec
INVARIANTS TypeOK Deprivileged OnlyDelegated
PROPERTIES LoadSettles
