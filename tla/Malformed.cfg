CONSTANTS
  PdId = 2
  MaxChannels = 2
  Resources <- MCResources
  Requests <- ChannelRequests
  MaxXrt = 2
  PageEntries = 2
  Slack = {0, 1}
  IntBits = 32
  KeepsPage = TRUE
  PrivilegesFirst = FALSE
SPECIFICATION Spec
INVARIANTS ContextTracksCaps ClientToldOfHeld
PROPERTIES KeptAcrossReload
