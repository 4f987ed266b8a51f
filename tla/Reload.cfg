CONSTANTS
  PdId = 2
  MaxChannels = 2
  Resources <- MCResources
  Requests <- StableRequests
  MaxXrt = 6
  PageEntries = 6
  Slack = {0}
  IntBits = 1
  KeepsPage = TRUE
  PrivilegesFirst = TRUE
SPECIFICATION FairSpec
INVARIANTS GrantedExactly StopsForCause RequestedRegionsMapped MappingsTracked
PROPERTIES ImplementsLeastPrivilege GoodLoadRuns
