SPECIFICATION Spec
CONSTANTS
  MaxChannels = 62
  Resources <- MCResources
  Requests <- MCRequests
  Bases = {0, 2, 3}
  Slack = {0, 1}
  PageWords = 9
  WordSize = 1024
  MaxXrt = 3
INVARIANTS TypeOK ReadsInPage RequestArrives
