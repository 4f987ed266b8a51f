SPECIFICATION Spec
CONSTANTS
  MaxChannels = 2
  Delegated <- MCDelegated
  Regions <- MCRegions
  Addresses <- MCAddresses
  Unmappable = {8}
INVARIANTS TypeOK SlotsAreTheirOwn UsedRegionsAreWhole CallsCanBeRepeated
PROPERTIES ImplementsCapService
