CONSTANTS
  Words = 44
  PageSize = 2
  Configs <- MCConfigs
  StackName = "MICROKIT_X86_STACK"
  IpcBuffer = 38
SPECIFICATION Spec
INVARIANTS TypeOK AcceptsExactlyValid WipeSparesTheRest LoaderErased
PROPERTIES HandoverEnds
CHECK_DEADLOCK FALSE
