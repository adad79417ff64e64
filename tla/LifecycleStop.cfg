\* The monitor outlives the node_impl it calls.
SPECIFICATION Spec
CONSTANTS
  MaxStart = 1
  Configs <- MCConfigs
  MoveAssigns = FALSE
INVARIANT GracefullyStopped
