\* A failed start or a cancelled build leaves g_node behind.
SPECIFICATION Spec
CONSTANTS
  MaxStart = 2
  Configs <- MCConfigs
  MoveAssigns = TRUE
PROPERTY ExistsMeansExists
