\* Starts and destructions in every order, and what becomes of them.
SPECIFICATION FairSpec
CONSTANTS
  MaxStart = 2
  Configs <- MCConfigs
  MoveAssigns = TRUE
INVARIANTS
  TypeOK
  ObjectIsCurrent
  StartsDoNotCollide
  ImplOwned
  LInv
PROPERTIES
  StartAnswered
  MonitorEnds
  SlotAsPromised
  ReportsAsPromised
