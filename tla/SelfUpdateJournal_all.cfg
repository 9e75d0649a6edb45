SPECIFICATION Spec
SYMMETRY Symmetry
CONSTANTS
  None = None
  Base = Base
  Foreign = Foreign
  t1 = t1
  t2 = t2
  Txns <- MCTxns2
  Absent <- MCAbsent
  Configs <- MCConfigs
  N = 2
  Kinds = {"ordinary", "bootstrap"}
  MaxFaults = 1
  MaxCrashes = 1
  MaxEdits = 1
INVARIANTS
  CommandRunsAtMostOnce
  CurrentIsReadable
  ReceiptTellsFiles
  PanelRunsInstalledFiles
  RecordFollowsJournal
PROPERTIES
  EditIsKept
  StopFreezesTheUpdate
  SettledIsFinal
CONSTRAINT Explored
CHECK_DEADLOCK FALSE
