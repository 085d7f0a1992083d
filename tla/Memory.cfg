SPECIFICATION FairSpec
CONSTANTS
  Writer = {1, 2, 3}
  NoTarget = "none"
  RecordOf <- Three
  Distiller = {d1, d2}
  Brief = 1
  MaxFailures = 1
CONSTRAINT NotBoth
INVARIANTS LedgerIsExact DistilledOnce DistilledOrDropped
PROPERTIES RecordsSurvive RecordsReachAgents OverlapHeals ShellsVanish
