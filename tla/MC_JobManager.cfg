CONSTANTS
  j1 = j1  j2 = j2  j3 = j3
  scanA = scanA  scanB = scanB  gather = gather  logo = logo
  NoDef = NoDef
  Jobs <- MC_Jobs3
  Defs <- MC_Defs4
  Keys <- MC_Defs4
  Registrable <- MC_Registrable
  ExKeys <- MC_ExKeys
  KeyOf <- MC_Key
  DependsOn <- MC_DependsOn
  ExclusiveKeys <- MC_Exclusive
  RetryDelays <- MC_RetryA
  Reporting <- MC_Registrable
  Rerunnable <- MC_Rerunnable
  Abortable <- MC_Jobs3
  MaxConcurrent = 2
  MaxHistory = 2
SPECIFICATION Spec
CHECK_DEADLOCK FALSE
INVARIANTS TypeOK SlotAccounting ExclusiveKeysHeld OneJobPerKey QueueHoldsQueued HistorySound
PROPERTIES DependenciesFirst FinishedIsFinal
