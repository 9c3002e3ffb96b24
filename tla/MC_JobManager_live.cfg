CONSTANTS
  j1 = j1  j2 = j2  j3 = j3
  scanA = scanA  scanB = scanB  gather = gather  logo = logo
  NoDef = NoDef
  Jobs <- MC_Jobs3
  Defs <- MC_Defs
  Keys <- MC_Defs
  Registrable <- MC_None
  ExKeys <- MC_ExKeys
  KeyOf <- MC_Key
  DependsOn <- MC_DependsOn
  ExclusiveKeys <- MC_Exclusive
  RetryDelays <- MC_RetryA
  Reporting <- MC_None
  Rerunnable <- MC_None
  Abortable <- MC_None
  MaxConcurrent = 2
  MaxHistory = 3
SPECIFICATION FairSpec
CHECK_DEADLOCK FALSE
INVARIANT ShutdownFinishesAll
PROPERTY JobsFinish
