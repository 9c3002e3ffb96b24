--------------------------- MODULE MC_JobManager ---------------------------
(* Small instances of JobManager: two service scans that share the exclusive *)
(* topology key, the EPG gatherer that depends on the first of them, and, to *)
(* make the limit on concurrent jobs bite, a logo gatherer that may run      *)
(* beside any of them.                                                       *)
EXTENDS JobManager

CONSTANTS j1, j2, j3, scanA, scanB, gather, logo

MC_Jobs2 == {j1, j2}
MC_Jobs3 == {j1, j2, j3}
MC_Defs == {scanA, scanB, gather}
MC_Defs4 == MC_Defs \cup {logo}
MC_None == {}

\* The key of a definition is named like the definition.
MC_Key == [d \in Defs |-> d]
MC_DependsOn == [d \in Defs |-> IF d = gather THEN {scanA} ELSE {}]
MC_Exclusive == [d \in Defs |-> IF d \in {scanA, scanB} THEN {"topology"} ELSE {}]
MC_RetryAll == [d \in Defs |-> 1]
MC_NoDependency == [d \in Defs |-> {}]
MC_RetryA == [d \in Defs |-> IF d = scanA THEN 1 ELSE 0]
MC_Rerunnable == {scanA}
MC_Registrable == {gather}
MC_ExKeys == {"topology"}
=============================================================================
