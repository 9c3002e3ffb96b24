------------------------- MODULE MC_SessionRegistry -------------------------
(* Instances of SessionRegistry for TLC.                                   *)
EXTENDS SessionRegistry

CONSTANTS a, b, ch1

\* All callers ask for the same channel.
OneChannel == [x \in Callers |-> ch1]
=============================================================================
