---------------------------- MODULE MC_TunerPath ----------------------------
(***************************************************************************)
(* The tuner manager and the fan-out of a tuner's bytes, for TLC.  Each is *)
(* explored on its own: component says which one a behaviour is about, and *)
(* the other stays in its initial state.                                   *)
(***************************************************************************)
EXTENDS MC_TunerManager, MultiWriter

CONSTANTS w1, w2, s1, s2

VARIABLE component

\* Two writers, one of which writes twice.
WritesOf == w1 :> 2 @@ w2 :> 1

tunerPathVars == <<vars, hubVars, component>>

TunerPathInit == component \in {"tuners", "hub"} /\ Init /\ HubInit

TunersMove == component = "tuners" /\ Next /\ UNCHANGED hubVars
HubMoves == component = "hub" /\ HubNext /\ UNCHANGED vars

TunerPathNext == (TunersMove \/ HubMoves) /\ UNCHANGED component

TunerPathSpec == TunerPathInit /\ [][TunerPathNext]_tunerPathVars
=============================================================================
