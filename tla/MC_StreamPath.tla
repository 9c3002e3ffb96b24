---------------------------- MODULE MC_StreamPath ----------------------------
(***************************************************************************)
(* The sessions and the two components they stand between, for TLC: the    *)
(* live source that feeds a session, and the workers that handle the       *)
(* sections it finds.  Each is explored on its own: component says which   *)
(* one a behaviour is about, and the others stay in their initial states,  *)
(* where none of their fair actions is enabled.                            *)
(***************************************************************************)
EXTENDS SessionRegistry, LiveSources, SectionUpdates

CONSTANTS a, b, ch1, tuner1, o1, o2

VARIABLE component

-----------------------------------------------------------------------------
(* SessionRegistry: both callers ask for the same channel.                  *)

OneChannel == [x \in Callers |-> ch1]

-----------------------------------------------------------------------------
(* LiveSources: one tuner for two routes; one caller waits for it, and may  *)
(* also use a peer or a route that is disabled.                             *)

Local(key, priority) ==
    [key |-> key, type |-> "GR", remote |-> FALSE, disabled |-> FALSE, priority |-> priority]
Peer == [Local("r", 1) EXCEPT !.remote = TRUE]
Disabled == [Local("x", 0) EXCEPT !.disabled = TRUE]

MCRoutes == [c \in Acquirers |->
                IF c = a THEN <<Local("k", 0), Local("l", 1)>>
                ELSE <<Peer, Disabled, Local("k", 0)>>]
MCWaits == [c \in Acquirers |-> c = b]
MCType == [t \in Tuners |-> "GR"]

-----------------------------------------------------------------------------
pathVars == <<vars, liveVars, sectionVars, component>>

PathInit ==
    /\ component \in {"sessions", "sources", "sections"}
    /\ Init /\ LiveInit /\ SectionInit

SessionsMove == component = "sessions" /\ Next /\ UNCHANGED <<liveVars, sectionVars>>
SourcesMove == component = "sources" /\ LiveNext /\ UNCHANGED <<vars, sectionVars>>
SectionsMove == component = "sections" /\ SectionNext /\ UNCHANGED <<vars, liveVars>>

PathNext ==
    /\ SessionsMove \/ SourcesMove \/ SectionsMove
    /\ UNCHANGED component

PathSpec ==
    PathInit /\ [][PathNext]_pathVars /\ Fairness /\ LiveFairness /\ SectionFairness
=============================================================================
