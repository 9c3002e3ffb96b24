-------------------------- MODULE MC_DataBroadcast ---------------------------
(***************************************************************************)
(* Instances of DataBroadcast for TLC.  Of two modules, the first has two  *)
(* blocks, the second of them shorter, and the other has one.              *)
(***************************************************************************)
EXTENDS DataBroadcast

DII(download, version1, size1, version2, size2) ==
    [download |-> download, blockSize |-> 2,
     modules |-> <<[id |-> 1, version |-> version1, size |-> size1],
                   [id |-> 2, version |-> version2, size |-> size2]>>]

\* The second DII has a new version of the first module, in the same download.
FirstDII == DII(1, 1, 3, 1, 1)
NextDII == DII(1, 2, 3, 1, 1)

\* One with three modules more: the first two ask for nothing and for too much, and the
\* third makes the oldest module in assembly go.
CrowdedDII ==
    [NextDII EXCEPT !.modules = @ \o <<[id |-> 3, version |-> 1, size |-> 0],
                                       [id |-> 4, version |-> 1, size |-> 4],
                                       [id |-> 5, version |-> 1, size |-> 1]>>]

TwoDIIs == {FirstDII, NextDII}
CrowdedDIIs == {FirstDII, CrowdedDII}

\* The component is there, or gone.
AllPMTs == {[version |-> 1, carousel |-> TRUE], [version |-> 2, carousel |-> FALSE]}
=============================================================================
