-------------------------- MODULE MC_TunerManager ---------------------------
(* Instances of TunerManager for TLC.                                      *)
EXTENDS TunerManager, TLC

CONSTANTS c1, c2, admin, viewer

\* One tuner whose command is started again when it delivers nothing.
RetryTuner ==
    0 :> [disabled |-> FALSE, usable |-> TRUE, groups |-> {"GR"}, retryMax |-> 1]

PlainTuner ==
    0 :> [disabled |-> FALSE, usable |-> TRUE, groups |-> {"GR"}, retryMax |-> 0]

\* A background job that waits for a tuner, and a viewer's request that does
\* not wait and may grab the job's tuner.
JobAndViewer ==
    c1 :> [type |-> "GR", priority |-> -1, wait |-> TRUE]
    @@ c2 :> [type |-> "GR", priority |-> 0, wait |-> FALSE]

\* The first process of a background job runs as another user.
FirstProcess == {<<1, 1>>}

\* Or that of the second start attempt of the first device does: its first attempt can
\* be unwound, its second cannot.
SecondProcess == {<<1, 2>>}

\* A viewer of the job's stream protects its tuner from the other request.
ViewerPriority == [v \in Viewers |-> 0]
=============================================================================
