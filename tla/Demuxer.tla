------------------------------ MODULE Demuxer -------------------------------
(***************************************************************************)
(* The packet path of internal/stream/demux: one goroutine reads packets   *)
(* from the source and dispatches them, under the lock, to the bounded     *)
(* queues of its subscribers; a goroutine per subscriber writes its queue  *)
(* to the client; subscribePackets waits for whichever ends first.         *)
(*                                                                         *)
(* Section subscribers go through the same code with another buffer size   *)
(* (observeSections, writeSections, finishSection).  dispatch walks the    *)
(* list of subscribers by index while finishPacketLocked deletes from it,  *)
(* so the walk is modelled step by step.  Packets are numbered.            *)
(***************************************************************************)
EXTENDS Integers, Sequences, FiniteSets, SequencesExt

CONSTANTS
    Watchers,    \* callers of subscribePackets, each once
    Wanted,      \* Wanted[v]: the packets that pass v's service filter
    Unknown,     \* watchers whose service is not in the PAT
    BufferSize,  \* packetSubscriberBuffer
    MaxPackets   \* bound: packets of the source

Packets == 1 .. MaxPackets

ASSUME DemuxConstants ==
    /\ Wanted \in [Watchers -> SUBSET Packets] /\ Unknown \subseteq Watchers
    /\ BufferSize \in Nat \ {0} /\ MaxPackets \in Nat

VARIABLES
    run,            \* where the goroutine run is
    packet,         \* number of the packet read last
    step,           \* index of dispatch's walk over the subscribers
    patReady,       \* the PAT has been seen
    demuxStopped,   \* Demuxer.stopped
    sourceCanceled, \* the context of the source has been canceled
    order,          \* packetSubs
    buffer,         \* sub.queue
    finish,         \* how sub was finished: "no", or the error it was given
    writer,         \* where its goroutine writePackets is
    batch,          \* the packets it is writing
    sent,           \* what the client has received
    caller,         \* where subscribePackets is
    quit,           \* viewers whose context has ended
    since           \* history: the packet after which the viewer attached

demuxVars == <<run, packet, step, patReady, demuxStopped, sourceCanceled, order, buffer, finish,
               writer, batch, sent, caller, quit, since>>
runVars == <<run, packet, step, patReady>>
subVars == <<demuxStopped, sourceCanceled, order, finish>>
streamVars == <<buffer, writer, batch, sent>>
viewerVars == <<caller, quit, since>>

DemuxTypeOK ==
    /\ run \in {"off", "read", "walk", "close", "fail", "done"}
    /\ packet \in 0 .. MaxPackets /\ step \in Nat \ {0}
    /\ patReady \in BOOLEAN /\ demuxStopped \in BOOLEAN /\ sourceCanceled \in BOOLEAN
    /\ order \in Seq(Watchers)
    /\ buffer \in [Watchers -> Seq(Packets)]
    /\ \A v \in Watchers : Len(buffer[v]) <= BufferSize
    /\ finish \in [Watchers -> {"no", "clean", "error", "overflow", "missing", "context"}]
    /\ writer \in [Watchers -> {"off", "receive", "write", "failed", "broken", "done"}]
    /\ batch \in [Watchers -> Seq(Packets)] /\ sent \in [Watchers -> Seq(Packets)]
    /\ caller \in [Watchers -> {"idle", "wait", "flush", "back"}]
    /\ quit \subseteq Watchers /\ since \in [Watchers -> 0 .. MaxPackets]

DemuxInit ==
    /\ run = "off" /\ packet = 0 /\ step = 1 /\ patReady = FALSE
    /\ demuxStopped = FALSE /\ sourceCanceled = FALSE
    /\ order = << >> /\ finish = [v \in Watchers |-> "no"]
    /\ buffer = [v \in Watchers |-> << >>] /\ batch = [v \in Watchers |-> << >>]
    /\ writer = [v \in Watchers |-> "off"] /\ sent = [v \in Watchers |-> << >>]
    /\ caller = [v \in Watchers |-> "idle"] /\ quit = {}
    /\ since = [v \in Watchers |-> 0]

\* Demuxer.mu is free: dispatch holds it while it walks the list.
MuFree == run # "walk"

Subscribed(v) == v \in Range(order)

-----------------------------------------------------------------------------
(* Subscriptions                                                           *)

\* attachPacket and startLocked; a stopped demuxer refuses.
AttachPacket(v) ==
    /\ caller[v] = "idle" /\ MuFree
    /\ IF demuxStopped
       THEN /\ caller' = [caller EXCEPT ![v] = "back"]
            /\ finish' = [finish EXCEPT ![v] = "error"]
            /\ UNCHANGED <<run, order, writer, since>>
       ELSE /\ caller' = [caller EXCEPT ![v] = "wait"]
            /\ order' = Append(order, v)
            /\ run' = IF run = "off" THEN "read" ELSE run
            /\ writer' = [writer EXCEPT ![v] = "receive"]
            /\ since' = [since EXCEPT ![v] = packet]
            /\ UNCHANGED finish
    /\ UNCHANGED <<packet, step, patReady, demuxStopped, sourceCanceled, buffer, batch, sent, quit>>

\* finishPacketLocked, with cancelIfEmptyLocked: whoever finishes the last subscriber
\* stops the demuxer and cancels its source.  The id on the list is unique.
FinishPacketLocked(v, err) ==
    \/ ~Subscribed(v) /\ UNCHANGED subVars
    \/ \E i \in DOMAIN order :
           /\ order[i] = v
           /\ finish' = [finish EXCEPT ![v] = err]
           /\ order' = RemoveAt(order, i)
           /\ demuxStopped' = (demuxStopped \/ order' = << >>)
           /\ sourceCanceled' = (sourceCanceled \/ order' = << >>)

\* The client's request ends.
ViewerQuits(v) ==
    /\ caller[v] = "wait" /\ v \notin quit
    /\ quit' = quit \cup {v}
    /\ UNCHANGED <<runVars, subVars, streamVars, caller, since>>

\* subscribePackets sees its context end: it finishes the subscription and waits for
\* the goroutine that writes to the client.
CallerQuits(v) ==
    /\ caller[v] = "wait" /\ v \in quit /\ MuFree
    /\ FinishPacketLocked(v, "context")
    /\ caller' = [caller EXCEPT ![v] = "flush"]
    /\ UNCHANGED <<runVars, streamVars, quit, since>>

\* It sees the subscription finished, by itself or because the demuxer is done: after a
\* clean end it waits until the queue is written, after an error it returns at once.
CallerDone(v) ==
    /\ caller[v] = "wait" /\ finish[v] # "no"
    /\ caller' = [caller EXCEPT ![v] = IF finish[v] = "clean" THEN "flush" ELSE "back"]
    /\ UNCHANGED <<runVars, subVars, streamVars, quit, since>>

CallerReturns(v) ==
    /\ caller[v] = "flush" /\ writer[v] \in {"done", "broken"}
    /\ caller' = [caller EXCEPT ![v] = "back"]
    /\ UNCHANGED <<runVars, subVars, streamVars, quit, since>>

-----------------------------------------------------------------------------
(* run and dispatch                                                        *)

\* The next packet of the source; any packet may complete the PAT.
NextPacket ==
    /\ run = "read" /\ packet < MaxPackets
    /\ run' = "walk" /\ packet' = packet + 1 /\ step' = 1
    /\ patReady' \in {patReady, TRUE}
    /\ UNCHANGED <<subVars, streamVars, viewerVars>>

\* The subscriber that dispatch has come to.
AtHand == order[step]
AtSubscriber == run = "walk" /\ step <= Len(order)
ServiceMissing == patReady /\ AtHand \in Unknown

\* The packet is not the subscriber's, or there is room for it.
DispatchSends ==
    /\ AtSubscriber /\ ~ServiceMissing
    /\ IF packet \in Wanted[AtHand]
       THEN /\ Len(buffer[AtHand]) < BufferSize
            /\ buffer' = [buffer EXCEPT ![AtHand] = Append(@, packet)]
       ELSE UNCHANGED buffer
    /\ step' = step + 1
    /\ UNCHANGED <<run, packet, patReady, subVars, writer, batch, sent, viewerVars>>

\* Mutant: the index moves on although the list has closed the gap.
DispatchFinishesSkipping ==
    /\ AtSubscriber
    /\ \/ ServiceMissing /\ FinishPacketLocked(AtHand, "missing")
       \/ /\ ~ServiceMissing /\ packet \in Wanted[AtHand]
          /\ Len(buffer[AtHand]) = BufferSize
          /\ FinishPacketLocked(AtHand, "overflow")
    /\ step' = step + 1
    /\ UNCHANGED <<run, packet, patReady, streamVars, viewerVars>>

\* The service does not exist, or the subscriber has not kept up: it is finished, and
\* the index stays, because the list has moved up.
DispatchFinishes ==
    /\ AtSubscriber
    /\ \/ ServiceMissing /\ FinishPacketLocked(AtHand, "missing")
       \/ /\ ~ServiceMissing /\ packet \in Wanted[AtHand]
          /\ Len(buffer[AtHand]) = BufferSize
          /\ FinishPacketLocked(AtHand, "overflow")
    /\ UNCHANGED <<runVars, streamVars, viewerVars>>

DispatchEnds ==
    /\ run = "walk" /\ step > Len(order)
    /\ run' = "read"
    /\ UNCHANGED <<packet, step, patReady, subVars, streamVars, viewerVars>>

\* The source ends, or fails; after a cancellation no error is reported.
SourceStops ==
    /\ run = "read"
    /\ \/ run' = "close"
       \/ ~sourceCanceled /\ run' = "fail"
    /\ UNCHANGED <<packet, step, patReady, subVars, streamVars, viewerVars>>

\* close finishes every subscription that is left with the error of run.
CloseDemuxer ==
    /\ run \in {"close", "fail"}
    /\ run' = "done" /\ demuxStopped' = TRUE /\ order' = << >>
    /\ sourceCanceled' = (sourceCanceled \/ order # << >>)
    /\ finish' = [v \in Watchers |->
           IF ~Subscribed(v) THEN finish[v] ELSE IF run = "close" THEN "clean" ELSE "error"]
    /\ UNCHANGED <<packet, step, patReady, streamVars, viewerVars>>

\* Demuxer.Stop of a started demuxer.
StopDemux ==
    /\ run # "off" /\ MuFree /\ ~demuxStopped
    /\ demuxStopped' = TRUE /\ sourceCanceled' = TRUE
    /\ UNCHANGED <<runVars, order, finish, streamVars, viewerVars>>

-----------------------------------------------------------------------------
(* writePackets                                                            *)

\* The writer takes what is queued, up to a batch, or ends with a closed queue.
WriterReceives(v) ==
    /\ writer[v] = "receive"
    /\ \/ \E n \in 1 .. Len(buffer[v]) :
              /\ batch' = [batch EXCEPT ![v] = SubSeq(buffer[v], 1, n)]
              /\ buffer' = [buffer EXCEPT ![v] = SubSeq(@, n + 1, Len(@))]
              /\ writer' = [writer EXCEPT ![v] = "write"]
       \/ /\ buffer[v] = << >> /\ finish[v] # "no"
          /\ writer' = [writer EXCEPT ![v] = "done"]
          /\ UNCHANGED <<batch, buffer>>
    /\ UNCHANGED <<runVars, subVars, sent, viewerVars>>

\* The client takes the batch or fails.
WriterWrites(v) ==
    /\ writer[v] = "write"
    /\ batch' = [batch EXCEPT ![v] = << >>]
    /\ \/ /\ sent' = [sent EXCEPT ![v] = @ \o batch[v]]
          /\ writer' = [writer EXCEPT ![v] = "receive"]
       \/ writer' = [writer EXCEPT ![v] = "failed"] /\ UNCHANGED sent
    /\ UNCHANGED <<runVars, subVars, buffer, viewerVars>>

\* After an error the writer finishes its subscription and ends.
WriterFails(v) ==
    /\ writer[v] = "failed" /\ MuFree
    /\ FinishPacketLocked(v, "error")
    /\ writer' = [writer EXCEPT ![v] = "broken"]
    /\ UNCHANGED <<runVars, buffer, batch, sent, viewerVars>>

-----------------------------------------------------------------------------
DemuxNext ==
    \/ \E v \in Watchers :
           \/ AttachPacket(v) \/ ViewerQuits(v) \/ CallerQuits(v) \/ CallerDone(v)
           \/ CallerReturns(v) \/ WriterReceives(v) \/ WriterWrites(v) \/ WriterFails(v)
    \/ NextPacket \/ DispatchSends \/ DispatchFinishes \/ DispatchEnds
    \/ SourceStops \/ CloseDemuxer \/ StopDemux

DemuxSpec == DemuxInit /\ [][DemuxNext]_demuxVars

-----------------------------------------------------------------------------
(* Properties                                                              *)

\* All that was accepted for v, oldest first.
Stream(v) == sent[v] \o batch[v] \o buffer[v]

\* The packets v should have by now: those since it attached, without the one that
\* dispatch has not brought it yet.
Due(v) ==
    LET pending == run = "walk" /\ \E i \in DOMAIN order : i >= step /\ order[i] = v
    IN  Wanted[v] \cap (since[v] + 1 .. IF pending THEN packet - 1 ELSE packet)

\* A subscriber that is attached and whose client takes its packets has every packet of
\* its service, in order and once, whatever happens to the others: overflow, missing
\* services and departures in the middle of a dispatch never make it miss one.  And a
\* subscription that returns without an error because its source ended has given the
\* client all there was, unless the client itself failed: the queue is written out before
\* subscribePackets returns.
StreamIsWhole ==
    \A v \in Watchers :
        /\ \A i, j \in DOMAIN Stream(v) : i < j => Stream(v)[i] < Stream(v)[j]
        /\ Subscribed(v) /\ writer[v] # "failed" => Range(Stream(v)) = Due(v)
        /\ caller[v] = "back" /\ finish[v] = "clean" =>
             \/ Range(sent[v]) = Wanted[v] \cap (since[v] + 1 .. packet)
             \/ writer[v] = "broken"

=============================================================================
