--------------------------- MODULE EPGCollection ---------------------------
(***************************************************************************)
(* Gathering the programme guide of one network (internal/epg/gather.go,   *)
(* collect.go, collect_workers.go, remote_sync.go).                        *)
(*                                                                         *)
(* gatherNetwork tries the candidate channels one after the other for the  *)
(* services that are still missing.  A collection runs four goroutines:    *)
(* the collector puts the sections of the stream into a bounded channel,   *)
(* the loop observes them into the snapshot, and two workers write to the  *)
(* store meanwhile, one the present/following programs, one the services   *)
(* that changed since the last tick.  The loop ends when the collector     *)
(* does, at the deadline, or when the schedule is complete and stable; it  *)
(* then drains the channel, stops both workers, and merges what it has     *)
(* observed.  A candidate whose session is another Mahiron is asked for    *)
(* its stored programs instead.                                            *)
(*                                                                         *)
(* The schedule of a service is the number of its newest section: every    *)
(* section airs a newer one.  When a snapshot is complete is the subject   *)
(* of EITSnapshot; here a collection may stop as soon as every expected    *)
(* service has been observed.                                              *)
(***************************************************************************)
EXTENDS Integers, Sequences, FiniteSets

CONSTANTS
  Services,           \* the services of the network
  CandidateCount,     \* channels to try, in the order of gatherNetwork
  RemoteCandidates,   \* those whose session lists stored programs
  SectionBuffer,      \* eitsCollectionBuffer
  MaxAired            \* bound: sections of a service

ASSUME EPGCollectionAssumption ==
  /\ Services # {} /\ CandidateCount \in Nat \ {0}
  /\ RemoteCandidates \subseteq 1..CandidateCount
  /\ SectionBuffer \in Nat \ {0} /\ MaxAired \in Nat

RemoteCopy == -1      \* programs copied from a peer

VARIABLES
  candidate,          \* index of the candidate being tried
  remaining,          \* gatherNetwork.remaining
  gatherFailed,       \* gatherNetwork.result # nil
  gatherResult,       \* "running", "ok", "failed"
  gatherCtx,          \* the job's context is cancelled
  phase,              \* where the collection is
  collectCtx,         \* collectCtx is done
  collector,          \* the collector: "none", "running", "ended", "reported"
  sectionCh,          \* sections between the collector and the loop
  aired,              \* newest section of every service
  snapshotOf,         \* the snapshot: newest section observed, 0 when none
  dirty,              \* dirtyServices
  partial,            \* partialEITSFlusher: requests, and the one being stored
  pfWork,             \* eitPFUpserter: pending upserts, and whether one failed
  persisting,         \* services persistObservedSnapshots has still to merge
  collectErr,         \* the error of the collection
  guide,              \* the program store: newest section merged per service
  kept,               \* history: what the last merge of a service stored
  unmerged,           \* history: services whose last merge failed
  accepted            \* history: newest section accepted before the loop ended

gatherVars == <<candidate, remaining, gatherFailed, gatherResult, gatherCtx>>
workerVars == <<partial, pfWork>>
mergeVars == <<persisting, collectErr, kept, unmerged>>
epgVars == <<candidate, remaining, gatherFailed, gatherResult, gatherCtx, phase,
             collectCtx, collector, sectionCh, aired, snapshotOf, dirty, partial,
             pfWork, persisting, collectErr, guide, kept, unmerged, accepted>>

None == [s \in Services |-> 0]
NoPartial == [requests |-> <<>>, storing |-> <<>>]
NoPF == [pending |-> 0, failed |-> FALSE]

EPGInit ==
  /\ candidate = 1 /\ remaining = Services
  /\ gatherFailed = FALSE /\ gatherResult = "running" /\ gatherCtx = FALSE
  /\ phase = "candidate" /\ collectCtx = FALSE /\ collector = "none"
  /\ sectionCh = <<>> /\ aired = None /\ snapshotOf = None /\ dirty = {}
  /\ partial = NoPartial /\ pfWork = NoPF
  /\ persisting = {} /\ collectErr = FALSE
  /\ guide = None /\ kept = None /\ unmerged = {} /\ accepted = None

-----------------------------------------------------------------------------
(* gatherNetwork.                                                          *)

\* What the loop over the candidates does once one has been tried.
CandidateDone(err, left) ==
  /\ remaining' = left
  /\ phase' = "candidate"
  /\ collector' = "none"
  /\ IF ~err /\ left = {}
     THEN gatherResult' = "ok" /\ UNCHANGED <<candidate, gatherFailed>>
     ELSE IF gatherCtx
     THEN gatherResult' = "failed" /\ UNCHANGED <<candidate, gatherFailed>>
     ELSE /\ candidate' = candidate + 1
          /\ gatherFailed' = (gatherFailed \/ err)
          /\ UNCHANGED gatherResult
  /\ UNCHANGED gatherCtx

\* The loop ends: nothing is left to gather, or no candidate is left.
GatherEnds ==
  /\ phase = "candidate" /\ gatherResult = "running"
  /\ remaining = {} \/ candidate > CandidateCount
  /\ gatherResult' = IF candidate > CandidateCount THEN "failed" ELSE "ok"
  /\ UNCHANGED <<candidate, remaining, gatherFailed, gatherCtx, phase, collectCtx,
                 collector, sectionCh, aired, snapshotOf, dirty, workerVars,
                 mergeVars, guide, accepted>>

AtCandidate ==
  /\ phase = "candidate" /\ gatherResult = "running"
  /\ remaining # {} /\ candidate <= CandidateCount

\* No session is to be had within the retrieval time.
SessionFails ==
  /\ AtCandidate
  /\ CandidateDone(TRUE, remaining)
  /\ UNCHANGED <<collectCtx, sectionCh, aired, snapshotOf, dirty, workerVars,
                 mergeVars, guide, accepted>>

\* CollectServiceSnapshots starts: a new channel, snapshot and workers.
StartCollection ==
  /\ AtCandidate /\ candidate \notin RemoteCandidates
  /\ phase' = "loop" /\ collector' = "running"
  /\ collectCtx' = gatherCtx
  /\ sectionCh' = <<>> /\ snapshotOf' = None /\ dirty' = {} /\ accepted' = None
  /\ partial' = NoPartial /\ pfWork' = NoPF /\ collectErr' = FALSE
  /\ UNCHANGED <<gatherVars, aired, persisting, kept, unmerged, guide>>

StartSync ==
  /\ AtCandidate /\ candidate \in RemoteCandidates
  /\ phase' = "sync" /\ persisting' = remaining /\ collectErr' = FALSE
  /\ UNCHANGED <<gatherVars, collectCtx, collector, sectionCh, aired, snapshotOf,
                 dirty, workerVars, kept, unmerged, guide, accepted>>

\* syncStoredServicePrograms, one service: listed and replaced, or not; recording
\* the success of a replacement may still fail.
SyncService ==
  /\ phase = "sync"
  /\ \E s \in persisting, replaced \in BOOLEAN, recorded \in BOOLEAN :
       /\ gatherCtx => ~replaced
       /\ recorded => replaced
       /\ persisting' = persisting \ {s}
       /\ guide' = IF replaced THEN [guide EXCEPT ![s] = RemoteCopy] ELSE guide
       /\ kept' = IF replaced THEN [kept EXCEPT ![s] = RemoteCopy] ELSE kept
       /\ unmerged' = IF replaced THEN unmerged \ {s} ELSE unmerged \cup {s}
       /\ collectErr' = (collectErr \/ ~recorded)
  /\ UNCHANGED <<gatherVars, phase, collectCtx, collector, sectionCh, aired,
                 snapshotOf, dirty, workerVars, accepted>>

\* Every expected service counts as observed, unless one failed.
SyncEnds ==
  /\ phase = "sync" /\ persisting = {}
  /\ CandidateDone(collectErr, IF collectErr THEN remaining ELSE {})
  /\ UNCHANGED <<collectCtx, sectionCh, aired, snapshotOf, dirty, workerVars,
                 mergeVars, guide, accepted>>

-----------------------------------------------------------------------------
(* The collector.                                                          *)

\* A schedule section arrives and there is room for it.
CollectorSends ==
  /\ collector = "running" /\ Len(sectionCh) < SectionBuffer
  /\ \E s \in Services :
       /\ aired[s] < MaxAired
       /\ aired' = [aired EXCEPT ![s] = @ + 1]
       /\ sectionCh' = Append(sectionCh, [kind |-> "eits", service |-> s, n |-> aired'[s]])
       /\ accepted' = IF phase = "loop" THEN [accepted EXCEPT ![s] = aired'[s]] ELSE accepted
  /\ UNCHANGED <<gatherVars, phase, collectCtx, collector, snapshotOf, dirty,
                 workerVars, mergeVars, guide>>

\* So does a present/following section.
CollectorSendsPF ==
  /\ collector = "running" /\ Len(sectionCh) < SectionBuffer
  /\ \E s \in Services :
       sectionCh' = Append(sectionCh, [kind |-> "pf", service |-> s, n |-> 0])
  /\ UNCHANGED <<gatherVars, phase, collectCtx, collector, aired, snapshotOf, dirty,
                 workerVars, mergeVars, guide, accepted>>

\* The stream ends, or the collector notices that its context has.
CollectorEnds ==
  /\ collector = "running"
  /\ collector' = "ended"
  /\ UNCHANGED <<gatherVars, phase, collectCtx, sectionCh, aired, snapshotOf, dirty,
                 workerVars, mergeVars, guide, accepted>>

-----------------------------------------------------------------------------
(* The loop.                                                               *)

\* handleSection.
HandleSection ==
  LET section == Head(sectionCh)
      s == section.service IN
  /\ sectionCh # <<>>
  /\ sectionCh' = Tail(sectionCh)
  /\ IF section.kind = "pf"
     THEN /\ pfWork' = IF s \in remaining /\ ~pfWork.failed /\ pfWork.pending = 0
                       THEN [pfWork EXCEPT !.pending = 1] ELSE pfWork
          /\ UNCHANGED <<snapshotOf, dirty>>
     ELSE /\ snapshotOf' = [snapshotOf EXCEPT ![s] = section.n]
          /\ dirty' = dirty \cup {s}
          /\ UNCHANGED pfWork

\* The schedule may be complete and stable: the loop cancels the collection.
MayStop == \A s \in remaining : snapshotOf'[s] # 0

LoopSection ==
  /\ phase = "loop"
  /\ HandleSection
  /\ collectCtx' \in {collectCtx} \cup (IF MayStop THEN {TRUE} ELSE {})
  /\ UNCHANGED <<gatherVars, phase, collector, aired, partial, mergeVars, guide, accepted>>

\* partialEITSFlusher.flush: the dirty services stay dirty while a flush waits.
LoopTick ==
  /\ phase = "loop"
  /\ IF dirty = {} \/ Len(partial.requests) = 1 THEN UNCHANGED <<partial, dirty>>
     ELSE /\ partial' = [partial EXCEPT !.requests =
                           Append(@, [s \in dirty |-> snapshotOf[s]])]
          /\ dirty' = {}
  /\ UNCHANGED snapshotOf
  /\ collectCtx' \in {collectCtx} \cup (IF MayStop THEN {TRUE} ELSE {})
  /\ UNCHANGED <<gatherVars, phase, collector, sectionCh, aired, pfWork, mergeVars,
                 guide, accepted>>

\* The loop sees that the collector has ended, or that the context is done.
LoopEnds ==
  /\ phase = "loop"
  /\ \/ collector = "ended" /\ collector' = "reported"
     \/ collectCtx /\ UNCHANGED collector
  /\ collectCtx' = TRUE
  /\ phase' = "drain"
  /\ UNCHANGED <<gatherVars, sectionCh, aired, snapshotOf, dirty, workerVars,
                 mergeVars, guide, accepted>>

DrainSection ==
  /\ phase = "drain"
  /\ HandleSection
  /\ UNCHANGED <<gatherVars, phase, collectCtx, collector, aired, partial, mergeVars,
                 guide, accepted>>

DrainEnds ==
  /\ phase = "drain" /\ sectionCh = <<>>
  /\ phase' = "stop"
  /\ UNCHANGED <<gatherVars, collectCtx, collector, sectionCh, aired, snapshotOf,
                 dirty, workerVars, mergeVars, guide, accepted>>

\* Mutant: the merge starts while a partial flush is still being stored.
WorkersStoppedEarly ==
  /\ phase = "stop" /\ pfWork.pending = 0
  /\ phase' = "await"
  /\ UNCHANGED <<gatherVars, collectCtx, collector, sectionCh, aired, snapshotOf,
                 dirty, workerVars, mergeVars, guide, accepted>>

\* stop and wait of both workers: they finish what was requested.
WorkersStopped ==
  /\ phase = "stop" /\ pfWork.pending = 0 /\ partial = NoPartial
  /\ phase' = "await"
  /\ UNCHANGED <<gatherVars, collectCtx, collector, sectionCh, aired, snapshotOf,
                 dirty, workerVars, mergeVars, guide, accepted>>

\* Up to two seconds for the collector, none if the job was cancelled; then
\* persistObservedSnapshots finds out what there is to merge.
AwaitCollector ==
  /\ phase = "await"
  /\ collector' = IF collector = "ended" THEN "reported" ELSE collector
  /\ persisting' = {s \in Services : snapshotOf[s] # 0}
  /\ collectErr' = ({s \in remaining : snapshotOf[s] # 0} = {})
  /\ phase' = "persist"
  /\ UNCHANGED <<gatherVars, collectCtx, sectionCh, aired, snapshotOf, dirty,
                 workerVars, kept, unmerged, guide, accepted>>

\* One service is merged; the merge, or recording its success, may fail.
Persist ==
  /\ phase = "persist"
  /\ \E s \in persisting, merged \in BOOLEAN, recorded \in BOOLEAN :
       /\ gatherCtx => ~merged
       /\ recorded => merged
       /\ persisting' = persisting \ {s}
       /\ guide' = IF merged THEN [guide EXCEPT ![s] = snapshotOf[s]] ELSE guide
       /\ kept' = IF merged THEN [kept EXCEPT ![s] = snapshotOf[s]] ELSE kept
       /\ unmerged' = IF merged THEN unmerged \ {s} ELSE unmerged \cup {s}
       /\ collectErr' = (collectErr \/ ~recorded)
  /\ UNCHANGED <<gatherVars, phase, collectCtx, collector, sectionCh, aired,
                 snapshotOf, dirty, workerVars, accepted>>

\* The services observed are no longer missing, merged or not.
CollectionEnds ==
  /\ phase = "persist" /\ persisting = {}
  /\ CandidateDone(collectErr, {s \in remaining : snapshotOf[s] = 0})
  /\ UNCHANGED <<collectCtx, sectionCh, aired, snapshotOf, dirty, workerVars,
                 mergeVars, guide, accepted>>

-----------------------------------------------------------------------------
(* The workers; their context is the collection's, so an upsert fails once  *)
(* that is done, if it was not under way already.                           *)

PartialTakes ==
  /\ partial.requests # <<>> /\ partial.storing = <<>>
  /\ partial' = [requests |-> Tail(partial.requests), storing |-> <<Head(partial.requests)>>]
  /\ UNCHANGED <<gatherVars, phase, collectCtx, collector, sectionCh, aired, snapshotOf,
                 dirty, pfWork, mergeVars, guide, accepted>>

PartialStores ==
  /\ partial.storing # <<>>
  /\ LET changed == Head(partial.storing) IN
       \/ guide' = [s \in Services |-> IF s \in DOMAIN changed THEN changed[s] ELSE guide[s]]
       \/ UNCHANGED guide
  /\ partial' = [partial EXCEPT !.storing = <<>>]
  /\ UNCHANGED <<gatherVars, phase, collectCtx, collector, sectionCh, aired, snapshotOf,
                 dirty, pfWork, mergeVars, accepted>>

PFStores ==
  /\ pfWork.pending = 1
  /\ \E failed \in BOOLEAN :
       pfWork' = [pending |-> 0, failed |-> pfWork.failed \/ failed]
  /\ UNCHANGED <<gatherVars, phase, collectCtx, collector, sectionCh, aired, snapshotOf,
                 dirty, partial, mergeVars, guide, accepted>>

-----------------------------------------------------------------------------
\* External: the deadline of the collection; the job is cancelled.
DeadlinePasses ==
  /\ phase = "loop" /\ ~collectCtx
  /\ collectCtx' = TRUE
  /\ UNCHANGED <<gatherVars, phase, collector, sectionCh, aired, snapshotOf, dirty,
                 workerVars, mergeVars, guide, accepted>>

JobCanceled ==
  /\ ~gatherCtx /\ gatherResult = "running"
  /\ gatherCtx' = TRUE /\ collectCtx' = TRUE
  /\ UNCHANGED <<candidate, remaining, gatherFailed, gatherResult, phase, collector,
                 sectionCh, aired, snapshotOf, dirty, workerVars, mergeVars, guide, accepted>>

EPGNext ==
  \/ GatherEnds \/ SessionFails \/ StartCollection \/ StartSync \/ SyncService \/ SyncEnds
  \/ CollectorSends \/ CollectorSendsPF \/ CollectorEnds
  \/ LoopSection \/ LoopTick \/ LoopEnds \/ DrainSection \/ DrainEnds
  \/ WorkersStopped \/ AwaitCollector \/ Persist \/ CollectionEnds
  \/ PartialTakes \/ PartialStores \/ PFStores
  \/ DeadlinePasses \/ JobCanceled

EPGSpec == EPGInit /\ [][EPGNext]_epgVars

-----------------------------------------------------------------------------
EPGTypeOK ==
  /\ candidate \in 1..CandidateCount + 1
  /\ remaining \subseteq Services /\ persisting \subseteq Services
  /\ dirty \subseteq Services /\ unmerged \subseteq Services
  /\ gatherResult \in {"running", "ok", "failed"}
  /\ phase \in {"candidate", "sync", "loop", "drain", "stop", "await", "persist"}
  /\ collector \in {"none", "running", "ended", "reported"}
  /\ Len(sectionCh) <= SectionBuffer
  /\ \A s \in Services : snapshotOf[s] \in 0..MaxAired /\ guide[s] \in RemoteCopy..MaxAired
  /\ Len(partial.requests) <= 1 /\ Len(partial.storing) <= 1
  /\ pfWork.pending \in 0..1

(* A section that the collector handed over before the loop ended is in the *)
(* snapshot once the channel has been drained, whichever way the loop ended *)
(* (collect.go 229-262); a service that was merged keeps what was merged: a *)
(* partial flush of an older snapshot never comes after it (263-266); and a *)
(* gathering that reports success has stored a schedule for every service   *)
(* of the network, but for one whose last merge failed (gather.go 47-115).  *)
CollectedIsStored ==
  /\ phase \in {"stop", "await", "persist"} =>
       \A s \in Services : accepted[s] # 0 => snapshotOf[s] >= accepted[s]
  /\ phase \in {"candidate", "persist"} =>
       \A s \in Services \ unmerged :
         s \notin persisting /\ kept[s] # 0 => guide[s] = kept[s]
  /\ gatherResult = "ok" => \A s \in Services \ unmerged : kept[s] # 0
=============================================================================
