---------------------------- MODULE LiveSources -----------------------------
(***************************************************************************)
(* The live sources of internal/stream/source: Pool.Acquire, which tries   *)
(* the routes of a channel in order of priority, shares one source per     *)
(* route and lets one caller at a time create it; and Broadcast, which     *)
(* starts its source with the first subscriber and stops it with the last. *)
(*                                                                         *)
(* A device reserved from the tuner manager and the Broadcast made of it   *)
(* share one number.  Each action is one critical section of Pool.mu or    *)
(* Broadcast.mu, or one call that may take long.  The tuner manager is     *)
(* what Pool sees of it: AcquireDevice reserves a free tuner of the type,  *)
(* waits for one or refuses; TunerManager has the details.                 *)
(***************************************************************************)
EXTENDS Integers, FiniteSets, Sequences

CONSTANTS
    Acquirers,    \* goroutines that acquire an input and subscribe to it
    Routes,     \* Routes[c]: the routes of the channel that c asks for
    Waits,      \* Waits[c]: the caller's wait argument
    Tuners,     \* physical tuners
    TypeOf,     \* TypeOf[t]: the tuner type of t
    MaxSources, \* bound: devices ever reserved
    PoolStops   \* whether Pool.Shutdown is called in this instance

NoOne == 0
Sources == 1 .. MaxSources
Shut == "Shutdown"
Procs == Acquirers \cup {Shut}
RouteSet == UNION {{Routes[c][i] : i \in DOMAIN Routes[c]} : c \in Acquirers}
RouteKeys == {r.key : r \in RouteSet}

ASSUME LiveConstants ==
    /\ Waits \in [Acquirers -> BOOLEAN]
    /\ \A c \in Acquirers : Routes[c] \in Seq(
           [key : {r.key : r \in RouteSet}, type : {r.type : r \in RouteSet},
            remote : BOOLEAN, disabled : BOOLEAN, priority : Int])
    /\ MaxSources \in Nat /\ PoolStops \in BOOLEAN /\ Shut \notin Acquirers

ASSUME AcquirersFinite == IsFiniteSet(Acquirers) /\ NoOne \notin Acquirers
ASSUME SomeRoute == RouteKeys # {}

VARIABLES
    entry,    \* Pool.routeSources
    making,   \* Pool.routeSourceCreates: the caller that creates the route's source
    made,     \* devices reserved so far
    routeOf,    \* the route a device was reserved for
    tunerOf,  \* the tuner a device holds, NoOne once it is released
    started,  \* Broadcast.started
    stopped,  \* Broadcast.stopped
    refs,     \* Broadcast.refs
    ended,    \* broadcasts whose source has closed its Done channel
    starting, \* broadcasts whose mu is held by startLocked
    where,    \* where a caller or Shutdown is
    held,     \* the source it deals with
    pos,      \* index of the route a caller tries
    busy,     \* selectRoute's unavailable
    canceled, \* callers whose context has ended
    left      \* broadcasts Shutdown has still to stop

liveVars == <<entry, making, made, routeOf, tunerOf, started, stopped, refs, ended,
              starting, where, held, pos, busy, canceled, left>>
poolVars == <<entry, making, made, routeOf>>
castVars == <<started, stopped, refs, starting>>
routeVars == <<pos, busy, canceled>>

LiveTypeOK ==
    /\ entry \in [RouteKeys -> Sources \cup {NoOne}]
    /\ making \in [RouteKeys -> Acquirers \cup {NoOne}]
    /\ made \in 0 .. MaxSources
    /\ routeOf \in [Sources -> RouteKeys]
    /\ tunerOf \in [Sources -> Tuners \cup {NoOne}]
    /\ started \subseteq Sources /\ stopped \subseteq Sources
    /\ ended \subseteq Sources /\ starting \subseteq Sources
    /\ refs \in [Sources -> 0 .. Cardinality(Acquirers)]
    /\ where \in [Procs -> {"idle", "try", "join", "acquire", "commit", "finish",
                            "retry", "have", "remote", "starting", "streaming", "stop",
                            "stopSource", "onStop", "stopping"}]
    /\ held \in [Procs -> Sources \cup {NoOne}]
    /\ pos \in [Acquirers -> Nat \ {0}]
    /\ busy \subseteq Acquirers /\ canceled \subseteq Acquirers
    /\ left \subseteq Sources

LiveInit ==
    /\ entry = [k \in RouteKeys |-> NoOne] /\ making = [k \in RouteKeys |-> NoOne]
    /\ made = 0
    /\ routeOf = [n \in Sources |-> CHOOSE k \in RouteKeys : TRUE]
    /\ tunerOf = [n \in Sources |-> NoOne]
    /\ started = {} /\ stopped = {} /\ ended = {} /\ starting = {}
    /\ refs = [n \in Sources |-> 0]
    /\ where = [p \in Procs |-> "idle"] /\ held = [p \in Procs |-> NoOne]
    /\ pos = [c \in Acquirers |-> 1]
    /\ busy = {} /\ canceled = {} /\ left = {}

\* Process p goes to a place, dealing with source n.
Move(p, place, n) ==
    /\ where' = [where EXCEPT ![p] = place]
    /\ held' = [held EXCEPT ![p] = n]

-----------------------------------------------------------------------------
(* Routes                                                                  *)

\* enabledRoutes: the routes that are not disabled, in a stable order of priority.
EnabledRoutes(routes) ==
    LET enabled == {i \in DOMAIN routes : ~routes[i].disabled}
        Before(i, j) == \/ routes[i].priority < routes[j].priority
                        \/ routes[i].priority = routes[j].priority /\ i < j
        Rank(j) == 1 + Cardinality({i \in enabled : Before(i, j)})
    IN  [n \in 1 .. Cardinality(enabled) |-> routes[CHOOSE j \in enabled : Rank(j) = n]]

Ordered == [c \in Acquirers |-> EnabledRoutes(Routes[c])]
Route(c) == Ordered[c][pos[c]]
HasRoute(c) == pos[c] <= Len(Ordered[c])
Trying(c, remote) == where[c] = "try" /\ HasRoute(c) /\ Route(c).remote = remote

FreeTuners(type) ==
    {t \in Tuners : TypeOf[t] = type /\ \A n \in Sources : tunerOf[n] # t}

\* tryRoute failed: the loop of selectRoute notes an ErrTunerUnavailable and goes on.
RouteFailed(c, unavailable) ==
    /\ Move(c, "try", NoOne)
    /\ pos' = [pos EXCEPT ![c] = @ + 1]
    /\ busy' = IF unavailable THEN busy \cup {c} ELSE busy
    /\ UNCHANGED canceled

-----------------------------------------------------------------------------
(* Pool.Acquire                                                            *)

\* Bound: a request begins only while every caller under way can reserve a device.
SourcesLeft ==
    made + Cardinality({c \in Acquirers :
                \/ where[c] \in {"try", "join", "acquire", "retry"}
                \/ where[c] = "finish" /\ held[c] = NoOne}) < MaxSources

\* Acquire finds the channel and enters selectRoute.
AcquireInput(c) ==
    /\ where[c] = "idle" /\ SourcesLeft
    /\ Move(c, "try", NoOne)
    /\ pos' = [pos EXCEPT ![c] = 1]
    /\ busy' = busy \ {c} /\ canceled' = canceled \ {c}
    /\ UNCHANGED <<poolVars, castVars, tunerOf, ended, left>>

\* tryRemoteRoute: the remote is asked whether it can serve the route.
TryRemoteRoute(c) ==
    /\ Trying(c, TRUE)
    /\ \/ Move(c, "remote", NoOne) /\ UNCHANGED routeVars
       \/ RouteFailed(c, TRUE)  \* no tuner free there
       \/ RouteFailed(c, FALSE) \* any other error
    /\ UNCHANGED <<poolVars, castVars, tunerOf, ended, left>>

\* beginRouteSourceCreate: share the route's source, join its creation, or create it.
BeginRouteSourceCreate(c) ==
    LET k == Route(c).key
    IN  /\ Trying(c, FALSE)
        /\ \/ entry[k] # NoOne /\ Move(c, "have", entry[k]) /\ UNCHANGED making
           \/ /\ entry[k] = NoOne /\ making[k] # NoOne
              /\ Move(c, "join", NoOne) /\ UNCHANGED making
           \/ /\ entry[k] = NoOne /\ making[k] = NoOne
              /\ making' = [making EXCEPT ![k] = c]
              /\ Move(c, "acquire", NoOne)
        /\ UNCHANGED <<entry, made, routeOf, castVars, routeVars, tunerOf, ended, left>>

\* The context of a caller that waits for another's creation ends.
JoinExpires(c) ==
    /\ where[c] = "join" /\ c \in canceled
    /\ RouteFailed(c, FALSE)
    /\ UNCHANGED <<poolVars, castVars, tunerOf, ended, left>>

\* AcquireDevice succeeds.
ReserveDevice(c) ==
    /\ where[c] = "acquire"
    /\ \E t \in FreeTuners(Route(c).type) :
           tunerOf' = [tunerOf EXCEPT ![made + 1] = t]
    /\ made' = made + 1
    /\ routeOf' = [routeOf EXCEPT ![made + 1] = Route(c).key]
    /\ Move(c, "commit", made + 1)
    /\ UNCHANGED <<entry, making, castVars, routeVars, ended, left>>

\* AcquireDevice fails: no tuner is free and the caller does not wait, or it waits
\* and its context ends.
ReserveFails(c) ==
    /\ where[c] = "acquire"
    /\ FreeTuners(Route(c).type) = {}
    /\ \/ ~Waits[c] /\ busy' = busy \cup {c}
       \/ Waits[c] /\ c \in canceled /\ UNCHANGED busy
    /\ Move(c, "finish", NoOne)
    /\ UNCHANGED <<poolVars, castVars, pos, canceled, tunerOf, ended, left>>

\* commitRouteSource: an entry that is already there wins.
CommitRouteSource(c) ==
    LET k == Route(c).key
    IN  /\ where[c] = "commit"
        /\ IF entry[k] # NoOne
           THEN Move(c, "finish", entry[k]) /\ UNCHANGED entry
           ELSE entry' = [entry EXCEPT ![k] = held[c]] /\ Move(c, "finish", held[c])
        /\ UNCHANGED <<making, made, routeOf, castVars, routeVars, tunerOf, ended, left>>

\* The callers that wait for the creation of route k: its channel is closed, and they
\* look again.
WakeJoiners(c, k, place) ==
    where' = [p \in Procs |->
        IF p = c THEN place
        ELSE IF where[p] = "join" /\ Route(p).key = k THEN "try" ELSE where[p]]

\* The deferred finishCreate; tryLocalRoute returns the source or its error.
FinishCreate(c) ==
    LET k == Route(c).key
        ok == held[c] # NoOne
    IN  /\ where[c] = "finish"
        /\ making' = [making EXCEPT ![k] = NoOne]
        /\ WakeJoiners(c, k, IF ok THEN "have" ELSE "try")
        /\ pos' = IF ok THEN pos ELSE [pos EXCEPT ![c] = @ + 1]
        /\ UNCHANGED <<entry, made, routeOf, held, busy, canceled, castVars, tunerOf,
                       ended, left>>

\* selectRoute has tried every route: it gives up, or waits and starts over.
RoutesExhausted(c) ==
    /\ where[c] = "try" /\ ~HasRoute(c)
    /\ IF Waits[c] /\ c \in busy THEN Move(c, "retry", NoOne) ELSE Move(c, "idle", NoOne)
    /\ UNCHANGED <<poolVars, castVars, routeVars, tunerOf, ended, left>>

\* waitForRouteRetry returns after its delay or because the context ended.
RouteRetry(c) ==
    /\ where[c] = "retry"
    /\ \/ Move(c, "try", NoOne)
       \/ c \in canceled /\ Move(c, "idle", NoOne)
    /\ pos' = [pos EXCEPT ![c] = 1] /\ busy' = busy \ {c}
    /\ UNCHANGED <<poolVars, castVars, canceled, tunerOf, ended, left>>

\* The context of a caller ends: its client has gone or its time is up.
ContextEnds(c) ==
    /\ where[c] # "idle" /\ c \notin canceled
    /\ canceled' = canceled \cup {c}
    /\ UNCHANGED <<poolVars, castVars, where, held, pos, busy, tunerOf, ended, left>>

\* The handle is released without a subscription (Release does nothing), or the
\* stream from the remote ends.
ReleaseHandle(c) ==
    /\ where[c] \in {"have", "remote"}
    /\ Move(c, "idle", NoOne)
    /\ UNCHANGED <<poolVars, castVars, routeVars, tunerOf, ended, left>>

-----------------------------------------------------------------------------
(* Broadcast: attach, wait, detach                                         *)

Unlocked(n) == n \notin starting

\* attach, up to the call of source.Start, which is made with the lock held.
Attach(c) ==
    LET n == held[c]
    IN  /\ where[c] = "have" /\ Unlocked(n)
        /\ IF n \in stopped
           THEN Move(c, "idle", NoOne) /\ UNCHANGED <<refs, starting>>
           ELSE /\ refs' = [refs EXCEPT ![n] = @ + 1]
                /\ IF n \in started
                   THEN Move(c, "streaming", n) /\ UNCHANGED starting
                   ELSE Move(c, "starting", n) /\ starting' = starting \cup {n}
        /\ UNCHANGED <<poolVars, started, stopped, routeVars, tunerOf, ended, left>>

\* source.Start succeeds.
StartOk(c) ==
    LET n == held[c]
    IN  /\ where[c] = "starting"
        /\ started' = started \cup {n} /\ starting' = starting \ {n}
        /\ Move(c, "streaming", n)
        /\ UNCHANGED <<poolVars, stopped, refs, routeVars, tunerOf, ended, left>>

\* source.Start fails, which releases the device; attach undoes itself and stops.
StartFails(c) ==
    LET n == held[c]
    IN  /\ where[c] = "starting"
        /\ refs' = [refs EXCEPT ![n] = @ - 1]
        /\ tunerOf' = [tunerOf EXCEPT ![n] = NoOne]
        /\ starting' = starting \ {n}
        /\ Move(c, "stop", n)
        /\ UNCHANGED <<poolVars, started, stopped, routeVars, ended, left>>

\* The device's process exits by itself, is killed, or is stopped by a grab, which
\* also releases its tuner; or it exits late after a Stop.
SourceEnds(n) ==
    /\ n \in started /\ n \notin ended
    /\ ended' = ended \cup {n}
    /\ \/ UNCHANGED tunerOf
       \/ tunerOf[n] # NoOne /\ tunerOf' = [tunerOf EXCEPT ![n] = NoOne]
    /\ UNCHANGED <<poolVars, castVars, where, held, routeVars, left>>

\* Mutant: the count is read before it is decremented.
DetachReadsOld(c) ==
    LET n == held[c]
    IN  /\ where[c] = "streaming" /\ (c \in canceled \/ n \in ended) /\ Unlocked(n)
        /\ refs' = [refs EXCEPT ![n] = @ - 1]
        /\ IF refs[n] = 0 THEN Move(c, "stop", n) ELSE Move(c, "idle", NoOne)
        /\ UNCHANGED <<poolVars, started, stopped, starting, routeVars, tunerOf, ended, left>>

\* wait returns because the context or the source ended, and detach runs; the last
\* subscriber stops the broadcast.
Detach(c) ==
    LET n == held[c]
        rest == IF refs[n] > 0 THEN refs[n] - 1 ELSE 0
    IN  /\ where[c] = "streaming" /\ (c \in canceled \/ n \in ended) /\ Unlocked(n)
        /\ refs' = [refs EXCEPT ![n] = rest]
        /\ IF rest = 0 THEN Move(c, "stop", n) ELSE Move(c, "idle", NoOne)
        /\ UNCHANGED <<poolVars, started, stopped, starting, routeVars, tunerOf, ended, left>>

-----------------------------------------------------------------------------
(* Broadcast.Stop and Pool.Shutdown                                        *)

\* Where a process goes when its Stop has returned.
StopReturns(p) == Move(p, IF p = Shut THEN "stopping" ELSE "idle", NoOne)

\* The locked part of Stop: only the first call goes on.
StopBegins(p) ==
    LET n == held[p]
    IN  /\ where[p] = "stop" /\ Unlocked(n)
        /\ IF n \in stopped
           THEN StopReturns(p) /\ UNCHANGED stopped
           ELSE stopped' = stopped \cup {n} /\ Move(p, "stopSource", n)
        /\ UNCHANGED <<poolVars, started, refs, starting, routeVars, tunerOf, ended, left>>

\* Mutant: the entry is removed before the source is stopped.
StopSourceUnlisted(p) ==
    LET n == held[p]
    IN  /\ where[p] = "stopSource"
        /\ entry' = [entry EXCEPT ![routeOf[n]] = NoOne]
        /\ Move(p, "onStop", n)
        /\ UNCHANGED <<making, made, routeOf, tunerOf, ended, castVars, routeVars, left>>

\* source.Stop: the device is stopped and its tuner released.  When its context ends
\* first the process ends later.
StopSource(p) ==
    LET n == held[p]
    IN  /\ where[p] = "stopSource"
        /\ tunerOf' = [tunerOf EXCEPT ![n] = NoOne]
        /\ ended' \in {ended, ended \cup ({n} \cap started)}
        /\ Move(p, "onStop", n)
        /\ UNCHANGED <<poolVars, castVars, routeVars, left>>

\* Mutant: onStop is forgotten.
OnStopMissing(p) ==
    /\ where[p] = "onStop"
    /\ StopReturns(p)
    /\ UNCHANGED <<poolVars, castVars, routeVars, tunerOf, ended, left>>

\* The onStop callback: removeRouteSource deletes the entry by its key.
BroadcastOnStop(p) ==
    /\ where[p] = "onStop"
    /\ entry' = [entry EXCEPT ![routeOf[held[p]]] = NoOne]
    /\ StopReturns(p)
    /\ UNCHANGED <<making, made, routeOf, castVars, routeVars, tunerOf, ended, left>>

\* Pool.Shutdown lists the broadcasts, then stops one after the other.
ShutdownPool ==
    /\ PoolStops /\ where[Shut] = "idle" /\ made > 0
    /\ left' = {entry[k] : k \in RouteKeys} \ {NoOne}
    /\ Move(Shut, "stopping", NoOne)
    /\ UNCHANGED <<poolVars, castVars, routeVars, tunerOf, ended>>

ShutdownNext ==
    /\ where[Shut] = "stopping"
    /\ \E n \in left : left' = left \ {n} /\ Move(Shut, "stop", n)
    /\ UNCHANGED <<poolVars, castVars, routeVars, tunerOf, ended>>

-----------------------------------------------------------------------------
CallerStep(c) ==
    \/ TryRemoteRoute(c) \/ BeginRouteSourceCreate(c) \/ JoinExpires(c)
    \/ ReserveDevice(c) \/ ReserveFails(c) \/ CommitRouteSource(c) \/ FinishCreate(c)
    \/ RoutesExhausted(c) \/ RouteRetry(c) \/ StartOk(c) \/ StartFails(c) \/ Detach(c)

StopStep(p) == StopBegins(p) \/ StopSource(p) \/ BroadcastOnStop(p)

LiveNext ==
    \/ \E c \in Acquirers : \/ CallerStep(c) \/ AcquireInput(c) \/ Attach(c)
                          \/ ReleaseHandle(c) \/ ContextEnds(c)
    \/ \E p \in Procs : StopStep(p)
    \/ \E n \in Sources : SourceEnds(n)
    \/ ShutdownPool \/ ShutdownNext

\* A process that has been told to stop ends, and every goroutine keeps running.  No
\* fairness is due to clients: they need not subscribe, leave or give up.
LiveFairness ==
    /\ \A c \in Acquirers : WF_liveVars(CallerStep(c))
    /\ \A p \in Procs : WF_liveVars(StopStep(p))
    /\ \A n \in Sources : WF_liveVars(n \in stopped /\ SourceEnds(n))
    /\ WF_liveVars(ShutdownNext)

LiveSpec == LiveInit /\ [][LiveNext]_liveVars /\ LiveFairness

-----------------------------------------------------------------------------
(* Properties                                                              *)

Attached(n) == {c \in Acquirers : held[c] = n /\ where[c] \in {"starting", "streaming"}}
StoppedBy(n) == {p \in Procs : held[p] = n /\ where[p] \in {"stop", "stopSource", "onStop"}}

\* The two maps of the pool are exact.  A tuner that is reserved can be reached and so be
\* stopped: its device is the entry of its route or is about to be committed by the
\* caller that creates it.  Hence a route never holds two tuners, and commitRouteSource
\* never finds a source that is already there, which would leave the new device without
\* an owner.  removeRouteSource, which deletes by key and not by source, deletes the
\* broadcast that stopped and no other, because a stopping broadcast stays listed to the
\* end of its Stop.  And whoever waits in beginRouteSourceCreate waits for a caller that
\* is really creating the route and will close the channel, whatever errors it meets.
PoolMapExact ==
    /\ \A n \in Sources : tunerOf[n] # NoOne =>
         \/ entry[routeOf[n]] = n
         \/ \E c \in Acquirers : where[c] = "commit" /\ held[c] = n /\ making[routeOf[n]] = c
    /\ \A p \in Procs : where[p] \in {"stopSource", "onStop"} =>
         entry[routeOf[held[p]]] = held[p]
    /\ \A k \in RouteKeys : making[k] # NoOne =>
         where[making[k]] \in {"acquire", "commit", "finish"} /\ Route(making[k]).key = k
    /\ \A c \in Acquirers : where[c] = "join" => making[Route(c).key] # NoOne

\* refs counts the subscribers, and a broadcast that was subscribed to and has none left
\* is stopped or about to be: no tuner runs for nobody.
NobodyWatchesNothing ==
    \A n \in Sources :
        /\ refs[n] = Cardinality(Attached(n))
        /\ n \in started /\ refs[n] = 0 => n \in stopped \/ StoppedBy(n) # {}
        /\ n \in stopped => entry[routeOf[n]] # n \/ StoppedBy(n) # {}

\* A broadcast that is stopping leaves the pool, so that the callers it refuses find a
\* new source when they come back, and its subscribers are told that it has ended.
StoppedSourceLeaves ==
    \A n \in Sources : (n \in stopped) ~> (entry[routeOf[n]] # n /\ Attached(n) = {})

=============================================================================
