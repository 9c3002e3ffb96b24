-------------------------- MODULE SessionRegistry ---------------------------
(***************************************************************************)
(* The stream sessions of internal/stream: StreamManager.getOrCreate on    *)
(* top of sessionRegistry, which shares one session per channel, joins     *)
(* concurrent creations and is drained by Shutdown; and the life of a      *)
(* session, which is that of its raw demux.Demuxer: it starts with the     *)
(* first subscriber, is cancelled when the last one leaves, and calls the  *)
(* session's OnStop when it has closed.                                    *)
(*                                                                         *)
(* A creation and the session it yields share one number.  Local sessions  *)
(* only: a remote session has no OnStop and is alive until it is stopped.  *)
(***************************************************************************)
EXTENDS Integers, FiniteSets

CONSTANTS
    Keys,        \* channels, as sessionKeys
    Callers,     \* goroutines that ask for a session and stream from it
    Want,        \* Want[c]: the key a caller asks for
    MaxSessions, \* bound: creations ever begun
    MaxAttempts, \* maxAttempts of getOrCreate
    ShutsDown    \* whether the manager is shut down in this instance

Sessions == 1 .. MaxSessions
None == 0

ASSUME CallersWantKeys == Want \in [Callers -> Keys] /\ Keys # {}
ASSUME CallersFinite == IsFiniteSet(Callers)
ASSUME BoundsPositive ==
    MaxSessions \in Nat /\ MaxAttempts \in Nat \ {0} /\ ShutsDown \in BOOLEAN

VARIABLES
    sessions,     \* sessionRegistry.sessions
    creates,      \* sessionRegistry.creates
    shuttingDown, \* sessionRegistry.shuttingDown
    last,         \* creations begun
    outcome,      \* sessionCreate: pending until done is closed, then ok or error
    keyOf,        \* the key a creation was begun for
    demuxer,      \* life of the session's raw demuxer
    subs,         \* its subscribers
    halted,       \* Session.stopped
    pc,           \* where each caller is in getOrCreate or in a stream
    at,           \* the creation or session a caller deals with
    attempt,      \* getOrCreate's loop counter
    shut,         \* where Shutdown is
    todo,         \* creations it awaits, then sessions it has to stop
    cur,          \* the session it is stopping
    expired,      \* its context ended while it waited
    sourcesDown   \* sessions whose broadcast Pool.Shutdown stopped

registryVars == <<sessions, creates, shuttingDown, last, outcome, keyOf>>
sessionVars == <<demuxer, subs, halted>>
callerVars == <<pc, at, attempt>>
shutVars == <<shut, todo, cur, expired, sourcesDown>>
vars == <<registryVars, sessionVars, callerVars, shutVars>>

\* "new": never started; "running"; "canceled": stopped is set, the run goroutine
\* unwinds; "closing": done is closed, onEmpty is still to run; "gone".
DemuxerStates == {"new", "running", "canceled", "closing", "gone"}

TypeOK ==
    /\ sessions \in [Keys -> Sessions \cup {None}]
    /\ creates \in [Keys -> Sessions \cup {None}]
    /\ shuttingDown \in BOOLEAN
    /\ last \in 0 .. MaxSessions
    /\ outcome \in [Sessions -> {"pending", "ok", "error"}]
    /\ keyOf \in [Sessions -> Keys]
    /\ demuxer \in [Sessions -> DemuxerStates]
    /\ subs \in [Sessions -> SUBSET Callers]
    /\ halted \subseteq Sessions
    /\ pc \in [Callers -> {"idle", "retry", "found", "evict", "waiting", "creating",
                           "have", "streaming"}]
    /\ at \in [Callers -> Sessions \cup {None}]
    /\ attempt \in [Callers -> 0 .. MaxAttempts]
    /\ shut \in {"off", "await", "list", "stop", "stopWait", "stopInline",
                 "clear", "done"}
    /\ todo \subseteq Sessions
    /\ cur \in Sessions \cup {None}
    /\ expired \in BOOLEAN /\ sourcesDown \subseteq Sessions

Init ==
    /\ sessions = [k \in Keys |-> None]
    /\ creates = [k \in Keys |-> None]
    /\ shuttingDown = FALSE
    /\ last = 0
    /\ outcome = [n \in Sessions |-> "pending"]
    /\ keyOf = [n \in Sessions |-> CHOOSE k \in Keys : TRUE]
    /\ demuxer = [n \in Sessions |-> "new"]
    /\ subs = [n \in Sessions |-> {}]
    /\ halted = {}
    /\ pc = [c \in Callers |-> "idle"]
    /\ at = [c \in Callers |-> None]
    /\ attempt = [c \in Callers |-> 0]
    /\ shut = "off"
    /\ todo = {} /\ cur = None
    /\ expired = FALSE /\ sourcesDown = {}

\* Caller c goes to a place of getOrCreate or of its stream, dealing with n.
Goto(c, place, n) ==
    /\ pc' = [pc EXCEPT ![c] = place]
    /\ at' = [at EXCEPT ![c] = n]

-----------------------------------------------------------------------------
(* getOrCreate                                                             *)

\* Mutant: acquire does not look for a creation in flight.
JoinNever(k) == FALSE

\* A creation for k is in flight and can be joined.
JoinCreate(k) == creates[k] # None

\* The bound: a request is begun only while a number is left for each request
\* that may still have to create a session (a request creates at most one).
Room == last + Cardinality({b \in Callers : pc[b] \in {"retry", "found", "evict"}})
            < MaxSessions

\* sessionRegistry.acquire, at the head of each round of the loop.
Acquire(c) ==
    LET k == Want[c]
        n == last + 1
    IN  /\ pc[c] \in {"idle", "retry"}
        /\ attempt[c] < MaxAttempts
        /\ pc[c] = "idle" => Room
        /\ CASE sessions[k] # None ->
                  /\ Goto(c, "found", sessions[k])
                  /\ UNCHANGED <<creates, last, keyOf, attempt>>
             [] sessions[k] = None /\ shuttingDown ->
                  /\ Goto(c, "idle", None)
                  /\ attempt' = [attempt EXCEPT ![c] = 0]
                  /\ UNCHANGED <<creates, last, keyOf>>
             [] sessions[k] = None /\ ~shuttingDown /\ JoinCreate(k) ->
                  /\ Goto(c, "waiting", creates[k])
                  /\ UNCHANGED <<creates, last, keyOf, attempt>>
             [] sessions[k] = None /\ ~shuttingDown /\ ~JoinCreate(k) ->
                  /\ creates' = [creates EXCEPT ![k] = n]
                  /\ last' = n
                  /\ keyOf' = [keyOf EXCEPT ![n] = k]
                  /\ Goto(c, "creating", n)
                  /\ UNCHANGED attempt
        /\ UNCHANGED <<sessions, shuttingDown, outcome, sessionVars, shutVars>>

\* The loop is used up: ErrSessionAcquireFailed.
AcquireFailed(c) ==
    /\ pc[c] = "retry" /\ attempt[c] = MaxAttempts
    /\ Goto(c, "idle", None)
    /\ attempt' = [attempt EXCEPT ![c] = 0]
    /\ UNCHANGED <<registryVars, sessionVars, shutVars>>

\* Session.Alive: neither the session nor its raw demuxer was stopped.
Alive(n) == n \notin halted /\ demuxer[n] \in {"new", "running"}

\* The entry was found; whether it is alive is asked outside the registry lock.
CheckAlive(c) ==
    /\ pc[c] = "found"
    /\ Goto(c, IF Alive(at[c]) THEN "have" ELSE "evict", at[c])
    /\ UNCHANGED <<registryVars, sessionVars, attempt, shutVars>>

\* removeIfSame drops a dead session's entry and the loop goes round.
RemoveIfSame(c) ==
    LET k == Want[c]
    IN  /\ pc[c] = "evict"
        /\ sessions' = [sessions EXCEPT ![k] = IF @ = at[c] THEN None ELSE @]
        /\ Goto(c, "retry", None)
        /\ attempt' = [attempt EXCEPT ![c] = @ + 1]
        /\ UNCHANGED <<creates, shuttingDown, last, outcome, keyOf, sessionVars, shutVars>>

\* createSession acquired an input and built the session; completeCreate
\* registers it and releases the waiters.
CreateOk(c) ==
    /\ pc[c] = "creating"
    /\ sessions' = [sessions EXCEPT ![Want[c]] = at[c]]
    /\ creates' = [creates EXCEPT ![Want[c]] = None]
    /\ outcome' = [outcome EXCEPT ![at[c]] = "ok"]
    /\ Goto(c, "have", at[c])
    /\ UNCHANGED <<shuttingDown, last, keyOf, sessionVars, attempt, shutVars>>

\* Mutant: a failed creation leaves its waiters waiting.
CreateFailsSilently(c) ==
    /\ pc[c] = "creating"
    /\ creates' = [creates EXCEPT ![Want[c]] = None]
    /\ Goto(c, "idle", None)
    /\ attempt' = [attempt EXCEPT ![c] = 0]
    /\ UNCHANGED <<sessions, shuttingDown, last, outcome, keyOf, sessionVars, shutVars>>

\* createSession found no input; completeCreate hands the error to the waiters.
\* (getOrCreate would go round again on ErrBroadcastStopped, an error no
\* acquisition reports: only a subscription does.)
CreateFails(c) ==
    /\ pc[c] = "creating"
    /\ creates' = [creates EXCEPT ![Want[c]] = None]
    /\ outcome' = [outcome EXCEPT ![at[c]] = "error"]
    /\ Goto(c, "idle", None)
    /\ attempt' = [attempt EXCEPT ![c] = 0]
    /\ UNCHANGED <<sessions, shuttingDown, last, keyOf, sessionVars, shutVars>>

\* A waiter returns the creation's session, without asking whether it is still
\* alive, or its error.
JoinReturn(c) ==
    /\ pc[c] = "waiting"
    /\ outcome[at[c]] # "pending"
    /\ IF outcome[at[c]] = "ok"
       THEN Goto(c, "have", at[c]) /\ UNCHANGED attempt
       ELSE Goto(c, "idle", None) /\ attempt' = [attempt EXCEPT ![c] = 0]
    /\ UNCHANGED <<registryVars, sessionVars, shutVars>>

\* The request's context ends: while it joins a creation, or before the caller
\* subscribes to the session it was given.
Abandon(c) ==
    /\ pc[c] \in {"waiting", "have"}
    /\ Goto(c, "idle", None)
    /\ attempt' = [attempt EXCEPT ![c] = 0]
    /\ UNCHANGED <<registryVars, sessionVars, shutVars>>

-----------------------------------------------------------------------------
(* Streams and the demuxer's life                                          *)

\* streamDemuxer's and attachPacket's checks.
Accepts(n) == n \notin halted /\ demuxer[n] \in {"new", "running"}

\* A stream attaches its subscriber; the first one starts the demuxer.
Subscribe(c) ==
    LET n == at[c]
    IN  /\ pc[c] = "have"
        /\ attempt' = [attempt EXCEPT ![c] = 0]
        /\ IF Accepts(n)
           THEN /\ subs' = [subs EXCEPT ![n] = @ \cup {c}]
                /\ demuxer' = [demuxer EXCEPT ![n] = IF @ = "new" THEN "running" ELSE @]
                /\ Goto(c, "streaming", n)
           ELSE /\ Goto(c, "idle", None)
                /\ UNCHANGED <<subs, demuxer>>
        /\ UNCHANGED <<registryVars, halted, shutVars>>

\* Mutant: the last subscriber leaves the demuxer running.
UnsubscribeOnly(c) ==
    LET n == at[c]
    IN  /\ pc[c] = "streaming"
        /\ subs' = [subs EXCEPT ![n] = @ \ {c}]
        /\ Goto(c, "idle", None)
        /\ UNCHANGED <<demuxer, registryVars, halted, attempt, shutVars>>

\* finishPacket: the client left, its write failed or its queue overflowed;
\* cancelIfEmptyLocked stops the demuxer after the last one.
Unsubscribe(c) ==
    LET n == at[c]
    IN  /\ pc[c] = "streaming"
        /\ subs' = [subs EXCEPT ![n] = @ \ {c}]
        /\ demuxer' = [demuxer EXCEPT ![n] =
                          IF subs'[n] = {} /\ @ = "running" THEN "canceled" ELSE @]
        /\ Goto(c, "idle", None)
        /\ UNCHANGED <<registryVars, halted, attempt, shutVars>>

\* The run goroutine ends, because the demuxer was cancelled or because its
\* source did, and close finishes every subscriber.
DemuxerClose(n) ==
    /\ demuxer[n] \in {"running", "canceled"}
    /\ demuxer' = [demuxer EXCEPT ![n] = "closing"]
    /\ subs' = [subs EXCEPT ![n] = {}]
    /\ pc' = [c \in Callers |-> IF c \in subs[n] THEN "idle" ELSE pc[c]]
    /\ at' = [c \in Callers |-> IF c \in subs[n] THEN None ELSE at[c]]
    /\ UNCHANGED <<registryVars, halted, attempt, shutVars>>

\* close calls onEmpty after it closed done: OnStop removes whatever session
\* the registry holds under the key.
OnStop(n) ==
    /\ demuxer[n] = "closing"
    /\ demuxer' = [demuxer EXCEPT ![n] = "gone"]
    /\ sessions' = [sessions EXCEPT ![keyOf[n]] = None]
    /\ UNCHANGED <<creates, shuttingDown, last, outcome, keyOf, subs, halted,
                   callerVars, shutVars>>

-----------------------------------------------------------------------------
(* StreamManager.Shutdown                                                  *)

\* Mutant: beginShutdown only takes the snapshot.
SnapshotOnly ==
    /\ ShutsDown /\ shut = "off"
    /\ todo' = {creates[k] : k \in {j \in Keys : creates[j] # None}}
    /\ shut' = "await"
    /\ UNCHANGED <<registryVars, sessionVars, callerVars, cur, expired, sourcesDown>>

BeginShutdown ==
    /\ ShutsDown /\ shut = "off"
    /\ shuttingDown' = TRUE
    /\ todo' = {creates[k] : k \in {j \in Keys : creates[j] # None}}
    /\ shut' = "await"
    /\ UNCHANGED <<sessions, creates, last, outcome, keyOf, sessionVars, callerVars,
                   cur, expired, sourcesDown>>

\* waitSessionCreates returns when the creations have settled or the context
\* ended first.
AwaitCreates ==
    /\ shut = "await"
    /\ \A n \in todo : outcome[n] # "pending"
    /\ shut' = "list"
    /\ UNCHANGED <<registryVars, sessionVars, callerVars, todo, cur, expired, sourcesDown>>

AwaitExpires ==
    /\ shut = "await"
    /\ \E n \in todo : outcome[n] = "pending"
    /\ expired' = TRUE
    /\ shut' = "list"
    /\ UNCHANGED <<registryVars, sessionVars, callerVars, todo, cur, sourcesDown>>

\* activeSessions, after the creations have settled.
ListSessions ==
    /\ shut = "list"
    /\ todo' = {sessions[k] : k \in {j \in Keys : sessions[j] # None}}
    /\ shut' = "stop"
    /\ UNCHANGED <<registryVars, sessionVars, callerVars, cur, expired, sourcesDown>>

\* Mutant: Stop does not cancel a running demuxer.
StopDemuxerOnlyNew(state) == IF state = "new" THEN "closing" ELSE state

\* Demuxer.Stop: one that never started is closed on the spot, a running one is
\* cancelled.
StopDemuxer(state) ==
    CASE state = "new" -> "closing" [] state = "running" -> "canceled" [] OTHER -> state

\* Session.Stop, once per session; it awaits the demuxer's end.
StopSession(n) ==
    /\ shut = "stop"
    /\ n \in todo
    /\ todo' = todo \ {n}
    /\ IF n \in halted
       THEN UNCHANGED <<halted, demuxer, shut, cur>>
       ELSE /\ halted' = halted \cup {n}
            /\ cur' = n
            /\ shut' = IF demuxer[n] = "new" THEN "stopInline" ELSE "stopWait"
            /\ demuxer' = [demuxer EXCEPT ![n] = StopDemuxer(@)]
    /\ UNCHANGED <<registryVars, subs, callerVars, expired, sourcesDown>>

\* The close of a demuxer that never started, onEmpty included, runs in Stop;
\* of a running one Stop awaits the done channel only.
SessionStopped ==
    /\ \/ shut = "stopInline" /\ demuxer[cur] = "gone"
       \/ shut = "stopWait" /\ demuxer[cur] \in {"closing", "gone"}
    /\ shut' = "stop"
    /\ cur' = None
    /\ UNCHANGED <<registryVars, sessionVars, callerVars, todo, expired, sourcesDown>>

\* Creations that Shutdown overtook and did not await.
Late == {n \in 1 .. last : outcome[n] = "pending"}

\* Pool.Shutdown stops the broadcasts it finds in the pool: those that sessions
\* are fed from, and of a creation that is still in flight the one it has
\* acquired, if it has come that far.
ShutdownSources ==
    /\ shut = "stop" /\ todo = {}
    /\ \E acquired \in SUBSET Late :
           sourcesDown' = {n \in 1 .. last : outcome[n] = "ok"} \cup acquired
    /\ shut' = "clear"
    /\ UNCHANGED <<registryVars, sessionVars, callerVars, todo, cur, expired>>

ClearRegistry ==
    /\ shut = "clear"
    /\ sessions' = [k \in Keys |-> None]
    /\ shut' = "done"
    /\ UNCHANGED <<creates, shuttingDown, last, outcome, keyOf, sessionVars, callerVars,
                   todo, cur, expired, sourcesDown>>

-----------------------------------------------------------------------------

GetOrCreate(c) ==
    \/ Acquire(c) \/ AcquireFailed(c) \/ CheckAlive(c) \/ RemoveIfSame(c)
    \/ CreateOk(c) \/ CreateFails(c) \/ JoinReturn(c)

Shutdown ==
    \/ BeginShutdown \/ AwaitCreates \/ AwaitExpires \/ ListSessions
    \/ (\E n \in Sessions : StopSession(n))
    \/ SessionStopped \/ ShutdownSources \/ ClearRegistry

Next ==
    \/ \E c \in Callers : GetOrCreate(c) \/ Abandon(c) \/ Subscribe(c) \/ Unsubscribe(c)
    \/ \E n \in Sessions : DemuxerClose(n) \/ OnStop(n)
    \/ Shutdown

Spec == Init /\ [][Next]_vars

\* A goroutine inside getOrCreate goes on, and a creation comes to an end (its
\* acquisition does not wait for a tuner for ever); a cancelled demuxer, or one
\* whose own source was stopped, unwinds; Shutdown goes on.  Nobody has to ask,
\* subscribe or leave, and nothing ends a stream whose source goes on.
Fairness ==
    /\ \A c \in Callers : WF_vars(pc[c] # "idle" /\ GetOrCreate(c))
    /\ \A n \in Sessions :
        /\ WF_vars((demuxer[n] = "canceled" \/ n \in sourcesDown) /\ DemuxerClose(n))
        /\ WF_vars(OnStop(n))
    /\ WF_vars(shut # "off" /\ Shutdown)

FairSpec == Spec /\ Fairness

-----------------------------------------------------------------------------
(* Properties                                                              *)

\* Creation is single-flight: every creation that runs is the one registered
\* for its channel, so acquire's joiners and Shutdown's snapshot see all of
\* them, and no session is registered under the channel meanwhile.
SingleFlight ==
    \A c \in Callers : pc[c] = "creating" =>
        /\ creates[Want[c]] = at[c]
        /\ sessions[Want[c]] = None
        /\ \A b \in Callers : pc[b] = "creating" /\ Want[b] = Want[c] => b = c

\* A demuxer that runs has somebody to run for, one that was told to stop takes
\* no more, and a closed one holds no subscriber: a subscriber cannot slip in
\* between the last one's leaving and the end of the run goroutine.
SubscribersServed ==
    \A n \in Sessions :
        /\ demuxer[n] = "running" => subs[n] # {}
        /\ demuxer[n] \in {"new", "closing", "gone"} => subs[n] = {}
        /\ \A c \in subs[n] : pc[c] = "streaming" /\ at[c] = n

\* When Shutdown returns without having run out of time the registry is empty
\* and stays so: every creation it overtook was awaited and no later request
\* begins another.
ShutdownDrains ==
    shut = "done" /\ ~expired => \A k \in Keys : sessions[k] = None /\ creates[k] = None

\* Every request for a session is answered, whatever other requests, dying
\* sessions and Shutdown do at the same time: a joiner is never left waiting on
\* a creation that is over.
RequestsAnswered ==
    \A c \in Callers :
        pc[c] \in {"retry", "found", "evict", "waiting", "creating"}
            ~> pc[c] \in {"idle", "have", "streaming"}

\* Shutdown comes to an end, and when it does every stream ends, also those of
\* sessions that had already lost their place in the registry.  Only a creation
\* that Shutdown ran out of time to await, and whose broadcast was not yet in the
\* pool, yields a session that nobody stops.
ShutdownEndsStreams ==
    (shut # "off") ~>
        /\ shut = "done"
        /\ \A n \in Sessions : demuxer[n] \in {"running", "canceled"} =>
              expired /\ n \notin sourcesDown

\* removeIfSame's comment: a session that is dead never evicts "a newer one that
\* has since replaced it".  A live session leaves the registry only when
\* Shutdown clears it.
NewerSessionKept ==
    [][\A k \in Keys :
        sessions[k] # None /\ sessions'[k] # sessions[k] /\ shut # "clear"
            => ~Alive(sessions[k])]_vars
=============================================================================
