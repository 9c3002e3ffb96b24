---------------------------- MODULE ProgramGate ----------------------------
(***************************************************************************)
(* The gate that cuts one programme out of a service's stream              *)
(* (internal/stream/demux/program.go: newProgramGate, observe,             *)
(* closeIfStale, copyProgram, programTimeout).                             *)
(*                                                                         *)
(* The gate opens with the first EIT present section that names the        *)
(* programme.  One timer decides when it closes: a section that names the  *)
(* programme sets it to StaleAfter, one that names another sets it to      *)
(* EndGrace, and when it fires closeIfStale cancels the stream unless the  *)
(* programme was named less than StaleAfter ago, in which case it looks    *)
(* again after WatchInterval.  closeIfStale reads the time under the lock  *)
(* and acts after it has let it go.                                        *)
(*                                                                         *)
(* Time passes in ticks and timers are punctual; a timer that is due fires *)
(* before the next tick, but its goroutine may be slow for one tick.       *)
(***************************************************************************)
EXTENDS Integers

CONSTANTS
  EndGrace,         \* programEventEndGrace, in ticks
  WatchInterval,    \* programEventWatchInterval
  StaleAfter,       \* programEventStaleAfter
  Timeouts,         \* values of programTimeout: time to the programme's end
  Forever           \* bound: ages beyond this one are not told apart

ASSUME ProgramGateAssumption ==
  /\ EndGrace \in Nat \ {0} /\ WatchInterval \in Nat \ {0}
  /\ StaleAfter \in Nat /\ EndGrace < StaleAfter /\ WatchInterval < StaleAfter
  /\ Timeouts \subseteq Nat \ {0}
  /\ Forever \in Nat /\ Forever > StaleAfter + WatchInterval + 1

Idle == -1

VARIABLES
  gateReady,        \* programGate.ready
  sinceDetected,    \* time since lastDetectedAt, Forever when it is zero
  stopTimer,        \* ticks until the timer fires, Idle when it is not armed
  stopCheck,        \* closeIfStale: "no", "stale" or "fresh" once it has read
  checkAge,         \* how long ago closeIfStale read the time
  gateCanceled,     \* the stream's context is cancelled
  sinceOther,       \* history: time since a section last shortened the timer
  cutAt             \* history: sinceDetected when the read was judged stale

gateVars == <<gateReady, sinceDetected, stopTimer, stopCheck, checkAge,
              gateCanceled, sinceOther, cutAt>>

Older(t) == IF t = Forever THEN Forever ELSE t + 1

\* newProgramGate arms the timer for the end of the programme.
GateInit ==
  /\ gateReady = FALSE /\ sinceDetected = Forever
  /\ stopTimer \in Timeouts
  /\ stopCheck = "no" /\ checkAge = 0
  /\ gateCanceled = FALSE
  /\ sinceOther = Forever /\ cutAt = Forever

\* observe, a section that names the programme.
ObserveProgram ==
  /\ ~gateCanceled
  /\ gateReady' = TRUE
  /\ sinceDetected' = 0
  /\ stopTimer' = StaleAfter
  /\ UNCHANGED <<stopCheck, checkAge, gateCanceled, sinceOther, cutAt>>

\* observe, a section that names another one: ignored until the gate is open.
ObserveOther ==
  /\ ~gateCanceled /\ gateReady
  /\ stopTimer' = EndGrace
  /\ sinceOther' = 0
  /\ UNCHANGED <<gateReady, sinceDetected, stopCheck, checkAge, gateCanceled, cutAt>>

\* The timer fires: closeIfStale reads the time of the last detection.
TimerReads ==
  /\ stopTimer = 0 /\ stopCheck = "no" /\ ~gateCanceled
  /\ stopTimer' = Idle
  /\ stopCheck' = IF sinceDetected < StaleAfter THEN "fresh" ELSE "stale"
  /\ checkAge' = 0
  /\ cutAt' = sinceDetected
  /\ UNCHANGED <<gateReady, sinceDetected, gateCanceled, sinceOther>>

\* Mutant: a stream whose programme was named lately is not looked at again.
CloseWithoutWatch ==
  /\ stopCheck # "no"
  /\ gateCanceled' = (stopCheck = "stale")
  /\ stopCheck' = "no"
  /\ UNCHANGED <<gateReady, sinceDetected, stopTimer, checkAge, sinceOther, cutAt>>

\* It looks again later or cancels the stream, whatever was observed meanwhile.
CloseIfStale ==
  /\ stopCheck # "no"
  /\ \/ /\ stopCheck = "fresh"
        /\ stopTimer' = WatchInterval
        /\ UNCHANGED gateCanceled
     \/ /\ stopCheck = "stale"
        /\ gateCanceled' = TRUE
        /\ UNCHANGED stopTimer
  /\ stopCheck' = "no"
  /\ UNCHANGED <<gateReady, sinceDetected, checkAge, sinceOther, cutAt>>

\* External: time passes, but not past a timer that is due.
Tick ==
  /\ stopTimer # 0 /\ ~gateCanceled
  /\ stopCheck # "no" => checkAge = 0
  /\ stopTimer' = IF stopTimer = Idle THEN Idle ELSE stopTimer - 1
  /\ sinceDetected' = Older(sinceDetected)
  /\ sinceOther' = Older(sinceOther)
  /\ checkAge' = IF stopCheck = "no" THEN 0 ELSE 1
  /\ UNCHANGED <<gateReady, stopCheck, gateCanceled, cutAt>>

GateNext ==
  ObserveProgram \/ ObserveOther \/ TimerReads \/ CloseIfStale \/ Tick

GateSpec == GateInit /\ [][GateNext]_gateVars

-----------------------------------------------------------------------------
GateTypeOK ==
  /\ gateReady \in BOOLEAN /\ gateCanceled \in BOOLEAN
  /\ sinceDetected \in 0..Forever /\ sinceOther \in 0..Forever /\ cutAt \in 0..Forever
  /\ stopTimer \in Nat \cup {Idle}
  /\ stopCheck \in {"no", "fresh", "stale"} /\ checkAge \in 0..1

(* The stream of a programme ends: a gate that is open has been cancelled   *)
(* by the time the programme was last named StaleAfter + WatchInterval ago, *)
(* one tick more for a slow goroutine, unless sections that name another    *)
(* programme keep coming faster than EndGrace, since each of them puts the  *)
(* timer off.  And it does not end early: it is cancelled only on a look    *)
(* that found the programme unnamed for StaleAfter.  The timer is reset     *)
(* from two goroutines, one of which does not hold the lock                 *)
(* (program.go 76-100).                                                     *)
GateCloses ==
  /\ (gateReady /\ ~gateCanceled /\ sinceDetected > StaleAfter + WatchInterval + 1)
       => sinceOther <= EndGrace + 1
  /\ gateCanceled => cutAt >= StaleAfter
=============================================================================
