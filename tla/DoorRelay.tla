----------------------------- MODULE DoorRelay -----------------------------
(***************************************************************************)
(* The relay drivers of the gateway agent (api/cmd/gateway-agent/relay.go, *)
(* matter_relay.go): Unlock energises the relay WITHOUT the driver's lock, *)
(* then, under it, stops the previous re-lock timer and starts a new one.  *)
(* time.Timer.Stop does not stop a callback that already runs.  Reader     *)
(* sessions call Unlock concurrently.  Time is counted in ticks left.      *)
(***************************************************************************)
EXTENDS Integers, FiniteSets

CONSTANTS
    Sessions,       \* concurrent reader sessions
    Duration,       \* a.unlockDuration
    RelocksOnClose, \* GPIORelay.Close drives the pin off; RS485 and Matter do not
    MaxUnlocks      \* bound: calls of Unlock

ASSUME DoorRelayAssumption ==
    /\ IsFiniteSet(Sessions) /\ Duration \in Nat \ {0}
    /\ RelocksOnClose \in BOOLEAN /\ MaxUnlocks \in Nat

VARIABLES
    relay,     \* "on" = door unlocked
    timer,     \* ticks until relockTimer fires, or Stopped
    callbacks, \* re-lock callbacks started and not finished
    session,   \* per session: "idle", or "arm" between its two steps
    phase,     \* "running", "closing" (timer stopped), "closed"
    unlocks,   \* history: calls of Unlock so far
    failed     \* history: the last unlock or a re-lock since reported an error

vars == <<relay, timer, callbacks, session, phase, unlocks, failed>>

Stopped == -1

Init ==
    /\ relay = "off" /\ timer = Stopped /\ callbacks = 0
    /\ session = [s \in Sessions |-> "idle"]
    /\ phase = "running" /\ unlocks = 0 /\ failed = FALSE

\* Unlock, first step: drive the relay on.  On an error Unlock returns and
\* nothing has changed.
Energise(s) ==
    /\ session[s] = "idle" /\ unlocks < MaxUnlocks
    /\ unlocks' = unlocks + 1
    /\ relay' = "on" /\ failed' = FALSE
    /\ session' = [session EXCEPT ![s] = "arm"]
    /\ UNCHANGED <<timer, callbacks, phase>>

\* The lock obeyed but Unlock got an error (chip-tool timed out, its output did
\* not parse): it returns without starting the re-lock timer.
EnergiseUnconfirmed(s) ==
    /\ session[s] = "idle" /\ unlocks < MaxUnlocks
    /\ unlocks' = unlocks + 1
    /\ relay' = "on" /\ failed' = TRUE
    /\ UNCHANGED <<timer, callbacks, session, phase>>

\* Mutant: no new timer is started when the old one was still running.
Arm_OnlyStops(s) ==
    /\ session[s] = "arm"
    /\ timer' = IF timer = Stopped THEN Duration ELSE Stopped
    /\ session' = [session EXCEPT ![s] = "idle"]
    /\ UNCHANGED <<relay, callbacks, phase, unlocks, failed>>

\* Unlock, second step, under the driver's mutex.
Arm(s) ==
    /\ session[s] = "arm"
    /\ timer' = Duration
    /\ session' = [session EXCEPT ![s] = "idle"]
    /\ UNCHANGED <<relay, callbacks, phase, unlocks, failed>>

\* The runtime starts the callback in a goroutine of its own.
Fire ==
    /\ timer = 0
    /\ timer' = Stopped /\ callbacks' = callbacks + 1
    /\ UNCHANGED <<relay, session, phase, unlocks, failed>>

\* The callback's command succeeds, or fails and is only logged.
Relock ==
    /\ callbacks > 0
    /\ callbacks' = callbacks - 1 /\ relay' = "off"
    /\ UNCHANGED <<timer, session, phase, unlocks, failed>>

\* Mutant: a failed re-lock is not reported.
RelockFails_Silent ==
    /\ callbacks > 0 /\ relay = "on"
    /\ callbacks' = callbacks - 1
    /\ UNCHANGED <<relay, timer, session, phase, unlocks, failed>>

RelockFails ==
    /\ callbacks > 0 /\ relay = "on"
    /\ callbacks' = callbacks - 1 /\ failed' = TRUE
    /\ UNCHANGED <<relay, timer, session, phase, unlocks>>

Tick ==
    /\ timer > 0 /\ timer' = timer - 1
    /\ UNCHANGED <<relay, callbacks, session, phase, unlocks, failed>>

\* Close stops the timer under the mutex, then (GPIO) drives the pin off and
\* ignores an error.
CloseStop ==
    /\ phase = "running"
    /\ phase' = "closing" /\ timer' = Stopped
    /\ UNCHANGED <<relay, callbacks, session, unlocks, failed>>

CloseWrite ==
    /\ phase = "closing"
    /\ phase' = "closed"
    /\ relay' \in IF RelocksOnClose THEN {"off", relay} ELSE {relay}
    /\ UNCHANGED <<timer, callbacks, session, unlocks, failed>>

Next == \/ \E s \in Sessions : Energise(s) \/ EnergiseUnconfirmed(s) \/ Arm(s)
        \/ Fire \/ Relock \/ RelockFails \/ Tick \/ CloseStop \/ CloseWrite

Spec == Init /\ [][Next]_vars

\* Sessions finish Unlock, time passes, the runtime runs timers and callbacks.
Fairness ==
    /\ \A s \in Sessions : WF_vars(Arm(s))
    /\ WF_vars(Tick) /\ WF_vars(Fire) /\ WF_vars(Relock \/ RelockFails)

FairSpec == Spec /\ Fairness

-----------------------------------------------------------------------------
\* Type invariant.
TypeOK ==
    /\ relay \in {"on", "off"} /\ timer \in Stopped .. Duration
    /\ callbacks \in Nat /\ session \in [Sessions -> {"idle", "arm"}]
    /\ phase \in {"running", "closing", "closed"}
    /\ unlocks \in 0 .. MaxUnlocks /\ failed \in BOOLEAN

\* An unlocked door always has its re-lock ahead of it: a timer, a running
\* callback, or a session about to start the timer, however the steps of
\* concurrent Unlocks, old timers and callbacks interleave; the only exceptions
\* are a command that reported an error and shutdown (Unlock, the AfterFunc callback).
RelockPending ==
    (relay = "on" /\ phase = "running" /\ ~failed)
      => timer # Stopped \/ callbacks > 0 \/ \E s \in Sessions : session[s] = "arm"

\* So an unlocked door is locked again, unless a command reports an error or the
\* driver is closed meanwhile.
DoorRelocks == relay = "on" ~> (relay = "off" \/ failed \/ phase # "running")
=============================================================================
