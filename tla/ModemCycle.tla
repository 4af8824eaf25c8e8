------------------------------ MODULE ModemCycle ------------------------------
(***************************************************************************)
(* One modem poll after the other (app/collectors/modem.py, collect) and   *)
(* what they leave in the event log: changes of the device, which are      *)
(* found against the stored device state, and changes of the health, which *)
(* the EventDetector finds against its memory, with or without hysteresis. *)
(* Any step may fail or be cut off by a crash; a restart, and a hot-swap   *)
(* while a run is under way, seed the detector from the latest snapshot.   *)
(***************************************************************************)
EXTENDS Integers

CONSTANTS
  Healths,      \* summary.health of an analysis
  Devices,      \* software version, addresses and boot, as one value
  None,
  Hystereses,   \* values of the setting health_hysteresis
  MaxFaults     \* bound: failures, crashes, restarts and hot-swaps in all

ASSUME CycleAssumption ==
  /\ None \notin Healths \cup Devices
  /\ Hystereses \subseteq Nat /\ Hystereses # {}
  /\ MaxFaults \in Nat

VARIABLES
  health, device,                     \* the modem's own
  pc, dev, cur, event,                \* the run: device and health read, event found
  stored, snap,                       \* device_state, health of the latest snapshot
  loggedDevice, loggedHealth,         \* where the event log ends, None while empty
  hysteresis, prev, confirmed, pending, count,   \* EventDetector
  streak,                             \* history: checks since seed() equal to the last, as
                                      \* far as the hysteresis counts
  gap,                                \* history: an event was lost since the last one
  faults

modemVars  == <<health, device>>
runVars    == <<pc, dev, cur, event>>
dbVars     == <<stored, snap, loggedDevice, loggedHealth>>
detectVars == <<prev, confirmed, pending, count>>
vars == <<modemVars, runVars, dbVars, hysteresis, detectVars, streak, gap, faults>>

Steps == {"idle", "logDevice", "storeDevice", "docsis", "snapshot", "check", "log"}

TypeOK ==
  /\ health \in Healths /\ device \in Devices
  /\ pc \in Steps
  /\ dev \in Devices \cup {None}
  /\ {cur, event, snap, loggedHealth, prev, confirmed, pending} \subseteq Healths \cup {None}
  /\ {stored, loggedDevice} \subseteq Devices \cup {None}
  /\ hysteresis \in Hystereses
  /\ count \in Nat /\ (hysteresis >= 2 => count < hysteresis)
  /\ streak \in 0..(hysteresis + 1) /\ gap \in BOOLEAN
  /\ faults \in 0..MaxFaults

\* An installation before its first poll.
Init ==
  /\ health \in Healths /\ device \in Devices
  /\ pc = "idle" /\ dev = None /\ cur = None /\ event = None
  /\ stored = None /\ snap = None /\ loggedDevice = None /\ loggedHealth = None
  /\ hysteresis \in Hystereses
  /\ prev = None /\ confirmed = None /\ pending = None /\ count = 0
  /\ streak = 0 /\ gap = FALSE /\ faults = 0

ModemChanges ==
  /\ health' \in Healths /\ device' \in Devices
  /\ modemVars' # modemVars
  /\ UNCHANGED <<runVars, dbVars, hysteresis, detectVars, streak, gap, faults>>

Go(from, to) == pc = from /\ pc' = to

---------------------------------------------------------------------------
(* The device.                                                             *)

\* Mutant of ReadDevice: the new state is stored before the event is.
ReadDeviceStoresFirst ==
  /\ Go("idle", IF stored \notin {None, device} THEN "logDevice" ELSE "storeDevice")
  /\ dev' = device
  /\ stored' = device
  /\ UNCHANGED <<modemVars, cur, event, snap, loggedDevice, loggedHealth, hysteresis,
                 detectVars, streak, gap, faults>>

\* get_device_info, and the comparison with the stored state.
ReadDevice ==
  /\ Go("idle", IF stored \notin {None, device} THEN "logDevice" ELSE "storeDevice")
  /\ dev' = device
  /\ UNCHANGED <<modemVars, cur, event, dbVars, hysteresis, detectVars, streak, gap, faults>>

\* save_events: a software update, a reboot or an address change.
LogDevice ==
  /\ Go("logDevice", "storeDevice")
  /\ loggedDevice' = dev
  /\ UNCHANGED <<modemVars, dev, cur, event, stored, snap, loggedHealth, hysteresis,
                 detectVars, streak, gap, faults>>

\* update_device_state.  The first device of all needs no event.
StoreDevice ==
  /\ Go("storeDevice", "docsis")
  /\ stored' = dev
  /\ loggedDevice' = IF stored = None THEN dev ELSE loggedDevice
  /\ dev' = None
  /\ UNCHANGED <<modemVars, cur, event, snap, loggedHealth, hysteresis,
                 detectVars, streak, gap, faults>>

---------------------------------------------------------------------------
(* The signal: analysis, snapshot and event detection.                     *)

ReadDocsis ==
  /\ Go("docsis", "snapshot")
  /\ cur' = health
  /\ UNCHANGED <<modemVars, dev, event, dbVars, hysteresis, detectVars, streak, gap, faults>>

SaveSnapshot ==
  /\ Go("snapshot", "check")
  /\ snap' = cur
  /\ UNCHANGED <<modemVars, dev, cur, event, stored, loggedDevice, loggedHealth,
                 hysteresis, detectVars, streak, gap, faults>>

\* The health the log should end with.
Reference == IF confirmed = None THEN prev ELSE confirmed
Known     == IF hysteresis < 2 THEN prev ELSE Reference

\* Mutant of Emit: reports the health it was.
EmitOld(c) == event' = Reference /\ confirmed' = c /\ pending' = None /\ count' = 0

\* _emit_health_event, and the new confirmed health.
Emit(c) == event' = c /\ confirmed' = c /\ pending' = None /\ count' = 0

\* Mutants of HealthWithHysteresis: a bounce back keeps the count; the count
\* must pass the threshold; every other health starts the count again.
KeepsCount ==
  LET n == IF cur = pending THEN count + 1 ELSE 1
  IN  IF cur = Reference
      THEN event' = None /\ confirmed' = Reference /\ UNCHANGED <<pending, count>>
      ELSE IF n >= hysteresis THEN Emit(cur)
      ELSE event' = None /\ confirmed' = Reference /\ pending' = cur /\ count' = n

NeedsOneMore ==
  LET n == IF cur = pending THEN count + 1 ELSE 1
  IN  IF cur = Reference
      THEN event' = None /\ confirmed' = Reference /\ pending' = None /\ count' = 0
      ELSE IF n > hysteresis THEN Emit(cur)
      ELSE event' = None /\ confirmed' = Reference /\ pending' = cur /\ count' = n

StartsAgain ==
  /\ event' = None /\ confirmed' = Reference
  /\ IF cur = Reference THEN pending' = None /\ count' = 0
                        ELSE pending' = cur /\ count' = 1

\* _check_health with hysteresis: as many polls in a row confirm a change.
HealthWithHysteresis ==
  LET n == IF cur = pending THEN count + 1 ELSE 1
  IN  \/ /\ cur = Reference
         /\ event' = None /\ confirmed' = Reference /\ pending' = None /\ count' = 0
      \/ /\ cur # Reference /\ n < hysteresis
         /\ event' = None /\ confirmed' = Reference /\ pending' = cur /\ count' = n
      \/ /\ cur # Reference /\ n >= hysteresis
         /\ Emit(cur)

\* ... and without: any change is reported.
HealthAtOnce ==
  /\ event' = IF cur = prev THEN None ELSE cur
  /\ UNCHANGED <<confirmed, pending, count>>

\* EventDetector.check; the first analysis of all starts the log.
Check ==
  /\ pc = "check"
  /\ prev' = cur
  /\ IF prev = None THEN event' = cur /\ UNCHANGED <<confirmed, pending, count>>
     ELSE IF hysteresis < 2 THEN HealthAtOnce
     ELSE HealthWithHysteresis
  /\ pc' = IF event' = None THEN "idle" ELSE "log"
  /\ streak' = IF cur # prev THEN 1
               ELSE IF streak = 0 \/ streak < hysteresis THEN streak + 1 ELSE streak
  /\ cur' = None
  /\ UNCHANGED <<modemVars, dev, dbVars, hysteresis, gap, faults>>

\* save_events_with_ids, then the notifier and Smart Capture.
LogEvents ==
  /\ Go("log", "idle")
  /\ loggedHealth' = event
  /\ gap' = FALSE
  /\ event' = None
  /\ UNCHANGED <<modemVars, dev, cur, stored, snap, loggedDevice, hysteresis, detectVars,
                 streak, faults>>

---------------------------------------------------------------------------
(* Failures, restarts and hot-swaps.                                       *)

Fault == faults < MaxFaults /\ faults' = faults + 1

\* A locked database, a modem that does not answer: collect() raises.
Fail ==
  /\ Fault
  /\ Go(pc, "idle") /\ pc # "idle"
  /\ dev' = None /\ cur' = None /\ event' = None
  /\ gap' = (gap \/ event # None)
  /\ UNCHANGED <<modemVars, dbVars, hysteresis, detectVars, streak>>

\* ModemCollector.__init__ seeds a detector that knows p and c so far.
Seed(p, c) ==
  /\ prev' = IF snap = None THEN p ELSE snap
  /\ confirmed' = IF snap = None THEN c ELSE IF hysteresis' >= 2 THEN snap ELSE c
  /\ pending' = None /\ count' = 0
  /\ streak' = 0

\* A restart of the process or of the polling loop, with settings read anew.
Restart ==
  /\ Fault
  /\ hysteresis' \in Hystereses
  /\ Seed(None, None)
  /\ pc' = "idle" /\ dev' = None /\ cur' = None /\ event' = None
  /\ gap' = (gap \/ event # None \/ snap # Known)
  /\ UNCHANGED <<modemVars, dbVars>>

\* The hot-swap builds a collector on the same detector; the run goes on.
HotSwap ==
  /\ Fault
  /\ snap # None
  /\ UNCHANGED hysteresis
  /\ Seed(prev, confirmed)
  /\ gap' = (gap \/ snap # Known)
  /\ UNCHANGED <<modemVars, runVars, dbVars>>

CollectStep ==
  \/ ReadDevice \/ LogDevice \/ StoreDevice
  \/ ReadDocsis \/ SaveSnapshot \/ Check \/ LogEvents

Next == ModemChanges \/ CollectStep \/ Fail \/ Restart \/ HotSwap

\* The scheduler polls again and again (PollScheduler), and a poll goes on.
Spec == Init /\ [][Next]_vars /\ WF_vars(CollectStep)

---------------------------------------------------------------------------
\* No health event without as many polls in a row, since the detector was last
\* seeded, as the hysteresis demands, and none that repeats the log's last one.
EventsAreConfirmed ==
  [][event' # None /\ event' # event /\ prev # None =>
       /\ event' = prev' /\ event' # Known
       /\ streak' >= hysteresis]_vars

\* As many equal polls in a row as the hysteresis demands are always enough:
\* no count is left behind by bounces, hot-swaps or failed runs.
SteadyHealthIsKnown == prev # None /\ streak > 0 /\ streak >= hysteresis => Known = prev

\* The event log ends with the health the detector holds for current, unless an
\* event was lost: in a failed write, a crash after the check, or a seed from a
\* snapshot that was not, or not yet, confirmed.
LogFollowsDetector == event = None /\ ~gap => loggedHealth = Known

\* So the log tells of a health that lasts (event_detector.py, _check_health; modem.py,
\* collect), or an event was lost.
LogHoldsSteadyHealth == SteadyHealthIsKnown /\ LogFollowsDetector

\* Device changes are logged at least once: the stored state never moves to a
\* device that is not the last one in the log, whatever fails in between.
NoDeviceChangeUnlogged == [][stored' # stored => loggedDevice' = stored']_vars

\* A health the modem keeps becomes the one the detector holds for current, and
\* so does a device in the stored state.
SteadyStateIsLearned ==
  /\ \A h \in Healths : <>[](health = h) => <>[](Known = h)
  /\ \A d \in Devices : <>[](device = d) => <>[](stored = d)
=============================================================================
