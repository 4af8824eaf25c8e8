--------------------------- MODULE ModemCycleProofs ---------------------------
(***************************************************************************)
(* Proofs about module ModemCycle: the event log and the detector agree    *)
(* for any healths, devices, hysteresis and number of faults.              *)
(***************************************************************************)
EXTENDS ModemCycle, SignalEvents, SignalHealth, TLAPS

\* What a run has in hand at each step.
RunInv ==
  /\ pc \in {"snapshot", "check"} => cur # None
  /\ pc = "check" => snap = cur
  /\ event # None => pc = "log"
  /\ pc = "log" => /\ event \in Healths
                   /\ event = snap /\ event = prev /\ event = Known

\* A stored device that is about to change has been logged.
DeviceInv ==
  /\ pc \in {"logDevice", "storeDevice"} => dev # None
  /\ pc = "storeDevice" => stored \in {None, dev} \/ loggedDevice = dev

\* The count of a pending health is the number of its polls in a row, and
\* without a pending health the detector holds the latest for current.
CountInv ==
  /\ prev = None => confirmed = None
  /\ hysteresis >= 2 =>
       /\ pending # None => pending = prev /\ count <= streak
       /\ prev # None => \/ Known = prev
                         \/ pending = prev /\ count >= streak /\ streak > 0

IInv == TypeOK /\ RunInv /\ DeviceInv /\ CountInv

LEMMA InitIInv == Init => IInv
<1> SUFFICES ASSUME Init PROVE IInv
  OBVIOUS
<1>1. hysteresis \in Nat /\ hysteresis \in Hystereses
  BY CycleAssumption DEF Init
<1>2. TypeOK
  <2>1. streak \in 0..(hysteresis + 1) /\ faults \in 0..MaxFaults /\ count \in Nat
        /\ (hysteresis >= 2 => count < hysteresis)
    BY <1>1, CycleAssumption DEF Init
  <2>2. QED
    BY <1>1, <2>1 DEF Init, TypeOK, Steps
<1>3. QED
  BY <1>1, <1>2 DEF Init, IInv, RunInv, DeviceInv, CountInv

---------------------------------------------------------------------------
\* The detector's step.
LEMMA HealthStep ==
  ASSUME IInv, Check, prev # None, hysteresis >= 2
  PROVE  /\ prev' = cur /\ cur \in Healths /\ streak' \in 1..(hysteresis + 1)
         /\ confirmed' \in Healths /\ pending' \in Healths \cup {None}
         /\ count' \in Nat /\ count' < hysteresis
         /\ pending' # None => pending' = cur /\ count' <= streak'
         /\ confirmed' = cur \/ (pending' = cur /\ count' >= streak')
         /\ event' = None => confirmed' = Reference
         /\ event' # None => /\ event' = cur /\ confirmed' = cur /\ cur # Reference
                             /\ streak' >= hysteresis
<1> USE CycleAssumption
<1>1. cur \in Healths /\ prev \in Healths /\ Reference \in Healths
  BY DEF IInv, TypeOK, RunInv, Check, Reference
<1>2. hysteresis \in Nat /\ count \in Nat /\ streak \in Nat /\ streak <= hysteresis + 1
      /\ pending \in Healths \cup {None}
  BY DEF IInv, TypeOK
<1>3. pending # None => pending = prev /\ count <= streak
  BY DEF IInv, CountInv
<1>4. Reference = prev \/ (pending = prev /\ count >= streak /\ streak > 0)
  BY <1>2 DEF IInv, CountInv, Known
<1>5. /\ prev' = cur /\ HealthWithHysteresis
      /\ streak' = IF cur # prev THEN 1
                   ELSE IF streak = 0 \/ streak < hysteresis THEN streak + 1 ELSE streak
  BY <1>2 DEF Check
<1> DEFINE n == IF cur = pending THEN count + 1 ELSE 1
<1>6. n \in Nat /\ streak' \in Nat /\ streak' >= 1 /\ streak' <= hysteresis + 1
  BY <1>2, <1>5
<1>7. CASE cur = Reference
  <2>1. event' = None /\ confirmed' = Reference /\ pending' = None /\ count' = 0
    BY <1>5, <1>7 DEF HealthWithHysteresis, Emit
  <2>2. QED
    BY <2>1, <1>1, <1>2, <1>5, <1>6, <1>7 DEF HealthWithHysteresis, Emit
<1>8. CASE cur # Reference
  <2>1. n >= streak'
    BY <1>1, <1>2, <1>3, <1>4, <1>5, <1>8
  <2>2. n <= streak' \/ streak' >= hysteresis
    <3>1. CASE cur = pending
      BY <1>1, <1>2, <1>3, <1>5, <3>1
    <3>2. CASE cur # pending
      BY <1>6, <3>2
    <3>3. QED
      BY <3>1, <3>2
  <2>3. CASE n < hysteresis
    <3>1. event' = None /\ confirmed' = Reference /\ pending' = cur /\ count' = n
      BY <1>2, <1>5, <1>6, <1>8, <2>3 DEF HealthWithHysteresis, Emit
    <3>2. QED
      BY <1>1, <1>2, <1>5, <1>6, <2>1, <2>2, <2>3, <3>1
  <2>4. CASE n >= hysteresis
    <3>1. event' = cur /\ confirmed' = cur /\ pending' = None /\ count' = 0
      BY <1>2, <1>5, <1>6, <1>8, <2>4 DEF HealthWithHysteresis, Emit
    <3>2. streak' >= hysteresis
      BY <1>2, <1>6, <2>2, <2>4
    <3>3. QED
      BY <1>1, <1>2, <1>5, <1>6, <1>8, <3>1, <3>2
  <2>5. QED
    BY <1>2, <1>6, <2>3, <2>4
<1>9. QED
  BY <1>7, <1>8

\* Seeds: the latest snapshot is all the detector knows.
LEMMA SeedStep ==
  ASSUME NEW p \in Healths \cup {None}, NEW c \in Healths \cup {None}, Seed(p, c),
         snap \in Healths \cup {None}, hysteresis' \in Nat
  PROVE  /\ prev' \in Healths \cup {None} /\ confirmed' \in Healths \cup {None}
         /\ pending' = None /\ count' = 0 /\ streak' = 0
         /\ snap # None => prev' = snap /\ Known' = snap
         /\ snap = None => prev' = p /\ confirmed' = c
  BY DEF Seed, Known, Reference

LEMMA CheckTypes ==
  ASSUME IInv, Check
  PROVE  /\ prev' = cur /\ cur \in Healths /\ streak' \in 0..(hysteresis + 1)
         /\ confirmed' \in Healths \cup {None} /\ pending' \in Healths \cup {None}
         /\ event' \in {None, cur}
         /\ count' \in Nat /\ (hysteresis >= 2 => count' < hysteresis)
         /\ event' # None => Known' = cur
         /\ event' = None /\ prev # None => Known' = Known
         /\ prev = None => event' = cur
<1> USE CycleAssumption
<1>1. /\ cur \in Healths /\ prev \in Healths \cup {None}
      /\ confirmed \in Healths \cup {None} /\ pending \in Healths \cup {None}
      /\ hysteresis \in Nat /\ hysteresis' = hysteresis /\ count \in Nat
      /\ (hysteresis >= 2 => count < hysteresis)
      /\ streak \in Nat /\ streak <= hysteresis + 1 /\ prev' = cur
      /\ (prev = None => confirmed = None)
  BY DEF IInv, TypeOK, RunInv, CountInv, Check
<1>2. streak' \in 0..(hysteresis + 1)
  BY <1>1 DEF Check
<1>3. CASE prev = None
  BY <1>1, <1>2, <1>3 DEF Check, Known, Reference
<1>4. CASE prev # None /\ hysteresis < 2
  BY <1>1, <1>2, <1>4 DEF Check, HealthAtOnce, Known
<1>5. CASE prev # None /\ hysteresis >= 2
  BY <1>1, <1>2, <1>5, HealthStep DEF Known, Reference
<1>6. QED
  BY <1>1, <1>3, <1>4, <1>5

---------------------------------------------------------------------------
\* A step that leaves the detector alone.
LEMMA SameDetector ==
  ASSUME IInv, UNCHANGED <<hysteresis, detectVars, streak>>
  PROVE  CountInv' /\ Known' = Known
  BY DEF IInv, CountInv, Known, Reference, detectVars

LEMMA RunIInv ==
  ASSUME IInv, ReadDevice \/ LogDevice \/ StoreDevice \/ ReadDocsis \/ SaveSnapshot
                \/ LogEvents \/ Fail \/ ModemChanges
  PROVE  IInv'
<1> USE CycleAssumption DEF Go, Fault, modemVars, runVars, dbVars
<1>1. CountInv' /\ Known' = Known
  BY SameDetector DEF ReadDevice, LogDevice, StoreDevice, ReadDocsis, SaveSnapshot,
                      LogEvents, Fail, ModemChanges
<1>2. TypeOK'
  <2> USE DEF IInv, TypeOK, Steps, detectVars
  <2>1. CASE Fail
    BY <2>1 DEF Fail
  <2>2. CASE ModemChanges
    BY <2>2 DEF ModemChanges
  <2>3. CASE ReadDevice \/ LogDevice \/ StoreDevice
    BY <2>3 DEF ReadDevice, LogDevice, StoreDevice, DeviceInv
  <2>4. CASE ReadDocsis \/ SaveSnapshot \/ LogEvents
    BY <2>4 DEF ReadDocsis, SaveSnapshot, LogEvents, RunInv
  <2>5. QED
    BY <2>1, <2>2, <2>3, <2>4
<1>3. RunInv'
  BY <1>1 DEF IInv, TypeOK, RunInv, detectVars, ReadDevice, LogDevice,
         StoreDevice, ReadDocsis, SaveSnapshot, LogEvents, Fail, ModemChanges
<1>4. DeviceInv'
  BY DEF IInv, TypeOK, DeviceInv, ReadDevice, LogDevice,
         StoreDevice, ReadDocsis, SaveSnapshot, LogEvents, Fail, ModemChanges
<1>5. QED
  BY <1>1, <1>2, <1>3, <1>4 DEF IInv

LEMMA CheckIInv == ASSUME IInv, Check PROVE IInv'
<1> USE CycleAssumption DEF modemVars, dbVars
<1>1. TypeOK'
  BY CheckTypes DEF IInv, TypeOK, Check, Steps
<1>2. RunInv'
  BY CheckTypes DEF IInv, TypeOK, RunInv, Check
<1>3. DeviceInv'
  BY DEF IInv, DeviceInv, Check
<1>4. hysteresis \in Nat /\ hysteresis' = hysteresis /\ streak' \in Nat
  BY CheckTypes DEF IInv, TypeOK, Check
<1>5. CountInv'
  <2>1. CASE prev = None \/ hysteresis < 2
    <3>1. prev = None => confirmed' = None /\ UNCHANGED pending
      BY DEF IInv, CountInv, Check
    <3>2. prev # None => hysteresis < 2
      BY <2>1
    <3>3. QED
      BY CheckTypes, <1>4, <2>1, <3>1, <3>2 DEF IInv, CountInv, Known, Reference, TypeOK
  <2>2. CASE prev # None /\ hysteresis >= 2
    BY CheckTypes, HealthStep, <1>4, <2>2 DEF CountInv, Known, Reference
  <2>3. QED
    BY <1>4, <2>1, <2>2
<1>6. QED
  BY <1>1, <1>2, <1>3, <1>5 DEF IInv

LEMMA SeedIInv == ASSUME IInv, Restart \/ HotSwap PROVE IInv'
<1> USE CycleAssumption DEF modemVars, runVars, dbVars, Fault
<1>1. PICK p \in Healths \cup {None}, c \in Healths \cup {None} :
        /\ Seed(p, c) /\ (snap = None => p = None /\ c = None)
        /\ c = None \/ snap # None
  BY DEF Restart, HotSwap, IInv, TypeOK
<1>2. hysteresis' \in Hystereses /\ hysteresis' \in Nat /\ snap' = snap /\ snap \in Healths \cup {None}
  BY DEF Restart, HotSwap, IInv, TypeOK
<1>3. TypeOK'
  <2>1. prev' \in Healths \cup {None} /\ confirmed' \in Healths \cup {None}
        /\ pending' = None /\ count' = 0 /\ streak' = 0
    BY <1>1, <1>2, SeedStep
  <2>2. CASE Restart
    <3>1. faults' \in 0..MaxFaults /\ gap' \in BOOLEAN
      BY <2>2 DEF Restart, IInv, TypeOK
    <3>2. streak' \in 0..(hysteresis' + 1) /\ (hysteresis' >= 2 => count' < hysteresis')
      <4>1. hysteresis' \in Nat /\ count' = 0 /\ streak' = 0
        BY <1>2, <2>1
      <4>2. \A h \in Nat : 0 \in 0..(h + 1) /\ (h >= 2 => 0 < h)
        OBVIOUS
      <4>3. QED
        BY <4>1, <4>2
    <3>3. pc' = "idle" /\ dev' = None /\ cur' = None /\ event' = None
          /\ UNCHANGED <<health, device, stored, snap, loggedDevice, loggedHealth>>
      BY <2>2 DEF Restart
    <3>4. QED
      BY <1>2, <2>1, <3>1, <3>2, <3>3 DEF IInv, TypeOK, Steps
  <2>3. CASE HotSwap
    BY <1>2, <2>1, <2>3 DEF HotSwap, IInv, TypeOK, Steps
  <2>4. QED
    BY <2>2, <2>3
<1>4. RunInv'
  BY <1>1, <1>2, SeedStep DEF Restart, HotSwap, IInv, RunInv, TypeOK
<1>5. DeviceInv'
  BY DEF Restart, HotSwap, IInv, DeviceInv
<1>6. CountInv'
  BY <1>1, <1>2, SeedStep DEF CountInv, Known, Reference
<1>7. QED
  BY <1>3, <1>4, <1>5, <1>6 DEF IInv

LEMMA NextIInv == IInv /\ [Next]_vars => IInv'
<1> SUFFICES ASSUME IInv, [Next]_vars PROVE IInv'
  OBVIOUS
<1>1. CASE Next
  BY <1>1, RunIInv, CheckIInv, SeedIInv DEF Next, CollectStep
<1>2. CASE UNCHANGED vars
  BY <1>2 DEF vars, modemVars, runVars, dbVars, detectVars, IInv, TypeOK, RunInv,
              DeviceInv, CountInv, Known, Reference
<1>3. QED
  BY <1>1, <1>2

LEMMA IInvAlways == Spec => []IInv
  BY InitIInv, NextIInv, PTL DEF Spec

---------------------------------------------------------------------------
\* Every variable keeps its type (modem.py collect, event_detector.py).
THEOREM Typing == Spec => []TypeOK
<1>1. IInv => TypeOK
  BY DEF IInv
<1>2. QED
  BY IInvAlways, <1>1, PTL

\* For every hysteresis: as many equal polls in a row as it demands make the
\* health the current one (EventDetector._check_health).
THEOREM SteadyIsKnown == Spec => []SteadyHealthIsKnown
<1>1. IInv => SteadyHealthIsKnown
  <2> SUFFICES ASSUME IInv, prev # None, streak > 0, streak >= hysteresis
               PROVE  Known = prev
    BY DEF SteadyHealthIsKnown
  <2>1. hysteresis \in Nat /\ count \in Nat /\ streak \in Nat
        /\ (hysteresis >= 2 => count < hysteresis)
    BY CycleAssumption DEF IInv, TypeOK
  <2>2. QED
    BY <2>1 DEF IInv, CountInv, Known
<1>2. QED
  BY IInvAlways, <1>1, PTL

\* The event log ends with the health the detector holds for current, through
\* restarts and hot-swaps, unless an event was lost (modem.py:209-214).
THEOREM LogAgrees == Spec => []LogFollowsDetector
<1>1. Init => LogFollowsDetector
  BY DEF Init, LogFollowsDetector, Known, Reference
<1>2. IInv /\ LogFollowsDetector /\ [Next]_vars => LogFollowsDetector'
  <2> SUFFICES ASSUME IInv, LogFollowsDetector, [Next]_vars, event' = None, ~gap'
               PROVE  loggedHealth' = Known'
    BY DEF LogFollowsDetector
  <2> USE CycleAssumption DEF modemVars, runVars, dbVars
  <2>1. CASE LogEvents
    BY <2>1, SameDetector DEF LogEvents, Go, IInv, RunInv, detectVars
  <2>2. CASE Check
    BY <2>2, CheckTypes DEF Check, IInv, RunInv, LogFollowsDetector
  <2>3. CASE Restart \/ HotSwap
    <3>1. snap = Known /\ event = None /\ ~gap /\ loggedHealth' = loggedHealth
      BY <2>3 DEF Restart, HotSwap
    <3>2. PICK p \in Healths \cup {None}, c \in Healths \cup {None} :
            Seed(p, c) /\ (snap = None => p = None /\ c = None)
      BY <2>3 DEF Restart, HotSwap, IInv, TypeOK
    <3>3. snap \in Healths \cup {None} /\ hysteresis' \in Nat
      BY <2>3 DEF Restart, HotSwap, IInv, TypeOK
    <3>4. Known' = snap
      BY <3>2, <3>3, SeedStep DEF Known, Reference
    <3>5. QED
      BY <3>1, <3>4 DEF LogFollowsDetector
  <2>4. CASE ReadDevice \/ LogDevice \/ StoreDevice \/ ReadDocsis \/ SaveSnapshot
             \/ Fail \/ ModemChanges \/ UNCHANGED vars
    <3>1. Known' = Known
      BY <2>4, SameDetector DEF ReadDevice, LogDevice, StoreDevice, ReadDocsis,
           SaveSnapshot, Fail, ModemChanges, vars
    <3>2. event = None /\ ~gap /\ loggedHealth' = loggedHealth
      <4>1. CASE Fail
        BY <4>1 DEF Fail
      <4>2. CASE ReadDevice \/ LogDevice \/ StoreDevice
        BY <4>2 DEF ReadDevice, LogDevice, StoreDevice
      <4>3. CASE ReadDocsis \/ SaveSnapshot \/ ModemChanges
        BY <4>3 DEF ReadDocsis, SaveSnapshot, ModemChanges
      <4>4. CASE UNCHANGED vars
        BY <4>4 DEF vars
      <4>5. QED
        BY <2>4, <4>1, <4>2, <4>3, <4>4
    <3>3. QED
      BY <3>1, <3>2 DEF LogFollowsDetector
  <2>5. QED
    BY <2>1, <2>2, <2>3, <2>4 DEF Next, CollectStep
<1>3. QED
  BY IInvAlways, <1>1, <1>2, PTL DEF Spec

\* ... and so the log tells of a health that lasts, for every hysteresis.
THEOREM SteadyIsLogged == Spec => []LogHoldsSteadyHealth
<1>1. SteadyHealthIsKnown /\ LogFollowsDetector => LogHoldsSteadyHealth
  BY DEF LogHoldsSteadyHealth
<1>2. QED
  BY SteadyIsKnown, LogAgrees, <1>1, PTL

\* The stored device never moves ahead of the log (modem.py:160-172).
THEOREM DeviceIsLogged == Spec => NoDeviceChangeUnlogged
<1>1. IInv /\ [Next]_vars => [stored' # stored => loggedDevice' = stored']_vars
  <2> SUFFICES ASSUME IInv, Next, stored' # stored PROVE loggedDevice' = stored'
    OBVIOUS
  <2>1. StoreDevice
    BY DEF Next, CollectStep, ReadDevice, LogDevice, ReadDocsis, SaveSnapshot, Check,
           LogEvents, Fail, Restart, HotSwap, ModemChanges, dbVars
  <2>2. QED
    BY <2>1 DEF StoreDevice, Go, IInv, DeviceInv
<1>2. QED
  BY IInvAlways, <1>1, PTL DEF Spec, NoDeviceChangeUnlogged

\* No health is reported sooner than the hysteresis allows, and none twice
\* (EventDetector._check_health, check).
THEOREM ReportsAreConfirmed == Spec => EventsAreConfirmed
<1> DEFINE A == event' # None /\ event' # event /\ prev # None =>
                  event' = prev' /\ event' # Known /\ streak' >= hysteresis
<1>1. IInv /\ [Next]_vars => [A]_vars
  <2> SUFFICES ASSUME IInv, Next, event' # None, event' # event, prev # None
               PROVE  event' = prev' /\ event' # Known /\ streak' >= hysteresis
    OBVIOUS
  <2> USE CycleAssumption
  <2>1. Check
    BY DEF Next, CollectStep, ReadDevice, LogDevice, StoreDevice, ReadDocsis, SaveSnapshot,
           LogEvents, Fail, Restart, HotSwap, ModemChanges, runVars
  <2>2. hysteresis \in Nat
    BY DEF IInv, TypeOK
  <2>3. CASE hysteresis >= 2
    BY <2>1, <2>2, <2>3, HealthStep DEF Known
  <2>4. CASE hysteresis < 2
    <3>1. event' = cur /\ cur # prev /\ prev' = cur /\ streak' = 1
      BY <2>1, <2>4 DEF Check, HealthAtOnce
    <3>2. QED
      BY <2>2, <2>4, <3>1 DEF Known
  <2>5. QED
    BY <2>2, <2>3, <2>4
<1>2. QED
  BY IInvAlways, <1>1, PTL DEF Spec, EventsAreConfirmed

---------------------------------------------------------------------------
(***************************************************************************)
(* What the log tells of the channels (SignalEvents).                      *)
(***************************************************************************)
ChannelsInv == analysis \in Analyses /\ LogTellsChannels

LEMMA SignalNextInv == ChannelsInv /\ [SignalNext]_signalVars => ChannelsInv'
<1> SUFFICES ASSUME ChannelsInv, [SignalNext]_signalVars PROVE ChannelsInv'
  OBVIOUS
<1>1. CASE UNCHANGED signalVars
  BY <1>1 DEF signalVars, ChannelsInv, LogTellsChannels, Present
<1>2. ASSUME NEW now \in Analyses, CheckChannels(now) PROVE ChannelsInv'
  <2> DEFINE n(a) == Cardinality(Present(a))
  <2>1. analysis' = now /\ n(analysis)' = n(now)
    BY <1>2 DEF CheckChannels, Present
  <2>2. ~countLost' => toldCount' = n(now)
    <3>1. CASE Log(now)
      BY <3>1 DEF Log, ChannelsInv, LogTellsChannels, CountChanges
    <3>2. CASE LoseEvents(now)
      BY <3>2 DEF LoseEvents, ChannelsInv, LogTellsChannels, CountChanges
    <3>3. QED
      BY <1>2, <3>1, <3>2 DEF CheckChannels
  <2>3. ASSUME NEW c \in Ids, c \notin Mentioned(now), c \notin Swapped(now) PROVE now[c] = analysis[c]
    <3>1. analysis[c] \in Modulations \cup {Absent} /\ now[c] \in Modulations \cup {Absent}
      BY <1>2 DEF ChannelsInv, Analyses
    <3>2. c \in Present(now) <=> c \in Present(analysis)
      BY <2>3 DEF Mentioned, Swapped, LostChannels, AddedChannels
    <3>3. QED
      BY <2>3, <3>1, <3>2 DEF Mentioned, Present, Lasting, Downgrades, Upgrades
  <2>4. ASSUME NEW c \in Ids \ hidden' PROVE told'[c] = now[c]
    <3>1. CASE Log(now) /\ hidden' = (hidden \ Mentioned(now)) \cup Swapped(now)
      <4>1. told'[c] = IF c \in LostChannels(now) THEN Absent ELSE IF c \in Mentioned(now) THEN now[c] ELSE told[c]
        BY <3>1 DEF Log
      <4>2. c \in LostChannels(now) => now[c] = Absent
        BY DEF LostChannels, Present
      <4>3. c \notin Mentioned(now) => told[c] = analysis[c] /\ c \notin Swapped(now)
        BY <2>4, <3>1 DEF ChannelsInv, LogTellsChannels
      <4>4. c \in LostChannels(now) => c \in Mentioned(now)
        BY DEF Mentioned
      <4>5. QED
        BY <2>3, <4>1, <4>2, <4>3, <4>4
    <3>2. CASE LoseEvents(now) /\ hidden' = hidden \cup Mentioned(now) \cup Swapped(now)
      BY <2>3, <2>4, <3>2 DEF LoseEvents, ChannelsInv, LogTellsChannels
    <3>3. QED
      BY <1>2, <3>1, <3>2 DEF CheckChannels
  <2>5. QED
    BY <1>2, <2>1, <2>2, <2>4 DEF ChannelsInv, LogTellsChannels
<1>3. QED
  BY <1>1, <1>2 DEF SignalNext

\* Whoever replays the log knows the number of channels and their modulations, but for what
\* was lost with a poll and for channels that swapped, for any channels, any modulations and
\* any sequence of polls (event_detector.py, _check_channels, _check_modulation).
THEOREM LogTellsOfChannels == SignalSpec => []LogTellsChannels
<1>1. SignalInit => ChannelsInv
  BY DEF SignalInit, ChannelsInv, LogTellsChannels
<1>2. ChannelsInv => LogTellsChannels
  BY DEF ChannelsInv
<1>3. QED
  BY <1>1, <1>2, SignalNextInv, PTL DEF SignalSpec

---------------------------------------------------------------------------
(***************************************************************************)
(* The healths of a poll (SignalHealth).                                   *)
(***************************************************************************)
Levels  == {"good", "tolerated", "warning", "critical"}
Numbers == Int \cup {Missing}

\* A channel whose SNR is marked as invalid reports none; upstream channels have no SNR.
HealthInv ==
  /\ reading \in [Ds \cup Us -> [power : Numbers, snr : Numbers, qam : Numbers, valid : BOOLEAN]]
  /\ totals \in Verdicts /\ fresh \in Verdicts
  /\ \A c \in Ds \cup Us : ~reading[c].valid => c \in Ds /\ reading[c].snr = Missing

LEMMA HealthInitInv == HealthInit => HealthInv
  BY DEF HealthInit, HealthInv, Usual, Numbers, Verdicts

LEMMA HealthNextInv == HealthInv /\ [HealthNext]_healthVars => HealthInv'
<1> SUFFICES ASSUME HealthInv, [HealthNext]_healthVars PROVE HealthInv'
  OBVIOUS
<1>1. ASSUME NEW c \in Ds \cup Us, Drift(c) PROVE HealthInv'
  <2>1. UNCHANGED <<totals, fresh>>
    BY <1>1 DEF Drift
  <2>2. CASE \E p \in Powers(c) : reading' = [reading EXCEPT ![c].power = p]
    <3>1. Powers(c) \subseteq Numbers
      BY DEF Powers, Numbers
    <3>2. QED
      BY <2>1, <2>2, <3>1 DEF HealthInv
  <2>3. CASE \E q \in Qams : reading' = [reading EXCEPT ![c].qam = q]
    <3>1. Qams \subseteq Numbers
      BY DEF Qams, Numbers
    <3>2. QED
      BY <2>1, <2>3, <3>1 DEF HealthInv
  <2>4. CASE \E s \in Snrs(c) : reading' = [reading EXCEPT ![c].snr = s, ![c].valid = TRUE]
    <3>1. Snrs(c) \subseteq Numbers
      BY DEF Snrs, Numbers
    <3>2. QED
      BY <2>1, <2>4, <3>1 DEF HealthInv
  <2>5. CASE c \in Ds /\ reading' = [reading EXCEPT ![c].snr = Missing, ![c].valid = FALSE]
    BY <2>1, <2>5 DEF HealthInv, Numbers
  <2>6. QED
    BY <1>1, <2>2, <2>3, <2>4, <2>5 DEF Drift
<1>2. CASE FirstPoll \/ NextPoll \/ SpikeComes \/ SpikeExpires \/ UNCHANGED healthVars
  BY <1>2 DEF FirstPoll, NextPoll, SpikeComes, SpikeExpires, healthVars, HealthInv
<1>3. QED
  BY <1>1, <1>2 DEF HealthNext

\* The worst level of a set, by what is in it.
Worst(critical, warning, tolerated) ==
  IF critical THEN "critical" ELSE IF warning THEN "warning" ELSE IF tolerated THEN "tolerated" ELSE "good"

LEMMA WorstIs ==
  ASSUME NEW L, L \subseteq Levels \cup {"marginal"}
  PROVE  WorstOf(L) = Worst("critical" \in L, "warning" \in L \/ "marginal" \in L, "tolerated" \in L)
<1> DEFINE W == Worst("critical" \in L, "warning" \in L \/ "marginal" \in L, "tolerated" \in L)
           Is(l) == /\ \A k \in L : Severity[k] <= Severity[l]
                    /\ l = "good" \/ \E k \in L : Severity[k] = Severity[l]
<1>1. /\ Severity["good"] = 0 /\ Severity["tolerated"] = 1 /\ Severity["warning"] = 2
      /\ Severity["marginal"] = 2 /\ Severity["critical"] = 3
  BY DEF Severity
<1>2. W \in Levels /\ Is(W)
  BY <1>1 DEF Worst, Levels
<1>3. \A l \in Levels : Is(l) => l = W
  BY <1>1 DEF Worst, Levels
<1> HIDE DEF W, Is
<1>4. WorstOf(L) = CHOOSE l \in Levels : Is(l)
  BY DEF WorstOf, Levels, Is
<1>5. QED
  BY <1>2, <1>3, <1>4 DEF W

\* What is good does not count, and the worst of the worst levels is the worst of all.
LEMMA WorstIgnoresGood ==
  ASSUME NEW A, NEW B, A \subseteq Levels \cup {"marginal"}, B \subseteq Levels \cup {"marginal"}, A \ {"good"} = B \ {"good"}
  PROVE  WorstOf(A) = WorstOf(B)
<1>1. \A k \in {"tolerated", "warning", "marginal", "critical"} : k \in A <=> k \in B
  OBVIOUS
<1>2. QED
  BY <1>1, WorstIs DEF Worst

LEMMA WorstFlags ==
  ASSUME NEW SS, SS \subseteq SUBSET Levels
  PROVE  LET W == {WorstOf(A) : A \in SS}
         IN  /\ W \subseteq Levels
             /\ "critical" \in W <=> "critical" \in UNION SS
             /\ "critical" \notin W => ("warning" \in W <=> "warning" \in UNION SS)
             /\ "critical" \notin W /\ "warning" \notin W => ("tolerated" \in W <=> "tolerated" \in UNION SS)
<1>1. \A A \in SS : WorstOf(A) = Worst("critical" \in A, "warning" \in A, "tolerated" \in A)
  <2> TAKE A \in SS
  <2>1. A \subseteq Levels /\ "marginal" \notin A
    BY DEF Levels
  <2>2. QED
    BY <2>1, WorstIs
<1>2. QED
  BY <1>1 DEF Worst, Levels

LEMMA WorstOfWorst ==
  ASSUME NEW SS, SS \subseteq SUBSET Levels
  PROVE  WorstOf({WorstOf(A) : A \in SS}) = WorstOf(UNION SS)
<1> DEFINE W == {WorstOf(A) : A \in SS}
           U == UNION SS
<1>1. W \subseteq Levels /\ U \subseteq Levels /\ "marginal" \notin Levels
  BY WorstFlags DEF Levels
<1>2. /\ "critical" \in W <=> "critical" \in U
      /\ "critical" \notin W => ("warning" \in W <=> "warning" \in U)
      /\ "critical" \notin W /\ "warning" \notin W => ("tolerated" \in W <=> "tolerated" \in U)
  BY WorstFlags
<1> HIDE DEF W, U
<1>3. /\ WorstOf(W) = Worst("critical" \in W, "warning" \in W, "tolerated" \in W)
      /\ WorstOf(U) = Worst("critical" \in U, "warning" \in U, "tolerated" \in U)
  BY <1>1, WorstIs
<1>4. WorstOf(W) = WorstOf(U)
  BY <1>2, <1>3 DEF Worst
<1>5. QED
  BY <1>4 DEF W, U

\* The details of a channel are levels, and good where nothing is reported.
LEMMA DetailsAre ==
  ASSUME NEW c
  PROVE  /\ Details(c, "power") = {PowerLevel(c)}
         /\ Details(c, "modulation") = {QamLevel(c)}
         /\ Details(c, "snr") = {SnrLevel(c)} \cup IF reading[c].valid THEN {} ELSE {"warning"}
         /\ \A m \in Metrics : Details(c, m) \subseteq Levels
         /\ reading[c].power = Missing => PowerLevel(c) = "good"
         /\ reading[c].qam = Missing => QamLevel(c) = "good"
         /\ reading[c].snr = Missing \/ c \in Us => SnrLevel(c) = "good"
<1>1. /\ Details(c, "power") = {PowerLevel(c)} /\ Details(c, "modulation") = {QamLevel(c)}
      /\ Details(c, "snr") = {SnrLevel(c)} \cup IF reading[c].valid THEN {} ELSE {"warning"}
  BY DEF Details
<1>2. PowerLevel(c) \in Levels /\ (reading[c].power = Missing => PowerLevel(c) = "good")
  BY DEF PowerLevel, Levels
<1>3. QamLevel(c) \in Levels /\ (reading[c].qam = Missing => QamLevel(c) = "good")
  BY DEF QamLevel, Levels
<1>4. SnrLevel(c) \in Levels /\ (reading[c].snr = Missing \/ c \in Us => SnrLevel(c) = "good")
  BY DEF SnrLevel, Levels
<1>5. QED
  BY <1>1, <1>2, <1>3, <1>4 DEF Metrics, Levels

---------------------------------------------------------------------------
\* What the Home page sees of a channel: an SNR that is marked as invalid is not reported.
SeenDetails(c) == IF reading[c].valid THEN UNION {Details(c, m) : m \in Metrics}
                  ELSE Details(c, "power") \cup Details(c, "modulation")

\* A family is as bad as its worst channel.
LEMMA FamilyIs ==
  ASSUME HealthInv, NEW F \in Families
  PROVE  FamilyHealth(F) = WorstOf({WorstOf(SeenDetails(c)) : c \in F})
<1> DEFINE says(m) == UNION {Details(c, m) : c \in Reported(F, m)}
           MS == {says(m) : m \in Metrics}
           CS == {SeenDetails(c) : c \in F}
<1>1. F \subseteq Ds \cup Us
  BY DEF Families, Ds, Us
<1>2. MS \subseteq SUBSET Levels /\ CS \subseteq SUBSET Levels
  BY DetailsAre DEF Reported, SeenDetails, Metrics
<1>3. FamilyHealth(F) = WorstOf(UNION MS)
  <2>1. FamilyHealth(F) = WorstOf({WorstOf(A) : A \in MS})
    BY DEF FamilyHealth, MetricHealth
  <2>2. QED
    BY <1>2, <2>1, WorstOfWorst
<1>4. WorstOf({WorstOf(SeenDetails(c)) : c \in F}) = WorstOf(UNION CS)
  <2>1. {WorstOf(SeenDetails(c)) : c \in F} = {WorstOf(A) : A \in CS}
    OBVIOUS
  <2>2. QED
    BY <1>2, <2>1, WorstOfWorst
<1>5. ASSUME NEW k, k # "good", k \in UNION MS PROVE k \in UNION CS
  <2>1. PICK m \in Metrics, c \in F : c \in Reported(F, m) /\ k \in Details(c, m)
    BY <1>5 DEF Reported
  <2>2. m = "snr" => reading[c].valid
    BY <1>1, <2>1 DEF Reported, HealthInv
  <2>3. k \in SeenDetails(c)
    BY <2>1, <2>2 DEF SeenDetails, Metrics
  <2>4. QED
    BY <2>3
<1>6. ASSUME NEW k, k # "good", k \in UNION CS PROVE k \in UNION MS
  <2>1. PICK c \in F : k \in SeenDetails(c)
    BY <1>6
  <2>2. PICK m \in Metrics : k \in Details(c, m) /\ (m = "snr" => reading[c].valid)
    BY <2>1 DEF SeenDetails, Metrics
  <2>3. c \in Reported(F, m)
    BY <1>6, <2>2, DetailsAre DEF Reported, Metrics
  <2>4. QED
    BY <2>2, <2>3
<1> DEFINE M == UNION MS
           C == UNION CS
<1>7. M \subseteq Levels \cup {"marginal"} /\ C \subseteq Levels \cup {"marginal"}
  BY <1>2
<1>8. \A k : k # "good" => (k \in M <=> k \in C)
  BY <1>5, <1>6
<1> HIDE DEF M, C
<1>9. M \ {"good"} = C \ {"good"}
  BY <1>8
<1>10. WorstOf(M) = WorstOf(C)
  BY <1>7, <1>9, WorstIgnoresGood
<1>11. QED
  BY <1>3, <1>4, <1>10 DEF M, C

\* If a family is not good, a channel of it reports the cause the page names.
LEMMA DriversAre ==
  ASSUME HealthInv, NEW F \in Families, FamilyHealth(F) # "good"
  PROVE  Drivers(F) # {}
<1> DEFINE says(m) == UNION {Details(c, m) : c \in Reported(F, m)}
<1>1. \A m \in Metrics : says(m) \subseteq Levels /\ MetricHealth(F, m) = WorstOf(says(m))
  BY DetailsAre DEF MetricHealth
<1>2. ASSUME NEW A, A \subseteq Levels PROVE WorstOf(A) \in A \cup {"good"}
  BY <1>2, WorstIs DEF Worst, Levels
<1>3. \A m \in Metrics : MetricHealth(F, m) \in Levels
  BY <1>1, <1>2 DEF Levels
<1>4. FamilyHealth(F) \in {MetricHealth(F, m) : m \in Metrics}
  <2>1. {MetricHealth(F, m) : m \in Metrics} \subseteq Levels
    BY <1>3
  <2>2. QED
    BY <1>2, <2>1 DEF FamilyHealth
<1>5. Cause(F) \in Metrics /\ MetricHealth(F, Cause(F)) = FamilyHealth(F)
  BY <1>4 DEF Cause, Metrics
<1>6. FamilyHealth(F) \in says(Cause(F))
  BY <1>1, <1>2, <1>5
<1>7. QED
  BY <1>6 DEF Drivers

---------------------------------------------------------------------------
\* What analyze() looks at of a channel: an upstream modulation that is tolerated is no issue.
LineDetails(c) == IF c \in Ds THEN UNION {Details(c, m) : m \in Metrics}
                  ELSE Details(c, "power") \cup (Details(c, "modulation") \ {"tolerated"})

\* An issue names the worst level of its metric.
LEMMA IssueIs ==
  ASSUME NEW S, NEW m \in Metrics
  PROVE  LET A == UNION {Details(c, m) : c \in S}
         IN  /\ IssueOf(S, m) \subseteq {"critical", "marginal", "tolerated"}
             /\ "critical" \in IssueOf(S, m) <=> "critical" \in A
             /\ "marginal" \in IssueOf(S, m) <=> "critical" \notin A /\ "warning" \in A
             /\ "tolerated" \in IssueOf(S, m) <=> "critical" \notin A /\ "warning" \notin A /\ "tolerated" \in A
<1> DEFINE A == UNION {Details(c, m) : c \in S}
<1>1. A \subseteq Levels /\ "marginal" \notin A
  <2>1. \A c \in S : Details(c, m) \subseteq Levels
    BY DetailsAre
  <2>2. A \subseteq Levels
    BY <2>1
  <2>3. "marginal" \notin Levels
    BY DEF Levels
  <2>4. QED
    BY <2>2, <2>3
<1>2. IssueOf(S, m) = {LevelName(WorstOf(A))} \ {"good"}
  BY DEF IssueOf
<1> HIDE DEF A
<1>3. WorstOf(A) = Worst("critical" \in A, "warning" \in A, "tolerated" \in A)
  BY <1>1, WorstIs
<1>4. QED
  BY <1>2, <1>3 DEF A, Worst, LevelName

\* The line is as bad as the worst channel or the error verdict.
LEMMA LineIs ==
  ASSUME HealthInv
  PROVE  LineHealth = LevelName(WorstOf({WorstOf(LineDetails(c)) : c \in Ds \cup Us} \cup ErrorIssue))
<1> DEFINE A(S, m) == UNION {Details(c, m) : c \in S}
           LowUs == {c \in Us : reading[c].power # Missing /\ Low(c)}
           HighUs == {c \in Us : reading[c].power # Missing /\ ~Low(c)}
           CS == {LineDetails(c) : c \in Ds \cup Us}
           U == UNION CS
           W == {WorstOf(B) : B \in CS}
           I == SignalIssues \cup ErrorIssue
<1>1. ErrorIssue \subseteq {"marginal", "critical"}
  BY DEF ErrorIssue, Scored, HealthInv, Verdicts
<1>2. CS \subseteq SUBSET Levels
  BY DetailsAre DEF LineDetails, Metrics
<1>3. /\ W \subseteq Levels
      /\ "critical" \in W <=> "critical" \in U
      /\ "critical" \notin W => ("warning" \in W <=> "warning" \in U)
      /\ "critical" \notin W /\ "warning" \notin W => ("tolerated" \in W <=> "tolerated" \in U)
  BY <1>2, WorstFlags
<1>4. ASSUME NEW k \in {"critical", "warning", "tolerated"}
      PROVE  k \in U <=> \/ k \in A(Ds, "power") \/ k \in A(Ds, "modulation") \/ k \in A(Ds, "snr")
                        \/ k \in A(LowUs, "power") \/ k \in A(HighUs, "power")
                        \/ (k \in A(Us, "modulation") /\ k # "tolerated")
  <2>1. ASSUME NEW c \in Ds PROVE k \in LineDetails(c) <=> \E m \in Metrics : k \in Details(c, m)
    BY <2>1 DEF LineDetails
  <2>2. ASSUME NEW c \in Us
        PROVE  k \in LineDetails(c) <=> k \in Details(c, "power") \/ (k \in Details(c, "modulation") /\ k # "tolerated")
    BY <2>2, HealthAssumption DEF LineDetails
  <2>3. ASSUME NEW c \in Us, k \in Details(c, "power") PROVE c \in LowUs \cup HighUs
    BY <2>3, DetailsAre
  <2>4. k \in U <=> \E c \in Ds \cup Us : k \in LineDetails(c)
    OBVIOUS
  <2>5. ASSUME NEW c \in LowUs \cup HighUs PROVE c \in Us
    BY <2>5
  <2> HIDE DEF U, LowUs, HighUs
  <2>6. QED
    BY <2>1, <2>2, <2>3, <2>4, <2>5 DEF Metrics
<1>5. /\ SignalIssues \subseteq {"critical", "marginal", "tolerated"}
      /\ "critical" \in SignalIssues <=> "critical" \in U
      /\ "critical" \notin SignalIssues => ("marginal" \in SignalIssues <=> "warning" \in U)
      /\ "critical" \notin SignalIssues /\ "marginal" \notin SignalIssues
           => ("tolerated" \in SignalIssues <=> "tolerated" \in U)
  <2>1. SignalIssues = IssueOf(Ds, "power") \cup IssueOf(Ds, "modulation") \cup IssueOf(Ds, "snr")
                        \cup IssueOf(LowUs, "power") \cup IssueOf(HighUs, "power")
                        \cup (IssueOf(Us, "modulation") \ {"tolerated"})
    BY DEF SignalIssues
  <2>2. \A S, m : m \in Metrics =>
             /\ IssueOf(S, m) \subseteq {"critical", "marginal", "tolerated"}
             /\ "critical" \in IssueOf(S, m) <=> "critical" \in A(S, m)
             /\ "marginal" \in IssueOf(S, m) <=> "critical" \notin A(S, m) /\ "warning" \in A(S, m)
             /\ "tolerated" \in IssueOf(S, m) <=>
                  "critical" \notin A(S, m) /\ "warning" \notin A(S, m) /\ "tolerated" \in A(S, m)
    BY IssueIs
  <2> HIDE DEF A, LowUs, HighUs, U
  <2>3. QED
    BY <1>4, <2>1, <2>2 DEF Metrics
<1>6. I \subseteq {"critical", "marginal", "tolerated"} /\ LineHealth = LevelName(WorstOf(I))
  <2>1. I \subseteq {"critical", "marginal", "tolerated"}
    BY <1>1, <1>5
  <2>2. WorstOf(I) = Worst("critical" \in I, "marginal" \in I, "tolerated" \in I)
    BY <2>1, WorstIs DEF Levels
  <2>3. LineHealth = IF I = {} THEN "good" ELSE IF "critical" \in I THEN "critical"
                     ELSE IF "marginal" \in I THEN "marginal" ELSE "tolerated"
    BY DEF LineHealth
  <2> HIDE DEF I
  <2>4. QED
    BY <2>1, <2>2, <2>3 DEF Worst, LevelName
<1>7. WorstOf(I) = WorstOf(W \cup ErrorIssue)
  <2>1. WorstOf(I) = Worst("critical" \in I, "marginal" \in I, "tolerated" \in I)
    BY <1>6, WorstIs DEF Levels
  <2>2. "marginal" \notin W /\ W \cup ErrorIssue \subseteq Levels \cup {"marginal"}
    BY <1>1, <1>3 DEF Levels
  <2> DEFINE V == W \cup ErrorIssue
  <2>3. WorstOf(V) = Worst("critical" \in V, "warning" \in V \/ "marginal" \in V, "tolerated" \in V)
    BY <2>2, WorstIs
  <2> HIDE DEF W, U
  <2>4. QED
    BY <1>1, <1>3, <1>5, <2>1, <2>2, <2>3 DEF Worst
<1>8. W = {WorstOf(LineDetails(c)) : c \in Ds \cup Us}
  OBVIOUS
<1>9. QED
  BY <1>6, <1>7, <1>8

\* The healths of the line, of a family and of a channel agree, although each is put together
\* on its own, for any channels, any readings and any error verdicts (analyzer.py).
THEOREM HealthsFitTogether == HealthSpec => []HealthsAgree
<1>1. ASSUME HealthInv PROVE HealthsAgree
  <2> DEFINE says(c) == IF c \in Ds THEN ChannelHealth(c)
                        ELSE WorstOf(Details(c, "power") \cup (Details(c, "modulation") \ {"tolerated"}))
             seen(c) == IF reading[c].valid THEN ChannelHealth(c)
                        ELSE WorstOf(Details(c, "power") \cup Details(c, "modulation"))
             errors  == IF spike = "expired" /\ ~moved THEN {} ELSE ErrorIssue
  <2>1. \A c : says(c) = WorstOf(LineDetails(c)) /\ seen(c) = WorstOf(SeenDetails(c))
    BY DEF LineDetails, SeenDetails, ChannelHealth
  <2>2. errors = ErrorIssue
    BY DEF ErrorIssue
  <2>3. LineHealth = LevelName(WorstOf({says(c) : c \in Ds \cup Us} \cup errors))
    <3>1. {says(c) : c \in Ds \cup Us} = {WorstOf(LineDetails(c)) : c \in Ds \cup Us}
      BY <2>1
    <3>2. QED
      BY <1>1, <2>2, <3>1, LineIs
  <2>4. ASSUME NEW F \in Families PROVE FamilyHealth(F) = WorstOf({seen(c) : c \in F})
    <3>1. {seen(c) : c \in F} = {WorstOf(SeenDetails(c)) : c \in F}
      BY <2>1
    <3>2. QED
      BY <1>1, <3>1, FamilyIs
  <2>5. \A F \in Families : FamilyHealth(F) # "good" => Drivers(F) # {}
    BY <1>1, DriversAre
  <2> HIDE DEF says, seen, errors
  <2>6. QED
    BY <2>3, <2>4, <2>5 DEF HealthsAgree, says, seen, errors
<1>2. QED
  BY HealthInitInv, HealthNextInv, <1>1, PTL DEF HealthSpec

=============================================================================
