----------------------------- MODULE SignalEvents -----------------------------
(***************************************************************************)
(* What the event log tells of the channels of one direction               *)
(* (app/event_detector.py, _check_channels and _check_modulation): each    *)
(* poll is compared with the one before, and only the differences are      *)
(* logged.  A reader starts from the first analysis and replays the log.   *)
(* The other direction is alike.                                           *)
(***************************************************************************)
EXTENDS Naturals, FiniteSets

CONSTANTS
  Ids,            \* channel_id, normalized
  Modulations,    \* by their _qam_rank; other names of equal rank count as upgrades
  Absent

ASSUME ChannelAssumption == Modulations \subseteq Nat /\ Absent \notin Modulations

VARIABLES
  analysis,       \* EventDetector._prev, and the latest snapshot
  toldCount,      \* the log, replayed: the number of channels
  told,           \* ... and each channel's modulation
  countLost,      \* history: the last change of the number is not in the log
  hidden          \* history: channels whose last change is not in the log

signalVars == <<analysis, toldCount, told, countLost, hidden>>

Analyses   == [Ids -> Modulations \cup {Absent}]
Present(a) == {c \in Ids : a[c] # Absent}

SignalInit ==
  /\ analysis \in Analyses /\ told = analysis /\ toldCount = Cardinality(Present(analysis))
  /\ countLost = FALSE /\ hidden = {}

\* channel_change, only if the number of channels changes.
CountChanges(now) == Cardinality(Present(now)) # Cardinality(Present(analysis))
LostChannels(now)  == IF CountChanges(now) THEN Present(analysis) \ Present(now) ELSE {}

\* Mutant of AddedChannels: a loss names the lost channels only.
AddedByGain(now) == IF Cardinality(Present(now)) > Cardinality(Present(analysis))
                    THEN Present(now) \ Present(analysis) ELSE {}

AddedChannels(now) == IF CountChanges(now) THEN Present(now) \ Present(analysis) ELSE {}

Lasting(now) == Present(now) \cap Present(analysis)

\* modulation_change: two events at most, with the channels of each kind.
Downgrades(now) == {c \in Lasting(now) : now[c] < analysis[c]}
Upgrades(now)   == {c \in Lasting(now) : now[c] # analysis[c] /\ ~(now[c] < analysis[c])}

Mentioned(now) == LostChannels(now) \cup AddedChannels(now) \cup Downgrades(now) \cup Upgrades(now)

\* save_events_with_ids, one transaction for all events of the poll.
Log(now) ==
  /\ toldCount' = IF CountChanges(now) THEN Cardinality(Present(now)) ELSE toldCount
  /\ told' = [c \in Ids |-> IF c \in LostChannels(now) THEN Absent
                            ELSE IF c \in Mentioned(now) THEN now[c] ELSE told[c]]
  /\ countLost' = (countLost /\ ~CountChanges(now))

\* A failed write, a crash after the snapshot: a restart is seeded with that snapshot.
LoseEvents(now) ==
  /\ Mentioned(now) # {}
  /\ countLost' = (countLost \/ CountChanges(now))
  /\ UNCHANGED <<told, toldCount>>

\* Channels change without an event when as many leave as join.
Swapped(now) == IF CountChanges(now) THEN {}
                ELSE (Present(analysis) \ Present(now)) \cup (Present(now) \ Present(analysis))

CheckChannels(now) ==
  /\ analysis' = now
  /\ \/ Log(now) /\ hidden' = (hidden \ Mentioned(now)) \cup Swapped(now)
     \/ LoseEvents(now) /\ hidden' = hidden \cup Mentioned(now) \cup Swapped(now)

SignalNext == \E now \in Analyses : CheckChannels(now)

SignalSpec == SignalInit /\ [][SignalNext]_signalVars

\* Whoever replays the log knows the number of channels and the modulation of each,
\* but for what was lost with a poll's events, until the next event about it, and
\* for channels that took each other's place.
LogTellsChannels ==
  /\ ~countLost => toldCount = Cardinality(Present(analysis))
  /\ \A c \in Ids \ hidden : told[c] = analysis[c]
=============================================================================
