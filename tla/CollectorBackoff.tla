-------------------------- MODULE CollectorBackoff --------------------------
(***************************************************************************)
(* The schedule of one collector (app/collectors/base.py): the poll        *)
(* interval, the penalty that doubles with every failure in a row, the     *)
(* skip, and the reset of the penalty after a long idle time, which is a   *)
(* side effect of reading the penalty.                                     *)
(*                                                                         *)
(* The code subtracts wall-clock times; here the differences are the       *)
(* state: sincePoll is time.time() - _last_poll, sinceFailure the same for *)
(* _last_failure_time.  Both stop at Horizon, past which every comparison  *)
(* has the same answer, so the model is exact.  time.time() may be set     *)
(* back, by at most MaxBack over the whole run.                            *)
(***************************************************************************)
EXTENDS Integers

CONSTANTS
  Interval,     \* poll_interval_seconds
  BasePenalty,  \* 30 s
  MaxPenalty,   \* MAX_PENALTY_SECONDS
  ResetAfter,   \* PENALTY_RESET_HOURS
  MaxFailures,  \* bound: more failures in a row than this are not counted
  MaxBack       \* bound: how far the wall clock is set back in all

ASSUME BackoffAssumption ==
  /\ Interval \in Nat \ {0} /\ BasePenalty \in Nat \ {0}
  /\ MaxPenalty \in Nat /\ MaxPenalty >= BasePenalty
  /\ ResetAfter \in Nat /\ ResetAfter > Interval + MaxPenalty
  /\ MaxFailures \in Nat \ {0}
  /\ MaxBack \in Nat

\* The rungs of the ladder are numbers, each at least the one before, and the bound
\* lies past its last one.
ASSUME LadderAssumption ==
  /\ \A n \in 1..MaxFailures : BasePenalty * 2^(n - 1) \in Nat
  /\ \A m, n \in 1..MaxFailures : m <= n => BasePenalty * 2^(m - 1) <= BasePenalty * 2^(n - 1)
  /\ BasePenalty * 2^(MaxFailures - 1) >= MaxPenalty

VARIABLES
  sincePoll, sinceFailure, failures,
  running,    \* a run is between submission and its record_* call
  enabled,    \* is_enabled()
  back,       \* how far the clock has been set back so far
  waited,     \* history: time since the collector is idle and enabled
  off,        \* history: it was disabled or running for long since the record
  streak      \* history: failures in a row, none long after the one before

clockVars == <<sincePoll, sinceFailure, failures>>
histVars  == <<waited, off, streak>>
vars      == <<clockVars, running, enabled, back, histVars>>

Horizon == ResetAfter + MaxBack
Smaller(a, b) == IF a < b THEN a ELSE b
Later(age)    == Smaller(age + 1, Horizon)

\* Mutant of Penalty: the ladder has no cap.
PenaltyUncapped(n) == IF n = 0 THEN 0 ELSE BasePenalty * 2^(n - 1)

\* _penalty_seconds_unlocked without its side effect.
Penalty(n) == IF n = 0 THEN 0 ELSE Smaller(BasePenalty * 2^(n - 1), MaxPenalty)

\* Mutant of IdleReset: compares with the poll interval.
IdleResetAfterInterval == failures > 0 /\ sinceFailure >= Interval

\* ... and its side effect: after ResetAfter without a failure the count is 0.
IdleReset == failures > 0 /\ sinceFailure >= ResetAfter
Counted   == IF IdleReset THEN 0 ELSE failures

ShouldPoll == sincePoll >= Interval + Penalty(Counted)

---------------------------------------------------------------------------
TypeOK ==
  /\ sincePoll \in -MaxBack..Horizon
  /\ sinceFailure \in -MaxBack..Horizon
  /\ failures \in 0..MaxFailures
  /\ running \in BOOLEAN /\ enabled \in BOOLEAN /\ off \in BOOLEAN
  /\ back \in 0..MaxBack
  /\ waited \in Nat
  /\ streak \in 0..MaxFailures

\* _last_poll = 0: the first poll is long overdue.
Init ==
  /\ sincePoll = Horizon /\ sinceFailure = Horizon /\ failures = 0
  /\ running = FALSE /\ enabled = TRUE
  /\ back = 0
  /\ waited = 0 /\ off = FALSE /\ streak = 0

\* The loop looks every second, a unit of time here is longer: a collector
\* that is due is submitted before time passes on.
Tick ==
  /\ ~(enabled /\ ~running /\ ShouldPoll)
  /\ sincePoll' = Later(sincePoll)
  /\ sinceFailure' = Later(sinceFailure)
  /\ waited' = IF enabled /\ ~running THEN waited + 1 ELSE waited
  /\ off' = (off \/ ~enabled \/ running)
  /\ UNCHANGED <<failures, running, enabled, back, streak>>

SetClockBack ==
  /\ back < MaxBack
  /\ back' = back + 1
  /\ sincePoll' = sincePoll - 1
  /\ sinceFailure' = sinceFailure - 1
  /\ UNCHANGED <<failures, running, enabled, histVars>>

\* should_poll() in the submit loop, when it answers True.
StartPoll ==
  /\ enabled /\ ~running
  /\ ShouldPoll
  /\ failures' = Counted
  /\ running' = TRUE
  /\ UNCHANGED <<sincePoll, sinceFailure, enabled, back, histVars>>

\* Any other read of the penalty: should_poll() that answers False, or the
\* status endpoint, at any time.
ReadPenalty ==
  /\ IdleReset
  /\ failures' = 0
  /\ UNCHANGED <<sincePoll, sinceFailure, running, enabled, back, histVars>>

Recorded ==
  /\ running
  /\ running' = FALSE
  /\ sincePoll' = 0
  /\ waited' = 0 /\ off' = FALSE
  /\ UNCHANGED <<enabled, back>>

\* record_success() and record_skip().
RecordSuccessOrSkip ==
  /\ Recorded
  /\ failures' = 0 /\ streak' = 0
  /\ UNCHANGED sinceFailure

\* Mutant of RecordFailure: the poll time is not updated.
RecordFailureKeepsPollTime ==
  /\ running /\ running' = FALSE
  /\ failures' = Smaller(failures + 1, MaxFailures)
  /\ streak' = IF sinceFailure >= ResetAfter THEN 1 ELSE Smaller(streak + 1, MaxFailures)
  /\ sinceFailure' = 0
  /\ waited' = 0 /\ off' = FALSE
  /\ UNCHANGED <<sincePoll, enabled, back>>

RecordFailure ==
  /\ Recorded
  /\ failures' = Smaller(failures + 1, MaxFailures)
  /\ streak' = IF sinceFailure >= ResetAfter THEN 1 ELSE Smaller(streak + 1, MaxFailures)
  /\ sinceFailure' = 0

\* A settings save; turning it on again starts a new wait.
Toggle ==
  /\ enabled' = ~enabled
  /\ waited' = 0
  /\ UNCHANGED <<clockVars, running, back, off, streak>>

Next ==
  \/ Tick \/ SetClockBack \/ StartPoll \/ ReadPenalty
  \/ RecordSuccessOrSkip \/ RecordFailure \/ Toggle

Spec == Init /\ [][Next]_vars

\* Time passes; runs and settings are under no obligation.
FairSpec == Spec /\ WF_vars(Tick) /\ WF_vars(StartPoll)

---------------------------------------------------------------------------
\* A failing collector backs off: after k failed runs in a row, each within the
\* reset time of the one before, it is polled again no earlier than the k-th
\* step of the ladder says, whoever has read its penalty in between, unless
\* the last failure itself is past the reset time or the clock was set back.  And
\* while it is polled as scheduled its failures are not forgotten: the idle reset
\* only strikes a collector that was switched off or hung in a run.
BackoffHolds ==
  [][/\ ~running /\ running' /\ back = 0 =>
          sincePoll >= Interval + Penalty(streak) \/ sinceFailure >= ResetAfter
     /\ failures' < failures /\ running' = running => off]_vars

\* No collector is put off for ever: switched on and idle, it waits at most the
\* interval, the greatest penalty and what the clock was set back.
WaitIsBounded == waited <= Interval + MaxPenalty + back

\* The promise to the loop (module DueTimer), as long as the clock is not set back.
Due == INSTANCE DueTimer WITH due <- ShouldPoll, running <- running, steady <- back = 0
DueTimerSpec == Due!DueSpec
=============================================================================
