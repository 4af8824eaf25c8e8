-------------------------- MODULE SegmentUtilization ---------------------------
(***************************************************************************)
(* Samples of the cable segment's load and the saturation events found in  *)
(* them (app/storage/segment_utilization.py), for one direction: the       *)
(* collector saves a sample for each minute; maintenance stores the events *)
(* of old samples and then averages the samples.  The unit of time is half *)
(* a minute, so that a cutoff falls on samples and between them.           *)
(***************************************************************************)
EXTENDS Integers, FiniteSets, FiniteSetsExt, Functions

CONSTANTS
  Levels,                  \* values of ds_total
  SaturatedFrom,           \* threshold
  MinMinutes,              \* min_minutes
  FineAfter, CoarseAfter,  \* after_days of the two tiers
  FineBucket, CoarseBucket,\* bucket_min
  MaxMinutes               \* bound: minutes sampled

ASSUME SegmentAssumption ==
  /\ Levels \subseteq Nat /\ SaturatedFrom \in Nat
  /\ {MinMinutes, FineBucket, CoarseBucket} \subseteq Nat \ {0}
  /\ {FineAfter, CoarseAfter, MaxMinutes} \subseteq Nat
  /\ FineBucket % 2 = 0 /\ FineBucket >= 4 /\ CoarseBucket % FineBucket = 0

VARIABLES
  minute,     \* minutes gone by
  load,       \* history: what was sampled, by time
  samples,    \* segment_utilization: total by time
  events,     \* segment_utilization_events, by start: the end
  upkeep,     \* downsample(): the next step, 0 outside
  upkeepNow   \* its `now`

segmentVars == <<minute, load, samples, events, upkeep, upkeepNow>>

Moments == 0..(2 * MaxMinutes + 2)

SegmentInit ==
  /\ minute = 0 /\ load = <<>> /\ samples = <<>> /\ events = <<>>
  /\ upkeep = 0 /\ upkeepNow = 0

SegmentTypeOK ==
  /\ minute \in 0..MaxMinutes /\ upkeep \in 0..3 /\ upkeepNow \in Moments
  /\ \A f \in {load, samples, events} : DOMAIN f \subseteq Moments
  /\ \A s \in DOMAIN samples : samples[s] \in Nat

\* What f has, and what g has besides.
Beside(f, g) == [s \in DOMAIN f \cup DOMAIN g |-> IF s \in DOMAIN f THEN f[s] ELSE g[s]]

SampleAt(m) == 2 * m + 1     \* no sample is on the boundary of a bucket

\* The next sample, or a minute the box has none of.
CollectSample(level) ==
  /\ minute < MaxMinutes /\ minute' = minute + 1
  /\ IF level \in Levels
       THEN /\ load' = Beside([s \in {SampleAt(minute)} |-> level], load)
            /\ samples' = Beside([s \in {SampleAt(minute)} |-> level], samples)
       ELSE UNCHANGED <<load, samples>>
  /\ UNCHANGED <<events, upkeep, upkeepNow>>

(***************************************************************************)
(* _detect_runs: rows at or above the threshold, each at most 90 s after   *)
(* the one before, as many as the minimum and none to be added.            *)
(***************************************************************************)
Previous(rows, s) == Max({r \in DOMAIN rows : r < s})
Saturated(rows) == {s \in DOMAIN rows : rows[s] >= SaturatedFrom}
\* Mutant of Goes: any gap is bridged.
GoesOverGaps(rows, s) ==
  /\ s \in Saturated(rows) /\ \E r \in DOMAIN rows : r < s
  /\ Previous(rows, s) \in Saturated(rows)

Goes(rows, s) ==    \* s continues the run of the row before
  /\ s \in Saturated(rows) /\ \E r \in DOMAIN rows : r < s
  /\ Previous(rows, s) \in Saturated(rows) /\ s - Previous(rows, s) <= 3
Run(rows, first, last) ==
  /\ first \in Saturated(rows) /\ ~Goes(rows, first)
  /\ \A s \in DOMAIN rows : s > first /\ s <= last => Goes(rows, s)
  /\ \A s \in DOMAIN rows : s > last /\ Previous(rows, s) = last => ~Goes(rows, s)
  /\ Cardinality(DOMAIN rows \cap first..last) >= MinMinutes
Runs(rows) == {e \in (DOMAIN rows) \X (DOMAIN rows) : e[1] <= e[2] /\ Run(rows, e[1], e[2])}

Before(rows, cutoff)  == Restrict(rows, {s \in DOMAIN rows : s < cutoff})
UpTo(rows, cutoff)    == Restrict(rows, {s \in DOMAIN rows : s <= cutoff})

BeginUpkeep ==
  /\ upkeep = 0 /\ upkeep' = 1 /\ upkeepNow' = 2 * minute
  /\ UNCHANGED <<minute, load, samples, events>>

\* materialize_events_before; INSERT OR IGNORE keeps an event that is there.
Materialize ==
  LET cutoff == upkeepNow - FineAfter
      new    == {e \in Runs(UpTo(samples, cutoff)) : e[2] < cutoff}
  IN
  /\ upkeep = 1 /\ upkeep' = 2
  /\ events' = Beside(events, [s \in {e[1] : e \in new} |-> (CHOOSE e \in new : e[1] = s)[2]])
  /\ UNCHANGED <<minute, load, samples, upkeepNow>>

BucketOf(width, s)    == (s \div width) * width
Average(rows, S)      == SumFunctionOnSet(rows, S) \div Cardinality(S)

\* _downsample_range: buckets of one row stay as they are.
Downsampled(cutoff, width) ==
  LET old     == DOMAIN Before(samples, cutoff)
      In(b)   == {s \in old : BucketOf(width, s) = b}
      starts  == {b \in {BucketOf(width, s) : s \in old} : Cardinality(In(b)) > 1}
      kept    == {s \in DOMAIN samples : s \notin UNION {In(b) : b \in starts}}
  IN Beside(Restrict(samples, kept), [b \in starts |-> Average(samples, In(b))])

Downsample ==
  /\ upkeep \in {2, 3}
  /\ samples' = IF upkeep = 2 THEN Downsampled(upkeepNow - CoarseAfter, CoarseBucket)
                              ELSE Downsampled(upkeepNow - FineAfter, FineBucket)
  /\ upkeep' = IF upkeep = 2 THEN 3 ELSE 0
  /\ UNCHANGED <<minute, load, events, upkeepNow>>

\* An exception or a crash between two transactions.
UpkeepStops ==
  /\ upkeep # 0 /\ upkeep' = 0
  /\ UNCHANGED <<minute, load, samples, events, upkeepNow>>

SegmentNext ==
  \/ \E level \in Levels \cup {-1} : CollectSample(level)
  \/ BeginUpkeep \/ Materialize \/ Downsample \/ UpkeepStops

SegmentSpec == SegmentInit /\ [][SegmentNext]_segmentVars

\* get_events for all that is stored: a stored event wins over one found with its start.
GetEvents == {e \in Runs(samples) : e[1] \notin DOMAIN events} \cup {<<s, events[s]>> : s \in DOMAIN events}

\* Every event shown is a stretch in which each sample ever taken was at the threshold:
\* averages of mixed samples never join with raw ones to a run.
EventsAreReal ==
  \A e \in GetEvents : \A s \in DOMAIN load : s \in e[1]..e[2] => load[s] >= SaturatedFrom

=============================================================================
