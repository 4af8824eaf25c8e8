------------------------------ MODULE SampleTiers ------------------------------
(***************************************************************************)
(* How old samples of the connection monitor are rolled up into buckets of *)
(* growing width, deleted, and blended again by the samples API            *)
(* (app/modules/connection_monitor/storage.py, routes.py), for one target  *)
(* that is probed once per unit of time.  A bucket stands for the samples  *)
(* it counts: its loss, its latencies and sample_count are made of those.  *)
(***************************************************************************)
EXTENDS Integers

CONSTANTS
  TierAge,      \* of raw samples, of buckets of tier 1 and of tier 2: rolled up when older
  TierWidth,    \* of the buckets of tiers 1, 2 and 3
  DayLength,
  PinDays,      \* bound: the days that are pinned and unpinned
  Retention,    \* connection_monitor_retention_days, 0 for ever
  MaxNow        \* bound: how long the clock runs

ASSUME TierAssumption ==
  /\ TierAge \in [1..3 -> Nat] /\ TierWidth \in [1..3 -> Nat \ {0}]
  /\ TierWidth[2] % TierWidth[1] = 0 /\ TierWidth[3] % TierWidth[2] = 0
  /\ DayLength \in Nat \ {0} /\ {Retention, MaxNow} \subseteq Nat

VARIABLES
  tierNow,      \* time.time()
  raw,          \* connection_samples
  rolled,       \* connection_samples_aggregated
  pinned,       \* connection_monitor_pinned_days
  cascade,      \* the step of aggregate() and cleanup() that comes next, 0 outside
  cascadeNow    \* `now` of aggregate()

tierVars == <<tierNow, raw, rolled, pinned, cascade, cascadeNow>>

Times  == 0..MaxNow
Day(s) == s \div DayLength
Bucket(tier, s) == (s \div TierWidth[tier]) * TierWidth[tier]

TierTypeOK ==
  /\ tierNow \in Times /\ raw \subseteq Times /\ pinned \subseteq PinDays
  /\ \A b \in rolled : b.tier \in 1..3 /\ b.start \in Times /\ b.of \subseteq Times
  /\ cascade \in 0..4 /\ cascadeNow \in Times

TierInit ==
  /\ tierNow = 0 /\ raw = {} /\ rolled = {} /\ pinned = {}
  /\ cascade = 0 /\ cascadeNow = 0

\* The next probe and its sample.
Probe ==
  /\ tierNow < MaxNow /\ tierNow' = tierNow + 1
  /\ raw' = raw \cup {tierNow}
  /\ UNCHANGED <<rolled, pinned, cascade, cascadeNow>>

PinDay(d) ==
  /\ d <= Day(tierNow)
  /\ pinned' = IF d \in pinned THEN pinned \ {d} ELSE pinned \cup {d}
  /\ UNCHANGED <<tierNow, raw, rolled, cascade, cascadeNow>>

BeginCascade ==
  /\ cascade = 0 /\ cascade' = 1 /\ cascadeNow' = tierNow
  /\ UNCHANGED <<tierNow, raw, rolled, pinned>>

Unpinned(s) == Day(s) \notin pinned
\* INSERT OR REPLACE: what the buckets held before is gone.
Replaced(new) == {b \in rolled : \A n \in new : n.tier # b.tier \/ n.start # b.start} \cup new

\* Mutant of AggregateRaw: deletes to the end of the last bucket it wrote.
AggregateRawWholeBuckets ==
  LET cutoff == cascadeNow - TierAge[1]
      rows   == {s \in raw : s < cutoff}
      new    == {[tier |-> 1, start |-> b, of |-> {s \in rows : Bucket(1, s) = b}] : b \in {Bucket(1, s) : s \in rows}}
  IN
  /\ cascade = 1 /\ cascade' = 2
  /\ rolled' = Replaced({b \in new : b.start + TierWidth[1] <= cutoff})
  /\ raw' = {s \in raw : s \in rows => ~Unpinned(s)}
  /\ UNCHANGED <<tierNow, pinned, cascadeNow>>

\* aggregate_raw_to_buckets
AggregateRaw ==
  LET cutoff == cascadeNow - TierAge[1]
      rows   == {s \in raw : s < cutoff}
      new    == {[tier |-> 1, start |-> b, of |-> {s \in rows : Bucket(1, s) = b}] : b \in {Bucket(1, s) : s \in rows}}
  IN
  /\ cascade = 1 /\ cascade' = 2
  /\ rolled' = Replaced(new)
  /\ raw' = {s \in raw : s \in rows => ~Unpinned(s)}
  /\ UNCHANGED <<tierNow, pinned, cascadeNow>>

\* reaggregate_buckets, from tier 1 to 2 and from 2 to 3
Reaggregate ==
  LET tier   == cascade - 1
      rows   == {b \in rolled : b.tier = tier /\ b.start < cascadeNow - TierAge[cascade]}
      Into(t) == {b \in rows : Bucket(cascade, b.start) = t}
      new    == {[tier |-> cascade, start |-> t, of |-> UNION {b.of : b \in Into(t)}] : t \in {Bucket(cascade, b.start) : b \in rows}}
  IN
  /\ cascade \in {2, 3} /\ cascade' = cascade + 1
  /\ rolled' = Replaced(new) \ rows
  /\ UNCHANGED <<tierNow, raw, pinned, cascadeNow>>

Cleanup ==
  LET cutoff == tierNow - Retention IN
  /\ cascade = 4 /\ cascade' = 0
  /\ IF Retention = 0
       THEN UNCHANGED <<raw, rolled>>
       ELSE /\ raw' = {s \in raw : s < cutoff => ~Unpinned(s)}
            /\ rolled' = {b \in rolled : b.start >= cutoff}
  /\ UNCHANGED <<tierNow, pinned, cascadeNow>>

\* An exception or a crash between two transactions.
CascadeStops ==
  /\ cascade # 0 /\ cascade' = 0
  /\ UNCHANGED <<tierNow, raw, rolled, pinned, cascadeNow>>

TierNext ==
  \/ Probe \/ (\E d \in PinDays : PinDay(d))
  \/ BeginCascade \/ AggregateRaw \/ Reaggregate \/ Cleanup \/ CascadeStops

TierSpec == TierInit /\ [][TierNext]_tierVars

\* api_get_samples, for all that is stored.  Mutant of ServedRaw: all that is there.
ServedRawOfPinnedDays == raw
ServedRaw      == {s \in raw : s >= tierNow - TierAge[1]}
ServedBuckets == {b \in rolled :
  CASE b.tier = 1 -> b.start >= tierNow - TierAge[2] /\ b.start < tierNow - TierAge[1]
    [] b.tier = 2 -> b.start >= tierNow - TierAge[3] /\ b.start < tierNow - TierAge[2]
    [] OTHER      -> b.start < tierNow - TierAge[3]}

\* However the cascade is cut off and days are pinned, the API blends no sample in twice.
ServedOnce ==
  /\ \A b \in ServedBuckets : b.of \cap ServedRaw = {}
  /\ \A a, b \in ServedBuckets : a # b => a.of \cap b.of = {}

\* A roll-up may never leave a hole: where a raw sample or a bucket was, one of them is,
\* unless it has passed the retention.
Covered(s) == s \in raw \/ \E b \in rolled : b.of # {} /\ s \in b.start..(b.start + TierWidth[b.tier] - 1)
NoHoleLeft ==
  \A s \in Times : Covered(s) => Covered(s)' \/ (cascade = 4 /\ Retention > 0 /\ Bucket(3, s) < tierNow - Retention)

\* The two together: a range is served whole, and no part of it twice
\* (storage.py, aggregate; routes.py, api_get_samples).
RangesAreServedOnce == [][ServedOnce' /\ NoHoleLeft]_tierVars

\* Claimed of the buckets ("sample count per bucket"): rolling up loses no sample.
Counted == raw \cup UNION {b.of : b \in rolled}
RollUpKeepsSamples ==
  [][cascade # 4 => Counted \subseteq Counted']_tierVars
=============================================================================
