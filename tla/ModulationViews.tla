--------------------------- MODULE ModulationViews ---------------------------
(***************************************************************************)
(* Modulation analysis (modules/modulation/engine.py): from the same       *)
(* snapshots, one request computes daily figures per protocol version, one *)
(* sums them up per day, one draws each channel's timeline of a day, and   *)
(* each adds the capacity seen. The figures go through separate loops.     *)
(*                                                                         *)
(* A snapshot maps the channels it lists to what they report. Days and     *)
(* times of day are local: a clock set back repeats a time. Percentages    *)
(* are left as the counts they are computed from, indices are scaled.      *)
(***************************************************************************)
EXTENDS Sums, SequencesExt

CONSTANTS Carriers,      \* channel ids of one direction
          Reports,       \* what each may report: [version, family, qam, rate]
          Unknown,       \* no number: a modulation without a QAM order, no bitrate
          MaxSnapshots,  \* bound: snapshots in the range asked for
          MaxDay         \* bound: days in it

VARIABLE snaps           \* as storage returns them, oldest first

modulationVars == snaps

Directions == {"us", "ds"}
Versions   == {"3.0", "3.1"}

\* math.log2, for the orders that are named.
Orders    == <<2, 4, 8, 16, 32, 64, 128, 256, 512, 1024, 2048, 4096>>
Bits(qam) == CHOOSE b \in 2..12 : Orders[b] = qam

ASSUME ReportsAssumption ==
  /\ IsFiniteSet(Carriers) /\ Unknown \notin Nat
  /\ \A c \in Carriers : Reports[c] \subseteq [version : Versions, family : STRING,
                                             qam : {Orders[b] : b \in 2..12} \cup {Unknown},
                                             rate : Nat \cup {Unknown}]

MaxBits(d, v) ==
  CASE d = "ds" /\ v = "3.0" -> 8  [] d = "ds" /\ v = "3.1" -> 12
    [] d = "us" /\ v = "3.0" -> 6  [] d = "us" /\ v = "3.1" -> 10

LowUpTo(d, v) == IF d = "us" /\ v = "3.1" THEN 64 ELSE 16
Days          == {snaps[i].day : i \in DOMAIN snaps}

\* An observation is a channel in a snapshot.
Seen(D)    == {o \in (DOMAIN snaps) \X Carriers : snaps[o[1]].day \in D /\ o[2] \in DOMAIN snaps[o[1]].chans}
Report(o)  == snaps[o[1]].chans[o[2]]
Numeric(O) == {o \in O : Report(o).qam # Unknown}
Best(O)    == Max({0} \cup {Report(o).qam : o \in Numeric(O)})

-----------------------------------------------------------------------------
(* The daily figures of a version, and of the whole range. *)

VersionGroup(v, D) == {o \in Seen(D) : Report(o).version = v}
LowOnes(d, v, D)   == {o \in Numeric(VersionGroup(v, D)) : Report(o).qam <= LowUpTo(d, v)}
Degraded(d, v, D)  == {o[2] : o \in LowOnes(d, v, D)}

Scale == 120

\* Upstream, an index is the mean of the bits against the most the version can.
GroupIndex(O, d, v) ==
  LET n == Cardinality(Numeric(O))
      b == SumOver([o \in Numeric(O) |-> Bits(Report(o).qam)], Numeric(O))
  IN  Max({0, Min({100 * Scale, (100 * Scale * (b - 2 * n)) \div (n * (MaxBits(d, v) - 2))})})

\* Downstream, it is the mean of scores against the channel's own best.
QamScore(qam, best) ==
  IF best <= 4 THEN 100 * Scale ELSE (100 * Scale * (Bits(qam) - 2)) \div (Bits(best) - 2)

BaselineIndex(O, base) ==
  SumOver([o \in Numeric(O) |-> QamScore(Report(o).qam, base[o[2]])], Numeric(O)) \div Cardinality(Numeric(O))

RangeBaseline(v, c) == Best({o \in VersionGroup(v, Days) : o[2] = c})

DayIndex(d, v, day) ==
  IF d = "ds" THEN BaselineIndex(VersionGroup(v, {day}), [c \in Carriers |-> RangeBaseline(v, c)])
              ELSE GroupIndex(VersionGroup(v, {day}), d, v)

\* The trend adds the versions' counts of the day again.
TrendSamples(day) == SumOver([v \in Versions |-> Cardinality(VersionGroup(v, {day}))], Versions)
TrendLow(d, day)  == SumOver([v \in Versions |-> Cardinality(LowOnes(d, v, {day}))], Versions)

-----------------------------------------------------------------------------
(* The timelines of one day: its snapshots sorted by the time of day alone. *)

\* Mutant of Earlier: in the order they were stored.
EarlierAsStored(i, j) == i < j

Earlier(i, j) == snaps[i].time < snaps[j].time \/ (snaps[i].time = snaps[j].time /\ i < j)

InOrder(S) == CHOOSE s \in [1..Cardinality(S) -> S] : \A j, k \in DOMAIN s : j < k => Earlier(s[j], s[k])

ListedOn(c, day)     == {i \in DOMAIN snaps : snaps[i].day = day /\ c \in DOMAIN snaps[i].chans}
Timeline(c, day)     == InOrder(ListedOn(c, day))
DayVersion(c, day)   == snaps[Timeline(c, day)[1]].chans[c].version      \* of the first snapshot
OfDay(c, day)        == {<<i, c>> : i \in ListedOn(c, day)}

Extend(periods, i, c) ==
  LET at  == snaps[i].time
      qam == snaps[i].chans[c].qam
  IN  IF periods # <<>> /\ Last(periods).qam = qam
      THEN [periods EXCEPT ![Len(periods)] = [start |-> @.start, end |-> at, qam |-> qam, count |-> @.count + 1]]
      ELSE Append(periods, [start |-> at, end |-> at, qam |-> qam, count |-> 1])

PeriodsOf(timeline, c) == FoldLeft(LAMBDA periods, i : Extend(periods, i, c), <<>>, timeline)
Periods(c, day)        == PeriodsOf(Timeline(c, day), c)

\* Mutant of LowPeriods: the bound of the older versions for every upstream channel.
LowPeriodsOldBound(d, c, day) ==
  {k \in DOMAIN Periods(c, day) : LET qam == Periods(c, day)[k].qam IN qam # Unknown /\ qam <= 16}

LowPeriods(d, c, day) ==
  {k \in DOMAIN Periods(c, day) :
     LET qam == Periods(c, day)[k].qam IN qam # Unknown /\ qam <= LowUpTo(d, DayVersion(c, day))}

LowSamples(d, c, day) ==
  LET low == LowPeriods(d, c, day) IN SumOver([k \in low |-> Periods(c, day)[k].count], low)

ChannelIndex(d, c, day) ==
  IF d = "ds" THEN BaselineIndex(OfDay(c, day), [k \in {c} |-> Best(OfDay(c, day))])
              ELSE GroupIndex(OfDay(c, day), d, DayVersion(c, day))

\* The channels drawn for a day under a version, and those with a number at all.
Drawn(v, day)   == {c \in Carriers : ListedOn(c, day) # {} /\ DayVersion(c, day) = v}
Indexed(v, day) == {c \in Drawn(v, day) : Numeric(OfDay(c, day)) # {}}

-----------------------------------------------------------------------------
(* Capacity, of SC-QAM channels only: the bitrate reported, or else computed. *)

Capacity(o) ==
  IF Report(o).family # "sc_qam" THEN Unknown
  ELSE IF Report(o).rate # Unknown THEN Report(o).rate
  ELSE IF Report(o).qam # Unknown THEN Bits(Report(o).qam)
  ELSE Unknown

Calculated(O) == {o \in O : Capacity(o) # Unknown}
SnapshotCapacity(i) ==
  LET O == Calculated({o \in Seen(Days) : o[1] = i}) IN SumOver([o \in O |-> Capacity(o)], O)

\* The snapshots of D with a capacity; smallest, largest and latest are of these.
WithCapacity(D) == {o[1] : o \in Calculated(Seen(D))}

CapacityHistory(D) ==
  LET C == {SnapshotCapacity(i) : i \in WithCapacity(D)} IN
  [least   |-> IF C = {} THEN Unknown ELSE Min(C),
   most    |-> IF C = {} THEN Unknown ELSE Max(C),
   current |-> IF C = {} THEN Unknown ELSE SnapshotCapacity(Max(WithCapacity(D))),
   samples |-> Cardinality(WithCapacity(D)),
   known   |-> Cardinality(Calculated(Seen(D))),
   total   |-> Cardinality(Seen(D))]

-----------------------------------------------------------------------------
ModulationInit == snaps = <<>>

Listings == UNION {[C -> UNION {Reports[c] : c \in C}] : C \in SUBSET Carriers}

\* A poll stores a snapshot: later the same day, or the next day, or after the
\* clock was set back, at a time the day has had.
TakeSnapshot ==
  /\ Len(snaps) < MaxSnapshots
  /\ \E chans \in {l \in Listings : \A c \in DOMAIN l : l[c] \in Reports[c]} :
     \E at \in IF snaps = <<>> THEN {<<1, 1>>}
               ELSE LET p == Last(snaps) IN {<<p.day, p.time + 1>>, <<p.day, p.time - 1>>, <<p.day + 1, 1>>} :
       /\ at[1] <= MaxDay /\ at[2] >= 1
       /\ snaps' = Append(snaps, [day |-> at[1], time |-> at[2], chans |-> chans])

ModulationNext == TakeSnapshot

ModulationSpec == ModulationInit /\ [][ModulationNext]_modulationVars

-----------------------------------------------------------------------------
(* Properties. *)

\* A channel that kept its version that day: one that changed it is drawn whole
\* under its first.
KeptVersion(day) == \A o \in Seen({day}) : Report(o).version = DayVersion(o[2], day)

\* What the overview counts of a version on a day is what its timelines show, sample
\* by sample and channel by channel.
OverviewIsTimelines(d, v, day) ==
  /\ Cardinality(VersionGroup(v, {day})) = SumOver([c \in Drawn(v, day) |-> Len(Timeline(c, day))], Drawn(v, day))
  /\ Cardinality(LowOnes(d, v, {day})) = SumOver([c \in Drawn(v, day) |-> LowSamples(d, c, day)], Drawn(v, day))
  /\ Degraded(d, v, {day}) = {c \in Drawn(v, day) : LowPeriods(d, c, day) # {}}

\* A day's index is none its channels' timelines could not explain: not above the
\* best of theirs, nor, upstream, below the worst.
IndexIsOfChannels(d, v, day) ==
  Indexed(v, day) # {} =>
    LET theirs == {ChannelIndex(d, c, day) : c \in Indexed(v, day)} IN
      /\ DayIndex(d, v, day) <= Max(theirs)
      /\ d = "us" => DayIndex(d, v, day) >= Min(theirs)

\* The periods of a day follow one another, whatever the clock does.
PeriodsInOrder(c, day) ==
  LET p == Periods(c, day) IN
    /\ \A i \in DOMAIN p : p[i].start <= p[i].end
    /\ \A i \in 1..(Len(p) - 1) : p[i].end <= p[i + 1].start /\ p[i].qam # p[i + 1].qam

\* The capacity of a range is that of its days.
CapacityIsOfDays ==
  LET all == CapacityHistory(Days)  of(day) == CapacityHistory({day})
      some == {day \in Days : of(day).samples > 0} IN
    /\ all.samples = SumOver([day \in Days |-> of(day).samples], Days)
    /\ all.known = SumOver([day \in Days |-> of(day).known], Days)
    /\ some # {} => /\ all.least = Min({of(day).least : day \in some})
                    /\ all.most = Max({of(day).most : day \in some})
                    /\ all.current = of(Max(some)).current

\* The views of the same snapshots agree, for either direction: overview and trend
\* with the timelines of each day, and the range with its days (engine.py,
\* compute_distribution_v2, compute_intraday, compute_capacity_history).
ViewsAgree ==
  /\ \A day \in Days, d \in Directions :
       /\ KeptVersion(day) => \A v \in Versions : OverviewIsTimelines(d, v, day) /\ IndexIsOfChannels(d, v, day)
       /\ TrendSamples(day) = Cardinality(Seen({day}))
       /\ KeptVersion(day) => LET drawn == UNION {Drawn(v, day) : v \in Versions} IN
                                TrendLow(d, day) = SumOver([c \in drawn |-> LowSamples(d, c, day)], drawn)
  /\ \A day \in Days, c \in Carriers : PeriodsInOrder(c, day)
  /\ CapacityIsOfDays
=============================================================================
