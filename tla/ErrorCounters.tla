----------------------------- MODULE ErrorCounters -----------------------------
(***************************************************************************)
(* Uncorrectable-error counters from poll to poll: growth against a        *)
(* baseline (app/error_counters.py, analyzer.py), growth over one interval *)
(* and the unwrapped series of the charts (app/storage/error_counters.py). *)
(* Counters are hardware registers that wrap, are reset by the modem, and  *)
(* belong to channels that come and go.  Left out: correctable errors,     *)
(* which follow the same rules, and totals over channels that report only  *)
(* one of the two.                                                         *)
(***************************************************************************)
EXTENDS Sums

CONSTANTS
  Channels,
  Size,           \* UINT32_COUNTER_SIZE
  Starts,         \* bound: registers when DOCSight first looks
  Growths,        \* bound: errors of a channel between two polls
  MaxPolls,       \* bound
  MaxUpsets,      \* bound: polls before which something else than growth happens
  NoCounts

ASSUME CounterAssumption ==
  /\ IsFiniteSet(Channels) /\ Size \in Nat \ {0} /\ Size % 4 = 0
  /\ Starts \subseteq 0..(Size - 1) /\ Growths \subseteq Nat
  /\ {MaxPolls, MaxUpsets} \subseteq Nat

VARIABLES
  polls, upsets,
  counter,      \* each channel's register at the last poll
  listed,       \* channels in that analysis
  baseline,     \* its summary["error_baseline"]: the cohort and its sum
  growth,       \* its recent and cumulative deltas
  observed,     \* observed_counter_increase of the last two analyses
  chart,        \* unwrap_uint32_counter_series of all analyses, by channel
  sumChart,     \* the same for the sum
  total,        \* history: errors that really happened
  grown,        \* history: those of the last interval
  atBaseline,   \* history: total when the baseline was taken
  atReport,     \* history: total when the channel was last listed
  steady,       \* history: channels never reset whose growth the charts can follow
  sumSteady,    \* history: the same of the sum
  topReset      \* history: since the last poll a register was reset near its end

counterVars == <<polls, upsets, counter, listed, baseline, growth, observed, chart, sumChart,
                 total, grown, atBaseline, atReport, steady, sumSteady, topReset>>

Quarter == Size \div 4

CounterTypeOK ==
  /\ polls \in 0..MaxPolls /\ upsets \in 0..MaxUpsets
  /\ counter \in [Channels -> 0..(Size - 1)] /\ {listed, steady} \subseteq SUBSET Channels
  /\ {total, grown, atBaseline, atReport} \subseteq [Channels -> Nat]
  /\ baseline = NoCounts \/ (baseline.keys \subseteq Channels /\ baseline.sum \in Nat)
  /\ growth = NoCounts \/ {growth.recent, growth.delta} \subseteq Nat
  /\ observed = NoCounts \/ observed \in Nat
  /\ {sumSteady, topReset} \subseteq BOOLEAN

(***************************************************************************)
(* unwrap_uint32_counter_series, one row after another.                    *)
(***************************************************************************)

LooksLikeWrap(before, now, aggregate) ==
  /\ now < before
  /\ \/ before % Size >= 3 * Quarter /\ now % Size <= Quarter
     \/ aggregate /\ (before - now) % Size >= 3 * Quarter

FirstRow(raw) == [offset |-> 0, raw |-> raw, shown |-> raw]

NextRow(row, raw, aggregate) ==
  LET short  == (row.shown - raw - row.offset) \div Size
      offset == CASE LooksLikeWrap(row.raw, raw, aggregate) -> row.offset + Size * (IF short > 0 THEN short + 1 ELSE 1)
                  [] raw < row.raw /\ ~LooksLikeWrap(row.raw, raw, aggregate) -> 0
                  [] OTHER -> row.offset
  IN [offset |-> offset, raw |-> raw, shown |-> raw + offset]

\* Two rows of each channel, unwrapped; unknown if a channel joined, left or fell.
ObservedIncrease(before, after, cohort, nowCohort) ==
  LET shown(c) == NextRow(FirstRow(before[c]), after[c], FALSE).shown IN
  IF cohort = {} \/ cohort # nowCohort \/ \E c \in cohort : shown(c) < before[c]
    THEN NoCounts
    ELSE SumOver([c \in cohort |-> shown(c) - before[c]], cohort)

(***************************************************************************)
(* calculate_error_counter_growth                                          *)
(***************************************************************************)
\* The baseline of the last analysis, or, if it has none, that analysis.
Base == IF baseline = NoCounts THEN [keys |-> listed, sum |-> SumOver(counter, listed)] ELSE baseline

\* Mutant of CohortChanged: as many channels pass for the same.
CohortSizeChanged(now) == Cardinality(now) # Cardinality(listed) \/ Cardinality(now) # Cardinality(Base.keys)
CohortChanged(now)     == now # listed \/ now # Base.keys

Fresh(after, now) ==
  \/ CohortChanged(now)
  \/ SumOver(after, now) < SumOver(counter, listed) \/ SumOver(after, now) < Base.sum

CounterInit ==
  /\ polls = 0 /\ upsets = 0
  /\ counter \in [Channels -> Starts] /\ listed = Channels
  /\ baseline = NoCounts /\ growth = NoCounts /\ observed = NoCounts
  /\ chart = [c \in Channels |-> FirstRow(counter[c])]
  /\ sumChart = FirstRow(SumOver(counter, Channels))
  /\ total = counter /\ grown = [c \in Channels |-> 0] /\ atBaseline = counter /\ atReport = counter
  /\ steady = Channels /\ sumSteady = TRUE /\ topReset = FALSE

\* apply_cumulative_error_baseline, with an error spike in the last hours that makes
\* it return at once, or with a last analysis of an older version of the analyzer.
Score(after, now, recentSpike, olderSchema) ==
  IF recentSpike
    THEN /\ baseline' = NoCounts /\ growth' = NoCounts /\ atBaseline' = total'
    ELSE IF olderSchema \/ Fresh(after, now)
    THEN /\ baseline' = [keys |-> now, sum |-> SumOver(after, now)]
         /\ growth' = [recent |-> 0, delta |-> 0] /\ atBaseline' = total'
    ELSE /\ baseline' = [keys |-> now, sum |-> Base.sum]
         /\ growth' = [recent |-> SumOver(after, now) - SumOver(counter, listed), delta |-> SumOver(after, now) - Base.sum]
         /\ UNCHANGED atBaseline

\* What the charts can follow: no reset, and less than a quarter between two reports.
Followed(grow, resets, now) ==
  /\ steady' = {c \in steady \ resets : total'[c] - atReport[c] <= Quarter}
  /\ sumSteady' = (sumSteady /\ resets = {} /\ now = Channels /\ SumOver(grow, Channels) <= Quarter)
  /\ atReport' = [c \in Channels |-> IF c \in now THEN total'[c] ELSE atReport[c]]
  /\ topReset' = \E c \in resets : counter[c] >= 3 * Quarter

\* An analysis, after errors and perhaps something else.
Poll(grow, resets, now, recentSpike, olderSchema) ==
  LET after == [c \in Channels |-> (grow[c] + IF c \in resets THEN 0 ELSE counter[c]) % Size]
      upset == resets # {} \/ now # listed \/ recentSpike \/ olderSchema
  IN
  /\ polls < MaxPolls /\ polls' = polls + 1
  /\ upset => upsets < MaxUpsets
  /\ upsets' = IF upset THEN upsets + 1 ELSE upsets
  /\ counter' = after /\ listed' = now
  /\ total' = [c \in Channels |-> total[c] + grow[c]] /\ grown' = grow
  /\ Score(after, now, recentSpike, olderSchema)
  /\ observed' = ObservedIncrease(counter, after, listed, now)
  /\ chart' = [c \in Channels |-> IF c \in now THEN NextRow(chart[c], after[c], FALSE) ELSE chart[c]]
  /\ sumChart' = IF now = {} THEN sumChart ELSE NextRow(sumChart, SumOver(after, now), TRUE)
  /\ Followed(grow, resets, now)

CounterNext ==
  \E grow \in [Channels -> Growths], resets, now \in SUBSET Channels, recentSpike, olderSchema \in BOOLEAN :
    Poll(grow, resets, now, recentSpike, olderSchema)

CounterSpec == CounterInit /\ [][CounterNext]_counterVars

\* "without crossing support cohorts or resets": what is scored against the thresholds
\* never exceeds the errors that the same channels really had, in the last interval and
\* since the baseline, through wraps, resets hidden by growth, and channels that swap.
GrowthIsReal ==
  growth # NoCounts =>
    /\ growth.recent <= SumOver(grown, listed)
    /\ growth.delta <= SumOver(total, listed) - SumOver(atBaseline, listed)

\* The same of the growth over one interval, where a wrap is unwrapped; a reset near the
\* end of the register is the one that cannot be told from a wrap.
ObservedIsReal == observed # NoCounts /\ ~topReset => observed <= SumOver(grown, listed)

\* The charts show the true counts of a channel that is not reset and grows by a quarter
\* of the register at most from report to report, and of the sum likewise, even when
\* several channels wrap at once.
ChartsAreExact ==
  /\ \A c \in listed \cap steady : chart[c].shown = total[c]
  /\ sumSteady => sumChart.shown = SumOver(total, Channels)

\* All three: nothing is scored, reported or shown that did not happen.
CountersAreReal == GrowthIsReal /\ ObservedIsReal /\ ChartsAreExact
=============================================================================
