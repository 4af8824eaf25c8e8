----------------------------- MODULE SignalHealth -----------------------------
(***************************************************************************)
(* The health the analyzer (app/analyzer.py) gives one poll: of every      *)
(* channel, of the families of channels on the Home page, and of the line  *)
(* as a whole, which is put together from the channels' details a second   *)
(* time and then corrected twice for error counters.  Levels and QAM       *)
(* orders are tenths and numbers as in _FALLBACK_THRESHOLDS.  Left out:    *)
(* capacities, statistics and the counters themselves (ErrorCounters).     *)
(***************************************************************************)
EXTENDS Integers, FiniteSets

CONSTANTS
  DsScQam, DsOfdm, UsScQam, UsOfdma,    \* the channels
  Missing,                              \* a metric that the modem does not report
  MaxFlaws                              \* bound: metrics, verdicts, spikes that are not usual

Ds       == DsScQam \cup DsOfdm
Us       == UsScQam \cup UsOfdma
Families == {DsScQam, DsOfdm, UsScQam, UsOfdma}

\* A channel is of one kind.
ASSUME HealthAssumption ==
  /\ Ds \cap Us = {} /\ DsScQam \cap DsOfdm = {} /\ UsScQam \cap UsOfdma = {}
  /\ MaxFlaws \in Nat

VARIABLES
  reading,      \* of each channel: power, snr, qam; and whether it marks its SNR as invalid
  totals, fresh,    \* what the counters, and their growth from the baseline, say: a level
  moved,        \* uncorrectable errors came since the last poll
  analyses,     \* analyses so far: none, the first, or one with a predecessor to compare with
  spike         \* the last error_spike event: "none", "recent", "expired"

healthVars == <<reading, totals, fresh, moved, analyses, spike>>

Usual(c) ==
  [power |-> IF c \in Us THEN 450 ELSE 50, snr |-> IF c \in Ds THEN 400 ELSE Missing,
   qam |-> IF c \in DsOfdm THEN 1024 ELSE IF c \in UsScQam THEN 64 ELSE 256, valid |-> TRUE]

Powers(c) == {Missing} \cup IF c \in UsScQam THEN {340, 360, 405, 450, 475, 520, 540}
                            ELSE IF c \in UsOfdma THEN {370, 390, 420, 450, 475, 490, 510}
                            ELSE {-90, 50, 140, 155, 170}
Snrs(c)   == {Missing} \cup IF c \in Ds THEN {220, 240, 250, 260, 280, 300, 320, 400} ELSE {}
Qams      == {Missing, 4, 16, 64, 128, 256, 512, 1024}
Metrics   == {"power", "snr", "modulation"}
Verdicts  == {"good", "marginal", "critical"}

Flaws(r, t, g, s) ==
  Cardinality({f \in (Ds \cup Us) \X {"power", "snr", "qam"} : r[f[1]][f[2]] # Usual(f[1])[f[2]]})
  + (IF t = "good" THEN 0 ELSE 1) + (IF g = "good" THEN 0 ELSE 1) + (IF s = "none" THEN 0 ELSE 1)

HealthInit ==
  /\ reading = [c \in Ds \cup Us |-> Usual(c)]
  /\ totals = "good" /\ fresh = "good" /\ moved = FALSE /\ analyses = 0 /\ spike = "none"

\* A channel reads otherwise at the next poll; a driver that marks an SNR as invalid omits it.
Drift(c) ==
  /\ analyses # 0
  /\ \/ \E p \in Powers(c) : reading' = [reading EXCEPT ![c].power = p]
     \/ \E q \in Qams : reading' = [reading EXCEPT ![c].qam = q]
     \/ \E s \in Snrs(c) : reading' = [reading EXCEPT ![c].snr = s, ![c].valid = TRUE]
     \/ c \in Ds /\ reading' = [reading EXCEPT ![c].snr = Missing, ![c].valid = FALSE]
  /\ reading' # reading /\ Flaws(reading', totals, fresh, spike) <= MaxFlaws
  /\ UNCHANGED <<totals, fresh, moved, analyses, spike>>

\* A further poll, before which counters have grown, wrapped or been reset.
FirstPoll == analyses = 0 /\ analyses' = 1 /\ totals' \in Verdicts /\ UNCHANGED <<reading, fresh, moved, spike>>

NextPoll ==
  /\ analyses # 0 /\ analyses' = 2
  /\ totals' \in Verdicts /\ fresh' \in Verdicts /\ moved' \in BOOLEAN
  /\ Flaws(reading, totals', fresh', spike) <= MaxFlaws
  /\ UNCHANGED <<reading, spike>>

SpikeComes   == analyses = 2 /\ Flaws(reading, totals, fresh, "recent") <= MaxFlaws
                /\ spike' = "recent" /\ UNCHANGED <<reading, totals, fresh, moved, analyses>>
SpikeExpires == spike = "recent" /\ spike' = "expired" /\ UNCHANGED <<reading, totals, fresh, moved, analyses>>

HealthNext == (\E c \in Ds \cup Us : Drift(c)) \/ FirstPoll \/ NextPoll \/ SpikeComes \/ SpikeExpires
HealthSpec == HealthInit /\ [][HealthNext]_healthVars

---------------------------------------------------------------------------
(* Of one channel.                                                         *)

Severity == [good |-> 0, tolerated |-> 1, warning |-> 2, marginal |-> 2, critical |-> 3]

WorstOf(levels) ==
  CHOOSE l \in {"good", "tolerated", "warning", "critical"} :
    /\ \A k \in levels : Severity[k] <= Severity[l]
    /\ l = "good" \/ \E k \in levels : Severity[k] = Severity[l]

\* critical, warning and good ends of the range
PowerRange(c) ==
  LET bounds(lo, hi) == [critical |-> <<lo[1], hi[1]>>, warning |-> <<lo[2], hi[2]>>, good |-> <<lo[3], hi[3]>>]
  IN  IF c \in UsScQam THEN bounds(<<350, 371, 411>>, <<530, 510, 470>>)
      ELSE IF c \in UsOfdma THEN bounds(<<380, 401, 441>>, <<500, 480, 470>>)
      ELSE IF c \in DsOfdm THEN bounds(<<-150, -150, -120>>, <<150, 150, 120>>)
      ELSE IF reading[c].qam = 64 THEN bounds(<<-140, -120, -100>>, <<160, 120, 70>>)
      ELSE IF reading[c].qam = 1024 THEN bounds(<<-60, -40, -20>>, <<160, 160, 150>>)
      ELSE bounds(<<-80, -60, -40>>, <<160, 150, 130>>)

Outside(x, range) == x < range[1] \/ x > range[2]

PowerLevel(c) ==
  LET x == reading[c].power  r == PowerRange(c)
  IN  IF x = Missing THEN "good"
      ELSE IF Outside(x, r.critical) THEN "critical"
      ELSE IF Outside(x, r.warning) THEN "warning"
      ELSE IF Outside(x, r.good) THEN "tolerated" ELSE "good"

Low(c) == reading[c].power < PowerRange(c).good[1]

SnrFloor(c) ==
  IF c \in DsOfdm THEN [critical |-> 245, warning |-> 255, good |-> 270]
  ELSE IF reading[c].qam = 64 THEN [critical |-> 230, warning |-> 250, good |-> 270]
  ELSE IF reading[c].qam = 1024 THEN [critical |-> 360, warning |-> 370, good |-> 390]
  ELSE [critical |-> 290, warning |-> 310, good |-> 330]

SnrLevel(c) ==
  LET x == reading[c].snr  f == SnrFloor(c)
  IN  IF c \in Us \/ x = Missing THEN "good"
      ELSE IF x < f.critical THEN "critical"
      ELSE IF x < f.warning THEN "warning"
      ELSE IF x < f.good THEN "tolerated" ELSE "good"

QamLevel(c) ==
  LET q == reading[c].qam
      below(critical, warning, tolerated) ==
        IF q < critical THEN "critical" ELSE IF q < warning THEN "warning"
        ELSE IF q < tolerated THEN "tolerated" ELSE "good"
  IN  IF q = Missing THEN "good"
      ELSE IF c \in DsOfdm THEN below(256, 512, 1024)
      ELSE IF c \in DsScQam THEN below(64, 64, 64)
      ELSE IF c \in UsOfdma THEN below(33, 65, 129)
      ELSE below(5, 17, 17)

\* The details of a channel, and the worst of them: _assess_ds_channel, _assess_us_channel.
Details(c, metric) ==
  CASE metric = "power"      -> {PowerLevel(c)}
    [] metric = "modulation" -> {QamLevel(c)}
    [] metric = "snr"        -> {SnrLevel(c)} \cup IF reading[c].valid THEN {} ELSE {"warning"}

ChannelHealth(c) == WorstOf(UNION {Details(c, m) : m \in Metrics})

---------------------------------------------------------------------------
(* Of a family, for the Home page.                                         *)

Reported(F, metric) == {c \in F : reading[c][IF metric = "modulation" THEN "qam" ELSE metric] # Missing}

MetricHealth(F, metric) == WorstOf(UNION {Details(c, metric) : c \in Reported(F, metric)})

\* The worst of what is reported; a family that reports nothing is "missing", here good.
FamilyHealth(F) == WorstOf({MetricHealth(F, m) : m \in Metrics})

Cause(F) ==
  IF MetricHealth(F, "modulation") = FamilyHealth(F) THEN "modulation"
  ELSE IF MetricHealth(F, "power") = FamilyHealth(F) THEN "power" ELSE "snr"

\* Channels the page may name as the driver of the family's health.
Drivers(F) == {c \in Reported(F, Cause(F)) : FamilyHealth(F) \in Details(c, Cause(F))}

---------------------------------------------------------------------------
(* Of the line: the issues of analyze(), and the two corrections.          *)

LevelName(l) == IF l = "warning" THEN "marginal" ELSE l

\* The worst level of a metric, if it is not good: if any(...) elif any(...) elif any(...).
IssueOf(channels, metric) ==
  {LevelName(WorstOf(UNION {Details(c, metric) : c \in channels}))} \ {"good"}

\* Mutant of SignalIssues: the upstream power is looked at on its low side only.
SignalIssuesLowSide ==
  IssueOf(Ds, "power") \cup IssueOf(Ds, "modulation") \cup IssueOf(Ds, "snr")
  \cup IssueOf({c \in Us : reading[c].power # Missing /\ Low(c)}, "power")
  \cup (IssueOf(Us, "modulation") \ {"tolerated"})

\* Upstream power by side; an upstream modulation that is tolerated has no issue.
SignalIssues ==
  IssueOf(Ds, "power") \cup IssueOf(Ds, "modulation") \cup IssueOf(Ds, "snr")
  \cup IssueOf({c \in Us : reading[c].power # Missing /\ Low(c)}, "power")
  \cup IssueOf({c \in Us : reading[c].power # Missing /\ ~Low(c)}, "power")
  \cup (IssueOf(Us, "modulation") \ {"tolerated"})

\* apply_cumulative_error_baseline, or the totals where it returns early; ...
Scored == IF spike = "recent" \/ analyses < 2 THEN totals ELSE fresh

\* ... and apply_spike_suppression.
ErrorIssue ==
  IF Scored = "good" \/ (spike = "expired" /\ ~moved) THEN {} ELSE {Scored}

\* _recalculate_summary_health
LineHealth ==
  LET issues == SignalIssues \cup ErrorIssue
  IN  IF issues = {} THEN "good"
      ELSE IF "critical" \in issues THEN "critical"
      ELSE IF "marginal" \in issues THEN "marginal" ELSE "tolerated"

---------------------------------------------------------------------------
\* The three healths of a poll agree, although each is put together on its own.  The line
\* is as bad as its worst channel or its error verdict, but for an upstream modulation that
\* is only tolerated.  A family is as bad as its worst channel, but for an SNR that is
\* marked as invalid; and if it is bad, a channel of it shows the cause the page names.
\* Errors of long ago, with no growth since the last poll, are not held against a line
\* whose last spike has expired.
HealthsAgree ==
  LET told(c) == IF c \in Ds THEN ChannelHealth(c)
                 ELSE WorstOf(Details(c, "power") \cup (Details(c, "modulation") \ {"tolerated"}))
      seen(c) == IF reading[c].valid THEN ChannelHealth(c)
                 ELSE WorstOf(Details(c, "power") \cup Details(c, "modulation"))
      errors  == IF spike = "expired" /\ ~moved THEN {} ELSE ErrorIssue
  IN  analyses # 0 =>
      /\ LineHealth = LevelName(WorstOf({told(c) : c \in Ds \cup Us} \cup errors))
      /\ \A F \in Families : FamilyHealth(F) = WorstOf({seen(c) : c \in F})
      /\ \A F \in Families : FamilyHealth(F) # "good" => Drivers(F) # {}
=============================================================================
