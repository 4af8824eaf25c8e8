------------------------ MODULE ConnectionMonitorProofs ------------------------
(***************************************************************************)
(* Proofs about the connection monitor, for any targets, any threshold and *)
(* any number of faults: the rules agree with the saved samples, the event *)
(* log agrees with the rules, a trace begins only off its cooldown, and    *)
(* the tiers of old samples serve each sample once.                        *)
(***************************************************************************)
EXTENDS ConnectionMonitor, TracerouteTrigger, IcmpProbe, SampleTiers, FiniteSetTheorems, SequenceTheorems, TLAPS

\* The next-state relation, flat: every action a disjunct.
LEMMA NextCases ==
  ASSUME [Next]_vars
  PROVE  \/ \E t \in Targets : BecomeDue(t) \/ LossCools(t)
         \/ StartBatch \/ SaveSamples \/ SaveRejected \/ CheckProbeResult \/ LoopOverEvents \/ SaveEvents
         \/ \E t \in Targets : \/ \E r \in {"answer", "timeout"} : Answer(t, r)
                               \/ \E lossy \in BOOLEAN : CheckWindowStats(t, lossy)
         \/ Late \/ SaveFails \/ CheckFails \/ NewCollector
         \/ \E t \in Targets, s \in {"enabled", "disabled", "deleted"} : SetStatus(t, s)
         \/ UNCHANGED vars
  BY DEF Next, Collect

(***************************************************************************)
(* Types.                                                                  *)
(***************************************************************************)
Counts == [Targets -> 0..Threshold]

\* A count that grows stays a count.
LEMMA LongerType ==
  ASSUME NEW count \in Counts
  PROVE  Longer(count) \in Counts
<1> USE MonitorAssumption DEF Counts
<1> SUFFICES ASSUME NEW t \in Targets PROVE Longer(count)[t] \in 0..Threshold
  BY DEF Longer
<1>1. CASE result[t] = "timeout" BY <1>1 DEF Longer
<1>2. CASE result[t] = "answer" BY <1>2 DEF Longer
<1>3. CASE result[t] \notin {"timeout", "answer"} BY <1>3 DEF Longer
<1>4. QED BY <1>1, <1>2, <1>3

LEMMA InitTyped == Init => TypeOK
  BY MonitorAssumption DEF Init, TypeOK

LEMMA TypePreserved == TypeOK /\ [Next]_vars => TypeOK'
<1> SUFFICES ASSUME TypeOK, [Next]_vars PROVE TypeOK'
  OBVIOUS
<1> USE MonitorAssumption DEF TypeOK, Events, Kinds
<1>0. UNCHANGED vars => TypeOK'
  BY DEF vars, dbVars, runVars, ruleVars, history
<1>1. ASSUME NEW t \in Targets, BecomeDue(t) \/ LossCools(t) PROVE TypeOK'
  <2>1. lossCooled' \in [Targets -> BOOLEAN]
    BY <1>1, Zenon DEF BecomeDue, LossCools, ruleVars
  <2>2. due' \subseteq Targets /\ UNCHANGED <<dbVars, pc, batch, result, unchecked, events, timeouts, inOutage, history>>
    BY <1>1 DEF BecomeDue, LossCools, runVars, ruleVars
  <2>3. QED BY <2>1, <2>2 DEF dbVars, history
<1>2. StartBatch => TypeOK'
  BY DEF StartBatch, dbVars, ruleVars, history
<1>3. SaveSamples => TypeOK'
  <2> SUFFICES ASSUME SaveSamples PROVE TypeOK'
    OBVIOUS
  <2>1. Longer(streak) \in Counts /\ Longer(seen) \in Counts
    BY LongerType DEF Counts
  <2>2. QED BY <2>1 DEF SaveSamples, ruleVars, Counts
<1>4. CheckProbeResult => TypeOK'
  <2> SUFFICES ASSUME CheckProbeResult PROVE TypeOK'
    OBVIOUS
  <2>1. Longer(timeouts) \in Counts
    BY LongerType DEF Counts
  <2>2. timeouts' \in Counts /\ events' \subseteq Events /\ inOutage' \in [Targets -> BOOLEAN]
    BY <2>1 DEF CheckProbeResult
  <2>3. QED BY <2>2 DEF CheckProbeResult, dbVars, history, Counts
<1>5. LoopOverEvents => TypeOK'
  BY DEF LoopOverEvents, dbVars, ruleVars, history
<1>6. SaveEvents => TypeOK'
  BY DEF SaveEvents, NoRun, ruleVars
<1>7. ASSUME NEW t \in Targets, NEW r \in {"answer", "timeout"}, Answer(t, r) PROVE TypeOK'
  BY <1>7 DEF Answer, dbVars, ruleVars, history
<1>8. ASSUME NEW t \in Targets, NEW lossy \in BOOLEAN, CheckWindowStats(t, lossy) PROVE TypeOK'
  <2>1. lossCooled' \in [Targets -> BOOLEAN]
    BY <1>8, Zenon DEF CheckWindowStats
  <2>2. events' \subseteq Events /\ unchecked' \subseteq Targets
    BY <1>8 DEF CheckWindowStats
  <2>3. UNCHANGED <<dbVars, due, pc, batch, result, timeouts, inOutage, history>>
    BY <1>8 DEF CheckWindowStats
  <2>4. QED BY <2>1, <2>2, <2>3 DEF dbVars, history
<1>9. Late \/ SaveRejected => TypeOK'
  BY DEF Late, SaveRejected, NoRun, dbVars, ruleVars, history
<1>10. SaveFails => TypeOK'
  BY DEF SaveFails, NoRun, Fault, dbVars, ruleVars
<1>11. CheckFails => TypeOK'
  BY DEF CheckFails, NoRun, Fault, Outages, Logged, dbVars, ruleVars
<1>12. NewCollector => TypeOK'
  BY DEF NewCollector, Forget, NewRules, NoRun, Fault, Outages, Logged, dbVars
<1>13. ASSUME NEW t \in Targets, NEW s \in {"enabled", "disabled", "deleted"}, SetStatus(t, s) PROVE TypeOK'
  BY <1>13 DEF SetStatus, runVars, ruleVars, history
<1>14. QED
  BY <1>0, <1>1, <1>2, <1>3, <1>4, <1>5, <1>6, <1>7, <1>8, <1>9, <1>10, <1>11, <1>12, <1>13, NextCases

\* Whatever the network, the users and the faults do, every variable keeps its type; no
\* count passes the threshold.
THEOREM Typing == Spec => []TypeOK
  BY InitTyped, TypePreserved, PTL DEF Spec

(***************************************************************************)
(* The rules and the samples.                                              *)
(***************************************************************************)
\* Only probes of the batch have results.
BatchInv ==
  /\ \A t \in Targets : result[t] # "none" => t \in batch
  /\ pc = "idle" => batch = {}

\* Between the write of the samples and the rules, history is one batch ahead.
AheadInv ==
  /\ pc = "rules" => seen = Longer(timeouts)
  /\ pc # "rules" => seen = timeouts

OutageInv == \A t \in Targets : inOutage[t] <=> timeouts[t] = Threshold
TraceInv  == \A t \in Targets : status[t] # "deleted" => seen[t] <= streak[t]

RulesInv == BatchInv /\ AheadInv /\ OutageInv /\ TraceInv

LEMMA BatchPreserved == TypeOK /\ BatchInv /\ [Next]_vars => BatchInv'
<1> SUFFICES ASSUME TypeOK, BatchInv, [Next]_vars PROVE BatchInv'
  OBVIOUS
<1>1. ASSUME UNCHANGED <<pc, batch, result>> PROVE BatchInv'
  BY <1>1 DEF BatchInv
<1>2. NoRun => BatchInv'
  BY DEF NoRun, BatchInv
<1>3. StartBatch => BatchInv'
  BY DEF StartBatch, BatchInv
<1>4. ASSUME NEW t \in Targets, NEW r \in {"answer", "timeout"}, Answer(t, r) PROVE BatchInv'
  BY <1>4 DEF Answer, BatchInv, TypeOK
<1>5. SaveSamples \/ CheckProbeResult \/ LoopOverEvents => BatchInv'
  BY DEF SaveSamples, CheckProbeResult, LoopOverEvents, BatchInv
<1>6. SaveRejected \/ SaveEvents \/ Late \/ SaveFails \/ CheckFails \/ NewCollector => BatchInv'
  BY <1>2 DEF SaveRejected, SaveEvents, Late, SaveFails, CheckFails, NewCollector
<1>7. ASSUME NEW t \in Targets, NEW lossy \in BOOLEAN, CheckWindowStats(t, lossy) PROVE BatchInv'
  BY <1>7, <1>1 DEF CheckWindowStats
<1>8. ASSUME NEW t \in Targets, BecomeDue(t) \/ LossCools(t) PROVE BatchInv'
  BY <1>8, <1>1 DEF BecomeDue, LossCools, runVars
<1>9. ASSUME NEW t \in Targets, NEW s \in {"enabled", "disabled", "deleted"}, SetStatus(t, s) PROVE BatchInv'
  BY <1>9, <1>1 DEF SetStatus, runVars
<1>10. UNCHANGED vars => BatchInv'
  BY <1>1 DEF vars, runVars
<1>11. QED
  BY <1>3, <1>4, <1>5, <1>6, <1>7, <1>8, <1>9, <1>10, NextCases

\* One more result for both keeps a count below another.
LEMMA LongerMonotone ==
  ASSUME NEW a \in Counts, NEW b \in Counts, NEW t \in Targets, a[t] <= b[t]
  PROVE  Longer(a)[t] <= Longer(b)[t]
<1> USE MonitorAssumption DEF Counts
<1>1. CASE result[t] = "timeout" BY <1>1 DEF Longer
<1>2. CASE result[t] = "answer" BY <1>2 DEF Longer
<1>3. CASE result[t] \notin {"timeout", "answer"} BY <1>3 DEF Longer
<1>4. QED BY <1>1, <1>2, <1>3

LEMMA AheadPreserved == TypeOK /\ AheadInv /\ [Next]_vars => AheadInv'
<1> SUFFICES ASSUME TypeOK, AheadInv, [Next]_vars PROVE AheadInv'
  OBVIOUS
<1>1. ASSUME UNCHANGED <<seen, timeouts>>, pc # "rules", pc' # "rules" PROVE AheadInv'
  BY <1>1 DEF AheadInv
<1>2. ASSUME UNCHANGED <<seen, timeouts, result, pc>> PROVE AheadInv'
  BY <1>2 DEF AheadInv, Longer
<1>3. StartBatch \/ SaveRejected \/ Late \/ SaveFails \/ LoopOverEvents \/ SaveEvents \/ CheckFails => AheadInv'
  BY <1>1 DEF StartBatch, SaveRejected, Late, SaveFails, LoopOverEvents, SaveEvents, CheckFails, NoRun,
              ruleVars, history
<1>4. ASSUME NEW t \in Targets, NEW r \in {"answer", "timeout"}, Answer(t, r) PROVE AheadInv'
  BY <1>4, <1>1 DEF Answer, ruleVars, history
<1>5. SaveSamples => AheadInv'
  BY DEF SaveSamples, AheadInv, Longer, ruleVars
<1>6. CheckProbeResult => AheadInv'
  BY DEF CheckProbeResult, AheadInv, history
<1>7. NewCollector => AheadInv'
  BY DEF NewCollector, Forget, NewRules, NoRun, AheadInv
<1>8. ASSUME NEW t \in Targets, NEW lossy \in BOOLEAN, CheckWindowStats(t, lossy) PROVE AheadInv'
  BY <1>8, <1>2 DEF CheckWindowStats, history
<1>9. ASSUME NEW t \in Targets, BecomeDue(t) \/ LossCools(t) PROVE AheadInv'
  BY <1>9, <1>2 DEF BecomeDue, LossCools, runVars, ruleVars, history
<1>10. ASSUME NEW t \in Targets, NEW s \in {"enabled", "disabled", "deleted"}, SetStatus(t, s) PROVE AheadInv'
  BY <1>10, <1>2 DEF SetStatus, runVars, ruleVars, history
<1>11. UNCHANGED vars => AheadInv'
  BY <1>2 DEF vars, runVars, ruleVars, history
<1>12. QED
  BY <1>3, <1>4, <1>5, <1>6, <1>7, <1>8, <1>9, <1>10, <1>11, NextCases

\* The one step that decides on outages, for one target.
LEMMA OutageStep ==
  ASSUME TypeOK, BatchInv, OutageInv, CheckProbeResult, NEW t \in Targets
  PROVE  inOutage'[t] <=> timeouts'[t] = Threshold
<1> USE MonitorAssumption
<1> DEFINE now  == Longer(timeouts)
           down == {u \in batch : result[u] = "timeout" /\ now[u] >= Threshold /\ ~inOutage[u]}
           up   == {u \in batch : result[u] = "answer" /\ inOutage[u]}
<1>1. timeouts' = now /\ inOutage'[t] = (t \notin up /\ (inOutage[t] \/ t \in down))
  BY DEF CheckProbeResult
<1>2. timeouts[t] \in 0..Threshold /\ result[t] \in {"none", "answer", "timeout"} /\ (inOutage[t] <=> timeouts[t] = Threshold)
  BY DEF TypeOK, OutageInv
<1>3. now[t] = CASE result[t] = "timeout" -> IF timeouts[t] < Threshold THEN timeouts[t] + 1 ELSE Threshold
                 [] result[t] = "answer"  -> 0
                 [] OTHER -> timeouts[t]
  BY DEF Longer
<1>4. result[t] # "none" => t \in batch
  BY DEF BatchInv
<1> HIDE DEF now
<1>5. CASE result[t] = "timeout"
  <2>1. now[t] \in 0..Threshold /\ (timeouts[t] = Threshold => now[t] = Threshold)
    BY <1>2, <1>3, <1>5
  <2>2. inOutage'[t] <=> inOutage[t] \/ t \in down
    BY <1>1, <1>5
  <2>3. t \in down <=> now[t] >= Threshold /\ ~inOutage[t]
    BY <1>4, <1>5
  <2>4. now[t] >= Threshold <=> now[t] = Threshold
    BY <2>1
  <2>5. QED BY <1>1, <1>2, <2>1, <2>2, <2>3, <2>4
<1>6. CASE result[t] = "answer"
  <2>1. now[t] = 0 /\ now[t] # Threshold
    BY <1>3, <1>6
  <2>2. ~inOutage'[t]
    BY <1>1, <1>4, <1>6
  <2>3. QED BY <1>1, <2>1, <2>2
<1>7. CASE result[t] = "none"
  <2>1. now[t] = timeouts[t]
    BY <1>3, <1>7
  <2>2. inOutage'[t] <=> inOutage[t]
    BY <1>1, <1>7
  <2>3. QED BY <1>1, <1>2, <2>1, <2>2
<1>8. QED BY <1>2, <1>5, <1>6, <1>7

LEMMA OutagePreserved == TypeOK /\ BatchInv /\ OutageInv /\ [Next]_vars => OutageInv'
<1> SUFFICES ASSUME TypeOK, BatchInv, OutageInv, [Next]_vars PROVE OutageInv'
  OBVIOUS
<1>1. ASSUME UNCHANGED <<timeouts, inOutage>> PROVE OutageInv'
  BY <1>1 DEF OutageInv
<1>2. CheckProbeResult => OutageInv'
  BY OutageStep DEF OutageInv
<1>3. NewCollector => OutageInv'
  BY MonitorAssumption DEF NewCollector, Forget, NewRules, OutageInv
<1>4. StartBatch \/ SaveSamples \/ SaveRejected \/ LoopOverEvents \/ SaveEvents \/ Late \/ SaveFails \/ CheckFails
        => OutageInv'
  BY <1>1 DEF StartBatch, SaveSamples, SaveRejected, LoopOverEvents, SaveEvents, Late, SaveFails, CheckFails, ruleVars
<1>5. ASSUME NEW t \in Targets, NEW r \in {"answer", "timeout"}, Answer(t, r) PROVE OutageInv'
  BY <1>5, <1>1 DEF Answer, ruleVars
<1>6. ASSUME NEW t \in Targets, NEW lossy \in BOOLEAN, CheckWindowStats(t, lossy) PROVE OutageInv'
  BY <1>6, <1>1 DEF CheckWindowStats
<1>7. ASSUME NEW t \in Targets, BecomeDue(t) \/ LossCools(t) PROVE OutageInv'
  BY <1>7, <1>1 DEF BecomeDue, LossCools, ruleVars
<1>8. ASSUME NEW t \in Targets, NEW s \in {"enabled", "disabled", "deleted"}, SetStatus(t, s) PROVE OutageInv'
  BY <1>8, <1>1 DEF SetStatus, ruleVars
<1>9. UNCHANGED vars => OutageInv'
  BY <1>1 DEF vars, ruleVars
<1>10. QED
  BY <1>2, <1>3, <1>4, <1>5, <1>6, <1>7, <1>8, <1>9, NextCases

LEMMA TracePreserved == TypeOK /\ TraceInv /\ [Next]_vars => TraceInv'
<1> SUFFICES ASSUME TypeOK, TraceInv, [Next]_vars PROVE TraceInv'
  OBVIOUS
<1>1. ASSUME UNCHANGED <<status, streak, seen>> PROVE TraceInv'
  BY <1>1 DEF TraceInv
<1>2. SaveSamples => TraceInv'
  <2> SUFFICES ASSUME SaveSamples, NEW t \in Targets, status[t] # "deleted" PROVE seen'[t] <= streak'[t]
    BY DEF SaveSamples, TraceInv
  <2>1. seen[t] <= streak[t] /\ seen \in Counts /\ streak \in Counts
    BY DEF TraceInv, TypeOK, Counts
  <2>2. QED BY <2>1, LongerMonotone DEF SaveSamples
<1>3. NewCollector => TraceInv'
  BY MonitorAssumption DEF NewCollector, Forget, TraceInv, TypeOK, dbVars
<1>4. ASSUME NEW t \in Targets, NEW s \in {"enabled", "disabled", "deleted"}, SetStatus(t, s) PROVE TraceInv'
  <2> SUFFICES ASSUME NEW u \in Targets, status'[u] # "deleted" PROVE seen'[u] <= streak'[u]
    BY DEF TraceInv
  <2>1. status[u] # "deleted" /\ seen' = seen
    BY <1>4 DEF SetStatus, TypeOK, history
  <2>2. streak'[u] = streak[u]
    BY <1>4 DEF SetStatus, TypeOK
  <2>3. QED BY <2>1, <2>2 DEF TraceInv
<1>5. StartBatch \/ SaveRejected \/ CheckProbeResult \/ LoopOverEvents \/ SaveEvents \/ Late \/ SaveFails \/ CheckFails
        => TraceInv'
  BY <1>1 DEF StartBatch, SaveRejected, CheckProbeResult, LoopOverEvents, SaveEvents, Late, SaveFails, CheckFails,
              dbVars, history
<1>6. ASSUME NEW t \in Targets, NEW r \in {"answer", "timeout"}, Answer(t, r) PROVE TraceInv'
  BY <1>6, <1>1 DEF Answer, dbVars, history
<1>7. ASSUME NEW t \in Targets, NEW lossy \in BOOLEAN, CheckWindowStats(t, lossy) PROVE TraceInv'
  BY <1>7, <1>1 DEF CheckWindowStats, dbVars, history
<1>8. ASSUME NEW t \in Targets, BecomeDue(t) \/ LossCools(t) PROVE TraceInv'
  BY <1>8, <1>1 DEF BecomeDue, LossCools, dbVars, history
<1>9. UNCHANGED vars => TraceInv'
  BY <1>1 DEF vars, dbVars, history
<1>10. QED
  BY <1>2, <1>3, <1>4, <1>5, <1>6, <1>7, <1>8, <1>9, NextCases

\* Dropped batches, failed saves, deletions and new collectors never part the rules from
\* the samples, for any targets and any threshold (RulesFollowSamples).
THEOREM RulesAgree == Spec => []RulesFollowSamples
<1>1. Init => TypeOK /\ RulesInv
  BY InitTyped, MonitorAssumption DEF Init, RulesInv, BatchInv, AheadInv, OutageInv, TraceInv
<1>2. TypeOK /\ RulesInv /\ [Next]_vars => (TypeOK /\ RulesInv)'
  BY TypePreserved, BatchPreserved, AheadPreserved, OutagePreserved, TracePreserved DEF RulesInv
<1>3. RulesInv => RulesFollowSamples
  BY DEF RulesInv, AheadInv, OutageInv, TraceInv, RulesFollowSamples
<1>4. QED
  BY <1>1, <1>2, <1>3, PTL DEF Spec

(***************************************************************************)
(* The event log and the rules.                                            *)
(***************************************************************************)
\* Events are in hand only between the rules and the write, and say what the rules hold.
EventInv ==
  /\ pc \notin {"window", "tracing"} => events = {}
  /\ \A t \in Logged("unreachable") : inOutage[t]
  /\ \A t \in Logged("recovered") : ~inOutage[t]

LogInv == EventInv /\ LogFollowsRules

\* Both parts speak of the log, the rules and the outage events only.
LEMMA LogUntouched ==
  ASSUME LogInv, UNCHANGED <<log, inOutage, unlogged>>, Logged("unreachable")' = Logged("unreachable"),
         Logged("recovered")' = Logged("recovered"), pc' \notin {"window", "tracing"} => events' = {}
  PROVE  LogInv'
<1>1. EventInv'
  BY DEF LogInv, EventInv
<1>2. Outages' = Outages
  BY DEF Outages
<1>3. LogFollowsRules'
  BY <1>2 DEF LogInv, LogFollowsRules
<1>4. QED BY <1>1, <1>3 DEF LogInv

\* A step that drops no event and adds none.
LEMMA LogIdle ==
  ASSUME LogInv, UNCHANGED <<log, inOutage, unlogged, events>>, pc' \notin {"window", "tracing"} => events = {}
  PROVE  LogInv'
  BY LogUntouched DEF Logged

\* The rules decide: who changes gets an event.
LEMMA RulesKeepLog ==
  ASSUME TypeOK, LogInv, CheckProbeResult
  PROVE  LogInv'
<1> DEFINE now  == Longer(timeouts)
           down == {t \in batch : result[t] = "timeout" /\ now[t] >= Threshold /\ ~inOutage[t]}
           up   == {t \in batch : result[t] = "answer" /\ inOutage[t]}
<1>1. events = {} /\ pc' = "window"
  BY DEF CheckProbeResult, LogInv, EventInv
<1>2. Outages = {}
  BY <1>1 DEF Outages, Logged
<1>3. down \subseteq Targets /\ up \subseteq Targets /\ down \cap up = {}
  BY DEF TypeOK
<1>4. /\ events' = [target : down, kind : {"unreachable"}] \cup [target : up, kind : {"recovered"}]
      /\ inOutage' = [t \in Targets |-> t \notin up /\ (inOutage[t] \/ t \in down)]
      /\ UNCHANGED <<log, unlogged>>
  BY DEF CheckProbeResult, dbVars, history
<1> HIDE DEF now, down, up
<1>5. Logged("unreachable")' = down /\ Logged("recovered")' = up
  BY <1>3, <1>4 DEF Logged
<1>6. \A t \in Targets : (t \in down => inOutage'[t]) /\ (t \in up => ~inOutage'[t])
  BY <1>3, <1>4, Zenon
<1>7. EventInv'
  BY <1>1, <1>3, <1>5, <1>6 DEF EventInv
<1>8. \A t \in Targets : t \notin down \cup up => (inOutage'[t] <=> inOutage[t])
  BY <1>4, Zenon
<1>9. Outages' = down \cup up
  BY <1>5 DEF Outages
<1>10. LogFollowsRules'
  BY <1>2, <1>4, <1>8, <1>9 DEF LogInv, LogFollowsRules
<1>11. QED BY <1>7, <1>10 DEF LogInv

\* The write: the log takes over what the rules hold of everybody with an event.
LEMMA WriteKeepsLog ==
  ASSUME TypeOK, LogInv, SaveEvents
  PROVE  LogInv'
<1>1. Logged("unreachable")' = {} /\ Logged("recovered")' = {} /\ Outages' = {} /\ events' = {}
  BY DEF SaveEvents, NoRun, Logged, Outages
<1>2. inOutage' = inOutage /\ unlogged' = unlogged \ Outages
  BY DEF SaveEvents, ruleVars
<1>3. ASSUME NEW t \in Targets, t \notin unlogged' PROVE log'[t] = "unreachable" <=> inOutage'[t]
  <2>1. CASE t \in Logged("unreachable")
    <3>1. log'[t] = "unreachable"
      <4>1. log' = [u \in Targets |-> CASE u \in Logged("unreachable") -> "unreachable"
                                       [] u \in Logged("recovered")   -> "recovered"
                                       [] OTHER -> log[u]]
        BY DEF SaveEvents
      <4>2. t \notin Logged("recovered")
        BY <2>1 DEF LogInv, EventInv
      <4>3. QED BY <2>1, <4>1, <4>2
    <3>2. inOutage[t]
      BY <2>1 DEF LogInv, EventInv
    <3>3. QED BY <3>1, <3>2, <1>2
  <2>2. CASE t \in Logged("recovered")
    <3>1. ~inOutage[t]
      BY <2>2 DEF LogInv, EventInv
    <3>2. t \notin Logged("unreachable")
      BY <3>1 DEF LogInv, EventInv
    <3>3. log'[t] = "recovered"
      BY <2>2, <3>2 DEF SaveEvents
    <3>4. QED BY <3>1, <3>3, <1>2
  <2>3. CASE t \notin Outages
    <3>1. log'[t] = log[t]
      BY <2>3 DEF SaveEvents, Outages
    <3>2. t \notin unlogged
      BY <1>2, <1>3, <2>3
    <3>3. QED BY <1>2, <2>3, <3>1, <3>2 DEF LogInv, LogFollowsRules
  <2>4. QED BY <2>1, <2>2, <2>3 DEF Outages
<1>4. LogFollowsRules'
  BY <1>1, <1>3 DEF LogFollowsRules
<1>5. EventInv'
  BY <1>1 DEF EventInv
<1>6. QED BY <1>4, <1>5 DEF LogInv

\* Events that are lost are told of by the history.
LEMMA LossKeepsLog ==
  ASSUME TypeOK, LogInv, CheckFails \/ NewCollector
  PROVE  LogInv'
<1>1. Logged("unreachable")' = {} /\ Logged("recovered")' = {} /\ Outages' = {} /\ events' = {}
  BY DEF CheckFails, NewCollector, NoRun, Logged, Outages
<1>2. EventInv'
  BY <1>1 DEF EventInv
<1>3. log' = log /\ Outages \subseteq unlogged' /\ unlogged \subseteq unlogged'
  BY DEF CheckFails, NewCollector, Forget, dbVars
<1>4. ASSUME NEW t \in Targets, t \notin unlogged' PROVE inOutage'[t] <=> inOutage[t]
  <2>1. CASE CheckFails
    BY <2>1 DEF CheckFails, ruleVars
  <2>2. CASE NewCollector
    <3>1. ~inOutage[t]
      BY <1>4, <2>2 DEF NewCollector, Forget
    <3>2. ~inOutage'[t]
      BY <2>2 DEF NewCollector, Forget, NewRules
    <3>3. QED BY <3>1, <3>2
  <2>3. QED BY <2>1, <2>2
<1>5. LogFollowsRules'
  BY <1>1, <1>3, <1>4 DEF LogInv, LogFollowsRules
<1>6. QED BY <1>2, <1>5 DEF LogInv

LEMMA LogPreserved == TypeOK /\ LogInv /\ [Next]_vars => LogInv'
<1> SUFFICES ASSUME TypeOK, LogInv, [Next]_vars PROVE LogInv'
  OBVIOUS
<1>0. pc \notin {"window", "tracing"} => events = {}
  BY DEF LogInv, EventInv
<1>1. CheckProbeResult => LogInv'
  BY RulesKeepLog
<1>2. SaveEvents => LogInv'
  BY WriteKeepsLog
<1>3. CheckFails \/ NewCollector => LogInv'
  BY LossKeepsLog
<1>4. StartBatch \/ SaveSamples \/ LoopOverEvents => LogInv'
  BY <1>0, LogIdle DEF StartBatch, SaveSamples, LoopOverEvents, dbVars, ruleVars, history
<1>5. SaveRejected \/ Late \/ SaveFails => LogInv'
  <2> SUFFICES ASSUME SaveRejected \/ Late \/ SaveFails PROVE LogInv'
    OBVIOUS
  <2>1. events = {} /\ events' = {} /\ UNCHANGED <<log, inOutage, unlogged>>
    BY <1>0 DEF SaveRejected, Late, SaveFails, NoRun, dbVars, ruleVars, history
  <2>2. QED BY <2>1, LogIdle
<1>6. ASSUME NEW t \in Targets, NEW r \in {"answer", "timeout"}, Answer(t, r) PROVE LogInv'
  BY <1>6, <1>0, LogIdle DEF Answer, dbVars, ruleVars, history
<1>7. ASSUME NEW t \in Targets, NEW lossy \in BOOLEAN, CheckWindowStats(t, lossy) PROVE LogInv'
  <2>1. Logged("unreachable")' = Logged("unreachable") /\ Logged("recovered")' = Logged("recovered")
    BY <1>7 DEF CheckWindowStats, Logged
  <2>2. pc = "window" /\ UNCHANGED <<pc, log, inOutage, unlogged>>
    BY <1>7 DEF CheckWindowStats, dbVars, history
  <2>3. QED BY <2>1, <2>2, LogUntouched
<1>8. ASSUME NEW t \in Targets, BecomeDue(t) \/ LossCools(t) PROVE LogInv'
  BY <1>8, <1>0, LogIdle DEF BecomeDue, LossCools, dbVars, runVars, ruleVars, history
<1>9. ASSUME NEW t \in Targets, NEW s \in {"enabled", "disabled", "deleted"}, SetStatus(t, s) PROVE LogInv'
  BY <1>9, <1>0, LogIdle DEF SetStatus, runVars, ruleVars, history
<1>10. UNCHANGED vars => LogInv'
  BY <1>0, LogIdle DEF vars, dbVars, runVars, ruleVars, history
<1>11. QED
  BY <1>1, <1>2, <1>3, <1>4, <1>5, <1>6, <1>7, <1>8, <1>9, <1>10, NextCases

\* An outage is told of in the log, and its end, unless the event was lost in one of the
\* ways that unlogged names (LogFollowsRules).
THEOREM LogAgrees == Spec => []LogFollowsRules
<1>1. Init => TypeOK /\ LogInv
  BY InitTyped DEF Init, LogInv, EventInv, LogFollowsRules, Logged, Outages
<1>2. TypeOK /\ LogInv /\ [Next]_vars => (TypeOK /\ LogInv)'
  BY TypePreserved, LogPreserved
<1>3. LogInv => LogFollowsRules
  BY DEF LogInv
<1>4. QED
  BY <1>1, <1>2, <1>3, PTL DEF Spec

\* Both together: samples, rules and log agree, whatever is late, fails or is replaced.
THEOREM LogIsOfSamples == Spec => []LogTellsSamples
<1>1. RulesFollowSamples /\ LogFollowsRules => LogTellsSamples
  BY DEF LogTellsSamples
<1>2. QED
  BY RulesAgree, LogAgrees, <1>1, PTL

---------------------------------------------------------------------------
(***************************************************************************)
(* Traceroutes after events (TracerouteTrigger).                           *)
(***************************************************************************)

\* A trace that waits within the cooldown of its target was there when that began.
QueuedBefore(c) == \A i \in DOMAIN jobs[c] : ~cooled[c][jobs[c][i].target] => jobs[c][i].overtaken

TraceIInv == TraceTypeOK /\ \A c \in Triggers : QueuedBefore(c)

LEMMA TraceInitInv == TraceInit => TraceIInv
  BY TraceAssumption DEF TraceInit, TraceIInv, TraceTypeOK, QueuedBefore, Triggers

LEMMA BeginTraceInv ==
  ASSUME TraceIInv, NEW c \in Triggers, BeginTrace(c)
  PROVE  TraceIInv'
<1> DEFINE t == Head(jobs[c]).target
           rest == Tail(jobs[c])
           J == [target : TraceTargets, overtaken : BOOLEAN]
<1>1. /\ jobs[c] \in Seq(J) /\ jobs[c] # <<>> /\ tracing' = [tracing EXCEPT ![c] = t]
      /\ jobs' = [jobs EXCEPT ![c] = Overtake(rest, t)]
      /\ cooled' = [cooled EXCEPT ![c][t] = FALSE] /\ UNCHANGED <<active, known>>
  BY DEF TraceIInv, TraceTypeOK, BeginTrace
<1>2. t \in TraceTargets /\ rest \in Seq(J) /\ Len(rest) = Len(jobs[c]) - 1 /\ DOMAIN rest = 1..Len(rest)
      /\ \A i \in 1..Len(rest) : rest[i] = jobs[c][i + 1] /\ rest[i] \in J
  <2>1. Head(jobs[c]) \in J /\ rest \in Seq(J) /\ Len(rest) = Len(jobs[c]) - 1
        /\ \A i \in 1..Len(rest) : rest[i] = jobs[c][i + 1]
    BY <1>1, HeadTailProperties
  <2>2. DOMAIN rest = 1..Len(rest) /\ \A i \in 1..Len(rest) : rest[i] \in J
    BY <2>1, ElementOfSeq, LenProperties
  <2>3. QED
    BY <2>1, <2>2
<1>3. Overtake(rest, t) \in Seq(J)
  <2>1. \A i \in 1..Len(rest) : [rest[i] EXCEPT !.overtaken = @ \/ rest[i].target = t] \in J
    BY <1>2
  <2>2. Overtake(rest, t) = [i \in 1..Len(rest) |-> [rest[i] EXCEPT !.overtaken = @ \/ rest[i].target = t]]
    BY <1>2 DEF Overtake
  <2>3. Overtake(rest, t) \in [1..Len(rest) -> J]
    BY <2>1, <2>2
  <2>4. QED
    BY <1>2, <2>3, IsASeq, LenProperties
<1>4. TraceTypeOK'
  BY <1>1, <1>2, <1>3 DEF TraceIInv, TraceTypeOK
<1>5. ASSUME NEW d \in Triggers, d # c PROVE QueuedBefore(d)'
  BY <1>1, <1>5 DEF TraceIInv, TraceTypeOK, QueuedBefore
<1>6. QueuedBefore(c)'
  <2> SUFFICES ASSUME NEW i \in DOMAIN jobs'[c], ~cooled'[c][jobs'[c][i].target] PROVE jobs'[c][i].overtaken
    BY DEF QueuedBefore
  <2>1. jobs'[c] = Overtake(rest, t)
    BY <1>1 DEF TraceIInv, TraceTypeOK
  <2>2. i \in 1..Len(rest) /\ jobs'[c][i] = [rest[i] EXCEPT !.overtaken = @ \/ rest[i].target = t]
    BY <1>2, <2>1 DEF Overtake
  <2>3. jobs'[c][i].target = rest[i].target /\ jobs'[c][i].overtaken = (rest[i].overtaken \/ rest[i].target = t)
    BY <1>2, <2>2
  <2>4. CASE rest[i].target = t
    BY <2>3, <2>4
  <2>5. CASE rest[i].target # t
    <3>1. cooled'[c][rest[i].target] = cooled[c][rest[i].target]
      BY <1>1, <1>2, <2>2, <2>5 DEF TraceIInv, TraceTypeOK
    <3>2. i + 1 \in DOMAIN jobs[c] /\ rest[i] = jobs[c][i + 1]
      BY <1>1, <1>2, <2>2
    <3>3. QED
      BY <2>3, <3>1, <3>2 DEF TraceIInv, QueuedBefore
  <2>6. QED
    BY <2>4, <2>5
<1>7. QED
  BY <1>4, <1>5, <1>6 DEF TraceIInv

LEMMA TraceNextInv == TraceIInv /\ [TraceNext]_traceVars => TraceIInv'
<1> SUFFICES ASSUME TraceIInv, [TraceNext]_traceVars PROVE TraceIInv'
  OBVIOUS
<1>0. TraceTypeOK
  BY DEF TraceIInv
<1>1. ASSUME NEW t \in TraceTargets, OnEvent(t) PROVE TraceIInv'
  <2> DEFINE job == [target |-> t, overtaken |-> FALSE]
  <2>1. active \in Triggers /\ jobs' = [jobs EXCEPT ![active] = Append(@, job)] /\ cooled[active][t]
        /\ UNCHANGED <<active, known, tracing, cooled>>
    BY <1>0, <1>1 DEF OnEvent, CooldownOk, TraceTypeOK
  <2>2. TraceTypeOK'
    <3>1. job \in [target : TraceTargets, overtaken : BOOLEAN]
      OBVIOUS
    <3>2. Append(jobs[active], job) \in Seq([target : TraceTargets, overtaken : BOOLEAN])
      BY <1>0, <2>1, <3>1, AppendProperties DEF TraceTypeOK
    <3>3. QED
      BY <1>0, <2>1, <3>2 DEF TraceTypeOK
  <2>3. ASSUME NEW c \in Triggers, c # active PROVE QueuedBefore(c)'
    BY <2>1, <2>3 DEF TraceIInv, TraceTypeOK, QueuedBefore
  <2>4. QueuedBefore(active)'
    <3>1. jobs'[active] = Append(jobs[active], job) /\ jobs[active] \in Seq([target : TraceTargets, overtaken : BOOLEAN])
      BY <1>0, <2>1 DEF TraceTypeOK
    <3>2. QueuedBefore(active)
      BY <2>1 DEF TraceIInv
    <3>3. QED
      BY <2>1, <3>1, <3>2 DEF QueuedBefore
  <2>5. QED
    BY <2>1, <2>2, <2>3, <2>4 DEF TraceIInv
<1>2. ASSUME NEW t \in TraceTargets, DeleteTarget(t) PROVE TraceIInv'
  BY <1>0, <1>2 DEF DeleteTarget, TraceIInv, TraceTypeOK, QueuedBefore
<1>3. ASSUME NEW c \in Triggers, EndTrace(c) PROVE TraceIInv'
  BY <1>0, <1>3 DEF EndTrace, TraceIInv, TraceTypeOK, QueuedBefore
<1>4. ASSUME NEW c \in Triggers, NEW t \in TraceTargets, Cool(c, t) PROVE TraceIInv'
  <2>1. TraceTypeOK'
    BY <1>0, <1>4 DEF Cool, TraceTypeOK
  <2>2. \A d \in Triggers, u \in TraceTargets : cooled[d][u] => cooled'[d][u]
    BY <1>0, <1>4 DEF Cool, TraceTypeOK
  <2>3. ASSUME NEW d \in Triggers PROVE QueuedBefore(d)'
    BY <1>0, <1>4, <2>2 DEF Cool, TraceIInv, TraceTypeOK, QueuedBefore
  <2>4. QED
    BY <2>1, <2>3 DEF TraceIInv
<1>5. CASE Replace
  BY <1>0, <1>5 DEF Replace, TraceIInv, TraceTypeOK, QueuedBefore
<1>6. CASE UNCHANGED traceVars
  BY <1>6 DEF traceVars, TraceIInv, TraceTypeOK, QueuedBefore
<1>7. QED
  BY <1>1, <1>2, <1>3, <1>4, <1>5, <1>6, BeginTraceInv DEF TraceNext

\* A trace that begins within the cooldown of its target was queued before that cooldown
\* began, for any targets, any number of collectors and queues of any length
\* (traceroute_trigger.py: checked before the queue, set behind it).
THEOREM TracesAreBounded == TraceSpec => CooldownBoundsTraces
<1> DEFINE Bounded(c) ==
      (tracing[c] = NoTrace /\ tracing'[c] # NoTrace /\ ~cooled[c][tracing'[c]]) => Head(jobs[c]).overtaken
<1>1. ASSUME TraceIInv, [TraceNext]_traceVars, NEW c \in Triggers, tracing[c] = NoTrace, tracing'[c] # NoTrace,
             ~cooled[c][tracing'[c]]
      PROVE  Head(jobs[c]).overtaken
  <2>0. TraceTypeOK /\ QueuedBefore(c)
    BY <1>1 DEF TraceIInv
  <2>1. BeginTrace(c)
    BY <1>1, <2>0 DEF TraceNext, TraceTypeOK, OnEvent, DeleteTarget, BeginTrace, EndTrace, Cool, Replace, traceVars
  <2>2. jobs[c] # <<>> /\ tracing'[c] = Head(jobs[c]).target
    BY <2>0, <2>1 DEF BeginTrace, TraceTypeOK
  <2>3. 1 \in DOMAIN jobs[c] /\ Head(jobs[c]) = jobs[c][1]
    BY <2>0, <2>2 DEF TraceTypeOK
  <2>4. QED
    BY <1>1, <2>0, <2>2, <2>3 DEF QueuedBefore
<1>2. TraceIInv /\ [TraceNext]_traceVars => [\A c \in Triggers : Bounded(c)]_traceVars
  BY <1>1
<1>3. QED
  BY TraceInitInv, TraceNextInv, <1>2, PTL DEF TraceSpec, CooldownBoundsTraces

---------------------------------------------------------------------------
(***************************************************************************)
(* Echo requests over raw sockets (IcmpProbe).                             *)
(***************************************************************************)
ProbeTypeOK ==
  /\ seq \in 0..(SeqSpace - 1) /\ batchNo \in 0..MaxBatches /\ probed \subseteq Hosts
  /\ stage \in [Hosts -> {"none", "open", "numbered", "waiting", "up", "down"}]
  /\ requests \subseteq Packets /\ received \in [Hosts -> SUBSET Packets]
  /\ answer \subseteq [probe : Hosts, packet : Packets]

\* Hosts of this batch that have no number yet: what they take still fits in.
Unnumbered == {h \in probed : stage[h] \in {"none", "open"}}
NumbersLast == seq + Cardinality(Unnumbered) <= batchNo * Cardinality(Hosts)

\* Numbers of earlier batches are used up once this one has taken its first.
Counting == \E h \in probed : stage[h] \notin {"none", "open"}
Plausible(q) ==
  /\ q.number <= seq /\ q.batch <= batchNo
  /\ q.batch = batchNo => q.host \in probed
  /\ q.batch < batchNo /\ Counting => q.number < seq

PacketsInv ==
  /\ \A q \in requests : Plausible(q)
  /\ \A h \in Hosts : \A q \in received[h] : Plausible(q)

StagesInv ==
  /\ \A h \in Hosts : stage[h] # "none" => h \in probed
  /\ probed # {} => batchNo # 0
AnswersInv == \A a \in answer : a.packet.batch = batchNo /\ a.packet.host \in probed /\ a.probe \in probed

ProbeInv == ProbeTypeOK /\ NumbersLast /\ PacketsInv /\ StagesInv /\ AnswersInv

LEMMA HostsFinite == /\ IsFiniteSet(Hosts) /\ Cardinality(Hosts) \in Nat
                     /\ MaxBatches * Cardinality(Hosts) \in Nat /\ SeqSpace \in Nat \ {0}
  BY ProbeAssumption, FS_CardinalityType

LEMMA FewUnnumbered ==
  ASSUME NEW S, S \subseteq Hosts
  PROVE  IsFiniteSet(S) /\ Cardinality(S) \in Nat /\ Cardinality(S) <= Cardinality(Hosts)
  BY HostsFinite, FS_Subset, FS_CardinalityType

LEMMA ProbeInitInv == ProbeInit => ProbeInv
<1> SUFFICES ASSUME ProbeInit PROVE ProbeInv
  OBVIOUS
<1>1. ProbeTypeOK /\ PacketsInv /\ StagesInv /\ AnswersInv
  BY ProbeAssumption, HostsFinite DEF ProbeInit, ProbeTypeOK, PacketsInv, StagesInv, AnswersInv
<1>2. Unnumbered = {} /\ Cardinality(Unnumbered) = 0
  BY FS_EmptySet DEF ProbeInit, Unnumbered
<1>3. NumbersLast
  BY <1>2, HostsFinite DEF ProbeInit, NumbersLast
<1>4. QED
  BY <1>1, <1>3 DEF ProbeInv

LEMMA BeginBatchInv ==
  ASSUME ProbeInv, NEW S \in SUBSET Hosts, BeginBatch(S)
  PROVE  ProbeInv'
<1>0. ProbeTypeOK /\ NumbersLast /\ PacketsInv
  BY DEF ProbeInv
<1>1. /\ batchNo' = batchNo + 1 /\ batchNo < MaxBatches /\ probed' = S
      /\ stage' = [h \in Hosts |-> "none"] /\ received' = [h \in Hosts |-> {}] /\ answer' = {}
      /\ UNCHANGED <<seq, requests>>
  BY DEF BeginBatch
<1>2. ProbeTypeOK' /\ StagesInv' /\ AnswersInv'
  BY <1>0, <1>1, ProbeAssumption DEF ProbeTypeOK, StagesInv, AnswersInv
<1>3. NumbersLast'
  <2> DEFINE N == Cardinality(Hosts)
             K == batchNo * N
  <2>1. Unnumbered' = S
    BY <1>1 DEF Unnumbered
  <2>2. Cardinality(S) \in Nat /\ Cardinality(S) <= N /\ N \in Nat
    BY FewUnnumbered, HostsFinite
  <2>3. K \in Nat /\ (batchNo + 1) * N = K + N
    BY <1>0, <2>2 DEF ProbeTypeOK
  <2>4. seq <= K /\ seq \in Nat
    <3>1. Unnumbered \subseteq Hosts
      BY <1>0 DEF ProbeTypeOK, Unnumbered
    <3>2. Cardinality(Unnumbered) \in Nat
      BY <3>1, FewUnnumbered
    <3>3. seq + Cardinality(Unnumbered) <= K /\ seq \in Nat
      BY <1>0 DEF NumbersLast, ProbeTypeOK
    <3> HIDE DEF K
    <3>4. QED
      BY <2>3, <3>2, <3>3
  <2>5. seq + Cardinality(S) <= K + N
    <3> HIDE DEF K, N
    <3>1. QED
      BY <2>2, <2>3, <2>4
  <2>6. QED
    BY <1>1, <2>1, <2>3, <2>5 DEF NumbersLast
<1>4. PacketsInv'
  BY <1>0, <1>1 DEF PacketsInv, Plausible, Counting, ProbeTypeOK, Packets
<1>5. QED
  BY <1>2, <1>3, <1>4 DEF ProbeInv

LEMMA TakeNumberInv ==
  ASSUME ProbeInv, NEW h \in Hosts, TakeNumber(h)
  PROVE  ProbeInv'
<1>0. ProbeTypeOK /\ NumbersLast /\ PacketsInv /\ StagesInv /\ AnswersInv
  BY DEF ProbeInv
<1>1. /\ stage[h] = "open" /\ stage' = [stage EXCEPT ![h] = "numbered"] /\ seq' = (seq + 1) % SeqSpace
      /\ UNCHANGED <<batchNo, probed, requests, received, answer>>
  BY DEF TakeNumber
<1>2. h \in Unnumbered /\ Unnumbered' = Unnumbered \ {h} /\ Unnumbered \subseteq Hosts
  BY <1>0, <1>1 DEF ProbeTypeOK, Unnumbered, StagesInv
<1>3. Cardinality(Unnumbered') = Cardinality(Unnumbered) - 1 /\ Cardinality(Unnumbered) \in Nat
  BY <1>2, FewUnnumbered, FS_RemoveElement
<1>4. Cardinality(Unnumbered') \in Nat
  BY <1>2, FewUnnumbered
<1>5. batchNo * Cardinality(Hosts) <= MaxBatches * Cardinality(Hosts) /\ batchNo * Cardinality(Hosts) \in Nat
  <2>1. \A b, m, n \in Nat : b <= m => b * n <= m * n /\ b * n \in Nat
    OBVIOUS
  <2>2. QED
    BY <1>0, <2>1, HostsFinite, ProbeAssumption DEF ProbeTypeOK
<1>6. seq' = seq + 1 /\ seq' \in 0..(SeqSpace - 1)
  <2>1. seq + 1 < SeqSpace /\ seq \in Nat /\ SeqSpace \in Nat
    BY <1>0, <1>3, <1>4, <1>5, HostsFinite, ProbeAssumption DEF NumbersLast, ProbeTypeOK
  <2>2. QED
    BY <1>1, <2>1
<1>7. ProbeTypeOK' /\ StagesInv' /\ AnswersInv'
  BY <1>0, <1>1, <1>6 DEF ProbeTypeOK, StagesInv, AnswersInv
<1>8. NumbersLast'
  BY <1>0, <1>1, <1>3, <1>4, <1>5, <1>6 DEF NumbersLast, ProbeTypeOK
<1>9. PacketsInv'
  BY <1>0, <1>1, <1>6 DEF PacketsInv, Plausible, ProbeTypeOK, Packets
<1>10. QED
  BY <1>7, <1>8, <1>9 DEF ProbeInv

LEMMA ProbeNextInv == ProbeInv /\ [ProbeNext]_probeVars => ProbeInv'
<1> SUFFICES ASSUME ProbeInv, [ProbeNext]_probeVars PROVE ProbeInv'
  OBVIOUS
<1>0. ProbeTypeOK /\ NumbersLast /\ PacketsInv /\ StagesInv /\ AnswersInv
  BY DEF ProbeInv
<1>1. ASSUME NEW h \in Hosts, OpenSocket(h) PROVE ProbeInv'
  <2>1. Unnumbered' = Unnumbered /\ Counting' = Counting
    BY <1>0, <1>1 DEF OpenSocket, Unnumbered, Counting, ProbeTypeOK
  <2>2. QED
    BY <1>0, <1>1, <2>1 DEF OpenSocket, ProbeInv, ProbeTypeOK, NumbersLast, PacketsInv, Plausible, StagesInv, AnswersInv
<1>2. ASSUME NEW h \in Hosts, Send(h) PROVE ProbeInv'
  <2> DEFINE q == [host |-> h, number |-> seq, batch |-> batchNo]
  <2>1. Unnumbered' = Unnumbered /\ Counting' = Counting
    BY <1>0, <1>2 DEF Send, Unnumbered, Counting, ProbeTypeOK
  <2>2. q \in Packets /\ h \in probed
    BY <1>0, <1>2 DEF Send, Packets, ProbeTypeOK, StagesInv
  <2>3. QED
    BY <1>0, <1>2, <2>1, <2>2 DEF Send, ProbeInv, ProbeTypeOK, NumbersLast, PacketsInv, Plausible, StagesInv, AnswersInv
<1>3. ASSUME NEW h \in Hosts, TimeOut(h) PROVE ProbeInv'
  <2>1. Unnumbered' = Unnumbered /\ Counting' = Counting
    BY <1>0, <1>3 DEF TimeOut, Unnumbered, Counting, ProbeTypeOK
  <2>2. QED
    BY <1>0, <1>3, <2>1 DEF TimeOut, ProbeInv, ProbeTypeOK, NumbersLast, PacketsInv, Plausible, StagesInv, AnswersInv
<1>4. ASSUME NEW h \in Hosts, NEW q \in received[h], Receive(h, q) PROVE ProbeInv'
  <2>1. Unnumbered' = Unnumbered /\ Counting' = Counting
    BY <1>0, <1>4 DEF Receive, Unnumbered, Counting, ProbeTypeOK
  <2>2. h \in probed /\ Counting /\ Plausible(q) /\ q \in Packets
    BY <1>0, <1>4 DEF Receive, StagesInv, Counting, PacketsInv, ProbeTypeOK
  <2>3. AnswersInv'
    BY <1>0, <1>4, <2>2 DEF Receive, AnswersInv, Plausible, ProbeTypeOK, Packets
  <2>4. QED
    BY <1>0, <1>4, <2>1, <2>2, <2>3 DEF Receive, ProbeInv, ProbeTypeOK, NumbersLast, PacketsInv, Plausible, StagesInv
<1>5. ASSUME NEW q \in requests, Lose(q) \/ Reply(q) PROVE ProbeInv'
  <2>1. Unnumbered' = Unnumbered /\ Counting' = Counting
    BY <1>5 DEF Lose, Reply, Unnumbered, Counting
  <2>2. /\ requests' = requests \ {q} /\ UNCHANGED <<seq, batchNo, probed, stage, answer>>
        /\ received' \in [Hosts -> SUBSET Packets]
        /\ \A h \in Hosts : received'[h] \subseteq received[h] \cup {q}
    BY <1>0, <1>5 DEF Lose, Reply, ProbeTypeOK
  <2>3. QED
    BY <1>0, <2>1, <2>2 DEF ProbeInv, ProbeTypeOK, NumbersLast, PacketsInv, Plausible, StagesInv, AnswersInv
<1>6. CASE UNCHANGED probeVars
  BY <1>0, <1>6 DEF probeVars, ProbeInv, ProbeTypeOK, NumbersLast, Unnumbered, PacketsInv, Plausible, Counting, StagesInv, AnswersInv
<1>7. QED
  BY <1>1, <1>2, <1>3, <1>4, <1>5, <1>6, BeginBatchInv, TakeNumberInv DEF ProbeNext

\* A probe takes no reply of an earlier batch for its own, whatever is lost, late or answered
\* in another order, for any hosts and as many batches as there are numbers for (probe.py).
THEOREM RepliesAreOfTheBatch == ProbeSpec => []AnswersAreOfTheBatch
<1>1. ProbeInv => AnswersAreOfTheBatch
  <2> SUFFICES ASSUME ProbeInv, NEW a \in answer
               PROVE  a.packet.batch = batchNo /\ (Cardinality(probed) = 1 => a.packet.host = a.probe)
    BY DEF AnswersAreOfTheBatch
  <2>1. a.packet.batch = batchNo /\ a.packet.host \in probed /\ a.probe \in probed /\ IsFiniteSet(probed)
    BY FewUnnumbered DEF ProbeInv, AnswersInv, ProbeTypeOK
  <2>2. Cardinality(probed) = 1 => \E x : probed = {x}
    BY <2>1, FS_Singleton
  <2>3. QED
    BY <2>1, <2>2
<1>2. QED
  BY ProbeInitInv, ProbeNextInv, <1>1, PTL DEF ProbeSpec

(***************************************************************************)
(* Served ranges of samples: the buckets of every tier, and raw samples    *)
(***************************************************************************)

\* A time is in its bucket.
LEMMA BucketAround ==
  ASSUME NEW k \in 1..3, NEW s \in Nat
  PROVE  /\ Bucket(k, s) \in Nat /\ Bucket(k, s) <= s /\ s < Bucket(k, s) + TierWidth[k]
         /\ \E n \in Nat : Bucket(k, s) = n * TierWidth[k]
<1> DEFINE w == TierWidth[k]
<1>1. w \in Nat \ {0}
  BY TierAssumption
<1> HIDE DEF w
<1>2. /\ s \div w \in Nat /\ (s \div w) * w <= s /\ s < (s \div w) * w + w
  BY <1>1
<1>3. (s \div w) * w \in Nat
  BY <1>1, <1>2
<1>4. QED
  BY <1>2, <1>3 DEF Bucket, w

\* A narrow bucket that begins in a wide one ends in it, and one that ends in it begins in it.
LEMMA Nested ==
  ASSUME NEW v \in Nat \ {0}, NEW k \in Nat, NEW w \in Nat, w = k * v, NEW m \in Nat, NEW n \in Nat
  PROVE  /\ n * v < m * w + w => n * v + v <= m * w + w
         /\ m * w < n * v + v => m * w <= n * v
<1>1. m * w + w = ((m + 1) * k) * v /\ m * w = (m * k) * v
  OBVIOUS
<1>2. ASSUME NEW j \in Nat, n < j PROVE n * v + v <= j * v
  <2>1. n + 1 <= j
    BY <1>2
  <2>2. (n + 1) * v <= j * v
    BY <2>1
  <2>3. QED
    BY <2>2
<1>3. ASSUME NEW j \in Nat, n >= j PROVE n * v >= j * v
  BY <1>3
<1>4. (m + 1) * k \in Nat /\ m * k \in Nat
  OBVIOUS
<1>5. n * v < m * w + w => n * v + v <= m * w + w
  BY <1>1, <1>2, <1>3, <1>4
<1>6. ASSUME m * w < n * v + v PROVE m * w <= n * v
  <2>1. m * k <= n
    <3>1. SUFFICES ASSUME n < m * k PROVE FALSE
      BY <1>4
    <3>2. n * v + v <= (m * k) * v
      BY <1>2, <1>4, <3>1
    <3>3. QED
      BY <1>1, <1>6, <3>2
  <2>2. QED
    BY <1>1, <1>3, <1>4, <2>1
<1>7. QED
  BY <1>5, <1>6

LEMMA Multiple ==
  ASSUME NEW v \in Nat \ {0}, NEW w \in Nat, w % v = 0
  PROVE  \E k \in Nat : w = k * v
<1>1. w \div v \in Nat /\ w = v * (w \div v) + (w % v)
  OBVIOUS
<1>2. w = (w \div v) * v
  BY <1>1
<1>3. QED
  BY <1>1, <1>2

LEMMA Widths ==
  /\ \E k \in Nat : TierWidth[2] = k * TierWidth[1]
  /\ \E k \in Nat : TierWidth[3] = k * TierWidth[2]
  /\ \E k \in Nat : TierWidth[3] = k * TierWidth[1]
<1>1. TierWidth[1] \in Nat \ {0} /\ TierWidth[2] \in Nat \ {0} /\ TierWidth[3] \in Nat \ {0}
  BY TierAssumption
<1>2. PICK k \in Nat : TierWidth[2] = k * TierWidth[1]
  BY <1>1, Multiple, TierAssumption
<1>3. PICK j \in Nat : TierWidth[3] = j * TierWidth[2]
  BY <1>1, Multiple, TierAssumption
<1>4. TierWidth[3] = (j * k) * TierWidth[1]
  BY <1>1, <1>2, <1>3
<1>5. j * k \in Nat
  OBVIOUS
<1>6. QED
  BY <1>2, <1>3, <1>4, <1>5

---------------------------------------------------------------------------
\* The buckets of each tier that a sample goes through.
Home(s) == [tier \in 1..3 |-> CASE tier = 1 -> Bucket(1, s)
                                [] tier = 2 -> Bucket(2, Bucket(1, s))
                                [] OTHER    -> Bucket(3, Bucket(2, Bucket(1, s)))]

\* A sample of a bucket went through the tiers below, each time because it was too old there.
RolledUp(b, s) ==
  /\ s \in Nat /\ Home(s)[b.tier] = b.start
  /\ s < tierNow - TierAge[1]
  /\ b.tier > 1 => Home(s)[1] < tierNow - TierAge[2]
  /\ b.tier > 2 => Home(s)[2] < tierNow - TierAge[3]

SoundBucket(b) ==
  /\ b.tier \in 1..3 /\ b.start \in Nat /\ \E n \in Nat : b.start = n * TierWidth[b.tier]
  /\ b.of # {} /\ \A s \in b.of : RolledUp(b, s)

TierInv ==
  /\ tierNow \in Nat /\ cascadeNow \in Nat /\ cascadeNow <= tierNow /\ cascade \in 0..4 /\ raw \subseteq Nat
  /\ \A b \in rolled : SoundBucket(b)
  /\ \A a, b \in rolled : a.tier = b.tier /\ a.start = b.start => a = b

LEMMA HomeIs ==
  ASSUME NEW s \in Nat
  PROVE  /\ Home(s)[1] = Bucket(1, s) /\ Home(s)[1] \in Nat
         /\ Home(s)[2] = Bucket(2, Home(s)[1]) /\ Home(s)[2] \in Nat
         /\ Home(s)[3] = Bucket(3, Home(s)[2]) /\ Home(s)[3] \in Nat
  BY BucketAround DEF Home

LEMMA TierInitInv == TierInit => TierInv
  BY TierAssumption DEF TierInit, TierInv

\* Each bucket serves a sample only in its own range.
LEMMA OnceFollows == TierInv => ServedOnce
<1> SUFFICES ASSUME TierInv PROVE ServedOnce
  OBVIOUS
<1>0. /\ tierNow \in Nat /\ TierAge[1] \in Nat /\ TierAge[2] \in Nat /\ TierAge[3] \in Nat
  BY TierAssumption DEF TierInv
<1>1. ASSUME NEW b \in ServedBuckets, NEW s \in b.of, s \in ServedRaw PROVE FALSE
  <2>1. b \in rolled
    BY DEF ServedBuckets
  <2>2. s \in Nat /\ s < tierNow - TierAge[1]
    BY <1>1, <2>1 DEF TierInv, SoundBucket, RolledUp
  <2>3. s >= tierNow - TierAge[1]
    BY <1>1 DEF ServedRaw
  <2>4. QED
    BY <1>0, <2>2, <2>3
<1>2. ASSUME NEW a \in ServedBuckets, NEW b \in ServedBuckets, a # b, NEW s \in a.of, s \in b.of PROVE FALSE
  <2>1. a \in rolled /\ b \in rolled /\ SoundBucket(a) /\ SoundBucket(b)
    BY DEF ServedBuckets, TierInv
  <2>2. RolledUp(a, s) /\ RolledUp(b, s) /\ s \in Nat
    BY <1>2, <2>1 DEF SoundBucket, RolledUp
  <2>3. a.tier \in 1..3 /\ b.tier \in 1..3 /\ a.tier # b.tier
    BY <1>2, <2>1, <2>2 DEF SoundBucket, RolledUp, TierInv
  <2>4. Home(s)[1] \in Nat /\ Home(s)[2] \in Nat
    BY <2>2, HomeIs
  <2>5. \A c \in {a, b} : /\ c.tier = 1 => Home(s)[1] >= tierNow - TierAge[2]
                          /\ c.tier = 2 => Home(s)[2] >= tierNow - TierAge[3] /\ Home(s)[1] < tierNow - TierAge[2]
                          /\ c.tier = 3 => Home(s)[2] < tierNow - TierAge[3] /\ Home(s)[1] < tierNow - TierAge[2]
    BY <2>1, <2>2, <2>3 DEF ServedBuckets, RolledUp
  <2>6. QED
    BY <1>0, <2>3, <2>4, <2>5
<1>3. QED
  BY <1>1, <1>2 DEF ServedOnce

\* Buckets that are written have taken the place of those of the same time.
LEMMA ReplacedAre ==
  ASSUME TierInv, NEW new, NEW t \in 1..3, \A n \in new : n.tier = t,
         \A m, n \in new : m.start = n.start => m = n
  PROVE  /\ \A a, b \in Replaced(new) : a.tier = b.tier /\ a.start = b.start => a = b
         /\ \A b \in rolled : b \in Replaced(new) \/ \E n \in new : n.tier = b.tier /\ n.start = b.start
  BY DEF Replaced, TierInv

\* A bucket stays sound while time goes on.
LEMMA StaysSound ==
  ASSUME TierInv, tierNow' \in Nat, tierNow <= tierNow', NEW b, SoundBucket(b)
  PROVE  SoundBucket(b)'
<1>1. TierAge[1] \in Nat /\ TierAge[2] \in Nat /\ TierAge[3] \in Nat /\ tierNow \in Nat
  BY TierAssumption DEF TierInv
<1>2. ASSUME NEW s \in b.of PROVE RolledUp(b, s)'
  <2>1. RolledUp(b, s) /\ s \in Nat
    BY DEF SoundBucket, RolledUp
  <2>2. Home(s)[1] \in Nat /\ Home(s)[2] \in Nat
    BY <2>1, HomeIs
  <2>3. QED
    BY <1>1, <2>1, <2>2 DEF RolledUp
<1>3. QED
  BY <1>2 DEF SoundBucket

LEMMA AggregateRawTier ==
  ASSUME TierInv, AggregateRaw
  PROVE  TierInv' /\ NoHoleLeft
<1> DEFINE cutoff == cascadeNow - TierAge[1]
           rows   == {s \in raw : s < cutoff}
           B(b)   == [tier |-> 1, start |-> b, of |-> {s \in rows : Bucket(1, s) = b}]
           new    == {B(b) : b \in {Bucket(1, s) : s \in rows}}
<1>1. /\ cascade = 1 /\ cascade' = 2 /\ rolled' = Replaced(new)
      /\ raw' = {s \in raw : s \in rows => ~Unpinned(s)} /\ UNCHANGED <<tierNow, pinned, cascadeNow>>
  BY DEF AggregateRaw
<1>2. raw \subseteq Nat /\ tierNow \in Nat /\ cascadeNow \in Nat /\ cascadeNow <= tierNow /\ TierAge[1] \in Nat
  BY TierAssumption DEF TierInv
<1>3. ASSUME NEW b \in {Bucket(1, s) : s \in rows}
      PROVE  SoundBucket(B(b))
  <2>1. PICK r \in rows : b = Bucket(1, r)
    OBVIOUS
  <2>2. r \in Nat /\ r \in B(b).of
    BY <1>2, <2>1
  <2>3. b \in Nat /\ \E n \in Nat : b = n * TierWidth[1]
    BY <2>1, <2>2, BucketAround
  <2>4. ASSUME NEW s \in B(b).of PROVE RolledUp(B(b), s)
    <3>1. s \in raw /\ s \in Nat /\ s < cutoff /\ Bucket(1, s) = b
      BY <1>2, <2>4
    <3>2. s < tierNow - TierAge[1]
      BY <1>2, <3>1
    <3>3. Home(s)[1] = b
      BY <3>1, HomeIs
    <3>4. B(b).tier = 1 /\ B(b).start = b
      OBVIOUS
    <3>5. QED
      BY <3>1, <3>2, <3>3, <3>4 DEF RolledUp
  <2>5. B(b).tier = 1 /\ B(b).start = b /\ B(b).of # {}
    BY <2>2
  <2> HIDE DEF B
  <2>6. QED
    BY <2>3, <2>4, <2>5 DEF SoundBucket
<1>a. \A b : B(b).tier = 1 /\ B(b).start = b
  OBVIOUS
<1> HIDE DEF B
<1>4. /\ \A n \in new : n.tier = 1 /\ SoundBucket(n)
      /\ \A m, n \in new : m.start = n.start => m = n
  <2>1. ASSUME NEW n \in new PROVE n.tier = 1 /\ SoundBucket(n) /\ n = B(n.start)
    <3>1. PICK b \in {Bucket(1, s) : s \in rows} : n = B(b)
      OBVIOUS
    <3>2. QED
      BY <1>3, <1>a, <3>1
  <2>2. QED
    BY <2>1
<1> HIDE DEF new
<1>5. /\ \A a, b \in rolled' : a.tier = b.tier /\ a.start = b.start => a = b
      /\ \A b \in rolled : b \in rolled' \/ \E n \in new : n.tier = b.tier /\ n.start = b.start
  BY <1>1, <1>4, ReplacedAre
<1>6. rolled' \subseteq rolled \cup new /\ new \subseteq rolled'
  BY <1>1 DEF Replaced
<1>7. \A b \in rolled' : SoundBucket(b)'
  BY <1>1, <1>2, <1>4, <1>6, StaysSound DEF TierInv
<1> HIDE DEF rows, cutoff
<1>8. TierInv'
  <2>1. raw' \subseteq Nat
    BY <1>1, <1>2
  <2>2. tierNow' \in Nat /\ cascadeNow' \in Nat /\ cascadeNow' <= tierNow' /\ cascade' \in 0..4
    BY <1>1, <1>2
  <2>3. QED
    BY <1>5, <1>7, <2>1, <2>2 DEF TierInv
<1>9. ASSUME NEW s \in Times, Covered(s) PROVE Covered(s)'
  <2>0. s \in Nat
    BY TierAssumption DEF Times
  <2>1. CASE s \in raw /\ s \notin raw'
    <3>1. s \in rows
      BY <1>1, <2>1
    <3>2. B(Bucket(1, s)) \in new
      BY <3>1 DEF new
    <3>3. B(Bucket(1, s)).start = Bucket(1, s) /\ B(Bucket(1, s)).tier = 1
      BY <1>a
    <3>4. Bucket(1, s) \in Nat /\ s \in Bucket(1, s)..(Bucket(1, s) + TierWidth[1] - 1)
      BY <2>0, BucketAround, TierAssumption
    <3>5. B(Bucket(1, s)).of # {}
      BY <3>1 DEF B
    <3>6. QED
      BY <1>6, <3>2, <3>3, <3>4, <3>5 DEF Covered
  <2>2. ASSUME NEW b \in rolled, s \in b.start..(b.start + TierWidth[b.tier] - 1) PROVE Covered(s)'
    <3>1. PICK c \in rolled' : c.tier = b.tier /\ c.start = b.start
      BY <1>5, <1>6
    <3>2. c.of # {}
      BY <1>7, <3>1 DEF SoundBucket
    <3>3. QED
      BY <2>2, <3>1, <3>2 DEF Covered
  <2>3. QED
    BY <1>9, <2>1, <2>2 DEF Covered
<1>10. QED
  BY <1>8, <1>9 DEF NoHoleLeft

\* A bucket lies in the bucket of its start of the next tier, and of any higher one.
LEMMA BucketsNest ==
  ASSUME NEW k \in 1..3, NEW t \in 1..3, k <= t, NEW b, SoundBucket(b), b.tier = k,
         NEW s \in Nat, b.start <= s, s < b.start + TierWidth[k]
  PROVE  /\ Bucket(t, b.start) <= s /\ s < Bucket(t, b.start) + TierWidth[t]
         /\ Bucket(t, s) <= b.start
<1>1. TierWidth[k] \in Nat \ {0} /\ TierWidth[t] \in Nat \ {0} /\ b.start \in Nat
  BY TierAssumption DEF SoundBucket
<1>2. PICK n \in Nat : b.start = n * TierWidth[k]
  BY DEF SoundBucket
<1>3. PICK j \in Nat : TierWidth[t] = j * TierWidth[k]
  <2>1. CASE k = t
    <3>1. TierWidth[t] = 1 * TierWidth[k]
      BY <1>1, <2>1
    <3>2. QED
      BY <3>1
  <2>2. CASE k # t
    BY <2>2, Widths
  <2>3. QED
    BY <2>1, <2>2
<1>4. PICK m \in Nat : Bucket(t, b.start) = m * TierWidth[t]
  BY <1>1, BucketAround
<1>5. PICK i \in Nat : Bucket(t, s) = i * TierWidth[t]
  BY BucketAround
<1>6. Bucket(t, b.start) \in Nat /\ Bucket(t, b.start) <= b.start /\ b.start < Bucket(t, b.start) + TierWidth[t]
  BY <1>1, BucketAround
<1>7. Bucket(t, s) \in Nat /\ Bucket(t, s) <= s
  BY BucketAround
<1> DEFINE v == TierWidth[k]
           w == TierWidth[t]
<1>8. /\ v \in Nat \ {0} /\ w \in Nat /\ w = j * v
      /\ b.start = n * v /\ Bucket(t, b.start) = m * w /\ Bucket(t, s) = i * w
  BY <1>1, <1>2, <1>3, <1>4, <1>5
<1>9. s < b.start + v /\ b.start < Bucket(t, b.start) + w
  BY <1>6
<1> HIDE DEF v, w
<1>10. n * v + v <= m * w + w
  BY <1>8, <1>9, Nested
<1>11. i * w < n * v + v
  BY <1>1, <1>7, <1>8, <1>9
<1>12. i * w <= n * v
  BY <1>8, <1>11, Nested
<1>13. s < Bucket(t, b.start) + w
  BY <1>1, <1>6, <1>8, <1>9, <1>10
<1>14. QED
  BY <1>1, <1>6, <1>8, <1>12, <1>13 DEF w

LEMMA ReaggregateTier ==
  ASSUME TierInv, Reaggregate
  PROVE  TierInv' /\ NoHoleLeft
<1> DEFINE tier    == cascade - 1
           rows    == {b \in rolled : b.tier = tier /\ b.start < cascadeNow - TierAge[cascade]}
           Into(t) == {b \in rows : Bucket(cascade, b.start) = t}
           B(t)    == [tier |-> cascade, start |-> t, of |-> UNION {b.of : b \in Into(t)}]
           new     == {B(t) : t \in {Bucket(cascade, b.start) : b \in rows}}
<1>1. /\ cascade \in {2, 3} /\ cascade' = cascade + 1 /\ rolled' = Replaced(new) \ rows
      /\ UNCHANGED <<tierNow, raw, pinned, cascadeNow>>
  BY DEF Reaggregate
<1>2. raw \subseteq Nat /\ tierNow \in Nat /\ cascadeNow \in Nat /\ cascadeNow <= tierNow /\ TierAge \in [1..3 -> Nat]
  BY TierAssumption DEF TierInv
<1>3. ASSUME NEW b \in rows, NEW s \in b.of
      PROVE  /\ s \in Nat /\ Home(s)[tier] = b.start /\ Home(s)[cascade] = Bucket(cascade, b.start)
             /\ s < tierNow - TierAge[1]
             /\ Home(s)[1] < tierNow - TierAge[2]
             /\ cascade = 3 => Home(s)[2] < tierNow - TierAge[3]
  <2>1. b \in rolled /\ b.tier = tier /\ b.start < cascadeNow - TierAge[cascade] /\ SoundBucket(b) /\ RolledUp(b, s)
    BY DEF TierInv, SoundBucket
  <2>2. s \in Nat /\ Home(s)[tier] = b.start /\ s < tierNow - TierAge[1] /\ b.start \in Nat
    BY <2>1 DEF RolledUp, SoundBucket
  <2>3. b.start < tierNow - TierAge[cascade]
    BY <1>1, <1>2, <2>1, <2>2
  <2>4. cascade = 3 => Home(s)[1] < tierNow - TierAge[2]
    BY <2>1 DEF RolledUp
  <2>5. CASE cascade = 2
    BY <2>2, <2>3, <2>5, HomeIs
  <2>6. CASE cascade = 3
    BY <2>2, <2>3, <2>4, <2>6, HomeIs
  <2>7. QED
    BY <1>1, <2>5, <2>6
<1>4. ASSUME NEW t \in {Bucket(cascade, b.start) : b \in rows} PROVE SoundBucket(B(t))
  <2>1. PICK b \in rows : t = Bucket(cascade, b.start)
    OBVIOUS
  <2>2. b \in rolled /\ b.of # {} /\ b.start \in Nat
    BY DEF TierInv, SoundBucket
  <2>3. t \in Nat /\ \E n \in Nat : t = n * TierWidth[cascade]
    BY <1>1, <2>1, <2>2, BucketAround
  <2>4. B(t).of # {}
    BY <2>1, <2>2
  <2>5. ASSUME NEW s \in B(t).of PROVE RolledUp(B(t), s)
    <3>1. PICK c \in rows : s \in c.of /\ Bucket(cascade, c.start) = t
      BY <2>5
    <3>2. s \in Nat /\ Home(s)[cascade] = t /\ s < tierNow - TierAge[1] /\ Home(s)[1] < tierNow - TierAge[2]
          /\ (cascade = 3 => Home(s)[2] < tierNow - TierAge[3])
      BY <1>3, <3>1
    <3>3. B(t).tier = cascade /\ B(t).start = t
      OBVIOUS
    <3> HIDE DEF B
    <3>4. QED
      BY <1>1, <3>2, <3>3 DEF RolledUp
  <2>6. B(t).tier = cascade /\ B(t).start = t
    OBVIOUS
  <2> HIDE DEF B
  <2>7. QED
    BY <1>1, <2>3, <2>4, <2>5, <2>6 DEF SoundBucket
<1>a. \A t : B(t).tier = cascade /\ B(t).start = t
  OBVIOUS
<1> HIDE DEF B
<1>5. /\ \A n \in new : n.tier = cascade /\ SoundBucket(n)
      /\ \A m, n \in new : m.start = n.start => m = n
  <2>1. ASSUME NEW n \in new PROVE n.tier = cascade /\ SoundBucket(n) /\ n = B(n.start)
    <3>1. PICK t \in {Bucket(cascade, b.start) : b \in rows} : n = B(t)
      OBVIOUS
    <3>2. QED
      BY <1>4, <1>a, <3>1
  <2>2. QED
    BY <2>1
<1>6. /\ \A a, b \in Replaced(new) : a.tier = b.tier /\ a.start = b.start => a = b
      /\ \A b \in rolled : b \in Replaced(new) \/ \E n \in new : n.tier = b.tier /\ n.start = b.start
  <2> HIDE DEF new
  <2>1. QED
    BY <1>1, <1>5, ReplacedAre
<1>7. \A t \in {Bucket(cascade, b.start) : b \in rows} : B(t) \in new
  OBVIOUS
<1> HIDE DEF new
<1>8. rolled' \subseteq rolled \cup new /\ new \subseteq rolled'
  <2>1. \A n \in new : n \notin rows
    BY <1>1, <1>5
  <2>2. QED
    BY <1>1, <2>1 DEF Replaced
<1>9. \A b \in rolled' : SoundBucket(b)'
  BY <1>1, <1>2, <1>5, <1>8, StaysSound DEF TierInv
<1>10. TierInv'
  BY <1>1, <1>2, <1>6, <1>9 DEF TierInv
<1>11. ASSUME NEW s \in Times, Covered(s) PROVE Covered(s)'
  <2>0. s \in Nat
    BY TierAssumption DEF Times
  <2>1. CASE s \in raw
    BY <1>1, <2>1 DEF Covered
  <2>2. ASSUME NEW b \in rolled, s \in b.start..(b.start + TierWidth[b.tier] - 1) PROVE Covered(s)'
    <3>0. SoundBucket(b) /\ b.start \in Nat /\ b.tier \in 1..3 /\ TierWidth[b.tier] \in Nat /\ TierWidth[cascade] \in Nat
      BY <1>1, TierAssumption DEF TierInv, SoundBucket
    <3>1. PICK c \in rolled' : c.start <= s /\ s < c.start + TierWidth[c.tier]
      <4>1. CASE b \in rows
        <5> DEFINE t == Bucket(cascade, b.start)
        <5>1. B(t) \in new /\ B(t).tier = cascade /\ B(t).start = t
          BY <1>7, <1>a, <4>1
        <5>2. t <= s /\ s < t + TierWidth[cascade]
          <6>1. b.tier <= cascade /\ cascade \in 1..3 /\ b.start <= s /\ s < b.start + TierWidth[b.tier]
            BY <1>1, <2>0, <2>2, <3>0, <4>1
          <6>2. QED
            BY <2>0, <3>0, <6>1, BucketsNest
        <5>3. QED
          BY <1>8, <5>1, <5>2
      <4>2. CASE b \notin rows
        <5>1. PICK c \in rolled' : c.tier = b.tier /\ c.start = b.start
          BY <1>1, <1>6, <1>8, <4>2
        <5>2. QED
          BY <2>0, <2>2, <3>0, <5>1
      <4>3. QED
        BY <4>1, <4>2
    <3>2. c.of # {} /\ c.start \in Nat /\ TierWidth[c.tier] \in Nat
      BY <1>9, <3>1, TierAssumption DEF SoundBucket
    <3>3. s \in c.start..(c.start + TierWidth[c.tier] - 1)
      BY <2>0, <3>1, <3>2
    <3>4. QED
      BY <3>1, <3>2, <3>3 DEF Covered
  <2>3. QED
    BY <1>11, <2>1, <2>2 DEF Covered
<1>12. QED
  BY <1>10, <1>11 DEF NoHoleLeft

LEMMA CleanupTier ==
  ASSUME TierInv, Cleanup
  PROVE  TierInv' /\ NoHoleLeft
<1> DEFINE cutoff == tierNow - Retention
<1>1. /\ cascade = 4 /\ cascade' = 0 /\ UNCHANGED <<tierNow, pinned, cascadeNow>>
      /\ raw' \subseteq raw /\ rolled' \subseteq rolled
      /\ \A s \in raw : s \in raw' \/ (Retention # 0 /\ s < cutoff)
      /\ \A b \in rolled : b \in rolled' \/ (Retention # 0 /\ ~(b.start >= cutoff))
  BY DEF Cleanup
<1>2. tierNow \in Nat /\ Retention \in Nat /\ raw \subseteq Nat
  BY TierAssumption DEF TierInv
<1>3. \A b \in rolled' : SoundBucket(b)'
  BY <1>1, <1>2, StaysSound DEF TierInv
<1>4. TierInv'
  BY <1>1, <1>3 DEF TierInv
<1>5. ASSUME NEW s \in Times, Covered(s), ~Covered(s)' PROVE Retention > 0 /\ Bucket(3, s) < cutoff
  <2>0. s \in Nat /\ Bucket(3, s) \in Nat /\ Bucket(3, s) <= s
    BY TierAssumption, BucketAround DEF Times
  <2>1. CASE s \in raw
    BY <1>1, <1>2, <1>5, <2>0, <2>1 DEF Covered
  <2>2. CASE \E b \in rolled : b.of # {} /\ s \in b.start..(b.start + TierWidth[b.tier] - 1)
    <3>1. PICK b \in rolled : b.of # {} /\ s \in b.start..(b.start + TierWidth[b.tier] - 1)
      BY <2>2
    <3>2. b \notin rolled'
      BY <1>5, <3>1 DEF Covered
    <3>3. Retention # 0 /\ ~(b.start >= cutoff)
      BY <1>1, <3>2
    <3>4. SoundBucket(b) /\ b.start \in Nat /\ b.tier \in 1..3 /\ TierWidth[b.tier] \in Nat
      BY TierAssumption DEF TierInv, SoundBucket
    <3>5. b.start <= s /\ s < b.start + TierWidth[b.tier] /\ b.tier <= 3
      BY <2>0, <3>1, <3>4
    <3>6. Bucket(3, s) <= b.start
      BY <2>0, <3>4, <3>5, BucketsNest
    <3>7. QED
      BY <1>2, <2>0, <3>3, <3>4, <3>6
  <2>3. QED
    BY <1>5, <2>1, <2>2 DEF Covered
<1>6. QED
  BY <1>1, <1>4, <1>5 DEF NoHoleLeft

LEMMA TierStep == TierInv /\ [TierNext]_tierVars => TierInv' /\ NoHoleLeft
<1> SUFFICES ASSUME TierInv, [TierNext]_tierVars PROVE TierInv' /\ NoHoleLeft
  OBVIOUS
<1>1. ASSUME tierNow' \in Nat, tierNow <= tierNow', cascadeNow' \in Nat, cascadeNow' <= tierNow', cascade' \in 0..4,
             raw' \subseteq Nat, raw \subseteq raw', rolled' = rolled
      PROVE  TierInv' /\ NoHoleLeft
  <2>1. \A b \in rolled' : SoundBucket(b)'
    BY <1>1, StaysSound DEF TierInv
  <2>2. TierInv'
    BY <1>1, <2>1 DEF TierInv
  <2>3. NoHoleLeft
    BY <1>1 DEF NoHoleLeft, Covered
  <2>4. QED
    BY <2>2, <2>3
<1>2. CASE Probe
  BY <1>1, <1>2 DEF Probe, TierInv
<1>3. CASE BeginCascade \/ CascadeStops \/ (\E d \in PinDays : PinDay(d)) \/ UNCHANGED tierVars
  <2>1. /\ UNCHANGED <<tierNow, raw, rolled>>
        /\ \/ cascadeNow' = tierNow /\ cascade' = 1
           \/ cascadeNow' = cascadeNow /\ cascade' \in {0, cascade}
    BY <1>3 DEF BeginCascade, CascadeStops, PinDay, tierVars
  <2>2. tierNow \in Nat /\ cascadeNow \in Nat /\ cascadeNow <= tierNow /\ cascade \in 0..4 /\ raw \subseteq Nat
    BY DEF TierInv
  <2>3. QED
    BY <1>1, <2>1, <2>2
<1>4. QED
  BY <1>2, <1>3, AggregateRawTier, ReaggregateTier, CleanupTier DEF TierNext

\* Whatever is cut off, pinned and deleted, for any widths of which each divides the next and any
\* ages: no sample is served twice, and no roll-up leaves a hole (storage.py, aggregate;
\* routes.py, api_get_samples).
THEOREM RangesServed == TierSpec => RangesAreServedOnce
<1>1. TierInv /\ [TierNext]_tierVars => [ServedOnce' /\ NoHoleLeft]_tierVars
  <2>1. TierInv' => ServedOnce'
    BY OnceFollows, PTL
  <2>2. QED
    BY TierStep, <2>1
<1>2. QED
  BY TierInitInv, TierStep, <1>1, PTL DEF TierSpec, RangesAreServedOnce

=============================================================================
