--------------------------- MODULE ConnectionMonitor ---------------------------
(***************************************************************************)
(* The connection monitor (app/modules/connection_monitor): batches of     *)
(* probes, the samples, the rules that make events of them and the event   *)
(* log.  Targets change under it by web requests, a step may fail, and a   *)
(* settings save or a crash begins with a new collector.  The traceroutes  *)
(* that events trigger are in TracerouteTrigger.                           *)
(***************************************************************************)
EXTENDS Naturals

CONSTANTS
  Targets,
  Threshold,    \* connection_monitor_outage_threshold
  MaxFaults     \* bound: failed steps, new collectors and crashes in all

ASSUME MonitorAssumption == Threshold \in Nat \ {0} /\ MaxFaults \in Nat

VARIABLES
  status,       \* the row of connection_targets
  streak,       \* timeouts at the end of connection_samples, up to Threshold
  log,          \* last outage event of the target in the core event log
  due,          \* targets whose _last_probe is an interval ago
  pc, batch, result,                  \* collect(): how far, whom, what answered
  unchecked,                          \* targets whose loss is still to be computed
  events,                             \* all_events
  timeouts, inOutage, lossCooled,     \* ConnectionEventRules
  seen,         \* history: timeouts saved in a row since the collector was built
  unlogged,     \* history: the log may be wrong about these targets, as an event was
                \* lost, or the collector that had seen the outage
  faults

dbVars    == <<status, streak, log>>
runVars   == <<due, pc, batch, result, unchecked, events>>
ruleVars  == <<timeouts, inOutage, lossCooled>>
history   == <<seen, unlogged, faults>>
vars == <<dbVars, runVars, ruleVars, history>>

Kinds  == {"unreachable", "recovered", "loss"}
Events == [target : Targets, kind : Kinds]

TypeOK ==
  /\ status \in [Targets -> {"enabled", "disabled", "deleted"}]
  /\ {streak, timeouts, seen} \subseteq [Targets -> 0..Threshold]
  /\ log \in [Targets -> {"none", "unreachable", "recovered"}]
  /\ {due, batch, unchecked, unlogged} \subseteq SUBSET Targets
  /\ pc \in {"idle", "probing", "rules", "window", "tracing"}
  /\ result \in [Targets -> {"none", "answer", "timeout"}]
  /\ events \subseteq Events
  /\ {inOutage, lossCooled} \subseteq [Targets -> BOOLEAN]
  /\ faults \in 0..MaxFaults

NewRules ==
  /\ timeouts' = [t \in Targets |-> 0] /\ inOutage' = [t \in Targets |-> FALSE]
  /\ lossCooled' = [t \in Targets |-> TRUE]

\* collect() is over, whatever came of it.
NoRun ==
  /\ pc' = "idle" /\ batch' = {} /\ result' = [t \in Targets |-> "none"]
  /\ unchecked' = {} /\ events' = {}

Init ==
  /\ status = [t \in Targets |-> "enabled"]
  /\ streak = [t \in Targets |-> 0] /\ log = [t \in Targets |-> "none"]
  /\ due = Targets /\ pc = "idle" /\ batch = {} /\ result = [t \in Targets |-> "none"]
  /\ unchecked = {} /\ events = {}
  /\ timeouts = [t \in Targets |-> 0] /\ inOutage = [t \in Targets |-> FALSE]
  /\ lossCooled = [t \in Targets |-> TRUE]
  /\ seen = [t \in Targets |-> 0] /\ unlogged = {} /\ faults = 0

Fault == faults < MaxFaults /\ faults' = faults + 1

(***************************************************************************)
(* The collector.                                                          *)
(***************************************************************************)
\* Only a new run looks: that an interval ends during a run is the same as right after.
BecomeDue(t) ==
  /\ pc = "idle" /\ t \notin due
  /\ due' = due \cup {t}
  /\ UNCHANGED <<dbVars, pc, batch, result, unchecked, events, ruleVars, history>>

\* Mutant of StartBatch: a run probes the first target that is due, and no other.
StartBatchOfFirst ==
  LET ready == {t \in due : status[t] = "enabled"} IN
  /\ pc = "idle" /\ ready # {}
  /\ pc' = "probing" /\ batch' = {CHOOSE t \in ready : TRUE}
  /\ UNCHANGED <<dbVars, due, result, unchecked, events, ruleVars, history>>

StartBatch ==
  LET ready == {t \in due : status[t] = "enabled"} IN
  /\ pc = "idle" /\ ready # {}
  /\ pc' = "probing" /\ batch' = ready
  /\ UNCHANGED <<dbVars, due, result, unchecked, events, ruleVars, history>>

\* One round of the as_completed loop.  A probe that raised counts as a timeout.
Answer(t, r) ==
  /\ pc = "probing" /\ t \in batch /\ result[t] = "none"
  /\ result' = [result EXCEPT ![t] = r] /\ due' = due \ {t}
  /\ UNCHANGED <<dbVars, pc, batch, unchecked, events, ruleVars, history>>

\* Mutant of Late: the rules are given the samples of an incomplete batch, which nobody saves.
LateKeepsSamples ==
  /\ pc = "probing" /\ \E t \in batch : result[t] = "none"
  /\ pc' = "rules"
  /\ UNCHANGED <<dbVars, due, batch, result, unchecked, events, ruleVars, history>>

\* A probe is not back within 5 s: as_completed raises, and with it go the samples
\* of the probes that are back.
Late ==
  /\ pc = "probing" /\ \E t \in batch : result[t] = "none"
  /\ NoRun
  /\ UNCHANGED <<dbVars, due, ruleVars, history>>

AllBack == \A t \in batch : result[t] # "none"
Longer(count) == [t \in Targets |-> CASE result[t] = "timeout" -> IF count[t] < Threshold THEN count[t] + 1 ELSE Threshold
                                      [] result[t] = "answer"  -> 0
                                      [] OTHER -> count[t]]

\* One transaction; a target deleted meanwhile fails the foreign key of its sample.
SaveSamples ==
  /\ pc = "probing" /\ AllBack /\ \A t \in batch : status[t] # "deleted"
  /\ pc' = "rules" /\ streak' = Longer(streak) /\ seen' = Longer(seen)
  /\ UNCHANGED <<status, log, due, batch, result, unchecked, events, ruleVars, unlogged, faults>>

SaveRejected ==
  /\ pc = "probing" /\ AllBack /\ \E t \in batch : status[t] = "deleted"
  /\ NoRun
  /\ UNCHANGED <<dbVars, due, ruleVars, history>>

SaveFails ==
  /\ pc = "probing" /\ AllBack /\ Fault
  /\ NoRun
  /\ UNCHANGED <<dbVars, due, ruleVars, seen, unlogged>>

CheckProbeResult ==
  LET now  == Longer(timeouts)
      down == {t \in batch : result[t] = "timeout" /\ now[t] >= Threshold /\ ~inOutage[t]}
      up   == {t \in batch : result[t] = "answer" /\ inOutage[t]}
  IN
  /\ pc = "rules"
  /\ pc' = "window" /\ unchecked' = batch /\ timeouts' = now
  /\ inOutage' = [t \in Targets |-> t \notin up /\ (inOutage[t] \/ t \in down)]
  /\ events' = [target : down, kind : {"unreachable"}] \cup [target : up, kind : {"recovered"}]
  /\ UNCHANGED <<dbVars, due, batch, result, lossCooled, history>>

\* The loss of the last minute is at or above the limit, or not.
CheckWindowStats(t, lossy) ==
  /\ pc = "window" /\ t \in unchecked
  /\ unchecked' = unchecked \ {t}
  /\ IF lossy /\ lossCooled[t]
       THEN lossCooled' = [lossCooled EXCEPT ![t] = FALSE] /\ events' = events \cup {[target |-> t, kind |-> "loss"]}
       ELSE UNCHANGED <<lossCooled, events>>
  /\ UNCHANGED <<dbVars, due, pc, batch, result, timeouts, inOutage, history>>

LoopOverEvents ==
  /\ pc = "window" /\ unchecked = {}
  /\ pc' = "tracing"
  /\ UNCHANGED <<dbVars, due, batch, result, unchecked, events, ruleVars, history>>

Logged(kind) == {t \in Targets : [target |-> t, kind |-> kind] \in events}
Outages == Logged("unreachable") \cup Logged("recovered")

\* Mutant of SaveEvents: a recovery is not written.
SaveEventsUnreachableOnly ==
  /\ pc = "tracing"
  /\ log' = [t \in Targets |-> IF t \in Logged("unreachable") THEN "unreachable" ELSE log[t]]
  /\ unlogged' = unlogged \ Outages
  /\ NoRun
  /\ UNCHANGED <<status, streak, due, ruleVars, seen, faults>>

SaveEvents ==
  /\ pc = "tracing"
  /\ log' = [t \in Targets |-> CASE t \in Logged("unreachable") -> "unreachable"
                                 [] t \in Logged("recovered")   -> "recovered"
                                 [] OTHER -> log[t]]
  /\ unlogged' = unlogged \ Outages
  /\ NoRun
  /\ UNCHANGED <<status, streak, due, ruleVars, seen, faults>>

\* A read of the summary or of the target, the executor of a collector that was stopped
\* meanwhile, or the write of the events raises: the rules have seen what the log will not.
CheckFails ==
  /\ pc \in {"window", "tracing"} /\ Fault
  /\ unlogged' = unlogged \cup Outages
  /\ NoRun
  /\ UNCHANGED <<dbVars, due, ruleVars, seen>>

LossCools(t) ==
  /\ ~lossCooled[t] /\ lossCooled' = [lossCooled EXCEPT ![t] = TRUE]
  /\ UNCHANGED <<dbVars, runVars, timeouts, inOutage, history>>

(***************************************************************************)
(* Web requests, new collectors, crashes.                                  *)
(***************************************************************************)
SetStatus(t, s) ==
  /\ status[t] \notin {"deleted", s}
  /\ status' = [status EXCEPT ![t] = s]
  /\ streak' = IF s = "deleted" THEN [streak EXCEPT ![t] = 0] ELSE streak
  /\ UNCHANGED <<log, runVars, ruleVars, history>>

Forget ==
  /\ NewRules /\ due' = Targets
  /\ seen' = [t \in Targets |-> 0]
  /\ unlogged' = unlogged \cup Outages \cup {t \in Targets : inOutage[t]}

\* A settings save between two runs, or a crash in the midst of one.
NewCollector ==
  /\ Fault /\ Forget /\ NoRun
  /\ UNCHANGED dbVars

Collect ==
  \/ StartBatch \/ SaveSamples \/ SaveRejected \/ CheckProbeResult \/ LoopOverEvents \/ SaveEvents
  \/ \E t \in Targets : \/ \E r \in {"answer", "timeout"} : Answer(t, r)
                        \/ \E lossy \in BOOLEAN : CheckWindowStats(t, lossy)

Next ==
  \/ Collect \/ Late \/ SaveFails \/ CheckFails
  \/ \E t \in Targets : BecomeDue(t) \/ LossCools(t)
  \/ \E t \in Targets, s \in {"enabled", "disabled", "deleted"} : SetStatus(t, s)
  \/ NewCollector

Fairness ==
  /\ WF_vars(Collect)
  /\ \A t \in Targets : SF_vars(BecomeDue(t))

Spec == Init /\ [][Next]_vars /\ Fairness

(***************************************************************************)
(* Properties.                                                             *)
(***************************************************************************)
\* What the rules hold of a target is what its saved samples say since the collector
\* was built: dropped batches, failed saves and deleted targets leave no trace in one
\* of them that is missing in the other.
RulesFollowSamples ==
  \A t \in Targets :
    /\ pc = "rules" \/ timeouts[t] = seen[t]
    /\ inOutage[t] <=> timeouts[t] = Threshold
    /\ status[t] # "deleted" => seen[t] <= streak[t]

\* The event log says "unreachable" of exactly the targets the rules see in an outage,
\* but for events on their way, and for those that were lost after the rules had
\* moved on or with the collector that knew of the outage.
LogFollowsRules ==
  \A t \in Targets \ (unlogged \cup Outages) :
    log[t] = "unreachable" <=> inOutage[t]

\* Samples, rules and log tell the same of a target (collector.py, collect and _check_events).
LogTellsSamples == RulesFollowSamples /\ LogFollowsRules

\* An enabled target that stays unreachable is logged so, provided no probe of any
\* target is late any more (one that always is keeps every sample out of the
\* database) and its event is not among the lost.
LastingOutageIsLogged ==
  \A t \in Targets :
    (<>[](status[t] = "enabled") /\ <>[][~Late /\ ~Answer(t, "answer")]_vars)
      => <>[](log[t] = "unreachable" \/ t \in unlogged)
=============================================================================
