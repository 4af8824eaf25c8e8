---------------------------- MODULE SmartCapture ----------------------------
(***************************************************************************)
(* Smart Capture (app/smart_capture): an event makes the engine write an   *)
(* execution and call the Speedtest Tracker adapter, which checks its      *)
(* limits, posts a run and marks the execution fired; the speedtest        *)
(* collector imports results and links them; the polling loop expires what *)
(* stays unanswered.  Two collectors evaluate events at once (modem and    *)
(* connection monitor), each in a worker thread of its own.                *)
(*                                                                         *)
(* Timestamps are kept as ages in units of the expiry check; an age stops  *)
(* at Horizon, beyond every limit it is compared with.  The guardrails     *)
(* (cooldowns in memory) may let an event pass or not.                     *)
(***************************************************************************)
EXTENDS Integers, FiniteSets

CONSTANTS
  Sources,      \* collectors that evaluate events
  MaxExecs,     \* bound: executions
  MaxResults,   \* bound: results of the Speedtest Tracker
  MinInterval,  \* sc_speedtest_min_interval
  Day,          \* 24 h
  DailyCap,     \* sc_speedtest_max_actions_per_day
  Window,       \* sc_speedtest_match_window
  ExpireAfter,  \* expiry_minutes in polling_loop
  Backfill,     \* an import into a cache with fewer results links nothing
  Free          \* no source holds the lock

ASSUME CaptureAssumption ==
  /\ MaxExecs \in Nat /\ MaxResults \in Nat
  /\ MinInterval \in Nat /\ Day \in Nat /\ MinInterval <= Day
  /\ DailyCap \in Nat \ {0} /\ Window \in Nat
  /\ ExpireAfter \in Nat /\ ExpireAfter > Window /\ ExpireAfter <= Day
  /\ Backfill \in Nat
  /\ Free \notin Sources

Executions == 1..MaxExecs
Results    == 1..MaxResults
Horizon    == Day + ExpireAfter + 1
Never      == -1
Ages       == Never..Horizon
None       == 0

VARIABLES
  adapter,     \* register_speedtest_adapter was called
  status, link,            \* columns of smart_capture_executions
  createdAge, firedAge,
  step,        \* of every source, inside evaluate()
  exec,        \* the execution it works on
  lock,        \* _execute_lock
  resultAge,   \* the tracker: its results by id
  cached,      \* speedtest_results holds the ids up to this one
  importing,   \* the import: idle, saved, matching
  batch, todo  \* its new results; the executions it has still to match

rowVars    == <<status, link, createdAge, firedAge>>
sourceVars == <<step, exec, lock>>
importVars == <<cached, importing, batch, todo>>
vars       == <<adapter, rowVars, sourceVars, resultAge, importVars>>

TypeOK ==
  /\ adapter \in BOOLEAN
  /\ status \in [Executions -> {"none", "pending", "fired", "completed", "suppressed", "expired"}]
  /\ link \in [Executions -> Results \cup {None}]
  /\ createdAge \in [Executions -> Ages] /\ firedAge \in [Executions -> Ages]
  /\ step \in [Sources -> {"idle", "call", "preflight", "post", "accepted", "timeout"}]
  /\ exec \in [Sources -> Executions \cup {None}]
  /\ lock \in Sources \cup {Free}
  /\ \A s \in Sources : /\ exec[s] = None <=> step[s] = "idle"
                        /\ lock = s <=> step[s] \notin {"idle", "call"}
  /\ resultAge \in [Results -> Ages]
  /\ cached \in 0..MaxResults /\ importing \in {"idle", "saved", "matching"}
  /\ batch \subseteq Results /\ todo \subseteq Executions

Init ==
  /\ adapter \in BOOLEAN
  /\ status = [e \in Executions |-> "none"] /\ link = [e \in Executions |-> None]
  /\ createdAge = [e \in Executions |-> Never] /\ firedAge = [e \in Executions |-> Never]
  /\ step = [s \in Sources |-> "idle"] /\ exec = [s \in Sources |-> None]
  /\ lock = Free
  /\ resultAge = [r \in Results |-> Never]
  /\ cached = 0 /\ importing = "idle" /\ batch = {} /\ todo = {}

Fired    == {e \in Executions : firedAge[e] # Never}
Produced == {r \in Results : resultAge[r] # Never}
Older(a) == IF a = Never \/ a = Horizon THEN a ELSE a + 1

Return(s) ==
  /\ step' = [step EXCEPT ![s] = "idle"] /\ exec' = [exec EXCEPT ![s] = None]
  /\ lock' = IF lock = s THEN Free ELSE lock

GoOn(s, from, to) ==
  /\ step[s] = from /\ step' = [step EXCEPT ![s] = to]
  /\ UNCHANGED exec

---------------------------------------------------------------------------
\* _evaluate_event, once per event: the guardrails allow it or not.
Evaluate(s) ==
  \E e \in Executions :
    /\ step[s] = "idle"
    /\ status[e] = "none" /\ \A d \in 1..(e - 1) : status[d] # "none"
    /\ createdAge' = [createdAge EXCEPT ![e] = 0]
    /\ UNCHANGED <<adapter, link, firedAge, lock, resultAge, importVars>>
    /\ \/ /\ status' = [status EXCEPT ![e] = "suppressed"]
          /\ UNCHANGED <<step, exec>>
       \/ /\ status' = [status EXCEPT ![e] = "pending"]
          /\ IF adapter
             THEN /\ step' = [step EXCEPT ![s] = "call"]
                  /\ exec' = [exec EXCEPT ![s] = e]
                             ELSE UNCHANGED <<step, exec>>

\* Mutant of Execute: the lock is not taken.
ExecuteUnlocked(s) ==
  /\ GoOn(s, "call", "preflight")
  /\ UNCHANGED <<adapter, rowVars, lock, resultAge, importVars>>

\* execute(): with self._execute_lock
Execute(s) ==
  /\ GoOn(s, "call", "preflight")
  /\ lock = Free /\ lock' = s
  /\ UNCHANGED <<adapter, rowVars, resultAge, importVars>>

\* _interval_reason: an age in the event's future counts as none.
Recent(age, s) ==
  MinInterval > 0 /\ age # Never /\ age - createdAge[exec[s]] < MinInterval

FireIsRecent(s) == \E e \in Fired : Recent(firedAge[e], s)

\* count_smart_capture_fires_since(reference - 24 h)
CapReached(s) ==
  Cardinality({e \in Fired : firedAge[e] <= createdAge[exec[s]] + Day}) >= DailyCap

\* _preflight_suppression_reason gives one.  Besides the cached results it knows
\* the tracker's own, when the tracker answers.
Suppress(s) ==
  /\ step[s] = "preflight"
  /\ FireIsRecent(s) \/ CapReached(s) \/ \E r \in Produced : Recent(resultAge[r], s)
  /\ status' = [status EXCEPT ![exec[s]] = "suppressed"]
  /\ Return(s)
  /\ UNCHANGED <<adapter, link, createdAge, firedAge, resultAge, importVars>>

Preflight(s) ==
  /\ GoOn(s, "preflight", "post")
  /\ ~FireIsRecent(s) /\ ~CapReached(s)
  /\ \A r \in 1..cached : ~Recent(resultAge[r], s)
  /\ UNCHANGED <<adapter, rowVars, lock, resultAge, importVars>>

\* The post: accepted, answered too late to know, or failed.
Post(s) ==
  /\ GoOn(s, "post", "accepted") \/ GoOn(s, "post", "timeout")
  /\ UNCHANGED <<adapter, rowVars, lock, resultAge, importVars>>

PostFails(s) ==
  /\ step[s] = "post"
  /\ status' = [status EXCEPT ![exec[s]] = "expired"]
  /\ Return(s)
  /\ UNCHANGED <<adapter, link, createdAge, firedAge, resultAge, importVars>>

\* _mark_fired
MarkFired(s) ==
  /\ step[s] \in {"accepted", "timeout"}
  /\ status' = [status EXCEPT ![exec[s]] = "fired"]
  /\ firedAge' = [firedAge EXCEPT ![exec[s]] = 0]
  /\ Return(s)
  /\ UNCHANGED <<adapter, link, createdAge, resultAge, importVars>>

\* The database refuses the update, or the event saved after it.  After an
\* accepted post the handler of any exception expires the execution.
MarkFails(s) ==
  /\ \/ /\ step[s] = "accepted"
        /\ status' = [status EXCEPT ![exec[s]] = "expired"]
        /\ firedAge' \in {firedAge, [firedAge EXCEPT ![exec[s]] = 0]}
     \/ /\ step[s] = "timeout"
        /\ \/ UNCHANGED <<status, firedAge>>
           \/ /\ status' = [status EXCEPT ![exec[s]] = "fired"]
              /\ firedAge' = [firedAge EXCEPT ![exec[s]] = 0]
  /\ Return(s)
  /\ UNCHANGED <<adapter, link, createdAge, resultAge, importVars>>

SourceStep(s) ==
  \/ Execute(s) \/ Suppress(s) \/ Preflight(s)
  \/ Post(s) \/ PostFails(s) \/ MarkFired(s) \/ MarkFails(s)

---------------------------------------------------------------------------
\* The tracker has a new result, of a run posted here or of its own schedule.
\* It may date from before the post was answered.
Produce ==
  \E r \in Results, age \in {0, 1} :
    /\ Produced = 1..(r - 1)
    /\ resultAge' = [resultAge EXCEPT ![r] = age]
    /\ UNCHANGED <<adapter, rowVars, sourceVars, importVars>>

\* SpeedtestCollector.collect: the results past the cache are saved, and, but
\* for a backfill, handed to on_results_imported.
SaveResults ==
  /\ importing = "idle"
  /\ Produced # 1..cached
  /\ cached' = Cardinality(Produced)
  /\ IF adapter /\ cached >= Backfill
     THEN importing' = "saved" /\ batch' = Produced \ 1..cached
     ELSE UNCHANGED <<importing, batch>>
  /\ UNCHANGED <<adapter, rowVars, sourceVars, resultAge, todo>>

\* get_fired_unmatched
ReadFired ==
  /\ importing = "saved"
  /\ todo' = {e \in Executions : status[e] = "fired" /\ link[e] = None}
  /\ importing' = "matching"
  /\ UNCHANGED <<adapter, rowVars, sourceVars, resultAge, cached, batch>>

InWindow(e) == {r \in batch : firedAge[e] - resultAge[r] \in 0..Window}

Nearest(e) == {r \in InWindow(e) : \A q \in InWindow(e) : resultAge[q] <= resultAge[r]}

\* An age at Horizon may be any longer time: any of these results or none.
BestResults(e) ==
  IF firedAge[e] = Horizon THEN InWindow(e) \cup {None}
  ELSE IF InWindow(e) = {} THEN {None} ELSE Nearest(e)

\* Mutants of Claim: it does not ask for the status; the result stays in the batch.
ClaimAnyway(e, r) ==
  IF r # None
  THEN /\ status' = [status EXCEPT ![e] = "completed"]
       /\ link' = [link EXCEPT ![e] = r]
       /\ batch' = batch \ {r}
  ELSE UNCHANGED <<status, link, batch>>

ClaimAndKeep(e, r) ==
  IF r # None /\ status[e] = "fired"
  THEN /\ status' = [status EXCEPT ![e] = "completed"]
       /\ link' = [link EXCEPT ![e] = r]
       /\ UNCHANGED batch
  ELSE UNCHANGED <<status, link, batch>>

\* claim_execution, one transaction: only an execution that is still fired.
Claim(e, r) ==
  IF r # None /\ status[e] = "fired"
  THEN /\ status' = [status EXCEPT ![e] = "completed"]
       /\ link' = [link EXCEPT ![e] = r]
       /\ batch' = batch \ {r}
  ELSE UNCHANGED <<status, link, batch>>

\* The fired executions, oldest first, each with its best result.
Match ==
  /\ importing = "matching"
  /\ \E e \in todo :
       /\ \A d \in todo : firedAge[d] <= firedAge[e]
       /\ todo' = todo \ {e}
       /\ \E r \in BestResults(e) : Claim(e, r)
  /\ UNCHANGED <<adapter, createdAge, firedAge, sourceVars, resultAge, cached, importing>>

ImportEnds ==
  /\ importing = "matching" /\ todo = {}
  /\ importing' = "idle" /\ batch' = {}
  /\ UNCHANGED <<adapter, rowVars, sourceVars, resultAge, cached, todo>>

\* The database refuses a read or a claim: the collector logs it and goes on.
ImportFails ==
  /\ importing # "idle"
  /\ importing' = "idle" /\ batch' = {} /\ todo' = {}
  /\ UNCHANGED <<adapter, rowVars, sourceVars, resultAge, cached>>

ImportStep == SaveResults \/ ReadFired \/ Match \/ ImportEnds \/ ImportFails

---------------------------------------------------------------------------
\* expire_stale_fired and expire_stale_pending, a transaction each.
StaleFired == {e \in Executions : status[e] = "fired" /\ firedAge[e] > ExpireAfter}

StalePending == {e \in Executions : status[e] = "pending" /\ createdAge[e] > ExpireAfter}

Expire(stale) ==
  /\ stale # {}
  /\ status' = [e \in Executions |-> IF e \in stale THEN "expired" ELSE status[e]]
  /\ UNCHANGED <<adapter, link, createdAge, firedAge, sourceVars, resultAge, importVars>>

ExpireFired   == Expire(StaleFired)
ExpirePending == Expire(StalePending)

\* The process ends and starts again: the database and the tracker remain.
Crash ==
  /\ step' = [s \in Sources |-> "idle"] /\ exec' = [s \in Sources |-> None]
  /\ lock' = Free
  /\ importing' = "idle" /\ batch' = {} /\ todo' = {}
  /\ UNCHANGED <<adapter, rowVars, resultAge, cached>>

\* Both requests of an adapter call time out within seconds, long before its
\* execution could be stale.
Busy(e) == \E s \in Sources : exec[s] = e

Tick ==
  /\ \A e \in Executions : Busy(e) => createdAge[e] < ExpireAfter
  /\ createdAge' = [e \in Executions |-> Older(createdAge[e])]
  /\ firedAge' = [e \in Executions |-> Older(firedAge[e])]
  /\ resultAge' = [r \in Results |-> Older(resultAge[r])]
  /\ UNCHANGED <<adapter, status, link, sourceVars, importVars>>

Next ==
  \/ \E s \in Sources : Evaluate(s) \/ SourceStep(s)
  \/ Produce \/ ImportStep
  \/ ExpireFired \/ ExpirePending
  \/ Crash \/ Tick

Spec == Init /\ [][Next]_vars

\* Calls return, the loop looks for stale executions, time passes.
FairSpec ==
  /\ Spec
  /\ \A s \in Sources : WF_vars(SourceStep(s))
  /\ WF_vars(ExpireFired) /\ WF_vars(ExpirePending) /\ WF_vars(Tick)

---------------------------------------------------------------------------
\* In no rolling day are more runs fired than the cap.
DailyCapHolds ==
  \A e \in Fired : firedAge[e] = 0 =>
    Cardinality({f \in Fired : firedAge[f] <= Day}) <= DailyCap

\* Two recorded runs are at least the minimum interval apart.
RunsAreSpaced ==
  \A e, f \in Fired : e # f /\ firedAge[e] = 0 => firedAge[f] >= MinInterval

\* The limits that the database keeps hold for both sources together, through failed
\* posts, late ones and restarts.
LimitsOnRuns == DailyCapHolds /\ RunsAreSpaced

\* A result is linked to one execution at most, and to one whose window it is in.
LinksAreSound ==
  \A e \in Executions : link[e] # None =>
    /\ status[e] = "completed"
    /\ \A f \in Executions \ {e} : link[f] # link[e]
    /\ firedAge[e] < Horizon => firedAge[e] - resultAge[link[e]] \in 0..Window

\* Executions go forward only, and every one ends, across crashes, failed
\* updates and the race of expiry and import (module ExecutionLifecycle).
Table == INSTANCE ExecutionLifecycle
LifecycleSpec == Table!LifecycleSpec
=============================================================================
