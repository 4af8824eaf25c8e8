--------------------------- MODULE TracerouteTrigger ---------------------------
(***************************************************************************)
(* Traceroutes after connection events                                     *)
(* (app/modules/connection_monitor/traceroute_trigger.py): the collector   *)
(* hands over events, an executor with one thread runs the traces.  A      *)
(* settings save builds another collector with an executor of its own,     *)
(* while the traces queued in the old one still run.                       *)
(***************************************************************************)
EXTENDS Naturals, Sequences

CONSTANTS
  TraceTargets,
  LastTrigger,  \* bound: collectors that follow one another
  NoTrace,
  MaxJobs       \* bound: traces queued in one executor

ASSUME TraceAssumption ==
  NoTrace \notin TraceTargets /\ {MaxJobs, LastTrigger} \subseteq Nat \ {0}

Triggers == 1..LastTrigger

VARIABLES
  active,       \* the collector that runs
  known,        \* the rows of connection_targets
  jobs,         \* of each executor; history: whether another trace of the target
                \* began while this one waited
  tracing,      \* the target each executor's thread traces
  cooled        \* COOLDOWN_S have passed since _last_trace

traceVars == <<active, known, jobs, tracing, cooled>>

TraceTypeOK ==
  /\ active \in Triggers /\ known \subseteq TraceTargets
  /\ jobs \in [Triggers -> Seq([target : TraceTargets, overtaken : BOOLEAN])]
  /\ tracing \in [Triggers -> TraceTargets \cup {NoTrace}]
  /\ cooled \in [Triggers -> [TraceTargets -> BOOLEAN]]

TraceInit ==
  /\ active = 1 /\ known = TraceTargets
  /\ jobs = [c \in Triggers |-> <<>>] /\ tracing = [c \in Triggers |-> NoTrace]
  /\ cooled = [c \in Triggers |-> [t \in TraceTargets |-> TRUE]]

\* Mutant of CooldownOk: asks whether a trace runs.
NotTracing(t) == tracing[active] # t

\* Read here; set by the executor's thread.
CooldownOk(t) == cooled[active][t]

\* An outage or a loss event; others start no trace.
OnEvent(t) ==
  /\ CooldownOk(t) /\ t \in known /\ Len(jobs[active]) < MaxJobs
  /\ jobs' = [jobs EXCEPT ![active] = Append(@, [target |-> t, overtaken |-> FALSE])]
  /\ UNCHANGED <<active, known, tracing, cooled>>

Overtake(rest, t) == [i \in DOMAIN rest |-> [rest[i] EXCEPT !.overtaken = @ \/ rest[i].target = t]]

\* _run_and_save begins.
BeginTrace(c) ==
  LET t == Head(jobs[c]).target IN
  /\ tracing[c] = NoTrace /\ jobs[c] # <<>>
  /\ tracing' = [tracing EXCEPT ![c] = t]
  /\ jobs' = [jobs EXCEPT ![c] = Overtake(Tail(@), t)]
  /\ cooled' = [cooled EXCEPT ![c][t] = FALSE]
  /\ UNCHANGED <<active, known>>

\* The trace is saved, is empty, or its target is gone: nothing here depends on it.
EndTrace(c) ==
  /\ tracing[c] # NoTrace
  /\ tracing' = [tracing EXCEPT ![c] = NoTrace]
  /\ UNCHANGED <<active, known, jobs, cooled>>

Cool(c, t) ==
  /\ ~cooled[c][t] /\ cooled' = [cooled EXCEPT ![c][t] = TRUE]
  /\ UNCHANGED <<active, known, jobs, tracing>>

DeleteTarget(t) ==
  /\ t \in known /\ known' = known \ {t}
  /\ UNCHANGED <<active, jobs, tracing, cooled>>

\* shutdown(wait=False) of the old executor lets its queue run dry.
Replace ==
  /\ active + 1 \in Triggers /\ active' = active + 1
  /\ UNCHANGED <<known, jobs, tracing, cooled>>

TraceNext ==
  \/ \E t \in TraceTargets : OnEvent(t) \/ DeleteTarget(t)
  \/ \E c \in Triggers : BeginTrace(c) \/ EndTrace(c) \/ \E t \in TraceTargets : Cool(c, t)
  \/ Replace

TraceSpec == TraceInit /\ [][TraceNext]_traceVars

\* The cooldown is checked before the queue and set behind it.  A trace that begins all
\* the same within the cooldown of its target was waiting already when that cooldown
\* began: what an executor can exceed the limit by is what it had queued at one time.
CooldownBoundsTraces ==
  [][\A c \in Triggers :
       (tracing[c] = NoTrace /\ tracing'[c] # NoTrace /\ ~cooled[c][tracing'[c]]) => Head(jobs[c]).overtaken]_traceVars
=============================================================================
