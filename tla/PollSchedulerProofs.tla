------------------------ MODULE PollSchedulerProofs ------------------------
(***************************************************************************)
(* Theorems about PollScheduler for every number of collectors, web        *)
(* threads and configuration changes.                                      *)
(***************************************************************************)
EXTENDS PollStaleness, FiniteSetTheorems, TLAPS

\* The loop's list holds the installed modem collector and the others, and
\* what the submit loop still has to visit is part of it.
RosterInv ==
  /\ rtModem = current
  /\ collectors = {current} \cup Others
  /\ loop = "submit" => todo \subseteq collectors

\* A worker is inside collect() exactly while its future runs.
WorkerInv ==
  \A i \in Instances : /\ Collecting(i) <=> fut[i] = "running"
                       /\ stage[i] # "admitted"

\* A web thread past its first step has a modem collector in hand.
RequestInv ==
  \A r \in Requests : stage[r] # "idle" => target[r] \in Gens

\* Only a modem run publishes.
PublisherInv ==
  \A t \in Threads : stage[t] \in {"device", "analysis"} => CollectorOf(t) \in Gens

\* Whoever is inside collect() holds the collect lock of that collector.
LockInv ==
  \A t \in Threads : Collecting(t) => lock[CollectorOf(t)] = t

IInv == TypeOK /\ RosterInv /\ WorkerInv /\ RequestInv /\ PublisherInv /\ LockInv

LEMMA InitIInv == Init => IInv
<1> SUFFICES ASSUME Init PROVE IInv
  OBVIOUS
<1> USE SwapsAssumption, OthersAssumption, RequestsAssumption, NullAssumption
<1>1. 0 \in Gens /\ wanted \in Gens
  BY DEF Init, Gens
<1>2. TypeOK
  BY <1>1 DEF Init, TypeOK, Instances, Threads, Phases, Outcomes, Running, NothingShown
<1>3. RosterInv
  BY DEF Init, RosterInv
<1>4. WorkerInv
  BY DEF Init, WorkerInv, Collecting, Running, Instances, Threads
<1>5. RequestInv /\ PublisherInv /\ LockInv
  BY DEF Init, RequestInv, PublisherInv, LockInv, Collecting, Running, Threads
<1>6. QED
  BY <1>2, <1>3, <1>4, <1>5 DEF IInv

LEMMA NextIInv == IInv /\ [Next]_vars => IInv'
<1> SUFFICES ASSUME IInv, [Next]_vars PROVE IInv'
  OBVIOUS
<1> USE SwapsAssumption, OthersAssumption, RequestsAssumption, NullAssumption
  DEF IInv, TypeOK, RosterInv, WorkerInv, RequestInv, PublisherInv, LockInv, Collecting,
      CollectorOf, Running, Outcomes, Phases, Gens, Instances, Threads, InFlight,
      loopVars, runVars, webVars
<1>1. ASSUME ChangeModemConfig PROVE IInv'
  BY <1>1 DEF ChangeModemConfig
<1>2. ASSUME NEW i \in Others, ToggleCollector(i) PROVE IInv'
  BY <1>2 DEF ToggleCollector
<1>3. ASSUME SetStop PROVE IInv'
  BY <1>3 DEF SetStop
<1>4. ASSUME NEW i \in Instances, BecomeDue(i) PROVE IInv'
  BY <1>4 DEF BecomeDue
<1>5. ASSUME CooldownEnds PROVE IInv'
  BY <1>5 DEF CooldownEnds
<1>6. ASSUME BeginTick PROVE IInv'
  BY <1>6 DEF BeginTick
<1>7. ASSUME LeaveLoop PROVE IInv'
  BY <1>7 DEF LeaveLoop, ShutDown
<1>8. ASSUME NEW i \in Instances, Harvest(i) PROVE IInv'
  <2>1. TypeOK'
    <3>1. CASE Done(i)
      <4>1. fut' \in [Instances -> Outcomes \cup {"none", "queued", "running", "busy"}]
        BY <1>8, <3>1 DEF Harvest
      <4>2. due' \in [Instances -> BOOLEAN]
        <5>1. CASE fut[i] = "busy"
          BY <1>8, <3>1, <5>1 DEF Harvest
        <5>2. CASE fut[i] # "busy"
          <6>1. due' = [due EXCEPT ![i] = FALSE]
            BY <1>8, <3>1, <5>2 DEF Harvest
          <6>2. due \in [Instances -> BOOLEAN]
            OBVIOUS
          <6>3. QED
            BY <6>1, <6>2, Zenon
        <5>3. QED
          BY <5>1, <5>2
      <4>3. shown' \in [device : Gens \cup {NULL}, analysis : Gens \cup {NULL},
                        error : Gens \cup {NULL}]
        BY <1>8, <3>1 DEF Harvest
      <4>4. QED
        BY <1>8, <4>1, <4>2, <4>3 DEF Harvest
    <3>2. CASE ~Done(i)
      BY <1>8, <3>2 DEF Harvest
    <3>3. QED
      BY <3>1, <3>2
  <2>2. RosterInv'
    BY <1>8 DEF Harvest, Done
  <2>3. WorkerInv'
    BY <1>8 DEF Harvest, Done
  <2>4. RequestInv'
    BY <1>8 DEF Harvest, Done
  <2>5. PublisherInv'
    BY <1>8 DEF Harvest, Done
  <2>6. LockInv'
    BY <1>8 DEF Harvest, Done
  <2>7. QED
    BY <2>1, <2>2, <2>3, <2>4, <2>5, <2>6
<1>9. ASSUME EndHarvest PROVE IInv'
  BY <1>9 DEF EndHarvest
<1>10. ASSUME KeepDriver PROVE IInv'
  BY <1>10 DEF KeepDriver
<1>11. ASSUME InstallDriver PROVE IInv'
  <2>1. TypeOK'
    BY <1>11 DEF InstallDriver
  <2>2. RosterInv'
    <3>1. \A c \in Others : c # current
      OBVIOUS
    <3>2. collectors' = {IF c = current THEN wanted ELSE c : c \in {current} \cup Others}
      BY <1>11 DEF InstallDriver
    <3>3. collectors' = {wanted} \cup Others
      <4> HIDE DEF IInv, Instances, Threads, Gens
      <4>1. ASSUME NEW x PROVE x \in collectors' <=> x \in {wanted} \cup Others
        BY <3>1, <3>2
      <4>2. QED
        BY <4>1
    <3>4. QED
      BY <1>11, <3>3 DEF InstallDriver
  <2>3. WorkerInv'
    BY <1>11 DEF InstallDriver
  <2>4. RequestInv'
    BY <1>11 DEF InstallDriver
  <2>5. PublisherInv'
    BY <1>11 DEF InstallDriver
  <2>6. LockInv'
    BY <1>11 DEF InstallDriver
  <2>7. QED
    BY <2>1, <2>2, <2>3, <2>4, <2>5, <2>6
<1>12. ASSUME InstallFails PROVE IInv'
  BY <1>12 DEF InstallFails, ShutDown
<1>13. ASSUME ResetModemState PROVE IInv'
  BY <1>13 DEF ResetModemState, NothingShown
<1>14. ASSUME NEW i \in Instances, SubmitOrSkip(i) PROVE IInv'
  BY <1>14 DEF SubmitOrSkip, MustSkip
<1>15. ASSUME EndSubmit PROVE IInv'
  BY <1>15 DEF EndSubmit
<1>16. ASSUME Wait PROVE IInv'
  BY <1>16 DEF Wait
<1>17. ASSUME NEW i \in Instances, StartWorker(i) PROVE IInv'
  <2>1. TypeOK'
    <3>1. CASE lock[i] = NULL
      <4>1. /\ fut' = [fut EXCEPT ![i] = "running"]
            /\ lock' = [lock EXCEPT ![i] = i]
            /\ stage' = [stage EXCEPT ![i] = "login"]
        BY <1>17, <3>1 DEF StartWorker
      <4>2. QED
        BY <1>17, <4>1 DEF StartWorker
    <3>2. CASE lock[i] # NULL
      <4>1. fut' = [fut EXCEPT ![i] = "busy"] /\ UNCHANGED <<lock, stage>>
        BY <1>17, <3>2 DEF StartWorker
      <4>2. QED
        BY <1>17, <4>1 DEF StartWorker
    <3>3. QED
      BY <3>1, <3>2
  <2>2. RosterInv'
    BY <1>17 DEF StartWorker
  <2>3. WorkerInv'
    BY <1>17 DEF StartWorker
  <2>4. RequestInv'
    <3>1. target' = target /\ \A r \in Requests : r # i
      BY <1>17 DEF StartWorker
    <3>2. stage' = stage \/ stage' = [stage EXCEPT ![i] = "login"]
      BY <1>17 DEF StartWorker
    <3>3. ASSUME NEW r \in Requests PROVE stage'[r] = stage[r]
      <4>1. r # i /\ r \in Threads /\ DOMAIN stage = Threads
        BY <3>1
      <4> HIDE DEF IInv, TypeOK, Instances, Threads, Gens
      <4>2. QED
        BY <3>2, <4>1
    <3>4. QED
      BY <3>1, <3>3
  <2>5. PublisherInv'
    <3>1. target' = target /\ \A t \in Threads : CollectorOf(t)' = CollectorOf(t)
      BY <1>17 DEF StartWorker
    <3>2. stage' = stage \/ stage' = [stage EXCEPT ![i] = "login"]
      BY <1>17 DEF StartWorker
    <3>3. ASSUME NEW t \in Threads PROVE stage'[t] \in {stage[t], "login"}
      BY <3>2
    <3>4. SUFFICES ASSUME NEW t \in Threads, stage'[t] \in {"device", "analysis"}
                   PROVE  CollectorOf(t)' \in Gens
      BY DEF PublisherInv
    <3>5. QED
      BY <3>1, <3>3, <3>4
  <2>6. LockInv'
    BY <1>17 DEF StartWorker
  <2>7. QED
    BY <2>1, <2>2, <2>3, <2>4, <2>5, <2>6
<1>18. ASSUME NEW i \in Instances, NEW o \in Outcomes, FinishWorker(i, o) PROVE IInv'
  BY <1>18 DEF FinishWorker
<1>19. ASSUME NEW t \in Threads, PublishDevice(t) PROVE IInv'
  BY <1>19 DEF PublishDevice
<1>20. ASSUME NEW t \in Threads, PublishAnalysis(t) PROVE IInv'
  BY <1>20 DEF PublishAnalysis
<1>21. ASSUME NEW r \in Requests, Admit(r) PROVE IInv'
  BY <1>21 DEF Admit
<1>22. ASSUME NEW r \in Requests, Acquire(r) PROVE IInv'
  <2>1. TypeOK'
    <3>1. target[r] \in Gens
      BY <1>22 DEF Acquire
    <3>2. CASE lock[target[r]] = NULL
      <4>1. /\ lock' = [lock EXCEPT ![target[r]] = r]
            /\ stage' = [stage EXCEPT ![r] = "login"]
            /\ UNCHANGED target
        BY <1>22, <3>2 DEF Acquire
      <4>2. QED
        BY <1>22, <3>1, <4>1 DEF Acquire
    <3>3. CASE lock[target[r]] # NULL
      <4>1. /\ stage' = [stage EXCEPT ![r] = "idle"]
            /\ target' = [target EXCEPT ![r] = NULL]
            /\ UNCHANGED lock
        BY <1>22, <3>3 DEF Acquire
      <4>2. QED
        BY <1>22, <3>1, <4>1 DEF Acquire
    <3>4. QED
      BY <3>2, <3>3
  <2>2. RosterInv'
    BY <1>22 DEF Acquire
  <2>3. WorkerInv'
    BY <1>22 DEF Acquire
  <2>4. RequestInv'
    <3>1. \A q \in Requests : q # r => stage'[q] = stage[q] /\ target'[q] = target[q]
      BY <1>22 DEF Acquire
    <3>2. stage'[r] # "idle" => target'[r] = target[r] /\ stage[r] # "idle"
      BY <1>22 DEF Acquire
    <3>3. QED
      BY <3>1, <3>2
  <2>5. PublisherInv'
    BY <1>22 DEF Acquire
  <2>6. LockInv'
    BY <1>22 DEF Acquire
  <2>7. QED
    BY <2>1, <2>2, <2>3, <2>4, <2>5, <2>6
<1>23. ASSUME NEW r \in Requests, FinishRequest(r) PROVE IInv'
  <2>1. TypeOK'
    BY <1>23 DEF FinishRequest
  <2>2. RosterInv'
    BY <1>23 DEF FinishRequest
  <2>3. WorkerInv'
    BY <1>23 DEF FinishRequest
  <2>4. RequestInv'
    BY <1>23 DEF FinishRequest
  <2>5. PublisherInv'
    BY <1>23 DEF FinishRequest
  <2>6. LockInv'
    <3>1. target[r] \in Gens /\ lock[target[r]] = r
      BY <1>23 DEF FinishRequest
    <3>2. SUFFICES ASSUME NEW t \in Threads, Collecting(t)'
                   PROVE  lock'[CollectorOf(t)'] = t
      BY DEF LockInv
    <3>3. t # r /\ Collecting(t) /\ CollectorOf(t)' = CollectorOf(t)
      BY <1>23, <3>2 DEF FinishRequest
    <3>4. lock[CollectorOf(t)] = t /\ CollectorOf(t) # target[r]
      BY <3>1, <3>3
    <3>5. QED
      BY <1>23, <3>3, <3>4 DEF FinishRequest
  <2>7. QED
    BY <2>1, <2>2, <2>3, <2>4, <2>5, <2>6
<1>24. CASE UNCHANGED vars
  BY <1>24 DEF vars
<1>25. QED
  <2> HIDE DEF IInv, TypeOK, RosterInv, WorkerInv, RequestInv, PublisherInv, LockInv,
               Instances, Threads, Gens, Running, Phases, loopVars, runVars, webVars
  <2>1. QED
    BY <1>1, <1>2, <1>3, <1>4, <1>5, <1>6, <1>7, <1>8, <1>9, <1>10, <1>11, <1>12,
       <1>13, <1>14, <1>15, <1>16, <1>17, <1>18, <1>19, <1>20, <1>21, <1>22, <1>23,
       <1>24 DEF Next, LoopStep


LEMMA IInvAlways == Spec => []IInv
  BY InitIInv, NextIInv, PTL DEF Spec

\* Type correctness: the loop, the pool and the web threads keep every variable
\* in its type (app/main.py polling_loop, app/blueprints/polling_bp.py api_poll).
THEOREM Typing == Spec => []TypeOK
<1>1. IInv => TypeOK
  BY DEF IInv
<1>2. QED
  BY IInvAlways, <1>1, PTL

\* No two threads are ever inside collect() of the same collector instance
\* (Collector._collect_lock in app/collectors/base.py).
LEMMA MutualExclusion == Spec => []CollectExclusive
<1>1. IInv => CollectExclusive
  BY DEF IInv, LockInv, CollectExclusive
<1>2. QED
  BY IInvAlways, <1>1, PTL

---------------------------------------------------------------------------
\* The set of in-flight runs only grows in the submit loop, by one collector
\* whose name is not in it.
LEMMA InFlightStep ==
  ASSUME IInv, [Next]_vars
  PROVE  \/ InFlight' \subseteq InFlight
         \/ \E i \in Instances : /\ SubmitOrSkip(i) /\ ~MustSkip(i)
                                 /\ InFlight' \subseteq InFlight \cup {i}
<1> USE DEF IInv, TypeOK, InFlight, WorkerInv, loopVars, runVars, webVars
<1>1. ASSUME NEW i \in Instances, SubmitOrSkip(i)
      PROVE  \/ InFlight' \subseteq InFlight
             \/ ~MustSkip(i) /\ InFlight' \subseteq InFlight \cup {i}
  BY <1>1 DEF SubmitOrSkip
<1>2. ASSUME NEW i \in Instances, Harvest(i) PROVE InFlight' \subseteq InFlight
  <2>1. fut' = fut \/ fut' = [fut EXCEPT ![i] = "none"]
    BY <1>2 DEF Harvest
  <2>2. QED
    BY <2>1
<1>3. ASSUME NEW i \in Instances, StartWorker(i) PROVE InFlight' \subseteq InFlight
  BY <1>3 DEF StartWorker
<1>4. ASSUME NEW i \in Instances, NEW o \in Outcomes, FinishWorker(i, o)
      PROVE InFlight' \subseteq InFlight
  BY <1>4 DEF FinishWorker, Collecting
<1>5. ASSUME LeaveLoop \/ InstallFails PROVE InFlight' \subseteq InFlight
  BY <1>5 DEF LeaveLoop, InstallFails, ShutDown
<1>6. ASSUME \/ ChangeModemConfig \/ SetStop \/ CooldownEnds \/ BeginTick
             \/ EndHarvest \/ KeepDriver \/ InstallDriver \/ ResetModemState
             \/ EndSubmit \/ Wait
             \/ \E i \in Others : ToggleCollector(i)
             \/ \E i \in Instances : BecomeDue(i)
             \/ \E t \in Threads : PublishDevice(t) \/ PublishAnalysis(t)
             \/ \E r \in Requests : Admit(r) \/ Acquire(r) \/ FinishRequest(r)
             \/ UNCHANGED vars
      PROVE InFlight' \subseteq InFlight
  <2>1. fut' = fut
    BY <1>6 DEF ChangeModemConfig, SetStop, CooldownEnds, BeginTick, EndHarvest,
         KeepDriver, InstallDriver, ResetModemState, EndSubmit, Wait, ToggleCollector,
         BecomeDue, PublishDevice, PublishAnalysis, Admit, Acquire, FinishRequest, vars
  <2>2. QED
    BY <2>1
<1>7. QED
  BY <1>1, <1>2, <1>3, <1>4, <1>5, <1>6 DEF Next, LoopStep

\* The submit loop's test by name, not by instance, is what keeps the run of a
\* replaced driver and the run of its successor apart (app/main.py, the any()
\* over in_flight).
LEMMA OneRun == Spec => []OneRunPerName
<1>1. Init => OneRunPerName
  BY DEF Init, OneRunPerName, InFlight
<1>2. IInv /\ OneRunPerName /\ [Next]_vars => OneRunPerName'
  <2> SUFFICES ASSUME IInv, OneRunPerName, [Next]_vars,
                      NEW i \in InFlight', NEW j \in InFlight', NameOf(i) = NameOf(j)
               PROVE  i = j
    BY DEF OneRunPerName, NameOf
  <2>1. CASE InFlight' \subseteq InFlight
    BY <2>1 DEF OneRunPerName
  <2>2. CASE \E k \in Instances : /\ SubmitOrSkip(k) /\ ~MustSkip(k)
                                 /\ InFlight' \subseteq InFlight \cup {k}
    BY <2>2 DEF MustSkip, OneRunPerName
  <2>3. QED
    BY <2>1, <2>2, InFlightStep
<1>3. QED
  BY IInvAlways, <1>1, <1>2, PTL DEF Spec

---------------------------------------------------------------------------
\* One worker per name is enough: the runs in flight have distinct names, so
\* whenever one of them still waits, the others leave a worker free.
LEMMA FreeWorker ==
  ASSUME TypeOK, OneRunPerName, NEW i \in Instances, fut[i] = "queued"
  PROVE  Cardinality(Busy) < PoolSize
<1> DEFINE Names == {"modem"} \cup Others
           Rest  == Names \ {NameOf(i)}
           f     == [b \in Busy |-> NameOf(b)]
<1>1. IsFiniteSet(Others) /\ "modem" \notin Others
  BY OthersAssumption
<1>2. IsFiniteSet(Names) /\ Cardinality(Names) = Cardinality(Others) + 1
  <2>1. Names = Others \cup {"modem"}
    OBVIOUS
  <2>2. QED
    BY <1>1, <2>1, FS_AddElement
<1>3. NameOf(i) \in Names
  BY DEF NameOf, Instances
<1>4. IsFiniteSet(Rest) /\ Cardinality(Rest) = Cardinality(Names) - 1
  BY <1>2, <1>3, FS_RemoveElement
<1>5. f \in Injection(Busy, Rest)
  <2>1. ASSUME NEW b \in Busy PROVE NameOf(b) \in Rest
    BY DEF Busy, InFlight, OneRunPerName, NameOf, Instances
  <2>2. ASSUME NEW a \in Busy, NEW b \in Busy, NameOf(a) = NameOf(b) PROVE a = b
    BY <2>2 DEF Busy, InFlight, OneRunPerName
  <2>3. QED
    BY <2>1, <2>2 DEF Injection, IsInjective
<1>6. Cardinality(Busy) <= Cardinality(Rest) /\ IsFiniteSet(Busy)
  BY <1>4, <1>5, FS_Injection
<1>7. QED
  BY <1>1, <1>2, <1>4, <1>6, FS_CardinalityType DEF PoolSize

\* A run handed to the pool never waits for a worker, however long the other
\* collectors block and however often the driver is replaced (main.py:
\* ThreadPoolExecutor(max_workers=len(collectors))).
THEOREM WorkerIsFree == Spec => []PoolNeverSaturated
<1>1. TypeOK /\ OneRunPerName => PoolNeverSaturated
  BY FreeWorker DEF PoolNeverSaturated
<1>2. QED
  BY Typing, OneRun, <1>1, PTL

---------------------------------------------------------------------------
\* No two threads are inside collect() of one collector, and no two runs of one
\* name are in flight (Collector._collect_lock, main.py in_flight).
THEOREM Exclusion == Spec => []RunsAreExclusive
<1>1. CollectExclusive /\ OneRunPerName => RunsAreExclusive
  BY DEF RunsAreExclusive
<1>2. QED
  BY MutualExclusion, OneRun, <1>1, PTL

---------------------------------------------------------------------------
\* When the loop has ended nothing waits for a worker: ShutDown has dropped
\* what was queued, and only the submit loop queues.
QueueInv == loop = "stopped" => \A i \in Instances : fut[i] # "queued"

LEMMA NextQueueInv == IInv /\ QueueInv /\ [Next]_vars => QueueInv'
<1> SUFFICES ASSUME IInv, QueueInv, [Next]_vars PROVE QueueInv'
  OBVIOUS
<1> USE DEF QueueInv, loopVars, runVars, webVars
<1>1. CASE ShutDown
  BY <1>1 DEF ShutDown
<1>2. CASE loop' = loop /\ fut' = fut
  BY <1>2
<1>3. CASE LoopStep /\ ~ShutDown
  <2>1. ASSUME NEW i \in Instances, SubmitOrSkip(i) PROVE QueueInv'
    BY <2>1 DEF SubmitOrSkip
  <2>2. ASSUME NEW i \in Instances, Harvest(i) PROVE QueueInv'
    BY <2>2 DEF Harvest
  <2>3. loop' # "stopped" \/ \E i \in Instances : Harvest(i) \/ SubmitOrSkip(i)
    BY <1>3 DEF LoopStep, BeginTick, LeaveLoop, EndHarvest, KeepDriver, InstallDriver,
                InstallFails, ResetModemState, EndSubmit, Wait
  <2>4. QED
    BY <2>1, <2>2, <2>3
<1>4. ASSUME NEW i \in Instances, StartWorker(i) PROVE QueueInv'
  BY <1>4 DEF StartWorker, IInv, TypeOK
<1>5. ASSUME NEW i \in Instances, NEW o \in Outcomes, FinishWorker(i, o) PROVE QueueInv'
  BY <1>5 DEF FinishWorker, Outcomes, IInv, TypeOK
<1>6. QED
  BY <1>1, <1>2, <1>3, <1>4, <1>5
     DEF Next, vars, ChangeModemConfig, ToggleCollector, SetStop, BecomeDue, CooldownEnds,
         PublishDevice, PublishAnalysis, Admit, Acquire, FinishRequest

\* Only a worker turns a queued run into a running one.
LEMMA RunningStep ==
  ASSUME IInv, [Next]_vars, NEW i \in Instances, fut[i] # "running", fut'[i] = "running"
  PROVE  fut[i] = "queued"
<1> USE DEF IInv, TypeOK, loopVars, runVars, webVars
<1>1. CASE fut' = fut
  BY <1>1
<1>2. CASE ShutDown
  BY <1>2 DEF ShutDown
<1>3. ASSUME NEW j \in Instances, SubmitOrSkip(j) \/ Harvest(j) PROVE fut[i] = "queued"
  BY <1>3 DEF SubmitOrSkip, Harvest
<1>4. ASSUME NEW j \in Instances, StartWorker(j) PROVE fut[i] = "queued"
  BY <1>4 DEF StartWorker
<1>5. ASSUME NEW j \in Instances, NEW o \in Outcomes, FinishWorker(j, o)
      PROVE  fut[i] = "queued"
  BY <1>5 DEF FinishWorker, Outcomes
<1>6. QED
  BY <1>1, <1>2, <1>3, <1>4, <1>5
     DEF Next, vars, LoopStep, ChangeModemConfig, ToggleCollector, SetStop, BecomeDue,
         CooldownEnds, BeginTick, LeaveLoop, EndHarvest, KeepDriver, InstallDriver,
         InstallFails, ResetModemState, EndSubmit, Wait, PublishDevice, PublishAnalysis,
         Admit, Acquire, FinishRequest

\* The loop submits only the installed driver (main.py: the list, the local and
\* the runtime's collector are replaced together), and after it has ended no
\* worker enters a collect() on its behalf (shutdown with cancel_futures).
THEOREM OnlyWantedStarts == Spec => StartsAreWanted
<1> DEFINE Installed == \A g \in Gens : fut[g] = "none" /\ fut'[g] = "queued" => g = rtModem
           Silent == \A i \in Instances :
                       loop = "stopped" /\ fut[i] # "running" => fut'[i] # "running"
<1>1. IInv /\ [Next]_vars => Installed
  <2> SUFFICES ASSUME IInv, [Next]_vars, NEW g \in Gens,
                      fut[g] = "none", fut'[g] = "queued"
               PROVE  g = rtModem
    OBVIOUS
  <2>1. g \in InFlight' /\ g \notin InFlight
    BY DEF InFlight, Instances
  <2>2. PICK i \in Instances : SubmitOrSkip(i) /\ InFlight' \subseteq InFlight \cup {i}
    BY <2>1, InFlightStep
  <2>3. g = i /\ i \in collectors
    BY <2>1, <2>2 DEF SubmitOrSkip, IInv, RosterInv
  <2>4. QED
    BY <2>3, OthersAssumption DEF IInv, RosterInv
<1>2. IInv /\ QueueInv /\ [Next]_vars => Silent
  BY RunningStep DEF QueueInv
<1>3. Init => QueueInv
  BY DEF Init, QueueInv
<1>4. IInv /\ QueueInv /\ [Next]_vars => [Installed /\ Silent]_vars
  BY <1>1, <1>2
<1>5. Spec => []QueueInv
  BY IInvAlways, NextQueueInv, <1>3, PTL DEF Spec
<1>6. QED
  BY IInvAlways, <1>4, <1>5, PTL DEF Spec, StartsAreWanted

---------------------------------------------------------------------------
(* What the dashboard may show after a hot-swap (module PollStaleness).    *)

\* Between two resets, the only collectors with a run pending are the
\* installed one and those that had one pending at the last reset.
PendingInv ==
  loop # "reset" => \A g \in Gens : Pending(g) => g \in {rtModem} \cup survivors

\* A collector gets a run pending only when it is the installed one.
LEMMA PendingStep ==
  ASSUME IInv, [Next]_vars, NEW g \in Gens, Pending(g)'
  PROVE  Pending(g) \/ g = rtModem
<1>1. CASE fut'[g] # "none" /\ fut[g] = "none"
  <2>1. g \in InFlight' /\ g \notin InFlight
    BY <1>1 DEF InFlight, Instances
  <2>2. PICK i \in Instances : SubmitOrSkip(i) /\ InFlight' \subseteq InFlight \cup {i}
    BY <2>1, InFlightStep
  <2>3. g = i /\ i \in collectors
    BY <2>1, <2>2 DEF SubmitOrSkip, IInv, RosterInv
  <2>4. QED
    BY <2>3, OthersAssumption DEF IInv, RosterInv
<1>2. ASSUME NEW r \in Requests, target'[r] = g, target[r] # g PROVE g = rtModem
  <2>1. target' # target
    BY <1>2
  <2>2. PICK q \in Requests : Admit(q) \/ Acquire(q) \/ FinishRequest(q)
    BY <2>1 DEF Next, LoopStep, vars, webVars, ChangeModemConfig, ToggleCollector, SetStop,
         BecomeDue, CooldownEnds, BeginTick, LeaveLoop, Harvest, EndHarvest,
         KeepDriver, InstallDriver, InstallFails, ResetModemState, SubmitOrSkip,
         EndSubmit, Wait, StartWorker, FinishWorker, PublishDevice, PublishAnalysis
  <2>3. target' = [target EXCEPT ![q] = rtModem] \/ target' = [target EXCEPT ![q] = NULL]
        \/ target' = target
    BY <2>2 DEF Admit, Acquire, FinishRequest
  <2>4. g # NULL
    BY NullAssumption DEF Threads, Instances
  <2>5. QED
    BY <1>2, <2>3, <2>4 DEF IInv, TypeOK
<1>3. QED
  BY <1>1, <1>2 DEF Pending

\* What a step newly shows belongs to a collector with a run pending.
LEMMA ShownStep ==
  ASSUME IInv, [Next]_vars
  PROVE  /\ DOMAIN shown' = DOMAIN shown
         /\ \A f \in DOMAIN shown : \/ shown'[f] \in {shown[f], NULL}
                                    \/ shown'[f] \in Gens /\ Pending(shown'[f])
<1> USE DEF IInv, TypeOK
<1>1. ASSUME NEW t \in Threads, CollectorOf(t) \in Gens, Collecting(t)
      PROVE  Pending(CollectorOf(t))
  BY <1>1 DEF Pending, CollectorOf, Collecting, WorkerInv, Threads
<1>2. ASSUME NEW t \in Threads, PublishDevice(t)
      PROVE  /\ shown' = [shown EXCEPT !.device = CollectorOf(t)]
             /\ CollectorOf(t) \in Gens /\ Pending(CollectorOf(t))
  BY <1>1, <1>2 DEF PublishDevice, Collecting, Running
<1>3. ASSUME NEW t \in Threads, PublishAnalysis(t)
      PROVE  /\ shown' = [shown EXCEPT !.analysis = CollectorOf(t), !.error = NULL]
             /\ CollectorOf(t) \in Gens /\ Pending(CollectorOf(t))
  BY <1>1, <1>3 DEF PublishAnalysis, Collecting, Running, PublisherInv
<1>4. ASSUME NEW i \in Instances, Harvest(i)
      PROVE  \/ shown' = shown
             \/ shown' = [shown EXCEPT !.error = i] /\ i \in Gens /\ Pending(i)
  BY <1>4 DEF Harvest, Pending
<1>5. ASSUME ResetModemState PROVE shown' = NothingShown
  BY <1>5 DEF ResetModemState
<1>6. CASE shown' = shown
  BY <1>6
<1>7. CASE shown' # shown
  <2>1. \/ ResetModemState
        \/ \E i \in Instances : Harvest(i)
        \/ \E t \in Threads : PublishDevice(t) \/ PublishAnalysis(t)
    BY <1>7 DEF Next, LoopStep, vars, ChangeModemConfig, ToggleCollector, SetStop, BecomeDue,
         CooldownEnds, BeginTick, LeaveLoop, EndHarvest, KeepDriver, InstallDriver,
         InstallFails, SubmitOrSkip, EndSubmit, Wait, StartWorker, FinishWorker,
         Admit, Acquire, FinishRequest
  <2>2. CASE ResetModemState
    BY <1>5, <2>2 DEF NothingShown
  <2>3. CASE \E i \in Instances : Harvest(i)
    BY <1>4, <1>7, <2>3
  <2>4. CASE \E t \in Threads : PublishDevice(t)
    BY <1>2, <2>4
  <2>5. CASE \E t \in Threads : PublishAnalysis(t)
    BY <1>3, <2>5
  <2>6. QED
    BY <2>1, <2>2, <2>3, <2>4, <2>5
<1>8. QED
  BY <1>6, <1>7

\* The loop leaves "reset" only by clearing the shown state, and the installed
\* collector changes only on the way into "reset".
LEMMA ResetStep ==
  ASSUME IInv, [Next]_vars, loop' # "reset"
  PROVE  /\ rtModem' = rtModem
         /\ \/ ResetModemState
            \/ loop # "reset" /\ ~(loop = "reset" /\ loop' = "submit")
  BY DEF Next, LoopStep, vars, loopVars, ChangeModemConfig, ToggleCollector, SetStop,
         BecomeDue, CooldownEnds, BeginTick, LeaveLoop, Harvest, EndHarvest, KeepDriver,
         InstallDriver, InstallFails, ResetModemState, SubmitOrSkip, EndSubmit, Wait,
         StartWorker, FinishWorker, PublishDevice, PublishAnalysis, Admit, Acquire,
         FinishRequest, ShutDown

\* After a hot-swap the dashboard shows the installed driver, or one whose run
\* was already under way when the modem state was reset (runtime.py reset_modem,
\* main.py hot-swap), and no other.
THEOREM Staleness == HSpec => []StaleOnlyFromSurvivors
<1> DEFINE SInv == IInv /\ PendingInv /\ StaleOnlyFromSurvivors
<1>1. HInit => SInv
  <2> SUFFICES ASSUME HInit PROVE SInv
    OBVIOUS
  <2>1. IInv
    BY InitIInv DEF HInit
  <2>2. StaleOnlyFromSurvivors
    BY DEF HInit, Init, StaleOnlyFromSurvivors, NothingShown
  <2>3. PendingInv
    BY NullAssumption DEF HInit, Init, PendingInv, Pending, Instances, Threads
  <2>4. QED
    BY <2>1, <2>2, <2>3
<1>2. SInv /\ [HNext]_<<vars, survivors>> => SInv'
  <2> SUFFICES ASSUME SInv, [HNext]_<<vars, survivors>> PROVE SInv'
    OBVIOUS
  <2>1. IInv /\ [Next]_vars
    BY DEF HNext
  <2>2. IInv'
    BY <2>1, NextIInv
  <2>3. CASE loop' = "reset"
    BY <2>2, <2>3 DEF PendingInv, StaleOnlyFromSurvivors
  <2>4. CASE loop' # "reset" /\ ResetModemState
    <3>1. survivors' = {g \in Gens \ {rtModem} : Pending(g)}
      BY <2>4 DEF HNext, SurvivorsNext, ResetModemState, vars, loopVars
    <3>2. shown' = NothingShown /\ fut' = fut /\ target' = target /\ rtModem' = rtModem
      BY <2>4 DEF ResetModemState, runVars, webVars
    <3>3. PendingInv'
      BY <3>1, <3>2 DEF PendingInv, Pending
    <3>4. StaleOnlyFromSurvivors'
      BY <3>2 DEF StaleOnlyFromSurvivors, NothingShown
    <3>5. QED
      BY <2>2, <3>3, <3>4
  <2>5. CASE loop' # "reset" /\ ~ResetModemState
    <3>1. loop # "reset" /\ rtModem' = rtModem /\ survivors' = survivors
      BY <2>1, <2>5, ResetStep DEF HNext, SurvivorsNext
    <3>2. PendingInv'
      BY <2>1, <3>1, PendingStep DEF PendingInv
    <3>3. StaleOnlyFromSurvivors'
      BY <2>1, <3>1, ShownStep DEF PendingInv, StaleOnlyFromSurvivors
    <3>4. QED
      BY <2>2, <3>2, <3>3
  <2>6. QED
    BY <2>3, <2>4, <2>5
<1>3. QED
  BY <1>1, <1>2, PTL DEF HSpec
=============================================================================
