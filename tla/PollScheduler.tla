--------------------------- MODULE PollScheduler ---------------------------
(***************************************************************************)
(* One run of polling_loop (app/main.py) with everything that runs beside  *)
(* it: the worker threads of its ThreadPoolExecutor, the web threads that  *)
(* serve POST /api/poll on the same modem collector, a modem configuration *)
(* that changes under the loop (driver hot-swap), and the stop event.      *)
(*                                                                         *)
(* A collector instance is an element of Instances: the k-th element of    *)
(* Gens is the ModemCollector built for the k-th modem configuration, and  *)
(* the members of Others are the collectors a hot-swap keeps.  Time is     *)
(* reduced to what should_poll answers (due) and to whether the manual     *)
(* cooldown is running (cooling); module CollectorBackoff models the clock *)
(* behind due.                                                             *)
(***************************************************************************)
EXTENDS Naturals, FiniteSets

CONSTANTS
  Others,    \* collectors other than the modem's: weather, speedtest, ...
  MaxSwaps,  \* bound: how many times the modem configuration may change
  Requests,  \* web threads that may be serving /api/poll at one time
  NULL       \* no value: None in the code

Gens      == 0..MaxSwaps
Instances == Gens \cup Others
Threads   == Instances \cup Requests   \* instance i also names i's worker

ASSUME SwapsAssumption  == MaxSwaps \in Nat
ASSUME OthersAssumption == /\ IsFiniteSet(Others)
                           /\ Others \cap Gens = {}
                           /\ "modem" \notin Others
ASSUME RequestsAssumption == Requests \cap Instances = {}
ASSUME NullAssumption == NULL \notin Threads

VARIABLES
  wanted,      \* generation of the modem settings in ConfigManager
  current,     \* generation of modem_config_key / modem_collector in the loop
  collectors,  \* the loop's list of collectors
  rtModem,     \* runtime.modem_collector, what /api/poll uses
  disabled,    \* collectors whose is_enabled() is False
  stop,        \* stop_event.is_set()
  loop,        \* where the loop is
  todo,        \* what the loop's current "for" has still to visit
  due,         \* due[i]: i.should_poll()
  fut,         \* fut[i]: i's entry in in_flight and the state of its future
  lock,        \* lock[i]: the thread that holds i._collect_lock
  stage,       \* stage[t]: how far thread t is in a collect()
  target,      \* target[r]: the collector web thread r has read
  cooling,     \* now - last_manual_poll < 10
  shown        \* the RuntimeState fields a modem collect writes

loopVars  == <<wanted, current, collectors, rtModem, disabled, stop, loop, todo>>
runVars   == <<due, fut, lock, stage>>
webVars   == <<target, cooling>>
vars      == <<loopVars, runVars, webVars, shown>>

Phases   == {"top", "harvest1", "swap", "reset", "submit", "harvest2", "wait",
             "stopped"}
Outcomes == {"ok", "failed", "html"}
Running  == {"login", "device", "analysis"}
NothingShown == [device |-> NULL, analysis |-> NULL, error |-> NULL]

NameOf(i) == IF i \in Gens THEN "modem" ELSE i

\* Mutant of PoolSize: one worker short.
PoolSizeOneShort == Cardinality(Others)

\* ThreadPoolExecutor(max_workers=len(collectors))
PoolSize == Cardinality(Others) + 1

InFlight == {i \in Instances : fut[i] # "none"}
Busy     == {i \in Instances : fut[i] = "running"}
Done(i)  == fut[i] \in Outcomes \cup {"busy"}

CollectorOf(t) == IF t \in Requests THEN target[t] ELSE t

---------------------------------------------------------------------------
TypeOK ==
  /\ wanted \in Gens
  /\ current \in Gens
  /\ collectors \subseteq Instances
  /\ rtModem \in Gens
  /\ disabled \subseteq Others
  /\ stop \in BOOLEAN
  /\ loop \in Phases
  /\ todo \subseteq Instances
  /\ due \in [Instances -> BOOLEAN]
  /\ fut \in [Instances -> Outcomes \cup {"none", "queued", "running", "busy"}]
  /\ lock \in [Instances -> Threads \cup {NULL}]
  /\ stage \in [Threads -> Running \cup {"idle", "admitted"}]
  /\ target \in [Requests -> Gens \cup {NULL}]
  /\ cooling \in BOOLEAN
  /\ shown \in [device : Gens \cup {NULL}, analysis : Gens \cup {NULL},
                error : Gens \cup {NULL}]

\* The state when the loop reaches its "while": discover_collectors has built
\* the list, last_poll is 0 so everything is due, in_flight is empty.
Init ==
  /\ wanted = 0
  /\ current = 0
  /\ collectors = {0} \cup Others
  /\ rtModem = 0
  /\ disabled \in SUBSET Others
  /\ stop = FALSE
  /\ loop = "top"
  /\ todo = {}
  /\ due = [i \in Instances |-> TRUE]
  /\ fut = [i \in Instances |-> "none"]
  /\ lock = [i \in Instances |-> NULL]
  /\ stage = [t \in Threads |-> "idle"]
  /\ target = [r \in Requests |-> NULL]
  /\ cooling = FALSE
  /\ shown = NothingShown

---------------------------------------------------------------------------
(* The environment: settings, the stop event, time.                        *)

\* A settings save changes the modem's url, user, password or type.
ChangeModemConfig ==
  /\ wanted < MaxSwaps
  /\ wanted' = wanted + 1
  /\ UNCHANGED <<current, collectors, rtModem, disabled, stop, loop, todo,
                 runVars, webVars, shown>>

\* A settings save turns another collector on or off.
ToggleCollector(i) ==
  /\ disabled' = IF i \in disabled THEN disabled \ {i} ELSE disabled \cup {i}
  /\ UNCHANGED <<wanted, current, collectors, rtModem, stop, loop, todo,
                 runVars, webVars, shown>>

\* stop_polling sets the event.
SetStop ==
  /\ ~stop
  /\ stop' = TRUE
  /\ UNCHANGED <<wanted, current, collectors, rtModem, disabled, loop, todo,
                 runVars, webVars, shown>>

\* The effective interval of i elapses: should_poll() turns True.
BecomeDue(i) ==
  /\ ~due[i]
  /\ due' = [due EXCEPT ![i] = TRUE]
  /\ UNCHANGED <<loopVars, fut, lock, stage, webVars, shown>>

\* Ten seconds have passed since the last successful manual poll.
CooldownEnds ==
  /\ cooling
  /\ cooling' = FALSE
  /\ UNCHANGED <<loopVars, runVars, target, shown>>

---------------------------------------------------------------------------
(* The loop thread.                                                        *)

\* Mutant of ShutDown: the pending runs are not cancelled.
ShutDownKeepsQueue ==
  /\ loop' = "stopped"
  /\ todo' = {}
  /\ UNCHANGED fut

\* The executor drops what no worker has started (cancel_futures) and does
\* not wait for the rest.
ShutDown ==
  /\ loop' = "stopped"
  /\ todo' = {}
  /\ fut' = [i \in Instances |-> IF fut[i] = "queued" THEN "none" ELSE fut[i]]

\* while not stop_event.is_set(): _process_in_flight()
BeginTick ==
  /\ loop = "top" /\ ~stop
  /\ loop' = "harvest1"
  /\ todo' = InFlight
  /\ UNCHANGED <<wanted, current, collectors, rtModem, disabled, stop,
                 runVars, webVars, shown>>

LeaveLoop ==
  /\ loop = "top" /\ stop
  /\ ShutDown
  /\ UNCHANGED <<wanted, current, collectors, rtModem, disabled, stop, due,
                 lock, stage, webVars, shown>>

\* Mutant of Harvest: a run that found the lock busy stays in in_flight.
HarvestKeepsBusy(i) ==
  /\ loop \in {"harvest1", "harvest2"}
  /\ i \in todo
  /\ todo' = todo \ {i}
  /\ IF fut[i] \in Outcomes
     THEN /\ fut' = [fut EXCEPT ![i] = "none"]
          /\ due' = [due EXCEPT ![i] = FALSE]
          /\ shown' = IF fut[i] = "failed" /\ i \in Gens
                      THEN [shown EXCEPT !.error = i] ELSE shown
     ELSE UNCHANGED <<fut, due, shown>>
  /\ UNCHANGED <<wanted, current, collectors, rtModem, disabled, stop, loop,
                 lock, stage, webVars>>

\* One future of _process_in_flight.  A future that is not done stays; a run
\* that found the lock busy is dropped and leaves the schedule alone; every
\* other outcome is recorded on the collector (record_success, record_failure
\* and record_skip all set last_poll), and an exception of the modem's run is
\* shown as the error.
Harvest(i) ==
  /\ loop \in {"harvest1", "harvest2"}
  /\ i \in todo
  /\ todo' = todo \ {i}
  /\ IF Done(i)
     THEN /\ fut' = [fut EXCEPT ![i] = "none"]
          /\ due' = IF fut[i] = "busy" THEN due ELSE [due EXCEPT ![i] = FALSE]
          /\ shown' = IF fut[i] = "failed" /\ i \in Gens
                      THEN [shown EXCEPT !.error = i] ELSE shown
     ELSE UNCHANGED <<fut, due, shown>>
  /\ UNCHANGED <<wanted, current, collectors, rtModem, disabled, stop, loop,
                 lock, stage, webVars>>

EndHarvest ==
  /\ loop \in {"harvest1", "harvest2"}
  /\ todo = {}
  /\ loop' = IF loop = "harvest1" THEN "swap" ELSE "wait"
  /\ UNCHANGED <<wanted, current, collectors, rtModem, disabled, stop, todo,
                 runVars, webVars, shown>>

\* The modem settings are those the loop's collector was built from.
KeepDriver ==
  /\ loop = "swap"
  /\ wanted = current
  /\ loop' = "submit"
  /\ todo' = collectors
  /\ UNCHANGED <<wanted, current, collectors, rtModem, disabled, stop,
                 runVars, webVars, shown>>

\* Mutants of InstallDriver: the loop's list keeps the old collector; the
\* runtime does; the configuration key is not updated.
InstallNotInList ==
  /\ loop = "swap" /\ wanted # current
  /\ rtModem' = wanted /\ current' = wanted
  /\ loop' = "reset"
  /\ UNCHANGED <<wanted, collectors, disabled, stop, todo, runVars, webVars, shown>>

InstallNotInRuntime ==
  /\ loop = "swap" /\ wanted # current
  /\ collectors' = {IF c = current THEN wanted ELSE c : c \in collectors}
  /\ current' = wanted
  /\ loop' = "reset"
  /\ UNCHANGED <<wanted, rtModem, disabled, stop, todo, runVars, webVars, shown>>

InstallForgetsKey ==
  /\ loop = "swap" /\ wanted # current
  /\ collectors' = {IF c = current THEN wanted ELSE c : c \in collectors}
  /\ rtModem' = wanted
  /\ loop' = "reset"
  /\ UNCHANGED <<wanted, current, disabled, stop, todo, runVars, webVars, shown>>

\* The settings changed: a new ModemCollector takes the old one's place in
\* the loop's list and in the runtime, in the order of the code.
InstallDriver ==
  /\ loop = "swap"
  /\ wanted # current
  /\ collectors' = {IF c = current THEN wanted ELSE c : c \in collectors}
  /\ rtModem' = wanted
  /\ current' = wanted
  /\ loop' = "reset"
  /\ UNCHANGED <<wanted, disabled, stop, todo, runVars, webVars, shown>>

\* driver_registry.load_driver raises: the exception leaves polling_loop
\* through its finally clause and the polling thread ends.
InstallFails ==
  /\ loop = "swap"
  /\ wanted # current
  /\ ShutDown
  /\ UNCHANGED <<wanted, current, collectors, rtModem, disabled, stop, due,
                 lock, stage, webVars, shown>>

\* Mutant of ResetModemState: the analysis of the old modem stays.
ResetKeepsAnalysis ==
  /\ loop = "reset"
  /\ shown' = [NothingShown EXCEPT !.analysis = shown.analysis]
  /\ loop' = "submit"
  /\ todo' = collectors
  /\ UNCHANGED <<wanted, current, collectors, rtModem, disabled, stop,
                 runVars, webVars>>

\* runtime.reset_modem_state(), then the submit loop.
ResetModemState ==
  /\ loop = "reset"
  /\ shown' = NothingShown
  /\ loop' = "submit"
  /\ todo' = collectors
  /\ UNCHANGED <<wanted, current, collectors, rtModem, disabled, stop,
                 runVars, webVars>>

\* Mutant of MustSkip: compares collectors, not their names.
MustSkipSameInstance(i) == i \in InFlight \/ i \in disabled \/ ~due[i]

\* The conditions under which the submit loop passes a collector over.
MustSkip(i) ==
  \/ \E j \in InFlight : NameOf(j) = NameOf(i)
  \/ i \in disabled
  \/ ~due[i]

SubmitOrSkip(i) ==
  /\ loop = "submit" /\ ~stop
  /\ i \in todo
  /\ todo' = todo \ {i}
  /\ fut' = IF MustSkip(i) THEN fut ELSE [fut EXCEPT ![i] = "queued"]
  /\ UNCHANGED <<wanted, current, collectors, rtModem, disabled, stop, loop,
                 due, lock, stage, webVars, shown>>

\* Mutant of EndSubmit: waits for the whole list even when told to stop.
EndSubmitIgnoresStop ==
  /\ loop = "submit"
  /\ todo = {}
  /\ loop' = "harvest2"
  /\ todo' = InFlight
  /\ UNCHANGED <<wanted, current, collectors, rtModem, disabled, stop,
                 runVars, webVars, shown>>

EndSubmit ==
  /\ loop = "submit"
  /\ todo = {} \/ stop
  /\ loop' = "harvest2"
  /\ todo' = InFlight
  /\ UNCHANGED <<wanted, current, collectors, rtModem, disabled, stop,
                 runVars, webVars, shown>>

\* stop_event.wait(1)
Wait ==
  /\ loop = "wait"
  /\ loop' = "top"
  /\ UNCHANGED <<wanted, current, collectors, rtModem, disabled, stop, todo,
                 runVars, webVars, shown>>

LoopStep ==
  \/ BeginTick \/ LeaveLoop \/ EndHarvest \/ KeepDriver \/ InstallDriver
  \/ InstallFails \/ ResetModemState \/ EndSubmit \/ Wait
  \/ \E i \in Instances : Harvest(i) \/ SubmitOrSkip(i)

---------------------------------------------------------------------------
(* The pool's workers: _run_collector.                                     *)

\* A free worker picks i up and tries the collect lock without waiting.
StartWorker(i) ==
  /\ fut[i] = "queued"
  /\ Cardinality(Busy) < PoolSize
  /\ IF lock[i] = NULL
     THEN /\ fut' = [fut EXCEPT ![i] = "running"]
          /\ lock' = [lock EXCEPT ![i] = i]
          /\ stage' = [stage EXCEPT ![i] = "login"]
     ELSE /\ fut' = [fut EXCEPT ![i] = "busy"]
          /\ UNCHANGED <<lock, stage>>
  /\ UNCHANGED <<loopVars, due, webVars, shown>>

\* collect() returns or raises; the finally clause releases the lock.  A
\* modem run returns only after it has published its analysis, and it can
\* raise anywhere.  Only a driver raises the transient-HTML error.
FinishWorker(i, outcome) ==
  /\ stage[i] \in Running
  /\ outcome = "ok" /\ i \in Gens => stage[i] = "analysis"
  /\ outcome = "html" => i \in Gens /\ stage[i] # "analysis"
  /\ stage' = [stage EXCEPT ![i] = "idle"]
  /\ lock' = [lock EXCEPT ![i] = NULL]
  /\ fut' = [fut EXCEPT ![i] = outcome]
  /\ UNCHANGED <<loopVars, due, webVars, shown>>

---------------------------------------------------------------------------
(* ModemCollector.collect, in whichever thread t runs it.                  *)

\* update_state(device_info=...) after login and get_device_info.
PublishDevice(t) ==
  /\ stage[t] = "login"
  /\ CollectorOf(t) \in Gens
  /\ stage' = [stage EXCEPT ![t] = "device"]
  /\ shown' = [shown EXCEPT !.device = CollectorOf(t)]
  /\ UNCHANGED <<loopVars, due, fut, lock, webVars>>

\* update_state(analysis=...), which clears the error too.
PublishAnalysis(t) ==
  /\ stage[t] = "device"
  /\ stage' = [stage EXCEPT ![t] = "analysis"]
  /\ shown' = [shown EXCEPT !.analysis = CollectorOf(t), !.error = NULL]
  /\ UNCHANGED <<loopVars, due, fut, lock, webVars>>

---------------------------------------------------------------------------
(* Web threads: api_poll.                                                  *)

\* The handler reads runtime.modem_collector and compares the time with the
\* last manual poll; within the cooldown it answers 429.
Admit(r) ==
  /\ stage[r] = "idle"
  /\ ~cooling
  /\ target' = [target EXCEPT ![r] = rtModem]
  /\ stage' = [stage EXCEPT ![r] = "admitted"]
  /\ UNCHANGED <<loopVars, due, fut, lock, cooling, shown>>

\* Mutant of Acquire: collects whether or not it got the lock.
AcquireWithoutTest(r) ==
  /\ stage[r] = "admitted"
  /\ lock' = [lock EXCEPT ![target[r]] = r]
  /\ stage' = [stage EXCEPT ![r] = "login"]
  /\ UNCHANGED <<loopVars, due, fut, target, cooling, shown>>

\* _collect_lock.acquire(timeout=0), or 429 when another thread has it.
Acquire(r) ==
  /\ stage[r] = "admitted"
  /\ IF lock[target[r]] = NULL
     THEN /\ lock' = [lock EXCEPT ![target[r]] = r]
          /\ stage' = [stage EXCEPT ![r] = "login"]
          /\ UNCHANGED target
     ELSE /\ stage' = [stage EXCEPT ![r] = "idle"]
          /\ target' = [target EXCEPT ![r] = NULL]
          /\ UNCHANGED lock
  /\ UNCHANGED <<loopVars, due, fut, cooling, shown>>

\* collect() returned (the cooldown starts) or raised (it does not); neither
\* is recorded in the schedule.  finally releases the lock.
FinishRequest(r) ==
  /\ stage[r] \in Running
  /\ \/ stage[r] = "analysis" /\ cooling' = TRUE
     \/ UNCHANGED cooling
  /\ lock' = [lock EXCEPT ![target[r]] = NULL]
  /\ stage' = [stage EXCEPT ![r] = "idle"]
  /\ target' = [target EXCEPT ![r] = NULL]
  /\ UNCHANGED <<loopVars, due, fut, shown>>

---------------------------------------------------------------------------
Next ==
  \/ ChangeModemConfig
  \/ \E i \in Others : ToggleCollector(i)
  \/ SetStop
  \/ \E i \in Instances : BecomeDue(i)
  \/ CooldownEnds
  \/ LoopStep
  \/ \E i \in Instances : StartWorker(i)
  \/ \E i \in Instances, o \in Outcomes : FinishWorker(i, o)
  \/ \E t \in Threads : PublishDevice(t) \/ PublishAnalysis(t)
  \/ \E r \in Requests : Admit(r) \/ Acquire(r) \/ FinishRequest(r)

Spec == Init /\ [][Next]_vars

(* Fairness.  The loop thread runs until it leaves (daemon thread, one tick a *)
(* second).  A worker that has a free slot starts.  A collect() ends: the     *)
(* drivers and the HTTP calls of the collectors carry timeouts.  Time passes. *)
(* Nothing is assumed of settings, the stop event or users.                   *)
CollectStep(t) ==
  \/ PublishDevice(t) \/ PublishAnalysis(t)
  \/ t \in Instances /\ \E o \in Outcomes : FinishWorker(t, o)
  \/ t \in Requests /\ (Acquire(t) \/ FinishRequest(t))

Fairness ==
  /\ WF_vars(LoopStep)
  /\ \A i \in Instances : WF_vars(StartWorker(i)) /\ WF_vars(BecomeDue(i))
  /\ \A t \in Threads : WF_vars(CollectStep(t))

FairSpec == Spec /\ Fairness

---------------------------------------------------------------------------
(* Safety.                                                                 *)

Collecting(t) == stage[t] \in Running

\* Nobody is inside collect() of one collector together: neither a manual poll
\* and an automatic one nor two manual polls (base.py).
CollectExclusive ==
  \A s, t \in Threads :
    Collecting(s) /\ Collecting(t) /\ CollectorOf(s) = CollectorOf(t) => s = t

\* Of one collector name at most one run is in flight.
OneRunPerName ==
  \A i, j \in InFlight : NameOf(i) = NameOf(j) => i = j

\* Runs exclude each other, in the two ways the code means to: the collect
\* lock keeps a manual poll and an automatic poll, or two manual polls, out of
\* one collector (base.py: "prevents concurrent collect()"), and the loop's
\* in_flight keeps two runs of one name from being under way together, even
\* those of a replaced driver and of its successor.
RunsAreExclusive == CollectExclusive /\ OneRunPerName

\* Nobody waits for a worker: when a run is handed to the pool a worker is
\* free for it, whatever the other collectors are blocked on, hot-swaps
\* included (ARCHITECTURE.md: a blocking external call never delays the local
\* modem poll).
PoolNeverSaturated ==
  \A i \in Instances : fut[i] = "queued" => Cardinality(Busy) < PoolSize

\* A run is started only for somebody who still wants it: the loop submits no
\* driver that has been replaced, however many swaps have passed, and once it
\* has ended no worker enters a collect() on its behalf.
StartsAreWanted ==
  [][/\ \A g \in Gens : fut[g] = "none" /\ fut'[g] = "queued" => g = rtModem
     /\ \A i \in Instances :
          loop = "stopped" /\ fut[i] # "running" => fut'[i] # "running"]_vars

---------------------------------------------------------------------------
(* Liveness, under FairSpec.                                               *)

Gone(i) == i \notin collectors \/ i \in disabled \/ loop = "stopped"

\* A collector that is due is collected, by the loop or by a manual poll that
\* was faster, unless it is switched off, replaced or the loop ends.
DueIsCollected ==
  \A i \in Instances :
    due[i] /\ ~Gone(i)
      ~> Gone(i) \/ \E t \in Threads : Collecting(t) /\ CollectorOf(t) = i

\* Setting the stop event ends the loop and, in the end, all its runs.
StopEndsEverything ==
  stop ~> /\ loop = "stopped"
          /\ \A i \in Instances : fut[i] \notin {"queued", "running"}

\* A driver swap takes effect: changed modem settings reach the loop, if it
\* survives, and the replaced drivers fall silent, so that from some point on
\* only the installed modem collector is ever inside collect().
SwapTakesEffect ==
  /\ wanted # current ~> wanted = current \/ loop = "stopped"
  /\ <>[](\A t \in Threads : Collecting(t) => CollectorOf(t) \in {rtModem} \cup Others)
=============================================================================
