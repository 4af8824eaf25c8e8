--------------------------- MODULE PollLifecycle ---------------------------
(***************************************************************************)
(* Who starts and stops polling loops (app/main.py: start_polling,         *)
(* stop_polling, _handle_config_changed, main).  Every settings save stops *)
(* the loop and starts another, in the web thread that serves the save,    *)
(* through two variables without a lock, poll_thread and poll_stop; the    *)
(* main thread starts the first loop and stops the last.  A step here is   *)
(* one read or write of these variables.                                   *)
(*                                                                         *)
(* A loop, its stop event and its modem collector are named by the thread  *)
(* that creates them.  What a loop does all day is module PollScheduler;   *)
(* here it installs its collector and submits runs of it.                  *)
(***************************************************************************)
EXTENDS Naturals, FiniteSets

CONSTANTS
  Savers,  \* requests that save settings, one save each
  Main,    \* the main thread
  None,
  Serial,  \* saves, start and exit wait for each other
  Slow,    \* a loop may be busy for longer than the 10 s of the join
  Watched  \* bound: the loops whose runs of the modem collector are followed

ASSUME LifecycleAssumption ==
  /\ IsFiniteSet(Savers)
  /\ Main \notin Savers /\ None \notin Savers \cup {Main}
  /\ Serial \in BOOLEAN /\ Slow \in BOOLEAN
  /\ Watched \subseteq Savers \cup {Main}

Threads == Savers \cup {Main}
Loops   == Threads

VARIABLES
  pc,          \* of every thread that starts and stops loops
  caller,      \* where its stop_polling() returns to
  joining,     \* the loop its join() waits for
  pollThread, pollStop,
  loop,        \* none, new, starting, polling, dead
  loopStop,    \* the stop event a loop was given
  told,        \* the stop events that are set
  built,       \* the version of the settings a loop was built from
  settings,    \* the version of the saved settings
  configured,  \* is_configured()
  passed,      \* loops between the stop test and the submit of their collector
  collecting,  \* loops whose collector is inside collect()
  installed,   \* runtime.modem_collector
  held,        \* the collector /api/poll has read and not yet locked
  shown,       \* whose data the dashboard shows
  owner,       \* history: the loop the dashboard was last cleared for
  survivors    \* history: who could still publish then

threadVars == <<pc, caller, joining, pollThread, pollStop>>
loopVars   == <<loop, loopStop, told, built>>
confVars   == <<settings, configured>>
runVars    == <<passed, collecting, held>>
webVars    == <<installed, shown, owner, survivors>>
vars       == <<threadVars, loopVars, confVars, runVars, webVars>>

TypeOK ==
  /\ pc \in [Threads -> {"boot", "idle", "test", "alive", "set", "join", "wait",
                         "forget", "forgetStop", "load", "reset", "event", "thread",
                         "assign", "start", "serving", "returned", "failed", "exited"}]
  /\ caller \in [Threads -> {"change", "start", "exit"}]
  /\ joining \in [Threads -> Loops \cup {None}]
  /\ {pollThread, pollStop, installed, held, shown, owner} \subseteq Loops \cup {None}
  /\ loop \in [Loops -> {"none", "new", "starting", "polling", "dead"}]
  /\ loopStop \in [Loops -> Loops \cup {None}]
  /\ told \subseteq Loops /\ passed \subseteq Loops
  /\ collecting \subseteq Loops /\ survivors \subseteq Loops
  /\ settings \in 0..Cardinality(Savers) /\ built \in [Loops -> 0..Cardinality(Savers)]
  /\ configured \in BOOLEAN

Init ==
  /\ pc = [t \in Threads |-> IF t = Main THEN "boot" ELSE "idle"]
  /\ caller = [t \in Threads |-> "change"] /\ joining = [t \in Threads |-> None]
  /\ pollThread = None /\ pollStop = None
  /\ loop = [l \in Loops |-> "none"] /\ loopStop = [l \in Loops |-> None]
  /\ told = {} /\ built = [l \in Loops |-> 0]
  /\ settings = 0 /\ configured \in BOOLEAN
  /\ passed = {} /\ collecting = {} /\ held = None
  /\ installed = None /\ shown = None /\ owner = None /\ survivors = {}

AtRest(t) == pc[t] \in {"idle", "serving", "returned", "failed"}
Alone(t)  == Serial => \A u \in Threads \ {t} : AtRest(u)

\* The process lives until main() returns or raises.
Up == pc[Main] \notin {"exited", "failed"}

Go(t, from, to) == Up /\ pc[t] = from /\ pc' = [pc EXCEPT ![t] = to]

---------------------------------------------------------------------------
\* main() and the handlers.  The web server runs before the first loop does.
Boot ==
  /\ Go(Main, "boot", IF configured THEN "test" ELSE "serving")
  /\ caller' = [caller EXCEPT ![Main] = "start"]
  /\ UNCHANGED <<joining, pollThread, pollStop, loopVars, confVars, runVars, webVars>>

\* _config_manager.save() and the call of _on_config_changed.
Save(t) ==
  /\ t \in Savers /\ Alone(t)
  /\ Go(t, "idle", "test")
  /\ caller' = [caller EXCEPT ![t] = "change"]
  /\ settings' = settings + 1
  /\ configured' \in BOOLEAN
  /\ UNCHANGED <<joining, pollThread, pollStop, loopVars, runVars, webVars>>

\* The web server has stopped: the finally of _wait_for_web_thread.
Exit ==
  /\ Alone(Main)
  /\ Go(Main, "serving", "test")
  /\ caller' = [caller EXCEPT ![Main] = "exit"]
  /\ UNCHANGED <<joining, pollThread, pollStop, loopVars, confVars, runVars, webVars>>

---------------------------------------------------------------------------
\* stop_polling(), one access of the two variables at a time.
StopTest(t) ==
  /\ Go(t, "test", IF pollThread = None THEN "forget" ELSE "alive")
  /\ UNCHANGED <<caller, joining, pollThread, pollStop, loopVars, confVars, runVars, webVars>>

\* An attribute of None: the exception leaves the handler, or main().
Alive(l) == l # None /\ loop[l] \in {"starting", "polling"}

StopAlive(t) ==
  /\ Go(t, "alive", IF pollThread = None THEN "failed"
                    ELSE IF Alive(pollThread) THEN "set" ELSE "forget")
  /\ UNCHANGED <<caller, joining, pollThread, pollStop, loopVars, confVars, runVars, webVars>>

StopSet(t) ==
  /\ Go(t, "set", IF pollStop = None THEN "failed" ELSE "join")
  /\ told' = told \cup ({pollStop} \ {None})
  /\ UNCHANGED <<caller, joining, pollThread, pollStop, loop, loopStop, built, confVars,
                 runVars, webVars>>

\* Joining a thread that was not started raises as well.
StopJoin(t) ==
  /\ Go(t, "join", IF pollThread = None \/ (pollThread # None /\ loop[pollThread] = "new")
                   THEN "failed" ELSE "wait")
  /\ joining' = [joining EXCEPT ![t] = pollThread]
  /\ UNCHANGED <<caller, pollThread, pollStop, loopVars, confVars, runVars, webVars>>

\* Mutant of StopWait: join() without a timeout.
StopWaitForEver(t) ==
  /\ Go(t, "wait", "forget")
  /\ ~Alive(joining[t])
  /\ joining' = [joining EXCEPT ![t] = None]
  /\ UNCHANGED <<caller, pollThread, pollStop, loopVars, confVars, runVars, webVars>>

\* join(timeout=10)
StopWait(t) ==
  /\ Go(t, "wait", "forget")
  /\ Slow \/ ~Alive(joining[t])
  /\ joining' = [joining EXCEPT ![t] = None]
  /\ UNCHANGED <<caller, pollThread, pollStop, loopVars, confVars, runVars, webVars>>

Forget(t) ==
  /\ Go(t, "forget", "forgetStop")
  /\ pollThread' = None
  /\ UNCHANGED <<caller, joining, pollStop, loopVars, confVars, runVars, webVars>>

ForgetStop(t) ==
  /\ Go(t, "forgetStop", CASE caller[t] = "change" -> "load"
                           [] caller[t] = "start"  -> "reset"
                           [] caller[t] = "exit"   -> "exited")
  /\ pollStop' = None
  /\ UNCHANGED <<caller, joining, pollThread, loopVars, confVars, runVars, webVars>>

\* The rest of _handle_config_changed, up to the stop_polling() in start_polling().
Load(t) ==
  /\ Go(t, "load", IF configured THEN "test" ELSE "returned")
  /\ caller' = [caller EXCEPT ![t] = "start"]
  /\ UNCHANGED <<joining, pollThread, pollStop, loopVars, confVars, runVars, webVars>>

---------------------------------------------------------------------------
\* start_polling(), after its stop_polling().

\* Mutant of Reset: the dashboard is not cleared.
KeepModemState(t) ==
  /\ Go(t, "reset", "event")
  /\ owner' = t
  /\ survivors' = collecting \cup passed \cup {l \in Loops : loop[l] = "starting"}
                  \cup ({installed, held} \ {None})
  /\ UNCHANGED <<caller, joining, pollThread, pollStop, loopVars, confVars, runVars,
                 shown, installed>>

\* runtime.reset_modem_state(), and who may still publish after it.
Reset(t) ==
  /\ Go(t, "reset", "event")
  /\ shown' = None
  /\ owner' = t
  /\ survivors' = collecting \cup passed \cup {l \in Loops : loop[l] = "starting"}
                  \cup ({installed, held} \ {None})
  /\ UNCHANGED <<caller, joining, pollThread, pollStop, loopVars, confVars, runVars, installed>>

\* Mutant of NewEvent: the variable is not given a new event.
NewEventForgotten(t) ==
  /\ Go(t, "event", "thread")
  /\ UNCHANGED <<caller, joining, pollThread, pollStop, loopVars, confVars, runVars, webVars>>

NewEvent(t) ==
  /\ Go(t, "event", "thread")
  /\ pollStop' = t
  /\ UNCHANGED <<caller, joining, pollThread, loopVars, confVars, runVars, webVars>>

\* Thread(args=(..., poll_stop, ...)) reads the variable again.
NewThread(t) ==
  /\ Go(t, "thread", "assign")
  /\ loop' = [loop EXCEPT ![t] = "new"]
  /\ loopStop' = [loopStop EXCEPT ![t] = pollStop]
  /\ UNCHANGED <<caller, joining, pollThread, pollStop, told, built, confVars, runVars, webVars>>

\* Mutant of Assign: the thread is started and not remembered.
AssignNothing(t) ==
  /\ Go(t, "assign", IF t = Main THEN "serving" ELSE "returned")
  /\ loop' = [loop EXCEPT ![t] = "starting"]
  /\ UNCHANGED <<caller, joining, pollThread, pollStop, loopStop, told, built, confVars, runVars, webVars>>

Assign(t) ==
  /\ Go(t, "assign", "start")
  /\ pollThread' = t
  /\ UNCHANGED <<caller, joining, pollStop, loopVars, confVars, runVars, webVars>>

\* poll_thread.start(): of None and of a started thread it raises.
Start(t) ==
  /\ pc[t] = "start"
  /\ IF pollThread # None /\ loop[pollThread] = "new"
     THEN /\ Go(t, "start", IF t = Main THEN "serving" ELSE "returned")
          /\ loop' = [loop EXCEPT ![pollThread] = "starting"]
     ELSE Go(t, "start", "failed") /\ UNCHANGED loop
  /\ UNCHANGED <<caller, joining, pollThread, pollStop, loopStop, told, built, confVars,
                 runVars, webVars>>

ThreadStep(t) ==
  \/ StopTest(t) \/ StopAlive(t) \/ StopSet(t) \/ StopJoin(t) \/ StopWait(t)
  \/ Forget(t) \/ ForgetStop(t) \/ Load(t)
  \/ Reset(t) \/ NewEvent(t) \/ NewThread(t) \/ Assign(t) \/ Start(t)

---------------------------------------------------------------------------
\* polling_loop.  A loop that was given no event raises when it first asks it.
ToldToStop(l) == loopStop[l] = None \/ loopStop[l] \in told

\* From discover_collectors to the injection of the collector for /api/poll.
Install(l) ==
  /\ Up
  /\ loop[l] = "starting"
  /\ loop' = [loop EXCEPT ![l] = "polling"]
  /\ built' = [built EXCEPT ![l] = settings]
  /\ installed' = l
  /\ UNCHANGED <<threadVars, loopStop, told, confVars, runVars, shown, owner, survivors>>

LoopEnds(l) ==
  /\ Up
  /\ loop[l] = "polling" /\ ToldToStop(l)
  /\ loop' = [loop EXCEPT ![l] = "dead"] /\ passed' = passed \ {l}
  /\ UNCHANGED <<threadVars, loopStop, told, built, confVars, collecting, held, webVars>>

PassStopTest(l) ==
  /\ Up /\ l \in Watched
  /\ loop[l] = "polling" /\ ~ToldToStop(l) /\ l \notin passed
  /\ passed' = passed \cup {l}
  /\ UNCHANGED <<threadVars, loopVars, confVars, collecting, held, webVars>>

\* submit; the worker takes _collect_lock or gives up.
Submit(l) ==
  /\ Up
  /\ l \in passed
  /\ passed' = passed \ {l} /\ collecting' = collecting \cup {l}
  /\ UNCHANGED <<threadVars, loopVars, confVars, held, webVars>>

\* api_poll reads runtime.modem_collector, and takes its lock later.
ReadCollector ==
  /\ Up
  /\ held = None /\ installed \in Watched
  /\ held' = installed
  /\ UNCHANGED <<threadVars, loopVars, confVars, passed, collecting, webVars>>

ManualPoll ==
  /\ Up
  /\ held # None
  /\ held' = None /\ collecting' = collecting \cup {held}
  /\ UNCHANGED <<threadVars, loopVars, confVars, passed, webVars>>

\* A run ends and has published its analysis, or failed.
Collected(l) ==
  /\ Up
  /\ l \in collecting
  /\ collecting' = collecting \ {l}
  /\ shown' \in {l, shown}
  /\ UNCHANGED <<threadVars, loopVars, confVars, passed, held, installed, owner, survivors>>

LoopStep(l) ==
  \/ Install(l) \/ LoopEnds(l) \/ PassStopTest(l) \/ Submit(l) \/ Collected(l)

Next ==
  \/ Boot \/ Exit \/ ReadCollector \/ ManualPoll
  \/ \E t \in Threads : Save(t) \/ ThreadStep(t)
  \/ \E l \in Loops : LoopStep(l)

Spec == Init /\ [][Next]_vars

\* The operating system runs every thread, and a new loop comes to its first
\* tick.  Nothing makes a loop see its stop event: it may hang for ever (Slow).
ThreadsFair == WF_vars(Boot) /\ \A t \in Threads : WF_vars(ThreadStep(t))
LoopsFair   == \A l \in Loops : WF_vars(Install(l))
FairSpec    == Spec /\ ThreadsFair /\ LoopsFair

---------------------------------------------------------------------------
\* With saves that wait for each other at most one loop runs on, and it is the
\* one stop_polling() can reach.
OneLoopRunsOn ==
  Serial => \A l \in Loops :
    Alive(l) /\ ~ToldToStop(l) => l = pollThread

\* After a restart the dashboard shows the data of the new loop's collector, or
\* of one that could not be recalled when it was cleared: inside collect(),
\* about to be submitted, still starting, or in the hands of a manual poll.
StaleOnlyFromSurvivors ==
  Serial /\ shown # None => shown \in survivors \cup {owner}

\* One loop polls, and what is shown is its own (main.py, start_polling, stop_polling).
OneLoopIsShown == OneLoopRunsOn /\ StaleOnlyFromSurvivors

\* A save has its effect unless the process ends.  It is answered, whatever
\* loops and other saves do; and where saves wait for each other, the saved
\* settings are soon those of a running loop, unless newer ones replace them
\* or they leave nothing to poll.
SavesTakeEffect ==
  /\ \A t \in Savers : (pc[t] # "idle") ~> (pc[t] \in {"returned", "failed"} \/ ~Up)
  /\ \A n \in 1..Cardinality(Savers) :
       (settings = n) ~>
         (\/ settings # n \/ ~configured \/ ~Up \/ pc[Main] = "test"
          \/ \E l \in Loops : loop[l] = "polling" /\ ~ToldToStop(l) /\ built[l] = n)
=============================================================================
