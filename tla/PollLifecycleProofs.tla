------------------------- MODULE PollLifecycleProofs -------------------------
(***************************************************************************)
(* Proofs about module PollLifecycle: for any number of saves that wait    *)
(* for each other, one loop runs on and the dashboard shows its data.      *)
(***************************************************************************)
EXTENDS PollLifecycle, FiniteSetTheorems, TLAPS

Places == {"boot", "idle", "test", "alive", "set", "join", "wait", "forget",
           "forgetStop", "load", "reset", "event", "thread", "assign", "start",
           "serving", "returned", "failed", "exited"}

\* TypeOK without the versions of the settings.
Types ==
  /\ pc \in [Threads -> Places]
  /\ caller \in [Threads -> {"change", "start", "exit"}]
  /\ joining \in [Threads -> Loops \cup {None}]
  /\ {pollThread, pollStop, installed, held, shown, owner} \subseteq Loops \cup {None}
  /\ loop \in [Loops -> {"none", "new", "starting", "polling", "dead"}]
  /\ loopStop \in [Loops -> Loops \cup {None}]
  /\ told \subseteq Loops /\ passed \subseteq Loops
  /\ collecting \subseteq Loops /\ survivors \subseteq Loops
  /\ configured \in BOOLEAN

\* Every save counts once.
Begun == {t \in Savers : pc[t] # "idle"}
Versions ==
  /\ settings = Cardinality(Begun)
  /\ built \in [Loops -> 0..settings]

---------------------------------------------------------------------------
(* The types.                                                              *)

LEMMA InitTypes == Init => Types /\ Versions
<1> SUFFICES ASSUME Init PROVE Types /\ Versions
  OBVIOUS
<1>1. Types
  BY DEF Init, Types, Places, Loops, Threads
<1>2. Begun = {}
  BY LifecycleAssumption DEF Init, Begun, Threads
<1>3. Versions
  BY <1>2, FS_EmptySet DEF Versions, Init
<1>4. QED
  BY <1>1, <1>3

\* Where a thread goes next is a place.
LEMMA GoTypes ==
  ASSUME NEW t \in Threads, NEW from, NEW to \in Places, Types, Go(t, from, to)
  PROVE  pc' \in [Threads -> Places] /\ pc[t] = from /\ pc'[t] = to
         /\ \A u \in Threads : u # t => pc'[u] = pc[u]
  BY DEF Go, Types

LEMMA ThreadTypes ==
  ASSUME Types, NEW t \in Threads, Boot \/ Exit \/ Save(t) \/ ThreadStep(t)
  PROVE  Types'
<1> USE DEF Types, Places, threadVars, loopVars, confVars, runVars, webVars, Go, Loops
<1>1. Main \in Threads
  BY DEF Threads
<1>2. CASE Boot \/ Exit
  BY <1>1, <1>2 DEF Boot, Exit
<1>3. CASE Save(t)
  BY <1>3 DEF Save
<1>4. CASE StopTest(t) \/ StopAlive(t) \/ StopSet(t)
  BY <1>4 DEF StopTest, StopAlive, StopSet
<1>5. CASE StopJoin(t) \/ StopWait(t) \/ Forget(t)
  BY <1>5 DEF StopJoin, StopWait, Forget
<1>6. CASE ForgetStop(t) \/ Load(t)
  BY <1>6 DEF ForgetStop, Load
<1>7. CASE Reset(t)
  BY <1>7 DEF Reset
<1>8. CASE NewEvent(t) \/ NewThread(t) \/ Assign(t)
  BY <1>8 DEF NewEvent, NewThread, Assign
<1>9. CASE Start(t)
  BY <1>9 DEF Start
<1>10. QED
  BY <1>2, <1>3, <1>4, <1>5, <1>6, <1>7, <1>8, <1>9 DEF ThreadStep

LEMMA LoopTypes ==
  ASSUME Types, NEW l \in Loops, LoopStep(l) \/ ReadCollector \/ ManualPoll
  PROVE  Types'
<1> USE DEF Types, threadVars, loopVars, confVars, runVars, webVars
<1>1. CASE Install(l) \/ LoopEnds(l)
  BY <1>1 DEF Install, LoopEnds
<1>2. CASE PassStopTest(l) \/ Submit(l) \/ Collected(l)
  BY <1>2 DEF PassStopTest, Submit, Collected
<1>3. CASE ReadCollector \/ ManualPoll
  BY <1>3 DEF ReadCollector, ManualPoll
<1>4. QED
  BY <1>1, <1>2, <1>3 DEF LoopStep

---------------------------------------------------------------------------
(* Saves that wait for each other.                                         *)

RunsOn(l) == Alive(l) /\ ~ToldToStop(l)

\* One thread at a time starts or stops a loop.
Turn == \A t, u \in Threads : ~AtRest(t) /\ ~AtRest(u) => t = u

\* The event in poll_stop is the one of the loop in poll_thread.
Tied == pollThread # None => pollStop # None /\ loopStop[pollThread] = pollStop

Reachable == \A l \in Loops : RunsOn(l) => l = pollThread

\* A thread object that is not started is the one some thread is about to start.
NewInv == \A l \in Loops :
            loop[l] = "new" => pc[l] \in {"assign", "start"} /\ loopStop[l] = l

\* What a thread that stops and starts loops has achieved at each step.
Work(t) ==
  /\ pc[t] \in {"join", "wait", "forget", "forgetStop", "load", "reset", "event",
                "thread", "assign"}
       => \A l \in Loops : ~RunsOn(l)
  /\ pc[t] \in {"forgetStop", "load", "reset", "event", "thread", "assign"}
       => pollThread = None
  /\ pc[t] \in {"alive", "set"} => pollThread # None
  /\ pc[t] \in {"thread", "assign", "start"} => pollStop = t
  /\ pc[t] \in {"assign", "start"} => loop[t] = "new"
  /\ pc[t] = "start" => pollThread = t
  /\ pc[t] \in {"event", "thread", "assign", "start"} => owner = t

\* Whatever may still publish belongs to the owner or could not be recalled.
Publishers ==
  collecting \cup passed \cup {l \in Loops : loop[l] = "starting"}
    \cup ({installed, held} \ {None})

StaleInv ==
  /\ pollThread \in {None, owner}
  /\ Publishers \subseteq survivors \cup {owner}
  /\ shown # None => shown \in survivors \cup {owner}

SerialInv ==
  /\ Turn /\ Tied /\ Reachable /\ NewInv /\ StaleInv
  /\ \A t \in Threads : Work(t)

LEMMA InitSerial == Init => SerialInv
<1> SUFFICES ASSUME Init PROVE SerialInv
  OBVIOUS
<1> USE DEF Init, Loops, Threads
<1>1. Turn
  BY LifecycleAssumption DEF Turn, AtRest
<1>2. \A l \in Loops : ~RunsOn(l) /\ loop[l] = "none"
  BY DEF RunsOn, Alive
<1>3. Tied /\ Reachable /\ NewInv
  BY <1>2 DEF Tied, Reachable, NewInv
<1>4. StaleInv
  BY <1>2 DEF StaleInv, Publishers
<1>5. \A t \in Threads : Work(t)
  BY DEF Work
<1>6. QED
  BY <1>1, <1>3, <1>4, <1>5 DEF SerialInv

\* A thread that takes a step takes it alone.
LEMMA StepsAlone ==
  ASSUME Types, Turn, Serial, NEW t \in Threads,
         (Boot /\ t = Main) \/ (Exit /\ t = Main) \/ Save(t) \/ ThreadStep(t)
  PROVE  /\ \A u \in Threads : u # t => AtRest(u) /\ pc'[u] = pc[u] /\ AtRest(u)'
         /\ Turn'
<1>1. PICK to : pc' = [pc EXCEPT ![t] = to]
  <2>1. CASE (Boot /\ t = Main) \/ (Exit /\ t = Main) \/ Save(t)
    BY <2>1 DEF Boot, Exit, Save, Go
  <2>2. CASE StopTest(t) \/ StopAlive(t) \/ StopSet(t) \/ StopJoin(t) \/ StopWait(t)
    BY <2>2 DEF Go, StopTest, StopAlive, StopSet, StopJoin, StopWait
  <2>3. CASE Forget(t) \/ ForgetStop(t) \/ Load(t) \/ Reset(t)
    BY <2>3 DEF Go, Forget, ForgetStop, Load, Reset
  <2>4. CASE NewEvent(t) \/ NewThread(t) \/ Assign(t) \/ Start(t)
    BY <2>4 DEF Go, NewEvent, NewThread, Assign, Start
  <2>5. QED
    BY <2>1, <2>2, <2>3, <2>4 DEF ThreadStep
<1>2. \A u \in Threads : u # t => AtRest(u)
  <2>1. CASE (Exit /\ t = Main) \/ Save(t)
    BY <2>1 DEF Exit, Save, Alone
  <2>2. CASE ~AtRest(t)
    BY <2>2 DEF Turn
  <2>3. CASE (Boot /\ t = Main) \/ ThreadStep(t)
    <3>1. pc[t] \in {"boot", "test", "alive", "set", "join", "wait", "forget", "forgetStop",
                     "load", "reset", "event", "thread", "assign", "start"}
      BY <2>3 DEF Boot, ThreadStep, Go, StopTest, StopAlive, StopSet, StopJoin, StopWait,
           Forget, ForgetStop, Load, Reset, NewEvent, NewThread, Assign, Start
    <3>2. QED
      BY <3>1, <2>2 DEF AtRest
  <2>4. QED
    BY <2>1, <2>3
<1>3. \A u \in Threads : u # t => pc'[u] = pc[u]
  BY <1>1 DEF Types
<1>4. \A u \in Threads : u # t => AtRest(u)'
  BY <1>2, <1>3 DEF AtRest
<1>5. QED
  BY <1>2, <1>3, <1>4 DEF Turn

\* It leaves the other threads nothing to have achieved.
LEMMA OthersWork ==
  ASSUME NEW u, AtRest(u)
  PROVE  Work(u)
  BY DEF AtRest, Work

LEMMA ThreadSerial ==
  ASSUME Types, SerialInv, Serial, NEW t \in Threads,
         (Boot /\ t = Main) \/ (Exit /\ t = Main) \/ Save(t) \/ ThreadStep(t)
  PROVE  SerialInv'
<1> USE DEF Loops
<1>1. /\ \A u \in Threads : u # t => AtRest(u) /\ pc'[u] = pc[u] /\ AtRest(u)'
      /\ Turn'
  BY StepsAlone DEF SerialInv
<1>2. \A u \in Threads : u # t => Work(u)'
  BY <1>1, OthersWork DEF AtRest, Work
<1>3. \A l \in Loops : l # t => loop[l] # "new"
  BY <1>1 DEF SerialInv, NewInv, AtRest
<1>4. Tied /\ Reachable /\ NewInv /\ StaleInv /\ Work(t)
  BY DEF SerialInv
<1>5. None \notin Threads /\ pc \in [Threads -> Places] /\ loopStop \in [Loops -> Loops \cup {None}]
      /\ loop \in [Loops -> {"none", "new", "starting", "polling", "dead"}]
      /\ {pollThread, pollStop, installed, held, shown, owner} \subseteq Loops \cup {None}
  BY LifecycleAssumption DEF Threads, Types
\* Steps that only look, and walk on.
<1>6. ASSUME UNCHANGED <<pollThread, pollStop, loop, loopStop, told, passed, collecting,
                         held, webVars>>, Work(t)', loop[t] = "new" => pc'[t] \in {"assign", "start"}
      PROVE  SerialInv'
  <2>1. Tied' /\ Reachable' /\ StaleInv'
    BY <1>4, <1>6 DEF Tied, Reachable, StaleInv, Publishers, RunsOn, Alive, ToldToStop, webVars
  <2>2. NewInv'
    BY <1>3, <1>4, <1>6 DEF NewInv
  <2>3. QED
    BY <1>1, <1>2, <1>6, <2>1, <2>2 DEF SerialInv
<1>7. CASE (Boot /\ t = Main) \/ (Exit /\ t = Main) \/ Save(t)
  <2>1. pc'[t] \in {"test", "serving"} /\ pc[t] \in {"boot", "idle", "serving"}
    BY <1>5, <1>7 DEF Boot, Exit, Save, Go
  <2>2. Work(t)' /\ loop[t] # "new"
    BY <1>4, <2>1 DEF Work, NewInv
  <2>3. QED
    BY <1>6, <1>7, <2>2 DEF Boot, Exit, Save, loopVars, runVars
<1>8. CASE StopTest(t)
  <2>1. /\ pc[t] = "test" /\ pc'[t] = IF pollThread = None THEN "forget" ELSE "alive"
        /\ UNCHANGED <<pollThread, pollStop, loopVars, runVars, webVars>>
    BY <1>5, <1>8 DEF StopTest, Go
  <2>2. pollThread = None => \A l \in Loops : ~RunsOn(l)
    BY <1>4, <1>5 DEF Reachable
  <2>3. Work(t)' /\ loop[t] # "new"
    BY <1>4, <2>1, <2>2 DEF Work, NewInv, RunsOn, Alive, ToldToStop, loopVars
  <2>4. QED
    BY <1>6, <2>1, <2>3 DEF loopVars, runVars
<1>9. CASE StopAlive(t)
  <2>1. /\ pc[t] = "alive" /\ pc'[t] = (IF pollThread = None THEN "failed"
                              ELSE IF Alive(pollThread) THEN "set" ELSE "forget")
        /\ UNCHANGED <<pollThread, pollStop, loopVars, runVars, webVars>>
    BY <1>5, <1>9 DEF StopAlive, Go
  <2>2. ~Alive(pollThread) => \A l \in Loops : ~RunsOn(l)
    BY <1>4 DEF Reachable, RunsOn
  <2>3. Work(t)' /\ loop[t] # "new"
    BY <1>4, <2>1, <2>2 DEF Work, NewInv, RunsOn, Alive, ToldToStop, loopVars
  <2>4. QED
    BY <1>6, <2>1, <2>3 DEF loopVars, runVars
<1>10. CASE StopSet(t)
  <2>1. /\ pc[t] = "set" /\ pc'[t] = "join" /\ told' = told \cup {pollStop}
        /\ pollThread \in Loops /\ loopStop[pollThread] = pollStop
        /\ UNCHANGED <<pollThread, pollStop, loop, loopStop, passed, collecting, held, webVars>>
    BY <1>4, <1>5, <1>10 DEF StopSet, Go, Work, Tied, runVars
  <2>2. \A l \in Loops : ~RunsOn(l)'
    BY <1>4, <2>1 DEF Reachable, RunsOn, Alive, ToldToStop
  <2>3. Work(t)' /\ loop[t] # "new"
    BY <1>4, <2>1, <2>2 DEF Work, NewInv
  <2>4. Tied' /\ Reachable' /\ StaleInv'
    BY <1>4, <2>1, <2>2 DEF Tied, Reachable, StaleInv, Publishers, webVars
  <2>5. NewInv'
    BY <1>3, <2>1, <2>3 DEF NewInv
  <2>6. QED
    BY <1>1, <1>2, <2>3, <2>4, <2>5 DEF SerialInv
<1>11. CASE StopJoin(t) \/ StopWait(t)
  <2>1. /\ pc[t] \in {"join", "wait"} /\ pc'[t] \in {"failed", "wait", "forget"}
        /\ UNCHANGED <<pollThread, pollStop, loopVars, runVars, webVars>>
    BY <1>5, <1>11 DEF StopJoin, StopWait, Go
  <2>2. Work(t)' /\ loop[t] # "new"
    BY <1>4, <2>1 DEF Work, NewInv, RunsOn, Alive, ToldToStop, loopVars
  <2>3. QED
    BY <1>6, <2>1, <2>2 DEF loopVars, runVars
<1>12. CASE Forget(t) \/ ForgetStop(t)
  <2>1. /\ pc[t] \in {"forget", "forgetStop"}
        /\ pc'[t] \in {"forgetStop", "load", "reset", "exited"}
        /\ pollThread' = None
        /\ UNCHANGED <<loopVars, runVars, webVars>>
    <3>1. CASE Forget(t)
      BY <1>5, <3>1 DEF Forget, Go
    <3>2. CASE ForgetStop(t)
      BY <1>4, <1>5, <3>2 DEF ForgetStop, Go, Work, Types
    <3>3. QED
      BY <1>12, <3>1, <3>2
  <2>2. \A l \in Loops : ~RunsOn(l) /\ ~RunsOn(l)'
    BY <1>4, <2>1 DEF Work, RunsOn, Alive, ToldToStop, loopVars
  <2>3. Work(t)' /\ loop[t] # "new"
    BY <1>4, <2>1, <2>2 DEF Work, NewInv
  <2>4. Tied' /\ Reachable' /\ StaleInv'
    BY <1>4, <2>1, <2>2 DEF Tied, Reachable, StaleInv, Publishers, webVars, runVars, loopVars
  <2>5. NewInv'
    BY <1>3, <2>1, <2>3 DEF NewInv, loopVars
  <2>6. QED
    BY <1>1, <1>2, <2>3, <2>4, <2>5 DEF SerialInv
<1>13. CASE Load(t)
  <2>1. /\ pc[t] = "load" /\ pc'[t] \in {"test", "returned"}
        /\ UNCHANGED <<pollThread, pollStop, loopVars, runVars, webVars>>
    BY <1>5, <1>13 DEF Load, Go
  <2>2. Work(t)' /\ loop[t] # "new"
    BY <1>4, <2>1 DEF Work, NewInv
  <2>3. QED
    BY <1>6, <2>1, <2>2 DEF loopVars, runVars
<1>14. CASE Reset(t)
  <2>1. /\ pc[t] = "reset" /\ pc'[t] = "event" /\ shown' = None /\ owner' = t
        /\ survivors' = Publishers
        /\ UNCHANGED <<pollThread, pollStop, loopVars, runVars, installed>>
    BY <1>5, <1>14 DEF Reset, Go, Publishers
  <2>2. pollThread = None /\ \A l \in Loops : ~RunsOn(l) /\ ~RunsOn(l)'
    BY <1>4, <2>1 DEF Work, RunsOn, Alive, ToldToStop, loopVars
  <2>3. Work(t)' /\ loop[t] # "new"
    BY <1>4, <2>1, <2>2 DEF Work, NewInv
  <2>4. Tied' /\ Reachable'
    BY <2>1, <2>2 DEF Tied, Reachable
  <2>5. StaleInv'
    BY <2>1, <2>2 DEF StaleInv, Publishers, runVars, loopVars
  <2>6. NewInv'
    BY <1>3, <2>1, <2>3 DEF NewInv, loopVars
  <2>7. QED
    BY <1>1, <1>2, <2>3, <2>4, <2>5, <2>6 DEF SerialInv
<1>15. CASE NewEvent(t)
  <2>1. /\ pc[t] = "event" /\ pc'[t] = "thread" /\ pollStop' = t /\ pollThread = None
        /\ UNCHANGED <<pollThread, loopVars, runVars, webVars>>
    BY <1>4, <1>5, <1>15 DEF NewEvent, Go, Work
  <2>2. \A l \in Loops : ~RunsOn(l) /\ ~RunsOn(l)'
    BY <1>4, <2>1 DEF Work, RunsOn, Alive, ToldToStop, loopVars
  <2>3. Work(t)' /\ loop[t] # "new"
    BY <1>4, <2>1, <2>2 DEF Work, NewInv, webVars
  <2>4. Tied' /\ Reachable' /\ StaleInv'
    BY <1>4, <2>1, <2>2 DEF Tied, Reachable, StaleInv, Publishers, webVars, runVars, loopVars
  <2>5. NewInv'
    BY <1>3, <2>1, <2>3 DEF NewInv, loopVars
  <2>6. QED
    BY <1>1, <1>2, <2>3, <2>4, <2>5 DEF SerialInv
<1>16. CASE NewThread(t)
  <2>1. /\ pc[t] = "thread" /\ pc'[t] = "assign" /\ pollStop = t /\ pollThread = None
        /\ loop' = [loop EXCEPT ![t] = "new"] /\ loopStop' = [loopStop EXCEPT ![t] = t]
        /\ UNCHANGED <<pollThread, pollStop, told, runVars, webVars>>
    BY <1>4, <1>5, <1>16 DEF NewThread, Go, Work
  <2>2. loop'[t] = "new" /\ \A l \in Loops : l # t => loop'[l] = loop[l] /\ loopStop'[l] = loopStop[l]
    BY <1>5, <2>1
  <2>3. \A l \in Loops : ~RunsOn(l)'
    BY <1>4, <2>1, <2>2 DEF Work, RunsOn, Alive, ToldToStop
  <2>4. Work(t)'
    BY <1>4, <2>1, <2>2, <2>3 DEF Work, webVars
  <2>5. Tied' /\ Reachable'
    BY <2>1, <2>3 DEF Tied, Reachable
  <2>6. StaleInv'
    BY <1>4, <2>1, <2>2 DEF StaleInv, Publishers, webVars, runVars
  <2>7. NewInv'
    BY <1>3, <1>5, <2>1, <2>2 DEF NewInv
  <2>8. QED
    BY <1>1, <1>2, <2>4, <2>5, <2>6, <2>7 DEF SerialInv
<1>17. CASE Assign(t)
  <2>1. /\ pc[t] = "assign" /\ pc'[t] = "start" /\ pollThread' = t /\ pollStop = t
        /\ loop[t] = "new" /\ loopStop[t] = t /\ owner = t
        /\ UNCHANGED <<pollStop, loopVars, runVars, webVars>>
    BY <1>4, <1>5, <1>17 DEF Assign, Go, Work, NewInv
  <2>2. \A l \in Loops : ~RunsOn(l)'
    BY <1>4, <2>1 DEF Work, RunsOn, Alive, ToldToStop, loopVars
  <2>3. Work(t)'
    BY <2>1 DEF Work, webVars, loopVars
  <2>4. Tied' /\ Reachable' /\ StaleInv'
    BY <1>4, <1>5, <2>1, <2>2 DEF Tied, Reachable, StaleInv, Publishers, webVars, runVars, loopVars
  <2>5. NewInv'
    BY <1>3, <2>1 DEF NewInv, loopVars
  <2>6. QED
    BY <1>1, <1>2, <2>3, <2>4, <2>5 DEF SerialInv
<1>18. CASE Start(t)
  <2>1. /\ pc[t] = "start" /\ pollThread = t /\ loop[t] = "new" /\ owner = t
        /\ pc'[t] \in {"serving", "returned"}
        /\ loop' = [loop EXCEPT ![t] = "starting"]
        /\ UNCHANGED <<pollThread, pollStop, loopStop, told, runVars, webVars>>
    BY <1>4, <1>5, <1>18 DEF Start, Go, Work
  <2>2. loop'[t] = "starting" /\ \A l \in Loops : l # t => loop'[l] = loop[l]
    BY <1>5, <2>1
  <2>3. Work(t)'
    BY <2>1 DEF Work
  <2>4. Tied' /\ Reachable'
    BY <1>4, <2>1, <2>2 DEF Tied, Reachable, RunsOn, Alive, ToldToStop
  <2>5. StaleInv'
    BY <1>4, <2>1, <2>2 DEF StaleInv, Publishers, webVars, runVars
  <2>6. NewInv'
    BY <1>3, <2>2 DEF NewInv
  <2>7. QED
    BY <1>1, <1>2, <2>3, <2>4, <2>5, <2>6 DEF SerialInv
<1>19. QED
  BY <1>7, <1>8, <1>9, <1>10, <1>11, <1>12, <1>13, <1>14, <1>15, <1>16, <1>17, <1>18
     DEF ThreadStep

LEMMA LoopSerial ==
  ASSUME Types, SerialInv, NEW l \in Loops, LoopStep(l) \/ ReadCollector \/ ManualPoll
  PROVE  SerialInv'
<1>1. Tied /\ Reachable /\ NewInv /\ StaleInv /\ Turn /\ \A t \in Threads : Work(t)
  BY DEF SerialInv
<1>2. loop \in [Loops -> {"none", "new", "starting", "polling", "dead"}]
      /\ None \notin Loops /\ Loops = Threads
  BY LifecycleAssumption DEF Types, Threads, Loops
<1>3. UNCHANGED <<threadVars, loopStop, told, owner, survivors>>
  BY DEF LoopStep, Install, LoopEnds, PassStopTest, Submit, Collected, ReadCollector,
         ManualPoll, loopVars, webVars
<1>4. \/ loop' = loop
      \/ loop[l] = "starting" /\ loop' = [loop EXCEPT ![l] = "polling"]
      \/ loop[l] = "polling" /\ loop' = [loop EXCEPT ![l] = "dead"]
  BY DEF LoopStep, Install, LoopEnds, PassStopTest, Submit, Collected, ReadCollector,
         ManualPoll, loopVars
<1>5. \A k \in Loops : /\ RunsOn(k)' => RunsOn(k)
                       /\ (loop'[k] = "new") = (loop[k] = "new")
                       /\ loop'[k] = "starting" => loop[k] = "starting"
  BY <1>2, <1>3, <1>4 DEF RunsOn, Alive, ToldToStop
<1>6. Turn' /\ Tied' /\ Reachable' /\ NewInv'
  BY <1>1, <1>3, <1>5 DEF Turn, AtRest, Tied, Reachable, NewInv, threadVars
<1>7. \A t \in Threads : Work(t)'
  BY <1>1, <1>2, <1>3, <1>5 DEF Work, threadVars
<1>8. StaleInv'
  <2>1. CASE Install(l)
    BY <1>1, <1>3, <1>5, <2>1 DEF Install, StaleInv, Publishers, runVars, threadVars
  <2>2. CASE LoopEnds(l)
    BY <1>1, <1>3, <1>5, <2>2 DEF LoopEnds, StaleInv, Publishers, webVars, threadVars
  <2>3. CASE PassStopTest(l)
    <3>1. l = pollThread
      BY <1>1, <1>2, <2>3 DEF PassStopTest, Reachable, RunsOn, Alive
    <3>2. l = owner
      BY <1>1, <1>2, <3>1 DEF StaleInv
    <3>3. QED
      BY <1>1, <1>3, <2>3, <3>2 DEF PassStopTest, StaleInv, Publishers, loopVars, webVars, threadVars
  <2>4. CASE Submit(l)
    BY <1>1, <1>3, <2>4 DEF Submit, StaleInv, Publishers, loopVars, webVars, threadVars
  <2>5. CASE Collected(l)
    BY <1>1, <1>3, <2>5 DEF Collected, StaleInv, Publishers, loopVars, threadVars
  <2>6. CASE ReadCollector
    BY <1>1, <1>3, <2>6 DEF ReadCollector, StaleInv, Publishers, loopVars, webVars, threadVars
  <2>7. CASE ManualPoll
    BY <1>1, <1>3, <2>7 DEF ManualPoll, StaleInv, Publishers, loopVars, webVars, threadVars
  <2>8. QED
    BY <2>1, <2>2, <2>3, <2>4, <2>5, <2>6, <2>7 DEF LoopStep
<1>9. QED
  BY <1>6, <1>7, <1>8 DEF SerialInv

---------------------------------------------------------------------------
(* The versions of the settings.                                           *)

LEMMA BegunIsFinite ==
  IsFiniteSet(Begun) /\ Cardinality(Begun) \in 0..Cardinality(Savers)
<1>1. Begun \subseteq Savers /\ IsFiniteSet(Savers)
  BY LifecycleAssumption DEF Begun
<1>2. IsFiniteSet(Begun) /\ Cardinality(Begun) <= Cardinality(Savers)
  BY <1>1, FS_Subset
<1>3. Cardinality(Begun) \in Nat /\ Cardinality(Savers) \in Nat
  BY <1>1, <1>2, FS_CardinalityType
<1>4. QED
  BY <1>2, <1>3

LEMMA SaveVersions ==
  ASSUME Types, Versions, NEW t \in Threads, Save(t)
  PROVE  Versions'
<1>1. t \in Savers /\ pc[t] = "idle" /\ pc' = [pc EXCEPT ![t] = "test"]
      /\ settings' = settings + 1 /\ built' = built
  BY DEF Save, Go, loopVars
<1>2. Begun' = Begun \cup {t} /\ t \notin Begun
  BY <1>1 DEF Begun, Types, Threads
<1>3. IsFiniteSet(Begun)
  BY BegunIsFinite
<1>4. Cardinality(Begun \cup {t}) = Cardinality(Begun) + 1
  BY <1>2, <1>3, FS_AddElement
<1>5. settings \in Nat
  BY BegunIsFinite DEF Versions
<1>6. QED
  BY <1>1, <1>2, <1>4, <1>5 DEF Versions

LEMMA OtherVersions ==
  ASSUME Types, Versions, NEW t \in Threads,
         Boot \/ Exit \/ ThreadStep(t) \/ UNCHANGED pc, UNCHANGED <<settings, built>>
  PROVE  Versions'
<1> USE DEF Go, Types, Begun, Threads
<1>1. Begun' = Begun
  <2>1. CASE Boot \/ Exit
    BY <2>1, LifecycleAssumption DEF Boot, Exit
  <2>2. CASE StopTest(t) \/ StopAlive(t) \/ StopSet(t) \/ StopJoin(t) \/ StopWait(t)
    BY <2>2 DEF StopTest, StopAlive, StopSet, StopJoin, StopWait
  <2>3. CASE Forget(t) \/ ForgetStop(t) \/ Load(t) \/ Reset(t)
    BY <2>3 DEF Forget, ForgetStop, Load, Reset
  <2>4. CASE NewEvent(t) \/ NewThread(t) \/ Assign(t) \/ Start(t)
    BY <2>4 DEF NewEvent, NewThread, Assign, Start
  <2>5. CASE UNCHANGED pc
    BY <2>5
  <2>6. QED
    BY <2>1, <2>2, <2>3, <2>4, <2>5 DEF ThreadStep
<1>2. QED
  BY <1>1 DEF Versions

LEMMA ThreadKeepsVersions ==
  ASSUME NEW t, Boot \/ Exit \/ ThreadStep(t)
  PROVE  UNCHANGED <<settings, built>>
  BY DEF Boot, Exit, ThreadStep, StopTest, StopAlive, StopSet, StopJoin, StopWait,
         Forget, ForgetStop, Load, Reset, NewEvent, NewThread, Assign, Start,
         loopVars, confVars

LEMMA LoopVersions ==
  ASSUME Types, Versions, NEW l \in Loops, LoopStep(l) \/ ReadCollector \/ ManualPoll
  PROVE  Versions'
<1>1. Begun' = Begun /\ settings' = settings
  BY DEF Begun, LoopStep, Install, LoopEnds, PassStopTest, Submit, Collected,
         ReadCollector, ManualPoll, threadVars, confVars
<1>2. built' = built \/ built' = [built EXCEPT ![l] = settings]
  BY DEF LoopStep, Install, LoopEnds, PassStopTest, Submit, Collected, ReadCollector,
         ManualPoll, loopVars
<1>3. settings \in Nat
  BY BegunIsFinite DEF Versions
<1>4. QED
  BY <1>1, <1>2, <1>3 DEF Versions

---------------------------------------------------------------------------
(* The invariant.                                                          *)

IInv == Types /\ Versions /\ (Serial => SerialInv)

LEMMA NextIInv == IInv /\ [Next]_vars => IInv'
<1> SUFFICES ASSUME IInv, [Next]_vars PROVE IInv'
  OBVIOUS
<1> USE DEF IInv
<1>1. Main \in Threads /\ Loops = Threads
  BY DEF Threads, Loops
<1>2. CASE Boot \/ Exit
  BY <1>1, <1>2, ThreadTypes, ThreadSerial, OtherVersions, ThreadKeepsVersions
<1>3. ASSUME NEW t \in Threads, Save(t)
      PROVE  IInv'
  BY <1>3, ThreadTypes, ThreadSerial, SaveVersions
<1>4. ASSUME NEW t \in Threads, ThreadStep(t)
      PROVE  IInv'
  BY <1>4, ThreadTypes, ThreadSerial, OtherVersions, ThreadKeepsVersions
<1>5. ASSUME NEW l \in Loops, LoopStep(l) \/ ReadCollector \/ ManualPoll
      PROVE  IInv'
  BY <1>5, LoopTypes, LoopSerial, LoopVersions
<1>6. CASE UNCHANGED vars
  <2>1. UNCHANGED <<threadVars, loopVars, confVars, runVars, webVars>>
    BY <1>6 DEF vars
  <2>2. Types' /\ Versions'
    BY <2>1 DEF threadVars, loopVars, confVars, runVars, webVars, Types, Versions, Begun
  <2>3. ASSUME SerialInv PROVE SerialInv'
    <3>1. Turn' /\ Tied' /\ Reachable' /\ NewInv' /\ StaleInv'
      BY <2>1, <2>3 DEF threadVars, loopVars, runVars, webVars, SerialInv, Turn, AtRest,
           Tied, Reachable, NewInv, StaleInv, Publishers, RunsOn, Alive, ToldToStop
    <3>2. \A t \in Threads : Work(t)'
      BY <2>1, <2>3 DEF threadVars, loopVars, webVars, SerialInv, Work, RunsOn, Alive,
           ToldToStop
    <3>3. QED
      BY <3>1, <3>2 DEF SerialInv
  <2>4. QED
    BY <2>2, <2>3
<1>7. QED
  BY <1>1, <1>2, <1>3, <1>4, <1>5, <1>6 DEF Next

LEMMA IInvAlways == Spec => []IInv
<1>1. Init => IInv
  BY InitTypes, InitSerial DEF IInv
<1>2. QED
  BY <1>1, NextIInv, PTL DEF Spec

---------------------------------------------------------------------------
\* Every variable keeps its type, however threads interleave, and no loop is
\* built from settings that were not saved (main.py, start and stop of polling).
THEOREM Typing == Spec => []TypeOK
<1>1. IInv => TypeOK
  <2> SUFFICES ASSUME Types, Versions PROVE TypeOK
    BY DEF IInv
  <2>1. settings \in 0..Cardinality(Savers)
    BY BegunIsFinite DEF Versions
  <2>2. Cardinality(Savers) \in Nat
    BY LifecycleAssumption, FS_CardinalityType
  <2>3. built \in [Loops -> 0..Cardinality(Savers)]
    BY <2>1, <2>2 DEF Versions
  <2>4. QED
    BY <2>1, <2>3 DEF TypeOK, Types, Places
<1>2. QED
  BY IInvAlways, <1>1, PTL

\* For any number of saves that wait for each other, a loop that is not told to
\* stop is the one stop_polling() can reach (main.py, stop_polling, start_polling).
THEOREM OneLoop == Spec => []OneLoopRunsOn
<1>1. IInv => OneLoopRunsOn
  BY DEF IInv, SerialInv, Reachable, RunsOn, OneLoopRunsOn
<1>2. QED
  BY IInvAlways, <1>1, PTL

\* ... and the dashboard shows nothing but the new collector's data or those of
\* one that could not be recalled (main.py, start_polling, reset_modem_state).
THEOREM DashboardIsFresh == Spec => []StaleOnlyFromSurvivors
<1>1. IInv => StaleOnlyFromSurvivors
  BY DEF IInv, SerialInv, StaleInv, StaleOnlyFromSurvivors
<1>2. QED
  BY IInvAlways, <1>1, PTL

\* Both together, for any number of saves that wait for each other.
THEOREM LoopIsShown == Spec => []OneLoopIsShown
<1>1. OneLoopRunsOn /\ StaleOnlyFromSurvivors => OneLoopIsShown
  BY DEF OneLoopIsShown
<1>2. QED
  BY OneLoop, DashboardIsFresh, <1>1, PTL
=============================================================================
