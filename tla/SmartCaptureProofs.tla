------------------------- MODULE SmartCaptureProofs -------------------------
(***************************************************************************)
(* Theorems about SmartCapture, for any number of sources, executions and  *)
(* results and all limits: types, and that the table of executions keeps   *)
(* the safety part of ExecutionLifecycle.                                  *)
(***************************************************************************)
EXTENDS SmartCapture, FiniteSetTheorems, TLAPS

LEMMA Constants ==
  /\ MaxExecs \in Nat /\ MaxResults \in Nat /\ Day \in Nat /\ ExpireAfter \in Nat
  /\ Horizon \in Nat /\ Horizon > ExpireAfter /\ Horizon >= 1
  /\ 0 \in Ages /\ 1 \in Ages /\ Never \in Ages
  /\ None \notin Executions /\ Free \notin Sources
  BY CaptureAssumption DEF Horizon, Ages, Never, None, Executions

LEMMA OlderAge == ASSUME NEW a \in Ages PROVE Older(a) \in Ages
  BY CaptureAssumption DEF Older, Ages, Horizon, Never

LEMMA ProducedCount == Cardinality(Produced) \in 0..MaxResults
<1>1. IsFiniteSet(Results) /\ Cardinality(Results) = MaxResults
  BY FS_Interval, CaptureAssumption DEF Results
<1>2. Produced \subseteq Results
  BY DEF Produced
<1>3. QED
  BY <1>1, <1>2, FS_Subset, FS_CardinalityType, CaptureAssumption

\* An adapter call works on a pending execution that is not stale, and no two
\* calls on the same one.
CallsInv ==
  /\ \A s \in Sources : exec[s] # None =>
       status[exec[s]] = "pending" /\ createdAge[exec[s]] \in 0..ExpireAfter
  /\ \A s, t \in Sources : exec[s] = exec[t] /\ exec[s] # None => s = t

IInv == TypeOK /\ CallsInv

LEMMA InitIInv == Init => IInv
  BY Constants, CaptureAssumption DEF Init, IInv, TypeOK, CallsInv, Executions, Results

---------------------------------------------------------------------------
\* What most steps do: one call ends, its execution takes a new status.
LEMMA ReturnIInv ==
  ASSUME IInv, NEW s \in Sources, step[s] \notin {"idle", "call"}, Return(s),
         status' \in [Executions -> {"none", "pending", "fired", "completed", "suppressed", "expired"}],
         \A e \in Executions : e # exec[s] => status'[e] = status[e],
         firedAge' \in [Executions -> Ages],
         UNCHANGED <<adapter, link, createdAge, resultAge, importVars>>
  PROVE  IInv'
<1> USE Constants DEF IInv, TypeOK, CallsInv, Return, importVars
<1>1. exec[s] \in Executions /\ lock = s
  OBVIOUS
<1>2. TypeOK'
  OBVIOUS
<1>3. ASSUME NEW t \in Sources, exec'[t] # None
      PROVE  t # s /\ exec'[t] = exec[t] /\ exec[t] # exec[s]
  BY <1>3
<1>4. CallsInv'
  BY <1>3
<1>5. QED
  BY <1>2, <1>4

\* The steps that only move a call on.
LEMMA GoOnIInv ==
  ASSUME IInv, NEW s \in Sources, NEW from, NEW to \in {"preflight", "post", "accepted", "timeout"},
         from # "idle", GoOn(s, from, to), lock' = s, lock \in {s, Free},
         UNCHANGED <<adapter, rowVars, resultAge, importVars>>
  PROVE  IInv'
<1> USE Constants DEF IInv, TypeOK, CallsInv, GoOn, rowVars, importVars
<1>1. TypeOK'
  OBVIOUS
<1>2. CallsInv'
  OBVIOUS
<1>3. QED
  BY <1>1, <1>2

LEMMA EvaluateIInv ==
  ASSUME IInv, NEW s \in Sources, Evaluate(s) PROVE IInv'
<1> USE Constants DEF IInv, TypeOK, CallsInv, importVars
<1>1. PICK e \in Executions :
        /\ step[s] = "idle" /\ status[e] = "none"
        /\ createdAge' = [createdAge EXCEPT ![e] = 0]
        /\ UNCHANGED <<adapter, link, firedAge, lock, resultAge, importVars>>
        /\ \/ /\ status' = [status EXCEPT ![e] = "suppressed"]
              /\ UNCHANGED <<step, exec>>
           \/ /\ status' = [status EXCEPT ![e] = "pending"]
              /\ \/ /\ step' = [step EXCEPT ![s] = "call"]
                    /\ exec' = [exec EXCEPT ![s] = e]
                 \/ UNCHANGED <<step, exec>>
  BY Zenon DEF Evaluate
<1>2. TypeOK'
  BY <1>1
<1>3. \A t \in Sources : exec[t] # e
  BY <1>1
<1>4. \A t \in Sources : exec'[t] # None => exec'[t] = exec[t] \/ (t = s /\ exec'[t] = e)
  BY <1>1
<1>5. CallsInv'
  BY <1>1, <1>3, <1>4, CaptureAssumption
<1>6. QED
  BY <1>2, <1>5

LEMMA SourceStepIInv ==
  ASSUME IInv, NEW s \in Sources, SourceStep(s) PROVE IInv'
<1> USE Constants
<1>0. TypeOK /\ CallsInv
  BY DEF IInv
<1>1. step[s] = "call" => lock # s
  BY <1>0 DEF TypeOK
<1>2. step[s] \notin {"idle", "call"} => lock = s /\ exec[s] \in Executions
  BY <1>0 DEF TypeOK
<1>3. CASE Execute(s)
  BY <1>3, GoOnIInv DEF Execute
<1>4. CASE Preflight(s)
  BY <1>2, <1>4, GoOnIInv DEF Preflight, GoOn
<1>5. CASE Post(s)
  BY <1>2, <1>5, GoOnIInv DEF Post, GoOn
<1>6. CASE Suppress(s)
  BY <1>0, <1>2, <1>6, ReturnIInv DEF Suppress, TypeOK
<1>7. CASE PostFails(s)
  BY <1>0, <1>2, <1>7, ReturnIInv DEF PostFails, TypeOK
<1>8. CASE MarkFired(s)
  BY <1>0, <1>2, <1>8, ReturnIInv DEF MarkFired, TypeOK
<1>9. CASE MarkFails(s)
  <2>1. /\ status' \in {status, [status EXCEPT ![exec[s]] = "expired"], [status EXCEPT ![exec[s]] = "fired"]}
        /\ firedAge' \in {firedAge, [firedAge EXCEPT ![exec[s]] = 0]}
        /\ step[s] \in {"accepted", "timeout"}
    BY <1>9 DEF MarkFails
  <2>2. QED
    BY <1>0, <1>2, <1>9, <2>1, ReturnIInv DEF MarkFails, TypeOK
<1>10. QED
  BY <1>3, <1>4, <1>5, <1>6, <1>7, <1>8, <1>9 DEF SourceStep

\* The import and the expiry leave pending executions that are not stale alone.
LEMMA ImportIInv == ASSUME IInv, ImportStep PROVE IInv'
<1> USE Constants, ProducedCount DEF IInv, TypeOK, CallsInv, rowVars, sourceVars
<1>1. CASE SaveResults
  BY <1>1 DEF SaveResults, Produced
<1>2. CASE ReadFired
  BY <1>2 DEF ReadFired
<1>3. CASE Match
  <2>1. PICK e \in todo :
          /\ todo' = todo \ {e} /\ \E r \in BestResults(e) : Claim(e, r)
          /\ UNCHANGED <<adapter, createdAge, firedAge, sourceVars, resultAge, cached, importing>>
    BY <1>3, Zenon DEF Match
  <2>2. PICK r \in BestResults(e) : Claim(e, r)
    BY <2>1
  <2>3. e \in Executions /\ (r # None => r \in Results)
    BY <2>2 DEF BestResults, Nearest, InWindow
  <2>4. CASE r # None /\ status[e] = "fired"
    BY <2>1, <2>2, <2>3, <2>4 DEF Claim
  <2>5. CASE ~(r # None /\ status[e] = "fired")
    BY <2>1, <2>2, <2>3, <2>5 DEF Claim
  <2>6. QED
    BY <2>4, <2>5
<1>4. CASE ImportEnds \/ ImportFails
  BY <1>4 DEF ImportEnds, ImportFails
<1>5. QED
  BY <1>1, <1>2, <1>3, <1>4 DEF ImportStep

LEMMA ExpireIInv == ASSUME IInv, ExpireFired \/ ExpirePending PROVE IInv'
<1> USE Constants, CaptureAssumption DEF IInv, TypeOK, CallsInv, sourceVars, importVars
<1>1. PICK stale \in {StaleFired, StalePending} :
        /\ status' = [e \in Executions |-> IF e \in stale THEN "expired" ELSE status[e]]
        /\ UNCHANGED <<adapter, link, createdAge, firedAge, sourceVars, resultAge, importVars>>
  BY DEF ExpireFired, ExpirePending, Expire
<1>2. \A s \in Sources : exec[s] # None => exec[s] \notin stale
  BY DEF StaleFired, StalePending
<1>3. TypeOK'
  BY <1>1
<1>4. CallsInv'
  BY <1>1, <1>2
<1>5. QED
  BY <1>3, <1>4

LEMMA TickIInv == ASSUME IInv, Tick PROVE IInv'
<1> USE Constants, OlderAge DEF IInv, TypeOK, CallsInv, sourceVars, importVars
<1>1. TypeOK'
  BY DEF Tick
<1>2. ASSUME NEW s \in Sources, exec[s] # None
      PROVE  createdAge'[exec[s]] \in 0..ExpireAfter
  <2>1. exec[s] \in Executions /\ createdAge[exec[s]] \in 0..(ExpireAfter - 1)
    BY <1>2 DEF Tick, Busy
  <2>2. createdAge'[exec[s]] = createdAge[exec[s]] + 1
    BY <2>1 DEF Tick, Older, Never
  <2>3. QED
    BY <2>1, <2>2
<1>3. CallsInv'
  BY <1>2 DEF Tick
<1>4. QED
  BY <1>1, <1>3

LEMMA NextIInv == IInv /\ [Next]_vars => IInv'
<1> SUFFICES ASSUME IInv, [Next]_vars PROVE IInv'
  OBVIOUS
<1>1. CASE Produce
  BY <1>1, Constants
     DEF Produce, IInv, TypeOK, CallsInv, rowVars, sourceVars, importVars
<1>2. CASE Crash
  BY <1>2, Constants DEF Crash, IInv, TypeOK, CallsInv, rowVars
<1>3. CASE UNCHANGED vars
  BY <1>3 DEF vars, IInv, TypeOK, CallsInv, rowVars, sourceVars, importVars
<1>4. QED
  BY <1>1, <1>2, <1>3, EvaluateIInv, SourceStepIInv, ImportIInv, ExpireIInv, TickIInv DEF Next

LEMMA IInvAlways == Spec => []IInv
  BY InitIInv, NextIInv, PTL DEF Spec

\* Every variable keeps its type: exactly the source in the adapter holds its lock.
THEOREM Typing == Spec => []TypeOK
<1>1. IInv => TypeOK
  BY DEF IInv
<1>2. QED
  BY IInvAlways, <1>1, PTL

---------------------------------------------------------------------------
\* The table keeps the safety part of ExecutionLifecycle: an execution goes
\* forward one step at a time and a final status is final, whatever expiry, the
\* import, failed updates and crashes do at once.
THEOREM ForwardOnly == Spec => Table!LifecycleInit /\ [][Table!LifecycleNext]_status
<1>1. Init => Table!LifecycleInit
  BY DEF Init, Table!LifecycleInit
<1>2. IInv /\ [Next]_vars => [Table!LifecycleNext]_status
  <2> SUFFICES ASSUME IInv, [Next]_vars, status' # status
               PROVE  /\ TypeOK'
                      /\ \A e \in Executions :
                           status'[e] # status[e] => <<status[e], status'[e]>> \in Table!Steps
    BY DEF Table!LifecycleNext, Table!Final, TypeOK
  <2> USE DEF IInv, TypeOK, CallsInv, Table!Steps
  <2>1. TypeOK'
    BY NextIInv
  <2>2. CASE \E s \in Sources : Evaluate(s)
    <3>1. PICK s \in Sources, e \in Executions :
            /\ status[e] = "none"
            /\ status' \in {[status EXCEPT ![e] = "pending"], [status EXCEPT ![e] = "suppressed"]}
      BY <2>2 DEF Evaluate
    <3>2. QED
      BY <2>1, <3>1
  <2>3. CASE \E s \in Sources : SourceStep(s)
    <3>1. PICK s \in Sources :
            /\ step[s] # "idle"
            /\ status' \in {[status EXCEPT ![exec[s]] = "suppressed"],
                            [status EXCEPT ![exec[s]] = "fired"],
                            [status EXCEPT ![exec[s]] = "expired"]}
      BY <2>3 DEF SourceStep, Execute, Preflight, Post, GoOn, Suppress, PostFails,
                  MarkFired, MarkFails, rowVars
    <3>2. exec[s] \in Executions /\ status[exec[s]] = "pending"
      BY <3>1
    <3>3. QED
      BY <2>1, <3>1, <3>2
  <2>4. CASE ImportStep
    <3>1. PICK e \in Executions : status[e] = "fired" /\ status' = [status EXCEPT ![e] = "completed"]
      BY <2>4 DEF ImportStep, SaveResults, ReadFired, Match, ImportEnds, ImportFails, Claim, rowVars
    <3>2. QED
      BY <2>1, <3>1
  <2>5. CASE ExpireFired \/ ExpirePending
    BY <2>1, <2>5 DEF ExpireFired, ExpirePending, Expire, StaleFired, StalePending
  <2>6. QED
    BY <2>2, <2>3, <2>4, <2>5 DEF Next, Produce, Crash, Tick, vars, rowVars
<1>3. QED
  BY IInvAlways, <1>1, <1>2, PTL DEF Spec

---------------------------------------------------------------------------
\* Only executions past pending have a time of fire, and a call past its
\* preflight is still within both limits: no other call can fire meanwhile.
Distant(f, s) == MinInterval = 0 \/ firedAge[f] - createdAge[exec[s]] >= MinInterval

LimitsInv ==
  /\ \A e \in Fired : status[e] \notin {"none", "pending"}
  /\ \A s \in Sources : step[s] \in {"post", "accepted", "timeout"} =>
       ~CapReached(s) /\ \A f \in Fired : Distant(f, s)

FullInv == IInv /\ LimitsInv /\ RunsAreSpaced /\ DailyCapHolds

LEMMA InitFull == Init => FullInv
<1> SUFFICES ASSUME Init PROVE FullInv
  OBVIOUS
<1>1. Fired = {}
  BY DEF Init, Fired
<1>2. LimitsInv /\ RunsAreSpaced /\ DailyCapHolds
  BY <1>1, Constants DEF Init, LimitsInv, RunsAreSpaced, DailyCapHolds
<1>3. QED
  BY <1>2, InitIInv DEF FullInv

\* A step that leaves the times and the calls past their preflight as they were.
LEMMA SameLimits ==
  ASSUME IInv, FullInv, IInv', firedAge' = firedAge,
         \A e \in Fired : status'[e] \notin {"none", "pending"},
         \A s \in Sources : step'[s] \in {"post", "accepted", "timeout"} =>
           /\ step[s] \in {"post", "accepted", "timeout"}
           /\ exec'[s] = exec[s] /\ createdAge'[exec[s]] = createdAge[exec[s]]
  PROVE  FullInv'
<1>1. Fired' = Fired
  BY DEF Fired
<1>2. LimitsInv'
  BY <1>1 DEF FullInv, LimitsInv, CapReached, Distant
<1>3. RunsAreSpaced' /\ DailyCapHolds'
  BY <1>1 DEF FullInv, RunsAreSpaced, DailyCapHolds
<1>4. QED
  BY <1>2, <1>3 DEF FullInv

\* The calls' executions keep their status when a call, not their own, ends.
LEMMA PreflightFull ==
  ASSUME FullInv, IInv', NEW s \in Sources, Preflight(s) PROVE FullInv'
<1> USE DEF FullInv, IInv, TypeOK
<1>1. Fired' = Fired /\ firedAge' = firedAge /\ createdAge' = createdAge /\ exec' = exec /\ status' = status
  BY DEF Preflight, GoOn, Fired, rowVars
<1>2. step' = [step EXCEPT ![s] = "post"] /\ ~CapReached(s) /\ ~FireIsRecent(s)
  BY DEF Preflight, GoOn
<1>3. \A f \in Fired : Distant(f, s)
  <2>1. exec[s] \in Executions /\ createdAge[exec[s]] \in Int
    BY DEF Preflight, GoOn, CallsInv
  <2>2. ASSUME NEW f \in Fired, MinInterval # 0
        PROVE  firedAge[f] - createdAge[exec[s]] >= MinInterval
    <3>1. firedAge[f] \in Int /\ firedAge[f] # Never
      BY DEF Fired, Ages, Never, Horizon
    <3>2. ~(firedAge[f] - createdAge[exec[s]] < MinInterval)
      BY <1>2, <2>2, <3>1, CaptureAssumption DEF FireIsRecent, Recent
    <3>3. QED
      BY <2>1, <3>1, <3>2, CaptureAssumption
  <2>3. QED
    BY <2>2 DEF Distant
<1>4. LimitsInv'
  <2>1. \A e \in Fired' : status'[e] \notin {"none", "pending"}
    BY <1>1 DEF LimitsInv
  <2>2. ASSUME NEW c \in Sources, step'[c] \in {"post", "accepted", "timeout"}
        PROVE  ~CapReached(c) /\ \A f \in Fired : Distant(f, c)
    BY <1>2, <1>3, <2>2 DEF LimitsInv
  <2>3. \A c \in Sources : CapReached(c)' = CapReached(c)
    BY <1>1 DEF CapReached
  <2>4. \A c \in Sources : \A f \in Fired : Distant(f, c)' = Distant(f, c)
    BY <1>1 DEF Distant
  <2>5. QED
    BY ONLY <1>1, <2>1, <2>2, <2>3, <2>4 DEF LimitsInv
<1>5. RunsAreSpaced' /\ DailyCapHolds'
  BY <1>1 DEF RunsAreSpaced, DailyCapHolds
<1>6. QED
  BY <1>4, <1>5

\* A fire: the other runs are distant enough, and with it at most the cap.
LEMMA FireFull ==
  ASSUME FullInv, IInv', NEW s \in Sources, step[s] \in {"accepted", "timeout"},
         Return(s), createdAge' = createdAge,
         status'[exec[s]] \notin {"none", "pending"},
         \A e \in Executions : e # exec[s] => status'[e] = status[e],
         firedAge' = [firedAge EXCEPT ![exec[s]] = 0]
  PROVE  FullInv'
<1> USE Constants, CaptureAssumption DEF FullInv, IInv, TypeOK
<1> DEFINE e == exec[s]
           recent == {f \in Fired : firedAge[f] <= createdAge[e] + Day}
<1>1. e \in Executions /\ status[e] = "pending" /\ createdAge[e] \in 0..ExpireAfter
  BY DEF CallsInv
<1>2. e \notin Fired /\ Fired' = Fired \cup {e}
  BY <1>1 DEF LimitsInv, Fired, Never
<1>3. \A f \in Fired : firedAge'[f] = firedAge[f] /\ firedAge[f] \in 0..Horizon
  BY <1>1, <1>2 DEF Fired, Ages, Never, Horizon
<1>4. \A f \in Fired : firedAge[f] >= MinInterval
  BY <1>1, <1>3 DEF LimitsInv, Distant
<1>5. RunsAreSpaced'
  <2> SUFFICES ASSUME NEW f \in Fired', NEW g \in Fired', f # g, firedAge'[f] = 0
               PROVE  firedAge'[g] >= MinInterval
    BY DEF RunsAreSpaced
  <2>1. CASE g \in Fired
    BY <1>3, <1>4, <2>1
  <2>2. CASE g = e
    <3>1. f \in Fired
      BY <1>2, <2>2
    <3>2. 0 >= MinInterval
      BY <1>3, <1>4, <3>1
    <3>3. QED
      BY <1>1, <2>2, <3>2
  <2>3. QED
    BY <1>2, <2>1, <2>2
<1>6. IsFiniteSet(recent) /\ Cardinality(recent) \in Nat /\ Cardinality(recent) < DailyCap
  <2>1. IsFiniteSet(Executions)
    BY FS_Interval DEF Executions
  <2>2. IsFiniteSet(recent)
    BY <2>1, FS_Subset DEF Fired
  <2>3. ~(Cardinality(recent) >= DailyCap)
    BY DEF LimitsInv, CapReached
  <2>4. Cardinality(recent) \in Nat
    BY <2>2, FS_CardinalityType
  <2> HIDE DEF recent
  <2>5. QED
    BY <2>2, <2>3, <2>4
<1>7. DailyCapHolds'
  <2>1. {f \in Fired' : firedAge'[f] <= Day} \subseteq recent \cup {e}
    BY <1>1, <1>2, <1>3
  <2> HIDE DEF recent
  <2>2. IsFiniteSet(recent \cup {e}) /\ Cardinality(recent \cup {e}) <= DailyCap
    <3> HIDE DEF e
    <3>1. /\ IsFiniteSet(recent \cup {e})
          /\ Cardinality(recent \cup {e}) \in {Cardinality(recent), Cardinality(recent) + 1}
      BY <1>6, FS_AddElement
    <3>2. QED
      BY <1>6, <3>1
  <2>3. Cardinality({f \in Fired' : firedAge'[f] <= Day}) <= Cardinality(recent \cup {e})
    BY <2>1, <2>2, FS_Subset
  <2>4. /\ Cardinality({f \in Fired' : firedAge'[f] <= Day}) \in Nat
        /\ Cardinality(recent \cup {e}) \in Nat
    BY <2>1, <2>2, FS_Subset, FS_CardinalityType
  <2>5. Cardinality({f \in Fired' : firedAge'[f] <= Day}) <= DailyCap
    BY <2>2, <2>3, <2>4
  <2>6. QED
    BY <2>5 DEF DailyCapHolds
<1>8. LimitsInv'
  <2>1. \A t \in Sources : step'[t] \notin {"post", "accepted", "timeout"}
    BY DEF Return
  <2>2. \A f \in Fired' : status'[f] \notin {"none", "pending"}
    BY <1>2 DEF LimitsInv, Fired
  <2>3. QED
    BY <2>1, <2>2 DEF LimitsInv
<1>9. QED
  BY <1>5, <1>7, <1>8

\* Time passes: no age is 0 after it, and a call's distances stay as they are.
LEMMA TickFull == ASSUME FullInv, IInv', Tick PROVE FullInv'
<1> USE Constants, CaptureAssumption DEF FullInv, IInv, TypeOK
<1>1. Fired' = Fired /\ \A f \in Fired : /\ firedAge[f] \in 0..Horizon
                                         /\ firedAge'[f] = IF firedAge[f] = Horizon THEN Horizon ELSE firedAge[f] + 1
  BY DEF Tick, Fired, Older, Ages, Never, Horizon
<1>2. \A f \in Fired : firedAge'[f] # 0
  BY <1>1
<1>3. RunsAreSpaced' /\ DailyCapHolds'
  BY <1>1, <1>2 DEF RunsAreSpaced, DailyCapHolds
<1>4. ASSUME NEW s \in Sources, step'[s] \in {"post", "accepted", "timeout"}
      PROVE  (~CapReached(s))' /\ \A f \in Fired' : Distant(f, s)'
  <2>1. /\ step' = step /\ exec' = exec
        /\ exec[s] \in Executions /\ createdAge[exec[s]] \in 0..(ExpireAfter - 1)
        /\ createdAge'[exec[s]] = createdAge[exec[s]] + 1
    BY <1>4 DEF Tick, Busy, sourceVars, CallsInv, Older, Never
  <2>2. ~CapReached(s) /\ \A f \in Fired : Distant(f, s)
    BY <1>4, <2>1 DEF LimitsInv
  <2>3. {f \in Fired' : firedAge'[f] <= createdAge'[exec'[s]] + Day}
          = {f \in Fired : firedAge[f] <= createdAge[exec[s]] + Day}
    BY <1>1, <2>1 DEF Horizon
  <2>4. (~CapReached(s))'
    BY <2>2, <2>3 DEF CapReached
  <2>5. ASSUME NEW f \in Fired PROVE Distant(f, s)'
    BY <1>1, <2>1, <2>2, <2>5 DEF Distant, Horizon
  <2>6. QED
    BY <1>1, <2>4, <2>5
<1>5. LimitsInv'
  BY <1>1, <1>4 DEF LimitsInv, Tick
<1>6. QED
  BY <1>3, <1>5

\* A call that ends without a fire, and the other steps, keep all times.
LEMMA QuietReturnFull ==
  ASSUME FullInv, IInv', NEW s \in Sources, step[s] \notin {"idle", "call"}, Return(s),
         createdAge' = createdAge, firedAge' = firedAge,
         status' = status \/ status'[exec[s]] \notin {"none", "pending"},
         \A e \in Executions : e # exec[s] => status'[e] = status[e]
  PROVE  FullInv'
<1>1. \A e \in Fired : e \in Executions /\ status[e] \notin {"none", "pending"}
  BY DEF FullInv, LimitsInv, Fired
<1>2. \A e \in Fired : status'[e] \notin {"none", "pending"}
  BY <1>1
<1>3. \A t \in Sources : step'[t] \in {"post", "accepted", "timeout"} =>
        step[t] \in {"post", "accepted", "timeout"} /\ exec'[t] = exec[t]
  BY DEF Return, FullInv, IInv, TypeOK
<1>4. QED
  BY <1>2, <1>3, SameLimits DEF FullInv

LEMMA SourceStepFull ==
  ASSUME FullInv, IInv', NEW s \in Sources, SourceStep(s) PROVE FullInv'
<1>0. TypeOK /\ CallsInv /\ LimitsInv
  BY DEF FullInv, IInv
<1>1. step[s] \notin {"idle", "call"} => exec[s] \in Executions /\ status[exec[s]] = "pending"
  BY <1>0 DEF TypeOK, CallsInv
<1>2. CASE Execute(s) \/ Post(s)
  <2>1. /\ UNCHANGED <<firedAge, createdAge, exec, status>>
        /\ \A t \in Sources : step'[t] \in {"post", "accepted", "timeout"} =>
             step[t] \in {"post", "accepted", "timeout"}
    BY <1>0, <1>2 DEF Execute, Post, GoOn, rowVars, TypeOK
  <2>2. QED
    BY <1>0, <2>1, SameLimits DEF FullInv, LimitsInv
<1>3. CASE Preflight(s)
  BY <1>3, PreflightFull
<1>4. CASE Suppress(s)
  BY <1>0, <1>1, <1>4, QuietReturnFull DEF Suppress, TypeOK
<1>5. CASE PostFails(s)
  BY <1>0, <1>1, <1>5, QuietReturnFull DEF PostFails, TypeOK
<1>6. CASE MarkFired(s)
  BY <1>0, <1>1, <1>6, FireFull DEF MarkFired, TypeOK
<1>7. CASE MarkFails(s)
  <2>1. CASE firedAge' = firedAge
    BY <1>0, <1>1, <1>7, <2>1, QuietReturnFull DEF MarkFails, TypeOK
  <2>2. CASE firedAge' = [firedAge EXCEPT ![exec[s]] = 0] /\ firedAge' # firedAge
    BY <1>0, <1>1, <1>7, <2>2, FireFull DEF MarkFails, TypeOK
  <2>3. QED
    BY <1>7, <2>1, <2>2 DEF MarkFails
<1>8. QED
  BY <1>2, <1>3, <1>4, <1>5, <1>6, <1>7 DEF SourceStep

LEMMA NextFull == FullInv /\ [Next]_vars => FullInv'
<1> SUFFICES ASSUME FullInv, [Next]_vars PROVE FullInv'
  OBVIOUS
<1>0. IInv' /\ TypeOK /\ CallsInv /\ LimitsInv
  BY NextIInv DEF FullInv, IInv
<1>1. CASE \E s \in Sources : Evaluate(s)
  <2>1. PICK s \in Sources, e \in Executions :
          /\ step[s] = "idle" /\ status[e] = "none"
          /\ createdAge' = [createdAge EXCEPT ![e] = 0] /\ firedAge' = firedAge
          /\ status' \in {[status EXCEPT ![e] = "suppressed"], [status EXCEPT ![e] = "pending"]}
          /\ \/ UNCHANGED <<step, exec>>
             \/ /\ step' = [step EXCEPT ![s] = "call"]
                /\ exec' = [exec EXCEPT ![s] = e]
    BY <1>1 DEF Evaluate
  <2>2. e \notin Fired /\ Fired \subseteq Executions
    BY <1>0, <2>1 DEF LimitsInv, Fired
  <2>3. \A t \in Sources : step'[t] \in {"post", "accepted", "timeout"} =>
          /\ step[t] \in {"post", "accepted", "timeout"}
          /\ exec'[t] = exec[t] /\ exec[t] # e /\ createdAge'[exec[t]] = createdAge[exec[t]]
    BY <1>0, <2>1, Constants DEF TypeOK, CallsInv
  <2>4. \A f \in Fired : status'[f] \notin {"none", "pending"}
    BY <1>0, <2>1, <2>2 DEF LimitsInv, TypeOK
  <2>5. QED
    BY <1>0, <2>1, <2>3, <2>4, SameLimits DEF FullInv
<1>2. CASE \E s \in Sources : SourceStep(s)
  BY <1>0, <1>2, SourceStepFull
<1>3. CASE Produce \/ ImportStep \/ ExpireFired \/ ExpirePending \/ UNCHANGED vars
  <2>1. UNCHANGED <<firedAge, createdAge, exec, step>>
    BY <1>3 DEF Produce, ImportStep, SaveResults, ReadFired, Match, ImportEnds, ImportFails,
                ExpireFired, ExpirePending, Expire, vars, rowVars, sourceVars
  <2>2. \A e \in Executions : status'[e] \in {status[e], "completed", "expired"}
    BY <1>0, <1>3 DEF Produce, ImportStep, SaveResults, ReadFired, Match, ImportEnds, ImportFails,
                Claim, ExpireFired, ExpirePending, Expire, vars, rowVars, TypeOK
  <2>3. \A e \in Fired : status'[e] \notin {"none", "pending"}
    BY <1>0, <2>2 DEF LimitsInv, Fired
  <2>4. QED
    BY <1>0, <2>1, <2>3, SameLimits DEF FullInv
<1>4. CASE Crash
  <2>1. /\ UNCHANGED <<firedAge, createdAge, status>>
        /\ \A t \in Sources : step'[t] = "idle"
    BY <1>4 DEF Crash, rowVars
  <2>2. QED
    BY <1>0, <2>1, SameLimits DEF FullInv, LimitsInv
<1>5. CASE Tick
  BY <1>0, <1>5, TickFull
<1>6. QED
  BY <1>1, <1>2, <1>3, <1>4, <1>5 DEF Next

\* Recorded runs keep the minimum interval and the daily cap, however the calls
\* of the two sources, failures and restarts interleave.
THEOREM LimitsHold == Spec => []LimitsOnRuns
<1>1. FullInv => LimitsOnRuns
  BY DEF FullInv, LimitsOnRuns
<1>2. QED
  BY InitFull, NextFull, <1>1, PTL DEF Spec

---------------------------------------------------------------------------
\* A linked result is in the cache and has left the batch; the tracker's results
\* have consecutive ids, the first ones cached.
LinkOf(e) == link[e] \in 1..cached /\ link[e] \notin batch

LinksInv ==
  /\ LinksAreSound
  /\ \A e \in Executions : link[e] # None => LinkOf(e)
  /\ batch \subseteq 1..cached
  /\ \E n \in 0..MaxResults : Produced = 1..n /\ cached <= n

LinkedInv == IInv /\ LinksInv

LEMMA InitLinked == Init => LinkedInv
<1> SUFFICES ASSUME Init PROVE LinkedInv
  OBVIOUS
<1>1. Produced = 1..0
  BY DEF Init, Produced
<1>2. LinksInv
  BY <1>1, Constants DEF Init, LinksInv, LinksAreSound
<1>3. QED
  BY <1>2, InitIInv DEF LinkedInv

\* A step that leaves the links and what they stand on as they were.
LEMMA SameLinks ==
  ASSUME LinkedInv, IInv', link' = link, resultAge' = resultAge, cached' = cached,
         batch' \in {batch, {}},
         \A e \in Executions : status[e] = "completed" =>
           status'[e] = "completed" /\ firedAge'[e] = firedAge[e]
  PROVE  LinkedInv'
<1>1. Produced' = Produced
  BY DEF Produced
<1>2. LinksAreSound'
  BY DEF LinkedInv, LinksInv, LinksAreSound
<1>3. QED
  BY <1>1, <1>2 DEF LinkedInv, LinksInv, LinkOf

\* The adapter calls work on pending executions, which have no link.
LEMMA SourceLinked ==
  ASSUME LinkedInv, IInv', NEW s \in Sources, Evaluate(s) \/ SourceStep(s) PROVE LinkedInv'
<1>0. TypeOK /\ CallsInv
  BY DEF LinkedInv, IInv
<1>1. UNCHANGED <<link, resultAge, cached, batch>>
  BY DEF Evaluate, SourceStep, Execute, Suppress, Preflight, Post, PostFails, MarkFired, MarkFails,
         rowVars, importVars
<1>2. CASE Evaluate(s)
  <2>1. PICK e \in Executions :
          /\ status[e] = "none" /\ firedAge' = firedAge
          /\ status' \in {[status EXCEPT ![e] = "suppressed"], [status EXCEPT ![e] = "pending"]}
    BY <1>2 DEF Evaluate
  <2>2. QED
    BY <1>0, <1>1, <2>1, SameLinks DEF TypeOK
<1>3. CASE SourceStep(s)
  <2>1. \/ UNCHANGED <<status, firedAge>>
        \/ /\ exec[s] \in Executions /\ status[exec[s]] = "pending"
           /\ status' \in {status, [status EXCEPT ![exec[s]] = "suppressed"],
                           [status EXCEPT ![exec[s]] = "fired"], [status EXCEPT ![exec[s]] = "expired"]}
           /\ firedAge' \in {firedAge, [firedAge EXCEPT ![exec[s]] = 0]}
    BY <1>0, <1>3 DEF SourceStep, Execute, Suppress, Preflight, Post, PostFails, MarkFired, MarkFails,
                      rowVars, TypeOK, CallsInv
  <2>2. QED
    BY <1>0, <1>1, <2>1, SameLinks DEF TypeOK
<1>4. QED
  BY <1>2, <1>3

\* The results past the cache are those no execution is linked to.
LEMMA SaveLinked == ASSUME LinkedInv, IInv', SaveResults PROVE LinkedInv'
<1>0. TypeOK /\ LinksInv
  BY DEF LinkedInv, IInv
<1>1. PICK n \in 0..MaxResults : Produced = 1..n /\ cached <= n
  BY <1>0 DEF LinksInv
<1>2. Cardinality(Produced) = n
  BY <1>1, FS_Interval, CaptureAssumption
<1>3. /\ cached' = n /\ batch' \in {batch, (1..n) \ 1..cached}
      /\ UNCHANGED <<status, link, firedAge, resultAge>>
  BY <1>1, <1>2 DEF SaveResults, rowVars
<1>4. Produced' = 1..n
  BY <1>1, <1>3 DEF Produced
<1>5. LinksAreSound'
  BY <1>0, <1>3 DEF LinksInv, LinksAreSound
<1>6. \A e \in Executions : link'[e] # None => LinkOf(e)'
  BY <1>0, <1>1, <1>3 DEF LinksInv, LinkOf, TypeOK
<1>7. batch' \subseteq 1..cached'
  BY <1>0, <1>1, <1>3 DEF LinksInv, TypeOK
<1>8. \E k \in 0..MaxResults : Produced' = 1..k /\ cached' <= k
  BY <1>3, <1>4
<1>9. QED
  BY <1>5, <1>6, <1>7, <1>8 DEF LinkedInv, LinksInv

\* A claim takes its result out of the batch, so that no later one finds it.
LEMMA MatchLinked == ASSUME LinkedInv, IInv', Match PROVE LinkedInv'
<1>0. TypeOK /\ LinksInv
  BY DEF LinkedInv, IInv
<1>1. PICK e \in todo :
        (\E r \in BestResults(e) : Claim(e, r)) /\ UNCHANGED <<firedAge, resultAge, cached>>
  BY Zenon DEF Match
<1>2. PICK r \in BestResults(e) : e \in Executions /\ Claim(e, r)
  BY <1>0, <1>1 DEF TypeOK
<1>3. CASE r # None /\ status[e] = "fired"
  <2>1. /\ status' = [status EXCEPT ![e] = "completed"]
        /\ link' = [link EXCEPT ![e] = r] /\ batch' = batch \ {r}
    BY <1>2, <1>3 DEF Claim
  <2>2. r \in batch /\ (firedAge[e] < Horizon => firedAge[e] - resultAge[r] \in 0..Window)
    BY <1>0, <1>2, <1>3 DEF BestResults, Nearest, InWindow, TypeOK, Ages, Horizon, Never
  <2>3. link[e] = None /\ \A f \in Executions : link[f] # r
    BY <1>0, <1>2, <1>3, <2>2 DEF LinksInv, LinksAreSound, LinkOf
  <2>4. \A f \in Executions : /\ link'[f] = IF f = e THEN r ELSE link[f]
                              /\ status'[f] = IF f = e THEN "completed" ELSE status[f]
    BY <1>0, <1>2, <2>1 DEF TypeOK
  <2>5. LinksAreSound'
    BY <1>0, <1>1, <2>2, <2>3, <2>4 DEF LinksInv, LinksAreSound
  <2>6. \A f \in Executions : link'[f] # None => LinkOf(f)'
    BY <1>0, <1>1, <2>1, <2>2, <2>4 DEF LinksInv, LinkOf
  <2>7. Produced' = Produced
    BY <1>1 DEF Produced
  <2>8. QED
    BY <1>0, <1>1, <2>1, <2>5, <2>6, <2>7 DEF LinkedInv, LinksInv
<1>4. CASE ~(r # None /\ status[e] = "fired")
  BY <1>1, <1>2, <1>4, SameLinks DEF Claim
<1>5. QED
  BY <1>3, <1>4

\* A new result has the next id; nothing cached changes its age.
LEMMA ProduceLinked == ASSUME LinkedInv, IInv', Produce PROVE LinkedInv'
<1>0. TypeOK /\ LinksInv
  BY DEF LinkedInv, IInv
<1>1. PICK r \in Results, age \in {0, 1} :
        Produced = 1..(r - 1) /\ resultAge' = [resultAge EXCEPT ![r] = age]
  BY DEF Produce
<1>2. UNCHANGED <<status, link, firedAge, cached, batch>>
  BY DEF Produce, rowVars, importVars
<1>3. PICK n \in 0..MaxResults : Produced = 1..n /\ cached <= n
  BY <1>0 DEF LinksInv
<1>4. r - 1 \in 0..MaxResults /\ r \in 1..MaxResults /\ cached \in 0..MaxResults
  BY <1>0, CaptureAssumption DEF TypeOK, Results
<1>5. n = r - 1
  <2>1. r \notin 1..n
    BY <1>1, <1>3, <1>4
  <2>2. r - 1 = 0 \/ r - 1 \in 1..n
    BY <1>1, <1>3, <1>4
  <2>3. n = 0 \/ n \in 1..(r - 1)
    BY <1>1, <1>3, <1>4
  <2>4. QED
    BY <1>3, <1>4, <2>1, <2>2, <2>3
<1>6. Produced' = 1..r
  BY <1>0, <1>1, <1>4 DEF Produced, TypeOK, Results, Never
<1>7. \A q \in 1..cached : resultAge'[q] = resultAge[q]
  BY <1>0, <1>1, <1>3, <1>4, <1>5 DEF TypeOK, Results
<1>8. LinksAreSound'
  BY <1>0, <1>2, <1>7 DEF LinksInv, LinksAreSound, LinkOf
<1>9. QED
  BY <1>0, <1>2, <1>3, <1>4, <1>5, <1>6, <1>8 DEF LinkedInv, LinksInv, LinkOf

\* Time moves a run and its result together.
LEMMA TickLinked == ASSUME LinkedInv, IInv', Tick PROVE LinkedInv'
<1>0. TypeOK /\ LinksInv
  BY DEF LinkedInv, IInv
<1>1. UNCHANGED <<status, link, cached, batch>>
  BY DEF Tick, importVars
<1>2. Produced' = Produced
  BY <1>0, Constants DEF Tick, Produced, Older, TypeOK, Ages, Never
<1>3. ASSUME NEW e \in Executions, link[e] # None, firedAge'[e] < Horizon
      PROVE  firedAge'[e] - resultAge'[link[e]] \in 0..Window
  <2>1. link[e] \in Results /\ resultAge[link[e]] \in 0..Horizon
    BY <1>0, <1>3, Constants DEF TypeOK, LinksInv, LinkOf, Produced, Ages, Never
  <2>2. firedAge[e] \in Ages /\ firedAge'[e] = Older(firedAge[e]) /\ resultAge'[link[e]] = Older(resultAge[link[e]])
    BY <1>0, <2>1 DEF TypeOK, Tick
  <2>3. firedAge[e] < Horizon
    BY <1>3, <2>2, Constants DEF Older, Ages, Never
  <2>4. firedAge[e] - resultAge[link[e]] \in 0..Window
    BY <1>0, <1>3, <2>3 DEF LinksInv, LinksAreSound
  <2>5. QED
    BY <2>1, <2>2, <2>3, <2>4, Constants, CaptureAssumption DEF Older, Ages, Never
<1>4. LinksAreSound'
  BY <1>0, <1>1, <1>3 DEF LinksInv, LinksAreSound
<1>5. QED
  BY <1>0, <1>1, <1>2, <1>4 DEF LinkedInv, LinksInv, LinkOf

LEMMA NextLinked == LinkedInv /\ [Next]_vars => LinkedInv'
<1> SUFFICES ASSUME LinkedInv, [Next]_vars PROVE LinkedInv'
  OBVIOUS
<1>0. IInv' /\ TypeOK
  BY NextIInv DEF LinkedInv, IInv
<1>1. CASE \E s \in Sources : Evaluate(s) \/ SourceStep(s)
  BY <1>0, <1>1, SourceLinked
<1>2. CASE ExpireFired \/ ExpirePending
  BY <1>0, <1>2, SameLinks DEF ExpireFired, ExpirePending, Expire, StaleFired, StalePending, importVars, TypeOK
<1>3. CASE ReadFired \/ ImportEnds \/ ImportFails \/ Crash \/ UNCHANGED vars
  BY <1>0, <1>3, SameLinks DEF ReadFired, ImportEnds, ImportFails, Crash, vars, rowVars, importVars
<1>4. QED
  BY <1>0, <1>1, <1>2, <1>3, SaveLinked, MatchLinked, ProduceLinked, TickLinked DEF Next, ImportStep

\* A result is linked to one execution at most, whose window it is in, through
\* imports that fail half way, restarts and the race of expiry and claim.
THEOREM LinksStaySound == Spec => []LinksAreSound
<1>1. LinkedInv => LinksAreSound
  BY DEF LinkedInv, LinksInv
<1>2. QED
  BY InitLinked, NextLinked, <1>1, PTL DEF Spec
=============================================================================
