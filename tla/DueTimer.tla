------------------------------ MODULE DueTimer ------------------------------
(***************************************************************************)
(* What a collector's scheduler promises the polling loop, and all that    *)
(* module PollScheduler knows of it: a collector is due at first, every    *)
(* recorded run ends its being due, and waiting makes it due again.  The   *)
(* promise holds while the wall clock is steady, that is never set back.   *)
(***************************************************************************)
VARIABLES due, running, steady

dueVars == <<due, running, steady>>

DueInit == due = TRUE /\ running = FALSE /\ steady = TRUE

BecomeDue == ~due /\ due' = TRUE /\ UNCHANGED running
Start     == due /\ ~running /\ running' = TRUE /\ UNCHANGED due
Record    == running /\ running' = FALSE /\ due' = FALSE

Keep(A) == steady /\ steady' = TRUE /\ A

DueNext ==
  \/ Keep(BecomeDue) \/ Keep(Start) \/ Keep(Record)
  \/ steady' = FALSE

DueSpec == DueInit /\ [][DueNext]_dueVars /\ WF_dueVars(Keep(BecomeDue))
=============================================================================
