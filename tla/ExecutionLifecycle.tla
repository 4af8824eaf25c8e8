------------------------ MODULE ExecutionLifecycle ------------------------
(***************************************************************************)
(* What the table smart_capture_executions promises its readers: every     *)
(* execution goes forward along the statuses of ExecutionStatus            *)
(* (app/smart_capture/types.py), a final status is final, and each         *)
(* execution reaches one.                                                  *)
(***************************************************************************)
CONSTANT Executions

VARIABLE status

Steps ==
  { <<"none", "pending">>, <<"none", "suppressed">>,
    <<"pending", "fired">>, <<"pending", "suppressed">>, <<"pending", "expired">>,
    <<"fired", "completed">>, <<"fired", "expired">> }

Final == {"completed", "suppressed", "expired"}

LifecycleInit == status = [e \in Executions |-> "none"]

\* One transaction may move several executions, each by one step.
LifecycleNext ==
  /\ status' \in [Executions -> {"none", "pending", "fired"} \cup Final]
  /\ \A e \in Executions :
       status'[e] # status[e] => <<status[e], status'[e]>> \in Steps

Ends == \A e \in Executions : (status[e] # "none") ~> (status[e] \in Final)

LifecycleSpec == LifecycleInit /\ [][LifecycleNext]_status /\ Ends
=============================================================================
