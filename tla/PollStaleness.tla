--------------------------- MODULE PollStaleness ---------------------------
(***************************************************************************)
(* PollScheduler with one history variable, to say what the dashboard may  *)
(* show after a driver hot-swap.  RuntimeState has no notion of which      *)
(* driver wrote it: a run of the replaced driver that is still in flight   *)
(* when reset_modem_state() clears the fields writes them again.           *)
(***************************************************************************)
EXTENDS PollScheduler

VARIABLE survivors  \* replaced collectors with a run pending at the last reset

\* A run of g in the loop's books, or a web thread that has already read g.
Pending(g) == fut[g] # "none" \/ \E r \in Requests : target[r] = g

SurvivorsInit == survivors = {}

SurvivorsNext ==
  survivors' = IF loop = "reset" /\ loop' = "submit"
               THEN {g \in Gens \ {rtModem} : Pending(g)}
               ELSE survivors

HInit == Init /\ SurvivorsInit
HNext == Next /\ SurvivorsNext
HSpec == HInit /\ [][HNext]_<<vars, survivors>>

\* After a hot-swap has reset the modem state, every field the dashboard shows
\* (device, analysis, error) comes from the installed driver or from a run that
\* was already under way at the reset: no replaced driver is shown without one.
StaleOnlyFromSurvivors ==
  loop # "reset" =>
    \A f \in DOMAIN shown : shown[f] \in {NULL, rtModem} \cup survivors
=============================================================================
