----------------------------- MODULE ModemSession -----------------------------
(***************************************************************************)
(* The one Web-UI session of an SB8200 with CBN firmware                   *)
(* (app/drivers/sb8200_cbn.py).  The modem issues a new token with every   *)
(* answer and drops the session of a client that sends an older one; a     *)
(* second login is refused while a session is open.  A driver holds its    *)
(* session across polls, logs in again once per call when it was lost, and *)
(* gives it back when it is replaced.  Two drivers stand for the one of    *)
(* the loop before and after a hot-swap, or the one of a modem test beside *)
(* it; the operator's browser is a third client.  get_connection_info, asked   *)
(* in a driver's first poll only, is one more call like the device info.   *)
(***************************************************************************)
EXTENDS Naturals

CONSTANTS
  DriverPair,     \* drivers
  Operator, NoClient,
  OptionalTables,   \* how many tables of a poll may be missing
  MaxLosses     \* bound: requests that fail in transit

ASSUME ModemSessionAssumption ==
  /\ Operator \notin DriverPair /\ NoClient \notin DriverPair /\ Operator /= NoClient
  /\ OptionalTables \in Nat /\ MaxLosses \in Nat

VARIABLES
  session,      \* in the modem: whose session is open
  phase,        \* what each driver does next
  call,         \* where its poll is: 0 login(), 1 device info, 2, 3 channels, 4.. other tables
  holds,        \* it has the SID of a session
  inStep,       \* its token is the last one the modem gave it
  loggedIn,     \* _logged_in
  reauth,       \* _reauthenticated
  model,        \* _hw_model is known
  retired,      \* replaced by another driver
  logins,       \* history: logins begun in this call
  stray,        \* history: drivers whose login or logout the modem and they see differently
  losses

sessionVars == <<session, phase, call, holds, inStep, loggedIn, reauth, model, retired, logins, stray, losses>>

Required == {2, 3}
LastCall == 3 + OptionalTables

\* What may become of a request.  A lost one reaches nobody; the answer to an
\* unanswered one is not read (timeout, HTTP error, too long).
Fates == IF losses < MaxLosses THEN {"lost", "unanswered", "answered"} ELSE {"answered"}

Spend(fate) == losses' = IF fate = "answered" THEN losses ELSE losses + 1

\* The modem takes a request: one with the SID of the open session and an old
\* token ends that session.
Served(d) == IF session = d /\ holds[d] /\ ~inStep[d] THEN NoClient ELSE session

\* _begin_call, or the end of the poll.
GoTo(d, n) ==
  /\ call' = [call EXCEPT ![d] = IF n > LastCall THEN 0 ELSE n]
  /\ phase' = [phase EXCEPT ![d] = IF n > LastCall THEN "idle" ELSE "query"]
  /\ IF n \in {1, 2}
     THEN reauth' = [reauth EXCEPT ![d] = FALSE] /\ logins' = [logins EXCEPT ![d] = 0]
     ELSE UNCHANGED <<reauth, logins>>

\* An exception: login() and the channel tables end the poll, the device info
\* and an optional table are done without.
Raise(d) ==
  IF call[d] \in {0} \cup Required
  THEN /\ phase' = [phase EXCEPT ![d] = "idle"] /\ call' = [call EXCEPT ![d] = 0]
       /\ UNCHANGED <<reauth, logins>>
  ELSE GoTo(d, call[d] + 1)

SessionInit ==
  /\ session \in {NoClient, Operator}
  /\ phase = [d \in DriverPair |-> "idle"] /\ call = [d \in DriverPair |-> 0]
  /\ holds = [d \in DriverPair |-> FALSE] /\ inStep = [d \in DriverPair |-> FALSE]
  /\ loggedIn = [d \in DriverPair |-> FALSE] /\ reauth = [d \in DriverPair |-> FALSE]
  /\ model = [d \in DriverPair |-> FALSE] /\ retired = [d \in DriverPair |-> FALSE]
  /\ logins = [d \in DriverPair |-> 0] /\ stray = {} /\ losses = 0

\* collect() or a modem test: login() returns at once in an open session.
BeginModemPoll(d) ==
  /\ phase[d] = "idle" /\ ~retired[d]
  /\ IF loggedIn[d]
     THEN GoTo(d, 1)
     ELSE /\ phase' = [phase EXCEPT ![d] = "logout"] /\ logins' = [logins EXCEPT ![d] = 1]
          /\ UNCHANGED <<call, reauth>>
  /\ UNCHANGED <<session, holds, inStep, loggedIn, model, retired, stray, losses>>

\* LOGOUT, if there is a session to end; the cookies go in any case.
GiveBack(d, fate) ==
  /\ holds' = [holds EXCEPT ![d] = FALSE] /\ inStep' = [inStep EXCEPT ![d] = FALSE]
  /\ IF holds[d]
     THEN /\ Spend(fate)
          /\ IF session = d
             THEN IF fate = "lost" THEN stray' = stray \cup {d} /\ UNCHANGED session
                                   ELSE session' = NoClient /\ UNCHANGED stray
             ELSE UNCHANGED <<session, stray>>
     ELSE fate = "answered" /\ UNCHANGED <<session, stray, losses>>

\* Mutant of ReleaseSession: the cookies are dropped without a logout.
ReleaseForgetsSession(d) ==
  /\ phase[d] = "logout" /\ phase' = [phase EXCEPT ![d] = "page"]
  /\ holds' = [holds EXCEPT ![d] = FALSE] /\ inStep' = [inStep EXCEPT ![d] = FALSE]
  /\ loggedIn' = [loggedIn EXCEPT ![d] = FALSE]
  /\ UNCHANGED <<session, stray, losses, call, reauth, model, retired, logins>>

\* _release_session, first in login().
ReleaseSession(d) ==
  /\ phase[d] = "logout" /\ phase' = [phase EXCEPT ![d] = "page"]
  /\ \E fate \in Fates : GiveBack(d, fate)
  /\ loggedIn' = [loggedIn EXCEPT ![d] = FALSE]
  /\ UNCHANGED <<call, reauth, model, retired, logins>>

\* The login page brings a token.
GetLoginPage(d) ==
  /\ phase[d] = "page"
  /\ \E fate \in Fates :
       /\ Spend(fate)
       /\ IF fate = "answered"
          THEN /\ inStep' = [inStep EXCEPT ![d] = TRUE]
               /\ phase' = [phase EXCEPT ![d] = IF model[d] THEN "login" ELSE "model"]
               /\ UNCHANGED <<call, reauth, logins>>
          ELSE Raise(d) /\ UNCHANGED inStep
  /\ UNCHANGED <<session, holds, loggedIn, model, retired, stray>>

\* _hardware_model, asked once.
GetHardwareModel(d) ==
  /\ phase[d] = "model"
  /\ \E fate \in Fates :
       /\ Spend(fate)
       /\ inStep' = [inStep EXCEPT ![d] = (fate /= "unanswered")]
       /\ IF fate = "answered"
          THEN /\ model' = [model EXCEPT ![d] = TRUE] /\ phase' = [phase EXCEPT ![d] = "login"]
               /\ UNCHANGED <<call, reauth, logins>>
          ELSE Raise(d) /\ UNCHANGED model
  /\ UNCHANGED <<session, holds, loggedIn, retired, stray>>

\* The login itself: granted if no session is open.  Back to the query that
\* needed it, or on with the poll.
PostLogin(d) ==
  /\ phase[d] = "login"
  /\ \E fate \in Fates :
       LET granted == fate /= "lost" /\ session = NoClient
           in      == granted /\ fate = "answered" IN
       /\ Spend(fate)
       /\ session' = IF granted THEN d ELSE session
       /\ stray' = IF ~granted THEN stray ELSE IF in THEN stray \ {d} ELSE stray \cup {d}
       /\ inStep' = [inStep EXCEPT ![d] = (fate /= "unanswered")]
       /\ holds' = [holds EXCEPT ![d] = in] /\ loggedIn' = [loggedIn EXCEPT ![d] = in]
       /\ CASE ~in                -> Raise(d)
            [] in /\ call[d] = 0 -> GoTo(d, 1)
            [] in /\ call[d] > 0 -> /\ phase' = [phase EXCEPT ![d] = "query"]
                                    /\ UNCHANGED <<call, reauth, logins>>
  /\ UNCHANGED <<model, retired>>

\* Mutant of MayLogInAgain: every query that finds the session gone may.
LogsInForEveryTable(d) == loggedIn[d]

\* _reauthenticate: once in a call, and only for a session it believed in.
MayLogInAgain(d) == loggedIn[d] /\ ~reauth[d]

\* A table: data, nothing (the firmware does not serve it), or a redirect if
\* the session is gone.
Query(d) ==
  /\ phase[d] = "query"
  /\ \E fate \in Fates, empty \in BOOLEAN :
       LET valid == session = d /\ holds[d] /\ inStep[d]
           gone  == ~valid \/ (empty /\ call[d] <= 3) IN
       /\ Spend(fate)
       /\ session' = IF fate = "lost" THEN session ELSE Served(d)
       /\ inStep' = [inStep EXCEPT ![d] = IF fate = "lost" THEN @ ELSE fate = "answered"]
       /\ CASE fate /= "answered" -> Raise(d) /\ UNCHANGED loggedIn
            [] fate = "answered" /\ ~gone -> GoTo(d, call[d] + 1) /\ UNCHANGED loggedIn
            [] OTHER -> IF MayLogInAgain(d)
                        THEN /\ reauth' = [reauth EXCEPT ![d] = TRUE]
                             /\ loggedIn' = [loggedIn EXCEPT ![d] = FALSE]
                             /\ phase' = [phase EXCEPT ![d] = "logout"]
                             /\ logins' = [logins EXCEPT ![d] = @ + 1]
                             /\ UNCHANGED call
                        ELSE Raise(d) /\ UNCHANGED loggedIn
  /\ UNCHANGED <<holds, model, retired, stray>>

\* The hot-swap, the end of a test, or of the process.
Retire(d) ==
  /\ ~retired[d] /\ retired' = [retired EXCEPT ![d] = TRUE]
  /\ UNCHANGED <<session, phase, call, holds, inStep, loggedIn, reauth, model, logins, stray, losses>>

\* _cleanup, when the last run of a replaced driver has let go of it.
Finalize(d) ==
  /\ retired[d] /\ phase[d] = "idle"
  /\ phase' = [phase EXCEPT ![d] = "gone"]
  /\ \E fate \in Fates : GiveBack(d, fate)
  /\ UNCHANGED <<call, loggedIn, reauth, model, retired, logins>>

\* The modem ends an idle session, and the operator comes and goes.
SessionChangesHands ==
  /\ session' \in (IF session = NoClient THEN {Operator} ELSE {NoClient})
  /\ UNCHANGED <<phase, call, holds, inStep, loggedIn, reauth, model, retired, logins, stray, losses>>

SessionNext ==
  \/ SessionChangesHands
  \/ \E d \in DriverPair :
       BeginModemPoll(d) \/ ReleaseSession(d) \/ GetLoginPage(d) \/ GetHardwareModel(d)
       \/ PostLogin(d) \/ Query(d) \/ Retire(d) \/ Finalize(d)

SessionSpec == SessionInit /\ [][SessionNext]_sessionVars

---------------------------------------------------------------------------
\* The modem has one session for everybody, and limits logins.  A driver never
\* loses hold of a session the modem keeps open for it, through failed polls,
\* sessions lost at any query, a swap with a poll under way, unless a request
\* of its own to open or to end it failed in transit; what it has given up or
\* been replaced in it has ended.  And a call logs in once at most, however
\* many of its tables find the session gone.
SessionIsHandedBack ==
  \A d \in DriverPair :
    /\ session = d => holds[d] \/ d \in stray
    /\ logins[d] <= 1
=============================================================================
