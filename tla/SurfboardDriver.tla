---------------------------- MODULE SurfboardDriver ----------------------------
(***************************************************************************)
(* Login and reading of a SURFboard modem (app/drivers/surfboard.py): the  *)
(* fallbacks of the transport (HTTPS, HTTPS with old TLS, HTTP), sessions  *)
(* the modem still remembers (RELOAD), the HTML page of firmware without   *)
(* a working HNAP, and the namespace of the actions, Customer or Moto,     *)
(* which the driver finds out by itself.  The two HTTP requests of the     *)
(* handshake and the repetition of a request whose answer broke off are    *)
(* one attempt here.                                                       *)
(***************************************************************************)
EXTENDS Naturals

CONSTANTS
  HasLegacyTLS,    \* _HAS_LEGACY_TLS: what Python's ssl module offers
  MaxReads,        \* bound: polls
  MaxGlitches      \* bound: answers to HNAP actions that fail for no lasting reason

ASSUME SurfboardAssumption == HasLegacyTLS \in BOOLEAN /\ MaxReads \in Nat /\ MaxGlitches \in Nat

VARIABLES
  speaks, foreign,     \* the firmware: its namespace, its answer to actions of the other
  secure,              \* _url is HTTPS
  fellBack, legacyTried, legacyNeeded, htmlMode, authenticated,
  page,                \* _html_status_cache: the poll that fetched it, or 0
  ns,                  \* _action_ns
  place,               \* where the poll is
  target,              \* where it goes on after a login
  savedNs,             \* saved_ns or prev_ns
  connErrors, reloads,
  reads,               \* number of the poll
  glitches,
  attempts,            \* history: logins tried in this call of login()
  everRead, timedOut, cutShort   \* history: channels were read; a timeout; the poll of the page went another way

transportVars == <<secure, fellBack, legacyTried, legacyNeeded>>
loginVars     == <<connErrors, reloads, attempts>>
firmwareVars  == <<speaks, foreign>>
surfVars      == <<firmwareVars, transportVars, loginVars, htmlMode, authenticated, page, ns, place, target,
                   savedNs, reads, glitches, everRead, timedOut, cutShort>>

\* No namespace is known yet.
NoNs == ""

Spoken == IF ns = NoNs THEN "Customer" ELSE ns
OtherNs(n) == IF n = "Customer" THEN "Moto" ELSE "Customer"

SurfInit ==
  /\ speaks \in {"Customer", "Moto"} /\ foreign \in {"empty", "500"}
  /\ secure = TRUE /\ fellBack = FALSE /\ legacyTried = FALSE /\ legacyNeeded = FALSE
  /\ htmlMode = FALSE /\ authenticated = FALSE /\ page = 0 /\ ns = NoNs /\ savedNs = NoNs
  /\ place = "idle" /\ target = "info"
  /\ connErrors = 0 /\ reloads = 0 /\ attempts = 0 /\ reads = 0 /\ glitches = 0
  /\ everRead = FALSE /\ timedOut = FALSE /\ cutShort = FALSE

\* Into login(), from collect() or from get_docsis_data().
EnterLogin(then) ==
  /\ target' = then
  /\ connErrors' = 0 /\ reloads' = 0 /\ attempts' = 0

BeginSurfboardPoll ==
  /\ place = "idle" /\ reads < MaxReads /\ reads' = reads + 1
  /\ place' = IF authenticated THEN "info" ELSE IF htmlMode THEN "html" ELSE "login"
  /\ EnterLogin("info")
  /\ UNCHANGED <<firmwareVars, transportVars, htmlMode, authenticated, page, ns, savedNs, glitches,
                 everRead, timedOut, cutShort>>

---------------------------------------------------------------------------
(* login() *)

MayFallBack == secure /\ ~fellBack

\* _fallback_to_http: once in the life of the driver.
FallBackToHttp == secure' = FALSE /\ fellBack' = TRUE

\* Three connection errors, and the HTML page is tried.
CountError ==
  /\ connErrors' = connErrors + 1
  /\ place' = IF connErrors' >= 3 THEN "html" ELSE "login"

\* Mutant of ConnectionLost: falling back starts the count again each time.
ConnectionLostUncounted ==
  /\ legacyNeeded' = (legacyNeeded \/ legacyTried)
  /\ UNCHANGED <<legacyTried, secure, fellBack, connErrors, reloads, place>>

TlsFails ==
  /\ secure
  /\ CASE ~legacyTried /\ HasLegacyTLS -> legacyTried' = TRUE /\ UNCHANGED <<secure, fellBack, connErrors, place>>
       [] ~(~legacyTried /\ HasLegacyTLS) /\ MayFallBack ->
            FallBackToHttp /\ UNCHANGED <<legacyTried, connErrors, place>>
       [] OTHER -> CountError /\ UNCHANGED <<legacyTried, secure, fellBack>>
  /\ UNCHANGED <<legacyNeeded, reloads>>

\* With old TLS in use HTTP comes last, otherwise first.
ConnectionLost ==
  /\ legacyNeeded' = (legacyNeeded \/ legacyTried)
  /\ CASE MayFallBack /\ ~legacyNeeded' -> FallBackToHttp /\ UNCHANGED <<connErrors, place>>
       [] MayFallBack /\ legacyNeeded' /\ connErrors >= 2 ->
            FallBackToHttp /\ connErrors' = 0 /\ UNCHANGED place
       [] OTHER -> CountError /\ UNCHANGED <<secure, fellBack>>
  /\ UNCHANGED <<legacyTried, reloads>>

\* No challenge: the modem thinks the last session is still open.
NoChallenge ==
  /\ reloads' = reloads + 1
  /\ place' = IF reloads' < 3 THEN "login" ELSE "idle"
  /\ UNCHANGED <<transportVars, connErrors>>

Accepted ==
  /\ authenticated' = TRUE
  /\ legacyNeeded' = (legacyNeeded \/ legacyTried)
  /\ place' = target
  /\ UNCHANGED <<secure, fellBack, legacyTried, connErrors, reloads>>

\* Wrong password, timeout.
LoginRefused == place' = "idle" /\ UNCHANGED <<transportVars, connErrors, reloads>>

TryLogin ==
  /\ place = "login" /\ attempts' = attempts + 1
  /\ \/ Accepted
     \/ (TlsFails \/ ConnectionLost \/ NoChallenge \/ LoginRefused) /\ UNCHANGED authenticated
  /\ UNCHANGED <<firmwareVars, htmlMode, page, ns, target, savedNs, reads, glitches, everRead, timedOut, cutShort>>

\* _html_login: from login(), or for the channels ("page").  A page without
\* channels is asked for again in a fresh session, which ends the old one.
HtmlLogin ==
  /\ place \in {"html", "page"}
  /\ \/ /\ authenticated' = TRUE /\ htmlMode' = TRUE
        /\ IF place = "html"
           THEN page' = reads /\ place' = target /\ cutShort' = FALSE
           ELSE place' = "idle" /\ UNCHANGED <<page, cutShort>>
     \/ /\ authenticated' \in {FALSE, authenticated}
        /\ place' = "idle" /\ UNCHANGED <<htmlMode, page, cutShort>>
  /\ UNCHANGED <<firmwareVars, transportVars, loginVars, ns, target, savedNs, reads, glitches, everRead, timedOut>>

---------------------------------------------------------------------------
(* get_device_info() and get_docsis_data() *)

\* What an HNAP action of namespace n is answered.  A session of the HTML page
\* has no key for HNAP.
Usually(n) == IF htmlMode THEN "empty" ELSE IF n = speaks THEN "data" ELSE foreign
Answers(n) == {Usually(n)} \cup IF glitches < MaxGlitches THEN {"500", "other", "dropped", "timeout"} ELSE {}

Ask(n, a) ==
  /\ glitches' = IF a = Usually(n) THEN glitches ELSE glitches + 1
  /\ timedOut' = (timedOut \/ a = "timeout")

\* The other namespace is tried after an HTTP 500, or if there is no model and
\* none is known; what it is after a failure, it stays.
GetDeviceInfo ==
  /\ place \in {"info", "info_after_500", "info_after_nothing"}
  /\ IF htmlMode
     THEN place' = "store" /\ UNCHANGED <<ns, glitches, timedOut>>
     ELSE \E a \in Answers(Spoken) :
            /\ Ask(Spoken, a)
            /\ CASE place = "info" /\ ns = NoNs /\ a \in {"500", "empty"} ->
                      /\ ns' = "Moto"
                      /\ place' = IF a = "500" THEN "info_after_500" ELSE "info_after_nothing"
                 [] OTHER -> /\ ns' = IF place = "info_after_nothing" /\ a = "empty" THEN NoNs ELSE ns
                             /\ place' = "store"
  /\ UNCHANGED <<firmwareVars, transportVars, loginVars, htmlMode, page, reads, cutShort, authenticated, target,
                 savedNs, everRead>>

\* Between the two, collect() logs the changes of the device; a failing
\* database ends the poll there.
StoreDeviceState ==
  /\ place = "store"
  /\ \/ place' = "fetch" /\ savedNs' = ns /\ UNCHANGED cutShort
     \/ place' = "idle" /\ cutShort' = (cutShort \/ page /= 0) /\ UNCHANGED savedNs
  /\ UNCHANGED <<firmwareVars, transportVars, loginVars, htmlMode, authenticated, page, ns, target, reads, glitches,
                 everRead, timedOut>>

\* Mutant of ReadPage: the page is kept.
ReadPageKeepsIt ==
  /\ place = "fetch" /\ htmlMode
  /\ place' = IF page = 0 THEN "page" ELSE "idle"
  /\ cutShort' = FALSE
  /\ UNCHANGED <<firmwareVars, transportVars, loginVars, htmlMode, authenticated, page, ns, target, savedNs, reads,
                 glitches, everRead, timedOut>>

\* _html_get_docsis_data: the page of the login, or a new one.
ReadPage ==
  /\ place = "fetch" /\ htmlMode
  /\ page' = 0
  /\ place' = IF page = 0 THEN "page" ELSE "idle"
  /\ cutShort' = FALSE
  /\ UNCHANGED <<firmwareVars, transportVars, loginVars, htmlMode, authenticated, ns, target, savedNs, reads,
                 glitches, everRead, timedOut>>

Relogin(then) == place' = "login" /\ authenticated' = FALSE /\ EnterLogin(then)

Stay == UNCHANGED <<authenticated, target, loginVars>>

\* The second request of _fetch_docsis_data, by where the first was made.
SecondTries == {"Moto_first", "Moto_after_drop", "Moto_again"}
SecondTry ==
  CASE place = "fetch"            -> "Moto_first"
    [] place = "fetch_after_drop" -> "Moto_after_drop"
    [] place = "fetch_again"      -> "Moto_again"

\* The except clauses around a fetch.
FetchFails(a) ==
  CASE place \in {"fetch", "Moto_first"} /\ a = "dropped" ->
         ns' = savedNs /\ Relogin("fetch_after_drop") /\ UNCHANGED savedNs
    [] place \in {"fetch", "Moto_first"} /\ a = "500" ->
         /\ savedNs' = ns /\ ns' = OtherNs(Spoken)
         /\ place' = "fetch_other" /\ Stay
    [] place \in {"fetch", "Moto_first"} /\ a = "other" ->
         Relogin("fetch_again") /\ UNCHANGED <<ns, savedNs>>
    [] place = "fetch_other" /\ a \in {"500", "other", "dropped"} ->
         ns' = savedNs /\ Relogin("fetch_again") /\ UNCHANGED savedNs
    [] place \in {"fetch_after_drop", "Moto_after_drop"} /\ a = "dropped" ->
         ns' = savedNs /\ place' = "idle" /\ Stay /\ UNCHANGED savedNs
    [] OTHER -> place' = "idle" /\ Stay /\ UNCHANGED <<ns, savedNs>>

\* _fetch_docsis_data: as long as no namespace is known Moto is tried too.  It
\* is also what follows a login from here that ended with the HTML page.
FetchChannels ==
  /\ place \in {"fetch", "fetch_other", "fetch_after_drop", "fetch_again"} \cup SecondTries
  /\ place = "fetch" => ~htmlMode
  /\ cutShort' = (cutShort \/ page /= 0)
  /\ \E a \in Answers(Spoken) :
       /\ Ask(Spoken, a)
       /\ everRead' = (everRead \/ a = "data")
       /\ CASE a = "data" -> ns' = Spoken /\ place' = "idle" /\ Stay /\ UNCHANGED savedNs
            [] a = "empty" /\ ns = NoNs -> ns' = "Moto" /\ place' = SecondTry /\ Stay /\ UNCHANGED savedNs
            [] a = "empty" /\ ns /= NoNs -> /\ ns' = IF place \in SecondTries THEN NoNs ELSE ns
                                         /\ place' = "idle" /\ Stay /\ UNCHANGED savedNs
            [] OTHER -> FetchFails(a)
  /\ UNCHANGED <<firmwareVars, transportVars, htmlMode, page, reads>>

SurfNext ==
  \/ BeginSurfboardPoll \/ TryLogin \/ HtmlLogin \/ GetDeviceInfo \/ StoreDeviceState
  \/ ReadPage \/ FetchChannels

SurfSpec == SurfInit /\ [][SurfNext]_surfVars

---------------------------------------------------------------------------
\* Through all its fallbacks the driver comes to an end and reports what the
\* modem says now.  No call of login() tries more often than the fallbacks add
\* up to: one for old TLS, three errors before HTTP and three after it, two
\* remembered sessions.  The page of an HTML login is not kept for a later poll,
\* unless the database failed in between or the login came from within the
\* fetch.  And for firmware that refuses foreign actions with an HTTP 500, the
\* namespace that was found stays: no error of a request but a timeout leaves
\* the driver in the other one.
LoginEndsAndReadsAreCurrent ==
  /\ attempts <= 9
  /\ page \in {0, reads} \/ cutShort
  /\ everRead /\ place = "idle" /\ foreign = "500" /\ ~timedOut => ns = speaks
=============================================================================
