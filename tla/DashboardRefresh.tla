-------------------------- MODULE DashboardRefresh --------------------------
(***************************************************************************)
(* The live dashboard in a browser tab (static/js/dashboard.js,            *)
(* hero-chart.js, sparklines.js, signal-series.js).  A refresh fetches the *)
(* page; its arrival has the hero chart and the sparklines drawn from one  *)
(* signal series, and then the other sparklines from the older trend API.  *)
(* Answers arrive in any order, or fail.                                   *)
(*                                                                         *)
(* Data is the number of the poll it is of.  What the server reads for an  *)
(* answer is of some poll between the request and the answer.              *)
(***************************************************************************)
EXTENDS Integers

CONSTANTS MaxGenerations,   \* bound: refreshes of the tab
          MaxServerPolls    \* bound: polls of the modem

VARIABLES
  newest,         \* the latest poll the server has stored
  manual,         \* [step, of]: the refresh button's request, and the poll it made
  htmlRefreshId, pages,     \* the refresh that counts; page requests in flight
  generation, pending,      \* of the series; its promise: nothing, or the answer it may have
  heroId, sparkId,          \* requestId of the hero chart and of the sparklines
  fetches, paints, trends,  \* series requests, sparklines about to go on, trend requests
  pageData, hero, spark, legacy,  \* what is on the screen: 0 is nothing
  polled,         \* the manual poll the tab was told of
  missed          \* an answer of this generation was an error

dashVars == <<newest, manual, htmlRefreshId, pages, generation, pending, heroId, sparkId,
              fetches, paints, trends, pageData, hero, spark, legacy, polled, missed>>

NoPromise == [of |-> -1, answer |-> 0]
NoPoll    == [step |-> "idle", of |-> 0]

\* The page as delivered; both charts ask for the series of generation 0.
DashInit ==
  /\ newest = 1 /\ manual = NoPoll /\ polled = 0
  /\ htmlRefreshId = 0 /\ pages = {}
  /\ generation = 0 /\ pending = [of |-> 0, answer |-> 0]
  /\ heroId = 1 /\ sparkId = 1
  /\ fetches = {[requested |-> 0, at |-> 1, hero |-> 1, spark |-> 1, for |-> 0]}
  /\ paints = {} /\ trends = {}
  /\ pageData = 1 /\ hero = 0 /\ spark = 0 /\ legacy = 0
  /\ missed = FALSE

Stored ==
  /\ newest < MaxServerPolls /\ newest' = newest + 1
  /\ UNCHANGED <<manual, htmlRefreshId, pages, generation, pending, heroId, sparkId, fetches, paints, trends,
                 pageData, hero, spark, legacy, polled, missed>>

\* Mutant of Invalidate: the series of the last generation goes on.
InvalidateIdOnly == generation' = generation + 1 /\ UNCHANGED pending

Invalidate == generation' = generation + 1 /\ pending' = NoPromise

RefreshData ==
  /\ generation < MaxGenerations
  /\ htmlRefreshId' = htmlRefreshId + 1
  /\ Invalidate
  /\ pages' = pages \cup {[id |-> htmlRefreshId + 1, for |-> generation + 1, at |-> newest]}
  /\ missed' = FALSE
  /\ UNCHANGED <<newest, heroId, sparkId, fetches, paints, trends, pageData, hero, spark, legacy>>

\* The countdown is over, or the page still waits for its first poll.
AutoRefresh == RefreshData /\ UNCHANGED <<manual, polled>>

ClickRefresh ==
  /\ manual = NoPoll /\ manual' = [step |-> "asked", of |-> 0]
  /\ UNCHANGED <<newest, htmlRefreshId, pages, generation, pending, heroId, sparkId, fetches, paints, trends,
                 pageData, hero, spark, legacy, polled, missed>>

\* The server polls the modem and answers.
ManualPoll ==
  /\ manual.step = "asked" /\ newest < MaxServerPolls
  /\ newest' = newest + 1 /\ manual' = [step |-> "answered", of |-> newest + 1]
  /\ UNCHANGED <<htmlRefreshId, pages, generation, pending, heroId, sparkId, fetches, paints, trends,
                 pageData, hero, spark, legacy, polled, missed>>

PollAnswered ==
  /\ manual.step = "answered"
  /\ RefreshData
  /\ polled' = manual.of /\ manual' = NoPoll

PollFails ==
  /\ manual.step # "idle" /\ manual' = NoPoll
  /\ UNCHANGED <<newest, htmlRefreshId, pages, generation, pending, heroId, sparkId, fetches, paints, trends,
                 pageData, hero, spark, legacy, polled, missed>>

\* Mutant of Superseded: no refresh is.
SupersededNever(p) == FALSE

Superseded(p) == p.id # htmlRefreshId

\* The page arrives. Hero and sparklines share the promise of the series: one under
\* way or answered, or a request made now.
PageArrives(p) ==
  /\ ~Superseded(p)
  /\ pages' = pages \ {p}
  /\ \E v \in p.at..newest : pageData' = v
  /\ heroId' = heroId + 1 /\ sparkId' = sparkId + 1
  /\ LET want == [requested |-> generation, at |-> newest, hero |-> heroId + 1, spark |-> sparkId + 1, for |-> p.for]
         now  == p.for = generation
         done == pending.answer # 0
     IN
     /\ pending' = IF pending = NoPromise THEN [of |-> generation, answer |-> 0] ELSE pending
     /\ fetches' = IF pending = NoPromise THEN fetches \cup {want}
                   ELSE {IF f.requested = pending.of THEN [want EXCEPT !.requested = f.requested, !.at = f.at] ELSE f : f \in fetches}
     /\ hero'  = IF done /\ now THEN pending.answer ELSE hero
     /\ spark' = IF done /\ now THEN pending.answer ELSE spark
     /\ paints' = IF done THEN paints \cup {[id |-> sparkId + 1, for |-> p.for]} ELSE paints
  /\ UNCHANGED <<newest, manual, htmlRefreshId, generation, trends, legacy, polled, missed>>

\* It is not the newest refresh any more, or the request failed.
PageDropped(p) ==
  /\ pages' = pages \ {p}
  /\ missed' = (missed \/ p.id = htmlRefreshId)
  /\ UNCHANGED <<newest, manual, htmlRefreshId, generation, pending, heroId, sparkId, fetches, paints, trends,
                 pageData, hero, spark, legacy, polled>>

\* Rows of an old generation are an error. Who asked draws them if it is still the
\* one that asked last.
SeriesArrives(f) ==
  /\ fetches' = fetches \ {f}
  /\ f.requested = generation
  /\ \E v \in f.at..newest :
       /\ pending' = [of |-> f.requested, answer |-> v]
       /\ hero'  = IF f.hero = heroId /\ f.for = generation THEN v ELSE hero
       /\ spark' = IF f.spark = sparkId /\ f.for = generation THEN v ELSE spark
  /\ paints' = paints \cup {[id |-> f.spark, for |-> f.for]}
  /\ UNCHANGED <<newest, manual, htmlRefreshId, pages, generation, heroId, sparkId, trends, pageData, legacy, polled, missed>>

\* An error: the sparklines go on without.
SeriesFails(f) ==
  /\ fetches' = fetches \ {f}
  /\ pending' = IF pending.of = f.requested THEN NoPromise ELSE pending
  /\ paints' = paints \cup {[id |-> f.spark, for |-> f.for]}
  /\ missed' = (missed \/ f.requested = generation)
  /\ UNCHANGED <<newest, manual, htmlRefreshId, pages, generation, heroId, sparkId, trends, pageData, hero, spark, legacy, polled>>

CurrentSpark(s) == s.id = sparkId /\ s.for = generation

\* After a frame: the trend API, for the metrics the series has not.
AfterPaint(s) ==
  /\ paints' = paints \ {s}
  /\ trends' = IF CurrentSpark(s) THEN trends \cup {[id |-> s.id, for |-> s.for, at |-> newest]} ELSE trends
  /\ UNCHANGED <<newest, manual, htmlRefreshId, pages, generation, pending, heroId, sparkId, fetches,
                 pageData, hero, spark, legacy, polled, missed>>

TrendsArrive(t) ==
  /\ trends' = trends \ {t}
  /\ \E v \in t.at..newest : legacy' = IF CurrentSpark(t) THEN v ELSE legacy
  /\ UNCHANGED <<newest, manual, htmlRefreshId, pages, generation, pending, heroId, sparkId, fetches, paints,
                 pageData, hero, spark, polled, missed>>

TrendsFail(t) ==
  /\ trends' = trends \ {t}
  /\ missed' = (missed \/ CurrentSpark(t))
  /\ UNCHANGED <<newest, manual, htmlRefreshId, pages, generation, pending, heroId, sparkId, fetches, paints,
                 pageData, hero, spark, legacy, polled>>

DashNext ==
  \/ Stored \/ AutoRefresh \/ ClickRefresh \/ ManualPoll \/ PollAnswered \/ PollFails
  \/ \E p \in pages : PageArrives(p) \/ PageDropped(p)
  \/ \E f \in fetches : SeriesArrives(f) \/ SeriesFails(f)
  \/ \E s \in paints : AfterPaint(s)
  \/ \E t \in trends : TrendsArrive(t) \/ TrendsFail(t)

DashSpec == DashInit /\ [][DashNext]_dashVars

-----------------------------------------------------------------------------
\* Whatever order the answers come in, nothing on the screen goes back to older data.
NothingGoesBack == pageData' >= pageData /\ hero' >= hero /\ spark' >= spark /\ legacy' >= legacy

\* All that was asked for has come, and nothing of it failed.
AllAnswered == pages = {} /\ fetches = {} /\ paints = {} /\ trends = {} /\ ~missed

\* Hero and sparklines then show the same rows, none older than the page around
\* them, and the page is of the manual poll the user was told of or a later one.
OfOneTime == hero = spark /\ legacy >= spark /\ spark >= pageData /\ pageData >= polled

\* Refreshes that overtake each other leave a dashboard that fits together
\* (dashboard.js, refreshData; signal-series.js).
DashboardFitsTogether == [][NothingGoesBack /\ (AllAnswered' => OfOneTime')]_dashVars
=============================================================================
