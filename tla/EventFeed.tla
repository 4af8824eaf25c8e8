------------------------------ MODULE EventFeed ------------------------------
(***************************************************************************)
(* The event log in a browser tab (static/js/events.js, and the view       *)
(* switch of dashboard.js) against the log the server keeps: a feed loaded *)
(* page by page and the badge with the number of unacknowledged events,    *)
(* while events are added, acknowledged and filtered and answers arrive    *)
(* in any order.  Feed and badge each count one answer, that of the last   *)
(* request.  The two queries of a feed request are one step here.          *)
(***************************************************************************)
EXTENDS Integers, Sequences, FiniteSets, FiniteSetsExt, Functions

CONSTANTS PageSize,     \* _eventsPageSize
          MaxEvents,    \* bound: events in the log
          MaxTickets,   \* bound: requests the tab counts for the badge
          MaxWire       \* bound: requests under way when another is made

ASSUME FeedAssumption == {PageSize, MaxEvents, MaxTickets, MaxWire} \subseteq Nat

VARIABLES
  log,         \* the table, oldest first: [critical, acked]
  shownView,         \* the view shown: "live" or "events"
  onlyCritical, \* the severity filter of the events view
  feedSeq, badgeSeq,  \* _eventsRequestCount, _badgeRequestCount
  wire,         \* requests and answers under way
  feed,         \* the cards: [id, acked], in their order
  more,         \* the button for the next page is there
  badge,        \* [seen, critical]: the events it counts, and of which filter it is
  mine,         \* events the user acknowledged, by an answer the tab got
  unanswered    \* the last request for the badge failed, or its answer was for another view

feedVars == <<log, shownView, onlyCritical, feedSeq, badgeSeq, wire, feed, more, badge, mine, unanswered>>

Fits(id, critical) == critical => log[id].critical

\* storage/events.py, get_events and get_event_count: newest first.
Matching(critical) == {id \in DOMAIN log : Fits(id, critical)}
Place(id, critical) == Cardinality({j \in Matching(critical) : j >= id})
Page(offset, critical) ==
  [i \in 1..Min({PageSize, Cardinality(Matching(critical)) - offset}) |->
     CHOOSE id \in Matching(critical) : Place(id, critical) = offset + i]
Unacked(critical)  == {id \in Matching(critical) : ~log[id].acked}

FeedInit ==
  /\ log = <<>> /\ shownView = "live" /\ onlyCritical = FALSE
  /\ feedSeq = 0 /\ badgeSeq = 1
  /\ wire = {[ask |-> "count", badge |-> 1, critical |-> FALSE]}
  /\ feed = <<>> /\ more = FALSE
  /\ badge = [seen |-> {}, critical |-> FALSE] /\ mine = {} /\ unanswered = FALSE

NewEvent ==
  /\ Len(log) < MaxEvents
  /\ \E critical \in BOOLEAN : log' = Append(log, [critical |-> critical, acked |-> FALSE])
  /\ UNCHANGED <<shownView, onlyCritical, feedSeq, badgeSeq, wire, feed, more, badge, mine, unanswered>>

\* loadEvents: from the start, or, to append, after the cards that are there.
LoadEvents(append, critical, in) ==
  /\ feedSeq' = feedSeq + 1 /\ badgeSeq' = badgeSeq + 1
  /\ wire' = in \cup {[ask |-> "feed", feed |-> feedSeq + 1, badge |-> badgeSeq + 1, critical |-> critical,
                       offset |-> IF append THEN Len(feed) ELSE 0, append |-> append]}
  /\ more' = FALSE
  /\ feed' = IF append THEN feed ELSE <<>>
  /\ unanswered' = FALSE

\* refreshEventBadge: the filter counts in the events view only.
RefreshBadge(in) ==
  /\ badgeSeq' = badgeSeq + 1
  /\ wire' = wire \cup {[ask |-> "count", badge |-> badgeSeq + 1, critical |-> in = "events" /\ onlyCritical]}
  /\ unanswered' = FALSE
  /\ UNCHANGED <<feedSeq, feed, more>>

Periodic ==
  /\ RefreshBadge(shownView)
  /\ UNCHANGED <<log, shownView, onlyCritical, badge, mine>>

SwitchView ==
  /\ \/ shownView = "live" /\ shownView' = "events" /\ LoadEvents(FALSE, onlyCritical, wire)
     \/ shownView = "events" /\ shownView' = "live" /\ RefreshBadge("live")
  /\ UNCHANGED <<log, onlyCritical, badge, mine>>

FilterEvents ==
  /\ shownView = "events" /\ onlyCritical' = ~onlyCritical
  /\ LoadEvents(FALSE, onlyCritical', wire)
  /\ UNCHANGED <<log, shownView, badge, mine>>

LoadMore ==
  /\ shownView = "events" /\ more
  /\ LoadEvents(TRUE, onlyCritical, wire)
  /\ UNCHANGED <<log, shownView, onlyCritical, badge, mine>>

\* acknowledgeEvent on a card, and acknowledgeAllEvents, whatever the filter: id 0.
AskAcknowledge ==
  /\ shownView = "events" /\ feed # <<>>
  /\ \E id \in {c.id : c \in {k \in Range(feed) : ~k.acked}} \cup {0} :
       wire' = wire \cup {[ask |-> "ack", id |-> id]}
  /\ UNCHANGED <<log, shownView, onlyCritical, feedSeq, badgeSeq, feed, more, badge, mine, unanswered>>

\* The server's turn: what a request reads or writes.
Serve(q) ==
  /\ q.ask \in {"feed", "count", "ack"}
  /\ CASE q.ask = "ack" ->
            LET of == IF q.id = 0 THEN DOMAIN log ELSE {q.id} IN
            /\ log' = [id \in DOMAIN log |-> IF id \in of THEN [log[id] EXCEPT !.acked = TRUE] ELSE log[id]]
            /\ wire' = (wire \ {q}) \cup {[ask |-> "acked", of |-> of]}
       [] q.ask = "count" ->
            /\ wire' = (wire \ {q}) \cup {[ask |-> "counted", badge |-> q.badge, critical |-> q.critical,
                                           unacked |-> Unacked(q.critical)]}
            /\ UNCHANGED log
       [] q.ask = "feed" ->
            /\ wire' = (wire \ {q}) \cup
                 {[ask |-> "fed", feed |-> q.feed, badge |-> q.badge, critical |-> q.critical, append |-> q.append,
                   unacked |-> Unacked(q.critical),
                   page |-> [i \in DOMAIN Page(q.offset, q.critical) |->
                               LET id == Page(q.offset, q.critical)[i] IN [id |-> id, acked |-> log[id].acked]]]}
            /\ UNCHANGED log
  /\ UNCHANGED <<shownView, onlyCritical, feedSeq, badgeSeq, feed, more, badge, mine, unanswered>>

\* Mutant of PageSuperseded: a page is taken whatever was asked since.
PageSupersededNever(a) == FALSE

PageSuperseded(a) == a.feed # feedSeq

FeedArrives(a) ==
  /\ a.ask = "fed" /\ wire' = wire \ {a}
  /\ IF PageSuperseded(a)
     THEN UNCHANGED <<feed, more, badge, unanswered>>
     ELSE /\ feed' = feed \o a.page
          /\ more' = (Len(a.page) >= PageSize)
          /\ IF a.badge = badgeSeq /\ shownView = "events"
             THEN badge' = [seen |-> a.unacked, critical |-> a.critical] /\ UNCHANGED unanswered
             ELSE unanswered' = (unanswered \/ a.badge = badgeSeq) /\ UNCHANGED badge
  /\ UNCHANGED <<log, shownView, onlyCritical, feedSeq, badgeSeq, mine>>

\* Mutant of CountSuperseded: a count is taken whatever was asked since.
CountSupersededNever(a) == FALSE

CountSuperseded(a) == a.badge # badgeSeq

CountArrives(a) ==
  /\ a.ask = "counted" /\ wire' = wire \ {a}
  /\ badge' = IF CountSuperseded(a) THEN badge ELSE [seen |-> a.unacked, critical |-> a.critical]
  /\ UNCHANGED <<log, shownView, onlyCritical, feedSeq, badgeSeq, feed, more, mine, unanswered>>

\* The feed is loaded again, in whatever view the user is now.
AckArrives(a) ==
  /\ a.ask = "acked"
  /\ mine' = mine \cup a.of
  /\ LoadEvents(FALSE, onlyCritical, wire \ {a})
  /\ UNCHANGED <<log, shownView, onlyCritical, badge>>

\* No answer, or an error: an appending feed offers its button again.
RequestFails(q) ==
  /\ wire' = wire \ {q}
  /\ more' = IF q.ask \in {"feed", "fed"} /\ ~PageSuperseded(q) THEN q.append ELSE more
  /\ unanswered' = (unanswered \/ (q.ask \in {"feed", "fed", "count", "counted"} /\ q.badge = badgeSeq))
  /\ UNCHANGED <<log, shownView, onlyCritical, feedSeq, badgeSeq, feed, badge, mine>>

FeedNext ==
  \/ NewEvent
  \/ badgeSeq < MaxTickets /\ (\E a \in wire : AckArrives(a))
  \/ badgeSeq < MaxTickets /\ Cardinality(wire) < MaxWire
     /\ (AskAcknowledge \/ Periodic \/ SwitchView \/ FilterEvents \/ LoadMore)
  \/ \E q \in wire : Serve(q) \/ FeedArrives(q) \/ CountArrives(q) \/ RequestFails(q)

FeedSpec == FeedInit /\ [][FeedNext]_feedVars

-----------------------------------------------------------------------------
Cards == {feed[i].id : i \in DOMAIN feed}

\* Paging by the number of cards may show an event twice, if others came in between.  But
\* from the first card down none is left out: between it and any older card no event of
\* the filter is missing.  (More events than there are cards between two pages put a
\* newer page below an older one; above the first card events may then be missing.)
FeedHasNoGap ==
  \A c \in Cards : \A id \in c..feed[1].id : Fits(id, onlyCritical) => id \in Cards

BadgeAwaited == \E q \in wire : q.ask \in {"feed", "fed", "count", "counted"} /\ q.badge = badgeSeq

\* Once the last answer is in, the badge is of the view and filter on screen and counts
\* nothing that the user was told is acknowledged.
BadgeFits ==
  ~BadgeAwaited /\ ~unanswered =>
    /\ badge.critical = (shownView = "events" /\ onlyCritical)
    /\ badge.seen \cap mine = {}

\* Feed and badge, whichever answers are late, lost or out of order
\* (events.js, loadEvents, refreshEventBadge, acknowledgeEvent).
FeedIsTrue == FeedHasNoGap /\ BadgeFits
=============================================================================
