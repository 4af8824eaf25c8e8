----------------------------- MODULE ClientProofs -----------------------------
(***************************************************************************)
(* Theorems about the parts that ask another program and must not mistake  *)
(* its answers, for any value of the constants: when a collector asks and  *)
(* how it backs off (CollectorBackoff), the comparison of channels         *)
(* in the browser (ChannelCompare), the drivers' sessions and logins at the *)
(* modem (ModemSession, SurfboardDriver), the refresh of the dashboard     *)
(* (DashboardRefresh) and the event log (EventFeed).                       *)
(***************************************************************************)
EXTENDS CollectorBackoff, ChannelCompare, ModemSession, SurfboardDriver, DashboardRefresh, EventFeed,
        FiniteSetTheorems, SequenceTheorems, TLAPS

---------------------------------------------------------------------------
(***************************************************************************)
(* Comparing channels (ChannelCompare).                                    *)
(***************************************************************************)
Tabs     == Ranges \cup {Min(Ranges)}
Requests == [seq : Nat, of : SUBSET Channel, dir : Sides, rangeTab : Tabs]

CompareTypeOK ==
  /\ compareDir \in Sides /\ chosen \in SUBSET Channel
  /\ \A d \in Sides : saved[d].channels \in SUBSET Channel
  /\ rangeTab \in Tabs /\ options \in SUBSET Channel
  /\ compareSeq \in Nat
  /\ {histories, weathers} \subseteq SUBSET Requests
  /\ chartsShown \in BOOLEAN /\ message \in BOOLEAN

NewAsk == [seq |-> compareSeq, of |-> chosen, dir |-> compareDir, rangeTab |-> rangeTab]

\* A request that still counts asks for the choice, direction and range of now.
AsksAreOfNow ==
  \A q \in histories \cup weathers :
    /\ q.seq <= compareSeq
    /\ Current(q) => q = NewAsk

\* Visible charts have their data, and nothing newer is on its way.
ChartsAreOfNow ==
  chartsShown => /\ ~Awaited(histories)
                 /\ context = [of |-> chosen, dir |-> compareDir, rangeTab |-> rangeTab]

CompareInv == CompareTypeOK /\ AsksAreOfNow /\ ChartsAreOfNow /\ ComparedIsChosen

LEMMA CompareInitInv == CompareInit => CompareInv
<1> SUFFICES ASSUME CompareInit PROVE CompareInv
  OBVIOUS
<1> USE DEF CompareInit
<1>1. CompareTypeOK
  BY DEF CompareTypeOK, Sides, Tabs, Empty
<1>2. AsksAreOfNow /\ ChartsAreOfNow
  BY DEF AsksAreOfNow, ChartsAreOfNow
<1>3. ComparedIsChosen
  BY DEF ComparedIsChosen, ShownIsChosen, ChoiceIsAnswered
<1>4. QED
  BY <1>1, <1>2, <1>3 DEF CompareInv

\* A new choice: what was asked before no longer counts, and the charts are hidden
\* until an answer comes or a text is shown.
LEMMA AskedAnew ==
  ASSUME CompareInv, CompareTypeOK', compareSeq' > compareSeq, chartsShown' = FALSE, weathers' = weathers,
         histories' \subseteq histories \cup {NewAsk'},
         chosen' # {} => message' \/ NewAsk' \in histories'
  PROVE  CompareInv'
<1> USE DEF CompareInv
<1>1. NewAsk'.seq = compareSeq'
  BY DEF NewAsk
<1>2. \A q \in histories \cup weathers : q.seq \in Nat /\ q.seq <= compareSeq
  BY DEF AsksAreOfNow, CompareTypeOK, Requests
<1>3. compareSeq \in Nat /\ compareSeq' \in Nat
  BY DEF CompareTypeOK
<1>4. \A q \in histories \cup weathers : q.seq <= compareSeq' /\ q.seq # compareSeq'
  BY <1>2, <1>3
<1>5. AsksAreOfNow'
  BY <1>1, <1>3, <1>4 DEF AsksAreOfNow, Current
<1>6. ChartsAreOfNow' /\ ShownIsChosen'
  BY DEF ChartsAreOfNow, ShownIsChosen
<1>7. ChoiceIsAnswered'
  BY <1>1 DEF ChoiceIsAnswered, Awaited, Current
<1>8. QED
  BY <1>5, <1>6, <1>7 DEF ComparedIsChosen

\* The choice is as it was, and nothing arrives but perhaps a text.
LEMMA ChoiceKept ==
  ASSUME CompareInv, CompareTypeOK', message' \in {message, TRUE},
         UNCHANGED <<compareDir, chosen, rangeTab, compareSeq, histories, weathers, context, chartsShown, drawn>>
  PROVE  CompareInv'
  BY DEF CompareInv, AsksAreOfNow, ChartsAreOfNow, ComparedIsChosen, ShownIsChosen, ChoiceIsAnswered,
         Awaited, Current, NewAsk

LEMMA LoadAsks ==
  ASSUME CompareTypeOK, NEW channels \in SUBSET Channel, NEW dir \in Sides, NEW r \in Tabs, NEW used \in {0, 1},
         LoadCharts(channels, dir, r, used)
  PROVE  /\ compareSeq' \in Nat /\ compareSeq' > compareSeq /\ chartsShown' = FALSE /\ message' \in BOOLEAN
         /\ histories' \in SUBSET Requests
         /\ channels = chosen' /\ dir = compareDir' /\ r = rangeTab' =>
              /\ histories' \subseteq histories \cup {NewAsk'}
              /\ chosen' # {} => NewAsk' \in histories'
<1> DEFINE n == compareSeq + used + 1
           ask == [seq |-> n, of |-> channels, dir |-> dir, rangeTab |-> r]
<1>1. n \in Nat /\ n > compareSeq /\ compareSeq' = n /\ chartsShown' = FALSE
  BY DEF CompareTypeOK, LoadCharts
<1>2. message' \in BOOLEAN
  BY DEF LoadCharts
<1>3. histories' \in {histories, histories \cup {ask}} /\ (channels # {} => ask \in histories')
  BY DEF LoadCharts
<1>4. ask \in Requests /\ histories \in SUBSET Requests
  BY <1>1 DEF Requests, CompareTypeOK
<1>5. histories' \in SUBSET Requests
  <2> HIDE DEF ask
  <2>1. QED
    BY <1>3, <1>4
<1>6. ASSUME channels = chosen', dir = compareDir', r = rangeTab' PROVE NewAsk' = ask
  BY <1>1, <1>6 DEF NewAsk
<1> HIDE DEF n, ask
<1>7. QED
  BY <1>1, <1>2, <1>3, <1>5, <1>6

LEMMA ClearAsks ==
  ASSUME CompareTypeOK, NEW text \in BOOLEAN, ClearCharts(text)
  PROVE  /\ compareSeq' \in Nat /\ compareSeq' > compareSeq /\ chartsShown' = FALSE /\ message' = text
         /\ histories' = histories
  BY DEF CompareTypeOK, ClearCharts

LEMMA ListedChannels == \A d : Listed(d) \in SUBSET Channel
  BY DEF Listed

---------------------------------------------------------------------------
\* What the user does.
LEMMA ChangeDirectionCompare ==
  ASSUME CompareInv, NEW d \in Sides, ChangeDirection(d) PROVE CompareInv'
<1>0. CompareTypeOK
  BY DEF CompareInv
<1>1. /\ compareDir' = d /\ chosen' = saved'[d].channels /\ saved' = [saved EXCEPT ![compareDir] = [channels |-> chosen, preset |-> preset]]
      /\ rangeTab' = rangeTab /\ options' = options /\ weathers' = weathers
  BY DEF ChangeDirection
<1>2. chosen' \in SUBSET Channel /\ \A e \in Sides : saved'[e].channels \in SUBSET Channel
  BY <1>0, <1>1 DEF CompareTypeOK
<1>3. CASE chosen' # {}
  <2>1. LoadCharts(chosen', compareDir', rangeTab', 1)
    BY <1>1, <1>3 DEF ChangeDirection
  <2>2. /\ compareSeq' \in Nat /\ compareSeq' > compareSeq /\ chartsShown' = FALSE /\ message' \in BOOLEAN
        /\ histories' \in SUBSET Requests /\ histories' \subseteq histories \cup {NewAsk'}
        /\ NewAsk' \in histories'
    BY <1>0, <1>1, <1>2, <1>3, <2>1, LoadAsks DEF CompareTypeOK
  <2>3. CompareTypeOK'
    BY <1>0, <1>1, <1>2, <2>2 DEF CompareTypeOK
  <2>4. QED
    BY <1>1, <2>2, <2>3, AskedAnew
<1>4. CASE chosen' = {}
  <2>1. /\ compareSeq' \in Nat /\ compareSeq' > compareSeq /\ chartsShown' = FALSE /\ message' = TRUE
        /\ histories' = histories
    BY <1>0, <1>4, ClearAsks DEF ChangeDirection
  <2>2. CompareTypeOK'
    BY <1>0, <1>1, <1>2, <2>1 DEF CompareTypeOK
  <2>3. QED
    BY <1>1, <1>4, <2>1, <2>2, AskedAnew
<1>5. QED
  BY <1>3, <1>4

LEMMA ChangeRangeCompare ==
  ASSUME CompareInv, NEW r \in Ranges, ChangeRange(r) PROVE CompareInv'
<1>0. CompareTypeOK
  BY DEF CompareInv
<1>1. LoadCharts(chosen', compareDir', rangeTab', 0) /\ rangeTab' \in Tabs
      /\ UNCHANGED <<compareDir, chosen, saved, options, weathers>>
  BY DEF ChangeRange, Tabs
<1>2. /\ compareSeq' \in Nat /\ compareSeq' > compareSeq /\ chartsShown' = FALSE /\ message' \in BOOLEAN
      /\ histories' \in SUBSET Requests /\ histories' \subseteq histories \cup {NewAsk'}
      /\ chosen' # {} => NewAsk' \in histories'
  BY <1>0, <1>1, LoadAsks DEF CompareTypeOK
<1>3. CompareTypeOK'
  BY <1>0, <1>1, <1>2 DEF CompareTypeOK
<1>4. QED
  BY <1>1, <1>2, <1>3, AskedAnew

LEMMA AddChannelCompare ==
  ASSUME CompareInv, NEW c \in Channel, AddChannel(c) PROVE CompareInv'
<1>0. CompareTypeOK
  BY DEF CompareInv
<1>1. /\ chosen' = chosen \cup {c} /\ chosen' \in SUBSET Channel
      /\ UNCHANGED <<compareDir, saved, rangeTab, options, weathers, context, drawn>>
  BY <1>0 DEF AddChannel, CompareTypeOK
<1>2. CASE c \in chosen
  <2>1. chosen' = chosen /\ UNCHANGED <<compareSeq, chartsShown, message, histories>>
    BY <1>1, <1>2 DEF AddChannel
  <2>2. CompareTypeOK'
    BY <1>0, <1>1, <2>1 DEF CompareTypeOK
  <2>3. QED
    BY <1>1, <2>1, <2>2, ChoiceKept
<1>3. CASE c \notin chosen
  <2>1. LoadCharts(chosen', compareDir', rangeTab', 0)
    BY <1>1, <1>3 DEF AddChannel
  <2>2. /\ compareSeq' \in Nat /\ compareSeq' > compareSeq /\ chartsShown' = FALSE /\ message' \in BOOLEAN
        /\ histories' \in SUBSET Requests /\ histories' \subseteq histories \cup {NewAsk'}
        /\ chosen' # {} => NewAsk' \in histories'
    BY <1>0, <1>1, <2>1, LoadAsks DEF CompareTypeOK
  <2>3. CompareTypeOK'
    BY <1>0, <1>1, <2>2 DEF CompareTypeOK
  <2>4. QED
    BY <1>1, <2>2, <2>3, AskedAnew
<1>4. QED
  BY <1>2, <1>3

LEMMA RemoveChannelCompare ==
  ASSUME CompareInv, NEW c \in Channel, RemoveChannel(c) PROVE CompareInv'
<1>0. CompareTypeOK
  BY DEF CompareInv
<1>1. /\ chosen' \in SUBSET Channel
      /\ UNCHANGED <<compareDir, saved, rangeTab, options, weathers>>
  BY <1>0 DEF RemoveChannel, CompareTypeOK
<1>2. CASE chosen' # {}
  <2>1. LoadCharts(chosen', compareDir', rangeTab', 0)
    BY <1>1, <1>2 DEF RemoveChannel
  <2>2. /\ compareSeq' \in Nat /\ compareSeq' > compareSeq /\ chartsShown' = FALSE /\ message' \in BOOLEAN
        /\ histories' \in SUBSET Requests /\ histories' \subseteq histories \cup {NewAsk'}
        /\ NewAsk' \in histories'
    BY <1>0, <1>1, <1>2, <2>1, LoadAsks DEF CompareTypeOK
  <2>3. CompareTypeOK'
    BY <1>0, <1>1, <2>2 DEF CompareTypeOK
  <2>4. QED
    BY <1>1, <2>2, <2>3, AskedAnew
<1>3. CASE chosen' = {}
  <2>1. /\ compareSeq' \in Nat /\ compareSeq' > compareSeq /\ chartsShown' = FALSE /\ message' = message
        /\ histories' = histories
    BY <1>0, <1>3, ClearAsks DEF RemoveChannel, CompareTypeOK
  <2>2. CompareTypeOK'
    BY <1>0, <1>1, <2>1 DEF CompareTypeOK
  <2>3. QED
    BY <1>1, <1>3, <2>1, <2>2, AskedAnew
<1>4. QED
  BY <1>2, <1>3

\* Clear, by itself or because there is nothing to add.
LEMMA ClearedCompare ==
  ASSUME CompareInv, ClearChannels, UNCHANGED <<compareDir, rangeTab, options, weathers>> PROVE CompareInv'
<1>0. CompareTypeOK
  BY DEF CompareInv
<1>1. /\ chosen' = {} /\ saved' = [saved EXCEPT ![compareDir] = Empty]
      /\ compareSeq' \in Nat /\ compareSeq' > compareSeq /\ chartsShown' = FALSE /\ message' = TRUE
      /\ histories' = histories
  BY <1>0, ClearAsks DEF ClearChannels
<1>2. \A d \in Sides : saved'[d].channels \in SUBSET Channel
  BY <1>0, <1>1 DEF CompareTypeOK, Empty
<1>3. CompareTypeOK'
  BY <1>0, <1>1, <1>2 DEF CompareTypeOK
<1>4. QED
  BY <1>1, <1>3, AskedAnew

LEMMA AllListedCompare ==
  ASSUME CompareInv, NEW d \in Sides, AllListed(d) PROVE CompareInv'
<1>0. CompareTypeOK
  BY DEF CompareInv
<1>1. CASE ClearChannels /\ options' = options
  BY <1>1, ClearedCompare DEF AllListed
<1>2. CASE ~(ClearChannels /\ options' = options)
  <2>1. /\ chosen' = Listed(d) /\ options' = Listed(compareDir) \ chosen'
        /\ UNCHANGED <<compareDir, saved, rangeTab, weathers>>
        /\ LoadCharts(chosen', compareDir', rangeTab', 0)
    BY <1>2 DEF AllListed
  <2>2. chosen' \in SUBSET Channel /\ options' \in SUBSET Channel
    BY <2>1, ListedChannels
  <2>3. /\ compareSeq' \in Nat /\ compareSeq' > compareSeq /\ chartsShown' = FALSE /\ message' \in BOOLEAN
        /\ histories' \in SUBSET Requests /\ histories' \subseteq histories \cup {NewAsk'}
        /\ chosen' # {} => NewAsk' \in histories'
    BY <1>0, <2>1, <2>2, LoadAsks DEF CompareTypeOK
  <2>4. CompareTypeOK'
    BY <1>0, <2>1, <2>2, <2>3 DEF CompareTypeOK
  <2>5. QED
    BY <2>1, <2>3, <2>4, AskedAnew
<1>3. QED
  BY <1>1, <1>2

---------------------------------------------------------------------------
\* What arrives.
LEMMA HistoryCompare ==
  ASSUME CompareInv, NEW q \in histories, HistoryArrives(q) \/ HistoryEmpty(q) PROVE CompareInv'
<1>0. CompareTypeOK /\ AsksAreOfNow /\ ChartsAreOfNow /\ ComparedIsChosen
  BY DEF CompareInv
<1>1. CASE HistoryArrives(q) /\ Current(q)
  <2>1. /\ histories' = histories \ {q} /\ weathers' = weathers \cup {q} /\ chartsShown' = TRUE
        /\ context' = [of |-> q.of, dir |-> q.dir, rangeTab |-> q.rangeTab]
        /\ UNCHANGED <<compareDir, chosen, saved, rangeTab, options, compareSeq, drawn, message>>
    BY <1>1 DEF HistoryArrives
  <2>2. q = NewAsk /\ NewAsk' = NewAsk
    BY <1>0, <1>1, <2>1 DEF AsksAreOfNow, NewAsk
  <2>3. CompareTypeOK'
    BY <1>0, <2>1 DEF CompareTypeOK
  <2>4. AsksAreOfNow'
    BY <1>0, <2>1, <2>2 DEF AsksAreOfNow, Current
  <2>5. ~Awaited(histories)'
    BY <1>0, <2>1, <2>2 DEF AsksAreOfNow, Awaited, Current
  <2>6. ChartsAreOfNow'
    BY <2>1, <2>2, <2>5 DEF ChartsAreOfNow, NewAsk
  <2>7. ComparedIsChosen'
    BY <1>1, <2>1 DEF ComparedIsChosen, ShownIsChosen, ChoiceIsAnswered, Awaited, Current
  <2>8. QED
    BY <2>3, <2>4, <2>6, <2>7 DEF CompareInv
<1>2. CASE HistoryArrives(q) /\ ~Current(q)
  <2>1. /\ histories' = histories \ {q}
        /\ UNCHANGED <<compareDir, chosen, saved, rangeTab, options, compareSeq, drawn, message, chartsShown, context, weathers>>
    BY <1>2 DEF HistoryArrives
  <2>2. CompareTypeOK'
    BY <1>0, <2>1 DEF CompareTypeOK
  <2>3. NewAsk' = NewAsk /\ Awaited(histories)' = Awaited(histories) /\ Awaited(weathers)' = Awaited(weathers)
    BY <1>2, <2>1 DEF NewAsk, Awaited, Current
  <2>4. AsksAreOfNow' /\ ChartsAreOfNow' /\ ComparedIsChosen'
    BY <1>0, <2>1, <2>3 DEF AsksAreOfNow, ChartsAreOfNow, ComparedIsChosen, ShownIsChosen, ChoiceIsAnswered, Current
  <2>5. QED
    BY <2>2, <2>4 DEF CompareInv
<1>3. CASE HistoryEmpty(q)
  <2>1. /\ histories' = histories \ {q} /\ Current(q) /\ message' = TRUE
        /\ compareSeq' = compareSeq + 1 \/ UNCHANGED <<compareSeq, context>>
        /\ UNCHANGED <<compareDir, chosen, saved, rangeTab, options, weathers, chartsShown, drawn>>
    BY <1>3 DEF HistoryEmpty
  <2>2. chartsShown = FALSE
    BY <1>0, <2>1 DEF ChartsAreOfNow, Awaited, CompareTypeOK
  <2>3. CompareTypeOK'
    BY <1>0, <2>1 DEF CompareTypeOK
  <2>4. CASE compareSeq' = compareSeq + 1
    <3>1. compareSeq' > compareSeq
      BY <1>0, <2>4 DEF CompareTypeOK
    <3>2. QED
      BY <2>1, <2>2, <2>3, <3>1, AskedAnew
  <2>5. CASE UNCHANGED <<compareSeq, context>>
    <3>1. AsksAreOfNow'
      BY <1>0, <2>1, <2>5 DEF AsksAreOfNow, Current, NewAsk
    <3>2. ChartsAreOfNow' /\ ComparedIsChosen'
      BY <2>1, <2>2 DEF ChartsAreOfNow, ComparedIsChosen, ShownIsChosen, ChoiceIsAnswered
    <3>3. QED
      BY <2>3, <3>1, <3>2 DEF CompareInv
  <2>6. QED
    BY <2>1, <2>4, <2>5
<1>4. QED
  BY <1>1, <1>2, <1>3

\* Drawing again shows the choice of now.
LEMMA DrawnCompare ==
  ASSUME CompareInv, ToggleOverlay \/ \E q \in weathers : WeatherArrives(q) PROVE CompareInv'
<1>0. CompareTypeOK /\ AsksAreOfNow /\ ChartsAreOfNow /\ ComparedIsChosen
  BY DEF CompareInv
<1>1. /\ UNCHANGED <<compareDir, chosen, saved, rangeTab, options, compareSeq, histories, context, chartsShown, message>>
      /\ \/ drawn' = Render /\ weathers' \subseteq weathers
         \/ drawn' = drawn /\ Awaited(weathers)' = Awaited(weathers) /\ weathers' \subseteq weathers
  BY DEF ToggleOverlay, WeatherArrives, Awaited, Current
<1>2. CompareTypeOK'
  BY <1>0, <1>1 DEF CompareTypeOK
<1>3. chartsShown => Render = [channels |-> chosen, data |-> [of |-> chosen, dir |-> compareDir, rangeTab |-> rangeTab]]
  <2> SUFFICES ASSUME chartsShown
               PROVE  Render = [channels |-> chosen, data |-> [of |-> chosen, dir |-> compareDir, rangeTab |-> rangeTab]]
    OBVIOUS
  <2>1. context = [of |-> chosen, dir |-> compareDir, rangeTab |-> rangeTab]
    BY <1>0 DEF ChartsAreOfNow
  <2>2. context # NoData
    BY <1>0, <2>1 DEF NoData, CompareTypeOK, Sides
  <2>3. QED
    BY <2>1, <2>2 DEF Render
<1>4. NewAsk' = NewAsk
  BY <1>1 DEF NewAsk
<1>5. AsksAreOfNow' /\ ChartsAreOfNow'
  BY <1>0, <1>1, <1>4 DEF AsksAreOfNow, ChartsAreOfNow, Awaited, Current
<1>6. ShownIsChosen'
  BY <1>0, <1>1, <1>3 DEF ComparedIsChosen, ShownIsChosen
<1>7. ChoiceIsAnswered'
  BY <1>0, <1>1 DEF ComparedIsChosen, ChoiceIsAnswered, Awaited, Current
<1>8. QED
  BY <1>2, <1>5, <1>6, <1>7 DEF CompareInv, ComparedIsChosen

LEMMA CompareNextInv == CompareInv /\ [CompareNext]_compareVars => CompareInv'
<1> SUFFICES ASSUME CompareInv, [CompareNext]_compareVars PROVE CompareInv'
  OBVIOUS
<1>1. CASE UserChooses
  <2>1. CASE \E dir \in Sides : ChangeDirection(dir) \/ AllListed(dir)
    BY <2>1, ChangeDirectionCompare, AllListedCompare
  <2>2. CASE \E r \in Ranges : ChangeRange(r)
    BY <2>2, ChangeRangeCompare
  <2>3. CASE \E c \in Channel : AddChannel(c) \/ RemoveChannel(c)
    BY <2>3, AddChannelCompare, RemoveChannelCompare
  <2>4. CASE ClickClear
    BY <2>4, ClearedCompare DEF ClickClear
  <2>5. CASE ClickAddAll
    BY <2>5, ChoiceKept DEF ClickAddAll, CompareInv, CompareTypeOK
  <2>6. QED
    BY <1>1, <2>1, <2>2, <2>3, <2>4, <2>5 DEF UserChooses
<1>2. CASE ListArrives \/ ListFails \/ UNCHANGED compareVars
  <2>1. CompareTypeOK'
    BY <1>2, ListedChannels DEF ListArrives, ListFails, compareVars, CompareInv, CompareTypeOK
  <2>2. QED
    BY <1>2, <2>1, ChoiceKept DEF ListArrives, ListFails, compareVars
<1>3. QED
  BY <1>1, <1>2, HistoryCompare, DrawnCompare DEF CompareNext

\* Visible charts hold the channels chosen now from their own history, and a choice is
\* loading, shown or explained, however many requests are under way (channels.js).
THEOREM ComparisonIsChosen == CompareSpec => []ComparedIsChosen
<1>1. CompareInv => ComparedIsChosen
  BY DEF CompareInv
<1>2. QED
  BY CompareInitInv, CompareNextInv, <1>1, PTL DEF CompareSpec

---------------------------------------------------------------------------
(***************************************************************************)
(* The session of the modem (ModemSession).                                *)
(***************************************************************************)
SessionTypeOK ==
  /\ session \in DriverPair \cup {Operator, NoClient}
  /\ phase \in [DriverPair -> {"idle", "logout", "page", "model", "login", "query", "gone"}]
  /\ call \in [DriverPair -> 0..LastCall] /\ logins \in [DriverPair -> Nat]
  /\ holds \in [DriverPair -> BOOLEAN] /\ inStep \in [DriverPair -> BOOLEAN]
  /\ loggedIn \in [DriverPair -> BOOLEAN] /\ reauth \in [DriverPair -> BOOLEAN]
  /\ model \in [DriverPair -> BOOLEAN] /\ retired \in [DriverPair -> BOOLEAN]

LoggingIn == {"page", "model", "login"}

\* A driver on its way into a session has given up the one it had.
HandedBack(d) ==
  /\ session = d => holds[d] \/ d \in stray
  /\ phase[d] \in LoggingIn => ~holds[d] /\ ~loggedIn[d]

\* A login in the middle of a poll is the second chance of its call, which is used up
\* then; a driver that believes in its session has had no login in this call before.
OneLogin(d) ==
  /\ logins[d] <= 1
  /\ phase[d] = "idle" => call[d] = 0
  /\ phase[d] \in LoggingIn \cup {"logout"} => call[d] = 0 \/ reauth[d]
  /\ phase[d] = "query" /\ loggedIn[d] /\ ~reauth[d] => logins[d] = 0

SessionInv == SessionTypeOK /\ \A d \in DriverPair : HandedBack(d) /\ OneLogin(d)

LEMMA SessionInitInv == SessionInit => SessionInv
  BY ModemSessionAssumption
     DEF SessionInit, SessionInv, SessionTypeOK, HandedBack, OneLogin, LoggingIn, LastCall

\* What a step of one driver has to keep: its own part, the session of the others.
LEMMA DriverStep ==
  ASSUME SessionInv, SessionTypeOK', NEW d \in DriverPair,
         \A e \in DriverPair \ {d} :
           /\ phase'[e] = phase[e] /\ call'[e] = call[e] /\ holds'[e] = holds[e]
           /\ loggedIn'[e] = loggedIn[e] /\ reauth'[e] = reauth[e] /\ logins'[e] = logins[e]
           /\ e \in stray => e \in stray',
         session' \in {session, d, NoClient, Operator},
         HandedBack(d)', OneLogin(d)'
  PROVE  SessionInv'
<1>1. ASSUME NEW e \in DriverPair \ {d} PROVE HandedBack(e)' /\ OneLogin(e)'
  <2>1. HandedBack(e) /\ OneLogin(e)
    BY DEF SessionInv
  <2>2. HandedBack(e)'
    BY <2>1, ModemSessionAssumption DEF HandedBack
  <2>3. OneLogin(e)'
    BY <2>1 DEF OneLogin
  <2>4. QED
    BY <2>2, <2>3
<1>2. QED
  BY <1>1 DEF SessionInv

\* Where a driver goes on, or gives up, the counts of its call are in order.
Moved(d, p, c) == phase' = [phase EXCEPT ![d] = p] /\ call' = [call EXCEPT ![d] = c]

LEMMA GoToMoves ==
  ASSUME SessionTypeOK, NEW d \in DriverPair, NEW n \in 1..(LastCall + 1), GoTo(d, n)
  PROVE  /\ \/ n > LastCall /\ Moved(d, "idle", 0)
            \/ n <= LastCall /\ Moved(d, "query", n)
         /\ \/ n \in {1, 2} /\ reauth' = [reauth EXCEPT ![d] = FALSE] /\ logins' = [logins EXCEPT ![d] = 0]
            \/ UNCHANGED <<reauth, logins>>
<1>1. n > LastCall => Moved(d, "idle", 0)
  BY DEF GoTo, Moved
<1>2. ~(n > LastCall) => Moved(d, "query", n)
  BY DEF GoTo, Moved
<1>3. n <= LastCall \/ n > LastCall
  BY ModemSessionAssumption DEF LastCall
<1>4. \/ n \in {1, 2} /\ reauth' = [reauth EXCEPT ![d] = FALSE] /\ logins' = [logins EXCEPT ![d] = 0]
      \/ UNCHANGED <<reauth, logins>>
  BY DEF GoTo
<1>5. QED
  BY <1>1, <1>2, <1>3, <1>4, ModemSessionAssumption DEF LastCall

\* The first call of a poll.
LEMMA GoToFirst ==
  ASSUME NEW d \in DriverPair, GoTo(d, 1)
  PROVE  Moved(d, "query", 1) /\ reauth' = [reauth EXCEPT ![d] = FALSE] /\ logins' = [logins EXCEPT ![d] = 0]
<1>1. ~(1 > LastCall)
  BY ModemSessionAssumption DEF LastCall
<1>2. QED
  BY <1>1 DEF GoTo, Moved

LEMMA RaiseMoves ==
  ASSUME SessionTypeOK, NEW d \in DriverPair, Raise(d)
  PROVE  /\ \/ Moved(d, "idle", 0)
            \/ call[d] + 1 \in 1..LastCall /\ Moved(d, "query", call[d] + 1)
         /\ \/ reauth' = [reauth EXCEPT ![d] = FALSE] /\ logins' = [logins EXCEPT ![d] = 0]
            \/ UNCHANGED <<reauth, logins>>
<1>1. CASE call[d] \in {0} \cup Required
  BY <1>1 DEF Raise, Moved
<1>2. CASE call[d] \notin {0} \cup Required
  <2>1. GoTo(d, call[d] + 1) /\ call[d] + 1 \in 1..(LastCall + 1)
    BY <1>2, ModemSessionAssumption DEF Raise, SessionTypeOK, LastCall
  <2>2. QED
    BY <2>1, GoToMoves
<1>3. QED
  BY <1>1, <1>2

\* A driver's step, variable by variable, keeps the types.
Set1(f, d, x) == [f EXCEPT ![d] = x]
Flag(f, g, d) == g \in {f, Set1(f, d, TRUE), Set1(f, d, FALSE)}

LEMMA FlagType ==
  ASSUME NEW f \in [DriverPair -> BOOLEAN], NEW g, NEW d \in DriverPair, Flag(f, g, d)
  PROVE  g \in [DriverPair -> BOOLEAN]
  BY DEF Flag, Set1

LEMMA StepTyped ==
  ASSUME SessionTypeOK, NEW d \in DriverPair, session' \in {session, d, NoClient},
         NEW p \in {"idle", "logout", "page", "model", "login", "query", "gone"}, phase' = Set1(phase, d, p),
         NEW c \in 0..LastCall, call' = Set1(call, d, c),
         NEW k \in Nat, logins' = Set1(logins, d, k),
         Flag(holds, holds', d), Flag(inStep, inStep', d), Flag(loggedIn, loggedIn', d),
         Flag(reauth, reauth', d), Flag(model, model', d), Flag(retired, retired', d)
  PROVE  SessionTypeOK'
<1>1. session' \in DriverPair \cup {Operator, NoClient}
  BY DEF SessionTypeOK
<1>2. phase' \in [DriverPair -> {"idle", "logout", "page", "model", "login", "query", "gone"}]
  BY DEF SessionTypeOK, Set1
<1>3. call' \in [DriverPair -> 0..LastCall] /\ logins' \in [DriverPair -> Nat]
  BY DEF SessionTypeOK, Set1
<1>4. /\ holds' \in [DriverPair -> BOOLEAN] /\ inStep' \in [DriverPair -> BOOLEAN]
      /\ loggedIn' \in [DriverPair -> BOOLEAN] /\ reauth' \in [DriverPair -> BOOLEAN]
      /\ model' \in [DriverPair -> BOOLEAN] /\ retired' \in [DriverPair -> BOOLEAN]
  BY FlagType DEF SessionTypeOK
<1>5. QED
  BY <1>1, <1>2, <1>3, <1>4 DEF SessionTypeOK

\* The same for the moves above.
LEMMA MoveTyped ==
  ASSUME SessionTypeOK, NEW d \in DriverPair, session' \in {session, d, NoClient},
         \/ Moved(d, "idle", 0)
         \/ \E c \in 0..LastCall : Moved(d, "query", c)
         \/ phase' \in {Set1(phase, d, "login"), Set1(phase, d, "model"), Set1(phase, d, "logout")} /\ call' = call,
         logins' \in {logins, Set1(logins, d, 0), Set1(logins, d, logins[d] + 1)},
         Flag(holds, holds', d), Flag(inStep, inStep', d), Flag(loggedIn, loggedIn', d),
         Flag(reauth, reauth', d), Flag(model, model', d), Flag(retired, retired', d)
  PROVE  SessionTypeOK'
<1>1. \E p \in {"idle", "logout", "page", "model", "login", "query", "gone"} : phase' = Set1(phase, d, p)
  BY DEF Moved, Set1
<1>2. \E c \in 0..LastCall : call' = Set1(call, d, c)
  BY ModemSessionAssumption DEF Moved, Set1, SessionTypeOK, LastCall
<1>3. \E k \in Nat : logins' = Set1(logins, d, k)
  BY DEF Set1, SessionTypeOK
<1>4. QED
  BY <1>1, <1>2, <1>3, StepTyped

LEMMA SessionNextInv == SessionInv /\ [SessionNext]_sessionVars => SessionInv'
<1> SUFFICES ASSUME SessionInv, [SessionNext]_sessionVars PROVE SessionInv'
  OBVIOUS
<1> USE ModemSessionAssumption
<1>0. SessionTypeOK /\ \A d \in DriverPair : HandedBack(d) /\ OneLogin(d)
  BY DEF SessionInv
<1>1. ASSUME NEW d \in DriverPair, BeginModemPoll(d) PROVE SessionInv'
  <2>1. phase[d] = "idle" /\ UNCHANGED <<session, holds, inStep, loggedIn, model, retired, stray>>
    BY <1>1 DEF BeginModemPoll
  <2>2. CASE loggedIn[d]
    <3>1. GoTo(d, 1)
      BY <1>1, <2>2 DEF BeginModemPoll
    <3>2. Moved(d, "query", 1) /\ reauth' = [reauth EXCEPT ![d] = FALSE] /\ logins' = [logins EXCEPT ![d] = 0]
      BY <3>1, GoToFirst
    <3>3. SessionTypeOK'
      BY <1>0, <2>1, <3>2 DEF SessionTypeOK, Moved, LastCall
    <3>4. HandedBack(d)' /\ OneLogin(d)'
      BY <1>0, <2>1, <3>2 DEF SessionTypeOK, HandedBack, OneLogin, Moved, LoggingIn
    <3>5. QED
      BY <1>0, <2>1, <3>2, <3>3, <3>4, DriverStep DEF SessionTypeOK, Moved
  <2>3. CASE ~loggedIn[d]
    <3>1. /\ phase' = [phase EXCEPT ![d] = "logout"] /\ logins' = [logins EXCEPT ![d] = 1]
          /\ UNCHANGED <<call, reauth>>
      BY <1>1, <2>3 DEF BeginModemPoll
    <3>2. SessionTypeOK'
      BY <1>0, <2>1, <3>1 DEF SessionTypeOK
    <3>3. HandedBack(d)' /\ OneLogin(d)'
      BY <1>0, <2>1, <3>1 DEF SessionTypeOK, HandedBack, OneLogin, LoggingIn
    <3>4. QED
      BY <1>0, <2>1, <3>1, <3>2, <3>3, DriverStep DEF SessionTypeOK
  <2>4. QED
    BY <2>2, <2>3
<1>2. ASSUME NEW d \in DriverPair, ReleaseSession(d) \/ Finalize(d) PROVE SessionInv'
  <2>1. PICK fate \in Fates : GiveBack(d, fate)
    BY <1>2 DEF ReleaseSession, Finalize
  <2>2. /\ holds' = [holds EXCEPT ![d] = FALSE] /\ inStep' = [inStep EXCEPT ![d] = FALSE]
        /\ session' \in {session, NoClient} /\ stray \subseteq stray'
        /\ session' = d => d \in stray'
    BY <1>0, <2>1 DEF GiveBack, HandedBack
  <2>3. /\ \/ phase[d] = "logout" /\ phase' = [phase EXCEPT ![d] = "page"] /\ loggedIn' = [loggedIn EXCEPT ![d] = FALSE]
           \/ phase[d] = "idle" /\ phase' = [phase EXCEPT ![d] = "gone"] /\ UNCHANGED loggedIn
        /\ UNCHANGED <<call, reauth, model, retired, logins>>
    BY <1>2 DEF ReleaseSession, Finalize
  <2>4. SessionTypeOK'
    BY <1>0, <2>2, <2>3 DEF SessionTypeOK
  <2>5. HandedBack(d)' /\ OneLogin(d)'
    BY <1>0, <2>2, <2>3 DEF SessionTypeOK, HandedBack, OneLogin, LoggingIn
  <2>6. QED
    BY <1>0, <2>2, <2>3, <2>4, <2>5, DriverStep DEF SessionTypeOK
<1>3. ASSUME NEW d \in DriverPair, GetLoginPage(d) \/ GetHardwareModel(d) PROVE SessionInv'
  <2>1. /\ phase[d] \in {"page", "model"} /\ UNCHANGED <<session, holds, loggedIn, retired, stray>>
        /\ inStep' \in {inStep, [inStep EXCEPT ![d] = TRUE], [inStep EXCEPT ![d] = FALSE]}
        /\ model' \in {model, [model EXCEPT ![d] = TRUE]}
        /\ \/ \E to \in {"login", "model"} : phase' = [phase EXCEPT ![d] = to] /\ UNCHANGED <<call, reauth, logins>>
           \/ Raise(d)
    BY <1>3 DEF GetLoginPage, GetHardwareModel
  <2>2. /\ \/ phase' \in {[phase EXCEPT ![d] = "login"], [phase EXCEPT ![d] = "model"]} /\ call' = call
           \/ Moved(d, "idle", 0)
           \/ call[d] + 1 \in 1..LastCall /\ Moved(d, "query", call[d] + 1)
        /\ \/ reauth' = [reauth EXCEPT ![d] = FALSE] /\ logins' = [logins EXCEPT ![d] = 0] /\ phase'[d] \notin LoggingIn
           \/ UNCHANGED <<reauth, logins>>
    BY <1>0, <2>1, RaiseMoves DEF Moved, LoggingIn, SessionTypeOK
  <2>3. SessionTypeOK'
    <3>1. \/ phase' \in {Set1(phase, d, "login"), Set1(phase, d, "model")} /\ call' = call
          \/ Moved(d, "idle", 0)
          \/ \E c \in 0..LastCall : Moved(d, "query", c)
      BY <2>2 DEF Set1
    <3>2. /\ Flag(holds, holds', d) /\ Flag(inStep, inStep', d) /\ Flag(loggedIn, loggedIn', d)
          /\ Flag(reauth, reauth', d) /\ Flag(model, model', d) /\ Flag(retired, retired', d)
          /\ logins' \in {logins, Set1(logins, d, 0)}
      BY <2>1, <2>2 DEF Flag, Set1
    <3>3. QED
      BY <1>0, <2>1, <3>1, <3>2, MoveTyped
  <2>4. HandedBack(d)' /\ OneLogin(d)'
    BY <1>0, <2>1, <2>2 DEF SessionTypeOK, HandedBack, OneLogin, LoggingIn, Moved
  <2>5. QED
    BY <1>0, <2>1, <2>2, <2>3, <2>4, DriverStep DEF SessionTypeOK, Moved
<1>4. ASSUME NEW d \in DriverPair, PostLogin(d) PROVE SessionInv'
  <2>1. PICK granted \in BOOLEAN, in \in BOOLEAN :
          /\ phase[d] = "login" /\ (in => granted) /\ (granted => session = NoClient)
          /\ session' = (IF granted THEN d ELSE session)
          /\ stray' = (IF ~granted THEN stray ELSE IF in THEN stray \ {d} ELSE stray \cup {d})
          /\ inStep' \in {[inStep EXCEPT ![d] = TRUE], [inStep EXCEPT ![d] = FALSE]}
          /\ holds' = [holds EXCEPT ![d] = in] /\ loggedIn' = [loggedIn EXCEPT ![d] = in]
          /\ UNCHANGED <<model, retired>>
          /\ \/ ~in /\ Raise(d)
             \/ in /\ call[d] = 0 /\ GoTo(d, 1)
             \/ in /\ call[d] > 0 /\ phase' = [phase EXCEPT ![d] = "query"] /\ UNCHANGED <<call, reauth, logins>>
    <3>1. PICK fate \in Fates :
            LET granted == fate /= "lost" /\ session = NoClient
                in      == granted /\ fate = "answered" IN
            /\ session' = (IF granted THEN d ELSE session)
            /\ stray' = (IF ~granted THEN stray ELSE IF in THEN stray \ {d} ELSE stray \cup {d})
            /\ inStep' = [inStep EXCEPT ![d] = (fate /= "unanswered")]
            /\ holds' = [holds EXCEPT ![d] = in] /\ loggedIn' = [loggedIn EXCEPT ![d] = in]
            /\ CASE ~in                -> Raise(d)
                 [] in /\ call[d] = 0 -> GoTo(d, 1)
                 [] in /\ call[d] > 0 -> phase' = [phase EXCEPT ![d] = "query"] /\ UNCHANGED <<call, reauth, logins>>
      BY <1>4 DEF PostLogin
    <3> DEFINE got == fate /= "lost" /\ session = NoClient
               in0 == got /\ fate = "answered"
    <3>2. got \in BOOLEAN /\ in0 \in BOOLEAN /\ (in0 => got) /\ (got => session = NoClient)
      OBVIOUS
    <3>3. call[d] = 0 \/ call[d] > 0
      BY <1>0 DEF SessionTypeOK, LastCall
    <3>4. \/ ~in0 /\ Raise(d)
          \/ in0 /\ call[d] = 0 /\ GoTo(d, 1)
          \/ in0 /\ call[d] > 0 /\ phase' = [phase EXCEPT ![d] = "query"] /\ UNCHANGED <<call, reauth, logins>>
      BY <3>1, <3>3
    <3>5. inStep' \in {[inStep EXCEPT ![d] = TRUE], [inStep EXCEPT ![d] = FALSE]}
      BY <3>1
    <3>6. /\ session' = (IF got THEN d ELSE session)
          /\ stray' = (IF ~got THEN stray ELSE IF in0 THEN stray \ {d} ELSE stray \cup {d})
          /\ holds' = [holds EXCEPT ![d] = in0] /\ loggedIn' = [loggedIn EXCEPT ![d] = in0]
      BY <3>1
    <3>7. phase[d] = "login" /\ UNCHANGED <<model, retired>>
      BY <1>4 DEF PostLogin
    <3> HIDE DEF got, in0
    <3>8. QED
      BY <3>2, <3>4, <3>5, <3>6, <3>7
  <2>2. /\ \/ Moved(d, "idle", 0) /\ ~in
           \/ ~in /\ call[d] + 1 \in 1..LastCall /\ Moved(d, "query", call[d] + 1)
           \/ in /\ call[d] = 0 /\ Moved(d, "query", 1) /\ logins'[d] = 0
           \/ in /\ call[d] > 0 /\ Moved(d, "query", call[d]) /\ UNCHANGED <<reauth, logins>>
        /\ \/ reauth' = [reauth EXCEPT ![d] = FALSE] /\ logins' = [logins EXCEPT ![d] = 0]
           \/ UNCHANGED <<reauth, logins>>
    <3>1. CASE ~in
      BY <1>0, <2>1, <3>1, RaiseMoves
    <3>2. CASE in /\ call[d] = 0
      <4>1. GoTo(d, 1)
        BY <2>1, <3>2
      <4>2. Moved(d, "query", 1) /\ reauth' = [reauth EXCEPT ![d] = FALSE] /\ logins' = [logins EXCEPT ![d] = 0]
        BY <4>1, GoToFirst
      <4>3. QED
        BY <1>0, <3>2, <4>2 DEF SessionTypeOK
    <3>3. CASE in /\ call[d] > 0
      BY <1>0, <2>1, <3>3 DEF Moved, SessionTypeOK
    <3>4. QED
      BY <1>0, <3>1, <3>2, <3>3 DEF SessionTypeOK
  <2>3. SessionTypeOK'
    <3>1. \/ Moved(d, "idle", 0)
          \/ \E c \in 0..LastCall : Moved(d, "query", c)
      BY <1>0, <2>2, ModemSessionAssumption DEF SessionTypeOK, LastCall
    <3>2. /\ Flag(holds, holds', d) /\ Flag(inStep, inStep', d) /\ Flag(loggedIn, loggedIn', d)
          /\ Flag(reauth, reauth', d) /\ Flag(model, model', d) /\ Flag(retired, retired', d)
          /\ logins' \in {logins, Set1(logins, d, 0)} /\ session' \in {session, d, NoClient}
      BY <2>1, <2>2 DEF Flag, Set1
    <3>3. QED
      BY <1>0, <3>1, <3>2, MoveTyped
  <2>4. HandedBack(d)'
    BY <1>0, <2>1, <2>2 DEF SessionTypeOK, HandedBack, LoggingIn, Moved
  <2>5. OneLogin(d)'
    BY <1>0, <2>1, <2>2 DEF SessionTypeOK, OneLogin, LoggingIn, Moved
  <2>6. QED
    BY <1>0, <2>1, <2>2, <2>3, <2>4, <2>5, DriverStep DEF SessionTypeOK, Moved
<1>5. ASSUME NEW d \in DriverPair, Query(d) PROVE SessionInv'
  <2>1. /\ phase[d] = "query" /\ UNCHANGED <<holds, model, retired, stray>>
        /\ session' \in {session, NoClient}
        /\ inStep' \in {inStep, [inStep EXCEPT ![d] = TRUE], [inStep EXCEPT ![d] = FALSE]}
        /\ \/ (Raise(d) \/ GoTo(d, call[d] + 1)) /\ UNCHANGED loggedIn
           \/ /\ MayLogInAgain(d)
              /\ reauth' = [reauth EXCEPT ![d] = TRUE] /\ loggedIn' = [loggedIn EXCEPT ![d] = FALSE]
              /\ phase' = [phase EXCEPT ![d] = "logout"] /\ logins' = [logins EXCEPT ![d] = @ + 1]
              /\ UNCHANGED call
    <3>1. PICK fate \in Fates, empty \in BOOLEAN :
            LET valid == session = d /\ holds[d] /\ inStep[d]
                gone  == ~valid \/ (empty /\ call[d] <= 3) IN
            /\ session' = (IF fate = "lost" THEN session ELSE Served(d))
            /\ inStep' = [inStep EXCEPT ![d] = IF fate = "lost" THEN @ ELSE fate = "answered"]
            /\ CASE fate /= "answered" -> Raise(d) /\ UNCHANGED loggedIn
                 [] fate = "answered" /\ ~gone -> GoTo(d, call[d] + 1) /\ UNCHANGED loggedIn
                 [] OTHER -> IF MayLogInAgain(d)
                             THEN /\ reauth' = [reauth EXCEPT ![d] = TRUE]
                                  /\ loggedIn' = [loggedIn EXCEPT ![d] = FALSE]
                                  /\ phase' = [phase EXCEPT ![d] = "logout"]
                                  /\ logins' = [logins EXCEPT ![d] = @ + 1]
                                  /\ UNCHANGED call
                             ELSE Raise(d) /\ UNCHANGED loggedIn
      BY <1>5 DEF Query
    <3>2. phase[d] = "query" /\ UNCHANGED <<holds, model, retired, stray>>
      BY <1>5 DEF Query
    <3>3. inStep' \in {inStep, [inStep EXCEPT ![d] = TRUE], [inStep EXCEPT ![d] = FALSE]}
      <4>1. CASE fate = "lost"
        BY <1>0, <3>1, <4>1 DEF SessionTypeOK
      <4>2. CASE fate # "lost"
        BY <3>1, <4>2
      <4>3. QED
        BY <4>1, <4>2
    <3>4. session' \in {session, NoClient}
      BY <3>1 DEF Served
    <3>5. \/ (Raise(d) \/ GoTo(d, call[d] + 1)) /\ UNCHANGED loggedIn
          \/ /\ MayLogInAgain(d)
             /\ reauth' = [reauth EXCEPT ![d] = TRUE] /\ loggedIn' = [loggedIn EXCEPT ![d] = FALSE]
             /\ phase' = [phase EXCEPT ![d] = "logout"] /\ logins' = [logins EXCEPT ![d] = @ + 1]
             /\ UNCHANGED call
      BY <3>1
    <3>6. QED
      BY <3>2, <3>3, <3>4, <3>5
  <2>2. CASE (Raise(d) \/ GoTo(d, call[d] + 1)) /\ UNCHANGED loggedIn
    <3>1. call[d] + 1 \in 1..(LastCall + 1)
      BY <1>0 DEF SessionTypeOK, LastCall
    <3>2. /\ \/ Moved(d, "idle", 0)
             \/ call[d] + 1 \in 1..LastCall /\ Moved(d, "query", call[d] + 1)
          /\ \/ reauth' = [reauth EXCEPT ![d] = FALSE] /\ logins' = [logins EXCEPT ![d] = 0]
             \/ UNCHANGED <<reauth, logins>>
      BY <1>0, <2>2, <3>1, GoToMoves, RaiseMoves
    <3>3. SessionTypeOK'
      <4>1. \/ Moved(d, "idle", 0)
            \/ \E c \in 0..LastCall : Moved(d, "query", c)
        BY <3>2
      <4>2. /\ Flag(holds, holds', d) /\ Flag(inStep, inStep', d) /\ Flag(loggedIn, loggedIn', d)
            /\ Flag(reauth, reauth', d) /\ Flag(model, model', d) /\ Flag(retired, retired', d)
            /\ logins' \in {logins, Set1(logins, d, 0)} /\ session' \in {session, d, NoClient}
        BY <2>1, <2>2, <3>2 DEF Flag, Set1
      <4>3. QED
        BY <1>0, <4>1, <4>2, MoveTyped
    <3>4. HandedBack(d)' /\ OneLogin(d)'
      BY <1>0, <2>1, <2>2, <3>2 DEF SessionTypeOK, HandedBack, OneLogin, LoggingIn, Moved
    <3>5. QED
      BY <1>0, <2>1, <2>2, <3>2, <3>3, <3>4, DriverStep DEF SessionTypeOK, Moved
  <2>3. CASE ~((Raise(d) \/ GoTo(d, call[d] + 1)) /\ UNCHANGED loggedIn)
    <3>1. SessionTypeOK'
      <4>1. phase' = Set1(phase, d, "logout") /\ call' = call
        BY <2>1, <2>3 DEF Set1
      <4>2. /\ Flag(holds, holds', d) /\ Flag(inStep, inStep', d) /\ Flag(loggedIn, loggedIn', d)
            /\ Flag(reauth, reauth', d) /\ Flag(model, model', d) /\ Flag(retired, retired', d)
            /\ logins' = Set1(logins, d, logins[d] + 1) /\ session' \in {session, d, NoClient}
        BY <2>1, <2>3 DEF Flag, Set1
      <4>3. QED
        BY <1>0, <4>1, <4>2, MoveTyped
    <3>2. HandedBack(d)' /\ OneLogin(d)'
      BY <1>0, <2>1, <2>3 DEF SessionTypeOK, HandedBack, OneLogin, LoggingIn, MayLogInAgain
    <3>3. QED
      BY <1>0, <2>1, <2>3, <3>1, <3>2, DriverStep DEF SessionTypeOK
  <2>4. QED
    BY <2>2, <2>3
<1>6. CASE SessionChangesHands
  BY <1>0, <1>6 DEF SessionChangesHands, SessionInv, SessionTypeOK, HandedBack, OneLogin
<1>7. CASE (\E d \in DriverPair : Retire(d)) \/ UNCHANGED sessionVars
  BY <1>0, <1>7 DEF Retire, sessionVars, SessionInv, SessionTypeOK, HandedBack, OneLogin
<1>8. QED
  BY <1>1, <1>2, <1>3, <1>4, <1>5, <1>6, <1>7 DEF SessionNext

\* A driver never forgets a session that the modem keeps open for it, and logs in at most
\* once for a call, for any number of drivers, tables and losses (sb8200_cbn.py).
THEOREM SessionsAreHandedBack == SessionSpec => []SessionIsHandedBack
<1>1. SessionInv => SessionIsHandedBack
  BY DEF SessionInv, SessionIsHandedBack, HandedBack, OneLogin
<1>2. QED
  BY SessionInitInv, SessionNextInv, <1>1, PTL DEF SessionSpec

---------------------------------------------------------------------------
(***************************************************************************)
(* Login and reading of a SURFboard modem (SurfboardDriver).               *)
(***************************************************************************)
Fetches == {"fetch", "fetch_other", "fetch_after_drop", "fetch_again"}
Places  == {"idle", "login", "html", "info", "info_after_500", "info_after_nothing", "store", "page"}
             \cup Fetches \cup SecondTries

SurfTypeOK ==
  /\ speaks \in {"Customer", "Moto"} /\ foreign \in {"empty", "500"}
  /\ place \in Places /\ target \in {"info", "fetch_after_drop", "fetch_again"}
  /\ attempts \in 0..9 /\ connErrors \in 0..3 /\ reloads \in 0..3

\* What the fallbacks taken so far account for: HTTP is reached after two errors at
\* the latest, and the count starts again then.
Spent == (IF legacyTried THEN 1 ELSE 0) + (IF fellBack THEN 3 ELSE 0) + connErrors + reloads

LoginInv == place = "login" => connErrors <= 2 /\ reloads <= 2 /\ attempts <= Spent

\* The page is read in the poll that fetched it, or that poll went another way.
PageInv ==
  /\ page \in {0, reads} \/ cutShort
  /\ place \in {"idle", "login", "html", "page"} => page = 0 \/ cutShort

\* Once channels were read the namespace is known; it is the other one only while that
\* is being tried, and what it goes back to is the known one.
Known == everRead /\ foreign = "500" /\ ~timedOut

NameInv ==
  /\ place \in {"fetch_other"} \cup SecondTries => ns # NoNs
  /\ place \in {"fetch_other"} \cup SecondTries => ~htmlMode \/ ~Known
  /\ Known =>
       /\ place \notin {"info_after_500", "info_after_nothing"} \cup SecondTries
       /\ ns = IF place = "fetch_other" THEN OtherNs(speaks) ELSE speaks
       /\ place \in Fetches \/ (place \in {"login", "html"} /\ target # "info") => savedNs = speaks

SurfInv == SurfTypeOK /\ LoginInv /\ PageInv /\ NameInv

\* What no namespace is called.
LEMMA Unnamed == NoNs # "Customer" /\ NoNs # "Moto"
  BY Zenon DEF NoNs

LEMMA SurfInitInv == SurfInit => SurfInv
  BY DEF SurfInit, SurfInv, SurfTypeOK, LoginInv, PageInv, NameInv, Known, Places, Fetches, SecondTries

LEMMA BeginSurf == ASSUME SurfInv, BeginSurfboardPoll PROVE SurfInv'
  BY DEF SurfInv, SurfTypeOK, LoginInv, PageInv, NameInv, Known, Places, Fetches, SecondTries, Spent,
         BeginSurfboardPoll, EnterLogin, firmwareVars, transportVars

\* One attempt more, and the fallback, the error or the old session that accounts for it.
LEMMA TryLoginSurf == ASSUME SurfInv, TryLogin PROVE SurfInv'
<1>0. /\ SurfTypeOK /\ LoginInv /\ PageInv /\ NameInv /\ place = "login" /\ attempts' = attempts + 1
      /\ UNCHANGED <<speaks, foreign, htmlMode, page, ns, target, savedNs, reads, everRead, timedOut, cutShort>>
  BY DEF SurfInv, TryLogin, firmwareVars
<1>1. /\ attempts <= 8 /\ attempts \in Nat /\ connErrors \in 0..2 /\ reloads \in 0..2
  BY <1>0 DEF LoginInv, SurfTypeOK, Spent
<1>2. /\ place' \in {"login", "html", "idle", target} /\ connErrors' \in 0..3 /\ reloads' \in 0..3
      /\ place' = "login" => connErrors' <= 2 /\ reloads' <= 2 /\ attempts' <= Spent'
  <2>1. CASE Accepted \/ LoginRefused
    BY <1>0, <1>1, <2>1 DEF Accepted, LoginRefused, transportVars, SurfTypeOK
  <2>2. CASE NoChallenge
    BY <1>0, <1>1, <2>2 DEF NoChallenge, transportVars, LoginInv, Spent
  <2>3. CASE TlsFails
    <3>1. /\ reloads' = reloads
          /\ \/ ~legacyTried /\ legacyTried' = TRUE /\ UNCHANGED <<fellBack, connErrors, place>>
             \/ ~fellBack /\ fellBack' = TRUE /\ UNCHANGED <<legacyTried, connErrors, place>>
             \/ CountError /\ UNCHANGED <<legacyTried, fellBack>>
      BY <2>3 DEF TlsFails, MayFallBack, FallBackToHttp
    <3>2. QED
      BY <1>0, <1>1, <3>1 DEF CountError, LoginInv, Spent
  <2>4. CASE ConnectionLost
    <3>1. /\ reloads' = reloads /\ legacyTried' = legacyTried
          /\ \/ ~fellBack /\ fellBack' = TRUE /\ UNCHANGED <<connErrors, place>>
             \/ ~fellBack /\ fellBack' = TRUE /\ connErrors >= 2 /\ connErrors' = 0 /\ place' = place
             \/ CountError /\ UNCHANGED fellBack
      BY <2>4 DEF ConnectionLost, MayFallBack, FallBackToHttp
    <3>2. QED
      BY <1>0, <1>1, <3>1 DEF CountError, LoginInv, Spent
  <2>5. QED
    BY <2>1, <2>2, <2>3, <2>4 DEF TryLogin
<1>3. SurfTypeOK'
  BY <1>0, <1>1, <1>2 DEF SurfTypeOK, Places, Fetches
<1>4. LoginInv'
  BY <1>2 DEF LoginInv
<1>5. PageInv'
  BY <1>0, <1>2 DEF PageInv, SurfTypeOK
<1>6. NameInv'
  BY <1>0, <1>2 DEF NameInv, Known, SurfTypeOK, Fetches, SecondTries
<1>7. QED
  BY <1>3, <1>4, <1>5, <1>6 DEF SurfInv

LEMMA HtmlLoginSurf == ASSUME SurfInv, HtmlLogin PROVE SurfInv'
<1>0. /\ SurfTypeOK /\ LoginInv /\ PageInv /\ NameInv /\ place \in {"html", "page"}
      /\ \/ place = "html" /\ place' = target /\ page' = reads /\ cutShort' = FALSE
         \/ place' = "idle" /\ UNCHANGED <<page, cutShort>>
      /\ UNCHANGED <<speaks, foreign, connErrors, reloads, attempts, ns, target, savedNs, reads, everRead, timedOut>>
  BY DEF SurfInv, HtmlLogin, firmwareVars, loginVars
<1>1. SurfTypeOK' /\ LoginInv'
  BY <1>0 DEF SurfTypeOK, LoginInv, Places, Fetches
<1>2. PageInv'
  BY <1>0 DEF PageInv, SurfTypeOK
<1>3. NameInv'
  BY <1>0 DEF NameInv, Known, SurfTypeOK, Fetches, SecondTries
<1>4. QED
  BY <1>1, <1>2, <1>3 DEF SurfInv

LEMMA InfoSurf == ASSUME SurfInv, GetDeviceInfo \/ StoreDeviceState \/ ReadPage PROVE SurfInv'
<1>0. SurfTypeOK /\ LoginInv /\ PageInv /\ NameInv
  BY DEF SurfInv
<1>1. CASE GetDeviceInfo
  <2>1. /\ place \in {"info", "info_after_500", "info_after_nothing"}
        /\ UNCHANGED <<speaks, foreign, connErrors, reloads, attempts, page, cutShort, target, savedNs, reads, everRead, htmlMode>>
        /\ \/ place' = "store" /\ UNCHANGED <<ns, timedOut>>
           \/ /\ timedOut => timedOut'
              /\ \/ place' \in {"info_after_500", "info_after_nothing"} /\ ns = NoNs
                 \/ place' = "store" /\ (ns' = ns \/ place = "info_after_nothing")
    BY <1>1 DEF GetDeviceInfo, Ask, firmwareVars, loginVars
  <2>2. SurfTypeOK' /\ LoginInv' /\ PageInv'
    BY <1>0, <2>1 DEF SurfTypeOK, LoginInv, PageInv, Places
  <2>3. NameInv'
    BY <1>0, <2>1, Unnamed DEF NameInv, Known, SurfTypeOK, Fetches, SecondTries
  <2>4. QED
    BY <2>2, <2>3 DEF SurfInv
<1>2. CASE StoreDeviceState
  <2>1. /\ place = "store"
        /\ UNCHANGED <<speaks, foreign, connErrors, reloads, attempts, page, target, reads, everRead, htmlMode, ns, timedOut>>
        /\ \/ place' = "fetch" /\ savedNs' = ns /\ UNCHANGED cutShort
           \/ place' = "idle" /\ cutShort' = (cutShort \/ page /= 0) /\ UNCHANGED savedNs
    BY <1>2 DEF StoreDeviceState, firmwareVars, loginVars
  <2>2. SurfTypeOK' /\ LoginInv' /\ PageInv'
    BY <1>0, <2>1 DEF SurfTypeOK, LoginInv, PageInv, Places, Fetches
  <2>3. NameInv'
    BY <1>0, <2>1 DEF NameInv, Known, SurfTypeOK, Fetches, SecondTries
  <2>4. QED
    BY <2>2, <2>3 DEF SurfInv
<1>3. CASE ReadPage
  <2>1. /\ place = "fetch" /\ page' = 0 /\ place' \in {"page", "idle"}
        /\ UNCHANGED <<speaks, foreign, connErrors, reloads, attempts, target, reads, everRead, htmlMode, ns, savedNs, timedOut>>
    BY <1>3 DEF ReadPage, firmwareVars, loginVars
  <2>2. SurfTypeOK' /\ LoginInv' /\ PageInv'
    BY <1>0, <2>1 DEF SurfTypeOK, LoginInv, PageInv, Places
  <2>3. NameInv'
    BY <1>0, <2>1 DEF NameInv, Known, SurfTypeOK, Fetches, SecondTries
  <2>4. QED
    BY <2>2, <2>3 DEF SurfInv
<1>4. QED
  BY <1>1, <1>2, <1>3

\* Where the except clauses lead.
LEMMA FailsTo ==
  ASSUME SurfTypeOK, NEW a, FetchFails(a)
  PROVE  /\ \/ place' = "idle" /\ UNCHANGED <<target, connErrors, reloads, attempts>>
            \/ place' = "fetch_other" /\ UNCHANGED <<target, connErrors, reloads, attempts>>
            \/ /\ place' = "login" /\ target' \in {"fetch_after_drop", "fetch_again"}
               /\ connErrors' = 0 /\ reloads' = 0 /\ attempts' = 0
         /\ \/ place' = "fetch_other" /\ place \in {"fetch", "Moto_first"} /\ savedNs' = ns /\ ns' = OtherNs(Spoken)
            \/ place' # "fetch_other" /\ savedNs' = savedNs /\ ns' = savedNs
            \/ /\ place' # "fetch_other" /\ UNCHANGED <<ns, savedNs>>
               /\ place = "fetch_other" => a \notin {"500", "other", "dropped"}
  BY DEF FetchFails, Relogin, EnterLogin, Stay, loginVars

LEMMA FetchSurf == ASSUME SurfInv, FetchChannels PROVE SurfInv'
<1>0. SurfTypeOK /\ LoginInv /\ PageInv /\ NameInv
  BY DEF SurfInv
<1>1. PICK a \in Answers(Spoken) :
        /\ timedOut' = (timedOut \/ a = "timeout")
        /\ everRead' = (everRead \/ a = "data")
        /\ CASE a = "data" -> ns' = Spoken /\ place' = "idle" /\ Stay /\ UNCHANGED savedNs
             [] a = "empty" /\ ns = NoNs -> ns' = "Moto" /\ place' = SecondTry /\ Stay /\ UNCHANGED savedNs
             [] a = "empty" /\ ns /= NoNs -> /\ ns' = IF place \in SecondTries THEN NoNs ELSE ns
                                          /\ place' = "idle" /\ Stay /\ UNCHANGED savedNs
             [] OTHER -> FetchFails(a)
  BY DEF FetchChannels, Ask
<1>2. /\ place \in Fetches \cup SecondTries /\ (place = "fetch" => ~htmlMode)
      /\ cutShort' = (cutShort \/ page /= 0)
      /\ UNCHANGED <<speaks, foreign, htmlMode, page, reads, legacyTried, fellBack>>
  BY DEF FetchChannels, firmwareVars, transportVars, Fetches
<1>3. a \in {"data", "empty", "500", "other", "dropped", "timeout"}
  BY <1>0 DEF Answers, Usually, SurfTypeOK
<1>4. \/ a = "data" /\ ns' = Spoken /\ place' = "idle" /\ Stay /\ UNCHANGED savedNs
      \/ a = "empty" /\ ns = NoNs /\ ns' = "Moto" /\ place' = SecondTry /\ Stay /\ UNCHANGED savedNs
      \/ /\ a = "empty" /\ ns # NoNs /\ ns' = (IF place \in SecondTries THEN NoNs ELSE ns)
         /\ place' = "idle" /\ Stay /\ UNCHANGED savedNs
      \/ a \notin {"data", "empty"} /\ FetchFails(a)
  BY <1>1
<1>5. /\ \/ place' \in {"idle", "fetch_other"} \cup SecondTries /\ UNCHANGED <<target, connErrors, reloads, attempts>>
         \/ /\ place' = "login" /\ target' \in {"fetch_after_drop", "fetch_again"}
            /\ connErrors' = 0 /\ reloads' = 0 /\ attempts' = 0
  <2>1. CASE a = "empty" /\ ns = NoNs /\ ns' = "Moto" /\ place' = SecondTry /\ Stay /\ UNCHANGED savedNs
    BY <1>0, <1>2, <2>1 DEF NameInv, SecondTry, SecondTries, Fetches, Stay, loginVars
  <2>2. QED
    BY <1>0, <1>4, <2>1, FailsTo DEF Stay, loginVars
<1>6. SurfTypeOK'
  BY <1>0, <1>2, <1>5 DEF SurfTypeOK, Places, Fetches
<1>7. LoginInv'
  BY <1>5 DEF LoginInv, Spent, SecondTries
<1>8. PageInv'
  BY <1>0, <1>2, <1>5 DEF PageInv
<1>9. Known' /\ a # "data" => Known /\ a # "timeout"
  BY <1>1, <1>2 DEF Known
<1>10. CASE a = "data"
  <2>1. Usually(Spoken) = "data"
    BY <1>10 DEF Answers
  <2>2. Spoken = speaks /\ speaks # NoNs
    BY <1>0, <2>1, Unnamed DEF Usually, SurfTypeOK
  <2>3. ns' = speaks' /\ place' = "idle"
    BY <1>2, <1>4, <1>10, <2>2
  <2>4. NameInv'
    BY <2>3 DEF NameInv, Fetches, SecondTries
  <2>5. QED
    BY <1>6, <1>7, <1>8, <2>4 DEF SurfInv
<1>11. CASE a = "empty"
  <2>1. CASE ns = NoNs
    <3>1. ~Known' /\ ns' = "Moto"
      BY <1>0, <1>4, <1>9, <1>11, <2>1, Unnamed DEF NameInv, OtherNs, SurfTypeOK
    <3>2. NameInv'
      BY <3>1, Unnamed DEF NameInv
    <3>3. QED
      BY <1>6, <1>7, <1>8, <3>2 DEF SurfInv
  <2>2. CASE ns # NoNs
    <3>1. place' = "idle" /\ ns' = IF place \in SecondTries THEN NoNs ELSE ns
      BY <1>4, <1>11, <2>2
    <3>2. ASSUME Known' PROVE ns' = speaks'
      <4>1. Known /\ place \notin SecondTries
        BY <1>0, <1>9, <1>11, <3>2 DEF NameInv
      <4>2. place # "fetch_other"
        <5>1. SUFFICES ASSUME place = "fetch_other" PROVE FALSE
          OBVIOUS
        <5>2. ~htmlMode /\ ns = OtherNs(speaks) /\ foreign = "500"
          BY <1>0, <4>1, <5>1 DEF NameInv, Known
        <5>3. Usually(Spoken) = "500"
          BY <1>0, <5>2, Unnamed DEF Usually, Spoken, OtherNs, SurfTypeOK
        <5>4. QED
          BY <1>11, <5>3 DEF Answers
      <4>3. QED
        BY <1>0, <1>2, <3>1, <4>1, <4>2 DEF NameInv
    <3>3. NameInv'
      BY <3>1, <3>2 DEF NameInv, Fetches, SecondTries
    <3>4. QED
      BY <1>6, <1>7, <1>8, <3>3 DEF SurfInv
  <2>3. QED
    BY <2>1, <2>2
<1>12. CASE a \notin {"data", "empty"}
  <2>1. FetchFails(a)
    BY <1>4, <1>12
  <2>2. /\ place' \in {"idle", "fetch_other", "login"}
        /\ place' = "login" => target' # "info"
        /\ \/ place' = "fetch_other" /\ place \in {"fetch", "Moto_first"} /\ savedNs' = ns /\ ns' = OtherNs(Spoken)
           \/ place' # "fetch_other" /\ savedNs' = savedNs /\ ns' = savedNs
           \/ /\ place' # "fetch_other" /\ UNCHANGED <<ns, savedNs>>
              /\ place = "fetch_other" => a = "timeout"
    BY <1>0, <1>3, <1>12, <2>1, FailsTo
  <2>3. place' = "fetch_other" => ns' # NoNs
    BY <1>0, <2>2, Unnamed DEF OtherNs
  <2>4. ASSUME Known'
        PROVE  /\ place' = "fetch_other" => ~htmlMode'
               /\ ns' = IF place' = "fetch_other" THEN OtherNs(speaks') ELSE speaks'
               /\ place' \in {"fetch_other", "login"} => savedNs' = speaks'
    <3>1. Known /\ a # "timeout" /\ place \in Fetches
      BY <1>0, <1>2, <1>9, <1>12, <2>4 DEF NameInv
    <3>2. savedNs = speaks /\ ns = IF place = "fetch_other" THEN OtherNs(speaks) ELSE speaks
      BY <1>0, <3>1 DEF NameInv
    <3>3. place = "fetch" => Spoken = speaks
      BY <1>0, <3>2, Unnamed DEF Spoken, SurfTypeOK
    <3>4. place # "Moto_first"
      BY <3>1 DEF Fetches
    <3>5. QED
      BY <1>2, <2>2, <3>1, <3>2, <3>3, <3>4
  <2>5. NameInv'
    BY <2>2, <2>3, <2>4 DEF NameInv, Fetches, SecondTries
  <2>6. QED
    BY <1>6, <1>7, <1>8, <2>5 DEF SurfInv
<1>13. QED
  BY <1>3, <1>10, <1>11, <1>12

LEMMA SurfNextInv == SurfInv /\ [SurfNext]_surfVars => SurfInv'
<1> SUFFICES ASSUME SurfInv, [SurfNext]_surfVars PROVE SurfInv'
  OBVIOUS
<1>1. CASE UNCHANGED surfVars
  BY <1>1 DEF surfVars, firmwareVars, transportVars, loginVars, SurfInv, SurfTypeOK, LoginInv, Spent,
              PageInv, NameInv, Known, Fetches, SecondTries
<1>2. QED
  BY <1>1, BeginSurf, TryLoginSurf, HtmlLoginSurf, InfoSurf, FetchSurf DEF SurfNext

\* A call of login() ends after nine attempts at most, a page is not kept for a later poll,
\* and a namespace that worked is not left for good, for any number of polls and failing
\* answers (surfboard.py).
THEOREM LoginEnds == SurfSpec => []LoginEndsAndReadsAreCurrent
<1>1. SurfInv => LoginEndsAndReadsAreCurrent
  BY DEF SurfInv, SurfTypeOK, PageInv, NameInv, Known, LoginEndsAndReadsAreCurrent
<1>2. QED
  BY SurfInitInv, SurfNextInv, <1>1, PTL DEF SurfSpec
---------------------------------------------------------------------------
(***************************************************************************)
(* The dashboard while refreshes overtake each other (DashboardRefresh).   *)
(***************************************************************************)
DashTyped ==
  /\ newest \in Nat /\ manual.of \in 0..newest /\ polled \in 0..newest
  /\ generation \in Nat /\ htmlRefreshId = generation
  /\ heroId \in Nat /\ sparkId \in Nat
  /\ pageData \in 0..newest /\ hero \in 0..newest /\ spark \in 0..newest /\ legacy \in 0..newest
  /\ \A p \in pages   : p.for \in 0..generation /\ p.id = p.for /\ p.at \in 0..newest
  /\ \A f \in fetches : f.for \in 0..generation /\ f.requested = f.for /\ f.at \in 0..newest
  /\ \A s \in paints  : s.for \in 0..generation
  /\ \A t \in trends  : t.for \in 0..generation /\ t.at \in 0..newest

\* What is under way for the generation of now.
NowPages   == {p \in pages : p.for = generation}
NowFetches == {f \in fetches : f.for = generation}
NowPaints  == {s \in paints : s.for = generation}
NowTrends  == {t \in trends : t.for = generation}

\* It is one thing at a time: the page, then the series, a frame, the trends.
OneStage ==
  /\ \A p, q \in NowPages : p = q
  /\ \A f, g \in NowFetches : f = g
  /\ \A s, u \in NowPaints : s = u
  /\ \A t, u \in NowTrends : t = u
  /\ NowPages # {} => NowFetches = {} /\ NowPaints = {} /\ NowTrends = {} /\ pending = NoPromise
  /\ NowFetches # {} => NowPaints = {} /\ NowTrends = {}
  /\ NowPaints # {} => NowTrends = {}

\* Each will bring what is not older than what is on the screen, and counts.
EachIsNewer ==
  /\ \A p \in NowPages : pageData <= p.at /\ polled <= p.at
  /\ \A f \in NowFetches : /\ hero <= f.at /\ spark <= f.at /\ pageData <= f.at
                           /\ f.hero = heroId /\ f.spark = sparkId
  /\ \A s \in NowPaints : s.id = sparkId
  /\ \A t \in NowTrends : t.id = sparkId /\ legacy <= t.at /\ spark <= t.at

\* As long as nothing failed, what has come fits together.
StagesFit ==
  \/ missed
  \/ NowPages # {}
  \/ NowFetches # {} /\ polled <= pageData
  \/ (NowPaints # {} \/ NowTrends # {}) /\ hero = spark /\ pageData <= spark /\ polled <= pageData
  \/ OfOneTime

DashInv == DashTyped /\ OneStage /\ EachIsNewer /\ StagesFit

LEMMA DashInitInv == DashInit => DashInv
<1> SUFFICES ASSUME DashInit PROVE DashInv
  OBVIOUS
<1>1. DashTyped
  BY DEF DashInit, DashTyped, NoPoll
<1>2. OneStage
  BY DEF DashInit, OneStage, NowPages, NowFetches, NowPaints, NowTrends
<1>3. EachIsNewer
  BY DEF DashInit, EachIsNewer, NowPages, NowFetches, NowPaints, NowTrends
<1>a. [requested |-> 0, at |-> 1, hero |-> 1, spark |-> 1, for |-> 0] \in NowFetches
  BY DEF DashInit, NowFetches
<1>4. NowFetches # {} /\ polled <= pageData
  BY <1>a DEF DashInit
<1>5. QED
  BY <1>1, <1>2, <1>3, <1>4 DEF DashInv, StagesFit

LEMMA StoredFits ==
  ASSUME DashInv, Stored
  PROVE  DashInv' /\ NothingGoesBack
<1>0. DashTyped /\ OneStage /\ EachIsNewer /\ StagesFit
  BY DEF DashInv
<1>1. DashTyped' /\ NothingGoesBack
  BY <1>0 DEF Stored, DashTyped, EachIsNewer, NowPages, NowFetches, NowTrends, NothingGoesBack
<1>2. OneStage'
  BY <1>0 DEF Stored, DashTyped, OneStage, NowPages, NowFetches, NowPaints, NowTrends
<1>3. EachIsNewer'
  BY <1>0 DEF Stored, DashTyped, OneStage, EachIsNewer, NowPages, NowFetches, NowPaints, NowTrends
<1>4. StagesFit'
  BY <1>0 DEF Stored, DashTyped, OneStage, EachIsNewer, StagesFit, OfOneTime, NowPages, NowFetches, NowPaints, NowTrends
<1>5. QED
  BY <1>1, <1>2, <1>3, <1>4 DEF DashInv

LEMMA ClickRefreshFits ==
  ASSUME DashInv, ClickRefresh
  PROVE  DashInv' /\ NothingGoesBack
<1>0. DashTyped /\ OneStage /\ EachIsNewer /\ StagesFit
  BY DEF DashInv
<1>1. DashTyped' /\ NothingGoesBack
  BY <1>0 DEF ClickRefresh, DashTyped, EachIsNewer, NowPages, NowFetches, NowTrends, NothingGoesBack, NoPoll
<1>2. OneStage'
  BY <1>0 DEF ClickRefresh, DashTyped, OneStage, NowPages, NowFetches, NowPaints, NowTrends, NoPoll
<1>3. EachIsNewer'
  BY <1>0 DEF ClickRefresh, DashTyped, OneStage, EachIsNewer, NowPages, NowFetches, NowPaints, NowTrends, NoPoll
<1>4. StagesFit'
  BY <1>0 DEF ClickRefresh, DashTyped, OneStage, EachIsNewer, StagesFit, OfOneTime, NowPages, NowFetches, NowPaints, NowTrends, NoPoll
<1>5. QED
  BY <1>1, <1>2, <1>3, <1>4 DEF DashInv

LEMMA ManualPollFits ==
  ASSUME DashInv, ManualPoll
  PROVE  DashInv' /\ NothingGoesBack
<1>0. DashTyped /\ OneStage /\ EachIsNewer /\ StagesFit
  BY DEF DashInv
<1>1. DashTyped' /\ NothingGoesBack
  BY <1>0 DEF ManualPoll, DashTyped, EachIsNewer, NowPages, NowFetches, NowTrends, NothingGoesBack
<1>2. OneStage'
  BY <1>0 DEF ManualPoll, DashTyped, OneStage, NowPages, NowFetches, NowPaints, NowTrends
<1>3. EachIsNewer'
  BY <1>0 DEF ManualPoll, DashTyped, OneStage, EachIsNewer, NowPages, NowFetches, NowPaints, NowTrends
<1>4. StagesFit'
  BY <1>0 DEF ManualPoll, DashTyped, OneStage, EachIsNewer, StagesFit, OfOneTime, NowPages, NowFetches, NowPaints, NowTrends
<1>5. QED
  BY <1>1, <1>2, <1>3, <1>4 DEF DashInv

LEMMA PollFailsFits ==
  ASSUME DashInv, PollFails
  PROVE  DashInv' /\ NothingGoesBack
<1>0. DashTyped /\ OneStage /\ EachIsNewer /\ StagesFit
  BY DEF DashInv
<1>1. DashTyped' /\ NothingGoesBack
  BY <1>0 DEF PollFails, DashTyped, EachIsNewer, NowPages, NowFetches, NowTrends, NothingGoesBack, NoPoll
<1>2. OneStage'
  BY <1>0 DEF PollFails, DashTyped, OneStage, NowPages, NowFetches, NowPaints, NowTrends, NoPoll
<1>3. EachIsNewer'
  BY <1>0 DEF PollFails, DashTyped, OneStage, EachIsNewer, NowPages, NowFetches, NowPaints, NowTrends, NoPoll
<1>4. StagesFit'
  BY <1>0 DEF PollFails, DashTyped, OneStage, EachIsNewer, StagesFit, OfOneTime, NowPages, NowFetches, NowPaints, NowTrends, NoPoll
<1>5. QED
  BY <1>1, <1>2, <1>3, <1>4 DEF DashInv

LEMMA AutoRefreshFits ==
  ASSUME DashInv, AutoRefresh
  PROVE  DashInv' /\ NothingGoesBack
<1>0. DashTyped /\ OneStage /\ EachIsNewer /\ StagesFit
  BY DEF DashInv
<1>1. DashTyped' /\ NothingGoesBack
  BY <1>0 DEF AutoRefresh, DashTyped, EachIsNewer, NowPages, NowFetches, NowTrends, NothingGoesBack, RefreshData, Invalidate, NoPromise
<1>2. OneStage'
  BY <1>0 DEF AutoRefresh, DashTyped, OneStage, NowPages, NowFetches, NowPaints, NowTrends, RefreshData, Invalidate, NoPromise
<1>3. EachIsNewer'
  BY <1>0 DEF AutoRefresh, DashTyped, OneStage, EachIsNewer, NowPages, NowFetches, NowPaints, NowTrends, RefreshData, Invalidate, NoPromise
<1>4. StagesFit'
  <2>1. [id |-> htmlRefreshId + 1, for |-> generation + 1, at |-> newest] \in NowPages'
    BY DEF AutoRefresh, RefreshData, Invalidate, NowPages
  <2>2. QED
    BY <2>1 DEF StagesFit
<1>5. QED
  BY <1>1, <1>2, <1>3, <1>4 DEF DashInv

LEMMA PollAnsweredFits ==
  ASSUME DashInv, PollAnswered
  PROVE  DashInv' /\ NothingGoesBack
<1>0. DashTyped /\ OneStage /\ EachIsNewer /\ StagesFit
  BY DEF DashInv
<1>1. DashTyped' /\ NothingGoesBack
  BY <1>0 DEF PollAnswered, DashTyped, EachIsNewer, NowPages, NowFetches, NowTrends, NothingGoesBack, RefreshData, Invalidate, NoPoll, NoPromise
<1>2. OneStage'
  BY <1>0 DEF PollAnswered, DashTyped, OneStage, NowPages, NowFetches, NowPaints, NowTrends, RefreshData, Invalidate, NoPoll, NoPromise
<1>3. EachIsNewer'
  BY <1>0 DEF PollAnswered, DashTyped, OneStage, EachIsNewer, NowPages, NowFetches, NowPaints, NowTrends, RefreshData, Invalidate, NoPoll, NoPromise
<1>4. StagesFit'
  <2>1. [id |-> htmlRefreshId + 1, for |-> generation + 1, at |-> newest] \in NowPages'
    BY DEF PollAnswered, RefreshData, Invalidate, NowPages
  <2>2. QED
    BY <2>1 DEF StagesFit
<1>5. QED
  BY <1>1, <1>2, <1>3, <1>4 DEF DashInv

LEMMA PageArrivesFits ==
  ASSUME DashInv, NEW p \in pages, PageArrives(p)
  PROVE  DashInv' /\ NothingGoesBack
<1>0. DashTyped /\ OneStage /\ EachIsNewer /\ StagesFit
  BY DEF DashInv
<1>a. p \in NowPages /\ pending = NoPromise
  BY <1>0 DEF PageArrives, Superseded, DashTyped, OneStage, NowPages
<1> DEFINE want == [requested |-> generation, at |-> newest, hero |-> heroId + 1, spark |-> sparkId + 1, for |-> p.for]
<1>b. /\ pages' = pages \ {p} /\ fetches' = fetches \cup {want}
      /\ pageData' \in p.at..newest /\ heroId' = heroId + 1 /\ sparkId' = sparkId + 1
      /\ UNCHANGED <<hero, spark, paints, newest, manual, htmlRefreshId, generation, trends, legacy, polled, missed>>
  BY <1>a DEF PageArrives, NoPromise
<1>c. want.for = generation /\ want.requested = generation /\ want.at = newest /\ want.hero = heroId' /\ want.spark = sparkId'
  BY <1>a, <1>b DEF NowPages
<1> HIDE DEF want
<1>1. DashTyped' /\ NothingGoesBack
  BY <1>0, <1>a, <1>b, <1>c DEF DashTyped, EachIsNewer, NothingGoesBack, NowPages
<1>d. NowPages' = {} /\ NowFetches' = {want} /\ NowPaints' = {} /\ NowTrends' = {}
  BY <1>0, <1>a, <1>b, <1>c DEF OneStage, NowPages, NowFetches, NowPaints, NowTrends
<1>2. OneStage'
  BY <1>d DEF OneStage
<1>3. EachIsNewer'
  BY <1>0, <1>a, <1>b, <1>c, <1>d DEF DashTyped, EachIsNewer, NowPages
<1>4. StagesFit'
  BY <1>0, <1>a, <1>b, <1>d DEF DashTyped, EachIsNewer, StagesFit, NowPages
<1>5. QED
  BY <1>1, <1>2, <1>3, <1>4 DEF DashInv

LEMMA PageDroppedFits ==
  ASSUME DashInv, NEW p \in pages, PageDropped(p)
  PROVE  DashInv' /\ NothingGoesBack
<1>0. DashTyped /\ OneStage /\ EachIsNewer /\ StagesFit
  BY DEF DashInv
<1>1. DashTyped' /\ NothingGoesBack
  BY <1>0 DEF PageDropped, DashTyped, EachIsNewer, NowPages, NowFetches, NowTrends, NothingGoesBack
<1>2. OneStage'
  BY <1>0 DEF PageDropped, DashTyped, OneStage, NowPages, NowFetches, NowPaints, NowTrends
<1>3. EachIsNewer'
  BY <1>0 DEF PageDropped, DashTyped, OneStage, EachIsNewer, NowPages, NowFetches, NowPaints, NowTrends
<1>4. StagesFit'
  BY <1>0 DEF PageDropped, DashTyped, OneStage, EachIsNewer, StagesFit, OfOneTime, NowPages, NowFetches, NowPaints, NowTrends
<1>5. QED
  BY <1>1, <1>2, <1>3, <1>4 DEF DashInv

LEMMA SeriesArrivesFits ==
  ASSUME DashInv, NEW f \in fetches, SeriesArrives(f)
  PROVE  DashInv' /\ NothingGoesBack
<1>0. DashTyped /\ OneStage /\ EachIsNewer /\ StagesFit
  BY DEF DashInv
<1>1. DashTyped' /\ NothingGoesBack
  BY <1>0 DEF SeriesArrives, DashTyped, EachIsNewer, NowPages, NowFetches, NowTrends, NothingGoesBack
<1>2. OneStage'
  BY <1>0 DEF SeriesArrives, DashTyped, OneStage, NowPages, NowFetches, NowPaints, NowTrends
<1>3. EachIsNewer'
  BY <1>0 DEF SeriesArrives, DashTyped, OneStage, EachIsNewer, NowPages, NowFetches, NowPaints, NowTrends
<1>4. StagesFit'
  <2>1. f \in NowFetches /\ f.hero = heroId /\ f.spark = sparkId /\ f.for = generation
    BY <1>0 DEF SeriesArrives, DashTyped, EachIsNewer, NowFetches
  <2>2. hero' = spark' /\ pageData' <= spark'
    BY <1>0, <2>1 DEF SeriesArrives, DashTyped, EachIsNewer
  <2>3. [id |-> f.spark, for |-> f.for] \in NowPaints'
    BY <2>1 DEF SeriesArrives, NowPaints
  <2>4. missed \/ polled <= pageData
    BY <1>0, <2>1 DEF OneStage, StagesFit, OfOneTime
  <2>5. QED
    BY <2>2, <2>3, <2>4 DEF SeriesArrives, StagesFit
<1>5. QED
  BY <1>1, <1>2, <1>3, <1>4 DEF DashInv

LEMMA SeriesFailsFits ==
  ASSUME DashInv, NEW f \in fetches, SeriesFails(f)
  PROVE  DashInv' /\ NothingGoesBack
<1>0. DashTyped /\ OneStage /\ EachIsNewer /\ StagesFit
  BY DEF DashInv
<1>1. DashTyped' /\ NothingGoesBack
  BY <1>0 DEF SeriesFails, DashTyped, EachIsNewer, NowPages, NowFetches, NowTrends, NothingGoesBack, NoPromise
<1>2. OneStage'
  BY <1>0 DEF SeriesFails, DashTyped, OneStage, NowPages, NowFetches, NowPaints, NowTrends, NoPromise
<1>3. EachIsNewer'
  BY <1>0 DEF SeriesFails, DashTyped, OneStage, EachIsNewer, NowPages, NowFetches, NowPaints, NowTrends, NoPromise
<1>4. StagesFit'
  BY <1>0 DEF SeriesFails, DashTyped, OneStage, EachIsNewer, StagesFit, OfOneTime, NowPages, NowFetches, NowPaints, NowTrends, NoPromise
<1>5. QED
  BY <1>1, <1>2, <1>3, <1>4 DEF DashInv

LEMMA AfterPaintFits ==
  ASSUME DashInv, NEW s \in paints, AfterPaint(s)
  PROVE  DashInv' /\ NothingGoesBack
<1>0. DashTyped /\ OneStage /\ EachIsNewer /\ StagesFit
  BY DEF DashInv
<1>1. DashTyped' /\ NothingGoesBack
  BY <1>0 DEF AfterPaint, DashTyped, EachIsNewer, NowPages, NowFetches, NowTrends, NothingGoesBack, CurrentSpark
<1>a. CASE ~CurrentSpark(s)
  <2>1. s \notin NowPaints /\ trends' = trends /\ paints' = paints \ {s}
    BY <1>0, <1>a DEF AfterPaint, EachIsNewer, CurrentSpark, NowPaints
  <2>2. NowPages' = NowPages /\ NowFetches' = NowFetches /\ NowPaints' = NowPaints /\ NowTrends' = NowTrends
    BY <2>1 DEF AfterPaint, NowPages, NowFetches, NowPaints, NowTrends
  <2>3. QED
    BY <1>0, <1>1, <2>2 DEF AfterPaint, DashInv, OneStage, EachIsNewer, StagesFit, OfOneTime
<1>b. CASE CurrentSpark(s)
  <2> DEFINE ask == [id |-> s.id, for |-> s.for, at |-> newest]
  <2>1. s \in NowPaints /\ paints' = paints \ {s} /\ trends' = trends \cup {ask}
    BY <1>0, <1>b DEF AfterPaint, CurrentSpark, NowPaints
  <2>2. ask.id = sparkId /\ ask.for = generation /\ ask.at = newest
    BY <1>b DEF CurrentSpark
  <2> HIDE DEF ask
  <2>3. NowPages' = {} /\ NowFetches' = {} /\ NowPaints' = {} /\ NowTrends' = {ask}
    BY <1>0, <2>1, <2>2 DEF AfterPaint, OneStage, NowPages, NowFetches, NowPaints, NowTrends
  <2>4. OneStage' /\ EachIsNewer'
    BY <1>0, <2>2, <2>3 DEF AfterPaint, DashTyped, OneStage, EachIsNewer
  <2>5. StagesFit'
    BY <1>0, <2>1, <2>3 DEF AfterPaint, StagesFit, OneStage, OfOneTime
  <2>6. QED
    BY <1>1, <2>4, <2>5 DEF DashInv
<1>5. QED
  BY <1>1, <1>a, <1>b

LEMMA TrendsArriveFits ==
  ASSUME DashInv, NEW t \in trends, TrendsArrive(t)
  PROVE  DashInv' /\ NothingGoesBack
<1>0. DashTyped /\ OneStage /\ EachIsNewer /\ StagesFit
  BY DEF DashInv
<1>1. DashTyped' /\ NothingGoesBack
  BY <1>0 DEF TrendsArrive, DashTyped, EachIsNewer, NowPages, NowFetches, NowTrends, NothingGoesBack, CurrentSpark
<1>2. OneStage'
  BY <1>0 DEF TrendsArrive, DashTyped, OneStage, NowPages, NowFetches, NowPaints, NowTrends, CurrentSpark
<1>3. EachIsNewer'
  BY <1>0 DEF TrendsArrive, DashTyped, OneStage, EachIsNewer, NowPages, NowFetches, NowPaints, NowTrends, CurrentSpark
<1>4. StagesFit'
  BY <1>0 DEF TrendsArrive, DashTyped, OneStage, EachIsNewer, StagesFit, OfOneTime, NowPages, NowFetches, NowPaints, NowTrends, CurrentSpark
<1>5. QED
  BY <1>1, <1>2, <1>3, <1>4 DEF DashInv

LEMMA TrendsFailFits ==
  ASSUME DashInv, NEW t \in trends, TrendsFail(t)
  PROVE  DashInv' /\ NothingGoesBack
<1>0. DashTyped /\ OneStage /\ EachIsNewer /\ StagesFit
  BY DEF DashInv
<1>1. DashTyped' /\ NothingGoesBack
  BY <1>0 DEF TrendsFail, DashTyped, EachIsNewer, NowPages, NowFetches, NowTrends, NothingGoesBack, CurrentSpark
<1>2. OneStage'
  BY <1>0 DEF TrendsFail, DashTyped, OneStage, NowPages, NowFetches, NowPaints, NowTrends, CurrentSpark
<1>3. EachIsNewer'
  BY <1>0 DEF TrendsFail, DashTyped, OneStage, EachIsNewer, NowPages, NowFetches, NowPaints, NowTrends, CurrentSpark
<1>4. StagesFit'
  BY <1>0 DEF TrendsFail, DashTyped, OneStage, EachIsNewer, StagesFit, OfOneTime, NowPages, NowFetches, NowPaints, NowTrends, CurrentSpark
<1>5. QED
  BY <1>1, <1>2, <1>3, <1>4 DEF DashInv

LEMMA DashNextInv == DashInv /\ [DashNext]_dashVars => DashInv' /\ [NothingGoesBack]_dashVars
<1>1. ASSUME DashInv, DashNext PROVE DashInv' /\ NothingGoesBack
  BY <1>1, StoredFits, AutoRefreshFits, ClickRefreshFits, ManualPollFits, PollAnsweredFits, PollFailsFits, PageArrivesFits,
     PageDroppedFits, SeriesArrivesFits, SeriesFailsFits, AfterPaintFits, TrendsArriveFits, TrendsFailFits DEF DashNext
<1>2. ASSUME DashInv, UNCHANGED dashVars PROVE DashInv'
  BY <1>2 DEF dashVars, DashInv, DashTyped, OneStage, EachIsNewer, StagesFit, OfOneTime, NowPages, NowFetches, NowPaints, NowTrends
<1>3. QED
  BY <1>1, <1>2

LEMMA AnsweredFits == DashInv => (AllAnswered => OfOneTime)
  BY DEF DashInv, StagesFit, AllAnswered, NowPages, NowFetches, NowPaints, NowTrends, OfOneTime, DashTyped

\* Nothing on the screen goes back to older data, and when all that was asked for has come the
\* dashboard fits together: for any number of refreshes and polls, answered in any order or not at all.
THEOREM DashboardsFit == DashSpec => DashboardFitsTogether
<1>1. DashInv' => (AllAnswered' => OfOneTime')
  BY AnsweredFits, PTL
<1>2. DashInv /\ [DashNext]_dashVars => [NothingGoesBack /\ (AllAnswered' => OfOneTime')]_dashVars
  BY DashNextInv, <1>1
<1>3. DashInv /\ [DashNext]_dashVars => DashInv'
  BY DashNextInv
<1>4. QED
  BY DashInitInv, <1>2, <1>3, PTL DEF DashSpec, DashboardFitsTogether

---------------------------------------------------------------------------
(***************************************************************************)
(* The event log in the browser (EventFeed).                               *)
(***************************************************************************)
Rated == [critical : BOOLEAN, acked : BOOLEAN]
Card  == [id : Nat, acked : BOOLEAN]

LEMMA MatchingIsFinite ==
  ASSUME log \in Seq(Rated), NEW c \in BOOLEAN
  PROVE  /\ Matching(c) \subseteq 1..Len(log) /\ Matching(c) \subseteq Nat /\ IsFiniteSet(Matching(c))
         /\ Cardinality(Matching(c)) \in Nat
<1>1. Matching(c) \subseteq 1..Len(log) /\ Len(log) \in Nat
  BY DEF Matching
<1>2. IsFiniteSet(1..Len(log))
  BY <1>1, FS_Interval
<1>3. QED
  BY <1>1, <1>2, FS_Subset, FS_CardinalityType

\* An older event has a later place.
LEMMA PlaceGrows ==
  ASSUME log \in Seq(Rated), NEW c \in BOOLEAN, NEW x \in Matching(c)
  PROVE  /\ Place(x, c) \in 1..Cardinality(Matching(c))
         /\ \A y \in Matching(c) : y < x => Place(x, c) < Place(y, c)
<1> DEFINE From(z) == {j \in Matching(c) : j >= z}
<1>1. \A z \in Matching(c) : From(z) \subseteq Matching(c) /\ z \in From(z)
  BY MatchingIsFinite
<1>2. \A z \in Matching(c) : IsFiniteSet(From(z)) /\ Cardinality(From(z)) \in Nat
  BY <1>1, MatchingIsFinite, FS_Subset, FS_CardinalityType
<1>3. Cardinality(From(x)) \in 1..Cardinality(Matching(c))
  <2>1. Cardinality(From(x)) <= Cardinality(Matching(c))
    BY <1>1, MatchingIsFinite, FS_Subset
  <2>2. Cardinality(From(x)) # 0
    BY <1>1, <1>2, FS_EmptySet
  <2> HIDE DEF From
  <2>3. QED
    BY <1>2, <2>1, <2>2, MatchingIsFinite
<1>4. ASSUME NEW y \in Matching(c), y < x PROVE Cardinality(From(x)) < Cardinality(From(y))
  <2>1. From(x) \subseteq From(y) /\ y \notin From(x) /\ y \in From(y)
    BY <1>4, MatchingIsFinite
  <2>2. Cardinality(From(x)) <= Cardinality(From(y)) /\ Cardinality(From(x)) # Cardinality(From(y))
    BY <1>2, <2>1, FS_Subset
  <2> HIDE DEF From
  <2>3. QED
    BY <1>2, <2>2
<1>5. QED
  BY <1>3, <1>4 DEF Place

\* There is an event at every place.
LEMMA EveryPlace ==
  ASSUME log \in Seq(Rated), NEW c \in BOOLEAN, NEW k \in 1..Cardinality(Matching(c))
  PROVE  \E x \in Matching(c) : Place(x, c) = k
<1> DEFINE n == Cardinality(Matching(c))
<1>1. SUFFICES ASSUME \A x \in Matching(c) : Place(x, c) # k PROVE FALSE
  OBVIOUS
<1>2. n \in Nat /\ IsFiniteSet(Matching(c)) /\ Matching(c) \subseteq Nat
  BY MatchingIsFinite
<1> DEFINE T == (1..n) \ {k}
           f == [x \in Matching(c) |-> Place(x, c)]
<1>3. f \in [Matching(c) -> T]
  BY <1>1, PlaceGrows
<1>4. IsFiniteSet(T) /\ Cardinality(T) = n - 1
  <2>1. IsFiniteSet(1..n) /\ Cardinality(1..n) = n
    BY <1>2, FS_Interval
  <2>2. QED
    BY <2>1, FS_RemoveElement
<1>5. PICK x, y \in Matching(c) : x # y /\ f[x] = f[y]
  <2>1. Cardinality(T) < Cardinality(Matching(c))
    BY <1>2, <1>4
  <2> HIDE DEF T, f
  <2>2. QED
    BY <1>2, <1>3, <1>4, <2>1, FS_PigeonHole
<1>6. x < y \/ y < x
  BY <1>2, <1>5
<1>7. Place(x, c) = Place(y, c) /\ Place(x, c) \in Nat
  BY <1>5, PlaceGrows
<1>8. QED
  BY <1>6, <1>7, PlaceGrows

\* A page holds the places after the offset, and no other.
LEMMA PageHolds ==
  ASSUME log \in Seq(Rated), NEW c \in BOOLEAN, NEW offset \in Nat
  PROVE  \E m \in 0..PageSize :
           /\ DOMAIN Page(offset, c) = 1..m
           /\ \A i \in 1..m : Page(offset, c)[i] \in Matching(c) /\ Place(Page(offset, c)[i], c) = offset + i
           /\ \A x \in Matching(c) : Place(x, c) \in (offset + 1)..(offset + PageSize) =>
                \E i \in 1..m : Page(offset, c)[i] = x
<1> DEFINE n == Cardinality(Matching(c))
           k == Min({PageSize, n - offset})
           m == IF k < 0 THEN 0 ELSE k
<1>1. n \in Nat /\ PageSize \in Nat
  BY MatchingIsFinite, FeedAssumption
<1>2. k \in Int /\ k <= PageSize /\ k <= n - offset /\ (k = PageSize \/ k = n - offset)
  <2>1. \E x \in {PageSize, n - offset} : \A y \in {PageSize, n - offset} : x <= y
    BY <1>1
  <2>2. QED
    BY <1>1, <2>1 DEF Min
<1> HIDE DEF k, n
<1>3. m \in 0..PageSize /\ 1..k = 1..m
  BY <1>1, <1>2
<1>4. Page(offset, c) = [i \in 1..m |-> CHOOSE x \in Matching(c) : Place(x, c) = offset + i]
  BY <1>3 DEF Page, k, n
<1>5. ASSUME NEW i \in 1..m
      PROVE  Page(offset, c)[i] \in Matching(c) /\ Place(Page(offset, c)[i], c) = offset + i
  <2>1. offset + i \in 1..n
    BY <1>1, <1>2, <1>3
  <2>2. \E x \in Matching(c) : Place(x, c) = offset + i
    BY <2>1, EveryPlace DEF n
  <2>3. QED
    BY <1>4, <2>2
<1>6. ASSUME NEW x \in Matching(c), Place(x, c) \in (offset + 1)..(offset + PageSize)
      PROVE  \E i \in 1..m : Page(offset, c)[i] = x
  <2>1. Place(x, c) \in 1..n
    BY PlaceGrows DEF n
  <2>2. PICK i \in 1..m : Place(x, c) = offset + i
    <3>1. Place(x, c) - offset \in 1..m
      BY <1>1, <1>2, <1>6, <2>1
    <3>2. QED
      BY <1>1, <3>1, <2>1
  <2>3. Page(offset, c)[i] \in Matching(c) /\ Place(Page(offset, c)[i], c) = Place(x, c)
    BY <1>5, <2>2
  <2>4. Page(offset, c)[i] = x
    <3>1. Matching(c) \subseteq Nat /\ Place(x, c) \in Nat
      BY <2>1, MatchingIsFinite
    <3>2. QED
      BY <2>3, <3>1, PlaceGrows
  <2>5. QED
    BY <2>4
<1>7. QED
  BY <1>3, <1>4, <1>5, <1>6

\* From the first card down no event of the filter is left out, and the last card's place is not
\* before its number: a page at that offset continues it.
SoundFeed(f) ==
  /\ f \in Seq(Card) /\ \A i \in 1..Len(f) : f[i].id \in Matching(onlyCritical)
  /\ \A i \in 1..Len(f) : \A x \in Matching(onlyCritical) :
       f[i].id <= x /\ x <= f[1].id => \E j \in 1..Len(f) : f[j].id = x
  /\ Len(f) > 0 => Place(f[Len(f)].id, onlyCritical) >= Len(f)

LEMMA FeedContinues ==
  ASSUME log \in Seq(Rated), onlyCritical \in BOOLEAN, NEW f, SoundFeed(f), NEW pg,
         DOMAIN pg = DOMAIN Page(Len(f), onlyCritical),
         \A i \in DOMAIN pg : pg[i] \in Card /\ pg[i].id = Page(Len(f), onlyCritical)[i],
         pg = [i \in DOMAIN pg |-> pg[i]]
  PROVE  SoundFeed(f \o pg)
<1> DEFINE n == Len(f)
           g == f \o pg
           M == Matching(onlyCritical)
<1>1. f \in Seq(Card) /\ n \in Nat /\ M \subseteq Nat /\ PageSize \in Nat
  BY MatchingIsFinite, FeedAssumption DEF SoundFeed
<1> DEFINE P == Page(n, onlyCritical)
<1>a. PICK m \in 0..PageSize :
        /\ DOMAIN P = 1..m
        /\ \A i \in 1..m : P[i] \in M /\ Place(P[i], onlyCritical) = n + i
        /\ \A x \in M : Place(x, onlyCritical) \in (n + 1)..(n + PageSize) => \E i \in 1..m : P[i] = x
  BY <1>1, PageHolds
<1> HIDE DEF P
<1>b. DOMAIN pg = 1..m /\ \A i \in 1..m : pg[i] \in Card /\ pg[i].id = P[i]
  BY <1>a DEF P
<1>2. /\ DOMAIN pg = 1..m
      /\ \A i \in 1..m : pg[i].id \in M /\ Place(pg[i].id, onlyCritical) = n + i
      /\ \A x \in M : Place(x, onlyCritical) \in (n + 1)..(n + PageSize) => \E i \in 1..m : pg[i].id = x
  BY <1>a, <1>b
<1>3. pg \in Seq(Card) /\ Len(pg) = m
  <2>1. pg \in [1..m -> Card]
    BY <1>b
  <2>2. QED
    BY <1>1, <1>2, <2>1, SeqDef
<1>4. /\ g \in Seq(Card) /\ Len(g) = n + m
      /\ \A i \in 1..n : g[i] = f[i]
      /\ \A i \in 1..m : g[n + i] = pg[i]
  <2>1. g \in Seq(Card) /\ Len(g) = n + m
    BY <1>1, <1>3, ConcatProperties
  <2>2. \A i \in 1..(n + m) : g[i] = IF i <= n THEN f[i] ELSE pg[i - n]
    BY <1>1, <1>3, ConcatProperties
  <2> HIDE DEF g, n
  <2>3. ASSUME NEW i \in 1..n PROVE g[i] = f[i]
    BY <1>1, <2>2
  <2>4. ASSUME NEW i \in 1..m PROVE g[n + i] = pg[i]
    <3>1. n + i \in 1..(n + m) /\ ~(n + i <= n) /\ n + i - n = i
      BY <1>1
    <3>2. ASSUME NEW k \in 1..(n + m), k = n + i PROVE g[k] = pg[i]
      <4>1. ~(k <= n) /\ k - n = i
        BY <1>1, <3>2
      <4>2. g[k] = pg[k - n]
        BY <2>2, <4>1
      <4>3. QED
        BY <4>1, <4>2
    <3>3. QED
      BY <3>1, <3>2
  <2>5. QED
    BY <2>1, <2>3, <2>4
<1> HIDE DEF g, n, M
<1>5. \A i \in 1..(n + m) : i \in 1..n \/ \E k \in 1..m : i = n + k
  <2>1. \A i \in 1..(n + m) : i \in 1..n \/ (i - n \in 1..m /\ i = n + (i - n))
    BY <1>1, <1>2
  <2>2. QED
    BY <2>1
<1>6. \A i \in 1..Len(g) : g[i].id \in M
  BY <1>1, <1>2, <1>4, <1>5 DEF SoundFeed, n, M
<1>7. ASSUME NEW x \in M, Place(x, onlyCritical) > n, NEW k \in 1..m, pg[k].id <= x
      PROVE  \E j \in 1..Len(g) : g[j].id = x
  <2>1. Place(x, onlyCritical) <= n + k
    BY <1>1, <1>2, <1>7, PlaceGrows DEF M
  <2>2. PICK i \in 1..m : pg[i].id = x
    <3>1. Place(x, onlyCritical) \in Nat
      BY PlaceGrows, MatchingIsFinite DEF M
    <3>2. Place(x, onlyCritical) \in (n + 1)..(n + PageSize)
      BY <1>1, <1>2, <1>7, <2>1, <3>1
    <3>3. QED
      BY <1>2, <3>2
  <2>3. n + i \in 1..Len(g) /\ g[n + i] = pg[i]
    BY <1>1, <1>2, <1>4
  <2>4. QED
    BY <2>2, <2>3
<1>8. ASSUME NEW i \in 1..Len(g), NEW x \in M, g[i].id <= x, x <= g[1].id
      PROVE  \E j \in 1..Len(g) : g[j].id = x
  <2>1. CASE n = 0
    <3>1. PICK k \in 1..m : i = n + k
      BY <1>4, <1>5, <1>8, <2>1
    <3>2. Place(x, onlyCritical) > n
      BY <2>1, PlaceGrows, MatchingIsFinite DEF M
    <3>3. QED
      BY <1>4, <1>7, <1>8, <3>1, <3>2
  <2>2. CASE n > 0
    <3>0. 1 \in 1..n /\ n \in 1..n /\ g[1] = f[1]
      BY <1>1, <1>4, <2>2
    <3>1. ASSUME NEW l \in 1..n, f[l].id <= x PROVE \E j \in 1..Len(g) : g[j].id = x
      <4>1. PICK j \in 1..n : f[j].id = x
        BY <1>8, <3>0, <3>1 DEF SoundFeed, n, M
      <4>2. j \in 1..Len(g) /\ g[j] = f[j]
        BY <1>1, <1>2, <1>4
      <4>3. QED
        BY <4>1, <4>2
    <3>2. CASE i \in 1..n
      BY <1>4, <1>8, <3>1, <3>2
    <3>3. ASSUME NEW k \in 1..m, i = n + k, ~(f[n].id <= x) PROVE \E j \in 1..Len(g) : g[j].id = x
      <4>1. f[n].id \in M /\ x < f[n].id /\ Place(f[n].id, onlyCritical) >= n
        <5>1. f[n].id \in M
          BY <3>0 DEF SoundFeed, n, M
        <5>2. Place(f[n].id, onlyCritical) >= n
          BY <2>2 DEF SoundFeed, n
        <5>3. QED
          BY <1>1, <3>3, <5>1, <5>2
      <4>2. Place(x, onlyCritical) > n
        <5>1. Place(f[n].id, onlyCritical) < Place(x, onlyCritical)
          BY <4>1, PlaceGrows DEF M
        <5>2. Place(f[n].id, onlyCritical) \in Nat /\ Place(x, onlyCritical) \in Nat
          BY <4>1, PlaceGrows, MatchingIsFinite DEF M
        <5>3. QED
          BY <1>1, <4>1, <5>1, <5>2
      <4>3. QED
        BY <1>4, <1>7, <1>8, <3>3, <4>2
    <3>4. QED
      BY <1>4, <1>5, <1>8, <3>0, <3>1, <3>2, <3>3
  <2>3. QED
    BY <1>1, <2>1, <2>2
<1>9. ASSUME Len(g) > 0 PROVE Place(g[Len(g)].id, onlyCritical) >= Len(g)
  <2>1. CASE m = 0
    BY <1>1, <1>4, <1>9, <2>1 DEF SoundFeed, n
  <2>2. CASE m > 0
    <3>1. m \in 1..m
      BY <1>2, <2>2
    <3>2. QED
      BY <1>1, <1>2, <1>4, <3>1
  <2>3. QED
    BY <1>2, <2>1, <2>2
<1>10. QED
  BY <1>4, <1>6, <1>8, <1>9 DEF SoundFeed, g, M

\* Events that come in and acknowledgements leave a feed sound.
LEMMA FeedStays ==
  ASSUME log \in Seq(Rated), log' \in Seq(Rated), onlyCritical \in BOOLEAN, onlyCritical' = onlyCritical,
         Len(log) <= Len(log'), \A x \in 1..Len(log) : log'[x].critical = log[x].critical,
         NEW f, SoundFeed(f)
  PROVE  SoundFeed(f)'
<1> DEFINE M == Matching(onlyCritical)
           N == Matching(onlyCritical)'
<1>1. Len(log) \in Nat /\ Len(log') \in Nat
  OBVIOUS
<1>2. M \subseteq N /\ N \subseteq Nat /\ M \subseteq Nat /\ IsFiniteSet(N) /\ \A x \in N \ M : x > Len(log)
  <2>1. M = {x \in 1..Len(log) : onlyCritical => log[x].critical}
    BY DEF Matching, Fits
  <2>2. N = {x \in 1..Len(log') : onlyCritical => log'[x].critical}
    BY DEF Matching, Fits
  <2>3. IsFiniteSet(1..Len(log'))
    BY <1>1, FS_Interval
  <2>4. IsFiniteSet(N)
    BY <2>2, <2>3, FS_Subset
  <2>5. QED
    BY <1>1, <2>1, <2>2, <2>4
<1>3. ASSUME NEW x \in M PROVE Place(x, onlyCritical) <= Place(x, onlyCritical)' /\ Place(x, onlyCritical)' \in Nat
                               /\ Place(x, onlyCritical) \in Nat
  <2> DEFINE A == {j \in M : j >= x}
             B == {j \in N : j >= x}
  <2>1. A \subseteq B /\ B \subseteq N
    BY <1>2
  <2>2. IsFiniteSet(B) /\ Cardinality(B) \in Nat
    BY <1>2, <2>1, FS_Subset, FS_CardinalityType
  <2>3. IsFiniteSet(A) /\ Cardinality(A) <= Cardinality(B) /\ Cardinality(A) \in Nat
    BY <2>1, <2>2, FS_Subset, FS_CardinalityType
  <2>4. Place(x, onlyCritical) = Cardinality(A) /\ Place(x, onlyCritical)' = Cardinality(B)
    BY DEF Place
  <2>5. QED
    BY <2>2, <2>3, <2>4
<1>4. \A i \in 1..Len(f) : f[i].id \in M /\ f[i].id <= Len(log)
  BY MatchingIsFinite, <1>1 DEF SoundFeed
<1>5. Len(f) \in Nat
  BY DEF SoundFeed
<1>6. ASSUME NEW i \in 1..Len(f), NEW x \in N, f[i].id <= x, x <= f[1].id PROVE \E j \in 1..Len(f) : f[j].id = x
  <2>1. 1 \in 1..Len(f)
    BY <1>5
  <2>2. x \in M
    BY <1>1, <1>2, <1>4, <1>6, <2>1
  <2>3. QED
    BY <1>6, <2>2 DEF SoundFeed
<1>7. ASSUME Len(f) > 0 PROVE Place(f[Len(f)].id, onlyCritical)' >= Len(f)
  <2>1. Len(f) \in 1..Len(f)
    BY <1>5, <1>7
  <2>2. f[Len(f)].id \in M /\ Place(f[Len(f)].id, onlyCritical) >= Len(f)
    BY <1>4, <1>7, <2>1 DEF SoundFeed
  <2>3. QED
    BY <1>3, <1>5, <2>2
<1>8. \A i \in 1..Len(f) : f[i].id \in N
  BY <1>2, <1>4
<1>9. QED
  BY <1>6, <1>7, <1>8 DEF SoundFeed

Acked == {x \in 1..Len(log) : log[x].acked}

FeedTyped ==
  /\ log \in Seq(Rated) /\ shownView \in {"live", "events"} /\ onlyCritical \in BOOLEAN
  /\ feedSeq \in Nat /\ badgeSeq \in Nat
  /\ mine \subseteq Acked

AsksFeed(q)  == q.ask \in {"feed", "fed"}
AsksBadge(q) == q.ask \in {"feed", "fed", "count", "counted"}

\* What is under way and counts is for the filter, the view and the cards of now, and no answer
\* counts an event that the user was told is acknowledged.
WireInv(q) ==
  /\ AsksFeed(q) => q.feed \in Nat /\ q.feed <= feedSeq /\ (q.badge = badgeSeq => q.feed = feedSeq)
  /\ AsksBadge(q) => q.badge \in Nat /\ q.badge <= badgeSeq
  /\ AsksFeed(q) /\ q.feed = feedSeq => q.critical = onlyCritical
  /\ q.ask = "feed" /\ q.feed = feedSeq => q.offset = Len(feed)
  /\ q.ask = "fed" /\ q.feed = feedSeq => SoundFeed(feed \o q.page)
  /\ q.ask \in {"count", "counted"} /\ q.badge = badgeSeq => q.critical = (shownView = "events" /\ onlyCritical)
  /\ q.ask \in {"counted", "fed"} /\ q.badge = badgeSeq => q.unacked \cap mine = {}
  /\ q.ask = "ack" => q.id \in 0..Len(log)
  /\ q.ask = "acked" => q.of \subseteq Acked

OneFeed == \A q, r \in wire : AsksFeed(q) /\ AsksFeed(r) /\ q.feed = feedSeq /\ r.feed = feedSeq => q = r

FeedInv == FeedTyped /\ SoundFeed(feed) /\ (\A q \in wire : WireInv(q)) /\ OneFeed /\ BadgeFits

LEMMA NoCards == ASSUME onlyCritical \in BOOLEAN PROVE SoundFeed(<<>>)
  BY DEF SoundFeed

LEMMA FeedInitInv == FeedInit => FeedInv
<1> SUFFICES ASSUME FeedInit PROVE FeedInv
  OBVIOUS
<1>1. FeedTyped
  BY EmptySeq DEF FeedInit, FeedTyped
<1>a. SoundFeed(feed)
  <2>1. SoundFeed(<<>>)
    BY NoCards DEF FeedInit
  <2>2. QED
    BY <2>1 DEF FeedInit
<1>2. ASSUME NEW q \in wire PROVE WireInv(q)
  <2>1. q.ask = "count" /\ q.badge = 1 /\ q.critical = FALSE
    BY DEF FeedInit
  <2>2. QED
    <3>1. badgeSeq = 1 /\ (shownView = "events" /\ onlyCritical) = FALSE
      BY DEF FeedInit
    <3>2. q.critical = (shownView = "events" /\ onlyCritical)
      BY <2>1, <3>1, Zenon
    <3>3. QED
      BY <2>1, <3>1, <3>2 DEF WireInv, AsksFeed, AsksBadge
<1>3. OneFeed /\ BadgeFits
  BY DEF FeedInit, OneFeed, AsksFeed, BadgeFits
<1>4. QED
  BY <1>1, <1>a, <1>2, <1>3 DEF FeedInv

\* The log grows, and nothing in it is taken back.
LogGrows ==
  /\ log' \in Seq(Rated) /\ Len(log) <= Len(log')
  /\ \A x \in 1..Len(log) : log'[x].critical = log[x].critical /\ (log[x].acked => log'[x].acked)

LEMMA SameLogGrows == ASSUME log \in Seq(Rated), log' = log PROVE LogGrows
  BY DEF LogGrows

LEMMA CardsStay ==
  ASSUME FeedTyped, LogGrows, onlyCritical' = onlyCritical, feed' = feed
  PROVE  /\ SoundFeed(feed) => SoundFeed(feed)'
         /\ \A pg : SoundFeed(feed \o pg) => SoundFeed(feed \o pg)'
<1>1. ASSUME NEW f, SoundFeed(f) PROVE SoundFeed(f)'
  BY <1>1, FeedStays DEF FeedTyped, LogGrows
<1>2. ASSUME SoundFeed(feed) PROVE SoundFeed(feed)'
  <2>1. PICK f : f = feed
    OBVIOUS
  <2>2. SoundFeed(f)' /\ feed' = f
    BY <1>1, <1>2, <2>1
  <2>3. QED
    BY <2>2 DEF SoundFeed
<1>3. ASSUME NEW pg, SoundFeed(feed \o pg) PROVE SoundFeed(feed \o pg)'
  <2>1. PICK f : f = feed \o pg
    OBVIOUS
  <2>2. SoundFeed(f)' /\ feed' \o pg = f
    BY <1>1, <1>3, <2>1
  <2>3. QED
    BY <2>2 DEF SoundFeed
<1>4. QED
  BY <1>2, <1>3

\* A step that asks for nothing new leaves what is under way as it was.
LEMMA WireStays ==
  ASSUME FeedInv, LogGrows, UNCHANGED <<shownView, onlyCritical, feedSeq, badgeSeq, feed, mine>>
  PROVE  FeedTyped' /\ SoundFeed(feed)' /\ \A q \in wire : WireInv(q)'
<1>1. Len(log) \in Nat /\ Len(log') \in Nat /\ Acked \subseteq Acked'
  BY DEF FeedInv, FeedTyped, LogGrows, Acked
<1>2. FeedTyped'
  BY <1>1 DEF FeedInv, FeedTyped, LogGrows
<1>3. SoundFeed(feed)'
  BY CardsStay DEF FeedInv
<1>4. ASSUME NEW q \in wire PROVE WireInv(q)'
  <2>1. WireInv(q)
    BY DEF FeedInv
  <2>2. q.ask = "fed" /\ q.feed = feedSeq => SoundFeed(feed \o q.page)'
    BY <2>1, CardsStay DEF WireInv, FeedInv
  <2>3. QED
    BY <1>1, <2>1, <2>2 DEF WireInv, LogGrows
<1>5. QED
  BY <1>2, <1>3, <1>4

LEMMA NewEventStays == ASSUME FeedInv, NewEvent PROVE FeedInv'
<1>1. LogGrows
  <2>1. PICK c \in BOOLEAN : log' = Append(log, [critical |-> c, acked |-> FALSE])
    BY DEF NewEvent
  <2>2. [critical |-> c, acked |-> FALSE] \in Rated /\ log \in Seq(Rated)
    BY DEF Rated, FeedInv, FeedTyped
  <2>3. QED
    BY <2>1, <2>2, AppendProperties DEF LogGrows
<1>2. FeedTyped' /\ SoundFeed(feed)' /\ \A q \in wire : WireInv(q)'
  BY <1>1, WireStays DEF NewEvent
<1>3. QED
  BY <1>2 DEF NewEvent, FeedInv, OneFeed, BadgeFits, BadgeAwaited

LEMMA AskAcknowledgeStays == ASSUME FeedInv, AskAcknowledge PROVE FeedInv'
<1>1. FeedTyped' /\ SoundFeed(feed)' /\ \A q \in wire : WireInv(q)'
  BY WireStays, SameLogGrows DEF AskAcknowledge, FeedInv, FeedTyped
<1>2. PICK x \in {c.id : c \in {k \in Range(feed) : ~k.acked}} \cup {0} : wire' = wire \cup {[ask |-> "ack", id |-> x]}
  BY DEF AskAcknowledge
<1>3. x \in 0..Len(log)
  <2>1. \A c \in Range(feed) : c.id \in Matching(onlyCritical)
    BY DEF FeedInv, SoundFeed, Range
  <2>2. QED
    BY <1>2, <2>1, MatchingIsFinite DEF FeedInv, FeedTyped
<1>4. PICK r : r = [ask |-> "ack", id |-> x]
  OBVIOUS
<1>5. r.ask = "ack" /\ r.id = x /\ wire' = wire \cup {r}
  BY <1>2, <1>4
<1>6. WireInv(r)'
  BY <1>3, <1>5 DEF AskAcknowledge, WireInv, AsksFeed, AsksBadge
<1>7. OneFeed' /\ BadgeFits'
  BY <1>5 DEF AskAcknowledge, FeedInv, OneFeed, AsksFeed, BadgeFits, BadgeAwaited
<1>8. QED
  BY <1>1, <1>5, <1>6, <1>7 DEF FeedInv

\* A new number for the feed and the badge: nothing that was asked before counts any more.
LEMMA LoadEventsStays ==
  ASSUME FeedInv, NEW append \in BOOLEAN, NEW in, in \subseteq wire, LoadEvents(append, onlyCritical', in),
         onlyCritical' \in BOOLEAN, append => onlyCritical' = onlyCritical,
         shownView' \in {"live", "events"}, mine' \subseteq Acked, UNCHANGED <<log, badge>>
  PROVE  FeedInv'
<1>1. FeedTyped'
  BY DEF FeedInv, FeedTyped, LoadEvents, Acked
<1>2. SoundFeed(feed)'
  <2>1. CASE append
    BY <2>1, CardsStay, SameLogGrows DEF FeedInv, FeedTyped, LoadEvents
  <2>2. CASE ~append
    <3>1. feed' = <<>>
      BY <2>2 DEF LoadEvents
    <3>2. QED
      BY <3>1 DEF SoundFeed
  <2>3. QED
    BY <2>1, <2>2
<1>3. PICK r : r = [ask |-> "feed", feed |-> feedSeq + 1, badge |-> badgeSeq + 1, critical |-> onlyCritical',
                   offset |-> IF append THEN Len(feed) ELSE 0, append |-> append]
  OBVIOUS
<1>4. /\ r.ask = "feed" /\ r.feed = feedSeq' /\ r.badge = badgeSeq' /\ r.critical = onlyCritical'
      /\ r.offset = IF append THEN Len(feed) ELSE 0
      /\ wire' = in \cup {r} /\ feedSeq' = feedSeq + 1 /\ badgeSeq' = badgeSeq + 1
  BY <1>3 DEF LoadEvents
<1>5. Len(feed') = r.offset
  BY <1>4 DEF LoadEvents
<1>6. WireInv(r)'
  BY <1>1, <1>4, <1>5 DEF WireInv, AsksFeed, AsksBadge, FeedTyped
<1>7. ASSUME NEW q \in in
      PROVE  WireInv(q)' /\ (AsksFeed(q) => q.feed # feedSeq')
  <2>1. WireInv(q) /\ feedSeq \in Nat /\ badgeSeq \in Nat
    BY DEF FeedInv, FeedTyped
  <2>2. (AsksFeed(q) => q.feed # feedSeq' /\ q.feed <= feedSeq') /\ (AsksBadge(q) => q.badge # badgeSeq' /\ q.badge <= badgeSeq')
    BY <1>4, <2>1 DEF WireInv
  <2>3. QED
    BY <2>1, <2>2 DEF WireInv, AsksFeed, AsksBadge, Acked
<1>8. OneFeed' /\ BadgeFits'
  <2>1. OneFeed'
    BY <1>4, <1>7 DEF OneFeed, AsksFeed
  <2>2. BadgeAwaited'
    BY <1>4 DEF BadgeAwaited
  <2>3. QED
    BY <2>1, <2>2 DEF BadgeFits
<1>9. QED
  BY <1>1, <1>2, <1>4, <1>6, <1>7, <1>8 DEF FeedInv

\* A new number for the badge alone.
LEMMA RefreshBadgeStays ==
  ASSUME FeedInv, RefreshBadge(shownView'), shownView' \in {"live", "events"}, UNCHANGED <<log, onlyCritical, badge, mine>>
  PROVE  FeedInv'
<1>1. FeedTyped'
  BY DEF FeedInv, FeedTyped, RefreshBadge, Acked
<1>2. SoundFeed(feed)' /\ \A pg : SoundFeed(feed \o pg) => SoundFeed(feed \o pg)'
  BY CardsStay, SameLogGrows DEF FeedInv, FeedTyped, RefreshBadge
<1>3. PICK r : r = [ask |-> "count", badge |-> badgeSeq + 1, critical |-> shownView' = "events" /\ onlyCritical]
  OBVIOUS
<1>4. /\ r.ask = "count" /\ r.badge = badgeSeq' /\ r.critical = (shownView' = "events" /\ onlyCritical')
      /\ wire' = wire \cup {r} /\ feedSeq' = feedSeq /\ badgeSeq' = badgeSeq + 1
  BY <1>3 DEF RefreshBadge
<1>5. WireInv(r)'
  BY <1>1, <1>4 DEF WireInv, AsksFeed, AsksBadge, FeedTyped
<1>6. ASSUME NEW q \in wire PROVE WireInv(q)'
  <2>1. WireInv(q) /\ feedSeq \in Nat /\ badgeSeq \in Nat
    BY DEF FeedInv, FeedTyped
  <2>2. AsksBadge(q) => q.badge # badgeSeq' /\ q.badge <= badgeSeq'
    BY <1>4, <2>1 DEF WireInv
  <2>3. QED
    BY <1>2, <2>1, <2>2 DEF RefreshBadge, WireInv, AsksFeed, AsksBadge, Acked
<1>7. OneFeed'
  BY <1>4 DEF FeedInv, OneFeed, AsksFeed
<1>8. BadgeAwaited'
  BY <1>4 DEF BadgeAwaited
<1>9. QED
  BY <1>1, <1>2, <1>4, <1>5, <1>6, <1>7, <1>8 DEF FeedInv, BadgeFits

LEMMA AskingStays ==
  ASSUME FeedInv, Periodic \/ SwitchView \/ FilterEvents \/ LoadMore \/ \E a \in wire : AckArrives(a)
  PROVE  FeedInv'
<1>0. FeedTyped
  BY DEF FeedInv
<1>1. CASE Periodic
  BY <1>0, <1>1, RefreshBadgeStays DEF Periodic, FeedTyped
<1>2. CASE SwitchView
  BY <1>0, <1>2, RefreshBadgeStays, LoadEventsStays DEF SwitchView, FeedTyped
<1>3. CASE FilterEvents
  BY <1>0, <1>3, LoadEventsStays DEF FilterEvents, FeedTyped
<1>4. CASE LoadMore
  BY <1>0, <1>4, LoadEventsStays DEF LoadMore, FeedTyped
<1>5. ASSUME NEW a \in wire, AckArrives(a) PROVE FeedInv'
  <2>1. a.of \subseteq Acked
    BY <1>5 DEF FeedInv, WireInv, AckArrives
  <2>2. QED
    BY <1>0, <1>5, <2>1, LoadEventsStays DEF AckArrives, FeedTyped
<1>6. QED
  BY <1>1, <1>2, <1>3, <1>4, <1>5

\* The server's turn.
LEMMA UnackedAreNew ==
  ASSUME FeedTyped, NEW c \in BOOLEAN PROVE Unacked(c) \cap mine = {}
  BY DEF Unacked, FeedTyped, Acked

LEMMA ServeAckStays == ASSUME FeedInv, NEW q \in wire, q.ask = "ack", Serve(q) PROVE FeedInv'
<1> DEFINE of == IF q.id = 0 THEN DOMAIN log ELSE {q.id}
<1>1. /\ log' = [x \in DOMAIN log |-> IF x \in of THEN [log[x] EXCEPT !.acked = TRUE] ELSE log[x]]
      /\ wire' = (wire \ {q}) \cup {[ask |-> "acked", of |-> of]}
  BY DEF Serve
<1>2. log \in Seq(Rated) /\ DOMAIN log = 1..Len(log) /\ Len(log) \in Nat /\ of \subseteq 1..Len(log)
  BY DEF FeedInv, FeedTyped, WireInv
<1> HIDE DEF of
<1>3. LogGrows /\ of \subseteq Acked'
  <2>1. ASSUME NEW x \in 1..Len(log)
        PROVE  log'[x] \in Rated /\ log'[x].critical = log[x].critical /\ (x \in of \/ log[x].acked => log'[x].acked)
    <3>1. log[x] \in Rated /\ log'[x] = IF x \in of THEN [log[x] EXCEPT !.acked = TRUE] ELSE log[x]
      BY <1>1, <1>2
    <3>2. QED
      BY <3>1 DEF Rated
  <2>a. DOMAIN log' = 1..Len(log) /\ log' = [x \in DOMAIN log' |-> log'[x]]
    BY <1>1, <1>2, Zenon
  <2>2. log' \in [1..Len(log) -> Rated]
    BY <2>1, <2>a
  <2>3. log' \in Seq(Rated) /\ Len(log') = Len(log)
    BY <1>2, <2>2, SeqDef
  <2>4. QED
    <3>1. LogGrows
      BY <1>2, <2>1, <2>3 DEF LogGrows
    <3>2. of \subseteq Acked'
      BY <1>2, <2>1, <2>3 DEF Acked
    <3>3. QED
      BY <3>1, <3>2
<1>4. FeedTyped' /\ SoundFeed(feed)' /\ \A r \in wire : WireInv(r)'
  BY <1>3, WireStays DEF Serve
<1>5. PICK r : r = [ask |-> "acked", of |-> of]
  OBVIOUS
<1>6. r.ask = "acked" /\ r.of = of /\ wire' = (wire \ {q}) \cup {r}
  BY <1>1, <1>5
<1>7. WireInv(r)'
  BY <1>3, <1>6 DEF WireInv, AsksFeed, AsksBadge, Serve
<1>8. OneFeed' /\ BadgeFits'
  BY <1>6 DEF Serve, FeedInv, OneFeed, AsksFeed, BadgeFits, BadgeAwaited
<1>9. QED
  BY <1>4, <1>6, <1>7, <1>8 DEF FeedInv

LEMMA ServeCountStays == ASSUME FeedInv, NEW q \in wire, q.ask = "count", Serve(q) PROVE FeedInv'
<1>1. /\ wire' = (wire \ {q}) \cup {[ask |-> "counted", badge |-> q.badge, critical |-> q.critical,
                                      unacked |-> Unacked(q.critical)]}
      /\ UNCHANGED log
  BY DEF Serve
<1>2. FeedTyped' /\ SoundFeed(feed)' /\ \A r \in wire : WireInv(r)'
  BY <1>1, WireStays, SameLogGrows DEF Serve, FeedInv, FeedTyped
<1>3. PICK r : r = [ask |-> "counted", badge |-> q.badge, critical |-> q.critical, unacked |-> Unacked(q.critical)]
  OBVIOUS
<1>4. /\ r.ask = "counted" /\ r.badge = q.badge /\ r.critical = q.critical /\ r.unacked = Unacked(q.critical)
      /\ wire' = (wire \ {q}) \cup {r}
  BY <1>1, <1>3
<1>5. WireInv(q) /\ FeedTyped
  BY DEF FeedInv
<1>6. q.badge = badgeSeq => r.unacked \cap mine = {}
  BY <1>4, <1>5, UnackedAreNew DEF WireInv, FeedTyped
<1>7. WireInv(r)'
  BY <1>4, <1>5, <1>6 DEF WireInv, AsksFeed, AsksBadge, Serve
<1>8. OneFeed' /\ BadgeFits'
  BY <1>4 DEF Serve, FeedInv, OneFeed, AsksFeed, BadgeFits, BadgeAwaited
<1>9. QED
  BY <1>2, <1>4, <1>7, <1>8 DEF FeedInv

LEMMA ServeFeedStays == ASSUME FeedInv, NEW q \in wire, q.ask = "feed", Serve(q) PROVE FeedInv'
<1> DEFINE pg == [i \in DOMAIN Page(q.offset, q.critical) |->
                      [id |-> Page(q.offset, q.critical)[i], acked |-> log[Page(q.offset, q.critical)[i]].acked]]
<1>1. /\ wire' = (wire \ {q}) \cup
           {[ask |-> "fed", feed |-> q.feed, badge |-> q.badge, critical |-> q.critical, append |-> q.append,
             unacked |-> Unacked(q.critical), page |-> pg]}
      /\ UNCHANGED log
  BY DEF Serve
<1>2. FeedTyped' /\ SoundFeed(feed)' /\ \A r \in wire : WireInv(r)'
  BY <1>1, WireStays, SameLogGrows DEF Serve, FeedInv, FeedTyped
<1>3. WireInv(q) /\ FeedTyped /\ AsksFeed(q)
  BY DEF FeedInv, AsksFeed
<1>4. q.feed = feedSeq => SoundFeed(feed \o pg)
  <2>1. SUFFICES ASSUME q.feed = feedSeq PROVE SoundFeed(feed \o pg)
    OBVIOUS
  <2>2. q.critical = onlyCritical /\ q.offset = Len(feed) /\ SoundFeed(feed) /\ log \in Seq(Rated) /\ onlyCritical \in BOOLEAN
    BY <1>3, <2>1 DEF WireInv, FeedInv, FeedTyped
  <2> DEFINE P == Page(Len(feed), onlyCritical)
  <2>3. pg = [i \in DOMAIN P |-> [id |-> P[i], acked |-> log[P[i]].acked]]
    BY <2>2
  <2>4. \A i \in DOMAIN P : P[i] \in 1..Len(log) /\ P[i] \in Nat
    <3>1. Len(feed) \in Nat
      BY <2>2 DEF SoundFeed
    <3>2. \A i \in DOMAIN P : P[i] \in Matching(onlyCritical)
      BY <2>2, <3>1, PageHolds
    <3>3. QED
      BY <2>2, <3>2, MatchingIsFinite
  <2> HIDE DEF pg, P
  <2>5. DOMAIN pg = DOMAIN P /\ pg = [i \in DOMAIN pg |-> pg[i]]
    BY <2>3
  <2>6. ASSUME NEW i \in DOMAIN pg PROVE pg[i] \in Card /\ pg[i].id = P[i]
    <3>1. i \in DOMAIN P /\ pg[i] = [id |-> P[i], acked |-> log[P[i]].acked]
      BY <2>3, <2>5
    <3>2. log[P[i]] \in Rated /\ P[i] \in Nat
      BY <2>2, <2>4, <3>1
    <3>3. QED
      BY <3>1, <3>2 DEF Card, Rated
  <2>7. QED
    BY <2>2, <2>5, <2>6, FeedContinues DEF P
<1> HIDE DEF pg
<1>5. PICK r : r = [ask |-> "fed", feed |-> q.feed, badge |-> q.badge, critical |-> q.critical, append |-> q.append,
                   unacked |-> Unacked(q.critical), page |-> pg]
  OBVIOUS
<1>6. /\ r.ask = "fed" /\ r.feed = q.feed /\ r.badge = q.badge /\ r.critical = q.critical
      /\ r.unacked = Unacked(q.critical) /\ r.page = pg /\ wire' = (wire \ {q}) \cup {r}
  BY <1>1, <1>5
<1>7. q.badge = badgeSeq => r.unacked \cap mine = {}
  BY <1>3, <1>6, UnackedAreNew DEF WireInv, FeedTyped
<1>8. q.feed = feedSeq => SoundFeed(feed \o r.page)'
  <2>1. q.feed = feedSeq => SoundFeed(feed \o r.page)
    BY <1>4, <1>6
  <2>2. SoundFeed(feed \o r.page) => SoundFeed(feed \o r.page)'
    BY <1>1, <1>3, CardsStay, SameLogGrows DEF Serve, FeedTyped
  <2>3. QED
    BY <2>1, <2>2
<1>9. WireInv(r)'
  BY <1>3, <1>6, <1>7, <1>8 DEF WireInv, AsksFeed, AsksBadge, Serve
<1>10. OneFeed'
  BY <1>3, <1>6 DEF Serve, FeedInv, OneFeed, AsksFeed
<1>11. BadgeFits'
  BY <1>6 DEF Serve, FeedInv, BadgeFits, BadgeAwaited
<1>12. QED
  BY <1>2, <1>6, <1>9, <1>10, <1>11 DEF FeedInv

LEMMA FeedArrivesStays == ASSUME FeedInv, NEW a \in wire, FeedArrives(a) PROVE FeedInv'
<1>0. WireInv(a) /\ FeedTyped /\ AsksFeed(a) /\ AsksBadge(a) /\ a.ask = "fed" /\ wire' = wire \ {a} /\ UNCHANGED <<log, mine>>
  BY DEF FeedInv, AsksFeed, AsksBadge, FeedArrives
<1>1. CASE PageSuperseded(a)
  <2>1. FeedTyped' /\ SoundFeed(feed)' /\ \A q \in wire : WireInv(q)'
    BY <1>0, <1>1, WireStays, SameLogGrows DEF FeedArrives, FeedTyped
  <2>2. a.badge # badgeSeq
    BY <1>0, <1>1 DEF WireInv, PageSuperseded
  <2>3. OneFeed' /\ BadgeFits'
    BY <1>0, <1>1, <2>2 DEF FeedArrives, FeedInv, OneFeed, AsksFeed, BadgeFits, BadgeAwaited
  <2>4. QED
    BY <1>0, <2>1, <2>3 DEF FeedInv
<1>2. CASE ~PageSuperseded(a)
  <2>1. a.feed = feedSeq /\ a.critical = onlyCritical /\ SoundFeed(feed \o a.page) /\ feed' = feed \o a.page
    BY <1>0, <1>2 DEF WireInv, PageSuperseded, FeedArrives
  <2>2. SoundFeed(feed)'
    <3>1. PICK f : f = feed \o a.page
      OBVIOUS
    <3>2. SoundFeed(f)'
      BY <1>0, <2>1, <3>1, FeedStays, SameLogGrows DEF FeedArrives, FeedTyped, LogGrows
    <3>3. QED
      BY <2>1, <3>1, <3>2 DEF SoundFeed
  <2>3. FeedTyped'
    BY <1>0 DEF FeedArrives, FeedTyped, Acked
  <2>4. ASSUME NEW q \in wire \ {a} PROVE WireInv(q)'
    <3>1. WireInv(q) /\ (AsksFeed(q) => q.feed # feedSeq)
      BY <1>0, <2>1 DEF FeedInv, OneFeed
    <3>2. QED
      BY <1>0, <3>1 DEF FeedArrives, WireInv, AsksFeed, AsksBadge, Acked
  <2>5. OneFeed'
    BY <1>0 DEF FeedArrives, FeedInv, OneFeed
  <2>6. BadgeFits'
    <3>1. CASE a.badge = badgeSeq /\ shownView = "events"
      <4>1. badge'.seen = a.unacked /\ badge'.critical = onlyCritical
        BY <1>2, <2>1, <3>1 DEF FeedArrives
      <4>2. a.unacked \cap mine = {}
        BY <1>0, <3>1 DEF WireInv
      <4>3. QED
        BY <1>0, <3>1, <4>1, <4>2 DEF FeedArrives, BadgeFits, FeedTyped
    <3>2. CASE a.badge = badgeSeq /\ shownView # "events"
      <4>1. unanswered'
        BY <1>2, <3>2 DEF FeedArrives
      <4>2. QED
        BY <4>1 DEF BadgeFits
    <3>3. CASE a.badge # badgeSeq
      <4>1. UNCHANGED badge /\ (~unanswered' => ~unanswered) /\ (BadgeAwaited => BadgeAwaited')
        BY <1>0, <1>2, <3>3 DEF FeedArrives, BadgeAwaited
      <4>2. QED
        BY <1>0, <4>1 DEF FeedArrives, FeedInv, BadgeFits
    <3>4. QED
      BY <3>1, <3>2, <3>3
  <2>7. QED
    BY <1>0, <2>2, <2>3, <2>4, <2>5, <2>6 DEF FeedInv
<1>3. QED
  BY <1>1, <1>2

LEMMA CountArrivesStays == ASSUME FeedInv, NEW a \in wire, CountArrives(a) PROVE FeedInv'
<1>0. WireInv(a) /\ FeedTyped /\ AsksBadge(a) /\ a.ask = "counted" /\ wire' = wire \ {a} /\ UNCHANGED log
  BY DEF FeedInv, AsksBadge, CountArrives
<1>1. FeedTyped' /\ SoundFeed(feed)' /\ \A q \in wire : WireInv(q)'
  BY <1>0, WireStays, SameLogGrows DEF CountArrives, FeedTyped
<1>2. OneFeed'
  BY <1>0 DEF CountArrives, FeedInv, OneFeed
<1>3. BadgeFits'
  <2>1. CASE CountSuperseded(a)
    BY <1>0, <2>1 DEF CountArrives, CountSuperseded, FeedInv, BadgeFits, BadgeAwaited
  <2>2. CASE ~CountSuperseded(a)
    <3>1. badge'.seen = a.unacked /\ badge'.critical = a.critical /\ a.unacked \cap mine = {}
      BY <1>0, <2>2 DEF CountArrives, CountSuperseded, WireInv
    <3>2. a.critical = (shownView = "events" /\ onlyCritical)
      BY <1>0, <2>2 DEF CountSuperseded, WireInv
    <3>3. QED
      BY <3>1, <3>2 DEF CountArrives, BadgeFits
  <2>3. QED
    BY <2>1, <2>2
<1>4. QED
  BY <1>0, <1>1, <1>2, <1>3 DEF FeedInv

LEMMA RequestFailsStays == ASSUME FeedInv, NEW q \in wire, RequestFails(q) PROVE FeedInv'
<1>0. FeedTyped /\ wire' = wire \ {q} /\ UNCHANGED log
  BY DEF FeedInv, RequestFails
<1>1. FeedTyped' /\ SoundFeed(feed)' /\ \A r \in wire : WireInv(r)'
  BY <1>0, WireStays, SameLogGrows DEF RequestFails, FeedTyped
<1>2. OneFeed'
  BY <1>0 DEF RequestFails, FeedInv, OneFeed
<1>3. BadgeFits'
  BY <1>0 DEF RequestFails, FeedInv, BadgeFits, BadgeAwaited
<1>4. QED
  BY <1>0, <1>1, <1>2, <1>3 DEF FeedInv

LEMMA FeedNextInv == FeedInv /\ [FeedNext]_feedVars => FeedInv'
<1>1. ASSUME FeedInv, FeedNext PROVE FeedInv'
  <2>1. ASSUME NEW q \in wire, Serve(q) PROVE FeedInv'
    BY <1>1, <2>1, ServeAckStays, ServeCountStays, ServeFeedStays DEF Serve
  <2>2. QED
    BY <1>1, <2>1, NewEventStays, AskAcknowledgeStays, AskingStays, FeedArrivesStays, CountArrivesStays, RequestFailsStays
       DEF FeedNext
<1>2. ASSUME FeedInv, UNCHANGED feedVars PROVE FeedInv'
  <2>1. FeedTyped' /\ SoundFeed(feed)' /\ \A q \in wire : WireInv(q)'
    BY <1>2, WireStays, SameLogGrows DEF feedVars, FeedInv, FeedTyped
  <2>2. QED
    BY <1>2, <2>1 DEF feedVars, FeedInv, OneFeed, BadgeFits, BadgeAwaited
<1>3. QED
  BY <1>1, <1>2

LEMMA NoGapFollows == FeedInv => FeedIsTrue
<1> SUFFICES ASSUME FeedInv PROVE FeedIsTrue
  OBVIOUS
<1>1. feed \in Seq(Card) /\ DOMAIN feed = 1..Len(feed) /\ log \in Seq(Rated) /\ onlyCritical \in BOOLEAN
  BY DEF FeedInv, FeedTyped, SoundFeed
<1>2. ASSUME NEW c \in Cards, NEW x \in c..feed[1].id, Fits(x, onlyCritical) PROVE x \in Cards
  <2>1. PICK i \in 1..Len(feed) : c = feed[i].id
    BY <1>1 DEF Cards
  <2>2. 1 \in 1..Len(feed)
    BY <1>1
  <2>3. c \in Matching(onlyCritical) /\ feed[1].id \in Matching(onlyCritical)
    BY <2>1, <2>2 DEF FeedInv, SoundFeed
  <2>4. x \in Matching(onlyCritical) /\ feed[i].id <= x /\ x <= feed[1].id
    <3>1. c \in 1..Len(log) /\ feed[1].id \in 1..Len(log) /\ Len(log) \in Nat
      BY <1>1, <2>3, MatchingIsFinite
    <3>2. x \in 1..Len(log) /\ c <= x /\ x <= feed[1].id
      BY <3>1
    <3>3. QED
      BY <1>1, <1>2, <2>1, <3>2 DEF Matching
  <2>5. QED
    BY <1>1, <2>1, <2>4 DEF FeedInv, SoundFeed, Cards
<1>3. FeedHasNoGap
  BY <1>2 DEF FeedHasNoGap
<1>4. QED
  BY <1>3 DEF FeedIsTrue, FeedInv

\* The feed leaves no event out from its first card down, and the badge tells of the view and the
\* filter on the screen: for pages of any size, any number of events, requests and acknowledgements,
\* whichever answers are late, lost or out of order.
THEOREM FeedStaysTrue == FeedSpec => []FeedIsTrue
<1>1. QED
  BY FeedInitInv, FeedNextInv, NoGapFollows, PTL DEF FeedSpec

---------------------------------------------------------------------------
(***************************************************************************)
(* When a collector asks (CollectorBackoff), for every interval, penalty   *)
(* ladder and reset time that satisfy its assumptions.                     *)
(***************************************************************************)
LEMMA PenaltyRange == ASSUME NEW n \in 0..MaxFailures PROVE Penalty(n) \in 0..MaxPenalty
<1>1. CASE n = 0
  BY <1>1, BackoffAssumption DEF Penalty
<1>2. CASE n # 0
  <2>1. BasePenalty * 2^(n - 1) \in Nat
    BY <1>2, BackoffAssumption, LadderAssumption
  <2> HIDE DEF Penalty
  <2>2. Penalty(n) = Smaller(BasePenalty * 2^(n - 1), MaxPenalty)
    BY <1>2 DEF Penalty
  <2>3. QED
    BY <2>1, <2>2, BackoffAssumption DEF Smaller
<1>3. QED
  BY <1>1, <1>2

LEMMA CountedRange == ASSUME TypeOK PROVE Counted \in 0..MaxFailures
  BY BackoffAssumption DEF TypeOK, Counted

LEMMA PenaltyCountedRange ==
  TypeOK => Penalty(Counted) \in 0..MaxPenalty /\ Penalty(failures) \in 0..MaxPenalty
  BY CountedRange, PenaltyRange DEF TypeOK

\* The clock readings never fall further behind than the clock was set back.
ClockInv == sincePoll + back >= 0 /\ sinceFailure + back >= 0

\* The waiting time is part of the time since the last poll, as the clock
\* should have shown it.
WaitInv == waited <= sincePoll + back

IInv == TypeOK /\ ClockInv /\ WaitInv /\ WaitIsBounded

LEMMA HorizonRange ==
  /\ Horizon \in Nat /\ MaxBack \in Nat /\ MaxFailures \in Nat /\ MaxFailures >= 1
  /\ Interval + MaxPenalty \in Nat /\ Interval + MaxPenalty < Horizon
  BY BackoffAssumption DEF Horizon

LEMMA SumGrows ==
  ASSUME NEW w \in Nat, NEW x \in Int, NEW y \in Int, NEW b \in Nat, y >= x, w <= x + b
  PROVE  w <= y + b
  OBVIOUS

LEMMA InitIInv == Init => IInv
<1> SUFFICES ASSUME Init PROVE IInv
  OBVIOUS
<1> USE HorizonRange
<1>1. sincePoll = Horizon /\ sinceFailure = Horizon /\ failures = 0 /\ back = 0 /\ waited = 0 /\ streak = 0
  BY DEF Init
<1>2. TypeOK
  <2>1. 0 \in 0..MaxFailures /\ 0 \in 0..MaxBack /\ Horizon \in -MaxBack..Horizon
    OBVIOUS
  <2>2. running \in BOOLEAN /\ enabled \in BOOLEAN /\ off \in BOOLEAN
    BY Zenon DEF Init
  <2>3. back \in 0..MaxBack /\ waited \in Nat /\ streak \in 0..MaxFailures
    BY <1>1, <2>1
  <2>4. sincePoll \in -MaxBack..Horizon /\ sinceFailure \in -MaxBack..Horizon /\ failures \in 0..MaxFailures
    BY <1>1, <2>1
  <2>5. QED
    BY <2>2, <2>3, <2>4 DEF TypeOK
<1>3. ClockInv /\ WaitInv /\ WaitIsBounded
  BY <1>1, BackoffAssumption DEF ClockInv, WaitInv, WaitIsBounded
<1>4. QED
  BY <1>2, <1>3 DEF IInv

LEMMA TickIInv == IInv /\ Tick => IInv'
<1> SUFFICES ASSUME IInv, Tick PROVE IInv'
  OBVIOUS
<1> USE BackoffAssumption DEF IInv
<1> DEFINE limit == Interval + Penalty(Counted)
<1>1. Penalty(Counted) \in 0..MaxPenalty
  BY CountedRange, PenaltyRange
<1>2. limit \in Nat /\ limit <= Interval + MaxPenalty /\ limit < Horizon
  BY <1>1 DEF Horizon
<1>3. enabled /\ ~running => ~(sincePoll >= limit)
  BY DEF Tick, ShouldPoll
<1> HIDE DEF limit
<1>4. TypeOK'
  BY DEF Tick, TypeOK, Later, Smaller, Horizon
<1>5. ClockInv'
  BY DEF Tick, TypeOK, ClockInv, Later, Smaller, Horizon
<1>6. CASE enabled /\ ~running
  <2>1. sincePoll' = sincePoll + 1
    BY <1>2, <1>3, <1>6 DEF Tick, TypeOK, Later, Smaller, Horizon
  <2>2. WaitInv' /\ WaitIsBounded'
    BY <1>2, <1>3, <1>6, <2>1 DEF Tick, TypeOK, WaitInv, WaitIsBounded, Horizon
  <2>3. QED
    BY <1>4, <1>5, <2>2
<1>7. CASE ~(enabled /\ ~running)
  <2>1. sincePoll' >= sincePoll /\ waited' = waited /\ back' = back
    BY <1>7 DEF Tick, TypeOK, Later, Smaller, Horizon
  <2>2. waited \in Nat /\ back \in Nat /\ sincePoll \in Int /\ sincePoll' \in Int
    BY <1>4 DEF TypeOK
  <2>3. WaitInv'
    <3>1. waited <= sincePoll + back
      BY DEF WaitInv
    <3>2. waited <= sincePoll' + back
      BY <2>1, <2>2, <3>1, SumGrows
    <3>3. QED
      BY <2>1, <3>2 DEF WaitInv
  <2>4. WaitIsBounded'
    BY <2>1, <2>2 DEF WaitIsBounded
  <2>5. QED
    BY <1>4, <1>5, <2>3, <2>4
<1>8. QED
  BY <1>6, <1>7

LEMMA NextIInv == IInv /\ [Next]_vars => IInv'
<1> SUFFICES ASSUME IInv, [Next]_vars PROVE IInv'
  OBVIOUS
<1> USE BackoffAssumption
    DEF IInv, TypeOK, ClockInv, WaitInv, WaitIsBounded, Horizon, clockVars, histVars
<1>1. CASE Tick
  BY <1>1, TickIInv
<1>2. CASE SetClockBack
  BY <1>2 DEF SetClockBack
<1>3. CASE StartPoll
  BY <1>3, CountedRange DEF StartPoll
<1>4. CASE ReadPenalty
  BY <1>4 DEF ReadPenalty
<1>5. CASE RecordSuccessOrSkip \/ RecordFailure
  <2>1. Recorded
    BY <1>5 DEF RecordSuccessOrSkip, RecordFailure
  <2>2. /\ failures' \in 0..MaxFailures /\ streak' \in 0..MaxFailures
        /\ sinceFailure' \in {0, sinceFailure}
    BY <1>5 DEF RecordSuccessOrSkip, RecordFailure, Smaller
  <2>3. /\ running' = FALSE /\ enabled' = enabled /\ off' = FALSE
        /\ sincePoll' = 0 /\ waited' = 0 /\ back' = back
    BY <2>1 DEF Recorded
  <2>4. TypeOK'
    <3>1. running' \in BOOLEAN /\ enabled' \in BOOLEAN /\ off' \in BOOLEAN
      BY <2>3
    <3>2. sincePoll' \in -MaxBack..Horizon /\ sinceFailure' \in -MaxBack..Horizon
      BY <2>2, <2>3, HorizonRange
    <3>3. back' \in 0..MaxBack /\ waited' \in Nat
      BY <2>3
    <3>4. QED
      BY <2>2, <3>1, <3>2, <3>3
  <2>5. back \in Nat /\ sinceFailure + back >= 0 /\ sinceFailure \in Int
    OBVIOUS
  <2>6. ClockInv'
    <3>1. 0 + back >= 0
      BY <2>5
    <3>2. sinceFailure' + back >= 0
      BY <2>2, <2>5, <3>1
    <3>3. QED
      BY <2>3, <3>1, <3>2
  <2>7. WaitInv' /\ WaitIsBounded'
    BY <2>3, <2>5, HorizonRange
  <2>8. QED
    BY <2>4, <2>6, <2>7
<1>7. CASE Toggle
  BY <1>7 DEF Toggle
<1>8. CASE UNCHANGED vars
  BY <1>8 DEF vars
<1>9. QED
  BY <1>1, <1>2, <1>3, <1>4, <1>5, <1>7, <1>8 DEF Next

LEMMA IInvAlways == Spec => []IInv
  BY InitIInv, NextIInv, PTL DEF Spec

\* No collector that is switched on and idle waits longer than its interval,
\* the greatest penalty and the clock's set-backs (base.py should_poll).
THEOREM BoundedWait == Spec => []WaitIsBounded
<1>1. IInv => WaitIsBounded
  BY DEF IInv
<1>2. QED
  BY IInvAlways, <1>1, PTL

---------------------------------------------------------------------------
\* The safety part of the promise to the polling loop: as long as the clock is
\* not set back, every step of the schedule is a step of DueTimer or none.
THEOREM ImplementsDueTimer == Spec => Due!DueInit /\ [][Due!DueNext]_(Due!dueVars)
<1> USE BackoffAssumption
<1>1. Init => Due!DueInit
  BY DEF Init, Due!DueInit, ShouldPoll, Counted, IdleReset, Penalty, Horizon
<1>2. IInv /\ [Next]_vars => [Due!DueNext]_(Due!dueVars)
  <2> SUFFICES ASSUME IInv, [Next]_vars PROVE [Due!DueNext]_(Due!dueVars)
    OBVIOUS
  <2>1. TypeOK /\ TypeOK'
    BY NextIInv DEF IInv
  <2>2. Penalty(Counted) \in 0..MaxPenalty /\ (Penalty(Counted) \in 0..MaxPenalty)'
    BY <2>1, PenaltyCountedRange, PTL
  <2> ShouldPoll \in BOOLEAN /\ ShouldPoll' \in BOOLEAN
    BY <2>1, <2>2, HorizonRange DEF ShouldPoll, TypeOK
  <2>3. CASE SetClockBack
    <3>1. back' # 0
      BY <2>1, <2>3 DEF SetClockBack, TypeOK
    <3>2. QED
      BY <3>1 DEF Due!DueNext
  <2>4. CASE back # 0 /\ back' = back
    BY <2>4 DEF Due!DueNext
  <2> HIDE BackoffAssumption
  <2> USE DEF Due!DueNext, Due!dueVars, Due!Keep, Due!BecomeDue, Due!Start, Due!Record
  <2>5. CASE Tick /\ back = 0
    <3>1. Counted' \in {Counted, 0} /\ failures' = failures
      BY <2>1, <2>5, HorizonRange, BackoffAssumption DEF Tick, Counted, IdleReset, TypeOK, Later, Smaller
    <3>2. Penalty(Counted)' \in {Penalty(Counted), 0}
      BY <3>1 DEF Penalty
    <3>3. ShouldPoll => ShouldPoll'
      BY <2>1, <2>2, <2>5, <3>2, HorizonRange, BackoffAssumption
      DEF Tick, ShouldPoll, TypeOK, Later, Smaller
    <3>4. running' = running /\ back' = 0
      BY <2>5 DEF Tick
    <3>5. QED
      BY <2>5, <3>3, <3>4, Zenon DEF ShouldPoll
  <2>6. CASE StartPoll /\ back = 0
    <3>1. Counted' = Counted /\ sincePoll' = sincePoll /\ back' = 0
      BY <2>1, <2>6, BackoffAssumption DEF StartPoll, Counted, IdleReset, TypeOK
    <3>2. ShouldPoll' = ShouldPoll
      BY <3>1 DEF ShouldPoll, Penalty
    <3>3. ShouldPoll /\ ~running /\ running' = TRUE
      BY <2>6, Zenon DEF StartPoll
    <3>4. QED
      BY <2>6, <3>1, <3>2, <3>3, Zenon
  <2>7. CASE ReadPenalty
    <3>1. Counted' = Counted /\ sincePoll' = sincePoll /\ running' = running /\ back' = back
      BY <2>1, <2>7, BackoffAssumption DEF ReadPenalty, Counted, IdleReset, TypeOK
    <3>2. QED
      BY <3>1 DEF ShouldPoll, Penalty
  <2>8. CASE (RecordSuccessOrSkip \/ RecordFailure) /\ back = 0
    <3>1. running /\ running' = FALSE /\ sincePoll' = 0 /\ back' = 0
      BY <2>8, Zenon DEF RecordSuccessOrSkip, RecordFailure, Recorded
    <3>2. ~ShouldPoll'
      BY <2>2, <3>1, BackoffAssumption DEF ShouldPoll
    <3>3. QED
      BY <2>8, <3>1, <3>2, Zenon DEF ShouldPoll
  <2>9. CASE Toggle
    BY <2>9 DEF Toggle, clockVars, ShouldPoll, Counted, IdleReset, Penalty
  <2>10. CASE UNCHANGED vars
    BY <2>10 DEF vars, clockVars, ShouldPoll, Counted, IdleReset, Penalty
  <2>11. ~SetClockBack /\ [Next]_vars => back' = back
    BY DEF Next, vars, Tick, StartPoll, ReadPenalty, RecordSuccessOrSkip, RecordFailure, Recorded, Toggle
  <2>12. QED
    BY <2>3, <2>4, <2>5, <2>6, <2>7, <2>8, <2>9, <2>10, <2>11 DEF Next
<1>3. QED
  BY IInvAlways, <1>1, <1>2, PTL DEF Spec

---------------------------------------------------------------------------
\* More failures never mean a smaller penalty.
LEMMA PenaltyGrows ==
  ASSUME NEW m \in 0..MaxFailures, NEW n \in 0..MaxFailures, m <= n
  PROVE  Penalty(m) <= Penalty(n)
<1>1. Penalty(n) \in 0..MaxPenalty
  BY PenaltyRange
<1>2. CASE m = 0
  BY <1>1, <1>2 DEF Penalty
<1>3. CASE m # 0
  <2> DEFINE rung(k) == BasePenalty * 2^(k - 1)
  <2>1. rung(m) \in Nat /\ rung(n) \in Nat /\ rung(m) <= rung(n)
    BY <1>3, BackoffAssumption, LadderAssumption
  <2>2. Penalty(m) = Smaller(rung(m), MaxPenalty) /\ Penalty(n) = Smaller(rung(n), MaxPenalty)
    BY <1>3 DEF Penalty
  <2> HIDE DEF rung
  <2>3. QED
    BY <2>1, <2>2, BackoffAssumption DEF Smaller
<1>4. QED
  BY <1>2, <1>3

\* The count is short of the failures in a row only when the last one is long past.
StreakInv == back = 0 => streak <= failures \/ sinceFailure >= ResetAfter

\* Polled as scheduled, a failing collector has failed when it was polled last,
\* and no longer ago than the schedule lets it wait.
RecentInv == failures > 0 /\ ~off =>
               sinceFailure = sincePoll /\ sincePoll <= Interval + MaxPenalty

LadderInv == IInv /\ StreakInv /\ RecentInv

LEMMA InitLadder == Init => LadderInv
<1> SUFFICES ASSUME Init PROVE LadderInv
  OBVIOUS
<1>1. failures = 0 /\ streak = 0
  BY DEF Init
<1>2. QED
  BY <1>1, InitIInv DEF LadderInv, StreakInv, RecentInv

LEMMA TickLadder == ASSUME LadderInv, IInv', Tick PROVE LadderInv'
<1> USE BackoffAssumption, HorizonRange
<1>0. TypeOK /\ TypeOK' /\ StreakInv /\ RecentInv
  BY DEF LadderInv, IInv
<1>1. /\ sincePoll' = Later(sincePoll) /\ sinceFailure' = Later(sinceFailure)
      /\ failures' = failures /\ streak' = streak /\ back' = back
  BY DEF Tick
<1>2. StreakInv'
  BY <1>0, <1>1 DEF StreakInv, TypeOK, Later, Smaller, Horizon
<1>3. RecentInv'
  <2> SUFFICES ASSUME failures > 0, ~off'
               PROVE  sinceFailure' = sincePoll' /\ sincePoll' <= Interval + MaxPenalty
    BY <1>1 DEF RecentInv
  <2>1. ~off /\ enabled /\ ~running
    BY DEF Tick
  <2>2. ~(sincePoll >= Interval + Penalty(Counted))
    BY <2>1 DEF Tick, ShouldPoll
  <2>3. Penalty(Counted) \in 0..MaxPenalty
    BY <1>0, PenaltyCountedRange
  <2>4. sincePoll + 1 <= Interval + MaxPenalty
    BY <1>0, <2>2, <2>3 DEF TypeOK
  <2>5. sinceFailure = sincePoll
    BY <1>0, <2>1 DEF RecentInv
  <2>6. sinceFailure' = sincePoll' /\ sincePoll' = sincePoll + 1
    BY <1>0, <1>1, <2>4, <2>5 DEF TypeOK, Later, Smaller
  <2>7. QED
    BY <2>4, <2>6
<1>4. QED
  BY <1>2, <1>3 DEF LadderInv

LEMMA RecordLadder ==
  ASSUME LadderInv, IInv', RecordSuccessOrSkip \/ RecordFailure PROVE LadderInv'
<1> USE BackoffAssumption, HorizonRange
<1>0. TypeOK /\ TypeOK' /\ StreakInv /\ RecentInv
  BY DEF LadderInv, IInv
<1>1. sincePoll' = 0 /\ back' = back
  BY DEF RecordSuccessOrSkip, RecordFailure, Recorded
<1>2. CASE RecordSuccessOrSkip
  <2>1. failures' = 0 /\ streak' = 0
    BY <1>2 DEF RecordSuccessOrSkip
  <2>2. QED
    BY <2>1 DEF LadderInv, StreakInv, RecentInv
<1>3. CASE RecordFailure
  <2>1. /\ failures' = Smaller(failures + 1, MaxFailures) /\ sinceFailure' = 0
        /\ streak' = IF sinceFailure >= ResetAfter THEN 1 ELSE Smaller(streak + 1, MaxFailures)
    BY <1>3 DEF RecordFailure
  <2>2. failures \in 0..MaxFailures /\ streak \in 0..MaxFailures
    BY <1>0 DEF TypeOK
  <2>3. back = 0 => streak' <= failures'
    BY <1>0, <2>1, <2>2 DEF StreakInv, Smaller
  <2>4. QED
    BY <1>1, <2>1, <2>3 DEF LadderInv, StreakInv, RecentInv
<1>4. QED
  BY <1>2, <1>3

LEMMA NextLadder == LadderInv /\ [Next]_vars => LadderInv'
<1> SUFFICES ASSUME LadderInv, [Next]_vars PROVE LadderInv'
  OBVIOUS
<1> USE BackoffAssumption, HorizonRange
<1>0. TypeOK /\ TypeOK' /\ StreakInv /\ RecentInv /\ IInv'
  BY NextIInv DEF LadderInv, IInv
<1>1. CASE SetClockBack
  <2>1. /\ sincePoll' = sincePoll - 1 /\ sinceFailure' = sinceFailure - 1
        /\ failures' = failures /\ off' = off /\ back' # 0
    BY <1>0, <1>1 DEF SetClockBack, histVars, TypeOK
  <2>2. StreakInv'
    BY <2>1 DEF StreakInv
  <2>3. RecentInv'
    BY <1>0, <2>1 DEF RecentInv, TypeOK
  <2>4. QED
    BY <1>0, <2>2, <2>3 DEF LadderInv
<1>2. CASE StartPoll \/ ReadPenalty
  <2>1. failures' = failures \/ (failures' = 0 /\ sinceFailure >= ResetAfter)
    BY <1>2 DEF StartPoll, ReadPenalty, Counted, IdleReset
  <2>2. UNCHANGED <<sincePoll, sinceFailure, streak, off, back>>
    BY <1>2 DEF StartPoll, ReadPenalty, histVars
  <2>3. QED
    BY <1>0, <2>1, <2>2 DEF LadderInv, StreakInv, RecentInv
<1>3. CASE Toggle \/ UNCHANGED vars
  BY <1>0, <1>3 DEF Toggle, vars, clockVars, histVars, LadderInv, StreakInv, RecentInv
<1>4. QED
  BY <1>0, <1>1, <1>2, <1>3, TickLadder, RecordLadder DEF Next

\* A failing collector is not polled before its step of the ladder, whoever reads
\* the penalty in between, and failures of a collector that is polled as scheduled
\* are not forgotten (base.py penalty_seconds, should_poll, record_failure).
THEOREM BacksOff == Spec => BackoffHolds
<1>1. LadderInv /\ [Next]_vars =>
        [/\ ~running /\ running' /\ back = 0 =>
              sincePoll >= Interval + Penalty(streak) \/ sinceFailure >= ResetAfter
         /\ failures' < failures /\ running' = running => off]_vars
  <2> SUFFICES ASSUME LadderInv, Next
               PROVE  /\ ~running /\ running' /\ back = 0 =>
                           sincePoll >= Interval + Penalty(streak) \/ sinceFailure >= ResetAfter
                      /\ failures' < failures /\ running' = running => off
    OBVIOUS
  <2>0. TypeOK /\ StreakInv /\ RecentInv
    BY DEF LadderInv, IInv
  <2>1. ASSUME ~running, running', back = 0, ~(sinceFailure >= ResetAfter)
        PROVE  sincePoll >= Interval + Penalty(streak)
    <3>1. StartPoll
      BY <2>1 DEF Next, Tick, SetClockBack, ReadPenalty, RecordSuccessOrSkip, RecordFailure, Recorded, Toggle
    <3>2. Counted = failures /\ streak <= failures
      BY <2>0, <2>1 DEF Counted, IdleReset, StreakInv
    <3>3. sincePoll >= Interval + Penalty(failures)
      BY <3>1, <3>2 DEF StartPoll, ShouldPoll
    <3>4. failures \in 0..MaxFailures /\ streak \in 0..MaxFailures /\ sincePoll \in Int
      BY <2>0, HorizonRange DEF TypeOK
    <3>5. /\ Penalty(streak) <= Penalty(failures)
          /\ Penalty(streak) \in 0..MaxPenalty /\ Penalty(failures) \in 0..MaxPenalty
      BY <3>2, <3>4, PenaltyGrows, PenaltyRange
    <3>6. QED
      BY <3>3, <3>4, <3>5, BackoffAssumption
  <2>2. ASSUME failures' < failures, running' = running PROVE off
    <3>1. failures \in 0..MaxFailures /\ ~(failures < failures)
      BY <2>0, HorizonRange DEF TypeOK
    <3>2. ReadPenalty
      BY <2>2, <3>1 DEF Next, Tick, SetClockBack, StartPoll, RecordSuccessOrSkip, RecordFailure,
                        Recorded, Toggle, clockVars
    <3>3. failures > 0 /\ sinceFailure >= ResetAfter
      BY <3>2 DEF ReadPenalty, IdleReset
    <3>4. sinceFailure \in Int /\ sincePoll \in Int
      BY <2>0, HorizonRange DEF TypeOK
    <3>5. ~(sinceFailure = sincePoll /\ sincePoll <= Interval + MaxPenalty)
      BY <3>3, <3>4, BackoffAssumption
    <3>6. QED
      BY <2>0, <3>3, <3>5, Zenon DEF RecentInv
  <2>3. QED
    BY <2>1, <2>2, Zenon
<1>2. QED
  BY InitLadder, NextLadder, <1>1, PTL DEF Spec, BackoffHolds
=============================================================================
