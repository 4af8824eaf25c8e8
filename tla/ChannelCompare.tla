--------------------------- MODULE ChannelCompare ---------------------------
(***************************************************************************)
(* Comparing channels in the browser (static/js/channels.js): what the     *)
(* user has chosen, per direction, and the charts of its history.  The     *)
(* choice changes while channel lists, histories and the weather for them  *)
(* are under way; a history counts if it is of the last request.           *)
(***************************************************************************)
EXTENDS Integers, FiniteSets, FiniteSetsExt

CONSTANTS Channel,      \* what may be compared
          DirectionOf,  \* the direction each is of: "ds" or "us"
          MaxManual,    \* 6: as many may be added by hand
          Ranges,       \* of time
          MaxAsked      \* bound: numbers given to requests

VARIABLES
  compareDir,     \* the direction tab
  chosen, preset, \* _compareChannels, and whether as "all"
  saved,          \* _compareState: the choice left behind in each direction
  rangeTab,          \* the range tab
  options,        \* what the select offers
  listAsked,        \* a channel list for it is under way
  addAlls,        \* directions an "add all" is under way for
  compareSeq,     \* _compareRequestSeq
  histories, weathers,  \* requests under way
  context,        \* _lastCompareRenderContext: the data to draw from
  chartsShown, drawn, message \* the charts are visible; what they hold; a text in their place

compareVars == <<compareDir, chosen, preset, saved, rangeTab, options, listAsked, addAlls, compareSeq, histories, weathers,
                 context, chartsShown, drawn, message>>

Sides   == {"ds", "us"}
NoData  == [of |-> {}, dir |-> "none", rangeTab |-> 0]
Blank   == [channels |-> {}, data |-> NoData]
Listed(dir) == {c \in Channel : DirectionOf[c] = dir}
Empty   == [channels |-> {}, preset |-> FALSE]

CompareInit ==
  /\ compareDir = "ds" /\ chosen = {} /\ preset = FALSE /\ saved = [d \in Sides |-> Empty]
  /\ rangeTab = Min(Ranges) /\ options = {} /\ listAsked = TRUE /\ addAlls = {}
  /\ compareSeq = 0 /\ histories = {} /\ weathers = {} /\ context = NoData
  /\ chartsShown = FALSE /\ drawn = Blank /\ message = TRUE

\* loadCompareCharts, after the choice, the direction or the range has changed, and
\* after `used` numbers were given away before.
LoadCharts(channels, dir, r, used) ==
  /\ compareSeq' = compareSeq + used + 1
  /\ chartsShown' = FALSE
  /\ IF channels = {}
     THEN message' = TRUE /\ UNCHANGED histories
     ELSE /\ message' = FALSE
          /\ histories' = histories \cup {[seq |-> compareSeq + used + 1, of |-> channels, dir |-> dir, rangeTab |-> r]}

\* clearCompareCharts: nothing to draw from, and nothing under way counts.
ClearCharts(text) ==
  /\ compareSeq' = compareSeq + 1
  /\ chartsShown' = FALSE /\ context' = NoData /\ drawn' = Blank
  /\ message' = text
  /\ UNCHANGED histories

\* onCompareDirectionChange, for the tab that is active, too
ChangeDirection(dir) ==
  /\ compareDir' = dir
  /\ saved' = [saved EXCEPT ![compareDir] = [channels |-> chosen, preset |-> preset]]
  /\ chosen' = saved'[dir].channels /\ preset' = saved'[dir].preset
  /\ listAsked' = TRUE
  /\ IF chosen' # {}
     THEN LoadCharts(chosen', dir, rangeTab, 1) /\ context' = NoData /\ drawn' = Blank
     ELSE ClearCharts(TRUE)
  /\ UNCHANGED <<rangeTab, options, addAlls, weathers>>

ChangeRange(r) ==
  /\ rangeTab' = r
  /\ LoadCharts(chosen, compareDir, r, 0)
  /\ context' = IF chosen = {} THEN NoData ELSE context
  /\ UNCHANGED <<compareDir, chosen, preset, saved, options, listAsked, addAlls, weathers, drawn>>

\* addCompareChannel; one that is chosen already only ends the preset.
AddChannel(c) ==
  /\ c \in options /\ Cardinality(chosen) < MaxManual
  /\ chosen' = chosen \cup {c} /\ preset' = FALSE
  /\ IF c \in chosen
     THEN UNCHANGED <<listAsked, compareSeq, chartsShown, message, histories>>
     ELSE listAsked' = TRUE /\ LoadCharts(chosen', compareDir, rangeTab, 0)
  /\ UNCHANGED <<compareDir, saved, rangeTab, options, addAlls, weathers, context, drawn>>

\* removeCompareChannel; of the preset one chip stands for all, and clears.
RemoveChannel(c) ==
  /\ c \in chosen /\ ~preset
  /\ chosen' = chosen \ {c}
  /\ listAsked' = TRUE
  /\ IF chosen' # {} THEN LoadCharts(chosen', compareDir, rangeTab, 0) /\ UNCHANGED <<context, drawn>>
                     ELSE ClearCharts(message)
  /\ UNCHANGED <<compareDir, preset, saved, rangeTab, options, addAlls, weathers>>

\* clearCompareChannels
ClearChannels ==
  /\ chosen' = {} /\ preset' = FALSE
  /\ saved' = [saved EXCEPT ![compareDir] = Empty]
  /\ ClearCharts(TRUE)

ClickClear ==
  /\ chosen # {} /\ ClearChannels /\ listAsked' = TRUE
  /\ UNCHANGED <<compareDir, rangeTab, options, addAlls, weathers>>

ClickAddAll ==
  /\ addAlls' = addAlls \cup {compareDir}
  /\ UNCHANGED <<compareDir, chosen, preset, saved, rangeTab, options, listAsked, compareSeq, histories, weathers, context, chartsShown, drawn, message>>

\* What is added is of the direction it was asked for, whatever the tab says now; the
\* modem may list nothing of it.
AllListed(dir) ==
  /\ dir \in addAlls /\ addAlls' \in {addAlls, addAlls \ {dir}}
  /\ \/ /\ ClearChannels /\ listAsked' = TRUE
        /\ UNCHANGED options
     \/ /\ chosen' = Listed(dir) /\ preset' = TRUE
        /\ options' = Listed(compareDir) \ chosen'
        /\ LoadCharts(chosen', compareDir, rangeTab, 0)
        /\ UNCHANGED <<saved, listAsked, context, drawn>>
  /\ UNCHANGED <<compareDir, rangeTab, weathers>>

\* The list asked for the select, filled in for the direction and choice of now.
ListArrives ==
  /\ listAsked /\ listAsked' \in BOOLEAN
  /\ options' \in {Listed(compareDir) \ chosen, {}}
  /\ UNCHANGED <<compareDir, chosen, preset, saved, rangeTab, addAlls, compareSeq, histories, weathers, context, chartsShown, drawn, message>>

ListFails ==
  /\ \/ listAsked /\ listAsked' \in BOOLEAN /\ UNCHANGED addAlls
     \/ addAlls # {} /\ (\E dir \in addAlls : addAlls' = addAlls \ {dir}) /\ UNCHANGED listAsked
  /\ message' = TRUE
  /\ UNCHANGED <<compareDir, chosen, preset, saved, rangeTab, options, compareSeq, histories, weathers, context, chartsShown, drawn>>

\* Mutant of Current: an answer counts while there is a choice.
CurrentAny(q) == chosen # {}

Current(q) == q.seq = compareSeq

\* A history arrives: the charts are shown as they are until the weather is known.
HistoryArrives(q) ==
  /\ histories' = histories \ {q}
  /\ IF Current(q)
     THEN /\ chartsShown' = TRUE
          /\ context' = [of |-> q.of, dir |-> q.dir, rangeTab |-> q.rangeTab]
          /\ weathers' = weathers \cup {q}
     ELSE UNCHANGED <<chartsShown, context, weathers>>
  /\ UNCHANGED <<compareDir, chosen, preset, saved, rangeTab, options, listAsked, addAlls, compareSeq, drawn, message>>

\* It holds nothing for the range, or failed.
HistoryEmpty(q) ==
  /\ histories' = histories \ {q}
  /\ Current(q)
  /\ message' = TRUE
  /\ \/ compareSeq' = compareSeq + 1 /\ context' = NoData
     \/ UNCHANGED <<compareSeq, context>>
  /\ UNCHANGED <<compareDir, chosen, preset, saved, rangeTab, options, listAsked, addAlls, weathers, chartsShown, drawn>>

Render == IF context = NoData THEN drawn ELSE [channels |-> chosen, data |-> context]

\* The weather, or none: its failure is caught.
WeatherArrives(q) ==
  /\ weathers' = weathers \ {q}
  /\ drawn' = IF Current(q) THEN Render ELSE drawn
  /\ UNCHANGED <<compareDir, chosen, preset, saved, rangeTab, options, listAsked, addAlls, compareSeq, histories, context, chartsShown, message>>

\* The temperature overlay is switched: all is drawn again, from what there is.
ToggleOverlay ==
  /\ drawn' = Render
  /\ UNCHANGED <<compareDir, chosen, preset, saved, rangeTab, options, listAsked, addAlls, compareSeq, histories, weathers, context, chartsShown, message>>

UserChooses ==
  /\ compareSeq < MaxAsked
  /\ \/ \E dir \in Sides : ChangeDirection(dir) \/ AllListed(dir)
     \/ \E r \in Ranges : ChangeRange(r)
     \/ \E c \in Channel : AddChannel(c) \/ RemoveChannel(c)
     \/ ClickClear \/ ClickAddAll

CompareNext ==
  \/ UserChooses
  \/ ListArrives \/ ListFails \/ ToggleOverlay
  \/ \E q \in histories : HistoryArrives(q) \/ HistoryEmpty(q)
  \/ \E q \in weathers : WeatherArrives(q)

CompareSpec == CompareInit /\ [][CompareNext]_compareVars

-----------------------------------------------------------------------------
Awaited(asking) == \E q \in asking : Current(q)

\* Once the answers are in, visible charts hold the channels chosen now, from their own
\* history, in the direction and range of the tabs.
ShownIsChosen ==
  chartsShown /\ ~Awaited(weathers) =>
    drawn = [channels |-> chosen, data |-> [of |-> chosen, dir |-> compareDir, rangeTab |-> rangeTab]]

\* A choice is either being loaded, or shown, or a text says why not.
ChoiceIsAnswered == chosen # {} => chartsShown \/ message \/ Awaited(histories)

\* However the user chooses while answers are on their way (channels.js,
\* loadCompareCharts and what calls it).
ComparedIsChosen == ShownIsChosen /\ ChoiceIsAnswered
=============================================================================
