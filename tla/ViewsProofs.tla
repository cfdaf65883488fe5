---------------------------- MODULE ViewsProofs -----------------------------
(***************************************************************************)
(* Machine-checked proofs about what the views keep of the recordings:     *)
(* the ticks of the History tab for any number of sessions, the intervals  *)
(* of the metrics picker for any number of edits, the marker lists, and    *)
(* the CPU charts for any number of stamps, cores and points.              *)
(***************************************************************************)
EXTENDS MCRecords, StorageProofs, FiniteSetTheorems, SequenceTheorems

-----------------------------------------------------------------------------
(***************************************************************************)
(* HistoryView.                                                            *)
(***************************************************************************)

\* A recording waits for the reply of its start, is on the screen, or was
\* let go of by it.
SeenInv ==
    /\ \A s \in answering : recorder[s] # "none"
    /\ \A s \in RowIds : Records(s) => s \in answering \union lost \union {shown}

\* Only sessions that began have a row, and only those are listed, ticked
\* or deleted; what was ticked neither early nor after the screen let go of
\* it is over for good.
TickInv ==
    /\ \A s \in rows \union listed : recorder[s] # "none"
    /\ \A s \in ticked \union deleting :
          s \in early \union lost \/ recorder[s] = "over"

\* The dialog covers the list until the deletion it confirmed is through.
DialogInv ==
    /\ deleting \subseteq RowIds
    /\ unsettled \subseteq deleting /\ refused \subseteq deleting \ unsettled
    /\ refetching => deleting # {} /\ unsettled = {}
    /\ deleting # {} /\ ~dismissed => confirm

\* What is listed, ticked and opened has its row, but for what the deletion
\* under way has taken.
TraceInv ==
    ~dismissed =>
        /\ deleting = {} => listed \subseteq rows
        /\ listed \subseteq rows \union deleting
        /\ unsettled \subseteq rows /\ refused \subseteq rows
        /\ ticked \subseteq rows \union (deleting \ (unsettled \union refused))
        /\ opened \in rows \union {NoRow} \union (deleting \ (unsettled \union refused))
        /\ refetching => ticked \subseteq rows /\ opened \in rows \union {NoRow}

HistInv == HistTypeOK /\ SeenInv /\ TickInv /\ DialogInv /\ TraceInv

LEMMA HistStart == HistInit => HistInv
<1>1. QED
  BY DEF HistInit, HistInv, HistTypeOK, SeenInv, Records, TickInv, DialogInv, TraceInv

LEMMA HistStep == HistInv /\ [HistNext]_histVars => HistInv'
<1> SUFFICES ASSUME HistInv, [HistNext]_histVars PROVE HistInv'
  OBVIOUS
<1> USE DEF dialogue, recVars
<1>1. HistTypeOK /\ SeenInv /\ TickInv /\ DialogInv /\ TraceInv
  BY DEF HistInv
<1>2. CASE ScreenClears \/ \E s \in RowIds :
             SessionBegins(s) \/ StartReplies(s) \/ SessionEnds(s)
  <2>1. UNCHANGED <<listed, ticked, opened, confirm, deleting, unsettled, refused,
                    refetching, early, dismissed>>
    BY <1>2 DEF ScreenClears, SessionBegins, StartReplies, SessionEnds
  <2>2. ticked \union deleting \subseteq RowIds
    BY <1>1 DEF HistTypeOK, DialogInv
  <2>3. CASE \E s \in RowIds : SessionBegins(s)
    <3>1. PICK s \in RowIds : SessionBegins(s)
      BY <2>3
    <3>2. /\ recorder' \in [RowIds -> {"none", "recording", "over"}]
          /\ recorder[s] = "none" /\ recorder'[s] = "recording"
          /\ \A r \in RowIds \ {s} : recorder'[r] = recorder[r]
          /\ rows' = rows \union {s} /\ answering' = answering \union {s}
          /\ lost' = lost /\ shown' = shown
      BY <1>1, <3>1 DEF SessionBegins, HistTypeOK
    <3>3. HistTypeOK'
      BY <1>1, <2>1, <3>2 DEF HistTypeOK
    <3>4. SeenInv'
      BY <1>1, <3>2 DEF SeenInv, Records, HistTypeOK
    <3>5. TickInv'
      BY <1>1, <2>1, <2>2, <3>2 DEF TickInv, HistTypeOK
    <3>6. DialogInv' /\ TraceInv'
      BY <1>1, <2>1, <3>2 DEF DialogInv, TraceInv
    <3>7. QED
      BY <3>3, <3>4, <3>5, <3>6 DEF HistInv
  <2>4. ASSUME rows' = rows, answering' \subseteq answering, shown' \in RowIds \union {NoRow},
               lost \subseteq lost', lost' \subseteq RowIds,
               recorder' \in [RowIds -> {"none", "recording", "over"}],
               \A r \in RowIds : recorder'[r] = recorder[r]
                                  \/ (recorder[r] # "none" /\ recorder'[r] = "over"),
               \A r \in RowIds : Records(r)' =>
                   r \in answering' \union lost' \union {shown'}
        PROVE  HistInv'
    <3>1. HistTypeOK'
      BY <1>1, <2>1, <2>4 DEF HistTypeOK
    <3>2. SeenInv'
      BY <1>1, <2>4 DEF SeenInv, HistTypeOK
    <3>3. TickInv'
      BY <1>1, <2>1, <2>2, <2>4 DEF TickInv, HistTypeOK
    <3>4. DialogInv' /\ TraceInv'
      BY <1>1, <2>1, <2>4 DEF DialogInv, TraceInv
    <3>5. QED
      BY <3>1, <3>2, <3>3, <3>4 DEF HistInv
  <2>5. CASE \E s \in RowIds : StartReplies(s)
    <3>1. PICK s \in RowIds : StartReplies(s)
      BY <2>5
    <3>2. s \in answering /\ answering' = answering \ {s} /\ rows' = rows
      BY <3>1 DEF StartReplies
    <3>3. rows \subseteq RowIds /\ answering \subseteq RowIds /\ lost \subseteq RowIds
          /\ shown \in RowIds \union {NoRow}
          /\ recorder \in [RowIds -> {"none", "recording", "over"}]
      BY <1>1 DEF HistTypeOK
    <3>4. \A r \in RowIds : Records(r) => r \in answering \union lost \union {shown}
      BY <1>1 DEF SeenInv
    <3>5. CASE Shows(s) /\ UNCHANGED recorder
      BY <2>4, <3>2, <3>3, <3>4, <3>5 DEF Shows, Records
    <3>6. CASE recorder' = [recorder EXCEPT ![s] = "over"] /\ UNCHANGED <<shown, lost>>
      <4>1. s \in RowIds
        BY <3>1
      <4>2. recorder[s] # "none"
        BY <1>1, <3>2 DEF SeenInv
      <4>3. QED
        BY <2>4, <3>2, <3>3, <3>4, <3>6, <4>1, <4>2 DEF Records
    <3>7. QED
      BY <3>1, <3>5, <3>6 DEF StartReplies
  <2>6. CASE \E s \in RowIds : SessionEnds(s)
    <3>1. PICK s \in RowIds : SessionEnds(s)
      BY <2>6
    <3>2. QED
      BY <1>1, <2>4, <3>1 DEF SessionEnds, HistTypeOK, SeenInv, Records
  <2>7. CASE ScreenClears
    BY <1>1, <2>4, <2>7 DEF ScreenClears, Shows, HistTypeOK, SeenInv, Records
  <2>8. QED
    BY <1>2, <2>3, <2>5, <2>6, <2>7
<1>3. CASE ListFetched
  BY <1>1, <1>3 DEF ListFetched, HistInv, HistTypeOK, SeenInv, Records, TickInv, DialogInv, TraceInv
<1>4. ASSUME NEW new, TickBoxes(new), ~confirm, new \subseteq ticked \union Deletable
      PROVE  HistInv'
  <2>1. /\ ticked' = new
        /\ early' = early \union ((new \ ticked) \intersect answering)
        /\ UNCHANGED <<recorder, answering, shown, lost, rows, listed, opened, confirm, deleting, unsettled,
                       refused, refetching, dismissed>>
    BY <1>4 DEF TickBoxes
  <2>2. \A s \in new \ ticked : s \in listed /\ s # shown /\ s \in RowIds
    BY <1>1, <1>4 DEF Deletable, HistTypeOK
  <2>3. HistTypeOK'
    BY <1>1, <2>1, <2>2 DEF HistTypeOK
  <2>4. TickInv'
    <3>1. \A s \in new \ ticked : recorder[s] \in {"recording", "over"}
      BY <1>1, <2>2 DEF TickInv, HistTypeOK
    <3>2. \A s \in new \ ticked : recorder[s] = "recording" => s \in answering \union lost
      BY <1>1, <2>2 DEF SeenInv, Records
    <3>3. QED
      BY <1>1, <2>1, <3>1, <3>2 DEF TickInv
  <2>5. DialogInv' /\ TraceInv'
    BY <1>1, <1>4, <2>1, <2>2 DEF DialogInv, TraceInv
  <2>6. SeenInv'
    BY <1>1, <2>1 DEF SeenInv, Records
  <2>7. QED
    BY <2>3, <2>4, <2>5, <2>6 DEF HistInv
<1>5. CASE ToggleAllRows \/ \E s \in RowIds : ToggleRow(s)
  BY <1>4, <1>5 DEF ToggleAllRows, ToggleRow
<1>6. CASE \E s \in RowIds : OpenRow(s)
  BY <1>1, <1>6 DEF OpenRow, HistInv, HistTypeOK, SeenInv, Records, TickInv, DialogInv, TraceInv
<1>7. CASE ClickDelete \/ CancelDelete \/ ConfirmDelete
  <2>1. HistTypeOK'
    BY <1>1, <1>7 DEF ClickDelete, CancelDelete, ConfirmDelete, HistTypeOK
  <2>2. TickInv'
    BY <1>1, <1>7 DEF ClickDelete, CancelDelete, ConfirmDelete, TickInv
  <2>3. DialogInv'
    <3>1. CASE ClickDelete
      BY <1>1, <3>1 DEF ClickDelete, DialogInv
    <3>2. CASE CancelDelete
      BY <1>1, <3>2 DEF CancelDelete, DialogInv
    <3>3. CASE ConfirmDelete
      BY <1>1, <3>3 DEF ConfirmDelete, DialogInv, HistTypeOK
    <3>4. QED
      BY <1>7, <3>1, <3>2, <3>3
  <2>4. TraceInv'
    <3>1. CASE ClickDelete \/ CancelDelete
      BY <1>1, <3>1 DEF ClickDelete, CancelDelete, TraceInv
    <3>2. CASE ConfirmDelete
      BY <1>1, <3>2 DEF ConfirmDelete, DialogInv, TraceInv
    <3>3. QED
      BY <1>7, <3>1, <3>2
  <2>5. SeenInv'
    BY <1>1, <1>7 DEF ClickDelete, CancelDelete, ConfirmDelete, SeenInv, Records
  <2>6. QED
    BY <2>1, <2>2, <2>3, <2>4, <2>5 DEF HistInv
<1>8. CASE \E s \in RowIds : DeleteSettles(s)
  <2>1. PICK s \in RowIds : DeleteSettles(s)
    BY <1>8
  <2>2. CASE rows' = rows \ {s} /\ refused' = refused
    BY <1>1, <2>1, <2>2 DEF DeleteSettles, HistInv, HistTypeOK, SeenInv, Records, TickInv, DialogInv, TraceInv
  <2>3. CASE rows' = rows /\ refused' = refused \union {s}
    BY <1>1, <2>1, <2>3 DEF DeleteSettles, HistInv, HistTypeOK, SeenInv, Records, TickInv, DialogInv, TraceInv
  <2>4. QED
    BY <2>1, <2>2, <2>3 DEF DeleteSettles
<1>9. CASE DeletesSettled
  <2>1. HistTypeOK'
    BY <1>1, <1>9 DEF DeletesSettled, HistTypeOK, DialogInv
  <2>2. TickInv' /\ DialogInv'
    BY <1>1, <1>9 DEF DeletesSettled, TickInv, DialogInv
  <2>3. TraceInv'
    <3>1. opened' = opened \/ opened' = NoRow
      BY <1>9 DEF DeletesSettled
    <3>2. opened' \notin deleting \ refused \/ opened' = NoRow
      BY <1>9 DEF DeletesSettled
    <3>3. QED
      BY <1>1, <1>9, <3>1, <3>2 DEF DeletesSettled, DialogInv, TraceInv
  <2>4. SeenInv'
    BY <1>1, <1>9 DEF DeletesSettled, SeenInv, Records
  <2>5. QED
    BY <2>1, <2>2, <2>3, <2>4 DEF HistInv
<1>10. CASE DialogCloses
  BY <1>1, <1>10 DEF DialogCloses, HistInv, HistTypeOK, SeenInv, Records, TickInv, DialogInv, TraceInv
<1>11. CASE UNCHANGED histVars
  BY <1>1, <1>11 DEF histVars, HistInv, HistTypeOK, SeenInv, Records, TickInv, DialogInv, TraceInv
<1>12. QED
  BY <1>2, <1>3, <1>5, <1>6, <1>7, <1>8, <1>9, <1>10, <1>11 DEF HistNext

\* For any number of sessions: the rows, the ticks, the dialog and the opened
\* recording fit together (HistoryView.tsx:41-110).
THEOREM HistoryInvariance == HistSpec => []HistInv
<1>1. QED
  BY HistStart, HistStep, PTL DEF HistSpec

\* A session that records is ticked or being deleted only if it was ticked
\* before its start call returned or the screen let go of it
\* (HistoryView.tsx:62-83, 85-107; LiveView.tsx:281-287, 384-386, 537-540).
THEOREM OnlyUnseenTicks == HistSpec => []OnlyUnseenEndangered
<1>1. HistInv => OnlyUnseenEndangered
  BY DEF HistInv, HistTypeOK, DialogInv, TickInv, OnlyUnseenEndangered, Records
<1>2. QED
  BY <1>1, HistoryInvariance, PTL

\* Whichever of the deletions failed, nothing that was deleted is still
\* ticked, listed or open when the dialog closes (HistoryView.tsx:85-107).
THEOREM NoTraceOfDeleted == HistSpec => DeletedLeavesNoTrace
<1>1. HistInv /\ [HistNext]_histVars =>
        [DialogCloses /\ ~dismissed =>
            ticked \subseteq rows /\ listed' \subseteq rows /\ opened \in rows \union {NoRow}]_histVars
  BY DEF HistInv, TraceInv, DialogCloses
<1>2. QED
  BY <1>1, HistoryInvariance, PTL DEF HistSpec, DeletedLeavesNoTrace

-----------------------------------------------------------------------------
(***************************************************************************)
(* Rates.                                                                  *)
(***************************************************************************)

\* No card is served by two samplers.
LEMMA OneSampler ==
    ASSUME NEW p \in Platforms, NEW g \in SharedBy(p), NEW h \in SharedBy(p), NEW c,
           c \in g, c \in h
    PROVE  g = h
<1>1. CASE p = "android"
  <2>1. SharedBy(p) = {{"cpu_usage", "cpu_core"}, {"frame"}, {"memory"}, {"temperature"}, {"gpu"}}
    BY <1>1 DEF SharedBy
  <2>2. QED
    BY <2>1
<1>2. CASE p = "ios"
  <2>1. SharedBy(p) = {{"cpu_usage", "cpu_core", "memory"}, {"gpu", "frame"}}
    BY <1>2 DEF SharedBy
  <2>2. QED
    BY <2>1
<1>3. QED
  BY <1>1, <1>2 DEF Platforms

LEMMA SamplersServeCards ==
    ASSUME NEW p \in Platforms, NEW g \in SharedBy(p)
    PROVE  g \subseteq Cards /\ g # {} /\ FloorOf(g) \in Nat /\ g \subseteq ShownOn(p)
<1>1. g \subseteq Cards /\ g # {}
  BY DEF Platforms, SharedBy, Cards
<1>2. FloorOf(g) \in Nat /\ g \subseteq ShownOn(p)
  BY DEF FloorOf, ShownOn
<1>3. QED
  BY <1>1, <1>2

\* The interval picked is asked for by one of the cards, and by none a
\* shorter one.
LEMMA PickIsFastest ==
    ASSUME NEW asked \in [Cards -> Nat], NEW g \in SUBSET Cards, g # {}
    PROVE  /\ \E d \in g : Pick(asked, g) = asked[d]
           /\ \A d \in g : Pick(asked, g) <= asked[d]
<1> DEFINE T == {asked[c] : c \in g}
<1>1. T \in SUBSET Nat /\ T # {}
  OBVIOUS
<1>2. PICK i \in T : \A y \in T : i <= y
  <2> HIDE DEF T
  <2>1. QED
    BY <1>1, LeastNatural
<1>3. i \in T /\ \A c \in g : i <= asked[c]
  BY <1>2
<1>4. Pick(asked, g) \in T /\ \A c \in g : Pick(asked, g) <= asked[c]
  BY <1>3 DEF Pick
<1>5. QED
  BY <1>4

\* What the samplers are built with, card by card.
LEMMA BuiltFromPick ==
    ASSUME NEW p \in Platforms, NEW asked \in [Cards -> Nat]
    PROVE  /\ DOMAIN Built(p, asked) = ShownOn(p)
           /\ \A c \in ShownOn(p), g \in SharedBy(p) :
                 c \in g => Built(p, asked)[c] = AtLeast(Pick(asked, g), FloorOf(g))
<1>1. DOMAIN Built(p, asked) = ShownOn(p)
  BY DEF Built
<1>2. ASSUME NEW c \in ShownOn(p), NEW g \in SharedBy(p), c \in g
      PROVE  Built(p, asked)[c] = AtLeast(Pick(asked, g), FloorOf(g))
  <2> DEFINE h == CHOOSE x \in SharedBy(p) : c \in x
  <2>1. h \in SharedBy(p) /\ c \in h
    BY <1>2
  <2>2. Built(p, asked)[c] = AtLeast(Pick(asked, h), FloorOf(h))
    BY DEF Built
  <2> HIDE DEF h
  <2>3. h = g
    BY <1>2, <2>1, OneSampler
  <2>4. QED
    BY <2>2, <2>3
<1>3. QED
  BY <1>1, <1>2

\* Both views show what is stored unless an event is on its way, and the
\* session runs at what the picker showed when the start was last confirmed.
RatesInv ==
    /\ RtTypeOK /\ rtQueued \in BOOLEAN /\ rtStart.platform \in Platforms
    /\ rtStart \in [step : {"idle", "probing", "dialog", "starting", "running"},
                    platform : Platforms, copy : Copies]
    /\ ~rtQueued => rtPicker = rtScreen
    /\ rtStart.step # "idle" => rtStart.copy = rtAsked
    /\ rtRates = IF rtStart.step = "running"
                 THEN Built(rtStart.platform, Effective(rtAsked)) ELSE NoRates

LEMMA RatesStart == RtInit => RatesInv
<1> SUFFICES ASSUME RtInit PROVE RatesInv
  OBVIOUS
<1>1. rtStore \in Copies /\ Unpicked \in Copies
  BY DEF RtInit, Copies, Unpicked
<1>2. NoStart \in [step : {"idle", "probing", "dialog", "starting", "running"},
                   platform : Platforms, copy : Copies]
  BY <1>1 DEF NoStart, Platforms
<1>3. /\ NoStart.step = "idle" /\ NoStart.platform \in Platforms /\ NoStart.copy \in Copies
  BY <1>1 DEF NoStart, Platforms
<1>4. /\ rtPicker = rtStore /\ rtScreen = rtStore /\ rtQueued = FALSE /\ rtEdits = 0
      /\ rtStart = NoStart /\ rtRates = NoRates /\ rtAsked = Unpicked
  BY DEF RtInit
<1>5. RtTypeOK
  BY <1>1, <1>3, <1>4, RatesAssumption DEF RtTypeOK
<1>6. QED
  BY <1>2, <1>3, <1>4, <1>5 DEF RatesInv

LEMMA RatesStep == RatesInv /\ [RtNext]_rtVars => RatesInv'
<1> SUFFICES ASSUME RatesInv, [RtNext]_rtVars PROVE RatesInv'
  OBVIOUS
<1>1. /\ rtStore \in Copies /\ rtPicker \in Copies /\ rtScreen \in Copies
      /\ rtAsked \in Copies /\ rtEdits \in 0..MaxChoices /\ MaxChoices \in Nat
  BY RatesAssumption DEF RatesInv, RtTypeOK
<1>2. ASSUME NEW c \in Cards, NEW i \in Options, NEW saved \in BOOLEAN, RtChoose(c, i, saved)
      PROVE  RatesInv'
  <2>1. [rtPicker EXCEPT ![c] = i] \in Copies
    BY <1>1 DEF Copies
  <2>2. /\ rtPicker' \in Copies /\ rtStore' \in Copies
        /\ rtQueued' = TRUE /\ rtEdits' \in 0..MaxChoices
        /\ UNCHANGED <<rtScreen, rtStart, rtRates, rtAsked>>
    BY <1>1, <1>2, <2>1 DEF RtChoose
  <2>3. QED
    BY <1>1, <2>2 DEF RatesInv, RtTypeOK
<1>3. CASE RtChanged
  BY <1>1, <1>3 DEF RtChanged, Reloaded, RatesInv, RtTypeOK
<1>4. ASSUME NEW p \in Platforms, NEW probes \in BOOLEAN, RtClick(p, probes)
      PROVE  RatesInv'
  <2>1. /\ ~rtQueued /\ rtStart.step = "idle"
        /\ rtStart' = [step |-> IF probes THEN "probing" ELSE "starting",
                       platform |-> p, copy |-> rtScreen]
        /\ rtAsked' = rtPicker
        /\ UNCHANGED <<rtStore, rtPicker, rtScreen, rtQueued, rtEdits, rtRates>>
    BY <1>4 DEF RtClick
  <2>2. /\ rtStart'.step \in {"probing", "starting"} /\ rtStart'.platform = p
        /\ rtStart'.copy = rtScreen
        /\ rtStart' \in [step : {"idle", "probing", "dialog", "starting", "running"},
                         platform : Platforms, copy : Copies]
    BY <1>1, <2>1
  <2>3. QED
    BY <1>1, <2>1, <2>2 DEF RatesInv, RtTypeOK
<1>5. CASE RtProbed
  <2>1. PICK step \in {"starting", "dialog"} : rtStart' = [rtStart EXCEPT !.step = step]
    BY <1>5 DEF RtProbed
  <2>2. /\ rtStart'.step = step /\ rtStart'.platform = rtStart.platform
        /\ rtStart'.copy = rtStart.copy
        /\ rtStart' \in [step : {"idle", "probing", "dialog", "starting", "running"},
                         platform : Platforms, copy : Copies]
    BY <2>1 DEF RatesInv
  <2>3. QED
    BY <1>1, <1>5, <2>2 DEF RtProbed, RatesInv, RtTypeOK
<1>6. CASE RtConfirm
  <2>1. rtStart' = [rtStart EXCEPT !.step = "starting", !.copy = rtScreen]
    BY <1>6 DEF RtConfirm
  <2>2. /\ rtStart'.step = "starting" /\ rtStart'.platform = rtStart.platform
        /\ rtStart'.copy = rtScreen
        /\ rtStart' \in [step : {"idle", "probing", "dialog", "starting", "running"},
                         platform : Platforms, copy : Copies]
    BY <1>1, <2>1 DEF RatesInv
  <2>3. QED
    BY <1>1, <1>6, <2>2 DEF RtConfirm, RatesInv, RtTypeOK
<1>7. CASE RtStarted
  <2>1. /\ rtStart' = [rtStart EXCEPT !.step = "running"]
        /\ rtRates' = Built(rtStart.platform, Effective(rtStart.copy))
        /\ rtStart.step = "starting"
        /\ UNCHANGED <<rtStore, rtPicker, rtScreen, rtQueued, rtEdits, rtAsked>>
    BY <1>7 DEF RtStarted
  <2>2. /\ rtStart'.step = "running" /\ rtStart'.platform = rtStart.platform
        /\ rtStart'.copy = rtStart.copy
        /\ rtStart' \in [step : {"idle", "probing", "dialog", "starting", "running"},
                         platform : Platforms, copy : Copies]
    BY <2>1 DEF RatesInv
  <2>3. rtRates' = Built(rtStart'.platform, Effective(rtAsked'))
    BY <2>1, <2>2 DEF RatesInv
  <2>4. QED
    BY <1>1, <2>1, <2>2, <2>3 DEF RatesInv, RtTypeOK
<1>8. CASE RtStopped
  <2>1. /\ NoStart \in [step : {"idle", "probing", "dialog", "starting", "running"},
                       platform : Platforms, copy : Copies]
        /\ NoStart.step = "idle"
    BY DEF NoStart, Platforms, Copies, Unpicked
  <2>2. QED
    BY <1>1, <1>8, <2>1 DEF RtStopped, RatesInv, RtTypeOK
<1>9. CASE UNCHANGED rtVars
  BY <1>9 DEF rtVars, RatesInv, RtTypeOK
<1>10. "ios" \in Platforms /\ TRUE \in BOOLEAN /\ FALSE \in BOOLEAN
  BY DEF Platforms
<1>11. QED
  BY <1>2, <1>3, <1>4, <1>5, <1>6, <1>7, <1>8, <1>9, <1>10 DEF RtNext

\* For any number of edits in the picker, saved or not: what the picker, the
\* live view, the start under way and the samplers hold fits together
\* (useMetricFrequencies.ts, LiveView.tsx, session.rs:340-375).
THEOREM RatesInvariance == RtSpec => []RatesInv
<1>1. QED
  BY RatesStart, RatesStep, PTL DEF RtSpec

\* Every card is fed as often as the picker promised when the start was last
\* confirmed, and the device asked no more than that takes, whatever stored
\* interval, platform and edits (session.rs:340-375).
THEOREM EveryIntervalHonoured == RtSpec => []IntervalsHonoured
<1>1. RatesInv => IntervalsHonoured
  <2> SUFFICES ASSUME RatesInv PROVE IntervalsHonoured
    OBVIOUS
  <2> DEFINE p == rtStart.platform
  <2> DEFINE asked == Effective(rtAsked)
  <2>1. p \in Platforms /\ asked \in [Cards -> Nat]
    BY DEF RatesInv, RtTypeOK, Copies, Effective, DefaultOf, Unchosen, TooFast, Options
  <2>2. CASE rtStart.step # "running"
    BY <2>2 DEF RatesInv, NoRates, IntervalsHonoured, EveryCardHonoured, NoNeedlessLoad
  <2>3. CASE rtStart.step = "running"
    <3>1. rtRates = Built(p, asked)
      BY <2>3 DEF RatesInv
    <3> HIDE DEF p, asked
    <3>2. DOMAIN rtRates = ShownOn(p)
      BY <2>1, <3>1, BuiltFromPick
    <3>3. ASSUME NEW c \in ShownOn(p), NEW g \in SharedBy(p), c \in g
          PROVE  /\ rtRates[c] <= AtLeast(asked[c], FloorOf(g))
                 /\ rtRates[c] >= FloorOf(g)
                 /\ \E d \in g : rtRates[c] = AtLeast(asked[d], FloorOf(g))
      <4>1. rtRates[c] = AtLeast(Pick(asked, g), FloorOf(g))
        BY <2>1, <3>1, <3>3, BuiltFromPick
      <4>2. g \subseteq Cards /\ g # {} /\ FloorOf(g) \in Nat
        BY <2>1, SamplersServeCards
      <4>3. PICK d \in g : Pick(asked, g) = asked[d]
        BY <2>1, <4>2, PickIsFastest
      <4>4. Pick(asked, g) <= asked[c]
        BY <2>1, <3>3, <4>2, PickIsFastest
      <4>5. asked[c] \in Nat /\ asked[d] \in Nat
        BY <2>1, <3>3, <4>2
      <4>6. QED
        BY <4>1, <4>2, <4>3, <4>4, <4>5 DEF AtLeast
    <3>4. QED
      BY <3>2, <3>3 DEF IntervalsHonoured, EveryCardHonoured, NoNeedlessLoad, p, asked
  <2>4. QED
    BY <2>2, <2>3
<1>2. QED
  BY <1>1, RatesInvariance, PTL

-----------------------------------------------------------------------------
(***************************************************************************)
(* Markers.                                                                *)
(***************************************************************************)

MarkRecords == [of : Recordings, at : Offsets, label : Labels]
MarkSlots == {Absent} \union MarkRecords

AddRecords ==
    [step : {"none", "asked", "picked", "done"}, of : 0..MaxRecordings]
    \union [step : {"stored"}, of : Recordings, id : Marks, mark : MarkRecords]

Tabs == {"live", "history"}
EditRecords ==
    {NoEdit}
    \union [step : {"asked", "landed"}, from : Tabs, of : 0..MaxRecordings, m : Marks,
            kind : {"move"}, to : Offsets]
    \union [step : {"asked", "landed"}, from : Tabs, of : 0..MaxRecordings, m : Marks,
            kind : {"label"}, to : Labels]
    \union [step : {"asked", "landed"}, from : Tabs, of : 0..MaxRecordings, m : Marks,
            kind : {"delete"}]

\* The calls that have stored their marker, and all that may have an id.
Stored == {n \in Marks : adding[n].step = "stored"}
Served == {n \in Marks : adding[n].step \in {"stored", "done"}}

Asked(n, tab) == edit[n].step = "asked" /\ edit[n].from = tab

MarkTypes ==
    /\ recorded \in 0..MaxRecordings /\ startStep \in {"idle", "clicked", "installed"}
    /\ slotIn \in 0..recorded /\ screen \in 0..recorded
    /\ kept \subseteq 1..recorded
    /\ adding \in [Marks -> AddRecords]
    /\ \A n \in Marks : adding[n].of \in 0..recorded
    /\ table \in [Marks -> MarkSlots]
    /\ liveList \in [Marks -> MarkSlots]
    /\ edit \in [Edits -> EditRecords] /\ edits \in 0..MaxEdits
    /\ muddled \in BOOLEAN

\* Ids are handed out in order, one to a call; nothing is known of the others.
IdsInv ==
    /\ lastMark \in Nat
    /\ lastMark <= Cardinality(Served)
    /\ \A m \in Marks : m > lastMark => table[m] = Absent /\ liveList[m] = Absent
    /\ \A n \in Stored : adding[n].id <= lastMark
    /\ \A n, k \in Stored : adding[n].id = adding[k].id => n = k
    /\ \A n \in Edits : InFlight(n) => edit[n].m <= lastMark
    /\ \A n \in Edits : n > edits => edit[n] = NoEdit

\* What AppState and the screen say of the session that records.
SessionInv ==
    /\ slotIn # NoRecording => slotIn = recorded
    /\ screen # NoRecording => screen = recorded /\ startStep = "idle"
    /\ startStep = "clicked" => recorded < MaxRecordings
    /\ \A m \in Marks : table[m].of <= recorded

\* A start that muddles nothing finds nothing under way, and empties the list.
StartInv ==
    ~muddled =>
        /\ \A n \in Marks : adding[n].step \in {"picked", "stored"} =>
              adding[n].of = recorded /\ recorded # NoRecording
        /\ startStep # "idle" => ~AddsPending /\ liveList = NoList
        /\ startStep # "idle" => \A n \in Edits : ~Asked(n, "live")

\* Edits of one marker by the Live tab that are under way together change
\* different fields, and History edits other sessions than the Live tab.
EditsInv ==
    /\ \A n \in Edits : edit[n].step = "landed" => edit[n].from = "history"
    /\ \A n \in Edits : InFlight(n) /\ edit[n].from = "history" =>
          edit[n].of \in 1..recorded
    /\ ~muddled =>
          /\ \A n \in Edits : InFlight(n) /\ edit[n].from = "history" =>
                edit[n].of # recorded
          /\ \A n, k \in Edits :
                Asked(n, "live") /\ Asked(k, "live") /\ edit[n].m = edit[k].m /\ n # k =>
                    edit[n].kind # edit[k].kind /\ edit[n].kind # "delete"

\* A call that has stored its marker: it is in the table, and on no list.
LiveStored ==
    \A n \in Stored :
        /\ table[adding[n].id] = adding[n].mark /\ adding[n].mark.of = recorded
        /\ liveList[adding[n].id] = Absent
        /\ \A k \in Edits : InFlight(k) => edit[k].m # adding[n].id

\* An edit of the Live tab under way: the list shows its effect.
ShowsEdit(e) ==
    /\ recorded # NoRecording /\ table[e.m].of = recorded
    /\ e.kind = "delete" => liveList[e.m] = Absent
    /\ e.kind # "delete" => liveList[e.m] # Absent
    /\ e.kind = "move" => liveList[e.m].at = e.to
    /\ e.kind = "label" => liveList[e.m].label = e.to

LiveAsked == \A n \in Edits : Asked(n, "live") => ShowsEdit(edit[n])

\* What is shown is in the table, or on its way there.
Coming(m, kind) ==
    \E n \in Edits : Asked(n, "live") /\ edit[n].m = m /\ edit[n].kind = kind

LiveShown ==
    \A m \in Marks : liveList[m] # Absent =>
        /\ liveList[m].of = recorded /\ table[m].of = recorded
        /\ liveList[m].at = table[m].at \/ Coming(m, "move")
        /\ liveList[m].label = table[m].label \/ Coming(m, "label")

\* What is in the table is shown, or is about to be, or is about to go.
LiveKept ==
    \A m \in Marks : table[m].of = recorded =>
        \/ table[m] = Absent
        \/ liveList[m] # Absent
        \/ \E n \in Stored : adding[n].id = m
        \/ Coming(m, "delete")

\* The live list is the table as it will be when the calls have landed.
LiveListInv ==
    ~muddled /\ startStep # "clicked" => LiveStored /\ LiveAsked /\ LiveShown /\ LiveKept

\* What History shows of a session: fresh ids are on no list, and what an old
\* list shows was the session's.
HistTypes ==
    /\ histOf \in 0..recorded /\ histList \in [Recordings -> [Marks -> MarkSlots]]
    /\ fetched \subseteq 1..recorded /\ outdated \subseteq Recordings

HistNew == \A s \in Recordings : \A m \in Marks : m > lastMark => histList[s][m] = Absent

HistShown ==
    \A s \in Recordings : \A m \in Marks :
        histList[s][m] # Absent => table[m].of \in {s, NoRecording}

HistEdits ==
    \A n \in Edits : InFlight(n) /\ edit[n].from = "history" =>
        table[edit[n].m].of \in {edit[n].of, NoRecording}

\* A list in the cache is out of date only where an edit has just landed, or
\* the Live tab was at work.
FetchedOf(s, m) == IF table[m].of = s THEN table[m] ELSE Absent
LandedOn(s, m) == \E n \in Edits : edit[n].step = "landed" /\ edit[n].m = m /\ edit[n].of = s

HistFetched ==
    \A s \in fetched : s \in kept /\ s \notin outdated =>
        \A m \in Marks : histList[s][m] # FetchedOf(s, m) => LandedOn(s, m)

HistOpen == histOf # NoRecording => histOf \in fetched /\ histOf \in kept

HistListInv == HistTypes /\ HistNew /\ HistShown /\ HistEdits /\ HistFetched /\ HistOpen

MarkInv ==
    /\ MarkTypes /\ IdsInv /\ SessionInv /\ StartInv /\ EditsInv
    /\ MarkersOwned /\ LiveListInv /\ HistListInv

LEMMA MarkConstants ==
    /\ MaxRecordings \in Nat /\ MaxMarkers \in Nat /\ MaxEdits \in Nat
    /\ Recordings = 1..MaxRecordings /\ Marks = 1..MaxMarkers /\ Edits = 1..MaxEdits
    /\ NoRecording = 0 /\ Absent.of = 0 /\ NoEdit.step = "none"
    /\ NoAdd.step = "none" /\ NoAdd.of = 0 /\ Added.step = "done" /\ Added.of = 0
<1>1. QED
  BY MarkersAssumption DEF Recordings, Marks, Edits, NoRecording, Absent, NoEdit, NoAdd, Added

\* A place in a list holds a marker of a recording or none.
LEMMA SlotIs ==
    ASSUME NEW r \in MarkSlots
    PROVE  /\ r = Absent <=> r.of = NoRecording
           /\ r # Absent => r \in MarkRecords
           /\ r.of \in 0..MaxRecordings
<1>1. QED
  BY MarkConstants DEF MarkSlots, MarkRecords

\* Two markers that agree in every field are the same.
LEMMA SameMarker ==
    ASSUME NEW r \in MarkRecords, NEW q \in MarkRecords,
           r.of = q.of, r.at = q.at, r.label = q.label
    PROVE  r = q
<1>1. QED
  BY DEF MarkRecords

LEMMA EditIs ==
    ASSUME NEW e \in EditRecords
    PROVE  /\ e.step = "none" <=> e = NoEdit
           /\ e.step # "none" =>
                 /\ e.m \in Marks /\ e.kind \in {"move", "label", "delete"} /\ e.from \in Tabs
                 /\ e.step \in {"asked", "landed"} /\ e.of \in 0..MaxRecordings
                 /\ e.kind = "move" => e.to \in Offsets
                 /\ e.kind = "label" => e.to \in Labels
<1>1. QED
  BY DEF EditRecords, NoEdit

\* What an edit does to a list of markers.
LEMMA ChangedIs ==
    ASSUME NEW list \in [Marks -> MarkSlots], NEW e \in EditRecords, e.step # "none"
    PROVE  /\ Changed(list, e) \in [Marks -> MarkSlots]
           /\ \A m \in Marks : m # e.m => Changed(list, e)[m] = list[m]
           /\ list[e.m] = Absent => Changed(list, e)[e.m] = Absent
           /\ e.kind = "delete" => Changed(list, e)[e.m] = Absent
           /\ list[e.m] # Absent /\ e.kind # "delete" =>
                 /\ Changed(list, e)[e.m] # Absent
                 /\ Changed(list, e)[e.m].of = list[e.m].of
                 /\ e.kind = "move" => /\ Changed(list, e)[e.m].at = e.to
                                       /\ Changed(list, e)[e.m].label = list[e.m].label
                 /\ e.kind = "label" => /\ Changed(list, e)[e.m].label = e.to
                                        /\ Changed(list, e)[e.m].at = list[e.m].at
<1> DEFINE m == e.m
<1>1. /\ m \in Marks /\ e.kind \in {"move", "label", "delete"}
      /\ e.kind = "move" => e.to \in Offsets
      /\ e.kind = "label" => e.to \in Labels
  BY EditIs
<1>2. list[m] \in MarkSlots /\ (list[m] = Absent <=> list[m].of = NoRecording)
      /\ (list[m] # Absent => list[m] \in MarkRecords)
  BY <1>1, SlotIs
<1>3. CASE list[m] = Absent
  <2>1. Changed(list, e) = list
    BY <1>2, <1>3 DEF Changed
  <2>2. QED
    BY <1>3, <2>1
<1>4. CASE list[m] # Absent /\ e.kind = "delete"
  <2>1. Changed(list, e) = [list EXCEPT ![m] = Absent]
    BY <1>2, <1>4 DEF Changed
  <2>2. QED
    BY <1>1, <1>4, <2>1 DEF MarkSlots
<1>5. CASE list[m] # Absent /\ e.kind = "move"
  <2>1. Changed(list, e) = [list EXCEPT ![m].at = e.to]
    BY <1>2, <1>5 DEF Changed
  <2>2. [list[m] EXCEPT !.at = e.to] \in MarkRecords
    BY <1>1, <1>2, <1>5 DEF MarkRecords
  <2>3. Changed(list, e) \in [Marks -> MarkSlots]
    BY <1>1, <2>1, <2>2 DEF MarkSlots
  <2>4. /\ Changed(list, e)[m].at = e.to /\ Changed(list, e)[m].label = list[m].label
        /\ Changed(list, e)[m].of = list[m].of
    BY <1>1, <1>2, <1>5, <2>1 DEF MarkRecords
  <2>5. Changed(list, e)[m] # Absent
    BY <1>1, <1>2, <1>5, <2>3, <2>4, SlotIs
  <2>6. QED
    BY <1>1, <1>5, <2>1, <2>3, <2>4, <2>5
<1>6. CASE list[m] # Absent /\ e.kind = "label"
  <2>1. Changed(list, e) = [list EXCEPT ![m].label = e.to]
    BY <1>2, <1>6 DEF Changed
  <2>2. [list[m] EXCEPT !.label = e.to] \in MarkRecords
    BY <1>1, <1>2, <1>6 DEF MarkRecords
  <2>3. Changed(list, e) \in [Marks -> MarkSlots]
    BY <1>1, <2>1, <2>2 DEF MarkSlots
  <2>4. /\ Changed(list, e)[m].label = e.to /\ Changed(list, e)[m].at = list[m].at
        /\ Changed(list, e)[m].of = list[m].of
    BY <1>1, <1>2, <1>6, <2>1 DEF MarkRecords
  <2>5. Changed(list, e)[m] # Absent
    BY <1>1, <1>2, <1>6, <2>3, <2>4, SlotIs
  <2>6. QED
    BY <1>1, <1>6, <2>1, <2>3, <2>4, <2>5
<1>7. QED
  BY <1>1, <1>3, <1>4, <1>5, <1>6

\* A fetched list.
LEMMA FetchedList ==
    ASSUME table \in [Marks -> MarkSlots], NEW s
    PROVE  /\ Of(s) \in [Marks -> MarkSlots]
           /\ \A m \in Marks : Of(s)[m] = IF table[m].of = s THEN table[m] ELSE Absent
<1>1. QED
  BY DEF Of, MarkSlots

LEMMA AddIs ==
    ASSUME NEW a \in AddRecords
    PROVE  /\ a.step \in {"none", "asked", "picked", "stored", "done"}
           /\ a.step = "stored" => a.id \in Marks /\ a.mark \in MarkRecords /\ a.of \in Recordings
           /\ a.step # "stored" =>
                 /\ a \in [step : {"none", "asked", "picked", "done"}, of : 0..MaxRecordings]
                 /\ a.of \in 0..MaxRecordings
<1>1. QED
  BY DEF AddRecords

LEMMA NoListIs == NoList \in [Marks -> MarkSlots] /\ \A m \in Marks : NoList[m] = Absent
<1>1. QED
  BY DEF NoList, MarkSlots

LEMMA ServedIs ==
    /\ IsFiniteSet(Served) /\ Cardinality(Served) \in Nat
    /\ \A n \in Marks \ Served : /\ Cardinality(Served \union {n}) = Cardinality(Served) + 1
                                 /\ Cardinality(Served) < MaxMarkers
<1> USE MarkConstants
<1>1. IsFiniteSet(Marks) /\ Cardinality(Marks) = MaxMarkers
  BY FS_Interval
<1>2. Served \subseteq Marks /\ IsFiniteSet(Served) /\ Cardinality(Served) \in Nat
  BY <1>1, FS_Subset, FS_CardinalityType DEF Served
<1>3. ASSUME NEW n \in Marks \ Served
      PROVE  /\ Cardinality(Served \union {n}) = Cardinality(Served) + 1
             /\ Cardinality(Served) < MaxMarkers
  <2>1. Cardinality(Served \union {n}) = Cardinality(Served) + 1
    BY <1>2, FS_AddElement
  <2>2. Cardinality(Served \union {n}) <= MaxMarkers
    BY <1>1, <1>2, FS_Subset
  <2>3. QED
    BY <1>2, <2>1, <2>2
<1>4. QED
  BY <1>2, <1>3

\* insert_marker gives the call the next id.
LEMMA AddStored ==
    ASSUME MarkTypes, IdsInv, NEW n \in Marks, AddStores(n), adding[n].of \in kept
    PROVE  /\ lastMark' = lastMark + 1 /\ lastMark' \in Marks /\ adding[n].step = "picked"
           /\ adding' \in [Marks -> AddRecords] /\ table' \in [Marks -> MarkSlots]
           /\ adding'[n].step = "stored" /\ adding'[n].of = adding[n].of
           /\ adding'[n].id = lastMark' /\ adding'[n].mark = table'[lastMark']
           /\ table'[lastMark'] \in MarkRecords /\ table'[lastMark'].of = adding[n].of
           /\ \A k \in Marks \ {n} : adding'[k] = adding[k]
           /\ \A m \in Marks \ {lastMark'} : table'[m] = table[m]
<1> USE MarkConstants
<1>1. /\ kept \subseteq 1..recorded /\ recorded \in 0..MaxRecordings
      /\ table \in [Marks -> MarkSlots] /\ adding \in [Marks -> AddRecords]
  BY DEF MarkTypes
<1>2. adding[n].step = "picked" /\ lastMark' = lastMark + 1
  BY DEF AddStores
<1>3. PICK place \in Offsets :
         LET mark == [of |-> adding[n].of, at |-> place, label |-> "none"] IN
         /\ table' = [table EXCEPT ![lastMark'] = mark]
         /\ adding' = [adding EXCEPT ![n] =
               [step |-> "stored", of |-> mark.of, id |-> lastMark', mark |-> mark]]
  BY DEF AddStores
<1> DEFINE mark == [of |-> adding[n].of, at |-> place, label |-> "none"]
<1> DEFINE a == [step |-> "stored", of |-> mark.of, id |-> lastMark', mark |-> mark]
<1>4. mark \in MarkRecords /\ mark \in MarkSlots /\ mark.of = adding[n].of
  <2>1. adding[n].of \in Recordings /\ "none" \in Labels
    <3>1. 1..recorded \subseteq Recordings
      BY <1>1
    <3>2. QED
      BY <1>1, <3>1 DEF Labels
  <2>2. QED
    BY <2>1 DEF MarkRecords, MarkSlots
<1>5. lastMark' \in Marks
  <2>1. n \notin Served
    BY <1>2 DEF Served
  <2>2. lastMark \in Nat /\ lastMark <= Cardinality(Served)
    BY DEF IdsInv, Served
  <2>3. Cardinality(Served) < MaxMarkers /\ Cardinality(Served) \in Nat
    BY <2>1, ServedIs
  <2>4. QED
    BY <1>2, <2>2, <2>3
<1>6. /\ a \in AddRecords /\ a.step = "stored" /\ a.of = adding[n].of
      /\ a.id = lastMark' /\ a.mark = mark
  BY <1>1, <1>4, <1>5 DEF AddRecords
<1>7. table' = [table EXCEPT ![lastMark'] = mark] /\ adding' = [adding EXCEPT ![n] = a]
  BY <1>3
<1> HIDE DEF a, mark
<1>8. QED
  BY <1>1, <1>2, <1>4, <1>5, <1>6, <1>7

\* An edit is given a slot of its own.
LEMMA EditIssued ==
    ASSUME MarkTypes, IdsInv, NEW m \in Marks, NEW tab \in Tabs, NEW s \in 0..MaxRecordings,
           NEW e \in EditsOf(m, tab, s), Issue(e)
    PROVE  /\ e \in EditRecords /\ e.step = "asked" /\ e.m = m /\ e.from = tab /\ e.of = s
           /\ edits' = edits + 1 /\ edits' \in Edits /\ edits \in Nat
           /\ edit' \in [Edits -> EditRecords]
           /\ edit[edits'] = NoEdit /\ edit'[edits'] = e
           /\ \A k \in Edits \ {edits'} : edit'[k] = edit[k]
<1> USE MarkConstants
<1>1. e \in EditRecords /\ e.step = "asked" /\ e.m = m /\ e.from = tab /\ e.of = s
  BY DEF EditsOf, EditRecords
<1>2. edits' = edits + 1 /\ edits' \in Edits /\ edits \in Nat /\ edits' > edits
  BY DEF Issue, MarkTypes
<1>3. edit[edits'] = NoEdit
  BY <1>2 DEF IdsInv
<1>4. edit' = [edit EXCEPT ![edits'] = e] /\ edit \in [Edits -> EditRecords]
  BY DEF Issue, MarkTypes
<1>5. QED
  BY <1>1, <1>2, <1>3, <1>4

\* An edit reaches the table.
LEMMA EditLanded ==
    ASSUME MarkTypes, NEW n \in Edits, EditLands(n)
    PROVE  /\ edit[n] \in EditRecords /\ edit[n].step = "asked" /\ edit[n].m \in Marks
           /\ InFlight(n)
           /\ table' \in [Marks -> MarkSlots]
           /\ \A m \in Marks : m # edit[n].m => table'[m] = table[m]
           /\ \A m \in Marks : table[m] = Absent => table'[m] = Absent
           /\ \A m \in Marks : table'[m].of \in {table[m].of, NoRecording}
           /\ ~muddled' => ~muddled
           /\ ~muddled' /\ edit[n].from = "live" => table' = Changed(table, edit[n])
           /\ edit' \in [Edits -> EditRecords]
           /\ edit[n].from = "live" => edit'[n] = NoEdit
           /\ \/ edit'[n] = NoEdit
              \/ /\ edit'[n].step = "landed" /\ edit'[n].m = edit[n].m
                 /\ edit'[n].kind = edit[n].kind /\ edit'[n].from = edit[n].from
                 /\ edit'[n].of = edit[n].of
           /\ edit[n].from # "live" => edit'[n].step = "landed" \/ table' = table
           /\ \A k \in Edits \ {n} : edit'[k] = edit[k]
<1> USE MarkConstants
<1>1. /\ edit \in [Edits -> EditRecords] /\ table \in [Marks -> MarkSlots]
      /\ edit[n] \in EditRecords /\ edit[n].step = "asked" /\ edit[n].m \in Marks
      /\ NoEdit \in EditRecords
  BY EditIs DEF MarkTypes, EditLands, EditRecords
<1>2. \/ /\ table' = Changed(table, edit[n]) /\ muddled' = muddled
         /\ edit[n].from = "live" => edit' = [edit EXCEPT ![n] = NoEdit]
         /\ edit[n].from # "live" => edit' = [edit EXCEPT ![n].step = "landed"]
      \/ /\ table' = table /\ edit' = [edit EXCEPT ![n] = NoEdit]
         /\ muddled' = (muddled \/ edit[n].from = "live")
  BY DEF EditLands
<1> DEFINE m == edit[n].m
<1>3. table' = table =>
         /\ table' \in [Marks -> MarkSlots]
         /\ \A k \in Marks : table'[k] = table[k]
  BY <1>1
<1>4. /\ table' \in [Marks -> MarkSlots]
      /\ \A k \in Marks : k # m => table'[k] = table[k]
      /\ \A k \in Marks : table[k] = Absent => table'[k] = Absent
      /\ \A k \in Marks : table'[k].of \in {table[k].of, NoRecording}
  <2>1. CASE table' = Changed(table, edit[n])
    <3>1. /\ Changed(table, edit[n]) \in [Marks -> MarkSlots]
          /\ \A k \in Marks : k # m => Changed(table, edit[n])[k] = table[k]
          /\ table[m] = Absent => Changed(table, edit[n])[m] = Absent
          /\ edit[n].kind = "delete" => Changed(table, edit[n])[m] = Absent
          /\ table[m] # Absent /\ edit[n].kind # "delete" =>
                Changed(table, edit[n])[m].of = table[m].of
      BY <1>1, ChangedIs
    <3>2. \A k \in Marks : table'[k].of \in {table[k].of, NoRecording}
      BY <1>1, <2>1, <3>1
    <3>3. QED
      BY <1>1, <2>1, <3>1, <3>2
  <2>2. CASE table' = table
    BY <1>3, <2>2
  <2>3. QED
    BY <1>2, <2>1, <2>2
<1>5. ~muddled' => ~muddled
  BY <1>2
<1>6. ~muddled' /\ edit[n].from = "live" => table' = Changed(table, edit[n])
  BY <1>2
<1>7. CASE edit' = [edit EXCEPT ![n] = NoEdit]
  <2>1. /\ edit' \in [Edits -> EditRecords] /\ edit'[n] = NoEdit
        /\ \A k \in Edits \ {n} : edit'[k] = edit[k]
    BY <1>1, <1>7
  <2>2. edit[n].from # "live" => table' = table
    <3>1. ASSUME edit[n].from # "live", edit' = [edit EXCEPT ![n].step = "landed"]
          PROVE  FALSE
      <4>1. edit'[n].step = "landed"
        BY <1>1, <3>1 DEF EditRecords, NoEdit
      <4>2. QED
        BY <2>1, <4>1
    <3>2. QED
      BY <1>2, <3>1
  <2>3. QED
    BY <1>1, <1>4, <1>5, <1>6, <2>1, <2>2 DEF InFlight
<1>8. CASE edit[n].from # "live" /\ edit' = [edit EXCEPT ![n].step = "landed"]
  <2> DEFINE f == [edit[n] EXCEPT !.step = "landed"]
  <2>1. edit' = [edit EXCEPT ![n] = f]
    BY <1>8
  <2>2. /\ f \in EditRecords /\ f.step = "landed" /\ f.m = m /\ f.kind = edit[n].kind
        /\ f.from = edit[n].from /\ f.of = edit[n].of
    BY <1>1 DEF EditRecords, NoEdit
  <2> HIDE DEF f
  <2>3. /\ edit' \in [Edits -> EditRecords] /\ edit'[n] = f
        /\ \A k \in Edits \ {n} : edit'[k] = edit[k]
    BY <1>1, <2>1, <2>2
  <2>4. QED
    BY <1>1, <1>4, <1>8, <1>5, <1>6, <2>2, <2>3 DEF InFlight
<1>9. QED
  BY <1>2, <1>7, <1>8

\* Only an action of the recording changes these, and they stay in range.
LEMMA MarkTypesStep ==
    ASSUME MarkTypes, IdsInv, SessionInv, HistTypes, [MarkNext]_markVars
    PROVE  MarkTypes'
<1> USE MarkConstants
<1> USE DEF recording, lists, hist
<1>1. /\ recorded \in 0..MaxRecordings /\ slotIn \in 0..recorded /\ screen \in 0..recorded
      /\ kept \subseteq 1..recorded /\ muddled \in BOOLEAN
      /\ recorded \in Nat /\ edits \in 0..MaxEdits
      /\ table \in [Marks -> MarkSlots] /\ liveList \in [Marks -> MarkSlots]
      /\ edit \in [Edits -> EditRecords]
      /\ adding \in [Marks -> AddRecords] /\ \A n \in Marks : adding[n].of \in 0..recorded
  BY DEF MarkTypes
<1>2. CASE StartRecording
  BY <1>1, <1>2, NoListIs DEF StartRecording, MarkTypes
<1>3. CASE StartInstalls
  <2>1. /\ startStep = "clicked" /\ startStep' = "installed"
        /\ recorded' = recorded + 1 /\ slotIn' = recorded + 1
        /\ kept' = kept \union {recorded + 1}
        /\ UNCHANGED <<screen, adding, lastMark, table, liveList, edit, edits, muddled>>
    BY <1>3 DEF StartInstalls
  <2>2. recorded < MaxRecordings
    BY <2>1 DEF SessionInv
  <2>3. QED
    BY <1>1, <2>1, <2>2 DEF MarkTypes
<1>4. CASE StartReturns \/ SlotEmpties \/ ScreenLetsGo
  <2>1. screen' \in 0..recorded /\ slotIn' \in 0..recorded /\ startStep' \in {"idle", startStep}
    BY <1>1, <1>4 DEF StartReturns, SlotEmpties, ScreenLetsGo
  <2>2. UNCHANGED <<recorded, kept, adding, lastMark, table, liveList, edit,
                    edits, muddled>>
    BY <1>4 DEF StartReturns, SlotEmpties, ScreenLetsGo
  <2>3. QED
    BY <1>1, <2>1, <2>2 DEF MarkTypes
<1>5. CASE \E s \in Recordings : DeleteRecording(s)
  <2>1. PICK s \in Recordings : DeleteRecording(s)
    BY <1>5
  <2>2. table' \in [Marks -> MarkSlots]
    BY <1>1, <2>1 DEF DeleteRecording, MarkSlots
  <2>3. QED
    BY <1>1, <2>1, <2>2 DEF DeleteRecording, MarkTypes
<1>6. CASE \E s \in Recordings : OpenHistory(s)
  <2>1. PICK s \in Recordings : OpenHistory(s)
    BY <1>6
  <2>2. QED
    BY <1>1, <2>1 DEF OpenHistory, MarkTypes
<1>7. ASSUME NEW n \in Marks, NEW a \in AddRecords, a.of \in 0..recorded,
             adding' = [adding EXCEPT ![n] = a]
      PROVE  adding' \in [Marks -> AddRecords] /\ \A k \in Marks : adding'[k].of \in 0..recorded
  BY <1>1, <1>7
<1>8. CASE \E n \in Marks : ClickMarker(n)
  <2>1. PICK n \in Marks : ClickMarker(n)
    BY <1>8
  <2> DEFINE a == [adding[n] EXCEPT !.step = "asked"]
  <2>2. adding' = [adding EXCEPT ![n] = a] /\ adding[n].step = "none"
    BY <2>1 DEF ClickMarker
  <2>3. a \in AddRecords /\ a.of = adding[n].of
    <3>1. adding[n] \in [step : {"none", "asked", "picked", "done"}, of : 0..MaxRecordings]
      BY <1>1, <2>2, AddIs
    <3>2. QED
      BY <3>1 DEF AddRecords
  <2> HIDE DEF a
  <2>4. a.of \in 0..recorded
    BY <1>1, <2>3
  <2>5. adding' \in [Marks -> AddRecords] /\ \A k \in Marks : adding'[k].of \in 0..recorded
    BY <1>7, <2>2, <2>3, <2>4
  <2>6. QED
    BY <1>1, <2>1, <2>5 DEF ClickMarker, MarkTypes
<1>9. CASE \E n \in Marks : AddPicks(n)
  <2>1. PICK n \in Marks : AddPicks(n)
    BY <1>9
  <2> DEFINE a == IF slotIn = NoRecording THEN Added ELSE [step |-> "picked", of |-> slotIn]
  <2>2. adding' = [adding EXCEPT ![n] = a]
    BY <2>1 DEF AddPicks
  <2>3. a \in AddRecords /\ a.of \in 0..recorded
    BY <1>1 DEF AddRecords, Added
  <2> HIDE DEF a
  <2>4. adding' \in [Marks -> AddRecords] /\ \A k \in Marks : adding'[k].of \in 0..recorded
    BY <1>1, <1>7, <2>2, <2>3
  <2>5. QED
    BY <1>1, <2>1, <2>4 DEF AddPicks, MarkTypes
<1>10. ASSUME NEW n \in Marks, NEW a \in AddRecords, a.of \in 0..recorded,
              adding' = [adding EXCEPT ![n] = a], table' \in [Marks -> MarkSlots],
              UNCHANGED <<recorded, startStep, slotIn, screen, kept, liveList,
                          edit, edits, muddled>>
       PROVE  MarkTypes'
  <2>1. adding' \in [Marks -> AddRecords] /\ \A k \in Marks : adding'[k].of \in 0..recorded
    BY <1>1, <1>7, <1>10
  <2>2. QED
    BY <1>1, <1>10, <2>1 DEF MarkTypes
<1>11. CASE \E n \in Marks : AddStores(n)
  <2>1. PICK n \in Marks : AddStores(n)
    BY <1>11
  <2>2. UNCHANGED <<recorded, startStep, slotIn, screen, kept, liveList,
                    edit, edits, muddled>>
    BY <2>1 DEF AddStores
  <2>3. CASE adding[n].of \notin kept
    <3>1. adding' = [adding EXCEPT ![n] = Added] /\ table' = table
      BY <2>1, <2>3 DEF AddStores
    <3>2. Added \in AddRecords /\ Added.of \in 0..recorded
      BY <1>1 DEF AddRecords, Added
    <3>3. QED
      BY <1>1, <1>10, <2>2, <3>1, <3>2
  <2>4. CASE adding[n].of \in kept
    <3>1. /\ adding' \in [Marks -> AddRecords] /\ table' \in [Marks -> MarkSlots]
          /\ adding'[n].of = adding[n].of
          /\ \A k \in Marks \ {n} : adding'[k] = adding[k]
      BY <2>1, <2>4, AddStored
    <3>2. \A k \in Marks : adding'[k].of \in 0..recorded
      BY <1>1, <3>1
    <3>3. QED
      BY <1>1, <2>2, <3>1, <3>2 DEF MarkTypes
  <2>5. QED
    BY <2>3, <2>4
<1>12. CASE \E n \in Marks : AddReturns(n)
  <2>1. PICK n \in Marks : AddReturns(n)
    BY <1>12
  <2>2. adding' = [adding EXCEPT ![n] = Added]
    BY <2>1 DEF AddReturns
  <2>3. Added \in AddRecords /\ Added.of \in 0..recorded
    BY <1>1 DEF AddRecords, Added
  <2>4. adding' \in [Marks -> AddRecords] /\ \A k \in Marks : adding'[k].of \in 0..recorded
    BY <1>1, <1>7, <2>2, <2>3
  <2>5. adding[n].id \in Marks /\ adding[n].mark \in MarkSlots
    BY <1>1, <2>1, AddIs DEF AddReturns, MarkSlots
  <2>6. liveList' \in [Marks -> MarkSlots]
    BY <1>1, <2>1, <2>5 DEF AddReturns
  <2>7. QED
    BY <1>1, <2>1, <2>4, <2>6 DEF AddReturns, MarkTypes
<1>13. ASSUME NEW m \in Marks, NEW tab \in Tabs, NEW s \in 0..MaxRecordings,
              NEW e \in EditsOf(m, tab, s), Issue(e)
       PROVE  /\ e \in EditRecords /\ e.step = "asked"
              /\ edit' \in [Edits -> EditRecords] /\ edits' \in 0..MaxEdits
  <2>1. /\ e \in EditRecords /\ e.step = "asked"
        /\ edit' \in [Edits -> EditRecords] /\ edits' \in Edits
    BY <1>13, EditIssued
  <2>2. QED
    BY <2>1
<1>14. CASE \E m \in Marks : EditLive(m)
  <2> PICK m \in Marks : EditLive(m)
    BY <1>14
  <2>1. PICK e \in EditsOf(m, "live", NoRecording) :
           Issue(e) /\ liveList' = Changed(liveList, e) /\ muddled' = (muddled \/ Clash(e))
    BY DEF EditLive
  <2>2. "live" \in Tabs /\ NoRecording \in 0..MaxRecordings
    BY DEF Tabs
  <2>3. /\ e \in EditRecords /\ e.step = "asked"
        /\ edit' \in [Edits -> EditRecords] /\ edits' \in 0..MaxEdits
    BY <1>13, <2>1, <2>2
  <2>4. liveList' \in [Marks -> MarkSlots]
    BY <1>1, <2>1, <2>3, ChangedIs
  <2>5. UNCHANGED <<recorded, startStep, slotIn, screen, kept, adding, lastMark, table>>
    BY DEF EditLive
  <2>6. QED
    BY <1>1, <2>1, <2>3, <2>4, <2>5 DEF MarkTypes, Clash
<1>15. CASE \E m \in Marks : EditHistory(m)
  <2> PICK m \in Marks : EditHistory(m)
    BY <1>15
  <2>1. /\ \E e \in EditsOf(m, "history", histOf) : Issue(e)
        /\ muddled' = (muddled \/ histOf = recorded)
    BY DEF EditHistory
  <2>2. "history" \in Tabs /\ histOf \in 0..MaxRecordings
    BY <1>1 DEF Tabs, HistTypes
  <2>3. edit' \in [Edits -> EditRecords] /\ edits' \in 0..MaxEdits
    BY <1>13, <2>1, <2>2
  <2>4. UNCHANGED <<recorded, startStep, slotIn, screen, kept, adding, lastMark, table, liveList>>
    BY DEF EditHistory
  <2>5. QED
    BY <1>1, <2>1, <2>3, <2>4 DEF MarkTypes
<1>16. CASE \E n \in Edits : EditLands(n)
  <2>1. PICK n \in Edits : EditLands(n)
    BY <1>16
  <2>2. table' \in [Marks -> MarkSlots] /\ edit' \in [Edits -> EditRecords]
    BY <2>1, EditLanded
  <2>3. QED
    BY <1>1, <2>1, <2>2 DEF EditLands, MarkTypes
<1>17. CASE \E n \in Edits : HistoryRefetches(n)
  <2>1. PICK n \in Edits : HistoryRefetches(n)
    BY <1>17
  <2>2. NoEdit \in EditRecords
    BY DEF EditRecords
  <2>3. QED
    BY <1>1, <2>1, <2>2 DEF HistoryRefetches, MarkTypes
<1>18. CASE UNCHANGED markVars
  BY <1>18 DEF markVars, MarkTypes
<1>19. QED
  BY <1>2, <1>3, <1>4, <1>5, <1>6, <1>8, <1>9, <1>11, <1>12, <1>14, <1>15, <1>16, <1>17, <1>18
     DEF MarkNext

LEMMA IdsStep ==
    ASSUME MarkTypes, IdsInv, HistListInv, [MarkNext]_markVars
    PROVE  IdsInv'
<1> USE MarkConstants
<1> USE DEF recording, lists, hist
<1>1. /\ table \in [Marks -> MarkSlots] /\ liveList \in [Marks -> MarkSlots]
      /\ edit \in [Edits -> EditRecords]
      /\ adding \in [Marks -> AddRecords] /\ edits \in 0..MaxEdits
  BY DEF MarkTypes
<1>2. /\ lastMark \in Nat /\ lastMark <= Cardinality(Served)
      /\ \A m \in Marks : m > lastMark =>
            table[m] = Absent /\ liveList[m] = Absent
      /\ \A n \in Stored : adding[n].id <= lastMark
      /\ \A n, k \in Stored : adding[n].id = adding[k].id => n = k
      /\ \A n \in Edits : InFlight(n) => edit[n].m <= lastMark
      /\ \A n \in Edits : n > edits => edit[n] = NoEdit
  BY DEF IdsInv
<1>3. ASSUME UNCHANGED <<lastMark, adding, edit, edits>>,
             \A m \in Marks : m > lastMark =>
                table'[m] = Absent /\ liveList'[m] = Absent
      PROVE  IdsInv'
  <2>1. Served' = Served /\ Stored' = Stored /\ \A n \in Edits : InFlight(n)' <=> InFlight(n)
    BY <1>3 DEF Served, Stored, InFlight
  <2>2. QED
    BY <1>2, <1>3, <2>1 DEF IdsInv
<1>4. CASE StartRecording
  BY <1>2, <1>3, <1>4, NoListIs DEF StartRecording
<1>5. CASE StartInstalls \/ StartReturns \/ SlotEmpties \/ ScreenLetsGo
  BY <1>2, <1>3, <1>5 DEF StartInstalls, StartReturns, SlotEmpties, ScreenLetsGo
<1>6. CASE \E s \in Recordings : DeleteRecording(s)
  <2>1. PICK s \in Recordings : DeleteRecording(s)
    BY <1>6
  <2>2. \A m \in Marks : table[m] = Absent => table'[m] = Absent
    BY <2>1 DEF DeleteRecording
  <2>3. UNCHANGED <<lastMark, adding, edit, edits, liveList>>
    BY <2>1 DEF DeleteRecording
  <2>4. QED
    BY <1>2, <1>3, <2>2, <2>3
<1>7. CASE \E s \in Recordings : OpenHistory(s)
  <2>1. PICK s \in Recordings : OpenHistory(s)
    BY <1>7
  <2>2. UNCHANGED <<lastMark, adding, edit, edits, liveList, table>>
    BY <2>1 DEF OpenHistory
  <2>3. QED
    BY <1>2, <1>3, <2>2
<1>8. ASSUME NEW n \in Marks, UNCHANGED <<lastMark, table, edit, edits>>,
             \A m \in Marks : m > lastMark => liveList'[m] = Absent,
             \A k \in Marks \ {n} : adding'[k] = adding[k],
             adding'[n].step # "stored", Served \subseteq Served'
      PROVE  IdsInv'
  <2>1. Cardinality(Served) <= Cardinality(Served')
    <3>1. IsFiniteSet(Served')
      <4>1. IsFiniteSet(Marks) /\ Served' \subseteq Marks
        BY FS_Interval DEF Served
      <4>2. QED
        BY <4>1, FS_Subset
    <3>2. QED
      BY <1>8, <3>1, FS_Subset
  <2>2. Cardinality(Served') \in Nat /\ Cardinality(Served) \in Nat
    <3>1. IsFiniteSet(Marks) /\ Served' \subseteq Marks
      BY FS_Interval DEF Served
    <3>2. QED
      BY <3>1, ServedIs, FS_Subset, FS_CardinalityType
  <2>3. \A k \in Stored' : k \in Stored /\ adding'[k].id = adding[k].id
    BY <1>8 DEF Stored
  <2>4. \A k \in Edits : InFlight(k)' <=> InFlight(k)
    BY <1>8 DEF InFlight
  <2>5. lastMark' <= Cardinality(Served')
    BY <1>2, <1>8, <2>1, <2>2
  <2>6. QED
    BY <1>2, <1>8, <2>3, <2>4, <2>5 DEF IdsInv
<1>9. CASE \E n \in Marks : ClickMarker(n)
  <2>1. PICK n \in Marks : ClickMarker(n)
    BY <1>9
  <2>2. /\ adding[n].step = "none" /\ adding' = [adding EXCEPT ![n].step = "asked"]
        /\ UNCHANGED <<lastMark, table, liveList, edit, edits>>
    BY <2>1 DEF ClickMarker
  <2>3. adding'[n].step = "asked" /\ \A k \in Marks \ {n} : adding'[k] = adding[k]
    <3>1. adding[n] \in [step : {"none", "asked", "picked", "done"}, of : 0..MaxRecordings]
      BY <1>1, <2>2, AddIs
    <3>2. QED
      BY <1>1, <2>2, <3>1
  <2>4. Served \subseteq Served'
    BY <2>2, <2>3 DEF Served
  <2>5. QED
    BY <1>2, <1>8, <2>2, <2>3, <2>4
<1>10. CASE \E n \in Marks : AddPicks(n)
  <2>1. PICK n \in Marks : AddPicks(n)
    BY <1>10
  <2> DEFINE a == IF slotIn = NoRecording THEN Added ELSE [step |-> "picked", of |-> slotIn]
  <2>2. /\ adding[n].step = "asked" /\ adding' = [adding EXCEPT ![n] = a]
        /\ UNCHANGED <<lastMark, table, liveList, edit, edits>>
    BY <2>1 DEF AddPicks
  <2>3. a.step \in {"done", "picked"}
    OBVIOUS
  <2> HIDE DEF a
  <2>4. adding'[n] = a /\ \A k \in Marks \ {n} : adding'[k] = adding[k]
    BY <1>1, <2>2
  <2>5. Served \subseteq Served'
    BY <2>2, <2>4 DEF Served
  <2>6. QED
    BY <1>2, <1>8, <2>2, <2>3, <2>4, <2>5
<1>11. CASE \E n \in Marks : AddStores(n)
  <2>1. PICK n \in Marks : AddStores(n)
    BY <1>11
  <2>2. UNCHANGED <<liveList, edit, edits>> /\ adding[n].step = "picked"
    BY <2>1 DEF AddStores
  <2>3. CASE adding[n].of \notin kept
    <3>1. adding' = [adding EXCEPT ![n] = Added] /\ UNCHANGED <<lastMark, table>>
      BY <2>1, <2>3 DEF AddStores
    <3>2. adding'[n] = Added /\ \A k \in Marks \ {n} : adding'[k] = adding[k]
      BY <1>1, <3>1
    <3>3. Served \subseteq Served'
      BY <2>2, <3>2 DEF Served
    <3>4. QED
      BY <1>2, <1>8, <2>2, <3>1, <3>2, <3>3
  <2>4. CASE adding[n].of \in kept
    <3>1. /\ lastMark' = lastMark + 1 /\ adding'[n].step = "stored"
          /\ adding'[n].id = lastMark'
          /\ \A k \in Marks \ {n} : adding'[k] = adding[k]
          /\ \A m \in Marks \ {lastMark'} : table'[m] = table[m]
      BY <2>1, <2>4, AddStored
    <3>2. Served' = Served \union {n} /\ n \notin Served
      BY <2>2, <3>1 DEF Served
    <3>3. lastMark' \in Nat /\ lastMark' <= Cardinality(Served')
      <4>1. Cardinality(Served') = Cardinality(Served) + 1 /\ Cardinality(Served) \in Nat
        BY <3>2, ServedIs
      <4>2. QED
        BY <1>2, <3>1, <4>1
    <3>4. \A m \in Marks : m > lastMark' =>
             table'[m] = Absent /\ liveList'[m] = Absent
      <4>1. \A m \in Marks : m > lastMark' => m > lastMark /\ m # lastMark'
        BY <1>2, <3>1
      <4>2. QED
        BY <1>2, <2>2, <3>1, <4>1
    <3>5. \A k \in Stored' : k = n \/ (k \in Stored /\ adding'[k].id = adding[k].id
                                      /\ adding[k].id <= lastMark /\ adding[k].id \in Marks)
      BY <1>1, <1>2, <3>1, AddIs DEF Stored
    <3>6. \A k \in Stored' : adding'[k].id <= lastMark'
      BY <1>2, <3>1, <3>5
    <3>7. \A k, l \in Stored' : adding'[k].id = adding'[l].id => k = l
      <4>1. \A k \in Stored' : k # n => adding'[k].id # adding'[n].id
        BY <1>2, <3>1, <3>5
      <4>2. QED
        BY <1>2, <3>5, <4>1
    <3>8. \A k \in Edits : InFlight(k)' => edit'[k].m <= lastMark'
      <4>1. \A k \in Edits : InFlight(k)' => InFlight(k) /\ edit'[k].m = edit[k].m
        BY <2>2 DEF InFlight
      <4>2. \A k \in Edits : InFlight(k) => edit[k].m \in Marks
        BY <1>1, EditIs DEF InFlight
      <4>3. QED
        BY <1>2, <3>1, <4>1, <4>2
    <3>9. QED
      BY <1>2, <2>2, <3>3, <3>4, <3>6, <3>7, <3>8 DEF IdsInv
  <2>5. QED
    BY <2>3, <2>4
<1>12. CASE \E n \in Marks : AddReturns(n)
  <2>1. PICK n \in Marks : AddReturns(n)
    BY <1>12
  <2>2. /\ adding[n].step = "stored" /\ adding' = [adding EXCEPT ![n] = Added]
        /\ liveList' = [liveList EXCEPT ![adding[n].id] = adding[n].mark]
        /\ UNCHANGED <<lastMark, table, edit, edits>>
    BY <2>1 DEF AddReturns
  <2>3. adding'[n] = Added /\ \A k \in Marks \ {n} : adding'[k] = adding[k]
    BY <1>1, <2>2
  <2>4. Served \subseteq Served'
    BY <2>3 DEF Served
  <2>5. adding[n].id <= lastMark /\ adding[n].id \in Marks
    BY <1>1, <1>2, <2>2, AddIs DEF Stored
  <2>6. \A m \in Marks : m > lastMark => m # adding[n].id
    BY <1>2, <2>5
  <2>7. \A m \in Marks : m > lastMark => liveList'[m] = Absent
    BY <1>1, <1>2, <2>2, <2>6
  <2>8. QED
    BY <1>8, <2>2, <2>3, <2>4, <2>7
<1>13. ASSUME NEW m \in Marks, NEW tab \in Tabs, NEW s \in 0..MaxRecordings,
              NEW e \in EditsOf(m, tab, s), Issue(e), m <= lastMark,
              UNCHANGED <<lastMark, adding, table>>,
              \A k \in Marks : k > lastMark => liveList'[k] = Absent
       PROVE  IdsInv'
  <2>1. /\ e.m = m /\ edits' = edits + 1 /\ edits' \in Edits /\ edit'[edits'] = e
        /\ \A k \in Edits \ {edits'} : edit'[k] = edit[k]
    BY <1>13, EditIssued
  <2>2. Served' = Served /\ Stored' = Stored
    BY <1>13 DEF Served, Stored
  <2>3. \A k \in Edits : InFlight(k)' => edit'[k].m <= lastMark
    BY <1>2, <1>13, <2>1 DEF InFlight
  <2>4. \A k \in Edits : k > edits' => edit'[k] = NoEdit
    BY <1>1, <1>2, <2>1
  <2>5. QED
    BY <1>2, <1>13, <2>2, <2>3, <2>4 DEF IdsInv
<1>14. CASE \E m \in Marks : EditLive(m)
  <2> PICK m \in Marks : EditLive(m)
    BY <1>14
  <2>1. PICK e \in EditsOf(m, "live", NoRecording) : Issue(e) /\ liveList' = Changed(liveList, e)
    BY DEF EditLive
  <2>2. "live" \in Tabs /\ liveList[m] # Absent /\ NoRecording \in 0..MaxRecordings
    BY DEF Tabs, EditLive
  <2>3. UNCHANGED <<lastMark, adding, table>>
    BY DEF EditLive
  <2>4. m <= lastMark
    BY <1>2, <2>2
  <2>5. e \in EditRecords /\ e.step = "asked" /\ e.m = m
    BY <2>1, <2>2, EditIssued
  <2>6. \A k \in Marks : k # m => liveList'[k] = liveList[k]
    BY <1>1, <2>1, <2>5, ChangedIs
  <2>7. \A k \in Marks : k > lastMark => liveList'[k] = Absent
    BY <1>2, <2>4, <2>6
  <2>8. QED
    BY <1>13, <2>1, <2>2, <2>3, <2>4, <2>7
<1>15. CASE \E m \in Marks : EditHistory(m)
  <2> PICK m \in Marks : EditHistory(m)
    BY <1>15
  <2>1. PICK e \in EditsOf(m, "history", histOf) : Issue(e)
    BY DEF EditHistory
  <2>2. /\ "history" \in Tabs /\ histOf # NoRecording /\ histList[histOf][m] # Absent
        /\ histOf \in 0..MaxRecordings /\ histOf \in Recordings
    BY DEF Tabs, EditHistory, HistListInv, HistTypes, MarkTypes
  <2>3. UNCHANGED <<lastMark, adding, table, liveList>>
    BY DEF EditHistory
  <2>4. m <= lastMark
    <3>1. ~(m > lastMark)
      BY <2>2 DEF HistListInv, HistNew
    <3>2. QED
      BY <1>2, <3>1
  <2>5. QED
    BY <1>2, <1>13, <2>1, <2>2, <2>3, <2>4
<1>16. ASSUME NEW n \in Edits, InFlight(n), edit'[n] = NoEdit \/ edit'[n].m = edit[n].m,
              \A k \in Edits \ {n} : edit'[k] = edit[k],
              UNCHANGED <<lastMark, adding, liveList, edits>>,
              \A m \in Marks : m > lastMark => table'[m] = Absent
       PROVE  IdsInv'
  <2>1. Served' = Served /\ Stored' = Stored
    BY <1>16 DEF Served, Stored
  <2>2. \A k \in Edits : InFlight(k)' => edit'[k].m <= lastMark
    BY <1>2, <1>16 DEF InFlight
  <2>3. n <= edits
    <3>1. ~(n > edits)
      BY <1>2, <1>16 DEF InFlight
    <3>2. QED
      BY <1>1, <3>1
  <2>4. \A k \in Edits : k > edits => edit'[k] = NoEdit
    BY <1>1, <1>2, <1>16, <2>3
  <2>5. QED
    BY <1>2, <1>16, <2>1, <2>2, <2>4 DEF IdsInv
<1>17. CASE \E n \in Edits : EditLands(n)
  <2>1. PICK n \in Edits : EditLands(n)
    BY <1>17
  <2>2. /\ InFlight(n) /\ (edit'[n] = NoEdit \/ edit'[n].m = edit[n].m)
        /\ \A k \in Edits \ {n} : edit'[k] = edit[k]
        /\ \A m \in Marks : table[m] = Absent => table'[m] = Absent
    BY <2>1, EditLanded
  <2>3. UNCHANGED <<lastMark, adding, liveList, edits>>
    BY <2>1 DEF EditLands
  <2>4. QED
    BY <1>2, <1>16, <2>2, <2>3
<1>18. CASE \E n \in Edits : HistoryRefetches(n)
  <2>1. PICK n \in Edits : HistoryRefetches(n)
    BY <1>18
  <2>2. /\ InFlight(n) /\ edit' = [edit EXCEPT ![n] = NoEdit]
        /\ UNCHANGED <<lastMark, adding, table, liveList, edits>>
    BY <2>1 DEF HistoryRefetches, InFlight
  <2>3. edit'[n] = NoEdit /\ \A k \in Edits \ {n} : edit'[k] = edit[k]
    BY <1>1, <2>2
  <2>4. QED
    BY <1>2, <1>16, <2>2, <2>3
<1>19. CASE UNCHANGED markVars
  BY <1>2, <1>3, <1>19 DEF markVars
<1>20. QED
  BY <1>4, <1>5, <1>6, <1>7, <1>9, <1>10, <1>11, <1>12, <1>14, <1>15, <1>17, <1>18, <1>19
     DEF MarkNext

\* What AppState, the screen and the table say of the sessions.
LEMMA SessionStep ==
    ASSUME MarkTypes, IdsInv, SessionInv, MarkersOwned, [MarkNext]_markVars
    PROVE  SessionInv' /\ MarkersOwned'
<1> USE MarkConstants
<1> USE DEF recording, lists, hist
<1>1. /\ recorded \in 0..MaxRecordings /\ kept \subseteq 1..recorded /\ recorded \in Nat
      /\ slotIn \in 0..recorded /\ screen \in 0..recorded
      /\ table \in [Marks -> MarkSlots] /\ adding \in [Marks -> AddRecords]
      /\ \A m \in Marks : table[m].of \in 0..recorded
  <2>1. \A m \in Marks : table[m].of \in 0..MaxRecordings
    BY SlotIs DEF MarkTypes
  <2>2. QED
    BY <2>1 DEF MarkTypes, SessionInv
<1>2. ASSUME UNCHANGED <<recorded, startStep, slotIn, screen>>,
             \A m \in Marks : table'[m].of \in {table[m].of, NoRecording}
      PROVE  SessionInv'
  <2>1. \A m \in Marks : table[m].of \in Nat /\ table[m].of <= recorded
    BY <1>1
  <2>2. ASSUME NEW m \in Marks PROVE table'[m].of <= recorded
    <3>1. table'[m].of = table[m].of \/ table'[m].of = NoRecording
      BY <1>2
    <3>2. table[m].of <= recorded /\ recorded \in Nat
      BY <1>1, <2>1
    <3>3. QED
      BY <3>1, <3>2
  <2>3. QED
    BY <1>2, <2>2 DEF SessionInv
<1>3. ASSUME kept \subseteq kept', \A m \in Marks : table'[m].of \in {table[m].of, NoRecording}
      PROVE  MarkersOwned'
  BY <1>3 DEF MarkersOwned
<1>11. /\ slotIn # NoRecording => slotIn = recorded
       /\ screen # NoRecording => screen = recorded /\ startStep = "idle"
       /\ startStep = "clicked" => recorded < MaxRecordings
  BY DEF SessionInv
<1>4. CASE StartRecording \/ StartInstalls \/ StartReturns \/ SlotEmpties \/ ScreenLetsGo
  <2>1. table' = table /\ kept \subseteq kept'
    BY <1>4 DEF StartRecording, StartInstalls, StartReturns, SlotEmpties, ScreenLetsGo
  <2>2. recorded' \in Nat /\ recorded <= recorded'
    BY <1>1, <1>4 DEF StartRecording, StartInstalls, StartReturns, SlotEmpties, ScreenLetsGo
  <2>3. \A m \in Marks : table'[m].of <= recorded'
    <3>1. SUFFICES ASSUME NEW m \in Marks PROVE table[m].of <= recorded'
      BY <2>1
    <3>2. table[m].of \in Nat /\ table[m].of <= recorded
      BY <1>1
    <3>3. QED
      BY <1>1, <2>2, <3>2
  <2>4. MarkersOwned'
    BY <1>3, <2>1
  <2>5. CASE StartRecording
    <3>1. /\ startStep = "idle" /\ startStep' = "clicked" /\ recorded < MaxRecordings
          /\ screen = NoRecording /\ UNCHANGED <<recorded, slotIn, screen>>
      BY <2>5 DEF StartRecording
    <3>2. QED
      BY <1>11, <2>3, <2>4, <3>1 DEF SessionInv
  <2>6. CASE StartInstalls
    <3>1. /\ startStep = "clicked" /\ startStep' = "installed" /\ slotIn' = recorded'
          /\ screen' = screen
      BY <2>6 DEF StartInstalls
    <3>2. screen = NoRecording
      BY <1>11, <3>1
    <3>3. QED
      BY <2>3, <2>4, <3>1, <3>2 DEF SessionInv
  <2>7. CASE StartReturns
    <3>1. /\ startStep = "installed" /\ startStep' = "idle" /\ screen' = recorded
          /\ UNCHANGED <<recorded, slotIn>>
      BY <2>7 DEF StartReturns
    <3>2. QED
      BY <1>11, <2>3, <2>4, <3>1 DEF SessionInv
  <2>8. CASE SlotEmpties \/ ScreenLetsGo
    <3>1. /\ UNCHANGED <<recorded, startStep>>
          /\ \/ slotIn' = NoRecording /\ screen' = screen
             \/ slotIn' = slotIn /\ screen' = NoRecording
      BY <2>8 DEF SlotEmpties, ScreenLetsGo
    <3>2. QED
      BY <1>11, <2>3, <2>4, <3>1 DEF SessionInv
  <2>9. QED
    BY <1>4, <2>5, <2>6, <2>7, <2>8
<1>5. CASE \E s \in Recordings : DeleteRecording(s)
  <2>1. PICK s \in Recordings : DeleteRecording(s)
    BY <1>5
  <2>2. \A m \in Marks : table'[m] = IF table[m].of = s THEN Absent ELSE table[m]
    BY <2>1 DEF DeleteRecording
  <2>3. /\ kept' = kept \ {s} /\ UNCHANGED <<recorded, startStep, slotIn, screen>>
    BY <2>1 DEF DeleteRecording
  <2>4. SessionInv'
    BY <1>2, <2>2, <2>3
  <2>5. MarkersOwned'
    BY <2>2, <2>3 DEF MarkersOwned
  <2>6. QED
    BY <2>4, <2>5
<1>6. CASE \E n \in Marks : AddStores(n)
  <2>1. PICK n \in Marks : AddStores(n)
    BY <1>6
  <2>2. UNCHANGED <<recorded, startStep, slotIn, screen, kept>>
    BY <2>1 DEF AddStores
  <2>3. CASE adding[n].of \notin kept
    <3>1. table' = table
      BY <2>1, <2>3 DEF AddStores
    <3>2. QED
      BY <1>2, <1>3, <2>2, <3>1
  <2>4. CASE adding[n].of \in kept
    <3>1. /\ lastMark' \in Marks /\ table'[lastMark'].of = adding[n].of
          /\ \A m \in Marks \ {lastMark'} : table'[m] = table[m]
      BY <2>1, <2>4, AddStored
    <3>2. adding[n].of \in 1..recorded
      BY <1>1, <2>4
    <3>3. adding[n].of <= recorded
      BY <1>1, <3>2
    <3>4. QED
      BY <1>1, <2>2, <2>4, <3>1, <3>3 DEF SessionInv, MarkersOwned
  <2>5. QED
    BY <2>3, <2>4
<1>7. CASE \E n \in Edits : EditLands(n)
  <2>1. PICK n \in Edits : EditLands(n)
    BY <1>7
  <2>2. \A m \in Marks : table'[m].of \in {table[m].of, NoRecording}
    BY <2>1, EditLanded
  <2>3. UNCHANGED <<recorded, startStep, slotIn, screen, kept>>
    BY <2>1 DEF EditLands
  <2>4. QED
    BY <1>2, <1>3, <2>2, <2>3
<1>8. CASE \/ \E s \in Recordings : OpenHistory(s)
           \/ \E n \in Marks : ClickMarker(n) \/ AddPicks(n) \/ AddReturns(n)
           \/ \E m \in Marks : EditLive(m) \/ EditHistory(m)
           \/ \E n \in Edits : HistoryRefetches(n)
           \/ UNCHANGED markVars
  <2>1. UNCHANGED <<recorded, startStep, slotIn, screen, kept, table>>
    BY <1>8 DEF OpenHistory, ClickMarker, AddPicks, AddReturns, EditLive, EditHistory,
                HistoryRefetches, markVars
  <2>2. QED
    BY <1>2, <1>3, <2>1
<1>9. QED
  BY <1>4, <1>5, <1>6, <1>7, <1>8 DEF MarkNext

\* A start finds nothing under way, unless it muddles the lists.
LEMMA StartStep ==
    ASSUME MarkTypes, IdsInv, SessionInv, StartInv, HistTypes, [MarkNext]_markVars
    PROVE  StartInv'
<1> SUFFICES ASSUME ~muddled' PROVE StartInv'
  BY DEF StartInv
<1> USE MarkConstants
<1> USE DEF recording, lists, hist
<1>1. /\ adding \in [Marks -> AddRecords] /\ edit \in [Edits -> EditRecords]
      /\ startStep \in {"idle", "clicked", "installed"}
  BY DEF MarkTypes
<1>2. ASSUME ~muddled
      PROVE  /\ \A n \in Marks : adding[n].step \in {"picked", "stored"} =>
                   adding[n].of = recorded /\ recorded # NoRecording
             /\ startStep # "idle" => ~AddsPending /\ liveList = NoList
             /\ startStep # "idle" => \A n \in Edits : ~Asked(n, "live")
  BY <1>2 DEF StartInv
<1>3. CASE StartRecording
  BY <1>2, <1>3 DEF StartRecording, AtRest, AddsPending, InFlight, Asked, StartInv
<1>4. CASE StartInstalls
  BY <1>2, <1>4 DEF StartInstalls, AddsPending, Asked, StartInv
<1>5. CASE \/ StartReturns \/ SlotEmpties \/ ScreenLetsGo
           \/ \E s \in Recordings : DeleteRecording(s) \/ OpenHistory(s)
           \/ UNCHANGED markVars
  <2>1. ~muddled
    BY <1>5 DEF StartReturns, SlotEmpties, ScreenLetsGo, DeleteRecording, OpenHistory, markVars
  <2>2. UNCHANGED <<recorded, adding, liveList, edit>>
    BY <1>5 DEF StartReturns, SlotEmpties, ScreenLetsGo, DeleteRecording, OpenHistory, markVars
  <2>3. startStep' = startStep \/ startStep' = "idle"
    BY <1>5 DEF StartReturns, SlotEmpties, ScreenLetsGo, DeleteRecording, OpenHistory, markVars
  <2>4. QED
    BY <1>2, <2>1, <2>2, <2>3 DEF StartInv, AddsPending, Asked
<1>7. ASSUME NEW n \in Marks, startStep = "idle", ~muddled,
             \A k \in Marks \ {n} : adding'[k] = adding[k],
             adding'[n].step \in {"picked", "stored"} =>
                adding'[n].of = recorded /\ recorded # NoRecording,
             UNCHANGED <<recorded, startStep>>
      PROVE  StartInv'
  BY <1>2, <1>7 DEF StartInv
<1>8. ASSUME NEW n \in Marks, ~muddled, adding[n].step \in {"asked", "picked", "stored"}
      PROVE  startStep = "idle"
  BY <1>2, <1>8 DEF AddsPending
<1>9. CASE \E n \in Marks : ClickMarker(n)
  <2>1. PICK n \in Marks : ClickMarker(n)
    BY <1>9
  <2>2. /\ screen # NoRecording /\ adding[n].step = "none"
        /\ adding' = [adding EXCEPT ![n].step = "asked"]
        /\ UNCHANGED <<recorded, startStep, muddled>>
    BY <2>1 DEF ClickMarker
  <2>3. adding'[n].step = "asked" /\ \A k \in Marks \ {n} : adding'[k] = adding[k]
    <3>1. adding[n] \in [step : {"none", "asked", "picked", "done"}, of : 0..MaxRecordings]
      BY <1>1, <2>2, AddIs
    <3>2. QED
      BY <1>1, <2>2, <3>1
  <2>4. startStep = "idle"
    BY <2>2 DEF SessionInv
  <2>5. QED
    BY <1>7, <2>2, <2>3, <2>4
<1>10. CASE \E n \in Marks : AddPicks(n)
  <2>1. PICK n \in Marks : AddPicks(n)
    BY <1>10
  <2> DEFINE a == IF slotIn = NoRecording THEN Added ELSE [step |-> "picked", of |-> slotIn]
  <2>2. /\ adding[n].step = "asked" /\ adding' = [adding EXCEPT ![n] = a]
        /\ UNCHANGED <<recorded, startStep, muddled>>
    BY <2>1 DEF AddPicks
  <2>3. a.step \in {"picked", "stored"} => a.of = recorded /\ recorded # NoRecording
    BY DEF SessionInv
  <2> HIDE DEF a
  <2>4. adding'[n] = a /\ \A k \in Marks \ {n} : adding'[k] = adding[k]
    BY <1>1, <2>2
  <2>5. startStep = "idle"
    BY <1>8, <2>2
  <2>6. QED
    BY <1>7, <2>2, <2>3, <2>4, <2>5
<1>11. CASE \E n \in Marks : AddStores(n)
  <2>1. PICK n \in Marks : AddStores(n)
    BY <1>11
  <2>2. /\ UNCHANGED <<recorded, startStep, muddled>> /\ adding[n].step = "picked"
    BY <2>1 DEF AddStores
  <2>3. startStep = "idle" /\ adding[n].of = recorded /\ recorded # NoRecording
    BY <1>2, <1>8, <2>2
  <2>4. CASE adding[n].of \notin kept
    <3>1. adding' = [adding EXCEPT ![n] = Added]
      BY <2>1, <2>4 DEF AddStores
    <3>2. adding'[n] = Added /\ \A k \in Marks \ {n} : adding'[k] = adding[k]
      BY <1>1, <3>1
    <3>3. QED
      BY <1>7, <2>2, <2>3, <3>2
  <2>5. CASE adding[n].of \in kept
    <3>1. adding'[n].of = adding[n].of /\ \A k \in Marks \ {n} : adding'[k] = adding[k]
      BY <2>1, <2>5, AddStored
    <3>2. QED
      BY <1>7, <2>2, <2>3, <3>1
  <2>6. QED
    BY <2>4, <2>5
<1>12. CASE \E n \in Marks : AddReturns(n)
  <2>1. PICK n \in Marks : AddReturns(n)
    BY <1>12
  <2>2. /\ UNCHANGED <<recorded, startStep>> /\ adding[n].step = "stored" /\ ~muddled
        /\ adding' = [adding EXCEPT ![n] = Added]
    BY <2>1 DEF AddReturns
  <2>3. adding'[n] = Added /\ \A k \in Marks \ {n} : adding'[k] = adding[k]
    BY <1>1, <2>2
  <2>4. startStep = "idle"
    BY <1>8, <2>2
  <2>5. QED
    BY <1>7, <2>2, <2>3, <2>4
<1>13. CASE \E m \in Marks : EditLive(m)
  <2>1. PICK m \in Marks : EditLive(m)
    BY <1>13
  <2>2. UNCHANGED <<recorded, startStep, adding>> /\ liveList[m] # Absent /\ ~muddled
    BY <2>1 DEF EditLive
  <2>3. startStep = "idle"
    BY <1>2, <2>2, NoListIs
  <2>4. QED
    BY <1>2, <2>2, <2>3 DEF StartInv
<1>14. ASSUME ~muddled, UNCHANGED <<recorded, startStep, adding, liveList>>,
              \A n \in Edits : Asked(n, "live")' => Asked(n, "live")
       PROVE  StartInv'
  BY <1>2, <1>14 DEF StartInv, AddsPending
<1>15. CASE \E m \in Marks : EditHistory(m)
  <2> PICK m \in Marks : EditHistory(m)
    BY <1>15
  <2>1. PICK e \in EditsOf(m, "history", histOf) : Issue(e)
    BY DEF EditHistory
  <2>2. /\ UNCHANGED <<recorded, startStep, adding, liveList>> /\ ~muddled /\ "history" \in Tabs
        /\ histOf \in 0..MaxRecordings
    BY DEF EditHistory, Tabs, HistTypes, MarkTypes
  <2>3. /\ e.from = "history" /\ edits' \in Edits /\ edit'[edits'] = e
        /\ \A k \in Edits \ {edits'} : edit'[k] = edit[k]
    BY <2>1, <2>2, EditIssued
  <2>4. \A k \in Edits : Asked(k, "live")' => Asked(k, "live")
    BY <2>3 DEF Asked
  <2>5. QED
    BY <1>14, <2>2, <2>4
<1>16. CASE \E n \in Edits : EditLands(n)
  <2>1. PICK n \in Edits : EditLands(n)
    BY <1>16
  <2>2. /\ ~muddled /\ (edit'[n] = NoEdit \/ edit'[n].step = "landed")
        /\ \A k \in Edits \ {n} : edit'[k] = edit[k]
    BY <2>1, EditLanded
  <2>3. UNCHANGED <<recorded, startStep, adding, liveList>>
    BY <2>1 DEF EditLands
  <2>4. \A k \in Edits : Asked(k, "live")' => Asked(k, "live")
    BY <2>2 DEF Asked
  <2>5. QED
    BY <1>14, <2>2, <2>3, <2>4
<1>17. CASE \E n \in Edits : HistoryRefetches(n)
  <2>1. PICK n \in Edits : HistoryRefetches(n)
    BY <1>17
  <2>2. /\ edit' = [edit EXCEPT ![n] = NoEdit] /\ ~muddled
        /\ UNCHANGED <<recorded, startStep, adding, liveList>>
    BY <2>1 DEF HistoryRefetches
  <2>3. \A k \in Edits : Asked(k, "live")' => Asked(k, "live")
    BY <1>1, <2>2 DEF Asked
  <2>4. QED
    BY <1>14, <2>2, <2>3
<1>18. QED
  BY <1>3, <1>4, <1>5, <1>9, <1>10, <1>11, <1>12, <1>13, <1>15, <1>16, <1>17
     DEF MarkNext

\* Edits of one marker under way together are of different fields.
LEMMA EditsStep ==
    ASSUME MarkTypes, IdsInv, EditsInv, HistTypes, [MarkNext]_markVars
    PROVE  EditsInv'
<1> USE MarkConstants
<1> USE DEF recording, lists, hist
<1>1. /\ edit \in [Edits -> EditRecords] /\ recorded \in Nat /\ muddled \in BOOLEAN
      /\ recorded \in 0..MaxRecordings /\ histOf \in 0..recorded
  BY DEF MarkTypes, HistTypes
<1>2. /\ \A n \in Edits : edit[n].step = "landed" => edit[n].from = "history"
      /\ \A n \in Edits : InFlight(n) /\ edit[n].from = "history" => edit[n].of \in 1..recorded
      /\ ~muddled =>
          \A n \in Edits : InFlight(n) /\ edit[n].from = "history" => edit[n].of # recorded
      /\ ~muddled =>
          \A n, k \in Edits :
              Asked(n, "live") /\ Asked(k, "live") /\ edit[n].m = edit[k].m /\ n # k =>
                  edit[n].kind # edit[k].kind /\ edit[n].kind # "delete"
  BY DEF EditsInv
<1>3. ASSUME NEW n \in Edits, InFlight(n), muddled => muddled', recorded' = recorded,
             \/ edit'[n] = NoEdit
             \/ /\ edit'[n].from = "history" /\ edit'[n].of = edit[n].of
                /\ edit[n].from = "history",
             \A k \in Edits \ {n} : edit'[k] = edit[k]
      PROVE  EditsInv'
  <2>1. \A k \in Edits : edit'[k].step = "landed" => edit'[k].from = "history"
    BY <1>2, <1>3 DEF NoEdit
  <2>2. \A k \in Edits : edit'[k].step # "none" /\ edit'[k].from = "history" =>
           InFlight(k) /\ edit[k].from = "history" /\ edit'[k].of = edit[k].of
    BY <1>3 DEF InFlight, NoEdit
  <2>3. \A k \in Edits : Asked(k, "live")' => Asked(k, "live") /\ edit'[k] = edit[k]
    BY <1>3 DEF Asked, NoEdit
  <2>4. QED
    BY <1>2, <1>3, <2>1, <2>2, <2>3 DEF EditsInv, InFlight
<1>4. ASSUME NEW m \in Marks, NEW tab \in Tabs, NEW s \in 0..MaxRecordings,
             NEW e \in EditsOf(m, tab, s), Issue(e), muddled => muddled', recorded' = recorded,
             tab = "live" /\ Clash(e) => muddled',
             tab = "history" => s \in 1..recorded /\ (s = recorded => muddled')
      PROVE  EditsInv'
  <2>1. /\ e.step = "asked" /\ edits' \in Edits /\ edit'[edits'] = e
        /\ e.from = tab /\ e.of = s
        /\ \A k \in Edits \ {edits'} : edit'[k] = edit[k]
    BY <1>4, EditIssued
  <2>2. \A k \in Edits : edit'[k].step = "landed" => edit'[k].from = "history"
    BY <1>2, <2>1
  <2>3. ASSUME ~muddled', NEW k \in Edits \ {edits'}, Asked(k, "live")', edit'[k].m = e.m,
               e.from = "live"
        PROVE  edit'[k].kind # e.kind /\ edit'[k].kind # "delete" /\ e.kind # "delete"
    BY <1>4, <2>1, <2>3 DEF Clash, InFlight, Asked
  <2>4. ASSUME ~muddled', NEW n \in Edits, NEW k \in Edits, Asked(n, "live")',
               Asked(k, "live")', edit'[n].m = edit'[k].m, n # k
        PROVE  edit'[n].kind # edit'[k].kind /\ edit'[n].kind # "delete"
    <3>1. CASE n = edits'
      BY <2>1, <2>3, <2>4, <3>1 DEF Asked
    <3>2. CASE k = edits'
      BY <2>1, <2>3, <2>4, <3>2 DEF Asked
    <3>3. CASE n # edits' /\ k # edits'
      BY <1>2, <1>4, <2>1, <2>4, <3>3 DEF Asked
    <3>4. QED
      BY <3>1, <3>2, <3>3
  <2>5. \A k \in Edits : edit'[k].step # "none" /\ edit'[k].from = "history" =>
           /\ edit'[k].of \in 1..recorded
           /\ ~muddled' => edit'[k].of # recorded
    <3>1. SUFFICES ASSUME NEW k \in Edits, edit'[k].step # "none", edit'[k].from = "history"
                   PROVE  /\ edit'[k].of \in 1..recorded
                          /\ ~muddled' => edit'[k].of # recorded
      OBVIOUS
    <3>2. CASE k = edits'
      BY <1>4, <2>1, <3>1, <3>2
    <3>3. CASE k # edits'
      BY <1>2, <1>4, <2>1, <3>1, <3>3 DEF InFlight
    <3>4. QED
      BY <3>2, <3>3
  <2>6. QED
    BY <1>4, <2>2, <2>4, <2>5 DEF EditsInv, InFlight
<1>5. CASE \E m \in Marks : EditLive(m)
  <2> PICK m \in Marks : EditLive(m)
    BY <1>5
  <2>1. PICK e \in EditsOf(m, "live", NoRecording) :
           Issue(e) /\ muddled' = (muddled \/ Clash(e))
    BY DEF EditLive
  <2>2. recorded' = recorded /\ "live" \in Tabs /\ NoRecording \in 0..MaxRecordings
    BY DEF EditLive, Tabs
  <2>3. QED
    BY <1>4, <2>1, <2>2
<1>6. CASE \E m \in Marks : EditHistory(m)
  <2> PICK m \in Marks : EditHistory(m)
    BY <1>6
  <2>1. /\ \E e \in EditsOf(m, "history", histOf) : Issue(e)
        /\ muddled' = (muddled \/ histOf = recorded) /\ histOf # NoRecording
        /\ recorded' = recorded
    BY DEF EditHistory
  <2>2. /\ histOf \in 0..MaxRecordings /\ histOf \in 1..recorded
        /\ "history" \in Tabs
    BY <1>1, <2>1 DEF Tabs
  <2>3. QED
    BY <1>4, <2>1, <2>2
<1>7. CASE \E n \in Edits : EditLands(n)
  <2>1. PICK n \in Edits : EditLands(n)
    BY <1>7
  <2>2. edit[n].from \in Tabs /\ InFlight(n) /\ (muddled => muddled') /\ recorded' = recorded
    BY <1>1, <2>1, EditIs DEF EditLands, InFlight
  <2>3. /\ edit[n].from = "live" => edit'[n] = NoEdit
        /\ edit'[n] = NoEdit \/ (edit'[n].from = edit[n].from /\ edit'[n].of = edit[n].of)
        /\ \A k \in Edits \ {n} : edit'[k] = edit[k]
    BY <2>1, EditLanded
  <2>4. \/ edit'[n] = NoEdit
        \/ /\ edit'[n].from = "history" /\ edit'[n].of = edit[n].of
           /\ edit[n].from = "history"
    BY <2>2, <2>3 DEF Tabs
  <2>5. QED
    BY <1>3, <2>2, <2>3, <2>4
<1>8. CASE \E n \in Edits : HistoryRefetches(n)
  <2>1. PICK n \in Edits : HistoryRefetches(n)
    BY <1>8
  <2>2. /\ InFlight(n) /\ edit' = [edit EXCEPT ![n] = NoEdit] /\ muddled' = muddled
        /\ recorded' = recorded
    BY <2>1 DEF HistoryRefetches, InFlight
  <2>3. edit'[n] = NoEdit /\ \A k \in Edits \ {n} : edit'[k] = edit[k]
    BY <1>1, <2>2
  <2>4. QED
    BY <1>3, <2>2, <2>3
<1>9. CASE StartInstalls
  <2>1. UNCHANGED <<edit, muddled>> /\ recorded' = recorded + 1
    BY <1>9 DEF StartInstalls
  <2>2. \A k \in 1..recorded : k \in 1..recorded' /\ k # recorded'
    BY <1>1, <2>1
  <2>3. QED
    BY <1>2, <2>1, <2>2 DEF EditsInv, InFlight, Asked
<1>10. CASE \/ StartRecording \/ StartReturns \/ SlotEmpties \/ ScreenLetsGo
            \/ \E s \in Recordings : DeleteRecording(s) \/ OpenHistory(s)
            \/ \E n \in Marks : ClickMarker(n) \/ AddPicks(n) \/ AddStores(n) \/ AddReturns(n)
            \/ UNCHANGED markVars
  <2>1. edit' = edit /\ recorded' = recorded
    BY <1>10 DEF StartRecording, StartReturns, SlotEmpties, ScreenLetsGo, DeleteRecording,
         OpenHistory, ClickMarker, AddPicks, AddStores, AddReturns, markVars
  <2>2. muddled => muddled'
    <3>1. CASE StartRecording \/ StartReturns \/ SlotEmpties \/ ScreenLetsGo
      BY <3>1 DEF StartRecording, StartReturns, SlotEmpties, ScreenLetsGo
    <3>2. CASE \E s \in Recordings : DeleteRecording(s) \/ OpenHistory(s)
      BY <3>2 DEF DeleteRecording, OpenHistory
    <3>3. CASE \E n \in Marks : ClickMarker(n) \/ AddPicks(n) \/ AddStores(n) \/ AddReturns(n)
      BY <3>3 DEF ClickMarker, AddPicks, AddStores, AddReturns
    <3>4. QED
      BY <1>10, <3>1, <3>2, <3>3 DEF markVars
  <2>3. QED
    BY <1>2, <2>1, <2>2 DEF EditsInv, InFlight, Asked
<1>11. QED
  BY <1>5, <1>6, <1>7, <1>8, <1>9, <1>10 DEF MarkNext

\* What muddles the lists is never undone.
LEMMA MuddleStays ==
    ASSUME [MarkNext]_markVars, ~muddled'
    PROVE  ~muddled
<1> USE DEF recording, lists, hist
<1>1. CASE StartRecording \/ StartInstalls \/ StartReturns \/ SlotEmpties \/ ScreenLetsGo
  BY <1>1 DEF StartRecording, StartInstalls, StartReturns, SlotEmpties, ScreenLetsGo
<1>2. CASE \E s \in Recordings : DeleteRecording(s) \/ OpenHistory(s)
  BY <1>2 DEF DeleteRecording, OpenHistory
<1>3. CASE \E n \in Marks : ClickMarker(n) \/ AddPicks(n) \/ AddStores(n) \/ AddReturns(n)
  BY <1>3 DEF ClickMarker, AddPicks, AddStores, AddReturns
<1>4. CASE \E m \in Marks : EditLive(m) \/ EditHistory(m)
  BY <1>4 DEF EditLive, EditHistory
<1>5. CASE \E n \in Edits : EditLands(n) \/ HistoryRefetches(n)
  BY <1>5 DEF EditLands, HistoryRefetches
<1>6. CASE UNCHANGED markVars
  BY <1>6 DEF markVars
<1>7. QED
  BY <1>1, <1>2, <1>3, <1>4, <1>5, <1>6 DEF MarkNext

\* Nothing the Live tab's list depends on changes.
LEMMA LiveListFrame ==
    ASSUME LiveStored, LiveAsked, LiveShown, LiveKept, UNCHANGED <<recorded, liveList>>,
           \A n \in Marks : n \in Stored' <=> n \in Stored,
           \A n \in Stored : adding'[n] = adding[n],
           \A k \in Edits : Asked(k, "live")' <=> Asked(k, "live"),
           \A k \in Edits : Asked(k, "live") => edit'[k] = edit[k],
           \A k \in Edits : InFlight(k)' => InFlight(k) /\ edit'[k].m = edit[k].m,
           \A m \in Marks : table[m].of = recorded => table'[m] = table[m],
           \A m \in Marks : table'[m].of = recorded => table'[m] \in {Absent, table[m]},
           edit \in [Edits -> EditRecords], adding \in [Marks -> AddRecords],
           liveList \in [Marks -> MarkSlots]
    PROVE  LiveStored' /\ LiveAsked' /\ LiveShown' /\ LiveKept'
<1>1. Stored' = Stored /\ Stored \subseteq Marks
  BY DEF Stored
<1>2. LiveStored'
  <2>1. SUFFICES ASSUME NEW n \in Stored
                 PROVE  /\ table'[adding'[n].id] = adding'[n].mark
                        /\ adding'[n].mark.of = recorded'
                        /\ liveList'[adding'[n].id] = Absent
                        /\ \A k \in Edits : InFlight(k)' => edit'[k].m # adding'[n].id
    BY <1>1 DEF LiveStored
  <2>2. adding'[n] = adding[n] /\ adding[n].id \in Marks
    BY <1>1, AddIs DEF Stored
  <2>3. /\ table[adding[n].id] = adding[n].mark /\ adding[n].mark.of = recorded
        /\ liveList[adding[n].id] = Absent
        /\ \A k \in Edits : InFlight(k) => edit[k].m # adding[n].id
    BY DEF LiveStored
  <2>4. QED
    BY <2>2, <2>3
<1>3. LiveAsked'
  <2>1. SUFFICES ASSUME NEW n \in Edits, Asked(n, "live") PROVE ShowsEdit(edit[n])'
    BY DEF LiveAsked
  <2>2. ShowsEdit(edit[n]) /\ edit'[n] = edit[n] /\ edit[n].m \in Marks
    BY <2>1, EditIs DEF LiveAsked, Asked
  <2>3. QED
    BY <2>2 DEF ShowsEdit
<1>4. \A m \in Marks : \A kind : Coming(m, kind) => Coming(m, kind)'
  BY DEF Coming
<1>5. LiveShown'
  BY <1>4 DEF LiveShown
<1>6. LiveKept'
  <2>1. SUFFICES ASSUME NEW m \in Marks, table'[m].of = recorded, table'[m] # Absent,
                        liveList[m] = Absent
                 PROVE  (\E n \in Stored : adding'[n].id = m) \/ Coming(m, "delete")'
    BY <1>1 DEF LiveKept
  <2>2. (\E n \in Stored : adding[n].id = m) \/ Coming(m, "delete")
    BY <2>1 DEF LiveKept
  <2>3. QED
    BY <1>4, <2>2
<1>7. QED
  BY <1>2, <1>3, <1>5, <1>6

\* The marker that add_marker stores has an id nobody has seen.
LEMMA LiveListAdded ==
    ASSUME MarkInv, LiveStored, LiveAsked, LiveShown, LiveKept, ~muddled,
           NEW n \in Marks, AddStores(n), adding[n].of \in kept
    PROVE  LiveStored' /\ LiveAsked' /\ LiveShown' /\ LiveKept'
<1> USE MarkConstants
<1> USE DEF recording, lists, hist
<1>1. /\ adding \in [Marks -> AddRecords] /\ edit \in [Edits -> EditRecords]
      /\ table \in [Marks -> MarkSlots] /\ liveList \in [Marks -> MarkSlots]
      /\ MarkTypes /\ IdsInv
  BY DEF MarkInv, MarkTypes
<1> DEFINE new == lastMark'
<1>2. /\ new = lastMark + 1 /\ new \in Marks /\ adding[n].step = "picked"
      /\ adding' \in [Marks -> AddRecords] /\ table' \in [Marks -> MarkSlots]
      /\ adding'[n].step = "stored" /\ adding'[n].of = adding[n].of
      /\ adding'[n].id = new /\ adding'[n].mark = table'[new]
      /\ table'[new] \in MarkRecords /\ table'[new].of = adding[n].of
      /\ \A k \in Marks \ {n} : adding'[k] = adding[k]
      /\ \A m \in Marks \ {new} : table'[m] = table[m]
  BY <1>1, AddStored
<1>3. UNCHANGED <<recorded, liveList, edit>>
  BY DEF AddStores
<1>4. adding[n].of = recorded
  BY <1>2 DEF MarkInv, StartInv
<1>5. lastMark \in Nat /\ new > lastMark /\ ~(new <= lastMark)
  <2>1. lastMark \in Nat
    BY <1>1 DEF IdsInv
  <2>2. QED
    BY <1>2, <2>1
<1>6. /\ table[new] = Absent /\ liveList[new] = Absent
      /\ \A k \in Edits : InFlight(k) => edit[k].m # new
      /\ \A k \in Stored : adding[k].id # new
  BY <1>1, <1>2, <1>5 DEF IdsInv
<1> HIDE DEF new
<1>7. n \in Stored' /\ \A k \in Marks \ {n} : k \in Stored' <=> k \in Stored
  BY <1>2 DEF Stored
<1>8. Stored' \subseteq Marks /\ Stored \subseteq Marks
  BY DEF Stored
<1>9. LiveStored'
  <2>1. SUFFICES ASSUME NEW k \in Stored'
                 PROVE  /\ table'[adding'[k].id] = adding'[k].mark
                        /\ adding'[k].mark.of = recorded'
                        /\ liveList'[adding'[k].id] = Absent
                        /\ \A j \in Edits : InFlight(j)' => edit'[j].m # adding'[k].id
    BY DEF LiveStored
  <2>2. CASE k = n
    BY <1>2, <1>3, <1>4, <1>6, <2>2 DEF InFlight
  <2>3. CASE k # n
    <3>1. k \in Stored /\ adding'[k] = adding[k] /\ adding[k].id \in Marks /\ adding[k].id # new
      BY <1>1, <1>2, <1>6, <1>7, <1>8, <2>3, AddIs DEF Stored
    <3>2. /\ table[adding[k].id] = adding[k].mark /\ adding[k].mark.of = recorded
          /\ liveList[adding[k].id] = Absent
          /\ \A j \in Edits : InFlight(j) => edit[j].m # adding[k].id
      BY <3>1 DEF LiveStored
    <3>3. QED
      BY <1>2, <1>3, <3>1, <3>2 DEF InFlight
  <2>4. QED
    BY <2>2, <2>3
<1>10. LiveAsked'
  <2>1. SUFFICES ASSUME NEW k \in Edits, Asked(k, "live") PROVE ShowsEdit(edit[k])'
    BY <1>3 DEF LiveAsked, Asked
  <2>2. InFlight(k) /\ edit[k].m \in Marks
    BY <1>1, <2>1, EditIs DEF Asked, InFlight
  <2>3. edit[k].m # new /\ ShowsEdit(edit[k])
    BY <1>6, <2>1, <2>2 DEF LiveAsked
  <2>4. table'[edit[k].m] = table[edit[k].m]
    BY <1>2, <2>2, <2>3
  <2>5. QED
    BY <1>3, <2>3, <2>4 DEF ShowsEdit
<1>11. \A m \in Marks : \A kind : Coming(m, kind)' <=> Coming(m, kind)
  BY <1>3 DEF Coming, Asked
<1>12. LiveShown'
  <2>1. SUFFICES ASSUME NEW m \in Marks, liveList[m] # Absent
                 PROVE  /\ liveList[m].of = recorded /\ table'[m].of = recorded
                        /\ liveList[m].at = table'[m].at \/ Coming(m, "move")'
                        /\ liveList[m].label = table'[m].label \/ Coming(m, "label")'
    BY <1>3 DEF LiveShown
  <2>2. table'[m] = table[m]
    BY <1>2, <1>6, <2>1
  <2>3. QED
    BY <1>11, <2>1, <2>2 DEF LiveShown
<1>13. LiveKept'
  <2>1. SUFFICES ASSUME NEW m \in Marks, table'[m].of = recorded
                 PROVE  \/ table'[m] = Absent \/ liveList[m] # Absent
                        \/ \E k \in Stored' : adding'[k].id = m
                        \/ Coming(m, "delete")'
    BY <1>3 DEF LiveKept
  <2>2. CASE m = new
    BY <1>2, <1>7, <2>2
  <2>3. CASE m # new
    <3>1. table'[m] = table[m]
      BY <1>2, <2>3
    <3>2. \A k \in Stored : k \in Stored' /\ adding'[k] = adding[k]
      BY <1>2, <1>7, <1>8 DEF Stored
    <3>3. QED
      BY <1>11, <2>1, <3>1, <3>2 DEF LiveKept
  <2>4. QED
    BY <2>2, <2>3
<1>14. QED
  BY <1>9, <1>10, <1>12, <1>13

\* The marker that comes back is put on the list.
LEMMA LiveListReturned ==
    ASSUME MarkInv, LiveStored, LiveAsked, LiveShown, LiveKept, ~muddled,
           NEW n \in Marks, AddReturns(n)
    PROVE  LiveStored' /\ LiveAsked' /\ LiveShown' /\ LiveKept'
<1> USE MarkConstants
<1> USE DEF recording, lists, hist
<1>1. /\ adding \in [Marks -> AddRecords] /\ edit \in [Edits -> EditRecords]
      /\ table \in [Marks -> MarkSlots] /\ liveList \in [Marks -> MarkSlots]
      /\ IdsInv
  BY DEF MarkInv, MarkTypes
<1> DEFINE new == adding[n].id
<1>2. /\ n \in Stored /\ new \in Marks /\ adding[n].mark \in MarkRecords
      /\ adding' = [adding EXCEPT ![n] = Added]
      /\ liveList' = [liveList EXCEPT ![new] = adding[n].mark]
      /\ UNCHANGED <<recorded, table, edit>>
  BY <1>1, AddIs DEF AddReturns, Stored
<1>3. /\ table[new] = adding[n].mark /\ adding[n].mark.of = recorded
      /\ \A j \in Edits : InFlight(j) => edit[j].m # new
      /\ \A k \in Stored \ {n} : adding[k].id # new
  BY <1>1, <1>2 DEF LiveStored, IdsInv
<1>4. adding[n].mark # Absent
  BY <1>2, SlotIs DEF MarkRecords, MarkSlots, Recordings
<1> HIDE DEF new
<1>5. /\ liveList'[new] = adding[n].mark /\ adding'[n] = Added
      /\ \A m \in Marks \ {new} : liveList'[m] = liveList[m]
      /\ \A k \in Marks \ {n} : adding'[k] = adding[k]
  BY <1>1, <1>2
<1>6. Stored' = Stored \ {n} /\ Stored \subseteq Marks
  BY <1>5 DEF Stored
<1>7. \A k \in Stored \ {n} : adding'[k] = adding[k] /\ adding[k].id \in Marks
  BY <1>1, <1>5, <1>6, AddIs DEF Stored
<1>8. LiveStored'
  <2>1. SUFFICES ASSUME NEW k \in Stored \ {n}
                 PROVE  /\ table'[adding'[k].id] = adding'[k].mark
                        /\ adding'[k].mark.of = recorded'
                        /\ liveList'[adding'[k].id] = Absent
                        /\ \A j \in Edits : InFlight(j)' => edit'[j].m # adding'[k].id
    BY <1>6 DEF LiveStored
  <2>2. /\ table[adding[k].id] = adding[k].mark /\ adding[k].mark.of = recorded
        /\ liveList[adding[k].id] = Absent
        /\ \A j \in Edits : InFlight(j) => edit[j].m # adding[k].id
    BY DEF LiveStored
  <2>3. QED
    BY <1>2, <1>3, <1>5, <1>7, <2>2 DEF InFlight
<1>9. LiveAsked'
  <2>1. SUFFICES ASSUME NEW k \in Edits, Asked(k, "live") PROVE ShowsEdit(edit[k])'
    BY <1>2 DEF LiveAsked, Asked
  <2>2. InFlight(k) /\ edit[k].m \in Marks
    BY <1>1, <2>1, EditIs DEF Asked, InFlight
  <2>3. edit[k].m # new /\ ShowsEdit(edit[k])
    BY <1>3, <2>1, <2>2 DEF LiveAsked
  <2>4. liveList'[edit[k].m] = liveList[edit[k].m]
    BY <1>5, <2>2, <2>3
  <2>5. QED
    BY <1>2, <2>3, <2>4 DEF ShowsEdit
<1>10. \A m \in Marks : \A kind : Coming(m, kind)' <=> Coming(m, kind)
  BY <1>2 DEF Coming, Asked
<1>11. LiveShown'
  <2>1. SUFFICES ASSUME NEW m \in Marks, liveList'[m] # Absent
                 PROVE  /\ liveList'[m].of = recorded /\ table[m].of = recorded
                        /\ liveList'[m].at = table[m].at \/ Coming(m, "move")'
                        /\ liveList'[m].label = table[m].label \/ Coming(m, "label")'
    BY <1>2 DEF LiveShown
  <2>2. CASE m = new
    BY <1>3, <1>5, <2>2
  <2>3. CASE m # new
    BY <1>5, <1>10, <2>1, <2>3 DEF LiveShown
  <2>4. QED
    BY <2>2, <2>3
<1>12. LiveKept'
  <2>1. SUFFICES ASSUME NEW m \in Marks, table[m].of = recorded
                 PROVE  \/ table[m] = Absent \/ liveList'[m] # Absent
                        \/ \E k \in Stored' : adding'[k].id = m
                        \/ Coming(m, "delete")'
    BY <1>2 DEF LiveKept
  <2>2. CASE m = new
    BY <1>4, <1>5, <2>2
  <2>3. CASE m # new
    <3>1. \/ table[m] = Absent \/ liveList[m] # Absent
          \/ \E k \in Stored : adding[k].id = m
          \/ Coming(m, "delete")
      BY <2>1 DEF LiveKept
    <3>2. (\E k \in Stored : adding[k].id = m) => \E k \in Stored' : adding'[k].id = m
      <4>1. \A k \in Stored : adding[k].id = m => k # n
        BY <2>3 DEF new
      <4>2. QED
        BY <1>6, <1>7, <4>1
    <3>3. QED
      BY <1>5, <1>10, <2>3, <3>1, <3>2
  <2>4. QED
    BY <2>2, <2>3
<1>13. QED
  BY <1>8, <1>9, <1>11, <1>12

\* Who edits a marker on the Live tab sees the effect at once.
LEMMA LiveListEdited ==
    ASSUME MarkInv, LiveStored, LiveAsked, LiveShown, LiveKept, ~muddled',
           NEW m \in Marks, EditLive(m)
    PROVE  LiveStored' /\ LiveAsked' /\ LiveShown' /\ LiveKept'
<1> USE MarkConstants
<1> USE DEF recording, lists, hist
<1>1. /\ adding \in [Marks -> AddRecords] /\ edit \in [Edits -> EditRecords]
      /\ table \in [Marks -> MarkSlots] /\ liveList \in [Marks -> MarkSlots]
      /\ MarkTypes /\ IdsInv
  BY DEF MarkInv, MarkTypes
<1>2. PICK e \in EditsOf(m, "live", NoRecording) :
         /\ Issue(e) /\ liveList' = Changed(liveList, e)
         /\ muddled' = (muddled \/ Clash(e))
  BY DEF EditLive
<1> DEFINE new == edits'
<1>3. /\ e \in EditRecords /\ e.step = "asked" /\ e.m = m /\ e.from = "live"
      /\ new \in Edits /\ edit[new] = NoEdit /\ edit'[new] = e
      /\ \A k \in Edits \ {new} : edit'[k] = edit[k]
  <2>1. "live" \in Tabs /\ NoRecording \in 0..MaxRecordings
    BY DEF Tabs
  <2>2. QED
    BY <1>1, <1>2, <2>1, EditIssued
<1>4. /\ UNCHANGED <<recorded, table, adding>> /\ liveList[m] # Absent /\ ~muddled /\ ~Clash(e)
  BY <1>2 DEF EditLive
<1>5. /\ e.kind \in {"move", "label", "delete"}
      /\ \A k \in Marks : k # m => liveList'[k] = liveList[k]
      /\ e.kind = "delete" => liveList'[m] = Absent
      /\ e.kind # "delete" =>
            /\ liveList'[m] # Absent /\ liveList'[m].of = liveList[m].of
            /\ e.kind = "move" => liveList'[m].at = e.to /\ liveList'[m].label = liveList[m].label
            /\ e.kind = "label" => liveList'[m].label = e.to /\ liveList'[m].at = liveList[m].at
  <2>1. e.kind \in {"move", "label", "delete"}
    BY <1>3, EditIs
  <2>2. /\ \A k \in Marks : k # e.m => Changed(liveList, e)[k] = liveList[k]
        /\ e.kind = "delete" => Changed(liveList, e)[e.m] = Absent
        /\ liveList[e.m] # Absent /\ e.kind # "delete" =>
              /\ Changed(liveList, e)[e.m] # Absent
              /\ Changed(liveList, e)[e.m].of = liveList[e.m].of
              /\ e.kind = "move" => /\ Changed(liveList, e)[e.m].at = e.to
                                    /\ Changed(liveList, e)[e.m].label = liveList[e.m].label
              /\ e.kind = "label" => /\ Changed(liveList, e)[e.m].label = e.to
                                     /\ Changed(liveList, e)[e.m].at = liveList[e.m].at
    BY <1>1, <1>3, ChangedIs
  <2>3. QED
    BY <1>2, <1>3, <1>4, <2>1, <2>2
<1>6. /\ liveList[m].of = recorded /\ table[m].of = recorded
      /\ liveList[m].at = table[m].at \/ Coming(m, "move")
      /\ liveList[m].label = table[m].label \/ Coming(m, "label")
  BY <1>4 DEF LiveShown
<1>7. recorded # NoRecording
  BY <1>1, <1>4, <1>6, SlotIs
<1>8. \A k \in Edits : InFlight(k) /\ edit[k].m = m => edit[k].kind # e.kind
                                     /\ edit[k].kind # "delete" /\ e.kind # "delete"
  BY <1>3, <1>4 DEF Clash
<1> HIDE DEF new
<1>9. \A k \in Edits : k # new => edit'[k] = edit[k]
  BY <1>3
<1>10. LiveStored'
  <2>1. SUFFICES ASSUME NEW k \in Stored
                 PROVE  /\ table'[adding'[k].id] = adding'[k].mark
                        /\ adding'[k].mark.of = recorded'
                        /\ liveList'[adding'[k].id] = Absent
                        /\ \A j \in Edits : InFlight(j)' => edit'[j].m # adding'[k].id
    BY <1>4 DEF LiveStored, Stored
  <2>2. /\ table[adding[k].id] = adding[k].mark /\ adding[k].mark.of = recorded
        /\ liveList[adding[k].id] = Absent
        /\ \A j \in Edits : InFlight(j) => edit[j].m # adding[k].id
    BY DEF LiveStored
  <2>3. adding[k].id # m /\ adding[k].id \in Marks
    BY <1>1, <1>4, <2>2, AddIs DEF Stored
  <2>4. \A j \in Edits : InFlight(j)' => edit'[j].m # adding[k].id
    BY <1>3, <1>9, <2>2, <2>3 DEF InFlight
  <2>5. QED
    BY <1>4, <1>5, <2>2, <2>3, <2>4
<1>11. LiveAsked'
  <2>1. SUFFICES ASSUME NEW k \in Edits, Asked(k, "live")' PROVE ShowsEdit(edit[k])'
    BY DEF LiveAsked
  <2>2. CASE k = new
    BY <1>3, <1>4, <1>5, <1>6, <1>7, <2>2 DEF ShowsEdit
  <2>3. CASE k # new
    <3>1. edit'[k] = edit[k] /\ Asked(k, "live") /\ ShowsEdit(edit[k]) /\ InFlight(k)
          /\ edit[k].m \in Marks /\ edit[k].kind \in {"move", "label", "delete"}
      BY <1>1, <1>9, <2>1, <2>3, EditIs DEF Asked, LiveAsked, InFlight
    <3>2. CASE edit[k].m = m
      <4>1. edit[k].kind # e.kind /\ edit[k].kind # "delete" /\ e.kind # "delete"
        BY <1>8, <3>1, <3>2
      <4>2. edit[k].kind = "move" => liveList[m].at = edit[k].to /\ e.kind = "label"
        BY <1>5, <3>1, <3>2, <4>1 DEF ShowsEdit
      <4>3. edit[k].kind = "label" => liveList[m].label = edit[k].to /\ e.kind = "move"
        BY <1>5, <3>1, <3>2, <4>1 DEF ShowsEdit
      <4>4. QED
        BY <1>4, <1>5, <1>6, <1>7, <3>1, <3>2, <4>1, <4>2, <4>3 DEF ShowsEdit
    <3>3. CASE edit[k].m # m
      BY <1>4, <1>5, <3>1, <3>3 DEF ShowsEdit
    <3>4. QED
      BY <3>2, <3>3
  <2>4. QED
    BY <2>2, <2>3
<1>12. \A j \in Marks : \A kind : Coming(j, kind) => Coming(j, kind)'
  BY <1>3, <1>9 DEF Coming, Asked, NoEdit
<1>13. Coming(m, e.kind)'
  BY <1>3 DEF Coming, Asked
<1>14. LiveShown'
  <2>1. SUFFICES ASSUME NEW j \in Marks, liveList'[j] # Absent
                 PROVE  /\ liveList'[j].of = recorded /\ table[j].of = recorded
                        /\ liveList'[j].at = table[j].at \/ Coming(j, "move")'
                        /\ liveList'[j].label = table[j].label \/ Coming(j, "label")'
    BY <1>4 DEF LiveShown
  <2>2. CASE j = m
    <3>1. e.kind \in {"move", "label"}
      BY <1>5, <2>1, <2>2
    <3>2. CASE e.kind = "move"
      BY <1>5, <1>6, <1>12, <1>13, <2>2, <3>2
    <3>3. CASE e.kind = "label"
      BY <1>5, <1>6, <1>12, <1>13, <2>2, <3>3
    <3>4. QED
      BY <3>1, <3>2, <3>3
  <2>3. CASE j # m
    BY <1>5, <1>12, <2>1, <2>3 DEF LiveShown
  <2>4. QED
    BY <2>2, <2>3
<1>15. LiveKept'
  <2>1. SUFFICES ASSUME NEW j \in Marks, table[j].of = recorded
                 PROVE  \/ table[j] = Absent \/ liveList'[j] # Absent
                        \/ \E k \in Stored : adding[k].id = j
                        \/ Coming(j, "delete")'
    BY <1>4 DEF LiveKept, Stored
  <2>2. CASE j = m
    BY <1>5, <1>13, <2>2
  <2>3. CASE j # m
    BY <1>5, <1>12, <2>1, <2>3 DEF LiveKept
  <2>4. QED
    BY <2>2, <2>3
<1>16. QED
  BY <1>10, <1>11, <1>14, <1>15

\* An edit from History of a marker of another session.
LEMMA LiveListSpared ==
    ASSUME MarkInv, LiveStored, LiveAsked, LiveShown, LiveKept, startStep # "clicked",
           ~muddled', NEW m \in Marks, EditHistory(m)
    PROVE  LiveStored' /\ LiveAsked' /\ LiveShown' /\ LiveKept'
<1> USE MarkConstants
<1> USE DEF recording, lists, hist
<1>1. /\ adding \in [Marks -> AddRecords] /\ edit \in [Edits -> EditRecords]
      /\ table \in [Marks -> MarkSlots] /\ liveList \in [Marks -> MarkSlots]
      /\ MarkTypes /\ IdsInv
  BY DEF MarkInv, MarkTypes
<1>2. PICK e \in EditsOf(m, "history", histOf) : Issue(e)
  BY DEF EditHistory
<1> DEFINE new == edits'
<1>3. /\ e \in EditRecords /\ e.step = "asked" /\ e.m = m /\ e.from = "history"
      /\ new \in Edits /\ edit[new] = NoEdit /\ edit'[new] = e
      /\ \A k \in Edits \ {new} : edit'[k] = edit[k]
  <2>1. "history" \in Tabs /\ histOf \in 0..MaxRecordings
    BY DEF Tabs, MarkInv, MarkTypes, HistListInv, HistTypes
  <2>2. QED
    BY <1>1, <1>2, <2>1, EditIssued
<1>4. /\ UNCHANGED <<recorded, table, adding, liveList>>
      /\ histOf # NoRecording /\ histList[histOf][m] # Absent
      /\ histOf # recorded
  BY DEF EditHistory
<1> HIDE DEF new
<1>5. \A k \in Edits : k # new => edit'[k] = edit[k]
  BY <1>3
<1>6. table[m].of \in {histOf, NoRecording}
  <2>1. histOf \in Recordings
    BY <1>4 DEF MarkInv, MarkTypes, HistListInv, HistTypes
  <2>2. QED
    BY <1>4, <2>1 DEF MarkInv, HistListInv, HistShown
<1>7. ASSUME NEW n \in Stored, adding[n].id = m
      PROVE  FALSE
  <2>1. adding[n].mark \in MarkRecords
    BY <1>1, AddIs DEF Stored
  <2>2. table[m] = adding[n].mark /\ adding[n].mark.of = recorded
    BY <1>7 DEF LiveStored
  <2>3. recorded \in Recordings
    BY <2>1, <2>2 DEF MarkRecords
  <2>4. QED
    BY <1>4, <1>6, <2>2, <2>3
<1>8. LiveStored'
  <2>1. SUFFICES ASSUME NEW k \in Stored
                 PROVE  /\ table'[adding'[k].id] = adding'[k].mark
                        /\ adding'[k].mark.of = recorded'
                        /\ liveList'[adding'[k].id] = Absent
                        /\ \A j \in Edits : InFlight(j)' => edit'[j].m # adding'[k].id
    BY <1>4 DEF LiveStored, Stored
  <2>2. /\ table[adding[k].id] = adding[k].mark /\ adding[k].mark.of = recorded
        /\ liveList[adding[k].id] = Absent
        /\ \A j \in Edits : InFlight(j) => edit[j].m # adding[k].id
    BY DEF LiveStored
  <2>3. adding[k].id # m
    BY <1>7
  <2>4. \A j \in Edits : InFlight(j)' => edit'[j].m # adding[k].id
    BY <1>3, <1>5, <2>2, <2>3 DEF InFlight
  <2>5. QED
    BY <1>4, <2>2, <2>4
<1>9. \A k \in Edits : Asked(k, "live")' => k # new
  BY <1>3 DEF Asked
<1>10. LiveAsked'
  BY <1>4, <1>5, <1>9 DEF LiveAsked, Asked, ShowsEdit
<1>11. \A j \in Marks : \A kind : Coming(j, kind) => Coming(j, kind)'
  BY <1>3, <1>5 DEF Coming, Asked, NoEdit
<1>12. LiveShown' /\ LiveKept'
  BY <1>4, <1>11 DEF LiveShown, LiveKept, Stored
<1>13. QED
  BY <1>8, <1>10, <1>12

\* The table catches up with the list.
LEMMA LiveListLanded ==
    ASSUME MarkInv, LiveStored, LiveAsked, LiveShown, LiveKept, startStep # "clicked",
           ~muddled', NEW n \in Edits, EditLands(n)
    PROVE  LiveStored' /\ LiveAsked' /\ LiveShown' /\ LiveKept'
<1> USE MarkConstants
<1> USE DEF recording, lists, hist
<1>1. /\ adding \in [Marks -> AddRecords] /\ edit \in [Edits -> EditRecords]
      /\ table \in [Marks -> MarkSlots] /\ liveList \in [Marks -> MarkSlots]
      /\ MarkTypes /\ IdsInv
  BY DEF MarkInv, MarkTypes
<1> DEFINE m == edit[n].m
<1>2. /\ edit[n] \in EditRecords /\ edit[n].step = "asked" /\ m \in Marks /\ InFlight(n)
      /\ table' \in [Marks -> MarkSlots]
      /\ \A j \in Marks : j # m => table'[j] = table[j]
      /\ \A j \in Marks : table[j] = Absent => table'[j] = Absent
      /\ \A j \in Marks : table'[j].of \in {table[j].of, NoRecording}
      /\ ~muddled /\ (edit[n].from = "live" => table' = Changed(table, edit[n]))
      /\ edit[n].from = "live" => edit'[n] = NoEdit
      /\ edit'[n] = NoEdit \/ (edit'[n].step = "landed" /\ edit'[n].m = m)
      /\ \A k \in Edits \ {n} : edit'[k] = edit[k]
  BY <1>1, EditLanded
<1>3. UNCHANGED <<recorded, adding, liveList>>
  BY DEF EditLands
<1>4. Stored' = Stored /\ Stored \subseteq Marks
  BY <1>3 DEF Stored
<1>5. \A k \in Edits : k # n => edit'[k] = edit[k]
  BY <1>2
<1>6. CASE edit[n].from # "live"
  <2>1. HistEdits
    BY DEF MarkInv, HistListInv
  <2>2. edit[n].from = "history"
    BY <1>2, <1>6, EditIs DEF Tabs
  <2>3. table[m].of \in {edit[n].of, NoRecording}
    BY <1>2, <2>1, <2>2 DEF HistEdits
  <2>4. edit[n].of # recorded
    BY <1>2, <2>2 DEF MarkInv, EditsInv
  <2>5. table[m].of = recorded => table[m] = Absent
    BY <1>1, <1>2, <2>3, <2>4, SlotIs
  <2>6. table'[m].of = recorded => table'[m] = Absent
    BY <1>2, <2>3, <2>4, <2>5, SlotIs
  <2>7. \A j \in Marks : table[j].of = recorded => table'[j] = table[j]
    BY <1>2, <2>5
  <2>8. \A j \in Marks : table'[j].of = recorded => table'[j] \in {Absent, table[j]}
    BY <1>2, <2>6
  <2>9. \A k \in Edits : Asked(k, "live")' <=> Asked(k, "live")
    BY <1>2, <1>5, <1>6 DEF Asked, NoEdit
  <2>10. \A k \in Edits : Asked(k, "live") => edit'[k] = edit[k]
    BY <1>5, <1>6 DEF Asked
  <2>11. \A k \in Edits : InFlight(k)' => InFlight(k) /\ edit'[k].m = edit[k].m
    BY <1>2, <1>5 DEF InFlight, NoEdit
  <2>12. /\ \A k \in Marks : k \in Stored' <=> k \in Stored
         /\ \A k \in Stored : adding'[k] = adding[k]
    BY <1>3, <1>4
  <2> HIDE DEF m
  <2>13. QED
    BY <1>1, <1>3, <2>7, <2>8, <2>9, <2>10, <2>11, <2>12, LiveListFrame
<1>7. CASE edit[n].from = "live"
  <2>1. /\ recorded # NoRecording /\ table[m].of = recorded
        /\ edit[n].kind = "delete" => liveList[m] = Absent
        /\ edit[n].kind # "delete" => liveList[m] # Absent
        /\ edit[n].kind = "move" => liveList[m].at = edit[n].to
        /\ edit[n].kind = "label" => liveList[m].label = edit[n].to
    BY <1>2, <1>7 DEF LiveAsked, Asked, ShowsEdit
  <2>2. table[m] # Absent
    BY <1>1, <1>2, <2>1, SlotIs
  <2>3. /\ edit[n].kind \in {"move", "label", "delete"}
        /\ edit[n].kind = "delete" => table'[m] = Absent
        /\ edit[n].kind # "delete" =>
              /\ table'[m] # Absent /\ table'[m].of = recorded
              /\ edit[n].kind = "move" => /\ table'[m].at = edit[n].to
                                          /\ table'[m].label = table[m].label
              /\ edit[n].kind = "label" => /\ table'[m].label = edit[n].to
                                           /\ table'[m].at = table[m].at
    <3>1. /\ edit[n].kind \in {"move", "label", "delete"} /\ edit[n].step # "none"
          /\ table' = Changed(table, edit[n])
      BY <1>1, <1>2, <1>7, EditIs
    <3>2. /\ edit[n].kind = "delete" => Changed(table, edit[n])[m] = Absent
          /\ table[m] # Absent /\ edit[n].kind # "delete" =>
                /\ Changed(table, edit[n])[m] # Absent
                /\ Changed(table, edit[n])[m].of = table[m].of
                /\ edit[n].kind = "move" =>
                      /\ Changed(table, edit[n])[m].at = edit[n].to
                      /\ Changed(table, edit[n])[m].label = table[m].label
                /\ edit[n].kind = "label" =>
                      /\ Changed(table, edit[n])[m].label = edit[n].to
                      /\ Changed(table, edit[n])[m].at = table[m].at
      BY <1>1, <1>2, <3>1, ChangedIs
    <3>3. QED
      BY <2>1, <2>2, <3>1, <3>2
  <2>4. edit'[n] = NoEdit
    BY <1>2, <1>7
  <2>5. \A k \in Edits : Asked(k, "live") /\ edit[k].m = m /\ k # n =>
           edit[k].kind # edit[n].kind /\ edit[k].kind # "delete" /\ edit[n].kind # "delete"
    BY <1>2, <1>7 DEF MarkInv, EditsInv, Asked
  <2> HIDE DEF m
  <2>6. LiveStored'
    <3>1. SUFFICES ASSUME NEW k \in Stored
                   PROVE  /\ table'[adding[k].id] = adding[k].mark
                          /\ adding[k].mark.of = recorded
                          /\ liveList[adding[k].id] = Absent
                          /\ \A j \in Edits : InFlight(j)' => edit'[j].m # adding[k].id
      BY <1>3, <1>4 DEF LiveStored
    <3>2. /\ table[adding[k].id] = adding[k].mark /\ adding[k].mark.of = recorded
          /\ liveList[adding[k].id] = Absent
          /\ \A j \in Edits : InFlight(j) => edit[j].m # adding[k].id
      BY DEF LiveStored
    <3>3. adding[k].id # m /\ adding[k].id \in Marks
      BY <1>1, <1>2, <1>4, <3>2, AddIs DEF Stored, m
    <3>4. \A j \in Edits : InFlight(j)' => edit'[j].m # adding[k].id
      BY <1>5, <2>4, <3>2 DEF InFlight, NoEdit
    <3>5. QED
      BY <1>2, <3>2, <3>3, <3>4
  <2>7. LiveAsked'
    <3>1. SUFFICES ASSUME NEW k \in Edits, Asked(k, "live")' PROVE ShowsEdit(edit[k])'
      BY DEF LiveAsked
    <3>2. k # n
      BY <2>4, <3>1 DEF Asked, NoEdit
    <3>3. /\ edit'[k] = edit[k] /\ Asked(k, "live") /\ ShowsEdit(edit[k]) /\ InFlight(k)
          /\ edit[k].m \in Marks
      BY <1>1, <1>5, <3>1, <3>2, EditIs DEF Asked, LiveAsked, InFlight
    <3>4. table'[edit[k].m].of = recorded
      <4>1. CASE edit[k].m = m
        BY <2>3, <2>5, <3>2, <3>3, <4>1
      <4>2. CASE edit[k].m # m
        BY <1>2, <3>3, <4>2 DEF ShowsEdit, m
      <4>3. QED
        BY <4>1, <4>2
    <3>5. QED
      BY <1>3, <3>3, <3>4 DEF ShowsEdit
  <2>8. \A j \in Marks : \A kind : Coming(j, kind) =>
           Coming(j, kind)' \/ (j = m /\ kind = edit[n].kind)
    BY <1>5 DEF Coming, Asked, m
  <2>9. LiveShown'
    <3>1. SUFFICES ASSUME NEW j \in Marks, liveList[j] # Absent
                   PROVE  /\ liveList[j].of = recorded /\ table'[j].of = recorded
                          /\ liveList[j].at = table'[j].at \/ Coming(j, "move")'
                          /\ liveList[j].label = table'[j].label \/ Coming(j, "label")'
      BY <1>3 DEF LiveShown
    <3>2. /\ liveList[j].of = recorded /\ table[j].of = recorded
          /\ liveList[j].at = table[j].at \/ Coming(j, "move")
          /\ liveList[j].label = table[j].label \/ Coming(j, "label")
      BY <3>1 DEF LiveShown
    <3>3. CASE j # m
      BY <1>2, <2>8, <3>2, <3>3 DEF m
    <3>4. CASE j = m
      <4>1. edit[n].kind \in {"move", "label"}
        BY <2>1, <2>3, <3>1, <3>4
      <4>2. CASE edit[n].kind = "move"
        BY <2>1, <2>3, <2>8, <3>2, <3>4, <4>2
      <4>3. CASE edit[n].kind = "label"
        BY <2>1, <2>3, <2>8, <3>2, <3>4, <4>3
      <4>4. QED
        BY <4>1, <4>2, <4>3
    <3>5. QED
      BY <3>3, <3>4
  <2>10. LiveKept'
    <3>1. SUFFICES ASSUME NEW j \in Marks, table'[j].of = recorded
                   PROVE  \/ table'[j] = Absent \/ liveList[j] # Absent
                          \/ \E k \in Stored : adding[k].id = j
                          \/ Coming(j, "delete")'
      BY <1>3, <1>4 DEF LiveKept
    <3>2. CASE j = m
      BY <2>1, <2>3, <3>2
    <3>3. CASE j # m
      BY <1>2, <2>8, <3>1, <3>3 DEF LiveKept, m
    <3>4. QED
      BY <3>2, <3>3
  <2>11. QED
    BY <2>6, <2>7, <2>9, <2>10
<1>8. QED
  BY <1>6, <1>7

\* The list of the Live tab.
LEMMA LiveListStep ==
    ASSUME MarkInv, [MarkNext]_markVars
    PROVE  LiveListInv'
<1> SUFFICES ASSUME ~muddled', startStep' # "clicked"
             PROVE  LiveStored' /\ LiveAsked' /\ LiveShown' /\ LiveKept'
  BY DEF LiveListInv
<1> USE MarkConstants
<1> USE DEF recording, lists, hist
<1>1. ~muddled
  BY MuddleStays
<1>2. /\ adding \in [Marks -> AddRecords] /\ edit \in [Edits -> EditRecords]
      /\ table \in [Marks -> MarkSlots] /\ liveList \in [Marks -> MarkSlots]
      /\ \A m \in Marks : table[m].of <= recorded
      /\ recorded \in Nat
  BY DEF MarkInv, MarkTypes, SessionInv
<1>3. ASSUME startStep # "clicked"
      PROVE  LiveStored /\ LiveAsked /\ LiveShown /\ LiveKept
  BY <1>1, <1>3 DEF MarkInv, LiveListInv
<1>4. CASE StartRecording
  BY <1>4 DEF StartRecording
<1>5. CASE StartInstalls
  <2>1. /\ startStep = "clicked" /\ recorded' = recorded + 1
        /\ UNCHANGED <<adding, table, liveList, edit>>
    BY <1>5 DEF StartInstalls
  <2>2. /\ ~AddsPending /\ liveList = NoList
        /\ \A n \in Edits : ~Asked(n, "live")
    BY <1>1, <2>1 DEF MarkInv, StartInv
  <2>3. \A n \in Marks : n \notin Stored'
    BY <2>1, <2>2 DEF AddsPending, Stored
  <2>4. \A m \in Marks : table[m].of # recorded'
    <3>1. SUFFICES ASSUME NEW m \in Marks PROVE table[m].of # recorded'
      OBVIOUS
    <3>2. table[m].of \in 0..MaxRecordings
      BY <1>2, SlotIs
    <3>3. table[m].of <= recorded /\ table[m].of \in Nat
      BY <1>2, <3>2
    <3>4. QED
      BY <1>2, <2>1, <3>3
  <2>5. LiveStored' /\ LiveAsked'
    <3>1. \A n \in Stored' : FALSE
      BY <2>3 DEF Stored
    <3>2. QED
      BY <2>1, <2>2, <3>1 DEF LiveStored, LiveAsked, Asked
  <2>6. LiveShown' /\ LiveKept'
    BY <2>1, <2>2, <2>4, NoListIs DEF LiveShown, LiveKept
  <2>7. QED
    BY <2>5, <2>6
<1>6. ASSUME startStep # "clicked", UNCHANGED <<recorded, liveList, table, edit>>,
             \A n \in Marks : n \in Stored' <=> n \in Stored,
             \A n \in Stored : adding'[n] = adding[n]
      PROVE  LiveStored' /\ LiveAsked' /\ LiveShown' /\ LiveKept'
  <2>1. LiveStored /\ LiveAsked /\ LiveShown /\ LiveKept
    BY <1>3, <1>6
  <2>2. /\ \A k \in Edits : Asked(k, "live")' <=> Asked(k, "live")
        /\ \A k \in Edits : Asked(k, "live") => edit'[k] = edit[k]
        /\ \A k \in Edits : InFlight(k)' => InFlight(k) /\ edit'[k].m = edit[k].m
        /\ \A m \in Marks : table[m].of = recorded => table'[m] = table[m]
        /\ \A m \in Marks : table'[m].of = recorded => table'[m] \in {Absent, table[m]}
    BY <1>6 DEF Asked, InFlight
  <2>3. UNCHANGED <<recorded, liveList>>
    BY <1>6
  <2>4. QED
    BY <1>2, <1>6, <2>1, <2>2, <2>3, LiveListFrame
<1>7. CASE \/ StartReturns \/ SlotEmpties \/ ScreenLetsGo \/ \E s \in Recordings : OpenHistory(s)
           \/ UNCHANGED markVars
  <2>1. UNCHANGED <<recorded, liveList, table, edit, adding>>
    BY <1>7 DEF StartReturns, SlotEmpties, ScreenLetsGo, OpenHistory, markVars
  <2>2. startStep # "clicked"
    BY <1>7 DEF StartReturns, SlotEmpties, ScreenLetsGo, OpenHistory, markVars
  <2>3. QED
    BY <1>6, <2>1, <2>2 DEF Stored
<1>8. CASE \E s \in Recordings : DeleteRecording(s)
  <2>1. PICK s \in Recordings : DeleteRecording(s)
    BY <1>8
  <2>2. /\ UNCHANGED <<recorded, startStep, liveList, edit, adding>> /\ s # recorded
        /\ \A m \in Marks : table'[m] = IF table[m].of = s THEN Absent ELSE table[m]
    BY <2>1 DEF DeleteRecording
  <2>3. LiveStored /\ LiveAsked /\ LiveShown /\ LiveKept
    BY <1>3, <2>2
  <2>4. /\ \A m \in Marks : table[m].of = recorded => table'[m] = table[m]
        /\ \A m \in Marks : table'[m].of = recorded => table'[m] \in {Absent, table[m]}
    BY <2>2
  <2>5. /\ \A k \in Edits : Asked(k, "live")' <=> Asked(k, "live")
        /\ \A k \in Edits : Asked(k, "live") => edit'[k] = edit[k]
        /\ \A k \in Edits : InFlight(k)' => InFlight(k) /\ edit'[k].m = edit[k].m
        /\ \A k \in Marks : k \in Stored' <=> k \in Stored
        /\ \A k \in Stored : adding'[k] = adding[k]
    BY <2>2 DEF Asked, InFlight, Stored
  <2>6. QED
    BY <1>2, <2>2, <2>3, <2>4, <2>5, LiveListFrame
<1>9. ASSUME NEW n \in Marks, startStep # "clicked",
             UNCHANGED <<recorded, liveList, table, edit>>,
             adding[n].step # "stored", adding'[n].step # "stored",
             \A k \in Marks \ {n} : adding'[k] = adding[k]
      PROVE  LiveStored' /\ LiveAsked' /\ LiveShown' /\ LiveKept'
  <2>1. \A k \in Marks : k \in Stored' <=> k \in Stored
    BY <1>9 DEF Stored
  <2>2. \A k \in Stored : adding'[k] = adding[k]
    BY <1>9 DEF Stored
  <2>3. QED
    BY <1>6, <1>9, <2>1, <2>2
<1>10. CASE \E n \in Marks : ClickMarker(n)
  <2>1. PICK n \in Marks : ClickMarker(n)
    BY <1>10
  <2>2. /\ adding[n].step = "none" /\ adding' = [adding EXCEPT ![n].step = "asked"]
        /\ UNCHANGED <<recorded, startStep, liveList, table, edit>>
    BY <2>1 DEF ClickMarker
  <2>3. adding'[n].step = "asked" /\ \A k \in Marks \ {n} : adding'[k] = adding[k]
    <3>1. adding[n] \in [step : {"none", "asked", "picked", "done"}, of : 0..MaxRecordings]
      BY <1>2, <2>2, AddIs
    <3>2. QED
      BY <1>2, <2>2, <3>1
  <2>4. QED
    BY <1>9, <2>2, <2>3
<1>11. CASE \E n \in Marks : AddPicks(n)
  <2>1. PICK n \in Marks : AddPicks(n)
    BY <1>11
  <2> DEFINE a == IF slotIn = NoRecording THEN Added ELSE [step |-> "picked", of |-> slotIn]
  <2>2. /\ adding[n].step = "asked" /\ adding' = [adding EXCEPT ![n] = a]
        /\ UNCHANGED <<recorded, startStep, liveList, table, edit>>
    BY <2>1 DEF AddPicks
  <2>3. a.step # "stored"
    OBVIOUS
  <2> HIDE DEF a
  <2>4. adding'[n] = a /\ \A k \in Marks \ {n} : adding'[k] = adding[k]
    BY <1>2, <2>2
  <2>5. QED
    BY <1>9, <2>2, <2>3, <2>4
<1>12. CASE \E n \in Marks : AddStores(n)
  <2>1. PICK n \in Marks : AddStores(n)
    BY <1>12
  <2>2. /\ UNCHANGED <<recorded, startStep, liveList, edit>> /\ adding[n].step = "picked"
    BY <2>1 DEF AddStores
  <2>3. CASE adding[n].of \notin kept
    <3>1. adding' = [adding EXCEPT ![n] = Added] /\ table' = table
      BY <2>1, <2>3 DEF AddStores
    <3>2. adding'[n] = Added /\ \A k \in Marks \ {n} : adding'[k] = adding[k]
      BY <1>2, <3>1
    <3>3. QED
      BY <1>9, <2>2, <3>1, <3>2
  <2>4. CASE adding[n].of \in kept
    BY <1>1, <1>3, <2>1, <2>2, <2>4, LiveListAdded
  <2>5. QED
    BY <2>3, <2>4
<1>13. CASE \E n \in Marks : AddReturns(n)
  <2>1. PICK n \in Marks : AddReturns(n)
    BY <1>13
  <2>2. startStep # "clicked"
    BY <2>1 DEF AddReturns
  <2>3. QED
    BY <1>1, <1>3, <2>1, <2>2, LiveListReturned
<1>14. CASE \E m \in Marks : EditLive(m)
  <2>1. PICK m \in Marks : EditLive(m)
    BY <1>14
  <2>2. startStep # "clicked"
    BY <2>1 DEF EditLive
  <2>3. QED
    BY <1>3, <2>1, <2>2, LiveListEdited
<1>15. CASE \E m \in Marks : EditHistory(m)
  <2>1. PICK m \in Marks : EditHistory(m)
    BY <1>15
  <2>2. startStep # "clicked"
    BY <2>1 DEF EditHistory
  <2>3. QED
    BY <1>3, <2>1, <2>2, LiveListSpared
<1>16. CASE \E n \in Edits : EditLands(n)
  <2>1. PICK n \in Edits : EditLands(n)
    BY <1>16
  <2>2. startStep # "clicked"
    BY <2>1 DEF EditLands
  <2>3. QED
    BY <1>3, <2>1, <2>2, LiveListLanded
<1>17. CASE \E n \in Edits : HistoryRefetches(n)
  <2>1. PICK n \in Edits : HistoryRefetches(n)
    BY <1>17
  <2>2. /\ edit[n].step = "landed" /\ edit' = [edit EXCEPT ![n] = NoEdit]
        /\ UNCHANGED <<recorded, startStep, liveList, table, adding>>
    BY <2>1 DEF HistoryRefetches
  <2>3. edit'[n] = NoEdit /\ \A k \in Edits : k # n => edit'[k] = edit[k]
    BY <1>2, <2>2
  <2>4. LiveStored /\ LiveAsked /\ LiveShown /\ LiveKept
    BY <1>3, <2>2
  <2>5. \A k \in Edits : Asked(k, "live")' <=> Asked(k, "live")
    BY <2>2, <2>3 DEF Asked
  <2>6. \A k \in Edits : Asked(k, "live") => edit'[k] = edit[k]
    BY <2>2, <2>3 DEF Asked
  <2>7. \A k \in Edits : InFlight(k)' => InFlight(k) /\ edit'[k].m = edit[k].m
    BY <2>3 DEF InFlight
  <2>8. /\ \A k \in Marks : k \in Stored' <=> k \in Stored
        /\ \A k \in Stored : adding'[k] = adding[k]
        /\ \A m \in Marks : table[m].of = recorded => table'[m] = table[m]
        /\ \A m \in Marks : table'[m].of = recorded => table'[m] \in {Absent, table[m]}
    BY <2>2 DEF Stored
  <2>9. QED
    BY <1>2, <2>2, <2>4, <2>5, <2>6, <2>7, <2>8, LiveListFrame
<1>18. QED
  BY <1>4, <1>5, <1>7, <1>8, <1>10, <1>11, <1>12, <1>13, <1>14, <1>15, <1>16, <1>17
     DEF MarkNext

\* Nothing the lists of the History tab depend on changes, or it is counted.
LEMMA HistListFrame ==
    ASSUME HistListInv, IdsInv, UNCHANGED <<histOf, histList, fetched>>,
           0..recorded \subseteq 0..recorded', 1..recorded \subseteq 1..recorded',
           outdated \subseteq outdated', outdated' \subseteq Recordings,
           \A m \in Marks : m > lastMark' => m > lastMark,
           \A s \in 1..recorded : s \in kept' <=> s \in kept,
           \A m \in Marks : ~(m > lastMark) => table'[m].of \in {table[m].of, NoRecording},
           HistEdits',
           \A s \in fetched : s \notin outdated' => \A m \in Marks :
              FetchedOf(s, m)' = FetchedOf(s, m) \/ LandedOn(s, m)',
           \A s \in fetched : \A m \in Marks : LandedOn(s, m) => LandedOn(s, m)'
    PROVE  HistListInv'
<1>1. HistTypes /\ HistNew /\ HistShown /\ HistFetched /\ HistOpen
  BY DEF HistListInv
<1>2. HistTypes'
  BY <1>1 DEF HistTypes
<1>3. HistNew'
  BY <1>1 DEF HistNew
<1>4. HistShown'
  <2>1. SUFFICES ASSUME NEW s \in Recordings, NEW m \in Marks, histList[s][m] # Absent
                 PROVE  table'[m].of \in {s, NoRecording}
    BY DEF HistShown
  <2>2. ~(m > lastMark) /\ table[m].of \in {s, NoRecording}
    BY <1>1, <2>1 DEF HistNew, HistShown
  <2>3. QED
    BY <2>2
<1>5. HistFetched'
  <2>1. SUFFICES ASSUME NEW s \in fetched, s \in kept', s \notin outdated', NEW m \in Marks,
                        histList[s][m] # FetchedOf(s, m)'
                 PROVE  LandedOn(s, m)'
    BY DEF HistFetched
  <2>2. s \in kept /\ s \notin outdated
    BY <1>1, <2>1 DEF HistTypes
  <2>3. CASE FetchedOf(s, m)' = FetchedOf(s, m)
    <3>1. LandedOn(s, m)
      BY <1>1, <2>1, <2>2, <2>3 DEF HistFetched
    <3>2. QED
      BY <3>1
  <2>4. QED
    BY <2>1, <2>3
<1>6. HistOpen'
  BY <1>1 DEF HistOpen, HistTypes
<1>7. QED
  BY <1>2, <1>3, <1>4, <1>5, <1>6 DEF HistListInv

\* A list that is fetched is the session's of that moment.
LEMMA HistListFetched ==
    ASSUME MarkTypes, IdsInv, HistListInv, NEW s \in Recordings, s \in 1..recorded, Fetches(s),
           UNCHANGED <<recorded, kept, lastMark, table>>,
           \A q \in fetched \ {s} : \A m \in Marks : LandedOn(q, m) => LandedOn(q, m)'
    PROVE  /\ histList' \in [Recordings -> [Marks -> MarkSlots]]
           /\ fetched' \subseteq 1..recorded' /\ outdated' \subseteq Recordings
           /\ HistNew' /\ HistShown' /\ HistFetched'
           /\ s \in fetched' /\ fetched \subseteq fetched'
<1> USE MarkConstants
<1>1. /\ HistTypes /\ HistNew /\ HistShown /\ HistFetched
      /\ table \in [Marks -> MarkSlots]
  BY DEF HistListInv, MarkTypes
<1>2. /\ Of(s) \in [Marks -> MarkSlots]
      /\ \A m \in Marks : Of(s)[m] = FetchedOf(s, m)
  BY <1>1, FetchedList DEF FetchedOf
<1>3. /\ histList' \in [Recordings -> [Marks -> MarkSlots]]
      /\ histList'[s] = Of(s) /\ \A q \in Recordings \ {s} : histList'[q] = histList[q]
      /\ fetched' = fetched \union {s} /\ outdated' = outdated \ {s}
  BY <1>1, <1>2 DEF Fetches, HistTypes
<1>4. \A m \in Marks : \A q : FetchedOf(q, m)' = FetchedOf(q, m)
  BY DEF FetchedOf
<1>5. HistNew'
  <2>1. SUFFICES ASSUME NEW q \in Recordings, NEW m \in Marks, m > lastMark
                 PROVE  histList'[q][m] = Absent
    BY DEF HistNew
  <2>2. table[m] = Absent /\ histList[q][m] = Absent
    BY <1>1, <2>1 DEF IdsInv, HistNew
  <2>3. FetchedOf(s, m) = Absent
    BY <2>2 DEF FetchedOf
  <2>4. QED
    BY <1>2, <1>3, <2>2, <2>3
<1>6. HistShown'
  <2>1. SUFFICES ASSUME NEW q \in Recordings, NEW m \in Marks, histList'[q][m] # Absent
                 PROVE  table[m].of \in {q, NoRecording}
    BY DEF HistShown
  <2>2. CASE q = s
    <3>1. FetchedOf(s, m) # Absent
      BY <1>2, <1>3, <2>1, <2>2
    <3>2. QED
      BY <2>2, <3>1 DEF FetchedOf
  <2>3. CASE q # s
    BY <1>1, <1>3, <2>1, <2>3 DEF HistShown
  <2>4. QED
    BY <2>2, <2>3
<1>7. HistFetched'
  <2>1. SUFFICES ASSUME NEW q \in fetched', q \in kept, q \notin outdated', NEW m \in Marks,
                        histList'[q][m] # FetchedOf(q, m)
                 PROVE  LandedOn(q, m)'
    BY <1>4 DEF HistFetched
  <2>2. q # s
    BY <1>2, <1>3, <2>1
  <2>3. q \in Recordings /\ q \in fetched /\ q \notin outdated
    <3>1. q \in fetched /\ q \notin outdated
      BY <1>3, <2>1, <2>2
    <3>2. q \in Recordings
      BY <1>1, <3>1 DEF HistTypes, MarkTypes
    <3>3. QED
      BY <3>1, <3>2
  <2>4. LandedOn(q, m)
    BY <1>1, <1>3, <2>1, <2>2, <2>3 DEF HistFetched
  <2>5. QED
    BY <2>2, <2>3, <2>4
<1>8. fetched' \subseteq 1..recorded' /\ outdated' \subseteq Recordings
  BY <1>1, <1>3 DEF HistTypes
<1>9. QED
  BY <1>3, <1>5, <1>6, <1>7, <1>8

\* A marker is stored: its session's list is out of date from here on.
LEMMA HistListAdded ==
    ASSUME MarkTypes, IdsInv, HistListInv, NEW n \in Marks, AddStores(n)
    PROVE  HistListInv'
<1> USE MarkConstants
<1> USE DEF recording
<1>1. /\ HistTypes /\ HistEdits /\ table \in [Marks -> MarkSlots]
      /\ edit \in [Edits -> EditRecords] /\ recorded \in Nat
  BY DEF HistListInv, MarkTypes
<1>2. UNCHANGED <<recorded, kept, histOf, histList, fetched, edit>>
  BY DEF AddStores
<1>3. \A s, m : LandedOn(s, m)' <=> LandedOn(s, m)
  BY <1>2 DEF LandedOn
<1>4. CASE adding[n].of \notin kept
  <2>1. UNCHANGED <<lastMark, table, outdated>>
    BY <1>4 DEF AddStores
  <2>2. HistEdits'
    BY <1>1, <1>2, <2>1 DEF HistEdits, InFlight
  <2>3. \A s, m : FetchedOf(s, m)' = FetchedOf(s, m)
    BY <2>1 DEF FetchedOf
  <2>4. QED
    BY <1>1, <1>2, <1>3, <2>1, <2>2, <2>3, HistListFrame DEF HistTypes
<1>5. CASE adding[n].of \in kept
  <2> DEFINE new == lastMark'
  <2>1. /\ new = lastMark + 1 /\ new \in Marks /\ table'[new].of = adding[n].of
        /\ \A m \in Marks \ {new} : table'[m] = table[m]
    BY <1>5, AddStored
  <2>2. outdated' = outdated \union {adding[n].of}
    BY <1>5 DEF AddStores
  <2>3. lastMark \in Nat /\ new > lastMark /\ \A m \in Marks : m > new => m > lastMark
    <3>1. lastMark \in Nat
      BY DEF IdsInv
    <3>2. QED
      BY <2>1, <3>1
  <2>4. table[new] = Absent /\ \A k \in Edits : InFlight(k) => edit[k].m # new
    <3>1. ~(new <= lastMark)
      BY <2>1, <2>3
    <3>2. QED
      BY <2>1, <2>3, <3>1 DEF IdsInv
  <2>5. adding[n].of \in Recordings
    BY <1>5 DEF MarkTypes
  <2>6. HistEdits'
    <3>1. SUFFICES ASSUME NEW k \in Edits, InFlight(k), edit[k].from = "history"
                   PROVE  table'[edit[k].m].of \in {edit[k].of, NoRecording}
      BY <1>2 DEF HistEdits, InFlight
    <3>2. edit[k].m \in Marks /\ edit[k].m # new
      BY <1>1, <2>4, <3>1, EditIs DEF InFlight
    <3>3. QED
      BY <1>1, <2>1, <3>1, <3>2 DEF HistEdits
  <2>7. ASSUME NEW s \in fetched, s \notin outdated', NEW m \in Marks
        PROVE  FetchedOf(s, m)' = FetchedOf(s, m)
    <3>1. s # NoRecording /\ s # adding[n].of
      BY <1>1, <2>2, <2>7 DEF HistTypes
    <3>2. CASE m = new
      BY <2>1, <2>4, <3>1, <3>2 DEF FetchedOf
    <3>3. CASE m # new
      BY <2>1, <3>3 DEF FetchedOf
    <3>4. QED
      BY <3>2, <3>3
  <2>8. outdated \subseteq outdated' /\ outdated' \subseteq Recordings
    BY <1>1, <2>2, <2>5 DEF HistTypes
  <2>9. \A m \in Marks : ~(m > lastMark) => table'[m].of \in {table[m].of, NoRecording}
    BY <2>1, <2>3
  <2> HIDE DEF new
  <2>10. \A m \in Marks : m > lastMark' => m > lastMark
    BY <2>3 DEF new
  <2>11. QED
    BY <1>2, <1>3, <2>6, <2>7, <2>8, <2>9, <2>10, HistListFrame
<1>6. QED
  BY <1>4, <1>5

\* An edit is asked for: of a marker that is shown.
LEMMA HistListAsked ==
    ASSUME MarkTypes, IdsInv, HistListInv, NEW m \in Marks, EditLive(m) \/ EditHistory(m)
    PROVE  HistListInv'
<1> USE MarkConstants
<1> USE DEF recording, hist, lists
<1>1. /\ HistTypes /\ HistEdits /\ HistShown /\ edit \in [Edits -> EditRecords]
      /\ recorded \in Nat /\ recorded \in 0..MaxRecordings
  BY DEF HistListInv, MarkTypes
<1>2. UNCHANGED <<recorded, kept, lastMark, table, histOf, histList, fetched, outdated>>
  BY DEF EditLive, EditHistory
<1> DEFINE Shown(tab, s) ==
        tab = "history" => s = histOf /\ s # NoRecording /\ histList[s][m] # Absent
<1>3. PICK tab \in Tabs, s \in 0..MaxRecordings :
         /\ \E e \in EditsOf(m, tab, s) : Issue(e)
         /\ Shown(tab, s)
  <2>1. CASE EditLive(m)
    BY <2>1 DEF EditLive, Tabs
  <2>2. CASE EditHistory(m)
    <3>1. /\ histOf # NoRecording /\ histList[histOf][m] # Absent
          /\ \E e \in EditsOf(m, "history", histOf) : Issue(e)
      BY <2>2 DEF EditHistory
    <3>2. histOf \in 0..MaxRecordings /\ "history" \in Tabs
      BY <1>1 DEF HistTypes, Tabs
    <3>3. QED
      BY <3>1, <3>2
  <2>3. QED
    BY <2>1, <2>2
<1>4. PICK e \in EditsOf(m, tab, s) : Issue(e)
  BY <1>3
<1>5. /\ e.step = "asked" /\ e.m = m /\ e.from = tab /\ e.of = s
      /\ edits' \in Edits /\ edit[edits'] = NoEdit /\ edit'[edits'] = e
      /\ \A k \in Edits \ {edits'} : edit'[k] = edit[k]
  BY <1>4, EditIssued
<1>6. HistEdits'
  <2>1. SUFFICES ASSUME NEW k \in Edits, edit'[k].step # "none", edit'[k].from = "history"
                 PROVE  table[edit'[k].m].of \in {edit'[k].of, NoRecording}
    BY <1>2 DEF HistEdits, InFlight
  <2>2. CASE k = edits'
    <3>1. /\ e.from = "history" /\ tab = "history" /\ s = histOf /\ s # NoRecording
          /\ histList[s][m] # Absent
      BY <1>3, <1>5, <2>1, <2>2
    <3>2. s \in Recordings
      BY <1>1, <3>1 DEF HistTypes
    <3>3. table[m].of \in {s, NoRecording}
      BY <1>1, <3>1, <3>2 DEF HistShown
    <3>4. QED
      BY <1>5, <2>2, <3>3
  <2>3. CASE k # edits'
    BY <1>1, <1>5, <2>1, <2>3 DEF HistEdits, InFlight
  <2>4. QED
    BY <2>2, <2>3
<1>7. \A q, j : FetchedOf(q, j)' = FetchedOf(q, j)
  BY <1>2 DEF FetchedOf
<1>8. \A q, j : LandedOn(q, j) => LandedOn(q, j)'
  <2>1. \A k \in Edits : edit[k].step = "landed" => edit'[k] = edit[k]
    BY <1>5 DEF NoEdit
  <2>2. QED
    BY <2>1 DEF LandedOn
<1>9. QED
  BY <1>1, <1>2, <1>6, <1>7, <1>8, HistListFrame DEF HistTypes

\* An edit reaches the table: the one of the Live tab leaves a cached list
\* behind, the one of the History tab is about to fetch it again.
LEMMA HistListLanded ==
    ASSUME MarkTypes, IdsInv, EditsInv, HistListInv, NEW n \in Edits, EditLands(n)
    PROVE  HistListInv'
<1> USE MarkConstants
<1> USE DEF recording
<1>1. /\ HistTypes /\ HistEdits /\ edit \in [Edits -> EditRecords] /\ recorded \in Nat
      /\ table \in [Marks -> MarkSlots]
  BY DEF HistListInv, MarkTypes
<1> DEFINE m == edit[n].m
<1>2. /\ edit[n].step = "asked" /\ m \in Marks /\ InFlight(n)
      /\ table' \in [Marks -> MarkSlots]
      /\ \A j \in Marks : j # m => table'[j] = table[j]
      /\ \A j \in Marks : table[j] = Absent => table'[j] = Absent
      /\ \A j \in Marks : table'[j].of \in {table[j].of, NoRecording}
      /\ edit[n].from = "live" => edit'[n] = NoEdit
      /\ \/ edit'[n] = NoEdit
         \/ /\ edit'[n].step = "landed" /\ edit'[n].m = m
            /\ edit'[n].from = edit[n].from /\ edit'[n].of = edit[n].of
      /\ edit[n].from # "live" => edit'[n].step = "landed" \/ table' = table
      /\ \A k \in Edits \ {n} : edit'[k] = edit[k]
  BY <1>1, EditLanded
<1>3. UNCHANGED <<recorded, kept, lastMark, histOf, histList, fetched>>
  BY DEF EditLands
<1>4. /\ edit[n].from # "live" => outdated' = outdated
      /\ edit[n].from = "live" =>
            \/ outdated' = outdated \union ({table[m].of} \ {NoRecording})
            \/ outdated' = outdated /\ table' = table
  BY DEF EditLands
<1> HIDE DEF m
<1>5. outdated \subseteq outdated' /\ outdated' \subseteq Recordings
  <2>1. table[m].of \in 0..MaxRecordings
    BY <1>1, <1>2, SlotIs
  <2>2. table[m].of # NoRecording => table[m].of \in Recordings
    BY <2>1
  <2>3. QED
    BY <1>1, <1>4, <2>2 DEF HistTypes
<1>6. \A k \in Edits : k # n => edit'[k] = edit[k]
  BY <1>2
<1>7. HistEdits'
  <2>1. SUFFICES ASSUME NEW k \in Edits, edit'[k].step # "none", edit'[k].from = "history"
                 PROVE  table'[edit'[k].m].of \in {edit'[k].of, NoRecording}
    BY DEF HistEdits, InFlight
  <2>2. /\ InFlight(k) /\ edit[k].from = "history" /\ edit'[k].m = edit[k].m
        /\ edit'[k].of = edit[k].of
    <3>1. CASE k = n
      BY <1>2, <2>1, <3>1 DEF NoEdit, m
    <3>2. CASE k # n
      BY <1>6, <2>1, <3>2 DEF InFlight
    <3>3. QED
      BY <3>1, <3>2
  <2>3. edit[k].m \in Marks /\ table[edit[k].m].of \in {edit[k].of, NoRecording}
    BY <1>1, <2>2, EditIs DEF HistEdits, InFlight
  <2>4. QED
    BY <1>2, <2>2, <2>3
<1>8. ASSUME NEW s \in fetched, s \notin outdated', NEW j \in Marks
      PROVE  FetchedOf(s, j)' = FetchedOf(s, j) \/ LandedOn(s, j)'
  <2>1. s # NoRecording
    BY <1>1 DEF HistTypes
  <2>2. CASE j # m
    BY <1>2, <2>2 DEF FetchedOf
  <2>3. CASE table' = table
    BY <2>3 DEF FetchedOf
  <2>4. CASE j = m /\ table[m].of = NoRecording
    <3>1. table[m] = Absent /\ table'[m] = Absent
      BY <1>1, <1>2, <2>4, SlotIs
    <3>2. QED
      BY <2>4, <3>1 DEF FetchedOf
  <2>5. CASE j = m /\ table[m].of # s /\ table[m].of # NoRecording
    <3>1. table'[m].of # s
      BY <1>2, <2>1, <2>5
    <3>2. QED
      BY <2>5, <3>1 DEF FetchedOf
  <2>6. CASE j = m /\ table[m].of = s /\ table' # table
    <3>1. edit[n].from # "live"
      BY <1>4, <1>8, <2>1, <2>6
    <3>2. edit[n].from = "history"
      <4>1. edit[n].from \in Tabs
        BY <1>1, <1>2, EditIs
      <4>2. QED
        BY <3>1, <4>1 DEF Tabs
    <3>3. edit[n].of = s
      BY <1>1, <1>2, <2>1, <2>6, <3>2 DEF HistEdits, m
    <3>4. edit'[n].step = "landed"
      BY <1>2, <2>6, <3>1
    <3>5. edit'[n].m = m /\ edit'[n].of = s
      BY <1>2, <3>3, <3>4 DEF NoEdit
    <3>6. QED
      BY <2>6, <3>4, <3>5 DEF LandedOn
  <2>7. QED
    BY <2>2, <2>3, <2>4, <2>5, <2>6
<1>9. \A s, j : LandedOn(s, j) => LandedOn(s, j)'
  <2>1. \A k \in Edits : edit[k].step = "landed" => edit'[k] = edit[k]
    BY <1>2, <1>6
  <2>2. QED
    BY <2>1 DEF LandedOn
<1>10. \A j \in Marks : ~(j > lastMark) => table'[j].of \in {table[j].of, NoRecording}
  BY <1>2
<1>11. QED
  BY <1>3, <1>5, <1>7, <1>8, <1>9, <1>10, HistListFrame

\* The list of an edit that landed is fetched, or dropped from the cache.
LEMMA HistListRefetched ==
    ASSUME MarkTypes, IdsInv, EditsInv, HistListInv, NEW n \in Edits, HistoryRefetches(n)
    PROVE  HistListInv'
<1> USE MarkConstants
<1> USE DEF recording
<1>1. /\ HistTypes /\ HistNew /\ HistShown /\ HistEdits /\ HistFetched /\ HistOpen
      /\ edit \in [Edits -> EditRecords] /\ recorded \in 0..MaxRecordings
  BY DEF HistListInv, MarkTypes
<1>2. /\ edit[n].step = "landed" /\ edit' = [edit EXCEPT ![n] = NoEdit]
      /\ UNCHANGED <<recorded, kept, lastMark, table, histOf>>
  BY DEF HistoryRefetches
<1>3. edit'[n] = NoEdit /\ \A k \in Edits : k # n => edit'[k] = edit[k]
  BY <1>1, <1>2
<1>4. edit[n].of \in 1..recorded /\ edit[n].of \in Recordings
  <2>1. InFlight(n) /\ edit[n].from = "history"
    BY <1>2 DEF EditsInv, InFlight
  <2>2. edit[n].of \in 1..recorded
    BY <2>1 DEF EditsInv
  <2>3. QED
    BY <1>1, <2>2
<1>5. HistEdits'
  BY <1>1, <1>2, <1>3 DEF HistEdits, InFlight
<1>6. \A q : q # edit[n].of => \A m \in Marks : LandedOn(q, m) => LandedOn(q, m)'
  BY <1>3 DEF LandedOn
<1>7. CASE edit[n].of = histOf
  <2>1. Fetches(histOf)
    BY <1>7 DEF HistoryRefetches
  <2>2. histOf \in Recordings /\ histOf \in 1..recorded
    BY <1>4, <1>7
  <2>3. \A q \in fetched \ {histOf} : \A m \in Marks : LandedOn(q, m) => LandedOn(q, m)'
    BY <1>6, <1>7
  <2>4. /\ histList' \in [Recordings -> [Marks -> MarkSlots]]
        /\ fetched' \subseteq 1..recorded' /\ outdated' \subseteq Recordings
        /\ HistNew' /\ HistShown' /\ HistFetched' /\ fetched \subseteq fetched'
    BY <1>2, <2>1, <2>2, <2>3, HistListFetched
  <2>5. HistTypes' /\ HistOpen'
    BY <1>1, <1>2, <2>4 DEF HistTypes, HistOpen
  <2>6. QED
    BY <1>5, <2>4, <2>5 DEF HistListInv
<1>8. CASE edit[n].of # histOf
  <2>1. fetched' = fetched \ {edit[n].of} /\ UNCHANGED <<histList, outdated>>
    BY <1>8 DEF HistoryRefetches
  <2>2. HistTypes' /\ HistNew' /\ HistShown' /\ HistOpen'
    BY <1>1, <1>2, <1>8, <2>1 DEF HistTypes, HistNew, HistShown, HistOpen
  <2>3. \A q, m : FetchedOf(q, m)' = FetchedOf(q, m)
    BY <1>2 DEF FetchedOf
  <2>4. HistFetched'
    <3>1. SUFFICES ASSUME NEW q \in fetched', q \in kept, q \notin outdated, NEW m \in Marks,
                          histList[q][m] # FetchedOf(q, m)
                   PROVE  LandedOn(q, m)'
      BY <1>2, <2>1, <2>3 DEF HistFetched
    <3>2. q \in fetched /\ q # edit[n].of
      BY <2>1
    <3>3. LandedOn(q, m)
      BY <1>1, <3>1, <3>2 DEF HistFetched
    <3>4. QED
      BY <1>6, <3>2, <3>3
  <2>5. QED
    BY <1>5, <2>2, <2>4 DEF HistListInv
<1>9. QED
  BY <1>7, <1>8

\* A row is opened.
LEMMA HistListOpened ==
    ASSUME MarkTypes, IdsInv, HistListInv, NEW s \in Recordings, OpenHistory(s)
    PROVE  HistListInv'
<1> USE MarkConstants
<1> USE DEF recording
<1>1. /\ HistTypes /\ HistNew /\ HistShown /\ HistEdits /\ HistFetched
      /\ recorded \in 0..MaxRecordings /\ kept \subseteq 1..recorded
  BY DEF HistListInv, MarkTypes
<1>2. /\ s \in kept /\ histOf' = s /\ UNCHANGED <<recorded, kept, lastMark, table, edit>>
      /\ Fetches(s) \/ (s \in fetched /\ UNCHANGED <<histList, fetched, outdated>>)
  BY DEF OpenHistory
<1>3. s \in 1..recorded
  BY <1>1, <1>2
<1>4. \A q, m : (LandedOn(q, m)' <=> LandedOn(q, m)) /\ FetchedOf(q, m)' = FetchedOf(q, m)
  BY <1>2 DEF LandedOn, FetchedOf
<1>5. HistEdits'
  BY <1>1, <1>2 DEF HistEdits, InFlight
<1>6. CASE Fetches(s)
  <2>1. /\ histList' \in [Recordings -> [Marks -> MarkSlots]]
        /\ fetched' \subseteq 1..recorded' /\ outdated' \subseteq Recordings
        /\ HistNew' /\ HistShown' /\ HistFetched' /\ s \in fetched'
    BY <1>2, <1>3, <1>4, <1>6, HistListFetched
  <2>2. HistTypes' /\ HistOpen'
    BY <1>1, <1>2, <1>3, <2>1 DEF HistTypes, HistOpen
  <2>3. QED
    BY <1>5, <2>1, <2>2 DEF HistListInv
<1>7. CASE s \in fetched /\ UNCHANGED <<histList, fetched, outdated>>
  <2>1. HistTypes' /\ HistOpen' /\ HistNew' /\ HistShown'
    <3>1. HistTypes' /\ HistOpen'
      BY <1>1, <1>2, <1>3, <1>7 DEF HistTypes, HistOpen
    <3>2. HistNew' /\ HistShown'
      BY <1>1, <1>2, <1>7 DEF HistNew, HistShown
    <3>3. QED
      BY <3>1, <3>2
  <2>2. HistFetched'
    BY <1>1, <1>2, <1>4, <1>7 DEF HistFetched
  <2>3. QED
    BY <1>5, <2>1, <2>2 DEF HistListInv
<1>8. QED
  BY <1>2, <1>6, <1>7

\* A session is deleted: the lists of the others stay as they are.
LEMMA HistListDeleted ==
    ASSUME MarkTypes, IdsInv, HistListInv, NEW s \in Recordings, DeleteRecording(s)
    PROVE  HistListInv'
<1> USE MarkConstants
<1>1. /\ HistTypes /\ HistNew /\ HistShown /\ HistEdits /\ HistFetched /\ HistOpen
      /\ edit \in [Edits -> EditRecords]
  BY DEF HistListInv, MarkTypes
<1>2. /\ kept' = kept \ {s} /\ histOf' = IF histOf = s THEN NoRecording ELSE histOf
      /\ \A m \in Marks : table'[m] = IF table[m].of = s THEN Absent ELSE table[m]
      /\ UNCHANGED <<recorded, lastMark, histList, fetched, outdated, edit>>
  BY DEF DeleteRecording
<1>3. \A m \in Marks : table'[m].of \in {table[m].of, NoRecording}
  BY <1>2
<1>4. HistTypes' /\ HistNew' /\ HistOpen'
  BY <1>1, <1>2 DEF HistTypes, HistNew, HistOpen, MarkTypes
<1>5. HistShown'
  BY <1>1, <1>2, <1>3 DEF HistShown
<1>6. HistEdits'
  <2>1. SUFFICES ASSUME NEW k \in Edits, InFlight(k), edit[k].from = "history"
                 PROVE  table'[edit[k].m].of \in {edit[k].of, NoRecording}
    BY <1>2 DEF HistEdits, InFlight
  <2>2. edit[k].m \in Marks
    BY <1>1, <2>1, EditIs DEF InFlight
  <2>3. QED
    BY <1>1, <1>3, <2>1, <2>2 DEF HistEdits
<1>7. HistFetched'
  <2>1. SUFFICES ASSUME NEW q \in fetched, q \in kept', q \notin outdated, NEW m \in Marks,
                        histList[q][m] # FetchedOf(q, m)'
                 PROVE  LandedOn(q, m)'
    BY <1>2 DEF HistFetched
  <2>2. q \in kept /\ q # s /\ q # NoRecording
    BY <1>1, <1>2, <2>1 DEF HistTypes
  <2>3. FetchedOf(q, m)' = FetchedOf(q, m)
    BY <1>2, <2>2 DEF FetchedOf
  <2>4. LandedOn(q, m)
    BY <1>1, <2>1, <2>2, <2>3 DEF HistFetched
  <2>5. QED
    BY <1>2, <2>4 DEF LandedOn
<1>8. QED
  BY <1>4, <1>5, <1>6, <1>7 DEF HistListInv

\* The lists of the History tab.
LEMMA HistListStep ==
    ASSUME MarkTypes, IdsInv, EditsInv, HistListInv, [MarkNext]_markVars
    PROVE  HistListInv'
<1> USE MarkConstants
<1> USE DEF recording, lists, hist
<1>1. HistTypes /\ HistEdits /\ recorded \in Nat /\ recorded \in 0..MaxRecordings
  BY DEF HistListInv, MarkTypes
<1>2. ASSUME UNCHANGED <<histOf, histList, fetched, outdated, lastMark, table, edit>>,
             0..recorded \subseteq 0..recorded', 1..recorded \subseteq 1..recorded',
             \A s \in 1..recorded : s \in kept' <=> s \in kept
      PROVE  HistListInv'
  <2>1. /\ \A s, m : FetchedOf(s, m)' = FetchedOf(s, m)
        /\ \A s, m : LandedOn(s, m)' <=> LandedOn(s, m)
    BY <1>2 DEF FetchedOf, LandedOn
  <2>2. HistEdits'
    BY <1>1, <1>2 DEF HistEdits, InFlight
  <2>3. QED
    BY <1>1, <1>2, <2>1, <2>2, HistListFrame DEF HistTypes
<1>3. CASE StartInstalls
  <2>1. /\ recorded' = recorded + 1 /\ kept' = kept \union {recorded'}
        /\ UNCHANGED <<histOf, histList, fetched, outdated, lastMark, table, edit>>
    BY <1>3 DEF StartInstalls
  <2>2. /\ 0..recorded \subseteq 0..recorded' /\ 1..recorded \subseteq 1..recorded'
        /\ \A s \in 1..recorded : s # recorded'
    BY <1>1, <2>1
  <2>3. QED
    BY <1>2, <2>1, <2>2
<1>4. CASE \/ StartRecording \/ StartReturns \/ SlotEmpties \/ ScreenLetsGo
           \/ \E n \in Marks : ClickMarker(n) \/ AddPicks(n) \/ AddReturns(n)
           \/ UNCHANGED markVars
  <2>1. UNCHANGED <<recorded, kept, histOf, histList, fetched, outdated, lastMark, table, edit>>
    BY <1>4 DEF StartRecording, StartReturns, SlotEmpties, ScreenLetsGo, ClickMarker, AddPicks,
         AddReturns, markVars
  <2>2. QED
    BY <1>2, <2>1
<1>5. CASE \/ \E s \in Recordings : DeleteRecording(s) \/ OpenHistory(s)
           \/ \E n \in Marks : AddStores(n)
           \/ \E m \in Marks : EditLive(m) \/ EditHistory(m)
           \/ \E n \in Edits : EditLands(n) \/ HistoryRefetches(n)
  BY <1>5, HistListDeleted, HistListOpened, HistListAdded, HistListAsked, HistListLanded,
     HistListRefetched
<1>6. QED
  BY <1>3, <1>4, <1>5 DEF MarkNext

LEMMA MarkStart == MarkInit => MarkInv
<1> USE MarkConstants
<1> SUFFICES ASSUME MarkInit PROVE MarkInv
  OBVIOUS
<1>1. /\ recorded = 0 /\ startStep = "idle" /\ slotIn = 0 /\ screen = 0 /\ kept = {}
      /\ lastMark = 0 /\ table = NoList /\ liveList = NoList
      /\ histList = [s \in Recordings |-> NoList] /\ fetched = {} /\ outdated = {}
      /\ edits = 0 /\ histOf = 0 /\ muddled = FALSE
      /\ adding = [n \in Marks |-> NoAdd] /\ edit = [n \in Edits |-> NoEdit]
  BY DEF MarkInit
<1>2. /\ NoList \in [Marks -> MarkSlots] /\ \A m \in Marks : NoList[m] = Absent
      /\ \A n \in Marks : adding[n] = NoAdd
      /\ \A n \in Edits : edit[n] = NoEdit /\ ~InFlight(n) /\ edit[n].step # "landed"
      /\ NoAdd \in AddRecords /\ NoEdit \in EditRecords
  BY <1>1, NoListIs DEF InFlight, AddRecords, EditRecords, NoAdd
<1>3. MarkTypes
  <2>1. adding \in [Marks -> AddRecords] /\ edit \in [Edits -> EditRecords]
    BY <1>1, <1>2
  <2>2. \A n \in Marks : adding[n].of \in 0..recorded
    BY <1>1, <1>2
  <2>3. recorded \in 0..MaxRecordings /\ edits \in 0..MaxEdits
    BY <1>1
  <2>4. slotIn \in 0..recorded /\ screen \in 0..recorded
    BY <1>1
  <2>5. kept \subseteq 1..recorded
    BY <1>1
  <2>6. muddled \in BOOLEAN
    BY <1>1
  <2>7. QED
    BY <1>1, <1>2, <2>1, <2>2, <2>3, <2>4, <2>5, <2>6 DEF MarkTypes
<1>4. /\ \A n \in Marks : n \notin Stored
      /\ \A n \in Edits : ~Asked(n, "live")
  BY <1>2 DEF Stored, Asked
<1>5. IdsInv
  <2>1. Cardinality(Served) \in Nat
    BY ServedIs
  <2>2. QED
    BY <1>1, <1>2, <1>4, <2>1 DEF IdsInv, Stored
<1>6. SessionInv /\ StartInv /\ EditsInv /\ MarkersOwned
  BY <1>1, <1>2, <1>4 DEF SessionInv, StartInv, EditsInv, MarkersOwned
<1>7. LiveStored /\ LiveAsked /\ LiveShown /\ LiveKept
  BY <1>1, <1>2, <1>4 DEF LiveStored, LiveAsked, LiveShown, LiveKept, Stored
<1>8. HistTypes /\ HistNew /\ HistShown /\ HistEdits /\ HistFetched /\ HistOpen
  BY <1>1, <1>2 DEF HistTypes, HistNew, HistShown, HistEdits, HistFetched, HistOpen
<1>9. QED
  BY <1>3, <1>5, <1>6, <1>7, <1>8 DEF MarkInv, LiveListInv, HistListInv

LEMMA MarkStep == MarkInv /\ [MarkNext]_markVars => MarkInv'
<1> SUFFICES ASSUME MarkInv, [MarkNext]_markVars PROVE MarkInv'
  OBVIOUS
<1>1. /\ MarkTypes /\ IdsInv /\ SessionInv /\ StartInv /\ EditsInv /\ MarkersOwned
      /\ HistListInv /\ HistTypes
  BY DEF MarkInv, HistListInv
<1>2. MarkTypes'
  BY <1>1, MarkTypesStep
<1>3. IdsInv'
  BY <1>1, IdsStep
<1>4. SessionInv' /\ MarkersOwned'
  BY <1>1, SessionStep
<1>5. StartInv'
  BY <1>1, StartStep
<1>6. EditsInv'
  BY <1>1, EditsStep
<1>7. LiveListInv' /\ HistListInv'
  BY <1>1, LiveListStep, HistListStep
<1>8. QED
  BY <1>2, <1>3, <1>4, <1>5, <1>6, <1>7 DEF MarkInv

\* The inductive invariant of the markers holds throughout.
THEOREM MarkersInvariance == MarkSpec => []MarkInv
<1>1. QED
  BY MarkStart, MarkStep, PTL DEF MarkSpec

\* Whatever overtakes what, the Live tab shows the markers that are stored
\* when its calls are back, unless the history counts a reason why not; so
\* does the History tab, of any session, but for what the Live tab did since
\* the list was fetched (LiveView.tsx:290-334, HistoryView.tsx:296-331).
THEOREM ListsAreTheStored == MarkSpec => []MarkerListsStored
<1> USE MarkConstants
<1>1. MarkInv => MarkerListsStored
  <2> SUFFICES ASSUME MarkInv PROVE MarkerListsStored
    OBVIOUS
  <2>1. /\ table \in [Marks -> MarkSlots] /\ liveList \in [Marks -> MarkSlots]
        /\ MarkersOwned
    BY DEF MarkInv, MarkTypes
  <2>2. ASSUME ~muddled, AtRest, startStep = "idle", recorded # NoRecording
        PROVE  liveList = Of(recorded)
    <3>1. LiveShown /\ LiveKept
      BY <2>2 DEF MarkInv, LiveListInv
    <3>2. \A m \in Marks : \A kind : ~Coming(m, kind)
      BY <2>2 DEF Coming, AtRest, Asked, InFlight
    <3>3. \A n \in Marks : n \notin Stored
      BY <2>2 DEF Stored, AtRest, AddsPending
    <3>4. Of(recorded) \in [Marks -> MarkSlots]
      BY <2>1, FetchedList
    <3>5. ASSUME NEW m \in Marks
          PROVE  liveList[m] = Of(recorded)[m]
      <4>1. Of(recorded)[m] = IF table[m].of = recorded THEN table[m] ELSE Absent
        BY <2>1, FetchedList
      <4>2. CASE liveList[m] = Absent
        <5>1. table[m].of # recorded \/ table[m] = Absent
          BY <3>1, <3>2, <3>3, <4>2 DEF LiveKept, Stored
        <5>2. QED
          BY <4>1, <4>2, <5>1
      <4>3. CASE liveList[m] # Absent
        <5>1. /\ liveList[m].of = recorded /\ table[m].of = recorded
              /\ liveList[m].at = table[m].at /\ liveList[m].label = table[m].label
          BY <3>1, <3>2, <4>3 DEF LiveShown
        <5>2. liveList[m] \in MarkRecords /\ table[m] \in MarkRecords
          BY <2>1, <2>2, <4>3, <5>1, SlotIs
        <5>3. liveList[m] = table[m]
          BY <5>1, <5>2, SameMarker
        <5>4. QED
          BY <4>1, <5>1, <5>3
      <4>4. QED
        BY <4>2, <4>3
    <3>6. QED
      BY <2>1, <3>4, <3>5
  <2>3. ASSUME AtRest, histOf # NoRecording, histOf \notin outdated
        PROVE  histList[histOf] = Of(histOf)
    <3>1. histOf \in fetched /\ histOf \in kept
      BY <2>3 DEF MarkInv, HistListInv, HistOpen
    <3>2. \A m \in Marks : ~LandedOn(histOf, m)
      BY <2>3 DEF LandedOn, AtRest, InFlight
    <3>3. \A m \in Marks : histList[histOf][m] = FetchedOf(histOf, m)
      BY <2>3, <3>1, <3>2 DEF MarkInv, HistListInv, HistFetched
    <3>4. /\ Of(histOf) \in [Marks -> MarkSlots]
          /\ \A m \in Marks : Of(histOf)[m] = FetchedOf(histOf, m)
      BY <2>1, FetchedList DEF FetchedOf
    <3>5. histList[histOf] \in [Marks -> MarkSlots]
      BY <2>3, <3>1 DEF MarkInv, MarkTypes, HistListInv, HistTypes
    <3>6. QED
      BY <3>3, <3>4, <3>5
  <2>4. QED
    BY <2>1, <2>2, <2>3 DEF MarkerListsStored, LiveListStored, HistoryListStored
<1>2. QED
  BY <1>1, MarkersInvariance, PTL

\* The records of the markers hold what they are meant to (add_marker,
\* commands.rs:275-292).
THEOREM TypesOfMarkers == MarkSpec => []MarkTypeOK
<1> USE MarkConstants
<1>1. MarkInv => MarkTypeOK
  <2> SUFFICES ASSUME MarkInv PROVE MarkTypeOK
    OBVIOUS
  <2>1. MarkTypes /\ IdsInv /\ HistTypes
    BY DEF MarkInv, HistListInv
  <2>2. Lists = [Marks -> MarkSlots]
    BY DEF Lists, MarkSlots, MarkRecords
  <2>3. \A n \in Marks : adding[n].step \in {"none", "asked", "picked", "stored", "done"}
    BY <2>1, AddIs DEF MarkTypes
  <2>4. lastMark \in 0..MaxMarkers
    <3>1. Cardinality(Served) <= MaxMarkers /\ Cardinality(Served) \in Nat
      <4>1. IsFiniteSet(Marks) /\ Cardinality(Marks) = MaxMarkers
        BY FS_Interval
      <4>2. Served \subseteq Marks
        BY DEF Served
      <4>3. QED
        BY <4>1, <4>2, FS_Subset, FS_CardinalityType
    <3>2. lastMark \in Nat /\ lastMark <= Cardinality(Served)
      BY <2>1 DEF IdsInv
    <3>3. QED
      BY <3>1, <3>2
  <2>5. /\ histOf \in 0..recorded /\ histList \in [Recordings -> Lists]
        /\ fetched \subseteq Recordings /\ outdated \subseteq Recordings
    BY <2>1, <2>2 DEF HistTypes, MarkTypes
  <2>6. QED
    BY <2>1, <2>2, <2>3, <2>4, <2>5 DEF MarkTypes, MarkTypeOK
<1>2. QED
  BY <1>1, MarkersInvariance, PTL

(***************************************************************************)
(* Charts: lists in order and their windows.                               *)
(***************************************************************************)

\* A sequence holds the numbers of a set in increasing order.
Ordered(s, S) ==
    /\ s \in Seq(Nat)
    /\ \A p \in 1..Len(s) : s[p] \in S
    /\ \A x \in S : \E p \in 1..Len(s) : s[p] = x
    /\ \A p, q \in 1..Len(s) : p < q => s[p] < s[q]

\* Where two ordered sequences of a set both have an element, it is the same.
LEMMA SameAtEach ==
    ASSUME NEW S, NEW s, Ordered(s, S), NEW r, Ordered(r, S),
           NEW n \in 1..Len(s), n \in 1..Len(r)
    PROVE  s[n] = r[n]
<1> DEFINE T == {p \in 1..Len(s) : p \in 1..Len(r) /\ s[p] # r[p]}
<1>1. /\ s \in Seq(Nat) /\ r \in Seq(Nat) /\ Len(s) \in Nat /\ Len(r) \in Nat
      /\ \A p \in 1..Len(s) : s[p] \in S /\ s[p] \in Nat
      /\ \A p \in 1..Len(r) : r[p] \in S /\ r[p] \in Nat
  BY LenProperties, ElementOfSeq DEF Ordered
<1>2. SUFFICES ASSUME T # {} PROVE FALSE
  OBVIOUS
<1>3. PICK m \in T : \A p \in T : m <= p
  <2>1. T \in SUBSET Nat
    BY <1>1
  <2>2. QED
    BY <1>2, <2>1, LeastNatural
<1>4. /\ m \in 1..Len(s) /\ m \in 1..Len(r) /\ s[m] # r[m] /\ m \in Nat
      /\ \A p \in 1..m - 1 : s[p] = r[p]
  <2>1. m \in 1..Len(s) /\ m \in 1..Len(r) /\ s[m] # r[m] /\ m \in Nat
    BY <1>1, <1>3
  <2>2. ASSUME NEW p \in 1..m - 1 PROVE s[p] = r[p]
    <3>1. p \in Nat /\ p >= 1 /\ p < m /\ ~ (m <= p)
      BY <2>1
    <3>2. Len(s) \in Nat /\ Len(r) \in Nat /\ m <= Len(s) /\ m <= Len(r)
      BY <1>1, <2>1
    <3>3. p \in 1..Len(s) /\ p \in 1..Len(r)
      BY <2>1, <3>1, <3>2
    <3>4. QED
      BY <1>3, <3>1, <3>3
  <2>3. QED
    BY <2>1, <2>2
<1>0. s[m] \in Nat /\ r[m] \in Nat
  BY <1>1, <1>4
<1>5. ASSUME s[m] < r[m] PROVE FALSE
  <2>1. PICK k \in 1..Len(r) : r[k] = s[m]
    BY <1>1, <1>4 DEF Ordered
  <2>2. CASE k < m
    <3>1. s[k] = r[k] /\ k \in 1..Len(s)
      BY <1>1, <1>4, <2>1, <2>2
    <3>2. s[k] < s[m]
      BY <1>4, <2>2, <3>1 DEF Ordered
    <3>3. s[m] < s[m]
      BY <2>1, <3>1, <3>2
    <3>4. QED
      BY <1>0, <3>3
  <2>3. CASE k = m
    BY <1>4, <2>1, <2>3
  <2>4. CASE m < k
    <3>1. r[m] < r[k]
      BY <1>4, <2>1, <2>4 DEF Ordered
    <3>2. r[m] < s[m]
      BY <2>1, <3>1
    <3>3. QED
      BY <1>0, <1>5, <3>2
  <2>5. QED
    BY <1>1, <1>4, <2>1, <2>2, <2>3, <2>4
<1>6. ASSUME r[m] < s[m] PROVE FALSE
  <2>1. PICK k \in 1..Len(s) : s[k] = r[m]
    BY <1>1, <1>4 DEF Ordered
  <2>2. CASE k < m
    <3>1. s[k] = r[k] /\ k \in 1..Len(r)
      BY <1>1, <1>4, <2>1, <2>2
    <3>2. r[k] < r[m]
      BY <1>4, <2>2, <3>1 DEF Ordered
    <3>3. r[m] < r[m]
      BY <2>1, <3>1, <3>2
    <3>4. QED
      BY <1>0, <3>3
  <2>3. CASE k = m
    BY <1>4, <2>1, <2>3
  <2>4. CASE m < k
    <3>1. s[m] < s[k]
      BY <1>4, <2>1, <2>4 DEF Ordered
    <3>2. s[m] < r[m]
      BY <2>1, <3>1
    <3>3. QED
      BY <1>0, <1>6, <3>2
  <2>5. QED
    BY <1>1, <1>4, <2>1, <2>2, <2>3, <2>4
<1>7. QED
  BY <1>1, <1>4, <1>5, <1>6

\* A set has one ordered sequence only.
LEMMA NoShorterOrder ==
    ASSUME NEW S, NEW s, Ordered(s, S), NEW r, Ordered(r, S)
    PROVE  ~ Len(s) < Len(r)
<1>1. SUFFICES ASSUME Len(s) < Len(r) PROVE FALSE
  OBVIOUS
<1>2. Len(s) \in Nat /\ Len(r) \in Nat
  BY LenProperties DEF Ordered
<1>3. Len(s) + 1 \in 1..Len(r)
  BY <1>1, <1>2
<1>4. PICK k \in 1..Len(s) : s[k] = r[Len(s) + 1]
  BY <1>3 DEF Ordered
<1>5. k \in 1..Len(r) /\ k < Len(s) + 1
  BY <1>1, <1>2, <1>4
<1>6. s[k] = r[k]
  BY <1>4, <1>5, SameAtEach
<1>7. r[k] < r[Len(s) + 1] /\ r[k] \in Nat
  BY <1>3, <1>5, ElementOfSeq DEF Ordered
<1>8. QED
  BY <1>4, <1>6, <1>7

LEMMA OneOrder ==
    ASSUME NEW S, NEW s, Ordered(s, S), NEW r, Ordered(r, S)
    PROVE  s = r
<1>1. Len(s) \in Nat /\ Len(r) \in Nat /\ s \in Seq(Nat) /\ r \in Seq(Nat)
  BY LenProperties DEF Ordered
<1>2. Len(s) = Len(r)
  BY <1>1, NoShorterOrder
<1>3. \A p \in 1..Len(s) : s[p] = r[p]
  BY <1>2, SameAtEach
<1>4. QED
  BY <1>1, <1>2, <1>3, SeqEqual

\* What InOrder chooses is that sequence.
LEMMA InOrderIs ==
    ASSUME NEW S, NEW s, Ordered(s, S)
    PROVE  InOrder(S) = s
<1> DEFINE n == Len(s)
           Order(f) == Range(f) = S /\ \A p, q \in DOMAIN f : p < q => f[p] < f[q]
<1>1. s \in Seq(Nat) /\ n \in Nat /\ s \in [1..n -> Nat] /\ DOMAIN s = 1..n
  BY LenProperties DEF Ordered
<1>2. \A p \in 1..n : s[p] \in S /\ s[p] \in Nat
  BY <1>1 DEF Ordered
<1>3. s \in [1..n -> S]
  BY <1>1, <1>2
<1>4. Range(s) = S
  BY <1>1, <1>2 DEF Range, Ordered
<1>5. Cardinality(S) = n
  <2>1. s \in Surjection(1..n, S)
    BY <1>2, <1>3 DEF Surjection, Ordered
  <2>2. \A p, q \in 1..n : s[p] = s[q] => p = q
    <3>1. SUFFICES ASSUME NEW p \in 1..n, NEW q \in 1..n, s[p] = s[q], p # q PROVE FALSE
      OBVIOUS
    <3>2. p < q \/ q < p
      BY <1>1, <3>1
    <3>3. s[p] < s[q] \/ s[q] < s[p]
      BY <3>1, <3>2 DEF Ordered
    <3>4. QED
      BY <1>2, <3>1, <3>3
  <2>3. s \in Injection(1..n, S)
    BY <1>3, <2>2 DEF Injection, IsInjective
  <2>4. ExistsBijection(1..n, S)
    BY <2>1, <2>3 DEF ExistsBijection, Bijection
  <2>5. QED
    BY <1>1, <2>4, FS_CountingElements
<1>6. Order(s)
  BY <1>1, <1>4 DEF Ordered
<1>7. PICK f \in [1..n -> S] : Order(f) /\ f = InOrder(S)
  BY <1>3, <1>5, <1>6 DEF InOrder
<1>8. Ordered(f, S)
  <2>1. S \subseteq Nat
    BY <1>2, <1>4 DEF Ordered
  <2>2. f \in Seq(Nat) /\ Len(f) = n /\ DOMAIN f = 1..n
    <3>1. f \in [1..n -> Nat]
      BY <1>7, <2>1
    <3>2. QED
      <4> HIDE DEF n
      <4>1. QED
        BY <1>1, <3>1
  <2>3. \A x \in S : \E p \in 1..n : f[p] = x
    BY <1>7, <2>2 DEF Range
  <2>4. QED
    BY <1>7, <2>2, <2>3 DEF Ordered
<1>9. QED
  BY <1>7, <1>8, OneOrder

LEMMA OrderOfNone == Ordered(<<>>, {})
<1>1. <<>> \in Seq(Nat) /\ Len(<<>>) = 0
  BY EmptySeq
<1>2. QED
  BY <1>1 DEF Ordered

\* A number above all others goes to the end.
LEMMA OrderGrows ==
    ASSUME NEW S, NEW s, Ordered(s, S), NEW t \in Nat, \A x \in S : x < t
    PROVE  Ordered(Append(s, t), S \union {t})
<1> DEFINE r == Append(s, t)
<1>1. s \in Seq(Nat) /\ Len(s) \in Nat
  BY LenProperties DEF Ordered
<1>2. /\ r \in Seq(Nat) /\ Len(r) = Len(s) + 1
      /\ \A p \in 1..Len(s) : r[p] = s[p]
      /\ r[Len(s) + 1] = t
  BY <1>1, AppendProperties
<1>3. \A p \in 1..Len(r) : p \in 1..Len(s) \/ p = Len(s) + 1
  BY <1>1, <1>2
<1>4. Len(s) + 1 \in 1..Len(r) /\ \A p \in 1..Len(s) : p \in 1..Len(r)
  BY <1>1, <1>2
<1> HIDE DEF r
<1>5. \A p \in 1..Len(r) : r[p] \in S \union {t}
  BY <1>2, <1>3 DEF Ordered
<1>6. \A x \in S \union {t} : \E p \in 1..Len(r) : r[p] = x
  <2>1. SUFFICES ASSUME NEW x \in S \union {t} PROVE \E p \in 1..Len(r) : r[p] = x
    OBVIOUS
  <2>2. CASE x \in S
    <3>1. PICK p \in 1..Len(s) : s[p] = x
      BY <2>2 DEF Ordered
    <3>2. QED
      BY <1>2, <1>4, <3>1
  <2>3. CASE x = t
    BY <1>2, <1>4, <2>3
  <2>4. QED
    BY <2>1, <2>2, <2>3
<1>7. ASSUME NEW p \in 1..Len(r), NEW q \in 1..Len(r), p < q
      PROVE  r[p] < r[q]
  <2>1. p \in 1..Len(s)
    BY <1>1, <1>2, <1>7
  <2>2. CASE q \in 1..Len(s)
    <3>1. s[p] < s[q]
      BY <1>7, <2>1, <2>2 DEF Ordered
    <3>2. QED
      BY <1>2, <2>1, <2>2, <3>1
  <2>3. CASE q = Len(s) + 1
    <3>1. s[p] < t
      BY <2>1 DEF Ordered
    <3>2. QED
      BY <1>2, <2>1, <2>3, <3>1
  <2>4. QED
    BY <1>3, <2>2, <2>3
<1>8. Ordered(r, S \union {t})
  BY <1>2, <1>5, <1>6, <1>7 DEF Ordered
<1>9. QED
  BY <1>8 DEF r

-----------------------------------------------------------------------------
Least(a, b) == IF a < b THEN a ELSE b

LEMMA WindowConstants ==
    /\ MaxPoints \in Nat /\ MaxPoints > 0 /\ Cores \in Nat /\ Cores > 0 /\ MaxStamp \in Nat
    /\ Near \in Nat /\ Near > 0
  BY ChartsAssumption

LEMMA RecentIs ==
    ASSUME NEW s \in Seq(Nat)
    PROVE  /\ Recent(s) \in Seq(Nat)
           /\ Len(s) \in Nat /\ Len(Recent(s)) \in Nat
           /\ Len(Recent(s)) = Least(Len(s), MaxPoints)
           /\ \A p \in 1..Len(Recent(s)) :
                 /\ Recent(s)[p] = s[Len(s) - Len(Recent(s)) + p]
                 /\ Len(s) - Len(Recent(s)) + p \in 1..Len(s)
<1> DEFINE k == Least(Len(s), MaxPoints)
           m == Len(s) - k + 1
           w == SubSeq(s, m, Len(s))
<1>1. Len(s) \in Nat
  BY LenProperties
<1>2. k \in 0..Len(s) /\ k \in Nat
  BY <1>1, WindowConstants DEF Least
<1>3. Recent(s) = w
  BY DEF Recent, Least
<1>4. m \in Int /\ Len(s) \in Int /\ \A i \in m..Len(s) : s[i] \in Nat
  BY <1>1, <1>2, ElementOfSeq
<1>5. /\ w \in Seq(Nat)
      /\ Len(w) = IF m <= Len(s) THEN Len(s) - m + 1 ELSE 0
      /\ \A i \in 1..(Len(s) - m + 1) : w[i] = s[m + i - 1]
  <2> HIDE DEF m
  <2>1. QED
    BY <1>4, SubSeqProperties
<1>6. Len(w) = k /\ Len(s) - m + 1 = k
  BY <1>1, <1>2, <1>5
<1>7. ASSUME NEW p \in 1..k
      PROVE  w[p] = s[Len(s) - k + p] /\ Len(s) - k + p \in 1..Len(s)
  <2>1. m + p - 1 = Len(s) - k + p
    BY <1>1, <1>2
  <2>2. w[p] = s[m + p - 1]
    BY <1>5, <1>6
  <2>3. Len(s) - k + p \in 1..Len(s)
    <3> HIDE DEF k
    <3>1. QED
      BY <1>1, <1>2
  <2>4. QED
    BY <2>1, <2>2, <2>3
<1> HIDE DEF w, k
<1>8. QED
  BY <1>1, <1>2, <1>3, <1>5, <1>6, <1>7 DEF k

LEMMA WindowedIs ==
    ASSUME NEW s \in Seq(Nat)
    PROVE  /\ Windowed(s) \in Seq(Nat)
           /\ Len(s) <= MaxPoints => Windowed(s) = s
           /\ Len(s) > MaxPoints =>
                 /\ Len(Windowed(s)) = Len(s) - 1
                 /\ \A p \in 1..Len(s) - 1 : Windowed(s)[p] = s[p + 1]
<1>1. Len(s) \in Nat
  BY LenProperties
<1>2. CASE Len(s) <= MaxPoints
  BY <1>1, <1>2, WindowConstants DEF Windowed
<1>3. CASE Len(s) > MaxPoints
  <2>1. s # <<>>
    BY <1>3, WindowConstants, EmptySeq
  <2>2. /\ Tail(s) \in Seq(Nat) /\ Len(Tail(s)) = Len(s) - 1
        /\ \A p \in 1..Len(Tail(s)) : Tail(s)[p] = s[p + 1]
    BY <2>1, HeadTailProperties
  <2>3. Windowed(s) = Tail(s)
    BY <1>3 DEF Windowed
  <2> DEFINE w == Tail(s)
  <2> HIDE DEF w
  <2>4. /\ w \in Seq(Nat) /\ Len(w) = Len(s) - 1
        /\ \A p \in 1..Len(w) : w[p] = s[p + 1]
        /\ Windowed(s) = w
    BY <2>2, <2>3 DEF w
  <2>5. ~ (Len(s) <= MaxPoints)
    BY <1>1, <1>3, WindowConstants
  <2>6. QED
    BY <2>4, <2>5
<1>4. QED
  BY <1>1, <1>2, <1>3, WindowConstants

\* The window slides as the sequence grows.
LEMMA RecentGrows ==
    ASSUME NEW s \in Seq(Nat), NEW t \in Nat
    PROVE  Recent(Append(s, t)) = Windowed(Append(Recent(s), t))
<1> DEFINE r == Append(s, t)
           n == Len(s)
           old == Recent(s)
           new == Recent(r)
           add == Append(old, t)
           win == Windowed(add)
<1>1. /\ n \in Nat /\ r \in Seq(Nat) /\ Len(r) = n + 1
      /\ \A p \in 1..n : r[p] = s[p]
      /\ r[n + 1] = t
  BY LenProperties, AppendProperties
<1>2. /\ old \in Seq(Nat) /\ Len(old) \in Nat /\ Len(old) = Least(n, MaxPoints)
      /\ \A p \in 1..Len(old) : old[p] = s[n - Len(old) + p] /\ n - Len(old) + p \in 1..n
  BY RecentIs
<1>3. /\ new \in Seq(Nat) /\ Len(new) \in Nat /\ Len(new) = Least(n + 1, MaxPoints)
      /\ \A p \in 1..Len(new) : new[p] = r[n + 1 - Len(new) + p]
  <2> HIDE DEF r
  <2>1. /\ new \in Seq(Nat) /\ Len(new) \in Nat /\ Len(new) = Least(Len(r), MaxPoints)
        /\ \A p \in 1..Len(new) : new[p] = r[Len(r) - Len(new) + p]
    BY <1>1, RecentIs
  <2> HIDE DEF new, n
  <2>2. Len(r) = n + 1
    BY <1>1
  <2>3. ASSUME NEW p \in 1..Len(new) PROVE new[p] = r[n + 1 - Len(new) + p]
    <3>1. new[p] = r[Len(r) - Len(new) + p]
      BY <2>1, <2>3
    <3>2. Len(r) - Len(new) + p = n + 1 - Len(new) + p
      BY <1>1, <2>1, <2>2
    <3>3. QED
      BY <3>1, <3>2
  <2>4. Len(new) = Least(n + 1, MaxPoints)
    BY <2>1, <2>2
  <2>5. QED
    BY <2>1, <2>3, <2>4
<1>4. /\ add \in Seq(Nat) /\ Len(add) = Len(old) + 1
      /\ \A p \in 1..Len(old) : add[p] = old[p]
      /\ add[Len(old) + 1] = t
  <2> HIDE DEF old
  <2>1. QED
    BY <1>2, AppendProperties
<1>5. /\ win \in Seq(Nat)
      /\ Len(add) <= MaxPoints => win = add
      /\ Len(add) > MaxPoints =>
            /\ Len(win) = Len(add) - 1
            /\ \A p \in 1..Len(add) - 1 : win[p] = add[p + 1]
  <2> HIDE DEF add
  <2>1. QED
    BY <1>4, WindowedIs
<1>0. MaxPoints \in Nat /\ MaxPoints > 0
  BY WindowConstants
<1> HIDE DEF r, n, old, new, add, win
<1>6. CASE n < MaxPoints
  <2>1. Len(old) = n /\ Len(new) = n + 1 /\ Len(add) = n + 1 /\ Len(add) <= MaxPoints
    BY <1>0, <1>1, <1>2, <1>3, <1>4, <1>6 DEF Least
  <2>2. win = add
    BY <1>5, <2>1
  <2>3. ASSUME NEW p \in 1..n + 1 PROVE new[p] = add[p]
    <3>1. new[p] = r[p]
      <4>1. n + 1 - Len(new) + p = p
        BY <1>1, <2>1
      <4>2. p \in 1..Len(new)
        BY <2>1
      <4>3. new[p] = r[n + 1 - Len(new) + p]
        BY <1>3, <4>2
      <4>4. QED
        BY <4>1, <4>3
    <3>2. CASE p = n + 1
      BY <1>1, <1>4, <2>1, <3>1, <3>2
    <3>3. CASE p \in 1..n
      <4>1. old[p] = s[p]
        BY <1>1, <1>2, <2>1, <3>3
      <4>2. QED
        BY <1>1, <1>4, <2>1, <3>1, <3>3, <4>1
    <3>4. QED
      BY <1>1, <3>2, <3>3
  <2>4. new = add
    BY <1>3, <1>4, <2>1, <2>3, SeqEqual
  <2>5. QED
    BY <2>2, <2>4 DEF new, win, add, old, r
<1>7. CASE ~ (n < MaxPoints)
  <2>1. /\ Len(old) = MaxPoints /\ Len(new) = MaxPoints /\ Len(add) = MaxPoints + 1
        /\ Len(add) > MaxPoints
    BY <1>0, <1>1, <1>2, <1>3, <1>4, <1>7 DEF Least
  <2>2. Len(win) = MaxPoints /\ \A p \in 1..MaxPoints : win[p] = add[p + 1]
    <3>1. Len(add) - 1 = MaxPoints
      BY <1>0, <2>1
    <3>2. QED
      BY <1>5, <2>1, <3>1
  <2>3. ASSUME NEW p \in 1..MaxPoints PROVE new[p] = win[p]
    <3>1. new[p] = r[n + 1 - MaxPoints + p] /\ win[p] = add[p + 1]
      BY <1>3, <2>1, <2>2, <2>3
    <3>2. CASE p = MaxPoints
      <4>1. n + 1 - MaxPoints + p = n + 1 /\ p + 1 = Len(old) + 1
        BY <1>0, <1>1, <2>1, <3>2
      <4>2. QED
        BY <1>1, <1>4, <3>1, <4>1
    <3>3. CASE p \in 1..MaxPoints - 1
      <4>1. p + 1 \in 1..MaxPoints /\ n + 1 - MaxPoints + p \in 1..n
        BY <1>0, <1>1, <1>7, <3>3
      <4>2. add[p + 1] = old[p + 1] /\ r[n + 1 - MaxPoints + p] = s[n + 1 - MaxPoints + p]
        BY <1>1, <1>4, <2>1, <4>1
      <4>3. old[p + 1] = s[n - MaxPoints + (p + 1)]
        BY <1>2, <2>1, <4>1
      <4>4. n - MaxPoints + (p + 1) = n + 1 - MaxPoints + p
        BY <1>0, <1>1, <3>3
      <4>5. QED
        BY <3>1, <4>2, <4>3, <4>4
    <3>4. QED
      BY <1>0, <3>2, <3>3
  <2>4. new = win
    BY <1>0, <1>3, <1>5, <2>1, <2>2, <2>3, SeqEqual
  <2>5. QED
    BY <2>4 DEF new, win, add, old, r
<1>8. QED
  BY <1>6, <1>7

-----------------------------------------------------------------------------
\* A series over xs: the number of each push whose sample was taken.
Marked(xs, taken, k) ==
    [p \in DOMAIN xs |-> IF <<xs[p], k>> \in taken THEN xs[p] ELSE Blank]

LEMMA MarkedIs ==
    ASSUME NEW xs \in Seq(Nat), NEW taken, NEW k
    PROVE  /\ Marked(xs, taken, k) \in Seq(Nat)
           /\ Len(Marked(xs, taken, k)) = Len(xs)
           /\ \A p \in 1..Len(xs) : Marked(xs, taken, k)[p] =
                 IF <<xs[p], k>> \in taken THEN xs[p] ELSE Blank
<1>1. Len(xs) \in Nat /\ DOMAIN xs = 1..Len(xs)
  BY LenProperties
<1>2. \A p \in 1..Len(xs) : xs[p] \in Nat
  BY ElementOfSeq
<1> DEFINE m == Marked(xs, taken, k)
           n == Len(xs)
<1>3. m \in [1..n -> Nat]
  BY <1>1, <1>2 DEF Marked, Blank
<1>4. \A p \in 1..n : m[p] = IF <<xs[p], k>> \in taken THEN xs[p] ELSE Blank
  BY <1>1 DEF Marked
<1> HIDE DEF m
<1>5. m \in Seq(Nat) /\ Len(m) = n
  <2> HIDE DEF n
  <2>1. n \in Nat
    BY <1>1 DEF n
  <2>2. QED
    BY <1>3, <2>1
<1>6. QED
  BY <1>4, <1>5 DEF m

\* A series is the same of any samples that agree where it is drawn.
LEMMA MarkedSame ==
    ASSUME NEW xs \in Seq(Nat), NEW A, NEW B, NEW k,
           \A p \in 1..Len(xs) : <<xs[p], k>> \in A <=> <<xs[p], k>> \in B
    PROVE  Marked(xs, A, k) = Marked(xs, B, k)
<1>1. DOMAIN xs = 1..Len(xs)
  BY LenProperties
<1>2. QED
  BY <1>1 DEF Marked

LEMMA MarkedGrows ==
    ASSUME NEW xs \in Seq(Nat), NEW t \in Nat, NEW taken, NEW k
    PROVE  Marked(Append(xs, t), taken, k) =
              Append(Marked(xs, taken, k), IF <<t, k>> \in taken THEN t ELSE Blank)
<1> DEFINE ys == Append(xs, t)
           m == Marked(xs, taken, k)
           v == IF <<t, k>> \in taken THEN t ELSE Blank
           lhs == Marked(ys, taken, k)
           rhs == Append(m, v)
           n == Len(xs)
<1>1. n \in Nat /\ v \in Nat
  BY LenProperties DEF Blank
<1>2. /\ ys \in Seq(Nat) /\ Len(ys) = n + 1 /\ ys[n + 1] = t
      /\ \A p \in 1..n : ys[p] = xs[p]
  BY AppendProperties
<1>3. /\ m \in Seq(Nat) /\ Len(m) = n
      /\ \A p \in 1..n : m[p] = IF <<xs[p], k>> \in taken THEN xs[p] ELSE Blank
  <2>1. m \in Seq(Nat) /\ Len(m) = n
    BY MarkedIs
  <2>2. ASSUME NEW p \in 1..n
        PROVE  m[p] = IF <<xs[p], k>> \in taken THEN xs[p] ELSE Blank
    BY MarkedIs
  <2>3. QED
    BY <2>1, <2>2
<1>4. /\ lhs \in Seq(Nat) /\ Len(lhs) = n + 1
      /\ \A p \in 1..n + 1 : lhs[p] = IF <<ys[p], k>> \in taken THEN ys[p] ELSE Blank
  <2> HIDE DEF ys
  <2>1. /\ lhs \in Seq(Nat) /\ Len(lhs) = Len(ys)
        /\ \A p \in 1..Len(ys) : lhs[p] = IF <<ys[p], k>> \in taken THEN ys[p] ELSE Blank
    BY <1>2, MarkedIs
  <2>2. QED
    BY <1>2, <2>1
<1>5. /\ rhs \in Seq(Nat) /\ Len(rhs) = n + 1 /\ rhs[n + 1] = v
      /\ \A p \in 1..n : rhs[p] = m[p]
  <2> HIDE DEF m, v
  <2>1. /\ rhs \in Seq(Nat) /\ Len(rhs) = Len(m) + 1 /\ rhs[Len(m) + 1] = v
        /\ \A p \in 1..Len(m) : rhs[p] = m[p]
    BY <1>1, <1>3, AppendProperties
  <2>2. QED
    BY <1>3, <2>1
<1>6. ASSUME NEW p \in 1..n + 1 PROVE lhs[p] = rhs[p]
  <2> HIDE DEF lhs, rhs, m, ys, n
  <2>1. CASE p \in 1..n
    <3>1. ys[p] = xs[p] /\ rhs[p] = m[p]
      BY <1>2, <1>5, <2>1
    <3>2. m[p] = IF <<xs[p], k>> \in taken THEN xs[p] ELSE Blank
      BY <1>3, <2>1
    <3>3. lhs[p] = IF <<ys[p], k>> \in taken THEN ys[p] ELSE Blank
      BY <1>4, <1>6
    <3>4. QED
      BY <3>1, <3>2, <3>3
  <2>2. CASE p = n + 1
    BY <1>2, <1>4, <1>5, <1>6, <2>2
  <2>3. QED
    BY <1>1, <1>6, <2>1, <2>2
<1>7. lhs = rhs
  <2> HIDE DEF lhs, rhs, n
  <2>1. QED
    BY <1>4, <1>5, <1>6, SeqEqual
<1>8. QED
  BY <1>7

LEMMA MarkedSlides ==
    ASSUME NEW xs \in Seq(Nat), NEW taken, NEW k
    PROVE  Windowed(Marked(xs, taken, k)) = Marked(Windowed(xs), taken, k)
<1> DEFINE m == Marked(xs, taken, k)
           ys == Windowed(xs)
           n == Len(xs)
           lhs == Windowed(m)
           rhs == Marked(ys, taken, k)
<1>1. n \in Nat
  BY LenProperties
<1>2. /\ m \in Seq(Nat) /\ Len(m) = n
      /\ \A p \in 1..n : m[p] = IF <<xs[p], k>> \in taken THEN xs[p] ELSE Blank
  BY MarkedIs
<1>3. /\ ys \in Seq(Nat)
      /\ n <= MaxPoints => ys = xs
      /\ n > MaxPoints => Len(ys) = n - 1 /\ \A p \in 1..n - 1 : ys[p] = xs[p + 1]
  BY WindowedIs
<1>4. /\ lhs \in Seq(Nat)
      /\ n <= MaxPoints => lhs = m
      /\ n > MaxPoints => Len(lhs) = n - 1 /\ \A p \in 1..n - 1 : lhs[p] = m[p + 1]
  <2> HIDE DEF m
  <2>1. /\ lhs \in Seq(Nat)
        /\ Len(m) <= MaxPoints => lhs = m
        /\ Len(m) > MaxPoints =>
              Len(lhs) = Len(m) - 1 /\ \A p \in 1..Len(m) - 1 : lhs[p] = m[p + 1]
    BY <1>2, WindowedIs
  <2> HIDE DEF lhs, n
  <2>2. QED
    BY <1>2, <2>1
<1>5. /\ rhs \in Seq(Nat) /\ Len(rhs) = Len(ys)
      /\ \A p \in 1..Len(ys) : rhs[p] = IF <<ys[p], k>> \in taken THEN ys[p] ELSE Blank
  <2> HIDE DEF ys
  <2>1. QED
    BY <1>3, MarkedIs
<1>6. CASE n <= MaxPoints
  BY <1>3, <1>4, <1>6
<1>7. CASE n > MaxPoints
  <2> HIDE DEF lhs, rhs, m, ys
  <2>1. Len(lhs) = n - 1 /\ Len(rhs) = n - 1 /\ Len(ys) = n - 1
    BY <1>3, <1>4, <1>5, <1>7
  <2>2. ASSUME NEW p \in 1..n - 1 PROVE lhs[p] = rhs[p]
    <3>1. p + 1 \in 1..n /\ p \in 1..Len(ys)
      BY <1>1, <2>1, <2>2
    <3>2. lhs[p] = m[p + 1] /\ ys[p] = xs[p + 1]
      BY <1>3, <1>4, <1>7, <2>2
    <3>3. m[p + 1] = IF <<xs[p + 1], k>> \in taken THEN xs[p + 1] ELSE Blank
      BY <1>2, <3>1
    <3>4. rhs[p] = IF <<ys[p], k>> \in taken THEN ys[p] ELSE Blank
      BY <1>5, <3>1
    <3>5. QED
      BY <3>2, <3>3, <3>4
  <2>3. lhs = rhs
    BY <1>4, <1>5, <2>1, <2>2, SeqEqual
  <2>4. QED
    BY <2>3 DEF lhs, rhs, m, ys
<1>8. QED
  <2>1. MaxPoints \in Nat
    BY WindowConstants
  <2>2. QED
    BY <1>1, <1>6, <1>7, <2>1

LEMMA MarkedRecent ==
    ASSUME NEW xs \in Seq(Nat), NEW taken, NEW k
    PROVE  Recent(Marked(xs, taken, k)) = Marked(Recent(xs), taken, k)
<1> DEFINE m == Marked(xs, taken, k)
           ys == Recent(xs)
           n == Len(xs)
           lhs == Recent(m)
           rhs == Marked(ys, taken, k)
<1>1. /\ m \in Seq(Nat) /\ Len(m) = n
      /\ \A p \in 1..n : m[p] = IF <<xs[p], k>> \in taken THEN xs[p] ELSE Blank
  <2>1. m \in Seq(Nat) /\ Len(m) = n
    BY MarkedIs
  <2>2. ASSUME NEW p \in 1..n
        PROVE  m[p] = IF <<xs[p], k>> \in taken THEN xs[p] ELSE Blank
    BY MarkedIs
  <2>3. QED
    BY <2>1, <2>2
<1>2. /\ ys \in Seq(Nat) /\ n \in Nat /\ Len(ys) \in Nat /\ Len(ys) = Least(n, MaxPoints)
      /\ \A p \in 1..Len(ys) : ys[p] = xs[n - Len(ys) + p] /\ n - Len(ys) + p \in 1..n
  BY RecentIs
<1>3. /\ lhs \in Seq(Nat) /\ Len(lhs) = Least(Len(m), MaxPoints)
      /\ \A p \in 1..Len(lhs) : lhs[p] = m[Len(m) - Len(lhs) + p]
  <2> HIDE DEF m
  <2>1. QED
    BY <1>1, RecentIs
<1>4. /\ rhs \in Seq(Nat) /\ Len(rhs) = Len(ys)
      /\ \A p \in 1..Len(ys) : rhs[p] = IF <<ys[p], k>> \in taken THEN ys[p] ELSE Blank
  <2> HIDE DEF ys
  <2>1. rhs \in Seq(Nat) /\ Len(rhs) = Len(ys)
    BY <1>2, MarkedIs
  <2>2. ASSUME NEW p \in 1..Len(ys)
        PROVE  rhs[p] = IF <<ys[p], k>> \in taken THEN ys[p] ELSE Blank
    <3>1. ys \in Seq(Nat)
      BY <1>2
    <3>2. QED
      BY <3>1, <2>2, MarkedIs
  <2>3. QED
    BY <2>1, <2>2
<1> HIDE DEF m, ys, lhs, rhs, n
<1>5. Len(lhs) = Len(ys)
  BY <1>1, <1>2, <1>3
<1>6. ASSUME NEW p \in 1..Len(ys) PROVE lhs[p] = rhs[p]
  <2>1. Len(m) - Len(lhs) + p = n - Len(ys) + p
    BY <1>1, <1>2, <1>5
  <2>2. lhs[p] = m[n - Len(ys) + p]
    <3>1. p \in 1..Len(lhs)
      BY <1>5, <1>6
    <3>2. lhs[p] = m[Len(m) - Len(lhs) + p]
      BY <1>3, <3>1
    <3>3. QED
      BY <2>1, <3>2
  <2>3. n - Len(ys) + p \in 1..n /\ ys[p] = xs[n - Len(ys) + p]
    BY <1>2, <1>6
  <2>4. m[n - Len(ys) + p] = IF <<ys[p], k>> \in taken THEN ys[p] ELSE Blank
    BY <1>1, <2>3
  <2>5. rhs[p] = IF <<ys[p], k>> \in taken THEN ys[p] ELSE Blank
    BY <1>4, <1>6
  <2>6. QED
    BY <2>2, <2>4, <2>5
<1>7. lhs = rhs
  BY <1>3, <1>4, <1>5, <1>6, SeqEqual
<1>8. QED
  BY <1>7 DEF lhs, rhs, m, ys

-----------------------------------------------------------------------------
(***************************************************************************)
(* Charts: the invariant.                                                  *)
(***************************************************************************)

Kinds == Total..App

\* A push's samples come in the order of their kinds, and none again.
ComingInv ==
    /\ chListener \in {"idle", "attaching", "listening"}
    /\ chStamp \in 0..MaxStamp /\ chSeen \subseteq Stamps \X Kinds
    /\ chComing \in Seq(Kinds)
    /\ chComing # <<>> => chStamp # 0
    /\ \A p, q \in 1..Len(chComing) : p < q => chComing[p] < chComing[q]
    /\ \A r \in chSeen : r[1] <= chStamp
    /\ \A k \in Kinds : <<chStamp, k>> \in chSeen =>
          \A p \in 1..Len(chComing) : k < chComing[p]

Totals(taken) == {t \in Stamps : <<t, Total>> \in taken}

\* What the application's line may hold at a point: what the recorded chart
\* draws there, or the value of a push without a total.
Filled(taken, xs, p, v) ==
    \/ v = (IF <<xs[p], App>> \in taken THEN xs[p] ELSE Blank)
    \/ OfAnotherPush(taken, xs, p, v)

\* The totals' stamps can be put in order, and the chart shows their window.
CpuInv ==
    /\ chCpu \in [xs : Seq(Nat), app : Seq(Nat)]
    /\ Ordered(InOrder(Totals(chSeen)), Totals(chSeen))
    /\ chCpu.xs = Recent(InOrder(Totals(chSeen)))
    /\ Len(chCpu.app) = Len(chCpu.xs)
    /\ \A p \in 1..Len(chCpu.xs) : Filled(chSeen, chCpu.xs, p, chCpu.app[p])

\* What reaches the window is new, and the latest of its push.
LEMMA ReceivedIs ==
    ASSUME ComingInv, ChReceive
    PROVE  /\ Head(chComing) \in Kinds /\ chStamp \in Stamps
           /\ \A k \in Kinds : <<chStamp, k>> \in chSeen => k < Head(chComing)
           /\ \A r \in chSeen : r[1] \in Stamps /\ r[2] \in Kinds /\ r[1] <= chStamp
           /\ chSeen' = chSeen \union {<<chStamp, Head(chComing)>>}
<1>1. chComing # <<>> /\ chComing \in Seq(Kinds) /\ chStamp # 0 /\ chStamp \in 0..MaxStamp
  BY DEF ChReceive, ComingInv
<1>2. Len(chComing) \in Nat /\ 1 \in 1..Len(chComing) /\ Head(chComing) = chComing[1]
  <2>1. Len(chComing) \in Nat /\ Len(chComing) # 0
    BY <1>1, EmptySeq, LenProperties
  <2>2. QED
    BY <1>1, <2>1
<1>3. Head(chComing) \in Kinds
  BY <1>1, <1>2, ElementOfSeq
<1>4. chStamp \in Stamps
  BY <1>1, WindowConstants DEF Stamps
<1>5. \A k \in Kinds : <<chStamp, k>> \in chSeen => k < Head(chComing)
  BY <1>2 DEF ComingInv
<1>6. chSeen' = chSeen \union {<<chStamp, Head(chComing)>>}
  BY DEF ChReceive
<1>7. \A r \in chSeen : r[1] \in Stamps /\ r[2] \in Kinds /\ r[1] <= chStamp
  BY DEF ComingInv
<1>8. QED
  BY <1>3, <1>4, <1>5, <1>6, <1>7

\* The rest of a push is as it was.
LEMMA RestIs ==
    ASSUME ComingInv, chComing # <<>>
    PROVE  /\ Tail(chComing) \in Seq(Kinds)
           /\ Head(chComing) = chComing[1]
           /\ \A p \in 1..Len(Tail(chComing)) :
                 /\ p + 1 \in 1..Len(chComing) /\ p \in Nat
                 /\ Tail(chComing)[p] = chComing[p + 1]
                 /\ Head(chComing) < Tail(chComing)[p]
<1> DEFINE rest == Tail(chComing)
<1>1. chComing \in Seq(Kinds) /\ chComing # <<>>
  BY DEF ComingInv
<1>2. /\ rest \in Seq(Kinds) /\ Len(rest) = Len(chComing) - 1
      /\ \A p \in 1..Len(rest) : rest[p] = chComing[p + 1]
  BY <1>1, HeadTailProperties
<1>3. Len(chComing) \in Nat /\ Len(chComing) # 0
  BY <1>1, EmptySeq, LenProperties
<1>4. Head(chComing) = chComing[1]
  BY <1>1
<1> HIDE DEF rest
<1>5. ASSUME NEW p \in 1..Len(rest)
      PROVE  /\ p + 1 \in 1..Len(chComing) /\ p \in Nat
             /\ rest[p] = chComing[p + 1] /\ Head(chComing) < rest[p]
  <2>1. p + 1 \in 1..Len(chComing) /\ p \in Nat /\ 1 \in 1..Len(chComing) /\ 1 < p + 1
    BY <1>2, <1>3, <1>5
  <2>2. chComing[1] < chComing[p + 1]
    BY <2>1 DEF ComingInv
  <2>3. QED
    BY <1>2, <1>4, <1>5, <2>1, <2>2
<1>6. QED
  BY <1>2, <1>4, <1>5 DEF rest

LEMMA RestInOrder ==
    ASSUME ComingInv, chComing # <<>>, chComing' = Tail(chComing)
    PROVE  /\ chComing' \in Seq(Kinds)
           /\ \A p, q \in 1..Len(chComing') : p < q => chComing'[p] < chComing'[q]
           /\ \A p \in 1..Len(chComing') : Head(chComing) < chComing'[p]
<1> DEFINE rest == Tail(chComing)
<1>1. /\ rest \in Seq(Kinds)
      /\ \A p \in 1..Len(rest) :
            /\ p + 1 \in 1..Len(chComing) /\ p \in Nat
            /\ rest[p] = chComing[p + 1] /\ Head(chComing) < rest[p]
  BY RestIs
<1> HIDE DEF rest
<1>2. ASSUME NEW p \in 1..Len(rest), NEW q \in 1..Len(rest), p < q PROVE rest[p] < rest[q]
  <2>1. /\ p + 1 \in 1..Len(chComing) /\ q + 1 \in 1..Len(chComing)
        /\ p \in Nat /\ q \in Nat
        /\ rest[p] = chComing[p + 1] /\ rest[q] = chComing[q + 1]
    BY <1>1, <1>2
  <2>2. p + 1 < q + 1
    BY <1>2, <2>1
  <2>3. chComing[p + 1] < chComing[q + 1]
    BY <2>1, <2>2 DEF ComingInv
  <2>4. QED
    BY <2>1, <2>3
<1>3. chComing' = rest
  BY DEF rest
<1>4. QED
  BY <1>1, <1>2, <1>3

LEMMA ComingStep ==
    ASSUME ComingInv, [ChNext]_chVars
    PROVE  ComingInv'
<1>1. ASSUME ChActivate PROVE ComingInv'
  <2>1. chComing' = <<>> /\ chSeen' = {} /\ chStamp' = 0 /\ chListener' = "attaching"
    BY <1>1 DEF ChActivate
  <2>2. <<>> \in Seq(Kinds) /\ Len(<<>>) = 0
    BY EmptySeq
  <2>3. QED
    BY <2>1, <2>2, WindowConstants DEF ComingInv
<1>2. ASSUME ChListen \/ ChDeactivate \/ UNCHANGED chVars PROVE ComingInv'
  BY <1>2 DEF ChListen, ChDeactivate, chVars, ComingInv
<1>3. ASSUME NEW n \in 1..Cores, NEW gap \in 1..Near, ChSample(n, gap) PROVE ComingInv'
  <2> DEFINE mid == [k \in 1..n |-> k]
             s1 == <<Total>> \o mid
             s2 == s1 \o <<App>>
  <2>0. n \in Nat /\ n <= Cores /\ Cores \in Nat /\ App = Cores + 1 /\ Total = 0
    BY WindowConstants DEF App, Total
  <2>1. mid \in Seq(Kinds) /\ Len(mid) = n /\ \A k \in 1..n : mid[k] = k
    <3>1. \A k \in 1..n : k \in Kinds
      BY <2>0 DEF Kinds
    <3>2. mid \in [1..n -> Kinds]
      BY <3>1
    <3>3. QED
      <4> HIDE DEF mid
      <4>1. mid \in Seq(Kinds) /\ Len(mid) = n
        BY <2>0, <3>2
      <4>2. QED
        BY <4>1 DEF mid
  <2>2. /\ <<Total>> \in Seq(Kinds) /\ Len(<<Total>>) = 1 /\ <<Total>>[1] = Total
        /\ <<App>> \in Seq(Kinds) /\ Len(<<App>>) = 1 /\ <<App>>[1] = App
    <3>1. Total \in Kinds /\ App \in Kinds
      BY <2>0 DEF Kinds
    <3>2. QED
      BY <3>1
  <2>3. /\ s1 \in Seq(Kinds) /\ Len(s1) = n + 1
        /\ \A p \in 1..n + 1 : s1[p] = p - 1
    <3> DEFINE a == <<Total>>
    <3> HIDE DEF mid, a
    <3>1. /\ a \o mid \in Seq(Kinds) /\ Len(a \o mid) = Len(a) + Len(mid)
          /\ \A p \in 1..Len(a) + Len(mid) :
                (a \o mid)[p] = IF p <= Len(a) THEN a[p] ELSE mid[p - Len(a)]
      <4>1. a \in Seq(Kinds)
        BY <2>2 DEF a
      <4>2. QED
        BY <2>1, <4>1, ConcatProperties
    <3>2. Len(a) = 1 /\ a[1] = 0
      BY <2>0, <2>2 DEF a
    <3>3. Len(a \o mid) = n + 1 /\ Len(a) + Len(mid) = n + 1
      BY <2>0, <2>1, <3>1, <3>2
    <3>4. ASSUME NEW p \in 1..n + 1 PROVE (a \o mid)[p] = p - 1
      <4>1. (a \o mid)[p] = IF p <= 1 THEN a[p] ELSE mid[p - 1]
        BY <3>1, <3>2, <3>3, <3>4
      <4>2. CASE p = 1
        BY <3>2, <4>1, <4>2
      <4>3. CASE p # 1
        <5>1. p - 1 \in 1..n /\ ~ (p <= 1)
          BY <2>0, <3>4, <4>3
        <5>2. QED
          BY <2>1, <4>1, <5>1
      <4>4. QED
        BY <4>2, <4>3
    <3>5. QED
      BY <3>1, <3>3, <3>4 DEF a
  <2>4. /\ s2 \in Seq(Kinds) /\ Len(s2) = n + 2
        /\ \A p \in 1..n + 1 : s2[p] = p - 1
        /\ s2[n + 2] = Cores + 1
    <3> DEFINE b == <<App>>
    <3> HIDE DEF s1, b
    <3>1. /\ s1 \o b \in Seq(Kinds) /\ Len(s1 \o b) = Len(s1) + Len(b)
          /\ \A p \in 1..Len(s1) + Len(b) :
                (s1 \o b)[p] = IF p <= Len(s1) THEN s1[p] ELSE b[p - Len(s1)]
      <4>1. b \in Seq(Kinds)
        BY <2>2 DEF b
      <4>2. QED
        BY <2>3, <4>1, ConcatProperties
    <3>2. Len(b) = 1 /\ b[1] = Cores + 1
      BY <2>0, <2>2 DEF b
    <3>3. Len(s1 \o b) = n + 2 /\ Len(s1) + Len(b) = n + 2
      BY <2>0, <2>3, <3>1, <3>2
    <3>4. ASSUME NEW p \in 1..n + 1 PROVE (s1 \o b)[p] = p - 1
      <4>1. p \in 1..n + 2 /\ p <= n + 1
        BY <2>0, <3>4
      <4>2. QED
        BY <2>3, <3>1, <3>3, <4>1
    <3>5. (s1 \o b)[n + 2] = Cores + 1
      <4>1. n + 2 \in 1..n + 2 /\ ~ (n + 2 <= n + 1) /\ n + 2 - (n + 1) = 1
        BY <2>0
      <4>2. (s1 \o b)[n + 2] = b[n + 2 - (n + 1)]
        BY <2>3, <3>1, <3>3, <4>1
      <4>3. QED
        BY <3>2, <4>1, <4>2
    <3>6. QED
      BY <3>1, <3>3, <3>4, <3>5 DEF b
  <2> HIDE DEF s2
  <2>5. /\ chComing' = s2 /\ chStamp' = chStamp + gap /\ chStamp + gap <= MaxStamp
        /\ chSeen' = chSeen /\ chListener' = chListener
    BY <1>3 DEF ChSample, s2
  <2>6. ASSUME NEW p \in 1..Len(s2), NEW q \in 1..Len(s2), p < q PROVE s2[p] < s2[q]
    <3>1. p \in 1..n + 1 /\ (q \in 1..n + 1 \/ q = n + 2)
      BY <2>0, <2>4, <2>6
    <3>2. s2[p] = p - 1 /\ (s2[q] = q - 1 \/ s2[q] = Cores + 1)
      BY <2>4, <3>1
    <3>3. QED
      BY <2>0, <2>6, <3>1, <3>2
  <2>7. chStamp \in 0..MaxStamp /\ chStamp' \in 0..MaxStamp /\ chStamp' # 0 /\ chStamp < chStamp'
    BY <2>5, WindowConstants DEF ComingInv
  <2>8. \A r \in chSeen' : r[1] <= chStamp' /\ r[1] # chStamp'
    <3>1. \A r \in chSeen : r[1] <= chStamp /\ r[1] \in Nat
      BY WindowConstants DEF ComingInv, Stamps
    <3>2. QED
      BY <2>5, <2>7, <3>1
  <2>9. \A k \in Kinds : <<chStamp', k>> \notin chSeen'
    BY <2>8
  <2>10. QED
    BY <2>4, <2>5, <2>6, <2>7, <2>8, <2>9 DEF ComingInv
<1>4. ASSUME ChMiss PROVE ComingInv'
  <2>1. /\ chComing # <<>> /\ chComing' = Tail(chComing)
        /\ UNCHANGED <<chListener, chStamp, chSeen>>
    BY <1>4 DEF ChMiss
  <2>2. /\ chComing' \in Seq(Kinds)
        /\ \A p, q \in 1..Len(chComing') : p < q => chComing'[p] < chComing'[q]
    BY <2>1, RestInOrder
  <2>3. ASSUME NEW k \in Kinds, <<chStamp, k>> \in chSeen, NEW p \in 1..Len(chComing')
        PROVE  k < chComing'[p]
    <3>1. p + 1 \in 1..Len(chComing) /\ chComing'[p] = chComing[p + 1]
      BY <2>1, <2>3, RestIs
    <3>2. QED
      BY <2>3, <3>1 DEF ComingInv
  <2>4. QED
    BY <2>1, <2>2, <2>3 DEF ComingInv
<1>5. ASSUME ChReceive PROVE ComingInv'
  <2>1. /\ chComing # <<>> /\ chComing' = Tail(chComing)
        /\ UNCHANGED <<chListener, chStamp>>
    BY <1>5 DEF ChReceive
  <2>2. /\ chComing' \in Seq(Kinds)
        /\ \A p, q \in 1..Len(chComing') : p < q => chComing'[p] < chComing'[q]
        /\ \A p \in 1..Len(chComing') : Head(chComing) < chComing'[p] /\ chComing'[p] \in Kinds
    <3>1. chComing' \in Seq(Kinds)
      BY <2>1, RestInOrder
    <3>2. \A p \in 1..Len(chComing') : chComing'[p] \in Kinds
      BY <3>1, ElementOfSeq
    <3>3. QED
      BY <2>1, <3>1, <3>2, RestInOrder
  <2>3. /\ Head(chComing) \in Kinds /\ chStamp \in Stamps
        /\ \A k \in Kinds : <<chStamp, k>> \in chSeen => k < Head(chComing)
        /\ chSeen' = chSeen \union {<<chStamp, Head(chComing)>>}
    BY <1>5, ReceivedIs
  <2>4. chSeen' \subseteq Stamps \X Kinds /\ \A r \in chSeen' : r[1] <= chStamp
    <3>1. chStamp \in Int
      BY WindowConstants DEF ComingInv
    <3>2. QED
      BY <2>3, <3>1 DEF ComingInv
  <2>5. ASSUME NEW k \in Kinds, <<chStamp, k>> \in chSeen', NEW p \in 1..Len(chComing')
        PROVE  k < chComing'[p]
    <3>1. k = Head(chComing) \/ k < Head(chComing)
      BY <2>3, <2>5
    <3>2. k \in Int /\ Head(chComing) \in Int /\ chComing'[p] \in Int
      BY <2>2, <2>3, <2>5, WindowConstants DEF Kinds, Total, App
    <3>3. QED
      BY <2>2, <2>5, <3>1, <3>2
  <2>6. QED
    BY <2>1, <2>2, <2>3, <2>4, <2>5 DEF ComingInv
<1>6. QED
  BY <1>1, <1>2, <1>3, <1>4, <1>5 DEF ChNext

-----------------------------------------------------------------------------
(***************************************************************************)
(* LiveCpuChart: the total opens a point, the application fills it in.     *)
(***************************************************************************)

LEMMA EmptyWindow ==
    /\ Recent(<<>>) = <<>> /\ \A taken, k : Marked(<<>>, taken, k) = <<>>
    /\ Ordered(InOrder({}), {}) /\ InOrder({}) = <<>>
<1>1. <<>> \in Seq(Nat) /\ Len(<<>>) = 0 /\ DOMAIN <<>> = {}
  BY EmptySeq
<1>2. Recent(<<>>) = <<>>
  <2>1. /\ Recent(<<>>) \in Seq(Nat) /\ Len(Recent(<<>>)) = Least(0, MaxPoints)
    BY <1>1, RecentIs
  <2>2. Least(0, MaxPoints) = 0
    BY WindowConstants DEF Least
  <2>3. QED
    BY <2>1, <2>2, EmptySeq
<1>3. \A taken, k : Marked(<<>>, taken, k) = <<>>
  <2>1. SUFFICES ASSUME NEW taken, NEW k PROVE Marked(<<>>, taken, k) = <<>>
    OBVIOUS
  <2>2. Marked(<<>>, taken, k) \in Seq(Nat) /\ Len(Marked(<<>>, taken, k)) = 0
    BY <1>1, MarkedIs
  <2>3. QED
    BY <2>2, EmptySeq
<1>4. InOrder({}) = <<>>
  BY OrderOfNone, InOrderIs
<1>5. QED
  BY <1>2, <1>3, <1>4, OrderOfNone

LEMMA NextPlace ==
    ASSUME NEW n \in Nat, NEW p \in Nat, NEW q \in 1..n - 1, q > p
    PROVE  q + 1 \in 1..n /\ q + 1 > p + 1
  OBVIOUS

\* The oldest point of both lines goes.
LEMMA FilledSlides ==
    ASSUME NEW taken, NEW xs \in Seq(Nat), NEW app \in Seq(Nat), Len(app) = Len(xs),
           \A p \in 1..Len(xs) : Filled(taken, xs, p, app[p])
    PROVE  /\ Windowed(xs) \in Seq(Nat) /\ Windowed(app) \in Seq(Nat)
           /\ Len(Windowed(app)) = Len(Windowed(xs))
           /\ \A p \in 1..Len(Windowed(xs)) :
                 Filled(taken, Windowed(xs), p, Windowed(app)[p])
<1> DEFINE ys == Windowed(xs)
           bs == Windowed(app)
           n == Len(xs)
<1>1. n \in Nat /\ MaxPoints \in Nat
  BY LenProperties, WindowConstants
<1>2. /\ ys \in Seq(Nat)
      /\ n <= MaxPoints => ys = xs
      /\ n > MaxPoints => Len(ys) = n - 1 /\ \A p \in 1..n - 1 : ys[p] = xs[p + 1]
  BY WindowedIs
<1>3. /\ bs \in Seq(Nat)
      /\ n <= MaxPoints => bs = app
      /\ n > MaxPoints => Len(bs) = n - 1 /\ \A p \in 1..n - 1 : bs[p] = app[p + 1]
  BY WindowedIs
<1> HIDE DEF ys, bs
<1>4. CASE n <= MaxPoints
  BY <1>2, <1>3, <1>4 DEF ys, bs
<1>5. CASE n > MaxPoints
  <2>1. Len(ys) = n - 1 /\ Len(bs) = n - 1 /\ DOMAIN ys = 1..n - 1
    BY <1>2, <1>3, <1>5, LenProperties
  <2>2. ASSUME NEW p \in 1..n - 1 PROVE Filled(taken, ys, p, bs[p])
    <3>1. p + 1 \in 1..n /\ p \in Nat
      BY <1>1, <2>2
    <3>2. ys[p] = xs[p + 1] /\ bs[p] = app[p + 1]
      BY <1>2, <1>3, <1>5, <2>2
    <3>3. Filled(taken, xs, p + 1, app[p + 1])
      BY <3>1
    <3>4. CASE OfAnotherPush(taken, xs, p + 1, app[p + 1])
      <4> DEFINE v == app[p + 1]
      <4>1. /\ v \in xs[p + 1] + 1..xs[p + 1] + Near - 1
            /\ <<v, App>> \in taken /\ <<v, Total>> \notin taken
            /\ \A q \in DOMAIN xs : q > p + 1 => v < xs[q]
        BY <3>4 DEF OfAnotherPush
      <4> HIDE DEF v
      <4>2. ASSUME NEW q \in DOMAIN ys, q > p PROVE v < ys[q]
        <5>1. q \in 1..n - 1
          BY <2>1, <4>2
        <5>2. q + 1 \in 1..n /\ q + 1 > p + 1
          <6>1. q > p
            BY <4>2
          <6>2. QED
            BY <1>1, <3>1, <5>1, <6>1, NextPlace
        <5>3. q + 1 \in DOMAIN xs
          BY <5>2, LenProperties
        <5>4. ys[q] = xs[q + 1]
          BY <1>2, <1>5, <5>1
        <5>5. QED
          BY <4>1, <5>2, <5>3, <5>4
      <4>3. v \in ys[p] + 1..ys[p] + Near - 1
        BY <3>2, <4>1
      <4>4. OfAnotherPush(taken, ys, p, v)
        BY <4>1, <4>2, <4>3 DEF OfAnotherPush
      <4>5. QED
        BY <3>2, <4>4 DEF v, Filled
    <3>5. CASE app[p + 1] = (IF <<xs[p + 1], App>> \in taken THEN xs[p + 1] ELSE Blank)
      BY <3>2, <3>5 DEF Filled
    <3>6. QED
      BY <3>3, <3>4, <3>5 DEF Filled
  <2>3. QED
    BY <1>2, <1>3, <2>1, <2>2 DEF ys, bs
<1>6. QED
  BY <1>1, <1>4, <1>5

LEMMA TotalStep ==
    ASSUME ComingInv, CpuInv, ChReceive, Head(chComing) = Total
    PROVE  CpuInv'
<1> DEFINE S == Totals(chSeen)
           s == InOrder(S)
           t == chStamp
           ys == Append(chCpu.xs, t)
<1>1. /\ t \in Stamps /\ t \in Nat
      /\ \A k \in Kinds : <<t, k>> \notin chSeen
      /\ \A r \in chSeen : r[1] \in Stamps /\ r[2] \in Kinds /\ r[1] <= t
      /\ chSeen' = chSeen \union {<<t, Total>>}
      /\ chCpu' = TotalArrives(chCpu, t)
  <2>1. \A k \in Kinds : ~ (k < Total)
    BY WindowConstants DEF Kinds, Total, App
  <2>2. t \in Stamps => t \in Nat
    BY WindowConstants DEF Stamps
  <2>3. chCpu' = TotalArrives(chCpu, t)
    <3>1. App # Total
      BY WindowConstants DEF Total, App
    <3>2. QED
      BY <3>1 DEF ChReceive
  <2>4. QED
    BY <2>1, <2>2, <2>3, ReceivedIs
<1>2. Total \in Kinds /\ App \in Kinds /\ Total # App
  BY WindowConstants DEF Kinds, Total, App
<1>3. Totals(chSeen') = S \union {t}
  BY <1>1 DEF Totals
<1>4. \A x \in S : x \in Nat /\ x < t
  <2>1. SUFFICES ASSUME NEW x \in S PROVE x \in Nat /\ x < t
    OBVIOUS
  <2>2. <<x, Total>> \in chSeen /\ x \in Stamps
    BY DEF Totals
  <2>3. x <= t /\ x # t /\ x \in Nat
    BY <1>1, <1>2, <2>2, WindowConstants DEF Stamps
  <2>4. QED
    BY <1>1, <2>3
<1>5. /\ Ordered(s, S) /\ chCpu.xs = Recent(s)
      /\ chCpu.xs \in Seq(Nat) /\ chCpu.app \in Seq(Nat)
  BY DEF CpuInv
<1>6. Ordered(Append(s, t), S \union {t})
  <2> HIDE DEF s, S
  <2>1. QED
    BY <1>1, <1>4, <1>5, OrderGrows
<1>7. InOrder(S \union {t}) = Append(s, t) /\ s \in Seq(Nat)
  <2> HIDE DEF s
  <2>1. QED
    BY <1>5, <1>6, InOrderIs DEF Ordered
<1>8. Recent(Append(s, t)) = Windowed(ys)
  <2> HIDE DEF s
  <2>1. QED
    BY <1>1, <1>5, <1>7, RecentGrows
<1>9. /\ chCpu'.xs = Windowed(ys)
      /\ chCpu'.app = Windowed(Append(chCpu.app, Blank))
      /\ chCpu' = [xs |-> Windowed(ys), app |-> Windowed(Append(chCpu.app, Blank))]
  BY <1>1 DEF TotalArrives
<1> DEFINE bs == Append(chCpu.app, Blank)
           n == Len(chCpu.xs)
<1>10. n \in Nat /\ Len(chCpu.app) = n
  <2>1. Len(chCpu.app) = Len(chCpu.xs)
    BY DEF CpuInv
  <2>2. QED
    BY <1>5, <2>1, LenProperties
<1>11. /\ ys \in Seq(Nat) /\ Len(ys) = n + 1 /\ ys[n + 1] = t
       /\ \A p \in 1..n : ys[p] = chCpu.xs[p]
  BY <1>1, <1>5, AppendProperties
<1>12. /\ bs \in Seq(Nat) /\ Len(bs) = n + 1 /\ bs[n + 1] = Blank
       /\ \A p \in 1..n : bs[p] = chCpu.app[p]
  <2>1. Blank \in Nat
    BY DEF Blank
  <2>2. QED
    BY <1>5, <1>10, <2>1, AppendProperties
<1> HIDE DEF s, S, ys, bs
<1>13. ASSUME NEW p \in 1..n + 1 PROVE Filled(chSeen', ys, p, bs[p])
  <2>1. CASE p \in 1..n
    <3>1. Filled(chSeen, chCpu.xs, p, chCpu.app[p])
      BY <2>1 DEF CpuInv
    <3>2. ys[p] = chCpu.xs[p] /\ bs[p] = chCpu.app[p]
      BY <1>11, <1>12, <2>1
    <3>3. CASE OfAnotherPush(chSeen, chCpu.xs, p, chCpu.app[p])
      <4> DEFINE v == chCpu.app[p]
      <4>1. /\ v \in chCpu.xs[p] + 1..chCpu.xs[p] + Near - 1
            /\ <<v, App>> \in chSeen /\ <<v, Total>> \notin chSeen
            /\ \A q \in 1..n : q > p => v < chCpu.xs[q]
        <5>1. DOMAIN chCpu.xs = 1..n
          BY <1>5, LenProperties
        <5>2. QED
          BY <3>3, <5>1 DEF OfAnotherPush
      <4>2. v \in Nat /\ v # t /\ v < t
        <5>1. v \in Stamps /\ v <= t
          BY <1>1, <4>1
        <5>2. v # t
          BY <1>1, <1>2, <4>1
        <5>3. QED
          BY <1>1, <5>1, <5>2, WindowConstants DEF Stamps
      <4>3. <<v, App>> \in chSeen' /\ <<v, Total>> \notin chSeen'
        BY <1>1, <4>1, <4>2
      <4>4. ASSUME NEW q \in DOMAIN ys, q > p PROVE v < ys[q]
        <5>0. DOMAIN ys = 1..n + 1
          BY <1>11, LenProperties
        <5>1. q \in 1..n \/ q = n + 1
          BY <1>10, <4>4, <5>0
        <5>2. QED
          BY <1>11, <4>1, <4>2, <4>4, <5>1
      <4> HIDE DEF v
      <4>5. v \in ys[p] + 1..ys[p] + Near - 1
        BY <3>2, <4>1
      <4>6. OfAnotherPush(chSeen', ys, p, v)
        BY <4>3, <4>4, <4>5 DEF OfAnotherPush
      <4>7. QED
        BY <3>2, <4>6 DEF v, Filled
    <3>4. CASE chCpu.app[p] = (IF <<chCpu.xs[p], App>> \in chSeen THEN chCpu.xs[p] ELSE Blank)
      <4>1. <<ys[p], App>> \in chSeen <=> <<ys[p], App>> \in chSeen'
        BY <1>1, <1>2
      <4>2. QED
        BY <3>2, <3>4, <4>1 DEF Filled
    <3>5. QED
      BY <3>1, <3>3, <3>4 DEF Filled
  <2>2. CASE p = n + 1
    <3>1. ys[p] = t /\ bs[p] = Blank
      BY <1>11, <1>12, <2>2
    <3>2. <<t, App>> \notin chSeen'
      BY <1>1, <1>2
    <3>3. QED
      BY <3>1, <3>2 DEF Filled
  <2>3. QED
    BY <1>10, <1>13, <2>1, <2>2
<1>14. /\ Windowed(ys) \in Seq(Nat) /\ Windowed(bs) \in Seq(Nat)
       /\ Len(Windowed(bs)) = Len(Windowed(ys))
       /\ \A p \in 1..Len(Windowed(ys)) : Filled(chSeen', Windowed(ys), p, Windowed(bs)[p])
  BY <1>10, <1>11, <1>12, <1>13, FilledSlides
<1>15. /\ chCpu'.xs = Windowed(ys) /\ chCpu'.app = Windowed(bs)
       /\ chCpu' = [xs |-> Windowed(ys), app |-> Windowed(bs)]
  BY <1>9 DEF bs
<1>16. chCpu' \in [xs : Seq(Nat), app : Seq(Nat)]
  BY <1>14, <1>15
<1>17. /\ Ordered(InOrder(Totals(chSeen')), Totals(chSeen'))
       /\ chCpu'.xs = Recent(InOrder(Totals(chSeen')))
  BY <1>3, <1>6, <1>7, <1>8, <1>15
<1>18. QED
  BY <1>14, <1>15, <1>16, <1>17 DEF CpuInv

\* The last point of the window is that of the latest total.
LEMMA LastTotal ==
    ASSUME CpuInv, NEW t \in Nat, \A x \in Totals(chSeen) : x \in Nat /\ x <= t
    PROVE  /\ \A p \in 1..Len(chCpu.xs) : chCpu.xs[p] \in Totals(chSeen)
           /\ t \in Totals(chSeen) =>
                 /\ chCpu.xs # <<>> /\ Len(chCpu.xs) \in Nat /\ Len(chCpu.xs) > 0
                 /\ chCpu.xs[Len(chCpu.xs)] = t
                 /\ \A p \in 1..Len(chCpu.xs) - 1 : chCpu.xs[p] # t
<1> DEFINE S == Totals(chSeen)
           s == InOrder(S)
           xs == Recent(s)
           n == Len(s)
           m == Len(xs)
<1>1. Ordered(s, S) /\ chCpu.xs = xs /\ s \in Seq(Nat)
  BY DEF CpuInv, Ordered
<1>2. /\ n \in Nat /\ m \in Nat /\ m = Least(n, MaxPoints) /\ xs \in Seq(Nat)
      /\ \A p \in 1..m : xs[p] = s[n - m + p] /\ n - m + p \in 1..n
  <2> HIDE DEF s
  <2>1. QED
    BY <1>1, RecentIs
<1>3. \A p \in 1..n : s[p] \in S
  BY <1>1 DEF Ordered
<1> HIDE DEF s, xs, n, m
<1>4. \A p \in 1..m : xs[p] \in S
  BY <1>2, <1>3
<1>5. ASSUME t \in S
      PROVE  /\ xs # <<>> /\ m > 0 /\ xs[m] = t
             /\ \A p \in 1..m - 1 : xs[p] # t
  <2>1. PICK k \in 1..n : s[k] = t
    BY <1>1, <1>5 DEF Ordered, n
  <2>2. n > 0 /\ n \in 1..n /\ m > 0
    BY <1>2, <2>1, WindowConstants DEF Least
  <2>3. k = n
    <3>1. SUFFICES ASSUME k < n PROVE FALSE
      BY <1>2, <2>1
    <3>2. s[k] < s[n]
      BY <1>1, <2>1, <2>2, <3>1 DEF Ordered, n
    <3>3. s[n] \in Nat /\ s[n] <= t
      BY <1>3, <2>2
    <3>4. QED
      BY <2>1, <3>2, <3>3
  <2>4. xs[m] = t
    <3>1. m \in 1..m /\ n - m + m = n
      BY <1>2, <2>2
    <3>2. xs[m] = s[n - m + m]
      BY <1>2, <3>1
    <3>3. QED
      BY <2>1, <2>3, <3>1, <3>2
  <2>5. ASSUME NEW p \in 1..m - 1 PROVE xs[p] # t
    <3>1. p \in 1..m /\ n - m + p < n
      BY <1>2, <2>5
    <3>2. xs[p] = s[n - m + p] /\ n - m + p \in 1..n
      BY <1>2, <3>1
    <3>3. s[n - m + p] < s[n] /\ s[n - m + p] \in Nat
      BY <1>1, <1>3, <2>2, <3>1, <3>2 DEF Ordered, n
    <3>4. QED
      BY <2>1, <2>3, <3>2, <3>3
  <2>6. xs # <<>>
    BY <2>2, EmptySeq DEF m
  <2>7. QED
    BY <2>2, <2>4, <2>5, <2>6
<1>6. QED
  BY <1>1, <1>2, <1>4, <1>5 DEF m

LEMMA AppStep ==
    ASSUME ComingInv, CpuInv, ChReceive, Head(chComing) = App
    PROVE  CpuInv'
<1> DEFINE t == chStamp
           xs == chCpu.xs
           n == Len(xs)
<1>1. /\ t \in Stamps /\ t \in Nat /\ App # Total
      /\ \A r \in chSeen : r[1] \in Stamps /\ r[1] <= t
      /\ chSeen' = chSeen \union {<<t, App>>}
      /\ chCpu' = AppArrives(chCpu, t)
  <2>1. App # Total
    BY WindowConstants DEF Total, App
  <2>2. t \in Stamps => t \in Nat
    BY WindowConstants DEF Stamps
  <2>3. chCpu' = AppArrives(chCpu, t)
    BY <2>1 DEF ChReceive
  <2>4. QED
    BY <2>1, <2>2, <2>3, ReceivedIs
<1>2. Totals(chSeen') = Totals(chSeen)
  BY <1>1 DEF Totals
<1>3. \A x \in Totals(chSeen) : x \in Nat /\ x <= t
  BY <1>1, WindowConstants DEF Totals, Stamps
<1>4. /\ xs \in Seq(Nat) /\ chCpu.app \in Seq(Nat) /\ Len(chCpu.app) = n
      /\ chCpu \in [xs : Seq(Nat), app : Seq(Nat)]
      /\ \A p \in 1..n : Filled(chSeen, xs, p, chCpu.app[p])
  BY DEF CpuInv
<1>5. n \in Nat /\ DOMAIN xs = 1..n
  BY <1>4, LenProperties
<1>6. /\ \A p \in 1..n : xs[p] \in Totals(chSeen) /\ xs[p] \in Nat /\ xs[p] <= t
      /\ t \in Totals(chSeen) => n > 0 /\ xs[n] = t
      /\ \A p \in 1..n : p # n => xs[p] # t
  <2>1. /\ \A p \in 1..n : xs[p] \in Totals(chSeen)
        /\ t \in Totals(chSeen) =>
              /\ n > 0 /\ xs[n] = t
              /\ \A p \in 1..n - 1 : xs[p] # t
    BY <1>1, <1>3, LastTotal
  <2>2. ASSUME NEW p \in 1..n, p # n PROVE xs[p] # t
    <3>1. p \in 1..n - 1
      BY <1>5, <2>2
    <3>2. QED
      BY <2>1, <2>2, <3>1
  <2>3. QED
    BY <1>3, <2>1, <2>2
<1> HIDE DEF xs, n
\* Another point than that of this stamp keeps what it may hold.
<1>7. ASSUME NEW p \in 1..n, xs[p] # t PROVE Filled(chSeen', xs, p, chCpu.app[p])
  <2>1. Filled(chSeen, xs, p, chCpu.app[p])
    BY <1>4
  <2>2. <<xs[p], App>> \in chSeen <=> <<xs[p], App>> \in chSeen'
    BY <1>1, <1>7
  <2>3. OfAnotherPush(chSeen, xs, p, chCpu.app[p]) => OfAnotherPush(chSeen', xs, p, chCpu.app[p])
    BY <1>1 DEF OfAnotherPush
  <2>4. QED
    BY <2>1, <2>2, <2>3 DEF Filled
<1>8. CASE xs # <<>> /\ t - Last(xs) < Near
  <2>1. n # 0 /\ n \in 1..n /\ Last(xs) = xs[n]
    <3>1. n # 0
      BY <1>4, <1>8, EmptySeq DEF n
    <3>2. QED
      BY <1>5, <3>1 DEF Last, n
  <2> DEFINE app == [chCpu.app EXCEPT ![n] = t]
  <2>2. chCpu' = [chCpu EXCEPT !.app[n] = t]
    BY <1>1, <1>8 DEF AppArrives, xs, n
  <2>3. chCpu'.xs = xs /\ chCpu'.app = app
    BY <1>4, <2>2 DEF xs
  <2>4. /\ app \in Seq(Nat) /\ Len(app) = n
        /\ \A p \in 1..n : app[p] = IF p = n THEN t ELSE chCpu.app[p]
    BY <1>1, <1>4, <2>1, ExceptSeq
  <2> HIDE DEF app
  <2>5. Filled(chSeen', xs, n, t)
    <3>1. CASE xs[n] = t
      BY <1>1, <3>1 DEF Filled
    <3>2. CASE xs[n] # t
      <4>1. xs[n] \in Nat /\ xs[n] < t /\ t < xs[n] + Near
        BY <1>1, <1>6, <1>8, <2>1, <3>2, WindowConstants
      <4>2. t \in xs[n] + 1..xs[n] + Near - 1
        BY <1>1, <4>1, WindowConstants
      <4>3. <<t, App>> \in chSeen' /\ <<t, Total>> \notin chSeen'
        BY <1>1, <1>6, <3>2 DEF Totals
      <4>4. \A q \in DOMAIN xs : q > n => t < xs[q]
        BY <1>5
      <4>5. QED
        BY <4>2, <4>3, <4>4 DEF Filled, OfAnotherPush
    <3>3. QED
      BY <3>1, <3>2
  <2>6. ASSUME NEW p \in 1..n PROVE Filled(chSeen', xs, p, app[p])
    <3>1. CASE p = n
      BY <2>4, <2>5, <3>1
    <3>2. CASE p # n
      <4>1. xs[p] # t /\ app[p] = chCpu.app[p]
        BY <1>6, <2>4, <3>2
      <4>2. QED
        BY <1>7, <4>1
    <3>3. QED
      BY <3>1, <3>2
  <2>7. chCpu' \in [xs : Seq(Nat), app : Seq(Nat)]
    <3>1. chCpu' \in [xs : Seq(Nat), app : Seq(Nat)] <=> chCpu'.xs \in Seq(Nat) /\ chCpu'.app \in Seq(Nat)
      BY <1>4, <2>2
    <3>2. QED
      BY <1>4, <2>3, <2>4, <3>1
  <2>8. chCpu'.xs = chCpu.xs /\ Len(chCpu'.xs) = n
    BY <2>3 DEF xs, n
  <2>9. QED
    BY <1>2, <2>3, <2>4, <2>6, <2>7, <2>8 DEF CpuInv
<1>9. CASE ~ (xs # <<>> /\ t - Last(xs) < Near)
  <2>1. chCpu' = chCpu
    BY <1>1, <1>9 DEF AppArrives, xs
  <2>2. ASSUME NEW p \in 1..n PROVE xs[p] # t
    <3>1. SUFFICES ASSUME xs[p] = t PROVE FALSE
      OBVIOUS
    <3>2. p = n /\ n # 0
      BY <1>5, <1>6, <2>2, <3>1
    <3>3. xs # <<>> /\ Last(xs) = t
      BY <1>4, <3>1, <3>2, EmptySeq DEF Last, n
    <3>4. t - t < Near
      BY <1>1, WindowConstants
    <3>5. QED
      BY <1>9, <3>3, <3>4
  <2>3. \A p \in 1..n : Filled(chSeen', xs, p, chCpu.app[p])
    BY <1>7, <2>2
  <2>4. QED
    BY <1>2, <2>1, <2>3 DEF CpuInv, xs, n
<1>10. QED
  BY <1>8, <1>9

LEMMA CpuStep ==
    ASSUME ComingInv, CpuInv, [ChNext]_chVars
    PROVE  CpuInv'
<1>1. ASSUME ChActivate PROVE CpuInv'
  <2>1. chSeen' = {} /\ chCpu' = [xs |-> <<>>, app |-> <<>>]
    BY <1>1 DEF ChActivate, NoPoints
  <2>2. Totals({}) = {}
    BY DEF Totals
  <2>3. <<>> \in Seq(Nat) /\ Len(<<>>) = 0 /\ 1..0 = {}
    BY EmptySeq
  <2>4. chCpu' \in [xs : Seq(Nat), app : Seq(Nat)] /\ chCpu'.xs = <<>> /\ chCpu'.app = <<>>
    BY <2>1, <2>3
  <2>5. QED
    BY <2>1, <2>2, <2>3, <2>4, EmptyWindow DEF CpuInv
<1>2. ASSUME UNCHANGED <<chSeen, chCpu>> PROVE CpuInv'
  BY <1>2 DEF CpuInv
<1>3. ASSUME ChReceive, Head(chComing) # Total, Head(chComing) # App PROVE CpuInv'
  <2>1. chCpu' = chCpu /\ chSeen' = chSeen \union {<<chStamp, Head(chComing)>>}
    BY <1>3 DEF ChReceive
  <2>2. Totals(chSeen') = Totals(chSeen)
    BY <1>3, <2>1 DEF Totals
  <2>3. \A x : /\ <<x, App>> \in chSeen <=> <<x, App>> \in chSeen'
               /\ <<x, Total>> \in chSeen <=> <<x, Total>> \in chSeen'
    BY <1>3, <2>1
  <2>4. ASSUME NEW p \in 1..Len(chCpu.xs), Filled(chSeen, chCpu.xs, p, chCpu.app[p])
        PROVE  Filled(chSeen', chCpu.xs, p, chCpu.app[p])
    BY <2>3, <2>4 DEF Filled, OfAnotherPush
  <2>5. QED
    BY <2>1, <2>2, <2>4 DEF CpuInv
<1>4. ChListen \/ ChMiss \/ ChDeactivate \/ (\E n \in 1..Cores, gap \in 1..Near : ChSample(n, gap)) \/ UNCHANGED chVars
          => UNCHANGED <<chSeen, chCpu>>
  BY DEF ChListen, ChMiss, ChDeactivate, ChSample, chVars
<1>5. QED
  BY <1>1, <1>2, <1>3, <1>4, TotalStep, AppStep DEF ChNext

-----------------------------------------------------------------------------
(***************************************************************************)
(* LivePerCoreChart: a row is drawn when the next push begins.             *)
(***************************************************************************)

CoreCharts ==
    [xs : Seq(Nat), series : Seq(Seq(Nat)), ts : Nat, row : [1..Cores -> Nat], first : Nat]

CoreStamps(taken) == {t \in Stamps : \E c \in 1..Cores : <<t, c>> \in taken}

\* What is drawn: all but the row under way.
Drawn == {r \in chSeen : r[1] # chCore.ts}

\* The rows drawn are a window of the stamps, and each known core's series is
\* of them.
RowsDrawn ==
    /\ chCore \in CoreCharts
    /\ Ordered(InOrder(CoreStamps(Drawn)), CoreStamps(Drawn))
    /\ chCore.xs = Recent(InOrder(CoreStamps(Drawn)))
    /\ \A c \in 1..chCore.first : chCore.series[c] = Marked(chCore.xs, Drawn, c)
    /\ chCore.first <= Len(chCore.series) /\ Len(chCore.series) <= Cores
    /\ chCore.first = 0 =>
          chCore.xs = <<>> /\ \A c \in 1..Len(chCore.series) : chCore.series[c] = <<>>

\* The pending row is of the latest stamp a core was heard of at.
RowPending ==
    /\ chCore.ts = Blank =>
          /\ chCore = NoRows
          /\ \A r \in chSeen : r[2] \notin 1..Cores
    /\ chCore.ts # Blank =>
          /\ chCore.ts \in Stamps /\ Len(chCore.series) >= 1
          /\ \E c \in 1..Cores : <<chCore.ts, c>> \in chSeen
          /\ \A r \in chSeen : r[2] \in 1..Cores => r[1] <= chCore.ts
          /\ \A c \in 1..Cores :
                chCore.row[c] = IF <<chCore.ts, c>> \in chSeen THEN chCore.ts ELSE Blank

CoreInv == RowsDrawn /\ RowPending

ChartsInv == ComingInv /\ CpuInv /\ CoreInv

LEMMA NoRowsIs ==
    /\ NoRows \in CoreCharts
    /\ NoRows.xs = <<>> /\ NoRows.series = <<>> /\ NoRows.ts = Blank
    /\ NoRows.first = 0 /\ \A c \in 1..Cores : NoRows.row[c] = Blank
<1>1. <<>> \in Seq(Nat) /\ <<>> \in Seq(Seq(Nat))
  BY EmptySeq
<1>2. QED
  BY <1>1 DEF NoRows, CoreCharts, EmptyRow, Blank

\* The series of the cores known stay, the others' are empty.
LEMMA GrownIs ==
    ASSUME NEW core \in CoreCharts, NEW i \in 1..Cores
    PROVE  /\ Grown(core, i) \in CoreCharts
           /\ Grown(core, i).xs = core.xs /\ Grown(core, i).ts = core.ts
           /\ Grown(core, i).row = core.row /\ Grown(core, i).first = core.first
           /\ Len(core.series) \in Nat
           /\ Len(Grown(core, i).series) = (IF Len(core.series) < i THEN i ELSE Len(core.series))
           /\ \A c \in 1..Len(core.series) : Grown(core, i).series[c] = core.series[c]
           /\ \A c \in 1..Len(Grown(core, i).series) :
                 c > Len(core.series) => Grown(core, i).series[c] = <<>>
<1> DEFINE n == Len(core.series)
           m == IF n < i THEN i - n ELSE 0
           more == [k \in 1..(i - n) |-> <<>>]
           all == core.series \o more
<1>1. core.series \in Seq(Seq(Nat)) /\ n \in Nat /\ i \in Nat
  BY LenProperties, WindowConstants DEF CoreCharts
<1>2. 1..(i - n) = 1..m /\ m \in Nat
  <2> HIDE DEF n
  <2>1. CASE n < i
    BY <1>1, <2>1
  <2>2. CASE ~ (n < i)
    <3>1. 1..(i - n) = {} /\ 1..0 = {}
      BY <1>1, <2>2
    <3>2. m = 0
      BY <2>2
    <3> HIDE DEF m
    <3>3. 1..m = {}
      BY <3>1, <3>2
    <3>4. QED
      BY <3>1, <3>2, <3>3
  <2>3. QED
    BY <2>1, <2>2
<1>3. more \in Seq(Seq(Nat)) /\ Len(more) = m /\ \A k \in 1..m : more[k] = <<>>
  <2>1. <<>> \in Seq(Nat)
    BY EmptySeq
  <2>2. more \in [1..m -> Seq(Nat)] /\ \A k \in 1..m : more[k] = <<>>
    BY <1>2, <2>1
  <2> HIDE DEF more, m
  <2>3. more \in Seq(Seq(Nat)) /\ Len(more) = m
    BY <1>2, <2>2
  <2>4. QED
    BY <2>2, <2>3
<1>4. /\ all \in Seq(Seq(Nat)) /\ Len(all) = n + m
      /\ \A c \in 1..n + m : all[c] = IF c <= n THEN core.series[c] ELSE more[c - n]
  <2> HIDE DEF more, m
  <2>1. /\ all \in Seq(Seq(Nat)) /\ Len(all) = Len(core.series) + Len(more)
        /\ \A c \in 1..Len(core.series) + Len(more) :
              all[c] = IF c <= Len(core.series) THEN core.series[c] ELSE more[c - Len(core.series)]
    <3>1. core.series \in Seq(Seq(Nat)) /\ more \in Seq(Seq(Nat))
      BY <1>1, <1>3
    <3> DEFINE old == core.series
    <3> HIDE DEF old
    <3>2. /\ old \o more \in Seq(Seq(Nat)) /\ Len(old \o more) = Len(old) + Len(more)
          /\ \A c \in 1..Len(old) + Len(more) :
                (old \o more)[c] = IF c <= Len(old) THEN old[c] ELSE more[c - Len(old)]
      <4>1. old \in Seq(Seq(Nat)) /\ more \in Seq(Seq(Nat))
        BY <3>1 DEF old
      <4>2. QED
        BY <4>1, ConcatProperties
    <3>3. QED
      BY <3>2 DEF old
  <2>2. QED
    BY <1>3, <2>1
<1>5. Grown(core, i) = [core EXCEPT !.series = all]
  BY DEF Grown
<1> HIDE DEF all
<1>6. /\ Grown(core, i) \in CoreCharts
      /\ Grown(core, i).series = all
      /\ Grown(core, i).xs = core.xs /\ Grown(core, i).ts = core.ts
      /\ Grown(core, i).row = core.row /\ Grown(core, i).first = core.first
  BY <1>4, <1>5 DEF CoreCharts
<1> HIDE DEF more
<1> HIDE DEF n
<1>7. /\ n + m = IF n < i THEN i ELSE n
      /\ n + m \in Nat /\ m \in Nat /\ n <= n + m
  <2>1. CASE n < i
    BY <1>1, <2>1
  <2>2. CASE ~ (n < i)
    BY <1>1, <2>2
  <2>3. QED
    BY <2>1, <2>2
<1> HIDE DEF m
<1>8. \A c \in 1..n : all[c] = core.series[c]
  <2>1. \A c \in 1..n : c \in 1..n + m /\ c <= n
    BY <1>1, <1>7
  <2>2. QED
    BY <1>4, <2>1
<1>9. ASSUME NEW c \in 1..n + m, c > n PROVE all[c] = <<>>
  <2>1. c - n \in 1..m /\ ~ (c <= n)
    BY <1>1, <1>7, <1>9
  <2>2. QED
    BY <1>3, <1>4, <1>9, <2>1
<1>10. QED
  BY <1>1, <1>4, <1>6, <1>7, <1>8, <1>9 DEF n

\* What drawing the row does to each part of the chart.
LEMMA FlushIs ==
    ASSUME NEW core \in CoreCharts, Len(core.xs) <= MaxPoints, Len(core.series) <= Cores
    PROVE  /\ Flush(core) \in CoreCharts
           /\ Flush(core).xs = Windowed(Append(core.xs, core.ts))
           /\ Len(Flush(core).series) = Len(core.series)
           /\ \A c \in 1..Len(core.series) :
                 /\ c \in 1..Cores
                 /\ core.series[c] \in Seq(Nat) /\ core.row[c] \in Nat
                 /\ Len(core.series[c]) = Len(core.xs) =>
                       Flush(core).series[c] = Windowed(Append(core.series[c], core.row[c]))
           /\ Flush(core).first = IF core.first = 0 THEN Len(core.series) ELSE core.first
           /\ Flush(core).ts = Blank
           /\ Flush(core).row = EmptyRow
<1> DEFINE shift(q) == IF Len(core.xs) = MaxPoints THEN Tail(q) ELSE q
           n == Len(core.series)
           xs == shift(Append(core.xs, core.ts))
           drawn == [k \in DOMAIN core.series |-> shift(Append(core.series[k], core.row[k]))]
           first == IF core.first = 0 THEN n ELSE core.first
<1>1. /\ core.series \in Seq(Seq(Nat)) /\ n \in Nat /\ DOMAIN core.series = 1..n
      /\ core.xs \in Seq(Nat) /\ core.ts \in Nat /\ core.first \in Nat
      /\ core.row \in [1..Cores -> Nat]
      /\ Len(core.xs) \in Nat
  BY LenProperties DEF CoreCharts
<1>2. ASSUME NEW q \in Seq(Nat), NEW v \in Nat
      PROVE  /\ shift(Append(q, v)) \in Seq(Nat)
             /\ Len(q) = Len(core.xs) => shift(Append(q, v)) = Windowed(Append(q, v))
  <2> DEFINE r == Append(q, v)
  <2>1. r \in Seq(Nat) /\ r # <<>> /\ Len(r) = Len(q) + 1 /\ Len(q) \in Nat
    BY <1>2, AppendProperties, LenProperties
  <2> HIDE DEF r
  <2>2. Tail(r) \in Seq(Nat)
    BY <2>1, HeadTailProperties
  <2>3. shift(r) \in Seq(Nat)
    BY <2>1, <2>2
  <2>4. ASSUME Len(q) = Len(core.xs) PROVE shift(r) = Windowed(r)
    <3>1. Len(r) > MaxPoints <=> Len(core.xs) = MaxPoints
      BY <1>1, <2>1, <2>4, WindowConstants
    <3>2. QED
      BY <3>1 DEF Windowed
  <2>5. QED
    BY <2>3, <2>4 DEF r
<1>3. \A c \in 1..n : c \in 1..Cores /\ core.series[c] \in Seq(Nat) /\ core.row[c] \in Nat
  <2>1. SUFFICES ASSUME NEW c \in 1..n
                 PROVE c \in 1..Cores /\ core.series[c] \in Seq(Nat) /\ core.row[c] \in Nat
    OBVIOUS
  <2>2. c \in 1..Cores
    BY <1>1, WindowConstants
  <2>3. core.series[c] \in Seq(Nat)
    BY <1>1, ElementOfSeq
  <2>4. QED
    BY <1>1, <2>2, <2>3
<1>4. xs \in Seq(Nat) /\ xs = Windowed(Append(core.xs, core.ts))
  <2> HIDE DEF shift
  <2>1. QED
    BY <1>1, <1>2
<1>5. \A c \in 1..n :
         /\ shift(Append(core.series[c], core.row[c])) \in Seq(Nat)
         /\ Len(core.series[c]) = Len(core.xs) =>
               shift(Append(core.series[c], core.row[c]))
                  = Windowed(Append(core.series[c], core.row[c]))
  <2> HIDE DEF shift
  <2>1. QED
    BY <1>2, <1>3
<1>6. /\ drawn \in [1..n -> Seq(Nat)]
      /\ \A c \in 1..n : drawn[c] = shift(Append(core.series[c], core.row[c]))
  <2> HIDE DEF shift
  <2>1. QED
    BY <1>1, <1>5
<1>7. drawn \in Seq(Seq(Nat)) /\ Len(drawn) = n
  <2> HIDE DEF drawn, n
  <2>1. QED
    BY <1>1, <1>6
<1>8. Flush(core) = [core EXCEPT !.xs = xs, !.series = drawn, !.first = first,
                                 !.ts = Blank, !.row = EmptyRow]
  BY DEF Flush
<1>9. EmptyRow \in [1..Cores -> Nat] /\ Blank \in Nat /\ first \in Nat
  BY <1>1 DEF EmptyRow, Blank
<1> HIDE DEF drawn, xs, first
<1>10. /\ Flush(core) \in CoreCharts
       /\ Flush(core).xs = xs /\ Flush(core).series = drawn /\ Flush(core).first = first
       /\ Flush(core).ts = Blank /\ Flush(core).row = EmptyRow
  BY <1>4, <1>7, <1>8, <1>9 DEF CoreCharts
<1>11. \A c \in 1..n : Len(core.series[c]) = Len(core.xs) =>
          drawn[c] = Windowed(Append(core.series[c], core.row[c]))
  <2> HIDE DEF shift
  <2>1. QED
    BY <1>5, <1>6
<1>12. QED
  <2> HIDE DEF shift
  <2>1. QED
    BY <1>3, <1>4, <1>7, <1>10, <1>11 DEF first

LEMMA WindowOfOrder ==
    ASSUME NEW S, NEW s, Ordered(s, S)
    PROVE  /\ Recent(s) \in Seq(Nat) /\ Len(Recent(s)) <= MaxPoints
           /\ \A p \in 1..Len(Recent(s)) : Recent(s)[p] \in S
<1>1. s \in Seq(Nat) /\ \A p \in 1..Len(s) : s[p] \in S
  BY DEF Ordered
<1>2. /\ Recent(s) \in Seq(Nat) /\ Len(s) \in Nat
      /\ Len(Recent(s)) = Least(Len(s), MaxPoints)
      /\ \A p \in 1..Len(Recent(s)) :
            /\ Recent(s)[p] = s[Len(s) - Len(Recent(s)) + p]
            /\ Len(s) - Len(Recent(s)) + p \in 1..Len(s)
  BY <1>1, RecentIs
<1>3. Least(Len(s), MaxPoints) <= MaxPoints
  BY <1>2, WindowConstants DEF Least
<1>4. QED
  BY <1>1, <1>2, <1>3

\* The samples of a core that are drawn, by what was seen.
LEMMA DrawnIs ==
    ASSUME NEW t, NEW k
    PROVE  <<t, k>> \in Drawn <=> <<t, k>> \in chSeen /\ t # chCore.ts
  BY DEF Drawn

LEMMA CoreReceived ==
    ASSUME ComingInv, ChReceive, Head(chComing) \notin {Total, App}
    PROVE  /\ chStamp \in Stamps /\ chStamp \in Nat /\ chStamp # Blank
           /\ Head(chComing) \in 1..Cores
           /\ <<chStamp, Head(chComing)>> \notin chSeen
           /\ \A r \in chSeen : r = <<r[1], r[2]>> /\ r[1] \in Stamps /\ r[1] \in Nat /\ r[1] <= chStamp
           /\ chSeen' = chSeen \union {<<chStamp, Head(chComing)>>}
           /\ chCore' = CoreArrives(chCore, Head(chComing), chStamp)
<1>1. /\ Head(chComing) \in Kinds /\ chStamp \in Stamps
      /\ \A k \in Kinds : <<chStamp, k>> \in chSeen => k < Head(chComing)
      /\ \A r \in chSeen : r[1] \in Stamps /\ r[1] <= chStamp
      /\ chSeen' = chSeen \union {<<chStamp, Head(chComing)>>}
  BY ReceivedIs
<1>2. Head(chComing) \in 1..Cores
  BY <1>1, WindowConstants DEF Kinds, Total, App
<1>3. \A r \in chSeen : r = <<r[1], r[2]>>
  BY DEF ComingInv
<1>4. chStamp \in Nat /\ chStamp # Blank /\ \A t \in Stamps : t \in Nat
  BY <1>1, WindowConstants DEF Stamps, Blank
<1>5. <<chStamp, Head(chComing)>> \notin chSeen
  <2>1. ~ (Head(chComing) < Head(chComing))
    BY <1>2, WindowConstants
  <2>2. QED
    BY <1>1, <2>1
<1>6. chCore' = CoreArrives(chCore, Head(chComing), chStamp)
  BY DEF ChReceive
<1>7. QED
  BY <1>1, <1>2, <1>3, <1>4, <1>5, <1>6

\* The new sample goes to the row, drawn or grown before.
Arrived(begun, i, t) == [begun EXCEPT !.ts = t, !.row[i] = t]

LEMMA ArrivedIs ==
    ASSUME NEW begun \in CoreCharts, NEW i \in 1..Cores, NEW t \in Nat
    PROVE  /\ Arrived(begun, i, t) \in CoreCharts
           /\ Arrived(begun, i, t).xs = begun.xs
           /\ Arrived(begun, i, t).series = begun.series
           /\ Arrived(begun, i, t).first = begun.first
           /\ Arrived(begun, i, t).ts = t
           /\ \A c \in 1..Cores :
                 Arrived(begun, i, t).row[c] = IF c = i THEN t ELSE begun.row[c]
<1> DEFINE row == [begun.row EXCEPT ![i] = t]
<1>1. row \in [1..Cores -> Nat] /\ \A c \in 1..Cores : row[c] = IF c = i THEN t ELSE begun.row[c]
  BY DEF CoreCharts
<1>2. Arrived(begun, i, t) = [begun EXCEPT !.ts = t, !.row = row]
  BY DEF Arrived
<1> HIDE DEF row
<1>3. /\ Arrived(begun, i, t) \in CoreCharts
      /\ Arrived(begun, i, t).xs = begun.xs /\ Arrived(begun, i, t).series = begun.series
      /\ Arrived(begun, i, t).first = begun.first
      /\ Arrived(begun, i, t).ts = t /\ Arrived(begun, i, t).row = row
  BY <1>1, <1>2 DEF CoreCharts
<1>4. QED
  BY <1>1, <1>3

\* The first sample of a push draws the row of the push before.
LEMMA RowStarts ==
    ASSUME ComingInv, CoreInv, ChReceive, Head(chComing) \notin {Total, App},
           chCore.ts \notin {Blank, chStamp}
    PROVE  CoreInv'
<1> DEFINE t == chStamp
           i == Head(chComing)
           ts == chCore.ts
           xs == chCore.xs
           S == CoreStamps(Drawn)
           s == InOrder(S)
           grown == Grown(chCore, i)
           begun == Flush(grown)
           after == {r \in chSeen' : r[1] # t}
<1>1. /\ t \in Stamps /\ t \in Nat /\ t # Blank /\ i \in 1..Cores
      /\ \A r \in chSeen : r = <<r[1], r[2]>> /\ r[1] \in Stamps /\ r[1] \in Nat /\ r[1] <= t
      /\ chSeen' = chSeen \union {<<t, i>>}
      /\ chCore' = CoreArrives(chCore, i, t)
  BY CoreReceived
<1>2. /\ chCore \in CoreCharts /\ xs \in Seq(Nat) /\ ts \in Nat
      /\ Ordered(s, S) /\ xs = Recent(s)
      /\ \A c \in 1..chCore.first : chCore.series[c] = Marked(xs, Drawn, c)
      /\ chCore.first <= Len(chCore.series) /\ Len(chCore.series) <= Cores
      /\ chCore.first = 0 => xs = <<>> /\ \A c \in 1..Len(chCore.series) : chCore.series[c] = <<>>
  BY DEF CoreInv, RowsDrawn, CoreCharts
<1>3. /\ ts \in Stamps /\ ts # t /\ ts # Blank
      /\ \E c \in 1..Cores : <<ts, c>> \in chSeen
      /\ \A r \in chSeen : r[2] \in 1..Cores => r[1] <= ts
      /\ \A c \in 1..Cores : chCore.row[c] = IF <<ts, c>> \in chSeen THEN ts ELSE Blank
  BY DEF CoreInv, RowPending
<1>4. ts < t
  <2>1. PICK c \in 1..Cores : <<ts, c>> \in chSeen
    BY <1>3
  <2>2. ts <= t
    BY <1>1, <2>1
  <2>3. QED
    BY <1>1, <1>2, <1>3, <2>2
<1>5. \A x : \A c \in 1..Cores : <<x, c>> \in chSeen => x \in Nat /\ x <= ts /\ x # t /\ x \in Stamps
  <2>1. SUFFICES ASSUME NEW c \in 1..Cores, NEW x, <<x, c>> \in chSeen
                 PROVE x \in Nat /\ x <= ts /\ x # t /\ x \in Stamps
    OBVIOUS
  <2>2. x \in Nat /\ x <= ts /\ x \in Stamps
    BY <1>1, <1>3, <2>1
  <2>3. QED
    BY <1>1, <1>2, <1>4, <2>2
<1>6. \A x : \A c \in 1..Cores : <<x, c>> \in after <=> <<x, c>> \in chSeen
  BY <1>1, <1>5
<1>7. CoreStamps(after) = S \union {ts}
  <2>1. \A x \in Stamps : (\E c \in 1..Cores : <<x, c>> \in after)
           <=> (x = ts \/ \E c \in 1..Cores : <<x, c>> \in Drawn)
    BY <1>3, <1>6, DrawnIs
  <2>2. QED
    BY <1>3, <2>1 DEF CoreStamps
<1>8. \A x \in S : x \in Nat /\ x < ts /\ x # t
  <2>1. SUFFICES ASSUME NEW x \in S PROVE x \in Nat /\ x < ts /\ x # t
    OBVIOUS
  <2>2. PICK c \in 1..Cores : <<x, c>> \in Drawn
    BY DEF CoreStamps
  <2>3. <<x, c>> \in chSeen /\ x # ts
    BY <2>2, DrawnIs
  <2>4. QED
    BY <1>2, <1>5, <2>3
<1> HIDE DEF after
<1>9. Ordered(Append(s, ts), S \union {ts})
  <2> HIDE DEF s, S
  <2>1. QED
    BY <1>2, <1>8, OrderGrows
<1>10. InOrder(CoreStamps(after)) = Append(s, ts) /\ s \in Seq(Nat)
  <2> HIDE DEF s, S
  <2>1. InOrder(S \union {ts}) = Append(s, ts)
    BY <1>9, InOrderIs
  <2>2. QED
    BY <1>2, <1>7, <2>1 DEF Ordered
<1>11. /\ xs \in Seq(Nat) /\ Len(xs) <= MaxPoints /\ \A p \in 1..Len(xs) : xs[p] \in S
  <2> HIDE DEF s, S
  <2>1. QED
    BY <1>2, WindowOfOrder
<1>12. /\ grown \in CoreCharts
       /\ grown.xs = xs /\ grown.ts = ts /\ grown.row = chCore.row /\ grown.first = chCore.first
       /\ Len(chCore.series) \in Nat
       /\ Len(grown.series) = (IF Len(chCore.series) < i THEN i ELSE Len(chCore.series))
       /\ \A c \in 1..Len(chCore.series) : grown.series[c] = chCore.series[c]
       /\ \A c \in 1..Len(grown.series) : c > Len(chCore.series) => grown.series[c] = <<>>
  BY <1>1, <1>2, GrownIs
<1>13. /\ i \in Nat /\ i >= 1 /\ i <= Cores /\ Cores \in Nat /\ Len(grown.series) \in Nat
       /\ Len(grown.series) >= 1 /\ Len(grown.series) <= Cores
       /\ Len(chCore.series) <= Len(grown.series)
  <2>1. i \in Nat /\ i >= 1 /\ i <= Cores /\ Cores \in Nat
    BY <1>1, WindowConstants
  <2> HIDE DEF grown, i
  <2>2. QED
    BY <1>2, <1>12, <2>1
<1> HIDE DEF grown
<1>14. /\ begun \in CoreCharts
       /\ begun.xs = Windowed(Append(xs, ts))
       /\ Len(begun.series) = Len(grown.series)
       /\ \A c \in 1..Len(grown.series) :
             /\ c \in 1..Cores /\ grown.row[c] \in Nat
             /\ Len(grown.series[c]) = Len(xs) =>
                   begun.series[c] = Windowed(Append(grown.series[c], grown.row[c]))
       /\ begun.first = IF chCore.first = 0 THEN Len(grown.series) ELSE chCore.first
       /\ begun.row = EmptyRow
  BY <1>11, <1>12, <1>13, FlushIs
<1> HIDE DEF begun
<1>15. /\ chCore' \in CoreCharts
       /\ chCore'.xs = begun.xs /\ chCore'.series = begun.series /\ chCore'.first = begun.first
       /\ chCore'.ts = t
       /\ \A c \in 1..Cores : chCore'.row[c] = IF c = i THEN t ELSE begun.row[c]
  <2>1. chCore' = Arrived(begun, i, t)
    BY <1>1, <1>3, <1>12 DEF CoreArrives, Arrived, begun, grown
  <2> HIDE DEF i, t
  <2>2. begun \in CoreCharts /\ i \in 1..Cores /\ t \in Nat
    BY <1>1, <1>14
  <2> DEFINE new == Arrived(begun, i, t)
  <2>3. /\ new \in CoreCharts
        /\ new.xs = begun.xs /\ new.series = begun.series
        /\ new.first = begun.first /\ new.ts = t
        /\ \A c \in 1..Cores : new.row[c] = IF c = i THEN t ELSE begun.row[c]
    BY <2>2, ArrivedIs
  <2>4. chCore' = new
    BY <2>1
  <2> HIDE DEF new
  <2>5. QED
    BY <2>3, <2>4
<1>16. chCore'.xs = Recent(Append(s, ts)) /\ Append(xs, ts) \in Seq(Nat)
  <2>1. Recent(Append(s, ts)) = Windowed(Append(Recent(s), ts))
    <3> HIDE DEF s
    <3>1. QED
      BY <1>2, <1>10, RecentGrows
  <2>2. Append(xs, ts) \in Seq(Nat)
    BY <1>2, AppendProperties
  <2>3. QED
    BY <1>2, <1>14, <1>15, <2>1, <2>2
<1>17. chCore.first \in Nat /\ begun.first \in Nat /\ begun.first # 0
       /\ begun.first <= Len(grown.series)
  <2>1. chCore.first \in Nat
    BY <1>2 DEF CoreCharts
  <2>2. QED
    BY <1>2, <1>12, <1>13, <1>14, <2>1
<1>18. ASSUME NEW c \in 1..begun.first
       PROVE  chCore'.series[c] = Marked(chCore'.xs, after, c)
  <2>1. c \in 1..Len(grown.series) /\ c \in 1..Cores
    BY <1>13, <1>14, <1>17, <1>18
  <2>2. grown.series[c] = Marked(xs, Drawn, c)
    <3>1. CASE chCore.first = 0
      <4>1. grown.series[c] = <<>>
        <5>1. CASE c > Len(chCore.series)
          BY <1>12, <2>1, <5>1
        <5>2. CASE ~ (c > Len(chCore.series))
          <6>1. c \in 1..Len(chCore.series)
            BY <1>12, <1>13, <2>1, <5>2
          <6>2. QED
            BY <1>2, <1>12, <3>1, <6>1
        <5>3. QED
          BY <5>1, <5>2
      <4>2. xs = <<>>
        BY <1>2, <3>1
      <4>3. QED
        BY <4>1, <4>2, EmptyWindow
    <3>2. CASE chCore.first # 0
      <4>1. c \in 1..chCore.first /\ c \in 1..Len(chCore.series)
        BY <1>2, <1>12, <1>14, <1>17, <1>18, <3>2
      <4>2. QED
        BY <1>2, <1>12, <4>1
    <3>3. QED
      BY <3>1, <3>2
  <2>3. Marked(xs, Drawn, c) = Marked(xs, after, c)
    <3>1. \A p \in 1..Len(xs) : <<xs[p], c>> \in Drawn <=> <<xs[p], c>> \in after
      <4>1. SUFFICES ASSUME NEW p \in 1..Len(xs)
                     PROVE <<xs[p], c>> \in Drawn <=> <<xs[p], c>> \in after
        OBVIOUS
      <4>2. xs[p] \in S
        BY <1>11
      <4>3. xs[p] # ts
        BY <1>2, <1>8, <4>2
      <4>4. QED
        BY <1>6, <2>1, <4>3, DrawnIs
    <3>2. QED
      BY <1>2, <3>1, MarkedSame
  <2>4. grown.row[c] = IF <<ts, c>> \in after THEN ts ELSE Blank
    BY <1>3, <1>6, <1>12, <2>1
  <2>5. Len(grown.series[c]) = Len(xs)
    BY <1>2, <2>2, MarkedIs
  <2>6. chCore'.series[c] = Windowed(Append(Marked(xs, after, c), grown.row[c]))
    BY <1>14, <1>15, <2>1, <2>2, <2>3, <2>5
  <2>7. Marked(Append(xs, ts), after, c) = Append(Marked(xs, after, c), grown.row[c])
    BY <1>2, <2>4, MarkedGrows
  <2>8. chCore'.xs = Windowed(Append(xs, ts))
    BY <1>14, <1>15
  <2>9. Windowed(Marked(Append(xs, ts), after, c)) = Marked(Windowed(Append(xs, ts)), after, c)
    BY <1>16, MarkedSlides
  <2>10. QED
    BY <2>6, <2>7, <2>8, <2>9
<1>19. Drawn' = after
  BY <1>15 DEF Drawn, after
<1>20. RowsDrawn'
  <2>1. chCore'.first = 0 => FALSE
    BY <1>15, <1>17
  <2>2. chCore'.first <= Len(chCore'.series) /\ Len(chCore'.series) <= Cores
    BY <1>13, <1>14, <1>15, <1>17
  <2>3. Ordered(InOrder(CoreStamps(after)), CoreStamps(after))
    BY <1>7, <1>9, <1>10
  <2> HIDE DEF s, S
  <2>4. QED
    BY <1>10, <1>15, <1>16, <1>18, <1>19, <2>1, <2>2, <2>3 DEF RowsDrawn
<1>21. RowPending'
  <2>1. \A c \in 1..Cores : <<t, c>> \in chSeen' <=> c = i
    BY <1>1, <1>5
  <2>2. \A c \in 1..Cores : begun.row[c] = Blank
    BY <1>14 DEF EmptyRow
  <2>3. \A c \in 1..Cores : chCore'.row[c] = IF <<t, c>> \in chSeen' THEN t ELSE Blank
    BY <1>15, <2>1, <2>2
  <2>4. \A r \in chSeen' : r[1] <= t
    BY <1>1
  <2>5. Len(chCore'.series) >= 1
    BY <1>13, <1>14, <1>15
  <2>6. QED
    BY <1>1, <1>15, <2>1, <2>3, <2>4, <2>5 DEF RowPending
<1>22. QED
  BY <1>20, <1>21 DEF CoreInv

\* Another sample of the same push joins the row.
LEMMA RowGoesOn ==
    ASSUME ComingInv, CoreInv, ChReceive, Head(chComing) \notin {Total, App},
           chCore.ts = chStamp
    PROVE  CoreInv'
<1> DEFINE t == chStamp
           i == Head(chComing)
           xs == chCore.xs
           grown == Grown(chCore, i)
<1>1. /\ t \in Stamps /\ t \in Nat /\ t # Blank /\ i \in 1..Cores
      /\ \A r \in chSeen : r = <<r[1], r[2]>> /\ r[1] \in Stamps /\ r[1] \in Nat /\ r[1] <= t
      /\ chSeen' = chSeen \union {<<t, i>>}
      /\ chCore' = CoreArrives(chCore, i, t)
  BY CoreReceived
<1>2. /\ chCore \in CoreCharts /\ chCore.first \in Nat
      /\ \A c \in 1..chCore.first : chCore.series[c] = Marked(xs, Drawn, c)
      /\ chCore.first <= Len(chCore.series) /\ Len(chCore.series) <= Cores
      /\ chCore.first = 0 => xs = <<>> /\ \A c \in 1..Len(chCore.series) : chCore.series[c] = <<>>
  BY DEF CoreInv, RowsDrawn, CoreCharts
<1>3. /\ Len(chCore.series) >= 1
      /\ \A c \in 1..Cores : chCore.row[c] = IF <<t, c>> \in chSeen THEN t ELSE Blank
  BY <1>1 DEF CoreInv, RowPending
<1>4. /\ grown \in CoreCharts
      /\ grown.xs = xs /\ grown.ts = t /\ grown.row = chCore.row /\ grown.first = chCore.first
      /\ Len(chCore.series) \in Nat
      /\ Len(grown.series) = (IF Len(chCore.series) < i THEN i ELSE Len(chCore.series))
      /\ \A c \in 1..Len(chCore.series) : grown.series[c] = chCore.series[c]
      /\ \A c \in 1..Len(grown.series) : c > Len(chCore.series) => grown.series[c] = <<>>
  BY <1>1, <1>2, GrownIs
<1>5. /\ Len(grown.series) \in Nat /\ Len(grown.series) >= 1 /\ Len(grown.series) <= Cores
      /\ Len(chCore.series) <= Len(grown.series)
  <2>1. i \in Nat /\ i >= 1 /\ i <= Cores /\ Cores \in Nat
    BY <1>1, WindowConstants
  <2> HIDE DEF grown, i
  <2>2. QED
    BY <1>2, <1>3, <1>4, <2>1
<1> HIDE DEF grown
<1>6. /\ chCore' \in CoreCharts
      /\ chCore'.xs = xs /\ chCore'.series = grown.series /\ chCore'.first = chCore.first
      /\ chCore'.ts = t
      /\ \A c \in 1..Cores : chCore'.row[c] = IF c = i THEN t ELSE chCore.row[c]
  <2>1. chCore' = Arrived(grown, i, t)
    BY <1>1, <1>4 DEF CoreArrives, Arrived, grown
  <2> HIDE DEF i, t
  <2>2. grown \in CoreCharts /\ i \in 1..Cores /\ t \in Nat
    BY <1>1, <1>4
  <2> DEFINE new == Arrived(grown, i, t)
  <2>3. /\ new \in CoreCharts
        /\ new.xs = grown.xs /\ new.series = grown.series
        /\ new.first = grown.first /\ new.ts = t
        /\ \A c \in 1..Cores : new.row[c] = IF c = i THEN t ELSE grown.row[c]
    BY <2>2, ArrivedIs
  <2>4. chCore' = new
    BY <2>1
  <2> HIDE DEF new
  <2>5. QED
    BY <1>4, <2>3, <2>4
<1>7. Drawn' = Drawn
  BY <1>1, <1>6 DEF Drawn
<1>8. RowsDrawn'
  <2>1. \A c \in 1..chCore.first : grown.series[c] = Marked(xs, Drawn, c)
    BY <1>2, <1>4
  <2>2. ASSUME chCore.first = 0
        PROVE  \A c \in 1..Len(grown.series) : grown.series[c] = <<>>
    <3>1. SUFFICES ASSUME NEW c \in 1..Len(grown.series) PROVE grown.series[c] = <<>>
      OBVIOUS
    <3>2. CASE c > Len(chCore.series)
      BY <1>4, <3>1, <3>2
    <3>3. CASE ~ (c > Len(chCore.series))
      <4>1. c \in 1..Len(chCore.series)
        BY <1>4, <1>5, <3>1, <3>3
      <4>2. QED
        BY <1>2, <1>4, <2>2, <4>1
    <3>4. QED
      BY <3>2, <3>3
  <2>3. chCore'.first <= Len(chCore'.series)
    BY <1>2, <1>4, <1>5, <1>6
  <2>4. /\ Ordered(InOrder(CoreStamps(Drawn')), CoreStamps(Drawn'))
        /\ chCore'.xs = Recent(InOrder(CoreStamps(Drawn')))
    BY <1>6, <1>7 DEF CoreInv, RowsDrawn
  <2>5. QED
    BY <1>2, <1>5, <1>6, <1>7, <2>1, <2>2, <2>3, <2>4 DEF RowsDrawn
<1>9. RowPending'
  <2>1. \A c \in 1..Cores : <<t, c>> \in chSeen' <=> <<t, c>> \in chSeen \/ c = i
    BY <1>1
  <2>2. \A c \in 1..Cores : chCore'.row[c] = IF <<t, c>> \in chSeen' THEN t ELSE Blank
    BY <1>3, <1>6, <2>1
  <2>3. \A r \in chSeen' : r[1] <= t
    BY <1>1
  <2>4. QED
    BY <1>1, <1>5, <1>6, <2>1, <2>2, <2>3 DEF RowPending
<1>10. QED
  BY <1>8, <1>9 DEF CoreInv

\* The first sample of a core opens the first row.
LEMMA FirstRow ==
    ASSUME ComingInv, CoreInv, ChReceive, Head(chComing) \notin {Total, App},
           chCore.ts = Blank
    PROVE  CoreInv'
<1> DEFINE t == chStamp
           i == Head(chComing)
           grown == Grown(chCore, i)
<1>1. /\ t \in Stamps /\ t \in Nat /\ t # Blank /\ i \in 1..Cores
      /\ \A r \in chSeen : r = <<r[1], r[2]>> /\ r[1] \in Stamps /\ r[1] \in Nat /\ r[1] <= t
      /\ chSeen' = chSeen \union {<<t, i>>}
      /\ chCore' = CoreArrives(chCore, i, t)
  BY CoreReceived
<1>2. /\ chCore \in CoreCharts /\ chCore.xs = <<>> /\ chCore.series = <<>>
      /\ chCore.first = 0 /\ \A c \in 1..Cores : chCore.row[c] = Blank
      /\ \A r \in chSeen : r[2] \notin 1..Cores
  BY NoRowsIs DEF CoreInv, RowPending
<1>3. /\ grown \in CoreCharts
      /\ grown.xs = <<>> /\ grown.ts = Blank /\ grown.row = chCore.row /\ grown.first = 0
      /\ Len(grown.series) = i
      /\ \A c \in 1..Len(grown.series) : grown.series[c] = <<>>
  <2>1. /\ grown \in CoreCharts
        /\ grown.xs = chCore.xs /\ grown.ts = chCore.ts
        /\ grown.row = chCore.row /\ grown.first = chCore.first
        /\ Len(grown.series) = (IF Len(chCore.series) < i THEN i ELSE Len(chCore.series))
        /\ \A c \in 1..Len(grown.series) : c > Len(chCore.series) => grown.series[c] = <<>>
    BY <1>1, <1>2, GrownIs
  <2>2. Len(chCore.series) = 0 /\ i \in Nat /\ i >= 1
    BY <1>1, <1>2, WindowConstants, EmptySeq
  <2> HIDE DEF grown, i
  <2>3. Len(grown.series) = i
    BY <2>1, <2>2
  <2>4. \A c \in 1..Len(grown.series) : c > Len(chCore.series)
    BY <2>2, <2>3
  <2>5. QED
    BY <1>2, <2>1, <2>3, <2>4
<1> HIDE DEF grown
<1>4. /\ chCore' \in CoreCharts
      /\ chCore'.xs = <<>> /\ chCore'.series = grown.series /\ chCore'.first = 0
      /\ chCore'.ts = t
      /\ \A c \in 1..Cores : chCore'.row[c] = IF c = i THEN t ELSE Blank
  <2>1. chCore' = Arrived(grown, i, t)
    BY <1>1, <1>3 DEF CoreArrives, Arrived, grown
  <2> HIDE DEF i, t
  <2>2. grown \in CoreCharts /\ i \in 1..Cores /\ t \in Nat
    BY <1>1, <1>3
  <2> DEFINE new == Arrived(grown, i, t)
  <2>3. /\ new \in CoreCharts
        /\ new.xs = grown.xs /\ new.series = grown.series
        /\ new.first = grown.first /\ new.ts = t
        /\ \A c \in 1..Cores : new.row[c] = IF c = i THEN t ELSE grown.row[c]
    BY <2>2, ArrivedIs
  <2>4. chCore' = new
    BY <2>1
  <2> HIDE DEF new
  <2>5. QED
    BY <1>2, <1>3, <2>3, <2>4
<1>5. CoreStamps(Drawn') = {}
  <2>1. \A x : \A c \in 1..Cores : <<x, c>> \notin Drawn'
    <3>1. SUFFICES ASSUME NEW x, NEW c \in 1..Cores, <<x, c>> \in Drawn' PROVE FALSE
      OBVIOUS
    <3>2. <<x, c>> \in chSeen' /\ x # t
      BY <1>4, <3>1 DEF Drawn
    <3>3. QED
      BY <1>1, <1>2, <3>2
  <2>2. QED
    BY <2>1 DEF CoreStamps
<1>6. RowsDrawn'
  <2>1. 1..0 = {}
    OBVIOUS
  <2>2. i \in Nat /\ i >= 1 /\ i <= Cores
    BY <1>1, WindowConstants
  <2>3. QED
    BY <1>3, <1>4, <1>5, <2>1, <2>2, EmptyWindow DEF RowsDrawn
<1>7. RowPending'
  <2>1. \A c \in 1..Cores : <<t, c>> \in chSeen' <=> c = i
    BY <1>1, <1>2
  <2>2. \A r \in chSeen' : r[1] <= t
    BY <1>1
  <2>3. i >= 1
    BY <1>1, WindowConstants
  <2>4. QED
    BY <1>1, <1>3, <1>4, <2>1, <2>2, <2>3 DEF RowPending
<1>8. QED
  BY <1>6, <1>7 DEF CoreInv

\* Samples of the total or the application change no row.
LEMMA OtherSample ==
    ASSUME ComingInv, CoreInv, ChReceive, Head(chComing) \in {Total, App}
    PROVE  CoreInv'
<1> DEFINE k == Head(chComing)
<1>1. k \notin 1..Cores /\ Total # App
  BY WindowConstants DEF Total, App
<1>2. chCore' = chCore /\ chSeen' = chSeen \union {<<chStamp, k>>}
  BY <1>1 DEF ChReceive
<1>3. \A x : \A c \in 1..Cores :
         /\ <<x, c>> \in chSeen' <=> <<x, c>> \in chSeen
         /\ <<x, c>> \in Drawn' <=> <<x, c>> \in Drawn
  BY <1>1, <1>2 DEF Drawn
<1>4. CoreStamps(Drawn') = CoreStamps(Drawn)
  BY <1>3 DEF CoreStamps
<1>5. /\ chCore \in CoreCharts /\ chCore.xs \in Seq(Nat) /\ chCore.first \in Nat
      /\ Len(chCore.series) \in Nat
      /\ chCore.first <= Len(chCore.series) /\ Len(chCore.series) <= Cores
  BY LenProperties DEF CoreInv, RowsDrawn, CoreCharts
<1>6. \A c \in 1..chCore.first : Marked(chCore.xs, Drawn', c) = Marked(chCore.xs, Drawn, c)
  <2>1. SUFFICES ASSUME NEW c \in 1..chCore.first
                 PROVE Marked(chCore.xs, Drawn', c) = Marked(chCore.xs, Drawn, c)
    OBVIOUS
  <2>2. c \in 1..Cores
    BY <1>5, WindowConstants
  <2>3. \A p \in 1..Len(chCore.xs) : <<chCore.xs[p], c>> \in Drawn' <=> <<chCore.xs[p], c>> \in Drawn
    BY <1>3, <2>2
  <2>4. QED
    BY <1>5, <2>3, MarkedSame
<1>7. RowsDrawn'
  BY <1>2, <1>4, <1>6 DEF CoreInv, RowsDrawn
<1>8. RowPending'
  <2>1. \A r \in chSeen' : r[2] \in 1..Cores => r \in chSeen
    BY <1>1, <1>2
  <2>2. QED
    BY <1>2, <1>3, <2>1 DEF CoreInv, RowPending
<1>9. QED
  BY <1>7, <1>8 DEF CoreInv

LEMMA NoRowsYet ==
    ASSUME chCore = NoRows, chSeen = {}
    PROVE  CoreInv
<1>1. CoreStamps(Drawn) = {}
  BY DEF CoreStamps, Drawn
<1>2. Len(<<>>) = 0 /\ 1..0 = {}
  BY EmptySeq
<1>3. RowsDrawn
  BY <1>1, <1>2, NoRowsIs, EmptyWindow, WindowConstants DEF RowsDrawn
<1>4. RowPending
  BY NoRowsIs DEF RowPending
<1>5. QED
  BY <1>3, <1>4 DEF CoreInv

LEMMA CoreStep ==
    ASSUME ComingInv, CoreInv, [ChNext]_chVars
    PROVE  CoreInv'
<1>1. ASSUME ChActivate PROVE CoreInv'
  <2>1. (chCore = NoRows /\ chSeen = {})'
    BY <1>1 DEF ChActivate
  <2>2. (chCore = NoRows /\ chSeen = {}) => CoreInv
    BY NoRowsYet
  <2>3. QED
    BY <1>1, <2>1, NoRowsYet, PTL
<1>2. ASSUME UNCHANGED <<chSeen, chCore>> PROVE CoreInv'
  BY <1>2 DEF CoreInv, RowsDrawn, RowPending, Drawn
<1>3. ASSUME ChReceive PROVE CoreInv'
  BY <1>3, RowStarts, RowGoesOn, FirstRow, OtherSample
<1>4. ChListen \/ ChMiss \/ ChDeactivate \/ (\E n \in 1..Cores, gap \in 1..Near : ChSample(n, gap)) \/ UNCHANGED chVars
          => UNCHANGED <<chSeen, chCore>>
  BY DEF ChListen, ChMiss, ChDeactivate, ChSample, chVars
<1>5. QED
  BY <1>1, <1>2, <1>3, <1>4 DEF ChNext

LEMMA ChartsStart == ChInit => ChartsInv
<1> SUFFICES ASSUME ChInit PROVE ChartsInv
  OBVIOUS
<1>1. /\ chListener = "idle" /\ chStamp = 0 /\ chComing = <<>> /\ chSeen = {}
      /\ chCpu = [xs |-> <<>>, app |-> <<>>] /\ chCore = NoRows
  BY DEF ChInit, NoPoints
<1>2. <<>> \in Seq(Nat) /\ <<>> \in Seq(Kinds) /\ Len(<<>>) = 0 /\ 1..0 = {}
  BY EmptySeq
<1>3. ComingInv
  BY <1>1, <1>2, WindowConstants DEF ComingInv
<1>4. CpuInv
  <2>1. Totals({}) = {}
    BY DEF Totals
  <2>2. QED
    BY <1>1, <1>2, <2>1, EmptyWindow DEF CpuInv
<1>5. QED
  BY <1>1, <1>3, <1>4, NoRowsYet DEF ChartsInv

LEMMA ChartsStep == ChartsInv /\ [ChNext]_chVars => ChartsInv'
  BY ComingStep, CpuStep, CoreStep DEF ChartsInv

\* Samples come in order, the totals' stamps and the rows are in order, and
\* what either chart holds is their window; the app's line holds at each point
\* what its own push brought or what one without a total brought before the
\* next point.
THEOREM ChartsInvariance == ChSpec => []ChartsInv
<1>1. QED
  BY ChartsStart, ChartsStep, PTL DEF ChSpec

LEMMA ChartsFollow == ChartsInv => ChTypeOK /\ ChartsAgree
<1> SUFFICES ASSUME ChartsInv PROVE ChTypeOK /\ ChartsAgree
  OBVIOUS
<1>1. ComingInv /\ CpuInv /\ RowsDrawn
  BY DEF ChartsInv, CoreInv
<1>2. ChTypeOK
  <2>1. Len(chCpu.xs) = Len(chCpu.app)
    BY <1>1 DEF CpuInv
  <2>2. QED
    BY <1>1, <2>1 DEF ChTypeOK, ComingInv, RowsDrawn, Kinds
<1>3. CpuChartsAgree
  <2> DEFINE s == InOrder(Totals(chSeen))
  <2>1. StaticCpu(chSeen).xs = s /\ StaticCpu(chSeen).app = Marked(s, chSeen, App)
    BY DEF StaticCpu, Totals, Marked
  <2>2. s \in Seq(Nat) /\ chCpu.xs = Recent(s)
    BY <1>1 DEF CpuInv, Ordered
  <2>3. /\ chCpu.xs \in Seq(Nat) /\ chCpu.app \in Seq(Nat) /\ Len(chCpu.app) = Len(chCpu.xs)
        /\ \A p \in 1..Len(chCpu.xs) : Filled(chSeen, chCpu.xs, p, chCpu.app[p])
    BY <1>1 DEF CpuInv
  <2>4. DOMAIN chCpu.xs = 1..Len(chCpu.xs) /\ DOMAIN chCpu.app = 1..Len(chCpu.xs)
    BY <2>3, LenProperties
  <2> HIDE DEF s
  <2>5. Recent(StaticCpu(chSeen).app) = Marked(chCpu.xs, chSeen, App)
    BY <2>1, <2>2, MarkedRecent
  <2>6. ASSUME NEW p \in 1..Len(chCpu.xs)
        PROVE  \/ chCpu.app[p] = Recent(StaticCpu(chSeen).app)[p]
               \/ OfAnotherPush(chSeen, chCpu.xs, p, chCpu.app[p])
    <3>1. Marked(chCpu.xs, chSeen, App)[p] =
             IF <<chCpu.xs[p], App>> \in chSeen THEN chCpu.xs[p] ELSE Blank
      BY <2>3, <2>6, MarkedIs
    <3>2. QED
      BY <2>3, <2>5, <3>1 DEF Filled
  <2>7. QED
    BY <2>1, <2>2, <2>4, <2>6 DEF CpuChartsAgree
<1>4. CoreChartsAgree
  <2> DEFINE s == InOrder(CoreStamps(Drawn))
  <2>1. StaticCoreXs(Drawn) = s /\ \A c : StaticCore(Drawn, c) = Marked(s, Drawn, c)
    BY DEF StaticCoreXs, StaticCore, CoreStamps, Marked
  <2>2. /\ s \in Seq(Nat) /\ chCore.xs = Recent(s)
        /\ \A c \in 1..chCore.first : chCore.series[c] = Marked(chCore.xs, Drawn, c)
    BY <1>1 DEF RowsDrawn, Ordered
  <2> HIDE DEF s
  <2>3. /\ chCore.xs = Recent(StaticCoreXs(Drawn))
        /\ \A c \in 1..chCore.first : chCore.series[c] = Recent(StaticCore(Drawn, c))
    BY <2>1, <2>2, MarkedRecent
  <2>4. QED
    BY <2>3 DEF CoreChartsAgree, Drawn
<1>5. QED
  BY <1>2, <1>3, <1>4 DEF ChartsAgree

\* The live charts draw of a recording what the charts of the history draw of
\* the same samples, but for app values of a push without a total
\* (LiveCpuChart.tsx, LivePerCoreChart.tsx).
THEOREM LiveAndRecordedAgree == ChSpec => []ChartsAgree
<1>1. QED
  BY ChartsInvariance, ChartsFollow, PTL

-----------------------------------------------------------------------------
(***************************************************************************)
(* The composed instance: a step of it is a step of one machine at most.   *)
(***************************************************************************)

LEMMA EachBegins == Init => TabInit /\ MigInit /\ MarkInit /\ HistInit /\ ChInit /\ RtInit
  BY DEF Init

LEMMA EachMoves ==
    [Next]_vars => /\ [TabNext]_tabVars /\ [MigNext]_migVars /\ [MarkNext]_markVars
                   /\ [HistNext]_histVars /\ [ChNext]_chVars /\ [RtNext]_rtVars
  BY DEF Next, vars, TablesSteps, MigrationSteps, MarkerSteps, HistorySteps, ChartSteps, RateSteps

LEMMA EachRecord ==
    FairSpec => TabSpec /\ MigSpec /\ MarkSpec /\ HistSpec /\ ChSpec /\ RtSpec
<1>1. QED
  BY EachBegins, EachMoves, PTL
  DEF FairSpec, TabSpec, MigSpec, MarkSpec, HistSpec, ChSpec, RtSpec

\* Whatever is recorded, kept and shown has the values its parts may take.
THEOREM TypesOfRecords == FairSpec => []RecordsTypeOK
<1>1. /\ HistInv => HistTypeOK
      /\ RatesInv => RtTypeOK
      /\ ChartsInv => ChTypeOK
  BY ChartsFollow DEF HistInv, RatesInv
<1>2. TabTypeOK /\ MigTypeOK /\ MarkTypeOK /\ HistTypeOK /\ ChTypeOK /\ RtTypeOK => RecordsTypeOK
  BY DEF RecordsTypeOK
<1>3. QED
  BY <1>1, <1>2, EachRecord, TypesOfTables, TypesOfMigrations, TypesOfMarkers,
     HistoryInvariance, RatesInvariance, ChartsInvariance, PTL

=============================================================================
