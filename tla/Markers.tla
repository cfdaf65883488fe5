------------------------------ MODULE Markers -------------------------------
(***************************************************************************)
(* Markers: the Live tab's own list, changed first and saved afterwards;   *)
(* the commands add_marker, update_marker, update_marker_label and         *)
(* delete_marker, which run concurrently, each on its own way to the one   *)
(* database thread; the markers table; and the History tab's lists, one    *)
(* cached for each session, saved first and fetched again afterwards.  Any *)
(* session may be open there, the recording one too.                       *)
(*                                                                         *)
(* add_marker reads the session under AppState's lock and inserts after    *)
(* it has let go of it: the session may have stopped or been deleted.      *)
(***************************************************************************)
EXTENDS Naturals

CONSTANTS
    MaxRecordings,   \* bound: sessions
    MaxMarkers,      \* bound: add_marker calls
    MaxEdits,        \* bound: edits
    Offsets          \* where a marker may stand

ASSUME MarkersAssumption ==
    MaxRecordings \in Nat /\ MaxMarkers \in Nat /\ MaxEdits \in Nat

Recordings == 1..MaxRecordings
Marks == 1..MaxMarkers
Edits == 1..MaxEdits
Labels == {"none", "text"}
NoRecording == 0
Absent == [of |-> NoRecording]
NoList == [m \in Marks |-> Absent]

VARIABLES
    recorded,   \* sessions so far
    startStep,  \* "idle", "clicked", "installed": actuallyStartSession
    slotIn,     \* AppState.session
    screen,     \* activeSessionId
    kept,       \* sessions with a row
    adding,     \* [Marks -> the n-th add_marker call]
    lastMark,   \* ids handed out by the markers table
    table,      \* [Marks -> the markers table]
    liveList,   \* [Marks -> LiveView's `markers`]
    edit,       \* [Edits -> the n-th edit]
    edits,      \* edits so far
    histOf,     \* the session opened in History
    histList,   \* [Recordings -> [Marks -> its markers as last fetched]]
    fetched,    \* sessions whose list is cached and not invalidated
    outdated,   \* history: sessions whose markers a call of the Live tab
                \* changed since their list was fetched
    muddled     \* history: two edits of one marker overlapped, an edit of
                \* the Live tab failed, or its list changed in History

hist == <<histOf, histList, fetched, outdated>>
markVars == <<recorded, startStep, slotIn, screen, kept, adding, lastMark,
              table, liveList, edit, edits, hist, muddled>>
recording == <<recorded, startStep, slotIn, screen, kept>>
lists == <<liveList, hist>>

NoAdd == [step |-> "none", of |-> NoRecording]
Added == [step |-> "done", of |-> NoRecording]
NoEdit == [step |-> "none"]

MarkInit ==
    /\ recorded = 0 /\ startStep = "idle" /\ slotIn = NoRecording
    /\ screen = NoRecording /\ kept = {}
    /\ adding = [n \in Marks |-> NoAdd] /\ lastMark = 0
    /\ table = NoList /\ liveList = NoList
    /\ edit = [n \in Edits |-> NoEdit] /\ edits = 0
    /\ histOf = NoRecording /\ histList = [s \in Recordings |-> NoList]
    /\ fetched = {} /\ outdated = {}
    /\ muddled = FALSE

InFlight(n) == edit[n].step # "none"
AddsPending == \E n \in Marks : adding[n].step \in {"asked", "picked", "stored"}
AtRest == ~AddsPending /\ \A n \in Edits : ~InFlight(n)
Of(s) == [m \in Marks |-> IF table[m].of = s THEN table[m] ELSE Absent]

-----------------------------------------------------------------------------
(* The recording. *)

(* actuallyStartSession: setMarkers([]), then the command. *)
StartRecording ==
    /\ screen = NoRecording /\ startStep = "idle"
    /\ recorded < MaxRecordings
    /\ startStep' = "clicked"
    /\ liveList' = NoList
    /\ muddled' = (muddled \/ ~AtRest)
    /\ UNCHANGED <<recorded, slotIn, screen, kept, adding, lastMark, table,
                   hist, edit, edits>>

StartInstalls ==
    /\ startStep = "clicked" /\ startStep' = "installed"
    /\ recorded' = recorded + 1
    /\ slotIn' = recorded' /\ kept' = kept \union {recorded'}
    /\ UNCHANGED <<screen, adding, lastMark, table, lists, edit, edits, muddled>>

StartReturns ==
    /\ startStep = "installed" /\ startStep' = "idle"
    /\ screen' = recorded
    /\ UNCHANGED <<recorded, slotIn, kept, adding, lastMark, table, lists,
                   edit, edits, muddled>>

(* A stop or its own end takes the session out of AppState ... *)
SlotEmpties ==
    /\ slotIn # NoRecording /\ slotIn' = NoRecording
    /\ UNCHANGED <<recorded, startStep, screen, kept, adding, lastMark, table,
                   lists, edit, edits, muddled>>

(* ... and the screen lets go of it before or after that; its markers stay *)
(* on the charts.                                                          *)
ScreenLetsGo ==
    /\ screen # NoRecording /\ screen' = NoRecording
    /\ UNCHANGED <<recorded, startStep, slotIn, kept, adding, lastMark, table,
                   lists, edit, edits, muddled>>

(* delete_session from History, which closes the session's detail. *)
DeleteRecording(s) ==
    /\ s \in kept
    /\ kept' = kept \ {s}
    /\ table' = [m \in Marks |-> IF table[m].of = s THEN Absent ELSE table[m]]
    /\ histOf' = IF histOf = s THEN NoRecording ELSE histOf
    /\ muddled' = (muddled \/ s = recorded)
    /\ UNCHANGED <<recorded, startStep, slotIn, screen, adding, lastMark,
                   liveList, histList, fetched, outdated, edit, edits>>

-----------------------------------------------------------------------------
(* add_marker. *)

ClickMarker(n) ==
    /\ screen # NoRecording
    /\ adding[n].step = "none" /\ \A k \in 1..(n - 1) : adding[k].step # "none"
    /\ adding' = [adding EXCEPT ![n].step = "asked"]
    /\ UNCHANGED <<recording, lastMark, table, lists, edit, edits, muddled>>

(* The lock: the session to mark, or "no active session". *)
AddPicks(n) ==
    /\ adding[n].step = "asked"
    /\ adding' = [adding EXCEPT ![n] =
                     IF slotIn = NoRecording THEN Added
                     ELSE [step |-> "picked", of |-> slotIn]]
    /\ UNCHANGED <<recording, lastMark, table, lists, edit, edits, muddled>>

(* insert_marker, if the row is still there. *)
AddStores(n) ==
    /\ adding[n].step = "picked"
    /\ \/ /\ adding[n].of \in kept
          /\ lastMark' = lastMark + 1
          /\ \E at \in Offsets :
                LET mark == [of |-> adding[n].of, at |-> at, label |-> "none"] IN
                /\ table' = [table EXCEPT ![lastMark'] = mark]
                /\ adding' = [adding EXCEPT ![n] =
                      [step |-> "stored", of |-> mark.of, id |-> lastMark', mark |-> mark]]
          /\ outdated' = outdated \union {adding[n].of}
       \/ /\ adding[n].of \notin kept
          /\ adding' = [adding EXCEPT ![n] = Added]
          /\ UNCHANGED <<lastMark, table, outdated>>
    /\ UNCHANGED <<recording, liveList, histOf, histList, fetched, edit, edits,
                   muddled>>

(* handleAddMarker appends the marker that came back. *)
AddReturns(n) ==
    /\ adding[n].step = "stored"
    /\ adding' = [adding EXCEPT ![n] = Added]
    /\ liveList' = [liveList EXCEPT ![adding[n].id] = adding[n].mark]
    /\ muddled' = (muddled \/ adding[n].of # recorded)
    /\ UNCHANGED <<recording, lastMark, table, hist, edit, edits>>

-----------------------------------------------------------------------------
(* Edits: a drag's end, a label, a deletion. *)

Changed(list, e) ==
    IF list[e.m] = Absent THEN list
    ELSE CASE e.kind = "move"   -> [list EXCEPT ![e.m].at = e.to]
           [] e.kind = "label"  -> [list EXCEPT ![e.m].label = e.to]
           [] e.kind = "delete" -> [list EXCEPT ![e.m] = Absent]

(* Edits that may overtake each other with a lasting effect. *)
Clash(e) ==
    \E n \in Edits : InFlight(n) /\ edit[n].m = e.m
                     /\ (edit[n].kind = e.kind \/ "delete" \in {edit[n].kind, e.kind})

Issue(e) ==
    /\ edits < MaxEdits
    /\ edits' = edits + 1
    /\ edit' = [edit EXCEPT ![edits'] = e]

EditsOf(m, tab, s) ==
    {[step |-> "asked", from |-> tab, of |-> s, m |-> m, kind |-> "move", to |-> t] : t \in Offsets}
    \union {[step |-> "asked", from |-> tab, of |-> s, m |-> m, kind |-> "label", to |-> l] : l \in Labels}
    \union {[step |-> "asked", from |-> tab, of |-> s, m |-> m, kind |-> "delete"]}

(* handleMarkerDragEnd, handleMarkerLabelEdit, handleMarkerDelete of the   *)
(* Live tab: the list first, then the command.                             *)
EditLive(m) ==
    /\ liveList[m] # Absent
    /\ \E e \in EditsOf(m, "live", NoRecording) :
          /\ Issue(e)
          /\ liveList' = Changed(liveList, e)
          /\ muddled' = (muddled \/ Clash(e))
    /\ UNCHANGED <<recording, adding, lastMark, table, hist>>

(* The same of the History tab: the command only.  The Live tab is not     *)
(* told, should the session be its own.                                    *)
EditHistory(m) ==
    /\ histOf # NoRecording /\ histList[histOf][m] # Absent
    /\ \E e \in EditsOf(m, "history", histOf) : Issue(e)
    /\ muddled' = (muddled \/ histOf = recorded)
    /\ UNCHANGED <<recording, adding, lastMark, table, lists>>

(* The command reaches the table: an UPDATE or DELETE of one id, which     *)
(* finds a row or not; or it fails: the Live tab keeps its change, and     *)
(* History does not fetch.                                                 *)
EditLands(n) ==
    /\ edit[n].step = "asked"
    /\ \/ /\ table' = Changed(table, edit[n])
          /\ IF edit[n].from = "live"
             THEN /\ edit' = [edit EXCEPT ![n] = NoEdit]
                  /\ outdated' = outdated \union ({table[edit[n].m].of} \ {NoRecording})
             ELSE edit' = [edit EXCEPT ![n].step = "landed"] /\ UNCHANGED outdated
          /\ UNCHANGED muddled
       \/ /\ edit' = [edit EXCEPT ![n] = NoEdit]
          /\ muddled' = (muddled \/ edit[n].from = "live")
          /\ UNCHANGED <<table, outdated>>
    /\ UNCHANGED <<recording, adding, lastMark, liveList, histOf, histList,
                   fetched, edits>>

(* Mistake: History does not fetch its list again. *)
HistoryKeepsList(n) ==
    /\ edit[n].step = "landed"
    /\ edit' = [edit EXCEPT ![n] = NoEdit]
    /\ UNCHANGED <<recording, adding, lastMark, table, lists, edits, muddled>>

(* list_session_markers for the cache. *)
Fetches(s) ==
    /\ histList' = [histList EXCEPT ![s] = Of(s)]
    /\ fetched' = fetched \union {s}
    /\ outdated' = outdated \ {s}

(* invalidateQueries after an edit of the History tab: the list is fetched *)
(* again, at once if its session is open, else when it is opened next.     *)
HistoryRefetches(n) ==
    /\ edit[n].step = "landed"
    /\ edit' = [edit EXCEPT ![n] = NoEdit]
    /\ IF edit[n].of = histOf THEN Fetches(histOf)
       ELSE /\ fetched' = fetched \ {edit[n].of}
            /\ UNCHANGED <<histList, outdated>>
    /\ UNCHANGED <<recording, adding, lastMark, table, liveList, histOf,
                   edits, muddled>>

(* A row is opened in History.  A list fetched within the last second is   *)
(* taken from the cache, any other is fetched.                             *)
OpenHistory(s) ==
    /\ s \in kept /\ s # histOf
    /\ histOf' = s
    /\ Fetches(s) \/ (s \in fetched /\ UNCHANGED <<histList, fetched, outdated>>)
    /\ UNCHANGED <<recording, adding, lastMark, table, liveList, edit, edits,
                   muddled>>

-----------------------------------------------------------------------------
MarkNext ==
    \/ StartRecording \/ StartInstalls \/ StartReturns
    \/ SlotEmpties \/ ScreenLetsGo
    \/ \E s \in Recordings : DeleteRecording(s) \/ OpenHistory(s)
    \/ \E n \in Marks : ClickMarker(n) \/ AddPicks(n) \/ AddStores(n) \/ AddReturns(n)
    \/ \E m \in Marks : EditLive(m) \/ EditHistory(m)
    \/ \E n \in Edits : EditLands(n) \/ HistoryRefetches(n)

MarkSpec == MarkInit /\ [][MarkNext]_markVars

-----------------------------------------------------------------------------
Lists == [Marks -> {Absent} \union
             [of : Recordings, at : Offsets, label : Labels]]

MarkTypeOK ==
    /\ recorded \in 0..MaxRecordings
    /\ startStep \in {"idle", "clicked", "installed"}
    /\ slotIn \in 0..recorded /\ screen \in 0..recorded
    /\ kept \subseteq 1..recorded
    /\ \A n \in Marks :
          /\ adding[n].step \in {"none", "asked", "picked", "stored", "done"}
          /\ adding[n].of \in 0..recorded
    /\ lastMark \in 0..MaxMarkers
    /\ table \in Lists /\ liveList \in Lists
    /\ histOf \in 0..recorded /\ histList \in [Recordings -> Lists]
    /\ fetched \subseteq Recordings /\ outdated \subseteq Recordings
    /\ edits \in 0..MaxEdits /\ muddled \in BOOLEAN

(* A marker in the table belongs to a session that has its row, although   *)
(* add_marker looked at the session earlier.  (commands.rs:275-292,        *)
(* lib.rs:385-422.)                                                        *)
MarkersOwned == \A m \in Marks : table[m].of # NoRecording => table[m].of \in kept

(* What the Live tab shows is what is stored, once the calls are back:     *)
(* changing the list before the command is safe as long as edits of one    *)
(* marker do not overlap, none fails and nobody else edits.                *)
(* (LiveView.tsx:231-235, 290-334.)                                        *)
LiveListStored ==
    ~muddled /\ AtRest /\ startStep = "idle" /\ recorded # 0 => liveList = Of(recorded)

(* The same of the History tab, of any session, also of edits that overlap *)
(* or fail, but for what the Live tab did after the list was fetched: its  *)
(* calls do not invalidate it.  (HistoryView.tsx:301-331.)                 *)
HistoryListStored ==
    AtRest /\ histOf # NoRecording /\ histOf \notin outdated
        => histList[histOf] = Of(histOf)

\* The marker lists on screen, of the live and of the history view, are those
\* in the table when their calls have returned (LiveView.tsx:290-330,
\* HistoryView.tsx:296-330).
MarkerListsStored == MarkersOwned /\ LiveListStored /\ HistoryListStored
=============================================================================
