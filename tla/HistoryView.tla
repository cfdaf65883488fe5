---------------------------- MODULE HistoryView -----------------------------
(***************************************************************************)
(* The History tab: the list of sessions react-query refetches, the ticks, *)
(* the open recording and the bulk delete, next to the recorder, of which  *)
(* the tab knows only activeSessionId.  How the two drift apart is         *)
(* LiveView's subject; here a session gets its row, the reply of its start *)
(* puts it on the screen, and its end and the screen letting go of it come *)
(* in either order.                                                        *)
(***************************************************************************)
EXTENDS Naturals

CONSTANT MaxListed \* bound: sessions recorded

ASSUME RowsAssumption == MaxListed \in Nat

RowIds == 1..MaxListed

VARIABLES
    recorder,   \* [RowIds -> "none", "recording", "over"]
    answering,  \* sessions whose start_session has not returned
    shown,      \* activeSessionId (0: none)
    rows,       \* rows of the sessions table
    listed,     \* rows in the last list_sessions answer
    ticked,     \* `checked`
    opened,     \* `selectedId` (0: none)
    confirm,    \* confirmOpen
    deleting,   \* ids handleConfirmDelete works on ({}: not running)
    unsettled,  \* those whose delete_session has not returned
    refused,    \* those whose delete_session failed
    refetching, \* handleConfirmDelete awaits the refetch of the list
    early,      \* history: ids ticked before their start had returned
    lost,       \* history: ids the screen let go of while they recorded
    dismissed   \* history: a dialog was cancelled during its deletion

recVars == <<recorder, answering, shown, lost>>
histVars == <<recVars, rows, listed, ticked, opened, confirm, deleting,
              unsettled, refused, refetching, early, dismissed>>
dialogue == <<confirm, deleting, unsettled, refused, refetching>>

NoRow == 0
Records(s) == recorder[s] = "recording"

HistInit ==
    /\ recorder = [s \in RowIds |-> "none"]
    /\ answering = {} /\ shown = NoRow /\ lost = {}
    /\ rows = {} /\ listed = {} /\ ticked = {} /\ opened = NoRow
    /\ confirm = FALSE /\ deleting = {} /\ unsettled = {} /\ refused = {}
    /\ refetching = FALSE /\ early = {} /\ dismissed = FALSE

(* create_session.  The click found nothing on the screen, but another     *)
(* start may have been under way and be shown by now.                      *)
SessionBegins(s) ==
    /\ recorder[s] = "none" /\ \A t \in 1..(s - 1) : recorder[t] # "none"
    /\ recorder' = [recorder EXCEPT ![s] = "recording"]
    /\ rows' = rows \union {s}
    /\ answering' = answering \union {s}
    /\ UNCHANGED <<shown, lost, listed, ticked, opened, dialogue, early, dismissed>>

(* setActiveSessionId: the session shown so far is let go of. *)
Shows(s) ==
    /\ shown' = s
    /\ lost' = lost \union {t \in RowIds \ {s} : t = shown /\ Records(t)}

(* start_session returns: the session is put on the screen, whatever has   *)
(* become of it, or its scheduler did not start.                           *)
StartReplies(s) ==
    /\ s \in answering
    /\ answering' = answering \ {s}
    /\ \/ Shows(s) /\ UNCHANGED recorder
       \/ /\ recorder' = [recorder EXCEPT ![s] = "over"]
          /\ UNCHANGED <<shown, lost>>
    /\ UNCHANGED <<rows, listed, ticked, opened, dialogue, early, dismissed>>

(* A stop, a displacing start or its own end takes the session away. *)
SessionEnds(s) ==
    /\ Records(s)
    /\ recorder' = [recorder EXCEPT ![s] = "over"]
    /\ UNCHANGED <<answering, shown, lost, rows, listed, ticked, opened,
                   dialogue, early, dismissed>>

(* setActiveSessionId(null): after a stop_session, which may have found    *)
(* another session, and on the ended event of any session.                 *)
ScreenClears ==
    /\ shown # NoRow /\ Shows(NoRow)
    /\ UNCHANGED <<recorder, answering, rows, listed, ticked, opened,
                   dialogue, early, dismissed>>

(* The 5 s refetch, or the one Start's and Stop's handlers ask for. *)
ListFetched ==
    /\ listed' = rows
    /\ UNCHANGED <<recVars, rows, ticked, opened, dialogue, early, dismissed>>

Deletable == listed \ {shown}

TickBoxes(new) ==
    /\ ticked' = new
    /\ early' = early \union ((new \ ticked) \intersect answering)
    /\ UNCHANGED <<recVars, rows, listed, opened, dialogue, dismissed>>

(* Mistake: the box of the active session is not disabled. *)
ToggleAnyRow(s) ==
    /\ ~confirm /\ s \in listed
    /\ TickBoxes(IF s \in ticked THEN ticked \ {s} ELSE ticked \union {s})

(* A checkbox; the active session's is disabled.  The dialog covers them. *)
ToggleRow(s) ==
    /\ ~confirm /\ s \in Deletable
    /\ TickBoxes(IF s \in ticked THEN ticked \ {s} ELSE ticked \union {s})

ToggleAllRows ==
    /\ ~confirm /\ Deletable # {}
    /\ TickBoxes(IF Deletable \subseteq ticked THEN {} ELSE Deletable)

OpenRow(s) ==
    /\ ~confirm /\ s \in listed
    /\ opened' = s
    /\ UNCHANGED <<recVars, rows, listed, ticked, dialogue, early, dismissed>>

ClickDelete ==
    /\ ~confirm /\ ticked # {}
    /\ confirm' = TRUE
    /\ UNCHANGED <<recVars, rows, listed, ticked, opened, deleting,
                   unsettled, refused, refetching, early, dismissed>>

(* Cancel, which stays possible while the deletion runs. *)
CancelDelete ==
    /\ confirm /\ confirm' = FALSE
    /\ dismissed' = (dismissed \/ deleting # {})
    /\ UNCHANGED <<recVars, rows, listed, ticked, opened, deleting,
                   unsettled, refused, refetching, early>>

(* handleConfirmDelete: every ticked id, at once. *)
ConfirmDelete ==
    /\ confirm /\ deleting = {} /\ ticked # {}
    /\ deleting' = ticked /\ unsettled' = ticked /\ refused' = {}
    /\ UNCHANGED <<recVars, rows, listed, ticked, opened, confirm,
                   refetching, early, dismissed>>

(* delete_session of one of them returns. *)
DeleteSettles(s) ==
    /\ s \in unsettled
    /\ unsettled' = unsettled \ {s}
    /\ \/ rows' = rows \ {s} /\ UNCHANGED refused
       \/ refused' = refused \union {s} /\ UNCHANGED rows
    /\ UNCHANGED <<recVars, listed, ticked, opened, confirm, deleting,
                   refetching, early, dismissed>>

(* Mistake: one failure keeps all the ticks. *)
DeletesSettledKeepsTicks ==
    /\ deleting # {} /\ unsettled = {} /\ ~refetching
    /\ ticked' = IF refused = {} THEN {} ELSE ticked
    /\ opened' = IF opened \in deleting \ refused THEN NoRow ELSE opened
    /\ refetching' = TRUE
    /\ UNCHANGED <<recVars, rows, listed, confirm, deleting, unsettled,
                   refused, early, dismissed>>

(* Mistake: a failure leaves the handler before its last part. *)
DeletesSettledUnlessRefused ==
    /\ deleting # {} /\ unsettled = {} /\ ~refetching /\ refused = {}
    /\ ticked' = {}
    /\ opened' = IF opened \in deleting THEN NoRow ELSE opened
    /\ refetching' = TRUE
    /\ UNCHANGED <<recVars, rows, listed, confirm, deleting, unsettled,
                   refused, early, dismissed>>

(* All have returned: the failed ones stay ticked, an opened one that is   *)
(* gone is closed, and the list is fetched again.                          *)
DeletesSettled ==
    /\ deleting # {} /\ unsettled = {} /\ ~refetching
    /\ ticked' = refused
    /\ opened' = IF opened \in deleting \ refused THEN NoRow ELSE opened
    /\ refetching' = TRUE
    /\ UNCHANGED <<recVars, rows, listed, confirm, deleting, unsettled,
                   refused, early, dismissed>>

(* Mistake: the list is left to the next poll. *)
DialogClosesStale ==
    /\ refetching /\ refetching' = FALSE
    /\ deleting' = {} /\ refused' = {}
    /\ confirm' = FALSE
    /\ UNCHANGED <<recVars, rows, listed, ticked, opened, unsettled, early, dismissed>>

DialogCloses ==
    /\ refetching /\ refetching' = FALSE
    /\ listed' = rows
    /\ deleting' = {} /\ refused' = {}
    /\ confirm' = FALSE
    /\ UNCHANGED <<recVars, rows, ticked, opened, unsettled, early, dismissed>>

HistNext ==
    \/ ScreenClears \/ ListFetched \/ ToggleAllRows \/ ClickDelete \/ CancelDelete
    \/ ConfirmDelete \/ DeletesSettled \/ DialogCloses
    \/ \E s \in RowIds :
          \/ SessionBegins(s) \/ StartReplies(s) \/ SessionEnds(s)
          \/ ToggleRow(s) \/ OpenRow(s) \/ DeleteSettles(s)

HistSpec == HistInit /\ [][HistNext]_histVars

(* Commands return, and their handler goes on. *)
DeletionGoesOn ==
    DeletesSettled \/ DialogCloses \/ \E s \in RowIds : DeleteSettles(s)

HistFairness == WF_histVars(DeletionGoesOn)

-----------------------------------------------------------------------------
HistTypeOK ==
    /\ recorder \in [RowIds -> {"none", "recording", "over"}]
    /\ answering \subseteq RowIds /\ lost \subseteq RowIds
    /\ shown \in RowIds \union {NoRow}
    /\ rows \subseteq RowIds /\ listed \subseteq RowIds
    /\ ticked \subseteq RowIds /\ early \subseteq RowIds
    /\ opened \in RowIds \union {NoRow}
    /\ confirm \in BOOLEAN /\ refetching \in BOOLEAN /\ dismissed \in BOOLEAN
    /\ unsettled \subseteq deleting /\ refused \subseteq deleting \ unsettled

(* The history view never deletes the session being recorded: "The         *)
(* currently-recording session is excluded so the user can't pull the rug  *)
(* from under their own write stream" (HistoryView.tsx:62-64).             *)
RecordingSurvivesDelete ==
    [][\A s \in RowIds : s \in rows /\ s \notin rows' => ~Records(s)]_histVars

(* What the exclusion does achieve: a recording is ticked or being deleted *)
(* only if it was ticked before its start call had returned, or if the     *)
(* screen let go of it while it recorded.                                  *)
(* (HistoryView.tsx:62-83, 85-107, 160-166; LiveView.tsx:281-287, 384-386, *)
(* 537-540.)                                                               *)
OnlyUnseenEndangered ==
    \A s \in RowIds :
        Records(s) /\ s \in ticked \union deleting => s \in early \union lost

(* Once a deletion is through and the list fetched, nothing that was       *)
(* deleted is still ticked, listed or open, whichever of the deletions     *)
(* failed, if no dialog was cancelled while it deleted.                    *)
(* (HistoryView.tsx:85-107.)                                               *)
DeletedLeavesNoTrace ==
    [][DialogCloses /\ ~dismissed =>
          /\ ticked \subseteq rows
          /\ listed' \subseteq rows
          /\ opened \in rows \union {NoRow}]_histVars
=============================================================================
