----------------------------- MODULE MCRecords ------------------------------
(***************************************************************************)
(* Small instances of what keeps and shows recordings for TLC: the tables, *)
(* their migrations, markers, the history view, the charts and the rates   *)
(* they are fed at.  A behaviour is of one of them, chosen at first.       *)
(***************************************************************************)
EXTENDS Tables, Migrations, Markers, HistoryView, Charts, Rates

VARIABLE subject   \* the machine this behaviour is of

Subjects == {"tables", "migrations", "markers", "history", "charts", "rates"}

Init ==
    /\ subject \in Subjects
    /\ TabInit
    /\ MigInit
    /\ MarkInit
    /\ HistInit
    /\ ChInit
    /\ RtInit
    \* the others stand in one of their initial states
    /\ subject # "rates" => rtStore = Unpicked

TablesSteps ==
    /\ subject = "tables" /\ TabNext
    /\ UNCHANGED <<subject, migVars, markVars, histVars, chVars, rtVars>>

MigrationSteps ==
    /\ subject = "migrations" /\ MigNext
    /\ UNCHANGED <<subject, tabVars, markVars, histVars, chVars, rtVars>>

MarkerSteps ==
    /\ subject = "markers" /\ MarkNext
    /\ UNCHANGED <<subject, tabVars, migVars, histVars, chVars, rtVars>>

HistorySteps ==
    /\ subject = "history" /\ HistNext
    /\ UNCHANGED <<subject, tabVars, migVars, markVars, chVars, rtVars>>

ChartSteps ==
    /\ subject = "charts" /\ ChNext
    /\ UNCHANGED <<subject, tabVars, migVars, markVars, histVars, rtVars>>

RateSteps ==
    /\ subject = "rates" /\ RtNext
    /\ UNCHANGED <<subject, tabVars, migVars, markVars, histVars, chVars>>

Next ==
    \/ TablesSteps \/ MigrationSteps \/ MarkerSteps
    \/ HistorySteps \/ ChartSteps \/ RateSteps

vars == <<subject, tabVars, migVars, markVars, histVars, chVars, rtVars>>

Fairness == MigFairness /\ HistFairness

FairSpec == Init /\ [][Next]_vars /\ Fairness

\* The values every part of the state takes.
RecordsTypeOK ==
    /\ TabTypeOK /\ MigTypeOK /\ MarkTypeOK
    /\ HistTypeOK /\ ChTypeOK /\ RtTypeOK

\* A launch of the program is not through with the schema, or a deletion the
\* user confirmed has not closed its dialog.
Underway == proc \notin {"open", "refused", "down"} \/ deleting # {}

\* A launch comes to an open database, a refusal or its end, and a confirmed
\* deletion to its end, whatever fails on the way (schema.rs:20-60,
\* HistoryView.tsx:84-112).  As a behaviour is of one machine, the other's
\* part of Underway is false throughout.
CallsConclude == Underway ~> ~Underway
=============================================================================
