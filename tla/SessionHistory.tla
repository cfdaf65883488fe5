--------------------------- MODULE SessionHistory ---------------------------
(***************************************************************************)
(* What the History tab may rely on, whatever the recording machinery      *)
(* does: sessions appear in id order and never reappear once deleted,      *)
(* samples only ever join a session that is still open, and the end of a   *)
(* session is stamped once and for good.  Recording.tla implements it.     *)
(***************************************************************************)
EXTENDS Naturals

CONSTANTS
    Sessions,      \* session ids, an initial segment of 1, 2, ...
    Stamps,        \* who may have stamped wall_end_ms
    MaxSamples     \* samples one session can gain

VARIABLES
    entry,         \* [Sessions -> what the sessions table shows for that id]
    samples        \* [Sessions -> number of sample rows that belong to it]

histVars == <<entry, samples>>

Entries == {"absent", "open", "deleted"} \union Stamps

Init ==
    /\ entry = [s \in Sessions |-> "absent"]
    /\ samples = [s \in Sessions |-> 0]

\* Ids are handed out in increasing order (AUTOINCREMENT).
Open(s) ==
    /\ entry[s] = "absent"
    /\ \A t \in Sessions : t < s => entry[t] # "absent"
    /\ entry' = [entry EXCEPT ![s] = "open"]
    /\ UNCHANGED samples

Record(s) ==
    /\ entry[s] = "open"
    /\ \E n \in 1..MaxSamples : samples' = [samples EXCEPT ![s] = @ + n]
    /\ UNCHANGED entry

\* One session ends, or a start-up ends every session left open.
Close(S, stamp) ==
    /\ \A s \in S : entry[s] = "open"
    /\ entry' = [s \in Sessions |-> IF s \in S THEN stamp ELSE entry[s]]
    /\ UNCHANGED samples

Erase(s) ==
    /\ entry[s] \in {"open"} \union Stamps
    /\ entry' = [entry EXCEPT ![s] = "deleted"]
    /\ samples' = [samples EXCEPT ![s] = 0]

Next ==
    \/ \E s \in Sessions : Open(s) \/ Record(s) \/ Erase(s)
    \/ \E S \in SUBSET Sessions, stamp \in Stamps : Close(S, stamp)

Spec == Init /\ [][Next]_histVars
=============================================================================
