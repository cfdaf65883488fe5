---------------------------- MODULE RecordingInv ----------------------------
(***************************************************************************)
(* The inductive invariant behind Recording's safety properties: how the   *)
(* control points of one session's tasks determine each other.             *)
(***************************************************************************)
EXTENDS Recording

\* Ids are dense: exactly the ids up to lastId have been handed out.
IdInv(s) ==
    /\ s <= lastId <=> starter[s] # "idle"
    /\ s <= lastId <=> row[s] # "absent"

\* Before the scheduler starts, and after the process that ran it is gone, a
\* session has no task, no handle and no Session object.
Dormant(s) ==
    /\ sched[s] = "none" /\ handle[s] = "none" /\ stopper[s] = "none"
    /\ writer[s] = "none" /\ pump[s] = "none" /\ watcher[s] = "none"
    /\ slot # s
    /\ ~permit[s] /\ ~cancel[s] /\ ~userStopping[s]
    /\ unread[s] = 0 /\ batch[s] = 0

\* The Session object is with its start call, then in AppState until its one
\* Session::stop has it.
LifeInv(s) ==
    /\ starter[s] \in {"idle", "created", "failed", "gone"} => Dormant(s)
    /\ starter[s] \in {"idle", "created", "failed"} => ~died[s] /\ sent[s] = 0
    /\ starter[s] \in {"scheduled", "spawned"} =>
          slot # s /\ stopper[s] = "none"
    /\ starter[s] \in {"scheduled", "spawned", "installed"} =>
          sched[s] # "none" /\ handle[s] # "none"
    /\ starter[s] = "scheduled" =>
          writer[s] = "none" /\ pump[s] = "none" /\ watcher[s] = "none"
    /\ starter[s] \in {"spawned", "installed"} =>
          writer[s] # "none" /\ pump[s] # "none" /\ watcher[s] # "none"
    /\ starter[s] = "installed" => (slot = s <=> stopper[s] = "none")
    /\ ~up => starter[s] \in {"idle", "gone"}

\* How far Session::stop has come.
StopInv(s) ==
    /\ userStopping[s] <=> stopper[s] \notin {"none", "taken"}
    /\ cancel[s] <=> stopper[s] \notin {"none", "taken", "flagged"}
    /\ handle[s] = "dropped" <=>
          stopper[s] \in {"draining", "finishing", "done"}
    /\ handle[s] = "dropped" => sched[s] = "finished"
    /\ stopper[s] \in {"finishing", "done"} => writer[s] = "done"
    /\ stopper[s] # "none" => starter[s] = "installed"
    /\ slot = s => starter[s] = "installed"

\* What is buffered was sent; a writer past its loop has nothing left.
ChannelInv(s) ==
    /\ unread[s] + batch[s] <= sent[s]
    /\ writer[s] = "none" => unread[s] = 0 /\ batch[s] = 0
    /\ writer[s] \in {"drained", "done"} =>
          handle[s] = "dropped" /\ unread[s] = 0 /\ batch[s] = 0

\* Why the scheduler stopped, and who may still speak of it.
EventInv(s) ==
    /\ sched[s] \in {"exited", "finished"} => died[s] \/ cancel[s]
    /\ permit[s] => sched[s] = "finished"
    /\ watcher[s] \in {"announcing", "cleaning"} => died[s]
    /\ starter[s] # "gone" /\ watcher[s] \in {"none", "armed", "announcing"} =>
          ended[s] = 0
    /\ ended[s] <= 1
    /\ ended[s] > 0 => died[s]

\* Who may have stamped the row.
RowInv(s) ==
    /\ row[s] \in {"writer", "stop"} => writer[s] = "done" \/ starter[s] = "gone"
    /\ row[s] = "cleanup" => starter[s] = "gone"
    /\ row[s] = "open" /\ starter[s] = "gone" => ~up
    /\ row[s] \in {"absent", "deleted"} => stored[s] = 0
    /\ ~StorageMayFail => row[s] # "stop"
    /\ ~StorageMayFail /\ writer[s] = "done" => row[s] # "open"

SessionInv(s) ==
    IdInv(s) /\ LifeInv(s) /\ StopInv(s) /\ ChannelInv(s) /\ EventInv(s)
        /\ RowInv(s)

\* The inductive invariant.
IInv == TypeOK /\ \A s \in Sessions : SessionInv(s)
=============================================================================
