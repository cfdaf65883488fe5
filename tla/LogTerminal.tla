---------------------------- MODULE LogTerminal ----------------------------
(***************************************************************************)
(* LogTerminal.tsx on top of LogStream: the log terminal of the live view, *)
(* which starts and stops streams, receives their lines through the event  *)
(* channel, drops those stamped before its fence, gathers them in a        *)
(* pending array and flushes that into a ring buffer.                      *)
(*                                                                         *)
(* Every event of a stream is taken to be a log line; the attach status    *)
(* has a fence of the same kind.  Pause, filter and search are left out.   *)
(***************************************************************************)
EXTENDS LogStream, Sequences

CONSTANTS
    RingSize,      \* RING_BUFFER_SIZE
    Slack,         \* lines above it before the buffer is trimmed
    MaxTime        \* bound: readings of the clock

ASSUME LogTerminalAssumption ==
    RingSize \in Nat /\ Slack \in Nat /\ MaxTime \in Nat \ {0}

VARIABLES
    shown,       \* the start command of the terminal on screen, or Nobody
    switching,   \* the effect has been cleaned up and is about to run again
    listening,   \* the line listener is registered
    fence,       \* streamResetMsRef
    now,         \* the clock of the host
    stamp,       \* Calls -> ts_ms of the line a task has or waits for
    channel,     \* emitted lines on their way to the front end
    pending,     \* lines received since the last flush
    buffer       \* linesRef

screen == <<shown, switching, listening, fence>>
lines == <<pending, buffer>>
terminalVars == <<screen, now, stamp, channel, lines>>
allVars == <<vars, terminalVars>>

Line == [stream : Calls, n : 1..MaxEvents, ts : 0..MaxTime]

TerminalTypeOK ==
    /\ TypeOK
    /\ shown \in 0..MaxCalls
    /\ switching \in BOOLEAN
    /\ listening \in BOOLEAN
    /\ fence \in 0..MaxTime
    /\ now \in 0..MaxTime
    /\ stamp \in [Calls -> 0..MaxTime]
    /\ channel \in Seq(Line)
    /\ pending \in Seq(Line)
    /\ buffer \in Seq(Line)

TerminalInit ==
    /\ Init
    /\ shown = Nobody
    /\ switching = FALSE
    /\ listening = FALSE
    /\ fence = 0
    /\ now = 1
    /\ stamp = [c \in Calls |-> 0]
    /\ channel = <<>>
    /\ pending = <<>>
    /\ buffer = <<>>

-----------------------------------------------------------------------------
(***************************************************************************)
(* The component.  JavaScript runs one of these at a time.                 *)
(***************************************************************************)

\* The user opens the terminal: a new component, with a fence of 0.
Open ==
    /\ shown = Nobody
    /\ Issue("start")
    /\ shown' = issued + 1
    /\ fence' = 0
    /\ pending' = <<>>
    /\ buffer' = <<>>
    /\ UNCHANGED <<stateVars, taskVars, switching, listening, now, stamp, channel>>

StartsListening ==
    /\ shown # Nobody /\ ~switching
    /\ ~listening
    /\ listening' = TRUE
    /\ UNCHANGED <<vars, shown, switching, fence, now, stamp, channel, lines>>

\* Another device or app: the cleanup of the effect, ...
SwitchCleansUp ==
    /\ shown # Nobody /\ ~switching
    /\ issued + 2 <= MaxCalls
    /\ fence' = now
    /\ buffer' = <<>>
    /\ Issue("stop")
    /\ switching' = TRUE
    /\ UNCHANGED <<stateVars, taskVars, shown, listening, now, stamp, channel, pending>>

\* ... then the effect.
SwitchStarts ==
    /\ switching
    /\ Issue("start")
    /\ shown' = issued + 1
    /\ switching' = FALSE
    /\ UNCHANGED <<stateVars, taskVars, listening, fence, now, stamp, channel, lines>>

\* The user closes the terminal: the component goes, with what it has.
Close ==
    /\ shown # Nobody /\ ~switching
    /\ Issue("stop")
    /\ shown' = Nobody
    /\ listening' = FALSE
    /\ fence' = 0
    /\ pending' = <<>>
    /\ buffer' = <<>>
    /\ UNCHANGED <<stateVars, taskVars, switching, now, stamp, channel>>

Deliver ==
    /\ channel # <<>> /\ ~switching
    /\ LET line == Head(channel)
       IN  pending' = IF listening /\ line.ts >= fence
                      THEN Append(pending, line) ELSE pending
    /\ channel' = Tail(channel)
    /\ UNCHANGED <<vars, screen, now, stamp, buffer>>

\* Mistake: the newest lines are cut off.
TrimNewest(s) ==
    IF Len(s) > RingSize + Slack THEN SubSeq(s, 1, RingSize) ELSE s

\* Bulk trim, only above the slack.
Trim(s) ==
    IF Len(s) > RingSize + Slack
    THEN SubSeq(s, Len(s) - RingSize + 1, Len(s))
    ELSE s

Flush ==
    /\ pending # <<>> /\ ~switching
    /\ buffer' = Trim(buffer \o pending)
    /\ pending' = <<>>
    /\ UNCHANGED <<vars, screen, now, stamp, channel>>

-----------------------------------------------------------------------------
(***************************************************************************)
(* The back end, with its time stamps and the event channel                *)
(***************************************************************************)
Tick ==
    /\ now < MaxTime
    /\ now' = now + 1
    /\ UNCHANGED <<vars, screen, stamp, channel, lines>>

\* Mistake: a line is stamped when it is delivered, a tick later.
StampsAhead(i) ==
    /\ HasEvent(i)
    /\ stamp' = [stamp EXCEPT ![i] = now + 1]
    /\ UNCHANGED <<screen, now, channel, lines>>

\* logcat's next_line reads the clock before it awaits the line; os_trace
\* reads it when the line has come.
Awaits(i) ==
    /\ ChecksCancel(i)
    /\ stamp' = [stamp EXCEPT ![i] = now]
    /\ UNCHANGED <<screen, now, channel, lines>>

LineComes(i) ==
    /\ HasEvent(i)
    /\ \E ts \in {stamp[i], now} : stamp' = [stamp EXCEPT ![i] = ts]
    /\ UNCHANGED <<screen, now, channel, lines>>

EmitsLine(i) ==
    /\ Emits(i)
    /\ channel' = Append(channel,
           [stream |-> i, n |-> events[i] + 1, ts |-> stamp[i]])
    /\ UNCHANGED <<screen, now, stamp, lines>>

BackEnd(c) ==
    /\ Serve(c) \/ HasNothing(c) \/ EndsByItself(c) \/ AbortLands(c)
    /\ UNCHANGED terminalVars

TerminalNext ==
    \/ Open \/ StartsListening \/ SwitchCleansUp \/ SwitchStarts \/ Close
    \/ Deliver \/ Flush \/ Tick
    \/ \E c \in Calls : Awaits(c) \/ LineComes(c) \/ EmitsLine(c) \/ BackEnd(c)

TerminalSpec == TerminalInit /\ [][TerminalNext]_allVars

-----------------------------------------------------------------------------
(***************************************************************************)
(* Properties                                                              *)
(***************************************************************************)

\* What came through, oldest first: on screen, received, on the way.
Seen == buffer \o pending \o channel

\* Lines reach the screen in the order their stream emitted them and never
\* twice, through the channel, the pending array and the trimmed buffer.
ShownInOrder ==
    \A p, q \in 1..Len(Seen) :
        p < q /\ Seen[p].stream = Seen[q].stream => Seen[p].n < Seen[q].n

\* Once lines of the stream on screen come through, none of them is missing
\* up to the newest, on their way or in the buffer; trimming takes the oldest.
NoGap ==
    \A p \in 1..Len(Seen) : Seen[p].stream = shown =>
        \/ Seen[p].n = events[shown]
        \/ \E q \in (p + 1)..Len(Seen) :
              Seen[q].stream = shown /\ Seen[q].n = Seen[p].n + 1

\* The terminal shows an unbroken and ordered end of what its stream said.
ShownFaithfully == ShownInOrder /\ NoGap

\* When every command has returned an open terminal has a stream to show,
\* and a closed one has none (LogTerminal.tsx:123-124: "`enabled` is the master
\* switch; the underlying stream matches it").
Quiet == \A c \in Calls : pc[c] \in {"none", "done"}
StreamMatchesSwitch ==
    Quiet /\ ~switching => (shown # Nobody <=> slot # Nobody)
=============================================================================
