------------------------------ MODULE Rates ------------------------------
(* How often each chart is fed: the intervals of the metrics picker        *)
(* (useMetricFrequencies.ts), their snapshot when a session starts         *)
(* (LiveView.tsx) and the sampler intervals build_samplers derives from    *)
(* it (session.rs), each sampler serving several cards.  The picker and    *)
(* the live view hold a copy each of what is in the storage of the window. *)
(* Intervals are in units of 100 ms.                                       *)
EXTENDS Integers, FiniteSets
CONSTANT MaxChoices      \* bound on the edits in the picker
ASSUME RatesAssumption == MaxChoices \in Nat

VARIABLES
    rtStore,     \* localStorage: the intervals chosen, Unset where none was
    rtPicker,    \* the copy of the picker's hook
    rtScreen,    \* the copy of the live view's hook
    rtQueued,    \* a change event is queued as a microtask
    rtEdits,     \* edits made
    rtStart,     \* the start under way: step, platform, captured copy
    rtRates,     \* the running session's sampler intervals by card
    rtAsked      \* ghost: what the picker showed when Start was clicked
rtVars == <<rtStore, rtPicker, rtScreen, rtQueued, rtEdits, rtStart, rtRates, rtAsked>>

Unchosen == 0
Options == {5, 10}      \* two of INTERVAL_OPTIONS_MS
TooFast == 1            \* a stored value below every floor
Cards == {"cpu_usage", "cpu_core", "memory", "frame", "gpu", "temperature"}
DefaultOf(c) == IF c = "temperature" THEN 20 ELSE 10
Unpicked == [c \in Cards |-> Unchosen]
Platforms == {"android", "ios"}

\* build_samplers: the cards each sampler serves, and its floor.
SharedBy(p) ==
    IF p = "android"
    THEN {{"cpu_usage", "cpu_core"}, {"frame"}, {"memory"}, {"temperature"}, {"gpu"}}
    ELSE {{"cpu_usage", "cpu_core", "memory"}, {"gpu", "frame"}}
FloorOf(group) == IF group = {"temperature"} THEN 5 ELSE 2
ShownOn(p) == UNION SharedBy(p)

\* snapshotEffectiveFrequencies: every card, by its choice or its default.
Effective(copy) == [c \in Cards |-> IF copy[c] = Unchosen THEN DefaultOf(c) ELSE copy[c]]

\* pick: the fastest interval any of the sampler's cards asks for.
PickSlowest(asked, group) ==
    CHOOSE i \in {asked[c] : c \in group} : \A c \in group : asked[c] <= i
Pick(asked, group) ==
    CHOOSE i \in {asked[c] : c \in group} : \A c \in group : i <= asked[c]

AtLeast(i, floor) == IF i < floor THEN floor ELSE i

\* The interval at which each card of the platform is fed.
Built(p, asked) ==
    [c \in ShownOn(p) |->
        LET group == CHOOSE g \in SharedBy(p) : c \in g
        IN  AtLeast(Pick(asked, group), FloorOf(group))]

NoStart == [step |-> "idle", platform |-> "ios", copy |-> Unpicked]
NoRates == [c \in {} |-> 0]

\* Earlier runs may have left any choice, an odd one too, for one card.
RtInit ==
    /\ rtStore \in {Unpicked} \cup
          {[Unpicked EXCEPT ![c] = TooFast] : c \in {"temperature", "gpu"}}
    /\ rtPicker = rtStore /\ rtScreen = rtStore
    /\ rtQueued = FALSE /\ rtEdits = 0
    /\ rtStart = NoStart /\ rtRates = NoRates /\ rtAsked = Unpicked

(* --- the picker --- *)

\* set: the hook's own copy, the storage unless it refuses, and an event.
RtChoose(c, i, saved) ==
    /\ ~rtQueued /\ rtEdits < MaxChoices /\ rtStart.step # "dialog"
    /\ rtEdits' = rtEdits + 1
    /\ rtPicker' = [rtPicker EXCEPT ![c] = i]
    /\ rtStore' = IF saved THEN rtPicker' ELSE rtStore
    /\ rtQueued' = TRUE
    /\ UNCHANGED <<rtScreen, rtStart, rtRates, rtAsked>>

\* Mistake: nobody listens to the event.
NotReloaded(copy) == copy

\* The event: the hooks that listen load the storage again.
Reloaded(copy) == rtStore
\* The microtask runs before any further click.
RtChanged ==
    /\ rtQueued /\ rtQueued' = FALSE
    /\ rtPicker' = Reloaded(rtPicker) /\ rtScreen' = Reloaded(rtScreen)
    /\ UNCHANGED <<rtStore, rtEdits, rtStart, rtRates, rtAsked>>

(* --- the start --- *)

\* handleStart keeps the copy of the render it was clicked in; on iOS it
\* may wait for a probe first, and the picker stays usable meanwhile.
RtClick(p, probes) ==
    /\ ~rtQueued /\ rtStart.step = "idle"
    /\ rtStart' = [step |-> IF probes THEN "probing" ELSE "starting",
                   platform |-> p, copy |-> rtScreen]
    /\ rtAsked' = rtPicker
    /\ UNCHANGED <<rtStore, rtPicker, rtScreen, rtQueued, rtEdits, rtRates>>

RtProbed ==
    /\ ~rtQueued /\ rtStart.step = "probing"
    /\ \E step \in {"starting", "dialog"} : rtStart' = [rtStart EXCEPT !.step = step]
    /\ UNCHANGED <<rtStore, rtPicker, rtScreen, rtQueued, rtEdits, rtRates, rtAsked>>

\* The dialog's buttons are those of the latest render; it covers the picker.
RtConfirm ==
    /\ ~rtQueued /\ rtStart.step = "dialog"
    /\ rtStart' = [rtStart EXCEPT !.step = "starting", !.copy = rtScreen]
    /\ rtAsked' = rtPicker
    /\ UNCHANGED <<rtStore, rtPicker, rtScreen, rtQueued, rtEdits, rtRates>>

\* start_session builds the samplers.
RtStarted ==
    /\ ~rtQueued /\ rtStart.step = "starting"
    /\ rtRates' = Built(rtStart.platform, Effective(rtStart.copy))
    /\ rtStart' = [rtStart EXCEPT !.step = "running"]
    /\ UNCHANGED <<rtStore, rtPicker, rtScreen, rtQueued, rtEdits, rtAsked>>

RtStopped ==
    /\ ~rtQueued /\ rtStart.step = "running"
    /\ rtStart' = NoStart /\ rtRates' = NoRates
    /\ UNCHANGED <<rtStore, rtPicker, rtScreen, rtQueued, rtEdits, rtAsked>>

RtNext ==
    \/ \E c \in Cards, i \in Options, saved \in BOOLEAN : RtChoose(c, i, saved)
    \/ \E p \in Platforms : RtClick(p, FALSE)
    \/ RtClick("ios", TRUE)
    \/ RtChanged \/ RtProbed \/ RtConfirm \/ RtStarted \/ RtStopped

RtSpec == RtInit /\ [][RtNext]_rtVars

(* --- properties --- *)

Copies == [Cards -> {Unchosen, TooFast} \cup Options]
RtTypeOK ==
    /\ rtStore \in Copies /\ rtPicker \in Copies /\ rtScreen \in Copies
    /\ rtAsked \in Copies /\ rtStart.copy \in Copies
    /\ rtStart.step \in {"idle", "probing", "dialog", "starting", "running"}
    /\ rtEdits \in 0..MaxChoices

\* "We pick the min so each card's view rate is honoured": every card is fed
\* as often as the picker promised it when the user last confirmed the
\* start, short of the sampler's floor, whatever was edited since.
EveryCardHonoured ==
    \A c \in DOMAIN rtRates :
        \A g \in SharedBy(rtStart.platform) :
            c \in g => rtRates[c] <= AtLeast(Effective(rtAsked)[c], FloorOf(g))

\* A sampler goes no faster than one of its cards asks, and never below
\* the floor its device can stand, even for a value stored by another build.
NoNeedlessLoad ==
    \A c \in DOMAIN rtRates :
        \A g \in SharedBy(rtStart.platform) :
            c \in g => /\ rtRates[c] >= FloorOf(g)
                       /\ \E d \in g : rtRates[c] = AtLeast(Effective(rtAsked)[d], FloorOf(g))

\* Cards that share a sampler are each fed as often as promised, and the
\* device is asked no more than that takes (session.rs:340-375).
IntervalsHonoured == EveryCardHonoured /\ NoNeedlessLoad
===========================================================================
