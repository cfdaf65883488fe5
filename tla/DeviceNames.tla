--------------------------- MODULE DeviceNames ---------------------------
(* The list of iOS devices and the name shown for one phone                *)
(* (src/crates/ios/src/devices.rs).  usbmuxd lists a phone once per        *)
(* transport; its name comes from lockdown, is kept process-wide for the   *)
(* time to live, and within one listing is asked for at most once.  The    *)
(* calls of several callers (the poll of the live view, the probes of the  *)
(* program) overlap.  Time is counted in ticks.                            *)
EXTENDS Integers, Sequences
CONSTANTS Callers,      \* calls of list_devices that may overlap
          TTL           \* NAME_CACHE_TTL in ticks
ASSUME TTLAssumption == TTL \in Nat \ {0}

VARIABLES
    dnName,     \* the name the phone has now
    dnGone,     \* for each name: ticks since it was last the phone's, capped
    dnCache,    \* the cache's entry for the phone, or NoEntry
    dnCall      \* for each caller: its call of list_devices
dnVars == <<dnName, dnGone, dnCache, dnCall>>

Names == {"first", "second"}
NoName == "none"        \* Ok(None): the row shows the udid
Unasked == "unasked"    \* the phone is not in name_by_udid
Long == TTL + 1
NoEntry == [name |-> NoName, age |-> Long]
Transports == {"usb", "wifi"}
\* What usbmuxd may answer for the phone, in its own order.
Listings == {<<"usb">>, <<"wifi">>, <<"usb", "wifi">>, <<"wifi", "usb">>}
NoCall == [step |-> "idle", left |-> <<>>, known |-> Unasked, stale |-> 0,
           rows |-> <<>>]

DnInit ==
    /\ dnName = "first"
    /\ dnGone = [n \in Names |-> IF n = "first" THEN 0 ELSE Long]
    /\ dnCache = NoEntry
    /\ dnCall = [c \in Callers |-> NoCall]

(* --- time and the phone --- *)

DnTick ==
    /\ \A c \in Callers : dnCall[c].step # "answered"
    /\ dnGone' = [n \in Names |-> IF n = dnName \/ dnGone[n] = Long
                                  THEN dnGone[n] ELSE dnGone[n] + 1]
    /\ dnCache' = [dnCache EXCEPT !.age = IF @ = Long THEN @ ELSE @ + 1]
    /\ UNCHANGED <<dnName, dnCall>>

DnRename(n) ==
    /\ n # dnName
    /\ dnName' = n
    /\ dnGone' = [dnGone EXCEPT ![n] = 0]
    /\ UNCHANGED <<dnCache, dnCall>>

(* --- list_devices --- *)

\* get_devices answers; a failing usbmuxd ends the call with an error.
DnList(c) ==
    /\ dnCall[c].step = "idle"
    /\ \E l \in Listings :
          dnCall' = [dnCall EXCEPT ![c] = [NoCall EXCEPT !.step = "rows", !.left = l]]
    /\ UNCHANGED <<dnName, dnGone, dnCache>>

\* Mistake: a lookup that failed is not remembered.
RememberedNames(n) == IF n = NoName THEN Unasked ELSE n
\* What name_by_udid holds after a lookup that gave n: a failure too.
Remembered(n) == n
\* The cache's entry is young enough to be shown.
Fresh(e) == e.name # NoName /\ e.age < TTL

\* The row of the next transport is written with the name n.
WithRow(call, n) ==
    [call EXCEPT !.step = "rows", !.left = Tail(@), !.known = Remembered(n),
                 !.rows = Append(@, [transport |-> Head(call.left), model |-> n])]

DnKnown(c) ==
    /\ dnCall[c].step = "rows" /\ dnCall[c].left # <<>> /\ dnCall[c].known # Unasked
    /\ dnCall' = [dnCall EXCEPT ![c] = WithRow(@, @.known)]
    /\ UNCHANGED <<dnName, dnGone, dnCache>>

DnHit(c) ==
    /\ dnCall[c].step = "rows" /\ dnCall[c].left # <<>> /\ dnCall[c].known = Unasked
    /\ Fresh(dnCache)
    /\ dnCall' = [dnCall EXCEPT
          ![c] = [WithRow(@, dnCache.name) EXCEPT !.stale = dnGone[dnCache.name]]]
    /\ UNCHANGED <<dnName, dnGone, dnCache>>

DnMiss(c) ==
    /\ dnCall[c].step = "rows" /\ dnCall[c].left # <<>> /\ dnCall[c].known = Unasked
    /\ ~Fresh(dnCache)
    /\ dnCall' = [dnCall EXCEPT ![c].step = "asking"]
    /\ UNCHANGED <<dnName, dnGone, dnCache>>

\* lockdown answers; the name read is not in the cache yet.
DnAnswer(c) ==
    /\ dnCall[c].step = "asking"
    /\ dnCall' = [dnCall EXCEPT ![c] = [WithRow(@, dnName) EXCEPT !.step = "answered"]]
    /\ UNCHANGED <<dnName, dnGone, dnCache>>

\* The device vanished, is unpaired or refuses: no name, and none is cached.
DnRefused(c) ==
    /\ dnCall[c].step = "asking"
    /\ dnCall' = [dnCall EXCEPT ![c] = WithRow(@, NoName)]
    /\ UNCHANGED <<dnName, dnGone, dnCache>>

DnKeep(c) ==
    /\ dnCall[c].step = "answered"
    /\ dnCache' = [name |-> dnCall[c].rows[Len(dnCall[c].rows)].model, age |-> 0]
    /\ dnCall' = [dnCall EXCEPT ![c].step = "rows"]
    /\ UNCHANGED <<dnName, dnGone>>

\* out.sort_by: the USB row of a phone comes before its Wi-Fi row.
Sorted(rows) ==
    IF Len(rows) = 2 /\ rows[1].transport = "wifi" /\ rows[2].transport = "usb"
    THEN <<rows[2], rows[1]>> ELSE rows

DnReturn(c) ==
    /\ dnCall[c].step = "rows" /\ dnCall[c].left = <<>>
    /\ dnCall' = [dnCall EXCEPT ![c].step = "returned", ![c].rows = Sorted(@)]
    /\ UNCHANGED <<dnName, dnGone, dnCache>>

DnForget(c) ==
    /\ dnCall[c].step = "returned"
    /\ dnCall' = [dnCall EXCEPT ![c] = NoCall]
    /\ UNCHANGED <<dnName, dnGone, dnCache>>

DnNext ==
    \/ DnTick
    \/ \E n \in Names : DnRename(n)
    \/ \E c \in Callers :
          DnList(c) \/ DnKnown(c) \/ DnHit(c) \/ DnMiss(c) \/ DnAnswer(c)
          \/ DnRefused(c) \/ DnKeep(c) \/ DnReturn(c) \/ DnForget(c)

DnSpec == DnInit /\ [][DnNext]_dnVars

(* --- properties --- *)

DnTypeOK ==
    /\ dnName \in Names
    /\ dnGone \in [Names -> 0..Long]
    /\ dnCache \in [name : Names \cup {NoName}, age : 0..Long]
    /\ \A c \in Callers :
          /\ dnCall[c].step \in {"idle", "rows", "asking", "answered", "returned"}
          /\ dnCall[c].known \in Names \cup {NoName, Unasked}
          /\ dnCall[c].rows \in Seq([transport : Transports, model : Names \cup {NoName}])

\* A name taken from the cache was the phone's less than the time to live
\* before it was taken, whichever calls overlapped and whichever wrote last.
NameLatelyTrue == \A c \in Callers : dnCall[c].stale < TTL

\* The rows of one phone in one listing carry one name, although the cache
\* may expire, be refilled or the phone be renamed between them.
OneNamePerListing ==
    \A c \in Callers : \A i, j \in DOMAIN dnCall[c].rows :
        dnCall[c].rows[i].model = dnCall[c].rows[j].model

\* The list of devices names a phone as it was called within the time to
\* live, and alike in each of its rows (ios/src/devices.rs:44-120).
NamesHonest == NameLatelyTrue /\ OneNamePerListing
===========================================================================
