--------------------------- MODULE LogStreamProofs ---------------------------
(***************************************************************************)
(* Theorems of LogStream for any number of commands and events.            *)
(* NoOrphanTask and OneOwner are not inductive by themselves: LInv adds    *)
(* that a command has raised the cancel flag before it waits, that only a  *)
(* start that waits holds the lock, that the slot is empty meanwhile, and  *)
(* that a stream exists only once its start has returned.                  *)
(***************************************************************************)
EXTENDS LogTerminal, SequenceTheorems, TLAPS

USE LogStreamAssumption
    DEF Calls, Nobody, Alive, Stopping,
        callVars, stateVars, taskVars, vars

LEMMA InitInv == Init => LInv
  BY DEF Init, LInv, TypeOK, CallInv, StreamInv, OneStopper, Owned

(***************************************************************************)
(* What the invariant says of one call, one stream, or two calls.          *)
(***************************************************************************)
LEMMA Know ==
    ASSUME LInv, NEW c \in Calls
    PROVE  TypeOK /\ CallInv(c) /\ StreamInv(c) /\ Owned(c)
  BY DEF LInv

LEMMA KnowTwo == ASSUME LInv, NEW c \in Calls, NEW d \in Calls PROVE OneStopper(c, d)
  BY DEF LInv

\* A call that is stopping a stream knows this of it.
LEMMA KnowPrior ==
    ASSUME LInv, NEW c \in Calls, NEW i \in Calls, Stopping(c, i)
    PROVE  task[i] # "none" /\ slot # i /\ StreamInv(i)
  BY Know DEF CallInv

\* And this is known of the stream in the slot.
LEMMA KnowSlot ==
    ASSUME LInv, slot # Nobody
    PROVE  slot \in Calls /\ StreamInv(slot) /\ task[slot] # "none"
<1>1. slot \in Calls
  BY DEF LInv, TypeOK
<1>2. QED
  BY <1>1, Know DEF StreamInv

(***************************************************************************)
(* A step keeps the invariant if it keeps every part of it for every call, *)
(* stream and pair of calls.                                               *)
(***************************************************************************)
LEMMA PartsSuffice ==
    ASSUME TypeOK',
           \A d \in Calls : CallInv(d)',
           \A d \in Calls : StreamInv(d)',
           \A d \in Calls : Owned(d)',
           \A d, e \in Calls : OneStopper(d, e)'
    PROVE  LInv'
  BY DEF LInv

(***************************************************************************)
(* What a step may do without disturbing a part of the invariant.          *)
(***************************************************************************)
LEMMA CallUndisturbed ==
    ASSUME NEW d \in Calls, CallInv(d),
           issued' = issued, kind'[d] = kind[d], pc'[d] = pc[d],
           prior'[d] = prior[d],
           lock' = d <=> lock = d,
           pc[d] \in {"taken", "waiting"} /\ prior[d] # Nobody =>
             /\ task'[prior[d]] # "none"
             /\ slot' # prior[d]
             /\ cancel[prior[d]] => cancel'[prior[d]]
    PROVE  CallInv(d)'
  BY DEF CallInv

LEMMA StreamUndisturbed ==
    ASSUME NEW i \in Calls, StreamInv(i),
           task'[i] = task[i], events'[i] = events[i], late'[i] = late[i],
           aborted'[i] <=> aborted[i], cancel'[i] <=> cancel[i],
           task[i] # "none" => kind'[i] = kind[i] /\ pc'[i] = pc[i],
           slot' = i => slot = i /\ lock' = lock
    PROVE  StreamInv(i)'
  BY DEF StreamInv

LEMMA OwnedUndisturbed ==
    ASSUME NEW i \in Calls, Owned(i),
           Alive(i)' => Alive(i),
           slot = i => slot' = i,
           \A c \in Calls : Stopping(c, i) => Stopping(c, i)',
           cancel[i] /\ aborted[i] => cancel'[i] /\ aborted'[i]
    PROVE  Owned(i)'
  BY DEF Owned

LEMMA StopperUndisturbed ==
    ASSUME NEW d \in Calls, NEW e \in Calls, OneStopper(d, e),
           \A i \in Calls : Stopping(d, i)' => Stopping(d, i),
           \A i \in Calls : Stopping(e, i)' => Stopping(e, i)
    PROVE  OneStopper(d, e)'
  BY DEF OneStopper

-----------------------------------------------------------------------------
(***************************************************************************)
(* The commands                                                            *)
(***************************************************************************)
LEMMA IssueKeeps ==
    ASSUME LInv, NEW k \in {"start", "stop"}, Issue(k),
           UNCHANGED <<stateVars, taskVars>>
    PROVE  LInv'
<1> DEFINE c == issued + 1
<1>1. TypeOK
  BY DEF LInv
<1>2. c \in Calls /\ issued' = c /\ issued \in Nat
  BY <1>1 DEF Issue, TypeOK
<1> HIDE DEF c
<1>3. /\ kind' = [kind EXCEPT ![c] = k]
      /\ pc' = [pc EXCEPT ![c] = "queued"]
      /\ UNCHANGED prior
  BY DEF Issue, c
<1>4. pc[c] = "none" /\ task[c] = "none" /\ lock # c
  <2>1. CallInv(c) /\ StreamInv(c)
    BY <1>2, Know
  <2>2. c > issued
    BY <1>2 DEF c
  <2>3. QED
    BY <2>1, <2>2 DEF CallInv, StreamInv
<1>5. TypeOK'
  <2>1. issued' \in 0..MaxCalls
    BY <1>2
  <2>2. kind' \in [Calls -> {"none", "start", "stop"}]
    BY <1>1, <1>3 DEF TypeOK
  <2>3. pc' \in [Calls -> {"none", "queued", "taken", "waiting", "done"}]
    BY <1>1, <1>3 DEF TypeOK
  <2>4. QED
    BY <1>1, <1>3, <2>1, <2>2, <2>3 DEF TypeOK
<1>6. ASSUME NEW d \in Calls, d # c
      PROVE  kind'[d] = kind[d] /\ pc'[d] = pc[d] /\ prior'[d] = prior[d]
  BY <1>1, <1>3, <1>6 DEF TypeOK
<1>7. kind'[c] = k /\ pc'[c] = "queued"
  BY <1>1, <1>2, <1>3 DEF TypeOK
<1>8. ASSUME NEW d \in Calls PROVE CallInv(d)'
  <2>1. CallInv(d)
    BY Know
  <2>2. CASE d = c
    BY <1>2, <1>4, <1>7, <2>2 DEF CallInv
  <2>3. CASE d # c
    <3>1. d > issued <=> d > issued'
      BY <1>2, <2>3 DEF c
    <3>2. QED
      BY <1>6, <2>1, <2>3, <3>1 DEF CallInv
  <2>4. QED
    BY <2>2, <2>3
<1>9. ASSUME NEW d \in Calls PROVE StreamInv(d)'
  <2>1. StreamInv(d)
    BY Know
  <2>2. task[d] # "none" => d # c
    BY <1>4
  <2>3. QED
    BY <1>6, <2>1, <2>2, StreamUndisturbed
<1>10. ASSUME NEW d \in Calls, NEW i \in Calls
       PROVE  Stopping(d, i)' <=> Stopping(d, i)
  BY <1>4, <1>6, <1>7
<1>11. ASSUME NEW d \in Calls PROVE Owned(d)'
  <2>1. Owned(d)
    BY Know
  <2>2. QED
    BY <1>10, <2>1, OwnedUndisturbed
<1>12. ASSUME NEW d \in Calls, NEW e \in Calls PROVE OneStopper(d, e)'
  BY <1>10, KnowTwo, StopperUndisturbed
<1>13. QED
  BY <1>5, <1>8, <1>9, <1>11, <1>12, PartsSuffice

LEMMA StartTakesKeeps == ASSUME LInv, NEW c \in Calls, StartTakes(c) PROVE LInv'
<1>1. TypeOK /\ kind[c] = "start" /\ pc[c] = "queued" /\ lock = Nobody
  BY DEF LInv, StartTakes
<1>2. /\ lock' = c /\ slot' = Nobody
      /\ prior' = [prior EXCEPT ![c] = slot]
      /\ pc' = [pc EXCEPT ![c] = "waiting"]
      /\ UNCHANGED <<issued, kind, task, aborted, events, late>>
  BY DEF StartTakes
<1>3. cancel' \in [Calls -> BOOLEAN]
  BY <1>1 DEF StartTakes, TypeOK
<1>4. ASSUME NEW i \in Calls PROVE cancel'[i] <=> cancel[i] \/ i = slot
  <2>1. cancel \in [Calls -> BOOLEAN] /\ slot \in 0..MaxCalls
    BY <1>1 DEF TypeOK
  <2>2. CASE slot = Nobody
    <3>1. cancel' = cancel
      BY <2>2 DEF StartTakes
    <3>2. QED
      BY <2>2, <3>1
  <2>3. CASE slot # Nobody
    <3>1. cancel' = [cancel EXCEPT ![slot] = TRUE]
      BY <2>3 DEF StartTakes
    <3>2. QED
      BY <2>1, <2>3, <3>1
  <2>4. QED
    BY <2>2, <2>3
<1>5. TypeOK'
  <2>1. prior' \in [Calls -> 0..MaxCalls] /\ lock' \in 0..MaxCalls
    BY <1>1, <1>2 DEF TypeOK
  <2>2. pc' \in [Calls -> {"none", "queued", "taken", "waiting", "done"}]
    BY <1>1, <1>2 DEF TypeOK
  <2>3. slot' \in 0..MaxCalls
    BY <1>2
  <2>4. QED
    BY <1>1, <1>2, <1>3, <2>1, <2>2, <2>3 DEF TypeOK
<1>6. ASSUME NEW d \in Calls, d # c PROVE pc'[d] = pc[d] /\ prior'[d] = prior[d]
  BY <1>1, <1>2, <1>6 DEF TypeOK
<1>7. pc'[c] = "waiting" /\ prior'[c] = slot
  BY <1>1, <1>2 DEF TypeOK
<1>8. ASSUME NEW d \in Calls PROVE CallInv(d)'
  <2>1. CallInv(d)
    BY Know
  <2>2. CASE d = c
    <3>1. slot # Nobody => task[slot] # "none" /\ cancel'[slot]
      BY <1>4, KnowSlot
    <3>2. QED
      BY <1>1, <1>2, <1>7, <2>1, <2>2, <3>1 DEF CallInv
  <2>3. CASE d # c
    <3>1. lock' = d <=> lock = d
      BY <1>1, <1>2, <2>3
    <3>2. prior[d] \in 0..MaxCalls
      BY <1>1 DEF TypeOK
    <3>3. prior[d] # Nobody => slot' # prior[d] /\ (cancel[prior[d]] => cancel'[prior[d]])
      BY <1>2, <1>4, <3>2
    <3>4. pc[d] \in {"taken", "waiting"} /\ prior[d] # Nobody =>
             task'[prior[d]] # "none"
      BY <1>2, <2>1 DEF CallInv
    <3>5. issued' = issued /\ kind' = kind
      BY <1>2
    <3>6. QED
      BY <1>6, <2>1, <2>3, <3>1, <3>3, <3>4, <3>5, CallUndisturbed
  <2>4. QED
    BY <2>2, <2>3
<1>9. ASSUME NEW i \in Calls PROVE StreamInv(i)'
  <2>1. StreamInv(i)
    BY Know
  <2>2. task[i] # "none" => i # c
    BY <1>1, <2>1 DEF StreamInv
  <2>3. CASE i = slot
    <3>1. cancel'[i] /\ task[i] # "none"
      BY <1>4, <2>1, <2>3 DEF StreamInv
    <3>2. kind[i] = "start" /\ pc'[i] = "done"
      BY <1>6, <2>1, <2>2, <3>1 DEF StreamInv
    <3>3. QED
      BY <1>2, <2>1, <3>1, <3>2 DEF StreamInv
  <2>4. CASE i # slot
    BY <1>2, <1>4, <1>6, <2>1, <2>2, <2>4, StreamUndisturbed
  <2>5. QED
    BY <2>3, <2>4
<1>10. ASSUME NEW d \in Calls, NEW i \in Calls
       PROVE  Stopping(d, i)' <=> Stopping(d, i) \/ (d = c /\ i = slot)
  BY <1>1, <1>6, <1>7
<1>11. ASSUME NEW i \in Calls PROVE Owned(i)'
  <2>1. Owned(i)
    BY Know
  <2>2. CASE i = slot
    BY <1>10, <2>2 DEF Owned
  <2>3. CASE i # slot
    BY <1>2, <1>4, <1>10, <2>1, <2>3, OwnedUndisturbed
  <2>4. QED
    BY <2>2, <2>3
<1>12. ASSUME NEW d \in Calls, NEW e \in Calls PROVE OneStopper(d, e)'
  <2>1. OneStopper(d, e)
    BY KnowTwo
  <2>2. ASSUME NEW i \in Calls, Stopping(d, i)', Stopping(e, i)' PROVE d = e
    <3>1. CASE i = slot
      BY <1>10, <2>2, <3>1, KnowPrior
    <3>2. CASE i # slot
      BY <1>10, <2>1, <2>2, <3>2 DEF OneStopper
    <3>3. QED
      BY <3>1, <3>2
  <2>3. QED
    BY <2>2 DEF OneStopper
<1>13. QED
  BY <1>5, <1>8, <1>9, <1>11, <1>12, PartsSuffice

LEMMA StopTakesKeeps == ASSUME LInv, NEW c \in Calls, StopTakes(c) PROVE LInv'
<1>1. TypeOK /\ kind[c] = "stop" /\ pc[c] = "queued" /\ lock = Nobody
  BY DEF LInv, StopTakes
<1>2. /\ slot' = Nobody
      /\ prior' = [prior EXCEPT ![c] = slot]
      /\ pc' = [pc EXCEPT ![c] = IF slot = Nobody THEN "done" ELSE "taken"]
      /\ UNCHANGED <<issued, kind, lock, taskVars>>
  BY DEF StopTakes
<1>3. TypeOK'
  <2>1. prior' \in [Calls -> 0..MaxCalls]
    BY <1>1, <1>2 DEF TypeOK
  <2>2. pc' \in [Calls -> {"none", "queued", "taken", "waiting", "done"}]
    BY <1>1, <1>2 DEF TypeOK
  <2>3. slot' \in 0..MaxCalls
    BY <1>2
  <2>4. QED
    BY <1>1, <1>2, <2>1, <2>2, <2>3 DEF TypeOK
<1>4. ASSUME NEW d \in Calls, d # c PROVE pc'[d] = pc[d] /\ prior'[d] = prior[d]
  BY <1>1, <1>2, <1>4 DEF TypeOK
<1>5. prior'[c] = slot /\ pc'[c] = IF slot = Nobody THEN "done" ELSE "taken"
  BY <1>1, <1>2 DEF TypeOK
<1>6. ASSUME NEW d \in Calls PROVE CallInv(d)'
  <2>1. CallInv(d)
    BY Know
  <2>2. CASE d = c
    <3>1. slot # Nobody => slot \in Calls /\ task[slot] # "none"
      BY KnowSlot
    <3>2. QED
      BY <1>1, <1>2, <1>5, <2>1, <2>2, <3>1 DEF CallInv
  <2>3. CASE d # c
    <3>1. UNCHANGED <<issued, kind, lock, task, cancel>> /\ slot' = Nobody
      BY <1>2
    <3>2. pc[d] \in {"taken", "waiting"} /\ prior[d] # Nobody =>
             task[prior[d]] # "none"
      BY <2>1 DEF CallInv
    <3>3. QED
      BY <1>4, <2>1, <2>3, <3>1, <3>2, CallUndisturbed
  <2>4. QED
    BY <2>2, <2>3
<1>7. ASSUME NEW i \in Calls PROVE StreamInv(i)'
  <2>1. StreamInv(i)
    BY Know
  <2>2. task[i] # "none" => i # c
    BY <1>1, <2>1 DEF StreamInv
  <2>3. QED
    BY <1>2, <1>4, <2>1, <2>2, StreamUndisturbed
<1>8. ASSUME NEW d \in Calls, NEW i \in Calls
      PROVE  Stopping(d, i)' <=> Stopping(d, i) \/ (d = c /\ i = slot)
  <2>1. CASE d = c
    BY <1>1, <1>5, <2>1
  <2>2. CASE d # c
    BY <1>4, <2>2
  <2>3. QED
    BY <2>1, <2>2
<1>9. ASSUME NEW i \in Calls PROVE Owned(i)'
  <2>1. Owned(i)
    BY Know
  <2>2. CASE i = slot
    BY <1>8, <2>2 DEF Owned
  <2>3. CASE i # slot
    BY <1>2, <1>8, <2>1, <2>3, OwnedUndisturbed
  <2>4. QED
    BY <2>2, <2>3
<1>10. ASSUME NEW d \in Calls, NEW e \in Calls PROVE OneStopper(d, e)'
  <2>1. OneStopper(d, e)
    BY KnowTwo
  <2>2. ASSUME NEW i \in Calls, Stopping(d, i)', Stopping(e, i)' PROVE d = e
    <3>1. CASE i = slot
      BY <1>8, <2>2, <3>1, KnowPrior
    <3>2. CASE i # slot
      BY <1>8, <2>1, <2>2, <3>2 DEF OneStopper
    <3>3. QED
      BY <3>1, <3>2
  <2>3. QED
    BY <2>2 DEF OneStopper
<1>11. QED
  BY <1>3, <1>6, <1>7, <1>9, <1>10, PartsSuffice

LEMMA StopCancelsKeeps == ASSUME LInv, NEW c \in Calls, StopCancels(c) PROVE LInv'
<1>1. TypeOK /\ pc[c] = "taken"
  BY DEF LInv, StopCancels
<1>2. /\ pc' = [pc EXCEPT ![c] = "waiting"]
      /\ UNCHANGED <<issued, kind, prior, stateVars, task, aborted, events, late>>
  BY DEF StopCancels
<1>3. CallInv(c) /\ kind[c] = "stop" /\ prior[c] \in Calls
  BY <1>1, Know DEF CallInv
<1>4. task[prior[c]] # "none" /\ slot # prior[c]
  BY <1>1, <1>3, KnowPrior
<1>5. ASSUME NEW i \in Calls PROVE cancel'[i] <=> cancel[i] \/ i = prior[c]
  BY <1>1, <1>3 DEF StopCancels, TypeOK
<1>6. TypeOK'
  <2>1. cancel' \in [Calls -> BOOLEAN]
    BY <1>1, <1>3 DEF StopCancels, TypeOK
  <2>2. pc' \in [Calls -> {"none", "queued", "taken", "waiting", "done"}]
    BY <1>1, <1>2 DEF TypeOK
  <2>3. QED
    BY <1>1, <1>2, <2>1, <2>2 DEF TypeOK
<1>7. ASSUME NEW d \in Calls, d # c PROVE pc'[d] = pc[d]
  BY <1>1, <1>2, <1>7 DEF TypeOK
<1>8. pc'[c] = "waiting"
  BY <1>1, <1>2 DEF TypeOK
<1>9. ASSUME NEW d \in Calls PROVE CallInv(d)'
  <2>1. CallInv(d)
    BY Know
  <2>2. CASE d = c
    <3>1. cancel'[prior[c]]
      BY <1>3, <1>5
    <3>2. QED
      BY <1>1, <1>2, <1>3, <1>4, <1>8, <2>1, <2>2, <3>1 DEF CallInv
  <2>3. CASE d # c
    <3>1. prior[d] \in 0..MaxCalls
      BY <1>1 DEF TypeOK
    <3>2. prior[d] # Nobody => (cancel[prior[d]] => cancel'[prior[d]])
      BY <1>5, <3>1
    <3>3. UNCHANGED <<issued, kind, prior, lock, slot, task>>
      BY <1>2
    <3>4. pc[d] \in {"taken", "waiting"} /\ prior[d] # Nobody =>
             task[prior[d]] # "none" /\ slot # prior[d]
      BY <2>1 DEF CallInv
    <3>5. QED
      BY <1>7, <2>1, <2>3, <3>2, <3>3, <3>4, CallUndisturbed
  <2>4. QED
    BY <2>2, <2>3
<1>10. ASSUME NEW i \in Calls PROVE StreamInv(i)'
  <2>1. StreamInv(i)
    BY Know
  <2>2. task[i] # "none" => i # c
    BY <1>1, <2>1 DEF StreamInv
  <2>3. CASE i = prior[c]
    <3>1. cancel'[i] /\ task[i] # "none" /\ slot # i
      BY <1>4, <1>5, <2>3
    <3>2. kind[i] = "start" /\ pc'[i] = "done"
      BY <1>7, <2>1, <2>2, <3>1 DEF StreamInv
    <3>3. QED
      BY <1>2, <2>1, <3>1, <3>2 DEF StreamInv
  <2>4. CASE i # prior[c]
    BY <1>2, <1>5, <1>7, <2>1, <2>2, <2>4, StreamUndisturbed
  <2>5. QED
    BY <2>3, <2>4
<1>11. ASSUME NEW d \in Calls, NEW i \in Calls
       PROVE  Stopping(d, i)' <=> Stopping(d, i)
  <2>1. CASE d = c
    BY <1>1, <1>2, <1>8, <2>1
  <2>2. CASE d # c
    BY <1>2, <1>7, <2>2
  <2>3. QED
    BY <2>1, <2>2
<1>12. ASSUME NEW i \in Calls PROVE Owned(i)'
  <2>1. Owned(i)
    BY Know
  <2>2. QED
    BY <1>2, <1>5, <1>11, <2>1, OwnedUndisturbed
<1>13. ASSUME NEW d \in Calls, NEW e \in Calls PROVE OneStopper(d, e)'
  BY <1>11, KnowTwo, StopperUndisturbed
<1>14. QED
  BY <1>6, <1>9, <1>10, <1>12, <1>13, PartsSuffice

LEMMA AbortAfterTimeoutKeeps ==
    ASSUME LInv, NEW c \in Calls, AbortAfterTimeout(c)
    PROVE  LInv'
<1>1. /\ TypeOK
      /\ pc[c] = "waiting" /\ prior[c] # Nobody
      /\ UNCHANGED <<callVars, stateVars, task, cancel, events, late>>
  BY DEF LInv, AbortAfterTimeout
<1>2. prior[c] \in Calls /\ cancel[prior[c]]
  <2>1. CallInv(c) /\ prior[c] \in 0..MaxCalls
    BY <1>1, Know DEF TypeOK
  <2>2. QED
    BY <1>1, <2>1 DEF CallInv
<1>3. ASSUME NEW i \in Calls PROVE aborted'[i] <=> aborted[i] \/ i = prior[c]
  BY <1>1, <1>2 DEF AbortAfterTimeout, TypeOK
<1>4. TypeOK'
  <2>1. aborted' \in [Calls -> BOOLEAN]
    BY <1>1, <1>2 DEF AbortAfterTimeout, TypeOK
  <2>2. QED
    BY <1>1, <2>1 DEF TypeOK
<1>5. ASSUME NEW d \in Calls PROVE CallInv(d)'
  BY <1>1, Know DEF CallInv
<1>6. ASSUME NEW i \in Calls PROVE StreamInv(i)'
  <2>1. StreamInv(i)
    BY Know
  <2>2. aborted'[i] => cancel[i]
    BY <1>2, <1>3, <2>1 DEF StreamInv
  <2>3. QED
    BY <1>1, <2>1, <2>2 DEF StreamInv
<1>7. ASSUME NEW i \in Calls PROVE Owned(i)'
  <2>1. Owned(i)
    BY Know
  <2>2. QED
    BY <1>1, <1>3, <2>1, OwnedUndisturbed
<1>8. ASSUME NEW d \in Calls, NEW e \in Calls PROVE OneStopper(d, e)'
  BY <1>1, KnowTwo, StopperUndisturbed
<1>9. QED
  BY <1>4, <1>5, <1>6, <1>7, <1>8, PartsSuffice

\* A command that has waited for its prior stream leaves it ended or aborted.
LEMMA PriorDone ==
    ASSUME LInv, NEW c \in Calls, NEW i \in Calls,
           Stopping(c, i), pc[c] = "waiting", PriorStopped(c)
    PROVE  task[i] = "ended" \/ (cancel[i] /\ aborted[i])
  BY Know DEF PriorStopped, CallInv

LEMMA StartSpawnsKeeps == ASSUME LInv, NEW c \in Calls, StartSpawns(c) PROVE LInv'
<1>1. TypeOK /\ kind[c] = "start" /\ pc[c] = "waiting" /\ PriorStopped(c)
  BY DEF LInv, StartSpawns
<1>2. /\ slot' = c /\ lock' = Nobody
      /\ task' = [task EXCEPT ![c] = "checking"]
      /\ pc' = [pc EXCEPT ![c] = "done"]
      /\ UNCHANGED <<issued, kind, prior, cancel, aborted, events, late>>
  BY DEF StartSpawns
<1>3. TypeOK'
  <2>1. task' \in [Calls -> {"none", "checking", "awaiting", "emitting", "ended"}]
    BY <1>1, <1>2 DEF TypeOK
  <2>2. pc' \in [Calls -> {"none", "queued", "taken", "waiting", "done"}]
    BY <1>1, <1>2 DEF TypeOK
  <2>3. slot' \in 0..MaxCalls /\ lock' \in 0..MaxCalls
    BY <1>2
  <2>4. QED
    BY <1>1, <1>2, <2>1, <2>2, <2>3 DEF TypeOK
<1>4. ASSUME NEW d \in Calls, d # c PROVE pc'[d] = pc[d] /\ task'[d] = task[d]
  BY <1>1, <1>2, <1>4 DEF TypeOK
<1>5. pc'[c] = "done" /\ task'[c] = "checking"
  BY <1>1, <1>2 DEF TypeOK
<1>6. lock = c /\ task[c] = "none" /\ ~cancel[c] /\ ~aborted[c] /\ late[c] = 0
  BY <1>1, Know DEF CallInv, StreamInv
<1>7. slot = Nobody
  BY <1>6, KnowSlot DEF StreamInv
<1>8. ASSUME NEW d \in Calls PROVE CallInv(d)'
  <2>1. CallInv(d)
    BY Know
  <2>2. CASE d = c
    BY <1>1, <1>2, <1>5, <2>1, <2>2 DEF CallInv
  <2>3. CASE d # c
    <3>1. prior[d] \in 0..MaxCalls
      BY <1>1 DEF TypeOK
    <3>2. pc[d] \in {"taken", "waiting"} /\ prior[d] # Nobody =>
             task[prior[d]] # "none"
      BY <2>1 DEF CallInv
    <3>3. pc[d] \in {"taken", "waiting"} /\ prior[d] # Nobody =>
             task'[prior[d]] # "none" /\ slot' # prior[d]
      BY <1>2, <1>4, <1>6, <3>1, <3>2
    <3>4. lock' = d <=> lock = d
      BY <1>2, <1>6, <2>3
    <3>5. UNCHANGED <<issued, kind, prior, cancel>>
      BY <1>2
    <3>6. QED
      BY <1>4, <2>1, <2>3, <3>3, <3>4, <3>5, CallUndisturbed
  <2>4. QED
    BY <2>2, <2>3
<1>9. ASSUME NEW i \in Calls PROVE StreamInv(i)'
  <2>1. StreamInv(i)
    BY Know
  <2>2. CASE i = c
    BY <1>1, <1>2, <1>5, <1>6, <2>2 DEF StreamInv
  <2>3. CASE i # c
    BY <1>2, <1>4, <2>1, <2>3, StreamUndisturbed
  <2>4. QED
    BY <2>2, <2>3
<1>10. ASSUME NEW d \in Calls, NEW i \in Calls
       PROVE  Stopping(d, i)' <=> Stopping(d, i) /\ d # c
  <2>1. CASE d = c
    BY <1>5, <2>1
  <2>2. CASE d # c
    BY <1>2, <1>4, <2>2
  <2>3. QED
    BY <2>1, <2>2
<1>11. ASSUME NEW i \in Calls PROVE Owned(i)'
  <2>1. Owned(i)
    BY Know
  <2>2. CASE i = c
    BY <1>2, <2>2 DEF Owned
  <2>3. CASE i # c /\ Stopping(c, i)
    BY <1>1, <1>2, <1>4, <2>3, PriorDone DEF Owned
  <2>4. CASE i # c /\ ~Stopping(c, i)
    <3>1. \A d \in Calls : Stopping(d, i) => Stopping(d, i)'
      BY <1>10, <2>4
    <3>2. slot # i
      BY <1>7
    <3>3. QED
      BY <1>2, <1>4, <2>1, <2>4, <3>1, <3>2, OwnedUndisturbed
  <2>5. QED
    BY <2>2, <2>3, <2>4
<1>12. ASSUME NEW d \in Calls, NEW e \in Calls PROVE OneStopper(d, e)'
  BY <1>10, KnowTwo, StopperUndisturbed
<1>13. QED
  BY <1>3, <1>8, <1>9, <1>11, <1>12, PartsSuffice

LEMMA StopReturnsKeeps == ASSUME LInv, NEW c \in Calls, StopReturns(c) PROVE LInv'
<1>1. TypeOK /\ kind[c] = "stop" /\ pc[c] = "waiting" /\ PriorStopped(c)
  BY DEF LInv, StopReturns
<1>2. /\ pc' = [pc EXCEPT ![c] = "done"]
      /\ UNCHANGED <<issued, kind, prior, stateVars, taskVars>>
  BY DEF StopReturns
<1>3. TypeOK'
  <2>1. pc' \in [Calls -> {"none", "queued", "taken", "waiting", "done"}]
    BY <1>1, <1>2 DEF TypeOK
  <2>2. QED
    BY <1>1, <1>2, <2>1 DEF TypeOK
<1>4. ASSUME NEW d \in Calls, d # c PROVE pc'[d] = pc[d]
  BY <1>1, <1>2, <1>4 DEF TypeOK
<1>5. pc'[c] = "done"
  BY <1>1, <1>2 DEF TypeOK
<1>6. ASSUME NEW d \in Calls PROVE CallInv(d)'
  <2>1. CallInv(d)
    BY Know
  <2>2. CASE d = c
    BY <1>1, <1>2, <1>5, <2>1, <2>2 DEF CallInv
  <2>3. CASE d # c
    BY <1>2, <1>4, <2>1, <2>3 DEF CallInv
  <2>4. QED
    BY <2>2, <2>3
<1>7. ASSUME NEW i \in Calls PROVE StreamInv(i)'
  <2>1. StreamInv(i)
    BY Know
  <2>2. task[i] # "none" => i # c
    BY <1>1, <2>1 DEF StreamInv
  <2>3. QED
    BY <1>2, <1>4, <2>1, <2>2, StreamUndisturbed
<1>8. ASSUME NEW d \in Calls, NEW i \in Calls
      PROVE  Stopping(d, i)' <=> Stopping(d, i) /\ d # c
  <2>1. CASE d = c
    BY <1>5, <2>1
  <2>2. CASE d # c
    BY <1>2, <1>4, <2>2
  <2>3. QED
    BY <2>1, <2>2
<1>9. ASSUME NEW i \in Calls PROVE Owned(i)'
  <2>1. Owned(i)
    BY Know
  <2>2. CASE Stopping(c, i)
    BY <1>1, <1>2, <2>2, PriorDone DEF Owned
  <2>3. CASE ~Stopping(c, i)
    <3>1. \A d \in Calls : Stopping(d, i) => Stopping(d, i)'
      BY <1>8, <2>3
    <3>2. QED
      BY <1>2, <2>1, <3>1, OwnedUndisturbed
  <2>4. QED
    BY <2>2, <2>3
<1>10. ASSUME NEW d \in Calls, NEW e \in Calls PROVE OneStopper(d, e)'
  BY <1>8, KnowTwo, StopperUndisturbed
<1>11. QED
  BY <1>3, <1>6, <1>7, <1>9, <1>10, PartsSuffice

-----------------------------------------------------------------------------
(***************************************************************************)
(* The tasks.  A step of a living task moves it on, may count an event of  *)
(* its own, and touches nothing else.                                      *)
(***************************************************************************)
LEMMA TaskStep ==
    ASSUME LInv, NEW i \in Calls,
           NEW t \in {"checking", "awaiting", "emitting", "ended"},
           Alive(i), task' = [task EXCEPT ![i] = t],
           UNCHANGED <<callVars, stateVars, cancel, aborted>>,
           events' \in [Calls -> 0..MaxEvents], late' \in [Calls -> 0..MaxEvents],
           \A j \in Calls : j # i => events'[j] = events[j] /\ late'[j] = late[j],
           StreamInv(i)'
    PROVE  LInv'
<1>1. TypeOK
  BY DEF LInv
<1>2. TypeOK'
  <2>1. task' \in [Calls -> {"none", "checking", "awaiting", "emitting", "ended"}]
    BY <1>1 DEF TypeOK
  <2>2. QED
    BY <1>1, <2>1 DEF TypeOK
<1>3. task'[i] = t /\ \A j \in Calls : j # i => task'[j] = task[j]
  BY <1>1 DEF TypeOK
<1>4. ASSUME NEW d \in Calls PROVE CallInv(d)'
  <2>1. CallInv(d)
    BY Know
  <2>2. prior[d] \in 0..MaxCalls
    BY <1>1 DEF TypeOK
  <2>3. pc[d] \in {"taken", "waiting"} /\ prior[d] # Nobody =>
           task[prior[d]] # "none" /\ slot # prior[d]
    BY <2>1 DEF CallInv
  <2>4. pc[d] \in {"taken", "waiting"} /\ prior[d] # Nobody =>
           task'[prior[d]] # "none" /\ slot' # prior[d]
    BY <1>3, <2>2, <2>3
  <2>5. UNCHANGED <<issued, kind, pc, prior, lock, cancel>>
    OBVIOUS
  <2>6. QED
    BY <2>1, <2>4, <2>5, CallUndisturbed
<1>5. ASSUME NEW j \in Calls PROVE StreamInv(j)'
  <2>1. CASE j = i
    BY <2>1
  <2>2. CASE j # i
    BY <1>3, <2>2, Know, StreamUndisturbed
  <2>3. QED
    BY <2>1, <2>2
<1>6. ASSUME NEW j \in Calls PROVE Owned(j)'
  <2>1. Alive(j)' => Alive(j)
    BY <1>3
  <2>2. QED
    BY <2>1, Know, OwnedUndisturbed
<1>7. ASSUME NEW d \in Calls, NEW e \in Calls PROVE OneStopper(d, e)'
  BY KnowTwo, StopperUndisturbed
<1>8. QED
  BY <1>2, <1>4, <1>5, <1>6, <1>7, PartsSuffice

\* A step without an event.
LEMMA QuietStep ==
    ASSUME LInv, NEW i \in Calls,
           NEW t \in {"checking", "awaiting", "emitting", "ended"},
           Alive(i), task' = [task EXCEPT ![i] = t],
           UNCHANGED <<callVars, stateVars, cancel, aborted, events, late>>,
           late[i] = 1 => t = "ended",
           t = "emitting" => events[i] < MaxEvents
    PROVE  LInv'
<1>1. TypeOK /\ StreamInv(i)
  BY Know
<1>2. task'[i] = t
  BY <1>1 DEF TypeOK
<1>3. StreamInv(i)'
  BY <1>1, <1>2 DEF StreamInv
<1>4. QED
  BY <1>1, <1>3, TaskStep DEF TypeOK

\* Looking at the flag ends a cancelled task; only such a one has been late.
LEMMA ChecksCancelKeeps == ASSUME LInv, NEW i \in Calls, ChecksCancel(i) PROVE LInv'
<1>1. late[i] = 1 => cancel[i]
  BY Know DEF StreamInv
<1>2. CASE cancel[i]
  BY <1>2, QuietStep DEF ChecksCancel
<1>3. CASE ~cancel[i]
  BY <1>1, <1>3, QuietStep DEF ChecksCancel
<1>4. QED
  BY <1>2, <1>3

LEMMA AwaitKeeps ==
    ASSUME LInv, NEW i \in Calls,
           HasEvent(i) \/ HasNothing(i) \/ EndsByItself(i) \/ AbortLands(i)
    PROVE  LInv'
<1>1. task[i] = "awaiting"
  BY DEF HasEvent, HasNothing, EndsByItself, AbortLands
<1>2. late[i] # 1
  BY <1>1, Know DEF StreamInv
<1>3. CASE HasEvent(i)
  BY <1>2, <1>3, QuietStep DEF HasEvent
<1>4. CASE HasNothing(i)
  BY <1>2, <1>4, QuietStep DEF HasNothing
<1>5. CASE EndsByItself(i) \/ AbortLands(i)
  BY <1>2, <1>5, QuietStep DEF EndsByItself, AbortLands
<1>6. QED
  BY <1>3, <1>4, <1>5

\* A task about to emit has not been late yet, and looks at its flag next.
LEMMA EmitsKeeps == ASSUME LInv, NEW i \in Calls, Emits(i) PROVE LInv'
<1>1. TypeOK /\ StreamInv(i)
  BY Know
<1>2. /\ task[i] = "emitting"
      /\ task' = [task EXCEPT ![i] = "checking"]
      /\ UNCHANGED <<callVars, stateVars, cancel, aborted>>
  BY DEF Emits
<1>3. late[i] = 0 /\ events[i] \in 0..MaxEvents /\ events[i] + 1 \in 1..MaxEvents
  <2>1. late[i] \in 0..MaxEvents /\ events[i] \in 0..MaxEvents
    BY <1>1 DEF TypeOK
  <2>2. late[i] <= 1 /\ late[i] # 1 /\ events[i] < MaxEvents
    BY <1>1, <1>2 DEF StreamInv
  <2>3. QED
    BY <2>1, <2>2
<1>4. events' = [events EXCEPT ![i] = events[i] + 1]
  BY DEF Emits
<1>5. late' = [late EXCEPT ![i] = IF cancel[i] THEN 1 ELSE 0]
  BY <1>3 DEF Emits
<1>6. events' \in [Calls -> 0..MaxEvents] /\ late' \in [Calls -> 0..MaxEvents]
  <2>1. events' \in [Calls -> 0..MaxEvents]
    BY <1>1, <1>3, <1>4 DEF TypeOK
  <2>2. late \in [Calls -> 0..MaxEvents] /\ {0, 1} \subseteq 0..MaxEvents
    BY <1>1, <1>3 DEF TypeOK
  <2>3. late' \in [Calls -> 0..MaxEvents]
    BY <1>5, <2>2
  <2>4. QED
    BY <2>1, <2>3
<1>7. /\ task'[i] = "checking"
      /\ late'[i] = IF cancel[i] THEN 1 ELSE 0
      /\ \A j \in Calls : j # i => events'[j] = events[j] /\ late'[j] = late[j]
  BY <1>1, <1>2, <1>4, <1>5 DEF TypeOK
<1>8. StreamInv(i)'
  BY <1>1, <1>2, <1>7 DEF StreamInv
<1>9. QED
  BY <1>2, <1>6, <1>7, <1>8, TaskStep

-----------------------------------------------------------------------------
LEMMA NextKeeps == ASSUME LInv, [Next]_vars PROVE LInv'
<1>1. CASE Invoke
  BY <1>1, IssueKeeps DEF Invoke
<1>2. ASSUME NEW c \in Calls, Serve(c) PROVE LInv'
  BY <1>2, StartTakesKeeps, StopTakesKeeps, StopCancelsKeeps,
     AbortAfterTimeoutKeeps, StartSpawnsKeeps, StopReturnsKeeps
  DEF Serve
<1>3. ASSUME NEW c \in Calls, Run(c) \/ Emits(c) PROVE LInv'
  BY <1>3, ChecksCancelKeeps, AwaitKeeps, EmitsKeeps DEF Run
<1>4. CASE UNCHANGED vars
  BY <1>4 DEF LInv, TypeOK, CallInv, StreamInv, OneStopper, Owned
<1>5. QED
  BY <1>1, <1>2, <1>3, <1>4 DEF Next

\* The inductive invariant of the log stream.
THEOREM LogStreamInvariance == Spec => []LInv
<1>1. LInv /\ [Next]_vars => LInv'
  BY NextKeeps
<1>2. QED
  BY <1>1, InitInv, PTL DEF Spec

-----------------------------------------------------------------------------
\* However start and stop commands overlap, no task is left that nobody can
\* stop.
THEOREM NoTaskOrphaned == Spec => []NoOrphanTask
<1>1. LInv => NoOrphanTask
  BY DEF LInv, Owned, NoOrphanTask
<1>2. QED
  BY <1>1, LogStreamInvariance, PTL

\* A stream is stopped by one command, and what is in the slot is not.
THEOREM StreamOwnership == Spec => []OneOwner
<1>1. LInv => OneOwner
  <2> SUFFICES ASSUME LInv, NEW i \in Calls, NEW c \in Calls, NEW d \in Calls
               PROVE  /\ Stopping(c, i) /\ Stopping(d, i) => c = d
                      /\ slot = i => /\ ~cancel[i] /\ ~aborted[i]
                                     /\ ~Stopping(c, i)
    BY DEF OneOwner
  <2>1. Stopping(c, i) /\ Stopping(d, i) => c = d
    BY KnowTwo DEF OneStopper
  <2>2. slot = i => ~cancel[i] /\ ~aborted[i] /\ ~Stopping(c, i)
    BY Know, KnowPrior DEF StreamInv
  <2>3. QED
    BY <2>1, <2>2
<1>2. QED
  BY <1>1, LogStreamInvariance, PTL

\* A stopped task has one more event to emit at most.
THEOREM LateEvents == Spec => []AtMostOneLateEvent
<1>1. LInv => AtMostOneLateEvent
  BY DEF LInv, StreamInv, AtMostOneLateEvent
<1>2. QED
  BY <1>1, LogStreamInvariance, PTL

\* A stream that runs can be stopped, by one command, and is then silent.
THEOREM StreamsStayOwned == Spec => []StreamsUnderControl
<1>1. QED
  BY NoTaskOrphaned, StreamOwnership, LateEvents, PTL DEF StreamsUnderControl

-----------------------------------------------------------------------------
(***************************************************************************)
(* LogTerminal.  Lines are looked at in one sequence, from the oldest on   *)
(* screen to the newest on its way; what the component does to them drops  *)
(* a prefix, skips one or appends one.                                     *)
(***************************************************************************)

HIDE DEF Calls, Nobody, Alive, Stopping, callVars, stateVars, taskVars, vars

Ordered(s) ==
    \A p, q \in 1..Len(s) : p < q /\ s[p].stream = s[q].stream => s[p].n < s[q].n

\* Of stream i nothing is missing up to its last line.
Unbroken(s, i, last) ==
    \A p \in 1..Len(s) : s[p].stream = i =>
        \/ s[p].n = last
        \/ \E q \in (p + 1)..Len(s) : s[q].stream = i /\ s[q].n = s[p].n + 1

LEMMA LineIs ==
    ASSUME NEW l \in Line
    PROVE  l.stream \in Calls /\ l.stream # Nobody /\ l.n \in Nat /\ l.ts \in Nat
<1>1. QED
  BY LogStreamAssumption, LogTerminalAssumption DEF Line, Calls, Nobody

LEMMA PrefixDropped ==
    ASSUME NEW s \in Seq(Line), NEW t \in Seq(Line), NEW k \in Nat, NEW i, NEW last,
           Len(s) = Len(t) + k, \A p \in 1..Len(t) : t[p] = s[p + k],
           Ordered(s), Unbroken(s, i, last)
    PROVE  Ordered(t) /\ Unbroken(t, i, last)
<1>1. Len(s) \in Nat /\ Len(t) \in Nat
  OBVIOUS
<1>2. \A p \in 1..Len(t) : p + k \in 1..Len(s)
  BY <1>1
<1>3. Ordered(t)
  <2>1. SUFFICES ASSUME NEW p \in 1..Len(t), NEW q \in 1..Len(t), p < q,
                        t[p].stream = t[q].stream
                 PROVE  t[p].n < t[q].n
    BY DEF Ordered
  <2>2. p + k < q + k /\ t[p] = s[p + k] /\ t[q] = s[q + k]
    BY <1>1, <2>1
  <2>3. p + k \in 1..Len(s) /\ q + k \in 1..Len(s)
    BY <1>2
  <2>4. QED
    BY <2>1, <2>2, <2>3 DEF Ordered
<1>4. ASSUME NEW p \in 1..Len(t), t[p].stream = i, t[p].n # last
      PROVE  \E q \in (p + 1)..Len(t) : t[q].stream = i /\ t[q].n = t[p].n + 1
  <2>1. PICK q \in (p + k + 1)..Len(s) : s[q].stream = i /\ s[q].n = s[p + k].n + 1
    BY <1>2, <1>4 DEF Unbroken
  <2>2. q - k \in (p + 1)..Len(t) /\ (q - k) + k = q
    BY <1>1, <2>1
  <2>3. q - k \in 1..Len(t)
    BY <1>1, <2>2
  <2>4. t[q - k] = s[q] /\ t[p] = s[p + k]
    BY <2>2, <2>3
  <2>5. QED
    BY <2>1, <2>2, <2>4
<1>5. QED
  BY <1>3, <1>4 DEF Unbroken

LEMMA OneSkipped ==
    ASSUME NEW s \in Seq(Line), NEW t \in Seq(Line), NEW j \in 1..Len(s), NEW i, NEW last,
           Len(s) = Len(t) + 1,
           \A p \in 1..Len(t) : t[p] = IF p < j THEN s[p] ELSE s[p + 1],
           Ordered(s), Unbroken(s, i, last), s[j].stream # i
    PROVE  Ordered(t) /\ Unbroken(t, i, last)
<1>1. Len(s) \in Nat /\ Len(t) \in Nat /\ j \in Nat
  OBVIOUS
<1> DEFINE at(p) == IF p < j THEN p ELSE p + 1
<1>2. \A p \in 1..Len(t) : at(p) \in 1..Len(s) /\ t[p] = s[at(p)]
  BY <1>1
<1>3. \A p, q \in 1..Len(t) : p < q => at(p) < at(q)
  BY <1>1
<1>4. ASSUME NEW q \in 1..Len(s), q # j
      PROVE  \E p \in 1..Len(t) : at(p) = q
  <2>1. CASE q < j
    BY <1>1, <2>1
  <2>2. CASE q > j
    <3>1. q - 1 \in 1..Len(t) /\ ~(q - 1 < j) /\ (q - 1) + 1 = q
      BY <1>1, <2>2
    <3>2. QED
      BY <3>1
  <2>3. QED
    BY <1>1, <1>4, <2>1, <2>2
<1>5. \A p, q \in 1..Len(t) : at(p) < at(q) => p < q
  BY <1>1
<1> HIDE DEF at
<1>6. Ordered(t)
  BY <1>2, <1>3 DEF Ordered
<1>7. ASSUME NEW p \in 1..Len(t), t[p].stream = i, t[p].n # last
      PROVE  \E q \in (p + 1)..Len(t) : t[q].stream = i /\ t[q].n = t[p].n + 1
  <2>1. at(p) \in 1..Len(s) /\ t[p] = s[at(p)]
    BY <1>2
  <2>2. PICK q \in (at(p) + 1)..Len(s) : s[q].stream = i /\ s[q].n = s[at(p)].n + 1
    BY <1>7, <2>1 DEF Unbroken
  <2>3. q \in 1..Len(s) /\ at(p) < q /\ q # j
    BY <1>1, <2>1, <2>2
  <2>4. PICK r \in 1..Len(t) : at(r) = q
    BY <1>4, <2>3
  <2>5. r \in (p + 1)..Len(t)
    <3>1. p < r
      BY <1>5, <2>3, <2>4
    <3>2. QED
      BY <1>1, <3>1
  <2>6. t[r] = s[q]
    BY <1>2, <2>4
  <2>7. QED
    BY <2>1, <2>2, <2>5, <2>6
<1>8. QED
  BY <1>6, <1>7 DEF Unbroken

LEMMA OneAppended ==
    ASSUME NEW s \in Seq(Line), NEW t \in Seq(Line), NEW e \in Line, NEW i, NEW last,
           Len(t) = Len(s) + 1, t[Len(s) + 1] = e, \A p \in 1..Len(s) : t[p] = s[p],
           Ordered(s), Unbroken(s, i, last),
           \A p \in 1..Len(s) : s[p].stream = e.stream => s[p].n < e.n,
           e.stream = i => e.n = last + 1
    PROVE  /\ Ordered(t)
           /\ Unbroken(t, i, IF e.stream = i THEN last + 1 ELSE last)
<1>1. Len(s) \in Nat /\ Len(t) \in Nat
  OBVIOUS
<1>2. Ordered(t)
  <2>1. SUFFICES ASSUME NEW p \in 1..Len(t), NEW q \in 1..Len(t), p < q,
                        t[p].stream = t[q].stream
                 PROVE  t[p].n < t[q].n
    BY DEF Ordered
  <2>2. p \in 1..Len(s) /\ t[p] = s[p]
    BY <1>1, <2>1
  <2>3. CASE q = Len(s) + 1
    BY <2>1, <2>2, <2>3
  <2>4. CASE q # Len(s) + 1
    <3>1. q \in 1..Len(s) /\ t[q] = s[q]
      BY <1>1, <2>4
    <3>2. QED
      BY <2>1, <2>2, <3>1 DEF Ordered
  <2>5. QED
    BY <2>3, <2>4
<1> DEFINE new == IF e.stream = i THEN last + 1 ELSE last
<1>3. ASSUME NEW p \in 1..Len(t), t[p].stream = i, t[p].n # new
      PROVE  \E q \in (p + 1)..Len(t) : t[q].stream = i /\ t[q].n = t[p].n + 1
  <2>1. p # Len(s) + 1
    BY <1>3
  <2>2. p \in 1..Len(s) /\ t[p] = s[p]
    BY <1>1, <2>1
  <2>3. CASE s[p].n = last
    <3>1. e.stream = i /\ e.n = s[p].n + 1
      BY <1>3, <2>2, <2>3
    <3>2. Len(s) + 1 \in (p + 1)..Len(t)
      BY <1>1, <2>2
    <3>3. QED
      BY <2>2, <3>1, <3>2
  <2>4. CASE s[p].n # last
    <3>1. PICK q \in (p + 1)..Len(s) : s[q].stream = i /\ s[q].n = s[p].n + 1
      BY <1>3, <2>2, <2>4 DEF Unbroken
    <3>2. q \in 1..Len(s) /\ q \in (p + 1)..Len(t)
      BY <1>1, <2>2, <3>1
    <3>3. QED
      BY <2>2, <3>1, <3>2
  <2>5. QED
    BY <2>3, <2>4
<1>4. QED
  BY <1>2, <1>3 DEF Unbroken

\* Three sequences in one.
LEMMA ThreeJoined ==
    ASSUME NEW a \in Seq(Line), NEW b \in Seq(Line), NEW c \in Seq(Line)
    PROVE  /\ a \o b \o c \in Seq(Line)
           /\ Len(a \o b \o c) = Len(a) + Len(b) + Len(c)
           /\ \A p \in 1..(Len(a) + Len(b) + Len(c)) :
                 (a \o b \o c)[p] = IF p <= Len(a) THEN a[p]
                                    ELSE IF p <= Len(a) + Len(b) THEN b[p - Len(a)]
                                    ELSE c[p - Len(a) - Len(b)]
<1>1. Len(a) \in Nat /\ Len(b) \in Nat /\ Len(c) \in Nat
  OBVIOUS
<1>2. /\ a \o b \in Seq(Line) /\ Len(a \o b) = Len(a) + Len(b)
      /\ \A p \in 1..(Len(a) + Len(b)) :
            (a \o b)[p] = IF p <= Len(a) THEN a[p] ELSE b[p - Len(a)]
  BY ConcatProperties
<1>3. /\ a \o b \o c \in Seq(Line) /\ Len(a \o b \o c) = Len(a \o b) + Len(c)
      /\ \A p \in 1..(Len(a \o b) + Len(c)) :
            (a \o b \o c)[p] = IF p <= Len(a \o b) THEN (a \o b)[p] ELSE c[p - Len(a \o b)]
  BY <1>2, ConcatProperties
<1>4. QED
  BY <1>1, <1>2, <1>3

\* Every line that came through was said by a stream that was started.
Said(s) ==
    \A p \in 1..Len(s) :
        task[s[p].stream] # "none" /\ s[p].n <= events[s[p].stream]

ScreenTypes ==
    /\ shown \in 0..MaxCalls /\ shown <= issued
    /\ switching \in BOOLEAN /\ listening \in BOOLEAN
    /\ fence \in 0..MaxTime /\ now \in 0..MaxTime /\ fence <= now
    /\ stamp \in [Calls -> 0..MaxTime]
    /\ channel \in Seq(Line) /\ pending \in Seq(Line) /\ buffer \in Seq(Line)

\* A terminal that does not listen has nothing.
ListenInv ==
    /\ shown = Nobody => ~listening /\ ~switching
    /\ ~listening => pending = <<>> /\ buffer = <<>>

\* What the stream on screen says is from after the fence.
FenceInv ==
    ~switching =>
        /\ \A p \in 1..Len(channel) : channel[p].stream = shown => channel[p].ts >= fence
        /\ \A i \in Calls : i = shown /\ task[i] \in {"awaiting", "emitting"} =>
              stamp[i] >= fence

SeenInv == Ordered(Seen) /\ Said(Seen) /\ Unbroken(Seen, shown, events[shown])

TInv == LInv /\ ScreenTypes /\ ListenInv /\ FenceInv /\ SeenInv

LEMMA SeenIs ==
    ASSUME ScreenTypes
    PROVE  /\ Seen \in Seq(Line) /\ Len(buffer) \in Nat /\ Len(pending) \in Nat
           /\ Len(channel) \in Nat
           /\ Len(Seen) = Len(buffer) + Len(pending) + Len(channel)
           /\ \A p \in 1..Len(Seen) :
                 Seen[p] = IF p <= Len(buffer) THEN buffer[p]
                           ELSE IF p <= Len(buffer) + Len(pending) THEN pending[p - Len(buffer)]
                           ELSE channel[p - Len(buffer) - Len(pending)]
<1>1. buffer \in Seq(Line) /\ pending \in Seq(Line) /\ channel \in Seq(Line)
  BY DEF ScreenTypes
<1>2. QED
  BY <1>1, ThreeJoined DEF Seen

LEMMA SeenIsNext ==
    ASSUME ScreenTypes'
    PROVE  /\ Seen' \in Seq(Line) /\ Len(buffer') \in Nat /\ Len(pending') \in Nat
           /\ Len(channel') \in Nat
           /\ Len(Seen') = Len(buffer') + Len(pending') + Len(channel')
           /\ \A p \in 1..Len(Seen') :
                 Seen'[p] = IF p <= Len(buffer') THEN buffer'[p]
                            ELSE IF p <= Len(buffer') + Len(pending')
                            THEN pending'[p - Len(buffer')]
                            ELSE channel'[p - Len(buffer') - Len(pending')]
<1>1. buffer' \in Seq(Line) /\ pending' \in Seq(Line) /\ channel' \in Seq(Line)
  BY DEF ScreenTypes
<1>2. QED
  BY <1>1, ThreeJoined DEF Seen

\* A command that has just been issued has said nothing.
LEMMA NothingSaidYet ==
    ASSUME LInv, NEW i \in Calls, i > issued
    PROVE  task[i] = "none"
<1>1. QED
  BY Know DEF CallInv, StreamInv

\* A command of the terminal changes nothing of the streams.
LEMMA Issued ==
    ASSUME LInv, NEW k \in {"start", "stop"}, Issue(k), UNCHANGED <<stateVars, taskVars>>
    PROVE  /\ LInv' /\ issued' = issued + 1 /\ issued \in Nat /\ issued' \in Calls
           /\ UNCHANGED <<task, events>> /\ task[issued'] = "none"
<1>1. [Next]_vars
  BY DEF Next, Invoke
<1>2. issued \in 0..MaxCalls
  BY DEF LInv, TypeOK
<1>3. issued' = issued + 1 /\ issued < MaxCalls
  BY DEF Issue
<1>4. issued' \in Calls /\ issued' > issued /\ issued \in Nat
  BY <1>2, <1>3, LogStreamAssumption DEF Calls
<1>5. LInv'
  BY <1>1, NextKeeps
<1>6. UNCHANGED <<task, events>>
  BY DEF taskVars
<1>7. \A i \in Calls : i > issued => task[i] = "none"
  BY NothingSaidYet
<1>8. QED
  BY <1>3, <1>4, <1>5, <1>6, <1>7

\* No line can be of a stream that was not started.
LEMMA UnbrokenForNew ==
    ASSUME NEW s \in Seq(Line), Said(s), NEW i, \/ i = Nobody
                                                \/ i \in Calls /\ task[i] = "none",
           NEW last
    PROVE  Unbroken(s, i, last)
<1>1. \A p \in 1..Len(s) : s[p] \in Line
  OBVIOUS
<1>2. QED
  BY <1>1, LineIs DEF Said, Unbroken

LEMMA TermStart == TerminalInit => TInv
<1> SUFFICES ASSUME TerminalInit PROVE TInv
  OBVIOUS
<1>1. LInv /\ issued = 0
  BY InitInv DEF TerminalInit, Init
<1>2. /\ shown = Nobody /\ switching = FALSE /\ listening = FALSE /\ fence = 0 /\ now = 1
      /\ stamp = [c \in Calls |-> 0] /\ channel = <<>> /\ pending = <<>> /\ buffer = <<>>
  BY DEF TerminalInit
<1>3. ScreenTypes
  <2>1. /\ shown \in 0..MaxCalls /\ shown <= issued
        /\ 0 \in 0..MaxTime /\ 1 \in 0..MaxTime /\ 0 <= 1 /\ <<>> \in Seq(Line)
    BY <1>1, <1>2, LogStreamAssumption, LogTerminalAssumption DEF Nobody
  <2>2. QED
    BY <1>2, <2>1 DEF ScreenTypes
<1>4. ListenInv /\ FenceInv
  BY <1>2 DEF ListenInv, FenceInv
<1>5. Len(Seen) = 0
  BY <1>2, <1>3, SeenIs
<1>6. SeenInv
  BY <1>5 DEF SeenInv, Ordered, Said, Unbroken
<1>7. QED
  BY <1>1, <1>3, <1>4, <1>6 DEF TInv

\* A step that moves no line.
LEMMA LinesStay ==
    ASSUME TInv, LInv', ListenInv',
           UNCHANGED <<shown, switching, fence, channel, pending, buffer, events>>,
           issued' = issued, now' \in 0..MaxTime, now <= now', listening' \in BOOLEAN,
           stamp' \in [Calls -> 0..MaxTime],
           \A i \in Calls : task[i] # "none" => task'[i] # "none",
           ~switching => \A i \in Calls : i = shown /\ task'[i] \in {"awaiting", "emitting"} =>
              stamp'[i] >= fence
    PROVE  TInv'
<1>1. ScreenTypes'
  BY LogTerminalAssumption DEF TInv, ScreenTypes
<1>2. FenceInv'
  BY DEF TInv, FenceInv
<1>3. Seen' = Seen /\ Seen \in Seq(Line)
  BY SeenIs DEF TInv, Seen
<1>4. Said(Seen)'
  <2>1. \A p \in 1..Len(Seen) : Seen[p].stream \in Calls
    BY <1>3, LineIs
  <2>2. QED
    BY <1>3, <2>1 DEF TInv, SeenInv, Said
<1>5. SeenInv'
  BY <1>3, <1>4 DEF TInv, SeenInv, Ordered, Unbroken
<1>6. QED
  BY <1>1, <1>2, <1>5 DEF TInv

\* What a step of a command or a task does to the tasks.
LEMMA TasksGoOn ==
    ASSUME LInv, NEW c \in Calls, Serve(c) \/ Run(c) \/ Emits(c)
    PROVE  /\ LInv' /\ issued' = issued
           /\ \A i \in Calls : task[i] # "none" => task'[i] # "none"
           /\ \A i \in Calls : i # c => task'[i] = task[i]
           /\ task \in [Calls -> {"none", "checking", "awaiting", "emitting", "ended"}]
<1>1. LInv'
  <2>1. [Next]_vars
    BY DEF Next
  <2>2. QED
    BY <2>1, NextKeeps
<1>2. task \in [Calls -> {"none", "checking", "awaiting", "emitting", "ended"}]
  BY DEF LInv, TypeOK
<1>3. issued' = issued
  BY DEF Serve, Run, StartTakes, StopTakes, StopCancels, AbortAfterTimeout, StartSpawns,
         StopReturns, ChecksCancel, HasEvent, HasNothing, EndsByItself, AbortLands, Emits,
         callVars, stateVars, taskVars
<1>4. CASE Serve(c)
  <2>1. task' = task \/ task' = [task EXCEPT ![c] = "checking"]
    BY <1>4 DEF Serve, StartTakes, StopTakes, StopCancels, AbortAfterTimeout, StartSpawns,
                StopReturns, taskVars
  <2>2. QED
    BY <1>1, <1>2, <1>3, <2>1
<1>5. CASE Run(c) \/ Emits(c)
  <2>1. PICK to \in {"checking", "awaiting", "emitting", "ended"} :
           task' = [task EXCEPT ![c] = to]
    BY <1>5 DEF Run, ChecksCancel, HasEvent, HasNothing, EndsByItself, AbortLands, Emits
  <2>2. QED
    BY <1>1, <1>2, <1>3, <2>1
<1>6. QED
  BY <1>4, <1>5

LEMMA BackEndKeeps ==
    ASSUME TInv, NEW c \in Calls, BackEnd(c) \/ Awaits(c) \/ LineComes(c)
    PROVE  TInv'
<1>1. LInv /\ ScreenTypes /\ ListenInv /\ FenceInv
  BY DEF TInv
<1>2. UNCHANGED <<shown, switching, listening, fence, now, channel, pending, buffer>>
  BY DEF BackEnd, Awaits, LineComes, terminalVars, screen, lines
<1>3. Serve(c) \/ Run(c) \/ Emits(c)
  BY DEF BackEnd, Awaits, LineComes, Run
<1>4. events' = events
  BY DEF BackEnd, Awaits, LineComes, Serve, StartTakes, StopTakes, StopCancels,
         AbortAfterTimeout, StartSpawns, StopReturns, ChecksCancel, HasEvent, HasNothing,
         EndsByItself, AbortLands, taskVars
<1>5. /\ LInv' /\ issued' = issued
      /\ \A i \in Calls : task[i] # "none" => task'[i] # "none"
      /\ \A i \in Calls : i # c => task'[i] = task[i]
      /\ task \in [Calls -> {"none", "checking", "awaiting", "emitting", "ended"}]
  BY <1>1, <1>3, TasksGoOn
<1>6. ListenInv' /\ now' \in 0..MaxTime /\ now <= now' /\ listening' \in BOOLEAN
  BY <1>1, <1>2, LogTerminalAssumption DEF ListenInv, ScreenTypes
<1>7. /\ stamp \in [Calls -> 0..MaxTime] /\ now \in 0..MaxTime /\ fence \in 0..MaxTime
      /\ fence <= now
  BY <1>1 DEF ScreenTypes
<1>8. ASSUME ~switching
      PROVE  \A i \in Calls : i = shown /\ task[i] \in {"awaiting", "emitting"} =>
                stamp[i] >= fence
  BY <1>1, <1>8 DEF FenceInv
<1>9. CASE BackEnd(c)
  <2>1. stamp' = stamp
    BY <1>9 DEF BackEnd, terminalVars
  <2>2. \A i \in Calls : task'[i] \in {"awaiting", "emitting"} => task'[i] = task[i]
    BY <1>5, <1>9
       DEF BackEnd, Serve, StartTakes, StopTakes, StopCancels, AbortAfterTimeout, StartSpawns,
           StopReturns, HasNothing, EndsByItself, AbortLands, taskVars
  <2>3. ~switching => \A i \in Calls : i = shown /\ task'[i] \in {"awaiting", "emitting"} =>
           stamp'[i] >= fence
    BY <1>8, <2>1, <2>2
  <2>4. QED
    BY <1>2, <1>4, <1>5, <1>6, <1>7, <2>1, <2>3, LinesStay
<1>10. CASE Awaits(c)
  <2>1. stamp' = [stamp EXCEPT ![c] = now]
    BY <1>10 DEF Awaits
  <2>2. stamp' \in [Calls -> 0..MaxTime] /\ stamp'[c] = now
        /\ \A i \in Calls : i # c => stamp'[i] = stamp[i]
    BY <1>7, <2>1
  <2>3. now >= fence
    BY <1>7, LogTerminalAssumption
  <2>4. ~switching => \A i \in Calls : i = shown /\ task'[i] \in {"awaiting", "emitting"} =>
           stamp'[i] >= fence
    BY <1>5, <1>8, <2>2, <2>3
  <2>5. QED
    BY <1>2, <1>4, <1>5, <1>6, <2>2, <2>4, LinesStay
<1>11. CASE LineComes(c)
  <2>1. /\ task[c] = "awaiting" /\ \E ts \in {stamp[c], now} : stamp' = [stamp EXCEPT ![c] = ts]
    BY <1>11 DEF LineComes, HasEvent
  <2>2. /\ stamp' \in [Calls -> 0..MaxTime] /\ stamp'[c] \in {stamp[c], now}
        /\ \A i \in Calls : i # c => stamp'[i] = stamp[i]
    BY <1>7, <2>1
  <2>3. now >= fence
    BY <1>7, LogTerminalAssumption
  <2>4. ~switching => \A i \in Calls : i = shown /\ task'[i] \in {"awaiting", "emitting"} =>
           stamp'[i] >= fence
    BY <1>5, <1>8, <2>1, <2>2, <2>3
  <2>5. QED
    BY <1>2, <1>4, <1>5, <1>6, <2>2, <2>4, LinesStay
<1>12. QED
  BY <1>9, <1>10, <1>11

\* A task says its next line.
LEMMA EmitsLineKeeps == ASSUME TInv, NEW c \in Calls, EmitsLine(c) PROVE TInv'
<1>1. LInv /\ ScreenTypes /\ ListenInv /\ FenceInv /\ SeenInv
  BY DEF TInv
<1>2. /\ Emits(c) /\ UNCHANGED <<shown, switching, listening, fence, now, stamp, pending, buffer>>
      /\ channel' = Append(channel, [stream |-> c, n |-> events[c] + 1, ts |-> stamp[c]])
  BY DEF EmitsLine, screen, lines
<1>3. /\ LInv' /\ issued' = issued
      /\ \A i \in Calls : task[i] # "none" => task'[i] # "none"
      /\ \A i \in Calls : i # c => task'[i] = task[i]
      /\ task \in [Calls -> {"none", "checking", "awaiting", "emitting", "ended"}]
  BY <1>1, <1>2, TasksGoOn
<1>4. /\ task[c] = "emitting" /\ task' = [task EXCEPT ![c] = "checking"]
      /\ events' = [events EXCEPT ![c] = @ + 1] /\ events \in [Calls -> 0..MaxEvents]
      /\ events[c] < MaxEvents
  BY <1>1, <1>2, Know DEF Emits, LInv, TypeOK, StreamInv
<1>5. /\ task'[c] = "checking" /\ events'[c] = events[c] + 1
      /\ \A i \in Calls : i # c => events'[i] = events[i]
      /\ events[c] \in Nat /\ events[c] + 1 \in 1..MaxEvents
  BY <1>3, <1>4, LogStreamAssumption
<1> DEFINE e == [stream |-> c, n |-> events[c] + 1, ts |-> stamp[c]]
<1>6. e \in Line /\ e.stream = c /\ e.n = events[c] + 1 /\ e.ts = stamp[c]
  BY <1>1, <1>5 DEF Line, ScreenTypes
<1>7. /\ channel \in Seq(Line) /\ channel' \in Seq(Line) /\ Len(channel') = Len(channel) + 1
      /\ \A p \in 1..Len(channel) : channel'[p] = channel[p]
      /\ channel'[Len(channel) + 1] = e
  BY <1>1, <1>2, <1>6, AppendProperties DEF ScreenTypes
<1> HIDE DEF e
<1>8. ScreenTypes'
  BY <1>1, <1>2, <1>3, <1>7 DEF ScreenTypes
<1>9. ListenInv'
  BY <1>1, <1>2 DEF ListenInv
<1>10. FenceInv'
  <2>1. SUFFICES ASSUME ~switching
                 PROVE  /\ \A p \in 1..Len(channel') :
                              channel'[p].stream = shown => channel'[p].ts >= fence
                        /\ \A i \in Calls : i = shown /\ task'[i] \in {"awaiting", "emitting"} =>
                              stamp[i] >= fence
    BY <1>2 DEF FenceInv
  <2>2. /\ \A p \in 1..Len(channel) : channel[p].stream = shown => channel[p].ts >= fence
        /\ \A i \in Calls : i = shown /\ task[i] \in {"awaiting", "emitting"} =>
              stamp[i] >= fence
    BY <1>1, <2>1 DEF FenceInv
  <2>3. e.stream = shown => e.ts >= fence
    BY <1>4, <1>6, <2>2
  <2>4. \A p \in 1..Len(channel') : channel'[p].stream = shown => channel'[p].ts >= fence
    <3>1. SUFFICES ASSUME NEW p \in 1..Len(channel'), channel'[p].stream = shown
                   PROVE  channel'[p].ts >= fence
      OBVIOUS
    <3>2. Len(channel) \in Nat /\ (p = Len(channel) + 1 \/ p \in 1..Len(channel))
      BY <1>7
    <3>3. QED
      BY <1>7, <2>2, <2>3, <3>1, <3>2
  <2>5. QED
    BY <1>3, <1>5, <2>2, <2>4
<1>11. /\ Seen \in Seq(Line) /\ Seen' \in Seq(Line) /\ Len(Seen') = Len(Seen) + 1
       /\ \A p \in 1..Len(Seen) : Seen'[p] = Seen[p]
       /\ Seen'[Len(Seen) + 1] = e
  <2>1. /\ Seen \in Seq(Line) /\ Len(buffer) \in Nat /\ Len(pending) \in Nat
        /\ Len(channel) \in Nat
        /\ Len(Seen) = Len(buffer) + Len(pending) + Len(channel)
        /\ \A p \in 1..Len(Seen) :
              Seen[p] = IF p <= Len(buffer) THEN buffer[p]
                        ELSE IF p <= Len(buffer) + Len(pending) THEN pending[p - Len(buffer)]
                        ELSE channel[p - Len(buffer) - Len(pending)]
    BY <1>1, SeenIs
  <2>2. /\ Seen' \in Seq(Line)
        /\ Len(Seen') = Len(buffer) + Len(pending) + Len(channel')
        /\ \A p \in 1..Len(Seen') :
              Seen'[p] = IF p <= Len(buffer) THEN buffer[p]
                         ELSE IF p <= Len(buffer) + Len(pending) THEN pending[p - Len(buffer)]
                         ELSE channel'[p - Len(buffer) - Len(pending)]
    BY <1>2, <1>8, SeenIsNext
  <2>3. Len(Seen') = Len(Seen) + 1
    BY <1>7, <2>1, <2>2
  <2>4. ASSUME NEW p \in 1..Len(Seen)
        PROVE  Seen'[p] = Seen[p]
    <3>1. p \in 1..Len(Seen')
      BY <2>1, <2>3
    <3>2. CASE p <= Len(buffer) + Len(pending)
      BY <2>1, <2>2, <3>1, <3>2
    <3>3. CASE ~(p <= Len(buffer) + Len(pending))
      <4>1. ~(p <= Len(buffer)) /\ p - Len(buffer) - Len(pending) \in 1..Len(channel)
        BY <2>1, <3>3
      <4>2. QED
        BY <1>7, <2>1, <2>2, <3>1, <3>3, <4>1
    <3>4. QED
      BY <3>2, <3>3
  <2>5. Seen'[Len(Seen) + 1] = e
    <3>1. /\ Len(Seen) + 1 \in 1..Len(Seen') /\ ~(Len(Seen) + 1 <= Len(buffer))
          /\ ~(Len(Seen) + 1 <= Len(buffer) + Len(pending))
          /\ Len(Seen) + 1 - Len(buffer) - Len(pending) = Len(channel) + 1
      BY <2>1, <2>3
    <3>2. QED
      BY <1>7, <2>2, <3>1
  <2>6. QED
    BY <2>1, <2>2, <2>3, <2>4, <2>5
<1>12. Ordered(Seen) /\ Said(Seen) /\ Unbroken(Seen, shown, events[shown])
  BY <1>1 DEF SeenInv
<1>13. /\ \A p \in 1..Len(Seen) : Seen[p] \in Line /\ Seen[p].stream \in Calls
       /\ \A p \in 1..Len(Seen) : Seen[p].n \in Nat /\ Len(Seen) \in Nat
  BY <1>11, LineIs
<1>14. \A p \in 1..Len(Seen) : Seen[p].stream = e.stream => Seen[p].n < e.n
  BY <1>5, <1>6, <1>12, <1>13 DEF Said
<1>15. e.stream = shown => e.n = events[shown] + 1
  BY <1>6
<1>16. /\ Ordered(Seen')
       /\ Unbroken(Seen', shown, IF e.stream = shown THEN events[shown] + 1 ELSE events[shown])
  BY <1>6, <1>11, <1>12, <1>14, <1>15, OneAppended
<1>17. Said(Seen)'
  <2>1. SUFFICES ASSUME NEW p \in 1..Len(Seen')
                 PROVE  task'[Seen'[p].stream] # "none" /\ Seen'[p].n <= events'[Seen'[p].stream]
    BY DEF Said
  <2>2. p = Len(Seen) + 1 \/ p \in 1..Len(Seen)
    BY <1>11
  <2>3. CASE p = Len(Seen) + 1
    <3>1. Seen'[p] = e /\ events'[c] \in Nat
      BY <1>5, <1>11, <2>3
    <3>2. QED
      BY <1>5, <1>6, <3>1
  <2>4. CASE p \in 1..Len(Seen)
    <3>1. /\ Seen'[p] = Seen[p] /\ Seen[p].stream \in Calls /\ Seen[p].n \in Nat
          /\ task[Seen[p].stream] # "none" /\ Seen[p].n <= events[Seen[p].stream]
      BY <1>11, <1>12, <1>13, <2>4 DEF Said
    <3>2. Seen[p].n <= events'[Seen[p].stream]
      <4>1. CASE Seen[p].stream = c
        BY <1>5, <3>1, <4>1
      <4>2. CASE Seen[p].stream # c
        BY <1>5, <3>1, <4>2
      <4>3. QED
        BY <4>1, <4>2
    <3>3. QED
      BY <1>3, <3>1, <3>2
  <2>5. QED
    BY <2>2, <2>3, <2>4
<1>18. Unbroken(Seen, shown, events[shown])'
  <2>1. CASE shown = Nobody
    <3>1. Unbroken(Seen', Nobody, events'[shown'])
      <4>1. \A p \in 1..Len(Seen') : Seen'[p] \in Line
        BY <1>11
      <4>2. QED
        BY <4>1, LineIs DEF Unbroken
    <3>2. QED
      BY <1>2, <2>1, <3>1 DEF Unbroken
  <2>2. CASE shown # Nobody
    <3>1. shown \in Calls
      BY <1>1, <2>2, LogStreamAssumption DEF ScreenTypes, Calls, Nobody
    <3>2. events'[shown] = IF e.stream = shown THEN events[shown] + 1 ELSE events[shown]
      BY <1>5, <1>6, <3>1
    <3>3. QED
      BY <1>2, <1>16, <3>2 DEF Unbroken
  <2>3. QED
    BY <2>1, <2>2
<1>19. SeenInv'
  BY <1>16, <1>17, <1>18 DEF SeenInv, Ordered
<1>20. QED
  BY <1>3, <1>8, <1>9, <1>10, <1>19 DEF TInv

\* A command of the terminal, which may drop the oldest lines.
LEMMA CommandKeeps ==
    ASSUME TInv, NEW k \in {"start", "stop"}, Issue(k), UNCHANGED <<stateVars, taskVars>>,
           UNCHANGED <<now, stamp, channel>>, NEW d \in Nat,
           ScreenTypes', ListenInv', FenceInv',
           shown' = shown \/ shown' = Nobody \/ shown' = issued + 1,
           Len(Seen) = Len(Seen') + d, \A p \in 1..Len(Seen') : Seen'[p] = Seen[p + d]
    PROVE  TInv'
<1>1. LInv /\ ScreenTypes /\ SeenInv
  BY DEF TInv
<1>2. /\ LInv' /\ issued' = issued + 1 /\ issued' \in Calls
      /\ UNCHANGED <<task, events>> /\ task[issued'] = "none"
  BY <1>1, Issued
<1>3. Seen \in Seq(Line) /\ Seen' \in Seq(Line) /\ Len(Seen') \in Nat
  BY <1>1, SeenIs, SeenIsNext
<1>4. Ordered(Seen) /\ Said(Seen) /\ Unbroken(Seen, shown, events[shown])
  BY <1>1 DEF SeenInv
<1>5. Ordered(Seen') /\ Unbroken(Seen', shown, events[shown])
  BY <1>3, <1>4, PrefixDropped
<1>6. Said(Seen)'
  <2>1. \A p \in 1..Len(Seen') : p + d \in 1..Len(Seen)
    BY <1>3
  <2>2. ASSUME NEW p \in 1..Len(Seen')
        PROVE  task[Seen'[p].stream] # "none" /\ Seen'[p].n <= events[Seen'[p].stream]
    <3>1. p + d \in 1..Len(Seen) /\ Seen'[p] = Seen[p + d]
      BY <2>1
    <3>2. QED
      BY <1>4, <3>1 DEF Said
  <2>3. QED
    BY <1>2, <2>2 DEF Said
<1>7. Unbroken(Seen, shown, events[shown])'
  <2>1. CASE shown' = shown
    BY <1>2, <1>5, <2>1 DEF Unbroken
  <2>2. CASE shown' # shown
    <3>1. /\ \A p \in 1..Len(Seen') : Seen'[p] \in Line
          /\ \A p \in 1..Len(Seen') : task[Seen'[p].stream] # "none"
      BY <1>2, <1>3, <1>6 DEF Said
    <3>2. \A p \in 1..Len(Seen') : Seen'[p].stream # shown'
      BY <1>2, <2>2, <3>1, LineIs
    <3>3. QED
      BY <3>2 DEF Unbroken
  <2>3. QED
    BY <2>1, <2>2
<1>8. SeenInv'
  BY <1>5, <1>6, <1>7 DEF SeenInv, Ordered
<1>9. QED
  BY <1>2, <1>8 DEF TInv

LEMMA CommandsKeep ==
    ASSUME TInv, Open \/ SwitchCleansUp \/ SwitchStarts \/ Close
    PROVE  TInv'
<1>1. LInv /\ ScreenTypes /\ ListenInv /\ FenceInv
  BY DEF TInv
<1>2. PICK k \in {"start", "stop"} : Issue(k)
  BY DEF Open, SwitchCleansUp, SwitchStarts, Close
<1>3. UNCHANGED <<stateVars, taskVars>> /\ UNCHANGED <<now, stamp, channel>>
  BY DEF Open, SwitchCleansUp, SwitchStarts, Close
<1>4. /\ LInv' /\ issued' = issued + 1 /\ issued \in Nat /\ issued' \in Calls
      /\ UNCHANGED <<task, events>> /\ task[issued'] = "none"
  BY <1>1, <1>2, <1>3, Issued
<1>5. issued' \in 1..MaxCalls /\ MaxCalls \in Nat
  BY <1>4, LogStreamAssumption DEF Calls
<1>6. /\ shown \in 0..MaxCalls /\ shown <= issued
      /\ switching \in BOOLEAN /\ listening \in BOOLEAN
      /\ fence \in 0..MaxTime /\ now \in 0..MaxTime /\ fence <= now
      /\ stamp \in [Calls -> 0..MaxTime]
      /\ channel \in Seq(Line) /\ pending \in Seq(Line) /\ buffer \in Seq(Line)
      /\ 0 <= now /\ 0 \in 0..MaxTime /\ <<>> \in Seq(Line)
  BY <1>1, LogTerminalAssumption DEF ScreenTypes
<1>7. /\ Len(buffer) \in Nat /\ Len(pending) \in Nat /\ Len(channel) \in Nat
      /\ Len(Seen) = Len(buffer) + Len(pending) + Len(channel)
      /\ \A p \in 1..Len(Seen) :
            Seen[p] = IF p <= Len(buffer) THEN buffer[p]
                      ELSE IF p <= Len(buffer) + Len(pending) THEN pending[p - Len(buffer)]
                      ELSE channel[p - Len(buffer) - Len(pending)]
  BY <1>1, SeenIs
<1>8. ASSUME ScreenTypes', buffer' = <<>>, pending' = <<>>
      PROVE  /\ Len(Seen) = Len(Seen') + (Len(buffer) + Len(pending))
             /\ \A p \in 1..Len(Seen') : Seen'[p] = Seen[p + (Len(buffer) + Len(pending))]
  <2>1. /\ Len(Seen') = Len(channel)
        /\ \A p \in 1..Len(Seen') : Seen'[p] = channel[p]
    BY <1>3, <1>8, SeenIsNext
  <2>2. QED
    BY <1>7, <2>1
<1>9. ASSUME ScreenTypes', buffer' = <<>>, pending' = pending
      PROVE  /\ Len(Seen) = Len(Seen') + Len(buffer)
             /\ \A p \in 1..Len(Seen') : Seen'[p] = Seen[p + Len(buffer)]
  <2>1. /\ Len(Seen') = Len(pending) + Len(channel)
        /\ \A p \in 1..Len(Seen') : Seen'[p] = IF p <= Len(pending) THEN pending[p]
                                               ELSE channel[p - Len(pending)]
    BY <1>3, <1>7, <1>9, SeenIsNext
  <2>2. QED
    BY <1>7, <2>1
<1>10. CASE Open
  <2>1. /\ shown = Nobody /\ shown' = issued + 1 /\ fence' = 0
        /\ pending' = <<>> /\ buffer' = <<>> /\ UNCHANGED <<switching, listening>>
    BY <1>10 DEF Open
  <2>2. ScreenTypes'
    BY <1>3, <1>4, <1>5, <1>6, <2>1 DEF ScreenTypes
  <2>3. ListenInv'
    BY <1>1, <2>1 DEF ListenInv
  <2>4. FenceInv'
    <3>1. \A p \in 1..Len(channel) : channel[p].ts \in Nat /\ channel[p].ts >= 0
      BY <1>6, LineIs
    <3>2. \A i \in Calls : stamp[i] >= 0
      BY <1>6, LogTerminalAssumption
    <3>3. QED
      BY <1>3, <2>1, <3>1, <3>2 DEF FenceInv
  <2>5. Len(buffer) + Len(pending) \in Nat
    BY <1>7
  <2>6. /\ Len(Seen) = Len(Seen') + (Len(buffer) + Len(pending))
        /\ \A p \in 1..Len(Seen') : Seen'[p] = Seen[p + (Len(buffer) + Len(pending))]
    BY <1>8, <2>1, <2>2
  <2>7. QED
    BY <1>2, <1>3, <2>1, <2>2, <2>3, <2>4, <2>5, <2>6, CommandKeeps
<1>11. CASE Close
  <2>1. /\ shown' = Nobody /\ fence' = 0 /\ listening' = FALSE /\ ~switching
        /\ pending' = <<>> /\ buffer' = <<>> /\ UNCHANGED switching
    BY <1>11 DEF Close
  <2>2. ScreenTypes'
    <3>1. shown' \in 0..MaxCalls /\ shown' <= issued' /\ 0 <= now
      BY <1>4, <1>5, <1>6, <2>1 DEF Nobody
    <3>2. QED
      BY <1>3, <1>6, <2>1, <3>1 DEF ScreenTypes
  <2>3. ListenInv'
    BY <2>1 DEF ListenInv
  <2>4. FenceInv'
    <3>1. \A p \in 1..Len(channel) : channel[p].ts \in Nat /\ channel[p].ts >= 0
      BY <1>6, LineIs
    <3>2. \A i \in Calls : stamp[i] >= 0
      BY <1>6, LogTerminalAssumption
    <3>3. QED
      BY <1>3, <2>1, <3>1, <3>2 DEF FenceInv
  <2>5. Len(buffer) + Len(pending) \in Nat
    BY <1>7
  <2>6. /\ Len(Seen) = Len(Seen') + (Len(buffer) + Len(pending))
        /\ \A p \in 1..Len(Seen') : Seen'[p] = Seen[p + (Len(buffer) + Len(pending))]
    BY <1>8, <2>1, <2>2
  <2>7. QED
    BY <1>2, <1>3, <2>1, <2>2, <2>3, <2>4, <2>5, <2>6, CommandKeeps
<1>12. CASE SwitchCleansUp
  <2>1. /\ fence' = now /\ buffer' = <<>> /\ switching' = TRUE /\ shown # Nobody
        /\ UNCHANGED <<shown, listening, pending>>
    BY <1>12 DEF SwitchCleansUp
  <2>2. ScreenTypes'
    BY <1>3, <1>4, <1>5, <1>6, <2>1, LogTerminalAssumption DEF ScreenTypes
  <2>3. ListenInv' /\ FenceInv'
    BY <1>1, <2>1 DEF ListenInv, FenceInv
  <2>4. /\ Len(Seen) = Len(Seen') + Len(buffer)
        /\ \A p \in 1..Len(Seen') : Seen'[p] = Seen[p + Len(buffer)]
    BY <1>9, <2>1, <2>2
  <2>5. QED
    BY <1>2, <1>3, <1>7, <2>1, <2>2, <2>3, <2>4, CommandKeeps
<1>13. CASE SwitchStarts
  <2>1. /\ switching /\ switching' = FALSE /\ shown' = issued + 1
        /\ UNCHANGED <<listening, fence, pending, buffer>>
    BY <1>13 DEF SwitchStarts, lines
  <2>2. ScreenTypes'
    <3>1. shown' \in 0..MaxCalls /\ shown' <= issued'
      BY <1>4, <1>5, <2>1
    <3>2. QED
      BY <1>3, <1>6, <2>1, <3>1 DEF ScreenTypes
  <2>3. shown' = issued' /\ shown' # Nobody
    BY <1>4, <1>5, <2>1 DEF Nobody
  <2>4. ListenInv'
    BY <1>1, <2>1, <2>3 DEF ListenInv
  <2>5. FenceInv'
    <3>1. Said(channel)
      <4>1. ASSUME NEW p \in 1..Len(channel)
            PROVE  \E q \in 1..Len(Seen) : Seen[q] = channel[p]
        <5>1. /\ p + Len(buffer) + Len(pending) \in 1..Len(Seen)
              /\ ~(p + Len(buffer) + Len(pending) <= Len(buffer))
              /\ ~(p + Len(buffer) + Len(pending) <= Len(buffer) + Len(pending))
              /\ (p + Len(buffer) + Len(pending)) - Len(buffer) - Len(pending) = p
          BY <1>7
        <5>2. QED
          BY <1>7, <5>1
      <4>2. QED
        BY <4>1 DEF TInv, SeenInv, Said
    <3>2. \A p \in 1..Len(channel) : channel[p].stream # shown'
      BY <1>4, <2>3, <3>1 DEF Said
    <3>3. QED
      BY <1>3, <1>4, <2>3, <3>2 DEF FenceInv
  <2>6. /\ Len(Seen) = Len(Seen') + 0
        /\ \A p \in 1..Len(Seen') : Seen'[p] = Seen[p + 0]
    BY <1>3, <1>7, <2>1 DEF Seen
  <2>7. QED
    BY <1>2, <1>3, <2>1, <2>2, <2>4, <2>5, <2>6, CommandKeeps
<1>14. QED
  BY <1>10, <1>11, <1>12, <1>13

\* A line arrives: it is received or dropped.
LEMMA DeliverKeeps == ASSUME TInv, Deliver PROVE TInv'
<1>1. LInv /\ ScreenTypes /\ ListenInv /\ FenceInv
  BY DEF TInv
<1>2. /\ channel # <<>> /\ ~switching /\ channel' = Tail(channel)
      /\ pending' = IF listening /\ Head(channel).ts >= fence
                    THEN Append(pending, Head(channel)) ELSE pending
      /\ UNCHANGED <<vars, shown, switching, listening, fence, now, stamp, buffer>>
  BY DEF Deliver, screen
<1>3. /\ UNCHANGED <<issued, task, events>>
      /\ LInv'
  <2>1. [Next]_vars
    BY <1>2
  <2>2. QED
    BY <1>1, <1>2, <2>1, NextKeeps DEF vars, callVars, taskVars
<1>4. channel \in Seq(Line) /\ pending \in Seq(Line) /\ buffer \in Seq(Line)
  BY <1>1 DEF ScreenTypes
<1> DEFINE line == Head(channel)
<1>5. /\ line \in Line /\ line = channel[1] /\ Tail(channel) \in Seq(Line)
      /\ Len(channel) \in Nat /\ Len(channel) >= 1
      /\ Len(channel') = Len(channel) - 1
      /\ \A p \in 1..Len(channel') : channel'[p] = channel[p + 1]
  BY <1>2, <1>4, HeadTailProperties, EmptySeq
<1> HIDE DEF line
<1>6. /\ Append(pending, line) \in Seq(Line) /\ Len(pending) \in Nat
      /\ Len(Append(pending, line)) = Len(pending) + 1
      /\ \A p \in 1..Len(pending) : Append(pending, line)[p] = pending[p]
      /\ Append(pending, line)[Len(pending) + 1] = line
  BY <1>4, <1>5, AppendProperties
<1>7. pending' = IF listening /\ line.ts >= fence THEN Append(pending, line) ELSE pending
  BY <1>2 DEF line
<1>8. ScreenTypes'
  BY <1>1, <1>2, <1>3, <1>4, <1>5, <1>6, <1>7 DEF ScreenTypes
<1>9. ListenInv'
  BY <1>1, <1>2, <1>7 DEF ListenInv
<1>10. FenceInv'
  <2>1. /\ \A p \in 1..Len(channel) : channel[p].stream = shown => channel[p].ts >= fence
        /\ \A i \in Calls : i = shown /\ task[i] \in {"awaiting", "emitting"} =>
              stamp[i] >= fence
    BY <1>1, <1>2 DEF FenceInv
  <2>2. \A p \in 1..Len(channel') : channel'[p].stream = shown => channel'[p].ts >= fence
    BY <1>5, <2>1
  <2>3. QED
    BY <1>2, <1>3, <2>1, <2>2 DEF FenceInv
<1>11. line.stream = shown => line.ts >= fence
  BY <1>1, <1>2, <1>5 DEF FenceInv
<1>12. /\ Seen \in Seq(Line) /\ Len(buffer) \in Nat
       /\ Len(Seen) = Len(buffer) + Len(pending) + Len(channel)
       /\ \A p \in 1..Len(Seen) :
             Seen[p] = IF p <= Len(buffer) THEN buffer[p]
                       ELSE IF p <= Len(buffer) + Len(pending) THEN pending[p - Len(buffer)]
                       ELSE channel[p - Len(buffer) - Len(pending)]
  BY <1>1, SeenIs
<1>13. /\ Seen' \in Seq(Line) /\ Len(Seen') \in Nat
       /\ Len(Seen') = Len(buffer) + Len(pending') + Len(channel')
       /\ \A p \in 1..Len(Seen') :
             Seen'[p] = IF p <= Len(buffer) THEN buffer[p]
                        ELSE IF p <= Len(buffer) + Len(pending') THEN pending'[p - Len(buffer)]
                        ELSE channel'[p - Len(buffer) - Len(pending')]
  <2>1. buffer' = buffer
    BY <1>2
  <2>2. Len(buffer') + Len(pending') + Len(channel') \in Nat
    BY <1>8, SeenIsNext
  <2>3. QED
    BY <1>8, <2>1, <2>2, SeenIsNext
<1>14. Ordered(Seen) /\ Said(Seen) /\ Unbroken(Seen, shown, events[shown])
  BY DEF TInv, SeenInv
<1> DEFINE j == Len(buffer) + Len(pending) + 1
<1>15. j \in 1..Len(Seen) /\ Seen[j] = line
  <2>1. /\ j \in 1..Len(Seen) /\ ~(j <= Len(buffer)) /\ ~(j <= Len(buffer) + Len(pending))
        /\ j - Len(buffer) - Len(pending) = 1
    BY <1>5, <1>6, <1>12
  <2>2. QED
    BY <1>5, <1>12, <2>1
<1>16. CASE listening /\ line.ts >= fence
  <2>1. Len(Seen') = Len(Seen)
    BY <1>5, <1>6, <1>7, <1>12, <1>13, <1>16
  <2>2. ASSUME NEW p \in 1..Len(Seen)
        PROVE  Seen'[p] = Seen[p]
    <3>1. p \in 1..Len(Seen') /\ pending' = Append(pending, line)
      BY <1>7, <1>16, <2>1
    <3>2. CASE p <= Len(buffer)
      BY <1>12, <1>13, <3>1, <3>2
    <3>3. CASE ~(p <= Len(buffer)) /\ p <= Len(buffer) + Len(pending)
      <4>1. p - Len(buffer) \in 1..Len(pending) /\ p <= Len(buffer) + Len(pending')
        BY <1>6, <1>12, <3>1, <3>3
      <4>2. QED
        BY <1>6, <1>12, <1>13, <3>1, <3>3, <4>1
    <3>4. CASE p = j
      <4>1. /\ p - Len(buffer) = Len(pending) + 1 /\ p <= Len(buffer) + Len(pending')
            /\ ~(p <= Len(buffer))
        BY <1>6, <1>12, <3>1, <3>4
      <4>2. QED
        BY <1>6, <1>13, <1>15, <3>1, <3>4, <4>1
    <3>5. CASE p > j
      <4>1. /\ ~(p <= Len(buffer)) /\ ~(p <= Len(buffer) + Len(pending))
            /\ ~(p <= Len(buffer) + Len(pending'))
            /\ p - Len(buffer) - Len(pending') \in 1..Len(channel')
            /\ (p - Len(buffer) - Len(pending')) + 1 = p - Len(buffer) - Len(pending)
        BY <1>5, <1>6, <1>12, <3>1, <3>5
      <4>2. QED
        BY <1>5, <1>12, <1>13, <3>1, <4>1
    <3>6. QED
      BY <1>6, <1>12, <3>2, <3>3, <3>4, <3>5
  <2>3. Ordered(Seen')
    BY <1>14, <2>1, <2>2 DEF Ordered
  <2>4. Said(Seen)'
    BY <1>3, <1>14, <2>1, <2>2 DEF Said
  <2>5. Unbroken(Seen, shown, events[shown])'
    <3>1. Unbroken(Seen', shown, events[shown])
      <4>1. \A p \in 1..Len(Seen) : \A q \in (p + 1)..Len(Seen) : q \in 1..Len(Seen)
        BY <1>12
      <4>2. QED
        BY <1>14, <2>1, <2>2, <4>1 DEF Unbroken
    <3>2. QED
      BY <1>2, <1>3, <3>1 DEF Unbroken
  <2>6. QED
    BY <1>3, <1>8, <1>9, <1>10, <2>3, <2>4, <2>5 DEF TInv, SeenInv, Ordered
<1>17. CASE ~(listening /\ line.ts >= fence)
  <2>1. pending' = pending /\ Len(Seen) = Len(Seen') + 1
    BY <1>5, <1>6, <1>7, <1>12, <1>13, <1>17
  <2>2. ASSUME NEW p \in 1..Len(Seen')
        PROVE  Seen'[p] = IF p < j THEN Seen[p] ELSE Seen[p + 1]
    <3>1. p \in 1..Len(Seen) /\ p + 1 \in 1..Len(Seen)
      BY <1>12, <1>13, <2>1
    <3>2. CASE p < j
      <4>1. p <= Len(buffer) + Len(pending)
        BY <1>6, <1>12, <3>1, <3>2
      <4>2. QED
        BY <1>12, <1>13, <2>1, <3>1, <3>2, <4>1
    <3>3. CASE ~(p < j)
      <4>1. /\ ~(p <= Len(buffer)) /\ ~(p <= Len(buffer) + Len(pending))
            /\ ~(p + 1 <= Len(buffer)) /\ ~(p + 1 <= Len(buffer) + Len(pending))
            /\ p - Len(buffer) - Len(pending) \in 1..Len(channel')
            /\ (p - Len(buffer) - Len(pending)) + 1 = (p + 1) - Len(buffer) - Len(pending)
        BY <1>5, <1>6, <1>12, <1>13, <2>1, <3>1, <3>3
      <4>2. QED
        BY <1>5, <1>12, <1>13, <2>1, <3>1, <3>3, <4>1
    <3>4. QED
      BY <3>2, <3>3
  <2>3. Said(Seen)'
    <3>1. \A p \in 1..Len(Seen') : \E q \in 1..Len(Seen) : Seen'[p] = Seen[q]
      <4>1. \A p \in 1..Len(Seen') : p \in 1..Len(Seen) /\ p + 1 \in 1..Len(Seen)
        BY <1>12, <1>13, <2>1
      <4>2. QED
        BY <2>2, <4>1
    <3>2. QED
      BY <1>3, <1>14, <3>1 DEF Said
  <2>4. CASE line.stream = shown
    <3>1. ~listening
      BY <1>11, <1>17, <2>4
    <3>2. buffer = <<>> /\ pending = <<>> /\ Len(buffer) = 0 /\ Len(pending) = 0
      BY <1>1, <3>1 DEF ListenInv
    <3>3. \A p \in 1..Len(Seen') : Seen'[p] = Seen[p + 1]
      BY <1>13, <2>2, <3>2
    <3>4. Ordered(Seen') /\ Unbroken(Seen', shown, events[shown])
      BY <1>12, <1>13, <1>14, <2>1, <3>3, PrefixDropped
    <3>5. Unbroken(Seen, shown, events[shown])'
      BY <1>2, <1>3, <3>4 DEF Unbroken
    <3>6. QED
      BY <1>3, <1>8, <1>9, <1>10, <2>3, <3>4, <3>5 DEF TInv, SeenInv, Ordered
  <2>5. CASE line.stream # shown
    <3> HIDE DEF j
    <3>1. Ordered(Seen') /\ Unbroken(Seen', shown, events[shown])
      BY <1>12, <1>13, <1>14, <1>15, <2>1, <2>2, <2>5, OneSkipped
    <3>2. Unbroken(Seen, shown, events[shown])'
      BY <1>2, <1>3, <3>1 DEF Unbroken
    <3>3. QED
      BY <1>3, <1>8, <1>9, <1>10, <2>3, <3>1, <3>2 DEF TInv, SeenInv, Ordered
  <2>6. QED
    BY <2>4, <2>5
<1>18. QED
  BY <1>16, <1>17

LEMMA TrimIs ==
    ASSUME NEW s \in Seq(Line)
    PROVE  /\ Trim(s) \in Seq(Line) /\ Len(s) - Len(Trim(s)) \in Nat
           /\ \A p \in 1..Len(Trim(s)) : Trim(s)[p] = s[p + (Len(s) - Len(Trim(s)))]
<1>1. RingSize \in Nat /\ Slack \in Nat /\ Len(s) \in Nat
  BY LogTerminalAssumption
<1>2. CASE Len(s) > RingSize + Slack
  <2> DEFINE a == Len(s) - RingSize + 1
  <2>1. a \in Int /\ Len(s) \in Int /\ a >= 1
    BY <1>1, <1>2
  <2>2. Trim(s) = SubSeq(s, a, Len(s))
    BY <1>2 DEF Trim
  <2>3. \A i \in a..Len(s) : s[i] \in Line
    BY <1>1, <2>1, ElementOfSeq
  <2> HIDE DEF a
  <2>4. /\ SubSeq(s, a, Len(s)) \in Seq(Line)
        /\ Len(SubSeq(s, a, Len(s))) = IF a <= Len(s) THEN Len(s) - a + 1 ELSE 0
        /\ \A i \in 1..(Len(s) - a + 1) : SubSeq(s, a, Len(s))[i] = s[a + i - 1]
    BY <2>1, <2>3, SubSeqProperties
  <2>5. Len(Trim(s)) = RingSize
    BY <1>1, <1>2, <2>2, <2>4 DEF a
  <2>6. Len(s) - a + 1 = RingSize /\ a = Len(s) - RingSize + 1
    BY <1>1 DEF a
  <2>7. Len(s) - Len(Trim(s)) \in Nat
    BY <1>1, <1>2, <2>5
  <2>8. ASSUME NEW p \in 1..Len(Trim(s))
        PROVE  Trim(s)[p] = s[p + (Len(s) - Len(Trim(s)))]
    <3>1. p \in 1..(Len(s) - a + 1) /\ a + p - 1 = p + (Len(s) - Len(Trim(s)))
      BY <1>1, <2>5, <2>6
    <3>2. QED
      BY <2>2, <2>4, <3>1
  <2>9. QED
    BY <2>2, <2>4, <2>7, <2>8
<1>3. CASE ~(Len(s) > RingSize + Slack)
  <2>1. Trim(s) = s
    BY <1>3 DEF Trim
  <2>2. QED
    BY <1>1, <2>1
<1>4. QED
  BY <1>2, <1>3

\* What is pending goes on screen, and the oldest lines go.
LEMMA FlushKeeps == ASSUME TInv, Flush PROVE TInv'
<1>1. LInv /\ ScreenTypes /\ ListenInv /\ FenceInv
  BY DEF TInv
<1>2. /\ pending # <<>> /\ buffer' = Trim(buffer \o pending) /\ pending' = <<>>
      /\ UNCHANGED <<vars, shown, switching, listening, fence, now, stamp, channel>>
  BY DEF Flush, screen
<1>3. /\ UNCHANGED <<issued, task, events>>
      /\ LInv'
  <2>1. [Next]_vars
    BY <1>2
  <2>2. QED
    BY <1>1, <1>2, <2>1, NextKeeps DEF vars, callVars, taskVars
<1>4. channel \in Seq(Line) /\ pending \in Seq(Line) /\ buffer \in Seq(Line)
  BY <1>1 DEF ScreenTypes
<1> DEFINE all == buffer \o pending
<1>5. /\ all \in Seq(Line) /\ Len(all) = Len(buffer) + Len(pending)
      /\ \A p \in 1..Len(buffer) + Len(pending) :
            all[p] = IF p <= Len(buffer) THEN buffer[p] ELSE pending[p - Len(buffer)]
  BY <1>4, ConcatProperties
<1> DEFINE d == Len(all) - Len(Trim(all))
<1>6. /\ buffer' = Trim(all) /\ Trim(all) \in Seq(Line) /\ d \in Nat
      /\ \A p \in 1..Len(Trim(all)) : Trim(all)[p] = all[p + d]
  BY <1>2, <1>5, TrimIs
<1>7. ScreenTypes'
  BY <1>1, <1>2, <1>3, <1>6 DEF ScreenTypes
<1>8. ListenInv' /\ FenceInv'
  BY <1>1, <1>2, <1>3 DEF ListenInv, FenceInv
<1>9. /\ Seen \in Seq(Line) /\ Len(buffer) \in Nat /\ Len(pending) \in Nat
      /\ Len(channel) \in Nat
      /\ Len(Seen) = Len(buffer) + Len(pending) + Len(channel)
      /\ \A p \in 1..Len(Seen) :
            Seen[p] = IF p <= Len(buffer) THEN buffer[p]
                      ELSE IF p <= Len(buffer) + Len(pending) THEN pending[p - Len(buffer)]
                      ELSE channel[p - Len(buffer) - Len(pending)]
  BY <1>1, SeenIs
<1>10. /\ Seen' \in Seq(Line) /\ Len(buffer') \in Nat /\ Len(pending') = 0
       /\ Len(Seen') = Len(buffer') + Len(channel)
       /\ \A p \in 1..Len(Seen') :
             Seen'[p] = IF p <= Len(buffer') THEN buffer'[p]
                        ELSE channel[p - Len(buffer')]
  <2>1. Len(pending') = 0
    BY <1>2
  <2>2. QED
    BY <1>2, <1>7, <2>1, SeenIsNext
<1> HIDE DEF all
<1>11. Len(buffer') = Len(all) - d /\ d <= Len(all) /\ Len(all) \in Nat
  BY <1>5, <1>6, <1>9, <1>10
<1>12. \A p \in 1..Len(buffer') : buffer'[p] = all[p + d]
  BY <1>6
<1> HIDE DEF d
<1>13. Len(Seen) = Len(Seen') + d
  BY <1>5, <1>6, <1>9, <1>10, <1>11
<1>14. ASSUME NEW q \in 1..Len(Seen), q <= Len(buffer) + Len(pending)
        PROVE  Seen[q] = all[q]
  <2>1. q \in 1..(Len(buffer) + Len(pending))
    BY <1>9, <1>14
  <2>2. QED
    BY <1>5, <1>9, <1>14, <2>1
<1>15. ASSUME NEW q \in 1..Len(Seen), ~(q <= Len(buffer) + Len(pending))
        PROVE  Seen[q] = channel[q - Len(buffer) - Len(pending)]
  BY <1>9, <1>15
<1>16. ASSUME NEW p \in 1..Len(Seen')
       PROVE  Seen'[p] = Seen[p + d]
  <2>1. p + d \in 1..Len(Seen)
    BY <1>6, <1>9, <1>10, <1>13
  <2>2. CASE p <= Len(buffer')
    <3>1. p \in 1..Len(buffer') /\ p + d <= Len(buffer) + Len(pending)
      BY <1>5, <1>6, <1>9, <1>10, <1>11, <2>2
    <3>2. Seen'[p] = all[p + d]
      BY <1>10, <1>12, <2>2, <3>1
    <3>3. QED
      BY <1>14, <2>1, <3>1, <3>2
  <2>3. CASE ~(p <= Len(buffer'))
    <3>1. /\ ~(p + d <= Len(buffer)) /\ ~(p + d <= Len(buffer) + Len(pending))
          /\ p - Len(buffer') = (p + d) - Len(buffer) - Len(pending)
      BY <1>5, <1>6, <1>9, <1>10, <1>11, <2>3
    <3>2. Seen[p + d] = channel[(p + d) - Len(buffer) - Len(pending)]
      BY <1>15, <2>1, <3>1
    <3>3. Seen'[p] = channel[p - Len(buffer')]
      BY <1>10, <2>3
    <3>4. QED
      BY <3>1, <3>2, <3>3
  <2>4. QED
    BY <2>2, <2>3
<1>17. Ordered(Seen) /\ Said(Seen) /\ Unbroken(Seen, shown, events[shown])
  BY DEF TInv, SeenInv
<1>18. Ordered(Seen') /\ Unbroken(Seen', shown, events[shown])
  BY <1>6, <1>9, <1>10, <1>13, <1>16, <1>17, PrefixDropped
<1>19. Said(Seen)'
  <2>1. \A p \in 1..Len(Seen') : p + d \in 1..Len(Seen)
    BY <1>6, <1>9, <1>10, <1>13
  <2>2. QED
    BY <1>3, <1>16, <1>17, <2>1 DEF Said
<1>20. Unbroken(Seen, shown, events[shown])'
  BY <1>2, <1>3, <1>18 DEF Unbroken
<1>21. QED
  BY <1>3, <1>7, <1>8, <1>18, <1>19, <1>20 DEF TInv, SeenInv, Ordered

LEMMA ClockAndListenerKeep ==
    ASSUME TInv, Tick \/ StartsListening \/ UNCHANGED allVars
    PROVE  TInv'
<1>1. LInv /\ ScreenTypes /\ ListenInv /\ FenceInv
  BY DEF TInv
<1>2. UNCHANGED <<vars, shown, switching, fence, stamp, channel, pending, buffer>>
  BY DEF Tick, StartsListening, allVars, terminalVars, screen, lines
<1>3. UNCHANGED <<issued, task, events>> /\ LInv'
  <2>1. [Next]_vars
    BY <1>2
  <2>2. QED
    BY <1>1, <1>2, <2>1, NextKeeps DEF vars, callVars, taskVars
<1>4. /\ now \in 0..MaxTime /\ stamp \in [Calls -> 0..MaxTime] /\ listening \in BOOLEAN
  BY <1>1 DEF ScreenTypes
<1>5. now' \in 0..MaxTime /\ now <= now'
  <2>1. \/ now < MaxTime /\ now' = now + 1
        \/ now' = now
    BY DEF Tick, StartsListening, allVars, terminalVars
  <2>2. QED
    BY <1>4, <2>1, LogTerminalAssumption
<1>6. listening' \in BOOLEAN /\ ListenInv'
  <2>1. CASE listening' = TRUE /\ shown # Nobody
    <3>1. listening' \in BOOLEAN
      BY <2>1
    <3>2. shown' # Nobody /\ listening'
      BY <1>2, <2>1
    <3>3. QED
      BY <3>1, <3>2 DEF ListenInv
  <2>2. CASE listening' = listening
    <3>1. UNCHANGED <<shown, switching, listening, pending, buffer>>
      BY <1>2, <2>2
    <3>2. QED
      BY <1>1, <1>4, <3>1 DEF ListenInv
  <2>3. QED
    BY <2>1, <2>2 DEF Tick, StartsListening, allVars, terminalVars, screen
<1>7. ~switching => \A i \in Calls : i = shown /\ task'[i] \in {"awaiting", "emitting"} =>
         stamp'[i] >= fence
  BY <1>1, <1>2, <1>3 DEF FenceInv
<1>8. stamp' \in [Calls -> 0..MaxTime] /\ \A i \in Calls : task[i] # "none" => task'[i] # "none"
  BY <1>2, <1>3, <1>4
<1>9. QED
  BY <1>2, <1>3, <1>5, <1>6, <1>7, <1>8, LinesStay

LEMMA TermStep == TInv /\ [TerminalNext]_allVars => TInv'
<1> SUFFICES ASSUME TInv, [TerminalNext]_allVars PROVE TInv'
  OBVIOUS
<1>1. CASE Open \/ SwitchCleansUp \/ SwitchStarts \/ Close
  BY <1>1, CommandsKeep
<1>2. CASE Tick \/ StartsListening \/ UNCHANGED allVars
  BY <1>2, ClockAndListenerKeep
<1>3. CASE \E c \in Calls : Awaits(c) \/ LineComes(c) \/ BackEnd(c)
  BY <1>3, BackEndKeeps
<1>4. CASE \E c \in Calls : EmitsLine(c)
  BY <1>4, EmitsLineKeeps
<1>5. QED
  BY <1>1, <1>2, <1>3, <1>4, DeliverKeeps, FlushKeeps DEF TerminalNext

\* The inductive invariant of the terminal on top of its streams holds
\* throughout.
THEOREM TerminalInvariance == TerminalSpec => []TInv
<1>1. QED
  BY TermStart, TermStep, PTL DEF TerminalSpec

\* However the lines of several streams mix, the terminal shows an unbroken
\* and ordered end of what its own has said (LogTerminal.tsx:95-150).
THEOREM TerminalIsFaithful == TerminalSpec => []ShownFaithfully
<1>1. TInv => ShownFaithfully
  BY DEF TInv, SeenInv, Ordered, Unbroken, ShownFaithfully, ShownInOrder, NoGap
<1>2. QED
  BY <1>1, TerminalInvariance, PTL

\* The terminal's parts hold what they are meant to; time stamps are readings
\* of the clock (LogTerminal.tsx:95-150).
THEOREM TypesOfTerminal == TerminalSpec => []TerminalTypeOK
<1>1. TInv => TerminalTypeOK
  BY DEF TInv, ScreenTypes, LInv, TerminalTypeOK
<1>2. QED
  BY <1>1, TerminalInvariance, PTL
=============================================================================
