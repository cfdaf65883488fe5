----------------------------- MODULE SampleFate -----------------------------
(***************************************************************************)
(* What the sample pipeline promises about each sample a scheduler sends:  *)
(* it is stored or it is lost, once and for good, and samples are stored   *)
(* in the order they were sent.  Pipeline.tla implements it.               *)
(***************************************************************************)
EXTENDS Naturals

CONSTANT MaxSamples

VARIABLE fate      \* [1..MaxSamples -> "unsent", "pending", "stored", "lost"]

Samples == 1..MaxSamples

Init == fate = [i \in Samples |-> "unsent"]

Send(i) ==
    /\ fate[i] = "unsent"
    /\ \A j \in Samples : j < i => fate[j] # "unsent"
    /\ fate' = [fate EXCEPT ![i] = "pending"]

Lose(S) ==
    /\ \A i \in S : fate[i] = "pending"
    /\ fate' = [i \in Samples |-> IF i \in S THEN "lost" ELSE fate[i]]

\* Nothing sent before a sample that is being stored is still undecided.
Store(S) ==
    /\ \A i \in S : fate[i] = "pending"
    /\ \A i \in S, j \in Samples \ S : j < i => fate[j] \in {"stored", "lost"}
    /\ fate' = [i \in Samples |-> IF i \in S THEN "stored" ELSE fate[i]]

Next ==
    \/ \E i \in Samples : Send(i)
    \/ \E S \in SUBSET Samples : Lose(S) \/ Store(S)

Spec == Init /\ [][Next]_fate
=============================================================================
