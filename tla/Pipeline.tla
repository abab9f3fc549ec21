------------------------------ MODULE Pipeline ------------------------------
(***************************************************************************)
(* What a policy that generates ahead promises, without its processes: the *)
(* rollout runs ahead of the training by at most MaxAhead samples, a sample*)
(* is given to it once or dropped, and each parameter version is trained on*)
(* SamplesPerSync samples (README.md of recipe/fully_async_policy,         *)
(* staleness_threshold).                                                   *)
(***************************************************************************)
EXTENDS Integers, FiniteSets

CONSTANTS Samples, MaxAhead, SamplesPerSync

VARIABLES phase,    \* phase[s]: "waiting", "ahead" of the training, "given" to it, "dropped"
          version   \* the trainer's parameter version

In(p) == {s \in Samples : phase[s] = p}

Init == /\ phase = [s \in Samples |-> "waiting"]
        /\ version = 0

Begin(s) == /\ phase[s] = "waiting"
            /\ Cardinality(In("ahead")) < MaxAhead
            /\ phase' = [phase EXCEPT ![s] = "ahead"]
            /\ UNCHANGED version

Give(s) == /\ phase[s] = "ahead"
           /\ phase' = [phase EXCEPT ![s] = "given"]
           /\ UNCHANGED version

\* The queue between them is full.
Drop(s) == /\ phase[s] = "ahead"
           /\ phase' = [phase EXCEPT ![s] = "dropped"]
           /\ UNCHANGED version

\* A version for every SamplesPerSync samples, and one for what is left over.
Update == /\ version' = version + 1
          /\ \/ SamplesPerSync * version' <= Cardinality(In("given"))
             \/ In("waiting") \union In("ahead") = {} /\ SamplesPerSync * version <= Cardinality(Samples)
          /\ UNCHANGED phase

Next == Update \/ \E s \in Samples : Begin(s) \/ Give(s) \/ Drop(s)

Spec == Init /\ [][Next]_<<phase, version>>
=============================================================================
