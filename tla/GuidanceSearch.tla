--------------------------- MODULE GuidanceSearch ---------------------------
(***************************************************************************)
(* AdaptiveGuidanceSearcher.search: how many of its known actions a prompt *)
(* must give away before the agent succeeds.  All samples of the batch it  *)
(* is called with are bisected together; a probe step runs that batch      *)
(* probe_rollouts times, every open sample with the hints of its midpoint. *)
(***************************************************************************)
EXTENDS Integers, FiniteSets

CONSTANTS Samples,
          Actions,          \* len(all_actions) of each sample
          MaxLength,        \* no list is longer
          MaxProbeSteps, ProbeRollouts, Offset

ASSUME GuidanceAssumption ==
  /\ MaxLength \in Nat /\ Actions \in [Samples -> 0 .. MaxLength]
  /\ MaxProbeSteps \in Nat /\ ProbeRollouts \in Nat \ {0} /\ Offset \in Int

VARIABLES batch,    \* gen_batch, the samples search is called with; none before
          lo, hi, step, rollout, success, optimal
\* The policy under training: with fewer than possible[s] hints it always
\* fails on s, with sure[s] or more it always succeeds, in between both happen.
VARIABLES possible, sure
\* History: the lengths at which a sample has failed a step or passed a rollout.
VARIABLES failed, passed

policyVars  == <<possible, sure>>
historyVars == <<failed, passed>>
boundVars == <<lo, hi, step, rollout, success, optimal>>
vars == <<batch, boundVars, policyVars, historyVars>>

Unset == -1

\* Before the call.
Fresh ==
  /\ lo = [s \in Samples |-> 0] /\ hi = Actions
  /\ step = 0 /\ rollout = 0 /\ success = {}
  /\ optimal = [s \in Samples |-> Unset]
  /\ possible \in [Samples -> 0 .. MaxLength] /\ sure \in [Samples -> 0 .. MaxLength + 1]
  /\ \A s \in Samples : possible[s] <= sure[s] /\ sure[s] <= Actions[s] + 1
  /\ failed = [s \in Samples |-> {}] /\ passed = [s \in Samples |-> {}]

Init == Fresh /\ batch = Samples

Active == {s \in batch : lo[s] < hi[s]}

Middle(s) == (lo[s] + hi[s]) \div 2

Returned == \E s \in Samples : optimal[s] /= Unset
Searching == ~Returned /\ step < MaxProbeSteps /\ Active /= {}

\* reward_success |= rewards > reward_success_threshold
AnySuccess(won) == success \union won

\* One rollout of the batch.
Probe ==
  /\ Searching /\ rollout < ProbeRollouts
  /\ \E won \in SUBSET Active :
       /\ \A s \in Active : IF s \in won THEN Middle(s) >= possible[s] ELSE Middle(s) < sure[s]
       /\ success' = AnySuccess(won)
       /\ passed' = [s \in Samples |-> IF s \in won THEN passed[s] \union {Middle(s)} ELSE passed[s]]
  /\ rollout' = rollout + 1
  /\ UNCHANGED <<batch, lo, hi, step, optimal, policyVars, failed>>

\* Mutant: a length that has failed stays in the bracket.
AfterFailure_Same(s) == Middle(s)

AfterFailure(s) == Middle(s) + 1

\* Mutant: a length that has passed is not a result any more.
AfterSuccess_Below(s) == Middle(s) - 1

AfterSuccess(s) == Middle(s)

\* Every rollout of the step is in: move the bounds of the open samples.
UpdateBounds ==
  /\ Searching /\ rollout = ProbeRollouts
  /\ hi' = [s \in Samples |-> IF s \in Active /\ s \in success THEN AfterSuccess(s) ELSE hi[s]]
  /\ lo' = [s \in Samples |-> IF s \in Active /\ s \notin success THEN AfterFailure(s) ELSE lo[s]]
  /\ failed' = [s \in Samples |-> IF s \in Active /\ s \notin success
                                    THEN failed[s] \union {Middle(s)} ELSE failed[s]]
  /\ step' = step + 1 /\ rollout' = 0 /\ success' = {}
  /\ UNCHANGED <<batch, optimal, policyVars, passed>>

\* Mutant: the result is not bounded by the number of actions.
WithOffset_Unbounded(s) == IF lo[s] + Offset < 0 THEN 0 ELSE lo[s] + Offset

WithOffset(s) == CASE lo[s] + Offset < 0          -> 0
                   [] lo[s] + Offset > Actions[s] -> Actions[s]
                   [] OTHER                       -> lo[s] + Offset

Return ==
  /\ batch /= {} /\ ~Returned /\ (step = MaxProbeSteps \/ Active = {})
  /\ optimal' = [s \in Samples |-> IF s \in batch THEN WithOffset(s) ELSE Unset]
  /\ UNCHANGED <<batch, lo, hi, step, rollout, success, policyVars, historyVars>>

Done == Returned /\ UNCHANGED vars

Next == Probe \/ UpdateBounds \/ Return \/ Done
Spec == Init /\ [][Next]_vars
-----------------------------------------------------------------------------
\* The bounds of a sample are lengths of its list, in order, and so is the result.
TypeOK ==
  /\ batch \subseteq Samples /\ lo \in [Samples -> Nat] /\ hi \in [Samples -> Nat]
  /\ \A s \in Samples : lo[s] <= hi[s] /\ hi[s] <= Actions[s]
  /\ step \in 0 .. MaxProbeSteps /\ rollout \in 0 .. ProbeRollouts
  /\ success \subseteq Samples
  /\ optimal \in [Samples -> Int]
  /\ \A s \in Samples : optimal[s] = Unset \/ optimal[s] \in 0 .. Actions[s]
  /\ possible \in [Samples -> Nat] /\ sure \in [Samples -> Nat]
  /\ failed \in [Samples -> SUBSET Nat] /\ passed \in [Samples -> SUBSET Nat]

\* A bound moves only for what was seen at that length: all rollouts of a step
\* failed just below lo, at least one succeeded at hi (the whole list excepted,
\* which is never tried), and nothing that succeeded is left outside above hi.
Justified == \A s \in Samples :
  /\ lo[s] = 0 \/ lo[s] - 1 \in failed[s]
  /\ hi[s] = Actions[s] \/ hi[s] \in passed[s]
  /\ \A k \in failed[s] : k < lo[s]
  /\ \A k \in passed[s] : hi[s] <= k \/ s \in success

\* "Uses the monotonicity assumption" (adaptive_guidance.py:189): whatever the
\* rollouts show, the bracket never loses the lengths between the first that may
\* succeed and the first that surely does.
Bracketed == \A s \in Samples :
  /\ lo[s] <= sure[s]
  /\ possible[s] <= hi[s] \/ hi[s] = Actions[s]

\* A result is the offset added, within the list, to a length k with which the
\* sample may succeed (the whole list if there is none), and no length below k
\* surely does.
IsOptimal(s) == \E k \in 0 .. Actions[s] :
  /\ k <= sure[s] /\ (possible[s] <= k \/ k = Actions[s])
  /\ \/ optimal[s] = k + Offset
     \/ k + Offset < 0 /\ optimal[s] = 0
     \/ k + Offset > Actions[s] /\ optimal[s] = Actions[s]

\* What the bisection promises: a sample whose bracket the probe steps have
\* closed gets an optimal length, whatever the others of its batch do.
Optimal == Returned => \A s \in batch : lo[s] = hi[s] => IsOptimal(s)
=============================================================================
