--------------------------- MODULE GuidanceProofs ---------------------------
(***************************************************************************)
(* What the bisection of GuidanceSearch guarantees, for every batch, every *)
(* number of steps and rollouts, and every policy; and what a training     *)
(* step of AdaptiveStep keeps together in its table of rows, in every mode,*)
(* for every size of the batch and every share of the ranks.  The proofs   *)
(* about the step take from GuidedStep that its lists of rows have every   *)
(* row once (ListsComplete): sorting has no definition a prover sees.      *)
(***************************************************************************)
EXTENDS AdaptiveStep, FiniteSetTheorems, SequenceTheorems, TLAPS

USE DEF Unset

(* Within a step: what success stands for while the rollouts come in, and  *)
(* what the result is once it is there.                                    *)
StepInv ==
  /\ success \subseteq Active
  /\ rollout = 0 => success = {}
  /\ batch = {} => rollout = 0
  /\ \A s \in success : Middle(s) \in passed[s] /\ possible[s] <= Middle(s)
  /\ \A s \in Samples : \A k \in passed[s] : hi[s] <= k \/ (s \in success /\ k = Middle(s))
  /\ rollout > 0 => \A s \in Active \ success : Middle(s) < sure[s]
ResultInv == Returned => batch /= {} /\ \A s \in batch : optimal[s] = WithOffset(s)

SearchInv == TypeOK /\ Justified /\ Bracketed /\ StepInv /\ ResultInv

\* The midpoint of an open bracket lies in it, below its upper end.
LEMMA MiddleInside ==
  ASSUME TypeOK, NEW s \in Active
  PROVE  Middle(s) \in Nat /\ lo[s] <= Middle(s) /\ Middle(s) < hi[s]
BY DEF TypeOK, Active, Middle

\* Whatever the search is about to be called with.
LEMMA FreshSearchInv == GuidanceAssumption /\ Fresh /\ batch \subseteq Samples => SearchInv
<1> SUFFICES ASSUME GuidanceAssumption, Fresh, batch \subseteq Samples PROVE SearchInv  OBVIOUS
<1>1. TypeOK     BY DEF GuidanceAssumption, Fresh, TypeOK
<1>2. Justified  BY DEF GuidanceAssumption, Fresh, Justified
<1>3. Bracketed  BY DEF GuidanceAssumption, Fresh, Bracketed
<1>4. StepInv    BY DEF Fresh, StepInv
<1>5. ResultInv  BY DEF Fresh, ResultInv, Returned
<1> QED  BY <1>1, <1>2, <1>3, <1>4, <1>5 DEF SearchInv

LEMMA ProbeKeeps == GuidanceAssumption /\ SearchInv /\ Probe => SearchInv'
<1> SUFFICES ASSUME GuidanceAssumption, SearchInv, Probe PROVE SearchInv'  OBVIOUS
<1> USE DEF SearchInv
<1>1. PICK won \in SUBSET Active :
        /\ \A s \in Active : IF s \in won THEN Middle(s) >= possible[s] ELSE Middle(s) < sure[s]
        /\ success' = AnySuccess(won)
        /\ passed' = [s \in Samples |-> IF s \in won THEN passed[s] \union {Middle(s)} ELSE passed[s]]
  BY DEF Probe
<1>2. UNCHANGED <<batch, lo, hi, step, optimal, possible, sure, failed>> /\ rollout' = rollout + 1
  BY DEF Probe, policyVars
<1>3. Active' = Active /\ \A s \in Samples : Middle(s)' = Middle(s)
  BY <1>2 DEF Active, Middle
<1>4. \A s \in Active : s \in Samples /\ Middle(s) \in Nat
  BY MiddleInside DEF Active, TypeOK
<1>5. TypeOK'
  <2>1. passed' \in [Samples -> SUBSET Nat]  BY <1>1, <1>4 DEF TypeOK
  <2>2. rollout' \in 0 .. ProbeRollouts  BY <1>2 DEF TypeOK, Probe, GuidanceAssumption
  <2>3. success' \subseteq Samples  BY <1>1, <1>4 DEF TypeOK, AnySuccess
  <2> QED  BY <1>2, <2>1, <2>2, <2>3 DEF TypeOK
<1>6. StepInv'
  <2>1. (success \subseteq Active)'  BY <1>1, <1>3 DEF StepInv, AnySuccess
  <2>2. rollout' > 0  BY <1>2 DEF TypeOK
  <2>3. \A s \in success' : Middle(s) \in passed'[s] /\ possible[s] <= Middle(s)
    <3> SUFFICES ASSUME NEW s \in success' PROVE Middle(s) \in passed'[s] /\ possible[s] <= Middle(s)
      OBVIOUS
    <3>1. s \in Samples /\ s \in Active  BY <1>3, <1>4, <2>1
    <3>2. CASE s \in won  BY <1>1, <1>4, <3>1, <3>2 DEF TypeOK
    <3>3. CASE s \notin won  BY <1>1, <3>1, <3>3 DEF StepInv, AnySuccess
    <3> QED  BY <3>2, <3>3
  <2>4. \A s \in Samples : \A k \in passed'[s] : hi[s] <= k \/ (s \in success' /\ k = Middle(s))
    BY <1>1 DEF StepInv, AnySuccess
  <2>5. \A s \in Active \ success' : Middle(s) < sure[s]
    BY <1>1 DEF StepInv, AnySuccess
  <2>6. success' \subseteq Samples  BY <1>5 DEF TypeOK
  <2>7. (\A s \in success : Middle(s) \in passed[s] /\ possible[s] <= Middle(s))'
    BY <1>2, <1>3, <2>3, <2>6
  <2>8. (\A s \in Samples : \A k \in passed[s] : hi[s] <= k \/ (s \in success /\ k = Middle(s)))'
    BY <1>2, <1>3, <2>4
  <2>9. (\A s \in Active \ success : Middle(s) < sure[s])'
    BY <1>2, <1>3, <1>4, <2>5
  <2>10. rollout' /= 0 /\ batch' /= {}
    <3>1. batch /= {}  BY DEF Probe, Searching, Active
    <3> QED  BY <1>2, <2>2, <3>1
  <2> QED  BY <2>1, <2>10, <2>7, <2>8, <2>9 DEF StepInv
<1>7. Justified'
  <2>1. \A s \in Samples : passed[s] \subseteq passed'[s]  BY <1>1 DEF TypeOK
  <2>2. \A s \in Samples : \A k \in passed'[s] : hi'[s] <= k \/ s \in success'
    BY <1>6 DEF StepInv
  <2> QED  BY <1>2, <2>1, <2>2 DEF Justified
<1>8. Bracketed'  BY <1>2 DEF Bracketed
<1>9. ResultInv'  BY <1>2 DEF ResultInv, Returned, WithOffset
<1> QED  BY <1>5, <1>6, <1>7, <1>8, <1>9

LEMMA UpdateKeeps == GuidanceAssumption /\ SearchInv /\ UpdateBounds => SearchInv'
<1> SUFFICES ASSUME GuidanceAssumption, SearchInv, UpdateBounds PROVE SearchInv'  OBVIOUS
<1> USE DEF SearchInv
<1>1. /\ hi' = [s \in Samples |-> IF s \in Active /\ s \in success THEN Middle(s) ELSE hi[s]]
      /\ lo' = [s \in Samples |-> IF s \in Active /\ s \notin success THEN Middle(s) + 1 ELSE lo[s]]
      /\ failed' = [s \in Samples |-> IF s \in Active /\ s \notin success
                                        THEN failed[s] \union {Middle(s)} ELSE failed[s]]
      /\ step' = step + 1 /\ rollout' = 0 /\ success' = {}
      /\ UNCHANGED <<batch, optimal, possible, sure, passed>>
  BY DEF UpdateBounds, AfterSuccess, AfterFailure, policyVars
<1>2. step < MaxProbeSteps /\ ~Returned /\ rollout > 0
  BY DEF UpdateBounds, Searching, GuidanceAssumption
<1>3. \A s \in Active : s \in Samples /\ Middle(s) \in Nat /\ lo[s] <= Middle(s) /\ Middle(s) < hi[s]
  BY MiddleInside DEF Active, TypeOK
<1>4. ASSUME NEW s \in Samples
      PROVE  /\ lo'[s] \in Nat /\ hi'[s] \in Nat /\ failed'[s] \in SUBSET Nat
             /\ lo'[s] <= hi'[s] /\ hi'[s] <= Actions[s]
             /\ lo[s] <= lo'[s] /\ hi'[s] <= hi[s]
  <2>0. /\ lo[s] \in Nat /\ hi[s] \in Nat /\ Actions[s] \in Nat /\ failed[s] \in SUBSET Nat
        /\ lo[s] <= hi[s] /\ hi[s] <= Actions[s]
    BY DEF TypeOK, GuidanceAssumption
  <2>1. CASE s \notin Active  BY <1>1, <2>0, <2>1
  <2>2. CASE s \in Active /\ s \in success  BY <1>1, <1>3, <2>0, <2>2
  <2>3. CASE s \in Active /\ s \notin success  BY <1>1, <1>3, <2>0, <2>3
  <2> QED  BY <2>1, <2>2, <2>3
<1>5. TypeOK'
  <2>1. lo' \in [Samples -> Nat] /\ hi' \in [Samples -> Nat] /\ failed' \in [Samples -> SUBSET Nat]
    <3>1. lo' = [s \in Samples |-> lo'[s]] /\ hi' = [s \in Samples |-> hi'[s]]
          /\ failed' = [s \in Samples |-> failed'[s]]
      BY <1>1
    <3> QED  BY <3>1, <1>4
  <2>2. step' \in 0 .. MaxProbeSteps  BY <1>1, <1>2 DEF TypeOK, GuidanceAssumption
  <2>3. rollout' \in 0 .. ProbeRollouts  BY <1>1 DEF GuidanceAssumption
  <2>4. \A s \in Samples : lo'[s] <= hi'[s] /\ hi'[s] <= Actions[s]  BY <1>4
  <2> QED  BY <1>1, <2>1, <2>2, <2>3, <2>4 DEF TypeOK
<1>6. StepInv'
  <2>1. ASSUME NEW s \in Samples, NEW k \in passed[s] PROVE hi'[s] <= k
    <3>0. k \in Nat /\ hi[s] \in Nat /\ hi'[s] \in Nat  BY <1>4 DEF TypeOK
    <3>1. CASE hi[s] <= k  BY <1>4, <3>0, <3>1
    <3>2. CASE s \in success /\ k = Middle(s)
      <4>1. s \in Active  BY <3>2 DEF StepInv
      <4>2. hi'[s] = Middle(s)  BY <1>1, <3>2, <4>1
      <4> QED  BY <3>0, <3>2, <4>2
    <3> QED  BY <3>1, <3>2 DEF StepInv
  <2> QED  BY <1>1, <2>1 DEF StepInv
<1>7. Justified'
  <2> SUFFICES ASSUME NEW s \in Samples
               PROVE  /\ lo'[s] = 0 \/ lo'[s] - 1 \in failed'[s]
                      /\ hi'[s] = Actions[s] \/ hi'[s] \in passed'[s]
                      /\ \A k \in failed'[s] : k < lo'[s]
                      /\ \A k \in passed'[s] : hi'[s] <= k \/ s \in success'
    BY DEF Justified
  <2>0. lo[s] \in Nat /\ failed[s] \in SUBSET Nat  BY DEF TypeOK
  <2>1. \A k \in passed'[s] : hi'[s] <= k \/ s \in success'  BY <1>6 DEF StepInv
  <2>2. /\ lo[s] = 0 \/ lo[s] - 1 \in failed[s]
        /\ hi[s] = Actions[s] \/ hi[s] \in passed[s]
        /\ \A k \in failed[s] : k < lo[s]
    BY DEF Justified
  <2>3. CASE s \notin Active  BY <1>1, <2>1, <2>2, <2>3
  <2>4. CASE s \in Active /\ s \in success  BY <1>1, <2>1, <2>2, <2>4 DEF StepInv
  <2>5. CASE s \in Active /\ s \notin success
    <3>1. lo'[s] = Middle(s) + 1 /\ failed'[s] = failed[s] \union {Middle(s)} /\ hi'[s] = hi[s]
      BY <1>1, <2>5
    <3>2. Middle(s) \in Nat /\ lo[s] <= Middle(s)  BY <1>3, <2>5
    <3>3. lo'[s] - 1 \in failed'[s]  BY <3>1, <3>2
    <3>4. \A k \in failed'[s] : k < lo'[s]  BY <2>0, <2>2, <3>1, <3>2
    <3> QED  BY <1>1, <2>1, <2>2, <3>1, <3>3, <3>4
  <2> QED  BY <2>3, <2>4, <2>5
<1>8. Bracketed'
  <2> SUFFICES ASSUME NEW s \in Samples
               PROVE  lo'[s] <= sure[s] /\ (possible[s] <= hi'[s] \/ hi'[s] = Actions[s])
    BY <1>1 DEF Bracketed
  <2>0. lo[s] <= sure[s] /\ (possible[s] <= hi[s] \/ hi[s] = Actions[s])  BY DEF Bracketed
  <2>1. CASE s \notin Active  BY <1>1, <2>0, <2>1
  <2>2. CASE s \in Active /\ s \in success  BY <1>1, <2>0, <2>2 DEF StepInv
  <2>3. CASE s \in Active /\ s \notin success
    <3>1. Middle(s) < sure[s] /\ Middle(s) \in Nat /\ sure[s] \in Nat
      BY <1>2, <1>3, <2>3 DEF StepInv, TypeOK
    <3> QED  BY <1>1, <2>0, <2>3, <3>1
  <2> QED  BY <2>1, <2>2, <2>3
<1>9. ResultInv'  BY <1>1, <1>2 DEF ResultInv, Returned
<1> QED  BY <1>5, <1>6, <1>7, <1>8, <1>9

LEMMA ReturnKeeps == GuidanceAssumption /\ SearchInv /\ Return => SearchInv'
<1> SUFFICES ASSUME GuidanceAssumption, SearchInv, Return PROVE SearchInv'  OBVIOUS
<1> USE DEF SearchInv
<1>1. /\ optimal' = [s \in Samples |-> IF s \in batch THEN WithOffset(s) ELSE Unset]
      /\ batch /= {}
      /\ UNCHANGED <<batch, lo, hi, step, rollout, success, possible, sure, failed, passed>>
  BY DEF Return, policyVars, historyVars
<1>2. \A s \in Samples : WithOffset(s) \in 0 .. Actions[s] /\ Actions[s] \in Nat
  BY DEF TypeOK, GuidanceAssumption, WithOffset
<1>3. TypeOK'
  <2>1. optimal' \in [Samples -> Int]  BY <1>1, <1>2
  <2>2. \A s \in Samples : optimal'[s] = Unset \/ optimal'[s] \in 0 .. Actions[s]
    BY <1>1, <1>2
  <2> QED  BY <1>1, <2>1, <2>2 DEF TypeOK
<1>4. Justified' /\ Bracketed'  BY <1>1 DEF Justified, Bracketed
<1>5. StepInv'  BY <1>1 DEF StepInv, Active, Middle
<1>6. ResultInv'  BY <1>1 DEF ResultInv, WithOffset, TypeOK
<1> QED  BY <1>3, <1>4, <1>5, <1>6

LEMMA SearchInvariant == GuidanceAssumption /\ Spec => []SearchInv
<1>1. GuidanceAssumption /\ Init => SearchInv  BY FreshSearchInv DEF Init
<1>2. GuidanceAssumption /\ SearchInv /\ [Next]_vars => SearchInv'
  <2> SUFFICES ASSUME GuidanceAssumption, SearchInv, [Next]_vars PROVE SearchInv'  OBVIOUS
  <2>1. CASE Probe  BY <2>1, ProbeKeeps
  <2>2. CASE UpdateBounds  BY <2>2, UpdateKeeps
  <2>3. CASE Return  BY <2>3, ReturnKeeps
  <2>4. CASE Done \/ UNCHANGED vars
    <3>1. UNCHANGED <<batch, lo, hi, step, rollout, success, optimal, possible, sure, failed, passed>>
      BY <2>4 DEF Done, vars, boundVars, policyVars, historyVars
    <3>2. TypeOK' /\ Justified' /\ Bracketed'
      BY <3>1 DEF SearchInv, TypeOK, Justified, Bracketed
    <3>3. StepInv'  BY <3>1 DEF SearchInv, StepInv, Active, Middle
    <3>4. ResultInv'  BY <3>1 DEF SearchInv, ResultInv, Returned, WithOffset
    <3> QED  BY <3>2, <3>3, <3>4 DEF SearchInv
  <2> QED  BY <2>1, <2>2, <2>3, <2>4 DEF Next
<1> QED  BY <1>1, <1>2, GuidanceAssumption, PTL DEF Spec

\* Bounds and results are lengths of the samples' lists (search, lo/hi/optimal_k).
THEOREM TypeCorrect == Spec => []TypeOK
<1>1. SearchInv => TypeOK  BY DEF SearchInv
<1> QED  BY <1>1, SearchInvariant, GuidanceAssumption, PTL

\* A bound of the bracket never moves but for an outcome seen at that length.
THEOREM JustifiedHolds == Spec => []Justified
<1>1. SearchInv => Justified  BY DEF SearchInv
<1> QED  BY <1>1, SearchInvariant, GuidanceAssumption, PTL

\* Whatever the rollouts show of a monotone policy, the bracket keeps the lengths
\* between the first that may succeed and the first that surely does.
THEOREM BracketedHolds == Spec => []Bracketed
<1>1. SearchInv => Bracketed  BY DEF SearchInv
<1> QED  BY <1>1, SearchInvariant, GuidanceAssumption, PTL

\* A sample whose bracket is closed when the search returns gets an optimal
\* length (optimal_k); with too few probe steps it may be left open.
THEOREM OptimalHolds == Spec => []Optimal
<1>1. ASSUME SearchInv, Returned, NEW s \in batch, lo[s] = hi[s] PROVE IsOptimal(s)
  <2>1. /\ s \in Samples /\ lo[s] \in Nat /\ hi[s] \in Nat /\ Actions[s] \in Nat
        /\ hi[s] <= Actions[s]
    BY <1>1, GuidanceAssumption DEF SearchInv, TypeOK, GuidanceAssumption
  <2>2. lo[s] <= sure[s] /\ (possible[s] <= lo[s] \/ lo[s] = Actions[s])
    BY <1>1, <2>1 DEF SearchInv, Bracketed
  <2>3. optimal[s] = WithOffset(s)  BY <1>1 DEF SearchInv, ResultInv
  <2>4. \/ optimal[s] = lo[s] + Offset
        \/ lo[s] + Offset < 0 /\ optimal[s] = 0
        \/ lo[s] + Offset > Actions[s] /\ optimal[s] = Actions[s]
    BY <2>3 DEF WithOffset
  <2>5. lo[s] \in 0 .. Actions[s]  BY <1>1, <2>1
  <2> QED  BY <2>2, <2>4, <2>5 DEF IsOptimal
<1>2. SearchInv => Optimal  BY <1>1 DEF Optimal
<1> QED  BY <1>2, SearchInvariant, GuidanceAssumption, PTL
-----------------------------------------------------------------------------
(* Induction over numbers, as the least counterexample.                    *)

\* The order of the numbers as a relation.
LEMMA NatOrder == \E R : IsWellFoundedOn(R, Nat) /\ \A x, y \in Nat : y < x => <<y, x>> \in R
<1>1. IsWellFoundedOn(OpToRel(<, Nat), Nat)  BY NatLessThanWellFounded
<1>2. \A x, y \in Nat : y < x => <<y, x>> \in OpToRel(<, Nat)  BY DEF OpToRel
<1> QED  BY <1>1, <1>2, Zenon

\* A set of numbers has a least one.
LEMMA LeastNumber ==
  ASSUME NEW S \in SUBSET Nat, S /= {}
  PROVE  \E x \in S : \A y \in S : x <= y
<1>1. PICK R : IsWellFoundedOn(R, Nat) /\ \A x, y \in Nat : y < x => <<y, x>> \in R
  BY NatOrder
<1>2. PICK x \in S : \A y \in S : ~(<<y, x>> \in R)  BY <1>1, WFMin
<1>3. \A y \in S : ~(y < x)  BY <1>1, <1>2
<1>4. \A y \in S : x <= y  BY <1>3
<1> QED  BY <1>4

\* What holds at 0, and at a number when it does at the one before, holds throughout.
LEMMA Throughout ==
  ASSUME NEW n \in Nat, NEW S, 0 \in S, \A i \in 1..n : i - 1 \in S => i \in S
  PROVE  \A i \in 0..n : i \in S
<1> DEFINE bad == {i \in 0..n : i \notin S}
<1>1. ASSUME bad /= {} PROVE FALSE
  <2>1. bad \in SUBSET Nat  OBVIOUS
  <2>2. PICK m \in bad : \A y \in bad : m <= y
    <3> HIDE DEF bad
    <3> QED  BY <1>1, <2>1, LeastNumber
  <2>3. m \in 1..n /\ m \notin S  BY <2>2
  <2>4. m - 1 \in 0..n /\ ~(m <= m - 1)  BY <2>3
  <2>5. m - 1 \in S  BY <2>2, <2>4
  <2> QED  BY <2>3, <2>5
<1> QED  BY <1>1

LEMMA TimesGrows ==
  ASSUME NEW a \in Int, NEW b \in Int, a <= b, NEW n \in Nat
  PROVE  a * n <= b * n
<1>1. b * n = a * n + (b - a) * n /\ b - a \in Nat  OBVIOUS
<1>2. (b - a) * n \in Nat  BY <1>1
<1> QED  BY <1>1, <1>2

\* Rows (u - 1) * n + 1 to u * n belong to prompt u.
LEMMA Repeated ==
  ASSUME NEW n \in Nat \ {0}, NEW i \in Nat \ {0}, NEW u \in Nat \ {0}
  PROVE  /\ Step!RepeatInterleaved(i, n) \in Nat \ {0}
         /\ Step!RepeatInterleaved(i, n) = u <=> (u - 1) * n < i /\ i <= u * n
<1> DEFINE q == (i - 1) \div n
<1>1. q \in Nat /\ q * n <= i - 1 /\ i - 1 < (q + 1) * n  OBVIOUS
<1> HIDE DEF q
<1>2. (u - 1) * n = u * n - n /\ (q + 1) * n = q * n + n  BY <1>1
<1>3. q + 1 = u => (u - 1) * n < i /\ i <= u * n
  <2>1. q + 1 = u => q = u - 1  BY <1>1
  <2> QED  BY <1>1, <2>1
<1>4. q + 1 < u => i <= (u - 1) * n
  <2>1. q + 1 < u => q + 1 <= u - 1 /\ u - 1 \in Int  BY <1>1
  <2>2. q + 1 < u => (q + 1) * n <= (u - 1) * n  BY <1>1, <2>1, TimesGrows
  <2> QED  BY <1>1, <1>2, <2>2
<1>5. u < q + 1 => u * n < i
  <2>1. u < q + 1 => u * n <= q * n  BY <1>1, TimesGrows
  <2> QED  BY <1>1, <2>1
<1>6. Step!RepeatInterleaved(i, n) = q + 1  BY DEF Step!RepeatInterleaved, q
<1>7. q + 1 = u <=> (u - 1) * n < i /\ i <= u * n
  <2>1. (u - 1) * n \in Int /\ u * n \in Int  OBVIOUS
  <2> QED  BY <1>1, <1>3, <1>4, <1>5, <2>1
<1> QED  BY <1>1, <1>6, <1>7

\* A table of k prompts, each repeated n times, and the place of a row among them.
LEMMA Places ==
  ASSUME NEW n \in Nat \ {0}, NEW k \in Nat
  PROVE  /\ k * n \in Nat
         /\ \A i \in 1 .. k * n : LET h == Step!RepeatInterleaved(i, n) IN
              /\ h \in 1 .. k /\ i - (h - 1) * n \in 1 .. n
              /\ (h - 1) * n + (i - (h - 1) * n) = i
         /\ \A h \in 1 .. k, j \in 1 .. n : (h - 1) * n + j \in 1 .. k * n
<1>1. k * n \in Nat  OBVIOUS
<1>2. ASSUME NEW i \in 1 .. k * n
      PROVE  LET h == Step!RepeatInterleaved(i, n) IN
             /\ h \in 1 .. k /\ i - (h - 1) * n \in 1 .. n
             /\ (h - 1) * n + (i - (h - 1) * n) = i
  <2> DEFINE h == Step!RepeatInterleaved(i, n)
             b == (h - 1) * n
  <2>1. i \in Nat \ {0} /\ i <= k * n  BY <1>1
  <2>2. h \in Nat \ {0}  BY <2>1, Repeated
  <2>3. (h - 1) * n < i /\ i <= h * n
    <3> HIDE DEF h
    <3>1. h = Step!RepeatInterleaved(i, n) => (h - 1) * n < i /\ i <= h * n  BY <2>1, <2>2, Repeated
    <3> QED  BY <3>1 DEF h
  <2> HIDE DEF h
  <2>4. h <= k
    <3> SUFFICES ASSUME k < h PROVE FALSE  BY <2>2
    <3>1. k <= h - 1 /\ h - 1 \in Int  BY <2>2
    <3>2. k * n <= (h - 1) * n  BY <3>1, TimesGrows
    <3>3. (h - 1) * n \in Int  BY <2>2
    <3> QED  BY <1>1, <2>1, <2>3, <3>2, <3>3
  <2>5. b \in Int /\ h * n = b + n  BY <2>2
  <2>6. i - b \in 1 .. n
    <3>1. b < i /\ i <= b + n  BY <2>3, <2>5
    <3> HIDE DEF b
    <3> QED  BY <2>1, <2>5, <3>1
  <2>7. b + (i - b) = i
    <3> HIDE DEF b
    <3> QED  BY <2>1, <2>5
  <2> QED  BY <2>2, <2>4, <2>6, <2>7 DEF h, b
<1>3. ASSUME NEW h \in 1 .. k, NEW j \in 1 .. n PROVE (h - 1) * n + j \in 1 .. k * n
  <2> DEFINE b == (h - 1) * n
  <2>1. h <= k /\ h \in Int /\ h - 1 \in Nat  OBVIOUS
  <2>2. h * n <= k * n  BY <2>1, TimesGrows
  <2>3. h * n = b + n /\ b \in Nat  BY <2>1
  <2> DEFINE c == k * n
  <2>4. b + n <= c /\ c \in Nat  BY <1>1, <2>2, <2>3
  <2> HIDE DEF b, c
  <2>5. b + j \in 1 .. c  BY <2>3, <2>4
  <2> QED  BY <2>5 DEF b, c
<1> QED  BY <1>1, <1>2, <1>3

\* Among the numbers of a finite number of things there is a largest, Max.
LEMMA MaxIsLargest ==
  ASSUME NEW T, IsFiniteSet(T), T /= {}, NEW f, \A x \in T : f[x] \in Int
  PROVE  /\ \E x \in T : Step!Max({f[y] : y \in T}) = f[x]
         /\ \A x \in T : f[x] <= Step!Max({f[y] : y \in T})
<1> DEFINE Has(U) == U = {} \/ \E x \in U : \A y \in U : f[y] <= f[x]
           S == {n \in Nat : \A U \in SUBSET T : Cardinality(U) = n => Has(U)}
<1>1. \A U \in SUBSET T : IsFiniteSet(U) /\ Cardinality(U) \in Nat
  BY FS_Subset, FS_CardinalityType
<1>2. 0 \in S
  <2>1. \A U \in SUBSET T : Cardinality(U) = 0 => U = {}  BY <1>1, FS_EmptySet
  <2> QED  BY <2>1
<1>3. ASSUME NEW n \in 1 .. Cardinality(T), n - 1 \in S PROVE n \in S
  <2> SUFFICES ASSUME NEW U \in SUBSET T, Cardinality(U) = n PROVE Has(U)  OBVIOUS
  <2>1. PICK x \in U : TRUE
    <3>1. U /= {}  BY FS_EmptySet
    <3> QED  BY <3>1
  <2>2. Cardinality(U \ {x}) = n - 1 /\ U \ {x} \in SUBSET T  BY <1>1, <2>1, FS_RemoveElement
  <2>3. Has(U \ {x})
    <3> HIDE DEF Has
    <3> QED  BY <1>3, <2>2
  <2>4. CASE U \ {x} = {}  BY <2>1, <2>4
  <2>5. ASSUME NEW z \in U \ {x}, \A y \in U \ {x} : f[y] <= f[z] PROVE Has(U)
    <3>1. f[x] \in Int /\ f[z] \in Int /\ \A y \in U : f[y] \in Int  BY <2>1
    <3>2. CASE f[x] <= f[z]  BY <2>5, <3>2
    <3>3. CASE f[z] <= f[x]
      <4>1. \A y \in U : f[y] <= f[x]  BY <2>5, <3>1, <3>3
      <4> QED  BY <2>1, <4>1
    <3> QED  BY <3>1, <3>2, <3>3
  <2> QED  BY <2>3, <2>4, <2>5
<1>4. Cardinality(T) \in S
  <2> HIDE DEF S
  <2> QED  BY <1>1, <1>2, <1>3, Throughout
<1>5. PICK x \in T : \A y \in T : f[y] <= f[x]  BY <1>4
<1>6. Step!Max({f[y] : y \in T}) = f[x]
  <2> DEFINE M == {f[y] : y \in T}
  <2>1. f[x] \in M /\ \A m \in M : f[x] >= m /\ m \in Int  BY <1>5
  <2>2. Step!Max(M) \in M /\ \A m \in M : Step!Max(M) >= m  BY <2>1 DEF Step!Max
  <2> QED  BY <2>1, <2>2
<1> QED  BY <1>5, <1>6
-----------------------------------------------------------------------------
(* The folds of the community modules: they are recursive functions, which *)
(* have to be shown to exist.                                              *)

Taken(U) == CHOOSE x \in U : TRUE
IsSum(iter, f, T) ==
  iter = [U \in SUBSET T |-> IF U = {} THEN 0 ELSE f[Taken(U)] + iter[U \ {Taken(U)}]]

Unfolds(iter, f, T) ==
  /\ iter \in [SUBSET T -> Int] /\ iter[{}] = 0
  /\ \A U \in (SUBSET T) \ {{}} : Taken(U) \in U /\ iter[U] = f[Taken(U)] + iter[U \ {Taken(U)}]

\* A sum is what the fold over its smaller sets is, one element less each time.
LEMMA SumUnfolds ==
  ASSUME NEW T, IsFiniteSet(T), NEW f, \A x \in T : f[x] \in Int
  PROVE  \E iter : Unfolds(iter, f, T) /\ Step!SumFunctionOnSet(f, T) = iter[T]
<1> DEFINE Upto(n, g) == \A U \in SUBSET T : Cardinality(U) <= n =>
                           g[U] = IF U = {} THEN 0 ELSE f[Taken(U)] + g[U \ {Taken(U)}]
           S == {n \in Nat : \E g \in [SUBSET T -> Int] : Upto(n, g)}
<1>1. \A U \in SUBSET T : IsFiniteSet(U) /\ Cardinality(U) \in Nat
                          /\ Cardinality(U) <= Cardinality(T)
  BY FS_Subset, FS_CardinalityType
<1>2. \A U \in (SUBSET T) \ {{}} : /\ Taken(U) \in U /\ U \ {Taken(U)} \in SUBSET T
                                 /\ f[Taken(U)] \in Int
                                 /\ Cardinality(U \ {Taken(U)}) = Cardinality(U) - 1
  <2> SUFFICES ASSUME NEW U \in SUBSET T, U /= {}
               PROVE  /\ Taken(U) \in U /\ U \ {Taken(U)} \in SUBSET T
                      /\ f[Taken(U)] \in Int
                      /\ Cardinality(U \ {Taken(U)}) = Cardinality(U) - 1
    OBVIOUS
  <2>1. Taken(U) \in U  BY DEF Taken
  <2> QED  BY <1>1, <2>1, FS_RemoveElement
<1>3. \A U \in SUBSET T : Cardinality(U) = 0 <=> U = {}  BY <1>1, FS_EmptySet
<1>4. 0 \in S
  <2> DEFINE g == [U \in SUBSET T |-> 0]
  <2>1. g \in [SUBSET T -> Int] /\ Upto(0, g)  BY <1>1, <1>3
  <2> QED  BY <2>1
<1>5. ASSUME NEW n \in 1 .. Cardinality(T), n - 1 \in S PROVE n \in S
  <2>1. PICK g \in [SUBSET T -> Int] : Upto(n - 1, g)  BY <1>5
  <2> DEFINE h == [U \in SUBSET T |-> IF Cardinality(U) = n THEN f[Taken(U)] + g[U \ {Taken(U)}]
                                                            ELSE g[U]]
  <2>2. n \in Nat \ {0}  BY <1>1
  <2>3. \A U \in SUBSET T : Cardinality(U) = n => U /= {}  BY <1>3, <2>2
  <2>4. h \in [SUBSET T -> Int]
    <3>1. \A U \in SUBSET T : h[U] \in Int  BY <1>2, <2>3
    <3> QED  BY <3>1
  <2>5. ASSUME NEW U \in SUBSET T, Cardinality(U) <= n
        PROVE  h[U] = IF U = {} THEN 0 ELSE f[Taken(U)] + h[U \ {Taken(U)}]
    <3>1. CASE Cardinality(U) = n
      <4>1. U /= {} /\ U \ {Taken(U)} \in SUBSET T  BY <1>2, <2>3, <3>1
      <4>2. Cardinality(U \ {Taken(U)}) /= n  BY <1>2, <3>1, <4>1, <2>2
      <4>3. h[U \ {Taken(U)}] = g[U \ {Taken(U)}]  BY <4>1, <4>2
      <4> QED  BY <3>1, <4>1, <4>3
    <3>2. CASE Cardinality(U) /= n
      <4>1. Cardinality(U) <= n - 1  BY <1>1, <2>2, <2>5, <3>2
      <4>2. h[U] = g[U]  BY <3>2
      <4>3. CASE U = {}  BY <2>1, <4>1, <4>2, <4>3
      <4>4. CASE U /= {}
        <5>1. Cardinality(U \ {Taken(U)}) /= n /\ U \ {Taken(U)} \in SUBSET T
          BY <1>1, <1>2, <4>1, <4>4, <2>2
        <5>2. h[U \ {Taken(U)}] = g[U \ {Taken(U)}]  BY <5>1
        <5> QED  BY <2>1, <4>1, <4>2, <4>4, <5>2
      <4> QED  BY <4>3, <4>4
    <3> QED  BY <3>1, <3>2
  <2>6. Upto(n, h)
    <3> HIDE DEF h
    <3> QED  BY <2>5
  <2> HIDE DEF h, Upto
  <2> QED  BY <2>2, <2>4, <2>6
<1>6. Cardinality(T) \in S
  <2> HIDE DEF S
  <2> QED  BY <1>1, <1>4, <1>5, Throughout
<1>7. PICK g \in [SUBSET T -> Int] : Upto(Cardinality(T), g)  BY <1>6
<1>8. IsSum(g, f, T)
  <2>1. g = [U \in SUBSET T |-> g[U]]  OBVIOUS
  <2>2. \A U \in SUBSET T : g[U] = IF U = {} THEN 0 ELSE f[Taken(U)] + g[U \ {Taken(U)}]
    BY <1>1, <1>7
  <2> QED  BY <2>1, <2>2 DEF IsSum
<1> DEFINE iter == CHOOSE i : IsSum(i, f, T)
<1>9. IsSum(iter, f, T)  BY <1>8
<1>10. Step!SumFunctionOnSet(f, T) = iter[T]
  BY DEF Step!SumFunctionOnSet, Step!FoldFunctionOnSet, Step!MapThenFoldSet, IsSum, Taken
<1> HIDE DEF iter
<1>11. /\ DOMAIN iter = SUBSET T /\ iter = [U \in SUBSET T |-> iter[U]]
       /\ \A U \in SUBSET T : iter[U] = IF U = {} THEN 0 ELSE f[Taken(U)] + iter[U \ {Taken(U)}]
  BY <1>9 DEF IsSum
<1> DEFINE R == {n \in Nat : \A U \in SUBSET T : Cardinality(U) = n => iter[U] \in Int}
<1>12. 0 \in R
  <2>1. iter[{}] = 0 /\ \A U \in SUBSET T : Cardinality(U) = 0 => U = {}  BY <1>3, <1>11
  <2> QED  BY <2>1
<1>13. ASSUME NEW n \in 1 .. Cardinality(T), n - 1 \in R PROVE n \in R
  <2>1. ASSUME NEW U \in SUBSET T, Cardinality(U) = n PROVE iter[U] \in Int
    <3>1. U /= {}  BY <1>3, <2>1
    <3> DEFINE W == U \ {Taken(U)}
    <3>2. W \in SUBSET T /\ Cardinality(W) = n - 1 /\ f[Taken(U)] \in Int  BY <1>2, <2>1, <3>1
    <3>3. iter[W] \in Int
      <4> HIDE DEF W
      <4> QED  BY <1>13, <3>2
    <3>4. iter[U] = f[Taken(U)] + iter[W]
      <4>1. U \in SUBSET T  OBVIOUS
      <4> QED  BY <1>11, <3>1, <4>1
    <3> HIDE DEF W
    <3> QED  BY <3>2, <3>3, <3>4
  <2>2. n \in Nat  BY <1>1
  <2> QED  BY <2>1, <2>2
<1>14. \A n \in 0 .. Cardinality(T) : n \in R
  <2> HIDE DEF R
  <2> QED  BY <1>1, <1>12, <1>13, Throughout
<1>15. iter \in [SUBSET T -> Int]
  <2>1. ASSUME NEW U \in SUBSET T PROVE iter[U] \in Int
    <3>1. Cardinality(U) \in 0 .. Cardinality(T)  BY <1>1
    <3> QED  BY <1>14, <3>1
  <2> QED  BY <1>11, <2>1
<1>16. \A U \in (SUBSET T) \ {{}} : Taken(U) \in U /\ iter[U] = f[Taken(U)] + iter[U \ {Taken(U)}]
  BY <1>2, <1>11
<1>17. iter[{}] = 0  BY <1>11
<1>18. Unfolds(iter, f, T)  BY <1>15, <1>16, <1>17 DEF Unfolds
<1> QED  BY <1>10, <1>18

LEMMA OneLess ==
  ASSUME NEW T, IsFiniteSet(T), NEW U \in SUBSET T, NEW n \in Nat \ {0}, Cardinality(U) = n,
         NEW f, NEW iter, Unfolds(iter, f, T)
  PROVE  \E x \in U, W \in SUBSET T : Cardinality(W) = n - 1 /\ x = Taken(U) /\ W = U \ {x}
                                      /\ iter[W] \in Int /\ iter[U] = f[x] + iter[W]
<1> DEFINE x == Taken(U)
           W == U \ {x}
<1>1. IsFiniteSet(U) /\ U /= {}  BY FS_Subset, FS_EmptySet
<1>2. x \in U /\ iter[U] = f[x] + iter[W]  BY <1>1 DEF Unfolds
<1>3. W \in SUBSET T /\ Cardinality(W) = n - 1  BY <1>1, <1>2, FS_RemoveElement
<1>4. iter[W] \in Int
  <2> HIDE DEF W
  <2> QED  BY <1>3 DEF Unfolds
<1> QED  BY <1>2, <1>3, <1>4

LEMMA EmptyOnly ==
  ASSUME NEW T, IsFiniteSet(T)
  PROVE  /\ Cardinality(T) \in Nat
         /\ \A U \in SUBSET T : Cardinality(U) = 0 => U = {}
BY FS_Subset, FS_CardinalityType, FS_EmptySet

\* A sum of integers is an integer, of numbers a number.
LEMMA SumType ==
  ASSUME NEW T, IsFiniteSet(T), NEW f, \A x \in T : f[x] \in Int
  PROVE  /\ Step!SumFunctionOnSet(f, T) \in Int
         /\ (\A x \in T : f[x] \in Nat) => Step!SumFunctionOnSet(f, T) \in Nat
<1>1. PICK iter : Unfolds(iter, f, T) /\ Step!SumFunctionOnSet(f, T) = iter[T]  BY SumUnfolds
<1>2. iter[{}] = 0 /\ iter[T] \in Int  BY <1>1 DEF Unfolds
<1>3. ASSUME \A x \in T : f[x] \in Nat PROVE iter[T] \in Nat
  <2> DEFINE R == {n \in Nat : \A U \in SUBSET T : Cardinality(U) = n => iter[U] \in Nat}
  <2>1. 0 \in R
    <3>1. ASSUME NEW U \in SUBSET T, Cardinality(U) = 0 PROVE iter[U] \in Nat
      <4>1. U = {}  BY <3>1, EmptyOnly
      <4> QED  BY <1>2, <4>1
    <3> QED  BY <3>1
  <2>2. ASSUME NEW n \in 1 .. Cardinality(T), n - 1 \in R PROVE n \in R
    <3>1. n \in Nat \ {0}  BY EmptyOnly
    <3>2. ASSUME NEW U \in SUBSET T, Cardinality(U) = n PROVE iter[U] \in Nat
      <4>1. PICK x \in U, W \in SUBSET T : Cardinality(W) = n - 1 /\ iter[U] = f[x] + iter[W]
        BY <1>1, <3>1, <3>2, OneLess
      <4>2. iter[W] \in Nat  BY <2>2, <4>1
      <4>3. f[x] \in Nat  BY <1>3
      <4> QED  BY <4>1, <4>2, <4>3
    <3> QED  BY <3>1, <3>2
  <2>3. Cardinality(T) \in R
    <3>1. Cardinality(T) \in Nat  BY EmptyOnly
    <3> HIDE DEF R
    <3> QED  BY <2>1, <2>2, <3>1, Throughout
  <2> QED  BY <2>3
<1>4. (\A x \in T : f[x] \in Nat) => iter[T] \in Nat  BY <1>3
<1> QED  BY <1>1, <1>2, <1>4

\* What is multiplied and shifted in each place is so in the sum.
LEMMA SumIsLinear ==
  ASSUME NEW T, IsFiniteSet(T), NEW f, NEW g, NEW a \in Int, NEW c \in Int,
         \A x \in T : f[x] \in Int /\ g[x] = a * f[x] - c
  PROVE  Step!SumFunctionOnSet(g, T) = a * Step!SumFunctionOnSet(f, T) - Cardinality(T) * c
<1>0. \A x \in T : f[x] \in Int /\ g[x] \in Int  OBVIOUS
<1>1. PICK i : Unfolds(i, f, T) /\ Step!SumFunctionOnSet(f, T) = i[T]  BY <1>0, SumUnfolds
<1>2. PICK j : Unfolds(j, g, T) /\ Step!SumFunctionOnSet(g, T) = j[T]  BY <1>0, SumUnfolds
<1> DEFINE R == {n \in Nat : \A U \in SUBSET T : Cardinality(U) = n => j[U] = a * i[U] - n * c}
<1>3. 0 \in R
  <2>1. i[{}] = 0 /\ j[{}] = 0  BY <1>1, <1>2 DEF Unfolds
  <2>2. ASSUME NEW U \in SUBSET T, Cardinality(U) = 0 PROVE j[U] = a * i[U] - 0 * c
    <3>1. U = {}  BY <2>2, EmptyOnly
    <3>2. a * 0 - 0 * c = 0  OBVIOUS
    <3> QED  BY <2>1, <3>1, <3>2
  <2> QED  BY <2>2
<1>4. ASSUME NEW n \in 1 .. Cardinality(T), n - 1 \in R PROVE n \in R
  <2>1. n \in Nat \ {0}  BY EmptyOnly
  <2>2. ASSUME NEW U \in SUBSET T, Cardinality(U) = n PROVE j[U] = a * i[U] - n * c
    <3>1. PICK x \in U, W \in SUBSET T :
            /\ Cardinality(W) = n - 1 /\ x = Taken(U) /\ W = U \ {x}
            /\ i[W] \in Int /\ i[U] = f[x] + i[W]
      BY <1>1, <2>1, <2>2, OneLess
    <3>2. j[U] = g[x] + j[W] /\ j[W] \in Int
      <4>1. U \in (SUBSET T) \ {{}}  BY <3>1
      <4> QED  BY <1>2, <3>1, <4>1 DEF Unfolds
    <3>3. j[W] = a * i[W] - (n - 1) * c  BY <1>4, <3>1
    <3>4. f[x] \in Int /\ g[x] = a * f[x] - c  OBVIOUS
    <3>5. /\ a * (f[x] + i[W]) = a * f[x] + a * i[W] /\ (n - 1) * c = n * c - c
          /\ a * f[x] \in Int /\ a * i[W] \in Int /\ n * c \in Int
      BY <2>1, <3>1, <3>4
    <3> QED  BY <3>1, <3>2, <3>3, <3>4, <3>5
  <2> QED  BY <2>1, <2>2
<1>5. Cardinality(T) \in R
  <2>1. Cardinality(T) \in Nat  BY EmptyOnly
  <2> HIDE DEF R
  <2> QED  BY <1>3, <1>4, <2>1, Throughout
<1>6. T \in SUBSET T  OBVIOUS
<1> QED  BY <1>1, <1>2, <1>5, <1>6

IsFlat(flat, lists) ==
  flat = [r \in 1 .. Len(lists) |-> IF r = 1 THEN lists[r] ELSE flat[r - 1] \o lists[r]]

Joins(join, lists, k) == /\ Step!FlattenSeq(lists) = join[k] /\ join[1] = lists[1]
                         /\ \A r \in 2 .. k : join[r] = join[r - 1] \o lists[r]

\* One list after the other, as the recursive function of FlattenSeq has it.
LEMMA FlattenUnfolds ==
  ASSUME NEW k \in Nat \ {0}, NEW V, NEW lists \in Seq(Seq(V)), Len(lists) = k
  PROVE  \E join : Joins(join, lists, k)
<1> DEFINE S == {n \in Nat : \E h \in [1 .. n -> Seq(V)] :
                   \A r \in 1 .. n : h[r] = IF r = 1 THEN lists[r] ELSE h[r - 1] \o lists[r]}
<1>1. \A r \in 1 .. k : lists[r] \in Seq(V)  OBVIOUS
<1>2. 0 \in S
  <2> DEFINE h == [r \in 1 .. 0 |-> lists[r]]
  <2>1. h \in [1 .. 0 -> Seq(V)] /\ 1 .. 0 = {}  OBVIOUS
  <2> HIDE DEF h
  <2> QED  BY <2>1
<1>3. ASSUME NEW n \in 1 .. k, n - 1 \in S PROVE n \in S
  <2>1. PICK h \in [1 .. (n - 1) -> Seq(V)] :
          \A r \in 1 .. (n - 1) : h[r] = IF r = 1 THEN lists[r] ELSE h[r - 1] \o lists[r]
    BY <1>3
  <2> DEFINE e == [r \in 1 .. n |-> IF r < n THEN h[r] ELSE IF r = 1 THEN lists[r] ELSE h[r - 1] \o lists[r]]
  <2>2. ASSUME NEW r \in 1 .. n PROVE e[r] \in Seq(V)
    <3>1. CASE r < n  BY <2>1, <3>1
    <3>2. CASE r = n /\ r = 1  BY <1>1, <3>2
    <3>3. CASE r = n /\ r /= 1
      <4>1. h[r - 1] \in Seq(V) /\ lists[r] \in Seq(V)  BY <1>1, <2>1, <3>3
      <4>2. e[r] = h[r - 1] \o lists[r]  BY <3>3
      <4> QED  BY <4>1, <4>2, ConcatProperties
    <3> QED  BY <3>1, <3>2, <3>3
  <2>3. e \in [1 .. n -> Seq(V)]  BY <2>2
  <2>4. ASSUME NEW r \in 1 .. n PROVE e[r] = IF r = 1 THEN lists[r] ELSE e[r - 1] \o lists[r]
    <3>0. n - 1 \in Nat /\ n \in Nat  OBVIOUS
    <3>1. CASE r = 1
      <4>1. CASE r < n
        <5>1. r \in 1 .. (n - 1)  BY <3>0, <4>1
        <5> QED  BY <2>1, <3>1, <4>1, <5>1
      <4>2. CASE r = n  BY <3>1, <4>2
      <4> QED  BY <4>1, <4>2
    <3>2. CASE r /= 1
      <4>1. r - 1 \in 1 .. (n - 1) /\ r - 1 < n  BY <3>2
      <4>2. e[r - 1] = h[r - 1]  BY <4>1
      <4>3. e[r] = h[r - 1] \o lists[r]
        <5>1. CASE r < n
          <6>1. r \in 1 .. (n - 1)  BY <5>1
          <6> QED  BY <2>1, <3>2, <5>1, <6>1
        <5>2. CASE r = n  BY <3>2, <5>2
        <5>3. r < n \/ r = n  BY <3>0
        <5> QED  BY <5>1, <5>2, <5>3
      <4> QED  BY <3>2, <4>2, <4>3
    <3> QED  BY <3>1, <3>2
  <2>5. n \in Nat  OBVIOUS
  <2> HIDE DEF e
  <2> QED  BY <2>3, <2>4, <2>5
<1>4. k \in S
  <2>1. k \in Nat  OBVIOUS
  <2> HIDE DEF S
  <2>2. \A i \in 1 .. k : i - 1 \in S => i \in S  BY <1>3
  <2>3. \A i \in 0 .. k : i \in S  BY <1>2, <2>1, <2>2, Throughout
  <2> QED  BY <2>1, <2>3
<1> DEFINE flat == CHOOSE h : IsFlat(h, lists)
<1>5. IsFlat(flat, lists)
  <2>1. PICK h \in [1 .. k -> Seq(V)] :
          \A r \in 1 .. k : h[r] = IF r = 1 THEN lists[r] ELSE h[r - 1] \o lists[r]
    BY <1>4
  <2>2. h = [r \in 1 .. k |-> h[r]]  OBVIOUS
  <2>3. IsFlat(h, lists)  BY <2>1, <2>2 DEF IsFlat
  <2> QED  BY <2>3
<1>6. Step!FlattenSeq(lists) = flat[k]
  <2>1. Step!FlattenSeq(lists) = IF Len(lists) = 0 THEN lists ELSE flat[Len(lists)]
    BY Zenon DEF Step!FlattenSeq, IsFlat
  <2> HIDE DEF flat
  <2> QED  BY <2>1
<1> HIDE DEF flat
<1>7. \A r \in 1 .. k : flat[r] = IF r = 1 THEN lists[r] ELSE flat[r - 1] \o lists[r]
  BY <1>5 DEF IsFlat
<1>8. flat[1] = lists[1]
  <2>1. 1 \in 1 .. k  OBVIOUS
  <2> QED  BY <1>7, <2>1, Zenon
<1>9. ASSUME NEW r \in 2 .. k PROVE flat[r] = flat[r - 1] \o lists[r]
  <2>1. r \in 1 .. k /\ r /= 1  OBVIOUS
  <2> QED  BY <1>7, <2>1, Zenon
<1> QED  BY <1>6, <1>8, <1>9, Zenon DEF Joins

\* Lists of the same length, one after the other.
LEMMA Flattened ==
  ASSUME NEW k \in Nat \ {0}, NEW l \in Nat, NEW V, NEW lists \in Seq(Seq(V)), Len(lists) = k,
         \A r \in 1 .. k : Len(lists[r]) = l
  PROVE  /\ Step!FlattenSeq(lists) \in Seq(V) /\ Len(Step!FlattenSeq(lists)) = k * l
         /\ \A r \in 1 .. k, j \in 1 .. l : Step!FlattenSeq(lists)[(r - 1) * l + j] = lists[r][j]
<1> DEFINE Good(s, n) == /\ s \in Seq(V) /\ Len(s) = n * l
                         /\ \A r \in 1 .. n, j \in 1 .. l : s[(r - 1) * l + j] = lists[r][j]
<1>1. \A r \in 1 .. k : lists[r] \in Seq(V)  OBVIOUS
<1>6. PICK flat : Joins(flat, lists, k)  BY FlattenUnfolds, Zenon
<1>7. ASSUME NEW n \in 1 .. k, n /= 1 PROVE flat[n] = flat[n - 1] \o lists[n]
  <2>1. n \in 2 .. k  BY <1>7
  <2> QED  BY <1>6, <2>1, Zenon DEF Joins
<1> DEFINE R == {n \in Nat : n = 0 \/ Good(flat[n], n)}
<1>8. 0 \in R  OBVIOUS
<1>9. ASSUME NEW n \in 1 .. k, n - 1 \in R PROVE n \in R
  <2>0. n \in Nat /\ lists[n] \in Seq(V) /\ Len(lists[n]) = l  BY <1>1
  <2>1. CASE n = 1
    <3>1. flat[1] = lists[1] /\ 1 * l = l  BY <1>6, <2>1 DEF Joins
    <3>2. \A r \in 1 .. 1, j \in 1 .. l : r = 1 /\ (r - 1) * l + j = j  OBVIOUS
    <3>3. Good(flat[1], 1)  BY <2>0, <2>1, <3>1, <3>2
    <3> HIDE DEF Good
    <3> QED  BY <2>1, <3>3
  <2>2. CASE n /= 1
    <3> DEFINE s == flat[n - 1]
               t == lists[n]
    <3>1. Good(s, n - 1)  BY <1>9, <2>2
    <3>2. flat[n] = s \o t  BY <1>7, <2>2
    <3>3. s \in Seq(V) /\ t \in Seq(V) /\ Len(s) = (n - 1) * l /\ Len(t) = l  BY <2>0, <3>1
    <3>4. /\ s \o t \in Seq(V) /\ Len(s \o t) = Len(s) + Len(t)
          /\ \A i \in 1 .. (Len(s) + Len(t)) :
               (s \o t)[i] = IF i <= Len(s) THEN s[i] ELSE t[i - Len(s)]
      <4> HIDE DEF s, t
      <4> QED  BY <3>3, ConcatProperties
    <3>5. n * l = (n - 1) * l + l /\ (n - 1) * l \in Nat  BY <2>0, <2>2
    <3>6. ASSUME NEW r \in 1 .. n, NEW j \in 1 .. l
          PROVE  (s \o t)[(r - 1) * l + j] = lists[r][j]
      <4>1. (r - 1) * l \in Nat  OBVIOUS
      <4>2. CASE r = n
        <5>1. (r - 1) * l + j \in 1 .. (Len(s) + Len(t)) /\ ~((r - 1) * l + j <= Len(s))
              /\ (r - 1) * l + j - Len(s) = j
          BY <3>3, <3>5, <4>2
        <5> HIDE DEF s, t
        <5>2. (s \o t)[(r - 1) * l + j] = t[j]  BY <3>4, <5>1
        <5> QED  BY <4>2, <5>2 DEF t
      <4>3. CASE r /= n
        <5>1. r \in 1 .. (n - 1) /\ r * l <= (n - 1) * l  BY <4>3, TimesGrows
        <5>2. (r - 1) * l = r * l - l /\ r * l \in Nat  OBVIOUS
        <5>3. (r - 1) * l + j \in 1 .. (Len(s) + Len(t)) /\ (r - 1) * l + j <= Len(s)
          <6> DEFINE p == (n - 1) * l
                     q == (r - 1) * l
          <6>1. p \in Nat /\ q \in Nat /\ q + l <= p /\ Len(s) = p /\ Len(t) = l
            BY <3>3, <3>5, <4>1, <5>1, <5>2
          <6> HIDE DEF p, q, s, t
          <6>2. q + j \in 1 .. (Len(s) + Len(t)) /\ q + j <= Len(s)  BY <6>1
          <6> QED  BY <6>2 DEF q
        <5>4. s[(r - 1) * l + j] = lists[r][j]  BY <3>1, <5>1
        <5> QED  BY <3>4, <5>3, <5>4
      <4> QED  BY <4>2, <4>3
    <3>7. Good(flat[n], n)
      <4>1. flat[n] \in Seq(V) /\ Len(flat[n]) = n * l  BY <3>2, <3>3, <3>4, <3>5
      <4>2. \A r \in 1 .. n, j \in 1 .. l : flat[n][(r - 1) * l + j] = lists[r][j]
        <5> HIDE DEF s, t
        <5> QED  BY <3>2, <3>6
      <4> QED  BY <4>1, <4>2
    <3> HIDE DEF Good
    <3> QED  BY <2>0, <3>7
  <2> QED  BY <2>1, <2>2
<1>10. k \in R
  <2>1. k \in Nat  OBVIOUS
  <2> HIDE DEF R
  <2>2. \A i \in 1 .. k : i - 1 \in R => i \in R  BY <1>9
  <2>3. \A i \in 0 .. k : i \in R  BY <1>8, <2>1, <2>2, Throughout
  <2> QED  BY <2>1, <2>3
<1> QED  BY <1>6, <1>10 DEF Joins

\* The members of the lists are those of another, and no two of them are the same.
Covers(lists, flat) ==
  \A p \in DOMAIN flat : \E r \in 1 .. Len(lists) : \E j \in 1 .. Len(lists[r]) : lists[r][j] = flat[p]
Distinct(lists) ==
  \A r, q \in 1 .. Len(lists) : \A i \in 1 .. Len(lists[r]), j \in 1 .. Len(lists[q]) :
    lists[r][i] = lists[q][j] => r = q /\ i = j

\* What the joined list has once, the lists have once: each member in one of them.
LEMMA OneOfEach ==
  ASSUME NEW k \in Nat \ {0}, NEW V, NEW lists \in Seq(Seq(V)), Len(lists) = k,
         NEW flat, flat = Step!FlattenSeq(lists),
         \A p, q \in DOMAIN flat : flat[p] = flat[q] => p = q
  PROVE  Covers(lists, flat) /\ Distinct(lists)
<1> DEFINE Once(s)    == \A p, q \in 1 .. Len(s) : s[p] = s[q] => p = q
           Has(s, n)  == \A r \in 1 .. n : \A j \in 1 .. Len(lists[r]) :
                           \E p \in 1 .. Len(s) : s[p] = lists[r][j]
           Of(s, n)   == \A p \in 1 .. Len(s) :
                           \E r \in 1 .. n : \E j \in 1 .. Len(lists[r]) : lists[r][j] = s[p]
           Apart(n)   == \A r, q \in 1 .. n : \A i \in 1 .. Len(lists[r]), j \in 1 .. Len(lists[q]) :
                           lists[r][i] = lists[q][j] => r = q /\ i = j
           Good(s, n) == s \in Seq(V) /\ Has(s, n) /\ Of(s, n) /\ (Once(s) => Apart(n))
<1>1. \A r \in 1 .. k : lists[r] \in Seq(V)  OBVIOUS
<1>0. PICK join : Joins(join, lists, k)  BY FlattenUnfolds, Zenon
<1>2. flat = join[k] /\ join[1] = lists[1] /\ \A r \in 2 .. k : join[r] = join[r - 1] \o lists[r]
  BY <1>0 DEF Joins
<1> DEFINE R == {n \in Nat : n = 0 \/ Good(join[n], n)}
<1>3. 0 \in R  OBVIOUS
<1>4. ASSUME NEW n \in 1 .. k, n - 1 \in R PROVE n \in R
  <2>0. n \in Nat /\ lists[n] \in Seq(V)  BY <1>1
  <2>1. CASE n = 1
    <3>1. join[n] = lists[n]  BY <1>2, <2>1
    <3>2. \A r : r \in 1 .. 1 <=> r = 1  OBVIOUS
    <3>3. Has(lists[1], 1) /\ Of(lists[1], 1)  BY <3>2
    <3>4. Once(lists[1]) => Apart(1)  BY <3>2
    <3> HIDE DEF Has, Of, Once, Apart
    <3> QED  BY <2>0, <2>1, <3>1, <3>3, <3>4
  <2>2. CASE n /= 1
    <3> DEFINE m == n - 1
               s == join[m]
               t == lists[n]
               u == join[n]
    <3>1. m \in Nat /\ m /= 0 /\ n = m + 1 /\ n \in 2 .. k  BY <2>2
    <3>2. Good(s, m)
      <4> HIDE DEF Good
      <4> QED  BY <1>4, <3>1
    <3>3. u = s \o t  BY <1>2, <3>1
    <3>4. s \in Seq(V) /\ t \in Seq(V)  BY <2>0, <3>2
    <3> HIDE DEF s, t, u
    <3>5. /\ u \in Seq(V) /\ Len(u) = Len(s) + Len(t) /\ Len(s) \in Nat /\ Len(t) \in Nat
          /\ \A p \in 1 .. (Len(s) + Len(t)) : u[p] = IF p <= Len(s) THEN s[p] ELSE t[p - Len(s)]
      BY <3>3, <3>4, ConcatProperties
    <3>6. /\ \A p \in 1 .. Len(s) : p \in 1 .. Len(u) /\ u[p] = s[p]
          /\ \A j \in 1 .. Len(t) : Len(s) + j \in 1 .. Len(u) /\ u[Len(s) + j] = t[j]
      <4>1. ASSUME NEW p \in 1 .. Len(s) PROVE p \in 1 .. Len(u) /\ u[p] = s[p]  BY <3>5
      <4>2. ASSUME NEW j \in 1 .. Len(t) PROVE Len(s) + j \in 1 .. Len(u) /\ u[Len(s) + j] = t[j]
        <5>1. Len(s) + j \in 1 .. (Len(s) + Len(t)) /\ ~(Len(s) + j <= Len(s)) /\ (Len(s) + j) - Len(s) = j
          BY <3>5
        <5> QED  BY <3>5, <5>1
      <4> QED  BY <4>1, <4>2
    <3>7. \A p \in 1 .. Len(u) : p \in 1 .. Len(s) \/ \E j \in 1 .. Len(t) : p = Len(s) + j
      <4> SUFFICES ASSUME NEW p \in 1 .. Len(u), p \notin 1 .. Len(s)
                   PROVE  \E j \in 1 .. Len(t) : p = Len(s) + j
        OBVIOUS
      <4>1. p - Len(s) \in 1 .. Len(t) /\ p = Len(s) + (p - Len(s))  BY <3>5
      <4> QED  BY <4>1
    <3>8. \A r \in 1 .. n : r \in 1 .. m \/ r = n  BY <3>1
    <3>9. \A r \in 1 .. m : r \in 1 .. n /\ r /= n  BY <3>1
    <3>10. Has(u, n)
      <4> SUFFICES ASSUME NEW r \in 1 .. n, NEW j \in 1 .. Len(lists[r])
                   PROVE  \E p \in 1 .. Len(u) : u[p] = lists[r][j]
        OBVIOUS
      <4>1. CASE r = n  BY <3>6, <4>1 DEF t
      <4>2. CASE r \in 1 .. m
        <5>1. PICK p \in 1 .. Len(s) : s[p] = lists[r][j]  BY <3>2, <4>2
        <5> QED  BY <3>6, <5>1
      <4> QED  BY <3>8, <4>1, <4>2
    <3>11. Of(u, n)
      <4> SUFFICES ASSUME NEW p \in 1 .. Len(u)
                   PROVE  \E r \in 1 .. n : \E j \in 1 .. Len(lists[r]) : lists[r][j] = u[p]
        OBVIOUS
      <4>1. CASE p \in 1 .. Len(s)
        <5>1. PICK r \in 1 .. m : \E j \in 1 .. Len(lists[r]) : lists[r][j] = s[p]  BY <3>2, <4>1
        <5> QED  BY <3>6, <3>9, <4>1, <5>1
      <4>2. ASSUME NEW j \in 1 .. Len(t), p = Len(s) + j
            PROVE  \E r \in 1 .. n : \E i \in 1 .. Len(lists[r]) : lists[r][i] = u[p]
        <5>1. n \in 1 .. n /\ u[p] = lists[n][j] /\ j \in 1 .. Len(lists[n])  BY <2>0, <3>1, <3>6, <4>2 DEF t
        <5> QED  BY <5>1
      <4> QED  BY <3>7, <4>1, <4>2
    <3>12. ASSUME Once(u) PROVE Apart(n)
      <4>1. Once(s)
        <5> SUFFICES ASSUME NEW p \in 1 .. Len(s), NEW q \in 1 .. Len(s), s[p] = s[q] PROVE p = q  OBVIOUS
        <5> QED  BY <3>6, <3>12
      <4>2. Apart(m)
        <5> HIDE DEF Has, Of, Once, Apart
        <5> QED  BY <3>2, <4>1
      <4>3. ASSUME NEW r \in 1 .. m, NEW i \in 1 .. Len(lists[r]), NEW j \in 1 .. Len(t)
            PROVE  lists[r][i] /= t[j]
        <5>1. PICK p \in 1 .. Len(s) : s[p] = lists[r][i]  BY <3>2
        <5>2. p /= Len(s) + j  BY <3>5
        <5> QED  BY <3>6, <3>12, <5>1, <5>2
      <4>4. ASSUME NEW i \in 1 .. Len(t), NEW j \in 1 .. Len(t), t[i] = t[j] PROVE i = j
        <5>1. /\ Len(s) + i \in 1 .. Len(u) /\ u[Len(s) + i] = t[i]
              /\ Len(s) + j \in 1 .. Len(u) /\ u[Len(s) + j] = t[j]
          BY <3>6
        <5>2. Len(s) + i = Len(s) + j  BY <3>12, <4>4, <5>1
        <5> QED  BY <3>5, <5>2
      <4> SUFFICES ASSUME NEW r \in 1 .. n, NEW q \in 1 .. n, NEW i \in 1 .. Len(lists[r]),
                          NEW j \in 1 .. Len(lists[q]), lists[r][i] = lists[q][j]
                   PROVE  r = q /\ i = j
        OBVIOUS
      <4>5. CASE r \in 1 .. m /\ q \in 1 .. m  BY <4>2, <4>5
      <4>6. CASE r = n /\ q = n  BY <4>4, <4>6 DEF t
      <4>7. ~(r \in 1 .. m /\ q = n)  BY <4>3 DEF t
      <4>8. ~(q \in 1 .. m /\ r = n)  BY <4>3 DEF t
      <4> QED  BY <3>8, <4>5, <4>6, <4>7, <4>8
    <3> HIDE DEF Has, Of, Once, Apart, m
    <3>13. Good(u, n)  BY <3>5, <3>10, <3>11, <3>12
    <3> QED  BY <2>0, <3>13 DEF u
  <2> QED  BY <2>1, <2>2
<1>5. Good(flat, k)
  <2>1. k \in Nat /\ k /= 0  OBVIOUS
  <2> HIDE DEF R
  <2>2. \A i \in 1 .. k : i - 1 \in R => i \in R  BY <1>4
  <2>3. \A i \in 0 .. k : i \in R  BY <1>3, <2>1, <2>2, Throughout
  <2>4. k \in R  BY <2>1, <2>3
  <2> HIDE DEF Good
  <2> QED  BY <1>2, <2>1, <2>4 DEF R
<1>6. DOMAIN flat = 1 .. Len(flat)  BY <1>5
<1>7. Once(flat)  BY <1>6
<1> HIDE DEF Once, Has
<1>8. Of(flat, k) /\ Apart(k)  BY <1>5, <1>7
<1>9. Covers(lists, flat)  BY <1>6, <1>8 DEF Covers
<1>10. Distinct(lists)  BY <1>8 DEF Distinct
<1> QED  BY <1>9, <1>10

-----------------------------------------------------------------------------
(* The training step.                                                      *)

Prompts == Cardinality(Samples)
Row == [prompt : Samples, hints : Nat, reward : Rewards, len : 1 .. MaxTokenLen]

\* Which prompts the search is called with, and where it has returned.
Called ==
  /\ ~setting.adaptive => batch = {}
  /\ setting.adaptive /\ setting.mode = "guided" =>
       batch = Samples /\ (stage /= "generate" => Returned)
  /\ setting.adaptive /\ setting.mode = "selective" =>
       IF stage \in {"generate", "balance", "reward", "selective"}
         THEN batch = {}
         ELSE /\ batch = {u \in Samples : best[u] <= HardThreshold}
              /\ stage /= "guided" /\ batch /= {} => Returned

\* Where the step is, in which mode.
Phase ==
  /\ setting \in Settings
  /\ stage \in {"generate", "balance", "reward", "selective", "guided", "gate", "old", "advantage",
               "update", "done", "raised"}
  /\ stage \in {"selective", "guided", "raised"} => setting.mode = "selective"
  /\ stage = "gate" => setting.mode = "gate"
  /\ Called

\* The groups of the rows are whole from the beginning.
Grouped ==
  /\ uid \in [Step!Rows -> Samples]
  /\ \A u \in Samples : Cardinality(Step!RowsOf(u)) = N
  /\ stage = "generate" => \A i \in Step!Rows : uid[i] = Step!RepeatInterleaved(i, N)

\* A rollout stands in a row of its prompt, with the hints it should have had.
Aligned(i) ==
  /\ rollouts[i].prompt = uid[i]
  /\ rollouts[i].hints = IF offpolicy[i] THEN Step!HintsOf(uid[i]) ELSE Step!HintsBefore(uid[i])
Filled ==
  /\ stage = "generate" => rollouts = [i \in Step!Rows |-> Step!NoRollout]
  /\ stage /= "generate" => rollouts \in [Step!Rows -> Row] /\ \A i \in Step!Rows : Aligned(i)
  /\ stage = "balance" => \A i \in Step!Rows : rollouts[i].len = setting.lengths[i]

\* Rewards and log-probabilities are those of the rollouts once they are there.
Scored ==
  /\ scores \in [Step!Rows -> Rewards \union {0}]
  /\ stage \notin {"generate", "balance", "reward"} =>
       \A i \in Step!Rows : scores[i] = rollouts[i].reward
  /\ old = IF stage \in {"advantage", "update", "done"} THEN rollouts
                                                       ELSE [i \in Step!Rows |-> Step!NoRollout]

\* Which groups are off-policy, and while it is to be decided, which are hard.
Replaced(u) == /\ setting.mode = "selective" /\ stage \in {"old", "advantage", "update", "done"}
               /\ best[u] <= HardThreshold
Hard ==
  /\ hard \in Seq(Samples) /\ Len(hard) <= Prompts
  /\ \A g, h \in DOMAIN hard : hard[g] = hard[h] => g = h
  /\ \A u \in Samples : (\E h \in DOMAIN hard : hard[h] = u) <=> best[u] <= HardThreshold
Selected ==
  /\ offpolicy \in [Step!Rows -> BOOLEAN] /\ \A i \in Step!Rows : offpolicy[i] <=> Replaced(uid[i])
  /\ best \in [Samples -> Rewards \union {0}] /\ hard \in Seq(Samples)
  /\ stage \in {"balance", "reward", "selective", "guided"} => \A u \in Samples :
       /\ \E i \in Step!RowsOf(u) : rollouts[i].reward = best[u]
       /\ \A i \in Step!RowsOf(u) : rollouts[i].reward <= best[u]
  /\ stage = "guided" => Hard /\ hard /= <<>>

\* A row adds its terms in one optimizer step, weighed by the size of one micro-batch.
Trained(i) == \E turn \in 1 .. Step!NumSteps, n \in Nat \ {0} :
                loss[i] = Step!Terms(i, turn, <<n, MiniSize * n>>)
Learned ==
  /\ opd \in [Step!Rows -> BOOLEAN] /\ teacher \in [Samples -> Nat] /\ DOMAIN loss = Step!Rows
  /\ advantages \in [Step!Rows -> Int]
  /\ stage \in {"update", "done"} => \A i \in Step!Rows :
       advantages[i] = N * scores[i] - Step!GroupMean(uid[i])
  /\ stage = "done" => \A i \in Step!Rows : Trained(i)

Searched == setting.adaptive => SearchInv

TableInv == Phase /\ Grouped /\ Filled /\ Scored /\ Selected /\ Learned /\ Searched

LEMMA Sizes ==
  /\ Prompts \in Nat \ {0} /\ Samples = 1 .. Prompts /\ IsFiniteSet(Samples)
  /\ N \in Nat \ {0} /\ TeacherN \in Nat \ {0} /\ HardThreshold \in Nat
  /\ Step!Uids = Samples /\ Step!Rows = 1 .. Prompts * N /\ Prompts * N \in Nat \ {0}
  /\ IsFiniteSet(Step!Rows) /\ Cardinality(Step!Rows) = Prompts * N
  /\ Rewards \subseteq Nat
  /\ WorldSize \in Nat \ {0} /\ Step!Ranks = 1 .. WorldSize
  /\ Step!Share \in Nat \ {0} /\ WorldSize * Step!Share = Prompts * N
<1>1. /\ IsFiniteSet(Samples) /\ Samples = 1 .. Prompts /\ Samples /= {}
      /\ {N, TeacherN} \subseteq Nat \ {0} /\ Rewards \subseteq Nat /\ HardThreshold \in Nat
      /\ WorldSize \in Nat \ {0}
      /\ Cardinality(1 .. Prompts * N) % WorldSize = 0
  BY AdaptiveStepAssumption DEF AdaptiveStepAssumption, Prompts
<1>2. Prompts \in Nat \ {0}
  <2>1. Prompts \in Nat  BY <1>1, FS_CardinalityType DEF Prompts
  <2> QED  BY <1>1, <2>1
<1>3. N \in Nat \ {0} /\ TeacherN \in Nat \ {0}  BY <1>1
<1>4. Prompts * N \in Nat \ {0}
  <2>1. 1 * N <= Prompts * N /\ Prompts * N \in Int  BY <1>2, <1>3, TimesGrows
  <2> QED  BY <1>3, <2>1
<1>5. Step!Uids = Samples /\ Step!Rows = 1 .. Prompts * N
  BY <1>1 DEF Step!Uids, Step!Rows, Prompts
<1>6. IsFiniteSet(1 .. Prompts * N) /\ Cardinality(1 .. Prompts * N) = Prompts * N
  BY <1>4, FS_Interval
<1>7. (Prompts * N) % WorldSize = 0  BY <1>1, <1>6
<1>8. Step!Share = (Prompts * N) \div WorldSize /\ Step!Ranks = 1 .. WorldSize
  BY DEF Step!Share, Step!Ranks, Prompts
<1> DEFINE n == Prompts * N
<1>9. n \div WorldSize \in Nat /\ WorldSize * (n \div WorldSize) = n
  <2>1. n \in Nat /\ n % WorldSize = 0  BY <1>4, <1>7
  <2> HIDE DEF n
  <2> QED  BY <1>1, <2>1
<1>10. Step!Share /= 0  BY <1>1, <1>4, <1>8, <1>9
<1> QED  BY <1>1, <1>2, <1>3, <1>4, <1>5, <1>6, <1>8, <1>9, <1>10

\* The hints that are given are numbers of actions.
LEMMA HintsAreNumbers ==
  ASSUME Phase, Searched, NEW u \in Samples
  PROVE  /\ Step!FixedHints(Actions[u]) \in Nat
         /\ (setting.adaptive => Returned /\ u \in batch) => Step!HintsOf(u) \in Nat
<1>1. Actions[u] \in Nat  BY GuidanceAssumption DEF GuidanceAssumption
<1>2. FixedK \in Int /\ RatioNum \in Nat /\ RatioDen \in Nat \ {0}
  BY AdaptiveStepAssumption DEF AdaptiveStepAssumption
<1>3. Step!FixedHints(Actions[u]) \in Nat
  <2> DEFINE n == Actions[u]
             share == (n * RatioNum + RatioDen - 1) \div RatioDen
  <2>1. share \in Nat
    <3>1. n * RatioNum \in Nat  BY <1>1, <1>2
    <3>2. n * RatioNum + RatioDen - 1 \in Nat  BY <1>2, <3>1
    <3> DEFINE m == n * RatioNum + RatioDen - 1
    <3> HIDE DEF m, n
    <3>3. m \div RatioDen \in Nat  BY <1>2, <3>2 DEF m
    <3> QED  BY <3>3 DEF m
  <2>2. FixedK >= 0 => Step!Min({FixedK, n}) \in Nat
    <3> SUFFICES ASSUME FixedK >= 0 PROVE Step!Min({FixedK, n}) \in Nat  OBVIOUS
    <3>1. \E x \in {FixedK, n} : \A y \in {FixedK, n} : x <= y  BY <1>1, <1>2
    <3>2. Step!Min({FixedK, n}) \in {FixedK, n}  BY <3>1 DEF Step!Min
    <3> QED  BY <1>1, <1>2, <3>2
  <2> HIDE DEF n, share
  <2>3. Step!FixedHints(n) \in {0, share, n, Step!Min({FixedK, n})}
    BY DEF Step!FixedHints, share
  <2>4. CASE FixedK >= 0 \/ Step!FixedHints(n) \in {0, share, n}
    BY <1>1, <2>1, <2>2, <2>3, <2>4 DEF n
  <2>5. CASE ~(FixedK >= 0)
    <3>1. FixedK < 0  BY <1>2, <2>5
    <3>2. Step!FixedHints(n) \in {0, share, n}  BY <3>1 DEF Step!FixedHints, share
    <3> QED  BY <1>1, <2>1, <3>2 DEF n
  <2> QED  BY <2>4, <2>5 DEF n
<1>4. ASSUME setting.adaptive, Returned, u \in batch PROVE optimal[u] \in Nat
  <2>1. SearchInv  BY <1>4 DEF Searched
  <2>2. optimal[u] = WithOffset(u)  BY <1>4, <2>1 DEF SearchInv, ResultInv
  <2>3. lo[u] \in Nat /\ Offset \in Int  BY <2>1, GuidanceAssumption DEF SearchInv, TypeOK, GuidanceAssumption
  <2> QED  BY <1>1, <2>2, <2>3 DEF WithOffset
<1> QED  BY <1>3, <1>4 DEF Step!HintsOf

\* Row i of N for each prompt belongs to one of the prompts.
LEMMA Interleaved ==
  /\ \A i \in Step!Rows : Step!RepeatInterleaved(i, N) \in Samples
  /\ \A u \in Samples : {i \in Step!Rows : Step!RepeatInterleaved(i, N) = u} = ((u - 1) * N + 1) .. (u * N)
  /\ \A u \in Samples : Cardinality(((u - 1) * N + 1) .. (u * N)) = N
<1>1. \A i \in Step!Rows : i \in Nat \ {0} /\ i <= Prompts * N  BY Sizes
<1>2. \A u \in Samples : u \in Nat \ {0} /\ u <= Prompts  BY Sizes
<1>3. \A i \in Step!Rows : Step!RepeatInterleaved(i, N) \in Samples  BY Sizes, Places
<1>4. ASSUME NEW u \in Samples
      PROVE  /\ {i \in Step!Rows : Step!RepeatInterleaved(i, N) = u} = ((u - 1) * N + 1) .. (u * N)
             /\ Cardinality(((u - 1) * N + 1) .. (u * N)) = N
  <2> DEFINE a == (u - 1) * N
             b == u * N
  <2>1. a \in Nat /\ b \in Nat /\ b - a = N /\ b <= Prompts * N
    <3>1. u \in Nat \ {0} /\ u <= Prompts  BY <1>2
    <3>2. b <= Prompts * N  BY <3>1, Sizes, TimesGrows
    <3>3. a = b - N /\ a \in Nat /\ b \in Nat  BY <3>1, Sizes
    <3> QED  BY <3>2, <3>3, Sizes
  <2>2. \A i \in Step!Rows : Step!RepeatInterleaved(i, N) = u <=> a < i /\ i <= b
    BY <1>1, <1>2, Sizes, Repeated
  <2> HIDE DEF a, b
  <2>3. Step!Rows = 1 .. Prompts * N /\ Prompts * N \in Nat  BY Sizes
  <2> DEFINE n == Prompts * N
  <2> HIDE DEF n
  <2>4. {i \in Step!Rows : Step!RepeatInterleaved(i, N) = u} = (a + 1) .. b
    <3>1. Step!Rows = 1 .. n /\ n \in Nat /\ b <= n  BY <2>1, <2>3 DEF n
    <3>2. \A i : i \in (a + 1) .. b <=> i \in 1 .. n /\ a < i /\ i <= b  BY <2>1, <3>1
    <3> QED  BY <2>2, <3>1, <3>2
  <2>5. Cardinality((a + 1) .. b) = N
    <3>1. a + 1 \in Int /\ b \in Int /\ ~(a + 1 > b) /\ b - (a + 1) + 1 = N
      BY <2>1, Sizes
    <3> QED  BY <3>1, FS_Interval
  <2> QED  BY <2>4, <2>5 DEF a, b
<1> QED  BY <1>3, <1>4

LEMMA InitTable == StepInit => TableInv
<1> SUFFICES ASSUME StepInit PROVE TableInv  OBVIOUS
<1>1. /\ setting \in Settings /\ stage = "generate"
      /\ uid = [i \in Step!Rows |-> Step!RepeatInterleaved(i, N)]
      /\ rollouts = [i \in Step!Rows |-> Step!NoRollout] /\ old = [i \in Step!Rows |-> Step!NoRollout]
      /\ scores = [i \in Step!Rows |-> 0]
      /\ offpolicy = [i \in Step!Rows |-> FALSE] /\ opd = [i \in Step!Rows |-> FALSE]
      /\ advantages = [i \in Step!Rows |-> 0] /\ loss = [i \in Step!Rows |-> {}]
      /\ hard = <<>> /\ teacher = [u \in Samples |-> 0] /\ best = [u \in Samples |-> 0]
  BY Sizes DEF StepInit, Step!Init
<1>2. Phase
  <2>1. batch = IF setting.adaptive /\ setting.mode = "guided" THEN Samples ELSE {}  BY DEF StepInit
  <2> QED  BY <1>1, <2>1 DEF Phase, Called
<1>3. Grouped
  <2>1. uid \in [Step!Rows -> Samples]  BY <1>1, Interleaved
  <2>2. \A u \in Samples : Step!RowsOf(u) = {i \in Step!Rows : Step!RepeatInterleaved(i, N) = u}
    BY <1>1 DEF Step!RowsOf
  <2> QED  BY <1>1, <2>1, <2>2, Interleaved DEF Grouped
<1>4. Filled  BY <1>1 DEF Filled
<1>5. Scored  BY <1>1 DEF Scored
<1>6. Selected  BY <1>1 DEF Selected, Replaced
<1>7. Learned  BY <1>1 DEF Learned
<1>8. Searched  BY FreshSearchInv, GuidanceAssumption DEF StepInit, Searched
<1> QED  BY <1>2, <1>3, <1>4, <1>5, <1>6, <1>7, <1>8 DEF TableInv

\* What the search found stands while the step is under way; it is called once.
LEMMA SearchStands ==
  ASSUME TableInv, UNCHANGED vars, UNCHANGED setting
  PROVE  /\ Searched' /\ Returned' = Returned
         /\ \A u : Step!HintsBefore(u)' = Step!HintsBefore(u) /\ Step!HintsOf(u)' = Step!HintsOf(u)
<1>1. UNCHANGED <<batch, lo, hi, step, rollout, success, optimal, possible, sure, failed, passed>>
  BY DEF vars, boundVars, policyVars, historyVars
<1>2. SearchInv => SearchInv'
  BY <1>1 DEF SearchInv, TypeOK, Justified, Bracketed, StepInv, Active, Middle, ResultInv, Returned, WithOffset
<1> QED  BY <1>1, <1>2 DEF TableInv, Searched, Returned, Step!HintsBefore, Step!HintsOf

LEMMA TrainStands ==
  ASSUME TableInv, Train, stage /= "selective", UNCHANGED setting
  PROVE  /\ UNCHANGED vars /\ Searched' /\ Returned' = Returned /\ (AtSearch => Returned)
         /\ \A u : Step!HintsBefore(u)' = Step!HintsBefore(u) /\ Step!HintsOf(u)' = Step!HintsOf(u)
<1>1. UNCHANGED vars /\ (AtSearch => Returned)  BY DEF Train, vars
<1> QED  BY <1>1, SearchStands

\* The module FiniteSets of GuidedStep is the one of this module.
LEMMA SameCardinality == \A S : Step!Cardinality(S) = Cardinality(S)
BY DEF Step!Cardinality, Cardinality

LEMMA Groups ==
  ASSUME Grouped, NEW u \in Samples
  PROVE  /\ Step!RowsOf(u) \in SUBSET Step!Rows /\ IsFiniteSet(Step!RowsOf(u)) /\ Step!RowsOf(u) /= {}
         /\ Cardinality(Step!RowsOf(u)) = N
<1>1. Step!RowsOf(u) \in SUBSET Step!Rows  BY DEF Step!RowsOf
<1>2. IsFiniteSet(Step!RowsOf(u))  BY <1>1, Sizes, FS_Subset
<1>3. Cardinality(Step!RowsOf(u)) = N  BY DEF Grouped
<1> QED  BY <1>1, <1>2, <1>3, Sizes, FS_EmptySet

LEMMA SettingLengths ==
  ASSUME Phase
  PROVE  /\ setting.mode \in {"guided", "selective", "gate"} /\ setting.balance \in BOOLEAN
         /\ setting.adaptive \in BOOLEAN /\ (setting.mode = "gate" => ~setting.adaptive)
         /\ setting.lengths \in [Step!Rows -> 1 .. MaxTokenLen] /\ MaxTokenLen \in Nat
BY Sizes, AdaptiveStepAssumption DEF AdaptiveStepAssumption, Phase, Prompts

LEMMA GenerateKeeps == TableInv /\ Train /\ Step!Generate => TableInv'
<1> SUFFICES ASSUME TableInv, Train, Step!Generate PROVE TableInv'  OBVIOUS
<1>1. PICK r \in [Step!Rows -> Rewards] :
        rollouts' = [i \in Step!Rows |-> Step!Rollout(Step!RepeatInterleaved(i, N), Step!HintsOfRow(i),
                                                          r[i], setting.lengths[i])]
  BY DEF Step!Generate
<1>2. /\ stage = "generate" /\ stage' = "balance"
      /\ best' = [u \in Samples |-> Step!Max({rollouts'[i].reward : i \in Step!RowsOf(u)})]
      /\ UNCHANGED <<setting, uid, scores, offpolicy, opd, old, advantages, loss, hard, teacher>>
  BY Sizes DEF Step!Generate, Step!learnVars
<1>3. UNCHANGED vars /\ (AtSearch => Returned)  BY <1>2, TrainStands
<1>4. /\ Searched' /\ Returned' = Returned
      /\ \A u : Step!HintsBefore(u)' = Step!HintsBefore(u) /\ Step!HintsOf(u)' = Step!HintsOf(u)
  BY <1>2, TrainStands
<1>5. Phase'  BY <1>2, <1>3, <1>4 DEF TableInv, Phase, Called, AtSearch, vars
<1>6. Grouped'  BY <1>2 DEF TableInv, Grouped, Step!RowsOf
<1>7. \A u \in Samples : Step!HintsBefore(u) \in Nat
  <2>1. setting.mode = "guided" /\ setting.adaptive => Returned /\ batch = Samples
    BY <1>2, <1>3 DEF AtSearch, TableInv, Phase, Called
  <2>2. setting.mode = "guided" => \A u \in Samples : Step!HintsOf(u) \in Nat
    BY <2>1, HintsAreNumbers DEF TableInv
  <2> QED  BY <2>2 DEF Step!HintsBefore
<1>8. ASSUME NEW i \in Step!Rows
      PROVE  /\ uid[i] \in Samples /\ rollouts'[i].prompt = uid[i] /\ rollouts'[i].reward = r[i] /\ r[i] \in Rewards
             /\ rollouts'[i].hints = Step!HintsBefore(uid[i]) /\ rollouts'[i] \in Row
             /\ rollouts'[i].len = setting.lengths[i]
  <2>1. uid[i] \in Samples /\ uid[i] = Step!RepeatInterleaved(i, N)  BY <1>2 DEF TableInv, Grouped
  <2>2. setting.lengths[i] \in 1 .. MaxTokenLen  BY SettingLengths DEF TableInv
  <2>3. rollouts'[i] = [prompt |-> uid[i], hints |-> Step!HintsBefore(uid[i]), reward |-> r[i],
                        len |-> setting.lengths[i]]
    BY <1>1, <2>1 DEF Step!Rollout, Step!HintsOfRow
  <2>4. r[i] \in Rewards /\ Step!HintsBefore(uid[i]) \in Nat  BY <1>7, <2>1
  <2> QED  BY <2>1, <2>2, <2>3, <2>4 DEF Row
<1>9. \A i \in Step!Rows : ~offpolicy[i]
  <2>1. \A u : ~Replaced(u)  BY <1>2 DEF Replaced
  <2> QED  BY <2>1 DEF TableInv, Selected
<1>10. Filled'
  <2>1. rollouts' \in [Step!Rows -> Row]  BY <1>1, <1>8
  <2>2. \A i \in Step!Rows : Aligned(i)'
    BY <1>2, <1>4, <1>8, <1>9 DEF Aligned
  <2> QED  BY <1>2, <1>8, <2>1, <2>2 DEF Filled
<1>11. Scored'  BY <1>2 DEF TableInv, Scored
<1>12. ASSUME NEW u \in Samples
       PROVE  /\ \E i \in Step!RowsOf(u) : rollouts'[i].reward = best'[u]
              /\ \A i \in Step!RowsOf(u) : rollouts'[i].reward <= best'[u]
              /\ best'[u] \in Rewards
  <2> DEFINE T == Step!RowsOf(u)
             f == [i \in Step!Rows |-> rollouts'[i].reward]
             S == {f[i] : i \in T}
  <2>1. T \in SUBSET Step!Rows /\ IsFiniteSet(T) /\ T /= {}  BY Groups DEF TableInv
  <2>2. ASSUME NEW i \in T PROVE f[i] = rollouts'[i].reward /\ f[i] \in Rewards /\ f[i] \in Int
    <3>1. i \in Step!Rows  BY <2>1
    <3>2. f[i] = rollouts'[i].reward /\ f[i] \in Rewards  BY <1>8, <3>1
    <3>3. \A x \in Rewards : x \in Int  BY Sizes
    <3> HIDE DEF f
    <3> QED  BY <3>2, <3>3
  <2>3. best'[u] = Step!Max({rollouts'[i].reward : i \in T})  BY <1>2
  <2>4. {rollouts'[i].reward : i \in T} = S  BY <2>2
  <2> HIDE DEF T, f
  <2>5. /\ \E x \in T : Step!Max(S) = f[x]
        /\ \A x \in T : f[x] <= Step!Max(S)
    BY <2>1, <2>2, MaxIsLargest
  <2> HIDE DEF S
  <2>6. /\ \E i \in T : rollouts'[i].reward = best'[u]
        /\ \A i \in T : rollouts'[i].reward <= best'[u]
        /\ best'[u] \in Rewards
    BY <2>2, <2>3, <2>4, <2>5
  <2> QED  BY <2>6 DEF T
<1>13. Selected'
  <2>1. \A u : ~Replaced(u)'  BY <1>2 DEF Replaced
  <2>2. offpolicy' \in [Step!Rows -> BOOLEAN] /\ \A i \in Step!Rows : offpolicy'[i] <=> Replaced(uid[i])'
    BY <1>2, <1>9, <2>1 DEF TableInv, Selected
  <2>3. best' \in [Samples -> Rewards \union {0}]
    <3>1. best' = [u \in Samples |-> best'[u]]  BY <1>2
    <3> QED  BY <1>12, <3>1
  <2>4. hard' \in Seq(Samples)  BY <1>2 DEF TableInv, Selected
  <2>5. \A u \in Samples : Step!RowsOf(u)' = Step!RowsOf(u)  BY <1>2 DEF Step!RowsOf
  <2> QED  BY <1>2, <1>12, <2>2, <2>3, <2>4, <2>5 DEF Selected
<1>14. Learned'  BY <1>2 DEF TableInv, Learned
<1> QED  BY <1>4, <1>5, <1>6, <1>10, <1>11, <1>13, <1>14 DEF TableInv

LEMMA BalanceKeeps == Step!ListsComplete /\ TableInv /\ Train /\ Step!Balance => TableInv'
<1> SUFFICES ASSUME Step!ListsComplete, TableInv, Train, Step!Balance PROVE TableInv'  OBVIOUS
<1> DEFINE idx == IF setting.balance THEN Step!GlobalIdx(Step!RowLengths, WorldSize)
                                     ELSE [i \in Step!Rows |-> i]
<1>1. /\ stage = "balance" /\ stage' = "reward"
      /\ uid' = [i \in Step!Rows |-> uid[idx[i]]]
      /\ rollouts' = [i \in Step!Rows |-> rollouts[idx[i]]]
      /\ UNCHANGED <<setting, scores, offpolicy, opd, old, advantages, loss, hard, teacher, best>>
  BY DEF Step!Balance, Step!learnVars
<1>2. /\ idx \in [Step!Rows -> Step!Rows]
      /\ \A i \in Step!Rows : \E j \in Step!Rows : idx[j] = i
      /\ \A j, k \in Step!Rows : idx[j] = idx[k] => j = k
  <2>1. CASE ~setting.balance  BY <2>1
  <2>2. CASE setting.balance
    <3>1. Step!RowLengths = setting.lengths
      <4>1. \A i \in Step!Rows : rollouts[i].len = setting.lengths[i]  BY <1>1 DEF TableInv, Filled
      <4>2. setting.lengths = [i \in Step!Rows |-> setting.lengths[i]]  BY SettingLengths DEF TableInv
      <4> QED  BY <4>1, <4>2 DEF Step!RowLengths
    <3>2. Step!Arranges(idx, Step!Rows)
      BY <2>2, <3>1 DEF Step!ListsComplete, TableInv, Phase
    <3> HIDE DEF idx
    <3>3. 1 .. Cardinality(Step!Rows) = Step!Rows  BY Sizes
    <3>4. idx \in [Step!Rows -> Step!Rows]  BY <3>2, <3>3, SameCardinality DEF Step!Arranges
    <3>5. DOMAIN idx = Step!Rows  BY <3>4
    <3> QED  BY <3>2, <3>4, <3>5 DEF Step!Arranges
  <2> QED  BY <2>1, <2>2
<1> HIDE DEF idx
<1>3. UNCHANGED vars /\ (AtSearch => Returned)  BY <1>1, TrainStands
<1>4. /\ Searched' /\ Returned' = Returned
      /\ \A u : Step!HintsBefore(u)' = Step!HintsBefore(u) /\ Step!HintsOf(u)' = Step!HintsOf(u)
  BY <1>1, TrainStands
<1>5. Phase'  BY <1>1, <1>3, <1>4 DEF TableInv, Phase, Called, AtSearch, vars
<1>6. uid' \in [Step!Rows -> Samples]  BY <1>1, <1>2 DEF TableInv, Grouped
<1>7. \A u \in Samples : \A i \in Step!Rows : i \in Step!RowsOf(u)' <=> idx[i] \in Step!RowsOf(u)
  BY <1>1, <1>2 DEF Step!RowsOf
<1>8. Grouped'
  <2>1. ASSUME NEW u \in Samples PROVE Cardinality(Step!RowsOf(u)') = N
    <3> DEFINE S == Step!RowsOf(u)'
               T == Step!RowsOf(u)
               f == [i \in S |-> idx[i]]
    <3>1. S \in SUBSET Step!Rows  BY DEF Step!RowsOf
    <3>2. T \in SUBSET Step!Rows /\ IsFiniteSet(T) /\ Cardinality(T) = N  BY Groups DEF TableInv
    <3>3. \A i \in Step!Rows : i \in S <=> idx[i] \in T  BY <1>7
    <3> HIDE DEF S, T
    <3>4. f \in Bijection(S, T)
      <4>1. f \in [S -> T]  BY <3>1, <3>3
      <4>2. \A i, j \in S : f[i] = f[j] => i = j  BY <1>2, <3>1
      <4>3. \A t \in T : \E i \in S : f[i] = t  BY <1>2, <3>2, <3>3
      <4> QED  BY <4>1, <4>2, <4>3 DEF Bijection, Injection, Surjection, IsInjective
    <3>5. IsFiniteSet(S)  BY <3>1, Sizes, FS_Subset
    <3>6. Cardinality(T) = Cardinality(S)  BY <3>4, <3>5, FS_Bijection DEF ExistsBijection
    <3> QED  BY <3>2, <3>6 DEF S
  <2> QED  BY <1>1, <1>6, <2>1 DEF Grouped
<1>9. Filled'
  <2>1. rollouts \in [Step!Rows -> Row] /\ \A i \in Step!Rows : Aligned(i)
    BY <1>1 DEF TableInv, Filled
  <2>2. rollouts' \in [Step!Rows -> Row]  BY <1>1, <1>2, <2>1
  <2>3. \A i \in Step!Rows : ~offpolicy[i]  BY <1>1 DEF TableInv, Selected, Replaced
  <2>4. ASSUME NEW i \in Step!Rows PROVE Aligned(i)'
    <3>1. Aligned(idx[i]) /\ idx[i] \in Step!Rows  BY <1>2, <2>1
    <3>2. uid'[i] = uid[idx[i]] /\ rollouts'[i] = rollouts[idx[i]]  BY <1>1
    <3>3. ~offpolicy'[i] /\ ~offpolicy[idx[i]]  BY <1>1, <2>3, <3>1
    <3> QED  BY <1>4, <3>1, <3>2, <3>3 DEF Aligned
  <2> QED  BY <1>1, <2>2, <2>4 DEF Filled
<1>10. Scored'  BY <1>1 DEF TableInv, Scored
<1>11. Selected'
  <2>1. offpolicy' \in [Step!Rows -> BOOLEAN] /\ \A i \in Step!Rows : offpolicy'[i] <=> Replaced(uid[i])'
    BY <1>1 DEF TableInv, Selected, Replaced
  <2>2. best' \in [Samples -> Rewards \union {0}] /\ hard' \in Seq(Samples)
    BY <1>1 DEF TableInv, Selected
  <2>3. ASSUME NEW u \in Samples
        PROVE  /\ \E i \in Step!RowsOf(u)' : rollouts'[i].reward = best'[u]
               /\ \A i \in Step!RowsOf(u)' : rollouts'[i].reward <= best'[u]
    <3>1. /\ \E i \in Step!RowsOf(u) : rollouts[i].reward = best[u]
          /\ \A i \in Step!RowsOf(u) : rollouts[i].reward <= best[u]
      BY <1>1 DEF TableInv, Selected
    <3>2. Step!RowsOf(u) \subseteq Step!Rows /\ Step!RowsOf(u)' \subseteq Step!Rows  BY DEF Step!RowsOf
    <3>3. \A i \in Step!Rows : rollouts'[i] = rollouts[idx[i]] /\ idx[i] \in Step!Rows  BY <1>1, <1>2
    <3>4. best' = best  BY <1>1
    <3> DEFINE S == Step!RowsOf(u)'
               T == Step!RowsOf(u)
    <3>5. \A i \in Step!Rows : i \in S <=> idx[i] \in T  BY <1>7
    <3> HIDE DEF S, T
    <3>6. \A i \in S : rollouts'[i].reward <= best'[u]  BY <3>1, <3>2, <3>3, <3>4, <3>5 DEF S, T
    <3>7. \E i \in S : rollouts'[i].reward = best'[u]
      <4>1. PICK t \in T : rollouts[t].reward = best[u]  BY <3>1 DEF T
      <4>2. PICK i \in Step!Rows : idx[i] = t  BY <1>2, <3>2 DEF T
      <4> QED  BY <3>3, <3>4, <3>5, <4>1, <4>2
    <3> QED  BY <3>6, <3>7 DEF S
  <2> QED  BY <1>1, <2>1, <2>2, <2>3 DEF Selected
<1>12. Learned'  BY <1>1 DEF TableInv, Learned
<1> QED  BY <1>4, <1>5, <1>8, <1>9, <1>10, <1>11, <1>12 DEF TableInv

\* Steps that leave the rows where they are.
LEMMA RewardKeeps == TableInv /\ Train /\ Step!ComputeReward => TableInv'
<1> SUFFICES ASSUME TableInv, Train, Step!ComputeReward PROVE TableInv'  OBVIOUS
<1>1. /\ stage = "reward"
      /\ stage' = IF setting.mode \in {"selective", "gate"} THEN setting.mode ELSE "old"
      /\ scores' = [i \in Step!Rows |-> rollouts[i].reward]
      /\ UNCHANGED <<setting, uid, rollouts, offpolicy, opd, old, advantages, loss, hard, teacher, best>>
  BY DEF Step!ComputeReward, Step!learnVars
<1>2. UNCHANGED vars /\ (AtSearch => Returned)  BY <1>1, TrainStands
<1>3. /\ Searched' /\ Returned' = Returned
      /\ \A u : Step!HintsBefore(u)' = Step!HintsBefore(u) /\ Step!HintsOf(u)' = Step!HintsOf(u)
  BY <1>1, TrainStands
<1>4. Phase'  BY <1>1, <1>2, <1>3, SettingLengths DEF TableInv, Phase, Called, AtSearch, vars
<1>5. Grouped'  BY <1>1 DEF TableInv, Grouped, Step!RowsOf
<1>6. stage' \in {"selective", "gate", "old"} /\ (stage' = "old" => setting.mode /= "selective")
      /\ (stage' = "selective" => setting.mode = "selective")
  BY <1>1
<1>7. Filled'
  <2>1. rollouts \in [Step!Rows -> Row] /\ \A i \in Step!Rows : Aligned(i)
    BY <1>1 DEF TableInv, Filled
  <2>2. \A i \in Step!Rows : Aligned(i)'  BY <1>1, <1>3, <2>1 DEF Aligned
  <2> QED  BY <1>1, <1>6, <2>1, <2>2 DEF Filled
<1>8. Scored'
  <2>1. \A i \in Step!Rows : rollouts[i].reward \in Rewards  BY <1>1 DEF TableInv, Filled, Row
  <2> QED  BY <1>1, <1>6, <2>1 DEF TableInv, Scored
<1>9. Selected'
  <2>1. \A u : ~Replaced(u) /\ ~Replaced(u)'  BY <1>1, <1>6 DEF Replaced
  <2>2. \A u : Step!RowsOf(u)' = Step!RowsOf(u)  BY <1>1 DEF Step!RowsOf
  <2> QED  BY <1>1, <1>6, <2>1, <2>2 DEF TableInv, Selected
<1>10. Learned'  BY <1>1, <1>6 DEF TableInv, Learned
<1> QED  BY <1>3, <1>4, <1>5, <1>7, <1>8, <1>9, <1>10 DEF TableInv

\* The rows of a set in their order.
LEMMA Ordered ==
  ASSUME Step!ListsComplete, NEW S \in SUBSET Step!Rows
  PROVE  LET list == Step!InOrder(S) IN
         /\ Cardinality(S) \in Nat /\ list \in [1 .. Cardinality(S) -> S]
         /\ list \in Seq(Step!Rows) /\ Len(list) = Cardinality(S)
         /\ \A i \in S : \E j \in 1 .. Cardinality(S) : list[j] = i
         /\ \A j, k \in 1 .. Cardinality(S) : list[j] = list[k] => j = k
<1> DEFINE list == Step!InOrder(S)
<1>1. Cardinality(S) \in Nat  BY Sizes, FS_Subset, FS_CardinalityType
<1>2. Step!Arranges(list, S)  BY DEF Step!ListsComplete
<1> HIDE DEF list
<1>3. list \in [1 .. Cardinality(S) -> S]  BY <1>2, SameCardinality DEF Step!Arranges
<1>4. list \in Seq(S) /\ Len(list) = Cardinality(S)  BY <1>1, <1>3
<1>5. list \in Seq(Step!Rows)  BY <1>1, <1>3
<1>6. DOMAIN list = 1 .. Cardinality(S)  BY <1>3
<1>7. \A i \in S : \E j \in 1 .. Cardinality(S) : list[j] = i  BY <1>2, <1>6 DEF Step!Arranges
<1>8. \A j, k \in 1 .. Cardinality(S) : list[j] = list[k] => j = k  BY <1>2, <1>6 DEF Step!Arranges
<1> QED  BY <1>1, <1>3, <1>4, <1>5, <1>7, <1>8 DEF list

\* The best reward of a group decides whether it is hard.
LEMMA HardIsBest ==
  ASSUME TableInv, stage = "selective", NEW u \in Samples
  PROVE  Step!IsHard(u) <=> best[u] <= HardThreshold
<1> DEFINE T == Step!RowsOf(u)
           S == {scores[i] : i \in T}
<1>1. T \in SUBSET Step!Rows /\ IsFiniteSet(T) /\ T /= {}  BY Groups DEF TableInv
<1>2. \A i \in T : scores[i] = rollouts[i].reward  BY <1>1 DEF TableInv, Scored
<1>3. (\E i \in T : scores[i] = best[u]) /\ \A i \in T : scores[i] <= best[u]
  BY <1>2 DEF TableInv, Selected
<1>4. \A i \in T : scores[i] \in Int
  <2>1. \A i \in Step!Rows : scores[i] \in Rewards \union {0}  BY DEF TableInv, Scored
  <2>2. \A x \in Rewards \union {0} : x \in Int  BY Sizes
  <2>3. \A i \in T : i \in Step!Rows  BY <1>1
  <2> QED  BY <2>1, <2>2, <2>3
<1>5. Step!GroupMax(u) = Step!Max(S)  BY DEF Step!GroupMax
<1> HIDE DEF T
<1>6. (\E x \in T : Step!Max(S) = scores[x]) /\ \A x \in T : scores[x] <= Step!Max(S)
  BY <1>1, <1>4, MaxIsLargest
<1> HIDE DEF S
<1>7. Step!Max(S) = best[u]  BY <1>3, <1>4, <1>6
<1> QED  BY <1>5, <1>7 DEF Step!IsHard

LEMMA SelectedHard ==
  ASSUME Step!ListsComplete, TableInv, stage = "selective"
  PROVE  LET chosen == Step!HardUids IN
         /\ chosen \in Seq(Samples) /\ Len(chosen) <= Prompts
         /\ \A g, h \in DOMAIN chosen : chosen[g] = chosen[h] => g = h
         /\ \A u \in Samples : (\E h \in DOMAIN chosen : chosen[h] = u) <=> best[u] <= HardThreshold
<1> DEFINE F == {i \in Step!Rows : Step!IsHard(uid[i]) /\ \A j \in Step!RowsOf(uid[i]) : i <= j}
           first == Step!InOrder(F)
           m == Cardinality(F)
           chosen == [h \in DOMAIN first |-> uid[first[h]]]
<1>1. chosen = Step!HardUids  BY DEF Step!HardUids
<1>2. F \in SUBSET Step!Rows  OBVIOUS
<1>3. \A i \in Step!Rows : uid[i] \in Samples /\ i \in Step!RowsOf(uid[i]) /\ i \in Nat
  BY Sizes DEF TableInv, Grouped, Step!RowsOf
<1>4. \A i, j \in F : uid[i] = uid[j] => i = j
  <2> SUFFICES ASSUME NEW i \in F, NEW j \in F, uid[i] = uid[j] PROVE i = j  OBVIOUS
  <2>1. i \in Nat /\ j \in Nat /\ i <= j /\ j <= i  BY <1>3
  <2> QED  BY <2>1
<1>5. ASSUME NEW u \in Samples, Step!IsHard(u) PROVE \E i \in F : uid[i] = u
  <2> DEFINE T == Step!RowsOf(u)
  <2>1. T \in SUBSET Step!Rows /\ T /= {} /\ \A i \in T : uid[i] = u  BY Groups DEF TableInv, Step!RowsOf
  <2> HIDE DEF T
  <2>2. T \in SUBSET Nat  BY <1>3, <2>1
  <2>3. PICK i \in T : \A j \in T : i <= j  BY <2>1, <2>2, LeastNumber
  <2>4. uid[i] = u /\ i \in Step!Rows /\ T = Step!RowsOf(uid[i])  BY <2>1, <2>3 DEF T
  <2> QED  BY <1>5, <2>3, <2>4
<1>6. \A i \in F : Step!IsHard(uid[i])  OBVIOUS
<1>7. /\ m \in Nat /\ first \in [1 .. m -> F]
      /\ \A i \in F : \E j \in 1 .. m : first[j] = i
      /\ \A j, k \in 1 .. m : first[j] = first[k] => j = k
  <2> HIDE DEF F
  <2> QED  BY <1>2, Ordered
<1> HIDE DEF F, first, m
<1>8. DOMAIN first = 1 .. m /\ DOMAIN chosen = 1 .. m  BY <1>7
<1>9. \A h \in 1 .. m : chosen[h] = uid[first[h]] /\ first[h] \in F /\ chosen[h] \in Samples
  BY <1>2, <1>3, <1>7, <1>8
<1>10. chosen \in [1 .. m -> Samples]  BY <1>8, <1>9
<1>11. \A g, h \in 1 .. m : chosen[g] = chosen[h] => g = h
  BY <1>4, <1>7, <1>9
<1> HIDE DEF chosen
<1>12. chosen \in Seq(Samples) /\ Len(chosen) = m  BY <1>7, <1>10
<1>13. m <= Prompts
  <2>1. chosen \in Injection(1 .. m, Samples)  BY <1>10, <1>11 DEF Injection, IsInjective
  <2>2. Cardinality(1 .. m) <= Cardinality(Samples)  BY <2>1, Sizes, FS_Injection
  <2>3. Cardinality(1 .. m) = m  BY <1>7, FS_Interval
  <2> QED  BY <2>2, <2>3 DEF Prompts
<1>14. ASSUME NEW u \in Samples
       PROVE  (\E h \in DOMAIN chosen : chosen[h] = u) <=> best[u] <= HardThreshold
  <2>1. Step!IsHard(u) <=> best[u] <= HardThreshold  BY HardIsBest
  <2>2. Step!IsHard(u) => \E h \in DOMAIN chosen : chosen[h] = u
    <3> SUFFICES ASSUME Step!IsHard(u) PROVE \E h \in DOMAIN chosen : chosen[h] = u  OBVIOUS
    <3>1. PICK i \in F : uid[i] = u  BY <1>5
    <3>2. PICK h \in 1 .. m : first[h] = i  BY <1>7
    <3> QED  BY <1>8, <1>9, <3>1, <3>2
  <2>3. ASSUME NEW h \in DOMAIN chosen, chosen[h] = u PROVE Step!IsHard(u)
    BY <1>6, <1>8, <1>9, <2>3
  <2> QED  BY <2>1, <2>2, <2>3
<1>15. \A g, h \in DOMAIN chosen : chosen[g] = chosen[h] => g = h  BY <1>8, <1>11
<1> QED  BY <1>1, <1>12, <1>13, <1>14, <1>15

LEMMA SelectKeeps == Step!ListsComplete /\ TableInv /\ Train /\ Step!SelectHard => TableInv'
<1> SUFFICES ASSUME Step!ListsComplete, TableInv, Train, Step!SelectHard PROVE TableInv'  OBVIOUS
<1>1. /\ stage = "selective" /\ hard' = Step!HardUids
      /\ stage' = IF hard' = <<>> THEN "old" ELSE "guided"
      /\ UNCHANGED <<setting, uid, rollouts, scores, offpolicy, opd, old, advantages, loss, teacher, best>>
  BY DEF Step!SelectHard, Step!learnVars
<1>2. /\ UNCHANGED <<lo, hi, step, rollout, success, optimal, possible, sure, failed, passed>>
      /\ batch' = IF setting.adaptive THEN Step!ToSet(hard') ELSE batch
  BY <1>1 DEF Train, GenBatch, boundVars, policyVars, historyVars
<1>3. /\ Returned' = Returned
      /\ \A u : Step!HintsBefore(u)' = Step!HintsBefore(u) /\ Step!HintsOf(u)' = Step!HintsOf(u)
  BY <1>1, <1>2 DEF Returned, Step!HintsBefore, Step!HintsOf
<1>4. setting.mode = "selective"  BY <1>1 DEF TableInv, Phase
<1>10. Hard'
  <2>1. /\ hard' \in Seq(Samples) /\ Len(hard') <= Prompts
        /\ \A g, h \in DOMAIN hard' : hard'[g] = hard'[h] => g = h
        /\ \A u \in Samples : (\E h \in DOMAIN hard' : hard'[h] = u) <=> best[u] <= HardThreshold
    BY <1>1, SelectedHard
  <2> QED  BY <1>1, <2>1 DEF Hard
<1>13. setting.adaptive => batch' = {u \in Samples : best[u] <= HardThreshold}
  <2>1. Step!ToSet(hard') = {hard'[h] : h \in DOMAIN hard'}  BY DEF Step!ToSet
  <2>2. \A h \in DOMAIN hard' : hard'[h] \in Samples  BY <1>10 DEF Hard
  <2> QED  BY <1>1, <1>2, <1>10, <2>1, <2>2 DEF Hard
<1>5. Phase'
  <2>1. hard' = <<>> => {u \in Samples : best[u] <= HardThreshold} = {}  BY <1>1, <1>10 DEF Hard
  <2> QED  BY <1>1, <1>2, <1>3, <1>4, <1>13, <2>1 DEF TableInv, Phase, Called
<1>14. Searched'
  <2> SUFFICES ASSUME setting.adaptive PROVE SearchInv'  BY <1>1 DEF Searched
  <2>1. SearchInv /\ batch = {} /\ batch' \subseteq Samples
    BY <1>1, <1>4, <1>13 DEF TableInv, Searched, Phase, Called
  <2>2. rollout = 0 /\ success = {} /\ ~Returned  BY <2>1 DEF SearchInv, StepInv, ResultInv
  <2>3. TypeOK' /\ Justified' /\ Bracketed'  BY <1>2, <2>1 DEF SearchInv, TypeOK, Justified, Bracketed
  <2>4. StepInv'
    <3>1. \A s \in Samples : \A k \in passed[s] : hi[s] <= k  BY <2>1, <2>2 DEF SearchInv, StepInv
    <3> QED  BY <1>2, <2>2, <3>1 DEF StepInv
  <2>5. ResultInv'  BY <1>3, <2>2 DEF ResultInv
  <2> QED  BY <2>3, <2>4, <2>5 DEF SearchInv
<1>6. Grouped'  BY <1>1 DEF TableInv, Grouped, Step!RowsOf
<1>7. stage' \in {"guided", "old"} /\ (stage' = "old" => hard' = <<>>) /\ (stage' = "guided" => hard' /= <<>>)
  BY <1>1
<1>8. Filled'
  <2>1. rollouts \in [Step!Rows -> Row] /\ \A i \in Step!Rows : Aligned(i)
    BY <1>1 DEF TableInv, Filled
  <2>2. \A i \in Step!Rows : Aligned(i)'  BY <1>1, <1>3, <2>1 DEF Aligned
  <2> QED  BY <1>1, <1>7, <2>1, <2>2 DEF Filled
<1>9. Scored'  BY <1>1, <1>7 DEF TableInv, Scored
<1>11. Selected'
  <2>1. \A i \in Step!Rows : ~offpolicy[i]  BY <1>1 DEF TableInv, Selected, Replaced
  <2>2. ASSUME NEW i \in Step!Rows PROVE ~Replaced(uid[i])'
    <3>1. uid[i] \in Samples /\ uid' = uid  BY <1>1 DEF TableInv, Grouped
    <3>2. CASE stage' = "guided"  BY <3>2 DEF Replaced
    <3>3. CASE hard' = <<>>
      <4>1. ~(best'[uid[i]] <= HardThreshold)  BY <1>10, <3>1, <3>3 DEF Hard
      <4> QED  BY <3>1, <4>1 DEF Replaced
    <3> QED  BY <1>7, <3>2, <3>3
  <2>3. \A u : Step!RowsOf(u)' = Step!RowsOf(u)  BY <1>1 DEF Step!RowsOf
  <2>4. hard' \in Seq(Samples)  BY <1>10 DEF Hard
  <2>5. /\ offpolicy' \in [Step!Rows -> BOOLEAN]
        /\ \A i \in Step!Rows : offpolicy'[i] <=> Replaced(uid[i])'
    BY <1>1, <2>1, <2>2 DEF TableInv, Selected
  <2> QED  BY <1>1, <1>7, <1>10, <2>3, <2>4, <2>5 DEF TableInv, Selected
<1>12. Learned'  BY <1>1, <1>7 DEF TableInv, Learned
<1> QED  BY <1>14, <1>5, <1>6, <1>8, <1>9, <1>11, <1>12 DEF TableInv

\* The rows that guided rollouts are written over: those of the hard groups, N
\* for each, in the order of the repeated hard prompts.
LEMMA HardRows ==
  ASSUME Step!ListsComplete, TableInv, stage = "guided"
  PROVE  LET idxs == Step!HardBatchIdxs
             size == Len(hard) * N
         IN  /\ size \in Nat /\ size <= Prompts * N
             /\ idxs \in [1 .. size -> Step!Rows]
             /\ \A p \in 1 .. size : uid[idxs[p]] = Step!HardPrompt(p)
             /\ \A i \in Step!Rows :
                  (\E p \in 1 .. size : idxs[p] = i) <=> best[uid[i]] <= HardThreshold
<1> DEFINE m == Len(hard)
           lists == [h \in DOMAIN hard |-> Step!InOrder(Step!RowsOf(hard[h]))]
           idxs == Step!FlattenSeq(lists)
<1>1. Hard /\ hard /= <<>>  BY DEF TableInv, Selected
<1>2. m \in Nat /\ m /= 0 /\ m <= Prompts /\ DOMAIN hard = 1 .. m /\ \A h \in 1 .. m : hard[h] \in Samples
  BY <1>1 DEF Hard
<1>3. Grouped  BY DEF TableInv
<1>4. ASSUME NEW h \in 1 .. m
      PROVE  /\ lists[h] \in Seq(Step!Rows) /\ Len(lists[h]) = N
             /\ \A j \in 1 .. N : lists[h][j] \in Step!RowsOf(hard[h])
             /\ \A i \in Step!RowsOf(hard[h]) : \E j \in 1 .. N : lists[h][j] = i
  <2> DEFINE T == Step!RowsOf(hard[h])
  <2>1. T \in SUBSET Step!Rows /\ Cardinality(T) = N  BY <1>2, <1>3, <1>4, Groups
  <2>2. lists[h] = Step!InOrder(T)  BY <1>2, <1>4
  <2> HIDE DEF T, lists
  <2>3. /\ Step!InOrder(T) \in [1 .. N -> T] /\ Step!InOrder(T) \in Seq(Step!Rows)
        /\ Len(Step!InOrder(T)) = N
        /\ \A i \in T : \E j \in 1 .. N : Step!InOrder(T)[j] = i
    BY <2>1, Ordered
  <2> QED  BY <2>2, <2>3 DEF T
<1>5. DOMAIN lists = 1 .. m  BY <1>2
<1> HIDE DEF lists
<1>6. lists = [h \in 1 .. m |-> lists[h]]
  BY <1>5 DEF lists
<1>7. lists \in Seq(Seq(Step!Rows)) /\ Len(lists) = m  BY <1>2, <1>4, <1>6
<1>8. /\ idxs \in Seq(Step!Rows) /\ Len(idxs) = m * N
      /\ \A h \in 1 .. m, j \in 1 .. N : idxs[(h - 1) * N + j] = lists[h][j]
  <2>1. m \in Nat \ {0} /\ N \in Nat /\ \A h \in 1 .. m : Len(lists[h]) = N  BY <1>2, <1>4, Sizes
  <2> HIDE DEF m
  <2> QED  BY <1>7, <2>1, Flattened
<1>9. idxs = Step!HardBatchIdxs  BY DEF Step!HardBatchIdxs, lists
<1> DEFINE size == m * N
<1>10. size \in Nat /\ size <= Prompts * N
  <2>1. size <= Prompts * N  BY <1>2, Sizes, TimesGrows
  <2> QED  BY <1>2, <2>1, Sizes
<1>11. idxs \in [1 .. size -> Step!Rows]  BY <1>8
<1> HIDE DEF idxs
<1>12. ASSUME NEW p \in 1 .. size
       PROVE  LET h == Step!RepeatInterleaved(p, N) IN
              /\ h \in 1 .. m /\ p - (h - 1) * N \in 1 .. N
              /\ idxs[p] = lists[h][p - (h - 1) * N]
  <2> DEFINE h == Step!RepeatInterleaved(p, N)
             j == p - (h - 1) * N
  <2>1. /\ h \in 1 .. m /\ j \in 1 .. N /\ (h - 1) * N + j = p
    <3>1. m \in Nat /\ N \in Nat \ {0}  BY <1>2, Sizes
    <3> HIDE DEF m
    <3> QED  BY <3>1, Places
  <2> HIDE DEF h, j
  <2>2. idxs[p] = lists[h][j]  BY <1>8, <2>1
  <2> QED  BY <2>1, <2>2 DEF h, j
<1>13. \A p \in 1 .. size : uid[idxs[p]] = Step!HardPrompt(p)
  <2> SUFFICES ASSUME NEW p \in 1 .. size PROVE uid[idxs[p]] = Step!HardPrompt(p)  OBVIOUS
  <2> DEFINE h == Step!RepeatInterleaved(p, N)
  <2>1. h \in 1 .. m /\ p - (h - 1) * N \in 1 .. N /\ idxs[p] = lists[h][p - (h - 1) * N]  BY <1>12
  <2>2. Step!HardPrompt(p) = hard[h]  BY DEF Step!HardPrompt
  <2> HIDE DEF h
  <2>3. idxs[p] \in Step!RowsOf(hard[h])  BY <1>4, <2>1
  <2> QED  BY <2>2, <2>3 DEF Step!RowsOf
<1>14. \A p \in 1 .. size : \E h \in 1 .. m : uid[idxs[p]] = hard[h]
  BY <1>12, <1>13 DEF Step!HardPrompt
<1>15. ASSUME NEW i \in Step!Rows
       PROVE  (\E p \in 1 .. size : idxs[p] = i) <=> best[uid[i]] <= HardThreshold
  <2>1. uid[i] \in Samples /\ i \in Step!RowsOf(uid[i])  BY <1>3 DEF Grouped, Step!RowsOf
  <2>2. (\E h \in 1 .. m : hard[h] = uid[i]) <=> best[uid[i]] <= HardThreshold
    BY <1>1, <1>2, <2>1 DEF Hard
  <2>3. ASSUME NEW h \in 1 .. m, hard[h] = uid[i] PROVE \E p \in 1 .. size : idxs[p] = i
    <3>1. PICK j \in 1 .. N : lists[h][j] = i  BY <1>4, <2>1, <2>3
    <3> DEFINE p == (h - 1) * N + j
    <3>2. idxs[p] = i  BY <1>8, <3>1
    <3>3. p \in 1 .. size
      <4>1. m \in Nat /\ N \in Nat \ {0}  BY <1>2, Sizes
      <4> HIDE DEF m
      <4> QED  BY <4>1, Places
    <3> QED  BY <3>2, <3>3
  <2>4. (\E p \in 1 .. size : idxs[p] = i) => \E h \in 1 .. m : hard[h] = uid[i]
    BY <1>14
  <2> QED  BY <2>2, <2>3, <2>4
<1> QED  BY <1>9, <1>10, <1>11, <1>13, <1>15

LEMMA RaiseKeeps == TableInv /\ Train /\ Step!GuidanceRaises => TableInv'
<1> SUFFICES ASSUME TableInv, Train, Step!GuidanceRaises PROVE TableInv'  OBVIOUS
<1>1. /\ stage = "guided" /\ stage' = "raised" /\ ~setting.adaptive
      /\ UNCHANGED <<setting, uid, rollouts, scores, offpolicy, opd, old, advantages, loss, hard, teacher, best>>
  BY DEF Step!GuidanceRaises, Step!KUnbound, Step!learnVars
<1>2. UNCHANGED vars /\ (AtSearch => Returned)  BY <1>1, TrainStands
<1>3. /\ Searched' /\ Returned' = Returned
      /\ \A u : Step!HintsBefore(u)' = Step!HintsBefore(u) /\ Step!HintsOf(u)' = Step!HintsOf(u)
  BY <1>1, TrainStands
<1>4. Phase'  BY <1>1, <1>2, <1>3 DEF TableInv, Phase, Called, vars
<1>5. Grouped'  BY <1>1 DEF TableInv, Grouped, Step!RowsOf
<1>6. Filled'
  <2>1. rollouts \in [Step!Rows -> Row] /\ \A i \in Step!Rows : Aligned(i)
    BY <1>1 DEF TableInv, Filled
  <2>2. \A i \in Step!Rows : Aligned(i)'  BY <1>1, <1>3, <2>1 DEF Aligned
  <2> QED  BY <1>1, <2>1, <2>2 DEF Filled
<1>7. Scored'  BY <1>1 DEF TableInv, Scored
<1>8. Selected'
  <2>1. \A u : Replaced(u)' <=> Replaced(u)  BY <1>1 DEF Replaced
  <2> QED  BY <1>1, <2>1 DEF TableInv, Selected
<1>9. Learned'  BY <1>1 DEF TableInv, Learned
<1> QED  BY <1>3, <1>4, <1>5, <1>6, <1>7, <1>8, <1>9 DEF TableInv

LEMMA GuidedKeeps == Step!ListsComplete /\ TableInv /\ Train /\ Step!GuidedRollout => TableInv'
<1> SUFFICES ASSUME Step!ListsComplete, TableInv, Train, Step!GuidedRollout PROVE TableInv'  OBVIOUS
<1> DEFINE idxs == Step!HardBatchIdxs
           size == Len(hard) * N
           Over(i) == \E p \in 1 .. size : idxs[p] = i
           From(i) == CHOOSE p \in 1 .. size : idxs[p] = i
<1>1. /\ stage = "guided" /\ stage' = "old"
      /\ offpolicy' = [i \in Step!Rows |-> i \in Step!ToSet(idxs)]
      /\ UNCHANGED <<setting, uid, opd, old, advantages, loss, hard, teacher, best>>
  BY DEF Step!GuidedRollout, Step!learnVars
<1>2. PICK r \in [1 .. size -> Rewards] :
        /\ rollouts' = Step!PutAt(rollouts, idxs,
                          [j \in DOMAIN r |->
                             Step!Rollout(Step!HardPrompt(j), Step!HintsOf(Step!HardPrompt(j)),
                                          r[j], setting.lengths[j])])
        /\ scores' = Step!PutAt(scores, idxs, r)
  BY DEF Step!GuidedRollout, Step!ReplacedScores
<1>3. /\ size \in Nat /\ size <= Prompts * N
      /\ idxs \in [1 .. size -> Step!Rows]
      /\ \A p \in 1 .. size : uid[idxs[p]] = Step!HardPrompt(p)
      /\ \A i \in Step!Rows : Over(i) <=> best[uid[i]] <= HardThreshold
  BY <1>1, HardRows
<1> HIDE DEF idxs, size
<1>4. rollouts \in [Step!Rows -> Row] /\ (\A i \in Step!Rows : Aligned(i))
      /\ scores \in [Step!Rows -> Rewards \union {0}]
      /\ \A i \in Step!Rows : scores[i] = rollouts[i].reward
  BY <1>1 DEF TableInv, Filled, Scored
<1>5. DOMAIN idxs = 1 .. size /\ DOMAIN r = 1 .. size /\ DOMAIN rollouts = Step!Rows /\ DOMAIN scores = Step!Rows
  BY <1>3, <1>4
<1> DEFINE out == [j \in 1 .. size |->
                     Step!Rollout(Step!HardPrompt(j), Step!HintsOf(Step!HardPrompt(j)),
                                  r[j], setting.lengths[j])]
<1>6. /\ rollouts' = [i \in Step!Rows |-> IF Over(i) THEN out[From(i)] ELSE rollouts[i]]
      /\ scores' = [i \in Step!Rows |-> IF Over(i) THEN r[From(i)] ELSE scores[i]]
  BY <1>2, <1>5 DEF Step!PutAt
<1>7. \A i \in Step!Rows : Over(i) => From(i) \in 1 .. size /\ idxs[From(i)] = i
  OBVIOUS
<1>8. UNCHANGED vars /\ (AtSearch => Returned)  BY <1>1, TrainStands
<1>9. /\ Searched' /\ Returned' = Returned
      /\ \A u : Step!HintsBefore(u)' = Step!HintsBefore(u) /\ Step!HintsOf(u)' = Step!HintsOf(u)
  BY <1>1, TrainStands
<1>10. setting.mode = "selective" /\ Phase /\ Searched  BY <1>1 DEF TableInv, Phase
<1>11. ASSUME NEW p \in 1 .. size
       PROVE  /\ out[p] \in Row /\ out[p].prompt = uid[idxs[p]] /\ out[p].reward = r[p] /\ r[p] \in Rewards
              /\ out[p].hints = Step!HintsOf(uid[idxs[p]])
  <2> DEFINE u == uid[idxs[p]]
  <2>1. u \in Samples /\ u = Step!HardPrompt(p)  BY <1>3 DEF TableInv, Grouped
  <2>2. p \in Step!Rows
    <3> DEFINE n == Prompts * N
    <3>1. n \in Nat /\ size <= n /\ Step!Rows = 1 .. n /\ size \in Nat  BY <1>3, Sizes
    <3> HIDE DEF n
    <3> QED  BY <3>1
  <2>3. setting.lengths[p] \in 1 .. MaxTokenLen  BY <1>10, <2>2, SettingLengths
  <2>4. Step!HintsOf(u) \in Nat
    <3>1. best[u] <= HardThreshold  BY <1>3
    <3>2. setting.adaptive => Returned /\ u \in batch
      BY <1>1, <1>8, <1>10, <2>1, <3>1 DEF AtSearch, Phase, Called
    <3> HIDE DEF u
    <3> QED  BY <1>10, <2>1, <3>2, HintsAreNumbers
  <2>5. r[p] \in Rewards  OBVIOUS
  <2> HIDE DEF u
  <2>6. out[p] = [prompt |-> u, hints |-> Step!HintsOf(u), reward |-> r[p],
                  len |-> setting.lengths[p]]
    BY <2>1 DEF Step!Rollout
  <2> HIDE DEF out
  <2> QED  BY <2>1, <2>3, <2>4, <2>5, <2>6 DEF Row, u
<1> HIDE DEF out
<1> DEFINE hit == [i \in Step!Rows |-> From(i)]
<1>12. ASSUME NEW i \in Step!Rows
       PROVE  /\ Over(i) => /\ rollouts'[i] \in Row /\ rollouts'[i].prompt = uid[i]
                            /\ rollouts'[i].reward = scores'[i] /\ scores'[i] \in Rewards
                            /\ rollouts'[i].hints = Step!HintsOf(uid[i])
              /\ ~Over(i) => rollouts'[i] = rollouts[i] /\ scores'[i] = scores[i]
  <2>1. CASE Over(i)
    <3>1. PICK p \in 1 .. size : p = From(i) /\ idxs[p] = i  BY <1>7, <2>1
    <3>2. rollouts'[i] = out[p] /\ scores'[i] = r[p]  BY <1>6, <2>1, <3>1
    <3> HIDE DEF Over, From
    <3> QED  BY <1>11, <2>1, <3>1, <3>2
  <2>2. CASE ~Over(i)  BY <1>6, <2>2
  <2> QED  BY <2>1, <2>2
<1>13. DOMAIN rollouts' = Step!Rows /\ DOMAIN scores' = Step!Rows
       /\ rollouts' = [i \in Step!Rows |-> rollouts'[i]] /\ scores' = [i \in Step!Rows |-> scores'[i]]
  BY <1>6
<1>14. \A i \in Step!Rows : offpolicy'[i] <=> Over(i)
  BY <1>1, <1>5 DEF Step!ToSet
<1>15. \A i \in Step!Rows : Over(i) <=> best[uid[i]] <= HardThreshold  BY <1>3
<1>16. \A i \in Step!Rows : ~offpolicy[i]  BY <1>1 DEF TableInv, Selected, Replaced
<1> HIDE DEF Over, From
<1>17. Phase'  BY <1>1, <1>8, <1>9, <1>10 DEF Phase, Called, AtSearch, vars
<1>18. Grouped'  BY <1>1 DEF TableInv, Grouped, Step!RowsOf
<1>19. Filled'
  <2>1. \A i \in Step!Rows : rollouts'[i] \in Row  BY <1>4, <1>12
  <2>2. rollouts' \in [Step!Rows -> Row]  BY <1>13, <2>1
  <2>3. ASSUME NEW i \in Step!Rows PROVE Aligned(i)'
    <3>1. uid' = uid /\ Aligned(i) /\ ~offpolicy[i] /\ Step!HintsBefore(uid[i])' = Step!HintsBefore(uid[i])
                      /\ Step!HintsOf(uid[i])' = Step!HintsOf(uid[i])
      BY <1>1, <1>4, <1>9, <1>16
    <3>2. offpolicy'[i] <=> Over(i)  BY <1>14
    <3>3. CASE Over(i)  BY <1>12, <3>1, <3>2, <3>3 DEF Aligned
    <3>4. CASE ~Over(i)
      <4>1. rollouts'[i] = rollouts[i] /\ ~offpolicy'[i]  BY <1>12, <3>2, <3>4
      <4> QED  BY <3>1, <4>1 DEF Aligned
    <3> QED  BY <3>3, <3>4
  <2> QED  BY <1>1, <2>2, <2>3 DEF Filled
<1>20. Scored'
  <2>1. \A i \in Step!Rows : scores'[i] \in Rewards \union {0} /\ scores'[i] = rollouts'[i].reward
    BY <1>4, <1>12
  <2>2. scores' \in [Step!Rows -> Rewards \union {0}]  BY <1>13, <2>1
  <2> QED  BY <1>1, <2>1, <2>2 DEF TableInv, Scored
<1>21. Selected'
  <2>1. ASSUME NEW i \in Step!Rows PROVE offpolicy'[i] <=> Replaced(uid[i])'
    <3>1. Replaced(uid[i])' <=> best[uid[i]] <= HardThreshold  BY <1>1, <1>10 DEF Replaced
    <3> QED  BY <1>14, <1>15, <3>1
  <2>2. offpolicy' \in [Step!Rows -> BOOLEAN]  BY <1>1
  <2> QED  BY <1>1, <2>1, <2>2 DEF TableInv, Selected
<1>22. Learned'  BY <1>1 DEF TableInv, Learned
<1> QED  BY <1>9, <1>17, <1>18, <1>19, <1>20, <1>21, <1>22 DEF TableInv

\* The gate adds to the table what the teacher decides.
LEMMA GateKeeps == TableInv /\ Train /\ Step!Gate => TableInv'
<1> SUFFICES ASSUME TableInv, Train, Step!Gate PROVE TableInv'  OBVIOUS
<1>1. PICK r \in [1 .. Prompts * TeacherN -> Rewards] :
        teacher' = [u \in Samples |-> Step!SumFunctionOnSet(r,
                      {j \in DOMAIN r : Step!RepeatInterleaved(j, TeacherN) = u})]
  BY Sizes DEF Step!Gate, Prompts
<1>2. /\ stage = "gate" /\ stage' = "old"
      /\ opd' = [i \in Step!Rows |-> teacher'[Step!TeacherRow(i)] > (scores[i] + Margin) * TeacherN]
      /\ UNCHANGED <<setting, uid, rollouts, scores, offpolicy, old, advantages, loss, hard, best>>
  BY DEF Step!Gate, Step!learnVars
<1>3. UNCHANGED vars /\ (AtSearch => Returned)  BY <1>2, TrainStands
<1>4. /\ Searched' /\ Returned' = Returned
      /\ \A u : Step!HintsBefore(u)' = Step!HintsBefore(u) /\ Step!HintsOf(u)' = Step!HintsOf(u)
  BY <1>2, TrainStands
<1>5. setting.mode = "gate"  BY <1>2 DEF TableInv, Phase
<1>6. Phase'  BY <1>2, <1>3, <1>4 DEF TableInv, Phase, Called, AtSearch, vars
<1>7. Grouped'  BY <1>2 DEF TableInv, Grouped, Step!RowsOf
<1>8. Filled'
  <2>1. rollouts \in [Step!Rows -> Row] /\ \A i \in Step!Rows : Aligned(i)
    BY <1>2 DEF TableInv, Filled
  <2>2. \A i \in Step!Rows : Aligned(i)'  BY <1>2, <1>4, <2>1 DEF Aligned
  <2> QED  BY <1>2, <2>1, <2>2 DEF Filled
<1>9. Scored'  BY <1>2 DEF TableInv, Scored
<1>10. Selected'
  <2>1. \A u : ~Replaced(u) /\ ~Replaced(u)'  BY <1>2, <1>5 DEF Replaced
  <2> QED  BY <1>2, <2>1 DEF TableInv, Selected
<1>11. teacher' \in [Samples -> Nat]
  <2>1. ASSUME NEW u \in Samples PROVE teacher'[u] \in Nat
    <3> DEFINE T == {j \in DOMAIN r : Step!RepeatInterleaved(j, TeacherN) = u}
    <3>1. Prompts * TeacherN \in Nat  BY Sizes
    <3>2. IsFiniteSet(1 .. Prompts * TeacherN)  BY <3>1, FS_Interval
    <3>3. T \in SUBSET (1 .. Prompts * TeacherN)  OBVIOUS
    <3>4. IsFiniteSet(T)  BY <3>2, <3>3, FS_Subset
    <3>5. \A j \in T : r[j] \in Rewards  BY <3>3
    <3>6. teacher'[u] = Step!SumFunctionOnSet(r, T)  BY <1>1
    <3> HIDE DEF T
    <3>7. \A x \in Rewards : x \in Nat /\ x \in Int  BY Sizes
    <3>8. \A j \in T : r[j] \in Nat /\ r[j] \in Int  BY <3>5, <3>7
    <3> QED  BY <3>4, <3>6, <3>8, SumType
  <2> QED  BY <1>1, <2>1
<1>12. Learned'
  <2>1. opd' \in [Step!Rows -> BOOLEAN]  BY <1>2
  <2> QED  BY <1>2, <1>11, <2>1 DEF TableInv, Learned
<1> QED  BY <1>4, <1>6, <1>7, <1>8, <1>9, <1>10, <1>12 DEF TableInv

\* The micro-batches of a rank have each of its rows once.
LEMMA Cut ==
  ASSUME Step!ListsComplete, NEW size \in 1 .. Step!Share,
         NEW lengths \in [Step!Ranks -> [1 .. size -> 1 .. MaxTokenLen]], NEW r \in Step!Ranks,
         NEW lists, lists = Step!MicroBatches(lengths[r],
           Step!Max({Step!NumMicroBatches(lengths[q], MaxTokenLen) : q \in Step!Ranks}))
  PROVE  lists \in Seq(Seq(1 .. size)) /\ Step!Arranges(Step!FlattenSeq(lists), 1 .. size)
BY Zenon DEF Step!ListsComplete

\* The results of the micro-batches go back to the rows they are of.
LEMMA PutBack ==
  ASSUME Step!ListsComplete, TableInv, stage = "old", NEW r \in Step!Ranks
  PROVE  /\ Step!LogProbsOf(r) \in Seq(Row) /\ Len(Step!LogProbsOf(r)) = Step!Share
         /\ \A j \in 1 .. Step!Share : (r - 1) * Step!Share + j \in Step!Rows
         /\ \A j \in 1 .. Step!Share : Step!LogProbsOf(r)[j] = rollouts[(r - 1) * Step!Share + j]
<1> DEFINE l == Step!Share
           lengths == [q \in Step!Ranks |-> Step!LengthsOf(Step!Shares[q])]
           order == Step!FlattenSeq(Step!Micro(Step!Shares, r))
           output == [j \in 1 .. l |-> rollouts[Step!Shares[r][order[j]]]]
<1>1. l \in Nat \ {0} /\ WorldSize \in Nat /\ Step!Ranks = 1 .. WorldSize
      /\ Step!Rows = 1 .. WorldSize * l
  BY Sizes
<1>2. \A q \in Step!Ranks, j \in 1 .. l : (q - 1) * l + j \in Step!Rows
  <2> HIDE DEF l
  <2> QED  BY <1>1, Places
<1>3. \A q \in Step!Ranks : Step!Shares[q] = [j \in 1 .. l |-> (q - 1) * l + j]
  BY DEF Step!Shares, Step!RowsOfRank
<1>4. rollouts \in [Step!Rows -> Row]  BY DEF TableInv, Filled
<1>5. lengths \in [Step!Ranks -> [1 .. l -> 1 .. MaxTokenLen]]
  <2>1. ASSUME NEW q \in Step!Ranks PROVE Step!LengthsOf(Step!Shares[q]) \in [1 .. l -> 1 .. MaxTokenLen]
    <3>1. Step!LengthsOf(Step!Shares[q]) = [j \in 1 .. l |-> rollouts[(q - 1) * l + j].len]
      <4> DEFINE rows == Step!Shares[q]
      <4>1. DOMAIN rows = 1 .. l /\ \A j \in 1 .. l : rows[j] = (q - 1) * l + j  BY <1>3
      <4> HIDE DEF rows, l
      <4>2. Step!LengthsOf(rows) = [j \in 1 .. l |-> rollouts[(q - 1) * l + j].len]
        BY <4>1 DEF Step!LengthsOf
      <4> QED  BY <4>2 DEF rows
    <3>2. \A j \in 1 .. l : rollouts[(q - 1) * l + j] \in Row  BY <1>2, <1>4
    <3>3. \A row \in Row : row.len \in 1 .. MaxTokenLen  BY DEF Row
    <3> QED  BY <3>1, <3>2, <3>3
  <2> QED  BY <2>1
<1>6. Step!Micro(Step!Shares, r) =
        Step!MicroBatches(lengths[r], Step!Max({Step!NumMicroBatches(lengths[q], MaxTokenLen) : q \in Step!Ranks}))
  BY DEF Step!Micro, Step!NumMicro
<1>7. Step!Arranges(order, 1 .. l)
  <2> HIDE DEF lengths
  <2>1. l \in 1 .. Step!Share  BY <1>1
  <2> HIDE DEF l
  <2>2. lengths \in [Step!Ranks -> [1 .. l -> 1 .. MaxTokenLen]]  BY <1>5
  <2> QED  BY <1>6, <2>1, <2>2, Cut, Zenon
<1> HIDE DEF lengths, order
<1>8. /\ order \in [1 .. l -> 1 .. l] /\ DOMAIN order = 1 .. l
      /\ \A i \in 1 .. l : \E j \in DOMAIN order : order[j] = i
  <2>1. Step!Cardinality(1 .. l) = l  BY <1>1, SameCardinality, FS_Interval
  <2> QED  BY <1>7, <2>1 DEF Step!Arranges
<1>9. Step!LogProbsOf(r) = Step!Restored(output, order)  BY DEF Step!LogProbsOf, order
<1>10. \A j \in 1 .. l : output[j] = rollouts[(r - 1) * l + order[j]]
  <2> SUFFICES ASSUME NEW j \in 1 .. l PROVE output[j] = rollouts[(r - 1) * l + order[j]]  OBVIOUS
  <2>1. order[j] \in 1 .. l  BY <1>8
  <2>2. output[j] = rollouts[Step!Shares[r][order[j]]]  OBVIOUS
  <2> HIDE DEF output
  <2> QED  BY <1>3, <2>1, <2>2
<1> HIDE DEF output
<1>11. DOMAIN output = 1 .. l  BY DEF output
<1> DEFINE back == [row \in 1 .. l |-> CHOOSE i \in 1 .. l : order[i] = row]
<1>12. \A row \in 1 .. l : back[row] \in 1 .. l /\ order[back[row]] = row  BY <1>8
<1>13. Step!Restored(output, order) = [row \in 1 .. l |-> output[back[row]]]
  BY <1>8, <1>11 DEF Step!Restored, Step!ReverseIdx
<1> HIDE DEF back
<1>14. \A j \in 1 .. l : Step!LogProbsOf(r)[j] = rollouts[(r - 1) * l + j]
  BY <1>9, <1>10, <1>12, <1>13
<1>15. \A j \in 1 .. l : (r - 1) * l + j \in Step!Rows /\ rollouts[(r - 1) * l + j] \in Row
  BY <1>2, <1>4
<1>16. Step!LogProbsOf(r) \in [1 .. l -> Row]  BY <1>9, <1>13, <1>14, <1>15
<1>17. Step!LogProbsOf(r) \in Seq(Row) /\ Len(Step!LogProbsOf(r)) = l  BY <1>1, <1>16
<1> QED  BY <1>14, <1>15, <1>17

LEMMA OldKeeps == Step!ListsComplete /\ TableInv /\ Train /\ Step!OldLogProb => TableInv'
<1> SUFFICES ASSUME Step!ListsComplete, TableInv, Train, Step!OldLogProb PROVE TableInv'  OBVIOUS
<1> DEFINE l == Step!Share
           lists == [r \in Step!Ranks |-> Step!LogProbsOf(r)]
<1>1. /\ stage = "old" /\ stage' = "advantage" /\ old' = Step!FlattenSeq(lists)
      /\ UNCHANGED <<setting, uid, rollouts, scores, offpolicy, opd, advantages, loss, hard, teacher, best>>
  BY DEF Step!OldLogProb
<1>2. UNCHANGED vars /\ (AtSearch => Returned)  BY <1>1, TrainStands
<1>3. /\ Searched' /\ Returned' = Returned
      /\ \A u : Step!HintsBefore(u)' = Step!HintsBefore(u) /\ Step!HintsOf(u)' = Step!HintsOf(u)
  BY <1>1, TrainStands
<1>4. old' = rollouts
  <2>1. l \in Nat \ {0} /\ WorldSize \in Nat \ {0} /\ Step!Ranks = 1 .. WorldSize
        /\ Step!Rows = 1 .. WorldSize * l
    BY Sizes
  <2>2. \A r \in 1 .. WorldSize : /\ lists[r] \in Seq(Row) /\ Len(lists[r]) = l
                                  /\ \A j \in 1 .. l : lists[r][j] = rollouts[(r - 1) * l + j]
    BY <1>1, <2>1, PutBack
  <2>3. lists = [r \in 1 .. WorldSize |-> lists[r]]  BY <2>1
  <2> HIDE DEF lists, l
  <2>4. lists \in Seq(Seq(Row)) /\ Len(lists) = WorldSize  BY <2>1, <2>2, <2>3
  <2>5. /\ old' \in Seq(Row) /\ Len(old') = WorldSize * l
        /\ \A r \in 1 .. WorldSize, j \in 1 .. l : old'[(r - 1) * l + j] = lists[r][j]
    <3>1. WorldSize \in Nat \ {0} /\ l \in Nat /\ \A r \in 1 .. WorldSize : Len(lists[r]) = l
      BY <2>1, <2>2
    <3> DEFINE flat == Step!FlattenSeq(lists)
    <3>2. /\ flat \in Seq(Row) /\ Len(flat) = WorldSize * l
          /\ \A r \in 1 .. WorldSize, j \in 1 .. l : flat[(r - 1) * l + j] = lists[r][j]
      BY <2>4, <3>1, Flattened
    <3>3. old' = flat  BY <1>1
    <3> HIDE DEF flat
    <3> QED  BY <3>2, <3>3
  <2>6. DOMAIN old' = Step!Rows /\ old' = [i \in Step!Rows |-> old'[i]]  BY <2>1, <2>5
  <2>7. ASSUME NEW i \in Step!Rows PROVE old'[i] = rollouts[i]
    <3> DEFINE r == Step!RepeatInterleaved(i, l)
               j == i - (r - 1) * l
    <3>1. r \in 1 .. WorldSize /\ j \in 1 .. l /\ (r - 1) * l + j = i  BY <2>1, Places
    <3> HIDE DEF r, j
    <3> QED  BY <2>2, <2>5, <3>1
  <2>8. rollouts = [i \in Step!Rows |-> rollouts[i]]  BY <1>1 DEF TableInv, Filled
  <2> QED  BY <2>6, <2>7, <2>8
<1>5. Phase'  BY <1>1, <1>2, <1>3 DEF TableInv, Phase, Called, AtSearch, vars
<1>6. Grouped'  BY <1>1 DEF TableInv, Grouped, Step!RowsOf
<1>7. Filled'
  <2>1. rollouts \in [Step!Rows -> Row] /\ \A i \in Step!Rows : Aligned(i)
    BY <1>1 DEF TableInv, Filled
  <2>2. \A i \in Step!Rows : Aligned(i)'  BY <1>1, <1>3, <2>1 DEF Aligned
  <2> QED  BY <1>1, <2>1, <2>2 DEF Filled
<1>8. Scored'  BY <1>1, <1>4 DEF TableInv, Scored
<1>9. Selected'
  <2>1. \A u : Replaced(u)' <=> Replaced(u)  BY <1>1 DEF Replaced
  <2> QED  BY <1>1, <2>1 DEF TableInv, Selected
<1>10. Learned'  BY <1>1 DEF TableInv, Learned
<1> QED  BY <1>3, <1>5, <1>6, <1>7, <1>8, <1>9, <1>10 DEF TableInv

\* The sum of a group's rewards is a number.
LEMMA GroupSum ==
  ASSUME Grouped, Scored, NEW u \in Samples
  PROVE  /\ \A i \in Step!RowsOf(u) : i \in Step!Rows /\ scores[i] \in Int
         /\ Step!SumFunctionOnSet(scores, Step!RowsOf(u)) \in Int
<1> DEFINE T == Step!RowsOf(u)
<1>1. T \in SUBSET Step!Rows /\ IsFiniteSet(T)  BY Groups
<1>2. \A x \in Rewards \union {0} : x \in Int  BY Sizes
<1> HIDE DEF T
<1>3. \A i \in T : i \in Step!Rows /\ scores[i] \in Int  BY <1>1, <1>2 DEF Scored
<1>4. Step!SumFunctionOnSet(scores, T) \in Int  BY <1>1, <1>3, SumType
<1> QED  BY <1>3, <1>4 DEF T

LEMMA AdvantageKeeps == TableInv /\ Train /\ Step!ComputeAdvantage => TableInv'
<1> SUFFICES ASSUME TableInv, Train, Step!ComputeAdvantage PROVE TableInv'  OBVIOUS
<1>1. /\ stage = "advantage" /\ stage' = "update"
      /\ advantages' = [i \in Step!Rows |-> N * scores[i] - Step!GroupMean(uid[i])]
      /\ UNCHANGED <<setting, uid, rollouts, scores, offpolicy, opd, old, loss, hard, teacher, best>>
  BY DEF Step!ComputeAdvantage
<1>2. UNCHANGED vars /\ (AtSearch => Returned)  BY <1>1, TrainStands
<1>3. /\ Searched' /\ Returned' = Returned
      /\ \A u : Step!HintsBefore(u)' = Step!HintsBefore(u) /\ Step!HintsOf(u)' = Step!HintsOf(u)
  BY <1>1, TrainStands
<1>4. Phase'  BY <1>1, <1>2, <1>3 DEF TableInv, Phase, Called, AtSearch, vars
<1>5. Grouped'  BY <1>1 DEF TableInv, Grouped, Step!RowsOf
<1>6. Filled'
  <2>1. rollouts \in [Step!Rows -> Row] /\ \A i \in Step!Rows : Aligned(i)
    BY <1>1 DEF TableInv, Filled
  <2>2. \A i \in Step!Rows : Aligned(i)'  BY <1>1, <1>3, <2>1 DEF Aligned
  <2> QED  BY <1>1, <2>1, <2>2 DEF Filled
<1>7. Scored'  BY <1>1 DEF TableInv, Scored
<1>8. Selected'
  <2>1. \A u : Replaced(u)' <=> Replaced(u)  BY <1>1 DEF Replaced
  <2> QED  BY <1>1, <2>1 DEF TableInv, Selected
<1>9. Learned'
  <2>1. ASSUME NEW i \in Step!Rows PROVE N * scores[i] - Step!GroupMean(uid[i]) \in Int
    <3>1. uid[i] \in Samples /\ i \in Step!RowsOf(uid[i])  BY DEF TableInv, Grouped, Step!RowsOf
    <3>2. scores[i] \in Int /\ Step!SumFunctionOnSet(scores, Step!RowsOf(uid[i])) \in Int
      BY <3>1, GroupSum DEF TableInv
    <3>3. Step!GroupMean(uid[i]) \in Int  BY <3>2 DEF Step!GroupMean
    <3> QED  BY <3>2, <3>3, Sizes
  <2>2. advantages' \in [Step!Rows -> Int]  BY <1>1, <2>1
  <2>3. \A i \in Step!Rows : advantages'[i] = N * scores'[i] - Step!GroupMean(uid[i])'
    BY <1>1 DEF Step!GroupMean, Step!RowsOf
  <2> QED  BY <1>1, <2>2, <2>3 DEF TableInv, Learned
<1> QED  BY <1>3, <1>4, <1>5, <1>6, <1>7, <1>8, <1>9 DEF TableInv

-----------------------------------------------------------------------------
(* The update: which optimizer step and which micro-batch a row is in.     *)

\* Rows of a rank in an optimizer step, by its number, and where the jth of them stands.
SizeOf(turn) == Step!Min({Step!Share, turn * MiniSize}) - (turn - 1) * MiniSize
Place(turn, r, j) == (r - 1) * Step!Share + ((turn - 1) * MiniSize + j)

\* The optimizer steps cut the share of a rank into pieces that are not empty.
LEMMA MiniBatches ==
  ASSUME NEW turn \in 1 .. Step!NumSteps
  PROVE  /\ MiniSize \in Nat \ {0} /\ Step!NumSteps \in Nat /\ (turn - 1) * MiniSize \in Nat
         /\ SizeOf(turn) \in 1 .. Step!Share
         /\ \A k : k \in 1 .. SizeOf(turn) <=> /\ k \in 1 .. MiniSize
                                               /\ (turn - 1) * MiniSize + k \in 1 .. Step!Share
         /\ \A r \in Step!Ranks :
              Step!MiniBatch(turn)[r] = [j \in 1 .. SizeOf(turn) |-> Place(turn, r, j)]
<1> DEFINE l == Step!Share
           a == (turn - 1) * MiniSize
           b == turn * MiniSize
           d == (l + MiniSize - 1) \div MiniSize
<1>1. l \in Nat \ {0} /\ MiniSize \in Nat \ {0}
  BY Sizes, AdaptiveStepAssumption DEF AdaptiveStepAssumption
<1>2. Step!NumSteps = d  BY DEF Step!NumSteps, Step!CeilDiv
<1>3. d \in Nat /\ d * MiniSize <= l + MiniSize - 1
  <2> HIDE DEF l
  <2> QED  BY <1>1
<1>4. turn \in Nat \ {0} /\ turn <= d
  <2> HIDE DEF d
  <2> QED  BY <1>2, <1>3
<1>5. a \in Nat /\ b \in Nat /\ b = a + MiniSize  BY <1>1, <1>4
<1>6. a < l
  <2>1. turn * MiniSize <= d * MiniSize  BY <1>1, <1>3, <1>4, TimesGrows
  <2>2. d * MiniSize \in Nat  BY <1>1, <1>3
  <2> DEFINE e == d * MiniSize
  <2>3. b <= e /\ e \in Nat /\ e <= l + MiniSize - 1  BY <1>3, <2>1, <2>2
  <2> HIDE DEF a, b, d, e, l
  <2> QED  BY <1>1, <1>5, <2>3
<1>7. Step!Min({l, b}) = IF l <= b THEN l ELSE b
  <2> HIDE DEF l, b
  <2>1. \E x \in {l, b} : \A y \in {l, b} : x <= y  BY <1>1, <1>5
  <2>2. /\ Step!Min({l, b}) \in {l, b}
        /\ \A y \in {l, b} : Step!Min({l, b}) <= y
    BY <2>1 DEF Step!Min
  <2> QED  BY <1>1, <1>5, <2>2
<1>8. SizeOf(turn) = (IF l <= b THEN l ELSE b) - a  BY <1>7 DEF SizeOf
<1>9. /\ SizeOf(turn) \in 1 .. l
      /\ \A k : k \in 1 .. SizeOf(turn) <=> k \in 1 .. MiniSize /\ a + k \in 1 .. l
  <2> HIDE DEF a, b, l
  <2> QED  BY <1>1, <1>5, <1>6, <1>8
<1>10. ASSUME NEW r \in Step!Ranks
       PROVE  Step!MiniBatch(turn)[r] = [j \in 1 .. SizeOf(turn) |-> Place(turn, r, j)]
  <2> DEFINE rows == Step!RowsOfRank(r)
             top == Step!Min({l, b})
  <2>1. rows = [j \in 1 .. l |-> (r - 1) * l + j]  BY DEF Step!RowsOfRank
  <2>2. Step!MiniBatch(turn)[r] = SubSeq(rows, a + 1, top)  BY DEF Step!MiniBatch
  <2>3. top \in Nat /\ SizeOf(turn) = top - a  BY <1>1, <1>5, <1>7 DEF SizeOf
  <2>4. SubSeq(rows, a + 1, top) = [j \in 1 .. SizeOf(turn) |-> rows[a + j]]
    <3> HIDE DEF a, rows, top
    <3>1. SubSeq(rows, a + 1, top) = [j \in 1 .. (top - (a + 1) + 1) |-> rows[j + (a + 1) - 1]]
      BY <1>5, <2>3
    <3>2. top - (a + 1) + 1 = SizeOf(turn) /\ \A j \in Int : j + (a + 1) - 1 = a + j  BY <1>5, <2>3
    <3> QED  BY <3>1, <3>2
  <2>5. ASSUME NEW j \in 1 .. SizeOf(turn) PROVE rows[a + j] = Place(turn, r, j)
    <3>1. a + j \in 1 .. l  BY <1>9
    <3> HIDE DEF a, l
    <3>2. rows[a + j] = (r - 1) * l + (a + j)  BY <2>1, <3>1
    <3> QED  BY <3>2 DEF Place, a, l
  <2> HIDE DEF rows
  <2> QED  BY <2>2, <2>4, <2>5
<1> QED  BY <1>1, <1>2, <1>3, <1>5, <1>9, <1>10

\* Every row has one place: in one optimizer step, on one rank.
LEMMA EveryRow ==
  ASSUME NEW i \in Step!Rows
  PROVE  \E turn \in 1 .. Step!NumSteps, r \in Step!Ranks : \E j \in 1 .. SizeOf(turn) :
           /\ Place(turn, r, j) = i
           /\ \A s \in 1 .. Step!NumSteps, q \in Step!Ranks : \A k \in 1 .. SizeOf(s) :
                Place(s, q, k) = i => s = turn /\ q = r /\ k = j
<1> DEFINE l == Step!Share
           r == Step!RepeatInterleaved(i, l)
           n == i - (r - 1) * l
           turn == Step!RepeatInterleaved(n, MiniSize)
           j == n - (turn - 1) * MiniSize
<1>1. /\ l \in Nat \ {0} /\ WorldSize \in Nat \ {0} /\ Step!Ranks = 1 .. WorldSize
      /\ Step!Rows = 1 .. WorldSize * l /\ MiniSize \in Nat \ {0}
  BY Sizes, AdaptiveStepAssumption DEF AdaptiveStepAssumption
<1>2. r \in Step!Ranks /\ n \in 1 .. l /\ (r - 1) * l + n = i
  <2> HIDE DEF l
  <2> QED  BY <1>1, Places
<1> HIDE DEF n
<1>3. turn \in Nat \ {0} /\ (turn - 1) * MiniSize < n /\ n <= turn * MiniSize
  <2>1. n \in Nat \ {0}  BY <1>1, <1>2
  <2>2. turn \in Nat \ {0}  BY <1>1, <2>1, Repeated
  <2> HIDE DEF turn
  <2>3. turn = Step!RepeatInterleaved(n, MiniSize) => (turn - 1) * MiniSize < n /\ n <= turn * MiniSize
    BY <1>1, <2>1, <2>2, Repeated
  <2> QED  BY <2>2, <2>3 DEF turn
<1> HIDE DEF turn, r, l
<1>4. turn \in 1 .. Step!NumSteps
  <2> DEFINE d == (l + MiniSize - 1) \div MiniSize
             top == (d + 1) * MiniSize
             below == (turn - 1) * MiniSize
  <2>1. Step!NumSteps = d  BY DEF Step!NumSteps, Step!CeilDiv, l
  <2>2. d \in Nat /\ l + MiniSize - 1 < top /\ top \in Nat /\ top = d * MiniSize + MiniSize  BY <1>1
  <2>3. SUFFICES ASSUME ~(turn <= d) PROVE FALSE
    <3> HIDE DEF d
    <3> QED  BY <1>3, <2>1, <2>2
  <2>4. d <= turn - 1 /\ turn - 1 \in Int  BY <1>3, <2>2, <2>3
  <2>5. d * MiniSize <= below /\ below \in Int /\ d * MiniSize \in Int
    <3> HIDE DEF d
    <3>1. d * MiniSize <= (turn - 1) * MiniSize  BY <1>1, <2>2, <2>4, TimesGrows
    <3> QED  BY <1>1, <2>2, <2>4, <3>1
  <2> DEFINE e == d * MiniSize
  <2>6. e <= below /\ below \in Int /\ e \in Int /\ top = e + MiniSize /\ l + MiniSize - 1 < top
        /\ below < n /\ n \in Int /\ n <= l
    BY <1>1, <1>2, <1>3, <2>2, <2>5
  <2> HIDE DEF below, top, d, e
  <2> QED  BY <1>1, <2>6
<1>5. j \in 1 .. SizeOf(turn) /\ (turn - 1) * MiniSize + j = n
  <2> DEFINE below == (turn - 1) * MiniSize
  <2>1. below \in Nat /\ turn * MiniSize = below + MiniSize  BY <1>1, <1>3
  <2>2. j = n - below  OBVIOUS
  <2>3. below < n /\ n <= below + MiniSize  BY <1>3, <2>1
  <2>4. \A k : k \in 1 .. SizeOf(turn) <=> k \in 1 .. MiniSize /\ below + k \in 1 .. l
    BY <1>4, MiniBatches DEF l
  <2> HIDE DEF below, j
  <2>5. j \in 1 .. MiniSize /\ below + j = n  BY <1>1, <1>2, <2>1, <2>2, <2>3
  <2>6. j \in 1 .. SizeOf(turn)  BY <1>2, <2>4, <2>5
  <2> QED  BY <2>5, <2>6 DEF below
<1> HIDE DEF j
<1>6. Place(turn, r, j) = i  BY <1>2, <1>5 DEF Place, l
<1>7. ASSUME NEW s \in 1 .. Step!NumSteps, NEW q \in Step!Ranks, NEW k \in 1 .. SizeOf(s), Place(s, q, k) = i
      PROVE  s = turn /\ q = r /\ k = j
  <2> DEFINE before == (s - 1) * MiniSize
             m == before + k
             base == (q - 1) * l
  <2>1. before \in Nat /\ k \in 1 .. MiniSize /\ m \in 1 .. l /\ Step!NumSteps \in Nat  BY MiniBatches DEF l
  <2>2. s \in Nat \ {0} /\ q \in Nat \ {0} /\ i \in Nat \ {0}  BY <1>1, <2>1
  <2>3. s * MiniSize = before + MiniSize /\ q * l = base + l /\ base \in Nat  BY <1>1, <2>2
  <2>4. base + m = i  BY <1>7 DEF Place, l
  <2>5. (q - 1) * l < i /\ i <= q * l
    <3>1. base < i /\ i <= base + l
      <4> HIDE DEF base, m
      <4> QED  BY <1>1, <2>1, <2>3, <2>4
    <3> QED  BY <2>3, <3>1
  <2>6. q = r  BY <1>1, <2>2, <2>5, Repeated DEF r
  <2>7. m = n
    <3>1. base + n = i  BY <1>2, <2>6
    <3> HIDE DEF base, m
    <3> QED  BY <1>1, <1>2, <2>1, <2>3, <2>4, <3>1
  <2>8. (s - 1) * MiniSize < n /\ n <= s * MiniSize
    <3>1. before < n /\ n <= before + MiniSize
      <4> HIDE DEF before
      <4> QED  BY <1>1, <2>1, <2>7
    <3> QED  BY <2>3, <3>1
  <2>9. n \in Nat \ {0}  BY <1>1, <1>2
  <2>10. s = turn  BY <1>1, <2>2, <2>8, <2>9, Repeated DEF turn
  <2>11. k = j
    <3>1. before + j = n  BY <1>5, <2>10
    <3>2. j \in Nat
      <4>1. SizeOf(turn) \in Nat  BY <1>1, <1>4, MiniBatches DEF l
      <4> QED  BY <1>5, <4>1
    <3> HIDE DEF before
    <3> QED  BY <2>1, <2>7, <3>1, <3>2
  <2> QED  BY <2>6, <2>10, <2>11
<1> QED  BY <1>2, <1>4, <1>5, <1>6, <1>7

MicroOf(turn, r) == Step!Micro(Step!MiniBatch(turn), r)

\* Lists that have each number up to the size once.
Cuts(lists, size) ==
  /\ lists \in Seq(Seq(1 .. size)) /\ Distinct(lists)
  /\ \A j \in 1 .. size : \E m \in 1 .. Len(lists) : \E p \in 1 .. Len(lists[m]) : lists[m][p] = j

\* The micro-batches of a rank in an optimizer step have each of its rows once.
LEMMA MicroBatchesOf ==
  ASSUME Step!ListsComplete, TableInv, stage = "update",
         NEW turn \in 1 .. Step!NumSteps, NEW r \in Step!Ranks
  PROVE  Cuts(MicroOf(turn, r), SizeOf(turn))
<1> DEFINE lists == MicroOf(turn, r)
<1> DEFINE size == SizeOf(turn)
           rowsOf == Step!MiniBatch(turn)
           lengths == [q \in Step!Ranks |-> Step!LengthsOf(rowsOf[q])]
           flat == Step!FlattenSeq(lists)
<1>1. size \in 1 .. Step!Share /\ Step!Share \in Nat  BY MiniBatches, Sizes
<1>2. \A q \in Step!Ranks : rowsOf[q] = [j \in 1 .. size |-> Place(turn, q, j)]  BY MiniBatches
<1>3. \A q \in Step!Ranks, j \in 1 .. size : Place(turn, q, j) \in Step!Rows
  <2> SUFFICES ASSUME NEW q \in Step!Ranks, NEW j \in 1 .. size PROVE Place(turn, q, j) \in Step!Rows  OBVIOUS
  <2> DEFINE l == Step!Share
             k == (turn - 1) * MiniSize + j
  <2>1. k \in 1 .. l  BY MiniBatches
  <2>2. l \in Nat \ {0} /\ WorldSize \in Nat /\ Step!Ranks = 1 .. WorldSize /\ Step!Rows = 1 .. WorldSize * l
    BY Sizes
  <2> HIDE DEF k, l
  <2>3. (q - 1) * l + k \in Step!Rows  BY <2>1, <2>2, Places
  <2> QED  BY <2>3 DEF Place, k, l
<1>4. rollouts \in [Step!Rows -> Row]  BY DEF TableInv, Filled
<1>5. lengths \in [Step!Ranks -> [1 .. size -> 1 .. MaxTokenLen]]
  <2>1. ASSUME NEW q \in Step!Ranks PROVE Step!LengthsOf(rowsOf[q]) \in [1 .. size -> 1 .. MaxTokenLen]
    <3> DEFINE rows == rowsOf[q]
    <3>1. DOMAIN rows = 1 .. size /\ \A j \in 1 .. size : rows[j] = Place(turn, q, j)  BY <1>2
    <3>2. \A j \in 1 .. size : rollouts[Place(turn, q, j)] \in Row  BY <1>3, <1>4
    <3>3. \A row \in Row : row.len \in 1 .. MaxTokenLen  BY DEF Row
    <3> HIDE DEF rows, size
    <3>4. Step!LengthsOf(rows) = [j \in 1 .. size |-> rollouts[Place(turn, q, j)].len]
      BY <3>1 DEF Step!LengthsOf
    <3> QED  BY <3>2, <3>3, <3>4 DEF rows
  <2> QED  BY <2>1
<1>6. lists = Step!MicroBatches(lengths[r],
                Step!Max({Step!NumMicroBatches(lengths[q], MaxTokenLen) : q \in Step!Ranks}))
  BY DEF MicroOf, Step!Micro, Step!NumMicro
<1> HIDE DEF size, lengths, rowsOf, lists
<1>7. lists \in Seq(Seq(1 .. size)) /\ Step!Arranges(flat, 1 .. size)
  BY <1>1, <1>5, <1>6, Cut, Zenon
<1>8. /\ flat \in [1 .. size -> 1 .. size] /\ DOMAIN flat = 1 .. size
      /\ \A j \in 1 .. size : \E p \in DOMAIN flat : flat[p] = j
      /\ \A p, q \in DOMAIN flat : flat[p] = flat[q] => p = q
  <2>1. size \in Nat /\ Step!Cardinality(1 .. size) = size  BY <1>1, SameCardinality, FS_Interval
  <2> HIDE DEF flat
  <2> QED  BY <1>7, <2>1 DEF Step!Arranges
<1>9. Len(lists) \in Nat \ {0}
  <2>1. Len(lists) \in Nat  BY <1>7
  <2>2. ASSUME Len(lists) = 0 PROVE FALSE
    <3>1. flat = lists  BY <2>2 DEF Step!FlattenSeq
    <3>2. DOMAIN lists = 1 .. 0  BY <1>7, <2>2
    <3>3. 1 \in 1 .. size /\ ~(1 \in 1 .. 0)  BY <1>1
    <3>4. DOMAIN flat = 1 .. size  BY <1>8
    <3> QED  BY <3>1, <3>2, <3>3, <3>4, Zenon
  <2> QED  BY <2>1, <2>2
<1> DEFINE k == Len(lists)
<1>10. k \in Nat \ {0} /\ Len(lists) = k  BY <1>9
<1> HIDE DEF k
<1>11. flat = Step!FlattenSeq(lists)  OBVIOUS
<1> HIDE DEF flat
<1> DEFINE V == 1 .. size
<1>12. lists \in Seq(Seq(V))  BY <1>7
<1>13. \A p, q \in DOMAIN flat : flat[p] = flat[q] => p = q  BY <1>8
<1> HIDE DEF V
<1>14. Covers(lists, flat) /\ Distinct(lists)  BY <1>10, <1>11, <1>12, <1>13, OneOfEach
<1>15. ASSUME NEW j \in 1 .. size
       PROVE  \E m \in 1 .. Len(lists) : \E p \in 1 .. Len(lists[m]) : lists[m][p] = j
  <2>1. PICK q \in DOMAIN flat : flat[q] = j  BY <1>8
  <2>2. PICK m \in 1 .. Len(lists) : \E p \in 1 .. Len(lists[m]) : lists[m][p] = flat[q]
    BY <1>14, Zenon DEF Covers
  <2> QED  BY <2>1, <2>2
<1> QED  BY <1>7, <1>14, <1>15 DEF size, lists, Cuts

\* What such lists hold.
LEMMA CutsHold ==
  ASSUME NEW size \in Nat, NEW lists, Cuts(lists, size)
  PROVE  /\ lists \in Seq(Seq(Nat))
         /\ \A m \in 1 .. Len(lists) : \A p \in 1 .. Len(lists[m]) :
              lists[m][p] \in 1 .. size /\ Len(lists[m]) \in Nat \ {0}
<1>1. lists \in Seq(Seq(1 .. size))  BY DEF Cuts
<1>2. ASSUME NEW m \in 1 .. Len(lists)
      PROVE  /\ lists[m] \in Seq(Nat)
             /\ \A p \in 1 .. Len(lists[m]) : lists[m][p] \in 1 .. size /\ Len(lists[m]) \in Nat \ {0}
  <2> DEFINE list == lists[m]
  <2>1. list \in Seq(1 .. size)  BY <1>1
  <2> HIDE DEF list
  <2>2. list \in Seq(Nat) /\ \A p \in 1 .. Len(list) : list[p] \in 1 .. size /\ Len(list) \in Nat \ {0}
    BY <2>1
  <2> QED  BY <2>2 DEF list
<1>3. lists \in Seq(Seq(Nat))  BY <1>1, <1>2
<1> QED  BY <1>2, <1>3

\* y is a row of the list, of rank r, with one of its terms in an optimizer step (turn).
AddsIn(y, turn, r, list) ==
  \E p \in 1 .. Len(list) : LET i == Step!MiniBatch(turn)[r][list[p]] IN
    \E t \in Step!Terms(i, turn, <<Len(list), MiniSize * Len(list)>>) : y = <<i, t>>

\* Which row and term an optimizer step adds to the gradient.
LEMMA InStep ==
  ASSUME NEW turn, NEW y, \A r \in Step!Ranks : MicroOf(turn, r) \in Seq(Seq(Nat))
  PROVE  y \in Step!UpdateStep(turn) <=>
           \E r \in Step!Ranks : \E m \in 1 .. Len(MicroOf(turn, r)) : AddsIn(y, turn, r, MicroOf(turn, r)[m])
<1> DEFINE rowsOf == Step!MiniBatch(turn)
           RowsIn(list, r) == [j \in DOMAIN list |-> rowsOf[r][list[j]]]
           number == Step!NumMicro(rowsOf)
           B(list, r) == Step!Backward(RowsIn(list, r), number, turn)
<1>1. ASSUME NEW r, NEW list \in Seq(Nat) PROVE y \in B(list, r) <=> AddsIn(y, turn, r, list)
  <2> DEFINE micro == RowsIn(list, r)
             w == <<Len(list), MiniSize * Len(list)>>
  <2> HIDE DEF rowsOf, number
  <2>1. DOMAIN list = 1 .. Len(list) /\ Len(list) \in Nat  OBVIOUS
  <2>2. Len(micro) = Len(list)  BY <2>1
  <2>3. DOMAIN micro = 1 .. Len(list) /\ \A p \in 1 .. Len(list) : micro[p] = rowsOf[r][list[p]]  BY <2>1
  <2> HIDE DEF micro
  <2>4. Step!Weight(micro, number) = w  BY <2>2 DEF Step!Weight
  <2>5. Step!ToSet(micro) = {micro[p] : p \in 1 .. Len(list)}  BY <2>3 DEF Step!ToSet
  <2> HIDE DEF w
  <2>6. y \in Step!Backward(micro, number, turn) <=>
          \E i \in Step!ToSet(micro) : \E t \in Step!Terms(i, turn, w) : y = <<i, t>>
    BY <2>4 DEF Step!Backward
  <2>7. (\E i \in Step!ToSet(micro) : \E t \in Step!Terms(i, turn, w) : y = <<i, t>>) <=>
          \E p \in 1 .. Len(list) : \E t \in Step!Terms(micro[p], turn, w) : y = <<micro[p], t>>
    BY <2>5
  <2>8. AddsIn(y, turn, r, list) <=>
          \E p \in 1 .. Len(list) : \E t \in Step!Terms(micro[p], turn, w) : y = <<micro[p], t>>
    BY <2>3 DEF AddsIn, rowsOf, w
  <2> QED  BY <2>6, <2>7, <2>8 DEF micro
<1>2. Step!UpdateStep(turn) =
        UNION {UNION {Step!Backward(micro, number, turn) :
                        micro \in {RowsIn(list, r) : list \in Step!ToSet(MicroOf(turn, r))}} : r \in Step!Ranks}
  BY Zenon DEF Step!UpdateStep, MicroOf
<1> HIDE DEF RowsIn, number, rowsOf
<1>3. y \in Step!UpdateStep(turn) <=>
        \E r \in Step!Ranks : \E list \in Step!ToSet(MicroOf(turn, r)) : y \in B(list, r)
  BY <1>2
<1> HIDE DEF B
<1>4. ASSUME NEW r \in Step!Ranks
      PROVE  (\E list \in Step!ToSet(MicroOf(turn, r)) : y \in B(list, r)) <=>
               \E m \in 1 .. Len(MicroOf(turn, r)) : AddsIn(y, turn, r, MicroOf(turn, r)[m])
  <2> DEFINE lists == MicroOf(turn, r)
  <2>1. lists \in Seq(Seq(Nat))  OBVIOUS
  <2> HIDE DEF lists
  <2>2. DOMAIN lists = 1 .. Len(lists) /\ \A m \in 1 .. Len(lists) : lists[m] \in Seq(Nat)  BY <2>1
  <2>3. Step!ToSet(lists) = {lists[m] : m \in 1 .. Len(lists)}  BY <2>2 DEF Step!ToSet
  <2>4. (\E list \in Step!ToSet(lists) : y \in B(list, r)) <=>
          \E m \in 1 .. Len(lists) : AddsIn(y, turn, r, lists[m])
    BY <1>1, <2>2, <2>3
  <2> QED  BY <2>4 DEF lists
<1> QED  BY <1>3, <1>4

\* A row adds its terms in one optimizer step, with one weight.
LEMMA LossOf ==
  ASSUME Step!ListsComplete, TableInv, stage = "update", Step!UpdateActor, NEW i \in Step!Rows
  PROVE  \E turn \in 1 .. Step!NumSteps, n \in Nat \ {0} :
           loss'[i] = Step!Terms(i, turn, <<n, MiniSize * n>>)
<1> DEFINE added == UNION {Step!UpdateStep(s) : s \in 1 .. Step!NumSteps}
<1>1. loss'[i] = {x[2] : x \in {y \in added : y[1] = i}}  BY DEF Step!UpdateActor
<1>2. ASSUME NEW s \in 1 .. Step!NumSteps, NEW r \in Step!Ranks
      PROVE  /\ Cuts(MicroOf(s, r), SizeOf(s)) /\ SizeOf(s) \in Nat
             /\ MicroOf(s, r) \in Seq(Seq(Nat))
             /\ Step!MiniBatch(s)[r] = [j \in 1 .. SizeOf(s) |-> Place(s, r, j)]
  <2>1. Step!Share \in Nat  BY Sizes
  <2>2. SizeOf(s) \in Nat /\ Step!MiniBatch(s)[r] = [j \in 1 .. SizeOf(s) |-> Place(s, r, j)]
    BY <2>1, MiniBatches
  <2>3. Cuts(MicroOf(s, r), SizeOf(s))  BY MicroBatchesOf
  <2> QED  BY <2>2, <2>3, CutsHold
<1> DEFINE Stands(s, r, list, p) == /\ list[p] \in 1 .. SizeOf(s) /\ Len(list) \in Nat \ {0}
                                   /\ Step!MiniBatch(s)[r][list[p]] = Place(s, r, list[p])
<1>3. ASSUME NEW s \in 1 .. Step!NumSteps, NEW r \in Step!Ranks, NEW m \in 1 .. Len(MicroOf(s, r)),
             NEW p \in 1 .. Len(MicroOf(s, r)[m])
      PROVE  Stands(s, r, MicroOf(s, r)[m], p)
  <2> DEFINE lists == MicroOf(s, r)
             j == lists[m][p]
  <2>1. Cuts(lists, SizeOf(s)) /\ SizeOf(s) \in Nat  BY <1>2
  <2>2. m \in 1 .. Len(lists) /\ p \in 1 .. Len(lists[m])  OBVIOUS
  <2> HIDE DEF lists
  <2>3. j \in 1 .. SizeOf(s) /\ Len(lists[m]) \in Nat \ {0}  BY <2>1, <2>2, CutsHold
  <2> HIDE DEF j
  <2>4. Step!MiniBatch(s)[r][j] = Place(s, r, j)  BY <1>2, <2>3
  <2> QED  BY <2>3, <2>4 DEF j, lists
<1>4. ASSUME NEW s \in 1 .. Step!NumSteps, NEW y
      PROVE  y \in Step!UpdateStep(s) <=>
               \E r \in Step!Ranks : \E m \in 1 .. Len(MicroOf(s, r)) : AddsIn(y, s, r, MicroOf(s, r)[m])
  <2>1. \A r \in Step!Ranks : MicroOf(s, r) \in Seq(Seq(Nat))  BY <1>2
  <2> QED  BY <2>1, InStep
<1> DEFINE At(turn, r, j) ==
             /\ Place(turn, r, j) = i
             /\ \A s \in 1 .. Step!NumSteps, q \in Step!Ranks : \A k \in 1 .. SizeOf(s) :
                  Place(s, q, k) = i => s = turn /\ q = r /\ k = j
<1>5. PICK turn \in 1 .. Step!NumSteps, r \in Step!Ranks : \E j \in 1 .. SizeOf(turn) : At(turn, r, j)
  BY EveryRow, Zenon
<1>6. PICK j \in 1 .. SizeOf(turn) : At(turn, r, j)  BY <1>5
<1> DEFINE lists == MicroOf(turn, r)
<1>7. PICK m \in 1 .. Len(lists) : \E p \in 1 .. Len(lists[m]) : lists[m][p] = j
  <2>1. Cuts(lists, SizeOf(turn))  BY <1>2
  <2> HIDE DEF lists
  <2> QED  BY <2>1, Zenon DEF Cuts
<1> DEFINE list == lists[m]
           n == Len(list)
           w == <<n, MiniSize * n>>
<1>8. PICK p \in 1 .. n : list[p] = j  BY <1>7
<1>9. n \in Nat \ {0}  BY <1>3, <1>8
<1>10. ASSUME NEW y, y \in added, y[1] = i PROVE y[2] \in Step!Terms(i, turn, w)
  <2>1. PICK s \in 1 .. Step!NumSteps : y \in Step!UpdateStep(s)  BY <1>10
  <2>2. PICK q \in Step!Ranks : \E o \in 1 .. Len(MicroOf(s, q)) : AddsIn(y, s, q, MicroOf(s, q)[o])
    BY <1>4, <2>1
  <2>3. PICK o \in 1 .. Len(MicroOf(s, q)) : AddsIn(y, s, q, MicroOf(s, q)[o])  BY <2>2
  <2> DEFINE other == MicroOf(s, q)[o]
             row(k) == Step!MiniBatch(s)[q][other[k]]
  <2>4. PICK k \in 1 .. Len(other) :
          \E t \in Step!Terms(row(k), s, <<Len(other), MiniSize * Len(other)>>) : y = <<row(k), t>>
    BY <2>3 DEF AddsIn
  <2>5. row(k) = i  BY <1>10, <2>4
  <2>6. other[k] \in 1 .. SizeOf(s) /\ Place(s, q, other[k]) = i
    <3>1. Stands(s, q, other, k)
      <4> HIDE DEF Stands
      <4> QED  BY <1>3
    <3> QED  BY <2>5, <3>1
  <2> HIDE DEF other
  <2>7. s = turn /\ q = r /\ other[k] = j  BY <1>6, <2>6
  <2>8. o = m
    <3>1. Distinct(lists)  BY <1>2 DEF Cuts
    <3>2. o \in 1 .. Len(lists) /\ k \in 1 .. Len(lists[o]) /\ lists[o][k] = j  BY <2>7 DEF other
    <3>3. p \in 1 .. Len(lists[m]) /\ lists[m][p] = j  BY <1>8
    <3> HIDE DEF lists
    <3> QED  BY <3>1, <3>2, <3>3 DEF Distinct
  <2>9. other = list  BY <2>7, <2>8 DEF other
  <2>10. \E t \in Step!Terms(i, turn, w) : y = <<i, t>>  BY <2>4, <2>5, <2>7, <2>9
  <2> QED  BY <2>10
<1>11. ASSUME NEW t \in Step!Terms(i, turn, w) PROVE <<i, t>> \in added
  <2>1. Step!MiniBatch(turn)[r][list[p]] = i
    <3>1. Stands(turn, r, list, p)
      <4> HIDE DEF Stands
      <4> QED  BY <1>3
    <3> QED  BY <1>6, <1>8, <3>1
  <2>2. AddsIn(<<i, t>>, turn, r, list)  BY <1>8, <2>1 DEF AddsIn
  <2>3. <<i, t>> \in Step!UpdateStep(turn)  BY <1>4, <1>7, <2>2
  <2> QED  BY <2>3
<1>12. loss'[i] = Step!Terms(i, turn, w)
  <2> HIDE DEF added, w
  <2>1. \A t : t \in loss'[i] => t \in Step!Terms(i, turn, w)  BY <1>1, <1>10
  <2>2. ASSUME NEW t \in Step!Terms(i, turn, w) PROVE t \in loss'[i]
    <3>1. <<i, t>> \in {y \in added : y[1] = i} /\ <<i, t>>[2] = t  BY <1>11
    <3> QED  BY <1>1, <3>1
  <2>3. \A t : t \in Step!Terms(i, turn, w) => t \in loss'[i]  BY <2>2
  <2>4. \A t : t \in loss'[i] <=> t \in Step!Terms(i, turn, w)  BY <2>1, <2>3
  <2> QED  BY <1>1, <2>4
<1> QED  BY <1>9, <1>12

LEMMA ActorKeeps == Step!ListsComplete /\ TableInv /\ Train /\ Step!UpdateActor => TableInv'
<1> SUFFICES ASSUME Step!ListsComplete, TableInv, Train, Step!UpdateActor PROVE TableInv'  OBVIOUS
<1>1. /\ stage = "update" /\ stage' = "done" /\ DOMAIN loss' = Step!Rows
      /\ UNCHANGED <<setting, uid, rollouts, scores, offpolicy, opd, old, advantages, hard, teacher, best>>
  BY DEF Step!UpdateActor
<1>2. UNCHANGED vars /\ (AtSearch => Returned)  BY <1>1, TrainStands
<1>3. /\ Searched' /\ Returned' = Returned
      /\ \A u : Step!HintsBefore(u)' = Step!HintsBefore(u) /\ Step!HintsOf(u)' = Step!HintsOf(u)
  BY <1>1, TrainStands
<1>4. Phase'  BY <1>1, <1>2, <1>3 DEF TableInv, Phase, Called, AtSearch, vars
<1>5. Grouped'  BY <1>1 DEF TableInv, Grouped, Step!RowsOf
<1>6. Filled'
  <2>1. rollouts \in [Step!Rows -> Row] /\ \A i \in Step!Rows : Aligned(i)
    BY <1>1 DEF TableInv, Filled
  <2>2. \A i \in Step!Rows : Aligned(i)'  BY <1>1, <1>3, <2>1 DEF Aligned
  <2> QED  BY <1>1, <2>1, <2>2 DEF Filled
<1>7. Scored'  BY <1>1 DEF TableInv, Scored
<1>8. Selected'
  <2>1. \A u : Replaced(u)' <=> Replaced(u)  BY <1>1 DEF Replaced
  <2> QED  BY <1>1, <2>1 DEF TableInv, Selected
<1>9. Learned'
  <2>1. \A i \in Step!Rows : Trained(i)'
    <3>1. \A i, turn, w : Step!Terms(i, turn, w)' = Step!Terms(i, turn, w)
      BY <1>1 DEF Step!Terms, Step!Term, Step!Forward, Step!Behavior, Step!Reference, Step!NumSteps
    <3> QED  BY <1>1, <3>1, LossOf DEF Trained
  <2> QED  BY <1>1, <2>1 DEF TableInv, Learned, Step!GroupMean, Step!RowsOf
<1> QED  BY <1>3, <1>4, <1>5, <1>6, <1>7, <1>8, <1>9 DEF TableInv

\* The search is made before its prompts are rolled out.
LEMMA SearchKeeps == TableInv /\ Search => TableInv'
<1> SUFFICES ASSUME TableInv, Search PROVE TableInv'  OBVIOUS
<1>1. /\ AtSearch /\ setting.adaptive /\ (Probe \/ UpdateBounds \/ Return)
      /\ UNCHANGED <<setting, stage, uid, rollouts, scores, offpolicy, opd, old, advantages, loss,
                     hard, teacher, best>>
  BY DEF Search, AtSearch, stepVars
<1>2. batch' = batch  BY <1>1 DEF Probe, UpdateBounds, Return
<1>3. \/ stage = "generate" /\ setting.mode = "guided"
      \/ stage = "guided" /\ setting.mode = "selective"
  BY <1>1 DEF AtSearch, TableInv, Phase
<1>4. Searched'
  <2>1. SearchInv  BY <1>1 DEF TableInv, Searched
  <2>2. SearchInv'  BY <1>1, <2>1, GuidanceAssumption, ProbeKeeps, UpdateKeeps, ReturnKeeps
  <2> QED  BY <2>2 DEF Searched
<1>5. Phase'  BY <1>1, <1>2, <1>3 DEF TableInv, Phase, Called
<1>6. Grouped'  BY <1>1 DEF TableInv, Grouped, Step!RowsOf
<1>7. Filled'
  <2>1. CASE stage = "generate"  BY <1>1, <2>1 DEF TableInv, Filled
  <2>2. CASE stage = "guided"
    <3>1. \A i \in Step!Rows : ~offpolicy[i]  BY <2>2 DEF TableInv, Selected, Replaced
    <3>2. \A u : Step!HintsBefore(u)' = Step!HintsBefore(u)  BY <1>1, <1>3, <2>2 DEF Step!HintsBefore
    <3>3. rollouts \in [Step!Rows -> Row] /\ \A i \in Step!Rows : Aligned(i)
      BY <2>2 DEF TableInv, Filled
    <3>4. \A i \in Step!Rows : Aligned(i)'  BY <1>1, <3>1, <3>2, <3>3 DEF Aligned
    <3> QED  BY <1>1, <2>2, <3>3, <3>4 DEF Filled
  <2> QED  BY <1>3, <2>1, <2>2
<1>8. Scored'  BY <1>1 DEF TableInv, Scored
<1>9. Selected'
  <2>1. \A u : /\ Replaced(u)' <=> Replaced(u)
               /\ Step!RowsOf(u)' = Step!RowsOf(u)
    BY <1>1 DEF Replaced, Step!RowsOf
  <2>2. Hard' <=> Hard  BY <1>1 DEF Hard
  <2> QED  BY <1>1, <2>1, <2>2 DEF TableInv, Selected
<1>10. Learned'  BY <1>1, <1>3 DEF TableInv, Learned
<1> QED  BY <1>4, <1>5, <1>6, <1>7, <1>8, <1>9, <1>10 DEF TableInv

LEMMA TableStands == TableInv /\ UNCHANGED <<vars, stepVars>> => TableInv'
<1> SUFFICES ASSUME TableInv, UNCHANGED <<vars, stepVars>> PROVE TableInv'  OBVIOUS
<1>1. UNCHANGED vars
      /\ UNCHANGED <<setting, stage, uid, rollouts, scores, offpolicy, opd, old, advantages, loss,
                     hard, teacher, best>>
  BY DEF stepVars
<1>2. /\ Searched' /\ Returned' = Returned
      /\ \A u : Step!HintsBefore(u)' = Step!HintsBefore(u) /\ Step!HintsOf(u)' = Step!HintsOf(u)
  BY <1>1, SearchStands
<1>3. Phase'  BY <1>1, <1>2 DEF TableInv, Phase, Called, vars
<1>4. Grouped'  BY <1>1 DEF TableInv, Grouped, Step!RowsOf
<1>5. Filled'
  <2>1. \A i : Aligned(i)' <=> Aligned(i)  BY <1>1, <1>2 DEF Aligned
  <2> QED  BY <1>1, <2>1 DEF TableInv, Filled
<1>6. Scored'  BY <1>1 DEF TableInv, Scored
<1>7. Selected'
  <2>1. \A u : /\ Replaced(u)' <=> Replaced(u)
               /\ Step!RowsOf(u)' = Step!RowsOf(u)
    BY <1>1 DEF Replaced, Step!RowsOf
  <2>2. Hard' <=> Hard  BY <1>1 DEF Hard
  <2> QED  BY <1>1, <2>1, <2>2 DEF TableInv, Selected
<1>8. Learned'
  <2>1. \A i : Trained(i)' <=> Trained(i)
    BY <1>1 DEF Trained, Step!Terms, Step!Term, Step!Forward, Step!Behavior, Step!Reference, Step!NumSteps
  <2> QED  BY <1>1, <2>1 DEF TableInv, Learned, Step!GroupMean, Step!RowsOf
<1> QED  BY <1>2, <1>3, <1>4, <1>5, <1>6, <1>7, <1>8 DEF TableInv
-----------------------------------------------------------------------------
\* Whatever the search and the steps of fit do, the table keeps its invariant.
LEMMA TableInvariant ==
  ASSUME Step!ListsComplete
  PROVE  StepSpec => []TableInv
<1>1. StepInit => TableInv  BY InitTable
<1>2. TableInv /\ [StepNext]_<<vars, stepVars>> => TableInv'
  <2> SUFFICES ASSUME TableInv, [StepNext]_<<vars, stepVars>> PROVE TableInv'  OBVIOUS
  <2>1. CASE Search  BY <2>1, SearchKeeps
  <2>2. CASE Train
    <3>1. CASE Step!Generate  BY <2>2, <3>1, GenerateKeeps
    <3>2. CASE Step!Balance  BY <2>2, <3>2, BalanceKeeps
    <3>3. CASE Step!ComputeReward  BY <2>2, <3>3, RewardKeeps
    <3>4. CASE Step!SelectHard  BY <2>2, <3>4, SelectKeeps
    <3>5. CASE Step!GuidedRollout  BY <2>2, <3>5, GuidedKeeps
    <3>11. CASE Step!GuidanceRaises  BY <2>2, <3>11, RaiseKeeps
    <3>6. CASE Step!Gate  BY <2>2, <3>6, GateKeeps
    <3>7. CASE Step!OldLogProb  BY <2>2, <3>7, OldKeeps
    <3>8. CASE Step!ComputeAdvantage  BY <2>2, <3>8, AdvantageKeeps
    <3>9. CASE Step!UpdateActor  BY <2>2, <3>9, ActorKeeps
    <3>10. CASE Step!Done
      <4>1. UNCHANGED <<vars, stepVars>>
        BY <2>2, <3>10 DEF Train, vars, Step!Done, Step!vars, Step!learnVars, stepVars
      <4> QED  BY <4>1, TableStands
    <3> QED  BY <2>2, <3>1, <3>2, <3>3, <3>4, <3>5, <3>6, <3>7, <3>8, <3>9, <3>10, <3>11 DEF Train, Step!Next
  <2>3. CASE UNCHANGED <<vars, stepVars>>  BY <2>3, TableStands
  <2> QED  BY <2>1, <2>2, <2>3 DEF StepNext
<1> QED  BY <1>1, <1>2, PTL DEF StepSpec

\* Every column has a value of its type in every row.
LEMMA TableTyped == TableInv => Step!TypeOK
<1> SUFFICES ASSUME TableInv PROVE Step!TypeOK  OBVIOUS
<1> DEFINE Kept == [prompt : Step!Uids, hints : Nat, reward : Rewards, len : Nat] \union {Step!NoRollout}
<1>1. rollouts \in [Step!Rows -> Kept]
  <2>1. CASE stage = "generate"  BY <2>1 DEF TableInv, Filled
  <2>2. CASE stage /= "generate"
    <3>1. rollouts \in [Step!Rows -> Row]  BY <2>2 DEF TableInv, Filled
    <3>2. ASSUME NEW x \in Row PROVE x \in Kept
      <4>1. MaxTokenLen \in Nat  BY SettingLengths DEF TableInv
      <4>2. x.len \in Nat  BY <4>1 DEF Row
      <4> QED  BY <4>2, Sizes DEF Row
    <3> HIDE DEF Kept
    <3> QED  BY <3>1, <3>2
  <2> QED  BY <2>1, <2>2
<1>2. old \in [Step!Rows -> Kept]
  <2> HIDE DEF Kept
  <2>1. Step!NoRollout \in Kept  BY DEF Kept
  <2> QED  BY <1>1, <2>1 DEF TableInv, Scored
<1>3. {rollouts, old} \subseteq [Step!Rows -> Kept]  BY <1>1, <1>2
<1>4. /\ uid \in [Step!Rows -> Samples] /\ hard \in Seq(Samples) /\ teacher \in [Samples -> Nat]
      /\ best \in [Samples -> Rewards \union {0}]
  BY DEF TableInv, Grouped, Selected, Learned
<1>5. /\ uid \in [Step!Rows -> Step!Uids] /\ hard \in Seq(Step!Uids) /\ teacher \in [Step!Uids -> Nat]
      /\ best \in [Step!Uids -> Rewards \union {0}]
  BY <1>4, Sizes
<1>6. /\ setting \in Settings
      /\ stage \in {"generate", "balance", "reward", "selective", "guided", "gate", "old", "advantage",
                   "update", "done", "raised"}
      /\ scores \in [Step!Rows -> Rewards \union {0}]
      /\ offpolicy \in [Step!Rows -> BOOLEAN] /\ opd \in [Step!Rows -> BOOLEAN]
      /\ advantages \in [Step!Rows -> Int] /\ DOMAIN loss = Step!Rows
  BY DEF TableInv, Phase, Scored, Selected, Learned
<1>7. {offpolicy, opd} \subseteq [Step!Rows -> BOOLEAN]  BY <1>6
<1> QED  BY <1>3, <1>5, <1>6, <1>7 DEF Step!TypeOK

\* However fit balances, selects, replaces and restores its rows (_balance_batch,
\* hard_batch_idxs, restore_dynamic_batch), a row of the finished batch is one
\* rollout: of the prompt of its uid, with that prompt's hints, its own reward and
\* its own old_log_probs.
THEOREM RowsAlignedHolds ==
  ASSUME Step!ListsComplete
  PROVE  StepSpec => []RowsAligned
<1>1. TableInv => Step!RowsAligned
  <2> SUFFICES ASSUME TableInv, stage = "done", NEW i \in Step!Rows
               PROVE  /\ rollouts[i].prompt = uid[i] /\ scores[i] = rollouts[i].reward /\ old[i] = rollouts[i]
                      /\ rollouts[i].hints = IF offpolicy[i] THEN Step!HintsOf(uid[i]) ELSE Step!HintsBefore(uid[i])
    BY DEF Step!RowsAligned
  <2>1. Aligned(i)  BY DEF TableInv, Filled
  <2>2. scores[i] = rollouts[i].reward /\ old = rollouts  BY DEF TableInv, Scored
  <2> QED  BY <2>1, <2>2 DEF Aligned
<1>2. TableInv => RowsAligned  BY <1>1, TableTyped DEF RowsAligned
<1> QED  BY <1>2, TableInvariant, PTL

\* The groups of compute_grpo_outcome_advantage are whole: N rows of one prompt,
\* all off-policy when no unguided rollout of it was above the threshold and none
\* otherwise, with advantages that add up to nothing.
THEOREM GroupsWholeHolds ==
  ASSUME Step!ListsComplete
  PROVE  StepSpec => []GroupsWhole
<1>1. TableInv => GroupsWhole
  <2> SUFFICES ASSUME TableInv, stage = "done", NEW u \in Samples
               PROVE  /\ Step!Cardinality(Step!RowsOf(u)) = N
                      /\ N > 1 => Step!SumFunctionOnSet(advantages, Step!RowsOf(u)) = 0
                      /\ \A i \in Step!RowsOf(u) : rollouts[i].prompt = u
                      /\ \A i \in Step!RowsOf(u) :
                           offpolicy[i] = (setting.mode = "selective" /\ best[u] <= HardThreshold)
    BY Sizes DEF GroupsWhole, Step!GroupsWhole
  <2> DEFINE T == Step!RowsOf(u)
             S == Step!SumFunctionOnSet(scores, T)
  <2>1. T \in SUBSET Step!Rows /\ IsFiniteSet(T) /\ Cardinality(T) = N  BY Groups DEF TableInv
  <2>2. Step!Cardinality(T) = N  BY <2>1, SameCardinality
  <2>3. \A i \in T : uid[i] = u  BY DEF Step!RowsOf
  <2>4. ASSUME N > 1 PROVE Step!SumFunctionOnSet(advantages, T) = 0
    <3>1. Step!GroupMean(u) = S
      <4>1. N /= 1  BY <2>4, Sizes
      <4> QED  BY <2>2, <4>1 DEF Step!GroupMean
    <3>2. (\A i \in T : scores[i] \in Int) /\ S \in Int  BY GroupSum DEF TableInv
    <3>3. \A i \in T : advantages[i] = N * scores[i] - S
      <4>1. \A i \in Step!Rows : advantages[i] = N * scores[i] - Step!GroupMean(uid[i])
        BY DEF TableInv, Learned
      <4> HIDE DEF T, S
      <4> QED  BY <2>1, <2>3, <3>1, <4>1
    <3> HIDE DEF T
    <3>4. N \in Int  BY Sizes
    <3>5. S = Step!SumFunctionOnSet(scores, T)  OBVIOUS
    <3> HIDE DEF S
    <3>6. Step!SumFunctionOnSet(advantages, T) = N * Step!SumFunctionOnSet(scores, T) - Cardinality(T) * S
      BY <2>1, <3>2, <3>3, <3>4, SumIsLinear
    <3>7. N * S - N * S = 0  BY <3>2, <3>4
    <3> QED  BY <2>1, <3>5, <3>6, <3>7
  <2>5. ASSUME NEW i \in T
        PROVE  /\ rollouts[i].prompt = u
               /\ offpolicy[i] = (setting.mode = "selective" /\ best[u] <= HardThreshold)
    <3>1. i \in Step!Rows /\ uid[i] = u  BY <2>1, <2>3
    <3>2. rollouts[i].prompt = u  BY <3>1 DEF TableInv, Filled, Aligned
    <3>3. offpolicy[i] <=> Replaced(u)  BY <3>1 DEF TableInv, Selected
    <3>4. offpolicy[i] \in BOOLEAN  BY <3>1 DEF TableInv, Selected
    <3>5. Replaced(u) <=> (setting.mode = "selective" /\ best[u] <= HardThreshold)  BY DEF Replaced
    <3> QED  BY <3>2, <3>3, <3>4, <3>5
  <2> QED  BY <2>2, <2>4, <2>5
<1> QED  BY <1>1, TableInvariant, PTL

\* The terms of a row are two for every branch it is trained on.
LEMMA TermsCounted ==
  ASSUME Phase, NEW i, NEW turn, NEW w
  PROVE  Step!Cardinality(Step!Terms(i, turn, w)) = 2 * Step!Cardinality(Step!Forward(i))
<1> DEFINE Policy(of) == Step!Term("policy", of, Step!Behavior(i, of), turn, w)
           KL(of)     == Step!Term("kl", of, Step!Reference(i, of), turn, w)
           F == Step!Forward(i)
           T == Step!Terms(i, turn, w)
<1>1. T = UNION {{Policy(of), KL(of)} : of \in F}  BY DEF Step!Terms
<1>2. \A x, y : /\ Policy(x) /= KL(y)
                /\ Policy(x) = Policy(y) => x = y
                /\ KL(x) = KL(y) => x = y
  <2>1. \A x : Policy(x).kind = "policy" /\ KL(x).kind = "kl" /\ Policy(x).of = x /\ KL(x).of = x
    BY DEF Step!Term
  <2> HIDE DEF Policy, KL
  <2>2. "policy" /= "kl"  OBVIOUS
  <2> QED  BY <2>1, <2>2
<1>3. PICK a, b : F = {a, b}
  <2>1. setting.offpolicy = "none" => F = {rollouts[i].hints}  BY DEF Step!Forward
  <2>2. setting.offpolicy = "single" => F = {0}  BY DEF Step!Forward
  <2>3. setting.offpolicy = "dual" => F = {rollouts[i].hints, 0}  BY DEF Step!Forward
  <2>4. setting.offpolicy \in {"none", "single", "dual"}
    BY AdaptiveStepAssumption DEF AdaptiveStepAssumption, Phase
  <2> HIDE DEF F
  <2>5. CASE F = {rollouts[i].hints, 0}  BY <2>5, Zenon
  <2>6. \A x : F = {x} => F = {x, x}  OBVIOUS
  <2>7. CASE F = {0}  BY <2>6, <2>7, Zenon
  <2>8. CASE F = {rollouts[i].hints}  BY <2>6, <2>8, Zenon
  <2> QED  BY <2>1, <2>2, <2>3, <2>4, <2>5, <2>7, <2>8
<1> HIDE DEF F, T, Policy, KL
<1>4. T = {Policy(a), KL(a), Policy(b), KL(b)}  BY <1>1, <1>3
<1> DEFINE A == {Policy(a)}
           B == A \union {KL(a)}
           C == B \union {Policy(b)}
           D == C \union {KL(b)}
<1>5. IsFiniteSet(B) /\ Cardinality(B) = 2
  <2>1. IsFiniteSet(A) /\ Cardinality(A) = 1  BY FS_Singleton
  <2>2. KL(a) \notin A  BY <1>2
  <2> HIDE DEF A
  <2> QED  BY <2>1, <2>2, FS_AddElement
<1>6. T = D  BY <1>4
<1>7. CASE a = b
  <2>1. D = B  BY <1>7
  <2>2. F = {a}  BY <1>3, <1>7
  <2>3. Cardinality(F) = 1  BY <2>2, FS_Singleton
  <2> HIDE DEF B, D
  <2> QED  BY <1>5, <1>6, <2>1, <2>3, SameCardinality DEF F, T
<1>8. CASE a /= b
  <2>1. Policy(b) \notin B  BY <1>2, <1>8
  <2>2. KL(b) \notin C  BY <1>2, <1>8
  <2> HIDE DEF B
  <2>3. IsFiniteSet(C) /\ Cardinality(C) = 3  BY <1>5, <2>1, FS_AddElement
  <2> HIDE DEF C
  <2>4. Cardinality(D) = 4  BY <2>2, <2>3, FS_AddElement
  <2> HIDE DEF D
  <2>5. Cardinality(F) = 2
    <3>1. F = {a} \union {b} /\ b \notin {a}  BY <1>3, <1>8
    <3>2. IsFiniteSet({a}) /\ Cardinality({a}) = 1  BY FS_Singleton
    <3> QED  BY <3>1, <3>2, FS_AddElement
  <2> QED  BY <1>6, <2>4, <2>5, SameCardinality DEF F, T
<1> QED  BY <1>7, <1>8

\* However the ranks cut their rows into optimizer steps and micro-batches
\* (update_policy, prepare_dynamic_batch), each row is trained on in one step, on
\* all its branches, with the weight of every other row, against the policy it was
\* rolled out with and the reference of the same prompt.
THEOREM UpdateFairHolds ==
  ASSUME Step!ListsComplete
  PROVE  StepSpec => []UpdateFair
<1>1. TableInv => UpdateFair
  <2> SUFFICES ASSUME TableInv, stage = "done", NEW i \in Step!Rows
               PROVE  /\ \E turn \in 1 .. Step!NumSteps : \A t \in loss[i] : t.step = turn
                      /\ {t.of : t \in {x \in loss[i] : x.kind = "policy"}} = Step!Forward(i)
                      /\ Step!Cardinality(loss[i]) = 2 * Step!Cardinality(Step!Forward(i))
                      /\ \A t \in loss[i] :
                           /\ t.weight[1] * MiniSize = t.weight[2]
                           /\ t.against = IF t.kind = "kl" THEN t.of ELSE rollouts[i].hints
    BY DEF UpdateFair, Step!UpdateFair
  <2>1. PICK turn \in 1 .. Step!NumSteps, n \in Nat \ {0} :
          loss[i] = Step!Terms(i, turn, <<n, MiniSize * n>>)
    BY DEF TableInv, Learned, Trained
  <2> DEFINE w == <<n, MiniSize * n>>
             Policy(of) == Step!Term("policy", of, Step!Behavior(i, of), turn, w)
             KL(of) == Step!Term("kl", of, Step!Reference(i, of), turn, w)
  <2>2. loss[i] = UNION {{Policy(of), KL(of)} : of \in Step!Forward(i)}  BY <2>1 DEF Step!Terms
  <2>3. w[1] * MiniSize = w[2]
    <3>1. MiniSize \in Nat  BY AdaptiveStepAssumption DEF AdaptiveStepAssumption
    <3>2. n * MiniSize = MiniSize * n  BY <3>1
    <3> QED  BY <3>2
  <2> HIDE DEF w
  <2>4. ASSUME NEW of
        PROVE  /\ Policy(of).kind = "policy" /\ Policy(of).of = of /\ Policy(of).step = turn
               /\ Policy(of).weight = w /\ Policy(of).against = Step!Behavior(i, of)
               /\ KL(of).kind = "kl" /\ KL(of).of = of /\ KL(of).step = turn
               /\ KL(of).weight = w /\ KL(of).against = of
    BY DEF Step!Term, Step!Reference
  <2>5. ASSUME NEW of \in Step!Forward(i) PROVE Step!Behavior(i, of) = rollouts[i].hints
    <3>1. old[i] = rollouts[i]  BY DEF TableInv, Scored
    <3>2. setting.offpolicy = "none" => of = rollouts[i].hints  BY DEF Step!Forward
    <3> QED  BY <3>1, <3>2 DEF Step!Behavior
  <2> HIDE DEF Policy, KL
  <2>6. "policy" /= "kl"  OBVIOUS
  <2>7. \A t \in loss[i] : \E of \in Step!Forward(i) : t = Policy(of) \/ t = KL(of)  BY <2>2
  <2>8. ASSUME NEW t \in loss[i]
        PROVE  /\ t.step = turn /\ t.weight[1] * MiniSize = t.weight[2]
               /\ t.against = IF t.kind = "kl" THEN t.of ELSE rollouts[i].hints
               /\ t.kind = "policy" => t.of \in Step!Forward(i)
    <3>1. PICK of \in Step!Forward(i) : t = Policy(of) \/ t = KL(of)  BY <2>7
    <3>2. CASE t = Policy(of)  BY <2>3, <2>4, <2>5, <2>6, <3>2
    <3>3. CASE t = KL(of)  BY <2>3, <2>4, <2>6, <3>3
    <3> QED  BY <3>1, <3>2, <3>3
  <2>9. {t.of : t \in {x \in loss[i] : x.kind = "policy"}} = Step!Forward(i)
    <3>1. ASSUME NEW of \in Step!Forward(i)
          PROVE  Policy(of) \in loss[i] /\ Policy(of).kind = "policy" /\ of = Policy(of).of
      BY <2>2, <2>4
    <3> QED  BY <2>8, <3>1
  <2>10. Step!Cardinality(loss[i]) = 2 * Step!Cardinality(Step!Forward(i))  BY <2>1, TermsCounted DEF TableInv
  <2> QED  BY <2>8, <2>9, <2>10
<1> QED  BY <1>1, TableInvariant, PTL

\* With an offset that is not negative, the prompts that the search was called for
\* and whose bracket is closed (adaptive_guidance.search, by fit or by the selective
\* phase) are rolled out with the actions with which they may succeed, or all.
THEOREM HintsPayHolds ==
  ASSUME Step!ListsComplete
  PROVE  StepSpec => []HintsPay
<1>1. TableInv => HintsPay
  <2> SUFFICES ASSUME TableInv, stage = "done", Offset >= 0, NEW i \in Step!Rows,
                      uid[i] \in batch, lo[uid[i]] = hi[uid[i]]
               PROVE  rollouts[i].hints >= possible[uid[i]] \/ rollouts[i].hints = Actions[uid[i]]
    BY DEF HintsPay
  <2> DEFINE u == uid[i]
  <2>1. u \in Samples  BY DEF TableInv, Grouped
  <2>2. setting.adaptive /\ Returned /\ SearchInv
        /\ (setting.mode = "selective" => best[u] <= HardThreshold)
    <3>1. setting.adaptive  BY SettingLengths DEF TableInv, Phase, Called
    <3>2. setting.mode \in {"guided", "selective"}  BY <3>1, SettingLengths DEF TableInv
    <3> QED  BY <3>1, <3>2 DEF TableInv, Phase, Called, Searched
  <2>3. rollouts[i].hints = optimal[u]
    <3>1. offpolicy[i] <=> setting.mode = "selective"  BY <2>2 DEF TableInv, Selected, Replaced
    <3>2. Aligned(i)  BY DEF TableInv, Filled
    <3>3. setting.mode \in {"guided", "selective"}  BY <2>2, SettingLengths DEF TableInv
    <3> QED  BY <2>2, <3>1, <3>2, <3>3 DEF Aligned, Step!HintsBefore, Step!HintsOf
  <2>4. u \in batch /\ lo[u] = hi[u]  OBVIOUS
  <2> HIDE DEF u
  <2>5. optimal[u] = WithOffset(u)  BY <2>2, <2>4 DEF SearchInv, ResultInv
  <2>6. lo[u] \in Nat /\ hi[u] \in Nat /\ lo[u] <= hi[u] /\ hi[u] <= Actions[u] /\ possible[u] \in Nat
    BY <2>1, <2>2 DEF SearchInv, TypeOK
  <2>7. possible[u] <= hi[u] \/ hi[u] = Actions[u]  BY <2>1, <2>2 DEF SearchInv, Bracketed
  <2>8. Actions[u] \in Nat /\ Offset \in Int  BY <2>1, GuidanceAssumption DEF GuidanceAssumption
  <2>9. WithOffset(u) >= possible[u] \/ WithOffset(u) = Actions[u]
    BY <2>4, <2>6, <2>7, <2>8 DEF WithOffset
  <2> QED  BY <2>3, <2>5, <2>9 DEF u
<1> QED  BY <1>1, TableInvariant, PTL
=============================================================================
