----------------------------- MODULE GuidedStep -----------------------------
(***************************************************************************)
(* One training step of RayPPOTrainer.fit with action guidance, and the    *)
(* update of the actor it ends with (DataParallelPPOActor): the batch is a *)
(* table whose rows are permuted, selected, repeated, generated again,     *)
(* written back and cut up, each time by position.                         *)
(* The setting of a run, one of Settings:                                  *)
(*   mode = "guided": every prompt is guided, "selective": those without  *)
(*     reward are rolled out again, guided, and replaced                   *)
(*     (data.guidance.guided_offpolicy), "gate": a guided teacher decides  *)
(*     which rows are distilled (data.on_policy_distillation.reward_gate); *)
(*   adaptive: guided with as many known actions as a search finds optimal *)
(*     (data.guidance.adaptive), or else with a fixed share of them;       *)
(*   offpolicy: guided rollouts train the prompt without hints, "single",  *)
(*     or both, "dual" (data.guidance.guided_offpolicy.mode);              *)
(*   balance: trainer.balance_batch, TRUE by default;                      *)
(*   lengths: of the rollouts, in the order they are generated.            *)
(***************************************************************************)
EXTENDS Balancing

CONSTANTS NumPrompts, N,            \* prompts of a batch, rollout.n
          Rewards, HardThreshold,   \* scores of a rollout; hard_threshold
          TeacherN, Margin,         \* teacher_rollout_n, reward_gate_margin
          NumActions,               \* len(all_actions) of each prompt
          FixedK,                   \* data.guidance.fixed_k, negative for all actions
          RatioNum, RatioDen,       \* fixed_ratio as a fraction, zero for none
          WorldSize, MaxTokenLen,   \* ranks; max_token_len of a micro-batch
          MiniSize,                 \* ppo_mini_batch_size of a rank
          Settings

Uids == 1 .. NumPrompts
Rows == 1 .. NumPrompts * N

VARIABLE optimal       \* what AdaptiveGuidanceSearcher.search returned for each prompt
VARIABLES setting,    \* one of Settings, never changed
          stage,
          uid,        \* non_tensor_batch["uid"]
          rollout,    \* what was generated for the row: prompt, actions given away,
                      \* reward, length
          scores,     \* reward_tensor
          offpolicy,  \* offpolicy_sample_mask
          opd,        \* opd_mask
          old,        \* old_log_probs: of which rollout
          advantages, \* the reward less its group's mean, N times (not divided by the std)
          loss,       \* what the row adds to the gradient: a set of terms
          hard,       \* hard_uids
          teacher,    \* sum of the teacher's rewards for each prompt of gen_batch
          best        \* best unguided reward of each prompt (history)
learnVars == <<old, advantages, loss>>
vars == <<setting, stage, uid, rollout, scores, offpolicy, opd, learnVars, hard, teacher, best>>

\* Row i of a table of prompts, each repeated n times (interleave=True).
RepeatInterleaved(i, n) == ((i - 1) \div n) + 1

Rollout(u, k, r, l) == [prompt |-> u, hints |-> k, reward |-> r, len |-> l]
NoRollout == Rollout(0, 0, 0, 0)

\* _resolve_guidance_fixed_k: the ratio before the number, neither above n.
FixedHints(n) == CASE n = 0        -> 0
                   [] RatioNum > 0 -> (n * RatioNum + RatioDen - 1) \div RatioDen
                   [] FixedK < 0   -> n
                   [] OTHER        -> Min({FixedK, n})

\* What is injected into a prompt that is guided, and what fit injects before
\* the rollout.
HintsOf(u) == IF setting.adaptive THEN optimal[u] ELSE FixedHints(NumActions[u])
HintsBefore(u) == IF setting.mode = "guided" THEN HintsOf(u) ELSE 0

Init ==
  /\ setting \in Settings /\ stage = "generate"
  /\ uid = [i \in Rows |-> RepeatInterleaved(i, N)]
  /\ rollout = [i \in Rows |-> NoRollout] /\ old = [i \in Rows |-> NoRollout]
  /\ scores = [i \in Rows |-> 0]
  /\ offpolicy = [i \in Rows |-> FALSE] /\ opd = [i \in Rows |-> FALSE]
  /\ advantages = [i \in Rows |-> 0] /\ loss = [i \in Rows |-> {}]
  /\ hard = <<>> /\ teacher = [u \in Uids |-> 0] /\ best = [u \in Uids |-> 0]

RowsOf(u) == {i \in Rows : uid[i] = u}

\* Mutant: the hints are given to the rows as they stand, not to their prompts.
HintsOfRow_Tiled(i) == HintsBefore(((i - 1) % NumPrompts) + 1)

\* gen_batch, with its hints, is repeated like the batch.
HintsOfRow(i) == HintsBefore(RepeatInterleaved(i, N))

\* Every prompt is rolled out N times.
Generate ==
  /\ stage = "generate" /\ stage' = "balance"
  /\ \E r \in [Rows -> Rewards] :
       rollout' = [i \in Rows |-> Rollout(RepeatInterleaved(i, N), HintsOfRow(i), r[i], setting.lengths[i])]
  /\ best' = [u \in Uids |-> Max({rollout'[i].reward : i \in RowsOf(u)})]
  /\ UNCHANGED <<setting, uid, scores, offpolicy, opd, learnVars, hard, teacher>>

RowLengths == [i \in Rows |-> rollout[i].len]

\* _balance_batch: the rows move, in an order their lengths decide.
Balance ==
  /\ stage = "balance" /\ stage' = "reward"
  /\ LET idx == IF setting.balance THEN GlobalIdx(RowLengths, WorldSize) ELSE [i \in Rows |-> i]
     IN  /\ uid' = [i \in Rows |-> uid[idx[i]]]
         /\ rollout' = [i \in Rows |-> rollout[idx[i]]]
  /\ UNCHANGED <<setting, scores, offpolicy, opd, learnVars, hard, teacher, best>>

ComputeReward ==
  /\ stage = "reward"
  /\ stage' = IF setting.mode \in {"selective", "gate"} THEN setting.mode ELSE "old"
  /\ scores' = [i \in Rows |-> rollout[i].reward]
  /\ UNCHANGED <<setting, uid, rollout, offpolicy, opd, learnVars, hard, teacher, best>>
-----------------------------------------------------------------------------
(* _collect_group_reward_stats: groups in the order of their first rows.   *)
InOrder(rows) == SetToSortSeq(rows, LAMBDA i, j : i < j)
GroupMax(u) == Max({scores[i] : i \in RowsOf(u)})

\* Mutant: a group is hard when one rollout is.
IsHard_Any(u) == Min({scores[i] : i \in RowsOf(u)}) <= HardThreshold

IsHard(u) == GroupMax(u) <= HardThreshold

HardUids ==
  LET first == InOrder({i \in Rows : /\ IsHard(uid[i])
                                     /\ \A j \in RowsOf(uid[i]) : i <= j})
  IN  [h \in DOMAIN first |-> uid[first[h]]]

SelectHard ==
  /\ stage = "selective"
  /\ hard' = HardUids
  /\ stage' = IF hard' = <<>> THEN "old" ELSE "guided"
  /\ UNCHANGED <<setting, uid, rollout, scores, offpolicy, opd, learnVars, teacher, best>>

\* Mutant: the rows of the hard groups, in the order of the batch.
HardBatchIdxs_Sorted == InOrder({i \in Rows : uid[i] \in ToSet(hard)})

HardBatchIdxs == FlattenSeq([h \in DOMAIN hard |-> InOrder(RowsOf(hard[h]))])

\* column[idxs] = values
PutAt(column, idxs, values) ==
  [i \in DOMAIN column |-> IF \E j \in DOMAIN idxs : idxs[j] = i
                             THEN values[CHOOSE j \in DOMAIN idxs : idxs[j] = i]
                             ELSE column[i]]

ReplacedScores(guidedReward) == PutAt(scores, HardBatchIdxs, guidedReward)

HardPrompt(j) == hard[RepeatInterleaved(j, N)]

\* The loop that injects a fixed share leaves k unbound when no hard prompt has
\* an action, and the line after it reads k.
KUnbound == ~setting.adaptive /\ \A h \in DOMAIN hard : NumActions[hard[h]] = 0

GuidanceRaises ==
  /\ stage = "guided" /\ KUnbound /\ stage' = "raised"
  /\ UNCHANGED <<setting, uid, rollout, scores, offpolicy, opd, learnVars, hard, teacher, best>>

\* The hard prompts, each repeated N times, are rolled out with guidance, and
\* the output is written over the rows HardBatchIdxs of the batch.
GuidedRollout ==
  /\ stage = "guided" /\ ~KUnbound /\ stage' = "old"
  /\ \E guidedReward \in [1 .. Len(hard) * N -> Rewards] :
       /\ rollout' = PutAt(rollout, HardBatchIdxs,
                          [j \in DOMAIN guidedReward |->
                             Rollout(HardPrompt(j), HintsOf(HardPrompt(j)), guidedReward[j],
                                     setting.lengths[j])])
       /\ scores' = ReplacedScores(guidedReward)
  /\ offpolicy' = [i \in Rows |-> i \in ToSet(HardBatchIdxs)]
  /\ UNCHANGED <<setting, uid, opd, learnVars, hard, teacher, best>>
-----------------------------------------------------------------------------
\* teacher_seq_reward.repeat_interleave(student_n)
TeacherRow(i) == RepeatInterleaved(i, N)

\* The teacher's mean against the student's reward and the margin.
Gate ==
  /\ stage = "gate" /\ stage' = "old"
  /\ \E r \in [1 .. NumPrompts * TeacherN -> Rewards] :
       teacher' = [u \in Uids |->
         SumFunctionOnSet(r, {j \in DOMAIN r : RepeatInterleaved(j, TeacherN) = u})]
  /\ opd' = [i \in Rows |-> teacher'[TeacherRow(i)] > (scores[i] + Margin) * TeacherN]
  /\ UNCHANGED <<setting, uid, rollout, scores, offpolicy, learnVars, hard, best>>

(* Dynamic batches: the ranks cut their rows, rowsOf[r], into as many      *)
(* micro-batches as any rank needs.                                        *)
Share == (NumPrompts * N) \div WorldSize
Ranks == 1 .. WorldSize
RowsOfRank(r) == [j \in 1 .. Share |-> (r - 1) * Share + j]

LengthsOf(rows) == [j \in DOMAIN rows |-> rollout[rows[j]].len]
NumMicro(rowsOf) == Max({NumMicroBatches(LengthsOf(rowsOf[r]), MaxTokenLen) : r \in Ranks})
Micro(rowsOf, r) == MicroBatches(LengthsOf(rowsOf[r]), NumMicro(rowsOf))

(* compute_log_prob: the results come in the order of the micro-batches and*)
(* are put back in place.                                                  *)
Shares == [r \in Ranks |-> RowsOfRank(r)]
LogProbsOf(r) ==
  LET order  == FlattenSeq(Micro(Shares, r))
      output == [j \in 1 .. Share |-> rollout[Shares[r][order[j]]]]
  IN  Restored(output, order)

OldLogProb ==
  /\ stage = "old" /\ stage' = "advantage"
  /\ old' = FlattenSeq([r \in Ranks |-> LogProbsOf(r)])
  /\ UNCHANGED <<setting, uid, rollout, scores, offpolicy, opd, advantages, loss, hard, teacher, best>>

\* compute_grpo_outcome_advantage: the mean of the rows with the same uid; none
\* is taken off the only row of a group.
GroupMean(u) == IF Cardinality(RowsOf(u)) = 1 THEN 0 ELSE SumFunctionOnSet(scores, RowsOf(u))

ComputeAdvantage ==
  /\ stage = "advantage" /\ stage' = "update"
  /\ advantages' = [i \in Rows |-> N * scores[i] - GroupMean(uid[i])]
  /\ UNCHANGED <<setting, uid, rollout, scores, offpolicy, opd, old, loss, hard, teacher, best>>
-----------------------------------------------------------------------------
(* DataParallelPPOActor.update_policy: one epoch, losses that are means of *)
(* rows (the loss_agg_mode seq-mean).                                      *)

NumSteps == CeilDiv(Share, MiniSize)

\* A term of the loss: the log-probabilities of the response after so many hints,
\* against others, in an optimizer step, weighing num / den.
Term(kind, of, against, step, weight) ==
  [kind |-> kind, of |-> of, against |-> against, step |-> step, weight |-> weight]

\* How the actor runs the rows: the prompt it is given, and in "dual" another one.
Forward(i) == CASE setting.offpolicy = "none"   -> {rollout[i].hints}
                [] setting.offpolicy = "single" -> {0}
                [] setting.offpolicy = "dual"   -> {rollout[i].hints, 0}

\* ref_log_prob, or unguided_ref_log_prob for the prompt without hints.
Reference(i, of) == of

\* Mutant: by the number of micro-batches, as with micro-batches of one size.
Weight_ByNumber(micro, number) == <<1, number * Len(micro)>>

\* A row's share in the mean of its micro-batch, times loss_scale_factor.
Weight(micro, number) == <<Len(micro), MiniSize * Len(micro)>>

\* old_log_prob: with one optimizer step and no hints to train without, the
\* actor takes what it has just computed, else what the trainer sent.
Behavior(i, of) == IF NumSteps = 1 /\ setting.offpolicy = "none" THEN of ELSE old[i].hints

Terms(i, step, weight) ==
  UNION {{Term("policy", of, Behavior(i, of), step, weight),
          Term("kl", of, Reference(i, of), step, weight)} : of \in Forward(i)}

MiniBatch(step) == [r \in Ranks |->
  SubSeq(RowsOfRank(r), (step - 1) * MiniSize + 1, Min({Share, step * MiniSize}))]

\* What the rows of a micro-batch add to the gradient: pairs of a row and a term.
Backward(micro, number, step) ==
  UNION {{<<i, term>> : term \in Terms(i, step, Weight(micro, number))} : i \in ToSet(micro)}

\* Every optimizer step takes MiniSize rows of every rank, cut into micro-batches.
UpdateStep(step) ==
  LET rowsOf  == MiniBatch(step)
      Lists(r) == {[j \in DOMAIN list |-> rowsOf[r][list[j]]] : list \in ToSet(Micro(rowsOf, r))}
  IN  UNION {UNION {Backward(micro, NumMicro(rowsOf), step) : micro \in Lists(r)} : r \in Ranks}

UpdateActor ==
  /\ stage = "update" /\ stage' = "done"
  /\ \E added \in {UNION {UpdateStep(step) : step \in 1 .. NumSteps}} :
       loss' = [i \in Rows |-> {x[2] : x \in {y \in added : y[1] = i}}]
  /\ UNCHANGED <<setting, uid, rollout, scores, offpolicy, opd, old, advantages, hard, teacher, best>>

Done == stage \in {"done", "raised"} /\ UNCHANGED vars

Next == \/ Generate \/ Balance \/ ComputeReward \/ SelectHard \/ GuidanceRaises \/ GuidedRollout
        \/ Gate \/ OldLogProb \/ ComputeAdvantage \/ UpdateActor \/ Done
Spec == Init /\ [][Next]_vars
-----------------------------------------------------------------------------
(* What sorting and the differencing method are for: lists of rows with    *)
(* each row once.                                                          *)

Arranges(list, rows) ==
  /\ list \in [1 .. Cardinality(rows) -> rows]
  /\ \A i \in rows : \E j \in DOMAIN list : list[j] = i
  /\ \A j, k \in DOMAIN list : list[j] = list[k] => j = k

\* Whatever share of the rows the ranks cut up.
ListsComplete ==
  /\ \A rows \in SUBSET Rows : Arranges(InOrder(rows), rows)
  /\ \A s \in Settings : s.balance => Arranges(GlobalIdx(s.lengths, WorldSize), Rows)
  /\ \A size \in 1 .. Share : \A lengths \in [Ranks -> [1 .. size -> 1 .. MaxTokenLen]] : \A r \in Ranks :
       LET number == Max({NumMicroBatches(lengths[q], MaxTokenLen) : q \in Ranks})
           lists  == MicroBatches(lengths[r], number)
       IN  lists \in Seq(Seq(1 .. size)) /\ Arranges(FlattenSeq(lists), 1 .. size)
-----------------------------------------------------------------------------
\* Every column has a value of its type in every row.
TypeOK ==
  /\ setting \in Settings
  /\ stage \in {"generate", "balance", "reward", "selective", "guided", "gate", "old", "advantage",
               "update", "done", "raised"}
  /\ uid \in [Rows -> Uids]
  /\ {rollout, old} \subseteq
       [Rows -> [prompt : Uids, hints : Nat, reward : Rewards, len : Nat] \union {NoRollout}]
  /\ scores \in [Rows -> Rewards \union {0}]
  /\ {offpolicy, opd} \subseteq [Rows -> BOOLEAN]
  /\ advantages \in [Rows -> Int] /\ DOMAIN loss = Rows
  /\ hard \in Seq(Uids) /\ teacher \in [Uids -> Nat] /\ best \in [Uids -> Rewards \union {0}]

\* Whatever was permuted and written back, a row of the finished batch is one
\* rollout: generated for the prompt of its uid with the hints of that prompt,
\* scored with its own reward, with its own old_log_probs.
RowsAligned == stage = "done" => \A i \in Rows :
  /\ rollout[i].prompt = uid[i] /\ scores[i] = rollout[i].reward /\ old[i] = rollout[i]
  /\ rollout[i].hints = IF offpolicy[i] THEN HintsOf(uid[i]) ELSE HintsBefore(uid[i])

\* The groups the advantages are computed over stay whole: each has N rows, all
\* off-policy if no unguided rollout of the prompt was above the threshold, and
\* all on-policy otherwise; the rewards that are compared are those of N rollouts
\* of one prompt.
GroupsWhole == stage = "done" => \A u \in Uids :
  /\ Cardinality(RowsOf(u)) = N
  /\ N > 1 => SumFunctionOnSet(advantages, RowsOf(u)) = 0
  /\ \A i \in RowsOf(u) : rollout[i].prompt = u
  /\ \A i \in RowsOf(u) :
       offpolicy[i] = (setting.mode = "selective" /\ best[u] <= HardThreshold)

\* "Reorder the data ... such that each dp rank gets similar total tokens": two
\* ranks differ by no more than the rows that stand together in the order of
\* their lengths, WorldSize by WorldSize.
LoadOfRank(r) == Total(calculate_workload(LengthsOf(RowsOfRank(r))))
RanksBalanced == stage = "reward" /\ setting.balance =>
  LET sorted == SortSeq(calculate_workload(RowLengths), <)
      Gap(j) == sorted[j * WorldSize] - sorted[(j - 1) * WorldSize + 1]
  IN  \A r, q \in 1 .. WorldSize :
        LoadOfRank(r) - LoadOfRank(q) <= Max({Gap(j) : j \in 1 .. Share})

\* The assertions of get_seqlen_balanced_partitions hold: every rank finds rows
\* for as many micro-batches as the rank with the most tokens asks for.
MicroBatchesFilled == stage = "old" => \A r \in 1 .. WorldSize :
  LET lists == Micro(Shares, r)
  IN  /\ \A m \in DOMAIN lists : lists[m] /= <<>>
      /\ UNION {ToSet(lists[m]) : m \in DOMAIN lists} = 1 .. Share

\* What the update is: every row is trained on in one optimizer step, on all its
\* branches, with the weight every other row has; the ratio of a branch is to the
\* policy the row was rolled out with ("old_log_probs = pi(r|behavior)"), and its
\* KL term to the reference after the same prompt (ray_trainer.py:2175-2176).
UpdateFair == stage = "done" => \A i \in Rows :
  /\ \E step \in 1 .. NumSteps : \A t \in loss[i] : t.step = step
  /\ {t.of : t \in {x \in loss[i] : x.kind = "policy"}} = Forward(i)
  /\ Cardinality(loss[i]) = 2 * Cardinality(Forward(i))
  /\ \A t \in loss[i] :
       /\ t.weight[1] * MiniSize = t.weight[2]
       /\ t.against = IF t.kind = "kl" THEN t.of ELSE rollout[i].hints

\* "Each student rollout is compared against the mean teacher reward for that
\* prompt" (ray_trainer.py:2024-2025).
GatePerPrompt == stage = "done" /\ setting.mode = "gate" => \A i \in Rows :
  opd[i] = (teacher[uid[i]] > (scores[i] + Margin) * TeacherN)
=============================================================================
