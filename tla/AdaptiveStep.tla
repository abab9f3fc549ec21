---------------------------- MODULE AdaptiveStep ----------------------------
(***************************************************************************)
(* RayPPOTrainer.fit with the search it calls, if the setting is adaptive: *)
(* in the mode "guided" for all prompts, before they are rolled out, and in*)
(* the mode "selective" for the hard ones, before they are rolled out      *)
(* again, each with the length it has found.  The rollouts of the step are *)
(* of the policy the search probes.                                        *)
(***************************************************************************)
EXTENDS GuidanceSearch

CONSTANTS N, Rewards, HardThreshold,
          SuccessThreshold,   \* adaptive_success_threshold of guided_offpolicy
          TeacherN, Margin, FixedK, RatioNum, RatioDen, Settings,
          WorldSize, MaxTokenLen, MiniSize

\* The samples of the search are the prompts of gen_batch, by position; the rows
\* are shared out evenly, no row is longer than a micro-batch, and selective
\* guidance trains its rows without hints; the gate is used without guidance.
ASSUME AdaptiveStepAssumption ==
  LET rows == 1 .. Cardinality(Samples) * N IN
  /\ IsFiniteSet(Samples) /\ Samples = 1 .. Cardinality(Samples) /\ Samples /= {}
  /\ {N, TeacherN} \subseteq Nat \ {0}
  /\ Rewards \subseteq Nat /\ Rewards /= {} /\ {HardThreshold, SuccessThreshold, Margin} \subseteq Nat
  /\ FixedK \in Int /\ RatioNum \in Nat /\ RatioDen \in Nat \ {0} /\ RatioNum <= RatioDen
  /\ {WorldSize, MaxTokenLen, MiniSize} \subseteq Nat \ {0}
  /\ Cardinality(rows) % WorldSize = 0
  /\ Settings \subseteq [mode : {"guided", "selective", "gate"}, adaptive : BOOLEAN,
                    offpolicy : {"none", "single", "dual"}, balance : BOOLEAN,
                    lengths : [rows -> 1 .. MaxTokenLen]]
  /\ \A s \in Settings : /\ s.mode = "selective" => s.offpolicy = "single"
                         /\ s.mode = "gate" => ~s.adaptive

VARIABLES setting, stage, uid, rollouts, scores, offpolicy, opd, old, advantages, loss, hard, teacher,
          best

Step == INSTANCE GuidedStep
          WITH NumPrompts <- Cardinality(Samples), NumActions <- Actions, rollout <- rollouts

stepVars == <<setting, stage, uid, rollouts, scores, offpolicy, opd, old, advantages, loss,
              hard, teacher, best>>

\* No search is ever made: its variables stand still.
NoSearch == /\ lo = [s \in Samples |-> 0] /\ hi = Actions
            /\ step = 0 /\ rollout = 0 /\ success = {}
            /\ optimal = [s \in Samples |-> Unset]
            /\ possible = [s \in Samples |-> 0] /\ sure = [s \in Samples |-> 0]
            /\ failed = [s \in Samples |-> {}] /\ passed = [s \in Samples |-> {}]

StepInit ==
  /\ Step!Init
  /\ IF setting.adaptive THEN Fresh ELSE NoSearch
  /\ batch = IF setting.adaptive /\ setting.mode = "guided" THEN Samples ELSE {}

\* Where the step waits for the search.
AtSearch == setting.adaptive /\ stage = IF setting.mode = "guided" THEN "generate" ELSE "guided"

\* hard_gen: the prompts of gen_batch that have just been found hard.
GenBatch == Step!ToSet(hard')

(* adaptive_guidance.search, called by fit or by the selective phase.      *)
Search == /\ AtSearch
          /\ Probe \/ UpdateBounds \/ Return
          /\ UNCHANGED stepVars

\* reward_success_threshold: of the selective phase, or the default.
Threshold == IF setting.mode = "selective" THEN SuccessThreshold ELSE 0

\* The reward of a row is above the threshold as the policy has it.
PolicyAllows == setting.adaptive => \A i \in Step!Rows :
  LET row == rollouts'[i] IN
    /\ row.hints < possible[row.prompt] => row.reward <= Threshold
    /\ row.hints >= sure[row.prompt]    => row.reward > Threshold

(* The rest of the step, up to a search and once it has returned.          *)
Train == /\ AtSearch => Returned
         /\ Step!Next /\ PolicyAllows
         /\ batch' = IF setting.adaptive /\ stage = "selective" THEN GenBatch ELSE batch
         /\ UNCHANGED <<boundVars, policyVars, historyVars>>

StepNext == Search \/ Train
StepSpec == StepInit /\ [][StepNext]_<<vars, stepVars>>
-----------------------------------------------------------------------------
\* The invariants of the step, as GuidedStep states them.
RowsAligned == Step!TypeOK /\ Step!RowsAligned
GroupsWhole == Step!GroupsWhole
GatePerPrompt == Step!GatePerPrompt
UpdateFair == Step!UpdateFair
Balanced == Step!RanksBalanced /\ Step!MicroBatchesFilled

\* What the search is for: a prompt whose bracket its steps have closed is rolled
\* out, in this step, with no fewer actions than may succeed, unless all of them
\* are given away.
HintsPay == stage = "done" /\ Offset >= 0 => \A i \in Step!Rows :
  uid[i] \in batch /\ lo[uid[i]] = hi[uid[i]] =>
    \/ rollouts[i].hints >= possible[uid[i]]
    \/ rollouts[i].hints = Actions[uid[i]]
=============================================================================
