---------------------------- MODULE MCGuidedStep ----------------------------
(* Instances of AdaptiveStep for TLC: a list that ceil(log2(4)) steps     *)
(* close or leave open, one they always close, and none.                   *)
EXTENDS AdaptiveStep
MixedBatch == [s \in Samples |-> IF s = 1 THEN 4 ELSE IF s = 2 THEN 1 ELSE 0]
ZeroOne    == {0, 1}
Plain == <<1, 2, 3, 4, 1, 2>>
Moving == <<1, 4, 2, 1, 2, 4>>
\* Rows that move in many ways, rows that stay, and shares of two and of three
\* micro-batches.
SomeLengths == {Moving, <<1, 4, 3, 3, 2, 2>>, <<3, 1, 1, 2, 4, 4>>,
                <<2, 2, 2, 2, 2, 2>>}
Modes(m, a, o, b, ls) == [mode : {m}, adaptive : {a}, offpolicy : {o}, balance : {b}, lengths : ls]
AllModes     == Modes("selective", FALSE, "single", TRUE, SomeLengths)
                  \union Modes("selective", TRUE, "single", TRUE, {Moving})
                  \union Modes("guided", FALSE, "dual", TRUE, SomeLengths)
                  \union Modes("guided", TRUE, "single", FALSE, {Plain})
                  \union Modes("gate", FALSE, "none", FALSE, {Plain})
GateBalanced == Modes("gate", FALSE, "none", TRUE, SomeLengths)
\* The theorems about the step rest on this.
ASSUME ListsAssumption == Step!ListsComplete
=============================================================================
