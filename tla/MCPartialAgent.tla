--------------------------- MODULE MCPartialAgent ---------------------------
(* Scripts for PartialAgent: turns with a call, turns without.             *)
EXTENDS PartialAgent, TLC
CONSTANTS a1, a2
Says(n)  == [len |-> n, from |-> 0]
Calls(n) == [len |-> n, from |-> n]
\* With ResponseLength 7: a1 is cut in its third generation, where an
\* interruption can find it full, and a2 by its second tool response.
Cut   == a1 :> << Calls(2), Calls(2), Says(2) >> @@ a2 :> << Calls(3), Calls(2), Says(1) >>
\* One ends by itself, the other at MaxUserTurns = 2.
Ended == a1 :> << Calls(2), Says(2) >> @@ a2 :> << Calls(1), Calls(1), Calls(1), Says(1) >>
AllScripts == {Cut, Ended}
\* A call of two tokens.
LongCall   == {a1 :> << [len |-> 3, from |-> 2], Says(1) >>}
=============================================================================
