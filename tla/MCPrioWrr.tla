----------------------------- MODULE MCPrioWrr -----------------------------
(* The scheduler with an expedited and a best effort flow, told apart by tc *)
(* filters, and the tc requests that matter.                                *)
EXTENDS PrioWrr

Opt(w, q) == [w |-> [b \in Band |-> w[b + 1]], q |-> [b \in Band |-> q[b + 1]]]

TwoFlows == {"voice", "bulk"}
ByFilter == [f \in TwoFlows |-> IF f = "voice" THEN 2 ELSE 4]
Plain == [f \in TwoFlows |-> 0]

Default == Opt(<<100, 100, 70, 30>>, <<1, 2, 0, 0>>)
SameWeights == Opt(<<0, 0, 0, 0>>, <<1, 1, 0, 0>>)
TooLong == Opt(<<100, 100, 80, 20>>, <<7, 5, 1, 1>>)
Explicit == Opt(<<100, 100, 40, 20>>, <<1, 1, 1, 2>>)
Oversubscribed == Opt(<<0, 0, 80, 80>>, <<1, 2, 0, 0>>)
TunedOptions == {Default, SameWeights, Explicit, TooLong, Oversubscribed}
=============================================================================
