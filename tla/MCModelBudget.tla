--------------------------- MODULE MCModelBudget ---------------------------
(* ModelBudget with three calls of one run whose maxima do not all fit in    *)
(* the month.  A calm behaviour goes through two months without a failure.   *)
EXTENDS ModelBudget, TLC

CONSTANTS r1, c1, c2, c3

OneRun         == {r1}
OneRunCalls    == {c1, c2, c3}
OneRunRunOf    == (c1 :> r1) @@ (c2 :> r1) @@ (c3 :> r1)
OneRunMaxCost  == (c1 :> 1) @@ (c2 :> 1) @@ (c3 :> 2)

VARIABLE calm

Calm == INSTANCE ModelBudget WITH Faults <- {}

MCVars == <<vars, calm>>
MCInit == Init /\ calm \in BOOLEAN
MCNext ==
    /\ \/ calm /\ Calm!Next
       \/ ~calm /\ Next /\ clock' = clock
    /\ UNCHANGED calm
MCSpec == MCInit /\ [][MCNext]_MCVars
=============================================================================
