---------------------------- MODULE MCPreferences ----------------------------
(* Preferences with one weight.  The reader either has two tabs open at the  *)
(* same time, between the runs, and only one of them once there is a second  *)
(* adjustment, or one at a time and less feedback, with a run and retention. *)
EXTENDS Preferences, TLC

TabSymmetry == Permutations(Tabs)

VARIABLE alone      \* one tab, and runs

MCVars == <<vars, alone>>
MCInit == Init /\ alone \in BOOLEAN
Others(t) == Tabs \ {t}
MCNext ==
    /\ \/ \E t \in Tabs : Reader(t) /\ (alone \/ made' > 1 => \A u \in Others(t) : tab[u] = Idle(NoPage))
       \/ alone /\ (Prune \/ NextDay \/ \E r \in Runs : Run(r))
    /\ alone => made' <= 1
    /\ UNCHANGED alone
MCSpec == MCInit /\ [][MCNext]_MCVars
=============================================================================
