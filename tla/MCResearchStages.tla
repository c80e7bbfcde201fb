-------------------------- MODULE MCResearchStages --------------------------
(* Two works in two lanes, offered to two runs a day or a week apart.        *)
EXTENDS ResearchStages

MCUncached == [normal |-> 2, degraded |-> 1, hard_stop |-> 0]

Work(w, published, evidence, of, merged, route, fit) ==
    [work |-> w, published |-> published, evidence |-> evidence, lanes |-> of, merged |-> merged,
     route |-> route, fit |-> fit, assessed |-> 0]

\* Work 1 is found fresh, old with the same evidence and joined with a record of
\* the other lane, or old with other evidence.  Work 2 is old, of low fit, or
\* too old; with a fresh work 1 it is also an article routed to the news with
\* a record joined to it, or left out.
New    == Work(1, 0, 1, {"l1"}, {}, "research", "high")
First  == {New, Work(1, 3, 1, {"l2"}, {"l1"}, "research", "high"),
           Work(1, 3, 2, {"l1"}, {}, "research", "high")}
Second == {Work(2, 3, 1, {"l1", "l2"}, {}, "research", "high"),
           Work(2, 8, 1, {"l1"}, {"l1"}, "research", "high"), Work(2, 0, 1, {"l2"}, {}, "research", "low")}
Others == {Work(2, 3, 1, {"l2"}, {"l1"}, "news", "low"), Work(2, 0, 1, {"l2"}, {}, "unprepared", "low"),
           Work(2, 0, 1, {"l2"}, {"l1"}, "route_excluded", "low")}

\* A lane has counted every record of its own; l1 delivers one of work 1 twice.
Found(works) ==
    [l \in Lanes |-> Cardinality({w \in works : l \in w.lanes}) + Cardinality({w \in works : l \in w.merged})
                       + (IF l = "l1" /\ \E w \in works : w.work = 1 /\ w.evidence = 2 THEN 1 ELSE 0)]
MCOffers == {[works |-> works, discovered |-> Found(works)] :
                works \in {{f, w} : f \in First, w \in Second} \cup {{New, w} : w \in Others}}
=============================================================================
