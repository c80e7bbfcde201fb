---------------------------- MODULE MCCollection ----------------------------
(* A research provider with two lanes, a single worker and an enricher, a    *)
(* news feed and a publication, and an administrator who disables, repairs   *)
(* and adds sources.                                                         *)
EXTENDS Collection, TLC

MCByName    == <<"feed", "lab", "s2">>
MCLanesOf   == [s2 |-> 2]
MCWorkers   == [s2 |-> 1]
MCEnrichers == <<"s2">>

Row(url, role, sections, via, config) ==
    [url |-> url, enabled |-> TRUE, role |-> role, sections |-> sections, via |-> via,
     config |-> config, health |-> "unknown", success |-> 0]
Paper(id, arxiv, doi, own, names, title) ==
    [id |-> id, arxiv |-> arxiv, doi |-> doi, own |-> own, names |-> names, title |-> title]

\* P3 has an identity of P1 and one of P2; P4 has no title; and the authors of
\* P1 and P5, which arXiv says are one paper, are too many together.
P1 == Paper(1, {"x1"}, {"d1"}, {}, {"a", "b"}, TRUE)
P2 == Paper(2, {"x2"}, {}, {"o"}, {"a"}, TRUE)
P3 == Paper(3, {}, {"d1"}, {"o"}, {"a"}, TRUE)
P4 == Paper(4, {"x4"}, {}, {}, {"a"}, FALSE)
P5 == Paper(5, {"x1"}, {}, {}, {"c", "d"}, TRUE)
MCFinds == [s2 |-> {{P1, P2}, {P3, P4}, {P5}},
            feed |-> {{Entry("story", TRUE, TRUE, 0), Entry("past", TRUE, TRUE, 3)}, {Entry("ad", FALSE, TRUE, 0)}},
            lab |-> {{Entry("post", TRUE, TRUE, 3), Entry("note", TRUE, TRUE, Undated)},
                     {Entry("menu", TRUE, FALSE, Undated)}}]

MCCatalogs ==
    {[s2    |-> Row("u2", "primary", {"research"}, "api", "sound"),
      feed  |-> Row("u3", "reporting", {"world"}, "rss", "sound"),
      lab   |-> NoRow]}
MCSent == {[id |-> "lab", row |-> Row("u3", "blog", {"research"}, "page", "unpinned")],
           [id |-> "lab", row |-> Row("u4", "blog", {"research"}, "page", "sound")]}
MCChanges == {[source |-> "feed", fields |-> f] : f \in {"enabled" :> FALSE, "config" :> "sound"}}

(* No lane waits for ever: its provider's workers go on to the next lane.    *)
EveryLaneSettles ==
    phase = "collecting" ~> phase # "collecting" \/ \A op \in DOMAIN lane : lane[op] \notin Open
=============================================================================
