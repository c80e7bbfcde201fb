------------------------- MODULE MCEditionSelection -------------------------
(* Two scenes: many research candidates, followed until triage, and few      *)
(* candidates of every section, followed until the edition; at most one      *)
(* admitted item is not assessed there.                                      *)
EXTENDS EditionSelection, TLC

CONSTANT Places, TriagePlaces

MCTopics   == <<"alignment", "oversight">>
MCFamilies == <<"arxiv", "commentary">>
MCDomains  == [arxiv |-> 2, commentary |-> 2]
MCMaxima   == [morning |-> 4, featured |-> 2, radar |-> 1, world |-> 2, technology |-> 1,
               ai_policy |-> 1, local |-> 2, forecast |-> 1]

Paper == [text |-> TRUE, fit |-> 60, topics |-> {"alignment"}, topic |-> "alignment",
          family |-> "arxiv", domain |-> "d1", core |-> TRUE, paper |-> TRUE,
          quality |-> 60, novelty |-> 50, institutions |-> 0, citations |-> -1, context |-> 0,
          section |-> "research"]
With(k, v) == [Paper EXCEPT ![k] = v]
TriageKinds ==
    {Paper, With("topics", {"oversight"}), [With("fit", 70) EXCEPT !.domain = "d2"],
     [With("family", "commentary") EXCEPT !.topics = {"oversight"}],
     With("fit", 40), [With("fit", 40) EXCEPT !.core = FALSE, !.family = "commentary"],
     [With("fit", 45) EXCEPT !.core = FALSE, !.domain = "d2"], With("fit", 20)}
EditionResearch ==
    {Paper, [With("core", FALSE) EXCEPT !.topic = "oversight", !.domain = "d2", !.context = 2],
     [With("fit", 40) EXCEPT !.domain = "d3", !.citations = 80],
     [With("paper", FALSE) EXCEPT !.family = "commentary", !.institutions = 2]}
News(s, relevance, sources) ==
    [section |-> s, relevance |-> relevance, sources |-> sources, quality |-> 90, recency |-> 90]
EditionNews == {News("world", 60, 3), News("forecast", 90, 4), News("dmv", 10, 0)}

\* A candidate's id and its date follow its place in the pool.
Placed(kind, n, places) == kind @@ [id |-> n, date |-> places - n, score |-> 0]
Pool(kinds, n) == {Placed(kinds[i], i, n) : i \in 1 .. n}

Budgets == {MCMaxima, [MCMaxima EXCEPT !.morning = 99, !.featured = 1, !.world = 1]}
LocalChoice(b) == (b @@ [dmv |-> 1, baltimore |-> 2])

VARIABLE scene
MCVars == <<selectionVars, scene>>

MCInit ==
    /\ \/ /\ scene = "triage" /\ news = {} /\ policy = "normal"
          /\ configured = LocalChoice(MCMaxima)
          /\ \E kinds \in [1 .. TriagePlaces -> TriageKinds] : research = Pool(kinds, TriagePlaces)
       \/ /\ scene = "edition"
          /\ \E b \in Budgets :
                 /\ configured = LocalChoice(b)
                 /\ policy \in IF b = MCMaxima THEN {"normal", "hard_stop"} ELSE {"degraded"}
          /\ \E kinds \in [1 .. Places -> EditionResearch \cup EditionNews] :
                 /\ research = {i \in Pool(kinds, Places) : i.section = "research"}
                 /\ news     = {i \in Pool(kinds, Places) : i.section # "research"}
    /\ SelectionInit

MCNext ==
    /\ \/ NormalizeItems
       \/ Prefilter
       \/ /\ scene = "edition"
          /\ \/ \E scored \in SUBSET ToSet(queue) :
                   Cardinality(scored) >= Len(queue) - 1 /\ Assess(scored)
             \/ Score
             \/ Shortlist
             \/ \E valid \in SUBSET ToSet(listed) : Compose(valid)
    /\ UNCHANGED scene
MCSpec == MCInit /\ [][MCNext]_MCVars
=============================================================================
