-------------------------- MODULE EditionSelection --------------------------
(***************************************************************************)
(* From the discovered candidates to the status of the edition: the pool,  *)
(* triage, the shortlist with its gates, diversity and section budgets,    *)
(* the research-first morning list, and the composition of the entries.    *)
(***************************************************************************)
EXTENDS ResearchTriage

CONSTANTS Profile,          \* Profile[k]: the reader profile's budget of k
          Maxima,           \* Maxima[k]: the approved section maximum of k
          MinimumQuality,   \* technical quality of a shortlisted paper: 0.5
          FewestEntries,    \* entries of a complete edition, at least: 6
          MostEntries       \* and at most: 8

ASSUME SelectionAssumption ==
    /\ {MinimumQuality, FewestEntries, MostEntries} \subseteq Nat
    /\ {"morning", "featured", "radar"} \subseteq DOMAIN Maxima
    /\ \A k \in DOMAIN Maxima : Maxima[k] \in Nat /\ Profile[k] \in 0 .. Maxima[k]
    /\ FewestEntries <= MostEntries /\ Maxima["featured"] + 2 <= MostEntries

VARIABLES
    at,         \* the stage the items have reached
    configured, \* configured[k]: the reader's budget for k, any number
    policy,     \* the state of the model budget: normal, degraded, hard_stop
    research,   \* the research items after at
    news,       \* the developments found in the news
    queue,      \* the research items admitted to assessment
    listed,     \* the shortlisted entries, in order
    status      \* of the composed edition

selectionVars == <<at, configured, policy, research, news, queue, listed, status>>

Local    == {"dmv", "baltimore"}
Nonlocal == {"world", "technology", "ai_policy"}

(* A stored budget counts when it is within the approved maximum. *)
Preferred(k) == IF configured[k] \in 0 .. Maxima[k] THEN configured[k] ELSE Profile[k]
LocalBudget ==
    LET given == {configured[s] : s \in Local} \cap (0 .. Maxima["local"])
    IN  IF given = {} THEN Profile["local"] ELSE CHOOSE n \in given : \A m \in given : m <= n
RadarBudget == CASE policy = "hard_stop" -> 0
                 [] policy = "degraded"  -> Smaller(1, Preferred("radar"))
                 [] OTHER                -> Preferred("radar")
Morning  == Preferred("morning")
Featured == Preferred("featured")

----------------------------------------------------------------------------
(* Scores in thirds of a ten-thousandth, from components in hundredths.      *)
Capped(n) == Smaller(100, n)
Attention(i) ==
    LET cited == IF i.citations = -1 THEN 50 ELSE i.citations
    IN  IF i.context = 0 THEN cited ELSE Larger(cited, Capped(50 + 15 * i.context))
ResearchScore(i) ==
    3 * (35 * i.fit + 30 * i.quality + 15 * Capped(50 + 15 * i.institutions)
         + 10 * i.novelty + 10 * Attention(i))

Importance(s) == CASE s \in {"world", "ai_policy"} -> 85
                   [] s = "technology"             -> 80
                   [] s \in Local                  -> 75
                   [] OTHER                        -> 60
Geography(s)  == IF s \in Local THEN 100 ELSE 25
\* Three sources that can corroborate facts are enough.
NewsScore(d) ==
    3 * (25 * Importance(d.section) + 20 * d.relevance + 15 * d.quality + 10 * d.recency
         + 10 * Geography(d.section) + 5 * 70)
    + 15 * Smaller(300, 100 * d.sources)

Better(i, j) == \/ i.score > j.score
                \/ i.score = j.score /\ i.id < j.id

PassesTopicalFit(i) == i.fit >= MinimumFit
Passes(i)           == PassesTopicalFit(i) /\ i.quality >= MinimumQuality

(* One item per topic first, then the best of the rest. *)
DiverseResearch(items, n) ==
    LET best(t) == Top({i \in items : i.topic = t}, 1, Better)
        first   == Top(UNION {best(t) : t \in ToSet(Topics)}, n, Better)
    IN  first \cup Top(items \ first, n - Cardinality(first), Better)

FeaturedResearch(papers) ==
    LET core == DiverseResearch({i \in papers : i.core}, Featured)
    IN  Sorted(core, Better)
        \o Sorted(DiverseResearch({i \in papers : ~i.core}, Featured - Cardinality(core)), Better)

Section(s)     == {d \in news : d.section = s}
Limited(s)     == Top(Section(s), Preferred(s), Better)
LimitedLocal   == Top(Section("dmv") \cup Section("baltimore"), LocalBudget, Better)
LimitedNonlocal == UNION {Limited(s) : s \in Nonlocal}
LimitedNews    == LimitedNonlocal \cup LimitedLocal \cup Limited("forecast")

(* The morning list, which admits an item once and while there is a place. *)
Admit(list, i) == IF Len(list) >= Morning \/ i \in ToSet(list) THEN list ELSE Append(list, i)
AdmitAll(items) ==
    LET admitted[n \in 0 .. Len(items)] ==
            IF n = 0 THEN <<>> ELSE Admit(admitted[n - 1], items[n])
    IN  admitted[Len(items)]

\* Places are reserved; without them ...
ResearchThenRank(featured) == AdmitAll(featured \o Sorted(LimitedNews, Better))

(* The featured papers, the best nonlocal and the best local story, then     *)
(* everything in the order of its score.                                     *)
ResearchFirst(featured) ==
    LET papers == SubSeq(featured, 1, Smaller(Len(featured), Smaller(Featured, Morning)))
        best(stories) == Sorted(Top(stories, 1, Better), Better)
    IN  AdmitAll(papers \o best(LimitedNonlocal) \o best(LimitedLocal)
                 \o Sorted(ToSet(featured) \cup LimitedNews, Better))

(* Research radar fills the places that the morning list leaves. *)
Shortlisted(scored) ==
    LET passing  == {i \in scored : Passes(i)}
        featured == FeaturedResearch({i \in passing : i.paper})
        morning  == ResearchFirst(featured)
        radar    == Sorted(DiverseResearch(passing \ ToSet(featured), RadarBudget), Better)
        places   == Smaller(RadarBudget, Larger(0, Morning - Len(morning)))
        Entry(i, radarEntry) ==
            [item |-> i.id, section |-> IF radarEntry THEN "research_radar" ELSE i.section]
    IN  [n \in 1 .. Len(morning) |-> Entry(morning[n], FALSE)]
        \o [n \in 1 .. Smaller(places, Len(radar)) |-> Entry(radar[n], TRUE)]

(* What an edition must have: research, other news and local news. *)
Missing(entries) ==
    LET sections == {e.section : e \in ToSet(entries)}
    IN  (IF "research" \in sections THEN {} ELSE {"research"})
        \cup (IF sections \subseteq {"research", "research_radar"} \cup Local
              THEN {"nonlocal_news"} ELSE {})
        \cup (IF sections \cap Local = {} THEN {"dmv_or_baltimore"} ELSE {})

Status(entries) ==
    LET kept == SubSeq(entries, 1, Smaller(Len(entries), MostEntries))
    IN  IF Len(kept) >= FewestEntries /\ Missing(kept) = {} THEN "published"
        ELSE IF "research" \in {e.section : e \in ToSet(kept)} THEN "partial" ELSE "failed"

----------------------------------------------------------------------------
(* What a day offers: research, and news in sections, each with its own id. *)
IsDay ==
    /\ IsPool(research) /\ IsFiniteSet(news)
    /\ \A i \in research \cup news : {"id", "section", "score"} \subseteq DOMAIN i
    /\ \A i \in research :
          /\ i.section = "research" /\ i.citations \in Nat \cup {-1}
          /\ {i.quality, i.novelty, i.institutions, i.context} \subseteq Nat
    /\ \A d \in news :
          /\ d.id \in Nat /\ d.section \in Nonlocal \cup Local \cup {"forecast"}
          /\ {d.relevance, d.quality, d.recency, d.sources} \subseteq Nat
    /\ \A i, j \in research \cup news : i.id = j.id => i = j

SelectionInit ==
    /\ at = "discovered" /\ queue = <<>> /\ listed = <<>> /\ status = "none"
    /\ IsDay

NormalizeItems ==
    /\ at = "discovered" /\ at' = "normalized"
    /\ research' = BoundPool(research)
    /\ UNCHANGED <<configured, policy, news, queue, listed, status>>

Prefilter ==
    /\ at = "normalized" /\ at' = "triaged"
    /\ queue' = Triage(research)
    /\ UNCHANGED <<configured, policy, research, news, listed, status>>

(* Of the admitted items some are not assessed: a cap or an overclaim. *)
Assess(scored) ==
    /\ at = "triaged" /\ at' = "assessed"
    /\ scored \in SUBSET ToSet(queue)
    /\ research' = scored
    /\ UNCHANGED <<configured, policy, news, queue, listed, status>>

Score ==
    /\ at = "assessed" /\ at' = "scored"
    /\ research' = {[i EXCEPT !.score = ResearchScore(i)] : i \in research}
    /\ news' = {[d EXCEPT !.score = NewsScore(d)] : d \in news}
    /\ UNCHANGED <<configured, policy, queue, listed, status>>

Shortlist ==
    /\ at = "scored" /\ at' = "shortlisted"
    /\ listed' = Shortlisted(research)
    /\ UNCHANGED <<configured, policy, research, news, queue, status>>

(* Rejected summaries leave their entries out; the others keep their order. *)
Compose(valid) ==
    /\ at = "shortlisted" /\ at' = "composed"
    /\ valid \in SUBSET ToSet(listed)
    /\ listed' = SelectSeq(listed, LAMBDA e : e \in valid)
    /\ status' = Status(listed')
    /\ UNCHANGED <<configured, policy, research, news, queue>>

SelectionNext ==
    \/ NormalizeItems \/ Prefilter \/ Score \/ Shortlist
    \/ \E scored \in SUBSET ToSet(queue) : Assess(scored)
    \/ \E valid \in SUBSET ToSet(listed) : Compose(valid)
SelectionSpec == SelectionInit /\ [][SelectionNext]_selectionVars

----------------------------------------------------------------------------
(* Triage gives its places fairly: a configured topic with a normal          *)
(* candidate is represented, a normal candidate is only left out behind a    *)
(* full cap, and no adjacent near match has a place that a core near match   *)
(* could have had.                                                           *)
TriageIsFair ==
    at = "triaged" =>
        LET left == research \ ToSet(queue)
            capped(i) == FamilyFull(queue, i) \/ DomainFull(queue, i)
        IN  /\ \A t \in ToSet(Topics), i \in research :
                    IsNormal(i) /\ t \in i.topics => TopicCovered(queue, t)
            /\ \A i \in left : IsNormal(i) => capped(i) \/ Len(queue) = Maximum
            /\ \A i \in left, j \in ToSet(queue) :
                    IsNear(i) /\ i.core /\ IsNear(j) /\ ~j.core => capped(i)

(* The assessed candidates offer a complete edition. *)
GoodDay ==
    LET papers == {i \in research : i.paper /\ Passes(i)}
    IN  /\ papers # {} /\ LimitedNonlocal # {} /\ LimitedLocal # {}
        /\ Featured > 0 /\ Morning >= Larger(Featured + 2, FewestEntries)
        /\ Smaller(Featured, Cardinality(papers)) + Cardinality(LimitedNews) >= FewestEntries

(* When research, other news and local news are among the candidates and     *)
(* every summary is valid, what scored higher has not crowded one of them    *)
(* out: the edition is complete.                                             *)
GoodDayIsPublished ==
    at = "composed" /\ GoodDay /\ listed = Shortlisted(research) => status = "published"

(* What the near-match design says: an admitted near match is judged by its  *)
(* technical assessment, so a paper of sufficient quality gives the edition  *)
(* its research.                                                             *)
NearMatchCanBeChosen ==
    at = "shortlisted" /\ Featured > 0 /\ Morning > 0
    /\ (\E i \in research : i.paper /\ i.quality >= MinimumQuality)
        => "research" \in {e.section : e \in ToSet(listed)}
=============================================================================
