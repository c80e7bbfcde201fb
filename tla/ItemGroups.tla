----------------------------- MODULE ItemGroups -----------------------------
(***************************************************************************)
(* Which collected items are the same thing: papers joined by their        *)
(* durable identities with the commentary attached to them, duplicate news *)
(* items, and news items clustered into developments whose facts are put   *)
(* to a vote of their sources.                                             *)
(***************************************************************************)
EXTENDS Integers, Sequences, FiniteSets

CONSTANTS IdFamilies,       \* arxiv, doi and each provider with identifiers of its own
          ClusterWindow,    \* days between duplicates, and between news of a development: 3
          Values,           \* the values of facts, in the order of the alphabet
          Roles, Accesses   \* the ranks of a source's role and of the access to an item

ASSUME GroupsAssumption ==
    /\ ClusterWindow \in Nat
    /\ Roles \subseteq Nat /\ Accesses \subseteq Nat

VARIABLES
    grouping,   \* what the collected things are, and whether they are grouped
    collected,  \* a list of research items or of news items, or the signals of a development
    grouped     \* what was made of them

groupsVars == <<grouping, collected, grouped>>

Lower(i, j)  == IF i < j THEN i ELSE j
Highest(S)   == CHOOSE n \in S : \A m \in S : m <= n
Lowest(S)    == CHOOSE n \in S : \A m \in S : n <= m
Members(s)   == {s[n] : n \in DOMAIN s}

----------------------------------------------------------------------------
(* The items come in the order of their stable keys.  roots[i] is the first  *)
(* member of the group of i; Join is union on the roots.                     *)
Alone(items)        == [i \in DOMAIN items |-> i]
Join(roots, i, j)   == LET low == Lower(roots[i], roots[j])
                       IN  [k \in DOMAIN roots |-> IF roots[k] \in {roots[i], roots[j]}
                                                   THEN low ELSE roots[k]]
GroupsOf(roots)     == {{i \in DOMAIN roots : roots[i] = r} : r \in {roots[i] : i \in DOMAIN roots}}

(* Durable identities by family: ids[f] is the set of identifiers of f. *)
Shared(left, right, f)   == left[f] \cap right[f] # {}
Disjoint(left, right, f) == left[f] # {} /\ right[f] # {} /\ ~Shared(left, right, f)
Conflict(left, right)    == \E f \in IdFamilies : Disjoint(left, right, f)
Joined(left, right)      == [f \in IdFamilies |-> left[f] \cup right[f]]
Providers                == IdFamilies \ {"arxiv", "doi"}

(* arXiv, DOI, provider: the first family both items have decides; items     *)
(* without a common one match by URL and, if they are papers, by title and   *)
(* author.                                                                   *)
Match(left, right) ==
    LET l == left.ids
        r == right.ids
        has(ids) == UNION {ids[p] : p \in Providers} # {}
        lower == \/ left.url = right.url
                 \/ ~left.commentary /\ left.title = right.title
        provider == \/ \E p \in Providers : Shared(l, r, p)
                    \/ ~(has(l) /\ has(r)) /\ lower
        doi == \/ Shared(l, r, "doi")
               \/ ~(l["doi"] # {} /\ r["doi"] # {}) /\ provider
    IN  \/ Shared(l, r, "arxiv")
        \/ ~(l["arxiv"] # {} /\ r["arxiv"] # {}) /\ doi

\* A match joins two groups unless the identities of the groups conflict,
\* and not only those of the two items ...
JoinItems(groups, items, i, j) ==
    IF Match(items[i], items[j]) /\ ~Conflict(items[i].ids, items[j].ids)
    THEN [groups EXCEPT !.roots = Join(groups.roots, i, j)] ELSE groups
JoinMatch(groups, items, i, j) ==
    LET roots == groups.roots
        low   == Lower(roots[i], roots[j])
        left  == groups.ids[roots[i]]
        right == groups.ids[roots[j]]
    IN  IF ~Match(items[i], items[j]) \/ roots[i] = roots[j] \/ Conflict(left, right)
        THEN groups
        ELSE [roots |-> Join(roots, i, j), ids |-> [groups.ids EXCEPT ![low] = Joined(left, right)]]

AllAlone(items) == [roots |-> Alone(items), ids |-> [i \in DOMAIN items |-> items[i].ids]]

\* Every item with those that follow it.
JoinRow(groups, items, i) ==
    LET joined[n \in 0 .. Len(items) - i] ==
            IF n = 0 THEN groups ELSE JoinMatch(joined[n - 1], items, i, i + n)
    IN  joined[Len(items) - i]
JoinRows(items) ==
    LET joined[n \in 0 .. Len(items)] ==
            IF n = 0 THEN AllAlone(items) ELSE JoinRow(joined[n - 1], items, n)
    IN  joined[Len(items)]
GroupByResearchIdentity(items) == GroupsOf(JoinRows(items).roots)

----------------------------------------------------------------------------
(* The member a group keeps: more access, then the better source, then the   *)
(* longer text, then the first key.                                          *)
Rank(item) == <<item.access, item.role, item.length>>
Above(a, b) == \E n \in DOMAIN a : a[n] > b[n] /\ \A m \in 1 .. n - 1 : a[m] = b[m]
FirstChoice(items, group) ==
    CHOOSE i \in group : \A j \in group \ {i} :
        \/ Above(Rank(items[i]), Rank(items[j]))
        \/ Rank(items[i]) = Rank(items[j]) /\ i < j

\* A merged item keeps the identities and the links of all its members ...
MergeWinner(items, group) == items[FirstChoice(items, group)]
MergeItemGroup(items, group) ==
    [items[FirstChoice(items, group)] EXCEPT
        !.ids     = [f \in IdFamilies |-> UNION {items[i].ids[f] : i \in group}],
        !.related = UNION {items[i].related : i \in group},
        !.length  = Highest({items[i].length : i \in group}),
        !.sources = UNION {items[i].sources : i \in group}]

AllIds(ids) == UNION {ids[f] : f \in IdFamilies}
ExplicitMatch(commentary, paper) ==
    \/ (commentary.related \cup AllIds(commentary.ids)) \cap AllIds(paper.ids) # {}
    \/ paper.url \in commentary.related
CommentaryMatches(commentary, paper) ==
    ExplicitMatch(commentary, paper) \/ commentary.title = paper.title

(* Papers are grouped and merged, commentary is grouped and merged, and a    *)
(* merged commentary is attached to every group of papers it matches; what   *)
(* matches none stands alone if it has substance.                            *)
OfKind(items, commentary) ==
    LET places == {n \in DOMAIN items : items[n].commentary = commentary}
        before(n) == {m \in places : m < n}
    IN  [k \in 1 .. Cardinality(places) |->
            items[CHOOSE n \in places : Cardinality(before(n)) = k - 1]]
Consolidate(items) ==
    LET papers     == OfKind(items, FALSE)
        commentary == OfKind(items, TRUE)
        paperGroups == GroupByResearchIdentity(papers)
        merged == {[of |-> g, item |-> MergeItemGroup(commentary, g)] :
                      g \in GroupByResearchIdentity(commentary)}
        Matches(m, g) == \E i \in g : CommentaryMatches(m.item, papers[i])
    IN  [papers |->
            {[members  |-> {papers[i] : i \in g},
              item     |-> MergeItemGroup(papers, g),
              attached |-> UNION {{commentary[i] : i \in m.of} :
                                    m \in {m \in merged : Matches(m, g)}}]
             : g \in paperGroups},
         standalone |->
            {m.item : m \in {m \in merged :
                m.item.length > 0 /\ ~\E g \in paperGroups : Matches(m, g)}}]

----------------------------------------------------------------------------
(* Duplicate news items, in one group however the pairs come. *)
Near(a, b, days) == a.day # 0 /\ b.day # 0 /\ a.day - b.day \in -days .. days
Duplicate(left, right) ==
    /\ left.commentary = right.commentary
    /\ \/ \E f \in IdFamilies : Shared(left.ids, right.ids, f)
       \/ left.url = right.url
       \/ left.title = right.title /\ Near(left, right, ClusterWindow)
JoinDuplicates(roots, items, i) ==
    LET joined[n \in 0 .. Len(items) - i] ==
            IF n = 0 THEN roots
            ELSE IF Duplicate(items[i], items[i + n]) THEN Join(joined[n - 1], i, i + n)
            ELSE joined[n - 1]
    IN  joined[Len(items) - i]
DeduplicateItems(items) ==
    LET joined[n \in 0 .. Len(items)] ==
            IF n = 0 THEN Alone(items) ELSE JoinDuplicates(joined[n - 1], items, n)
    IN  GroupsOf(joined[Len(items)])

(* News items in the order of their dates: an item joins the first group     *)
(* with a related member whose members are all within the window.            *)
Related(a, b) ==
    Near(a, b, ClusterWindow) /\ (a.documents \cap b.documents # {} \/ a.event = b.event)
\* Without the second condition groups drift ...
FitsRelated(items, group, i) == \E j \in group : Related(items[i], items[j])
Fits(items, group, i) ==
    /\ \E j \in group : Related(items[i], items[j])
    /\ \A j \in group : Near(items[i], items[j], ClusterWindow)
Place(groups, items, i) ==
    LET open == {n \in DOMAIN groups : Fits(items, groups[n], i)}
    IN  IF open = {} THEN Append(groups, {i})
        ELSE [groups EXCEPT ![Lowest(open)] = @ \cup {i}]
ClusterNews(items) ==
    LET clustered[n \in 0 .. Len(items)] ==
            IF n = 0 THEN <<>> ELSE Place(clustered[n - 1], items, n)
    IN  clustered[Len(items)]

----------------------------------------------------------------------------
(* The signals of a development.  Those that can corroborate facts must      *)
(* agree on one event, or the development has no facts.                      *)
Corroborating(signals) == {s \in signals : s.corroborates}
EventOf(signals) ==
    LET events == {s.events : s \in Corroborating(signals)}
    IN  IF Cardinality(events) = 1 /\ \A es \in events : Cardinality(es) = 1
        THEN CHOOSE e \in UNION events : TRUE ELSE "none"

(* The evidence for a value of a fact of the event: authority, the sources of *)
(* that authority, all sources, and the best access.                         *)
Evidence(signals, fact, value) ==
    {s \in Corroborating(signals) :
        [event |-> EventOf(signals), fact |-> fact, value |-> value] \in s.facts}
StatusPriority(value) == CASE value = "proposed" -> 0
                           [] value = "released" -> 1
                           [] OTHER              -> 2
\* A value has the authority of the best source that gives it; with that of the weakest ...
WeightOfWeakest(signals, fact, value) ==
    LET all == Evidence(signals, fact, value)
    IN  <<Lowest({s.role : s \in all}), Cardinality(all), 0, 0, 0>>
Weight(signals, fact, value) ==
    LET all       == Evidence(signals, fact, value)
        authority == Highest({s.role : s \in all})
    IN  <<authority, Cardinality({s \in all : s.role = authority}), Cardinality(all),
          IF fact = "status" THEN StatusPriority(value) ELSE 0,
          Highest({s.access : s \in all})>>

(* One value for every fact that has evidence; ties go to the value that is  *)
(* the first in the alphabet.                                                *)
Letter(value) == CHOOSE n \in DOMAIN Values : Values[n] = value
Claims(signals) ==
    {c \in UNION {s.facts : s \in Corroborating(signals)} : c.event = EventOf(signals)}
Beats(signals, c, d) ==
    LET a == Weight(signals, c.fact, c.value)
        b == Weight(signals, d.fact, d.value)
    IN  Above(a, b) \/ (a = b /\ Letter(c.value) < Letter(d.value))
ReconciledFacts(signals) ==
    {c \in Claims(signals) :
        \A d \in Claims(signals) : d.fact = c.fact /\ d # c => Beats(signals, c, d)}

----------------------------------------------------------------------------
(* What is collected.  Items are told apart by their keys; a news item has   *)
(* the number of its day, 0 without a date; a claim is about an event.       *)
IsList(s) == Len(s) \in Nat /\ DOMAIN s = 1 .. Len(s)
IsResearch(items) ==
    /\ IsList(items)
    /\ \A n \in DOMAIN items :
          LET i == items[n] IN
          /\ {"key", "ids", "related", "length", "sources"} \subseteq DOMAIN i
          /\ i.commentary \in BOOLEAN /\ {i.access, i.role, i.length} \subseteq Nat
    /\ \A m, n \in DOMAIN items : items[m].key = items[n].key => m = n
IsNews(items) == IsList(items) /\ \A n \in DOMAIN items : items[n].day \in Nat
AreSignals(signals) ==
    /\ IsFiniteSet(signals)
    /\ \A s \in signals :
          /\ s.role \in Nat /\ s.access \in Nat /\ IsFiniteSet(s.events)
          /\ \A c \in s.facts :
                c = [event |-> c.event, fact |-> c.fact, value |-> c.value] /\ c.event # "none"

GroupsInit ==
    /\ grouped = "none"
    /\ \/ grouping = "research" /\ IsResearch(collected)
       \/ grouping = "news" /\ IsNews(collected)
       \/ grouping = "signals" /\ AreSignals(collected)

ConsolidateResearch ==
    /\ grouping = "research" /\ grouping' = "consolidated"
    /\ grouped' = Consolidate(collected)
    /\ UNCHANGED collected

ClusterTheNews ==
    /\ grouping = "news" /\ grouping' = "clustered"
    /\ grouped' = [distinct |-> DeduplicateItems(collected), developments |-> ClusterNews(collected)]
    /\ UNCHANGED collected

ReconcileFacts ==
    /\ grouping = "signals" /\ grouping' = "reconciled"
    /\ grouped' = ReconciledFacts(collected)
    /\ UNCHANGED collected

GroupsNext == ConsolidateResearch \/ ClusterTheNews \/ ReconcileFacts
GroupsSpec == GroupsInit /\ [][GroupsNext]_groupsVars

----------------------------------------------------------------------------
(* A group of papers is about one paper: those of its members that have an   *)
(* arXiv identifier, a DOI or a provider's identifier are linked with each   *)
(* other by common ones, although any two of them may only be joined by a    *)
(* third that matches both.                                                  *)
GroupsAreOnePaper ==
    grouping = "consolidated" =>
        \A e \in grouped.papers, f \in IdFamilies :
            LET having == {i \in e.members : i.ids[f] # {}} IN
            \A part \in SUBSET having :
                part # {} /\ part # having =>
                    \E i \in part, j \in having \ part : Shared(i.ids, j.ids, f)

(* A commentary that names a paper is attached to it, whatever it has been   *)
(* merged with, and does not stand alone.                                    *)
ExplicitLinksAreKept ==
    grouping = "consolidated" =>
        \A c, p \in Members(collected) :
            c.commentary /\ ~p.commentary /\ ExplicitMatch(c, p) =>
                /\ \E e \in grouped.papers : p \in e.members /\ c \in e.attached
                /\ \A s \in grouped.standalone : s.key # c.key

(* A development is compact: all its items within the window of each other,  *)
(* no item is in two developments, and none was opened for an item that      *)
(* an earlier one could have taken.                                          *)
DevelopmentsAreCompact ==
    grouping = "clustered" =>
        LET developments == grouped.developments IN
        /\ \A n \in DOMAIN developments : \A i, j \in developments[n] :
              i # j => Near(collected[i], collected[j], ClusterWindow)
        /\ \A i \in DOMAIN collected :
              Cardinality({n \in DOMAIN developments : i \in developments[n]}) = 1
        /\ \A m, n \in DOMAIN developments : m < n =>
              LET first == Lowest(developments[n]) IN
              ~Fits(collected, {i \in developments[m] : i < first}, first)

(* More evidence for the value that was chosen does not change the choice.   *)
MoreEvidenceKeepsTheFact ==
    grouping = "reconciled" =>
        \A c \in grouped, role \in Roles, access \in Accesses :
            LET more == [corroborates |-> TRUE, events |-> {c.event}, facts |-> {c},
                         role |-> role, access |-> access]
            IN  c \in ReconciledFacts(collected \cup {more})
=============================================================================
