--------------------------- MODULE ResearchTriage ---------------------------
(***************************************************************************)
(* Which discovered research is assessed: the bounded discovery pool and   *)
(* the triage of normal candidates and near matches under the family,      *)
(* publisher and queue limits, in the order in which places are given.     *)
(***************************************************************************)
EXTENDS Integers, Sequences, FiniteSets

Lists == INSTANCE SequencesExt

CONSTANTS Topics,           \* the configured research topics, a sequence
          Families,         \* the discovery families, a sequence
          PoolMaximum,      \* items of the discovery pool: 500
          Maximum,          \* items sent to assessment: 24
          MaximumPerFamily, \* of one discovery family: 12
          DomainMaximum,    \* DomainMaximum[f]: of one publisher, family f: 6 or 12
          NearAllowance,    \* near matches: 6
          MinimumFit,       \* topical fit of a normal candidate: 0.5
          NearFit           \* topical fit of a near match: 0.35

ToSet(s) == Lists!ToSet(s)

ASSUME TriageAssumption ==
    /\ {PoolMaximum, Maximum, MaximumPerFamily, NearAllowance, MinimumFit, NearFit} \subseteq Nat
    /\ NearFit < MinimumFit
    /\ Topics \in Seq(STRING) /\ Families \in Seq(STRING)
    /\ Len(Topics) <= Maximum /\ Len(Topics) <= MaximumPerFamily
    /\ \A f \in ToSet(Families) : DomainMaximum[f] \in Nat /\ Len(Topics) <= DomainMaximum[f]

(* The members of S in the order of Before, a total order on S. *)
Sorted(S, Before(_, _)) ==
    [n \in 1 .. Cardinality(S) |->
        CHOOSE i \in S : Cardinality({j \in S : Before(j, i)}) = n - 1]
Top(S, n, Before(_, _)) == {i \in S : Cardinality({j \in S : Before(j, i)}) < n}
Smaller(a, b) == IF a < b THEN a ELSE b
Larger(a, b)  == IF a > b THEN a ELSE b

----------------------------------------------------------------------------
(* Research items: an id stands for the tie-breakers, the fit with the        *)
(* configured topics is in hundredths, topics are those of the evidence.     *)
IsPool(items) ==
    /\ IsFiniteSet(items)
    /\ \A i \in items : /\ i.id \in Nat /\ i.date \in Nat /\ i.fit \in 0 .. 100
                        /\ i.topics \subseteq ToSet(Topics) /\ i.family \in ToSet(Families)
    /\ \A i, j \in items : i.id = j.id => i = j
Newer(i, j)  == \/ i.date > j.date
                \/ i.date = j.date /\ i.id < j.id
Fitter(i, j) == \/ i.fit > j.fit
                \/ i.fit = j.fit /\ i.id < j.id

(* Every family has its share of the pool, the newest items fill the rest. *)
BoundPool(items) ==
    LET share    == PoolMaximum \div Len(Families)
        reserved == UNION {Top({i \in items : i.family = f}, share, Newer) : f \in ToSet(Families)}
    IN  reserved \cup Top(items \ reserved, PoolMaximum - Cardinality(reserved), Newer)

----------------------------------------------------------------------------
IsNormal(i) == i.text /\ i.fit >= MinimumFit
IsNear(i)   == i.text /\ i.fit < MinimumFit /\ NearAllowance > 0
               /\ i.fit >= NearFit /\ i.topics # {}

FamilyFull(selected, i) ==
    Cardinality({n \in DOMAIN selected : selected[n].family = i.family}) >= MaximumPerFamily
DomainFull(selected, i) ==
    Cardinality({n \in DOMAIN selected : selected[n].domain = i.domain}) >= DomainMaximum[i.family]
CanSelect(selected, i) ==
    /\ Len(selected) < Maximum
    /\ ~FamilyFull(selected, i) /\ ~DomainFull(selected, i)
    /\ i \notin ToSet(selected)

(* The first of the wanted candidates that can be selected, if any. *)
AddFirst(selected, candidates, wanted, limit) ==
    LET open == {n \in DOMAIN candidates :
                    candidates[n] \in wanted /\ CanSelect(selected, candidates[n])}
    IN  IF open = {} \/ Len(selected) >= limit THEN selected
        ELSE Append(selected, candidates[CHOOSE n \in open : \A m \in open : n <= m])

TopicCovered(selected, topic) == \E i \in ToSet(selected) : topic \in i.topics

AddTopic(selected, topic, candidates, limit, skipCovered) ==
    IF skipCovered /\ TopicCovered(selected, topic) THEN selected
    ELSE AddFirst(selected, candidates, {i \in ToSet(candidates) : topic \in i.topics}, limit)
AddFamily(selected, family, candidates, limit) ==
    IF \E i \in ToSet(selected) : i.family = family THEN selected
    ELSE AddFirst(selected, candidates, {i \in ToSet(candidates) : i.family = family}, limit)
AddNext(selected, i, limit) ==
    IF Len(selected) < limit /\ CanSelect(selected, i) THEN Append(selected, i) ELSE selected

\* Every configured topic has a place of its own; without it ...
AddNoTopic(start, candidates, limit, skipCovered) == start
AddTopics(start, candidates, limit, skipCovered) ==
    LET added[n \in 0 .. Len(Topics)] ==
            IF n = 0 THEN start
            ELSE AddTopic(added[n - 1], Topics[n], candidates, limit, skipCovered)
    IN  added[Len(Topics)]
AddFamilies(start, candidates, limit) ==
    LET added[n \in 0 .. Len(Families)] ==
            IF n = 0 THEN start ELSE AddFamily(added[n - 1], Families[n], candidates, limit)
    IN  added[Len(Families)]
AddRest(start, candidates, limit) ==
    LET added[n \in 0 .. Len(candidates)] ==
            IF n = 0 THEN start ELSE AddNext(added[n - 1], candidates[n], limit)
    IN  added[Len(candidates)]

SelectDiversified(selected, items, limit, skipCovered) ==
    LET candidates == Sorted(items, Fitter)
    IN  AddRest(AddFamilies(AddTopics(selected, candidates, limit, skipCovered),
                            candidates, limit),
                candidates, limit)

NormalQueue(items) == SelectDiversified(<<>>, {i \in items : IsNormal(i)}, Maximum, FALSE)

(* Near matches take the places the normal queue leaves, core ones first. *)
NearLimit(normal) == Len(normal) + Larger(0, Smaller(NearAllowance, Maximum - Len(normal)))
Triage(items) ==
    LET normal == NormalQueue(items)
        near   == {i \in items : IsNear(i)}
        core   == SelectDiversified(normal, {i \in near : i.core}, NearLimit(normal), TRUE)
    IN  IF NearLimit(normal) = Len(normal) THEN normal
        ELSE SelectDiversified(core, {i \in near : ~i.core}, NearLimit(normal), TRUE)

ExclusionReason(i, queue) ==
    CASE ~i.text                    -> "invalid_content"
      [] i.text /\ ~IsNormal(i) /\ ~IsNear(i) -> "below_topical_fit"
      [] OTHER -> IF FamilyFull(queue, i) THEN "family_cap"
                  ELSE IF DomainFull(queue, i) THEN "publisher_domain_cap"
                  ELSE "queue_capacity"
=============================================================================
