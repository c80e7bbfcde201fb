------------------------- MODULE ResearchStagesProofs -------------------------
(***************************************************************************)
(* Theorems about ResearchStages, for any works, lanes, offers, states of  *)
(* the budget, numbers of runs and faults.                                 *)
(***************************************************************************)
EXTENDS ResearchStages, FiniteSetTheorems, TLAPS

Keys == Works \X Evidences

\* A work in the pipeline, with no assessment or one of its own evidence.
Item == [work : Works, published : Int, evidence : Evidences, lanes : SUBSET Lanes,
         merged : SUBSET Lanes, route : Routes, fit : Fits, assessed : 0..2]
Current(w) == w.assessed = 0 \/ w.assessed = w.evidence
Items(S) == S \subseteq Item /\ \A w \in S : Current(w)

\* What is kept for a key is the assessment of the evidence in the key.
Entry == [key : Keys, of : Evidences, fit : Fits, until : Int]

TypeInv ==
    /\ stage \in 1..7 /\ day \in Int
    /\ at \in {"work", "next", "paid", "save"}
    /\ at # "work" => stage # 7
    /\ at \in {"next", "paid"} => stage = 5
    /\ DOMAIN checkpoint = 1..6 /\ checkpoint = [i \in 1..6 |-> checkpoint[i]]
    /\ \A i \in 1..6 : Items(checkpoint[i])
    /\ Items(made) /\ Items(todo)
    /\ cache \subseteq Entry /\ \A c \in cache : c.of = c.key[2]
    /\ paid \in [Keys -> Nat] /\ excused \in [Keys -> Nat]

\* The stages by their index.
LEMMA StageNames ==
    /\ Stages[1] = "collect" /\ Stages[2] = "normalize" /\ Stages[3] = "enrich"
    /\ Stages[4] = "prefilter" /\ Stages[5] = "assess" /\ Stages[6] = "shortlist"
    /\ Stages[7] = "done"
    /\ \A i \in 1..7 : /\ Stages[i] = "collect" <=> i = 1
                       /\ Stages[i] = "normalize" <=> i = 2
                       /\ Stages[i] = "enrich" <=> i = 3
                       /\ Stages[i] = "prefilter" <=> i = 4
                       /\ Stages[i] = "assess" <=> i = 5
                       /\ Stages[i] = "shortlist" <=> i = 6
                       /\ Stages[i] = "done" <=> i = 7
<1>1. /\ Stages[1] = "collect" /\ Stages[2] = "normalize" /\ Stages[3] = "enrich"
      /\ Stages[4] = "prefilter" /\ Stages[5] = "assess" /\ Stages[6] = "shortlist"
      /\ Stages[7] = "done"
  BY DEF Stages
<1>2. QED
  BY <1>1

\* What an attempt is given, and what a step hands on.
LEMMA InputItems ==
    ASSUME TypeInv
    PROVE  Items(input) /\ Items(offered)
<1>1. CASE stage = 1
  BY <1>1 DEF TypeInv, Items, input, offered
<1>2. CASE stage # 1
  <2>1. stage - 1 \in 1..6
    BY <1>2 DEF TypeInv
  <2>2. QED
    BY <1>2, <2>1 DEF TypeInv, input, offered
<1>3. QED
  BY <1>1, <1>2

\* One more for one key leaves the other keys alone.
LEMMA OneMore ==
    ASSUME NEW f \in [Keys -> Nat], NEW k \in Keys
    PROVE  /\ [f EXCEPT ![k] = @ + 1] \in [Keys -> Nat]
           /\ [f EXCEPT ![k] = @ + 1][k] = f[k] + 1
           /\ \A j \in Keys : j # k => [f EXCEPT ![k] = @ + 1][j] = f[j]
OBVIOUS

\* The first run starts with empty stores and nothing collected.
LEMMA InitTypes == Init => TypeInv
<1> SUFFICES ASSUME Init PROVE TypeInv
  OBVIOUS
<1>1. paid \in [Keys -> Nat] /\ excused \in [Keys -> Nat]
  BY DEF Init, Keys
<1>2. day \in Int /\ stage \in 1..7
  BY DEF Init, Week
<1>3. DOMAIN checkpoint = 1..6 /\ checkpoint = [i \in 1..6 |-> checkpoint[i]]
      /\ \A i \in 1..6 : checkpoint[i] = {}
  BY DEF Init
<1>4. QED
  BY <1>1, <1>2, <1>3 DEF Init, TypeInv, Items

\* The changes a work goes through keep it one.
LEMMA ItemFacts ==
    ASSUME NEW w \in Item
    PROVE  /\ w.work \in Works /\ w.evidence \in Evidences /\ w.lanes \subseteq Lanes
              /\ w.merged \subseteq Lanes /\ w.fit \in Fits
           /\ w.published \in Int
           /\ Key(w) \in Keys /\ CacheKey(w) = Key(w) /\ Key(w)[2] = w.evidence
           /\ \A e \in Evidences : [w EXCEPT !.assessed = e] \in Item
           /\ \A f \in Fits : Current(w) => [w EXCEPT !.fit = f] \in Item /\ Current([w EXCEPT !.fit = f])
           /\ [w EXCEPT !.assessed = w.evidence] \in Item /\ Current([w EXCEPT !.assessed = w.evidence])
<1>1. w.work \in Works /\ w.evidence \in Evidences /\ w.lanes \subseteq Lanes
      /\ w.merged \subseteq Lanes /\ w.fit \in Fits
      /\ w.published \in Int
  BY DEF Item
<1>2. Key(w) \in Keys /\ CacheKey(w) = Key(w) /\ Key(w)[2] = w.evidence
  BY <1>1 DEF Key, CacheKey, Keys
<1>3. \A e \in Evidences : [w EXCEPT !.assessed = e] \in Item
  BY DEF Item, Evidences
<1>4. \A f \in Fits : Current(w) => [w EXCEPT !.fit = f] \in Item /\ Current([w EXCEPT !.fit = f])
  BY DEF Item, Current
<1>5. Current([w EXCEPT !.assessed = w.evidence])
  BY DEF Current, Item
<1>6. QED
  BY <1>1, <1>2, <1>3, <1>4, <1>5

\* Collecting dates what it has prepared of the offer.
Dated(w) == [w EXCEPT !.published = day - @]
LEMMA OfferItems ==
    ASSUME TypeInv, NEW offer \in Offers, NEW w \in offer.works
    PROVE  Dated(w) \in Item /\ Current(Dated(w)) /\ Dated(w).work = w.work
<1>1. w \in [work : Works, published : Nat, evidence : Evidences, lanes : SUBSET Lanes,
             merged : SUBSET Lanes, route : Routes, fit : Fits, assessed : {0}]
  BY OffersAssumption
<1>2. day - w.published \in Int
  BY <1>1 DEF TypeInv
<1>3. w.assessed = 0
  BY <1>1
<1>4. Dated(w).assessed = 0 /\ Dated(w).work = w.work
  BY <1>1, <1>3 DEF Dated
<1>5. Dated(w) \in Item
  BY <1>1, <1>2 DEF Item, Dated
<1>6. QED
  BY <1>4, <1>5 DEF Current

\* The stages before and after assess only select, or take a cached fit.
LEMMA StageTypes ==
    ASSUME TypeInv, Collect \/ Normalize \/ Enrich \/ Prefilter \/ Shortlist
    PROVE  TypeInv'
<1>1. /\ at = "work" /\ at' = "save" /\ stage # 7
      /\ UNCHANGED <<stage, day, checkpoint, todo, cache, paid, excused>>
  BY StageNames DEF Collect, Normalize, Enrich, Prefilter, Shortlist, Doing, ToSave, Unpaid, TypeInv
<1>2. CASE Collect
  <2>0. PICK offer \in Offers :
           made' = {Dated(w) : w \in offer.works \ {v \in offer.works : v.route = "unprepared"}}
    BY <1>2 DEF Collect, Dated
  <2>1. Items(made')
    BY <2>0, OfferItems DEF Items
  <2>2. QED
    BY <1>1, <2>1 DEF TypeInv
<1>3. CASE Normalize \/ Prefilter \/ Shortlist
  <2>1. made' \subseteq input
    BY <1>3 DEF Normalize, Selected, Prefilter, Research, Shortlist
  <2>2. Items(made')
    BY <2>1, InputItems DEF Items
  <2>3. QED
    BY <1>1, <2>2 DEF TypeInv
<1>4. CASE Enrich
  <2>1. ASSUME NEW w \in input, CachedAt(w) # {}
        PROVE  [w EXCEPT !.fit = (CHOOSE c \in CachedAt(w) : TRUE).fit] \in Item
               /\ Current([w EXCEPT !.fit = (CHOOSE c \in CachedAt(w) : TRUE).fit])
    <3>1. w \in Item /\ Current(w)
      BY InputItems DEF Items
    <3>2. (CHOOSE c \in CachedAt(w) : TRUE) \in cache
      BY <2>1 DEF CachedAt
    <3>3. (CHOOSE c \in CachedAt(w) : TRUE).fit \in Fits
      BY <3>2 DEF TypeInv, Entry
    <3>4. QED
      BY <3>1, <3>3, ItemFacts
  <2>2. Items(made')
    <3>1. CASE policy = "hard_stop"
      <4> DEFINE found == {w \in Research(input) : CachedAt(w) # {}}
      <4>1. made' = {[w EXCEPT !.fit = (CHOOSE c \in CachedAt(w) : TRUE).fit] : w \in found}
        BY <1>4, <3>1 DEF Enrich
      <4>2. QED
        BY <2>1, <4>1 DEF Items, Research
    <3>2. CASE policy # "hard_stop"
      BY <1>4, <3>2, InputItems DEF Enrich
    <3>3. QED
      BY <3>1, <3>2
  <2>3. QED
    BY <1>1, <2>2 DEF TypeInv
<1>5. QED
  BY <1>2, <1>3, <1>4

\* An entry put into the cache is of the evidence it is kept for.
LEMMA PutTypes ==
    ASSUME TypeInv, NEW w \in Item, NEW of \in Evidences, of = w.evidence
    PROVE  Put(w, of) \subseteq Entry /\ \A c \in Put(w, of) : c.of = c.key[2]
<1>1. day + Week \in Int
  BY DEF TypeInv, Week
<1>2. [key |-> CacheKey(w), of |-> of, fit |-> w.fit, until |-> day + Week] \in Entry
  BY <1>1, ItemFacts DEF Entry
<1>3. CacheKey(w)[2] = of
  BY ItemFacts
<1>4. QED
  BY <1>2, <1>3 DEF Put, TypeInv

\* Assess adds the works it has assessed, with the evidence they have.
LEMMA AssessTypes ==
    ASSUME TypeInv, BeginAssess \/ CachedAssessment \/ OverCapacity \/ PayAssessment \/ Assessed
                    \/ Overclaimed \/ EndAssess
    PROVE  TypeInv'
<1>0. \A w \in todo : w \in Item
  BY DEF TypeInv, Items
<1>1. CASE BeginAssess
  <2>1. Items(made') /\ Items(todo')
    BY <1>1, InputItems DEF BeginAssess, Items, Research
  <2>2. QED
    BY <1>1, <2>1, StageNames DEF BeginAssess, Doing, InAssess, TypeInv
<1>2. CASE CachedAssessment
  <2>0. PICK w \in todo : \E c \in CachedAt(w) :
           /\ made' = made \cup {[w EXCEPT !.assessed = c.of]}
           /\ todo' = todo \ {w}
           /\ cache' \in {Put(w, c.of), cache}
    BY <1>2 DEF CachedAssessment
  <2>1. PICK c \in CachedAt(w) :
           /\ made' = made \cup {[w EXCEPT !.assessed = c.of]}
           /\ todo' = todo \ {w}
           /\ cache' \in {Put(w, c.of), cache}
    BY <2>0
  <2>2. c.of = w.evidence
    <3>1. c \in cache /\ c.key = CacheKey(w)
      BY DEF CachedAt
    <3>2. QED
      BY <1>0, <3>1, ItemFacts DEF TypeInv
  <2>3. Items(made') /\ Items(todo')
    BY <1>0, <2>1, <2>2, ItemFacts DEF TypeInv, Items
  <2>4. cache' \subseteq Entry /\ \A e \in cache' : e.of = e.key[2]
    BY <1>0, <2>1, <2>2, PutTypes, ItemFacts DEF TypeInv
  <2>5. at = "next" /\ UNCHANGED <<stage, day, at, checkpoint, paid, excused>>
    BY <1>2 DEF CachedAssessment, InAssess
  <2>6. QED
    BY <2>3, <2>4, <2>5 DEF TypeInv
<1>3. CASE OverCapacity
  <2>1. Items(todo') /\ at = "next"
    BY <1>3 DEF OverCapacity, Missed, TypeInv, Items
  <2>2. QED
    BY <1>3, <2>1 DEF OverCapacity, InAssess, TypeInv
<1>4. CASE PayAssessment
  <2>1. PICK w \in todo, unread \in BOOLEAN :
           /\ Missed(w, unread)
           /\ paid' = [paid EXCEPT ![Key(w)] = @ + 1]
           /\ excused' = IF unread \/ \E c \in cache : c.key = CacheKey(w) /\ c.until <= day
                         THEN [excused EXCEPT ![Key(w)] = @ + 1] ELSE excused
    BY <1>4 DEF PayAssessment
  <2>2. paid' \in [Keys -> Nat] /\ excused' \in [Keys -> Nat]
    BY <1>0, <2>1, ItemFacts, OneMore DEF TypeInv
  <2>3. at = "next" /\ at' = "paid"
    BY <1>4, <2>1 DEF PayAssessment, Missed
  <2>4. QED
    BY <1>4, <2>2, <2>3 DEF PayAssessment, InAssess, TypeInv
<1>5. CASE Assessed
  <2>1. PICK w \in todo :
           /\ todo' = todo \ {w} /\ made' = made \cup {[w EXCEPT !.assessed = w.evidence]}
           /\ cache' = Put(w, w.evidence) \/ cache' = cache
           /\ excused' = [excused EXCEPT ![Key(w)] = @ + 1] \/ excused' = excused
    BY <1>5 DEF Assessed
  <2>2. Items(made') /\ Items(todo')
    BY <1>0, <2>1, ItemFacts DEF TypeInv, Items
  <2>3. cache' \subseteq Entry /\ \A e \in cache' : e.of = e.key[2]
    BY <1>0, <2>1, PutTypes, ItemFacts DEF TypeInv
  <2>4. excused' \in [Keys -> Nat]
    BY <1>0, <2>1, ItemFacts, OneMore DEF TypeInv
  <2>5. QED
    BY <1>5, <2>2, <2>3, <2>4 DEF Assessed, InAssess, TypeInv
<1>6. CASE Overclaimed
  <2>1. PICK w \in todo : /\ todo' = todo \ {w}
                          /\ excused' = [excused EXCEPT ![Key(w)] = @ + 1]
    BY <1>6 DEF Overclaimed
  <2>2. Items(todo') /\ excused' \in [Keys -> Nat]
    BY <1>0, <2>1, ItemFacts, OneMore DEF TypeInv, Items
  <2>3. QED
    BY <1>6, <2>2 DEF Overclaimed, InAssess, TypeInv
<1>7. CASE EndAssess
  BY <1>7 DEF EndAssess, ToSave, Unpaid, TypeInv
<1>8. QED
  BY <1>1, <1>2, <1>3, <1>4, <1>5, <1>6, <1>7

\* The end of an attempt, an execution or a run keeps what is stored.
LEMMA EndTypes ==
    ASSUME TypeInv, SaveCheckpoint \/ Retry \/ Crash \/ NextRun
    PROVE  TypeInv'
<1>1. at' = "work" /\ Items(made') /\ Items(todo')
  BY DEF SaveCheckpoint, Retry, Crash, NextRun, Again, Items
<1>2. CASE SaveCheckpoint
  <2>1. stage \in 1..6 /\ stage' = stage + 1 /\ checkpoint' = [checkpoint EXCEPT ![stage] = made]
    BY <1>2 DEF SaveCheckpoint, TypeInv
  <2>2. /\ DOMAIN checkpoint' = 1..6 /\ checkpoint' = [i \in 1..6 |-> checkpoint'[i]]
        /\ \A i \in 1..6 : Items(checkpoint'[i])
    BY <2>1 DEF TypeInv
  <2>3. QED
    BY <1>1, <1>2, <2>1, <2>2 DEF SaveCheckpoint, durable, counts, TypeInv
<1>3. CASE Retry
  BY <1>1, <1>3 DEF Retry, durable, counts, TypeInv
<1>4. CASE Crash \/ NextRun
  <2>1. excused' \in [Keys -> Nat]
    <3>1. excused' = [k \in DOMAIN excused |->
                         excused[k] + (IF at = "paid" /\ \E w \in todo : AtWork(w) /\ Key(w) = k
                                       THEN 1 ELSE 0)]
      BY <1>4 DEF Crash, NextRun, NewIsolate
    <3> HIDE DEF Keys
    <3>2. QED
      BY <3>1 DEF TypeInv
  <2>2. CASE Crash
    BY <1>1, <2>1, <2>2 DEF Crash, durable, TypeInv
  <2>3. CASE NextRun
    <3>0. PICK g \in Gaps : day' = day + g
      BY <2>3 DEF NextRun
    <3>1. day' \in Int
      BY <3>0, StagesAssumption DEF TypeInv
    <3>2. QED
      BY <1>1, <2>1, <2>3, <3>1 DEF NextRun, TypeInv, Items
  <2>4. QED
    BY <1>4, <2>2, <2>3
<1>5. QED
  BY <1>2, <1>3, <1>4

\* Through retries, crashes and later runs every work in the pipeline, stored
\* or in the hands of an attempt, is one that was collected, and carries no
\* assessment or one of its own evidence; the cache keeps under a key what was
\* assessed for the evidence in that key.
THEOREM StagesTypeCorrect == Spec => []TypeInv
<1>1. TypeInv /\ [Next]_vars => TypeInv'
  <2> SUFFICES ASSUME TypeInv, [Next]_vars PROVE TypeInv'
    OBVIOUS
  <2>1. CASE UNCHANGED vars
    BY <2>1 DEF vars, durable, counts, TypeInv, Items
  <2>2. QED
    BY <2>1, StageTypes, AssessTypes, EndTypes DEF Next
<1>2. QED
  BY <1>1, InitTypes, PTL DEF Spec

----------------------------------------------------------------------------
(* Assessments. *)

\* Whatever lane, run or attempt has found a work and paid for it, the
\* assessment it carries is of the evidence the work has now: the cache is
\* keyed by the evidence.
THEOREM StagesUseCurrentAssessments == Spec => []AssessmentsAreCurrent
<1>1. TypeInv => AssessmentsAreCurrent
  BY InputItems DEF TypeInv, Items, Current, AssessmentsAreCurrent
<1>2. QED
  BY <1>1, StagesTypeCorrect, PTL

Kept(k)     == \E c \in cache : c.key = k
InFlight(k) == at = "paid" /\ \E w \in todo : AtWork(w) /\ Key(w) = k

\* An assessment that was paid for once more than it is excused is in the
\* cache, or its answer is awaited.
PayInv == \A k \in Keys :
    /\ paid[k] <= excused[k] + 1
    /\ ~Kept(k) /\ ~InFlight(k) => paid[k] <= excused[k]

\* The cache forgets no key.
LEMMA PutKeeps ==
    ASSUME TypeInv, NEW w \in Item, NEW of, cache' = Put(w, of)
    PROVE  Kept(Key(w))' /\ \A k : Kept(k) => Kept(k)'
<1>1. CacheKey(w) = Key(w)
  BY ItemFacts
<1>2. [key |-> CacheKey(w), of |-> of, fit |-> w.fit, until |-> day + Week] \in cache'
  BY DEF Put
<1>3. Kept(Key(w))'
  BY <1>1, <1>2 DEF Kept, Key
<1>4. ASSUME NEW k, NEW c \in cache, c.key = k, k # Key(w) PROVE c \in cache'
  BY <1>1, <1>4 DEF Put
<1>5. QED
  BY <1>3, <1>4 DEF Kept

\* Where nothing is paid or excused, and no answer is awaited, nothing changes.
LEMMA PayStays ==
    ASSUME PayInv, UNCHANGED <<paid, excused>>, at # "paid", at' # "paid",
           \A k : Kept(k) => Kept(k)'
    PROVE  PayInv'
BY DEF PayInv, InFlight

\* A payment goes in flight, its answer is kept or excused; a crash excuses it.
LEMMA PayStep ==
    ASSUME TypeInv, PayInv, [Next]_vars
    PROVE  PayInv'
<1>0. \A w \in todo : w \in Item /\ Key(w) \in Keys /\ CacheKey(w) = Key(w)
  BY ItemFacts DEF TypeInv, Items
<1>1. CASE Collect \/ Normalize \/ Enrich \/ Prefilter \/ Shortlist \/ BeginAssess \/ OverCapacity
           \/ EndAssess \/ SaveCheckpoint \/ Retry
  <2>1. at # "paid" /\ at' # "paid" /\ UNCHANGED <<paid, excused, cache>>
    BY <1>1 DEF Collect, Normalize, Enrich, Prefilter, Shortlist, BeginAssess, OverCapacity,
         EndAssess, SaveCheckpoint, Retry, Doing, ToSave, Unpaid, Again, durable, counts, Missed
  <2>2. QED
    BY <2>1, PayStays DEF Kept
<1>2. CASE CachedAssessment
  <2>1. at # "paid" /\ at' # "paid" /\ UNCHANGED <<paid, excused>>
    BY <1>2 DEF CachedAssessment
  <2>2. PICK w \in todo : \E of : cache' = Put(w, of) \/ cache' = cache
    BY <1>2 DEF CachedAssessment
  <2>3. \A k : Kept(k) => Kept(k)'
    BY <1>0, <2>2, PutKeeps DEF Kept
  <2>4. QED
    BY <2>1, <2>3, PayStays
<1>3. CASE PayAssessment
  <2>1. PICK w \in todo, unread \in BOOLEAN :
           /\ Missed(w, unread)
           /\ paid' = [paid EXCEPT ![Key(w)] = @ + 1]
           /\ excused' = IF unread \/ \E c \in cache : c.key = CacheKey(w) /\ c.until <= day
                         THEN [excused EXCEPT ![Key(w)] = @ + 1] ELSE excused
    BY <1>3 DEF PayAssessment
  <2>2. /\ at = "next" /\ at' = "paid" /\ UNCHANGED <<todo, cache>> /\ AtWork(w)
        /\ ~unread => CachedAt(w) = {}
    BY <1>3, <2>1 DEF PayAssessment, Missed
  <2>3. InFlight(Key(w))'
    BY <2>2 DEF InFlight, AtWork, Key
  <2>4. excused' = excused => ~Kept(Key(w))
    <3> SUFFICES ASSUME excused' = excused, NEW c \in cache, c.key = Key(w) PROVE FALSE
      BY DEF Kept
    <3>1. excused[Key(w)] \in Nat /\ ~(excused[Key(w)] = excused[Key(w)] + 1)
      BY <1>0 DEF TypeInv
    <3>2. ~unread /\ ~(c.until <= day)
      BY <1>0, <2>1, <3>1, OneMore DEF TypeInv
    <3>3. c.until \in Int /\ day \in Int
      BY DEF TypeInv, Entry
    <3>4. c \in CachedAt(w)
      BY <1>0, <3>2, <3>3 DEF CachedAt
    <3>5. QED
      BY <2>2, <3>2, <3>4
  <2> SUFFICES ASSUME NEW k \in Keys
               PROVE  /\ paid'[k] <= excused'[k] + 1
                      /\ ~Kept(k)' /\ ~InFlight(k)' => paid'[k] <= excused'[k]
    BY DEF PayInv
  <2>5. paid[k] \in Nat /\ excused[k] \in Nat
    BY DEF TypeInv
  <2>6. /\ paid[k] <= excused[k] + 1
        /\ ~Kept(k) => paid[k] <= excused[k]
    BY <2>2 DEF PayInv, InFlight
  <2>7. CASE k = Key(w)
    <3>1. paid'[k] = paid[k] + 1
      BY <2>1, <2>7, OneMore DEF TypeInv
    <3>2. excused'[k] = excused[k] + 1 \/ (excused' = excused /\ ~Kept(k))
      BY <2>1, <2>4, <2>7, OneMore DEF TypeInv
    <3>3. QED
      BY <2>3, <2>5, <2>6, <2>7, <3>1, <3>2
  <2>8. CASE k # Key(w)
    <3>1. paid'[k] = paid[k] /\ excused'[k] = excused[k]
      BY <1>0, <2>1, <2>8, OneMore DEF TypeInv
    <3>2. Kept(k)' <=> Kept(k)
      BY <2>2 DEF Kept
    <3>3. QED
      BY <2>6, <3>1, <3>2
  <2>9. QED
    BY <2>7, <2>8
<1>4. CASE Assessed \/ Overclaimed
  <2>1. PICK w \in todo :
           /\ AtWork(w) /\ at = "paid" /\ at' = "next" /\ paid' = paid
           /\ \/ cache' = Put(w, w.evidence) /\ excused' = excused
              \/ cache' = cache /\ excused' = [excused EXCEPT ![Key(w)] = @ + 1]
    BY <1>4 DEF Assessed, Overclaimed
  <2>2. \A v \in todo : AtWork(v) => v = w
    BY <2>1 DEF AtWork
  <2>3. \A k : Kept(k) => Kept(k)'
    BY <1>0, <2>1, PutKeeps DEF Kept
  <2> SUFFICES ASSUME NEW k \in Keys
               PROVE  /\ paid'[k] <= excused'[k] + 1
                      /\ ~Kept(k)' /\ ~InFlight(k)' => paid'[k] <= excused'[k]
    BY DEF PayInv
  <2>5. paid[k] \in Nat /\ excused[k] \in Nat
    BY DEF TypeInv
  <2>6. paid[k] <= excused[k] + 1
    BY DEF PayInv
  <2>7. CASE k = Key(w)
    <3>1. (Kept(k)' /\ excused' = excused) \/ excused'[k] = excused[k] + 1
      BY <1>0, <2>1, <2>7, PutKeeps, OneMore DEF TypeInv
    <3>2. QED
      BY <2>1, <2>5, <2>6, <3>1
  <2>8. CASE k # Key(w)
    <3>1. ~InFlight(k)
      BY <2>2, <2>8 DEF InFlight
    <3>2. excused'[k] = excused[k]
      BY <1>0, <2>1, <2>8, OneMore DEF TypeInv
    <3>3. QED
      BY <2>1, <2>3, <2>5, <2>6, <3>1, <3>2 DEF PayInv
  <2>9. QED
    BY <2>7, <2>8
<1>5. CASE Crash \/ NextRun
  <2>1. /\ excused' = [k \in DOMAIN excused |->
                          excused[k] + (IF at = "paid" /\ \E w \in todo : AtWork(w) /\ Key(w) = k
                                        THEN 1 ELSE 0)]
        /\ UNCHANGED <<cache, paid>> /\ at' = "work"
    BY <1>5 DEF Crash, NextRun, NewIsolate, durable, Again
  <2> HIDE DEF Keys
  <2> SUFFICES ASSUME NEW k \in Keys
               PROVE  /\ paid'[k] <= excused'[k] + 1
                      /\ ~Kept(k)' /\ ~InFlight(k)' => paid'[k] <= excused'[k]
    BY DEF PayInv
  <2>2. excused'[k] = excused[k] + (IF InFlight(k) THEN 1 ELSE 0)
    BY <2>1 DEF TypeInv, InFlight
  <2>3. paid[k] \in Nat /\ excused[k] \in Nat
    BY DEF TypeInv
  <2>4. Kept(k)' <=> Kept(k)
    BY <2>1 DEF Kept
  <2>5. QED
    BY <2>1, <2>2, <2>3, <2>4 DEF PayInv
<1>6. CASE UNCHANGED vars
  BY <1>6 DEF vars, durable, counts, PayInv, Kept, InFlight, AtWork, Key
<1>7. QED
  BY <1>1, <1>2, <1>3, <1>4, <1>5, <1>6 DEF Next

\* The same evidence of the same work is paid for once, by any run, lane or
\* repeated attempt, unless the payment could not be kept.
THEOREM StagesPayOnce == Spec => []PaidOnce
<1>1. Init => PayInv
  BY DEF Init, PayInv, Keys
<1>2. TypeInv /\ PayInv => PaidOnce
  <2> SUFFICES ASSUME TypeInv, PayInv, NEW k \in DOMAIN paid PROVE paid[k] <= 1 + excused[k]
    BY DEF PaidOnce
  <2>1. k \in Keys /\ paid[k] \in Nat /\ excused[k] \in Nat
    BY DEF TypeInv
  <2>2. QED
    BY <2>1 DEF PayInv
<1>3. QED
  BY <1>1, <1>2, PayStep, StagesTypeCorrect, PTL DEF Spec

----------------------------------------------------------------------------
(* Observations. *)

\* What normalize has to select is in S.
Covered(S) ==
    \A w \in offered :
        /\ w.route \in {"research", "news"} /\ Age(w) \in 0 .. Week
        /\ ~(\E o \in observed : o.run # run /\ o.work = w.work)
        => w \in S

SelectInv ==
    /\ stage = 2 /\ at = "save" => Covered(made)
    /\ stage = 3 => Covered(input)

\* normalize suppresses only what another run has observed.
LEMMA NormalizeSelects ==
    ASSUME TypeInv, input = offered, Normalize
    PROVE  Covered(made)'
<1>1. PICK prior \in {PriorObservations, {}} :
         made' = Selected(prior) /\ observed' = Upserted(Selected(prior))
  BY DEF Normalize
<1>2. UNCHANGED <<checkpoint, run, day>>
  BY DEF Normalize, ToSave
<1> SUFFICES ASSUME NEW w \in offered, w.route \in {"research", "news"}, Age(w) \in 0 .. Week,
                    ~\E o \in observed' : o.run # run /\ o.work = w.work
             PROVE  w \in made'
  BY <1>2 DEF Covered, Age, offered
<1>3. \A o \in observed : o.run # run => o \in observed'
  BY <1>1 DEF Upserted
<1>4. ~Seen(prior, w)
  BY <1>1, <1>3 DEF Seen, PriorObservations
<1>5. Age(w) \in Int /\ ~(Age(w) < 0 \/ Age(w) > Week)
  BY DEF Week
<1>6. Decision(prior, w) \in {"fresh", "reconsideration"}
  BY <1>4, <1>5 DEF Decision
<1>7. QED
  BY <1>1, <1>6 DEF Selected

\* Only normalize reads and writes observations before enrich.
LEMMA SelectStep ==
    ASSUME TypeInv, SelectInv, [Next]_vars
    PROVE  SelectInv'
<1>1. CASE Normalize
  <2>1. stage = 2 /\ stage' = stage /\ input = offered
    BY <1>1, StageNames DEF Normalize, Doing, ToSave, TypeInv, input, offered
  <2>2. QED
    BY <1>1, <2>1, NormalizeSelects DEF SelectInv
<1>2. CASE SaveCheckpoint
  <2>1. /\ at = "save" /\ stage' = stage + 1 /\ stage \in 1..6 /\ at' = "work"
        /\ checkpoint' = [checkpoint EXCEPT ![stage] = made] /\ UNCHANGED <<run, day, observed>>
    BY <1>2 DEF SaveCheckpoint, Again, durable, TypeInv
  <2>2. stage = 2 => input' = made /\ offered' = offered
    BY <2>1 DEF input, offered, TypeInv
  <2>3. stage = 2 => Covered(input)'
    BY <2>1, <2>2 DEF SelectInv, Covered, Age
  <2>4. QED
    BY <2>1, <2>3 DEF SelectInv
<1>3. CASE Collect \/ Enrich \/ Prefilter \/ Shortlist \/ BeginAssess \/ CachedAssessment
           \/ OverCapacity \/ PayAssessment \/ Assessed \/ Overclaimed \/ EndAssess
  <2>1. stage # 2 /\ UNCHANGED <<run, day, stage, checkpoint, observed>>
    BY <1>3, StageNames DEF Collect, Enrich, Prefilter, Shortlist, BeginAssess, CachedAssessment,
         OverCapacity, PayAssessment, Assessed, Overclaimed, EndAssess, Doing, ToSave, InAssess,
         Missed, TypeInv
  <2>2. QED
    BY <2>1 DEF SelectInv, Covered, Age, input, offered
<1>4. CASE Retry \/ Crash
  <2>1. at' = "work" /\ UNCHANGED <<run, day, stage, checkpoint, observed>>
    BY <1>4 DEF Retry, Crash, Again, durable
  <2>2. QED
    BY <2>1 DEF SelectInv, Covered, Age, input, offered
<1>5. CASE NextRun
  BY <1>5 DEF NextRun, SelectInv
<1>6. CASE UNCHANGED vars
  BY <1>6 DEF vars, durable, SelectInv, Covered, Age, input, offered
<1>7. QED
  BY <1>1, <1>2, <1>3, <1>4, <1>5, <1>6 DEF Next

\* A work that is new to all other runs and within the window is offered to
\* triage, however often normalize has been repeated after it observed it.
THEOREM StagesSelectNewWork == Spec => []NewWorkIsSelected
<1>1. Init => SelectInv
  BY DEF Init, SelectInv
<1>2. TypeInv /\ SelectInv => NewWorkIsSelected
  BY StageNames DEF TypeInv, SelectInv, Covered, NewWorkIsSelected
<1>3. QED
  BY <1>1, <1>2, SelectStep, StagesTypeCorrect, PTL DEF Spec

----------------------------------------------------------------------------
(* Diagnostics. *)

Whys == LeftOut \cup {"out_of_window", "unchanged_observation", "fresh", "reconsideration",
                      "topic_mismatch", "identity_merged"}
Refs == Whys \X Lanes \X Works \X {"own", "joined"}

\* The trackers of a run whose lanes are known.
Trackers == [known : {Lanes}, discovered : [Lanes -> Nat], counts : [Counted -> [Lanes -> Nat]],
             by : [OwnerStages -> [Lanes -> Nat]], active : OwnerStages,
             rejected : SUBSET (OwnerStages \X Refs)]

Distinct(S) == IsFiniteSet(S) /\ \A v, w \in S : v.work = w.work => v = w

\* The works of lane l that go into a stage and do not come out of it.
OfLane(S, l) == {w \in S : l \in w.lanes}
Lost(in, out, l) == {w \in in : l \in w.lanes /\ ~\E v \in out : v.work = w.work}
JoinedTo(in, l)  == {w \in in : l \in w.merged}

Least(a, b) == Sets!Min({a, b})
NormalizeTold(t, in, out) == \A l \in Lanes :
    /\ t.counts["deduplicated"][l] = Least(t.discovered[l], CountOf(out, l))
    /\ t.by["normalize"][l] = Cardinality(Lost(in, out, l)) + Cardinality(JoinedTo(in, l))
PrefilterTold(t, in, out) == \A l \in Lanes :
    /\ t.counts["triaged"][l] = Least(t.counts["deduplicated"][l], CountOf(out, l))
    /\ t.by["prefilter"][l] = Cardinality(Lost(in, out, l))
AssessTold(t, in, out) == \A l \in Lanes :
    /\ t.counts["assessed"][l] = Least(t.counts["triaged"][l], CountOf(out, l))
    /\ t.by["assess"][l] = Cardinality(Lost(in, out, l))
ShortlistTold(t, in, out) == \A l \in Lanes :
    t.by["shortlist"][l] = Cardinality(Research(Lost(in, out, l)))

\* A tracker before stage k tells what the stages before have done.
Tells(t, k, c) ==
    /\ t \in Trackers
    /\ k >= 3 => NormalizeTold(t, c[1], c[2])
    /\ k >= 5 => PrefilterTold(t, c[3], c[4])
    /\ k >= 6 => AssessTold(t, c[4], c[5])
    /\ k >= 7 => ShortlistTold(t, c[5], c[6])

\* While works are assessed one after the other, each is still to do, made or
\* rejected, once.
Halfway ==
    /\ tracker.active = "assess" /\ todo \subseteq input
    /\ \A l \in Lanes : tracker.by["assess"][l] = Cardinality(Lost(input, made \cup todo, l))
    /\ \A v \in made, w \in todo : v.work # w.work
    /\ \A w \in todo, r \in Whys, l \in Lanes :
           <<"assess", <<r, l, w.work, "own">>>> \notin tracker.rejected

\* The checkpoints with that of the stage that is done.
HandedOn == [checkpoint EXCEPT ![stage] = made]

TellInv ==
    ~blurred =>
        /\ tracker = NoTracker => lanes = NoLanes
        /\ Distinct(input) /\ Distinct(made) /\ Distinct(todo)
        /\ tracker # NoTracker => tracker \in Trackers
        /\ stage >= 2 => Tells(event, stage, checkpoint)
        /\ stage >= 2 /\ tracker # NoTracker => Tells(tracker, stage, checkpoint)
        /\ at = "save" => Tells(event, stage + 1, HandedOn)
        /\ at = "save" /\ tracker # NoTracker => Tells(tracker, stage + 1, HandedOn)
        /\ at \in {"next", "paid"} => tracker # NoTracker /\ Halfway

\* Parts and images of a set of works.
LEMMA PartIsDistinct ==
    ASSUME NEW S, Distinct(S), NEW T, T \subseteq S
    PROVE  Distinct(T)
BY FS_Subset DEF Distinct

LEMMA ImageIsDistinct ==
    ASSUME NEW S, Distinct(S), NEW f, \A w \in S : f[w].work = w.work, f = [w \in S |-> f[w]]
    PROVE  Distinct({f[w] : w \in S})
<1> DEFINE T == {f[w] : w \in S}
<1>1. f \in Surjection(S, T)
  BY DEF Surjection
<1> HIDE DEF T
<1>2. IsFiniteSet(T)
  BY <1>1, FS_Surjection DEF Distinct
<1> USE DEF T
<1>3. \A v, w \in T : v.work = w.work => v = w
  BY DEF Distinct
<1>4. QED
  BY <1>2, <1>3 DEF Distinct

\* The cardinality of a part of a finite set.
LEMMA SizeIsNat ==
    ASSUME NEW S, IsFiniteSet(S), NEW T, T \subseteq S
    PROVE  IsFiniteSet(T) /\ Cardinality(T) \in Nat
BY FS_Subset, FS_CardinalityType

\* A lane has one ref of every work of its own, whatever it is rejected for.
LEMMA OwnRefsCounted ==
    ASSUME NEW S, S \subseteq Item, Distinct(S), NEW why, \A w \in S : why[w] \in Whys,
           NEW refs, refs = UNION {OwnRefs(why[w], w) : w \in S}
    PROVE  /\ refs \subseteq Refs
           /\ \A l : /\ IsFiniteSet(RefsOfLane(refs, l))
                     /\ Cardinality(RefsOfLane(refs, l)) = Cardinality(OfLane(S, l))
                     /\ Cardinality(OfLane(S, l)) \in Nat
<1>1. refs \subseteq Refs
  <2> SUFFICES ASSUME NEW w \in S PROVE OwnRefs(why[w], w) \subseteq Refs
    OBVIOUS
  <2>1. w.work \in Works /\ w.lanes \subseteq Lanes /\ why[w] \in Whys
    BY ItemFacts
  <2>2. QED
    BY <2>1 DEF OwnRefs, Refs
<1> SUFFICES ASSUME NEW l
             PROVE  /\ IsFiniteSet(RefsOfLane(refs, l))
                    /\ Cardinality(RefsOfLane(refs, l)) = Cardinality(OfLane(S, l))
                    /\ Cardinality(OfLane(S, l)) \in Nat
  BY <1>1
<1> DEFINE P == OfLane(S, l)
           Q == RefsOfLane(refs, l)
           f == [w \in P |-> <<why[w], l, w.work, "own">>]
<1>2. IsFiniteSet(P) /\ Cardinality(P) \in Nat
  BY SizeIsNat DEF Distinct, OfLane
<1>3. \A w \in P : f[w] \in Q
  BY DEF OfLane, RefsOfLane, OwnRefs
<1>4. \A q \in Q : \E w \in P : q = f[w]
  BY DEF OfLane, RefsOfLane, OwnRefs
<1>5. \A v, w \in P : f[v] = f[w] => v = w
  BY DEF OfLane, Distinct
<1>6. f \in Surjection(P, Q) /\ f \in Injection(P, Q)
  BY <1>3, <1>4, <1>5 DEF Surjection, Injection, IsInjective
<1> HIDE DEF P, Q, f
<1>7. IsFiniteSet(Q) /\ Cardinality(Q) = Cardinality(P)
  BY <1>2, <1>6, FS_Surjection
<1>8. QED
  BY <1>2, <1>7 DEF P, Q

\* And one of every record that another lane has joined it to.
LEMMA JoinedRefsCounted ==
    ASSUME NEW S, S \subseteq Item, Distinct(S), NEW why, \A w \in S : why[w] \in Whys,
           NEW refs, refs = UNION {JoinedRefs(why[w], w) : w \in S}
    PROVE  /\ refs \subseteq Refs
           /\ \A l : /\ IsFiniteSet(RefsOfLane(refs, l))
                     /\ Cardinality(RefsOfLane(refs, l)) = Cardinality(JoinedTo(S, l))
                     /\ Cardinality(JoinedTo(S, l)) \in Nat
<1>1. refs \subseteq Refs
  <2> SUFFICES ASSUME NEW w \in S PROVE JoinedRefs(why[w], w) \subseteq Refs
    OBVIOUS
  <2>1. w.work \in Works /\ w.merged \subseteq Lanes /\ why[w] \in Whys
    BY ItemFacts
  <2>2. QED
    BY <2>1 DEF JoinedRefs, Refs
<1> SUFFICES ASSUME NEW l
             PROVE  /\ IsFiniteSet(RefsOfLane(refs, l))
                    /\ Cardinality(RefsOfLane(refs, l)) = Cardinality(JoinedTo(S, l))
                    /\ Cardinality(JoinedTo(S, l)) \in Nat
  BY <1>1
<1> DEFINE P == JoinedTo(S, l)
           Q == RefsOfLane(refs, l)
           f == [w \in P |-> <<why[w], l, w.work, "joined">>]
<1>2. IsFiniteSet(P) /\ Cardinality(P) \in Nat
  BY SizeIsNat DEF Distinct, JoinedTo
<1>3. \A w \in P : f[w] \in Q
  BY DEF JoinedTo, RefsOfLane, JoinedRefs
<1>4. \A q \in Q : \E w \in P : q = f[w]
  BY DEF JoinedTo, RefsOfLane, JoinedRefs
<1>5. \A v, w \in P : f[v] = f[w] => v = w
  BY DEF JoinedTo, Distinct
<1>6. f \in Surjection(P, Q) /\ f \in Injection(P, Q)
  BY <1>3, <1>4, <1>5 DEF Surjection, Injection, IsInjective
<1> HIDE DEF P, Q, f
<1>7. IsFiniteSet(Q) /\ Cardinality(Q) = Cardinality(P)
  BY <1>2, <1>6, FS_Surjection
<1>8. QED
  BY <1>2, <1>7 DEF P, Q

\* The counts of a tracker are numbers.
LEMMA TrackerFacts ==
    ASSUME NEW t \in Trackers
    PROVE  /\ t.known = Lanes /\ t.active \in OwnerStages /\ t # NoTracker
           /\ t.discovered \in [Lanes -> Nat]
           /\ \A f \in Counted : t.counts[f] \in [Lanes -> Nat]
           /\ \A s \in OwnerStages : t.by[s] \in [Lanes -> Nat]
           /\ t.rejected \subseteq OwnerStages \X Refs
<1>1. /\ t.known = Lanes /\ t.active \in OwnerStages /\ t.discovered \in [Lanes -> Nat]
      /\ t.counts \in [Counted -> [Lanes -> Nat]]
      /\ t.by \in [OwnerStages -> [Lanes -> Nat]]
      /\ t.rejected \subseteq OwnerStages \X Refs
  BY DEF Trackers
<1>2. NoTracker.active = "none"
  BY DEF NoTracker
<1>3. t # NoTracker
  BY <1>1, <1>2 DEF OwnerStages
<1>4. QED
  BY <1>1, <1>3

\* u differs from t in the rejections of the stages in P and the counts in F.
Same(u, t, P, F) ==
    /\ t \in Trackers /\ u \in Trackers /\ u.discovered = t.discovered
    /\ \A f \in Counted \ F : u.counts[f] = t.counts[f]
    /\ \A s \in OwnerStages \ P : u.by[s] = t.by[s]

LEMMA BeginStageFacts ==
    ASSUME NEW t \in Trackers, NEW s \in OwnerStages
    PROVE  /\ Same(BeginStage(t, s), t, {s}, {})
           /\ BeginStage(t, s).active = s /\ BeginStage(t, s).rejected = {}
           /\ \A l \in Lanes : BeginStage(t, s).by[s][l] = 0
<1> DEFINE u == BeginStage(t, s)
<1>1. NoCounts \in [Lanes -> Nat] /\ \A l \in Lanes : NoCounts[l] = 0
  BY DEF NoCounts
<1>2. u = [t EXCEPT !.active = s, !.by = [t.by EXCEPT ![s] = NoCounts], !.rejected = {}]
  BY DEF BeginStage
<1>3. [t.by EXCEPT ![s] = NoCounts] \in [OwnerStages -> [Lanes -> Nat]]
  BY <1>1 DEF Trackers
<1>4. u \in Trackers
  BY <1>2, <1>3 DEF Trackers
<1>5. /\ u.active = s /\ u.rejected = {} /\ u.discovered = t.discovered /\ u.counts = t.counts
      /\ u.by = [t.by EXCEPT ![s] = NoCounts]
  BY <1>2 DEF Trackers
<1>6. u.by[s] = NoCounts /\ \A r \in OwnerStages \ {s} : u.by[r] = t.by[r]
  BY <1>5 DEF Trackers
<1>7. QED
  BY <1>1, <1>4, <1>5, <1>6 DEF Same

\* Rejecting counts in the active stage, and refs that are new all count.
LEMMA RejectFacts ==
    ASSUME NEW t \in Trackers, NEW refs, refs \subseteq Refs,
           \A l : IsFiniteSet(RefsOfLane(refs, l))
    PROVE  /\ Same(Reject(t, refs), t, {t.active}, {}) /\ Reject(t, refs).active = t.active
           /\ (\A r \in refs : <<t.active, r>> \notin t.rejected) =>
                  /\ Reject(t, refs).rejected = t.rejected \cup {<<t.active, r>> : r \in refs}
                  /\ \A l \in Lanes : Reject(t, refs).by[t.active][l]
                                         = t.by[t.active][l] + Cardinality(RefsOfLane(refs, l))
<1> DEFINE u == Reject(t, refs)
           a == t.active
           new == {r \in refs : r[2] \in t.known /\ <<a, r>> \notin t.rejected}
           here == [l \in Lanes |-> t.by[a][l] + Cardinality(RefsOfLane(new, l))]
           gone == {<<a, r>> : r \in new}
<1>1. a \in OwnerStages /\ t.by[a] \in [Lanes -> Nat]
  BY TrackerFacts
<1>2. u = [t EXCEPT !.rejected = t.rejected \cup gone, !.by = [t.by EXCEPT ![a] = here]]
  BY DEF Reject
<1>3. \A l : Cardinality(RefsOfLane(new, l)) \in Nat
  <2> SUFFICES ASSUME NEW l PROVE Cardinality(RefsOfLane(new, l)) \in Nat
    OBVIOUS
  <2>1. RefsOfLane(new, l) \subseteq RefsOfLane(refs, l)
    BY DEF RefsOfLane
  <2> HIDE DEF new
  <2>2. QED
    BY <2>1, SizeIsNat
<1>4. here \in [Lanes -> Nat]
  BY <1>1, <1>3
<1>5. [t.by EXCEPT ![a] = here] \in [OwnerStages -> [Lanes -> Nat]]
  BY <1>4 DEF Trackers
<1>6. t.rejected \cup gone \in SUBSET (OwnerStages \X Refs)
  <2>1. new \subseteq Refs
    OBVIOUS
  <2> HIDE DEF new
  <2>2. gone \subseteq OwnerStages \X Refs
    BY <1>1, <2>1
  <2>3. QED
    BY <2>2, TrackerFacts
<1>7. /\ u \in Trackers /\ u.active = a /\ u.discovered = t.discovered /\ u.counts = t.counts
      /\ u.by = [t.by EXCEPT ![a] = here]
      /\ u.rejected = t.rejected \cup gone
  <2> HIDE DEF here, gone, u
  <2>1. QED
    BY <1>2, <1>5, <1>6 DEF Trackers
<1>8. u.by[a] = here /\ \A s \in OwnerStages \ {a} : u.by[s] = t.by[s]
  <2> HIDE DEF here, gone, u
  <2>1. QED
    BY <1>1, <1>7 DEF Trackers
<1>9. Same(u, t, {a}, {})
  <2> HIDE DEF u
  <2>1. QED
    BY <1>7, <1>8 DEF Same
<1>10. (\A r \in refs : <<a, r>> \notin t.rejected) => new = refs
  <2>1. \A r \in refs : r[2] \in t.known
    BY TrackerFacts DEF Refs
  <2>2. QED
    BY <2>1
<1>11. \A l \in Lanes : u.by[a][l] = t.by[a][l] + Cardinality(RefsOfLane(new, l))
  <2> HIDE DEF u, new
  <2>1. QED
    BY <1>8
<1> HIDE DEF u, new
<1>12. QED
  BY <1>7, <1>9, <1>10, <1>11 DEF u

\* A stage counts its research, and no more than the stage before.
LEMMA SetStageFacts ==
    ASSUME NEW t \in Trackers, NEW field \in Counted, NEW works, IsFiniteSet(works)
    PROVE  /\ Same(SetStage(t, field, works), t, {}, {field})
           /\ SetStage(t, field, works).by = t.by
           /\ \A l \in Lanes : SetStage(t, field, works).counts[field][l]
                                  = Least(Before(t, field)[l], CountOf(works, l))
<1> DEFINE u == SetStage(t, field, works)
           before == Before(t, field)
           new == [l \in Lanes |-> IF l \in t.known THEN Sets!Min({before[l], CountOf(works, l)}) ELSE 0]
<1>1. before \in [Lanes -> Nat]
  BY TrackerFacts DEF Counted, Before
<1> HIDE DEF before
<1>2. u = [t EXCEPT !.counts = [t.counts EXCEPT ![field] = new]]
  BY DEF SetStage, before
<1>3. ASSUME NEW l \in Lanes
      PROVE  new[l] \in Nat /\ new[l] = Least(before[l], CountOf(works, l))
  <2>1. before[l] \in Nat /\ CountOf(works, l) \in Nat
    BY <1>1, SizeIsNat DEF CountOf, Research
  <2>2. new[l] = Sets!Min({before[l], CountOf(works, l)})
    BY TrackerFacts
  <2>3. \E x \in {before[l], CountOf(works, l)} : \A y \in {before[l], CountOf(works, l)} : x <= y
    BY <2>1
  <2>4. Sets!Min({before[l], CountOf(works, l)}) \in {before[l], CountOf(works, l)}
    BY <2>3 DEF Sets!Min
  <2>5. QED
    BY <2>1, <2>2, <2>4 DEF Least
<1>4. new \in [Lanes -> Nat]
  BY <1>3
<1> HIDE DEF new
<1>5. [t.counts EXCEPT ![field] = new] \in [Counted -> [Lanes -> Nat]]
  BY <1>4 DEF Trackers
<1>6. /\ u \in Trackers /\ u.discovered = t.discovered /\ u.by = t.by
      /\ u.counts = [t.counts EXCEPT ![field] = new]
  BY <1>2, <1>5 DEF Trackers
<1>7. u.counts[field] = new /\ \A f \in Counted \ {field} : u.counts[f] = t.counts[f]
  BY <1>6 DEF Trackers
<1>8. Same(u, t, {}, {field})
  BY <1>6, <1>7 DEF Same
<1> HIDE DEF u
<1>9. QED
  BY <1>3, <1>6, <1>7, <1>8 DEF before, u

LEMMA SameFacts ==
    ASSUME NEW t, NEW u, NEW v, NEW P, NEW Q, NEW F, NEW G, Same(u, t, P, F)
    PROVE  /\ P \subseteq Q /\ F \subseteq G => Same(u, t, Q, G)
           /\ Same(v, u, P, F) => Same(v, t, P, F)
BY DEF Same

\* What a tracker tells of the stages before is not lost in stage k.
Owned(k) == CASE k = 2 -> "normalize" [] k = 4 -> "prefilter" [] k = 5 -> "assess" [] k = 6 -> "shortlist"
FieldOf(k) == CASE k = 2 -> "deduplicated" [] k = 4 -> "triaged" [] k = 5 -> "assessed" [] k = 6 -> "none"
LEMMA SameTells ==
    ASSUME NEW t, NEW u, NEW k \in {2, 4, 5, 6}, NEW c, Tells(t, k, c), Same(u, t, {Owned(k)}, {FieldOf(k)})
    PROVE  Tells(u, k, c)
<1>1. u \in Trackers /\ u.discovered = t.discovered
  BY DEF Same
<1>2. k >= 3 => u.counts["deduplicated"] = t.counts["deduplicated"] /\ u.by["normalize"] = t.by["normalize"]
  BY DEF Same, Counted, OwnerStages, Owned, FieldOf
<1>3. k >= 5 => u.counts["triaged"] = t.counts["triaged"] /\ u.by["prefilter"] = t.by["prefilter"]
  BY DEF Same, Counted, OwnerStages, Owned, FieldOf
<1>4. k >= 6 => u.counts["assessed"] = t.counts["assessed"] /\ u.by["assess"] = t.by["assess"]
  BY DEF Same, Counted, OwnerStages, Owned, FieldOf
<1>5. k >= 3 => NormalizeTold(u, c[1], c[2])
  BY <1>1, <1>2 DEF Tells, NormalizeTold
<1>6. k >= 5 => PrefilterTold(u, c[3], c[4])
  BY <1>2, <1>3 DEF Tells, PrefilterTold
<1>7. k >= 6 => AssessTold(u, c[4], c[5])
  BY <1>3, <1>4 DEF Tells, AssessTold
<1>8. QED
  BY <1>1, <1>5, <1>6, <1>7 DEF Tells

\* The checkpoints of the stages before are those that are handed on.
LEMMA HandedOnFacts ==
    ASSUME TypeInv, stage \in 1..6
    PROVE  /\ HandedOn[stage] = made
           /\ \A i \in 1..6 : i # stage => HandedOn[i] = checkpoint[i]
           /\ stage # 1 => HandedOn[stage - 1] = input
           /\ \A t : Tells(t, stage, checkpoint) => Tells(t, stage, HandedOn)
<1>1. HandedOn[stage] = made /\ \A i \in 1..6 : i # stage => HandedOn[i] = checkpoint[i]
  BY DEF HandedOn, TypeInv
<1>2. stage # 1 => HandedOn[stage - 1] = input
  BY <1>1 DEF input
<1>3. ASSUME NEW t, Tells(t, stage, checkpoint) PROVE Tells(t, stage, HandedOn)
  <2>1. \A i \in 1..6 : i < stage => HandedOn[i] = checkpoint[i]
    BY <1>1
  <2> HIDE DEF HandedOn
  <2>2. QED
    BY <1>3, <2>1 DEF Tells
<1>4. QED
  BY <1>1, <1>2, <1>3

\* The first use of the diagnostics in an isolate finds what the run has recorded.
LEMMA LoadedTells ==
    ASSUME TypeInv, TellInv, ~blurred, stage >= 2
    PROVE  Tells(Loaded, stage, checkpoint) /\ Loaded \in Trackers /\ (tracker # NoTracker => Loaded = tracker)
<1>1. CASE tracker # NoTracker
  BY <1>1 DEF Loaded, TellInv, Tells
<1>2. CASE tracker = NoTracker
  <2>1. lanes = NoLanes /\ event \in Trackers /\ Tells(event, stage, checkpoint)
    BY <1>2 DEF TellInv, Tells
  <2>2. event # NoTracker
    BY <2>1, TrackerFacts
  <2>3. Loaded = [event EXCEPT !.active = "normalize", !.rejected = {}]
    BY <1>2, <2>1, <2>2 DEF Loaded
  <2>4. /\ Loaded \in Trackers /\ Loaded.discovered = event.discovered
        /\ Loaded.counts = event.counts /\ Loaded.by = event.by
    BY <2>1, <2>3 DEF Trackers, OwnerStages
  <2>5. Tells(Loaded, stage, checkpoint)
    <3> HIDE DEF Loaded
    <3>1. QED
      BY <2>1, <2>4 DEF Tells, NormalizeTold, PrefilterTold, AssessTold, ShortlistTold
  <2>6. QED
    BY <1>2, <2>4, <2>5
<1>3. QED
  BY <1>1, <1>2

\* A stage hands on what it has made with a tracker that tells of it.
LEMMA StageTells ==
    ASSUME TypeInv', TellInv, ~blurred, ~blurred', UNCHANGED <<stage, checkpoint, todo, lanes>>,
           at' = "save", Distinct(made'), event' = tracker', stage \in 2..6,
           Tells(tracker', stage, checkpoint), Tells(tracker', stage + 1, HandedOn')
    PROVE  TellInv'
<1>1. tracker' # NoTracker /\ tracker' \in Trackers
  BY TrackerFacts DEF Tells
<1>2. UNCHANGED input
  BY DEF input
<1>3. QED
  BY <1>1, <1>2 DEF TellInv

\* The collection of a run begins its diagnostics.
LEMMA CollectTells ==
    ASSUME TypeInv, TellInv, Collect
    PROVE  TellInv'
<1>1. /\ stage = 1 /\ at = "work" /\ at' = "save"
      /\ UNCHANGED <<stage, checkpoint, todo>>
  BY StageNames DEF Collect, Doing, ToSave, TypeInv
<1>2. PICK offer \in Offers, fail \in DiagnosticsFail :
         LET unprepared == {w \in offer.works : w.route = "unprepared"}
             refs == UNION {OwnRefs("quality_rejected", w) : w \in unprepared}
             t == IF tracker # NoTracker THEN tracker ELSE Tracker(Lanes, lanes')
         IN  /\ made' = {[w EXCEPT !.published = day - @] : w \in offer.works \ unprepared}
             /\ lanes' = offer.discovered
             /\ Diagnose(Reject(t, refs), fail, TRUE)
  BY Zenon DEF Collect
<1> SUFFICES ASSUME ~blurred' PROVE TellInv'
  BY DEF TellInv
<1> DEFINE unprepared == {w \in offer.works : w.route = "unprepared"}
           refs == UNION {OwnRefs("quality_rejected", w) : w \in unprepared}
           t == IF tracker # NoTracker THEN tracker ELSE Tracker(Lanes, lanes')
<1>3. Diagnose(Reject(t, refs), fail, TRUE) /\ lanes' = offer.discovered
      /\ made' = {Dated(w) : w \in offer.works \ unprepared}
  BY <1>2 DEF Dated
<1> HIDE DEF refs, t
<1>4. fail = "none" /\ ~blurred
  BY <1>3 DEF Diagnose
<1>5. tracker' = Reject(t, refs) /\ event' = tracker'
  BY <1>3, <1>4 DEF Diagnose
<1>6. Distinct(offer.works)
  BY OfferedOnce DEF Distinct
<1>7. Distinct(made')
  <2> DEFINE S == offer.works \ unprepared
             f == [w \in S |-> Dated(w)]
  <2>1. Distinct(S)
    BY <1>6, PartIsDistinct
  <2>2. f = [w \in S |-> f[w]] /\ \A w \in S : f[w].work = w.work
    BY OfferItems
  <2>0. {f[w] : w \in S} = {Dated(w) : w \in S}
    OBVIOUS
  <2> HIDE DEF S, f
  <2>3. Distinct({f[w] : w \in S})
    BY <2>1, <2>2, ImageIsDistinct
  <2>4. {f[w] : w \in S} = made'
    BY <1>3, <2>0 DEF S
  <2>5. QED
    BY <2>3, <2>4
<1>8. t \in Trackers
  <2>1. lanes' \in [Lanes -> Nat]
    BY <1>3, OffersAssumption
  <2>2. Tracker(Lanes, lanes') \in Trackers
    BY <2>1 DEF Tracker, Trackers, NoCounts, Counted, OwnerStages
  <2>3. QED
    BY <1>4, <2>2 DEF t, TellInv
<1>9. tracker' \in Trackers
  <2> DEFINE dated == [w \in unprepared |-> Dated(w)]
             T == {dated[w] : w \in unprepared}
             why == [w \in T |-> "quality_rejected"]
  <2>1. Distinct(T)
    <3>1. /\ Distinct(unprepared) /\ dated = [w \in unprepared |-> dated[w]]
          /\ \A w \in unprepared : dated[w].work = w.work
      BY <1>6, PartIsDistinct, OfferItems
    <3> HIDE DEF unprepared, dated
    <3>2. QED
      BY <3>1, ImageIsDistinct
  <2>2. T \subseteq Item
    BY OfferItems
  <2>3. \A w \in unprepared : OwnRefs("quality_rejected", Dated(w)) = OwnRefs("quality_rejected", w)
    <3> SUFFICES ASSUME NEW w \in unprepared
                 PROVE  OwnRefs("quality_rejected", Dated(w)) = OwnRefs("quality_rejected", w)
      OBVIOUS
    <3>1. w \in [work : Works, published : Nat, evidence : Evidences, lanes : SUBSET Lanes,
                 merged : SUBSET Lanes, route : Routes, fit : Fits, assessed : {0}]
      BY OffersAssumption
    <3>2. Dated(w).lanes = w.lanes /\ Dated(w).work = w.work
      BY <3>1 DEF Dated
    <3>3. QED
      BY <3>2 DEF OwnRefs
  <2>4. refs = UNION {OwnRefs(why[w], w) : w \in T}
    <3>1. \A w \in T : why[w] = "quality_rejected"
      OBVIOUS
    <3>2. UNION {OwnRefs(why[w], w) : w \in T} = UNION {OwnRefs("quality_rejected", w) : w \in T}
      BY <3>1
    <3>3. \A x : x \in UNION {OwnRefs("quality_rejected", w) : w \in T} <=> x \in refs
      BY <2>3 DEF refs
    <3> HIDE DEF T, why
    <3>4. UNION {OwnRefs("quality_rejected", w) : w \in T} = refs
      BY <3>3
    <3>5. QED
      BY <3>2, <3>4
  <2>5. \A w \in T : why[w] \in Whys
    BY DEF Whys, LeftOut
  <2> HIDE DEF T, why
  <2>6. refs \subseteq Refs /\ \A l : IsFiniteSet(RefsOfLane(refs, l))
    BY <2>1, <2>2, <2>4, <2>5, OwnRefsCounted
  <2>7. Same(Reject(t, refs), t, {t.active}, {})
    BY <1>8, <2>6, RejectFacts
  <2>8. QED
    BY <1>5, <2>7 DEF Same
<1>10. tracker' # NoTracker
  BY <1>9, TrackerFacts
<1>11. Tells(tracker', 2, HandedOn')
  BY <1>9 DEF Tells
<1>12. UNCHANGED input
  BY <1>1 DEF input
<1>13. QED
  BY <1>1, <1>4, <1>5, <1>7, <1>9, <1>10, <1>11, <1>12 DEF TellInv

\* The works a stage does not hand on are those it loses.
LEMMA LostFacts ==
    ASSUME NEW in, Distinct(in), NEW out, out \subseteq in, NEW l
    PROVE  Lost(in, out, l) = OfLane(in \ out, l)
BY DEF Lost, OfLane, Distinct

\* A stage that rejects refs once, and counts what it hands on.
LEMMA OwnedStage ==
    ASSUME NEW t \in Trackers, NEW s \in OwnerStages, NEW refs, refs \subseteq Refs,
           \A l : IsFiniteSet(RefsOfLane(refs, l))
    PROVE  LET u == Reject(BeginStage(t, s), refs)
           IN  /\ Same(u, t, {s}, {})
               /\ \A l \in Lanes : u.by[s][l] = Cardinality(RefsOfLane(refs, l))
<1> DEFINE b == BeginStage(t, s)
           u == Reject(b, refs)
<1>1. /\ Same(b, t, {s}, {}) /\ b \in Trackers /\ b.active = s /\ b.rejected = {}
      /\ \A l \in Lanes : b.by[s][l] = 0
  BY BeginStageFacts DEF Same
<1> HIDE DEF b
<1>2. /\ Same(u, b, {s}, {})
      /\ \A l \in Lanes : u.by[s][l] = b.by[s][l] + Cardinality(RefsOfLane(refs, l))
  <2>1. \A r \in refs : <<b.active, r>> \notin b.rejected
    BY <1>1
  <2>2. /\ Same(Reject(b, refs), b, {b.active}, {})
        /\ \A l \in Lanes : Reject(b, refs).by[b.active][l]
                              = b.by[b.active][l] + Cardinality(RefsOfLane(refs, l))
    <3>1. b \in Trackers
      BY <1>1
    <3>2. QED
      BY <2>1, <3>1, RejectFacts, Zenon
  <2>3. QED
    BY <1>1, <2>2
<1>3. \A l : Cardinality(RefsOfLane(refs, l)) \in Nat
  BY FS_CardinalityType
<1> HIDE DEF u
<1>4. QED
  BY <1>1, <1>2, <1>3, SameFacts DEF b, u

\* The refs of what normalize rejects: of the works it leaves out, and of the
\* records joined into any work.
LEMMA NormalizeRefsFacts ==
    ASSUME TypeInv, Distinct(input), NEW prior
    PROVE  /\ NormalizeRefs(prior) \subseteq Refs
           /\ \A l : IsFiniteSet(RefsOfLane(NormalizeRefs(prior), l))
           /\ \A l : Cardinality(RefsOfLane(NormalizeRefs(prior), l))
                        = Cardinality(Lost(input, Selected(prior), l)) + Cardinality(JoinedTo(input, l))
<1> DEFINE out  == Selected(prior)
           S    == input \ out
           why  == [w \in S |-> WhyLeftOut(prior, w)]
           whyJ == [w \in input |-> WhyJoined(prior, w)]
           own  == UNION {OwnRefs(why[w], w) : w \in S}
           join == UNION {JoinedRefs(whyJ[w], w) : w \in input}
<1>1. \A w \in input : WhyLeftOut(prior, w) \in Whys /\ WhyJoined(prior, w) \in Whys
  BY DEF WhyLeftOut, WhyJoined, Decision, Whys
<1>2. NormalizeRefs(prior) = own \cup join
  <2> DEFINE A == UNION {OwnRefs(WhyLeftOut(prior, w), w) : w \in S}
             B == UNION {JoinedRefs(WhyJoined(prior, w), w) : w \in input}
  <2>1. NormalizeRefs(prior) = A \cup B
    BY DEF NormalizeRefs
  <2>2. \A x : x \in A <=> x \in own
    OBVIOUS
  <2>3. \A x : x \in B <=> x \in join
    OBVIOUS
  <2> HIDE DEF own, join, A, B
  <2>4. QED
    BY <2>1, <2>2, <2>3
<1>3. /\ Distinct(S) /\ S \subseteq Item /\ input \subseteq Item /\ out \subseteq input
      /\ \A w \in S : why[w] \in Whys
      /\ \A w \in input : whyJ[w] \in Whys
  BY <1>1, PartIsDistinct, InputItems DEF Items, Selected
<1>4. \A l : Lost(input, out, l) = OfLane(S, l)
  BY <1>3, LostFacts
<1>5. \A r \in own : r[4] = "own"
  BY DEF OwnRefs
<1>6. \A r \in join : r[4] = "joined"
  BY DEF JoinedRefs
<1> HIDE DEF S, why, whyJ
<1>7. /\ own \subseteq Refs
      /\ \A l : /\ IsFiniteSet(RefsOfLane(own, l))
                /\ Cardinality(RefsOfLane(own, l)) = Cardinality(OfLane(S, l))
                /\ Cardinality(OfLane(S, l)) \in Nat
  BY <1>3, OwnRefsCounted
<1>8. /\ join \subseteq Refs
      /\ \A l : /\ IsFiniteSet(RefsOfLane(join, l))
                /\ Cardinality(RefsOfLane(join, l)) = Cardinality(JoinedTo(input, l))
                /\ Cardinality(JoinedTo(input, l)) \in Nat
  BY <1>3, JoinedRefsCounted
<1> HIDE DEF own, join, out
<1>9. ASSUME NEW l
      PROVE  /\ IsFiniteSet(RefsOfLane(own \cup join, l))
             /\ Cardinality(RefsOfLane(own \cup join, l))
                   = Cardinality(OfLane(S, l)) + Cardinality(JoinedTo(input, l))
  <2> DEFINE A == RefsOfLane(own, l)
             B == RefsOfLane(join, l)
  <2>1. RefsOfLane(own \cup join, l) = A \cup B
    BY DEF RefsOfLane
  <2>2. A \cap B = {}
    BY <1>5, <1>6 DEF RefsOfLane
  <2>3. IsFiniteSet(A) /\ IsFiniteSet(B)
    BY <1>7, <1>8
  <2> HIDE DEF A, B
  <2>4. IsFiniteSet(A \cup B) /\ Cardinality(A \cup B) = Cardinality(A) + Cardinality(B)
    <3>1. IsFiniteSet(A \cup B) /\ Cardinality(A \cup B) = Cardinality(A) + Cardinality(B) - Cardinality({})
      BY <2>2, <2>3, FS_Union
    <3>2. Cardinality({}) = 0 /\ Cardinality(A) \in Nat /\ Cardinality(B) \in Nat
      BY <2>3, FS_EmptySet, FS_CardinalityType
    <3>3. QED
      BY <3>1, <3>2
  <2>5. Cardinality(A) = Cardinality(OfLane(S, l)) /\ Cardinality(B) = Cardinality(JoinedTo(input, l))
    BY <1>7, <1>8 DEF A, B
  <2>6. QED
    BY <2>1, <2>4, <2>5
<1>10. QED
  BY <1>2, <1>4, <1>7, <1>8, <1>9 DEF out

\* normalize tells of every work it was given.
LEMMA NormalizeTells ==
    ASSUME TypeInv, TypeInv', TellInv, Normalize
    PROVE  TellInv'
<1>1. /\ at = "work" /\ at' = "save" /\ stage = 2
      /\ UNCHANGED <<stage, checkpoint, todo, policy, lanes>>
  BY StageNames DEF Normalize, Doing, ToSave, TypeInv
<1> SUFFICES ASSUME ~blurred' PROVE TellInv'
  BY DEF TellInv
<1>2. PICK prior \in {PriorObservations, {}}, fail \in DiagnosticsFail :
         /\ made' = Selected(prior)
         /\ Diagnose(SetStage(Reject(Begun("normalize", fail), NormalizeRefs(prior)), "deduplicated",
                              Selected(prior)), fail, TRUE)
  BY Zenon DEF Normalize
<1>3. ~blurred /\ fail = "none"
  BY <1>2 DEF Diagnose
<1> DEFINE out == Selected(prior)
           u == Reject(BeginStage(Loaded, "normalize"), NormalizeRefs(prior))
           v == SetStage(u, "deduplicated", out)
<1>4. made' = out /\ tracker' = v /\ event' = v
  BY <1>2, <1>3 DEF Diagnose, Begun
<1>5. Tells(Loaded, 2, checkpoint) /\ Loaded \in Trackers
  BY <1>1, <1>3, LoadedTells
<1>6. Distinct(input) /\ Distinct(out) /\ input = checkpoint[1]
  <2>1. Distinct(input)
    BY <1>3 DEF TellInv
  <2>2. out \subseteq input
    BY DEF Selected
  <2> HIDE DEF out
  <2>3. QED
    BY <1>1, <2>1, <2>2, PartIsDistinct DEF input
<1>7. /\ Same(u, Loaded, {"normalize"}, {})
      /\ \A l \in Lanes : u.by["normalize"][l] = Cardinality(RefsOfLane(NormalizeRefs(prior), l))
  <2>1. NormalizeRefs(prior) \subseteq Refs /\ \A l : IsFiniteSet(RefsOfLane(NormalizeRefs(prior), l))
    BY <1>6, NormalizeRefsFacts
  <2>2. "normalize" \in OwnerStages
    BY DEF OwnerStages
  <2>3. QED
    BY <1>5, <2>1, <2>2, OwnedStage
<1> HIDE DEF out, u
<1>8. /\ Same(v, u, {}, {"deduplicated"}) /\ v.by = u.by
      /\ \A l \in Lanes : v.counts["deduplicated"][l] = Least(Before(u, "deduplicated")[l], CountOf(out, l))
  <2>1. u \in Trackers /\ IsFiniteSet(out) /\ "deduplicated" \in Counted
    BY <1>6, <1>7 DEF Same, Distinct, Counted
  <2>2. QED
    BY <2>1, SetStageFacts
<1> HIDE DEF v
<1>9. Same(v, Loaded, {"normalize"}, {"deduplicated"}) /\ v.discovered = Before(u, "deduplicated")
  BY <1>7, <1>8 DEF Same, Before
<1>10. Tells(v, 2, checkpoint)
  <2>1. Owned(2) = "normalize" /\ FieldOf(2) = "deduplicated"
    BY DEF Owned, FieldOf
  <2> HIDE DEF Same, Tells
  <2>2. QED
    BY <1>5, <1>9, <2>1, SameTells
<1>11. NormalizeTold(v, input, out)
  <2>1. \A l \in Lanes : v.by["normalize"][l]
                            = Cardinality(Lost(input, out, l)) + Cardinality(JoinedTo(input, l))
    BY <1>6, <1>7, <1>8, NormalizeRefsFacts DEF out
  <2>2. QED
    BY <1>8, <1>9, <2>1 DEF NormalizeTold
<1>12. HandedOn'[1] = input /\ HandedOn'[2] = out
  BY <1>1, <1>4, <1>6 DEF HandedOn, TypeInv
<1>13. Tells(v, 3, HandedOn')
  <2>1. v \in Trackers
    BY <1>9 DEF Same
  <2> HIDE DEF HandedOn
  <2>2. QED
    BY <1>11, <1>12, <2>1 DEF Tells
<1>14. QED
  BY <1>1, <1>3, <1>4, <1>6, <1>10, <1>13, StageTells

\* prefilter tells of all research it was given.
LEMMA PrefilterTells ==
    ASSUME TypeInv, TypeInv', TellInv, Prefilter
    PROVE  TellInv'
<1>1. /\ at = "work" /\ at' = "save" /\ stage = 4
      /\ UNCHANGED <<stage, checkpoint, todo, policy, lanes>>
  BY StageNames DEF Prefilter, Doing, ToSave, TypeInv
<1> SUFFICES ASSUME ~blurred' PROVE TellInv'
  BY DEF TellInv
<1> DEFINE R == Research(input)
           mismatch == {w \in R : w.fit # "high"}
<1>2. PICK fail \in DiagnosticsFail, kept \in SUBSET {w \in R : w.fit = "high"} :
         LET why(w) == IF w \in mismatch THEN "topic_mismatch" ELSE "capacity_limited"
             refs == UNION {OwnRefs(why(w), w) : w \in R \ kept}
         IN  /\ made' = kept \cup (input \ R)
             /\ Diagnose(SetStage(Reject(Begun("prefilter", fail), refs), "triaged", made'), fail, TRUE)
  BY DEF Prefilter
<1> DEFINE S == R \ kept
           why == [w \in S |-> IF w \in mismatch THEN "topic_mismatch" ELSE "capacity_limited"]
           refs == UNION {OwnRefs(why[w], w) : w \in S}
           out == kept \cup (input \ R)
           u == Reject(BeginStage(Loaded, "prefilter"), refs)
           v == SetStage(u, "triaged", out)
<1>3. UNION {OwnRefs(IF w \in mismatch THEN "topic_mismatch" ELSE "capacity_limited", w) : w \in S} = refs
  <2>1. \A x : x \in UNION {OwnRefs(IF w \in mismatch THEN "topic_mismatch" ELSE "capacity_limited", w)
                               : w \in S} <=> x \in refs
    OBVIOUS
  <2> HIDE DEF refs, mismatch, S
  <2>2. QED
    BY <2>1
<1>4. made' = out /\ Diagnose(SetStage(Reject(Begun("prefilter", fail), refs), "triaged", out), fail, TRUE)
  <2> HIDE DEF refs, mismatch, R
  <2>1. QED
    BY <1>2, <1>3
<1> HIDE DEF refs, mismatch
<1>5. ~blurred /\ fail = "none"
  BY <1>4 DEF Diagnose
<1>6. tracker' = v /\ event' = v
  BY <1>4, <1>5 DEF Diagnose, Begun
<1>7. Tells(Loaded, 4, checkpoint) /\ Loaded \in Trackers
  BY <1>1, <1>5, LoadedTells
<1>8. /\ Distinct(input) /\ Distinct(out) /\ input = checkpoint[3]
      /\ Distinct(S) /\ S \subseteq Item /\ S = input \ out /\ out \subseteq input
      /\ \A w \in S : why[w] \in Whys
  <2>1. Distinct(input)
    BY <1>5 DEF TellInv
  <2>2. R \subseteq input /\ kept \subseteq R
    BY DEF Research
  <2>3. out \subseteq input /\ S = input \ out /\ S \subseteq input
    <3> HIDE DEF R
    <3>1. QED
      BY <2>2
  <2>4. input \subseteq Item
    BY InputItems DEF Items
  <2>5. \A w \in S : why[w] \in Whys
    BY DEF Whys, LeftOut
  <2> HIDE DEF S, out, R
  <2>6. QED
    BY <1>1, <2>1, <2>3, <2>4, <2>5, PartIsDistinct DEF input
<1> HIDE DEF S, out, why
<1>9. /\ refs \subseteq Refs
      /\ \A l : /\ IsFiniteSet(RefsOfLane(refs, l))
                /\ Cardinality(RefsOfLane(refs, l)) = Cardinality(OfLane(S, l))
  <2>1. S \subseteq Item /\ Distinct(S) /\ \A w \in S : why[w] \in Whys
    BY <1>8
  <2>2. /\ refs \subseteq Refs
        /\ \A l : /\ IsFiniteSet(RefsOfLane(refs, l))
                  /\ Cardinality(RefsOfLane(refs, l)) = Cardinality(OfLane(S, l))
                  /\ Cardinality(OfLane(S, l)) \in Nat
    BY <2>1, OwnRefsCounted DEF refs
  <2>3. QED
    BY <2>2
<1>10. /\ Same(u, Loaded, {"prefilter"}, {})
       /\ \A l \in Lanes : u.by["prefilter"][l] = Cardinality(RefsOfLane(refs, l))
  <2>1. "prefilter" \in OwnerStages
    BY DEF OwnerStages
  <2>2. QED
    BY <1>7, <1>9, <2>1, OwnedStage
<1> HIDE DEF u
<1>11. /\ Same(v, u, {}, {"triaged"}) /\ v.by = u.by
       /\ \A l \in Lanes : v.counts["triaged"][l] = Least(Before(u, "triaged")[l], CountOf(out, l))
  <2>1. u \in Trackers /\ IsFiniteSet(out) /\ "triaged" \in Counted
    BY <1>8, <1>10 DEF Same, Distinct, Counted
  <2>2. QED
    BY <2>1, SetStageFacts
<1> HIDE DEF v
<1>12. Same(v, Loaded, {"prefilter"}, {"triaged"}) /\ v.counts["deduplicated"] = Before(u, "triaged")
  BY <1>10, <1>11 DEF Same, Before, Counted
<1>13. Tells(v, 4, checkpoint)
  <2>1. Owned(4) = "prefilter" /\ FieldOf(4) = "triaged"
    BY DEF Owned, FieldOf
  <2> HIDE DEF Same, Tells
  <2>2. QED
    BY <1>7, <1>12, <2>1, SameTells
<1>14. PrefilterTold(v, input, out)
  <2>1. \A l \in Lanes : v.by["prefilter"][l] = Cardinality(Lost(input, out, l))
    BY <1>8, <1>9, <1>10, <1>11, LostFacts
  <2>2. QED
    BY <1>11, <1>12, <2>1 DEF PrefilterTold
<1>15. HandedOn'[3] = input /\ HandedOn'[4] = out /\ \A i \in 1..2 : HandedOn'[i] = checkpoint[i]
  BY <1>1, <1>4, <1>8 DEF HandedOn, TypeInv
<1>16. Tells(v, 5, HandedOn')
  <2> HIDE DEF HandedOn
  <2>1. QED
    BY <1>13, <1>14, <1>15 DEF Tells
<1>17. QED
  BY <1>1, <1>4, <1>5, <1>6, <1>8, <1>13, <1>16, StageTells

\* shortlist tells of the research it was given.
LEMMA ShortlistTells ==
    ASSUME TypeInv, TypeInv', TellInv, Shortlist
    PROVE  TellInv'
<1>1. /\ at = "work" /\ at' = "save" /\ stage = 6
      /\ UNCHANGED <<stage, checkpoint, todo, policy, lanes>>
  BY StageNames DEF Shortlist, Doing, ToSave, TypeInv
<1> SUFFICES ASSUME ~blurred' PROVE TellInv'
  BY DEF TellInv
<1>2. PICK fail \in DiagnosticsFail, chosen \in SUBSET input :
         LET refs == UNION {OwnRefs("capacity_limited", w) : w \in Research(input) \ chosen}
         IN  /\ made' = chosen
             /\ Diagnose(Reject(Begun("shortlist", fail), refs), fail, TRUE)
  BY DEF Shortlist
<1> DEFINE S == Research(input) \ chosen
           why == [w \in S |-> "capacity_limited"]
           refs == UNION {OwnRefs(why[w], w) : w \in S}
           v == Reject(BeginStage(Loaded, "shortlist"), refs)
<1>3. UNION {OwnRefs("capacity_limited", w) : w \in S} = refs
  <2>1. \A x : x \in UNION {OwnRefs("capacity_limited", w) : w \in S} <=> x \in refs
    OBVIOUS
  <2> HIDE DEF refs, S
  <2>2. QED
    BY <2>1
<1>4. made' = chosen /\ Diagnose(Reject(Begun("shortlist", fail), refs), fail, TRUE)
  <2> HIDE DEF refs
  <2>1. QED
    BY <1>2, <1>3
<1> HIDE DEF refs
<1>5. ~blurred /\ fail = "none"
  BY <1>4 DEF Diagnose
<1>6. tracker' = v /\ event' = v
  BY <1>4, <1>5 DEF Diagnose, Begun
<1>7. Tells(Loaded, 6, checkpoint) /\ Loaded \in Trackers
  BY <1>1, <1>5, LoadedTells
<1>8. /\ Distinct(input) /\ Distinct(chosen) /\ input = checkpoint[5]
      /\ Distinct(S) /\ S \subseteq Item
      /\ \A w \in S : why[w] \in Whys
  <2>1. Distinct(input)
    BY <1>5 DEF TellInv
  <2>2. S \subseteq input
    BY DEF Research
  <2>3. input \subseteq Item
    BY InputItems DEF Items
  <2>4. \A w \in S : why[w] \in Whys
    BY DEF Whys, LeftOut
  <2> HIDE DEF S
  <2>5. QED
    BY <1>1, <2>1, <2>2, <2>3, <2>4, PartIsDistinct DEF input
<1>9. \A l : Research(Lost(input, chosen, l)) = OfLane(S, l)
  <2>1. \A l : Lost(input, chosen, l) = OfLane(input \ chosen, l)
    BY <1>8, LostFacts
  <2>2. QED
    BY <2>1 DEF Research, OfLane
<1> HIDE DEF S, why
<1>10. /\ refs \subseteq Refs
       /\ \A l : /\ IsFiniteSet(RefsOfLane(refs, l))
                 /\ Cardinality(RefsOfLane(refs, l)) = Cardinality(OfLane(S, l))
  <2>1. S \subseteq Item /\ Distinct(S) /\ \A w \in S : why[w] \in Whys
    BY <1>8
  <2>2. /\ refs \subseteq Refs
        /\ \A l : /\ IsFiniteSet(RefsOfLane(refs, l))
                  /\ Cardinality(RefsOfLane(refs, l)) = Cardinality(OfLane(S, l))
                  /\ Cardinality(OfLane(S, l)) \in Nat
    BY <2>1, OwnRefsCounted DEF refs
  <2>3. QED
    BY <2>2
<1>11. /\ Same(v, Loaded, {"shortlist"}, {})
       /\ \A l \in Lanes : v.by["shortlist"][l] = Cardinality(RefsOfLane(refs, l))
  <2>1. "shortlist" \in OwnerStages
    BY DEF OwnerStages
  <2>2. QED
    BY <1>7, <1>10, <2>1, OwnedStage
<1> HIDE DEF v
<1>12. Tells(v, 6, checkpoint)
  <2>1. Owned(6) = "shortlist" /\ Same(v, Loaded, {"shortlist"}, {FieldOf(6)})
    BY <1>11 DEF Owned, Same
  <2> HIDE DEF Same, Tells
  <2>2. QED
    BY <1>7, <2>1, SameTells
<1>13. ShortlistTold(v, input, chosen)
  BY <1>9, <1>10, <1>11 DEF ShortlistTold
<1>14. HandedOn'[5] = input /\ HandedOn'[6] = chosen /\ \A i \in 1..4 : HandedOn'[i] = checkpoint[i]
  BY <1>1, <1>4, <1>8 DEF HandedOn, TypeInv
<1>15. Tells(v, 7, HandedOn')
  <2>1. /\ HandedOn'[1] = checkpoint[1] /\ HandedOn'[2] = checkpoint[2]
        /\ HandedOn'[3] = checkpoint[3] /\ HandedOn'[4] = checkpoint[4]
        /\ HandedOn'[5] = input /\ HandedOn'[6] = chosen /\ input = checkpoint[5]
    BY <1>8, <1>14
  <2> HIDE DEF HandedOn
  <2>2. /\ v \in Trackers /\ NormalizeTold(v, checkpoint[1], checkpoint[2])
        /\ PrefilterTold(v, checkpoint[3], checkpoint[4])
        /\ AssessTold(v, checkpoint[4], input)
    BY <1>12, <2>1 DEF Tells
  <2>3. QED
    BY <1>13, <2>1, <2>2 DEF Tells
<1>16. QED
  BY <1>1, <1>4, <1>5, <1>6, <1>8, <1>12, <1>15, StageTells

\* enrich has no diagnostics of its own.
LEMMA EnrichTells ==
    ASSUME TypeInv, TypeInv', TellInv, Enrich
    PROVE  TellInv'
<1>1. /\ at = "work" /\ at' = "save" /\ stage = 3
      /\ UNCHANGED <<stage, checkpoint, todo, lanes, tracker, event, blurred>>
  BY StageNames DEF Enrich, Doing, ToSave, TypeInv
<1> SUFFICES ASSUME ~blurred' PROVE TellInv'
  BY DEF TellInv
<1>2. Distinct(input) /\ UNCHANGED input
  BY <1>1 DEF TellInv, input
<1>3. Distinct(made')
  <2> DEFINE S == {v \in Research(input) : CachedAt(v) # {}}
             f == [w \in S |-> [w EXCEPT !.fit = (CHOOSE c \in CachedAt(w) : TRUE).fit]]
  <2>1. made' = {f[w] : w \in S} \/ made' = input
    BY DEF Enrich
  <2>2. Distinct(S) /\ S \subseteq Item
    <3>1. S \subseteq input /\ input \subseteq Item
      BY InputItems DEF Research, Items
    <3> HIDE DEF S
    <3>2. QED
      BY <1>2, <3>1, PartIsDistinct
  <2>3. \A w \in S : f[w].work = w.work
    BY <2>2 DEF Item
  <2>4. f = [w \in S |-> f[w]]
    OBVIOUS
  <2> HIDE DEF S, f
  <2>5. QED
    BY <1>2, <2>1, <2>2, <2>3, <2>4, ImageIsDistinct
<1>4. \A t : Tells(t, 3, checkpoint) => Tells(t, 4, HandedOn')
  <2>1. HandedOn'[1] = checkpoint[1] /\ HandedOn'[2] = checkpoint[2]
    BY <1>1 DEF HandedOn, TypeInv
  <2> HIDE DEF HandedOn
  <2>2. QED
    BY <2>1 DEF Tells
<1>5. QED
  BY <1>1, <1>2, <1>3, <1>4 DEF TellInv

\* A work that is assessed goes from those to do to those made.
LEMMA OneMade ==
    ASSUME Halfway, Distinct(input), Distinct(made), Distinct(todo), NEW w \in todo, NEW x,
           x.work = w.work,
           made' = made \cup {x}, todo' = todo \ {w}, UNCHANGED <<input, tracker>>
    PROVE  Halfway' /\ Distinct(made') /\ Distinct(todo')
<1>1. IsFiniteSet(made) /\ Distinct(todo')
  BY PartIsDistinct DEF Distinct
<1>2. Distinct(made')
  <2>1. IsFiniteSet(made')
    BY <1>1, FS_AddElement
  <2>2. QED
    BY <2>1 DEF Distinct, Halfway
<1>3. \A l : Lost(input, made' \cup todo', l) = Lost(input, made \cup todo, l)
  <2>1. \A i : (\E v \in made' \cup todo' : v.work = i.work) <=> (\E v \in made \cup todo : v.work = i.work)
    OBVIOUS
  <2>2. QED
    BY <2>1 DEF Lost
<1>4. \A v \in made', u \in todo' : v.work # u.work
  BY DEF Halfway, Distinct
<1>5. QED
  BY <1>1, <1>2, <1>3, <1>4 DEF Halfway

\* A work that is not assessed is rejected, once.
LEMMA OneRejected ==
    ASSUME Halfway, Distinct(input), Distinct(todo), todo \subseteq Item, NEW w \in todo,
           NEW reason \in Whys, tracker \in Trackers, tracker' = Reject(tracker, OwnRefs(reason, w)),
           todo' = todo \ {w}, UNCHANGED <<input, made>>
    PROVE  Halfway' /\ Distinct(todo') /\ Same(tracker', tracker, {"assess"}, {})
<1> DEFINE refs == OwnRefs(reason, w)
           lost(l) == Lost(input, made \cup todo, l)
<1>1. tracker.active = "assess" /\ w \in input /\ w.work \in Works /\ w.lanes \subseteq Lanes
  BY ItemFacts DEF Halfway
<1>2. refs \subseteq Refs /\ \A r \in refs : <<tracker.active, r>> \notin tracker.rejected
  BY <1>1 DEF OwnRefs, Refs, Halfway
<1>3. ASSUME NEW l
      PROVE  /\ IsFiniteSet(RefsOfLane(refs, l))
             /\ Cardinality(RefsOfLane(refs, l)) = IF l \in w.lanes THEN 1 ELSE 0
  <2>1. CASE l \in w.lanes
    <3> DEFINE r == <<reason, l, w.work, "own">>
    <3>1. RefsOfLane(refs, l) = {r}
      BY <2>1 DEF RefsOfLane, OwnRefs
    <3> HIDE DEF r, refs
    <3>2. IsFiniteSet({r}) /\ Cardinality({r}) = 1
      BY FS_Singleton
    <3>3. QED
      BY <2>1, <3>1, <3>2
  <2>2. CASE l \notin w.lanes
    <3>1. RefsOfLane(refs, l) = {}
      BY <2>2 DEF RefsOfLane, OwnRefs
    <3>2. QED
      BY <2>2, <3>1, FS_EmptySet
  <2>3. QED
    BY <2>1, <2>2
<1> HIDE DEF refs
<1>4. /\ Same(tracker', tracker, {"assess"}, {}) /\ tracker'.active = "assess"
      /\ tracker'.rejected = tracker.rejected \cup {<<"assess", r>> : r \in refs}
      /\ \A l \in Lanes : tracker'.by["assess"][l]
                             = tracker.by["assess"][l] + Cardinality(RefsOfLane(refs, l))
  <2>1. \A l : IsFiniteSet(RefsOfLane(refs, l))
    BY <1>3
  <2>2. /\ Same(Reject(tracker, refs), tracker, {tracker.active}, {})
        /\ Reject(tracker, refs).active = tracker.active
        /\ Reject(tracker, refs).rejected = tracker.rejected \cup {<<tracker.active, r>> : r \in refs}
        /\ \A l \in Lanes : Reject(tracker, refs).by[tracker.active][l]
                               = tracker.by[tracker.active][l] + Cardinality(RefsOfLane(refs, l))
    BY <1>2, <2>1, RejectFacts, Zenon
  <2>3. tracker' = Reject(tracker, refs)
    BY DEF refs
  <2> HIDE DEF Same
  <2>4. QED
    BY <1>1, <2>2, <2>3
<1>5. ASSUME NEW l
      PROVE  /\ IsFiniteSet(lost(l)) /\ w \notin lost(l)
             /\ Lost(input, made \cup todo', l) = IF l \in w.lanes THEN lost(l) \cup {w} ELSE lost(l)
  <2>1. lost(l) \subseteq input /\ w \notin lost(l)
    BY DEF Lost
  <2>2. IsFiniteSet(lost(l))
    BY <2>1, FS_Subset DEF Distinct
  <2>3. \A i \in input : (\E v \in made \cup todo' : v.work = i.work)
                            <=> (i # w /\ \E v \in made \cup todo : v.work = i.work)
    BY <1>1 DEF Halfway, Distinct
  <2>4. Lost(input, made \cup todo', l) = IF l \in w.lanes THEN lost(l) \cup {w} ELSE lost(l)
    BY <1>1, <2>3 DEF Lost
  <2>5. QED
    BY <2>1, <2>2, <2>4
<1>6. ASSUME NEW l \in Lanes
      PROVE  tracker'.by["assess"][l] = Cardinality(Lost(input, made \cup todo', l))
  <2>1. Cardinality(lost(l)) \in Nat /\ tracker.by["assess"][l] = Cardinality(lost(l))
    BY <1>5, FS_CardinalityType DEF Halfway
  <2>2. Cardinality(lost(l) \cup {w}) = Cardinality(lost(l)) + 1
    BY <1>5, FS_AddElement
  <2> HIDE DEF lost
  <2>3. CASE l \in w.lanes
    BY <1>3, <1>4, <1>5, <2>1, <2>2, <2>3
  <2>4. CASE l \notin w.lanes
    <3>1. Lost(input, made \cup todo', l) = lost(l)
      BY <1>5, <2>4
    <3>2. Cardinality(RefsOfLane(refs, l)) = 0
      BY <1>3, <2>4
    <3>3. tracker'.by["assess"][l] = tracker.by["assess"][l] + Cardinality(RefsOfLane(refs, l))
      BY <1>4
    <3>4. QED
      BY <2>1, <3>1, <3>2, <3>3
  <2>5. QED
    BY <2>3, <2>4
<1>7. \A u \in todo', r \in Whys, l \in Lanes :
         <<"assess", <<r, l, u.work, "own">>>> \notin tracker'.rejected
  <2>1. \A u \in todo' : u \in todo /\ u.work # w.work
    BY DEF Distinct
  <2>2. \A r \in refs : r[3] = w.work
    BY DEF refs, OwnRefs
  <2>3. ASSUME NEW u \in todo, u.work # w.work, NEW r \in Whys, NEW l \in Lanes
        PROVE  <<"assess", <<r, l, u.work, "own">>>> \notin tracker'.rejected
    <3> DEFINE q == <<r, l, u.work, "own">>
    <3>1. q \notin refs
      <4>1. q[3] = u.work
        OBVIOUS
      <4> HIDE DEF q
      <4>2. QED
        BY <2>2, <2>3, <4>1
    <3>2. <<"assess", q>> \notin tracker.rejected
      BY DEF Halfway
    <3> HIDE DEF q
    <3>3. <<"assess", q>> \notin {<<"assess", x>> : x \in refs}
      BY <3>1
    <3>4. QED
      BY <1>4, <3>2, <3>3 DEF q
  <2>4. \A u \in todo : u.work # w.work => \A r \in Whys, l \in Lanes :
           <<"assess", <<r, l, u.work, "own">>>> \notin tracker'.rejected
    BY <2>3
  <2>5. QED
    BY <2>1, <2>4, Zenon
<1>8. Distinct(todo')
  BY PartIsDistinct
<1>9. QED
  BY <1>4, <1>6, <1>7, <1>8 DEF Halfway

\* While assess goes from work to work nothing else changes.
LEMMA AssessGoesOn ==
    ASSUME TellInv, ~blurred, stage = 5, at' \in {"next", "paid"},
           UNCHANGED <<stage, checkpoint, lanes, event>>,
           tracker' # NoTracker, Tells(tracker', 5, checkpoint), Halfway', Distinct(made'), Distinct(todo')
    PROVE  TellInv'
<1>1. tracker' \in Trackers /\ UNCHANGED input
  BY DEF Tells, input
<1>2. QED
  BY <1>1 DEF TellInv

LEMMA AssessTells ==
    ASSUME TypeInv, TellInv,
           BeginAssess \/ CachedAssessment \/ OverCapacity \/ PayAssessment \/ Assessed \/ Overclaimed
    PROVE  TellInv'
<1> SUFFICES ASSUME ~blurred' PROVE TellInv'
  BY DEF TellInv
<1>1. /\ stage = 5 /\ at' \in {"next", "paid"}
      /\ UNCHANGED <<stage, checkpoint, input, lanes, event>>
  BY StageNames DEF BeginAssess, CachedAssessment, OverCapacity, PayAssessment, Assessed, Overclaimed,
       Doing, InAssess, Missed, Diagnose, TypeInv, input
<1>2. ~blurred
  <2>1. CASE BeginAssess
    <3>1. PICK fail \in {"none", "load"} : Diagnose(Begun("assess", fail), fail, FALSE)
      BY <2>1 DEF BeginAssess
    <3>2. QED
      BY <3>1 DEF Diagnose
  <2>2. CASE ~BeginAssess
    <3>1. UNCHANGED blurred
      BY <2>2 DEF CachedAssessment, OverCapacity, PayAssessment, Assessed, Overclaimed
    <3>2. QED
      BY <3>1
  <2>3. QED
    BY <2>1, <2>2
<1>3. Distinct(input) /\ Distinct(made) /\ Distinct(todo) /\ todo \subseteq Item /\ input \subseteq Item
  BY <1>2, InputItems DEF TellInv, TypeInv, Items
<1>4. Tells(Loaded, 5, checkpoint) /\ Loaded \in Trackers
  BY <1>1, <1>2, LoadedTells
<1>5. at \in {"next", "paid"} =>
         /\ tracker # NoTracker /\ Halfway /\ Loaded = tracker
         /\ Tells(tracker, 5, checkpoint) /\ tracker \in Trackers
  BY <1>1, <1>2, <1>4, LoadedTells DEF TellInv
<1>6. ASSUME NEW u, Same(u, Loaded, {"assess"}, {})
      PROVE  Tells(u, 5, checkpoint) /\ u # NoTracker /\ u \in Trackers
  <2>1. u \in Trackers /\ u # NoTracker
    BY <1>6, TrackerFacts DEF Same
  <2>2. Owned(5) = "assess" /\ Same(u, Loaded, {"assess"}, {FieldOf(5)})
    BY <1>6 DEF Owned, Same
  <2> HIDE DEF Same, Tells
  <2>3. QED
    BY <1>4, <2>1, <2>2, SameTells
<1>7. CASE BeginAssess
  <2>1. /\ made' = input \ Research(input) /\ todo' = Research(input)
        /\ tracker' = BeginStage(Loaded, "assess")
    BY <1>7 DEF BeginAssess, Diagnose, Begun
  <2>2. /\ Same(tracker', Loaded, {"assess"}, {}) /\ tracker'.active = "assess" /\ tracker'.rejected = {}
        /\ \A l \in Lanes : tracker'.by["assess"][l] = 0
    BY <1>4, <2>1, BeginStageFacts DEF OwnerStages
  <2>3. Research(input) \subseteq input
    BY DEF Research
  <2>4. \A l : Lost(input, made' \cup todo', l) = {}
    BY <2>1, <2>3 DEF Lost
  <2>5. Distinct(made') /\ Distinct(todo')
    BY <1>3, <2>1, <2>3, PartIsDistinct
  <2>6. \A v \in made', w \in todo' : v.work # w.work
    BY <1>3, <2>1, <2>3 DEF Distinct
  <2>7. Halfway'
    BY <1>1, <2>1, <2>2, <2>3, <2>4, <2>6, FS_EmptySet DEF Halfway
  <2>8. QED
    BY <1>1, <1>2, <1>6, <2>2, <2>5, <2>7, AssessGoesOn
<1>8. CASE CachedAssessment
  <2>1. PICK w \in todo : \E c \in CachedAt(w) :
           made' = made \cup {[w EXCEPT !.assessed = c.of]} /\ todo' = todo \ {w}
    BY <1>8 DEF CachedAssessment
  <2>2. PICK c \in CachedAt(w) :
           made' = made \cup {[w EXCEPT !.assessed = c.of]} /\ todo' = todo \ {w}
    BY <2>1
  <2> DEFINE x == [w EXCEPT !.assessed = c.of]
  <2>3. x.work = w.work
    BY <1>3 DEF Item
  <2>4. at = "next" /\ UNCHANGED tracker
    BY <1>8 DEF CachedAssessment
  <2> HIDE DEF x
  <2>5. Halfway' /\ Distinct(made') /\ Distinct(todo')
    BY <1>1, <1>3, <1>5, <2>2, <2>3, <2>4, OneMade DEF x
  <2>6. QED
    BY <1>1, <1>2, <1>5, <2>4, <2>5, AssessGoesOn
<1>9. CASE OverCapacity \/ Overclaimed
  <2>1. PICK w \in todo, reason \in Whys :
           tracker' = Reject(Loaded, OwnRefs(reason, w)) /\ todo' = todo \ {w}
    BY <1>9 DEF OverCapacity, Overclaimed, Whys, LeftOut
  <2>2. at \in {"next", "paid"} /\ UNCHANGED made
    BY <1>9 DEF OverCapacity, Overclaimed, Missed
  <2>3. Halfway' /\ Distinct(todo') /\ Same(tracker', tracker, {"assess"}, {})
    BY <1>1, <1>3, <1>5, <2>1, <2>2, OneRejected
  <2>4. Tells(tracker', 5, checkpoint) /\ tracker' # NoTracker
    BY <1>5, <1>6, <2>2, <2>3
  <2>5. Distinct(made')
    BY <1>3, <2>2
  <2>6. QED
    BY <1>1, <1>2, <2>3, <2>4, <2>5, AssessGoesOn
<1>10. CASE PayAssessment
  <2>1. at = "next" /\ UNCHANGED <<todo, made, tracker>>
    BY <1>10 DEF PayAssessment, Missed
  <2>2. Halfway' /\ Distinct(made') /\ Distinct(todo')
    BY <1>1, <1>3, <1>5, <2>1 DEF Halfway
  <2>3. QED
    BY <1>1, <1>2, <1>5, <2>1, <2>2, AssessGoesOn
<1>11. CASE Assessed
  <2>1. PICK w \in todo :
           made' = made \cup {[w EXCEPT !.assessed = w.evidence]} /\ todo' = todo \ {w}
    BY <1>11 DEF Assessed
  <2> DEFINE x == [w EXCEPT !.assessed = w.evidence]
  <2>2. x.work = w.work
    BY <1>3 DEF Item
  <2>3. at = "paid" /\ UNCHANGED tracker
    BY <1>11 DEF Assessed
  <2> HIDE DEF x
  <2>4. Halfway' /\ Distinct(made') /\ Distinct(todo')
    BY <1>1, <1>3, <1>5, <2>1, <2>2, <2>3, OneMade DEF x
  <2>5. QED
    BY <1>1, <1>2, <1>5, <2>3, <2>4, AssessGoesOn
<1>12. QED
  BY <1>7, <1>8, <1>9, <1>10, <1>11

\* When nothing is left to do, what is rejected is all that is lost.
LEMMA EndAssessTells ==
    ASSUME TypeInv, TypeInv', TellInv, EndAssess
    PROVE  TellInv'
<1>1. /\ at = "next" /\ at' = "save" /\ todo = {} /\ stage = 5
      /\ UNCHANGED <<stage, checkpoint, made, todo, lanes>>
  BY DEF EndAssess, ToSave, TypeInv
<1> SUFFICES ASSUME ~blurred' PROVE TellInv'
  BY DEF TellInv
<1>2. ~blurred /\ tracker' = SetStage(Loaded, "assessed", made) /\ event' = tracker'
  BY DEF EndAssess, Diagnose
<1>3. /\ Distinct(made) /\ Halfway /\ Loaded = tracker
      /\ Tells(tracker, 5, checkpoint) /\ tracker \in Trackers
  BY <1>1, <1>2, LoadedTells DEF TellInv
<1> DEFINE v == SetStage(tracker, "assessed", made)
<1>4. /\ Same(v, tracker, {}, {"assessed"}) /\ v.by = tracker.by
      /\ \A l \in Lanes : v.counts["assessed"][l] = Least(Before(tracker, "assessed")[l], CountOf(made, l))
  <2>1. IsFiniteSet(made) /\ "assessed" \in Counted
    BY <1>3 DEF Distinct, Counted
  <2>2. QED
    BY <1>3, <2>1, SetStageFacts
<1>5. tracker' = v
  BY <1>2, <1>3
<1> HIDE DEF v
<1>6. v.counts["triaged"] = Before(tracker, "assessed")
  BY <1>4 DEF Same, Before, Counted
<1>7. Tells(v, 5, checkpoint)
  <2>1. FieldOf(5) = "assessed" /\ Same(v, tracker, {Owned(5)}, {"assessed"})
    BY <1>4 DEF FieldOf, Same
  <2> HIDE DEF Same, Tells
  <2>2. QED
    BY <1>3, <2>1, SameTells
<1>8. AssessTold(v, input, made)
  <2>1. made \cup todo = made
    BY <1>1
  <2>2. \A l \in Lanes : tracker.by["assess"][l] = Cardinality(Lost(input, made, l))
    BY <1>3, <2>1 DEF Halfway
  <2>3. QED
    BY <1>4, <1>6, <2>2 DEF AssessTold
<1>9. /\ HandedOn'[1] = checkpoint[1] /\ HandedOn'[2] = checkpoint[2]
      /\ HandedOn'[3] = checkpoint[3] /\ HandedOn'[4] = checkpoint[4]
      /\ HandedOn'[5] = made /\ input = checkpoint[4]
  BY <1>1 DEF HandedOn, TypeInv, input
<1>10. Tells(v, 6, HandedOn')
  <2> HIDE DEF HandedOn
  <2>1. QED
    BY <1>7, <1>8, <1>9 DEF Tells
<1>11. QED
  BY <1>1, <1>2, <1>3, <1>5, <1>7, <1>10, StageTells

\* The end of an attempt, an execution or a run leaves what is told as it is.
LEMMA EndTells ==
    ASSUME TypeInv, TellInv, SaveCheckpoint \/ Retry \/ Crash \/ NextRun
    PROVE  TellInv'
<1>1. at' = "work" /\ made' = {} /\ todo' = {} /\ Distinct({})
  BY FS_EmptySet DEF SaveCheckpoint, Retry, Crash, NextRun, Again, Distinct
<1> SUFFICES ASSUME ~blurred' PROVE TellInv'
  BY DEF TellInv
<1>2. CASE SaveCheckpoint
  <2>1. /\ at = "save" /\ stage' = stage + 1 /\ checkpoint' = HandedOn /\ stage \in 1..6
        /\ UNCHANGED <<tracker, lanes, event, blurred>>
    BY <1>2 DEF SaveCheckpoint, isolate, durable, counts, TypeInv, HandedOn
  <2>2. input' = made
    BY <2>1 DEF input, HandedOn, TypeInv
  <2> HIDE DEF HandedOn
  <2>3. QED
    BY <1>1, <2>1, <2>2 DEF TellInv
<1>3. CASE Retry
  <2>1. UNCHANGED <<stage, checkpoint, tracker, lanes, event, blurred>>
    BY <1>3 DEF Retry, isolate, durable, counts
  <2>2. QED
    BY <1>1, <2>1 DEF TellInv, input
<1>4. CASE Crash
  <2>1. /\ UNCHANGED <<stage, checkpoint, event, blurred>> /\ tracker' = NoTracker /\ lanes' = NoLanes
    BY <1>4 DEF Crash, NewIsolate, durable
  <2>2. QED
    BY <1>1, <2>1 DEF TellInv, input
<1>5. CASE NextRun
  <2>1. stage' = 1 /\ input' = {} /\ tracker' = NoTracker /\ lanes' = NoLanes
    BY <1>5 DEF NextRun, NewIsolate, input
  <2>2. QED
    BY <1>1, <2>1 DEF TellInv
<1>6. QED
  BY <1>2, <1>3, <1>4, <1>5

\* When a run whose diagnostics worked is done, the diagnostics recorded of a
\* lane tell what became of its records: the counts are those of the research
\* the checkpoints hold, as far as the lane discovered it, and the rejections of
\* every stage are the records of the lane that it left out, each once, however
\* often stages were retried in the same isolate or begun again in a new one.
THEOREM StagesTellTheRun == Spec => []DiagnosticsTellTheRun
<1>1. Init => TellInv
  <2> SUFFICES ASSUME Init PROVE TellInv
    OBVIOUS
  <2>1. Distinct({}) /\ input = {}
    BY FS_EmptySet DEF Distinct, Init, input
  <2>2. QED
    BY <2>1 DEF Init, TellInv
<1>2. TypeInv /\ TypeInv' /\ TellInv /\ [Next]_vars => TellInv'
  <2> SUFFICES ASSUME TypeInv, TypeInv', TellInv, [Next]_vars PROVE TellInv'
    OBVIOUS
  <2>1. CASE UNCHANGED vars
    <3>1. /\ UNCHANGED <<stage, checkpoint, made, at, todo, tracker, lanes, event, blurred>>
          /\ UNCHANGED <<input, HandedOn>>
      BY <2>1 DEF vars, isolate, durable, counts, input, HandedOn
    <3>2. QED
      BY <3>1 DEF TellInv, Halfway
  <2>2. QED
    BY <2>1, CollectTells, NormalizeTells, EnrichTells, PrefilterTells, ShortlistTells, AssessTells,
       EndAssessTells, EndTells DEF Next
<1>3. TypeInv /\ TellInv => DiagnosticsTellTheRun
  <2> SUFFICES ASSUME TypeInv, TellInv, Stages[stage] = "done", ~blurred,
                      NEW l \in event.known
               PROVE  /\ CountTold(event, "deduplicated", 2, l)
                      /\ CountTold(event, "triaged", 4, l)
                      /\ CountTold(event, "assessed", 5, l)
                      /\ event.by["normalize"][l] = Cardinality(Gone(2, l)) + Cardinality(Joined(l))
                      /\ event.by["prefilter"][l] = Cardinality(Gone(4, l))
                      /\ event.by["assess"][l] = Cardinality(Gone(5, l))
                      /\ event.by["shortlist"][l] = Cardinality(Research(Gone(6, l)))
    BY DEF DiagnosticsTellTheRun
  <2>1. stage = 7
    BY StageNames DEF TypeInv
  <2>2. Tells(event, 7, checkpoint)
    BY <2>1 DEF TellInv
  <2>3. l \in Lanes
    BY <2>2, TrackerFacts DEF Tells
  <2>4. /\ NormalizeTold(event, checkpoint[1], checkpoint[2])
        /\ PrefilterTold(event, checkpoint[3], checkpoint[4])
        /\ AssessTold(event, checkpoint[4], checkpoint[5])
        /\ ShortlistTold(event, checkpoint[5], checkpoint[6])
    BY <2>2 DEF Tells
  <2>5. /\ Gone(2, l) = Lost(checkpoint[1], checkpoint[2], l)
        /\ Gone(4, l) = Lost(checkpoint[3], checkpoint[4], l)
        /\ Gone(5, l) = Lost(checkpoint[4], checkpoint[5], l)
        /\ Gone(6, l) = Lost(checkpoint[5], checkpoint[6], l)
        /\ Joined(l) = JoinedTo(checkpoint[1], l)
    BY DEF Gone, Lost, Joined, JoinedTo
  <2>6. /\ Before(event, "deduplicated") = event.discovered
        /\ Before(event, "triaged") = event.counts["deduplicated"]
        /\ Before(event, "assessed") = event.counts["triaged"]
    BY DEF Before
  <2>7. /\ CountTold(event, "deduplicated", 2, l)
        /\ CountTold(event, "triaged", 4, l)
        /\ CountTold(event, "assessed", 5, l)
    BY <2>3, <2>4, <2>6 DEF CountTold, NormalizeTold, PrefilterTold, AssessTold, Least
  <2>8. QED
    BY <2>3, <2>4, <2>5, <2>7 DEF NormalizeTold, PrefilterTold, AssessTold, ShortlistTold
<1>4. QED
  BY <1>1, <1>2, <1>3, StagesTypeCorrect, PTL DEF Spec
=============================================================================
