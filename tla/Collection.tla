----------------------------- MODULE Collection -----------------------------
(***************************************************************************)
(* collectCandidates: the catalog is read, the lanes of the three          *)
(* collectors run and settle each on its own, the papers found by several  *)
(* lanes of a provider are merged and enriched, and what became of every   *)
(* source is written to its row, which an administrator may be editing.    *)
(***************************************************************************)
EXTENDS Integers, Sequences, FiniteSets

Sets == INSTANCE FiniteSetsExt

CONSTANTS
    ByName,         \* the ids of sources, in the order of listSources
    PublicIds,      \* those of the shape that labels and outcomes accept
    Pinned,         \* news sources with an endpoint of their own: gdelt, polymarket
    PapersWithCode, \* the publication source that is no blog
    Reviewed,       \* those whose page is read by a profile of its own
    LanesOf,        \* LanesOf[s]: lanes of a research source
    Workers,        \* Workers[s]: RESEARCH_PROVIDER_LANE_POLICIES
    Enrichers,      \* the research sources that enrich, in their order
    Finds,          \* Finds[s]: what a lane of s may answer, sets of papers or entries
    Kinds,          \* failures of a fetch
    MaxNames,       \* authors of a paper: 64
    MaxLabels,      \* MAX_SOURCE_FAILURE_LABELS: 64
    Catalogs,       \* the catalogs to begin with
    Sent,           \* rows an administrator may create, [id, row]
    Changes,        \* changes an administrator may send, [source, fields]
    MaxEdits, MaxAttempts   \* bounds: edits, and attempts at the collection

Sources  == {ByName[i] : i \in DOMAIN ByName}
Research == DOMAIN LanesOf

ASSUME CollectionAssumption ==
    /\ Workers \in [Research -> Nat \ {0}]
    /\ LanesOf \in [Research -> 0 .. 64]     \* DISCOVERY_DIAGNOSTIC_LIMIT
    /\ Research \subseteq PublicIds /\ PublicIds \subseteq Sources
    /\ ByName \in Seq(Sources) /\ Enrichers \in Seq(Research)
    /\ Kinds \cap {"waiting", "running", "reading", "success"} = {}
    /\ MaxAttempts \in Nat

\* The id that stands for those of another shape is not the id of a source.
ASSUME PublicIdAssumption == "unknown-source" \notin PublicIds

\* The entries of an answer are told apart, and no paper has two arXiv ids.
ASSUME FindsAssumption ==
    \A s \in Research : \A es \in Finds[s] :
        /\ IsFiniteSet(es)
        /\ \A p \in es : p.id \in Nat /\ \A x, y \in p.arxiv : x = y
        /\ \A p, q \in es : p.id = q.id => p = q

(* The columns of a row.  The schema of a source wants a URL, so that a row  *)
(* without one is no row; and no input changes what is measured.             *)
NoRow   == [enabled |-> FALSE, url |-> "none"]
Columns == {"url", "enabled", "role", "sections", "via", "config", "health", "success"}
Measured == {"health", "success"}       \* columns that no administrator writes
IsRow(r) == DOMAIN r = Columns /\ r.url # "none"

ASSUME RowsAssumption ==
    /\ \A c \in Catalogs : DOMAIN c = Sources /\ \A s \in Sources : c[s] = NoRow \/ IsRow(c[s])
    /\ \A new \in Sent : new.id \in Sources /\ IsRow(new.row)
    /\ \A c \in Changes :
          /\ c.source \in Sources /\ DOMAIN c.fields \subseteq Columns \ Measured
          /\ "url" \in DOMAIN c.fields => c.fields["url"] # "none"

VARIABLES
    catalog,        \* the table sources; NoRow for an id without a row
    editing,        \* the calls of updateSource that have read their row
    edits,
    phase,          \* idle, collecting, recording, done, thrown
    attempt,
    polled,         \* the catalog as collectCandidates has read it
    lane,           \* operation |-> waiting, running, reading, success or a kind
    found,          \* operation |-> what it has found
    paper,          \* the research collector: lanes, enriching, ready
    candidates,     \* its papers, merged
    enricher,       \* index of the enricher at work
    failed,         \* enrichers that have failed
    rejected,       \* papers dropped for their title
    recorded,       \* how many rows of polled have been written
    labels          \* the source failures of the run

table == <<catalog, editing, edits>>
papers == <<paper, candidates, enricher, failed, rejected>>
vars == <<table, phase, attempt, polled, lane, found, papers, recorded, labels>>

----------------------------------------------------------------------------
(* The catalog. *)
Exists(s) == catalog[s].url # "none"

NewsSections == {"morning_brief", "world", "technology", "ai_policy", "dmv", "baltimore", "forecast"}
EligibleSections == {"research", "research_radar", "technology", "ai_policy"}

Operation(by, s, n) == [by |-> by, source |-> s, no |-> n]
NewsOperations(c) ==
    {Operation("news", s, 1) : s \in {t \in Sources :
        c[t].enabled /\ c[t].role # "blog" /\ c[t].sections \cap NewsSections # {}}}
PublicationOperations(c) ==
    {Operation("publication", s, 1) : s \in {t \in Sources :
        /\ c[t].enabled /\ c[t].sections \cap EligibleSections # {}
        /\ t = PapersWithCode \/ c[t].role = "blog"}}
ResearchOperations(c) ==
    UNION {{Operation("research", s, n) : n \in 1 .. LanesOf[s]} : s \in {t \in Research : c[t].enabled}}
Operations(c) == NewsOperations(c) \cup PublicationOperations(c) \cup ResearchOperations(c)

(* A source that is configured wrongly has an operation that fails.  A URL   *)
(* off its policy is found by the constructor of a news page, whose failure  *)
(* becomes a SyntaxError, and for a feed only when it is fetched.            *)
ConfigFailure(op) ==
    LET row == polled[op.source]
        unusable == \/ row.config = "malformed"
                    \/ row.via \notin {"rss", "page", "api"}
                    \/ row.via = "api" /\ op.by = "publication"
        unpinned == \/ op.by = "publication" \/ row.via = "rss"
                    \/ row.via = "api" /\ op.source \in Pinned
    IN  IF op.by = "research" THEN "none"
        ELSE IF unusable THEN "parse"
        ELSE IF row.config # "unpinned" THEN "none"
        ELSE IF unpinned THEN "policy" ELSE "parse"

----------------------------------------------------------------------------
(* Entries of a feed or a page: on is a link within the policy of articles,  *)
(* and age counts days.                                                      *)
Undated == -1
Entry(id, on, title, age) == [id |-> id, on |-> on, title |-> title, age |-> age]
Window == [news |-> 1, publication |-> 7]       \* 36 hours, and a week

Interpretable(e) == e.on /\ e.title
FeedItems(op, es) == {e \in es : Interpretable(e) /\ e.age <= Window[op.by]}
PageItems(op, es) == {e \in es : Interpretable(e) /\ e.age \in 0 .. Window[op.by]}

OfFeed(op) == op.by # "research" /\ polled[op.source].via = "rss"
Listed(op, es) == CASE op.by = "research" -> es
                    [] OfFeed(op)         -> FeedItems(op, es)
                    [] OTHER              -> PageItems(op, es)
\* A feed none of whose entries can be interpreted has changed, and so has a
\* page whose profile finds no entry; any other page is taken to be quiet.
GarbledFeed(op, es) == OfFeed(op) /\ es # {} /\ ~\E e \in es : Interpretable(e)
GarbledPage(op, es) ==
    /\ op.by = "publication" /\ ~OfFeed(op) /\ op.source \in Reviewed
    /\ es # {} /\ ~\E e \in es : e.title
Garbled(op, es) == GarbledFeed(op, es) \/ GarbledPage(op, es)
ReadsArticles(op) == op.by = "news" \/ (op.by = "publication" /\ ~OfFeed(op))

----------------------------------------------------------------------------
(* Papers of several lanes. *)
SamePaper(l, r) ==
    \/ l.arxiv \cap r.arxiv # {}
    \/ /\ l.arxiv = {} \/ r.arxiv = {}
       /\ \/ l.doi \cap r.doi # {}
          \/ /\ l.doi = {} \/ r.doi = {}
             /\ \/ l.own \cap r.own # {}
                \/ (l.own = {} \/ r.own = {}) /\ l.id = r.id
MergedIds(p, s) ==
    [p EXCEPT !.arxiv = @ \cup s.arxiv, !.doi = @ \cup s.doi, !.own = @ \cup s.own,
              !.names = @ \cup s.names]
Merged(p, s) ==
    [p EXCEPT !.arxiv = @ \cup s.arxiv, !.doi = @ \cup s.doi, !.own = @ \cup s.own,
              !.names = @ \cup s.names, !.lanes = @ \cup s.lanes]

(* A paper stays where its first item stood.  The first that the n-th item   *)
(* matches takes the others, the last of them first, as long as they are     *)
(* still the same paper; otherwise ...                                       *)
JoinAll(rep, c) == TRUE
Join(rep, c) == SamePaper(rep, c)
Taken(acc, c, i) ==
    IF Join(acc.rep, c) THEN [rep |-> Merged(acc.rep, c), gone |-> acc.gone \cup {i}] ELSE acc
MergeInto(merged, n, item) ==
    LET matches == {i \in DOMAIN merged : SamePaper(merged[i], item)}
        first   == CHOOSE i \in matches : \A j \in matches : i <= j
        taking[i \in first + 1 .. n] ==
            IF i = n THEN [rep |-> Merged(merged[first], item), gone |-> {}]
            ELSE IF i \in matches THEN Taken(taking[i + 1], merged[i], i) ELSE taking[i + 1]
        all == taking[first + 1]
    IN  IF matches = {} THEN [i \in DOMAIN merged \cup {n} |-> IF i = n THEN item ELSE merged[i]]
        ELSE [i \in DOMAIN merged \ all.gone |-> IF i = first THEN all.rep ELSE merged[i]]

\* The finds of the lanes of s, by lane and in a lane the newest first.
Item(p, op) ==
    [id |-> p.id, arxiv |-> p.arxiv, doi |-> p.doi, own |-> p.own, names |-> p.names,
     title |-> p.title, source |-> op.source, lanes |-> {op.no}, enriched |-> {}]
Healthy(s) == {op \in DOMAIN lane : op.by = "research" /\ op.source = s /\ lane[op] = "success"}
Items(s) == UNION {{Item(p, op) : p \in found[op]} : op \in Healthy(s)}
ComesFirst(x, y) ==
    \E m \in x.lanes, n \in y.lanes : m < n \/ (m = n /\ x.id < y.id)
Place(x, all)  == Cardinality({y \in all : ComesFirst(y, x)}) + 1
Discovered(all) == [i \in 1 .. Cardinality(all) |-> CHOOSE x \in all : Place(x, all) = i]

MergePapers(items) ==
    LET merging[n \in 0 .. Len(items)] ==
            IF n = 0 THEN <<>> ELSE MergeInto(merging[n - 1], n, items[n])
        merged == merging[Len(items)]
    IN  {merged[i] : i \in DOMAIN merged}

----------------------------------------------------------------------------
Init ==
    /\ catalog \in Catalogs /\ editing = {} /\ edits = 0
    /\ phase = "idle" /\ attempt = 0 /\ polled = catalog
    /\ lane = <<>> /\ found = <<>>
    /\ paper = "lanes" /\ candidates = {} /\ enricher = 1 /\ failed = {} /\ rejected = {}
    /\ recorded = 0 /\ labels = {}

NoPapers == paper' = "lanes" /\ candidates' = {} /\ enricher' = 1 /\ failed' = {} /\ rejected' = {}

\* The collectors are made from the catalog; what is not scheduled starts.
Begin ==
    /\ phase \in {"idle", "thrown"} /\ attempt < MaxAttempts
    /\ phase' = "collecting" /\ attempt' = attempt + 1 /\ polled' = catalog
    /\ lane' = [op \in Operations(catalog) |-> IF op.by = "research" THEN "waiting" ELSE "running"]
    /\ found' = [op \in Operations(catalog) |-> {}]
    /\ NoPapers /\ recorded' = 0
    /\ UNCHANGED <<table, labels>>

Active == {"running", "reading"}
Open   == {"waiting"} \cup Active
InLane == phase = "collecting" /\ UNCHANGED <<table, phase, attempt, polled, papers, recorded, labels>>

(* A worker of the provider takes the next lane; without the release of its  *)
(* worker a lane that has ended would still count.                           *)
UsedWorkers(s) == {op \in DOMAIN lane : op.by = "research" /\ op.source = s /\ lane[op] # "waiting"}
BusyWorkers(s) == {op \in DOMAIN lane : op.by = "research" /\ op.source = s /\ lane[op] = "running"}
StartLane ==
    /\ InLane
    /\ \E op \in DOMAIN lane :
          /\ lane[op] = "waiting"
          /\ ~\E o \in DOMAIN lane : o.source = op.source /\ lane[o] = "waiting" /\ o.no < op.no
          /\ Cardinality(BusyWorkers(op.source)) < Workers[op.source]
          /\ lane' = [lane EXCEPT ![op] = "running"]
    /\ UNCHANGED found

\* The answer of a provider, or its failure; the articles of a listing are still to be read.
SettleLane ==
    /\ InLane
    /\ \E op \in DOMAIN lane :
          /\ lane[op] = "running"
          /\ \/ /\ ConfigFailure(op) # "none"
                /\ lane' = [lane EXCEPT ![op] = ConfigFailure(op)] /\ UNCHANGED found
             \/ /\ ConfigFailure(op) = "none"
                /\ \E k \in Kinds : lane' = [lane EXCEPT ![op] = k]
                /\ UNCHANGED found
             \/ /\ ConfigFailure(op) = "none"
                /\ \E es \in Finds[op.source] :
                      /\ found' = [found EXCEPT ![op] = IF Garbled(op, es) THEN {} ELSE Listed(op, es)]
                      /\ lane' = [lane EXCEPT ![op] = IF Garbled(op, es) THEN "parse"
                                     ELSE IF ReadsArticles(op) THEN "reading" ELSE "success"]

\* Those whose pages do not lead off the policy of their source.
KeptArticles(op) == SUBSET found[op]

(* An article that leads off the policy of its source is dropped; one that   *)
(* cannot be read stays with what the listing says.  News whose articles do  *)
(* not parse has failed, and so has a page with an article that is no page.  *)
ReadArticles ==
    /\ InLane
    /\ \E op \in DOMAIN lane :
          /\ lane[op] = "reading"
          /\ \/ /\ lane' = [lane EXCEPT ![op] = "success"]
                /\ \E kept \in KeptArticles(op) : found' = [found EXCEPT ![op] = kept]
             \/ /\ lane' = [lane EXCEPT ![op] = IF op.by = "news" THEN "parse" ELSE "unsupported_media"]
                /\ found[op] # {} /\ found' = [found EXCEPT ![op] = {}]

----------------------------------------------------------------------------
(* The research collector goes on when its lanes have settled. *)
ResearchLanes == {op \in DOMAIN lane : op.by = "research"}
InResearch == phase = "collecting" /\ UNCHANGED <<table, attempt, polled, lane, found, recorded, labels>>
Enriching(i) == polled[Enrichers[i]].enabled
Upcoming == {i \in enricher .. Len(Enrichers) : Enriching(i)}

\* A paper with more names than a candidate may have fails the collection.
Merge ==
    /\ paper = "lanes" /\ \A op \in ResearchLanes : lane[op] \notin Open
    /\ InResearch
    /\ candidates' = UNION {MergePapers(Discovered(Items(s))) : s \in Research \cap Sources}
    /\ paper' = "enriching"
    /\ phase' = IF \E c \in candidates' : Cardinality(c.names) > MaxNames
                THEN "thrown" ELSE phase
    /\ UNCHANGED <<enricher, failed, rejected>>

\* A failed enricher leaves the papers as they were.
Enrich ==
    /\ paper = "enriching" /\ InResearch
    /\ \E next \in Upcoming :
          /\ \A i \in Upcoming : next <= i
          /\ enricher' = next + 1
          /\ \/ /\ candidates' = {[c EXCEPT !.enriched = @ \cup {Enrichers[next]}] : c \in candidates}
                /\ UNCHANGED failed
             \/ /\ \E k \in Kinds : failed' = failed \cup {<<Enrichers[next], k>>}
                /\ UNCHANGED candidates
    /\ UNCHANGED <<phase, paper, rejected>>

\* Papers without a usable title are dropped and counted for their lanes.
Prepare ==
    /\ paper = "enriching" /\ Upcoming = {}
    /\ InResearch /\ paper' = "ready"
    /\ candidates' = {c \in candidates : c.title}
    /\ rejected' = {c \in candidates : ~c.title}
    /\ UNCHANGED <<phase, enricher, failed>>

----------------------------------------------------------------------------
(* What became of the sources. *)
Failures  == {<<op.source, lane[op]>> : op \in {o \in DOMAIN lane : lane[o] \notin Open \cup {"success"}}}
             \cup failed
Succeeded == {op.source : op \in {o \in DOMAIN lane : lane[o] = "success"}}
             \cup ({Enrichers[i] : i \in {j \in 1 .. enricher - 1 : Enriching(j)}} \ {f[1] : f \in failed})
PublicId(s) == IF s \in PublicIds THEN s ELSE "unknown-source"
FailedIds   == {PublicId(f[1]) : f \in Failures}

Settled ==
    /\ phase = "collecting" /\ paper = "ready" /\ \A op \in DOMAIN lane : lane[op] \notin Open
    /\ phase' = "recording"
    /\ UNCHANGED <<table, attempt, polled, lane, found, papers, recorded, labels>>

(* A failure counts before a success of the same source; and the other way   *)
(* round.                                                                    *)
SuccessFirst(s) == IF s \in Succeeded THEN "success" ELSE IF s \in FailedIds THEN "failure" ELSE "none"
Outcome(s) == IF s \in FailedIds THEN "failure" ELSE IF s \in Succeeded THEN "success" ELSE "none"

\* recordSourceOutcome writes two columns; written with the row of the snapshot it would ...
WholeRow(s, o) ==
    [polled[s] EXCEPT !.success = IF o = "success" THEN attempt ELSE @,
        !.health = IF o = "success" THEN "healthy"
                   ELSE IF @ \in {"degraded", "failing"} THEN "failing" ELSE "degraded"]
OutcomeRow(s, o) ==
    [catalog[s] EXCEPT !.success = IF o = "success" THEN attempt ELSE @,
        !.health = IF o = "success" THEN "healthy"
                   ELSE IF @ \in {"degraded", "failing"} THEN "failing" ELSE "degraded"]
RecordSourceOutcome ==
    /\ phase = "recording" /\ recorded < Len(ByName)
    /\ recorded' = recorded + 1
    /\ LET s == ByName[recorded + 1]
       IN  catalog' = IF polled[s].url = "none" \/ Outcome(s) = "none" THEN catalog
                      ELSE [catalog EXCEPT ![s] = OutcomeRow(s, Outcome(s))]
    /\ UNCHANGED <<editing, edits, phase, attempt, polled, lane, found, papers, labels>>

SaveCollectionSourceFailures ==
    /\ phase = "recording" /\ recorded = Len(ByName)
    /\ phase' = "done"
    /\ LET all == {<<PublicId(f[1]), f[2]>> : f \in Failures}
       IN  \E l \in Sets!kSubset(Sets!Min({MaxLabels, Cardinality(all)}), all) : labels' = l
    /\ UNCHANGED <<table, attempt, polled, lane, found, papers, recorded>>

\* The isolate or D1 fails; the step is tried again from the catalog.
Fail ==
    /\ phase \in {"collecting", "recording"} /\ attempt < MaxAttempts
    /\ phase' = "thrown" /\ lane' = <<>> /\ found' = <<>> /\ recorded' = 0
    /\ NoPapers
    /\ UNCHANGED <<table, attempt, polled, labels>>

----------------------------------------------------------------------------
(* The administrator. *)
InTable == UNCHANGED <<phase, attempt, polled, lane, found, papers, recorded, labels>>
UrlTaken(url, s) == \E t \in Sources \ {s} : catalog[t].url = url

CreateSource ==
    /\ edits < MaxEdits /\ edits' = edits + 1
    /\ \E new \in Sent :
          /\ ~Exists(new.id) /\ ~UrlTaken(new.row.url, new.id)
          /\ catalog' = [catalog EXCEPT ![new.id] = new.row]
    /\ InTable /\ UNCHANGED editing

\* updateSource reads the row, and writes the merged row but for what is measured.
ReadRow ==
    /\ edits < MaxEdits /\ edits' = edits + 1
    /\ \E c \in Changes :
          /\ Exists(c.source)
          /\ editing' = editing \cup {[source |-> c.source, row |-> [f \in DOMAIN catalog[c.source] |->
                 IF f \in DOMAIN c.fields THEN c.fields[f] ELSE catalog[c.source][f]]]}
    /\ InTable /\ UNCHANGED catalog

UpdatedRow(s, row) == [f \in DOMAIN row |-> IF f \in Measured THEN catalog[s][f] ELSE row[f]]
WriteRow ==
    /\ \E e \in editing :
          /\ editing' = editing \ {e}
          /\ catalog' = IF UrlTaken(e.row.url, e.source) THEN catalog
                        ELSE [catalog EXCEPT ![e.source] = UpdatedRow(e.source, e.row)]
    /\ InTable /\ UNCHANGED edits

Next ==
    \/ Begin \/ StartLane \/ SettleLane \/ ReadArticles \/ Merge \/ Enrich \/ Prepare \/ Settled
    \/ RecordSourceOutcome \/ SaveCollectionSourceFailures \/ Fail
    \/ CreateSource \/ ReadRow \/ WriteRow

(* Every request ends, with an answer or at the deadline of the HTTP client. *)
Fairness == WF_vars(StartLane) /\ WF_vars(SettleLane) /\ WF_vars(ReadArticles)
Spec == Init /\ [][Next]_vars /\ Fairness

----------------------------------------------------------------------------
(* What a healthy lane has found reaches the candidates under the lane's     *)
(* name, whatever became of the other lanes and of the enrichers: merged     *)
(* with its other finds, or counted as rejected for its title.               *)
HealthyLanesAreKept ==
    paper = "ready" =>
        \A op \in {o \in ResearchLanes : lane[o] = "success"} : \A p \in found[op] :
            \E c \in candidates \cup rejected :
                /\ c.source = op.source /\ op.no \in c.lanes
                /\ p.arxiv \subseteq c.arxiv /\ p.doi \subseteq c.doi /\ p.own \subseteq c.own

(* Papers that arXiv tells apart are not made one by a third that resembles  *)
(* both.                                                                     *)
PapersAreNotConflated == \A c \in candidates : Cardinality(c.arxiv) <= 1

(* After the outcomes are written, the row of a source that was polled is    *)
(* healthy if all its lanes and its enricher succeeded and not healthy if    *)
(* any failed, whatever an administrator has written in between.             *)
SourcesTellTheTruth ==
    phase = "done" =>
        \A s \in PublicIds :
            /\ (\E f \in Failures : f[1] = s) => catalog[s].health \in {"degraded", "failing"}
            /\ s \in Succeeded /\ (~\E f \in Failures : f[1] = s) =>
                   catalog[s].health = "healthy" /\ catalog[s].success = attempt

(* A source that was disabled during the collection stays so, unless another *)
(* update had read its row before.                                           *)
DisabledStaysDisabled ==
    [][\A s \in Sources :
          Exists(s) /\ ~catalog[s].enabled /\ catalog'[s].enabled =>
              \E e \in editing : e.source = s /\ e.row.enabled]_vars
=============================================================================
