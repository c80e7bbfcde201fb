--------------------------- MODULE ResearchStages ---------------------------
(***************************************************************************)
(* Research through the stages of createProductionPipelineContext, for     *)
(* runs of several days: the observations that keep work from being        *)
(* offered again, the cache of paid assessments, and the diagnostics of    *)
(* every discovery lane.  A run is executed in isolates: a stage that      *)
(* throws is retried in the same isolate, a crash resumes the run in a new *)
(* one at the stage whose checkpoint is missing.                           *)
(***************************************************************************)
EXTENDS Integers, FiniteSets

Sets == INSTANCE FiniteSetsExt

CONSTANTS
    Works,          \* canonical identities of papers, commentary and routed articles
    Lanes,          \* discovery lanes
    Offers,         \* the collections a run can make
    Policies,       \* states of the budget
    MaxUncached,    \* MaxUncached[p]: calls of an attempt at assess: 24, 4 and 0
    MaxTriaged,     \* places of triage: 24
    Gaps,           \* days between two runs
    Runs, MaxFaults \* bounds: runs, and faults in all of them

Fresh == 1          \* days a work is fresh: 36 hours
Week  == 7          \* days of reconsideration, of observations and of the cache

ASSUME StagesAssumption ==
    /\ MaxUncached \in [Policies -> Nat]
    /\ MaxTriaged \in Nat /\ Runs \in Nat \ {0} /\ MaxFaults \in Nat
    /\ Gaps \subseteq Nat \ {0}

\* A work stands for the records that share its identity: those of the lanes
\* that found the record it keeps, and those of the lanes of a record joined
\* into it.  It is research, an article routed to the news, or left out by
\* normalize for a reason, or one that collect cannot prepare.
Fits == {"high", "low"}
Evidences == 1 .. 2
LeftOut == {"quality_rejected", "route_excluded", "capacity_limited"}
Routes  == {"research", "news", "unprepared"} \cup LeftOut

\* A collection: works with an age in days, not yet assessed, and how many
\* candidates each lane counted, with those that its collector joined.
ASSUME OffersAssumption ==
    Offers \subseteq [works : SUBSET [work : Works, published : Nat, evidence : Evidences,
                                     lanes : SUBSET Lanes, merged : SUBSET Lanes, route : Routes,
                                     fit : Fits, assessed : {0}],
                     discovered : [Lanes -> Nat]]
ASSUME OfferedOnce ==
    \A offer \in Offers :
        /\ IsFiniteSet(offer.works)
        /\ \A v, w \in offer.works : v.work = w.work => v = w

Stages      == <<"collect", "normalize", "enrich", "prefilter", "assess", "shortlist", "done">>
OwnerStages == {"normalize", "prefilter", "assess", "shortlist"}
Counted     == {"deduplicated", "triaged", "assessed"}

VARIABLES
    run, day,       \* the current run and the day it was started
    stage,          \* index in Stages of the first stage without a checkpoint
    checkpoint,     \* checkpoint[i]: what stage i has handed on
    made,           \* what the attempt at the stage has made so far
    at, todo,       \* where the attempt is, and the works it has still to assess
    calls,          \* uncachedCalls of the attempt
    policy,         \* the state of the budget of this execution
    tracker,        \* DiscoveryDiagnosticsTracker of this isolate, or NoTracker
    lanes,          \* discoveryDiagnostics of this isolate, or NoLanes
    event,          \* the diagnostics of the run in D1, or NoTracker
    observed,       \* discovery_observations
    cache,          \* research_assessment_cache
    paid,           \* paid[w, e]: assessments paid for evidence e of w
    excused,        \* excused[w, e]: those that could not be kept or found
    blurred,        \* a diagnostics call of the run failed
    faults

durable == <<observed, cache, event>>
isolate == <<policy, tracker, lanes>>
counts  == <<paid, excused, blurred>>
vars == <<run, day, stage, checkpoint, made, at, todo, calls, isolate, durable, counts, faults>>

offered == checkpoint[1]
input   == IF stage = 1 THEN {} ELSE checkpoint[stage - 1]

Research(works) == {w \in works : w.route = "research"}

----------------------------------------------------------------------------
(* The tracker: counts of the stages by lane, and rejections by the stage    *)
(* that owns them, here added up over the reasons.                           *)
NoLanes   == <<>>
NoTracker == [known |-> {}, discovered |-> <<>>, counts |-> <<>>, by |-> <<>>,
              active |-> "none", rejected |-> {}]
NoCounts  == [l \in Lanes |-> 0]
Tracker(known, discovered) ==
    [known |-> known, discovered |-> discovered,
     counts |-> [f \in Counted |-> NoCounts],
     by |-> [s \in OwnerStages |-> NoCounts], active |-> "normalize", rejected |-> {}]

\* The first use in an isolate takes the lanes of its own collection, or
\* else what the run has recorded.
Loaded == IF tracker # NoTracker THEN tracker
          ELSE IF lanes # NoLanes THEN Tracker(Lanes, lanes)
          ELSE IF event # NoTracker
          THEN [event EXCEPT !.active = "normalize", !.rejected = {}]
          ELSE Tracker({}, NoCounts)

\* A stage that is done again counts its rejections from nothing; without that ...
KeepCounts(t, s) == [t EXCEPT !.active = s, !.rejected = {}]
BeginStage(t, s) == [t EXCEPT !.active = s, !.by[s] = NoCounts, !.rejected = {}]

\* The refs of a work: of the record it keeps, and of the one joined into it.
OwnRefs(reason, w)    == {<<reason, l, w.work, "own">> : l \in w.lanes}
JoinedRefs(reason, w) == {<<reason, l, w.work, "joined">> : l \in w.merged}
RefsOfLane(refs, l)   == {r \in refs : r[2] = l}

\* A ref counts once for a reason in a stage, and not if its lane is unknown.
Reject(t, refs) ==
    LET new == {r \in refs : r[2] \in t.known /\ <<t.active, r>> \notin t.rejected}
    IN  [t EXCEPT !.rejected = @ \cup {<<t.active, r>> : r \in new},
                  !.by[t.active] = [l \in Lanes |-> @[l] + Cardinality(RefsOfLane(new, l))]]

\* A stage counts the research of every lane, whichever of its records the
\* lane has found, and no more than the stage before.
CountOf(works, l) == Cardinality({w \in Research(works) : l \in w.lanes \cup w.merged})
Before(t, field) ==
    CASE field = "deduplicated" -> t.discovered
      [] field = "triaged"      -> t.counts["deduplicated"]
      [] field = "assessed"     -> t.counts["triaged"]
SetStage(t, field, works) ==
    [t EXCEPT !.counts[field] =
        [l \in Lanes |-> IF l \in t.known THEN Sets!Min({Before(t, field)[l], CountOf(works, l)})
                         ELSE 0]]

(* A stage loads the tracker, begins, rejects and records.  A load that fails *)
(* skips the beginning, and a record that fails leaves the event as it was.   *)
DiagnosticsFail == {"none", "load", "record"}
Begun(s, fail) == IF fail = "load" THEN Loaded ELSE BeginStage(Loaded, s)
Diagnose(t, fail, records) ==
    /\ fail = "load" => tracker = NoTracker
    /\ tracker' = t
    /\ event' = IF records /\ fail # "record" THEN t ELSE event
    /\ blurred' = (blurred \/ fail # "none")
    /\ faults' = faults + (IF fail = "none" THEN 0 ELSE 1)
    /\ faults' <= MaxFaults

----------------------------------------------------------------------------
(* Observations and windows. *)
Age(w) == day - w.published
\* A run does not count its own observations; otherwise ...
AllObservations   == {o \in observed : o.day >= day - Week}
PriorObservations == {o \in observed : o.day >= day - Week /\ o.run # run}

Seen(prior, w) == \E o \in prior : o.work = w.work /\ o.evidence = w.evidence
Decision(prior, w) ==
    CASE Age(w) < 0 \/ Age(w) > Week -> "out_of_window"
      [] Age(w) \in 0 .. Fresh       -> "fresh"
      [] OTHER -> IF Seen(prior, w) THEN "unchanged_observation" ELSE "reconsideration"

Upserted(works) ==
    LET own == {[run |-> run, day |-> day, work |-> w.work, evidence |-> w.evidence] : w \in works}
    IN  own \cup {o \in observed : ~\E n \in own :
                     o.run = n.run /\ o.work = n.work /\ o.evidence = n.evidence}

(* The cache is keyed by the work and its evidence, whatever lane found it;  *)
(* with a key of the work alone, or of the lane too ...                      *)
KeyOfWork(w) == <<w.work>>
KeyWithLane(w) == <<w.work, w.evidence, w.lanes>>
CacheKey(w) == <<w.work, w.evidence>>
CachedAt(w) == {c \in cache : c.key = CacheKey(w) /\ c.until > day}
Put(w, of) == {c \in cache : c.key # CacheKey(w)}
              \cup {[key |-> CacheKey(w), of |-> of, fit |-> w.fit, until |-> day + Week]}

----------------------------------------------------------------------------
Init ==
    /\ run = 1 /\ day = Week + 1 /\ stage = 1
    /\ checkpoint = [i \in 1 .. 6 |-> {}] /\ made = {} /\ at = "work" /\ todo = {} /\ calls = 0
    /\ policy \in Policies /\ tracker = NoTracker /\ lanes = NoLanes
    /\ observed = {} /\ cache = {} /\ event = NoTracker
    /\ paid = [k \in Works \X Evidences |-> 0] /\ excused = paid
    /\ blurred = FALSE /\ faults = 0

Doing(s) == Stages[stage] = s /\ at = "work"
ToSave   == at' = "save" /\ UNCHANGED <<run, day, stage, checkpoint, todo, policy>>
Unpaid   == UNCHANGED <<calls, cache, paid, excused>>

\* The collection replaces the lanes of the isolate; the tracker it already has
\* stays.  What cannot be prepared is rejected before normalize begins.
Collect ==
    /\ Doing("collect")
    /\ \E offer \in Offers, fail \in DiagnosticsFail :
          LET unprepared == {w \in offer.works : w.route = "unprepared"}
              refs == UNION {OwnRefs("quality_rejected", w) : w \in unprepared}
              t == IF tracker # NoTracker THEN tracker ELSE Tracker(Lanes, lanes')
          IN  /\ made' = {[w EXCEPT !.published = day - @] : w \in offer.works \ unprepared}
              /\ lanes' = offer.discovered
              /\ Diagnose(Reject(t, refs), fail, TRUE)
    /\ UNCHANGED observed /\ ToSave /\ Unpaid

\* What normalize leaves out it rejects for its reason.  A record joined into a
\* work is rejected with the work that is left out before the records are
\* joined, and as identity_merged otherwise.
Selected(prior) ==
    {w \in input : w.route \in {"research", "news"} /\ Decision(prior, w) \in {"fresh", "reconsideration"}}
WhyLeftOut(prior, w) == IF w.route \in LeftOut THEN w.route ELSE Decision(prior, w)
WhyJoined(prior, w) ==
    IF w.route = "research" \/ w \in Selected(prior) THEN "identity_merged" ELSE WhyLeftOut(prior, w)
NormalizeRefs(prior) ==
    (UNION {OwnRefs(WhyLeftOut(prior, w), w) : w \in input \ Selected(prior)})
      \cup (UNION {JoinedRefs(WhyJoined(prior, w), w) : w \in input})
Normalize ==
    /\ Doing("normalize")
    /\ \E prior \in {PriorObservations, {}}, fail \in DiagnosticsFail :
          LET t == Reject(Begun("normalize", fail), NormalizeRefs(prior))
          IN  /\ made' = Selected(prior)
              /\ observed' = Upserted(Selected(prior))
              /\ Diagnose(SetStage(t, "deduplicated", Selected(prior)), fail, TRUE)
    /\ UNCHANGED lanes /\ ToSave /\ Unpaid

\* In hard stop only research with a cached fit goes on; nothing is embedded.
Enrich ==
    /\ Doing("enrich")
    /\ made' = IF policy = "hard_stop"
               THEN {[w EXCEPT !.fit = (CHOOSE c \in CachedAt(w) : TRUE).fit] :
                        w \in {v \in Research(input) : CachedAt(v) # {}}}
               ELSE input
    /\ UNCHANGED <<observed, event, tracker, lanes, blurred, faults>> /\ ToSave /\ Unpaid

\* The news of the input pass prefilter and assess by.
Prefilter ==
    /\ Doing("prefilter")
    /\ \E fail \in DiagnosticsFail, kept \in SUBSET {w \in Research(input) : w.fit = "high"} :
          LET mismatch == {w \in Research(input) : w.fit # "high"}
              why(w) == IF w \in mismatch THEN "topic_mismatch" ELSE "capacity_limited"
              refs == UNION {OwnRefs(why(w), w) : w \in Research(input) \ kept}
          IN  /\ Cardinality(kept) = Sets!Min({MaxTriaged, Cardinality(Research(input) \ mismatch)})
              /\ made' = kept \cup (input \ Research(input))
              /\ Diagnose(SetStage(Reject(Begun("prefilter", fail), refs), "triaged", made'), fail, TRUE)
    /\ UNCHANGED <<observed, lanes>> /\ ToSave /\ Unpaid

----------------------------------------------------------------------------
(* Assess takes one work after the other. *)
InAssess == UNCHANGED <<run, day, stage, checkpoint, policy, lanes, observed>>
Key(w)   == <<w.work, w.evidence>>
AtWork(w) == todo # {} /\ w = CHOOSE v \in todo : \A u \in todo : v.work <= u.work

BeginAssess ==
    /\ Doing("assess") /\ at' = "next"
    /\ todo' = Research(input) /\ calls' = 0 /\ made' = input \ Research(input)
    /\ \E fail \in {"none", "load"} : Diagnose(Begun("assess", fail), fail, FALSE)
    /\ UNCHANGED <<cache, paid, excused>> /\ InAssess

\* A hit is written back, which keeps it for another week, or that fails.
CachedAssessment ==
    /\ at = "next"
    /\ \E w \in todo : AtWork(w) /\ \E c \in CachedAt(w) :
          /\ made' = made \cup {[w EXCEPT !.assessed = c.of]}
          /\ todo' = todo \ {w}
          /\ cache' \in {Put(w, c.of), cache}
    /\ UNCHANGED <<at, calls, tracker, event, paid, excused, blurred, faults>> /\ InAssess

\* No entry, or one that has expired or cannot be read: the attempt pays for
\* an assessment or has none left.
Missed(w, unread) ==
    /\ at = "next" /\ AtWork(w)
    /\ IF unread THEN CachedAt(w) # {} /\ faults < MaxFaults ELSE CachedAt(w) = {}
    /\ faults' = faults + (IF unread THEN 1 ELSE 0)
OverCapacity ==
    /\ calls >= MaxUncached[policy]
    /\ \E w \in todo, unread \in BOOLEAN :
          /\ Missed(w, unread)
          /\ todo' = todo \ {w} /\ tracker' = Reject(Loaded, OwnRefs("capacity_limited", w))
    /\ UNCHANGED <<at, made, calls, event, cache, paid, excused, blurred>> /\ InAssess
PayAssessment ==
    /\ calls < MaxUncached[policy]
    /\ \E w \in todo, unread \in BOOLEAN :
          /\ Missed(w, unread)
          /\ paid' = [paid EXCEPT ![Key(w)] = @ + 1]
          /\ excused' = IF unread \/ \E c \in cache : c.key = CacheKey(w) /\ c.until <= day
                        THEN [excused EXCEPT ![Key(w)] = @ + 1] ELSE excused
    /\ at' = "paid" /\ calls' = calls + 1
    /\ UNCHANGED <<todo, made, tracker, event, cache, blurred>> /\ InAssess

\* The answer is cached, or that fails; an answer that claims to have read
\* more than it was given is thrown away with its work.
Assessed ==
    /\ at = "paid" /\ at' = "next"
    /\ \E w \in todo :
          /\ AtWork(w) /\ todo' = todo \ {w}
          /\ \/ /\ made' = made \cup {[w EXCEPT !.assessed = w.evidence]}
                /\ cache' = Put(w, w.evidence)
                /\ UNCHANGED <<excused, faults>>
             \/ /\ faults < MaxFaults /\ faults' = faults + 1
                /\ made' = made \cup {[w EXCEPT !.assessed = w.evidence]}
                /\ excused' = [excused EXCEPT ![Key(w)] = @ + 1]
                /\ UNCHANGED cache
    /\ UNCHANGED <<calls, tracker, event, paid, blurred>> /\ InAssess
Overclaimed ==
    /\ at = "paid" /\ at' = "next"
    /\ \E w \in todo :
          /\ AtWork(w) /\ todo' = todo \ {w}
          /\ tracker' = Reject(Loaded, OwnRefs("quality_rejected", w))
          /\ excused' = [excused EXCEPT ![Key(w)] = @ + 1]
    /\ UNCHANGED <<calls, made, event, cache, paid, blurred, faults>> /\ InAssess

EndAssess ==
    /\ at = "next" /\ todo = {}
    /\ \E fail \in {"none", "record"} : Diagnose(SetStage(Loaded, "assessed", made), fail, TRUE)
    /\ UNCHANGED <<made, lanes, observed>> /\ ToSave /\ Unpaid

Shortlist ==
    /\ Doing("shortlist")
    /\ \E fail \in DiagnosticsFail, chosen \in SUBSET input :
          LET refs == UNION {OwnRefs("capacity_limited", w) : w \in Research(input) \ chosen}
          IN  /\ made' = chosen
              /\ Diagnose(Reject(Begun("shortlist", fail), refs), fail, TRUE)
    /\ UNCHANGED <<observed, lanes>> /\ ToSave /\ Unpaid

----------------------------------------------------------------------------
(* The end of an attempt, of an execution and of a run. *)
Again == at' = "work" /\ made' = {} /\ todo' = {} /\ calls' = 0

SaveCheckpoint ==
    /\ at = "save" /\ Again
    /\ stage' = stage + 1 /\ checkpoint' = [checkpoint EXCEPT ![stage] = made]
    /\ UNCHANGED <<run, day, isolate, durable, counts, faults>>

\* The checkpoint or the provider fails: the step is tried again.
Retry ==
    /\ at \in {"next", "save"} /\ faults < MaxFaults /\ Again
    /\ faults' = faults + 1
    /\ UNCHANGED <<run, day, stage, checkpoint, isolate, durable, counts>>

NewIsolate ==
    /\ policy' \in Policies /\ tracker' = NoTracker /\ lanes' = NoLanes
    /\ excused' = [k \in DOMAIN excused |->
                      excused[k] + (IF at = "paid" /\ \E w \in todo : AtWork(w) /\ Key(w) = k
                                    THEN 1 ELSE 0)]
Crash ==
    /\ Stages[stage] # "done" /\ faults < MaxFaults /\ Again /\ NewIsolate
    /\ faults' = faults + 1
    /\ UNCHANGED <<run, day, stage, checkpoint, durable, paid, blurred>>

\* The run of a later day, after this one has ended or been given up.
NextRun ==
    /\ run < Runs /\ Again /\ NewIsolate
    /\ IF Stages[stage] = "done" THEN UNCHANGED faults
       ELSE faults < MaxFaults /\ faults' = faults + 1
    /\ run' = run + 1 /\ day' \in {day + g : g \in Gaps}
    /\ stage' = 1 /\ checkpoint' = [i \in 1 .. 6 |-> {}] /\ event' = NoTracker /\ blurred' = FALSE
    /\ UNCHANGED <<observed, cache, paid>>

Next ==
    \/ Collect \/ Normalize \/ Enrich \/ Prefilter
    \/ BeginAssess \/ CachedAssessment \/ OverCapacity \/ PayAssessment \/ Assessed
    \/ Overclaimed \/ EndAssess
    \/ Shortlist \/ SaveCheckpoint \/ Retry \/ Crash \/ NextRun

Spec == Init /\ [][Next]_vars

----------------------------------------------------------------------------
(* Properties. *)

(* A run never suppresses its own work: what it collects within the window   *)
(* and no other run has observed is offered to triage, however often         *)
(* normalize is repeated.                                                    *)
NewWorkIsSelected ==
    Stages[stage] = "enrich" =>
        \A w \in offered :
            /\ w.route \in {"research", "news"}
            /\ Age(w) \in 0 .. Week
            /\ ~\E o \in observed : o.run # run /\ o.work = w.work
            => w \in input

(* The same evidence is paid for once, unless the payment could not be kept: *)
(* its answer was lost or refused, or its entry was unreadable or expired.   *)
PaidOnce == \A k \in DOMAIN paid : paid[k] <= 1 + excused[k]

(* An assessment is of the evidence the work has now, of whichever run it is.*)
AssessmentsAreCurrent == \A w \in made \cup input : w.assessed \in {0, w.evidence}

(* When a run whose diagnostics worked is done, what is recorded of a lane   *)
(* tells what became of its records, from the checkpoints alone and however  *)
(* often stages were repeated, in the same isolate or a new one: the counts  *)
(* are those of the research the stages handed on, as far as the lane has    *)
(* discovered it, and the rejections of a stage are the records it left out, *)
(* each once; in normalize those that were joined into others too.           *)
Gone(s, l) == {w \in checkpoint[s - 1] : l \in w.lanes /\ ~\E v \in checkpoint[s] : v.work = w.work}
Joined(l)  == {w \in checkpoint[1] : l \in w.merged}
CountTold(t, field, s, l) ==
    t.counts[field][l] = Sets!Min({Before(t, field)[l], CountOf(checkpoint[s], l)})
DiagnosticsTellTheRun ==
    Stages[stage] = "done" /\ ~blurred =>
        \A l \in event.known :
            /\ CountTold(event, "deduplicated", 2, l)
            /\ CountTold(event, "triaged", 4, l)
            /\ CountTold(event, "assessed", 5, l)
            /\ event.by["normalize"][l] = Cardinality(Gone(2, l)) + Cardinality(Joined(l))
            /\ event.by["prefilter"][l] = Cardinality(Gone(4, l))
            /\ event.by["assess"][l] = Cardinality(Gone(5, l))
            /\ event.by["shortlist"][l] = Cardinality(Research(Gone(6, l)))
=============================================================================
