----------------------------- MODULE EditionStore ----------------------------
(***************************************************************************)
(* The items and editions of several dates in D1, the runs that write      *)
(* them, the reader's feedback on items and the retention that removes     *)
(* what has grown old.  Time is counted in days; a run has the date it is  *)
(* for as its id.  What happens inside a run is PipelineRun's subject.     *)
(***************************************************************************)
EXTENDS Naturals

CONSTANTS Dates,            \* the dates of editions
          Items,            \* the ids of items
          RunKeep,          \* days until the row of a run is removed: 90
          CandidateKeep,    \* days from its retrieval until an item expires: 90
          MaxDay            \* bound on the days

\* The proof that what a run has stored outlives the run needs the second part.
ASSUME KeepAssumption ==
    /\ Dates \subseteq Nat \ {0} /\ MaxDay \in Nat
    /\ RunKeep \in Nat \ {0} /\ CandidateKeep \in Nat \ {0}
    /\ RunKeep <= CandidateKeep

VARIABLES
    day,
    row,        \* row[d]: the run of d with its checkpoints
    phase,      \* phase[d]: what its Workflow instance is doing
    kept,       \* kept[d]: the day from which the id of the instance is free
    until,      \* until[i]: the day item i expires, 0 if there is no item i
    by,         \* by[i]: history, the last run that wrote item i, or 0
    edition,    \* edition[d]: its status and the items of its entries
    feedback    \* the items with feedback

vars == <<day, row, phase, kept, until, by, edition, feedback>>

RunStatus == {"none", "pending", "running", "retryable", "partial", "failed",
              "published"}

\* stage 1 is the collect checkpoint, of items retrieved on a day; stage 2 is
\* the normalize checkpoint on top of it.
Row == [status : RunStatus, created : Nat, stage : 0..2,
        got : SUBSET Items, on : Nat]

NoRow == [status |-> "none", created |-> 0, stage |-> 0, got |-> {}, on |-> 0]

Visible(e) == e.status \in {"partial", "published"}
Present(i) == until[i] > 0
Referenced == UNION {edition[d].entries : d \in Dates}

\* The variables take their values in these sets.
TypeOK ==
    /\ day \in Nat
    /\ row \in [Dates -> Row]
    /\ phase \in [Dates -> {"off", "run", "wrote", "done"}]
    /\ kept \in [Dates -> Nat]
    /\ until \in [Items -> Nat]
    /\ by \in [Items -> Dates \cup {0}]
    /\ edition \in [Dates -> [status : {"none", "draft", "partial", "published"},
                              entries : SUBSET Items]]
    /\ feedback \subseteq Items

Init ==
    /\ day = 0
    /\ row = [d \in Dates |-> NoRow]
    /\ phase = [d \in Dates |-> "off"]
    /\ kept = [d \in Dates |-> 0]
    /\ until = [i \in Items |-> 0]
    /\ by = [i \in Items |-> 0]
    /\ edition = [d \in Dates |-> [status |-> "none", entries |-> {}]]
    /\ feedback = {}

----------------------------------------------------------------------------
(* The runs. *)

\* An instance ends; the engine keeps its id as long as the row is kept.
Ends(d) ==
    /\ phase' = [phase EXCEPT ![d] = "off"]
    /\ kept' = [kept EXCEPT ![d] = day + RunKeep]

\* A start inserts the row of a date without one.  When the engine still has
\* an instance of that id, it creates none and the row stays pending.
Start(d) ==
    /\ row[d].status = "none" /\ phase[d] = "off"
    /\ LET free == day >= kept[d]
       IN  /\ row' = [row EXCEPT ![d] =
                [NoRow EXCEPT !.status = IF free THEN "running" ELSE "pending",
                              !.created = day]]
           /\ phase' = [phase EXCEPT ![d] = IF free THEN "run" ELSE "off"]
    /\ UNCHANGED <<day, kept, until, by, edition, feedback>>

\* A run resumes from its checkpoints; the repair of a composed one starts over.
Resume(d) ==
    /\ row[d].status \in {"retryable", "partial", "failed"} /\ phase[d] = "off"
    /\ row' = [row EXCEPT ![d] =
            IF @.status = "retryable" THEN [@ EXCEPT !.status = "running"]
            ELSE [NoRow EXCEPT !.status = "running", !.created = row[d].created]]
    /\ phase' = [phase EXCEPT ![d] = "run"]
    /\ UNCHANGED <<day, kept, until, by, edition, feedback>>

\* The collect checkpoint.  Like every checkpoint it refers to the row.
Collect(d) ==
    /\ phase[d] = "run" /\ row[d].status # "none" /\ row[d].stage = 0
    /\ \E found \in SUBSET Items \ {{}} :
          row' = [row EXCEPT ![d] = [@ EXCEPT !.stage = 1, !.got = found,
                                              !.on = day]]
    /\ UNCHANGED <<day, phase, kept, until, by, edition, feedback>>

\* The expiry of the items a run has written: candidateExpiry of the day they
\* were retrieved, whatever another run has given them.  An insert that left
\* the items that are there alone ...
ExpiryOfNew(r) == [i \in Items |-> IF i \in r.got /\ ~ Present(i)
                                  THEN r.on + CandidateKeep ELSE until[i]]

\* ... and the upsert of the code.  The earlier expiry that the metadata of a
\* candidate may name is left out: nothing that collects sets one.
ExpiryAfter(r) == [i \in Items |-> IF i \in r.got THEN r.on + CandidateKeep
                                   ELSE until[i]]

\* upsertItems ...
Upsert(d) ==
    /\ phase[d] = "run" /\ row[d].status # "none" /\ row[d].stage = 1
    /\ until' = ExpiryAfter(row[d])
    /\ by' = [i \in Items |-> IF i \in row[d].got THEN d ELSE by[i]]
    /\ phase' = [phase EXCEPT ![d] = "wrote"]
    /\ UNCHANGED <<day, row, kept, edition, feedback>>

\* ... and then the normalize checkpoint.
Normalize(d) ==
    /\ phase[d] = "wrote" /\ row[d].status # "none"
    /\ row' = [row EXCEPT ![d].stage = 2]
    /\ phase' = [phase EXCEPT ![d] = "run"]
    /\ UNCHANGED <<day, kept, until, by, edition, feedback>>

\* persistEdition: what becomes of the edition e when a composition of these
\* entries has the outcome; without the guard on drafts ...
OverwrittenBy(e, entries, outcome) ==
    [status |-> IF outcome = "failed" THEN "draft" ELSE outcome,
     entries |-> entries]

\* ... and as it is: a draft leaves a visible edition alone.
PersistedOver(e, entries, outcome) ==
    IF outcome = "failed" /\ Visible(e) THEN e
    ELSE OverwrittenBy(e, entries, outcome)

\* The edition is composed of normalized items, written in one batch and
\* recorded in the row.  The batch fails when an entry has no item to refer to.
Publish(d) ==
    /\ phase[d] = "run" /\ row[d].status # "none" /\ row[d].stage = 2
    /\ \E entries \in SUBSET row[d].got, outcome \in {"partial", "published", "failed"} :
          /\ outcome # "failed" => entries # {}
          /\ \A i \in entries : Present(i)
          /\ edition' = [edition EXCEPT ![d] = PersistedOver(@, entries, outcome)]
          /\ row' = [row EXCEPT ![d].status = outcome]
          /\ IF outcome = "failed" THEN Ends(d)
             ELSE phase' = [phase EXCEPT ![d] = "done"] /\ UNCHANGED kept
    /\ UNCHANGED <<day, until, by, feedback>>

\* A run fails at any stage, for whatever reason; so does each of its writes
\* once retention has removed its row.
Fail(d) ==
    /\ phase[d] \in {"run", "wrote"}
    /\ row' = IF row[d].status = "none" THEN row
              ELSE [row EXCEPT ![d].status = "retryable"]
    /\ Ends(d)
    /\ UNCHANGED <<day, until, by, edition, feedback>>

----------------------------------------------------------------------------
(* Retention. *)

Expired(i) == Present(i) /\ until[i] <= day

\* The items retention deletes; without regard to entries, to feedback ...
PrunableEntries  == {i \in Items : Expired(i) /\ i \notin feedback}
PrunableFeedback == {i \in Items : Expired(i) /\ i \notin Referenced}

\* ... and as it is.  The guard on summaries adds nothing to that on entries:
\* persistEdition writes and deletes the summary of an entry with the entry.
Prunable == {i \in Items : Expired(i) /\ i \notin Referenced /\ i \notin feedback}

OldRow(r) == r.status # "none" /\ r.created + RunKeep <= day

\* pruneExpiredData, one batch, after a visible edition.  An item takes its
\* feedback with it; an entry forbids to delete its item, and nothing is done.
\* The checkpoints of a row are lost with it: their link to the run is cleared.
Prune(d) ==
    /\ phase[d] = "done"
    /\ LET allowed == Prunable \cap Referenced = {}
       IN  /\ until' = [i \in Items |-> IF allowed /\ i \in Prunable THEN 0
                                        ELSE until[i]]
           /\ feedback' = IF allowed THEN feedback \ Prunable ELSE feedback
           /\ row' = [e \in Dates |-> IF allowed /\ OldRow(row[e]) THEN NoRow
                                      ELSE row[e]]
    /\ Ends(d)
    /\ UNCHANGED <<day, by, edition>>

----------------------------------------------------------------------------
(* The reader and time. *)

\* A reader rates an item of an edition on the page.  recordFeedback looks the
\* item up before it inserts, and the insert needs the item again.
Rate(i) ==
    /\ \E d \in Dates : Visible(edition[d]) /\ i \in edition[d].entries
    /\ Present(i) /\ i \notin feedback
    /\ feedback' = feedback \cup {i}
    /\ UNCHANGED <<day, row, phase, kept, until, by, edition>>

Undo(i) ==
    /\ i \in feedback
    /\ feedback' = feedback \ {i}
    /\ UNCHANGED <<day, row, phase, kept, until, by, edition>>

\* An execution is over within hours: its stages are bounded by timeouts.
NextDay ==
    /\ day < MaxDay
    /\ \A d \in Dates : phase[d] = "off"
    /\ day' = day + 1
    /\ UNCHANGED <<row, phase, kept, until, by, edition, feedback>>

Next ==
    \/ \E d \in Dates :
          \/ Start(d) \/ Resume(d) \/ Collect(d) \/ Upsert(d)
          \/ Normalize(d) \/ Publish(d) \/ Fail(d) \/ Prune(d)
    \/ \E i \in Items : Rate(i) \/ Undo(i)
    \/ NextDay

Spec == Init /\ [][Next]_vars

----------------------------------------------------------------------------
(* Properties. *)

\* A run that can go on from its normalize checkpoint finds the items it stored:
\* retention never removes them before the run, unless another run has written
\* them since, whose own retrieval may be older.
NormalizedItemsRemain ==
    \A d \in Dates : row[d].stage = 2 =>
        \A i \in row[d].got : by[i] = d => Present(i)

\* Retention is never blocked by what still refers to an item: when it is over,
\* no run is left that has reached its age.
RetentionKeepsUp ==
    [][\A d \in Dates : phase[d] = "done" /\ phase'[d] = "off" =>
          \A e \in Dates : ~ OldRow(row'[e])]_vars

\* The reader's feedback goes only when it is undone, never with its item.
FeedbackIsKept ==
    [][\A i \in feedback \ feedback' : until'[i] = until[i]]_vars

\* The date of the latest edition readers are shown never goes back.
LatestOnlyAdvances ==
    [][\A d \in Dates : Visible(edition[d]) =>
          \E e \in Dates : e >= d /\ Visible(edition'[e])]_vars
=============================================================================
