---------------------------- MODULE PipelineRun ----------------------------
(***************************************************************************)
(* One editorial run: DailyBriefingWorkflow.run and runEditorialPipeline   *)
(* over the run row, the checkpoints and the edition of one date in D1.    *)
(*                                                                         *)
(* The body of run() (pc) is replayed from its start when the isolate is   *)
(* evicted, and started anew when the instance is restarted.  Each         *)
(* pipeline stage is an operation inside step.do: it is retried when it    *)
(* throws, its completion is remembered by the Workflows engine (cached),  *)
(* and an attempt that timed out goes on running beside its retry.  Every  *)
(* D1 call is a step of its own, so that a crash, an error or the timed-   *)
(* out attempt can fall between any two of them.                           *)
(*                                                                         *)
(* Items are abstracted to the collection they come from, a number, and to *)
(* the status composeEdition gives the summaries written from them.        *)
(***************************************************************************)
EXTENDS Integers, Sequences

CONSTANTS
    NSteps,         \* stages; the last two are compose and publish
    MaxVersions,    \* bound: collections made; a further one throws
    MaxRetries,     \* retries.limit of step.do
    MaxFaults,      \* bound: crashes, timeouts and D1 errors
    Faults          \* the faults considered, a subset of FaultKinds

FaultKinds == {"d1", "crash", "timeout"}

ASSUME PipelineAssumption ==
    /\ NSteps \in Nat /\ NSteps >= 5
    /\ MaxVersions \in Nat /\ MaxRetries \in Nat /\ MaxFaults \in Nat
    /\ Faults \subseteq FaultKinds

Steps     == 1..NSteps
Collect   == 1
Normalize == 2
Validate  == NSteps - 2
Compose   == NSteps - 1
Publish   == NSteps

VARIABLES
    row,        \* the workflow_runs row: [status, step, retryable]
    saved,      \* saved[s]: the checkpoint artifacts of stage s by rowid
    edition,    \* the editions row: [status, of]
    versions,   \* number of collections made so far
    inst,       \* the Workflow instance
    cached,     \* cached[s]: step.do of stage s has completed
    pc,         \* where the body of run() is
    seen,       \* the run row the body last read
    doomed,     \* doomed[s]: selected rows of stage s still to be deleted
    value,      \* the output of the last checkpoint the body awaited and uses
    att,        \* att[w]: the attempt awaited (main) and the timed-out one (late)
    tries,      \* retries used for the current step.do
    faults,     \* faults that happened
    prompt      \* no attempt of this behaviour outlives its timeout

vars == <<row, saved, edition, versions, inst, cached, pc, seen, doomed,
          value, att, tries, faults, prompt>>

----------------------------------------------------------------------------
(* Values. *)

FinalStatus == {"published", "partial", "failed"}
RunStatus   == {"missing", "pending", "running", "retryable"} \cup FinalStatus
EditionStatus == {"none", "draft", "partial", "published"}

\* A run row; step 0 is current_step NULL.
Row == [status : RunStatus, step : 0..NSteps, retryable : BOOLEAN]

\* An artifact: the collection its items come from and, once summaries are
\* written, the status of the edition they compose.
Artifact == [of : 0..MaxVersions, result : {"none"} \cup FinalStatus]
NoValue  == [of |-> 0, result |-> "none"]

\* One attempt at the operation of a stage.
Attempts  == {"main", "late"}
AttemptAt == {"getRun", "check", "mark", "work", "write", "save", "reread",
              "finish", "return", "gone"}
Attempt == [at : AttemptAt, step : Steps, input : Artifact, base : 0..MaxVersions,
            snap : Row, out : Artifact, found : EditionStatus]

PendingRow == [status |-> "pending", step |-> 0, retryable |-> FALSE]
Gone == [at |-> "gone", step |-> Collect, input |-> NoValue, base |-> 0,
         snap |-> PendingRow, out |-> NoValue, found |-> "none"]

\* A fresh attempt at stage s on the value v; compose also takes the items
\* normalize stored, of collection b.
Start(s, v, b) == [Gone EXCEPT !.at = "getRun", !.step = s, !.input = v, !.base = b]

Completed(s)    == saved[s] # <<>>
Latest(s)       == saved[s][Len(saved[s])]
Visible(status) == status \in {"partial", "published"}

Pc == {"load", "ensure", "current", "invalidate", "deleting", "begin", "step", "base",
       "finalRead", "finalSave", "catchRead", "catchSave", "prune", "return", "cleanup", "end"}

\* The variables take their values in these sets.
TypeOK ==
    /\ row \in Row
    /\ saved \in [Steps -> Seq(Artifact)]
    /\ edition \in [status : EditionStatus, of : 0..MaxVersions]
    /\ versions \in 0..MaxVersions
    /\ inst \in {"idle", "running", "errored", "complete"}
    /\ cached \in [Steps -> BOOLEAN]
    /\ pc \in Pc
    /\ seen \in Row
    /\ doomed \in [Steps -> Nat]
    /\ value \in Artifact
    /\ att \in [Attempts -> Attempt]
    /\ tries \in Nat
    /\ faults \in Nat
    /\ prompt \in BOOLEAN

Init ==
    /\ row \in {[PendingRow EXCEPT !.status = "missing"], PendingRow}
    /\ saved = [s \in Steps |-> <<>>]
    /\ edition = [status |-> "none", of |-> 0]
    /\ versions = 0
    /\ inst = "idle"
    /\ cached = [s \in Steps |-> FALSE]
    /\ pc = "end"
    /\ seen = PendingRow
    /\ doomed = [s \in Steps |-> 0]
    /\ value = NoValue
    /\ att = [w \in Attempts |-> Gone]
    /\ tries = 0
    /\ faults = 0
    /\ prompt \in BOOLEAN

----------------------------------------------------------------------------
(* The body of run(): before the stages. *)

At(l) == inst = "running" /\ pc = l

\* The body ends and the instance with it.
End(how) == pc' = "end" /\ inst' = how

\* getWorkflowRun of the date: a published run is left alone.
Load ==
    /\ At("load")
    /\ IF row.status = "published" THEN End("complete")
                                   ELSE pc' = "ensure" /\ UNCHANGED inst
    /\ UNCHANGED <<row, saved, edition, versions, cached, seen, doomed, value,
                   att, tries, faults>>

\* ensurePipelineRun creates the row when the launcher did not.
EnsuredRow == IF row.status = "missing" THEN PendingRow ELSE row

Ensure ==
    /\ At("ensure")
    /\ row' = EnsuredRow
    /\ pc' = "current"
    /\ UNCHANGED <<saved, edition, versions, inst, cached, seen, doomed, value,
                   att, tries, faults>>

\* A run whose outcome may be repaired starts again from nothing.
Repairs(r) == r.status \in {"partial", "failed"} /\ r.retryable

\* currentRun and the two early decisions of runEditorialPipeline.
Current ==
    /\ At("current")
    /\ seen' = row
    /\ IF row.status = "published" \/ (row.status = "failed" /\ ~row.retryable)
         THEN End("complete")
         ELSE /\ pc' = IF Repairs(row) THEN "invalidate" ELSE "begin"
              /\ UNCHANGED inst
    /\ UNCHANGED <<row, saved, edition, versions, cached, doomed, value, att,
                   tries, faults>>

\* The row the body saves before the first stage.
BegunRow(r) == [r EXCEPT !.status = "running", !.retryable = FALSE]

\* A slice that starts too late keeps the collection, one that ends too early
\* keeps the publication.
InvalidatedFromNormalize == Normalize..NSteps
InvalidatedBeforePublish == Collect..Compose
\* The stages whose checkpoints a repair drops: invalidateFrom(collect).
InvalidatedSteps == Steps

\* A row saved as running before the deletions would hide an interrupted one.
InvalidateAfterBegin ==
    /\ At("invalidate")
    /\ row' = BegunRow(seen)
    /\ doomed' = [s \in Steps |-> IF s \in InvalidatedSteps THEN Len(saved[s]) ELSE 0]
    /\ pc' = "deleting"
    /\ UNCHANGED <<saved, edition, versions, inst, cached, seen, value, att,
                   tries, faults>>

\* invalidateFrom selects the checkpoint rows ...
Invalidate ==
    /\ At("invalidate")
    /\ doomed' = [s \in Steps |-> IF s \in InvalidatedSteps THEN Len(saved[s]) ELSE 0]
    /\ pc' = "deleting"
    /\ UNCHANGED <<row, saved, edition, versions, inst, cached, seen, value, att,
                   tries, faults>>

\* ... and deletes them one by one, in the order the SELECT returned them.
DeleteRow(s) ==
    /\ doomed[s] > 0
    /\ saved' = [saved EXCEPT ![s] = Tail(@)]

Delete ==
    /\ At("deleting")
    /\ IF \A s \in Steps : doomed[s] = 0
         THEN pc' = "begin" /\ UNCHANGED <<saved, doomed>>
         ELSE /\ \E s \in Steps :
                   DeleteRow(s) /\ doomed' = [doomed EXCEPT ![s] = @ - 1]
              /\ UNCHANGED pc
    /\ UNCHANGED <<row, edition, versions, inst, cached, seen, value, att, tries,
                   faults>>

\* The run is saved as running and the first stage awaited.
Begin ==
    /\ At("begin")
    /\ row' = BegunRow(seen)
    /\ pc' = "step"
    /\ seen' = PendingRow
    /\ att' = [att EXCEPT !["main"] = Start(Collect, NoValue, 0)]
    /\ UNCHANGED <<saved, edition, versions, inst, cached, doomed, value, tries,
                   faults>>

----------------------------------------------------------------------------
(* One attempt w at the operation checkpoint() hands to step.do. *)

In(w, l) == att[w].at = l

AttemptGetRun(w) ==
    /\ In(w, "getRun")
    /\ att' = [att EXCEPT ![w].at = "check", ![w].snap = row]
    /\ UNCHANGED <<row, saved, edition, versions, inst, cached, pc, seen, doomed,
                   value, tries, faults>>

\* readCheckpoint: the stage has an artifact.
Stored(w) == Completed(att[w].step)

\* A stored stage is restored, and the row advanced when it lags behind.
AttemptCheck(w) ==
    /\ In(w, "check")
    /\ att' = [att EXCEPT ![w] =
         IF Stored(w)
           THEN [@ EXCEPT !.at = IF att[w].snap.step < att[w].step
                                    THEN "mark" ELSE "return",
                          !.out = Latest(att[w].step)]
           ELSE [@ EXCEPT !.at = "work", !.snap = PendingRow]]
    /\ UNCHANGED <<row, saved, edition, versions, inst, cached, pc, seen, doomed,
                   value, tries, faults>>

\* The row a completed stage saves over the snapshot the attempt holds.
AdvancedRow(a) == [a.snap EXCEPT !.status = "running", !.step = a.step,
                                 !.retryable = FALSE]

AttemptMark(w) ==
    /\ In(w, "mark")
    /\ row' = AdvancedRow(att[w])
    /\ att' = [att EXCEPT ![w].at = "return", ![w].snap = PendingRow]
    /\ UNCHANGED <<saved, edition, versions, inst, cached, pc, seen, doomed,
                   value, tries, faults>>

\* The outputs the stage of attempt a may produce: the summaries decide the
\* status of the edition; compose may see items of another collection.
Outputs(a) ==
    IF a.step = Collect THEN {[of |-> versions + 1, result |-> "none"]}
    ELSE IF a.step = Validate THEN {[a.input EXCEPT !.result = r] : r \in FinalStatus}
    ELSE IF a.step = Compose /\ a.base # a.input.of
           THEN {[a.input EXCEPT !.result = r] : r \in FinalStatus}
    ELSE {a.input}

\* context.<stage>: every stage but publish computes its output.
AttemptWork(w) ==
    /\ In(w, "work")
    /\ att[w].step # Publish
    /\ att[w].step = Collect => versions < MaxVersions
    /\ versions' = IF att[w].step = Collect THEN versions + 1 ELSE versions
    /\ \E v \in Outputs(att[w]) :
         att' = [att EXCEPT ![w].at = "save", ![w].out = v]
    /\ UNCHANGED <<row, saved, edition, inst, cached, pc, seen, doomed, value,
                   tries, faults>>

\* persistEdition reads the edition of the date ...
AttemptSelect(w) ==
    /\ In(w, "work")
    /\ att[w].step = Publish
    /\ att' = [att EXCEPT ![w].at = "write", ![w].found = edition.status]
    /\ UNCHANGED <<row, saved, edition, versions, inst, cached, pc, seen, doomed,
                   value, tries, faults>>

\* The edition a composition becomes; without the guard on drafts ...
WrittenUnguarded(a) ==
    [status |-> IF a.input.result = "failed" THEN "draft" ELSE a.input.result,
     of |-> a.input.of]

\* ... a draft never replaces the visible edition the attempt found.
Written(a) ==
    IF a.input.result = "failed" /\ Visible(a.found)
      THEN edition
      ELSE [status |-> IF a.input.result = "failed" THEN "draft" ELSE a.input.result,
            of |-> a.input.of]

\* ... and replaces it in one batch.
AttemptWrite(w) ==
    /\ In(w, "write")
    /\ edition' = Written(att[w])
    /\ att' = [att EXCEPT ![w].at = "save", ![w].out = att[w].input,
                          ![w].found = "none"]
    /\ UNCHANGED <<row, saved, versions, inst, cached, pc, seen, doomed, value,
                   tries, faults>>

\* saveCheckpoint: one batch of inserts.
SavedBy(a) == [saved EXCEPT ![a.step] = Append(@, a.out)]

AttemptSave(w) ==
    /\ In(w, "save")
    /\ saved' = SavedBy(att[w])
    /\ att' = [att EXCEPT ![w].at = "reread"]
    /\ UNCHANGED <<row, edition, versions, inst, cached, pc, seen, doomed, value,
                   tries, faults>>

AttemptReread(w) ==
    /\ In(w, "reread")
    /\ att' = [att EXCEPT ![w].at = "finish", ![w].snap = row]
    /\ UNCHANGED <<row, saved, edition, versions, inst, cached, pc, seen, doomed,
                   value, tries, faults>>

AttemptFinish(w) ==
    /\ In(w, "finish")
    /\ row' = AdvancedRow(att[w])
    /\ att' = [att EXCEPT ![w].at = "return", ![w].snap = PendingRow]
    /\ UNCHANGED <<saved, edition, versions, inst, cached, pc, seen, doomed,
                   value, tries, faults>>

\* step.do records the completion and the body goes on to the next stage.
MainReturns ==
    /\ In("main", "return")
    /\ LET s == att["main"].step
           v == att["main"].out
       IN  /\ cached' = [cached EXCEPT ![s] = TRUE]
           /\ value' = IF s = Publish THEN value ELSE v
           /\ pc' = IF s = Validate THEN "base"
                    ELSE IF s = Publish THEN "finalRead" ELSE "step"
           /\ att' = [att EXCEPT !["main"] = IF s \in {Validate, Publish}
                                               THEN Gone ELSE Start(s + 1, v, 0)]
    /\ tries' = 0
    /\ UNCHANGED <<row, saved, edition, versions, inst, seen, doomed, faults>>

\* A timed-out attempt that completes assigns the shared variable `output`,
\* which the body takes if it is still waiting for the same stage.
LateReturns ==
    /\ In("late", "return")
    /\ att' = [att EXCEPT
         !["late"] = Gone,
         !["main"] = IF @.at = "return" /\ @.step = att["late"].step
                       THEN [@ EXCEPT !.out = att["late"].out] ELSE @]
    /\ UNCHANGED <<row, saved, edition, versions, inst, cached, pc, seen, doomed,
                   value, tries, faults>>

\* Retrying without counting the retries.
MainFailsForever ==
    LET a == att["main"]
    IN  /\ att' = [att EXCEPT !["main"] = Start(a.step, a.input, a.base)]
        /\ UNCHANGED <<tries, pc>>

\* The awaited attempt failed: step.do retries the operation until the limit;
\* an operation replayed outside step.do is not retried.
MainFails ==
    LET a == att["main"]
    IN  IF ~cached[a.step] /\ tries < MaxRetries
          THEN /\ tries' = tries + 1
               /\ att' = [att EXCEPT !["main"] = Start(a.step, a.input, a.base)]
               /\ UNCHANGED pc
          ELSE /\ tries' = 0
               /\ att' = [att EXCEPT !["main"] = Gone]
               /\ pc' = "catchRead"

AttemptFails(w) ==
    IF w = "main" THEN MainFails
    ELSE att' = [att EXCEPT ![w] = Gone] /\ UNCHANGED <<pc, tries>>

\* The stage itself may always throw.
AttemptThrows(w) ==
    /\ In(w, "work")
    /\ AttemptFails(w)
    /\ UNCHANGED <<row, saved, edition, versions, inst, cached, seen, doomed,
                   value, faults>>

AttemptStep(w) ==
    \/ AttemptGetRun(w) \/ AttemptCheck(w) \/ AttemptMark(w)
    \/ AttemptWork(w) \/ AttemptSelect(w) \/ AttemptWrite(w)
    \/ AttemptSave(w) \/ AttemptReread(w) \/ AttemptFinish(w)
    \/ AttemptThrows(w)

----------------------------------------------------------------------------
(* The body of run(): around and after the stages. *)

\* compose also reads the items normalize stored, from D1.
ReadBase ==
    /\ At("base")
    /\ IF Completed(Normalize)
         THEN /\ pc' = "step"
              /\ att' = [att EXCEPT !["main"] =
                           Start(Compose, value, Latest(Normalize).of)]
         ELSE pc' = "catchRead" /\ UNCHANGED att
    /\ UNCHANGED <<row, saved, edition, versions, inst, cached, seen, doomed,
                   value, tries, faults>>

\* The row is read again, to be saved with the outcome or with the error.
ReadRow ==
    /\ \/ At("finalRead") /\ pc' = "finalSave"
       \/ At("catchRead") /\ pc' = "catchSave"
    /\ seen' = row
    /\ UNCHANGED <<row, saved, edition, versions, inst, cached, doomed, value,
                   att, tries, faults>>

FinalRow(r, v) == [r EXCEPT !.status = v.result, !.step = Publish,
                            !.retryable = v.result \in {"partial", "failed"}]

FinalSave ==
    /\ At("finalSave")
    /\ row' = FinalRow(seen, value)
    /\ pc' = IF Visible(value.result) THEN "prune" ELSE "return"
    /\ seen' = PendingRow
    /\ UNCHANGED <<saved, edition, versions, inst, cached, doomed, value, att,
                   tries, faults>>

\* The row an error leaves.
CatchRow(r) == [r EXCEPT !.status = "retryable", !.retryable = TRUE]

\* The error is recorded; step.do is not around it.
CatchSave ==
    /\ At("catchSave")
    /\ row' = CatchRow(seen)
    /\ pc' = "cleanup"
    /\ seen' = PendingRow
    /\ UNCHANGED <<saved, edition, versions, inst, cached, doomed, value, att,
                   tries, faults>>

\* After a visible edition retention runs, outside the pipeline's catch; after
\* an error the reservations are released (module ModelBudget), whatever that
\* throws, and the error is rethrown.
Finish ==
    /\ \/ (At("prune") \/ At("return")) /\ End("complete")
       \/ At("cleanup") /\ End("errored")
    /\ UNCHANGED <<row, saved, edition, versions, cached, seen, doomed, value,
                   att, tries, faults>>

Body == \/ Load \/ Ensure \/ Current \/ Invalidate \/ Delete \/ Begin
        \/ ReadBase \/ ReadRow \/ FinalSave \/ CatchSave \/ Finish \/ MainReturns

----------------------------------------------------------------------------
(* The environment: triggers and faults. *)

\* A trigger starts the instance, or restarts the ended instance of a run it
\* may resume.  Whether one comes is up to the reader and the schedule.
Resumable(r) == r.retryable /\ r.status \in {"retryable", "partial", "failed"}

Trigger ==
    /\ \/ inst = "idle"
       \/ inst \in {"errored", "complete"} /\ Resumable(row)
    /\ inst' = "running"
    /\ pc' = "load"
    /\ cached' = [s \in Steps |-> FALSE]
    /\ value' = NoValue
    /\ UNCHANGED <<row, saved, edition, versions, seen, doomed, att, tries, faults>>

Fault(kind) == /\ kind \in Faults
               /\ faults < MaxFaults
               /\ faults' = faults + 1

\* Nothing inside try { } around the stages: the error ends the instance.
Uncaught == {"load", "ensure", "current", "invalidate", "deleting", "begin",
             "prune", "catchRead", "catchSave"}
\* A retention error caught with the pipeline's.
UncaughtButPrune == Uncaught \ {"prune"}
EndsInstance == Uncaught

\* What the D1 call at this place of the body writes ...
BodyWrites ==
    \/ /\ \/ pc = "ensure"    /\ row' = EnsuredRow
          \/ pc = "begin"     /\ row' = BegunRow(seen)
          \/ pc = "finalSave" /\ row' = FinalRow(seen, value)
          \/ pc = "catchSave" /\ row' = CatchRow(seen)
       /\ UNCHANGED saved
    \/ pc = "deleting" /\ (\E s \in Steps : DeleteRow(s)) /\ UNCHANGED row

\* ... is written or not when the call fails: the answer may be all that is
\* lost.  After a final saveRun the error's row is then saved over the outcome.
BodyError ==
    /\ Fault("d1")
    /\ inst = "running" /\ pc \notin {"end", "step", "return", "cleanup"}
    /\ BodyWrites \/ UNCHANGED <<row, saved>>
    /\ IF pc \in EndsInstance THEN End("errored")
                              ELSE pc' = "catchRead" /\ UNCHANGED inst
    /\ seen' = PendingRow
    /\ doomed' = [s \in Steps |-> 0]
    /\ UNCHANGED <<edition, versions, cached, value, att, tries>>

\* A D1 call of an attempt fails, with its effect or without.
AttemptWrites(w) ==
    \/ /\ In(w, "mark") \/ In(w, "finish")
       /\ row' = AdvancedRow(att[w])
       /\ UNCHANGED <<saved, edition>>
    \/ In(w, "write") /\ edition' = Written(att[w]) /\ UNCHANGED <<row, saved>>
    \/ In(w, "save") /\ saved' = SavedBy(att[w]) /\ UNCHANGED <<row, edition>>

AttemptError(w) ==
    /\ Fault("d1")
    /\ ~In(w, "gone") /\ ~In(w, "return")
    /\ AttemptWrites(w) \/ UNCHANGED <<row, saved, edition>>
    /\ AttemptFails(w)
    /\ UNCHANGED <<versions, inst, cached, seen, doomed, value>>

\* The timeout of step.do: the attempt is given up but not stopped.
Timeout ==
    /\ ~prompt /\ Fault("timeout")
    /\ ~In("main", "gone") /\ ~In("main", "return")
    /\ ~cached[att["main"].step]
    /\ In("late", "gone")
    /\ LET a == att["main"]
       IN  IF tries < MaxRetries
             THEN /\ tries' = tries + 1
                  /\ att' = [main |-> Start(a.step, a.input, a.base), late |-> a]
                  /\ UNCHANGED pc
             ELSE /\ tries' = 0
                  /\ att' = [main |-> Gone, late |-> a]
                  /\ pc' = "catchRead"
    /\ UNCHANGED <<row, saved, edition, versions, inst, cached, seen, doomed, value>>

\* The isolate is evicted: a running instance is replayed from its start.
Crash ==
    /\ Fault("crash")
    /\ inst = "running"
    /\ pc' = "load"
    /\ seen' = PendingRow
    /\ doomed' = [s \in Steps |-> 0]
    /\ value' = NoValue
    /\ att' = [w \in Attempts |-> Gone]
    /\ tries' = 0
    /\ UNCHANGED <<row, saved, edition, versions, inst, cached>>

Next ==
    /\ \/ Body
       \/ LateReturns
       \/ \E w \in Attempts : AttemptStep(w) \/ AttemptError(w)
       \/ Trigger \/ BodyError \/ Timeout \/ Crash
    /\ UNCHANGED prompt

Spec == Init /\ [][Next]_vars

\* The engine keeps running an instance it has started.
Engine == (Body \/ AttemptStep("main")) /\ UNCHANGED prompt
FairSpec == Spec /\ WF_vars(Engine)

----------------------------------------------------------------------------
(* Properties.  An attempt that outlives its timeout saves what it had read *)
(* long ago over what has happened since, which no order of stages keeps    *)
(* right; what it may break is said of prompt behaviours.                   *)

\* Once readers can see the edition of the date, no repair takes it away:
\* persistEdition keeps it when the new composition failed.
VisibleStaysVisible ==
    [][prompt /\ Visible(edition.status) => Visible(edition'.status)]_vars

\* The validated summaries and the normalized items compose reads from D1 come
\* from one collection, even when a crash interrupted invalidateFrom.
ComposesOneCollection ==
    \A w \in Attempts :
        prompt /\ In(w, "work") /\ att[w].step = Compose => att[w].base = att[w].input.of

\* A run saved as published or partial has an edition of that status: the
\* final saveRun follows persistEdition through every replay and repair.
RowMatchesEdition == prompt /\ Visible(row.status) => edition.status = row.status

\* An edition is only ever replaced by one composed from a later collection:
\* a repair drops every checkpoint first, and a replay of publish writes the
\* edition it had already written.
NewerEditionsOnly ==
    [][prompt /\ edition' # edition /\ edition.status # "none" => edition'.of > edition.of]_vars

\* A prompt run lives as RunLife says, which is all the triggers know of it:
\* what has ended can be resumed unless it is published, and only the execution
\* that published the run, when the answer was lost, takes that back.
LifeRun   == IF prompt THEN [status |-> row.status, retryable |-> row.retryable]
             ELSE [status |-> "missing", retryable |-> FALSE]
LifeInst  == IF ~prompt \/ inst = "idle" THEN "absent" ELSE inst
LifePhase == IF ~prompt \/ inst # "running" THEN "off"
             ELSE IF pc \in {"load", "ensure", "current", "invalidate", "deleting", "begin"}
                    THEN "entered"
             ELSE IF pc \in {"prune", "return", "cleanup"} THEN "settled"
             ELSE "begun"
Life == INSTANCE RunLife WITH run <- LifeRun, inst <- LifeInst, phase <- LifePhase
ImplementsRunLife == Life!LifeSpec

\* An instance that runs ends: its retries are bounded.
InstanceEnds == inst = "running" ~> inst # "running"
=============================================================================
