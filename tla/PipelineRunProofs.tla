-------------------------- MODULE PipelineRunProofs --------------------------
(***************************************************************************)
(* What holds of a run however many stages, collections, retries and       *)
(* faults it has.                                                          *)
(***************************************************************************)
EXTENDS PipelineRun, TLAPS

Main == att["main"]

\* The places where the stages are under way, and the run row says running.
Begun   == {"step", "base", "finalRead", "finalSave", "catchRead", "catchSave"}

\* An attempt is made while the body awaits it, and nobody but the main one.
OneAttempt ==
    /\ att["late"].at = "gone"
    /\ Main.at # "gone" <=> pc = "step"
    /\ inst = "running" <=> pc # "end"

\* The row between the places where the body writes it; in the catch it already
\* says the outcome when only the answer to the final saveRun was lost.
RowFollowsBody ==
    /\ row.retryable <=> row.status \in {"retryable", "partial", "failed"}
    /\ pc \in {"current", "invalidate", "deleting", "begin"} => row.status # "missing"
    /\ pc \in {"invalidate", "deleting", "begin"} => seen = row /\ row.status # "published"
    /\ pc \in {"invalidate", "deleting"} => row.status \in {"partial", "failed"}
    /\ pc \in Begun => row.status = "running"
                       \/ (pc \in {"catchRead", "catchSave"} /\ row.status \in FinalStatus)
    /\ pc \in {"finalSave", "catchSave"} => seen = row
    /\ pc \in {"prune", "return"} => row.status \in FinalStatus
    /\ pc = "cleanup" => row.status = "retryable"

\* The status an edition composed as v gets.
StatusOf(v) == IF v.result = "failed" THEN "draft" ELSE v.result

\* The checkpoints of a run that has no outcome to repair are those of the
\* first stages, of one collection, which no edition is newer than; an edition
\* of this collection is what was composed.
SavedAgree ==
    /\ \A s, u \in Steps : Completed(s) /\ u < s => Completed(u)
    /\ \A s, u \in Steps : Completed(s) /\ Completed(u) => Latest(s).of = Latest(u).of
    /\ \A s \in Steps : Completed(s) => Latest(s).of <= versions
    /\ \A s \in Steps : Completed(s) /\ s >= Validate => Latest(s).result \in FinalStatus
    /\ Completed(Publish) => /\ Latest(Publish) = Latest(Compose)
                             /\ Visible(Latest(Publish).result) => edition.status = Latest(Publish).result
    /\ edition.status # "none" /\ Completed(Collect) =>
          \/ edition.of < Latest(Collect).of
          \/ /\ edition.of = Latest(Collect).of /\ Completed(Compose)
             /\ edition.status = StatusOf(Latest(Compose))

\* The attempt at a stage has all earlier stages behind it and their output ...
StageFollows ==
    LET s == Main.step
    IN  /\ \A u \in Steps : u < s => Completed(u)
        /\ s > Collect => Main.input.of = Latest(Collect).of
        /\ s = Compose => Main.base = Latest(Collect).of
        /\ s >= Compose => Main.input.result \in FinalStatus
        /\ s = Publish => Main.input = Latest(Compose) /\ value = Latest(Compose)

\* ... and is the only one to complete its own.
OutputFollows ==
    LET s == Main.step
    IN  /\ Main.at \in {"work", "write", "save"} => ~Completed(s)
        /\ Main.at = "write" => s = Publish /\ Main.found = edition.status
        /\ Main.at = "save" =>
              /\ IF s = Collect THEN /\ Main.out.of <= versions
                                     /\ edition.status # "none" => edition.of < Main.out.of
                                ELSE Main.out.of = Main.input.of
              /\ s >= Validate => Main.out.result \in FinalStatus
              /\ s = Publish => /\ Main.out = Main.input
                                /\ Visible(Main.out.result) => edition.status = Main.out.result
        /\ Main.at \in {"mark", "reread", "finish", "return"} => Completed(s) /\ Main.out = Latest(s)

AttemptFollows == StageFollows /\ OutputFollows

\* The edition of a run that readers see has the status of its row.
RowFits    == Visible(row.status) => edition.status = row.status
EditionMade == edition.status # "none" => edition.of <= versions

PromptInv ==
    /\ OneAttempt
    /\ RowFollowsBody
    /\ RowFits
    /\ EditionMade
    /\ row.status \notin FinalStatus \/ pc \in {"begin", "catchRead", "catchSave"} => SavedAgree
    /\ pc = "deleting" => \A s \in Steps : doomed[s] = Len(saved[s])
    /\ pc = "step" => AttemptFollows
    /\ pc = "base" => Completed(Validate) /\ value = Latest(Validate)
    /\ pc \in {"finalRead", "finalSave"} => Completed(Publish) /\ value = Latest(Publish)

IInv == prompt \in BOOLEAN /\ (prompt => TypeOK /\ PromptInv)

----------------------------------------------------------------------------
(* Types. *)

\* The stages by number, in a form the arithmetic provers use.
LEMMA StepFacts ==
    /\ NSteps \in Nat /\ NSteps >= 5 /\ Steps = 1..NSteps
    /\ Collect = 1 /\ Normalize = 2 /\ Validate = NSteps - 2
    /\ Compose = NSteps - 1 /\ Publish = NSteps
    /\ Collect \in Steps /\ Normalize \in Steps /\ Validate \in Steps
    /\ Compose \in Steps /\ Publish \in Steps
  BY PipelineAssumption DEF Steps, Collect, Normalize, Validate, Compose, Publish

\* The records the body and the attempts start from are of their types.
LEMMA ValueTypes ==
    /\ PendingRow \in Row /\ NoValue \in Artifact /\ Gone \in Attempt
    /\ \A s \in Steps, v \in Artifact, b \in 0..MaxVersions : Start(s, v, b) \in Attempt
<1>1. PendingRow \in Row
  BY StepFacts DEF PendingRow, Row, RunStatus
<1>2. NoValue \in Artifact
  BY PipelineAssumption DEF NoValue, Artifact
<1>3. Gone \in Attempt
  BY <1>1, <1>2, StepFacts, PipelineAssumption DEF Gone, Attempt, AttemptAt, EditionStatus
<1>4. ASSUME NEW s \in Steps, NEW v \in Artifact, NEW b \in 0..MaxVersions
      PROVE  Start(s, v, b) \in Attempt
  <2>1. [[[[Gone EXCEPT !.at = "getRun"] EXCEPT !.step = s] EXCEPT !.input = v] EXCEPT !.base = b] \in Attempt
    BY <1>3 DEF Attempt, AttemptAt
  <2>2. QED
    BY <2>1 DEF Start
<1>5. QED
  BY <1>1, <1>2, <1>3, <1>4

\* A stage that is stored has a last artifact.
LEMMA LatestType ==
    ASSUME TypeOK, NEW s \in Steps, Completed(s)
    PROVE  Latest(s) \in Artifact
<1>1. saved[s] \in Seq(Artifact) /\ saved[s] # <<>>
  BY DEF TypeOK, Completed
<1>2. Len(saved[s]) \in 1..Len(saved[s])
  BY <1>1
<1>3. QED
  BY <1>1, <1>2 DEF Latest

\* What an attempt may do with its record.
LEMMA AttemptTypes ==
    ASSUME NEW a \in Attempt
    PROVE  /\ a.step \in Steps /\ a.input \in Artifact /\ a.base \in 0..MaxVersions
           /\ a.snap \in Row /\ a.out \in Artifact
           /\ \A l \in AttemptAt : [a EXCEPT !.at = l] \in Attempt
           /\ \A l \in AttemptAt, r \in Row : [a EXCEPT !.at = l, !.snap = r] \in Attempt
           /\ \A l \in AttemptAt, v \in Artifact : [a EXCEPT !.at = l, !.out = v] \in Attempt
           /\ \A v \in Artifact : [a EXCEPT !.out = v] \in Attempt
           /\ \A l \in AttemptAt, f \in EditionStatus : [a EXCEPT !.at = l, !.found = f] \in Attempt
           /\ \A l \in AttemptAt, v \in Artifact, f \in EditionStatus :
                 [a EXCEPT !.at = l, !.out = v, !.found = f] \in Attempt
           /\ AdvancedRow(a) \in Row
<1>1. /\ a.step \in Steps /\ a.input \in Artifact /\ a.base \in 0..MaxVersions
      /\ a.snap \in Row /\ a.out \in Artifact
  BY DEF Attempt
<1>2. /\ \A l \in AttemptAt : [a EXCEPT !.at = l] \in Attempt
      /\ \A v \in Artifact : [a EXCEPT !.out = v] \in Attempt
  BY DEF Attempt
<1>3. \A l \in AttemptAt, r \in Row : [a EXCEPT !.at = l, !.snap = r] \in Attempt
  BY DEF Attempt
<1>4. \A l \in AttemptAt, v \in Artifact : [a EXCEPT !.at = l, !.out = v] \in Attempt
  BY DEF Attempt
<1>5. \A l \in AttemptAt, f \in EditionStatus : [a EXCEPT !.at = l, !.found = f] \in Attempt
  BY DEF Attempt
<1>6. \A l \in AttemptAt, v \in Artifact, f \in EditionStatus :
         [a EXCEPT !.at = l, !.out = v, !.found = f] \in Attempt
  BY DEF Attempt
<1>7. AdvancedRow(a) \in Row
  <2>1. a.step \in 0..NSteps
    BY <1>1, StepFacts
  <2>2. [[[a.snap EXCEPT !.status = "running"] EXCEPT !.step = a.step] EXCEPT !.retryable = FALSE] \in Row
    BY <1>1, <2>1 DEF Row, RunStatus
  <2>3. QED
    BY <2>2 DEF AdvancedRow
<1>8. QED
  BY <1>1, <1>2, <1>3, <1>4, <1>5, <1>6, <1>7

\* A failing attempt leaves the attempts, the body and the retries in their types.
LEMMA FailureTypes ==
    ASSUME TypeOK, NEW w \in Attempts, AttemptFails(w)
    PROVE  att' \in [Attempts -> Attempt] /\ pc' \in Pc /\ tries' \in Nat
<1>0. att \in [Attempts -> Attempt] /\ pc \in Pc /\ tries \in Nat /\ w \in Attempts
  BY DEF TypeOK
<1>1. CASE w = "main"
  <2>1. att["main"] \in Attempt
    BY <1>0, <1>1
  <2>2. Start(att["main"].step, att["main"].input, att["main"].base) \in Attempt
    BY <2>1, AttemptTypes, ValueTypes
  <2>3. QED
    BY <1>0, <1>1, <2>2, ValueTypes DEF AttemptFails, MainFails, Pc
<1>2. CASE w # "main"
  BY <1>0, <1>2, ValueTypes DEF AttemptFails
<1>3. QED
  BY <1>1, <1>2

\* The edition an attempt writes, and the checkpoint it saves.
LEMMA EffectTypes ==
    ASSUME TypeOK, NEW a \in Attempt
    PROVE  /\ Written(a) \in [status : EditionStatus, of : 0..MaxVersions]
           /\ SavedBy(a) \in [Steps -> Seq(Artifact)]
<1>1. Written(a) \in [status : EditionStatus, of : 0..MaxVersions]
  <2>1. a.input.result \in {"none", "published", "partial", "failed"} /\ a.input.of \in 0..MaxVersions
    BY AttemptTypes DEF Artifact, FinalStatus
  <2>2. edition \in [status : EditionStatus, of : 0..MaxVersions]
    BY DEF TypeOK
  <2>3. QED
    BY <2>1, <2>2 DEF Written, EditionStatus
<1>2. SavedBy(a) \in [Steps -> Seq(Artifact)]
  <2>1. saved \in [Steps -> Seq(Artifact)] /\ a.step \in Steps /\ a.out \in Artifact
    BY AttemptTypes DEF TypeOK
  <2>2. Append(saved[a.step], a.out) \in Seq(Artifact)
    BY <2>1
  <2>3. QED
    BY <2>1, <2>2 DEF SavedBy
<1>3. QED
  BY <1>1, <1>2

\* So does every step of an attempt.
LEMMA StepTypes ==
    ASSUME TypeOK, NEW w \in Attempts, AttemptStep(w)
    PROVE  /\ att' \in [Attempts -> Attempt] /\ row' \in Row
           /\ saved' \in [Steps -> Seq(Artifact)]
           /\ edition' \in [status : EditionStatus, of : 0..MaxVersions]
           /\ versions' \in 0..MaxVersions /\ pc' \in Pc /\ tries' \in Nat
           /\ UNCHANGED <<inst, cached, seen, doomed, value, faults>>
<1> DEFINE a == att[w]
<1>0. a \in Attempt /\ att \in [Attempts -> Attempt] /\ row \in Row
  BY DEF TypeOK
<1>1. UNCHANGED <<inst, cached, seen, doomed, value, faults>>
  BY DEF AttemptStep, AttemptGetRun, AttemptCheck, AttemptMark, AttemptWork, AttemptSelect,
         AttemptWrite, AttemptSave, AttemptReread, AttemptFinish, AttemptThrows
<1> DEFINE Moved == \E x \in Attempt : att' = [att EXCEPT ![w] = x]
<1>a. Moved => att' \in [Attempts -> Attempt]
  BY <1>0
<1>b. AttemptAt = {"getRun", "check", "mark", "work", "write", "save", "reread", "finish",
                   "return", "gone"}
  BY DEF AttemptAt
<1>2. CASE AttemptGetRun(w)
  <2>1. att' = [att EXCEPT ![w] = [a EXCEPT !.at = "check", !.snap = row]]
    BY <1>0, <1>2 DEF AttemptGetRun
  <2>2. [a EXCEPT !.at = "check", !.snap = row] \in Attempt
    BY <1>0, <1>b, AttemptTypes
  <2>3. Moved
    BY <2>1, <2>2
  <2>4. QED
    BY <1>0, <1>1, <1>a, <1>2, <2>1, <2>3 DEF AttemptGetRun, TypeOK
<1>3. CASE AttemptCheck(w)
  <2>1. \E x \in Attempt : att' = [att EXCEPT ![w] = x]
    <3>1. CASE Stored(w)
      <4>1. Latest(a.step) \in Artifact
        BY <1>0, <3>1, AttemptTypes, LatestType DEF Stored
      <4>2. PICK l \in {"mark", "return"} :
               att' = [att EXCEPT ![w] = [a EXCEPT !.at = l, !.out = Latest(a.step)]]
        BY <1>3, <3>1 DEF AttemptCheck
      <4>3. QED
        BY <1>0, <4>1, <4>2, AttemptTypes DEF AttemptAt
    <3>2. CASE ~Stored(w)
      <4>1. att' = [att EXCEPT ![w] = [a EXCEPT !.at = "work", !.snap = PendingRow]]
        BY <1>3, <3>2 DEF AttemptCheck
      <4>2. QED
        BY <1>0, <4>1, AttemptTypes, ValueTypes DEF AttemptAt
    <3>3. QED
      BY <3>1, <3>2
  <2>2. QED
    BY <1>0, <1>1, <1>3, <2>1 DEF AttemptCheck, TypeOK
<1>4. CASE AttemptMark(w) \/ AttemptFinish(w)
  <2>1. /\ att' = [att EXCEPT ![w] = [a EXCEPT !.at = "return", !.snap = PendingRow]]
        /\ row' = AdvancedRow(a)
    BY <1>0, <1>4 DEF AttemptMark, AttemptFinish
  <2>2. [a EXCEPT !.at = "return", !.snap = PendingRow] \in Attempt
    BY <1>0, <1>b, AttemptTypes, ValueTypes
  <2>3. Moved
    BY <2>1, <2>2
  <2>4. QED
    BY <1>0, <1>1, <1>a, <1>4, <2>1, <2>3, AttemptTypes DEF AttemptMark, AttemptFinish, TypeOK
<1>5. CASE AttemptWork(w)
  <2>1. PICK v \in Outputs(a) :
           att' = [att EXCEPT ![w] = [a EXCEPT !.at = "save", !.out = v]]
    BY <1>0, <1>5 DEF AttemptWork
  <2>2. v \in Artifact /\ versions' \in 0..MaxVersions
    <3>1. a.input \in Artifact /\ versions \in 0..MaxVersions
      BY <1>0, AttemptTypes DEF TypeOK
    <3>2. CASE a.step = Collect
      BY <1>5, <2>1, <3>1, <3>2, PipelineAssumption DEF AttemptWork, Outputs, Artifact
    <3>3. CASE a.step # Collect
      BY <1>5, <2>1, <3>1, <3>3 DEF AttemptWork, Outputs, Artifact
    <3>4. QED
      BY <3>2, <3>3
  <2>3. QED
    BY <1>0, <1>1, <1>5, <2>1, <2>2, AttemptTypes DEF AttemptWork, TypeOK, AttemptAt
<1>6. CASE AttemptSelect(w)
  <2>1. att' = [att EXCEPT ![w] = [a EXCEPT !.at = "write", !.found = edition.status]]
    BY <1>0, <1>6 DEF AttemptSelect
  <2>2. edition.status \in EditionStatus
    BY DEF TypeOK
  <2>3. [a EXCEPT !.at = "write", !.found = edition.status] \in Attempt
    BY <1>0, <1>b, <2>2, AttemptTypes
  <2>4. Moved
    BY <2>1, <2>3
  <2>5. QED
    BY <1>0, <1>1, <1>a, <1>6, <2>1, <2>2, <2>4 DEF AttemptSelect, TypeOK
<1>7. CASE AttemptWrite(w)
  <2>1. /\ att' = [att EXCEPT ![w] = [a EXCEPT !.at = "save", !.out = a.input, !.found = "none"]]
        /\ edition' = Written(a)
    BY <1>0, <1>7 DEF AttemptWrite
  <2>2. edition' \in [status : EditionStatus, of : 0..MaxVersions]
    BY <1>0, <2>1, EffectTypes
  <2>3. [a EXCEPT !.at = "save", !.out = a.input, !.found = "none"] \in Attempt
    BY <1>0, <1>b, AttemptTypes DEF EditionStatus
  <2>4. Moved
    BY <2>1, <2>3
  <2>5. QED
    BY <1>0, <1>1, <1>a, <1>7, <2>1, <2>2, <2>4 DEF AttemptWrite, TypeOK
<1>8. CASE AttemptSave(w)
  <2>1. /\ att' = [att EXCEPT ![w] = [a EXCEPT !.at = "reread"]]
        /\ saved' = SavedBy(a)
    BY <1>0, <1>8 DEF AttemptSave
  <2>2. saved' \in [Steps -> Seq(Artifact)]
    BY <1>0, <2>1, EffectTypes
  <2>3. [a EXCEPT !.at = "reread"] \in Attempt
    BY <1>0, <1>b, AttemptTypes
  <2>4. Moved
    BY <2>1, <2>3
  <2>5. QED
    BY <1>0, <1>1, <1>a, <1>8, <2>1, <2>2, <2>4 DEF AttemptSave, TypeOK
<1>9. CASE AttemptReread(w)
  <2>1. att' = [att EXCEPT ![w] = [a EXCEPT !.at = "finish", !.snap = row]]
    BY <1>0, <1>9 DEF AttemptReread
  <2>2. [a EXCEPT !.at = "finish", !.snap = row] \in Attempt
    BY <1>0, <1>b, AttemptTypes
  <2>3. Moved
    BY <2>1, <2>2
  <2>4. QED
    BY <1>0, <1>1, <1>a, <1>9, <2>1, <2>3 DEF AttemptReread, TypeOK
<1>10. CASE AttemptThrows(w)
  <2>1. AttemptFails(w) /\ UNCHANGED <<row, saved, edition, versions>>
    BY <1>10 DEF AttemptThrows
  <2>2. QED
    BY <1>1, <2>1, FailureTypes DEF TypeOK
<1>11. QED
  BY <1>2, <1>3, <1>4, <1>5, <1>6, <1>7, <1>8, <1>9, <1>10 DEF AttemptStep

\* What the calls of the body write is of its type: they delete only rows that
\* stand and settle only a row that has an outcome.
LEMMA WritesTypes ==
    ASSUME TypeOK, PromptInv, BodyWrites
    PROVE  row' \in Row /\ saved' \in [Steps -> Seq(Artifact)]
<1>0. /\ row \in Row /\ seen \in Row /\ value \in Artifact
      /\ saved \in [Steps -> Seq(Artifact)] /\ doomed \in [Steps -> Nat]
  BY DEF TypeOK
<1>1. CASE pc = "ensure" /\ row' = EnsuredRow /\ saved' = saved
  BY <1>0, <1>1, ValueTypes DEF EnsuredRow
<1>2. CASE pc = "begin" /\ row' = BegunRow(seen) /\ saved' = saved
  <2>1. [[seen EXCEPT !.status = "running"] EXCEPT !.retryable = FALSE] \in Row
    BY <1>0 DEF Row, RunStatus
  <2>2. QED
    BY <1>0, <1>2, <2>1 DEF BegunRow
<1>3. CASE pc = "finalSave" /\ row' = FinalRow(seen, value) /\ saved' = saved
  <2>1. value.result \in FinalStatus
    <3>1. Completed(Publish) /\ value = Latest(Publish)
      BY <1>3 DEF PromptInv
    <3>2. SavedAgree
      BY <1>3 DEF PromptInv, RowFollowsBody, Begun, FinalStatus
    <3>3. QED
      BY <3>1, <3>2, StepFacts DEF SavedAgree
  <2> DEFINE again == value.result \in {"partial", "failed"}
  <2>2. again \in BOOLEAN
    OBVIOUS
  <2>3. row' = [[[seen EXCEPT !.status = value.result] EXCEPT !.step = Publish]
                  EXCEPT !.retryable = again]
    BY <1>3 DEF FinalRow
  <2> HIDE DEF again
  <2>4. value.result \in RunStatus /\ Publish \in 0..NSteps
    BY <2>1, StepFacts DEF RunStatus
  <2>5. [[[seen EXCEPT !.status = value.result] EXCEPT !.step = Publish] EXCEPT !.retryable = again] \in Row
    BY <1>0, <2>2, <2>4 DEF Row
  <2>6. QED
    BY <1>0, <1>3, <2>3, <2>5
<1>4. CASE pc = "catchSave" /\ row' = CatchRow(seen) /\ saved' = saved
  <2>1. [[seen EXCEPT !.status = "retryable"] EXCEPT !.retryable = TRUE] \in Row
    BY <1>0 DEF Row, RunStatus
  <2>2. QED
    BY <1>0, <1>4, <2>1 DEF CatchRow
<1>5. ASSUME NEW s \in Steps, pc = "deleting", DeleteRow(s), row' = row
      PROVE  row' \in Row /\ saved' \in [Steps -> Seq(Artifact)]
  <2>1. doomed[s] = Len(saved[s]) /\ doomed[s] > 0 /\ saved' = [saved EXCEPT ![s] = Tail(@)]
    BY <1>5 DEF PromptInv, DeleteRow
  <2>2. saved[s] \in Seq(Artifact) /\ saved[s] # <<>>
    BY <1>0, <2>1
  <2>3. Tail(saved[s]) \in Seq(Artifact)
    BY <2>2
  <2>4. QED
    BY <1>0, <1>5, <2>1, <2>3
<1>6. QED
  BY <1>1, <1>2, <1>3, <1>4, <1>5 DEF BodyWrites

\* And every step of the body: it deletes only rows that stand and settles only
\* a row that has an outcome.
LEMMA BodyTypes ==
    ASSUME TypeOK, PromptInv, Body, UNCHANGED prompt
    PROVE  TypeOK'
<1>0. /\ att \in [Attempts -> Attempt] /\ row \in Row /\ seen \in Row /\ value \in Artifact
      /\ saved \in [Steps -> Seq(Artifact)] /\ doomed \in [Steps -> Nat] /\ "main" \in Attempts
  BY DEF TypeOK, Attempts
<1>1. CASE Load \/ Current \/ Finish \/ ReadRow
  BY <1>1 DEF Load, Current, Finish, ReadRow, End, TypeOK, Pc
<1>2. CASE Ensure
  BY <1>2, WritesTypes DEF Ensure, At, BodyWrites, TypeOK, Pc
<1>3. CASE Invalidate
  <2>1. doomed' \in [Steps -> Nat]
    BY <1>0, <1>3 DEF Invalidate
  <2>2. QED
    BY <1>3, <2>1 DEF Invalidate, TypeOK, Pc
<1>4. CASE Delete
  <2>1. CASE pc' = "begin" /\ UNCHANGED <<saved, doomed>>
    BY <1>4, <2>1 DEF Delete, TypeOK, Pc
  <2>2. ASSUME NEW s \in Steps, DeleteRow(s), doomed' = [doomed EXCEPT ![s] = @ - 1], UNCHANGED pc
        PROVE  TypeOK'
    <3>1. saved' \in [Steps -> Seq(Artifact)]
      BY <1>4, <2>2, WritesTypes DEF Delete, At, BodyWrites
    <3>2. doomed' \in [Steps -> Nat]
      BY <1>0, <2>2 DEF DeleteRow
    <3>3. QED
      BY <1>4, <2>2, <3>1, <3>2 DEF Delete, TypeOK
  <2>3. QED
    BY <1>4, <2>1, <2>2 DEF Delete
<1>5. CASE Begin
  <2>1. Start(Collect, NoValue, 0) \in Attempt
    BY StepFacts, ValueTypes, PipelineAssumption
  <2>2. row' \in Row
    BY <1>5, WritesTypes DEF Begin, At, BodyWrites
  <2>3. att' \in [Attempts -> Attempt]
    BY <1>0, <1>5, <2>1 DEF Begin
  <2>4. QED
    BY <1>5, <2>2, <2>3, ValueTypes DEF Begin, TypeOK, Pc
<1>6. CASE ReadBase
  <2>1. CASE Completed(Normalize)
    <3>1. Latest(Normalize).of \in 0..MaxVersions
      BY <2>1, StepFacts, LatestType DEF Artifact
    <3>2. Start(Compose, value, Latest(Normalize).of) \in Attempt
      BY <1>0, <3>1, StepFacts, ValueTypes
    <3>3. QED
      BY <1>0, <1>6, <2>1, <3>2 DEF ReadBase, TypeOK, Pc
  <2>2. CASE ~Completed(Normalize)
    BY <1>6, <2>2 DEF ReadBase, TypeOK, Pc
  <2>3. QED
    BY <2>1, <2>2
<1>7. CASE FinalSave
  <2>1. row' \in Row
    BY <1>7, WritesTypes DEF FinalSave, At, BodyWrites
  <2>2. QED
    BY <1>7, <2>1, ValueTypes DEF FinalSave, TypeOK, Pc
<1>8. CASE CatchSave
  <2>1. row' \in Row
    BY <1>8, WritesTypes DEF CatchSave, At, BodyWrites
  <2>2. QED
    BY <1>8, <2>1, ValueTypes DEF CatchSave, TypeOK, Pc
<1>9. CASE MainReturns
  <2>1. /\ att["main"] \in Attempt /\ att["main"].step \in Steps /\ att["main"].out \in Artifact
    BY <1>0, AttemptTypes
  <2>2. att["main"].step # Publish =>
          Start(att["main"].step + 1, att["main"].out, 0) \in Attempt
    <3>1. 0 \in 0..MaxVersions
      BY PipelineAssumption
    <3>2. att["main"].step # Publish => att["main"].step + 1 \in Steps
      BY <2>1, StepFacts
    <3>3. QED
      BY <2>1, <3>1, <3>2, ValueTypes
  <2>3. att' \in [Attempts -> Attempt]
    BY <1>0, <1>9, <2>2, ValueTypes DEF MainReturns
  <2>4. /\ cached' \in [Steps -> BOOLEAN] /\ value' \in Artifact /\ pc' \in Pc
    BY <1>0, <1>9, <2>1 DEF MainReturns, TypeOK, Pc
  <2>5. QED
    BY <1>9, <2>3, <2>4 DEF MainReturns, TypeOK
<1>10. QED
  BY <1>1, <1>2, <1>3, <1>4, <1>5, <1>6, <1>7, <1>8, <1>9 DEF Body

\* And every trigger, error and crash.
LEMMA EnvironmentTypes ==
    ASSUME TypeOK, PromptInv, UNCHANGED prompt, LateReturns \/ Trigger \/ BodyError \/ Crash
           \/ \E w \in Attempts : AttemptError(w)
    PROVE  TypeOK'
<1>0. att \in [Attempts -> Attempt] /\ \A w \in Attempts : att[w] \in Attempt
  BY DEF TypeOK
<1>1. CASE LateReturns
  <2>1. att["main"] \in Attempt /\ att["late"].out \in Artifact
    BY <1>0, AttemptTypes DEF Attempts
  <2>2. [att["main"] EXCEPT !.out = att["late"].out] \in Attempt
    BY <2>1, AttemptTypes
  <2>3. att' \in [Attempts -> Attempt]
    BY <1>0, <1>1, <2>1, <2>2, ValueTypes DEF LateReturns, Attempts
  <2>4. QED
    BY <1>1, <2>3 DEF LateReturns, TypeOK
<1>2. CASE Trigger
  BY <1>2, ValueTypes DEF Trigger, TypeOK, Pc
<1>3. CASE BodyError
  <2>1. row' \in Row /\ saved' \in [Steps -> Seq(Artifact)]
    BY <1>3, WritesTypes DEF BodyError, TypeOK
  <2>2. QED
    BY <1>3, <2>1, ValueTypes DEF BodyError, Fault, End, TypeOK, Pc
<1>4. CASE Crash
  BY <1>4, ValueTypes DEF Crash, Fault, TypeOK, Pc
<1>5. ASSUME NEW w \in Attempts, AttemptError(w) PROVE TypeOK'
  <2>1. att[w] \in Attempt
    BY <1>0
  <2>2. /\ row' \in Row /\ saved' \in [Steps -> Seq(Artifact)]
        /\ edition' \in [status : EditionStatus, of : 0..MaxVersions]
    BY <1>5, <2>1, AttemptTypes, EffectTypes DEF AttemptError, AttemptWrites, TypeOK
  <2>3. att' \in [Attempts -> Attempt] /\ pc' \in Pc /\ tries' \in Nat
    BY <1>5, FailureTypes DEF AttemptError
  <2>4. QED
    BY <1>5, <2>2, <2>3 DEF AttemptError, Fault, TypeOK
<1>6. QED
  BY <1>1, <1>2, <1>3, <1>4, <1>5

\* The variables of a prompt run keep their types.
LEMMA TypeStep ==
    ASSUME prompt, TypeOK, PromptInv, Next
    PROVE  TypeOK'
<1>1. CASE \E w \in Attempts : AttemptStep(w)
  BY <1>1, StepTypes DEF TypeOK, Next
<1>2. CASE Timeout
  BY <1>2 DEF Timeout
<1>3. QED
  BY <1>1, <1>2, BodyTypes, EnvironmentTypes DEF Next

----------------------------------------------------------------------------
(* An attempt keeps the invariant. *)

\* The awaited attempt is one, and changing it leaves the other alone.
LEMMA MainFacts ==
    ASSUME TypeOK
    PROVE  /\ Main \in Attempt /\ Main.step \in Steps /\ Main.input \in Artifact
           /\ Main.out \in Artifact
           /\ \A x : att' = [att EXCEPT !["main"] = x] => Main' = x /\ att'["late"] = att["late"]
BY AttemptTypes DEF Main, TypeOK, Attempts

\* In a prompt run an attempt is the main one, while the run is running.
LEMMA OnlyMain ==
    ASSUME PromptInv, NEW w \in Attempts, att[w].at # "gone"
    PROVE  w = "main" /\ pc = "step" /\ inst = "running" /\ row.status = "running" /\ ~row.retryable
           /\ SavedAgree /\ AttemptFollows
<1>1. w = "main" /\ pc = "step"
  BY DEF PromptInv, OneAttempt, Main, Attempts
<1>2. QED
  BY <1>1 DEF PromptInv, OneAttempt, RowFollowsBody, Begun, FinalStatus

\* What is said of the checkpoints only depends on them and on the edition.
LEMMA SameAgree ==
    ASSUME SavedAgree, UNCHANGED <<saved, edition, versions>>
    PROVE  SavedAgree'
BY DEF SavedAgree, Completed, Latest, StatusOf

\* What the attempt was started with stays true while nothing is saved.
LEMMA SameStage ==
    ASSUME StageFollows, UNCHANGED <<saved, value>>,
           Main'.step = Main.step, Main'.input = Main.input, Main'.base = Main.base
    PROVE  StageFollows'
BY DEF StageFollows, Completed, Latest

\* A row that says running fits every place among the stages.
LEMMA RunningFits ==
    ASSUME row'.status = "running", ~row'.retryable, pc' \in Begun,
           pc' \in {"finalSave", "catchSave"} => seen' = row'
    PROVE  RowFollowsBody'
<1>1. row'.retryable <=> row'.status \in {"retryable", "partial", "failed"}
  OBVIOUS
<1>2. /\ pc' \notin {"current", "invalidate", "deleting", "begin"}
      /\ pc' \notin {"invalidate", "deleting", "begin"} /\ pc' \notin {"invalidate", "deleting"}
      /\ pc' \notin {"prune", "return"} /\ pc' # "cleanup"
  BY DEF Begun
<1>3. row'.status \notin {"missing", "published"}
  OBVIOUS
<1>4. QED
  BY <1>1, <1>2, <1>3, Zenon DEF RowFollowsBody

\* A step that leaves the stage to its attempt only has to keep what the attempt promises.
LEMMA AttemptStays ==
    ASSUME TypeOK, PromptInv, pc = "step", UNCHANGED <<pc, inst>>,
           row'.status = "running", ~row'.retryable,
           att'["late"] = att["late"], Main'.at # "gone",
           AttemptFollows', SavedAgree', EditionMade'
    PROVE  PromptInv'
<1>1. OneAttempt' /\ RowFits'
  BY DEF PromptInv, OneAttempt, RowFits, Visible
<1>2. RowFollowsBody'
  BY RunningFits DEF Begun
<1>3. QED
  BY <1>1, <1>2 DEF PromptInv

\* The fields of a fresh attempt.
LEMMA StartFields ==
    ASSUME NEW s \in Steps, NEW v \in Artifact, NEW b \in 0..MaxVersions
    PROVE  /\ Start(s, v, b).at = "getRun" /\ Start(s, v, b).step = s
           /\ Start(s, v, b).input = v /\ Start(s, v, b).base = b
<1>1. Gone \in Attempt
  BY ValueTypes
<1>2. Start(s, v, b) = [Gone EXCEPT !.at = "getRun", !.step = s, !.input = v, !.base = b]
  BY DEF Start
<1>3. QED
  BY <1>1, <1>2 DEF Attempt

\* No attempt.
LEMMA GoneFields == Gone.at = "gone"
BY DEF Gone

\* A checkpoint that is saved becomes the last of its stage and of no other.
LEMMA Appended ==
    ASSUME TypeOK, NEW k \in Steps, NEW v \in Artifact,
           saved' = [saved EXCEPT ![k] = Append(@, v)]
    PROVE  /\ saved'[k] # <<>> /\ saved'[k][Len(saved'[k])] = v
           /\ \A s \in Steps : s # k => saved'[s] = saved[s]
<1>1. saved \in [Steps -> Seq(Artifact)]
  BY DEF TypeOK
<1>2. PICK q \in Seq(Artifact) : q = saved[k]
  BY <1>1
<1>3. Append(q, v) # <<>> /\ Append(q, v)[Len(Append(q, v))] = v
  <2>1. Append(q, v) \in Seq(Artifact) /\ Len(Append(q, v)) = Len(q) + 1 /\ Len(q) \in Nat
    BY <1>2
  <2>2. Append(q, v)[Len(q) + 1] = v
    BY <1>2
  <2>3. QED
    BY <2>1, <2>2
<1>4. saved'[k] = Append(q, v)
  BY <1>1, <1>2
<1>5. QED
  BY <1>1, <1>3, <1>4

\* The checkpoint of the attempt joins those of the stages before it.
LEMMA SavedGrows ==
    ASSUME TypeOK, SavedAgree, StageFollows, OutputFollows, Main.at = "save",
           UNCHANGED <<edition, versions>>,
           saved' = [saved EXCEPT ![Main.step] = Append(@, Main.out)]
    PROVE  SavedAgree'
<1>k. PICK k \in Steps : k = Main.step
  BY MainFacts
<1>a. /\ saved'[k] # <<>> /\ saved'[k][Len(saved'[k])] = Main.out
      /\ \A s \in Steps : s # k => saved'[s] = saved[s]
  BY <1>k, MainFacts, Appended
<1> USE DEF Completed, Latest
<1>0. k \in Steps /\ ~Completed(k) /\ versions \in Nat /\ edition.of \in Nat
  BY <1>k, <1>a, MainFacts, PipelineAssumption DEF OutputFollows, TypeOK
<1>1. \A u \in Steps : u < k => Completed(u)
  BY <1>k, <1>a DEF StageFollows
<1>2. \A s \in Steps : Completed(s) => s < k
  <2> SUFFICES ASSUME NEW s \in Steps, Completed(s), ~(s < k) PROVE FALSE
    OBVIOUS
  <2>1. s # k /\ k < s
    BY <1>k, <1>a, <1>0, StepFacts
  <2>2. QED
    BY <1>k, <1>a, <1>0, <2>1 DEF SavedAgree
<1>3. \A s \in Steps : Completed(s)' => s <= k
  BY <1>k, <1>a, <1>0, <1>2, StepFacts
<1>4. \A s, u \in Steps : Completed(s)' /\ u < s => Completed(u)'
  BY <1>k, <1>a, <1>0, <1>1, <1>3, StepFacts
<1>5. \A s \in Steps : Completed(s)' => Latest(s)'.of = Main.out.of
  <2>1. CASE k = Collect
    BY <1>k, <1>a, <1>0, <1>3, <2>1, StepFacts
  <2>2. CASE k # Collect
    <3>1. Main.out.of = Latest(Collect).of /\ Completed(Collect)
      BY <1>k, <1>a, <1>0, <1>1, <2>2, StepFacts DEF StageFollows, OutputFollows
    <3>2. ASSUME NEW s \in Steps, s # k, saved'[s] # <<>>
          PROVE  saved'[s][Len(saved'[s])].of = Main.out.of
      <4>1. saved'[s] = saved[s] /\ Completed(s)
        BY <1>a, <3>2
      <4>2. Latest(s).of = Latest(Collect).of
        BY <3>1, <4>1, StepFacts DEF SavedAgree
      <4>3. QED
        BY <3>1, <4>1, <4>2
    <3>3. ASSUME NEW s \in Steps, saved'[s] # <<>>
          PROVE  saved'[s][Len(saved'[s])].of = Main.out.of
      BY <1>a, <3>2, <3>3
    <3>4. QED
      BY <3>3
  <2>3. QED
    BY <2>1, <2>2
<1>6. Main.out.of <= versions
  <2>1. CASE k = Collect
    BY <1>k, <1>a, <2>1 DEF OutputFollows
  <2>2. CASE k # Collect
    <3>1. Main.out.of = Latest(Collect).of /\ Completed(Collect)
      BY <1>k, <1>a, <1>0, <1>1, <2>2, StepFacts DEF StageFollows, OutputFollows
    <3>2. QED
      BY <1>k, <1>a, <3>1, StepFacts DEF SavedAgree
  <2>3. QED
    BY <2>1, <2>2
<1>7. \A s \in Steps : Completed(s)' /\ s >= Validate => Latest(s)'.result \in FinalStatus
  BY <1>k, <1>a, <1>0, StepFacts DEF SavedAgree, OutputFollows
<1>8. Completed(Publish)' => /\ Latest(Publish)' = Latest(Compose)'
                             /\ Visible(Latest(Publish)'.result) => edition'.status = Latest(Publish)'.result
  <2> SUFFICES ASSUME Completed(Publish)' PROVE
                 /\ Latest(Publish)' = Latest(Compose)'
                 /\ Visible(Latest(Publish)'.result) => edition'.status = Latest(Publish)'.result
    OBVIOUS
  <2>1. k = Publish
    BY <1>k, <1>a, <1>0, <1>3, StepFacts
  <2>2. Latest(Compose)' = Latest(Compose) /\ Compose # Publish
    BY <1>k, <1>a, <2>1, StepFacts
  <2>3. QED
    BY <1>k, <1>a, <2>1, <2>2, StepFacts DEF StageFollows, OutputFollows
<1>9. edition'.status # "none" /\ Completed(Collect)' =>
         \/ edition'.of < Latest(Collect)'.of
         \/ /\ edition'.of = Latest(Collect)'.of /\ Completed(Compose)'
            /\ edition'.status = StatusOf(Latest(Compose)')
  <2>1. CASE k = Collect
    <3>1. edition.status # "none" => edition.of < Main.out.of
      BY <1>k, <1>a, <2>1 DEF OutputFollows
    <3>2. QED
      BY <1>k, <1>a, <2>1, <3>1
  <2>2. CASE k # Collect
    <3>1. Completed(Collect) /\ Latest(Collect)' = Latest(Collect)
      BY <1>k, <1>a, <1>0, <1>1, <2>2, StepFacts
    <3>2. CASE Completed(Compose)
      <4>1. Compose # k /\ Latest(Compose)' = Latest(Compose) /\ Completed(Compose)'
        BY <1>k, <1>a, <1>0, <3>2, StepFacts
      <4>2. QED
        BY <1>k, <1>a, <3>1, <4>1 DEF SavedAgree
    <3>3. CASE ~Completed(Compose)
      BY <1>k, <1>a, <3>1, <3>3 DEF SavedAgree
    <3>4. QED
      BY <1>k, <1>a, <3>2, <3>3
  <2>3. QED
    BY <2>1, <2>2
<1>10. QED
  BY <1>k, <1>a, <1>4, <1>5, <1>6, <1>7, <1>8, <1>9 DEF SavedAgree, StatusOf

\* An edition that is written is that of the composition.
LEMMA WriteAgrees ==
    ASSUME TypeOK, SavedAgree, StageFollows, OutputFollows, EditionMade, Main.at = "write",
           edition' = Written(Main), UNCHANGED <<saved, versions>>
    PROVE  /\ SavedAgree' /\ EditionMade'
           /\ Main.step = Publish /\ ~Completed(Publish)
           /\ Main.input.of = Latest(Collect).of /\ Main.input.result \in FinalStatus
           /\ Visible(Main.input.result) => edition'.status = Main.input.result
<1>1. /\ Main.step = Publish /\ Main.found = edition.status /\ ~Completed(Publish)
      /\ Main.input = Latest(Compose) /\ Completed(Compose) /\ Completed(Collect)
      /\ Main.input.of = Latest(Collect).of /\ Main.input.result \in FinalStatus
  BY StepFacts DEF StageFollows, OutputFollows
<1>2. \/ edition' = edition /\ Main.input.result = "failed"
      \/ edition'.status = StatusOf(Main.input) /\ edition'.of = Main.input.of
  BY DEF Written, StatusOf
<1>3. Visible(Main.input.result) => edition'.status = Main.input.result
  BY <1>2 DEF Visible, StatusOf
<1>4. EditionMade'
  <2>1. Latest(Collect).of <= versions
    BY <1>1, StepFacts DEF SavedAgree
  <2>2. QED
    BY <1>1, <1>2, <2>1 DEF EditionMade
<1>5. SavedAgree'
  BY <1>1, <1>2, <1>4 DEF SavedAgree, EditionMade, Completed, Latest, StatusOf
<1>6. QED
  BY <1>1, <1>3, <1>4, <1>5

\* An attempt that fails is made again from its start, or the body goes to its
\* catch, whatever its failed call has written of its own stage.
LEMMA FailureKeeps ==
    ASSUME TypeOK, PromptInv, NEW w \in Attempts, att[w].at # "gone", AttemptFails(w),
           UNCHANGED <<inst, value>>, row'.status = "running", ~row'.retryable,
           SavedAgree', EditionMade',
           \A u \in Steps : u < Main.step /\ Completed(u) => saved'[u] = saved[u]
    PROVE  PromptInv'
<1>1. /\ w = "main" /\ pc = "step" /\ inst = "running" /\ StageFollows
  BY OnlyMain DEF AttemptFollows
<1>2. MainFails
  BY <1>1 DEF AttemptFails
<1>4. CASE /\ att' = [att EXCEPT !["main"] = Start(Main.step, Main.input, Main.base)]
           /\ UNCHANGED pc
  <2>1. Main' = Start(Main.step, Main.input, Main.base) /\ att'["late"] = att["late"]
    BY <1>4, MainFacts
  <2>2. /\ Main'.at = "getRun" /\ Main'.step = Main.step /\ Main'.input = Main.input
        /\ Main'.base = Main.base
    <3>1. Main.step \in Steps /\ Main.input \in Artifact /\ Main.base \in 0..MaxVersions
      BY MainFacts, AttemptTypes
    <3>2. QED
      BY <2>1, <3>1, StartFields
  <2>3. StageFollows'
    <3>k. PICK k \in Steps : k = Main.step
      BY MainFacts
    <3>1. \A u \in Steps : u < k => Completed(u)' /\ Latest(u)' = Latest(u)
      BY <1>1, <3>k DEF StageFollows, Completed, Latest
    <3>2. k > Collect => Latest(Collect)' = Latest(Collect)
      BY <3>1, StepFacts
    <3>3. k = Publish => Latest(Compose)' = Latest(Compose)
      BY <3>1, StepFacts
    <3>4. QED
      BY <1>1, <2>2, <3>k, <3>1, <3>2, <3>3, StepFacts DEF StageFollows
  <2>4. OutputFollows'
    BY <2>2 DEF OutputFollows
  <2>5. QED
    BY <1>1, <1>4, <2>1, <2>2, <2>3, <2>4, AttemptStays DEF AttemptFollows
<1>5. CASE att' = [att EXCEPT !["main"] = Gone] /\ pc' = "catchRead"
  <2>1. Main'.at = "gone" /\ att'["late"] = att["late"]
    BY <1>5, MainFacts, GoneFields
  <2>2. OneAttempt' /\ RowFits'
    BY <1>1, <1>5, <2>1 DEF PromptInv, OneAttempt, RowFits, Visible
  <2>3. RowFollowsBody'
    BY <1>5, RunningFits DEF Begun
  <2>4. QED
    BY <1>5, <2>2, <2>3 DEF PromptInv
<1>6. QED
  BY <1>2, <1>4, <1>5 DEF MainFails, Main

\* A call of an attempt that fails keeps the invariant, applied or not.
LEMMA ErrorKeeps ==
    ASSUME TypeOK, PromptInv, NEW w \in Attempts, AttemptError(w)
    PROVE  PromptInv'
<1>1. /\ att[w].at # "gone" /\ AttemptFails(w) /\ UNCHANGED <<inst, value, versions>>
  BY DEF AttemptError, In
<1>2. /\ w = "main" /\ row.status = "running" /\ ~row.retryable
      /\ SavedAgree /\ StageFollows /\ OutputFollows /\ EditionMade
  BY <1>1, OnlyMain DEF AttemptFollows, PromptInv
<1>3. Main \in Attempt /\ Main = att["main"] /\ row \in Row
  BY MainFacts DEF TypeOK, Main
<1>4. CASE UNCHANGED <<row, saved, edition>>
  <2>1. SavedAgree' /\ EditionMade'
    BY <1>1, <1>2, <1>4, SameAgree DEF EditionMade
  <2>2. QED
    BY <1>1, <1>2, <1>4, <2>1, FailureKeeps
<1>5. CASE row' = AdvancedRow(Main) /\ UNCHANGED <<saved, edition>>
  <2>1. row'.status = "running" /\ ~row'.retryable
    BY <1>3, <1>5 DEF AdvancedRow, Attempt, Row
  <2>2. SavedAgree' /\ EditionMade'
    BY <1>1, <1>2, <1>5, SameAgree DEF EditionMade
  <2>3. QED
    BY <1>1, <1>5, <2>1, <2>2, FailureKeeps
<1>6. CASE Main.at = "write" /\ edition' = Written(Main) /\ UNCHANGED <<row, saved>>
  <2>1. SavedAgree' /\ EditionMade'
    BY <1>1, <1>2, <1>6, WriteAgrees
  <2>2. QED
    BY <1>1, <1>2, <1>6, <2>1, FailureKeeps
<1>7. CASE Main.at = "save" /\ saved' = SavedBy(Main) /\ UNCHANGED <<row, edition>>
  <2>1. SavedAgree' /\ EditionMade'
    BY <1>1, <1>2, <1>7, SavedGrows DEF SavedBy, EditionMade
  <2>2. \A u \in Steps : u < Main.step => saved'[u] = saved[u]
    BY <1>3, <1>7, MainFacts, StepFacts DEF SavedBy, TypeOK
  <2>3. QED
    BY <1>1, <1>2, <1>7, <2>1, <2>2, FailureKeeps
<1>8. QED
  BY <1>2, <1>3, <1>4, <1>5, <1>6, <1>7 DEF AttemptError, AttemptWrites, In

\* Every step of an attempt keeps the invariant.
LEMMA AttemptKeeps ==
    ASSUME TypeOK, PromptInv, NEW w \in Attempts, AttemptStep(w)
    PROVE  PromptInv'
<1>0. att[w].at # "gone"
  BY DEF AttemptStep, AttemptGetRun, AttemptCheck, AttemptMark, AttemptWork, AttemptSelect,
         AttemptWrite, AttemptSave, AttemptReread, AttemptFinish, AttemptThrows, In
<1>1. /\ w = "main" /\ pc = "step" /\ inst = "running" /\ row.status = "running" /\ ~row.retryable
      /\ SavedAgree /\ StageFollows /\ OutputFollows /\ EditionMade
  BY <1>0, OnlyMain DEF AttemptFollows, PromptInv
<1>2. UNCHANGED <<inst, value>>
  BY DEF AttemptStep, AttemptGetRun, AttemptCheck, AttemptMark, AttemptWork, AttemptSelect,
         AttemptWrite, AttemptSave, AttemptReread, AttemptFinish, AttemptThrows
<1>3. /\ Main \in Attempt /\ att \in [Attempts -> Attempt] /\ "main" \in Attempts
      /\ Main = att["main"] /\ row \in Row
  BY MainFacts DEF TypeOK, Attempts, Main
<1>4. CASE AttemptGetRun(w)
  <2>1. att' = [att EXCEPT !["main"] = [Main EXCEPT !.at = "check", !.snap = row]]
    BY <1>1, <1>3, <1>4 DEF AttemptGetRun
  <2>2. /\ Main'.at = "check" /\ Main'.step = Main.step /\ Main'.input = Main.input
        /\ Main'.base = Main.base /\ att'["late"] = att["late"]
    <3>1. Main' = [Main EXCEPT !.at = "check", !.snap = row] /\ att'["late"] = att["late"]
      BY <2>1, MainFacts
    <3>2. QED
      BY <1>3, <3>1 DEF Attempt
  <2>3. UNCHANGED <<row, saved, edition, versions, pc>>
    BY <1>4 DEF AttemptGetRun
  <2>4. StageFollows' /\ SavedAgree' /\ EditionMade'
    BY <1>1, <1>2, <2>2, <2>3, SameStage, SameAgree DEF EditionMade
  <2>5. OutputFollows'
    BY <2>2 DEF OutputFollows
  <2>6. QED
    BY <1>1, <1>2, <2>2, <2>3, <2>4, <2>5, AttemptStays DEF AttemptFollows
<1>5. CASE AttemptCheck(w)
  <2>1. UNCHANGED <<row, saved, edition, versions, pc>>
    BY <1>5 DEF AttemptCheck
  <2>2. /\ Main'.step = Main.step /\ Main'.input = Main.input
        /\ Main'.base = Main.base /\ att'["late"] = att["late"]
        /\ \/ Main'.at \in {"mark", "return"} /\ Main'.out = Latest(Main.step) /\ Completed(Main.step)
           \/ Main'.at = "work" /\ ~Completed(Main.step)
    <3>1. CASE Stored(w)
      <4>1. PICK l \in {"mark", "return"} :
               att' = [att EXCEPT !["main"] = [Main EXCEPT !.at = l, !.out = Latest(Main.step)]]
        BY <1>1, <1>3, <1>5, <3>1 DEF AttemptCheck
      <4>2. Main' = [Main EXCEPT !.at = l, !.out = Latest(Main.step)] /\ att'["late"] = att["late"]
        BY <4>1, MainFacts
      <4>3. QED
        BY <1>1, <1>3, <3>1, <4>2 DEF Attempt, Stored
    <3>2. CASE ~Stored(w)
      <4>1. att' = [att EXCEPT !["main"] = [Main EXCEPT !.at = "work", !.snap = PendingRow]]
        BY <1>1, <1>3, <1>5, <3>2 DEF AttemptCheck
      <4>2. Main' = [Main EXCEPT !.at = "work", !.snap = PendingRow] /\ att'["late"] = att["late"]
        BY <4>1, MainFacts
      <4>3. QED
        BY <1>1, <1>3, <3>2, <4>2 DEF Attempt, Stored
    <3>3. QED
      BY <3>1, <3>2
  <2>3. StageFollows' /\ SavedAgree' /\ EditionMade'
    BY <1>1, <1>2, <2>1, <2>2, SameStage, SameAgree DEF EditionMade
  <2>4. OutputFollows'
    BY <2>1, <2>2 DEF OutputFollows, Completed, Latest
  <2>5. QED
    BY <1>1, <1>2, <2>1, <2>2, <2>3, <2>4, AttemptStays DEF AttemptFollows
<1>6. CASE AttemptMark(w) \/ AttemptFinish(w)
  <2>1. /\ att' = [att EXCEPT !["main"] = [Main EXCEPT !.at = "return", !.snap = PendingRow]]
        /\ row' = AdvancedRow(Main) /\ UNCHANGED <<saved, edition, versions, pc>>
        /\ Main.at \in {"mark", "finish"}
    BY <1>1, <1>3, <1>6 DEF AttemptMark, AttemptFinish, In
  <2>2. /\ Main'.at = "return" /\ Main'.step = Main.step /\ Main'.input = Main.input
        /\ Main'.base = Main.base /\ Main'.out = Main.out /\ att'["late"] = att["late"]
    <3>1. Main' = [Main EXCEPT !.at = "return", !.snap = PendingRow] /\ att'["late"] = att["late"]
      BY <2>1, MainFacts
    <3>2. QED
      BY <1>3, <3>1 DEF Attempt
  <2>3. row'.status = "running" /\ ~row'.retryable
    BY <1>3, <2>1 DEF AdvancedRow, Attempt, Row
  <2>4. StageFollows' /\ SavedAgree' /\ EditionMade'
    BY <1>1, <1>2, <2>1, <2>2, SameStage, SameAgree DEF EditionMade
  <2>5. OutputFollows'
    BY <1>1, <2>1, <2>2 DEF OutputFollows, Completed, Latest
  <2>6. QED
    BY <1>1, <1>2, <2>1, <2>2, <2>3, <2>4, <2>5, AttemptStays DEF AttemptFollows
<1>7. CASE AttemptWork(w)
  <2>1. PICK v \in Outputs(Main) :
           att' = [att EXCEPT !["main"] = [Main EXCEPT !.at = "save", !.out = v]]
    BY <1>1, <1>3, <1>7 DEF AttemptWork
  <2>2. /\ Main'.at = "save" /\ Main'.step = Main.step /\ Main'.input = Main.input
        /\ Main'.base = Main.base /\ Main'.out = v /\ att'["late"] = att["late"]
    <3>1. Main' = [Main EXCEPT !.at = "save", !.out = v] /\ att'["late"] = att["late"]
      BY <2>1, MainFacts
    <3>2. QED
      BY <1>3, <3>1 DEF Attempt
  <2>3. /\ UNCHANGED <<row, saved, edition, pc>> /\ Main.at = "work" /\ Main.step # Publish
        /\ versions' = IF Main.step = Collect THEN versions + 1 ELSE versions
        /\ versions \in Nat
    BY <1>1, <1>3, <1>7, PipelineAssumption DEF AttemptWork, TypeOK, In
  <2>4. v.result \in FinalStatus \/ Main.step < Validate
    <3>1. CASE Main.step = Validate
      BY <2>1, <3>1, StepFacts, MainFacts DEF Outputs, Artifact
    <3>2. CASE Main.step = Compose
      BY <1>1, <2>1, <3>2, StepFacts, MainFacts DEF Outputs, Artifact, StageFollows
    <3>3. QED
      BY <2>3, <3>1, <3>2, StepFacts, MainFacts
  <2>5. IF Main.step = Collect THEN v.of = versions + 1 ELSE v.of = Main.input.of
    BY <2>1, StepFacts, MainFacts DEF Outputs, Artifact
  <2>6. StageFollows'
    BY <1>1, <1>2, <2>2, <2>3, SameStage
  <2>7. SavedAgree' /\ EditionMade'
    <3>1. \A s \in Steps : Completed(s) => Latest(s).of \in Nat
      BY LatestType, PipelineAssumption DEF Artifact
    <3>2. edition.of \in Nat /\ versions' \in Nat /\ versions <= versions'
      BY <2>3, PipelineAssumption DEF TypeOK
    <3>3. EditionMade'
      BY <1>1, <2>3, <3>2 DEF EditionMade
    <3>4. \A s \in Steps : Completed(s) => Latest(s).of <= versions'
      BY <1>1, <2>3, <3>1, <3>2 DEF SavedAgree
    <3>5. QED
      BY <1>1, <2>3, <3>3, <3>4 DEF SavedAgree, Completed, Latest, StatusOf
  <2>8. OutputFollows'
    <3>1. edition.of \in Nat
      BY PipelineAssumption DEF TypeOK
    <3>2. ~Completed(Main.step)
      BY <1>1, <2>3 DEF OutputFollows
    <3>3. edition.status # "none" => edition.of < versions + 1
      BY <1>1, <2>3, <3>1 DEF EditionMade
    <3>4. ~Completed(Main.step)'
      BY <2>2, <2>3, <3>2 DEF Completed
    <3>5. QED
      BY <2>2, <2>3, <2>4, <2>5, <3>3, <3>4, StepFacts, MainFacts DEF OutputFollows
  <2>9. QED
    BY <1>1, <1>2, <2>2, <2>3, <2>6, <2>7, <2>8, AttemptStays DEF AttemptFollows
<1>8. CASE AttemptSelect(w)
  <2>1. /\ att' = [att EXCEPT !["main"] = [Main EXCEPT !.at = "write", !.found = edition.status]]
        /\ UNCHANGED <<row, saved, edition, versions, pc>> /\ Main.at = "work" /\ Main.step = Publish
    BY <1>1, <1>3, <1>8 DEF AttemptSelect, In
  <2>2. /\ Main'.at = "write" /\ Main'.step = Main.step /\ Main'.input = Main.input
        /\ Main'.base = Main.base /\ Main'.found = edition.status /\ att'["late"] = att["late"]
    <3>1. Main' = [Main EXCEPT !.at = "write", !.found = edition.status] /\ att'["late"] = att["late"]
      BY <2>1, MainFacts
    <3>2. QED
      BY <1>3, <3>1 DEF Attempt
  <2>3. StageFollows' /\ SavedAgree' /\ EditionMade'
    BY <1>1, <1>2, <2>1, <2>2, SameStage, SameAgree DEF EditionMade
  <2>4. OutputFollows'
    BY <1>1, <2>1, <2>2 DEF OutputFollows, Completed
  <2>5. QED
    BY <1>1, <1>2, <2>1, <2>2, <2>3, <2>4, AttemptStays DEF AttemptFollows
<1>9. CASE AttemptWrite(w)
  <2>1. /\ att' = [att EXCEPT !["main"] = [Main EXCEPT !.at = "save", !.out = Main.input, !.found = "none"]]
        /\ UNCHANGED <<row, saved, versions, pc>> /\ Main.at = "write"
        /\ edition' = Written(Main)
    BY <1>1, <1>3, <1>9 DEF AttemptWrite, In
  <2>2. /\ Main'.at = "save" /\ Main'.step = Main.step /\ Main'.input = Main.input
        /\ Main'.base = Main.base /\ Main'.out = Main.input /\ att'["late"] = att["late"]
    <3>1. Main' = [Main EXCEPT !.at = "save", !.out = Main.input, !.found = "none"] /\ att'["late"] = att["late"]
      BY <2>1, MainFacts
    <3>2. QED
      BY <1>3, <3>1 DEF Attempt
  <2>3. /\ SavedAgree' /\ EditionMade' /\ Main.step = Publish /\ ~Completed(Publish)
        /\ Main.input.of = Latest(Collect).of /\ Main.input.result \in FinalStatus
        /\ Visible(Main.input.result) => edition'.status = Main.input.result
    BY <1>1, <2>1, WriteAgrees
  <2>4. StageFollows'
    BY <1>1, <1>2, <2>1, <2>2, SameStage
  <2>5. OutputFollows'
    BY <2>1, <2>2, <2>3, StepFacts DEF OutputFollows, Completed
  <2>6. QED
    BY <1>1, <1>2, <2>1, <2>2, <2>3, <2>4, <2>5, AttemptStays DEF AttemptFollows
<1>10. CASE AttemptSave(w)
  <2>1. /\ att' = [att EXCEPT !["main"] = [Main EXCEPT !.at = "reread"]]
        /\ saved' = [saved EXCEPT ![Main.step] = Append(@, Main.out)]
        /\ UNCHANGED <<row, edition, versions, pc>> /\ Main.at = "save"
    BY <1>1, <1>3, <1>10 DEF AttemptSave, SavedBy, In
  <2>2. /\ Main'.at = "reread" /\ Main'.step = Main.step /\ Main'.input = Main.input
        /\ Main'.base = Main.base /\ Main'.out = Main.out /\ att'["late"] = att["late"]
    <3>1. Main' = [Main EXCEPT !.at = "reread"] /\ att'["late"] = att["late"]
      BY <2>1, MainFacts
    <3>2. QED
      BY <1>3, <3>1 DEF Attempt
  <2>k. PICK k \in Steps : k = Main.step
    BY MainFacts
  <2>3. \A s \in Steps : s # k => saved'[s] = saved[s]
    BY <2>1, <2>k, MainFacts, Appended
  <2>3b. saved'[k] # <<>> /\ saved'[k][Len(saved'[k])] = Main.out
    BY <2>1, <2>k, MainFacts, Appended
  <2>4. SavedAgree'
    BY <1>1, <2>1, SavedGrows
  <2>5. StageFollows'
    <3>1. \A s \in Steps : s < k => (Completed(s)' <=> Completed(s)) /\ Latest(s)' = Latest(s)
      BY <2>3, StepFacts DEF Completed, Latest
    <3>2. \A s \in Steps : s < k => Completed(s)'
      BY <1>1, <2>k, <3>1 DEF StageFollows
    <3>3. k > Collect => Latest(Collect)' = Latest(Collect)
      BY <3>1, StepFacts
    <3>4. k = Publish => Latest(Compose)' = Latest(Compose)
      BY <3>1, StepFacts
    <3>5. QED
      BY <1>1, <1>2, <2>2, <2>k, <3>2, <3>3, <3>4, StepFacts DEF StageFollows
  <2>6. OutputFollows' /\ EditionMade'
    <3>1. Completed(k)' /\ Latest(k)' = Main.out
      BY <2>3b DEF Completed, Latest
    <3>2. QED
      BY <1>1, <2>1, <2>2, <2>k, <3>1 DEF OutputFollows, EditionMade
  <2>7. QED
    BY <1>1, <1>2, <2>1, <2>2, <2>4, <2>5, <2>6, AttemptStays DEF AttemptFollows
<1>11. CASE AttemptReread(w)
  <2>1. /\ att' = [att EXCEPT !["main"] = [Main EXCEPT !.at = "finish", !.snap = row]]
        /\ UNCHANGED <<row, saved, edition, versions, pc>> /\ Main.at = "reread"
    BY <1>1, <1>3, <1>11 DEF AttemptReread, In
  <2>2. /\ Main'.at = "finish" /\ Main'.step = Main.step /\ Main'.input = Main.input
        /\ Main'.base = Main.base /\ Main'.out = Main.out /\ att'["late"] = att["late"]
    <3>1. Main' = [Main EXCEPT !.at = "finish", !.snap = row] /\ att'["late"] = att["late"]
      BY <2>1, MainFacts
    <3>2. QED
      BY <1>3, <3>1 DEF Attempt
  <2>3. StageFollows' /\ SavedAgree' /\ EditionMade'
    BY <1>1, <1>2, <2>1, <2>2, SameStage, SameAgree DEF EditionMade
  <2>4. OutputFollows'
    BY <1>1, <2>1, <2>2 DEF OutputFollows, Completed, Latest
  <2>5. QED
    BY <1>1, <1>2, <2>1, <2>2, <2>3, <2>4, AttemptStays DEF AttemptFollows
<1>12. CASE AttemptThrows(w)
  <2>1. AttemptFails(w) /\ UNCHANGED <<row, saved, edition, versions>>
    BY <1>12 DEF AttemptThrows
  <2>2. SavedAgree' /\ EditionMade'
    BY <1>1, <2>1, SameAgree DEF EditionMade
  <2>3. QED
    BY <1>0, <1>1, <1>2, <2>1, <2>2, FailureKeeps
<1>13. QED
  BY <1>4, <1>5, <1>6, <1>7, <1>8, <1>9, <1>10, <1>11, <1>12 DEF AttemptStep

----------------------------------------------------------------------------
(* The body of run() keeps the invariant. *)

\* The body writes nothing and holds no attempt: only what its place promises
\* is left to show.
LEMMA Elsewhere ==
    ASSUME PromptInv, pc # "step", pc' # "step", UNCHANGED <<row, saved, edition, versions, att>>,
           inst' = "running" <=> pc' # "end"
    PROVE  /\ OneAttempt' /\ RowFits' /\ EditionMade'
           /\ row.status \notin FinalStatus \/ pc \in {"begin", "catchRead", "catchSave"} => SavedAgree'
<1>1. OneAttempt' /\ RowFits' /\ EditionMade'
  BY DEF PromptInv, OneAttempt, RowFits, EditionMade, Main
<1>2. SavedAgree => SavedAgree'
  BY SameAgree
<1>3. QED
  BY <1>1, <1>2 DEF PromptInv

\* Before the stages the row is read, and a run with an outcome to repair sent
\* to the deletions.
LEMMA EntryKeeps ==
    ASSUME TypeOK, PromptInv, Load \/ Current \/ Invalidate
    PROVE  PromptInv'
<1>1. /\ pc \in {"load", "current", "invalidate"} /\ inst = "running"
      /\ UNCHANGED <<row, saved, edition, versions, att>>
      /\ pc' \in {"ensure", "end", "invalidate", "begin", "deleting"}
      /\ inst' = "running" <=> pc' # "end"
  BY DEF Load, Current, Invalidate, At, End
<1>2. /\ OneAttempt' /\ RowFits' /\ EditionMade'
      /\ row.status \notin FinalStatus \/ pc \in {"begin", "catchRead", "catchSave"} => SavedAgree'
  BY <1>1, Elsewhere
<1>3. CASE Load
  <2>1. RowFollowsBody' /\ pc' # "begin"
    BY <1>1, <1>3 DEF Load, End, At, PromptInv, RowFollowsBody, Begun
  <2>2. QED
    BY <1>1, <1>2, <1>3, <2>1 DEF Load, At, End, PromptInv
<1>4. CASE Current
  <2>1. RowFollowsBody'
    BY <1>1, <1>4 DEF Current, End, At, PromptInv, RowFollowsBody, Begun, Repairs
  <2>2. pc' = "begin" => row.status \notin FinalStatus
    BY <1>1, <1>4 DEF Current, End, At, PromptInv, RowFollowsBody, Repairs, FinalStatus
  <2>3. pc' \in {"end", "invalidate", "begin"} /\ UNCHANGED <<row, doomed>>
    BY <1>4 DEF Current, End
  <2>4. QED
    BY <1>1, <1>2, <2>1, <2>2, <2>3 DEF PromptInv
<1>5. CASE Invalidate
  <2>1. RowFollowsBody' /\ pc' = "deleting" /\ row' = row
    BY <1>1, <1>5 DEF Invalidate, At, PromptInv, RowFollowsBody, Begun
  <2>2. \A s \in Steps : doomed'[s] = Len(saved'[s])
    BY <1>5 DEF Invalidate, InvalidatedSteps
  <2>3. QED
    BY <1>1, <1>2, <2>1, <2>2 DEF PromptInv
<1>6. QED
  BY <1>3, <1>4, <1>5

\* The launcher's row is created.
LEMMA EnsureKeeps ==
    ASSUME TypeOK, PromptInv, Ensure
    PROVE  PromptInv'
<1>1. /\ pc = "ensure" /\ pc' = "current" /\ inst = "running"
      /\ UNCHANGED <<saved, edition, versions, att, inst, seen, doomed, value>>
  BY DEF Ensure, At
<1>2. /\ row'.status = "missing" => FALSE
      /\ \/ row' = row
         \/ row'.status = "pending" /\ ~row'.retryable /\ row.status = "missing"
  BY DEF Ensure, EnsuredRow, PendingRow
<1>3. OneAttempt' /\ RowFits' /\ EditionMade'
  BY <1>1, <1>2 DEF PromptInv, OneAttempt, RowFits, EditionMade, Main, Visible
<1>4. RowFollowsBody'
  BY <1>1, <1>2 DEF PromptInv, RowFollowsBody, Begun
<1>5. row'.status \notin FinalStatus => SavedAgree'
  BY <1>1, <1>2, SameAgree DEF PromptInv, FinalStatus
<1>6. QED
  BY <1>1, <1>3, <1>4, <1>5 DEF PromptInv

\* Deleting goes on to no checkpoint at all.
LEMMA DeleteKeeps ==
    ASSUME TypeOK, PromptInv, Delete
    PROVE  PromptInv'
<1>1. /\ pc = "deleting" /\ inst = "running" /\ saved \in [Steps -> Seq(Artifact)]
      /\ doomed \in [Steps -> Nat] /\ \A s \in Steps : doomed[s] = Len(saved[s])
      /\ UNCHANGED <<row, edition, versions, inst, seen, value, att>>
  BY DEF Delete, At, PromptInv, TypeOK
<1>2. pc' \in {"deleting", "begin"}
  BY <1>1 DEF Delete
<1>3. OneAttempt' /\ RowFits' /\ EditionMade'
  BY <1>1, <1>2 DEF PromptInv, OneAttempt, RowFits, EditionMade, Main
<1>4. RowFollowsBody' /\ row.status \in FinalStatus
  BY <1>1, <1>2 DEF PromptInv, RowFollowsBody, Begun, FinalStatus
<1>5. CASE pc' = "begin"
  <2>1. saved' = saved /\ \A s \in Steps : Len(saved[s]) = 0
    BY <1>1, <1>5 DEF Delete
  <2>2. \A s \in Steps : ~Completed(s)'
    BY <1>1, <2>1 DEF Completed
  <2>3. SavedAgree'
    BY <2>2, StepFacts DEF SavedAgree
  <2>4. QED
    BY <1>1, <1>3, <1>4, <1>5, <2>3 DEF PromptInv
<1>6. CASE pc' # "begin"
  <2>1. PICK s \in Steps : /\ doomed[s] > 0
                           /\ doomed' = [doomed EXCEPT ![s] = @ - 1]
                           /\ saved' = [saved EXCEPT ![s] = Tail(@)]
    BY <1>6 DEF Delete, DeleteRow
  <2>2. \A u \in Steps : doomed'[u] = Len(saved'[u])
    <3>1. PICK q \in Seq(Artifact) : q = saved[s]
      BY <1>1
    <3>2. Len(q) > 0 /\ Len(Tail(q)) = Len(q) - 1
      <4>1. Len(q) > 0
        BY <1>1, <2>1, <3>1
      <4>2. q # <<>>
        BY <4>1
      <4>3. QED
        BY <4>1, <4>2
    <3>3. saved'[s] = Tail(q) /\ doomed'[s] = Len(q) - 1
      BY <1>1, <2>1, <3>1
    <3>4. \A u \in Steps : u # s => saved'[u] = saved[u] /\ doomed'[u] = doomed[u]
      BY <1>1, <2>1
    <3>5. QED
      BY <1>1, <3>2, <3>3, <3>4
  <2>3. QED
    BY <1>1, <1>2, <1>3, <1>4, <1>6, <2>2 DEF PromptInv
<1>7. QED
  BY <1>5, <1>6

\* The first stage is awaited, with no edition of what it will collect.
LEMMA BeginKeeps ==
    ASSUME TypeOK, PromptInv, Begin
    PROVE  PromptInv'
<1>1. /\ pc = "begin" /\ pc' = "step" /\ inst = "running" /\ row' = BegunRow(seen)
      /\ att' = [att EXCEPT !["main"] = Start(Collect, NoValue, 0)]
      /\ UNCHANGED <<saved, edition, versions, inst, value>>
  BY DEF Begin, At
<1>2. SavedAgree' /\ EditionMade'
  BY <1>1, SameAgree DEF PromptInv, EditionMade
<1>3. Main' = Start(Collect, NoValue, 0) /\ att'["late"] = att["late"]
  BY <1>1, MainFacts
<1>4. Main'.at = "getRun" /\ Main'.step = Collect
  BY <1>3, StartFields, StepFacts, ValueTypes, PipelineAssumption
<1>5. row'.status = "running" /\ ~row'.retryable
  BY <1>1 DEF BegunRow, TypeOK, Row
<1>6. StageFollows'
  BY <1>4, StepFacts DEF StageFollows
<1>7. OutputFollows'
  BY <1>4 DEF OutputFollows
<1>8. OneAttempt' /\ RowFits'
  BY <1>1, <1>3, <1>4, <1>5 DEF PromptInv, OneAttempt, RowFits, Visible
<1>9. RowFollowsBody'
  BY <1>1, <1>5, RunningFits DEF Begun
<1>10. QED
  BY <1>1, <1>2, <1>6, <1>7, <1>8, <1>9 DEF PromptInv, AttemptFollows

\* What the body takes between two stages, and the row it reads after them.
LEMMA ReadsKeep ==
    ASSUME TypeOK, PromptInv, ReadBase \/ ReadRow
    PROVE  PromptInv'
<1>1. /\ pc \in {"base", "finalRead", "catchRead"} /\ inst = "running"
      /\ UNCHANGED <<row, saved, edition, versions, inst, value>>
      /\ pc' \in {"step", "catchRead", "finalSave", "catchSave"} /\ (pc = "catchRead" <=> pc' = "catchSave")
  BY DEF ReadBase, ReadRow, At
<1>s. /\ row.retryable <=> row.status \in {"retryable", "partial", "failed"}
      /\ row.status = "running" \/ (pc = "catchRead" /\ row.status \in FinalStatus)
  BY <1>1 DEF PromptInv, RowFollowsBody, Begun
<1>2. SavedAgree /\ SavedAgree' /\ EditionMade'
  BY <1>1, <1>s, SameAgree DEF PromptInv, EditionMade, FinalStatus
<1>3. CASE ReadRow \/ (ReadBase /\ ~Completed(Normalize))
  <2>1. /\ pc' \in {"catchRead", "finalSave", "catchSave"} /\ att' = att
        /\ pc' \in {"finalSave", "catchSave"} => seen' = row
        /\ pc' = "finalSave" => pc = "finalRead"
    BY <1>3 DEF ReadRow, ReadBase, At
  <2>2. OneAttempt' /\ RowFits'
    BY <1>1, <2>1 DEF PromptInv, OneAttempt, RowFits, Main
  <2>3. RowFollowsBody'
    <3>1. CASE row.status = "running"
      BY <1>1, <1>s, <2>1, <3>1, RunningFits DEF Begun
    <3>2. CASE pc' = "catchSave" /\ row.status \in FinalStatus
      BY <1>1, <1>s, <2>1, <3>2 DEF RowFollowsBody, Begun
    <3>3. QED
      BY <1>1, <1>s, <3>1, <3>2
  <2>4. pc' = "finalSave" => (Completed(Publish) /\ value = Latest(Publish))'
    BY <1>1, <2>1 DEF PromptInv, Completed, Latest
  <2>5. QED
    BY <1>2, <2>1, <2>2, <2>3, <2>4 DEF PromptInv
<1>4. CASE ReadBase /\ Completed(Normalize)
  <2>1. /\ att' = [att EXCEPT !["main"] = Start(Compose, value, Latest(Normalize).of)]
        /\ pc = "base" /\ pc' = "step"
    BY <1>4 DEF ReadBase, At
  <2>2. Latest(Normalize).of \in 0..MaxVersions /\ value \in Artifact
    BY <1>4, StepFacts, LatestType DEF TypeOK, Artifact
  <2>3. Main' = Start(Compose, value, Latest(Normalize).of) /\ att'["late"] = att["late"]
    BY <2>1, MainFacts
  <2>4. /\ Main'.at = "getRun" /\ Main'.step = Compose /\ Main'.input = value
        /\ Main'.base = Latest(Normalize).of
    BY <2>2, <2>3, StartFields, StepFacts
  <2>5. Completed(Validate) /\ value = Latest(Validate)
    BY <2>1 DEF PromptInv
  <2>6. StageFollows'
    <3>1. \A u \in Steps : u < Compose => Completed(u)
      <4> SUFFICES ASSUME NEW u \in Steps, u < Compose PROVE Completed(u)
        OBVIOUS
      <4>1. u = Validate \/ u < Validate
        BY StepFacts
      <4>2. QED
        BY <1>2, <2>5, <4>1, StepFacts DEF SavedAgree
    <3>2. Completed(Collect)
      BY <3>1, StepFacts
    <3>3. value.of = Latest(Collect).of /\ Latest(Normalize).of = Latest(Collect).of
      BY <1>2, <1>4, <2>5, <3>2, StepFacts DEF SavedAgree
    <3>4. value.result \in FinalStatus
      BY <1>2, <2>5, StepFacts DEF SavedAgree
    <3>5. QED
      BY <1>1, <2>4, <3>1, <3>3, <3>4, StepFacts DEF StageFollows, Completed, Latest
  <2>7. OutputFollows'
    BY <2>4 DEF OutputFollows
  <2>8. OneAttempt' /\ RowFits'
    BY <1>1, <2>1, <2>3, <2>4 DEF PromptInv, OneAttempt, RowFits
  <2>9. RowFollowsBody'
    BY <1>1, <1>s, <2>1, RunningFits DEF Begun
  <2>10. QED
    BY <1>2, <2>1, <2>6, <2>7, <2>8, <2>9 DEF PromptInv, AttemptFollows
<1>5. QED
  BY <1>3, <1>4

\* The final row has the status of the composition, which the edition has too
\* when readers see it.
LEMMA FinalFacts ==
    ASSUME TypeOK, PromptInv, pc = "finalSave", row' = FinalRow(seen, value)
    PROVE  /\ row.status = "running" /\ SavedAgree
           /\ row'.status = value.result /\ value.result \in FinalStatus
           /\ row'.retryable = (value.result \in {"partial", "failed"})
           /\ Visible(value.result) => edition.status = value.result
<1>1. row.status = "running" /\ seen = row /\ row \in Row
  BY DEF PromptInv, RowFollowsBody, Begun, TypeOK
<1>2. SavedAgree
  BY <1>1 DEF PromptInv, FinalStatus
<1>3. Completed(Publish) /\ value = Latest(Publish)
  BY DEF PromptInv
<1>4. value.result \in FinalStatus /\ (Visible(value.result) => edition.status = value.result)
  BY <1>2, <1>3, StepFacts DEF SavedAgree
<1>5. row'.status = value.result /\ row'.retryable = (value.result \in {"partial", "failed"})
  <2> DEFINE again == value.result \in {"partial", "failed"}
  <2> HIDE DEF again
  <2>1. row' = [[[row EXCEPT !.status = value.result] EXCEPT !.step = Publish] EXCEPT !.retryable = again]
    BY <1>1 DEF FinalRow, again
  <2>2. row'.status = value.result /\ row'.retryable = again
    BY <1>1, <2>1 DEF Row
  <2>3. QED
    BY <2>2 DEF again
<1>6. QED
  BY <1>1, <1>2, <1>4, <1>5

\* The row takes the outcome or the error.
LEMMA SavesKeep ==
    ASSUME TypeOK, PromptInv, FinalSave \/ CatchSave
    PROVE  PromptInv'
<1>1. /\ pc \in {"finalSave", "catchSave"} /\ inst = "running"
      /\ pc' \in {"prune", "return", "cleanup"}
      /\ UNCHANGED <<saved, edition, versions, inst, value, att>>
      /\ seen = row /\ row \in Row
  BY DEF FinalSave, CatchSave, At, PromptInv, RowFollowsBody, TypeOK
<1>2. SavedAgree' /\ EditionMade'
  BY <1>1, SameAgree DEF PromptInv, EditionMade, RowFollowsBody, Begun, FinalStatus
<1>3. OneAttempt'
  BY <1>1 DEF PromptInv, OneAttempt, Main
<1>4. CASE FinalSave
  <2>1. /\ pc = "finalSave" /\ row' = FinalRow(row, value)
        /\ pc' \in {"prune", "return"}
    BY <1>1, <1>4 DEF FinalSave, At
  <2>2. /\ row'.status = value.result /\ row'.retryable = (value.result \in {"partial", "failed"})
        /\ value.result \in FinalStatus /\ (Visible(value.result) => edition.status = value.result)
    BY <1>1, <2>1, FinalFacts
  <2>5. RowFits' /\ RowFollowsBody'
    BY <1>1, <2>1, <2>2 DEF RowFits, RowFollowsBody, FinalStatus, Begun
  <2>6. QED
    BY <1>2, <1>3, <2>1, <2>5 DEF PromptInv
<1>5. CASE CatchSave
  <2>1. row'.status = "retryable" /\ row'.retryable /\ pc' = "cleanup"
    BY <1>1, <1>5 DEF CatchSave, CatchRow, Row
  <2>2. RowFits' /\ RowFollowsBody'
    BY <2>1 DEF RowFits, RowFollowsBody, Visible, Begun
  <2>3. QED
    BY <1>2, <1>3, <2>1, <2>2 DEF PromptInv
<1>6. QED
  BY <1>4, <1>5

\* The instance ends where the row is settled.
LEMMA FinishKeeps ==
    ASSUME TypeOK, PromptInv, Finish
    PROVE  PromptInv'
<1>1. /\ pc \in {"prune", "return", "cleanup"} /\ pc' = "end" /\ inst' # "running"
      /\ UNCHANGED <<row, saved, edition, versions, att>>
  BY DEF Finish, At, End
<1>2. /\ OneAttempt' /\ RowFits' /\ EditionMade'
      /\ row.status \notin FinalStatus \/ pc \in {"begin", "catchRead", "catchSave"} => SavedAgree'
  BY <1>1, Elsewhere
<1>3. RowFollowsBody'
  BY <1>1 DEF PromptInv, RowFollowsBody, Begun
<1>4. QED
  BY <1>1, <1>2, <1>3 DEF PromptInv

\* The body goes from a completed stage to the next, or to what follows it.
LEMMA ReturnKeeps ==
    ASSUME TypeOK, PromptInv, MainReturns
    PROVE  PromptInv'
<1>1. /\ Main.at = "return" /\ UNCHANGED <<row, saved, edition, versions, inst, seen, doomed>>
      /\ value' = IF Main.step = Publish THEN value ELSE Main.out
      /\ pc' = IF Main.step = Validate THEN "base"
               ELSE IF Main.step = Publish THEN "finalRead" ELSE "step"
      /\ att' = [att EXCEPT !["main"] = IF Main.step \in {Validate, Publish}
                                          THEN Gone ELSE Start(Main.step + 1, Main.out, 0)]
  BY DEF MainReturns, In, Main
<1>2. /\ pc = "step" /\ inst = "running" /\ row.status = "running" /\ ~row.retryable
      /\ SavedAgree /\ StageFollows /\ OutputFollows /\ EditionMade
  BY <1>1, OnlyMain DEF AttemptFollows, PromptInv, Main, Attempts
<1>3. SavedAgree' /\ EditionMade'
  BY <1>1, <1>2, SameAgree DEF EditionMade
<1>k. PICK k \in Steps : k = Main.step
  BY MainFacts
<1>4. Completed(k) /\ Main.out = Latest(k)
  BY <1>1, <1>2, <1>k DEF OutputFollows
<1>5. CASE k \in {Validate, Publish}
  <2>1. Main'.at = "gone" /\ att'["late"] = att["late"]
    BY <1>1, <1>5, <1>k, MainFacts, GoneFields
  <2>2. pc' \in {"base", "finalRead"} /\ Validate # Publish
    BY <1>1, <1>5, <1>k, StepFacts
  <2>3. OneAttempt' /\ RowFits'
    BY <1>1, <1>2, <2>1, <2>2 DEF PromptInv, OneAttempt, RowFits, Visible
  <2>4. RowFollowsBody'
    BY <1>1, <1>2, <2>2, RunningFits DEF Begun
  <2>5. pc' = "base" => (Completed(Validate) /\ value = Latest(Validate))'
    BY <1>1, <1>4, <1>5, <1>k, <2>2 DEF Completed, Latest
  <2>6. pc' = "finalRead" => (Completed(Publish) /\ value = Latest(Publish))'
    <3>1. k = Publish => value = Latest(Compose) /\ Latest(Publish) = Latest(Compose)
      BY <1>2, <1>4, <1>k DEF StageFollows, SavedAgree
    <3>2. QED
      BY <1>1, <1>4, <1>5, <1>k, <2>2, <3>1 DEF Completed, Latest
  <2>7. QED
    BY <1>3, <2>2, <2>3, <2>4, <2>5, <2>6 DEF PromptInv
<1>6. CASE k \notin {Validate, Publish}
  <2>1. k + 1 \in Steps /\ k + 1 > Collect /\ pc' = "step" /\ value' = Main.out
    BY <1>1, <1>6, <1>k, StepFacts
  <2>2. Main' = Start(k + 1, Main.out, 0) /\ att'["late"] = att["late"]
    BY <1>1, <1>6, <1>k, MainFacts
  <2>3. Main'.at = "getRun" /\ Main'.step = k + 1 /\ Main'.input = Main.out
    BY <2>1, <2>2, MainFacts, StartFields, PipelineAssumption
  <2>4. StageFollows'
    <3>1. \A u \in Steps : u < k + 1 => Completed(u)
      <4> SUFFICES ASSUME NEW u \in Steps, u < k + 1 PROVE Completed(u)
        OBVIOUS
      <4>1. u = k \/ u < k
        BY StepFacts
      <4>2. QED
        BY <1>2, <1>4, <4>1 DEF SavedAgree
    <3>2. Completed(Collect) /\ Main.out.of = Latest(Collect).of
      BY <1>2, <1>4, <2>1, <3>1, StepFacts DEF SavedAgree
    <3>3. k + 1 # Compose
      BY <1>6, StepFacts
    <3>4. k + 1 >= Compose => Main.out.result \in FinalStatus
      BY <1>2, <1>4, StepFacts DEF SavedAgree
    <3>5. k + 1 = Publish => Main.out = Latest(Compose)
      <4>1. k + 1 = Publish => k = Compose
        BY StepFacts
      <4>2. QED
        BY <1>4, <4>1
    <3>6. QED
      BY <1>1, <2>1, <2>3, <3>1, <3>2, <3>3, <3>4, <3>5 DEF StageFollows, Completed, Latest
  <2>5. OutputFollows'
    BY <2>3 DEF OutputFollows
  <2>6. OneAttempt' /\ RowFits'
    BY <1>1, <1>2, <2>1, <2>2, <2>3 DEF PromptInv, OneAttempt, RowFits, Visible
  <2>7. RowFollowsBody'
    BY <1>1, <1>2, <2>1, RunningFits DEF Begun
  <2>8. QED
    BY <1>3, <2>1, <2>4, <2>5, <2>6, <2>7 DEF PromptInv, AttemptFollows
<1>7. QED
  BY <1>5, <1>6

\* Every step of the body keeps it.
LEMMA BodyKeeps ==
    ASSUME TypeOK, PromptInv, Body
    PROVE  PromptInv'
BY EntryKeeps, EnsureKeeps, DeleteKeeps, BeginKeeps, ReadsKeep, SavesKeep, FinishKeeps,
   ReturnKeeps DEF Body

\* So does a call of the body that fails, applied or not.
LEMMA BodyErrorKeeps ==
    ASSUME TypeOK, PromptInv, BodyError
    PROVE  PromptInv'
<1>1. /\ inst = "running" /\ pc \notin {"end", "step", "return", "cleanup"}
      /\ UNCHANGED <<edition, versions, value, att>>
      /\ \/ pc' = "end" /\ inst' = "errored" /\ pc \notin {"base", "finalRead", "finalSave"}
         \/ pc' = "catchRead" /\ inst' = "running" /\ pc \in {"base", "finalRead", "finalSave"}
  BY DEF BodyError, Fault, End, EndsInstance, Uncaught, TypeOK, Pc
<1>2. OneAttempt' /\ EditionMade'
  BY <1>1 DEF PromptInv, OneAttempt, Main, EditionMade
<1>3. saved' = saved /\ SavedAgree => SavedAgree'
  BY <1>1, SameAgree
<1>4. ASSUME RowFits', RowFollowsBody',
             row'.status \notin FinalStatus \/ pc' = "catchRead" => SavedAgree'
      PROVE  PromptInv'
  BY <1>1, <1>2, <1>4 DEF PromptInv
<1>5. CASE UNCHANGED <<row, saved>>
  <2>1. RowFits' /\ RowFollowsBody'
    BY <1>1, <1>5 DEF PromptInv, RowFits, RowFollowsBody, Begun
  <2>2. row'.status \notin FinalStatus \/ pc' = "catchRead" => SavedAgree'
    BY <1>1, <1>3, <1>5 DEF PromptInv, RowFollowsBody, Begun, FinalStatus
  <2>3. QED
    BY <1>4, <2>1, <2>2
<1>6. CASE pc = "ensure" /\ row' = EnsuredRow /\ saved' = saved
  <2>1. \/ row' = row
        \/ row'.status = "pending" /\ ~row'.retryable /\ row.status = "missing"
    BY <1>6 DEF EnsuredRow, PendingRow
  <2>2. RowFits' /\ RowFollowsBody'
    BY <1>1, <1>6, <2>1 DEF PromptInv, RowFits, RowFollowsBody, Begun, Visible
  <2>3. row'.status \notin FinalStatus => SavedAgree'
    BY <1>3, <1>6, <2>1 DEF PromptInv, FinalStatus
  <2>4. QED
    BY <1>1, <1>4, <1>6, <2>2, <2>3
<1>7. CASE pc = "begin" /\ row' = BegunRow(seen) /\ saved' = saved
  <2>1. row'.status = "running" /\ ~row'.retryable
    BY <1>7 DEF BegunRow, TypeOK, Row
  <2>2. RowFits' /\ RowFollowsBody'
    BY <1>1, <1>7, <2>1 DEF RowFits, RowFollowsBody, Begun, Visible
  <2>3. SavedAgree'
    BY <1>3, <1>7 DEF PromptInv
  <2>4. QED
    BY <1>4, <2>2, <2>3
<1>8. CASE pc = "finalSave" /\ row' = FinalRow(seen, value) /\ saved' = saved
  <2>1. /\ SavedAgree /\ row'.status = value.result /\ value.result \in FinalStatus
        /\ row'.retryable = (value.result \in {"partial", "failed"})
        /\ Visible(value.result) => edition.status = value.result
    BY <1>8, FinalFacts
  <2>2. RowFits' /\ RowFollowsBody'
    BY <1>1, <1>8, <2>1 DEF RowFits, RowFollowsBody, FinalStatus, Begun
  <2>3. QED
    BY <1>3, <1>4, <1>8, <2>1, <2>2
<1>9. CASE pc = "catchSave" /\ row' = CatchRow(seen) /\ saved' = saved
  <2>1. row'.status = "retryable" /\ row'.retryable
    BY <1>9 DEF CatchRow, TypeOK, Row
  <2>2. RowFits' /\ RowFollowsBody'
    BY <1>1, <1>9, <2>1 DEF RowFits, RowFollowsBody, Begun, Visible
  <2>3. SavedAgree'
    BY <1>3, <1>9 DEF PromptInv
  <2>4. QED
    BY <1>4, <2>2, <2>3
<1>10. CASE pc = "deleting" /\ row' = row
  <2>1. row.status \in FinalStatus /\ pc' = "end"
    BY <1>1, <1>10 DEF PromptInv, RowFollowsBody, FinalStatus
  <2>2. RowFits' /\ RowFollowsBody'
    BY <1>1, <1>10, <2>1 DEF PromptInv, RowFits, RowFollowsBody, Begun
  <2>3. QED
    BY <1>4, <1>10, <2>1, <2>2
<1>11. QED
  BY <1>5, <1>6, <1>7, <1>8, <1>9, <1>10 DEF BodyError, BodyWrites

\* Triggers, errors and crashes keep it.
LEMMA EnvironmentKeeps ==
    ASSUME TypeOK, PromptInv, LateReturns \/ Trigger \/ BodyError \/ Crash
           \/ \E w \in Attempts : AttemptError(w)
    PROVE  PromptInv'
<1>1. CASE LateReturns
  BY <1>1 DEF LateReturns, In, PromptInv, OneAttempt
<1>2. CASE Trigger
  <2>1. /\ inst # "running" /\ inst' = "running" /\ pc = "end" /\ pc' = "load"
        /\ UNCHANGED <<row, saved, edition, versions, att>>
    BY <1>2 DEF Trigger, PromptInv, OneAttempt
  <2>2. /\ OneAttempt' /\ RowFits' /\ EditionMade'
        /\ row.status \notin FinalStatus \/ pc \in {"begin", "catchRead", "catchSave"} => SavedAgree'
    BY <2>1, Elsewhere
  <2>3. RowFollowsBody'
    BY <2>1 DEF PromptInv, RowFollowsBody, Begun
  <2>4. QED
    BY <2>1, <2>2, <2>3 DEF PromptInv
<1>3. CASE BodyError
  BY <1>3, BodyErrorKeeps
<1>4. CASE Crash
  <2>1. /\ inst = "running" /\ inst' = "running" /\ pc' = "load" /\ pc # "end"
        /\ UNCHANGED <<row, saved, edition, versions>>
        /\ att' = [w \in Attempts |-> Gone]
    BY <1>4 DEF Crash, PromptInv, OneAttempt
  <2>2. Main'.at = "gone" /\ att'["late"].at = "gone"
    BY <2>1, GoneFields DEF Main, Attempts
  <2>3. OneAttempt' /\ RowFits' /\ EditionMade'
    BY <2>1, <2>2 DEF PromptInv, OneAttempt, RowFits, EditionMade
  <2>4. row.status \notin FinalStatus => SavedAgree'
    BY <2>1, SameAgree DEF PromptInv
  <2>5. RowFollowsBody'
    BY <2>1 DEF PromptInv, RowFollowsBody, Begun
  <2>6. QED
    BY <2>1, <2>3, <2>4, <2>5 DEF PromptInv
<1>5. ASSUME NEW w \in Attempts, AttemptError(w) PROVE PromptInv'
  BY <1>5, ErrorKeeps
<1>6. QED
  BY <1>1, <1>2, <1>3, <1>4, <1>5

\* So does every step of a prompt run.
LEMMA PromptStep ==
    ASSUME prompt, TypeOK, PromptInv, Next
    PROVE  PromptInv'
<1>1. CASE Timeout
  BY <1>1 DEF Timeout
<1>2. QED
  BY <1>1, AttemptKeeps, BodyKeeps, EnvironmentKeeps DEF Next

----------------------------------------------------------------------------
(* The theorems. *)

\* A run starts in it.
LEMMA InitKeeps == Init => IInv
<1> SUFFICES ASSUME Init PROVE IInv
  OBVIOUS
<1>1. row.status \in {"missing", "pending"} /\ ~row.retryable /\ row \in Row
  <2>1. [PendingRow EXCEPT !.status = "missing"] \in Row
    BY ValueTypes DEF Row, RunStatus
  <2>2. row = PendingRow \/ row = [PendingRow EXCEPT !.status = "missing"]
    BY DEF Init
  <2>3. [PendingRow EXCEPT !.status = "missing"].status = "missing"
        /\ ~[PendingRow EXCEPT !.status = "missing"].retryable
        /\ PendingRow.status = "pending" /\ ~PendingRow.retryable
    BY DEF PendingRow
  <2>4. QED
    BY <2>1, <2>2, <2>3, ValueTypes
<1>2. TypeOK
  BY <1>1, ValueTypes, PipelineAssumption DEF Init, TypeOK, Pc, EditionStatus
<1>3. Main.at = "gone" /\ att["late"].at = "gone" /\ \A s \in Steps : ~Completed(s)
  BY GoneFields DEF Init, Main, Attempts, Completed
<1>4. SavedAgree
  BY <1>3, StepFacts DEF SavedAgree
<1>5. OneAttempt /\ RowFits /\ EditionMade /\ RowFollowsBody
  BY <1>1, <1>3 DEF Init, OneAttempt, RowFits, EditionMade, RowFollowsBody, Visible, Begun
<1>6. PromptInv
  BY <1>4, <1>5 DEF PromptInv, Init
<1>7. QED
  BY <1>2, <1>6 DEF IInv, Init

\* The inductive invariant: where the body is, which checkpoints stand, what
\* the awaited attempt holds and what the row says fit each other in every
\* state of a run whose attempts stay within their timeout.
THEOREM Invariance == Spec => []IInv
<1>1. Init => IInv
  BY InitKeeps
<1>2. IInv /\ [Next]_vars => IInv'
  <2> SUFFICES ASSUME IInv, [Next]_vars PROVE IInv'
    OBVIOUS
  <2>1. CASE UNCHANGED vars
    <3>1. prompt' = prompt /\ (TypeOK => TypeOK')
      BY <2>1 DEF vars, TypeOK
    <3>2. PromptInv => PromptInv'
      BY <2>1 DEF vars, PromptInv, OneAttempt, RowFollowsBody, RowFits, EditionMade, SavedAgree,
         AttemptFollows, StageFollows, OutputFollows, Completed, Latest, Main, StatusOf
    <3>3. QED
      BY <3>1, <3>2 DEF IInv
  <2>2. CASE Next
    <3>1. prompt' = prompt
      BY <2>2 DEF Next
    <3>2. QED
      BY <2>2, <3>1, TypeStep, PromptStep DEF IInv
  <2>3. QED
    BY <2>1, <2>2
<1>3. QED
  BY <1>1, <1>2, PTL DEF Spec

\* A run saved as published or partial has an edition of that status, through
\* every replay and repair: the final saveRun follows persistEdition.
THEOREM RowAndEdition == Spec => []RowMatchesEdition
<1>1. IInv => RowMatchesEdition
  BY DEF IInv, PromptInv, RowFits, RowMatchesEdition
<1>2. QED
  BY <1>1, Invariance, PTL

\* compose is given the summaries and the normalized items of one collection,
\* even when a crash interrupted invalidateFrom.
THEOREM OneCollection == Spec => []ComposesOneCollection
<1>1. IInv => ComposesOneCollection
  <2> SUFFICES ASSUME IInv, NEW w \in Attempts, prompt, In(w, "work"), att[w].step = Compose
               PROVE  att[w].base = att[w].input.of
    BY DEF ComposesOneCollection
  <2>1. w = "main" /\ StageFollows
    BY OnlyMain DEF IInv, In, AttemptFollows
  <2>2. QED
    BY <2>1, StepFacts DEF StageFollows, Main
<1>2. QED
  BY <1>1, Invariance, PTL

\* Only persistEdition changes the edition, with a composition of this
\* collection that the edition is not one of.
LEMMA EditionChange ==
    ASSUME IInv, prompt, Next, edition' # edition
    PROVE  /\ Main.at = "write" /\ Main.step = Publish /\ SavedAgree /\ EditionMade
           /\ Main.found = edition.status /\ Main.input = Latest(Compose)
           /\ Completed(Collect) /\ Completed(Compose)
           /\ Main.input.of = Latest(Collect).of
           /\ edition' = Written(Main)
<1>1. PICK w \in Attempts : AttemptWrite(w) \/ (AttemptError(w) /\ AttemptWrites(w))
  BY DEF Next, Body, Load, Ensure, Current, Invalidate, Delete, Begin, ReadBase, ReadRow,
         FinalSave, CatchSave, Finish, MainReturns, LateReturns, Trigger, BodyError, Timeout, Crash,
         AttemptError, AttemptStep, AttemptGetRun, AttemptCheck, AttemptMark, AttemptWork,
         AttemptSelect, AttemptSave, AttemptReread, AttemptFinish, AttemptThrows
<1>2. att[w].at = "write" /\ edition' = Written(att[w])
  BY <1>1 DEF AttemptWrite, AttemptWrites, In
<1>3. w = "main" /\ SavedAgree /\ AttemptFollows /\ EditionMade
  BY <1>2, OnlyMain DEF IInv, PromptInv
<1>4. QED
  BY <1>2, <1>3, StepFacts DEF AttemptFollows, StageFollows, OutputFollows, Main

\* Once readers can see the edition of the date no repair takes it away:
\* persistEdition keeps it when the new composition failed.
THEOREM VisibleStays == Spec => VisibleStaysVisible
<1>1. IInv /\ [Next]_vars => (prompt /\ Visible(edition.status) => Visible(edition'.status))
  <2> SUFFICES ASSUME IInv, [Next]_vars, prompt, Visible(edition.status), edition' # edition
               PROVE  Visible(edition'.status)
    OBVIOUS
  <2>1. Next
    BY DEF vars
  <2>2. /\ Main.found = edition.status /\ Main.step = Publish /\ edition' = Written(Main)
    BY <2>1, EditionChange
  <2>3. Main.input.result \in FinalStatus
    BY <2>1, EditionChange, StepFacts DEF SavedAgree
  <2>4. QED
    BY <2>2, <2>3 DEF Written, Visible, FinalStatus
<1>2. QED
  BY <1>1, Invariance, PTL DEF Spec, VisibleStaysVisible

\* An edition is only replaced by one of a later collection: a repair drops
\* every checkpoint first, and a replay of publish writes what it had written.
THEOREM NewerOnly == Spec => NewerEditionsOnly
<1>1. IInv /\ [Next]_vars => (prompt /\ edition' # edition /\ edition.status # "none"
                                => edition'.of > edition.of)
  <2> SUFFICES ASSUME IInv, [Next]_vars, prompt, edition' # edition, edition.status # "none"
               PROVE  edition'.of > edition.of
    OBVIOUS
  <2>1. Next
    BY DEF vars
  <2>2. /\ edition' = Written(Main) /\ SavedAgree /\ Completed(Collect)
        /\ Main.input = Latest(Compose) /\ Main.input.of = Latest(Collect).of
    BY <2>1, EditionChange
  <2>3. edition' = [status |-> StatusOf(Main.input), of |-> Main.input.of]
    BY <2>2 DEF Written, StatusOf
  <2>4. \/ edition.of < Latest(Collect).of
        \/ edition.of = Main.input.of /\ edition.status = StatusOf(Main.input)
    BY <2>2 DEF SavedAgree
  <2>5. edition = [status |-> edition.status, of |-> edition.of]
    BY DEF IInv, TypeOK
  <2>6. Latest(Collect).of \in Nat /\ edition.of \in Nat
    <3>1. Latest(Collect) \in Artifact
      BY <2>2, LatestType, StepFacts DEF IInv
    <3>2. QED
      BY <3>1, PipelineAssumption DEF IInv, TypeOK, Artifact
  <2>7. QED
    BY <2>2, <2>3, <2>4, <2>5, <2>6
<1>2. QED
  BY <1>1, Invariance, PTL DEF Spec, NewerEditionsOnly

----------------------------------------------------------------------------
(* A prompt run lives as RunLife says. *)

EntryPc   == {"load", "ensure", "current", "invalidate", "deleting", "begin"}
SettledPc == {"prune", "return", "cleanup"}

\* The life of a prompt run by the place of its body and the status of its row.
LifeFits ==
    /\ LifeRun = Life!RowOf(row.status)
    /\ LifeRun.status = row.status /\ LifeRun.retryable = row.retryable
    /\ LifeInst = IF inst = "idle" THEN "absent" ELSE inst
    /\ pc # "end" <=> inst = "running"
    /\ LifePhase = IF pc \in EntryPc THEN "entered"
                   ELSE IF pc \in SettledPc THEN "settled"
                   ELSE IF pc \in Begun THEN "begun" ELSE "off"
    /\ pc \in EntryPc \cup SettledPc \cup Begun \cup {"end"}

\* In the invariant, place and row determine the life.
LEMMA LifeFact == prompt /\ TypeOK /\ PromptInv => LifeFits
<1> SUFFICES ASSUME prompt, TypeOK, PromptInv PROVE LifeFits
  OBVIOUS
<1>1. LifeRun = [status |-> row.status, retryable |-> row.retryable]
  BY DEF LifeRun
<1>2. row.retryable = (row.status \in {"retryable", "partial", "failed"})
  BY DEF PromptInv, RowFollowsBody, TypeOK, Row
<1>3. LifeRun = Life!RowOf(row.status)
  BY <1>1, <1>2 DEF Life!RowOf
<1>4. pc \in EntryPc \cup SettledPc \cup Begun \cup {"end"} /\ (pc # "end" <=> inst = "running")
  BY DEF PromptInv, OneAttempt, EntryPc, SettledPc, Begun, TypeOK, Pc
<1>5. LifePhase = IF pc \in EntryPc THEN "entered"
                  ELSE IF pc \in SettledPc THEN "settled"
                  ELSE IF pc \in Begun THEN "begun" ELSE "off"
  BY <1>4 DEF LifePhase, EntryPc, SettledPc, Begun
<1>6. LifeInst = IF inst = "idle" THEN "absent" ELSE inst
  BY DEF LifeInst
<1>7. QED
  BY <1>1, <1>3, <1>4, <1>5, <1>6 DEF LifeFits

\* The same of the next state.
LEMMA LifeFactNext == prompt' /\ TypeOK' /\ PromptInv' => LifeFits'
BY LifeFact, PTL

LifeStays == UNCHANGED <<LifeRun, LifeInst, LifePhase>>

\* Steps inside one phase do not show.
LEMMA SamePhase ==
    ASSUME LifeFits, LifeFits', UNCHANGED inst, row'.status = row.status,
           \/ pc \in EntryPc /\ pc' \in EntryPc
           \/ pc \in Begun /\ pc' \in Begun
    PROVE  LifeStays
<1>1. LifeRun' = LifeRun
  BY DEF LifeFits, Life!RowOf
<1>2. LifeInst' = LifeInst
  BY DEF LifeFits
<1>3. LifePhase' = LifePhase
  BY DEF LifeFits, EntryPc, Begun, SettledPc
<1>4. QED
  BY <1>1, <1>2, <1>3 DEF LifeStays

\* A status that stays keeps the row of the life.
LEMMA SameRow ==
    ASSUME LifeFits, LifeFits', row'.status = row.status
    PROVE  LifeRun' = LifeRun
BY DEF LifeFits, Life!RowOf

\* Every step of a prompt run's body is one of its life or does not show.
LEMMA BodyLife ==
    ASSUME PromptInv, LifeFits, PromptInv', LifeFits', TypeOK, Body
    PROVE  Life!LifeNext \/ LifeStays
<1>0. RowFollowsBody /\ RowFollowsBody'
  BY DEF PromptInv
<1>1. CASE (Load \/ Current) /\ inst' = "complete"
  <2>1. /\ pc \in EntryPc /\ pc' = "end" /\ row' = row /\ row.status = "published"
        /\ inst = "running"
    BY <1>0, <1>1 DEF Load, Current, At, End, EntryPc, RowFollowsBody
  <2>2. /\ LifeInst = "running" /\ LifePhase = "entered" /\ LifeRun.status = "published"
        /\ LifeInst' = "complete" /\ LifePhase' = "off"
    BY <1>1, <2>1 DEF LifeFits, EntryPc, SettledPc, Begun
  <2>3. QED
    BY <2>1, <2>2, SameRow DEF Life!LifeNext, Life!Engine, Life!Leave, Life!Outcomes
<1>2. CASE ((Load \/ Current) /\ inst' # "complete") \/ Invalidate \/ Delete
           \/ (Ensure /\ row.status # "missing")
  <2>1. /\ pc \in EntryPc /\ pc' \in EntryPc /\ row' = row /\ inst' = inst
    BY <1>2 DEF Load, Current, Invalidate, Delete, Ensure, EnsuredRow, At, End, EntryPc
  <2>2. QED
    BY <2>1, SamePhase
<1>3. CASE Ensure /\ row.status = "missing"
  <2>1. /\ pc \in EntryPc /\ pc' \in EntryPc /\ row'.status = "pending" /\ inst' = inst
        /\ inst = "running"
    BY <1>3 DEF Ensure, EnsuredRow, At, EntryPc, PendingRow
  <2>2. /\ LifeInst = "running" /\ LifePhase = "entered" /\ LifeRun.status = "missing"
        /\ LifeInst' = LifeInst /\ LifePhase' = LifePhase /\ LifeRun' = Life!RowOf("pending")
    BY <1>3, <2>1 DEF LifeFits, EntryPc, SettledPc, Begun
  <2>3. QED
    BY <2>2 DEF Life!LifeNext, Life!Engine, Life!EnsureRow
<1>4. CASE Begin
  <2>1. /\ pc = "begin" /\ pc' = "step" /\ inst' = inst /\ inst = "running"
    BY <1>4 DEF Begin, At
  <2>2. row.status \notin {"missing", "published"} /\ row'.status = "running"
    BY <1>0, <2>1 DEF RowFollowsBody, Begun
  <2>3. /\ LifeInst = "running" /\ LifePhase = "entered" /\ LifeRun.status = row.status
        /\ LifeInst' = LifeInst /\ LifePhase' = "begun" /\ LifeRun' = Life!RowOf("running")
    BY <2>1, <2>2 DEF LifeFits, EntryPc, SettledPc, Begun
  <2>4. QED
    BY <2>2, <2>3 DEF Life!LifeNext, Life!Engine, Life!BeginRun
<1>5. CASE ReadBase \/ ReadRow \/ MainReturns
  <2>1. pc \in Begun /\ pc' \in Begun /\ inst' = inst /\ row' = row
    BY <1>5 DEF ReadBase, ReadRow, MainReturns, At, Begun, PromptInv, OneAttempt, In, Main
  <2>2. QED
    BY <2>1, SamePhase
<1>6. CASE FinalSave \/ CatchSave
  <2>1. /\ pc \in {"finalSave", "catchSave"} /\ pc' \in {"prune", "return", "cleanup"}
        /\ inst' = inst /\ inst = "running"
    BY <1>6 DEF FinalSave, CatchSave, At
  <2>2. \/ row.status = "running" /\ row'.status \in FinalStatus
        \/ row'.status = "retryable"
    BY <1>0, <1>6, <2>1 DEF FinalSave, CatchSave, At, RowFollowsBody, Begun
  <2>3. /\ LifeInst = "running" /\ LifePhase = "begun" /\ LifeRun.status = row.status
        /\ LifeInst' = LifeInst /\ LifePhase' = "settled" /\ LifeRun' = Life!RowOf(row'.status)
    BY <2>1 DEF LifeFits, EntryPc, SettledPc, Begun
  <2>4. QED
    BY <2>2, <2>3 DEF Life!LifeNext, Life!Engine, Life!Settle, Life!Outcome, Life!Outcomes, FinalStatus
<1>7. CASE Finish
  <2>1. /\ pc \in SettledPc /\ pc' = "end" /\ row' = row /\ inst = "running"
        /\ \/ pc # "cleanup" /\ inst' = "complete" /\ row.status \in FinalStatus
           \/ inst' = "errored" /\ row.status = "retryable"
    BY <1>0, <1>7 DEF Finish, At, End, RowFollowsBody, SettledPc
  <2>2. /\ LifeInst = "running" /\ LifePhase = "settled" /\ LifeRun.status = row.status
        /\ LifeInst' = inst' /\ LifePhase' = "off"
    BY <2>1 DEF LifeFits, EntryPc, SettledPc, Begun
  <2>3. QED
    BY <2>1, <2>2, SameRow DEF Life!LifeNext, Life!Engine, Life!Leave, Life!Outcomes, FinalStatus
<1>8. QED
  BY <1>1, <1>2, <1>3, <1>4, <1>5, <1>6, <1>7 DEF Body

\* A call of the body that fails ends the instance with what it has written, or
\* leaves an outcome behind that an error is to replace.
LEMMA BodyErrorLife ==
    ASSUME prompt, PromptInv, LifeFits, PromptInv', LifeFits', TypeOK, BodyError
    PROVE  Life!LifeNext \/ LifeStays
<1>0. RowFollowsBody /\ "d1" \in Faults /\ inst = "running"
  BY DEF PromptInv, BodyError, Fault
<1>1. \/ pc' = "end" /\ inst' = "errored" /\ pc \notin {"base", "finalRead", "finalSave"}
      \/ pc' = "catchRead" /\ inst' = inst /\ pc \in {"base", "finalRead", "finalSave"}
  BY DEF BodyError, End, EndsInstance, Uncaught, TypeOK, Pc
<1>2. \/ row' = row
      \/ pc = "ensure" /\ row' = EnsuredRow
      \/ pc = "begin" /\ row' = BegunRow(seen)
      \/ pc = "finalSave" /\ row' = FinalRow(seen, value)
      \/ pc = "catchSave" /\ row' = CatchRow(seen)
  BY DEF BodyError, BodyWrites
<1>3. LifeInst = "running" /\ LifeRun.status = row.status /\ LifeRun' = Life!RowOf(row'.status)
  BY <1>0 DEF LifeFits
<1>4. CASE pc' = "end"
  <2>1. LifeInst' = "errored" /\ LifePhase' = "off" /\ pc # "finalSave"
    BY <1>1, <1>4 DEF LifeFits, EntryPc, SettledPc, Begun
  <2>2. \/ LifeRun' = LifeRun
        \/ LifePhase = "entered" /\ LifeRun.status = "missing" /\ LifeRun' = Life!RowOf("pending")
        \/ /\ LifePhase = "entered" /\ LifeRun.status \notin {"missing", "published"}
           /\ LifeRun' = Life!RowOf("running")
        \/ LifePhase = "begun" /\ LifeRun' = Life!RowOf("retryable")
    <3>1. CASE row' = row
      BY <3>1, SameRow
    <3>2. CASE pc = "ensure" /\ row' = EnsuredRow /\ row' # row
      <4>1. LifePhase = "entered"
        BY <3>2 DEF LifeFits, EntryPc
      <4>2. row.status = "missing" /\ row'.status = "pending"
        BY <3>2 DEF EnsuredRow, PendingRow
      <4>3. QED
        BY <1>3, <4>1, <4>2
    <3>3. CASE pc = "begin" /\ row' = BegunRow(seen)
      <4>1. LifePhase = "entered"
        BY <3>3 DEF LifeFits, EntryPc
      <4>2. row'.status = "running" /\ row.status \notin {"missing", "published"}
        BY <1>0, <3>3 DEF BegunRow, RowFollowsBody, TypeOK, Row
      <4>3. QED
        BY <1>3, <4>1, <4>2
    <3>4. CASE pc = "catchSave" /\ row' = CatchRow(seen)
      <4>1. LifePhase = "begun"
        BY <3>4 DEF LifeFits, EntryPc, SettledPc, Begun
      <4>2. row'.status = "retryable"
        BY <3>4 DEF CatchRow, TypeOK, Row
      <4>3. QED
        BY <1>3, <4>1, <4>2
    <3>5. QED
      BY <1>2, <2>1, <3>1, <3>2, <3>3, <3>4
  <2>3. QED
    BY <1>0, <1>3, <2>1, <2>2 DEF Life!LifeNext, Life!Breaks, Life!Fail
<1>5. CASE pc' = "catchRead" /\ row' = row
  BY <1>1, <1>5, SamePhase DEF Begun
<1>6. CASE pc' = "catchRead" /\ pc = "finalSave" /\ row' = FinalRow(seen, value)
  <2>1. row.status = "running" /\ row'.status \in FinalStatus
    BY <1>6, FinalFacts
  <2>2. /\ LifePhase = "begun" /\ LifePhase' = "begun" /\ LifeInst' = LifeInst
    BY <1>1, <1>6 DEF LifeFits, EntryPc, SettledPc, Begun
  <2>3. QED
    BY <1>0, <1>3, <2>1, <2>2
       DEF Life!LifeNext, Life!Breaks, Life!LoseOutcome, Life!Outcome, Life!Outcomes, FinalStatus
<1>7. QED
  BY <1>1, <1>2, <1>4, <1>5, <1>6

\* So is every trigger, error and crash, and every step of an attempt.
LEMMA OutsideLife ==
    ASSUME prompt, PromptInv, LifeFits, PromptInv', LifeFits', TypeOK, Next, ~Body
    PROVE  Life!LifeNext \/ LifeStays
<1>0. RowFollowsBody /\ RowFollowsBody'
  BY DEF PromptInv
<1>2. ASSUME NEW w \in Attempts, AttemptStep(w) \/ AttemptError(w) PROVE LifeStays
  <2>1. att[w].at # "gone" /\ inst' = inst
    BY <1>2 DEF AttemptStep, AttemptGetRun, AttemptCheck, AttemptMark, AttemptWork, AttemptSelect,
         AttemptWrite, AttemptSave, AttemptReread, AttemptFinish, AttemptThrows, AttemptError, In
  <2>2. pc = "step"
    BY <2>1, OnlyMain
  <2>3. pc' \in Begun
    BY <1>2, <2>2 DEF AttemptStep, AttemptGetRun, AttemptCheck, AttemptMark, AttemptWork, AttemptSelect,
         AttemptWrite, AttemptSave, AttemptReread, AttemptFinish, AttemptThrows, AttemptError,
         AttemptFails, MainFails, Begun
  <2>4. row.status = "running" /\ row'.status = "running"
    <3>1. row' = row \/ \E x \in Attempts : att[x].at # "gone" /\ row' = AdvancedRow(att[x])
      BY <1>2 DEF AttemptStep, AttemptGetRun, AttemptCheck, AttemptMark, AttemptWork, AttemptSelect,
         AttemptWrite, AttemptSave, AttemptReread, AttemptFinish, AttemptThrows, AttemptError,
         AttemptWrites, In
    <3>2. \A x \in Attempts : AdvancedRow(att[x]).status = "running"
      <4>1. \A x \in Attempts : att[x].snap \in Row
        BY AttemptTypes DEF TypeOK
      <4>2. QED
        BY <4>1 DEF AdvancedRow, Row
    <3>3. QED
      BY <2>1, <3>1, <3>2, OnlyMain
  <2>5. QED
    BY <2>1, <2>2, <2>3, <2>4, SamePhase DEF Begun
<1>3. CASE LateReturns \/ Timeout
  BY <1>3 DEF LateReturns, Timeout, PromptInv, OneAttempt, In
<1>4. CASE Trigger
  <2>1. /\ inst' = "running" /\ pc' = "load" /\ row' = row
        /\ inst = "idle" \/ (inst \in {"errored", "complete"} /\ Resumable(row))
    BY <1>4 DEF Trigger
  <2>2. LifeInst' = "running" /\ LifePhase' = "entered" /\ LifeRun' = LifeRun
    BY <2>1, SameRow DEF LifeFits, EntryPc
  <2>3. inst # "idle" => Life!MayResume(LifeRun)
    BY <2>1 DEF Life!MayResume, Resumable, LifeFits
  <2>4. QED
    BY <2>1, <2>2, <2>3 DEF Life!LifeNext, Life!Ended, Life!Enter, LifeFits
<1>5. CASE BodyError
  BY <1>5, BodyErrorLife
<1>6. CASE Crash
  <2>1. "crash" \in Faults /\ row' = row /\ inst = "running" /\ inst' = inst /\ pc' = "load"
    BY <1>6 DEF Crash, Fault
  <2>2. LifeInst = "running" /\ LifeInst' = LifeInst /\ LifePhase' = "entered" /\ LifeRun' = LifeRun
    BY <2>1, SameRow DEF LifeFits, EntryPc
  <2>3. QED
    BY <2>1, <2>2 DEF Life!LifeNext, Life!Breaks, Life!Replay
<1>7. QED
  BY <1>2, <1>3, <1>4, <1>5, <1>6 DEF Next

\* The row, the instance and the phase of a run whose attempts stay within
\* their timeout change as module RunLife says and in no other way: a published
\* row stays unless the execution that published it was not told so, an ended
\* instance is restarted only when its row may be resumed, and the outcome is
\* saved before the instance completes.
THEOREM LifeRefined == Spec => ImplementsRunLife
<1>1. Init => Life!LifeInit
  <2> SUFFICES ASSUME Init PROVE Life!LifeInit
    OBVIOUS
  <2>1. LifeInst = "absent" /\ LifePhase = "off"
    BY DEF Init, LifeInst, LifePhase
  <2>2. CASE ~prompt
    <3>1. ("missing" \in {"retryable", "partial", "failed"}) = FALSE
      OBVIOUS
    <3>2. LifeRun = Life!RowOf("missing")
      BY <2>2, <3>1 DEF LifeRun, Life!RowOf
    <3>3. QED
      BY <2>1, <3>2 DEF Life!LifeInit
  <2>3. CASE prompt
    <3>1. LifeRun = Life!RowOf(row.status)
      BY <2>3, InitKeeps, LifeFact DEF IInv, LifeFits
    <3>2. row.status \in {"missing", "pending"}
      BY DEF Init, PendingRow
    <3>3. QED
      BY <2>1, <3>1, <3>2 DEF Life!LifeInit
  <2>4. QED
    BY <2>2, <2>3
<1>2. IInv /\ IInv' /\ [Next]_vars => [Life!LifeNext]_(Life!lifeVars)
  <2> SUFFICES ASSUME IInv, IInv', [Next]_vars
               PROVE  Life!LifeNext \/ LifeStays
    BY DEF LifeStays, Life!lifeVars
  <2>1. prompt' = prompt
    BY DEF Next, vars
  <2>2. CASE UNCHANGED vars
    BY <2>2 DEF vars, LifeStays, LifeRun, LifeInst, LifePhase
  <2>3. CASE ~prompt
    BY <2>1, <2>3 DEF LifeStays, LifeRun, LifeInst, LifePhase
  <2>4. CASE Next /\ prompt
    <3>1. LifeFits /\ LifeFits' /\ PromptInv /\ PromptInv' /\ TypeOK
      BY <2>1, <2>4, LifeFact, LifeFactNext DEF IInv
    <3>2. QED
      BY <2>4, <3>1, BodyLife, OutsideLife
  <2>5. QED
    BY <2>2, <2>3, <2>4
<1>3. QED
  BY <1>1, <1>2, Invariance, PTL DEF Spec, ImplementsRunLife, Life!LifeSpec
=============================================================================
