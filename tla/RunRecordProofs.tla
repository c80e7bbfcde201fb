-------------------------- MODULE RunRecordProofs --------------------------
(* Theorems about what D1 records of a run: its row, which the triggers act  *)
(* on (RunControl, for any sets of triggers and any faults), and the         *)
(* artifacts of its stages (Checkpoints, for any stages and sizes, and       *)
(* whatever an older version has left).                                      *)
EXTENDS RunControl, Checkpoints, FiniteSetTheorems, SequenceTheorems, TLAPS

\* Every row RowOf makes is a row.
LEMMA RowOfType ==
    \A status \in {"missing", "pending", "running", "retryable"} \cup Outcomes :
        RowOf(status) \in LifeRow /\ RowOf(status).status = status
BY DEF RowOf, LifeRow, Outcomes

\* The steps of the instance keep its variables in their types.
LEMMA InstanceType ==
    ASSUME LifeTypeOK, Engine \/ Breaks
    PROVE  LifeTypeOK'
<1>1. CASE EnsureRow
  BY <1>1, RowOfType DEF EnsureRow, LifeTypeOK, LifeInst, LifePhase
<1>2. CASE BeginRun
  BY <1>2, RowOfType DEF BeginRun, LifeTypeOK, LifeInst, LifePhase
<1>3. CASE Settle
  BY <1>3, RowOfType DEF Settle, Outcome, LifeTypeOK, LifeInst, LifePhase
<1>4. CASE Leave
  BY <1>4 DEF Leave, LifeTypeOK, LifeInst, LifePhase
<1>5. CASE Replay
  BY <1>5 DEF Replay, LifeTypeOK, LifeInst, LifePhase
<1>6. CASE Fail
  BY <1>6, RowOfType DEF Fail, LifeTypeOK, LifeInst, LifePhase
<1>7. CASE LoseOutcome
  BY <1>7, RowOfType DEF LoseOutcome, Outcome, LifeTypeOK, LifeInst, LifePhase
<1> QED BY <1>1, <1>2, <1>3, <1>4, <1>5, <1>6, <1>7 DEF Engine, Breaks

LEMMA EnterType ==
    ASSUME LifeTypeOK, Enter \/ UNCHANGED lifeVars
    PROVE  LifeTypeOK'
BY DEF Enter, lifeVars, LifeTypeOK, LifeInst, LifePhase

\* The two effects every step of a trigger has on its own variables.
LEMMA MovesType ==
    ASSUME TypeOK, NEW t \in Triggers,
           NEW l \in {"idle", "get", "act", "create", "batch", "failed"},
           Goto(t, l), told' = told
    PROVE  /\ at' \in [Triggers -> {"idle", "get", "act", "create", "batch", "failed"}]
           /\ told' \in [Triggers -> LifeInst]
BY DEF TypeOK, Goto

LEMMA DoneType ==
    ASSUME TypeOK, NEW t \in Triggers, Done(t)
    PROVE  /\ at' \in [Triggers -> {"idle", "get", "act", "create", "batch", "failed"}]
           /\ told' \in [Triggers -> LifeInst]
BY DEF TypeOK, Goto, Done, LifeInst

\* A step of a trigger keeps the types.
LEMMA TriggerType ==
    ASSUME TypeOK, NEW t \in Triggers, Trigger(t)
    PROVE  TypeOK'
<1> USE DEF TypeOK
<1>1. CASE CronReads(t)
  BY <1>1, EnterType DEF CronReads, lifeVars, Goto
<1>2. CASE StarterInserts(t)
  <2>1. LifeTypeOK'
    BY <1>2, RowOfType DEF StarterInserts, LifeTypeOK
  <2> QED BY <1>2, <2>1, MovesType DEF StarterInserts
<1>3. CASE ResumerReads(t)
  BY <1>3, EnterType, MovesType DEF ResumerReads, lifeVars
<1>4. CASE AsksState(t)
  <2>1. LifeTypeOK'
    BY <1>4, EnterType DEF AsksState, lifeVars
  <2> QED BY <1>4, <2>1 DEF AsksState, Goto, LifeTypeOK
<1>5. CASE Continues(t)
  BY <1>5, EnterType, MovesType DEF Continues, lifeVars
<1>6. CASE Resumes(t)
  <2>1. LifeTypeOK'
    BY <1>6 DEF Resumes, LifeTypeOK, LifeInst
  <2> QED BY <1>6, <2>1, DoneType DEF Resumes
<1>7. CASE Restarts(t)
  BY <1>7, EnterType, DoneType DEF Restarts
<1>8. CASE GivesUp(t)
  BY <1>8, EnterType, DoneType DEF GivesUp, lifeVars
<1>9. CASE Creates(t)
  BY <1>9, EnterType, MovesType DEF Creates
<1>10. CASE CreatesBatch(t)
  BY <1>10, EnterType, MovesType DEF CreatesBatch
<1>11. CASE CreateThrows(t)
  BY <1>11, EnterType, MovesType DEF CreateThrows
<1>12. CASE RecordsFailure(t)
  <2>1. LifeTypeOK'
    BY <1>12, RowOfType DEF RecordsFailure, Recorded, LifeTypeOK
  <2> QED BY <1>12, <2>1, MovesType DEF RecordsFailure
<1>13. CASE TriggerDies(t)
  BY <1>13, EnterType, DoneType DEF TriggerDies, lifeVars
<1> QED
  BY <1>1, <1>2, <1>3, <1>4, <1>5, <1>6, <1>7, <1>8, <1>9, <1>10, <1>11, <1>12,
     <1>13 DEF Trigger

\* The variables always have their types, and an execution is under way exactly
\* in an instance that runs or is paused.
THEOREM ControlTypeCorrect == Spec => []TypeOK
<1>1. Init => TypeOK
  BY RowOfType DEF Init, TypeOK, LifeTypeOK, LifeInst, LifePhase
<1>2. TypeOK /\ [Next]_controlVars => TypeOK'
  <2> SUFFICES ASSUME TypeOK, [Next]_controlVars PROVE TypeOK'
    OBVIOUS
  <2>1. ASSUME NEW t \in Triggers, Trigger(t) PROVE TypeOK'
    BY <2>1, TriggerType
  <2>2. CASE Instance
    <3>1. LifeTypeOK'
      BY <2>2, InstanceType DEF Instance, TypeOK
    <3> QED BY <2>2, <3>1 DEF Instance, TypeOK
  <2>3. CASE Operator
    BY <2>3 DEF Operator, TypeOK, LifeTypeOK, LifeInst
  <2>4. CASE UNCHANGED controlVars
    BY <2>4 DEF controlVars, TypeOK, LifeTypeOK
  <2> QED BY <2>1, <2>2, <2>3, <2>4 DEF Next
<1> QED BY <1>1, <1>2, PTL DEF Spec

\* The strengthening: a run that has been begun is no longer missing or pending,
\* so that no trigger takes it for new.
Working ==
    /\ phase = "begun" => run.status \in Outcomes \cup {"running"}
    /\ phase = "settled" => run.status \in Outcomes \cup {"retryable"}

UndoesNothing ==
    run.status = "published" \/ (phase' = phase /\ phase \in {"begun", "settled"})
       => run' = run \/ (phase = "begun" /\ UNCHANGED <<at, told>>)

\* Only the instance itself moves a run that it has begun.
LEMMA WorkingStep ==
    ASSUME TypeOK, Working, [Next]_controlVars
    PROVE  Working' /\ UndoesNothing
<1> USE DEF Working, UndoesNothing
<1>1. ASSUME NEW t \in Triggers, Trigger(t)
      PROVE  Working' /\ UndoesNothing
  <2>1. CASE StarterInserts(t)
    BY <2>1 DEF StarterInserts, Outcomes
  <2>2. CASE RecordsFailure(t)
    BY <2>2 DEF RecordsFailure, Recorded, Outcomes
  <2>3. CASE Creates(t) \/ CreatesBatch(t) \/ CreateThrows(t)
    BY <2>3 DEF Creates, CreatesBatch, CreateThrows, Enter, lifeVars
  <2>4. CASE Restarts(t)
    BY <2>4 DEF Restarts, Enter
  <2>5. CASE \/ CronReads(t) \/ ResumerReads(t) \/ AsksState(t) \/ Continues(t)
             \/ Resumes(t) \/ GivesUp(t) \/ TriggerDies(t)
    BY <2>5 DEF CronReads, ResumerReads, AsksState, Continues, Resumes, GivesUp,
                TriggerDies
  <2> QED BY <1>1, <2>1, <2>2, <2>3, <2>4, <2>5 DEF Trigger
<1>2. CASE Instance
  <2>1. CASE EnsureRow
    BY <2>1 DEF EnsureRow
  <2>2. CASE BeginRun
    BY <2>2, RowOfType DEF BeginRun
  <2>3. CASE Settle
    BY <1>2, <2>3, RowOfType DEF Settle, Outcome, Instance
  <2>4. CASE Leave
    BY <2>4 DEF Leave
  <2>5. CASE Replay
    BY <2>5 DEF Replay
  <2>6. CASE Fail
    BY <1>2, <2>6, RowOfType DEF Fail, Instance
  <2>7. CASE LoseOutcome
    BY <1>2, <2>7, RowOfType DEF LoseOutcome, Outcome, Instance
  <2> QED BY <1>2, <2>1, <2>2, <2>3, <2>4, <2>5, <2>6, <2>7 DEF Instance, Engine, Breaks
<1>3. CASE Operator
  BY <1>3 DEF Operator
<1>4. CASE UNCHANGED controlVars
  BY <1>4 DEF controlVars
<1> QED BY <1>1, <1>2, <1>3, <1>4 DEF Next

\* A run that an instance has begun is moved by that instance alone, and a
\* published one stays as it is unless the execution that published it was not
\* told so: no race of triggers, no lost answer of create and no replay of the
\* instance changes its row.
THEOREM ControlTriggersUndoNothing == Spec => TriggersUndoNothing
<1>1. Init => Working
  BY DEF Init, Working
<1>2. TypeOK /\ Working /\ [Next]_controlVars => Working' /\ [UndoesNothing]_controlVars
  BY WorkingStep
<1> QED BY <1>1, <1>2, ControlTypeCorrect, PTL DEF Spec, TriggersUndoNothing, UndoesNothing

----------------------------------------------------------------------------
(* Checkpoints.  The invariant RepairInv: what is left of the rows of a save *)
(* is all of them, unless those that are missing were deleted and the others *)
(* are still to be.                                                          *)

\* The rows of one save.
Of(n) == {r \in rows : r.save = n}
RowKey(r) == [save |-> r.save, index |-> r.index]

SavesInv ==
    /\ Len(saves) \in Nat /\ saves = [i \in 1 .. Len(saves) |-> saves[i]]
    /\ repaired \in Nat /\ repaired <= Len(saves)
    /\ \A r \in rows : r.save \in 1 .. Len(saves)
    /\ \A q, r \in rows : q.save = r.save => q.stage = r.stage
    /\ \A d \in doomed : d.save \in 1 .. Len(saves)

\* A row that is to be deleted takes the others of its save along; until then,
\* and once the deletion is over, the others are whole and newer than the repair.
Going ==
    /\ body # "deleting" => doomed = {}
    /\ \A d \in doomed : \A r \in Of(d.save) : RowKey(r) \in doomed
Settled == body # "repairing" /\ ~hidden
OthersWhole == Settled => \A r \in rows : RowKey(r) \in doomed \/ Counted(Of(r.save))
OthersNew   == Settled => \A r \in rows : RowKey(r) \in doomed \/ r.save > repaired

\* Only a running body awaits an attempt.
Awaited ==
    /\ DOMAIN att = {"main", "late"}
    /\ body # "running" => att["main"].at = "gone"

RepairInv == SavesInv /\ Going /\ OthersWhole /\ OthersNew

\* What one batch writes is whole.
LEMMA BatchIsWhole ==
    ASSUME NEW s, NEW n, NEW es, NEW marks
    PROVE  /\ Counted(ChunkRows(s, n, es, marks)) /\ Counted(WholeRow(s, n, es, marks))
           /\ \A r \in ChunkRows(s, n, es, marks) \cup WholeRow(s, n, es, marks) :
                 r.save = n /\ r.stage = s
<1>1. Counted(ChunkRows(s, n, es, marks))
    <2> DEFINE c == Chunks(s, es)
               row(i) == [stage |-> s, save |-> n, index |-> i, count |-> Len(c),
                          of |-> c[i], marks |-> marks]
               g == {row(i) : i \in 1 .. Len(c)}
    <2>1. ChunkRows(s, n, es, marks) = g
        BY DEF ChunkRows
    <2>2. \A i : row(i).index = i /\ row(i).count = Len(c) /\ row(i).marks = marks
        OBVIOUS
    <2> HIDE DEF row, c
    <2>3. \A q \in g : q.count = Len(c) /\ q.marks = marks /\ q = row(q.index)
        BY <2>2
    <2>4. {q.index : q \in g} = 1 .. Len(c)
        BY <2>2
    <2> HIDE DEF g
    <2> QED
        BY <2>1, <2>3, <2>4 DEF Counted
<1>2. Counted(WholeRow(s, n, es, marks))
    BY DEF Counted, WholeRow
<1>3. \A r \in ChunkRows(s, n, es, marks) : r.save = n /\ r.stage = s
    BY DEF ChunkRows
<1>4. \A r \in WholeRow(s, n, es, marks) : r.save = n /\ r.stage = s
    BY DEF WholeRow
<1> QED
    BY <1>1, <1>2, <1>3, <1>4

\* What is read of a stage is what one save has left of it.
LEMMA GroupOfSave ==
    ASSUME RepairInv, Settled, doomed = {}, NEW s
    PROVE  Whole(s)
<1>1. CASE Group(s) = {}
    BY <1>1 DEF Whole, Counted
<1>2. CASE Group(s) # {}
    <2>1. PICK r \in Group(s) : TRUE
        BY <1>2
    <2>2. r \in rows /\ r.stage = s /\ r.save = Newest(s)
        BY <2>1 DEF Group, Rows
    <2>3. Group(s) = Of(r.save)
        BY <2>2 DEF Group, Rows, Of, RepairInv, SavesInv
    <2> QED
        BY <2>2, <2>3 DEF Whole, RepairInv, OthersWhole
<1> QED
    BY <1>1, <1>2

LEMMA RepairInvHolds == RepairInv => RepairIsFinished
<1> SUFFICES ASSUME RepairInv, body \in {"running", "ended"}, ~hidden
             PROVE  /\ \A r \in rows : r.save > repaired
                    /\ \A s \in Stages : Whole(s)
    BY DEF RepairIsFinished
<1>1. Settled /\ doomed = {}
    BY DEF Settled, RepairInv, Going
<1> QED
    BY <1>1, GroupOfSave DEF RepairInv, OthersNew

\* What an older version has left is whole, and the stages are told apart.
LEMMA RepairInvInit == CheckpointsInit => RepairInv
<1> SUFFICES ASSUME CheckpointsInit PROVE RepairInv
    OBVIOUS
<1>1. PICK o \in Older : /\ rows = OlderRows(o)
                         /\ saves = [s \in DOMAIN o |-> [stage |-> s, of |-> o[s].of]]
    BY DEF CheckpointsInit
<1>2. PICK n \in 0 .. Len(Kind) : DOMAIN o = 1 .. n
    BY CheckpointsAssumption
<1>3. n \in Nat /\ Len(saves) = n
    <2>1. Len(Kind) \in Nat
        BY CheckpointsAssumption
    <2> QED
        BY <1>1, <1>2, <2>1
<1> DEFINE part(s) == IF o[s].form = "whole" THEN WholeRow(s, s, o[s].of, o[s].marks)
                                            ELSE ChunkRows(s, s, o[s].of, o[s].marks)
<1>4. rows = UNION {part(s) : s \in DOMAIN o}
    BY <1>1 DEF OlderRows
<1>5. \A s : Counted(part(s)) /\ \A r \in part(s) : r.save = s /\ r.stage = s
    BY BatchIsWhole
<1> HIDE DEF part
<1>6. \A r \in rows : r.save \in 1 .. n /\ r.stage = r.save /\ r \in part(r.save)
    BY <1>2, <1>4, <1>5
<1>7. \A r \in rows : Of(r.save) = part(r.save)
    BY <1>2, <1>4, <1>5, <1>6 DEF Of
<1>8. doomed = {} /\ repaired = 0
    BY DEF CheckpointsInit
<1>9. SavesInv
    BY <1>1, <1>2, <1>3, <1>6, <1>8 DEF SavesInv
<1>10. Going
    BY <1>8 DEF Going
<1>11. OthersWhole /\ OthersNew
    BY <1>5, <1>6, <1>7, <1>8, <1>3 DEF OthersWhole, OthersNew
<1> QED
    BY <1>9, <1>10, <1>11 DEF RepairInv

\* A new save stands beside the others.
LEMMA SaveKeepsRepairInv ==
    ASSUME RepairInv, NEW s, NEW es, NEW marks, NEW a,
           rows' = rows \cup ChunkRows(s, Len(saves) + 1, es, marks),
           saves' = Append(saves, a),
           UNCHANGED <<body, doomed, repaired, hidden>>
    PROVE  RepairInv'
<1> DEFINE n == Len(saves) + 1
           new == ChunkRows(s, n, es, marks)
<1>1. /\ Len(saves) \in Nat /\ n \in Nat /\ n > Len(saves)
      /\ saves' = [i \in 1 .. n |-> saves'[i]] /\ Len(saves') = n
    <2> DEFINE S == {saves[i] : i \in 1 .. Len(saves)}
    <2>1. saves \in Seq(S)
        BY DEF RepairInv, SavesInv
    <2>2. saves \in Seq(S \cup {a}) /\ a \in S \cup {a}
        BY <2>1
    <2>3. Append(saves, a) \in Seq(S \cup {a}) /\ Len(Append(saves, a)) = Len(saves) + 1
        BY <2>2
    <2>4. \A q \in Seq(S \cup {a}) : q = [i \in 1 .. Len(q) |-> q[i]]
        OBVIOUS
    <2> HIDE DEF S
    <2>5. saves' \in Seq(S \cup {a}) /\ Len(saves') = n
        BY <2>3
    <2>6. saves' = [i \in 1 .. Len(saves') |-> saves'[i]]
        BY <2>4, <2>5
    <2>7. Len(saves) \in Nat
        BY DEF RepairInv, SavesInv
    <2> QED
        BY <2>5, <2>6, <2>7
<1>2. Counted(new) /\ \A r \in new : r.save = n /\ r.stage = s
    BY BatchIsWhole
<1> HIDE DEF new
<1>3. rows' = rows \cup new
    BY DEF new
<1> HIDE DEF n
<1>4. \A r \in rows : r.save \in 1 .. Len(saves) /\ r.save # n /\ Of(r.save)' = Of(r.save)
    BY <1>1, <1>2, <1>3 DEF RepairInv, SavesInv, Of
<1>5. \A r \in new : Of(r.save)' = new
    BY <1>1, <1>2, <1>3, <1>4 DEF Of
<1>6. \A d \in doomed : d.save \in 1 .. Len(saves) /\ d.save # n /\ Of(d.save)' = Of(d.save)
    BY <1>1, <1>2, <1>3 DEF RepairInv, SavesInv, Of
<1>7. SavesInv'
    BY <1>1, <1>2, <1>3, <1>4, <1>6 DEF RepairInv, SavesInv
<1>8. Going'
    BY <1>6 DEF RepairInv, Going
<1>9. ASSUME Settled', NEW r \in rows'
      PROVE  RowKey(r) \in doomed' \/ (Counted(Of(r.save)') /\ r.save > repaired')
    <2>1. Settled
        BY <1>9 DEF Settled
    <2>2. CASE r \in rows
        BY <1>4, <2>1, <2>2 DEF RepairInv, OthersWhole, OthersNew
    <2>3. CASE r \in new
        BY <1>1, <1>2, <1>5, <2>3 DEF RepairInv, SavesInv
    <2> QED
        BY <1>3, <2>2, <2>3
<1>10. (OthersWhole /\ OthersNew)'
    BY <1>9 DEF OthersWhole, OthersNew, Counted
<1> QED
    BY <1>7, <1>8, <1>10 DEF RepairInv

\* A deleted row leaves only such that go as well.
LEMMA DeleteKeepsRepairInv ==
    ASSUME RepairInv, DeleteRow
    PROVE  RepairInv'
<1>1. CASE doomed = {}
    <2>1. UNCHANGED <<rows, saves, doomed, repaired, hidden>> /\ body' = "running" /\ body = "deleting"
        BY <1>1 DEF DeleteRow
    <2> QED
        BY <1>1, <2>1 DEF RepairInv, SavesInv, Going, OthersWhole, OthersNew, Settled, Of, Counted, RowKey
<1>2. CASE doomed # {}
    <2>1. PICK d \in doomed : rows' = {r \in rows : ~Goes(r, d)} /\ doomed' = doomed \ {d}
        BY <1>2 DEF DeleteRow
    <2>2. UNCHANGED <<saves, repaired, hidden, body>> /\ body = "deleting"
        BY <1>2 DEF DeleteRow
    <2>3. \A r \in rows' : r \in rows /\ (RowKey(r) \in doomed => RowKey(r) \in doomed')
        <3>1. \A r \in rows' : r \in rows /\ ~(r.save = d.save /\ r.index = d.index)
            BY <2>1 DEF Goes
        <3>2. \A r \in rows' : RowKey(r) # d
            BY <3>1 DEF RowKey
        <3> QED
            BY <2>1, <3>1, <3>2
    <2>4. \A r \in rows' : r.save # d.save => Of(r.save)' = Of(r.save)
        BY <2>1 DEF Of, Goes
    <2>5. \A r \in rows' : r.save = d.save => RowKey(r) \in doomed'
        BY <2>1, <2>3 DEF RepairInv, Going, Of
    <2>6. SavesInv'
        BY <2>1, <2>2, <2>3 DEF RepairInv, SavesInv
    <2>7. Going'
        BY <2>1, <2>2, <2>3 DEF RepairInv, Going, Of
    <2>8. OthersWhole'
        BY <2>2, <2>3, <2>4, <2>5 DEF RepairInv, OthersWhole, Settled
    <2>9. OthersNew'
        BY <2>2, <2>3 DEF RepairInv, OthersNew, Settled
    <2> QED
        BY <2>6, <2>7, <2>8, <2>9 DEF RepairInv
<1> QED
    BY <1>1, <1>2

\* What changes neither rows nor saves, and does not settle what was open.
LEMMA RestKeepsRepairInv ==
    ASSUME RepairInv, UNCHANGED <<store, doomed, repaired>>,
           hidden => hidden', body' = "deleting" <=> body = "deleting",
           body = "repairing" => body' = "repairing"
    PROVE  RepairInv'
BY DEF RepairInv, SavesInv, Going, OthersWhole, OthersNew, Settled, Of, Counted, RowKey, store

LEMMA AwaitedInit == CheckpointsInit => Awaited
BY DEF CheckpointsInit, Awaited, Gone

\* A step of an attempt saves, or leaves the rows and does not settle anything.
LEMMA AttemptKeepsInv ==
    ASSUME RepairInv, Awaited, NEW w \in {"main", "late"}, Attempt(w)
    PROVE  RepairInv' /\ Awaited'
<1>1. w = "main" => att["main"].at = "gone" \/ body = "running"
    BY DEF Awaited
<1>2. ASSUME Fails(w), att[w].at # "gone"
      PROVE  Awaited' /\ (body' = body \/ (body = "running" /\ body' = "stopped"))
    <2>1. CASE w = "late"
        BY <1>2, <2>1 DEF Fails, Awaited
    <2>2. CASE w = "main"
        BY <1>1, <1>2, <2>2 DEF Fails, Awaited, Gone, Start
    <2> QED
        BY <2>1, <2>2
<1>3. ASSUME NEW l, To(w, l), att[w].at # "gone", UNCHANGED body
      PROVE  Awaited'
    <2>1. CASE w = "late"
        BY <1>3, <2>1 DEF To, Awaited
    <2>2. CASE w = "main"
        BY <1>1, <1>3, <2>2 DEF To, Awaited
    <2> QED
        BY <2>1, <2>2
<1>4. CASE Check(w)
    <2>1. att[w].at # "gone" /\ UNCHANGED <<store, doomed, repaired, hidden>>
        BY <1>4 DEF Check, In
    <2>2. Awaited' /\ (body' = body \/ (body = "running" /\ body' = "stopped"))
        BY <1>2, <1>3, <1>4, <2>1 DEF Check
    <2> QED
        BY <2>1, <2>2, RestKeepsRepairInv
<1>5. CASE Read(w)
    <2>1. att[w].at # "gone" /\ UNCHANGED <<store, doomed, repaired, hidden>>
        BY <1>5 DEF Read, In
    <2>2. CASE Fails(w)
        BY <1>2, <2>1, <2>2, RestKeepsRepairInv
    <2>3. CASE ~Fails(w)
        <3>1. UNCHANGED body /\ \E l, v, m : att' = [att EXCEPT ![w].at = l, ![w].got = v, ![w].marks = m]
            BY <1>5, <2>3, Zenon DEF Read
        <3>2. Awaited'
            BY <1>1, <2>1, <3>1 DEF Awaited
        <3> QED
            BY <2>1, <3>1, <3>2, RestKeepsRepairInv
    <2> QED
        BY <2>2, <2>3
<1>6. CASE Work(w)
    <2>1. att[w].at # "gone" /\ UNCHANGED <<store, body, doomed, repaired, hidden>>
        BY <1>6 DEF Work, In
    <2>2. \E l, v, m : att' = [att EXCEPT ![w].at = l, ![w].got = v, ![w].marks = m]
        BY <1>6, Zenon DEF Work
    <2>3. Awaited'
        BY <1>1, <2>1, <2>2 DEF Awaited
    <2> QED
        BY <2>1, <2>3, RestKeepsRepairInv
<1>7. CASE Save(w)
    <2>1. att[w].at # "gone" /\ UNCHANGED <<doomed, repaired, hidden>>
        BY <1>7 DEF Save, In
    <2>2. CASE Fails(w) /\ UNCHANGED store
        BY <1>2, <2>1, <2>2, RestKeepsRepairInv
    <2>3. CASE ~(Fails(w) /\ UNCHANGED store)
        <3>1. /\ rows' = rows \cup ChunkRows(att[w].stage, Len(saves) + 1, att[w].got.of, att[w].marks)
              /\ saves' = Append(saves, [stage |-> att[w].stage, of |-> att[w].got.of])
              /\ To(w, "return") /\ UNCHANGED body
            BY <1>7, <2>3, Zenon DEF Save
        <3>2. Awaited'
            BY <1>3, <2>1, <3>1
        <3> QED
            BY <2>1, <3>1, <3>2, SaveKeepsRepairInv
    <2> QED
        BY <2>2, <2>3
<1>8. CASE Returns(w)
    <2>1. /\ att[w].at # "gone" /\ UNCHANGED <<store, doomed, repaired>>
          /\ hidden => hidden'
        BY <1>8 DEF Returns, In
    <2>2. Awaited' /\ (body' = body \/ (body = "running" /\ body' = "ended"))
        <3>1. CASE w = "late"
            BY <1>8, <3>1 DEF Returns, Awaited
        <3>2. CASE w = "main"
            BY <1>1, <1>8, <2>1, <3>2 DEF Returns, Awaited, Gone
        <3> QED
            BY <3>1, <3>2
    <2> QED
        BY <2>1, <2>2, RestKeepsRepairInv
<1> QED
    BY <1>4, <1>5, <1>6, <1>7, <1>8 DEF Attempt

LEMMA StepKeepsInv ==
    RepairInv /\ Awaited /\ [CheckpointsNext]_checkpointsVars => RepairInv' /\ Awaited'
<1> SUFFICES ASSUME RepairInv, Awaited, [CheckpointsNext]_checkpointsVars
             PROVE  RepairInv' /\ Awaited'
    OBVIOUS
<1>1. ASSUME NEW w \in {"main", "late"}, Attempt(w) PROVE RepairInv' /\ Awaited'
    BY <1>1, AttemptKeepsInv
<1>2. CASE Repair
    BY <1>2 DEF Repair, RepairInv, SavesInv, Going, OthersWhole, OthersNew, Settled, Of, Awaited, store
<1>3. CASE Select
    <2>1. /\ UNCHANGED <<rows, saves, hidden, att>> /\ body' = "deleting" /\ body = "repairing"
          /\ doomed' = {RowKey(r) : r \in rows}
          /\ repaired' = IF repaired = 0 THEN Len(saves) ELSE repaired
        BY <1>3 DEF Select, RowKey, store
    <2>2. SavesInv'
        <3>1. \A d \in doomed' : d.save \in 1 .. Len(saves)
            BY <2>1 DEF RepairInv, SavesInv, RowKey
        <3> QED
            BY <2>1, <3>1 DEF RepairInv, SavesInv
    <2>3. Going'
        BY <2>1 DEF Going, Of
    <2>4. OthersWhole' /\ OthersNew'
        BY <2>1 DEF OthersWhole, OthersNew
    <2> QED
        BY <2>1, <2>2, <2>3, <2>4 DEF RepairInv, Awaited
<1>4. CASE DeleteRow
    <2>1. Awaited'
        BY <1>4 DEF DeleteRow, Awaited
    <2> QED
        BY <1>4, <2>1, DeleteKeepsRepairInv
<1>5. CASE Resume
    <2>1. Awaited'
        BY <1>5 DEF Resume, Awaited
    <2> QED
        BY <1>5, <2>1, RestKeepsRepairInv DEF Resume
<1>6. CASE Crash
    <2>1. Awaited'
        BY <1>6 DEF Crash, Awaited, Gone
    <2>2. /\ UNCHANGED <<rows, saves, repaired, hidden>> /\ doomed' = {}
          /\ body' = IF Pending THEN "repairing" ELSE "running"
          /\ body \in {"running", "repairing", "deleting"}
        BY <1>6 DEF Crash, store
    <2>3. SavesInv' /\ Going'
        BY <2>2 DEF RepairInv, SavesInv, Going
    <2>4. ASSUME Settled' PROVE Settled /\ doomed = {}
        BY <2>2, <2>4 DEF Settled, Pending, RepairInv, Going
    <2>5. OthersWhole' /\ OthersNew'
        BY <2>2, <2>4 DEF RepairInv, OthersWhole, OthersNew, Of, Counted
    <2> QED
        BY <2>1, <2>3, <2>5 DEF RepairInv
<1>7. CASE Timeout
    <2>1. Awaited'
        BY <1>7 DEF Timeout, Awaited
    <2> QED
        BY <1>7, <2>1, RestKeepsRepairInv DEF Timeout
<1>8. CASE UNCHANGED checkpointsVars
    <2>1. Awaited'
        BY <1>8 DEF checkpointsVars, Awaited
    <2> QED
        BY <1>8, <2>1, RestKeepsRepairInv DEF checkpointsVars
<1> QED
    BY <1>1, <1>2, <1>3, <1>4, <1>5, <1>6, <1>7, <1>8 DEF CheckpointsNext

\* After a repair, however often it was interrupted, no stage finds a row that
\* it was to delete, nor half of a checkpoint: for any stages, artifacts, sizes
\* and number of faults.  invalidateFrom and readArtifact.
THEOREM CheckpointsRepairFinishes == CheckpointsSpec => []RepairIsFinished
<1>1. CheckpointsInit => RepairInv /\ Awaited
    BY RepairInvInit, AwaitedInit
<1> QED
    BY <1>1, StepKeepsInv, RepairInvHolds, PTL DEF CheckpointsSpec

----------------------------------------------------------------------------
(* Numbers and recursion.                                                    *)

LEMMA Least ==
    ASSUME NEW S, S \subseteq Nat, S # {}
    PROVE  \E m \in S : \A k \in S : m <= k
<1> DEFINE R == {ss \in Nat \X Nat : ss[1] < ss[2]}
<1>1. IsWellFoundedOn(R, Nat)
    BY NatLessThanWellFounded, Zenon DEF OpToRel
<1> HIDE DEF R
<1>2. PICK m \in S : \A k \in S : <<k, m>> \notin R
    BY <1>1, WFMin, Zenon
<1>3. \A k \in S : ~(k < m)
    BY <1>2 DEF R
<1> QED
    BY <1>3

\* Induction up to n, for a set of numbers.
LEMMA Reaches ==
    ASSUME NEW n \in Nat, NEW P, 0 \in P, \A k \in 1 .. n : k - 1 \in P => k \in P
    PROVE  \A k \in 0 .. n : k \in P
<1> DEFINE Bad == {k \in Nat : k <= n /\ k \notin P}
<1> SUFFICES ASSUME Bad # {} PROVE FALSE
    OBVIOUS
<1>1. PICK k \in Bad : \A j \in Bad : k <= j
    BY Least
<1>2. k \in 1 .. n /\ k \notin P /\ k - 1 \in Nat /\ k - 1 <= n /\ ~(k <= k - 1)
    BY <1>1
<1>3. k - 1 \in P
    BY <1>1, <1>2
<1> QED
    BY <1>2, <1>3

\* A recursion over 0 .. n whose steps stay in S has its function.
IsIteration(f, S, first, n, step) ==
    /\ f \in [0 .. n -> S] /\ f[0] = first
    /\ \A k \in 1 .. n : f[k] = step[<<f[k - 1], k>>]
LEMMA Iterates ==
    ASSUME NEW S, NEW first \in S, NEW n \in Nat, NEW step \in [S \X (1 .. n) -> S]
    PROVE  \E f : IsIteration(f, S, first, n, step)
<1> DEFINE Upto(f, m) == /\ f \in [0 .. m -> S] /\ f[0] = first
                         /\ \A k \in 1 .. m : f[k] = step[<<f[k - 1], k>>]
           P == {m \in 0 .. n : \E f : Upto(f, m)}
<1>1. 0 \in P
    <2>1. Upto([k \in 0 .. 0 |-> first], 0)
        OBVIOUS
    <2> HIDE DEF Upto
    <2>2. \E f : Upto(f, 0)
        BY <2>1
    <2> QED
        BY <2>2
<1>2. ASSUME NEW m \in 1 .. n, m - 1 \in P PROVE m \in P
    <2>1. PICK f : Upto(f, m - 1)
        BY <1>2
    <2> DEFINE g == [k \in 0 .. m |-> IF k = m THEN step[<<f[m - 1], m>>] ELSE f[k]]
    <2>2. m - 1 \in 0 .. m - 1 /\ f[m - 1] \in S /\ step[<<f[m - 1], m>>] \in S
        BY <2>1
    <2>3. \A k \in 0 .. m - 1 : k \in 0 .. m /\ g[k] = f[k] /\ g[k] \in S
        BY <2>1
    <2>4. g \in [0 .. m -> S]
        <3>1. g[m] = step[<<f[m - 1], m>>]
            OBVIOUS
        <3>2. \A k \in 0 .. m : k \in 0 .. m - 1 \/ k = m
            OBVIOUS
        <3>3. \A k \in 0 .. m : g[k] \in S
            BY <2>2, <2>3, <3>1, <3>2
        <3>4. g = [k \in 0 .. m |-> g[k]]
            OBVIOUS
        <3> HIDE DEF g
        <3> QED
            BY <3>3, <3>4
    <2>5. g[0] = first
        BY <2>1, <2>3
    <2>6. ASSUME NEW k \in 1 .. m PROVE g[k] = step[<<g[k - 1], k>>]
        <3>1. g[k - 1] = f[k - 1]
            BY <2>3
        <3>2. CASE k = m
            <4>1. g[m] = step[<<f[m - 1], m>>]
                OBVIOUS
            <4> HIDE DEF g
            <4> QED
                BY <3>1, <3>2, <4>1
        <3>3. CASE k # m
            <4>1. k \in 1 .. m - 1 /\ g[k] = f[k]
                BY <2>3, <3>3
            <4> QED
                BY <2>1, <3>1, <4>1
        <3> QED
            BY <3>2, <3>3
    <2> HIDE DEF g
    <2>7. Upto(g, m)
        BY <2>4, <2>5, <2>6
    <2> QED
        BY <2>7
<1>3. n \in P
    <2> HIDE DEF P
    <2> QED
        BY <1>1, <1>2, Reaches
<1> QED
    BY <1>3 DEF IsIteration

----------------------------------------------------------------------------
(* Chunks: what one save has cut up is put together again.                   *)

IsJoined(f, chunks) ==
    f = [n \in 0 .. Len(chunks) |-> IF n = 0 THEN <<>> ELSE f[n - 1] \o chunks[n]]
Joins(f, T, chunks, result) ==
    /\ f \in [0 .. Len(chunks) -> Seq(T)] /\ f[0] = <<>>
    /\ \A n \in 1 .. Len(chunks) : f[n] = f[n - 1] \o chunks[n]
    /\ result = f[Len(chunks)]

LEMMA ChunksFacts ==
    ASSUME NEW T, NEW c \in Seq(Seq(T))
    PROVE  Len(c) \in Nat /\ \A n \in 1 .. Len(c) : c[n] \in Seq(T)
    OBVIOUS

LEMMA ConcatIs ==
    ASSUME NEW T, NEW c \in Seq(Seq(T))
    PROVE  \E f : Joins(f, T, c, Concat(c))
<1> DEFINE N == Len(c)
           S == Seq(T)
           next(x, n) == x \o c[n]
           step == [x \in S \X (1 .. N) |-> next(x[1], x[2])]
<1>0. N \in Nat /\ <<>> \in S /\ \A x \in S, n \in 1 .. N : next(x, n) \in S
    BY ChunksFacts
<1> HIDE DEF S, next
<1>1. step \in [S \X (1 .. N) -> S]
    BY <1>0
<1>2. PICK f : IsIteration(f, S, <<>>, N, step)
    <2> HIDE DEF step, N
    <2> QED
        BY <1>0, <1>1, Iterates, Zenon
<1>3. \A n \in 1 .. N : f[n] = next(f[n - 1], n)
    <2> TAKE n \in 1 .. N
    <2> HIDE DEF step
    <2>0. f \in [0 .. N -> S] /\ f[n] = step[<<f[n - 1], n>>] /\ n - 1 \in 0 .. N
        BY <1>0, <1>2 DEF IsIteration
    <2>1. f[n - 1] \in S /\ f[n] = step[<<f[n - 1], n>>]
        BY <2>0
    <2> USE DEF step
    <2> QED
        BY <2>1
<1>4. IsJoined(f, c)
    <2>1. f = [n \in 0 .. N |-> f[n]] /\ f[0] = <<>>
        BY <1>2 DEF IsIteration
    <2>2. \A n \in 0 .. N : f[n] = IF n = 0 THEN <<>> ELSE next(f[n - 1], n)
        BY <1>0, <1>3, <2>1
    <2> QED
        BY <2>1, <2>2 DEF IsJoined, next
<1> DEFINE joined == CHOOSE g : IsJoined(g, c)
<1>5. IsJoined(joined, c)
    BY <1>4, Zenon
<1>6. Concat(c) = joined[N]
    BY DEF Concat, IsJoined
<1> HIDE DEF joined
<1>7. /\ joined = [n \in 0 .. N |-> joined[n]] /\ joined[0] = <<>>
      /\ \A n \in 1 .. N : joined[n] = next(joined[n - 1], n)
    <2>1. joined = [n \in 0 .. N |-> IF n = 0 THEN <<>> ELSE next(joined[n - 1], n)]
        BY <1>5 DEF IsJoined, next
    <2> HIDE DEF N
    <2>2. 0 \in 0 .. N /\ \A n \in 1 .. N : n \in 0 .. N /\ n # 0
        BY <1>0
    <2>3. /\ joined[0] = <<>>
          /\ \A n \in 1 .. N : joined[n] = next(joined[n - 1], n)
        BY <2>1, <2>2
    <2>4. joined = [n \in 0 .. N |-> joined[n]]
        BY <2>1
    <2> QED
        BY <2>3, <2>4
<1> DEFINE P == {m \in 0 .. N : joined[m] \in S}
<1>8. 0 \in P
    BY <1>0, <1>7
<1>9. ASSUME NEW n \in 1 .. N, n - 1 \in P PROVE n \in P
    <2>1. joined[n - 1] \in S /\ n \in 0 .. N
        BY <1>0, <1>9
    <2>2. next(joined[n - 1], n) \in S
        BY <1>0, <2>1
    <2> QED
        BY <1>7, <2>1, <2>2
<1>10. \A n \in 0 .. N : joined[n] \in S
    <2> HIDE DEF P
    <2>1. \A n \in 0 .. N : n \in P
        BY <1>0, <1>8, <1>9, Reaches
    <2> QED
        BY <2>1 DEF P
<1>11. joined \in [0 .. N -> S]
    BY <1>7, <1>10
<1> QED
    BY <1>6, <1>7, <1>11 DEF Joins, S, next

LEMMA ConcatType == ASSUME NEW T, NEW c \in Seq(Seq(T)) PROVE Concat(c) \in Seq(T)
<1>1. PICK f : Joins(f, T, c, Concat(c))
    BY ConcatIs
<1> QED
    BY <1>1, ChunksFacts DEF Joins

\* One more chunk.
LEMMA ConcatAppend ==
    ASSUME NEW T, NEW c \in Seq(Seq(T)), NEW x \in Seq(T)
    PROVE  Concat(Append(c, x)) = Concat(c) \o x
<1> DEFINE N == Len(c)
           d == Append(c, x)
<1>0. /\ N \in Nat /\ d \in Seq(Seq(T)) /\ Len(d) = N + 1 /\ d[N + 1] = x
      /\ \A n \in 1 .. N : d[n] = c[n]
    OBVIOUS
<1> HIDE DEF d, N
<1>1. PICK f : Joins(f, T, c, Concat(c))
    BY ConcatIs
<1>2. PICK g : Joins(g, T, d, Concat(d))
    BY <1>0, ConcatIs
<1>3. /\ f[0] = <<>> /\ \A n \in 1 .. N : f[n] = f[n - 1] \o c[n]
      /\ Concat(c) = f[N]
    BY <1>1 DEF Joins, N
<1>4. /\ g[0] = <<>> /\ \A n \in 1 .. N + 1 : g[n] = g[n - 1] \o d[n]
      /\ Concat(d) = g[N + 1]
    BY <1>0, <1>2 DEF Joins
<1> DEFINE P == {n \in 0 .. N : f[n] = g[n]}
<1>5. 0 \in P
    BY <1>0, <1>3, <1>4
<1>6. ASSUME NEW n \in 1 .. N, n - 1 \in P PROVE n \in P
    <2>1. f[n - 1] = g[n - 1] /\ n \in 1 .. N + 1 /\ n \in 0 .. N
        BY <1>0, <1>6
    <2>2. f[n] = g[n]
        BY <1>0, <1>3, <1>4, <2>1
    <2> QED
        BY <2>1, <2>2
<1>7. f[N] = g[N]
    <2> HIDE DEF P
    <2>1. \A n \in 0 .. N : n \in P
        BY <1>0, <1>5, <1>6, Reaches
    <2>2. N \in 0 .. N
        BY <1>0
    <2> QED
        BY <2>1, <2>2 DEF P
<1>8. N + 1 \in 1 .. N + 1 /\ (N + 1) - 1 = N
    BY <1>0
<1> QED
    BY <1>0, <1>3, <1>4, <1>7, <1>8 DEF d

LEMMA ConcatNone == Concat(<<>>) = <<>>
<1>1. PICK f : Joins(f, {}, <<>>, Concat(<<>>))
    <2>1. <<>> \in Seq(Seq({}))
        OBVIOUS
    <2> QED
        BY <2>1, ConcatIs
<1> QED
    BY <1>1 DEF Joins

LEMMA ConcatOne == ASSUME NEW T, NEW x \in Seq(T) PROVE Concat(<<x>>) = x
<1>1. <<>> \in Seq(Seq(T)) /\ Append(<<>>, x) = <<x>> /\ <<>> \o x = x
    OBVIOUS
<1> QED
    BY <1>1, ConcatAppend, ConcatNone

WithLast(c, e) == [c EXCEPT ![Len(c)] = e]
LEMMA LastReplaced ==
    ASSUME NEW U, NEW front \in Seq(U), NEW a \in U, NEW b \in U
    PROVE  WithLast(Append(front, a), b) = Append(front, b)
<1> DEFINE n == Len(front) + 1
           x == Append(front, a)
           y == Append(front, b)
           z == [x EXCEPT ![n] = b]
<1>1. /\ Len(x) = n /\ Len(y) = n /\ n \in Nat \ {0} /\ x \in Seq(U) /\ y \in Seq(U)
      /\ y[n] = b /\ \A i \in 1 .. n - 1 : x[i] = y[i]
    OBVIOUS
<1>2. z \in Seq(U) /\ Len(z) = n /\ \A i \in 1 .. n : z[i] = IF i = n THEN b ELSE x[i]
    <2> HIDE DEF x, y, n
    <2> QED
        BY <1>1, ExceptSeq
<1> HIDE DEF x, y, n, z
<1>3. \A i \in 1 .. n : z[i] = y[i]
    BY <1>1, <1>2
<1>4. z = y
    BY <1>1, <1>2, <1>3, SeqEqual
<1> QED
    BY <1>1, <1>4 DEF z, x, y, WithLast

\* An entry more, in the open chunk or in one of its own.
Adds(T, c, e, result) ==
    result \in Seq(Seq(T)) /\ Len(result) >= 1 /\ Concat(result) = Append(Concat(c), e)
LEMMA AddEntryFacts ==
    ASSUME NEW T, NEW s, NEW c \in Seq(Seq(T)), Len(c) >= 1, NEW e \in T
    PROVE  Adds(T, c, e, AddEntry(s, c, e))
<1> DEFINE last == c[Len(c)]
           front == SubSeq(c, 1, Len(c) - 1)
<1>0. last \in Seq(T) /\ Concat(c) \in Seq(T)
    BY ChunksFacts, ConcatType
<1>1. CASE AddEntry(s, c, e) = Append(c, <<e>>)
    <2>1. /\ Append(c, <<e>>) \in Seq(Seq(T)) /\ Len(Append(c, <<e>>)) >= 1
          /\ <<e>> \in Seq(T) /\ Concat(c) \o <<e>> = Append(Concat(c), e)
        BY <1>0
    <2>2. Concat(Append(c, <<e>>)) = Concat(c) \o <<e>>
        BY <2>1, ConcatAppend
    <2> QED
        BY <1>1, <2>1, <2>2 DEF Adds
<1>2. CASE AddEntry(s, c, e) = [c EXCEPT ![Len(c)] = Append(last, e)]
    <2>1. front \in Seq(Seq(T)) /\ c = Append(front, last)
        BY <1>0
    <2>2. Append(last, e) \in Seq(T)
        BY <1>0
    <2>3. [c EXCEPT ![Len(c)] = Append(last, e)] = Append(front, Append(last, e))
        <3> HIDE DEF front, last
        <3>1. WithLast(Append(front, last), Append(last, e)) = Append(front, Append(last, e))
            BY <1>0, <2>1, <2>2, LastReplaced
        <3> QED
            BY <2>1, <3>1 DEF WithLast
    <2>4. Concat(c) = Concat(front) \o last
        <3> HIDE DEF front, last
        <3>1. Concat(Append(front, last)) = Concat(front) \o last
            BY <1>0, <2>1, ConcatAppend
        <3> QED
            BY <2>1, <3>1
    <2>5. Concat(Append(front, Append(last, e))) = Concat(front) \o Append(last, e)
        <3> HIDE DEF front, last
        <3> QED
            BY <2>1, <2>2, ConcatAppend
    <2>6. Concat(front) \in Seq(T)
        BY <2>1, ConcatType
    <2>7. Concat(front) \o Append(last, e) = Append(Concat(front) \o last, e)
        <3> HIDE DEF front, last
        <3> QED
            BY <1>0, <2>6
    <2>8. Append(front, Append(last, e)) \in Seq(Seq(T)) /\ Len(Append(front, Append(last, e))) >= 1
        <3> HIDE DEF front, last
        <3> QED
            BY <2>1, <2>2
    <2> HIDE DEF front, last
    <2> QED
        BY <1>2, <2>3, <2>4, <2>5, <2>7, <2>8 DEF Adds
<1>3. \/ AddEntry(s, c, e) = Append(c, <<e>>)
      \/ AddEntry(s, c, e) = [c EXCEPT ![Len(c)] = Append(last, e)]
    <2> HIDE DEF last
    <2> QED
        BY DEF AddEntry, last
<1> QED
    BY <1>1, <1>2, <1>3

IsChunked(f, s, es) ==
    f = [n \in 0 .. Len(es) |-> IF n = 0 THEN <<<<>>>> ELSE AddEntry(s, f[n - 1], es[n])]
LEMMA ChunksJoin ==
    ASSUME NEW T, NEW s, NEW es \in Seq(T)
    PROVE  /\ Chunks(s, es) \in Seq(Seq(T)) /\ Len(Chunks(s, es)) >= 1
           /\ Concat(Chunks(s, es)) = es
<1> DEFINE N == Len(es)
           first == <<<<>>>>
           S == {c \in Seq(Seq(T)) : Len(c) >= 1}
           next(x, n) == AddEntry(s, x, es[n])
           step == [x \in S \X (1 .. N) |-> next(x[1], x[2])]
<1>0. N \in Nat /\ first \in S /\ \A n \in 1 .. N : es[n] \in T
    OBVIOUS
<1>a. ASSUME NEW x \in S, NEW n \in 1 .. N
      PROVE  next(x, n) \in S /\ Concat(next(x, n)) = Append(Concat(x), es[n])
    <2>1. x \in Seq(Seq(T)) /\ Len(x) >= 1 /\ es[n] \in T
        BY <1>0
    <2>2. Adds(T, x, es[n], AddEntry(s, x, es[n]))
        BY <2>1, AddEntryFacts, Zenon
    <2> QED
        BY <2>2 DEF Adds
<1> HIDE DEF next
<1>1. step \in [S \X (1 .. N) -> S]
    <2> HIDE DEF S, N
    <2> QED
        BY <1>0, <1>a
<1> HIDE DEF S, first
<1>2. PICK f : IsIteration(f, S, first, N, step)
    <2> HIDE DEF step, N
    <2> QED
        BY <1>0, <1>1, Iterates, Zenon
<1>3. \A n \in 1 .. N : f[n] = next(f[n - 1], n)
    <2> TAKE n \in 1 .. N
    <2> HIDE DEF step
    <2>0. f \in [0 .. N -> S] /\ f[n] = step[<<f[n - 1], n>>] /\ n - 1 \in 0 .. N
        BY <1>0, <1>2 DEF IsIteration
    <2>1. f[n - 1] \in S /\ f[n] = step[<<f[n - 1], n>>]
        BY <2>0
    <2> USE DEF step
    <2> QED
        BY <2>1
<1>4. IsChunked(f, s, es)
    <2>1. f = [n \in 0 .. N |-> f[n]] /\ f[0] = first
        BY <1>2 DEF IsIteration
    <2>2. \A n \in 0 .. N : f[n] = IF n = 0 THEN first ELSE next(f[n - 1], n)
        BY <1>0, <1>3, <2>1
    <2> QED
        BY <2>1, <2>2 DEF IsChunked, next, first
<1> DEFINE chunked == CHOOSE g : IsChunked(g, s, es)
<1>5. IsChunked(chunked, s, es)
    BY <1>4, Zenon
<1>6. Chunks(s, es) = IF IsList(s) THEN chunked[N] ELSE <<es>>
    BY DEF Chunks, IsChunked
<1> HIDE DEF chunked
<1>7. /\ chunked[0] = first
      /\ \A n \in 1 .. N : chunked[n] = next(chunked[n - 1], n)
    <2>1. chunked = [n \in 0 .. N |-> IF n = 0 THEN first ELSE next(chunked[n - 1], n)]
        BY <1>5 DEF IsChunked, next, first
    <2> HIDE DEF N
    <2>2. 0 \in 0 .. N /\ \A n \in 1 .. N : n \in 0 .. N /\ n # 0
        BY <1>0
    <2> QED
        BY <2>1, <2>2
<1> DEFINE P == {n \in 0 .. N : chunked[n] \in S /\ Concat(chunked[n]) = SubSeq(es, 1, n)}
<1>8. 0 \in P
    <2>1. Concat(first) = <<>>
        <3>1. <<>> \in Seq(T)
            OBVIOUS
        <3> QED
            BY <3>1, ConcatOne DEF first
    <2>2. SubSeq(es, 1, 0) = <<>> /\ 0 \in 0 .. N
        BY <1>0
    <2> QED
        BY <1>0, <1>7, <2>1, <2>2
<1>9. ASSUME NEW n \in 1 .. N, n - 1 \in P PROVE n \in P
    <2>1. chunked[n - 1] \in S /\ n \in 0 .. N /\ Concat(chunked[n - 1]) = SubSeq(es, 1, n - 1)
        BY <1>0, <1>9
    <2>2. chunked[n] \in S /\ Concat(chunked[n]) = Append(SubSeq(es, 1, n - 1), es[n])
        BY <1>7, <1>a, <2>1
    <2>3. SubSeq(es, 1, n) = Append(SubSeq(es, 1, n - 1), es[n])
        OBVIOUS
    <2> QED
        BY <2>1, <2>2, <2>3
<1>10. chunked[N] \in S /\ Concat(chunked[N]) = es
    <2>1. SubSeq(es, 1, Len(es)) = es /\ N \in 0 .. N
        OBVIOUS
    <2> HIDE DEF P
    <2>2. \A n \in 0 .. N : n \in P
        BY <1>0, <1>8, <1>9, Reaches
    <2>3. N \in P
        BY <2>1, <2>2
    <2> QED
        BY <2>1, <2>3 DEF P
<1>11. <<es>> \in Seq(Seq(T)) /\ Len(<<es>>) >= 1 /\ Concat(<<es>>) = es
    BY ConcatOne
<1> QED
    BY <1>6, <1>10, <1>11 DEF S

----------------------------------------------------------------------------
(* Valid leaves entries out.                                                 *)
IsNamed(f, es) ==
    f = [n \in 0 .. Len(es) |->
            IF n = 0 THEN <<>>
            ELSE IF es[n].id \in Hollow THEN f[n - 1] ELSE Append(f[n - 1], es[n])]
LEMMA ValidType ==
    ASSUME NEW T, NEW es \in Seq(T)
    PROVE  Valid(es) \in Seq(T)
<1> DEFINE N == Len(es)
           S == Seq(T)
           next(x, n) == IF es[n].id \in Hollow THEN x ELSE Append(x, es[n])
           step == [x \in S \X (1 .. N) |-> next(x[1], x[2])]
<1>0. N \in Nat /\ <<>> \in S /\ \A x \in S, n \in 1 .. N : next(x, n) \in S
    OBVIOUS
<1> HIDE DEF S, next
<1>1. step \in [S \X (1 .. N) -> S]
    BY <1>0
<1>2. PICK f : IsIteration(f, S, <<>>, N, step)
    <2> HIDE DEF step, N
    <2> QED
        BY <1>0, <1>1, Iterates, Zenon
<1>3. \A n \in 1 .. N : f[n] = next(f[n - 1], n)
    <2> TAKE n \in 1 .. N
    <2> HIDE DEF step
    <2>0. f \in [0 .. N -> S] /\ f[n] = step[<<f[n - 1], n>>] /\ n - 1 \in 0 .. N
        BY <1>0, <1>2 DEF IsIteration
    <2>1. f[n - 1] \in S /\ f[n] = step[<<f[n - 1], n>>]
        BY <2>0
    <2> USE DEF step
    <2> QED
        BY <2>1
<1>4. IsNamed(f, es)
    <2>1. f = [n \in 0 .. N |-> f[n]] /\ f[0] = <<>>
        BY <1>2 DEF IsIteration
    <2>2. \A n \in 0 .. N : f[n] = IF n = 0 THEN <<>> ELSE next(f[n - 1], n)
        BY <1>0, <1>3, <2>1
    <2> QED
        BY <2>1, <2>2 DEF IsNamed, next
<1> DEFINE named == CHOOSE g : IsNamed(g, es)
<1>5. IsNamed(named, es)
    BY <1>4, Zenon
<1>6. Valid(es) = named[N]
    BY DEF Valid, IsNamed
<1> HIDE DEF named
<1>7. /\ named[0] = <<>>
      /\ \A n \in 1 .. N : named[n] = next(named[n - 1], n)
    <2>1. named = [n \in 0 .. N |-> IF n = 0 THEN <<>> ELSE next(named[n - 1], n)]
        BY <1>5 DEF IsNamed, next
    <2> HIDE DEF N
    <2>2. 0 \in 0 .. N /\ \A n \in 1 .. N : n \in 0 .. N /\ n # 0
        BY <1>0
    <2> QED
        BY <2>1, <2>2
<1> DEFINE P == {n \in 0 .. N : named[n] \in S}
<1>8. 0 \in P
    BY <1>0, <1>7
<1>9. ASSUME NEW n \in 1 .. N, n - 1 \in P PROVE n \in P
    <2>1. named[n - 1] \in S /\ n \in 0 .. N
        BY <1>0, <1>9
    <2>2. next(named[n - 1], n) \in S
        BY <1>0, <2>1
    <2> QED
        BY <1>7, <2>1, <2>2
<1>10. named[N] \in S
    <2>1. N \in 0 .. N
        BY <1>0
    <2> HIDE DEF P
    <2>2. \A n \in 0 .. N : n \in P
        BY <1>0, <1>8, <1>9, Reaches
    <2>3. N \in P
        BY <2>1, <2>2
    <2> QED
        BY <2>3 DEF P
<1> QED
    BY <1>6, <1>10 DEF S

----------------------------------------------------------------------------
(* The text of the entries.  Text(t, n): decoded t times, and what presents  *)
(* it n times.  Said: all that the markers of an artifact say of its text.   *)
Text(t, n) == {e \in Entries : e.text = t /\ e.shown = n}
Said(s, marks, es) == es \in Seq({e \in Entries : Marked(s, marks, e)})

Kinds == {"collect", "items", "present", "compose"}
LEMMA KindFacts ==
    ASSUME NEW s \in Stages
    PROVE  /\ Stages = 1 .. Len(Kind) /\ Len(Kind) \in Nat /\ 1 \in Stages
           /\ Kind[s] \in Kinds
           /\ s = 1 <=> Kind[s] = "collect"
           /\ s # 1 => s - 1 \in Stages /\ Kind[s] \in Follows[Kind[s - 1]]
<1>1. Kind \in Seq(Kinds) /\ Kind # <<>>
    BY CheckpointsAssumption DEF Kinds
<1>2. Stages = 1 .. Len(Kind) /\ Len(Kind) \in Nat /\ 1 \in Stages /\ \A r \in Stages : Kind[r] \in Kinds
    BY <1>1 DEF Stages
<1>3. s # 1 => s - 1 \in Stages /\ Kind[s] \in Follows[Kind[s - 1]]
    BY <1>2, CheckpointsAssumption
<1>4. \A k \in Kinds : "collect" \notin Follows[k]
    BY DEF Kinds, Follows
<1> QED
    BY <1>2, <1>3, <1>4, CheckpointsAssumption

LEMMA SaidIs ==
    ASSUME NEW s, NEW m, NEW es
    PROVE  /\ Kind[s] = "collect" => (Said(s, m, es) <=> es \in Seq(Text(Once("preparation" \in m), 0)))
           /\ Kind[s] = "items" => (Said(s, m, es) <=> es \in Seq(Text(Once("normalization" \in m), 0)))
           /\ Kind[s] = "present" =>
                (Said(s, m, es) <=> es \in Seq(Text(Once("normalization" \in m), Once("presentation" \in m))))
           /\ Kind[s] = "compose" =>
                (Said(s, m, es) <=> es \in Seq(Text(Once("composition" \in m), Once("composition" \in m))))
BY DEF Said, Text, Marked

LEMMA TextSeq ==
    ASSUME NEW t, NEW n, NEW es
    PROVE  es \in Seq(Text(t, n)) <=>
               es \in Seq(Entries) /\ \A i \in 1 .. Len(es) : es[i].text = t /\ es[i].shown = n
<1>1. ASSUME es \in Seq(Text(t, n))
      PROVE  es \in Seq(Entries) /\ \A i \in 1 .. Len(es) : es[i].text = t /\ es[i].shown = n
    <2>1. \A i \in 1 .. Len(es) : es[i] \in Text(t, n)
        BY <1>1
    <2>2. Text(t, n) \subseteq Entries /\ \A e \in Text(t, n) : e.text = t /\ e.shown = n
        BY DEF Text
    <2> QED
        BY <1>1, <2>1, <2>2
<1>2. ASSUME es \in Seq(Entries), \A i \in 1 .. Len(es) : es[i].text = t /\ es[i].shown = n
      PROVE  es \in Seq(Text(t, n))
    <2>1. \A i \in 1 .. Len(es) : es[i] \in Text(t, n)
        BY <1>2 DEF Text
    <2> QED
        BY <1>2, <2>1
<1> QED
    BY <1>1, <1>2

TextDecoded(e) == [e EXCEPT !.text = Decoded(@)]
ShownDecoded(e) == [e EXCEPT !.shown = Decoded(@)]
BothDecoded(e) == [e EXCEPT !.text = Decoded(@), !.shown = Decoded(@)]
ShownOnce(e) == [e EXCEPT !.shown = IF @ = 0 THEN Decoded(@) ELSE @]

LEMMA EntryFacts ==
    ASSUME NEW t \in Nat, NEW n \in Nat, NEW e \in Text(t, n)
    PROVE  /\ TextDecoded(e) \in Text(t + 1, n) /\ TextDecoded(e).id = e.id
           /\ ShownDecoded(e) \in Text(t, n + 1) /\ ShownDecoded(e).id = e.id
           /\ BothDecoded(e) \in Text(t + 1, n + 1) /\ BothDecoded(e).id = e.id
           /\ ShownOnce(e) \in Text(t, IF n = 0 THEN 1 ELSE n) /\ ShownOnce(e).id = e.id
           /\ Compacted(e) \in Text(t, n) /\ Compacted(e).id = e.id
<1>1. e \in Entries /\ e.text = t /\ e.shown = n
    BY DEF Text
<1>2. TextDecoded(e) \in Text(t + 1, n) /\ TextDecoded(e).id = e.id
    BY <1>1 DEF Text, Entries, Decoded, TextDecoded
<1>3. ShownDecoded(e) \in Text(t, n + 1) /\ ShownDecoded(e).id = e.id
    BY <1>1 DEF Text, Entries, Decoded, ShownDecoded
<1>4. BothDecoded(e) \in Text(t + 1, n + 1) /\ BothDecoded(e).id = e.id
    <2> DEFINE x == TextDecoded(e)
    <2>1. BothDecoded(e) = ShownDecoded(x)
        BY <1>1 DEF BothDecoded, ShownDecoded, TextDecoded, Entries
    <2> HIDE DEF x
    <2>2. x \in Entries /\ x.text = t + 1 /\ x.shown = n /\ x.id = e.id
        BY <1>2 DEF x, Text
    <2>3. ShownDecoded(x) \in Text(t + 1, n + 1) /\ ShownDecoded(x).id = x.id
        BY <2>2 DEF Text, Entries, Decoded, ShownDecoded
    <2> QED
        BY <2>1, <2>2, <2>3
<1>5. ShownOnce(e) \in Text(t, IF n = 0 THEN 1 ELSE n) /\ ShownOnce(e).id = e.id
    <2>1. CASE n = 0
        BY <1>1, <2>1 DEF Text, Entries, Decoded, ShownOnce
    <2>2. CASE n # 0
        BY <1>1, <2>2 DEF Text, Entries, Decoded, ShownOnce
    <2> QED
        BY <2>1, <2>2
<1>6. Compacted(e) \in Text(t, n) /\ Compacted(e).id = e.id
    BY <1>1 DEF Text, Entries, Decoded, Compacted
<1> QED
    BY <1>2, <1>3, <1>4, <1>5, <1>6

\* What the operators on outputs do, an entry at a time.
LEMMA MapsAre ==
    ASSUME NEW es
    PROVE  /\ Prepared(es) = [i \in DOMAIN Valid(es) |-> TextDecoded(Valid(es)[i])]
           /\ Normalized(es) = [i \in DOMAIN Valid(es) |-> Compacted(TextDecoded(Valid(es)[i]))]
           /\ Map(Compacted, es) = [i \in DOMAIN es |-> Compacted(es[i])]
           /\ PresentedLegacy(es) = [i \in DOMAIN es |-> ShownDecoded(es[i])]
           /\ PresentedCurrent(es) = [i \in DOMAIN es |-> ShownOnce(es[i])]
           /\ ComposedLegacy(es) = [i \in DOMAIN es |-> BothDecoded(es[i])]
           /\ Ids(es) = [i \in DOMAIN es |-> es[i].id]
BY DEF Prepared, Normalized, Map, PresentedLegacy, PresentedCurrent, ComposedLegacy, Ids,
       TextDecoded, ShownDecoded, ShownOnce, BothDecoded

LEMMA SameIds ==
    ASSUME NEW x, NEW y, DOMAIN x = DOMAIN y, \A i \in DOMAIN y : x[i].id = y[i].id
    PROVE  Ids(x) = Ids(y)
BY MapsAre

\* What they make of the text; the entries are the same, or the valid ones.
LEMMA PreparedText ==
    ASSUME NEW t \in Nat, NEW n \in Nat, NEW es \in Seq(Text(t, n))
    PROVE  /\ Prepared(es) \in Seq(Text(t + 1, n)) /\ Normalized(es) \in Seq(Text(t + 1, n))
           /\ Ids(Normalized(es)) = Ids(Valid(es))
<1> DEFINE v == Valid(es)
<1>1. v \in Seq(Text(t, n))
    BY ValidType
<1> HIDE DEF v
<1>2. DOMAIN v = 1 .. Len(v) /\ Len(v) \in Nat /\ \A i \in 1 .. Len(v) : v[i] \in Text(t, n)
    BY <1>1
<1>3. \A i \in 1 .. Len(v) : TextDecoded(v[i]) \in Text(t + 1, n) /\ TextDecoded(v[i]).id = v[i].id
    BY <1>2, EntryFacts
<1>4. t + 1 \in Nat
    OBVIOUS
<1>5. \A i \in 1 .. Len(v) : /\ Compacted(TextDecoded(v[i])) \in Text(t + 1, n)
                             /\ Compacted(TextDecoded(v[i])).id = v[i].id
    BY <1>3, <1>4, EntryFacts
<1>6. Prepared(es) = [i \in 1 .. Len(v) |-> TextDecoded(v[i])]
    BY <1>2, MapsAre DEF v
<1>7. Normalized(es) = [i \in 1 .. Len(v) |-> Compacted(TextDecoded(v[i]))]
    BY <1>2, MapsAre DEF v
<1>8. Prepared(es) \in Seq(Text(t + 1, n))
    BY <1>2, <1>3, <1>6
<1>9. Normalized(es) \in Seq(Text(t + 1, n))
    BY <1>2, <1>5, <1>7
<1>10. Ids(Normalized(es)) = Ids(v)
    <2>1. DOMAIN Normalized(es) = DOMAIN v /\ \A i \in DOMAIN v : Normalized(es)[i].id = v[i].id
        BY <1>2, <1>5, <1>7
    <2> QED
        BY <2>1, SameIds
<1> QED
    BY <1>8, <1>9, <1>10 DEF v

LEMMA MappedText ==
    ASSUME NEW t \in Nat, NEW n \in Nat, NEW es \in Seq(Text(t, n))
    PROVE  /\ Map(Compacted, es) \in Seq(Text(t, n))
           /\ PresentedLegacy(es) \in Seq(Text(t, n + 1))
           /\ PresentedCurrent(es) \in Seq(Text(t, IF n = 0 THEN 1 ELSE n))
           /\ ComposedLegacy(es) \in Seq(Text(t + 1, n + 1))
           /\ Ids(PresentedLegacy(es)) = Ids(es) /\ Ids(ComposedLegacy(es)) = Ids(es)
<1>1. DOMAIN es = 1 .. Len(es) /\ Len(es) \in Nat /\ \A i \in 1 .. Len(es) : es[i] \in Text(t, n)
    OBVIOUS
<1>2. \A i \in 1 .. Len(es) :
          /\ Compacted(es[i]) \in Text(t, n)
          /\ ShownDecoded(es[i]) \in Text(t, n + 1) /\ ShownDecoded(es[i]).id = es[i].id
          /\ BothDecoded(es[i]) \in Text(t + 1, n + 1) /\ BothDecoded(es[i]).id = es[i].id
          /\ ShownOnce(es[i]) \in Text(t, IF n = 0 THEN 1 ELSE n)
    BY <1>1, EntryFacts
<1>3. /\ Map(Compacted, es) = [i \in 1 .. Len(es) |-> Compacted(es[i])]
      /\ PresentedLegacy(es) = [i \in 1 .. Len(es) |-> ShownDecoded(es[i])]
      /\ PresentedCurrent(es) = [i \in 1 .. Len(es) |-> ShownOnce(es[i])]
      /\ ComposedLegacy(es) = [i \in 1 .. Len(es) |-> BothDecoded(es[i])]
    BY <1>1, MapsAre
<1>4. Map(Compacted, es) \in Seq(Text(t, n))
    BY <1>1, <1>2, <1>3
<1>5. PresentedLegacy(es) \in Seq(Text(t, n + 1))
    BY <1>1, <1>2, <1>3
<1>6. PresentedCurrent(es) \in Seq(Text(t, IF n = 0 THEN 1 ELSE n))
    BY <1>1, <1>2, <1>3
<1>7. ComposedLegacy(es) \in Seq(Text(t + 1, n + 1))
    BY <1>1, <1>2, <1>3
<1>8. Ids(PresentedLegacy(es)) = Ids(es)
    <2>1. DOMAIN PresentedLegacy(es) = DOMAIN es /\ \A i \in DOMAIN es : PresentedLegacy(es)[i].id = es[i].id
        BY <1>1, <1>2, <1>3
    <2> QED
        BY <2>1, SameIds
<1>9. Ids(ComposedLegacy(es)) = Ids(es)
    <2>1. DOMAIN ComposedLegacy(es) = DOMAIN es /\ \A i \in DOMAIN es : ComposedLegacy(es)[i].id = es[i].id
        BY <1>1, <1>2, <1>3
    <2> QED
        BY <2>1, SameIds
<1> QED
    BY <1>4, <1>5, <1>6, <1>7, <1>8, <1>9

----------------------------------------------------------------------------
(* The outputs of the stages.                                                *)
Value == [of : Seq(Entries), prepared : BOOLEAN]
OutputText(s, v) == v \in Value /\ Said(s, Marks(s, v), v.of)

LEMMA TextEntries == ASSUME NEW t, NEW n, NEW es \in Seq(Text(t, n)) PROVE es \in Seq(Entries)
BY TextSeq

LEMMA CollectText ==
    ASSUME NEW s, Kind[s] = "collect", NEW v \in Value
    PROVE  OutputText(s, v) <=> v.of \in Seq(Text(Once(v.prepared), 0))
<1>1. Marks(s, v) = IF v.prepared /\ v.of # <<>> THEN {"preparation"} ELSE {}
    BY DEF Marks
<1>2. OutputText(s, v) <=> v.of \in Seq(Text(Once("preparation" \in Marks(s, v)), 0))
    BY SaidIs DEF OutputText
<1>3. CASE v.of = <<>>
    <2>1. \A S : <<>> \in Seq(S)
        OBVIOUS
    <2> QED
        BY <1>2, <1>3, <2>1
<1>4. CASE v.of # <<>>
    BY <1>1, <1>2, <1>4 DEF Value, Once
<1> QED
    BY <1>3, <1>4

LEMMA LaterText ==
    ASSUME NEW s, NEW v \in Value
    PROVE  /\ Kind[s] = "items" => (OutputText(s, v) <=> v.of \in Seq(Text(1, 0)))
           /\ Kind[s] \in {"present", "compose"} => (OutputText(s, v) <=> v.of \in Seq(Text(1, 1)))
<1>1. Kind[s] = "items" => Marks(s, v) = {"normalization"}
    BY DEF Marks
<1>2. Kind[s] = "present" => Marks(s, v) = {"normalization", "presentation"}
    BY DEF Marks
<1>3. Kind[s] = "compose" => Marks(s, v) = {"composition"}
    BY DEF Marks
<1> QED
    BY <1>1, <1>2, <1>3, SaidIs DEF OutputText, Once

LEMMA OutputsText ==
    ASSUME NEW s \in Stages, NEW v \in Value, s # 1 => OutputText(s - 1, v), NEW u \in Outputs(s, v)
    PROVE  OutputText(s, u)
<1>1. CASE Kind[s] = "collect"
    <2>1. PICK f \in Finds : u = [of |-> Prepared(Map(LAMBDA id : Entry(id, 0, 0, 0), f)), prepared |-> TRUE]
        BY <1>1 DEF Outputs
    <2> DEFINE es == [i \in DOMAIN f |-> Entry(f[i], 0, 0, 0)]
    <2>2. f \in Seq(DOMAIN Size)
        BY CheckpointsAssumption
    <2>3. DOMAIN f = 1 .. Len(f) /\ Len(f) \in Nat /\ \A i \in 1 .. Len(f) : Entry(f[i], 0, 0, 0) \in Text(0, 0)
        BY <2>2 DEF Entry, Text, Entries
    <2>4. es \in Seq(Text(0, 0))
        BY <2>3
    <2>5. Map(LAMBDA id : Entry(id, 0, 0, 0), f) = es
        BY DEF Map
    <2> HIDE DEF es
    <2>6. Prepared(es) \in Seq(Text(1, 0))
        BY <2>4, PreparedText
    <2>7. u \in Value /\ u.prepared = TRUE /\ u.of = Prepared(es)
        BY <2>1, <2>5, <2>6, TextEntries DEF Value
    <2> QED
        BY <1>1, <2>6, <2>7, CollectText DEF Once
<1>2. CASE Kind[s] = "items"
    <2>1. s # 1 /\ s - 1 \in Stages /\ Kind[s] \in Follows[Kind[s - 1]]
        BY <1>2, KindFacts
    <2>2. Kind[s - 1] \in Kinds
        BY <2>1, KindFacts
    <2>3. u = [of |-> IF s # 2 THEN v.of ELSE Map(Compacted, IF v.prepared THEN v.of ELSE Prepared(v.of)),
               prepared |-> FALSE]
        BY <1>2 DEF Outputs
    <2>4. u.of \in Seq(Text(1, 0))
        <3>1. CASE s = 2
            <4> DEFINE es == IF v.prepared THEN v.of ELSE Prepared(v.of)
            <4>1. Kind[s - 1] = "collect"
                BY <2>1, <3>1, KindFacts
            <4>2. v.of \in Seq(Text(Once(v.prepared), 0))
                BY <2>1, <4>1, CollectText
            <4>3. es \in Seq(Text(1, 0))
                <5>1. CASE v.prepared
                    BY <4>2, <5>1 DEF Once
                <5>2. CASE ~v.prepared
                    <6>1. v.of \in Seq(Text(0, 0))
                        BY <4>2, <5>2 DEF Once
                    <6>2. Prepared(v.of) \in Seq(Text(0 + 1, 0))
                        BY <6>1, PreparedText
                    <6> QED
                        BY <5>2, <6>2
                <5> QED
                    BY <5>1, <5>2
            <4> HIDE DEF es
            <4>4. Map(Compacted, es) \in Seq(Text(1, 0))
                BY <4>3, MappedText
            <4> QED
                BY <2>3, <3>1, <4>4 DEF es
        <3>2. CASE s # 2
            <4>1. s - 1 # 1
                BY <2>1, <3>2, KindFacts
            <4>2. Kind[s - 1] # "collect"
                BY <2>1, <4>1, KindFacts
            <4>3. Kind[s - 1] = "items"
                BY <1>2, <2>1, <2>2, <4>2 DEF Kinds, Follows
            <4>4. v.of \in Seq(Text(1, 0))
                BY <2>1, <4>3, LaterText
            <4> QED
                BY <2>3, <3>2, <4>4
        <3> QED
            BY <3>1, <3>2
    <2>5. u \in Value
        BY <2>3, <2>4, TextEntries DEF Value
    <2> QED
        BY <1>2, <2>4, <2>5, LaterText
<1>3. CASE Kind[s] \in {"present", "compose"}
    <2>1. s # 1 /\ s - 1 \in Stages /\ Kind[s] \in Follows[Kind[s - 1]]
        BY <1>3, KindFacts
    <2>2. Kind[s - 1] \in Kinds
        BY <2>1, KindFacts
    <2>3. u = [of |-> IF Kind[s] = "present" THEN PresentedCurrent(v.of) ELSE v.of, prepared |-> FALSE]
        BY <1>3 DEF Outputs
    <2>4. \/ v.of \in Seq(Text(1, 0)) /\ Kind[s] = "present"
          \/ v.of \in Seq(Text(1, 1))
        <3>1. CASE Kind[s - 1] = "items"
            BY <1>3, <2>1, <3>1, LaterText DEF Follows
        <3>2. CASE Kind[s - 1] \in {"present", "compose"}
            BY <2>1, <3>2, LaterText
        <3>3. Kind[s - 1] # "collect"
            BY <1>3, <2>1 DEF Follows
        <3> QED
            BY <2>2, <3>1, <3>2, <3>3 DEF Kinds
    <2>5. u.of \in Seq(Text(1, 1))
        <3>1. v.of \in Seq(Text(1, 0)) => PresentedCurrent(v.of) \in Seq(Text(1, 1))
            BY MappedText
        <3>2. v.of \in Seq(Text(1, 1)) => PresentedCurrent(v.of) \in Seq(Text(1, 1))
            BY MappedText
        <3> QED
            BY <2>3, <2>4, <3>1, <3>2
    <2>6. u \in Value
        BY <2>3, <2>5, TextEntries DEF Value
    <2> QED
        BY <1>3, <2>5, <2>6, LaterText
<1>4. Kind[s] \in Kinds
    BY KindFacts
<1> QED
    BY <1>1, <1>2, <1>3, <1>4 DEF Kinds

\* What is restored has the text of the stage, and the ids of the artifact.
LEMMA RestoredText ==
    ASSUME NEW s \in Stages, NEW a, Said(s, a.marks, a.of)
    PROVE  /\ OutputText(s, Restored(s, a))
           /\ Outdated(s, a) => Said(s, a.marks \cup Marks(s, Restored(s, a)), Restored(s, a).of)
           /\ Ids(Restored(s, a).of) \in {Ids(a.of), Ids(Valid(a.of))}
<1> DEFINE u == Restored(s, a)
           m == a.marks
           norm == Once("normalization" \in m)
           pres == Once("presentation" \in m)
           comp == Once("composition" \in m)
           items == IF "normalization" \in m THEN a.of ELSE Normalized(a.of)
<1>0. norm \in Nat /\ pres \in Nat /\ comp \in Nat
    BY DEF Once
<1>1. CASE Kind[s] = "collect"
    <2>1. u.of = a.of /\ u.prepared = ("preparation" \in m)
        BY <1>1 DEF Restored
    <2>2. u.of \in Seq(Text(Once(u.prepared), 0))
        BY <1>1, <2>1, SaidIs
    <2>3. u \in Value
        <3>1. u = [of |-> u.of, prepared |-> u.prepared] /\ u.prepared \in BOOLEAN
            BY <2>1 DEF Restored
        <3> HIDE DEF u
        <3> QED
            BY <2>2, <3>1, TextEntries DEF Value
    <2>4. ~Outdated(s, a)
        BY <1>1 DEF Outdated
    <2> HIDE DEF u
    <2>5. OutputText(s, u)
        BY <1>1, <2>2, <2>3, CollectText
    <2> QED
        BY <2>1, <2>4, <2>5 DEF u
<1>2. ASSUME Kind[s] \in {"items", "present"}, NEW n \in Nat, a.of \in Seq(Text(norm, n))
      PROVE  items \in Seq(Text(1, n)) /\ Ids(items) \in {Ids(a.of), Ids(Valid(a.of))}
    <2>1. CASE "normalization" \in m
        BY <1>2, <2>1 DEF Once
    <2>2. CASE "normalization" \notin m
        <3>1. a.of \in Seq(Text(0, n))
            BY <1>2, <2>2 DEF Once
        <3>2. Normalized(a.of) \in Seq(Text(0 + 1, n)) /\ Ids(Normalized(a.of)) = Ids(Valid(a.of))
            BY <3>1, PreparedText
        <3> QED
            BY <2>2, <3>2
    <2> QED
        BY <2>1, <2>2
<1>3. CASE Kind[s] = "items"
    <2>1. u.of = items /\ u = [of |-> u.of, prepared |-> FALSE]
        BY <1>3 DEF Restored
    <2>2. a.of \in Seq(Text(norm, 0))
        BY <1>3, SaidIs
    <2>3. items \in Seq(Text(1, 0)) /\ Ids(items) \in {Ids(a.of), Ids(Valid(a.of))}
        BY <1>2, <1>3, <2>2
    <2>4. ~Outdated(s, a)
        BY <1>3 DEF Outdated
    <2> HIDE DEF u, items
    <2>5. u \in Value
        <3>1. u.of \in Seq(Entries)
            BY <2>1, <2>3, TextEntries
        <3>2. [of |-> u.of, prepared |-> FALSE] \in Value
            BY <3>1 DEF Value
        <3> QED
            BY <2>1, <3>2
    <2>6. OutputText(s, u)
        BY <1>3, <2>1, <2>3, <2>5, LaterText
    <2> QED
        BY <2>1, <2>3, <2>4, <2>6 DEF u
<1>4. CASE Kind[s] = "present"
    <2>1. /\ u.of = IF "presentation" \in m THEN items ELSE PresentedLegacy(items)
          /\ u = [of |-> u.of, prepared |-> FALSE]
        BY <1>4 DEF Restored
    <2>2. a.of \in Seq(Text(norm, pres))
        BY <1>4, SaidIs
    <2>3. items \in Seq(Text(1, pres)) /\ Ids(items) \in {Ids(a.of), Ids(Valid(a.of))}
        BY <1>0, <1>2, <1>4, <2>2
    <2> HIDE DEF u, items
    <2>4. u.of \in Seq(Text(1, 1)) /\ Ids(u.of) = Ids(items)
        <3>1. CASE "presentation" \in m
            BY <2>1, <2>3, <3>1 DEF Once
        <3>2. CASE "presentation" \notin m
            <4>1. items \in Seq(Text(1, 0))
                BY <2>3, <3>2 DEF Once
            <4>2. PresentedLegacy(items) \in Seq(Text(1, 0 + 1)) /\ Ids(PresentedLegacy(items)) = Ids(items)
                BY <4>1, MappedText
            <4> QED
                BY <2>1, <3>2, <4>2
        <3> QED
            BY <3>1, <3>2
    <2>5. u \in Value
        <3>1. u.of \in Seq(Entries)
            BY <2>4, TextEntries
        <3>2. [of |-> u.of, prepared |-> FALSE] \in Value
            BY <3>1 DEF Value
        <3> QED
            BY <2>1, <3>2
    <2>6. OutputText(s, u)
        BY <1>4, <2>4, <2>5, LaterText
    <2>7. Said(s, m \cup Marks(s, u), u.of)
        <3>1. {"normalization", "presentation"} \subseteq m \cup Marks(s, u)
            BY <1>4 DEF Marks
        <3> QED
            BY <1>4, <2>4, <3>1, SaidIs DEF Once
    <2> QED
        BY <2>3, <2>4, <2>6, <2>7 DEF u
<1>5. CASE Kind[s] = "compose"
    <2>1. /\ u.of = IF "composition" \in m THEN a.of ELSE ComposedLegacy(a.of)
          /\ u = [of |-> u.of, prepared |-> FALSE]
        BY <1>5 DEF Restored
    <2>2. a.of \in Seq(Text(comp, comp))
        BY <1>5, SaidIs
    <2> HIDE DEF u
    <2>3. u.of \in Seq(Text(1, 1)) /\ Ids(u.of) = Ids(a.of)
        <3>1. CASE "composition" \in m
            BY <2>1, <2>2, <3>1 DEF Once
        <3>2. CASE "composition" \notin m
            <4>1. a.of \in Seq(Text(0, 0))
                BY <2>2, <3>2 DEF Once
            <4>2. ComposedLegacy(a.of) \in Seq(Text(0 + 1, 0 + 1)) /\ Ids(ComposedLegacy(a.of)) = Ids(a.of)
                BY <4>1, MappedText
            <4> QED
                BY <2>1, <3>2, <4>2
        <3> QED
            BY <3>1, <3>2
    <2>4. u \in Value
        <3>1. u.of \in Seq(Entries)
            BY <2>3, TextEntries
        <3>2. [of |-> u.of, prepared |-> FALSE] \in Value
            BY <3>1 DEF Value
        <3> QED
            BY <2>1, <3>2
    <2>5. OutputText(s, u)
        BY <1>5, <2>3, <2>4, LaterText
    <2>6. Said(s, m \cup Marks(s, u), u.of)
        <3>1. "composition" \in m \cup Marks(s, u)
            BY <1>5 DEF Marks
        <3> QED
            BY <1>5, <2>3, <3>1, SaidIs DEF Once
    <2> QED
        BY <2>3, <2>5, <2>6 DEF u
<1> QED
    BY <1>1, <1>3, <1>4, <1>5, KindFacts DEF Kinds

----------------------------------------------------------------------------
(* What is read of a stage is what its newest save has saved.                *)

\* The rows left of a save, and the markers they were saved with.
Left(g, n, s, es, m) == g \subseteq ChunkRows(s, n, es, m) \/ g \subseteq WholeRow(s, n, es, m)
RowsSaved ==
    \A r \in rows : \E m \in SUBSET Markers :
        Said(r.stage, m, saves[r.save].of) /\ Left(Of(r.save), r.save, r.stage, saves[r.save].of, m)

LEMMA Greatest ==
    ASSUME NEW b \in Nat, NEW S, S \subseteq 1 .. b, S # {}
    PROVE  \E m \in S : \A k \in S : k <= m
<1> DEFINE R == {b - k : k \in S}
<1>0. \A k \in S : b - k \in Nat /\ k \in Nat
    OBVIOUS
<1>1. R \subseteq Nat /\ R # {}
    BY <1>0
<1>2. PICK j \in R : \A k \in R : j <= k
    <2> HIDE DEF R
    <2> QED
        BY <1>1, Least
<1>3. PICK m \in S : j = b - m
    BY <1>2
<1>4. ASSUME NEW k \in S PROVE k <= m
    <2>1. b - k \in R
        OBVIOUS
    <2> QED
        BY <1>2, <1>3, <2>1
<1> QED
    BY <1>4

\* The i-th row of a group has as many before it as its number says, and a
\* numbered group is read in the order of the numbers.
Front(row, i) == {row[j] : j \in 1 .. i}
LEMMA FrontCount ==
    ASSUME NEW L \in Nat, NEW row, \A i \in 1 .. L : row[i].index = i, NEW i \in 0 .. L
    PROVE  Cardinality(Front(row, i)) = i
<1> DEFINE S == 1 .. i
           g == Front(row, i)
           f == [j \in S |-> row[j]]
<1>1. IsFiniteSet(S) /\ Cardinality(S) = i
    BY FS_Interval
<1>2. f \in Bijection(S, g)
    <2>1. \A j, k \in S : f[j] = f[k] => j = k
        <3>1. \A j \in S : j \in 1 .. L
            OBVIOUS
        <3> QED
            BY <3>1
    <2>2. f \in [S -> g] /\ \A x \in g : \E j \in S : f[j] = x
        BY DEF Front
    <2> HIDE DEF f, g, S
    <2> QED
        BY <2>1, <2>2 DEF Bijection, Injection, Surjection, IsInjective
<1>3. Cardinality(g) = Cardinality(S)
    <2>1. ExistsBijection(S, g)
        BY <1>2 DEF ExistsBijection
    <2> HIDE DEF S, g
    <2> QED
        BY <1>1, <2>1, FS_Bijection
<1> QED
    BY <1>1, <1>3

LEMMA NthIs ==
    ASSUME NEW L \in Nat, NEW row, \A i \in 1 .. L : row[i].index = i, NEW i \in 1 .. L
    PROVE  Nth(Front(row, L), i) = row[i]
<1> DEFINE g == Front(row, L)
           before(r) == {q \in g : q.index < r.index}
<1>1. ASSUME NEW k \in 1 .. L PROVE Cardinality(before(row[k])) = k - 1
    <2>1. before(row[k]) = Front(row, k - 1)
        <3>1. row[k].index = k
            OBVIOUS
        <3>2. \A j \in 1 .. L : row[j].index < k <=> j \in 1 .. k - 1
            OBVIOUS
        <3>3. \A j \in 1 .. k - 1 : j \in 1 .. L
            OBVIOUS
        <3> QED
            BY <3>1, <3>2, <3>3 DEF Front
    <2>2. k - 1 \in 0 .. L
        OBVIOUS
    <2> HIDE DEF before
    <2> QED
        BY <2>1, <2>2, FrontCount
<1> HIDE DEF before
<1> DEFINE P(r) == Cardinality(before(r)) = i - 1
<1>2. row[i] \in g /\ P(row[i])
    BY <1>1 DEF Front
<1>3. ASSUME NEW r \in g, P(r) PROVE r = row[i]
    <2>1. PICK k \in 1 .. L : r = row[k]
        BY DEF Front
    <2>2. k - 1 = i - 1
        BY <1>1, <1>3, <2>1
    <2> QED
        BY <2>1, <2>2
<1>4. Nth(g, i) = CHOOSE r \in g : P(r)
    BY DEF Nth, before
<1> HIDE DEF P, g
<1>5. (CHOOSE r \in g : P(r)) \in g /\ P(CHOOSE r \in g : P(r))
    BY <1>2, Zenon
<1>6. Nth(g, i) = row[i]
    BY <1>3, <1>4, <1>5
<1> QED
    BY <1>6 DEF g

LEMMA NewestIs ==
    ASSUME SavesInv, NEW s, Saved(s)
    PROVE  \E r \in rows : r.stage = s /\ r.save = Newest(s) /\ Group(s) = Of(r.save)
<1> DEFINE S == {r.save : r \in Rows(s)}
           P(n) == \A r \in Rows(s) : r.save <= n
<1>1. S \subseteq 1 .. Len(saves) /\ S # {} /\ Len(saves) \in Nat
    BY DEF SavesInv, Saved, Rows
<1>2. PICK m \in S : \A k \in S : k <= m
    <2> HIDE DEF S
    <2> QED
        BY <1>1, Greatest
<1>3. P(m)
    BY <1>2
<1>4. Newest(s) = CHOOSE n \in S : P(n)
    BY DEF Newest
<1>5. Newest(s) \in S
    <2> HIDE DEF S, P
    <2> QED
        BY <1>2, <1>3, <1>4, Zenon
<1>6. PICK r \in Rows(s) : r.save = Newest(s)
    BY <1>5
<1>7. Group(s) = Of(r.save)
    BY <1>6 DEF Group, Rows, Of, SavesInv
<1> QED
    BY <1>6, <1>7 DEF Rows

InOrder(g) == [i \in 1 .. Cardinality(g) |-> Nth(g, i).of]
LEMMA ArtifactIs ==
    ASSUME SavesInv, RowsSaved, NEW s \in Stages, Saved(s), Whole(s)
    PROVE  /\ Artifact(s).of = saves[Newest(s)].of /\ Artifact(s).marks \in SUBSET Markers
           /\ Said(s, Artifact(s).marks, saves[Newest(s)].of)
<1> DEFINE n == Newest(s)
           es == saves[n].of
           g == Group(s)
<1>1. PICK r \in rows : r.stage = s /\ r.save = n /\ g = Of(n)
    BY NewestIs
<1>2. PICK m \in SUBSET Markers : Said(s, m, es) /\ Left(Of(n), n, s, es, m)
    BY <1>1 DEF RowsSaved
<1>3. r \in g /\ Counted(g)
    BY <1>1 DEF Of, Whole
<1>4. es \in Seq(Entries)
    <2>1. es \in Seq({e \in Entries : Marked(s, m, e)})
        BY <1>2 DEF Said
    <2> QED
        BY <2>1
<1>5. Artifact(s) = [of |-> Concat(InOrder(g)), marks |-> Nth(g, 1).marks]
    BY DEF Artifact, InOrder
<1> HIDE DEF n, es, g
<1>6. CASE g \subseteq WholeRow(s, n, es, m)
    <2> DEFINE row == [i \in 1 .. 1 |-> r]
               one == [r EXCEPT !.index = 1]
    <2>1. r.of = es /\ r.marks = m /\ r.index = 0 /\ g = {r}
        BY <1>3, <1>6 DEF WholeRow
    <2>2. Cardinality(g) = 1
        BY <2>1, FS_Singleton
    <2>3. Nth(g, 1) = r
        <3>1. {q \in g : q.index < r.index} = {}
            BY <2>1
        <3>2. Cardinality({q \in g : q.index < r.index}) = 1 - 1
            BY <3>1, FS_EmptySet
        <3>3. \E x \in g : Cardinality({q \in g : q.index < x.index}) = 1 - 1
            BY <1>3, <3>2
        <3>4. Nth(g, 1) \in g
            BY <3>3, Zenon DEF Nth
        <3> QED
            BY <2>1, <3>4
    <2>4. InOrder(g) = <<es>>
        BY <2>1, <2>2, <2>3 DEF InOrder
    <2>5. Concat(<<es>>) = es
        BY <1>4, ConcatOne
    <2>6. Artifact(s).of = es /\ Artifact(s).marks = m
        BY <1>5, <2>1, <2>3, <2>4, <2>5
    <2> QED
        BY <1>2, <2>6 DEF es, n
<1>7. CASE g \subseteq ChunkRows(s, n, es, m)
    <2> DEFINE c == Chunks(s, es)
               L == Len(c)
               row == [i \in 1 .. L |-> [stage |-> s, save |-> n, index |-> i, count |-> L,
                                         of |-> c[i], marks |-> m]]
    <2>1. c \in Seq(Seq(Entries)) /\ L >= 1 /\ Concat(c) = es
        BY <1>4, ChunksJoin
    <2>2. ChunkRows(s, n, es, m) = Front(row, L)
        BY DEF ChunkRows, Front
    <2> HIDE DEF c
    <2>3. L \in Nat /\ c = [i \in 1 .. L |-> c[i]]
        BY <2>1
    <2>4. \A i \in 1 .. L : row[i].index = i /\ row[i].count = L /\ row[i].of = c[i] /\ row[i].marks = m
        OBVIOUS
    <2> HIDE DEF row, L
    <2>5. g = Front(row, L)
        <3>1. PICK k \in 1 .. L : r = row[k]
            BY <1>3, <1>7, <2>2 DEF Front
        <3>2. r.index # 0 /\ r.count = L
            BY <2>3, <2>4, <3>1
        <3>3. {o.index : o \in g} = 1 .. L
            BY <1>3, <3>2 DEF Counted
        <3>4. ASSUME NEW i \in 1 .. L PROVE row[i] \in g
            <4>1. PICK o \in g : o.index = i
                BY <3>3
            <4>2. PICK j \in 1 .. L : o = row[j]
                BY <1>7, <2>2 DEF Front
            <4> QED
                BY <2>4, <4>1, <4>2
        <3> QED
            BY <1>7, <2>2, <3>4 DEF Front
    <2>6. \A i \in 1 .. L : Nth(g, i) = row[i]
        BY <2>3, <2>4, <2>5, NthIs
    <2>7. Cardinality(g) = L
        <3>1. L \in 0 .. L
            BY <2>3
        <3> QED
            BY <2>3, <2>4, <2>5, <3>1, FrontCount
    <2>8. InOrder(g) = c
        BY <2>3, <2>4, <2>6, <2>7 DEF InOrder
    <2>9. Nth(g, 1).marks = m
        BY <2>1, <2>3, <2>4, <2>6 DEF L
    <2>10. Artifact(s).of = es /\ Artifact(s).marks = m
        BY <1>5, <2>1, <2>8, <2>9
    <2> QED
        BY <1>2, <2>10 DEF es, n
<1> QED
    BY <1>1, <1>2, <1>6, <1>7 DEF Left

----------------------------------------------------------------------------
(* The invariant: what an attempt was given, has got and is to save, and     *)
(* what the rows hold, has the text of its stage.                            *)
Attempts == [at : {"gone", "check", "read", "work", "save", "return"}, stage : Stages,
             input : Value, got : Value, marks : SUBSET Markers]
Fine == {a \in Attempts :
            /\ a.stage # 1 => OutputText(a.stage - 1, a.input)
            /\ a.at \in {"save", "return"} => OutputText(a.stage, a.got)
            /\ a.at = "save" => Said(a.stage, a.marks, a.got.of)}
TextInv == att \in [{"main", "late"} -> Fine]

LEMMA StageOne == 1 \in Stages
<1>1. Kind \in Seq({"collect", "items", "present", "compose"}) /\ Kind # <<>>
    BY CheckpointsAssumption
<1> QED
    BY <1>1 DEF Stages

LEMMA NothingFine == Nothing \in Value /\ Gone \in Fine
<1>1. Nothing \in Value
    BY DEF Nothing, Value
<1> QED
    BY <1>1, StageOne DEF Gone, Fine, Attempts

LEMMA StartIs ==
    \A s, v : Start(s, v) = [at |-> "check", stage |-> s, input |-> v, got |-> Nothing, marks |-> {}]
<1> TAKE s, v
<1> DEFINE x == [Gone EXCEPT !.at = "check"]
           y == [x EXCEPT !.stage = s]
           z == [y EXCEPT !.input = v]
<1>1. x = [at |-> "check", stage |-> 1, input |-> Nothing, got |-> Nothing, marks |-> {}]
    BY DEF Gone
<1> HIDE DEF x
<1>2. y = [at |-> "check", stage |-> s, input |-> Nothing, got |-> Nothing, marks |-> {}]
    BY <1>1
<1> HIDE DEF y
<1>3. z = [at |-> "check", stage |-> s, input |-> v, got |-> Nothing, marks |-> {}]
    BY <1>2
<1>4. Start(s, v) = [[[Gone EXCEPT !.at = "check"] EXCEPT !.stage = s] EXCEPT !.input = v]
    BY Zenon DEF Start
<1> QED
    BY <1>3, <1>4 DEF x, y

LEMMA StartFine ==
    ASSUME NEW s \in Stages, NEW v \in Value, s # 1 => OutputText(s - 1, v)
    PROVE  Start(s, v) \in Fine
<1>1. Start(s, v) = [at |-> "check", stage |-> s, input |-> v, got |-> Nothing, marks |-> {}]
    BY StartIs
<1>2. Nothing \in Value
    BY NothingFine
<1> QED
    BY <1>1, <1>2 DEF Fine, Attempts

LEMMA FineIs ==
    ASSUME NEW a \in Fine
    PROVE  /\ a = [at |-> a.at, stage |-> a.stage, input |-> a.input, got |-> a.got, marks |-> a.marks]
           /\ a.stage \in Stages /\ a.input \in Value /\ a.got \in Value /\ a.marks \in SUBSET Markers
           /\ a.stage # 1 => OutputText(a.stage - 1, a.input)
           /\ a.at \in {"save", "return"} => OutputText(a.stage, a.got)
           /\ a.at = "save" => Said(a.stage, a.marks, a.got.of)
BY DEF Fine, Attempts

Placed(a, l, u, m) == [at |-> l, stage |-> a.stage, input |-> a.input, got |-> u, marks |-> m]
Now(a, l, u, m) == [a EXCEPT !.at = l, !.got = u, !.marks = m]
Moved(a, l) == [a EXCEPT !.at = l]
LEMMA FineNow ==
    ASSUME NEW a \in Fine, NEW l, NEW u \in Value, NEW m \in SUBSET Markers,
           l \in {"check", "read", "work", "save", "return"},
           l \in {"save", "return"} => OutputText(a.stage, u),
           l = "save" => Said(a.stage, m, u.of)
    PROVE  /\ Placed(a, l, u, m) \in Fine
           /\ Now(a, l, u, m) = Placed(a, l, u, m)
           /\ Moved(a, l) = Placed(a, l, a.got, a.marks)
<1>1. [at |-> l, stage |-> a.stage, input |-> a.input, got |-> u, marks |-> m] \in Fine
    BY FineIs DEF Fine, Attempts
<1>2. [a EXCEPT !.at = l]
                = [at |-> l, stage |-> a.stage, input |-> a.input, got |-> a.got, marks |-> a.marks]
    BY FineIs
<1>3. [a EXCEPT !.at = l, !.got = u, !.marks = m]
                = [at |-> l, stage |-> a.stage, input |-> a.input, got |-> u, marks |-> m]
    <2> DEFINE x == [a EXCEPT !.at = l]
               y == [x EXCEPT !.got = u]
               z == [y EXCEPT !.marks = m]
    <2>1. x = [at |-> l, stage |-> a.stage, input |-> a.input, got |-> a.got, marks |-> a.marks]
        BY <1>2
    <2> HIDE DEF x
    <2>2. y = [at |-> l, stage |-> a.stage, input |-> a.input, got |-> u, marks |-> a.marks]
        BY <2>1
    <2> HIDE DEF y
    <2>3. z = [at |-> l, stage |-> a.stage, input |-> a.input, got |-> u, marks |-> m]
        BY <2>2
    <2>4. [a EXCEPT !.at = l, !.got = u, !.marks = m]
              = [[[a EXCEPT !.at = l] EXCEPT !.got = u] EXCEPT !.marks = m]
        BY Zenon
    <2> QED
        BY <2>3, <2>4 DEF x, y
<1> QED
    BY <1>1, <1>2, <1>3 DEF Placed, Now, Moved

LEMMA MarksFacts == \A s \in Stages : \A v : Marks(s, v) \subseteq Markers
BY KindFacts DEF Marks, Markers, Kinds

LEMMA TextInit == CheckpointsInit => TextInv
<1>1. Start(1, Nothing) \in Fine /\ Gone \in Fine
    BY NothingFine, StageOne, StartFine
<1> QED
    BY <1>1 DEF CheckpointsInit, TextInv

LEMMA SavedInit == CheckpointsInit => RowsSaved
<1> SUFFICES ASSUME CheckpointsInit PROVE RowsSaved
    OBVIOUS
<1>1. PICK o \in Older : /\ rows = OlderRows(o)
                         /\ saves = [s \in DOMAIN o |-> [stage |-> s, of |-> o[s].of]]
    BY DEF CheckpointsInit
<1>2. PICK n \in 0 .. Len(Kind) :
          /\ DOMAIN o = 1 .. n
          /\ \A s \in 1 .. n : /\ o[s].of \in Seq(Entries) /\ o[s].marks \subseteq Markers
                               /\ \A i \in DOMAIN o[s].of : Marked(s, o[s].marks, o[s].of[i])
    BY CheckpointsAssumption
<1> DEFINE part(s) == IF o[s].form = "whole" THEN WholeRow(s, s, o[s].of, o[s].marks)
                                            ELSE ChunkRows(s, s, o[s].of, o[s].marks)
<1>4. rows = UNION {part(s) : s \in DOMAIN o}
    BY <1>1 DEF OlderRows
<1>5. \A s : \A r \in part(s) : r.save = s /\ r.stage = s
    BY BatchIsWhole
<1> HIDE DEF part
<1>6. ASSUME NEW r \in rows
      PROVE  \E m \in SUBSET Markers :
                 Said(r.stage, m, saves[r.save].of) /\ Left(Of(r.save), r.save, r.stage, saves[r.save].of, m)
    <2>1. PICK s \in 1 .. n : r \in part(s)
        BY <1>2, <1>4
    <2>2. r.save = s /\ r.stage = s /\ saves[s].of = o[s].of
        BY <1>1, <1>2, <1>5, <2>1
    <2>3. Of(s) \subseteq part(s)
        BY <1>4, <1>5 DEF Of
    <2>4. Left(Of(s), s, s, o[s].of, o[s].marks)
        BY <2>3 DEF Left, part
    <2>5. Said(s, o[s].marks, o[s].of)
        <3> DEFINE es == o[s].of
                   T == {e \in Entries : Marked(s, o[s].marks, e)}
        <3>1. es \in Seq(Entries) /\ \A i \in 1 .. Len(es) : Marked(s, o[s].marks, es[i])
            BY <1>2
        <3>2. \A i \in 1 .. Len(es) : es[i] \in T
            BY <3>1
        <3> HIDE DEF es, T
        <3>3. es \in Seq(T)
            BY <3>1, <3>2
        <3> QED
            BY <3>3 DEF Said, es, T
    <2> QED
        BY <1>2, <2>2, <2>4, <2>5
<1> QED
    BY <1>6 DEF RowsSaved

LEMMA SaveKeepsRows ==
    ASSUME SavesInv, RowsSaved, NEW s, NEW es, NEW m \in SUBSET Markers, Said(s, m, es),
           rows' = rows \cup ChunkRows(s, Len(saves) + 1, es, m),
           saves' = Append(saves, [stage |-> s, of |-> es])
    PROVE  RowsSaved'
<1>0. PICK n : n = Len(saves) + 1
    OBVIOUS
<1> DEFINE new == ChunkRows(s, n, es, m)
<1>1. /\ Len(saves) \in Nat /\ n \in Nat /\ n > Len(saves)
      /\ saves'[n].of = es /\ \A i \in 1 .. Len(saves) : saves'[i] = saves[i]
    <2> DEFINE S == {saves[i] : i \in 1 .. Len(saves)}
               a == [stage |-> s, of |-> es]
    <2>1. saves \in Seq(S) /\ Len(saves) \in Nat
        BY DEF SavesInv
    <2>2. saves \in Seq(S \cup {a}) /\ a \in S \cup {a}
        BY <2>1
    <2>3. a.of = es
        OBVIOUS
    <2> HIDE DEF S, a
    <2>4. Append(saves, a)[n] = a /\ \A i \in 1 .. Len(saves) : Append(saves, a)[i] = saves[i]
        BY <1>0, <2>1, <2>2
    <2> QED
        BY <1>0, <2>1, <2>3, <2>4 DEF a
<1>2. \A r \in new : r.save = n /\ r.stage = s
    BY BatchIsWhole
<1> HIDE DEF new
<1>3. rows' = rows \cup new
    BY <1>0 DEF new
<1>4. \A r \in rows : r.save \in 1 .. Len(saves) /\ r.save # n /\ Of(r.save)' = Of(r.save)
    BY <1>1, <1>2, <1>3 DEF SavesInv, Of
<1>5. Of(n)' = new
    BY <1>1, <1>2, <1>3, <1>4 DEF Of
<1>6. ASSUME NEW r \in rows'
      PROVE  \E k \in SUBSET Markers :
                 Said(r.stage, k, saves'[r.save].of) /\ Left(Of(r.save)', r.save, r.stage, saves'[r.save].of, k)
    <2>1. CASE r \in rows
        <3>1. saves'[r.save] = saves[r.save] /\ Of(r.save)' = Of(r.save)
            BY <1>1, <1>4, <2>1
        <3> QED
            BY <2>1, <3>1 DEF RowsSaved
    <2>2. CASE r \in new
        <3>1. Left(new, n, s, es, m)
            BY <1>5, <2>2 DEF Left, new
        <3> QED
            BY <1>1, <1>2, <1>5, <2>2, <3>1
    <2> QED
        BY <1>3, <2>1, <2>2
<1> QED
    BY <1>6 DEF RowsSaved

LEMMA FewerRows ==
    ASSUME RowsSaved, rows' \subseteq rows, UNCHANGED saves
    PROVE  RowsSaved'
<1>1. \A n : Of(n)' \subseteq Of(n)
    BY DEF Of
<1>2. ASSUME NEW n, NEW s, NEW es, NEW m, Left(Of(n), n, s, es, m) PROVE Left(Of(n)', n, s, es, m)
    BY <1>1, <1>2 DEF Left
<1> QED
    BY <1>2 DEF RowsSaved

LEMMA OneAttempt ==
    ASSUME TextInv, NEW w \in {"main", "late"}, NEW a \in Fine, att' = [att EXCEPT ![w] = a]
    PROVE  TextInv'
BY DEF TextInv

LEMMA FailsText ==
    ASSUME TextInv, NEW w \in {"main", "late"}, Fails(w)
    PROVE  TextInv' /\ att'[w].at \notin {"save", "return"}
<1>1. att[w] \in Fine /\ Gone \in Fine /\ Gone.at = "gone"
    BY NothingFine DEF TextInv, Gone
<1> DEFINE a == Start(att[w].stage, att[w].input)
<1>2. a \in Fine
    BY <1>1, FineIs, StartFine
<1>3. att' = [att EXCEPT ![w] = Gone] \/ att' = [att EXCEPT ![w] = a]
    BY DEF Fails
<1>4. a.at = "check"
    BY StartIs
<1> HIDE DEF a
<1>5. TextInv'
    BY <1>1, <1>2, <1>3, OneAttempt
<1>6. att'[w] = Gone \/ att'[w] = a
    BY <1>3 DEF TextInv
<1> QED
    BY <1>1, <1>4, <1>5, <1>6

\* To a place that is neither save nor return, or that was allowed before.
LEMMA ToText ==
    ASSUME TextInv, NEW w \in {"main", "late"}, NEW l \in {"read", "work", "return"}, To(w, l),
           l = "return" => att[w].at = "save"
    PROVE  TextInv'
<1> DEFINE b == att[w]
           a == Placed(b, l, b.got, b.marks)
<1>1. b \in Fine
    BY DEF TextInv
<1> HIDE DEF b
<1>2. a \in Fine /\ Moved(b, l) = a
    BY <1>1, FineIs, FineNow DEF b
<1> HIDE DEF a
<1>3. att' = [att EXCEPT ![w] = a]
    BY <1>2 DEF To, Moved, b
<1> QED
    BY <1>2, <1>3, OneAttempt

\* What is read is the artifact, and it is restored to the text of the stage.
LEMMA ReadText ==
    ASSUME SavesInv, RowsSaved, TextInv, NEW w \in {"main", "late"}, Read(w)
    PROVE  /\ TextInv'
           /\ att'[w].at \in {"save", "return"} =>
                Ids(att'[w].got.of) \in {Ids(saves[Newest(att[w].stage)].of),
                                         Ids(Valid(saves[Newest(att[w].stage)].of))}
<1> DEFINE b == att[w]
           s == att[w].stage
           art == Artifact(s)
           u == Restored(s, art)
           l == IF Outdated(s, art) THEN "save" ELSE "return"
           m == art.marks \cup Marks(s, u)
           a == Placed(b, l, u, m)
<1>1. b \in Fine /\ s \in Stages
    BY FineIs DEF TextInv
<1>2. CASE Saved(s) /\ Whole(s) /\ ~Unrestorable(s, Artifact(s))
    <2>1. /\ art.of = saves[Newest(s)].of /\ art.marks \in SUBSET Markers
          /\ Said(s, art.marks, art.of)
        BY <1>1, <1>2, ArtifactIs
    <2>2. att' = [att EXCEPT ![w].at = l, ![w].got = u, ![w].marks = m]
        BY <1>2 DEF Read
    <2> HIDE DEF art
    <2>3. /\ OutputText(s, u) /\ (Outdated(s, art) => Said(s, art.marks \cup Marks(s, u), u.of))
          /\ Ids(u.of) \in {Ids(art.of), Ids(Valid(art.of))}
        BY <1>1, <2>1, RestoredText
    <2> HIDE DEF u
    <2>4. u \in Value /\ m \in SUBSET Markers /\ l \in {"save", "return"}
        BY <1>1, <2>1, <2>3, MarksFacts DEF OutputText
    <2>5. l = "save" => Said(s, m, u.of)
        BY <2>3
    <2> HIDE DEF l, m
    <2>6. a \in Fine /\ Now(b, l, u, m) = a
        <3> HIDE DEF b
        <3>1. s = b.stage
            BY DEF b
        <3> HIDE DEF s
        <3>2. b \in Fine /\ OutputText(b.stage, u) /\ (l = "save" => Said(b.stage, m, u.of))
            BY <1>1, <2>3, <2>5, <3>1
        <3>3. l \in {"check", "read", "work", "save", "return"}
            BY <2>4
        <3> HIDE DEF a
        <3>4. Placed(b, l, u, m) \in Fine /\ Now(b, l, u, m) = Placed(b, l, u, m)
            BY <2>4, <3>2, <3>3, FineNow, Zenon
        <3> QED
            BY <3>4 DEF a
    <2>7. att' = [att EXCEPT ![w] = Now(att[w], l, u, m)]
        BY <2>2 DEF TextInv, Now
    <2>8. a.got = u
        BY DEF Placed
    <2> HIDE DEF a
    <2>9. att' = [att EXCEPT ![w] = a]
        BY <2>6, <2>7 DEF b
    <2>10. TextInv' /\ att'[w] = a
        BY <2>6, <2>9, OneAttempt DEF TextInv
    <2> QED
        BY <2>1, <2>3, <2>8, <2>10
<1>3. CASE ~(Saved(s) /\ Whole(s) /\ ~Unrestorable(s, Artifact(s)))
    <2>1. Fails(w)
        BY <1>3, Zenon DEF Read
    <2> QED
        BY <2>1, FailsText
<1> QED
    BY <1>2, <1>3

LEMMA AttemptText ==
    ASSUME SavesInv, RowsSaved, TextInv, NEW w \in {"main", "late"}, Attempt(w)
    PROVE  TextInv' /\ RowsSaved'
<1> DEFINE b == att[w]
<1>1. b \in Fine
    BY DEF TextInv
<1>2. CASE Check(w)
    <2>1. UNCHANGED <<rows, saves>>
        BY <1>2 DEF Check, store
    <2>2. To(w, "work") \/ To(w, "read") \/ Fails(w)
        BY <1>2, Zenon DEF Check
    <2> QED
        BY <2>1, <2>2, ToText, FailsText, FewerRows
<1>3. CASE Read(w)
    <2>1. UNCHANGED <<rows, saves>>
        BY <1>3 DEF Read, store
    <2> QED
        BY <1>3, <2>1, ReadText, FewerRows
<1>4. CASE Work(w)
    <2>1. PICK u \in Outputs(b.stage, b.input) :
              att' = [att EXCEPT ![w].at = "save", ![w].got = u, ![w].marks = Marks(b.stage, u)]
        BY <1>4 DEF Work
    <2>2. UNCHANGED <<rows, saves>>
        BY <1>4 DEF Work, store
    <2>3. OutputText(b.stage, u)
        BY <1>1, <2>1, FineIs, OutputsText
    <2> DEFINE m == Marks(b.stage, u)
               a == Placed(b, "save", u, m)
    <2>4. att' = [att EXCEPT ![w] = Now(att[w], "save", u, m)]
        BY <2>1 DEF TextInv, Now
    <2>5. u \in Value /\ m \in SUBSET Markers /\ Said(b.stage, m, u.of)
        BY <1>1, <2>3, FineIs, MarksFacts DEF OutputText
    <2> HIDE DEF m
    <2>6. a \in Fine /\ Now(b, "save", u, m) = a
        <3> HIDE DEF b
        <3>1. "save" \in {"check", "read", "work", "save", "return"}
            OBVIOUS
        <3> HIDE DEF a
        <3>2. Placed(b, "save", u, m) \in Fine /\ Now(b, "save", u, m) = Placed(b, "save", u, m)
            BY <1>1, <2>3, <2>5, <3>1, FineNow, Zenon
        <3> QED
            BY <3>2 DEF a
    <2> HIDE DEF a
    <2>7. att' = [att EXCEPT ![w] = a]
        BY <2>4, <2>6
    <2> QED
        BY <2>2, <2>6, <2>7, OneAttempt, FewerRows
<1>5. CASE Save(w)
    <2>1. CASE Fails(w) /\ UNCHANGED store
        BY <2>1, FailsText, FewerRows DEF store
    <2>2. CASE ~(Fails(w) /\ UNCHANGED store)
        <3>1. /\ rows' = rows \cup ChunkRows(b.stage, Len(saves) + 1, b.got.of, b.marks)
              /\ saves' = Append(saves, [stage |-> b.stage, of |-> b.got.of])
              /\ To(w, "return") /\ b.at = "save"
            BY <1>5, <2>2, Zenon DEF Save, In
        <3>2. Said(b.stage, b.marks, b.got.of) /\ b.marks \in SUBSET Markers
            BY <1>1, <3>1, FineIs
        <3>3. RowsSaved'
            <4> HIDE DEF b
            <4> QED
                BY <3>1, <3>2, SaveKeepsRows
        <3>4. TextInv'
            BY <3>1, ToText
        <3> QED
            BY <3>3, <3>4
    <2> QED
        BY <2>1, <2>2
<1>6. CASE Returns(w)
    <2>1. UNCHANGED <<rows, saves>> /\ b.at = "return"
        BY <1>6 DEF Returns, store, In
    <2> DEFINE a == Start(b.stage + 1, b.got)
    <2>2. \/ att' = [att EXCEPT ![w] = Gone]
          \/ b.stage # Len(Kind) /\ att' = [att EXCEPT ![w] = a]
        BY <1>6 DEF Returns
    <2>3. b.stage # Len(Kind) => a \in Fine
        <3> HIDE DEF b
        <3>1. b.stage \in Stages /\ OutputText(b.stage, b.got) /\ b.got \in Value
            BY <1>1, <2>1, FineIs
        <3>2. Stages = 1 .. Len(Kind) /\ Len(Kind) \in Nat
            BY <3>1, KindFacts
        <3>3. b.stage # Len(Kind) => b.stage + 1 \in Stages /\ (b.stage + 1) - 1 = b.stage
            BY <3>1, <3>2
        <3> QED
            BY <3>1, <3>3, StartFine
    <2> HIDE DEF a
    <2> QED
        BY <2>1, <2>2, <2>3, NothingFine, OneAttempt, FewerRows
<1> QED
    BY <1>2, <1>3, <1>4, <1>5, <1>6 DEF Attempt

LEMMA StepKeepsText ==
    SavesInv /\ RowsSaved /\ TextInv /\ [CheckpointsNext]_checkpointsVars => RowsSaved' /\ TextInv'
<1> SUFFICES ASSUME SavesInv, RowsSaved, TextInv, [CheckpointsNext]_checkpointsVars
             PROVE  RowsSaved' /\ TextInv'
    OBVIOUS
<1>0. Start(1, Nothing) \in Fine /\ Gone \in Fine /\ Nothing \in Value
    BY NothingFine, StageOne, StartFine
<1>1. ASSUME NEW w \in {"main", "late"}, Attempt(w) PROVE RowsSaved' /\ TextInv'
    BY <1>1, AttemptText
<1>2. CASE Repair \/ Select \/ UNCHANGED checkpointsVars
    <2>1. UNCHANGED <<rows, saves, att>>
        BY <1>2 DEF Repair, Select, store, checkpointsVars
    <2> QED
        BY <2>1, FewerRows DEF TextInv
<1>3. CASE DeleteRow
    <2>1. rows' \subseteq rows /\ UNCHANGED saves
        BY <1>3 DEF DeleteRow
    <2>2. att' = [att EXCEPT !["main"] = Start(1, Nothing)] \/ UNCHANGED att
        BY <1>3 DEF DeleteRow
    <2> QED
        BY <1>0, <2>1, <2>2, FewerRows, OneAttempt DEF TextInv
<1>4. CASE Resume
    BY <1>0, <1>4, FewerRows, OneAttempt DEF Resume, store
<1>5. CASE Crash
    <2>1. UNCHANGED <<rows, saves>>
        BY <1>5 DEF Crash, store
    <2>2. att' = [main |-> IF Pending THEN Gone ELSE Start(1, Nothing), late |-> Gone]
        BY <1>5 DEF Crash
    <2>3. TextInv'
        BY <1>0, <2>2 DEF TextInv
    <2> QED
        BY <2>1, <2>3, FewerRows
<1>6. CASE Timeout
    <2>1. UNCHANGED <<rows, saves>>
        BY <1>6 DEF Timeout, store
    <2>2. att' = [main |-> Start(att["main"].stage, att["main"].input), late |-> att["main"]]
        BY <1>6 DEF Timeout
    <2>3. att["main"] \in Fine
        BY DEF TextInv
    <2>4. Start(att["main"].stage, att["main"].input) \in Fine
        BY <2>3, FineIs, StartFine
    <2>5. TextInv'
        BY <2>2, <2>3, <2>4 DEF TextInv
    <2> QED
        BY <2>1, <2>5, FewerRows
<1> QED
    BY <1>1, <1>2, <1>3, <1>4, <1>5, <1>6 DEF CheckpointsNext

LEMMA TextInvHolds == TextInv => TextIsDecodedOnce
<1> SUFFICES ASSUME TextInv, NEW w \in {"main", "late"}, att[w].at = "return", Kind[att[w].stage] # "collect"
             PROVE  DecodedOnce(att[w].stage, att[w].got.of)
    BY DEF TextIsDecodedOnce, In
<1> DEFINE s == att[w].stage
           v == att[w].got
<1>1. s \in Stages /\ v \in Value /\ OutputText(s, v)
    BY FineIs DEF TextInv
<1>2. Kind[s] \in Kinds \ {"collect"}
    BY <1>1, KindFacts
<1> HIDE DEF s, v
<1>3. v.of \in Seq(Entries) /\ DOMAIN v.of = 1 .. Len(v.of)
    BY <1>1 DEF Value
<1>4. CASE Kind[s] = "items"
    <2>1. v.of \in Seq(Text(1, 0))
        BY <1>1, <1>4, LaterText
    <2>2. \A i \in 1 .. Len(v.of) : v.of[i].text = 1
        BY <2>1, TextSeq
    <2> QED
        BY <1>3, <1>4, <2>2 DEF DecodedOnce, s, v
<1>5. CASE Kind[s] \in {"present", "compose"}
    <2>1. v.of \in Seq(Text(1, 1))
        BY <1>1, <1>5, LaterText
    <2>2. \A i \in 1 .. Len(v.of) : v.of[i].text = 1 /\ v.of[i].shown = 1
        BY <2>1, TextSeq
    <2> QED
        BY <1>3, <2>2 DEF DecodedOnce, s, v
<1> QED
    BY <1>2, <1>4, <1>5 DEF Kinds

\* An attempt that goes on from read has read.
LEMMA OnlyReadReads ==
    ASSUME TextInv, NEW w \in {"main", "late"}, In(w, "read"), att'[w].at \in {"save", "return"},
           [CheckpointsNext]_checkpointsVars
    PROVE  Read(w)
<1>0. Start(1, Nothing).at = "check" /\ Gone.at = "gone" /\ Start(att["main"].stage, att["main"].input).at = "check"
    BY StartIs DEF Gone
<1>a. att[w].at = "read" /\ DOMAIN att = {"main", "late"}
    BY DEF In, TextInv
<1>1. ASSUME NEW x \in {"main", "late"}, Attempt(x) PROVE x = w
    <2> SUFFICES ASSUME x # w PROVE att'[w] = att[w]
        BY <1>a
    <2>1. CASE Fails(x)
        BY <1>a, <2>1 DEF Fails
    <2>2. CASE \E l : To(x, l)
        BY <1>a, <2>2 DEF To
    <2>3. CASE Check(x)
        BY <2>1, <2>2, <2>3 DEF Check
    <2>4. CASE Read(x)
        BY <1>a, <2>1, <2>4 DEF Read
    <2>5. CASE Work(x)
        BY <1>a, <2>5 DEF Work
    <2>6. CASE Save(x)
        BY <2>1, <2>2, <2>6 DEF Save
    <2>7. CASE Returns(x)
        BY <1>a, <2>7 DEF Returns
    <2> QED
        BY <1>1, <2>3, <2>4, <2>5, <2>6, <2>7 DEF Attempt
<1>2. CASE Attempt(w)
    BY <1>2, <1>a DEF Attempt, Check, Work, Save, Returns, In
<1>3. CASE Repair \/ Select \/ UNCHANGED checkpointsVars
    BY <1>3, <1>a DEF Repair, Select, checkpointsVars
<1>4. CASE DeleteRow \/ Resume
    <2>1. att' = [att EXCEPT !["main"] = Start(1, Nothing)] \/ UNCHANGED att
        BY <1>4 DEF DeleteRow, Resume
    <2> QED
        BY <1>0, <1>a, <2>1
<1>5. CASE Crash
    BY <1>0, <1>5 DEF Crash
<1>6. CASE Timeout
    <2>1. att["late"] = Gone
        BY <1>6 DEF Timeout
    <2>2. w = "main"
        BY <1>0, <1>a, <2>1
    <2> QED
        BY <1>0, <1>6, <2>2 DEF Timeout
<1> QED
    BY <1>1, <1>2, <1>3, <1>4, <1>5, <1>6 DEF CheckpointsNext

Reads == \A w \in {"main", "late"} :
             In(w, "read") /\ att'[w].at \in {"save", "return"} =>
                 LET was == saves[Newest(att[w].stage)]
                     got == Ids(att'[w].got.of)
                 IN  got = Ids(was.of) \/ got = Ids(Valid(was.of))
LEMMA StepReads ==
    SavesInv /\ RowsSaved /\ TextInv /\ [CheckpointsNext]_checkpointsVars => [Reads]_checkpointsVars
<1> SUFFICES ASSUME SavesInv, RowsSaved, TextInv, [CheckpointsNext]_checkpointsVars,
                    NEW w \in {"main", "late"}, In(w, "read"), att'[w].at \in {"save", "return"}
             PROVE  Ids(att'[w].got.of) \in {Ids(saves[Newest(att[w].stage)].of),
                                             Ids(Valid(saves[Newest(att[w].stage)].of))}
    BY DEF Reads
<1>1. Read(w)
    BY OnlyReadReads
<1> QED
    BY <1>1, ReadText

\* From normalize on, the text handed from stage to stage has been decoded
\* exactly once: for any stages, artifacts of an older version, crashes, timeouts
\* and retries.  restoredCheckpointOutput and the markers of the artifacts.
THEOREM CheckpointsTextIsDecodedOnce == CheckpointsSpec => []TextIsDecodedOnce
<1>1. CheckpointsInit => RepairInv /\ Awaited /\ RowsSaved /\ TextInv
    BY RepairInvInit, AwaitedInit, SavedInit, TextInit
<1>2. /\ RepairInv /\ Awaited /\ RowsSaved /\ TextInv /\ [CheckpointsNext]_checkpointsVars
      => (RepairInv /\ Awaited /\ RowsSaved /\ TextInv)'
    BY StepKeepsInv, StepKeepsText DEF RepairInv
<1> QED
    BY <1>1, <1>2, TextInvHolds, PTL DEF CheckpointsSpec

\* A stage that is read gives all that was saved of its newest checkpoint, in
\* order, or what the upgrade could name of it: never a mixture of two checkpoints
\* nor a part of one.  readArtifact, for any sizes, chunks and deletions.
THEOREM CheckpointsReadWhatWasSaved == CheckpointsSpec => ReadsWhatWasSaved
<1>1. CheckpointsInit => RepairInv /\ Awaited /\ RowsSaved /\ TextInv
    BY RepairInvInit, AwaitedInit, SavedInit, TextInit
<1>2. /\ RepairInv /\ Awaited /\ RowsSaved /\ TextInv /\ [CheckpointsNext]_checkpointsVars
      => (RepairInv /\ Awaited /\ RowsSaved /\ TextInv)'
    BY StepKeepsInv, StepKeepsText DEF RepairInv
<1>3. RepairInv /\ RowsSaved /\ TextInv /\ [CheckpointsNext]_checkpointsVars => [Reads]_checkpointsVars
    BY StepReads DEF RepairInv
<1> QED
    BY <1>1, <1>2, <1>3, PTL DEF CheckpointsSpec, ReadsWhatWasSaved, Reads
=============================================================================
