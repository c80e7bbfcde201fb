---------------------------- MODULE Checkpoints ----------------------------
(***************************************************************************)
(* The artifacts of the stages as rows of audit_events: a list is cut into *)
(* chunks that fit a row, a repair deletes the rows one by one, and what   *)
(* an older version of the program has stored is brought up to date when   *)
(* it is read.                                                             *)
(*                                                                         *)
(* An artifact's text is abstracted to how often HTML entities have been   *)
(* decoded in it.  Decoding is not idempotent, so it must happen once on   *)
(* the way from the source to the edition, over crashes and an upgrade;    *)
(* the version markers of the artifacts say what has been done.            *)
(***************************************************************************)
EXTENDS Integers, Sequences, FiniteSets

Lists == INSTANCE SequencesExt

CONSTANTS
    Kind,       \* Kind[s]: collect, items, present or compose
    Papers,     \* ids of research candidates: they keep a compact copy
    Hollow,     \* ids with a name of nothing but encoded blanks
    Size,       \* Size[id]: bytes of an entry
    MaxBytes,   \* MAX_D1_CHECKPOINT_EVENT_BYTES: 1.5 MB
    MaxChunks,  \* MAX_CHECKPOINT_CHUNKS: 1000
    Finds,      \* what a collection may find, sequences of ids
    Older,      \* the artifacts an older version may have left, sequences of [form, of, marks]
    MaxSaves,   \* bound: artifacts saved
    MaxFaults   \* bound: crashes, timeouts and errors

Stages  == DOMAIN Kind
Markers == {"normalization", "preparation", "composition", "presentation"}

\* The kinds of the stages as they follow each other.
Follows == [collect |-> {"items"}, items |-> {"items", "present"},
            present |-> {"present", "compose"}, compose |-> {"compose"}]
Entries == [id : DOMAIN Size, text : Nat, compact : Nat, shown : Nat]

\* What the markers of an artifact say of the text of its entries.
Once(done) == IF done THEN 1 ELSE 0
Marked(s, marks, e) ==
    CASE Kind[s] = "collect" -> e.text = Once("preparation" \in marks) /\ e.shown = 0
      [] Kind[s] = "items"   -> e.text = Once("normalization" \in marks) /\ e.shown = 0
      [] Kind[s] = "present" -> /\ e.text = Once("normalization" \in marks)
                                /\ e.shown = Once("presentation" \in marks)
      [] Kind[s] = "compose" -> /\ e.text = Once("composition" \in marks)
                                /\ e.shown = Once("composition" \in marks)

ASSUME CheckpointsAssumption ==
    /\ Kind \in Seq({"collect", "items", "present", "compose"}) /\ Kind # <<>>
    /\ \A s \in Stages : IF s = 1 THEN Kind[s] = "collect" ELSE Kind[s] \in Follows[Kind[s - 1]]
    /\ MaxBytes \in Nat /\ MaxChunks \in Nat \ {0}
    /\ Finds \subseteq Seq(DOMAIN Size)
    /\ \A o \in Older : \E n \in 0 .. Len(Kind) :
          /\ DOMAIN o = 1 .. n
          /\ \A s \in 1 .. n : /\ o[s].of \in Seq(Entries) /\ o[s].marks \subseteq Markers
                               /\ \A i \in DOMAIN o[s].of : Marked(s, o[s].marks, o[s].of[i])

VARIABLES
    rows,       \* workflow_checkpoint rows: [stage, save, index, count, of, marks]
    saves,      \* history: the artifacts saved, [stage, of]
    body,      \* running, ended, repairing, stopped
    doomed,     \* the rows invalidateFrom has selected and not yet deleted
    repaired,   \* history: artifacts saved when the first repair selected
    value,      \* the output the body got from the last stage
    att,        \* att[w]: the attempt awaited (main) and the timed-out one (late)
    hidden,     \* an attempt given up has saved the row of the ended run as running
    faults

store == <<rows, saves>>
checkpointsVars == <<store, body, doomed, repaired, value, att, hidden, faults>>

----------------------------------------------------------------------------
(* Text. *)

\* One entry of an output: how often its own text, the compact research copy  *
\* of it, and the text written to present it, have been decoded.              *
Entry(id, text, compact, shown) == [id |-> id, text |-> text, compact |-> compact, shown |-> shown]
Map(F(_), s) == [i \in DOMAIN s |-> F(s[i])]
Decoded(times) == times + 1
Valid(es) ==
    LET named[n \in 0 .. Len(es)] ==
            IF n = 0 THEN <<>>
            ELSE IF es[n].id \in Hollow THEN named[n - 1] ELSE Append(named[n - 1], es[n])
    IN  named[Len(es)]

\* prepareRawCandidateForPipeline: an entry without a name is left out.
Prepared(es) == Map(LAMBDA e : [e EXCEPT !.text = Decoded(@)], Valid(es))

\* normalizedCandidate, the compact copy made by compactResearchCandidate.
Compacted(e) == [e EXCEPT !.compact = IF e.id \in Papers THEN Decoded(e.text) ELSE 0]

\* normalizedStoredWorkflowItems: stored by an older version.
Normalized(es) == Map(LAMBDA e : Compacted([e EXCEPT !.text = Decoded(@)]), Valid(es))

\* presentedCheckpointOutput for such, and for what this version has computed.
PresentedLegacy(es)  == Map(LAMBDA e : [e EXCEPT !.shown = Decoded(@)], es)
PresentedCurrent(es) == Map(LAMBDA e : [e EXCEPT !.shown = IF @ = 0 THEN Decoded(@) ELSE @], es)

\* normalizeLegacyCompositionProviderText; a hollow name is an error.
ComposedLegacy(es) == Map(LAMBDA e : [e EXCEPT !.text = Decoded(@), !.shown = Decoded(@)], es)

\* The outputs of stage s, given the value v.  normalize prepares what the
\* collection has not; later stages select.
Outputs(s, v) ==
    CASE Kind[s] = "collect" ->
            {[of |-> Prepared(Map(LAMBDA id : Entry(id, 0, 0, 0), f)), prepared |-> TRUE] : f \in Finds}
      [] Kind[s] = "items" ->
            {[of |-> IF s # 2 THEN v.of
                     ELSE Map(Compacted, IF v.prepared THEN v.of ELSE Prepared(v.of)),
              prepared |-> FALSE]}
      [] Kind[s] = "present" -> {[of |-> PresentedCurrent(v.of), prepared |-> FALSE]}
      [] Kind[s] = "compose" -> {[of |-> v.of, prepared |-> FALSE]}

----------------------------------------------------------------------------
(* Markers. *)

\* The markers parseCheckpointArtifact refuses.
Illegal(s, marks) ==
    \/ Kind[s] \in {"collect", "compose"} /\ "normalization" \in marks
    \/ Kind[s] # "collect" /\ "preparation" \in marks
    \/ Kind[s] # "compose" /\ "composition" \in marks
    \/ Kind[s] # "present" /\ "presentation" \in marks
    \/ "presentation" \in marks /\ "normalization" \notin marks

\* A collection without its marker would be prepared again when restored.
MarksWithoutPreparation(s, v) ==
    CASE Kind[s] = "collect" -> {}
      [] Kind[s] = "items"   -> {"normalization"}
      [] Kind[s] = "present" -> {"normalization", "presentation"}
      [] Kind[s] = "compose" -> {"composition"}
\* The markers of a fresh artifact; an empty collection has none.
Marks(s, v) ==
    CASE Kind[s] = "collect" -> IF v.prepared /\ v.of # <<>> THEN {"preparation"} ELSE {}
      [] Kind[s] = "items"   -> {"normalization"}
      [] Kind[s] = "present" -> {"normalization", "presentation"}
      [] Kind[s] = "compose" -> {"composition"}

\* restoredCheckpointOutput: what is not up to date is brought there, once.
Restored(s, a) ==
    LET items == IF "normalization" \in a.marks THEN a.of ELSE Normalized(a.of)
    IN  [of |-> CASE Kind[s] = "collect" -> a.of
                  [] Kind[s] = "items"   -> items
                  [] Kind[s] = "present" -> IF "presentation" \in a.marks THEN items
                                                                          ELSE PresentedLegacy(items)
                  [] Kind[s] = "compose" -> IF "composition" \in a.marks THEN a.of
                                                                         ELSE ComposedLegacy(a.of),
         prepared |-> Kind[s] = "collect" /\ "preparation" \in a.marks]
Unrestorable(s, a) ==
    Kind[s] = "compose" /\ "composition" \notin a.marks /\ \E i \in DOMAIN a.of : a.of[i].id \in Hollow

\* Only what is presented or composed is saved again when it was not current.
Outdated(s, a) ==
    \/ Kind[s] = "compose" /\ "composition" \notin a.marks
    \/ Kind[s] = "present" /\ ~({"normalization", "presentation"} \subseteq a.marks)

----------------------------------------------------------------------------
(* Rows. *)
IsList(s) == Kind[s] # "compose"

Bytes(s, es) ==
    Lists!FoldLeft(LAMBDA n, e : n + (IF IsList(s) THEN Size[e.id] ELSE 1), 0, es)
Fits(s, es) == Bytes(s, es) <= MaxBytes

\* serializedCheckpointEvents: an entry that does not fit opens a chunk; an
\* empty list is one empty chunk.
AddEntry(s, chunks, e) ==
    LET open == chunks[Len(chunks)]
    IN  IF open # <<>> /\ ~Fits(s, Append(open, e))
          THEN Append(chunks, <<e>>) ELSE [chunks EXCEPT ![Len(chunks)] = Append(open, e)]
Chunks(s, es) ==
    LET chunked[n \in 0 .. Len(es)] ==
            IF n = 0 THEN <<<<>>>> ELSE AddEntry(s, chunked[n - 1], es[n])
    IN  IF IsList(s) THEN chunked[Len(es)] ELSE <<es>>
Storable(s, es) ==
    Len(Chunks(s, es)) <= MaxChunks /\ \A i \in DOMAIN Chunks(s, es) : Fits(s, Chunks(s, es)[i])

\* saveCheckpoint: one batch, so all the rows or none.
ChunkRows(s, save, es, marks) ==
    LET chunks == Chunks(s, es)
    IN  {[stage |-> s, save |-> save, index |-> i, count |-> Len(chunks),
          of |-> chunks[i], marks |-> marks] : i \in 1 .. Len(chunks)}

\* The row an older version wrote: no chunk, index 0.
WholeRow(s, save, es, marks) ==
    {[stage |-> s, save |-> save, index |-> 0, count |-> 0, of |-> es, marks |-> marks]}

\* Rowids grow with the saves; the newest row tells which of them is read.
Rows(s)   == {r \in rows : r.stage = s}
Newest(s) == CHOOSE n \in {r.save : r \in Rows(s)} : \A r \in Rows(s) : r.save <= n
Group(s)  == {r \in Rows(s) : r.save = Newest(s)}

\* A group that is not counted loses the chunks that a repair has deleted.
Counted(g) ==
    \A r \in g : r.index = 0 \/
        /\ \A o \in g : o.count = r.count /\ o.marks = r.marks /\ (o.index = r.index => o = r)
        /\ {o.index : o \in g} = 1 .. r.count
WholeIfAny(s) == TRUE
Whole(s) == Counted(Group(s))

\* readArtifact, of a stage with rows; the chunks by their index.
Concat(chunks) ==
    LET joined[n \in 0 .. Len(chunks)] == IF n = 0 THEN <<>> ELSE joined[n - 1] \o chunks[n]
    IN  joined[Len(chunks)]
Nth(g, i) == CHOOSE r \in g : Cardinality({q \in g : q.index < r.index}) = i - 1
Artifact(s) ==
    LET g == Group(s)
    IN  [of |-> Concat([i \in 1 .. Cardinality(g) |-> Nth(g, i).of]), marks |-> Nth(g, 1).marks]

Saved(s) == Rows(s) # {}

----------------------------------------------------------------------------
Nothing == [of |-> <<>>, prepared |-> FALSE]
Gone == [at |-> "gone", stage |-> 1, input |-> Nothing, got |-> Nothing, marks |-> {}]
Start(s, v) == [Gone EXCEPT !.at = "check", !.stage = s, !.input = v]

\* A new run, or one that an older version has left after some stages.
OlderRows(o) ==
    UNION {IF o[s].form = "whole" THEN WholeRow(s, s, o[s].of, o[s].marks)
                                  ELSE ChunkRows(s, s, o[s].of, o[s].marks) : s \in DOMAIN o}
CheckpointsInit ==
    /\ \E o \in Older :
         /\ rows = OlderRows(o)
         /\ saves = [s \in DOMAIN o |-> [stage |-> s, of |-> o[s].of]]
    /\ body \in {"running", "repairing"}
    /\ doomed = {}
    /\ repaired = 0
    /\ value = Nothing
    /\ att = [main |-> IF body = "running" THEN Start(1, Nothing) ELSE Gone, late |-> Gone]
    /\ hidden = FALSE
    /\ faults = 0

----------------------------------------------------------------------------
(* One attempt w at the operation of a stage: checkpoint(). *)
In(w, l) == att[w].at = l
To(w, l) == att' = [att EXCEPT ![w].at = l]

\* An error ends the attempt; step.do retries the one it waits for, until its
\* retries are used up and the run stops.
Fails(w) ==
    /\ faults < MaxFaults \/ w = "late"
    /\ faults' = IF w = "late" THEN faults ELSE faults + 1
    /\ IF w = "late" THEN att' = [att EXCEPT ![w] = Gone] /\ UNCHANGED body
       ELSE \/ att' = [att EXCEPT ![w] = Start(@.stage, @.input)] /\ UNCHANGED body
            \/ att' = [att EXCEPT ![w] = Gone] /\ body' = "stopped"

\* readCheckpoint.
Check(w) ==
    /\ In(w, "check")
    /\ IF ~Saved(att[w].stage) THEN To(w, "work") /\ UNCHANGED <<body, faults>>
       ELSE IF Whole(att[w].stage) THEN To(w, "read") /\ UNCHANGED <<body, faults>>
       ELSE Fails(w)
    /\ UNCHANGED <<store, doomed, repaired, value, hidden>>

\* readArtifact, again, and what is restored from it.
Read(w) ==
    LET s == att[w].stage IN
    /\ In(w, "read")
    /\ IF Saved(s) /\ Whole(s) /\ ~Unrestorable(s, Artifact(s))
         THEN /\ att' = [att EXCEPT
                    ![w].at = IF Outdated(s, Artifact(s)) THEN "save" ELSE "return",
                    ![w].got = Restored(s, Artifact(s)),
                    ![w].marks = Artifact(s).marks \cup Marks(s, Restored(s, Artifact(s)))]
              /\ UNCHANGED <<body, faults>>
         ELSE Fails(w)
    /\ UNCHANGED <<store, doomed, repaired, value, hidden>>

Work(w) ==
    /\ In(w, "work")
    /\ \E v \in Outputs(att[w].stage, att[w].input) :
         att' = [att EXCEPT ![w].at = "save", ![w].got = v, ![w].marks = Marks(att[w].stage, v)]
    /\ UNCHANGED <<store, body, doomed, repaired, value, hidden, faults>>

\* saveCheckpoint, of an output or of what was restored.
Save(w) ==
    LET a == att[w] IN
    /\ In(w, "save")
    /\ Len(saves) < MaxSaves
    /\ IF Illegal(a.stage, a.marks) \/ ~Storable(a.stage, a.got.of)
         THEN Fails(w) /\ UNCHANGED store
         ELSE /\ rows' = rows \cup ChunkRows(a.stage, Len(saves) + 1, a.got.of, a.marks)
              /\ saves' = Append(saves, [stage |-> a.stage, of |-> a.got.of])
              /\ To(w, "return")
              /\ UNCHANGED <<body, faults>>
    /\ UNCHANGED <<doomed, repaired, value, hidden>>

\* The row of the run is saved as running, and the body goes on with the
\* output as it was computed or restored.
Returns(w) ==
    /\ In(w, "return")
    /\ hidden' = (hidden \/ body \in {"ended", "repairing", "deleting"})
    /\ IF w = "late" THEN att' = [att EXCEPT ![w] = Gone] /\ UNCHANGED <<value, body>>
       ELSE /\ value' = att[w].got
            /\ IF att[w].stage = Len(Kind)
                 THEN att' = [att EXCEPT ![w] = Gone] /\ body' = "ended"
                 ELSE att' = [att EXCEPT ![w] = Start(@.stage + 1, @.got)] /\ UNCHANGED body
    /\ UNCHANGED <<store, doomed, repaired, faults>>

----------------------------------------------------------------------------
(* The body. *)

\* A run that ended partial is repaired: invalidateFrom selects the rows ...
Repair ==
    /\ body = "ended" /\ ~hidden
    /\ body' = "repairing"
    /\ UNCHANGED <<store, doomed, repaired, value, att, hidden, faults>>

Select ==
    /\ body = "repairing" /\ Len(saves) < MaxSaves
    /\ body' = "deleting"
    /\ doomed' = {[save |-> r.save, index |-> r.index] : r \in rows}
    /\ repaired' = IF repaired = 0 THEN Len(saves) ELSE repaired
    /\ UNCHANGED <<store, value, att, hidden, faults>>

Goes(r, d) == r.save = d.save /\ r.index = d.index

\* ... and deletes them one by one; then the stages run.
DeleteRow ==
    /\ body = "deleting"
    /\ IF doomed = {}
         THEN /\ body' = "running" /\ att' = [att EXCEPT !["main"] = Start(1, Nothing)]
              /\ UNCHANGED <<rows, doomed>>
         ELSE /\ \E d \in doomed :
                   /\ rows' = {r \in rows : ~Goes(r, d)}
                   /\ doomed' = doomed \ {d}
              /\ UNCHANGED <<body, att>>
    /\ UNCHANGED <<saves, repaired, value, hidden, faults>>

\* An error that ends the run is recorded and the run resumed.
Resume ==
    /\ body = "stopped"
    /\ body' = "running"
    /\ att' = [att EXCEPT !["main"] = Start(1, Nothing)]
    /\ value' = Nothing
    /\ UNCHANGED <<store, doomed, repaired, hidden, faults>>

\* The row of the run still says that it is partial, and to be repaired.
Pending == body \in {"repairing", "deleting"} /\ ~hidden

\* A process that forgets the unfinished repair would go on to the stages.
CrashIntoStages ==
    /\ body \in {"running", "repairing", "deleting"} /\ faults < MaxFaults
    /\ faults' = faults + 1
    /\ body' = "running"
    /\ doomed' = {}
    /\ value' = Nothing
    /\ att' = [main |-> Start(1, Nothing), late |-> Gone]
    /\ UNCHANGED <<store, repaired, hidden>>
\* The isolate is lost, and the body starts anew: the row of the run still
\* says whether there is something to repair.
Crash ==
    /\ body \in {"running", "repairing", "deleting"} /\ faults < MaxFaults
    /\ faults' = faults + 1
    /\ body' = IF Pending THEN "repairing" ELSE "running"
    /\ doomed' = {}
    /\ value' = Nothing
    /\ att' = [main |-> IF Pending THEN Gone ELSE Start(1, Nothing), late |-> Gone]
    /\ UNCHANGED <<store, repaired, hidden>>

\* step.do gives an attempt up, which goes on beside its retry.
Timeout ==
    /\ att["main"].at # "gone" /\ faults < MaxFaults
    /\ att["late"] = Gone
    /\ faults' = faults + 1
    /\ att' = [main |-> Start(att["main"].stage, att["main"].input), late |-> att["main"]]
    /\ UNCHANGED <<store, body, doomed, repaired, value, hidden>>

Attempt(w) == Check(w) \/ Read(w) \/ Work(w) \/ Save(w) \/ Returns(w)
CheckpointsNext == (\E w \in {"main", "late"} : Attempt(w)) \/ Repair \/ Select \/ DeleteRow \/ Resume \/ Crash \/ Timeout
CheckpointsSpec == CheckpointsInit /\ [][CheckpointsNext]_checkpointsVars

----------------------------------------------------------------------------
(* Properties. *)

(* A stage that is read gives all that was saved of its newest checkpoint,   *)
(* in the order it was saved, less what the upgrade could not name: never a  *)
(* mixture of two checkpoints nor a part of one.                             *)
Ids(es) == Map(LAMBDA e : e.id, es)
ReadsWhatWasSaved ==
    [][\A w \in {"main", "late"} :
          In(w, "read") /\ att'[w].at \in {"save", "return"} =>
              LET was == saves[Newest(att[w].stage)]
                  got == Ids(att'[w].got.of)
              IN  got = Ids(was.of) \/ got = Ids(Valid(was.of))]_checkpointsVars

(* From normalize on, the text handed from stage to stage has been decoded   *)
(* exactly once, whatever was restored, promoted, retried or left by an      *)
(* older version; from the shortlist on, so has the text that presents it.   *)
DecodedOnce(s, es) ==
    \A i \in DOMAIN es : es[i].text = 1 /\ (Kind[s] \in {"present", "compose"} => es[i].shown = 1)
TextIsDecodedOnce ==
    \A w \in {"main", "late"} :
        In(w, "return") /\ Kind[att[w].stage] # "collect" => DecodedOnce(att[w].stage, att[w].got.of)

(* After a repair, however often it was interrupted, no stage finds a row    *)
(* that it was to delete, nor half of a checkpoint, which no retry could     *)
(* read; unless an attempt given up long ago has saved the row of the run    *)
(* over the pending repair.                                                  *)
RepairIsFinished ==
    body \in {"running", "ended"} /\ ~hidden =>
        /\ \A r \in rows : r.save > repaired
        /\ \A s \in Stages : Saved(s) => Whole(s)
=============================================================================
