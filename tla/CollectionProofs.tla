-------------------------- MODULE CollectionProofs --------------------------
(***************************************************************************)
(* What the collection writes to the rows of the sources, while an         *)
(* administrator edits them, and how the papers of several lanes are       *)
(* merged, for any catalog, collectors, answers and edits.                 *)
(***************************************************************************)
EXTENDS Collection, FiniteSetTheorems, TLAPS

(* The rows: a source that was polled keeps its row, and so does one whose   *)
(* update is on its way.                                                     *)
IsCatalog(c) == DOMAIN c = Sources /\ \A s \in Sources : c[s] = NoRow \/ IsRow(c[s])
RowsStay ==
    /\ IsCatalog(catalog) /\ IsCatalog(polled)
    /\ \A s \in Sources : polled[s].url # "none" => Exists(s)
    /\ \A e \in editing : e.source \in Sources /\ IsRow(e.row) /\ Exists(e.source)

(* Only what is enabled in the catalog that was read has lanes, or enriches. *)
OnlyPolled ==
    /\ \A op \in DOMAIN lane : op.source \in Sources /\ polled[op.source].enabled
    /\ \A f \in failed : f[1] \in Sources /\ polled[f[1]].enabled
    /\ enricher \in 1 .. Len(Enrichers) + 1

\* The row of s tells what became of it.
Told(s) ==
    /\ (\E f \in Failures : f[1] = s) => catalog[s].health \in {"degraded", "failing"}
    /\ s \in Succeeded /\ (~\E f \in Failures : f[1] = s) =>
           catalog[s].health = "healthy" /\ catalog[s].success = attempt

(* The rows that have been recorded tell the truth, and go on to.            *)
RecordedAreTold ==
    /\ recorded \in 0 .. Len(ByName)
    /\ phase = "collecting" => recorded = 0
    /\ phase = "done" => recorded = Len(ByName)
    /\ phase \in {"recording", "done"} =>
           \A i \in 1 .. recorded : ByName[i] \in PublicIds => Told(ByName[i])

CollectionInv == RowsStay /\ OnlyPolled /\ RecordedAreTold

----------------------------------------------------------------------------
\* The rows under the operators of the model.

LEMMA NoRowFacts == ~NoRow.enabled /\ NoRow.url = "none"
    BY DEF NoRow

LEMMA EnabledExists ==
    ASSUME NEW c, IsCatalog(c), NEW s \in Sources, c[s].enabled
    PROVE  c[s].url # "none"
    BY DEF IsCatalog, IsRow, NoRow

LEMMA OutcomeRowFacts ==
    ASSUME NEW s \in Sources, IsRow(catalog[s]), NEW o
    PROVE  /\ IsRow(OutcomeRow(s, o))
           /\ OutcomeRow(s, o).enabled = catalog[s].enabled
           /\ o = "success" => /\ OutcomeRow(s, o).health = "healthy"
                               /\ OutcomeRow(s, o).success = attempt
           /\ o # "success" => OutcomeRow(s, o).health \in {"degraded", "failing"}
    BY DEF OutcomeRow, IsRow, Columns

LEMMA UpdatedRowFacts ==
    ASSUME NEW s, NEW row, IsRow(row)
    PROVE  /\ IsRow(UpdatedRow(s, row))
           /\ UpdatedRow(s, row).enabled = row.enabled
           /\ UpdatedRow(s, row).health = catalog[s].health
           /\ UpdatedRow(s, row).success = catalog[s].success
    BY DEF UpdatedRow, IsRow, Columns, Measured

(* Lanes are made for enabled sources.                                       *)
LEMMA OperationsAreEnabled ==
    ASSUME NEW c, NEW op \in Operations(c)
    PROVE  op.source \in Sources /\ c[op.source].enabled
<1>1. CASE op \in NewsOperations(c)
    BY <1>1 DEF NewsOperations, Operation
<1>2. CASE op \in PublicationOperations(c)
    BY <1>2 DEF PublicationOperations, Operation
<1>3. CASE op \in ResearchOperations(c)
    <2>1. PICK s \in {t \in Research : c[t].enabled} :
              op \in {Operation("research", s, n) : n \in 1 .. LanesOf[s]}
        BY <1>3 DEF ResearchOperations
    <2>2. op.source = s
        BY <2>1 DEF Operation
    <2> QED
        BY <2>1, <2>2, CollectionAssumption
<1> QED
    BY <1>1, <1>2, <1>3 DEF Operations

(* What has failed or succeeded was polled, and still has its row.           *)
LEMMA HeardOfExist ==
    ASSUME RowsStay, OnlyPolled, NEW s,
           (\E f \in Failures : f[1] = s) \/ s \in Succeeded
    PROVE  s \in Sources /\ polled[s].url # "none" /\ Exists(s) /\ IsRow(catalog[s])
<1>1. s \in Sources /\ polled[s].enabled
    <2>1. CASE \E f \in Failures : f[1] = s
        BY <2>1 DEF Failures, OnlyPolled
    <2>2. CASE s \in {op.source : op \in {o \in DOMAIN lane : lane[o] = "success"}}
        BY <2>2 DEF OnlyPolled
    <2>3. CASE s \in {Enrichers[i] : i \in {j \in 1 .. enricher - 1 : Enriching(j)}}
        <3>1. PICK i \in 1 .. enricher - 1 : Enriching(i) /\ s = Enrichers[i]
            BY <2>3
        <3>2. i \in 1 .. Len(Enrichers)
            BY <3>1, CollectionAssumption DEF OnlyPolled
        <3>3. s \in Research
            BY <3>1, <3>2, CollectionAssumption
        <3> QED
            BY <3>1, <3>3, CollectionAssumption DEF Enriching
    <2> QED
        BY <2>1, <2>2, <2>3 DEF Succeeded
<1>2. polled[s].url # "none"
    BY <1>1, EnabledExists DEF RowsStay
<1> QED
    BY <1>1, <1>2 DEF RowsStay, Exists, IsCatalog, NoRow

(* Of a source with an id that is accepted, the outcome is what became of it.*)
LEMMA OutcomeTells ==
    ASSUME NEW s \in PublicIds
    PROVE  /\ (\E f \in Failures : f[1] = s) <=> Outcome(s) = "failure"
           /\ s \in Succeeded /\ (~\E f \in Failures : f[1] = s) => Outcome(s) = "success"
<1>1. (\E f \in Failures : f[1] = s) <=> s \in FailedIds
    BY PublicIdAssumption DEF FailedIds, PublicId
<1> QED
    BY <1>1 DEF Outcome

(* What became of the sources is settled: a step that leaves it and the      *)
(* measured columns of a row leaves the row true.                            *)
LEMMA ToldStays ==
    ASSUME NEW s, Told(s), UNCHANGED <<lane, failed, enricher, polled, attempt>>,
           catalog'[s].health = catalog[s].health, catalog'[s].success = catalog[s].success
    PROVE  Told(s)'
<1>1. Failures' = Failures
    BY DEF Failures, Open, Active
<1>2. Succeeded' = Succeeded
    BY DEF Succeeded, Enriching
<1> QED
    BY <1>1, <1>2 DEF Told

----------------------------------------------------------------------------
\* The initial rows, and the steps that write no row.

LEMMA InitCollection == Init => CollectionInv
<1> SUFFICES ASSUME Init PROVE CollectionInv
    OBVIOUS
<1>1. RowsStay
    BY RowsAssumption DEF Init, RowsStay, IsCatalog, Exists
<1>2. Len(Enrichers) \in Nat /\ Len(ByName) \in Nat
    BY CollectionAssumption
<1>3. OnlyPolled
    BY <1>2 DEF Init, OnlyPolled
<1>4. RecordedAreTold
    BY <1>2 DEF Init, RecordedAreTold
<1> QED
    BY <1>1, <1>3, <1>4 DEF CollectionInv

\* Begin reads the catalog and makes the lanes from it.
LEMMA BeginKeeps == CollectionInv /\ Begin => CollectionInv'
<1> SUFFICES ASSUME CollectionInv, Begin PROVE CollectionInv'
    OBVIOUS
<1>1. RowsStay'
    BY DEF CollectionInv, Begin, RowsStay, table, IsCatalog, Exists
<1>2. OnlyPolled'
    <2>1. \A op \in DOMAIN lane' : op.source \in Sources /\ polled'[op.source].enabled
        BY OperationsAreEnabled DEF Begin
    <2>2. Len(Enrichers) \in Nat /\ enricher' = 1 /\ failed' = {}
        BY CollectionAssumption DEF Begin, NoPapers
    <2> QED
        BY <2>1, <2>2 DEF OnlyPolled
<1>3. RecordedAreTold'
    BY CollectionAssumption DEF Begin, RecordedAreTold
<1> QED
    BY <1>1, <1>2, <1>3 DEF CollectionInv

\* What is collected is not recorded yet.
LEMMA CollectingKeeps ==
    ASSUME CollectionInv, UNCHANGED <<table, polled, recorded>>, OnlyPolled',
           phase = "collecting", phase' \in {"collecting", "thrown"}
    PROVE  CollectionInv'
<1>1. RowsStay'
    BY DEF CollectionInv, RowsStay, table, IsCatalog, Exists
<1>2. RecordedAreTold'
    BY DEF CollectionInv, RecordedAreTold
<1> QED
    BY <1>1, <1>2 DEF CollectionInv

LEMMA LanesKeep ==
    ASSUME CollectionInv, InLane, DOMAIN lane' = DOMAIN lane
    PROVE  CollectionInv'
<1>1. OnlyPolled'
    BY DEF CollectionInv, InLane, OnlyPolled, papers
<1> QED
    BY <1>1, CollectingKeeps DEF InLane

LEMMA EnrichKeeps == CollectionInv /\ Enrich => CollectionInv'
<1> SUFFICES ASSUME CollectionInv, Enrich PROVE CollectionInv'
    OBVIOUS
<1>1. PICK next \in Upcoming :
          /\ enricher' = next + 1
          /\ failed' = failed \/ \E k \in Kinds : failed' = failed \cup {<<Enrichers[next], k>>}
    BY DEF Enrich
<1>2. next \in 1 .. Len(Enrichers) /\ polled[Enrichers[next]].enabled
    BY CollectionAssumption DEF Upcoming, Enriching, CollectionInv, OnlyPolled
<1>3. Enrichers[next] \in Sources
    BY <1>2, CollectionAssumption
<1>4. \A f \in failed' : f[1] \in Sources /\ polled[f[1]].enabled
    BY <1>1, <1>2, <1>3 DEF CollectionInv, OnlyPolled
<1>5. enricher' \in 1 .. Len(Enrichers) + 1
    BY <1>1, <1>2, CollectionAssumption
<1>6. OnlyPolled'
    BY <1>4, <1>5 DEF CollectionInv, OnlyPolled, Enrich, InResearch
<1> QED
    BY <1>6, CollectingKeeps DEF Enrich, InResearch

LEMMA ResearchKeeps == CollectionInv /\ (Merge \/ Prepare) => CollectionInv'
<1> SUFFICES ASSUME CollectionInv, Merge \/ Prepare PROVE CollectionInv'
    OBVIOUS
<1>1. OnlyPolled'
    BY DEF CollectionInv, OnlyPolled, Merge, Prepare, InResearch
<1>2. phase = "collecting" /\ phase' \in {"collecting", "thrown"} /\ UNCHANGED <<table, polled, recorded>>
    BY DEF Merge, Prepare, InResearch
<1> QED
    BY <1>1, <1>2, CollectingKeeps

\* The steps that end the collection.
LEMMA EndKeeps ==
    CollectionInv /\ (Settled \/ SaveCollectionSourceFailures \/ Fail) => CollectionInv'
<1> SUFFICES ASSUME CollectionInv, Settled \/ SaveCollectionSourceFailures \/ Fail
             PROVE  CollectionInv'
    OBVIOUS
<1>1. CASE Settled
    <2>1. RowsStay' /\ OnlyPolled'
        BY <1>1 DEF CollectionInv, RowsStay, OnlyPolled, Settled, table, papers, IsCatalog, Exists
    <2>2. RecordedAreTold'
        BY <1>1 DEF CollectionInv, RecordedAreTold, Settled
    <2> QED
        BY <2>1, <2>2 DEF CollectionInv
<1>2. CASE SaveCollectionSourceFailures
    <2>1. RowsStay' /\ OnlyPolled'
        BY <1>2 DEF CollectionInv, RowsStay, OnlyPolled, SaveCollectionSourceFailures, table,
                    papers, IsCatalog, Exists
    <2>2. \A s : Told(s) => Told(s)'
        BY <1>2, ToldStays DEF SaveCollectionSourceFailures, table, papers
    <2>3. RecordedAreTold'
        BY <1>2, <2>2 DEF CollectionInv, RecordedAreTold, SaveCollectionSourceFailures
    <2> QED
        BY <2>1, <2>3 DEF CollectionInv
<1>3. CASE Fail
    <2>1. RowsStay'
        BY <1>3 DEF CollectionInv, RowsStay, Fail, table, IsCatalog, Exists
    <2>2. Len(Enrichers) \in Nat /\ Len(ByName) \in Nat
        BY CollectionAssumption
    <2>3. OnlyPolled' /\ RecordedAreTold'
        BY <1>3, <2>2 DEF OnlyPolled, RecordedAreTold, Fail, NoPapers
    <2> QED
        BY <2>1, <2>3 DEF CollectionInv
<1> QED
    BY <1>1, <1>2, <1>3

----------------------------------------------------------------------------
\* The steps that write a row.

LEMMA RecordKeeps == CollectionInv /\ RecordSourceOutcome => CollectionInv'
<1> SUFFICES ASSUME CollectionInv, RecordSourceOutcome PROVE CollectionInv'
    OBVIOUS
<1>1. PICK n \in 1 .. Len(ByName), s \in Sources :
          /\ n = recorded + 1 /\ recorded' = n /\ s = ByName[n]
          /\ phase = "recording" /\ phase' = "recording"
    <2>1. recorded \in 0 .. Len(ByName) /\ recorded < Len(ByName) /\ Len(ByName) \in Nat
        BY CollectionAssumption DEF CollectionInv, RecordedAreTold, RecordSourceOutcome
    <2> QED
        BY <2>1, CollectionAssumption DEF RecordSourceOutcome
<1>2. UNCHANGED <<editing, attempt, polled, lane, candidates, enricher, failed>>
    BY DEF RecordSourceOutcome, papers
<1>3. OnlyPolled'
    BY <1>2 DEF CollectionInv, OnlyPolled
<1>4. CASE catalog' = catalog /\ (polled[s].url = "none" \/ Outcome(s) = "none")
    <2>1. RowsStay'
        BY <1>2, <1>4 DEF CollectionInv, RowsStay, IsCatalog, Exists
    <2>2. s \in PublicIds => Told(s)
        <3>1. (\E f \in Failures : f[1] = s) \/ s \in Succeeded => polled[s].url # "none"
            BY HeardOfExist DEF CollectionInv
        <3> QED
            BY <3>1, <1>4, OutcomeTells DEF Told
    <2>3. \A t : Told(t) => Told(t)'
        BY <1>2, <1>4, ToldStays
    <2>4. RecordedAreTold'
        BY <1>1, <2>2, <2>3 DEF CollectionInv, RecordedAreTold
    <2> QED
        BY <1>3, <2>1, <2>4 DEF CollectionInv
<1>5. CASE /\ polled[s].url # "none"
           /\ catalog' = [catalog EXCEPT ![s] = OutcomeRow(s, Outcome(s))]
    <2>1. Exists(s) /\ IsRow(catalog[s])
        BY <1>1, <1>5 DEF CollectionInv, RowsStay, IsCatalog, Exists, NoRow
    <2>2. /\ DOMAIN catalog' = Sources /\ catalog'[s] = OutcomeRow(s, Outcome(s))
          /\ \A t \in Sources \ {s} : catalog'[t] = catalog[t]
        BY <1>1, <1>5 DEF CollectionInv, RowsStay, IsCatalog
    <2>3. IsRow(catalog'[s])
        BY <1>1, <2>1, <2>2, OutcomeRowFacts
    <2>4. RowsStay'
        <3>1. IsCatalog(catalog')
            BY <2>2, <2>3 DEF CollectionInv, RowsStay, IsCatalog
        <3>2. \A t \in Sources : Exists(t) => Exists(t)'
            BY <2>2, <2>3 DEF Exists, IsRow
        <3> QED
            BY <1>2, <3>1, <3>2 DEF CollectionInv, RowsStay
    <2>5. s \in PublicIds => Told(s)'
        <3>1. Failures' = Failures /\ Succeeded' = Succeeded
            BY <1>2 DEF Failures, Succeeded, Open, Active, Enriching
        <3> QED
            BY <1>1, <1>2, <2>1, <2>2, <3>1, OutcomeRowFacts, OutcomeTells DEF Told
    <2>6. \A t \in Sources \ {s} : Told(t) => Told(t)'
        BY <1>2, <2>2, ToldStays
    <2>7. \A i \in 1 .. recorded : ByName[i] \in PublicIds => Told(ByName[i])'
        <3>1. \A i \in 1 .. recorded : ByName[i] \in Sources
            BY <1>1, CollectionAssumption DEF CollectionInv, RecordedAreTold
        <3> QED
            BY <1>1, <2>5, <2>6, <3>1 DEF CollectionInv, RecordedAreTold
    <2>8. RecordedAreTold'
        BY <1>1, <2>5, <2>7 DEF CollectionInv, RecordedAreTold
    <2> QED
        BY <1>3, <2>4, <2>8 DEF CollectionInv
<1> QED
    BY <1>1, <1>4, <1>5 DEF RecordSourceOutcome

(* Another row, or the same with what is measured: what has been recorded    *)
(* stays true.                                                               *)
LEMMA EditKeeps ==
    ASSUME CollectionInv, InTable, RowsStay',
           \A s \in Sources : Exists(s) => /\ catalog'[s].health = catalog[s].health
                                           /\ catalog'[s].success = catalog[s].success
    PROVE  CollectionInv'
<1>1. OnlyPolled'
    BY DEF CollectionInv, OnlyPolled, InTable, papers
<1>2. \A s : Told(s) => Told(s)'
    <2> SUFFICES ASSUME NEW s, Told(s) PROVE Told(s)'
        OBVIOUS
    <2>1. CASE (\E f \in Failures : f[1] = s) \/ s \in Succeeded
        <3>1. s \in Sources /\ Exists(s)
            BY <2>1, HeardOfExist DEF CollectionInv
        <3> QED
            BY <3>1, ToldStays DEF InTable, papers
    <2>2. CASE ~((\E f \in Failures : f[1] = s) \/ s \in Succeeded)
        <3>1. Failures' = Failures /\ Succeeded' = Succeeded
            BY DEF Failures, Succeeded, Open, Active, Enriching, InTable, papers
        <3> QED
            BY <2>2, <3>1 DEF Told
    <2> QED
        BY <2>1, <2>2
<1>3. RecordedAreTold'
    BY <1>2 DEF CollectionInv, RecordedAreTold, InTable
<1> QED
    BY <1>1, <1>3 DEF CollectionInv

LEMMA CreateKeeps == CollectionInv /\ CreateSource => CollectionInv'
<1> SUFFICES ASSUME CollectionInv, CreateSource PROVE CollectionInv'
    OBVIOUS
<1>1. PICK new \in Sent : /\ ~Exists(new.id)
                          /\ catalog' = [catalog EXCEPT ![new.id] = new.row]
    BY DEF CreateSource
<1>2. new.id \in Sources /\ IsRow(new.row)
    BY RowsAssumption
<1>3. /\ DOMAIN catalog' = Sources /\ catalog'[new.id] = new.row
      /\ \A s \in Sources \ {new.id} : catalog'[s] = catalog[s]
    BY <1>1, <1>2 DEF CollectionInv, RowsStay, IsCatalog
<1>4. \A s \in Sources : Exists(s) => Exists(s)' /\ catalog'[s] = catalog[s]
    BY <1>1, <1>3 DEF Exists
<1>5. RowsStay'
    <2>1. IsCatalog(catalog')
        BY <1>2, <1>3 DEF CollectionInv, RowsStay, IsCatalog
    <2>2. UNCHANGED <<polled, editing>>
        BY DEF CreateSource, InTable
    <2> QED
        BY <2>1, <2>2, <1>4 DEF CollectionInv, RowsStay
<1> QED
    BY <1>4, <1>5, EditKeeps DEF CreateSource

\* What is merged into the row that was read is a row.
LEMMA ReadKeeps == CollectionInv /\ ReadRow => CollectionInv'
<1> SUFFICES ASSUME CollectionInv, ReadRow PROVE CollectionInv'
    OBVIOUS
<1> DEFINE Row(c) == [f \in DOMAIN catalog[c.source] |->
                 IF f \in DOMAIN c.fields THEN c.fields[f] ELSE catalog[c.source][f]]
<1>1. PICK c \in Changes : /\ Exists(c.source)
                           /\ editing' = editing \cup {[source |-> c.source, row |-> Row(c)]}
    BY DEF ReadRow
<1>2. /\ c.source \in Sources /\ DOMAIN c.fields \subseteq Columns \ Measured
      /\ "url" \in DOMAIN c.fields => c.fields["url"] # "none"
    BY RowsAssumption
<1>3. IsRow(catalog[c.source])
    BY <1>1, <1>2 DEF CollectionInv, RowsStay, IsCatalog, Exists, NoRow
<1>4. IsRow(Row(c))
    <2>1. DOMAIN Row(c) = Columns
        BY <1>3 DEF IsRow
    <2>2. Row(c).url # "none"
        BY <1>2, <1>3 DEF IsRow, Columns
    <2> QED
        BY <2>1, <2>2 DEF IsRow
<1>5. UNCHANGED <<catalog, polled>>
    BY DEF ReadRow, InTable
<1> HIDE DEF Row
<1>6. RowsStay'
    BY <1>1, <1>2, <1>4, <1>5 DEF CollectionInv, RowsStay, IsCatalog, Exists
<1> QED
    BY <1>5, <1>6, EditKeeps DEF ReadRow

\* updateSource writes what it has read, but for what is measured.
LEMMA WriteKeeps == CollectionInv /\ WriteRow => CollectionInv'
<1> SUFFICES ASSUME CollectionInv, WriteRow PROVE CollectionInv'
    OBVIOUS
<1>1. PICK e \in editing :
          /\ editing' = editing \ {e}
          /\ \/ catalog' = catalog
             \/ catalog' = [catalog EXCEPT ![e.source] = UpdatedRow(e.source, e.row)]
    BY DEF WriteRow
<1>2. polled' = polled
    BY DEF WriteRow, InTable
<1>3. CASE catalog' = catalog
    <2>1. RowsStay'
        BY <1>1, <1>2, <1>3 DEF CollectionInv, RowsStay, IsCatalog, Exists
    <2> QED
        BY <1>3, <2>1, EditKeeps DEF WriteRow
<1>4. CASE catalog' = [catalog EXCEPT ![e.source] = UpdatedRow(e.source, e.row)]
    <2>1. e.source \in Sources /\ IsRow(e.row)
        BY DEF CollectionInv, RowsStay
    <2>2. /\ DOMAIN catalog' = Sources /\ catalog'[e.source] = UpdatedRow(e.source, e.row)
          /\ \A s \in Sources \ {e.source} : catalog'[s] = catalog[s]
        BY <1>4, <2>1 DEF CollectionInv, RowsStay, IsCatalog
    <2>3. /\ IsRow(catalog'[e.source])
          /\ catalog'[e.source].health = catalog[e.source].health
          /\ catalog'[e.source].success = catalog[e.source].success
        BY <2>1, <2>2, UpdatedRowFacts
    <2>4. RowsStay'
        <3>1. IsCatalog(catalog')
            BY <2>2, <2>3 DEF CollectionInv, RowsStay, IsCatalog
        <3>2. \A s \in Sources : Exists(s) => Exists(s)'
            BY <2>2, <2>3 DEF Exists, IsRow
        <3> QED
            BY <1>1, <1>2, <3>1, <3>2 DEF CollectionInv, RowsStay
    <2> QED
        BY <2>2, <2>3, <2>4, EditKeeps DEF WriteRow
<1> QED
    BY <1>1, <1>3, <1>4

LEMMA StutterKeeps == CollectionInv /\ UNCHANGED vars => CollectionInv'
<1> SUFFICES ASSUME CollectionInv, UNCHANGED vars PROVE CollectionInv'
    OBVIOUS
<1>1. RowsStay' /\ OnlyPolled'
    BY DEF CollectionInv, RowsStay, OnlyPolled, vars, table, papers, IsCatalog, Exists
<1>2. \A s : Told(s) => Told(s)'
    BY ToldStays DEF vars, table, papers
<1>3. RecordedAreTold'
    BY <1>2 DEF CollectionInv, RecordedAreTold, vars
<1> QED
    BY <1>1, <1>3 DEF CollectionInv

LEMMA NextKeeps == CollectionInv /\ [Next]_vars => CollectionInv'
<1> SUFFICES ASSUME CollectionInv, [Next]_vars PROVE CollectionInv'
    OBVIOUS
<1>1. CASE StartLane \/ SettleLane \/ ReadArticles
    <2>1. InLane /\ DOMAIN lane' = DOMAIN lane
        BY <1>1 DEF StartLane, SettleLane, ReadArticles
    <2> QED
        BY <2>1, LanesKeep
<1> QED
    BY <1>1, BeginKeeps, EnrichKeeps, ResearchKeeps, EndKeeps, RecordKeeps, CreateKeeps,
       ReadKeeps, WriteKeeps, StutterKeeps DEF Next

----------------------------------------------------------------------------
(* The rows keep their shape, and those of what was polled stay, whatever    *)
(* collections and edits there are.                                          *)
THEOREM CollectionTypeCorrect == Spec => []CollectionInv
    BY InitCollection, NextKeeps, PTL DEF Spec

(* When collectCandidates is done, the row of every source it has polled     *)
(* tells what became of it, whatever an administrator wrote in between.      *)
THEOREM CollectionTellsTheTruth == Spec => []SourcesTellTheTruth
<1>1. CollectionInv => SourcesTellTheTruth
    <2> SUFFICES ASSUME CollectionInv, phase = "done", NEW s \in PublicIds
                 PROVE  Told(s)
        BY DEF SourcesTellTheTruth, Told
    <2>1. PICK i \in 1 .. Len(ByName) : ByName[i] = s
        BY CollectionAssumption DEF Sources
    <2> QED
        BY <2>1 DEF CollectionInv, RecordedAreTold
<1> QED
    BY <1>1, CollectionTypeCorrect, PTL

(* No collection enables what an administrator has disabled: only an update  *)
(* that had read the row before does.                                        *)
THEOREM CollectionLeavesDisabled == Spec => DisabledStaysDisabled
<1> DEFINE Stays(s) == Exists(s) /\ ~catalog[s].enabled /\ catalog'[s].enabled =>
                           \E e \in editing : e.source = s /\ e.row.enabled
<1>1. CollectionInv /\ [Next]_vars => \A s \in Sources : Stays(s)
    <2> SUFFICES ASSUME CollectionInv, [Next]_vars, NEW s \in Sources, Exists(s),
                        ~catalog[s].enabled, catalog'[s].enabled
                 PROVE  \E e \in editing : e.source = s /\ e.row.enabled
        OBVIOUS
    <2>1. IsRow(catalog[s]) /\ DOMAIN catalog = Sources
        BY DEF CollectionInv, RowsStay, IsCatalog, Exists, NoRow
    <2>2. CASE UNCHANGED catalog
        BY <2>2
    <2>3. CASE RecordSourceOutcome
        <3>1. PICK t, o : catalog' = catalog \/ catalog' = [catalog EXCEPT ![t] = OutcomeRow(t, o)]
            BY <2>3 DEF RecordSourceOutcome
        <3> QED
            BY <2>1, <3>1, OutcomeRowFacts
    <2>4. CASE CreateSource
        <3>1. PICK new \in Sent : /\ ~Exists(new.id)
                                  /\ catalog' = [catalog EXCEPT ![new.id] = new.row]
            BY <2>4 DEF CreateSource
        <3> QED
            BY <2>1, <3>1
    <2>5. CASE WriteRow
        <3>1. PICK e \in editing :
                  \/ catalog' = catalog
                  \/ catalog' = [catalog EXCEPT ![e.source] = UpdatedRow(e.source, e.row)]
            BY <2>5 DEF WriteRow
        <3>2. IsRow(e.row)
            BY DEF CollectionInv, RowsStay
        <3>3. e.source = s /\ UpdatedRow(e.source, e.row).enabled
            BY <2>1, <3>1
        <3> QED
            BY <3>2, <3>3, UpdatedRowFacts
    <2>6. CASE StartLane \/ SettleLane \/ ReadArticles
        BY <2>6, <2>2 DEF StartLane, SettleLane, ReadArticles, InLane, table
    <2>7. CASE Merge \/ Enrich \/ Prepare
        BY <2>7, <2>2 DEF Merge, Enrich, Prepare, InResearch, table
    <2>8. CASE \/ Begin \/ Settled \/ SaveCollectionSourceFailures \/ Fail \/ ReadRow
               \/ UNCHANGED vars
        BY <2>8, <2>2 DEF Begin, Settled, SaveCollectionSourceFailures, Fail, ReadRow, table, vars
    <2> QED
        BY <2>3, <2>4, <2>5, <2>6, <2>7, <2>8 DEF Next
<1>2. Spec => [][\A s \in Sources : Stays(s)]_vars
    BY <1>1, CollectionTypeCorrect, PTL DEF Spec
<1> QED
    BY <1>2 DEF DisabledStaysDisabled

----------------------------------------------------------------------------
\* The least of a set of numbers, for the steps of the merge.
LEMMA Least ==
    ASSUME NEW S, S \subseteq Nat, S # {}
    PROVE  \E m \in S : \A k \in S : m <= k
<1> DEFINE R == {ss \in Nat \X Nat : ss[1] < ss[2]}
<1>1. IsWellFoundedOn(R, Nat)
    BY NatLessThanWellFounded, Zenon DEF OpToRel
<1> HIDE DEF R
<1>2. PICK m \in S : \A k \in S : <<k, m>> \notin R
    BY <1>1, WFMin, Zenon
<1>3. \A k \in S : ~(k < m)
    BY <1>2 DEF R
<1> QED
    BY <1>3

----------------------------------------------------------------------------
\* One paper.

Fields == {"id", "arxiv", "doi", "own", "names", "title", "source", "lanes", "enriched"}
AtMostOne(S) == \A x, y \in S : x = y
IsPaper(c) == c = [f \in Fields |-> c[f]] /\ AtMostOne(c.arxiv)
Covers(c, x) ==
    /\ c.source = x.source /\ x.lanes \subseteq c.lanes
    /\ x.arxiv \subseteq c.arxiv /\ x.doi \subseteq c.doi /\ x.own \subseteq c.own

\* What two papers are merged to.
LEMMA MergedFacts ==
    ASSUME NEW p, NEW q, IsPaper(p)
    PROVE  LET c == Merged(p, q)
           IN  /\ c = [f \in Fields |-> c[f]] /\ c.source = p.source
               /\ c.arxiv = p.arxiv \cup q.arxiv /\ c.doi = p.doi \cup q.doi
               /\ c.own = p.own \cup q.own /\ c.lanes = p.lanes \cup q.lanes
BY DEF Merged, IsPaper, Fields

\* Two that are the same paper are one, with what each of them had.
LEMMA SamePaperMerges ==
    ASSUME NEW p, NEW q, IsPaper(p), IsPaper(q), SamePaper(p, q), p.source = q.source
    PROVE  /\ IsPaper(Merged(p, q)) /\ Merged(p, q).source = p.source
           /\ Covers(Merged(p, q), p) /\ Covers(Merged(p, q), q)
<1>1. AtMostOne(p.arxiv \cup q.arxiv)
    BY DEF IsPaper, AtMostOne, SamePaper
<1> DEFINE c == Merged(p, q)
<1>2. /\ c = [f \in Fields |-> c[f]] /\ c.source = p.source
      /\ c.arxiv = p.arxiv \cup q.arxiv /\ c.doi = p.doi \cup q.doi
      /\ c.own = p.own \cup q.own /\ c.lanes = p.lanes \cup q.lanes
    BY MergedFacts
<1> HIDE DEF c
<1>3. IsPaper(c)
    BY <1>1, <1>2 DEF IsPaper
<1>4. Covers(c, p) /\ Covers(c, q)
    BY <1>2 DEF Covers
<1> QED
    BY <1>2, <1>3, <1>4 DEF c

LEMMA CoversTrans ==
    ASSUME NEW a, NEW b, NEW c, Covers(a, b), Covers(b, c)
    PROVE  Covers(a, c)
BY DEF Covers

LEMMA CoversSelf == ASSUME NEW a PROVE Covers(a, a)
BY DEF Covers

----------------------------------------------------------------------------
\* The others that an item takes, from the last to the first.

IsTaking(f, merged, matches, base, low, n) ==
    f = [i \in low .. n |-> IF i = n THEN [rep |-> base, gone |-> {}]
            ELSE IF i \in matches THEN Taken(f[i + 1], merged[i], i) ELSE f[i + 1]]

\* The recursion of the merge has its function.
LEMMA TakingExists ==
    ASSUME NEW merged, NEW matches, NEW base, NEW n \in Int, NEW m \in Nat
    PROVE  \E f : IsTaking(f, merged, matches, base, n - m, n)
<1> DEFINE none == [rep |-> base, gone |-> {}]
<1> HIDE DEF none
<1> DEFINE Eq(f, k) == f = [i \in n - k .. n |-> IF i = n THEN none
                        ELSE IF i \in matches THEN Taken(f[i + 1], merged[i], i) ELSE f[i + 1]]
           Bad == {k \in Nat : ~\E f : Eq(f, k)}
<1>1. SUFFICES ASSUME Bad # {} PROVE FALSE
    BY DEF IsTaking, none
<1>2. PICK k \in Bad : \A j \in Bad : k <= j
    BY <1>1, Least
<1>3. CASE k = 0
    <2> DEFINE f == [i \in n .. n |-> none]
    <2>1. Eq(f, 0)
        OBVIOUS
    <2> QED
        BY <1>2, <1>3, <2>1
<1>4. CASE k # 0
    <2>1. k - 1 \in Nat /\ k - 1 \notin Bad
        <3> HIDE DEF Eq
        <3>1. k \in Nat
            BY <1>2
        <3>2. k - 1 \in Nat /\ ~(k <= k - 1)
            BY <1>4, <3>1
        <3> HIDE DEF Bad
        <3> QED
            BY <1>2, <3>2
    <2>2. PICK g : Eq(g, k - 1)
        BY <2>1
    <2> DEFINE low == n - k
               new == IF low \in matches THEN Taken(g[low + 1], merged[low], low) ELSE g[low + 1]
               f == [i \in n - k .. n |-> IF i = low THEN new ELSE g[i]]
    <2>3. \A i \in n - k .. n : i # low => i \in n - (k - 1) .. n
        BY <2>1
    <2>4. \A i \in n - (k - 1) .. n : i \in n - k .. n /\ i # low /\ f[i] = g[i]
        BY <2>1
    <2>5. low # n /\ low + 1 \in n - (k - 1) .. n
        BY <2>1, <1>4
    <2>6. ASSUME NEW i \in n - k .. n
          PROVE  f[i] = IF i = n THEN none
                        ELSE IF i \in matches THEN Taken(f[i + 1], merged[i], i) ELSE f[i + 1]
        <3>1. CASE i = low
            <4>1. f[i] = new /\ f[i + 1] = g[low + 1]
                BY <2>4, <2>5, <3>1
            <4> QED
                BY <2>5, <3>1, <4>1
        <3>2. CASE i # low
            <4>1. i \in n - (k - 1) .. n /\ f[i] = g[i]
                BY <2>3, <2>4, <3>2
            <4>2. g[i] = IF i = n THEN none
                         ELSE IF i \in matches THEN Taken(g[i + 1], merged[i], i) ELSE g[i + 1]
                BY <2>2, <4>1
            <4>3. i # n => i + 1 \in n - (k - 1) .. n
                BY <4>1, <2>1
            <4>4. i # n => f[i + 1] = g[i + 1]
                BY <2>4, <4>3
            <4> QED
                BY <4>1, <4>2, <4>4
        <3> QED
            BY <3>1, <3>2
    <2>7. Eq(f, k)
        BY <2>6
    <2> QED
        BY <1>2, <2>7
<1> QED
    BY <1>3, <1>4

(* What has been taken when the places from i on have been looked at: the    *)
(* representative is one paper and covers all that is gone.                  *)
Holds(acc, merged, base, i, n) ==
    /\ IsPaper(acc.rep) /\ acc.rep.source = base.source /\ Covers(acc.rep, base)
    /\ acc.gone \subseteq DOMAIN merged /\ acc.gone \subseteq i .. n
    /\ \A g \in acc.gone : Covers(acc.rep, merged[g])

\* Whether the next is taken or not, all that is gone stays covered.
LEMMA TakenHolds ==
    ASSUME NEW merged, NEW base, NEW i \in Int, NEW n \in Int, NEW acc, i < n,
           Holds(acc, merged, base, i + 1, n),
           i \in DOMAIN merged, IsPaper(merged[i]), merged[i].source = base.source
    PROVE  Holds(Taken(acc, merged[i], i), merged, base, i, n)
<1>1. CASE ~Join(acc.rep, merged[i])
    BY <1>1 DEF Taken, Holds
<1>2. CASE Join(acc.rep, merged[i])
    <2> DEFINE c == Merged(acc.rep, merged[i])
               r == Taken(acc, merged[i], i)
    <2>1. r.rep = c /\ r.gone = acc.gone \cup {i}
        BY <1>2 DEF Taken
    <2>2. SamePaper(acc.rep, merged[i])
        BY <1>2 DEF Join
    <2>3. IsPaper(c) /\ c.source = acc.rep.source /\ Covers(c, acc.rep) /\ Covers(c, merged[i])
        BY <2>2, SamePaperMerges DEF Holds
    <2> HIDE DEF c
    <2>4. Covers(c, base) /\ \A g \in acc.gone : Covers(c, merged[g])
        BY <2>3, CoversTrans DEF Holds
    <2> HIDE DEF r
    <2>5. r.gone \subseteq DOMAIN merged /\ r.gone \subseteq i .. n
        BY <2>1 DEF Holds
    <2>6. Holds(r, merged, base, i, n)
        BY <2>1, <2>3, <2>4, <2>5 DEF Holds
    <2> QED
        BY <2>6 DEF r
<1> QED
    BY <1>1, <1>2

\* All that is gone when every other place has been looked at is covered.
LEMMA TakingHolds ==
    ASSUME NEW merged, NEW matches, matches \subseteq DOMAIN merged, NEW base, IsPaper(base),
           NEW n \in Int, NEW low \in Int, low <= n,
           \A i \in DOMAIN merged : IsPaper(merged[i]) /\ merged[i].source = base.source,
           NEW f, IsTaking(f, merged, matches, base, low, n)
    PROVE  Holds(f[low], merged, base, low, n)
<1> DEFINE Bad == {k \in Nat : n - k >= low /\ ~Holds(f[n - k], merged, base, n - k, n)}
<1> SUFFICES ASSUME ~Holds(f[low], merged, base, low, n) PROVE FALSE
    OBVIOUS
<1>1. Bad # {}
    <2>1. n - low \in Nat /\ n - (n - low) = low
        OBVIOUS
    <2>2. n - low \in Bad
        BY <2>1
    <2> QED
        BY <2>2
<1>2. PICK k \in Bad : \A j \in Bad : k <= j
    BY <1>1, Least
<1>3. k \in Nat /\ n - k \in low .. n /\ ~Holds(f[n - k], merged, base, n - k, n)
    BY <1>2
<1>4. CASE k = 0
    <2>1. f[n] = [rep |-> base, gone |-> {}] /\ n - k = n
        BY <1>3, <1>4 DEF IsTaking
    <2>2. Holds(f[n], merged, base, n, n)
        BY <2>1, CoversSelf DEF Holds
    <2> QED
        BY <1>3, <2>1, <2>2
<1>5. CASE k # 0
    <2> DEFINE i == n - k
    <2>1. k - 1 \in Nat /\ n - (k - 1) = i + 1 /\ i + 1 >= low /\ i < n /\ i \in Int
        BY <1>3, <1>5
    <2>2. k - 1 \notin Bad
        <3>1. ~(k <= k - 1)
            BY <1>3
        <3> HIDE DEF Bad
        <3> QED
            BY <1>2, <3>1
    <2>3. Holds(f[i + 1], merged, base, i + 1, n)
        BY <2>1, <2>2
    <2>4. f[i] = IF i \in matches THEN Taken(f[i + 1], merged[i], i) ELSE f[i + 1]
        <3>1. \A j \in low .. n : f[j] = IF j = n THEN [rep |-> base, gone |-> {}]
                  ELSE IF j \in matches THEN Taken(f[j + 1], merged[j], j) ELSE f[j + 1]
            BY DEF IsTaking
        <3>2. i \in low .. n /\ i # n
            BY <1>3, <2>1
        <3> HIDE DEF i
        <3> QED
            BY <3>1, <3>2
    <2> HIDE DEF i
    <2>5. Holds(f[i], merged, base, i, n)
        <3>1. CASE i \in matches
            BY <2>1, <2>3, <2>4, <3>1, TakenHolds
        <3>2. CASE i \notin matches
            <4>1. i + 1 .. n \subseteq i .. n
                BY <2>1
            <4> QED
                BY <2>3, <2>4, <3>2, <4>1 DEF Holds
        <3> QED
            BY <3>1, <3>2
    <2> QED
        BY <1>3, <2>5 DEF i
<1> QED
    BY <1>4, <1>5

----------------------------------------------------------------------------
\* One more item is merged.

Merging(m, n, s) ==
    /\ DOMAIN m \subseteq 1 .. n
    /\ \A i \in DOMAIN m : IsPaper(m[i]) /\ m[i].source = s

\* An item and what was there before it are covered by what is there then.
LEMMA MergeIntoKeeps ==
    ASSUME NEW m, NEW n \in Nat \ {0}, NEW s, Merging(m, n - 1, s),
           NEW item, IsPaper(item), item.source = s
    PROVE  LET r == MergeInto(m, n, item)
           IN  /\ Merging(r, n, s)
               /\ \E i \in DOMAIN r : Covers(r[i], item)
               /\ \A j \in DOMAIN m : \E i \in DOMAIN r : Covers(r[i], m[j])
<1> DEFINE matches == {i \in DOMAIN m : SamePaper(m[i], item)}
           first   == CHOOSE i \in matches : \A j \in matches : i <= j
           base    == Merged(m[first], item)
           taking  == CHOOSE f : f = [i \in first + 1 .. n |->
                          IF i = n THEN [rep |-> base, gone |-> {}]
                          ELSE IF i \in matches THEN Taken(f[i + 1], m[i], i) ELSE f[i + 1]]
           all     == taking[first + 1]
           r       == MergeInto(m, n, item)
           Good    == /\ Merging(r, n, s)
                      /\ \E i \in DOMAIN r : Covers(r[i], item)
                      /\ \A j \in DOMAIN m : \E i \in DOMAIN r : Covers(r[i], m[j])
<1> SUFFICES Good
    OBVIOUS
<1>1. r = IF matches = {} THEN [i \in DOMAIN m \cup {n} |-> IF i = n THEN item ELSE m[i]]
          ELSE [i \in DOMAIN m \ all.gone |-> IF i = first THEN all.rep ELSE m[i]]
    BY DEF MergeInto
<1>2. DOMAIN m \subseteq 1 .. n /\ n \notin DOMAIN m
    BY DEF Merging
<1> HIDE DEF r, all
<1>3. ASSUME matches = {} PROVE Good
    <2>1. r = [i \in DOMAIN m \cup {n} |-> IF i = n THEN item ELSE m[i]]
        BY <1>1, <1>3
    <2>2. \A j \in DOMAIN m : j \in DOMAIN r /\ r[j] = m[j]
        BY <1>2, <2>1
    <2>3. n \in DOMAIN r /\ r[n] = item
        BY <2>1
    <2>4. Merging(r, n, s)
        BY <1>2, <2>1, <2>2, <2>3 DEF Merging
    <2> QED
        BY <2>2, <2>3, <2>4, CoversSelf
<1>4. ASSUME matches # {} PROVE Good
    <2>1. first \in matches /\ first \in Int /\ 1 <= first /\ first + 1 <= n
        <3>1. matches \subseteq Nat
            BY <1>2
        <3>2. \E i \in matches : \A j \in matches : i <= j
            BY <1>4, <3>1, Least
        <3>3. first \in matches
            BY <3>2
        <3> HIDE DEF first
        <3> QED
            BY <3>3, <1>2
    <2>2. IsPaper(m[first]) /\ m[first].source = s /\ SamePaper(m[first], item) /\ first \in DOMAIN m
        BY <2>1 DEF Merging
    <2>3. IsPaper(base) /\ base.source = s /\ Covers(base, m[first]) /\ Covers(base, item)
        BY <2>2, SamePaperMerges
    <2> HIDE DEF first, base
    <2>4. IsTaking(taking, m, matches, base, first + 1, n)
        <3>1. n - (first + 1) \in Nat /\ n - (n - (first + 1)) = first + 1
            BY <2>1
        <3> DEFINE k == n - (first + 1)
        <3> HIDE DEF matches, taking, k, Good
        <3>2. \E f : IsTaking(f, m, matches, base, n - k, n)
            <4>1. k \in Nat /\ n \in Int
                BY <3>1 DEF k
            <4> QED
                BY <4>1, TakingExists
        <3>3. \E f : IsTaking(f, m, matches, base, first + 1, n)
            BY <3>1, <3>2 DEF k
        <3> QED
            BY <3>3 DEF IsTaking, taking
    <2> HIDE DEF taking
    <2>5. Holds(all, m, base, first + 1, n)
        <3>1. matches \subseteq DOMAIN m /\ first + 1 \in Int
            BY <2>1
        <3> HIDE DEF matches
        <3> QED
            <4>1. \A i \in DOMAIN m : IsPaper(m[i]) /\ m[i].source = base.source
                BY <2>3 DEF Merging
            <4>2. Holds(taking[first + 1], m, base, first + 1, n)
                <5> DEFINE low == first + 1
                <5>1. low \in Int /\ low <= n /\ n \in Int
                    BY <2>1, <3>1
                <5>2. IsTaking(taking, m, matches, base, low, n)
                    BY <2>4
                <5> HIDE DEF low, Good
                <5>3. Holds(taking[low], m, base, low, n)
                    BY <2>3, <3>1, <4>1, <5>1, <5>2, TakingHolds
                <5> QED
                    BY <5>3 DEF low
            <4> QED
                BY <4>2 DEF all
    <2> HIDE DEF matches
    <2>6. r = [i \in DOMAIN m \ all.gone |-> IF i = first THEN all.rep ELSE m[i]]
        BY <1>1, <1>4
    <2>7. first \in DOMAIN r /\ r[first] = all.rep
        <3>1. first \notin all.gone
            BY <2>1, <2>5 DEF Holds
        <3> QED
            BY <2>2, <2>6, <3>1
    <2>8. /\ IsPaper(all.rep) /\ all.rep.source = s
          /\ Covers(all.rep, item) /\ Covers(all.rep, m[first])
          /\ \A g \in all.gone : Covers(all.rep, m[g])
        BY <2>3, <2>5, CoversTrans DEF Holds
    <2>9. \A j \in DOMAIN m : \E i \in DOMAIN r : Covers(r[i], m[j])
        <3> SUFFICES ASSUME NEW j \in DOMAIN m PROVE \E i \in DOMAIN r : Covers(r[i], m[j])
            OBVIOUS
        <3>1. CASE j \in all.gone \/ j = first
            BY <2>7, <2>8, <3>1
        <3>2. CASE j \notin all.gone /\ j # first
            BY <2>6, <3>2, CoversSelf
        <3> QED
            BY <3>1, <3>2
    <2>10. Merging(r, n, s)
        BY <1>2, <2>6, <2>8 DEF Merging
    <2> QED
        BY <2>7, <2>8, <2>9, <2>10
<1> QED
    BY <1>3, <1>4

----------------------------------------------------------------------------
\* All items are merged, one after the other.

IsMerging(f, items, n) ==
    f = [k \in 0 .. n |-> IF k = 0 THEN <<>> ELSE MergeInto(f[k - 1], k, items[k])]

\* The recursion over the items has its function.
LEMMA MergingExists ==
    ASSUME NEW items, NEW n \in Nat
    PROVE  \E f : IsMerging(f, items, n)
<1> DEFINE Bad == {k \in Nat : ~\E f : IsMerging(f, items, k)}
<1> SUFFICES ASSUME Bad # {} PROVE FALSE
    OBVIOUS
<1>1. PICK k \in Bad : \A j \in Bad : k <= j
    BY Least
<1>2. k \in Nat /\ ~\E f : IsMerging(f, items, k)
    BY <1>1
<1>3. CASE k = 0
    <2> DEFINE f == [i \in 0 .. 0 |-> <<>>]
    <2>1. IsMerging(f, items, 0)
        BY DEF IsMerging
    <2> QED
        BY <1>2, <1>3, <2>1
<1>4. CASE k # 0
    <2>1. k - 1 \in Nat /\ k - 1 \notin Bad
        <3>1. k - 1 \in Nat /\ ~(k <= k - 1)
            BY <1>2, <1>4
        <3> HIDE DEF Bad
        <3> QED
            BY <1>1, <3>1
    <2>2. PICK g : IsMerging(g, items, k - 1)
        BY <2>1
    <2> DEFINE f == [i \in 0 .. k |-> IF i = k THEN MergeInto(g[k - 1], k, items[k]) ELSE g[i]]
    <2>3. \A i \in 0 .. k - 1 : i \in 0 .. k /\ i # k /\ f[i] = g[i]
        BY <1>2, <2>1
    <2>4. ASSUME NEW i \in 0 .. k
          PROVE  f[i] = IF i = 0 THEN <<>> ELSE MergeInto(f[i - 1], i, items[i])
        <3>1. CASE i = k
            <4>1. f[k - 1] = g[k - 1]
                BY <2>1, <2>3
            <4>2. f[i] = MergeInto(g[k - 1], k, items[k])
                BY <3>1
            <4> QED
                BY <1>4, <3>1, <4>1, <4>2
        <3>2. CASE i # k
            <4>1. i \in 0 .. k - 1 /\ f[i] = g[i]
                BY <1>2, <2>3, <3>2
            <4>2. g[i] = IF i = 0 THEN <<>> ELSE MergeInto(g[i - 1], i, items[i])
                BY <2>2, <4>1 DEF IsMerging
            <4>3. i # 0 => i - 1 \in 0 .. k - 1
                BY <4>1, <2>1
            <4>4. i # 0 => f[i - 1] = g[i - 1]
                BY <2>3, <4>3
            <4> QED
                BY <4>1, <4>2, <4>4
        <3> QED
            BY <3>1, <3>2
    <2>5. IsMerging(f, items, k)
        BY <2>4 DEF IsMerging
    <2> QED
        BY <1>2, <2>5
<1> QED
    BY <1>3, <1>4

\* The items up to k are covered by what they have been merged to.
MergedWell(m, items, k, s) ==
    Merging(m, k, s) /\ \A j \in 1 .. k : \E i \in DOMAIN m : Covers(m[i], items[j])

\* After any number of items all of them are covered.
LEMMA MergingMerges ==
    ASSUME NEW items, NEW n \in Nat, NEW s,
           \A j \in 1 .. n : IsPaper(items[j]) /\ items[j].source = s,
           NEW f, IsMerging(f, items, n)
    PROVE  MergedWell(f[n], items, n, s)
<1> DEFINE Bad == {k \in Nat : k <= n /\ ~MergedWell(f[k], items, k, s)}
<1> SUFFICES ASSUME Bad # {} PROVE FALSE
    OBVIOUS
<1>1. PICK k \in Bad : \A j \in Bad : k <= j
    BY Least
<1>2. k \in Nat /\ k \in 0 .. n /\ ~MergedWell(f[k], items, k, s)
    BY <1>1
<1>3. f[k] = IF k = 0 THEN <<>> ELSE MergeInto(f[k - 1], k, items[k])
    BY <1>2 DEF IsMerging
<1>4. CASE k = 0
    <2>1. DOMAIN f[0] = {}
        BY <1>3, <1>4
    <2>2. MergedWell(f[0], items, 0, s)
        BY <2>1 DEF MergedWell, Merging
    <2> QED
        BY <1>2, <1>4, <2>2
<1>5. CASE k # 0
    <2>1. k - 1 \in Nat /\ k - 1 <= n /\ k \in 1 .. n /\ k \in Nat \ {0}
        BY <1>2, <1>5
    <2>2. k - 1 \notin Bad
        <3>1. ~(k <= k - 1)
            BY <1>2
        <3> HIDE DEF Bad
        <3> QED
            BY <1>1, <3>1
    <2>3. MergedWell(f[k - 1], items, k - 1, s)
        BY <2>1, <2>2
    <2> DEFINE m == f[k - 1]
               r == MergeInto(m, k, items[k])
    <2>4. /\ Merging(r, k, s)
          /\ \E i \in DOMAIN r : Covers(r[i], items[k])
          /\ \A j \in DOMAIN m : \E i \in DOMAIN r : Covers(r[i], m[j])
        <3>1. Merging(m, k - 1, s) /\ IsPaper(items[k]) /\ items[k].source = s
            BY <2>1, <2>3 DEF MergedWell
        <3> HIDE DEF m
        <3> QED
            BY <2>1, <3>1, MergeIntoKeeps
    <2>5. f[k] = r
        BY <1>3, <1>5
    <2>6. \A j \in 1 .. k - 1 : \E i \in DOMAIN m : Covers(m[i], items[j])
        BY <2>3 DEF MergedWell
    <2> HIDE DEF m, r
    <2>7. ASSUME NEW j \in 1 .. k PROVE \E i \in DOMAIN r : Covers(r[i], items[j])
        <3>1. CASE j = k
            BY <2>4, <3>1
        <3>2. CASE j # k
            <4>1. PICK i \in DOMAIN m : Covers(m[i], items[j])
                BY <1>2, <2>6, <3>2
            <4>2. PICK h \in DOMAIN r : Covers(r[h], m[i])
                BY <2>4
            <4> QED
                BY <4>1, <4>2, CoversTrans
        <3> QED
            BY <3>1, <3>2
    <2>8. MergedWell(r, items, k, s)
        BY <2>4, <2>7 DEF MergedWell
    <2> QED
        BY <1>2, <2>5, <2>8
<1> QED
    BY <1>4, <1>5

\* No item is lost, and no two sources are mixed.
LEMMA MergePapersKeeps ==
    ASSUME NEW items, Len(items) \in Nat, NEW s,
           \A j \in 1 .. Len(items) : IsPaper(items[j]) /\ items[j].source = s
    PROVE  /\ \A c \in MergePapers(items) : IsPaper(c) /\ c.source = s
           /\ \A j \in 1 .. Len(items) : \E c \in MergePapers(items) : Covers(c, items[j])
<1> DEFINE n == Len(items)
           merging == CHOOSE f : f = [k \in 0 .. n |->
                          IF k = 0 THEN <<>> ELSE MergeInto(f[k - 1], k, items[k])]
           merged == merging[n]
<1>1. MergePapers(items) = {merged[i] : i \in DOMAIN merged}
    BY DEF MergePapers
<1> HIDE DEF merged
<1>2. IsMerging(merging, items, n)
    <2>1. \E f : IsMerging(f, items, n)
        BY MergingExists
    <2> QED
        BY <2>1 DEF IsMerging
<1> HIDE DEF merging, n
<1>3. MergedWell(merged, items, n, s)
    BY <1>2, MergingMerges DEF merged, n
<1> QED
    BY <1>1, <1>3 DEF MergedWell, Merging, n

----------------------------------------------------------------------------
\* The finds of the lanes of a source, one after the other.

LEMMA ImageIsFinite ==
    ASSUME NEW S, IsFiniteSet(S), NEW f, DOMAIN f = S
    PROVE  IsFiniteSet({f[x] : x \in S})
<1> DEFINE T == {f[x] : x \in S}
<1>1. [x \in S |-> f[x]] \in Surjection(S, T)
    BY DEF Surjection
<1> HIDE DEF T
<1>2. IsFiniteSet(T)
    BY <1>1, FS_Surjection
<1> QED
    BY <1>2 DEF T

\* Finds in the order of their lanes.
Ordered(all) ==
    /\ IsFiniteSet(all)
    /\ \A x \in all : x.id \in Nat /\ \E n \in Nat : x.lanes = {n}
    /\ \A x, y \in all : x.lanes = y.lanes /\ x.id = y.id => x = y

\* No two finds of a source have the same place.
LEMMA PlacesDiffer ==
    ASSUME NEW all, Ordered(all)
    PROVE  /\ \A x \in all : Place(x, all) \in 1 .. Cardinality(all)
           /\ \A x, y \in all : Place(x, all) = Place(y, all) => x = y
<1> DEFINE Before(x) == {y \in all : ComesFirst(y, x)}
<1>1. ASSUME NEW x \in all, NEW y \in all, x # y
      PROVE  ComesFirst(x, y) \/ ComesFirst(y, x)
    <2>1. PICK m \in Nat : x.lanes = {m}
        BY DEF Ordered
    <2>2. PICK n \in Nat : y.lanes = {n}
        BY DEF Ordered
    <2>3. x.id \in Nat /\ y.id \in Nat /\ (m # n \/ x.id # y.id)
        BY <1>1, <2>1, <2>2 DEF Ordered
    <2>4. m < n \/ n < m \/ (m = n /\ (x.id < y.id \/ y.id < x.id))
        BY <2>3
    <2> QED
        BY <2>1, <2>2, <2>4 DEF ComesFirst
<1>2. ASSUME NEW x \in all, NEW y \in all, NEW z \in all, ComesFirst(x, y), ComesFirst(y, z)
      PROVE  ComesFirst(x, z)
    <2>1. PICK m \in Nat : x.lanes = {m}
        BY DEF Ordered
    <2>2. PICK n \in Nat : y.lanes = {n}
        BY DEF Ordered
    <2>3. PICK l \in Nat : z.lanes = {l}
        BY DEF Ordered
    <2>4. x.id \in Nat /\ y.id \in Nat /\ z.id \in Nat
        BY DEF Ordered
    <2>5. /\ m < n \/ (m = n /\ x.id < y.id)
          /\ n < l \/ (n = l /\ y.id < z.id)
        BY <1>2, <2>1, <2>2, <2>3 DEF ComesFirst
    <2>6. m < l \/ (m = l /\ x.id < z.id)
        BY <2>4, <2>5
    <2> QED
        BY <2>1, <2>3, <2>6 DEF ComesFirst
<1>3. ASSUME NEW x \in all PROVE ~ComesFirst(x, x)
    <2>1. PICK m \in Nat : x.lanes = {m}
        BY DEF Ordered
    <2>2. x.id \in Nat
        BY DEF Ordered
    <2> QED
        BY <2>1, <2>2 DEF ComesFirst
<1>4. ASSUME NEW x \in all PROVE /\ IsFiniteSet(Before(x)) /\ Cardinality(Before(x)) \in Nat
                                 /\ Cardinality(Before(x) \cup {x}) = Cardinality(Before(x)) + 1
                                 /\ IsFiniteSet(Before(x) \cup {x})
    <2>1. IsFiniteSet(Before(x)) /\ x \notin Before(x)
        BY <1>3, FS_Subset DEF Ordered
    <2> HIDE DEF Before
    <2> QED
        BY <2>1, FS_AddElement, FS_CardinalityType
<1>5. ASSUME NEW x \in all PROVE Place(x, all) \in 1 .. Cardinality(all)
    <2>1. Before(x) \cup {x} \subseteq all
        OBVIOUS
    <2>2. Place(x, all) = Cardinality(Before(x)) + 1
        BY DEF Place
    <2> HIDE DEF Before
    <2>3. Cardinality(Before(x) \cup {x}) <= Cardinality(all)
        BY <2>1, FS_Subset DEF Ordered
    <2>4. Cardinality(all) \in Nat
        BY FS_CardinalityType DEF Ordered
    <2> QED
        BY <1>4, <2>2, <2>3, <2>4
<1>6. ASSUME NEW x \in all, NEW y \in all, ComesFirst(x, y)
      PROVE  Place(x, all) < Place(y, all)
    <2>1. Before(x) \cup {x} \subseteq Before(y)
        BY <1>2, <1>6
    <2>2. Place(x, all) = Cardinality(Before(x)) + 1 /\ Place(y, all) = Cardinality(Before(y)) + 1
        BY DEF Place
    <2> HIDE DEF Before
    <2>3. Cardinality(Before(x) \cup {x}) <= Cardinality(Before(y))
        BY <1>4, <2>1, FS_Subset
    <2>4. /\ Cardinality(Before(x)) \in Nat /\ Cardinality(Before(y)) \in Nat
          /\ Cardinality(Before(x) \cup {x}) = Cardinality(Before(x)) + 1
        BY <1>4
    <2> QED
        BY <2>2, <2>3, <2>4
<1>7. ASSUME NEW x \in all, NEW y \in all, Place(x, all) = Place(y, all), x # y PROVE FALSE
    <2>1. CASE ComesFirst(x, y)
        BY <1>5, <1>6, <1>7, <2>1
    <2>2. CASE ComesFirst(y, x)
        BY <1>5, <1>6, <1>7, <2>2
    <2> QED
        BY <1>1, <1>7, <2>1, <2>2
<1> QED
    BY <1>5, <1>7

\* Every find has its place, and every place its find.
LEMMA DiscoveredIsAll ==
    ASSUME NEW all, Ordered(all)
    PROVE  /\ Len(Discovered(all)) \in Nat
           /\ \A i \in 1 .. Len(Discovered(all)) : Discovered(all)[i] \in all
           /\ \A x \in all : \E i \in 1 .. Len(Discovered(all)) : Discovered(all)[i] = x
<1> DEFINE n == Cardinality(all)
           T == 1 .. n
           f == [x \in all |-> Place(x, all)]
           d == Discovered(all)
<1>1. n \in Nat
    BY FS_CardinalityType DEF Ordered
<1>2. f \in Injection(all, T)
    BY PlacesDiffer DEF Injection, IsInjective
<1>3. IsFiniteSet(T) /\ Cardinality(T) = n
    BY <1>1, FS_Interval
<1>4. f \in Surjection(all, T)
    <2> HIDE DEF f, T
    <2> QED
        BY <1>2, <1>3, FS_Injection
<1>5. \A i \in T : \E x \in all : Place(x, all) = i
    BY <1>4 DEF Surjection
<1>6. d = [i \in T |-> CHOOSE x \in all : Place(x, all) = i]
    BY DEF Discovered
<1> HIDE DEF d
<1>7. \A i \in T : d[i] \in all /\ Place(d[i], all) = i
    BY <1>5, <1>6
<1>8. d \in Seq(all) /\ DOMAIN d = T
    <2>1. d \in [T -> all]
        BY <1>6, <1>7
    <2> HIDE DEF n
    <2> QED
        BY <1>1, <2>1
<1>9. Len(d) = n
    <2>1. Len(d) \in Nat /\ DOMAIN d = 1 .. Len(d)
        BY <1>8
    <2> HIDE DEF n
    <2> QED
        BY <1>1, <1>8, <2>1
<1>10. \A x \in all : f[x] \in T /\ d[f[x]] = x
    <2>1. \A x \in all : Place(x, all) \in T
        BY PlacesDiffer
    <2> HIDE DEF T
    <2> QED
        BY <1>7, <2>1, PlacesDiffer
<1> HIDE DEF f
<1> QED
    BY <1>1, <1>7, <1>9, <1>10 DEF d

----------------------------------------------------------------------------
\* What the lanes have found, and what the merge makes of it.

(* A research lane is one of its provider's, and has found nothing or one of *)
(* the answers.                                                              *)
IsLane(op) == \E s \in Research : \E n \in 1 .. LanesOf[s] : op = Operation("research", s, n)
LanesAreOfProviders ==
    /\ DOMAIN found = DOMAIN lane
    /\ \A op \in ResearchLanes :
          /\ IsLane(op) /\ lane[op] # "reading"
          /\ found[op] = {} \/ found[op] \in Finds[op.source]

LEMMA OperationFacts ==
    ASSUME NEW by, NEW s, NEW n
    PROVE  /\ Operation(by, s, n).by = by /\ Operation(by, s, n).source = s
           /\ Operation(by, s, n).no = n
BY DEF Operation

LEMMA ItemFacts ==
    ASSUME NEW p, NEW op, AtMostOne(p.arxiv)
    PROVE  /\ IsPaper(Item(p, op)) /\ Item(p, op).source = op.source
           /\ Item(p, op).id = p.id /\ Item(p, op).lanes = {op.no}
           /\ Item(p, op).arxiv = p.arxiv /\ Item(p, op).doi = p.doi /\ Item(p, op).own = p.own
BY DEF Item, IsPaper, Fields

LEMMA LanesAreCounted == \A s \in Research : LanesOf[s] \in Nat
<1>1. LanesOf \in [Research -> 0 .. 64]
    BY CollectionAssumption
<1> QED
    BY <1>1

\* A research lane, and what it has found.
LEMMA LaneFacts ==
    ASSUME LanesAreOfProviders, NEW op \in ResearchLanes
    PROVE  /\ op.source \in Research /\ op.no \in 1 .. LanesOf[op.source] /\ op.no \in Nat
           /\ op = Operation("research", op.source, op.no)
           /\ IsFiniteSet(found[op])
           /\ \A p \in found[op] : p.id \in Nat /\ AtMostOne(p.arxiv)
           /\ \A p, q \in found[op] : p.id = q.id => p = q
<1>1. PICK s \in Research : \E n \in 1 .. LanesOf[s] : op = Operation("research", s, n)
    BY DEF LanesAreOfProviders, IsLane
<1>2. PICK n \in 1 .. LanesOf[s] : op = Operation("research", s, n)
    BY <1>1
<1>3. LanesOf[s] \in Nat
    BY LanesAreCounted
<1>4. op.source = s /\ op.no = n /\ n \in Nat
    BY <1>2, <1>3, OperationFacts
<1>5. found[op] = {} \/ found[op] \in Finds[s]
    BY <1>4 DEF LanesAreOfProviders
<1>6. /\ IsFiniteSet(found[op])
      /\ \A p \in found[op] : p.id \in Nat /\ AtMostOne(p.arxiv)
      /\ \A p, q \in found[op] : p.id = q.id => p = q
    BY <1>5, FindsAssumption, FS_EmptySet DEF AtMostOne
<1> QED
    BY <1>2, <1>4, <1>6

LEMMA HealthyIsFinite ==
    ASSUME LanesAreOfProviders, NEW s \in Research
    PROVE  IsFiniteSet(Healthy(s))
<1> DEFINE N == 1 .. LanesOf[s]
           f == [n \in N |-> Operation("research", s, n)]
           T == {f[n] : n \in N}
<1>1. IsFiniteSet(N)
    <2>1. LanesOf[s] \in Int
        BY LanesAreCounted
    <2> QED
        BY <2>1, FS_Interval
<1>2. IsFiniteSet(T)
    <2>1. DOMAIN f = N
        OBVIOUS
    <2> HIDE DEF f, N
    <2> QED
        BY <1>1, <2>1, ImageIsFinite
<1>3. Healthy(s) \subseteq T
    <2> SUFFICES ASSUME NEW op \in Healthy(s) PROVE op \in T
        OBVIOUS
    <2>1. op \in ResearchLanes /\ op.source = s
        BY DEF Healthy, ResearchLanes
    <2>2. op.no \in N /\ op = Operation("research", s, op.no)
        BY <2>1, LaneFacts
    <2> QED
        BY <2>2
<1> QED
    <2> HIDE DEF T
    <2> QED
        BY <1>2, <1>3, FS_Subset

\* The finds of a source are papers of that source, in one order.
LEMMA ItemsAreOrdered ==
    ASSUME LanesAreOfProviders, NEW s \in Research
    PROVE  /\ Ordered(Items(s))
           /\ \A x \in Items(s) : IsPaper(x) /\ x.source = s
<1> DEFINE Of(op) == {Item(p, op) : p \in found[op]}
           All == {Of(op) : op \in Healthy(s)}
<1>1. \A op \in Healthy(s) : op \in ResearchLanes /\ op.source = s
    BY DEF Healthy, ResearchLanes
<1>2. ASSUME NEW op \in Healthy(s) PROVE IsFiniteSet(Of(op))
    <2> DEFINE f == [p \in found[op] |-> Item(p, op)]
    <2>1. DOMAIN f = found[op] /\ Of(op) = {f[p] : p \in found[op]}
        OBVIOUS
    <2>2. IsFiniteSet(found[op])
        BY <1>1, LaneFacts
    <2> HIDE DEF f, Of
    <2> QED
        BY <2>1, <2>2, ImageIsFinite
<1>3. IsFiniteSet(All)
    <2> DEFINE f == [op \in Healthy(s) |-> Of(op)]
    <2>1. DOMAIN f = Healthy(s) /\ All = {f[op] : op \in Healthy(s)}
        OBVIOUS
    <2> HIDE DEF f, All
    <2> QED
        BY <2>1, HealthyIsFinite, ImageIsFinite
<1>4. IsFiniteSet(Items(s))
    <2>1. Items(s) = UNION All
        BY DEF Items
    <2>2. \A T \in All : IsFiniteSet(T)
        BY <1>2
    <2> HIDE DEF All
    <2> QED
        BY <1>3, <2>1, <2>2, FS_UNION
<1>5. ASSUME NEW x \in Items(s)
      PROVE  \E op \in Healthy(s) : \E p \in found[op] : x = Item(p, op)
    BY DEF Items
<1>6. ASSUME NEW op \in Healthy(s), NEW p \in found[op]
      PROVE  /\ IsPaper(Item(p, op)) /\ Item(p, op).source = s /\ Item(p, op).id = p.id
             /\ p.id \in Nat /\ op.no \in Nat /\ Item(p, op).lanes = {op.no}
    BY <1>1, LaneFacts, ItemFacts
<1>7. ASSUME NEW x \in Items(s), NEW y \in Items(s), x.lanes = y.lanes, x.id = y.id
      PROVE  x = y
    <2>1. PICK o \in Healthy(s) : \E p \in found[o] : x = Item(p, o)
        BY <1>5
    <2>2. PICK p \in found[o] : x = Item(p, o)
        BY <2>1
    <2>3. PICK r \in Healthy(s) : \E q \in found[r] : y = Item(q, r)
        BY <1>5
    <2>4. PICK q \in found[r] : y = Item(q, r)
        BY <2>3
    <2>5. o.no = r.no /\ p.id = q.id
        BY <1>6, <1>7, <2>2, <2>4
    <2>6. o = r
        <3>1. o = Operation("research", s, o.no) /\ r = Operation("research", s, r.no)
            BY <1>1, LaneFacts
        <3> QED
            BY <2>5, <3>1
    <2>7. p = q
        BY <1>1, <2>5, <2>6, LaneFacts
    <2> QED
        BY <2>2, <2>4, <2>6, <2>7
<1>8. \A x \in Items(s) : /\ IsPaper(x) /\ x.source = s
                          /\ x.id \in Nat /\ \E n \in Nat : x.lanes = {n}
    BY <1>5, <1>6
<1> QED
    BY <1>4, <1>7, <1>8 DEF Ordered

(* c is what has become of the find p of a lane.                             *)
Kept(c, op, p) ==
    /\ c.source = op.source /\ op.no \in c.lanes
    /\ p.arxiv \subseteq c.arxiv /\ p.doi \subseteq c.doi /\ p.own \subseteq c.own

\* What the healthy lanes of a source have found is among its merged papers.
LEMMA MergeKeepsAll ==
    ASSUME LanesAreOfProviders, NEW s \in Research
    PROVE  LET merged == MergePapers(Discovered(Items(s)))
           IN  /\ \A c \in merged : IsPaper(c)
               /\ \A op \in Healthy(s) : \A p \in found[op] : \E c \in merged : Kept(c, op, p)
<1> DEFINE d == Discovered(Items(s))
           merged == MergePapers(d)
<1>1. /\ Len(d) \in Nat
      /\ \A i \in 1 .. Len(d) : d[i] \in Items(s)
      /\ \A x \in Items(s) : \E i \in 1 .. Len(d) : d[i] = x
    BY ItemsAreOrdered, DiscoveredIsAll
<1>2. \A i \in 1 .. Len(d) : IsPaper(d[i]) /\ d[i].source = s
    BY <1>1, ItemsAreOrdered
<1> HIDE DEF d
<1>3. /\ \A c \in merged : IsPaper(c) /\ c.source = s
      /\ \A i \in 1 .. Len(d) : \E c \in merged : Covers(c, d[i])
    BY <1>1, <1>2, MergePapersKeeps
<1> HIDE DEF merged
<1>4. ASSUME NEW op \in Healthy(s), NEW p \in found[op]
      PROVE  \E c \in merged : Kept(c, op, p)
    <2> DEFINE x == Item(p, op)
    <2>1. x \in Items(s)
        BY DEF Items
    <2>2. op \in ResearchLanes /\ op.source = s
        BY DEF Healthy, ResearchLanes
    <2>3. /\ x.source = s /\ x.lanes = {op.no}
          /\ x.arxiv = p.arxiv /\ x.doi = p.doi /\ x.own = p.own
        BY <2>2, LaneFacts, ItemFacts
    <2> HIDE DEF x
    <2>4. PICK c \in merged : Covers(c, x)
        BY <1>1, <1>3, <2>1
    <2>5. Kept(c, op, p)
        BY <2>2, <2>3, <2>4 DEF Covers, Kept
    <2> QED
        BY <2>5
<1> QED
    BY <1>3, <1>4 DEF merged, d

----------------------------------------------------------------------------
(* When the lanes are merged none is open, and what the healthy ones found   *)
(* is among the papers or what was rejected of them.                         *)
FindsAreKept ==
    paper # "lanes" =>
        \A op \in ResearchLanes :
            /\ lane[op] \notin Open
            /\ lane[op] = "success" => \A p \in found[op] : \E c \in candidates \cup rejected : Kept(c, op, p)
PapersInv ==
    /\ LanesAreOfProviders /\ FindsAreKept
    /\ \A c \in candidates : IsPaper(c)
    /\ paper # "ready" => rejected = {}

LEMMA InitPapers == Init => PapersInv
BY DEF Init, PapersInv, LanesAreOfProviders, FindsAreKept, ResearchLanes

LEMMA PapersStay ==
    PapersInv /\ UNCHANGED <<lane, found, paper, candidates, rejected>> => PapersInv'
<1> SUFFICES ASSUME PapersInv, UNCHANGED <<lane, found, paper, candidates, rejected>>
             PROVE  PapersInv'
    OBVIOUS
<1>1. LanesAreOfProviders' /\ ResearchLanes' = ResearchLanes
    BY DEF PapersInv, LanesAreOfProviders, ResearchLanes, IsLane
<1>2. FindsAreKept'
    BY <1>1 DEF PapersInv, FindsAreKept, Kept, Open, Active
<1> QED
    BY <1>1, <1>2 DEF PapersInv

\* A new attempt, and one that fails, begins without papers.
LEMMA PapersBegin == PapersInv /\ (Begin \/ Fail) => PapersInv'
<1> SUFFICES ASSUME PapersInv, Begin \/ Fail PROVE PapersInv'
    OBVIOUS
<1>1. CASE Begin
    <2>1. /\ DOMAIN lane' = Operations(catalog) /\ DOMAIN found' = Operations(catalog)
          /\ \A op \in Operations(catalog) : /\ found'[op] = {}
                                             /\ lane'[op] \in {"waiting", "running"}
        BY <1>1 DEF Begin
    <2>2. ASSUME NEW op \in Operations(catalog), op.by = "research" PROVE IsLane(op)
        <3>1. op \notin NewsOperations(catalog)
            BY <2>2, OperationFacts DEF NewsOperations
        <3>2. op \notin PublicationOperations(catalog)
            BY <2>2, OperationFacts DEF PublicationOperations
        <3>3. op \in ResearchOperations(catalog)
            BY <3>1, <3>2 DEF Operations
        <3>4. PICK s \in {t \in Research : catalog[t].enabled} :
                  op \in {Operation("research", s, n) : n \in 1 .. LanesOf[s]}
            BY <3>3 DEF ResearchOperations
        <3> QED
            BY <3>4 DEF IsLane
    <2>3. LanesAreOfProviders'
        BY <2>1, <2>2 DEF LanesAreOfProviders, ResearchLanes, IsLane
    <2>4. paper' = "lanes" /\ candidates' = {} /\ rejected' = {}
        BY <1>1 DEF Begin, NoPapers
    <2> QED
        BY <2>3, <2>4 DEF PapersInv, FindsAreKept
<1>2. CASE Fail
    BY <1>2 DEF Fail, NoPapers, PapersInv, LanesAreOfProviders, FindsAreKept, ResearchLanes
<1> QED
    BY <1>1, <1>2

(* A lane goes on that is open: if it is a research lane, nothing has been   *)
(* merged yet.                                                               *)
LEMMA PapersOfLane ==
    ASSUME PapersInv, UNCHANGED papers, NEW op \in DOMAIN lane, lane[op] \in Open,
           NEW l, lane' = [lane EXCEPT ![op] = l], op.by = "research" => l # "reading",
           NEW fs,
           \/ UNCHANGED found
           \/ /\ found' = [found EXCEPT ![op] = fs]
              /\ op.by = "research" => fs \in Finds[op.source]
    PROVE  PapersInv'
<1>1. DOMAIN found = DOMAIN lane
    BY DEF PapersInv, LanesAreOfProviders
<1>2. /\ DOMAIN lane' = DOMAIN lane /\ lane'[op] = l
      /\ \A o \in DOMAIN lane \ {op} : lane'[o] = lane[o]
    OBVIOUS
<1>3. /\ DOMAIN found' = DOMAIN lane
      /\ found'[op] = found[op] \/ (op.by = "research" => found'[op] \in Finds[op.source])
      /\ \A o \in DOMAIN lane \ {op} : found'[o] = found[o]
    BY <1>1
<1>4. ResearchLanes' = ResearchLanes
    BY <1>2 DEF ResearchLanes
<1>5. ASSUME NEW o \in ResearchLanes
      PROVE  /\ IsLane(o) /\ lane'[o] # "reading"
             /\ found'[o] = {} \/ found'[o] \in Finds[o.source]
    BY <1>2, <1>5, <1>3 DEF PapersInv, LanesAreOfProviders, ResearchLanes
<1>6. LanesAreOfProviders'
    BY <1>2, <1>4, <1>5, <1>3 DEF LanesAreOfProviders, IsLane
<1>7. FindsAreKept'
    <2> SUFFICES ASSUME paper # "lanes", NEW o \in ResearchLanes
                 PROVE  /\ lane'[o] \notin Open
                        /\ lane'[o] = "success" => \A p \in found'[o] :
                              \E c \in candidates' \cup rejected' : Kept(c, o, p)
        BY <1>4 DEF FindsAreKept, papers, Kept, Open, Active
    <2>1. lane[o] \notin Open
        BY DEF PapersInv, FindsAreKept
    <2>2. o # op
        BY <2>1
    <2> QED
        BY <1>2, <1>3, <2>2 DEF PapersInv, FindsAreKept, papers, ResearchLanes
<1> QED
    BY <1>6, <1>7 DEF PapersInv, papers

\* The lanes go on while nothing is merged.
LEMMA PapersLanes == PapersInv /\ (StartLane \/ SettleLane \/ ReadArticles) => PapersInv'
<1> SUFFICES ASSUME PapersInv, StartLane \/ SettleLane \/ ReadArticles PROVE PapersInv'
    OBVIOUS
<1>1. UNCHANGED papers
    BY DEF StartLane, SettleLane, ReadArticles, InLane
<1>2. CASE StartLane
    <2>1. PICK op \in DOMAIN lane : lane[op] = "waiting" /\ lane' = [lane EXCEPT ![op] = "running"]
        BY <1>2 DEF StartLane
    <2>2. UNCHANGED found /\ lane[op] \in Open
        BY <1>2, <2>1 DEF StartLane, Open
    <2> QED
        BY <1>1, <2>1, <2>2, PapersOfLane
<1>3. CASE SettleLane
    <2>1. PICK op \in DOMAIN lane :
              /\ lane[op] = "running"
              /\ \/ /\ ConfigFailure(op) # "none"
                    /\ lane' = [lane EXCEPT ![op] = ConfigFailure(op)] /\ UNCHANGED found
                 \/ /\ \E k \in Kinds : lane' = [lane EXCEPT ![op] = k]
                    /\ UNCHANGED found
                 \/ \E es \in Finds[op.source] :
                      /\ found' = [found EXCEPT ![op] = IF Garbled(op, es) THEN {} ELSE Listed(op, es)]
                      /\ lane' = [lane EXCEPT ![op] = IF Garbled(op, es) THEN "parse"
                                     ELSE IF ReadsArticles(op) THEN "reading" ELSE "success"]
        BY <1>3 DEF SettleLane
    <2>2. lane[op] \in Open
        BY <2>1 DEF Open, Active
    <2>3. op.by = "research" => ConfigFailure(op) = "none" /\ ~ReadsArticles(op)
        BY DEF ConfigFailure, ReadsArticles
    <2>4. \A es : op.by = "research" => ~Garbled(op, es) /\ Listed(op, es) = es
        BY DEF Garbled, GarbledFeed, GarbledPage, Listed, OfFeed
    <2>5. CASE UNCHANGED found
        <3>1. PICK l : lane' = [lane EXCEPT ![op] = l] /\ (op.by = "research" => l # "reading")
            BY <2>1, <2>3, CollectionAssumption
        <3> QED
            BY <1>1, <2>2, <2>5, <3>1, PapersOfLane
    <2>6. CASE \E es \in Finds[op.source] :
                  /\ found' = [found EXCEPT ![op] = IF Garbled(op, es) THEN {} ELSE Listed(op, es)]
                  /\ lane' = [lane EXCEPT ![op] = IF Garbled(op, es) THEN "parse"
                                 ELSE IF ReadsArticles(op) THEN "reading" ELSE "success"]
        <3>1. PICK l, fs :
                  /\ lane' = [lane EXCEPT ![op] = l] /\ found' = [found EXCEPT ![op] = fs]
                  /\ op.by = "research" => l # "reading" /\ fs \in Finds[op.source]
            BY <2>3, <2>4, <2>6
        <3> QED
            BY <1>1, <2>2, <3>1, PapersOfLane
    <2> QED
        BY <2>1, <2>5, <2>6
<1>4. CASE ReadArticles
    <2>1. PICK op, l, fs :
              /\ op \in DOMAIN lane /\ lane[op] = "reading"
              /\ lane' = [lane EXCEPT ![op] = l] /\ found' = [found EXCEPT ![op] = fs]
        BY <1>4 DEF ReadArticles
    <2>2. op.by # "research" /\ lane[op] \in Open
        BY <2>1 DEF PapersInv, LanesAreOfProviders, ResearchLanes, Open, Active
    <2> QED
        BY <1>1, <2>1, <2>2, PapersOfLane
<1> QED
    BY <1>2, <1>3, <1>4

\* The merge keeps what every healthy lane has found.
LEMMA PapersMerge == PapersInv /\ Merge => PapersInv'
<1> SUFFICES ASSUME PapersInv, Merge PROVE PapersInv'
    OBVIOUS
<1> DEFINE Of(s) == MergePapers(Discovered(Items(s)))
<1>1. /\ UNCHANGED <<lane, found, rejected>> /\ paper = "lanes"
      /\ \A op \in ResearchLanes : lane[op] \notin Open
      /\ candidates' = UNION {Of(s) : s \in Research \cap Sources}
    BY DEF Merge, InResearch
<1>2. LanesAreOfProviders /\ LanesAreOfProviders' /\ ResearchLanes' = ResearchLanes
    BY <1>1 DEF PapersInv, LanesAreOfProviders, ResearchLanes, IsLane
<1>3. \A s \in Research : /\ \A c \in Of(s) : IsPaper(c)
                          /\ \A op \in Healthy(s) : \A p \in found[op] : \E c \in Of(s) : Kept(c, op, p)
    BY <1>2, MergeKeepsAll
<1> HIDE DEF Of
<1>4. \A c \in candidates' : IsPaper(c)
    BY <1>1, <1>3
<1>5. ASSUME NEW op \in ResearchLanes, lane[op] = "success", NEW p \in found[op]
      PROVE  \E c \in candidates' : Kept(c, op, p)
    <2> DEFINE s == op.source
    <2>1. s \in Research /\ s \in Sources
        BY <1>2, LaneFacts, CollectionAssumption
    <2>2. op \in Healthy(s)
        BY <1>5 DEF Healthy, ResearchLanes
    <2> HIDE DEF s
    <2>3. PICK c \in Of(s) : Kept(c, op, p)
        BY <1>3, <2>1, <2>2
    <2> QED
        BY <1>1, <2>1, <2>3
<1>6. FindsAreKept'
    BY <1>1, <1>2, <1>5 DEF FindsAreKept, Kept, Open, Active
<1> QED
    BY <1>1, <1>2, <1>4, <1>6 DEF PapersInv

\* An enricher that fails leaves the papers, and one that succeeds what they are.
LEMMA PapersEnrich == PapersInv /\ Enrich => PapersInv'
<1> SUFFICES ASSUME PapersInv, Enrich PROVE PapersInv'
    OBVIOUS
<1>1. paper = "enriching" /\ UNCHANGED <<lane, found, paper, rejected>>
    BY DEF Enrich, InResearch
<1>2. CASE UNCHANGED candidates
    BY <1>1, <1>2, PapersStay
<1>3. CASE \E next \in Upcoming :
              candidates' = {[c EXCEPT !.enriched = @ \cup {Enrichers[next]}] : c \in candidates}
    <2>1. PICK e : candidates' = {[c EXCEPT !.enriched = @ \cup {e}] : c \in candidates}
        BY <1>3
    <2> DEFINE With(c) == [c EXCEPT !.enriched = @ \cup {e}]
    <2>2. ASSUME NEW c, IsPaper(c)
          PROVE  IsPaper(With(c)) /\ \A op, p : Kept(c, op, p) => Kept(With(c), op, p)
        BY <2>2 DEF IsPaper, Fields, Kept
    <2>3. candidates' = {With(c) : c \in candidates}
        BY <2>1
    <2> HIDE DEF With
    <2>4. \A c \in candidates' : IsPaper(c)
        BY <2>2, <2>3 DEF PapersInv
    <2>5. ASSUME NEW op, NEW p, NEW c \in candidates \cup rejected, Kept(c, op, p)
          PROVE  \E d \in candidates' \cup rejected' : Kept(d, op, p)
        BY <1>1, <2>2, <2>3, <2>5 DEF PapersInv
    <2>6. paper' # "ready" /\ rejected' = {}
        BY <1>1 DEF PapersInv
    <2>7. LanesAreOfProviders' /\ ResearchLanes' = ResearchLanes
        BY <1>1 DEF PapersInv, LanesAreOfProviders, ResearchLanes, IsLane
    <2>8. FindsAreKept'
        BY <1>1, <2>5, <2>7 DEF PapersInv, FindsAreKept, Kept, Open, Active
    <2> QED
        BY <2>4, <2>7, <2>8, <2>6 DEF PapersInv
<1> QED
    BY <1>2, <1>3 DEF Enrich

\* A paper without a title goes to the rejected ones.
LEMMA PapersPrepare == PapersInv /\ Prepare => PapersInv'
<1> SUFFICES ASSUME PapersInv, Prepare PROVE PapersInv'
    OBVIOUS
<1>1. /\ paper = "enriching" /\ UNCHANGED <<lane, found>>
      /\ candidates' \subseteq candidates /\ candidates \subseteq candidates' \cup rejected'
      /\ paper' = "ready"
    BY DEF Prepare, InResearch
<1>2. \A c \in candidates \cup rejected : c \in candidates' \cup rejected'
    BY <1>1 DEF PapersInv
<1>3. LanesAreOfProviders' /\ ResearchLanes' = ResearchLanes
    BY <1>1 DEF PapersInv, LanesAreOfProviders, ResearchLanes, IsLane
<1>4. FindsAreKept'
    <2>1. \A op \in ResearchLanes : /\ lane[op] \notin Open
                                    /\ lane[op] = "success" => \A p \in found[op] :
                                           \E c \in candidates \cup rejected : Kept(c, op, p)
        BY <1>1 DEF PapersInv, FindsAreKept
    <2> QED
        BY <1>1, <1>2, <1>3, <2>1 DEF FindsAreKept, Kept, Open, Active
<1> QED
    BY <1>1, <1>3, <1>4 DEF PapersInv

LEMMA NextPapers == PapersInv /\ [Next]_vars => PapersInv'
<1>1. /\ Settled \/ RecordSourceOutcome \/ SaveCollectionSourceFailures \/ CreateSource \/ ReadRow
         \/ WriteRow \/ UNCHANGED vars
      => UNCHANGED <<lane, found, paper, candidates, rejected>>
    BY DEF Settled, RecordSourceOutcome, SaveCollectionSourceFailures, CreateSource, ReadRow,
           WriteRow, InTable, papers, vars
<1> QED
    BY <1>1, PapersStay, PapersBegin, PapersLanes, PapersMerge, PapersEnrich, PapersPrepare DEF Next

----------------------------------------------------------------------------
(* Whatever fails, what a healthy lane has found is among the candidates or  *)
(* the rejected papers, under the lane's name.                               *)
THEOREM CollectionKeepsHealthyLanes == Spec => []HealthyLanesAreKept
<1>1. PapersInv => HealthyLanesAreKept
    BY DEF PapersInv, FindsAreKept, HealthyLanesAreKept, Kept
<1> QED
    BY <1>1, InitPapers, NextPapers, PTL DEF Spec

(* However many lanes, answers and resemblances there are, no candidate has  *)
(* two arXiv ids: papers that arXiv tells apart stay two.                    *)
THEOREM CollectionConflatesNothing == Spec => []PapersAreNotConflated
<1>1. PapersInv => PapersAreNotConflated
    <2> SUFFICES ASSUME PapersInv, NEW c \in candidates PROVE Cardinality(c.arxiv) <= 1
        BY DEF PapersAreNotConflated
    <2>1. c.arxiv = {} \/ \E x : c.arxiv = {x}
        BY DEF PapersInv, IsPaper, AtMostOne
    <2>2. CASE c.arxiv = {}
        BY <2>2, FS_EmptySet
    <2>3. CASE \E x : c.arxiv = {x}
        <3>1. PICK x : c.arxiv = {x}
            BY <2>3
        <3>2. Cardinality({x}) = 1
            BY FS_Singleton
        <3> QED
            BY <3>1, <3>2
    <2> QED
        BY <2>1, <2>2, <2>3
<1> QED
    BY <1>1, InitPapers, NextPapers, PTL DEF Spec
=============================================================================
