---------------------------- MODULE ReaderProofs ----------------------------
(***************************************************************************)
(* What a reader is shown and what runs select with: every execution of a  *)
(* run selects with the same preferences, the page of the preferences      *)
(* shows what is stored, the weight recorded with feedback is the one that *)
(* is used, and whoever reads a listing to its last page has been shown    *)
(* all of it.                                                              *)
(***************************************************************************)
EXTENDS Preferences, ArchivePages, FiniteSetTheorems, TLAPS

\* The event outlives the row it belongs to: it is never the older one, and
\* retention removes both at the same age.
EventOutlivesRow ==
    \A r \in Runs : Attached(r) => /\ row[r] # 0
                                   /\ row[r] <= snapshot[r].on

\* What the executions of a run went on with is what its event holds.
UsedIsStored ==
    \A r \in Runs : used[r] # {} =>
        Attached(r) /\ used[r] = {snapshot[r].prefs}

\* A snapshot is a record, whatever the preferences in it are.
Whole(s) == /\ s.on \in Nat
            /\ s = [prefs |-> s.prefs, on |-> s.on, linked |-> s.linked]

RunsTyped ==
    /\ day \in Nat
    /\ row \in [Runs -> Nat]
    /\ snapshot = [r \in Runs |-> snapshot[r]]
    /\ used = [r \in Runs |-> used[r]]
    /\ \A r \in Runs : row[r] <= day
    /\ \A r \in Runs : HasSnapshot(r) => Whole(snapshot[r])

IInv == RunsTyped /\ EventOutlivesRow /\ UsedIsStored

LEMMA InitIInv == Init => IInv
  BY PreferencesAssumption
     DEF Init, IInv, RunsTyped, EventOutlivesRow, UsedIsStored, Attached, HasSnapshot

LEMMA ReaderKeepsIInv ==
    ASSUME IInv, NEW t \in Tabs, Reader(t)
    PROVE  IInv'
<1>1. UNCHANGED <<day, runs>>
  BY DEF Reader, Load, Edit, Press, Rate, RecordFeedback, UpdatePreferences, FindAdjustment,
         DeleteAdjustment, ResetPreferences, ReadRow, ReadFeedback, Show, RequestFails,
         Leave
<1>2. QED
  BY <1>1 DEF runs, IInv, RunsTyped, EventOutlivesRow, UsedIsStored, Attached, HasSnapshot,
              Whole

\* An execution that finds the event goes on with what it holds.
LEMMA GoOnKeepsIInv ==
    ASSUME IInv, NEW r \in Runs, NEW l, GoOn(r, l), UNCHANGED <<day, row, snapshot>>
    PROVE  IInv'
<1>1. used' = used \/ (Attached(r) /\ used' = [used EXCEPT ![r] = @ \cup {snapshot[r].prefs}])
  BY DEF GoOn
<1>2. RunsTyped' /\ EventOutlivesRow'
  BY <1>1 DEF IInv, RunsTyped, EventOutlivesRow, Attached, HasSnapshot, Whole
<1>3. UsedIsStored'
  <2> SUFFICES ASSUME NEW q \in Runs, used'[q] # {}
               PROVE  Attached(q)' /\ used'[q] = {snapshot'[q].prefs}
    BY DEF UsedIsStored
  <2>1. CASE q = r /\ used' # used
    <3>1. used[r] = {} \/ used[r] = {snapshot[r].prefs}
      BY DEF IInv, UsedIsStored
    <3>2. used'[r] = used[r] \cup {snapshot[r].prefs}
      BY <1>1, <2>1 DEF IInv, RunsTyped
    <3>3. QED
      BY <1>1, <2>1, <3>1, <3>2 DEF Attached, HasSnapshot
  <2>2. CASE ~ (q = r /\ used' # used)
    <3>1. used'[q] = used[q]
      BY <1>1, <2>2 DEF IInv, RunsTyped
    <3>2. QED
      BY <3>1 DEF IInv, UsedIsStored, Attached, HasSnapshot
  <2>3. QED
    BY <2>1, <2>2
<1>4. QED
  BY <1>2, <1>3 DEF IInv

LEMMA RunKeepsIInv ==
    ASSUME IInv, NEW r \in Runs, Run(r)
    PROVE  IInv'
<1>1. CASE Execute(r) \/ CreateRow(r)
  <2>1. /\ UNCHANGED <<day, snapshot, used>>
        /\ row' = row \/ (row[r] = 0 /\ row' = [row EXCEPT ![r] = day])
    BY <1>1 DEF Execute, CreateRow, IInv, RunsTyped
  <2>2. QED
    BY <2>1 DEF IInv, RunsTyped, EventOutlivesRow, UsedIsStored, Attached, HasSnapshot, Whole
<1>2. CASE FindSnapshot(r)
  BY <1>2, GoOnKeepsIInv DEF FindSnapshot
<1>3. CASE ExecReadsRow(r) \/ ExecReadsFeedback(r) \/ ExecTakesDefault(r) \/ ExecEnds(r)
  <2>1. UNCHANGED <<day, row, snapshot, used>>
    BY <1>3 DEF ExecReadsRow, ExecReadsFeedback, ExecTakesDefault, ExecEnds
  <2>2. QED
    BY <2>1 DEF IInv, RunsTyped, EventOutlivesRow, UsedIsStored, Attached, HasSnapshot, Whole
<1>4. CASE SaveSnapshot(r)
  <2>1. UNCHANGED <<day, row, used>> /\ row[r] # 0
    BY <1>4 DEF SaveSnapshot
  <2>2. snapshot' = [snapshot EXCEPT ![r] = Inserted(r, exec[r].got)]
    BY <1>4 DEF SaveSnapshot
  <2>3. CASE HasSnapshot(r)
    <3>1. snapshot' = snapshot
      BY <2>2, <2>3 DEF Inserted, IInv, RunsTyped
    <3>2. QED
      BY <2>1, <3>1 DEF IInv, RunsTyped, EventOutlivesRow, UsedIsStored, Attached,
                        HasSnapshot, Whole
  <2>4. CASE ~ HasSnapshot(r)
    <3>1. snapshot'[r] = [prefs |-> exec[r].got, on |-> day, linked |-> TRUE]
      BY <2>2, <2>4 DEF Inserted, IInv, RunsTyped
    <3>2. \A q \in Runs : q # r => snapshot'[q] = snapshot[q]
      BY <2>2 DEF IInv, RunsTyped
    <3>3. snapshot' = [q \in Runs |-> snapshot'[q]]
      BY <2>2 DEF IInv, RunsTyped
    <3>4. RunsTyped'
      <4>1. Whole(snapshot'[r])
        BY <3>1 DEF Whole, IInv, RunsTyped
      <4>2. \A q \in Runs : HasSnapshot(q)' => Whole(snapshot'[q])
        BY <3>2, <4>1 DEF HasSnapshot, IInv, RunsTyped
      <4>3. QED
        BY <2>1, <3>3, <4>2 DEF IInv, RunsTyped, HasSnapshot, Whole
    <3>5. EventOutlivesRow'
      BY <2>1, <3>1, <3>2 DEF IInv, RunsTyped, EventOutlivesRow, Attached, HasSnapshot
    <3>6. UsedIsStored'
      BY <2>1, <2>4, <3>1, <3>2 DEF IInv, UsedIsStored, Attached, HasSnapshot
    <3>7. QED
      BY <3>4, <3>5, <3>6 DEF IInv
  <2>5. QED
    BY <2>3, <2>4
<1>5. CASE RereadSnapshot(r)
  BY <1>5, GoOnKeepsIInv DEF RereadSnapshot
<1>6. QED
  BY <1>1, <1>2, <1>3, <1>4, <1>5 DEF Run

LEMMA PruneKeepsIInv ==
    ASSUME IInv, Prune
    PROVE  IInv'
<1> DEFINE gone == {r \in Runs : row[r] # 0 /\ Old(row[r])}
<1>1. day' = day
  BY DEF Prune
<1>2. \A r \in Runs : r \in gone => row'[r] = 0 /\ used'[r] = {}
  BY DEF Prune
<1>3. \A r \in Runs : r \notin gone => row'[r] = row[r] /\ used'[r] = used[r]
  BY DEF Prune
<1>4. \A r \in Runs : Attached(r)' => Attached(r) /\ r \notin gone /\ snapshot'[r] = snapshot[r]
  <2> SUFFICES ASSUME NEW r \in Runs, Attached(r)'
               PROVE  Attached(r) /\ r \notin gone /\ snapshot'[r] = snapshot[r]
    OBVIOUS
  <2>1. snapshot'[r] # NoSnapshot /\ snapshot'[r].linked
    BY DEF Attached, HasSnapshot
  <2>2. snapshot'[r] = IF HasSnapshot(r) /\ OldEvent(snapshot[r].on) THEN NoSnapshot
                       ELSE IF HasSnapshot(r) /\ r \in gone
                              THEN [snapshot[r] EXCEPT !.linked = FALSE]
                       ELSE snapshot[r]
    BY DEF Prune
  <2>3. CASE HasSnapshot(r) /\ r \in gone /\ ~ OldEvent(snapshot[r].on)
    <3>1. snapshot'[r] = [snapshot[r] EXCEPT !.linked = FALSE]
      BY <2>2, <2>3
    <3>2. snapshot[r] = [prefs |-> snapshot[r].prefs, on |-> snapshot[r].on,
                         linked |-> snapshot[r].linked]
      BY <2>3 DEF IInv, RunsTyped, Whole
    <3>3. snapshot'[r].linked = FALSE
      BY <3>1, <3>2
    <3>4. QED
      BY <2>1, <3>3
  <2>4. CASE ~ (HasSnapshot(r) /\ r \in gone /\ ~ OldEvent(snapshot[r].on))
    <3>1. snapshot'[r] = snapshot[r]
      BY <2>1, <2>2, <2>4
    <3>2. Attached(r)
      BY <2>1, <3>1 DEF Attached, HasSnapshot
    <3>3. ~ OldEvent(snapshot[r].on)
      BY <2>1, <2>2, <3>2 DEF Attached
    <3>4. r \notin gone
      BY <2>4, <3>2, <3>3 DEF Attached
    <3>5. QED
      BY <3>1, <3>2, <3>4
  <2>5. QED
    BY <2>3, <2>4
<1>5. \A r \in Runs : r \notin gone /\ Attached(r) => snapshot'[r] = snapshot[r]
  <2> SUFFICES ASSUME NEW r \in Runs, r \notin gone, Attached(r)
               PROVE  snapshot'[r] = snapshot[r]
    OBVIOUS
  <2>1. row[r] # 0 /\ row[r] <= snapshot[r].on /\ snapshot[r].on \in Nat
    BY DEF IInv, EventOutlivesRow, RunsTyped, Whole, Attached
  <2>2. ~ OldEvent(snapshot[r].on)
    BY <2>1, PreferencesAssumption DEF Old, OldEvent, IInv, RunsTyped
  <2>3. QED
    BY <2>2 DEF Prune
<1>6. RunsTyped'
  <2>1. row' \in [Runs -> Nat] /\ \A r \in Runs : row'[r] <= day'
    BY <1>1 DEF Prune, IInv, RunsTyped
  <2>2. snapshot' = [r \in Runs |-> snapshot'[r]] /\ used' = [r \in Runs |-> used'[r]]
    BY DEF Prune
  <2>3. \A r \in Runs : HasSnapshot(r)' => Whole(snapshot'[r])
    <3> SUFFICES ASSUME NEW r \in Runs, snapshot'[r] # NoSnapshot
                 PROVE  Whole(snapshot'[r])
      BY DEF HasSnapshot
    <3>1. \/ snapshot'[r] = snapshot[r]
          \/ HasSnapshot(r) /\ snapshot'[r] = [snapshot[r] EXCEPT !.linked = FALSE]
      BY DEF Prune
    <3>2. Whole(snapshot[r])
      BY <3>1 DEF IInv, RunsTyped, HasSnapshot
    <3>3. QED
      BY <3>1, <3>2 DEF Whole
  <2>4. QED
    BY <1>1, <2>1, <2>2, <2>3 DEF RunsTyped, IInv, HasSnapshot, Whole
<1>7. EventOutlivesRow'
  BY <1>3, <1>4 DEF EventOutlivesRow, IInv
<1>8. UsedIsStored'
  <2> SUFFICES ASSUME NEW r \in Runs, used'[r] # {}
               PROVE  Attached(r)' /\ used'[r] = {snapshot'[r].prefs}
    BY DEF UsedIsStored
  <2>1. r \notin gone /\ used'[r] = used[r]
    BY <1>2, <1>3
  <2>2. Attached(r) /\ used[r] = {snapshot[r].prefs}
    BY <2>1 DEF IInv, UsedIsStored
  <2>3. snapshot'[r] = snapshot[r]
    BY <1>5, <2>1, <2>2
  <2>4. QED
    BY <2>1, <2>2, <2>3 DEF Attached, HasSnapshot
<1>9. QED
  BY <1>6, <1>7, <1>8 DEF IInv

LEMMA NextKeepsIInv == IInv /\ [Next]_vars => IInv'
<1> SUFFICES ASSUME IInv, [Next]_vars PROVE IInv'
  OBVIOUS
<1>1. CASE \E t \in Tabs : Reader(t)
  BY <1>1, ReaderKeepsIInv
<1>2. CASE \E r \in Runs : Run(r)
  BY <1>2, RunKeepsIInv
<1>3. CASE Prune
  BY <1>3, PruneKeepsIInv
<1>4. CASE NextDay
  BY <1>4 DEF NextDay, runs, IInv, RunsTyped, EventOutlivesRow, UsedIsStored, Attached,
              HasSnapshot, Whole
<1>5. CASE UNCHANGED vars
  BY <1>5 DEF vars, IInv, RunsTyped, EventOutlivesRow, UsedIsStored, Attached,
              HasSnapshot, Whole
<1>6. QED
  BY <1>1, <1>2, <1>3, <1>4, <1>5 DEF Next

(***************************************************************************)
(* SnapshotIsFixed: for any reader, runs and retention period, the         *)
(* executions of a run all select with one snapshot of the preferences     *)
(* (loadOrCreatePreferenceSnapshot).                                       *)
(***************************************************************************)
THEOREM RunsUseOneSnapshot == Spec => []SnapshotIsFixed
<1>1. IInv => SnapshotIsFixed
  BY DEF IInv, UsedIsStored, SnapshotIsFixed
<1>2. QED
  BY <1>1, InitIInv, NextKeepsIInv, PTL DEF Spec

----------------------------------------------------------------------------
(* The pages of the archive and of the editions.                             *)

(* The shapes of the page, of the requests and of the rest.                  *)
IsPage(p) == p = [of |-> p.of, items |-> p.items, next |-> p.next] /\ p.next \in Nat
IsRecord(r) ==
    r = [kind |-> r.kind, of |-> r.of, from |-> r.from, answer |-> r.answer, all |-> r.all, at |-> r.at]
IsRequest(r) ==
    /\ IsRecord(r) /\ IsPage(r.answer)
    /\ r.kind \in {"idle", "search", "next"} /\ r.from \in Nat /\ r.at \in Nat
    /\ r.kind # "idle" => r.of \in Params
    /\ r.kind = "idle" => r.answer = Blank
    /\ r.kind = "search" => r.from = 0
    /\ r.kind = "next" => r.from # 0

First == request["first"]
Click == request["click"]
PagesTyped ==
    /\ today \in Nat /\ losses \in Nat /\ since \in Nat
    /\ since <= losses /\ First.at <= losses /\ Click.at <= losses
    /\ DOMAIN edition = Dates /\ \A d \in Dates : edition[d].items \in Seq(Items)
    /\ DOMAIN topic = Items
    /\ reader \in {"archive", "saved", "list"} /\ active \in Params
    /\ late \in BOOLEAN /\ IsPage(page)
    /\ DOMAIN request = {"first", "click"} /\ IsRequest(First) /\ IsRequest(Click)

(* Of all that was listed, what is not shown by now comes at the cursor n or *)
(* after it, since the list L only grows while nothing is lost.              *)
Offers(all, by, L, n) ==
    all \subseteq L /\ \A e \in all : e \in by \/ (n # 0 /\ Offset(e, L) >= n)

(* The archive: the page, the answer to a search that is on its way, and the *)
(* answer to the request of the next page; unless the initial load was late, *)
(* the page is one of the active search.                                     *)
ServedWell(r) ==
    r.kind = "search" /\ r.answer # Blank =>
        /\ r.answer.of = r.of
        /\ \A f \in Params : f = r.of /\ r.at = losses =>
              Offers(r.all, r.answer.items, Listed(f), r.answer.next)
ShownWell ==
    page # Blank /\ ~late =>
        /\ page.of = active
        /\ \A f \in Params : f = active /\ since = losses => Offers(due, seen, Listed(f), page.next)
NextWell ==
    Click.kind = "next" =>
        /\ page # Blank
        /\ ~late =>
              /\ Click.from = page.next /\ Click.of = active
              /\ Click.answer # Blank =>
                    /\ Click.answer.of = active
                    /\ \A f \in Params : f = active /\ since = losses =>
                          Offers(due, seen \cup Click.answer.items, Listed(f), Click.answer.next)
ArchiveInv ==
    /\ page = Blank => active = FirstParams(reader)
    /\ First.kind # "idle" => First.kind = "search" /\ First.of = FirstParams(reader)
    /\ ServedWell(First) /\ ServedWell(Click) /\ ShownWell /\ NextWell

(* The list of editions: what has been shown is not earlier than the cursor, *)
(* and what has not been is.                                                 *)
Falls(all, by, R, n) ==
    /\ all \subseteq R
    /\ \A d \in all : d \in by \/ (n # 0 /\ d < n)
    /\ by \subseteq Dates /\ (n # 0 => \A d \in by : n <= d)
EditionsInv ==
    /\ ~late /\ First.kind # "next" /\ Click.kind # "search"
    /\ page # Blank => First = Quiet /\ Falls(due, seen, Readable, page.next)
    /\ First.answer # Blank => Falls(First.all, First.answer.items, Readable, First.answer.next)
    /\ Click.kind = "next" =>
          /\ page # Blank /\ Click.from = page.next
          /\ \A d \in Click.answer.items : d < Click.from
          /\ Click.answer # Blank =>
                Falls(due, seen \cup Click.answer.items, Readable, Click.answer.next)

ReadingInv == PagesTyped /\ (reader = "list" => EditionsInv) /\ (reader # "list" => ArchiveInv)

----------------------------------------------------------------------------
\* Sets of dates and of the places of entries.

LEMMA Least ==
    ASSUME NEW S, S \subseteq Nat, S # {}
    PROVE  \E m \in S : \A k \in S : m <= k
<1> DEFINE R == {ss \in Nat \X Nat : ss[1] < ss[2]}
<1>1. IsWellFoundedOn(R, Nat)
    BY NatLessThanWellFounded, Zenon DEF OpToRel
<1> HIDE DEF R
<1>2. PICK m \in S : \A k \in S : <<k, m>> \notin R
    BY <1>1, WFMin, Zenon
<1>3. \A k \in S : ~(k < m)
    BY <1>2 DEF R
<1> QED
    BY <1>3

LEMMA Greatest ==
    ASSUME NEW S, S \subseteq Nat, S # {}, NEW n \in Nat, \A k \in S : k <= n
    PROVE  \E m \in S : \A k \in S : k <= m
<1> DEFINE T == {n - k : k \in S}
<1>1. T \subseteq Nat /\ T # {}
    <2>1. \A k \in S : n - k \in Nat
        OBVIOUS
    <2> QED
        BY <2>1
<1>2. PICK t \in T : \A u \in T : t <= u
    BY <1>1, Least
<1>3. PICK m \in S : t = n - m
    OBVIOUS
<1>4. \A k \in S : n - m <= n - k
    BY <1>2, <1>3
<1> QED
    BY <1>4

LEMMA ListedFinite == PagesTyped => \A f : IsFiniteSet(Listed(f))
<1> SUFFICES ASSUME PagesTyped, NEW f PROVE IsFiniteSet(Listed(f))
    OBVIOUS
<1> DEFINE Entries(d) == {<<d, p>> : p \in DOMAIN edition[d].items}
           All == UNION {Entries(d) : d \in Dates}
           n(d) == Len(edition[d].items)
<1>1. ASSUME NEW d \in Dates PROVE IsFiniteSet(Entries(d))
    <2>1. n(d) \in Nat /\ DOMAIN edition[d].items = 1 .. n(d)
        BY DEF PagesTyped
    <2>2. IsFiniteSet(1 .. n(d))
        BY <2>1, FS_Interval
    <2>3. IsFiniteSet({d} \X (1 .. n(d)))
        BY <2>2, FS_Product, FS_Singleton
    <2>4. Entries(d) \subseteq {d} \X (1 .. n(d))
        BY <2>1
    <2> QED
        BY <2>3, <2>4, FS_Subset
<1>2. IsFiniteSet({Entries(d) : d \in Dates})
    <2> DEFINE g == [d \in Dates |-> Entries(d)]
               T == {Entries(d) : d \in Dates}
    <2>1. g \in Surjection(Dates, T)
        BY DEF Surjection
    <2> QED
        BY <2>1, FS_Surjection, PagesAssumption
<1>3. IsFiniteSet(All)
    BY <1>1, <1>2, FS_UNION
<1>4. Listed(f) \subseteq All
    BY DEF Listed, Readable
<1> QED
    BY <1>3, <1>4, FS_Subset

LEMMA OffsetGrows ==
    ASSUME NEW S, NEW T, S \subseteq T, IsFiniteSet(T), NEW e
    PROVE  Offset(e, S) \in Nat /\ Offset(e, T) \in Nat /\ Offset(e, S) <= Offset(e, T)
<1>1. {a \in S : Before(a, e)} \subseteq {a \in T : Before(a, e)}
    OBVIOUS
<1>2. IsFiniteSet({a \in T : Before(a, e)})
    BY FS_Subset
<1> QED
    BY <1>1, <1>2, FS_Subset, FS_CardinalityType DEF Offset

\* What is not on a page of the archive comes after it.
LEMMA SearchLemma ==
    ASSUME PagesTyped, NEW f, NEW from \in Nat, NEW e \in Listed(f), Offset(e, Listed(f)) >= from
    PROVE  LET p == SearchArchive(f, from)
           IN  e \in p.items \/ (p.next # 0 /\ Offset(e, Listed(f)) >= p.next)
<1> DEFINE S == Listed(f)
           o == Offset(e, S)
<1>1. IsFiniteSet(S) /\ o \in Nat
    BY ListedFinite, OffsetGrows
<1>2. o < Cardinality(S)
    <2>1. {a \in S : Before(a, e)} \subseteq S \ {e}
        <3>1. PICK d \in Readable, i \in Nat : e = <<d, i>>
            <4>1. PICK d \in Readable : e \in {<<d, i>> : i \in DOMAIN edition[d].items}
                BY Zenon DEF Listed
            <4>2. PICK i \in DOMAIN edition[d].items : e = <<d, i>>
                BY <4>1
            <4>3. edition[d].items \in Seq(Items)
                BY DEF PagesTyped, Readable
            <4>4. i \in Nat
                BY <4>2, <4>3
            <4> QED
                BY <4>2, <4>4
        <3>2. e[1] \in Nat /\ e[2] \in Nat
            BY <3>1, PagesAssumption DEF Readable
        <3> QED
            BY <3>2 DEF Before
    <2>2. IsFiniteSet(S \ {e}) /\ Cardinality(S \ {e}) = Cardinality(S) - 1
        BY <1>1, FS_RemoveElement
    <2>3. o <= Cardinality(S \ {e})
        BY <2>1, <2>2, FS_Subset DEF Offset
    <2> QED
        BY <1>1, <2>2, <2>3, FS_CardinalityType
<1>3. Cardinality(S) \in Nat /\ PageSize \in Nat \ {0}
    BY <1>1, FS_CardinalityType, PagesAssumption
<1>4. CASE o <= from + PageSize - 1
    <2>1. o \in from .. from + PageSize - 1
        BY <1>1, <1>3, <1>4
    <2> QED
        BY <2>1 DEF SearchArchive
<1>5. CASE o > from + PageSize - 1
    <2>1. o >= from + PageSize /\ Cardinality(S) > from + PageSize
        BY <1>1, <1>2, <1>3, <1>5
    <2>2. SearchArchive(f, from).next = from + PageSize
        BY <2>1 DEF SearchArchive, NextOffset
    <2> QED
        BY <1>3, <2>1, <2>2
<1> QED
    BY <1>1, <1>3, <1>4, <1>5

LEMMA SearchIsPage ==
    ASSUME PagesTyped, NEW f, NEW from \in Nat
    PROVE  IsPage(SearchArchive(f, from)) /\ SearchArchive(f, from).of = f
    BY PagesAssumption DEF SearchArchive, NextOffset, IsPage

\* And what is not on a page of the list of editions is earlier than it.
LEMMA ListLemma ==
    ASSUME PagesTyped, NEW c \in Nat
    PROVE  LET p == ListEditions(c)
           IN  /\ IsPage(p) /\ p.of = "all" /\ p.items \subseteq Earlier(c)
               /\ \A d \in Earlier(c) : d \in p.items \/ (p.next # 0 /\ d < p.next)
               /\ p.next # 0 => p.next \in p.items /\ \A d \in p.items : p.next <= d
<1> DEFINE rest == Earlier(c)
           After(d) == {a \in rest : a > d}
           items == {d \in rest : Cardinality(After(d)) < PageSize}
           next == IF Cardinality(rest) > PageSize
                   THEN CHOOSE d \in items : \A a \in items : d <= a ELSE 0
<1>1. ListEditions(c) = [of |-> "all", items |-> items, next |-> next]
    BY DEF ListEditions
<1>2. rest \subseteq Nat \ {0} /\ IsFiniteSet(rest) /\ PageSize \in Nat \ {0} /\ today \in Nat
    <2>1. rest \subseteq Dates
        BY DEF Earlier, Readable
    <2> QED
        BY <2>1, PagesAssumption, FS_Subset DEF PagesTyped
<1>3. \A d \in rest : IsFiniteSet(After(d)) /\ Cardinality(After(d)) \in Nat
    BY <1>2, FS_Subset, FS_CardinalityType
<1>4. Cardinality(rest) \in Nat
    BY <1>2, FS_CardinalityType
<1>5. CASE Cardinality(rest) <= PageSize
    <2>1. ASSUME NEW d \in rest PROVE d \in items
        <3>1. After(d) \subseteq rest \ {d}
            BY <1>2
        <3>2. IsFiniteSet(rest \ {d}) /\ Cardinality(rest \ {d}) = Cardinality(rest) - 1
            BY <1>2, FS_RemoveElement
        <3>3. Cardinality(After(d)) <= Cardinality(rest) - 1
            BY <3>1, <3>2, FS_Subset
        <3> QED
            BY <1>2, <1>3, <1>4, <1>5, <3>3
    <2>2. next = 0
        BY <1>2, <1>4, <1>5
    <2>3. items \subseteq rest
        OBVIOUS
    <2> HIDE DEF next, items
    <2> QED
        BY <1>1, <2>1, <2>2, <2>3 DEF IsPage
<1>6. CASE Cardinality(rest) > PageSize
    <2>1. rest # {}
        BY <1>2, <1>6, FS_EmptySet
    <2>2. \A d \in rest : d <= today
        BY DEF Earlier, Readable
    <2>3. PICK m \in rest : \A k \in rest : k <= m
        BY <1>2, <2>1, <2>2, Greatest
    <2>4. After(m) = {}
        BY <1>2, <2>3
    <2>5. m \in items
        BY <1>2, <2>4, FS_EmptySet
    <2>6. items \subseteq Nat /\ items # {}
        BY <1>2, <2>5
    <2>7. next \in items /\ \A a \in items : next <= a
        BY <1>6, <2>6, Least
    <2>8. next \in rest
        BY <2>7
    <2>9. ASSUME NEW d \in rest, d \notin items PROVE d < next
        <3> HIDE DEF next
        <3> SUFFICES ASSUME next <= d PROVE FALSE
            BY <1>2, <2>8
        <3>1. After(d) \subseteq After(next)
            BY <1>2, <2>8
        <3>2. Cardinality(After(d)) <= Cardinality(After(next))
            BY <1>3, <2>8, <3>1, FS_Subset
        <3>3. Cardinality(After(next)) < PageSize /\ ~(Cardinality(After(d)) < PageSize)
            BY <2>7, <2>9
        <3> QED
            BY <1>2, <1>3, <2>8, <3>2, <3>3
    <2> HIDE DEF next
    <2> QED
        BY <1>1, <1>2, <2>7, <2>8, <2>9 DEF IsPage
<1> QED
    BY <1>2, <1>4, <1>5, <1>6

----------------------------------------------------------------------------
\* What is published and saved.
Edits ==
    \/ \E d \in Dates : SaveEdition(d)
    \/ \E i \in Items : UpsertItem(i) \/ Save(i) \/ Unsave(i)
    \/ Tomorrow

LEMMA EditsGrow ==
    ASSUME PagesTyped, Edits
    PROVE  /\ UNCHANGED <<reader, page, active, seen, due, since, late, request>>
           /\ today' \in Nat /\ losses' \in Nat /\ losses <= losses'
           /\ DOMAIN edition' = Dates /\ \A d \in Dates : edition'[d].items \in Seq(Items)
           /\ DOMAIN topic' = Items
           /\ Readable \subseteq Readable'
           /\ losses' = losses => \A f : Listed(f) \subseteq Listed(f)'
<1>1. CASE \E d \in Dates : SaveEdition(d)
    <2>1. PICK d \in Dates : SaveEdition(d)
        BY <1>1
    <2>2. PICK status \in {"draft", "visible"}, items \in Compositions :
              /\ status = "draft" => ~Visible(d)
              /\ edition' = [edition EXCEPT ![d] = [status |-> status, items |-> items]]
        BY <2>1 DEF SaveEdition
    <2>3. /\ UNCHANGED <<today, topic, saved, reader, page, active, seen, due, since, late, request>>
          /\ losses' = losses + (IF Visible(d) THEN 1 ELSE 0)
        BY <2>1 DEF SaveEdition, Loses, shown
    <2>4. /\ DOMAIN edition' = Dates /\ edition'[d].items \in Seq(Items)
          /\ edition'[d].status = status
          /\ \A c \in Dates \ {d} : edition'[c] = edition[c]
        BY <2>2, PagesAssumption DEF PagesTyped
    <2>5. \A c \in Dates : Visible(c) => Visible(c)'
        BY <2>2, <2>4 DEF Visible
    <2>6. Readable \subseteq Readable'
        BY <2>3, <2>5 DEF Readable
    <2>7. ASSUME losses' = losses, NEW f PROVE Listed(f) \subseteq Listed(f)'
        <3>1. ~Visible(d)
            BY <2>3, <2>7 DEF PagesTyped
        <3>2. \A c \in Readable : c # d /\ edition'[c] = edition[c]
            BY <2>4, <3>1 DEF Readable
        <3> QED
            BY <2>3, <2>6, <3>2 DEF Listed, Matches
    <2> QED
        BY <2>3, <2>4, <2>6, <2>7 DEF PagesTyped
<1>2. CASE \E i \in Items : Save(i)
    <2>1. /\ UNCHANGED <<today, edition, topic, losses, reader, page, active, seen, due, since, late, request>>
          /\ saved \subseteq saved'
        BY <1>2 DEF Save, shown
    <2>2. Readable' = Readable
        BY <2>1 DEF Readable, Visible
    <2>3. \A f : Listed(f) \subseteq Listed(f)'
        BY <2>1, <2>2 DEF Listed, Matches
    <2> QED
        BY <2>1, <2>2, <2>3 DEF PagesTyped
<1>3. CASE \E i \in Items : Unsave(i)
    <2>1. /\ UNCHANGED <<today, edition, topic, reader, page, active, seen, due, since, late, request>>
          /\ losses' = losses + 1
        BY <1>3 DEF Unsave, Loses, shown
    <2>2. Readable' = Readable
        BY <2>1 DEF Readable, Visible
    <2> QED
        BY <2>1, <2>2 DEF PagesTyped
<1>4. CASE Tomorrow
    <2>1. /\ UNCHANGED <<edition, topic, saved, losses, reader, page, active, seen, due, since, late, request>>
          /\ today' = today + 1
        BY <1>4 DEF Tomorrow, shown
    <2>2. Readable \subseteq Readable'
        <3>1. today \in Nat /\ Dates \subseteq Nat
            BY PagesAssumption DEF PagesTyped
        <3>2. \A d \in Dates : d <= today => d <= today'
            BY <2>1, <3>1
        <3> QED
            BY <2>1, <3>2 DEF Readable, Visible
    <2>3. \A f : Listed(f) \subseteq Listed(f)'
        BY <2>1, <2>2 DEF Listed, Matches
    <2> QED
        BY <2>1, <2>2, <2>3 DEF PagesTyped
<1>5. CASE \E i \in Items : UpsertItem(i)
    <2>1. PICK i \in Items : UpsertItem(i)
        BY <1>5
    <2>2. /\ UNCHANGED <<today, edition, saved, reader, page, active, seen, due, since, late, request>>
          /\ losses' = losses + (IF Placed(i) THEN 1 ELSE 0)
        BY <2>1 DEF UpsertItem, Loses, shown
    <2>3. DOMAIN topic' = Items /\ \A j \in Items \ {i} : topic'[j] = topic[j]
        BY <2>1 DEF UpsertItem, PagesTyped
    <2>4. Readable' = Readable
        BY <2>2 DEF Readable, Visible
    <2>5. ASSUME losses' = losses, NEW f PROVE Listed(f) \subseteq Listed(f)'
        <3>1. ~Placed(i)
            BY <2>2, <2>5 DEF PagesTyped
        <3>2. \A d \in Readable : \A q \in DOMAIN edition[d].items :
                  topic'[edition[d].items[q]] = topic[edition[d].items[q]]
            <4> SUFFICES ASSUME NEW d \in Readable, NEW q \in DOMAIN edition[d].items
                         PROVE  topic'[edition[d].items[q]] = topic[edition[d].items[q]]
                OBVIOUS
            <4>1. edition[d].items \in Seq(Items)
                BY DEF PagesTyped, Readable
            <4>2. edition[d].items[q] \in Items
                BY <4>1
            <4>3. edition[d].items[q] # i
                BY <3>1 DEF Placed
            <4> QED
                BY <2>3, <4>2, <4>3
        <3> QED
            BY <2>2, <2>4, <3>2 DEF Listed, Matches
    <2> QED
        BY <2>2, <2>3, <2>4, <2>5 DEF PagesTyped
<1> QED
    BY <1>1, <1>2, <1>3, <1>4, <1>5 DEF Edits

LEMMA OffersGrow ==
    ASSUME NEW all, NEW by, NEW S, NEW T, NEW n \in Nat,
           S \subseteq T, IsFiniteSet(T), Offers(all, by, S, n)
    PROVE  Offers(all, by, T, n)
<1>1. \A e : Offset(e, S) \in Nat /\ Offset(e, T) \in Nat /\ Offset(e, S) <= Offset(e, T)
    BY OffsetGrows
<1> QED
    BY <1>1 DEF Offers

LEMMA FallsGrow ==
    ASSUME NEW all, NEW by, NEW S, NEW T, NEW n, S \subseteq T, Falls(all, by, S, n)
    PROVE  Falls(all, by, T, n)
    BY DEF Falls

LEMMA EditsKeep == ReadingInv /\ Edits => ReadingInv'
<1> SUFFICES ASSUME ReadingInv, Edits PROVE ReadingInv'
    OBVIOUS
<1>1. PagesTyped
    BY DEF ReadingInv
<1>2. /\ UNCHANGED <<reader, page, active, seen, due, since, late, request>>
      /\ today' \in Nat /\ losses' \in Nat /\ losses <= losses'
      /\ DOMAIN edition' = Dates /\ \A d \in Dates : edition'[d].items \in Seq(Items)
      /\ DOMAIN topic' = Items
      /\ Readable \subseteq Readable'
      /\ losses' = losses => \A f : Listed(f) \subseteq Listed(f)'
    BY <1>1, EditsGrow
<1>3. First' = First /\ Click' = Click
    BY <1>2 DEF First, Click
<1>4. PagesTyped'
    <2>1. IsRequest(First)' /\ IsRequest(Click)' /\ IsPage(page)'
        BY <1>1, <1>2, <1>3 DEF PagesTyped, IsRequest, IsRecord, IsPage
    <2>2. since' <= losses' /\ First'.at <= losses' /\ Click'.at <= losses'
        BY <1>1, <1>2, <1>3 DEF PagesTyped, IsRequest
    <2> QED
        BY <1>1, <1>2, <2>1, <2>2 DEF PagesTyped
<1>5. \A f : IsFiniteSet(Listed(f)')
    <2>1. (\A f : IsFiniteSet(Listed(f)))'
        BY <1>4, ListedFinite, PTL
    <2> QED
        BY <2>1
<1>6. CASE reader = "list"
    <2>1. EditionsInv
        BY <1>6 DEF ReadingInv
    <2>2. EditionsInv'
        BY <1>2, <1>3, <2>1, FallsGrow DEF EditionsInv
    <2> QED
        BY <1>2, <1>4, <1>6, <2>2 DEF ReadingInv
<1>7. CASE reader # "list"
    <2>1. ArchiveInv
        BY <1>7 DEF ReadingInv
    <2>2. ASSUME NEW k \in Nat, k <= losses, k = losses'
          PROVE  k = losses /\ losses' = losses
        BY <1>1, <1>2, <2>2 DEF PagesTyped
    <2>3. ASSUME NEW all, NEW by, NEW f, NEW n \in Nat, losses' = losses, Offers(all, by, Listed(f), n)
          PROVE  Offers(all, by, Listed(f)', n)
        BY <1>2, <1>5, <2>3, OffersGrow
    <2>4. ServedWell(First)' /\ ServedWell(Click)'
        BY <1>1, <1>2, <1>3, <2>1, <2>2, <2>3 DEF ServedWell, ArchiveInv, PagesTyped, IsRequest, IsPage
    <2>5. ShownWell'
        BY <1>1, <1>2, <2>1, <2>2, <2>3 DEF ShownWell, ArchiveInv, PagesTyped, IsPage
    <2>6. NextWell'
        BY <1>1, <1>2, <1>3, <2>1, <2>2, <2>3 DEF NextWell, ArchiveInv, PagesTyped, IsRequest, IsPage
    <2> QED
        BY <1>2, <1>3, <1>4, <1>7, <2>1, <2>4, <2>5, <2>6 DEF ArchiveInv, ReadingInv
<1> QED
    BY <1>6, <1>7

----------------------------------------------------------------------------
\* The requests of the reader.

LEMMA RequestStep ==
    ASSUME PagesTyped, NEW x,
           request' = [request EXCEPT !["first"] = x] \/ request' = [request EXCEPT !["click"] = x]
    PROVE  DOMAIN request' = {"first", "click"}
    BY DEF PagesTyped

\* A new request is not answered, a request that is over is quiet.
LEMMA AskedFacts ==
    ASSUME NEW kind, NEW of, NEW from
    PROVE  LET r == Asked(kind, of, from)
           IN  /\ IsRecord(r) /\ r.kind = kind /\ r.of = of /\ r.from = from
               /\ r.answer = Blank /\ r.at = 0
    BY DEF Asked, IsRecord

LEMMA BlankIsPage == IsPage(Blank) /\ Blank.of = "none" /\ Blank.items = {} /\ Blank.next = 0
    BY DEF Blank, IsPage

Served(r, p, l, n) == [r EXCEPT !.answer = p, !.all = l, !.at = n]
LEMMA ServedFacts ==
    ASSUME NEW r, IsRecord(r), NEW p, NEW l, NEW n
    PROVE  LET x == Served(r, p, l, n)
           IN  /\ IsRecord(x) /\ x.kind = r.kind /\ x.of = r.of /\ x.from = r.from
               /\ x.answer = p /\ x.all = l /\ x.at = n
<1> DEFINE a == [r EXCEPT !.answer = p]
           b == [a EXCEPT !.all = l]
           c == [b EXCEPT !.at = n]
<1>1. r = [kind |-> r.kind, of |-> r.of, from |-> r.from, answer |-> r.answer, all |-> r.all, at |-> r.at]
    BY DEF IsRecord
<1>2. a = [kind |-> r.kind, of |-> r.of, from |-> r.from, answer |-> p, all |-> r.all, at |-> r.at]
    BY <1>1
<1> HIDE DEF a
<1>3. b = [kind |-> r.kind, of |-> r.of, from |-> r.from, answer |-> p, all |-> l, at |-> r.at]
    BY <1>2
<1> HIDE DEF b
<1>4. c = [kind |-> r.kind, of |-> r.of, from |-> r.from, answer |-> p, all |-> l, at |-> n]
    BY <1>3
<1>5. Served(r, p, l, n) = c
    BY DEF a, b, Served
<1> HIDE DEF c
<1> QED
    BY <1>4, <1>5 DEF IsRecord

\* What is published stays as it is while the reader's page works.
Still == UNCHANGED <<today, edition, topic, saved, losses, reader>>
LEMMA StillListed == Still => Readable' = Readable /\ \A f : Listed(f)' = Listed(f)
    BY DEF Still, Readable, Visible, Listed, Matches

\* An error, or a click, leaves the page alone.
LEMMA ClickKeeps == ReadingInv /\ (Search \/ NextPage) => ReadingInv'
<1> SUFFICES ASSUME ReadingInv, Search \/ NextPage PROVE ReadingInv'
    OBVIOUS
<1>1. PagesTyped
    BY DEF ReadingInv
<1>2. PICK kind \in {"search", "next"}, of \in Params, from \in Nat :
          /\ request' = [request EXCEPT !["click"] = Asked(kind, of, from)]
          /\ kind = "search" => from = 0 /\ reader = "archive"
          /\ kind = "next" => from # 0 /\ from = page.next /\ of = active
    BY <1>1, PagesAssumption DEF Search, NextPage, PagesTyped, IsPage, Params
<1>3. Still /\ UNCHANGED <<page, active, seen, due, since, late>>
    BY DEF Search, NextPage, published, shown, Still
<1>4. First' = First /\ Click' = Asked(kind, of, from) /\ DOMAIN request' = {"first", "click"}
    BY <1>1, <1>2 DEF First, Click, PagesTyped
<1>5. /\ IsRecord(Click') /\ Click'.kind = kind /\ Click'.of = of /\ Click'.from = from
      /\ Click'.answer = Blank /\ Click'.at = 0
    BY <1>4, AskedFacts
<1>6. PagesTyped'
    <2>1. IsRequest(Click')
        BY <1>2, <1>5, BlankIsPage DEF IsRequest
    <2> QED
        BY <1>1, <1>3, <1>4, <1>5, <2>1 DEF PagesTyped, Still, IsPage, IsRequest, IsRecord
<1>7. kind = "next" => page # Blank
    BY <1>2, BlankIsPage
<1>8. reader = "list" => EditionsInv'
    <2> SUFFICES ASSUME reader = "list" PROVE EditionsInv'
        OBVIOUS
    <2>1. EditionsInv /\ Readable' = Readable
        BY <1>3, StillListed DEF ReadingInv
    <2> QED
        BY <1>2, <1>3, <1>4, <1>5, <1>7, <2>1, BlankIsPage DEF EditionsInv
<1>9. reader # "list" => ArchiveInv'
    <2> SUFFICES ASSUME reader # "list" PROVE ArchiveInv'
        OBVIOUS
    <2>1. ArchiveInv /\ \A f : Listed(f)' = Listed(f)
        BY <1>3, StillListed DEF ReadingInv
    <2>2. ServedWell(First)' /\ ServedWell(Click)'
        BY <1>3, <1>4, <1>5, <2>1 DEF ArchiveInv, ServedWell, Still
    <2>3. ShownWell' /\ NextWell'
        BY <1>2, <1>3, <1>4, <1>5, <1>7, <2>1 DEF ArchiveInv, ShownWell, NextWell, Still
    <2> QED
        BY <1>3, <1>4, <2>1, <2>2, <2>3 DEF ArchiveInv, Still
<1> QED
    BY <1>3, <1>6, <1>8, <1>9 DEF ReadingInv, Still

LEMMA QuietFacts ==
    /\ IsRequest(Quiet) /\ Quiet.kind = "idle" /\ Quiet.answer = Blank /\ Quiet.at = 0
    BY AskedFacts, BlankIsPage DEF Quiet, IsRequest

LEMMA FailedKeeps ==
    ASSUME ReadingInv, NEW s \in {"first", "click"}, Failed(s)
    PROVE  ReadingInv'
<1>1. PagesTyped
    BY DEF ReadingInv
<1>2. Still /\ UNCHANGED <<page, active, seen, due, since, late>>
    BY DEF Failed, published, shown, Still
<1>3. /\ DOMAIN request' = {"first", "click"}
      /\ First' = First \/ First' = Quiet
      /\ Click' = Click \/ Click' = Quiet
    BY <1>1 DEF Failed, First, Click, PagesTyped
<1>4. PagesTyped'
    <2>1. First'.at <= losses' /\ Click'.at <= losses'
        BY <1>1, <1>2, <1>3, QuietFacts DEF PagesTyped, Still
    <2>2. IsRequest(First') /\ IsRequest(Click')
        BY <1>1, <1>3, QuietFacts DEF PagesTyped
    <2> QED
        BY <1>1, <1>2, <1>3, <2>1, <2>2 DEF PagesTyped, Still, IsPage, IsRequest, IsRecord
<1>5. reader = "list" => EditionsInv'
    <2> SUFFICES ASSUME reader = "list" PROVE EditionsInv'
        OBVIOUS
    <2>1. EditionsInv /\ Readable' = Readable
        BY <1>2, StillListed DEF ReadingInv
    <2> QED
        BY <1>2, <1>3, <2>1, QuietFacts DEF EditionsInv
<1>6. reader # "list" => ArchiveInv'
    <2> SUFFICES ASSUME reader # "list" PROVE ArchiveInv'
        OBVIOUS
    <2>1. ArchiveInv /\ \A f : Listed(f)' = Listed(f)
        BY <1>2, StillListed DEF ReadingInv
    <2>2. ServedWell(First)' /\ ServedWell(Click)'
        BY <1>2, <1>3, <2>1, QuietFacts DEF ArchiveInv, ServedWell, Still
    <2>3. ShownWell' /\ NextWell'
        BY <1>2, <1>3, <2>1, QuietFacts DEF ArchiveInv, ShownWell, NextWell, Still
    <2> QED
        BY <1>2, <1>3, <2>1, <2>2, <2>3, QuietFacts DEF ArchiveInv, Still
<1> QED
    BY <1>2, <1>4, <1>5, <1>6 DEF ReadingInv, Still

\* The Worker answers from what is published now.
LEMMA ServeKeeps ==
    ASSUME ReadingInv, NEW s \in {"first", "click"}, Serve(s)
    PROVE  ReadingInv'
<1>1. PagesTyped
    BY DEF ReadingInv
<1> DEFINE r == request[s]
           p == IF reader = "list" THEN ListEditions(r.from) ELSE SearchArchive(r.of, r.from)
           l == IF reader = "list" THEN Readable ELSE Listed(r.of)
           x == Served(r, p, l, losses)
<1>2. /\ Still /\ UNCHANGED <<page, active, seen, due, since, late, losses>>
      /\ r.kind # "idle" /\ r.answer = Blank
      /\ request' = [request EXCEPT ![s] = x]
    BY DEF Serve, Served, published, shown, Still
<1>3. IsRequest(r)
    BY <1>1 DEF PagesTyped, First, Click
<1>4. /\ IsRecord(x) /\ x.kind = r.kind /\ x.of = r.of /\ x.from = r.from
      /\ x.answer = p /\ x.all = l /\ x.at = losses
    <2> HIDE DEF p, l
    <2>1. IsRecord(r)
        BY <1>3 DEF IsRequest
    <2> HIDE DEF r
    <2> QED
        BY <2>1, ServedFacts
<1> HIDE DEF x
<1>5. /\ DOMAIN request' = {"first", "click"}
      /\ s = "first" => First' = x /\ Click' = Click
      /\ s = "click" => Click' = x /\ First' = First
    BY <1>1, <1>2 DEF First, Click, PagesTyped
<1>6. /\ r.from \in Nat /\ r.of \in Params
      /\ r.kind \in {"search", "next"}
      /\ r.kind = "search" => r.from = 0
      /\ r.kind = "next" => r.from # 0
      /\ s = "first" => r = First
      /\ s = "click" => r = Click
    BY <1>2, <1>3 DEF IsRequest, First, Click
<1> HIDE DEF r
<1>7. IsPage(p)
    BY <1>1, <1>6, ListLemma, SearchIsPage
<1> HIDE DEF p
<1>8. PagesTyped'
    <2>1. IsRequest(x)
        BY <1>1, <1>3, <1>2, <1>4, <1>7 DEF IsRequest, PagesTyped
    <2>2. IsRequest(First') /\ IsRequest(Click') /\ First'.at <= losses' /\ Click'.at <= losses'
        BY <1>1, <1>2, <1>4, <1>5, <2>1 DEF PagesTyped
    <2> QED
        BY <1>1, <1>2, <1>5, <2>2 DEF PagesTyped, Still, IsPage, IsRequest, IsRecord
<1>9. ASSUME reader = "list" PROVE EditionsInv'
    <2>1. EditionsInv /\ Readable' = Readable /\ Readable \subseteq Dates /\ Dates \subseteq Nat
        BY <1>2, <1>9, StillListed, PagesAssumption DEF ReadingInv, Readable
    <2>2. /\ p.items \subseteq Earlier(r.from) /\ p.next \in Nat
          /\ \A d \in Earlier(r.from) : d \in p.items \/ (p.next # 0 /\ d < p.next)
          /\ p.next # 0 => p.next \in p.items /\ \A d \in p.items : p.next <= d
        BY <1>1, <1>6, <1>9, ListLemma DEF p, IsPage
    <2>3. x.all = Readable
        BY <1>4, <1>9
    <2>4. CASE s = "first"
        <3>1. r.from = 0 /\ page = Blank
            BY <1>6, <2>1, <2>4, QuietFacts DEF EditionsInv
        <3>2. Earlier(r.from) = Readable
            BY <3>1 DEF Earlier
        <3>3. Falls(x.all, x.answer.items, Readable, x.answer.next)
            BY <1>4, <2>1, <2>2, <2>3, <3>2 DEF Falls
        <3>4. Click.kind # "next"
            BY <2>1, <3>1 DEF EditionsInv
        <3> QED
            BY <1>2, <1>4, <1>5, <1>6, <2>1, <2>4, <3>1, <3>3, <3>4 DEF EditionsInv
    <2>5. CASE s = "click"
        <3>1. r.kind = "next" /\ page # Blank /\ r.from = page.next /\ r.from # 0
            BY <1>6, <2>1, <2>5 DEF EditionsInv
        <3>2. First = Quiet /\ Falls(due, seen, Readable, page.next)
            BY <2>1, <3>1 DEF EditionsInv
        <3>3. \A d \in Earlier(r.from) : d \in Readable /\ d < r.from
            BY <3>1 DEF Earlier
        <3>4. \A d \in due : d \in seen \/ d \in Earlier(r.from)
            BY <3>1, <3>2 DEF Falls, Earlier
        <3>5. p.next # 0 => \A d \in seen : p.next <= d
            <4>1. ASSUME p.next # 0 PROVE p.next < r.from
                BY <4>1, <2>2, <3>3
            <4>2. \A d \in seen : r.from <= d /\ d \in Nat
                BY <2>1, <3>1, <3>2 DEF Falls
            <4> QED
                BY <1>6, <2>2, <4>1, <4>2
        <3>6. Falls(due, seen \cup p.items, Readable, p.next)
            BY <2>1, <2>2, <3>2, <3>3, <3>4, <3>5 DEF Falls
        <3> QED
            BY <1>2, <1>4, <1>5, <2>1, <2>2, <2>5, <3>1, <3>2, <3>3, <3>6, QuietFacts DEF EditionsInv
    <2> QED
        BY <2>4, <2>5
<1>10. ASSUME reader # "list" PROVE ArchiveInv'
    <2>1. ArchiveInv /\ \A f : Listed(f)' = Listed(f)
        BY <1>2, <1>10, StillListed DEF ReadingInv
    <2>2. p = SearchArchive(r.of, r.from) /\ p.of = r.of /\ x.all = Listed(r.of)
        BY <1>1, <1>4, <1>6, <1>10, SearchIsPage DEF p
    <2>3. \A f : IsFiniteSet(Listed(f))
        BY <1>1, ListedFinite
    <2>4. ASSUME NEW f \in Params, f = r.of, NEW all, NEW by, NEW n \in Nat,
                 n = r.from, \A e \in all : e \in by \/ Offset(e, Listed(f)) >= n,
                 all \subseteq Listed(f)
          PROVE  Offers(all, by \cup p.items, Listed(f), p.next)
        <3>1. ASSUME NEW e \in all, Offset(e, Listed(f)) >= n
              PROVE  e \in p.items \/ (p.next # 0 /\ Offset(e, Listed(f)) >= p.next)
            BY <1>1, <2>2, <2>4, <3>1, SearchLemma
        <3> QED
            BY <2>4, <3>1 DEF Offers
    <2>5. CASE r.kind = "search"
        <3>1. \A f \in Params : f = r.of => Offers(x.all, x.answer.items, Listed(f), x.answer.next)
            <4> SUFFICES ASSUME NEW f \in Params, f = r.of
                         PROVE  Offers(Listed(f), p.items, Listed(f), p.next)
                BY <1>4, <2>2
            <4>1. \A e \in Listed(f) : e \in {} \/ Offset(e, Listed(f)) >= 0
                BY <2>3, OffsetGrows
            <4>2. Offers(Listed(f), {} \cup p.items, Listed(f), p.next)
                BY <1>6, <2>4, <2>5, <4>1
            <4> QED
                BY <4>2
        <3>2. ServedWell(First)' /\ ServedWell(Click)'
            BY <1>2, <1>4, <1>5, <2>1, <2>2, <3>1 DEF ArchiveInv, ServedWell
        <3>3. ShownWell' /\ NextWell'
            BY <1>2, <1>4, <1>5, <1>6, <2>1, <2>5 DEF ArchiveInv, ShownWell, NextWell
        <3> QED
            BY <1>2, <1>4, <1>5, <1>6, <2>1, <3>2, <3>3 DEF ArchiveInv, Still
    <2>6. CASE r.kind = "next"
        <3>1. s = "click"
            BY <1>6, <2>1, <2>6 DEF ArchiveInv
        <3>2. ServedWell(First)' /\ ServedWell(Click)'
            BY <1>2, <1>4, <1>5, <2>1, <2>6, <3>1 DEF ArchiveInv, ServedWell
        <3>3. ShownWell'
            BY <1>2, <2>1 DEF ArchiveInv, ShownWell
        <3>4. page # Blank /\ (~late => r.from = page.next /\ r.of = active)
            BY <1>6, <2>1, <2>6, <3>1 DEF ArchiveInv, NextWell
        <3>5. ASSUME ~late, NEW f \in Params, f = active, since = losses
              PROVE  Offers(due, seen \cup p.items, Listed(f), p.next)
            <4>1. Offers(due, seen, Listed(f), page.next)
                BY <2>1, <3>4, <3>5 DEF ArchiveInv, ShownWell
            <4> QED
                BY <1>6, <2>4, <3>4, <3>5, <4>1 DEF Offers
        <3>6. NextWell'
            BY <1>2, <1>4, <1>5, <2>1, <2>2, <3>1, <3>4, <3>5 DEF NextWell
        <3> QED
            BY <1>2, <1>5, <2>1, <3>1, <3>2, <3>3, <3>6 DEF ArchiveInv, Still
    <2> QED
        BY <1>6, <2>5, <2>6
<1> QED
    BY <1>2, <1>8, <1>9, <1>10 DEF ReadingInv, Still

\* The page shows the answer.
LEMMA AnsweredKeeps ==
    ASSUME ReadingInv, NEW s \in {"first", "click"}, Answered(s)
    PROVE  ReadingInv'
<1>1. PagesTyped
    BY DEF ReadingInv
<1> DEFINE r == request[s]
<1>2. /\ Still /\ losses' = losses
      /\ r.answer # Blank /\ page' = r.answer
      /\ active' = IF s = "click" /\ r.kind = "search" THEN r.of ELSE active
      /\ r.kind = "next" => seen' = seen \cup r.answer.items /\ UNCHANGED <<due, since, late>>
      /\ r.kind # "next" => /\ seen' = r.answer.items /\ due' = r.all /\ since' = r.at
                            /\ late' = (s = "first" /\ page # Blank)
      /\ request' = [request EXCEPT ![s] = Quiet]
    BY DEF Answered, ActiveAfter, published, Still
<1>3. /\ DOMAIN request' = {"first", "click"}
      /\ s = "first" => r = First /\ First' = Quiet /\ Click' = Click
      /\ s = "click" => r = Click /\ Click' = Quiet /\ First' = First
    BY <1>1, <1>2 DEF First, Click, PagesTyped
<1>4. IsRequest(r) /\ r.at <= losses
    BY <1>1 DEF PagesTyped, First, Click
<1> HIDE DEF r
<1>5. r.kind \in {"search", "next"} /\ r.of \in Params /\ r.from \in Nat /\ r.at \in Nat
    BY <1>2, <1>4 DEF IsRequest
<1>6. PagesTyped'
    <2>1. /\ since' \in Nat /\ since' <= losses' /\ late' \in BOOLEAN
          /\ active' \in Params /\ IsPage(page')
        BY <1>1, <1>2, <1>4, <1>5 DEF PagesTyped, IsRequest
    <2>2. /\ First'.at <= losses' /\ Click'.at <= losses'
          /\ IsRequest(First') /\ IsRequest(Click')
        BY <1>1, <1>2, <1>3, QuietFacts DEF PagesTyped
    <2> QED
        BY <1>1, <1>2, <1>3, <2>1, <2>2 DEF PagesTyped, Still, IsPage, IsRequest, IsRecord
<1>7. ASSUME reader = "list" PROVE EditionsInv'
    <2>1. EditionsInv /\ Readable' = Readable
        BY <1>2, <1>7, StillListed DEF ReadingInv
    <2>2. CASE s = "first"
        <3>1. /\ r.kind = "search" /\ r = First /\ First.answer # Blank /\ First # Quiet
              /\ page = Blank /\ Click.kind # "next"
            BY <1>2, <1>3, <1>5, <2>1, <2>2, QuietFacts DEF EditionsInv
        <3>2. Falls(due', seen', Readable, page'.next)
            BY <1>2, <2>1, <3>1 DEF EditionsInv
        <3> QED
            BY <1>2, <1>3, <2>1, <2>2, <3>1, <3>2, QuietFacts DEF EditionsInv
    <2>3. CASE s = "click"
        <3>1. r.kind = "next" /\ r = Click /\ page # Blank /\ First = Quiet
            BY <1>3, <1>5, <2>1, <2>3 DEF EditionsInv
        <3>2. Falls(due', seen', Readable, page'.next)
            BY <1>2, <2>1, <3>1 DEF EditionsInv
        <3> QED
            BY <1>2, <1>3, <2>1, <2>3, <3>1, <3>2, QuietFacts DEF EditionsInv
    <2> QED
        BY <2>2, <2>3
<1>8. ASSUME reader # "list" PROVE ArchiveInv'
    <2>1. ArchiveInv /\ \A f : Listed(f)' = Listed(f)
        BY <1>2, <1>8, StillListed DEF ReadingInv
    <2>2. page' # Blank /\ reader' = reader
        BY <1>2 DEF Still
    <2>3. ServedWell(First)' /\ ServedWell(Click)'
        BY <1>2, <1>3, <2>1, QuietFacts DEF ArchiveInv, ServedWell
    <2>4. First'.kind # "idle" => First'.kind = "search" /\ First'.of = FirstParams(reader')
        BY <1>3, <2>1, <2>2, QuietFacts DEF ArchiveInv
    <2>5. CASE r.kind = "search"
        <3>1. ServedWell(r)
            BY <1>3, <2>1 DEF ArchiveInv
        <3>2. /\ r.answer.of = r.of
              /\ \A f \in Params : f = r.of /\ r.at = losses =>
                    Offers(r.all, r.answer.items, Listed(f), r.answer.next)
            BY <1>2, <2>5, <3>1 DEF ServedWell
        <3>3. ~late' => active' = r.of
            <4>1. s = "first" /\ page = Blank => active = r.of
                BY <1>3, <2>1, <2>5 DEF ArchiveInv
            <4> QED
                BY <1>2, <2>5, <4>1
        <3>4. ShownWell'
            BY <1>2, <2>1, <2>5, <3>2, <3>3 DEF ShownWell
        <3>5. NextWell'
            <4>1. CASE s = "click"
                BY <1>3, <4>1, QuietFacts DEF NextWell
            <4>2. CASE s = "first"
                <5>1. Click' = Click /\ (Click.kind = "next" => page # Blank)
                    BY <1>3, <2>1, <4>2 DEF ArchiveInv, NextWell
                <5>2. Click.kind = "next" => late'
                    BY <1>2, <2>5, <4>2, <5>1
                <5> QED
                    BY <2>2, <5>1, <5>2 DEF NextWell
            <4> QED
                BY <4>1, <4>2
        <3> QED
            BY <2>2, <2>3, <2>4, <3>4, <3>5 DEF ArchiveInv
    <2>6. CASE r.kind = "next"
        <3>1. s = "click" /\ r = Click
            BY <1>3, <2>1, <2>6 DEF ArchiveInv
        <3>2. NextWell'
            BY <1>3, <3>1, QuietFacts DEF NextWell
        <3>3. ShownWell'
            BY <1>2, <2>1, <2>6, <3>1 DEF ArchiveInv, NextWell, ShownWell
        <3> QED
            BY <2>2, <2>3, <2>4, <3>2, <3>3 DEF ArchiveInv
    <2> QED
        BY <1>5, <2>5, <2>6
<1> QED
    BY <1>2, <1>6, <1>7, <1>8 DEF ReadingInv, Still

LEMMA PagesStutter == ReadingInv /\ UNCHANGED pagesVars => ReadingInv'
<1> SUFFICES ASSUME ReadingInv, UNCHANGED pagesVars PROVE ReadingInv'
    OBVIOUS
<1>1. Still /\ UNCHANGED <<losses, page, active, seen, due, since, late, request>>
    BY DEF pagesVars, published, shown, Still
<1>2. Readable' = Readable /\ \A f : Listed(f)' = Listed(f)
    BY <1>1, StillListed
<1>3. First' = First /\ Click' = Click
    BY <1>1 DEF First, Click
<1>4. PagesTyped'
    BY <1>1, <1>3 DEF ReadingInv, PagesTyped, Still, IsPage, IsRequest, IsRecord
<1>5. EditionsInv => EditionsInv'
    BY <1>1, <1>2, <1>3 DEF EditionsInv
<1>6. ArchiveInv => ArchiveInv'
    <2> SUFFICES ASSUME ArchiveInv PROVE ArchiveInv'
        OBVIOUS
    <2>1. ServedWell(First)' /\ ServedWell(Click)'
        BY <1>1, <1>2, <1>3 DEF ArchiveInv, ServedWell
    <2>2. ShownWell' /\ NextWell'
        BY <1>1, <1>2, <1>3 DEF ArchiveInv, ShownWell, NextWell
    <2> QED
        BY <1>1, <1>3, <2>1, <2>2 DEF ArchiveInv, Still
<1> QED
    BY <1>1, <1>4, <1>5, <1>6 DEF ReadingInv, Still

LEMMA InitReading == PagesInit => ReadingInv
<1> SUFFICES ASSUME PagesInit PROVE ReadingInv
    OBVIOUS
<1> DEFINE f == FirstParams(reader)
<1>1. /\ First = Asked("search", f, 0) /\ Click = Quiet
      /\ DOMAIN request = {"first", "click"}
    BY DEF PagesInit, First, Click
<1>2. f \in Params
    BY DEF FirstParams, Params
<1> HIDE DEF f
<1>3. /\ IsRequest(First) /\ First.kind = "search" /\ First.of = f
      /\ First.answer = Blank /\ First.at = 0
    BY <1>1, <1>2, AskedFacts, BlankIsPage DEF IsRequest
<1>4. IsRequest(Click) /\ Click.kind = "idle" /\ Click.answer = Blank /\ Click.at = 0
    BY <1>1, QuietFacts
<1>5. page = Blank /\ active = f /\ late = FALSE
    BY DEF PagesInit, f
<1>6. PagesTyped
    <2>1. today \in Nat /\ losses = 0 /\ since = 0 /\ reader \in {"archive", "saved", "list"}
        BY PagesAssumption DEF PagesInit
    <2>2. DOMAIN edition = Dates /\ \A d \in Dates : edition[d].items \in Seq(Items)
        <3>1. edition = [d \in Dates |-> [status |-> "none", items |-> <<>>]]
            BY DEF PagesInit
        <3>2. <<>> \in Seq(Items)
            OBVIOUS
        <3> QED
            BY <3>1, <3>2
    <2>5. DOMAIN topic = Items
        BY PagesAssumption DEF PagesInit
    <2>3. IsPage(page) /\ active \in Params /\ late \in BOOLEAN
        BY <1>2, <1>5, BlankIsPage
    <2>4. since <= losses /\ First.at <= losses /\ Click.at <= losses /\ losses \in Nat
        BY <1>3, <1>4, <2>1
    <2> QED
        BY <1>1, <1>3, <1>4, <2>1, <2>2, <2>3, <2>4, <2>5 DEF PagesTyped
<1>7. EditionsInv
    BY <1>3, <1>4, <1>5 DEF EditionsInv
<1>8. ArchiveInv
    BY <1>3, <1>4, <1>5 DEF ArchiveInv, ServedWell, ShownWell, NextWell, f
<1> QED
    BY <1>6, <1>7, <1>8 DEF ReadingInv

LEMMA PagesNextKeeps == ReadingInv /\ [PagesNext]_pagesVars => ReadingInv'
<1> SUFFICES ASSUME ReadingInv, [PagesNext]_pagesVars PROVE ReadingInv'
    OBVIOUS
<1>1. CASE \E s \in {"first", "click"} : Serve(s) \/ Answered(s) \/ Failed(s)
    BY <1>1, ServeKeeps, AnsweredKeeps, FailedKeeps
<1>2. CASE Edits
    BY <1>2, EditsKeep
<1> QED
    BY <1>1, <1>2, ClickKeeps, PagesStutter DEF PagesNext, Edits

(***************************************************************************)
(* ListingIsWhole: for any editions, filters, length of a page and         *)
(* requests in flight, a reader who goes on to the last page has been      *)
(* shown all that was there at first (ArchivePage, SavedPage,              *)
(* searchArchive, listEditions).                                           *)
(***************************************************************************)
THEOREM ListingsAreWhole == PagesSpec => []ListingIsWhole
<1>1. ReadingInv => ListingIsWhole
    <2> SUFFICES ASSUME ReadingInv PROVE ListingIsWhole
        OBVIOUS
    <2>1. PagesTyped
        BY DEF ReadingInv
    <2>2. CASE reader = "list"
        <3>1. EditionsInv
            BY <2>2 DEF ReadingInv
        <3>2. page # Blank /\ page.next = 0 => due \subseteq seen
            BY <3>1 DEF EditionsInv, Falls
        <3>3. Click.kind = "next" => Click.answer.items \cap seen = {}
            <4> SUFFICES ASSUME Click.kind = "next", NEW d \in Click.answer.items, d \in seen
                         PROVE  FALSE
                OBVIOUS
            <4>1. /\ d < Click.from /\ Click.from = page.next /\ page # Blank
                  /\ Click.from \in Nat /\ Click.from # 0
                BY <2>1, <3>1 DEF EditionsInv, PagesTyped, IsRequest
            <4>2. page.next <= d /\ d \in Nat
                BY <3>1, <4>1, PagesAssumption DEF EditionsInv, Falls
            <4> QED
                BY <4>1, <4>2
        <3> QED
            BY <2>2, <3>2, <3>3 DEF ListingIsWhole, Click
    <2>3. CASE reader # "list"
        <3>1. ShownWell
            BY <2>3 DEF ReadingInv, ArchiveInv
        <3> QED
            BY <2>1, <2>3, <3>1 DEF ListingIsWhole, ShownWell, Offers, PagesTyped
    <2> QED
        BY <2>2, <2>3
<1> QED
    BY <1>1, InitReading, PagesNextKeeps, PTL DEF PagesSpec

----------------------------------------------------------------------------
(* The weights that the feedback adds up to.                                 *)

\* Induction up to n, for a set of numbers.
LEMMA Reaches ==
    ASSUME NEW n \in Nat, NEW P, 0 \in P, \A k \in 1 .. n : k - 1 \in P => k \in P
    PROVE  \A k \in 0 .. n : k \in P
<1> DEFINE Bad == {k \in Nat : k <= n /\ k \notin P}
<1> SUFFICES ASSUME Bad # {} PROVE FALSE
    OBVIOUS
<1>1. PICK k \in Bad : \A j \in Bad : k <= j
    BY Least
<1>2. k \in 1 .. n /\ k \notin P /\ k - 1 \in Nat /\ k - 1 <= n /\ ~(k <= k - 1)
    BY <1>1
<1>3. k - 1 \in P
    BY <1>1, <1>2
<1> QED
    BY <1>2, <1>3

\* A recursion over 0 .. n whose steps stay in S has its function.
IsIteration(f, S, first, n, step) ==
    /\ f \in [0 .. n -> S] /\ f[0] = first
    /\ \A k \in 1 .. n : f[k] = step[<<f[k - 1], k>>]
LEMMA Iterates ==
    ASSUME NEW S, NEW first \in S, NEW n \in Nat, NEW step \in [S \X (1 .. n) -> S]
    PROVE  \E f : IsIteration(f, S, first, n, step)
<1> DEFINE Upto(f, m) == /\ f \in [0 .. m -> S] /\ f[0] = first
                         /\ \A k \in 1 .. m : f[k] = step[<<f[k - 1], k>>]
           P == {m \in 0 .. n : \E f : Upto(f, m)}
<1>1. 0 \in P
    <2>1. Upto([k \in 0 .. 0 |-> first], 0)
        OBVIOUS
    <2> HIDE DEF Upto
    <2>2. \E f : Upto(f, 0)
        BY <2>1
    <2> QED
        BY <2>2
<1>2. ASSUME NEW m \in 1 .. n, m - 1 \in P PROVE m \in P
    <2>1. PICK f : Upto(f, m - 1)
        BY <1>2
    <2> DEFINE g == [k \in 0 .. m |-> IF k = m THEN step[<<f[m - 1], m>>] ELSE f[k]]
    <2>2. m - 1 \in 0 .. m - 1 /\ f[m - 1] \in S /\ step[<<f[m - 1], m>>] \in S
        BY <2>1
    <2>3. \A k \in 0 .. m - 1 : k \in 0 .. m /\ g[k] = f[k] /\ g[k] \in S
        BY <2>1
    <2>4. g \in [0 .. m -> S]
        <3>1. g[m] = step[<<f[m - 1], m>>]
            OBVIOUS
        <3>2. \A k \in 0 .. m : k \in 0 .. m - 1 \/ k = m
            OBVIOUS
        <3>3. \A k \in 0 .. m : g[k] \in S
            BY <2>2, <2>3, <3>1, <3>2
        <3>4. g = [k \in 0 .. m |-> g[k]]
            OBVIOUS
        <3> HIDE DEF g
        <3> QED
            BY <3>3, <3>4
    <2>5. g[0] = first
        BY <2>1, <2>3
    <2>6. ASSUME NEW k \in 1 .. m PROVE g[k] = step[<<g[k - 1], k>>]
        <3>1. g[k - 1] = f[k - 1]
            BY <2>3
        <3>2. CASE k = m
            <4>1. g[m] = step[<<f[m - 1], m>>]
                OBVIOUS
            <4> HIDE DEF g
            <4> QED
                BY <3>1, <3>2, <4>1
        <3>3. CASE k # m
            <4>1. k \in 1 .. m - 1 /\ g[k] = f[k]
                BY <2>3, <3>3
            <4> QED
                BY <2>1, <3>1, <4>1
        <3> QED
            BY <3>2, <3>3
    <2> HIDE DEF g
    <2>7. Upto(g, m)
        BY <2>4, <2>5, <2>6
    <2> QED
        BY <2>7
<1>3. n \in P
    <2> HIDE DEF P
    <2> QED
        BY <1>1, <1>2, Reaches
<1> QED
    BY <1>3 DEF IsIteration

IsAdjusting(f, p) ==
    f = [n \in 0 .. Len(p.history) |->
            IF n = 0 THEN p.weights ELSE Adjusted(f[n - 1], p.history[n])]
IsSum(f, w, history, key, delta) ==
    f = [n \in 0 .. Len(history) |->
            IF n = 0 THEN w[key] + delta
            ELSE f[n - 1] + (IF history[n].key = key THEN history[n].delta ELSE 0)]
IsLeft(f, history, id) ==
    f = [n \in 0 .. Len(history) |->
            IF n = 0 THEN <<>>
            ELSE IF history[n].id = id THEN f[n - 1] ELSE Append(f[n - 1], history[n])]

LEMMA RoundedFacts ==
    /\ \A w \in Int : Rounded(w) \in Int /\ Rounded(Rounded(w)) = Rounded(w)
    /\ \A w \in Int, d \in Deltas : Rounded(w + d) = Rounded(w) + d /\ (w + d) % 10 = w % 10
    BY DEF Rounded, Deltas

\* The two ways of rounding differ on halves, by a tenth.
LEMMA SqlRoundedFacts ==
    /\ \A w \in Int : SqlRounded(w) \in Int
    /\ \A w \in Int : \/ SqlRounded(w) = Rounded(w)
                      \/ w % 10 = 5 /\ SqlRounded(w) = Rounded(w) - 10
<1> SUFFICES ASSUME NEW w \in Int
             PROVE  /\ SqlRounded(w) \in Int
                    /\ \/ SqlRounded(w) = Rounded(w)
                       \/ w % 10 = 5 /\ SqlRounded(w) = Rounded(w) - 10
    OBVIOUS
<1>1. CASE w < 0
    BY <1>1 DEF SqlRounded, Rounded
<1>2. CASE ~(w < 0)
    BY <1>2 DEF SqlRounded, Rounded
<1> QED
    BY <1>1, <1>2

LEMMA AdjustedFacts ==
    ASSUME NEW w \in Weights, NEW a \in Adjustment
    PROVE  /\ Adjusted(w, a) \in Weights
           /\ \A k \in Keys : Adjusted(w, a)[k] = IF a.key = k THEN Rounded(w[k] + a.delta) ELSE w[k]
<1>1. a.key \in Keys /\ a.delta \in Int /\ w[a.key] \in Int
    BY DEF Adjustment, Weights, Deltas
<1>2. Rounded(w[a.key] + a.delta) \in Int
    BY <1>1, RoundedFacts
<1>3. Adjusted(w, a) = [w EXCEPT ![a.key] = Rounded(w[a.key] + a.delta)]
    BY DEF Adjusted
<1> QED
    BY <1>1, <1>2, <1>3 DEF Weights

\* getPreferences, row by row.
Adjusts(f, w, h, result) ==
    /\ f \in [0 .. Len(h) -> Weights]
    /\ f[0] = w /\ \A n \in 1 .. Len(h) : f[n] = Adjusted(f[n - 1], h[n])
    /\ result = f[Len(h)]
LEMMA EffectiveIs ==
    ASSUME NEW w \in Weights, NEW h \in Seq(Adjustment), NEW p, p = [weights |-> w, history |-> h]
    PROVE  \E f : Adjusts(f, w, h, Effective(p))
<1> DEFINE N == Len(h)
           step == [x \in Weights \X (1 .. N) |-> Adjusted(x[1], h[x[2]])]
<1>0. N \in Nat /\ p.weights = w /\ p.history = h /\ \A n \in 1 .. N : h[n] \in Adjustment
    OBVIOUS
<1>1. step \in [Weights \X (1 .. N) -> Weights]
    BY <1>0, AdjustedFacts
<1>2. PICK f : IsIteration(f, Weights, w, N, step)
    <2> HIDE DEF step, N
    <2> QED
        BY <1>0, <1>1, Iterates, Zenon
<1>3. \A n \in 1 .. N : f[n] = Adjusted(f[n - 1], h[n])
    <2> TAKE n \in 1 .. N
    <2> HIDE DEF step
    <2>0. f \in [0 .. N -> Weights] /\ f[n] = step[<<f[n - 1], n>>] /\ n - 1 \in 0 .. N
        BY <1>0, <1>2 DEF IsIteration
    <2>1. f[n - 1] \in Weights /\ f[n] = step[<<f[n - 1], n>>]
        BY <2>0
    <2> USE DEF step
    <2> QED
        BY <2>1
<1>4. IsAdjusting(f, p)
    BY <1>0, <1>2, <1>3 DEF IsAdjusting, IsIteration
<1> DEFINE after == CHOOSE g : IsAdjusting(g, p)
<1>5. IsAdjusting(after, p)
    BY <1>4, Zenon
<1>6. Effective(p) = after[N]
    BY <1>0 DEF Effective, IsAdjusting
<1> HIDE DEF after
<1>7. /\ after = [n \in 0 .. N |-> after[n]] /\ after[0] = w
      /\ \A n \in 1 .. N : after[n] = Adjusted(after[n - 1], h[n])
    BY <1>0, <1>5 DEF IsAdjusting
<1>8. \A n \in 0 .. N : n \in {m \in 0 .. N : after[m] \in Weights}
    <2> DEFINE P == {m \in 0 .. N : after[m] \in Weights}
    <2>1. 0 \in P
        BY <1>0, <1>7
    <2>2. ASSUME NEW n \in 1 .. N, n - 1 \in P PROVE n \in P
        <3>1. after[n - 1] \in Weights /\ h[n] \in Adjustment /\ after[n] = Adjusted(after[n - 1], h[n])
            BY <1>0, <1>7, <2>2
        <3>2. after[n] \in Weights
            BY <3>1, AdjustedFacts
        <3> QED
            BY <3>2
    <2> HIDE DEF P
    <2> QED
        BY <1>0, <2>1, <2>2, Reaches DEF P
<1>9. after \in [0 .. N -> Weights]
    BY <1>7, <1>8
<1> QED
    BY <1>6, <1>7, <1>9 DEF Adjusts

LEMMA AdjustmentFacts ==
    /\ \A a \in Adjustment : a.key \in Keys /\ a.delta \in Deltas /\ a.delta \in Int
    /\ \A h \in Seq(Adjustment) : Len(h) \in Nat /\ \A n \in 1 .. Len(h) : h[n] \in Adjustment
<1>1. \A a \in Adjustment : a.key \in Keys /\ a.delta \in Deltas /\ a.delta \in Int
    BY DEF Adjustment, Deltas
<1>2. \A h \in Seq(Adjustment) : Len(h) \in Nat /\ \A n \in 1 .. Len(h) : h[n] \in Adjustment
    OBVIOUS
<1> QED
    BY <1>1, <1>2

\* recordFeedback, one adjustment after the other.
Sums(f, first, h, key, result) ==
    /\ f \in [0 .. Len(h) -> Int]
    /\ f[0] = first
    /\ \A n \in 1 .. Len(h) : f[n] = f[n - 1] + (IF h[n].key = key THEN h[n].delta ELSE 0)
    /\ result = SqlRounded(f[Len(h)])
LEMMA ResultIs ==
    ASSUME NEW w \in Weights, NEW h \in Seq(Adjustment), NEW key \in Keys, NEW delta \in Deltas
    PROVE  \E f : Sums(f, w[key] + delta, h, key, ResultOf(w, h, key, delta))
<1> DEFINE N == Len(h)
           adds(n) == IF h[n].key = key THEN h[n].delta ELSE 0
           step == [x \in Int \X (1 .. N) |-> x[1] + adds(x[2])]
<1>0. N \in Nat /\ w[key] + delta \in Int /\ \A n \in 1 .. N : adds(n) \in Int
    BY AdjustmentFacts DEF Weights, Deltas
<1>1. step \in [Int \X (1 .. N) -> Int]
    <2> HIDE DEF adds
    <2> QED
        BY <1>0
<1>2. PICK f : IsIteration(f, Int, w[key] + delta, N, step)
    <2> HIDE DEF step, N
    <2> QED
        BY <1>0, <1>1, Iterates, Zenon
<1>3. \A n \in 1 .. N : f[n] = f[n - 1] + adds(n)
    <2> TAKE n \in 1 .. N
    <2> HIDE DEF step, adds
    <2>0. f \in [0 .. N -> Int] /\ f[n] = step[<<f[n - 1], n>>] /\ n - 1 \in 0 .. N
        BY <1>0, <1>2 DEF IsIteration
    <2>1. f[n - 1] \in Int /\ f[n] = step[<<f[n - 1], n>>]
        BY <2>0
    <2> USE DEF step
    <2> QED
        BY <2>1
<1>4. IsSum(f, w, h, key, delta)
    BY <1>0, <1>2, <1>3 DEF IsSum, IsIteration
<1> DEFINE sum == CHOOSE g : IsSum(g, w, h, key, delta)
<1>5. IsSum(sum, w, h, key, delta)
    BY <1>4, Zenon
<1>6. ResultOf(w, h, key, delta) = SqlRounded(sum[N])
    BY DEF ResultOf, IsSum
<1> HIDE DEF sum
<1>7. /\ sum = [n \in 0 .. N |-> sum[n]] /\ sum[0] = w[key] + delta
      /\ \A n \in 1 .. N : sum[n] = sum[n - 1] + adds(n)
    BY <1>0, <1>5 DEF IsSum
<1>8. \A n \in 0 .. N : n \in {m \in 0 .. N : sum[m] \in Int}
    <2> DEFINE P == {m \in 0 .. N : sum[m] \in Int}
    <2>1. 0 \in P
        BY <1>0, <1>7
    <2>2. ASSUME NEW n \in 1 .. N, n - 1 \in P PROVE n \in P
        <3> HIDE DEF adds, N
        <3>1. sum[n - 1] \in Int /\ adds(n) \in Int /\ sum[n] = sum[n - 1] + adds(n)
            BY <1>0, <1>7, <2>2
        <3> QED
            BY <3>1
    <2> HIDE DEF P
    <2> QED
        BY <1>0, <2>1, <2>2, Reaches DEF P
<1>9. sum \in [0 .. N -> Int]
    BY <1>7, <1>8
<1> QED
    BY <1>6, <1>7, <1>9 DEF Sums

\* All adjustments of one key are rounded once or one by one, to the same, but for
\* a half.
Agrees(result, u, w) == result = u \/ (w % 10 = 5 /\ result \in {u - 10, u + 10})
LEMMA ResultIsEffective ==
    ASSUME NEW w \in Weights, NEW h \in Seq(Adjustment), NEW a \in Adjustment,
           NEW p, p = [weights |-> w, history |-> Append(h, a)]
    PROVE  Agrees(ResultOf(w, h, a.key, a.delta), Effective(p)[a.key], w[a.key])
<1> DEFINE N == Len(h)
           k == a.key
           d == a.delta
           H == Append(h, a)
<1>0. /\ N \in Nat /\ k \in Keys /\ d \in Deltas /\ d \in Int
      /\ H \in Seq(Adjustment) /\ Len(H) = N + 1 /\ H[N + 1] = a
      /\ \A n \in 1 .. N : H[n] = h[n] /\ h[n] \in Adjustment
    BY AdjustmentFacts
<1> HIDE DEF H, N, k, d
<1>1. PICK e : Adjusts(e, w, H, Effective(p))
    <2>1. p = [weights |-> w, history |-> H]
        BY DEF H
    <2> QED
        BY <1>0, <2>1, EffectiveIs, Zenon
<1>2. PICK s : Sums(s, w[k] + d, h, k, ResultOf(w, h, k, d))
    BY <1>0, ResultIs, Zenon
<1>e. /\ e \in [0 .. N + 1 -> Weights] /\ e[0] = w
      /\ \A n \in 1 .. N + 1 : e[n] = Adjusted(e[n - 1], H[n])
      /\ Effective(p) = e[N + 1]
    BY <1>0, <1>1 DEF Adjusts
<1>s. /\ s \in [0 .. N -> Int] /\ s[0] = w[k] + d
      /\ \A n \in 1 .. N : s[n] = s[n - 1] + (IF h[n].key = k THEN h[n].delta ELSE 0)
      /\ ResultOf(w, h, k, d) = SqlRounded(s[N])
    BY <1>2 DEF Sums, N
<1> DEFINE P == {n \in 0 .. N : Rounded(e[n][k]) + d = Rounded(s[n]) /\ s[n] % 10 = w[k] % 10}
<1>3. 0 \in P
    <2>1. w[k] \in Int
        BY <1>0 DEF Weights
    <2>2. Rounded(w[k] + d) = Rounded(w[k]) + d /\ (w[k] + d) % 10 = w[k] % 10
        BY <1>0, <2>1, RoundedFacts
    <2> QED
        BY <1>0, <1>e, <1>s, <2>2
<1>4. ASSUME NEW n \in 1 .. N, n - 1 \in P PROVE n \in P
    <2> DEFINE x == e[n - 1][k]
               y == s[n - 1]
               b == h[n]
    <2>1. /\ n \in 1 .. N + 1 /\ n - 1 \in 0 .. N /\ n - 1 \in 0 .. N + 1
          /\ b \in Adjustment /\ b.delta \in Deltas
        BY <1>0, AdjustmentFacts
    <2>2. e[n - 1] \in Weights /\ x \in Int /\ y \in Int /\ Rounded(x) + d = Rounded(y) /\ y % 10 = w[k] % 10
        BY <1>0, <1>4, <1>e, <1>s, <2>1 DEF Weights
    <2>3. e[n] = Adjusted(e[n - 1], b)
        BY <1>0, <1>e, <2>1
    <2>4. e[n][k] = IF b.key = k THEN Rounded(x + b.delta) ELSE x
        <3>1. \A j \in Keys : Adjusted(e[n - 1], b)[j]
                  = IF b.key = j THEN Rounded(e[n - 1][j] + b.delta) ELSE e[n - 1][j]
            BY <2>1, <2>2, AdjustedFacts
        <3> QED
            BY <1>0, <2>3, <3>1
    <2>5. s[n] = y + (IF b.key = k THEN b.delta ELSE 0)
        BY <1>s
    <2> HIDE DEF x, y, b
    <2>6. CASE b.key = k
        <3>0. b.delta \in Int /\ x + b.delta \in Int
            BY <2>1, <2>2 DEF Deltas
        <3>1. Rounded(e[n][k]) = Rounded(x) + b.delta
            <4>1. e[n][k] = Rounded(x + b.delta)
                BY <2>4, <2>6
            <4>2. Rounded(Rounded(x + b.delta)) = Rounded(x + b.delta)
                BY <3>0, RoundedFacts
            <4>3. Rounded(x + b.delta) = Rounded(x) + b.delta
                BY <2>1, <2>2, RoundedFacts
            <4> QED
                BY <4>1, <4>2, <4>3
        <3>2. Rounded(s[n]) = Rounded(y) + b.delta /\ s[n] % 10 = w[k] % 10
            BY <2>1, <2>2, <2>5, <2>6, RoundedFacts
        <3>3. Rounded(x) \in Int
            BY <2>2, RoundedFacts
        <3> QED
            <4>1. Rounded(e[n][k]) + d = Rounded(s[n])
                BY <1>0, <2>2, <3>0, <3>1, <3>2, <3>3
            <4> QED
                BY <3>2, <4>1
    <2>7. CASE b.key # k
        <3>1. s[n] = y /\ e[n][k] = x
            BY <2>2, <2>4, <2>5, <2>7
        <3>2. n \in 0 .. N
            BY <1>0
        <3> QED
            BY <2>2, <3>1, <3>2
    <2> QED
        BY <2>6, <2>7
<1>5. N \in P
    <2> HIDE DEF P
    <2>1. \A n \in 0 .. N : n \in P
        BY <1>0, <1>3, <1>4, Reaches
    <2> QED
        BY <1>0, <2>1, N \in 0 .. N
<1>6. e[N] \in Weights /\ e[N][k] \in Int /\ e[N + 1] = Adjusted(e[N], a)
    <2>1. N \in 0 .. N + 1 /\ N + 1 \in 1 .. N + 1 /\ (N + 1) - 1 = N
        BY <1>0
    <2> QED
        BY <1>0, <1>e, <2>1 DEF Weights
<1>7. e[N + 1][k] = Rounded(e[N][k] + d)
    <2>1. \A j \in Keys : Adjusted(e[N], a)[j] = IF a.key = j THEN Rounded(e[N][j] + a.delta) ELSE e[N][j]
        BY <1>6, AdjustedFacts
    <2> QED
        BY <1>0, <1>6, <2>1 DEF k, d
<1>8. Rounded(e[N][k] + d) = Rounded(e[N][k]) + d
    BY <1>0, <1>6, RoundedFacts
<1>9. Effective(p)[k] = Rounded(s[N]) /\ s[N] % 10 = w[k] % 10 /\ s[N] \in Int
    BY <1>0, <1>e, <1>s, <1>5, <1>7, <1>8
<1>10. Rounded(s[N]) - 10 \in {Rounded(s[N]) - 10, Rounded(s[N]) + 10}
    OBVIOUS
<1>11. \/ SqlRounded(s[N]) = Rounded(s[N])
       \/ s[N] % 10 = 5 /\ SqlRounded(s[N]) = Rounded(s[N]) - 10
    BY <1>9, SqlRoundedFacts
<1> QED
    BY <1>s, <1>9, <1>10, <1>11 DEF Agrees, k, d

\* The rest of the feedback when one is removed.
LEMMA WithoutType ==
    ASSUME NEW h \in Seq(Adjustment), NEW id
    PROVE  Without(h, id) \in Seq(Adjustment)
<1> DEFINE N == Len(h)
           S == Seq(Adjustment)
           next(x, n) == IF h[n].id = id THEN x ELSE Append(x, h[n])
           step == [x \in S \X (1 .. N) |-> next(x[1], x[2])]
<1>0. N \in Nat /\ <<>> \in S /\ \A x \in S, n \in 1 .. N : next(x, n) \in S
    OBVIOUS
<1> HIDE DEF S, next
<1>1. step \in [S \X (1 .. N) -> S]
    BY <1>0
<1>2. PICK f : IsIteration(f, S, <<>>, N, step)
    <2> HIDE DEF step, N
    <2> QED
        BY <1>0, <1>1, Iterates, Zenon
<1>3. \A n \in 1 .. N : f[n] = next(f[n - 1], n)
    <2> TAKE n \in 1 .. N
    <2> HIDE DEF step
    <2>0. f \in [0 .. N -> S] /\ f[n] = step[<<f[n - 1], n>>] /\ n - 1 \in 0 .. N
        BY <1>0, <1>2 DEF IsIteration
    <2>1. f[n - 1] \in S /\ f[n] = step[<<f[n - 1], n>>]
        BY <2>0
    <2> USE DEF step
    <2> QED
        BY <2>1
<1>4. IsLeft(f, h, id)
    <2>1. f = [n \in 0 .. N |-> f[n]] /\ f[0] = <<>>
        BY <1>2 DEF IsIteration
    <2>2. \A n \in 0 .. N : f[n] = IF n = 0 THEN <<>> ELSE next(f[n - 1], n)
        BY <1>0, <1>3, <2>1
    <2> QED
        BY <2>1, <2>2 DEF IsLeft, next
<1> DEFINE left == CHOOSE g : IsLeft(g, h, id)
<1>5. IsLeft(left, h, id)
    BY <1>4, Zenon
<1>6. Without(h, id) = left[N]
    BY DEF Without, IsLeft
<1> HIDE DEF left
<1>7. left[0] = <<>> /\ \A n \in 1 .. N : left[n] = next(left[n - 1], n)
    <2>1. left = [n \in 0 .. N |-> IF n = 0 THEN <<>> ELSE next(left[n - 1], n)]
        BY <1>5 DEF IsLeft, next
    <2> HIDE DEF N
    <2> QED
        BY <1>0, <2>1
<1> DEFINE P == {m \in 0 .. N : left[m] \in S}
<1>8. 0 \in P
    BY <1>0, <1>7
<1>9. ASSUME NEW n \in 1 .. N, n - 1 \in P PROVE n \in P
    BY <1>0, <1>7, <1>9
<1>10. N \in P
    <2> HIDE DEF P
    <2>1. \A n \in 0 .. N : n \in P
        BY <1>0, <1>8, <1>9, Reaches
    <2> QED
        BY <1>0, <2>1
<1> QED
    BY <1>6, <1>10 DEF S

----------------------------------------------------------------------------
(* The types of the preferences. *)

LEMMA DefaultType == Default \in Prefs /\ Default.weights \in Weights /\ <<>> \in Seq(Adjustment)
    BY PreferencesAssumption DEF Default, Prefs, Weights

LEMMA PrefsFacts ==
    /\ \A w \in Weights, h \in Seq(Adjustment) : [weights |-> w, history |-> h] \in Prefs
    /\ \A p \in Prefs : p.weights \in Weights /\ p.history \in Seq(Adjustment)
                        /\ p = [weights |-> p.weights, history |-> p.history]
    BY DEF Prefs

LEMMA RequestFacts ==
    /\ Nothing \in Request
    /\ \A w \in Weights : [Nothing EXCEPT !.weights = w] \in Request
    /\ \A id \in Nat : [Nothing EXCEPT !.id = id] \in Request
    /\ \A k \in Keys, d \in Deltas : [Nothing EXCEPT !.key = k, !.delta = d] \in Request
<1>1. AnyKey \in Keys
    BY PreferencesAssumption, Zenon DEF AnyKey
<1>2. 10 \in Deltas /\ 0 \in Nat
    BY DEF Deltas
<1> QED
    BY <1>1, <1>2, DefaultType DEF Nothing, Request

LEMMA IdleType == ASSUME NEW s \in Prefs \cup {NoPage} PROVE Idle(s) \in Tab
    BY DefaultType, RequestFacts DEF Idle, Tab, Ops

LEMMA InitTypes == Init => TypeOK
<1> SUFFICES ASSUME Init PROVE TypeOK
    OBVIOUS
<1>1. Idle(NoPage) \in Tab
    BY IdleType
<1>2. [at |-> "off", got |-> Default] \in Exec
    BY DefaultType DEF Exec
<1>3. [k \in Keys |-> Baseline] \in Weights
    BY PreferencesAssumption DEF Weights
<1> QED
    BY <1>1, <1>2, <1>3 DEF Init, TypeOK

\* A step of a page that leaves the store alone has to leave its tab well typed.
LEMMA TabTypes ==
    ASSUME TypeOK, UNCHANGED <<store, day, runs>>, NEW t \in Tabs,
           NEW x \in Tab, tab' = [tab EXCEPT ![t] = x], current' \in [Tabs -> BOOLEAN],
           edited' \in [Tabs -> SUBSET Keys]
    PROVE  TypeOK'
    BY DEF TypeOK, store, runs

LEMMA GotoType ==
    ASSUME TypeOK, NEW t \in Tabs,
           NEW l \in {"idle", "act", "delete", "row", "feedback", "answer"}
    PROVE  [tab[t] EXCEPT !.at = l] \in Tab
    BY DEF TypeOK, Tab

LEMMA AskTypes ==
    ASSUME TypeOK, NEW t \in Tabs, NEW op \in Ops, NEW l \in {"act", "row"}, NEW sent \in Request,
           Ask(t, op, l, sent), UNCHANGED <<store, current, day, runs>>
    PROVE  TypeOK'
<1> DEFINE x == [tab[t] EXCEPT !.op = op, !.at = l, !.sent = sent]
<1>1. tab[t] \in Tab
    BY DEF TypeOK
<1>2. x \in Tab
    BY <1>1 DEF Tab
<1>3. tab' = [tab EXCEPT ![t] = x] /\ UNCHANGED edited
    BY DEF Ask
<1> QED
    BY <1>2, <1>3, TabTypes DEF TypeOK

LEMMA EditTypes == ASSUME TypeOK, NEW t \in Tabs, Edit(t) PROVE TypeOK'
<1>0. tab[t] \in Tab /\ tab[t].shown \in Prefs
    BY DEF Edit, ButtonsEnabled, TypeOK, Tab
<1>1. PICK k \in Keys, w \in Explicits :
          /\ tab' = [tab EXCEPT ![t].shown = Typed(@, k, w)]
          /\ edited' = [edited EXCEPT ![t] = @ \cup {k}]
    BY DEF Edit
<1> DEFINE q == Typed(tab[t].shown, k, w)
           x == [tab[t] EXCEPT !.shown = q]
<1>2. [tab[t].shown.weights EXCEPT ![k] = w] \in Weights
    BY <1>0, PrefsFacts, PreferencesAssumption DEF Weights
<1>3. q \in Prefs
    BY <1>0, <1>2, PrefsFacts DEF Typed
<1> HIDE DEF q
<1>4. x \in Tab
    BY <1>0, <1>3 DEF Tab
<1>5. tab' = [tab EXCEPT ![t] = x]
    BY <1>1 DEF q
<1>6. edited' \in [Tabs -> SUBSET Keys]
    BY <1>1 DEF TypeOK
<1> HIDE DEF x
<1> QED
    BY <1>4, <1>5, <1>6, TabTypes DEF Edit, TypeOK

LEMMA PressTypes == ASSUME TypeOK, NEW t \in Tabs, Press(t) PROVE TypeOK'
<1>0. tab[t].shown \in Prefs
    BY DEF Press, ButtonsEnabled, TypeOK, Tab
<1>1. CASE Ask(t, "update", "act", [Nothing EXCEPT !.weights = tab[t].shown.weights])
    <2>1. [Nothing EXCEPT !.weights = tab[t].shown.weights] \in Request
        BY <1>0, PrefsFacts, RequestFacts
    <2> QED
        BY <1>1, <2>1, AskTypes DEF Press, Ops
<1>2. CASE \E i \in DOMAIN tab[t].shown.history :
             Ask(t, "remove", "act", [Nothing EXCEPT !.id = tab[t].shown.history[i].id])
    <2>1. PICK i \in DOMAIN tab[t].shown.history :
             Ask(t, "remove", "act", [Nothing EXCEPT !.id = tab[t].shown.history[i].id])
        BY <1>2
    <2>2. tab[t].shown.history[i] \in Adjustment
        BY <1>0, PrefsFacts, AdjustmentFacts
    <2>3. [Nothing EXCEPT !.id = tab[t].shown.history[i].id] \in Request
        BY <2>2, RequestFacts DEF Adjustment
    <2> QED
        BY <2>1, <2>3, AskTypes DEF Press, Ops
<1>3. CASE Ask(t, "reset", "act", Nothing)
    BY <1>3, RequestFacts, AskTypes DEF Press, Ops
<1> QED
    BY <1>1, <1>2, <1>3 DEF Press

LEMMA RecordTypes == ASSUME TypeOK, NEW t \in Tabs, RecordFeedback(t) PROVE TypeOK'
<1> DEFINE f == tab[t].sent
           a == [id |-> made + 1, key |-> f.key, delta |-> f.delta,
                 result |-> ResultOf(explicit, feedback, f.key, f.delta)]
<1>1. /\ f.key \in Keys /\ f.delta \in Deltas /\ explicit \in Weights
      /\ feedback \in Seq(Adjustment) /\ made \in Nat
    BY DEF TypeOK, Tab, Request
<1>2. ResultOf(explicit, feedback, f.key, f.delta) \in Int
    <2> DEFINE r == ResultOf(explicit, feedback, f.key, f.delta)
    <2>1. PICK s : Sums(s, explicit[f.key] + f.delta, feedback, f.key, r)
        BY <1>1, ResultIs, Zenon
    <2>2. r = SqlRounded(s[Len(feedback)]) /\ s \in [0 .. Len(feedback) -> Int]
        BY <2>1 DEF Sums
    <2>3. s[Len(feedback)] \in Int
        BY <1>1, <2>2, AdjustmentFacts
    <2> HIDE DEF r
    <2> QED
        BY <2>2, <2>3, SqlRoundedFacts DEF r
<1>3. a \in Adjustment
    BY <1>1, <1>2 DEF Adjustment
<1>4. feedback' = Append(feedback, a) /\ made' = made + 1
    BY DEF RecordFeedback
<1> HIDE DEF a
<1>5. feedback' \in Seq(Adjustment) /\ made' \in Nat
    BY <1>1, <1>3, <1>4
<1>6. /\ tab' = [tab EXCEPT ![t] = Idle(NoPage)] /\ Idle(NoPage) \in Tab
      /\ edited' \in [Tabs -> SUBSET Keys]
    BY IdleType DEF RecordFeedback, Rest, TypeOK
<1> QED
    BY <1>5, <1>6 DEF TypeOK, RecordFeedback, Changed, runs

LEMMA ReaderTypes == ASSUME TypeOK, NEW t \in Tabs, Reader(t) PROVE TypeOK'
<1>0. /\ tab[t] \in Tab /\ tab[t].shown \in Prefs \cup {NoPage} /\ tab[t].sent \in Request
      /\ tab[t].got \in Prefs
    BY DEF TypeOK, Tab
<1>1. CASE Load(t)
    BY <1>1, RequestFacts, AskTypes DEF Load, Ops
<1>2. CASE Press(t)
    BY <1>2, PressTypes
<1>14. CASE Edit(t)
    BY <1>14, EditTypes
<1>3. CASE Rate(t)
    <2>1. PICK k \in Keys, d \in Deltas :
            Ask(t, "rate", "act", [Nothing EXCEPT !.key = k, !.delta = d])
        BY <1>3 DEF Rate
    <2>2. [Nothing EXCEPT !.key = k, !.delta = d] \in Request
        BY RequestFacts
    <2> QED
        BY <1>3, <2>1, <2>2, AskTypes DEF Rate, Ops
<1>4. CASE RecordFeedback(t)
    BY <1>4, RecordTypes
<1>5. CASE UpdatePreferences(t)
    <2>1. explicit' \in Weights
        BY <1>0, <1>5 DEF UpdatePreferences, Request
    <2>2. [tab[t] EXCEPT !.at = "row"] \in Tab
        BY GotoType
    <2>3. tab' = [tab EXCEPT ![t] = [tab[t] EXCEPT !.at = "row"]] /\ UNCHANGED edited
        BY <1>5 DEF UpdatePreferences, Goto
    <2> QED
        BY <1>5, <2>1, <2>2, <2>3 DEF TypeOK, UpdatePreferences, Changed, runs
<1>6. CASE FindAdjustment(t)
    <2> DEFINE x == IF Recorded(tab[t].sent.id) THEN [tab[t] EXCEPT !.at = "delete"]
                    ELSE Idle(tab[t].shown)
    <2>1. x \in Tab
        BY <1>0, GotoType, IdleType
    <2>2. tab' = [tab EXCEPT ![t] = x] /\ UNCHANGED edited
        BY <1>6 DEF FindAdjustment, Goto, Stay
    <2> QED
        BY <1>6, <2>1, <2>2, TabTypes DEF FindAdjustment, TypeOK
<1>7. CASE DeleteAdjustment(t)
    <2>1. feedback' \in Seq(Adjustment)
        BY <1>7, WithoutType DEF DeleteAdjustment, TypeOK
    <2>2. [tab[t] EXCEPT !.at = "row"] \in Tab
        BY GotoType
    <2>3. tab' = [tab EXCEPT ![t] = [tab[t] EXCEPT !.at = "row"]] /\ UNCHANGED edited
        BY <1>7 DEF DeleteAdjustment, Goto
    <2> QED
        BY <1>7, <2>1, <2>2, <2>3 DEF TypeOK, DeleteAdjustment, Changed, runs
<1>8. CASE ResetPreferences(t)
    <2>1. explicit' \in Weights /\ feedback' \in Seq(Adjustment)
        BY <1>8, DefaultType DEF ResetPreferences
    <2>2. [tab[t] EXCEPT !.at = "row"] \in Tab
        BY GotoType
    <2>3. tab' = [tab EXCEPT ![t] = [tab[t] EXCEPT !.at = "row"]] /\ UNCHANGED edited
        BY <1>8 DEF ResetPreferences, Goto
    <2> QED
        BY <1>8, <2>1, <2>2, <2>3 DEF TypeOK, ResetPreferences, Changed, runs
<1>9. CASE ReadRow(t)
    <2>1. [tab[t] EXCEPT !.at = "feedback", !.got.weights = explicit] \in Tab
        BY <1>0 DEF TypeOK, Tab, Prefs
    <2>2. tab' = [tab EXCEPT ![t] = [tab[t] EXCEPT !.at = "feedback", !.got.weights = explicit]]
        BY <1>9 DEF ReadRow
    <2>3. current' \in [Tabs -> BOOLEAN]
        BY <1>9 DEF ReadRow, TypeOK
    <2> QED
        BY <1>9, <2>1, <2>2, <2>3, TabTypes DEF ReadRow, TypeOK
<1>10. CASE ReadFeedback(t)
    <2>1. [tab[t] EXCEPT !.at = "answer", !.got.history = feedback] \in Tab
        BY <1>0 DEF TypeOK, Tab, Prefs
    <2>2. tab' = [tab EXCEPT ![t] = [tab[t] EXCEPT !.at = "answer", !.got.history = feedback]]
        BY <1>10 DEF ReadFeedback
    <2> QED
        BY <1>10, <2>1, <2>2, TabTypes DEF ReadFeedback, TypeOK
<1>11. CASE Show(t)
    <2>1. Idle(tab[t].got) \in Tab
        BY <1>0, IdleType
    <2> QED
        BY <1>11, <2>1, TabTypes DEF Show, Rest, TypeOK
<1>12. CASE RequestFails(t)
    <2>1. Idle(tab[t].shown) \in Tab
        BY <1>0, IdleType
    <2>2. current' \in [Tabs -> BOOLEAN]
        BY <1>12 DEF RequestFails, TypeOK
    <2> QED
        BY <1>12, <2>1, <2>2, TabTypes DEF RequestFails, Stay, TypeOK
<1>13. CASE Leave(t)
    <2>1. Idle(NoPage) \in Tab
        BY IdleType
    <2> QED
        BY <1>13, <2>1, TabTypes DEF Leave, Rest, TypeOK
<1> QED
    BY <1>1, <1>2, <1>3, <1>4, <1>5, <1>6, <1>7, <1>8, <1>9, <1>10, <1>11, <1>12, <1>13, <1>14
    DEF Reader

LEMMA RunTypes == ASSUME TypeOK, NEW r \in Runs, Run(r) PROVE TypeOK'
<1>0. /\ exec[r] \in Exec /\ explicit \in Weights /\ feedback \in Seq(Adjustment)
      /\ HasSnapshot(r) => snapshot[r] \in Snapshot
    BY DEF TypeOK, HasSnapshot
<1>1. ASSUME NEW l \in {"off", "read", "row", "feedback", "save", "reread", "go", "lost"},
             ExecGoto(r, l)
      PROVE  exec' \in [Runs -> Exec]
    <2>1. [at |-> l, got |-> Default] \in Exec
        BY DefaultType DEF Exec
    <2> QED
        BY <1>1, <2>1 DEF ExecGoto, TypeOK
<1>2. ASSUME NEW l \in {"row", "lost"}, GoOn(r, l)
      PROVE  exec' \in [Runs -> Exec] /\ used' \in [Runs -> SUBSET Prefs]
    <2>1. CASE Attached(r)
        <3>1. snapshot[r].prefs \in Prefs /\ used[r] \in SUBSET Prefs
            BY <1>0, <2>1 DEF Attached, Snapshot, TypeOK
        <3>2. ExecGoto(r, "go") /\ used' = [used EXCEPT ![r] = used[r] \cup {snapshot[r].prefs}]
            BY <1>2, <2>1 DEF GoOn
        <3>3. exec' \in [Runs -> Exec]
            BY <1>1, <3>2
        <3>4. used[r] \cup {snapshot[r].prefs} \in SUBSET Prefs
            BY <3>1
        <3> QED
            BY <3>2, <3>3, <3>4 DEF TypeOK
    <2>2. CASE ~Attached(r)
        BY <1>1, <1>2, <2>2 DEF GoOn, TypeOK
    <2> QED
        BY <2>1, <2>2
<1>3. CASE Execute(r)
    BY <1>1, <1>3 DEF Execute, TypeOK, store, pages
<1>4. CASE CreateRow(r)
    BY <1>4 DEF CreateRow, TypeOK, store, pages
<1>5. CASE FindSnapshot(r)
    BY <1>2, <1>5 DEF FindSnapshot, TypeOK, store, pages
<1>6. CASE ExecReadsRow(r)
    <2>1. [exec[r] EXCEPT !.at = "feedback", !.got.weights = explicit] \in Exec
        BY <1>0 DEF Exec, Prefs
    <2>2. exec' = [exec EXCEPT ![r] = [exec[r] EXCEPT !.at = "feedback", !.got.weights = explicit]]
        BY <1>6 DEF ExecReadsRow
    <2> QED
        BY <1>6, <2>1, <2>2 DEF ExecReadsRow, TypeOK, store, pages
<1>7. CASE ExecReadsFeedback(r)
    <2>1. [exec[r] EXCEPT !.at = "save", !.got.history = feedback] \in Exec
        BY <1>0 DEF Exec, Prefs
    <2>2. exec' = [exec EXCEPT ![r] = [exec[r] EXCEPT !.at = "save", !.got.history = feedback]]
        BY <1>7 DEF ExecReadsFeedback
    <2> QED
        BY <1>7, <2>1, <2>2 DEF ExecReadsFeedback, TypeOK, store, pages
<1>8. CASE ExecTakesDefault(r)
    <2>1. [exec[r] EXCEPT !.at = "save", !.got = Default] \in Exec
        BY <1>0, DefaultType DEF Exec
    <2>2. exec' = [exec EXCEPT ![r] = [exec[r] EXCEPT !.at = "save", !.got = Default]]
        BY <1>8 DEF ExecTakesDefault
    <2> QED
        BY <1>8, <2>1, <2>2 DEF ExecTakesDefault, TypeOK, store, pages
<1>9. CASE SaveSnapshot(r)
    <2>1. Inserted(r, exec[r].got) \in Snapshot
        BY <1>0 DEF Inserted, Snapshot, Exec, TypeOK
    <2>2. snapshot' = [snapshot EXCEPT ![r] = Inserted(r, exec[r].got)]
        BY <1>9 DEF SaveSnapshot
    <2> QED
        BY <1>1, <1>9, <2>1, <2>2 DEF SaveSnapshot, TypeOK, store, pages
<1>10. CASE RereadSnapshot(r)
    BY <1>2, <1>10 DEF RereadSnapshot, TypeOK, store, pages
<1>11. CASE ExecEnds(r)
    <2>1. FreeFrom \in Nat
        BY PreferencesAssumption DEF FreeFrom, TypeOK
    <2> QED
        BY <1>1, <1>11, <2>1 DEF ExecEnds, TypeOK, store, pages
<1> QED
    BY <1>3, <1>4, <1>5, <1>6, <1>7, <1>8, <1>9, <1>10, <1>11 DEF Run

LEMMA PruneTypes == TypeOK /\ Prune => TypeOK'
<1> SUFFICES ASSUME TypeOK, Prune PROVE TypeOK'
    OBVIOUS
<1> DEFINE gone == {r \in Runs : row[r] # 0 /\ Old(row[r])}
<1>1. /\ row' = [r \in Runs |-> IF r \in gone THEN 0 ELSE row[r]]
      /\ snapshot' = [r \in Runs |->
            IF HasSnapshot(r) /\ OldEvent(snapshot[r].on) THEN NoSnapshot
            ELSE IF HasSnapshot(r) /\ r \in gone THEN [snapshot[r] EXCEPT !.linked = FALSE]
            ELSE snapshot[r]]
      /\ used' = [r \in Runs |-> IF r \in gone THEN {} ELSE used[r]]
    BY DEF Prune
<1> HIDE DEF gone
<1>2. \A r \in Runs : HasSnapshot(r) => [snapshot[r] EXCEPT !.linked = FALSE] \in Snapshot
    BY DEF TypeOK, HasSnapshot, Snapshot
<1>3. snapshot' \in [Runs -> Snapshot \cup {NoSnapshot}]
    BY <1>1, <1>2 DEF TypeOK
<1>4. row' \in [Runs -> Nat] /\ used' \in [Runs -> SUBSET Prefs]
    BY <1>1 DEF TypeOK
<1> QED
    BY <1>3, <1>4 DEF Prune, TypeOK, store, pages

LEMMA NextTypes == TypeOK /\ [Next]_vars => TypeOK'
<1> SUFFICES ASSUME TypeOK, [Next]_vars PROVE TypeOK'
    OBVIOUS
<1>1. CASE \E t \in Tabs : Reader(t)
    BY <1>1, ReaderTypes
<1>2. CASE \E r \in Runs : Run(r)
    BY <1>2, RunTypes
<1>3. CASE Prune
    BY <1>3, PruneTypes
<1>4. CASE NextDay
    BY <1>4 DEF NextDay, TypeOK, store, pages, runs
<1>5. CASE UNCHANGED vars
    BY <1>5 DEF vars, TypeOK
<1> QED
    BY <1>1, <1>2, <1>3, <1>4, <1>5 DEF Next

(* Every variable keeps its type, whatever the reader, the runs and          *)
(* retention do; a weight that is a sum of adjustments stays a number.       *)
THEOREM PreferencesTypeCorrect == Spec => []TypeOK
    BY InitTypes, NextTypes, PTL DEF Spec

\* Only new feedback changes how much feedback was ever made.
LEMMA RecordedStep == TypeOK /\ [Next]_vars /\ made' # made => \E t \in Tabs : RecordFeedback(t)
<1> SUFFICES ASSUME [Next]_vars, made' # made PROVE \E t \in Tabs : RecordFeedback(t)
    OBVIOUS
<1>1. PICK t \in Tabs : Reader(t)
    BY DEF Next, Run, Execute, CreateRow, FindSnapshot, ExecReadsRow, ExecReadsFeedback,
           ExecTakesDefault, SaveSnapshot, RereadSnapshot, ExecEnds, Prune, NextDay, store, vars
<1> QED
    BY <1>1 DEF Reader, Load, Edit, Press, Rate, UpdatePreferences, FindAdjustment,
           DeleteAdjustment, ResetPreferences, ReadRow, ReadFeedback, Show, RequestFails, Leave, store

(* RecordedWeightIsUsed: for any weights and any feedback before it, the     *)
(* weight that recordFeedback's SQL adds up and rounds once is the one that  *)
(* getPreferences gets by rounding after every adjustment; a weight typed in *)
(* halves of a tenth can leave them a tenth apart.                           *)
THEOREM RecordedWeightsAreUsed == Spec => RecordedWeightIsUsed
<1> DEFINE Used == made' # made =>
         LET a == feedback'[Len(feedback')]
             u == Effective([weights |-> explicit', history |-> feedback'])[a.key]
         IN  a.result = u \/ (explicit'[a.key] % 10 = 5 /\ a.result \in {u - 10, u + 10})
<1>1. TypeOK /\ [Next]_vars => Used
    <2> SUFFICES ASSUME TypeOK, [Next]_vars, made' # made
                 PROVE  LET a == feedback'[Len(feedback')]
                            u == Effective([weights |-> explicit', history |-> feedback'])[a.key]
                        IN  Agrees(a.result, u, explicit'[a.key])
        BY DEF Agrees
    <2>1. PICK t \in Tabs : RecordFeedback(t)
        BY RecordedStep
    <2>2. TypeOK'
        BY NextTypes
    <2> DEFINE f == tab[t].sent
               a == [id |-> made + 1, key |-> f.key, delta |-> f.delta,
                     result |-> ResultOf(explicit, feedback, f.key, f.delta)]
               p == [weights |-> explicit', history |-> feedback']
    <2>3. feedback' = Append(feedback, a) /\ explicit' = explicit
        BY <2>1 DEF RecordFeedback
    <2>4. a.key = f.key /\ a.delta = f.delta /\ a.result = ResultOf(explicit, feedback, a.key, a.delta)
        OBVIOUS
    <2> HIDE DEF a, p, f
    <2>5. feedback \in Seq(Adjustment) /\ explicit \in Weights /\ feedback' \in Seq(Adjustment)
        BY <2>2 DEF TypeOK
    <2>6. Len(feedback') = Len(feedback) + 1 /\ feedback'[Len(feedback')] = a
        BY <2>3, <2>5
    <2>7. a \in Adjustment
        <3>1. Len(feedback') \in 1 .. Len(feedback')
            BY <2>5, <2>6, AdjustmentFacts
        <3> QED
            BY <2>5, <2>6, <3>1, AdjustmentFacts
    <2>8. p = [weights |-> explicit, history |-> Append(feedback, a)]
        BY <2>3 DEF p
    <2>9. Agrees(ResultOf(explicit, feedback, a.key, a.delta), Effective(p)[a.key], explicit[a.key])
        BY <2>5, <2>7, <2>8, ResultIsEffective
    <2> QED
        BY <2>3, <2>4, <2>6, <2>9 DEF p
<1>2. Spec => [][Used]_vars
    BY <1>1, PreferencesTypeCorrect, PTL DEF Spec
<1> QED
    BY <1>2 DEF RecordedWeightIsUsed

----------------------------------------------------------------------------
(* What a page shows.  No change has happened since its request read the   *)
(* row, so what the request has got so far, and what the page showed when  *)
(* the request was sent, is what is stored.                                *)
Stored == [weights |-> explicit, history |-> feedback]

\* What is shown is stored, but for the weights that have been typed.
Unsaved(p, typed) ==
    p.history = feedback /\ \A k \in Keys \ typed : p.weights[k] = explicit[k]

PageOf(t) ==
    /\ tab[t].at \in {"idle", "act", "delete"} /\ tab[t].shown # NoPage =>
          Unsaved(tab[t].shown, edited[t])
    /\ tab[t].at = "feedback" => tab[t].got.weights = explicit
    /\ tab[t].at = "answer" => tab[t].got = Stored

\* A tab is a record, whatever is in it, and what its request has got is one.
TabRecord(x) == [shown |-> x.shown, at |-> x.at, op |-> x.op, sent |-> x.sent, got |-> x.got]
Shaped(x) == x = TabRecord(x) /\ x.got = [weights |-> x.got.weights, history |-> x.got.history]

PagesInv ==
    /\ tab = [t \in Tabs |-> tab[t]] /\ \A t \in Tabs : Shaped(tab[t])
    /\ current = [t \in Tabs |-> current[t]] /\ edited = [t \in Tabs |-> edited[t]]
    /\ \A t \in Tabs : current[t] => PageOf(t)

\* What EXCEPT does to a tab, one field after the other.
AskedOf(y, op, l, sent) == [y EXCEPT !.op = op, !.at = l, !.sent = sent]

LEMMA AskedTab ==
    ASSUME NEW y, y = TabRecord(y), NEW op, NEW l, NEW sent
    PROVE  AskedOf(y, op, l, sent)
             = [shown |-> y.shown, at |-> l, op |-> op, sent |-> sent, got |-> y.got]
<1> DEFINE a == [y EXCEPT !.op = op]
           b == [a EXCEPT !.at = l]
           c == [b EXCEPT !.sent = sent]
<1>1. y = [shown |-> y.shown, at |-> y.at, op |-> y.op, sent |-> y.sent, got |-> y.got]
  BY DEF TabRecord
<1>2. a = [shown |-> y.shown, at |-> y.at, op |-> op, sent |-> y.sent, got |-> y.got]
  BY <1>1
<1>3. /\ a = [shown |-> a.shown, at |-> a.at, op |-> a.op, sent |-> a.sent, got |-> a.got]
      /\ a.shown = y.shown /\ a.op = op /\ a.sent = y.sent /\ a.got = y.got
  BY <1>2
<1> HIDE DEF a
<1>4. b = [shown |-> y.shown, at |-> l, op |-> op, sent |-> y.sent, got |-> y.got]
  BY <1>3
<1>5. /\ b = [shown |-> b.shown, at |-> b.at, op |-> b.op, sent |-> b.sent, got |-> b.got]
      /\ b.shown = y.shown /\ b.op = op /\ b.at = l /\ b.got = y.got
  BY <1>4
<1> HIDE DEF b
<1>6. c = [shown |-> y.shown, at |-> l, op |-> op, sent |-> sent, got |-> y.got]
  BY <1>5
<1> HIDE DEF c
<1>7. QED
  BY <1>6 DEF a, b, c, AskedOf

LEMMA MovedTab ==
    ASSUME NEW y, y = TabRecord(y), NEW l
    PROVE  [y EXCEPT !.at = l]
             = [shown |-> y.shown, at |-> l, op |-> y.op, sent |-> y.sent, got |-> y.got]
<1>1. y = [shown |-> y.shown, at |-> y.at, op |-> y.op, sent |-> y.sent, got |-> y.got]
  BY DEF TabRecord
<1>2. QED
  BY <1>1

LEMMA FilledTab ==
    ASSUME NEW y, y = TabRecord(y), NEW l, NEW n
    PROVE  [y EXCEPT !.at = l, !.got = n]
             = [shown |-> y.shown, at |-> l, op |-> y.op, sent |-> y.sent, got |-> n]
<1> DEFINE a == [y EXCEPT !.at = l]
           b == [a EXCEPT !.got = n]
<1>1. a = [shown |-> y.shown, at |-> l, op |-> y.op, sent |-> y.sent, got |-> y.got]
  BY MovedTab
<1>2. /\ a = [shown |-> a.shown, at |-> a.at, op |-> a.op, sent |-> a.sent, got |-> a.got]
      /\ a.shown = y.shown /\ a.op = y.op /\ a.sent = y.sent /\ a.at = l
  BY <1>1
<1> HIDE DEF a
<1>3. b = [shown |-> y.shown, at |-> l, op |-> y.op, sent |-> y.sent, got |-> n]
  BY <1>2
<1> HIDE DEF b
<1>4. QED
  BY <1>3 DEF a, b

LEMMA InitPages == Init => PagesInv
<1> SUFFICES ASSUME Init PROVE PagesInv
  OBVIOUS
<1>1. /\ tab = [t \in Tabs |-> Idle(NoPage)] /\ current = [t \in Tabs |-> FALSE]
      /\ edited = [t \in Tabs |-> {}]
  BY DEF Init
<1>2. Shaped(Idle(NoPage))
  BY DEF Shaped, TabRecord, Idle, Default
<1>3. QED
  BY <1>1, <1>2 DEF PagesInv

\* A request that changes what is stored leaves no page current.
LEMMA ChangeKeepsPages ==
    ASSUME PagesInv, NEW t \in Tabs, Changed, NEW x, Shaped(x), tab' = [tab EXCEPT ![t] = x],
           NEW typed, edited' = [edited EXCEPT ![t] = typed]
    PROVE  PagesInv'
<1>1. \A u \in Tabs : current'[u] = FALSE
  BY DEF Changed
<1>2. tab' = [u \in Tabs |-> tab'[u]] /\ \A u \in Tabs : Shaped(tab'[u])
  BY DEF PagesInv
<1>3. current' = [u \in Tabs |-> current'[u]] /\ edited' = [u \in Tabs |-> edited'[u]]
  BY DEF Changed, PagesInv
<1>4. QED
  BY <1>1, <1>2, <1>3 DEF PagesInv, Shaped

\* A step of one tab that changes nothing stored only has to be right for its page.
LEMMA StepKeepsPages ==
    ASSUME PagesInv, NEW t \in Tabs, UNCHANGED <<explicit, feedback>>,
           NEW x, Shaped(x), tab' = [tab EXCEPT ![t] = x],
           NEW now, current' = [current EXCEPT ![t] = now],
           NEW typed, edited' = [edited EXCEPT ![t] = typed],
           now => PageOf(t)'
    PROVE  PagesInv'
<1>1. tab' = [u \in Tabs |-> tab'[u]] /\ \A u \in Tabs : Shaped(tab'[u])
  BY DEF PagesInv
<1>2. current' = [u \in Tabs |-> current'[u]] /\ edited' = [u \in Tabs |-> edited'[u]]
  BY DEF PagesInv
<1>3. current'[t] = now
  BY DEF PagesInv
<1>4. ASSUME NEW u \in Tabs, current'[u] PROVE PageOf(u)'
  <2>1. CASE u = t
    BY <1>3, <1>4, <2>1
  <2>2. CASE u # t
    <3>1. tab'[u] = tab[u] /\ current'[u] = current[u] /\ edited'[u] = edited[u]
      BY <2>2 DEF PagesInv
    <3>2. PageOf(u)
      BY <1>4, <3>1 DEF PagesInv
    <3>3. QED
      BY <3>1, <3>2 DEF PageOf, Stored, Unsaved
  <2>3. QED
    BY <2>1, <2>2
<1>5. QED
  BY <1>1, <1>2, <1>4 DEF PagesInv, Shaped

LEMMA ReaderKeepsPages ==
    ASSUME TypeOK, PagesInv, NEW t \in Tabs, Reader(t)
    PROVE  PagesInv'
<1>0. /\ tab = [u \in Tabs |-> tab[u]] /\ current = [u \in Tabs |-> current[u]]
      /\ edited = [u \in Tabs |-> edited[u]]
      /\ Shaped(tab[t]) /\ (current[t] => PageOf(t))
  BY DEF PagesInv
<1>1. ASSUME NEW s PROVE Shaped(Idle(s)) /\ Idle(s).shown = s /\ Idle(s).at = "idle"
  BY DEF Shaped, TabRecord, Idle, Default
<1>2. ASSUME NEW l PROVE Shaped([tab[t] EXCEPT !.at = l])
  <2>1. [tab[t] EXCEPT !.at = l]
          = [shown |-> tab[t].shown, at |-> l, op |-> tab[t].op, sent |-> tab[t].sent,
             got |-> tab[t].got]
    BY <1>0, MovedTab DEF Shaped
  <2>2. QED
    BY <1>0, <2>1 DEF Shaped, TabRecord
<1>3. /\ current = [current EXCEPT ![t] = current[t]]
      /\ edited = [edited EXCEPT ![t] = edited[t]]
  BY <1>0
<1>4. CASE Load(t) \/ Press(t) \/ Rate(t)
  <2>1. PICK op, l, sent : /\ l \in {"row", "act"} /\ Ask(t, op, l, sent)
                           /\ UNCHANGED <<explicit, feedback, edited, current>>
                           /\ tab[t].at = "idle"
    <3>1. CASE Load(t)
      BY <3>1 DEF Load, store, At, Ask
    <3>2. CASE Press(t)
      <4>1. UNCHANGED <<explicit, feedback, current>> /\ tab[t].at = "idle"
        BY <3>2 DEF Press, ButtonsEnabled, store, At
      <4>2. \E op, sent : Ask(t, op, "act", sent)
        BY <3>2, Zenon DEF Press
      <4>3. PICK op, sent : Ask(t, op, "act", sent)
        BY <4>2
      <4>4. edited' = edited
        BY <4>3 DEF Ask
      <4> QED
        BY <4>1, <4>3, <4>4
    <3>3. CASE Rate(t)
      BY <3>3 DEF Rate, store, At, Ask
    <3>4. QED
      BY <1>4, <3>1, <3>2, <3>3
  <2> DEFINE x == [shown |-> tab[t].shown, at |-> l, op |-> op, sent |-> sent, got |-> tab[t].got]
  <2>2. tab' = [tab EXCEPT ![t] = x]
    <3>1. tab[t] = TabRecord(tab[t])
      BY <1>0 DEF Shaped
    <3>2. AskedOf(tab[t], op, l, sent) = x
      BY <3>1, AskedTab
    <3>3. tab' = [tab EXCEPT ![t] = AskedOf(tab[t], op, l, sent)]
      BY <2>1, <1>0 DEF Ask, AskedOf
    <3> HIDE DEF x
    <3>4. QED
      BY <3>2, <3>3
  <2>3. Shaped(x) /\ x.shown = tab[t].shown /\ x.at = l /\ x.got = tab[t].got
    BY <1>0 DEF Shaped, TabRecord
  <2>4. tab'[t] = x
    BY <2>2, <1>0
  <2>5. current[t] => PageOf(t)'
    BY <1>0, <2>1, <2>3, <2>4 DEF PageOf, Unsaved
  <2>6. QED
    BY <2>1, <2>2, <2>3, <2>5, <1>3, StepKeepsPages
<1>5. CASE RecordFeedback(t)
  <2>1. /\ tab' = [tab EXCEPT ![t] = Idle(NoPage)] /\ Changed
        /\ edited' = [edited EXCEPT ![t] = {}]
    BY <1>5 DEF RecordFeedback, Rest
  <2>2. QED
    BY <2>1, <1>1, ChangeKeepsPages
<1>6. CASE UpdatePreferences(t) \/ DeleteAdjustment(t) \/ ResetPreferences(t)
  <2>1. Goto(t, "row") /\ Changed
    BY <1>6 DEF UpdatePreferences, DeleteAdjustment, ResetPreferences
  <2>2. tab' = [tab EXCEPT ![t] = [tab[t] EXCEPT !.at = "row"]]
    BY <2>1, <1>0 DEF Goto
  <2>3. QED
    BY <2>1, <2>2, <1>2, <1>3, ChangeKeepsPages DEF Goto
<1>7. CASE FindAdjustment(t)
  <2>1. UNCHANGED <<explicit, feedback, current>> /\ tab[t].at = "act"
    BY <1>7 DEF FindAdjustment, store, At
  <2>2. CASE Goto(t, "delete")
    <3>1. tab' = [tab EXCEPT ![t] = [tab[t] EXCEPT !.at = "delete"]]
      BY <2>2, <1>0 DEF Goto
    <3>2. tab'[t] = [tab[t] EXCEPT !.at = "delete"]
      BY <3>1, <1>0
    <3>3. tab'[t].at = "delete" /\ tab'[t].shown = tab[t].shown
      BY <3>2, <1>0 DEF Shaped
    <3>6. edited' = edited
      BY <2>2 DEF Goto
    <3>4. current[t] => PageOf(t)'
      BY <1>0, <2>1, <3>3, <3>6 DEF PageOf, Unsaved
    <3>5. QED
      BY <2>1, <3>1, <3>4, <3>6, <1>2, <1>3, StepKeepsPages
  <2>3. CASE Stay(t)
    <3>1. tab' = [tab EXCEPT ![t] = Idle(tab[t].shown)] /\ edited' = edited
      BY <2>3 DEF Stay
    <3>2. tab'[t].at = "idle" /\ tab'[t].shown = tab[t].shown
      BY <3>1, <1>0, <1>1
    <3>3. current[t] => PageOf(t)'
      BY <1>0, <2>1, <3>1, <3>2 DEF PageOf, Unsaved
    <3>4. QED
      BY <2>1, <3>1, <3>3, <1>1, <1>3, StepKeepsPages
  <2>4. QED
    BY <1>7, <2>2, <2>3 DEF FindAdjustment
<1>8. CASE ReadRow(t)
  <2> DEFINE n == [weights |-> explicit, history |-> tab[t].got.history]
             x == [shown |-> tab[t].shown, at |-> "feedback", op |-> tab[t].op,
                   sent |-> tab[t].sent, got |-> n]
  <2>1. tab' = [tab EXCEPT ![t] = x]
    <3>1. /\ tab[t] = TabRecord(tab[t])
          /\ tab[t].got = [weights |-> tab[t].got.weights, history |-> tab[t].got.history]
      BY <1>0 DEF Shaped
    <3>2. [tab[t].got EXCEPT !.weights = explicit] = n
      BY <3>1
    <3> HIDE DEF n
    <3>3. [tab[t] EXCEPT !.at = "feedback", !.got = n] = x
      BY <3>1, FilledTab
    <3>4. /\ tab' = [tab EXCEPT ![t] = [tab[t] EXCEPT !.at = "feedback",
                                          !.got = [tab[t].got EXCEPT !.weights = explicit]]]
      BY <1>8, <1>0 DEF ReadRow, At
    <3> HIDE DEF x
    <3>5. QED
      BY <3>2, <3>3, <3>4
  <2>2. Shaped(x) /\ x.at = "feedback" /\ x.got.weights = explicit
    BY <1>0 DEF Shaped, TabRecord
  <2>3. UNCHANGED <<explicit, feedback, edited>> /\ current' = [current EXCEPT ![t] = TRUE]
    BY <1>8 DEF ReadRow, store
  <2>4. tab'[t] = x
    BY <2>1, <1>0
  <2>5. PageOf(t)'
    BY <2>2, <2>3, <2>4 DEF PageOf
  <2>6. QED
    BY <2>1, <2>2, <2>3, <2>5, <1>3, StepKeepsPages
<1>9. CASE ReadFeedback(t)
  <2> DEFINE n == [weights |-> tab[t].got.weights, history |-> feedback]
             x == [shown |-> tab[t].shown, at |-> "answer", op |-> tab[t].op,
                   sent |-> tab[t].sent, got |-> n]
  <2>1. tab' = [tab EXCEPT ![t] = x] /\ tab[t].at = "feedback"
    <3>1. /\ tab[t] = TabRecord(tab[t])
          /\ tab[t].got = [weights |-> tab[t].got.weights, history |-> tab[t].got.history]
      BY <1>0 DEF Shaped
    <3>2. [tab[t].got EXCEPT !.history = feedback] = n
      BY <3>1
    <3> HIDE DEF n
    <3>3. [tab[t] EXCEPT !.at = "answer", !.got = n] = x
      BY <3>1, FilledTab
    <3>4. /\ tab' = [tab EXCEPT ![t] = [tab[t] EXCEPT !.at = "answer",
                                          !.got = [tab[t].got EXCEPT !.history = feedback]]]
          /\ tab[t].at = "feedback"
      BY <1>9, <1>0 DEF ReadFeedback, At
    <3> HIDE DEF x
    <3>5. QED
      BY <3>2, <3>3, <3>4
  <2>2. Shaped(x) /\ x.at = "answer" /\ x.got = [weights |-> tab[t].got.weights, history |-> feedback]
    BY <1>0 DEF Shaped, TabRecord
  <2>3. UNCHANGED <<explicit, feedback, edited, current>>
    BY <1>9 DEF ReadFeedback, store
  <2>4. tab'[t] = x
    BY <2>1, <1>0
  <2>5. current[t] => PageOf(t)'
    BY <1>0, <2>1, <2>2, <2>3, <2>4 DEF PageOf, Stored
  <2>6. QED
    BY <2>1, <2>2, <2>3, <2>5, <1>3, StepKeepsPages
<1>10. CASE Show(t)
  <2>1. /\ tab' = [tab EXCEPT ![t] = Idle(tab[t].got)] /\ tab[t].at = "answer"
        /\ edited' = [edited EXCEPT ![t] = {}]
    BY <1>10 DEF Show, Rest, At
  <2>2. UNCHANGED <<explicit, feedback, current>>
    BY <1>10 DEF Show, store
  <2>3. tab'[t].at = "idle" /\ tab'[t].shown = tab[t].got
    BY <2>1, <1>0, <1>1
  <2>4. current[t] => PageOf(t)'
    BY <1>0, <2>1, <2>2, <2>3 DEF PageOf, Stored, Unsaved
  <2>5. QED
    BY <2>1, <2>2, <2>4, <1>1, <1>3, StepKeepsPages
<1>11. CASE RequestFails(t)
  <2>1. /\ tab' = [tab EXCEPT ![t] = Idle(tab[t].shown)]
        /\ UNCHANGED <<explicit, feedback, edited>> /\ current' = [current EXCEPT ![t] = FALSE]
    BY <1>11 DEF RequestFails, Stay, store
  <2>2. QED
    BY <2>1, <1>1, <1>3, StepKeepsPages
<1>12. CASE Leave(t)
  <2>1. /\ tab' = [tab EXCEPT ![t] = Idle(NoPage)] /\ UNCHANGED <<explicit, feedback, current>>
        /\ edited' = [edited EXCEPT ![t] = {}]
    BY <1>12 DEF Leave, Rest, store
  <2>2. tab'[t].at = "idle" /\ tab'[t].shown = NoPage
    BY <2>1, <1>0, <1>1
  <2>3. current[t] => PageOf(t)'
    BY <2>2 DEF PageOf
  <2>4. QED
    BY <2>1, <2>3, <1>1, <1>3, StepKeepsPages
<1>13. CASE Edit(t)
  <2>1. PICK k \in Keys, w \in Explicits :
            /\ tab' = [tab EXCEPT ![t].shown = Typed(@, k, w)]
            /\ edited' = [edited EXCEPT ![t] = @ \cup {k}]
    BY <1>13 DEF Edit
  <2>2. /\ UNCHANGED <<explicit, feedback, current>>
        /\ tab[t].at = "idle" /\ tab[t].shown \in Prefs
    BY <1>13 DEF Edit, ButtonsEnabled, At, TypeOK, Tab, store
  <2> DEFINE q == Typed(tab[t].shown, k, w)
             x == [shown |-> q, at |-> tab[t].at, op |-> tab[t].op, sent |-> tab[t].sent,
                   got |-> tab[t].got]
  <2>3. /\ q.history = tab[t].shown.history
        /\ \A j \in Keys \ {k} : q.weights[j] = tab[t].shown.weights[j]
    BY <2>2, PrefsFacts DEF Typed, Weights
  <2> HIDE DEF q
  <2>4. tab' = [tab EXCEPT ![t] = x]
    <3>1. [tab[t] EXCEPT !.shown = q] = x
      BY <1>0 DEF Shaped, TabRecord
    <3>2. tab' = [tab EXCEPT ![t] = [tab[t] EXCEPT !.shown = q]]
      BY <1>0, <2>1 DEF q
    <3> QED
      BY <3>1, <3>2
  <2>5. Shaped(x) /\ x.shown = q /\ x.at = "idle"
    BY <1>0, <2>2 DEF Shaped, TabRecord
  <2> HIDE DEF x
  <2>6. tab'[t] = x /\ edited'[t] = edited[t] \cup {k}
    BY <1>0, <2>1, <2>4
  <2>7. current[t] => PageOf(t)'
    <3> SUFFICES ASSUME current[t], q # NoPage PROVE PageOf(t)'
      BY <2>5, <2>6 DEF PageOf
    <3>1. Unsaved(tab[t].shown, edited[t])
      BY <1>0, <1>13, <2>2 DEF PageOf, Edit, ButtonsEnabled
    <3> QED
      BY <2>2, <2>3, <2>5, <2>6, <3>1 DEF PageOf, Unsaved
  <2>8. edited' = [edited EXCEPT ![t] = edited[t] \cup {k}]
    BY <2>1
  <2>9. QED
    BY <2>2, <2>4, <2>5, <2>7, <2>8, <1>3, StepKeepsPages
<1>14. QED
  BY <1>4, <1>5, <1>6, <1>7, <1>8, <1>9, <1>10, <1>11, <1>12, <1>13 DEF Reader

LEMMA NextKeepsPages == TypeOK /\ PagesInv /\ [Next]_vars => PagesInv'
<1> SUFFICES ASSUME TypeOK, PagesInv, [Next]_vars PROVE PagesInv'
  OBVIOUS
<1>1. CASE \E t \in Tabs : Reader(t)
  BY <1>1, ReaderKeepsPages
<1>2. CASE UNCHANGED <<explicit, feedback, tab, edited, current>>
  BY <1>2 DEF PagesInv, Shaped, PageOf, Stored, Unsaved
<1>3. (\E r \in Runs : Run(r)) \/ Prune \/ NextDay \/ UNCHANGED vars
        => UNCHANGED <<explicit, feedback, tab, edited, current>>
  BY DEF Run, Execute, CreateRow, FindSnapshot, ExecReadsRow, ExecReadsFeedback,
         ExecTakesDefault, SaveSnapshot, RereadSnapshot, ExecEnds, Prune, NextDay, store, pages, vars
<1>4. QED
  BY <1>1, <1>2, <1>3 DEF Next

(***************************************************************************)
(* PageShowsTheStore: for any number of tabs and any interleaving of their *)
(* requests, statement by statement, a page that no request has overtaken  *)
(* shows the weights and the history that are stored, except for what the  *)
(* reader has typed and not yet saved (PreferencesPage, updateWeight,      *)
(* getPreferences).                                                        *)
(***************************************************************************)
THEOREM PagesShowTheStore == Spec => []PageShowsTheStore
<1>1. PagesInv => PageShowsTheStore
  BY DEF PagesInv, PageOf, Unsaved, PageShowsTheStore, At
<1>2. QED
  BY <1>1, InitPages, NextKeepsPages, PreferencesTypeCorrect, PTL DEF Spec
=============================================================================
