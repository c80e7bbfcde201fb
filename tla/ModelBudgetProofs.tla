------------------------- MODULE ModelBudgetProofs -------------------------
(***************************************************************************)
(* The budget table under the provider calls, the terminal cleanup and all *)
(* their failures implements the account of BudgetAccount, so no month     *)
(* commits more than the limit whatever the runs do.                       *)
(*                                                                         *)
(* First the account: the sum of a month is the size of a set of units, so *)
(* a step that adds no unit cannot raise it and a hold raises it by at     *)
(* most the units it adds.                                                 *)
(***************************************************************************)
EXTENDS ModelBudget, FiniteSetTheorems, TLAPS

\* The units a hold of call c can add.
NewUnits(c) == {c} \X (1..MaxCost[c])

(***************************************************************************)
(* A new hold adds as many units as its maximum charge.                    *)
(***************************************************************************)
LEMMA NewUnitsSize ==
    ASSUME NEW c \in Calls
    PROVE  /\ IsFiniteSet(NewUnits(c))
           /\ Cardinality(NewUnits(c)) = MaxCost[c]
<1>1. MaxCost[c] \in Nat
  BY CostsAreNat
<1>2. IsFiniteSet(1..MaxCost[c]) /\ Cardinality(1..MaxCost[c]) = MaxCost[c]
  BY <1>1, FS_Interval
<1>3. IsFiniteSet({c}) /\ Cardinality({c}) = 1
  BY FS_Singleton
<1>4. /\ IsFiniteSet({c} \X (1..MaxCost[c]))
      /\ Cardinality({c} \X (1..MaxCost[c])) = 1 * MaxCost[c]
  BY <1>2, <1>3, FS_Product
<1>5. QED
  BY <1>1, <1>4 DEF NewUnits

(***************************************************************************)
(* The units of a month form a finite set, so its sum is a number.         *)
(***************************************************************************)
LEMMA CommittedFinite ==
    ASSUME NEW m
    PROVE  IsFiniteSet(CommittedUnits(m)) /\ Committed(m) \in Nat
<1>1. IsFiniteSet(1..CostBound)
  BY CostsAreNat, FS_Interval
<1>2. IsFiniteSet(Calls \X (1..CostBound))
  BY <1>1, CallsFinite, FS_Product
<1>3. CommittedUnits(m) \in SUBSET (Calls \X (1..CostBound))
  BY DEF CommittedUnits, Units
<1>4. IsFiniteSet(CommittedUnits(m))
  BY <1>2, <1>3, FS_Subset
<1>5. QED
  BY <1>4, FS_CardinalityType DEF Committed

(***************************************************************************)
(* The account has its type in every state.                                *)
(***************************************************************************)
THEOREM AccountTypeCorrect == AccountSpec => []AccountTypeOK
<1>1. AccountInit => AccountTypeOK
  BY CostsAreNat, LimitIsNat DEF Months, AccountInit, AccountTypeOK, RowStatus
<1>2. AccountTypeOK /\ [AccountNext]_accountVars => AccountTypeOK'
  <2> SUFFICES ASSUME AccountTypeOK, [AccountNext]_accountVars
               PROVE  AccountTypeOK'
    OBVIOUS
  <2>1. ASSUME NEW c \in Calls, NEW m \in Months, Hold(c, m)
        PROVE  AccountTypeOK'
    BY <2>1 DEF AccountTypeOK, Hold, RowStatus
  <2>2. ASSUME NEW c \in Calls, NEW a \in 0..CostBound, Settle(c, a)
        PROVE  AccountTypeOK'
    BY <2>2 DEF AccountTypeOK, Settle, RowStatus
  <2>3. ASSUME NEW S \in SUBSET Calls, Drop(S)
        PROVE  AccountTypeOK'
    BY <2>3 DEF AccountTypeOK, Drop, RowStatus
  <2>4. CASE UNCHANGED accountVars
    BY <2>4 DEF AccountTypeOK, accountVars
  <2>5. QED
    BY <2>1, <2>2, <2>3, <2>4 DEF AccountNext
<1>3. QED
  BY <1>1, <1>2, PTL DEF AccountSpec

(***************************************************************************)
(* A step that changes no more than these units keeps a month's sum.       *)
(***************************************************************************)
LEMMA FewerUnits ==
    ASSUME NEW m, CommittedUnits(m)' \subseteq CommittedUnits(m)
    PROVE  Committed(m)' \in Nat /\ Committed(m)' <= Committed(m)
  BY CommittedFinite, FS_Subset, FS_CardinalityType DEF Committed

(***************************************************************************)
(* WithinLimit: no month of the account ever commits more than the limit,  *)
(* the promise of the conditional INSERT of reserveModelBudget.            *)
(***************************************************************************)
THEOREM AccountWithinLimit == AccountSpec => []WithinLimit
<1>1. AccountInit => WithinLimit
  <2> SUFFICES ASSUME AccountInit, NEW m \in Months
               PROVE  Committed(m) <= Limit
    BY DEF WithinLimit
  <2>1. ASSUME NEW c \in Calls PROVE Amount(c) = 0
    BY DEF AccountInit, Amount
  <2>2. CommittedUnits(m) = {}
    BY <2>1 DEF CommittedUnits, Units
  <2>3. QED
    BY <2>2, FS_EmptySet, LimitIsNat DEF Committed
<1>2. AccountTypeOK /\ WithinLimit /\ [AccountNext]_accountVars => WithinLimit'
  <2> SUFFICES ASSUME AccountTypeOK, WithinLimit, [AccountNext]_accountVars, NEW m \in Months
               PROVE  Committed(m)' <= Limit
    BY DEF WithinLimit
  <2>0. Committed(m) \in Nat /\ Committed(m) <= Limit
    BY CommittedFinite DEF WithinLimit
  <2>1. ASSUME NEW c \in Calls, NEW n \in Months, Hold(c, n)
        PROVE  Committed(m)' <= Limit
    <3>1. ASSUME NEW d \in Calls, d # c
          PROVE  Units(d, m)' = Units(d, m)
      BY <2>1, <3>1 DEF Hold, Units, Amount, AccountTypeOK
    <3>2. Amount(c)' = MaxCost[c] /\ month'[c] = n
      BY <2>1 DEF Hold, Amount, AccountTypeOK
    <3>3. CASE m = n
      <4>1. Units(c, m)' \subseteq NewUnits(c)
        BY <3>2, CostsAreNat DEF Units, NewUnits
      <4>2. CommittedUnits(m)' \in SUBSET (CommittedUnits(m) \cup NewUnits(c))
        BY <3>1, <4>1 DEF CommittedUnits
      <4>3. /\ IsFiniteSet(CommittedUnits(m) \cup NewUnits(c))
            /\ Cardinality(CommittedUnits(m) \cup NewUnits(c))
                 = Committed(m) + MaxCost[c]
                   - Cardinality(CommittedUnits(m) \cap NewUnits(c))
        BY CommittedFinite, NewUnitsSize, FS_Union DEF Committed
      <4>4. Cardinality(CommittedUnits(m) \cap NewUnits(c)) \in Nat
        BY CommittedFinite, FS_Intersection, FS_CardinalityType
      <4>5. /\ Committed(m)' \in Nat
            /\ Committed(m)' <= Cardinality(CommittedUnits(m) \cup NewUnits(c))
        BY <4>2, <4>3, FS_Subset, FS_CardinalityType DEF Committed
      <4>6. MaxCost[c] \in Nat /\ Committed(m) + MaxCost[c] <= Limit
        BY <2>1, <3>3, CostsAreNat DEF Hold
      <4>7. QED
        BY <2>0, <4>3, <4>4, <4>5, <4>6, LimitIsNat
    <3>4. CASE m # n
      <4>1. Units(c, m)' = {}
        BY <3>2, <3>4 DEF Units
      <4>2. CommittedUnits(m)' \subseteq CommittedUnits(m)
        BY <3>1, <4>1 DEF CommittedUnits
      <4>3. QED
        BY <2>0, <4>2, FewerUnits, LimitIsNat
    <3>5. QED
      BY <3>3, <3>4
  <2>2. ASSUME NEW c \in Calls, NEW a \in 0..CostBound, Settle(c, a)
        PROVE  Committed(m)' <= Limit
    <3>1. ASSUME NEW d \in Calls, d # c
          PROVE  Units(d, m)' = Units(d, m)
      BY <2>2, <3>1 DEF Settle, Units, Amount, AccountTypeOK
    <3>2. Amount(c)' = a /\ Amount(c) = MaxCost[c] /\ a <= MaxCost[c]
          /\ month'[c] = month[c]
      BY <2>2 DEF Settle, Amount, AccountTypeOK
    <3>3. Units(c, m)' \subseteq Units(c, m)
      BY <3>2, CostsAreNat DEF Units
    <3>4. CommittedUnits(m)' \subseteq CommittedUnits(m)
      BY <3>1, <3>3 DEF CommittedUnits
    <3>5. QED
      BY <2>0, <3>4, FewerUnits, LimitIsNat
  <2>3. ASSUME NEW S \in SUBSET Calls, Drop(S)
        PROVE  Committed(m)' <= Limit
    <3>1. ASSUME NEW d \in Calls
          PROVE  Units(d, m)' \subseteq Units(d, m)
      <4>1. CASE d \in S
        <5>1. Amount(d)' = 0
          BY <2>3, <4>1 DEF Drop, Amount, AccountTypeOK
        <5>2. Units(d, m)' = {}
          BY <5>1 DEF Units
        <5>3. QED
          BY <5>2
      <4>2. CASE d \notin S
        BY <2>3, <4>2 DEF Drop, Units, Amount, AccountTypeOK
      <4>3. QED
        BY <4>1, <4>2
    <3>2. CommittedUnits(m)' \subseteq CommittedUnits(m)
      BY <3>1 DEF CommittedUnits
    <3>3. QED
      BY <2>0, <3>2, FewerUnits, LimitIsNat
  <2>4. CASE UNCHANGED accountVars
    BY <2>0, <2>4 DEF accountVars, Committed, CommittedUnits, Units, Amount
  <2>5. QED
    BY <2>1, <2>2, <2>3, <2>4 DEF AccountNext
<1>3. QED
  BY <1>1, <1>2, AccountTypeCorrect, PTL DEF AccountSpec

----------------------------------------------------------------------------
(* The table. *)

(***************************************************************************)
(* The maximum charges of some calls add up to a number.                   *)
(***************************************************************************)
LEMMA CostOfIsNat ==
    ASSUME NEW S \in SUBSET Calls
    PROVE  CostOf(S, MaxCost) \in Nat
<1>1. IsFiniteSet(1..CostBound)
  BY ModelBudgetAssumption, CallsFinite, CostsAreNat, LimitIsNat, FS_Interval
<1>2. IsFiniteSet(Calls \X (1..CostBound))
  BY <1>1, ModelBudgetAssumption, CallsFinite, CostsAreNat, LimitIsNat, FS_Product
<1>3. UNION {{<<c, i>> : i \in 1..MaxCost[c]} : c \in S}
        \in SUBSET (Calls \X (1..CostBound))
  BY ModelBudgetAssumption, CallsFinite, CostsAreNat, LimitIsNat
<1>4. QED
  BY <1>2, <1>3, FS_Subset, FS_CardinalityType DEF CostOf

(***************************************************************************)
(* Every step keeps the type of the table: an insert, a reconciliation of  *)
(* at most the reserved charge, a release, or no change.                   *)
(***************************************************************************)
RowStep == \/ \E c \in Calls : Fits(c) /\ status[c] = "none" /\ InsertReservation(c)
           \/ \E c \in Calls : CanReconcile(c) /\ UpdateReconciled(c)
           \/ \E S \in SUBSET Calls : /\ \A c \in S : status[c] = "reserved"
                                      /\ UpdateReleased(S)
           \/ UNCHANGED rowVars

\* A call that has not begun has no row.
NoRowBefore == \A c \in Calls : pc[c] = "idle" => status[c] = "none"

IInv == TypeOK /\ NoRowBefore

USE DEF AccountTypeOK, RowStatus, Months

(***************************************************************************)
(* Every step of a call or a run changes the table in one of these ways.   *)
(***************************************************************************)
LEMMA EveryStepIsRowStep ==
    ASSUME IInv, [Next]_vars
    PROVE  RowStep
<1>1. ASSUME NEW c \in Calls, CallStep(c)
      PROVE  RowStep
  <2>1. CASE Reserve(c)
    BY <2>1 DEF Reserve, Begin, RowStep, IInv, NoRowBefore
  <2>2. CASE ReserveThrows(c)
    BY <2>2 DEF ReserveThrows, Begin, RowStep, IInv, NoRowBefore
  <2>3. CASE Reconcile(c)
    BY <2>3 DEF Reconcile, RowStep
  <2>4. CASE ReconcileThrows(c)
    BY <2>4 DEF ReconcileThrows, RowStep
  <2>5. CASE Release(c)
    <3>1. {c} \in SUBSET Calls
      OBVIOUS
    <3>2. QED
      BY <2>5, <3>1 DEF Release, RowStep
  <2>6. CASE Refuse(c) \/ Answer(c) \/ AnswerWithoutUsage(c) \/ ProviderFails(c)
             \/ RecordUsage(c) \/ RecordUsageThrows(c)
    BY <2>6 DEF Refuse, Answer, AnswerWithoutUsage, ProviderFails, RecordUsage,
                RecordUsageThrows, RowStep
  <2>7. QED
    BY <1>1, <2>1, <2>2, <2>3, <2>4, <2>5, <2>6 DEF CallStep
<1>2. ASSUME NEW r \in Runs, RunStep(r)
      PROVE  RowStep
  <2>1. HeldBy(r) \in SUBSET Calls /\ \A c \in HeldBy(r) : status[c] = "reserved"
    BY DEF HeldBy, CallsOf
  <2>2. CASE CleanupUpdate(r)
    BY <2>1, <2>2 DEF CleanupUpdate, RowStep
  <2>3. CASE CleanupThrows(r)
    BY <2>1, <2>3 DEF CleanupThrows, RowStep
  <2>4. CASE StepTimesOut(r) \/ Crash(r) \/ Succeed(r) \/ Fail(r)
             \/ CleanupSelect(r) \/ Resume(r)
    BY <2>4 DEF StepTimesOut, Crash, Succeed, Fail, CleanupSelect, Resume, RowStep
  <2>5. QED
    BY <1>2, <2>2, <2>3, <2>4 DEF RunStep
<1>3. CASE NextMonth \/ UNCHANGED vars
  BY <1>3 DEF NextMonth, vars, rowVars, RowStep
<1>4. QED
  BY <1>1, <1>2, <1>3 DEF Next

(***************************************************************************)
(* A row step keeps the type of the table.                                 *)
(***************************************************************************)
LEMMA RowStepType ==
    ASSUME TypeOK, RowStep
    PROVE  AccountTypeOK'
<1>1. ASSUME NEW c \in Calls, InsertReservation(c)
      PROVE  AccountTypeOK'
  BY <1>1, ModelBudgetAssumption, CallsFinite, CostsAreNat, LimitIsNat DEF InsertReservation, TypeOK
<1>2. ASSUME NEW c \in Calls, CanReconcile(c), UpdateReconciled(c)
      PROVE  AccountTypeOK'
  <2>1. bill[c] \in 0..CostBound
    <3>1. bill[c] \in Nat /\ MaxCost[c] \in 0..CostBound
      BY ModelBudgetAssumption, CallsFinite, CostsAreNat, LimitIsNat DEF TypeOK
    <3>2. QED
      BY <1>2, <3>1, ModelBudgetAssumption, CallsFinite, CostsAreNat, LimitIsNat DEF CanReconcile
  <2>2. QED
    BY <1>2, <2>1 DEF UpdateReconciled, TypeOK
<1>3. ASSUME NEW S \in SUBSET Calls, UpdateReleased(S)
      PROVE  AccountTypeOK'
  BY <1>3 DEF UpdateReleased, TypeOK
<1>4. CASE UNCHANGED rowVars
  BY <1>4 DEF rowVars, TypeOK
<1>5. QED
  BY <1>1, <1>2, <1>3, <1>4 DEF RowStep

(***************************************************************************)
(* The other variables keep their types under a call's steps ...           *)
(***************************************************************************)
LEMMA CallStepType ==
    ASSUME IInv, NEW c \in Calls, CallStep(c), AccountTypeOK'
    PROVE  IInv'
<1> USE DEF IInv, TypeOK, NoRowBefore, InFlight, Over
<1>1. RunOf[c] \in Runs /\ MaxCost[c] \in 0..CostBound /\ LastMonth \in Nat \ {0}
      /\ CostBound \in Nat
  BY ModelBudgetAssumption, CallsFinite, CostsAreNat, LimitIsNat
<1>2. CASE Reserve(c)
  <2>1. TypeOK'
    <3>1. pc' \in [Calls -> {"idle"} \cup InFlight \cup Over]
      BY <1>2 DEF Reserve
    <3>2. step' \in [Runs -> Calls \cup {NoCall}] /\ late' \in [Runs -> Calls \cup {NoCall}]
          /\ phase' \in [Runs -> Phases] /\ tally' \in [Runs -> Nat]
          /\ audit' \in [Runs -> [claimed : Nat, freed : Nat]]
      BY <1>1, <1>2 DEF Reserve, Begin
    <3>3. QED
      BY <1>2, <3>1, <3>2 DEF Reserve
  <2>2. NoRowBefore'
    BY <1>1, <1>2 DEF Reserve, Begin, InsertReservation
  <2>3. QED
    BY <2>1, <2>2
<1>3. CASE Refuse(c)
  BY <1>1, <1>3 DEF Refuse, Begin, rowVars
<1>4. CASE ReserveThrows(c)
  BY <1>1, <1>4 DEF ReserveThrows, Begin, InsertReservation, rowVars
<1>5. CASE Answer(c)
  <2>1. PICK b \in 0..(MaxCost[c] + 1) : bill' = [bill EXCEPT ![c] = b]
    BY <1>5 DEF Answer
  <2>2. b \in 0..(CostBound + 1)
    BY <1>1
  <2>3. QED
    BY <1>1, <1>5, <2>1, <2>2 DEF Answer, rowVars, runVars
<1>6. CASE AnswerWithoutUsage(c) \/ ProviderFails(c)
  BY <1>1, <1>6 DEF AnswerWithoutUsage, ProviderFails, rowVars, runVars
<1>7. CASE RecordUsage(c) \/ RecordUsageThrows(c)
  <2>1. usage' \in [Calls -> 0..LastMonth]
    BY <1>1, <1>7 DEF RecordUsage, RecordUsageThrows
  <2>2. pc' \in [Calls -> {"idle"} \cup InFlight \cup Over] /\ NoRowBefore'
    BY <1>7 DEF RecordUsage, RecordUsageThrows, rowVars
  <2>3. QED
    BY <1>7, <2>1, <2>2 DEF RecordUsage, RecordUsageThrows, rowVars, runVars
<1>8. CASE Reconcile(c)
  BY <1>1, <1>8 DEF Reconcile, UpdateReconciled, AfterReconcile, runVars
<1>9. CASE ReconcileThrows(c)
  BY <1>1, <1>9 DEF ReconcileThrows, UpdateReconciled, rowVars, runVars
<1>10. CASE Release(c)
  BY <1>1, <1>10 DEF Release, UpdateReleased, rowVars, runVars
<1>11. QED
  BY <1>2, <1>3, <1>4, <1>5, <1>6, <1>7, <1>8, <1>9, <1>10 DEF CallStep

(***************************************************************************)
(* ... and under a run's steps, of which only the cleanup writes rows.     *)
(***************************************************************************)
LEMMA RunStepType ==
    ASSUME IInv, NEW r \in Runs, RunStep(r), AccountTypeOK'
    PROVE  IInv'
<1> USE DEF IInv, TypeOK, NoRowBefore, InFlight, Over, Phases
<1>1. CASE StepTimesOut(r)
  BY <1>1 DEF StepTimesOut, rowVars
<1>2. CASE Crash(r)
  <2>1. \A c \in Calls : pc'[c] = "idle" => pc[c] = "idle"
    BY <1>2 DEF Crash
  <2>2. QED
    BY <1>2, <2>1 DEF Crash, rowVars
<1>3. CASE Succeed(r) \/ Fail(r)
  BY <1>3 DEF Succeed, Fail, rowVars
<1>9. CASE Resume(r)
  <2>1. [claimed |-> 0, freed |-> 0] \in [claimed : Nat, freed : Nat]
    OBVIOUS
  <2>2. QED
    BY <1>9, <2>1 DEF Resume, rowVars
<1>4. HeldBy(r) \in SUBSET Calls /\ CostOf(HeldBy(r), MaxCost) \in Nat
  BY CostOfIsNat DEF HeldBy, CallsOf
<1>5. CASE CleanupSelect(r)
  BY <1>4, <1>5 DEF CleanupSelect, rowVars
<1>6. CASE CleanupUpdate(r)
  <2>1. audit' \in [Runs -> [claimed : Nat, freed : Nat]]
    BY <1>4, <1>6 DEF CleanupUpdate
  <2>2. NoRowBefore'
    BY <1>6 DEF CleanupUpdate, UpdateReleased, HeldBy
  <2>3. QED
    BY <1>6, <2>1, <2>2 DEF CleanupUpdate
<1>7. CASE CleanupThrows(r)
  <2>1. NoRowBefore'
    BY <1>7 DEF CleanupThrows, UpdateReleased, HeldBy, rowVars
  <2>2. QED
    BY <1>7, <2>1 DEF CleanupThrows
<1>8. QED
  BY <1>1, <1>2, <1>3, <1>5, <1>6, <1>7, <1>9 DEF RunStep

(***************************************************************************)
(* The model has its type in every state, and a call that has not begun    *)
(* has no reservation.                                                     *)
(***************************************************************************)
THEOREM BudgetInvariant == Spec => []IInv
<1>1. Init => IInv
  BY ModelBudgetAssumption, CallsFinite, CostsAreNat, LimitIsNat DEF Init, IInv, TypeOK, NoRowBefore, InFlight, Over, Phases
<1>2. IInv /\ [Next]_vars => IInv'
  <2> SUFFICES ASSUME IInv, [Next]_vars
               PROVE  IInv'
    OBVIOUS
  <2>1. AccountTypeOK'
    BY EveryStepIsRowStep, RowStepType DEF IInv
  <2>2. CASE NextMonth
    BY <2>1, <2>2, ModelBudgetAssumption, CallsFinite, CostsAreNat, LimitIsNat
       DEF NextMonth, IInv, TypeOK, NoRowBefore, rowVars, runVars
  <2>3. CASE UNCHANGED vars
    BY <2>3 DEF vars, IInv, TypeOK, NoRowBefore
  <2>4. QED
    BY <2>1, <2>2, <2>3, CallStepType, RunStepType DEF Next
<1>3. QED
  BY <1>1, <1>2, PTL DEF Spec

(***************************************************************************)
(* TypeOK: the reservation rows and the calls stay well formed; no charge  *)
(* above a reservation's bound is ever stored as its actual cost.          *)
(***************************************************************************)
THEOREM BudgetTypeCorrect == Spec => []TypeOK
  BY BudgetInvariant, PTL DEF IInv

(***************************************************************************)
(* ImplementsAccount: reserve, reconcile and every kind of release are     *)
(* steps of the account, and everything else leaves it alone.              *)
(***************************************************************************)
THEOREM BudgetImplementsAccount == Spec => ImplementsAccount
<1>1. Init => AccountInit
  BY ModelBudgetAssumption, CallsFinite, CostsAreNat, LimitIsNat DEF Init, AccountInit
<1>2. IInv /\ [Next]_vars => [AccountNext]_(accountVars)
  <2> SUFFICES ASSUME IInv, [Next]_vars
               PROVE  AccountNext \/ UNCHANGED accountVars
    OBVIOUS
  <2>1. clock \in Months
    BY DEF IInv, TypeOK
  <2>2. ASSUME NEW c \in Calls, Fits(c), status[c] = "none", InsertReservation(c)
        PROVE  AccountNext
    <3>1. Hold(c, clock)
      BY <2>2 DEF Fits, InsertReservation, Hold
    <3>2. QED
      BY <2>1, <3>1 DEF AccountNext
  <2>3. ASSUME NEW c \in Calls, CanReconcile(c), UpdateReconciled(c)
        PROVE  AccountNext
    <3>1. bill[c] \in 0..CostBound
      <4>1. bill[c] \in Nat /\ MaxCost[c] \in 0..CostBound
        BY ModelBudgetAssumption, CallsFinite, CostsAreNat, LimitIsNat DEF IInv, TypeOK
      <4>2. QED
        BY <2>3, <4>1, ModelBudgetAssumption, CallsFinite, CostsAreNat, LimitIsNat DEF CanReconcile
    <3>2. Settle(c, bill[c])
      BY <2>3 DEF CanReconcile, UpdateReconciled, Settle
    <3>3. QED
      BY <3>1, <3>2 DEF AccountNext
  <2>4. ASSUME NEW S \in SUBSET Calls, \A c \in S : status[c] = "reserved",
               UpdateReleased(S)
        PROVE  AccountNext
    <3>1. Drop(S)
      BY <2>4 DEF UpdateReleased, Drop
    <3>2. QED
      BY <3>1 DEF AccountNext
  <2>5. CASE UNCHANGED rowVars
    BY <2>5 DEF rowVars, accountVars
  <2>6. QED
    BY <2>2, <2>3, <2>4, <2>5, EveryStepIsRowStep DEF RowStep
<1>3. QED
  BY <1>1, <1>2, BudgetInvariant, PTL DEF Spec, AccountSpec, ImplementsAccount

(***************************************************************************)
(* WithinLimit: for any runs, calls, charges and failures, no month's      *)
(* reservations and reconciled charges exceed the monthly limit.           *)
(***************************************************************************)
THEOREM BudgetWithinLimit == Spec => []WithinLimit
  BY AccountWithinLimit, BudgetImplementsAccount, PTL DEF ImplementsAccount

(***************************************************************************)
(* SettledRowsAreFinal: no step, a late answer's reconciliation or a       *)
(* cleanup's release, changes a row that is reconciled or released.        *)
(***************************************************************************)
THEOREM BudgetSettledRowsAreFinal == Spec => SettledRowsAreFinal
<1>1. IInv /\ [Next]_vars
        => [\A c \in Calls : status[c] \in {"reconciled", "released"}
             => status'[c] = status[c] /\ actual'[c] = actual[c]]_rowVars
  <2> SUFFICES ASSUME IInv, [Next]_vars, NEW c \in Calls,
                      status[c] \in {"reconciled", "released"}
               PROVE  status'[c] = status[c] /\ actual'[c] = actual[c]
    OBVIOUS
  <2>1. RowStep /\ status \in [Calls -> RowStatus]
        /\ actual \in [Calls -> 0..CostBound]
    BY EveryStepIsRowStep DEF IInv, TypeOK
  <2>2. QED
    BY <2>1 DEF RowStep, InsertReservation, CanReconcile, UpdateReconciled,
                UpdateReleased, rowVars
<1>2. QED
  BY <1>1, BudgetInvariant, PTL DEF Spec, SettledRowsAreFinal

(***************************************************************************)
(* CleanedRunHoldsNothing: after the UPDATE of the terminal cleanup only a *)
(* timed-out attempt can reserve for the run, so without one the run holds *)
(* no budget until it is resumed.                                          *)
(***************************************************************************)
THEOREM BudgetCleanedRunHoldsNothing == Spec => []CleanedRunHoldsNothing
<1>1. Init => CleanedRunHoldsNothing
  BY DEF Init, CleanedRunHoldsNothing
<1>2. IInv /\ CleanedRunHoldsNothing /\ [Next]_vars => CleanedRunHoldsNothing'
  <2> SUFFICES ASSUME IInv, CleanedRunHoldsNothing, [Next]_vars, NEW r \in Runs,
                      phase'[r] = "cleaned", late'[r] = NoCall,
                      NEW c \in Calls, RunOf[c] = r, status'[c] = "reserved"
               PROVE  FALSE
    BY DEF CleanedRunHoldsNothing, HeldBy, CallsOf
  <2>1. ASSUME phase[r] = "cleaned", late[r] = NoCall, status[c] = "reserved"
        PROVE  FALSE
    BY <2>1 DEF CleanedRunHoldsNothing, HeldBy, CallsOf
  <2>2. ASSUME NEW d \in Calls, CallStep(d)
        PROVE  FALSE
    <3>1. phase[r] = "cleaned"
      BY <2>2 DEF CallStep, Reserve, Refuse, ReserveThrows, Answer, AnswerWithoutUsage,
         ProviderFails, RecordUsage, RecordUsageThrows, Reconcile, ReconcileThrows,
         Release, runVars
    <3>2. CASE Reserve(d) \/ ReserveThrows(d)
      <4>1. CASE RunOf[d] = r
        <5>1. late[r] \in Calls /\ late'[r] = d
          BY <3>1, <3>2, <4>1 DEF Reserve, ReserveThrows, Begin, Waiting, LateMayCall,
             IInv, TypeOK
        <5>2. QED
          BY <5>1, ModelBudgetAssumption
      <4>2. CASE RunOf[d] # r
        BY <2>1, <3>1, <3>2, <4>2 DEF Reserve, ReserveThrows, Begin, InsertReservation,
           rowVars, IInv, TypeOK, AccountTypeOK
      <4>3. QED
        BY <4>1, <4>2
    <3>3. CASE Refuse(d)
      <4>1. d # c
        BY <3>3 DEF Refuse, Begin, rowVars, IInv, NoRowBefore
      <4>2. CASE RunOf[d] = r
        <5>1. late'[r] = d
          BY <3>1, <3>3, <4>2 DEF Refuse, Begin, Waiting, IInv, TypeOK
        <5>2. QED
          BY <5>1, ModelBudgetAssumption
      <4>3. CASE RunOf[d] # r
        BY <2>1, <3>1, <3>3, <4>3 DEF Refuse, Begin, rowVars, IInv, TypeOK
      <4>4. QED
        BY <4>2, <4>3
    <3>4. CASE Reconcile(d) \/ ReconcileThrows(d) \/ Release(d)
      BY <2>1, <3>1, <3>4 DEF Reconcile, ReconcileThrows, Release, UpdateReconciled,
         UpdateReleased, rowVars, runVars, IInv, TypeOK, AccountTypeOK
    <3>5. CASE Answer(d) \/ AnswerWithoutUsage(d) \/ ProviderFails(d)
               \/ RecordUsage(d) \/ RecordUsageThrows(d)
      BY <2>1, <3>1, <3>5 DEF Answer, AnswerWithoutUsage, ProviderFails, RecordUsage,
         RecordUsageThrows, rowVars, runVars
    <3>6. QED
      BY <2>2, <3>2, <3>3, <3>4, <3>5 DEF CallStep
  <2>3. ASSUME NEW q \in Runs, RunStep(q)
        PROVE  FALSE
    <3>1. CASE CleanupUpdate(q)
      <4>1. CASE q = r
        BY <3>1, <4>1 DEF CleanupUpdate, UpdateReleased, HeldBy, CallsOf
      <4>2. CASE q # r
        BY <2>1, <3>1, <4>2 DEF CleanupUpdate, UpdateReleased, IInv, TypeOK
      <4>3. QED
        BY <4>1, <4>2
    <3>2. CASE CleanupThrows(q)
      BY <2>1, <3>2 DEF CleanupThrows, UpdateReleased, rowVars, IInv, TypeOK
    <3>3. CASE StepTimesOut(q)
      BY <2>1, <3>3, ModelBudgetAssumption DEF StepTimesOut, rowVars, IInv, TypeOK
    <3>4. CASE Crash(q)
      BY <2>1, <3>4 DEF Crash, rowVars, IInv, TypeOK
    <3>5. CASE Succeed(q) \/ Fail(q) \/ CleanupSelect(q) \/ Resume(q)
      BY <2>1, <3>5 DEF Succeed, Fail, CleanupSelect, Resume, rowVars, IInv, TypeOK
    <3>6. QED
      BY <2>3, <3>1, <3>2, <3>3, <3>4, <3>5 DEF RunStep
  <2>4. CASE NextMonth \/ UNCHANGED vars
    BY <2>1, <2>4 DEF NextMonth, vars, rowVars, runVars
  <2>5. QED
    BY <2>2, <2>3, <2>4 DEF Next
<1>3. QED
  BY <1>1, <1>2, BudgetInvariant, PTL DEF Spec
=============================================================================
