--------------------------- MODULE BudgetAccount ---------------------------
(***************************************************************************)
(* What the table model_budget_reservations promises to the rest of the    *)
(* program, without the calls, the runs or the failures: every paid call   *)
(* holds its maximum charge in one month before it is made, a hold is      *)
(* settled once for at most that charge or is dropped, and the month never *)
(* commits more than its limit.  Money is counted in whole units (the code *)
(* counts micro-dollars).                                                  *)
(***************************************************************************)
EXTENDS Integers, FiniteSets

CONSTANTS
    Calls,      \* the paid provider calls, each with one reservation row
    LastMonth,  \* months are numbered from 1; the clock stops at this one
    MaxCost,    \* MaxCost[c]: the maximum charge call c reserves
    CostBound,  \* the largest charge any call reserves
    Limit       \* MONTHLY_BUDGET_USD

ASSUME CallsFinite == IsFiniteSet(Calls)
ASSUME CostsAreNat == CostBound \in Nat /\ MaxCost \in [Calls -> 0..CostBound]
ASSUME LimitIsNat  == Limit \in Nat /\ LastMonth \in Nat \ {0}

\* The values of month_start.
Months == 1..LastMonth

VARIABLES
    status,     \* status[c]: "none" until the row exists
    month,      \* month[c]: the month_start of the row
    actual      \* actual[c]: actual_cost_microusd, 0 for NULL

accountVars == <<status, month, actual>>

RowStatus == {"none", "reserved", "reconciled", "released"}

AccountTypeOK == /\ status \in [Calls -> RowStatus]
                 /\ month \in [Calls -> Months]
                 /\ actual \in [Calls -> 0..CostBound]

----------------------------------------------------------------------------
\* What the SUM(CASE ...) of the reserving INSERT adds for row c.
Amount(c) == IF status[c] = "reserved" THEN MaxCost[c]
             ELSE IF status[c] = "reconciled" THEN actual[c] ELSE 0

\* The units of money row c commits in month m, one element for each unit,
\* so that the sum over the rows is the size of a union of disjoint sets.
Units(c, m) == {<<c, i>> : i \in {j \in 1..CostBound : month[c] = m /\ j <= Amount(c)}}

CommittedUnits(m) == UNION {Units(c, m) : c \in Calls}

Committed(m) == Cardinality(CommittedUnits(m))

----------------------------------------------------------------------------
AccountInit == /\ status = [c \in Calls |-> "none"]
               /\ month \in [Calls -> Months]
               /\ actual = [c \in Calls |-> 0]

\* The row is inserted only when its charge fits beside the month's others.
Hold(c, m) == /\ status[c] = "none"
              /\ Committed(m) + MaxCost[c] <= Limit
              /\ status' = [status EXCEPT ![c] = "reserved"]
              /\ month' = [month EXCEPT ![c] = m]
              /\ UNCHANGED actual

\* A hold is replaced by the actual charge, never by more than it held.
Settle(c, a) == /\ status[c] = "reserved"
                /\ a <= MaxCost[c]
                /\ status' = [status EXCEPT ![c] = "reconciled"]
                /\ actual' = [actual EXCEPT ![c] = a]
                /\ UNCHANGED month

\* Some holds are given back together; settled rows are left alone.
Drop(S) == /\ \A c \in S : status[c] = "reserved"
           /\ status' = [c \in Calls |-> IF c \in S THEN "released" ELSE status[c]]
           /\ UNCHANGED <<month, actual>>

AccountNext == \/ \E c \in Calls, m \in Months : Hold(c, m)
               \/ \E c \in Calls, a \in 0..CostBound : Settle(c, a)
               \/ \E S \in SUBSET Calls : Drop(S)

AccountSpec == AccountInit /\ [][AccountNext]_accountVars

----------------------------------------------------------------------------
(***************************************************************************)
(* No month commits more than its limit: the promise the conditional       *)
(* INSERT of reserveModelBudget makes for concurrent runs.                 *)
(***************************************************************************)
WithinLimit == \A m \in Months : Committed(m) <= Limit
=============================================================================
