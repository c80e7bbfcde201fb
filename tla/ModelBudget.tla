---------------------------- MODULE ModelBudget ----------------------------
(***************************************************************************)
(* The monthly model budget: OpenAIModelProvider reserves the maximum      *)
(* charge of a paid call in D1, makes the call, records its usage and      *)
(* reconciles or releases the reservation; when a run ends in error the    *)
(* pipeline releases what the run still holds.  Runs of several dates      *)
(* share the table.  Every D1 statement (or batch) is one step, so that    *)
(* calls of other runs, and of a timed-out attempt of the same run, fall   *)
(* between any two of them.                                                *)
(*                                                                         *)
(* Within an attempt of a Workflow step calls are sequential (step[r]).    *)
(* Workflow steps time out after ten minutes while their JavaScript goes   *)
(* on running, so a run also has at most one straggler: the timed-out      *)
(* attempt (late[r]).                                                      *)
(***************************************************************************)
EXTENDS BudgetAccount

CONSTANTS
    Runs,       \* workflow runs (edition dates)
    RunOf,      \* RunOf[c]: the run that makes call c
    Faults,     \* the failures considered, a subset of FaultKinds
    NoCall      \* no call has been made yet

FaultKinds == {"d1",       \* a D1 statement throws, applied or not
               "timeout",  \* a step attempt times out but goes on running
               "crash",    \* the isolate of a run is evicted
               "overrun"}  \* usage above the reserved maximum

ASSUME ModelBudgetAssumption ==
    /\ NoCall \notin Calls
    /\ RunOf \in [Calls -> Runs]
    /\ Faults \subseteq FaultKinds

\* The rows of model_budget_reservations are the account's variables.
VARIABLES
    usage,      \* usage[c]: month of the model_usage event, 0 when none
    bill,       \* bill[c]: the charge computed from the provider's usage
    clock,      \* the current UTC month
    pc,         \* pc[c]: where the provider object is in call c
    step,       \* step[r]: last call of the attempt the run waits for
    late,       \* late[r]: last call of a timed-out attempt, or NoCall
    phase,      \* phase[r]: the run as the terminal cleanup sees it
    tally,      \* tally[r]: maximum cost the cleanup's SELECT added up
    audit       \* audit[r]: what the cleanup audited, and what it freed

rowVars  == <<status, month, actual>>
runVars  == <<step, late, phase, tally, audit>>
vars     == <<status, month, actual, usage, bill, clock, pc, step, late,
              phase, tally, audit>>

CallsOf(r) == {c \in Calls : RunOf[c] = r}
HeldBy(r)  == {c \in CallsOf(r) : status[c] = "reserved"}

\* Sum of a cost over a set of calls.
CostOf(S, cost) == Cardinality(UNION {{<<c, i>> : i \in 1..cost[c]} : c \in S})

Over      == {"done", "failed", "refused", "lost"}
InFlight  == {"calling", "answered", "recorded", "unrecorded", "erring"}
Phases    == {"active", "cleaning", "counted", "cleaned", "uncleaned", "succeeded"}

TypeOK ==
    /\ AccountTypeOK
    /\ usage \in [Calls -> 0..LastMonth]
    /\ bill \in [Calls -> 0..(CostBound + 1)]
    /\ clock \in Months
    /\ pc \in [Calls -> {"idle"} \cup InFlight \cup Over]
    /\ step \in [Runs -> Calls \cup {NoCall}]
    /\ late \in [Runs -> Calls \cup {NoCall}]
    /\ phase \in [Runs -> Phases]
    /\ tally \in [Runs -> Nat]
    /\ audit \in [Runs -> [claimed : Nat, freed : Nat]]

Init ==
    /\ status = [c \in Calls |-> "none"]
    /\ month  = [c \in Calls |-> 1]
    /\ actual = [c \in Calls |-> 0]
    /\ usage  = [c \in Calls |-> 0]
    /\ bill   = [c \in Calls |-> 0]
    /\ clock  = 1
    /\ pc     = [c \in Calls |-> "idle"]
    /\ step   = [r \in Runs |-> NoCall]
    /\ late   = [r \in Runs |-> NoCall]
    /\ phase  = [r \in Runs |-> "active"]
    /\ tally  = [r \in Runs |-> 0]
    /\ audit  = [r \in Runs |-> [claimed |-> 0, freed |-> 0]]

----------------------------------------------------------------------------
(* The statements on the reservation table. *)

\* Mutation of Fits: the request's own charge is not added.
FitsWithoutOwnCharge(c) == Committed(clock) <= Limit

\* Mutation of Fits: the month is the one the run started in.
FitsInFirstMonth(c) == Committed(1) + MaxCost[c] <= Limit

\* INSERT ... SELECT ... WHERE SUM(committed) + maximum <= limit
Fits(c) == Committed(clock) + MaxCost[c] <= Limit

InsertReservation(c) ==
    /\ status' = [status EXCEPT ![c] = "reserved"]
    /\ month'  = [month EXCEPT ![c] = clock]
    /\ UNCHANGED actual

\* Mutation of CanReconcile: no guard on the status of the row.
CanReconcileAnyRow(c) == bill[c] <= MaxCost[c]

\* Mutation of CanReconcile: no bound on the charge.
CanReconcileAnyCharge(c) == status[c] = "reserved"

\* UPDATE ... WHERE status = 'reserved' AND actual <= maximum_cost_microusd
CanReconcile(c) == status[c] = "reserved" /\ bill[c] <= MaxCost[c]

UpdateReconciled(c) ==
    /\ status' = [status EXCEPT ![c] = "reconciled"]
    /\ actual' = [actual EXCEPT ![c] = bill[c]]
    /\ UNCHANGED month

\* UPDATE ... SET status = 'released' WHERE ... status = 'reserved'
UpdateReleased(S) ==
    /\ status' = [c \in Calls |-> IF c \in S THEN "released" ELSE status[c]]
    /\ UNCHANGED <<month, actual>>

----------------------------------------------------------------------------
(* One paid call: embed and generateObject. *)

\* An attempt whose last call is t has no call in flight.
Between(t) == t \in Calls => pc[t] \in Over

\* The attempt the run waits for may make its next call, or end.
Waiting(r) == phase[r] = "active" /\ Between(step[r])

\* A timed-out attempt goes on with its next call while its calls succeed.
LateMayCall(r) == late[r] \in {c \in Calls : pc[c] = "done"}

\* c is the next call of an attempt of its run.
Begin(c) ==
    LET r == RunOf[c] IN
    /\ pc[c] = "idle"
    /\ \/ /\ Waiting(r)
          /\ step' = [step EXCEPT ![r] = c]
          /\ UNCHANGED late
       \/ /\ LateMayCall(r)
          /\ late' = [late EXCEPT ![r] = c]
          /\ UNCHANGED step

\* authorize: the reservation is made and the request is sent.
Reserve(c) ==
    /\ Begin(c)
    /\ Fits(c)
    /\ InsertReservation(c)
    /\ pc' = [pc EXCEPT ![c] = "calling"]
    /\ UNCHANGED <<usage, bill, clock, phase, tally, audit>>

\* authorize returned null: BudgetHardStopError, nothing is sent.
Refuse(c) ==
    /\ Begin(c)
    /\ ~Fits(c)
    /\ pc' = [pc EXCEPT ![c] = "refused"]
    /\ UNCHANGED <<rowVars, usage, bill, clock, phase, tally, audit>>

\* authorize threw: #reserve is outside the try, so nothing releases a row
\* that was inserted although the answer was lost.
ReserveThrows(c) ==
    /\ "d1" \in Faults
    /\ Begin(c)
    /\ \/ Fits(c) /\ InsertReservation(c)
       \/ UNCHANGED rowVars
    /\ pc' = [pc EXCEPT ![c] = "failed"]
    /\ UNCHANGED <<usage, bill, clock, phase, tally, audit>>

\* The provider answers with its usage, after at most maxTransportRetries
\* repeated requests under the one reservation.
Answer(c) ==
    /\ pc[c] = "calling"
    /\ \E b \in 0..(MaxCost[c] + 1) :
          /\ b > MaxCost[c] => "overrun" \in Faults
          /\ bill' = [bill EXCEPT ![c] = b]
    /\ pc' = [pc EXCEPT ![c] = "answered"]
    /\ UNCHANGED <<rowVars, usage, clock, runVars>>

\* generateObject with no response.usage: neither recorded nor released.
AnswerWithoutUsage(c) ==
    /\ pc[c] = "calling"
    /\ pc' = [pc EXCEPT ![c] = "done"]
    /\ UNCHANGED <<rowVars, usage, bill, clock, runVars>>

\* The last transport attempt failed and no usage is known.
ProviderFails(c) ==
    /\ pc[c] = "calling"
    /\ pc' = [pc EXCEPT ![c] = "erring"]
    /\ UNCHANGED <<rowVars, usage, bill, clock, runVars>>

\* onUsage: the event and the run's cost are written in one batch.
RecordUsage(c) ==
    /\ pc[c] = "answered"
    /\ usage' = [usage EXCEPT ![c] = clock]
    /\ pc' = [pc EXCEPT ![c] = "recorded"]
    /\ UNCHANGED <<rowVars, bill, clock, runVars>>

\* The write throws; #recordAndReconcile keeps the error and goes on.
RecordUsageThrows(c) ==
    /\ "d1" \in Faults
    /\ pc[c] = "answered"
    /\ usage' \in {usage, [usage EXCEPT ![c] = clock]}
    /\ pc' = [pc EXCEPT ![c] = "unrecorded"]
    /\ UNCHANGED <<rowVars, bill, clock, runVars>>

\* The call succeeds only when its usage was recorded as well.
AfterReconcile(c) == IF pc[c] = "recorded" THEN "done" ELSE "failed"

Reconcile(c) ==
    /\ pc[c] \in {"recorded", "unrecorded"}
    /\ CanReconcile(c)
    /\ UpdateReconciled(c)
    /\ pc' = [pc EXCEPT ![c] = AfterReconcile(c)]
    /\ UNCHANGED <<usage, bill, clock, runVars>>

\* No row changed, or D1 failed: the error leaves the call, and since the
\* usage is known the reservation is not released.
ReconcileThrows(c) ==
    /\ pc[c] \in {"recorded", "unrecorded"}
    /\ \/ ~CanReconcile(c) /\ UNCHANGED rowVars
       \/ "d1" \in Faults /\ UNCHANGED rowVars
       \/ "d1" \in Faults /\ CanReconcile(c) /\ UpdateReconciled(c)
    /\ pc' = [pc EXCEPT ![c] = "failed"]
    /\ UNCHANGED <<usage, bill, clock, runVars>>

\* The error path of a call without usage; when the row is no longer
\* reserved the release throws, which changes only the error.
Release(c) ==
    /\ pc[c] = "erring"
    /\ \/ status[c] = "reserved" /\ UpdateReleased({c})
       \/ status[c] # "reserved" /\ UNCHANGED rowVars
       \/ "d1" \in Faults /\ UNCHANGED rowVars
    /\ pc' = [pc EXCEPT ![c] = "failed"]
    /\ UNCHANGED <<usage, bill, clock, runVars>>

----------------------------------------------------------------------------
(* The run around its calls. *)

\* The step attempt is given up after ten minutes; its code goes on.
StepTimesOut(r) ==
    /\ "timeout" \in Faults
    /\ phase[r] = "active"
    /\ step[r] \in Calls /\ ~Between(step[r])
    /\ Between(late[r])
    /\ late' = [late EXCEPT ![r] = step[r]]
    /\ step' = [step EXCEPT ![r] = NoCall]
    /\ UNCHANGED <<rowVars, usage, bill, clock, pc, phase, tally, audit>>

\* Every attempt of the run disappears with its isolate; the Workflow
\* replays run(), which starts a new attempt.
Crash(r) ==
    /\ "crash" \in Faults
    /\ phase[r] \in {"active", "cleaning", "counted"}
    /\ pc' = [c \in Calls |-> IF RunOf[c] = r /\ pc[c] \in InFlight
                              THEN "lost" ELSE pc[c]]
    /\ step' = [step EXCEPT ![r] = NoCall]
    /\ late' = [late EXCEPT ![r] = NoCall]
    /\ phase' = [phase EXCEPT ![r] = "active"]
    /\ tally' = [tally EXCEPT ![r] = 0]
    /\ UNCHANGED <<rowVars, usage, bill, clock, audit>>

\* The pipeline published (or failed without an error): no cleanup.
Succeed(r) ==
    /\ Waiting(r)
    /\ phase' = [phase EXCEPT ![r] = "succeeded"]
    /\ UNCHANGED <<rowVars, usage, bill, clock, pc, step, late, tally, audit>>

\* An error left the pipeline: the run is saved retryable, then cleaned.
Fail(r) ==
    /\ Waiting(r)
    /\ phase' = [phase EXCEPT ![r] = "cleaning"]
    /\ step' = [step EXCEPT ![r] = NoCall]
    /\ UNCHANGED <<rowVars, usage, bill, clock, pc, late, tally, audit>>

\* releaseRunModelBudget, first statement: SELECT COUNT, SUM.
CleanupSelect(r) ==
    /\ phase[r] = "cleaning"
    /\ tally' = [tally EXCEPT ![r] = CostOf(HeldBy(r), MaxCost)]
    /\ phase' = [phase EXCEPT ![r] = "counted"]
    /\ UNCHANGED <<rowVars, usage, bill, clock, pc, step, late, audit>>

\* Mutation of CleanupUpdate: one reservation is released, not the run's.
CleanupUpdateOneRow(r) ==
    /\ phase[r] = "counted"
    /\ \E S \in SUBSET HeldBy(r) : /\ Cardinality(S) <= 1
                                   /\ S = {} => HeldBy(r) = {}
                                   /\ UpdateReleased(S)
    /\ phase' = [phase EXCEPT ![r] = "cleaned"]
    /\ tally' = [tally EXCEPT ![r] = 0]
    /\ UNCHANGED <<usage, bill, clock, pc, step, late, audit>>

\* Second statement: UPDATE; its row count and the first statement's sum
\* make the audit event.
CleanupUpdate(r) ==
    /\ phase[r] = "counted"
    /\ UpdateReleased(HeldBy(r))
    /\ audit' = [audit EXCEPT ![r] =
                   [claimed |-> IF HeldBy(r) = {} THEN 0 ELSE tally[r],
                    freed   |-> CostOf(HeldBy(r), MaxCost)]]
    /\ phase' = [phase EXCEPT ![r] = "cleaned"]
    /\ tally' = [tally EXCEPT ![r] = 0]
    /\ UNCHANGED <<usage, bill, clock, pc, step, late>>

\* One of the two statements throws; the failure is audited with zeros and
\* the pipeline rethrows its own error.
CleanupThrows(r) ==
    /\ "d1" \in Faults
    /\ phase[r] \in {"cleaning", "counted"}
    /\ \/ phase[r] = "counted" /\ UpdateReleased(HeldBy(r))
       \/ UNCHANGED rowVars
    /\ phase' = [phase EXCEPT ![r] = "uncleaned"]
    /\ tally' = [tally EXCEPT ![r] = 0]
    /\ UNCHANGED <<usage, bill, clock, pc, step, late, audit>>

\* The retryable run is resumed; audit[r] shows the latest cleanup only.
Resume(r) ==
    /\ phase[r] \in {"cleaned", "uncleaned"}
    /\ phase' = [phase EXCEPT ![r] = "active"]
    /\ audit' = [audit EXCEPT ![r] = [claimed |-> 0, freed |-> 0]]
    /\ UNCHANGED <<rowVars, usage, bill, clock, pc, step, late, tally>>

NextMonth ==
    /\ clock < LastMonth
    /\ clock' = clock + 1
    /\ UNCHANGED <<rowVars, usage, bill, pc, runVars>>

----------------------------------------------------------------------------
CallStep(c) == \/ Reserve(c) \/ Refuse(c) \/ ReserveThrows(c)
               \/ Answer(c) \/ AnswerWithoutUsage(c) \/ ProviderFails(c)
               \/ RecordUsage(c) \/ RecordUsageThrows(c)
               \/ Reconcile(c) \/ ReconcileThrows(c) \/ Release(c)

RunStep(r) == \/ StepTimesOut(r) \/ Crash(r) \/ Succeed(r) \/ Fail(r)
              \/ CleanupSelect(r) \/ CleanupUpdate(r) \/ CleanupThrows(r)
              \/ Resume(r)

Next == \/ \E c \in Calls : CallStep(c)
        \/ \E r \in Runs : RunStep(r)
        \/ NextMonth

Spec == Init /\ [][Next]_vars

----------------------------------------------------------------------------
(* Properties. *)

(***************************************************************************)
(* The table with the provider, the cleanup and their failures implements  *)
(* the account: every step holds, settles or drops, or changes no row.     *)
(***************************************************************************)
ImplementsAccount == AccountSpec

(***************************************************************************)
(* reconcileModelBudget and releaseModelBudget guard on 'reserved': an     *)
(* answer that arrives after the terminal cleanup released its row cannot  *)
(* take the money back, and the cleanup cannot give back a settled charge. *)
(***************************************************************************)
SettledRowsAreFinal ==
    [][\A c \in Calls : status[c] \in {"reconciled", "released"}
          => status'[c] = status[c] /\ actual'[c] = actual[c]]_rowVars

(***************************************************************************)
(* createD1TerminalReservationCleanup: a cleaned run that no timed-out     *)
(* attempt survives holds no budget, however its calls ended.              *)
(***************************************************************************)
CleanedRunHoldsNothing ==
    \A r \in Runs : phase[r] = "cleaned" /\ late[r] = NoCall => HeldBy(r) = {}
=============================================================================
