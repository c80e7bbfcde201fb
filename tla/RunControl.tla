----------------------------- MODULE RunControl -----------------------------
(***************************************************************************)
(* The triggers of the run of one date: the cron coordinator, the manual   *)
(* start and the manual resume.  Each is one Worker invocation that reads  *)
(* the run row, asks the Workflows API about the instance and acts on what *)
(* it was told, with the other triggers and the instance itself running in *)
(* between.  The life of the run is RunLife's.                             *)
(***************************************************************************)
EXTENDS RunLife

CONSTANTS Crons, Starters, Resumers     \* Worker invocations, by what they are

TriggerFaults == {"d1", "crash", "create", "lost", "operator"}

ASSUME ControlAssumption ==
    /\ Faults \subseteq TriggerFaults
    /\ Crons \cap Starters = {} /\ Crons \cap Resumers = {}
    /\ Starters \cap Resumers = {}

Triggers == Crons \cup Starters \cup Resumers

VARIABLES
    at,         \* at[t]: the next call of trigger t
    told        \* told[t]: the instance state the API told t

controlVars == <<run, inst, phase, at, told>>

\* The variables take their values in these sets, and an execution is under way
\* exactly in an instance that runs or is paused.
TypeOK ==
    /\ LifeTypeOK
    /\ at \in [Triggers -> {"idle", "get", "act", "create", "batch", "failed"}]
    /\ told \in [Triggers -> LifeInst]

Init ==
    /\ run = RowOf("missing")
    /\ inst = "absent"
    /\ phase = "off"
    /\ at = [t \in Triggers |-> "idle"]
    /\ told = [t \in Triggers |-> "absent"]

Goto(t, l) == at' = [at EXCEPT ![t] = l]
Done(t)    == Goto(t, "idle") /\ told' = [told EXCEPT ![t] = "absent"]

----------------------------------------------------------------------------
(* The triggers. *)

\* The coordinator continues a retryable run, leaves any other run alone and
\* creates an instance when there is none.
CronReads(t) ==
    /\ t \in Crons /\ at[t] = "idle"
    /\ Goto(t, IF run.status = "published" THEN "idle"
               ELSE IF run.retryable THEN "get"
               ELSE IF run.status = "missing" THEN "create" ELSE "idle")
    /\ UNCHANGED <<run, inst, phase, told>>

\* The manual start first inserts the pending row, unless the date has one.
StarterInserts(t) ==
    /\ t \in Starters /\ at[t] = "idle"
    /\ run.status = "missing"
    /\ run' = RowOf("pending")
    /\ Goto(t, "batch")
    /\ UNCHANGED <<inst, phase, told>>

\* The manual resume is for a run that may be resumed.
ResumerReads(t) ==
    /\ t \in Resumers /\ at[t] = "idle"
    /\ MayResume(run)
    /\ Goto(t, "get")
    /\ UNCHANGED <<run, inst, phase, told>>

\* continueScheduledWorkflowInstance: get() and status() ...
AsksState(t) ==
    /\ at[t] = "get"
    /\ told' = [told EXCEPT ![t] = inst]
    /\ Goto(t, "act")
    /\ UNCHANGED <<run, inst, phase>>

\* ... then, by the state it was told, create,
Continues(t) ==
    /\ at[t] = "act"
    /\ told[t] = "absent"
    /\ Goto(t, "create")
    /\ UNCHANGED <<run, inst, phase, told>>

\* ... resume, which does nothing to an instance that is not paused,
Resumes(t) ==
    /\ at[t] = "act"
    /\ told[t] = "paused"
    /\ inst' = IF inst = "paused" THEN "running" ELSE inst
    /\ Done(t)
    /\ UNCHANGED <<run, phase>>

\* ... or restart, which begins the execution again whatever it is doing now,
Restarts(t) ==
    /\ at[t] = "act"
    /\ told[t] \in {"errored", "complete"}
    /\ Enter
    /\ Done(t)

\* ... or nothing: the instance is running.
GivesUp(t) ==
    /\ at[t] = "act"
    /\ told[t] = "running"
    /\ Done(t)
    /\ UNCHANGED <<run, inst, phase>>

\* workflow.create of an id that exists throws, and the invocation ends.
Creates(t) ==
    /\ at[t] = "create"
    /\ IF inst = "absent" THEN Enter ELSE UNCHANGED lifeVars
    /\ Goto(t, "idle")
    /\ UNCHANGED told

\* workflow.createBatch skips an id that exists: the start answers 409.
CreatesBatch(t) ==
    /\ at[t] = "batch"
    /\ IF inst = "absent" THEN Enter ELSE UNCHANGED lifeVars
    /\ Goto(t, "idle")
    /\ UNCHANGED told

\* create or createBatch throws: without an effect, or with the effect made
\* and the answer lost.
CreateThrows(t) ==
    /\ at[t] \in {"create", "batch"}
    /\ \/ "create" \in Faults /\ UNCHANGED lifeVars
       \/ "lost" \in Faults /\ inst = "absent" /\ Enter
    /\ Goto(t, IF at[t] = "batch" THEN "failed" ELSE "idle")
    /\ UNCHANGED told

\* recordCreateFailure without its conditions, or not made at all.
RecordedAlways == RowOf("retryable")
NotRecorded == run

\* recordCreateFailure marks the run retryable if no execution has begun it.
Recorded == IF run.status = "pending" THEN RowOf("retryable") ELSE run

RecordsFailure(t) ==
    /\ at[t] = "failed"
    /\ run' = Recorded
    /\ Goto(t, "idle")
    /\ UNCHANGED <<inst, phase, told>>

\* A Worker invocation may die at any of its calls.
TriggerDies(t) ==
    /\ "crash" \in Faults
    /\ at[t] # "idle"
    /\ Done(t)
    /\ UNCHANGED <<run, inst, phase>>

\* An operator pauses a running instance and resumes it.
Operator ==
    /\ "operator" \in Faults
    /\ \/ inst = "running" /\ inst' = "paused"
       \/ inst = "paused" /\ inst' = "running"
    /\ UNCHANGED <<run, phase, at, told>>

Trigger(t) ==
    \/ CronReads(t) \/ StarterInserts(t) \/ ResumerReads(t)
    \/ AsksState(t) \/ Continues(t) \/ Resumes(t) \/ Restarts(t) \/ GivesUp(t)
    \/ Creates(t) \/ CreatesBatch(t) \/ CreateThrows(t) \/ RecordsFailure(t)
    \/ TriggerDies(t)

Instance == (Engine \/ Breaks) /\ UNCHANGED <<at, told>>

Next == (\E t \in Triggers : Trigger(t)) \/ Instance \/ Operator

Spec == Init /\ [][Next]_controlVars

\* The engine executes an instance it has started, and an invocation that has
\* read the run goes on to its end; nobody has to trigger anything.
FairSpec ==
    /\ Spec
    /\ WF_controlVars(Engine /\ UNCHANGED <<at, told>>)
    /\ \A t \in Triggers : WF_controlVars(at[t] # "idle" /\ Trigger(t))

----------------------------------------------------------------------------
(* Properties. *)

\* No trigger, however stale what it was told, undoes a run: not the restart of
\* an instance that has published meanwhile, not a create failure recorded while
\* the instance it did create is at work, has settled its run or published it.
\* The execution at work alone changes its row, and takes even a published one
\* back while it has not been told that it was saved.
TriggersUndoNothing ==
    [][run.status = "published" \/ (phase' = phase /\ phase \in {"begun", "settled"})
          => run' = run \/ (phase = "begun" /\ UNCHANGED <<at, told>>)]_controlVars

\* Every run that was started is settled.
RunsAreSettled ==
    run.status \in {"pending", "running"} ~> run.status \notin {"pending", "running"}
=============================================================================
