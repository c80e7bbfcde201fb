------------------------------ MODULE RunLife ------------------------------
(***************************************************************************)
(* What the triggers, the readers and the run page may rely on about the   *)
(* run of one date: the status of its row and the state of its Workflow    *)
(* instance, id the date.  PipelineRun implements this life of a run;      *)
(* RunControl lets the triggers loose on it.                               *)
(***************************************************************************)
CONSTANT Faults     \* the faults considered: "d1", "crash", "create", ...

VARIABLES
    run,        \* status and retryable of the workflow_runs row
    inst,       \* the instance: "absent" until it is created
    phase       \* how far the instance's execution of run() has come

lifeVars == <<run, inst, phase>>

Outcomes  == {"published", "partial", "failed"}
LifeRow   == [status : {"missing", "pending", "running", "retryable"} \cup Outcomes,
              retryable : BOOLEAN]
LifeInst  == {"absent", "running", "paused", "errored", "complete"}
LifePhase == {"off", "entered", "begun", "settled"}

LifeTypeOK ==
    /\ run \in LifeRow /\ inst \in LifeInst /\ phase \in LifePhase
    /\ phase = "off" <=> inst \notin {"running", "paused"}

RowOf(status) == [status |-> status, retryable |-> status \in {"retryable", "partial", "failed"}]
Ended == inst \in {"errored", "complete"}
MayResume(r) == r.retryable /\ r.status \in {"retryable", "partial", "failed"}

LifeInit ==
    /\ run \in {RowOf("missing"), RowOf("pending")}
    /\ inst = "absent"
    /\ phase = "off"

\* A trigger has the instance created, or an ended instance restarted.
Enter == /\ inst' = "running"
         /\ phase' = "entered"
         /\ UNCHANGED run

\* The row is created when no launcher has created it.
EnsureRow == /\ inst = "running" /\ phase = "entered"
             /\ run.status = "missing"
             /\ run' = RowOf("pending")
             /\ UNCHANGED <<inst, phase>>

\* Work on the run begins, except on a published run.
BeginRun == /\ inst = "running" /\ phase = "entered"
            /\ run.status \notin {"missing", "published"}
            /\ run' = RowOf("running")
            /\ phase' = "begun"
            /\ UNCHANGED inst

\* The row takes the outcome ...
Outcome == run.status = "running" /\ \E status \in Outcomes : run' = RowOf(status)

\* ... or the error a trigger may resume, over whatever it says.
Settle == /\ inst = "running" /\ phase = "begun"
          /\ Outcome \/ run' = RowOf("retryable")
          /\ phase' = "settled"
          /\ UNCHANGED inst

\* The instance ends: complete after an outcome or on finding the run
\* published, errored after an error.
Leave ==
    /\ inst = "running"
    /\ \/ /\ phase = "settled" \/ (phase = "entered" /\ run.status = "published")
          /\ run.status \in Outcomes
          /\ inst' = "complete"
       \/ phase = "settled" /\ run.status = "retryable" /\ inst' = "errored"
    /\ phase' = "off"
    /\ UNCHANGED run

\* A D1 error ends the instance at any phase; what the failed call was to write
\* may be written all the same.
Fail ==
    /\ "d1" \in Faults
    /\ inst = "running" /\ inst' = "errored"
    /\ phase' = "off"
    /\ \/ UNCHANGED run
       \/ phase = "entered" /\ run.status = "missing" /\ run' = RowOf("pending")
       \/ /\ phase = "entered" /\ run.status \notin {"missing", "published"}
          /\ run' = RowOf("running")
       \/ phase = "begun" /\ run' = RowOf("retryable")

\* The outcome is written and the answer lost: the execution takes it for an
\* error and is still to record one.
LoseOutcome == /\ "d1" \in Faults
               /\ inst = "running" /\ phase = "begun"
               /\ Outcome
               /\ UNCHANGED <<inst, phase>>

\* The isolate is evicted and the execution replayed.
Replay == /\ "crash" \in Faults
          /\ inst = "running"
          /\ phase' = "entered"
          /\ UNCHANGED <<run, inst>>

Engine == EnsureRow \/ BeginRun \/ Settle \/ Leave
Breaks == Fail \/ LoseOutcome \/ Replay
LifeNext == \/ inst = "absent" /\ Enter
            \/ Ended /\ MayResume(run) /\ Enter
            \/ Engine \/ Breaks

LifeSpec == LifeInit /\ [][LifeNext]_lifeVars
=============================================================================
