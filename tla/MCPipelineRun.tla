--------------------------- MODULE MCPipelineRun ---------------------------
(* PipelineRun with five stages: collect, normalize, validate, compose and   *)
(* publish; the stages between normalize and validate behave as validate.    *)
(* Two scenes: prompt runs, with failing D1 calls and crashes, and slow      *)
(* ones, with crashes and attempts that outlive their timeout, on smaller    *)
(* bounds.                                                                   *)
EXTENDS PipelineRun, TLC

Slow == INSTANCE PipelineRun WITH
    MaxVersions <- 1, MaxRetries <- 1, MaxFaults <- 2, Faults <- {"crash", "timeout"}

SceneNext == IF prompt THEN Next ELSE Slow!Next
SceneSpec ==
    /\ Init /\ [][SceneNext]_vars
    /\ WF_vars(prompt /\ Engine)
    /\ WF_vars(~prompt /\ Slow!Engine)
=============================================================================
