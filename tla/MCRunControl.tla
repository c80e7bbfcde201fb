---------------------------- MODULE MCRunControl ----------------------------
(* RunControl with the cron trigger, two manual starts and two resumes, each *)
(* of which may come again and again.  In a calm behaviour only the creation *)
(* of the instance fails; a run is then settled, which no run survives when  *)
(* the Workers die or the database fails at the wrong moment.                *)
EXTENDS RunControl

CONSTANTS cron1, start1, start2, resume1, resume2

MCCrons    == {cron1}
MCStarters == {start1, start2}
MCResumers == {resume1, resume2}

VARIABLE calm

Calm == INSTANCE RunControl WITH Faults <- {"create", "lost"}

MCVars == <<controlVars, calm>>
MCInit == Init /\ calm \in BOOLEAN
MCNext == (IF calm THEN Calm!Next ELSE Next) /\ UNCHANGED calm
MCSpec ==
    /\ MCInit /\ [][MCNext]_MCVars
    /\ WF_MCVars(calm /\ Calm!Engine /\ UNCHANGED <<at, told, calm>>)
    /\ \A t \in Triggers :
          WF_MCVars(calm /\ at[t] # "idle" /\ Calm!Trigger(t) /\ UNCHANGED calm)

\* RunsAreSettled, unless a Worker or a D1 call fails.
CalmRunsAreSettled == calm => RunsAreSettled
=============================================================================
