----------------------------- MODULE MCEditorial -----------------------------
(* The editorial decisions one after the other: the items are made one, and  *)
(* the distinct ones are selected from.  Each is checked by scenes of its    *)
(* own; the variables of the other rest.                                     *)
EXTENDS MCEditionSelection, MCItemGroups

NoGroups == grouping = "none" /\ collected = <<>> /\ grouped = "none"
NoSelection ==
    /\ scene = "none" /\ research = {} /\ news = {} /\ policy = "normal"
    /\ configured = LocalChoice(MCMaxima) /\ SelectionInit

EditorialInit == (MCGroupsInit /\ NoSelection) \/ (MCInit /\ NoGroups)
EditorialNext ==
    \/ GroupsNext /\ UNCHANGED MCVars
    \/ scene # "none" /\ MCNext /\ UNCHANGED groupsVars
EditorialSpec == EditorialInit /\ [][EditorialNext]_<<MCVars, groupsVars>>
=============================================================================
