------------------------------- MODULE MCReader -------------------------------
(* What a reader sees of the store on the web: the preferences with their    *)
(* feedback, in the scenes of MCPreferences, or the archive.  The variables  *)
(* of the other rest; what is saved only matters to the list of it, and a     *)
(* topic to the archive.                                                     *)
EXTENDS MCPreferences, MCArchivePages

NoPages ==
    /\ reader = "none" /\ today = 0 /\ edition = <<>> /\ topic = <<>> /\ saved = {} /\ losses = 0
    /\ page = Blank /\ active = "none" /\ request = <<>>
    /\ seen = {} /\ due = {} /\ since = 0 /\ late = FALSE

ReaderInit == MCInit /\ (NoPages \/ (~alone /\ PagesInit))
ReaderNext ==
    \/ reader = "none" /\ MCNext /\ UNCHANGED pagesVars
    \/ /\ reader # "none" /\ PagesNext /\ UNCHANGED MCVars
       /\ reader # "saved" => UNCHANGED saved
       /\ reader # "archive" => UNCHANGED topic
ReaderSpec == ReaderInit /\ [][ReaderNext]_<<MCVars, pagesVars>>
=============================================================================
