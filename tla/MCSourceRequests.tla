-------------------------- MODULE MCSourceRequests --------------------------
(* SourceRequests with three callers.                                       *)
EXTENDS SourceRequests

CONSTANTS a, b, c

MCRequests == {a, b, c}
=============================================================================
