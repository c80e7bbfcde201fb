--------------------------- MODULE MCArchivePages ---------------------------
(* Two items of two topics in each of up to three editions, read an entry at a time. *)
EXTENDS ArchivePages

MCTopic == <<"t1", "t2">>
MCCompositions == {<<1, 2>>}
=============================================================================
