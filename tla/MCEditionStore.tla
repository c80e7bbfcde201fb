---------------------------- MODULE MCEditionStore ---------------------------
EXTENDS EditionStore, TLC

ItemSymmetry == Permutations(Items)

=============================================================================
