----------------------------- MODULE MCEntities -----------------------------
(* Small instances of Entities.                                            *)
EXTENDS Entities, TLC

Symmetry == Permutations(Lights) \cup Permutations(Support) \cup Permutations(Rooms)
=============================================================================
