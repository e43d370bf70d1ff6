--------------------------- MODULE MCChangeSource ---------------------------
(* Small instances of ChangeSource.                                        *)
EXTENDS ChangeSource, TLC

Symmetry == Permutations(Rooms) \cup Permutations(Settings) \cup Permutations(Temps)
=============================================================================
