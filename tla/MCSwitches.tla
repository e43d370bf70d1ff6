---------------------------- MODULE MCSwitches ----------------------------
(* Small instances of Switches.                                            *)
EXTENDS Switches, TLC

Symmetry == Permutations(Relays \ {Zero})
=============================================================================
