---------------------------- MODULE MCActionStore ----------------------------
(***************************************************************************)
(* The ledger under an arbitrary client, for TLC: two rows, two keys and  *)
(* two resources: enough for two actions that conflict or do not, and for  *)
(* a key that is registered again after its first row failed or expired.   *)
(***************************************************************************)
EXTENDS ActionStore, TLC

CONSTANTS k1, k2, r1, r2

MCKeys == {k1, k2}
MCResources == {r1, r2}
MCSymmetry == Permutations(MCKeys) \cup Permutations(MCResources)
=============================================================================
