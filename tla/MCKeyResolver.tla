---------------------------- MODULE MCKeyResolver ----------------------------
(* Instances of KeyResolver. *)
EXTENDS KeyResolver, TLC
CallSymmetry == Permutations(Key) \cup Permutations(Lookup)
=============================================================================
