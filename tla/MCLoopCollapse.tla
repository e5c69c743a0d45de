--------------------------- MODULE MCLoopCollapse ---------------------------
(* Instances of LoopCollapse: one looping identity (and a second one where   *)
(* tenants or slots matter), batches that overlap in nothing.                *)
EXTENDS LoopCollapse, TLC

CONSTANTS r1, r2, r3, b1, b2, x, y, z, w, i1, i2, t1, t2

OneLoopContent == b1 :> <<x>> @@ b2 :> <<y, z>>
(* A batch of the loop with an occurrence of another identity behind it.     *)
MixedContent == b1 :> <<x, w>> @@ b2 :> <<y, z>>
MixedIdent == [o \in Occ |-> IF o = w THEN i2 ELSE i1]
OneLoopIdent == [o \in Occ |-> i1]
TwoLoopIdent == [o \in Occ |-> IF o = z THEN i2 ELSE i1]
OneTenant == [i \in Ident |-> t1]
TwoTenants == [i \in Ident |-> IF i = i1 THEN t1 ELSE t2]
Times == [o \in Occ |-> CASE o = x -> 2 [] o = y -> 1 [] OTHER -> 1]
RequestSymmetry == Permutations(Request)
=============================================================================
