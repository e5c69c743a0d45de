--------------------------- MODULE MCCompatCheck ---------------------------
(* An instance of CompatCheck: two features, each with a route of its own.   *)
EXTENDS CompatCheck, TLC

CONSTANTS fa, fb, ra, rb

TwoRoutes == fa :> ra @@ fb :> rb
TwoNeeds == fa :> 2 @@ fb :> 1

CompatSpec == CompatInit /\ [][CompatNext]_compatVars
=============================================================================
