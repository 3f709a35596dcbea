------------------------------ MODULE MCMetering ------------------------------
(* A unit with a water meter, where an electric one may be installed, and   *)
(* a unit without meters; a contract for each.                             *)
EXTENDS Metering, TLC

CONSTANTS water, electric, k1, k2, ann, other

MCUnitOf == [x \in {water, electric, k1} |-> 1] @@ [x \in {k2} |-> 2]
===============================================================================
