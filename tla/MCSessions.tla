----------------------------- MODULE MCSessions -----------------------------
(* Two companies, a staff member of each, two browsers. *)
EXTENDS Sessions, TLC

CONSTANTS ca, cb, ann, bob

MCCompanyOf == (ann :> ca) @@ (bob :> cb)
MCRolesOf == (ann :> {"staff"}) @@ (bob :> {"manager"})
MCRevocable == {ann, ca}
=============================================================================
