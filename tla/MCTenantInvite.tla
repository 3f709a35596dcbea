--------------------------- MODULE MCTenantInvite ---------------------------
(***************************************************************************)
(* Small instances of TenantInvite: two LINE users with a page each, two   *)
(* tenants with an invite each.                                            *)
(***************************************************************************)
EXTENDS TenantInvite, TLC

CONSTANTS i1, i2, t1, t2, u1, u2, p1, p2, c1, c2

OneEach == i1 :> t1 @@ i2 :> t2

OwnPage == p1 :> u1 @@ p2 :> u2

Forwarded == p1 :> {i1, i2} @@ p2 :> {i1}
=============================================================================
