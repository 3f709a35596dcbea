---------------------------- MODULE MCMaintenance ----------------------------
(* Two staff members, one of them at a page, and two tenants with a unit    *)
(* each; one ticket.  Both photos are under the prefix of nok; the user eve *)
(* is of another company.                                                   *)
EXTENDS Maintenance, TLC

CONSTANTS ann, bob, eve, nok, som, p1, p2, u1, u2

MCPrefixOf == (p1 :> nok) @@ (p2 :> nok)
MCRentedBy == (nok :> {u1}) @@ (som :> {u2})
=============================================================================
