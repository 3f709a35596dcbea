----------------------------- MODULE MCOccupancy -----------------------------
(* Two staff members of one company, which has a property, a unit, a tenant *)
(* and a contract that was broken off; another company has the property pb.  One more   *)
(* row of every kind can be made.                                          *)
EXTENDS Occupancy, TLC

CONSTANTS ca, cb, pa, pb, pn, ua, un, ta, tn, k1, k2, ann, bob, a1, a2

MCKindOf ==
    [id \in {pa, pb, pn} |-> "property"] @@ [id \in {ua, un} |-> "unit"]
    @@ [id \in {ta, tn} |-> "tenant"] @@ [id \in {k1, k2} |-> "contract"]

MCCompanyOf == (ann :> ca) @@ (bob :> ca)

MCRow(company, refs, key, status) ==
    [company |-> company, refs |-> refs, key |-> key, start |-> None, end |-> None, status |-> status]

MCRows0 ==
    (pa :> MCRow(ca, {}, a1, "active")) @@ (pb :> MCRow(cb, {}, a1, "active"))
    @@ (ua :> MCRow(ca, {pa}, a1, "vacant")) @@ (ta :> MCRow(ca, {}, None, "active"))
    @@ (k1 :> [MCRow(ca, {ua, ta}, None, "terminated") EXCEPT !.start = 1, !.end = 2])
    @@ [id \in {pn, un, tn, k2} |-> None]

MCStatusOf ==
    ("property" :> {}) @@ ("unit" :> {}) @@ ("tenant" :> {"moved_out"})
    @@ ("contract" :> {"active", "terminated"})

MCMaxOf == ("property" :> 1) @@ ("unit" :> 2) @@ ("tenant" :> 1) @@ ("contract" :> 2)
=============================================================================
