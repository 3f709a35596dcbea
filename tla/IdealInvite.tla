---------------------------- MODULE IdealInvite ----------------------------
(***************************************************************************)
(* What invites promise staff and tenants: an invite lets one LINE user,   *)
(* once, become the account of one tenant, and no LINE user is the account *)
(* of two tenants of a company.                                            *)
(***************************************************************************)
CONSTANTS
    Invite, Tenant, User,
    Of,    \* the tenant an invite is for
    None

VARIABLES
    invite, \* status of an invite
    by,     \* who redeemed it
    bound   \* the LINE user of a tenant

vars == <<invite, by, bound>>

Init ==
    /\ invite = [i \in Invite |-> "absent"]
    /\ by = [i \in Invite |-> None]
    /\ bound = [t \in Tenant |-> None]

FreeFor(t, u) == \A other \in Tenant \ {t} : bound[other] # u

Generate(i) ==
    /\ invite[i] = "absent"
    /\ invite' = [invite EXCEPT ![i] = "pending"]
    /\ UNCHANGED <<by, bound>>

(* Revoked by staff, or found to be past its time. *)
Close(i) ==
    /\ invite[i] = "pending"
    /\ \E final \in {"revoked", "expired"} : invite' = [invite EXCEPT ![i] = final]
    /\ UNCHANGED <<by, bound>>

Redeem(i, u) ==
    /\ invite[i] = "pending"
    /\ FreeFor(Of[i], u)
    /\ invite' = [invite EXCEPT ![i] = "redeemed"]
    /\ by' = [by EXCEPT ![i] = u]
    /\ bound' = [bound EXCEPT ![Of[i]] = u]

(* Staff enter the account of a tenant by hand. *)
Assign(t, u) ==
    /\ FreeFor(t, u)
    /\ bound' = [bound EXCEPT ![t] = u]
    /\ UNCHANGED <<invite, by>>

Next ==
    \/ \E i \in Invite : Generate(i) \/ Close(i) \/ \E u \in User : Redeem(i, u)
    \/ \E t \in Tenant, u \in User : Assign(t, u)

Spec == Init /\ [][Next]_vars
=============================================================================
