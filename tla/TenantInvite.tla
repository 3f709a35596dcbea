---------------------------- MODULE TenantInvite ----------------------------
(***************************************************************************)
(* Binding a LINE user to a tenant with an invite code: the statements of  *)
(* TenantInviteService against the rows of one company, the LIFF page that *)
(* calls it (BindPage).  Several calls for one code may be in flight: two  *)
(* people with the same link, or a retry after a lost connection.          *)
(***************************************************************************)
EXTENDS Integers, FiniteSets

CONSTANTS
    Invite, Tenant, User,
    Of,       \* the tenant an invite is for
    Page,     \* BindPage opened in a LIFF window
    Owner,    \* the LINE user who opened the page
    Links,    \* the invites whose link that user has been sent
    Short,    \* the invites whose seven days may run out (a bound)
    Call,     \* POSTs to /liff/invites/redeem
    None

ASSUME OfAssumption == Of \in [Invite -> Tenant]
ASSUME OwnerAssumption == Owner \in [Page -> User]
ASSUME LinksAssumption == Links \in [Page -> SUBSET Invite]
ASSUME NoneAssumption == None \notin User \cup Tenant \cup Call \cup Invite

VARIABLES
    invite,    \* committed tenant_invite.status
    by,        \* committed redeemed_by_line_user_id
    minting,   \* invites whose generate has read its tenant as unbound
    late,      \* invites whose expires_at has passed
    bound,     \* committed tenant.line_user_id
    call,      \* a redeem call: its next statement or its answer, code and user
    page       \* what a page shows, with the invite and the call it is about

rows == <<invite, by, minting, bound>>
vars == <<rows, late, call, page>>

Statement == {"lookup", "sweep", "cas", "bind", "commit"}

(* "spoilt" is a 200 of which COMMIT has kept nothing; "refused" stands   *)
(* for the 404, 409, 410 and 500 that BindPage takes as final.             *)
Answers == {"ok", "spoilt", "unauthorized", "refused"}

(* The client cannot tell "misled" from "done". *)
Screens == {"closed", "preview", "sending", "done", "misled"}

TypeOK ==
    /\ invite \in [Invite -> {"absent", "pending", "redeemed", "expired", "revoked"}]
    /\ by \in [Invite -> User \cup {None}]
    /\ minting \subseteq Invite /\ late \subseteq Invite
    /\ bound \in [Tenant -> User \cup {None}]
    /\ call \in [Call -> [at : Statement \cup Answers \cup {"free"},
                          code : Invite \cup {None}, user : User \cup {None}]]
    /\ page \in [Page -> [at : Screens,
                          code : Invite \cup {None}, call : Call \cup {None}]]
    /\ \A c \in Call : call[c].at # "free" => call[c].code # None /\ call[c].user # None
    /\ \A p \in Page :
          /\ (page[p].at = "sending") <=> (page[p].call # None)
          /\ (page[p].at # "closed") => (page[p].code # None)

Idle == [at |-> "free", code |-> None, user |-> None]
Blank == [at |-> "closed", code |-> None, call |-> None]

Init ==
    /\ invite = [i \in Invite |-> "absent"]
    /\ by = [i \in Invite |-> None]
    /\ minting = {} /\ late = {}
    /\ bound = [t \in Tenant |-> None]
    /\ call = [c \in Call |-> Idle]
    /\ page = [p \in Page |-> Blank]

-----------------------------------------------------------------------------
(* The staff side: TenantInviteService.generate and revoke, TenantService  *)
(* .update, each in its request transaction.                               *)

(* generate reads the tenant, refuses one that is bound, ... *)
StartGenerate(i) ==
    /\ invite[i] = "absent" /\ i \notin minting
    /\ bound[Of[i]] = None
    /\ minting' = minting \cup {i}
    /\ UNCHANGED <<invite, by, late, bound, call, page>>

(* ... and inserts the invite, whatever has become of the tenant since.    *)
Generate(i) ==
    /\ i \in minting
    /\ minting' = minting \ {i}
    /\ invite' = [invite EXCEPT ![i] = "pending"]
    /\ UNCHANGED <<by, late, bound, call, page>>

(* Row locks of the redeem transactions that have yet to commit. *)
LocksInvite(i) == \E c \in Call : call[c].at \in {"bind", "commit"} /\ call[c].code = i
LocksTenant(t) == \E c \in Call : call[c].at = "commit" /\ Of[call[c].code] = t
LocksUser(u) == \E c \in Call : call[c].at = "commit" /\ call[c].user = u

(* updateMany WHERE status = pending, for revoke and for the sweep of an   *)
(* invite that is late; it waits for a redeem that holds the row.          *)
CloseInvite(i, final) ==
    /\ ~ LocksInvite(i)
    /\ invite' = [invite EXCEPT ![i] = IF @ = "pending" THEN final ELSE @]

Revoke(i) ==
    /\ invite[i] = "pending"
    /\ CloseInvite(i, "revoked")
    /\ UNCHANGED <<by, minting, late, bound, call, page>>

BoundElsewhere(t, u) == \E other \in Tenant \ {t} : bound[other] = u

(* PATCH of a tenant: line_user_id can be set but not cleared; the unique  *)
(* index on (company_id, line_user_id) refuses an account in use.          *)
AssignUser(t, u) ==
    /\ ~ LocksTenant(t) /\ ~ LocksUser(u)
    /\ ~ BoundElsewhere(t, u)
    /\ bound' = [bound EXCEPT ![t] = u]
    /\ UNCHANGED <<invite, by, minting, late, call, page>>

Elapse(i) ==
    /\ i \in Short
    /\ invite[i] = "pending" /\ i \notin late
    /\ late' = late \cup {i}
    /\ UNCHANGED <<rows, call, page>>

-----------------------------------------------------------------------------
(* PublicTenantInviteController.redeem and TenantInviteService.redeem.     *)

CallGoes(c, to) == call' = [call EXCEPT ![c].at = to]

(* An answer nobody waits for is dropped; the identifier serves again. *)
Answer(c, answer) ==
    IF \E p \in Page : page[p].call = c
    THEN CallGoes(c, answer)
    ELSE call' = [call EXCEPT ![c] = Idle]

(* A mutant: a replay is recognised by the code alone. *)
LookUpByCode(c) ==
    LET i == call[c].code
    IN  /\ call[c].at = "lookup"
        /\ \/ invite[i] = "redeemed" /\ Answer(c, "ok")
           \/ invite[i] \notin {"pending", "redeemed"} /\ Answer(c, "refused")
           \/ invite[i] = "pending" /\ CallGoes(c, IF i \in late THEN "sweep" ELSE "cas")
        /\ UNCHANGED <<rows, late, page>>

(* LineIdTokenVerifier: LINE does not vouch for the id token, or does not  *)
(* answer in time, or with something else: all of them are a 401.          *)
VerifierRefuses(c) == Answer(c, "unauthorized")

(* With the id token verified a first transaction reads the invite: a      *)
(* replay by the same LINE user succeeds, a spent invite is refused.       *)
LookUp(c) ==
    LET i == call[c].code
        replay == invite[i] = "redeemed" /\ by[i] = call[c].user
    IN  /\ call[c].at = "lookup"
        /\ \/ VerifierRefuses(c)
           \/ replay /\ Answer(c, "ok")
           \/ ~ replay /\ invite[i] # "pending" /\ Answer(c, "refused")
           \/ invite[i] = "pending" /\ CallGoes(c, IF i \in late THEN "sweep" ELSE "cas")
        /\ UNCHANGED <<rows, late, page>>

Sweep(c) ==
    /\ call[c].at = "sweep"
    /\ CloseInvite(call[c].code, "expired")
    /\ Answer(c, "refused")
    /\ UNCHANGED <<by, minting, late, bound, page>>

(* A mutant: UPDATE ... WHERE id, without the status. *)
CasById(c) ==
    /\ call[c].at = "cas"
    /\ ~ LocksInvite(call[c].code)
    /\ CallGoes(c, "bind")
    /\ UNCHANGED <<rows, late, page>>

(* The second transaction takes the invite if it is still pending (its     *)
(* expiry is not looked at again), ...                                     *)
Cas(c) ==
    /\ call[c].at = "cas"
    /\ ~ LocksInvite(call[c].code)
    /\ IF invite[call[c].code] = "pending" THEN CallGoes(c, "bind") ELSE Answer(c, "refused")
    /\ UNCHANGED <<rows, late, page>>

(* A mutant: an account in use is waited for. *)
BindWhenFree(c) ==
    /\ call[c].at = "bind"
    /\ ~ LocksTenant(Of[call[c].code]) /\ ~ LocksUser(call[c].user)
    /\ ~ BoundElsewhere(Of[call[c].code], call[c].user)
    /\ CallGoes(c, "commit")
    /\ UNCHANGED <<rows, late, page>>

(* ... and sets the tenant's account.  If another tenant has it, the unique *)
(* violation aborts the transaction: the statements that would put the     *)
(* invite back and audit the conflict fail, the rollback puts it back, and *)
(* the answer is a 500 in place of BIND_CONFLICT.                          *)
Bind(c) ==
    /\ call[c].at = "bind"
    /\ ~ LocksTenant(Of[call[c].code]) /\ ~ LocksUser(call[c].user)
    /\ IF BoundElsewhere(Of[call[c].code], call[c].user)
       THEN Answer(c, "refused") ELSE CallGoes(c, "commit")
    /\ UNCHANGED <<rows, late, page>>

Take(c) ==
    LET i == call[c].code
    IN  /\ invite' = [invite EXCEPT ![i] = "redeemed"]
        /\ by' = [by EXCEPT ![i] = call[c].user]
        /\ bound' = [bound EXCEPT ![Of[i]] = call[c].user]
        /\ UNCHANGED minting

(* COMMIT succeeds, perhaps with its answer lost; or the audit insert,     *)
(* whose error is swallowed, had aborted the transaction, and COMMIT rolls *)
(* back without an error.                                                  *)
Commit(c) ==
    /\ call[c].at = "commit"
    /\ \/ Take(c) /\ (Answer(c, "ok") \/ Answer(c, "refused"))
       \/ Answer(c, "spoilt") /\ UNCHANGED rows
    /\ UNCHANGED <<late, page>>

(* A statement throws, the transaction times out or the process dies: the  *)
(* transaction, if one is open, is rolled back.                            *)
Fail(c) ==
    /\ call[c].at \in Statement
    /\ Answer(c, "refused")
    /\ UNCHANGED <<rows, late, page>>

-----------------------------------------------------------------------------
(* BindPage.                                                               *)

ShowPage(p, at, code, c) == page' = [page EXCEPT ![p] = [at |-> at, code |-> code, call |-> c]]

(* TenantInviteService.peek, when the link is opened, perhaps again: a     *)
(* preview of an invite that is pending; a late one is swept, and any      *)
(* failure leaves a page without a button.                                 *)
Open(p, i) ==
    LET gone == invite[i] # "pending" \/ i \in late
    IN  /\ invite[i] # "absent" /\ i \in Links[p]
        /\ page[p].at # "sending"
        /\ \/ ~ gone /\ ShowPage(p, "preview", i, None) /\ UNCHANGED invite
           \/ gone /\ CloseInvite(i, "expired") /\ page' = [page EXCEPT ![p] = Blank]
           \/ page' = [page EXCEPT ![p] = Blank] /\ UNCHANGED invite
        /\ UNCHANGED <<by, minting, late, bound, call>>

(* onConfirm: useRedeemInvite posts the code and the id token. *)
Confirm(p) ==
    LET free == {c \in Call : call[c].at = "free"}
        c == CHOOSE any \in free : TRUE
    IN  /\ page[p].at = "preview"
        /\ free # {}
        /\ call' = [call EXCEPT ![c] = [at |-> "lookup", code |-> page[p].code, user |-> Owner[p]]]
        /\ ShowPage(p, "sending", page[p].code, c)
        /\ UNCHANGED <<rows, late>>

(* canRetryRedeem: after these the try-again button brings the preview back. *)
CanRetry(answer) == answer = "unauthorized"

Screen(answer) ==
    CASE answer = "ok" -> "done"
      [] answer = "spoilt" -> "misled"
      [] CanRetry(answer) -> "preview"
      [] OTHER -> "closed"

(* The answer reaches the page. *)
Receive(p) ==
    LET answer == call[page[p].call].at
    IN  /\ page[p].at = "sending"
        /\ answer \in Answers
        /\ call' = [call EXCEPT ![page[p].call] = Idle]
        /\ IF Screen(answer) = "closed"
           THEN page' = [page EXCEPT ![p] = Blank]
           ELSE ShowPage(p, Screen(answer), page[p].code, None)
        /\ UNCHANGED <<rows, late>>

(* The connection is lost, which the button may retry: the call runs on    *)
(* with nobody to hear its answer.                                         *)
LoseConnection(p) ==
    /\ page[p].at = "sending"
    /\ ShowPage(p, "preview", page[p].code, None)
    /\ call' = [call EXCEPT ![page[p].call] = IF @.at \in Answers THEN Idle ELSE @]
    /\ UNCHANGED <<rows, late>>

-----------------------------------------------------------------------------
Serve(c) == LookUp(c) \/ Sweep(c) \/ Cas(c) \/ Bind(c) \/ Commit(c)

Next ==
    \/ \E i \in Invite : StartGenerate(i) \/ Generate(i) \/ Revoke(i) \/ Elapse(i)
    \/ \E t \in Tenant, u \in User : AssignUser(t, u)
    \/ \E c \in Call : Serve(c) \/ Fail(c)
    \/ \E p \in Page :
          \/ Confirm(p) \/ Receive(p) \/ LoseConnection(p)
          \/ \E i \in Invite : Open(p, i)

Spec == Init /\ [][Next]_vars

(* Node runs the calls; Postgres grants a lock to those that wait in turn,  *)
(* also while other calls keep taking it.                                  *)
Fairness == \A c \in Call : SF_vars(Serve(c))

FairSpec == Spec /\ Fairness

-----------------------------------------------------------------------------
(* The company's rows, seen at COMMIT, behave as invites of which each is  *)
(* redeemed in one step, by one user, while it is pending: although        *)
(* redeem reads the invite in one transaction and takes it in another.     *)
Ideal == INSTANCE IdealInvite
           WITH Invite <- Invite, Tenant <- Tenant, User <- User, Of <- Of, None <- None,
                invite <- invite, by <- by, bound <- bound
ImplementsIdeal == Ideal!Spec

(* A page says the account is bound only if its user redeemed the invite   *)
(* it shows, also when it was a replay, or a call of another window; only  *)
(* a COMMIT spoilt by the audit row can mislead it.                        *)
SuccessIsTrue ==
    \A p \in Page : page[p].at = "done" =>
        invite[page[p].code] = "redeemed" /\ by[page[p].code] = Owner[p]

(* Two people are never the tenant's account at once, nor is one person    *)
(* two tenants: what exchangeLiffIdToken looks up is unique.               *)
OneTenantPerUser ==
    \A t1, t2 \in Tenant : bound[t1] # None /\ bound[t1] = bound[t2] => t1 = t2

(* The locks of redeem are taken invite, tenant, account in every call, so *)
(* that no call waits for ever, and no page keeps saying it is sending.    *)
EveryCallEnds ==
    \A c \in Call : call[c].at \in Statement ~> call[c].at \notin Statement
=============================================================================
