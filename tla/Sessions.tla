------------------------------ MODULE Sessions ------------------------------
(***************************************************************************)
(* Staff sessions of the admin web: login, refresh and logout (AuthService, *)
(* the server actions and the cookies), the middleware and the layout of   *)
(* /c/[companySlug], and what every API request passes: JwtGuard,          *)
(* RbacGuard, PathCompanyGuard, then a transaction of withTenant, whose     *)
(* settings the row-level security policies read.                          *)
(*                                                                         *)
(* Tokens are signed and kept by the browser: the server holds no session. *)
(* A token is therefore its claims.  One pooled connection serves all      *)
(* transactions, so a setting that outlived its transaction would be seen  *)
(* by the next one.                                                        *)
(***************************************************************************)
CONSTANTS
    Company,      \* a company is named by its slug and by its id alike
    User,         \* staff accounts
    CompanyOf,    \* [User -> Company]
    RolesOf,      \* [User -> SUBSET Role]: the roles assigned at first
    Browser,
    Revocable,    \* accounts and companies that an operator may switch off
    None

Role == {"owner", "manager", "staff", "tenant", "guardian"}

ASSUME SessionsAssumption ==
    /\ CompanyOf \in [User -> Company] /\ RolesOf \in [User -> SUBSET Role]
    /\ None \notin User \cup Company \cup Browser

-----------------------------------------------------------------------------
(* The permission matrix (packages/shared/src/rbac).                       *)

Crud == {"create", "read", "update", "delete"}

OwnerMay ==
    ({"announcement", "contract", "invoice", "maintenance_ticket", "meter", "meter_reading",
      "property", "staff_user", "tenant_user", "unit"} \X Crud)
    \cup ({"payment", "slip"} \X {"approve", "create", "read", "update"})
    \cup ({"invoice", "maintenance_ticket"} \X {"approve"})
    \cup ({"company"} \X {"read", "update"})
    \cup {<<"announcement", "broadcast">>, <<"audit_log", "read">>, <<"dashboard", "read">>}

ManagerMay == {p \in OwnerMay : p[2] # "delete" /\ p[1] # "staff_user" /\ p # <<"company", "update">>}

StaffMay ==
    ({"announcement", "contract", "dashboard", "invoice", "maintenance_ticket", "meter",
      "meter_reading", "payment", "property", "slip", "tenant_user", "unit"} \X {"read"})
    \cup ({"maintenance_ticket", "meter_reading", "tenant_user"} \X {"create", "update"})
    \cup ({"payment", "slip"} \X {"create"})

TenantMay ==
    ({"announcement", "contract", "invoice", "maintenance_ticket", "payment", "slip", "unit"} \X {"read"})
    \cup {<<"maintenance_ticket", "create">>, <<"slip", "create">>}

GuardianMay == {"announcement", "contract", "invoice", "payment"} \X {"read"}

Grants(role) ==
    CASE role = "owner" -> OwnerMay [] role = "manager" -> ManagerMay [] role = "staff" -> StaffMay
      [] role = "tenant" -> TenantMay [] role = "guardian" -> GuardianMay

can(roles, permission) == \E role \in roles : permission \in Grants(role)

(* What the shell and the <Can> gates offer: the permission that shows it, *)
(* and the @Perm of the requests it leads to.                              *)
Gate(shown, needed) == [shown |-> shown, needed |-> needed]

Offers ==
    [ audit_log     |-> Gate(<<"audit_log", "read">>, {<<"audit_log", "read">>}),
      announcements |-> Gate(<<"announcement", "read">>, {<<"announcement", "read">>}),
      announce      |-> Gate(<<"announcement", "read">>, {<<"announcement", "broadcast">>}),
      maintenance   |-> Gate(<<"maintenance_ticket", "read">>, {<<"maintenance_ticket", "read">>}),
      settings      |-> Gate(<<"company", "update">>, {<<"company", "read">>, <<"company", "update">>}),
      generate      |-> Gate(<<"invoice", "create">>, {<<"invoice", "create">>}),
      issue         |-> Gate(<<"invoice", "approve">>, {<<"invoice", "approve">>}),
      void          |-> Gate(<<"invoice", "update">>, {<<"invoice", "update">>}),
      decide        |-> Gate(<<"payment", "approve">>, {<<"payment", "approve">>}),
      slip          |-> Gate(<<"slip", "read">>, {<<"slip", "read">>}),
      add_unit      |-> Gate(<<"unit", "create">>, {<<"unit", "create">>}),
      add_property  |-> Gate(<<"property", "create">>, {<<"property", "create">>}),
      add_tenant    |-> Gate(<<"tenant_user", "create">>, {<<"tenant_user", "create">>}),
      tenant_status |-> Gate(<<"tenant_user", "update">>, {<<"tenant_user", "update">>}),
      add_contract  |-> Gate(<<"contract", "create">>, {<<"contract", "create">>}),
      contract      |-> Gate(<<"contract", "update">>, {<<"contract", "update">>}) ]

(* RbacGuard, for every request behind an offer. *)
Permitted(roles, offer) == \A permission \in Offers[offer].needed : can(roles, permission)

(* filterByPermissions of the shell, <Can> of the pages. *)
Offered(roles) == {o \in DOMAIN Offers : can(roles, Offers[o].shown)}

-----------------------------------------------------------------------------
VARIABLES
    active,     \* the accounts and companies that are in status "active"
    jar,        \* [Browser -> the two cookies: a token is [user, roles]]
    conn,       \* the pooled connection: its transaction and its settings
    work        \* [Browser -> its login, refresh or request in progress]

vars == <<active, jar, conn, work>>

Token == [user : User, roles : SUBSET Role]

Idle == [at |-> "idle", user |-> None, slug |-> None, roles |-> {}, rows |-> {}]

NoSettings == [by |-> None, company |-> None, bypass |-> FALSE]

InTransaction == {"lookup", "login", "refresh", "handle"}

TypeOK ==
    /\ active \subseteq User \cup Company
    /\ jar \in [Browser -> [access : Token \cup {None}, refresh : Token \cup {None}]]
    /\ work \in [Browser -> [at : InTransaction \cup {"idle", "issue", "guard", "done", "forbidden", "offered"},
                             user : User \cup {None}, slug : Company \cup {None},
                             roles : SUBSET Role, rows : SUBSET Company]]
    /\ conn \in [by : Browser \cup {None}, company : Company \cup {None}, bypass : BOOLEAN]
    /\ conn.by # None => work[conn.by].at \in InTransaction

Init ==
    /\ active = User \cup Company
    /\ jar = [b \in Browser |-> [access |-> None, refresh |-> None]]
    /\ conn = NoSettings
    /\ work = [b \in Browser |-> Idle]

-----------------------------------------------------------------------------
(* withTenant: BEGIN, then set_config(.., is_local = TRUE) of the company   *)
(* or of the bypass; the connection is the transaction's until it ends.    *)

Begin(b) ==
    /\ conn.by = None /\ work[b].at \in InTransaction
    /\ conn' = IF work[b].at = "lookup"
               THEN [conn EXCEPT !.by = b, !.bypass = TRUE]
               ELSE [conn EXCEPT !.by = b, !.company =
                        IF work[b].at = "login" THEN work[b].slug ELSE CompanyOf[work[b].user]]
    /\ UNCHANGED <<active, jar, work>>

(* A mutant: the settings belong to the session. *)
CommitSession(b) == conn.by = b /\ conn' = [conn EXCEPT !.by = None]

(* COMMIT or ROLLBACK ends the local settings and gives the connection back. *)
Commit(b) == conn.by = b /\ conn' = NoSettings

(* The policy tenant_isolation, the same for every table: a row is there    *)
(* for its own company's transactions and for those that bypass it.        *)
Visible(c) == conn.bypass \/ c = conn.company

Goes(b, to) == work' = [work EXCEPT ![b].at = to]

Ends(b) == work' = [work EXCEPT ![b] = Idle]

(* A staff member is active and still has a role. *)
Entitled(u) == u \in active /\ RolesOf[u] # {}

-----------------------------------------------------------------------------
(* POST /auth/login, /auth/refresh; loginAction, logoutAction.             *)

Login(b, u, slug) ==
    /\ work[b] = Idle
    /\ work' = [work EXCEPT ![b] = [Idle EXCEPT !.at = "lookup", !.user = u, !.slug = slug]]
    /\ UNCHANGED <<active, jar, conn>>

(* A mutant: a company is a company, whatever its status. *)
LookUpCompanyAny(b) ==
    /\ work[b].at = "lookup" /\ Commit(b)
    /\ IF Visible(work[b].slug) THEN Goes(b, "login") ELSE Ends(b)
    /\ UNCHANGED <<active, jar>>

(* lookupCompanyBySlug, the one query that bypasses the policies. *)
LookUpCompany(b) ==
    /\ work[b].at = "lookup" /\ Commit(b)
    /\ IF Visible(work[b].slug) /\ work[b].slug \in active THEN Goes(b, "login") ELSE Ends(b)
    /\ UNCHANGED <<active, jar>>

(* The user of (company, email), then the password: both must be right. *)
ReadUser(b) ==
    LET u == work[b].user
    IN  /\ work[b].at = "login" /\ Commit(b)
        /\ \/ Ends(b)
           \/ /\ CompanyOf[u] = work[b].slug /\ Visible(CompanyOf[u]) /\ Entitled(u)
              /\ work' = [work EXCEPT ![b].at = "issue", ![b].roles = RolesOf[u]]
        /\ UNCHANGED <<active, jar>>

(* Any client of the API; the pages of the admin web let a visitor log in  *)
(* again instead.                                                          *)
Refresh(b) ==
    /\ work[b] = Idle /\ jar[b].refresh # None
    /\ work' = [work EXCEPT ![b] = [Idle EXCEPT !.at = "refresh", !.user = jar[b].refresh.user]]
    /\ UNCHANGED <<active, jar, conn>>

(* A mutant: the claims of the refresh token are trusted. *)
ReadAgainTrusting(b) ==
    /\ work[b].at = "refresh" /\ Commit(b)
    /\ work' = [work EXCEPT ![b].at = "issue", ![b].roles = RolesOf[work[b].user]]
    /\ UNCHANGED <<active, jar>>

(* The account is read again, under the company of the claims; the status  *)
(* of the company is not looked at.                                        *)
ReadAgain(b) ==
    LET u == work[b].user
    IN  /\ work[b].at = "refresh" /\ Commit(b)
        /\ IF Visible(CompanyOf[u]) /\ Entitled(u)
           THEN work' = [work EXCEPT ![b].at = "issue", ![b].roles = RolesOf[u]]
           ELSE Ends(b)
        /\ UNCHANGED <<active, jar>>

setAuthCookies(b, token) == jar' = [jar EXCEPT ![b] = [access |-> token, refresh |-> token]]

clearAuthCookies(b) == setAuthCookies(b, None)

(* issueTokens, lastLoginAt, then the cookies, unless the answer is lost or *)
(* comes after the ten seconds the action waits.                           *)
Issue(b) ==
    /\ work[b].at = "issue"
    /\ \/ setAuthCookies(b, [user |-> work[b].user, roles |-> work[b].roles])
       \/ UNCHANGED jar
    /\ Ends(b)
    /\ UNCHANGED <<active, conn>>

Logout(b) ==
    /\ work[b] = Idle /\ jar[b].refresh # None
    /\ clearAuthCookies(b)
    /\ UNCHANGED <<active, conn, work>>

(* A cookie expires with its token. *)
ExpireAccess(b) ==
    /\ jar[b].access # None
    /\ jar' = [jar EXCEPT ![b].access = None]
    /\ UNCHANGED <<active, conn, work>>

ExpireRefresh(b) ==
    /\ jar[b].refresh # None
    /\ jar' = [jar EXCEPT ![b].refresh = None]
    /\ UNCHANGED <<active, conn, work>>

(* No route does it: an operator edits the status in the database. *)
SwitchOff(x) ==
    /\ x \in active \cap Revocable
    /\ active' = active \ {x}
    /\ UNCHANGED <<jar, conn, work>>

-----------------------------------------------------------------------------
(* Pages and requests.                                                     *)

Request(b, slug, at) ==
    work' = [work EXCEPT ![b] = [Idle EXCEPT !.at = at, !.user = jar[b].access.user,
                                             !.slug = slug, !.roles = jar[b].access.roles]]

(* The middleware and the layout send a browser with no token to /login,   *)
(* and one that asks for another company's pages to its own; what is then  *)
(* clicked was offered to its roles.                                       *)
Visit(b) ==
    /\ work[b] = Idle /\ jar[b].access # None
    /\ Request(b, CompanyOf[jar[b].access.user], "offered")
    /\ UNCHANGED <<active, jar, conn>>

(* The same bearer sent to the API with any address. *)
Call(b, slug) ==
    /\ work[b] = Idle /\ jar[b].access # None
    /\ Request(b, slug, "guard")
    /\ UNCHANGED <<active, jar, conn>>

(* PathCompanyGuard: the address names the company of the claims. *)
OwnPath(b) == work[b].slug = CompanyOf[work[b].user]

(* JwtGuard, RbacGuard, PathCompanyGuard, in this order. *)
Guard(b) ==
    /\ UNCHANGED <<active, jar, conn>>
    /\ \/ work[b].at \in {"offered", "guard"} /\ jar[b].access = None /\ Ends(b)
       \/ /\ work[b].at = "offered"
          /\ \E offer \in Offered(work[b].roles) :
                Goes(b, IF Permitted(work[b].roles, offer) THEN "handle" ELSE "forbidden")
       \/ /\ work[b].at = "guard"
          /\ \E offer \in DOMAIN Offers :
                IF Permitted(work[b].roles, offer) /\ OwnPath(b)
                THEN Goes(b, "handle") ELSE Ends(b)

(* The handler, whose queries name rows by id or list all: it is served    *)
(* whatever the policies let it see.                                       *)
Handle(b) ==
    /\ work[b].at = "handle" /\ Commit(b)
    /\ work' = [work EXCEPT ![b].at = "done", ![b].rows = {c \in Company : Visible(c)}]
    /\ UNCHANGED <<active, jar>>

Read(b) ==
    /\ work[b].at \in {"done", "forbidden"}
    /\ Ends(b)
    /\ UNCHANGED <<active, jar, conn>>

Server(b) == Begin(b) \/ LookUpCompany(b) \/ ReadUser(b) \/ ReadAgain(b) \/ Issue(b) \/ Guard(b) \/ Handle(b)

Next ==
    \/ \E b \in Browser :
          \/ Server(b) \/ Refresh(b) \/ Logout(b) \/ ExpireAccess(b) \/ ExpireRefresh(b)
          \/ Visit(b) \/ Read(b)
          \/ \E slug \in Company : Call(b, slug) \/ \E u \in User : Login(b, u, slug)
    \/ \E x \in Revocable : SwitchOff(x)

Spec == Init /\ [][Next]_vars

(* Time passes, and a server that has work does it: no transaction waits   *)
(* for the connection for ever.                                            *)
Fairness ==
    \A b \in Browser :
        /\ WF_vars(ExpireAccess(b)) /\ WF_vars(ExpireRefresh(b)) /\ WF_vars(Read(b))
        /\ SF_vars(Begin(b)) /\ WF_vars(Server(b))

FairSpec == Spec /\ Fairness

-----------------------------------------------------------------------------
(* No request is served a row of another company, whatever transaction the *)
(* connection served before it (set_config with is_local, rls-policies).   *)
RowsAreOwn == \A b \in Browser : work[b].rows \subseteq {CompanyOf[u] : u \in {work[b].user} \ {None}}

(* Who has, or is about to be given, a token of the account or company x:  *)
(* its status is behind them.                                              *)
Inside(x) ==
    {b \in Browser :
        \/ \E t \in {jar[b].access, jar[b].refresh} \ {None} : x \in {t.user, CompanyOf[t.user]}
        \/ work[b].at = "issue" /\ x \in {work[b].user, CompanyOf[work[b].user]}
        \/ work[b].at = "refresh" /\ x = CompanyOf[work[b].user]
        \/ work[b].at = "login" /\ x = work[b].slug}

(* An account or a company that was switched off lets nobody in any more:  *)
(* refresh never looks at the company and a login looks at it a            *)
(* transaction before it looks at the account, yet whoever gets a token    *)
(* afterwards had one, or had passed that look, when it was switched off.  *)
ClosedDoor ==
    [][\A x \in (User \cup Company) \ active : Inside(x)' \subseteq Inside(x)]_vars

(* A staff member who was switched off ends up without a session: refresh  *)
(* reads the account again, and every token expires.                       *)
HoldsNothing(u) ==
    \A b \in Browser : \A t \in {jar[b].access, jar[b].refresh} : t = None \/ t.user # u

SwitchedOffLosesAccess == \A u \in User : u \notin active ~> HoldsNothing(u)

(* Promised (lib/rbac.tsx, "render this UI only if the user can X") and    *)
(* not kept: what a page offers, the API does not refuse.  The form of a   *)
(* new announcement is shown to whoever may read the list of them; POST    *)
(* /announcements needs "broadcast", which staff do not have.              *)
OffersAreAllowed == \A b \in Browser : work[b].at # "forbidden"
=============================================================================
