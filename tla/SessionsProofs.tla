--------------------------- MODULE SessionsProofs ---------------------------
(***************************************************************************)
(* Tenant isolation for any number of companies, accounts and browsers,    *)
(* on one pooled connection.                                               *)
(***************************************************************************)
EXTENDS Sessions, TLAPS

Cookies == [access : Token \cup {None}, refresh : Token \cup {None}]

At == InTransaction \cup {"idle", "issue", "guard", "done", "forbidden", "offered"}

Work == [at : At, user : User \cup {None}, slug : Company \cup {None},
         roles : SUBSET Role, rows : SUBSET Company]

(* Who works has a user. A connection without a transaction has no         *)
(* settings, and that of a handler has those of its user's company.        *)
SettingsInv ==
    /\ \A b \in Browser : work[b].at # "idle" => work[b].user # None
    /\ \A b \in Browser : work[b].at \in {"lookup", "login"} => work[b].slug # None
    /\ conn.by = None => conn = NoSettings
    /\ conn.by # None /\ work[conn.by].at = "handle" =>
          ~ conn.bypass /\ conn.company = CompanyOf[work[conn.by].user]

SessionsInv == TypeOK /\ SettingsInv /\ RowsAreOwn

-----------------------------------------------------------------------------
(* The claims of a token that is there. *)
LEMMA Claims ==
  ASSUME TypeOK, NEW b \in Browser
  PROVE  /\ jar[b].access # None => jar[b].access.user \in User /\ jar[b].access.roles \in SUBSET Role
         /\ jar[b].refresh # None => jar[b].refresh.user \in User
BY DEF TypeOK, Token

LEMMA IdleIsWork == Idle \in Work /\ Idle.at = "idle" /\ Idle.rows = {}
BY DEF Idle, Work, At

(* A browser's work is replaced while the connection is another's, or      *)
(* nobody's.                                                               *)
LEMMA WorkSet ==
  ASSUME SessionsInv, NEW b \in Browser, NEW w \in Work, work' = [work EXCEPT ![b] = w],
         w.at # "idle" => w.user # None, w.at \in {"lookup", "login"} => w.slug # None,
         w.rows \subseteq {CompanyOf[u] : u \in {w.user} \ {None}},
         (conn' = conn /\ conn.by # b) \/ conn' = NoSettings,
         active' \subseteq User \cup Company, jar' \in [Browser -> Cookies]
  PROVE  SessionsInv'
<1>1. /\ work' \in [Browser -> Work] /\ work'[b] = w
      /\ \A a \in Browser \ {b} : work'[a] = work[a]
  BY DEF SessionsInv, TypeOK, Work, At
<1>2. conn' \in [by : Browser \cup {None}, company : Company \cup {None}, bypass : BOOLEAN]
  <2>1. NoSettings \in [by : Browser \cup {None}, company : Company \cup {None}, bypass : BOOLEAN]
    BY DEF NoSettings
  <2>2. conn \in [by : Browser \cup {None}, company : Company \cup {None}, bypass : BOOLEAN]
    BY DEF SessionsInv, TypeOK
  <2> QED BY <2>1, <2>2
<1>3. conn'.by # None => conn' = conn /\ conn.by \in Browser \ {b}
  BY <1>2 DEF NoSettings, SessionsInv, TypeOK
<1>4. conn'.by # None => work'[conn'.by].at \in InTransaction
  BY <1>1, <1>3 DEF SessionsInv, TypeOK
<1>5. TypeOK'
  BY <1>1, <1>2, <1>4 DEF TypeOK, Work, At, Cookies
<1>6. conn'.by = None => conn' = NoSettings
  BY DEF SessionsInv, SettingsInv
<1>7. conn'.by # None /\ work'[conn'.by].at = "handle" =>
         ~ conn'.bypass /\ conn'.company = CompanyOf[work'[conn'.by].user]
  BY <1>1, <1>3 DEF SessionsInv, SettingsInv
<1>8. SettingsInv'
  BY <1>1, <1>6, <1>7 DEF SessionsInv, SettingsInv
<1>9. RowsAreOwn'
  BY <1>1 DEF SessionsInv, RowsAreOwn
<1> QED BY <1>5, <1>8, <1>9 DEF SessionsInv

(* Nothing but cookies and statuses changes. *)
LEMMA CookieStep ==
  ASSUME SessionsInv, UNCHANGED <<conn, work>>,
         active' \subseteq User \cup Company, jar' \in [Browser -> Cookies]
  PROVE  SessionsInv'
BY DEF SessionsInv, TypeOK, SettingsInv, RowsAreOwn, Cookies

LEMMA EndsStep ==
  ASSUME SessionsInv, NEW b \in Browser, Ends(b),
         (conn' = conn /\ conn.by # b) \/ conn' = NoSettings,
         active' \subseteq User \cup Company, jar' \in [Browser -> Cookies]
  PROVE  SessionsInv'
BY WorkSet, IdleIsWork DEF Ends

(* A browser's work moves on. *)
LEMMA GoesStep ==
  ASSUME SessionsInv, NEW b \in Browser, NEW to \in At, NEW roles \in SUBSET Role,
         work[b].at # "idle", to \in {"lookup", "login"} => work[b].slug # None,
         work' = [work EXCEPT ![b].at = to, ![b].roles = roles],
         (conn' = conn /\ conn.by # b) \/ conn' = NoSettings, UNCHANGED <<active, jar>>
  PROVE  SessionsInv'
<1> DEFINE w == [work[b] EXCEPT !.at = to, !.roles = roles]
<1>1. work[b] \in Work /\ work \in [Browser -> Work]
  BY DEF SessionsInv, TypeOK, Work, At
<1>2. work' = [work EXCEPT ![b] = w]
  BY <1>1
<1>3. w \in Work /\ w.at = to /\ w.user = work[b].user /\ w.slug = work[b].slug /\ w.rows = work[b].rows
  BY <1>1 DEF Work
<1>4. work[b].user # None /\ work[b].rows \subseteq {CompanyOf[u] : u \in {work[b].user} \ {None}}
  BY DEF SessionsInv, SettingsInv, RowsAreOwn
<1>5. active' \subseteq User \cup Company /\ jar' \in [Browser -> Cookies]
  BY DEF SessionsInv, TypeOK, Cookies
<1> HIDE DEF w
<1> QED BY <1>2, <1>3, <1>4, <1>5, WorkSet

-----------------------------------------------------------------------------
LEMMA BeginStep ==
  ASSUME SessionsInv, NEW b \in Browser, Begin(b)
  PROVE  SessionsInv'
<1> DEFINE Conn == [by : Browser \cup {None}, company : Company \cup {None}, bypass : BOOLEAN]
           company == IF work[b].at = "login" THEN work[b].slug ELSE CompanyOf[work[b].user]
           opened == IF work[b].at = "lookup"
                     THEN [conn EXCEPT !.by = b, !.bypass = TRUE]
                     ELSE [conn EXCEPT !.by = b, !.company = company]
<1>1. /\ conn = NoSettings /\ conn \in Conn /\ work[b] \in Work /\ work[b].at \in InTransaction
      /\ UNCHANGED <<active, jar, work>> /\ conn' = opened
  BY DEF SessionsInv, TypeOK, SettingsInv, Begin, Work, At
<1>2. work[b].user \in User /\ work[b].slug \in Company \cup {None}
  BY <1>1 DEF SessionsInv, SettingsInv, Work, InTransaction
<1>3. company \in Company \cup {None}
  BY <1>2, SessionsAssumption
<1>4. opened \in Conn /\ opened.by = b
  BY <1>1, <1>3
<1>5. work[b].at = "handle" => ~ opened.bypass /\ opened.company = CompanyOf[work[b].user]
  <2> HAVE work[b].at = "handle"
  <2>1. opened = [conn EXCEPT !.by = b, !.company = CompanyOf[work[b].user]]
    OBVIOUS
  <2>2. conn.bypass = FALSE
    BY <1>1 DEF NoSettings
  <2> QED BY <1>1, <2>1, <2>2
<1> HIDE DEF opened
<1>6. TypeOK'
  BY <1>1, <1>4 DEF SessionsInv, TypeOK
<1>7. conn'.by # None
  BY <1>1, <1>4, SessionsAssumption
<1>8. SettingsInv'
  BY <1>1, <1>4, <1>5, <1>7 DEF SessionsInv, SettingsInv
<1> QED BY <1>1, <1>6, <1>8 DEF SessionsInv, RowsAreOwn

(* Who is idle has no transaction. *)
LEMMA NotYet ==
  ASSUME SessionsInv, NEW b \in Browser, work[b].at \notin InTransaction
  PROVE  conn.by # b
BY SessionsAssumption DEF SessionsInv, TypeOK

LEMMA LoginStep ==
  ASSUME SessionsInv, NEW b \in Browser, NEW u \in User, NEW slug \in Company, Login(b, u, slug)
  PROVE  SessionsInv'
<1> DEFINE w == [Idle EXCEPT !.at = "lookup", !.user = u, !.slug = slug]
<1>1. w \in Work /\ w.at = "lookup" /\ w.user = u /\ w.slug = slug /\ w.rows = {}
  BY DEF Work, Idle, At, InTransaction
<1>2. work' = [work EXCEPT ![b] = w] /\ UNCHANGED <<active, jar, conn>> /\ work[b].at \notin InTransaction
  BY IdleIsWork DEF InTransaction, Login
<1> HIDE DEF w
<1> QED BY <1>1, <1>2, SessionsAssumption, NotYet, WorkSet DEF SessionsInv, TypeOK, Cookies

LEMMA RefreshStep ==
  ASSUME SessionsInv, NEW b \in Browser, Refresh(b)
  PROVE  SessionsInv'
<1> DEFINE w == [Idle EXCEPT !.at = "refresh", !.user = jar[b].refresh.user]
<1>1. jar[b].refresh.user \in User
  BY Claims DEF SessionsInv, Refresh
<1>2. w \in Work /\ w.at = "refresh" /\ w.user = jar[b].refresh.user /\ w.rows = {}
  BY <1>1 DEF Work, Idle, At, InTransaction
<1>3. work' = [work EXCEPT ![b] = w] /\ UNCHANGED <<active, jar, conn>> /\ work[b].at \notin InTransaction
  BY IdleIsWork DEF InTransaction, Refresh
<1> HIDE DEF w
<1> QED BY <1>1, <1>2, <1>3, SessionsAssumption, NotYet, WorkSet DEF SessionsInv, TypeOK, Cookies

LEMMA RequestStep ==
  ASSUME SessionsInv, NEW b \in Browser, NEW slug \in Company, NEW at \in {"offered", "guard"},
         work[b] = Idle, jar[b].access # None, Request(b, slug, at), UNCHANGED <<active, jar, conn>>
  PROVE  SessionsInv'
<1> DEFINE w == [Idle EXCEPT !.at = at, !.user = jar[b].access.user,
                             !.slug = slug, !.roles = jar[b].access.roles]
<1>1. jar[b].access.user \in User /\ jar[b].access.roles \in SUBSET Role
  BY Claims DEF SessionsInv
<1>2. w \in Work /\ w.at = at /\ w.user = jar[b].access.user /\ w.rows = {}
  BY <1>1 DEF Work, Idle, At
<1>3. work' = [work EXCEPT ![b] = w] /\ work[b].at \notin InTransaction
  BY IdleIsWork DEF InTransaction, Request
<1> HIDE DEF w
<1> QED BY <1>1, <1>2, <1>3, SessionsAssumption, NotYet, WorkSet DEF SessionsInv, TypeOK, Cookies

LEMMA ServerStep ==
  ASSUME SessionsInv, NEW b \in Browser, Server(b)
  PROVE  SessionsInv'
<1>1. work[b] \in Work /\ work \in [Browser -> Work] /\ jar \in [Browser -> Cookies]
      /\ active \subseteq User \cup Company
  BY DEF SessionsInv, TypeOK, Work, At, Cookies
<1>2. work[b].at # "idle" => work[b].user \in User
  BY <1>1 DEF SessionsInv, SettingsInv, Work
<1>3. work[b].at \in {"lookup", "login"} => work[b].slug # None
  BY DEF SessionsInv, SettingsInv
<1>4. work[b].at \notin InTransaction => conn.by # b
  BY SessionsAssumption DEF SessionsInv, TypeOK
<1>5. ASSUME NEW to \in At, Goes(b, to)
      PROVE  work' = [work EXCEPT ![b].at = to, ![b].roles = work[b].roles] /\ work[b].roles \in SUBSET Role
  BY <1>1, <1>5 DEF Goes, Work
<1>6. CASE Begin(b)
  BY <1>6, BeginStep
<1>7. CASE LookUpCompany(b)
  <2>1. work[b].at = "lookup" /\ conn' = NoSettings /\ UNCHANGED <<active, jar>>
    BY <1>7 DEF LookUpCompany, Commit
  <2>2. CASE Goes(b, "login")
    <3>1. "login" \in At
      BY DEF At, InTransaction
    <3> QED BY <1>3, <1>5, <2>1, <2>2, <3>1, GoesStep
  <2>3. CASE Ends(b)
    BY <1>1, <2>1, <2>3, EndsStep
  <2> QED BY <1>7, <2>2, <2>3 DEF LookUpCompany
<1>8. CASE ReadUser(b) \/ ReadAgain(b)
  <2>1. /\ work[b].at \in {"login", "refresh"} /\ work[b].at # "idle"
        /\ conn' = NoSettings /\ UNCHANGED <<active, jar>>
    BY <1>8 DEF ReadUser, ReadAgain, Commit
  <2>2. RolesOf[work[b].user] \in SUBSET Role /\ "issue" \in At
    BY <1>2, <2>1, SessionsAssumption DEF At
  <2>3. CASE work' = [work EXCEPT ![b].at = "issue", ![b].roles = RolesOf[work[b].user]]
    BY <2>1, <2>2, <2>3, GoesStep
  <2>4. CASE Ends(b)
    BY <1>1, <2>1, <2>4, EndsStep
  <2> QED BY <1>8, <2>3, <2>4 DEF ReadUser, ReadAgain
<1>9. CASE Issue(b)
  <2> DEFINE t == [user |-> work[b].user, roles |-> work[b].roles]
  <2>1. work[b].at = "issue" /\ Ends(b) /\ UNCHANGED <<active, conn>>
    BY <1>9 DEF Issue
  <2>2. t \in Token
    BY <1>1, <1>2, <2>1 DEF Token, Work
  <2>3. jar' = jar \/ jar' = [jar EXCEPT ![b] = [access |-> t, refresh |-> t]]
    BY <1>9 DEF Issue, setAuthCookies
  <2> HIDE DEF t
  <2>4. jar' \in [Browser -> Cookies]
    BY <1>1, <2>2, <2>3 DEF Cookies
  <2>5. conn.by # b
    BY <1>4, <2>1 DEF InTransaction
  <2> QED BY <1>1, <2>1, <2>4, <2>5, EndsStep
<1>10. CASE Guard(b)
  <2>1. /\ work[b].at \in {"offered", "guard"} /\ work[b].at # "idle"
        /\ UNCHANGED <<active, jar, conn>>
        /\ Ends(b) \/ Goes(b, "handle") \/ Goes(b, "forbidden")
    BY <1>10 DEF Guard
  <2>2. conn.by # b
    BY <1>4, <2>1 DEF InTransaction
  <2>3. "handle" \in At /\ "forbidden" \in At
    BY DEF At, InTransaction
  <2>4. CASE Ends(b)
    BY <1>1, <2>1, <2>2, <2>4, EndsStep
  <2>5. ASSUME NEW to \in {"handle", "forbidden"}, Goes(b, to) PROVE SessionsInv'
    BY <1>5, <2>1, <2>2, <2>3, <2>5, GoesStep
  <2> QED BY <2>1, <2>4, <2>5
<1>11. CASE Handle(b)
  <2> DEFINE w == [work[b] EXCEPT !.at = "done", !.rows = {c \in Company : Visible(c)}]
  <2>1. /\ work[b].at = "handle" /\ conn.by = b /\ conn' = NoSettings /\ UNCHANGED <<active, jar>>
        /\ work' = [work EXCEPT ![b] = w]
    BY <1>1, <1>11 DEF Handle, Commit
  <2>2. ~ conn.bypass /\ conn.company = CompanyOf[work[b].user] /\ work[b].user \in User
    BY <1>2, <2>1, SessionsAssumption DEF SessionsInv, SettingsInv
  <2>3. /\ w \in Work /\ w.at = "done" /\ w.user = work[b].user /\ w.slug = work[b].slug
        /\ w.rows = {c \in Company : Visible(c)}
    BY <1>1 DEF Work, At
  <2> HIDE DEF w
  <2>4. w.rows \subseteq {CompanyOf[u] : u \in {w.user} \ {None}} /\ w.user # None
    BY <2>2, <2>3, SessionsAssumption DEF Visible
  <2> QED BY <1>1, <2>1, <2>3, <2>4, WorkSet
<1> QED BY <1>6, <1>7, <1>8, <1>9, <1>10, <1>11 DEF Server

-----------------------------------------------------------------------------
(* The door.                                                               *)

Carries(b, x) == \E t \in {jar[b].access, jar[b].refresh} \ {None} : x \in {t.user, CompanyOf[t.user]}

Passed(b, x) ==
    \/ work[b].at = "issue" /\ x \in {work[b].user, CompanyOf[work[b].user]}
    \/ work[b].at = "refresh" /\ x = CompanyOf[work[b].user]
    \/ work[b].at = "login" /\ x = work[b].slug

LEMMA InsideIs == ASSUME NEW b \in Browser, NEW x PROVE b \in Inside(x) <=> Carries(b, x) \/ Passed(b, x)
BY DEF Inside, Carries, Passed

(* A browser gets inside by steps of its own only. *)
LEMMA DoorStep ==
  ASSUME SessionsInv, [Next]_vars, NEW x \in (User \cup Company) \ active,
         NEW b \in Browser, Carries(b, x)' \/ Passed(b, x)'
  PROVE  Carries(b, x) \/ Passed(b, x)
<1>1. work \in [Browser -> Work] /\ jar \in [Browser -> Cookies]
  BY DEF SessionsInv, TypeOK, Work, At, Cookies
<1>2. ASSUME UNCHANGED <<work, jar>> PROVE Carries(b, x) \/ Passed(b, x)
  BY <1>2 DEF Carries, Passed
<1>3. ASSUME NEW a \in Browser \ {b}, NEW w, UNCHANGED jar, work' = [work EXCEPT ![a] = w]
      PROVE  Carries(b, x) \/ Passed(b, x)
  BY <1>1, <1>3 DEF Carries, Passed
<1>4. ASSUME NEW a \in Browser, NEW w, UNCHANGED jar, work' = [work EXCEPT ![a] = w],
             w.at \notin {"issue", "refresh", "login"}
      PROVE  Carries(b, x) \/ Passed(b, x)
  <2>1. CASE a # b
    BY <1>3, <1>4, <2>1
  <2>2. CASE a = b
    <3>1. work'[b] = w
      BY <1>1, <1>4, <2>2
    <3>2. ~ Passed(b, x)'
      BY <1>4, <3>1 DEF Passed
    <3> QED BY <1>4, <3>2 DEF Carries
  <2> QED BY <2>1, <2>2
<1>5. ASSUME NEW a \in Browser, NEW to, Goes(a, to), UNCHANGED jar,
             to \notin {"issue", "refresh", "login"}
      PROVE  Carries(b, x) \/ Passed(b, x)
  <2>1. work' = [work EXCEPT ![a] = [work[a] EXCEPT !.at = to]] /\ [work[a] EXCEPT !.at = to].at = to
    BY <1>1, <1>5 DEF Goes, Work
  <2> QED BY <1>4, <1>5, <2>1
<1>6. ASSUME NEW a \in Browser, Ends(a), UNCHANGED jar PROVE Carries(b, x) \/ Passed(b, x)
  BY <1>4, <1>6, IdleIsWork DEF Ends
<1>7. ASSUME NEW a \in Browser, LookUpCompany(a) PROVE Carries(b, x) \/ Passed(b, x)
  <2>1. CASE Ends(a)
    BY <1>6, <1>7, <2>1 DEF LookUpCompany
  <2>2. CASE Goes(a, "login") /\ work[a].slug \in active
    <3> DEFINE w == [work[a] EXCEPT !.at = "login"]
    <3>1. work' = [work EXCEPT ![a] = w] /\ w.at = "login" /\ w.slug = work[a].slug
      BY <1>1, <2>2 DEF Goes, Work
    <3> HIDE DEF w
    <3>2. CASE a # b
      BY <1>3, <1>7, <3>1, <3>2 DEF LookUpCompany
    <3>3. CASE a = b
      <4>1. work'[b] = w
        BY <1>1, <3>1, <3>3
      <4>2. ~ Passed(b, x)'
        BY <2>2, <3>1, <3>3, <4>1 DEF Passed
      <4> QED BY <1>7, <4>2 DEF Carries, LookUpCompany
    <3> QED BY <3>2, <3>3
  <2> QED BY <1>7, <2>1, <2>2 DEF LookUpCompany
<1>8. ASSUME NEW a \in Browser, ReadUser(a) \/ ReadAgain(a) PROVE Carries(b, x) \/ Passed(b, x)
  <2>1. CASE Ends(a)
    BY <1>6, <1>8, <2>1 DEF ReadUser, ReadAgain
  <2>2. CASE ~ Ends(a)
    <3> DEFINE w == [work[a] EXCEPT !.at = "issue", !.roles = RolesOf[work[a].user]]
    <3>1. /\ work' = [work EXCEPT ![a].at = "issue", ![a].roles = RolesOf[work[a].user]]
          /\ work[a].user \in active /\ UNCHANGED jar
          /\ \/ work[a].at = "login" /\ CompanyOf[work[a].user] = work[a].slug
             \/ work[a].at = "refresh"
      BY <1>8, <2>2 DEF ReadUser, ReadAgain, Entitled
    <3>2. work' = [work EXCEPT ![a] = w] /\ w.at = "issue" /\ w.user = work[a].user
      BY <1>1, <3>1 DEF Work
    <3> HIDE DEF w
    <3>3. CASE a # b
      BY <1>3, <3>1, <3>2, <3>3
    <3>4. CASE a = b
      <4>1. work'[b] = w
        BY <1>1, <3>2, <3>4
      <4>2. CASE Passed(b, x)'
        <5>1. x = CompanyOf[work[a].user]
          BY <3>1, <3>2, <4>1, <4>2 DEF Passed
        <5> QED BY <3>1, <3>4, <5>1 DEF Passed
      <4> QED BY <3>1, <4>2 DEF Carries
    <3> QED BY <3>3, <3>4
  <2> QED BY <2>1, <2>2
<1>9. ASSUME NEW a \in Browser, Issue(a) PROVE Carries(b, x) \/ Passed(b, x)
  <2> DEFINE t == [user |-> work[a].user, roles |-> work[a].roles]
  <2>1. /\ work[a].at = "issue" /\ work' = [work EXCEPT ![a] = Idle]
        /\ jar' = jar \/ jar' = [jar EXCEPT ![a] = [access |-> t, refresh |-> t]]
    BY <1>9 DEF Issue, Ends, setAuthCookies
  <2>2. t.user = work[a].user
    OBVIOUS
  <2> HIDE DEF t
  <2>3. CASE jar' = jar
    BY <1>6, <1>9, <2>3 DEF Issue
  <2>4. CASE jar' = [jar EXCEPT ![a] = [access |-> t, refresh |-> t]] /\ a # b
    BY <1>1, <2>1, <2>4 DEF Carries, Passed
  <2>5. CASE jar' = [jar EXCEPT ![a] = [access |-> t, refresh |-> t]] /\ a = b
    <3>1. jar'[b].access = t /\ jar'[b].refresh = t /\ work'[b] = Idle
      BY <1>1, <2>1, <2>5
    <3>2. ~ Passed(b, x)'
      BY <3>1, IdleIsWork DEF Passed
    <3>3. x \in {t.user, CompanyOf[t.user]}
      BY <3>1, <3>2 DEF Carries
    <3> QED BY <2>1, <2>2, <2>5, <3>3 DEF Passed
  <2> QED BY <2>1, <2>3, <2>4, <2>5
<1>10. ASSUME NEW a \in Browser, Refresh(a) PROVE Carries(b, x) \/ Passed(b, x)
  <2> DEFINE w == [Idle EXCEPT !.at = "refresh", !.user = jar[a].refresh.user]
  <2>1. /\ work' = [work EXCEPT ![a] = w] /\ UNCHANGED jar /\ jar[a].refresh # None
        /\ w.at = "refresh" /\ w.user = jar[a].refresh.user
    BY <1>10 DEF Refresh, Idle
  <2> HIDE DEF w
  <2>2. CASE a # b
    BY <1>3, <2>1, <2>2
  <2>3. CASE a = b
    <3>1. work'[b] = w
      BY <1>1, <2>1, <2>3
    <3>2. CASE Passed(b, x)'
      <4>1. x = CompanyOf[jar[b].refresh.user]
        BY <2>1, <2>3, <3>1, <3>2 DEF Passed
      <4> QED BY <2>1, <2>3, <4>1 DEF Carries
    <3> QED BY <2>1, <3>2 DEF Carries
  <2> QED BY <2>2, <2>3
<1>11. ASSUME NEW a \in Browser, Handle(a) PROVE Carries(b, x) \/ Passed(b, x)
  <2> DEFINE w == [work[a] EXCEPT !.at = "done", !.rows = {c \in Company : Visible(c)}]
  <2>1. w.at = "done" /\ work' = [work EXCEPT ![a] = w] /\ UNCHANGED jar
    BY <1>1, <1>11 DEF Handle, Work
  <2> HIDE DEF w
  <2> QED BY <1>4, <2>1
<1>12. ASSUME NEW a \in Browser, NEW u, NEW slug, Login(a, u, slug) PROVE Carries(b, x) \/ Passed(b, x)
  <2> DEFINE w == [Idle EXCEPT !.at = "lookup", !.user = u, !.slug = slug]
  <2>1. w.at = "lookup" /\ work' = [work EXCEPT ![a] = w] /\ UNCHANGED jar
    BY <1>12 DEF Login, Idle
  <2> HIDE DEF w
  <2> QED BY <1>4, <2>1
<1>13. ASSUME NEW a \in Browser, NEW slug, NEW at \in {"offered", "guard"}, Request(a, slug, at), UNCHANGED jar
       PROVE  Carries(b, x) \/ Passed(b, x)
  <2> DEFINE w == [Idle EXCEPT !.at = at, !.user = jar[a].access.user,
                               !.slug = slug, !.roles = jar[a].access.roles]
  <2>1. w.at = at /\ work' = [work EXCEPT ![a] = w]
    BY <1>13 DEF Request, Idle
  <2> HIDE DEF w
  <2> QED BY <1>4, <1>13, <2>1
<1>14. ASSUME NEW a \in Browser, Guard(a) PROVE Carries(b, x) \/ Passed(b, x)
  BY <1>5, <1>6, <1>14 DEF Guard
<1>15. ASSUME NEW a \in Browser, Logout(a) \/ ExpireAccess(a) \/ ExpireRefresh(a)
       PROVE  Carries(b, x) \/ Passed(b, x)
  <2>1. UNCHANGED work
    BY <1>15 DEF Logout, ExpireAccess, ExpireRefresh
  <2>2. {jar'[b].access, jar'[b].refresh} \ {None} \subseteq {jar[b].access, jar[b].refresh} \ {None}
    BY <1>1, <1>15 DEF Logout, ExpireAccess, ExpireRefresh, clearAuthCookies, setAuthCookies, Cookies
  <2>3. Passed(b, x)' => Passed(b, x)
    BY <2>1 DEF Passed
  <2>4. Carries(b, x)' => Carries(b, x)
    BY <2>2 DEF Carries
  <2> QED BY <2>3, <2>4
<1>16. ASSUME NEW a \in Browser, Read(a) PROVE Carries(b, x) \/ Passed(b, x)
  BY <1>6, <1>16 DEF Read
<1> QED BY <1>2, <1>7, <1>8, <1>9, <1>10, <1>11, <1>12, <1>13, <1>14, <1>15, <1>16
        DEF Next, vars, Server, Begin, Visit, Call, SwitchOff

-----------------------------------------------------------------------------
LEMMA SessionsInvariant == Spec => []SessionsInv
<1>1. Init => SessionsInv
  <2> SUFFICES ASSUME Init PROVE SessionsInv
    OBVIOUS
  <2>1. work \in [Browser -> Work] /\ \A b \in Browser : work[b] = Idle
    BY IdleIsWork DEF Init
  <2>2. conn = NoSettings /\ conn \in [by : Browser \cup {None}, company : Company \cup {None}, bypass : BOOLEAN]
        /\ conn.by = None
    BY DEF Init, NoSettings
  <2>3. jar \in [Browser -> Cookies] /\ active \subseteq User \cup Company
    BY DEF Init, Cookies
  <2>4. TypeOK
    BY <2>1, <2>2, <2>3 DEF TypeOK, Cookies, Work, At
  <2>5. SettingsInv /\ RowsAreOwn
    BY <2>1, <2>2, IdleIsWork DEF SettingsInv, RowsAreOwn
  <2> QED BY <2>4, <2>5 DEF SessionsInv
<1>2. SessionsInv /\ [Next]_vars => SessionsInv'
  <2> SUFFICES ASSUME SessionsInv, [Next]_vars PROVE SessionsInv'
    OBVIOUS
  <2>1. jar \in [Browser -> Cookies] /\ active \subseteq User \cup Company
    BY DEF SessionsInv, TypeOK, Cookies
  <2>2. CASE UNCHANGED vars
    BY <2>1, <2>2, CookieStep DEF vars
  <2>3. ASSUME NEW b \in Browser, Logout(b) \/ ExpireAccess(b) \/ ExpireRefresh(b) PROVE SessionsInv'
    <3>1. jar' \in [Browser -> Cookies]
      BY <2>1, <2>3 DEF Logout, ExpireAccess, ExpireRefresh, clearAuthCookies, setAuthCookies, Cookies
    <3> QED BY <2>1, <2>3, <3>1, CookieStep DEF Logout, ExpireAccess, ExpireRefresh
  <2>4. ASSUME NEW b \in Browser, Visit(b) \/ \E slug \in Company : Call(b, slug) PROVE SessionsInv'
    <3>1. jar[b].access # None => CompanyOf[jar[b].access.user] \in Company
      BY Claims, SessionsAssumption DEF SessionsInv
    <3> QED BY <2>4, <3>1, RequestStep DEF Visit, Call
  <2>5. ASSUME NEW b \in Browser, Read(b) PROVE SessionsInv'
    <3>1. conn.by # b
      BY <2>5, SessionsAssumption DEF Read, SessionsInv, TypeOK, InTransaction
    <3> QED BY <2>1, <2>5, <3>1, EndsStep DEF Read
  <2>6. ASSUME NEW x \in Revocable, SwitchOff(x) PROVE SessionsInv'
    BY <2>1, <2>6, CookieStep DEF SwitchOff
  <2> QED BY <2>2, <2>3, <2>4, <2>5, <2>6, ServerStep, RefreshStep, LoginStep DEF Next
<1> QED BY <1>1, <1>2, PTL DEF Spec

(* Types, for any number of browsers: a transaction is somebody's work.    *)
THEOREM TypeCorrect == Spec => []TypeOK
<1>1. SessionsInv => TypeOK
  BY DEF SessionsInv
<1> QED BY <1>1, SessionsInvariant, PTL

(* No request is ever served a row of another company, whatever the other  *)
(* browsers do and whatever ran on the connection before.                  *)
THEOREM Isolation == Spec => []RowsAreOwn
<1>1. SessionsInv => RowsAreOwn
  BY DEF SessionsInv
<1> QED BY <1>1, SessionsInvariant, PTL

(* Of any number of companies and accounts, none that was switched off     *)
(* lets anybody in who was not in, or past the look at its status, when it *)
(* was: no refresh, login or lost answer hands out a token after it.       *)
THEOREM DoorStaysClosed == Spec => ClosedDoor
<1> DEFINE A == \A x \in (User \cup Company) \ active : Inside(x)' \subseteq Inside(x)
<1>1. SessionsInv /\ [Next]_vars => A
  <2> SUFFICES ASSUME SessionsInv, [Next]_vars, NEW x \in (User \cup Company) \ active
               PROVE  Inside(x)' \subseteq Inside(x)
    OBVIOUS
  <2>1. ASSUME NEW b \in Browser, b \in Inside(x)' PROVE b \in Inside(x)
    <3>1. Carries(b, x)' \/ Passed(b, x)'
      BY <2>1 DEF Inside, Carries, Passed
    <3> QED BY <3>1, DoorStep, InsideIs
  <2> QED BY <2>1 DEF Inside
<1>2. [][A]_vars => ClosedDoor
  BY PTL DEF ClosedDoor
<1> QED BY <1>1, <1>2, SessionsInvariant, PTL DEF Spec
=============================================================================
