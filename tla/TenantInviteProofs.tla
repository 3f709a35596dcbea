------------------------- MODULE TenantInviteProofs -------------------------
(***************************************************************************)
(* What redeeming an invite guarantees for any number of invites, users,   *)
(* pages and calls: one tenant per LINE user, pages that tell the truth,   *)
(* and rows that change as IdealInvite says.                               *)
(***************************************************************************)
EXTENDS TenantInvite, TLAPS

(* The transactions that hold the row lock of their invite. *)
Holding(c) == call[c].at \in {"bind", "commit"}

(* An invite that is held is still pending, and held once; of the calls    *)
(* about to commit no two write the same tenant or account, and nobody     *)
(* else has the account they write; an invite being made is not there yet. *)
LockInv ==
    /\ \A c \in Call : Holding(c) => invite[call[c].code] = "pending"
    /\ \A c, d \in Call : Holding(c) /\ Holding(d) /\ call[c].code = call[d].code => c = d
    /\ \A c, d \in Call : call[c].at = "commit" /\ call[d].at = "commit" /\ c # d =>
          Of[call[c].code] # Of[call[d].code] /\ call[c].user # call[d].user
    /\ \A c \in Call : call[c].at = "commit" => ~ BoundElsewhere(Of[call[c].code], call[c].user)
    /\ \A i \in minting : invite[i] = "absent"

(* A call that has succeeded was redeemed by its user; the call a page     *)
(* waits for is its own, about its invite and its user.                    *)
PageInv ==
    /\ \A c \in Call : call[c].at = "ok" =>
          invite[call[c].code] = "redeemed" /\ by[call[c].code] = call[c].user
    /\ \A p \in Page : page[p].call # None =>
          /\ call[page[p].call].at # "free"
          /\ call[page[p].call].code = page[p].code
          /\ call[page[p].call].user = Owner[p]
    /\ \A p, q \in Page : page[p].call # None /\ page[p].call = page[q].call => p = q

InviteInv == TypeOK /\ LockInv /\ OneTenantPerUser /\ PageInv /\ SuccessIsTrue

CallRecord == [at : Statement \cup Answers \cup {"free"},
               code : Invite \cup {None}, user : User \cup {None}]

-----------------------------------------------------------------------------
(* What the steps do to the calls.                                         *)

(* A call moves on: only its statement changes. *)
LEMMA CallGoesEffect ==
  ASSUME TypeOK, NEW c \in Call, call[c].at # "free",
         NEW to \in Statement \cup Answers, CallGoes(c, to)
  PROVE  /\ call' \in [Call -> CallRecord]
         /\ \A d \in Call : call'[d].code = call[d].code /\ call'[d].user = call[d].user
         /\ \A d \in Call \ {c} : call'[d] = call[d]
         /\ call'[c].at = to
         /\ \A d \in Call : call'[d].at # "free" => call'[d].code # None /\ call'[d].user # None
<1> USE DEF CallRecord
<1>1. call \in [Call -> CallRecord]
  BY DEF TypeOK
<1>2. call' = [call EXCEPT ![c] = [call[c] EXCEPT !.at = to]]
  BY DEF CallGoes
<1>3. [call[c] EXCEPT !.at = to] \in CallRecord
  BY <1>1
<1>4. \A d \in Call : call[d].at # "free" => call[d].code # None /\ call[d].user # None
  BY DEF TypeOK
<1> QED BY <1>1, <1>2, <1>3, <1>4

(* An answer is kept for the page that waits for it, else the call is free. *)
LEMMA AnswerEffect ==
  ASSUME TypeOK, NEW c \in Call, call[c].at # "free", NEW a \in Answers, Answer(c, a)
  PROVE  /\ call' \in [Call -> CallRecord]
         /\ \A d \in Call \ {c} : call'[d] = call[d]
         /\ call'[c].at \in {a, "free"}
         /\ call'[c].at # "free" => call'[c].code = call[c].code /\ call'[c].user = call[c].user
         /\ (\E p \in Page : page[p].call = c) => call'[c].at = a
         /\ \A d \in Call : call'[d].at # "free" => call'[d].code # None /\ call'[d].user # None
<1>1. CASE \E p \in Page : page[p].call = c
  <2>1. CallGoes(c, a)
    BY <1>1 DEF Answer
  <2> QED BY <2>1, CallGoesEffect
<1>2. CASE ~ \E p \in Page : page[p].call = c
  <2>1. call' = [call EXCEPT ![c] = Idle]
    BY <1>2 DEF Answer
  <2>2. Idle \in CallRecord
    BY DEF Idle, CallRecord
  <2> QED BY <1>2, <2>1, <2>2 DEF TypeOK, Idle, CallRecord, Answers
<1> QED BY <1>1, <1>2

(* Every step of a call either moves it to its next statement or answers.  *)
LEMMA ServeEffect ==
  ASSUME TypeOK, NEW c \in Call, Serve(c) \/ Fail(c)
  PROVE  /\ call[c].at \in Statement
         /\ \/ \E to \in Statement : CallGoes(c, to)
            \/ \E a \in Answers : Answer(c, a)
         /\ UNCHANGED <<late, page, minting>>
<1> USE DEF Statement, Answers, rows
<1>1. CASE LookUp(c)
  BY <1>1 DEF LookUp, VerifierRefuses
<1>2. CASE Sweep(c)
  BY <1>2 DEF Sweep
<1>3. CASE Cas(c)
  BY <1>3 DEF Cas
<1>4. CASE Bind(c)
  BY <1>4 DEF Bind
<1>5. CASE Commit(c)
  BY <1>5 DEF Commit, Take
<1>6. CASE Fail(c)
  BY <1>6 DEF Fail
<1> QED BY <1>1, <1>2, <1>3, <1>4, <1>5, <1>6 DEF Serve

-----------------------------------------------------------------------------
(* Types.                                                                  *)

LEMMA TypeStep == TypeOK /\ [Next]_vars => TypeOK'
<1> SUFFICES ASSUME TypeOK, [Next]_vars PROVE TypeOK'
  OBVIOUS
<1> USE OfAssumption, NoneAssumption DEF rows
<1>1. CASE UNCHANGED vars
  BY <1>1 DEF vars, TypeOK
<1>2. ASSUME NEW i \in Invite, StartGenerate(i) \/ Generate(i) \/ Revoke(i) \/ Elapse(i)
      PROVE  TypeOK'
  BY <1>2 DEF StartGenerate, Generate, Revoke, CloseInvite, Elapse, TypeOK
<1>3. ASSUME NEW t \in Tenant, NEW u \in User, AssignUser(t, u) PROVE TypeOK'
  BY <1>3 DEF AssignUser, TypeOK
<1>4. ASSUME NEW c \in Call, Serve(c) \/ Fail(c) PROVE TypeOK'
  <2>1. /\ call[c].at \in Statement
        /\ (\E to \in Statement : CallGoes(c, to)) \/ (\E a \in Answers : Answer(c, a))
        /\ UNCHANGED <<late, page, minting>>
    BY <1>4, ServeEffect
  <2>2. call[c].at # "free"
    BY <2>1 DEF Statement
  <2>3. /\ call' \in [Call -> CallRecord]
        /\ \A d \in Call : call'[d].at # "free" => call'[d].code # None /\ call'[d].user # None
    BY <2>1, <2>2, CallGoesEffect, AnswerEffect
  <2>4. call[c].code \in Invite /\ call[c].user \in User
    BY <2>2 DEF TypeOK
  <2>5. /\ invite' \in [Invite -> {"absent", "pending", "redeemed", "expired", "revoked"}]
        /\ by' \in [Invite -> User \cup {None}]
        /\ bound' \in [Tenant -> User \cup {None}]
    BY <1>4, <2>4 DEF Serve, LookUp, Sweep, CloseInvite, Cas, Bind, Commit, Take, Fail, TypeOK
  <2> QED BY <2>1, <2>3, <2>5 DEF TypeOK, CallRecord
<1>5. ASSUME NEW p \in Page, Confirm(p) PROVE TypeOK'
  <2> DEFINE free == {c \in Call : call[c].at = "free"}
             c == CHOOSE any \in free : TRUE
  <2>1. c \in Call
    BY <1>5 DEF Confirm
  <2>2. page[p].code \in Invite /\ Owner[p] \in User /\ c # None
    BY <1>5, <2>1, OwnerAssumption DEF Confirm, TypeOK
  <2>3. /\ call' = [call EXCEPT ![c] = [at |-> "lookup", code |-> page[p].code, user |-> Owner[p]]]
        /\ page' = [page EXCEPT ![p] = [at |-> "sending", code |-> page[p].code, call |-> c]]
        /\ UNCHANGED <<rows, late>>
    BY <1>5 DEF Confirm, ShowPage
  <2> HIDE DEF c
  <2> QED BY <2>1, <2>2, <2>3 DEF TypeOK, Statement, Screens
<1>6. ASSUME NEW p \in Page, Receive(p) \/ LoseConnection(p) PROVE TypeOK'
  <2>1. page[p].at = "sending" /\ page[p].call \in Call /\ page[p].code \in Invite
    BY <1>6 DEF Receive, LoseConnection, TypeOK
  <2>2. PICK to \in {"preview", "done", "misled"} :
           page' = [page EXCEPT ![p] = Blank] \/ ShowPage(p, to, page[p].code, None)
    BY <1>6 DEF Receive, LoseConnection, Screen
  <2>3. call' = [call EXCEPT ![page[p].call] = Idle] \/ UNCHANGED call
    BY <1>6 DEF Receive, LoseConnection, TypeOK
  <2>4. UNCHANGED <<rows, late>>
    BY <1>6 DEF Receive, LoseConnection
  <2>5. PICK shown \in [at : {"preview", "done", "misled", "closed"}, code : Invite \cup {None}, call : {None}] :
           /\ page' = [page EXCEPT ![p] = shown]
           /\ shown.at # "closed" => shown.code # None
    BY <2>1, <2>2 DEF ShowPage, Blank
  <2>6. /\ page' \in [Page -> [at : Screens, code : Invite \cup {None}, call : Call \cup {None}]]
        /\ \A q \in Page : (page'[q].at = "sending") <=> (page'[q].call # None)
        /\ \A q \in Page : (page'[q].at # "closed") => (page'[q].code # None)
    BY <2>5 DEF TypeOK, Screens
  <2>7. /\ call' \in [Call -> CallRecord]
        /\ \A c \in Call : call'[c].at # "free" => call'[c].code # None /\ call'[c].user # None
    <3>1. Idle \in CallRecord /\ Idle.at = "free"
      BY DEF Idle, CallRecord
    <3>2. call \in [Call -> CallRecord]
      BY DEF TypeOK, CallRecord
    <3>3. \A c \in Call : call[c].at # "free" => call[c].code # None /\ call[c].user # None
      BY DEF TypeOK
    <3> QED BY <2>3, <3>1, <3>2, <3>3
  <2>8. /\ invite' \in [Invite -> {"absent", "pending", "redeemed", "expired", "revoked"}]
        /\ by' \in [Invite -> User \cup {None}]
        /\ minting' \subseteq Invite /\ late' \subseteq Invite
        /\ bound' \in [Tenant -> User \cup {None}]
    BY <2>4 DEF TypeOK
  <2> QED BY <2>6, <2>7, <2>8 DEF TypeOK, CallRecord
<1>7. ASSUME NEW p \in Page, NEW i \in Invite, Open(p, i) PROVE TypeOK'
  BY <1>7 DEF Open, ShowPage, CloseInvite, Blank, TypeOK, Screens
<1> QED BY <1>1, <1>2, <1>3, <1>4, <1>5, <1>6, <1>7 DEF Next

-----------------------------------------------------------------------------
(* The row locks of redeem.                                                *)

(* Nothing is taken, and the rows stay as they are. *)
LEMMA LocksKept ==
  ASSUME LockInv, UNCHANGED <<invite, minting, bound>>,
         \A c \in Call : call'[c].at \in {"bind", "commit"} => call'[c] = call[c]
  PROVE  LockInv'
BY DEF LockInv, Holding, BoundElsewhere

LEMMA LockStep == TypeOK /\ LockInv /\ [Next]_vars => LockInv'
<1> SUFFICES ASSUME TypeOK, LockInv, [Next]_vars PROVE LockInv'
  OBVIOUS
<1> USE OfAssumption, NoneAssumption DEF rows
<1>1. CASE UNCHANGED vars
  BY <1>1, LocksKept DEF vars
<1>2. ASSUME NEW i \in Invite, StartGenerate(i) \/ Generate(i) \/ Revoke(i) \/ Elapse(i)
      PROVE  LockInv'
  <2>1. CASE StartGenerate(i) \/ Elapse(i)
    BY <2>1 DEF StartGenerate, Elapse, LockInv, Holding, BoundElsewhere
  <2>2. CASE Generate(i)
    BY <2>2 DEF Generate, LockInv, Holding, BoundElsewhere, TypeOK
  <2>3. CASE Revoke(i)
    BY <2>3 DEF Revoke, CloseInvite, LocksInvite, LockInv, Holding, BoundElsewhere, TypeOK
  <2> QED BY <1>2, <2>1, <2>2, <2>3
<1>3. ASSUME NEW t \in Tenant, NEW u \in User, AssignUser(t, u) PROVE LockInv'
  BY <1>3 DEF AssignUser, LocksUser, LockInv, Holding, BoundElsewhere, TypeOK
<1>4. ASSUME NEW c \in Call, Serve(c) \/ Fail(c) PROVE LockInv'
  <2>1. /\ call[c].at # "free" /\ call[c].code \in Invite /\ call[c].user \in User
        /\ UNCHANGED <<late, page, minting>>
    BY <1>4, ServeEffect DEF Statement, TypeOK
  <2>2. ASSUME NEW a \in Answers, Answer(c, a)
        PROVE  /\ \A d \in Call : call'[d].at \in {"bind", "commit"} => call'[d] = call[d]
               /\ call'[c].at \notin {"bind", "commit"}
    BY <2>1, <2>2, AnswerEffect DEF Answers
  <2>3. ASSUME NEW to \in Statement, CallGoes(c, to)
        PROVE  /\ \A d \in Call \ {c} : call'[d] = call[d]
               /\ call'[c] = [call[c] EXCEPT !.at = to]
    BY <2>1, <2>3 DEF CallGoes, TypeOK
  <2>4. CASE LookUp(c)
    <3>1. UNCHANGED <<invite, bound>> /\ call[c].at = "lookup"
      BY <2>4 DEF LookUp
    <3>2. (\E a \in Answers : Answer(c, a)) \/ CallGoes(c, "sweep") \/ CallGoes(c, "cas")
      BY <2>4 DEF LookUp, VerifierRefuses, Answers
    <3> QED BY <2>1, <2>2, <2>3, <3>1, <3>2, LocksKept DEF Statement, TypeOK
  <2>5. CASE Sweep(c)
    <3>1. Answer(c, "refused") /\ CloseInvite(call[c].code, "expired") /\ UNCHANGED bound
      BY <2>5 DEF Sweep
    <3>2. \A d \in Call : call'[d].at \in {"bind", "commit"} => call'[d] = call[d]
      BY <2>2, <3>1 DEF Answers
    <3> QED BY <2>1, <3>1, <3>2 DEF CloseInvite, LocksInvite, LockInv, Holding, BoundElsewhere, TypeOK
  <2>6. CASE Cas(c)
    <3>1. UNCHANGED <<invite, bound>> /\ call[c].at = "cas" /\ ~ LocksInvite(call[c].code)
      BY <2>6 DEF Cas
    <3>2. CASE Answer(c, "refused")
      BY <2>1, <2>2, <3>1, <3>2, LocksKept DEF Answers
    <3>3. CASE invite[call[c].code] = "pending" /\ CallGoes(c, "bind")
      <4>1. call'[c].at = "bind" /\ call'[c].code = call[c].code
        BY <2>1, <2>3, <3>3 DEF Statement, TypeOK
      <4>2. \A d \in Call \ {c} : call'[d] = call[d]
        BY <2>3, <3>3 DEF Statement
      <4> QED BY <2>1, <3>1, <3>3, <4>1, <4>2 DEF LocksInvite, LockInv, Holding, BoundElsewhere
    <3> QED BY <2>6, <3>2, <3>3 DEF Cas
  <2>7. CASE Bind(c)
    <3>1. /\ UNCHANGED <<invite, bound>> /\ call[c].at = "bind"
          /\ ~ LocksTenant(Of[call[c].code]) /\ ~ LocksUser(call[c].user)
      BY <2>7 DEF Bind
    <3>2. CASE Answer(c, "refused")
      BY <2>1, <2>2, <3>1, <3>2, LocksKept DEF Answers
    <3>3. CASE ~ BoundElsewhere(Of[call[c].code], call[c].user) /\ CallGoes(c, "commit")
      <4>1. /\ call'[c].at = "commit" /\ call'[c].code = call[c].code
            /\ call'[c].user = call[c].user
        BY <2>1, <2>3, <3>3 DEF Statement, TypeOK
      <4>2. \A d \in Call \ {c} : call'[d] = call[d]
        BY <2>3, <3>3 DEF Statement
      <4> QED BY <2>1, <3>1, <3>3, <4>1, <4>2
            DEF LocksTenant, LocksUser, LockInv, Holding, BoundElsewhere
    <3> QED BY <2>7, <3>2, <3>3 DEF Bind
  <2>8. CASE Commit(c)
    <3>1. call[c].at = "commit" /\ (Take(c) \/ UNCHANGED rows)
          /\ \E a \in Answers : Answer(c, a)
      BY <2>8 DEF Commit, Answers
    <3>2. /\ \A d \in Call : call'[d].at \in {"bind", "commit"} => call'[d] = call[d]
          /\ call'[c].at \notin {"bind", "commit"}
      BY <2>2, <3>1
    <3>3. CASE UNCHANGED rows
      BY <3>2, <3>3, LocksKept
    <3>4. CASE Take(c)
      BY <2>1, <3>1, <3>2, <3>4 DEF Take, LockInv, Holding, BoundElsewhere, TypeOK
    <3> QED BY <3>1, <3>3, <3>4
  <2>9. CASE Fail(c)
    BY <2>1, <2>2, <2>9, LocksKept DEF Fail, Answers
  <2> QED BY <1>4, <2>4, <2>5, <2>6, <2>7, <2>8, <2>9 DEF Serve
<1>5. ASSUME NEW p \in Page, Confirm(p) \/ Receive(p) \/ LoseConnection(p) PROVE LockInv'
  <2>1. UNCHANGED <<invite, minting, bound>>
    BY <1>5 DEF Confirm, Receive, LoseConnection
  <2>2. \A c \in Call : call'[c].at \in {"bind", "commit"} => call'[c] = call[c]
    <3>1. CASE Confirm(p)
      BY <3>1 DEF Confirm, TypeOK
    <3>2. CASE Receive(p) \/ LoseConnection(p)
      BY <3>2 DEF Receive, LoseConnection, Idle, TypeOK
    <3> QED BY <1>5, <3>1, <3>2
  <2> QED BY <2>1, <2>2, LocksKept
<1>6. ASSUME NEW p \in Page, NEW i \in Invite, Open(p, i) PROVE LockInv'
  <2>1. CASE UNCHANGED invite
    BY <1>6, <2>1, LocksKept DEF Open
  <2>2. CASE CloseInvite(i, "expired")
    BY <1>6, <2>2 DEF Open, CloseInvite, LocksInvite, LockInv, Holding, BoundElsewhere, TypeOK
  <2> QED BY <1>6, <2>1, <2>2 DEF Open
<1> QED BY <1>1, <1>2, <1>3, <1>4, <1>5, <1>6 DEF Next

-----------------------------------------------------------------------------
(* Accounts and pages.                                                     *)

LEMMA UserStep == TypeOK /\ LockInv /\ OneTenantPerUser /\ [Next]_vars => OneTenantPerUser'
<1> SUFFICES ASSUME TypeOK, LockInv, OneTenantPerUser, [Next]_vars PROVE OneTenantPerUser'
  OBVIOUS
<1>1. CASE UNCHANGED bound
  BY <1>1 DEF OneTenantPerUser
<1>2. ASSUME NEW t \in Tenant, NEW u \in User, ~ BoundElsewhere(t, u),
             bound' = [bound EXCEPT ![t] = u]
      PROVE  OneTenantPerUser'
  BY <1>2 DEF BoundElsewhere, OneTenantPerUser, TypeOK
<1>3. ASSUME NEW t \in Tenant, NEW u \in User, AssignUser(t, u) PROVE OneTenantPerUser'
  BY <1>2, <1>3 DEF AssignUser
<1>4. ASSUME NEW c \in Call, Commit(c), Take(c) PROVE OneTenantPerUser'
  <2>1. call[c].at = "commit" /\ call[c].code \in Invite /\ call[c].user \in User
    BY <1>4 DEF Commit, TypeOK
  <2>2. Of[call[c].code] \in Tenant
    BY <2>1, OfAssumption
  <2>3. ~ BoundElsewhere(Of[call[c].code], call[c].user)
    BY <2>1 DEF LockInv
  <2>4. bound' = [bound EXCEPT ![Of[call[c].code]] = call[c].user]
    BY <1>4 DEF Take
  <2> QED BY ONLY <2>1, <2>2, <2>3, <2>4, <1>2
<1>5. UNCHANGED bound
      \/ (\E t \in Tenant, u \in User : AssignUser(t, u))
      \/ (\E c \in Call : Commit(c) /\ Take(c))
  BY DEF Next, vars, rows, StartGenerate, Generate, Revoke, Elapse, Serve, LookUp, Sweep, Cas,
         Bind, Commit, Fail, Confirm, Receive, LoseConnection, Open
<1> QED BY <1>1, <1>3, <1>4, <1>5

(* A redeemed invite stays redeemed, by the same user. *)
LEMMA RedeemedStays ==
  ASSUME TypeOK, LockInv, Next, NEW i \in Invite, invite[i] = "redeemed"
  PROVE  invite'[i] = "redeemed" /\ by'[i] = by[i]
<1>1. ASSUME NEW c \in Call, Commit(c), Take(c)
      PROVE  invite'[i] = "redeemed" /\ by'[i] = by[i]
  BY <1>1 DEF Commit, Take, LockInv, Holding, TypeOK
<1>2. ASSUME NEW j \in Invite, NEW final \in {"expired", "revoked"}, CloseInvite(j, final), UNCHANGED by
      PROVE  invite'[i] = "redeemed" /\ by'[i] = by[i]
  BY <1>2 DEF CloseInvite, TypeOK
<1>3. ASSUME NEW j \in Invite, Generate(j)
      PROVE  invite'[i] = "redeemed" /\ by'[i] = by[i]
  BY <1>3 DEF Generate, LockInv, TypeOK
<1>4. ASSUME NEW c \in Call, Sweep(c)
      PROVE  invite'[i] = "redeemed" /\ by'[i] = by[i]
  <2>1. call[c].code \in Invite /\ CloseInvite(call[c].code, "expired") /\ UNCHANGED by
    BY <1>4 DEF Sweep, TypeOK
  <2> QED BY <1>2, <2>1
<1>5. \/ UNCHANGED <<invite, by>>
      \/ \E j \in Invite : Generate(j) \/ Revoke(j) \/ \E p \in Page : Open(p, j)
      \/ \E c \in Call : Sweep(c) \/ (Commit(c) /\ Take(c))
  BY DEF Next, rows, StartGenerate, AssignUser, Elapse, Serve, LookUp, Cas,
         Bind, Commit, Fail, Confirm, Receive, LoseConnection
<1> QED BY <1>1, <1>2, <1>3, <1>4, <1>5 DEF Revoke, Open

LEMMA PageStep ==
  TypeOK /\ LockInv /\ PageInv /\ SuccessIsTrue /\ [Next]_vars => PageInv' /\ SuccessIsTrue'
<1> SUFFICES ASSUME TypeOK, LockInv, PageInv, SuccessIsTrue, [Next]_vars
             PROVE  PageInv' /\ SuccessIsTrue'
  OBVIOUS
<1> USE NoneAssumption DEF rows
<1>1. CASE UNCHANGED vars
  BY <1>1 DEF vars, PageInv, SuccessIsTrue
<1> SUFFICES ASSUME Next PROVE PageInv' /\ SuccessIsTrue'
  BY <1>1
<1>2. /\ \A c \in Call : call[c].at = "ok" => call[c].code \in Invite
      /\ \A p \in Page : page[p].at = "done" => page[p].code \in Invite
  BY DEF TypeOK
<1>3. /\ \A c \in Call : call[c].at = "ok" =>
            invite'[call[c].code] = "redeemed" /\ by'[call[c].code] = call[c].user
      /\ \A p \in Page : page[p].at = "done" =>
            invite'[page[p].code] = "redeemed" /\ by'[page[p].code] = Owner[p]
  BY <1>2, RedeemedStays DEF PageInv, SuccessIsTrue
<1>4. CASE UNCHANGED <<call, page>>
  BY <1>3, <1>4 DEF PageInv, SuccessIsTrue
<1>5. ASSUME NEW c \in Call, Serve(c) \/ Fail(c) PROVE PageInv' /\ SuccessIsTrue'
  <2>1. call[c].at \in Statement /\ UNCHANGED page
    BY <1>5, ServeEffect
  <2>2. call[c].at # "free" /\ call[c].code \in Invite
    BY <2>1 DEF Statement, TypeOK
  <2>3. /\ \A d \in Call \ {c} : call'[d] = call[d]
        /\ call'[c].at # "free" => call'[c].code = call[c].code /\ call'[c].user = call[c].user
        /\ (\E p \in Page : page[p].call = c) => call'[c].at # "free"
    BY <1>5, <2>2, ServeEffect, CallGoesEffect, AnswerEffect DEF Statement, Answers
  <2>4. call'[c].at = "ok" =>
           invite'[call[c].code] = "redeemed" /\ by'[call[c].code] = call[c].user
    <3>1. ASSUME NEW a \in Answers, Answer(c, a), call'[c].at = "ok" PROVE a = "ok"
      BY <2>2, <3>1, AnswerEffect
    <3>2. ASSUME NEW to \in Statement, CallGoes(c, to) PROVE call'[c].at # "ok"
      BY <2>2, <3>2, CallGoesEffect DEF Statement
    <3>3. CASE LookUp(c)
      BY <3>1, <3>2, <3>3, <2>2, RedeemedStays DEF LookUp, VerifierRefuses, Answers, Statement
    <3>4. CASE Commit(c)
      BY <3>1, <3>4, <2>2 DEF Commit, Take, Answers, TypeOK
    <3>5. CASE Sweep(c) \/ Cas(c) \/ Bind(c) \/ Fail(c)
      BY <3>1, <3>2, <3>5 DEF Sweep, Cas, Bind, Fail, Answers, Statement
    <3> QED BY <1>5, <3>3, <3>4, <3>5 DEF Serve
  <2>5. \A d \in Call : call'[d].at = "ok" =>
           invite'[call'[d].code] = "redeemed" /\ by'[call'[d].code] = call'[d].user
    BY <1>3, <2>3, <2>4
  <2>6. \A p \in Page : page[p].call # None => page[p].call \in Call
    BY DEF TypeOK
  <2>7. \A p \in Page : page[p].call # None =>
           /\ call'[page[p].call].at # "free"
           /\ call'[page[p].call].code = page[p].code
           /\ call'[page[p].call].user = Owner[p]
    BY <2>3, <2>6 DEF PageInv
  <2>8. PageInv'
    BY <2>1, <2>5, <2>7 DEF PageInv
  <2> QED BY <1>3, <2>1, <2>8 DEF SuccessIsTrue
<1>6. ASSUME NEW p \in Page, Confirm(p) PROVE PageInv' /\ SuccessIsTrue'
  <2> DEFINE free == {c \in Call : call[c].at = "free"}
             c == CHOOSE any \in free : TRUE
  <2>1. c \in Call /\ call[c].at = "free"
    BY <1>6 DEF Confirm
  <2>2. /\ call' = [call EXCEPT ![c] = [at |-> "lookup", code |-> page[p].code, user |-> Owner[p]]]
        /\ page' = [page EXCEPT ![p] = [at |-> "sending", code |-> page[p].code, call |-> c]]
    BY <1>6 DEF Confirm, ShowPage
  <2> HIDE DEF c
  <2>3. \A q \in Page : page[q].call # c
    BY <2>1 DEF PageInv, TypeOK
  <2>4. \A q \in Page \ {p} : page'[q] = page[q]
    BY <2>2 DEF TypeOK
  <2>5. page'[p].at = "sending" /\ page'[p].code = page[p].code /\ page'[p].call = c
    BY <2>2 DEF TypeOK
  <2>6. \A d \in Call \ {c} : call'[d] = call[d]
    BY <2>2 DEF TypeOK
  <2>7. call'[c].at = "lookup" /\ call'[c].code = page[p].code /\ call'[c].user = Owner[p]
    BY <2>1, <2>2 DEF TypeOK
  <2>8. \A q \in Page : page[q].call # None => page[q].call \in Call
    BY DEF TypeOK
  <2>9. PageInv'
    BY <1>3, <2>1, <2>3, <2>4, <2>5, <2>6, <2>7, <2>8 DEF PageInv
  <2> QED BY <1>3, <2>4, <2>5, <2>9 DEF SuccessIsTrue
<1>7. ASSUME NEW p \in Page, Receive(p) \/ LoseConnection(p) PROVE PageInv' /\ SuccessIsTrue'
  <2>1. page[p].at = "sending" /\ page[p].call \in Call
    BY <1>7 DEF Receive, LoseConnection, TypeOK
  <2>2. PICK to \in {"preview", "done", "misled"} :
           /\ page' = [page EXCEPT ![p] = Blank] \/ ShowPage(p, to, page[p].code, None)
           /\ to = "done" => call[page[p].call].at = "ok"
    BY <1>7 DEF Receive, LoseConnection, Screen, CanRetry
  <2> DEFINE next == [at |-> to, code |-> page[p].code, call |-> None]
  <2>3. PICK shown \in {next, Blank} : page' = [page EXCEPT ![p] = shown]
    BY <2>2 DEF ShowPage
  <2>4. /\ page' = [page EXCEPT ![p] = shown]
        /\ shown.call = None
        /\ shown.at = "done" => shown.code = page[p].code /\ call[page[p].call].at = "ok"
    BY <2>2, <2>3 DEF Blank
  <2>5. call' = [call EXCEPT ![page[p].call] = Idle] \/ UNCHANGED call
    BY <1>7 DEF Receive, LoseConnection, TypeOK
  <2>6. \A d \in Call : call'[d] = call[d] \/ (d = page[p].call /\ call'[d].at = "free")
    BY <2>1, <2>5 DEF Idle, TypeOK
  <2>7. page'[p] = shown /\ \A q \in Page \ {p} : page'[q] = page[q]
    BY <2>4 DEF TypeOK
  <2>8. \A q \in Page : page[q].call # None => page[q].call \in Call
    BY DEF TypeOK
  <2>9. PageInv'
    BY <1>3, <2>1, <2>4, <2>6, <2>7, <2>8 DEF PageInv
  <2>10. shown.at = "done" => invite'[page[p].code] = "redeemed" /\ by'[page[p].code] = Owner[p]
    BY <1>3, <2>1, <2>4 DEF PageInv
  <2> QED BY <1>3, <2>4, <2>7, <2>9, <2>10 DEF SuccessIsTrue
<1>8. ASSUME NEW p \in Page, NEW i \in Invite, Open(p, i) PROVE PageInv' /\ SuccessIsTrue'
  <2> DEFINE preview == [at |-> "preview", code |-> i, call |-> None]
  <2>1. PICK shown \in {preview, Blank} : page' = [page EXCEPT ![p] = shown]
    BY <1>8 DEF Open, ShowPage
  <2>2. /\ page' = [page EXCEPT ![p] = shown]
        /\ shown.call = None /\ shown.at # "done"
    BY <2>1 DEF Blank
  <2>3. page'[p] = shown /\ \A q \in Page \ {p} : page'[q] = page[q]
    BY <2>2 DEF TypeOK
  <2>4. UNCHANGED call
    BY <1>8 DEF Open
  <2> QED BY <1>3, <2>2, <2>3, <2>4 DEF PageInv, SuccessIsTrue
<1> QED BY <1>4, <1>5, <1>6, <1>7, <1>8 DEF Next, StartGenerate, Generate, Revoke, Elapse, AssignUser

LEMMA InviteInvariant == Spec => []InviteInv
<1>1. Init => InviteInv
  BY NoneAssumption DEF Init, Idle, Blank, InviteInv, TypeOK, LockInv, Holding, OneTenantPerUser,
     PageInv, SuccessIsTrue, Statement, Answers, Screens
<1>2. InviteInv /\ [Next]_vars => InviteInv'
  BY TypeStep, LockStep, UserStep, PageStep DEF InviteInv
<1> QED BY <1>1, <1>2, PTL DEF Spec

-----------------------------------------------------------------------------
(* Theorems.                                                               *)

(* Two people are never one tenant's account, nor is one person two        *)
(* tenants, however generate, revoke, redeem and the PATCH of a tenant     *)
(* interleave, for any number of each.                                     *)
THEOREM OneAccount == Spec => []OneTenantPerUser
<1>1. InviteInv => OneTenantPerUser
  BY DEF InviteInv
<1> QED BY <1>1, InviteInvariant, PTL

(* A page that says the account is bound tells the truth, whatever was     *)
(* retried, replayed or lost on the way.                                   *)
THEOREM PagesTellTheTruth == Spec => []SuccessIsTrue
<1>1. InviteInv => SuccessIsTrue
  BY DEF InviteInv
<1> QED BY <1>1, InviteInvariant, PTL

(* Every step of the calls is, on the committed rows, one step of          *)
(* IdealInvite or none: the two transactions of redeem behave as one.      *)
THEOREM RedeemIsAtomic == Spec => ImplementsIdeal
<1>1. Init => Ideal!Init
  BY DEF Init, Ideal!Init
<1>2. InviteInv /\ [Next]_vars => [Ideal!Next]_(Ideal!vars)
  <2> SUFFICES ASSUME InviteInv, [Next]_vars PROVE Ideal!Next \/ UNCHANGED <<invite, by, bound>>
    BY DEF Ideal!vars
  <2> USE DEF InviteInv, rows
  <2>1. CASE UNCHANGED vars
    BY <2>1 DEF vars
  <2>2. ASSUME NEW i \in Invite, NEW final \in {"revoked", "expired"},
               CloseInvite(i, final), UNCHANGED <<by, bound>>
        PROVE  Ideal!Next \/ UNCHANGED <<invite, by, bound>>
    BY <2>2 DEF CloseInvite, TypeOK, Ideal!Next, Ideal!Close
  <2>3. ASSUME NEW i \in Invite, Generate(i) PROVE Ideal!Next
    BY <2>3 DEF Generate, LockInv, TypeOK, Ideal!Next, Ideal!Generate
  <2>4. ASSUME NEW t \in Tenant, NEW u \in User, AssignUser(t, u) PROVE Ideal!Next
    BY <2>4 DEF AssignUser, BoundElsewhere, Ideal!Next, Ideal!Assign, Ideal!FreeFor
  <2>5. ASSUME NEW c \in Call, Sweep(c) PROVE Ideal!Next \/ UNCHANGED <<invite, by, bound>>
    BY <2>2, <2>5 DEF Sweep, TypeOK
  <2>6. ASSUME NEW c \in Call, Commit(c), Take(c) PROVE Ideal!Next
    <3>1. call[c].at = "commit" /\ call[c].code \in Invite /\ call[c].user \in User
      BY <2>6 DEF Commit, TypeOK
    <3>2. Ideal!Redeem(call[c].code, call[c].user)
      BY <2>6, <3>1 DEF Take, LockInv, Holding, BoundElsewhere, Ideal!Redeem, Ideal!FreeFor
    <3> QED BY <3>1, <3>2 DEF Ideal!Next
  <2>7. \/ UNCHANGED <<invite, by, bound>>
        \/ \E i \in Invite : Generate(i) \/ Revoke(i) \/ \E p \in Page : Open(p, i)
        \/ \E t \in Tenant, u \in User : AssignUser(t, u)
        \/ \E c \in Call : Sweep(c) \/ (Commit(c) /\ Take(c))
    BY DEF Next, vars, StartGenerate, Elapse, Serve, LookUp, Cas,
           Bind, Commit, Fail, Confirm, Receive, LoseConnection
  <2> QED BY <2>2, <2>3, <2>4, <2>5, <2>6, <2>7 DEF Revoke, Open
<1> QED BY <1>1, <1>2, InviteInvariant, PTL DEF Spec, ImplementsIdeal, Ideal!Spec
=============================================================================
