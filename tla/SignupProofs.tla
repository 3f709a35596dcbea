---------------------------- MODULE SignupProofs ----------------------------
(***************************************************************************)
(* What a sign-up guarantees for any number of visitors, slugs, edits and  *)
(* submissions, whatever overtakes what and whichever answer is lost.      *)
(***************************************************************************)
EXTENDS Signup, FiniteSetTheorems, TLAPS

Form == [name : Name \cup {None}, slug : Slug \cup {None}, touched : BOOLEAN,
         status : {"idle", "checking"} \cup Answer, about : Slug \cup {None}, token : Nat,
         edits : Nat, tries : Nat, busy : BOOLEAN, error : Code \cup {None},
         page : {"form", "welcome"}]

Probe == [by : Person, slug : Slug, token : Nat, at : {"timer", "sent"} \cup Answer]

CallRecord == [at : Steps \cup {"none", "ended"}, slug : Slug \cup {None}, rows : SUBSET Table]

(* A form has bumped its token at most once an edit. *)
FormOK(p) ==
    /\ tab[p] \in Form
    /\ tab[p].token <= tab[p].edits /\ tab[p].edits <= MaxEdits[p] /\ tab[p].tries <= MaxTries[p]
    /\ tab[p].slug # None /\ tab[p].status \in Answer => tab[p].about = tab[p].slug

(* A probe that carries the token of a form is about its slug, and the      *)
(* probe that waits for its timer carries that token.                      *)
ProbeOK(q) ==
    /\ q \in Probe
    /\ q.token <= tab[q.by].token
    /\ q.at = "timer" => q.token = tab[q.by].token
    /\ q.token = tab[q.by].token /\ tab[q.by].slug # None => q.slug = tab[q.by].slug

OneTimer == \A q, r \in probes : q.by = r.by /\ q.at = "timer" /\ r.at = "timer" => q = r

FormInv ==
    /\ tab \in [Person -> Form]
    /\ \A p \in Person : FormOK(p)
    /\ \A q \in probes : ProbeOK(q)
    /\ OneTimer

(* What a call has written but not committed. *)
RowsAt(at) ==
    CASE at = "owner" -> {"company"}
      [] at = "audit" -> {"company", "owner"}
      [] at = "commit" -> Table
      [] OTHER -> {}

(* A call that has inserted a company is alone with its slug, which no      *)
(* committed company has; when it signs tokens the company is there, whole. *)
CallInv ==
    /\ calls \in [Call -> CallRecord]
    /\ company \in [Slug -> [rows : SUBSET Table, owner : Person \cup {None}]]
    /\ session \in [Person -> Slug \cup {None}]
    /\ \A c \in Call : calls[c].at \in Steps => calls[c].slug \in Slug
    /\ \A c \in Call : calls[c].rows = RowsAt(calls[c].at)
    /\ \A c \in Call : calls[c].rows # {} => company[calls[c].slug].rows = {}
    /\ \A c, d \in Call : calls[c].rows # {} /\ Holds(d, calls[c].slug) => c = d
    /\ \A c \in Call : calls[c].at = "tokens" =>
          company[calls[c].slug] = [rows |-> Table, owner |-> c[1]]

(* A form that says the slug is taken speaks of a call of its own. *)
TakenInv ==
    \A p \in Person : tab[p].error = "SLUG_TAKEN" =>
        /\ <<p, tab[p].tries>> \in Call /\ calls[<<p, tab[p].tries>>].slug \in Slug
        /\ company[calls[<<p, tab[p].tries>>].slug].rows # {}

SignupInv == FormInv /\ CallInv /\ SessionIsOwn /\ WholeOrNothing /\ TakenInv

-----------------------------------------------------------------------------
LEMMA CallIsPair ==
  ASSUME NEW c \in Call
  PROVE  c[1] \in Person /\ c[2] \in 1..MaxTries[c[1]] /\ c = <<c[1], c[2]>>
BY DEF Call

(* The form of a visitor is replaced. *)
LEMMA FormSet ==
  ASSUME tab \in [Person -> Form], NEW p \in Person, NEW f \in Form, tab' = [tab EXCEPT ![p] = f]
  PROVE  /\ tab' \in [Person -> Form] /\ tab'[p] = f
         /\ \A r \in Person \ {p} : tab'[r] = tab[r]
OBVIOUS

(* A form that keeps its slug, token and badge keeps the invariant. *)
LEMMA FormKept ==
  ASSUME FormInv, NEW p \in Person, NEW f \in Form, tab' = [tab EXCEPT ![p] = f],
         f.slug = tab[p].slug, f.token = tab[p].token, f.status = tab[p].status,
         f.about = tab[p].about, f.token <= f.edits, f.edits <= MaxEdits[p], f.tries <= MaxTries[p],
         UNCHANGED probes
  PROVE  FormInv'
<1>1. /\ tab' \in [Person -> Form] /\ tab'[p] = f
      /\ \A r \in Person \ {p} : tab'[r] = tab[r]
  BY FormSet DEF FormInv
<1>2. \A r \in Person : FormOK(r)'
  BY <1>1 DEF FormInv, FormOK
<1>3. \A r \in Person : tab'[r].slug = tab[r].slug /\ tab'[r].token = tab[r].token
  BY <1>1
<1>4. \A q \in probes : ProbeOK(q)'
  BY <1>3 DEF FormInv, ProbeOK, Probe
<1> QED BY <1>1, <1>2, <1>4 DEF FormInv, OneTimer

LEMMA SluggedEffect ==
  ASSUME FormInv, NEW p \in Person, NEW form \in Form, NEW slug \in Slug \cup {None},
         form.slug = tab[p].slug, form.token = tab[p].token, form.status = tab[p].status,
         form.about = tab[p].about, form.edits = tab[p].edits + 1, form.edits <= MaxEdits[p],
         form.tries = tab[p].tries, Slugged(p, form, slug)
  PROVE  FormInv'
<1>1. tab[p] \in Form /\ tab[p].token <= tab[p].edits /\ tab[p].tries <= MaxTries[p] /\ MaxEdits[p] \in Nat
  BY SignupAssumption DEF FormInv, FormOK
<1>2. tab[p].token \in Nat /\ tab[p].edits \in Nat
  BY <1>1 DEF Form
<1>3. CASE slug = form.slug
  <2>1. tab' = [tab EXCEPT ![p] = form] /\ UNCHANGED probes
    BY <1>3 DEF Slugged
  <2>2. form.token <= form.edits /\ form.tries <= MaxTries[p]
    BY <1>1, <1>2
  <2> QED BY <2>1, <2>2, FormKept
<1> DEFINE others == {q \in probes : q.by # p \/ q.at # "timer"}
<1>4. CASE slug # form.slug /\ slug = None
  <2> DEFINE f == [form EXCEPT !.slug = None, !.status = "idle", !.about = None]
  <2>1. tab' = [tab EXCEPT ![p] = f] /\ probes' = others
    BY <1>4 DEF Slugged
  <2>2. /\ f \in Form /\ f.slug = None /\ f.status = "idle" /\ f.token = tab[p].token
        /\ f.edits = tab[p].edits + 1 /\ f.tries = tab[p].tries
    BY DEF Form
  <2> HIDE DEF f
  <2>3. /\ tab' \in [Person -> Form] /\ tab'[p] = f
        /\ \A r \in Person \ {p} : tab'[r] = tab[r]
    BY <2>1, <2>2, FormSet DEF FormInv
  <2>4. \A r \in Person : FormOK(r)'
    BY <1>1, <1>2, <2>2, <2>3 DEF FormInv, FormOK, Answer, Reason, Misshapen
  <2>5. \A q \in probes' : ProbeOK(q)'
    BY <2>1, <2>2, <2>3 DEF FormInv, ProbeOK, Probe
  <2> QED BY <2>1, <2>3, <2>4, <2>5 DEF FormInv, OneTimer
<1>5. CASE slug # form.slug /\ slug # None
  <2> DEFINE f == [form EXCEPT !.slug = slug, !.status = "checking", !.about = None, !.token = @ + 1]
             new == [by |-> p, slug |-> slug, token |-> form.token + 1, at |-> "timer"]
  <2>1. tab' = [tab EXCEPT ![p] = f] /\ probes' = others \cup {new}
    BY <1>5 DEF Slugged
  <2>2. form.token + 1 \in Nat
    BY <1>2
  <2>3. /\ f \in Form /\ f.slug = slug /\ f.status = "checking" /\ f.token = tab[p].token + 1
        /\ f.edits = tab[p].edits + 1 /\ f.tries = tab[p].tries
    BY <1>5, <2>2 DEF Form
  <2>4. /\ new \in Probe /\ new.by = p /\ new.slug = slug /\ new.token = tab[p].token + 1
        /\ new.at = "timer"
    BY <1>2, <1>5 DEF Probe
  <2> HIDE DEF f, new
  <2>5. /\ tab' \in [Person -> Form] /\ tab'[p] = f
        /\ \A r \in Person \ {p} : tab'[r] = tab[r]
    BY <2>1, <2>3, FormSet DEF FormInv
  <2>6. \A r \in Person : FormOK(r)'
    BY <1>1, <1>2, <2>3, <2>5 DEF FormInv, FormOK, Answer, Reason, Misshapen
  <2>7. ProbeOK(new)'
    BY <1>2, <2>3, <2>4, <2>5 DEF ProbeOK
  <2>8. \A q \in others : ProbeOK(q)'
    <3> SUFFICES ASSUME NEW q \in others PROVE ProbeOK(q)'
      OBVIOUS
    <3>1. ProbeOK(q) /\ q.by \in Person /\ q.token \in Nat
      BY DEF FormInv, ProbeOK, Probe
    <3>2. CASE q.by = p
      <4>1. q.at # "timer" /\ q.token < tab'[q.by].token
        BY <1>2, <2>3, <2>5, <3>1, <3>2 DEF ProbeOK
      <4> QED BY <1>2, <2>3, <2>5, <3>1, <3>2, <4>1 DEF ProbeOK
    <3>3. CASE q.by # p
      BY <2>5, <3>1, <3>3 DEF ProbeOK
    <3> QED BY <3>2, <3>3
  <2>9. OneTimer'
    BY <2>1, <2>4 DEF FormInv, OneTimer
  <2> QED BY <2>1, <2>5, <2>6, <2>7, <2>8, <2>9 DEF FormInv
<1> QED BY <1>3, <1>4, <1>5

(* A form that is refused, times out, is submitted or shown again. *)
LEMMA FailsEffect ==
  ASSUME FormInv, NEW p \in Person, NEW code \in Code,
         tab' = [tab EXCEPT ![p] = Fails(@, code)], UNCHANGED probes
  PROVE  FormInv'
<1> DEFINE f == Fails(tab[p], code)
<1>1. tab' = [tab EXCEPT ![p] = f]
  OBVIOUS
<1>2. /\ tab[p] \in Form /\ tab[p].token <= tab[p].edits /\ tab[p].edits <= MaxEdits[p]
      /\ tab[p].tries <= MaxTries[p]
  BY DEF FormInv, FormOK
<1>3. /\ f \in Form /\ f.slug = tab[p].slug /\ f.token = tab[p].token /\ f.status = tab[p].status
      /\ f.about = tab[p].about /\ f.edits = tab[p].edits /\ f.tries = tab[p].tries
  BY <1>2 DEF Form, Fails
<1> HIDE DEF f
<1> QED BY <1>1, <1>2, <1>3, FormKept

LEMMA RefuseEffect ==
  ASSUME FormInv, NEW c \in Call, NEW code \in Code, Refuse(c, code)
  PROVE  FormInv'
<1>1. c[1] \in Person
  BY CallIsPair
<1>2. CASE UNCHANGED tab
  BY <1>2 DEF Refuse, FormInv, FormOK, ProbeOK, OneTimer
<1>3. CASE tab' = [tab EXCEPT ![c[1]] = Fails(@, code)]
  BY <1>1, <1>3, FailsEffect DEF Refuse
<1> QED BY <1>2, <1>3 DEF Refuse

LEMMA EditStep ==
  ASSUME FormInv, NEW p \in Person,
         (\E name \in Name : TypeName(p, name)) \/ (\E slug \in Slug \cup {None} : TypeSlug(p, slug))
  PROVE  FormInv'
<1>1. /\ tab[p] \in Form /\ tab[p].edits \in Nat /\ tab[p].edits < MaxEdits[p] /\ MaxEdits[p] \in Nat
      /\ tab[p].edits + 1 \in Nat /\ tab[p].edits + 1 <= MaxEdits[p]
  <2>1. tab[p] \in Form /\ tab[p].edits < MaxEdits[p] /\ MaxEdits[p] \in Nat
    BY SignupAssumption DEF FormInv, TypeName, TypeSlug, Editable
  <2>2. tab[p].edits \in Nat
    BY <2>1 DEF Form
  <2> QED BY <2>1, <2>2
<1>2. CASE \E name \in Name : TypeName(p, name)
  <2>1. PICK name \in Name : TypeName(p, name)
    BY <1>2
  <2> DEFINE form == [tab[p] EXCEPT !.name = name, !.edits = @ + 1]
             slug == IF form.touched \/ Suggested[name] = None THEN form.slug ELSE Suggested[name]
  <2>2. Slugged(p, form, slug)
    BY <2>1 DEF TypeName
  <2>3. /\ form \in Form /\ form.slug = tab[p].slug /\ form.token = tab[p].token
        /\ form.status = tab[p].status /\ form.about = tab[p].about
        /\ form.edits = tab[p].edits + 1 /\ form.tries = tab[p].tries
    BY <1>1 DEF Form
  <2>4. form.slug \in Slug \cup {None} /\ Suggested[name] \in Slug \cup {None}
    BY <2>3, SignupAssumption DEF Form
  <2>5. slug \in Slug \cup {None}
    BY <2>4
  <2> HIDE DEF form, slug
  <2> QED BY <1>1, <2>2, <2>3, <2>5, SluggedEffect
<1>3. CASE \E slug \in Slug \cup {None} : TypeSlug(p, slug)
  <2>1. PICK slug \in Slug \cup {None} : TypeSlug(p, slug)
    BY <1>3
  <2> DEFINE form == [tab[p] EXCEPT !.touched = TRUE, !.edits = @ + 1]
  <2>2. Slugged(p, form, slug)
    BY <2>1 DEF TypeSlug
  <2>3. /\ form \in Form /\ form.slug = tab[p].slug /\ form.token = tab[p].token
        /\ form.status = tab[p].status /\ form.about = tab[p].about
        /\ form.edits = tab[p].edits + 1 /\ form.tries = tab[p].tries
    BY <1>1 DEF Form
  <2> HIDE DEF form
  <2> QED BY <1>1, <2>2, <2>3, SluggedEffect
<1> QED BY <1>2, <1>3

LEMMA ProbeStep ==
  ASSUME FormInv, NEW q \in probes, Probing(q)
  PROVE  FormInv'
<1>1. q \in Probe /\ ProbeOK(q) /\ q.by \in Person /\ q.slug \in Slug
  BY DEF FormInv, ProbeOK, Probe
<1>2. ASSUME NEW at \in {"sent"} \cup Answer, Moves(q, at), UNCHANGED tab PROVE FormInv'
  <2> DEFINE new == [q EXCEPT !.at = at]
  <2>1. /\ new \in Probe /\ new.by = q.by /\ new.slug = q.slug /\ new.token = q.token
        /\ new.at = at /\ new.at # "timer"
    BY <1>1 DEF Probe, Answer, Reason, Misshapen
  <2>2. probes' = (probes \ {q}) \cup {new}
    BY <1>2 DEF Moves
  <2> HIDE DEF new
  <2>3. ProbeOK(new)'
    BY <1>1, <1>2, <2>1 DEF ProbeOK
  <2>4. \A r \in probes : ProbeOK(r)'
    BY <1>2 DEF FormInv, ProbeOK
  <2>5. OneTimer'
    BY <2>1, <2>2 DEF FormInv, OneTimer
  <2>6. \A p \in Person : FormOK(p)'
    BY <1>2 DEF FormInv, FormOK
  <2> QED BY <1>2, <2>2, <2>3, <2>4, <2>5, <2>6 DEF FormInv
<1>3. CASE Debounce(q)
  BY <1>2, <1>3 DEF Debounce
<1>4. CASE CheckSlug(q)
  <2>1. Availability(q.slug) \in Answer /\ "available" \in Answer
    BY DEF Availability, Answer, Reason
  <2> QED BY <1>2, <1>4, <2>1 DEF CheckSlug
<1>5. CASE ShowAnswer(q)
  <2>1. q.at \in Answer /\ probes' = probes \ {q}
    BY <1>5 DEF ShowAnswer
  <2>2. CASE UNCHANGED tab
    BY <2>1, <2>2 DEF FormInv, FormOK, ProbeOK, OneTimer
  <2>3. CASE /\ tab[q.by].token = q.token
             /\ tab' = [tab EXCEPT ![q.by].status = q.at, ![q.by].about = q.slug]
    <3> DEFINE p == q.by
               f == [tab[p] EXCEPT !.status = q.at, !.about = q.slug]
    <3>1. tab' = [tab EXCEPT ![p] = f]
      BY <1>1, <2>3 DEF FormInv
    <3>2. tab[p] \in Form /\ FormOK(p)
      BY <1>1 DEF FormInv
    <3>3. /\ f \in Form /\ f.slug = tab[p].slug /\ f.token = tab[p].token
          /\ f.about = q.slug /\ f.edits = tab[p].edits /\ f.tries = tab[p].tries
      BY <1>1, <2>1, <3>2 DEF Form
    <3> HIDE DEF f
    <3>4. /\ tab' \in [Person -> Form] /\ tab'[p] = f
          /\ \A r \in Person \ {p} : tab'[r] = tab[r]
      BY <1>1, <3>1, <3>3, FormSet DEF FormInv
    <3>5. \A r \in Person : FormOK(r)'
      BY <1>1, <2>3, <3>2, <3>3, <3>4 DEF FormInv, FormOK, ProbeOK
    <3>6. \A r \in Person : tab'[r].slug = tab[r].slug /\ tab'[r].token = tab[r].token
      BY <3>3, <3>4
    <3>7. \A r \in probes' : ProbeOK(r)'
      BY <2>1, <3>6 DEF FormInv, ProbeOK, Probe
    <3> QED BY <2>1, <3>4, <3>5, <3>7 DEF FormInv, OneTimer
  <2> QED BY <1>5, <2>2, <2>3 DEF ShowAnswer
<1> QED BY <1>3, <1>4, <1>5 DEF Probing

LEMMA FormStep ==
  ASSUME FormInv, [Next]_vars
  PROVE  FormInv'
<1>1. CASE UNCHANGED <<tab, probes>>
  BY <1>1 DEF FormInv, FormOK, ProbeOK, OneTimer
<1>2. ASSUME NEW p \in Person, Submit(p) PROVE FormInv'
  <2> DEFINE f == [tab[p] EXCEPT !.busy = TRUE, !.error = None, !.tries = @ + 1]
  <2>1. tab[p] \in Form /\ FormOK(p) /\ tab[p].tries < MaxTries[p] /\ MaxTries[p] \in Nat
    BY <1>2, SignupAssumption DEF FormInv, Submit
  <2>2. tab[p].tries \in Nat
    BY <2>1 DEF Form
  <2>3. tab' = [tab EXCEPT ![p] = f] /\ UNCHANGED probes
    BY <1>2 DEF Submit, FormInv
  <2>4. tab[p].tries + 1 \in Nat /\ tab[p].tries + 1 <= MaxTries[p]
    BY <2>1, <2>2
  <2>5. /\ f \in Form /\ f.slug = tab[p].slug /\ f.token = tab[p].token /\ f.status = tab[p].status
        /\ f.about = tab[p].about /\ f.edits = tab[p].edits /\ f.tries = tab[p].tries + 1
    BY <2>1, <2>4 DEF Form
  <2> HIDE DEF f
  <2> QED BY <2>1, <2>3, <2>4, <2>5, FormKept DEF FormOK
<1>3. ASSUME NEW p \in Person, TimeOut(p) PROVE FormInv'
  BY <1>3, FailsEffect DEF TimeOut, Code
<1>4. ASSUME NEW p \in Person, Back(p) PROVE FormInv'
  <2> DEFINE f == [tab[p] EXCEPT !.page = "form"]
  <2>1. tab[p] \in Form /\ FormOK(p)
    BY DEF FormInv
  <2>2. tab' = [tab EXCEPT ![p] = f] /\ UNCHANGED probes
    BY <1>4 DEF Back, FormInv
  <2>3. /\ f \in Form /\ f.slug = tab[p].slug /\ f.token = tab[p].token /\ f.status = tab[p].status
        /\ f.about = tab[p].about /\ f.edits = tab[p].edits /\ f.tries = tab[p].tries
    BY <2>1 DEF Form
  <2> HIDE DEF f
  <2> QED BY <2>1, <2>2, <2>3, FormKept DEF FormOK
<1>5. ASSUME NEW c \in Call, NEW code \in Code, Refuse(c, code) PROVE FormInv'
  BY <1>5, RefuseEffect
<1>6. ASSUME NEW c \in Call, Leaves(c[1]) PROVE FormInv'
  <2> DEFINE p == c[1]
             f == [Blank EXCEPT !.edits = MaxEdits[p], !.tries = tab[p].tries,
                                !.token = tab[p].token, !.page = "welcome"]
  <2>1. p \in Person /\ tab[p] \in Form /\ FormOK(p) /\ MaxEdits[p] \in Nat
    BY CallIsPair, SignupAssumption DEF FormInv
  <2>2. tab[p].token \in Nat /\ tab[p].tries \in Nat /\ tab[p].edits \in Nat
    BY <2>1 DEF Form
  <2>3. tab' = [tab EXCEPT ![p] = f] /\ probes' = {q \in probes : q.by # p}
    BY <1>6 DEF Leaves
  <2>4. /\ f \in Form /\ f.slug = None /\ f.token = tab[p].token
        /\ f.edits = MaxEdits[p] /\ f.tries = tab[p].tries
    BY <2>1, <2>2 DEF Form, Blank
  <2> HIDE DEF f
  <2>5. /\ tab' \in [Person -> Form] /\ tab'[p] = f
        /\ \A r \in Person \ {p} : tab'[r] = tab[r]
    BY <2>1, <2>3, <2>4, FormSet DEF FormInv
  <2>6. \A r \in Person : FormOK(r)'
    BY <2>1, <2>2, <2>4, <2>5 DEF FormInv, FormOK
  <2>7. \A q \in probes' : ProbeOK(q)'
    BY <2>3, <2>5 DEF FormInv, ProbeOK, Probe
  <2> QED BY <2>3, <2>5, <2>6, <2>7 DEF FormInv, OneTimer
<1>7. ASSUME NEW c \in Call, Serving(c) \/ Throw(c) \/ Lost(c)
      PROVE  \/ UNCHANGED <<tab, probes>> \/ Leaves(c[1])
             \/ \E code \in Code : Refuse(c, code)
  BY <1>7 DEF Serving, Throw, Lost, Post, LookUp, InsertCompany, InsertOwner, Writes,
              Commit, Issue, Code
<1> QED BY <1>1, <1>2, <1>3, <1>4, <1>5, <1>6, <1>7, EditStep, ProbeStep DEF Next, vars
-----------------------------------------------------------------------------
(* The API.                                                                *)

(* A call is replaced by one that holds no slug another call holds, and    *)
(* that has nothing to do with what is committed.                          *)
LEMMA CallSet ==
  ASSUME CallInv, NEW c \in Call, NEW r \in CallRecord, calls' = [calls EXCEPT ![c] = r],
         r.at # "tokens", r.rows = RowsAt(r.at), r.at \in Steps => r.slug \in Slug,
         r.rows # {} => /\ company[r.slug].rows = {}
                        /\ \A d \in Call \ {c} : ~ Holds(d, r.slug),
         UNCHANGED company
  PROVE  CallInv' \/ session' # session
<1> SUFFICES ASSUME session' = session PROVE CallInv'
  OBVIOUS
<1>1. /\ calls' \in [Call -> CallRecord] /\ calls'[c] = r
      /\ \A d \in Call \ {c} : calls'[d] = calls[d]
  BY DEF CallInv
<1>2. \A d \in Call : calls'[d].at \in Steps => calls'[d].slug \in Slug
  BY <1>1 DEF CallInv
<1>3. \A d \in Call : calls'[d].rows = RowsAt(calls'[d].at)
  BY <1>1 DEF CallInv
<1>4. \A d \in Call : calls'[d].rows # {} => company'[calls'[d].slug].rows = {}
  BY <1>1 DEF CallInv
<1>5. \A d, e \in Call : calls'[d].rows # {} /\ calls'[e].slug = calls'[d].slug /\ calls'[e].rows # {} => d = e
  BY <1>1 DEF CallInv, Holds
<1>6. \A d \in Call : calls'[d].at = "tokens" =>
         company'[calls'[d].slug] = [rows |-> Table, owner |-> d[1]]
  BY <1>1 DEF CallInv
<1> QED BY <1>1, <1>2, <1>3, <1>4, <1>5, <1>6 DEF CallInv, Holds

(* A call ends, its rows rolled back. *)
LEMMA EndsEffect ==
  ASSUME CallInv, NEW c \in Call, Ends(c), UNCHANGED <<company, session>>
  PROVE  CallInv'
<1> DEFINE r == [calls[c] EXCEPT !.at = "ended", !.rows = {}]
<1>1. calls[c] \in CallRecord
  BY DEF CallInv
<1>2. calls' = [calls EXCEPT ![c] = r]
  BY DEF Ends, CallInv
<1>3. r \in CallRecord /\ r.at = "ended" /\ r.rows = {}
  BY <1>1 DEF CallRecord
<1>4. RowsAt("ended") = {} /\ "ended" \notin Steps
  BY DEF RowsAt, Steps, Table
<1> HIDE DEF r
<1> QED BY <1>2, <1>3, <1>4, CallSet

LEMMA SubmitEffect ==
  ASSUME FormInv, CallInv, NEW p \in Person, Submit(p)
  PROVE  /\ CallInv' /\ <<p, tab[p].tries + 1>> \in Call
         /\ \A d \in Call : d # <<p, tab[p].tries + 1>> => calls'[d] = calls[d]
<1> DEFINE c == <<p, tab[p].tries + 1>>
           r == [NoCall EXCEPT !.at = "post", !.slug = tab[p].slug]
<1>1. /\ tab[p] \in Form /\ tab[p].tries < MaxTries[p] /\ MaxTries[p] \in Nat
      /\ tab[p].slug # None
  BY SignupAssumption DEF FormInv, Submit, Parses
<1>2. tab[p].tries \in Nat /\ tab[p].slug \in Slug
  BY <1>1 DEF Form
<1>3. tab[p].tries + 1 \in 1..MaxTries[p]
  BY <1>1, <1>2
<1>4. c \in Call
  BY <1>3 DEF Call
<1>5. calls' = [calls EXCEPT ![c] = r] /\ UNCHANGED <<company, session>>
  BY DEF Submit
<1>6. r \in CallRecord /\ r.at = "post" /\ r.rows = {} /\ r.slug = tab[p].slug
  BY <1>2 DEF NoCall, CallRecord, Steps
<1>7. RowsAt("post") = {}
  BY DEF RowsAt
<1> HIDE DEF c, r
<1>8. CallInv'
  BY <1>2, <1>4, <1>5, <1>6, <1>7, CallSet
<1>9. \A d \in Call : d # c => calls'[d] = calls[d]
  BY <1>5 DEF CallInv
<1> QED BY <1>4, <1>8, <1>9 DEF c

(* A statement of a call that commits nothing. *)
LEMMA MoveEffect ==
  ASSUME CallInv, NEW c \in Call, UNCHANGED <<company, session>>,
         NEW to \in {"lookup", "company", "owner", "audit", "commit"},
         calls[c].at \in Steps,
         \/ to \in {"lookup", "company"} /\ calls[c].rows = {} /\ Goes(c, to)
         \/ \E row \in Table : Writes(c, row, to)
                              /\ <<row, to>> \in {<<"company", "owner">>, <<"owner", "audit">>, <<"audit", "commit">>},
         to = "owner" => /\ company[calls[c].slug].rows = {}
                         /\ \A d \in Call : ~ Holds(d, calls[c].slug)
  PROVE  CallInv'
<1> DEFINE r == [calls[c] EXCEPT !.at = to, !.rows = RowsAt(to)]
<1>1. calls[c] \in CallRecord /\ calls[c].slug \in Slug /\ calls[c].rows = RowsAt(calls[c].at)
  BY DEF CallInv
<1>2. RowsAt(to) \in SUBSET Table /\ to \in Steps /\ to # "tokens"
  BY DEF RowsAt, Table, Steps
<1>3. r \in CallRecord /\ r.at = to /\ r.rows = RowsAt(to) /\ r.slug = calls[c].slug
  BY <1>1, <1>2 DEF CallRecord
<1>4. calls' = [calls EXCEPT ![c] = r]
  <2>1. CASE to \in {"lookup", "company"} /\ calls[c].rows = {} /\ Goes(c, to)
    <3>1. calls' = [calls EXCEPT ![c] = [calls[c] EXCEPT !.at = to]]
      BY <2>1 DEF Goes, CallInv
    <3>2. RowsAt(to) = calls[c].rows
      BY <2>1 DEF RowsAt
    <3>3. [calls[c] EXCEPT !.at = to] = r
      BY <1>1, <3>2 DEF CallRecord
    <3> QED BY <3>1, <3>3
  <2>2. ASSUME NEW row \in Table, Writes(c, row, to),
               <<row, to>> \in {<<"company", "owner">>, <<"owner", "audit">>, <<"audit", "commit">>}
        PROVE  calls' = [calls EXCEPT ![c] = r]
    <3>1. calls[c].rows \cup {row} = RowsAt(to)
      BY <1>1, <2>2 DEF Writes, RowsAt, Table
    <3>2. calls' = [calls EXCEPT ![c] = [calls[c] EXCEPT !.at = to, !.rows = @ \cup {row}]]
      BY <2>2 DEF Writes, CallInv
    <3> QED BY <3>1, <3>2
  <2> QED BY <2>1, <2>2
<1>5. r.rows # {} => /\ company[r.slug].rows = {}
                     /\ \A d \in Call \ {c} : ~ Holds(d, r.slug)
  <2>1. CASE to \in {"lookup", "company"}
    BY <1>3, <2>1 DEF RowsAt
  <2>2. CASE to = "owner"
    BY <1>3, <2>2
  <2>3. CASE to \in {"audit", "commit"}
    <3>1. calls[c].rows # {}
      BY <1>1, <2>3 DEF Writes, RowsAt, Table
    <3> QED BY <1>3, <3>1 DEF CallInv, Holds
  <2> QED BY <2>1, <2>2, <2>3
<1> HIDE DEF r
<1> QED BY <1>1, <1>2, <1>3, <1>4, <1>5, CallSet

(* COMMIT: the company is there, and its caller the only one to have it.   *)
LEMMA CommitEffect ==
  ASSUME CallInv, WholeOrNothing, SessionIsOwn, NEW c \in Call, Commit(c)
  PROVE  /\ CallInv' /\ WholeOrNothing' /\ SessionIsOwn'
         /\ \A s \in Slug : company[s].rows # {} => company'[s] = company[s]
<1> DEFINE slug == calls[c].slug
           row == [rows |-> Table, owner |-> c[1]]
           r == [calls[c] EXCEPT !.at = "tokens", !.rows = {}]
<1>1. /\ calls[c] \in CallRecord /\ slug \in Slug /\ calls[c].rows = Table
      /\ company[slug].rows = {} /\ Table # {} /\ c[1] \in Person
  BY CallIsPair DEF CallInv, Commit, RowsAt, Table, Steps
<1>2. /\ calls' = [calls EXCEPT ![c] = r] /\ company' = [company EXCEPT ![slug] = row]
      /\ UNCHANGED session
  BY <1>1 DEF Commit, Committed, CallInv
<1>3. /\ r \in CallRecord /\ r.at = "tokens" /\ r.rows = {} /\ r.slug = slug
      /\ row \in [rows : SUBSET Table, owner : Person \cup {None}] /\ row.rows = Table
  BY <1>1 DEF CallRecord, Steps
<1> HIDE DEF r
<1>4. /\ calls' \in [Call -> CallRecord] /\ calls'[c] = r
      /\ \A d \in Call \ {c} : calls'[d] = calls[d]
  BY <1>2, <1>3 DEF CallInv
<1>5. /\ company' \in [Slug -> [rows : SUBSET Table, owner : Person \cup {None}]]
      /\ company'[slug] = row /\ \A s \in Slug \ {slug} : company'[s] = company[s]
  BY <1>1, <1>2, <1>3 DEF CallInv
<1> HIDE DEF row
<1>6. \A d \in Call \ {c} : calls[d].rows # {} => calls[d].slug # slug
  BY <1>1 DEF CallInv, Holds
<1>7. \A d \in Call : calls'[d].at \in Steps => calls'[d].slug \in Slug
  BY <1>1, <1>3, <1>4 DEF CallInv
<1>8. \A d \in Call : calls'[d].rows = RowsAt(calls'[d].at)
  BY <1>3, <1>4 DEF CallInv, RowsAt
<1>9. \A d \in Call : calls'[d].rows # {} => company'[calls'[d].slug].rows = {}
  <2>1. \A d \in Call : calls[d].rows # {} => calls[d].slug \in Slug
    BY DEF CallInv, RowsAt, Steps, Table
  <2> QED BY <1>3, <1>4, <1>5, <1>6, <2>1 DEF CallInv
<1>10. \A d, e \in Call : calls'[d].rows # {} /\ calls'[e].slug = calls'[d].slug /\ calls'[e].rows # {} => d = e
  BY <1>3, <1>4 DEF CallInv, Holds
<1>11. \A d \in Call : calls'[d].at = "tokens" =>
          company'[calls'[d].slug] = [rows |-> Table, owner |-> d[1]]
  <2>1. \A d \in Call : calls[d].at = "tokens" =>
           calls[d].slug \in Slug /\ company[calls[d].slug].rows = Table
    <3>1. \A d \in Call : calls[d].at = "tokens" =>
             company[calls[d].slug] = [rows |-> Table, owner |-> d[1]]
      BY DEF CallInv
    <3>2. \A d \in Call : calls[d].at = "tokens" => company[calls[d].slug].rows = Table
      <4> TAKE d \in Call
      <4> HAVE calls[d].at = "tokens"
      <4>1. company[calls[d].slug] = [rows |-> Table, owner |-> d[1]]
        BY <3>1
      <4> QED BY <4>1
    <3>3. "tokens" \in Steps
      BY DEF Steps
    <3> QED BY <3>2, <3>3 DEF CallInv
  <2>2. \A d \in Call \ {c} : calls[d].at = "tokens" => calls[d].slug # slug
    BY <1>1, <2>1
  <2>3. \A d \in Call \ {c} : calls'[d].at = "tokens" =>
          company'[calls'[d].slug] = [rows |-> Table, owner |-> d[1]]
    BY <1>4, <1>5, <2>1, <2>2 DEF CallInv
  <2> QED BY <1>3, <1>4, <1>5, <2>3 DEF row
<1>12. CallInv'
  <2>1. session' \in [Person -> Slug \cup {None}]
    BY <1>2 DEF CallInv
  <2> QED BY <1>4, <1>5, <1>7, <1>8, <1>9, <1>10, <1>11, <2>1 DEF CallInv, Holds
<1>13. \A s \in Slug : company[s].rows # {} => company'[s] = company[s]
  BY <1>1, <1>5
<1>14. WholeOrNothing'
  BY <1>3, <1>5 DEF WholeOrNothing
<1>15. SessionIsOwn'
  <2>1. \A p \in Person : session[p] # None =>
           session[p] \in Slug /\ company[session[p]].rows # {}
    <3>1. \A p \in Person : session[p] # None =>
             company[session[p]] = [rows |-> Table, owner |-> p]
      BY DEF SessionIsOwn
    <3>2. \A p \in Person : session[p] # None => company[session[p]].rows = Table
      <4> TAKE p \in Person
      <4> HAVE session[p] # None
      <4>1. company[session[p]] = [rows |-> Table, owner |-> p]
        BY <3>1
      <4> QED BY <4>1
    <3> QED BY <1>1, <3>2 DEF CallInv
  <2> QED BY <1>2, <1>13, <2>1 DEF SessionIsOwn
<1> QED BY <1>12, <1>13, <1>14, <1>15

LEMMA CallStep ==
  ASSUME FormInv, CallInv, WholeOrNothing, SessionIsOwn, [Next]_vars
  PROVE  /\ CallInv' /\ WholeOrNothing' /\ SessionIsOwn'
         /\ \A s \in Slug : company[s].rows # {} => company'[s] = company[s]
<1>1. CASE UNCHANGED <<calls, company, session>>
  BY <1>1 DEF CallInv, Holds, WholeOrNothing, SessionIsOwn
<1>2. CASE CallInv' /\ UNCHANGED <<company, session>>
  BY <1>2 DEF WholeOrNothing, SessionIsOwn
<1>3. ASSUME NEW p \in Person, Submit(p) PROVE CallInv' /\ UNCHANGED <<company, session>>
  BY <1>3, SubmitEffect DEF Submit
<1>4. ASSUME NEW c \in Call, NEW code \in Code, Refuse(c, code)
      PROVE  CallInv' /\ UNCHANGED <<company, session>>
  BY <1>4, EndsEffect DEF Refuse
<1>5. ASSUME NEW c \in Call, Post(c) \/ LookUp(c) \/ InsertCompany(c) \/ InsertOwner(c)
      PROVE  CallInv' /\ UNCHANGED <<company, session>>
  <2>1. CASE \E code \in Code : Refuse(c, code)
    BY <1>4, <2>1
  <2>2. CASE ~ \E code \in Code : Refuse(c, code)
    <3>1. calls[c].rows = RowsAt(calls[c].at)
      BY DEF CallInv
    <3>2. "UNKNOWN" \in Code /\ "SLUG_TAKEN" \in Code
      BY DEF Code
    <3>3. CASE Post(c)
      <4>1. calls[c].at = "post" /\ Goes(c, "lookup") /\ UNCHANGED <<company, session>>
        BY <2>2, <3>2, <3>3 DEF Post
      <4> QED BY <3>1, <4>1, MoveEffect DEF RowsAt, Steps
    <3>4. CASE LookUp(c)
      <4>1. calls[c].at = "lookup" /\ Goes(c, "company") /\ UNCHANGED <<company, session>>
        BY <2>2, <3>2, <3>4 DEF LookUp
      <4> QED BY <3>1, <4>1, MoveEffect DEF RowsAt, Steps
    <3>5. CASE InsertCompany(c)
      <4>1. /\ calls[c].at = "company" /\ company[calls[c].slug].rows = {}
            /\ \A d \in Call : ~ Holds(d, calls[c].slug)
            /\ Writes(c, "company", "owner")
        BY <2>2, <3>2, <3>5 DEF InsertCompany
      <4>2. UNCHANGED <<company, session>> /\ calls[c].at \in Steps /\ "company" \in Table
        BY <4>1 DEF Writes, Steps, Table
      <4> QED BY <4>1, <4>2, MoveEffect
    <3>6. CASE InsertOwner(c)
      <4>1. PICK row \in {"owner", "audit"} :
               Writes(c, row, IF row = "owner" THEN "audit" ELSE "commit")
        BY <3>6 DEF InsertOwner
      <4>2. UNCHANGED <<company, session>> /\ calls[c].at \in Steps /\ row \in Table
        BY <4>1 DEF Writes, Steps, Table
      <4> QED BY <4>1, <4>2, MoveEffect
    <3> QED BY <1>5, <3>3, <3>4, <3>5, <3>6
  <2> QED BY <2>1, <2>2
<1>6. ASSUME NEW c \in Call, Commit(c)
      PROVE  /\ CallInv' /\ WholeOrNothing' /\ SessionIsOwn'
             /\ \A s \in Slug : company[s].rows # {} => company'[s] = company[s]
  BY <1>6, CommitEffect
<1>7. ASSUME NEW c \in Call, Issue(c)
      PROVE  /\ CallInv' /\ WholeOrNothing' /\ SessionIsOwn' /\ UNCHANGED company
  <2>1. CASE Refuse(c, "UNKNOWN")
    BY <1>2, <1>4, <2>1 DEF Code, WholeOrNothing, SessionIsOwn
  <2>2. CASE Ends(c) /\ UNCHANGED <<company, session>>
    BY <2>2, EndsEffect DEF WholeOrNothing, SessionIsOwn
  <2>3. CASE Ends(c) /\ session' = [session EXCEPT ![c[1]] = calls[c].slug] /\ UNCHANGED company
    <3>1. calls[c].at = "tokens" /\ calls[c].slug \in Slug /\ c[1] \in Person
      BY <1>7, CallIsPair DEF Issue, CallInv, Steps
    <3>2. session' \in [Person -> Slug \cup {None}] /\ session'[c[1]] = calls[c].slug
          /\ \A p \in Person \ {c[1]} : session'[p] = session[p]
      BY <2>3, <3>1 DEF CallInv
    <3>3. SessionIsOwn'
      BY <2>3, <3>1, <3>2 DEF SessionIsOwn, CallInv
    <3>4. CallInv'
      <4> DEFINE r == [calls[c] EXCEPT !.at = "ended", !.rows = {}]
      <4>1. calls' = [calls EXCEPT ![c] = r] /\ calls[c] \in CallRecord
        BY <2>3 DEF Ends, CallInv
      <4>2. r \in CallRecord /\ r.at = "ended" /\ r.rows = {}
        BY <4>1 DEF CallRecord
      <4>3. RowsAt("ended") = {} /\ "ended" \notin Steps /\ "ended" # "tokens"
        BY DEF RowsAt, Steps, Table
      <4> HIDE DEF r
      <4>4. /\ calls' \in [Call -> CallRecord] /\ calls'[c] = r
            /\ \A d \in Call \ {c} : calls'[d] = calls[d]
        BY <4>1, <4>2 DEF CallInv
      <4>5. \A d \in Call : calls'[d].at \in Steps => calls'[d].slug \in Slug
        BY <4>2, <4>3, <4>4 DEF CallInv
      <4>6. \A d \in Call : calls'[d].rows = RowsAt(calls'[d].at)
        BY <4>2, <4>3, <4>4 DEF CallInv
      <4>7. \A d \in Call : calls'[d].rows # {} => company'[calls'[d].slug].rows = {}
        BY <2>3, <4>2, <4>4 DEF CallInv
      <4>8. \A d, e \in Call : calls'[d].rows # {} /\ calls'[e].slug = calls'[d].slug /\ calls'[e].rows # {} => d = e
        BY <4>2, <4>4 DEF CallInv, Holds
      <4>9. \A d \in Call : calls'[d].at = "tokens" =>
               company'[calls'[d].slug] = [rows |-> Table, owner |-> d[1]]
        BY <2>3, <4>2, <4>3, <4>4 DEF CallInv
      <4>10. company' \in [Slug -> [rows : SUBSET Table, owner : Person \cup {None}]]
        BY <2>3 DEF CallInv
      <4> QED BY <3>2, <4>4, <4>5, <4>6, <4>7, <4>8, <4>9, <4>10 DEF CallInv, Holds
    <3> QED BY <2>3, <3>3, <3>4 DEF WholeOrNothing
  <2> QED BY <1>7, <2>1, <2>2, <2>3 DEF Issue
<1>8. ASSUME NEW c \in Call, Throw(c) \/ Lost(c) PROVE CallInv' /\ UNCHANGED <<company, session>>
  BY <1>4, <1>8 DEF Throw, Lost, Code
<1>9. \/ UNCHANGED <<calls, company, session>>
      \/ \E p \in Person : Submit(p)
      \/ \E c \in Call : Serving(c) \/ Throw(c) \/ Lost(c)
  BY DEF Next, vars, TypeName, TypeSlug, TimeOut, Back, Probing, Debounce, CheckSlug, ShowAnswer
<1> QED BY <1>1, <1>2, <1>3, <1>5, <1>6, <1>7, <1>8, <1>9 DEF Serving

-----------------------------------------------------------------------------
(* What the form says of the slug.                                         *)

(* The slug of a call is the one it was submitted with. *)
LEMMA SlugStays ==
  ASSUME FormInv, CallInv, [Next]_vars, NEW c \in Call,
         ~ \E p \in Person : Submit(p) /\ c = <<p, tab[p].tries + 1>>
  PROVE  calls'[c].slug = calls[c].slug
<1>1. calls \in [Call -> CallRecord]
  BY DEF CallInv
<1>2. CASE UNCHANGED calls
  BY <1>2
<1>3. ASSUME NEW p \in Person, Submit(p) PROVE calls'[c].slug = calls[c].slug
  BY <1>3, SubmitEffect
<1>4. ASSUME NEW d \in Call, NEW at, NEW rows,
             calls' = [calls EXCEPT ![d].at = at, ![d].rows = rows]
      PROVE  calls'[c].slug = calls[c].slug
  BY <1>1, <1>4 DEF CallRecord
<1>5. ASSUME NEW d \in Call, NEW at, calls' = [calls EXCEPT ![d].at = at]
      PROVE  calls'[c].slug = calls[c].slug
  BY <1>1, <1>5 DEF CallRecord
<1>6. ASSUME NEW d \in Call, NEW at, NEW row,
             calls' = [calls EXCEPT ![d].at = at, ![d].rows = @ \cup {row}]
      PROVE  calls'[c].slug = calls[c].slug
  BY <1>1, <1>6 DEF CallRecord
<1>7. ASSUME NEW d \in Call, Ends(d) PROVE calls'[c].slug = calls[c].slug
  BY <1>4, <1>7 DEF Ends
<1>8. ASSUME NEW d \in Call, Serving(d) \/ Throw(d) \/ Lost(d)
      PROVE  calls'[c].slug = calls[c].slug
  <2>1. CASE Ends(d) \/ Commit(d)
    BY <1>4, <1>7, <2>1 DEF Commit
  <2>2. CASE ~ (Ends(d) \/ Commit(d))
    <3>1. (\E at : Goes(d, at)) \/ (\E row, at : Writes(d, row, at))
      BY <1>8, <2>2 DEF Serving, Throw, Lost, Refuse, Post, LookUp, InsertCompany, InsertOwner, Issue
    <3> QED BY <1>5, <1>6, <3>1 DEF Goes, Writes
  <2> QED BY <2>1, <2>2
<1> QED BY <1>2, <1>3, <1>8
        DEF Next, vars, TypeName, TypeSlug, TimeOut, Back, Probing, Debounce, CheckSlug, ShowAnswer

(* A form comes to say that a slug is taken only by an answer to its last  *)
(* submission.                                                             *)
LEMMA ErrorComes ==
  ASSUME FormInv, CallInv, [Next]_vars, NEW p \in Person, tab'[p].error = "SLUG_TAKEN"
  PROVE  /\ tab'[p].tries = tab[p].tries
         /\ ~ Submit(p)
         /\ \/ tab[p].error = "SLUG_TAKEN"
            \/ \E c \in Call : /\ c = <<p, tab[p].tries>> /\ calls[c].at \in {"lookup", "company"}
                               /\ company[calls[c].slug].rows # {}
<1>1. tab \in [Person -> Form] /\ tab[p] \in Form
  BY DEF FormInv
<1>2. ~ Submit(p)
  <2> SUFFICES ASSUME Submit(p) PROVE FALSE
    OBVIOUS
  <2>1. tab'[p].error = None
    BY <1>1 DEF Submit, Form
  <2> QED BY <2>1, SignupAssumption DEF Code
<1> SUFFICES /\ tab'[p].tries = tab[p].tries
             /\ \/ tab[p].error = "SLUG_TAKEN"
                \/ \E c \in Call : /\ c = <<p, tab[p].tries>> /\ calls[c].at \in {"lookup", "company"}
                                   /\ company[calls[c].slug].rows # {}
  BY <1>2
<1>3. CASE UNCHANGED tab
  BY <1>3
<1>4. ASSUME NEW r \in Person, NEW f, tab' = [tab EXCEPT ![r] = f],
             r # p \/ (f.error = tab[r].error /\ f.tries = tab[r].tries)
      PROVE  tab'[p].tries = tab[p].tries /\ tab[p].error = "SLUG_TAKEN"
  BY <1>1, <1>4
<1>5. ASSUME NEW r \in Person, NEW form \in Form, NEW slug,
             form.error = tab[r].error, form.tries = tab[r].tries, Slugged(r, form, slug)
      PROVE  tab'[p].tries = tab[p].tries /\ tab[p].error = "SLUG_TAKEN"
  <2> DEFINE cleared == [form EXCEPT !.slug = None, !.status = "idle", !.about = None]
             typed == [form EXCEPT !.slug = slug, !.status = "checking", !.about = None, !.token = @ + 1]
  <2>1. PICK f \in {form, cleared, typed} : tab' = [tab EXCEPT ![r] = f]
    BY <1>5 DEF Slugged
  <2>2. f.error = tab[r].error /\ f.tries = tab[r].tries
    BY <1>5 DEF Form
  <2> QED BY <1>4, <2>1, <2>2
<1>6. ASSUME NEW r \in Person, NEW name \in Name, TypeName(r, name)
      PROVE  tab'[p].tries = tab[p].tries /\ tab[p].error = "SLUG_TAKEN"
  <2> DEFINE form == [tab[r] EXCEPT !.name = name, !.edits = @ + 1]
  <2>1. tab[r] \in Form /\ tab[r].edits + 1 \in Nat
    BY <1>1 DEF Form
  <2>2. form \in Form /\ form.error = tab[r].error /\ form.tries = tab[r].tries
    BY <2>1 DEF Form
  <2>3. \E slug : Slugged(r, form, slug)
    BY <1>6 DEF TypeName
  <2> HIDE DEF form
  <2> QED BY <1>5, <2>2, <2>3
<1>7. ASSUME NEW r \in Person, NEW slug \in Slug \cup {None}, TypeSlug(r, slug)
      PROVE  tab'[p].tries = tab[p].tries /\ tab[p].error = "SLUG_TAKEN"
  <2> DEFINE form == [tab[r] EXCEPT !.touched = TRUE, !.edits = @ + 1]
  <2>1. tab[r] \in Form /\ tab[r].edits + 1 \in Nat
    BY <1>1 DEF Form
  <2>2. form \in Form /\ form.error = tab[r].error /\ form.tries = tab[r].tries
    BY <2>1 DEF Form
  <2>3. Slugged(r, form, slug)
    BY <1>7 DEF TypeSlug
  <2> HIDE DEF form
  <2> QED BY <1>5, <2>2, <2>3
<1>8. ASSUME NEW r \in Person, Submit(r)
      PROVE  tab'[p].tries = tab[p].tries /\ tab[p].error = "SLUG_TAKEN"
  <2>1. r # p
    BY <1>2, <1>8
  <2>2. \E f : tab' = [tab EXCEPT ![r] = f]
    BY <1>1, <1>8 DEF Submit
  <2> QED BY <1>4, <2>1, <2>2
<1>9. ASSUME NEW r \in Person, NEW code \in Code, tab' = [tab EXCEPT ![r] = Fails(@, code)]
      PROVE  /\ tab'[p].tries = tab[p].tries
             /\ tab[p].error = "SLUG_TAKEN" \/ (r = p /\ code = "SLUG_TAKEN")
  <2>1. CASE r # p
    BY <1>4, <1>9, <2>1
  <2>2. CASE r = p
    <3>1. tab'[p] = Fails(tab[p], code)
      BY <1>1, <1>9, <2>2
    <3>2. tab'[p].tries = tab[p].tries /\ tab'[p].error = code
      BY <1>1, <3>1 DEF Fails, Form
    <3> QED BY <2>2, <3>2
  <2> QED BY <2>1, <2>2
<1>10. ASSUME NEW r \in Person, TimeOut(r)
       PROVE  tab'[p].tries = tab[p].tries /\ tab[p].error = "SLUG_TAKEN"
  <2>1. "NETWORK" \in Code /\ tab' = [tab EXCEPT ![r] = Fails(@, "NETWORK")]
    BY <1>10 DEF TimeOut, Code
  <2> QED BY <1>9, <2>1
<1>11. ASSUME NEW r \in Person, Back(r)
       PROVE  tab'[p].tries = tab[p].tries /\ tab[p].error = "SLUG_TAKEN"
  <2> DEFINE f == [tab[r] EXCEPT !.page = "form"]
  <2>1. tab' = [tab EXCEPT ![r] = f]
    BY <1>1, <1>11 DEF Back
  <2>2. f.error = tab[r].error /\ f.tries = tab[r].tries
    BY <1>1 DEF Form
  <2> QED BY <1>4, <2>1, <2>2
<1>12. ASSUME NEW q \in probes, ShowAnswer(q), ~ UNCHANGED tab
       PROVE  tab'[p].tries = tab[p].tries /\ tab[p].error = "SLUG_TAKEN"
  <2> DEFINE f == [tab[q.by] EXCEPT !.status = q.at, !.about = q.slug]
  <2>1. q.by \in Person
    BY DEF FormInv, ProbeOK, Probe
  <2>2. tab' = [tab EXCEPT ![q.by] = f]
    BY <1>1, <1>12, <2>1 DEF ShowAnswer
  <2>3. f.error = tab[q.by].error /\ f.tries = tab[q.by].tries
    BY <1>1, <2>1 DEF Form
  <2> QED BY <1>4, <2>1, <2>2, <2>3
<1>13. ASSUME NEW c \in Call, Leaves(c[1])
       PROVE  tab'[p].tries = tab[p].tries /\ tab[p].error = "SLUG_TAKEN"
  <2> DEFINE f == [Blank EXCEPT !.edits = MaxEdits[c[1]], !.tries = tab[c[1]].tries,
                                !.token = tab[c[1]].token, !.page = "welcome"]
  <2>1. tab' = [tab EXCEPT ![c[1]] = f] /\ c[1] \in Person
    BY <1>13, CallIsPair DEF Leaves
  <2>2. f.error = None
    BY DEF Blank
  <2> HIDE DEF f
  <2>3. c[1] # p
    BY <1>1, <2>1, <2>2, SignupAssumption DEF Code
  <2> QED BY <1>4, <2>1, <2>3
<1>14. ASSUME NEW c \in Call, NEW code \in Code, Refuse(c, code)
       PROVE  /\ tab'[p].tries = tab[p].tries
              /\ tab[p].error = "SLUG_TAKEN" \/ (c = <<p, tab[p].tries>> /\ code = "SLUG_TAKEN")
  <2>1. CASE UNCHANGED tab
    BY <2>1
  <2>2. CASE Waited(c) /\ tab' = [tab EXCEPT ![c[1]] = Fails(@, code)]
    BY <1>9, <2>2, CallIsPair DEF Waited
  <2> QED BY <1>14, <2>1, <2>2 DEF Refuse
<1>15. ASSUME NEW c \in Call, Serving(c) \/ Throw(c) \/ Lost(c)
       PROVE  \/ UNCHANGED tab \/ Leaves(c[1])
              \/ Refuse(c, "UNKNOWN") \/ Refuse(c, "NETWORK")
              \/ /\ Refuse(c, "SLUG_TAKEN") /\ calls[c].at \in {"lookup", "company"}
                 /\ company[calls[c].slug].rows # {}
  BY <1>15 DEF Serving, Throw, Lost, Post, LookUp, InsertCompany, InsertOwner, Writes, Commit, Issue
<1>16. {"UNKNOWN", "NETWORK", "SLUG_TAKEN"} \subseteq Code
  BY DEF Code
<1>17. ASSUME NEW c \in Call, Serving(c) \/ Throw(c) \/ Lost(c)
       PROVE  /\ tab'[p].tries = tab[p].tries
              /\ \/ tab[p].error = "SLUG_TAKEN"
                 \/ \E d \in Call : /\ d = <<p, tab[p].tries>> /\ calls[d].at \in {"lookup", "company"}
                                    /\ company[calls[d].slug].rows # {}
  <2>1. CASE Refuse(c, "UNKNOWN") \/ Refuse(c, "NETWORK")
    BY <1>14, <1>16, <2>1
  <2>2. CASE /\ Refuse(c, "SLUG_TAKEN") /\ calls[c].at \in {"lookup", "company"}
             /\ company[calls[c].slug].rows # {}
    BY <1>14, <1>16, <2>2
  <2> QED BY <1>3, <1>13, <1>15, <1>17, <2>1, <2>2
<1> QED BY <1>3, <1>6, <1>7, <1>8, <1>10, <1>11, <1>12, <1>17
        DEF Next, vars, Probing, Debounce, CheckSlug

LEMMA TakenStep ==
  ASSUME FormInv, CallInv, WholeOrNothing, SessionIsOwn, TakenInv, [Next]_vars
  PROVE  TakenInv'
<1> SUFFICES ASSUME NEW p \in Person, tab'[p].error = "SLUG_TAKEN"
             PROVE  LET c == <<p, tab'[p].tries>>
                    IN  c \in Call /\ calls'[c].slug \in Slug /\ company'[calls'[c].slug].rows # {}
  BY DEF TakenInv
<1> DEFINE c == <<p, tab[p].tries>>
<1>1. tab'[p].tries = tab[p].tries /\ ~ Submit(p)
  BY ErrorComes
<1>2. c \in Call /\ calls[c].slug \in Slug /\ company[calls[c].slug].rows # {}
  <2>1. CASE tab[p].error = "SLUG_TAKEN"
    BY <2>1 DEF TakenInv
  <2>2. CASE /\ c \in Call /\ calls[c].at \in {"lookup", "company"}
             /\ company[calls[c].slug].rows # {}
    <3>1. "lookup" \in Steps /\ "company" \in Steps
      BY DEF Steps, Table
    <3> QED BY <2>2, <3>1 DEF CallInv
  <2> QED BY <2>1, <2>2, ErrorComes
<1>3. calls'[c].slug = calls[c].slug
  BY <1>1, <1>2, SlugStays
<1>4. company'[calls[c].slug] = company[calls[c].slug]
  BY <1>2, CallStep
<1> QED BY <1>1, <1>2, <1>3, <1>4

-----------------------------------------------------------------------------
LEMMA SignupInvariant == Spec => []SignupInv
<1>1. Init => SignupInv
  <2> SUFFICES ASSUME Init PROVE SignupInv
    OBVIOUS
  <2>1. Blank \in Form
    BY DEF Blank, Form
  <2>2. tab \in [Person -> Form] /\ \A p \in Person : tab[p] = Blank
    BY <2>1 DEF Init
  <2>3. \A p \in Person : FormOK(p)
    BY <2>1, <2>2, SignupAssumption DEF FormOK, Blank
  <2>4. FormInv
    BY <2>2, <2>3 DEF Init, FormInv, OneTimer
  <2>5. NoCall \in CallRecord /\ RowsAt("none") = {} /\ "none" \notin Steps
    BY DEF NoCall, CallRecord, RowsAt, Steps, Table
  <2>6. calls \in [Call -> CallRecord] /\ \A c \in Call : calls[c] = NoCall
    BY <2>5 DEF Init
  <2>7. /\ company \in [Slug -> [rows : SUBSET Table, owner : Person \cup {None}]]
        /\ session \in [Person -> Slug \cup {None}]
    BY DEF Init
  <2>8. CallInv
    <3>1. NoCall.at = "none" /\ NoCall.rows = {} /\ "none" # "tokens"
      BY DEF NoCall
    <3> QED BY <2>5, <2>6, <2>7, <3>1 DEF CallInv, Holds
  <2>9. SessionIsOwn /\ WholeOrNothing
    BY DEF Init, SessionIsOwn, WholeOrNothing
  <2>10. TakenInv
    BY <2>2, SignupAssumption DEF TakenInv, Blank, Code
  <2> QED BY <2>4, <2>8, <2>9, <2>10 DEF SignupInv
<1>2. SignupInv /\ [Next]_vars => SignupInv'
  BY FormStep, CallStep, TakenStep DEF SignupInv
<1> QED BY <1>1, <1>2, PTL DEF Spec

(* Types, for any number of visitors, slugs, edits and submissions; a form *)
(* has at most one timer running.                                          *)
THEOREM TypeCorrect == Spec => []TypeOK
<1>1. SignupInv => TypeOK
  <2> SUFFICES ASSUME FormInv, CallInv PROVE TypeOK
    BY DEF SignupInv
  <2>1. DOMAIN tab = Person
    BY DEF FormInv
  <2>2. ASSUME NEW p \in Person
        PROVE  tab[p] \in
                [name : Name \cup {None}, slug : Slug \cup {None}, touched : BOOLEAN,
                 status : {"idle", "checking"} \cup Answer, about : Slug \cup {None},
                 token : 0..MaxEdits[p], edits : 0..MaxEdits[p], tries : 0..MaxTries[p],
                 busy : BOOLEAN, error : Code \cup {None}, page : {"form", "welcome"}]
    <3>1. FormOK(p) /\ tab[p] \in Form /\ MaxEdits[p] \in Nat /\ MaxTries[p] \in Nat
      BY SignupAssumption DEF FormInv
    <3>2. tab[p].token \in Nat /\ tab[p].edits \in Nat /\ tab[p].tries \in Nat
      BY <3>1 DEF Form
    <3>3. /\ tab[p].token \in 0..MaxEdits[p] /\ tab[p].edits \in 0..MaxEdits[p]
          /\ tab[p].tries \in 0..MaxTries[p]
      BY <3>1, <3>2 DEF FormOK
    <3> QED BY <3>1, <3>3 DEF Form
  <2>3. \A q \in probes :
           /\ q \in [by : Person, slug : Slug, token : Nat, at : {"timer", "sent"} \cup Answer]
           /\ q.token <= tab[q.by].token
    BY DEF FormInv, ProbeOK, Probe
  <2>4. ASSUME NEW p \in Person
        PROVE  Cardinality({q \in probes : q.by = p /\ q.at = "timer"}) <= 1
    <3> DEFINE T == {q \in probes : q.by = p /\ q.at = "timer"}
    <3>1. CASE T = {}
      BY <3>1, FS_EmptySet
    <3>2. CASE T # {}
      <4>1. PICK q \in T : TRUE
        BY <3>2
      <4>2. T = {q}
        BY <4>1 DEF FormInv, OneTimer
      <4> HIDE DEF T
      <4>3. Cardinality(T) = 1
        BY <4>2, FS_Singleton
      <4> QED BY <4>3 DEF T
    <3> QED BY <3>1, <3>2
  <2> QED BY <2>1, <2>2, <2>3, <2>4 DEF TypeOK, CallInv, CallRecord
<1> QED BY <1>1, SignupInvariant, PTL

(* The badge is about the slug in the field in whatever order the probes   *)
(* are answered: a token is never used for two slugs.                      *)
THEOREM BadgeTells == Spec => []BadgeIsOfSlug
<1>1. SignupInv => BadgeIsOfSlug
  BY DEF SignupInv, FormInv, FormOK, BadgeIsOfSlug
<1> QED BY <1>1, SignupInvariant, PTL

(* A company never exists without its owner, and whoever is signed in by a *)
(* sign-up owns the company of the session.                                *)
THEOREM SignUpIsAtomic == Spec => [](WholeOrNothing /\ SessionIsOwn)
<1>1. SignupInv => WholeOrNothing /\ SessionIsOwn
  BY DEF SignupInv
<1> QED BY <1>1, SignupInvariant, PTL

(* Whoever is told that the slug is taken is told so of a company that is  *)
(* there.                                                                  *)
THEOREM TakenMeansTaken == Spec => []TakenIsTrue
<1>1. SignupInv => TakenIsTrue
  BY DEF SignupInv, TakenInv, TakenIsTrue
<1> QED BY <1>1, SignupInvariant, PTL

(* The first sign-up to commit has the slug for good, although the look-up *)
(* of the others may have come before.                                     *)
THEOREM FirstHasTheSlug == Spec => ClaimedOnce
<1>1. SignupInv /\ [Next]_vars => [\A s \in Slug : company[s].rows # {} => company'[s] = company[s]]_vars
  BY CallStep DEF SignupInv
<1> QED BY <1>1, SignupInvariant, PTL DEF Spec, ClaimedOnce
=============================================================================
