------------------------------- MODULE Signup -------------------------------
(***************************************************************************)
(* Self sign-up: SignupForm in the browser with its debounced probe of the *)
(* slug, signupAction and checkSlugAction on the web server, the rate      *)
(* limit, and AuthService.signup and checkSlugAvailability.                *)
(*                                                                         *)
(* A slug stands for its text: Kind says what validateSlug and the column  *)
(* make of it.  Every answer may be late, and the answers of probes may    *)
(* overtake each other.                                                    *)
(***************************************************************************)
EXTENDS Integers, FiniteSets

CONSTANTS
    Person,       \* visitors of /signup, each in a tab
    Slug,
    Kind,         \* [Slug -> "fine", "long" (33 to 64 characters), or an error of validateSlug]
    Name,         \* company names
    Suggested,    \* [Name -> Slug or None]: normalizeSlug, empty for a Thai name
    Founded,      \* the slugs of companies that exist at first
    MaxEdits,     \* bound: [Person -> edits of the two fields]
    MaxTries,     \* bound: [Person -> submissions]
    None

Misshapen == {"too_short", "too_long", "invalid_chars", "reserved"}

Malformed == Misshapen \ {"reserved"}

(* The errors the form knows. *)
Code == {"VALIDATION", "INVALID_SLUG", "SLUG_TAKEN", "NETWORK", "UNKNOWN"}

ASSUME SignupAssumption ==
    /\ Kind \in [Slug -> {"fine", "long"} \cup Misshapen]
    /\ Suggested \in [Name -> Slug \cup {None}]
    /\ Founded \subseteq Slug /\ None \notin Slug \cup Name \cup Person \cup Code
    /\ MaxEdits \in [Person -> Nat] /\ MaxTries \in [Person -> Nat]

VARIABLES
    tab,      \* [Person -> the state of SignupForm]
    probes,   \* the probes of slugs under way
    calls,    \* [Call -> the POST /auth/signup of a submission]
    company,  \* [Slug -> its committed rows and its owner]
    session   \* [Person -> the company of the cookies]

vars == <<tab, probes, calls, company, session>>

Call == UNION {{p} \X (1..MaxTries[p]) : p \in Person}

(* What a sign-up writes, in this order: the owner is a user and its role. *)
Table == {"company", "owner", "audit"}

Reason == Misshapen \cup {"taken"}

Answer == {"available"} \cup Reason

Blank == [name |-> None, slug |-> None, touched |-> FALSE, status |-> "idle",
          about |-> None, token |-> 0, edits |-> 0, tries |-> 0, busy |-> FALSE, error |-> None,
          page |-> "form"]

NoCall == [at |-> "none", slug |-> None, rows |-> {}]

Steps == {"post", "lookup"} \cup Table \cup {"commit", "tokens"}

TypeOK ==
    /\ DOMAIN tab = Person
    /\ \A p \in Person : tab[p] \in
          [name : Name \cup {None}, slug : Slug \cup {None}, touched : BOOLEAN,
           status : {"idle", "checking"} \cup Answer, about : Slug \cup {None}, token : 0..MaxEdits[p],
           edits : 0..MaxEdits[p], tries : 0..MaxTries[p], busy : BOOLEAN, error : Code \cup {None},
           page : {"form", "welcome"}]
    /\ \A q \in probes :
          /\ q \in [by : Person, slug : Slug, token : Nat, at : {"timer", "sent"} \cup Answer]
          /\ q.token <= tab[q.by].token
    /\ \A p \in Person : Cardinality({q \in probes : q.by = p /\ q.at = "timer"}) <= 1
    /\ calls \in [Call -> [at : Steps \cup {"none", "ended"}, slug : Slug \cup {None}, rows : SUBSET Table]]
    /\ company \in [Slug -> [rows : SUBSET Table, owner : Person \cup {None}]]
    /\ session \in [Person -> Slug \cup {None}]

Init ==
    /\ tab = [p \in Person |-> Blank]
    /\ probes = {}
    /\ calls = [c \in Call |-> NoCall]
    /\ company = [s \in Slug |-> [rows |-> IF s \in Founded THEN Table ELSE {}, owner |-> None]]
    /\ session = [p \in Person |-> None]

-----------------------------------------------------------------------------
(* SignupForm.                                                             *)

Editable(p) == tab[p].page = "form" /\ ~ tab[p].busy /\ tab[p].edits < MaxEdits[p]

(* The effect of the slug: the timer of the last one is cleared; an empty  *)
(* field is idle, and its probe under way keeps its token.                 *)
Slugged(p, form, slug) ==
    IF slug = form.slug
    THEN tab' = [tab EXCEPT ![p] = form] /\ UNCHANGED probes
    ELSE LET others == {q \in probes : q.by # p \/ q.at # "timer"}
         IN  IF slug = None
             THEN /\ tab' = [tab EXCEPT ![p] = [form EXCEPT !.slug = None, !.status = "idle", !.about = None]]
                  /\ probes' = others
             ELSE /\ tab' = [tab EXCEPT ![p] = [form EXCEPT !.slug = slug, !.status = "checking",
                                                            !.about = None, !.token = @ + 1]]
                  /\ probes' = others \cup {[by |-> p, slug |-> slug, token |-> form.token + 1, at |-> "timer"]}

(* The name suggests a slug until the slug is typed by hand; a name that   *)
(* suggests none leaves the last one.                                      *)
TypeName(p, name) ==
    LET form == [tab[p] EXCEPT !.name = name, !.edits = @ + 1]
    IN  /\ Editable(p) /\ name # tab[p].name
        /\ Slugged(p, form, IF form.touched \/ Suggested[name] = None THEN form.slug ELSE Suggested[name])
        /\ UNCHANGED <<calls, company, session>>

TypeSlug(p, slug) ==
    /\ Editable(p) /\ slug # tab[p].slug
    /\ Slugged(p, [tab[p] EXCEPT !.touched = TRUE, !.edits = @ + 1], slug)
    /\ UNCHANGED <<calls, company, session>>

Unavailable(status) == status \in Reason

(* zodResolver and, again, signupAction: slugSchema knows no reserved word. *)
(* E-mail, password, display name and the terms are there when one submits. *)
Parses(form) ==
    form.name # None /\ form.slug # None /\ Kind[form.slug] \notin Malformed

(* The button is disabled while the slug is known not to be available. *)
Submit(p) ==
    LET c == <<p, tab[p].tries + 1>>
    IN  /\ tab[p].page = "form" /\ ~ tab[p].busy /\ tab[p].tries < MaxTries[p]
        /\ ~ Unavailable(tab[p].status) /\ Parses(tab[p])
        /\ tab' = [tab EXCEPT ![p].busy = TRUE, ![p].error = None, ![p].tries = @ + 1]
        /\ calls' = [calls EXCEPT ![c] = [NoCall EXCEPT !.at = "post", !.slug = tab[p].slug]]
        /\ UNCHANGED <<probes, company, session>>

-----------------------------------------------------------------------------
(* The probe of the slug: 500 ms after the last edit.                      *)

Moves(q, at) == probes' = (probes \ {q}) \cup {[q EXCEPT !.at = at]}

Debounce(q) ==
    /\ q.at = "timer"
    /\ Moves(q, "sent")
    /\ UNCHANGED <<tab, calls, company, session>>

(* checkSlugAvailability: the shape first, then the committed companies.   *)
Availability(slug) ==
    IF Kind[slug] \in Misshapen THEN Kind[slug]
    ELSE IF company[slug].rows # {} THEN "taken" ELSE "available"

(* A mutant: an error of the API is not caught, and nothing comes back. *)
CheckSlugThrowing(q) ==
    /\ q.at = "sent"
    /\ \/ Moves(q, Availability(q.slug)) \/ probes' = probes \ {q}
    /\ UNCHANGED <<tab, calls, company, session>>

(* checkSlugAction: what the API says, or "available" when it cannot be    *)
(* asked: no connection, ten seconds, the rate limit.                      *)
CheckSlug(q) ==
    /\ q.at = "sent"
    /\ \/ Moves(q, Availability(q.slug)) \/ Moves(q, "available")
    /\ UNCHANGED <<tab, calls, company, session>>

(* A mutant: no token guards the answer. *)
ShowAnyAnswer(q) ==
    /\ q.at \in Answer
    /\ probes' = probes \ {q}
    /\ tab' = [tab EXCEPT ![q.by].status = q.at, ![q.by].about = q.slug]
    /\ UNCHANGED <<calls, company, session>>

(* Only the answer to the last probe is shown. *)
ShowAnswer(q) ==
    /\ q.at \in Answer
    /\ probes' = probes \ {q}
    /\ IF tab[q.by].token = q.token
       THEN tab' = [tab EXCEPT ![q.by].status = q.at, ![q.by].about = q.slug]
       ELSE UNCHANGED tab
    /\ UNCHANGED <<calls, company, session>>

-----------------------------------------------------------------------------
(* signupAction, the rate limit and AuthService.signup.                    *)

Goes(c, to) == calls' = [calls EXCEPT ![c].at = to]

(* Rolls back what is not committed. *)
Ends(c) == calls' = [calls EXCEPT ![c].at = "ended", ![c].rows = {}]

Waited(c) == tab[c[1]].busy /\ tab[c[1]].tries = c[2]

Fails(form, code) == [form EXCEPT !.busy = FALSE, !.error = code]

(* An error reaches the form, if its action still waits; mapApiError gives *)
(* its own code to a 409, and "unknown" to the 400 InvalidSlug, the 429,   *)
(* the 500 and the 503.                                                    *)
Refuse(c, code) ==
    /\ Ends(c)
    /\ tab' = IF Waited(c) THEN [tab EXCEPT ![c[1]] = Fails(@, code)] ELSE tab
    /\ UNCHANGED <<probes, company, session>>

(* The limit counts the web server's address, whoever the visitor is; then *)
(* the schema of the body, and validateSlug.                               *)
Post(c) ==
    /\ calls[c].at = "post"
    /\ \/ Refuse(c, "UNKNOWN")
       \/ /\ Kind[calls[c].slug] \notin Misshapen
          /\ Goes(c, "lookup") /\ UNCHANGED <<tab, probes, company, session>>

(* The look-up in a transaction of its own; then the password is hashed.   *)
LookUp(c) ==
    /\ calls[c].at = "lookup"
    /\ IF company[calls[c].slug].rows # {}
       THEN Refuse(c, "SLUG_TAKEN")
       ELSE Goes(c, "company") /\ UNCHANGED <<tab, probes, company, session>>

Writes(c, row, next) ==
    /\ calls[c].at = row
    /\ calls' = [calls EXCEPT ![c].at = next, ![c].rows = @ \cup {row}]
    /\ UNCHANGED <<tab, probes, company, session>>

Holds(d, slug) == calls[d].slug = slug /\ calls[d].rows # {}

(* The insert waits for a transaction that has inserted the same slug. The *)
(* violation is answered 409 only if Prisma names the index company_slug_key *)
(* in it and not, as elsewhere in the API, the columns; else it is a 500,  *)
(* like the error of a slug that does not fit the column's 32 characters.  *)
InsertCompany(c) ==
    /\ calls[c].at = "company"
    /\ \A d \in Call : ~ Holds(d, calls[c].slug)
    /\ IF Kind[calls[c].slug] = "long"
       THEN Refuse(c, "UNKNOWN")
       ELSE IF company[calls[c].slug].rows # {}
            THEN \E code \in {"SLUG_TAKEN", "UNKNOWN"} : Refuse(c, code)
            ELSE Writes(c, "company", "owner")

InsertOwner(c) ==
    /\ Writes(c, "owner", "audit") \/ Writes(c, "audit", "commit")

Committed(c) == company' = [company EXCEPT ![calls[c].slug] = [rows |-> calls[c].rows, owner |-> c[1]]]

(* A mutant: the tokens are signed whatever becomes of the transaction. *)
CommitOrGoOn(c) ==
    /\ calls[c].at = "commit"
    /\ calls' = [calls EXCEPT ![c].at = "tokens", ![c].rows = {}]
    /\ Committed(c) \/ UNCHANGED company
    /\ UNCHANGED <<tab, probes, session>>

Commit(c) ==
    /\ calls[c].at = "commit"
    /\ calls' = [calls EXCEPT ![c].at = "tokens", ![c].rows = {}]
    /\ Committed(c)
    /\ UNCHANGED <<tab, probes, session>>

(* The form is gone, and with it whatever comes back to it. *)
Leaves(p) ==
    /\ tab' = [tab EXCEPT ![p] = [Blank EXCEPT !.edits = MaxEdits[p], !.tries = tab[p].tries,
                                               !.token = tab[p].token, !.page = "welcome"]]
    /\ probes' = {q \in probes : q.by # p}

(* The tokens, then the cookies and the redirect, if anyone still waits; a *)
(* secret that cannot sign is a 503, and the company stays.                *)
Issue(c) ==
    /\ calls[c].at = "tokens"
    /\ \/ /\ Ends(c)
          /\ IF Waited(c)
             THEN session' = [session EXCEPT ![c[1]] = calls[c].slug] /\ Leaves(c[1])
             ELSE UNCHANGED <<session, tab, probes>>
          /\ UNCHANGED company
       \/ Refuse(c, "UNKNOWN")

(* A statement throws, the transaction is rolled back: 500. *)
Throw(c) ==
    /\ calls[c].at \in {"lookup", "commit"} \cup Table
    /\ Refuse(c, "UNKNOWN")

(* api.post gives up after ten seconds; the API goes on with the call. *)
TimeOut(p) ==
    /\ tab[p].busy
    /\ tab' = [tab EXCEPT ![p] = Fails(@, "NETWORK")]
    /\ UNCHANGED <<probes, calls, company, session>>

(* A POST that never reached the API. *)
Lost(c) ==
    /\ calls[c].at = "post" /\ Refuse(c, "NETWORK")

(* /signup/welcome, without the cookies or the slug, goes to /signup; a    *)
(* visitor who goes back finds a blank form.                               *)
Back(p) ==
    /\ tab[p].page = "welcome"
    /\ tab' = [tab EXCEPT ![p].page = "form"]
    /\ UNCHANGED <<probes, calls, company, session>>

-----------------------------------------------------------------------------
Probing(q) == Debounce(q) \/ CheckSlug(q) \/ ShowAnswer(q)

Serving(c) == Post(c) \/ LookUp(c) \/ InsertCompany(c) \/ InsertOwner(c) \/ Commit(c) \/ Issue(c)

Next ==
    \/ \E p \in Person :
          \/ \E name \in Name : TypeName(p, name)
          \/ \E slug \in Slug \cup {None} : TypeSlug(p, slug)
          \/ Submit(p) \/ TimeOut(p) \/ Back(p)
    \/ \E q \in probes : Probing(q)
    \/ \E c \in Call : Serving(c) \/ Throw(c) \/ Lost(c)

Spec == Init /\ [][Next]_vars

(* The browser's timer fires, and every call of the web server is answered *)
(* or times out; the API itself may hang.                                  *)
Fairness ==
    /\ WF_vars(\E q \in probes : Probing(q))
    /\ \A p \in Person : WF_vars(TimeOut(p))

FairSpec == Spec /\ Fairness

-----------------------------------------------------------------------------
(* The badge beside the slug speaks of the slug in the field, whatever     *)
(* order the answers come in (signup-form.tsx:52-54).                      *)
BadgeIsOfSlug ==
    \A p \in Person :
        tab[p].slug # None /\ tab[p].status \in Answer => tab[p].about = tab[p].slug

(* Whoever is let in by a sign-up owns the company of the session, and all *)
(* its rows are there (auth.service.ts: the inserts are one           *)
(* transaction, the tokens follow it).                                     *)
SessionIsOwn ==
    \A p \in Person : session[p] # None =>
        company[session[p]] = [rows |-> Table, owner |-> p]

(* No company without an owner who may enter it: no other transaction ever *)
(* sees a part of a sign-up, also when a statement of it throws.           *)
WholeOrNothing == \A s \in Slug : company[s].rows \in {{}, Table}

(* Told that the slug is taken, a visitor can be sure that a company has   *)
(* it, be it the visitor's own from a try whose answer was lost.           *)
TakenIsTrue ==
    \A p \in Person : tab[p].error = "SLUG_TAKEN" =>
        company[calls[<<p, tab[p].tries>>].slug].rows # {}

(* Of visitors who sign up with the same slug at a time one gets it, for   *)
(* good: the others' later inserts change neither the owner nor a row.     *)
ClaimedOnce == [][\A s \in Slug : company[s].rows # {} => company'[s] = company[s]]_vars

(* The form never hangs: neither the check of a slug nor a submission goes *)
(* on for ever, also when the API does not answer.                         *)
FormSettles ==
    \A p \in Person :
        tab[p].busy \/ tab[p].status = "checking" ~> ~ tab[p].busy /\ tab[p].status # "checking"

(* auth.service.ts:264-266: losing the race for a slug is answered like a  *)
(* slug that is taken; slug.ts:9: a slug may have up to 64 characters. So  *)
(* a well-formed slug would be refused as unknown only for the rate limit  *)
(* or a failure of the database.                                           *)
FitsItsColumn == \A c \in Call : calls[c].at = "company" => Kind[calls[c].slug] # "long"
=============================================================================
