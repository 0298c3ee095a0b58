---------------------------- MODULE DomainsProofs ----------------------------
(***************************************************************************)
(* Sign-up, served domains and their owners for every number of domains,   *)
(* addresses, sign-ups and requests, by one inductive invariant.           *)
(***************************************************************************)
EXTENDS Domains, FiniteSetTheorems, TLAPS

\* What a request carries at each of its steps.
Founding == [step : Provisioning, email : Email, id : Signup]
Reloading == [step : {"list", "clean"}, email : Email, id : Signup \cup {NotFound}]
Carried ==
  [step : {"idle"}] \cup [step : {"insert"}, email : Email] \cup Founding \cup Reloading
    \cup [step : {"load"}, was : Reloading, list : SUBSET Domain]
    \cup [step : {"delete"}, by : Email, email : Email]

Live(s) == signups[s].row \in {"live", "expired"}

\* A request that provisions a domain has its address from a sign-up.
ShapeOK ==
  /\ domains \subseteq Domain /\ served \subseteq Domain /\ added \subseteq Domain
  /\ users \subseteq Email /\ owners \subseteq Email /\ founders \subseteq Email
  /\ ready \subseteq Domain
  /\ process \in [Process -> Carried]
  /\ signups \in [Signup -> [row : {"none", "live", "expired", "gone"},
                             email : Email \cup {NotFound}]]
  /\ \A s \in Signup : Live(s) => signups[s].email \in Email
  /\ \A p \in Process : process[p].step \in Provisioning
       => /\ signups[process[p].id].row # "none"
          /\ Of(p) = signups[process[p].id].email

\* A list that is about to be installed is the table, or is known to be outdated.
ListsOK == \A p \in Process : In(p, "load") => process[p].list = domains \/ p \in outdated

\* The domain has an owner with an account, or the reason is on record why not,
\* whatever the requests under way do next.
Firm(d) == d \in excused \/ \E e \in users \cap owners : DomainOf(e) = d
Known(d) == Firm(d) \/ \E p \in Process : In(p, "grant") /\ DomainOfP(p) = d

\* The request will answer that the domain of e is ready.
Finishing(p, e) ==
  \/ process[p].step \in {"list", "clean"} /\ process[p].id # NotFound /\ Of(p) = e
  \/ In(p, "load") /\ process[p].was.id # NotFound /\ process[p].was.email = e

OwnersOK ==
  /\ \A e \in owners : Firm(DomainOf(e))
  /\ \A e \in users : Firm(DomainOf(e)) \/ \E p \in Process : In(p, "grant") /\ Of(p) = e
  /\ \A p \in Process : In(p, "grant") => Of(p) \in users \/ Firm(DomainOfP(p))
  /\ \A p \in Process, e \in Email : Finishing(p, e) => Known(DomainOf(e))
  /\ \A d \in ready : Known(d)

\* One sign-up at a time is open for a domain, so a second founder comes from a
\* sign-up that was checked before the first was done, or finished before.
FoundersOK ==
  /\ \A s, t \in Signup :
       (Live(s) /\ Live(t) /\ DomainOf(signups[s].email) = DomainOf(signups[t].email)) => s = t
  /\ \A p \in Process : (In(p, "insert") /\ DomainOfP(p) \in domains) => DomainOfP(p) \in misled
  /\ \A f \in founders : DomainOf(f) \in domains
  /\ \A s \in Signup, f \in founders :
       (Live(s) /\ DomainOf(signups[s].email) = DomainOf(f))
         => f = signups[s].email \/ DomainOf(f) \in misled
  /\ \A f, g \in founders : DomainOf(f) = DomainOf(g) => f = g \/ DomainOf(f) \in misled

SignupInv == ShapeOK /\ ListsOK /\ ServedExplained /\ OwnersOK /\ FoundersOK

-----------------------------------------------------------------------------
(* How requests change.                                                    *)

\* A request takes up a new record; the others keep theirs.
LEMMA Taken ==
  ASSUME process \in [Process -> Carried], NEW p \in Process, NEW to \in Carried, Becomes(p, to)
  PROVE  /\ process' \in [Process -> Carried]
         /\ process'[p] = to
         /\ \A q \in Process : q # p => process'[q] = process[q]
BY DEF Becomes

\* What a request carries follows from its step.
LEMMA AtStep ==
  ASSUME process \in [Process -> Carried], NEW p \in Process
  PROVE  /\ process[p].step \in Provisioning => process[p] \in Founding
         /\ process[p].step \in {"list", "clean"} => process[p] \in Reloading
         /\ In(p, "insert") => process[p] \in [step : {"insert"}, email : Email]
         /\ In(p, "load") => process[p] \in [step : {"load"}, was : Reloading, list : SUBSET Domain]
         /\ In(p, "delete") => process[p] \in [step : {"delete"}, by : Email, email : Email]
<1>1. process[p] \in Carried
  OBVIOUS
<1>2. QED
  BY <1>1 DEF Carried, Founding, Reloading, Provisioning, In

\* A request goes on with the address and the sign-up it carries.
LEMMA GoesOn ==
  ASSUME process \in [Process -> Carried], NEW p \in Process,
         NEW step \in Provisioning \cup {"list", "clean"}, Continues(p, step),
         \/ process[p].step \in Provisioning /\ step # "clean"
         \/ process[p].step \in {"list", "clean"} /\ step \in {"list", "clean"}
  PROVE  /\ process' \in [Process -> Carried]
         /\ process'[p].step = step
         /\ process'[p].email = process[p].email /\ process'[p].id = process[p].id
         /\ \A q \in Process : q # p => process'[q] = process[q]
<1> DEFINE to == [process[p] EXCEPT !.step = step]
<1>1. process' = [process EXCEPT ![p] = to]
  BY DEF Continues
<1>2. /\ to \in Founding \cup Reloading
      /\ to.step = step /\ to.email = process[p].email /\ to.id = process[p].id
  <2>1. CASE process[p].step \in Provisioning /\ step # "clean"
    BY <2>1, AtStep DEF Founding, Reloading, Provisioning
  <2>2. CASE process[p].step \in {"list", "clean"} /\ step \in {"list", "clean"}
    BY <2>2, AtStep DEF Reloading
  <2>3. QED
    BY <2>1, <2>2
<1>3. to \in Carried
  BY <1>2 DEF Carried
<1>4. QED
  BY <1>1, <1>2, <1>3

-----------------------------------------------------------------------------
(* What a step leaves alone.                                               *)

\* A request that neither takes a list nor leaves the tables it has changed
\* without a reload.
LEMMA ServedKept ==
  ASSUME ListsOK, ServedExplained, UNCHANGED <<domains, served, added, outdated>>,
         NEW done \in SUBSET Process,
         \A q \in Process \ done : process'[q] = process[q],
         \A q \in done : ~In(q, "load")',
         \/ unsure'
         \/ /\ unsure' = unsure
            /\ \A q \in done : process[q].step \in {"exists", "user", "grant", "list", "load"}
                 => process'[q].step \in {"exists", "user", "grant", "list"}
  PROVE  ListsOK' /\ ServedExplained'
<1>1. ListsOK'
  BY DEF ListsOK, In
<1>2. ServedExplained'
  <2>1. CASE unsure'
    BY <2>1 DEF ServedExplained
  <2>2. CASE unsure' = unsure
    BY <2>2 DEF ServedExplained
  <2>3. QED
    BY <2>1, <2>2
<1>3. QED
  BY <1>1, <1>2

\* Owners and accounts stay, and no request gains or loses a grant to make.
LEMMA OwnersKept ==
  ASSUME ShapeOK, OwnersOK, UNCHANGED <<users, owners, excused>>,
         NEW done \in SUBSET Process,
         \A q \in Process \ done : process'[q] = process[q],
         \A q \in done : ~In(q, "grant") /\ ~In(q, "grant")',
         \A q \in done, e \in Email : Finishing(q, e)' => Known(DomainOf(e)),
         \A d \in ready' : Known(d)
  PROVE  OwnersOK'
<1>1. \A d : Firm(d)' = Firm(d)
  BY DEF Firm
<1>2. \A q \in Process : In(q, "grant")' = In(q, "grant") /\ (In(q, "grant") => Of(q)' = Of(q))
  BY DEF In, Of
<1>3. \A d : Known(d)' = Known(d)
  BY <1>1, <1>2 DEF Known, DomainOfP
<1>4. \A q \in Process, e \in Email : Finishing(q, e)' => Known(DomainOf(e))
  <2> SUFFICES ASSUME NEW q \in Process \ done, NEW e \in Email, Finishing(q, e)'
               PROVE  Known(DomainOf(e))
    OBVIOUS
  <2>1. Finishing(q, e)
    BY DEF Finishing, In, Of
  <2>2. QED
    BY <2>1 DEF OwnersOK
<1>5. QED
  BY <1>1, <1>2, <1>3, <1>4 DEF OwnersOK, DomainOfP

\* Domains and founders stay, and no sign-up becomes open.
LEMMA FoundersKept ==
  ASSUME ShapeOK, FoundersOK, UNCHANGED <<domains, founders>>, misled \subseteq misled',
         NEW done \in SUBSET Process,
         \A q \in Process \ done : process'[q] = process[q],
         \A q \in done : (In(q, "insert")' /\ DomainOfP(q)' \in domains) => DomainOfP(q)' \in misled',
         \A s \in Signup : Live(s)' => Live(s) /\ signups'[s].email = signups[s].email
  PROVE  FoundersOK'
<1>1. \A q \in Process \ done : In(q, "insert")' => In(q, "insert") /\ DomainOfP(q)' = DomainOfP(q)
  BY DEF In, DomainOfP, Of
<1>2. QED
  BY <1>1 DEF FoundersOK

-----------------------------------------------------------------------------
(* One lemma per step.                                                     *)

\* A visitor asks for a domain that neither the list nor the table has.
LEMMA CheckSignupStep == ASSUME SignupInv, NEW p \in Process, CheckSignup(p) PROVE SignupInv'
<1> USE DEF SignupInv
<1>1. /\ UNCHANGED <<domains, lists, accounts, signups, outdated, unsure, ready, founders, excused>>
      /\ In(p, "idle")
  BY DEF CheckSignup
<1>2. PICK e \in Email :
        /\ Becomes(p, [step |-> "insert", email |-> e])
        /\ misled' = IF DomainOf(e) \in domains THEN misled \cup {DomainOf(e)} ELSE misled
  BY DEF CheckSignup
<1> DEFINE to == [step |-> "insert", email |-> e]
<1>3. to \in Carried
  BY DEF Carried
<1>4. /\ process' \in [Process -> Carried] /\ process'[p] = to
      /\ \A q \in Process : q # p => process'[q] = process[q]
  BY <1>2, <1>3, Taken DEF ShapeOK
<1>5. process'[p].step = "insert" /\ process'[p].email = e
  BY <1>4
<1>6. ShapeOK'
  BY <1>1, <1>4, <1>5 DEF ShapeOK, Live, lists, accounts, Provisioning, Of
<1>7. ListsOK' /\ ServedExplained'
  BY <1>1, <1>4, <1>5, ServedKept, {p} \in SUBSET Process DEF lists, In
<1>8. OwnersOK'
  BY <1>1, <1>4, <1>5, OwnersKept, {p} \in SUBSET Process DEF accounts, In, Finishing, OwnersOK
<1>9. FoundersOK'
  BY <1>1, <1>2, <1>4, <1>5, FoundersKept, {p} \in SUBSET Process
  DEF In, DomainOfP, Of, Live, FoundersOK
<1>10. QED
  BY <1>6, <1>7, <1>8, <1>9

\* The sign-up is stored if none is open for its domain.
LEMMA CreateSignupStep == ASSUME SignupInv, NEW p \in Process, CreateSignup(p) PROVE SignupInv'
<1> USE DomainAssumption DEF SignupInv
<1>1. /\ UNCHANGED <<domains, lists, accounts, outdated, unsure, ends>>
      /\ In(p, "insert") /\ Becomes(p, Ready)
  BY DEF CreateSignup
<1>2. Of(p) \in Email
  BY <1>1, AtStep DEF ShapeOK, Of
<1>3. Ready \in Carried /\ Ready.step = "idle"
  BY DEF Ready, Carried
<1>4. /\ process' \in [Process -> Carried] /\ process'[p].step = "idle"
      /\ \A q \in Process : q # p => process'[q] = process[q]
  BY <1>1, <1>3, Taken DEF ShapeOK
<1>5. ListsOK' /\ ServedExplained'
  BY <1>1, <1>4, ServedKept, {p} \in SUBSET Process DEF lists, In
<1>6. OwnersOK'
  BY <1>1, <1>4, OwnersKept, {p} \in SUBSET Process DEF accounts, ends, In, Finishing, OwnersOK
<1>7. CASE UNCHANGED signups
  <2>1. ShapeOK'
    BY <1>1, <1>4, <1>7 DEF ShapeOK, Live, lists, accounts, ends, Provisioning, Of
  <2>2. FoundersOK'
    BY <1>1, <1>4, <1>7, FoundersKept, {p} \in SUBSET Process
    DEF ends, In, DomainOfP, Of, Live, FoundersOK
  <2>3. QED
    BY <1>5, <1>6, <2>1, <2>2
<1>8. CASE ~Pending(DomainOfP(p)) /\ NewSignup(Of(p))
  <2>1. PICK s \in Signup :
          /\ signups[s].row = "none"
          /\ signups' = [signups EXCEPT ![s] = [row |-> "live", email |-> Of(p)]]
    BY <1>8 DEF NewSignup
  <2>2. /\ signups'[s].row = "live" /\ signups'[s].email = Of(p)
        /\ \A t \in Signup : t # s => signups'[t] = signups[t]
    BY <2>1 DEF ShapeOK
  <2>3. ShapeOK'
    <3>1. /\ signups' \in [Signup -> [row : {"none", "live", "expired", "gone"},
                                      email : Email \cup {NotFound}]]
      BY <1>2, <2>1 DEF ShapeOK
    <3>2. \A t \in Signup : Live(t)' => signups'[t].email \in Email
      BY <1>2, <2>2 DEF ShapeOK, Live
    <3>3. \A q \in Process : process'[q].step \in Provisioning
             => /\ signups'[process'[q].id].row # "none"
                /\ Of(q)' = signups'[process'[q].id].email
      <4> SUFFICES ASSUME NEW q \in Process, process'[q].step \in Provisioning
                   PROVE  /\ signups'[process'[q].id].row # "none"
                          /\ Of(q)' = signups'[process'[q].id].email
        OBVIOUS
      <4>1. process'[q] = process[q]
        BY <1>4 DEF Provisioning
      <4>2. process[q].id \in Signup
        BY <4>1, AtStep DEF ShapeOK, Founding
      <4>3. process[q].id # s
        BY <2>1, <4>1 DEF ShapeOK
      <4>4. QED
        BY <2>2, <4>1, <4>2, <4>3 DEF ShapeOK, Of
    <3>4. QED
      BY <1>1, <1>4, <3>1, <3>2, <3>3 DEF ShapeOK, Live, lists, accounts, ends
  <2>4. FoundersOK'
    <3>1. \A t \in Signup : Live(t)' => t = s \/ Live(t)
      BY <2>2 DEF Live
    <3>2. \A t \in Signup : Live(t) => /\ t # s
                                       /\ DomainOf(signups[t].email) # DomainOf(Of(p))
      BY <1>8, <2>1 DEF Live, Pending, DomainOfP
    <3>3. \A f \in founders : DomainOf(f) = DomainOf(Of(p)) => DomainOf(f) \in misled
      BY <1>1 DEF FoundersOK, DomainOfP
    <3>4. \A q \in Process : In(q, "insert")' => In(q, "insert") /\ DomainOfP(q)' = DomainOfP(q)
      BY <1>4 DEF In, DomainOfP, Of
    <3>5. UNCHANGED <<domains, founders, misled>>
      BY <1>1 DEF ends
    <3>6. \A t, u \in Signup : (Live(t)' /\ Live(u)' /\
             DomainOf(signups'[t].email) = DomainOf(signups'[u].email)) => t = u
      BY <2>2, <3>1, <3>2 DEF FoundersOK
    <3>7. \A t \in Signup, f \in founders :
            (Live(t)' /\ DomainOf(signups'[t].email) = DomainOf(f))
               => f = signups'[t].email \/ DomainOf(f) \in misled
      BY <2>2, <3>1, <3>2, <3>3 DEF FoundersOK
    <3>8. QED
      BY <3>4, <3>5, <3>6, <3>7 DEF FoundersOK
  <2>5. QED
    BY <1>5, <1>6, <2>3, <2>4
<1>9. QED
  BY <1>7, <1>8 DEF CreateSignup

\* An open sign-up is verified.
LEMMA GetSignupStep == ASSUME SignupInv, NEW p \in Process, GetSignup(p) PROVE SignupInv'
<1> USE DEF SignupInv
<1>1. /\ UNCHANGED <<domains, lists, accounts, signups, outdated, unsure, ends>> /\ In(p, "idle")
  BY DEF GetSignup
<1>2. PICK s \in Signup :
        /\ signups[s].row = "live"
        /\ Becomes(p, [step |-> "domain", email |-> signups[s].email, id |-> s])
  BY DEF GetSignup
<1> DEFINE to == [step |-> "domain", email |-> signups[s].email, id |-> s]
<1>3. to \in Founding
  BY <1>2 DEF Founding, Provisioning, ShapeOK, Live
<1>4. to \in Carried
  BY <1>3 DEF Carried
<1>5. /\ process' \in [Process -> Carried] /\ process'[p] = to
      /\ \A q \in Process : q # p => process'[q] = process[q]
  BY <1>2, <1>4, Taken DEF ShapeOK
<1>6. process'[p].step = "domain" /\ process'[p].email = signups[s].email /\ process'[p].id = s
  BY <1>5
<1>7. ShapeOK'
  BY <1>1, <1>2, <1>5, <1>6 DEF ShapeOK, Live, lists, accounts, ends, Of
<1>8. ListsOK' /\ ServedExplained'
  BY <1>1, <1>5, <1>6, ServedKept, {p} \in SUBSET Process DEF lists, In
<1>9. OwnersOK'
  BY <1>1, <1>5, <1>6, OwnersKept, {p} \in SUBSET Process
  DEF accounts, ends, In, Finishing, OwnersOK
<1>10. FoundersOK'
  BY <1>1, <1>5, <1>6, FoundersKept, {p} \in SUBSET Process DEF ends, In, Live
<1>11. QED
  BY <1>7, <1>8, <1>9, <1>10

\* The table is asked for the domain.
LEMMA GetDomainStep == ASSUME SignupInv, NEW p \in Process, GetDomain(p) PROVE SignupInv'
<1> USE DEF SignupInv
<1>1. /\ UNCHANGED <<domains, lists, accounts, signups, outdated, unsure, ends>> /\ In(p, "domain")
  BY DEF GetDomain
<1>2. /\ process' \in [Process -> Carried] /\ process'[p].step \in {"exists", "create"}
      /\ process'[p].email = process[p].email /\ process'[p].id = process[p].id
      /\ \A q \in Process : q # p => process'[q] = process[q]
  BY GoesOn DEF GetDomain, ShapeOK, In, Provisioning
<1>3. ShapeOK'
  BY <1>1, <1>2 DEF ShapeOK, Live, lists, accounts, ends, Of, In, Provisioning
<1>4. ListsOK' /\ ServedExplained'
  BY <1>1, <1>2, ServedKept, {p} \in SUBSET Process DEF lists, In
<1>5. OwnersOK'
  BY <1>1, <1>2, OwnersKept, {p} \in SUBSET Process DEF accounts, ends, In, Finishing, OwnersOK
<1>6. FoundersOK'
  BY <1>1, <1>2, FoundersKept, {p} \in SUBSET Process DEF ends, In, Live
<1>7. QED
  BY <1>3, <1>4, <1>5, <1>6

\* The domain's row is written; lists read before are outdated now, and so are
\* the checks of sign-ups not stored yet.
LEMMA CreateDomainStep == ASSUME SignupInv, NEW p \in Process, CreateDomain(p) PROVE SignupInv'
<1> USE DomainAssumption DEF SignupInv
<1>1. /\ UNCHANGED <<lists, accounts, signups, unsure, ready, founders, excused>>
      /\ In(p, "create") /\ Of(p) \in Email
  BY AtStep DEF CreateDomain, ShapeOK, Of, In, Founding, Provisioning
<1>2. CASE Becomes(p, Ready) /\ UNCHANGED <<domains, outdated, misled>>
  <2>1. Ready \in Carried /\ Ready.step = "idle"
    BY DEF Ready, Carried
  <2>2. /\ process' \in [Process -> Carried] /\ process'[p].step = "idle"
        /\ \A q \in Process : q # p => process'[q] = process[q]
    BY <1>2, <2>1, Taken DEF ShapeOK
  <2>3. ShapeOK'
    BY <1>1, <1>2, <2>2 DEF ShapeOK, Live, lists, accounts, Of, Provisioning
  <2>4. ListsOK' /\ ServedExplained'
    BY <1>1, <1>2, <2>2, ServedKept, {p} \in SUBSET Process DEF lists, In
  <2>5. OwnersOK'
    BY <1>1, <2>2, OwnersKept, {p} \in SUBSET Process DEF accounts, In, Finishing, OwnersOK
  <2>6. FoundersOK'
    BY <1>1, <1>2, <2>2, FoundersKept, {p} \in SUBSET Process DEF In, Live
  <2>7. QED
    BY <2>3, <2>4, <2>5, <2>6
<1>3. CASE LET d == DomainOfP(p)
           IN /\ domains' = domains \cup {d}
              /\ Continues(p, "exists") /\ Changes(p)
              /\ misled' = IF \E q \in Process : In(q, "insert") /\ DomainOfP(q) = d
                           THEN misled \cup {d} ELSE misled
  <2>1. /\ process' \in [Process -> Carried] /\ process'[p].step = "exists"
        /\ process'[p].email = process[p].email /\ process'[p].id = process[p].id
        /\ \A q \in Process : q # p => process'[q] = process[q]
    BY <1>1, <1>3, GoesOn DEF ShapeOK, In, Provisioning
  <2>2. ShapeOK'
    BY <1>1, <1>3, <2>1 DEF ShapeOK, Live, lists, accounts, Of, In, Provisioning, DomainOfP
  <2>3. ListsOK'
    BY <1>3, <2>1 DEF ListsOK, Changes, In
  <2>4. ServedExplained'
    BY <2>1 DEF ServedExplained
  <2>5. OwnersOK'
    BY <1>1, <2>1, OwnersKept, {p} \in SUBSET Process DEF accounts, In, Finishing, OwnersOK
  <2>6. FoundersOK'
    <3>1. UNCHANGED <<signups, founders>> /\ misled \subseteq misled' /\ domains \subseteq domains'
      BY <1>1, <1>3
    <3>2. \A q \in Process : In(q, "insert")' => In(q, "insert") /\ DomainOfP(q)' = DomainOfP(q)
      BY <2>1 DEF In, DomainOfP, Of
    <3>3. \A q \in Process : (In(q, "insert") /\ DomainOfP(q) \in domains')
            => DomainOfP(q) \in misled'
      BY <1>3 DEF FoundersOK
    <3>4. \A s \in Signup : Live(s)' = Live(s)
      BY <3>1 DEF Live
    <3>5. QED
      BY <3>1, <3>2, <3>3, <3>4 DEF FoundersOK
  <2>7. QED
    BY <2>2, <2>3, <2>4, <2>5, <2>6
<1>4. QED
  BY <1>2, <1>3 DEF CreateDomain

\* The table is asked for the account: one that is there has been granted the
\* domain, or is about to be, or the reason is on record.
LEMMA UserExistsStep == ASSUME SignupInv, NEW p \in Process, UserExists(p) PROVE SignupInv'
<1> USE DEF SignupInv
<1>1. /\ UNCHANGED <<domains, lists, accounts, signups, outdated, unsure, ends>> /\ In(p, "exists")
      /\ Continues(p, IF Of(p) \in users THEN "list" ELSE "user")
  BY DEF UserExists
<1>2. /\ process' \in [Process -> Carried] /\ process'[p].step \in {"list", "user"}
      /\ process'[p].step = "list" => Of(p) \in users
      /\ process'[p].email = process[p].email /\ process'[p].id = process[p].id
      /\ \A q \in Process : q # p => process'[q] = process[q]
  BY <1>1, GoesOn DEF ShapeOK, In, Provisioning
<1>3. ShapeOK'
  BY <1>1, <1>2 DEF ShapeOK, Live, lists, accounts, ends, Of, In, Provisioning
<1>4. ListsOK' /\ ServedExplained'
  BY <1>1, <1>2, ServedKept, {p} \in SUBSET Process DEF lists, In
<1>5. \A e \in users : Known(DomainOf(e))
  BY DEF OwnersOK, Known, DomainOfP
<1>6. \A e \in Email : Finishing(p, e)' => Known(DomainOf(e))
  BY <1>2, <1>5 DEF Finishing, In, Of
<1>7. OwnersOK'
  BY <1>1, <1>2, <1>6, OwnersKept, {p} \in SUBSET Process DEF accounts, ends, In, OwnersOK
<1>8. FoundersOK'
  BY <1>1, <1>2, FoundersKept, {p} \in SUBSET Process DEF ends, In, Live
<1>9. QED
  BY <1>3, <1>4, <1>7, <1>8

\* What changes owners and accounts: firm reasons stay, a domain a grant was to
\* come for has a firm one once it is over.
LEMMA OwnersChange ==
  ASSUME ShapeOK, OwnersOK,
         \A d : Firm(d) => Firm(d)',
         NEW done \in SUBSET Process,
         \A q \in Process \ done : process'[q] = process[q],
         \A q \in done : In(q, "grant")' => Of(q)' \in users' /\ Of(q)' \in Email,
         \A q \in done, e \in Email : (In(q, "grant") /\ Of(q) = e) => Firm(DomainOf(e))',
         \A e \in owners' : e \in owners \/ Firm(DomainOf(e))',
         \A e \in users' : \/ e \in users \/ Firm(DomainOf(e))'
                           \/ \E q \in done : In(q, "grant")' /\ Of(q)' = e,
         \A e \in users \ users' : Firm(DomainOf(e))',
         \A q \in done, e \in Email : Finishing(q, e)' => Known(DomainOf(e)) \/ Known(DomainOf(e))',
         ready' \subseteq ready
  PROVE  OwnersOK'
<1>1. \A q \in Process \ done :
        /\ In(q, "grant")' = In(q, "grant")
        /\ In(q, "grant") => Of(q)' = Of(q)
        /\ \A e \in Email : Finishing(q, e)' => Finishing(q, e)
  BY DEF In, Of, Finishing
<1>2. \A q \in Process : In(q, "grant") => Of(q) \in Email
  BY AtStep DEF ShapeOK, In, Of, Founding, Provisioning
<1>3. \A d : Known(d) => Known(d)'
  <2> SUFFICES ASSUME NEW d, Known(d), ~Firm(d) PROVE Known(d)'
    BY DEF Known
  <2>1. PICK q \in Process : In(q, "grant") /\ DomainOf(Of(q)) = d
    BY DEF Known, DomainOfP
  <2>2. PICK e \in Email : e = Of(q) /\ DomainOf(e) = d
    BY <1>2, <2>1
  <2>3. CASE q \in done
    <3>1. Firm(DomainOf(e))'
      BY <2>1, <2>2, <2>3
    <3>2. Firm(d)'
      BY <2>2, <3>1
    <3>3. QED
      BY <3>2 DEF Known
  <2>4. CASE q \notin done
    <3>1. In(q, "grant")' /\ Of(q)' = e
      BY <1>1, <2>1, <2>2, <2>4
    <3>2. QED
      BY <2>2, <3>1 DEF Known, DomainOfP
  <2>5. QED
    BY <2>3, <2>4
<1>4. \A e \in owners' : Firm(DomainOf(e))'
  BY DEF OwnersOK
<1>5. \A e \in users' : Firm(DomainOf(e))' \/ \E q \in Process : In(q, "grant")' /\ Of(q)' = e
  <2> SUFFICES ASSUME NEW e \in users', e \in users, ~Firm(DomainOf(e)), ~Firm(DomainOf(e))'
               PROVE  \E q \in Process : In(q, "grant")' /\ Of(q)' = e
    BY DEF OwnersOK
  <2>1. PICK q \in Process : In(q, "grant") /\ Of(q) = e
    BY DEF OwnersOK
  <2>2. q \notin done
    BY <1>2, <2>1
  <2>3. QED
    BY <1>1, <2>1, <2>2
<1>6. \A q \in Process, e \in Email :
        (In(q, "grant")' /\ Of(q)' = e) => e \in users' \/ Firm(DomainOf(e))'
  <2> SUFFICES ASSUME NEW q \in Process, NEW e \in Email, q \notin done,
                      In(q, "grant")', Of(q)' = e
               PROVE  e \in users' \/ Firm(DomainOf(e))'
    OBVIOUS
  <2>1. In(q, "grant") /\ Of(q) = e
    BY <1>1
  <2>2. e \in users \/ Firm(DomainOf(e))
    BY <2>1 DEF OwnersOK, DomainOfP
  <2>3. QED
    BY <2>2
<1>7. \A q \in Process : In(q, "grant")' => Of(q)' \in users' \/ Firm(DomainOfP(q))'
  <2> SUFFICES ASSUME NEW q \in Process, In(q, "grant")'
               PROVE  Of(q)' \in users' \/ Firm(DomainOfP(q))'
    OBVIOUS
  <2>1. PICK e : e = Of(q)'
    OBVIOUS
  <2>2. e \in Email
    BY <1>1, <1>2, <2>1
  <2>3. e \in users' \/ Firm(DomainOf(e))'
    BY <1>6, <2>1, <2>2
  <2>4. Firm(DomainOf(e))' => Firm(DomainOfP(q))'
    BY <2>1 DEF Firm, DomainOfP
  <2>5. QED
    BY <2>1, <2>3, <2>4
<1>8. \A q \in Process, e \in Email : Finishing(q, e)' => Known(DomainOf(e))'
  BY <1>1, <1>3 DEF OwnersOK
<1>9. \A d \in ready' : Known(d)'
  BY <1>3 DEF OwnersOK
<1>10. QED
  BY <1>4, <1>5, <1>7, <1>8, <1>9 DEF OwnersOK

\* The account is made, to be granted its domain, or the request fails.
LEMMA CreateUserStep == ASSUME SignupInv, NEW p \in Process, CreateUser(p) PROVE SignupInv'
<1> USE DEF SignupInv
<1>1. /\ UNCHANGED <<domains, lists, owners, signups, outdated, ends>> /\ In(p, "user")
      /\ Of(p) \in Email
  BY AtStep DEF CreateUser, ShapeOK, Of, In, Founding, Provisioning
<1>2. CASE Becomes(p, Ready) /\ unsure' = TRUE /\ UNCHANGED users
  <2>1. Ready \in Carried /\ Ready.step = "idle"
    BY DEF Ready, Carried
  <2>2. /\ process' \in [Process -> Carried] /\ process'[p].step = "idle"
        /\ \A q \in Process : q # p => process'[q] = process[q]
    BY <1>2, <2>1, Taken DEF ShapeOK
  <2>3. ShapeOK'
    BY <1>1, <1>2, <2>2 DEF ShapeOK, Live, lists, ends, Of, Provisioning
  <2>4. ListsOK' /\ ServedExplained'
    BY <1>1, <1>2, <2>2, ServedKept, {p} \in SUBSET Process DEF lists, In
  <2>5. OwnersOK'
    BY <1>1, <1>2, <2>2, OwnersKept, {p} \in SUBSET Process DEF ends, In, Finishing, OwnersOK
  <2>6. FoundersOK'
    BY <1>1, <2>2, FoundersKept, {p} \in SUBSET Process DEF ends, In, Live
  <2>7. QED
    BY <2>3, <2>4, <2>5, <2>6
<1>3. CASE users' = users \cup {Of(p)} /\ Continues(p, "grant") /\ UNCHANGED unsure
  <2>1. /\ process' \in [Process -> Carried] /\ process'[p].step = "grant"
        /\ process'[p].email = process[p].email /\ process'[p].id = process[p].id
        /\ \A q \in Process : q # p => process'[q] = process[q]
    BY <1>1, <1>3, GoesOn DEF ShapeOK, In, Provisioning
  <2>2. ShapeOK'
    BY <1>1, <1>3, <2>1 DEF ShapeOK, Live, lists, ends, Of, In, Provisioning
  <2>3. ListsOK' /\ ServedExplained'
    BY <1>1, <1>3, <2>1, ServedKept, {p} \in SUBSET Process DEF lists, In
  <2>4. OwnersOK'
    <3>1. \A d : Firm(d) => Firm(d)'
      BY <1>1, <1>3 DEF Firm, ends
    <3>2. In(p, "grant")' /\ Of(p)' = Of(p) /\ ~In(p, "grant")
      BY <1>1, <2>1 DEF In, Of
    <3>3. \A e \in Email : ~Finishing(p, e)'
      BY <2>1 DEF Finishing, In
    <3>4. QED
      BY <1>1, <1>3, <2>1, <3>1, <3>2, <3>3, OwnersChange, {p} \in SUBSET Process DEF ends
  <2>5. FoundersOK'
    BY <1>1, <2>1, FoundersKept, {p} \in SUBSET Process DEF ends, In, Live
  <2>6. QED
    BY <2>2, <2>3, <2>4, <2>5
<1>4. QED
  BY <1>2, <1>3 DEF CreateUser

\* The account is granted its domain, or the grant is lost.
LEMMA GrantOwnerStep == ASSUME SignupInv, NEW p \in Process, GrantOwner(p) PROVE SignupInv'
<1> USE DomainAssumption DEF SignupInv
<1>1. UNCHANGED <<domains, lists, users, signups, outdated, unsure, ready>>
      /\ In(p, "grant") /\ Continues(p, "list")
  BY DEF GrantOwner
<1>2. /\ Of(p) \in Email /\ process[p].id \in Signup
      /\ Of(p) = signups[process[p].id].email /\ signups[process[p].id].row # "none"
  BY <1>1, AtStep DEF ShapeOK, Of, In, Founding, Provisioning
<1>3. /\ process' \in [Process -> Carried] /\ process'[p].step = "list"
      /\ process'[p].email = process[p].email /\ process'[p].id = process[p].id
      /\ \A q \in Process : q # p => process'[q] = process[q]
  BY <1>1, GoesOn DEF ShapeOK, In, Provisioning
<1>4. \/ /\ owners' = owners \cup {Of(p)}
         /\ founders' = IF DomainOfP(p) \in domains THEN founders \cup {Of(p)} ELSE founders
         /\ excused' = IF Of(p) \in users THEN excused \ {DomainOfP(p)} ELSE excused
      \/ excused' = excused \cup {DomainOfP(p)} /\ UNCHANGED <<owners, founders>>
  BY DEF GrantOwner
<1>5. misled' = IF signups[process[p].id].row = "gone" THEN misled \cup {DomainOfP(p)} ELSE misled
  BY DEF GrantOwner
<1>6. ShapeOK'
  BY <1>1, <1>2, <1>3, <1>4 DEF ShapeOK, Live, lists, Of, In, Provisioning
<1>7. ListsOK' /\ ServedExplained'
  BY <1>1, <1>3, ServedKept, {p} \in SUBSET Process DEF lists, In
<1>8. OwnersOK'
  <2>1. PICK e \in Email : e = Of(p) /\ DomainOf(e) = DomainOfP(p)
    BY <1>2 DEF DomainOfP
  <2>2. Firm(DomainOf(e))'
    <3>1. e \in users \/ Firm(DomainOf(e))
      BY <1>1, <2>1 DEF OwnersOK
    <3>2. QED
      BY <1>1, <1>4, <2>1, <3>1 DEF Firm
  <2>3. \A d : Firm(d) => Firm(d)'
    <3> SUFFICES ASSUME NEW d, Firm(d), d # DomainOf(e) PROVE Firm(d)'
      BY <2>2
    <3>1. d \in excused => d \in excused'
      BY <1>4, <2>1
    <3>2. owners \subseteq owners'
      BY <1>4
    <3>3. QED
      BY <1>1, <3>1, <3>2 DEF Firm
  <2>4. ~In(p, "grant")'
    BY <1>3 DEF In
  <2>5. \A f \in owners' : f \in owners \/ f = e
    BY <1>4, <2>1
  <2>6. \A f \in Email : Finishing(p, f)' => f = e
    BY <1>3, <2>1 DEF Finishing, In, Of
  <2>7. \A f \in Email : Finishing(p, f)' => Known(DomainOf(f))'
    BY <2>2, <2>6 DEF Known
  <2>8. \A f \in owners' : f \in owners \/ Firm(DomainOf(f))'
    BY <2>2, <2>5
  <2>9. QED
    BY <1>1, <1>3, <2>1, <2>2, <2>3, <2>4, <2>7, <2>8, OwnersChange,
       {p} \in SUBSET Process
<1>9. FoundersOK'
  <2>1. misled \subseteq misled' /\ founders \subseteq founders'
    BY <1>4, <1>5
  <2>2. \A q \in Process : In(q, "insert")' => In(q, "insert") /\ DomainOfP(q)' = DomainOfP(q)
    BY <1>3 DEF In, DomainOfP, Of
  <2>3. \A s \in Signup : Live(s)' = Live(s)
    BY <1>1 DEF Live
  <2>4. CASE UNCHANGED founders
    BY <1>1, <2>1, <2>2, <2>3, <2>4 DEF FoundersOK
  <2>5. CASE founders' = founders \cup {Of(p)} /\ DomainOfP(p) \in domains
    <3>1. DomainOf(Of(p)) \in misled' \/ Live(process[p].id)
      BY <1>2, <1>5 DEF Live, ShapeOK, DomainOfP
    <3>2. \A f \in founders : DomainOf(f) = DomainOf(Of(p))
            => f = Of(p) \/ DomainOf(f) \in misled'
      BY <1>2, <2>1, <3>1 DEF FoundersOK
    <3>3. \A s \in Signup : (Live(s) /\ DomainOf(signups[s].email) = DomainOf(Of(p)))
            => signups[s].email = Of(p) \/ DomainOf(Of(p)) \in misled'
      BY <1>2, <3>1 DEF FoundersOK
    <3>4. \A f, g \in founders' : DomainOf(f) = DomainOf(g) => f = g \/ DomainOf(f) \in misled'
      BY <2>1, <2>5, <3>2 DEF FoundersOK
    <3>5. \A s \in Signup, f \in founders' :
            (Live(s) /\ DomainOf(signups[s].email) = DomainOf(f))
              => f = signups[s].email \/ DomainOf(f) \in misled'
      BY <2>1, <2>5, <3>3 DEF FoundersOK
    <3>6. \A f \in founders' : DomainOf(f) \in domains
      BY <2>5 DEF FoundersOK, DomainOfP
    <3>7. QED
      BY <1>1, <2>1, <2>2, <2>3, <3>4, <3>5, <3>6 DEF FoundersOK
  <2>6. QED
    BY <1>4, <2>4, <2>5
<1>10. QED
  BY <1>6, <1>7, <1>8, <1>9

\* The table is read, or its error is dropped.
LEMMA ListDomainsStep == ASSUME SignupInv, NEW p \in Process, ListDomains(p) PROVE SignupInv'
<1> USE DEF SignupInv
<1>1. /\ UNCHANGED <<domains, lists, accounts, signups, ends>> /\ In(p, "list")
      /\ process[p] \in Reloading
  BY AtStep DEF ListDomains, ShapeOK, In
<1>2. CASE Continues(p, "clean") /\ unsure' = TRUE /\ UNCHANGED outdated
  <2>1. /\ process' \in [Process -> Carried] /\ process'[p].step = "clean"
        /\ process'[p].email = process[p].email /\ process'[p].id = process[p].id
        /\ \A q \in Process : q # p => process'[q] = process[q]
    BY <1>1, <1>2, GoesOn DEF ShapeOK, In
  <2>2. ShapeOK'
    BY <1>1, <2>1 DEF ShapeOK, Live, lists, accounts, ends, Of, Provisioning
  <2>3. ListsOK' /\ ServedExplained'
    BY <1>1, <1>2, <2>1, ServedKept, {p} \in SUBSET Process DEF lists, In
  <2>4. \A e \in Email : Finishing(p, e)' => Finishing(p, e)
    BY <1>1, <2>1 DEF Finishing, In, Of
  <2>5. OwnersOK'
    BY <1>1, <2>1, <2>4, OwnersKept, {p} \in SUBSET Process DEF accounts, ends, In, OwnersOK
  <2>6. FoundersOK'
    BY <1>1, <2>1, FoundersKept, {p} \in SUBSET Process DEF ends, In, Live
  <2>7. QED
    BY <2>2, <2>3, <2>5, <2>6
<1>3. CASE /\ Becomes(p, [step |-> "load", was |-> process[p], list |-> domains])
           /\ outdated' = outdated \ {p} /\ UNCHANGED unsure
  <2> DEFINE to == [step |-> "load", was |-> process[p], list |-> domains]
  <2>1. to \in Carried
    BY <1>1 DEF Carried, ShapeOK
  <2>2. /\ process' \in [Process -> Carried] /\ process'[p] = to
        /\ \A q \in Process : q # p => process'[q] = process[q]
    BY <1>3, <2>1, Taken DEF ShapeOK
  <2>3. process'[p].step = "load" /\ process'[p].was = process[p] /\ process'[p].list = domains
    BY <2>2
  <2>4. ShapeOK'
    BY <1>1, <2>2, <2>3 DEF ShapeOK, Live, lists, accounts, ends, Of, Provisioning
  <2>5. ListsOK'
    BY <1>1, <1>3, <2>2, <2>3 DEF ListsOK, In
  <2>6. ServedExplained'
    BY <2>3 DEF ServedExplained
  <2>7. \A e \in Email : Finishing(p, e)' => Finishing(p, e)
    BY <1>1, <2>3 DEF Finishing, In, Of
  <2>8. OwnersOK'
    BY <1>1, <2>2, <2>3, <2>7, OwnersKept, {p} \in SUBSET Process
    DEF accounts, ends, In, OwnersOK
  <2>9. FoundersOK'
    BY <1>1, <2>2, <2>3, FoundersKept, {p} \in SUBSET Process DEF ends, In, Live
  <2>10. QED
    BY <2>4, <2>5, <2>6, <2>8, <2>9
<1>4. QED
  BY <1>2, <1>3 DEF ListDomains

\* The list in memory becomes the one that was read.
LEMMA LoadDomainsStep == ASSUME SignupInv, NEW p \in Process, LoadDomainsFromDB(p) PROVE SignupInv'
<1> USE DEF SignupInv
<1>1. /\ UNCHANGED <<domains, accounts, signups, ends>> /\ In(p, "load")
      /\ served' = process[p].list /\ added' = {}
      /\ unsure' = (p \in outdated) /\ outdated' = outdated \ {p}
      /\ Becomes(p, [process[p].was EXCEPT !.step = "clean"])
  BY DEF LoadDomainsFromDB
<1> DEFINE to == [process[p].was EXCEPT !.step = "clean"]
<1>2. process[p].was \in Reloading /\ process[p].list \subseteq Domain
  BY <1>1, AtStep DEF ShapeOK
<1>3. /\ to \in Reloading
      /\ to.step = "clean" /\ to.email = process[p].was.email /\ to.id = process[p].was.id
  BY <1>2 DEF Reloading
<1>4. to \in Carried
  BY <1>3 DEF Carried
<1>5. /\ process' \in [Process -> Carried] /\ process'[p].step = "clean"
      /\ process'[p].email = process[p].was.email /\ process'[p].id = process[p].was.id
      /\ \A q \in Process : q # p => process'[q] = process[q]
  BY <1>1, <1>3, <1>4, Taken DEF ShapeOK
<1>6. ShapeOK'
  BY <1>1, <1>2, <1>5 DEF ShapeOK, Live, accounts, ends, Of, Provisioning
<1>7. ListsOK'
  BY <1>1, <1>5 DEF ListsOK, In
<1>8. ServedExplained'
  BY <1>1 DEF ListsOK, ServedExplained
<1>9. \A e \in Email : Finishing(p, e)' => Finishing(p, e)
  BY <1>1, <1>5 DEF Finishing, In, Of
<1>10. OwnersOK'
  BY <1>1, <1>5, <1>9, OwnersKept, {p} \in SUBSET Process DEF accounts, ends, In, OwnersOK
<1>11. FoundersOK'
  BY <1>1, <1>5, FoundersKept, {p} \in SUBSET Process DEF ends, In, Live
<1>12. QED
  BY <1>6, <1>7, <1>8, <1>10, <1>11

\* The visitor is told that the domain is ready, or an administrator sees it gone.
LEMMA DeleteSignupStep == ASSUME SignupInv, NEW p \in Process, DeleteSignup(p) PROVE SignupInv'
<1> USE DomainAssumption DEF SignupInv
<1>1. /\ UNCHANGED <<domains, lists, accounts, outdated, unsure, founders, misled, excused>>
      /\ In(p, "clean") /\ Becomes(p, Ready)
  BY DEF DeleteSignup, ends
<1>2. Of(p) \in Email /\ process[p].id \in Signup \cup {NotFound}
  BY <1>1, AtStep DEF ShapeOK, Of, In, Reloading
<1>3. Ready \in Carried /\ Ready.step = "idle"
  BY DEF Ready, Carried
<1>4. /\ process' \in [Process -> Carried] /\ process'[p].step = "idle"
      /\ \A q \in Process : q # p => process'[q] = process[q]
  BY <1>1, <1>3, Taken DEF ShapeOK
<1>5. \/ UNCHANGED <<signups, ready>>
      \/ /\ process[p].id # NotFound /\ ready' = ready \cup {DomainOfP(p)}
         /\ \/ signups' = [signups EXCEPT ![process[p].id].row = "gone"]
            \/ UNCHANGED signups
  BY DEF DeleteSignup, ends
<1>6. /\ signups' \in [Signup -> [row : {"none", "live", "expired", "gone"},
                                  email : Email \cup {NotFound}]]
      /\ \A s \in Signup : /\ signups'[s].email = signups[s].email
                           /\ \/ signups'[s].row = signups[s].row
                              \/ signups'[s].row = "gone" /\ s = process[p].id
  <2>1. CASE UNCHANGED signups
    BY <2>1 DEF ShapeOK
  <2>2. CASE /\ process[p].id # NotFound
             /\ signups' = [signups EXCEPT ![process[p].id].row = "gone"]
    <3>1. PICK s \in Signup : s = process[p].id
      BY <1>2, <2>2
    <3> DEFINE row == [signups[s] EXCEPT !.row = "gone"]
    <3>2. /\ row \in [row : {"none", "live", "expired", "gone"}, email : Email \cup {NotFound}]
          /\ row.row = "gone" /\ row.email = signups[s].email
      BY DEF ShapeOK
    <3>3. signups' = [signups EXCEPT ![s] = row]
      BY <2>2, <3>1
    <3>4. QED
      BY <3>1, <3>2, <3>3 DEF ShapeOK
  <2>3. QED
    BY <1>5, <2>1, <2>2
<1>7. In(p, "clean") /\ (process[p].id # NotFound => Known(DomainOfP(p)))
  BY <1>1, <1>2 DEF OwnersOK, Finishing, In, DomainOfP
<1>8. ShapeOK'
  <2>1. \A s \in Signup : Live(s)' => signups'[s].email \in Email
    BY <1>6 DEF ShapeOK, Live
  <2>2. \A q \in Process : process'[q].step \in Provisioning
           => /\ signups'[process'[q].id].row # "none"
              /\ Of(q)' = signups'[process'[q].id].email
    <3> SUFFICES ASSUME NEW q \in Process, process'[q].step \in Provisioning
                 PROVE  /\ signups'[process'[q].id].row # "none"
                        /\ Of(q)' = signups'[process'[q].id].email
      OBVIOUS
    <3>1. process'[q] = process[q] /\ process[q].id \in Signup
      BY <1>4, AtStep DEF ShapeOK, Founding, Provisioning
    <3>2. QED
      BY <1>6, <3>1 DEF ShapeOK, Of
  <2>3. ready' \subseteq Domain
    BY <1>2, <1>5 DEF ShapeOK, DomainOfP
  <2>4. QED
    BY <1>1, <1>4, <1>6, <2>1, <2>2, <2>3 DEF ShapeOK, Live, lists, accounts
<1>9. ListsOK' /\ ServedExplained'
  BY <1>1, <1>4, ServedKept, {p} \in SUBSET Process DEF lists, In
<1>10. OwnersOK'
  <2>1. \A d \in ready' : Known(d)
    BY <1>5, <1>7 DEF OwnersOK
  <2>2. QED
    BY <1>1, <1>4, <2>1, OwnersKept, {p} \in SUBSET Process DEF accounts, In, Finishing
<1>11. FoundersOK'
  BY <1>1, <1>4, <1>6, FoundersKept, {p} \in SUBSET Process DEF In, Live
<1>12. QED
  BY <1>8, <1>9, <1>10, <1>11

\* A domain's row goes, and its founders are forgotten.
LEMMA DeleteDomainStep == ASSUME SignupInv, NEW p \in Process, DeleteDomain(p) PROVE SignupInv'
<1> USE DomainAssumption DEF SignupInv
<1>1. /\ UNCHANGED <<served, added, accounts, signups, unsure, excused>> /\ In(p, "idle")
      /\ Changes(p)
  BY DEF DeleteDomain
<1>2. PICK d \in domains, e \in Email :
        /\ DomainOf(e) = d /\ domains' = domains \ {d}
        /\ Becomes(p, [step |-> "list", email |-> e, id |-> NotFound])
        /\ ready' = ready \ {d}
        /\ founders' = {f \in founders : DomainOf(f) # d}
        /\ \A c \in misled : c = d \/ c \in misled'
  BY DEF DeleteDomain
<1> DEFINE to == [step |-> "list", email |-> e, id |-> NotFound]
<1>3. to \in Carried
  BY DEF Carried, Reloading
<1>4. /\ process' \in [Process -> Carried] /\ process'[p] = to
      /\ \A q \in Process : q # p => process'[q] = process[q]
  BY <1>2, <1>3, Taken DEF ShapeOK
<1>5. process'[p].step = "list" /\ process'[p].id = NotFound
  BY <1>4
<1>6. ShapeOK'
  BY <1>1, <1>2, <1>4, <1>5 DEF ShapeOK, Live, accounts, Of, Provisioning
<1>7. ListsOK'
  BY <1>1, <1>4, <1>5 DEF ListsOK, Changes, In
<1>8. ServedExplained'
  BY <1>5 DEF ServedExplained
<1>9. OwnersOK'
  BY <1>1, <1>2, <1>4, <1>5, OwnersKept, {p} \in SUBSET Process
  DEF accounts, In, Finishing, OwnersOK
<1>10. FoundersOK'
  <2>1. \A q \in Process : In(q, "insert")' => In(q, "insert") /\ DomainOfP(q)' = DomainOfP(q)
    BY <1>4, <1>5 DEF In, DomainOfP, Of
  <2>2. \A s \in Signup : Live(s)' = Live(s)
    BY <1>1 DEF Live
  <2>3. \A f \in founders' : f \in founders /\ DomainOf(f) # d
    BY <1>2
  <2>4. \A c \in domains' : c \in domains /\ c # d
    BY <1>2
  <2>5. \A q \in Process : (In(q, "insert") /\ DomainOfP(q) \in domains')
          => DomainOfP(q) \in misled'
    BY <1>2, <2>4 DEF FoundersOK
  <2>6. \A f \in founders' : DomainOf(f) \in domains'
    BY <1>2, <2>3 DEF FoundersOK
  <2>7. \A s \in Signup, f \in founders' :
          (Live(s) /\ DomainOf(signups[s].email) = DomainOf(f))
            => f = signups[s].email \/ DomainOf(f) \in misled'
    BY <1>2, <2>3 DEF FoundersOK
  <2>8. \A f, g \in founders' : DomainOf(f) = DomainOf(g) => f = g \/ DomainOf(f) \in misled'
    BY <1>2, <2>3 DEF FoundersOK
  <2>9. QED
    BY <1>1, <2>1, <2>2, <2>5, <2>6, <2>7, <2>8 DEF FoundersOK
<1>11. QED
  BY <1>6, <1>7, <1>8, <1>9, <1>10

\* A domain is added to the list in memory only.
LEMMA RegisterDomainStep == ASSUME SignupInv, RegisterDomain PROVE SignupInv'
<1> USE DEF SignupInv
<1>1. UNCHANGED <<domains, accounts, signups, process, outdated, unsure, ends>>
  BY DEF RegisterDomain
<1>2. PICK d \in Domain : served' = served \cup {d} /\ added' = added \cup {d}
  BY DEF RegisterDomain
<1>3. ShapeOK'
  BY <1>1, <1>2 DEF ShapeOK, Live, accounts, ends, Of
<1>4. ListsOK'
  BY <1>1 DEF ListsOK, In
<1>5. ServedExplained'
  BY <1>1, <1>2 DEF ServedExplained
<1>6. OwnersOK'
  BY <1>1, OwnersKept, {} \in SUBSET Process DEF accounts, ends, OwnersOK
<1>7. FoundersOK'
  BY <1>1, FoundersKept, {} \in SUBSET Process DEF ends, Live
<1>8. QED
  BY <1>3, <1>4, <1>5, <1>6, <1>7

\* An owner makes an account of its domain, or changes the role of one.
LEMMA AccountsStep == ASSUME SignupInv, CreateDomainUser \/ ChangeRole PROVE SignupInv'
<1> USE DomainAssumption DEF SignupInv
<1>1. UNCHANGED <<domains, lists, signups, process, outdated, unsure, ready, founders, misled>>
  BY DEF CreateDomainUser, ChangeRole, ends
<1>2. PICK e \in Email :
        \/ /\ users' = users \cup {e} /\ excused' = excused /\ Firm(DomainOf(e))
           /\ owners' \in {owners, owners \cup {e}}
        \/ /\ e \in users /\ UNCHANGED users
           /\ \/ owners' = owners \ {e} /\ excused' = excused \cup {DomainOf(e)}
              \/ owners' = owners \cup {e} /\ UNCHANGED excused
  <2>1. CASE CreateDomainUser
    <3>1. PICK by \in Email, e \in Email :
            /\ isOwner(by) /\ DomainOf(e) = DomainOf(by) /\ users' = users \cup {e}
            /\ owners' \in {owners, owners \cup {e}} /\ excused' = excused
      BY <2>1 DEF CreateDomainUser, ends
    <3>2. Firm(DomainOf(e))
      BY <3>1 DEF OwnersOK, isOwner
    <3>3. QED
      BY <3>1, <3>2
  <2>2. CASE ChangeRole
    BY <2>2 DEF ChangeRole, ShapeOK
  <2>3. QED
    BY <2>1, <2>2
<1>3. \A d : Firm(d) => Firm(d)'
  BY <1>2 DEF Firm
<1>4. /\ \A f \in owners' : f \in owners \/ Firm(DomainOf(f))'
      /\ \A f \in users' : f \in users \/ Firm(DomainOf(f))'
      /\ users \subseteq users'
  BY <1>2, <1>3 DEF Firm
<1>5. ShapeOK'
  BY <1>1, <1>2 DEF ShapeOK, Live, lists, Of
<1>6. ListsOK' /\ ServedExplained'
  BY <1>1, ServedKept, {} \in SUBSET Process DEF lists
<1>7. OwnersOK'
  BY <1>1, <1>3, <1>4, OwnersChange, {} \in SUBSET Process
<1>8. FoundersOK'
  BY <1>1, FoundersKept, {} \in SUBSET Process DEF Live
<1>9. QED
  BY <1>5, <1>6, <1>7, <1>8

\* An owner was found to be allowed to delete an account.
LEMMA CheckDeleteStep == ASSUME SignupInv, NEW p \in Process, CheckDelete(p) PROVE SignupInv'
<1> USE DEF SignupInv
<1>1. /\ UNCHANGED <<domains, lists, accounts, signups, outdated, unsure, ends>> /\ In(p, "idle")
  BY DEF CheckDelete
<1>2. PICK by \in Email, e \in Email : Becomes(p, [step |-> "delete", by |-> by, email |-> e])
  BY DEF CheckDelete, ShapeOK
<1> DEFINE to == [step |-> "delete", by |-> by, email |-> e]
<1>3. to \in Carried
  BY DEF Carried
<1>4. /\ process' \in [Process -> Carried] /\ process'[p] = to
      /\ \A q \in Process : q # p => process'[q] = process[q]
  BY <1>2, <1>3, Taken DEF ShapeOK
<1>5. process'[p].step = "delete"
  BY <1>4
<1>6. ShapeOK'
  BY <1>1, <1>4, <1>5 DEF ShapeOK, Live, lists, accounts, ends, Of, Provisioning
<1>7. ListsOK' /\ ServedExplained'
  BY <1>1, <1>4, <1>5, ServedKept, {p} \in SUBSET Process DEF lists, In
<1>8. OwnersOK'
  BY <1>1, <1>4, <1>5, OwnersKept, {p} \in SUBSET Process
  DEF accounts, ends, In, Finishing, OwnersOK
<1>9. FoundersOK'
  BY <1>1, <1>4, <1>5, FoundersKept, {p} \in SUBSET Process DEF ends, In, Live
<1>10. QED
  BY <1>6, <1>7, <1>8, <1>9

\* The account goes; an owner of the domain with an account is left, or it is on
\* record that there may be none.
LEMMA DeleteUserStep == ASSUME SignupInv, NEW p \in Process, DeleteUser(p) PROVE SignupInv'
<1> USE DomainAssumption DEF SignupInv
<1>1. /\ UNCHANGED <<domains, lists, owners, signups, outdated, unsure, ready, founders, misled>>
      /\ In(p, "delete") /\ Becomes(p, Ready) /\ users' = users \ {Of(p)}
      /\ excused' = IF process[p].by \in users \ {Of(p)} /\ process[p].by \in owners
                       /\ DomainOf(process[p].by) = DomainOfP(p)
                    THEN excused ELSE excused \cup {DomainOfP(p)}
  BY DEF DeleteUser
<1>2. PICK e \in Email : e = Of(p) /\ DomainOfP(p) = DomainOf(e)
  BY <1>1, AtStep DEF ShapeOK, Of, In, DomainOfP
<1>3. Ready \in Carried /\ Ready.step = "idle"
  BY DEF Ready, Carried
<1>4. /\ process' \in [Process -> Carried] /\ process'[p].step = "idle"
      /\ \A q \in Process : q # p => process'[q] = process[q]
  BY <1>1, <1>3, Taken DEF ShapeOK
<1>5. ShapeOK'
  BY <1>1, <1>4 DEF ShapeOK, Live, lists, Of, Provisioning
<1>6. ListsOK' /\ ServedExplained'
  BY <1>1, <1>4, ServedKept, {p} \in SUBSET Process DEF lists, In
<1>7. OwnersOK'
  <2>1. Firm(DomainOf(e))'
    BY <1>1, <1>2 DEF Firm
  <2>2. \A d : Firm(d) => Firm(d)'
    <3> SUFFICES ASSUME NEW d, Firm(d), d # DomainOf(e) PROVE Firm(d)'
      BY <2>1
    <3>1. excused \subseteq excused' /\ \A f \in users : f = e \/ f \in users'
      BY <1>1, <1>2
    <3>2. QED
      BY <1>1, <3>1 DEF Firm
  <2>3. ~In(p, "grant") /\ ~In(p, "grant")' /\ \A f \in Email : ~Finishing(p, f)'
    BY <1>1, <1>4 DEF In, Finishing
  <2>4. \A f \in users \ users' : Firm(DomainOf(f))'
    BY <1>1, <1>2, <2>1
  <2>5. QED
    BY <1>1, <1>4, <2>2, <2>3, <2>4, OwnersChange, {p} \in SUBSET Process
<1>8. FoundersOK'
  BY <1>1, <1>4, FoundersKept, {p} \in SUBSET Process DEF In, Live
<1>9. QED
  BY <1>5, <1>6, <1>7, <1>8

\* A sign-up expires, which leaves it open for its domain.
LEMMA SignupExpiresStep == ASSUME SignupInv, SignupExpires PROVE SignupInv'
<1> USE DEF SignupInv
<1>1. UNCHANGED <<domains, lists, accounts, process, outdated, unsure, ends>>
  BY DEF SignupExpires
<1>2. PICK s \in Signup : signups[s].row = "live" /\ signups' = [signups EXCEPT ![s].row = "expired"]
  BY DEF SignupExpires
<1> DEFINE row == [signups[s] EXCEPT !.row = "expired"]
<1>3. /\ row \in [row : {"none", "live", "expired", "gone"}, email : Email \cup {NotFound}]
      /\ row.row = "expired" /\ row.email = signups[s].email
  BY DEF ShapeOK
<1>4. signups' = [signups EXCEPT ![s] = row]
  BY <1>2
<1>5. /\ signups' \in [Signup -> [row : {"none", "live", "expired", "gone"},
                                  email : Email \cup {NotFound}]]
      /\ \A t \in Signup : /\ signups'[t].email = signups[t].email
                           /\ Live(t)' = Live(t)
                           /\ signups[t].row # "none" => signups'[t].row # "none"
  BY <1>2, <1>3, <1>4 DEF ShapeOK, Live
<1>6. ShapeOK'
  <2>1. \A q \in Process : process[q].step \in Provisioning => process[q].id \in Signup
    BY AtStep DEF ShapeOK, Founding
  <2>2. QED
    BY <1>1, <1>5, <2>1 DEF ShapeOK, lists, accounts, ends, Of
<1>7. ListsOK' /\ ServedExplained'
  BY <1>1, ServedKept, {} \in SUBSET Process DEF lists
<1>8. OwnersOK'
  BY <1>1, OwnersKept, {} \in SUBSET Process DEF accounts, ends, OwnersOK
<1>9. FoundersOK'
  BY <1>1, <1>5, FoundersKept, {} \in SUBSET Process DEF ends
<1>10. QED
  BY <1>6, <1>7, <1>8, <1>9

\* The process restarts with the table's list; grants under way are lost.
LEMMA RestartsStep == ASSUME SignupInv, Restarts PROVE SignupInv'
<1> USE DEF SignupInv
<1>1. /\ UNCHANGED <<domains, accounts, signups, ready, founders, misled>>
      /\ process' = [p \in Process |-> Ready]
      /\ served' = domains /\ added' = {} /\ outdated' = {} /\ unsure' = FALSE
      /\ excused' = excused \cup {DomainOfP(p) : p \in {q \in Process : In(q, "grant")}}
  BY DEF Restarts
<1>2. /\ process' \in [Process -> Carried]
      /\ \A q \in Process : process'[q].step = "idle"
  BY <1>1 DEF Ready, Carried
<1>3. ShapeOK'
  BY <1>1, <1>2 DEF ShapeOK, Live, accounts, Of, Provisioning
<1>4. ListsOK' /\ ServedExplained'
  BY <1>1, <1>2 DEF ListsOK, ServedExplained, In
<1>5. OwnersOK'
  <2>1. excused \subseteq excused'
    BY <1>1
  <2>2. \A d : Firm(d) => Firm(d)'
    BY <1>1, <2>1 DEF Firm, accounts
  <2>3. \A q \in Process, e \in Email : (In(q, "grant") /\ Of(q) = e) => Firm(DomainOf(e))'
    BY <1>1 DEF Firm, DomainOfP
  <2>4. \A q \in Process : ~In(q, "grant")' /\ \A e \in Email : ~Finishing(q, e)'
    BY <1>2 DEF In, Finishing
  <2>5. QED
    BY <1>1, <2>2, <2>3, <2>4, OwnersChange, Process \in SUBSET Process DEF accounts
<1>6. FoundersOK'
  BY <1>1, <1>2, FoundersKept, Process \in SUBSET Process DEF In, Live
<1>7. QED
  BY <1>3, <1>4, <1>5, <1>6

\* Nobody has asked for anything yet.
LEMMA DomainInitially == DomainInit => SignupInv
<1> SUFFICES ASSUME DomainInit PROVE SignupInv
  OBVIOUS
<1>1. /\ process \in [Process -> Carried]
      /\ \A q \in Process : process[q].step = "idle"
  BY DEF DomainInit, Ready, Carried
<1>2. /\ signups \in [Signup -> [row : {"none", "live", "expired", "gone"},
                                 email : Email \cup {NotFound}]]
      /\ \A s \in Signup : ~Live(s)
  BY DEF DomainInit, Live
<1>3. ShapeOK
  BY <1>1, <1>2 DEF DomainInit, ShapeOK, Provisioning
<1>4. ListsOK /\ ServedExplained
  BY <1>1 DEF DomainInit, ListsOK, ServedExplained, In
<1>5. OwnersOK
  BY <1>1 DEF DomainInit, OwnersOK, In, Finishing
<1>6. FoundersOK
  BY <1>1, <1>2 DEF DomainInit, FoundersOK, In
<1>7. QED
  BY <1>3, <1>4, <1>5, <1>6 DEF SignupInv

\* Every step keeps the invariant.
LEMMA DomainStep == SignupInv /\ [DomainNext]_domainVars => SignupInv'
<1> SUFFICES ASSUME SignupInv, [DomainNext]_domainVars PROVE SignupInv'
  OBVIOUS
<1>1. ASSUME NEW p \in Process, Serves(p) PROVE SignupInv'
  BY <1>1, CheckSignupStep, CreateSignupStep, GetSignupStep, GetDomainStep, CreateDomainStep,
     UserExistsStep, CreateUserStep, GrantOwnerStep, ListDomainsStep, LoadDomainsStep,
     DeleteSignupStep, DeleteDomainStep, CheckDeleteStep, DeleteUserStep
  DEF Serves
<1>2. CASE UNCHANGED domainVars
  <2>1. UNCHANGED <<domains, served, users, owners, signups, process, added, outdated, unsure,
                    ready, founders, misled, excused>>
    BY <1>2 DEF domainVars
  <2>2. ShapeOK'
    BY <2>1 DEF SignupInv, ShapeOK, Live, Of
  <2>3. ListsOK' /\ ServedExplained'
    BY <2>1, ServedKept, {} \in SUBSET Process DEF SignupInv
  <2>4. OwnersOK'
    BY <2>1, OwnersKept, {} \in SUBSET Process DEF SignupInv, OwnersOK
  <2>5. FoundersOK'
    BY <2>1, FoundersKept, {} \in SUBSET Process DEF SignupInv, Live
  <2>6. QED
    BY <2>2, <2>3, <2>4, <2>5 DEF SignupInv
<1>3. QED
  BY <1>1, <1>2, RegisterDomainStep, AccountsStep, SignupExpiresStep, RestartsStep
  DEF DomainNext

\* The invariant holds through any interleaving of sign-ups, administration,
\* failing calls and restarts.
THEOREM DomainInv == DomainSpec => []SignupInv
BY DomainInitially, DomainStep, PTL DEF DomainSpec

-----------------------------------------------------------------------------
(* Types                                                                   *)

Load == {p \in Process : In(p, "load")}

\* Lists are outdated while they wait to be installed only.
LEMMA OutdatedLists ==
  ASSUME outdated \subseteq Load, NEW p \in Process,
         \A q \in Process \ {p} : process'[q] = process[q],
         outdated' \subseteq (outdated \cup Load) \ {p}
  PROVE  outdated' \subseteq Load'
BY DEF Load, In

LEMMA ServesTypes ==
  ASSUME ShapeOK, ShapeOK', DomainTypeOK, NEW p \in Process, Serves(p)
  PROVE  DomainTypeOK'
<1>1. \A q \in Process \ {p} : process'[q] = process[q]
  BY DEF ShapeOK, Serves, Becomes, Continues, CheckSignup, CreateSignup, GetSignup, GetDomain,
         CreateDomain, UserExists, CreateUser, GrantOwner, ListDomains, LoadDomainsFromDB,
         DeleteSignup, DeleteDomain, CheckDelete, DeleteUser
<1>2. outdated \subseteq Load /\ (p \notin Load => p \notin outdated)
  BY DEF DomainTypeOK, Load
<1>3. outdated' \subseteq (outdated \cup Load) \ {p}
  <2>1. CASE UNCHANGED outdated /\ ~In(p, "load")
    BY <1>2, <2>1 DEF Load
  <2>2. CASE outdated' = outdated \ {p} \/ Changes(p)
    BY <2>2 DEF Changes, Load
  <2>3. QED
    BY <2>1, <2>2 DEF Serves, In, CheckSignup, CreateSignup, GetSignup, GetDomain,
         CreateDomain, UserExists, CreateUser, GrantOwner, ListDomains, LoadDomainsFromDB,
         DeleteSignup, DeleteDomain, CheckDelete, DeleteUser
<1>4. outdated' \subseteq Load'
  BY <1>1, <1>2, <1>3, OutdatedLists
<1>5. added' \subseteq served'
  BY DEF DomainTypeOK, Serves, lists, CheckSignup, CreateSignup, GetSignup, GetDomain,
         CreateDomain, UserExists, CreateUser, GrantOwner, ListDomains, LoadDomainsFromDB,
         DeleteSignup, DeleteDomain, CheckDelete, DeleteUser
<1>6. misled' \subseteq Domain /\ excused' \subseteq Domain
  <2>1. process[p].step \in Provisioning \cup {"delete"} => DomainOfP(p) \in Domain
    BY AtStep, DomainAssumption DEF ShapeOK, Founding, Of, DomainOfP, In
  <2>2. CASE CheckSignup(p) \/ DeleteDomain(p)
    BY <2>2, DomainAssumption DEF DomainTypeOK, CheckSignup, DeleteDomain
  <2>3. CASE CreateDomain(p) \/ GrantOwner(p) \/ DeleteUser(p)
    BY <2>1, <2>3 DEF DomainTypeOK, Provisioning, In, CreateDomain, GrantOwner, DeleteUser
  <2>4. CASE UNCHANGED <<misled, excused>>
    BY <2>4 DEF DomainTypeOK
  <2>5. QED
    BY <2>2, <2>3, <2>4 DEF Serves, ends, CreateSignup, GetSignup, GetDomain, UserExists,
       CreateUser, ListDomains, LoadDomainsFromDB, DeleteSignup, CheckDelete
<1>7. QED
  BY <1>4, <1>5, <1>6 DEF DomainTypeOK, ShapeOK, Load

LEMMA DomainTypesStep ==
  ShapeOK /\ ShapeOK' /\ DomainTypeOK /\ [DomainNext]_domainVars => DomainTypeOK'
<1> SUFFICES ASSUME ShapeOK, ShapeOK', DomainTypeOK, [DomainNext]_domainVars PROVE DomainTypeOK'
  OBVIOUS
<1>1. ASSUME NEW p \in Process, Serves(p) PROVE DomainTypeOK'
  BY <1>1, ServesTypes
<1>2. CASE RegisterDomain \/ CreateDomainUser \/ SignupExpires
  BY <1>2 DEF DomainTypeOK, ShapeOK, In, RegisterDomain, CreateDomainUser, SignupExpires,
              lists, ends
<1>3. CASE ChangeRole
  <2>1. excused' \subseteq Domain
    BY <1>3, DomainAssumption DEF DomainTypeOK, ShapeOK, ChangeRole
  <2>2. QED
    BY <1>3, <2>1 DEF DomainTypeOK, ShapeOK, In, ChangeRole, lists
<1>4. CASE Restarts
  <2>1. \A q \in Process : In(q, "grant") => DomainOfP(q) \in Domain
    BY AtStep, DomainAssumption DEF ShapeOK, Founding, Of, DomainOfP, In, Provisioning
  <2>2. excused' \subseteq Domain
    BY <1>4, <2>1 DEF DomainTypeOK, Restarts
  <2>3. QED
    BY <1>4, <2>2 DEF DomainTypeOK, ShapeOK, Restarts
<1>5. CASE UNCHANGED domainVars
  BY <1>5 DEF domainVars, DomainTypeOK, In
<1>6. QED
  BY <1>1, <1>2, <1>3, <1>4, <1>5 DEF DomainNext

LEMMA DomainTypesInitially == DomainInit => DomainTypeOK
BY DEF DomainInit, DomainTypeOK

\* Tables, lists and records of sign-ups stay within the domains and addresses
\* there are; what RegisterDomain added is served.
THEOREM DomainTypeCorrect == DomainSpec => []DomainTypeOK
<1>1. (SignupInv => ShapeOK) /\ (SignupInv' => ShapeOK')
  BY DEF SignupInv
<1>2. SignupInv /\ DomainTypeOK /\ [DomainNext]_domainVars => SignupInv' /\ DomainTypeOK'
  BY <1>1, DomainStep, DomainTypesStep
<1>3. QED
  BY <1>2, DomainInitially, DomainTypesInitially, PTL DEF DomainSpec

\* The list of served domains in memory is the table with what RegisterDomain
\* added, except under a request that will reload it or after a reload that
\* failed, was overtaken by a later change, or never came.
THEOREM ServedKnown == DomainSpec => []ServedExplained
BY DomainInv, PTL DEF SignupInv

\* A domain that was signed up for has an owner with an account and one founder,
\* unless one of the reasons on record took the owner away or let a second one in.
THEOREM OwnersKnown == DomainSpec => []OwnersExplained
<1>1. SignupInv => OwnersExplained
  <2> SUFFICES ASSUME SignupInv, NEW d \in ready
               PROVE  /\ \/ \E e \in users \cap owners : DomainOf(e) = d
                         \/ d \in excused \/ \E p \in Process : In(p, "grant") /\ DomainOfP(p) = d
                      /\ d \in misled \/ Cardinality({f \in founders : DomainOf(f) = d}) <= 1
    BY DEF OwnersExplained
  <2>1. Known(d)
    BY DEF SignupInv, OwnersOK
  <2>2. d \in misled \/ Cardinality({f \in founders : DomainOf(f) = d}) <= 1
    <3> DEFINE F == {f \in founders : DomainOf(f) = d}
    <3> SUFFICES ASSUME d \notin misled PROVE Cardinality(F) <= 1
      OBVIOUS
    <3>1. CASE F = {}
      <4>1. Cardinality(F) = 0
        BY <3>1, FS_EmptySet
      <4>2. QED
        BY <4>1
    <3>2. CASE F # {}
      <4>1. PICK f \in F : TRUE
        BY <3>2
      <4>2. F = {f}
        BY <4>1 DEF SignupInv, FoundersOK
      <4>3. Cardinality(F) = 1
        BY <4>2, FS_Singleton
      <4>4. QED
        BY <4>3
    <3>3. QED
      BY <3>1, <3>2
  <2>3. QED
    BY <2>1, <2>2 DEF Known, Firm
<1>2. QED
  BY <1>1, DomainInv, PTL

=============================================================================
