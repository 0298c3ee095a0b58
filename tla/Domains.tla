------------------------------- MODULE Domains ------------------------------
(***************************************************************************)
(* Domains, their sign-up and their owners: signup_handlers.go,            *)
(* domain_user_handlers.go and superadmin_handlers.go (internal/web),      *)
(* RegisterDomain (internal/admin) and the list of served domains that     *)
(* config.go keeps in memory and Store.RefreshDomains reloads.  Every      *)
(* database call is a step; requests interleave between them, writes may   *)
(* fail, and the process may restart.                                      *)
(***************************************************************************)
EXTENDS Database, FiniteSets

CONSTANTS Domain, Email,  \* an address is an account's name and its domain
          Signup,         \* ids of sign-ups, drawn at random
          Process         \* requests in flight

ASSUME DomainAssumption == \A e \in Email : DomainOf(e) \in Domain

VARIABLES domains,    \* the domain table
          served,     \* cfg.Domains
          users,      \* accounts
          owners,     \* addresses with a row of role owner in user_permission;
                      \* rows stay when the account goes
          signups,    \* domain_signup: per id, the state of its row and its email
          process,    \* per request: its step and what it carries
          added,      \* (history) domains RegisterDomain has added since the last reload
          outdated,   \* (history) requests holding a list read before a change
          unsure,     \* (history) the last reload failed, was overtaken or never came
          ready,      \* (history) domains whose sign-up was answered "is ready"
          founders,   \* (history) accounts made owner by a sign-up
          misled,     \* (history) domains a sign-up was checked for too early,
                      \* or deleted during one, or founded by one that was over
          excused     \* (history) domains whose owner went by request, or was never made

domainVars == <<domains, served, users, owners, signups, process,
                added, outdated, unsure, ready, founders, misled, excused>>
lists == <<served, added>>
accounts == <<users, owners>>
ends == <<ready, founders, misled, excused>>

Ready == [step |-> "idle"]
DomainInit ==
  /\ domains = {} /\ served = {} /\ users = {} /\ owners = {}
  /\ signups = [s \in Signup |-> [row |-> "none", email |-> NotFound]]
  /\ process = [p \in Process |-> Ready]
  /\ added = {} /\ outdated = {} /\ unsure = FALSE
  /\ ready = {} /\ founders = {} /\ misled = {} /\ excused = {}

In(p, step) == process[p].step = step
Becomes(p, to) == process' = [process EXCEPT ![p] = to]
Continues(p, step) == process' = [process EXCEPT ![p].step = step]
Of(p) == process[p].email
DomainOfP(p) == DomainOf(Of(p))

-----------------------------------------------------------------------------
(* createSignup                                                            *)

\* IsDomainServed looks at the list in memory, UserExistsByEmail at the table.
CheckSignup(p) ==
  /\ In(p, "idle")
  /\ \E e \in Email :
       /\ DomainOf(e) \notin served /\ e \notin users
       /\ Becomes(p, [step |-> "insert", email |-> e])
       /\ misled' = IF DomainOf(e) \in domains THEN misled \cup {DomainOf(e)} ELSE misled
  /\ UNCHANGED <<domains, lists, accounts, signups, outdated, unsure, ready, founders, excused>>
\* One sign-up a domain, whether or not it has expired.
Pending(d) == \E s \in Signup : /\ signups[s].row \in {"live", "expired"}
                                /\ DomainOf(signups[s].email) = d
NewSignup(e) == \E s \in Signup : /\ signups[s].row = "none"
                                  /\ signups' = [signups EXCEPT ![s] = [row |-> "live", email |-> e]]
CreateSignupFaulty(p) ==   \* Fault: the domain column is not unique
  /\ In(p, "insert") /\ Becomes(p, Ready)
  /\ NewSignup(Of(p))
  /\ UNCHANGED <<domains, lists, accounts, outdated, unsure, ends>>
CreateSignup(p) ==
  /\ In(p, "insert") /\ Becomes(p, Ready)
  /\ \/ ~Pending(DomainOfP(p)) /\ NewSignup(Of(p))
     \/ Pending(DomainOfP(p)) /\ UNCHANGED signups
  /\ UNCHANGED <<domains, lists, accounts, outdated, unsure, ends>>

-----------------------------------------------------------------------------
(* HandleSignupVerify, APIVerifySignup: provisionDomain                    *)

\* The sign-up has not expired and the domain's MX record points here.
GetSignup(p) ==
  /\ In(p, "idle")
  /\ \E s \in Signup :
       /\ signups[s].row = "live"
       /\ Becomes(p, [step |-> "domain", email |-> signups[s].email, id |-> s])
  /\ UNCHANGED <<domains, lists, accounts, signups, outdated, unsure, ends>>
GetDomain(p) ==
  /\ In(p, "domain")
  /\ Continues(p, IF DomainOfP(p) \in domains THEN "exists" ELSE "create")
  /\ UNCHANGED <<domains, lists, accounts, signups, outdated, unsure, ends>>
\* Lists that were read before the table changed are out of date.
Changes(p) == outdated' = (outdated \cup {q \in Process : In(q, "load")}) \ {p}
CreateDomain(p) ==
  /\ In(p, "create")
  /\ LET d == DomainOfP(p)
     IN \/ /\ d \notin domains /\ domains' = domains \cup {d}
           /\ Continues(p, "exists") /\ Changes(p)
           /\ misled' = IF \E q \in Process : In(q, "insert") /\ DomainOfP(q) = d
                        THEN misled \cup {d} ELSE misled
        \/ Becomes(p, Ready) /\ UNCHANGED <<domains, outdated, misled>>
  /\ UNCHANGED <<lists, accounts, signups, unsure, ready, founders, excused>>
UserExists(p) ==
  /\ In(p, "exists")
  /\ Continues(p, IF Of(p) \in users THEN "list" ELSE "user")
  /\ UNCHANGED <<domains, lists, accounts, signups, outdated, unsure, ends>>
\* Without an account the request fails, and the list is not reloaded.
CreateUser(p) ==
  /\ In(p, "user")
  /\ \/ Of(p) \notin users /\ users' = users \cup {Of(p)} /\ Continues(p, "grant") /\ UNCHANGED unsure
     \/ Becomes(p, Ready) /\ unsure' = TRUE /\ UNCHANGED users
  /\ UNCHANGED <<domains, lists, owners, signups, outdated, ends>>
\* The error is dropped, and a retry skips the grant with the account.
GrantOwner(p) ==
  /\ In(p, "grant") /\ Continues(p, "list")
  /\ \/ /\ owners' = owners \cup {Of(p)}
        /\ founders' = IF DomainOfP(p) \in domains THEN founders \cup {Of(p)} ELSE founders
        /\ excused' = IF Of(p) \in users THEN excused \ {DomainOfP(p)} ELSE excused
     \/ excused' = excused \cup {DomainOfP(p)} /\ UNCHANGED <<owners, founders>>
  /\ misled' = IF signups[process[p].id].row = "gone" THEN misled \cup {DomainOfP(p)} ELSE misled
  /\ UNCHANGED <<domains, lists, users, signups, outdated, unsure, ready>>
ListDomainsFaulty(p) ==   \* Fault: a domain that was there before is not worth a reload
  /\ In(p, "list") /\ Continues(p, "clean")
  /\ UNCHANGED <<domains, lists, accounts, signups, outdated, unsure, ends>>
ListDomains(p) ==
  /\ In(p, "list")
  /\ \/ /\ Becomes(p, [step |-> "load", was |-> process[p], list |-> domains])
        /\ outdated' = outdated \ {p} /\ UNCHANGED unsure
     \/ Continues(p, "clean") /\ unsure' = TRUE /\ UNCHANGED outdated
  /\ UNCHANGED <<domains, lists, accounts, signups, ends>>
LoadDomainsFromDB(p) ==
  /\ In(p, "load") /\ Becomes(p, [process[p].was EXCEPT !.step = "clean"])
  /\ served' = process[p].list /\ added' = {}
  /\ unsure' = (p \in outdated) /\ outdated' = outdated \ {p}
  /\ UNCHANGED <<domains, accounts, signups, ends>>
\* The DNS records are saved, the sign-up is deleted and the visitor signed in.
DeleteSignup(p) ==
  /\ In(p, "clean") /\ Becomes(p, Ready)
  /\ IF process[p].id = NotFound THEN UNCHANGED <<signups, ready>>
     ELSE /\ ready' = ready \cup {DomainOfP(p)}
          /\ \/ signups' = [signups EXCEPT ![process[p].id].row = "gone"]
             \/ UNCHANGED signups
  /\ UNCHANGED <<domains, lists, accounts, outdated, unsure, founders, misled, excused>>

-----------------------------------------------------------------------------
(* HandleSuperAdmin, APISuperAdminDomains; RegisterDomain                  *)

Provisioning == {"domain", "create", "exists", "user", "grant"}
\* The domain goes, its accounts and permissions stay; then a reload.
DeleteDomain(p) ==
  /\ In(p, "idle")
  /\ \E d \in domains, e \in Email :
       /\ DomainOf(e) = d /\ domains' = domains \ {d}
       /\ Becomes(p, [step |-> "list", email |-> e, id |-> NotFound])
       /\ ready' = ready \ {d}
       /\ founders' = {f \in founders : DomainOf(f) # d}
       /\ misled' = IF \E q \in Process : /\ process[q].step \in Provisioning
                                          /\ DomainOfP(q) = d
                    THEN misled \cup {d} ELSE misled \ {d}
  /\ Changes(p)
  /\ UNCHANGED <<served, added, accounts, signups, unsure, excused>>
\* cfg.AddDomain; nothing is written to the database.
RegisterDomain ==
  /\ \E d \in Domain \ served : /\ served' = served \cup {d} /\ added' = added \cup {d}
  /\ UNCHANGED <<domains, accounts, signups, process, outdated, unsure, ends>>

-----------------------------------------------------------------------------
(* HandleDomainUsers, APIDomainUsers, asked by an owner; an admin may do no *)
(* more.  The owner is signed in, which it remains when its account goes.   *)

isOwner(e) == e \in owners
CreateDomainUser ==
  /\ \E by \in Email, e \in Email \ users :
       /\ isOwner(by) /\ DomainOf(e) = DomainOf(by)
       /\ users' = users \cup {e}
       /\ \/ UNCHANGED owners
          \/ owners' = owners \cup {e}
  /\ UNCHANGED <<domains, lists, signups, process, outdated, unsure, ends>>
ChangeRole ==
  /\ \E by \in Email, e \in users :
       /\ isOwner(by)
       /\ \/ owners' = owners \ {e} /\ excused' = excused \cup {DomainOf(e)}
          \/ owners' = owners \cup {e} /\ UNCHANGED excused
  /\ UNCHANGED <<domains, lists, users, signups, process, outdated, unsure, ready, founders, misled>>
CheckDelete(p) ==
  /\ In(p, "idle")
  /\ \E by \in Email, e \in users :
       /\ isOwner(by)
       /\ Becomes(p, [step |-> "delete", by |-> by, email |-> e])
  /\ UNCHANGED <<domains, lists, accounts, signups, outdated, unsure, ends>>
\* The page refuses to delete oneself; the API does not.
DeleteUser(p) ==
  /\ In(p, "delete") /\ Becomes(p, Ready)
  /\ users' = users \ {Of(p)}
  /\ excused' = IF process[p].by \in users \ {Of(p)} /\ process[p].by \in owners
                   /\ DomainOf(process[p].by) = DomainOfP(p)
                THEN excused ELSE excused \cup {DomainOfP(p)}
  /\ UNCHANGED <<domains, lists, owners, signups, outdated, unsure, ready, founders, misled>>

-----------------------------------------------------------------------------
SignupExpires ==
  /\ \E s \in Signup : /\ signups[s].row = "live"
                       /\ signups' = [signups EXCEPT ![s].row = "expired"]
  /\ UNCHANGED <<domains, lists, accounts, process, outdated, unsure, ends>>
\* main: RefreshDomains.  A request that had made the account had not granted it.
Restarts ==
  /\ process' = [p \in Process |-> Ready]
  /\ served' = domains /\ added' = {} /\ outdated' = {} /\ unsure' = FALSE
  /\ excused' = excused \cup {DomainOfP(p) : p \in {q \in Process : In(q, "grant")}}
  /\ UNCHANGED <<domains, accounts, signups, ready, founders, misled>>

Serves(p) == \/ CheckSignup(p) \/ CreateSignup(p)
             \/ GetSignup(p) \/ GetDomain(p) \/ CreateDomain(p) \/ UserExists(p)
             \/ CreateUser(p) \/ GrantOwner(p) \/ ListDomains(p) \/ LoadDomainsFromDB(p)
             \/ DeleteSignup(p) \/ DeleteDomain(p) \/ CheckDelete(p) \/ DeleteUser(p)
DomainNext == \/ \E p \in Process : Serves(p)
              \/ RegisterDomain \/ CreateDomainUser \/ ChangeRole
              \/ SignupExpires \/ Restarts
DomainSpec == DomainInit /\ [][DomainNext]_domainVars

-----------------------------------------------------------------------------
(* Properties                                                              *)

DomainTypeOK ==
  /\ domains \subseteq Domain /\ added \subseteq served
  /\ founders \cup users \subseteq Email /\ misled \cup excused \cup ready \subseteq Domain
  /\ outdated \subseteq {p \in Process : In(p, "load")}

\* The list in memory is the table, with what RegisterDomain has added since
\* the last reload, except while a request is between its change and its
\* reload, or after a reload that failed, was overtaken or never came.
ServedExplained ==
  \/ unsure
  \/ \E p \in Process : process[p].step \in {"exists", "user", "grant", "list", "load"}
  \/ served = domains \cup added

\* A domain whose sign-up was answered has an owner with an account, unless
\* the grant was lost, the owner was demoted or deleted itself, or the request
\* to delete it came from somebody with no account any more.  It has a second
\* founder only if the second sign-up was checked before the domain was served,
\* or the domain was deleted under a sign-up, or one was verified again just as
\* it was finished.
OwnersExplained ==
  \A d \in ready :
    /\ \/ \E e \in users \cap owners : DomainOf(e) = d
       \/ d \in excused \/ \E p \in Process : In(p, "grant") /\ DomainOfP(p) = d
    /\ d \in misled \/ Cardinality({f \in founders : DomainOf(f) = d}) <= 1

\* "Domain is persisted in the database (domain table)": a domain registered
\* through the admin API is served until it is deleted.
RegisteredStaysServed == [][added \subseteq served']_domainVars
=============================================================================
