------------------------------ MODULE Directory ------------------------------
(***************************************************************************)
(* Who an address stands for: the accounts, aliases, catch-alls and        *)
(* mailing lists that administrators keep (internal/store/database.go,     *)
(* internal/web/api_handlers.go), and ResolveRecipient                     *)
(* (internal/store/store.go), which follows them for every recipient.      *)
(***************************************************************************)
EXTENDS Naturals, FiniteSets

CONSTANTS Addr, Domain,
          DomainOf,   \* SplitEmail: the domain of each address
          AliasKey,   \* the aliases and catch-alls administrators create
          List,       \* the mailing list addresses they create
          LoopDepth   \* ResolveRecipient gives up below this depth: 10

ASSUME DirectoryAssumption ==
  /\ DomainOf \in [Addr -> Domain]
  /\ Addr \cap Domain = {}
  /\ AliasKey \subseteq Addr \cup Domain
  /\ List \subseteq Addr
  /\ LoopDepth \in Nat

VARIABLES
  user,      \* user_account
  alias,     \* mail_alias by address, or by domain for the key "@domain"
  list,      \* mailing_list
  member,    \* list_member, which needs no row in mailing_list
  dropping,  \* lists whose members are deleted and whose own row is not yet
  stray      \* members written for no list, or for one being deleted (history)

dirVars == <<user, alias, list, member, dropping, stray>>

DirTypeOK == /\ user \subseteq Addr
             /\ alias \in [Addr \cup Domain -> SUBSET Addr]
             /\ list \subseteq List
             /\ member \in [List -> SUBSET Addr]
             /\ dropping \subseteq List
             /\ stray \in [List -> SUBSET Addr]

DirInit == /\ user = {}
           /\ alias = [key \in Addr \cup Domain |-> {}]
           /\ list = {}
           /\ member = [l \in List |-> {}]
           /\ dropping = {}
           /\ stray = [l \in List |-> {}]

-----------------------------------------------------------------------------
(* Resolution                                                              *)

\* Where mail for an address is sent on to: its alias, or else the catch-all
\* of its domain, which is looked up before the accounts are.
Targets(aliases, a) == IF aliases[a] # {} THEN aliases[a] ELSE aliases[DomainOf[a]]

\* Fault: the targets of an alias are not looked up again.
ResolveOnce(aliases, accounts, a) ==
  {t \in {a} \cup Targets(aliases, a) : Targets(aliases, t) = {} /\ t \in accounts}

\* Walk(aliases, a)[d] is the set of addresses ResolveRecipient is called with
\* at depth d.  The ones with no target are returned if they have an account;
\* what is reached beyond LoopDepth is returned unseen.
Walk(aliases, a) ==
  LET W[d \in 0 .. LoopDepth + 1] ==
        IF d = 0 THEN {a} ELSE UNION {Targets(aliases, t) : t \in W[d - 1]}
  IN W
ResolveWith(aliases, accounts, a) ==
  LET W == Walk(aliases, a)
      Visited == UNION {W[d] : d \in 0 .. LoopDepth}
  IN {t \in Visited : Targets(aliases, t) = {} /\ t \in accounts}
       \cup W[LoopDepth + 1]

ResolveRecipient(a) == ResolveWith(alias, user, a)

\* The same when the lookups in "failed" return an error: a failing alias
\* lookup reads as no alias, a failing account lookup as no account.
ResolveDespite(failed, a) ==
  ResolveWith([key \in DOMAIN alias |-> IF key \in failed THEN {} ELSE alias[key]],
              user \ failed, a)

-----------------------------------------------------------------------------
(* Administration                                                          *)

CreateUser(a) == /\ a \notin user
                 /\ user' = user \cup {a}
                 /\ UNCHANGED <<alias, list, member, dropping, stray>>

\* Aliases, memberships and lists that name the user stay.
DeleteUser(a) == /\ user' = user \ {a}
                 /\ UNCHANGED <<alias, list, member, dropping, stray>>

\* Fault: the key is stored among its own targets.
CreateAliasFaulty(key, targets) ==
  /\ alias[key] = {}
  /\ alias' = [alias EXCEPT ![key] = targets \cup {key}]
  /\ UNCHANGED <<user, list, member, dropping, stray>>

\* Nothing is checked: the alias may shadow an account, name no account, or
\* close a loop.  Its key is the primary key of the table.
CreateAlias(key, targets) ==
  /\ alias[key] = {}
  /\ alias' = [alias EXCEPT ![key] = targets]
  /\ UNCHANGED <<user, list, member, dropping, stray>>

DeleteAlias(key) == /\ alias' = [alias EXCEPT ![key] = {}]
                    /\ UNCHANGED <<user, list, member, dropping, stray>>

CreateMailingList(l) == /\ l \notin list
                        /\ list' = list \cup {l}
                        /\ UNCHANGED <<user, alias, member, dropping, stray>>

DeleteNoMembers(l) ==     \* fault: the members stay
  /\ l \notin dropping
  /\ dropping' = dropping \cup {l}
  /\ UNCHANGED <<user, alias, list, member, stray>>

\* DeleteMailingList, first statement; its error is dropped.
DeleteListMembers(l) ==
  /\ l \notin dropping
  /\ dropping' = dropping \cup {l}
  /\ \/ /\ member' = [member EXCEPT ![l] = {}]
        /\ stray' = [stray EXCEPT ![l] = {}]
     \/ /\ stray' = [stray EXCEPT ![l] = @ \cup member[l]]
        /\ UNCHANGED member
  /\ UNCHANGED <<user, alias, list>>

\* Second statement: the row goes, or it fails or the process dies before it.
DeleteListRow(l) == /\ l \in dropping
                    /\ dropping' = dropping \ {l}
                    /\ list' \in {list \ {l}, list}
                    /\ UNCHANGED <<user, alias, member, stray>>

AddListMember(l, a) ==
  /\ member' = [member EXCEPT ![l] = @ \cup {a}]
  /\ stray' = IF l \notin list \/ l \in dropping
              THEN [stray EXCEPT ![l] = @ \cup {a}] ELSE stray
  /\ UNCHANGED <<user, alias, list, dropping>>

DirNext == \/ \E a \in Addr : CreateUser(a) \/ DeleteUser(a)
           \/ \E key \in AliasKey :
                \/ \E targets \in SUBSET Addr \ {{}} : CreateAlias(key, targets)
                \/ DeleteAlias(key)
           \/ \E l \in List : \/ CreateMailingList(l)
                              \/ DeleteListMembers(l) \/ DeleteListRow(l)
                              \/ \E a \in Addr : AddListMember(l, a)

DirSpec == DirInit /\ [][DirNext]_dirVars

-----------------------------------------------------------------------------
(* Properties                                                              *)

\* All the addresses that aliases and catch-alls lead to from a, and a.
Reach(a) == LET Closed(S) == a \in S /\ \A b \in S : Targets(alias, b) \subseteq S
            IN {b \in Addr : \A S \in SUBSET Addr : Closed(S) => b \in S}

InLoop(a) == \E b \in Targets(alias, a) : a \in Reach(b)

\* What an address leads to is within the depth that ResolveRecipient follows.
Shallow(a) == IsFiniteSet(Reach(a)) /\ Cardinality(Reach(a)) <= LoopDepth + 1

\* Resolution never leaves what the address leads to.  Where that is no more
\* than LoopDepth + 1 addresses, it finds every account among them, whatever
\* the order and the loops on the way; and where no loop can be reached
\* either, it finds nothing else.
ResolveFindsAccounts ==
  \A a \in Addr :
    LET accounts == {b \in Reach(a) \cap user : Targets(alias, b) = {}} IN
    /\ ResolveRecipient(a) \subseteq Reach(a)
    /\ Shallow(a) => accounts \subseteq ResolveRecipient(a)
    /\ Shallow(a) /\ (\A b \in Reach(a) : ~InLoop(b)) => ResolveRecipient(a) = accounts

\* An account that no alias renames gets the mail sent to its address.
AccountsKeepTheirMail == \A a \in user : alias[a] = {} => a \in ResolveRecipient(a)

\* A new mailing list starts empty, except for members that were written
\* while it did not exist, or whose deletion with the previous list failed.
NewListIsEmpty ==
  [][\A l \in List : (l \in list' /\ l \notin list) => member[l] \subseteq stray[l]]_dirVars
=============================================================================
