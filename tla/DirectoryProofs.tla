--------------------------- MODULE DirectoryProofs ---------------------------
(***************************************************************************)
(* Resolution of addresses and administration of mailing lists, for every  *)
(* number of addresses, aliases and lists.                                 *)
(***************************************************************************)
EXTENDS Directory, FiniteSetTheorems, WellFoundedInduction, TLAPS

-----------------------------------------------------------------------------
(* Induction                                                               *)

\* A set of natural numbers that is not empty has a least element.  What is
\* proved by induction here is proved for the least counterexample.
LEMMA LeastNumber ==
  ASSUME NEW T \in SUBSET Nat, T # {}
  PROVE  \E n \in T : \A m \in T : n <= m
<1> DEFINE R == OpToRel(<, Nat)
<1>1. \E n \in T : \A m \in T : ~(<<m, n>> \in R)
  <2>1. IsWellFoundedOn(R, Nat)
    BY NatLessThanWellFounded, Zenon
  <2> HIDE DEF R
  <2>2. QED
    BY <2>1, WFMin, Zenon
<1>2. \A m, n \in Nat : m < n => <<m, n>> \in R
  BY Zenon DEF OpToRel
<1> HIDE DEF R
<1>3. \E n \in T : \A m \in T : ~(m < n)
  BY <1>1, <1>2
<1> QED
  BY <1>3

\* A set that holds 0, and with a number its successor up to n, holds 0 .. n.
LEMMA UpTo ==
  ASSUME NEW n \in Nat, NEW G, 0 \in G, \A d \in 0 .. n : d \in G /\ d < n => d + 1 \in G
  PROVE  0 .. n \subseteq G
<1> SUFFICES ASSUME {d \in 0 .. n : d \notin G} # {} PROVE FALSE
  OBVIOUS
<1>1. PICK d \in {e \in 0 .. n : e \notin G} : \A m \in {e \in 0 .. n : e \notin G} : d <= m
  <2>1. {e \in 0 .. n : e \notin G} \in SUBSET Nat
    OBVIOUS
  <2>2. QED
    BY <2>1, LeastNumber
<1>2. d # 0 /\ d - 1 \in 0 .. n /\ d - 1 < n /\ (d - 1) + 1 = d
  BY <1>1
<1>3. d - 1 \in G
  BY <1>1, <1>2
<1> QED
  BY <1>1, <1>2, <1>3

-----------------------------------------------------------------------------
(* Walking through the aliases                                             *)

\* The recursion of ResolveRecipient is well defined: depth 0 is the address
\* itself, and the next depth is where the addresses of the last one lead.
LEMMA WalkSteps ==
  ASSUME NEW aliases, NEW a, NEW W, W = Walk(aliases, a)
  PROVE  /\ W[0] = {a}
         /\ \A d \in 0 .. LoopDepth : W[d + 1] = UNION {Targets(aliases, t) : t \in W[d]}
<1> DEFINE Next(X) == UNION {Targets(aliases, t) : t \in X}
           Built(n, f) == f = [d \in 0 .. n |-> IF d = 0 THEN {a} ELSE Next(f[d - 1])]
           Good == {n \in Nat : \E f : Built(n, f)}
<1> HIDE DEF Next
<1>1. 0 \in Good
  <2>1. Built(0, [d \in 0 .. 0 |-> {a}])
    OBVIOUS
  <2>2. QED
    BY <2>1
<1>2. ASSUME NEW n \in Good PROVE n + 1 \in Good
  <2>1. PICK f : Built(n, f)
    OBVIOUS
  <2> DEFINE g == [d \in 0 .. n + 1 |-> IF d = n + 1 THEN Next(f[n]) ELSE f[d]]
  <2>2. n \in Nat /\ \A d \in 0 .. n : f[d] = IF d = 0 THEN {a} ELSE Next(f[d - 1])
    BY <2>1
  <2>3. ASSUME NEW d \in 0 .. n + 1 PROVE g[d] = IF d = 0 THEN {a} ELSE Next(g[d - 1])
    <3>1. CASE d = n + 1
      BY <2>2, <3>1
    <3>2. CASE d # n + 1
      <4>1. d \in 0 .. n /\ (d # 0 => d - 1 \in 0 .. n + 1 /\ d - 1 # n + 1)
        BY <2>2, <3>2
      <4>2. QED
        BY <2>2, <3>2, <4>1
    <3>3. QED
      BY <3>1, <3>2
  <2>4. Built(n + 1, g)
    BY <2>3
  <2>5. n + 1 \in Nat
    BY <2>2
  <2>6. QED
    BY <2>4, <2>5
<1>3. LoopDepth + 1 \in Good
  <2>1. LoopDepth + 1 \in Nat
    BY DirectoryAssumption
  <2> HIDE DEF Good
  <2>2. 0 .. LoopDepth + 1 \subseteq Good
    BY <1>1, <1>2, <2>1, UpTo
  <2>3. QED
    BY <2>1, <2>2
<1>4. \E f : Built(LoopDepth + 1, f)
  BY <1>3
<1>5. Built(LoopDepth + 1, W)
  <2>1. W = CHOOSE f : Built(LoopDepth + 1, f)
    BY DEF Walk, Next
  <2>2. QED
    BY <1>4, <2>1
<1>6. \A d \in 0 .. LoopDepth + 1 : W[d] = IF d = 0 THEN {a} ELSE Next(W[d - 1])
  BY <1>5
<1>7. W[0] = {a}
  BY <1>6, DirectoryAssumption
<1>8. ASSUME NEW d \in 0 .. LoopDepth PROVE W[d + 1] = Next(W[d])
  <2>1. d + 1 \in 0 .. LoopDepth + 1 /\ d + 1 # 0 /\ (d + 1) - 1 = d
    BY DirectoryAssumption
  <2>2. QED
    BY <1>6, <2>1
<1> QED
  BY <1>7, <1>8 DEF Next

\* What an address leads to is closed under aliases, holds the address, and is
\* the least such set; so what lies on the way leads to no more.
LEMMA ReachClosed ==
  ASSUME DirTypeOK, NEW a \in Addr
  PROVE  /\ a \in Reach(a) /\ Reach(a) \subseteq Addr
         /\ \A b \in Reach(a) : Targets(alias, b) \subseteq Reach(a)
         /\ \A X \in SUBSET Addr :
              a \in X /\ (\A b \in X : Targets(alias, b) \subseteq X) => Reach(a) \subseteq X
         /\ \A b \in Reach(a) : Reach(b) \subseteq Reach(a)
<1>1. \A b \in Addr : Targets(alias, b) \subseteq Addr
  BY DirectoryAssumption DEF DirTypeOK, Targets
<1>2. ASSUME NEW x \in Addr
      PROVE  /\ x \in Reach(x) /\ Reach(x) \subseteq Addr
             /\ \A X \in SUBSET Addr :
                 x \in X /\ (\A b \in X : Targets(alias, b) \subseteq X) => Reach(x) \subseteq X
  BY DEF Reach
<1>3. \A b \in Reach(a) : Targets(alias, b) \subseteq Reach(a)
  BY <1>1 DEF Reach
<1>4. \A b \in Reach(a) : Reach(b) \subseteq Reach(a)
  BY <1>2, <1>3
<1> QED
  BY <1>2, <1>3, <1>4

\* The walk never leaves what the address leads to.
LEMMA WalkStays ==
  ASSUME DirTypeOK, NEW a \in Addr, NEW W, W = Walk(alias, a)
  PROVE  \A d \in 0 .. LoopDepth + 1 : W[d] \subseteq Reach(a)
<1> DEFINE G == {d \in Nat : W[d] \subseteq Reach(a)}
<1>1. 0 \in G
  BY WalkSteps, ReachClosed
<1>2. ASSUME NEW d \in 0 .. LoopDepth + 1, d \in G, d < LoopDepth + 1 PROVE d + 1 \in G
  <2>1. d \in 0 .. LoopDepth /\ d + 1 \in Nat
    BY <1>2, DirectoryAssumption
  <2>2. W[d + 1] = UNION {Targets(alias, t) : t \in W[d]}
    BY <2>1, WalkSteps
  <2>3. W[d] \subseteq Reach(a)
    BY <1>2
  <2>4. W[d + 1] \subseteq Reach(a)
    BY <2>2, <2>3, ReachClosed
  <2>5. QED
    BY <2>1, <2>4
<1> HIDE DEF G
<1>3. 0 .. LoopDepth + 1 \subseteq G
  BY <1>1, <1>2, UpTo, DirectoryAssumption
<1> QED
  BY <1>3 DEF G

\* Within LoopDepth steps the walk has met all of a shallow address's reach: as
\* long as it has not, every depth meets an address that no depth before it did.
LEMMA WalkMeetsAll ==
  ASSUME DirTypeOK, NEW a \in Addr, Shallow(a), NEW W, W = Walk(alias, a)
  PROVE  UNION {W[d] : d \in 0 .. LoopDepth} = Reach(a)
<1> DEFINE Met(d) == UNION {W[e] : e \in 0 .. d}
           G == {d \in Nat : Met(d) = Reach(a) \/ Cardinality(Met(d)) > d}
<1>1. ASSUME NEW d \in 0 .. LoopDepth
      PROVE  /\ Met(d) \subseteq Reach(a)
             /\ IsFiniteSet(Met(d)) /\ Cardinality(Met(d)) \in Nat
             /\ Cardinality(Met(d)) <= Cardinality(Reach(a))
             /\ Cardinality(Met(d)) = Cardinality(Reach(a)) => Met(d) = Reach(a)
  <2>1. Met(d) \subseteq Reach(a)
    BY WalkStays, DirectoryAssumption
  <2> HIDE DEF Met
  <2>2. QED
    BY <2>1, FS_Subset, FS_CardinalityType DEF Shallow
<1>2. Met(0) = {a}
  <2>1. W[0] = {a}
    BY WalkSteps
  <2>2. QED
    BY <2>1
<1>3. 0 \in G
  <2> HIDE DEF Met
  <2>1. Cardinality(Met(0)) = 1
    BY <1>2, FS_Singleton
  <2>2. QED
    BY <2>1
<1>4. ASSUME NEW d \in 0 .. LoopDepth, d \in G, d < LoopDepth PROVE d + 1 \in G
  <2>1. d \in Nat /\ d + 1 \in 0 .. LoopDepth /\ d + 1 \in Nat
    BY <1>4, DirectoryAssumption
  <2>2. Met(d) \subseteq Met(d + 1)
    BY <2>1
  <2>3. \A t \in Met(d) : Targets(alias, t) \subseteq Met(d + 1)
    <3>1. SUFFICES ASSUME NEW e \in 0 .. d, NEW t \in W[e]
                   PROVE  Targets(alias, t) \subseteq Met(d + 1)
      OBVIOUS
    <3>2. e \in 0 .. LoopDepth /\ e + 1 \in 0 .. d + 1
      BY <2>1, DirectoryAssumption
    <3>3. W[e + 1] = UNION {Targets(alias, x) : x \in W[e]}
      BY <3>2, WalkSteps
    <3>4. Targets(alias, t) \subseteq W[e + 1]
      BY <3>3
    <3>5. QED
      BY <3>2, <3>4
  <2>4. a \in Met(d)
    <3>1. a \in W[0] /\ 0 \in 0 .. d
      BY <2>1, WalkSteps
    <3>2. QED
      BY <3>1
  <2> HIDE DEF Met
  <2>5. CASE Met(d + 1) = Met(d)
    <3>1. Met(d) \subseteq Addr
      BY <1>1, ReachClosed
    <3>2. Reach(a) \subseteq Met(d)
      BY <2>3, <2>4, <2>5, <3>1, ReachClosed
    <3>3. Met(d + 1) = Reach(a)
      BY <1>1, <2>1, <2>5, <3>2
    <3>4. QED
      BY <2>1, <3>3
  <2>6. CASE Met(d + 1) # Met(d)
    <3>1. Cardinality(Met(d)) <= Cardinality(Met(d + 1))
          /\ Cardinality(Met(d)) # Cardinality(Met(d + 1))
      BY <1>1, <2>1, <2>2, <2>6, FS_Subset
    <3>2. CASE Met(d) = Reach(a)
      <4>1. Met(d + 1) = Reach(a)
        BY <1>1, <2>1, <2>2, <3>2
      <4>2. QED
        BY <2>1, <4>1
    <3>3. CASE Cardinality(Met(d)) > d
      BY <1>1, <2>1, <3>1, <3>3
    <3>4. QED
      BY <1>4, <3>2, <3>3
  <2>7. QED
    BY <2>5, <2>6
<1>5. LoopDepth \in G
  <2> HIDE DEF G
  <2>1. 0 .. LoopDepth \subseteq G
    BY <1>3, <1>4, UpTo, DirectoryAssumption
  <2>2. QED
    BY <2>1, DirectoryAssumption
<1>6. Met(LoopDepth) = Reach(a)
  <2> HIDE DEF Met
  <2>1. Cardinality(Reach(a)) \in Nat
    BY FS_CardinalityType DEF Shallow
  <2>2. CASE Cardinality(Met(LoopDepth)) > LoopDepth
    BY <1>1, <2>1, <2>2, DirectoryAssumption DEF Shallow
  <2>3. QED
    BY <1>5, <2>2
<1> QED
  BY <1>6

\* Where no loop can be reached, what is left to reach shrinks with every step,
\* so the walk has ended before ResolveRecipient gives up.
LEMMA WalkEnds ==
  ASSUME DirTypeOK, NEW a \in Addr, Shallow(a), \A b \in Reach(a) : ~InLoop(b),
         NEW W, W = Walk(alias, a)
  PROVE  W[LoopDepth + 1] = {}
<1> DEFINE Left(t) == Cardinality(Reach(t))
           G == {d \in Nat : \A t \in W[d] : Left(t) + d <= Left(a)}
<1>1. ASSUME NEW t \in Reach(a)
      PROVE  t \in Addr /\ IsFiniteSet(Reach(t)) /\ Left(t) \in Nat /\ Left(t) > 0
  <2>1. t \in Addr /\ Reach(t) \subseteq Reach(a)
    BY ReachClosed
  <2>2. IsFiniteSet(Reach(t)) /\ Left(t) \in Nat
    BY <2>1, FS_Subset, FS_CardinalityType DEF Shallow
  <2>3. t \in Reach(t)
    BY <2>1, ReachClosed
  <2>4. Left(t) # 0
    BY <2>2, <2>3, FS_EmptySet
  <2>5. QED
    BY <2>1, <2>2, <2>4
<1>2. ASSUME NEW t \in Reach(a), NEW s \in Targets(alias, t)
      PROVE  s \in Reach(a) /\ Left(s) < Left(t)
  <2>1. s \in Reach(t) /\ s \in Reach(a)
    BY <1>1, ReachClosed
  <2>2. Reach(s) \subseteq Reach(t) /\ t \in Reach(t)
    BY <1>1, <2>1, ReachClosed
  <2>3. t \notin Reach(s)
    BY DEF InLoop
  <2>4. Left(s) <= Left(t) /\ Left(s) # Left(t)
    BY <1>1, <2>2, <2>3, FS_Subset
  <2>5. QED
    BY <1>1, <2>1, <2>4
<1>3. a \in Reach(a)
  BY ReachClosed
<1> HIDE DEF Left
<1>4. 0 \in G
  BY <1>1, <1>3, WalkSteps
<1>5. ASSUME NEW d \in 0 .. LoopDepth + 1, d \in G, d < LoopDepth + 1 PROVE d + 1 \in G
  <2>1. d \in 0 .. LoopDepth /\ d + 1 \in Nat
    BY <1>5, DirectoryAssumption
  <2>2. SUFFICES ASSUME NEW s \in W[d + 1] PROVE Left(s) + (d + 1) <= Left(a)
    BY <2>1
  <2>3. W[d + 1] = UNION {Targets(alias, t) : t \in W[d]}
    BY <2>1, WalkSteps
  <2>4. PICK t \in W[d] : s \in Targets(alias, t)
    BY <2>3
  <2>5. t \in Reach(a)
    BY <2>1, WalkStays, DirectoryAssumption
  <2>6. Left(t) + d <= Left(a)
    BY <1>5
  <2>7. QED
    BY <1>1, <1>2, <1>3, <2>1, <2>4, <2>5, <2>6
<1>6. LoopDepth + 1 \in G
  <2> HIDE DEF G
  <2>1. 0 .. LoopDepth + 1 \subseteq G
    BY <1>4, <1>5, UpTo, DirectoryAssumption
  <2>2. QED
    BY <2>1, DirectoryAssumption
<1>7. ASSUME NEW t \in W[LoopDepth + 1] PROVE FALSE
  <2>1. t \in Reach(a)
    BY WalkStays, DirectoryAssumption
  <2>2. Left(a) <= LoopDepth + 1
    BY DEF Shallow, Left
  <2>3. Left(t) + (LoopDepth + 1) <= Left(a)
    BY <1>6
  <2>4. QED
    BY <1>1, <1>3, <2>1, <2>2, <2>3, DirectoryAssumption
<1> QED
  BY <1>7

\* Resolution, for every table of aliases.
LEMMA ResolutionFinds ==
  ASSUME DirTypeOK PROVE ResolveFindsAccounts
<1> SUFFICES ASSUME NEW a \in Addr, NEW accounts,
                    accounts = {b \in Reach(a) \cap user : Targets(alias, b) = {}}
             PROVE  /\ ResolveRecipient(a) \subseteq Reach(a)
                    /\ Shallow(a) => accounts \subseteq ResolveRecipient(a)
                    /\ Shallow(a) /\ (\A b \in Reach(a) : ~InLoop(b))
                         => ResolveRecipient(a) = accounts
  BY DEF ResolveFindsAccounts
<1> DEFINE W == Walk(alias, a)
           Visited == UNION {W[d] : d \in 0 .. LoopDepth}
<1>1. ResolveRecipient(a) = {t \in Visited : Targets(alias, t) = {} /\ t \in user}
                              \cup W[LoopDepth + 1]
  BY DEF ResolveRecipient, ResolveWith
<1>2. Visited \subseteq Reach(a) /\ W[LoopDepth + 1] \subseteq Reach(a)
  BY WalkStays, DirectoryAssumption
<1>3. Shallow(a) => Visited = Reach(a)
  BY WalkMeetsAll
<1>4. Shallow(a) /\ (\A b \in Reach(a) : ~InLoop(b)) => W[LoopDepth + 1] = {}
  BY WalkEnds
<1> HIDE DEF W, Visited
<1> QED
  BY <1>1, <1>2, <1>3, <1>4

-----------------------------------------------------------------------------
(* Administration                                                          *)


\* Where no list answers for its members, or soon none will, every member is one
\* that was written there or whose deletion failed.
StrayKnown ==
  \A l \in List : (l \notin list \/ l \in dropping) => member[l] \subseteq stray[l]

IInv == DirTypeOK /\ StrayKnown

\* Every statement of the administration keeps the types and the members of
\* absent lists on record.
LEMMA DirStep == IInv /\ [DirNext]_dirVars => IInv'
<1> SUFFICES ASSUME IInv, [DirNext]_dirVars PROVE IInv'
  OBVIOUS
<1> USE DirectoryAssumption DEF IInv, DirTypeOK, StrayKnown
<1>1. ASSUME NEW a \in Addr, CreateUser(a) \/ DeleteUser(a)
      PROVE  IInv'
  BY <1>1 DEF CreateUser, DeleteUser
<1>2. ASSUME NEW key \in AliasKey, NEW targets \in SUBSET Addr, CreateAlias(key, targets)
      PROVE  IInv'
  BY <1>2 DEF CreateAlias
<1>3. ASSUME NEW key \in AliasKey, DeleteAlias(key)
      PROVE  IInv'
  BY <1>3 DEF DeleteAlias
<1>4. ASSUME NEW l \in List, CreateMailingList(l)
      PROVE  IInv'
  BY <1>4 DEF CreateMailingList
<1>5. ASSUME NEW l \in List, DeleteListMembers(l)
      PROVE  IInv'
  <2>1. DirTypeOK'
    BY <1>5 DEF DeleteListMembers
  <2>2. StrayKnown'
    BY <1>5 DEF DeleteListMembers
  <2>3. QED
    BY <2>1, <2>2
<1>6. ASSUME NEW l \in List, DeleteListRow(l)
      PROVE  IInv'
  BY <1>6 DEF DeleteListRow
<1>7. ASSUME NEW l \in List, NEW a \in Addr, AddListMember(l, a)
      PROVE  IInv'
  <2>1. DirTypeOK'
    BY <1>7 DEF AddListMember
  <2>2. StrayKnown'
    BY <1>7 DEF AddListMember
  <2>3. QED
    BY <2>1, <2>2
<1>8. CASE UNCHANGED dirVars
  BY <1>8 DEF dirVars
<1>9. QED
  BY <1>1, <1>2, <1>3, <1>4, <1>5, <1>6, <1>7, <1>8 DEF DirNext

\* The invariant holds whatever administrators do and whichever statements fail.
THEOREM DirInv == DirSpec => []IInv
<1>1. DirInit => IInv
  BY DirectoryAssumption DEF DirInit, IInv, DirTypeOK, StrayKnown
<1>2. QED
  BY <1>1, DirStep, PTL DEF DirSpec

\* The tables keep their types: a key holds targets or none, and a list that is
\* being deleted is one that administrators made.
THEOREM DirTypeCorrect == DirSpec => []DirTypeOK
BY DirInv, PTL DEF IInv

\* ResolveRecipient stays within what an address leads to, and finds every
\* account there that it need not go deeper than LoopDepth for, whatever loops
\* and shadowed accounts administrators have made.
THEOREM ResolutionIsRight == DirSpec => []ResolveFindsAccounts
BY DirInv, ResolutionFinds, PTL DEF IInv

\* A list that is created has no member but those AddListMember wrote without
\* it, or that DeleteMailingList failed to delete with the list before it.
THEOREM NewListStartsEmpty == DirSpec => NewListIsEmpty
<1> DEFINE Starts == \A l \in List : (l \in list' /\ l \notin list) => member[l] \subseteq stray[l]
<1>1. IInv /\ [DirNext]_dirVars => [Starts]_dirVars
  BY DEF IInv, StrayKnown
<1>2. QED
  BY <1>1, DirInv, PTL DEF DirSpec, NewListIsEmpty

=============================================================================
