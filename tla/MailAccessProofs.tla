-------------------------- MODULE MailAccessProofs ---------------------------
(***************************************************************************)
(* Readers of mailboxes, for any number of messages, users and             *)
(* connections: whose mail a connection works on, who has asked for what   *)
(* is removed, and when it goes.                                           *)
(***************************************************************************)
EXTENDS MailAccess, FiniteSetTheorems, SequenceTheorems, TLAPS

\* The message a POP3 connection is to delete under a number was asked for,
\* or has taken the number of one that was.
NumbersAsked ==
  \A p \in Pop : \A n \in deleted[p] \cap DOMAIN view[p] : view[p][n] \in asked \cup misnumbered
\* The same for the copies an IMAP connection has marked.
CopiesAsked == \A i \in Imap : ideleted[i] \subseteq asked \cup undone \cup misnumbered
\* LOGIN sets the account and takes its password in one step.
LoginProven == \A i \in Imap : iname[i] # Nobody => iname[i] \in proven[i]

IInv == /\ TypeOK
        /\ NumbersAsked /\ CopiesAsked /\ LoginProven
        /\ RemovedWasAsked /\ OnlyProvenAccounts /\ MarkedIsPending

-----------------------------------------------------------------------------

\* A list of messages is a sequence of messages of that account.
LEMMA ListedAreOwned ==
  ASSUME NEW u, NEW s \in ListMessages(u)
  PROVE  /\ s \in Seq(Msg)
         /\ \A n \in DOMAIN s : Owner[s[n]] = u
<1> DEFINE M == {m \in Msg : Owner[m] = u /\ row[m] = "here"}
<1>1. Cardinality(M) \in Nat
  BY AccessAssumption, FS_Subset, FS_CardinalityType
<1>2. s \in [1..Cardinality(M) -> M]
  BY DEF ListMessages, Sorted
<1>3. s \in [1..Cardinality(M) -> Msg] /\ DOMAIN s = 1..Cardinality(M)
  BY <1>2
<1>4. s \in Seq(Msg)
  BY <1>1, <1>3, SeqDef
<1> QED
  BY <1>2, <1>3, <1>4

\* A message named by a number in a STORE or FETCH is one of the list.
LEMMA NamedIsListed ==
  ASSUME TypeOK, NEW i \in Imap, Listed(i), NEW n \in Typed(i)
  PROVE  \E k \in DOMAIN iview[i] : Named(i, n) = iview[i][k] /\ (n \in DOMAIN iview[i] => n = k)
<1>1. iview[i] \in Seq(Msg) /\ iview[i] # <<>> /\ n \in Int
  BY DEF TypeOK, Listed, Typed
<1>2. Len(iview[i]) \in Nat \ {0} /\ DOMAIN iview[i] = 1..Len(iview[i])
  BY <1>1
<1>3. parseSeqNum(n, Len(iview[i])) \in DOMAIN iview[i]
  BY <1>1, <1>2 DEF parseSeqNum
<1> QED
  BY <1>1, <1>2, <1>3 DEF Named, parseSeqNum

-----------------------------------------------------------------------------
LEMMA TypeStep == TypeOK /\ [Next]_vars => TypeOK'
<1> SUFFICES ASSUME TypeOK, [Next]_vars PROVE TypeOK'
  OBVIOUS
<1> USE DEF popVars, imapVars, noteVars
<1>1. ASSUME NEW m \in Msg, Arrive(m) PROVE TypeOK'
  <2>1. Cardinality({n \in Msg : row[n] # "none"}) \in Nat
    BY AccessAssumption, FS_Subset, FS_CardinalityType
  <2> QED BY <1>1, <2>1 DEF TypeOK, Arrive
<1>2. ASSUME NEW m \in Msg, ReadMessage(m) PROVE TypeOK'
  BY <1>2 DEF TypeOK, ReadMessage
<1>3. ASSUME NEW m \in Msg, WebDelete(m) PROVE TypeOK'
  BY <1>3 DEF TypeOK, WebDelete, DeleteMessageFull
<1>4. ASSUME NEW p \in Pop, NEW u \in User, handleUser(p, u) PROVE TypeOK'
  BY <1>4 DEF TypeOK, handleUser
<1>5. ASSUME NEW p \in Pop, handlePass(p) PROVE TypeOK'
  <2>1. PICK msgs \in ListMessages(name[p]) :
           LET newest == [n \in DOMAIN msgs |-> msgs[Len(msgs) + 1 - n]] IN
             /\ view' = [view EXCEPT ![p] = newest]
             /\ misnumbered' = misnumbered \cup {newest[n] : n \in deleted[p] \cap DOMAIN newest}
    BY <1>5 DEF handlePass
  <2> DEFINE newest == [n \in DOMAIN msgs |-> msgs[Len(msgs) + 1 - n]]
  <2>2. msgs \in Seq(Msg)
    BY ListedAreOwned
  <2>3. newest \in Seq(Msg)
    <3>1. Len(msgs) \in Nat /\ DOMAIN msgs = 1..Len(msgs)
      BY <2>2
    <3>2. newest \in [1..Len(msgs) -> Msg]
      BY <2>2, <3>1
    <3> QED BY <3>1, <3>2, SeqDef
  <2>4. view' \in [Pop -> Seq(Msg)] /\ misnumbered' \subseteq Msg
    BY <2>1, <2>3 DEF TypeOK
  <2> QED BY <1>5, <2>4 DEF TypeOK, handlePass
<1>6. ASSUME NEW p \in Pop, handleRset(p) PROVE TypeOK'
  BY <1>6 DEF TypeOK, handleRset
<1>7. ASSUME NEW p \in Pop, handleQuit(p) PROVE TypeOK'
  BY <1>7 DEF TypeOK, handleQuit
<1>8. ASSUME NEW p \in Pop, NEW n \in DOMAIN view[p], handleDele(p, n) PROVE TypeOK'
  <2>1. view[p][n] \in Msg /\ n \in Nat
    BY DEF TypeOK
  <2> QED BY <1>8, <2>1 DEF TypeOK, handleDele
<1>9. ASSUME NEW p \in Pop, QuitDeletes(p) PROVE TypeOK'
  BY <1>9 DEF TypeOK, QuitDeletes, DeleteMessageFull
<1>10. ASSUME NEW p \in Pop, PopEnds(p) PROVE TypeOK'
  BY <1>10 DEF TypeOK, PopEnds
<1>11. ASSUME NEW i \in Imap, NEW u \in User, handleLogin(i, u) PROVE TypeOK'
  BY <1>11 DEF TypeOK, handleLogin
<1>12. ASSUME NEW i \in Imap, NEW x \in BOOLEAN, handleSelect(i, x) PROVE TypeOK'
  BY <1>12, ListedAreOwned DEF TypeOK, handleSelect
<1>13. ASSUME NEW i \in Imap, NEW n \in Typed(i), handleFetch(i, n) PROVE TypeOK'
  <2>1. Named(i, n) \in Msg
    BY <1>13, NamedIsListed DEF handleFetch, TypeOK
  <2> QED BY <1>13, <2>1 DEF TypeOK, handleFetch
<1>14. ASSUME NEW i \in Imap, NEW n \in Typed(i), handleStore(i, n) PROVE TypeOK'
  <2>1. Named(i, n) \in Msg
    BY <1>14, NamedIsListed DEF handleStore, StoreSeen, StoreDeleted, TypeOK
  <2>2. CASE StoreSeen(i, n)
    BY <2>1, <2>2 DEF TypeOK, StoreSeen
  <2>3. ASSUME NEW action, StoreDeleted(i, n, action) PROVE TypeOK'
    BY <2>1, <2>3 DEF TypeOK, StoreDeleted
  <2> QED BY <1>14, <2>2, <2>3 DEF handleStore
<1>15. ASSUME NEW i \in Imap, handleClose(i) PROVE TypeOK'
  BY <1>15 DEF TypeOK, handleClose
<1>20. ASSUME NEW i \in Imap, CloseDone(i) PROVE TypeOK'
  <2>1. iview' \in [Imap -> Seq(Msg)]
    BY <1>20, EmptySeq DEF TypeOK, CloseDone
  <2> QED BY <1>20, <2>1 DEF TypeOK, CloseDone
<1>16. ASSUME NEW i \in Imap, CloseDeletes(i) PROVE TypeOK'
  BY <1>16 DEF TypeOK, CloseDeletes
<1>17. ASSUME NEW i \in Imap, ImapEnds(i) PROVE TypeOK'
  BY <1>17 DEF TypeOK, ImapEnds
<1>18. CASE Crash
  BY <1>18 DEF TypeOK, Crash
<1>19. CASE UNCHANGED vars
  BY <1>19 DEF TypeOK, vars
<1> QED
  BY <1>1, <1>2, <1>3, <1>4, <1>5, <1>6, <1>7, <1>8, <1>9, <1>10, <1>11, <1>12, <1>13,
     <1>14, <1>15, <1>16, <1>17, <1>18, <1>19, <1>20 DEF Next, PopNext, ImapNext

\* No step breaks the invariant.
LEMMA InvStep == IInv /\ [Next]_vars => IInv'
<1> SUFFICES ASSUME IInv, [Next]_vars PROVE IInv'
  OBVIOUS
<1> USE DEF popVars, imapVars, noteVars
<1>0. TypeOK /\ TypeOK'
  BY TypeStep DEF IInv
<1>1. ASSUME NEW m \in Msg, Arrive(m) PROVE IInv'
  <2>1. NumbersAsked' /\ CopiesAsked' /\ LoginProven' /\ OnlyProvenAccounts'
    BY <1>1 DEF IInv, NumbersAsked, CopiesAsked, LoginProven, OnlyProvenAccounts, Arrive
  <2>2. RemovedWasAsked'
    BY <1>0, <1>1 DEF IInv, TypeOK, RemovedWasAsked, Arrive
  <2>3. MarkedIsPending'
    BY <1>0, <1>1 DEF IInv, TypeOK, MarkedIsPending, Arrive
  <2> QED
    BY <1>0, <2>1, <2>2, <2>3 DEF IInv
<1>2. ASSUME NEW m \in Msg, ReadMessage(m) PROVE IInv'
  BY <1>0, <1>2
  DEF IInv, NumbersAsked, CopiesAsked, LoginProven, RemovedWasAsked,
      OnlyProvenAccounts, MarkedIsPending, ReadMessage
<1>3. ASSUME NEW m \in Msg, WebDelete(m) PROVE IInv'
  <2>1. LoginProven' /\ OnlyProvenAccounts'
    BY <1>3 DEF IInv, LoginProven, OnlyProvenAccounts, WebDelete, DeleteMessageFull
  <2>2. NumbersAsked'
    BY <1>0, <1>3 DEF IInv, TypeOK, NumbersAsked, WebDelete, DeleteMessageFull
  <2>3. CopiesAsked'
    BY <1>0, <1>3 DEF IInv, TypeOK, CopiesAsked, WebDelete, DeleteMessageFull
  <2>4. RemovedWasAsked'
    BY <1>0, <1>3 DEF IInv, TypeOK, RemovedWasAsked, WebDelete, DeleteMessageFull
  <2>5. MarkedIsPending'
    BY <1>0, <1>3 DEF IInv, TypeOK, MarkedIsPending, WebDelete, DeleteMessageFull
  <2> QED
    BY <1>0, <2>1, <2>2, <2>3, <2>4, <2>5 DEF IInv
<1>4. ASSUME NEW p \in Pop, NEW u \in User, handleUser(p, u) PROVE IInv'
  BY <1>0, <1>4
  DEF IInv, NumbersAsked, CopiesAsked, LoginProven, RemovedWasAsked,
      OnlyProvenAccounts, MarkedIsPending, handleUser
<1>5. ASSUME NEW p \in Pop, handlePass(p) PROVE IInv'
  <2> PICK msgs \in ListMessages(name[p]) :
          LET newest == [n \in DOMAIN msgs |-> msgs[Len(msgs) + 1 - n]] IN
            /\ view' = [view EXCEPT ![p] = newest]
            /\ misnumbered' = misnumbered \cup {newest[n] : n \in deleted[p] \cap DOMAIN newest}
    BY <1>5 DEF handlePass
  <2>1. MarkedIsPending'
    BY <1>5 DEF IInv, MarkedIsPending, handlePass
  <2>2. NumbersAsked'
    BY <1>0, <1>5 DEF IInv, TypeOK, NumbersAsked, handlePass
  <2>3. CopiesAsked'
    BY <1>0, <1>5 DEF IInv, TypeOK, CopiesAsked, handlePass
  <2>4. LoginProven'
    BY <1>0, <1>5 DEF IInv, TypeOK, LoginProven, handlePass
  <2>5. RemovedWasAsked'
    BY <1>0, <1>5 DEF IInv, TypeOK, RemovedWasAsked, handlePass
  <2>6. OnlyProvenAccounts'
    <3>1. msgs \in Seq(Msg) /\ \A n \in DOMAIN msgs : Owner[msgs[n]] = name[p]
      BY ListedAreOwned
    <3>2. DOMAIN msgs = 1..Len(msgs) /\ Len(msgs) \in Nat
      BY <3>1
    <3>3. \A n \in DOMAIN view'[p] : Owner[view'[p][n]] = name[p]
      BY <1>0, <3>1, <3>2 DEF TypeOK
    <3>4. /\ name[p] \in proven'[p]
          /\ \A q \in Pop \ {p} : view'[q] = view[q]
          /\ \A c \in Pop \cup Imap : proven[c] \subseteq proven'[c]
          /\ UNCHANGED <<iview, ideleted>>
      BY <1>0, <1>5 DEF TypeOK, handlePass
    <3> QED BY <3>3, <3>4 DEF IInv, OnlyProvenAccounts
  <2> QED
    BY <1>0, <2>1, <2>2, <2>3, <2>4, <2>5, <2>6 DEF IInv
<1>6. ASSUME NEW p \in Pop, handleRset(p) PROVE IInv'
  <2>1. CopiesAsked' /\ LoginProven' /\ RemovedWasAsked' /\ OnlyProvenAccounts' /\ MarkedIsPending'
    BY <1>6
    DEF IInv, CopiesAsked, LoginProven, RemovedWasAsked, OnlyProvenAccounts,
        MarkedIsPending, handleRset
  <2>2. NumbersAsked'
    BY <1>0, <1>6 DEF IInv, TypeOK, NumbersAsked, handleRset
  <2> QED
    BY <1>0, <2>1, <2>2 DEF IInv
<1>7. ASSUME NEW p \in Pop, handleQuit(p) PROVE IInv'
  BY <1>0, <1>7
  DEF IInv, NumbersAsked, CopiesAsked, LoginProven, RemovedWasAsked,
      OnlyProvenAccounts, MarkedIsPending, handleQuit
<1>8. ASSUME NEW p \in Pop, NEW n \in DOMAIN view[p], handleDele(p, n) PROVE IInv'
  <2>1. LoginProven' /\ OnlyProvenAccounts' /\ MarkedIsPending'
    BY <1>8 DEF IInv, LoginProven, OnlyProvenAccounts, MarkedIsPending, handleDele
  <2>2. NumbersAsked'
    BY <1>0, <1>8 DEF IInv, TypeOK, NumbersAsked, handleDele
  <2>3. CopiesAsked'
    BY <1>0, <1>8 DEF IInv, TypeOK, CopiesAsked, handleDele
  <2>4. RemovedWasAsked'
    BY <1>0, <1>8 DEF IInv, TypeOK, RemovedWasAsked, handleDele
  <2> QED
    BY <1>0, <2>1, <2>2, <2>3, <2>4 DEF IInv
<1>9. ASSUME NEW p \in Pop, QuitDeletes(p) PROVE IInv'
  <2>1. CopiesAsked' /\ LoginProven' /\ OnlyProvenAccounts'
    BY <1>9
    DEF IInv, CopiesAsked, LoginProven, OnlyProvenAccounts, QuitDeletes,
        DeleteMessageFull
  <2>2. NumbersAsked'
    BY <1>0, <1>9 DEF IInv, TypeOK, NumbersAsked, QuitDeletes, DeleteMessageFull
  <2>3. RemovedWasAsked'
    BY <1>0, <1>9
    DEF IInv, TypeOK, RemovedWasAsked, QuitDeletes, DeleteMessageFull, NumbersAsked
  <2>4. MarkedIsPending'
    BY <1>0, <1>9 DEF IInv, TypeOK, MarkedIsPending, QuitDeletes, DeleteMessageFull
  <2> QED
    BY <1>0, <2>1, <2>2, <2>3, <2>4 DEF IInv
<1>10. ASSUME NEW p \in Pop, PopEnds(p) PROVE IInv'
  <2>1. CopiesAsked' /\ RemovedWasAsked' /\ MarkedIsPending'
    BY <1>10 DEF IInv, CopiesAsked, RemovedWasAsked, MarkedIsPending, PopEnds
  <2>2. NumbersAsked'
    BY <1>0, <1>10 DEF IInv, TypeOK, NumbersAsked, PopEnds
  <2>3. LoginProven'
    BY <1>0, <1>10, AccessAssumption DEF IInv, TypeOK, LoginProven, PopEnds
  <2>4. OnlyProvenAccounts'
    BY <1>0, <1>10, AccessAssumption DEF IInv, TypeOK, OnlyProvenAccounts, PopEnds
  <2> QED
    BY <1>0, <2>1, <2>2, <2>3, <2>4 DEF IInv
<1>11. ASSUME NEW i \in Imap, NEW u \in User, handleLogin(i, u) PROVE IInv'
  <2>1. NumbersAsked' /\ CopiesAsked' /\ RemovedWasAsked' /\ MarkedIsPending'
    BY <1>11
    DEF IInv, NumbersAsked, CopiesAsked, RemovedWasAsked, MarkedIsPending, handleLogin
  <2>2. LoginProven'
    BY <1>0, <1>11 DEF IInv, TypeOK, LoginProven, handleLogin
  <2>3. OnlyProvenAccounts'
    BY <1>0, <1>11 DEF IInv, TypeOK, OnlyProvenAccounts, handleLogin
  <2> QED
    BY <1>0, <2>1, <2>2, <2>3 DEF IInv
<1>12. ASSUME NEW i \in Imap, NEW x \in BOOLEAN, handleSelect(i, x) PROVE IInv'
  <2>1. NumbersAsked' /\ LoginProven' /\ RemovedWasAsked'
    BY <1>12 DEF IInv, NumbersAsked, LoginProven, RemovedWasAsked, handleSelect
  <2>2. CopiesAsked'
    BY <1>0, <1>12 DEF IInv, TypeOK, CopiesAsked, handleSelect
  <2>3. OnlyProvenAccounts'
    BY <1>0, <1>12, ListedAreOwned
    DEF IInv, TypeOK, OnlyProvenAccounts, handleSelect, LoginProven
  <2>4. MarkedIsPending'
    BY <1>0, <1>12 DEF IInv, TypeOK, MarkedIsPending, handleSelect
  <2> QED
    BY <1>0, <2>1, <2>2, <2>3, <2>4 DEF IInv
<1>13. ASSUME NEW i \in Imap, NEW n \in Typed(i), handleFetch(i, n) PROVE IInv'
  BY <1>0, <1>13
  DEF IInv, NumbersAsked, CopiesAsked, LoginProven, RemovedWasAsked,
      OnlyProvenAccounts, MarkedIsPending, handleFetch
<1>14. ASSUME NEW i \in Imap, NEW n \in Typed(i), StoreSeen(i, n) PROVE IInv'
  BY <1>0, <1>14
  DEF IInv, NumbersAsked, CopiesAsked, LoginProven, RemovedWasAsked,
      OnlyProvenAccounts, MarkedIsPending, StoreSeen
<1>15. ASSUME NEW i \in Imap, NEW n \in Typed(i), NEW action,
             StoreDeleted(i, n, action)
      PROVE IInv'
  <2>1. LoginProven'
    BY <1>15 DEF IInv, LoginProven, StoreDeleted
  <2>2. NumbersAsked'
    BY <1>0, <1>15 DEF IInv, TypeOK, NumbersAsked, StoreDeleted
  <2>3. CopiesAsked'
    BY <1>0, <1>15 DEF IInv, TypeOK, CopiesAsked, StoreDeleted
  <2>4. RemovedWasAsked'
    BY <1>0, <1>15 DEF IInv, TypeOK, RemovedWasAsked, StoreDeleted
  <2>5. OnlyProvenAccounts'
    BY <1>0, <1>15, NamedIsListed DEF IInv, TypeOK, OnlyProvenAccounts, StoreDeleted
  <2>6. MarkedIsPending'
    BY <1>0, <1>15 DEF IInv, TypeOK, MarkedIsPending, StoreDeleted
  <2> QED
    BY <1>0, <2>1, <2>2, <2>3, <2>4, <2>5, <2>6 DEF IInv
<1>16. ASSUME NEW i \in Imap, handleClose(i) PROVE IInv'
  BY <1>0, <1>16
  DEF IInv, NumbersAsked, CopiesAsked, LoginProven, RemovedWasAsked,
      OnlyProvenAccounts, MarkedIsPending, handleClose
<1>17. ASSUME NEW i \in Imap, CloseDeletes(i) PROVE IInv'
  <2>1. NumbersAsked' /\ LoginProven'
    BY <1>17 DEF IInv, NumbersAsked, LoginProven, CloseDeletes
  <2>2. CopiesAsked'
    BY <1>0, <1>17 DEF IInv, TypeOK, CopiesAsked, CloseDeletes
  <2>3. RemovedWasAsked'
    BY <1>0, <1>17 DEF IInv, TypeOK, RemovedWasAsked, CloseDeletes, CopiesAsked
  <2>4. OnlyProvenAccounts'
    BY <1>0, <1>17 DEF IInv, TypeOK, OnlyProvenAccounts, CloseDeletes
  <2>5. MarkedIsPending'
    BY <1>0, <1>17 DEF IInv, TypeOK, MarkedIsPending, CloseDeletes
  <2> QED
    BY <1>0, <2>1, <2>2, <2>3, <2>4, <2>5 DEF IInv
<1>18. ASSUME NEW i \in Imap, CloseDone(i) PROVE IInv'
  <2>1. NumbersAsked' /\ CopiesAsked' /\ LoginProven' /\ RemovedWasAsked' /\ MarkedIsPending'
    BY <1>18
    DEF IInv, NumbersAsked, CopiesAsked, LoginProven, RemovedWasAsked,
        MarkedIsPending, CloseDone
  <2>2. OnlyProvenAccounts'
    BY <1>0, <1>18 DEF IInv, TypeOK, OnlyProvenAccounts, CloseDone
  <2> QED
    BY <1>0, <2>1, <2>2 DEF IInv
<1>19. ASSUME NEW i \in Imap, ImapEnds(i) PROVE IInv'
  <2>1. NumbersAsked' /\ RemovedWasAsked'
    BY <1>19 DEF IInv, NumbersAsked, RemovedWasAsked, ImapEnds
  <2>2. CopiesAsked'
    BY <1>0, <1>19 DEF IInv, TypeOK, CopiesAsked, ImapEnds
  <2>3. LoginProven'
    BY <1>0, <1>19, AccessAssumption DEF IInv, TypeOK, LoginProven, ImapEnds
  <2>4. OnlyProvenAccounts'
    BY <1>0, <1>19, AccessAssumption DEF IInv, TypeOK, OnlyProvenAccounts, ImapEnds
  <2>5. MarkedIsPending'
    BY <1>0, <1>19 DEF IInv, TypeOK, MarkedIsPending, ImapEnds
  <2> QED
    BY <1>0, <2>1, <2>2, <2>3, <2>4, <2>5 DEF IInv
<1>20. CASE Crash
  <2>1. RemovedWasAsked'
    BY <1>20 DEF IInv, RemovedWasAsked, Crash
  <2>2. NumbersAsked'
    BY <1>0, <1>20 DEF IInv, TypeOK, NumbersAsked, Crash
  <2>3. CopiesAsked'
    BY <1>0, <1>20 DEF IInv, TypeOK, CopiesAsked, Crash
  <2>4. LoginProven'
    BY <1>0, <1>20 DEF IInv, TypeOK, LoginProven, Crash
  <2>5. OnlyProvenAccounts'
    BY <1>0, <1>20 DEF IInv, TypeOK, OnlyProvenAccounts, Crash
  <2>6. MarkedIsPending'
    BY <1>0, <1>20 DEF IInv, TypeOK, MarkedIsPending, Crash
  <2> QED
    BY <1>0, <2>1, <2>2, <2>3, <2>4, <2>5, <2>6 DEF IInv
<1>21. CASE UNCHANGED vars
  BY <1>0, <1>21
  DEF vars, IInv, NumbersAsked, CopiesAsked, LoginProven, RemovedWasAsked,
      OnlyProvenAccounts, MarkedIsPending
<1> QED
  BY <1>1, <1>2, <1>3, <1>4, <1>5, <1>6, <1>7, <1>8, <1>9, <1>10, <1>11, <1>12, <1>13,
     <1>14, <1>15, <1>16, <1>17, <1>18, <1>19, <1>20, <1>21
  DEF Next, PopNext, ImapNext, handleStore

-----------------------------------------------------------------------------

\* A connection in QUIT or CLOSE, or the web page, is all that removes a row.
LEMMA RemovalCommitted ==
  ASSUME IInv, [Next]_vars, NEW m \in Msg, row[m] # "gone", row'[m] = "gone"
  PROVE  \/ WebDelete(m)
         \/ \E p \in Pop : /\ quitting[p] /\ Owner[m] \in proven[p]
                           /\ \E n \in deleted[p] \cap DOMAIN view[p] : view[p][n] = m
         \/ \E i \in Imap : closing[i] /\ Owner[m] \in proven[i] /\ m \in ideleted[i]
<1> USE DEF popVars, imapVars, noteVars
<1>0. TypeOK
  BY DEF IInv
<1>1. ASSUME NEW n \in Msg, WebDelete(n) PROVE n = m
  BY <1>0, <1>1 DEF TypeOK, WebDelete, DeleteMessageFull
<1>2. ASSUME NEW p \in Pop, QuitDeletes(p)
      PROVE  /\ quitting[p] /\ Owner[m] \in proven[p]
             /\ \E n \in deleted[p] \cap DOMAIN view[p] : view[p][n] = m
  <2>1. quitting[p] /\ \E n \in deleted[p] \cap DOMAIN view[p] : view[p][n] = m
    BY <1>0, <1>2 DEF TypeOK, QuitDeletes, DeleteMessageFull
  <2> QED
    BY <2>1 DEF IInv, OnlyProvenAccounts
<1>3. ASSUME NEW i \in Imap, CloseDeletes(i)
      PROVE  closing[i] /\ Owner[m] \in proven[i] /\ m \in ideleted[i]
  <2>1. closing[i] /\ m \in ideleted[i]
    BY <1>0, <1>3 DEF TypeOK, CloseDeletes
  <2>2. Owner[m] \in proven[i]
    BY <2>1 DEF IInv, OnlyProvenAccounts
  <2> QED
    BY <2>1, <2>2
<1>4. ASSUME NEW n \in Msg, Arrive(n) PROVE FALSE
  BY <1>0, <1>4 DEF TypeOK, Arrive
<1>5. ASSUME NEW i \in Imap, NEW n \in Typed(i), NEW action, StoreDeleted(i, n, action)
      PROVE  FALSE
  BY <1>0, <1>5 DEF TypeOK, StoreDeleted
<1> QED
  BY <1>1, <1>2, <1>3, <1>4, <1>5
  DEF Next, PopNext, ImapNext, vars, ReadMessage, handleUser, handlePass, handleRset,
      handleQuit, handleDele, PopEnds, handleLogin, handleSelect, handleFetch, handleStore,
      StoreSeen, handleClose, CloseDone, ImapEnds, Crash

LEMMA InitialInv == Init => IInv
<1> SUFFICES ASSUME Init PROVE IInv
  OBVIOUS
<1>1. TypeOK
  BY EmptySeq DEF Init, TypeOK
<1> QED
  BY <1>1 DEF Init, IInv, NumbersAsked, CopiesAsked, LoginProven, RemovedWasAsked,
              OnlyProvenAccounts, MarkedIsPending

\* What every connection holds was listed for an account it gave the password
\* of, and what it is to delete was asked for.
THEOREM AccessInv == Spec => []IInv
<1> QED
  BY InitialInv, InvStep, PTL DEF Spec

\* Rows, lists and numbers keep their types: DELE, STORE and PASS never name a
\* message that is not on the list.
THEOREM AccessTypeCorrect == Spec => []TypeOK
<1>1. IInv => TypeOK
  BY DEF IInv
<1> QED
  BY <1>1, AccessInv, PTL

\* Mail is hidden or removed only after somebody named it.
THEOREM RemovalsAsked == Spec => []RemovedWasAsked
<1>1. IInv => RemovedWasAsked
  BY DEF IInv
<1> QED
  BY <1>1, AccessInv, PTL

\* A connection works on mail of accounts whose password it gave.
THEOREM AccountsProven == Spec => []OnlyProvenAccounts
<1>1. IInv => OnlyProvenAccounts
  BY DEF IInv
<1> QED
  BY <1>1, AccessInv, PTL

\* A marked message is pending in some connection, or was abandoned by one.
THEOREM MarksPending == Spec => []MarkedIsPending
<1>1. IInv => MarkedIsPending
  BY DEF IInv
<1> QED
  BY <1>1, AccessInv, PTL

\* DELE, STORE, RSET, a cut connection and a crash remove nothing: a row goes in
\* QUIT, in CLOSE or by a web request, of somebody who may.
THEOREM RemovalAtCommit == Spec => RemovedAtCommit
<1> DEFINE Committed ==
      \A m \in Msg : row[m] # "gone" /\ row'[m] = "gone" =>
        \/ WebDelete(m)
        \/ \E p \in Pop : /\ quitting[p] /\ Owner[m] \in proven[p]
                          /\ \E n \in deleted[p] \cap DOMAIN view[p] : view[p][n] = m
        \/ \E i \in Imap : closing[i] /\ Owner[m] \in proven[i] /\ m \in ideleted[i]
<1>1. IInv /\ [Next]_vars => [Committed]_vars
  BY RemovalCommitted
<1> QED
  BY <1>1, AccessInv, PTL DEF Spec, RemovedAtCommit
=============================================================================
