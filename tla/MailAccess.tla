----------------------------- MODULE MailAccess -----------------------------
(***************************************************************************)
(* Readers of a mailbox: POP3 (internal/pop3/server.go) and IMAP           *)
(* (internal/imap/server.go) connections and the web pages                 *)
(* (internal/web/handlers.go), all over the same mail_content rows.  Each  *)
(* connection works on the list it read at PASS or SELECT while mail       *)
(* arrives and others delete; the database calls of QUIT and CLOSE are     *)
(* steps of their own, any of them may fail, and a connection may end      *)
(* anywhere.  One folder per account; DeleteMessageFull is one step here,  *)
(* its own steps are the subject of MailStore.                             *)
(***************************************************************************)
EXTENDS Naturals, Sequences, FiniteSets

CONSTANTS Msg, User,
          Owner,       \* whose mailbox a message is for
          Pop, Imap,   \* connections of either protocol
          Nobody

ASSUME AccessAssumption == /\ IsFiniteSet(Msg) /\ Owner \in [Msg -> User]
                           /\ Nobody \notin User /\ Pop \cap Imap = {}

VARIABLES
  row,       \* mail_content: "none", "here", "marked" (deleted = TRUE), "gone"
  seen,      \* mail_content.seen
  arrived,   \* received_at: how many messages had come by then
  \* pop3Session: username, authed, messages, the keys of deleted, in handleQuit
  name, authed, view, deleted, quitting,
  \* imapSession: username, messages, the copies marked Deleted, in handleClose
  iname, iview, ideleted, closing,
  proven, asked, misnumbered, abandoned, examining, undone  \* history, below

popVars == <<name, authed, view, deleted, quitting>>
imapVars == <<iname, iview, ideleted, closing>>
noteVars == <<proven, asked, misnumbered, abandoned, examining, undone>>
vars == <<row, seen, arrived, popVars, imapVars, noteVars>>

\* proven[c]: the accounts a connection gave the password of; asked: messages
\* somebody asked to delete; misnumbered: messages that took the number of one
\* asked for when PASS was repeated, or that a number outside the folder stood
\* for in a STORE; abandoned: messages a CLOSE failed to delete, or that a
\* connection marked and then left without CLOSE; examining: connections that
\* opened the folder with EXAMINE; undone: messages whose deletion flag a
\* client took back.
TypeOK ==
  /\ row \in [Msg -> {"none", "here", "marked", "gone"}]
  /\ seen \subseteq Msg
  /\ arrived \in [Msg -> Nat]
  /\ name \in [Pop -> User \cup {Nobody}]
  /\ authed \in [Pop -> BOOLEAN]
  /\ view \in [Pop -> Seq(Msg)]
  /\ deleted \in [Pop -> SUBSET Nat]
  /\ quitting \in [Pop -> BOOLEAN]
  /\ iname \in [Imap -> User \cup {Nobody}]
  /\ iview \in [Imap -> Seq(Msg)]
  /\ ideleted \in [Imap -> SUBSET Msg]
  /\ closing \in [Imap -> BOOLEAN]
  /\ proven \in [Pop \cup Imap -> SUBSET User]
  /\ asked \subseteq Msg /\ undone \subseteq Msg /\ abandoned \subseteq Msg
  /\ misnumbered \subseteq Msg /\ examining \subseteq Imap

Init ==
  /\ row = [m \in Msg |-> "none"] /\ seen = {} /\ arrived = [m \in Msg |-> 0]
  /\ name = [p \in Pop |-> Nobody] /\ authed = [p \in Pop |-> FALSE]
  /\ view = [p \in Pop |-> <<>>] /\ deleted = [p \in Pop |-> {}]
  /\ quitting = [p \in Pop |-> FALSE]
  /\ iname = [i \in Imap |-> Nobody] /\ iview = [i \in Imap |-> <<>>]
  /\ ideleted = [i \in Imap |-> {}]
  /\ closing = [i \in Imap |-> FALSE]
  /\ proven = [c \in Pop \cup Imap |-> {}]
  /\ asked = {} /\ misnumbered = {} /\ abandoned = {} /\ examining = {} /\ undone = {}

Sorted(M) == {s \in [1..Cardinality(M) -> M] :
                \A j, k \in DOMAIN s : j < k => arrived[s[j]] < arrived[s[k]]}

\* Fault: the query names no account.
ListMessagesFaulty(u) == Sorted({m \in Msg : row[m] = "here"})

\* The rows of the account not marked deleted, oldest first.
ListMessages(u) == Sorted({m \in Msg : Owner[m] = u /\ row[m] = "here"})

\* DeleteMessageFull, whether the row is still there or not; its error is lost.
DeleteMessageFull(m) == row' \in {[row EXCEPT ![m] = "gone"], row}

Arrive(m) == /\ row[m] = "none"
             /\ row' = [row EXCEPT ![m] = "here"]
             /\ arrived' = [arrived EXCEPT ![m] = Cardinality({n \in Msg : row[n] # "none"}) + 1]
             /\ UNCHANGED <<seen, popVars, imapVars, noteVars>>

-----------------------------------------------------------------------------
(* POP3                                                                    *)

handleUser(p, u) == /\ ~quitting[p]
                    /\ name' = [name EXCEPT ![p] = u]
                    /\ UNCHANGED <<row, seen, arrived, authed, view, deleted,
                                   quitting, imapVars, noteVars>>

\* A wrong password changes nothing.  The list is read newest first; the
\* numbers DELE has recorded so far are kept.
handlePass(p) ==
  /\ ~quitting[p] /\ name[p] # Nobody
  /\ authed' = [authed EXCEPT ![p] = TRUE]
  /\ proven' = [proven EXCEPT ![p] = @ \cup {name[p]}]
  /\ \E msgs \in ListMessages(name[p]) :
       LET newest == [n \in DOMAIN msgs |-> msgs[Len(msgs) + 1 - n]] IN
         /\ view' = [view EXCEPT ![p] = newest]
         /\ misnumbered' = misnumbered \cup {newest[n] : n \in deleted[p] \cap DOMAIN newest}
  /\ UNCHANGED <<row, seen, arrived, name, deleted, quitting, imapVars, asked,
                 abandoned, examining, undone>>

Numbered(p, n) == authed[p] /\ ~quitting[p] /\ n \in DOMAIN view[p] \ deleted[p]

\* Fault: the message is deleted before QUIT.
handleDeleFaulty(p, n) ==
  /\ Numbered(p, n)
  /\ deleted' = [deleted EXCEPT ![p] = @ \cup {n}]
  /\ asked' = asked \cup {view[p][n]}
  /\ DeleteMessageFull(view[p][n])
  /\ UNCHANGED <<seen, arrived, name, authed, view, quitting, imapVars,
                 proven, misnumbered, abandoned, examining, undone>>

handleDele(p, n) ==
  /\ Numbered(p, n)
  /\ deleted' = [deleted EXCEPT ![p] = @ \cup {n}]
  /\ asked' = asked \cup {view[p][n]}
  /\ UNCHANGED <<row, seen, arrived, name, authed, view, quitting, imapVars,
                 proven, misnumbered, abandoned, examining, undone>>

handleRset(p) == /\ ~quitting[p]
                 /\ deleted' = [deleted EXCEPT ![p] = {}]
                 /\ UNCHANGED <<row, seen, arrived, name, authed, view, quitting,
                                imapVars, noteVars>>

handleQuit(p) == /\ ~quitting[p] /\ authed[p]
                 /\ quitting' = [quitting EXCEPT ![p] = TRUE]
                 /\ UNCHANGED <<row, seen, arrived, name, authed, view, deleted,
                                imapVars, noteVars>>

\* Fault: numbers from 1 used as indices from 0.
QuitDeletesFaulty(p) ==
  /\ quitting[p]
  /\ \E n \in deleted[p] :
       /\ deleted' = [deleted EXCEPT ![p] = @ \ {n}]
       /\ IF n + 1 \in DOMAIN view[p] THEN DeleteMessageFull(view[p][n + 1])
                                      ELSE UNCHANGED row
  /\ UNCHANGED <<seen, arrived, name, authed, view, quitting, imapVars, noteVars>>

\* One turn of the loop of handleQuit.
QuitDeletes(p) ==
  /\ quitting[p]
  /\ \E n \in deleted[p] :
       /\ deleted' = [deleted EXCEPT ![p] = @ \ {n}]
       /\ IF n \in DOMAIN view[p] THEN DeleteMessageFull(view[p][n]) ELSE UNCHANGED row
  /\ UNCHANGED <<seen, arrived, name, authed, view, quitting, imapVars, noteVars>>

\* The connection ends: QUIT has done its work, or the client or a deadline
\* cut it; the session record is dropped.
PopEnds(p) ==
  /\ quitting[p] => deleted[p] = {}
  /\ name' = [name EXCEPT ![p] = Nobody]
  /\ authed' = [authed EXCEPT ![p] = FALSE]
  /\ view' = [view EXCEPT ![p] = <<>>]
  /\ deleted' = [deleted EXCEPT ![p] = {}]
  /\ quitting' = [quitting EXCEPT ![p] = FALSE]
  /\ proven' = [proven EXCEPT ![p] = {}]
  /\ UNCHANGED <<row, seen, arrived, imapVars, asked, misnumbered, abandoned,
                 examining, undone>>

-----------------------------------------------------------------------------
(* IMAP                                                                    *)

\* LOGIN is taken at any time and leaves the selected folder as it is.
handleLogin(i, u) ==
  /\ ~closing[i]
  /\ iname' = [iname EXCEPT ![i] = u]
  /\ proven' = [proven EXCEPT ![i] = @ \cup {u}]
  /\ UNCHANGED <<row, seen, arrived, popVars, iview, ideleted, closing,
                 asked, misnumbered, abandoned, examining, undone>>

\* SELECT, and EXAMINE, which calls the same handler.
handleSelect(i, examine) ==
  /\ ~closing[i] /\ iname[i] # Nobody
  /\ \E msgs \in ListMessages(iname[i]) : iview' = [iview EXCEPT ![i] = msgs]
  /\ ideleted' = [ideleted EXCEPT ![i] = {}]
  /\ abandoned' = abandoned \cup ideleted[i]
  /\ examining' = IF examine THEN examining \cup {i} ELSE examining \ {i}
  /\ UNCHANGED <<row, seen, arrived, popVars, iname, closing, proven, asked,
                 misnumbered, undone>>

\* parseSeqNum: a number outside the folder stands for its first or its last
\* message.  One too small and one too large stand for all of them.
parseSeqNum(n, total) == IF n < 1 THEN 1 ELSE IF n > total THEN total ELSE n
Typed(i) == 0 .. Len(iview[i]) + 1
Named(i, n) == iview[i][parseSeqNum(n, Len(iview[i]))]
Listed(i) == ~closing[i] /\ iview[i] # <<>>

\* BODY[], and BODY.PEEK[] the same; MarkSeen's error is lost.
handleFetch(i, n) ==
  /\ Listed(i)
  /\ LET m == Named(i, n) IN
       /\ seen' \in {seen \cup {m}, seen}
  /\ UNCHANGED <<row, arrived, popVars, imapVars, proven, asked, misnumbered,
                 abandoned, examining, undone>>

StoreSeen(i, n) == /\ Listed(i)
                   /\ seen' \in {seen \cup {Named(i, n)}, seen}
                   /\ UNCHANGED <<row, arrived, popVars, imapVars, noteVars>>

\* Fault: the number is recorded for the message.
StoreDeletedNumber(i, n, action) ==
  /\ Listed(i)
  /\ LET m == Named(i, n) IN
       /\ row' \in {row, IF row[m] = "here" THEN [row EXCEPT ![m] = "marked"] ELSE row}
       /\ ideleted' = [ideleted EXCEPT ![i] = @ \cup {n}]
       /\ asked' = asked \cup {m}
  /\ UNCHANGED <<seen, arrived, popVars, iname, iview, closing, proven,
                 misnumbered, abandoned, examining, undone>>

\* Fault: the row is marked and the copy is not.
StoreDeletedRow(i, n, action) ==
  /\ Listed(i)
  /\ LET m == Named(i, n) IN
       /\ row' \in {row, IF row[m] = "here" THEN [row EXCEPT ![m] = "marked"] ELSE row}
       /\ asked' = asked \cup {m}
  /\ UNCHANGED <<seen, arrived, popVars, imapVars, proven,
                 misnumbered, abandoned, examining, undone>>

\* +FLAGS, -FLAGS and FLAGS with \Deleted do the same: the action word is not
\* looked at.  The copy is marked even when MarkDeleted fails.
StoreDeleted(i, n, action) ==
  /\ Listed(i)
  /\ LET m == Named(i, n) IN
       /\ row' \in {row, IF row[m] = "here" THEN [row EXCEPT ![m] = "marked"] ELSE row}
       /\ ideleted' = [ideleted EXCEPT ![i] = @ \cup {m}]
       /\ IF n \notin DOMAIN iview[i]
          THEN misnumbered' = misnumbered \cup {m} /\ UNCHANGED <<asked, undone>>
          ELSE /\ UNCHANGED misnumbered
               /\ IF action = "+FLAGS" THEN asked' = asked \cup {m} /\ UNCHANGED undone
                                       ELSE undone' = undone \cup {m} /\ UNCHANGED asked
  /\ UNCHANGED <<seen, arrived, popVars, iname, iview, closing, proven, abandoned, examining>>

handleStore(i, n) == \/ StoreSeen(i, n)
                     \/ \E action \in {"+FLAGS", "-FLAGS"} : StoreDeleted(i, n, action)

handleClose(i) == /\ ~closing[i] /\ iview[i] # <<>>
                  /\ closing' = [closing EXCEPT ![i] = TRUE]
                  /\ UNCHANGED <<row, seen, arrived, popVars, iname, iview, ideleted, noteVars>>

\* One turn of the loop of handleClose, over the copies marked deleted.
CloseDeletes(i) ==
  /\ closing[i]
  /\ \E m \in ideleted[i] :
       /\ ideleted' = [ideleted EXCEPT ![i] = @ \ {m}]
       /\ \/ row' = [row EXCEPT ![m] = "gone"] /\ UNCHANGED abandoned
          \/ abandoned' = abandoned \cup {m} /\ UNCHANGED row
  /\ UNCHANGED <<seen, arrived, popVars, iname, iview, closing, proven,
                 asked, misnumbered, examining, undone>>

CloseDone(i) == /\ closing[i] /\ ideleted[i] = {}
                /\ closing' = [closing EXCEPT ![i] = FALSE]
                /\ iview' = [iview EXCEPT ![i] = <<>>]
                /\ examining' = examining \ {i}
                /\ UNCHANGED <<row, seen, arrived, popVars, iname, ideleted, proven,
                               asked, misnumbered, abandoned, undone>>

\* LOGOUT, or the connection is cut: nothing is deleted.
ImapEnds(i) ==
  /\ ~closing[i]
  /\ iname' = [iname EXCEPT ![i] = Nobody]
  /\ iview' = [iview EXCEPT ![i] = <<>>]
  /\ ideleted' = [ideleted EXCEPT ![i] = {}]
  /\ proven' = [proven EXCEPT ![i] = {}]
  /\ abandoned' = abandoned \cup ideleted[i]
  /\ examining' = examining \ {i}
  /\ UNCHANGED <<row, seen, arrived, popVars, closing, asked, misnumbered, undone>>

-----------------------------------------------------------------------------
(* Web and process                                                         *)

\* HandleReadMessage: GetMessage loads the attachments, and finds messages
\* marked deleted too.
ReadMessage(m) == /\ row[m] \in {"here", "marked"}
                  /\ seen' = seen \cup {m}
                  /\ UNCHANGED <<row, arrived, popVars, imapVars, noteVars>>

\* HandleDeleteMessage, by the owner.
WebDelete(m) == /\ row[m] \in {"here", "marked"}
                /\ DeleteMessageFull(m)
                /\ asked' = asked \cup {m}
                /\ UNCHANGED <<seen, arrived, popVars, imapVars, proven, misnumbered,
                               abandoned, examining, undone>>

\* The process dies in the middle of anything.
Crash == /\ name' = [p \in Pop |-> Nobody] /\ authed' = [p \in Pop |-> FALSE]
         /\ view' = [p \in Pop |-> <<>>] /\ deleted' = [p \in Pop |-> {}]
         /\ quitting' = [p \in Pop |-> FALSE]
         /\ iname' = [i \in Imap |-> Nobody] /\ iview' = [i \in Imap |-> <<>>]
         /\ ideleted' = [i \in Imap |-> {}]
         /\ closing' = [i \in Imap |-> FALSE]
         /\ proven' = [c \in Pop \cup Imap |-> {}]
         /\ abandoned' = abandoned \cup UNION {ideleted[i] : i \in Imap}
         /\ examining' = {}
         /\ UNCHANGED <<row, seen, arrived, asked, misnumbered, undone>>

PopNext(p) == \/ \E u \in User : handleUser(p, u)
              \/ handlePass(p) \/ handleRset(p) \/ handleQuit(p)
              \/ \E n \in DOMAIN view[p] : handleDele(p, n)
              \/ QuitDeletes(p) \/ PopEnds(p)

ImapNext(i) == \/ \E u \in User : handleLogin(i, u)
               \/ \E examine \in BOOLEAN : handleSelect(i, examine)
               \/ \E n \in Typed(i) : handleFetch(i, n) \/ handleStore(i, n)
               \/ handleClose(i) \/ CloseDeletes(i) \/ CloseDone(i) \/ ImapEnds(i)

Next == \/ \E m \in Msg : Arrive(m) \/ ReadMessage(m) \/ WebDelete(m)
        \/ \E p \in Pop : PopNext(p)
        \/ \E i \in Imap : ImapNext(i)
        \/ Crash

Spec == Init /\ [][Next]_vars

-----------------------------------------------------------------------------
(* Properties                                                              *)

\* A message is hidden or removed only after somebody named it: with DELE, a
\* STORE of the deletion flag, or a web request.  The exceptions are known:
\* taking the flag back sets it, PASS repeated with deletions pending makes
\* their numbers mean other messages, and STORE takes a number beyond the
\* folder for its last message.
RemovedWasAsked ==
  \A m \in Msg : row[m] \in {"marked", "gone"} => m \in asked \cup undone \cup misnumbered

\* A connection only ever works on mail of accounts whose password it gave,
\* however USER, PASS, LOGIN and SELECT follow one another.
OnlyProvenAccounts ==
  /\ \A p \in Pop : \A n \in DOMAIN view[p] : Owner[view[p][n]] \in proven[p]
  /\ \A i \in Imap : /\ \A n \in DOMAIN iview[i] : Owner[iview[i][n]] \in proven[i]
                     /\ \A m \in ideleted[i] : Owner[m] \in proven[i]

\* A message marked deleted is still to be removed by the connection that
\* marked it; if none is left, that connection failed or went without CLOSE
\* (and nothing will ever list or remove the message again).
MarkedIsPending ==
  \A m \in Msg : row[m] = "marked" => m \in abandoned \/ \E i \in Imap : m \in ideleted[i]

\* A row goes only when somebody commits a deletion: the web request, a POP3
\* connection past QUIT or an IMAP connection in CLOSE, which have the message
\* on their list and have given its owner's password.  DELE, STORE, RSET, a
\* cut connection and a crash remove nothing.
RemovedAtCommit ==
  [][\A m \in Msg : row[m] # "gone" /\ row'[m] = "gone" =>
       \/ WebDelete(m)
       \/ \E p \in Pop : /\ quitting[p] /\ Owner[m] \in proven[p]
                         /\ \E n \in deleted[p] \cap DOMAIN view[p] : view[p][n] = m
       \/ \E i \in Imap : closing[i] /\ Owner[m] \in proven[i] /\ m \in ideleted[i]]_vars

\* The comment on EXAMINE in handleConnection: "same as SELECT but read-only".
ExamineIsReadOnly ==
  [][\A i \in examining : \A n \in Typed(i) :
       handleFetch(i, n) \/ handleStore(i, n) => UNCHANGED <<row, seen>>]_vars
=============================================================================
