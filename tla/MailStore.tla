------------------------------ MODULE MailStore ------------------------------
(***************************************************************************)
(* The storage layer under every mailbox (internal/store/store.go): a      *)
(* message is a row of mail_content, its attachments are rows of           *)
(* mail_attachment plus objects in a bucket, and saveAndDeliver and        *)
(* DeleteMessageFull write the three one call at a time, without a         *)
(* transaction.  Every database or bucket call is a step of its own: other *)
(* workers (SMTP, POP3, IMAP and web goroutines) run in between, each call *)
(* may fail, and the process may die between any two of them.              *)
(***************************************************************************)
EXTENDS Naturals, FiniteSets

CONSTANTS MsgId,      \* message identifiers; newMessage draws a fresh uuid
          User,       \* owners of mailboxes
          Worker,     \* goroutines running a store operation
          MaxAtt,     \* most attachments one message carries
          HasBucket,  \* Store.Bucket # nil
          NoRow, NoMsg

ASSUME StoreAssumption ==
  /\ MaxAtt \in Nat
  /\ HasBucket \in BOOLEAN
  /\ NoRow \notin User
  /\ NoMsg \notin MsgId

Att == MsgId \X (1..MaxAtt)     \* bucket key and row id "<message>_<i>"

VARIABLES
  content,     \* mail_content: the owner of each row, NoRow where there is none
  attachment,  \* mail_attachment
  bucket,      \* objects in the bucket
  pc, cur, k, todo,   \* per worker: step, message, attachment index, blobs to delete
  sent,        \* how many attachments the message came with
  history      \* what has happened to each message (for the properties only)

jobVars == <<pc, cur, k, todo>>
vars == <<content, attachment, bucket, pc, cur, k, todo, sent, history>>

Event == {"saved", "fault", "delete", "overtaken"}

TypeOK == /\ content \in [MsgId -> User \cup {NoRow}]
          /\ attachment \subseteq Att
          /\ bucket \subseteq Att
          /\ pc \in [Worker -> {"idle", "write", "meta", "purge", "row"}]
          /\ cur \in [Worker -> MsgId \cup {NoMsg}]
          /\ k \in [Worker -> 0..MaxAtt]
          /\ todo \in [Worker -> SUBSET Att]
          /\ sent \in [MsgId -> 0..MaxAtt]
          /\ history \in [MsgId -> SUBSET Event]

Init == /\ content = [id \in MsgId |-> NoRow]
        /\ attachment = {}
        /\ bucket = {}
        /\ pc = [w \in Worker |-> "idle"]
        /\ cur = [w \in Worker |-> NoMsg]
        /\ k = [w \in Worker |-> 0]
        /\ todo = [w \in Worker |-> {}]
        /\ sent = [id \in MsgId |-> 0]
        /\ history = [id \in MsgId |-> {}]

Saving(id) == \E w \in Worker : cur[w] = id /\ pc[w] \in {"write", "meta"}

Note(id, events) == history' = [history EXCEPT ![id] = @ \cup events]

\* Worker w goes on at step p with message id, attachment i and the blobs S.
Goto(w, p, id, i, S) == /\ pc' = [pc EXCEPT ![w] = p]
                        /\ cur' = [cur EXCEPT ![w] = id]
                        /\ k' = [k EXCEPT ![w] = i]
                        /\ todo' = [todo EXCEPT ![w] = S]

Return(w) == Goto(w, "idle", NoMsg, 0, {})

-----------------------------------------------------------------------------
(* saveAndDeliver                                                          *)

\* The row goes in first and the message is visible from here on.  A failing
\* SaveMessage returns before anything is written: it changes nothing.
SaveMessage(w, id, u, n) ==
  /\ pc[w] = "idle"
  /\ "saved" \notin history[id]
  /\ content' = [content EXCEPT ![id] = u]
  /\ sent' = [sent EXCEPT ![id] = n]
  /\ Note(id, {"saved"})
  /\ IF HasBucket /\ n > 0 THEN Goto(w, "write", id, 1, {}) ELSE Return(w)
  /\ UNCHANGED <<attachment, bucket>>

Current(w) == <<cur[w], k[w]>>
LastFaulty(w) == k[w] + 1 >= sent[cur[w]]     \* fault: one short of the last
Last(w) == k[w] = sent[cur[w]]

WriteBlob(w) ==
  /\ pc[w] = "write"
  /\ bucket' = bucket \cup {Current(w)}
  /\ IF Last(w) THEN Goto(w, "meta", cur[w], 1, {})
                ELSE Goto(w, "write", cur[w], k[w] + 1, {})
  /\ UNCHANGED <<content, attachment, sent, history>>

\* Fault: the loop goes on after a failing write.
WriteBlobFailsFaulty(w) ==
  /\ pc[w] = "write"
  /\ bucket' \in {bucket, bucket \cup {Current(w)}}
  /\ Note(cur[w], {"fault"})
  /\ IF Last(w) THEN Goto(w, "meta", cur[w], 1, {})
                ELSE Goto(w, "write", cur[w], k[w] + 1, {})
  /\ UNCHANGED <<content, attachment, sent>>

\* The first failing write makes saveAttachments return no metadata at all;
\* a write that timed out may have stored the object nevertheless.
WriteBlobFails(w) ==
  /\ pc[w] = "write"
  /\ bucket' \in {bucket, bucket \cup {Current(w)}}
  /\ Note(cur[w], {"fault"})
  /\ Return(w)
  /\ UNCHANGED <<content, attachment, sent>>

NextRowFaulty(w) == Goto(w, "meta", cur[w], k[w] + 1, {})     \* fault: no end
NextRow(w) == IF Last(w) THEN Return(w) ELSE Goto(w, "meta", cur[w], k[w] + 1, {})

SaveAttachment(w) ==
  /\ pc[w] = "meta"
  /\ attachment' = attachment \cup {Current(w)}
  /\ NextRow(w)
  /\ UNCHANGED <<content, bucket, sent, history>>

\* Logged, and the loop goes on with the next attachment.
SaveAttachmentFails(w) ==
  /\ pc[w] = "meta"
  /\ Note(cur[w], {"fault"})
  /\ NextRow(w)
  /\ UNCHANGED <<content, attachment, bucket, sent>>

-----------------------------------------------------------------------------
(* DeleteMessageFull                                                       *)

RowsOfFaulty(id) == attachment     \* fault: the query names no message
RowsOf(id) == {a \in attachment : a[1] = id}

\* A caller may hold the id of a message that another session has deleted.
\* An error of ListAttachments is dropped and reads as "no attachments".
ListAttachments(w, id) ==
  /\ pc[w] = "idle"
  /\ "saved" \in history[id]
  /\ \E listed \in {RowsOf(id), {}} :
       /\ Goto(w, "purge", id, 0, IF HasBucket THEN listed ELSE {})
       /\ Note(id, {"delete"} \cup (IF listed # RowsOf(id) THEN {"fault"} ELSE {})
                              \cup (IF Saving(id) THEN {"overtaken"} ELSE {}))
  /\ UNCHANGED <<content, attachment, bucket, sent>>

DeleteBlob(w) ==
  /\ pc[w] = "purge"
  /\ \E a \in todo[w] : /\ bucket' = bucket \ {a}
                        /\ todo' = [todo EXCEPT ![w] = @ \ {a}]
  /\ UNCHANGED <<content, attachment, pc, cur, k, sent, history>>

DeleteBlobFails(w) ==
  /\ pc[w] = "purge"
  /\ \E a \in todo[w] : todo' = [todo EXCEPT ![w] = @ \ {a}]
  /\ Note(cur[w], {"fault"})
  /\ UNCHANGED <<content, attachment, bucket, pc, cur, k, sent>>

\* Fault: the rows go before the objects they name have been deleted.
DropRowsEarly(w) ==
  /\ pc[w] = "purge"
  /\ Goto(w, "row", cur[w], 0, {})
  /\ attachment' = attachment \ RowsOf(cur[w])
  /\ UNCHANGED <<content, bucket, sent, history>>

\* Fault: the rows are left behind.
DropNoRows(w) ==
  /\ pc[w] = "purge"
  /\ todo[w] = {}
  /\ Goto(w, "row", cur[w], 0, {})
  /\ UNCHANGED <<content, attachment, bucket, sent, history>>

\* Fault: a message without attachments is taken to be deleted already.
DropRowsIfAny(w) ==
  /\ pc[w] = "purge"
  /\ todo[w] = {}
  /\ IF RowsOf(cur[w]) = {} THEN Return(w) ELSE Goto(w, "row", cur[w], 0, {})
  /\ attachment' = attachment \ RowsOf(cur[w])
  /\ UNCHANGED <<content, bucket, sent, history>>

DeleteAttachmentsByMessage(w) ==
  /\ pc[w] = "purge"
  /\ todo[w] = {}
  /\ Goto(w, "row", cur[w], 0, {})
  /\ \/ /\ attachment' = attachment \ RowsOf(cur[w])
        /\ UNCHANGED history
     \/ /\ UNCHANGED attachment           \* its error is dropped
        /\ Note(cur[w], {"fault"})
  /\ UNCHANGED <<content, bucket, sent>>

DeleteMessage(w) ==
  /\ pc[w] = "row"
  /\ content' = [content EXCEPT ![cur[w]] = NoRow]
  /\ Return(w)
  /\ UNCHANGED <<attachment, bucket, sent, history>>

DeleteMessageFails(w) ==
  /\ pc[w] = "row"
  /\ Note(cur[w], {"fault"})
  /\ Return(w)
  /\ UNCHANGED <<content, attachment, bucket, sent>>

-----------------------------------------------------------------------------

\* Deleting a user drops the rows of the mailbox in one statement and leaves
\* mail_attachment and the bucket as they are.
DeleteUserMessages(u) ==
  /\ content' = [id \in MsgId |-> IF content[id] = u THEN NoRow ELSE content[id]]
  /\ UNCHANGED <<attachment, bucket, jobVars, sent, history>>

\* The process dies: tables and bucket survive, the workers do not.
Crash ==
  /\ pc' = [w \in Worker |-> "idle"]
  /\ cur' = [w \in Worker |-> NoMsg]
  /\ k' = [w \in Worker |-> 0]
  /\ todo' = [w \in Worker |-> {}]
  /\ history' = [id \in MsgId |-> history[id] \cup
                   (IF \E w \in Worker : cur[w] = id THEN {"fault"} ELSE {})]
  /\ UNCHANGED <<content, attachment, bucket, sent>>

Save(w) == \/ WriteBlob(w) \/ WriteBlobFails(w)
           \/ SaveAttachment(w) \/ SaveAttachmentFails(w)
Delete(w) == \/ DeleteBlob(w) \/ DeleteBlobFails(w)
             \/ DeleteAttachmentsByMessage(w)
             \/ DeleteMessage(w) \/ DeleteMessageFails(w)

Next == \/ \E w \in Worker :
             \/ \E id \in MsgId, u \in User, n \in 0..MaxAtt : SaveMessage(w, id, u, n)
             \/ \E id \in MsgId : ListAttachments(w, id)
             \/ Save(w)
             \/ Delete(w)
        \/ \E u \in User : DeleteUserMessages(u)
        \/ Crash

Spec == Init /\ [][Next]_vars

\* A goroutine that runs keeps running until its operation returns.
FairSpec == Spec /\ \A w \in Worker : WF_vars(Save(w) \/ Delete(w))

-----------------------------------------------------------------------------
(* Properties                                                              *)

\* What a reader of the message gets: GetMessage lists the metadata rows and
\* LoadAttachments skips the ones whose object cannot be read.
Readable(id) == IF content[id] = NoRow THEN {}
                ELSE {i \in 1..MaxAtt : <<id, i>> \in attachment \cap bucket}

\* The metadata of an attachment is written only once its object is: a row
\* without an object means that somebody asked for the message's deletion.
MetadataHasBlob == \A a \in attachment : a \in bucket \/ "delete" \in history[a[1]]

\* As long as nobody deletes a message and no call failed for it, every
\* attachment it came with can be read back once saveAndDeliver returns.
AttachmentsIntact ==
  \A id \in MsgId :
     (HasBucket /\ content[id] # NoRow /\ ~Saving(id)
        /\ {"fault", "delete"} \cap history[id] = {})
     => Readable(id) = 1..sent[id]

\* An object no row refers to is being written, or a call failed for its
\* message, or the deletion started before saveAndDeliver had finished.
OrphanBlobsExplained ==
  \A a \in bucket \ attachment :
     \/ Saving(a[1])
     \/ {"fault", "overtaken"} \cap history[a[1]] # {}

\* Metadata rows outlive a message deleted by its id only for those reasons;
\* the other way to lose the row, DeleteUserMessages, is told by "delete".
OrphanRowsExplained ==
  \A a \in attachment :
     (content[a[1]] = NoRow /\ "delete" \in history[a[1]])
     => \/ Saving(a[1])
        \/ {"fault", "overtaken"} \cap history[a[1]] # {}
        \/ \E w \in Worker : cur[w] = a[1] /\ pc[w] = "purge"

\* A deletion somebody asked for removes the message, unless a call failed
\* or the process died on the way.
DeletionCompletes ==
  \A id \in MsgId :
     "delete" \in history[id] ~> (content[id] = NoRow \/ "fault" \in history[id])

\* The storage layer keeps the promise of Mailbox.
Status(id) == IF "saved" \notin history[id] THEN "none"
              ELSE IF content[id] = NoRow THEN "gone"
              ELSE IF "delete" \in history[id] THEN "closing" ELSE "live"

Box == INSTANCE Mailbox WITH mail <- [id \in MsgId |-> Status(id)],
                             files <- [id \in MsgId |-> Readable(id)]

\* Every step of the store is a step of the mailbox a reader sees, or none.
ImplementsMailbox == Box!BoxSpec

=============================================================================
