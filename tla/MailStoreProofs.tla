--------------------------- MODULE MailStoreProofs ---------------------------
(***************************************************************************)
(* The invariants of MailStore for every number of messages, owners,       *)
(* workers and attachments, by one inductive invariant.                    *)
(***************************************************************************)
EXTENDS MailStore, TLAPS

Bad(id) == {"fault", "overtaken"} \cap history[id] # {}

\* What a worker in the middle of an operation knows.
JobsOK ==
  \A w \in Worker :
    /\ pc[w] = "idle" => cur[w] = NoMsg
    /\ pc[w] # "idle" => cur[w] \in MsgId /\ "saved" \in history[cur[w]]
    /\ pc[w] \in {"write", "meta"} => HasBucket /\ k[w] \in 1..sent[cur[w]]
    /\ pc[w] \in {"purge", "row"} => "delete" \in history[cur[w]]

\* A fresh uuid per message: one saver at most.
OneSaver == \A v, w \in Worker :
  (/\ pc[v] \in {"write", "meta"}
   /\ pc[w] \in {"write", "meta"}
   /\ cur[v] = cur[w]) => v = w

\* Nothing exists of a message that was never saved.
Unsaved ==
  \A id \in MsgId : "saved" \notin history[id]
     => /\ content[id] = NoRow
        /\ "delete" \notin history[id]
        /\ \A i \in 1..MaxAtt : <<id, i>> \notin attachment /\ <<id, i>> \notin bucket

\* No object or row beyond what the message came with.
Bounded ==
  \A id \in MsgId, i \in 1..MaxAtt :
     (<<id, i>> \in attachment \/ <<id, i>> \in bucket) => i <= sent[id] /\ HasBucket

\* While objects are being written there are no metadata rows yet.
Writing ==
  \A w \in Worker : pc[w] = "write"
     => \A i \in 1..MaxAtt :
          /\ <<cur[w], i>> \notin attachment
          /\ (i < k[w] /\ "delete" \notin history[cur[w]]) => <<cur[w], i>> \in bucket

\* While metadata is being written every object is there, and every row but
\* the ones whose call failed.
Describing ==
  \A w \in Worker : (pc[w] = "meta" /\ "delete" \notin history[cur[w]])
     => \A i \in 1..sent[cur[w]] :
          /\ <<cur[w], i>> \in bucket
          /\ (i < k[w] /\ "fault" \notin history[cur[w]])
             => <<cur[w], i>> \in attachment

\* A saver and a deleter of one message at once: told by "overtaken".
Overtaken ==
  \A id \in MsgId :
     ("delete" \in history[id] /\ Saving(id)) => "overtaken" \in history[id]

\* A deleter only has objects of its own message before it.
Targets == \A w \in Worker : \A a \in todo[w] : a[1] = cur[w]

\* A deleter still has before it every object of its message.
Purging ==
  \A w \in Worker : (pc[w] = "purge" /\ ~Bad(cur[w]))
     => \A i \in 1..MaxAtt : <<cur[w], i>> \in bucket => <<cur[w], i>> \in todo[w]

IInv == /\ TypeOK /\ JobsOK /\ OneSaver /\ Unsaved /\ Bounded
        /\ Writing /\ Describing /\ Overtaken /\ Targets /\ Purging
        /\ MetadataHasBlob /\ AttachmentsIntact /\ OrphanBlobsExplained

-----------------------------------------------------------------------------

\* The empty store satisfies the inductive invariant.
LEMMA InitInv == Init => IInv
<1> SUFFICES ASSUME Init PROVE IInv
  OBVIOUS
<1> USE DEF Init
<1>1. TypeOK
  BY StoreAssumption DEF TypeOK, Att, Event
<1>2. JobsOK /\ OneSaver /\ Unsaved /\ Bounded
  BY DEF JobsOK, OneSaver, Unsaved, Bounded
<1>3. Writing /\ Describing /\ Overtaken /\ Targets /\ Purging
  BY DEF Writing, Describing, Overtaken, Targets, Purging, Saving
<1>4. MetadataHasBlob /\ AttachmentsIntact /\ OrphanBlobsExplained
  BY DEF MetadataHasBlob, AttachmentsIntact, OrphanBlobsExplained
<1>5. QED
  BY <1>1, <1>2, <1>3, <1>4 DEF IInv

\* No step of the store leaves the types of its tables and jobs; attachment
\* indices stay within what the message came with.
LEMMA TypeStep == TypeOK /\ JobsOK /\ [Next]_vars => TypeOK'
<1> SUFFICES ASSUME TypeOK, JobsOK, [Next]_vars PROVE TypeOK'
  OBVIOUS
<1> USE StoreAssumption DEF TypeOK, JobsOK, Att, Event, Note, Goto, Return, Current, Last
<1>1. ASSUME NEW w \in Worker, NEW id \in MsgId, NEW u \in User, NEW n \in 0..MaxAtt,
             SaveMessage(w, id, u, n)
      PROVE  TypeOK'
  BY <1>1 DEF SaveMessage
<1>2. ASSUME NEW w \in Worker, NEW id \in MsgId, ListAttachments(w, id)
      PROVE  TypeOK'
  BY <1>2 DEF ListAttachments, RowsOf
<1>3. ASSUME NEW w \in Worker, WriteBlob(w) PROVE TypeOK'
  BY <1>3 DEF WriteBlob
<1>4. ASSUME NEW w \in Worker, WriteBlobFails(w) PROVE TypeOK'
  BY <1>4 DEF WriteBlobFails
<1>5. ASSUME NEW w \in Worker, SaveAttachment(w) PROVE TypeOK'
  BY <1>5 DEF SaveAttachment, NextRow
<1>6. ASSUME NEW w \in Worker, SaveAttachmentFails(w) PROVE TypeOK'
  BY <1>6 DEF SaveAttachmentFails, NextRow
<1>7. ASSUME NEW w \in Worker, DeleteBlob(w) PROVE TypeOK'
  BY <1>7 DEF DeleteBlob
<1>8. ASSUME NEW w \in Worker, DeleteBlobFails(w) PROVE TypeOK'
  BY <1>8 DEF DeleteBlobFails
<1>9. ASSUME NEW w \in Worker, DeleteAttachmentsByMessage(w) PROVE TypeOK'
  BY <1>9 DEF DeleteAttachmentsByMessage, RowsOf
<1>10. ASSUME NEW w \in Worker, DeleteMessage(w) PROVE TypeOK'
  BY <1>10 DEF DeleteMessage
<1>11. ASSUME NEW w \in Worker, DeleteMessageFails(w) PROVE TypeOK'
  BY <1>11 DEF DeleteMessageFails
<1>12. ASSUME NEW u \in User, DeleteUserMessages(u) PROVE TypeOK'
  BY <1>12 DEF DeleteUserMessages, jobVars
<1>13. CASE Crash
  BY <1>13 DEF Crash
<1>14. CASE UNCHANGED vars
  BY <1>14 DEF vars
<1>15. QED
  BY <1>1, <1>2, <1>3, <1>4, <1>5, <1>6, <1>7, <1>8, <1>9, <1>10, <1>11, <1>12, <1>13, <1>14
  DEF Next, Save, Delete

\* One lemma per step of Next, each with the conjuncts it can disturb: the row
\* of a fresh message goes in and its worker turns to the attachments.
LEMMA SaveMessageStep ==
  ASSUME IInv, TypeOK', NEW w \in Worker, NEW id \in MsgId, NEW u \in User,
         NEW n \in 0..MaxAtt,
         SaveMessage(w, id, u, n)
  PROVE  IInv'
<1> USE StoreAssumption DEF IInv, TypeOK, Att, Event, SaveMessage, Note, Goto, Return, Current, Last
<1>1. JobsOK'
  BY DEF JobsOK
<1>2. OneSaver'
  BY DEF OneSaver, JobsOK, Unsaved
<1>3. Unsaved'
  BY DEF Unsaved, JobsOK
<1>4. Bounded'
  BY DEF Bounded, JobsOK, Unsaved
<1>5. Writing'
  BY DEF Writing, JobsOK, OneSaver, Unsaved
<1>6. Describing'
  BY DEF Describing, Writing, JobsOK, OneSaver, Unsaved
<1>7. Overtaken'
  BY DEF Overtaken, Saving, JobsOK, Unsaved
<1>8. Purging'
  BY DEF Purging, Bad, JobsOK, Overtaken, Saving, Unsaved, OrphanBlobsExplained, Bounded
<1>9. MetadataHasBlob'
  BY DEF MetadataHasBlob, JobsOK, Unsaved, Describing
<1>10. AttachmentsIntact'
  <2> SUFFICES ASSUME NEW j \in MsgId, HasBucket, content'[j] # NoRow, ~Saving(j)',
                      {"fault", "delete"} \cap history'[j] = {}
               PROVE  Readable(j)' = 1..sent'[j]
    BY DEF AttachmentsIntact
  <2>1. CASE j = id
    <3>1. n = 0
      BY <2>1 DEF Saving
    <3>2. QED
      BY <2>1, <3>1 DEF Readable, Unsaved
  <2>2. CASE j # id
    <3>1. ~Saving(j)
      BY <2>2 DEF Saving
    <3>2. QED
      BY <2>2, <3>1 DEF AttachmentsIntact, Readable
  <2>3. QED
    BY <2>1, <2>2
<1>11. OrphanBlobsExplained'
  <2> SUFFICES ASSUME NEW a \in bucket \ attachment
               PROVE  \/ Saving(a[1])'
                      \/ {"fault", "overtaken"} \cap history'[a[1]] # {}
    BY DEF OrphanBlobsExplained
  <2>1. PICK j \in MsgId, i \in 1..MaxAtt : a = <<j, i>>
    OBVIOUS
  <2>2. CASE Saving(j)
    BY <2>1, <2>2 DEF Saving
  <2>3. CASE {"fault", "overtaken"} \cap history[j] # {}
    BY <2>1, <2>3
  <2>4. QED
    BY <2>1, <2>2, <2>3 DEF OrphanBlobsExplained
<1>12. Targets'
  BY DEF Targets, JobsOK
<1>13. QED
  BY <1>12, <1>1, <1>2, <1>3, <1>4, <1>5, <1>6, <1>7, <1>8, <1>9, <1>10, <1>11 DEF IInv

\* A deletion starts with the objects it found listed.
LEMMA ListAttachmentsStep ==
  ASSUME IInv, TypeOK', NEW w \in Worker, NEW id \in MsgId,
         ListAttachments(w, id)
  PROVE  IInv'
<1> USE StoreAssumption DEF IInv, TypeOK, Att, Event, ListAttachments, Note, Goto, Return, Current, Last, RowsOf
<1>1. JobsOK'
  BY DEF JobsOK
<1>2. OneSaver'
  BY DEF OneSaver, JobsOK, Unsaved
<1>3. Unsaved'
  BY DEF Unsaved, JobsOK
<1>4. Bounded'
  BY DEF Bounded, JobsOK, Unsaved
<1>5. Writing'
  BY DEF Writing, JobsOK, OneSaver, Unsaved
<1>6. Describing'
  BY DEF Describing, Writing, JobsOK, OneSaver, Unsaved
<1>7. Overtaken'
  BY DEF Overtaken, Saving, JobsOK, Unsaved
<1>8. Purging'
  <2> SUFFICES ASSUME NEW v \in Worker, (pc[v] = "purge" /\ ~Bad(cur[v]))',
                      NEW i \in 1..MaxAtt, (<<cur[v], i>> \in bucket)'
               PROVE  (<<cur[v], i>> \in todo[v])'
    BY DEF Purging
  <2>1. CASE v # w
    BY <2>1 DEF Purging, Bad, JobsOK
  <2>2. CASE v = w
    <3>0. PICK listed \in {RowsOf(id), {}} :
            /\ Goto(w, "purge", id, 0, IF HasBucket THEN listed ELSE {})
            /\ Note(id, {"delete"}
                      \cup (IF listed # RowsOf(id) THEN {"fault"} ELSE {})
                      \cup (IF Saving(id) THEN {"overtaken"} ELSE {}))
      BY DEF ListAttachments
    <3>1. cur'[v] = id
      BY <2>2, <3>0
    <3>5. "fault" \notin history'[id] /\ "overtaken" \notin history'[id]
      BY <3>1 DEF Bad
    <3>6. /\ "fault" \notin history[id] /\ "overtaken" \notin history[id]
          /\ listed = RowsOf(id) /\ ~Saving(id)
      BY <3>0, <3>5
    <3>7. todo'[v] = IF HasBucket THEN RowsOf(id) ELSE {}
      BY <2>2, <3>0, <3>6
    <3>2. <<id, i>> \in attachment
      <4>1. <<id, i>> \in bucket /\ <<id, i>>[1] = id
        BY <3>1, <3>6, <3>7
      <4>2. QED
        BY <3>1, <3>6, <3>7, <4>1 DEF OrphanBlobsExplained
    <3>3. HasBucket
      BY <3>2 DEF Bounded
    <3>4. QED
      BY <3>1, <3>6, <3>7, <3>2, <3>3 DEF RowsOf
  <2>3. QED
    BY <2>1, <2>2
<1>9. MetadataHasBlob'
  BY DEF MetadataHasBlob, JobsOK, Unsaved, Describing
<1>10. AttachmentsIntact'
  BY DEF AttachmentsIntact, Readable, Saving, JobsOK, OneSaver, Unsaved, Describing, Overtaken, Bounded
<1>11. OrphanBlobsExplained'
  BY DEF OrphanBlobsExplained, Saving, JobsOK, OneSaver, Unsaved, Describing, Overtaken, Purging, Bad, Bounded
<1>12. Targets'
  BY DEF Targets, JobsOK
<1>13. QED
  BY <1>12, <1>1, <1>2, <1>3, <1>4, <1>5, <1>6, <1>7, <1>8, <1>9, <1>10, <1>11 DEF IInv

\* An object is written; after the last one the worker turns to the metadata.
LEMMA WriteBlobStep ==
  ASSUME IInv, TypeOK', NEW w \in Worker,
         WriteBlob(w)
  PROVE  IInv'
<1> USE StoreAssumption DEF IInv, TypeOK, Att, Event, WriteBlob, Note, Goto, Return, Current, Last
<1>1. JobsOK'
  BY DEF JobsOK
<1>2. OneSaver'
  BY DEF OneSaver, JobsOK, Unsaved
<1>3. Unsaved'
  BY DEF Unsaved, JobsOK
<1>4. Bounded'
  BY DEF Bounded, JobsOK, Unsaved
<1>5. Writing'
  <2> SUFFICES ASSUME NEW v \in Worker, pc'[v] = "write", NEW i \in 1..MaxAtt
               PROVE  /\ <<cur'[v], i>> \notin attachment
                      /\ (i < k'[v] /\ "delete" \notin history[cur'[v]])
                         => <<cur'[v], i>> \in bucket'
    BY DEF Writing
  <2>1. pc[v] = "write" /\ cur'[v] = cur[v]
    OBVIOUS
  <2>2. i < k'[v] => i < k[v] \/ (v = w /\ i = k[w])
    BY <2>1 DEF JobsOK
  <2>3. QED
    BY <2>1, <2>2 DEF Writing
<1>6. Describing'
  BY DEF Describing, Writing, JobsOK, OneSaver, Unsaved
<1>7. Overtaken'
  BY DEF Overtaken, Saving, JobsOK, Unsaved
<1>8. Purging'
  BY DEF Purging, Bad, JobsOK, Overtaken, Saving, Unsaved, OrphanBlobsExplained, Bounded
<1>9. MetadataHasBlob'
  BY DEF MetadataHasBlob, JobsOK, Unsaved, Describing
<1>10. AttachmentsIntact'
  BY DEF AttachmentsIntact, Readable, Saving, JobsOK, OneSaver, Unsaved, Describing, Overtaken, Bounded
<1>11. OrphanBlobsExplained'
  BY DEF OrphanBlobsExplained, Saving, JobsOK, OneSaver, Unsaved, Describing, Overtaken, Purging, Bad, Bounded
<1>12. Targets'
  BY DEF Targets, JobsOK
<1>13. QED
  BY <1>12, <1>1, <1>2, <1>3, <1>4, <1>5, <1>6, <1>7, <1>8, <1>9, <1>10, <1>11 DEF IInv

\* A failing write ends saveAttachments without any metadata row.
LEMMA WriteBlobFailsStep ==
  ASSUME IInv, TypeOK', NEW w \in Worker,
         WriteBlobFails(w)
  PROVE  IInv'
<1> USE StoreAssumption DEF IInv, TypeOK, Att, Event, WriteBlobFails, Note, Goto, Return, Current, Last
<1>1. JobsOK'
  BY DEF JobsOK
<1>2. OneSaver'
  BY DEF OneSaver, JobsOK, Unsaved
<1>3. Unsaved'
  BY DEF Unsaved, JobsOK
<1>4. Bounded'
  BY DEF Bounded, JobsOK, Unsaved
<1>5. Writing'
  BY DEF Writing, JobsOK, OneSaver, Unsaved
<1>6. Describing'
  BY DEF Describing, Writing, JobsOK, OneSaver, Unsaved
<1>7. Overtaken'
  BY DEF Overtaken, Saving, JobsOK, Unsaved
<1>8. Purging'
  BY DEF Purging, Bad, JobsOK, Overtaken, Saving, Unsaved, OrphanBlobsExplained, Bounded
<1>9. MetadataHasBlob'
  BY DEF MetadataHasBlob, JobsOK, Unsaved, Describing
<1>10. AttachmentsIntact'
  <2> SUFFICES ASSUME NEW j \in MsgId, HasBucket, content'[j] # NoRow, ~Saving(j)',
                      {"fault", "delete"} \cap history'[j] = {}
               PROVE  Readable(j)' = 1..sent'[j]
    BY DEF AttachmentsIntact
  <2>1. j # cur[w]
    <3>1. CASE j = cur[w]
      <4>1. history' = [history EXCEPT ![j] = @ \cup {"fault"}]
        BY <3>1
      <4>2. "fault" \in history'[j]
        BY <4>1
      <4>3. QED
        BY <4>2
    <3>2. QED
      BY <3>1
  <2>2. ~Saving(j) /\ history'[j] = history[j]
    BY <2>1 DEF Saving
  <2>3. \A i \in 1..MaxAtt : <<j, i>> \in bucket' <=> <<j, i>> \in bucket
    BY <2>1
  <2>4. Readable(j)' = Readable(j)
    BY <2>3 DEF Readable
  <2>5. QED
    BY <2>2, <2>4 DEF AttachmentsIntact
<1>11. OrphanBlobsExplained'
  <2> SUFFICES ASSUME NEW a \in bucket' \ attachment
               PROVE  \/ Saving(a[1])'
                      \/ {"fault", "overtaken"} \cap history'[a[1]] # {}
    BY DEF OrphanBlobsExplained
  <2>0. PICK j \in MsgId, i \in 1..MaxAtt : a = <<j, i>>
    BY DEF JobsOK
  <2>1. CASE j = cur[w]
    BY <2>0, <2>1
  <2>2. CASE j # cur[w]
    <3>1. a \in bucket
      BY <2>0, <2>2
    <3>2. CASE Saving(j)
      BY <2>0, <2>2, <3>2 DEF Saving
    <3>3. QED
      BY <2>0, <3>1, <3>2 DEF OrphanBlobsExplained
  <2>3. QED
    BY <2>1, <2>2
<1>12. Targets'
  BY DEF Targets, JobsOK
<1>13. QED
  BY <1>12, <1>1, <1>2, <1>3, <1>4, <1>5, <1>6, <1>7, <1>8, <1>9, <1>10, <1>11 DEF IInv

\* A metadata row is written, its object being there.
LEMMA SaveAttachmentStep ==
  ASSUME IInv, TypeOK', NEW w \in Worker,
         SaveAttachment(w)
  PROVE  IInv'
<1> USE StoreAssumption DEF IInv, TypeOK, Att, Event, SaveAttachment, Note, Goto, Return, Current, Last, NextRow
<1>1. JobsOK'
  BY DEF JobsOK
<1>2. OneSaver'
  BY DEF OneSaver, JobsOK, Unsaved
<1>3. Unsaved'
  BY DEF Unsaved, JobsOK
<1>4. Bounded'
  BY DEF Bounded, JobsOK, Unsaved
<1>5. Writing'
  BY DEF Writing, JobsOK, OneSaver, Unsaved
<1>6. Describing'
  BY DEF Describing, Writing, JobsOK, OneSaver, Unsaved
<1>7. Overtaken'
  BY DEF Overtaken, Saving, JobsOK, Unsaved
<1>8. Purging'
  BY DEF Purging, Bad, JobsOK, Overtaken, Saving, Unsaved, OrphanBlobsExplained, Bounded
<1>9. MetadataHasBlob'
  BY DEF MetadataHasBlob, JobsOK, Unsaved, Describing
<1>10. AttachmentsIntact'
  BY DEF AttachmentsIntact, Readable, Saving, JobsOK, OneSaver, Unsaved, Describing, Overtaken, Bounded
<1>11. OrphanBlobsExplained'
  BY DEF OrphanBlobsExplained, Saving, JobsOK, OneSaver, Unsaved, Describing, Overtaken, Purging, Bad, Bounded
<1>12. Targets'
  BY DEF Targets, JobsOK
<1>13. QED
  BY <1>12, <1>1, <1>2, <1>3, <1>4, <1>5, <1>6, <1>7, <1>8, <1>9, <1>10, <1>11 DEF IInv

\* A metadata row could not be written and the loop goes on.
LEMMA SaveAttachmentFailsStep ==
  ASSUME IInv, TypeOK', NEW w \in Worker,
         SaveAttachmentFails(w)
  PROVE  IInv'
<1> USE StoreAssumption DEF IInv, TypeOK, Att, Event, SaveAttachmentFails, Note, Goto, Return, Current, Last, NextRow
<1>1. JobsOK'
  BY DEF JobsOK
<1>2. OneSaver'
  BY DEF OneSaver, JobsOK, Unsaved
<1>3. Unsaved'
  BY DEF Unsaved, JobsOK
<1>4. Bounded'
  BY DEF Bounded, JobsOK, Unsaved
<1>5. Writing'
  BY DEF Writing, JobsOK, OneSaver, Unsaved
<1>6. Describing'
  BY DEF Describing, Writing, JobsOK, OneSaver, Unsaved
<1>7. Overtaken'
  BY DEF Overtaken, Saving, JobsOK, Unsaved
<1>8. Purging'
  BY DEF Purging, Bad, JobsOK, Overtaken, Saving, Unsaved, OrphanBlobsExplained, Bounded
<1>9. MetadataHasBlob'
  BY DEF MetadataHasBlob, JobsOK, Unsaved, Describing
<1>10. AttachmentsIntact'
  <2> SUFFICES ASSUME NEW j \in MsgId, HasBucket, content'[j] # NoRow, ~Saving(j)',
                      {"fault", "delete"} \cap history'[j] = {}
               PROVE  Readable(j)' = 1..sent'[j]
    BY DEF AttachmentsIntact
  <2>1. j # cur[w]
    <3>1. CASE j = cur[w]
      <4>1. history' = [history EXCEPT ![j] = @ \cup {"fault"}]
        BY <3>1
      <4>2. "fault" \in history'[j]
        BY <4>1
      <4>3. QED
        BY <4>2
    <3>2. QED
      BY <3>1
  <2>2. ~Saving(j) /\ history'[j] = history[j]
    BY <2>1 DEF Saving
  <2>3. \A i \in 1..MaxAtt : <<j, i>> \in bucket' <=> <<j, i>> \in bucket
    BY <2>1
  <2>4. Readable(j)' = Readable(j)
    BY <2>3 DEF Readable
  <2>5. QED
    BY <2>2, <2>4 DEF AttachmentsIntact
<1>11. OrphanBlobsExplained'
  BY DEF OrphanBlobsExplained, Saving, JobsOK, OneSaver, Unsaved, Describing, Overtaken, Purging, Bad, Bounded
<1>12. Targets'
  BY DEF Targets, JobsOK
<1>13. QED
  BY <1>12, <1>1, <1>2, <1>3, <1>4, <1>5, <1>6, <1>7, <1>8, <1>9, <1>10, <1>11 DEF IInv

\* A deletion removes one object of its message.
LEMMA DeleteBlobStep ==
  ASSUME IInv, TypeOK', NEW w \in Worker,
         DeleteBlob(w)
  PROVE  IInv'
<1> USE StoreAssumption DEF IInv, TypeOK, Att, Event, DeleteBlob, Note, Goto, Return, Current, Last
<1>1. JobsOK'
  BY DEF JobsOK
<1>2. OneSaver'
  BY DEF OneSaver, JobsOK, Unsaved
<1>3. Unsaved'
  BY DEF Unsaved, JobsOK
<1>4. Bounded'
  BY DEF Bounded, JobsOK, Unsaved
<1>5. Writing'
  BY DEF Targets, Writing, JobsOK, OneSaver, Unsaved
<1>6. Describing'
  BY DEF Targets, Describing, Writing, JobsOK, OneSaver, Unsaved
<1>7. Overtaken'
  BY DEF Overtaken, Saving, JobsOK, Unsaved
<1>8. Purging'
  BY DEF Purging, Bad, JobsOK
<1>9. MetadataHasBlob'
  BY DEF Targets, MetadataHasBlob, JobsOK, Unsaved, Describing
<1>10. AttachmentsIntact'
  BY DEF Targets, AttachmentsIntact, Readable, Saving, JobsOK, OneSaver, Unsaved, Describing, Overtaken, Bounded
<1>11. OrphanBlobsExplained'
  BY DEF OrphanBlobsExplained, Saving, JobsOK, OneSaver, Unsaved, Describing, Overtaken, Purging, Bad, Bounded
<1>12. Targets'
  BY DEF Targets, JobsOK
<1>13. QED
  BY <1>12, <1>1, <1>2, <1>3, <1>4, <1>5, <1>6, <1>7, <1>8, <1>9, <1>10, <1>11 DEF IInv

\* A deletion leaves one object of its message behind.
LEMMA DeleteBlobFailsStep ==
  ASSUME IInv, TypeOK', NEW w \in Worker,
         DeleteBlobFails(w)
  PROVE  IInv'
<1> USE StoreAssumption DEF IInv, TypeOK, Att, Event, DeleteBlobFails, Note, Goto, Return, Current, Last
<1>1. JobsOK'
  BY DEF JobsOK
<1>2. OneSaver'
  BY DEF OneSaver, JobsOK, Unsaved
<1>3. Unsaved'
  BY DEF Unsaved, JobsOK
<1>4. Bounded'
  BY DEF Bounded, JobsOK, Unsaved
<1>5. Writing'
  BY DEF Writing, JobsOK, OneSaver, Unsaved
<1>6. Describing'
  BY DEF Describing, Writing, JobsOK, OneSaver, Unsaved
<1>7. Overtaken'
  BY DEF Overtaken, Saving, JobsOK, Unsaved
<1>8. Purging'
  BY DEF Purging, Bad, JobsOK
<1>9. MetadataHasBlob'
  BY DEF MetadataHasBlob, JobsOK, Unsaved, Describing
<1>10. AttachmentsIntact'
  BY DEF AttachmentsIntact, Readable, Saving, JobsOK, OneSaver, Unsaved, Describing, Overtaken, Bounded
<1>11. OrphanBlobsExplained'
  BY DEF OrphanBlobsExplained, Saving, JobsOK, OneSaver, Unsaved, Describing, Overtaken, Purging, Bad, Bounded
<1>12. Targets'
  BY DEF Targets, JobsOK
<1>13. QED
  BY <1>12, <1>1, <1>2, <1>3, <1>4, <1>5, <1>6, <1>7, <1>8, <1>9, <1>10, <1>11 DEF IInv

\* The metadata rows go, or their deletion fails.
LEMMA DeleteAttachmentsByMessageStep ==
  ASSUME IInv, TypeOK', NEW w \in Worker,
         DeleteAttachmentsByMessage(w)
  PROVE  IInv'
<1> USE StoreAssumption DEF IInv, TypeOK, Att, Event, DeleteAttachmentsByMessage, Note, Goto, Return, Current, Last, RowsOf
<1>1. JobsOK'
  BY DEF JobsOK
<1>2. OneSaver'
  BY DEF OneSaver, JobsOK, Unsaved
<1>3. Unsaved'
  BY DEF Unsaved, JobsOK
<1>4. Bounded'
  BY DEF Bounded, JobsOK, Unsaved
<1>5. Writing'
  BY DEF Writing, JobsOK, OneSaver, Unsaved
<1>6. Describing'
  BY DEF Describing, Writing, JobsOK, OneSaver, Unsaved
<1>7. Overtaken'
  BY DEF Overtaken, Saving, JobsOK, Unsaved
<1>8. Purging'
  BY DEF Purging, Bad, JobsOK, Overtaken, Saving, Unsaved, OrphanBlobsExplained, Bounded
<1>9. MetadataHasBlob'
  BY DEF MetadataHasBlob, JobsOK, Unsaved, Describing
<1>10. AttachmentsIntact'
  BY DEF AttachmentsIntact, Readable, Saving, JobsOK, OneSaver, Unsaved, Describing, Overtaken, Bounded
<1>11. OrphanBlobsExplained'
  BY DEF OrphanBlobsExplained, Saving, JobsOK, OneSaver, Unsaved, Describing, Overtaken, Purging, Bad, Bounded
<1>12. Targets'
  BY DEF Targets, JobsOK
<1>13. QED
  BY <1>12, <1>1, <1>2, <1>3, <1>4, <1>5, <1>6, <1>7, <1>8, <1>9, <1>10, <1>11 DEF IInv

\* The row of the message goes.
LEMMA DeleteMessageStep ==
  ASSUME IInv, TypeOK', NEW w \in Worker,
         DeleteMessage(w)
  PROVE  IInv'
<1> USE StoreAssumption DEF IInv, TypeOK, Att, Event, DeleteMessage, Note, Goto, Return, Current, Last
<1>1. JobsOK'
  BY DEF JobsOK
<1>2. OneSaver'
  BY DEF OneSaver, JobsOK, Unsaved
<1>3. Unsaved'
  BY DEF Unsaved, JobsOK
<1>4. Bounded'
  BY DEF Bounded, JobsOK, Unsaved
<1>5. Writing'
  BY DEF Writing, JobsOK, OneSaver, Unsaved
<1>6. Describing'
  BY DEF Describing, Writing, JobsOK, OneSaver, Unsaved
<1>7. Overtaken'
  BY DEF Overtaken, Saving, JobsOK, Unsaved
<1>8. Purging'
  BY DEF Purging, Bad, JobsOK, Overtaken, Saving, Unsaved, OrphanBlobsExplained, Bounded
<1>9. MetadataHasBlob'
  BY DEF MetadataHasBlob, JobsOK, Unsaved, Describing
<1>10. AttachmentsIntact'
  BY DEF AttachmentsIntact, Readable, Saving, JobsOK, OneSaver, Unsaved, Describing, Overtaken, Bounded
<1>11. OrphanBlobsExplained'
  BY DEF OrphanBlobsExplained, Saving, JobsOK, OneSaver, Unsaved, Describing, Overtaken, Purging, Bad, Bounded
<1>12. Targets'
  BY DEF Targets, JobsOK
<1>13. QED
  BY <1>12, <1>1, <1>2, <1>3, <1>4, <1>5, <1>6, <1>7, <1>8, <1>9, <1>10, <1>11 DEF IInv

\* The row of the message could not be deleted.
LEMMA DeleteMessageFailsStep ==
  ASSUME IInv, TypeOK', NEW w \in Worker,
         DeleteMessageFails(w)
  PROVE  IInv'
<1> USE StoreAssumption DEF IInv, TypeOK, Att, Event, DeleteMessageFails, Note, Goto, Return, Current, Last
<1>1. JobsOK'
  BY DEF JobsOK
<1>2. OneSaver'
  BY DEF OneSaver, JobsOK, Unsaved
<1>3. Unsaved'
  BY DEF Unsaved, JobsOK
<1>4. Bounded'
  BY DEF Bounded, JobsOK, Unsaved
<1>5. Writing'
  BY DEF Writing, JobsOK, OneSaver, Unsaved
<1>6. Describing'
  BY DEF Describing, Writing, JobsOK, OneSaver, Unsaved
<1>7. Overtaken'
  BY DEF Overtaken, Saving, JobsOK, Unsaved
<1>8. Purging'
  BY DEF Purging, Bad, JobsOK, Overtaken, Saving, Unsaved, OrphanBlobsExplained, Bounded
<1>9. MetadataHasBlob'
  BY DEF MetadataHasBlob, JobsOK, Unsaved, Describing
<1>10. AttachmentsIntact'
  BY DEF AttachmentsIntact, Readable, Saving, JobsOK, OneSaver, Unsaved, Describing, Overtaken, Bounded
<1>11. OrphanBlobsExplained'
  BY DEF OrphanBlobsExplained, Saving, JobsOK, OneSaver, Unsaved, Describing, Overtaken, Purging, Bad, Bounded
<1>12. Targets'
  BY DEF Targets, JobsOK
<1>13. QED
  BY <1>12, <1>1, <1>2, <1>3, <1>4, <1>5, <1>6, <1>7, <1>8, <1>9, <1>10, <1>11 DEF IInv

\* The rows of one owner go in one statement.
LEMMA DeleteUserMessagesStep ==
  ASSUME IInv, TypeOK', NEW u \in User,
         DeleteUserMessages(u)
  PROVE  IInv'
<1> USE StoreAssumption DEF IInv, TypeOK, Att, Event, DeleteUserMessages, Note, Goto, Return, Current, Last, jobVars
<1>1. JobsOK'
  BY DEF JobsOK
<1>2. OneSaver'
  BY DEF OneSaver, JobsOK, Unsaved
<1>3. Unsaved'
  BY DEF Unsaved, JobsOK
<1>4. Bounded'
  BY DEF Bounded, JobsOK, Unsaved
<1>5. Writing'
  BY DEF Writing, JobsOK, OneSaver, Unsaved
<1>6. Describing'
  BY DEF Describing, Writing, JobsOK, OneSaver, Unsaved
<1>7. Overtaken'
  BY DEF Overtaken, Saving, JobsOK, Unsaved
<1>8. Purging'
  BY DEF Purging, Bad, JobsOK, Overtaken, Saving, Unsaved, OrphanBlobsExplained, Bounded
<1>9. MetadataHasBlob'
  BY DEF MetadataHasBlob, JobsOK, Unsaved, Describing
<1>10. AttachmentsIntact'
  BY DEF AttachmentsIntact, Readable, Saving, JobsOK, OneSaver, Unsaved, Describing, Overtaken, Bounded
<1>11. OrphanBlobsExplained'
  BY DEF OrphanBlobsExplained, Saving, JobsOK, OneSaver, Unsaved, Describing, Overtaken, Purging, Bad, Bounded
<1>12. Targets'
  BY DEF Targets, JobsOK
<1>13. QED
  BY <1>12, <1>1, <1>2, <1>3, <1>4, <1>5, <1>6, <1>7, <1>8, <1>9, <1>10, <1>11 DEF IInv

\* The process dies with every worker in the middle of something.
LEMMA CrashStep ==
  ASSUME IInv, TypeOK',
         Crash
  PROVE  IInv'
<1> USE StoreAssumption DEF IInv, TypeOK, Att, Event, Crash, Note, Goto, Return, Current, Last
<1>1. JobsOK'
  BY DEF JobsOK
<1>2. OneSaver'
  BY DEF OneSaver, JobsOK, Unsaved
<1>3. Unsaved'
  BY DEF Unsaved, JobsOK
<1>4. Bounded'
  BY DEF Bounded, JobsOK, Unsaved
<1>5. Writing'
  BY DEF Writing, JobsOK, OneSaver, Unsaved
<1>6. Describing'
  BY DEF Describing, Writing, JobsOK, OneSaver, Unsaved
<1>7. Overtaken'
  BY DEF Overtaken, Saving, JobsOK, Unsaved
<1>8. Purging'
  BY DEF Purging, Bad, JobsOK, Overtaken, Saving, Unsaved, OrphanBlobsExplained, Bounded
<1>9. MetadataHasBlob'
  BY DEF MetadataHasBlob, JobsOK, Unsaved, Describing
<1>10. AttachmentsIntact'
  BY DEF AttachmentsIntact, Readable, Saving, JobsOK, OneSaver, Unsaved, Describing, Overtaken, Bounded
<1>11. OrphanBlobsExplained'
  <2> SUFFICES ASSUME NEW a \in bucket \ attachment
               PROVE  {"fault", "overtaken"} \cap history'[a[1]] # {}
    BY DEF OrphanBlobsExplained
  <2>1. a[1] \in MsgId
    OBVIOUS
  <2>2. CASE Saving(a[1])
    BY <2>1, <2>2 DEF Saving
  <2>3. CASE {"fault", "overtaken"} \cap history[a[1]] # {}
    BY <2>1, <2>3
  <2>4. QED
    BY <2>2, <2>3 DEF OrphanBlobsExplained
<1>12. Targets'
  BY DEF Targets, JobsOK
<1>13. QED
  BY <1>12, <1>1, <1>2, <1>3, <1>4, <1>5, <1>6, <1>7, <1>8, <1>9, <1>10, <1>11 DEF IInv

\* The inductive invariant holds in every state the store reaches, whatever
\* the number of goroutines saving and deleting, the failures and the crashes.
THEOREM MailStoreInv == Spec => []IInv
<1>1. Init => IInv
  BY InitInv
<1>2. IInv /\ [Next]_vars => IInv'
  <2> SUFFICES ASSUME IInv, [Next]_vars PROVE IInv'
    OBVIOUS
  <2>1. TypeOK'
    BY TypeStep DEF IInv
  <2>2. CASE UNCHANGED vars
    BY <2>2 DEF vars, IInv, TypeOK, JobsOK, OneSaver, Unsaved, Bounded, Writing,
       Describing, Overtaken, Targets, Purging, Bad, Saving, Readable,
       MetadataHasBlob, AttachmentsIntact, OrphanBlobsExplained
  <2>3. CASE Next
    BY <2>1, <2>3, SaveMessageStep, ListAttachmentsStep, WriteBlobStep,
       WriteBlobFailsStep, SaveAttachmentStep, SaveAttachmentFailsStep,
       DeleteBlobStep, DeleteBlobFailsStep, DeleteAttachmentsByMessageStep,
       DeleteMessageStep, DeleteMessageFailsStep, DeleteUserMessagesStep, CrashStep
    DEF Next, Save, Delete
  <2>4. QED
    BY <2>2, <2>3
<1>3. QED
  BY <1>1, <1>2, PTL DEF Spec

\* Tables and jobs keep their types; in particular no goroutine ever indexes an
\* attachment its message does not have.
THEOREM TypeCorrect == Spec => []TypeOK
BY MailStoreInv, PTL DEF IInv

\* saveAttachments writes metadata only for objects that are in the bucket: a
\* row of mail_attachment without its object belongs to a message somebody
\* asked to delete.
THEOREM RowsHaveObjects == Spec => []MetadataHasBlob
BY MailStoreInv, PTL DEF IInv

\* A message nobody deletes, none of whose calls failed, has every attachment it
\* came with once saveAndDeliver has returned.
THEOREM MailKeepsAttachments == Spec => []AttachmentsIntact
BY MailStoreInv, PTL DEF IInv

\* DeleteMessageFull leaves no object behind unless a call failed or it ran
\* before saveAndDeliver of the same message had finished.
THEOREM OrphansExplained == Spec => []OrphanBlobsExplained
BY MailStoreInv, PTL DEF IInv

-----------------------------------------------------------------------------
(* The rows of a deleted message.                                          *)

Purged(id) == \E w \in Worker : cur[w] = id /\ pc[w] = "purge"

\* OrphanRowsExplained speaks of messages whose own row is gone; the rows are
\* accounted for as soon as the deletion is asked for.
RowsExplained ==
  \A id \in MsgId, i \in 1..MaxAtt :
     (<<id, i>> \in attachment /\ "delete" \in history[id]) => Bad(id) \/ Purged(id)

\* A step that adds no row, ends no purge and starts no deletion.
LEMMA RowsKept ==
  ASSUME RowsExplained, attachment' \subseteq attachment,
         \A id \in MsgId : /\ "delete" \in history'[id] => "delete" \in history[id]
                           /\ Bad(id) => Bad(id)'
                           /\ Purged(id) => Purged(id)' \/ Bad(id)'
  PROVE  RowsExplained'
BY DEF RowsExplained

\* The deletion that is asked for is the purge that accounts for the rows; a
\* saver that writes one after it was told by "overtaken".
LEMMA RowsStep == IInv /\ RowsExplained /\ [Next]_vars => RowsExplained'
<1> SUFFICES ASSUME IInv, RowsExplained, [Next]_vars PROVE RowsExplained'
  OBVIOUS
<1> USE DEF IInv, TypeOK, Event, Att, Note, Goto, Return, Bad, Purged
<1>1. ASSUME NEW w \in Worker, NEW id \in MsgId, NEW u \in User, NEW n \in 0..MaxAtt,
             SaveMessage(w, id, u, n)
      PROVE  RowsExplained'
  BY <1>1, RowsKept DEF SaveMessage
<1>2. ASSUME NEW w \in Worker, NEW id \in MsgId, ListAttachments(w, id)
      PROVE  RowsExplained'
  <2>1. Purged(id)' /\ UNCHANGED attachment
    BY <1>2 DEF ListAttachments
  <2>2. \A j \in MsgId : j # id => /\ history'[j] = history[j]
                                   /\ Purged(j) => Purged(j)'
    BY <1>2 DEF ListAttachments
  <2>3. QED
    BY <2>1, <2>2 DEF RowsExplained
<1>3. ASSUME NEW w \in Worker, WriteBlob(w) \/ WriteBlobFails(w)
      PROVE  RowsExplained'
  BY <1>3, RowsKept DEF WriteBlob, WriteBlobFails
<1>4. ASSUME NEW w \in Worker, SaveAttachment(w)
      PROVE  RowsExplained'
  <2>1. \A j \in MsgId : /\ history'[j] = history[j]
                         /\ Purged(j) => Purged(j)'
    BY <1>4 DEF SaveAttachment, NextRow
  <2>2. PICK id \in MsgId, i \in 1..MaxAtt :
          id = cur[w] /\ i = k[w] /\ attachment' = attachment \cup {<<id, i>>}
    BY <1>4, StoreAssumption DEF SaveAttachment, Current, JobsOK
  <2>3. "delete" \in history[id] => "overtaken" \in history[id]
    BY <1>4, <2>2 DEF SaveAttachment, Overtaken, Saving
  <2>4. QED
    BY <2>1, <2>2, <2>3 DEF RowsExplained
<1>5. ASSUME NEW w \in Worker, SaveAttachmentFails(w)
      PROVE  RowsExplained'
  BY <1>5, RowsKept DEF SaveAttachmentFails, NextRow
<1>6. ASSUME NEW w \in Worker, DeleteBlob(w) \/ DeleteBlobFails(w)
      PROVE  RowsExplained'
  BY <1>6, RowsKept DEF DeleteBlob, DeleteBlobFails
<1>7. ASSUME NEW w \in Worker, DeleteAttachmentsByMessage(w)
      PROVE  RowsExplained'
  <2>1. PICK id \in MsgId : id = cur[w]
    BY <1>7 DEF DeleteAttachmentsByMessage, JobsOK
  <2>2. \A j \in MsgId : j # id => /\ history'[j] = history[j]
                                   /\ Purged(j) => Purged(j)'
    BY <1>7, <2>1 DEF DeleteAttachmentsByMessage
  <2>3. \/ "fault" \in history'[id]
        \/ attachment' = attachment \ RowsOf(id)
    BY <1>7, <2>1 DEF DeleteAttachmentsByMessage
  <2>4. attachment' \subseteq attachment
    BY <1>7 DEF DeleteAttachmentsByMessage
  <2>5. QED
    BY <2>2, <2>3, <2>4 DEF RowsExplained, RowsOf
<1>8. ASSUME NEW w \in Worker, DeleteMessage(w) \/ DeleteMessageFails(w)
      PROVE  RowsExplained'
  BY <1>8, RowsKept DEF DeleteMessage, DeleteMessageFails
<1>9. ASSUME NEW u \in User, DeleteUserMessages(u)
      PROVE  RowsExplained'
  BY <1>9, RowsKept DEF DeleteUserMessages, jobVars
<1>10. CASE Crash
  BY <1>10, RowsKept DEF Crash
<1>11. CASE UNCHANGED vars
  BY <1>11, RowsKept DEF vars
<1>12. QED
  BY <1>1, <1>2, <1>3, <1>4, <1>5, <1>6, <1>7, <1>8, <1>9, <1>10, <1>11
  DEF Next, Save, Delete

\* DeleteMessageFull drops the errors of its calls; still a metadata row is left
\* of a message it deleted only if one of them failed, if it ran before
\* saveAndDeliver had finished, or while it has not come to the rows yet.
THEOREM OrphanRowsKnown == Spec => []OrphanRowsExplained
<1>1. Init => RowsExplained
  BY DEF Init, RowsExplained
<1>2. IInv /\ RowsExplained => OrphanRowsExplained
  <2> SUFFICES ASSUME IInv, RowsExplained, NEW a \in attachment,
                      "delete" \in history[a[1]]
               PROVE  Bad(a[1]) \/ Purged(a[1])
    BY DEF OrphanRowsExplained, Bad, Purged
  <2>1. PICK id \in MsgId, i \in 1..MaxAtt : a = <<id, i>>
    BY DEF IInv, TypeOK, Att
  <2>2. QED
    BY <2>1 DEF RowsExplained
<1>3. QED
  BY <1>1, <1>2, MailStoreInv, RowsStep, PTL DEF Spec

-----------------------------------------------------------------------------
(* The store implements Mailbox.                                           *)

\* Neither rows, objects nor deletions: the reader sees no difference.
LEMMA Invisible ==
  ASSUME IInv, UNCHANGED <<content, attachment, bucket>>,
         \A id \in MsgId : /\ "saved" \in history'[id] <=> "saved" \in history[id]
                           /\ "delete" \in history'[id] <=> "delete" \in history[id]
  PROVE  UNCHANGED Box!boxVars
<1>1. \A id \in MsgId : Status(id)' = Status(id)
  BY DEF Status
<1>2. \A id \in MsgId : Readable(id)' = Readable(id)
  BY DEF Readable
<1>3. QED
  BY <1>1, <1>2 DEF Box!boxVars

\* Every step of the store, seen through Status and Readable, is a step of
\* Mailbox or none.
LEMMA StepSimulation == IInv /\ [Next]_vars => [Box!BoxNext]_(Box!boxVars)
<1> SUFFICES ASSUME IInv, [Next]_vars PROVE [Box!BoxNext]_(Box!boxVars)
  OBVIOUS
<1> USE DEF IInv, TypeOK, Att, Event, Note, Goto, Return, Current
<1>1. ASSUME NEW w \in Worker, NEW id \in MsgId, NEW u \in User, NEW n \in 0..MaxAtt,
             SaveMessage(w, id, u, n)
      PROVE  Box!Appear(id)
  <2>1. Status(id) = "none" /\ Status(id)' = "live"
    BY <1>1, StoreAssumption DEF Status, SaveMessage, Unsaved
  <2>2. \A j \in MsgId : j # id => Status(j)' = Status(j)
    BY <1>1 DEF Status, SaveMessage
  <2>3. \A j \in MsgId : Readable(j)' = Readable(j)
    BY <1>1 DEF Readable, SaveMessage, Unsaved
  <2>4. QED
    BY <2>1, <2>2, <2>3 DEF Box!Appear
<1>2. ASSUME NEW w \in Worker, NEW id \in MsgId, ListAttachments(w, id)
      PROVE  Box!AskDelete(id) \/ UNCHANGED Box!boxVars
  <2>1. \A j \in MsgId : Readable(j)' = Readable(j)
    BY <1>2 DEF Readable, ListAttachments
  <2>2. \A j \in MsgId : j # id => Status(j)' = Status(j)
    BY <1>2 DEF Status, ListAttachments
  <2>3. \/ Status(id) = "live" /\ Status(id)' = "closing"
        \/ Status(id)' = Status(id)
    BY <1>2 DEF Status, ListAttachments
  <2>4. QED
    BY <2>1, <2>2, <2>3 DEF Box!AskDelete, Box!boxVars
<1>3. ASSUME NEW w \in Worker, WriteBlob(w) \/ WriteBlobFails(w)
      PROVE  UNCHANGED Box!boxVars
  <2>1. \A j \in MsgId : Status(j)' = Status(j)
    BY <1>3 DEF Status, WriteBlob, WriteBlobFails, JobsOK
  <2>2. \A j \in MsgId : Readable(j)' = Readable(j)
    BY <1>3 DEF Readable, WriteBlob, WriteBlobFails, Writing
  <2>3. QED
    BY <2>1, <2>2 DEF Box!boxVars
<1>4. ASSUME NEW w \in Worker, SaveAttachment(w)
      PROVE  Box!BoxNext \/ UNCHANGED Box!boxVars
  <2>1. PICK id \in MsgId, i \in 1..MaxAtt :
          /\ id = cur[w] /\ i = k[w] /\ "saved" \in history[id]
          /\ attachment' = attachment \cup {<<id, i>>}
          /\ UNCHANGED <<content, bucket, history>>
    BY <1>4, StoreAssumption DEF SaveAttachment, JobsOK
  <2>2. \A j \in MsgId : Status(j)' = Status(j)
    BY <2>1 DEF Status
  <2>3. \A j \in MsgId : j # id => Readable(j)' = Readable(j)
    BY <2>1 DEF Readable
  <2>4. CASE content[id] = NoRow
    BY <2>1, <2>2, <2>3, <2>4 DEF Readable, Box!boxVars
  <2>5. CASE content[id] # NoRow
    <3>1. Status(id) \in {"live", "closing"}
      BY <2>1, <2>5 DEF Status
    <3>2. Readable(id)' \in {Readable(id), Readable(id) \cup {i}}
      BY <2>1, <2>5 DEF Readable
    <3>3. Box!Attach(id) \/ UNCHANGED Box!boxVars
      BY <2>2, <2>3, <3>1, <3>2 DEF Box!Attach, Box!boxVars
    <3>4. QED
      BY <3>3 DEF Box!BoxNext
  <2>6. QED
    BY <2>4, <2>5
<1>5. ASSUME NEW w \in Worker,
             \/ SaveAttachmentFails(w) \/ DeleteBlobFails(w) \/ DeleteMessageFails(w)
      PROVE  UNCHANGED Box!boxVars
  BY <1>5, Invisible DEF SaveAttachmentFails, DeleteBlobFails, DeleteMessageFails, NextRow
<1>6. ASSUME NEW w \in Worker, DeleteBlob(w) \/ DeleteAttachmentsByMessage(w)
      PROVE  Box!BoxNext \/ UNCHANGED Box!boxVars
  <2>1. PICK id \in MsgId : id = cur[w] /\ {"saved", "delete"} \subseteq history[id]
    BY <1>6 DEF DeleteBlob, DeleteAttachmentsByMessage, JobsOK
  <2>2. \A j \in MsgId : Status(j)' = Status(j)
    BY <1>6 DEF Status, DeleteBlob, DeleteAttachmentsByMessage
  <2>3. \A j \in MsgId : j # id => Readable(j)' = Readable(j)
    <3>1. CASE DeleteBlob(w)
      <4>1. PICK a \in Att : a[1] = id /\ bucket' = bucket \ {a}
        BY <2>1, <3>1 DEF DeleteBlob, Targets
      <4>2. \A j \in MsgId, i \in 1..MaxAtt : j # id => <<j, i>> # a
        BY <4>1
      <4>3. UNCHANGED <<content, attachment>>
        BY <3>1 DEF DeleteBlob
      <4>4. QED
        BY <4>1, <4>2, <4>3 DEF Readable
    <3>2. CASE DeleteAttachmentsByMessage(w)
      BY <2>1, <3>2 DEF Readable, DeleteAttachmentsByMessage, RowsOf
    <3>3. QED
      BY <1>6, <3>1, <3>2
  <2>4. Readable(id)' \subseteq Readable(id)
    BY <1>6 DEF Readable, DeleteBlob, DeleteAttachmentsByMessage
  <2>5. Status(id) = "closing" \/ Readable(id)' = Readable(id)
    BY <1>6, <2>1 DEF Status, Readable, DeleteBlob, DeleteAttachmentsByMessage
  <2>6. Box!Lose(id) \/ UNCHANGED Box!boxVars
    <3>1. CASE Status(id) = "closing"
      <4> DEFINE f == [j \in MsgId |-> Readable(j)]
                 g == [j \in MsgId |-> Readable(j)']
      <4>1. g = [f EXCEPT ![id] = Readable(id)'] /\ Readable(id)' \in SUBSET f[id]
        BY <2>3, <2>4
      <4>2. \E S \in SUBSET f[id] : g = [f EXCEPT ![id] = S]
        BY <4>1
      <4>3. QED
        BY <2>2, <3>1, <4>2 DEF Box!Lose
    <3>2. CASE Readable(id)' = Readable(id)
      BY <2>2, <2>3, <3>2 DEF Box!boxVars
    <3>3. QED
      BY <2>5, <3>1, <3>2
  <2>7. QED
    BY <2>6 DEF Box!BoxNext
<1>7. ASSUME NEW w \in Worker, DeleteMessage(w)
      PROVE  Box!BoxNext \/ UNCHANGED Box!boxVars
  <2>1. PICK id \in MsgId : id = cur[w] /\ {"saved", "delete"} \subseteq history[id]
    BY <1>7 DEF DeleteMessage, JobsOK
  <2>2. \A j \in MsgId : j # id => Status(j)' = Status(j) /\ Readable(j)' = Readable(j)
    BY <1>7, <2>1 DEF Status, Readable, DeleteMessage
  <2>3. Status(id)' = "gone" /\ Readable(id)' = {}
    BY <1>7, <2>1 DEF Status, Readable, DeleteMessage
  <2>4. Status(id) = "closing" \/ (Status(id) = "gone" /\ Readable(id) = {})
    BY <2>1 DEF Status, Readable
  <2>5. CASE Status(id) = "closing"
    <3>1. Box!Vanish({id})
      BY <2>2, <2>3, <2>5 DEF Box!Vanish
    <3>2. QED
      BY <3>1 DEF Box!BoxNext
  <2>6. CASE Status(id) = "gone" /\ Readable(id) = {}
    BY <2>2, <2>3, <2>6 DEF Box!boxVars
  <2>7. QED
    BY <2>4, <2>5, <2>6
<1>8. ASSUME NEW u \in User, DeleteUserMessages(u)
      PROVE  Box!BoxNext
  <2> DEFINE mine == {id \in MsgId : content[id] = u}
  <2>1. \A id \in mine : /\ Status(id) \in {"live", "closing"}
                         /\ Status(id)' = "gone" /\ Readable(id)' = {}
    BY <1>8, StoreAssumption DEF Status, Readable, DeleteUserMessages, Unsaved
  <2>2. \A id \in MsgId \ mine : Status(id)' = Status(id) /\ Readable(id)' = Readable(id)
    BY <1>8 DEF Status, Readable, DeleteUserMessages
  <2>3. Box!Vanish(mine)
    BY <2>1, <2>2 DEF Box!Vanish
  <2>4. QED
    BY <2>3 DEF Box!BoxNext
<1>9. CASE Crash
  BY <1>9, Invisible DEF Crash
<1>10. CASE UNCHANGED vars
  BY <1>10, Invisible DEF vars
<1>11. QED
  BY <1>1, <1>2, <1>3, <1>4, <1>5, <1>6, <1>7, <1>8, <1>9, <1>10
  DEF Next, Save, Delete, Box!BoxNext

\* The store implements Mailbox: what a reader sees of saveAndDeliver and
\* DeleteMessageFull is a message that appears once, gathers attachments, loses
\* them only after its deletion was asked for, and never comes back.
THEOREM Implements == Spec => ImplementsMailbox
<1>1. Init => Box!BoxInit
  BY DEF Init, Box!BoxInit, Status, Readable
<1>2. QED
  BY <1>1, MailStoreInv, StepSimulation, PTL DEF Spec, ImplementsMailbox, Box!BoxSpec

=============================================================================
