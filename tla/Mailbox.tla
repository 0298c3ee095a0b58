------------------------------- MODULE Mailbox -------------------------------
(***************************************************************************)
(* What the mail store promises to a reader of a mailbox, whatever the     *)
(* order in which rows and attachment objects are written underneath: a    *)
(* message appears once, its readable attachments only accumulate until    *)
(* somebody asks for its deletion, and once gone it is gone for good.      *)
(***************************************************************************)
EXTENDS Naturals

CONSTANTS MsgId,    \* message identifiers (uuid.New in newMessage)
          MaxAtt    \* most attachments one message carries

VARIABLES mail,     \* "none", "live", "closing" (deletion asked for) or "gone"
          files     \* the attachments a reader of the message gets

boxVars == <<mail, files>>

BoxTypeOK == /\ mail \in [MsgId -> {"none", "live", "closing", "gone"}]
             /\ files \in [MsgId -> SUBSET (1..MaxAtt)]

BoxInit == /\ mail = [id \in MsgId |-> "none"]
           /\ files = [id \in MsgId |-> {}]

Appear(id) == /\ mail[id] = "none"
              /\ mail' = [mail EXCEPT ![id] = "live"]
              /\ UNCHANGED files

Attach(id) == /\ mail[id] \in {"live", "closing"}
              /\ \E k \in 1..MaxAtt : files' = [files EXCEPT ![id] = @ \cup {k}]
              /\ UNCHANGED mail

AskDelete(id) == /\ mail[id] = "live"
                 /\ mail' = [mail EXCEPT ![id] = "closing"]
                 /\ UNCHANGED files

Lose(id) == /\ mail[id] = "closing"
            /\ \E S \in SUBSET files[id] : files' = [files EXCEPT ![id] = S]
            /\ UNCHANGED mail

\* Several messages at once: deleting a user takes a whole mailbox.
Vanish(ids) == /\ \A id \in ids : mail[id] \in {"live", "closing"}
               /\ mail' = [id \in MsgId |-> IF id \in ids THEN "gone" ELSE mail[id]]
               /\ files' = [id \in MsgId |-> IF id \in ids THEN {} ELSE files[id]]

BoxNext == \/ \E id \in MsgId : Appear(id) \/ Attach(id) \/ AskDelete(id) \/ Lose(id)
           \/ \E ids \in SUBSET MsgId : Vanish(ids)

BoxSpec == BoxInit /\ [][BoxNext]_boxVars

=============================================================================
