----------------------------- MODULE MCMailStore -----------------------------
(* One mailbox, two messages of up to two attachments, two goroutines. *)
EXTENDS MailStore

CONSTANTS m1, m2, u1, w1, w2

MCMsgId == {m1, m2}
MCUser == {u1}
MCWorker == {w1, w2}
=============================================================================
