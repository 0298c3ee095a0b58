----------------------------- MODULE AutoReply ------------------------------
(***************************************************************************)
(* Automatic replies (Store.ProcessAutoReply in internal/store/store.go).  *)
(* handleInbound starts a goroutine for every copy it delivers; it reads   *)
(* the rule, looks for a recent reply, mails one and records it, each step *)
(* with other goroutines and edits of the rule in between.  A reply to     *)
(* somebody on this server comes back through the SMTP server and is       *)
(* handled like any mail.  SendSimple does what Courier says.              *)
(***************************************************************************)
EXTENDS Database, FiniteSets

CONSTANTS Person, Local,   \* addresses, and those with an account here
          Robot,           \* addresses with a word of the skip list in them
          Rule(_),         \* [enabled, start, end] as a user's settings page saves it
          Cooldown, MaxTime,
          Job,             \* goroutines
          Letter,          \* who writes to whom, and at most how many letters
          MaxLetters,
          MaxFaults        \* calls that fail

ASSUME AutoReplyAssumption ==
  /\ Local \subseteq Person /\ Letter \subseteq Person \X Local
  /\ Cooldown \in Nat /\ MaxTime \in Nat /\ MaxLetters \in Nat /\ MaxFaults \in Nat
  /\ \A e \in Local : \A r \in Rule(e) : r.start \in Nat /\ r.end \in Nat

VARIABLES time,
          replies,     \* the tables auto_reply and auto_reply_log
          post,        \* mail on its way in: how many of each <<from, to>>
          job,         \* per goroutine: its step, its recipient, the sender
          letters,     \* how many letters have been written
          faults,      \* how many calls have failed
          answered,    \* (history) per <<recipient, sender>>: last reply that went out
          unrecorded,  \* (history) pairs whose last reply has no record (yet)
          raced        \* (history) goroutines that could not know of a reply

replyVars == <<time, replies, post, job, letters, faults, answered, unrecorded, raced>>

Pair == Person \X Person
Never == MaxTime + Cooldown + 1
Free == [step |-> "free", me |-> NotFound, from |-> NotFound]

ReplyInit ==
  /\ time = 0
  /\ replies = [replies |-> <<>>, log |-> <<>>]
  /\ post = [p \in Pair |-> 0]
  /\ job = [j \in Job |-> Free]
  /\ letters = 0 /\ faults = 0
  /\ answered = [p \in Pair |-> Never]
  /\ unrecorded = {}
  /\ raced = {}

\* The settings page of a user.
HandleAutoReply ==
  /\ \E e \in Local :
       \/ \E r \in Rule(e) : replies' = S!SetAutoReply(replies, e, r).db
       \/ replies' = S!DeleteAutoReply(replies, e).db
  /\ UNCHANGED <<time, post, job, letters, faults, answered, unrecorded, raced>>

Write ==
  /\ letters < MaxLetters /\ letters' = letters + 1
  /\ \E p \in Letter : post' = [post EXCEPT ![p] = @ + 1]
  /\ UNCHANGED <<time, replies, job, faults, answered, unrecorded, raced>>

Goto(j, step) == job' = [job EXCEPT ![j].step = step]
PairOf(j) == <<job[j].me, job[j].from>>

\* handleInbound has saved the copy and starts the goroutine.
handleInbound(j) ==
  /\ job[j] = Free
  /\ \E from \in Person, me \in Local :
       /\ post[<<from, me>>] > 0
       /\ post' = [post EXCEPT ![<<from, me>>] = @ - 1]
       /\ job' = [job EXCEPT ![j] = [step |-> "rule", me |-> me, from |-> from]]
  /\ UNCHANGED <<time, replies, letters, faults, answered, unrecorded, raced>>

Ends(j) == job' = [job EXCEPT ![j] = Free] /\ raced' = raced \ {j}

\* The rule applies from start to end; 0 is no limit.
Applies(r) == /\ r.enabled
              /\ r.start = 0 \/ time >= r.start
              /\ r.end = 0 \/ time <= r.end
ReadRuleFaulty(j) ==   \* Fault: the skip list is not consulted
  /\ job[j].step = "rule"
  /\ LET row == S!GetAutoReply(replies, job[j].me)
     IN IF row # NotFound /\ Applies(row.reply)
        THEN Goto(j, "check") /\ UNCHANGED raced ELSE Ends(j)
  /\ UNCHANGED <<time, replies, post, letters, faults, answered, unrecorded>>
ReadRule(j) ==
  /\ job[j].step = "rule"
  /\ LET row == S!GetAutoReply(replies, job[j].me)
     IN IF row # NotFound /\ Applies(row.reply) /\ job[j].from \notin Robot
        THEN Goto(j, "check") /\ UNCHANGED raced ELSE Ends(j)
  /\ UNCHANGED <<time, replies, post, letters, faults, answered, unrecorded>>

CheckRecentFaulty(j) ==   \* Fault: asks about the other direction
  /\ job[j].step = "check"
  /\ IF S!HasAutoRepliedRecently(replies, job[j].from, job[j].me, time, Cooldown)
     THEN Ends(j)
     ELSE /\ Goto(j, "send")
          /\ raced' = IF PairOf(j) \in unrecorded THEN raced \cup {j} ELSE raced
  /\ UNCHANGED <<time, replies, post, letters, faults, answered, unrecorded>>
CheckRecent(j) ==
  /\ job[j].step = "check"
  /\ IF S!HasAutoRepliedRecently(replies, job[j].me, job[j].from, time, Cooldown)
     THEN Ends(j)
     ELSE /\ Goto(j, "send")
          /\ raced' = IF PairOf(j) \in unrecorded THEN raced \cup {j} ELSE raced
  /\ UNCHANGED <<time, replies, post, letters, faults, answered, unrecorded>>

\* n copies of the reply reach the sender, who may have an account here.
Reaches(j, n) ==
  LET p == PairOf(j)
  IN /\ post' = IF p[2] \in Local THEN [post EXCEPT ![p] = @ + n] ELSE post
     /\ IF n = 0 THEN UNCHANGED <<answered, unrecorded>> /\ raced' = raced \ {j}
        ELSE /\ answered' = [answered EXCEPT ![p] = time]
             /\ unrecorded' = unrecorded \cup {p}
             /\ raced' = (raced \ {j}) \cup
                          {k \in Job \ {j} : job[k].step = "send" /\ PairOf(k) = p}
     /\ UNCHANGED <<time, replies, letters>>
SendSimple(j) == /\ job[j].step = "send"
                 /\ Reaches(j, 1)
                 /\ Goto(j, "record")
                 /\ UNCHANGED faults
\* An answer was lost: the relay has sent it twice, or reports an error
\* about a reply that arrived.  No record is made after an error.
SendTwice(j) == /\ job[j].step = "send" /\ faults < MaxFaults /\ faults' = faults + 1
                /\ Reaches(j, 2)
                /\ Goto(j, "record")
SendFails(j) == /\ job[j].step = "send" /\ faults < MaxFaults /\ faults' = faults + 1
                /\ \E n \in {0, 1} : Reaches(j, n)
                /\ job' = [job EXCEPT ![j] = Free]

RecordSentFaulty(j) ==   \* Fault: a record that is there is not replaced
  /\ job[j].step = "record"
  /\ replies' = S!INSERT(replies, "log", PairOf(j), [sent |-> time]).db
  /\ unrecorded' = unrecorded \ {PairOf(j)}
  /\ Ends(j)
  /\ UNCHANGED <<time, post, letters, faults, answered>>
RecordSent(j) ==
  /\ job[j].step = "record"
  /\ replies' = S!RecordAutoReplySent(replies, job[j].me, job[j].from, time).db
  /\ unrecorded' = unrecorded \ {PairOf(j)}
  /\ Ends(j)
  /\ UNCHANGED <<time, post, letters, faults, answered>>
\* The error is dropped.
RecordFails(j) ==
  /\ job[j].step = "record" /\ faults < MaxFaults /\ faults' = faults + 1
  /\ Ends(j)
  /\ UNCHANGED <<time, replies, post, letters, answered, unrecorded>>

Later == /\ time < MaxTime /\ time' = time + 1
         /\ UNCHANGED <<replies, post, job, letters, faults, answered, unrecorded, raced>>

ProcessAutoReply(j) == \/ handleInbound(j) \/ ReadRule(j) \/ CheckRecent(j)
                       \/ SendSimple(j) \/ RecordSent(j)
Mishap(j) == SendTwice(j) \/ SendFails(j) \/ RecordFails(j)

ReplyNext == \/ HandleAutoReply \/ Write \/ Later
             \/ \E j \in Job : ProcessAutoReply(j) \/ Mishap(j)
ReplySpec == ReplyInit /\ [][ReplyNext]_replyVars

-----------------------------------------------------------------------------
(* Properties                                                              *)

ReplyTypeOK ==
  /\ DOMAIN replies.replies \subseteq Local
  /\ DOMAIN replies.log \subseteq Local \X (Person \ Robot)
  /\ \A p \in Pair : post[p] > 0 => p[2] \in Local
  /\ raced \subseteq {j \in Job : job[j].step = "send"}
  /\ time \in 0..MaxTime

\* "Won't reply to the same sender more than once in 24 hours": a goroutine
\* that goes on to send within the cooldown of a reply to the same sender
\* passed its check before that reply was sent or recorded, or the record of
\* it is missing because a call failed.
Recent(p) == answered[p] <= time /\ time < answered[p] + Cooldown
SecondReplyNeedsRace ==
  \A j \in Job : job[j].step = "send" /\ Recent(PairOf(j)) => j \in raced

\* Two users with automatic replies do not answer each other for ever: once
\* people stop writing, the exchange ends.
Silent == (\A p \in Pair : post[p] = 0) /\ \A j \in Job : job[j] = Free
ExchangeEnds == <>[]Silent
=============================================================================
