------------------------- MODULE SmtpDeliveryProofs --------------------------
(***************************************************************************)
(* Delivery for any number of sessions, messages, addresses and recipients *)
(* and whatever the tables hold: what was answered with 250 is kept, one   *)
(* copy for a mailbox, for the recipients the client named; only accounts  *)
(* relay; quarantine holds.  Nothing is used of ResolveRecipient but that  *)
(* it depends on the tables and the failed lookups alone.                  *)
(***************************************************************************)
EXTENDS SmtpDelivery, TLAPS

\* The types of all variables but the mailboxes, whose copies have their
\* fields (copies belong to whatever ResolveRecipient returns).
ShapeOK ==
  /\ user \subseteq Addr
  /\ member \in [List -> SUBSET Addr]
  /\ DOMAIN alias = Addr \cup Domain /\ alias = [key \in DOMAIN alias |-> alias[key]]
  /\ header \in [Msg -> Header]
  /\ phase \in [Session -> {"ready", "mail", "save", "ok", "failed", "refused"}]
  /\ login \in [Session -> Addr \cup {Nobody}]
  /\ from \in [Session -> Sender \cup {Nobody}]
  /\ env \in [Session -> SUBSET Addr]
  /\ job \in [Session -> Try \cup {NoTry}]
  /\ work = [s \in Session |-> work[s]]
  /\ relay \in [Try \X Addr -> {"none", "queued", "sent", "lost"}]
  /\ tries \in [Msg -> 0..MaxTries]
  /\ said \in [Session -> SUBSET Addr]
  /\ named \in [Try -> SUBSET Addr]
  /\ author \in [Try -> (Addr \cup {Nobody}) \X (Sender \cup {Nobody})]
  /\ sort \in [Try -> {"none", "refused", "outbound", "inbound", "raw"}]
  /\ junk \in [Try -> BOOLEAN]
  /\ missed = [t \in Try |-> missed[t]]
  /\ blind \in [Try -> BOOLEAN]
  /\ answer \in [Try -> {"none", "ok", "failed", "refused"}]

Busy(s) == phase[s] \in {"save", "ok", "failed", "refused"}

\* The envelope is what the client said since MAIL, and what it named in the
\* DATA command that is being handled; a session that is not saving has nothing
\* left to save.
Envelopes ==
  \A s \in Session :
    /\ phase[s] = "ready" => env[s] = {}
    /\ phase[s] # "ready" => env[s] = said[s]
    /\ Busy(s) => /\ job[s] \in Try
                  /\ job[s][2] <= tries[job[s][1]]
                  /\ said[s] = named[job[s]]
    /\ phase[s] # "save" => work[s] = {}
    /\ login[s] # Nobody => login[s] \in user

\* A DATA command is handled once.
OwnTry == \A s, z \in Session : Busy(s) /\ Busy(z) /\ job[s] = job[z] => s = z

\* A DATA command that was not given has left nothing.
Fresh == \A t \in Try : t[2] > tries[t[1]] =>
           /\ \A e \in box : e[1] # t
           /\ \A a \in Addr : relay[<<t, a>>] = "none"
           /\ answer[t] = "none"

OutboundByUser == \A t \in Try : sort[t] = "outbound" => author[t][1] \in user

Meant(t) == named[t] \cup header[t[1]].to \cup header[t[1]].cc

SentOf(t) == [step |-> "sent", via |-> <<"from", author[t][1]>>,
              owner |-> author[t][1], folder |-> "Sent"]

\* What holds of a copy of t before it is saved and after.
CopyOK(t, c) ==
  /\ c = [step |-> c.step, via |-> c.via, owner |-> c.owner, folder |-> c.folder]
  /\ c.step # "sent" => c.via[2] \in Meant(t)
  /\ c.step = "sent" => c = SentOf(t) /\ sort[t] = "outbound"
  /\ junk[t] /\ c.folder = "INBOX" => c.step = "list"

PendingOK == \A s \in Session, t \in Try : job[s] = t => \A c \in work[s] : CopyOK(t, c)
StoredOK == \A e \in box : e = <<e[1], e[2]>> /\ e[1] \in Try /\ CopyOK(e[1], e[2])

\* What is relayed comes from a DATA command whose Sent copy is saved.
RelayedOK == \A t \in Try, a \in Addr : relay[<<t, a>>] # "none" =>
               /\ sort[t] = "outbound" /\ <<t, SentOf(t)>> \in box
               /\ a \in Meant(t) /\ DomainOf[a] \notin Served

\* One copy is saved or pending for an owner.
OnceOK ==
  \A s \in Session : \A c \in work[s] : \A e \in box :
    (e[1] = job[s] /\ e[2].step = "copy" /\ c.step = "copy") => e[2].owner # c.owner

Saving(s, t) == phase[s] \in {"save", "ok"} /\ job[s] = t
ToCome(s, a) == \E c \in work[s] : c.step = "copy" /\ c.owner = a

\* The Sent copy is saved or pending, and nothing is answered before all is
\* relayed.
SentOK ==
  \A s \in Session, t \in Try : Saving(s, t) /\ sort[t] = "outbound" =>
    /\ SentOf(t) \in work[s] \/ <<t, SentOf(t)>> \in box
    /\ phase[s] = "ok" =>
         \A mn \in MentionsOf(t) : DomainOf[mn[2]] \notin Served => relay[<<t, mn[2]>>] # "none"

\* Every account an outbound message is for has its copy or a pending one.
OutboundOK ==
  \A s \in Session, t \in Try : Saving(s, t) /\ sort[t] = "outbound" /\ ~blind[t] =>
    \A mn \in MentionsOf(t) : \A a \in ResolveRecipient(mn[2]) : Has(t, a) \/ ToCome(s, a)

\* The same for inbound messages, whose copies may also be refused.
InboundOK ==
  \A s \in Session, t \in Try : Saving(s, t) /\ sort[t] = "inbound" /\ ~blind[t] =>
    \A mn \in MentionsOf(t) :
      IF mn[2] \in list
      THEN \A a \in (member[mn[2]] \cap user) \ {author[t][2]} :
             \/ a \in missed[t] \/ \E c \in CopiesOf(t) : c.owner = a /\ c.via = mn
             \/ \E c \in work[s] : c.step = "list" /\ c.owner = a /\ c.via = mn
      ELSE \A a \in ResolveRecipient(mn[2]) : a \in missed[t] \/ Has(t, a) \/ ToCome(s, a)

IInv == /\ ShapeOK /\ Envelopes /\ OwnTry /\ Fresh /\ OutboundByUser
        /\ PendingOK /\ StoredOK /\ RelayedOK /\ OnceOK
        /\ SentOK /\ OutboundOK /\ InboundOK
        /\ AcceptedOutboundKept /\ AcceptedInboundKept /\ OneCopyEach

-----------------------------------------------------------------------------

\* What Resolved makes of the mentions, and that it makes all of it.
LEMMA ResolvedCopies ==
  ASSUME NEW mentions, NEW failed, NEW folder, NEW c \in Resolved(mentions, failed, folder)
  PROVE  \E mn \in mentions : \E a \in ResolveDespite(failed, mn[2]) :
           c = [step |-> "copy", via |-> mn, owner |-> a, folder |-> folder]
BY DEF Resolved

\* The same of Distributed.
LEMMA DistributedCopies ==
  ASSUME NEW mentions, NEW a, NEW c \in Distributed(mentions, a)
  PROVE  \E mn \in mentions : \E b \in (member[mn[2]] \ {a}) \cap user :
           c = [step |-> "list", via |-> mn, owner |-> b, folder |-> "INBOX"]
BY DEF Distributed

LEMMA ResolvedAll ==
  ASSUME NEW mentions, NEW failed, NEW folder,
         NEW mn \in mentions, NEW a \in ResolveDespite(failed, mn[2])
  PROVE  [step |-> "copy", via |-> mn, owner |-> a, folder |-> folder]
           \in Resolved(mentions, failed, folder)
<1> DEFINE copies(x) == {[step |-> "copy", via |-> x, owner |-> b, folder |-> folder] :
                           b \in ResolveDespite(failed, x[2])}
<1>1. [step |-> "copy", via |-> mn, owner |-> a, folder |-> folder] \in copies(mn)
  OBVIOUS
<1>2. copies(mn) \in {copies(x) : x \in mentions}
  OBVIOUS
<1> QED
  BY <1>1, <1>2 DEF Resolved

LEMMA DistributedAll ==
  ASSUME NEW mentions, NEW a, NEW mn \in mentions, NEW b \in (member[mn[2]] \ {a}) \cap user
  PROVE  [step |-> "list", via |-> mn, owner |-> b, folder |-> "INBOX"]
           \in Distributed(mentions, a)
<1> DEFINE copies(x) == {[step |-> "list", via |-> x, owner |-> c, folder |-> "INBOX"] :
                           c \in (member[x[2]] \ {a}) \cap user}
<1>1. [step |-> "list", via |-> mn, owner |-> b, folder |-> "INBOX"] \in copies(mn)
  OBVIOUS
<1>2. copies(mn) \in {copies(x) : x \in mentions}
  OBVIOUS
<1> QED
  BY <1>1, <1>2 DEF Distributed

\* Whom a message mentions.
LEMMA MentionsMeant ==
  ASSUME NEW h, NEW rcpts, NEW mn \in Mentions(h, rcpts)
  PROVE  mn[2] \in rcpts \cup h.to \cup h.cc
BY DEF Mentions

\* Without failures, resolution is what the tables say.
LEMMA ResolveUnfailed ==
  ASSUME ShapeOK, NEW a
  PROVE  ResolveDespite({}, a) = ResolveRecipient(a)
<1>1. [key \in DOMAIN alias |-> IF key \in {} THEN {} ELSE alias[key]] = alias
  BY DEF ShapeOK
<1>2. user \ {} = user
  OBVIOUS
<1> QED
  BY <1>1, <1>2 DEF ResolveDespite, ResolveRecipient

\* The DATA command a message is given with next.
LEMMA NextTry ==
  ASSUME ShapeOK, NEW m \in Msg, tries[m] < MaxTries
  PROVE  /\ <<m, tries[m] + 1>> \in Try
         /\ tries[m] + 1 \in 0..MaxTries /\ tries[m] \in Nat
BY SmtpAssumption DEF ShapeOK, Try

\* A new DATA command keeps the types.
LEMMA HandleShape ==
  ASSUME ShapeOK, NEW s \in Session, NEW m \in Msg,
         NEW how \in {"refused", "outbound", "inbound", "raw"}, NEW quarantine \in BOOLEAN,
         NEW copies, NEW next \in {"save", "refused"},
         Handle(s, m, how, quarantine, copies, next), blind' \in [Try -> BOOLEAN]
  PROVE  ShapeOK'
<1> DEFINE t == <<m, tries[m] + 1>>
<1>0. t \in Try /\ tries[m] + 1 \in 0..MaxTries /\ tries[m] \in Nat
  BY NextTry DEF Handle
<1>1. UNCHANGED <<user, alias, member, header, login, from, env, said, relay, missed, answer>>
  BY DEF Handle, dirVars
<1>2. tries' \in [Msg -> 0..MaxTries] /\ job' \in [Session -> Try \cup {NoTry}]
  BY <1>0 DEF Handle, ShapeOK
<1>3. /\ phase' \in [Session -> {"ready", "mail", "save", "ok", "failed", "refused"}]
      /\ work' = [z \in Session |-> work'[z]]
  BY DEF Handle, ShapeOK
<1>4. /\ named' \in [Try -> SUBSET Addr]
      /\ sort' \in [Try -> {"none", "refused", "outbound", "inbound", "raw"}]
      /\ junk' \in [Try -> BOOLEAN]
  BY <1>0 DEF Handle, ShapeOK
<1>5. author' \in [Try -> (Addr \cup {Nobody}) \X (Sender \cup {Nobody})]
  BY <1>0 DEF Handle, ShapeOK
<1> QED
  BY <1>1, <1>2, <1>3, <1>4, <1>5 DEF ShapeOK

LEMMA BlindShape ==
  ASSUME ShapeOK, NEW m \in Msg, NEW failed, Blind(m, failed)
  PROVE  blind' \in [Try -> BOOLEAN]
BY DEF Blind, ShapeOK

LEMMA ForgetShape ==
  ASSUME ShapeOK, NEW S \in SUBSET Session, Forget(S),
         relay' \in [Try \X Addr -> {"none", "queued", "sent", "lost"}]
  PROVE  ShapeOK'
BY DEF ShapeOK, Forget, dirVars, logVars

\* Every step keeps the types.
LEMMA ShapeStep == ShapeOK /\ [Next]_vars => ShapeOK'
<1> SUFFICES ASSUME ShapeOK, [Next]_vars PROVE ShapeOK'
  OBVIOUS
<1> USE DEF dirVars, logVars, sessionVars
<1>1. ASSUME NEW s \in Session, NEW u \in user, AuthPlain(s, u) PROVE ShapeOK'
  BY <1>1 DEF ShapeOK, AuthPlain
<1>2. ASSUME NEW s \in Session, NEW a \in Sender, Mail(s, a) PROVE ShapeOK'
  BY <1>2 DEF ShapeOK, Mail
<1>3. ASSUME NEW s \in Session, NEW a \in Recipient, Rcpt(s, a) PROVE ShapeOK'
  BY <1>3, SmtpAssumption DEF ShapeOK, Rcpt
<1>4. ASSUME NEW s \in Session, Rset(s) PROVE ShapeOK'
  BY <1>4 DEF ShapeOK, Rset, Reset
<1>5. ASSUME NEW s \in Session, NEW m \in Msg, Data(s, m) PROVE ShapeOK'
  <2>1. CASE DataRefused(s, m)
    BY <2>1, HandleShape DEF DataRefused, ShapeOK
  <2>2. CASE DataRaw(s, m)
    BY <2>2, HandleShape, BlindShape DEF DataRaw
  <2>3. CASE DataOutbound(s, m)
    BY <2>3, HandleShape, BlindShape DEF DataOutbound
  <2>4. CASE DataInbound(s, m)
    <3> PICK failed \in Failure, quarantine \in BOOLEAN :
          \E copies : Handle(s, m, "inbound", quarantine, copies, "save") /\ Blind(m, failed)
      BY <2>4 DEF DataInbound
    <3> PICK copies : Handle(s, m, "inbound", quarantine, copies, "save") /\ Blind(m, failed)
      OBVIOUS
    <3> QED
      BY HandleShape, BlindShape
  <2> QED
    BY <1>5, <2>1, <2>2, <2>3, <2>4 DEF Data
<1>6. ASSUME NEW s \in Session, Save(s) PROVE ShapeOK'
  BY <1>6 DEF ShapeOK, Save
<1>7. ASSUME NEW s \in Session, SkipCopy(s) PROVE ShapeOK'
  <2>1. missed' = [t \in Try |-> missed'[t]]
    BY <1>7 DEF ShapeOK, SkipCopy
  <2>2. work' = [z \in Session |-> work'[z]]
    BY <1>7 DEF ShapeOK, SkipCopy
  <2> QED
    BY <1>7, <2>1, <2>2 DEF ShapeOK, SkipCopy
<1>8. ASSUME NEW s \in Session, SaveFails(s) PROVE ShapeOK'
  BY <1>8 DEF ShapeOK, SaveFails
<1>9. ASSUME NEW s \in Session, Done(s) PROVE ShapeOK'
  BY <1>9 DEF ShapeOK, Done
<1>10. ASSUME NEW s \in Session, Answer(s) PROVE ShapeOK'
  BY <1>10 DEF ShapeOK, Answer, Reset
<1>11. ASSUME NEW r \in Try \X Addr, RelayEnds(r) PROVE ShapeOK'
  BY <1>11 DEF ShapeOK, RelayEnds
<1>12. ASSUME NEW s \in Session, Disconnect(s) PROVE ShapeOK'
  BY <1>12, ForgetShape DEF Disconnect, ShapeOK
<1>13. CASE Crash
  <2>1. relay' \in [Try \X Addr -> {"none", "queued", "sent", "lost"}]
    BY <1>13 DEF Crash, ShapeOK
  <2> QED
    BY <1>13, <2>1, ForgetShape DEF Crash
<1>14. CASE UNCHANGED vars
  BY <1>14 DEF ShapeOK, vars
<1> QED
  BY <1>1, <1>2, <1>3, <1>4, <1>5, <1>6, <1>7, <1>8, <1>9, <1>10, <1>11, <1>12, <1>13, <1>14
  DEF Next

-----------------------------------------------------------------------------
(* A new DATA command                                                      *)

\* What each path of the handler sees to before it saves the first copy.
Plan(s, m, how, quarantine, copies, unseen) ==
  LET mentions == Mentions(header[m], env[s])
      Some(step, a) == \E c \in copies : c.step = step /\ c.owner = a
  IN
  /\ how = "refused" => copies = {}
  /\ how = "outbound" => login[s] # Nobody /\ SentCopy(s) \in copies
  /\ \A c \in copies :
       /\ c = [step |-> c.step, via |-> c.via, owner |-> c.owner, folder |-> c.folder]
       /\ c.step # "sent" => c.via[2] \in env[s] \cup header[m].to \cup header[m].cc
       /\ c.step = "sent" => c = SentCopy(s) /\ how = "outbound"
       /\ quarantine /\ c.folder = "INBOX" => c.step = "list"
  /\ how = "outbound" /\ ~unseen =>
       \A mn \in mentions : \A a \in ResolveRecipient(mn[2]) : Some("copy", a)
  /\ how = "inbound" /\ ~unseen =>
       \A mn \in mentions :
         IF mn[2] \in list
         THEN \A a \in (member[mn[2]] \cap user) \ {from[s]} :
                \E c \in copies : c.step = "list" /\ c.owner = a /\ c.via = mn
         ELSE \A a \in ResolveRecipient(mn[2]) : Some("copy", a)

\* A new DATA command that sees to what Plan says keeps the invariant: it has a
\* number of its own, under which nothing is stored, relayed or answered.
LEMMA HandleInv ==
  ASSUME IInv, ShapeOK', NEW s \in Session, NEW m \in Msg,
         NEW how \in {"refused", "outbound", "inbound", "raw"}, NEW quarantine \in BOOLEAN,
         NEW copies, NEW unseen \in BOOLEAN,
         Handle(s, m, how, quarantine, copies, IF how = "refused" THEN "refused" ELSE "save"),
         how # "refused" => unseen = blind'[<<m, tries[m] + 1>>],
         \A u \in Try : u # <<m, tries[m] + 1>> => blind'[u] = blind[u],
         Plan(s, m, how, quarantine, copies, unseen)
  PROVE  IInv'
<1> DEFINE t == <<m, tries[m] + 1>>
           next == IF how = "refused" THEN "refused" ELSE "save"
<1>0. ShapeOK /\ ShapeOK'
  BY DEF IInv
<1>1. t \in Try /\ t[1] = m /\ t[2] = tries[m] + 1 /\ tries[m] \in Nat /\ tries[m] < MaxTries
  BY NextTry, <1>0 DEF Handle
<1>2. /\ phase[s] = "mail" /\ work[s] = {} /\ env[s] = said[s]
      /\ UNCHANGED <<user, alias, list, member, header, login, from, env, said, box, relay,
                     missed, answer>>
  BY DEF IInv, Envelopes, Handle, dirVars
<1>3. /\ job'[s] = t /\ work'[s] = copies /\ phase'[s] = next
      /\ \A z \in Session : z # s =>
           /\ job'[z] = job[z] /\ work'[z] = work[z] /\ phase'[z] = phase[z]
  BY <1>0 DEF Handle, ShapeOK
<1>4. /\ tries'[m] = tries[m] + 1 /\ \A n \in Msg : n # m => tries'[n] = tries[n]
      /\ \A n \in Msg : tries[n] \in Nat /\ tries'[n] \in Nat
  BY <1>0, SmtpAssumption DEF Handle, ShapeOK
<1>5. /\ named'[t] = said[s] /\ author'[t] = <<login[s], from[s]>>
      /\ sort'[t] = how /\ junk'[t] = quarantine
      /\ \A u \in Try : u # t =>
           /\ named'[u] = named[u] /\ author'[u] = author[u]
           /\ sort'[u] = sort[u] /\ junk'[u] = junk[u] /\ blind'[u] = blind[u]
  BY <1>0, <1>1 DEF Handle, ShapeOK
\* Nothing is left of the new command, nor is it handled already.
<1>6. /\ \A e \in box : e[1] # t
      /\ \A a \in Addr : relay[<<t, a>>] = "none"
      /\ answer[t] = "none"
  BY <1>1 DEF IInv, Fresh
<1>7. \A z \in Session : z # s /\ Busy(z) => job[z] \in Try /\ job[z] # t
  BY <1>1 DEF IInv, Envelopes
<1>8. \A z \in Session : z # s => /\ Busy(z)' = Busy(z)
                             /\ \A u : Saving(z, u)' = Saving(z, u)
  BY <1>3 DEF Busy, Saving
<1>9. \A u \in Try : u # t => /\ SentOf(u)' = SentOf(u) /\ Meant(u)' = Meant(u)
                              /\ MentionsOf(u)' = MentionsOf(u)
  BY <1>2, <1>5 DEF SentOf, Meant, MentionsOf, Mentions
<1>10. \A u \in Try : u = t =>
         /\ SentOf(u)' = SentCopy(s)
         /\ Meant(u)' = env[s] \cup header[m].to \cup header[m].cc
         /\ how # "raw" => MentionsOf(u)' = Mentions(header[m], env[s])
  BY <1>1, <1>2, <1>5 DEF SentOf, SentCopy, Meant, MentionsOf, Mentions
<1>11. \A a : ResolveRecipient(a)' = ResolveRecipient(a)
  BY <1>2 DEF ResolveRecipient, ResolveWith, Targets
<1>12. \A u : CopiesOf(u)' = CopiesOf(u) /\ \A a : Has(u, a)' = Has(u, a)
  BY <1>2 DEF CopiesOf, Has
<1>13. \A z \in Session : z # s => \A a : ToCome(z, a)' = ToCome(z, a)
  BY <1>3 DEF ToCome
<1>14. Envelopes'
  <2>1. ASSUME NEW z \in Session, z # s, Busy(z) PROVE
          /\ job'[z] \in Try /\ job'[z][2] <= tries'[job'[z][1]]
          /\ said'[z] = named'[job'[z]]
    <3>1. /\ job[z] \in Try /\ job[z] # t
          /\ job[z][2] <= tries[job[z][1]] /\ said[z] = named[job[z]]
      BY <2>1, <1>7 DEF IInv, Envelopes
    <3>2. job[z][1] \in Msg /\ job[z][2] \in Nat
      BY <3>1, SmtpAssumption DEF Try
    <3> QED
      BY <2>1, <3>1, <3>2, <1>2, <1>3, <1>4, <1>5
  <2>2. ASSUME NEW z \in Session PROVE
          /\ phase'[z] = "ready" => env'[z] = {}
          /\ phase'[z] # "ready" => env'[z] = said'[z]
          /\ phase'[z] # "save" => work'[z] = {}
          /\ login'[z] # Nobody => login'[z] \in user'
    BY <1>2, <1>3 DEF IInv, Envelopes, Plan
  <2>3. job'[s] \in Try /\ job'[s][2] <= tries'[job'[s][1]] /\ said'[s] = named'[job'[s]]
    BY <1>1, <1>2, <1>3, <1>4, <1>5
  <2> QED
    BY <2>1, <2>2, <2>3, <1>8 DEF Envelopes
<1>15. OwnTry'
  BY <1>3, <1>7, <1>8 DEF IInv, OwnTry
<1>16. Fresh'
  <2> SUFFICES ASSUME NEW u \in Try, u[2] > tries'[u[1]]
               PROVE  u[2] > tries[u[1]]
    BY <1>2 DEF IInv, Fresh
  <2>1. u[1] \in Msg /\ u[2] \in Nat
    BY SmtpAssumption DEF Try
  <2> QED
    BY <2>1, <1>4
<1>17. OutboundByUser'
  <2>1. how = "outbound" => login[s] \in user
    BY DEF IInv, Envelopes, Plan
  <2> QED
    BY <2>1, <1>1, <1>2, <1>5 DEF IInv, OutboundByUser
<1>18. ASSUME NEW u \in Try, u # t, NEW c, CopyOK(u, c) PROVE CopyOK(u, c)'
  BY <1>18, <1>5, <1>9 DEF CopyOK
<1>19. PendingOK'
  <2>1. \A c \in copies, u \in Try : u = t => CopyOK(u, c)'
    BY <1>1, <1>2, <1>5, <1>10 DEF CopyOK, Plan
  <2>2. ASSUME NEW z \in Session, z # s, NEW u \in Try, job[z] = u, NEW c \in work[z]
        PROVE  CopyOK(u, c)'
    BY <2>2, <1>7, <1>18 DEF IInv, Envelopes, PendingOK, Busy
  <2> QED
    BY <2>1, <2>2, <1>3 DEF PendingOK
<1>20. StoredOK'
  <2> SUFFICES ASSUME NEW e \in box
               PROVE  e = <<e[1], e[2]>> /\ e[1] \in Try /\ CopyOK(e[1], e[2])'
    BY <1>2 DEF StoredOK
  <2>1. e = <<e[1], e[2]>> /\ e[1] \in Try /\ CopyOK(e[1], e[2])
    BY DEF IInv, StoredOK
  <2> QED
    BY <2>1, <1>6, <1>18
<1>21. RelayedOK'
  BY <1>2, <1>5, <1>6, <1>9 DEF IInv, RelayedOK
<1>22. OnceOK'
  <2>1. ASSUME NEW z \in Session, z # s, NEW c \in work[z]
        PROVE  job'[z] = job[z] /\ work'[z] = work[z]
    BY <2>1, <1>3
  <2> QED
    BY <2>1, <1>2, <1>3, <1>6 DEF IInv, OnceOK
<1>23. \A z \in Session, u \in Try : Saving(z, u)' /\ z # s =>
          /\ Saving(z, u) /\ u # t /\ work'[z] = work[z] /\ phase'[z] = phase[z]
  BY <1>3, <1>7 DEF Saving, Busy
<1>24. \A u \in Try : Saving(s, u)' => u = t /\ work'[s] = copies /\ phase'[s] # "ok"
  BY <1>3 DEF Saving
<1>25. SentOK'
  <2> SUFFICES ASSUME NEW z \in Session, NEW u \in Try, Saving(z, u)', sort'[u] = "outbound"
               PROVE  /\ SentOf(u)' \in work'[z] \/ <<u, SentOf(u)'>> \in box'
                      /\ phase'[z] = "ok" => \A mn \in MentionsOf(u)' :
                           DomainOf[mn[2]] \notin Served => relay'[<<u, mn[2]>>] # "none"
    BY DEF SentOK
  <2>1. CASE z = s
    BY <2>1, <1>5, <1>10, <1>24 DEF Plan
  <2>2. CASE z # s
    BY <2>2, <1>2, <1>5, <1>9, <1>23 DEF IInv, SentOK
  <2> QED
    BY <2>1, <2>2
<1>26. OutboundOK'
  <2> SUFFICES ASSUME NEW z \in Session, NEW u \in Try, Saving(z, u)',
                      sort'[u] = "outbound", ~blind'[u]
               PROVE  \A mn \in MentionsOf(u)' : \A a \in ResolveRecipient(mn[2])' :
                        Has(u, a)' \/ ToCome(z, a)'
    BY DEF OutboundOK
  <2>1. CASE z = s
    <3>1. \A a : ToCome(s, a)' <=> \E c \in copies : c.step = "copy" /\ c.owner = a
      BY <1>3 DEF ToCome
    <3> QED
      BY <2>1, <3>1, <1>5, <1>10, <1>11, <1>24 DEF Plan
  <2>2. CASE z # s
    BY <2>2, <1>5, <1>9, <1>11, <1>12, <1>13, <1>23 DEF IInv, OutboundOK
  <2> QED
    BY <2>1, <2>2
<1>27. InboundOK'
  <2> SUFFICES ASSUME NEW z \in Session, NEW u \in Try, Saving(z, u)',
                      sort'[u] = "inbound", ~blind'[u], NEW mn \in MentionsOf(u)'
               PROVE  IF mn[2] \in list'
                      THEN \A a \in (member'[mn[2]] \cap user') \ {author'[u][2]} :
                             \/ a \in missed'[u]
                             \/ \E c \in CopiesOf(u)' : c.owner = a /\ c.via = mn
                             \/ \E c \in work'[z] : c.step = "list" /\ c.owner = a /\ c.via = mn
                      ELSE \A a \in ResolveRecipient(mn[2])' :
                             a \in missed'[u] \/ Has(u, a)' \/ ToCome(z, a)'
    BY DEF InboundOK
  <2>1. CASE z = s
    <3>1. \A a : ToCome(s, a)' <=> \E c \in copies : c.step = "copy" /\ c.owner = a
      BY <1>3 DEF ToCome
    <3>2. u = t /\ mn \in Mentions(header[m], env[s]) /\ author'[u][2] = from[s]
      BY <2>1, <1>5, <1>10, <1>24
    <3> QED
      BY <2>1, <3>1, <3>2, <1>2, <1>5, <1>11, <1>24 DEF Plan
  <2>2. CASE z # s
    BY <2>2, <1>2, <1>5, <1>9, <1>11, <1>12, <1>13, <1>23 DEF IInv, InboundOK
  <2> QED
    BY <2>1, <2>2
<1>28. AcceptedOutboundKept'
  <2> SUFFICES ASSUME NEW u \in Try, answer'[u] = "ok", sort'[u] = "outbound"
               PROVE  /\ \E c \in CopiesOf(u)' : c.folder = "Sent" /\ c.owner = author'[u][1]
                      /\ \A mn \in MentionsOf(u)' :
                           /\ ~blind'[u] => \A a \in ResolveRecipient(mn[2])' : Has(u, a)'
                           /\ DomainOf[mn[2]] \notin Served' => relay'[<<u, mn[2]>>] # "none"
    BY DEF AcceptedOutboundKept
  <2>1. u # t
    BY <1>2, <1>6
  <2> QED
    BY <2>1, <1>2, <1>5, <1>9, <1>11, <1>12 DEF IInv, AcceptedOutboundKept
<1>29. AcceptedInboundKept'
  <2> SUFFICES ASSUME NEW u \in Try, answer'[u] = "ok", sort'[u] = "inbound", ~blind'[u],
                      NEW mn \in MentionsOf(u)'
               PROVE  IF mn[2] \in list'
                      THEN \A a \in (member'[mn[2]] \cap user') \ {author'[u][2]} :
                             \/ a \in missed'[u]
                             \/ \E c \in CopiesOf(u)' : c.owner = a /\ c.via = mn
                      ELSE \A a \in ResolveRecipient(mn[2])' : a \in missed'[u] \/ Has(u, a)'
    BY DEF AcceptedInboundKept
  <2>1. u # t
    BY <1>2, <1>6
  <2> QED
    BY <2>1, <1>2, <1>5, <1>9, <1>11, <1>12 DEF IInv, AcceptedInboundKept
<1>30. OneCopyEach'
  BY <1>12 DEF IInv, OneCopyEach
<1> QED
  BY <1>0, <1>14, <1>15, <1>16, <1>17, <1>19, <1>20, <1>21, <1>22, <1>25, <1>26, <1>27, <1>28,
     <1>29, <1>30 DEF IInv

\* What Blind leaves alone, and what it says of the new command.
LEMMA BlindStep ==
  ASSUME ShapeOK, NEW m \in Msg, tries[m] < MaxTries, NEW failed, Blind(m, failed)
  PROVE  /\ blind'[<<m, tries[m] + 1>>] = (failed # {})
         /\ \A u \in Try : u # <<m, tries[m] + 1>> => blind'[u] = blind[u]
BY NextTry DEF Blind, ShapeOK

\* The four paths of the handler see to it.
LEMMA DataInv ==
  ASSUME IInv, ShapeOK', NEW s \in Session, NEW m \in Msg, Data(s, m)
  PROVE  IInv'
<1>0. ShapeOK
  BY DEF IInv
<1>1. CASE DataRefused(s, m)
  <2>1. Plan(s, m, "refused", FALSE, {}, TRUE)
    BY DEF Plan
  <2> QED
    BY <1>1, <2>1, HandleInv DEF DataRefused
<1>2. CASE DataRaw(s, m)
  <2> PICK failed \in Failure :
        /\ Handle(s, m, "raw", FALSE, Resolved({"to"} \X env[s], failed, "INBOX"), "save")
        /\ Blind(m, failed)
    BY <1>2 DEF DataRaw
  <2> DEFINE copies == Resolved({"to"} \X env[s], failed, "INBOX")
  <2>1. Plan(s, m, "raw", FALSE, copies, failed # {})
    BY ResolvedCopies DEF Plan
  <2>2. tries[m] < MaxTries
    BY DEF Handle
  <2> QED
    BY <1>0, <2>1, <2>2, HandleInv, BlindStep
<1>3. CASE DataOutbound(s, m)
  <2> DEFINE mentions == Mentions(header[m], env[s])
             resolved(failed) == Resolved(mentions, failed, "INBOX")
  <2> PICK failed \in Failure :
        /\ Handle(s, m, "outbound", FALSE, {SentCopy(s)} \cup resolved(failed), "save")
        /\ Blind(m, failed)
    BY <1>3 DEF DataOutbound
  <2> DEFINE copies == {SentCopy(s)} \cup resolved(failed)
  <2>1. ASSUME NEW c \in copies PROVE
          /\ c = [step |-> c.step, via |-> c.via, owner |-> c.owner, folder |-> c.folder]
          /\ c.step # "sent" => c.via[2] \in env[s] \cup header[m].to \cup header[m].cc
          /\ c.step = "sent" => c = SentCopy(s)
    BY ResolvedCopies, MentionsMeant DEF SentCopy
  <2>2. ASSUME failed = {}, NEW mn \in mentions, NEW a \in ResolveRecipient(mn[2])
        PROVE  \E c \in copies : c.step = "copy" /\ c.owner = a
    <3>1. a \in ResolveDespite(failed, mn[2])
      BY <1>0, <2>2, ResolveUnfailed
    <3>2. [step |-> "copy", via |-> mn, owner |-> a, folder |-> "INBOX"] \in copies
      BY <3>1, ResolvedAll
    <3> QED
      BY <3>2
  <2>3. Plan(s, m, "outbound", FALSE, copies, failed # {})
    BY <1>3, <2>1, <2>2 DEF Plan, DataOutbound
  <2>4. tries[m] < MaxTries
    BY DEF Handle
  <2> QED
    BY <1>0, <2>3, <2>4, HandleInv, BlindStep
<1>4. CASE DataInbound(s, m)
  <2> DEFINE mentions == Mentions(header[m], env[s])
             toLists(lists) == {mn \in mentions : mn[2] \in lists}
             all(failed, quarantine, lists) ==
               Distributed({mn \in toLists(lists) : mn[2] \notin failed}, from[s])
                 \cup Resolved(mentions \ toLists(lists), failed,
                               IF quarantine THEN "Junk" ELSE "INBOX")
  <2> PICK failed \in Failure, quarantine \in BOOLEAN :
        \E lists \in {list, list \ failed} :
          /\ Handle(s, m, "inbound", quarantine, all(failed, quarantine, lists), "save")
          /\ Blind(m, failed)
    BY <1>4 DEF DataInbound
  <2> PICK lists \in {list, list \ failed} :
        /\ Handle(s, m, "inbound", quarantine, all(failed, quarantine, lists), "save")
        /\ Blind(m, failed)
    OBVIOUS
  <2> DEFINE copies == all(failed, quarantine, lists)
  <2>1. ASSUME NEW c \in copies PROVE
          /\ c = [step |-> c.step, via |-> c.via, owner |-> c.owner, folder |-> c.folder]
          /\ c.via[2] \in env[s] \cup header[m].to \cup header[m].cc
          /\ c.step # "sent"
          /\ quarantine /\ c.folder = "INBOX" => c.step = "list"
    BY ResolvedCopies, DistributedCopies, MentionsMeant
  <2>2. ASSUME failed = {}, NEW mn \in mentions, mn[2] \in list,
               NEW a \in (member[mn[2]] \cap user) \ {from[s]}
        PROVE  \E c \in copies : c.step = "list" /\ c.owner = a /\ c.via = mn
    <3>1. /\ mn \in {x \in mentions : x[2] \in lists}
          /\ mn \in {x \in toLists(lists) : x[2] \notin failed}
      BY <2>2
    <3>2. a \in (member[mn[2]] \ {from[s]}) \cap user
      BY <2>2
    <3>3. [step |-> "list", via |-> mn, owner |-> a, folder |-> "INBOX"] \in copies
      BY <3>1, <3>2, DistributedAll
    <3> QED
      BY <3>3
  <2>3. ASSUME failed = {}, NEW mn \in mentions, mn[2] \notin list,
               NEW a \in ResolveRecipient(mn[2])
        PROVE  \E c \in copies : c.step = "copy" /\ c.owner = a
    <3>1. a \in ResolveDespite(failed, mn[2]) /\ mn \in mentions \ toLists(lists)
      BY <1>0, <2>3, ResolveUnfailed
    <3>2. [step |-> "copy", via |-> mn, owner |-> a,
            folder |-> IF quarantine THEN "Junk" ELSE "INBOX"] \in copies
      BY <3>1, ResolvedAll
    <3> QED
      BY <3>2
  <2>4. Plan(s, m, "inbound", quarantine, copies, failed # {})
    BY <2>1, <2>2, <2>3 DEF Plan
  <2>5. tries[m] < MaxTries
    BY DEF Handle
  <2> QED
    BY <1>0, <2>4, <2>5, HandleInv, BlindStep
<1> QED
  BY <1>1, <1>2, <1>3, <1>4 DEF Data

-----------------------------------------------------------------------------
(* The other steps leave what is written of a DATA command alone           *)

LogsFixed == UNCHANGED <<user, alias, list, member, header, tries, named, author, sort,
                         junk, blind>>

\* What is said of a DATA command stays true while its record does.
LEMMA FixedMeaning ==
  ASSUME LogsFixed
  PROVE  /\ \A t : /\ SentOf(t)' = SentOf(t) /\ Meant(t)' = Meant(t)
                   /\ MentionsOf(t)' = MentionsOf(t)
                   /\ \A c : CopyOK(t, c)' = CopyOK(t, c)
         /\ \A a : ResolveRecipient(a)' = ResolveRecipient(a)
<1>1. \A t : SentOf(t)' = SentOf(t) /\ Meant(t)' = Meant(t)
  BY DEF LogsFixed, SentOf, Meant
<1>2. \A t : MentionsOf(t)' = MentionsOf(t)
  BY DEF LogsFixed, MentionsOf, Mentions
<1>3. \A t, c : CopyOK(t, c)' = CopyOK(t, c)
  BY <1>1 DEF LogsFixed, CopyOK
<1>4. \A a : ResolveRecipient(a)' = ResolveRecipient(a)
  BY DEF LogsFixed, ResolveRecipient, ResolveWith, Targets
<1> QED
  BY <1>1, <1>2, <1>3, <1>4

\* Recipients are addresses.
LEMMA MentionedAddresses ==
  ASSUME ShapeOK, NEW t \in Try
  PROVE  \A mn \in MentionsOf(t) : mn[2] \in Addr
<1>1. t[1] \in Msg /\ header[t[1]] \in Header /\ named[t] \subseteq Addr
  BY DEF ShapeOK, Try
<1>2. header[t[1]].to \subseteq Addr /\ header[t[1]].cc \subseteq Addr
  BY <1>1, SmtpAssumption
<1>3. \A mn \in Mentions(header[t[1]], named[t]) : mn[2] \in Addr
  BY <1>1, <1>2, MentionsMeant
<1> QED
  BY <1>1, <1>3 DEF MentionsOf

\* An answer of 250 may be given once nothing is left to save.
LEMMA OkIsKept ==
  ASSUME IInv, NEW s \in Session, NEW t \in Try, Saving(s, t), phase[s] = "ok"
  PROVE  /\ sort[t] = "outbound" =>
              /\ \E c \in CopiesOf(t) : c.folder = "Sent" /\ c.owner = author[t][1]
              /\ \A mn \in MentionsOf(t) :
                   /\ ~blind[t] => \A a \in ResolveRecipient(mn[2]) : Has(t, a)
                   /\ DomainOf[mn[2]] \notin Served => relay[<<t, mn[2]>>] # "none"
         /\ sort[t] = "inbound" /\ ~blind[t] => \A mn \in MentionsOf(t) :
              IF mn[2] \in list
              THEN \A a \in (member[mn[2]] \cap user) \ {author[t][2]} :
                     a \in missed[t] \/ \E c \in CopiesOf(t) : c.owner = a /\ c.via = mn
              ELSE \A a \in ResolveRecipient(mn[2]) : a \in missed[t] \/ Has(t, a)
<1>1. work[s] = {} /\ \A a : ~ToCome(s, a)
  BY DEF IInv, Envelopes, ToCome
<1>2. ASSUME sort[t] = "outbound"
      PROVE  \E c \in CopiesOf(t) : c.folder = "Sent" /\ c.owner = author[t][1]
  <2>1. <<t, SentOf(t)>> \in box
    BY <1>1, <1>2 DEF IInv, SentOK
  <2>2. SentOf(t) \in CopiesOf(t)
    BY <2>1 DEF CopiesOf
  <2> QED
    BY <2>2 DEF SentOf
<1>3. sort[t] = "outbound" => \A mn \in MentionsOf(t) :
        /\ ~blind[t] => \A a \in ResolveRecipient(mn[2]) : Has(t, a)
        /\ DomainOf[mn[2]] \notin Served => relay[<<t, mn[2]>>] # "none"
  BY <1>1 DEF IInv, SentOK, OutboundOK
<1> QED
  BY <1>1, <1>2, <1>3 DEF IInv, InboundOK

\* Steps that save nothing: what a session goes on saving it was saving.
LEMMA FrameInv ==
  ASSUME IInv, ShapeOK', Envelopes', OwnTry', LogsFixed, UNCHANGED <<box, missed>>,
         \A s \in Session, t \in Try : Saving(s, t)' =>
           Saving(s, t) /\ phase'[s] = phase[s] /\ work'[s] = work[s],
         \A s \in Session : work'[s] = {} \/ (job'[s] = job[s] /\ work'[s] = work[s]),
         \A r \in Try \X Addr : relay'[r] = "none" <=> relay[r] = "none",
         \A t \in Try : answer'[t] = "ok" =>
           answer[t] = "ok" \/ \E s \in Session : Saving(s, t) /\ phase[s] = "ok",
         \A t \in Try : t[2] > tries[t[1]] => answer'[t] = "none"
  PROVE  IInv'
<1>1. /\ \A t : /\ SentOf(t)' = SentOf(t) /\ MentionsOf(t)' = MentionsOf(t)
                /\ Meant(t)' = Meant(t) /\ \A c : CopyOK(t, c)' = CopyOK(t, c)
      /\ \A a : ResolveRecipient(a)' = ResolveRecipient(a)
  BY FixedMeaning
<1>2. /\ \A t : CopiesOf(t)' = CopiesOf(t) /\ \A a : Has(t, a)' = Has(t, a)
      /\ \A s \in Session : work'[s] = work[s] => \A a : ToCome(s, a)' = ToCome(s, a)
  BY DEF CopiesOf, Has, ToCome
<1>3. \A t \in Try, a \in Addr : relay'[<<t, a>>] = "none" <=> relay[<<t, a>>] = "none"
  OBVIOUS
<1>4. \A t \in Try : \A mn \in MentionsOf(t) :
        relay'[<<t, mn[2]>>] = "none" <=> relay[<<t, mn[2]>>] = "none"
  BY <1>3, MentionedAddresses DEF IInv
<1>5. Fresh' /\ OutboundByUser'
  BY <1>3 DEF IInv, Fresh, OutboundByUser, LogsFixed
<1>6. PendingOK' /\ StoredOK'
  BY <1>1 DEF IInv, PendingOK, StoredOK
<1>7. RelayedOK'
  BY <1>1, <1>3 DEF IInv, RelayedOK, LogsFixed
<1>8. OnceOK' /\ OneCopyEach'
  BY <1>2 DEF IInv, OnceOK, OneCopyEach
<1>9. SentOK'
  BY <1>1, <1>4 DEF IInv, SentOK, LogsFixed
<1>10. OutboundOK'
  BY <1>1, <1>2 DEF IInv, OutboundOK, LogsFixed
<1>11. InboundOK'
  BY <1>1, <1>2 DEF IInv, InboundOK, LogsFixed
<1>12. AcceptedOutboundKept'
  BY <1>1, <1>2, <1>4, OkIsKept DEF IInv, AcceptedOutboundKept, LogsFixed
<1>13. AcceptedInboundKept'
  BY <1>1, <1>2, OkIsKept DEF IInv, AcceptedInboundKept, LogsFixed
<1> QED
  BY <1>5, <1>6, <1>7, <1>8, <1>9, <1>10, <1>11, <1>12, <1>13 DEF IInv

-----------------------------------------------------------------------------
(* The saves                                                               *)

\* What is saved of a copy, filed elsewhere or not.
LEMMA SavedCopy ==
  ASSUME NEW s \in Session, NEW c, CopyOK(job[s], c), NEW saved \in Filtered(s, c)
  PROVE  /\ CopyOK(job[s], saved)
         /\ saved.step = c.step /\ saved.owner = c.owner /\ saved.via = c.via
         /\ c.step # "copy" => saved = c
<1>1. CASE saved = c
  BY <1>1
<1>2. CASE c.step = "copy" /\ saved = [c EXCEPT !.folder = "filed"]
  <2>1. saved = [step |-> c.step, via |-> c.via, owner |-> c.owner, folder |-> "filed"]
    BY <1>2 DEF CopyOK
  <2> QED
    BY <1>2, <2>1 DEF CopyOK
<1> QED
  BY <1>1, <1>2 DEF Filtered

\* Copies that go with c go where c goes.
LEMMA WithoutCopy ==
  ASSUME NEW s \in Session, NEW c \in work[s], NEW d \in work[s], d \notin Without(s, c)
  PROVE  d.step = c.step /\ d.owner = c.owner /\ (d.step # "copy" => d.via = c.via)
BY DEF Without

\* A save adds its copy to those of its DATA command.
LEMMA CopiesGrow ==
  ASSUME NEW t, NEW saved, box' = box \cup {<<t, saved>>}
  PROVE  /\ CopiesOf(t)' = CopiesOf(t) \cup {saved}
         /\ \A u : u # t => CopiesOf(u)' = CopiesOf(u)
<1> DEFINE of(b, u) == {e \in b : e[1] = u}
<1>1. of(box', t) = of(box, t) \cup {<<t, saved>>}
  OBVIOUS
<1>2. \A u : u # t => of(box', u) = of(box, u)
  OBVIOUS
<1>3. CopiesOf(t)' = CopiesOf(t) \cup {saved}
  <2> DEFINE second(S) == {e[2] : e \in S}
  <2>1. ASSUME NEW S PROVE second(S \cup {<<t, saved>>}) = second(S) \cup {saved}
    <3>1. \A e \in S \cup {<<t, saved>>} : e[2] \in second(S) \cup {saved}
      OBVIOUS
    <3>2. <<t, saved>> \in S \cup {<<t, saved>>} /\ <<t, saved>>[2] = saved
      OBVIOUS
    <3>3. saved \in second(S \cup {<<t, saved>>})
      BY <3>2
    <3>4. second(S) \subseteq second(S \cup {<<t, saved>>})
      OBVIOUS
    <3> QED
      BY <3>1, <3>3, <3>4
  <2>2. CopiesOf(t) = second(of(box, t)) /\ CopiesOf(t)' = second(of(box', t))
    BY DEF CopiesOf
  <2> HIDE DEF second, of
  <2> QED
    BY <1>1, <2>1, <2>2
<1>4. ASSUME NEW u, u # t PROVE CopiesOf(u)' = CopiesOf(u)
  BY <1>2, <1>4 DEF CopiesOf
<1> QED
  BY <1>3, <1>4

\* A save moves a copy from those to come to those that are there.
LEMMA SaveInv ==
  ASSUME IInv, ShapeOK', NEW s \in Session, Save(s)
  PROVE  IInv'
<1>0. ShapeOK /\ ShapeOK'
  BY DEF IInv
<1> PICK c \in Turn(s) :
      /\ work' = [work EXCEPT ![s] = Without(s, c)]
      /\ \E saved \in Filtered(s, c) : box' = box \cup {<<job[s], saved>>}
  BY DEF Save
<1> PICK saved \in Filtered(s, c) : box' = box \cup {<<job[s], saved>>}
  OBVIOUS
<1>1. /\ UNCHANGED <<phase, login, from, env, job, said, relay, missed, answer>>
      /\ phase[s] = "save" /\ LogsFixed
  BY DEF Save, LogsFixed, dirVars, logVars
<1>2. job[s] \in Try /\ job[s][2] <= tries[job[s][1]]
  BY <1>1 DEF IInv, Envelopes, Busy
<1> PICK t \in Try : t = job[s]
  BY <1>2
<1>3. t[2] <= tries[t[1]] /\ tries[t[1]] \in Nat /\ t[2] \in Nat
  BY <1>0, <1>2, SmtpAssumption DEF Try, ShapeOK
<1>4. /\ work'[s] = Without(s, c) /\ Without(s, c) \subseteq work[s] /\ c \in work[s]
      /\ \A z \in Session : z # s => work'[z] = work[z]
  BY <1>0 DEF ShapeOK, Without, Turn
<1>5. CopyOK(t, c)
  BY <1>2, <1>4 DEF IInv, PendingOK
<1>6. /\ CopyOK(t, saved) /\ saved.step = c.step /\ saved.owner = c.owner /\ saved.via = c.via
      /\ c.step # "copy" => saved = c
  BY <1>5, SavedCopy
<1>7. /\ \A u : /\ SentOf(u)' = SentOf(u) /\ MentionsOf(u)' = MentionsOf(u)
                /\ Meant(u)' = Meant(u) /\ \A d : CopyOK(u, d)' = CopyOK(u, d)
      /\ \A a : ResolveRecipient(a)' = ResolveRecipient(a)
  BY <1>1, FixedMeaning
<1>8. /\ saved \in CopiesOf(t)' /\ \A u : CopiesOf(u) \subseteq CopiesOf(u)'
      /\ \A u : u # t => CopiesOf(u)' = CopiesOf(u)
      /\ CopiesOf(t)' = CopiesOf(t) \cup {saved}
  <2>1. CopiesOf(t)' = CopiesOf(t) \cup {saved} /\ \A u : u # t => CopiesOf(u)' = CopiesOf(u)
    BY CopiesGrow
  <2> QED
    BY <2>1
<1>9. \A u, a : Has(u, a) => Has(u, a)'
  BY <1>8 DEF Has
<1>10. \A z \in Session, u \in Try : Saving(z, u)' = Saving(z, u)
  BY <1>1 DEF Saving
<1>11. \A z \in Session, u \in Try : Saving(z, u) /\ z # s => u # t
  BY <1>1 DEF IInv, OwnTry, Saving, Busy
<1>12. \A z \in Session : \A a : z # s => ToCome(z, a)' = ToCome(z, a)
  BY <1>4 DEF ToCome
\* A pending copy is still pending, or its owner has one now.
<1>13. \A d \in work[s] : d \in work'[s] \/
         (/\ saved.step = d.step /\ saved.owner = d.owner
          /\ d.step # "copy" => d.via = saved.via)
  BY <1>4, <1>6, WithoutCopy
<1>14. \A a : ToCome(s, a) => ToCome(s, a)' \/ Has(t, a)'
  BY <1>8, <1>13 DEF ToCome, Has
<1>15. Envelopes'
  BY <1>1, <1>4 DEF IInv, Envelopes, LogsFixed, Busy
<1>16. OwnTry'
  BY <1>1 DEF IInv, OwnTry, Busy
<1>17. Fresh'
  BY <1>1, <1>3 DEF IInv, Fresh, LogsFixed
<1>18. OutboundByUser'
  BY <1>1 DEF IInv, OutboundByUser, LogsFixed
<1>19. PendingOK'
  BY <1>1, <1>4, <1>7 DEF IInv, PendingOK
<1>20. StoredOK'
  BY <1>2, <1>6, <1>7 DEF IInv, StoredOK
<1>21. RelayedOK'
  BY <1>1, <1>7 DEF IInv, RelayedOK, LogsFixed
<1>22. OnceOK'
  <2> SUFFICES ASSUME NEW z \in Session, NEW d \in work'[z], NEW e \in box',
                      e[1] = job[z], e[2].step = "copy", d.step = "copy"
               PROVE  e[2].owner # d.owner
    BY <1>1 DEF OnceOK
  <2>1. d \in work[z]
    BY <1>4
  <2>2. CASE e \in box
    BY <2>1, <2>2 DEF IInv, OnceOK
  <2>3. CASE e = <<t, saved>> /\ z # s
    <3>1. phase[z] = "save" /\ job[z] = t
      BY <2>1, <2>3 DEF IInv, Envelopes
    <3> QED
      BY <2>3, <3>1, <1>1 DEF IInv, OwnTry, Busy
  <2>4. CASE e = <<t, saved>> /\ z = s
    BY <2>4, <1>4, <1>6 DEF Without
  <2> QED
    BY <2>2, <2>3, <2>4
<1>23. SentOK'
  <2> SUFFICES ASSUME NEW z \in Session, NEW u \in Try, Saving(z, u), sort[u] = "outbound"
               PROVE  /\ SentOf(u) \in work'[z] \/ <<u, SentOf(u)>> \in box'
                      /\ phase[z] = "ok" => \A mn \in MentionsOf(u) :
                           DomainOf[mn[2]] \notin Served => relay[<<u, mn[2]>>] # "none"
    BY <1>1, <1>7, <1>10 DEF SentOK, LogsFixed
  <2>1. CASE z # s
    BY <2>1, <1>4 DEF IInv, SentOK
  <2>2. CASE z = s
    <3>1. u = t /\ phase[s] # "ok" /\ (SentOf(t) \in work[s] \/ <<t, SentOf(t)>> \in box)
      BY <2>2, <1>1 DEF IInv, SentOK, Saving
    <3>2. CASE SentOf(t) \in work[s] \ work'[s]
      <4>1. c.step = "sent"
        BY <3>2, <1>4, WithoutCopy DEF SentOf
      <4>2. saved = SentOf(t)
        BY <4>1, <1>5, <1>6 DEF CopyOK
      <4> QED
        BY <2>2, <3>1, <4>2
    <3> QED
      BY <2>2, <3>1, <3>2
  <2> QED
    BY <2>1, <2>2
<1>24. OutboundOK'
  <2> SUFFICES ASSUME NEW z \in Session, NEW u \in Try, Saving(z, u), sort[u] = "outbound",
                      ~blind[u], NEW mn \in MentionsOf(u), NEW a \in ResolveRecipient(mn[2])
               PROVE  Has(u, a)' \/ ToCome(z, a)'
    BY <1>1, <1>7, <1>10 DEF OutboundOK, LogsFixed
  <2>1. Has(u, a) \/ ToCome(z, a)
    BY DEF IInv, OutboundOK
  <2>2. z = s => u = t
    BY DEF Saving
  <2> QED
    BY <2>1, <2>2, <1>9, <1>12, <1>14
<1>25. InboundOK'
  <2> SUFFICES ASSUME NEW z \in Session, NEW u \in Try, Saving(z, u), sort[u] = "inbound",
                      ~blind[u], NEW mn \in MentionsOf(u)
               PROVE  IF mn[2] \in list
                      THEN \A a \in (member[mn[2]] \cap user) \ {author[u][2]} :
                             \/ a \in missed[u]
                             \/ \E d \in CopiesOf(u)' : d.owner = a /\ d.via = mn
                             \/ \E d \in work'[z] : d.step = "list" /\ d.owner = a /\ d.via = mn
                      ELSE \A a \in ResolveRecipient(mn[2]) :
                             a \in missed[u] \/ Has(u, a)' \/ ToCome(z, a)'
    BY <1>1, <1>7, <1>10 DEF InboundOK, LogsFixed
  <2>1. z = s => u = t
    BY DEF Saving
  <2>2. ASSUME mn[2] \in list, NEW a \in (member[mn[2]] \cap user) \ {author[u][2]}
        PROVE  \/ a \in missed[u] \/ \E d \in CopiesOf(u)' : d.owner = a /\ d.via = mn
               \/ \E d \in work'[z] : d.step = "list" /\ d.owner = a /\ d.via = mn
    <3>1. CASE a \in missed[u] \/ \E d \in CopiesOf(u) : d.owner = a /\ d.via = mn
      BY <3>1, <1>8
    <3>2. ASSUME NEW d \in work[z], d.step = "list", d.owner = a, d.via = mn
          PROVE  \/ \E x \in CopiesOf(u)' : x.owner = a /\ x.via = mn
                 \/ \E x \in work'[z] : x.step = "list" /\ x.owner = a /\ x.via = mn
      BY <3>2, <2>1, <1>4, <1>8, <1>13
    <3> QED
      BY <2>2, <3>1, <3>2 DEF IInv, InboundOK
  <2>3. ASSUME mn[2] \notin list, NEW a \in ResolveRecipient(mn[2])
        PROVE  a \in missed[u] \/ Has(u, a)' \/ ToCome(z, a)'
    <3>1. a \in missed[u] \/ Has(u, a) \/ ToCome(z, a)
      BY <2>3 DEF IInv, InboundOK
    <3> QED
      BY <3>1, <2>1, <1>9, <1>12, <1>14
  <2> QED
    BY <2>2, <2>3
<1>26. AcceptedOutboundKept'
  BY <1>1, <1>7, <1>8, <1>9 DEF IInv, AcceptedOutboundKept, LogsFixed
<1>27. AcceptedInboundKept'
  <2> SUFFICES ASSUME NEW u \in Try, answer[u] = "ok", sort[u] = "inbound", ~blind[u],
                      NEW mn \in MentionsOf(u)
               PROVE  IF mn[2] \in list
                      THEN \A a \in (member[mn[2]] \cap user) \ {author[u][2]} :
                             \/ a \in missed[u]
                             \/ \E d \in CopiesOf(u)' : d.owner = a /\ d.via = mn
                      ELSE \A a \in ResolveRecipient(mn[2]) : a \in missed[u] \/ Has(u, a)'
    BY <1>1, <1>7 DEF AcceptedInboundKept, LogsFixed
  <2> QED
    BY <1>8, <1>9 DEF IInv, AcceptedInboundKept
<1>28. OneCopyEach'
  <2>1. \A d \in CopiesOf(t) : d.step = "copy" /\ saved.step = "copy" => d.owner # saved.owner
    <3> SUFFICES ASSUME NEW d \in CopiesOf(t), d.step = "copy", saved.step = "copy"
                 PROVE  d.owner # saved.owner
      OBVIOUS
    <3>1. PICK e \in box : e[1] = t /\ e[2] = d
      BY DEF CopiesOf
    <3> QED
      BY <3>1, <1>4, <1>6 DEF IInv, OnceOK
  <2> QED
    BY <2>1, <1>2, <1>8 DEF IInv, OneCopyEach
<1> QED
  BY <1>0, <1>15, <1>16, <1>17, <1>18, <1>19, <1>20, <1>21, <1>22, <1>23, <1>24, <1>25, <1>26,
     <1>27, <1>28 DEF IInv

\* A copy that is refused leaves its owner on record.
LEMMA SkipInv ==
  ASSUME IInv, ShapeOK', NEW s \in Session, SkipCopy(s)
  PROVE  IInv'
<1>0. ShapeOK /\ ShapeOK'
  BY DEF IInv
<1> PICK c \in Turn(s) :
      /\ work' = [work EXCEPT ![s] = Without(s, c)]
      /\ missed' = [missed EXCEPT ![job[s]] = @ \cup {c.owner}]
  BY DEF SkipCopy
<1>1. /\ UNCHANGED <<phase, login, from, env, job, said, box, relay, answer>>
      /\ phase[s] = "save" /\ sort[job[s]] = "inbound" /\ LogsFixed
  BY DEF SkipCopy, LogsFixed, dirVars, logVars
<1>2. job[s] \in Try
  BY <1>1 DEF IInv, Envelopes, Busy
<1> PICK t \in Try : t = job[s]
  BY <1>2
<1>3. /\ work'[s] = Without(s, c) /\ Without(s, c) \subseteq work[s] /\ c \in work[s]
      /\ \A z \in Session : z # s => work'[z] = work[z]
  BY <1>0 DEF ShapeOK, Without, Turn
<1>4. /\ c.owner \in missed'[t] /\ missed[t] \subseteq missed'[t]
      /\ \A u \in Try : u # t => missed'[u] = missed[u]
  BY <1>0 DEF ShapeOK
<1>5. /\ \A u : /\ SentOf(u)' = SentOf(u) /\ MentionsOf(u)' = MentionsOf(u)
                /\ Meant(u)' = Meant(u) /\ \A d : CopyOK(u, d)' = CopyOK(u, d)
      /\ \A a : ResolveRecipient(a)' = ResolveRecipient(a)
  BY <1>1, FixedMeaning
<1>6. \A u : CopiesOf(u)' = CopiesOf(u) /\ \A a : Has(u, a)' = Has(u, a)
  BY <1>1 DEF CopiesOf, Has
<1>7. \A z \in Session, u \in Try : Saving(z, u)' = Saving(z, u)
  BY <1>1 DEF Saving
<1>8. \A z \in Session : \A a : z # s => ToCome(z, a)' = ToCome(z, a)
  BY <1>3 DEF ToCome
\* A pending copy is still pending, or its owner is on record now.
<1>9. \A d \in work[s] : d \in work'[s] \/ d.owner \in missed'[t]
  BY <1>3, <1>4, WithoutCopy
<1>10. \A a : ToCome(s, a) => ToCome(s, a)' \/ a \in missed'[t]
  BY <1>9 DEF ToCome
<1>11. Envelopes' /\ OwnTry'
  BY <1>1, <1>3 DEF IInv, Envelopes, OwnTry, LogsFixed, Busy
<1>12. Fresh' /\ OutboundByUser'
  BY <1>1 DEF IInv, Fresh, OutboundByUser, LogsFixed
<1>13. PendingOK' /\ StoredOK'
  BY <1>1, <1>3, <1>5 DEF IInv, PendingOK, StoredOK
<1>14. RelayedOK'
  BY <1>1, <1>5 DEF IInv, RelayedOK, LogsFixed
<1>15. OnceOK' /\ OneCopyEach'
  BY <1>1, <1>3, <1>6 DEF IInv, OnceOK, OneCopyEach
<1>16. \A z \in Session, u \in Try : Saving(z, u) /\ sort[u] = "outbound" => z # s
  BY <1>1 DEF Saving
<1>17. SentOK'
  BY <1>1, <1>3, <1>5, <1>7, <1>16 DEF IInv, SentOK, LogsFixed
<1>18. OutboundOK'
  BY <1>1, <1>5, <1>6, <1>7, <1>8, <1>16 DEF IInv, OutboundOK, LogsFixed
<1>19. InboundOK'
  <2> SUFFICES ASSUME NEW z \in Session, NEW u \in Try, Saving(z, u), sort[u] = "inbound",
                      ~blind[u], NEW mn \in MentionsOf(u)
               PROVE  IF mn[2] \in list
                      THEN \A a \in (member[mn[2]] \cap user) \ {author[u][2]} :
                             \/ a \in missed'[u]
                             \/ \E d \in CopiesOf(u) : d.owner = a /\ d.via = mn
                             \/ \E d \in work'[z] : d.step = "list" /\ d.owner = a /\ d.via = mn
                      ELSE \A a \in ResolveRecipient(mn[2]) :
                             a \in missed'[u] \/ Has(u, a) \/ ToCome(z, a)'
    BY <1>1, <1>5, <1>6, <1>7 DEF InboundOK, LogsFixed
  <2>1. z = s => u = t
    BY DEF Saving
  <2>2. missed[u] \subseteq missed'[u]
    BY <1>4
  <2>3. ASSUME mn[2] \in list, NEW a \in (member[mn[2]] \cap user) \ {author[u][2]}
        PROVE  \/ a \in missed'[u] \/ \E d \in CopiesOf(u) : d.owner = a /\ d.via = mn
               \/ \E d \in work'[z] : d.step = "list" /\ d.owner = a /\ d.via = mn
    <3>1. ASSUME NEW d \in work[z], d.step = "list", d.owner = a, d.via = mn
          PROVE  \/ a \in missed'[u]
                 \/ \E x \in work'[z] : x.step = "list" /\ x.owner = a /\ x.via = mn
      BY <3>1, <2>1, <1>3, <1>9
    <3> QED
      BY <2>2, <2>3, <3>1 DEF IInv, InboundOK
  <2>4. ASSUME mn[2] \notin list, NEW a \in ResolveRecipient(mn[2])
        PROVE  a \in missed'[u] \/ Has(u, a) \/ ToCome(z, a)'
    <3>1. a \in missed[u] \/ Has(u, a) \/ ToCome(z, a)
      BY <2>4 DEF IInv, InboundOK
    <3> QED
      BY <3>1, <2>1, <2>2, <1>8, <1>10
  <2> QED
    BY <2>3, <2>4
<1>20. AcceptedOutboundKept'
  BY <1>1, <1>5, <1>6 DEF IInv, AcceptedOutboundKept, LogsFixed
<1>21. AcceptedInboundKept'
  <2>1. \A u \in Try : missed[u] \subseteq missed'[u]
    BY <1>4
  <2> QED
    BY <2>1, <1>1, <1>5, <1>6 DEF IInv, AcceptedInboundKept, LogsFixed
<1> QED
  BY <1>0, <1>11, <1>12, <1>13, <1>14, <1>15, <1>17, <1>18, <1>19, <1>20, <1>21 DEF IInv

\* The relay gets what is meant for it, once nothing is left to save.
LEMMA DoneInv ==
  ASSUME IInv, ShapeOK', NEW s \in Session, Done(s)
  PROVE  IInv'
<1>0. ShapeOK /\ ShapeOK'
  BY DEF IInv
<1>1. /\ UNCHANGED <<login, from, env, job, work, said, box, missed, answer>>
      /\ phase[s] = "save" /\ work[s] = {} /\ phase' = [phase EXCEPT ![s] = "ok"] /\ LogsFixed
  BY DEF Done, LogsFixed, dirVars, logVars
<1>2. job[s] \in Try /\ job[s][2] <= tries[job[s][1]] /\ env[s] = named[job[s]]
  BY <1>1 DEF IInv, Envelopes, Busy
<1> PICK t \in Try : t = job[s]
  BY <1>2
<1>3. t[2] <= tries[t[1]] /\ tries[t[1]] \in Nat /\ t[2] \in Nat
  BY <1>0, <1>2, SmtpAssumption DEF Try, ShapeOK
<1>4. phase'[s] = "ok" /\ \A z \in Session : z # s => phase'[z] = phase[z]
  BY <1>0, <1>1 DEF ShapeOK
<1>5. /\ \A u : /\ SentOf(u)' = SentOf(u) /\ MentionsOf(u)' = MentionsOf(u)
                /\ Meant(u)' = Meant(u) /\ \A d : CopyOK(u, d)' = CopyOK(u, d)
      /\ \A a : ResolveRecipient(a)' = ResolveRecipient(a)
  BY <1>1, FixedMeaning
<1>6. /\ \A u : CopiesOf(u)' = CopiesOf(u) /\ \A a : Has(u, a)' = Has(u, a)
      /\ \A z, a : ToCome(z, a)' = ToCome(z, a)
  BY <1>1 DEF CopiesOf, Has, ToCome
<1>7. \A z \in Session, u \in Try : Saving(z, u)' = Saving(z, u) /\ Busy(z)' = Busy(z)
  BY <1>1, <1>4 DEF Saving, Busy
<1> DEFINE out == External(Mentions(header[t[1]], env[s]))
\* What the relay is given.
<1>8. \A u \in Try, a \in Addr :
        \/ relay'[<<u, a>>] = relay[<<u, a>>]
        \/ /\ relay'[<<u, a>>] = "queued" /\ u = t /\ a \in out /\ sort[t] = "outbound"
  BY DEF Done
<1>9. sort[t] = "outbound" =>
        \A a \in Addr : a \in out => relay'[<<t, a>>] = "queued"
  BY DEF Done
<1>10. out \subseteq Meant(t) /\ \A a \in out : DomainOf[a] \notin Served
  BY <1>2, MentionsMeant DEF External, Meant
<1>11. sort[t] = "outbound" =>
         \A mn \in MentionsOf(t) : DomainOf[mn[2]] \notin Served => mn[2] \in out
  BY <1>2 DEF MentionsOf, External
<1>12. \A u \in Try : \A mn \in MentionsOf(u) :
         mn[2] \in Addr /\ (relay[<<u, mn[2]>>] # "none" => relay'[<<u, mn[2]>>] # "none")
  BY <1>0, <1>8, MentionedAddresses
<1>13. Envelopes'
  BY <1>1, <1>4, <1>7 DEF IInv, Envelopes, LogsFixed, Busy
<1>14. OwnTry'
  BY <1>1, <1>7 DEF IInv, OwnTry, Busy
<1>15. Fresh' /\ OutboundByUser'
  BY <1>1, <1>3, <1>8 DEF IInv, Fresh, OutboundByUser, LogsFixed
<1>16. PendingOK' /\ StoredOK'
  BY <1>1, <1>5 DEF IInv, PendingOK, StoredOK
<1>17. RelayedOK'
  <2>1. sort[t] = "outbound" => <<t, SentOf(t)>> \in box
    BY <1>1 DEF IInv, SentOK, Saving
  <2> QED
    BY <2>1, <1>1, <1>5, <1>8, <1>10 DEF IInv, RelayedOK, LogsFixed
<1>18. OnceOK' /\ OneCopyEach'
  BY <1>1, <1>6 DEF IInv, OnceOK, OneCopyEach
<1>19. SentOK'
  <2> SUFFICES ASSUME NEW z \in Session, NEW u \in Try, Saving(z, u), sort[u] = "outbound"
               PROVE  /\ SentOf(u) \in work[z] \/ <<u, SentOf(u)>> \in box
                      /\ phase'[z] = "ok" => \A mn \in MentionsOf(u) :
                           DomainOf[mn[2]] \notin Served => relay'[<<u, mn[2]>>] # "none"
    BY <1>1, <1>5, <1>7 DEF SentOK, LogsFixed
  <2>1. CASE z # s
    BY <2>1, <1>4, <1>12 DEF IInv, SentOK
  <2>2. CASE z = s
    <3>1. u = t
      BY <2>2 DEF Saving
    <3>2. \A mn \in MentionsOf(t) :
            DomainOf[mn[2]] \notin Served => relay'[<<t, mn[2]>>] = "queued"
      BY <3>1, <1>9, <1>11, <1>12
    <3> QED
      BY <3>1, <3>2 DEF IInv, SentOK
  <2> QED
    BY <2>1, <2>2
<1>20. OutboundOK'
  BY <1>1, <1>5, <1>6, <1>7 DEF IInv, OutboundOK, LogsFixed
<1>21. InboundOK'
  BY <1>1, <1>5, <1>6, <1>7 DEF IInv, InboundOK, LogsFixed
<1>22. AcceptedOutboundKept'
  BY <1>1, <1>5, <1>6, <1>12 DEF IInv, AcceptedOutboundKept, LogsFixed
<1>23. AcceptedInboundKept'
  BY <1>1, <1>5, <1>6 DEF IInv, AcceptedInboundKept, LogsFixed
<1> QED
  BY <1>0, <1>13, <1>14, <1>15, <1>16, <1>17, <1>18, <1>19, <1>20, <1>21, <1>22, <1>23 DEF IInv

-----------------------------------------------------------------------------
(* All steps                                                               *)

\* Sessions that end and the crash.
LEMMA ForgetInv ==
  ASSUME IInv, ShapeOK', NEW S \in SUBSET Session, Forget(S), UNCHANGED tries,
         named' = named, author' = author, sort' = sort, junk' = junk,
         \A r \in Try \X Addr : relay'[r] = "none" <=> relay[r] = "none"
  PROVE  IInv'
<1>0. ShapeOK
  BY DEF IInv
<1>1. /\ LogsFixed /\ UNCHANGED <<box, missed, answer>>
      /\ \A s \in S : phase'[s] = "ready" /\ env'[s] = {} /\ work'[s] = {} /\ login'[s] = Nobody
      /\ \A s \in Session \ S :
           /\ phase'[s] = phase[s] /\ env'[s] = env[s] /\ said'[s] = said[s]
           /\ work'[s] = work[s] /\ login'[s] = login[s] /\ job'[s] = job[s]
  BY <1>0 DEF Forget, LogsFixed, ShapeOK, dirVars, logVars
<1>2. Envelopes' /\ OwnTry'
  BY <1>1 DEF IInv, Envelopes, OwnTry, Busy, LogsFixed
<1>3. \A s \in Session, t \in Try : Saving(s, t)' =>
        Saving(s, t) /\ phase'[s] = phase[s] /\ work'[s] = work[s]
  BY <1>1 DEF Saving
<1>4. \A t \in Try : t[2] > tries[t[1]] => answer'[t] = "none"
  BY <1>1 DEF IInv, Fresh
<1> QED
  BY <1>1, <1>2, <1>3, <1>4, FrameInv

\* Commands other than DATA.
LEMMA CommandInv ==
  ASSUME IInv, ShapeOK', NEW s \in Session,
         \/ \E u \in user : AuthPlain(s, u)
         \/ \E a \in Sender : Mail(s, a)
         \/ \E a \in Recipient : Rcpt(s, a)
         \/ Rset(s)
  PROVE  IInv'
<1>0. ShapeOK
  BY DEF IInv
<1>1. /\ LogsFixed /\ UNCHANGED <<job, work, box, relay, missed, answer>>
      /\ phase[s] \in {"ready", "mail"} /\ phase'[s] \in {"ready", "mail"}
      /\ \A z \in Session : z # s =>
           /\ phase'[z] = phase[z] /\ env'[z] = env[z]
           /\ said'[z] = said[z] /\ login'[z] = login[z]
  BY <1>0 DEF ShapeOK, AuthPlain, Mail, Rcpt, Rset, Reset, LogsFixed, dirVars, logVars
<1>2. /\ phase'[s] = "ready" => env'[s] = {}
      /\ phase'[s] # "ready" => env'[s] = said'[s]
      /\ login'[s] # Nobody => login'[s] \in user
  <2>1. CASE \E u \in user : AuthPlain(s, u)
    BY <1>0, <2>1 DEF IInv, Envelopes, ShapeOK, AuthPlain
  <2>2. CASE \E a \in Sender : Mail(s, a)
    BY <1>0, <2>2 DEF IInv, Envelopes, ShapeOK, Mail
  <2>3. CASE \E a \in Recipient : Rcpt(s, a)
    <3> PICK a \in Recipient : Rcpt(s, a)
      BY <2>3
    <3>1. phase'[s] = "mail" /\ env[s] = said[s] /\ login'[s] = login[s]
      BY DEF IInv, Envelopes, Rcpt
    <3>2. env'[s] = env[s] \cup {a} /\ said'[s] = said[s] \cup {a}
      BY <1>0 DEF ShapeOK, Rcpt
    <3> QED
      BY <3>1, <3>2 DEF IInv, Envelopes
  <2>4. CASE Rset(s)
    BY <1>0, <2>4 DEF IInv, Envelopes, ShapeOK, Rset, Reset
  <2> QED
    BY <2>1, <2>2, <2>3, <2>4
<1>3. Envelopes' /\ OwnTry'
  BY <1>1, <1>2 DEF IInv, Envelopes, OwnTry, Busy, LogsFixed
<1>4. \A z \in Session, t \in Try : Saving(z, t)' =>
        Saving(z, t) /\ phase'[z] = phase[z] /\ work'[z] = work[z]
  BY <1>1 DEF Saving
<1>5. \A t \in Try : t[2] > tries[t[1]] => answer'[t] = "none"
  BY <1>1 DEF IInv, Fresh
<1> QED
  BY <1>1, <1>3, <1>4, <1>5, FrameInv

\* An error on the way ends the handler with nothing to save.
LEMMA SaveFailsInv ==
  ASSUME IInv, ShapeOK', NEW s \in Session, SaveFails(s)
  PROVE  IInv'
<1>0. ShapeOK
  BY DEF IInv
<1>1. /\ LogsFixed /\ UNCHANGED <<login, env, said, job, box, relay, missed, answer>>
      /\ phase[s] = "save" /\ phase'[s] = "failed" /\ work'[s] = {}
      /\ \A z \in Session : z # s => phase'[z] = phase[z] /\ work'[z] = work[z]
  BY <1>0 DEF ShapeOK, SaveFails, LogsFixed, dirVars, logVars
<1>2. Envelopes' /\ OwnTry'
  BY <1>1 DEF IInv, Envelopes, OwnTry, Busy, LogsFixed
<1>3. \A z \in Session, t \in Try : Saving(z, t)' =>
        Saving(z, t) /\ phase'[z] = phase[z] /\ work'[z] = work[z]
  BY <1>1 DEF Saving
<1>4. \A t \in Try : t[2] > tries[t[1]] => answer'[t] = "none"
  BY <1>1 DEF IInv, Fresh
<1> QED
  BY <1>1, <1>2, <1>3, <1>4, FrameInv

\* The answer of 250 comes when all is kept.
LEMMA AnswerInv ==
  ASSUME IInv, ShapeOK', NEW s \in Session, Answer(s)
  PROVE  IInv'
<1>0. ShapeOK
  BY DEF IInv
<1>1. /\ LogsFixed /\ UNCHANGED <<login, said, work, box, relay, missed>>
      /\ phase[s] \in {"ok", "failed", "refused"} /\ phase'[s] = "ready" /\ env'[s] = {}
      /\ answer' = [answer EXCEPT ![job[s]] = phase[s]]
      /\ \A z \in Session : z # s =>
           /\ phase'[z] = phase[z] /\ env'[z] = env[z] /\ job'[z] = job[z]
  BY <1>0 DEF ShapeOK, Answer, Reset, LogsFixed, dirVars, logVars
<1>2. job[s] \in Try /\ job[s][2] <= tries[job[s][1]] /\ work[s] = {}
  BY <1>1 DEF IInv, Envelopes, Busy
<1> PICK t \in Try : t = job[s]
  BY <1>2
<1>3. t[2] <= tries[t[1]] /\ tries[t[1]] \in Nat /\ t[2] \in Nat
  BY <1>0, <1>2, SmtpAssumption DEF Try, ShapeOK
<1>4. /\ answer'[t] = phase[s] /\ \A u \in Try : u # t => answer'[u] = answer[u]
  BY <1>0, <1>1 DEF ShapeOK
<1>5. Envelopes' /\ OwnTry'
  BY <1>1 DEF IInv, Envelopes, OwnTry, Busy, LogsFixed
<1>6. \A z \in Session, u \in Try : Saving(z, u)' =>
        Saving(z, u) /\ phase'[z] = phase[z] /\ work'[z] = work[z]
  BY <1>1 DEF Saving
<1>7. \A u \in Try : u[2] > tries[u[1]] => answer'[u] = "none"
  BY <1>3, <1>4 DEF IInv, Fresh
<1>8. \A u \in Try : answer'[u] = "ok" =>
        answer[u] = "ok" \/ \E z \in Session : Saving(z, u) /\ phase[z] = "ok"
  BY <1>4 DEF Saving
<1>9. \A z \in Session : work'[z] = {} \/ (job'[z] = job[z] /\ work'[z] = work[z])
  BY <1>1, <1>2
<1> QED
  BY <1>1, <1>5, <1>6, <1>7, <1>8, <1>9, FrameInv

\* The end of the relay's work.
LEMMA RelayEndsInv ==
  ASSUME IInv, ShapeOK', NEW r \in Try \X Addr, RelayEnds(r)
  PROVE  IInv'
<1>0. ShapeOK
  BY DEF IInv
<1>1. /\ LogsFixed /\ UNCHANGED <<phase, login, env, said, job, work, box, missed, answer>>
      /\ \A q \in Try \X Addr : relay'[q] = "none" <=> relay[q] = "none"
  BY <1>0 DEF ShapeOK, RelayEnds, LogsFixed, dirVars, sessionVars, logVars
<1>2. Envelopes' /\ OwnTry'
  BY <1>1 DEF IInv, Envelopes, OwnTry, Busy, LogsFixed
<1>3. \A z \in Session, t \in Try : Saving(z, t)' => Saving(z, t)
  BY <1>1 DEF Saving
<1>4. \A t \in Try : t[2] > tries[t[1]] => answer'[t] = "none"
  BY <1>1 DEF IInv, Fresh
<1> QED
  BY <1>1, <1>2, <1>3, <1>4, FrameInv

\* No step breaks the invariant.
LEMMA InvStep == IInv /\ [Next]_vars => IInv'
<1> SUFFICES ASSUME IInv, [Next]_vars PROVE IInv'
  OBVIOUS
<1>0. ShapeOK /\ ShapeOK'
  BY ShapeStep DEF IInv
<1>1. CASE \E s \in Session : \/ \E u \in user : AuthPlain(s, u)
                              \/ \E a \in Sender : Mail(s, a)
                              \/ \E a \in Recipient : Rcpt(s, a)
                              \/ Rset(s)
  BY <1>0, <1>1, CommandInv
<1>2. CASE \E s \in Session, m \in Msg : Data(s, m)
  BY <1>0, <1>2, DataInv
<1>3. CASE \E s \in Session : Save(s) \/ SkipCopy(s) \/ SaveFails(s) \/ Done(s) \/ Answer(s)
  BY <1>0, <1>3, SaveInv, SkipInv, SaveFailsInv, DoneInv, AnswerInv
<1>4. CASE \E r \in Try \X Addr : RelayEnds(r)
  BY <1>0, <1>4, RelayEndsInv
<1>5. ASSUME NEW s \in Session, Disconnect(s) PROVE IInv'
  <2>1. Forget({s}) /\ UNCHANGED <<relay, tries, named, author, sort, junk>>
    BY <1>5 DEF Disconnect, Forget, logVars
  <2> QED
    BY <1>0, <2>1, ForgetInv
<1>6. CASE Crash
  <2>1. Forget(Session) /\ UNCHANGED <<tries, named, author, sort, junk>>
    BY <1>6 DEF Crash, Forget, logVars
  <2>2. \A r \in Try \X Addr : relay'[r] = "none" <=> relay[r] = "none"
    BY <1>6 DEF Crash
  <2> QED
    BY <1>0, <2>1, <2>2, ForgetInv
<1>7. CASE UNCHANGED vars
  <2>1. /\ LogsFixed
        /\ UNCHANGED <<phase, login, env, said, job, work, box, relay, missed, answer>>
    BY <1>7 DEF vars, LogsFixed, dirVars, sessionVars, logVars
  <2>2. Envelopes' /\ OwnTry'
    BY <2>1 DEF IInv, Envelopes, OwnTry, Busy, LogsFixed
  <2>3. \A z \in Session, t \in Try : Saving(z, t)' => Saving(z, t)
    BY <2>1 DEF Saving
  <2>4. \A t \in Try : t[2] > tries[t[1]] => answer'[t] = "none"
    BY <2>1 DEF IInv, Fresh
  <2> QED
    BY <1>0, <2>1, <2>2, <2>3, <2>4, FrameInv
<1> QED
  BY <1>1, <1>2, <1>3, <1>4, <1>5, <1>6, <1>7 DEF Next

\* The invariant at the start.
LEMMA InitialInv == Init => IInv
<1> SUFFICES ASSUME Init PROVE IInv
  OBVIOUS
<1> USE DEF Init, SmtpInit
<1>1. ShapeOK
  <2> PICK d \in Tables : /\ user = d.users /\ alias = d.aliases
                          /\ list = d.lists /\ member = d.members
    OBVIOUS
  <2>1. /\ user \subseteq Addr /\ member \in [List -> SUBSET Addr]
        /\ alias \in [Addr \cup Domain -> SUBSET Addr]
    BY SmtpAssumption
  <2>2. DOMAIN alias = Addr \cup Domain /\ alias = [key \in DOMAIN alias |-> alias[key]]
    BY <2>1
  <2>3. tries \in [Msg -> 0..MaxTries]
    BY SmtpAssumption
  <2> QED
    BY <2>1, <2>2, <2>3 DEF ShapeOK
<1>2. Envelopes /\ OwnTry /\ OutboundByUser
  BY DEF Envelopes, OwnTry, OutboundByUser, Busy
<1>3. Fresh /\ RelayedOK
  BY DEF Fresh, RelayedOK
<1>4. PendingOK /\ StoredOK /\ OnceOK
  BY DEF PendingOK, StoredOK, OnceOK
<1>5. SentOK /\ OutboundOK /\ InboundOK
  BY DEF SentOK, OutboundOK, InboundOK, Saving
<1>6. AcceptedOutboundKept /\ AcceptedInboundKept
  BY DEF AcceptedOutboundKept, AcceptedInboundKept
<1>7. OneCopyEach
  BY DEF OneCopyEach, CopiesOf
<1> QED
  BY <1>1, <1>2, <1>3, <1>4, <1>5, <1>6, <1>7 DEF IInv

\* What every session knows in the middle of a DATA command, and what is true
\* of every copy saved or to be saved.
THEOREM SmtpInv == Spec => []IInv
<1> QED
  BY InitialInv, InvStep, PTL DEF Spec

\* Mail of an account that was answered with 250 is in Sent, in the mailboxes
\* of all it was for, and with the relay.
THEOREM OutboundKept == Spec => []AcceptedOutboundKept
<1>1. IInv => AcceptedOutboundKept
  BY DEF IInv
<1> QED
  BY <1>1, SmtpInv, PTL

\* Mail from outside that was answered with 250 reached all it was for, but
\* for owners who or whose database refused it.
THEOREM InboundKept == Spec => []AcceptedInboundKept
<1>1. IInv => AcceptedInboundKept
  BY DEF IInv
<1> QED
  BY <1>1, SmtpInv, PTL

\* One DATA command saves one copy for a mailbox, however many recipients lead
\* there.
THEOREM CopiesOnce == Spec => []OneCopyEach
<1>1. IInv => OneCopyEach
  BY DEF IInv
<1> QED
  BY <1>1, SmtpInv, PTL

\* Copies and relayed mail come from recipients the client named for this
\* very message.
THEOREM RecipientsNamed == Spec => []OnlyNamedRecipients
<1>1. ASSUME IInv PROVE OnlyNamedRecipients
  <2>1. ASSUME NEW t \in Try, NEW c \in CopiesOf(t), c.step # "sent" PROVE c.via[2] \in Meant(t)
    <3>1. PICK e \in box : e[1] = t /\ e[2] = c
      BY DEF CopiesOf
    <3> QED
      BY <1>1, <2>1, <3>1 DEF IInv, StoredOK, CopyOK
  <2>2. ASSUME NEW t \in Try, NEW a \in Addr, relay[<<t, a>>] # "none" PROVE a \in Meant(t)
    BY <1>1, <2>2 DEF IInv, RelayedOK
  <2> QED
    BY <2>1, <2>2 DEF OnlyNamedRecipients, Meant
<1> QED
  BY <1>1, SmtpInv, PTL

\* Only accounts relay, only to other servers, and only what is in Sent.
THEOREM RelayForUsers == Spec => []NoOpenRelay
<1>1. ASSUME IInv PROVE NoOpenRelay
  <2> SUFFICES ASSUME NEW t \in Try, NEW a \in Addr, relay[<<t, a>>] # "none"
               PROVE  /\ author[t][1] \in user /\ DomainOf[a] \notin Served
                      /\ \E c \in CopiesOf(t) : c.folder = "Sent"
    BY DEF NoOpenRelay
  <2>1. sort[t] = "outbound" /\ <<t, SentOf(t)>> \in box /\ DomainOf[a] \notin Served
    BY <1>1 DEF IInv, RelayedOK
  <2>2. SentOf(t) \in CopiesOf(t) /\ SentOf(t).folder = "Sent"
    BY <2>1 DEF CopiesOf, SentOf
  <2> QED
    BY <1>1, <2>1, <2>2 DEF IInv, OutboundByUser
<1> QED
  BY <1>1, SmtpInv, PTL

\* What is quarantined comes into an INBOX through a mailing list only.
THEOREM QuarantineKept == Spec => []QuarantineHolds
<1>1. ASSUME IInv PROVE QuarantineHolds
  <2> SUFFICES ASSUME NEW t \in Try, junk[t], NEW c \in CopiesOf(t), c.folder = "INBOX"
               PROVE  c.step = "list"
    BY DEF QuarantineHolds
  <2>1. PICK e \in box : e[1] = t /\ e[2] = c
    BY DEF CopiesOf
  <2> QED
    BY <1>1, <2>1 DEF IInv, StoredOK, CopyOK
<1> QED
  BY <1>1, SmtpInv, PTL
=============================================================================
