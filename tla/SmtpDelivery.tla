---------------------------- MODULE SmtpDelivery ----------------------------
(***************************************************************************)
(* The SMTP server (internal/smtp/backend.go): sessions that authenticate, *)
(* name an envelope and send a message, and the DATA handler, which saves  *)
(* one copy after another and relays the rest.  Saves of different         *)
(* sessions interleave; any save or lookup may fail; the connection may    *)
(* die before the answer arrives and the process at any step, after which  *)
(* the client sends the message again.  Administrators rest meanwhile: the *)
(* tables of Directory do not change.                                      *)
(***************************************************************************)
EXTENDS Directory, FiniteSets

CONSTANTS Session, Msg,
          Tables,     \* contents of the tables of Directory to start from
          Header,     \* the To and Cc fields messages come with
          Sender,     \* addresses clients give in MAIL FROM
          Recipient,  \* addresses they give in RCPT TO
          Served,     \* domains of cfg.Domains
          MaxTries,   \* bound: how often a message is sent
          Fragile,    \* addresses and domains whose lookups may fail
          Nobody

ASSUME SmtpAssumption == /\ \A d \in Tables :
                              /\ d.users \subseteq Addr
                              /\ d.aliases \in [Addr \cup Domain -> SUBSET Addr]
                              /\ d.lists \subseteq List
                              /\ d.members \in [List -> SUBSET Addr]
                         /\ Header \subseteq [to : SUBSET Addr, cc : SUBSET Addr]
                         /\ Sender \cup Recipient \subseteq Addr
                         /\ Served \subseteq Domain
                         /\ MaxTries \in Nat
                         /\ Fragile \subseteq Addr \cup Domain
                         /\ Nobody \notin Addr

Try == Msg \X (1..MaxTries)       \* the DATA commands clients give
Field == {"from", "to", "cc", "bcc"}
Folder == {"INBOX", "Junk", "Sent", "filed"}
Step == {"sent", "list", "copy"}  \* the order in which the handler saves
\* A copy of a message: why it is saved, for which address, for whom, where.
Copy == [step : Step, via : Field \X Addr, owner : Addr, folder : Folder]

VARIABLES
  header,   \* To and Cc of each message
  phase,    \* per session: what it is doing, or the answer DATA is to give
  login,    \* Session.user, Nobody while authed is false
  from,     \* Session.from
  env,      \* Session.to
  job,      \* the DATA command being handled
  work,     \* copies not saved yet
  box,      \* the mailboxes: which copies of which DATA command they hold
  relay,    \* what became of an address handed to Relay.Send
  tries,    \* DATA commands given for each message
  said, named, author, sort, junk, missed, blind, answer  \* history, below

sessionVars == <<phase, login, from, env, job, work, said>>
logVars == <<tries, named, author, sort, junk>>
vars == <<dirVars, header, sessionVars, box, relay, logVars, missed, blind, answer>>

\* said[s]: recipients the client named since its last MAIL.  Of each DATA
\* command: named, its recipients; author, who had logged in and the MAIL
\* FROM; sort, which path the handler took; junk, whether it was quarantined;
\* missed, owners whose filter or database refused the copy; blind, whether a
\* lookup failed; answer, what the client got to read.
NoTry == <<"none", 0>>

TypeOK ==
  /\ DirTypeOK
  /\ header \in [Msg -> Header]
  /\ phase \in [Session -> {"ready", "mail", "save", "ok", "failed", "refused"}]
  /\ login \in [Session -> Addr \cup {Nobody}]
  /\ from \in [Session -> Sender \cup {Nobody}]
  /\ env \in [Session -> SUBSET Addr]
  /\ job \in [Session -> Try \cup {NoTry}]
  /\ work \in [Session -> SUBSET Copy]
  /\ box \subseteq Try \X Copy
  /\ relay \in [Try \X Addr -> {"none", "queued", "sent", "lost"}]
  /\ tries \in [Msg -> 0..MaxTries]
  /\ said \in [Session -> SUBSET Addr]
  /\ named \in [Try -> SUBSET Addr]
  /\ author \in [Try -> (Addr \cup {Nobody}) \X (Addr \cup {Nobody})]
  /\ sort \in [Try -> {"none", "refused", "outbound", "inbound", "raw"}]
  /\ junk \in [Try -> BOOLEAN]
  /\ missed \in [Try -> SUBSET Addr]
  /\ blind \in [Try -> BOOLEAN]
  /\ answer \in [Try -> {"none", "ok", "failed", "refused"}]

SmtpInit ==
  /\ header \in [Msg -> Header]
  /\ phase = [s \in Session |-> "ready"]
  /\ login = [s \in Session |-> Nobody]
  /\ from = [s \in Session |-> Nobody]
  /\ env = [s \in Session |-> {}]
  /\ job = [s \in Session |-> NoTry]
  /\ work = [s \in Session |-> {}]
  /\ box = {}
  /\ relay = [r \in Try \X Addr |-> "none"]
  /\ tries = [m \in Msg |-> 0]
  /\ said = [s \in Session |-> {}]
  /\ named = [t \in Try |-> {}]
  /\ author = [t \in Try |-> <<Nobody, Nobody>>]
  /\ sort = [t \in Try |-> "none"]
  /\ junk = [t \in Try |-> FALSE]
  /\ missed = [t \in Try |-> {}]
  /\ blind = [t \in Try |-> FALSE]
  /\ answer = [t \in Try |-> "none"]

-----------------------------------------------------------------------------
(* Commands                                                                *)

\* Fault: the halves of SplitEmail are swapped.
AuthPlainFaulty(s, u) ==
  /\ phase[s] = "ready" /\ login[s] = Nobody
  /\ \E m \in Msg : tries[m] < MaxTries
  /\ u \in user
  /\ login' = [login EXCEPT ![s] = DomainOf[u]]
  /\ UNCHANGED <<dirVars, header, phase, from, env, job, work, said, box, relay,
                 logVars, missed, blind, answer>>

\* A refused login changes nothing here; RateLimiter counts it.
AuthPlain(s, u) ==
  /\ phase[s] = "ready" /\ login[s] = Nobody
  /\ \E m \in Msg : tries[m] < MaxTries
  /\ u \in user
  /\ login' = [login EXCEPT ![s] = u]
  /\ UNCHANGED <<dirVars, header, phase, from, env, job, work, said, box, relay,
                 logVars, missed, blind, answer>>

\* A client with nothing left to send stays silent (the bound MaxTries).
Mail(s, a) ==
  /\ phase[s] = "ready"
  /\ \E m \in Msg : tries[m] < MaxTries
  /\ phase' = [phase EXCEPT ![s] = "mail"]
  /\ from' = [from EXCEPT ![s] = a]
  /\ said' = [said EXCEPT ![s] = {}]
  /\ UNCHANGED <<dirVars, header, login, env, job, work, box, relay, logVars,
                 missed, blind, answer>>

\* Any recipient is taken, local or not, and without asking the directory.
Rcpt(s, a) ==
  /\ phase[s] = "mail"
  /\ env' = [env EXCEPT ![s] = @ \cup {a}]
  /\ said' = [said EXCEPT ![s] = @ \cup {a}]
  /\ UNCHANGED <<dirVars, header, phase, login, from, job, work, box, relay,
                 logVars, missed, blind, answer>>

ResetFaulty(s) == /\ from' = [from EXCEPT ![s] = Nobody]     \* fault: recipients stay
                  /\ UNCHANGED env

\* Called on RSET, and by the protocol library once DATA is answered.
Reset(s) == /\ from' = [from EXCEPT ![s] = Nobody]
            /\ env' = [env EXCEPT ![s] = {}]

Rset(s) ==
  /\ phase[s] = "mail"
  /\ Reset(s)
  /\ phase' = [phase EXCEPT ![s] = "ready"]
  /\ UNCHANGED <<dirVars, header, login, job, work, said, box, relay, logVars,
                 missed, blind, answer>>

-----------------------------------------------------------------------------
(* Data                                                                    *)

\* parseHeaderAddrs and collectBCC: without a To field the envelope stands in
\* for it; recipients only the envelope names are Bcc.
Mentions(h, rcpts) ==
  LET to == IF h.to = {} THEN rcpts ELSE h.to
  IN ({"to"} \X to) \cup ({"cc"} \X h.cc) \cup ({"bcc"} \X (rcpts \ (to \cup h.cc)))

\* Fault: the folder is not passed on.
ResolvedFaulty(mentions, failed, folder) ==
  UNION {{[step |-> "copy", via |-> mn, owner |-> a, folder |-> "INBOX"] :
            a \in ResolveDespite(failed, mn[2])} : mn \in mentions}

\* collectLocalRecipients, and the recipient loop of handleInbound.
Resolved(mentions, failed, folder) ==
  UNION {{[step |-> "copy", via |-> mn, owner |-> a, folder |-> folder] :
            a \in ResolveDespite(failed, mn[2])} : mn \in mentions}

\* DistributeToList for every mention of a list: its members except the
\* author and those without an account, always into INBOX.
Distributed(mentions, a) ==
  UNION {{[step |-> "list", via |-> mn, owner |-> b, folder |-> "INBOX"] :
            b \in (member[mn[2]] \ {a}) \cap user} : mn \in mentions}

SentCopy(s) == [step |-> "sent", via |-> <<"from", login[s]>>,
                owner |-> login[s], folder |-> "Sent"]

\* What every DATA command for message m starts with.
Handle(s, m, how, quarantine, copies, next) ==
  LET t == <<m, tries[m] + 1>> IN
  /\ phase[s] = "mail" /\ env[s] # {} /\ tries[m] < MaxTries
  /\ tries' = [tries EXCEPT ![m] = @ + 1]
  /\ job' = [job EXCEPT ![s] = t]
  /\ work' = [work EXCEPT ![s] = copies]
  /\ phase' = [phase EXCEPT ![s] = next]
  /\ named' = [named EXCEPT ![t] = said[s]]
  /\ author' = [author EXCEPT ![t] = <<login[s], from[s]>>]
  /\ sort' = [sort EXCEPT ![t] = how]
  /\ junk' = [junk EXCEPT ![t] = quarantine]
  /\ UNCHANGED <<dirVars, header, login, from, env, said, box, relay, missed, answer>>

Blind(m, failed) == blind' = [blind EXCEPT ![<<m, tries[m] + 1>>] = (failed # {})]

\* At most one key fails in each handler.
Failure == {{}} \cup {{key} : key \in Fragile}

\* 552 for a large attachment, 550 by CheckOutbound or CheckInbound.
DataRefused(s, m) == /\ Handle(s, m, "refused", FALSE, {}, "refused")
                     /\ UNCHANGED blind

\* storeRaw: what cannot be parsed goes to the local part of the envelope.
DataRaw(s, m) ==
  \E failed \in Failure :
    /\ Handle(s, m, "raw", FALSE, Resolved({"to"} \X env[s], failed, "INBOX"), "save")
    /\ Blind(m, failed)

DataOutbound(s, m) ==
  /\ login[s] # Nobody
  /\ \E failed \in Failure :
       /\ Handle(s, m, "outbound", FALSE,
                 {SentCopy(s)} \cup Resolved(Mentions(header[m], env[s]), failed, "INBOX"),
                 "save")
       /\ Blind(m, failed)

\* A list whose members or row cannot be read is skipped, and its address is
\* removed from the recipients all the same; a list IsMailingList cannot look
\* up is taken for an ordinary address.
DataInbound(s, m) ==
  /\ login[s] = Nobody
  /\ LET mentions == Mentions(header[m], env[s])
     IN \E failed \in Failure, quarantine \in BOOLEAN :
        \E lists \in {list, list \ failed} :
        LET toLists == {mn \in mentions : mn[2] \in lists} IN
          /\ Handle(s, m, "inbound", quarantine,
                    Distributed({mn \in toLists : mn[2] \notin failed}, from[s])
                      \cup Resolved(mentions \ toLists, failed,
                                    IF quarantine THEN "Junk" ELSE "INBOX"),
                    "save")
          /\ Blind(m, failed)

-----------------------------------------------------------------------------
(* The saves of the handler                                                *)

\* Copies the handler may turn to now: Sent, then lists, then the others.
Turn(s) == {c \in work[s] : \A d \in work[s] :
              \/ c.step = d.step \/ c.step = "sent"
              \/ c.step = "list" /\ d.step = "copy"}

WithoutFaulty(s, c) == work[s] \ {c}                        \* fault: no delivered map
WithoutShared(s, c) == {d \in work[s] : d.owner # c.owner}  \* fault: one for all steps

\* delivered, resp. seen: one copy for a mailbox several mentions lead to.
Without(s, c) == {d \in work[s] : ~(d.step = c.step /\ d.owner = c.owner
                                      /\ (d.step = "copy" \/ d.via = c.via))}

\* Where the owner's filters put the copy: they are asked for inbound mail
\* only, and not for what comes through a list.
Filtered(s, c) == IF c.step = "copy" /\ sort[job[s]] = "inbound"
                  THEN {c, [c EXCEPT !.folder = "filed"]} ELSE {c}

\* saveAndDeliver, as far as mailboxes go.
Save(s) ==
  /\ phase[s] = "save"
  /\ \E c \in Turn(s) :
       /\ work' = [work EXCEPT ![s] = Without(s, c)]
       /\ \E saved \in Filtered(s, c) : box' = box \cup {<<job[s], saved>>}
  /\ UNCHANGED <<dirVars, header, phase, login, from, env, job, said, relay,
                 logVars, missed, blind, answer>>

\* handleInbound and DistributeToList go on after a failed save; a filter
\* that deletes the message has the same effect on the mailbox.
SkipCopy(s) ==
  /\ phase[s] = "save" /\ sort[job[s]] = "inbound"
  /\ \E c \in Turn(s) :
       /\ work' = [work EXCEPT ![s] = Without(s, c)]
       /\ missed' = [missed EXCEPT ![job[s]] = @ \cup {c.owner}]
  /\ UNCHANGED <<dirVars, header, phase, login, from, env, job, said, box, relay,
                 logVars, blind, answer>>

\* Fault: the error is lost on the way to the client.
SaveFailsFaulty(s) ==
  /\ phase[s] = "save" /\ sort[job[s]] # "inbound" /\ work[s] # {}
  /\ work' = [work EXCEPT ![s] = {}]
  /\ phase' = [phase EXCEPT ![s] = "ok"]
  /\ UNCHANGED <<dirVars, header, login, from, env, job, said, box, relay,
                 logVars, missed, blind, answer>>

\* SaveOutgoingMail and SaveIncomingMail return the first error: the rest is
\* not saved, what has been saved stays, and the client is told to try again.
SaveFails(s) ==
  /\ phase[s] = "save" /\ sort[job[s]] # "inbound" /\ work[s] # {}
  /\ work' = [work EXCEPT ![s] = {}]
  /\ phase' = [phase EXCEPT ![s] = "failed"]
  /\ UNCHANGED <<dirVars, header, login, from, env, job, said, box, relay,
                 logVars, missed, blind, answer>>

External(mentions) == {mn[2] : mn \in {mn \in mentions : DomainOf[mn[2]] \notin Served}}

\* Fault: mail from outside is relayed as well.
DoneFaulty(s) ==
  /\ phase[s] = "save" /\ work[s] = {}
  /\ phase' = [phase EXCEPT ![s] = "ok"]
  /\ relay' = LET out == External(Mentions(header[job[s][1]], env[s]))
              IN [r \in Try \X Addr |-> IF r[1] = job[s] /\ r[2] \in out
                                        THEN "queued" ELSE relay[r]]
  /\ UNCHANGED <<dirVars, header, login, from, env, job, work, said, box,
                 logVars, missed, blind, answer>>

\* All saved: only now is the relay started, in a goroutine of its own.
Done(s) ==
  /\ phase[s] = "save" /\ work[s] = {}
  /\ phase' = [phase EXCEPT ![s] = "ok"]
  /\ relay' = IF sort[job[s]] # "outbound" THEN relay
              ELSE LET out == External(Mentions(header[job[s][1]], env[s]))
                   IN [r \in Try \X Addr |-> IF r[1] = job[s] /\ r[2] \in out
                                             THEN "queued" ELSE relay[r]]
  /\ UNCHANGED <<dirVars, header, login, from, env, job, work, said, box,
                 logVars, missed, blind, answer>>

Answer(s) ==
  /\ phase[s] \in {"ok", "failed", "refused"}
  /\ answer' = [answer EXCEPT ![job[s]] = phase[s]]
  /\ phase' = [phase EXCEPT ![s] = "ready"]
  /\ job' = [job EXCEPT ![s] = NoTry]
  /\ Reset(s)
  /\ UNCHANGED <<dirVars, header, login, work, said, box, relay, logVars, missed, blind>>

-----------------------------------------------------------------------------

\* Relay.Send (module of its own) delivers an address or gives up on it; no
\* queue outlives the goroutine.
RelayEnds(r) ==
  /\ relay[r] = "queued"
  /\ \E end \in {"sent", "lost"} : relay' = [relay EXCEPT ![r] = end]
  /\ UNCHANGED <<dirVars, header, sessionVars, box, logVars, missed, blind, answer>>

Forget(S) == /\ phase' = [s \in Session |-> IF s \in S THEN "ready" ELSE phase[s]]
             /\ login' = [s \in Session |-> IF s \in S THEN Nobody ELSE login[s]]
             /\ from' = [s \in Session |-> IF s \in S THEN Nobody ELSE from[s]]
             /\ env' = [s \in Session |-> IF s \in S THEN {} ELSE env[s]]
             /\ job' = [s \in Session |-> IF s \in S THEN NoTry ELSE job[s]]
             /\ work' = [s \in Session |-> IF s \in S THEN {} ELSE work[s]]
             /\ said' = [s \in Session |-> IF s \in S THEN {} ELSE said[s]]
             /\ UNCHANGED <<dirVars, header, box, logVars, missed, blind, answer>>

\* A handler that is saving goes on; its answer then finds no connection.
Disconnect(s) == phase[s] # "save" /\ Forget({s}) /\ UNCHANGED relay

Crash == /\ Forget(Session)
         /\ relay' = [r \in Try \X Addr |-> IF relay[r] = "queued" THEN "lost" ELSE relay[r]]

Data(s, m) == \/ DataRefused(s, m) \/ DataRaw(s, m)
              \/ DataOutbound(s, m) \/ DataInbound(s, m)

Next == \/ \E s \in Session :
             \/ \E u \in user : AuthPlain(s, u)
             \/ \E a \in Sender : Mail(s, a)
             \/ \E a \in Recipient : Rcpt(s, a)
             \/ Rset(s)
             \/ \E m \in Msg : Data(s, m)
             \/ Save(s) \/ SkipCopy(s) \/ SaveFails(s) \/ Done(s)
             \/ Answer(s) \/ Disconnect(s)
        \/ \E r \in Try \X Addr : RelayEnds(r)
        \/ Crash

Init == /\ SmtpInit
        /\ \E d \in Tables : /\ user = d.users /\ alias = d.aliases
                             /\ list = d.lists /\ member = d.members
        /\ dropping = {} /\ stray = [l \in List |-> {}]

Spec == Init /\ [][Next]_vars

-----------------------------------------------------------------------------
(* Properties                                                              *)

MentionsOf(t) == IF sort[t] = "raw" THEN {"to"} \X named[t]
                 ELSE Mentions(header[t[1]], named[t])
CopiesOf(t) == {c[2] : c \in {c \in box : c[1] = t}}
Has(t, a) == \E c \in CopiesOf(t) : c.step = "copy" /\ c.owner = a

\* A client that had logged in and got to read 250 has its message filed
\* under Sent, delivered to every account the recipients lead to, and every
\* recipient of another server in the hands of the relay.
AcceptedOutboundKept ==
  \A t \in Try : answer[t] = "ok" /\ sort[t] = "outbound" =>
    /\ \E c \in CopiesOf(t) : c.folder = "Sent" /\ c.owner = author[t][1]
    /\ \A mn \in MentionsOf(t) :
         /\ ~blind[t] => \A a \in ResolveRecipient(mn[2]) : Has(t, a)
         /\ DomainOf[mn[2]] \notin Served => relay[<<t, mn[2]>>] # "none"

\* Mail from outside that was answered with 250 is in the mailbox of every
\* account it leads to, list members included, unless a lookup failed, or
\* that owner's filter or database refused the copy.
AcceptedInboundKept ==
  \A t \in Try : answer[t] = "ok" /\ sort[t] = "inbound" /\ ~blind[t] =>
    \A mn \in MentionsOf(t) :
      IF mn[2] \in list
      THEN \A a \in (member[mn[2]] \cap user) \ {author[t][2]} :
             a \in missed[t] \/ \E c \in CopiesOf(t) : c.owner = a /\ c.via = mn
      ELSE \A a \in ResolveRecipient(mn[2]) : a \in missed[t] \/ Has(t, a)

\* However many recipients lead to a mailbox, one DATA command puts one copy
\* into it, not counting the sender's own and those that lists distribute.
OneCopyEach ==
  \A t \in Try : \A c, d \in CopiesOf(t) :
    (c.step = "copy" /\ d.step = "copy" /\ c.owner = d.owner) => c = d

\* Nothing a client named in an earlier transaction of the connection leaks
\* into this one: copies and relayed mail come from recipients it named since
\* its last MAIL, or from the header of this very message.
OnlyNamedRecipients ==
  \A t \in Try :
    LET meant == named[t] \cup header[t[1]].to \cup header[t[1]].cc IN
    /\ \A c \in CopiesOf(t) : c.step # "sent" => c.via[2] \in meant
    /\ \A a \in Addr : relay[<<t, a>>] # "none" => a \in meant

\* The server relays for accounts of its own only, only what it does not
\* serve itself, and never before the message is in the Sent folder.
NoOpenRelay ==
  \A t \in Try, a \in Addr : relay[<<t, a>>] # "none" =>
    /\ author[t][1] \in user /\ DomainOf[a] \notin Served
    /\ \E c \in CopiesOf(t) : c.folder = "Sent"

\* A quarantined message reaches an INBOX through a mailing list only.
QuarantineHolds ==
  \A t \in Try : junk[t] =>
    \A c \in CopiesOf(t) : c.folder = "INBOX" => c.step = "list"

\* README.md on lists: mail accepted for a mailing list reaches its members.
ListsDistribute ==
  \A t \in Try : answer[t] = "ok" /\ sort[t] # "raw" /\ ~blind[t] =>
    \A mn \in MentionsOf(t) : mn[2] \in list =>
      \A a \in (member[mn[2]] \cap user) \ {author[t][1], author[t][2]} :
        a \in missed[t] \/ \E c \in CopiesOf(t) : c.owner = a

\* README.md on aliases: mail for an alias is forwarded to each of its targets.
AliasesForward ==
  \A t \in Try : answer[t] = "ok" /\ ~blind[t] =>
    \A mn \in MentionsOf(t) : mn[2] \notin list =>
      \A a \in alias[mn[2]] : DomainOf[a] \notin Served =>
        relay[<<t, a>>] # "none" \/ Has(t, a)
=============================================================================
