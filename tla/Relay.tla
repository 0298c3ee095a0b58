------------------------------- MODULE Relay --------------------------------
(***************************************************************************)
(* Outbound delivery: internal/smtp/relay.go with the MTA-STS cache, DANE  *)
(* and the TLS reports of internal/security (mtasts.go, dane.go,           *)
(* tlsrpt.go).  Sends are goroutines; they share the policy cache and the  *)
(* TLS events, which the reporter collects and mails with sends of its     *)
(* own.  A host name is the sequence of its labels.                        *)
(***************************************************************************)
EXTENDS Naturals, Sequences, FiniteSets

CONSTANTS User, Report,    \* sends of user mail, and of the reporter
          Domain, NoDomain,
          Mail,            \* what user mail asks: [to, requireTLS]
          MxOf(_),         \* the MX lists DNS may answer with
          PolicyOf(_),     \* the policy texts a domain may publish
          RuaOf(_),        \* where a domain wants its TLS reports, or ""
          RelayHost,       \* the external relay, used when it is configured
          Attempts, DefaultAge, MaxClock, None

Send == User \cup Report

ASSUME RelayAssumption ==
  /\ Attempts \in Nat \ {0} /\ DefaultAge \in Nat /\ MaxClock \in Nat
  /\ User \cap Report = {} /\ NoDomain \notin Domain
  /\ \A m \in Mail : m.to \subseteq Domain \cup {NoDomain} /\ m.requireTLS \in BOOLEAN
  /\ \A d \in Domain : RuaOf(d) \subseteq Domain \cup {""}

VARIABLES external,    \* an external relay is configured
          phase,       \* per send: where its goroutine is
          to,          \* per send: the domains of its recipients
          requireTLS,  \* per send: the option WithRequireTLS
          todo,        \* per send: domains Send has still to go through
          domain,      \* per send: the domain it is at
          hosts,       \* per send: the hosts it has left there
          tries,       \* per send: attempts at the first of them
          policy,      \* per send: the MTA-STS policy it goes by
          secure,      \* per send: its connection speaks TLS
          cache,       \* MTA-STS policies by domain, with the time of fetching
          clock,
          events,      \* TLS results by domain since the last report
          batch,       \* the events the reporter is going through
          reporting,   \* the send the reporter waits for
          bound,       \* (history) per send: the fresh policy the cache held when asked
          arrived,     \* (history) per send: domains that have taken the message
          copies,      \* (history) per send: copies this domain has taken, less
                       \* the answers that were lost after it did
          unreported   \* (history) results recorded and in no report yet

place == <<to, requireTLS, todo, domain, hosts, tries, policy, secure>>
tlsVars == <<events, batch, reporting, unreported>>
history == <<bound, arrived, copies>>
relayVars == <<external, phase, place, cache, clock, tlsVars, history>>

-----------------------------------------------------------------------------
(* MTA-STS and DANE                                                        *)

\* The texts are lists of <<key, value>>; a max_age that is no number leaves
\* the default, of repeated keys the last one counts, "mx" adds up.
Values(text, key) == {i \in DOMAIN text : text[i][1] = key}
LastOf(text, key, default) ==
  IF Values(text, key) = {} THEN default
  ELSE text[CHOOSE i \in Values(text, key) : \A j \in Values(text, key) : j <= i][2]
parseMTASTSPolicy(text) ==
  IF \/ \E i \in Values(text, "version") : text[i][2] # "STSv1"
     \/ Values(text, "mode") = {}
  THEN None
  ELSE [mode |-> LastOf(text, "mode", ""), mx |-> {text[i][2] : i \in Values(text, "mx")},
        age |-> LastOf(text, "max_age", DefaultAge)]

\* "*" stands for exactly one label.
matchMXPattern(pattern, host) ==
  pattern = host \/ (pattern[1] = "*" /\ Tail(pattern) = Tail(host))
ValidateMX(p, host) == \E pattern \in p.mx : matchMXPattern(pattern, host)
Enforcing(p) == p # None /\ p.mode = "enforce"

Fresh(d) == cache[d] # None /\ clock < cache[d].at + cache[d].policy.age

\* A failing lookup counts as no TLSA record, and so does one DNSSEC has not
\* validated.
TLSAResult == {[has |-> FALSE, valid |-> FALSE, match |-> FALSE]} \cup
              [has : {TRUE}, valid : BOOLEAN, match : BOOLEAN]
VerifyCert(r) == r.has /\ r.valid => r.match

-----------------------------------------------------------------------------

Zero == [d \in Domain |-> 0]
RelayInit ==
  /\ external \in BOOLEAN
  /\ phase = [s \in Send |-> "new"]
  /\ to = [s \in Send |-> {}]
  /\ requireTLS = [s \in Send |-> FALSE]
  /\ todo = [s \in Send |-> {}]
  /\ domain = [s \in Send |-> NoDomain]
  /\ hosts = [s \in Send |-> <<>>]
  /\ tries = [s \in Send |-> 0]
  /\ policy = [s \in Send |-> None]
  /\ secure = [s \in Send |-> FALSE]
  /\ cache = [d \in Domain |-> None]
  /\ clock = 0
  /\ events = Zero /\ batch = Zero /\ unreported = Zero
  /\ reporting = None
  /\ bound = [s \in Send |-> None]
  /\ arrived = [s \in Send |-> {}]
  /\ copies = [s \in Send |-> 0]

Goes(s, p) == phase' = [phase EXCEPT ![s] = p]
At(s, p) == phase[s] = p

\* Send groups the recipients by domain; those without one fall out.  The
\* external relay gets the whole message in one piece, without the option.
Begins(s, D, need) ==
  /\ At(s, "new")
  /\ to' = [to EXCEPT ![s] = D]
  /\ requireTLS' = [requireTLS EXCEPT ![s] = need]
  /\ todo' = [todo EXCEPT ![s] = IF external THEN {} ELSE D \ {NoDomain}]
  /\ hosts' = [hosts EXCEPT ![s] = IF external THEN <<RelayHost>> ELSE <<>>]
  /\ Goes(s, IF external THEN "dial" ELSE "next")
SendMail(s) ==
  /\ s \in User
  /\ \E m \in Mail : Begins(s, m.to, m.requireTLS)
  /\ UNCHANGED <<external, domain, tries, policy, secure, cache, clock, tlsVars, history>>

\* The domains come in any order; the MX lookup falls back to the domain.
sendToDomain(s) ==
  /\ At(s, "next") /\ todo[s] # {}
  /\ \E d \in todo[s] :
       /\ domain' = [domain EXCEPT ![s] = d]
       /\ todo' = [todo EXCEPT ![s] = @ \ {d}]
       /\ \E list \in MxOf(d) : hosts' = [hosts EXCEPT ![s] = IF list = <<>> THEN <<<<d>>>> ELSE list]
  /\ Goes(s, "policy")
  /\ copies' = [copies EXCEPT ![s] = 0]
  /\ UNCHANGED <<external, to, requireTLS, tries, policy, secure, cache, clock, tlsVars,
                 bound, arrived>>
SendDone(s) ==
  /\ At(s, "next") /\ todo[s] = {}
  /\ Goes(s, "ok")
  /\ UNCHANGED <<external, place, cache, clock, tlsVars, history>>

\* GetPolicy reads the cache under one lock, fetches without any, and
\* stores under another; an error means no policy.
GetPolicy(s) ==
  /\ At(s, "policy")
  /\ policy' = [policy EXCEPT ![s] = IF Fresh(domain[s]) THEN cache[domain[s]].policy ELSE None]
  /\ bound' = [bound EXCEPT ![s] = policy'[s]]
  /\ Goes(s, IF Fresh(domain[s]) THEN "host" ELSE "fetch")
  /\ UNCHANGED <<external, to, requireTLS, todo, domain, hosts, tries, secure, cache, clock,
                 tlsVars, arrived, copies>>
FetchPolicy(s) ==
  /\ At(s, "fetch")
  /\ \E text \in PolicyOf(domain[s]) \cup {None} :
       LET p == IF text = None THEN None ELSE parseMTASTSPolicy(text)
       IN /\ policy' = [policy EXCEPT ![s] = p]
          /\ cache' = IF p = None THEN cache
                      ELSE [cache EXCEPT ![domain[s]] = [policy |-> p, at |-> clock]]
  /\ Goes(s, "host")
  /\ UNCHANGED <<external, to, requireTLS, todo, domain, hosts, tries, secure, clock,
                 tlsVars, history>>

\* The loop over the hosts: one an enforcing policy does not list is skipped.
NextHost(s) ==
  /\ At(s, "host") /\ hosts[s] # <<>>
  /\ IF Enforcing(policy[s]) /\ ~ValidateMX(policy[s], Head(hosts[s]))
     THEN hosts' = [hosts EXCEPT ![s] = Tail(@)] /\ UNCHANGED phase
     ELSE Goes(s, "dial") /\ UNCHANGED hosts
  /\ UNCHANGED <<external, to, requireTLS, todo, domain, tries, policy, secure, cache, clock,
                 tlsVars, history>>
NoHostLeftFaulty(s) ==   \* Fault: without a last error the loop returns nil
  /\ At(s, "host") /\ hosts[s] = <<>>
  /\ Goes(s, "next")
  /\ UNCHANGED <<external, place, cache, clock, tlsVars, history>>
\* The first domain that fails ends the whole send.
NoHostLeft(s) ==
  /\ At(s, "host") /\ hosts[s] = <<>>
  /\ Goes(s, "error")
  /\ UNCHANGED <<external, place, cache, clock, tlsVars, history>>

RetryFaulty(s) ==   \* Fault: one attempt too many
  LET again == tries[s] < Attempts
  IN /\ tries' = [tries EXCEPT ![s] = IF again THEN @ + 1 ELSE 0]
     /\ hosts' = [hosts EXCEPT ![s] = IF again THEN @ ELSE Tail(@)]
     /\ secure' = [secure EXCEPT ![s] = FALSE]
     /\ Goes(s, IF again THEN "dial" ELSE "host")
     /\ UNCHANGED <<external, to, requireTLS, todo, domain, policy, cache, clock>>
\* An attempt that returned an error: again, or on to the next host.
Retry(s) ==
  LET again == tries[s] + 1 < Attempts
  IN /\ tries' = [tries EXCEPT ![s] = IF again THEN @ + 1 ELSE 0]
     /\ hosts' = [hosts EXCEPT ![s] = IF again THEN @ ELSE Tail(@)]
     /\ secure' = [secure EXCEPT ![s] = FALSE]
     /\ Goes(s, IF again THEN "dial" ELSE "host")
     /\ UNCHANGED <<external, to, requireTLS, todo, domain, policy, cache, clock>>

\* RecordSuccess and RecordFailure; the external relay is not recorded.
Record(d) == /\ events' = [events EXCEPT ![d] = @ + 1]
             /\ unreported' = [unreported EXCEPT ![d] = @ + 1]
             /\ UNCHANGED <<batch, reporting>>

\* No connection, no greeting or a refused EHLO.
DialFails(s) == At(s, "dial") /\ Retry(s) /\ UNCHANGED <<tlsVars, history>>

MustTLS(s) == ~external /\ (requireTLS[s] \/ Enforcing(policy[s]))
Proceed(s, tls) == /\ secure' = [secure EXCEPT ![s] = tls]
                   /\ Goes(s, "mail")
                   /\ UNCHANGED <<external, to, requireTLS, todo, domain, hosts, tries, policy,
                                  cache, clock>>
\* The server does not offer STARTTLS.
NoStartTLS(s) ==
  /\ At(s, "dial")
  /\ IF MustTLS(s) THEN Record(domain[s]) /\ Retry(s)
                   ELSE Proceed(s, FALSE) /\ UNCHANGED tlsVars
  /\ UNCHANGED history
\* The handshake fails: recorded either way, and only fatal where required.
StartTLSFailsFaulty(s) ==   \* Fault: goes on in the clear where TLS is required
  /\ At(s, "dial") /\ ~external
  /\ Record(domain[s])
  /\ Proceed(s, FALSE)
  /\ UNCHANGED history
StartTLSFails(s) ==
  /\ At(s, "dial") /\ ~external
  /\ Record(domain[s])
  /\ IF MustTLS(s) THEN Retry(s) ELSE Proceed(s, FALSE)
  /\ UNCHANGED history
\* net/smtp.SendMail gives up when the handshake with the external relay fails.
ExternalTLSFails(s) ==
  At(s, "dial") /\ external /\ Retry(s) /\ UNCHANGED <<tlsVars, history>>
StartTLS(s) ==
  /\ At(s, "dial")
  /\ \E r \in TLSAResult :
       IF external \/ VerifyCert(r) THEN Proceed(s, TRUE) /\ UNCHANGED tlsVars
                                    ELSE Record(domain[s]) /\ Retry(s)
  /\ UNCHANGED history

\* MAIL, one of the RCPTs, DATA or the text itself is refused.
Refused(s) == At(s, "mail") /\ Retry(s) /\ UNCHANGED <<tlsVars, history>>

Takes(s) == /\ arrived' = [arrived EXCEPT
                 ![s] = @ \cup (IF external THEN to[s] \ {NoDomain} ELSE {domain[s]})]
            /\ UNCHANGED bound
\* The server takes the message and its answer is lost.
AnswerLost(s) == /\ At(s, "mail") /\ Takes(s) /\ Retry(s)
                 /\ UNCHANGED <<copies, tlsVars>>
Accepted(s) ==
  /\ At(s, "mail") /\ Takes(s)
  /\ copies' = [copies EXCEPT ![s] = @ + 1]
  /\ IF secure[s] /\ ~external THEN Record(domain[s]) ELSE UNCHANGED tlsVars
  /\ Goes(s, "quit")
  /\ UNCHANGED <<external, place, cache, clock>>
\* The answer to QUIT decides what tryRelay returns.
QuitFails(s) == /\ At(s, "quit") /\ Retry(s)
                /\ copies' = [copies EXCEPT ![s] = @ - 1]
                /\ UNCHANGED <<tlsVars, bound, arrived>>
QuitFaulty(s) ==   \* Fault: the loop over the attempts goes on after a success
  At(s, "quit") /\ Retry(s) /\ UNCHANGED <<tlsVars, history>>
Quit(s) ==
  /\ At(s, "quit")
  /\ tries' = [tries EXCEPT ![s] = 0]
  /\ secure' = [secure EXCEPT ![s] = FALSE]
  /\ hosts' = [hosts EXCEPT ![s] = <<>>]
  /\ Goes(s, "next")
  /\ UNCHANGED <<external, to, requireTLS, todo, domain, policy, cache, clock, tlsVars, history>>

tryRelay(s) == \/ DialFails(s) \/ NoStartTLS(s) \/ StartTLSFails(s) \/ ExternalTLSFails(s)
               \/ StartTLS(s) \/ Refused(s) \/ AnswerLost(s) \/ Accepted(s)
               \/ QuitFails(s) \/ Quit(s)

-----------------------------------------------------------------------------
(* The reporter: one goroutine, woken by its ticker                        *)

Pending == {d \in Domain : batch[d] > 0}
Idle == reporting = None /\ Pending = {}
Unused == {q \in Report : phase[q] = "new"}
others == <<external, place, cache, clock, history>>

SwapEventsFaulty ==   \* Fault: the events are read first and cleared at the end
  /\ Idle /\ Cardinality(Unused) >= Cardinality({d \in Domain : events[d] > 0})
  /\ batch' = events
  /\ UNCHANGED <<events, reporting, unreported, phase, others>>
\* Under one lock.  (The bound: there are sends left for the reports.)
SwapEvents ==
  /\ Idle /\ Cardinality(Unused) >= Cardinality({d \in Domain : events[d] > 0})
  /\ batch' = events
  /\ events' = Zero
  /\ UNCHANGED <<reporting, unreported, phase, others>>
Dropped(d) == /\ batch' = [batch EXCEPT ![d] = 0]
              /\ unreported' = [unreported EXCEPT ![d] = @ - batch[d]]
              /\ UNCHANGED events
\* A domain that names no address gets no report; its events are gone.
NoReportAddress ==
  /\ reporting = None
  /\ \E d \in Pending : "" \in RuaOf(d) /\ Dropped(d)
  /\ UNCHANGED <<reporting, phase, others>>
SendReport ==
  /\ reporting = None
  /\ \E d \in Pending, q \in Unused : \E rua \in RuaOf(d) \ {""} :
       /\ Begins(q, {rua}, FALSE)
       /\ Dropped(d)
       /\ reporting' = q
  /\ UNCHANGED <<external, domain, tries, policy, secure, cache, clock, history>>
\* Whether the report was delivered makes no difference.
ReportSent ==
  /\ reporting # None /\ phase[reporting] \in {"ok", "error"}
  /\ reporting' = None
  /\ UNCHANGED <<events, batch, unreported, phase, others>>
generateAndSendReports == SwapEvents \/ NoReportAddress \/ SendReport \/ ReportSent

Hour == /\ clock < MaxClock /\ clock' = clock + 1
        /\ UNCHANGED <<external, phase, place, cache, tlsVars, history>>

RelayNext ==
  \/ \E s \in Send : \/ SendMail(s) \/ sendToDomain(s) \/ SendDone(s) \/ GetPolicy(s)
                     \/ FetchPolicy(s) \/ NextHost(s) \/ NoHostLeft(s) \/ tryRelay(s)
  \/ generateAndSendReports
  \/ Hour

RelaySpec == RelayInit /\ [][RelayNext]_relayVars

-----------------------------------------------------------------------------
(* Properties                                                              *)

RelayTypeOK ==
  /\ phase \in [Send -> {"new", "next", "policy", "fetch", "host", "dial", "mail", "quit",
                         "ok", "error"}]
  /\ to \in [Send -> SUBSET (Domain \cup {NoDomain})]
  /\ todo \in [Send -> SUBSET Domain]
  /\ domain \in [Send -> Domain \cup {NoDomain}]
  /\ tries \in [Send -> 0..Attempts-1]
  /\ secure \in [Send -> BOOLEAN]
  /\ reporting \in Report \cup {None}
  /\ \A s \in Send : At(s, "dial") => hosts[s] # <<>>

\* A message that must go over TLS, because its sender asked for it or the
\* cache held an unexpired enforcing policy when the send asked, is never on
\* a connection in the clear; under such a policy it goes to hosts the policy
\* lists only.  (The external relay is not told about either.)
ProtectedInTransit ==
  \A s \in Send : phase[s] \in {"mail", "quit"} /\ ~external =>
    /\ requireTLS[s] \/ Enforcing(bound[s]) => secure[s]
    /\ Enforcing(bound[s]) => ValidateMX(bound[s], Head(hosts[s]))

\* A domain takes a message again only after an answer was lost: no success
\* is followed by another attempt, another host or another round.
CopiesNeedDoubt == \A s \in Send : copies[s] <= 1

\* Every recorded TLS result is waiting, being reported or was in exactly one
\* report (or dropped with it), however recording, swap and sends interleave.
EventsCountedOnce ==
  \A d \in Domain : unreported[d] = events[d] + batch[d]

\* Send keeps the promise its callers go by.
Outcome(p) == IF p \in {"new", "ok", "error"} THEN p ELSE "pending"
Promise == INSTANCE Courier WITH result <- [s \in Send |-> Outcome(phase[s])]
KeepsPromise == Promise!Spec
=============================================================================
