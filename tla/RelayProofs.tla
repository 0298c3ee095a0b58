----------------------------- MODULE RelayProofs -----------------------------
(***************************************************************************)
(* What the relay, the automatic replies and the limiter of the logins     *)
(* promise.  Relay: Courier's promise, one copy per success, protection in *)
(* transit and exact TLS reports, for every number of sends, domains,      *)
(* hosts and attempts and whatever DNS and the policies say.  AutoReply:   *)
(* a second reply within the cooldown needs a race or a lost record, for   *)
(* every number of people, letters, jobs and faults.  RateLimiter: the     *)
(* bound on wrong passwords between two lockouts.  Last, the three side by *)
(* side, as MCRelay runs them.                                             *)
(***************************************************************************)
EXTENDS MCRelay, Integers, FiniteSetTheorems, TLAPS

-----------------------------------------------------------------------------
(* The relay                                                               *)

Phase == {"new", "next", "policy", "fetch", "host", "dial", "mail", "quit", "ok", "error"}
\* A send is busy with a domain, or with the external relay.
Trying == {"policy", "fetch", "host", "dial", "mail"}
Wanted(s) == to[s] \ {NoDomain}
AtHand(s) ==
  IF phase[s] \notin Trying THEN {} ELSE IF external THEN Wanted(s) ELSE {domain[s]}

PlaceType ==
  /\ external \in BOOLEAN
  /\ phase \in [Send -> Phase]
  /\ to \in [Send -> SUBSET (Domain \cup {NoDomain})]
  /\ requireTLS \in [Send -> BOOLEAN]
  /\ todo \in [Send -> SUBSET Domain]
  /\ domain \in [Send -> Domain \cup {NoDomain}]
  /\ hosts = [s \in Send |-> hosts[s]]
  /\ policy = [s \in Send |-> policy[s]]
  /\ secure \in [Send -> BOOLEAN]
  /\ bound = [s \in Send |-> bound[s]]
  /\ arrived \in [Send -> SUBSET Domain]
  /\ copies \in [Send -> Int]
EventsType == /\ events \in [Domain -> Nat]
              /\ batch \in [Domain -> Nat]
              /\ unreported \in [Domain -> Int]

\* Every domain has taken the message, is still to come or is at hand.
Travels(s) ==
  /\ todo[s] \subseteq Wanted(s) /\ arrived[s] \subseteq Wanted(s)
  /\ phase[s] = "new" => arrived[s] = {}
  /\ phase[s] \in Trying \cup {"quit"} /\ ~external => domain[s] \in Wanted(s)
  /\ phase[s] \notin {"new", "error"} => Wanted(s) \subseteq arrived[s] \cup todo[s] \cup AtHand(s)

\* No attempt is made at a domain that has taken the message and said so.
Counts(s) == copies[s] <= (IF phase[s] \in Trying \cup {"new"} THEN 0 ELSE 1)

\* The policy the cache held is the one the send goes by; hosts are dialed only
\* if it lists them, and mail is spoken only on a connection it allows.
Guarded(s) ==
  ~external =>
    /\ phase[s] = "fetch" => bound[s] = None
    /\ phase[s] \in {"host", "dial", "mail", "quit"} /\ bound[s] # None => policy[s] = bound[s]
    /\ phase[s] \in {"dial", "mail", "quit"} /\ Enforcing(policy[s])
         => ValidateMX(policy[s], Head(hosts[s]))
    /\ phase[s] \in {"mail", "quit"} /\ MustTLS(s) => secure[s]

SendInv == /\ PlaceType /\ EventsType /\ EventsCountedOnce
        /\ \A s \in Send : Travels(s) /\ Counts(s) /\ Guarded(s)

\* A step of one send leaves the others where they are.
OthersRest(s) ==
  /\ external' = external
  /\ \A t \in Send \ {s} :
       /\ phase'[t] = phase[t] /\ to'[t] = to[t] /\ requireTLS'[t] = requireTLS[t]
       /\ todo'[t] = todo[t] /\ domain'[t] = domain[t] /\ hosts'[t] = hosts[t]
       /\ policy'[t] = policy[t] /\ secure'[t] = secure[t] /\ bound'[t] = bound[t]
       /\ arrived'[t] = arrived[t] /\ copies'[t] = copies[t]

\* The invariant of a send depends on nothing but its own part of the state.
LEMMA OneSendMoves ==
  ASSUME SendInv, NEW s \in Send, OthersRest(s), PlaceType', EventsType', EventsCountedOnce',
         Travels(s)', Counts(s)', Guarded(s)'
  PROVE  SendInv'
<1>1. ASSUME NEW t \in Send, t # s PROVE Travels(t)' /\ Counts(t)' /\ Guarded(t)'
  <2>1. Travels(t) /\ Counts(t) /\ Guarded(t)
    BY DEF SendInv
  <2>2. /\ external' = external /\ phase'[t] = phase[t] /\ to'[t] = to[t]
        /\ requireTLS'[t] = requireTLS[t] /\ todo'[t] = todo[t] /\ domain'[t] = domain[t]
        /\ hosts'[t] = hosts[t] /\ policy'[t] = policy[t] /\ secure'[t] = secure[t]
        /\ bound'[t] = bound[t] /\ arrived'[t] = arrived[t] /\ copies'[t] = copies[t]
    BY <1>1 DEF OthersRest
  <2>3. Travels(t)'
    BY <2>1, <2>2 DEF Travels, Wanted, AtHand
  <2>4. Counts(t)'
    BY <2>1, <2>2 DEF Counts
  <2>5. Guarded(t)'
    BY <2>1, <2>2 DEF Guarded, MustTLS, Enforcing, ValidateMX
  <2> QED
    BY <2>3, <2>4, <2>5
<1> QED
  BY <1>1 DEF SendInv

\* Recorded results enter both counts.
LEMMA RecordCounts ==
  ASSUME EventsType, EventsCountedOnce, NEW d \in Domain, Record(d) \/ UNCHANGED tlsVars
  PROVE  EventsType' /\ EventsCountedOnce'
<1>1. CASE Record(d)
  <2>1. EventsType'
    BY <1>1 DEF Record, EventsType
  <2>2. ASSUME NEW x \in Domain PROVE unreported'[x] = events'[x] + batch'[x]
    <3>1. unreported[x] = events[x] + batch[x]
      BY DEF EventsCountedOnce
    <3>2. CASE x = d
      BY <1>1, <3>1, <3>2 DEF Record, EventsType
    <3>3. CASE x # d
      BY <1>1, <3>1, <3>3 DEF Record, EventsType
    <3> QED
      BY <3>2, <3>3
  <2> QED
    BY <2>1, <2>2 DEF EventsCountedOnce
<1>2. CASE UNCHANGED tlsVars
  BY <1>2 DEF tlsVars, EventsType, EventsCountedOnce
<1> QED
  BY <1>1, <1>2

LEMMA TLSUnchanged ==
  ASSUME SendInv, UNCHANGED tlsVars
  PROVE  EventsType' /\ EventsCountedOnce'
BY DEF SendInv, tlsVars, EventsType, EventsCountedOnce

-----------------------------------------------------------------------------
(* The steps of a send                                                     *)

\* A send begins, with domains that exist.
LEMMA BeginsPreserves ==
  ASSUME SendInv, NEW s \in Send, NEW D \in SUBSET (Domain \cup {NoDomain}), NEW need \in BOOLEAN,
         Begins(s, D, need), EventsType', EventsCountedOnce',
         UNCHANGED <<external, domain, policy, secure, history>>
  PROVE  SendInv'
<1>0. PlaceType /\ Travels(s) /\ Counts(s) /\ phase[s] = "new"
  BY DEF SendInv, Begins, At
<1>1. PlaceType'
  BY <1>0, RelayAssumption DEF PlaceType, Begins, Goes, Phase, history
<1>2. OthersRest(s)
  BY <1>0 DEF OthersRest, PlaceType, Begins, Goes, history
<1>3. /\ external' = external /\ to'[s] = D /\ arrived'[s] = {} /\ copies'[s] = copies[s]
      /\ todo'[s] = IF external THEN {} ELSE D \ {NoDomain}
      /\ phase'[s] = IF external THEN "dial" ELSE "next"
  BY <1>0 DEF PlaceType, Begins, Goes, history, Travels
<1>4. Travels(s)'
  BY <1>3 DEF Travels, Wanted, AtHand, Trying
<1>5. Counts(s)' /\ Guarded(s)'
  BY <1>0, <1>1, <1>3 DEF Counts, Guarded, Trying, PlaceType
<1> QED
  BY <1>1, <1>2, <1>4, <1>5, OneSendMoves

LEMMA SendToDomainPreserves ==
  ASSUME SendInv, NEW s \in Send, sendToDomain(s)
  PROVE  SendInv'
<1>0. /\ PlaceType /\ Travels(s) /\ phase[s] = "next"
      /\ UNCHANGED <<external, to, requireTLS, policy, secure, tlsVars, bound, arrived>>
      /\ phase' = [phase EXCEPT ![s] = "policy"] /\ copies' = [copies EXCEPT ![s] = 0]
  BY DEF SendInv, sendToDomain, At, Goes
<1>1. PICK d \in todo[s] : /\ domain' = [domain EXCEPT ![s] = d]
                           /\ todo' = [todo EXCEPT ![s] = @ \ {d}]
                           /\ \E found : hosts' = [hosts EXCEPT ![s] = found]
  BY DEF sendToDomain
<1>2. PlaceType'
  <2>1. d \in Domain
    BY <1>0 DEF PlaceType
  <2>2. hosts' = [t \in Send |-> hosts'[t]]
    BY <1>0, <1>1 DEF PlaceType
  <2> QED
    BY <1>0, <1>1, <2>1, <2>2 DEF PlaceType, Phase
<1>3. OthersRest(s)
  BY <1>0, <1>1 DEF OthersRest, PlaceType
<1>4. /\ external' = external /\ to'[s] = to[s] /\ arrived'[s] = arrived[s] /\ copies'[s] = 0
      /\ phase'[s] = "policy" /\ domain'[s] = d /\ todo'[s] = todo[s] \ {d}
  BY <1>0, <1>1 DEF PlaceType
<1>5. Travels(s)'
  BY <1>0, <1>4 DEF Travels, Wanted, AtHand, Trying
<1>6. Counts(s)' /\ Guarded(s)'
  BY <1>4 DEF Counts, Guarded, Trying
<1> QED
  BY <1>0, <1>2, <1>3, <1>5, <1>6, OneSendMoves, TLSUnchanged

\* All domains are through, or one has failed.
LEMMA EndsPreserves ==
  ASSUME SendInv, NEW s \in Send, SendDone(s) \/ NoHostLeft(s)
  PROVE  SendInv'
<1>0. /\ PlaceType /\ Travels(s) /\ Counts(s)
      /\ UNCHANGED <<external, place, history, tlsVars>>
      /\ \/ Goes(s, "ok") /\ phase[s] = "next"
         \/ Goes(s, "error") /\ phase[s] = "host"
  BY DEF SendInv, SendDone, NoHostLeft, At
<1>1. PlaceType' /\ OthersRest(s)
  BY <1>0 DEF PlaceType, OthersRest, Goes, Phase, place, history
<1>2. /\ external' = external /\ to' = to /\ arrived' = arrived /\ copies' = copies
      /\ domain' = domain /\ todo' = todo
  BY <1>0 DEF place, history
<1>3. \/ phase'[s] = "ok" /\ phase[s] = "next"
      \/ phase'[s] = "error" /\ phase[s] = "host"
  BY <1>0 DEF PlaceType, Goes
<1>4. Travels(s)'
  BY <1>0, <1>2, <1>3 DEF Travels, Wanted, AtHand, Trying
<1>5. Counts(s)'
  BY <1>0, <1>2, <1>3 DEF Counts, Trying, PlaceType
<1>6. Guarded(s)'
  BY <1>3 DEF Guarded
<1> QED
  BY <1>0, <1>1, <1>4, <1>5, <1>6, OneSendMoves, TLSUnchanged

\* A fresh policy is taken from the cache, or one is fetched.
LEMMA PolicyPreserves ==
  ASSUME SendInv, NEW s \in Send, GetPolicy(s) \/ FetchPolicy(s)
  PROVE  SendInv'
<1>0. PlaceType /\ Travels(s) /\ Counts(s) /\ Guarded(s)
  BY DEF SendInv
<1>1. /\ UNCHANGED <<external, to, requireTLS, todo, domain, hosts, secure, tlsVars, arrived, copies>>
      /\ phase[s] \in {"policy", "fetch"}
      /\ \E q \in {"host", "fetch"} : phase' = [phase EXCEPT ![s] = q]
  BY DEF GetPolicy, FetchPolicy, At, Goes, history
<1>2. /\ \E q : policy' = [policy EXCEPT ![s] = q]
      /\ \E b : bound' = [bound EXCEPT ![s] = b]
  <2>1. CASE GetPolicy(s)
    BY <2>1 DEF GetPolicy
  <2>2. CASE FetchPolicy(s)
    <3>1. bound' = [bound EXCEPT ![s] = bound[s]]
      BY <1>0, <2>2 DEF FetchPolicy, history, PlaceType
    <3> QED
      BY <2>2, <3>1 DEF FetchPolicy
  <2> QED
    BY <2>1, <2>2
<1>3. PlaceType' /\ OthersRest(s)
  BY <1>0, <1>1, <1>2 DEF PlaceType, OthersRest, Phase
<1>4. phase'[s] \in {"host", "fetch"}
  BY <1>0, <1>1 DEF PlaceType
<1>5. Travels(s)'
  BY <1>0, <1>1, <1>4 DEF Travels, Wanted, AtHand, Trying
<1>6. Counts(s)'
  BY <1>0, <1>1, <1>4 DEF Counts, Trying
<1>7. Guarded(s)'
  <2>1. CASE GetPolicy(s)
    <3>1. /\ policy'[s] = bound'[s]
          /\ phase'[s] = "fetch" => bound'[s] = None
      BY <1>0, <2>1 DEF GetPolicy, Goes, PlaceType
    <3> QED
      BY <1>4, <3>1 DEF Guarded
  <2>2. CASE FetchPolicy(s)
    <3>1. ~external => bound'[s] = None
      BY <1>0, <2>2 DEF FetchPolicy, Guarded, At, history
    <3>2. phase'[s] = "host" /\ external' = external
      BY <1>0, <2>2 DEF FetchPolicy, Goes, PlaceType
    <3> QED
      BY <3>1, <3>2 DEF Guarded
  <2> QED
    BY <2>1, <2>2
<1> QED
  BY <1>1, <1>3, <1>5, <1>6, <1>7, OneSendMoves, TLSUnchanged

\* A host is skipped, or dialed because the policy lists it or does not bind.
LEMMA NextHostPreserves ==
  ASSUME SendInv, NEW s \in Send, NextHost(s)
  PROVE  SendInv'
<1>0. PlaceType /\ Travels(s) /\ Counts(s) /\ Guarded(s) /\ phase[s] = "host"
  BY DEF SendInv, NextHost, At
<1>1. /\ UNCHANGED <<external, to, requireTLS, todo, domain, policy, secure, tlsVars, bound,
                     arrived, copies>>
      /\ \/ UNCHANGED phase /\ hosts' = [hosts EXCEPT ![s] = Tail(@)]
         \/ /\ ~(Enforcing(policy[s]) /\ ~ValidateMX(policy[s], Head(hosts[s])))
            /\ phase' = [phase EXCEPT ![s] = "dial"] /\ UNCHANGED hosts
  BY DEF NextHost, Goes, history
<1>2. PlaceType' /\ OthersRest(s)
  BY <1>0, <1>1 DEF PlaceType, OthersRest, Phase
<1>3. phase'[s] \in {"host", "dial"}
  BY <1>0, <1>1 DEF PlaceType
<1>4. Travels(s)'
  BY <1>0, <1>1, <1>3 DEF Travels, Wanted, AtHand, Trying
<1>5. Counts(s)'
  BY <1>0, <1>1, <1>3 DEF Counts, Trying
<1>6. Guarded(s)'
  <2>1. ~external /\ bound[s] # None => policy[s] = bound[s]
    BY <1>0 DEF Guarded
  <2>2. phase'[s] = "dial" /\ Enforcing(policy[s]) => ValidateMX(policy[s], Head(hosts'[s]))
    BY <1>0, <1>1 DEF PlaceType
  <2> QED
    BY <1>1, <1>3, <2>1, <2>2 DEF Guarded, Enforcing, ValidateMX
<1> QED
  BY <1>1, <1>2, <1>4, <1>5, <1>6, OneSendMoves, TLSUnchanged

\* An attempt fails: the send stays at its domain, or at the external relay,
\* with the policy it goes by.
LEMMA RetryPreserves ==
  ASSUME SendInv, NEW s \in Send, phase[s] \in {"dial", "mail", "quit"}, Retry(s),
         EventsType', EventsCountedOnce', bound' = bound,
         arrived' \in [Send -> SUBSET Domain], copies' \in [Send -> Int],
         \A t \in Send \ {s} : arrived'[t] = arrived[t] /\ copies'[t] = copies[t],
         arrived[s] \subseteq arrived'[s], arrived'[s] \subseteq Wanted(s), copies'[s] <= 0
  PROVE  SendInv'
<1>0. PlaceType /\ Travels(s) /\ Guarded(s)
  BY DEF SendInv
<1>1. /\ UNCHANGED <<external, to, requireTLS, todo, domain, policy>>
      /\ secure' = [secure EXCEPT ![s] = FALSE]
      /\ \/ phase' = [phase EXCEPT ![s] = "dial"] /\ hosts' = [hosts EXCEPT ![s] = hosts[s]]
         \/ phase' = [phase EXCEPT ![s] = "host"] /\ hosts' = [hosts EXCEPT ![s] = Tail(hosts[s])]
  BY DEF Retry, Goes
<1>2. PlaceType' /\ OthersRest(s)
  BY <1>0, <1>1 DEF PlaceType, OthersRest, Phase
<1>3. \/ phase'[s] = "dial" /\ hosts'[s] = hosts[s]
      \/ phase'[s] = "host"
  BY <1>0, <1>1 DEF PlaceType
<1>4. Travels(s)'
  <2>1. AtHand(s) \subseteq AtHand(s)'
    BY <1>1, <1>3 DEF AtHand, Trying, Wanted
  <2>2. Wanted(s)' = Wanted(s)
    BY <1>1 DEF Wanted
  <2> QED
    BY <1>0, <1>1, <1>3, <2>1, <2>2 DEF Travels, Trying
<1>5. Counts(s)'
  BY <1>3 DEF Counts, Trying
<1>6. Guarded(s)'
  BY <1>0, <1>1, <1>3 DEF Guarded, Enforcing, ValidateMX
<1> QED
  BY <1>2, <1>4, <1>5, <1>6, OneSendMoves

\* An attempt that fails before the message is taken.
LEMMA NothingTakenPreserves ==
  ASSUME SendInv, NEW s \in Send, phase[s] \in {"dial", "mail"}, Retry(s),
         EventsType', EventsCountedOnce', UNCHANGED history
  PROVE  SendInv'
<1>1. PlaceType /\ Travels(s) /\ Counts(s)
  BY DEF SendInv
<1>2. copies[s] <= 0
  BY <1>1 DEF Counts, Trying
<1> QED
  BY <1>1, <1>2, RetryPreserves DEF history, PlaceType, Travels

\* The connection is good enough for the policy: mail is spoken.
LEMMA ProceedPreserves ==
  ASSUME SendInv, NEW s \in Send, phase[s] = "dial", NEW tls \in BOOLEAN, Proceed(s, tls),
         MustTLS(s) => tls, EventsType', EventsCountedOnce', UNCHANGED history
  PROVE  SendInv'
<1>0. PlaceType /\ Travels(s) /\ Counts(s) /\ Guarded(s)
  BY DEF SendInv
<1>1. /\ UNCHANGED <<external, to, requireTLS, todo, domain, hosts, policy, bound, arrived, copies>>
      /\ secure' = [secure EXCEPT ![s] = tls] /\ phase' = [phase EXCEPT ![s] = "mail"]
  BY DEF Proceed, Goes, history
<1>2. PlaceType' /\ OthersRest(s)
  BY <1>0, <1>1 DEF PlaceType, OthersRest, Phase
<1>3. phase'[s] = "mail" /\ secure'[s] = tls
  BY <1>0, <1>1 DEF PlaceType
<1>4. Travels(s)'
  BY <1>0, <1>1, <1>3 DEF Travels, Wanted, AtHand, Trying
<1>5. Counts(s)'
  BY <1>0, <1>1, <1>3 DEF Counts, Trying
<1>6. Guarded(s)'
  BY <1>0, <1>1, <1>3 DEF Guarded, MustTLS, Enforcing, ValidateMX
<1> QED
  BY <1>2, <1>4, <1>5, <1>6, OneSendMoves

\* The six outcomes of dialing.
LEMMA DialPreserves ==
  ASSUME SendInv, NEW s \in Send,
         DialFails(s) \/ NoStartTLS(s) \/ StartTLSFails(s) \/ ExternalTLSFails(s) \/ StartTLS(s)
  PROVE  SendInv'
<1>0. /\ PlaceType /\ Travels(s) /\ EventsType /\ EventsCountedOnce
      /\ phase[s] = "dial" /\ UNCHANGED history
  BY DEF SendInv, DialFails, NoStartTLS, StartTLSFails, ExternalTLSFails, StartTLS, At
<1>1. ~external => domain[s] \in Domain
  BY <1>0 DEF PlaceType, Travels, Wanted, Trying
<1>2. MustTLS(s) => ~external
  BY DEF MustTLS
<1>3. CASE DialFails(s) \/ ExternalTLSFails(s)
  BY <1>0, <1>3, NothingTakenPreserves, TLSUnchanged DEF DialFails, ExternalTLSFails
<1>4. CASE NoStartTLS(s)
  <2>1. CASE MustTLS(s)
    <3>1. Record(domain[s]) /\ Retry(s)
      BY <1>4, <2>1 DEF NoStartTLS
    <3> QED
      BY <1>0, <1>1, <1>2, <2>1, <3>1, RecordCounts, NothingTakenPreserves
  <2>2. CASE ~MustTLS(s)
    <3>1. Proceed(s, FALSE) /\ UNCHANGED tlsVars
      BY <1>4, <2>2 DEF NoStartTLS
    <3> QED
      BY <1>0, <2>2, <3>1, TLSUnchanged, ProceedPreserves
  <2> QED
    BY <2>1, <2>2
<1>5. CASE StartTLSFails(s)
  <2>1. EventsType' /\ EventsCountedOnce'
    BY <1>0, <1>1, <1>5, RecordCounts DEF StartTLSFails
  <2>2. CASE MustTLS(s)
    BY <1>0, <1>5, <2>1, <2>2, NothingTakenPreserves DEF StartTLSFails
  <2>3. CASE ~MustTLS(s)
    BY <1>0, <1>5, <2>1, <2>3, ProceedPreserves DEF StartTLSFails
  <2> QED
    BY <2>2, <2>3
<1>6. CASE StartTLS(s)
  <2>1. CASE Proceed(s, TRUE) /\ UNCHANGED tlsVars
    BY <1>0, <2>1, TLSUnchanged, ProceedPreserves
  <2>2. CASE ~external /\ Record(domain[s]) /\ Retry(s)
    BY <1>0, <1>1, <2>2, RecordCounts, NothingTakenPreserves
  <2> QED
    BY <1>6, <2>1, <2>2 DEF StartTLS
<1> QED
  BY <1>3, <1>4, <1>5, <1>6

\* The domain takes the message, or nearly.
LEMMA MailPreserves ==
  ASSUME SendInv, NEW s \in Send, Refused(s) \/ AnswerLost(s) \/ Accepted(s)
  PROVE  SendInv'
<1>0. /\ PlaceType /\ Travels(s) /\ Counts(s) /\ Guarded(s) /\ EventsType /\ EventsCountedOnce
      /\ phase[s] = "mail"
  BY DEF SendInv, Refused, AnswerLost, Accepted, At
<1>1. CASE Refused(s)
  BY <1>0, <1>1, NothingTakenPreserves, TLSUnchanged DEF Refused
<1>2. DEFINE D == IF external THEN Wanted(s) ELSE {domain[s]}
<1>3. D \subseteq Wanted(s) /\ D \subseteq Domain /\ Wanted(s) \subseteq Domain
  BY <1>0 DEF Travels, Wanted, Trying, PlaceType
<1>4. Takes(s) => arrived' = [arrived EXCEPT ![s] = @ \cup D] /\ bound' = bound
  BY DEF Takes, Wanted
<1>5. ASSUME Takes(s)
      PROVE  /\ arrived' \in [Send -> SUBSET Domain] /\ arrived'[s] = arrived[s] \cup D
             /\ \A t \in Send \ {s} : arrived'[t] = arrived[t]
  <2> HIDE DEF D
  <2> QED
    BY <1>0, <1>3, <1>4, <1>5 DEF PlaceType
<1>6. CASE AnswerLost(s)
  <2>1. Takes(s) /\ Retry(s) /\ UNCHANGED <<copies, tlsVars>>
    BY <1>6 DEF AnswerLost
  <2>2. copies[s] <= 0 /\ copies' \in [Send -> Int]
    BY <1>0, <2>1 DEF Counts, Trying, PlaceType
  <2>3. arrived[s] \subseteq arrived'[s] /\ arrived'[s] \subseteq Wanted(s) /\ bound' = bound
    BY <1>0, <1>3, <1>4, <1>5, <2>1 DEF Travels
  <2> QED
    BY <1>0, <1>5, <2>1, <2>2, <2>3, TLSUnchanged, RetryPreserves
<1>7. CASE Accepted(s)
  <2>1. /\ UNCHANGED <<external, to, requireTLS, todo, domain, hosts, policy, secure>>
        /\ phase' = [phase EXCEPT ![s] = "quit"] /\ copies' = [copies EXCEPT ![s] = @ + 1]
        /\ Takes(s) /\ bound' = bound
    BY <1>4, <1>7 DEF Accepted, Goes, place
  <2>2. PlaceType' /\ OthersRest(s)
    BY <1>0, <1>5, <2>1 DEF PlaceType, OthersRest, Phase
  <2>3. phase'[s] = "quit" /\ copies'[s] = copies[s] + 1 /\ arrived'[s] = arrived[s] \cup D
    BY <1>0, <1>5, <2>1 DEF PlaceType
  <2>4. Travels(s)'
    <3>1. Wanted(s)' = Wanted(s) /\ AtHand(s) = D
      BY <1>0, <2>1 DEF Wanted, AtHand, Trying
    <3>2. Wanted(s) \subseteq arrived[s] \cup todo[s] \cup D
      BY <1>0, <3>1 DEF Travels
    <3> QED
      BY <1>0, <1>3, <2>1, <2>3, <3>1, <3>2 DEF Travels, Trying
  <2>5. Counts(s)'
    BY <1>0, <2>3 DEF Counts, Trying, PlaceType
  <2>6. Guarded(s)'
    BY <1>0, <2>1, <2>3 DEF Guarded, MustTLS, Enforcing, ValidateMX
  <2>7. EventsType' /\ EventsCountedOnce'
    <3>1. ~external => domain[s] \in Domain
      BY <1>3 DEF D
    <3>2. CASE ~external /\ Record(domain[s])
      BY <1>0, <3>1, <3>2, RecordCounts
    <3>3. CASE UNCHANGED tlsVars
      BY <3>3, TLSUnchanged
    <3> QED
      BY <1>7, <3>2, <3>3 DEF Accepted
  <2> QED
    BY <2>2, <2>4, <2>5, <2>6, <2>7, OneSendMoves
<1> QED
  BY <1>1, <1>6, <1>7

\* The answer to QUIT is lost, or the domain is done.
LEMMA QuitPreserves ==
  ASSUME SendInv, NEW s \in Send, QuitFails(s) \/ Quit(s)
  PROVE  SendInv'
<1>0. PlaceType /\ Travels(s) /\ Counts(s) /\ phase[s] = "quit" /\ UNCHANGED tlsVars
  BY DEF SendInv, QuitFails, Quit, At
<1>1. copies[s] \in Int /\ copies[s] <= 1
  BY <1>0 DEF Counts, Trying, PlaceType
<1>2. CASE QuitFails(s)
  <2>1. Retry(s) /\ copies' = [copies EXCEPT ![s] = @ - 1] /\ UNCHANGED <<bound, arrived>>
    BY <1>2 DEF QuitFails
  <2>2. /\ copies' \in [Send -> Int] /\ copies'[s] <= 0
        /\ \A t \in Send \ {s} : arrived'[t] = arrived[t] /\ copies'[t] = copies[t]
    BY <1>0, <1>1, <2>1 DEF PlaceType
  <2>3. arrived' \in [Send -> SUBSET Domain] /\ arrived'[s] \subseteq Wanted(s)
    BY <1>0, <2>1 DEF PlaceType, Travels
  <2> QED
    BY <1>0, <2>1, <2>2, <2>3, TLSUnchanged, RetryPreserves
<1>3. CASE Quit(s)
  <2>1. /\ UNCHANGED <<external, to, requireTLS, todo, domain, policy, bound, arrived, copies>>
        /\ phase' = [phase EXCEPT ![s] = "next"] /\ secure' = [secure EXCEPT ![s] = FALSE]
        /\ hosts' = [hosts EXCEPT ![s] = <<>>]
    BY <1>3 DEF Quit, Goes, history
  <2>2. PlaceType' /\ OthersRest(s) /\ phase'[s] = "next"
    BY <1>0, <2>1 DEF PlaceType, OthersRest, Phase
  <2>3. Travels(s)'
    BY <1>0, <2>1, <2>2 DEF Travels, Wanted, AtHand, Trying
  <2>4. Counts(s)' /\ Guarded(s)'
    BY <1>1, <2>1, <2>2 DEF Counts, Guarded, Trying
  <2> QED
    BY <1>0, <2>2, <2>3, <2>4, TLSUnchanged, OneSendMoves
<1> QED
  BY <1>2, <1>3

-----------------------------------------------------------------------------
(* The reporter and time                                                   *)

LEMMA SendsRestPreserves ==
  ASSUME SendInv, UNCHANGED <<external, phase, place, history>>, EventsType', EventsCountedOnce'
  PROVE  SendInv'
<1>1. PlaceType'
  BY DEF SendInv, PlaceType, place, history
<1>2. ASSUME NEW s \in Send PROVE Travels(s)' /\ Counts(s)' /\ Guarded(s)'
  <2>1. Travels(s) /\ Counts(s) /\ Guarded(s)
    BY DEF SendInv
  <2>2. Travels(s)' /\ Counts(s)'
    BY <2>1 DEF Travels, Counts, Wanted, AtHand, place, history
  <2>3. Guarded(s)'
    BY <2>1 DEF Guarded, MustTLS, Enforcing, ValidateMX, place, history
  <2> QED
    BY <2>2, <2>3
<1> QED
  BY <1>1, <1>2 DEF SendInv

\* The reporter's collection of results moves them and leaves none out.
LEMMA DroppedCounts ==
  ASSUME EventsType, EventsCountedOnce, NEW d \in Domain, Dropped(d)
  PROVE  EventsType' /\ EventsCountedOnce'
<1>1. EventsType'
  BY DEF Dropped, EventsType
<1>2. ASSUME NEW x \in Domain PROVE unreported'[x] = events'[x] + batch'[x]
  <2>1. unreported[x] = events[x] + batch[x]
    BY DEF EventsCountedOnce
  <2>2. CASE x = d
    BY <2>1, <2>2 DEF Dropped, EventsType
  <2>3. CASE x # d
    BY <2>1, <2>3 DEF Dropped, EventsType
  <2> QED
    BY <2>2, <2>3
<1> QED
  BY <1>1, <1>2 DEF EventsCountedOnce

LEMMA ReporterPreserves ==
  ASSUME SendInv, generateAndSendReports
  PROVE  SendInv'
<1>0. EventsType /\ EventsCountedOnce
  BY DEF SendInv
<1>1. CASE SwapEvents
  <2>1. EventsType'
    BY <1>0, <1>1 DEF SwapEvents, EventsType, Zero
  <2>2. ASSUME NEW x \in Domain PROVE unreported'[x] = events'[x] + batch'[x]
    <3>1. batch[x] = 0
      BY <1>0, <1>1 DEF SwapEvents, Idle, Pending, EventsType
    <3> QED
      BY <1>0, <1>1, <3>1 DEF SwapEvents, EventsType, EventsCountedOnce, Zero
  <2>3. UNCHANGED <<external, phase, place, history>>
    BY <1>1 DEF SwapEvents, others
  <2> QED
    BY <2>1, <2>2, <2>3, SendsRestPreserves DEF EventsCountedOnce
<1>2. CASE NoReportAddress
  <2>1. PICK d \in Domain : Dropped(d)
    BY <1>2 DEF NoReportAddress, Pending
  <2>2. UNCHANGED <<external, phase, place, history>>
    BY <1>2 DEF NoReportAddress, others
  <2> QED
    BY <1>0, <2>1, <2>2, DroppedCounts, SendsRestPreserves
<1>3. CASE SendReport
  <2>1. PICK d \in Pending, q \in Unused : \E rua \in RuaOf(d) \ {""} :
          Begins(q, {rua}, FALSE) /\ Dropped(d)
    BY <1>3 DEF SendReport
  <2>2. PICK rua \in RuaOf(d) \ {""} : Begins(q, {rua}, FALSE) /\ Dropped(d)
    BY <2>1
  <2>3. d \in Domain /\ q \in Send /\ {rua} \in SUBSET (Domain \cup {NoDomain})
    BY RelayAssumption DEF Pending, Unused, Send
  <2>4. UNCHANGED <<external, domain, policy, secure, history>>
    BY <1>3 DEF SendReport
  <2> QED
    BY <1>0, <2>2, <2>3, <2>4, DroppedCounts, BeginsPreserves
<1>4. CASE ReportSent
  <2>1. UNCHANGED <<external, phase, place, history>> /\ UNCHANGED <<events, batch, unreported>>
    BY <1>4 DEF ReportSent, others
  <2>2. EventsType' /\ EventsCountedOnce'
    BY <1>0, <2>1 DEF EventsType, EventsCountedOnce
  <2> QED
    BY <2>1, <2>2, SendsRestPreserves
<1> QED
  BY <1>1, <1>2, <1>3, <1>4 DEF generateAndSendReports

-----------------------------------------------------------------------------
(* The invariant                                                           *)

LEMMA RelayInitially == RelayInit => SendInv
<1> SUFFICES ASSUME RelayInit PROVE SendInv
  OBVIOUS
<1>1. PlaceType
  BY DEF RelayInit, PlaceType, Phase
<1>2. EventsType /\ EventsCountedOnce
  BY DEF RelayInit, EventsType, EventsCountedOnce, Zero
<1>3. ASSUME NEW s \in Send PROVE Travels(s) /\ Counts(s) /\ Guarded(s)
  BY DEF RelayInit, Travels, Counts, Guarded, Wanted, Trying
<1> QED
  BY <1>1, <1>2, <1>3 DEF SendInv

LEMMA RelayStep == SendInv /\ [RelayNext]_relayVars => SendInv'
<1> SUFFICES ASSUME SendInv, [RelayNext]_relayVars PROVE SendInv'
  OBVIOUS
<1>1. ASSUME NEW s \in Send, SendMail(s) PROVE SendInv'
  <2>1. PICK m \in Mail : Begins(s, m.to, m.requireTLS)
    BY <1>1 DEF SendMail
  <2>2. /\ m.to \in SUBSET (Domain \cup {NoDomain}) /\ m.requireTLS \in BOOLEAN
        /\ UNCHANGED <<external, domain, policy, secure, history>> /\ UNCHANGED tlsVars
    BY <1>1, RelayAssumption DEF SendMail
  <2> QED
    BY <2>1, <2>2, TLSUnchanged, BeginsPreserves
<1>2. ASSUME NEW s \in Send, sendToDomain(s) PROVE SendInv'
  BY <1>2, SendToDomainPreserves
<1>3. ASSUME NEW s \in Send, SendDone(s) \/ NoHostLeft(s) PROVE SendInv'
  BY <1>3, EndsPreserves
<1>4. ASSUME NEW s \in Send, GetPolicy(s) \/ FetchPolicy(s) PROVE SendInv'
  BY <1>4, PolicyPreserves
<1>5. ASSUME NEW s \in Send, NextHost(s) PROVE SendInv'
  BY <1>5, NextHostPreserves
<1>6. ASSUME NEW s \in Send, tryRelay(s) PROVE SendInv'
  BY <1>6, DialPreserves, MailPreserves, QuitPreserves DEF tryRelay
<1>7. CASE generateAndSendReports
  BY <1>7, ReporterPreserves
<1>8. CASE Hour \/ UNCHANGED relayVars
  <2>1. UNCHANGED <<external, phase, place, history, tlsVars>>
    BY <1>8 DEF Hour, relayVars
  <2> QED
    BY <2>1, TLSUnchanged, SendsRestPreserves
<1> QED
  BY <1>1, <1>2, <1>3, <1>4, <1>5, <1>6, <1>7, <1>8 DEF RelayNext

\* Whatever the sends and the reporter do between each other's steps: what a
\* send knows of its domains, its copies and its policy, and that no TLS result
\* is lost.
THEOREM RelayInv == RelaySpec => []SendInv
BY RelayInitially, RelayStep, PTL DEF RelaySpec

\* Mail that must go over TLS, because it asks for it or an enforcing policy
\* was in the cache, is spoken over TLS only, and under such a policy to listed
\* hosts only (sendToDomain, tryRelay).
THEOREM TransitProtected == RelaySpec => []ProtectedInTransit
<1>1. SendInv => ProtectedInTransit
  <2> SUFFICES ASSUME SendInv, NEW s \in Send, phase[s] \in {"mail", "quit"}, ~external
               PROVE  /\ requireTLS[s] \/ Enforcing(bound[s]) => secure[s]
                      /\ Enforcing(bound[s]) => ValidateMX(bound[s], Head(hosts[s]))
    BY DEF ProtectedInTransit
  <2>1. Guarded(s)
    BY DEF SendInv
  <2>2. Enforcing(bound[s]) => policy[s] = bound[s] /\ Enforcing(policy[s])
    BY <2>1 DEF Guarded, Enforcing
  <2>3. requireTLS[s] \/ Enforcing(bound[s]) => secure[s]
    BY <2>1, <2>2 DEF Guarded, MustTLS
  <2>4. Enforcing(bound[s]) => ValidateMX(bound[s], Head(hosts[s]))
    BY <2>1, <2>2 DEF Guarded
  <2> QED
    BY <2>3, <2>4
<1> QED
  BY <1>1, RelayInv, PTL

\* A domain takes a message twice only when the answer of the first time was
\* lost (the loops over attempts, hosts and domains end at a success).
THEOREM OneCopyPerSuccess == RelaySpec => []CopiesNeedDoubt
<1>1. SendInv => CopiesNeedDoubt
  <2> SUFFICES ASSUME SendInv, NEW s \in Send PROVE copies[s] <= 1
    BY DEF CopiesNeedDoubt
  <2>1. copies[s] \in Int /\ Counts(s)
    BY DEF SendInv, PlaceType
  <2> QED
    BY <2>1 DEF Counts
<1> QED
  BY <1>1, RelayInv, PTL

\* No TLS result is lost or reported twice between recordEvent and the swap of
\* the reporter.
THEOREM ResultsCounted == RelaySpec => []EventsCountedOnce
BY RelayInv, PTL DEF SendInv

\* Where a send is with its hosts, and for whom the reporter waits.
Connected == {"dial", "mail", "quit"}
Attempting == /\ tries \in [Send -> 0..Attempts-1]
              /\ reporting \in Report \cup {None}
              /\ \A s \in Send : phase[s] \in Connected => hosts[s] # <<>>

LEMMA FirstAttempt == Attempts \in Nat \ {0} /\ 0 \in 0..Attempts-1
<1>1. Attempts \in Nat \ {0}
  BY RelayAssumption
<1>2. QED
  BY <1>1

\* Another attempt is one of those that are left, at a host that is there.
LEMMA RetryAttempts ==
  ASSUME PlaceType, Attempting, NEW s \in Send, phase[s] \in Connected, Retry(s)
  PROVE  /\ tries' \in [Send -> 0..Attempts-1]
         /\ \A t \in Send : phase'[t] \in Connected => hosts'[t] # <<>>
<1>1. tries' \in [Send -> 0..Attempts-1]
  <2>1. PICK n \in 0..Attempts-1 : tries' = [tries EXCEPT ![s] = n]
    <3>1. tries[s] \in 0..Attempts-1 /\ tries' = [tries EXCEPT ![s] = IF tries[s] + 1 < Attempts THEN tries[s] + 1 ELSE 0]
      BY DEF Attempting, Retry
    <3>2. (IF tries[s] + 1 < Attempts THEN tries[s] + 1 ELSE 0) \in 0..Attempts-1
      BY <3>1, FirstAttempt
    <3>3. QED
      BY <3>1, <3>2
  <2>2. QED
    BY <2>1 DEF Attempting
<1>2. ASSUME NEW t \in Send, phase'[t] \in Connected PROVE hosts'[t] # <<>>
  <2>1. CASE t = s
    <3>1. tries[s] + 1 < Attempts
      BY <1>2, <2>1 DEF PlaceType, Retry, Goes, Connected
    <3>2. hosts'[s] = hosts[s]
      BY <3>1 DEF PlaceType, Retry
    <3>3. QED
      BY <2>1, <3>2 DEF Attempting
  <2>2. CASE t # s
    BY <1>2, <2>2 DEF PlaceType, Attempting, Retry, Goes
  <2>3. QED
    BY <2>1, <2>2
<1>3. QED
  BY <1>1, <1>2

\* A step that leaves the attempts alone and connects to no host that is missing.
LEMMA NoAttempt ==
  ASSUME Attempting, UNCHANGED <<tries, reporting>>,
         \A t \in Send : phase'[t] \in Connected =>
           \/ phase[t] \in Connected /\ hosts'[t] = hosts[t]
           \/ hosts'[t] # <<>>
  PROVE  Attempting'
BY DEF Attempting

LEMMA BeginsAttempts ==
  ASSUME PlaceType, Attempting, NEW s \in Send, NEW D, NEW need, Begins(s, D, need), tries' = tries
  PROVE  /\ tries' \in [Send -> 0..Attempts-1]
         /\ \A t \in Send : phase'[t] \in Connected => hosts'[t] # <<>>
<1>1. tries' \in [Send -> 0..Attempts-1]
  BY DEF Attempting
<1>2. ASSUME NEW t \in Send, phase'[t] \in Connected PROVE hosts'[t] # <<>>
  <2>1. CASE t = s
    <3>1. external
      BY <1>2, <2>1 DEF PlaceType, Begins, Goes, Connected
    <3>2. hosts'[s] = <<RelayHost>>
      BY <3>1 DEF PlaceType, Begins
    <3>3. QED
      BY <2>1, <3>2
  <2>2. CASE t # s
    BY <1>2, <2>2 DEF PlaceType, Attempting, Begins, Goes
  <2>3. QED
    BY <2>1, <2>2
<1>3. QED
  BY <1>1, <1>2

LEMMA TryAttempts ==
  ASSUME PlaceType, Attempting, NEW s \in Send, tryRelay(s)
  PROVE  Attempting'
<1>1. phase[s] \in Connected /\ reporting' = reporting
  BY DEF tryRelay, DialFails, NoStartTLS, StartTLSFails, ExternalTLSFails, StartTLS, Refused,
         AnswerLost, Accepted, QuitFails, Quit, At, Connected, tlsVars, Record
<1>2. CASE Retry(s)
  BY <1>1, <1>2, RetryAttempts DEF Attempting
<1>3. ASSUME NEW tls, Proceed(s, tls) PROVE Attempting'
  BY <1>1, <1>3, NoAttempt DEF PlaceType, Proceed, Goes
<1>4. CASE Accepted(s)
  BY <1>1, <1>4, NoAttempt DEF PlaceType, Accepted, Goes, place
<1>5. CASE Quit(s)
  <2>1. \A t \in Send : phase'[t] \in Connected => t # s /\ hosts'[t] = hosts[t] /\ phase'[t] = phase[t]
    BY <1>5 DEF PlaceType, Quit, Goes, Connected
  <2>2. tries' \in [Send -> 0..Attempts-1]
    BY <1>5, FirstAttempt DEF Attempting, Quit
  <2>3. QED
    BY <1>1, <2>1, <2>2 DEF Attempting
<1>6. QED
  BY <1>2, <1>3, <1>4, <1>5 DEF tryRelay, DialFails, NoStartTLS, StartTLSFails,
     ExternalTLSFails, StartTLS, Refused, AnswerLost, QuitFails

LEMMA AttemptsInitially == RelayInit => Attempting
<1> SUFFICES ASSUME RelayInit PROVE Attempting
  OBVIOUS
<1>1. tries = [s \in Send |-> 0] /\ reporting = None /\ \A s \in Send : phase[s] \notin Connected
  BY DEF RelayInit, Connected
<1>2. QED
  BY <1>1, FirstAttempt DEF Attempting

LEMMA AttemptsStep == PlaceType /\ Attempting /\ [RelayNext]_relayVars => Attempting'
<1> SUFFICES ASSUME PlaceType, Attempting, [RelayNext]_relayVars PROVE Attempting'
  OBVIOUS
<1>1. ASSUME NEW s \in Send, SendMail(s) PROVE Attempting'
  BY <1>1, BeginsAttempts DEF SendMail, tlsVars, Attempting
<1>2. ASSUME NEW s \in Send, sendToDomain(s) \/ SendDone(s) PROVE Attempting'
  BY <1>2, NoAttempt DEF PlaceType, sendToDomain, SendDone, Goes, Connected, tlsVars, place
<1>3. ASSUME NEW s \in Send, GetPolicy(s) \/ FetchPolicy(s) \/ NoHostLeft(s) PROVE Attempting'
  <2>1. UNCHANGED <<tries, reporting, hosts>>
    BY <1>3 DEF GetPolicy, FetchPolicy, NoHostLeft, tlsVars, place
  <2>2. PICK p \in {"host", "fetch", "error"} : phase' = [phase EXCEPT ![s] = p]
    BY <1>3 DEF GetPolicy, FetchPolicy, NoHostLeft, Goes
  <2>3. QED
    BY <2>1, <2>2, NoAttempt DEF PlaceType, Connected
<1>4. ASSUME NEW s \in Send, NextHost(s) PROVE Attempting'
  <2>1. UNCHANGED <<tries, reporting>>
    BY <1>4 DEF NextHost, tlsVars
  <2>2. CASE UNCHANGED phase
    BY <1>4, <2>1, <2>2, NoAttempt DEF PlaceType, NextHost, At, Connected, Goes
  <2>3. CASE Goes(s, "dial") /\ UNCHANGED hosts
    BY <1>4, <2>1, <2>3, NoAttempt DEF PlaceType, NextHost, Goes
  <2>4. QED
    BY <1>4, <2>2, <2>3 DEF NextHost
<1>5. ASSUME NEW s \in Send, tryRelay(s) PROVE Attempting'
  BY <1>5, TryAttempts
<1>6. CASE generateAndSendReports
  <2>1. CASE SendReport
    <3>1. PICK q, rua : /\ q \in Report /\ Begins(q, {rua}, FALSE)
                        /\ reporting' = q /\ tries' = tries
      BY <2>1 DEF SendReport, Unused
    <3>2. QED
      BY <3>1, BeginsAttempts DEF Attempting, Send
  <2>2. CASE SwapEvents \/ NoReportAddress \/ ReportSent
    BY <2>2 DEF Attempting, SwapEvents, NoReportAddress, ReportSent, others, place
  <2>3. QED
    BY <1>6, <2>1, <2>2 DEF generateAndSendReports
<1>7. CASE Hour \/ UNCHANGED relayVars
  BY <1>7 DEF Attempting, Hour, relayVars, place, tlsVars
<1>8. QED
  BY <1>1, <1>2, <1>3, <1>4, <1>5, <1>6, <1>7 DEF RelayNext

LEMMA RelayTypes == SendInv /\ Attempting => RelayTypeOK
BY DEF SendInv, PlaceType, Phase, Attempting, Connected, RelayTypeOK, At

\* Places, hosts and attempts stay within their types, and a host is there to
\* dial whenever one is dialed (sendToDomain, tryRelay).
THEOREM RelayTypeCorrect == RelaySpec => []RelayTypeOK
<1>1. RelayInit => Attempting
  BY AttemptsInitially
<1>2. SendInv => PlaceType
  BY DEF SendInv
<1>3. RelayInit => SendInv /\ Attempting
  BY <1>1, RelayInitially
<1>4. SendInv /\ Attempting /\ [RelayNext]_relayVars => SendInv' /\ Attempting'
  BY <1>2, RelayStep, AttemptsStep
<1>5. QED
  BY <1>3, <1>4, RelayTypes, PTL DEF RelaySpec

-----------------------------------------------------------------------------
(* Relay implements Courier                                                *)

Busy == Phase \ {"new", "ok", "error"}

\* Going on, on the way.
LEMMA Unseen ==
  ASSUME PlaceType, UNCHANGED <<to, arrived>>, NEW s \in Send, NEW q \in Busy,
         phase[s] \in Busy, phase' = [phase EXCEPT ![s] = q]
  PROVE  UNCHANGED Promise!courierVars
<1>1. \A t \in Send : Outcome(phase'[t]) = Outcome(phase[t])
  BY DEF PlaceType, Outcome, Busy, Phase
<1> QED
  BY <1>1 DEF Promise!courierVars

LEMMA BeginsIsBegin ==
  ASSUME PlaceType, NEW s \in Send, NEW D \in SUBSET (Domain \cup {NoDomain}), NEW need,
         Begins(s, D, need), UNCHANGED arrived
  PROVE  Promise!Begin(s)
<1>1. /\ phase[s] = "new" /\ to' = [to EXCEPT ![s] = D]
      /\ \E q \in {"dial", "next"} : phase' = [phase EXCEPT ![s] = q]
  BY DEF Begins, At, Goes
<1>2. /\ Outcome(phase[s]) = "new" /\ Outcome(phase'[s]) = "pending"
      /\ \A t \in Send \ {s} : Outcome(phase'[t]) = Outcome(phase[t])
  BY <1>1 DEF PlaceType, Outcome
<1>3. [t \in Send |-> Outcome(phase'[t])]
        = [[t \in Send |-> Outcome(phase[t])] EXCEPT ![s] = "pending"]
  BY <1>2
<1> QED
  BY <1>1, <1>2, <1>3 DEF Promise!Begin

LEMMA TakesIsDeliver ==
  ASSUME PlaceType, NEW s \in Send, Travels(s), phase[s] = "mail", Takes(s), to' = to,
         NEW q \in Busy, phase' = [phase EXCEPT ![s] = q]
  PROVE  Promise!Deliver(s)
<1>1. PICK D \in SUBSET Wanted(s) : arrived' = [arrived EXCEPT ![s] = @ \cup D]
  BY DEF Takes, Travels, Wanted, Trying
<1>2. /\ Outcome(phase[s]) = "pending"
      /\ \A t \in Send : Outcome(phase'[t]) = Outcome(phase[t])
  BY DEF PlaceType, Outcome, Busy, Phase
<1> QED
  BY <1>1, <1>2 DEF Promise!Deliver, Wanted

\* A failed attempt is seen by nobody.
LEMMA RetryUnseen ==
  ASSUME PlaceType, NEW s \in Send, phase[s] \in Busy, Retry(s), UNCHANGED arrived
  PROVE  UNCHANGED Promise!courierVars
<1>1. \E q \in {"dial", "host"} : phase' = [phase EXCEPT ![s] = q]
  BY DEF Retry, Goes
<1> QED
  BY <1>1, Unseen DEF Retry, Busy, Phase

LEMMA ProceedUnseen ==
  ASSUME PlaceType, NEW s \in Send, phase[s] \in Busy, NEW tls, Proceed(s, tls), UNCHANGED arrived
  PROVE  UNCHANGED Promise!courierVars
<1>1. phase' = [phase EXCEPT ![s] = "mail"] /\ to' = to
  BY DEF Proceed, Goes
<1> QED
  BY <1>1, Unseen DEF Busy, Phase

\* Every step of an attempt is the delivery to a domain or to all of them, or
\* nothing the caller could see.
LEMMA AttemptSimulates ==
  ASSUME SendInv, NEW s \in Send, tryRelay(s)
  PROVE  Promise!Deliver(s) \/ UNCHANGED Promise!courierVars
<1>0. PlaceType /\ Travels(s) /\ phase[s] \in {"dial", "mail", "quit"} /\ phase[s] \in Busy
  BY DEF SendInv, tryRelay, DialFails, NoStartTLS, StartTLSFails, ExternalTLSFails, StartTLS,
         Refused, AnswerLost, Accepted, QuitFails, Quit, At, Busy, Phase
<1>1. CASE DialFails(s) \/ NoStartTLS(s) \/ StartTLSFails(s) \/ ExternalTLSFails(s) \/ StartTLS(s)
  <2>1. /\ UNCHANGED arrived
        /\ Retry(s) \/ \E tls \in BOOLEAN : Proceed(s, tls)
    BY <1>1 DEF DialFails, NoStartTLS, StartTLSFails, ExternalTLSFails, StartTLS, history
  <2> QED
    BY <1>0, <2>1, RetryUnseen, ProceedUnseen
<1>2. CASE Refused(s) \/ QuitFails(s)
  <2>1. UNCHANGED arrived /\ Retry(s)
    BY <1>2 DEF Refused, QuitFails, history
  <2> QED
    BY <1>0, <2>1, RetryUnseen
<1>3. CASE AnswerLost(s)
  <2>1. /\ phase[s] = "mail" /\ Takes(s) /\ to' = to
        /\ \E q \in {"dial", "host"} : phase' = [phase EXCEPT ![s] = q]
    BY <1>3 DEF AnswerLost, At, Retry, Goes
  <2> QED
    BY <1>0, <2>1, TakesIsDeliver DEF Busy, Phase
<1>4. CASE Accepted(s)
  <2>1. phase[s] = "mail" /\ Takes(s) /\ to' = to /\ phase' = [phase EXCEPT ![s] = "quit"]
    BY <1>4 DEF Accepted, At, Goes, place
  <2> QED
    BY <1>0, <2>1, TakesIsDeliver DEF Busy, Phase
<1>5. CASE Quit(s)
  <2>1. phase' = [phase EXCEPT ![s] = "next"] /\ UNCHANGED <<to, arrived>>
    BY <1>5 DEF Quit, Goes, history
  <2> QED
    BY <1>0, <2>1, Unseen DEF Busy, Phase
<1> QED
  BY <1>1, <1>2, <1>3, <1>4, <1>5 DEF tryRelay

\* A send returns nil when no domain is left, and then every one has taken
\* the message.
LEMMA DoneSimulates ==
  ASSUME SendInv, NEW s \in Send, SendDone(s) \/ NoHostLeft(s)
  PROVE  Promise!Succeed(s) \/ Promise!Fail(s)
<1>0. PlaceType /\ Travels(s)
  BY DEF SendInv
<1>1. CASE SendDone(s)
  <2>1. /\ phase[s] = "next" /\ todo[s] = {} /\ phase' = [phase EXCEPT ![s] = "ok"]
        /\ UNCHANGED <<to, arrived>>
    BY <1>1 DEF SendDone, At, Goes, place, history
  <2>2. arrived[s] = to[s] \ {NoDomain}
    BY <1>0, <2>1 DEF Travels, Wanted, AtHand, Trying
  <2>3. [t \in Send |-> Outcome(phase'[t])]
          = [[t \in Send |-> Outcome(phase[t])] EXCEPT ![s] = "ok"]
    BY <1>0, <2>1 DEF PlaceType, Outcome
  <2>4. Outcome(phase[s]) = "pending"
    BY <2>1 DEF Outcome
  <2> QED
    BY <2>1, <2>2, <2>3, <2>4 DEF Promise!Succeed
<1>2. CASE NoHostLeft(s)
  <2>1. /\ phase[s] = "host" /\ phase' = [phase EXCEPT ![s] = "error"]
        /\ UNCHANGED <<to, arrived>>
    BY <1>2 DEF NoHostLeft, At, Goes, place, history
  <2>2. [t \in Send |-> Outcome(phase'[t])]
          = [[t \in Send |-> Outcome(phase[t])] EXCEPT ![s] = "error"]
    BY <1>0, <2>1 DEF PlaceType, Outcome
  <2>3. Outcome(phase[s]) = "pending"
    BY <2>1 DEF Outcome
  <2> QED
    BY <2>1, <2>2, <2>3 DEF Promise!Fail
<1> QED
  BY <1>1, <1>2

LEMMA StepSimulation == SendInv /\ [RelayNext]_relayVars => [Promise!Next]_(Promise!courierVars)
<1> SUFFICES ASSUME SendInv, [RelayNext]_relayVars PROVE [Promise!Next]_(Promise!courierVars)
  OBVIOUS
<1>0. PlaceType
  BY DEF SendInv
<1>1. ASSUME NEW s \in Send, SendMail(s) PROVE Promise!Begin(s)
  <2>1. PICK m \in Mail : Begins(s, m.to, m.requireTLS)
    BY <1>1 DEF SendMail
  <2>2. m.to \in SUBSET (Domain \cup {NoDomain}) /\ UNCHANGED arrived
    BY <1>1, RelayAssumption DEF SendMail, history
  <2> QED
    BY <1>0, <2>1, <2>2, BeginsIsBegin
<1>2. ASSUME NEW s \in Send, sendToDomain(s) \/ GetPolicy(s) \/ FetchPolicy(s) \/ NextHost(s)
      PROVE  UNCHANGED Promise!courierVars
  <2>1. /\ phase[s] \in Busy /\ UNCHANGED <<to, arrived>>
        /\ UNCHANGED phase \/ \E q \in Busy : phase' = [phase EXCEPT ![s] = q]
    BY <1>2 DEF sendToDomain, GetPolicy, FetchPolicy, NextHost, At, Goes, Busy, Phase, history
  <2>2. CASE UNCHANGED phase
    BY <2>1, <2>2 DEF Promise!courierVars
  <2> QED
    BY <1>0, <2>1, <2>2, Unseen
<1>3. ASSUME SendReport PROVE \E q \in Send : Promise!Begin(q)
  <2>1. PICK d \in Pending, q \in Unused : \E rua \in RuaOf(d) \ {""} : Begins(q, {rua}, FALSE)
    BY <1>3 DEF SendReport
  <2>2. PICK rua \in RuaOf(d) \ {""} : Begins(q, {rua}, FALSE)
    BY <2>1
  <2>3. q \in Send /\ {rua} \in SUBSET (Domain \cup {NoDomain})
    BY RelayAssumption DEF Pending, Unused, Send
  <2>4. UNCHANGED arrived
    BY <1>3 DEF SendReport, history
  <2> QED
    BY <1>0, <2>2, <2>3, <2>4, BeginsIsBegin
<1>4. CASE SwapEvents \/ NoReportAddress \/ ReportSent \/ Hour \/ UNCHANGED relayVars
  BY <1>4 DEF SwapEvents, NoReportAddress, ReportSent, Hour, relayVars, others, place, history,
              Promise!courierVars
<1> QED
  BY <1>1, <1>2, <1>3, <1>4, AttemptSimulates, DoneSimulates
  DEF RelayNext, generateAndSendReports, Promise!Next

\* Relay.Send keeps the promise its callers go by: nil means that every domain
\* has taken the message, an error that some may have.
THEOREM PromiseKept == RelaySpec => KeepsPromise
<1>1. RelayInit => Promise!Init
  BY DEF RelayInit, Promise!Init, Outcome
<1> QED
  BY <1>1, RelayInv, StepSimulation, PTL DEF RelaySpec, KeepsPromise, Promise!Spec

-----------------------------------------------------------------------------
(* The replies                                                             *)

\* What the variables hold.
ReplyShape ==
  /\ replies = [replies |-> replies.replies, log |-> replies.log]
  /\ \A p \in DOMAIN replies.log : replies.log[p].sent \in Nat
  /\ post \in [Pair -> Nat]
  /\ job \in [Job -> [step : {"rule", "check", "send", "record"}, me : Local, from : Person]
                       \cup {Free}]
  /\ \A j \in Job : job[j].step \in {"check", "send", "record"} => job[j].from \notin Robot
  /\ answered \in [Pair -> Nat]
  /\ \A p \in Pair : answered[p] <= time \/ answered[p] = Never
  /\ time \in Nat
  /\ unrecorded \subseteq Pair

\* A reply that went out is on record with a time no earlier than its own,
\* unless its goroutine has not come to that yet or a call of it failed.
RepliesRecorded ==
  \A p \in Pair : answered[p] <= time /\ p \notin unrecorded =>
    p \in DOMAIN replies.log /\ answered[p] <= replies.log[p].sent

ReplyInv == ReplyShape /\ ReplyTypeOK /\ RepliesRecorded /\ SecondReplyNeedsRace

\* RecordAutoReplySent writes the time of the reply for the pair and leaves the
\* rows of other pairs, and the rules, alone.
LEMMA RecordWrites ==
  ASSUME ReplyShape, NEW e, NEW sender, NEW now,
         NEW db, db = S!RecordAutoReplySent(replies, e, sender, now).db
  PROVE  /\ db = [replies |-> db.replies, log |-> db.log]
         /\ db.replies = replies.replies
         /\ DOMAIN db.log = DOMAIN replies.log \cup {<<e, sender>>}
         /\ db.log[<<e, sender>>] = [sent |-> now]
         /\ \A p \in DOMAIN replies.log : p # <<e, sender>> => db.log[p] = replies.log[p]
<1> DEFINE new == [k \in DOMAIN replies.log \cup {<<e, sender>>} |->
                     IF k = <<e, sender>> THEN [sent |-> now] ELSE replies.log[k]]
<1>1. db = [replies EXCEPT !["log"] = new]
  BY DEF S!RecordAutoReplySent, S!INSERTorUPDATE, S!Done, S!With
<1> HIDE DEF new
<1>2. db = [replies |-> replies.replies, log |-> new]
  BY <1>1 DEF ReplyShape
<1> QED
  BY <1>2 DEF new

\* The settings page changes the rule of its user and no record of a reply.
LEMMA RuleWrites ==
  ASSUME ReplyShape, NEW e \in Local, NEW db,
         \/ \E r : db = S!SetAutoReply(replies, e, r).db
         \/ db = S!DeleteAutoReply(replies, e).db
  PROVE  /\ db = [replies |-> db.replies, log |-> db.log]
         /\ db.log = replies.log
         /\ DOMAIN db.replies \subseteq DOMAIN replies.replies \cup {e}
<1>1. ASSUME NEW r, db = S!SetAutoReply(replies, e, r).db
      PROVE  /\ db = [replies |-> db.replies, log |-> db.log]
             /\ db.log = replies.log
             /\ DOMAIN db.replies \subseteq DOMAIN replies.replies \cup {e}
  <2> DEFINE new == [k \in DOMAIN replies.replies \cup {e} |->
                       IF k = e THEN [user |-> e, reply |-> r] ELSE replies.replies[k]]
  <2>1. db = [replies EXCEPT !["replies"] = new]
    BY <1>1 DEF S!SetAutoReply, S!INSERTorUPDATE, S!Done, S!With
  <2> HIDE DEF new
  <2>2. db = [replies |-> new, log |-> replies.log]
    BY <2>1 DEF ReplyShape
  <2>3. QED
    BY <2>2 DEF new
<1>2. ASSUME db = S!DeleteAutoReply(replies, e).db
      PROVE  /\ db = [replies |-> db.replies, log |-> db.log]
             /\ db.log = replies.log
             /\ DOMAIN db.replies \subseteq DOMAIN replies.replies \cup {e}
  <2> DEFINE new == [k \in DOMAIN replies.replies \ {e} |-> replies.replies[k]]
  <2>1. db = [replies EXCEPT !["replies"] = new]
    BY <1>2 DEF S!DeleteAutoReply, S!DELETE, S!Done, S!Without
  <2> HIDE DEF new
  <2>2. db = [replies |-> new, log |-> replies.log]
    BY <2>1 DEF ReplyShape
  <2>3. QED
    BY <2>2 DEF new
<1> QED
  BY <1>1, <1>2

\* Nobody has been answered when the server starts.
LEMMA ReplyInitially == ReplyInit => ReplyInv
<1> SUFFICES ASSUME ReplyInit PROVE ReplyInv
  OBVIOUS
<1>1. Never \in Nat /\ ~(Never <= 0)
  BY AutoReplyAssumption DEF Never
<1>2. ReplyShape
  BY <1>1 DEF ReplyInit, ReplyShape, Free
<1>3. ReplyTypeOK
  BY AutoReplyAssumption DEF ReplyInit, ReplyTypeOK
<1>4. RepliesRecorded
  BY <1>1 DEF ReplyInit, RepliesRecorded
<1>5. SecondReplyNeedsRace
  BY DEF ReplyInit, SecondReplyNeedsRace, Free
<1> QED
  BY <1>2, <1>3, <1>4, <1>5 DEF ReplyInv

-----------------------------------------------------------------------------
(* The goroutines                                                          *)

\* A goroutine at work knows whom it answers for and whom it answers.
LEMMA AtWork ==
  ASSUME ReplyShape, NEW j \in Job, job[j] # Free
  PROVE  /\ job[j] \in [step : {"rule", "check", "send", "record"}, me : Local, from : Person]
         /\ PairOf(j) \in Pair /\ PairOf(j) \in Local \X Person
         /\ job[j].step # "rule" => PairOf(j) \in Local \X (Person \ Robot)
<1>1. job[j] \in [step : {"rule", "check", "send", "record"}, me : Local, from : Person]
  BY DEF ReplyShape
<1>2. job[j].me \in Local /\ job[j].from \in Person /\ job[j].me \in Person
  BY <1>1, AutoReplyAssumption
<1>3. job[j].step # "rule" => job[j].from \notin Robot
  BY <1>1 DEF ReplyShape
<1> QED
  BY <1>1, <1>2, <1>3 DEF PairOf, Pair

\* A goroutine that is at a step is at work.
LEMMA Working ==
  ASSUME NEW j \in Job, job[j].step # "free" PROVE job[j] # Free
BY DEF Free

\* What a goroutine leaves behind when it ends, and what its going on to the
\* next step leaves as it is.
LEMMA EndsOrGoesOn ==
  ASSUME ReplyShape, NEW j \in Job
  PROVE  /\ job' = [job EXCEPT ![j] = Free] =>
              /\ job' \in [Job -> [step : {"rule", "check", "send", "record"}, me : Local, from : Person]
                                   \cup {Free}]
              /\ job'[j].step = "free"
              /\ \A k \in Job \ {j} : job'[k] = job[k]
         /\ \A step \in {"rule", "check", "send", "record"} : job[j] # Free /\ Goto(j, step) =>
              /\ job' \in [Job -> [step : {"rule", "check", "send", "record"}, me : Local, from : Person]
                                   \cup {Free}]
              /\ job'[j].step = step /\ job'[j].me = job[j].me /\ job'[j].from = job[j].from
              /\ \A k \in Job \ {j} : job'[k] = job[k]
<1>1. ASSUME job' = [job EXCEPT ![j] = Free]
      PROVE  /\ job' \in [Job -> [step : {"rule", "check", "send", "record"}, me : Local, from : Person]
                                   \cup {Free}]
             /\ job'[j].step = "free"
             /\ \A k \in Job \ {j} : job'[k] = job[k]
  BY <1>1 DEF ReplyShape, Free
<1>2. ASSUME NEW step \in {"rule", "check", "send", "record"}, job[j] # Free, Goto(j, step)
      PROVE  /\ job' \in [Job -> [step : {"rule", "check", "send", "record"}, me : Local, from : Person]
                                   \cup {Free}]
             /\ job'[j].step = step /\ job'[j].me = job[j].me /\ job'[j].from = job[j].from
             /\ \A k \in Job \ {j} : job'[k] = job[k]
  <2> DEFINE goes == [job[j] EXCEPT !.step = step]
  <2>1. /\ goes \in [step : {"rule", "check", "send", "record"}, me : Local, from : Person]
        /\ goes.step = step /\ goes.me = job[j].me /\ goes.from = job[j].from
    BY <1>2, AtWork
  <2>2. job' = [job EXCEPT ![j] = goes]
    BY <1>2 DEF Goto
  <2> HIDE DEF goes
  <2>3. QED
    BY <2>1, <2>2 DEF ReplyShape
<1> QED
  BY <1>1, <1>2

\* What is left to show for a step that sends nothing and records nothing: the
\* goroutines keep their shape, and no new one sends but knowingly.
LEMMA NothingSaid ==
  ASSUME ReplyInv,
         UNCHANGED <<replies, answered, unrecorded, time>>,
         post' \in [Pair -> Nat], \A p \in Pair : post'[p] > 0 => p[2] \in Local,
         job' \in [Job -> [step : {"rule", "check", "send", "record"}, me : Local, from : Person]
                            \cup {Free}],
         \A j \in Job : job'[j].step \in {"check", "send", "record"} => job'[j].from \notin Robot,
         raced' \subseteq {j \in Job : job'[j].step = "send"},
         \A j \in Job : job'[j].step = "send" =>
           \/ job'[j] = job[j] /\ (j \in raced => j \in raced')
           \/ Recent(<<job'[j].me, job'[j].from>>) => j \in raced'
  PROVE  ReplyInv'
<1>1. ReplyShape'
  BY DEF ReplyInv, ReplyShape
<1>2. ReplyTypeOK'
  BY DEF ReplyInv, ReplyTypeOK
<1>3. RepliesRecorded'
  BY DEF ReplyInv, RepliesRecorded
<1>4. ASSUME NEW j \in Job, job'[j].step = "send", Recent(PairOf(j))' PROVE j \in raced'
  <2>1. PICK p : p = <<job'[j].me, job'[j].from>>
    OBVIOUS
  <2>2. Recent(p)
    BY <1>4, <2>1 DEF Recent, PairOf
  <2>3. CASE job'[j] = job[j] /\ (j \in raced => j \in raced')
    BY <1>4, <2>1, <2>2, <2>3 DEF ReplyInv, SecondReplyNeedsRace, PairOf
  <2>4. QED
    BY <1>4, <2>1, <2>2, <2>3
<1> QED
  BY <1>1, <1>2, <1>3, <1>4 DEF ReplyInv, SecondReplyNeedsRace

\* The settings page: no record of a reply changes.
LEMMA SettingsStep == ReplyInv /\ HandleAutoReply => ReplyInv'
<1> SUFFICES ASSUME ReplyInv, HandleAutoReply PROVE ReplyInv'
  OBVIOUS
<1>1. UNCHANGED <<time, post, job, letters, faults, answered, unrecorded, raced>>
  BY DEF HandleAutoReply
<1>2. PICK e \in Local : \/ \E r \in Rule(e) : replies' = S!SetAutoReply(replies, e, r).db
                         \/ replies' = S!DeleteAutoReply(replies, e).db
  BY DEF HandleAutoReply
<1>3. /\ replies' = [replies |-> replies'.replies, log |-> replies'.log]
      /\ replies'.log = replies.log
      /\ DOMAIN replies'.replies \subseteq DOMAIN replies.replies \cup {e}
  <2>1. PICK db : db = replies'
    OBVIOUS
  <2>2. \/ \E r : db = S!SetAutoReply(replies, e, r).db
        \/ db = S!DeleteAutoReply(replies, e).db
    BY <1>2, <2>1
  <2>3. QED
    BY <2>1, <2>2, RuleWrites DEF ReplyInv
<1>4. ReplyShape'
  BY <1>1, <1>3 DEF ReplyInv, ReplyShape
<1>5. ReplyTypeOK'
  BY <1>1, <1>3 DEF ReplyInv, ReplyTypeOK
<1>6. RepliesRecorded'
  BY <1>1, <1>3 DEF ReplyInv, RepliesRecorded
<1>7. SecondReplyNeedsRace'
  BY <1>1 DEF ReplyInv, SecondReplyNeedsRace, Recent, PairOf
<1> QED
  BY <1>4, <1>5, <1>6, <1>7 DEF ReplyInv

\* Somebody writes to an account.
LEMMA WriteStep == ReplyInv /\ Write => ReplyInv'
<1> SUFFICES ASSUME ReplyInv, Write PROVE ReplyInv'
  OBVIOUS
<1>1. UNCHANGED <<time, replies, job, faults, answered, unrecorded, raced>>
  BY DEF Write
<1>2. PICK p \in Letter : post' = [post EXCEPT ![p] = @ + 1]
  BY DEF Write
<1>3. p \in Pair /\ p[2] \in Local
  BY AutoReplyAssumption DEF Pair
<1>4. post' \in [Pair -> Nat] /\ \A x \in Pair : post'[x] > 0 => x[2] \in Local
  BY <1>2, <1>3 DEF ReplyInv, ReplyShape, ReplyTypeOK
<1> QED
  BY <1>1, <1>4, NothingSaid DEF ReplyInv, ReplyShape, ReplyTypeOK

\* As time passes, replies only become less recent.
LEMMA LaterStep == ReplyInv /\ Later => ReplyInv'
<1> SUFFICES ASSUME ReplyInv, Later PROVE ReplyInv'
  OBVIOUS
<1>1. /\ time < MaxTime /\ time' = time + 1 /\ time' <= MaxTime
      /\ UNCHANGED <<replies, post, job, letters, faults, answered, unrecorded, raced>>
  BY AutoReplyAssumption DEF Later, ReplyInv, ReplyShape
<1>2. \A p \in Pair : answered[p] <= time' => answered[p] <= time
  <2>1. \A p \in Pair : answered[p] \in Nat /\ (answered[p] <= time \/ answered[p] = Never)
    BY DEF ReplyInv, ReplyShape
  <2>2. ~(Never <= time') /\ time \in Nat
    BY <1>1, AutoReplyAssumption DEF Never, ReplyInv, ReplyShape
  <2>3. QED
    BY <1>1, <2>1, <2>2
<1>3. ReplyShape'
  BY <1>1 DEF ReplyInv, ReplyShape
<1>4. ReplyTypeOK'
  BY <1>1, AutoReplyAssumption DEF ReplyInv, ReplyTypeOK
<1>5. RepliesRecorded'
  BY <1>1, <1>2 DEF ReplyInv, RepliesRecorded
<1>6. ASSUME NEW j \in Job, job'[j].step = "send", Recent(PairOf(j))' PROVE j \in raced'
  <2>1. PICK p : p = PairOf(j)
    OBVIOUS
  <2>2. p \in Pair /\ answered[p] \in Nat /\ time \in Nat
    BY <1>1, <1>6, <2>1, AtWork, Working DEF ReplyInv, ReplyShape
  <2>3. answered[p] <= time' /\ time' < answered[p] + Cooldown
    BY <1>1, <1>6, <2>1 DEF Recent, PairOf
  <2>4. Recent(p)
    BY <1>1, <1>2, <2>2, <2>3, AutoReplyAssumption DEF Recent
  <2>5. QED
    BY <1>1, <1>6, <2>1, <2>4 DEF ReplyInv, SecondReplyNeedsRace
<1> QED
  BY <1>3, <1>4, <1>5, <1>6 DEF ReplyInv, SecondReplyNeedsRace

\* handleInbound starts a goroutine for a copy it has saved.
LEMMA InboundStep ==
  ASSUME ReplyInv, NEW j \in Job, handleInbound(j) PROVE ReplyInv'
<1>1. PICK from \in Person, me \in Local :
        /\ post[<<from, me>>] > 0
        /\ post' = [post EXCEPT ![<<from, me>>] = @ - 1]
        /\ job' = [job EXCEPT ![j] = [step |-> "rule", me |-> me, from |-> from]]
  BY DEF handleInbound
<1>2. UNCHANGED <<time, replies, letters, faults, answered, unrecorded, raced>> /\ job[j] = Free
  BY DEF handleInbound
<1>3. <<from, me>> \in Pair
  BY AutoReplyAssumption DEF Pair
<1>4. post' \in [Pair -> Nat] /\ \A x \in Pair : post'[x] > 0 => x[2] \in Local
  <2>1. post[<<from, me>>] \in Nat /\ post[<<from, me>>] - 1 \in Nat
    BY <1>1, <1>3 DEF ReplyInv, ReplyShape
  <2>2. QED
    BY <1>1, <1>3, <2>1 DEF ReplyInv, ReplyShape, ReplyTypeOK
<1>5. job' \in [Job -> [step : {"rule", "check", "send", "record"}, me : Local, from : Person]
                       \cup {Free}]
  BY <1>1 DEF ReplyInv, ReplyShape
<1>6. job'[j].step = "rule" /\ \A k \in Job \ {j} : job'[k] = job[k]
  BY <1>1 DEF ReplyInv, ReplyShape
<1>7. raced \subseteq {k \in Job : job'[k].step = "send"}
  BY <1>2, <1>6 DEF ReplyInv, ReplyTypeOK, Free
<1>8. \A k \in Job : job'[k].step \in {"check", "send", "record"} => job'[k].from \notin Robot
  BY <1>6 DEF ReplyInv, ReplyShape
<1>9. \A k \in Job : job'[k].step = "send" => job'[k] = job[k] /\ (k \in raced => k \in raced')
  BY <1>2, <1>6
<1> QED
  BY <1>2, <1>4, <1>5, <1>7, <1>8, <1>9, NothingSaid

\* A goroutine that ends says nothing.
LEMMA EndStep ==
  ASSUME ReplyInv, NEW j \in Job, Ends(j),
         UNCHANGED <<time, replies, post, answered, unrecorded>>
  PROVE  ReplyInv'
<1>1. job' = [job EXCEPT ![j] = Free] /\ raced' = raced \ {j}
  BY DEF Ends
<1>2. /\ job' \in [Job -> [step : {"rule", "check", "send", "record"}, me : Local, from : Person]
                          \cup {Free}]
      /\ job'[j].step = "free" /\ \A k \in Job \ {j} : job'[k] = job[k]
  BY <1>1, EndsOrGoesOn DEF ReplyInv
<1>3. raced' \subseteq {k \in Job : job'[k].step = "send"}
  BY <1>1, <1>2 DEF ReplyInv, ReplyTypeOK
<1>4. \A k \in Job : job'[k].step \in {"check", "send", "record"} => job'[k].from \notin Robot
  BY <1>2 DEF ReplyInv, ReplyShape
<1>5. \A k \in Job : job'[k].step = "send" => job'[k] = job[k] /\ (k \in raced => k \in raced')
  BY <1>1, <1>2
<1> QED
  BY <1>2, <1>3, <1>4, <1>5, NothingSaid DEF ReplyInv, ReplyShape, ReplyTypeOK

\* Reading the rule: only somebody who is not on the skip list is answered.
LEMMA RuleStep ==
  ASSUME ReplyInv, NEW j \in Job, ReadRule(j) PROVE ReplyInv'
<1>1. job[j].step = "rule" /\ UNCHANGED <<time, replies, post, letters, faults, answered, unrecorded>>
  BY DEF ReadRule
<1>2. \/ Ends(j)
      \/ Goto(j, "check") /\ UNCHANGED raced /\ job[j].from \notin Robot
  BY DEF ReadRule
<1>3. CASE Ends(j)
  BY <1>1, <1>3, EndStep
<1>4. CASE Goto(j, "check") /\ UNCHANGED raced /\ job[j].from \notin Robot
  <2>1. /\ job' \in [Job -> [step : {"rule", "check", "send", "record"}, me : Local, from : Person]
                            \cup {Free}]
        /\ job'[j].step = "check" /\ job'[j].from = job[j].from
        /\ \A k \in Job \ {j} : job'[k] = job[k]
    BY <1>1, <1>4, Working, EndsOrGoesOn DEF ReplyInv
  <2>2. raced' \subseteq {k \in Job : job'[k].step = "send"}
    BY <1>1, <1>4, <2>1 DEF ReplyInv, ReplyTypeOK
  <2>3. \A k \in Job : job'[k].step \in {"check", "send", "record"} => job'[k].from \notin Robot
    BY <1>4, <2>1 DEF ReplyInv, ReplyShape
  <2>4. \A k \in Job : job'[k].step = "send" => job'[k] = job[k] /\ (k \in raced => k \in raced')
    BY <1>4, <2>1
  <2>5. QED
    BY <1>1, <2>1, <2>2, <2>3, <2>4, NothingSaid DEF ReplyInv, ReplyShape, ReplyTypeOK
<1> QED
  BY <1>2, <1>3, <1>4

\* Looking for a recent reply: one that is on record ends the goroutine, so only
\* one without a record can escape it.
LEMMA CheckStep ==
  ASSUME ReplyInv, NEW j \in Job, CheckRecent(j) PROVE ReplyInv'
<1>1. job[j].step = "check" /\ UNCHANGED <<time, replies, post, letters, faults, answered, unrecorded>>
  BY DEF CheckRecent
<1>2. CASE S!HasAutoRepliedRecently(replies, job[j].me, job[j].from, time, Cooldown)
  BY <1>1, <1>2, EndStep DEF CheckRecent
<1>3. CASE ~S!HasAutoRepliedRecently(replies, job[j].me, job[j].from, time, Cooldown)
  <2>1. PICK p : p = PairOf(j)
    OBVIOUS
  <2>2. Goto(j, "send") /\ raced' = IF p \in unrecorded THEN raced \cup {j} ELSE raced
    BY <1>3, <2>1 DEF CheckRecent
  <2>3. p \in Pair
    BY <1>1, <2>1, Working, AtWork DEF ReplyInv
  <2>4. Recent(p) => p \in unrecorded
    <3>1. SUFFICES ASSUME Recent(p), p \notin unrecorded PROVE FALSE
      OBVIOUS
    <3>2. p \in DOMAIN replies.log /\ answered[p] <= replies.log[p].sent
      BY <2>3, <3>1 DEF ReplyInv, RepliesRecorded, Recent
    <3>3. answered[p] \in Nat /\ replies.log[p].sent \in Nat /\ time \in Nat
      BY <2>3, <3>2 DEF ReplyInv, ReplyShape
    <3>4. replies.log[p].sent + Cooldown > time
      BY <3>1, <3>2, <3>3, AutoReplyAssumption DEF Recent
    <3>5. S!HasAutoRepliedRecently(replies, job[j].me, job[j].from, time, Cooldown)
      BY <2>1, <3>2, <3>4 DEF S!HasAutoRepliedRecently, S!Has, PairOf
    <3>6. QED
      BY <1>3, <3>5
  <2>5. /\ job' \in [Job -> [step : {"rule", "check", "send", "record"}, me : Local, from : Person]
                            \cup {Free}]
        /\ job'[j].step = "send" /\ job'[j].me = job[j].me /\ job'[j].from = job[j].from
        /\ \A k \in Job \ {j} : job'[k] = job[k]
    BY <1>1, <2>2, Working, EndsOrGoesOn DEF ReplyInv
  <2>6. raced' \subseteq {k \in Job : job'[k].step = "send"}
    BY <2>2, <2>5 DEF ReplyInv, ReplyTypeOK
  <2>7. \A k \in Job : job'[k].step \in {"check", "send", "record"} => job'[k].from \notin Robot
    BY <1>1, <2>5 DEF ReplyInv, ReplyShape
  <2>8. ASSUME NEW k \in Job, job'[k].step = "send"
        PROVE  \/ job'[k] = job[k] /\ (k \in raced => k \in raced')
               \/ Recent(<<job'[k].me, job'[k].from>>) => k \in raced'
    BY <2>1, <2>2, <2>4, <2>5 DEF PairOf
  <2>9. QED
    BY <1>1, <2>5, <2>6, <2>7, <2>8, NothingSaid DEF ReplyInv, ReplyShape, ReplyTypeOK
<1> QED
  BY <1>2, <1>3

\* A reply reaches nobody, or once or twice: whoever is about to answer the same
\* sender could not know of it.
LEMMA ReplyReaches ==
  ASSUME ReplyInv, NEW j \in Job, job[j].step = "send",
         NEW n \in {0, 1, 2}, Reaches(j, n),
         job' \in [Job -> [step : {"rule", "check", "send", "record"}, me : Local, from : Person]
                            \cup {Free}],
         job'[j].step # "send", job'[j] = Free \/ job'[j].from = job[j].from,
         \A k \in Job \ {j} : job'[k] = job[k]
  PROVE  ReplyInv'
<1>1. PICK p : p = PairOf(j)
  OBVIOUS
<1>2. p \in Pair
  BY <1>1, Working, AtWork DEF ReplyInv
<1>3. /\ post' = IF p[2] \in Local THEN [post EXCEPT ![p] = @ + n] ELSE post
      /\ UNCHANGED <<time, replies, letters>>
      /\ IF n = 0 THEN UNCHANGED <<answered, unrecorded>> /\ raced' = raced \ {j}
         ELSE /\ answered' = [answered EXCEPT ![p] = time]
              /\ unrecorded' = unrecorded \cup {p}
              /\ raced' = (raced \ {j}) \cup
                           {k \in Job \ {j} : job[k].step = "send" /\ PairOf(k) = p}
  BY <1>1 DEF Reaches
<1>4. post' \in [Pair -> Nat] /\ \A x \in Pair : post'[x] > 0 => x[2] \in Local
  <2>1. post[p] \in Nat /\ post[p] + n \in Nat
    BY <1>2 DEF ReplyInv, ReplyShape
  <2>2. QED
    BY <1>2, <1>3, <2>1 DEF ReplyInv, ReplyShape, ReplyTypeOK
<1>5. raced' \subseteq {k \in Job : job'[k].step = "send"}
  BY <1>3 DEF ReplyInv, ReplyTypeOK
<1>6. \A k \in Job : job'[k].step \in {"check", "send", "record"} => job'[k].from \notin Robot
  BY DEF ReplyInv, ReplyShape, Free
<1>7. \A k \in Job : job'[k].step = "send" => job'[k] = job[k] /\ (k \in raced => k \in raced')
  BY <1>3
<1>8. CASE n = 0
  BY <1>3, <1>4, <1>5, <1>6, <1>7, <1>8, NothingSaid
<1>9. CASE n # 0
  <2>1. time \in Nat
    BY DEF ReplyInv, ReplyShape
  <2>2. /\ answered' \in [Pair -> Nat] /\ answered'[p] = time
        /\ \A x \in Pair : x # p => answered'[x] = answered[x]
    BY <1>2, <1>3, <1>9, <2>1 DEF ReplyInv, ReplyShape
  <2>3. ReplyShape'
    BY <1>2, <1>3, <1>4, <1>6, <1>9, <2>1, <2>2 DEF ReplyInv, ReplyShape
  <2>4. ReplyTypeOK'
    BY <1>3, <1>4, <1>5 DEF ReplyInv, ReplyTypeOK
  <2>5. RepliesRecorded'
    BY <1>3, <1>9, <2>2 DEF ReplyInv, RepliesRecorded
  <2>6. ASSUME NEW k \in Job, job'[k].step = "send", Recent(PairOf(k))' PROVE k \in raced'
    <3>1. PICK q : q = PairOf(k)
      OBVIOUS
    <3>2. k # j /\ job'[k] = job[k] /\ job[k].step = "send"
      BY <2>6
    <3>3. q \in Pair
      BY <3>1, <3>2, Working, AtWork DEF ReplyInv
    <3>4. CASE q = p
      BY <1>3, <1>9, <3>1, <3>2, <3>4
    <3>5. CASE q # p
      <4>1. Recent(q)
        BY <1>3, <2>2, <2>6, <3>1, <3>2, <3>3, <3>5 DEF Recent, PairOf
      <4>2. k \in raced
        BY <3>1, <3>2, <4>1 DEF ReplyInv, SecondReplyNeedsRace
      <4>3. QED
        BY <1>7, <2>6, <4>2
    <3>6. QED
      BY <3>4, <3>5
  <2>7. QED
    BY <2>3, <2>4, <2>5, <2>6 DEF ReplyInv, SecondReplyNeedsRace
<1> QED
  BY <1>8, <1>9

\* SendSimple succeeds, the relay sends the reply twice, or it reports an error.
LEMMA SendStep ==
  ASSUME ReplyInv, NEW j \in Job, SendSimple(j) \/ SendTwice(j) \/ SendFails(j)
  PROVE  ReplyInv'
<1>1. job[j].step = "send"
  BY DEF SendSimple, SendTwice, SendFails
<1>2. PICK n \in {0, 1, 2} : Reaches(j, n)
  BY DEF SendSimple, SendTwice, SendFails
<1>3. Goto(j, "record") \/ job' = [job EXCEPT ![j] = Free]
  BY DEF SendSimple, SendTwice, SendFails
<1>4. /\ job' \in [Job -> [step : {"rule", "check", "send", "record"}, me : Local, from : Person]
                          \cup {Free}]
      /\ job'[j].step # "send"
      /\ \A k \in Job \ {j} : job'[k] = job[k]
  BY <1>1, <1>3, Working, EndsOrGoesOn DEF ReplyInv
<1>5. job'[j] = Free \/ job'[j].from = job[j].from
  <2>1. CASE Goto(j, "record")
    BY <1>1, <2>1, Working, EndsOrGoesOn DEF ReplyInv
  <2>2. CASE job' = [job EXCEPT ![j] = Free]
    BY <2>2 DEF ReplyInv, ReplyShape
  <2>3. QED
    BY <1>3, <2>1, <2>2
<1> QED
  BY <1>1, <1>2, <1>4, <1>5, ReplyReaches

\* RecordAutoReplySent: the record is as late as any reply to the sender.
LEMMA RecordStep ==
  ASSUME ReplyInv, NEW j \in Job, RecordSent(j) PROVE ReplyInv'
<1>1. PICK p : p = PairOf(j)
  OBVIOUS
<1>2. /\ job[j].step = "record"
      /\ unrecorded' = unrecorded \ {p}
      /\ job' = [job EXCEPT ![j] = Free] /\ raced' = raced \ {j}
      /\ UNCHANGED <<time, post, letters, faults, answered>>
  BY <1>1 DEF RecordSent, Ends
<1>3. p \in Pair /\ p \in Local \X (Person \ Robot)
  BY <1>1, <1>2, Working, AtWork DEF ReplyInv
<1>4. /\ replies' = [replies |-> replies'.replies, log |-> replies'.log]
      /\ replies'.replies = replies.replies
      /\ DOMAIN replies'.log = DOMAIN replies.log \cup {p}
      /\ replies'.log[p].sent = time
      /\ \A x \in DOMAIN replies.log : x # p => replies'.log[x] = replies.log[x]
  <2>1. PICK db, now : db = replies' /\ now = time
    OBVIOUS
  <2>2. db = S!RecordAutoReplySent(replies, job[j].me, job[j].from, now).db
    BY <2>1 DEF RecordSent
  <2>3. /\ db = [replies |-> db.replies, log |-> db.log]
        /\ db.replies = replies.replies
        /\ DOMAIN db.log = DOMAIN replies.log \cup {p}
        /\ db.log[p] = [sent |-> now]
        /\ \A x \in DOMAIN replies.log : x # p => db.log[x] = replies.log[x]
    <3>1. p = <<job[j].me, job[j].from>>
      BY <1>1 DEF PairOf
    <3>2. ReplyShape
      BY DEF ReplyInv
    <3>3. QED
      BY <2>2, <3>1, <3>2, RecordWrites
  <2>4. QED
    BY <2>1, <2>3
<1>5. /\ job' \in [Job -> [step : {"rule", "check", "send", "record"}, me : Local, from : Person]
                          \cup {Free}]
      /\ job'[j].step = "free" /\ \A k \in Job \ {j} : job'[k] = job[k]
  BY <1>2, EndsOrGoesOn DEF ReplyInv
<1>6. ReplyShape'
  <2>1. \A x \in DOMAIN replies'.log : replies'.log[x].sent \in Nat
    BY <1>4 DEF ReplyInv, ReplyShape
  <2>2. \A k \in Job : job'[k].step \in {"check", "send", "record"} => job'[k].from \notin Robot
    BY <1>5 DEF ReplyInv, ReplyShape
  <2>3. QED
    BY <1>2, <1>4, <1>5, <2>1, <2>2 DEF ReplyInv, ReplyShape
<1>7. ReplyTypeOK'
  BY <1>2, <1>3, <1>4, <1>5 DEF ReplyInv, ReplyTypeOK
<1>8. RepliesRecorded'
  <2>1. SUFFICES ASSUME NEW x \in Pair, answered[x] <= time, x \notin unrecorded'
                 PROVE  x \in DOMAIN replies'.log /\ answered[x] <= replies'.log[x].sent
    BY <1>2 DEF RepliesRecorded
  <2>2. CASE x = p
    BY <1>4, <2>1, <2>2
  <2>3. CASE x # p
    BY <1>2, <1>4, <2>1, <2>3 DEF ReplyInv, RepliesRecorded
  <2>4. QED
    BY <2>2, <2>3
<1>9. SecondReplyNeedsRace'
  BY <1>2, <1>5 DEF ReplyInv, SecondReplyNeedsRace, Recent, PairOf
<1> QED
  BY <1>6, <1>7, <1>8, <1>9 DEF ReplyInv

\* Every step of automatic replies keeps the invariant.
LEMMA ReplyStep == ReplyInv /\ [ReplyNext]_replyVars => ReplyInv'
<1> SUFFICES ASSUME ReplyInv, [ReplyNext]_replyVars PROVE ReplyInv'
  OBVIOUS
<1>1. CASE HandleAutoReply \/ Write \/ Later
  BY <1>1, SettingsStep, WriteStep, LaterStep
<1>2. ASSUME NEW j \in Job, ProcessAutoReply(j) PROVE ReplyInv'
  BY <1>2, InboundStep, RuleStep, CheckStep, SendStep, RecordStep DEF ProcessAutoReply
<1>3. ASSUME NEW j \in Job, Mishap(j) PROVE ReplyInv'
  <2>1. CASE SendTwice(j) \/ SendFails(j)
    BY <2>1, SendStep
  <2>2. CASE RecordFails(j)
    BY <2>2, EndStep DEF RecordFails
  <2>3. QED
    BY <1>3, <2>1, <2>2 DEF Mishap
<1>4. CASE UNCHANGED replyVars
  BY <1>4 DEF replyVars, ReplyInv, ReplyShape, ReplyTypeOK, RepliesRecorded,
              SecondReplyNeedsRace, Recent, PairOf
<1> QED
  BY <1>1, <1>2, <1>3, <1>4 DEF ReplyNext

\* The invariant holds for any number of people, goroutines and faults.
THEOREM RepliesInv == ReplySpec => []ReplyInv
<1>1. QED
  BY ReplyInitially, ReplyStep, PTL DEF ReplySpec

\* Nobody is answered twice within the cooldown unless two goroutines checked
\* before either recorded, a record was lost, or the transport repeated the
\* reply (processAutoReply: check, send and record are separate).
THEOREM RepliesAreRare == ReplySpec => []SecondReplyNeedsRace
BY RepliesInv, PTL DEF ReplyInv

\* Only accounts have rules, and no robot is ever written to or recorded.
THEOREM ReplyTypeCorrect == ReplySpec => []ReplyTypeOK
BY RepliesInv, PTL DEF ReplyInv

-----------------------------------------------------------------------------
(* The limiter                                                             *)

\* Requests of an address whose wrong password is not recorded yet, and those
\* that were admitted and have not recorded one.
Wrong(a, ip) == {r \in Attempt : a[r].step = "wrong" /\ a[r].ip = ip}
Open(a, ip) == {r \in Attempt : a[r].step \in {"password", "wrong"} /\ a[r].ip = ip}

LimiterShape == /\ failures \in [Ip -> Nat]
           /\ guesses \in [Ip -> Nat]
           /\ lockAge \in [Ip -> 0 .. Oldest]
           /\ attempt \in [Attempt -> [step : Step, ip : Ip]]

\* Every wrong password since the last restart is counted or about to be.
GuessesCounted ==
  \A ip \in Ip : guesses[ip] <= failures[ip] + Cardinality(Wrong(attempt, ip))
\* Only the requests under way can push the count beyond the threshold.
CountBounded ==
  \A ip \in Ip : failures[ip] + Cardinality(Open(attempt, ip))
                   <= MaxAuthFail - 1 + Cardinality(Attempt)

LimiterInv == LimiterShape /\ GuessesCounted /\ CountBounded

-----------------------------------------------------------------------------
(* Counting requests                                                       *)

\* The sets of requests are finite, and bounded by the requests there are.
LEMMA RequestsFinite ==
  ASSUME NEW a, NEW ip
  PROVE  /\ IsFiniteSet(Wrong(a, ip)) /\ Cardinality(Wrong(a, ip)) \in Nat
         /\ IsFiniteSet(Open(a, ip)) /\ Cardinality(Open(a, ip)) \in Nat
         /\ Cardinality(Wrong(a, ip)) <= Cardinality(Open(a, ip))
         /\ Cardinality(Open(a, ip)) <= Cardinality(Attempt)
         /\ Cardinality(Attempt) \in Nat
<1>1. IsFiniteSet(Attempt)
  BY LimiterAssumption
<1>2. Open(a, ip) \subseteq Attempt /\ Wrong(a, ip) \subseteq Open(a, ip)
  BY DEF Open, Wrong
<1>3. IsFiniteSet(Open(a, ip)) /\ Cardinality(Open(a, ip)) <= Cardinality(Attempt)
  BY <1>1, <1>2, FS_Subset
<1>4. IsFiniteSet(Wrong(a, ip)) /\ Cardinality(Wrong(a, ip)) <= Cardinality(Open(a, ip))
  BY <1>2, <1>3, FS_Subset
<1> QED
  BY <1>1, <1>3, <1>4, FS_CardinalityType

\* A request enters a step, at an address: what that does to the two sets.
LEMMA RequestMoves ==
  ASSUME LimiterShape, NEW r \in Attempt, NEW s \in Step, NEW ip \in Ip, Enters(r, s, ip),
         NEW x
  PROVE  /\ Wrong(attempt', x) = IF s = "wrong" /\ ip = x THEN Wrong(attempt, x) \cup {r}
                                ELSE Wrong(attempt, x) \ {r}
         /\ Open(attempt', x) = IF s \in {"password", "wrong"} /\ ip = x
                               THEN Open(attempt, x) \cup {r} ELSE Open(attempt, x) \ {r}
<1>1. \A q \in Attempt : /\ attempt'[q].step = IF q = r THEN s ELSE attempt[q].step
                         /\ attempt'[q].ip = IF q = r THEN ip ELSE attempt[q].ip
  BY DEF LimiterShape, Enters
<1>2. Wrong(attempt', x) = IF s = "wrong" /\ ip = x THEN Wrong(attempt, x) \cup {r}
                           ELSE Wrong(attempt, x) \ {r}
  BY <1>1 DEF Wrong
<1>3. Open(attempt', x) = IF s \in {"password", "wrong"} /\ ip = x THEN Open(attempt, x) \cup {r}
                          ELSE Open(attempt, x) \ {r}
  BY <1>1 DEF Open
<1> QED
  BY <1>2, <1>3

-----------------------------------------------------------------------------
(* The invariant                                                           *)

\* Nobody has tried anything when the server starts.
LEMMA LimiterInitially == LimiterInit => LimiterInv
<1> SUFFICES ASSUME LimiterInit PROVE LimiterInv
  OBVIOUS
<1>1. LimiterShape
  BY LimiterAssumption DEF LimiterInit, LimiterShape, Step, Oldest
<1>2. ASSUME NEW ip \in Ip PROVE Open(attempt, ip) = {}
  BY DEF LimiterInit, Open
<1>3. GuessesCounted
  BY RequestsFinite DEF LimiterInit, GuessesCounted
<1>4. CountBounded
  BY <1>2, RequestsFinite, FS_EmptySet, LimiterAssumption DEF LimiterInit, CountBounded
<1> QED
  BY <1>1, <1>3, <1>4 DEF LimiterInv

\* A request is admitted: the address is below the threshold, or its lock has
\* expired and the count starts again.
LEMMA AdmissionPreserves ==
  ASSUME LimiterInv, NEW r \in Attempt, NEW ip \in Ip, Admits(r, ip),
         \/ ~Locked(ip) /\ UNCHANGED <<failures, guesses>>
         \/ Forget({ip})
  PROVE  LimiterInv'
<1>0. LimiterShape /\ GuessesCounted /\ CountBounded
  BY DEF LimiterInv
<1>1. LimiterShape'
  BY <1>0 DEF LimiterShape, Forget, Step, Admits, Enters
<1>2. /\ \A x \in Ip \ {ip} : failures'[x] = failures[x] /\ guesses'[x] = guesses[x]
      /\ failures'[ip] <= MaxAuthFail - 1
      /\ (failures'[ip] = failures[ip] /\ guesses'[ip] = guesses[ip]) \/ guesses'[ip] = 0
  BY <1>0, LimiterAssumption DEF LimiterShape, Forget, Locked
<1>3. ASSUME NEW x \in Ip
      PROVE  /\ Wrong(attempt', x) = Wrong(attempt, x)
             /\ x # ip => Open(attempt', x) = Open(attempt, x)
  <2>1. r \notin Wrong(attempt, x) /\ r \notin Open(attempt, x)
    BY DEF Wrong, Open, Admits
  <2>2. Enters(r, "password", ip) /\ "password" \in Step
    BY DEF Admits, Step
  <2>3. /\ Wrong(attempt', x) = Wrong(attempt, x) \ {r}
        /\ x # ip => Open(attempt', x) = Open(attempt, x) \ {r}
    BY <1>0, <2>2, RequestMoves
  <2> QED
    BY <2>1, <2>3
<1>4. ASSUME NEW x \in Ip
      PROVE  guesses'[x] <= failures'[x] + Cardinality(Wrong(attempt', x))
  <2>1. Cardinality(Wrong(attempt, x)) \in Nat
    BY RequestsFinite
  <2>2. guesses[x] <= failures[x] + Cardinality(Wrong(attempt, x))
    BY <1>0 DEF GuessesCounted
  <2>3. failures'[x] \in Nat
    BY <1>1 DEF LimiterShape
  <2> QED
    BY <1>2, <1>3, <2>1, <2>2, <2>3
<1>5. ASSUME NEW x \in Ip
      PROVE  failures'[x] + Cardinality(Open(attempt', x)) <= MaxAuthFail - 1 + Cardinality(Attempt)
  <2>1. /\ Cardinality(Open(attempt', x)) \in Nat /\ Cardinality(Attempt) \in Nat
        /\ Cardinality(Open(attempt', x)) <= Cardinality(Attempt)
    BY RequestsFinite
  <2>2. failures'[x] \in Nat /\ MaxAuthFail \in Nat
    BY <1>1, LimiterAssumption DEF LimiterShape
  <2>3. CASE x = ip
    BY <1>2, <2>1, <2>2, <2>3
  <2>4. CASE x # ip
    BY <1>0, <1>2, <1>3, <2>4 DEF CountBounded
  <2> QED
    BY <2>3, <2>4
<1> QED
  BY <1>1, <1>4, <1>5 DEF LimiterInv, GuessesCounted, CountBounded

\* A password is checked; a wrong one is a guess.
LEMMA CheckPreserves ==
  ASSUME LimiterInv, NEW r \in Attempt, CheckPassword(r)
  PROVE  LimiterInv'
<1> DEFINE ip == attempt[r].ip
<1>0. LimiterShape /\ GuessesCounted /\ CountBounded /\ UNCHANGED <<failures, lockAge>>
  BY DEF LimiterInv, CheckPassword
<1>1. ip \in Ip /\ r \in Open(attempt, ip) /\ \A x : r \notin Wrong(attempt, x)
  BY <1>0 DEF LimiterShape, Open, Wrong, CheckPassword
<1>2. \A x \in Ip : x # ip => r \notin Open(attempt, x)
  BY DEF Open
<1>3. PICK s \in {"right", "wrong"} :
        /\ Enters(r, s, ip)
        /\ guesses' = IF s = "wrong" THEN [guesses EXCEPT ![ip] = @ + 1] ELSE guesses
  BY DEF CheckPassword, Proceeds
<1>4. s \in Step
  BY DEF Step
<1>5. LimiterShape'
  BY <1>0, <1>1, <1>3, <1>4 DEF LimiterShape, Enters
<1>6. ASSUME NEW x \in Ip
      PROVE  /\ Wrong(attempt', x) = IF s = "wrong" /\ ip = x THEN Wrong(attempt, x) \cup {r}
                                    ELSE Wrong(attempt, x)
             /\ Open(attempt', x) = Open(attempt, x) \/ Open(attempt', x) = Open(attempt, x) \ {r}
  <2>1. /\ Wrong(attempt', x) = IF s = "wrong" /\ ip = x THEN Wrong(attempt, x) \cup {r}
                               ELSE Wrong(attempt, x) \ {r}
        /\ Open(attempt', x) = IF s \in {"password", "wrong"} /\ ip = x
                              THEN Open(attempt, x) \cup {r} ELSE Open(attempt, x) \ {r}
    BY <1>0, <1>1, <1>3, <1>4, RequestMoves
  <2> QED
    BY <1>1, <2>1
<1>7. ASSUME NEW x \in Ip
      PROVE  failures'[x] + Cardinality(Open(attempt', x)) <= MaxAuthFail - 1 + Cardinality(Attempt)
  <2>1. /\ Cardinality(Open(attempt, x)) \in Nat /\ Cardinality(Open(attempt', x)) \in Nat
        /\ Cardinality(Attempt) \in Nat /\ IsFiniteSet(Open(attempt, x))
    BY RequestsFinite
  <2>2. Cardinality(Open(attempt', x)) <= Cardinality(Open(attempt, x))
    BY <1>6, <2>1, FS_RemoveElement
  <2>3. failures'[x] = failures[x] /\ failures[x] \in Nat /\ MaxAuthFail \in Nat
    BY <1>0, LimiterAssumption DEF LimiterShape
  <2>4. failures[x] + Cardinality(Open(attempt, x)) <= MaxAuthFail - 1 + Cardinality(Attempt)
    BY <1>0 DEF CountBounded
  <2> QED
    BY <2>1, <2>2, <2>3, <2>4
<1>8. ASSUME NEW x \in Ip
      PROVE  guesses'[x] <= failures'[x] + Cardinality(Wrong(attempt', x))
  <2>1. /\ IsFiniteSet(Wrong(attempt, x)) /\ Cardinality(Wrong(attempt, x)) \in Nat
        /\ failures'[x] = failures[x] /\ failures[x] \in Nat /\ guesses[x] \in Nat
    BY <1>0, RequestsFinite DEF LimiterShape
  <2>2. guesses[x] <= failures[x] + Cardinality(Wrong(attempt, x))
    BY <1>0 DEF GuessesCounted
  <2>3. CASE s = "wrong" /\ x = ip
    <3>1. Cardinality(Wrong(attempt', x)) = Cardinality(Wrong(attempt, x)) + 1
      BY <1>1, <1>6, <2>1, <2>3, FS_AddElement
    <3>2. guesses'[x] = guesses[x] + 1
      BY <1>0, <1>3, <2>3 DEF LimiterShape
    <3> QED
      BY <2>1, <2>2, <3>1, <3>2
  <2>4. CASE ~(s = "wrong" /\ x = ip)
    <3>1. guesses'[x] = guesses[x]
      BY <1>0, <1>3, <2>4 DEF LimiterShape
    <3> QED
      BY <1>6, <2>1, <2>2, <2>4, <3>1
  <2> QED
    BY <2>3, <2>4
<1> QED
  BY <1>5, <1>7, <1>8 DEF LimiterInv, GuessesCounted, CountBounded

\* A failure is recorded: a guess that was under way is counted.
LEMMA FailurePreserves ==
  ASSUME LimiterInv, NEW r \in Attempt, RecordAuthFailure(r)
  PROVE  LimiterInv'
<1> DEFINE ip == attempt[r].ip
<1>0. /\ LimiterShape /\ GuessesCounted /\ CountBounded /\ UNCHANGED guesses
      /\ failures' = [failures EXCEPT ![ip] = @ + 1]
      /\ lockAge' = IF failures[ip] + 1 >= MaxAuthFail THEN [lockAge EXCEPT ![ip] = 0] ELSE lockAge
      /\ Enters(r, "idle", ip)
  BY DEF LimiterInv, RecordAuthFailure, Proceeds
<1>1. ip \in Ip /\ r \in Open(attempt, ip) /\ r \in Wrong(attempt, ip) /\ "idle" \in Step
  BY <1>0 DEF LimiterShape, Open, Wrong, RecordAuthFailure, Step
<1>2. LimiterShape'
  BY <1>0, <1>1, LimiterAssumption DEF LimiterShape, Oldest, Enters
<1>3. ASSUME NEW x \in Ip
      PROVE  /\ Open(attempt', x) = Open(attempt, x) \ {r}
             /\ Wrong(attempt', x) = Wrong(attempt, x) \ {r}
  BY <1>0, <1>1, RequestMoves
<1>4. ASSUME NEW x \in Ip
      PROVE  /\ failures'[x] + Cardinality(Open(attempt', x)) = failures[x] + Cardinality(Open(attempt, x))
             /\ failures'[x] + Cardinality(Wrong(attempt', x)) = failures[x] + Cardinality(Wrong(attempt, x))
  <2>1. /\ IsFiniteSet(Open(attempt, x)) /\ Cardinality(Open(attempt, x)) \in Nat
        /\ IsFiniteSet(Wrong(attempt, x)) /\ Cardinality(Wrong(attempt, x)) \in Nat
        /\ failures[x] \in Nat
    BY <1>0, RequestsFinite DEF LimiterShape
  <2>2. CASE x = ip
    <3>1. /\ Cardinality(Open(attempt', x)) = Cardinality(Open(attempt, x)) - 1
          /\ Cardinality(Wrong(attempt', x)) = Cardinality(Wrong(attempt, x)) - 1
      BY <1>1, <1>3, <2>1, <2>2, FS_RemoveElement
    <3>2. failures'[x] = failures[x] + 1
      BY <1>0, <2>2 DEF LimiterShape
    <3> QED
      BY <2>1, <3>1, <3>2
  <2>3. CASE x # ip
    <3>1. r \notin Open(attempt, x) /\ r \notin Wrong(attempt, x)
      BY <2>3 DEF Open, Wrong
    <3>2. failures'[x] = failures[x]
      BY <1>0, <2>3 DEF LimiterShape
    <3>3. Open(attempt', x) = Open(attempt, x) /\ Wrong(attempt', x) = Wrong(attempt, x)
      BY <1>3, <3>1
    <3> QED
      BY <3>2, <3>3
  <2> QED
    BY <2>2, <2>3
<1>5. ASSUME NEW x \in Ip
      PROVE  guesses'[x] <= failures'[x] + Cardinality(Wrong(attempt', x))
  BY <1>0, <1>4 DEF GuessesCounted
<1>6. ASSUME NEW x \in Ip
      PROVE  failures'[x] + Cardinality(Open(attempt', x)) <= MaxAuthFail - 1 + Cardinality(Attempt)
  BY <1>0, <1>4 DEF CountBounded
<1> QED
  BY <1>2, <1>5, <1>6 DEF LimiterInv, GuessesCounted, CountBounded

\* Requests that have nothing open, and counts that stay or start again:
\* recorded successes, the ticker and time.
LEMMA RestartPreserves ==
  ASSUME LimiterInv, LimiterShape',
         \A x \in Ip : /\ Wrong(attempt', x) = Wrong(attempt, x)
                       /\ Open(attempt', x) = Open(attempt, x),
         \A x \in Ip : \/ failures'[x] = failures[x] /\ guesses'[x] = guesses[x]
                       \/ failures'[x] = 0 /\ guesses'[x] = 0
  PROVE  LimiterInv'
<1>1. ASSUME NEW x \in Ip
      PROVE  /\ guesses'[x] <= failures'[x] + Cardinality(Wrong(attempt', x))
             /\ failures'[x] + Cardinality(Open(attempt', x)) <= MaxAuthFail - 1 + Cardinality(Attempt)
  <2>1. /\ Cardinality(Wrong(attempt, x)) \in Nat /\ Cardinality(Open(attempt, x)) \in Nat
        /\ Cardinality(Open(attempt, x)) <= Cardinality(Attempt) /\ Cardinality(Attempt) \in Nat
    BY RequestsFinite
  <2>2. /\ guesses[x] <= failures[x] + Cardinality(Wrong(attempt, x))
        /\ failures[x] + Cardinality(Open(attempt, x)) <= MaxAuthFail - 1 + Cardinality(Attempt)
    BY DEF LimiterInv, GuessesCounted, CountBounded
  <2> QED
    BY <2>1, <2>2, LimiterAssumption
<1> QED
  BY <1>1 DEF LimiterInv, GuessesCounted, CountBounded

\* A success is recorded: the address starts again.
LEMMA SuccessPreserves ==
  ASSUME LimiterInv, NEW r \in Attempt, RecordAuthSuccess(r)
  PROVE  LimiterInv'
<1>0. /\ LimiterShape /\ Forget({attempt[r].ip}) /\ UNCHANGED lockAge
      /\ Enters(r, "idle", attempt[r].ip)
  BY DEF LimiterInv, RecordAuthSuccess, Proceeds
<1>1. attempt[r].ip \in Ip /\ "idle" \in Step
  BY <1>0 DEF LimiterShape, Step
<1>2. LimiterShape'
  BY <1>0, <1>1 DEF LimiterShape, Enters, Forget
<1>3. ASSUME NEW x \in Ip
      PROVE  Wrong(attempt', x) = Wrong(attempt, x) /\ Open(attempt', x) = Open(attempt, x)
  <2>1. r \notin Wrong(attempt, x) /\ r \notin Open(attempt, x)
    BY DEF Wrong, Open, RecordAuthSuccess
  <2>2. Wrong(attempt', x) = Wrong(attempt, x) \ {r} /\ Open(attempt', x) = Open(attempt, x) \ {r}
    BY <1>0, <1>1, RequestMoves
  <2> QED
    BY <2>1, <2>2
<1> QED
  BY <1>0, <1>2, <1>3, RestartPreserves DEF Forget

\* The ticker and time leave the requests alone and count nothing.
LEMMA TickerPreserves ==
  ASSUME LimiterInv, cleanup \/ Ages
  PROVE  LimiterInv'
<1>1. LimiterShape'
  <2>1. CASE cleanup
    BY <2>1 DEF LimiterInv, LimiterShape, cleanup, Forget
  <2>2. CASE Ages
    BY <2>2, LimiterAssumption DEF LimiterInv, LimiterShape, Ages, Oldest
  <2> QED
    BY <2>1, <2>2
<1>2. /\ UNCHANGED attempt
      /\ \A x \in Ip : \/ failures'[x] = failures[x] /\ guesses'[x] = guesses[x]
                       \/ failures'[x] = 0 /\ guesses'[x] = 0
  BY DEF cleanup, Ages, Forget
<1> QED
  BY <1>1, <1>2, RestartPreserves

LEMMA LimiterStep == LimiterInv /\ [LimiterNext]_limiterVars => LimiterInv'
<1> SUFFICES ASSUME LimiterInv, [LimiterNext]_limiterVars PROVE LimiterInv'
  OBVIOUS
<1>1. ASSUME NEW r \in Attempt, NEW ip \in Ip, IsLockedOut(r, ip) PROVE LimiterInv'
  <2>1. CASE UNCHANGED limiterVars
    BY <2>1 DEF LimiterInv, LimiterShape, GuessesCounted, CountBounded, limiterVars
  <2>2. CASE Admits(r, ip) /\ ((~Locked(ip) /\ UNCHANGED <<failures, guesses>>) \/ Forget({ip}))
    BY <2>2, AdmissionPreserves
  <2> QED
    BY <1>1, <2>1, <2>2 DEF IsLockedOut, Refuse
<1>2. ASSUME NEW r \in Attempt, CheckPassword(r) PROVE LimiterInv'
  BY <1>2, CheckPreserves
<1>3. ASSUME NEW r \in Attempt, RecordAuthFailure(r) PROVE LimiterInv'
  BY <1>3, FailurePreserves
<1>4. ASSUME NEW r \in Attempt, RecordAuthSuccess(r) PROVE LimiterInv'
  BY <1>4, SuccessPreserves
<1>5. CASE cleanup \/ Ages
  BY <1>5, TickerPreserves
<1>6. CASE UNCHANGED limiterVars
  BY <1>6 DEF LimiterInv, LimiterShape, GuessesCounted, CountBounded, limiterVars
<1> QED
  BY <1>1, <1>2, <1>3, <1>4, <1>5, <1>6 DEF LimiterNext, Login

LEMMA LimiterTypes == LimiterInv => LimiterTypeOK
<1> SUFFICES ASSUME LimiterInv PROVE LimiterTypeOK
  OBVIOUS
<1>1. ASSUME NEW ip \in Ip PROVE failures[ip] \in 0 .. MaxAuthFail + Cardinality(Attempt)
  BY RequestsFinite, LimiterAssumption DEF LimiterInv, LimiterShape, CountBounded
<1> QED
  BY <1>1 DEF LimiterInv, LimiterShape, LimiterTypeOK

\* What the model counts stays within its types: the failures of an address
\* exceed the threshold by the requests under way at most.
THEOREM LimiterTypeCorrect == LimiterSpec => []LimiterTypeOK
BY LimiterTypes, LimiterInitially, LimiterStep, PTL DEF LimiterSpec

\* Between two lockouts an address tries at most MaxAuthFail - 1 wrong
\* passwords and one for every request in flight (IsLockedOut, the password
\* check and RecordAuthFailure are three separate critical sections).
THEOREM LockoutBoundsGuesses == LimiterSpec => []GuessesBounded
<1>1. LimiterInv => GuessesBounded
  <2> SUFFICES ASSUME LimiterInv, NEW ip \in Ip
               PROVE  guesses[ip] <= MaxAuthFail - 1 + Cardinality(Attempt)
    BY DEF GuessesBounded
  <2>1. guesses[ip] <= failures[ip] + Cardinality(Open(attempt, ip))
    BY RequestsFinite DEF LimiterInv, LimiterShape, GuessesCounted
  <2> QED
    BY <2>1, RequestsFinite, LimiterAssumption DEF LimiterInv, LimiterShape, CountBounded
<1> QED
  BY <1>1, LimiterInitially, LimiterStep, PTL DEF LimiterSpec

-----------------------------------------------------------------------------
(* The three side by side                                                  *)

\* A step of one is a step of that one or leaves it alone: what each keeps for
\* itself it keeps in company.
LEMMA PartsStep ==
  [MCNext]_allVars => [RelayNext]_relayVars /\ [ReplyNext]_replyVars /\ [LimiterNext]_limiterVars
<1> SUFFICES ASSUME [MCNext]_allVars
             PROVE  [RelayNext]_relayVars /\ [ReplyNext]_replyVars /\ [LimiterNext]_limiterVars
  OBVIOUS
<1>1. CASE OnRelay(RelayNext)
  BY <1>1 DEF OnRelay
<1>2. CASE OnReply(ReplyNext)
  BY <1>2 DEF OnReply
<1>3. CASE OnLogin(LimiterNext)
  BY <1>3 DEF OnLogin
<1>4. CASE UNCHANGED allVars
  BY <1>4 DEF allVars
<1>5. QED
  BY <1>1, <1>2, <1>3, <1>4 DEF MCNext

LEMMA PartsInv == MCSpec => [](SendInv /\ Attempting /\ ReplyInv /\ LimiterInv)
<1>1. MCInit => SendInv /\ Attempting /\ ReplyInv /\ LimiterInv
  <2> SUFFICES ASSUME MCInit PROVE SendInv /\ Attempting /\ ReplyInv /\ LimiterInv
    OBVIOUS
  <2>1. RelayInit /\ ReplyInit /\ LimiterInit
    BY DEF MCInit
  <2>2. Attempting
    BY <2>1, AttemptsInitially
  <2>3. QED
    BY <2>1, <2>2, RelayInitially, ReplyInitially, LimiterInitially
<1>2. /\ SendInv /\ Attempting /\ ReplyInv /\ LimiterInv
      /\ [RelayNext]_relayVars /\ [ReplyNext]_replyVars /\ [LimiterNext]_limiterVars
      => SendInv' /\ Attempting' /\ ReplyInv' /\ LimiterInv'
  <2>1. SendInv => PlaceType
    BY DEF SendInv
  <2>2. QED
    BY <2>1, RelayStep, AttemptsStep, ReplyStep, LimiterStep
<1>3. QED
  BY <1>1, <1>2, PartsStep, PTL DEF MCSpec

\* In one server, where sends, replies and logins go on side by side, each
\* keeps its types.
THEOREM ServerTypeCorrect == MCSpec => []MCTypeOK
<1>1. ReplyInv => ReplyTypeOK
  BY DEF ReplyInv
<1>2. SendInv /\ Attempting /\ ReplyInv /\ LimiterInv => MCTypeOK
  BY <1>1, RelayTypes, LimiterTypes DEF MCTypeOK
<1>3. QED
  BY <1>2, PartsInv, PTL
=============================================================================
