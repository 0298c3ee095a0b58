------------------------------ MODULE MCRelay -------------------------------
EXTENDS Relay, AutoReply, RateLimiter

CONSTANTS d1, d2, ann, bob, list

\* Sends, automatic replies and logins have nothing in common: a
\* behaviour stays in one of them.
VARIABLE part

MCDomainOf(e) == d1
MCMail == {[to |-> {d1}, requireTLS |-> FALSE],
           [to |-> {d1, d2, NoDomain}, requireTLS |-> TRUE]}
MCMxOf(d) == IF d = d1 THEN {<<<<"mx1", d1>>, <<"mx", "b", d1>>>>} ELSE {<<>>}
Text(mode, mx, age) == <<<<"version", "STSv1">>, <<"mode", mode>>, <<"mx", mx>>>> \o age
MCPolicyOf(d) ==
  IF d = d1 THEN {Text("enforce", <<"*", d1>>, <<>>), Text("testing", <<"*", d1>>, <<<<"max_age", 0>>>>)}
  ELSE {Text("enforce", <<d2>>, <<>>), <<<<"version", "STSv2">>>>}
MCRuaOf(d) == IF d = d1 THEN {d2, ""} ELSE {d2}
MCRelayHost == <<"smtp", "external">>

MCPerson == {ann, bob, list}
MCLetter == {<<ann, bob>>, <<list, ann>>}
During(from, until) == [enabled |-> TRUE, start |-> from, end |-> until]
MCRule(e) == IF e = ann THEN {During(0, 0), During(0, 1)} ELSE {During(1, 0)}

MCInit == /\ RelayInit /\ ReplyInit /\ LimiterInit
          /\ part \in {"relay", "reply", "login"}
          /\ external => part = "relay"

MCTypeOK == RelayTypeOK /\ ReplyTypeOK /\ LimiterTypeOK

OnRelay(A) == part = "relay" /\ A /\ UNCHANGED <<replyVars, limiterVars, part>>
OnReply(A) == part = "reply" /\ A /\ UNCHANGED <<relayVars, limiterVars, part>>
OnLogin(A) == part = "login" /\ A /\ UNCHANGED <<relayVars, replyVars, part>>
MCNext == OnRelay(RelayNext) \/ OnReply(ReplyNext) \/ OnLogin(LimiterNext)
allVars == <<relayVars, replyVars, limiterVars, part>>
MCSpec == /\ MCInit /\ [][MCNext]_allVars
          /\ \A j \in Job : WF_allVars(OnReply(ProcessAutoReply(j)))
          /\ WF_allVars(OnLogin(Ages)) /\ WF_allVars(OnLogin(cleanup))
=============================================================================
