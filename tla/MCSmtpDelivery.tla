--------------------------- MODULE MCSmtpDelivery ---------------------------
(***************************************************************************)
(* Two accounts, a mailing list they are members of, and an address of a   *)
(* server elsewhere; an account may be an alias for others as well, one of *)
(* them elsewhere.                                                         *)
(***************************************************************************)
EXTENDS SmtpDelivery, TLC

CONSTANTS ann, bob, team, far, home, away, m1, m2, s1, s2

MCAddr == {ann, bob, team, far}
MCDomain == {home, away}
MCDomainOf == [a \in MCAddr |-> IF a = far THEN away ELSE home]
MCList == {team}
MCNone == {}
MCServed == {home}

NoAlias == [key \in MCAddr \cup MCDomain |-> {}]
Members == [l \in MCList |-> {ann, bob}]
Filled(aliases) == [users |-> {ann, bob}, aliases |-> aliases,
                    lists |-> MCList, members |-> Members]

MCTables == {Filled(NoAlias), Filled([NoAlias EXCEPT ![ann] = {ann, bob}]),
             Filled([NoAlias EXCEPT ![bob] = {ann, far}])}

MCSender == {ann, far}
MCOneMsg == {m1}
MCMsg == {m1, m2}
MCSession == {s1, s2}
MCOneSession == {s1}
MCFragile == {bob}

\* The empty To makes the envelope stand in for it; the other message names a
\* list twice and an address of each kind.
NoHeader == [to |-> {}, cc |-> {}]
MCHeader == {NoHeader, [to |-> {team, bob}, cc |-> {team, far}]}

Quiet(s) == phase[s] = "ready" /\ login[s] = Nobody
Plain == /\ \A m \in Msg : header[m] = NoHeader /\ ~blind[<<m, 1>>]
         /\ \A key \in DOMAIN alias : alias[key] = {}

\* One message of any kind on one connection, then silence.
OneMessage == /\ Quiet(s2) /\ header[m2] = NoHeader /\ tries[m2] = 0
              /\ tries[m1] = 1 => /\ phase[s1] # "mail"
                                  /\ login[s1] \in {Nobody, author[<<m1, 1>>][1]}

\* Two plain messages on one connection.
TwoMessages == /\ Plain /\ Quiet(s2)
               /\ login[s1] # bob /\ from[s1] # ann /\ env[s1] \subseteq {bob, far}

\* A logged-in sender and a stranger at the same time.
TwoSessions == /\ Plain
               /\ login[s1] # bob /\ from[s1] # far /\ env[s1] \subseteq {far}
               /\ login[s2] = Nobody /\ from[s2] # ann /\ env[s2] \subseteq {ann}
               /\ \A m \in Msg : sort[<<m, 1>>] \notin {"raw", "refused"}
               /\ tries[m1] = 1 => author[<<m1, 1>>][1] # Nobody
               /\ tries[m2] = 1 => author[<<m2, 1>>][1] = Nobody

MCCases == OneMessage \/ TwoMessages \/ TwoSessions
=============================================================================
