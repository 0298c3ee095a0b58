------------------------------ MODULE Courier -------------------------------
(***************************************************************************)
(* What the callers of Relay.Send may rely on: a send that returned nil    *)
(* has reached every domain it names (a name without "@" has none), one    *)
(* that returned an error has reached some of them, nobody knows which.    *)
(***************************************************************************)
EXTENDS FiniteSets

CONSTANTS Send, Domain, NoDomain

VARIABLES to,       \* per send: the domains of its recipients
          result,   \* per send: "new", "pending", "ok" or "error"
          arrived   \* per send: the domains that have taken the message

courierVars == <<to, result, arrived>>

Init == /\ to = [s \in Send |-> {}]
        /\ result = [s \in Send |-> "new"]
        /\ arrived = [s \in Send |-> {}]

Begin(s) == /\ result[s] = "new"
            /\ result' = [result EXCEPT ![s] = "pending"]
            /\ \E D \in SUBSET (Domain \cup {NoDomain}) : to' = [to EXCEPT ![s] = D]
            /\ UNCHANGED arrived
Deliver(s) == /\ result[s] = "pending"
              /\ \E D \in SUBSET (to[s] \ {NoDomain}) : arrived' = [arrived EXCEPT ![s] = @ \cup D]
              /\ UNCHANGED <<to, result>>
Succeed(s) == /\ result[s] = "pending"
              /\ arrived[s] = to[s] \ {NoDomain}
              /\ result' = [result EXCEPT ![s] = "ok"]
              /\ UNCHANGED <<to, arrived>>
Fail(s) == /\ result[s] = "pending"
           /\ result' = [result EXCEPT ![s] = "error"]
           /\ UNCHANGED <<to, arrived>>

Next == \E s \in Send : Begin(s) \/ Deliver(s) \/ Succeed(s) \/ Fail(s)
Spec == Init /\ [][Next]_courierVars
=============================================================================
