----------------------------- MODULE MCDirectory -----------------------------
(* Three addresses, one of them of another domain; LoopDepth is the program's own 10. *)
EXTENDS Directory, TLC

CONSTANTS a1, a2, a3, d1, d2

MCAddr == {a1, a2, a3}
MCDomain == {d1, d2}
MCDomainOf == [a \in MCAddr |-> IF a = a3 THEN d2 ELSE d1]
MCServedKey == MCAddr \cup {d1}
MCList == {a3}
Sym == Permutations({a1, a2})

\* No operation reads both aliases and lists: one of the two tables stays empty.
OneTable == \/ \A key \in Addr \cup Domain : alias[key] = {}
            \/ list \cup dropping = {} /\ \A l \in List : member[l] = {}
=============================================================================
