---------------------------- MODULE FilterRules -----------------------------
(***************************************************************************)
(* The mail filters (internal/filter/engine.go).  A text is the set of the *)
(* words it contains, the target of a condition the set of its parts, the  *)
(* pieces between "|"; mail has no "|" in its texts.                       *)
(***************************************************************************)
EXTENDS Naturals, Sequences

NoChange == [folder |-> "", read |-> FALSE, delete |-> FALSE, flag |-> FALSE]

\* TrimSpace leaves nothing of an empty part, and every text contains that.
Includes(text, part) == part = "" \/ part \in text

\* An unknown field or operator never matches.  Only "contains" takes the
\* parts one by one: "equals" and "not_contains" compare the target as a
\* whole, which no text contains once there are several parts.
matchCondition(c, m) ==
  IF c.field = "attachment_size_gt" THEN m.size > c.value
  ELSE /\ c.field \in {"from", "to", "subject", "header"}
       /\ LET text == m[c.field]
              whole(p) == c.value = {p}
          IN CASE c.operator = "contains" -> \E p \in c.value : Includes(text, p)
               [] c.operator = "equals" -> \E p \in c.value : whole(p) /\ text = {p} \ {""}
               [] c.operator = "exists" -> text # {}
               [] c.operator = "not_contains" ->
                    ~ \E p \in c.value : whole(p) /\ Includes(text, p)
               [] OTHER -> FALSE

\* A filter without conditions matches nothing.
matchesAllConditions(f, m) ==
  f.conditions # {} /\ \A c \in f.conditions : matchCondition(c, m)

\* "move" overwrites the folder an earlier filter chose; the rest add up.
applyActions(actions, r) ==
  [folder |-> IF actions.move = "" THEN r.folder ELSE actions.move,
   read |-> r.read \/ actions.read,
   delete |-> r.delete \/ actions.delete,
   flag |-> r.flag \/ actions.flag]

Fires(f, m) == f.enabled /\ matchesAllConditions(f, m)

\* Fault: the first filter that does not fire ends the loop.
ApplyFaulty(filters, m) ==
  LET result[i \in 0 .. Len(filters)] ==
        IF i = 0 THEN NoChange
        ELSE IF \A j \in 1 .. i : Fires(filters[j], m)
             THEN applyActions(filters[i].actions, result[i - 1]) ELSE result[i - 1]
  IN result[Len(filters)]
\* Apply runs the enabled filters in the order of the list it is given;
\* result[i] is what the first i of them come to.
Apply(filters, m) ==
  LET result[i \in 0 .. Len(filters)] ==
        IF i = 0 THEN NoChange
        ELSE IF Fires(filters[i], m)
             THEN applyActions(filters[i].actions, result[i - 1]) ELSE result[i - 1]
  IN result[Len(filters)]
=============================================================================
