----------------------------- MODULE MCBackends -----------------------------
EXTENDS Backends, Contacts, TLC

CONSTANTS a, b, example

\* The methods of one part of the interface touch its tables only, so a
\* behaviour stays in one part.
VARIABLE part
Parts == {"accounts", "mail", "directory", "filters", "replies", "domains", "oauth", "contacts"}

MCDomainOf(e) == example
MCMessage ==
  {[id |-> "m1", owner |-> a, folder |-> "INBOX", seen |-> FALSE, received |-> 2, text |-> {"x"}],
   [id |-> "m2", owner |-> a, folder |-> "Sent", seen |-> TRUE, received |-> 3, text |-> {}],
   [id |-> "m3", owner |-> b, folder |-> "INBOX", seen |-> FALSE, received |-> 1, text |-> {"x"}]}
MCTarget == {{a}, {a, b}}

On(field, operator, value) == [field |-> field, operator |-> operator, value |-> value]
Filter(priority, conditions, move, read, enabled) ==
  [priority |-> priority, conditions |-> conditions, enabled |-> enabled,
   actions |-> [move |-> move, read |-> read, delete |-> FALSE, flag |-> ~read]]
MCBody ==
  {Filter(2, {On("from", "contains", {"news", "offers"})}, "News", FALSE, TRUE),
   Filter(1, {On("subject", "exists", {""}), On("from", "not_contains", {"news"})}, "Talk", FALSE, TRUE),
   Filter(1, {On("subject", "equals", {"hello"})}, "", TRUE, TRUE),
   Filter(2, {On("attachment_size_gt", "", 5)}, "Large", TRUE, TRUE),
   Filter(1, {}, "Never", TRUE, TRUE),
   Filter(1, {On("to", "exists", {""})}, "Off", FALSE, FALSE)}
Letter(from, subject, size) ==
  [from |-> from, to |-> {}, subject |-> subject, header |-> {}, size |-> size]
MCMail == {Letter({"offers"}, {}, 9), Letter({"someone"}, {"hello"}, 9), Letter({}, {}, 0)}
MCClient == {[id |-> "i1", domain |-> example, client |-> "c1"],
             [id |-> "i2", domain |-> example, client |-> "c2"]}

MCInit == BackInit /\ CardInit /\ part \in Parts

MCTypeOK == BackTypeOK /\ CardTypeOK

Calls == \/ part = "accounts" /\ AccountCalls
         \/ part = "mail" /\ MailCalls
         \/ part = "directory" /\ DirectoryCalls
         \/ part = "filters" /\ FilterCalls
         \/ part = "replies" /\ (ReplyCalls \/ Tick)
         \/ part = "domains" /\ DomainCalls
         \/ part = "oauth" /\ (OAuthCalls \/ Tick)
MCNext == /\ \/ part = "contacts" /\ CardNext /\ UNCHANGED backVars
             \/ part # "contacts" /\ Calls /\ UNCHANGED cardVars
          /\ UNCHANGED part
MCSpec == MCInit /\ [][MCNext]_<<backVars, cardVars, part>>
MCSym == Permutations(Req)
=============================================================================
