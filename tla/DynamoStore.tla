---------------------------- MODULE DynamoStore -----------------------------
(***************************************************************************)
(* The Database interface over DynamoDB (internal/store/dynamodb.go), one  *)
(* operator per method.  Times are ticks, Res of them to a second: the     *)
(* sort key of a message has every tick, its received_at only the second.  *)
(* A read by id scans for the item and takes the first one; the order of a *)
(* scan is not specified.  The index of message ids is up to date.         *)
(***************************************************************************)
EXTENDS Tables, SequencesExt

CONSTANTS DomainOf(_), NotFound, Res

Seconds(t) == t - (t % Res)

\* An item without the attribute satisfies no filter expression about it.
Having(db, t, a, v) ==
  {key \in DOMAIN db[t] : a \in DOMAIN db[t][key] /\ db[t][key][a] = v}

-----------------------------------------------------------------------------
(* users: partition key email                                              *)

\* The status is written empty; what UpdateItem makes of an account that is
\* not there has no domain and no status.
CreateUser(db, e, name, hash) ==
  PutNewItem(db, "users", e, [email |-> e, domain |-> DomainOf(e), name |-> name,
                              hash |-> hash, status |-> ""])
docUserToModel(u) ==
  [email |-> Attr(u, "email", ""), domain |-> Attr(u, "domain", ""),
   name |-> Attr(u, "name", ""), hash |-> Attr(u, "hash", ""),
   status |-> Attr(u, "status", "")]
getUserByKey(db, e) ==
  IF Has(db, "users", e) THEN docUserToModel(db["users"][e]) ELSE NotFound
GetUser(db, e) == getUserByKey(db, e)
UserExistsByEmail(db, e) == Has(db, "users", e)
ListUsers(db) == {docUserToModel(u) : u \in Rows(db, "users")}
ListUsersByDomain(db, d) ==
  {docUserToModel(db["users"][key]) : key \in Having(db, "users", "domain", d)}
UpdateUser(db, e, name, hash) ==
  UpdateItem(db, "users", e,
             IF hash = "" THEN [email |-> e, name |-> name]
             ELSE [email |-> e, name |-> name, hash |-> hash])
UpdateUserStatus(db, e, status) == Refused(db)
DeleteUser(db, e) == DeleteItem(db, "users", e)

-----------------------------------------------------------------------------
(* messages: partition key owner, sort key received_at#id                  *)

SaveMessage(db, m) ==
  PutItem(db, "messages", <<m.owner, m.received, m.id>>,
          Over([m EXCEPT !.received = Seconds(@)], [deleted |-> FALSE]))
ShownFaulty(db, e) ==   \* Fault: hides what is deleted, not what lacks the mark
  {db["messages"][key] : key \in {k \in DOMAIN db["messages"] :
                          k[1] = e /\ ~Attr(db["messages"][k], "deleted", FALSE)}}
Shown(db, e) ==
  {db["messages"][key] : key \in {k \in Having(db, "messages", "deleted", FALSE) : k[1] = e}}
ListMessages(db, e, folder) == {m \in Shown(db, e) : Attr(m, "folder", "") = folder}
ListAllMessages(db, e) == Shown(db, e)
ById(db, id) == {m \in Rows(db, "messages") : Attr(m, "id", "") = id}
GetMessage(db, id) ==
  IF ById(db, id) = {} THEN NotFound ELSE CHOOSE m \in ById(db, id) : TRUE
\* The key is put together from the message as it was read back.
KeyOf(m) == <<m.owner, m.received, m.id>>
updateMessageField(db, id, item) ==
  LET m == GetMessage(db, id)
  IN IF m = NotFound THEN Refused(db) ELSE UpdateItem(db, "messages", KeyOf(m), item)
MarkSeen(db, id) == updateMessageField(db, id, [seen |-> TRUE])
MarkDeleted(db, id) == updateMessageField(db, id, [deleted |-> TRUE])
DeleteMessage(db, id) ==
  LET m == GetMessage(db, id)
  IN IF m = NotFound THEN Refused(db) ELSE DeleteItem(db, "messages", KeyOf(m))
Owned(db, e) == {key \in DOMAIN db["messages"] : key[1] = e}
\* Nobody looks at the requests BatchWriteItem hands back.
DeleteUserMessages(db, e, unprocessed) ==
  BatchDelete(db, "messages", Owned(db, e), unprocessed)
ListUserFolders(db, e) == {m.folder : m \in {x \in Shown(db, e) : "folder" \in DOMAIN x}}
CountUnread(db, e, folder) ==
  Cardinality({m \in ListMessages(db, e, folder) : ~Attr(m, "seen", FALSE)})
SearchMessages(db, e, word) == {m \in Shown(db, e) : word \in Attr(m, "text", {})}

-----------------------------------------------------------------------------
(* aliases, mailing_lists, list_members                                    *)

CreateAlias(db, a, targets) ==
  PutItem(db, "aliases", a, [alias |-> a, targets |-> targets])
GetAlias(db, a) ==
  IF Has(db, "aliases", a) THEN db["aliases"][a].targets ELSE NotFound
ListAliases(db) == Rows(db, "aliases")
UpdateAlias(db, a, targets) ==
  UpdateItem(db, "aliases", a, [alias |-> a, targets |-> targets])
DeleteAlias(db, a) == DeleteItem(db, "aliases", a)

CreateMailingList(db, l, owner) ==
  PutItem(db, "lists", l, [list |-> l, owner |-> owner])
GetMailingList(db, l) == IF Has(db, "lists", l) THEN db["lists"][l] ELSE NotFound
ListMailingLists(db) == Rows(db, "lists")
IsMailingList(db, l) == Has(db, "lists", l)
Members(db, l) == {key \in DOMAIN db["members"] : key[1] = l}
DeleteMailingListFaulty(db, l, unprocessed) ==   \* Fault: the list goes alone
  DeleteItem(db, "lists", l)
DeleteMailingList(db, l, unprocessed) ==
  DeleteItem(BatchDelete(db, "members", Members(db, l), unprocessed).db, "lists", l)
AddListMemberFaulty(db, l, e) ==   \* Fault: the keys are swapped
  PutItem(db, "members", <<e, l>>, [list |-> l, member |-> e])
AddListMember(db, l, e) ==
  PutItem(db, "members", <<l, e>>, [list |-> l, member |-> e])
RemoveListMember(db, l, e) == DeleteItem(db, "members", <<l, e>>)
GetListMembers(db, l) == {key[2] : key \in Members(db, l)}

-----------------------------------------------------------------------------
(* filters: partition key user, sort key id                                *)

CreateFilter(db, f) == PutItem(db, "filters", <<f.user, f.id>>, f)
\* A query returns the items of a partition by their sort key.
ListFilters(db, e) ==
  {s \in SetToSeqs({f \in Rows(db, "filters") : f.user = e}) :
     \A i, j \in DOMAIN s : i < j => s[i].id < s[j].id}
UpdateFilter(db, f) == CreateFilter(db, f)
FilterKeys(db, id) == {key \in DOMAIN db["filters"] : key[2] = id}
DeleteFilter(db, id) ==
  IF FilterKeys(db, id) = {} THEN Refused(db)
  ELSE DeleteItem(db, "filters", CHOOSE key \in FilterKeys(db, id) : TRUE)

-----------------------------------------------------------------------------
(* auto_replies, auto_reply_log                                            *)

SetAutoReply(db, e, reply) == PutItem(db, "replies", e, [user |-> e, reply |-> reply])
GetAutoReply(db, e) == IF Has(db, "replies", e) THEN db["replies"][e] ELSE NotFound
DeleteAutoReply(db, e) == DeleteItem(db, "replies", e)
RecordAutoReplySent(db, e, sender, now) ==
  PutItem(db, "log", <<e, sender>>, [sent |-> Seconds(now)])
HasAutoRepliedRecently(db, e, sender, now, cooldown) ==
  Has(db, "log", <<e, sender>>) /\ now - db["log"][<<e, sender>>].sent < cooldown

-----------------------------------------------------------------------------
(* contacts: partition key owner, sort key id                              *)

CreateContact(db, c) == PutItem(db, "contacts", <<c.owner, c.id>>, c)
ContactKeys(db, id) == {key \in DOMAIN db["contacts"] : key[2] = id}
GetContact(db, id) ==
  IF ContactKeys(db, id) = {} THEN {NotFound}
  ELSE {db["contacts"][key] : key \in ContactKeys(db, id)}
ListContacts(db, e) == {c \in Rows(db, "contacts") : c.owner = e}
UpdateContactFaulty(db, c) ==   \* Fault: the keys are swapped
  UpdateItem(db, "contacts", <<c.id, c.owner>>, c)
UpdateContact(db, c) ==
  UpdateItem(db, "contacts", <<c.owner, c.id>>, c)
DeleteContact(db, id) ==
  IF ContactKeys(db, id) = {} THEN {Refused(db)}
  ELSE {DeleteItem(db, "contacts", key) : key \in ContactKeys(db, id)}

-----------------------------------------------------------------------------
(* domains                                                                 *)

CreateDomain(db, d, ses, dkim) ==
  PutItem(db, "domains", d, [domain |-> d, ses |-> ses, dkim |-> dkim])
GetDomain(db, d) == IF Has(db, "domains", d) THEN db["domains"][d] ELSE NotFound
ListDomains(db) == Rows(db, "domains")
UpdateDomainStatus(db, d, ses, dkim) ==
  UpdateItem(db, "domains", d, [domain |-> d, ses |-> ses, dkim |-> dkim])
DeleteDomain(db, d) == DeleteItem(db, "domains", d)

-----------------------------------------------------------------------------
(* oauth_clients (partition key domain, sort key id), _codes, _tokens      *)

CreateOAuthClient(db, c) == PutItem(db, "clients", <<c.domain, c.id>>, c)
GetOAuthClient(db, id) == {c \in Rows(db, "clients") : c.client = id}
ClientKeys(db, id) == {key \in DOMAIN db["clients"] : key[2] = id}
DeleteOAuthClient(db, id) ==
  IF ClientKeys(db, id) = {} THEN Refused(db)
  ELSE DeleteItem(db, "clients", CHOOSE key \in ClientKeys(db, id) : TRUE)
CreateOAuthCode(db, code, client, until) ==
  PutItem(db, "codes", code,
          [client |-> client, until |-> Seconds(until), used |-> FALSE])
\* What MarkOAuthCodeUsed leaves of a missing code has the zero time.
GetOAuthCode(db, code) ==
  IF ~Has(db, "codes", code) THEN NotFound
  ELSE LET c == db["codes"][code]
       IN [client |-> Attr(c, "client", ""), until |-> Attr(c, "until", 0), used |-> c.used]
MarkOAuthCodeUsed(db, code) == UpdateItem(db, "codes", code, [used |-> TRUE])
CreateOAuthToken(db, token, client, until) ==
  PutItem(db, "tokens", token, [client |-> client, until |-> Seconds(until)])
GetOAuthToken(db, token) ==
  IF Has(db, "tokens", token) THEN db["tokens"][token] ELSE NotFound
DeleteOAuthToken(db, token) == DeleteItem(db, "tokens", token)
=============================================================================
