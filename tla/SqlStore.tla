------------------------------ MODULE SqlStore ------------------------------
(***************************************************************************)
(* The Database interface over PostgreSQL (internal/store/database.go with *)
(* the statements of postgres.go), one operator per method: the statements *)
(* it runs and what it returns.  Attachments, and the tables of logins and *)
(* sign-ups, are modelled where they are used.                             *)
(***************************************************************************)
EXTENDS Tables, SequencesExt

CONSTANTS DomainOf(_), NotFound

Found(db, t, key) == IF Has(db, t, key) THEN db[t][key] ELSE NotFound

-----------------------------------------------------------------------------
(* user_account: the id is the address                                     *)

CreateUser(db, e, name, hash) ==
  INSERT(db, "users", e, [email |-> e, domain |-> DomainOf(e), name |-> name,
                          hash |-> hash, status |-> "A"])
GetUser(db, e) == Found(db, "users", e)
UserExistsByEmail(db, e) == Has(db, "users", e)
ListUsers(db) == Rows(db, "users")
ListUsersByDomain(db, d) == {u \in ListUsers(db) : u.domain = d}
\* Both columns are set, an empty password hash included.
UpdateUser(db, e, name, hash) ==
  UPDATE(db, "users", e, [name |-> name, hash |-> hash])
UpdateUserStatus(db, e, status) == UPDATE(db, "users", e, [status |-> status])
DeleteUser(db, e) == DELETE(db, "users", {e})

-----------------------------------------------------------------------------
(* mail_content                                                            *)

SaveMessage(db, m) == INSERT(db, "messages", m.id, Over(m, [deleted |-> FALSE]))
Shown(db, e) == {m \in Rows(db, "messages") : m.owner = e /\ ~m.deleted}
ListMessages(db, e, folder) == {m \in Shown(db, e) : m.folder = folder}
ListAllMessages(db, e) == Shown(db, e)
GetMessage(db, id) == Found(db, "messages", id)
MarkSeen(db, id) == UPDATE(db, "messages", id, [seen |-> TRUE])
MarkDeleted(db, id) == UPDATE(db, "messages", id, [deleted |-> TRUE])
DeleteMessage(db, id) == DELETE(db, "messages", {id})
DeleteUserMessages(db, e) ==
  DELETE(db, "messages", {id \in DOMAIN db["messages"] : db["messages"][id].owner = e})
ListUserFolders(db, e) == {m.folder : m \in Shown(db, e)}
CountUnread(db, e, folder) == Cardinality({m \in ListMessages(db, e, folder) : ~m.seen})
SearchMessages(db, e, word) == {m \in Shown(db, e) : word \in m.text}

-----------------------------------------------------------------------------
(* mail_alias, mailing_list, list_member                                   *)

CreateAlias(db, a, targets) ==
  INSERT(db, "aliases", a, [alias |-> a, targets |-> targets])
GetAlias(db, a) ==
  IF Has(db, "aliases", a) THEN db["aliases"][a].targets ELSE NotFound
ListAliases(db) == Rows(db, "aliases")
UpdateAlias(db, a, targets) == UPDATE(db, "aliases", a, [targets |-> targets])
DeleteAlias(db, a) == DELETE(db, "aliases", {a})

CreateMailingList(db, l, owner) ==
  INSERT(db, "lists", l, [list |-> l, owner |-> owner])
GetMailingList(db, l) == Found(db, "lists", l)
ListMailingLists(db) == Rows(db, "lists")
IsMailingList(db, l) == Has(db, "lists", l)
Members(db, l) == {key \in DOMAIN db["members"] : key[1] = l}
\* Two statements; Directory has the case where the first one fails.
DeleteMailingList(db, l) ==
  DELETE(DELETE(db, "members", Members(db, l)).db, "lists", {l})
\* ON CONFLICT DO NOTHING
AddListMember(db, l, e) ==
  INSERTorUPDATE(db, "members", <<l, e>>, [list |-> l, member |-> e])
RemoveListMember(db, l, e) == DELETE(db, "members", {<<l, e>>})
GetListMembers(db, l) == {key[2] : key \in Members(db, l)}

-----------------------------------------------------------------------------
(* mail_filter                                                             *)

CreateFilter(db, f) == INSERT(db, "filters", f.id, f)
\* ORDER BY priority DESC; filters of one priority come in any order.
ListFilters(db, e) ==
  {s \in SetToSeqs({f \in Rows(db, "filters") : f.user = e}) :
     \A i, j \in DOMAIN s : i < j => s[i].priority >= s[j].priority}
UpdateFilter(db, f) ==
  UPDATE(db, "filters", f.id,
         [priority |-> f.priority, conditions |-> f.conditions,
          actions |-> f.actions, enabled |-> f.enabled])
DeleteFilter(db, id) == DELETE(db, "filters", {id})

-----------------------------------------------------------------------------
(* auto_reply, auto_reply_log                                              *)

SetAutoReply(db, e, reply) ==
  INSERTorUPDATE(db, "replies", e, [user |-> e, reply |-> reply])
GetAutoReply(db, e) == Found(db, "replies", e)
DeleteAutoReply(db, e) == DELETE(db, "replies", {e})
RecordAutoReplySent(db, e, sender, now) ==
  INSERTorUPDATE(db, "log", <<e, sender>>, [sent |-> now])
\* sent_at > now - cooldown
HasAutoRepliedRecently(db, e, sender, now, cooldown) ==
  Has(db, "log", <<e, sender>>) /\ db["log"][<<e, sender>>].sent + cooldown > now

-----------------------------------------------------------------------------
(* user_contact: the id is unique among all owners                         *)

CreateContact(db, c) == INSERT(db, "contacts", c.id, c)
\* What a read by id may return: one row, or nothing.
GetContact(db, id) == {Found(db, "contacts", id)}
ListContacts(db, e) == {c \in Rows(db, "contacts") : c.owner = e}
UpdateContact(db, c) == UPDATE(db, "contacts", c.id, [data |-> c.data])
DeleteContact(db, id) == {DELETE(db, "contacts", {id})}

-----------------------------------------------------------------------------
(* domain                                                                  *)

CreateDomain(db, d, ses, dkim) ==
  INSERT(db, "domains", d, [domain |-> d, ses |-> ses, dkim |-> dkim])
GetDomain(db, d) == Found(db, "domains", d)
ListDomains(db) == Rows(db, "domains")
UpdateDomainStatus(db, d, ses, dkim) ==
  UPDATE(db, "domains", d, [ses |-> ses, dkim |-> dkim])
DeleteDomain(db, d) == DELETE(db, "domains", {d})

-----------------------------------------------------------------------------
(* oauth_client, oauth_code, oauth_token                                   *)

CreateOAuthClient(db, c) == INSERT(db, "clients", c.id, c)
GetOAuthClient(db, id) == {c \in Rows(db, "clients") : c.client = id}
DeleteOAuthClient(db, id) == DELETE(db, "clients", {id})
CreateOAuthCode(db, code, client, until) ==
  INSERT(db, "codes", code, [client |-> client, until |-> until, used |-> FALSE])
GetOAuthCode(db, code) == Found(db, "codes", code)
MarkOAuthCodeUsed(db, code) == UPDATE(db, "codes", code, [used |-> TRUE])
CreateOAuthToken(db, token, client, until) ==
  INSERT(db, "tokens", token, [client |-> client, until |-> until])
GetOAuthToken(db, token) == Found(db, "tokens", token)
DeleteOAuthToken(db, token) == DELETE(db, "tokens", {token})
=============================================================================
