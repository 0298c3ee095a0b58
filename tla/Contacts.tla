------------------------------ MODULE Contacts ------------------------------
(***************************************************************************)
(* Contacts over CardDAV (internal/carddav/server.go) and on the web pages *)
(* and JSON API.  PUT and DELETE read the contact by its id, look at the   *)
(* owner and then write, with the calls of other requests in between.      *)
(* Clients choose the ids, so two users who keep the same card use the     *)
(* same one: PostgreSQL has one row for an id, DynamoDB one per owner.     *)
(***************************************************************************)
EXTENDS Database

CONSTANTS Owner, CardId, Data,
          WebId,     \* ids the web pages draw at random
          Req        \* HTTP requests, each made once

VARIABLES backend,   \* which database the server runs on
          cards,     \* its table of contacts
          step,      \* per request: "new", "read", or what it was answered
          req,       \* per request: what it asks for
          raced,     \* (history) the id was written since the request read it
          had        \* (history) <<owner, id>> of contacts a page has shown

cardVars == <<backend, cards, step, req, raced, had>>

NoReq == [kind |-> "none", owner |-> NotFound, id |-> NotFound, data |-> NotFound]

CardInit == /\ backend \in {"sql", "dynamo"}
            /\ cards = [contacts |-> <<>>]
            /\ step = [r \in Req |-> "new"]
            /\ req = [r \in Req |-> NoReq]
            /\ raced = [r \in Req |-> FALSE]
            /\ had = {}

CardTypeOK ==
  /\ \A key \in DOMAIN cards.contacts :
       /\ cards.contacts[key].owner \in Owner
       /\ key \in CardId \cup WebId \cup (Owner \X (CardId \cup WebId))
  /\ step \in [Req -> {"new", "read", "ok", "notfound", "error"}]
  /\ raced \in [Req -> BOOLEAN]
  /\ had \subseteq Owner \X (CardId \cup WebId)

\* The methods of the backend; a read or a removal by id may meet any item.
GetContact(id) ==
  IF backend = "sql" THEN S!GetContact(cards, id) ELSE Y!GetContact(cards, id)
ListContacts(e) ==
  IF backend = "sql" THEN S!ListContacts(cards, e) ELSE Y!ListContacts(cards, e)
CreateContact(c) ==
  IF backend = "sql" THEN S!CreateContact(cards, c) ELSE Y!CreateContact(cards, c)
UpdateContact(c) ==
  IF backend = "sql" THEN S!UpdateContact(cards, c) ELSE Y!UpdateContact(cards, c)
DeleteContact(id) ==
  IF backend = "sql" THEN S!DeleteContact(cards, id) ELSE Y!DeleteContact(cards, id)

Answer(r, a) == step' = [step EXCEPT ![r] = a]
Ask(r, kind, e, id, d) ==
  req' = [req EXCEPT ![r] = [kind |-> kind, owner |-> e, id |-> id, data |-> d]]

\* Request r writes x.db; every other request about the id is overtaken.
Write(r, id, x) ==
  /\ cards' = x.db
  /\ raced' = [q \in Req |-> raced[q] \/ (q # r /\ cards' # cards /\ req[q].id = id)]
  /\ had' = had \cup {<<x.db.contacts[key].owner, x.db.contacts[key].id>> :
                        key \in DOMAIN x.db.contacts}
  /\ UNCHANGED backend
Quiet == UNCHANGED <<backend, cards, raced, had>>

Card(r) == [owner |-> req[r].owner, id |-> req[r].id, data |-> req[r].data]

\* PUT: an own contact is updated, anything else is a creation.
PutReads(r) ==
  /\ step[r] = "new"
  /\ \E e \in Owner, id \in CardId, d \in Data : \E c \in GetContact(id) :
       Ask(r, IF c # NotFound /\ c.owner = e THEN "update" ELSE "create", e, id, d)
  /\ Answer(r, "read")
  /\ Quiet

\* The error of UpdateContact is dropped, and so is that it found no row.
PutUpdates(r) ==
  /\ step[r] = "read" /\ req[r].kind = "update"
  /\ Write(r, req[r].id, UpdateContact(Card(r)))
  /\ Answer(r, "ok")
  /\ UNCHANGED req
PutCreatesFaulty(r) ==   \* Fault: a creation that is refused is answered like one
  /\ step[r] = "read" /\ req[r].kind = "create"
  /\ Write(r, req[r].id, CreateContact(Card(r)))
  /\ Answer(r, "ok")
  /\ UNCHANGED req
PutCreates(r) ==
  /\ step[r] = "read" /\ req[r].kind = "create"
  /\ LET x == CreateContact(Card(r))
     IN Write(r, req[r].id, x) /\ Answer(r, IF x.ok THEN "ok" ELSE "error")
  /\ UNCHANGED req

DeleteReadsFaulty(r) ==   \* Fault: the owner is not compared
  /\ step[r] = "new"
  /\ \E e \in Owner, id \in CardId : \E c \in GetContact(id) :
       /\ Ask(r, "delete", e, id, NotFound)
       /\ Answer(r, IF c # NotFound THEN "read" ELSE "notfound")
  /\ Quiet
DeleteReads(r) ==
  /\ step[r] = "new"
  /\ \E e \in Owner, id \in CardId : \E c \in GetContact(id) :
       /\ Ask(r, "delete", e, id, NotFound)
       /\ Answer(r, IF c # NotFound /\ c.owner = e THEN "read" ELSE "notfound")
  /\ Quiet
Deletes(r) ==
  /\ step[r] = "read" /\ req[r].kind = "delete"
  /\ \E x \in DeleteContact(req[r].id) : Write(r, req[r].id, x)
  /\ Answer(r, "ok")
  /\ UNCHANGED req

\* The pages draw the id of a new contact, and delete what they have shown.
WebCreates(r) ==
  /\ step[r] = "new"
  /\ \E e \in Owner, id \in WebId, d \in Data :
       /\ \A q \in Req : req[q].id # id
       /\ Ask(r, "webcreate", e, id, d)
       /\ Write(r, id, CreateContact([owner |-> e, id |-> id, data |-> d]))
  /\ Answer(r, "ok")
WebDeletes(r) ==
  /\ step[r] = "new"
  /\ \E shown \in had : \E x \in DeleteContact(shown[2]) :
       /\ Ask(r, "webdelete", shown[1], shown[2], NotFound)
       /\ Write(r, shown[2], x)
       /\ Answer(r, IF x.ok THEN "ok" ELSE "error")

CardNext == \E r \in Req : \/ PutReads(r) \/ PutUpdates(r) \/ PutCreates(r)
                           \/ DeleteReads(r) \/ Deletes(r)
                           \/ WebCreates(r) \/ WebDeletes(r)
CardSpec == CardInit /\ [][CardNext]_cardVars

-----------------------------------------------------------------------------
(* Properties                                                              *)

OwnedBy(e, id, table) ==
  {c \in {table.contacts[key] : key \in DOMAIN table.contacts} : c.owner = e /\ c.id = id}

\* A PUT that was answered with success is in the user's address book with
\* the data it brought, unless a request about the same id wrote since the
\* PUT read it: an update that finds its row gone reports success too.
AnsweredPutStored ==
  \A r \in Req : step[r] = "ok" /\ req[r].kind \in {"update", "create"} /\ ~raced[r] =>
    \E c \in OwnedBy(req[r].owner, req[r].id, cards) : c.data = req[r].data

\* A request changes the contacts of its own user only, except where another
\* user has the same card: on PostgreSQL after a race about its one row or
\* from a page that still shows it, on DynamoDB because a removal by id
\* meets either item.
OthersUntouched ==
  [][\A r \in Req : step'[r] # step[r] =>
       \A e \in Owner \ {req'[r].owner} :
         OwnedBy(e, req'[r].id, cards') # OwnedBy(e, req'[r].id, cards) =>
           \/ raced[r]
           \/ req'[r].kind = "webdelete"
           \/ backend = "dynamo" /\ OwnedBy(req'[r].owner, req'[r].id, cards) # {}
    ]_cardVars
=============================================================================
