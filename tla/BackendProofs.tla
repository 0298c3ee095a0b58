---------------------------- MODULE BackendProofs ----------------------------
(***************************************************************************)
(* The two databases behind one interface.                                 *)
(*   - Contacts: what a PUT and a DELETE may do to the rows of their own   *)
(*     and of other users, for every number of owners, ids and requests,   *)
(*     on either database.                                                 *)
(*   - Backends: the copy in SQL tables and the copy in DynamoDB items     *)
(*     answer every read alike after any sequence of calls, although the   *)
(*     items outlive and outnumber the rows.  BackInv, one conjunct per    *)
(*     table, relates the two copies.                                      *)
(***************************************************************************)
EXTENDS MCBackends, FiniteSetTheorems, TLAPS

-----------------------------------------------------------------------------
(* Contacts                                                                *)

CardIds == CardId \cup WebId
CardRow == [owner : Owner, id : CardIds, data : Data]
\* Where a contact is kept: under its id, or under its owner and its id.
CardKey(c) == IF backend = "sql" THEN c.id ELSE <<c.owner, c.id>>
CardKeys == IF backend = "sql" THEN CardIds ELSE Owner \X CardIds
TableOK(table) ==
  /\ table = [contacts |-> table.contacts]
  /\ DOMAIN table.contacts \subseteq CardKeys
  /\ \A key \in DOMAIN table.contacts : /\ table.contacts[key] \in CardRow
                                        /\ CardKey(table.contacts[key]) = key

CardShape ==
  /\ backend \in {"sql", "dynamo"}
  /\ TableOK(cards)
  /\ step \in [Req -> {"new", "read", "ok", "notfound", "error"}]
  /\ raced \in [Req -> BOOLEAN]
  /\ req = [r \in Req |-> req[r]]
  /\ \A r \in Req : step[r] = "read" =>
       /\ req[r].kind \in {"update", "create", "delete"}
       /\ req[r].owner \in Owner /\ req[r].id \in CardId
       /\ req[r].kind # "delete" => req[r].data \in Data
  /\ had \subseteq Owner \X CardIds

\* What a request found when it read is still there, unless it was overtaken.
FoundKept ==
  \A r \in Req : step[r] = "read" /\ req[r].kind \in {"update", "delete"} /\ ~raced[r] =>
    OwnedBy(req[r].owner, req[r].id, cards) # {}

CardInv == CardShape /\ FoundKept /\ AnsweredPutStored

-----------------------------------------------------------------------------
(* What the calls do to the table.                                         *)

\* The contacts of an owner under an id, as the rows that hold them.
LEMMA Owned ==
  ASSUME NEW e, NEW id, NEW table, NEW c
  PROVE  c \in OwnedBy(e, id, table) <=>
           \E key \in DOMAIN table.contacts :
             c = table.contacts[key] /\ c.owner = e /\ c.id = id
BY DEF OwnedBy

\* Who owns what depends on the rows of that owner and id.
LEMMA SameOwned ==
  ASSUME NEW e, NEW id, NEW s, NEW t,
         \A c : c \in OwnedBy(e, id, s) <=> c \in OwnedBy(e, id, t)
  PROVE  OwnedBy(e, id, s) = OwnedBy(e, id, t)
OBVIOUS

\* The table with a row written, and without the rows under some keys.
Stored(row) == [cards EXCEPT !["contacts"] =
                  [k \in DOMAIN cards.contacts \cup {CardKey(row)} |->
                     IF k = CardKey(row) THEN row ELSE cards.contacts[k]]]
Dropped(K) == [cards EXCEPT !["contacts"] =
                 [k \in DOMAIN cards.contacts \ K |-> cards.contacts[k]]]
\* Only contacts of one id are kept under the keys K.
OnlyOf(K, id) == \A k \in K \cap DOMAIN cards.contacts : cards.contacts[k].id = id

\* A row is written: nobody else's contacts change, and no other id, unless the
\* row replaces one.
LEMMA CardPut ==
  ASSUME CardShape, NEW row \in CardRow, NEW db, db = Stored(row)
  PROVE  /\ TableOK(db)
         /\ row \in OwnedBy(row.owner, row.id, db)
         /\ \A e, i : i # row.id => OwnedBy(e, i, db) = OwnedBy(e, i, cards)
         /\ \A e, i :
              e # row.owner
              /\ (CardKey(row) \in DOMAIN cards.contacts
                    => cards.contacts[CardKey(row)].owner = row.owner)
              => OwnedBy(e, i, db) = OwnedBy(e, i, cards)
<1> DEFINE new == [k \in DOMAIN cards.contacts \cup {CardKey(row)} |->
                     IF k = CardKey(row) THEN row ELSE cards.contacts[k]]
<1>1. db = [contacts |-> db.contacts] /\ db.contacts = new
  <2>1. cards = [contacts |-> cards.contacts]
    BY DEF CardShape, TableOK
  <2>2. db = [contacts |-> new]
    BY <2>1 DEF Stored
  <2>3. QED
    BY <2>2
<1>2. CardKey(row) \in CardKeys
  BY DEF CardShape, CardKey, CardKeys, CardRow
<1>3. /\ DOMAIN new = DOMAIN cards.contacts \cup {CardKey(row)}
      /\ new[CardKey(row)] = row
      /\ \A k \in DOMAIN cards.contacts : k # CardKey(row) => new[k] = cards.contacts[k]
  OBVIOUS
<1> HIDE DEF new
<1>4. /\ DOMAIN cards.contacts \subseteq CardKeys
      /\ \A key \in DOMAIN cards.contacts : /\ cards.contacts[key] \in CardRow
                                            /\ CardKey(cards.contacts[key]) = key
  BY DEF CardShape, TableOK
<1>5. TableOK(db)
  BY <1>1, <1>2, <1>3, <1>4 DEF TableOK
<1>6. row \in OwnedBy(row.owner, row.id, db)
  BY <1>1, <1>3, Owned
<1>7. ASSUME NEW e, NEW i,
             \/ i # row.id
             \/ e # row.owner /\ (CardKey(row) \in DOMAIN cards.contacts
                                    => cards.contacts[CardKey(row)].owner = row.owner)
      PROVE  OwnedBy(e, i, db) = OwnedBy(e, i, cards)
  <2>1. CardKey(row) \in DOMAIN cards.contacts => cards.contacts[CardKey(row)].id = row.id
    BY <1>4 DEF CardShape, CardKey, CardRow
  <2>2. \A k \in DOMAIN new : new[k].owner = e /\ new[k].id = i =>
          k # CardKey(row) /\ k \in DOMAIN cards.contacts /\ new[k] = cards.contacts[k]
    BY <1>3, <1>7
  <2>3. \A k \in DOMAIN cards.contacts :
          cards.contacts[k].owner = e /\ cards.contacts[k].id = i =>
            k # CardKey(row) /\ k \in DOMAIN new /\ new[k] = cards.contacts[k]
    BY <1>3, <1>7, <2>1
  <2>4. \A c : c \in OwnedBy(e, i, db) <=> c \in OwnedBy(e, i, cards)
    BY <1>1, <2>2, <2>3, Owned
  <2>5. QED
    BY <2>4, SameOwned
<1>8. QED
  BY <1>5, <1>6, <1>7

\* Rows of one id are removed: no other id changes.
LEMMA CardDrop ==
  ASSUME CardShape, NEW K, NEW id, NEW db, db = Dropped(K), OnlyOf(K, id)
  PROVE  /\ TableOK(db)
         /\ \A e, i : i # id => OwnedBy(e, i, db) = OwnedBy(e, i, cards)
         /\ \A e, i : OwnedBy(e, i, db) \subseteq OwnedBy(e, i, cards)
<1> DEFINE new == [k \in DOMAIN cards.contacts \ K |-> cards.contacts[k]]
<1>1. db = [contacts |-> db.contacts] /\ db.contacts = new
  <2>1. cards = [contacts |-> cards.contacts]
    BY DEF CardShape, TableOK
  <2>2. db = [contacts |-> new]
    BY <2>1 DEF Dropped
  <2>3. QED
    BY <2>2
<1>2. /\ DOMAIN new = DOMAIN cards.contacts \ K
      /\ \A k \in DOMAIN new : new[k] = cards.contacts[k]
  OBVIOUS
<1> HIDE DEF new
<1>3. TableOK(db)
  BY <1>1, <1>2 DEF CardShape, TableOK
<1>4. ASSUME NEW e, NEW i, NEW c \in OwnedBy(e, i, db) PROVE c \in OwnedBy(e, i, cards)
  BY <1>1, <1>2, Owned
<1>5. ASSUME NEW e, NEW i, i # id PROVE OwnedBy(e, i, db) = OwnedBy(e, i, cards)
  <2>1. \A c : c \in OwnedBy(e, i, db) <=> c \in OwnedBy(e, i, cards)
    BY <1>1, <1>2, <1>5, Owned DEF OnlyOf
  <2>2. QED
    BY <2>1, SameOwned
<1>6. QED
  BY <1>3, <1>4, <1>5

\* CreateContact: stored where it reports success, and nobody else's is touched.
LEMMA Creates ==
  ASSUME CardShape, NEW c \in CardRow, NEW x, x = CreateContact(c)
  PROVE  /\ TableOK(x.db)
         /\ x.ok => c \in OwnedBy(c.owner, c.id, x.db)
         /\ \A e, i : i # c.id \/ e # c.owner => OwnedBy(e, i, x.db) = OwnedBy(e, i, cards)
<1>1. CASE backend = "sql" /\ c.id \in DOMAIN cards.contacts
  <2>1. x.db = cards /\ x.ok = FALSE
    BY <1>1 DEF CreateContact, S!CreateContact, S!INSERT, S!Has, S!Refused
  <2>2. QED
    BY <2>1 DEF CardShape
<1>2. CASE ~(backend = "sql" /\ c.id \in DOMAIN cards.contacts)
  <2>1. x.db = Stored(c)
    <3>1. CASE backend = "sql"
      BY <1>2, <3>1 DEF CreateContact, S!CreateContact, S!INSERT, S!Has, S!Done, S!With, CardKey, Stored
    <3>2. CASE backend # "sql"
      BY <3>2 DEF CreateContact, Y!CreateContact, Y!PutItem, Y!Done, Y!With, CardKey, Stored
    <3>3. QED
      BY <3>1, <3>2
  <2>2. CardKey(c) \in DOMAIN cards.contacts => cards.contacts[CardKey(c)].owner = c.owner
    BY <1>2 DEF CardShape, TableOK, CardKey, CardRow
  <2>3. PICK db : db = x.db
    OBVIOUS
  <2>4. /\ TableOK(db) /\ c \in OwnedBy(c.owner, c.id, db)
        /\ \A e, i : i # c.id => OwnedBy(e, i, db) = OwnedBy(e, i, cards)
        /\ \A e, i : e # c.owner => OwnedBy(e, i, db) = OwnedBy(e, i, cards)
    BY <2>1, <2>2, <2>3, CardPut
  <2>5. QED
    BY <2>3, <2>4
<1>3. QED
  BY <1>1, <1>2

\* UpdateContact: a contact its owner has gets the data, and nobody else's does.
LEMMA Updates ==
  ASSUME CardShape, NEW c \in CardRow, NEW x, x = UpdateContact(c)
  PROVE  /\ TableOK(x.db)
         /\ \A e, i : i # c.id => OwnedBy(e, i, x.db) = OwnedBy(e, i, cards)
         /\ OwnedBy(c.owner, c.id, cards) # {} =>
              /\ \E d \in OwnedBy(c.owner, c.id, x.db) : d.data = c.data
              /\ \A e, i : e # c.owner => OwnedBy(e, i, x.db) = OwnedBy(e, i, cards)
<1>0. /\ \A key \in DOMAIN cards.contacts : /\ cards.contacts[key] \in CardRow
                                            /\ CardKey(cards.contacts[key]) = key
      /\ backend \in {"sql", "dynamo"}
  BY DEF CardShape, TableOK
<1>1. CASE backend = "sql" /\ c.id \notin DOMAIN cards.contacts
  <2>1. x.db = cards
    BY <1>1 DEF UpdateContact, S!UpdateContact, S!UPDATE, S!Has, S!Done
  <2>2. OwnedBy(c.owner, c.id, cards) = {}
    BY <1>0, <1>1, Owned DEF CardKey
  <2>3. QED
    BY <2>1, <2>2 DEF CardShape
<1>2. CASE backend = "sql" /\ c.id \in DOMAIN cards.contacts
  <2>1. PICK old \in CardRow : old = cards.contacts[c.id] /\ old.id = c.id
    BY <1>0, <1>2 DEF CardKey
  <2> DEFINE row == [owner |-> old.owner, id |-> c.id, data |-> c.data]
  <2>2. S!Over([data |-> c.data], old) = row
    <3>1. DOMAIN old = {"owner", "id", "data"}
      BY <2>1 DEF CardRow
    <3>2. DOMAIN [data |-> c.data] = {"data"} /\ [data |-> c.data]["data"] = c.data
      OBVIOUS
    <3>3. S!Over([data |-> c.data], old)
            = [at \in {"owner", "id", "data"} |-> IF at = "data" THEN c.data ELSE old[at]]
      BY <3>1, <3>2 DEF S!Over
    <3>4. QED
      BY <2>1, <3>3
  <2>3. row \in CardRow /\ CardKey(row) = c.id
    BY <1>2, <2>1 DEF CardRow, CardKey
  <2>4. PICK db : db = x.db
    OBVIOUS
  <2>5. db = Stored(row)
    BY <1>2, <2>1, <2>2, <2>3, <2>4
    DEF UpdateContact, S!UpdateContact, S!UPDATE, S!Has, S!Done, S!With, Stored
  <2>6. row.owner = old.owner /\ row.id = c.id /\ row.data = c.data
    OBVIOUS
  <2> HIDE DEF row
  <2>7. /\ TableOK(db)
        /\ row \in OwnedBy(row.owner, row.id, db)
        /\ \A e, i : i # row.id => OwnedBy(e, i, db) = OwnedBy(e, i, cards)
        /\ \A e, i : e # row.owner => OwnedBy(e, i, db) = OwnedBy(e, i, cards)
    BY <2>1, <2>3, <2>5, <2>6, CardPut
  <2>8. OwnedBy(c.owner, c.id, cards) # {} => old.owner = c.owner
    BY <1>0, <1>2, <2>1, Owned DEF CardKey
  <2>9. QED
    BY <2>4, <2>6, <2>7, <2>8
<1>3. CASE backend = "dynamo"
  <2> DEFINE old == Y!Row(cards, "contacts", <<c.owner, c.id>>)
  <2>1. DOMAIN old \subseteq {"owner", "id", "data"}
    <3>1. CASE <<c.owner, c.id>> \in DOMAIN cards.contacts
      <4>1. old \in CardRow
        BY <1>0, <3>1 DEF Y!Row
      <4> HIDE DEF old
      <4>2. QED
        BY <4>1 DEF CardRow
    <3>2. CASE <<c.owner, c.id>> \notin DOMAIN cards.contacts
      <4>1. old = <<>>
        BY <3>2 DEF Y!Row
      <4>2. QED
        BY <4>1
    <3>3. QED
      BY <3>1, <3>2
  <2> HIDE DEF old
  <2>2. Y!Over(c, old) = c
    <3>1. DOMAIN c = {"owner", "id", "data"} /\ c = [at \in {"owner", "id", "data"} |-> c[at]]
      BY DEF CardRow
    <3>2. QED
      BY <2>1, <3>1 DEF Y!Over
  <2>3. CardKey(c) = <<c.owner, c.id>>
    BY <1>3 DEF CardKey
  <2>4. PICK db : db = x.db
    OBVIOUS
  <2>5. db = Stored(c)
    BY <1>3, <2>2, <2>3, <2>4
    DEF UpdateContact, Y!UpdateContact, Y!UpdateItem, Y!Done, Y!With, old, Stored
  <2>6. CardKey(c) \in DOMAIN cards.contacts => cards.contacts[CardKey(c)].owner = c.owner
    BY <1>0, <1>3 DEF CardKey
  <2>7. /\ TableOK(db) /\ c \in OwnedBy(c.owner, c.id, db)
        /\ \A e, i : i # c.id => OwnedBy(e, i, db) = OwnedBy(e, i, cards)
        /\ \A e, i : e # c.owner => OwnedBy(e, i, db) = OwnedBy(e, i, cards)
    BY <2>5, <2>6, CardPut
  <2>8. QED
    BY <2>4, <2>7
<1>4. QED
  BY <1>0, <1>1, <1>2, <1>3

\* DeleteContact: PostgreSQL removes the one row there is of an id, DynamoDB any
\* item that has it.
LEMMA Removals ==
  ASSUME CardShape, NEW id, NEW x \in DeleteContact(id)
  PROVE  /\ TableOK(x.db)
         /\ \A e, i : i # id => OwnedBy(e, i, x.db) = OwnedBy(e, i, cards)
         /\ \A o : backend = "sql" /\ OwnedBy(o, id, cards) # {} =>
              \A e : e # o => OwnedBy(e, id, x.db) = OwnedBy(e, id, cards)
<1>0. /\ \A key \in DOMAIN cards.contacts : /\ cards.contacts[key] \in CardRow
                                            /\ CardKey(cards.contacts[key]) = key
      /\ backend \in {"sql", "dynamo"}
  BY DEF CardShape, TableOK
<1>1. PICK db : db = x.db
  OBVIOUS
<1>2. \/ db = cards
      \/ \E K : OnlyOf(K, id) /\ db = Dropped(K)
  <2>1. CASE backend = "sql"
    <3>1. db = Dropped({id})
      BY <1>1, <2>1 DEF DeleteContact, S!DeleteContact, S!DELETE, S!Done, S!Without, Dropped
    <3>2. OnlyOf({id}, id)
      BY <1>0, <2>1 DEF CardKey, OnlyOf
    <3>3. QED
      BY <3>1, <3>2
  <2>2. CASE backend = "dynamo" /\ Y!ContactKeys(cards, id) = {}
    BY <1>1, <2>2 DEF DeleteContact, Y!DeleteContact, Y!Refused
  <2>3. CASE backend = "dynamo" /\ Y!ContactKeys(cards, id) # {}
    <3>1. PICK key \in Y!ContactKeys(cards, id) : x = Y!DeleteItem(cards, "contacts", key)
      BY <2>3 DEF DeleteContact, Y!DeleteContact
    <3>2. db = Dropped({key})
      BY <1>1, <3>1 DEF Y!DeleteItem, Y!Done, Y!Without, Dropped
    <3>3. key \in DOMAIN cards.contacts /\ key[2] = id
      BY <3>1 DEF Y!ContactKeys
    <3>4. OnlyOf({key}, id)
      BY <1>0, <2>3, <3>3 DEF CardKey, OnlyOf
    <3>5. QED
      BY <3>2, <3>4
  <2>4. QED
    BY <1>0, <2>1, <2>2, <2>3
<1>3. /\ TableOK(db)
      /\ \A e, i : i # id => OwnedBy(e, i, db) = OwnedBy(e, i, cards)
      /\ \A e, i : OwnedBy(e, i, db) \subseteq OwnedBy(e, i, cards)
  <2>1. CASE db = cards
    BY <2>1 DEF CardShape
  <2>2. CASE db # cards
    <3>1. PICK K : OnlyOf(K, id) /\ db = Dropped(K)
      BY <1>2, <2>2
    <3>2. /\ TableOK(db)
          /\ \A e, i : i # id => OwnedBy(e, i, db) = OwnedBy(e, i, cards)
          /\ \A e, i : OwnedBy(e, i, db) \subseteq OwnedBy(e, i, cards)
      BY <3>1, CardDrop
    <3>3. QED
      BY <3>2
  <2>3. QED
    BY <2>1, <2>2
<1>4. ASSUME NEW o, backend = "sql", OwnedBy(o, id, cards) # {}, NEW e, e # o
      PROVE  OwnedBy(e, id, db) = OwnedBy(e, id, cards)
  <2>1. OwnedBy(e, id, cards) = {}
    BY <1>0, <1>4, Owned DEF CardKey
  <2>2. QED
    BY <1>3, <2>1
<1>5. QED
  BY <1>1, <1>3, <1>4

-----------------------------------------------------------------------------
(* The requests.                                                           *)

\* A request about an id writes and answers: requests about other ids find
\* their contacts as they were, the others about this id are overtaken.
LEMMA WriteKeeps ==
  ASSUME CardInv, NEW r \in Req, NEW id, NEW x, Write(r, id, x), TableOK(x.db),
         \A e, i : i # id => OwnedBy(e, i, x.db) = OwnedBy(e, i, cards),
         NEW ans \in {"ok", "notfound", "error"}, Answer(r, ans),
         req' = [q \in Req |-> req'[q]], \A q \in Req \ {r} : req'[q] = req[q],
         ans = "ok" /\ req'[r].kind \in {"update", "create"} /\ ~raced[r] =>
           \E c \in OwnedBy(req'[r].owner, req'[r].id, x.db) : c.data = req'[r].data
  PROVE  CardInv'
<1>1. PICK db : db = x.db
  OBVIOUS
<1>2. /\ cards' = db /\ backend' = backend
      /\ raced' = [q \in Req |-> raced[q] \/ (q # r /\ db # cards /\ req[q].id = id)]
      /\ had' = had \cup {<<db.contacts[key].owner, db.contacts[key].id>> :
                            key \in DOMAIN db.contacts}
  BY <1>1 DEF Write
<1>3. step' = [step EXCEPT ![r] = ans]
  BY DEF Answer
<1>4. TableOK(db) /\ \A e, i : i # id => OwnedBy(e, i, db) = OwnedBy(e, i, cards)
  BY <1>1
<1>5. /\ step \in [Req -> {"new", "read", "ok", "notfound", "error"}]
      /\ step'[r] = ans /\ \A q \in Req \ {r} : step'[q] = step[q]
  BY <1>3 DEF CardInv, CardShape
<1>6. CardShape'
  <2>1. TableOK(cards)'
    BY <1>2, <1>4 DEF TableOK, CardKey, CardKeys
  <2>2. had' \subseteq Owner \X CardIds
    BY <1>2, <1>4 DEF CardInv, CardShape, TableOK, CardRow
  <2>3. step' \in [Req -> {"new", "read", "ok", "notfound", "error"}]
    BY <1>3, <1>5
  <2>4. raced' \in [Req -> BOOLEAN]
    BY <1>2 DEF CardInv, CardShape
  <2>5. \A q \in Req : step'[q] = "read" =>
          /\ req'[q].kind \in {"update", "create", "delete"}
          /\ req'[q].owner \in Owner /\ req'[q].id \in CardId
          /\ req'[q].kind # "delete" => req'[q].data \in Data
    BY <1>5 DEF CardInv, CardShape
  <2>6. QED
    BY <1>2, <2>1, <2>2, <2>3, <2>4, <2>5 DEF CardInv, CardShape
<1>7. ASSUME NEW q \in Req \ {r}, ~raced'[q]
      PROVE  ~raced[q] /\ OwnedBy(req[q].owner, req[q].id, db) = OwnedBy(req[q].owner, req[q].id, cards)
  <2>1. ~raced[q] /\ (db = cards \/ req[q].id # id)
    BY <1>2, <1>7
  <2>2. QED
    BY <1>4, <2>1
<1>8. FoundKept'
  BY <1>2, <1>5, <1>7 DEF CardInv, FoundKept
<1>9. AnsweredPutStored'
  <2>1. SUFFICES ASSUME NEW q \in Req, step'[q] = "ok", req'[q].kind \in {"update", "create"},
                        ~raced'[q]
                 PROVE  \E c \in OwnedBy(req'[q].owner, req'[q].id, db) : c.data = req'[q].data
    BY <1>2 DEF AnsweredPutStored
  <2>2. CASE q = r
    <3>1. ~raced[r]
      BY <1>2, <2>1, <2>2
    <3>2. QED
      BY <1>1, <1>5, <2>1, <2>2, <3>1
  <2>3. CASE q # r
    BY <1>5, <1>7, <2>1, <2>3 DEF CardInv, AnsweredPutStored
  <2>4. QED
    BY <2>2, <2>3
<1>10. QED
  BY <1>6, <1>8, <1>9 DEF CardInv

\* A request that reads finds a contact of its user, or is answered.
LEMMA ReadKeeps ==
  ASSUME CardInv, NEW r \in Req, step[r] = "new", Quiet,
         NEW kind \in {"update", "create", "delete"}, NEW e \in Owner, NEW id \in CardId, NEW d,
         kind # "delete" => d \in Data, Ask(r, kind, e, id, d),
         NEW ans \in {"read", "notfound"}, Answer(r, ans),
         ans = "read" /\ kind # "create" => OwnedBy(e, id, cards) # {}
  PROVE  CardInv'
<1>1. /\ step' \in [Req -> {"new", "read", "ok", "notfound", "error"}]
      /\ step'[r] = ans /\ \A q \in Req \ {r} : step'[q] = step[q]
  BY DEF Answer, CardInv, CardShape
<1>2. /\ req' = [q \in Req |-> req'[q]] /\ \A q \in Req \ {r} : req'[q] = req[q]
      /\ req'[r] = [kind |-> kind, owner |-> e, id |-> id, data |-> d]
  BY DEF Ask, CardInv, CardShape
<1>3. UNCHANGED <<backend, cards, raced, had>>
  BY DEF Quiet
<1>4. CardShape'
  <2>1. TableOK(cards)'
    BY <1>3 DEF CardInv, CardShape, TableOK, CardKey, CardKeys
  <2>2. \A q \in Req : step'[q] = "read" =>
          /\ req'[q].kind \in {"update", "create", "delete"}
          /\ req'[q].owner \in Owner /\ req'[q].id \in CardId
          /\ req'[q].kind # "delete" => req'[q].data \in Data
    BY <1>1, <1>2 DEF CardInv, CardShape
  <2>3. QED
    BY <1>1, <1>2, <1>3, <2>1, <2>2 DEF CardInv, CardShape
<1>5. FoundKept'
  BY <1>1, <1>2, <1>3 DEF CardInv, FoundKept
<1>6. AnsweredPutStored'
  BY <1>1, <1>2, <1>3 DEF CardInv, AnsweredPutStored
<1>7. QED
  BY <1>4, <1>5, <1>6 DEF CardInv

\* What a read by id finds is a row of that id.
LEMMA Found ==
  ASSUME CardShape, NEW id, NEW c \in GetContact(id), c # NotFound
  PROVE  c \in OwnedBy(c.owner, id, cards)
<1>0. /\ \A key \in DOMAIN cards.contacts : /\ cards.contacts[key] \in CardRow
                                            /\ CardKey(cards.contacts[key]) = key
      /\ backend \in {"sql", "dynamo"}
  BY DEF CardShape, TableOK
<1>1. PICK key \in DOMAIN cards.contacts : c = cards.contacts[key] /\ c.id = id
  <2>1. CASE backend = "sql"
    BY <1>0, <2>1 DEF GetContact, S!GetContact, S!Found, S!Has, CardKey
  <2>2. CASE backend = "dynamo"
    <3>1. PICK key \in Y!ContactKeys(cards, id) : c = cards.contacts[key]
      BY <2>2 DEF GetContact, Y!GetContact
    <3>2. key \in DOMAIN cards.contacts /\ key[2] = id
      BY <3>1 DEF Y!ContactKeys
    <3>3. QED
      BY <1>0, <2>2, <3>1, <3>2 DEF CardKey
  <2>3. QED
    BY <1>0, <2>1, <2>2
<1>2. QED
  BY <1>1, Owned

\* The read a PUT begins with: what it found is noted, and found still.
LEMMA PutReadsStep == ASSUME CardInv, NEW r \in Req, PutReads(r) PROVE CardInv'
<1>0. PICK e \in Owner, id \in CardId, d \in Data : \E c \in GetContact(id) :
        Ask(r, IF c # NotFound /\ c.owner = e THEN "update" ELSE "create", e, id, d)
  BY DEF PutReads
<1>1. PICK c \in GetContact(id) :
        Ask(r, IF c # NotFound /\ c.owner = e THEN "update" ELSE "create", e, id, d)
  BY <1>0
<1>2. c # NotFound /\ c.owner = e => OwnedBy(e, id, cards) # {}
  BY Found DEF CardInv
<1>3. step[r] = "new" /\ Answer(r, "read") /\ Quiet
  BY DEF PutReads
<1>4. QED
  BY <1>1, <1>2, <1>3, ReadKeeps

\* The read a DELETE begins with.
LEMMA DeleteReadsStep == ASSUME CardInv, NEW r \in Req, DeleteReads(r) PROVE CardInv'
<1>0. PICK e \in Owner, id \in CardId : \E c \in GetContact(id) :
        /\ Ask(r, "delete", e, id, NotFound)
        /\ Answer(r, IF c # NotFound /\ c.owner = e THEN "read" ELSE "notfound")
  BY DEF DeleteReads
<1>1. PICK c \in GetContact(id) :
        /\ Ask(r, "delete", e, id, NotFound)
        /\ Answer(r, IF c # NotFound /\ c.owner = e THEN "read" ELSE "notfound")
  BY <1>0
<1>2. c # NotFound /\ c.owner = e => OwnedBy(e, id, cards) # {}
  BY Found DEF CardInv
<1>3. step[r] = "new" /\ Quiet
  BY DEF DeleteReads
<1>4. QED
  BY <1>1, <1>2, <1>3, ReadKeeps

\* What a request brings to the table.
LEMMA CardBrought ==
  ASSUME CardShape, NEW r \in Req, step[r] = "read", req[r].kind # "delete"
  PROVE  /\ Card(r) \in CardRow
         /\ Card(r).owner = req[r].owner /\ Card(r).id = req[r].id /\ Card(r).data = req[r].data
BY DEF CardShape, Card, CardRow, CardIds

\* The write of a PUT that found its contact: where a row is left it is the
\* owner's, on either database.
LEMMA PutUpdatesStep == ASSUME CardInv, NEW r \in Req, PutUpdates(r) PROVE CardInv'
<1>1. /\ step[r] = "read" /\ req[r].kind = "update" /\ Answer(r, "ok") /\ req' = req
      /\ Write(r, req[r].id, UpdateContact(Card(r)))
  BY DEF PutUpdates
<1>2. CardShape /\ FoundKept /\ req = [q \in Req |-> req[q]]
  BY DEF CardInv, CardShape
<1>3. PICK x : x = UpdateContact(Card(r))
  OBVIOUS
<1>4. PICK c \in CardRow : /\ c = Card(r)
                           /\ c.owner = req[r].owner /\ c.id = req[r].id /\ c.data = req[r].data
  BY <1>1, <1>2, CardBrought
<1>5. /\ TableOK(x.db)
      /\ \A e, i : i # c.id => OwnedBy(e, i, x.db) = OwnedBy(e, i, cards)
      /\ OwnedBy(c.owner, c.id, cards) # {} =>
           \E d \in OwnedBy(c.owner, c.id, x.db) : d.data = c.data
  BY <1>2, <1>3, <1>4, Updates
<1>6. ~raced[r] => OwnedBy(c.owner, c.id, cards) # {}
  BY <1>1, <1>2, <1>4 DEF FoundKept
<1>7. QED
  BY <1>1, <1>2, <1>3, <1>4, <1>5, <1>6, WriteKeeps

\* The write of a PUT that found none, which an id in use refuses on PostgreSQL.
LEMMA PutCreatesStep == ASSUME CardInv, NEW r \in Req, PutCreates(r) PROVE CardInv'
<1>1. PICK x : x = CreateContact(Card(r))
  OBVIOUS
<1>2. /\ step[r] = "read" /\ req[r].kind = "create" /\ req' = req
      /\ Write(r, req[r].id, x) /\ Answer(r, IF x.ok THEN "ok" ELSE "error")
  BY <1>1 DEF PutCreates
<1>3. CardShape /\ req = [q \in Req |-> req[q]]
  BY DEF CardInv, CardShape
<1>4. PICK c \in CardRow : /\ c = Card(r)
                           /\ c.owner = req[r].owner /\ c.id = req[r].id /\ c.data = req[r].data
  BY <1>2, <1>3, CardBrought
<1>5. /\ TableOK(x.db)
      /\ x.ok => c \in OwnedBy(c.owner, c.id, x.db)
      /\ \A e, i : i # c.id => OwnedBy(e, i, x.db) = OwnedBy(e, i, cards)
  BY <1>1, <1>3, <1>4, Creates
<1>6. PICK ans \in {"ok", "error"} : ans = IF x.ok THEN "ok" ELSE "error"
  OBVIOUS
<1>7. Answer(r, ans)
  BY <1>2, <1>6
<1>8. ans = "ok" => \E d \in OwnedBy(req'[r].owner, req'[r].id, x.db) : d.data = req'[r].data
  BY <1>2, <1>4, <1>5, <1>6
<1>9. QED
  BY <1>2, <1>3, <1>4, <1>5, <1>7, <1>8, WriteKeeps

\* The removal by id, which overtakes the requests that found the row.
LEMMA DeletesStep == ASSUME CardInv, NEW r \in Req, Deletes(r) PROVE CardInv'
<1>1. PICK x \in DeleteContact(req[r].id) : Write(r, req[r].id, x)
  BY DEF Deletes
<1>2. step[r] = "read" /\ req[r].kind = "delete" /\ req' = req /\ Answer(r, "ok")
  BY DEF Deletes
<1>3. CardShape /\ req = [q \in Req |-> req[q]]
  BY DEF CardInv, CardShape
<1>4. TableOK(x.db) /\ \A e, i : i # req[r].id => OwnedBy(e, i, x.db) = OwnedBy(e, i, cards)
  BY <1>1, <1>3, Removals
<1>5. QED
  BY <1>1, <1>2, <1>3, <1>4, WriteKeeps

\* The address book page, which writes and removes between two steps of a request.
LEMMA WebStep ==
  ASSUME CardInv, NEW r \in Req, WebCreates(r) \/ WebDeletes(r)
  PROVE  CardInv'
<1>1. CardShape
  BY DEF CardInv
<1>2. CASE WebCreates(r)
  <2>1. PICK e \in Owner, id \in WebId, d \in Data :
          /\ Ask(r, "webcreate", e, id, d)
          /\ Write(r, id, CreateContact([owner |-> e, id |-> id, data |-> d]))
    BY <1>2 DEF WebCreates
  <2>2. PICK c \in CardRow : c = [owner |-> e, id |-> id, data |-> d] /\ c.id = id
    <3>1. [owner |-> e, id |-> id, data |-> d] \in CardRow
      BY DEF CardRow, CardIds
    <3>2. QED
      BY <3>1
  <2>3. PICK x : x = CreateContact(c)
    OBVIOUS
  <2>4. TableOK(x.db) /\ \A f, i : i # id => OwnedBy(f, i, x.db) = OwnedBy(f, i, cards)
    BY <1>1, <2>2, <2>3, Creates
  <2>5. /\ req' = [q \in Req |-> req'[q]] /\ \A q \in Req \ {r} : req'[q] = req[q]
        /\ req'[r].kind = "webcreate"
    BY <1>1, <2>1 DEF Ask, CardShape
  <2>6. Write(r, id, x) /\ Answer(r, "ok")
    BY <1>2, <2>1, <2>2, <2>3 DEF WebCreates
  <2>7. QED
    BY <2>4, <2>5, <2>6, WriteKeeps
<1>3. CASE WebDeletes(r)
  <2>0. PICK shown \in had : \E x \in DeleteContact(shown[2]) :
          /\ Ask(r, "webdelete", shown[1], shown[2], NotFound)
          /\ Write(r, shown[2], x)
          /\ Answer(r, IF x.ok THEN "ok" ELSE "error")
    BY <1>3 DEF WebDeletes
  <2>1. PICK x \in DeleteContact(shown[2]) :
          /\ Ask(r, "webdelete", shown[1], shown[2], NotFound)
          /\ Write(r, shown[2], x)
          /\ Answer(r, IF x.ok THEN "ok" ELSE "error")
    BY <2>0
  <2>2. TableOK(x.db) /\ \A f, i : i # shown[2] => OwnedBy(f, i, x.db) = OwnedBy(f, i, cards)
    BY <1>1, Removals
  <2>3. /\ req' = [q \in Req |-> req'[q]] /\ \A q \in Req \ {r} : req'[q] = req[q]
        /\ req'[r].kind = "webdelete"
    BY <1>1, <2>1 DEF Ask, CardShape
  <2>4. PICK ans \in {"ok", "error"} : Answer(r, ans)
    BY <2>1
  <2>5. QED
    BY <2>1, <2>2, <2>3, <2>4, WriteKeeps
<1>4. QED
  BY <1>2, <1>3

\* Nothing has been asked for when the server starts, on either database.
LEMMA CardInitially == CardInit => CardInv
<1> SUFFICES ASSUME CardInit PROVE CardInv
  OBVIOUS
<1>1. DOMAIN cards.contacts = {} /\ cards = [contacts |-> cards.contacts]
  BY DEF CardInit
<1>2. CardShape
  BY <1>1 DEF CardInit, CardShape, TableOK
<1>3. \A r \in Req : step[r] = "new"
  BY DEF CardInit
<1>4. QED
  BY <1>2, <1>3 DEF CardInv, FoundKept, AnsweredPutStored

\* Every step keeps the invariant.
LEMMA CardStep == CardInv /\ [CardNext]_cardVars => CardInv'
<1> SUFFICES ASSUME CardInv, [CardNext]_cardVars PROVE CardInv'
  OBVIOUS
<1>1. ASSUME NEW r \in Req,
             \/ PutReads(r) \/ PutUpdates(r) \/ PutCreates(r)
             \/ DeleteReads(r) \/ Deletes(r) \/ WebCreates(r) \/ WebDeletes(r)
      PROVE  CardInv'
  BY <1>1, PutReadsStep, PutUpdatesStep, PutCreatesStep, DeleteReadsStep, DeletesStep, WebStep
<1>2. CASE UNCHANGED cardVars
  <2>1. UNCHANGED <<backend, cards, step, req, raced, had>>
    BY <1>2 DEF cardVars
  <2>2. CardShape'
    BY <2>1 DEF CardInv, CardShape, TableOK, CardKey, CardKeys
  <2>3. FoundKept' /\ AnsweredPutStored'
    BY <2>1 DEF CardInv, FoundKept, AnsweredPutStored
  <2>4. QED
    BY <2>2, <2>3 DEF CardInv
<1>3. QED
  BY <1>1, <1>2 DEF CardNext

\* The invariant holds on both databases, through any interleaving of requests.
THEOREM ContactsInv == CardSpec => []CardInv
BY CardInitially, CardStep, PTL DEF CardSpec

\* A PUT that was answered with success is in the user's address book with the
\* data it brought, unless another request about the id wrote in between.
THEOREM PutsStored == CardSpec => []AnsweredPutStored
BY ContactsInv, PTL DEF CardInv

\* The invariant contains the types.
LEMMA CardTypes == CardInv => CardTypeOK
BY DEF CardInv, CardShape, TableOK, CardRow, CardKeys, CardIds, CardTypeOK

\* Rows and requests stay within the owners, ids and answers there are.
THEOREM CardTypeCorrect == CardSpec => []CardTypeOK
BY CardTypes, ContactsInv, PTL

\* One request acts, and the others are where they were.
LEMMA OneActs ==
  ASSUME CardShape, NEW r \in Req, NEW ans, Answer(r, ans), NEW q \in Req, step'[q] # step[q]
  PROVE  q = r
BY DEF Answer, CardShape

\* What OthersUntouched says of one step.
Others(r) ==
  \A e \in Owner \ {req'[r].owner} :
    OwnedBy(e, req'[r].id, cards') # OwnedBy(e, req'[r].id, cards) =>
      \/ raced[r]
      \/ req'[r].kind = "webdelete"
      \/ backend = "dynamo" /\ OwnedBy(req'[r].owner, req'[r].id, cards) # {}

\* A step of one request leaves the rows of the other owners as they were.
LEMMA OthersStep ==
  CardInv /\ [CardNext]_cardVars =>
    [\A r \in Req : step'[r] # step[r] => Others(r)]_cardVars
<1> SUFFICES ASSUME CardInv, [CardNext]_cardVars
             PROVE  [\A r \in Req : step'[r] # step[r] => Others(r)]_cardVars
  OBVIOUS
<1>0. CardShape /\ FoundKept
  BY DEF CardInv
<1>1. ASSUME NEW r \in Req, PutReads(r) \/ DeleteReads(r) PROVE Others(r) /\ \E ans : Answer(r, ans)
  BY <1>1 DEF PutReads, DeleteReads, Quiet, Others
<1>2. ASSUME NEW r \in Req, PutUpdates(r) PROVE Others(r) /\ \E ans : Answer(r, ans)
  <2>1. /\ step[r] = "read" /\ req[r].kind = "update" /\ Answer(r, "ok") /\ req' = req
        /\ cards' = UpdateContact(Card(r)).db
    BY <1>2 DEF PutUpdates, Write
  <2>2. PICK c \in CardRow : c = Card(r) /\ c.owner = req[r].owner /\ c.id = req[r].id
    BY <1>0, <2>1, CardBrought
  <2>3. PICK x : x = UpdateContact(c)
    OBVIOUS
  <2>4. OwnedBy(c.owner, c.id, cards) # {} =>
          \A e, i : e # c.owner => OwnedBy(e, i, x.db) = OwnedBy(e, i, cards)
    BY <1>0, <2>3, Updates
  <2>5. ~raced[r] => OwnedBy(c.owner, c.id, cards) # {}
    BY <1>0, <2>1, <2>2 DEF FoundKept
  <2>6. QED
    BY <2>1, <2>2, <2>3, <2>4, <2>5 DEF Others
<1>3. ASSUME NEW r \in Req, PutCreates(r) PROVE Others(r) /\ \E ans : Answer(r, ans)
  <2>1. PICK x : x = CreateContact(Card(r))
    OBVIOUS
  <2>2. /\ step[r] = "read" /\ req[r].kind = "create" /\ req' = req /\ cards' = x.db
        /\ Answer(r, IF x.ok THEN "ok" ELSE "error")
    BY <1>3, <2>1 DEF PutCreates, Write
  <2>3. PICK c \in CardRow : c = Card(r) /\ c.owner = req[r].owner /\ c.id = req[r].id
    BY <1>0, <2>2, CardBrought
  <2>4. \A e, i : e # c.owner => OwnedBy(e, i, x.db) = OwnedBy(e, i, cards)
    BY <1>0, <2>1, <2>3, Creates
  <2>5. QED
    BY <2>2, <2>3, <2>4 DEF Others
<1>4. ASSUME NEW r \in Req, Deletes(r) PROVE Others(r) /\ \E ans : Answer(r, ans)
  <2>1. PICK x \in DeleteContact(req[r].id) : cards' = x.db
    BY <1>4 DEF Deletes, Write
  <2>2. /\ step[r] = "read" /\ req[r].kind = "delete" /\ Answer(r, "ok") /\ req' = req
    BY <1>4 DEF Deletes
  <2>3. ~raced[r] => OwnedBy(req[r].owner, req[r].id, cards) # {}
    BY <1>0, <2>2 DEF FoundKept
  <2>4. backend = "sql" /\ OwnedBy(req[r].owner, req[r].id, cards) # {} =>
          \A e : e # req[r].owner =>
            OwnedBy(e, req[r].id, x.db) = OwnedBy(e, req[r].id, cards)
    BY <1>0, Removals
  <2>5. backend \in {"sql", "dynamo"}
    BY <1>0 DEF CardShape
  <2>6. QED
    BY <2>1, <2>2, <2>3, <2>4, <2>5 DEF Others
<1>5. ASSUME NEW r \in Req, WebCreates(r) PROVE Others(r) /\ \E ans : Answer(r, ans)
  <2>1. PICK e \in Owner, id \in WebId, d \in Data :
          /\ Ask(r, "webcreate", e, id, d)
          /\ cards' = CreateContact([owner |-> e, id |-> id, data |-> d]).db
    BY <1>5 DEF WebCreates, Write
  <2>2. PICK c \in CardRow : c = [owner |-> e, id |-> id, data |-> d] /\ c.owner = e
    <3>1. [owner |-> e, id |-> id, data |-> d] \in CardRow
      BY DEF CardRow, CardIds
    <3>2. QED
      BY <3>1
  <2>3. PICK x : x = CreateContact(c)
    OBVIOUS
  <2>4. \A f, i : f # e => OwnedBy(f, i, x.db) = OwnedBy(f, i, cards)
    BY <1>0, <2>2, <2>3, Creates
  <2>5. req'[r].owner = e
    BY <1>0, <2>1 DEF Ask, CardShape
  <2>6. QED
    BY <1>5, <2>1, <2>2, <2>3, <2>4, <2>5 DEF Others, WebCreates
<1>6. ASSUME NEW r \in Req, WebDeletes(r) PROVE Others(r) /\ \E ans : Answer(r, ans)
  <2>1. req'[r].kind = "webdelete"
    BY <1>0, <1>6 DEF WebDeletes, Ask, CardShape
  <2>2. QED
    BY <1>6, <2>1 DEF Others, WebDeletes
<1>7. ASSUME CardNext PROVE \A r \in Req : step'[r] # step[r] => Others(r)
  <2>1. PICK r \in Req : Others(r) /\ \E ans : Answer(r, ans)
    BY <1>1, <1>2, <1>3, <1>4, <1>5, <1>6, <1>7 DEF CardNext
  <2>2. \A q \in Req : step'[q] # step[q] => q = r
    BY <1>0, <2>1, OneActs
  <2>3. QED
    BY <2>1, <2>2
<1>8. QED
  BY <1>7

\* Nobody's contacts change by another user's request, save where both keep the
\* same card: after a race about the one row on PostgreSQL, from a page that
\* still shows it, or because a removal by id meets either item on DynamoDB.
THEOREM OthersKept == CardSpec => OthersUntouched
<1>1. CardInv /\ [CardNext]_cardVars =>
        [\A r \in Req : step'[r] # step[r] =>
           \A e \in Owner \ {req'[r].owner} :
             OwnedBy(e, req'[r].id, cards') # OwnedBy(e, req'[r].id, cards) =>
               \/ raced[r]
               \/ req'[r].kind = "webdelete"
               \/ backend = "dynamo" /\ OwnedBy(req'[r].owner, req'[r].id, cards) # {}]_cardVars
  BY OthersStep DEF Others
<1>2. QED
  BY <1>1, ContactsInv, PTL DEF CardSpec, OthersUntouched

-----------------------------------------------------------------------------
(* The two databases.  The invariant has one part per table, about its two *)
(* copies s and d, the rows D the history says may differ, and the random  *)
(* ids U that were handed out.                                             *)

Apart(t) == {x \in drift : x[1] = t}
Handed(t) == {x \in spent : x[1] = t}

UsersOK(s, d, D) ==
  /\ \A e \in DOMAIN s : /\ e \in Email /\ s[e] \in UserRow
                         /\ s[e].email = e /\ s[e].domain = DomainOf(e)
  /\ \A e \in DOMAIN d :
       /\ e \in Email /\ "email" \in DOMAIN d[e] /\ d[e]["email"] = e
       /\ DOMAIN d[e] \subseteq {"email", "domain", "name", "hash", "status"}
  /\ \A e \in Email : <<"users", e>> \notin D =>
       /\ e \in DOMAIN s <=> e \in DOMAIN d
       /\ e \in DOMAIN s => /\ d[e] \in UserRow /\ d[e].domain = s[e].domain
                            /\ d[e].name = s[e].name /\ d[e].hash = s[e].hash

\* An item is a whole message under its own key, or what the mark of a message
\* that was not found leaves: nothing but marks.
Whole(k, x) == /\ x \in MessageRow /\ k[1] = x.owner /\ k[3] = x.id
               /\ Y!Seconds(k[2]) = x.received
Ghost(x) == /\ DOMAIN x \subseteq {"seen", "deleted"}
            /\ "deleted" \in DOMAIN x => x["deleted"] = TRUE
MailOK(s, d, D, U) ==
  /\ IsFiniteSet(DOMAIN s)
  /\ \A id \in DOMAIN s : s[id] \in MessageRow /\ s[id].id = id /\ <<"messages", id>> \in U
  /\ \A k \in DOMAIN d : /\ k \in Email \X Nat \X Ids /\ <<"messages", k[3]>> \in U
                         /\ Whole(k, d[k]) \/ Ghost(d[k])
  /\ \A k, l \in DOMAIN d : k[3] = l[3] =>
       k[1] = l[1] /\ (Whole(k, d[k]) /\ Whole(l, d[l]) => k = l)
  /\ \A k \in DOMAIN d : k[3] \in DOMAIN s => k[1] = s[k[3]].owner
  /\ \A id \in DOMAIN s : \E k \in DOMAIN d :
       /\ Whole(k, d[k]) /\ k[3] = id
       /\ d[k].deleted => s[id].deleted
  /\ \A k \in DOMAIN d : <<"messages", k[3]>> \notin D =>
       k[3] \in DOMAIN s /\ d[k] = Coarse(s[k[3]])

\* The copies of a table hold the same rows, save for those that may differ.
SameRows(t, s, d, D) ==
  \A k : <<t, k>> \notin D =>
    (k \in DOMAIN s <=> k \in DOMAIN d) /\ (k \in DOMAIN s => s[k] = d[k])
AliasRows(s) ==
  \A x \in DOMAIN s : x \in Alias /\ s[x] = [alias |-> x, targets |-> s[x].targets]
AliasesOK(s, d, D) == AliasRows(s) /\ AliasRows(d) /\ SameRows("aliases", s, d, D)
ListRows(s) == \A l \in DOMAIN s : s[l] = [list |-> l, owner |-> s[l].owner]
ListsOK(s, d, D) == ListRows(s) /\ ListRows(d) /\ SameRows("lists", s, d, D)
MembersOK(s, d, D) ==
  DOMAIN s \cup DOMAIN d \subseteq List \X Email /\ SameRows("members", s, d, D)
DomainRows(s) ==
  \A x \in DOMAIN s : s[x] = [domain |-> x, ses |-> s[x].ses, dkim |-> s[x].dkim]
DomainsOK(s, d, D) == DomainRows(s) /\ DomainRows(d) /\ SameRows("domains", s, d, D)

\* A filter is kept under its id, or under its user and its id; an update that
\* finds no row may leave items of several users under one id.
FilterRow(f) == f = [id |-> f.id, user |-> f.user, priority |-> f.priority,
                     conditions |-> f.conditions, actions |-> f.actions,
                     enabled |-> f.enabled]
FiltersOK(s, d, D, U) ==
  /\ IsFiniteSet(DOMAIN s) /\ IsFiniteSet(DOMAIN d)
  /\ \A id \in DOMAIN s : /\ id \in FilterId /\ <<"filters", id>> \in U
                         /\ s[id].id = id /\ FilterRow(s[id])
  /\ \A k \in DOMAIN d : /\ k[2] \in FilterId /\ <<"filters", k[2]>> \in U
                        /\ k = <<d[k].user, d[k].id>>
  /\ \A id : <<"filters", id>> \notin D =>
       /\ id \in DOMAIN s => <<s[id].user, id>> \in DOMAIN d
       /\ \A k \in DOMAIN d : k[2] = id => id \in DOMAIN s /\ d[k] = s[id]

LogOK(s, d) ==
  /\ DOMAIN s = DOMAIN d
  /\ \A k \in DOMAIN s : s[k].sent \in Nat /\ d[k].sent = Y!Seconds(s[k].sent)

ClientsOK(s, d, U) ==
  /\ \A id \in DOMAIN s : /\ s[id] \in Client /\ s[id].id = id /\ <<"clients", id>> \in U
                          /\ <<s[id].domain, id>> \in DOMAIN d
  /\ \A k \in DOMAIN d : /\ k = <<d[k].domain, d[k].id>>
                         /\ d[k].id \in DOMAIN s /\ d[k] = s[d[k].id]
CodesOK(s, d, D, U) ==
  /\ \A k \in DOMAIN s : s[k] \in CodeRow /\ <<"codes", k>> \in U
  /\ \A k \in DOMAIN d : DOMAIN d[k] \subseteq {"client", "until", "used"}
  /\ \A k : <<"codes", k>> \notin D =>
       /\ k \in DOMAIN s <=> k \in DOMAIN d
       /\ k \in DOMAIN s => d[k] = [s[k] EXCEPT !.until = Y!Seconds(@)]
TokensOK(s, d, U) ==
  /\ DOMAIN s = DOMAIN d
  /\ \A k \in DOMAIN s : /\ s[k] \in TokenRow /\ <<"tokens", k>> \in U
                         /\ d[k] = [s[k] EXCEPT !.until = Y!Seconds(@)]

BackShape == /\ sql = [t \in Table |-> sql[t]] /\ dyn = [t \in Table |-> dyn[t]]
             /\ now \in 0..MaxNow
             /\ \A x \in drift \cup spent : x[1] \in Table
PartOK(t, s, d, D, U) ==
  /\ t = "users" => UsersOK(s, d, D)
  /\ t = "messages" => MailOK(s, d, D, U)
  /\ t = "aliases" => AliasesOK(s, d, D)
  /\ t = "lists" => ListsOK(s, d, D)
  /\ t = "members" => MembersOK(s, d, D)
  /\ t = "filters" => FiltersOK(s, d, D, U)
  /\ t = "replies" => s = d
  /\ t = "log" => LogOK(s, d)
  /\ t = "domains" => DomainsOK(s, d, D)
  /\ t = "clients" => ClientsOK(s, d, U)
  /\ t = "codes" => CodesOK(s, d, D, U)
  /\ t = "tokens" => TokensOK(s, d, U)
TablesOK == \A t \in Table : PartOK(t, sql[t], dyn[t], Apart(t), Handed(t))

BackInv == BackShape /\ TablesOK

-----------------------------------------------------------------------------
(* What the statements do to a table.                                      *)

Added(f, key, row) == [k \in DOMAIN f \cup {key} |-> IF k = key THEN row ELSE f[k]]
Inserted(f, key, row) == IF key \in DOMAIN f THEN f ELSE Added(f, key, row)
Cut(f, K) == [k \in DOMAIN f \ K |-> f[k]]
Changed(db, t, f) == [db EXCEPT ![t] = f]
Base(db) == db = [t \in Table |-> db[t]]

\* A table in which nothing is written stays in the database as it is.
LEMMA SameTable ==
  ASSUME NEW db, Base(db), NEW t \in Table
  PROVE  db = Changed(db, t, db[t])
BY DEF Base, Changed

\* An insertion leaves the row that is there, an update changes only one that is.
LEMMA SqlPuts ==
  ASSUME NEW db, Base(db), NEW t \in Table, NEW key, NEW row
  PROVE  /\ S!INSERT(db, t, key, row).db =
              Changed(db, t, Inserted(db[t], key, row))
         /\ S!INSERTorUPDATE(db, t, key, row).db = Changed(db, t, Added(db[t], key, row))
         /\ S!UPDATE(db, t, key, row).db =
              Changed(db, t, IF key \in DOMAIN db[t]
                             THEN Added(db[t], key, S!Over(row, db[t][key])) ELSE db[t])
<1>1. S!With(db, t, key, row) = Changed(db, t, Added(db[t], key, row))
  BY DEF S!With, Added, Base, Changed
<1>2. S!With(db, t, key, S!Over(row, db[t][key])) =
        Changed(db, t, Added(db[t], key, S!Over(row, db[t][key])))
  BY DEF S!With, Added, Base, Changed
<1>3. db = Changed(db, t, db[t])
  BY SameTable
<1>4. S!INSERT(db, t, key, row).db = IF key \in DOMAIN db[t] THEN db ELSE S!With(db, t, key, row)
  BY DEF S!INSERT, S!Has, S!Refused, S!Done
<1>5. S!INSERTorUPDATE(db, t, key, row).db = S!With(db, t, key, row)
  BY DEF S!INSERTorUPDATE, S!Done
<1>6. S!UPDATE(db, t, key, row).db =
        IF key \in DOMAIN db[t] THEN S!With(db, t, key, S!Over(row, db[t][key])) ELSE db
  BY DEF S!UPDATE, S!Has, S!Done
<1>7. QED
  BY <1>1, <1>2, <1>3, <1>4, <1>5, <1>6 DEF Inserted

\* A deletion takes the named rows out.
LEMMA SqlDeletes ==
  ASSUME NEW db, Base(db), NEW t \in Table, NEW K
  PROVE  S!DELETE(db, t, K).db = Changed(db, t, Cut(db[t], K))
BY DEF S!DELETE, S!Done, S!Without, Cut, Base, Changed

\* PutItem replaces, and UpdateItem writes over what is there or over nothing.
LEMMA DynPuts ==
  ASSUME NEW db, Base(db), NEW t \in Table, NEW key, NEW row
  PROVE  /\ Y!PutItem(db, t, key, row).db = Changed(db, t, Added(db[t], key, row))
         /\ Y!PutNewItem(db, t, key, row).db =
              Changed(db, t, Inserted(db[t], key, row))
         /\ Y!UpdateItem(db, t, key, row).db =
              Changed(db, t, Added(db[t], key, Y!Over(row, Y!Row(db, t, key))))
<1>1. Y!With(db, t, key, row) = Changed(db, t, Added(db[t], key, row))
  BY DEF Y!With, Added, Base, Changed
<1>2. Y!With(db, t, key, Y!Over(row, Y!Row(db, t, key))) =
        Changed(db, t, Added(db[t], key, Y!Over(row, Y!Row(db, t, key))))
  BY DEF Y!With, Added, Base, Changed
<1>3. db = Changed(db, t, db[t])
  BY SameTable
<1>4. Y!PutItem(db, t, key, row).db = Y!With(db, t, key, row)
  BY DEF Y!PutItem, Y!Done
<1>5. Y!PutNewItem(db, t, key, row).db = IF key \in DOMAIN db[t] THEN db ELSE Y!With(db, t, key, row)
  BY DEF Y!PutNewItem, Y!PutItem, Y!Has, Y!Refused, Y!Done
<1>6. Y!UpdateItem(db, t, key, row).db = Y!With(db, t, key, Y!Over(row, Y!Row(db, t, key)))
  BY DEF Y!UpdateItem, Y!Done
<1>7. QED
  BY <1>1, <1>2, <1>3, <1>4, <1>5, <1>6 DEF Inserted

\* A deletion takes one item out.
LEMMA DynDeletes ==
  ASSUME NEW db, Base(db), NEW t \in Table, NEW key
  PROVE  Y!DeleteItem(db, t, key).db = Changed(db, t, Cut(db[t], {key}))
BY DEF Y!DeleteItem, Y!Done, Y!Without, Cut, Base, Changed

\* A call that reaches one table of each database.
Moves(t, f, g, D, H) == /\ sql' = Changed(sql, t, f)
                        /\ dyn' = Changed(dyn, t, g)
                        /\ drift' = (drift \ H) \cup D
                        /\ now' = now
Draws(t) == spent' = spent \/ \E id : spent' = spent \cup {<<t, id>>}
Within(t, D) == \A x \in D : x[1] = t
Kept(u) == /\ sql'[u] = sql[u] /\ dyn'[u] = dyn[u]
           /\ Apart(u)' = Apart(u) /\ Handed(u)' = Handed(u)

\* A call on one table leaves the others, and what the history says of them.
LEMMA OneTable ==
  ASSUME BackShape, NEW t \in Table, NEW f, NEW g, NEW D, NEW H,
         Moves(t, f, g, D, H), Within(t, D), Within(t, H), Draws(t)
  PROVE  /\ BackShape' /\ sql'[t] = f /\ dyn'[t] = g
         /\ Apart(t)' = (Apart(t) \ H) \cup D
         /\ spent' = spent => Handed(t)' = Handed(t)
         /\ \A u \in Table \ {t} : Kept(u)
<1>1. /\ sql' = [sql EXCEPT ![t] = f] /\ dyn' = [dyn EXCEPT ![t] = g]
      /\ drift' = (drift \ H) \cup D /\ now' = now
  BY DEF Moves, Changed
<1>2. /\ sql = [u \in Table |-> sql[u]] /\ dyn = [u \in Table |-> dyn[u]]
      /\ now \in 0..MaxNow /\ \A x \in drift \cup spent : x[1] \in Table
  BY DEF BackShape
<1>3. \A x \in D \cup H : x[1] = t
  BY DEF Within
<1>4. \A x \in spent' : x \in spent \/ x[1] = t
  BY DEF Draws
<1>5. \A x \in spent : x \in spent'
  BY DEF Draws
<1>6. sql'[t] = f /\ dyn'[t] = g
  BY <1>1, <1>2
<1>7. \A u \in Table \ {t} : sql'[u] = sql[u] /\ dyn'[u] = dyn[u]
  BY <1>1, <1>2
<1>8. sql' = [u \in Table |-> sql'[u]] /\ dyn' = [u \in Table |-> dyn'[u]]
  BY <1>1, <1>2
<1>9. BackShape'
  BY <1>1, <1>2, <1>3, <1>4, <1>8 DEF BackShape
<1>10. Apart(t)' = (Apart(t) \ H) \cup D
  BY <1>1, <1>3 DEF Apart
<1>11. \A u \in Table \ {t} : Apart(u)' = Apart(u) /\ Handed(u)' = Handed(u)
  BY <1>1, <1>3, <1>4, <1>5 DEF Apart, Handed
<1>12. spent' = spent => Handed(t)' = Handed(t)
  BY DEF Handed
<1>13. QED
  BY <1>6, <1>7, <1>9, <1>10, <1>11, <1>12 DEF Kept

\* A call keeps the invariant when it keeps the part about its table.
LEMMA Settles ==
  ASSUME BackInv, NEW t \in Table, NEW f, NEW g, NEW D, NEW H,
         Moves(t, f, g, D, H), Within(t, D), Within(t, H), Draws(t),
         PartOK(t, f, g, (Apart(t) \ H) \cup D, Handed(t)')
  PROVE  BackInv'
<1>1. /\ BackShape' /\ sql'[t] = f /\ dyn'[t] = g
      /\ Apart(t)' = (Apart(t) \ H) \cup D
      /\ \A u \in Table \ {t} : Kept(u)
  BY OneTable DEF BackInv
<1>2. ASSUME NEW u \in Table
      PROVE  PartOK(u, sql'[u], dyn'[u], Apart(u)', Handed(u)')
  <2>1. CASE u = t
    BY <1>1, <2>1
  <2>2. CASE u # t
    <3>1. /\ sql'[u] = sql[u] /\ dyn'[u] = dyn[u]
          /\ Apart(u)' = Apart(u) /\ Handed(u)' = Handed(u)
      BY <1>1, <2>2 DEF Kept
    <3>2. PartOK(u, sql[u], dyn[u], Apart(u), Handed(u))
      BY DEF BackInv, TablesOK
    <3>3. QED
      BY <3>1, <3>2
  <2>3. QED
    BY <2>1, <2>2
<1>3. QED
  BY <1>1, <1>2 DEF BackInv, TablesOK

-----------------------------------------------------------------------------
(* Aliases, lists, their members, and domains.                             *)

\* A row that is written to both copies, or to the second alone when the rows
\* may differ from now on.
LEMMA RowPut ==
  ASSUME NEW t, NEW s, NEW d, NEW D, SameRows(t, s, d, D), NEW key, NEW row,
         NEW f \in {s, Added(s, key, row)}, NEW g, g = Added(d, key, row),
         NEW E, \A k : k # key /\ <<t, k>> \in D => <<t, k>> \in E,
         <<t, key>> \in E \/ (key \in DOMAIN f /\ f[key] = row)
  PROVE  SameRows(t, f, g, E)
<1>1. SUFFICES ASSUME NEW k, <<t, k>> \notin E
               PROVE  (k \in DOMAIN f <=> k \in DOMAIN g) /\ (k \in DOMAIN f => f[k] = g[k])
  BY DEF SameRows
<1>a. /\ DOMAIN g = DOMAIN d \cup {key} /\ g[key] = row
      /\ \A l \in DOMAIN d : l # key => g[l] = d[l]
  BY DEF Added
<1>b. \/ f = s
      \/ /\ DOMAIN f = DOMAIN s \cup {key} /\ f[key] = row
         /\ \A l \in DOMAIN s : l # key => f[l] = s[l]
  BY DEF Added
<1>2. CASE k = key
  BY <1>1, <1>2, <1>a, <1>b
<1>3. CASE k # key
  <2>1. (k \in DOMAIN s <=> k \in DOMAIN d) /\ (k \in DOMAIN s => s[k] = d[k])
    BY <1>1, <1>3 DEF SameRows
  <2>2. (k \in DOMAIN f <=> k \in DOMAIN s) /\ (k \in DOMAIN s => f[k] = s[k])
    BY <1>3, <1>b
  <2>3. (k \in DOMAIN g <=> k \in DOMAIN d) /\ (k \in DOMAIN d => g[k] = d[k])
    BY <1>3, <1>a
  <2>4. QED
    BY <2>1, <2>2, <2>3
<1>4. QED
  BY <1>2, <1>3

\* Rows K are removed from the first copy and L of them from the second, where
\* the others are left to differ.
LEMMA RowCut ==
  ASSUME NEW t, NEW s, NEW d, NEW D, SameRows(t, s, d, D), NEW K, NEW L, L \subseteq K,
         NEW E, \A k : k \notin K /\ <<t, k>> \in D => <<t, k>> \in E,
         \A k \in K \ L : <<t, k>> \in E
  PROVE  SameRows(t, Cut(s, K), Cut(d, L), E)
<1>1. PICK f, g : f = Cut(s, K) /\ g = Cut(d, L)
  OBVIOUS
<1>2. /\ DOMAIN f = DOMAIN s \ K /\ \A k \in DOMAIN s \ K : f[k] = s[k]
      /\ DOMAIN g = DOMAIN d \ L /\ \A k \in DOMAIN d \ L : g[k] = d[k]
  BY <1>1 DEF Cut
<1>3. ASSUME NEW k, <<t, k>> \notin E
      PROVE  (k \in DOMAIN f <=> k \in DOMAIN g) /\ (k \in DOMAIN f => f[k] = g[k])
  <2>1. (k \in L <=> k \in K) /\ (k \notin K => <<t, k>> \notin D)
    BY <1>3
  <2>2. k \notin K =>
          (k \in DOMAIN s <=> k \in DOMAIN d) /\ (k \in DOMAIN s => s[k] = d[k])
    BY <2>1 DEF SameRows
  <2>3. QED
    BY <1>2, <2>1, <2>2
<1>4. QED
  BY <1>1, <1>3 DEF SameRows

\* Both databases are records of their tables.
LEMMA Bases == BackShape => Base(sql) /\ Base(dyn)
BY DEF BackShape, Base

\* A call whose statements change one table, and that draws no id.
LEMMA Calls1 ==
  ASSUME BackInv, NEW x, NEW y, NEW D, NEW H, Both(x, y, D, H), Keep,
         NEW t \in Table, NEW f, NEW g,
         x.db = Changed(sql, t, f), y.db = Changed(dyn, t, g),
         Within(t, D), Within(t, H),
         PartOK(t, f, g, (Apart(t) \ H) \cup D, Handed(t))
  PROVE  BackInv'
<1>1. Moves(t, f, g, D, H)
  BY DEF Both, Moves
<1>2. Draws(t) /\ Handed(t)' = Handed(t)
  BY DEF Keep, Draws, Handed
<1>3. QED
  BY <1>1, <1>2, Settles

\* A call that draws an id.
LEMMA CallsFresh ==
  ASSUME BackInv, NEW x, NEW y, NEW D, NEW H, Both(x, y, D, H),
         NEW t \in Table, NEW id, Fresh(t, id), NEW f, NEW g,
         x.db = Changed(sql, t, f), y.db = Changed(dyn, t, g), Within(t, D), Within(t, H),
         PartOK(t, f, g, (Apart(t) \ H) \cup D, Handed(t) \cup {<<t, id>>})
  PROVE  BackInv'
<1>1. Moves(t, f, g, D, H)
  BY DEF Both, Moves
<1>2. Draws(t) /\ Handed(t)' = Handed(t) \cup {<<t, id>>}
  BY DEF Fresh, Draws, Handed
<1>3. QED
  BY <1>1, <1>2, Settles

\* The rows a call sets apart: one a create finds taken by another row, one an
\* update finds missing.
LEMMA TakenIs ==
  ASSUME NEW t, NEW key, NEW row
  PROVE  /\ Within(t, Taken(t, key, row))
         /\ key \in DOMAIN sql[t] /\ sql[t][key] # row => <<t, key>> \in Taken(t, key, row)
BY DEF Taken, If, Within

\* The sets of rows the calls name are of their own table.
LEMMA MissingIs ==
  ASSUME NEW t, NEW key
  PROVE  /\ Within(t, Missing(t, key)) /\ Within(t, {}) /\ Within(t, {<<t, key>>})
         /\ key \notin DOMAIN sql[t] => <<t, key>> \in Missing(t, key)
BY DEF Missing, If, Within

\* An item that is written whole is what is there afterwards.
LEMMA OverAll ==
  ASSUME NEW row, row = [at \in DOMAIN row |-> row[at]], NEW old, DOMAIN old \subseteq DOMAIN row
  PROVE  Y!Over(row, old) = row
BY DEF Y!Over

\* Aliases: a create writes a row that is taken on DynamoDB only.
LEMMA AliasStep == ASSUME BackInv, AliasCreates \/ AliasUpdates \/ AliasDeletes PROVE BackInv'
<1> DEFINE t == "aliases"
<1>0. /\ BackShape /\ TablesOK /\ Base(sql) /\ Base(dyn) /\ t \in Table
      /\ AliasesOK(sql[t], dyn[t], Apart(t))
  BY Bases DEF BackInv, TablesOK, Table, PartOK
<1> HIDE DEF t
<1>1. ASSUME NEW x \in Alias, NEW T \in Target, NEW row, row = [alias |-> x, targets |-> T],
             NEW f \in {sql[t], Added(sql[t], x, row)},
             NEW D, <<t, x>> \in D \/ (x \in DOMAIN f /\ f[x] = row)
      PROVE  PartOK(t, f, Added(dyn[t], x, row), (Apart(t) \ {}) \cup D, Handed(t))
  <2>1. SameRows(t, f, Added(dyn[t], x, row), (Apart(t) \ {}) \cup D)
    BY <1>0, <1>1, RowPut DEF AliasesOK, t
  <2>2. row = [alias |-> x, targets |-> row.targets]
    BY <1>1
  <2>3. AliasRows(Added(sql[t], x, row)) /\ AliasRows(Added(dyn[t], x, row))
    BY <1>0, <1>1, <2>2 DEF AliasesOK, AliasRows, Added
  <2>4. AliasRows(f)
    BY <1>0, <1>1, <2>3 DEF AliasesOK
  <2>5. QED
    BY <2>1, <2>3, <2>4 DEF AliasesOK, PartOK, t
<1>2. CASE AliasCreates
  <2>1. PICK x \in Alias, T \in Target :
          Both(S!CreateAlias(sql, x, T), Y!CreateAlias(dyn, x, T),
               Taken(t, x, [alias |-> x, targets |-> T]), {})
    BY <1>2 DEF AliasCreates, t
  <2>2. PICK row : /\ row = [alias |-> x, targets |-> T]
                   /\ Both(S!CreateAlias(sql, x, T), Y!CreateAlias(dyn, x, T), Taken(t, x, row), {})
    BY <2>1
  <2>3. PICK f : f = Inserted(sql[t], x, row)
    OBVIOUS
  <2>4. /\ S!CreateAlias(sql, x, T).db = Changed(sql, t, f)
        /\ Y!CreateAlias(dyn, x, T).db = Changed(dyn, t, Added(dyn[t], x, row))
    BY <1>0, <2>2, <2>3, SqlPuts, DynPuts DEF S!CreateAlias, Y!CreateAlias, t
  <2>5. <<t, x>> \in Taken(t, x, row) \/ (x \in DOMAIN f /\ f[x] = row)
    BY <2>3, TakenIs DEF Added, Inserted
  <2>6. PartOK(t, f, Added(dyn[t], x, row), (Apart(t) \ {}) \cup Taken(t, x, row), Handed(t))
    BY <1>1, <2>2, <2>3, <2>5 DEF Inserted
  <2>7. Within(t, Taken(t, x, row)) /\ Within(t, {}) /\ Keep
    BY <1>2, TakenIs, MissingIs DEF AliasCreates
  <2>8. QED
    BY <1>0, <2>2, <2>4, <2>6, <2>7, Calls1
<1>3. CASE AliasUpdates
  <2>1. PICK x \in Alias, T \in Target :
          Both(S!UpdateAlias(sql, x, T), Y!UpdateAlias(dyn, x, T), Missing(t, x), {})
    BY <1>3 DEF AliasUpdates, t
  <2>2. PICK row : row = [alias |-> x, targets |-> T]
    OBVIOUS
  <2>3. PICK f : f = IF x \in DOMAIN sql[t] THEN Added(sql[t], x, row) ELSE sql[t]
    OBVIOUS
  <2>4. x \in DOMAIN sql[t] => S!Over([targets |-> T], sql[t][x]) = row
    <3>1. SUFFICES ASSUME NEW old, old = [alias |-> x, targets |-> old.targets]
                   PROVE  S!Over([targets |-> T], old) = row
      BY <1>0 DEF AliasesOK, AliasRows
    <3>2. DOMAIN old = {"alias", "targets"} /\ old["alias"] = x
      BY <3>1
    <3>3. DOMAIN [targets |-> T] = {"targets"} /\ [targets |-> T]["targets"] = T
      OBVIOUS
    <3>4. S!Over([targets |-> T], old) = [at \in {"alias", "targets"} |-> IF at = "targets" THEN T ELSE x]
      BY <3>2, <3>3 DEF S!Over
    <3>5. QED
      BY <2>2, <3>4
  <2>5. Y!Over(row, Y!Row(dyn, t, x)) = row
    <3>1. PICK old : old = Y!Row(dyn, t, x)
      OBVIOUS
    <3>2. DOMAIN old \subseteq {"alias", "targets"}
      <4>1. CASE x \in DOMAIN dyn[t]
        <5>1. old = [alias |-> x, targets |-> old.targets]
          BY <1>0, <3>1, <4>1 DEF AliasesOK, AliasRows, Y!Row
        <5>2. QED
          BY <5>1
      <4>2. CASE x \notin DOMAIN dyn[t]
        <5>1. old = <<>>
          BY <3>1, <4>2 DEF Y!Row
        <5>2. QED
          BY <5>1
      <4>3. QED
        BY <4>1, <4>2
    <3>3. DOMAIN row = {"alias", "targets"} /\ row = [at \in DOMAIN row |-> row[at]]
      BY <2>2
    <3>4. QED
      BY <3>1, <3>2, <3>3, OverAll
  <2>6. /\ S!UpdateAlias(sql, x, T).db = Changed(sql, t, f)
        /\ Y!UpdateAlias(dyn, x, T).db = Changed(dyn, t, Added(dyn[t], x, row))
    BY <1>0, <2>2, <2>3, <2>4, <2>5, SqlPuts, DynPuts DEF S!UpdateAlias, Y!UpdateAlias, t
  <2>7. <<t, x>> \in Missing(t, x) \/ (x \in DOMAIN f /\ f[x] = row)
    BY <2>3, MissingIs DEF Added
  <2>8. PartOK(t, f, Added(dyn[t], x, row), (Apart(t) \ {}) \cup Missing(t, x), Handed(t))
    BY <1>1, <2>2, <2>3, <2>7
  <2>9. Within(t, Missing(t, x)) /\ Within(t, {}) /\ Keep
    BY <1>3, MissingIs DEF AliasUpdates
  <2>10. QED
    BY <1>0, <2>1, <2>6, <2>8, <2>9, Calls1
<1>4. CASE AliasDeletes
  <2>1. PICK x \in Alias : Both(S!DeleteAlias(sql, x), Y!DeleteAlias(dyn, x), {}, {<<t, x>>})
    BY <1>4 DEF AliasDeletes, t
  <2>2. /\ S!DeleteAlias(sql, x).db = Changed(sql, t, Cut(sql[t], {x}))
        /\ Y!DeleteAlias(dyn, x).db = Changed(dyn, t, Cut(dyn[t], {x}))
    BY <1>0, SqlDeletes, DynDeletes DEF S!DeleteAlias, Y!DeleteAlias, t
  <2>3. SameRows(t, Cut(sql[t], {x}), Cut(dyn[t], {x}), (Apart(t) \ {<<t, x>>}) \cup {})
    BY <1>0, RowCut DEF AliasesOK, t
  <2>4. AliasRows(Cut(sql[t], {x})) /\ AliasRows(Cut(dyn[t], {x}))
    BY <1>0 DEF AliasesOK, AliasRows, Cut
  <2>5. PartOK(t, Cut(sql[t], {x}), Cut(dyn[t], {x}), (Apart(t) \ {<<t, x>>}) \cup {}, Handed(t))
    BY <2>3, <2>4 DEF AliasesOK, PartOK, t
  <2>6. Within(t, {<<t, x>>}) /\ Within(t, {}) /\ Keep
    BY <1>4 DEF Within, AliasDeletes
  <2>7. QED
    BY <1>0, <2>1, <2>2, <2>5, <2>6, Calls1
<1>5. QED
  BY <1>2, <1>3, <1>4

\* Domains: created, updated and deleted as aliases are.
LEMMA DomainCallsStep == ASSUME BackInv, DomainCreates \/ DomainUpdates \/ DomainDeletes PROVE BackInv'
<1> DEFINE t == "domains"
<1>0. /\ BackShape /\ TablesOK /\ Base(sql) /\ Base(dyn) /\ t \in Table
      /\ DomainsOK(sql[t], dyn[t], Apart(t))
  BY Bases DEF BackInv, TablesOK, Table, PartOK
<1> HIDE DEF t
<1>1. ASSUME NEW x \in Domains, NEW v \in Status, NEW w \in Status, NEW row, row = [domain |-> x, ses |-> v, dkim |-> w],
             NEW f \in {sql[t], Added(sql[t], x, row)},
             NEW D, <<t, x>> \in D \/ (x \in DOMAIN f /\ f[x] = row)
      PROVE  PartOK(t, f, Added(dyn[t], x, row), (Apart(t) \ {}) \cup D, Handed(t))
  <2>1. SameRows(t, f, Added(dyn[t], x, row), (Apart(t) \ {}) \cup D)
    BY <1>0, <1>1, RowPut DEF DomainsOK, t
  <2>2. row = [domain |-> x, ses |-> row.ses, dkim |-> row.dkim]
    BY <1>1
  <2>3. DomainRows(Added(sql[t], x, row)) /\ DomainRows(Added(dyn[t], x, row))
    BY <1>0, <1>1, <2>2 DEF DomainsOK, DomainRows, Added
  <2>4. DomainRows(f)
    BY <1>0, <1>1, <2>3 DEF DomainsOK
  <2>5. QED
    BY <2>1, <2>3, <2>4 DEF DomainsOK, PartOK, t
<1>2. CASE DomainCreates
  <2>1. PICK x \in Domains, v \in Status, w \in Status :
          Both(S!CreateDomain(sql, x, v, w), Y!CreateDomain(dyn, x, v, w),
               Taken(t, x, [domain |-> x, ses |-> v, dkim |-> w]), {})
    BY <1>2 DEF DomainCreates, t
  <2>2. PICK row : /\ row = [domain |-> x, ses |-> v, dkim |-> w]
                   /\ Both(S!CreateDomain(sql, x, v, w), Y!CreateDomain(dyn, x, v, w), Taken(t, x, row), {})
    BY <2>1
  <2>3. PICK f : f = Inserted(sql[t], x, row)
    OBVIOUS
  <2>4. /\ S!CreateDomain(sql, x, v, w).db = Changed(sql, t, f)
        /\ Y!CreateDomain(dyn, x, v, w).db = Changed(dyn, t, Added(dyn[t], x, row))
    BY <1>0, <2>2, <2>3, SqlPuts, DynPuts DEF S!CreateDomain, Y!CreateDomain, t
  <2>5. <<t, x>> \in Taken(t, x, row) \/ (x \in DOMAIN f /\ f[x] = row)
    BY <2>3, TakenIs DEF Added, Inserted
  <2>6. PartOK(t, f, Added(dyn[t], x, row), (Apart(t) \ {}) \cup Taken(t, x, row), Handed(t))
    BY <1>1, <2>2, <2>3, <2>5 DEF Inserted
  <2>7. Within(t, Taken(t, x, row)) /\ Within(t, {}) /\ Keep
    BY <1>2, TakenIs, MissingIs DEF DomainCreates
  <2>8. QED
    BY <1>0, <2>2, <2>4, <2>6, <2>7, Calls1
<1>3. CASE DomainUpdates
  <2>1. PICK x \in Domains, v \in Status, w \in Status :
          Both(S!UpdateDomainStatus(sql, x, v, w), Y!UpdateDomainStatus(dyn, x, v, w), Missing(t, x), {})
    BY <1>3 DEF DomainUpdates, t
  <2>2. PICK row : row = [domain |-> x, ses |-> v, dkim |-> w]
    OBVIOUS
  <2>3. PICK f : f = IF x \in DOMAIN sql[t] THEN Added(sql[t], x, row) ELSE sql[t]
    OBVIOUS
  <2>4. x \in DOMAIN sql[t] => S!Over([ses |-> v, dkim |-> w], sql[t][x]) = row
    <3>1. SUFFICES ASSUME NEW old, old = [domain |-> x, ses |-> old.ses, dkim |-> old.dkim]
                   PROVE  S!Over([ses |-> v, dkim |-> w], old) = row
      BY <1>0 DEF DomainsOK, DomainRows
    <3>2. DOMAIN old = {"domain", "ses", "dkim"} /\ old["domain"] = x
      BY <3>1
    <3>3. /\ DOMAIN [ses |-> v, dkim |-> w] = {"ses", "dkim"}
          /\ [ses |-> v, dkim |-> w]["ses"] = v /\ [ses |-> v, dkim |-> w]["dkim"] = w
      OBVIOUS
    <3>4. S!Over([ses |-> v, dkim |-> w], old) =
            [at \in {"domain", "ses", "dkim"} |->
               IF at = "ses" THEN v ELSE IF at = "dkim" THEN w ELSE x]
      BY <3>2, <3>3 DEF S!Over
    <3>5. QED
      BY <2>2, <3>4
  <2>5. Y!Over(row, Y!Row(dyn, t, x)) = row
    <3>1. PICK old : old = Y!Row(dyn, t, x)
      OBVIOUS
    <3>2. DOMAIN old \subseteq {"domain", "ses", "dkim"}
      <4>1. CASE x \in DOMAIN dyn[t]
        <5>1. old = [domain |-> x, ses |-> old.ses, dkim |-> old.dkim]
          BY <1>0, <3>1, <4>1 DEF DomainsOK, DomainRows, Y!Row
        <5>2. QED
          BY <5>1
      <4>2. CASE x \notin DOMAIN dyn[t]
        <5>1. old = <<>>
          BY <3>1, <4>2 DEF Y!Row
        <5>2. QED
          BY <5>1
      <4>3. QED
        BY <4>1, <4>2
    <3>3. DOMAIN row = {"domain", "ses", "dkim"} /\ row = [at \in DOMAIN row |-> row[at]]
      BY <2>2
    <3>4. QED
      BY <3>1, <3>2, <3>3, OverAll
  <2>6. /\ S!UpdateDomainStatus(sql, x, v, w).db = Changed(sql, t, f)
        /\ Y!UpdateDomainStatus(dyn, x, v, w).db = Changed(dyn, t, Added(dyn[t], x, row))
    BY <1>0, <2>2, <2>3, <2>4, <2>5, SqlPuts, DynPuts DEF S!UpdateDomainStatus, Y!UpdateDomainStatus, t
  <2>7. <<t, x>> \in Missing(t, x) \/ (x \in DOMAIN f /\ f[x] = row)
    BY <2>3, MissingIs DEF Added
  <2>8. PartOK(t, f, Added(dyn[t], x, row), (Apart(t) \ {}) \cup Missing(t, x), Handed(t))
    BY <1>1, <2>2, <2>3, <2>7
  <2>9. Within(t, Missing(t, x)) /\ Within(t, {}) /\ Keep
    BY <1>3, MissingIs DEF DomainUpdates
  <2>10. QED
    BY <1>0, <2>1, <2>6, <2>8, <2>9, Calls1
<1>4. CASE DomainDeletes
  <2>1. PICK x \in Domains : Both(S!DeleteDomain(sql, x), Y!DeleteDomain(dyn, x), {}, {<<t, x>>})
    BY <1>4 DEF DomainDeletes, t
  <2>2. /\ S!DeleteDomain(sql, x).db = Changed(sql, t, Cut(sql[t], {x}))
        /\ Y!DeleteDomain(dyn, x).db = Changed(dyn, t, Cut(dyn[t], {x}))
    BY <1>0, SqlDeletes, DynDeletes DEF S!DeleteDomain, Y!DeleteDomain, t
  <2>3. SameRows(t, Cut(sql[t], {x}), Cut(dyn[t], {x}), (Apart(t) \ {<<t, x>>}) \cup {})
    BY <1>0, RowCut DEF DomainsOK, t
  <2>4. DomainRows(Cut(sql[t], {x})) /\ DomainRows(Cut(dyn[t], {x}))
    BY <1>0 DEF DomainsOK, DomainRows, Cut
  <2>5. PartOK(t, Cut(sql[t], {x}), Cut(dyn[t], {x}), (Apart(t) \ {<<t, x>>}) \cup {}, Handed(t))
    BY <2>3, <2>4 DEF DomainsOK, PartOK, t
  <2>6. Within(t, {<<t, x>>}) /\ Within(t, {}) /\ Keep
    BY <1>4 DEF Within, DomainDeletes
  <2>7. QED
    BY <1>0, <2>1, <2>2, <2>5, <2>6, Calls1
<1>5. QED
  BY <1>2, <1>3, <1>4

\* The lists: a create is refused or overwrites, a deletion takes the members
\* with it, all of them or all that are not handed back.
LEMMA ListCreatesStep == ASSUME BackInv, ListCreates PROVE BackInv'
<1> DEFINE t == "lists"
<1>0. /\ BackShape /\ TablesOK /\ Base(sql) /\ Base(dyn) /\ t \in Table
      /\ ListsOK(sql[t], dyn[t], Apart(t))
  BY Bases DEF BackInv, TablesOK, Table, PartOK
<1> HIDE DEF t
<1>1. PICK l \in List, e \in Email :
        Both(S!CreateMailingList(sql, l, e), Y!CreateMailingList(dyn, l, e),
             Taken(t, l, [list |-> l, owner |-> e]), {})
  BY DEF ListCreates, t
<1>2. PICK row : /\ row = [list |-> l, owner |-> e]
                 /\ Both(S!CreateMailingList(sql, l, e), Y!CreateMailingList(dyn, l, e),
                         Taken(t, l, row), {})
  BY <1>1
<1>3. PICK f : f = Inserted(sql[t], l, row)
  OBVIOUS
<1>4. /\ S!CreateMailingList(sql, l, e).db = Changed(sql, t, f)
      /\ Y!CreateMailingList(dyn, l, e).db = Changed(dyn, t, Added(dyn[t], l, row))
  BY <1>0, <1>2, <1>3, SqlPuts, DynPuts DEF S!CreateMailingList, Y!CreateMailingList, t
<1>5. <<t, l>> \in Taken(t, l, row) \/ (l \in DOMAIN f /\ f[l] = row)
  BY <1>3, TakenIs DEF Added, Inserted
<1>6. SameRows(t, f, Added(dyn[t], l, row), (Apart(t) \ {}) \cup Taken(t, l, row))
  BY <1>0, <1>3, <1>5, RowPut DEF ListsOK, t, Inserted
<1>7. row = [list |-> l, owner |-> row.owner]
  BY <1>2
<1>8. ListRows(Added(sql[t], l, row)) /\ ListRows(Added(dyn[t], l, row))
  BY <1>0, <1>7 DEF ListsOK, ListRows, Added
<1>9. ListRows(f)
  BY <1>0, <1>3, <1>8 DEF ListsOK, Inserted
<1>10. PartOK(t, f, Added(dyn[t], l, row), (Apart(t) \ {}) \cup Taken(t, l, row), Handed(t))
  BY <1>6, <1>8, <1>9 DEF ListsOK, PartOK, t
<1>11. Within(t, Taken(t, l, row)) /\ Within(t, {}) /\ Keep
  BY TakenIs, MissingIs DEF ListCreates
<1>12. QED
  BY <1>0, <1>2, <1>4, <1>10, <1>11, Calls1

\* The deletion of a list: members the batch leaves stay on DynamoDB.
LEMMA ListDeletesStep == ASSUME BackInv, ListDeletes PROVE BackInv'
<1>0. /\ BackShape /\ TablesOK /\ Base(sql) /\ Base(dyn) /\ "lists" \in Table /\ "members" \in Table
      /\ ListsOK(sql["lists"], dyn["lists"], Apart("lists"))
      /\ MembersOK(sql["members"], dyn["members"], Apart("members"))
  BY Bases DEF BackInv, TablesOK, Table, PartOK
<1>1. PICK l \in List : \E rest \in SUBSET Y!Members(dyn, l) :
        Both(S!DeleteMailingList(sql, l), Y!DeleteMailingList(dyn, l, rest),
             {<<"members", key>> : key \in rest},
             {<<"lists", l>>} \cup {<<"members", key>> : key \in Y!Members(dyn, l)})
  BY DEF ListDeletes
<1>2. PICK rest \in SUBSET Y!Members(dyn, l) :
        Both(S!DeleteMailingList(sql, l), Y!DeleteMailingList(dyn, l, rest),
             {<<"members", key>> : key \in rest},
             {<<"lists", l>>} \cup {<<"members", key>> : key \in Y!Members(dyn, l)})
  BY <1>1
<1>3. PICK K, M, L : K = S!Members(sql, l) /\ M = Y!Members(dyn, l) /\ L = M \ rest
  OBVIOUS
<1>4. PICK f, g, h, i :
        /\ f = Cut(sql["members"], K) /\ g = Cut(dyn["members"], L)
        /\ h = Cut(sql["lists"], {l}) /\ i = Cut(dyn["lists"], {l})
  OBVIOUS
<1>5. sql' = Changed(Changed(sql, "members", f), "lists", h)
  <2>1. PICK db : db = S!DELETE(sql, "members", K).db
    OBVIOUS
  <2>2. db = Changed(sql, "members", f)
    BY <1>0, <1>4, <2>1, SqlDeletes
  <2>3. Base(db) /\ db["lists"] = sql["lists"]
    BY <1>0, <2>2 DEF Changed, Base
  <2>4. S!DELETE(db, "lists", {l}).db = Changed(db, "lists", h)
    BY <1>0, <1>4, <2>3, SqlDeletes
  <2>5. QED
    BY <1>2, <1>3, <2>1, <2>2, <2>4 DEF Both, S!DeleteMailingList
<1>6. dyn' = Changed(Changed(dyn, "members", g), "lists", i)
  <2>1. PICK db : db = Y!BatchDelete(dyn, "members", M, rest).db
    OBVIOUS
  <2>2. db = Changed(dyn, "members", g)
    BY <1>0, <1>3, <1>4, <2>1
    DEF Y!BatchDelete, Y!Done, Y!Without, Cut, Base, Changed
  <2>3. Base(db) /\ db["lists"] = dyn["lists"]
    BY <1>0, <2>2 DEF Changed, Base
  <2>4. Y!DeleteItem(db, "lists", l).db = Changed(db, "lists", i)
    BY <1>0, <1>4, <2>3, DynDeletes
  <2>5. QED
    BY <1>2, <1>3, <2>1, <2>2, <2>4 DEF Both, Y!DeleteMailingList
<1>7. /\ sql' = [t \in Table |-> sql'[t]] /\ dyn' = [t \in Table |-> dyn'[t]]
      /\ sql'["members"] = f /\ sql'["lists"] = h /\ dyn'["members"] = g /\ dyn'["lists"] = i
      /\ \A t \in Table \ {"members", "lists"} : sql'[t] = sql[t] /\ dyn'[t] = dyn[t]
  BY <1>0, <1>5, <1>6 DEF Changed, Base
<1>8. /\ now' = now /\ spent' = spent
      /\ drift' = (drift \ ({<<"lists", l>>} \cup {<<"members", key>> : key \in M}))
                    \cup {<<"members", key>> : key \in rest}
  BY <1>2, <1>3 DEF Both, ListDeletes, Keep
<1>9. BackShape'
  BY <1>0, <1>7, <1>8 DEF BackShape
<1>10. /\ \A t \in Table : Handed(t)' = Handed(t)
       /\ \A t \in Table \ {"members", "lists"} : Apart(t)' = Apart(t)
       /\ Apart("lists")' = Apart("lists") \ {<<"lists", l>>}
       /\ \A k : <<"members", k>> \in Apart("members")' <=>
                   k \in rest \/ (k \notin M /\ <<"members", k>> \in Apart("members"))
  BY <1>8 DEF Apart, Handed
<1>11. ListsOK(h, i, Apart("lists")')
  <2>1. SameRows("lists", h, i, Apart("lists")')
    BY <1>0, <1>4, <1>10, RowCut DEF ListsOK
  <2>2. ListRows(h) /\ ListRows(i)
    BY <1>0, <1>4 DEF ListsOK, ListRows, Cut
  <2>3. QED
    BY <2>1, <2>2 DEF ListsOK
<1>12. MembersOK(f, g, Apart("members")')
  <2>1. DOMAIN f \cup DOMAIN g \subseteq List \X Email
    BY <1>0, <1>4 DEF MembersOK, Cut
  <2>2. /\ K = {k \in DOMAIN sql["members"] : k[1] = l}
        /\ M = {k \in DOMAIN dyn["members"] : k[1] = l}
    BY <1>3 DEF S!Members, Y!Members
  <2>3. ASSUME NEW k, <<"members", k>> \notin Apart("members")'
        PROVE  (k \in DOMAIN f <=> k \in DOMAIN g) /\ (k \in DOMAIN f => f[k] = g[k])
    <3>1. k \notin rest /\ (k \in M \/ <<"members", k>> \notin Apart("members"))
      BY <1>10, <2>3
    <3>2. CASE k \in M
      <4>1. k \notin DOMAIN g /\ k[1] = l
        BY <1>3, <1>4, <2>2, <3>1, <3>2 DEF Cut
      <4>2. k \notin DOMAIN f
        BY <1>4, <2>2, <4>1 DEF Cut
      <4>3. QED
        BY <4>1, <4>2
    <3>3. CASE k \notin M
      <4>1. /\ k \in DOMAIN sql["members"] <=> k \in DOMAIN dyn["members"]
            /\ k \in DOMAIN sql["members"] => sql["members"][k] = dyn["members"][k]
        BY <1>0, <3>1, <3>3 DEF MembersOK, SameRows
      <4>2. k \notin K
        BY <2>2, <3>3, <4>1
      <4>3. QED
        BY <1>3, <1>4, <3>3, <4>1, <4>2 DEF Cut
    <3>4. QED
      BY <3>2, <3>3
  <2>4. QED
    BY <2>1, <2>3 DEF MembersOK, SameRows
<1>13. ASSUME NEW t \in Table
       PROVE  PartOK(t, sql'[t], dyn'[t], Apart(t)', Handed(t)')
  <2>1. CASE t = "lists"
    BY <1>7, <1>11, <2>1 DEF PartOK
  <2>2. CASE t = "members"
    BY <1>7, <1>12, <2>2 DEF PartOK
  <2>3. CASE t \notin {"lists", "members"}
    <3>1. sql'[t] = sql[t] /\ dyn'[t] = dyn[t] /\ Apart(t)' = Apart(t) /\ Handed(t)' = Handed(t)
      BY <1>7, <1>10, <2>3
    <3>2. PartOK(t, sql[t], dyn[t], Apart(t), Handed(t))
      BY <1>0 DEF TablesOK
    <3>3. QED
      BY <3>1, <3>2
  <2>4. QED
    BY <2>1, <2>2, <2>3
<1>14. QED
  BY <1>9, <1>13 DEF BackInv, TablesOK

\* Members: written and removed under the list and the member on both.
LEMMA ListMemberStep == ASSUME BackInv, ListMemberCalls PROVE BackInv'
<1> DEFINE t == "members"
<1>0. /\ BackShape /\ TablesOK /\ Base(sql) /\ Base(dyn) /\ t \in Table
      /\ MembersOK(sql[t], dyn[t], Apart(t))
  BY Bases DEF BackInv, TablesOK, Table, PartOK
<1> HIDE DEF t
<1>1. PICK l \in List, e \in Email :
        \/ Both(S!AddListMember(sql, l, e), Y!AddListMember(dyn, l, e), {}, {<<t, <<l, e>>>>})
        \/ Both(S!RemoveListMember(sql, l, e), Y!RemoveListMember(dyn, l, e), {}, {<<t, <<l, e>>>>})
  BY DEF ListMemberCalls, t
<1>2. PICK k : k = <<l, e>>
  OBVIOUS
<1>3. Within(t, {<<t, k>>}) /\ Within(t, {}) /\ Keep /\ k \in List \X Email
  BY <1>2 DEF Within, ListMemberCalls
<1>4. CASE Both(S!AddListMember(sql, l, e), Y!AddListMember(dyn, l, e), {}, {<<t, k>>})
  <2>1. PICK row : row = [list |-> l, member |-> e]
    OBVIOUS
  <2>2. PICK f, g : f = Added(sql[t], k, row) /\ g = Added(dyn[t], k, row)
    OBVIOUS
  <2>3. /\ S!AddListMember(sql, l, e).db = Changed(sql, t, f)
        /\ Y!AddListMember(dyn, l, e).db = Changed(dyn, t, g)
    BY <1>0, <1>2, <2>1, <2>2, SqlPuts, DynPuts DEF S!AddListMember, Y!AddListMember, t
  <2>4. k \in DOMAIN f /\ f[k] = row
    BY <2>2 DEF Added
  <2>5. SameRows(t, f, g, (Apart(t) \ {<<t, k>>}) \cup {})
    <3>1. PICK E : E = (Apart(t) \ {<<t, k>>}) \cup {}
      OBVIOUS
    <3>2. \A l0 : l0 # k /\ <<t, l0>> \in Apart(t) => <<t, l0>> \in E
      BY <3>1
    <3>3. f \in {sql[t], Added(sql[t], k, row)} /\ SameRows(t, sql[t], dyn[t], Apart(t))
      BY <1>0, <2>2 DEF MembersOK, t
    <3>4. SameRows(t, f, g, E)
      BY <2>2, <2>4, <3>2, <3>3, RowPut
    <3>5. QED
      BY <3>1, <3>4
  <2>6. DOMAIN f \cup DOMAIN g \subseteq List \X Email
    BY <1>0, <1>3, <2>2 DEF MembersOK, Added
  <2>7. PartOK(t, f, g, (Apart(t) \ {<<t, k>>}) \cup {}, Handed(t))
    BY <2>5, <2>6 DEF PartOK, MembersOK, t
  <2>8. QED
    BY <1>0, <1>3, <1>4, <2>3, <2>7, Calls1
<1>5. CASE Both(S!RemoveListMember(sql, l, e), Y!RemoveListMember(dyn, l, e), {}, {<<t, k>>})
  <2>1. PICK f, g : f = Cut(sql[t], {k}) /\ g = Cut(dyn[t], {k})
    OBVIOUS
  <2>2. /\ S!RemoveListMember(sql, l, e).db = Changed(sql, t, f)
        /\ Y!RemoveListMember(dyn, l, e).db = Changed(dyn, t, g)
    BY <1>0, <1>2, <2>1, SqlDeletes, DynDeletes DEF S!RemoveListMember, Y!RemoveListMember, t
  <2>3. SameRows(t, f, g, (Apart(t) \ {<<t, k>>}) \cup {})
    BY <1>0, <2>1, RowCut DEF MembersOK, t
  <2>4. DOMAIN f \cup DOMAIN g \subseteq List \X Email
    BY <1>0, <2>1 DEF MembersOK, Cut
  <2>5. PartOK(t, f, g, (Apart(t) \ {<<t, k>>}) \cup {}, Handed(t))
    BY <2>3, <2>4 DEF PartOK, MembersOK, t
  <2>6. QED
    BY <1>0, <1>3, <1>5, <2>2, <2>5, Calls1
<1>6. QED
  BY <1>1, <1>2, <1>4, <1>5

-----------------------------------------------------------------------------
(* Accounts.                                                               *)

\* Tables that differ in one row.
Only(f, s, key) == \A k : k # key => (k \in DOMAIN f <=> k \in DOMAIN s)
                                     /\ (k \in DOMAIN s => f[k] = s[k])
UserItem(e, x) == /\ "email" \in DOMAIN x /\ x["email"] = e
                  /\ DOMAIN x \subseteq {"email", "domain", "name", "hash", "status"}
UserOfSql(e, x) == x \in UserRow /\ x.email = e /\ x.domain = DomainOf(e)
UsersAlike(x, y) == /\ y \in UserRow /\ y.domain = x.domain
                    /\ y.name = x.name /\ y.hash = x.hash

\* An account is written or removed, and the others are as they were.
LEMMA UserPut ==
  ASSUME NEW s, NEW d, NEW D, UsersOK(s, d, D), NEW e \in Email, NEW f, NEW g, NEW E,
         Only(f, s, e), Only(g, d, e), \A k : k # e /\ <<"users", k>> \in D => <<"users", k>> \in E,
         e \in DOMAIN f => UserOfSql(e, f[e]), e \in DOMAIN g => UserItem(e, g[e]),
         <<"users", e>> \notin E => /\ e \in DOMAIN f <=> e \in DOMAIN g
                                    /\ e \in DOMAIN f => UsersAlike(f[e], g[e])
  PROVE  PartOK("users", f, g, E, Handed("users"))
<1>1. ASSUME NEW k \in DOMAIN f PROVE k \in Email /\ UserOfSql(k, f[k])
  BY DEF UsersOK, Only, UserOfSql
<1>2. ASSUME NEW k \in DOMAIN g PROVE k \in Email /\ UserItem(k, g[k])
  BY DEF UsersOK, Only, UserItem
<1>3. ASSUME NEW k \in Email, <<"users", k>> \notin E
      PROVE  /\ k \in DOMAIN f <=> k \in DOMAIN g
             /\ k \in DOMAIN f => UsersAlike(f[k], g[k])
  BY <1>3 DEF UsersOK, Only, UsersAlike
<1>4. UsersOK(f, g, E)
  BY <1>1, <1>2, <1>3 DEF UsersOK, UserOfSql, UserItem, UsersAlike
<1>5. QED
  BY <1>4 DEF PartOK

\* Accounts: a blank password and an update of a missing account set them apart.
LEMMA AccountStep == ASSUME BackInv, AccountCalls PROVE BackInv'
<1> DEFINE t == "users"
           s == sql[t]
           d == dyn[t]
<1>0. /\ BackShape /\ TablesOK /\ Base(sql) /\ Base(dyn) /\ t \in Table
      /\ UsersOK(s, d, Apart(t))
  BY Bases DEF BackInv, TablesOK, Table, PartOK
<1>1. /\ \A e \in DOMAIN s : UserOfSql(e, s[e])
      /\ \A e \in DOMAIN d : UserItem(e, d[e])
      /\ \A e \in Email : <<t, e>> \notin Apart(t) =>
           (e \in DOMAIN s <=> e \in DOMAIN d) /\ (e \in DOMAIN s => UsersAlike(s[e], d[e]))
  BY <1>0 DEF UsersOK, UserOfSql, UserItem, UsersAlike
<1>2. Within(t, {}) /\ \A e : Within(t, {<<t, e>>}) /\ Within(t, Missing(t, e))
  BY MissingIs
<1> HIDE DEF t
<1>3. CASE UserCalls
  <2>1. PICK e \in Email, n \in Name, h \in Hash :
          Both(S!CreateUser(sql, e, n, h), Y!CreateUser(dyn, e, n, h), {}, {})
    BY <1>3 DEF UserCalls, t
  <2>2. PICK x, y : /\ x = [email |-> e, domain |-> DomainOf(e), name |-> n, hash |-> h, status |-> "A"]
                    /\ y = [email |-> e, domain |-> DomainOf(e), name |-> n, hash |-> h, status |-> ""]
    OBVIOUS
  <2>3. PICK f, g : /\ f = Inserted(s, e, x)
                    /\ g = Inserted(d, e, y)
    OBVIOUS
  <2>4. /\ S!CreateUser(sql, e, n, h).db = Changed(sql, t, f)
        /\ Y!CreateUser(dyn, e, n, h).db = Changed(dyn, t, g)
    <3>1. /\ S!CreateUser(sql, e, n, h) = S!INSERT(sql, t, e, x)
          /\ Y!CreateUser(dyn, e, n, h) = Y!PutNewItem(dyn, t, e, y)
      BY <2>2 DEF S!CreateUser, Y!CreateUser, t
    <3>2. S!INSERT(sql, t, e, x).db = Changed(sql, t, f)
      BY <1>0, <2>3, SqlPuts
    <3>3. Y!PutNewItem(dyn, t, e, y).db = Changed(dyn, t, g)
      BY <1>0, <2>3, DynPuts
    <3>4. QED
      BY <3>1, <3>2, <3>3
  <2>5. UserOfSql(e, x) /\ UserItem(e, y) /\ UsersAlike(x, y)
    BY <2>2 DEF UserOfSql, UserItem, UsersAlike, UserRow, Domains
  <2> HIDE DEF s, d
  <2>6. /\ Only(f, s, e) /\ Only(g, d, e)
        /\ e \in DOMAIN f /\ e \in DOMAIN g
        /\ f[e] = IF e \in DOMAIN s THEN s[e] ELSE x
        /\ g[e] = IF e \in DOMAIN d THEN d[e] ELSE y
    BY <2>3 DEF Only, Added, Inserted
  <2>7. PICK E : E = (Apart(t) \ {}) \cup {}
    OBVIOUS
  <2>8. PartOK(t, f, g, E, Handed(t))
    <3>1. UserOfSql(e, f[e]) /\ UserItem(e, g[e])
      BY <1>1, <2>5, <2>6
    <3>2. <<t, e>> \notin E => UsersAlike(f[e], g[e])
      BY <1>1, <2>5, <2>6, <2>7
    <3>3. QED
      BY <1>0, <2>6, <2>7, <3>1, <3>2, UserPut DEF t
  <2>9. QED
    BY <1>0, <1>2, <1>3, <2>1, <2>4, <2>7, <2>8, Calls1 DEF UserCalls
<1>4. CASE UserEdits
  <2>1. PICK e \in Email, n \in Name, h \in Hash :
          Both(S!UpdateUser(sql, e, n, h), Y!UpdateUser(dyn, e, n, h),
               Missing(t, e) \cup If(h = "", {<<t, e>>}), {})
    BY <1>4 DEF UserEdits, t
  <2>a. PICK item : item = IF h = "" THEN [email |-> e, name |-> n]
                           ELSE [email |-> e, name |-> n, hash |-> h]
    OBVIOUS
  <2>2. PICK x, y : /\ x = S!Over([name |-> n, hash |-> h], s[e])
                    /\ y = Y!Over(item, Y!Row(dyn, t, e))
    OBVIOUS
  <2>3. PICK f, g : /\ f = IF e \in DOMAIN s THEN Added(s, e, x) ELSE s
                    /\ g = Added(d, e, y)
    OBVIOUS
  <2>4. /\ S!UpdateUser(sql, e, n, h).db = Changed(sql, t, f)
        /\ Y!UpdateUser(dyn, e, n, h).db = Changed(dyn, t, g)
    <3>1. /\ S!UpdateUser(sql, e, n, h) = S!UPDATE(sql, t, e, [name |-> n, hash |-> h])
          /\ Y!UpdateUser(dyn, e, n, h) = Y!UpdateItem(dyn, t, e, item)
      BY <2>a DEF S!UpdateUser, Y!UpdateUser, t
    <3>2. S!UPDATE(sql, t, e, [name |-> n, hash |-> h]).db = Changed(sql, t, f)
      BY <1>0, <2>2, <2>3, SqlPuts
    <3>3. Y!UpdateItem(dyn, t, e, item).db = Changed(dyn, t, g)
      BY <1>0, <2>2, <2>3, DynPuts
    <3>4. QED
      BY <3>1, <3>2, <3>3
  <2>5. Y!Row(dyn, t, e) = IF e \in DOMAIN d THEN d[e] ELSE <<>>
    BY DEF Y!Row
  <2> HIDE DEF s, d
  <2>6. e \in DOMAIN s => UserOfSql(e, x) /\ x.name = n /\ x.hash = h /\ x.domain = s[e].domain
    <3>1. SUFFICES ASSUME NEW old, UserOfSql(e, old), x = S!Over([name |-> n, hash |-> h], old)
                   PROVE  UserOfSql(e, x) /\ x.name = n /\ x.hash = h /\ x.domain = old.domain
      BY <1>1, <2>2
    <3>2. /\ DOMAIN old = {"email", "domain", "name", "hash", "status"}
          /\ old.email = e /\ old.domain = DomainOf(e) /\ old.status \in {"", "A", "S"}
      BY <3>1 DEF UserOfSql, UserRow
    <3>3. /\ DOMAIN [name |-> n, hash |-> h] = {"name", "hash"}
          /\ [name |-> n, hash |-> h]["name"] = n /\ [name |-> n, hash |-> h]["hash"] = h
      OBVIOUS
    <3>4. x = [at \in {"email", "domain", "name", "hash", "status"} |->
                 IF at = "name" THEN n ELSE IF at = "hash" THEN h ELSE old[at]]
      BY <3>1, <3>2, <3>3 DEF S!Over
    <3>5. x = [email |-> e, domain |-> DomainOf(e), name |-> n, hash |-> h, status |-> old.status]
      BY <3>2, <3>4
    <3>6. QED
      BY <3>2, <3>5 DEF UserOfSql, UserRow, Domains
  <2>7. UserItem(e, y)
    <3>1. /\ DOMAIN item \subseteq {"email", "name", "hash"} /\ "email" \in DOMAIN item
          /\ item["email"] = e
      BY <2>a
    <3>2. DOMAIN Y!Row(dyn, t, e) \subseteq {"email", "domain", "name", "hash", "status"}
      <4>1. CASE e \in DOMAIN d
        BY <1>1, <2>5, <4>1 DEF UserItem
      <4>2. CASE e \notin DOMAIN d
        <5>1. Y!Row(dyn, t, e) = <<>>
          BY <2>5, <4>2
        <5>2. QED
          BY <5>1
      <4>3. QED
        BY <4>1, <4>2
    <3>3. PICK old : old = Y!Row(dyn, t, e)
      OBVIOUS
    <3>4. QED
      BY <2>2, <3>1, <3>2, <3>3 DEF UserItem, Y!Over
  <2>8. ASSUME e \in DOMAIN s, h # "", <<t, e>> \notin Apart(t)
        PROVE  UsersAlike(x, y)
    <3>1. PICK old \in UserRow : old = Y!Row(dyn, t, e) /\ old.domain = s[e].domain
      BY <1>1, <2>5, <2>8 DEF UsersAlike
    <3>2. item = [email |-> e, name |-> n, hash |-> h]
      BY <2>a, <2>8
    <3>3. /\ DOMAIN item = {"email", "name", "hash"}
          /\ item["email"] = e /\ item["name"] = n /\ item["hash"] = h
      BY <3>2
    <3>4. /\ DOMAIN old = {"email", "domain", "name", "hash", "status"}
          /\ old.domain \in Domains /\ old.status \in {"", "A", "S"}
      BY <3>1 DEF UserRow
    <3>5. y = [at \in {"email", "domain", "name", "hash", "status"} |->
                 IF at = "email" THEN e ELSE IF at = "name" THEN n
                 ELSE IF at = "hash" THEN h ELSE old[at]]
      BY <2>2, <3>1, <3>3, <3>4 DEF Y!Over
    <3>6. y = [email |-> e, domain |-> old.domain, name |-> n, hash |-> h, status |-> old.status]
      BY <3>4, <3>5
    <3>7. QED
      BY <2>6, <2>8, <3>1, <3>4, <3>6 DEF UsersAlike, UserRow
  <2>9. /\ Only(f, s, e) /\ Only(g, d, e)
        /\ e \in DOMAIN f <=> e \in DOMAIN s
        /\ e \in DOMAIN s => f[e] = x
        /\ e \in DOMAIN g /\ g[e] = y
    BY <2>3 DEF Only, Added
  <2>10. PICK D, E : /\ D = Missing(t, e) \cup If(h = "", {<<t, e>>})
                     /\ E = (Apart(t) \ {}) \cup D
    OBVIOUS
  <2>11. <<t, e>> \notin E => e \in DOMAIN s /\ h # "" /\ <<t, e>> \notin Apart(t)
    BY <2>10 DEF Missing, If, s
  <2>12. Within(t, D)
    <3>1. Within(t, Missing(t, e)) /\ Within(t, {<<t, e>>})
      BY <1>2
    <3>2. QED
      BY <2>10, <3>1 DEF If, Within
  <2>13. PartOK(t, f, g, E, Handed(t))
    <3>1. /\ e \in DOMAIN f => UserOfSql(e, f[e])
          /\ e \in DOMAIN g => UserItem(e, g[e])
      BY <2>6, <2>7, <2>9
    <3>2. <<t, e>> \notin E => (e \in DOMAIN f <=> e \in DOMAIN g) /\ UsersAlike(f[e], g[e])
      BY <2>8, <2>9, <2>11
    <3>3. QED
      BY <1>0, <2>9, <2>10, <3>1, <3>2, UserPut DEF t
  <2>14. Both(S!UpdateUser(sql, e, n, h), Y!UpdateUser(dyn, e, n, h), D, {}) /\ Keep
    BY <1>4, <2>1, <2>10 DEF UserEdits
  <2>15. PartOK(t, f, g, (Apart(t) \ {}) \cup D, Handed(t)) /\ Within(t, {})
    BY <1>2, <2>10, <2>13
  <2>16. QED
    BY <1>0, <2>4, <2>12, <2>14, <2>15, Calls1
<1>5. CASE UserStatus
  <2>1. PICK e \in Email : Both(S!UpdateUserStatus(sql, e, "S"),
                                Y!UpdateUserStatus(dyn, e, "S"), {}, {})
    BY <1>5 DEF UserStatus, t
  <2>2. PICK x : x = S!Over([status |-> "S"], s[e])
    OBVIOUS
  <2>3. PICK f : f = IF e \in DOMAIN s THEN Added(s, e, x) ELSE s
    OBVIOUS
  <2>4. S!UpdateUserStatus(sql, e, "S").db = Changed(sql, t, f)
    BY <1>0, <2>2, <2>3, SqlPuts DEF S!UpdateUserStatus, t
  <2>5. Y!UpdateUserStatus(dyn, e, "S").db = Changed(dyn, t, d)
    BY <1>0, SameTable DEF Y!UpdateUserStatus, Y!Refused
  <2> HIDE DEF s, d
  <2>6. e \in DOMAIN s => /\ UserOfSql(e, x) /\ x.name = s[e].name /\ x.hash = s[e].hash
                          /\ x.domain = s[e].domain
    <3>1. SUFFICES ASSUME NEW old, UserOfSql(e, old), x = S!Over([status |-> "S"], old)
                   PROVE  /\ UserOfSql(e, x) /\ x.name = old.name /\ x.hash = old.hash
                          /\ x.domain = old.domain
      BY <1>1, <2>2
    <3>2. /\ DOMAIN old = {"email", "domain", "name", "hash", "status"}
          /\ old.email = e /\ old.domain = DomainOf(e) /\ old.name \in Name /\ old.hash \in Hash
      BY <3>1 DEF UserOfSql, UserRow
    <3>3. DOMAIN [status |-> "S"] = {"status"} /\ [status |-> "S"]["status"] = "S"
      OBVIOUS
    <3>4. x = [at \in {"email", "domain", "name", "hash", "status"} |->
                 IF at = "status" THEN "S" ELSE old[at]]
      BY <3>1, <3>2, <3>3 DEF S!Over
    <3>5. x = [email |-> e, domain |-> DomainOf(e), name |-> old.name, hash |-> old.hash,
               status |-> "S"]
      BY <3>2, <3>4
    <3>6. QED
      BY <3>2, <3>5 DEF UserOfSql, UserRow, Domains
  <2>7. /\ Only(f, s, e) /\ Only(d, d, e)
        /\ e \in DOMAIN f <=> e \in DOMAIN s
        /\ e \in DOMAIN s => f[e] = x
    BY <2>3 DEF Only, Added
  <2>8. PICK E : E = (Apart(t) \ {}) \cup {}
    OBVIOUS
  <2>9. PartOK(t, f, d, E, Handed(t))
    <3>1. /\ e \in DOMAIN f => UserOfSql(e, f[e])
          /\ e \in DOMAIN d => UserItem(e, d[e])
      BY <1>1, <2>6, <2>7
    <3>2. <<t, e>> \notin E => (e \in DOMAIN f <=> e \in DOMAIN d)
                               /\ (e \in DOMAIN f => UsersAlike(f[e], d[e]))
      BY <1>1, <2>6, <2>7, <2>8 DEF UsersAlike
    <3>3. QED
      BY <1>0, <2>7, <2>8, <3>1, <3>2, UserPut DEF t
  <2>10. QED
    BY <1>0, <1>2, <1>5, <2>1, <2>4, <2>5, <2>8, <2>9, Calls1 DEF UserStatus
<1>6. CASE UserDeletes
  <2>1. PICK e \in Email : Both(S!DeleteUser(sql, e), Y!DeleteUser(dyn, e), {}, {<<t, e>>})
    BY <1>6 DEF UserDeletes, t
  <2>2. PICK f, g : f = Cut(s, {e}) /\ g = Cut(d, {e})
    OBVIOUS
  <2>3. /\ S!DeleteUser(sql, e).db = Changed(sql, t, f)
        /\ Y!DeleteUser(dyn, e).db = Changed(dyn, t, g)
    BY <1>0, <2>2, SqlDeletes, DynDeletes DEF S!DeleteUser, Y!DeleteUser, t
  <2> HIDE DEF s, d
  <2>4. Only(f, s, e) /\ Only(g, d, e) /\ e \notin DOMAIN f /\ e \notin DOMAIN g
    BY <2>2 DEF Only, Cut
  <2>5. PICK E : E = (Apart(t) \ {<<t, e>>}) \cup {}
    OBVIOUS
  <2>6. \A k : k # e /\ <<t, k>> \in Apart(t) => <<t, k>> \in E
    BY <2>5
  <2>7. PartOK(t, f, g, E, Handed(t))
    BY <1>0, <2>4, <2>6, UserPut DEF t
  <2>8. QED
    BY <1>0, <1>2, <1>6, <2>1, <2>3, <2>5, <2>7, Calls1 DEF UserDeletes
<1>7. QED
  BY <1>3, <1>4, <1>5, <1>6 DEF AccountCalls

-----------------------------------------------------------------------------
(* Filters, replies and the clock.                                         *)

\* A new filter comes into both copies, under an id that was never used.
LEMMA FilterAdds ==
  ASSUME NEW s, NEW d, NEW D, NEW U, FiltersOK(s, d, D, U),
         NEW id \in FilterId, <<"filters", id>> \notin U, NEW x, FilterRow(x), x.id = id,
         NEW f, f = Inserted(s, id, x), NEW g, g = Added(d, <<x.user, id>>, x)
  PROVE  FiltersOK(f, g, D, U \cup {<<"filters", id>>})
<1>1. id \notin DOMAIN s /\ \A k \in DOMAIN d : k[2] # id
  BY DEF FiltersOK
<1>2. f = Added(s, id, x)
  BY <1>1 DEF Inserted
<1>3. IsFiniteSet(DOMAIN f) /\ IsFiniteSet(DOMAIN g)
  BY <1>2, FS_AddElement DEF Added, FiltersOK
<1>4. \A n \in DOMAIN f : /\ n \in FilterId /\ <<"filters", n>> \in U \cup {<<"filters", id>>}
                         /\ f[n].id = n /\ FilterRow(f[n])
  <2>1. ASSUME NEW n \in DOMAIN f PROVE (n \in DOMAIN s /\ f[n] = s[n]) \/ (n = id /\ f[n] = x)
    BY <1>2 DEF Added
  <2>2. QED
    BY <2>1 DEF FiltersOK
<1>5. \A k \in DOMAIN g :
        /\ k[2] \in FilterId /\ <<"filters", k[2]>> \in U \cup {<<"filters", id>>}
        /\ k = <<g[k].user, g[k].id>>
  <2>1. ASSUME NEW k \in DOMAIN g
        PROVE  (k \in DOMAIN d /\ g[k] = d[k]) \/ (k = <<x.user, id>> /\ g[k] = x)
    BY DEF Added
  <2>2. ASSUME NEW k \in DOMAIN g
        PROVE  /\ k[2] \in FilterId /\ <<"filters", k[2]>> \in U \cup {<<"filters", id>>}
               /\ k = <<g[k].user, g[k].id>>
    <3>1. CASE k \in DOMAIN d /\ g[k] = d[k]
      BY <3>1 DEF FiltersOK
    <3>2. CASE k = <<x.user, id>> /\ g[k] = x
      BY <3>2
    <3>3. QED
      BY <2>1, <3>1, <3>2
  <2>3. QED
    BY <2>2
<1>6. ASSUME NEW n, <<"filters", n>> \notin D
      PROVE  /\ n \in DOMAIN f => <<f[n].user, n>> \in DOMAIN g
             /\ \A k \in DOMAIN g : k[2] = n => n \in DOMAIN f /\ g[k] = f[n]
  <2>1. CASE n = id
    BY <1>1, <1>2, <2>1 DEF Added
  <2>2. CASE n # id
    <3>1. n \in DOMAIN f <=> n \in DOMAIN s
      BY <1>2, <2>2 DEF Added
    <3>2. n \in DOMAIN s => f[n] = s[n]
      BY <1>2, <2>2 DEF Added
    <3>3. \A k \in DOMAIN g : k[2] = n => k \in DOMAIN d /\ g[k] = d[k]
      BY <2>2 DEF Added
    <3>4. DOMAIN d \subseteq DOMAIN g
      BY DEF Added
    <3>5. QED
      BY <1>6, <3>1, <3>2, <3>3, <3>4 DEF FiltersOK
  <2>3. QED
    BY <2>1, <2>2
<1>7. QED
  BY <1>3, <1>4, <1>5, <1>6 DEF FiltersOK

\* An update writes both copies, or only an item where the row is gone.
LEMMA FilterChanges ==
  ASSUME NEW s, NEW d, NEW D, NEW U, FiltersOK(s, d, D, U),
         NEW id \in FilterId, <<"filters", id>> \in U, NEW x, FilterRow(x), x.id = id,
         id \in DOMAIN s => s[id].user = x.user,
         NEW f, f = IF id \in DOMAIN s THEN Added(s, id, x) ELSE s,
         NEW g, g = Added(d, <<x.user, id>>, x),
         NEW M, id \notin DOMAIN s => <<"filters", id>> \in M
  PROVE  FiltersOK(f, g, D \cup M, U)
<1>1. DOMAIN f = DOMAIN s /\ \A n \in DOMAIN f : f[n] = IF n = id THEN x ELSE s[n]
  BY DEF Added
<1>2. IsFiniteSet(DOMAIN f) /\ IsFiniteSet(DOMAIN g)
  BY <1>1, FS_AddElement DEF Added, FiltersOK
<1>3. \A n \in DOMAIN f : /\ n \in FilterId /\ <<"filters", n>> \in U
                         /\ f[n].id = n /\ FilterRow(f[n])
  BY <1>1 DEF FiltersOK
<1>4. \A k \in DOMAIN g : /\ k[2] \in FilterId /\ <<"filters", k[2]>> \in U
                         /\ k = <<g[k].user, g[k].id>>
  <2>1. ASSUME NEW k \in DOMAIN g
        PROVE  (k \in DOMAIN d /\ g[k] = d[k]) \/ (k = <<x.user, id>> /\ g[k] = x)
    BY DEF Added
  <2>2. ASSUME NEW k \in DOMAIN g
        PROVE  /\ k[2] \in FilterId /\ <<"filters", k[2]>> \in U
               /\ k = <<g[k].user, g[k].id>>
    <3>1. CASE k \in DOMAIN d /\ g[k] = d[k]
      BY <3>1 DEF FiltersOK
    <3>2. CASE k = <<x.user, id>> /\ g[k] = x
      BY <3>2
    <3>3. QED
      BY <2>1, <3>1, <3>2
  <2>3. QED
    BY <2>2
<1>5. ASSUME NEW n, <<"filters", n>> \notin D \cup M
      PROVE  /\ n \in DOMAIN f => <<f[n].user, n>> \in DOMAIN g
             /\ \A k \in DOMAIN g : k[2] = n => n \in DOMAIN f /\ g[k] = f[n]
  <2>1. /\ n \in DOMAIN s => <<s[n].user, n>> \in DOMAIN d
        /\ \A k \in DOMAIN d : k[2] = n => n \in DOMAIN s /\ d[k] = s[n]
    BY <1>5 DEF FiltersOK
  <2>2. CASE n = id
    <3>1. id \in DOMAIN s /\ s[id].user = x.user
      BY <1>5, <2>2
    <3>2. \A k \in DOMAIN d : k[2] = id => k = <<x.user, id>>
      BY <2>1, <2>2, <3>1 DEF FiltersOK
    <3>3. \A k \in DOMAIN g : k[2] = id => k = <<x.user, id>>
      BY <3>2 DEF Added
    <3>4. <<x.user, id>> \in DOMAIN g /\ g[<<x.user, id>>] = x
      BY DEF Added
    <3>5. QED
      BY <1>1, <2>2, <3>1, <3>3, <3>4
  <2>3. CASE n # id
    <3>1. \A k \in DOMAIN g : k[2] = n => k \in DOMAIN d /\ g[k] = d[k]
      BY <2>3 DEF Added
    <3>2. DOMAIN d \subseteq DOMAIN g
      BY DEF Added
    <3>3. QED
      BY <1>1, <2>1, <2>3, <3>1, <3>2
  <2>4. QED
    BY <2>2, <2>3
<1>6. QED
  BY <1>2, <1>3, <1>4, <1>5 DEF FiltersOK

\* A deletion takes the row and one item of the id.  Once it was the only item
\* the copies agree about the id again.
LEMMA FilterCuts ==
  ASSUME NEW s, NEW d, NEW D, NEW U, FiltersOK(s, d, D, U), NEW id,
         NEW K, \A k : k \in K <=> k \in DOMAIN d /\ k[2] = id, NEW key, K # {} => key \in K,
         NEW f, f = Cut(s, {id}), NEW g, g = IF K = {} THEN d ELSE Cut(d, {key}),
         NEW H, \A h \in H : h = <<"filters", id>> /\ Cardinality(K) <= 1
  PROVE  FiltersOK(f, g, D \ H, U)
<1>1. DOMAIN f = DOMAIN s \ {id} /\ \A n \in DOMAIN f : f[n] = s[n]
  BY DEF Cut
<1>2. DOMAIN g \subseteq DOMAIN d /\ \A k \in DOMAIN g : g[k] = d[k]
  BY DEF Cut
<1>3. IsFiniteSet(DOMAIN f) /\ IsFiniteSet(DOMAIN g) /\ IsFiniteSet(K)
  BY <1>1, <1>2, FS_Subset DEF FiltersOK
<1>4. \A k \in DOMAIN d : k[2] # id => k \in DOMAIN g
  BY DEF Cut
<1>5. ASSUME NEW n, <<"filters", n>> \notin D \ H
      PROVE  /\ n \in DOMAIN f => <<f[n].user, n>> \in DOMAIN g
             /\ \A k \in DOMAIN g : k[2] = n => n \in DOMAIN f /\ g[k] = f[n]
  <2>1. CASE n = id
    <3>1. \A k, l \in K : k = l
      <4>1. CASE <<"filters", id>> \notin D
        <5>1. \A k \in DOMAIN d : k[2] = id => d[k] = s[id]
          BY <4>1 DEF FiltersOK
        <5>2. \A k \in DOMAIN d : k = <<d[k].user, d[k].id>>
          BY DEF FiltersOK
        <5>3. ASSUME NEW k \in K, NEW l \in K PROVE k = l
          <6>1. d[k] = s[id] /\ d[l] = s[id]
            BY <5>1
          <6>2. k = <<d[k].user, d[k].id>> /\ l = <<d[l].user, d[l].id>>
            BY <5>2
          <6>3. QED
            BY <6>1, <6>2
        <5>4. QED
          BY <5>3
      <4>2. CASE <<"filters", id>> \in H
        <5>1. Cardinality(K) <= 1
          BY <4>2
        <5>2. ASSUME NEW k \in K, NEW l \in K, k # l PROVE FALSE
          <6>1. {k, l} \subseteq K /\ IsFiniteSet({k}) /\ Cardinality({k}) = 1 /\ {k, l} = {k} \cup {l}
            BY FS_Singleton
          <6>2. Cardinality({k, l}) = 2
            <7>1. l \notin {k}
              BY <5>2
            <7>2. Cardinality({k} \cup {l}) = Cardinality({k}) + 1
              BY <6>1, <7>1, FS_AddElement, Zenon
            <7>3. QED
              BY <6>1, <7>2
          <6>3. Cardinality({k, l}) <= Cardinality(K) /\ Cardinality(K) \in Nat
            BY <1>3, <6>1, FS_Subset, FS_CardinalityType
          <6>4. QED
            BY <5>1, <6>2, <6>3
        <5>3. QED
          BY <5>2
      <4>3. QED
        BY <1>5, <2>1, <4>1, <4>2
    <3>2. \A k \in DOMAIN g : k[2] # id
      BY <1>2, <3>1 DEF Cut
    <3>3. QED
      BY <1>1, <2>1, <3>2
  <2>2. CASE n # id
    <3>1. <<"filters", n>> \notin D
      <4>1. <<"filters", n>> \notin H
        BY <2>2
      <4>2. QED
        BY <1>5, <4>1
    <3>2. /\ n \in DOMAIN s => <<s[n].user, n>> \in DOMAIN d
          /\ \A k \in DOMAIN d : k[2] = n => n \in DOMAIN s /\ d[k] = s[n]
      BY <3>1 DEF FiltersOK
    <3>3. n \in DOMAIN s => <<s[n].user, n>> \in DOMAIN g
      <4>1. <<s[n].user, n>>[2] # id
        BY <2>2
      <4>2. QED
        BY <1>4, <3>2, <4>1
    <3>4. n \in DOMAIN f <=> n \in DOMAIN s
      BY <1>1, <2>2
    <3>5. n \in DOMAIN f => f[n] = s[n]
      BY <1>1
    <3>6. ASSUME NEW k \in DOMAIN g, k[2] = n PROVE n \in DOMAIN f /\ g[k] = f[n]
      BY <1>2, <3>2, <3>4, <3>5, <3>6
    <3>7. QED
      BY <3>3, <3>4, <3>5, <3>6
  <2>3. QED
    BY <2>1, <2>2
<1>6. QED
  BY <1>1, <1>2, <1>3, <1>5 DEF FiltersOK

\* What a call on filters writes is a filter of its user.
FilterOf(id, e, c) == S!Over([id |-> id, user |-> e], c)
LEMMA FilterIs ==
  ASSUME NEW id, NEW e, NEW c \in Body, NEW x, x = FilterOf(id, e, c)
  PROVE  x.id = id /\ x.user = e /\ FilterRow(x)
<1>1. PICK new : new = [id |-> id, user |-> e]
  OBVIOUS
<1>2. new.id = id /\ new.user = e /\ DOMAIN new = {"id", "user"}
  BY <1>1
<1>3. DOMAIN c = {"priority", "conditions", "actions", "enabled"}
  <2>1. c = [priority |-> c.priority, conditions |-> c.conditions,
             actions |-> c.actions, enabled |-> c.enabled]
    BY BackendsAssumption
  <2>2. QED
    BY <2>1
<1>4. /\ x = [k \in DOMAIN new \cup DOMAIN c |-> IF k \in DOMAIN new THEN new[k] ELSE c[k]]
      /\ DOMAIN x = {"id", "user", "priority", "conditions", "actions", "enabled"}
  BY <1>1, <1>2, <1>3 DEF S!Over, FilterOf
<1>5. x.id = id /\ x.user = e
  BY <1>2, <1>4
<1>6. FilterRow(x)
  BY <1>4 DEF FilterRow
<1>7. QED
  BY <1>5, <1>6

\* An update overwrites what is not a key.
LEMMA FilterSet ==
  ASSUME NEW x, FilterRow(x), NEW y, FilterRow(y), y.id = x.id, y.user = x.user,
         NEW set, set = [priority |-> x.priority, conditions |-> x.conditions,
                         actions |-> x.actions, enabled |-> x.enabled]
  PROVE  S!Over(set, y) = x
<1>1. /\ DOMAIN set = {"priority", "conditions", "actions", "enabled"}
      /\ set.priority = x.priority /\ set.conditions = x.conditions
      /\ set.actions = x.actions /\ set.enabled = x.enabled
  OBVIOUS
<1>2. /\ DOMAIN y = {"id", "user", "priority", "conditions", "actions", "enabled"}
      /\ DOMAIN x = DOMAIN y /\ x = [k \in DOMAIN x |-> x[k]]
  BY DEF FilterRow
<1>3. \A k \in DOMAIN x : (IF k \in DOMAIN set THEN set[k] ELSE y[k]) = x[k]
  BY <1>1, <1>2
<1>4. DOMAIN set \cup DOMAIN y = DOMAIN x
  BY <1>1, <1>2
<1>5. QED
  BY <1>2, <1>3, <1>4 DEF S!Over

\* Filters keep the relation of their rows and items.
LEMMA FilterStep == ASSUME BackInv, FilterCalls PROVE BackInv'
<1> DEFINE t == "filters"
<1>0. /\ BackShape /\ TablesOK /\ Base(sql) /\ Base(dyn) /\ t \in Table
      /\ FiltersOK(sql[t], dyn[t], Apart(t), Handed(t))
  BY Bases DEF BackInv, TablesOK, Table, PartOK
<1>1. \A f, g, E, U : FiltersOK(f, g, E, U) => PartOK(t, f, g, E, U)
  BY DEF PartOK
<1> HIDE DEF t
<1>2. Within(t, {}) /\ \A id : Within(t, {<<t, id>>}) /\ Within(t, Missing(t, id))
  BY MissingIs
<1>3. (Apart(t) \ {}) = Apart(t) /\ \A E : E \cup {} = E
  OBVIOUS
<1>4. CASE FilterCreates
  <2>1. PICK id \in FilterId, e \in Email, c \in Body :
          /\ Fresh(t, id)
          /\ Both(S!CreateFilter(sql, FilterOf(id, e, c)),
                  Y!CreateFilter(dyn, FilterOf(id, e, c)), {}, {})
    BY <1>4 DEF FilterCreates, FilterOf, t
  <2>2. PICK x : x = FilterOf(id, e, c)
    OBVIOUS
  <2>3. x.id = id /\ FilterRow(x)
    BY <2>2, FilterIs
  <2>4. PICK f, g : f = Inserted(sql[t], id, x) /\ g = Added(dyn[t], <<x.user, id>>, x)
    OBVIOUS
  <2>5. S!CreateFilter(sql, x).db = Changed(sql, t, f)
    BY <1>0, <2>3, <2>4, SqlPuts DEF S!CreateFilter, t
  <2>6. Y!CreateFilter(dyn, x).db = Changed(dyn, t, g)
    BY <1>0, <2>3, <2>4, DynPuts DEF Y!CreateFilter, t
  <2>7. <<"filters", id>> \notin Handed(t)
    BY <2>1 DEF Fresh, Handed, t
  <2>8. Both(S!CreateFilter(sql, x), Y!CreateFilter(dyn, x), {}, {})
    BY <2>1, <2>2
  <2>9. FiltersOK(f, g, Apart(t), Handed(t) \cup {<<t, id>>})
    <3>1. FiltersOK(f, g, Apart(t), Handed(t) \cup {<<"filters", id>>})
      BY <1>0, <2>3, <2>4, <2>7, FilterAdds
    <3>2. QED
      BY <3>1 DEF t
  <2>10. /\ PartOK(t, f, g, (Apart(t) \ {}) \cup {}, Handed(t) \cup {<<t, id>>})
         /\ Within(t, {})
    BY <1>1, <1>2, <1>3, <2>9
  <2>11. QED
    BY <1>0, <2>1, <2>5, <2>6, <2>8, <2>10, CallsFresh
<1>5. CASE FilterUpdates
  <2>1. PICK id \in FilterId, e \in Email, c \in Body :
          /\ <<t, id>> \in spent
          /\ id \in DOMAIN sql[t] => sql[t][id].user = e
          /\ Both(S!UpdateFilter(sql, FilterOf(id, e, c)),
                  Y!UpdateFilter(dyn, FilterOf(id, e, c)), Missing(t, id), {})
    BY <1>5 DEF FilterUpdates, FilterOf, t
  <2>2. PICK x : x = FilterOf(id, e, c)
    OBVIOUS
  <2>3. x.id = id /\ x.user = e /\ FilterRow(x)
    BY <2>2, FilterIs
  <2>4. PICK set : set = [priority |-> x.priority, conditions |-> x.conditions,
                          actions |-> x.actions, enabled |-> x.enabled]
    OBVIOUS
  <2>5. PICK f, g : /\ f = IF id \in DOMAIN sql[t] THEN Added(sql[t], id, x) ELSE sql[t]
                    /\ g = Added(dyn[t], <<x.user, id>>, x)
    OBVIOUS
  <2>6. S!UpdateFilter(sql, x).db = Changed(sql, t, f)
    <3>1. S!UpdateFilter(sql, x) = S!UPDATE(sql, t, id, set)
      BY <2>3, <2>4 DEF S!UpdateFilter, t
    <3>2. id \in DOMAIN sql[t] => FilterRow(sql[t][id]) /\ sql[t][id].id = id
      BY <1>0 DEF FiltersOK
    <3>3. id \in DOMAIN sql[t] => S!Over(set, sql[t][id]) = x
      BY <2>1, <2>3, <2>4, <3>2, FilterSet
    <3>4. QED
      BY <1>0, <2>5, <3>1, <3>3, SqlPuts
  <2>7. Y!UpdateFilter(dyn, x).db = Changed(dyn, t, g)
    BY <1>0, <2>3, <2>5, DynPuts DEF Y!UpdateFilter, Y!CreateFilter, t
  <2>8. FiltersOK(f, g, Apart(t) \cup Missing(t, id), Handed(t))
    <3>1. <<"filters", id>> \in Handed(t)
      BY <2>1 DEF Handed, t
    <3>2. id \notin DOMAIN sql[t] => <<"filters", id>> \in Missing(t, id)
      BY MissingIs DEF t
    <3>3. QED
      BY <1>0, <2>1, <2>3, <2>5, <3>1, <3>2, FilterChanges
  <2>9. Both(S!UpdateFilter(sql, x), Y!UpdateFilter(dyn, x), Missing(t, id), {}) /\ Keep
    BY <1>5, <2>1, <2>2 DEF FilterUpdates
  <2>10. /\ PartOK(t, f, g, (Apart(t) \ {}) \cup Missing(t, id), Handed(t))
         /\ Within(t, {}) /\ Within(t, Missing(t, id))
    BY <1>1, <1>2, <1>3, <2>8
  <2>11. QED
    BY <1>0, <2>6, <2>7, <2>9, <2>10, Calls1
<1>6. CASE FilterDeletes
  <2>1. PICK id \in FilterId :
          Both(S!DeleteFilter(sql, id), Y!DeleteFilter(dyn, id), {},
               If(Cardinality(Y!FilterKeys(dyn, id)) <= 1, {<<t, id>>}))
    BY <1>6 DEF FilterDeletes, t
  <2>2. PICK K, key : /\ K = {k \in DOMAIN dyn[t] : k[2] = id}
                      /\ key = CHOOSE k \in K : TRUE
    OBVIOUS
  <2>3. PICK f, g, H : /\ f = Cut(sql[t], {id})
                       /\ g = IF K = {} THEN dyn[t] ELSE Cut(dyn[t], {key})
                       /\ H = If(Cardinality(K) <= 1, {<<t, id>>})
    OBVIOUS
  <2>4. S!DeleteFilter(sql, id).db = Changed(sql, t, f)
    BY <1>0, <2>3, SqlDeletes DEF S!DeleteFilter, t
  <2>5. Y!FilterKeys(dyn, id) = K
    BY <2>2 DEF Y!FilterKeys, t
  <2>6. Y!DeleteFilter(dyn, id).db = Changed(dyn, t, g)
    <3>1. CASE K = {}
      BY <1>0, <2>3, <2>5, <3>1, SameTable DEF Y!DeleteFilter, Y!Refused
    <3>2. CASE K # {}
      <4>1. Y!DeleteFilter(dyn, id) = Y!DeleteItem(dyn, t, key)
        BY <2>2, <2>5, <3>2 DEF Y!DeleteFilter, t
      <4>2. QED
        BY <1>0, <2>3, <3>2, <4>1, DynDeletes
    <3>3. QED
      BY <3>1, <3>2
  <2>7. FiltersOK(f, g, Apart(t) \ H, Handed(t))
    <3>0. \A k : k \in K <=> k \in DOMAIN dyn[t] /\ k[2] = id
      BY <2>2
    <3>1. K # {} => key \in K
      BY <2>2
    <3>2. \A h \in H : h = <<"filters", id>> /\ Cardinality(K) <= 1
      BY <2>3 DEF If, t
    <3>3. /\ FiltersOK(sql[t], dyn[t], Apart(t), Handed(t))
          /\ f = Cut(sql[t], {id}) /\ g = IF K = {} THEN dyn[t] ELSE Cut(dyn[t], {key})
      BY <1>0, <2>3
    <3>4. QED
      BY <3>0, <3>1, <3>2, <3>3, FilterCuts
  <2>8. Within(t, H)
    BY <1>2, <2>3 DEF If
  <2>9. Both(S!DeleteFilter(sql, id), Y!DeleteFilter(dyn, id), {}, H) /\ Keep
    BY <1>6, <2>1, <2>3, <2>5 DEF FilterDeletes
  <2>10. PartOK(t, f, g, (Apart(t) \ H) \cup {}, Handed(t))
    BY <1>1, <1>3, <2>7
  <2>11. QED
    BY <1>0, <1>2, <2>4, <2>6, <2>8, <2>9, <2>10, Calls1
<1>7. QED
  BY <1>4, <1>5, <1>6 DEF FilterCalls

\* What DynamoDB keeps of a time is less than a second behind it.
LEMMA SecondsIs ==
  ASSUME NEW time \in Nat
  PROVE  /\ Y!Seconds(time) \in Nat
         /\ Y!Seconds(time) <= time /\ time < Y!Seconds(time) + Res
<1>1. Res \in Nat /\ Res > 0
  BY ResAssumption
<1>2. time % Res \in 0..(Res - 1) /\ time % Res <= time
  BY <1>1
<1>3. QED
  BY <1>1, <1>2 DEF Y!Seconds

\* The bounds of the clock are numbers.
LEMMA Clock == MaxNow \in Nat /\ Cooldown \in Nat
BY BackendsAssumption

\* Replies and the log of them, and the clock.
LEMMA ReplyStep == ASSUME BackInv, ReplyCalls \/ Tick PROVE BackInv'
<1>0. /\ BackShape /\ TablesOK /\ Base(sql) /\ Base(dyn)
      /\ "replies" \in Table /\ "log" \in Table
      /\ sql["replies"] = dyn["replies"] /\ LogOK(sql["log"], dyn["log"])
      /\ now \in Nat
  BY Bases, Clock DEF BackInv, TablesOK, Table, PartOK, BackShape
<1>1. \A t : Within(t, {})
  BY DEF Within
<1>2. ASSUME NEW e \in Email, NEW n \in Name, Keep,
             Both(S!SetAutoReply(sql, e, n), Y!SetAutoReply(dyn, e, n), {}, {})
      PROVE  BackInv'
  <2>1. PICK f, row : row = [user |-> e, reply |-> n] /\ f = Added(sql["replies"], e, row)
    OBVIOUS
  <2>2. S!SetAutoReply(sql, e, n).db = Changed(sql, "replies", f)
    BY <1>0, <2>1, SqlPuts DEF S!SetAutoReply
  <2>3. Y!SetAutoReply(dyn, e, n).db = Changed(dyn, "replies", f)
    BY <1>0, <2>1, DynPuts DEF Y!SetAutoReply
  <2>4. PartOK("replies", f, f, (Apart("replies") \ {}) \cup {}, Handed("replies"))
    BY DEF PartOK
  <2>5. QED
    BY <1>0, <1>1, <1>2, <2>2, <2>3, <2>4, Calls1
<1>3. ASSUME NEW e \in Email, Keep,
             Both(S!DeleteAutoReply(sql, e), Y!DeleteAutoReply(dyn, e), {}, {})
      PROVE  BackInv'
  <2>1. PICK f : f = Cut(sql["replies"], {e})
    OBVIOUS
  <2>2. S!DeleteAutoReply(sql, e).db = Changed(sql, "replies", f)
    BY <1>0, <2>1, SqlDeletes DEF S!DeleteAutoReply
  <2>3. Y!DeleteAutoReply(dyn, e).db = Changed(dyn, "replies", f)
    BY <1>0, <2>1, DynDeletes DEF Y!DeleteAutoReply
  <2>4. PartOK("replies", f, f, (Apart("replies") \ {}) \cup {}, Handed("replies"))
    BY DEF PartOK
  <2>5. QED
    BY <1>0, <1>1, <1>3, <2>2, <2>3, <2>4, Calls1
<1>4. ASSUME NEW e \in Email, NEW sender \in Email, Keep,
             Both(S!RecordAutoReplySent(sql, e, sender, now),
                  Y!RecordAutoReplySent(dyn, e, sender, now), {}, {})
      PROVE  BackInv'
  <2>1. PICK k, x, y : /\ k = <<e, sender>>
                       /\ x = [sent |-> now] /\ y = [sent |-> Y!Seconds(now)]
    OBVIOUS
  <2>2. PICK f, g : f = Added(sql["log"], k, x) /\ g = Added(dyn["log"], k, y)
    OBVIOUS
  <2>3. S!RecordAutoReplySent(sql, e, sender, now).db = Changed(sql, "log", f)
    BY <1>0, <2>1, <2>2, SqlPuts DEF S!RecordAutoReplySent
  <2>4. Y!RecordAutoReplySent(dyn, e, sender, now).db = Changed(dyn, "log", g)
    BY <1>0, <2>1, <2>2, DynPuts DEF Y!RecordAutoReplySent
  <2>5. x.sent \in Nat /\ y.sent = Y!Seconds(x.sent)
    BY <1>0, <2>1
  <2>6. LogOK(f, g)
    BY <1>0, <2>2, <2>5 DEF LogOK, Added
  <2>7. PartOK("log", f, g, (Apart("log") \ {}) \cup {}, Handed("log"))
    BY <2>6 DEF PartOK
  <2>8. QED
    BY <1>0, <1>1, <1>4, <2>3, <2>4, <2>7, Calls1
<1>5. CASE ReplyCalls
  BY <1>2, <1>3, <1>4, <1>5 DEF ReplyCalls
<1>6. CASE Tick
  <2>1. UNCHANGED <<sql, dyn, spent, drift>> /\ now' = now + 1 /\ now < MaxNow
    BY <1>6 DEF Tick
  <2>2. BackShape'
    BY <1>0, <2>1, Clock DEF BackShape
  <2>3. \A t : Apart(t)' = Apart(t) /\ Handed(t)' = Handed(t)
    BY <2>1 DEF Apart, Handed
  <2>4. TablesOK'
    BY <1>0, <2>1, <2>3 DEF TablesOK
  <2>5. QED
    BY <2>2, <2>4 DEF BackInv
<1>7. QED
  BY <1>5, <1>6

-----------------------------------------------------------------------------
(* OAuth clients, codes and tokens.                                        *)

\* An id that is drawn was not handed out before.
LEMMA FreshIs ==
  ASSUME NEW t, NEW id, Fresh(t, id)
  PROVE  <<t, id>> \notin Handed(t)
BY DEF Fresh, Handed

\* Clients: on DynamoDB a client is found by its id and deleted under its domain.
LEMMA ClientStep == ASSUME BackInv, ClientCalls PROVE BackInv'
<1> DEFINE t == "clients"
           s == sql[t]
           d == dyn[t]
<1>0. /\ BackShape /\ TablesOK /\ Base(sql) /\ Base(dyn) /\ t \in Table
      /\ ClientsOK(s, d, Handed(t))
  BY Bases DEF BackInv, TablesOK, Table, PartOK
<1> HIDE DEF t
<1>1. Within(t, {})
  BY MissingIs
<1>2. ASSUME NEW c \in Client, Fresh(t, c.id),
             Both(S!CreateOAuthClient(sql, c), Y!CreateOAuthClient(dyn, c), {}, {})
      PROVE  BackInv'
  <2>1. PICK id, key, f, g : /\ id = c.id /\ key = <<c.domain, id>>
                             /\ f = Inserted(s, id, c) /\ g = Added(d, key, c)
    OBVIOUS
  <2>2. S!CreateOAuthClient(sql, c).db = Changed(sql, t, f)
    BY <1>0, <2>1, SqlPuts DEF S!CreateOAuthClient, t
  <2>3. Y!CreateOAuthClient(dyn, c).db = Changed(dyn, t, g)
    BY <1>0, <2>1, DynPuts DEF Y!CreateOAuthClient, t
  <2>4. Fresh(t, id) /\ <<t, id>> \notin Handed(t)
    BY <1>2, <2>1, FreshIs
  <2>5. PICK U : U = Handed(t) \cup {<<t, id>>}
    OBVIOUS
  <2> HIDE DEF s, d
  <2>6. id \notin DOMAIN s
    BY <1>0, <2>4 DEF ClientsOK, t
  <2>7. /\ DOMAIN f = DOMAIN s \cup {id} /\ f[id] = c
        /\ \A k \in DOMAIN s : f[k] = s[k]
        /\ DOMAIN g = DOMAIN d \cup {key} /\ g[key] = c
        /\ \A k \in DOMAIN d : k # key => g[k] = d[k]
    BY <2>1, <2>6 DEF Inserted, Added
  <2>8. ASSUME NEW k \in DOMAIN f
        PROVE  /\ f[k] \in Client /\ f[k].id = k /\ <<t, k>> \in U
               /\ <<f[k].domain, k>> \in DOMAIN g
    BY <1>0, <2>1, <2>5, <2>7 DEF ClientsOK, t
  <2>9. ASSUME NEW k \in DOMAIN g
        PROVE  k = <<g[k].domain, g[k].id>> /\ g[k].id \in DOMAIN f /\ g[k] = f[g[k].id]
    <3>1. CASE k = key
      BY <2>1, <2>7, <3>1
    <3>2. CASE k # key
      BY <1>0, <2>7, <2>9, <3>2 DEF ClientsOK
    <3>3. QED
      BY <3>1, <3>2
  <2>10. PartOK(t, f, g, (Apart(t) \ {}) \cup {}, U)
    BY <2>8, <2>9 DEF ClientsOK, PartOK, t
  <2>11. QED
    BY <1>0, <1>1, <1>2, <2>2, <2>3, <2>4, <2>5, <2>10, CallsFresh
<1>3. ASSUME NEW c \in Client, Keep,
             Both(S!DeleteOAuthClient(sql, c.id), Y!DeleteOAuthClient(dyn, c.id), {}, {})
      PROVE  BackInv'
  <2>1. PICK id, f : id = c.id /\ f = Cut(s, {id})
    OBVIOUS
  <2>2. S!DeleteOAuthClient(sql, id).db = Changed(sql, t, f)
    BY <1>0, <2>1, SqlDeletes DEF S!DeleteOAuthClient, t
  <2>3. Y!ClientKeys(dyn, id) = {k \in DOMAIN d : k[2] = id}
    BY DEF Y!ClientKeys, t
  <2> HIDE DEF s, d
  <2>4. \A k \in DOMAIN d : k[2] = id <=> d[k].id = id
    BY <1>0 DEF ClientsOK
  <2>5. \A k, l \in DOMAIN d : d[k].id = d[l].id => k = l
    BY <1>0 DEF ClientsOK
  <2>6. PICK g : /\ Y!DeleteOAuthClient(dyn, id).db = Changed(dyn, t, g)
                 /\ DOMAIN g = {k \in DOMAIN d : d[k].id # id}
                 /\ \A k \in DOMAIN g : g[k] = d[k]
    <3>1. CASE Y!ClientKeys(dyn, id) = {}
      <4>1. Y!DeleteOAuthClient(dyn, id).db = Changed(dyn, t, d)
        BY <1>0, <3>1, SameTable DEF Y!DeleteOAuthClient, Y!Refused, d
      <4>2. DOMAIN d = {k \in DOMAIN d : d[k].id # id}
        BY <2>3, <2>4, <3>1
      <4>3. QED
        BY <4>1, <4>2
    <3>2. CASE Y!ClientKeys(dyn, id) # {}
      <4>1. PICK key : key = CHOOSE k \in Y!ClientKeys(dyn, id) : TRUE
        OBVIOUS
      <4>2. key \in Y!ClientKeys(dyn, id)
        BY <3>2, <4>1
      <4>3. Y!DeleteOAuthClient(dyn, id) = Y!DeleteItem(dyn, t, key)
        BY <3>2, <4>1 DEF Y!DeleteOAuthClient, t
      <4>4. PICK h : h = Cut(d, {key})
        OBVIOUS
      <4>5. Y!DeleteOAuthClient(dyn, id).db = Changed(dyn, t, h)
        BY <1>0, <4>3, <4>4, DynDeletes DEF d
      <4>6. key \in DOMAIN d /\ d[key].id = id
        BY <2>3, <2>4, <4>2
      <4>7. DOMAIN h = DOMAIN d \ {key} /\ \A k \in DOMAIN h : h[k] = d[k]
        BY <4>4 DEF Cut
      <4>8. DOMAIN h = {k \in DOMAIN d : d[k].id # id}
        BY <2>5, <4>6, <4>7
      <4>9. QED
        BY <4>5, <4>7, <4>8
    <3>3. QED
      BY <3>1, <3>2
  <2>7. DOMAIN f = DOMAIN s \ {id} /\ \A k \in DOMAIN f : f[k] = s[k]
    BY <2>1 DEF Cut
  <2>8. ASSUME NEW k \in DOMAIN f
        PROVE  /\ f[k] \in Client /\ f[k].id = k /\ <<t, k>> \in Handed(t)
               /\ <<f[k].domain, k>> \in DOMAIN g
    <3>1. PICK key : key = <<s[k].domain, k>> /\ key \in DOMAIN d
      BY <1>0, <2>7 DEF ClientsOK
    <3>2. d[key].id = k
      BY <1>0, <3>1 DEF ClientsOK
    <3>3. key \in DOMAIN g
      BY <2>6, <2>7, <3>1, <3>2
    <3>4. QED
      BY <1>0, <2>7, <3>1, <3>3 DEF ClientsOK, t
  <2>9. ASSUME NEW k \in DOMAIN g
        PROVE  k = <<g[k].domain, g[k].id>> /\ g[k].id \in DOMAIN f /\ g[k] = f[g[k].id]
    BY <1>0, <2>6, <2>7 DEF ClientsOK
  <2>10. PartOK(t, f, g, (Apart(t) \ {}) \cup {}, Handed(t))
    BY <2>8, <2>9 DEF ClientsOK, PartOK, t
  <2>11. QED
    BY <1>0, <1>1, <1>3, <2>1, <2>2, <2>6, <2>10, Calls1
<1>4. QED
  BY <1>2, <1>3 DEF ClientCalls, t

\* A code or a token as DynamoDB returns it.
ToSeconds(x) == [x EXCEPT !.until = Y!Seconds(@)]

\* The time of a code to the second.
LEMMA CodeToSeconds ==
  ASSUME NEW c, NEW u, NEW used
  PROVE  ToSeconds([client |-> c, until |-> u, used |-> used])
         = [client |-> c, until |-> Y!Seconds(u), used |-> used]
<1>1. PICK v : v = Y!Seconds(u)
  OBVIOUS
<1>2. PICK x : x = [client |-> c, until |-> u, used |-> used]
  OBVIOUS
<1>3. x.until = u
  BY <1>2
<1>4. ToSeconds(x) = [x EXCEPT !.until = v]
  BY <1>1, <1>3 DEF ToSeconds
<1>5. [x EXCEPT !.until = v] = [client |-> c, until |-> v, used |-> used]
  BY <1>2
<1>6. QED
  BY <1>1, <1>2, <1>4, <1>5

\* Codes: drawn with Fresh, and marked without looking whether they are there.
LEMMA CodeStep == ASSUME BackInv, CodeCalls PROVE BackInv'
<1> DEFINE t == "codes"
           s == sql[t]
           d == dyn[t]
<1>0. /\ BackShape /\ TablesOK /\ Base(sql) /\ Base(dyn) /\ t \in Table
      /\ CodesOK(s, d, Apart(t), Handed(t))
      /\ now \in Nat /\ Res \in Nat
  BY Bases, Clock, ResAssumption DEF BackInv, TablesOK, Table, PartOK, BackShape
<1>1. /\ \A k \in DOMAIN s : s[k] \in CodeRow /\ <<t, k>> \in Handed(t)
      /\ \A k \in DOMAIN d : DOMAIN d[k] \subseteq {"client", "until", "used"}
      /\ \A k : <<t, k>> \notin Apart(t) => /\ k \in DOMAIN s <=> k \in DOMAIN d
                                            /\ k \in DOMAIN s => d[k] = ToSeconds(s[k])
  BY <1>0 DEF CodesOK, ToSeconds
<1> HIDE DEF t
<1>2. Within(t, {}) /\ \A k : Within(t, Missing(t, k))
  BY MissingIs
<1>3. ASSUME NEW k, NEW f, NEW g, NEW E, NEW U, Only(f, s, k), Only(g, d, k),
             Handed(t) \subseteq U, \A l : <<t, l>> \in Apart(t) => <<t, l>> \in E,
             k \in DOMAIN f => f[k] \in CodeRow /\ <<t, k>> \in U,
             k \in DOMAIN g => DOMAIN g[k] \subseteq {"client", "until", "used"},
             <<t, k>> \notin E => /\ k \in DOMAIN f <=> k \in DOMAIN g
                                  /\ k \in DOMAIN f => g[k] = ToSeconds(f[k])
      PROVE  PartOK(t, f, g, E, U)
  <2> HIDE DEF s, d
  <2>1. \A l \in DOMAIN f : f[l] \in CodeRow /\ <<t, l>> \in U
    BY <1>1, <1>3 DEF Only
  <2>2. \A l \in DOMAIN g : DOMAIN g[l] \subseteq {"client", "until", "used"}
    BY <1>1, <1>3 DEF Only
  <2>3. \A l : <<t, l>> \notin E => /\ l \in DOMAIN f <=> l \in DOMAIN g
                                    /\ l \in DOMAIN f => g[l] = ToSeconds(f[l])
    BY <1>1, <1>3 DEF Only
  <2>4. QED
    BY <2>1, <2>2, <2>3 DEF CodesOK, PartOK, ToSeconds, t
<1>4. ASSUME NEW k \in Code, NEW c \in Client, Fresh(t, k),
             Both(S!CreateOAuthCode(sql, k, c.client, now + Res),
                  Y!CreateOAuthCode(dyn, k, c.client, now + Res), {}, {})
      PROVE  BackInv'
  <2>1. PICK until \in Nat : until = now + Res
    BY <1>0
  <2>2. PICK x, y : /\ x = [client |-> c.client, until |-> until, used |-> FALSE]
                    /\ y = [client |-> c.client, until |-> Y!Seconds(until), used |-> FALSE]
    OBVIOUS
  <2>3. PICK f, g : f = Inserted(s, k, x) /\ g = Added(d, k, y)
    OBVIOUS
  <2>4. S!CreateOAuthCode(sql, k, c.client, until).db = Changed(sql, t, f)
    BY <1>0, <2>2, <2>3, SqlPuts DEF S!CreateOAuthCode, t
  <2>5. Y!CreateOAuthCode(dyn, k, c.client, until).db = Changed(dyn, t, g)
    BY <1>0, <2>2, <2>3, DynPuts DEF Y!CreateOAuthCode, t
  <2>6. x \in CodeRow /\ y = ToSeconds(x) /\ DOMAIN y = {"client", "until", "used"}
    <3>1. c.client \in Programs
      BY DEF Programs
    <3>2. x \in CodeRow
      BY <2>2, <3>1 DEF CodeRow
    <3>3. y = ToSeconds(x)
      BY <2>2, CodeToSeconds, Zenon
    <3>4. QED
      BY <2>2, <3>2, <3>3
  <2>7. PICK U, E : U = Handed(t) \cup {<<t, k>>} /\ E = (Apart(t) \ {}) \cup {}
    OBVIOUS
  <2> HIDE DEF s, d
  <2>8. k \notin DOMAIN s
    BY <1>1, <1>4, FreshIs
  <2>9. /\ Only(f, s, k) /\ Only(g, d, k)
        /\ f[k] = x /\ g[k] = y /\ k \in DOMAIN f /\ k \in DOMAIN g
    BY <2>3, <2>8 DEF Only, Inserted, Added
  <2>10. PartOK(t, f, g, E, U)
    BY <1>3, <2>6, <2>7, <2>9
  <2>11. QED
    BY <1>0, <1>2, <1>4, <2>1, <2>4, <2>5, <2>7, <2>10, CallsFresh
<1>5. ASSUME NEW k \in Code, Keep,
             Both(S!MarkOAuthCodeUsed(sql, k), Y!MarkOAuthCodeUsed(dyn, k), Missing(t, k), {})
      PROVE  BackInv'
  <2>1. PICK set : set = [used |-> TRUE]
    OBVIOUS
  <2>2. PICK x, y : x = S!Over(set, s[k]) /\ y = Y!Over(set, Y!Row(dyn, t, k))
    OBVIOUS
  <2>3. PICK f, g : /\ f = IF k \in DOMAIN s THEN Added(s, k, x) ELSE s
                    /\ g = Added(d, k, y)
    OBVIOUS
  <2>4. S!MarkOAuthCodeUsed(sql, k).db = Changed(sql, t, f)
    BY <1>0, <2>1, <2>2, <2>3, SqlPuts DEF S!MarkOAuthCodeUsed, t
  <2>5. Y!MarkOAuthCodeUsed(dyn, k).db = Changed(dyn, t, g)
    BY <1>0, <2>1, <2>2, <2>3, DynPuts DEF Y!MarkOAuthCodeUsed, t
  <2>6. Y!Row(dyn, t, k) = IF k \in DOMAIN d THEN d[k] ELSE <<>>
    BY DEF Y!Row
  <2>7. DOMAIN set = {"used"} /\ set["used"] = TRUE
    BY <2>1
  <2> HIDE DEF s, d
  <2>8. k \in DOMAIN s => /\ x \in CodeRow
                          /\ x = [client |-> s[k].client, until |-> s[k].until, used |-> TRUE]
    <3>1. SUFFICES ASSUME NEW old \in CodeRow, x = S!Over(set, old)
                   PROVE  /\ x \in CodeRow
                          /\ x = [client |-> old.client, until |-> old.until, used |-> TRUE]
      BY <1>1, <2>2
    <3>2. DOMAIN old = {"client", "until", "used"} /\ old.client \in Programs /\ old.until \in Nat
      BY DEF CodeRow
    <3>3. x = [at \in {"client", "until", "used"} |-> IF at = "used" THEN TRUE ELSE old[at]]
      BY <2>7, <3>1, <3>2 DEF S!Over
    <3>4. x = [client |-> old.client, until |-> old.until, used |-> TRUE]
      BY <3>3
    <3>5. QED
      BY <3>2, <3>4 DEF CodeRow
  <2>9. DOMAIN y \subseteq {"client", "until", "used"}
    <3>1. DOMAIN Y!Row(dyn, t, k) \subseteq {"client", "until", "used"}
      <4>1. CASE k \in DOMAIN d
        BY <1>1, <2>6, <4>1
      <4>2. CASE k \notin DOMAIN d
        <5>1. Y!Row(dyn, t, k) = <<>>
          BY <2>6, <4>2
        <5>2. QED
          BY <5>1
      <4>3. QED
        BY <4>1, <4>2
    <3>2. PICK old : old = Y!Row(dyn, t, k)
      OBVIOUS
    <3>3. QED
      BY <2>2, <2>7, <3>1, <3>2 DEF Y!Over
  <2>10. ASSUME k \in DOMAIN s, <<t, k>> \notin Apart(t)
         PROVE  y = ToSeconds(x)
    <3>1. PICK old \in CodeRow : old = s[k]
      BY <1>1, <2>10
    <3>2. PICK was : was = Y!Row(dyn, t, k)
      OBVIOUS
    <3>3. was = ToSeconds(old)
      BY <1>1, <2>6, <2>10, <3>1, <3>2
    <3>4. /\ DOMAIN was = {"client", "until", "used"}
          /\ was["client"] = old.client /\ was["until"] = Y!Seconds(old.until)
      BY <3>3 DEF ToSeconds, CodeRow
    <3>5. y = [at \in {"client", "until", "used"} |-> IF at = "used" THEN TRUE ELSE was[at]]
      BY <2>2, <2>7, <3>2, <3>4 DEF Y!Over
    <3>6. y = [client |-> old.client, until |-> Y!Seconds(old.until), used |-> TRUE]
      BY <3>4, <3>5
    <3>7. x = [client |-> old.client, until |-> old.until, used |-> TRUE]
      BY <2>8, <2>10, <3>1
    <3>8. QED
      BY <3>6, <3>7, CodeToSeconds, Zenon
  <2>11. /\ Only(f, s, k) /\ Only(g, d, k)
         /\ k \in DOMAIN f <=> k \in DOMAIN s
         /\ k \in DOMAIN s => f[k] = x
         /\ k \in DOMAIN g /\ g[k] = y
    BY <2>3 DEF Only, Added
  <2>12. PICK E : E = (Apart(t) \ {}) \cup Missing(t, k)
    OBVIOUS
  <2>13. <<t, k>> \notin E => k \in DOMAIN s /\ <<t, k>> \notin Apart(t)
    BY <2>12, MissingIs DEF s
  <2>14. PartOK(t, f, g, E, Handed(t))
    <3>1. k \in DOMAIN f => f[k] \in CodeRow /\ <<t, k>> \in Handed(t)
      BY <1>1, <2>8, <2>11
    <3>2. <<t, k>> \notin E => /\ k \in DOMAIN f <=> k \in DOMAIN g
                               /\ k \in DOMAIN f => g[k] = ToSeconds(f[k])
      BY <2>10, <2>11, <2>13
    <3>3. k \in DOMAIN g => DOMAIN g[k] \subseteq {"client", "until", "used"}
      BY <2>9, <2>11
    <3>4. \A l : <<t, l>> \in Apart(t) => <<t, l>> \in E
      BY <2>12
    <3>5. QED
      BY <1>3, <2>11, <3>1, <3>2, <3>3, <3>4
  <2>15. QED
    BY <1>0, <1>2, <1>5, <2>4, <2>5, <2>12, <2>14, Calls1
<1>6. QED
  BY <1>4, <1>5 DEF CodeCalls, t

\* Tokens: drawn with Fresh, and deleted.
LEMMA TokenStep == ASSUME BackInv, TokenCalls PROVE BackInv'
<1> DEFINE t == "tokens"
           s == sql[t]
           d == dyn[t]
<1>0. /\ BackShape /\ TablesOK /\ Base(sql) /\ Base(dyn) /\ t \in Table
      /\ TokensOK(s, d, Handed(t))
      /\ now \in Nat /\ Res \in Nat
  BY Bases, Clock, ResAssumption DEF BackInv, TablesOK, Table, PartOK, BackShape
<1> HIDE DEF t
<1>1. Within(t, {})
  BY MissingIs
<1>2. ASSUME NEW k \in Token, NEW c \in Client, Fresh(t, k),
             Both(S!CreateOAuthToken(sql, k, c.client, now + Res),
                  Y!CreateOAuthToken(dyn, k, c.client, now + Res), {}, {})
      PROVE  BackInv'
  <2>1. PICK until \in Nat : until = now + Res
    BY <1>0
  <2>2. PICK x, y : /\ x = [client |-> c.client, until |-> until]
                    /\ y = [client |-> c.client, until |-> Y!Seconds(until)]
    OBVIOUS
  <2>3. PICK f, g : f = Inserted(s, k, x) /\ g = Added(d, k, y)
    OBVIOUS
  <2>4. S!CreateOAuthToken(sql, k, c.client, until).db = Changed(sql, t, f)
    BY <1>0, <2>2, <2>3, SqlPuts DEF S!CreateOAuthToken, t
  <2>5. Y!CreateOAuthToken(dyn, k, c.client, until).db = Changed(dyn, t, g)
    BY <1>0, <2>2, <2>3, DynPuts DEF Y!CreateOAuthToken, t
  <2>6. x \in TokenRow /\ y = ToSeconds(x)
    BY <2>2 DEF TokenRow, ToSeconds, Programs
  <2>7. PICK U : U = Handed(t) \cup {<<t, k>>}
    OBVIOUS
  <2> HIDE DEF s, d
  <2>8. k \notin DOMAIN s
    BY <1>0, <1>2, FreshIs DEF TokensOK, t
  <2>9. /\ DOMAIN f = DOMAIN g
        /\ \A l \in DOMAIN f : f[l] \in TokenRow /\ <<t, l>> \in U /\ g[l] = ToSeconds(f[l])
    BY <1>0, <2>3, <2>6, <2>7, <2>8 DEF TokensOK, Inserted, Added, ToSeconds, t
  <2>10. PartOK(t, f, g, (Apart(t) \ {}) \cup {}, U)
    BY <2>9 DEF PartOK, TokensOK, ToSeconds, t
  <2>11. QED
    BY <1>0, <1>1, <1>2, <2>1, <2>4, <2>5, <2>7, <2>10, CallsFresh
<1>3. ASSUME NEW k \in Token, Keep,
             Both(S!DeleteOAuthToken(sql, k), Y!DeleteOAuthToken(dyn, k), {}, {})
      PROVE  BackInv'
  <2>1. PICK f, g : f = Cut(s, {k}) /\ g = Cut(d, {k})
    OBVIOUS
  <2>2. S!DeleteOAuthToken(sql, k).db = Changed(sql, t, f)
    BY <1>0, <2>1, SqlDeletes DEF S!DeleteOAuthToken, t
  <2>3. Y!DeleteOAuthToken(dyn, k).db = Changed(dyn, t, g)
    BY <1>0, <2>1, DynDeletes DEF Y!DeleteOAuthToken, t
  <2> HIDE DEF s, d
  <2>4. TokensOK(f, g, Handed(t))
    BY <1>0, <2>1 DEF TokensOK, Cut
  <2>5. PartOK(t, f, g, (Apart(t) \ {}) \cup {}, Handed(t))
    BY <2>4 DEF PartOK, t
  <2>6. QED
    BY <1>0, <1>1, <1>3, <2>2, <2>3, <2>5, Calls1
<1>4. QED
  BY <1>2, <1>3 DEF TokenCalls, t

-----------------------------------------------------------------------------
(* Messages.                                                               *)

\* A whole message is told from what a mark leaves by its attributes.
LEMMA WholeIsNoGhost ==
  ASSUME NEW k, NEW x, Whole(k, x)
  PROVE  /\ ~Ghost(x) /\ x # NotFound
         /\ DOMAIN x = {"id", "owner", "folder", "seen", "received", "text", "deleted"}
         /\ x.id = k[3] /\ x.owner = k[1] /\ x.received \in Nat
<1>1. x \in MessageRow /\ k[1] = x.owner /\ k[3] = x.id
  BY DEF Whole
<1>2. DOMAIN x = {"id", "owner", "folder", "seen", "received", "text", "deleted"} /\ x.received \in Nat
  BY <1>1 DEF MessageRow
<1>3. x # NotFound
  BY <1>1, BackendsAssumption
<1>4. ~Ghost(x)
  BY <1>2 DEF Ghost
<1>5. QED
  BY <1>1, <1>2, <1>3, <1>4

\* What is left when the rows K and some of the items are removed.
LEMMA MailCut ==
  ASSUME NEW s, NEW d, NEW D, NEW U, MailOK(s, d, D, U), NEW K, NEW E,
         NEW f, f = Cut(s, K), NEW g, DOMAIN g \subseteq DOMAIN d,
         \A k \in DOMAIN g : g[k] = d[k],
         \A l \in DOMAIN d \ DOMAIN g : l[3] \notin DOMAIN s \ K,
         \A l \in DOMAIN g : \/ <<"messages", l[3]>> \in E
                             \/ <<"messages", l[3]>> \notin D /\ l[3] \notin K
  PROVE  MailOK(f, g, E, U)
<1>1. /\ DOMAIN f = DOMAIN s \ K /\ \A id \in DOMAIN f : f[id] = s[id]
      /\ DOMAIN g \subseteq DOMAIN d /\ \A k \in DOMAIN g : g[k] = d[k]
  BY DEF Cut
<1>2. IsFiniteSet(DOMAIN f)
  BY <1>1, FS_Subset DEF MailOK
<1>3. \A id \in DOMAIN f : f[id] \in MessageRow /\ f[id].id = id /\ <<"messages", id>> \in U
  <2>1. SUFFICES ASSUME NEW id \in DOMAIN f
                 PROVE  f[id] \in MessageRow /\ f[id].id = id /\ <<"messages", id>> \in U
    OBVIOUS
  <2>2. s[id] \in MessageRow /\ s[id].id = id /\ <<"messages", id>> \in U
    BY <1>1 DEF MailOK
  <2>3. QED
    BY <1>1, <2>2
<1>4. \A k \in DOMAIN g : /\ k \in Email \X Nat \X Ids /\ <<"messages", k[3]>> \in U
                          /\ Whole(k, g[k]) \/ Ghost(g[k])
  BY <1>1 DEF MailOK
<1>5. \A k, l \in DOMAIN g : k[3] = l[3] =>
        k[1] = l[1] /\ (Whole(k, g[k]) /\ Whole(l, g[l]) => k = l)
  BY <1>1 DEF MailOK
<1>6. \A k \in DOMAIN g : k[3] \in DOMAIN f => k[1] = f[k[3]].owner
  BY <1>1 DEF MailOK
<1>7. ASSUME NEW id \in DOMAIN f
      PROVE  \E k \in DOMAIN g : /\ Whole(k, g[k]) /\ k[3] = id
                                 /\ g[k].deleted => f[id].deleted
  <2>1. PICK k \in DOMAIN d : /\ Whole(k, d[k]) /\ k[3] = id
                              /\ d[k].deleted => s[id].deleted
    BY <1>1 DEF MailOK
  <2>2. k \in DOMAIN g
    BY <1>1, <2>1
  <2>3. QED
    BY <1>1, <2>1, <2>2
<1>8. \A k \in DOMAIN g : <<"messages", k[3]>> \notin E =>
        k[3] \in DOMAIN f /\ g[k] = Coarse(f[k[3]])
  <2>1. SUFFICES ASSUME NEW k \in DOMAIN g, <<"messages", k[3]>> \notin E
                 PROVE  k[3] \in DOMAIN f /\ g[k] = Coarse(f[k[3]])
    OBVIOUS
  <2>2. k \in DOMAIN d /\ <<"messages", k[3]>> \notin D /\ k[3] \notin K
    BY <1>1, <2>1
  <2>3. k[3] \in DOMAIN s /\ d[k] = Coarse(s[k[3]])
    BY <2>2 DEF MailOK
  <2>4. QED
    BY <1>1, <2>2, <2>3
<1>9. QED
  BY <1>2, <1>3, <1>4, <1>5, <1>6, <1>7, <1>8 DEF MailOK

\* What is there when one item is written, and perhaps the row of its id.
LEMMA MailPut ==
  ASSUME NEW s, NEW d, NEW D, NEW U, MailOK(s, d, D, U),
         NEW id, NEW key \in Email \X Nat \X Ids, key[3] = id,
         NEW V, U \subseteq V, <<"messages", id>> \in V, NEW E, D \subseteq E,
         NEW f, Only(f, s, id), IsFiniteSet(DOMAIN f),
         id \in DOMAIN f => f[id] \in MessageRow /\ f[id].id = id /\ key[1] = f[id].owner,
         NEW y, NEW g, g = Added(d, key, y), Whole(key, y) \/ Ghost(y),
         \A l \in DOMAIN d : l[3] = id =>
           l[1] = key[1] /\ (Whole(key, y) /\ Whole(l, d[l]) => l = key),
         id \in DOMAIN f => \E k \in DOMAIN g : /\ Whole(k, g[k]) /\ k[3] = id
                                                /\ g[k].deleted => f[id].deleted,
         <<"messages", id>> \notin E =>
           id \in DOMAIN f /\ \A k \in DOMAIN g : k[3] = id => g[k] = Coarse(f[id])
  PROVE  MailOK(f, g, E, V)
<1>1. /\ DOMAIN g = DOMAIN d \cup {key} /\ g[key] = y
      /\ \A k \in DOMAIN d : k # key => g[k] = d[k]
  BY DEF Added
<1>2. \A i : i # id => (i \in DOMAIN f <=> i \in DOMAIN s) /\ (i \in DOMAIN s => f[i] = s[i])
  BY DEF Only
<1>3. \A i \in DOMAIN f : f[i] \in MessageRow /\ f[i].id = i /\ <<"messages", i>> \in V
  <2>1. SUFFICES ASSUME NEW i \in DOMAIN f, i # id
                 PROVE  f[i] \in MessageRow /\ f[i].id = i /\ <<"messages", i>> \in V
    OBVIOUS
  <2>2. s[i] \in MessageRow /\ s[i].id = i /\ <<"messages", i>> \in U /\ f[i] = s[i]
    BY <1>2, <2>1 DEF MailOK
  <2>3. QED
    BY <2>2
<1>4. \A k \in DOMAIN g : /\ k \in Email \X Nat \X Ids /\ <<"messages", k[3]>> \in V
                          /\ Whole(k, g[k]) \/ Ghost(g[k])
  <2>1. SUFFICES ASSUME NEW k \in DOMAIN d, k # key
                 PROVE  /\ k \in Email \X Nat \X Ids /\ <<"messages", k[3]>> \in V
                        /\ Whole(k, g[k]) \/ Ghost(g[k])
    BY <1>1
  <2>2. /\ k \in Email \X Nat \X Ids /\ <<"messages", k[3]>> \in U
        /\ Whole(k, d[k]) \/ Ghost(d[k])
    BY DEF MailOK
  <2>3. QED
    BY <1>1, <2>1, <2>2
<1>5. ASSUME NEW k \in DOMAIN g, NEW l \in DOMAIN g, k[3] = l[3]
      PROVE  k[1] = l[1] /\ (Whole(k, g[k]) /\ Whole(l, g[l]) => k = l)
  <2>1. CASE k # key /\ l # key
    BY <1>1, <1>5, <2>1 DEF MailOK
  <2>2. CASE k = key \/ l = key
    BY <1>1, <1>5, <2>2
  <2>3. QED
    BY <2>1, <2>2
<1>6. ASSUME NEW k \in DOMAIN g, k[3] \in DOMAIN f
      PROVE  k[1] = f[k[3]].owner
  <2>1. CASE k[3] = id
    BY <1>1, <1>6, <2>1
  <2>2. CASE k[3] # id
    <3>1. k \in DOMAIN d /\ k[3] \in DOMAIN s /\ f[k[3]] = s[k[3]]
      BY <1>1, <1>2, <1>6, <2>2
    <3>2. QED
      BY <3>1 DEF MailOK
  <2>3. QED
    BY <2>1, <2>2
<1>7. ASSUME NEW i \in DOMAIN f
      PROVE  \E k \in DOMAIN g : /\ Whole(k, g[k]) /\ k[3] = i
                                 /\ g[k].deleted => f[i].deleted
  <2>1. CASE i = id
    BY <2>1
  <2>2. CASE i # id
    <3>1. PICK k \in DOMAIN d : /\ Whole(k, d[k]) /\ k[3] = i
                                /\ d[k].deleted => s[i].deleted
      BY <1>2, <2>2 DEF MailOK
    <3>2. k \in DOMAIN g /\ g[k] = d[k] /\ f[i] = s[i]
      BY <1>1, <1>2, <2>2, <3>1
    <3>3. QED
      BY <3>1, <3>2
  <2>3. QED
    BY <2>1, <2>2
<1>8. ASSUME NEW k \in DOMAIN g, <<"messages", k[3]>> \notin E
      PROVE  k[3] \in DOMAIN f /\ g[k] = Coarse(f[k[3]])
  <2>1. CASE k[3] = id
    BY <1>8, <2>1
  <2>2. CASE k[3] # id
    <3>1. k \in DOMAIN d /\ g[k] = d[k] /\ <<"messages", k[3]>> \notin D
      BY <1>1, <1>8, <2>2
    <3>2. k[3] \in DOMAIN s /\ d[k] = Coarse(s[k[3]])
      BY <3>1 DEF MailOK
    <3>3. QED
      BY <1>2, <2>2, <3>1, <3>2
  <2>3. QED
    BY <2>1, <2>2
<1>9. QED
  BY <1>3, <1>4, <1>5, <1>6, <1>7, <1>8 DEF MailOK

\* A read by id finds the whole message of that id, if there is one.
WholeOf(d, id) == {k \in DOMAIN d : Whole(k, d[k]) /\ k[3] = id}

\* The items of an id are the whole messages of that id.
LEMMA ByIdIs ==
  ASSUME NEW s, NEW db, NEW D, NEW U, MailOK(s, db["messages"], D, U), NEW id \in Ids
  PROVE  /\ \A k \in WholeOf(db["messages"], id) : db["messages"][k] \in Y!ById(db, id)
         /\ \A x \in Y!ById(db, id) : \E k \in WholeOf(db["messages"], id) : x = db["messages"][k]
<1>1. PICK d : d = db["messages"] /\ MailOK(s, d, D, U)
  OBVIOUS
<1>2. Y!ById(db, id) = {d[k] : k \in {l \in DOMAIN d : Y!Attr(d[l], "id", "") = id}}
  BY <1>1 DEF Y!ById, Y!Rows
<1>3. ASSUME NEW k \in DOMAIN d
      PROVE  Y!Attr(d[k], "id", "") = id <=> Whole(k, d[k]) /\ k[3] = id
  <2>1. Whole(k, d[k]) \/ Ghost(d[k])
    BY <1>1 DEF MailOK
  <2>2. CASE Whole(k, d[k])
    BY <2>2, WholeIsNoGhost DEF Y!Attr
  <2>3. CASE Ghost(d[k]) /\ ~Whole(k, d[k])
    <3>1. Y!Attr(d[k], "id", "") = ""
      BY <2>3 DEF Ghost, Y!Attr
    <3>2. id # ""
      BY BackendsAssumption
    <3>3. QED
      BY <2>3, <3>1, <3>2
  <2>4. QED
    BY <2>1, <2>2, <2>3
<1>4. {l \in DOMAIN d : Y!Attr(d[l], "id", "") = id} = WholeOf(d, id)
  BY <1>3 DEF WholeOf
<1>5. QED
  BY <1>1, <1>2, <1>4

\* The choice among them is none: GetMessage returns the one there is.
LEMMA GetIs ==
  ASSUME NEW s, NEW db, NEW D, NEW U, MailOK(s, db["messages"], D, U), NEW id \in Ids
  PROVE  \/ Y!GetMessage(db, id) = NotFound /\ WholeOf(db["messages"], id) = {}
         \/ \E k \in WholeOf(db["messages"], id) : Y!GetMessage(db, id) = db["messages"][k]
<1>1. PICK B : B = Y!ById(db, id)
  OBVIOUS
<1>2. /\ \A k \in WholeOf(db["messages"], id) : db["messages"][k] \in B
      /\ \A x \in B : \E k \in WholeOf(db["messages"], id) : x = db["messages"][k]
  BY <1>1, ByIdIs
<1>3. Y!GetMessage(db, id) = IF B = {} THEN NotFound ELSE CHOOSE m \in B : TRUE
  BY <1>1 DEF Y!GetMessage
<1>4. CASE B = {}
  BY <1>2, <1>3, <1>4
<1>5. CASE B # {}
  <2>1. Y!GetMessage(db, id) \in B
    BY <1>3, <1>5
  <2>2. QED
    BY <1>2, <2>1
<1>6. QED
  BY <1>4, <1>5

\* The key a message is looked for under once it was read back: its own, when
\* it came on the full second, and one under which no whole message is.
LEMMA KeyIs ==
  ASSUME NEW s, NEW d, NEW D, NEW U, MailOK(s, d, D, U), NEW id,
         NEW k \in DOMAIN d, Whole(k, d[k]), k[3] = id, NEW key, key = Y!KeyOf(d[k])
  PROVE  /\ key \in Email \X Nat \X Ids /\ key[1] = k[1] /\ key[3] = id
         /\ key # k => (key \in DOMAIN d => Ghost(d[key]))
<1>1. k \in Email \X Nat \X Ids
  BY DEF MailOK
<1>2. key = <<d[k].owner, d[k].received, d[k].id>>
  BY DEF Y!KeyOf
<1>3. key = <<k[1], d[k].received, k[3]>> /\ d[k].received \in Nat
  BY <1>2, WholeIsNoGhost
<1>4. key \in Email \X Nat \X Ids /\ key[1] = k[1] /\ key[3] = id
  BY <1>1, <1>3
<1>5. ASSUME key # k, key \in DOMAIN d
      PROVE  Ghost(d[key])
  <2>1. Whole(key, d[key]) \/ Ghost(d[key])
    BY <1>5 DEF MailOK
  <2>2. \A l \in DOMAIN d : k[3] = l[3] /\ Whole(l, d[l]) => k = l
    BY DEF MailOK
  <2>3. QED
    BY <1>4, <1>5, <2>1, <2>2
<1>6. QED
  BY <1>4, <1>5

\* The history names a message whose own key is not the one it is looked for under.
LEMMA OffIs ==
  ASSUME NEW s, NEW D, NEW U, MailOK(s, dyn["messages"], D, U), NEW id \in Ids
  PROVE  /\ Within("messages", OffSecond(id))
         /\ \A k \in WholeOf(dyn["messages"], id) : k # Y!KeyOf(dyn["messages"][k]) =>
              <<"messages", id>> \in OffSecond(id)
<1>1. Within("messages", OffSecond(id))
  BY DEF OffSecond, If, Within
<1>2. ASSUME NEW k \in WholeOf(dyn["messages"], id), k # Y!KeyOf(dyn["messages"][k])
      PROVE  <<"messages", id>> \in OffSecond(id)
  <2>1. PICK m : m = dyn["messages"][k]
    OBVIOUS
  <2>2. m \in Y!ById(dyn, id)
    BY <1>2, <2>1, ByIdIs
  <2>3. k \in DOMAIN dyn["messages"]
    BY DEF WholeOf
  <2>4. QED
    BY <1>2, <2>1, <2>2, <2>3 DEF OffSecond, If
<1>3. QED
  BY <1>1, <1>2

\* The two marks.  Setting one on a whole message leaves it whole, on what is
\* not there it leaves nothing but marks.
Marks == {[seen |-> TRUE], [deleted |-> TRUE]}
Marked(new, x) == /\ new \in MessageRow /\ new.id = x.id /\ new.owner = x.owner
                  /\ new.received = x.received

\* A mark on a whole row changes the attribute of that mark.
LEMMA MarkRow ==
  ASSUME NEW mark \in Marks, NEW x \in MessageRow, NEW new, new = Y!Over(mark, x)
  PROVE  /\ Marked(new, x)
         /\ \/ /\ DOMAIN mark = {"seen"}
               /\ new = [id |-> x.id, owner |-> x.owner, folder |-> x.folder, seen |-> TRUE,
                         received |-> x.received, text |-> x.text, deleted |-> x.deleted]
            \/ /\ DOMAIN mark = {"deleted"}
               /\ new = [id |-> x.id, owner |-> x.owner, folder |-> x.folder, seen |-> x.seen,
                         received |-> x.received, text |-> x.text, deleted |-> TRUE]
<1> DEFINE A == {"id", "owner", "folder", "seen", "received", "text", "deleted"}
<1>1. /\ DOMAIN x = A /\ x.id \in Ids /\ x.owner \in Email /\ x.folder \in Folders
      /\ x.seen \in BOOLEAN /\ x.received \in Nat /\ x.text \in Texts /\ x.deleted \in BOOLEAN
  BY DEF MessageRow
<1>2. CASE mark = [seen |-> TRUE]
  <2>1. DOMAIN mark = {"seen"} /\ mark["seen"] = TRUE
    BY <1>2
  <2>2. new = [at \in A |-> IF at = "seen" THEN TRUE ELSE x[at]]
    BY <1>1, <2>1 DEF Y!Over
  <2>3. new = [id |-> x.id, owner |-> x.owner, folder |-> x.folder, seen |-> TRUE,
               received |-> x.received, text |-> x.text, deleted |-> x.deleted]
    BY <1>1, <2>2
  <2>4. Marked(new, x)
    BY <1>1, <2>3 DEF Marked, MessageRow
  <2>5. QED
    BY <2>1, <2>3, <2>4
<1>3. CASE mark = [deleted |-> TRUE]
  <2>1. DOMAIN mark = {"deleted"} /\ mark["deleted"] = TRUE
    BY <1>3
  <2>2. new = [at \in A |-> IF at = "deleted" THEN TRUE ELSE x[at]]
    BY <1>1, <2>1 DEF Y!Over
  <2>3. new = [id |-> x.id, owner |-> x.owner, folder |-> x.folder, seen |-> x.seen,
               received |-> x.received, text |-> x.text, deleted |-> TRUE]
    BY <1>1, <2>2
  <2>4. Marked(new, x)
    BY <1>1, <2>3 DEF Marked, MessageRow
  <2>5. QED
    BY <2>1, <2>3, <2>4
<1>4. QED
  BY <1>2, <1>3 DEF Marks

\* Times stay numbers when they are cut to the second.
LEMMA SecondsNat == \A u \in Nat : Y!Seconds(u) \in Nat
BY SecondsIs

\* What DynamoDB keeps of a row.
LEMMA CoarseIs ==
  ASSUME NEW x \in MessageRow
  PROVE  /\ Coarse(x) = [id |-> x.id, owner |-> x.owner, folder |-> x.folder, seen |-> x.seen,
                         received |-> Y!Seconds(x.received), text |-> x.text, deleted |-> x.deleted]
         /\ Coarse(x) \in MessageRow
<1>1. PICK v \in Nat : v = Y!Seconds(x.received)
  BY SecondsNat DEF MessageRow
<1>2. x # NotFound
  BY BackendsAssumption
<1>3. Coarse(x) = [x EXCEPT !.received = v]
  BY <1>1, <1>2 DEF Coarse
<1>4. /\ x.id \in Ids /\ x.owner \in Email /\ x.folder \in Folders
      /\ x.seen \in BOOLEAN /\ x.text \in Texts /\ x.deleted \in BOOLEAN
  BY DEF MessageRow
<1>5. [x EXCEPT !.received = v] =
        [id |-> x.id, owner |-> x.owner, folder |-> x.folder, seen |-> x.seen,
         received |-> v, text |-> x.text, deleted |-> x.deleted]
  BY DEF MessageRow
<1>6. [x EXCEPT !.received = v] \in MessageRow
  BY DEF MessageRow
<1>7. QED
  BY <1>1, <1>3, <1>5, <1>6

\* A mark commutes with the loss of the fraction of a second.
LEMMA MarkCoarse ==
  ASSUME NEW mark \in Marks, NEW x \in MessageRow
  PROVE  Y!Over(mark, Coarse(x)) = Coarse(Y!Over(mark, x))
<1>1. PICK y \in MessageRow : y = Coarse(x)
  BY CoarseIs
<1>2. PICK new \in MessageRow : new = Y!Over(mark, x)
  BY MarkRow DEF Marked
<1>3. PICK v \in Nat : v = Y!Seconds(x.received)
  BY SecondsNat DEF MessageRow
<1>4. y = [id |-> x.id, owner |-> x.owner, folder |-> x.folder, seen |-> x.seen,
           received |-> v, text |-> x.text, deleted |-> x.deleted]
  BY <1>1, <1>3, CoarseIs
<1>5. new.received = x.received
  BY <1>2, MarkRow DEF Marked
<1>6. Coarse(new) = [id |-> new.id, owner |-> new.owner, folder |-> new.folder, seen |-> new.seen,
                     received |-> v, text |-> new.text, deleted |-> new.deleted]
  BY <1>3, <1>5, CoarseIs
<1>7. CASE DOMAIN mark = {"seen"}
  <2>1. new = [id |-> x.id, owner |-> x.owner, folder |-> x.folder, seen |-> TRUE,
               received |-> x.received, text |-> x.text, deleted |-> x.deleted]
    BY <1>2, <1>7, MarkRow
  <2>2. Y!Over(mark, y) = [id |-> y.id, owner |-> y.owner, folder |-> y.folder, seen |-> TRUE,
                           received |-> y.received, text |-> y.text, deleted |-> y.deleted]
    BY <1>7, MarkRow
  <2>3. QED
    BY <1>1, <1>2, <1>4, <1>6, <2>1, <2>2
<1>8. CASE DOMAIN mark = {"deleted"}
  <2>1. new = [id |-> x.id, owner |-> x.owner, folder |-> x.folder, seen |-> x.seen,
               received |-> x.received, text |-> x.text, deleted |-> TRUE]
    BY <1>2, <1>8, MarkRow
  <2>2. Y!Over(mark, y) = [id |-> y.id, owner |-> y.owner, folder |-> y.folder, seen |-> y.seen,
                           received |-> y.received, text |-> y.text, deleted |-> TRUE]
    BY <1>8, MarkRow
  <2>3. QED
    BY <1>1, <1>2, <1>4, <1>6, <2>1, <2>2
<1>9. QED
  BY <1>7, <1>8, MarkRow

\* A mark on both databases: on the row, and on the item under the key that is
\* put together from what was read back.
LEMMA MarkStep == ASSUME BackInv, Mark PROVE BackInv'
<1> DEFINE t == "messages"
           s == sql[t]
           d == dyn[t]
<1>0. /\ BackShape /\ TablesOK /\ Base(sql) /\ Base(dyn) /\ t \in Table
      /\ MailOK(s, d, Apart(t), Handed(t))
  BY Bases DEF BackInv, TablesOK, Table, PartOK
<1> HIDE DEF t
<1>a. PICK id \in Ids, mark \in Marks :
        /\ Both(S!UPDATE(sql, t, id, mark), Y!updateMessageField(dyn, id, mark), OffSecond(id), {})
        /\ Keep
  <2>1. /\ [seen |-> TRUE] \in Marks /\ [deleted |-> TRUE] \in Marks
        /\ \A id : /\ S!MarkSeen(sql, id) = S!UPDATE(sql, t, id, [seen |-> TRUE])
                   /\ S!MarkDeleted(sql, id) = S!UPDATE(sql, t, id, [deleted |-> TRUE])
                   /\ Y!MarkSeen(dyn, id) = Y!updateMessageField(dyn, id, [seen |-> TRUE])
                   /\ Y!MarkDeleted(dyn, id) = Y!updateMessageField(dyn, id, [deleted |-> TRUE])
    BY DEF Marks, S!MarkSeen, S!MarkDeleted, Y!MarkSeen, Y!MarkDeleted, t
  <2>2. QED
    BY <2>1 DEF Mark
<1>1. PICK x, y :
        /\ Both(x, y, OffSecond(id), {}) /\ Keep
        /\ x = S!UPDATE(sql, t, id, mark) /\ y = Y!updateMessageField(dyn, id, mark)
  BY <1>a
<1>2. PICK f : f = IF id \in DOMAIN s THEN Added(s, id, S!Over(mark, s[id])) ELSE s
  OBVIOUS
<1>3. x.db = Changed(sql, t, f)
  BY <1>0, <1>1, <1>2, SqlPuts
<1>4. PICK E : E = (Apart(t) \ {}) \cup OffSecond(id)
  OBVIOUS
<1>5. /\ Within(t, OffSecond(id)) /\ Within(t, {})
      /\ \A k \in WholeOf(d, id) : k # Y!KeyOf(d[k]) => <<t, id>> \in E
  BY <1>0, <1>4, OffIs, MissingIs DEF t
<1> HIDE DEF s, d
<1>6. ASSUME NEW new, id \in DOMAIN s, new = S!Over(mark, s[id])
      PROVE  /\ s[id] \in MessageRow /\ new = Y!Over(mark, s[id]) /\ Marked(new, s[id])
             /\ s[id].deleted => new.deleted
             /\ "deleted" \in DOMAIN mark => new.deleted
  <2>1. s[id] \in MessageRow
    BY <1>0, <1>6 DEF MailOK
  <2>2. PICK old \in MessageRow : old = s[id]
    BY <2>1
  <2>3. new = Y!Over(mark, old)
    BY <1>6, <2>2 DEF S!Over, Y!Over
  <2>4. Marked(new, old) /\ (old.deleted => new.deleted) /\ ("deleted" \in DOMAIN mark => new.deleted)
    BY <2>3, MarkRow
  <2>5. QED
    BY <2>2, <2>3, <2>4
<1>7. /\ Only(f, s, id) /\ (id \in DOMAIN f <=> id \in DOMAIN s)
      /\ id \in DOMAIN s => f[id] = S!Over(mark, s[id])
      /\ DOMAIN f = DOMAIN s /\ IsFiniteSet(DOMAIN f)
  <2>1. DOMAIN f = DOMAIN s
    BY <1>2 DEF Added
  <2>2. IsFiniteSet(DOMAIN s)
    BY <1>0 DEF MailOK
  <2>3. QED
    BY <1>2, <2>1, <2>2 DEF Only, Added
<1>8. CASE Y!GetMessage(dyn, id) = NotFound /\ WholeOf(d, id) = {}
  <2>1. y.db = dyn /\ dyn = Changed(dyn, t, d)
    BY <1>0, <1>1, <1>8, SameTable DEF Y!updateMessageField, Y!Refused, d
  <2>2. id \notin DOMAIN s
    BY <1>0, <1>8 DEF MailOK, WholeOf
  <2>3. f = s
    BY <1>2, <2>2
  <2>4. MailOK(s, d, E, Handed(t))
    BY <1>0, <1>4 DEF MailOK
  <2>5. PartOK(t, f, d, E, Handed(t))
    BY <2>3, <2>4 DEF PartOK, t
  <2>6. QED
    BY <1>0, <1>1, <1>3, <1>4, <1>5, <2>1, <2>5, Calls1
<1>9. ASSUME NEW k \in WholeOf(d, id), Y!GetMessage(dyn, id) = d[k]
      PROVE  BackInv'
  <2>1. PICK m, key, old, item, g :
          /\ m = d[k] /\ key = Y!KeyOf(m) /\ old = Y!Row(dyn, t, key)
          /\ item = Y!Over(mark, old) /\ g = Added(d, key, item)
    OBVIOUS
  <2>2. k \in DOMAIN d /\ Whole(k, m) /\ k[3] = id /\ m # NotFound /\ m \in MessageRow
    BY <2>1, WholeIsNoGhost DEF WholeOf, Whole
  <2>3. y = Y!UpdateItem(dyn, t, key, mark)
    BY <1>1, <1>9, <2>1, <2>2 DEF Y!updateMessageField, t
  <2>4. y.db = Changed(dyn, t, g)
    BY <1>0, <2>1, <2>3, DynPuts DEF d
  <2>5. /\ key \in Email \X Nat \X Ids /\ key[1] = k[1] /\ key[3] = id
        /\ key # k /\ key \in DOMAIN d => Ghost(d[key])
    BY <1>0, <2>1, <2>2, KeyIs
  <2>6. old = IF key \in DOMAIN d THEN d[key] ELSE <<>>
    BY <2>1 DEF Y!Row, d
  <2>7. /\ DOMAIN g = DOMAIN d \cup {key} /\ g[key] = item
        /\ \A l \in DOMAIN d : l # key => g[l] = d[l]
    BY <2>1 DEF Added
  <2>8. key = k => Whole(key, item) /\ item = Y!Over(mark, m) /\ (item.deleted => m.deleted \/ "deleted" \in DOMAIN mark)
    <3>1. SUFFICES ASSUME key = k
                   PROVE  /\ Whole(key, item) /\ item = Y!Over(mark, m)
                          /\ item.deleted => m.deleted \/ "deleted" \in DOMAIN mark
      OBVIOUS
    <3>2. item = Y!Over(mark, m)
      BY <2>1, <2>2, <2>6, <3>1
    <3>3. Marked(item, m) /\ (item.deleted => m.deleted \/ "deleted" \in DOMAIN mark)
      BY <2>2, <3>2, MarkRow
    <3>4. Whole(key, item)
      BY <2>2, <3>1, <3>3 DEF Whole, Marked
    <3>5. QED
      BY <3>2, <3>3, <3>4
  <2>9. key # k => Ghost(item)
    <3>1. SUFFICES ASSUME key # k PROVE Ghost(item)
      OBVIOUS
    <3>2. Ghost(old)
      <4>1. CASE key \in DOMAIN d
        BY <2>5, <2>6, <3>1, <4>1
      <4>2. CASE key \notin DOMAIN d
        <5>1. old = <<>>
          BY <2>6, <4>2
        <5>2. QED
          BY <5>1 DEF Ghost
      <4>3. QED
        BY <4>1, <4>2
    <3>3. /\ DOMAIN mark \subseteq {"seen", "deleted"}
          /\ "deleted" \in DOMAIN mark => mark["deleted"] = TRUE
      BY DEF Marks
    <3>4. QED
      BY <2>1, <3>2, <3>3 DEF Ghost, Y!Over
  <2>10. \A l \in DOMAIN d : l[3] = id => l[1] = key[1] /\ (Whole(l, d[l]) => l = k)
    BY <1>0, <2>1, <2>2, <2>5 DEF MailOK
  <2>11. id \in DOMAIN f => /\ f[id] \in MessageRow /\ f[id].id = id /\ key[1] = f[id].owner
                            /\ s[id].deleted => f[id].deleted
                            /\ "deleted" \in DOMAIN mark => f[id].deleted
    <3>1. SUFFICES ASSUME id \in DOMAIN s
                   PROVE  /\ f[id] \in MessageRow /\ f[id].id = id /\ key[1] = f[id].owner
                          /\ s[id].deleted => f[id].deleted
                          /\ "deleted" \in DOMAIN mark => f[id].deleted
      BY <1>7
    <3>2. /\ Marked(f[id], s[id]) /\ (s[id].deleted => f[id].deleted)
          /\ "deleted" \in DOMAIN mark => f[id].deleted
      BY <1>6, <1>7, <3>1
    <3>3. s[id].id = id /\ k[1] = s[id].owner
      BY <1>0, <2>2, <3>1 DEF MailOK
    <3>4. QED
      BY <2>5, <3>2, <3>3 DEF Marked
  <2>12. id \in DOMAIN f => \E l \in DOMAIN g : /\ Whole(l, g[l]) /\ l[3] = id
                                                /\ g[l].deleted => f[id].deleted
    <3>1. SUFFICES ASSUME id \in DOMAIN s
                   PROVE  /\ k \in DOMAIN g /\ Whole(k, g[k]) /\ k[3] = id
                          /\ g[k].deleted => f[id].deleted
      BY <1>7
    <3>2. m.deleted => s[id].deleted
      <4>1. PICK l \in DOMAIN d : /\ Whole(l, d[l]) /\ l[3] = id
                                  /\ d[l].deleted => s[id].deleted
        BY <1>0, <3>1 DEF MailOK
      <4>2. l = k
        BY <2>10, <4>1
      <4>3. QED
        BY <2>1, <4>1, <4>2
    <3>3. CASE key = k
      BY <1>7, <2>2, <2>7, <2>8, <2>11, <3>1, <3>2, <3>3
    <3>4. CASE key # k
      BY <1>7, <2>1, <2>2, <2>7, <2>11, <3>1, <3>2, <3>4
    <3>5. QED
      BY <3>3, <3>4
  <2>13. ASSUME <<t, id>> \notin E
         PROVE  id \in DOMAIN f /\ \A l \in DOMAIN g : l[3] = id => g[l] = Coarse(f[id])
    <3>1. key = k /\ <<t, id>> \notin Apart(t)
      BY <1>4, <1>5, <2>1, <2>13
    <3>2. \A l \in DOMAIN d : l[3] = id => id \in DOMAIN s /\ d[l] = Coarse(s[id])
      BY <1>0, <3>1 DEF MailOK, t
    <3>3. id \in DOMAIN s /\ m = Coarse(s[id])
      BY <2>1, <2>2, <3>2
    <3>4. s[id] \in MessageRow /\ f[id] = Y!Over(mark, s[id])
      BY <1>6, <1>7, <3>3
    <3>5. item = Coarse(f[id])
      BY <2>8, <3>1, <3>3, <3>4, MarkCoarse
    <3>6. ASSUME NEW l \in DOMAIN g, l[3] = id, l # key
          PROVE  FALSE
      <4>1. l \in DOMAIN d /\ d[l] = m
        BY <2>7, <3>2, <3>3, <3>6
      <4>2. Whole(l, d[l])
        <5>1. Whole(l, d[l]) \/ Ghost(d[l])
          BY <1>0, <4>1 DEF MailOK
        <5>2. ~Ghost(m)
          BY <2>2, WholeIsNoGhost
        <5>3. QED
          BY <4>1, <5>1, <5>2
      <4>3. QED
        BY <2>10, <3>1, <3>6, <4>1, <4>2
    <3>7. QED
      BY <1>7, <2>7, <3>3, <3>5, <3>6
  <2>14. <<t, id>> \in Handed(t)
    BY <1>0, <2>2 DEF MailOK, t
  <2>15. Whole(key, item) \/ Ghost(item)
    BY <2>8, <2>9
  <2>16. \A l \in DOMAIN d : l[3] = id =>
           l[1] = key[1] /\ (Whole(key, item) /\ Whole(l, d[l]) => l = key)
    BY <2>9, <2>10, WholeIsNoGhost
  <2>17. Apart(t) \subseteq E
    BY <1>4
  <2>18. MailOK(f, g, E, Handed(t))
    BY <1>0, <1>7, <2>1, <2>5, <2>11, <2>12, <2>13, <2>14, <2>15, <2>16, <2>17, MailPut DEF t
  <2>19. PartOK(t, f, g, E, Handed(t))
    BY <2>18 DEF PartOK, t
  <2>20. QED
    BY <1>0, <1>1, <1>3, <1>4, <1>5, <2>4, <2>19, Calls1
<1>10. QED
  BY <1>0, <1>8, <1>9, GetIs DEF t, d

\* The deletion of one message, where only DynamoDB may miss it.
LEMMA ExpungeStep == ASSUME BackInv, Expunge PROVE BackInv'
<1> DEFINE t == "messages"
           s == sql[t]
           d == dyn[t]
<1>0. /\ BackShape /\ TablesOK /\ Base(sql) /\ Base(dyn) /\ t \in Table
      /\ MailOK(s, d, Apart(t), Handed(t))
  BY Bases DEF BackInv, TablesOK, Table, PartOK
<1> HIDE DEF t
<1>a. PICK id \in Ids :
        Both(S!DeleteMessage(sql, id), Y!DeleteMessage(dyn, id), OffSecond(id), {}) /\ Keep
  BY DEF Expunge
<1>1. PICK x, y :
        /\ Both(x, y, OffSecond(id), {}) /\ Keep
        /\ x = S!DeleteMessage(sql, id) /\ y = Y!DeleteMessage(dyn, id)
  BY <1>a
<1>2. PICK f : f = Cut(s, {id})
  OBVIOUS
<1>3. x.db = Changed(sql, t, f)
  BY <1>0, <1>1, <1>2, SqlDeletes DEF S!DeleteMessage, t
<1>4. PICK E : E = (Apart(t) \ {}) \cup OffSecond(id)
  OBVIOUS
<1>5. /\ Within(t, OffSecond(id)) /\ Within(t, {})
      /\ \A k \in WholeOf(d, id) : k # Y!KeyOf(d[k]) => <<t, id>> \in E
  BY <1>0, <1>4, OffIs, MissingIs DEF t
<1> HIDE DEF s, d
<1>6. ASSUME NEW g, DOMAIN g \subseteq DOMAIN d, \A k \in DOMAIN g : g[k] = d[k],
             \A l \in DOMAIN d \ DOMAIN g : l[3] = id,
             \A l \in DOMAIN g : l[3] = id => <<t, id>> \in E
      PROVE  PartOK(t, f, g, E, Handed(t))
  <2>1. \A l \in DOMAIN d \ DOMAIN g : l[3] \notin DOMAIN s \ {id}
    BY <1>6
  <2>2. \A l \in DOMAIN g : \/ <<t, l[3]>> \in E
                            \/ <<t, l[3]>> \notin Apart(t) /\ l[3] \notin {id}
    BY <1>4, <1>6
  <2>3. MailOK(f, g, E, Handed(t))
    BY <1>0, <1>2, <1>6, <2>1, <2>2, MailCut DEF t
  <2>4. QED
    BY <2>3 DEF PartOK, t
<1>7. CASE Y!GetMessage(dyn, id) = NotFound /\ WholeOf(d, id) = {}
  <2>1. y.db = dyn /\ dyn = Changed(dyn, t, d)
    BY <1>0, <1>1, <1>7, SameTable DEF Y!DeleteMessage, Y!Refused, d
  <2>3. id \notin DOMAIN s
    BY <1>0, <1>7 DEF MailOK, WholeOf
  <2>4. \A l \in DOMAIN d : l[3] = id => <<t, id>> \in E
    BY <1>0, <1>4, <2>3 DEF MailOK, t
  <2>5. PartOK(t, f, d, E, Handed(t))
    BY <1>6, <2>4
  <2>6. QED
    BY <1>0, <1>1, <1>3, <1>4, <1>5, <2>1, <2>5, Calls1
<1>8. ASSUME NEW k \in WholeOf(d, id), Y!GetMessage(dyn, id) = d[k]
      PROVE  BackInv'
  <2>1. PICK m, key, g : m = d[k] /\ key = Y!KeyOf(m) /\ g = Cut(d, {key})
    OBVIOUS
  <2>2. k \in DOMAIN d /\ Whole(k, m) /\ k[3] = id /\ m # NotFound
    BY <2>1, WholeIsNoGhost DEF WholeOf
  <2>3. y = Y!DeleteItem(dyn, t, key)
    BY <1>1, <1>8, <2>1, <2>2 DEF Y!DeleteMessage, t
  <2>4. y.db = Changed(dyn, t, g)
    BY <1>0, <2>1, <2>3, DynDeletes DEF d
  <2>5. key[3] = id
    BY <1>0, <2>1, <2>2, KeyIs
  <2>6. ASSUME NEW l \in DOMAIN d, l # key, l[3] = id, <<t, id>> \notin E
        PROVE  FALSE
    <3>1. key = k /\ <<t, id>> \notin Apart(t)
      BY <1>4, <1>5, <2>1, <2>6
    <3>2. \A i \in DOMAIN d : i[3] = id => id \in DOMAIN s /\ d[i] = Coarse(s[id])
      BY <1>0, <3>1 DEF MailOK, t
    <3>3. d[l] = m
      BY <2>1, <2>2, <2>6, <3>2
    <3>4. Whole(l, d[l])
      <4>1. Whole(l, d[l]) \/ Ghost(d[l])
        BY <1>0, <2>6 DEF MailOK
      <4>2. ~Ghost(m)
        BY <2>2, WholeIsNoGhost
      <4>3. QED
        BY <3>3, <4>1, <4>2
    <3>5. l = k
      BY <1>0, <2>1, <2>2, <2>6, <3>4 DEF MailOK
    <3>6. QED
      BY <2>6, <3>1, <3>5
  <2>7. PartOK(t, f, g, E, Handed(t))
    <3>1. DOMAIN g = DOMAIN d \ {key} /\ \A l \in DOMAIN g : g[l] = d[l]
      BY <2>1 DEF Cut
    <3>2. /\ \A l \in DOMAIN d \ DOMAIN g : l[3] = id
          /\ \A l \in DOMAIN g : l[3] = id => <<t, id>> \in E
      BY <2>5, <2>6, <3>1
    <3>3. QED
      BY <1>6, <3>1, <3>2
  <2>8. QED
    BY <1>0, <1>1, <1>3, <1>4, <1>5, <2>4, <2>7, Calls1
<1>9. QED
  BY <1>0, <1>7, <1>8, GetIs DEF t, d

\* The removal of all mail of an account, and of the part of it a batch reaches.
LEMMA RemoveAllStep == ASSUME BackInv, RemoveAll PROVE BackInv'
<1> DEFINE t == "messages"
           s == sql[t]
           d == dyn[t]
<1>0. /\ BackShape /\ TablesOK /\ Base(sql) /\ Base(dyn) /\ t \in Table
      /\ MailOK(s, d, Apart(t), Handed(t))
  BY Bases DEF BackInv, TablesOK, Table, PartOK
<1> HIDE DEF t
<1>1. PICK e, owned, rest, x, y :
        /\ e \in Email /\ rest \in SUBSET owned /\ owned = Y!Owned(dyn, e)
        /\ Both(x, y, Left(rest), Left(owned)) /\ Keep
        /\ x = S!DeleteUserMessages(sql, e) /\ y = Y!DeleteUserMessages(dyn, e, rest)
  BY DEF RemoveAll
<1>2. PICK K, L, f, g : /\ K = {id \in DOMAIN s : s[id].owner = e} /\ L = owned \ rest
                        /\ f = Cut(s, K) /\ g = Cut(d, L)
  OBVIOUS
<1>3. x.db = Changed(sql, t, f)
  BY <1>0, <1>1, <1>2, SqlDeletes DEF S!DeleteUserMessages, t
<1>4. y.db = Changed(dyn, t, g)
  BY <1>0, <1>1, <1>2 DEF Y!DeleteUserMessages, Y!BatchDelete, Y!Done, Y!Without,
                          Cut, Base, Changed, t
<1>5. owned = {k \in DOMAIN d : k[1] = e}
  BY <1>1 DEF Y!Owned, t
<1>6. PICK E : E = (Apart(t) \ Left(owned)) \cup Left(rest)
  OBVIOUS
<1>7. /\ \A k \in owned : <<t, k[3]>> \in Left(owned)
      /\ \A k \in rest : <<t, k[3]>> \in Left(rest)
      /\ \A z \in Left(owned) : \E k \in owned : z = <<t, k[3]>>
      /\ Within(t, Left(owned)) /\ Within(t, Left(rest))
  BY DEF Left, Within, t
<1> HIDE DEF s, d
<1>8. DOMAIN g = DOMAIN d \ L /\ \A k \in DOMAIN g : g[k] = d[k]
  BY <1>2 DEF Cut
<1>9. \A l \in DOMAIN d \ DOMAIN g : l[3] \notin DOMAIN s \ K
  <2>1. SUFFICES ASSUME NEW l \in DOMAIN d, l \in owned
                 PROVE  l[3] \notin DOMAIN s \ K
    BY <1>2, <1>8
  <2>2. l[1] = e
    BY <1>5, <2>1
  <2>3. l[3] \in DOMAIN s => s[l[3]].owner = e
    BY <1>0, <2>2 DEF MailOK
  <2>4. QED
    BY <1>2, <2>3
<1>10. MailOK(f, g, E, Handed(t))
  <2>1. ASSUME NEW l \in DOMAIN g, <<t, l[3]>> \notin E
        PROVE  <<t, l[3]>> \notin Apart(t) /\ l[3] \notin K
    <3>1. l \in DOMAIN d /\ l \notin owned
      BY <1>2, <1>6, <1>7, <1>8, <2>1
    <3>2. l[1] # e
      BY <1>5, <3>1
    <3>3. l[3] \notin K
      BY <1>0, <1>2, <3>1, <3>2 DEF MailOK
    <3>4. \A k \in owned : k[3] # l[3]
      BY <1>0, <1>5, <3>1, <3>2 DEF MailOK
    <3>5. <<t, l[3]>> \notin Left(owned)
      BY <1>7, <3>4
    <3>6. QED
      BY <1>6, <2>1, <3>3, <3>5
  <2>2. \A l \in DOMAIN g : \/ <<t, l[3]>> \in E
                            \/ <<t, l[3]>> \notin Apart(t) /\ l[3] \notin K
    BY <2>1
  <2>3. f = Cut(s, K) /\ DOMAIN g \subseteq DOMAIN d /\ \A k \in DOMAIN g : g[k] = d[k]
    BY <1>2, <1>8
  <2>4. MailOK(s, d, Apart(t), Handed(t))
    BY <1>0
  <2>5. QED
    BY <1>9, <2>2, <2>3, <2>4, MailCut DEF t
<1>11. PartOK(t, f, g, E, Handed(t))
  BY <1>10 DEF PartOK, t
<1>12. QED
  BY <1>0, <1>1, <1>3, <1>4, <1>6, <1>7, <1>11, Calls1

\* A message that is saved, under an id nobody had.
LEMMA SaveStep == ASSUME BackInv, Save PROVE BackInv'
<1> DEFINE t == "messages"
           s == sql[t]
           d == dyn[t]
<1>0. /\ BackShape /\ TablesOK /\ Base(sql) /\ Base(dyn) /\ t \in Table
      /\ MailOK(s, d, Apart(t), Handed(t))
  BY Bases DEF BackInv, TablesOK, Table, PartOK
<1> HIDE DEF t
<1>a. PICK m \in Message :
        Both(S!SaveMessage(sql, m), Y!SaveMessage(dyn, m), {}, {}) /\ Fresh(t, m.id)
  BY DEF Save, t
<1>1. PICK id, x, y :
        /\ Both(x, y, {}, {}) /\ Fresh(t, id) /\ id = m.id
        /\ x = S!SaveMessage(sql, m) /\ y = Y!SaveMessage(dyn, m)
  BY <1>a
<1>2. PICK mark : mark = [deleted |-> FALSE]
  OBVIOUS
<1>3. PICK row, key, item, f, g :
        /\ row = S!Over(m, mark) /\ item = Y!Over([m EXCEPT !.received = Y!Seconds(@)], mark)
        /\ key = <<m.owner, m.received, m.id>>
        /\ f = Inserted(s, id, row) /\ g = Added(d, key, item)
  OBVIOUS
<1>4. x.db = Changed(sql, t, f)
  BY <1>0, <1>1, <1>2, <1>3, SqlPuts DEF S!SaveMessage, t
<1>5. y.db = Changed(dyn, t, g)
  BY <1>0, <1>1, <1>2, <1>3, DynPuts DEF Y!SaveMessage, t
<1>6. PICK U, E : U = Handed(t) \cup {<<t, id>>} /\ E = (Apart(t) \ {}) \cup {}
  OBVIOUS
<1> HIDE DEF s, d
<1> DEFINE A == {"id", "owner", "folder", "seen", "received", "text"}
<1>7. /\ DOMAIN m = A /\ m.id \in Ids /\ m.owner \in Email /\ m.folder \in Folders
      /\ m.seen \in BOOLEAN /\ m.received \in Nat /\ m.text \in Texts
  <2>1. m \in [id : Ids, owner : Email, folder : Folders, seen : BOOLEAN,
               received : Nat, text : Texts]
    BY BackendsAssumption
  <2>2. QED
    BY <2>1
<1>8. PICK v \in Nat : v = Y!Seconds(m.received)
  BY <1>7, SecondsNat
<1>9. DOMAIN mark = {"deleted"} /\ mark["deleted"] = FALSE
  BY <1>2
<1>10. row = [id |-> m.id, owner |-> m.owner, folder |-> m.folder, seen |-> m.seen,
              received |-> m.received, text |-> m.text, deleted |-> FALSE]
  <2>1. row = [at \in A \cup {"deleted"} |-> IF at \in A THEN m[at] ELSE mark[at]]
    BY <1>3, <1>7, <1>9 DEF S!Over
  <2>2. QED
    BY <1>9, <2>1
<1>11. item = [id |-> m.id, owner |-> m.owner, folder |-> m.folder, seen |-> m.seen,
               received |-> v, text |-> m.text, deleted |-> FALSE]
  <2>1. PICK n : n = [m EXCEPT !.received = v]
    OBVIOUS
  <2>2. item = Y!Over(n, mark)
    BY <1>3, <1>8, <2>1
  <2>3. /\ DOMAIN n = A /\ n.id = m.id /\ n.owner = m.owner /\ n.folder = m.folder
        /\ n.seen = m.seen /\ n.received = v /\ n.text = m.text
    BY <1>7, <2>1
  <2>4. item = [at \in A \cup {"deleted"} |-> IF at \in A THEN n[at] ELSE mark[at]]
    BY <1>9, <2>2, <2>3 DEF Y!Over
  <2>5. QED
    BY <1>9, <2>3, <2>4
<1>12. row \in MessageRow /\ row.id = id /\ row.owner = m.owner /\ row.received = m.received
  BY <1>1, <1>7, <1>10 DEF MessageRow
<1>13. item \in MessageRow /\ item = Coarse(row)
  <2>1. item \in MessageRow
    BY <1>7, <1>11 DEF MessageRow
  <2>2. Coarse(row) = [id |-> row.id, owner |-> row.owner, folder |-> row.folder, seen |-> row.seen,
                       received |-> Y!Seconds(row.received), text |-> row.text, deleted |-> row.deleted]
    BY <1>12, CoarseIs
  <2>3. Coarse(row) = item
    BY <1>8, <1>10, <1>11, <2>2
  <2>4. QED
    BY <2>1, <2>3
<1>14. /\ key \in Email \X Nat \X Ids /\ key[1] = m.owner /\ key[2] = m.received /\ key[3] = id
  BY <1>1, <1>3, <1>7
<1>15. Whole(key, item)
  BY <1>1, <1>8, <1>11, <1>13, <1>14 DEF Whole
<1>16. <<t, id>> \notin Handed(t)
  BY <1>1, FreshIs
<1>17. id \notin DOMAIN s /\ \A l \in DOMAIN d : l[3] # id
  BY <1>0, <1>16 DEF MailOK, t
<1>18. /\ f = Added(s, id, row) /\ DOMAIN f = DOMAIN s \cup {id} /\ f[id] = row /\ Only(f, s, id)
       /\ DOMAIN g = DOMAIN d \cup {key} /\ g[key] = item
  BY <1>3, <1>17 DEF Inserted, Added, Only
<1>19. IsFiniteSet(DOMAIN f)
  <2>1. IsFiniteSet(DOMAIN s)
    BY <1>0 DEF MailOK
  <2>2. QED
    BY <1>18, <2>1, FS_AddElement
<1>20. \E k \in DOMAIN g : /\ Whole(k, g[k]) /\ k[3] = id
                           /\ g[k].deleted => f[id].deleted
  <2>1. g[key].deleted = FALSE
    BY <1>11, <1>18
  <2>2. QED
    BY <1>14, <1>15, <1>18, <2>1
<1>21. \A k \in DOMAIN g : k[3] = id => g[k] = Coarse(f[id])
  BY <1>13, <1>17, <1>18
<1>22. Handed(t) \subseteq U /\ <<t, id>> \in U /\ Apart(t) \subseteq E
  BY <1>6
<1>23. MailOK(f, g, E, U)
  BY <1>0, <1>3, <1>12, <1>14, <1>15, <1>17, <1>18, <1>19, <1>20, <1>21, <1>22, MailPut DEF t
<1>24. PartOK(t, f, g, E, U)
  BY <1>23 DEF PartOK, t
<1>25. Within(t, {})
  BY MissingIs
<1>26. QED
  BY <1>0, <1>1, <1>4, <1>5, <1>6, <1>24, <1>25, CallsFresh

-----------------------------------------------------------------------------
(* The invariant of the two databases.                                     *)

\* Empty databases agree.
LEMMA BackInitially == BackInit => BackInv
<1> SUFFICES ASSUME BackInit PROVE BackInv
  OBVIOUS
<1>1. /\ sql = [t \in Table |-> <<>>] /\ dyn = [t \in Table |-> <<>>]
      /\ now = 0 /\ spent = {} /\ drift = {}
  BY DEF BackInit
<1>2. BackShape
  BY <1>1, Clock DEF BackShape
<1>3. ASSUME NEW t \in Table
      PROVE  PartOK(t, sql[t], dyn[t], Apart(t), Handed(t))
  <2>1. PICK none : none = <<>>
    OBVIOUS
  <2>2. DOMAIN none = {}
    BY <2>1
  <2>3. sql[t] = none /\ dyn[t] = none
    BY <1>1, <2>1
  <2>4. IsFiniteSet({})
    BY FS_EmptySet
  <2>5. ASSUME NEW D, NEW U PROVE PartOK(t, none, none, D, U)
    <3>1. UsersOK(none, none, D)
      BY <2>2 DEF UsersOK
    <3>2. MailOK(none, none, D, U)
      BY <2>2, <2>4 DEF MailOK
    <3>3. AliasesOK(none, none, D) /\ ListsOK(none, none, D)
      BY <2>2 DEF AliasesOK, AliasRows, SameRows, ListsOK, ListRows
    <3>4. MembersOK(none, none, D) /\ DomainsOK(none, none, D)
      BY <2>2 DEF MembersOK, SameRows, DomainsOK, DomainRows
    <3>5. LogOK(none, none)
      BY <2>2 DEF LogOK
    <3>6. ClientsOK(none, none, U)
      BY <2>2 DEF ClientsOK
    <3>7. CodesOK(none, none, D, U) /\ TokensOK(none, none, U)
      BY <2>2 DEF CodesOK, TokensOK
    <3>8. FiltersOK(none, none, D, U)
      BY <2>2, <2>4 DEF FiltersOK
    <3>9. QED
      BY <3>1, <3>2, <3>3, <3>4, <3>5, <3>6, <3>7, <3>8 DEF PartOK
  <2>6. QED
    BY <2>3, <2>5
<1>4. QED
  BY <1>2, <1>3 DEF BackInv, TablesOK

\* Every call of the program, made on both databases, keeps it.
LEMMA BackStep == BackInv /\ [BackNext]_backVars => BackInv'
<1> SUFFICES ASSUME BackInv, [BackNext]_backVars PROVE BackInv'
  OBVIOUS
<1>1. CASE AccountCalls
  BY <1>1, AccountStep
<1>2. CASE MailCalls
  BY <1>2, SaveStep, MarkStep, ExpungeStep, RemoveAllStep DEF MailCalls
<1>3. CASE DirectoryCalls
  BY <1>3, AliasStep, ListCreatesStep, ListDeletesStep, ListMemberStep DEF DirectoryCalls
<1>4. CASE FilterCalls
  BY <1>4, FilterStep
<1>5. CASE ReplyCalls \/ Tick
  BY <1>5, ReplyStep
<1>6. CASE DomainCalls
  BY <1>6, DomainCallsStep DEF DomainCalls
<1>7. CASE OAuthCalls
  BY <1>7, ClientStep, CodeStep, TokenStep DEF OAuthCalls
<1>8. CASE UNCHANGED backVars
  <2>1. sql' = sql /\ dyn' = dyn /\ now' = now /\ spent' = spent /\ drift' = drift
    BY <1>8 DEF backVars
  <2>2. BackShape'
    BY <2>1 DEF BackInv, BackShape
  <2>3. \A t : Apart(t)' = Apart(t) /\ Handed(t)' = Handed(t)
    BY <2>1 DEF Apart, Handed
  <2>4. ASSUME NEW t \in Table
        PROVE  PartOK(t, sql'[t], dyn'[t], Apart(t)', Handed(t)')
    <3>1. PartOK(t, sql[t], dyn[t], Apart(t), Handed(t))
      BY DEF BackInv, TablesOK
    <3>2. QED
      BY <2>1, <2>3, <3>1
  <2>5. QED
    BY <2>2, <2>4 DEF BackInv, TablesOK
<1>9. QED
  BY <1>1, <1>2, <1>3, <1>4, <1>5, <1>6, <1>7, <1>8 DEF BackNext

\* Whatever calls the program makes, the two databases stay in step but for
\* the rows the history names.
THEOREM BackendsInv == BackSpec => []BackInv
BY BackInitially, BackStep, PTL DEF BackSpec

\* The invariant contains the types.
LEMMA BackTypes == BackInv => BackTypeOK
<1> SUFFICES ASSUME BackInv PROVE BackTypeOK
  OBVIOUS
<1>1. /\ sql = [t \in Table |-> sql[t]] /\ dyn = [t \in Table |-> dyn[t]]
      /\ now \in 0..MaxNow /\ \A x \in drift \cup spent : x[1] \in Table
  BY DEF BackInv, BackShape
<1>2. /\ UsersOK(sql["users"], dyn["users"], Apart("users"))
      /\ MailOK(sql["messages"], dyn["messages"], Apart("messages"), Handed("messages"))
      /\ MembersOK(sql["members"], dyn["members"], Apart("members"))
      /\ AliasesOK(sql["aliases"], dyn["aliases"], Apart("aliases"))
      /\ FiltersOK(sql["filters"], dyn["filters"], Apart("filters"), Handed("filters"))
  BY DEF BackInv, TablesOK, PartOK, Table
<1>3. DOMAIN sql = Table /\ DOMAIN dyn = Table
  BY <1>1
<1>4. DOMAIN sql["users"] \subseteq Email /\ DOMAIN dyn["users"] \subseteq Email
  BY <1>2 DEF UsersOK
<1>5. /\ DOMAIN sql["messages"] \subseteq Ids
      /\ \A key \in DOMAIN dyn["messages"] : key[1] \in Email /\ key[3] \in Ids
  <2>1. PICK s, d : s = sql["messages"] /\ d = dyn["messages"]
    OBVIOUS
  <2>2. ASSUME NEW id \in DOMAIN s PROVE id \in Ids
    <3>1. s[id] \in MessageRow /\ s[id].id = id
      BY <1>2, <2>1 DEF MailOK
    <3>2. QED
      BY <3>1 DEF MessageRow
  <2>3. \A key \in DOMAIN d : key \in Email \X Nat \X Ids
    BY <1>2, <2>1 DEF MailOK
  <2>4. QED
    BY <2>1, <2>2, <2>3
<1>6. DOMAIN sql["members"] \cup DOMAIN dyn["members"] \subseteq List \X Email
  BY <1>2 DEF MembersOK
<1>7. DOMAIN sql["aliases"] \cup DOMAIN dyn["aliases"] \subseteq Alias
  BY <1>2 DEF AliasesOK, AliasRows
<1>8. DOMAIN sql["filters"] \subseteq FilterId
  BY <1>2 DEF FiltersOK
<1>9. QED
  BY <1>1, <1>3, <1>4, <1>5, <1>6, <1>7, <1>8 DEF BackTypeOK

\* The two databases and the contact requests together: neither touches the
\* variables of the other.
LEMMA TogetherStep ==
  BackInv /\ CardInv /\ [MCNext]_<<backVars, cardVars, part>> => BackInv' /\ CardInv'
<1> SUFFICES ASSUME BackInv, CardInv, [MCNext]_<<backVars, cardVars, part>>
             PROVE  BackInv' /\ CardInv'
  OBVIOUS
<1>1. Calls => BackNext
  BY DEF Calls, BackNext
<1>2. /\ BackNext \/ UNCHANGED backVars
      /\ CardNext \/ UNCHANGED cardVars
  BY <1>1 DEF MCNext
<1>3. QED
  BY <1>2, BackStep, CardStep

\* Both invariants hold of every behaviour of the two components.
LEMMA TogetherInv == MCSpec => [](BackInv /\ CardInv)
<1>1. MCInit => BackInv /\ CardInv
  BY BackInitially, CardInitially DEF MCInit
<1>2. QED
  BY <1>1, TogetherStep, PTL DEF MCSpec

\* Types of both components over every sequence of calls and requests.
THEOREM BackendsTypeCorrect == MCSpec => []MCTypeOK
<1>1. BackInv /\ CardInv => MCTypeOK
  BY BackTypes, CardTypes DEF MCTypeOK
<1>2. QED
  BY <1>1, TogetherInv, PTL

-----------------------------------------------------------------------------
(* What the invariant says of reads.                                       *)

\* A row is named by the history of its table.
LEMMA ApartIs == ASSUME NEW t, NEW key PROVE Drifted(t, key) <=> <<t, key>> \in Apart(t)
BY DEF Drifted, Apart

\* The messages a list shows, by their keys.
LEMMA DynShown ==
  ASSUME NEW s, NEW D, NEW U, MailOK(s, dyn["messages"], D, U), NEW e
  PROVE  /\ \A x \in Y!Shown(dyn, e) : \E k \in DOMAIN dyn["messages"] :
              /\ k[1] = e /\ Whole(k, dyn["messages"][k]) /\ x = dyn["messages"][k] /\ ~x.deleted
         /\ \A k \in DOMAIN dyn["messages"] :
              k[1] = e /\ Whole(k, dyn["messages"][k]) /\ ~dyn["messages"][k].deleted =>
                dyn["messages"][k] \in Y!Shown(dyn, e)
<1>1. PICK d : d = dyn["messages"] /\ MailOK(s, d, D, U)
  OBVIOUS
<1>2. Y!Shown(dyn, e) = {d[k] : k \in {l \in Y!Having(dyn, "messages", "deleted", FALSE) : l[1] = e}}
  BY <1>1 DEF Y!Shown
<1>3. \A k : k \in Y!Having(dyn, "messages", "deleted", FALSE) <=>
               k \in DOMAIN d /\ "deleted" \in DOMAIN d[k] /\ d[k]["deleted"] = FALSE
  BY <1>1 DEF Y!Having
<1>4. ASSUME NEW k \in DOMAIN d
      PROVE  "deleted" \in DOMAIN d[k] /\ d[k]["deleted"] = FALSE <=>
               Whole(k, d[k]) /\ ~d[k].deleted
  <2>1. Whole(k, d[k]) \/ Ghost(d[k])
    BY <1>1 DEF MailOK
  <2>2. CASE Whole(k, d[k])
    <3>1. d[k] \in MessageRow
      BY <2>2 DEF Whole
    <3>2. "deleted" \in DOMAIN d[k] /\ d[k].deleted \in BOOLEAN
      BY <3>1 DEF MessageRow
    <3>3. QED
      BY <2>2, <3>2
  <2>3. CASE Ghost(d[k]) /\ ~Whole(k, d[k])
    BY <2>3 DEF Ghost
  <2>4. QED
    BY <2>1, <2>2, <2>3
<1>5. ASSUME NEW x \in Y!Shown(dyn, e)
      PROVE  \E k \in DOMAIN d : k[1] = e /\ Whole(k, d[k]) /\ x = d[k] /\ ~x.deleted
  <2>1. PICK k : k \in Y!Having(dyn, "messages", "deleted", FALSE) /\ k[1] = e /\ x = d[k]
    BY <1>2
  <2>2. QED
    BY <1>3, <1>4, <2>1
<1>6. ASSUME NEW k \in DOMAIN d, k[1] = e, Whole(k, d[k]), ~d[k].deleted
      PROVE  d[k] \in Y!Shown(dyn, e)
  <2>1. k \in Y!Having(dyn, "messages", "deleted", FALSE)
    BY <1>3, <1>4, <1>6
  <2>2. QED
    BY <1>2, <1>6, <2>1
<1>7. QED
  BY <1>1, <1>5, <1>6

\* The rows a list of PostgreSQL shows, by their ids.
LEMMA SqlShown ==
  ASSUME NEW e
  PROVE  /\ \A x \in S!Shown(sql, e) : \E id \in DOMAIN sql["messages"] :
              x = sql["messages"][id] /\ x.owner = e /\ ~x.deleted
         /\ \A id \in DOMAIN sql["messages"] :
              sql["messages"][id].owner = e /\ ~sql["messages"][id].deleted =>
                sql["messages"][id] \in S!Shown(sql, e)
BY DEF S!Shown, S!Rows

\* What a mark leaves is never listed, and no message of PostgreSQL's list is
\* missing in DynamoDB's.
LEMMA GhostsStay == BackInv => GhostsHidden
<1> DEFINE t == "messages"
           s == sql[t]
           d == dyn[t]
<1> SUFFICES ASSUME BackInv, NEW e \in Email
             PROVE  /\ \A m \in Y!ListAllMessages(dyn, e) :
                         "id" \in DOMAIN m /\ <<"messages", m.id>> \in spent
                    /\ {m.id : m \in S!ListAllMessages(sql, e)}
                       \subseteq {m.id : m \in Y!ListAllMessages(dyn, e)}
  BY DEF GhostsHidden
<1>0. MailOK(s, d, Apart(t), Handed(t))
  BY DEF BackInv, TablesOK, Table, PartOK
<1>1. /\ \A x \in Y!ListAllMessages(dyn, e) : \E k \in DOMAIN d :
           k[1] = e /\ Whole(k, d[k]) /\ x = d[k]
      /\ \A k \in DOMAIN d : k[1] = e /\ Whole(k, d[k]) /\ ~d[k].deleted =>
           d[k] \in Y!ListAllMessages(dyn, e)
  BY <1>0, DynShown DEF Y!ListAllMessages
<1>2. \A x \in S!ListAllMessages(sql, e) : \E id \in DOMAIN s :
        x = s[id] /\ x.owner = e /\ ~x.deleted
  BY SqlShown DEF S!ListAllMessages
<1> HIDE DEF s, d
<1>3. ASSUME NEW m \in Y!ListAllMessages(dyn, e)
      PROVE  "id" \in DOMAIN m /\ <<"messages", m.id>> \in spent
  <2>1. PICK k \in DOMAIN d : Whole(k, d[k]) /\ m = d[k]
    BY <1>1
  <2>2. "id" \in DOMAIN m /\ m.id = k[3]
    BY <2>1, WholeIsNoGhost
  <2>3. <<"messages", k[3]>> \in Handed(t)
    BY <1>0 DEF MailOK
  <2>4. QED
    BY <2>2, <2>3 DEF Handed
<1>4. ASSUME NEW m \in S!ListAllMessages(sql, e)
      PROVE  \E y \in Y!ListAllMessages(dyn, e) : y.id = m.id
  <2>1. PICK id \in DOMAIN s : m = s[id] /\ m.owner = e /\ ~m.deleted
    BY <1>2
  <2>2. PICK k \in DOMAIN d : Whole(k, d[k]) /\ k[3] = id /\ ~d[k].deleted
    BY <1>0, <2>1 DEF MailOK
  <2>3. k[1] = e /\ m.id = id
    BY <1>0, <2>1, <2>2 DEF MailOK
  <2>4. d[k] \in Y!ListAllMessages(dyn, e) /\ d[k].id = id
    BY <1>1, <2>2, <2>3, WholeIsNoGhost
  <2>5. QED
    BY <2>3, <2>4
<1>5. QED
  BY <1>3, <1>4

\* What the mark of a message that was not found leaves is never listed as a
\* message, and DynamoDB lists every message PostgreSQL lists.
THEOREM GhostsNeverShown == MCSpec => []GhostsHidden
BY GhostsStay, TogetherInv, PTL

\* Two finite sets between which a function is one to one have as many elements.
LEMMA SameSize ==
  ASSUME NEW A, IsFiniteSet(A), NEW B, NEW f \in [A -> B],
         \A x, y \in A : f[x] = f[y] => x = y, \A y \in B : \E x \in A : f[x] = y
  PROVE  Cardinality(A) = Cardinality(B)
<1>1. f \in Bijection(A, B)
  BY DEF Bijection, Injection, Surjection, IsInjective
<1>2. ExistsBijection(A, B)
  BY <1>1 DEF ExistsBijection
<1>3. QED
  BY <1>2, FS_Bijection

\* A message PostgreSQL shows, and its copy, when the history does not name it.
Paired(e, x, y) == /\ x \in S!Shown(sql, e) /\ ~Drifted("messages", x.id)
                   /\ y \in Y!Shown(dyn, e) /\ y = Coarse(x)
                   /\ x \in MessageRow /\ y \in MessageRow /\ y.id = x.id

\* The shown messages that the history does not name come in pairs.
LEMMA Pairs ==
  ASSUME BackInv, NEW e
  PROVE  /\ \A x \in S!Shown(sql, e) : ~Drifted("messages", x.id) =>
              \E y \in Y!Shown(dyn, e) : Paired(e, x, y)
         /\ \A y \in Y!Shown(dyn, e) : ~Drifted("messages", y.id) =>
              \E x \in S!Shown(sql, e) : Paired(e, x, y)
<1> DEFINE t == "messages"
           s == sql[t]
           d == dyn[t]
<1>0. MailOK(s, d, Apart(t), Handed(t))
  BY DEF BackInv, TablesOK, Table, PartOK
<1>1. /\ \A x \in Y!Shown(dyn, e) : \E k \in DOMAIN d :
           k[1] = e /\ Whole(k, d[k]) /\ x = d[k] /\ ~x.deleted
      /\ \A k \in DOMAIN d : k[1] = e /\ Whole(k, d[k]) /\ ~d[k].deleted => d[k] \in Y!Shown(dyn, e)
  BY <1>0, DynShown
<1>2. /\ \A x \in S!Shown(sql, e) : \E id \in DOMAIN s : x = s[id] /\ x.owner = e /\ ~x.deleted
      /\ \A id \in DOMAIN s : s[id].owner = e /\ ~s[id].deleted => s[id] \in S!Shown(sql, e)
  BY SqlShown
<1> HIDE DEF s, d
<1>3. ASSUME NEW x \in MessageRow, NEW y, y = Coarse(x)
      PROVE  y \in MessageRow /\ y.id = x.id /\ y.owner = x.owner /\ y.deleted = x.deleted
  <2>1. y = [id |-> x.id, owner |-> x.owner, folder |-> x.folder, seen |-> x.seen,
             received |-> Y!Seconds(x.received), text |-> x.text, deleted |-> x.deleted]
    BY <1>3, CoarseIs
  <2>2. y.id = x.id /\ y.owner = x.owner /\ y.deleted = x.deleted
    BY <2>1
  <2>3. QED
    BY <1>3, <2>2, CoarseIs
<1>4. ASSUME NEW x \in S!Shown(sql, e), ~Drifted("messages", x.id)
      PROVE  \E y \in Y!Shown(dyn, e) : Paired(e, x, y)
  <2>1. PICK id \in DOMAIN s : x = s[id] /\ x.owner = e /\ ~x.deleted
    BY <1>2
  <2>2. x \in MessageRow /\ x.id = id
    BY <1>0, <2>1 DEF MailOK
  <2>3. PICK k \in DOMAIN d : Whole(k, d[k]) /\ k[3] = id
    BY <1>0, <2>1 DEF MailOK
  <2>4. k[1] = e
    BY <1>0, <2>1, <2>3 DEF MailOK
  <2>5. <<t, id>> \notin Apart(t)
    BY <1>4, <2>2, ApartIs DEF t
  <2>6. d[k] = Coarse(x)
    BY <1>0, <2>1, <2>3, <2>5 DEF MailOK, t
  <2>7. d[k] \in MessageRow /\ d[k].id = id /\ d[k].deleted = x.deleted
    BY <1>3, <2>2, <2>6
  <2>8. d[k] \in Y!Shown(dyn, e)
    BY <1>1, <2>1, <2>3, <2>4, <2>7
  <2>9. QED
    BY <1>4, <2>2, <2>6, <2>7, <2>8 DEF Paired
<1>5. ASSUME NEW y \in Y!Shown(dyn, e), ~Drifted("messages", y.id)
      PROVE  \E x \in S!Shown(sql, e) : Paired(e, x, y)
  <2>1. PICK k \in DOMAIN d : k[1] = e /\ Whole(k, d[k]) /\ y = d[k] /\ ~y.deleted
    BY <1>1
  <2>2. PICK id : id = k[3] /\ y.id = id
    BY <2>1, WholeIsNoGhost
  <2>3. <<t, id>> \notin Apart(t)
    BY <1>5, <2>2, ApartIs DEF t
  <2>4. id \in DOMAIN s /\ y = Coarse(s[id])
    BY <1>0, <2>1, <2>2, <2>3 DEF MailOK, t
  <2>5. s[id] \in MessageRow /\ s[id].id = id /\ s[id].owner = e
    <3>1. s[id] \in MessageRow /\ s[id].id = id
      BY <1>0, <2>4 DEF MailOK
    <3>2. k[3] \in DOMAIN s => k[1] = s[k[3]].owner
      BY <1>0 DEF MailOK
    <3>3. QED
      BY <2>1, <2>2, <2>4, <3>1, <3>2
  <2>6. y \in MessageRow /\ y.deleted = s[id].deleted
    BY <1>3, <2>4, <2>5
  <2>7. s[id] \in S!Shown(sql, e)
    BY <1>2, <2>1, <2>4, <2>5, <2>6
  <2>8. QED
    BY <1>5, <2>2, <2>4, <2>5, <2>6, <2>7 DEF Paired
<1>6. QED
  BY <1>4, <1>5

\* Apart from the time, the two rows say the same.
LEMMA PairedAlike ==
  ASSUME NEW e, NEW x, NEW y, Paired(e, x, y)
  PROVE  /\ "folder" \in DOMAIN y /\ y.folder = x.folder /\ Y!Attr(y, "folder", "") = x.folder
         /\ x.seen \in BOOLEAN /\ Y!Attr(y, "seen", FALSE) = x.seen
         /\ Y!Attr(y, "text", {}) = x.text
<1>1. x \in MessageRow /\ y = Coarse(x)
  BY DEF Paired
<1>2. y = [id |-> x.id, owner |-> x.owner, folder |-> x.folder, seen |-> x.seen,
           received |-> Y!Seconds(x.received), text |-> x.text, deleted |-> x.deleted]
  BY <1>1, CoarseIs
<1>3. /\ DOMAIN y = {"id", "owner", "folder", "seen", "received", "text", "deleted"}
      /\ y["folder"] = x.folder /\ y["seen"] = x.seen /\ y["text"] = x.text
  BY <1>2
<1>4. x.seen \in BOOLEAN
  BY <1>1 DEF MessageRow
<1>5. QED
  BY <1>3, <1>4 DEF Y!Attr

\* A read by id, when the history does not name the message.
LEMMA GetMessageSame ==
  ASSUME BackInv, NEW id \in Ids, ~Drifted("messages", id)
  PROVE  Coarse(S!GetMessage(sql, id)) = Y!GetMessage(dyn, id)
<1> DEFINE t == "messages"
           s == sql[t]
           d == dyn[t]
<1>0. MailOK(s, d, Apart(t), Handed(t)) /\ <<t, id>> \notin Apart(t)
  BY ApartIs DEF BackInv, TablesOK, Table, PartOK
<1>1. \/ Y!GetMessage(dyn, id) = NotFound /\ WholeOf(d, id) = {}
      \/ \E k \in WholeOf(d, id) : Y!GetMessage(dyn, id) = d[k]
  BY <1>0, GetIs
<1>2. S!GetMessage(sql, id) = IF id \in DOMAIN s THEN s[id] ELSE NotFound
  BY DEF S!GetMessage, S!Found, S!Has
<1> HIDE DEF s, d
<1>3. \A k \in DOMAIN d : k[3] = id => id \in DOMAIN s /\ d[k] = Coarse(s[id])
  BY <1>0 DEF MailOK, t
<1>4. CASE id \in DOMAIN s
  <2>1. PICK k \in DOMAIN d : Whole(k, d[k]) /\ k[3] = id
    BY <1>0, <1>4 DEF MailOK
  <2>2. PICK l \in WholeOf(d, id) : Y!GetMessage(dyn, id) = d[l]
    BY <1>1, <2>1 DEF WholeOf
  <2>3. d[l] = Coarse(s[id])
    BY <1>3, <2>2 DEF WholeOf
  <2>4. QED
    BY <1>2, <1>4, <2>2, <2>3
<1>5. CASE id \notin DOMAIN s
  <2>1. WholeOf(d, id) = {}
    BY <1>3, <1>5 DEF WholeOf
  <2>2. Coarse(NotFound) = NotFound
    BY DEF Coarse
  <2>3. QED
    BY <1>1, <1>2, <1>5, <2>1, <2>2
<1>6. QED
  BY <1>4, <1>5

\* A folder lists the same messages on both, to the second.
LEMMA ListSame ==
  ASSUME BackInv, NEW e, NEW f
  PROVE  {Coarse(m) : m \in Sound(S!ListMessages(sql, e, f))} = Sound(Y!ListMessages(dyn, e, f))
<1>1. PICK A, B : A = Sound(S!ListMessages(sql, e, f)) /\ B = Sound(Y!ListMessages(dyn, e, f))
  OBVIOUS
<1>2. \A x : x \in A <=> x \in S!Shown(sql, e) /\ x.folder = f /\ ~Drifted("messages", x.id)
  BY <1>1 DEF Sound, S!ListMessages
<1>3. \A y : y \in B <=> /\ y \in Y!Shown(dyn, e) /\ Y!Attr(y, "folder", "") = f
                         /\ ~Drifted("messages", y.id)
  BY <1>1 DEF Sound, Y!ListMessages
<1>4. ASSUME NEW x \in A PROVE Coarse(x) \in B
  <2>1. PICK y \in Y!Shown(dyn, e) : Paired(e, x, y)
    BY <1>2, Pairs
  <2>2. y = Coarse(x) /\ y.id = x.id /\ Y!Attr(y, "folder", "") = x.folder
    BY <2>1, PairedAlike DEF Paired
  <2>3. QED
    BY <1>2, <1>3, <2>2
<1>5. ASSUME NEW y \in B PROVE \E x \in A : y = Coarse(x)
  <2>1. PICK x \in S!Shown(sql, e) : Paired(e, x, y)
    BY <1>3, Pairs
  <2>2. y = Coarse(x) /\ y.id = x.id /\ Y!Attr(y, "folder", "") = x.folder
    BY <2>1, PairedAlike DEF Paired
  <2>3. QED
    BY <1>2, <1>3, <2>2
<1>6. {Coarse(m) : m \in A} = B
  BY <1>4, <1>5
<1>7. QED
  BY <1>1, <1>6

\* When the history names no message, the two shown lists are paired off.
LEMMA NoneApart ==
  ASSUME BackInv, NEW e, \A id \in Ids : ~Drifted("messages", id)
  PROVE  /\ \A x \in S!Shown(sql, e) : \E y \in Y!Shown(dyn, e) : Paired(e, x, y)
         /\ \A y \in Y!Shown(dyn, e) : \E x \in S!Shown(sql, e) : Paired(e, x, y)
<1> DEFINE s == sql["messages"]
           d == dyn["messages"]
<1>0. MailOK(s, d, Apart("messages"), Handed("messages"))
  BY DEF BackInv, TablesOK, Table, PartOK
<1>1. \A x \in S!Shown(sql, e) : \E id \in DOMAIN s : x = s[id]
  BY SqlShown
<1>2. \A y \in Y!Shown(dyn, e) : \E k \in DOMAIN d : Whole(k, d[k]) /\ y = d[k]
  BY <1>0, DynShown
<1> HIDE DEF s, d
<1>3. \A x \in S!Shown(sql, e) : x.id \in Ids
  <2>1. \A id \in DOMAIN s : s[id] \in MessageRow
    BY <1>0 DEF MailOK
  <2>2. QED
    BY <1>1, <2>1 DEF MessageRow
<1>4. \A y \in Y!Shown(dyn, e) : y.id \in Ids
  <2>1. \A k \in DOMAIN d : Whole(k, d[k]) => d[k] \in MessageRow
    BY DEF Whole
  <2>2. QED
    BY <1>2, <2>1 DEF MessageRow
<1>5. QED
  BY <1>3, <1>4, Pairs

\* When nothing has drifted, an account has the same folders on both,
LEMMA FoldersSame ==
  ASSUME BackInv, NEW e, \A id \in Ids : ~Drifted("messages", id)
  PROVE  S!ListUserFolders(sql, e) = Y!ListUserFolders(dyn, e)
<1>1. /\ \A x \in S!Shown(sql, e) : \E y \in Y!Shown(dyn, e) : Paired(e, x, y)
      /\ \A y \in Y!Shown(dyn, e) : \E x \in S!Shown(sql, e) : Paired(e, x, y)
  BY NoneApart
<1>2. PICK A, B : A = S!ListUserFolders(sql, e) /\ B = Y!ListUserFolders(dyn, e)
  OBVIOUS
<1>3. \A z : z \in A <=> \E x \in S!Shown(sql, e) : z = x.folder
  BY <1>2 DEF S!ListUserFolders
<1>4. \A z : z \in B <=> \E y \in Y!Shown(dyn, e) : "folder" \in DOMAIN y /\ z = y.folder
  BY <1>2 DEF Y!ListUserFolders
<1>5. ASSUME NEW z \in A PROVE z \in B
  <2>1. PICK x \in S!Shown(sql, e) : z = x.folder
    BY <1>3
  <2>2. PICK y \in Y!Shown(dyn, e) : Paired(e, x, y)
    BY <1>1
  <2>3. QED
    <3>1. "folder" \in DOMAIN y /\ y.folder = x.folder
      BY <2>2, PairedAlike
    <3>2. QED
      BY <1>4, <2>1, <3>1
<1>6. ASSUME NEW z \in B PROVE z \in A
  <2>1. PICK y \in Y!Shown(dyn, e) : "folder" \in DOMAIN y /\ z = y.folder
    BY <1>4
  <2>2. PICK x \in S!Shown(sql, e) : Paired(e, x, y)
    BY <1>1
  <2>3. QED
    <3>1. y.folder = x.folder
      BY <2>2, PairedAlike
    <3>2. QED
      BY <1>3, <2>1, <3>1
<1>7. QED
  BY <1>2, <1>5, <1>6

\* a search finds the same messages,
LEMMA SearchSame ==
  ASSUME BackInv, NEW e, NEW w, \A id \in Ids : ~Drifted("messages", id)
  PROVE  {m.id : m \in S!SearchMessages(sql, e, w)} = {m.id : m \in Y!SearchMessages(dyn, e, w)}
<1>1. /\ \A x \in S!Shown(sql, e) : \E y \in Y!Shown(dyn, e) : Paired(e, x, y)
      /\ \A y \in Y!Shown(dyn, e) : \E x \in S!Shown(sql, e) : Paired(e, x, y)
  BY NoneApart
<1>2. PICK A, B : A = S!SearchMessages(sql, e, w) /\ B = Y!SearchMessages(dyn, e, w)
  OBVIOUS
<1>3. \A x : x \in A <=> x \in S!Shown(sql, e) /\ w \in x.text
  BY <1>2 DEF S!SearchMessages
<1>4. \A y : y \in B <=> y \in Y!Shown(dyn, e) /\ w \in Y!Attr(y, "text", {})
  BY <1>2 DEF Y!SearchMessages
<1>5. ASSUME NEW x \in A PROVE \E y \in B : y.id = x.id
  <2>1. PICK y \in Y!Shown(dyn, e) : Paired(e, x, y)
    BY <1>1, <1>3
  <2>2. QED
    <3>1. Y!Attr(y, "text", {}) = x.text
      BY <2>1, PairedAlike
    <3>2. y.id = x.id
      BY <2>1 DEF Paired
    <3>3. QED
      BY <1>3, <1>4, <2>1, <3>1, <3>2
<1>6. ASSUME NEW y \in B PROVE \E x \in A : y.id = x.id
  <2>1. PICK x \in S!Shown(sql, e) : Paired(e, x, y)
    BY <1>1, <1>4
  <2>2. QED
    <3>1. Y!Attr(y, "text", {}) = x.text
      BY <2>1, PairedAlike
    <3>2. y.id = x.id
      BY <2>1 DEF Paired
    <3>3. QED
      BY <1>3, <1>4, <2>1, <3>1, <3>2
<1>7. {m.id : m \in A} = {m.id : m \in B}
  BY <1>5, <1>6
<1>8. QED
  BY <1>2, <1>7

\* Both stores count with the Cardinality of their own instance of FiniteSets.
LEMMA Counting == \A A : S!Cardinality(A) = Cardinality(A) /\ Y!Cardinality(A) = Cardinality(A)
BY DEF S!Cardinality, Y!Cardinality, Cardinality

\* and as many of them are unread.
LEMMA UnreadSame ==
  ASSUME BackInv, NEW e, NEW f, \A id \in Ids : ~Drifted("messages", id)
  PROVE  S!CountUnread(sql, e, f) = Y!CountUnread(dyn, e, f)
<1> DEFINE t == "messages"
           s == sql[t]
<1>0. /\ \A id \in DOMAIN s : s[id].id = id
      /\ IsFiniteSet(DOMAIN s)
  BY DEF BackInv, TablesOK, Table, PartOK, MailOK
<1>1. /\ \A x \in S!Shown(sql, e) : \E y \in Y!Shown(dyn, e) : Paired(e, x, y)
      /\ \A y \in Y!Shown(dyn, e) : \E x \in S!Shown(sql, e) : Paired(e, x, y)
  BY NoneApart
<1>2. \A x \in S!Shown(sql, e) : \E id \in DOMAIN s : x = s[id]
  BY SqlShown
<1> HIDE DEF s
<1>3. PICK A : A = {m \in S!ListMessages(sql, e, f) : ~m.seen}
  OBVIOUS
<1>4. PICK B : B = {m \in Y!ListMessages(dyn, e, f) : ~Y!Attr(m, "seen", FALSE)}
  OBVIOUS
<1>5. \A x : x \in A <=> x \in S!Shown(sql, e) /\ x.folder = f /\ ~x.seen
  BY <1>3 DEF S!ListMessages
<1>6. \A y : y \in B <=> /\ y \in Y!Shown(dyn, e) /\ Y!Attr(y, "folder", "") = f
                         /\ ~Y!Attr(y, "seen", FALSE)
  BY <1>4 DEF Y!ListMessages
<1>7. \A x \in A : x.id \in DOMAIN s /\ s[x.id] = x
  BY <1>0, <1>2, <1>5
<1>8. IsFiniteSet(A)
  <2>1. PICK I : I = {id \in DOMAIN s : s[id] \in A}
    OBVIOUS
  <2>2. IsFiniteSet(I)
    BY <1>0, <2>1, FS_Subset
  <2>3. PICK g : g = [id \in I |-> s[id]]
    OBVIOUS
  <2>4. g \in [I -> A] /\ \A x \in A : \E id \in I : g[id] = x
    BY <1>7, <2>1, <2>3
  <2>5. g \in Surjection(I, A)
    BY <2>4 DEF Surjection
  <2>6. QED
    BY <2>2, <2>5, FS_Surjection
<1>9. PICK g : g = [x \in A |-> Coarse(x)]
  OBVIOUS
<1>10. ASSUME NEW x \in A PROVE g[x] \in B /\ g[x].id = x.id
  <2>1. PICK y \in Y!Shown(dyn, e) : Paired(e, x, y)
    BY <1>1, <1>5
  <2>2. g[x] = y /\ y.id = x.id
    BY <1>9, <2>1 DEF Paired
  <2>3. Y!Attr(y, "folder", "") = x.folder /\ Y!Attr(y, "seen", FALSE) = x.seen
    BY <2>1, PairedAlike
  <2>4. QED
    BY <1>5, <1>6, <2>2, <2>3
<1>11. ASSUME NEW y \in B PROVE \E x \in A : g[x] = y
  <2>1. PICK x \in S!Shown(sql, e) : Paired(e, x, y)
    BY <1>1, <1>6
  <2>2. y = Coarse(x)
    BY <2>1 DEF Paired
  <2>3. Y!Attr(y, "folder", "") = x.folder /\ Y!Attr(y, "seen", FALSE) = x.seen
    BY <2>1, PairedAlike
  <2>4. x \in A
    BY <1>5, <1>6, <2>3
  <2>5. QED
    BY <1>9, <2>2, <2>4
<1>12. g \in [A -> B]
  BY <1>9, <1>10
<1>13. \A x, y \in A : g[x] = g[y] => x = y
  BY <1>7, <1>10
<1>14. Cardinality(A) = Cardinality(B)
  BY <1>8, <1>11, <1>12, <1>13, SameSize
<1>15. S!CountUnread(sql, e, f) = S!Cardinality(A)
  BY <1>3 DEF S!CountUnread
<1>16. Y!CountUnread(dyn, e, f) = Y!Cardinality(B)
  BY <1>4 DEF Y!CountUnread
<1>17. QED
  BY <1>14, <1>15, <1>16, Counting

\* Reads of messages agree.
LEMMA MailSame == BackInv => MailAgrees
<1> SUFFICES ASSUME BackInv PROVE MailAgrees
  OBVIOUS
<1>1. \A id \in Ids : Drifted("messages", id) \/ Coarse(S!GetMessage(sql, id)) = Y!GetMessage(dyn, id)
  BY GetMessageSame
<1>2. \A e \in Email, f \in Folder :
        {Coarse(m) : m \in Sound(S!ListMessages(sql, e, f))} = Sound(Y!ListMessages(dyn, e, f))
  BY ListSame, Zenon
<1>3. ASSUME NEW e \in Email, \A id \in Ids : ~Drifted("messages", id)
      PROVE  /\ S!ListUserFolders(sql, e) = Y!ListUserFolders(dyn, e)
             /\ \A f \in Folder : S!CountUnread(sql, e, f) = Y!CountUnread(dyn, e, f)
             /\ \A w \in UNION {m.text : m \in Message} :
                  {m.id : m \in S!SearchMessages(sql, e, w)} = {m.id : m \in Y!SearchMessages(dyn, e, w)}
  <2>1. S!ListUserFolders(sql, e) = Y!ListUserFolders(dyn, e)
    BY <1>3, FoldersSame
  <2>2. \A f \in Folder : S!CountUnread(sql, e, f) = Y!CountUnread(dyn, e, f)
    BY <1>3, UnreadSame
  <2>3. \A w \in UNION {m.text : m \in Message} :
          {m.id : m \in S!SearchMessages(sql, e, w)} = {m.id : m \in Y!SearchMessages(dyn, e, w)}
    BY <1>3, SearchSame, Zenon
  <2>4. QED
    BY <2>1, <2>2, <2>3
<1>4. QED
  BY <1>1, <1>2, <1>3, Zenon DEF MailAgrees

\* Rows whose key is one of their attributes, on both sides of the history.
LEMMA RowSame ==
  ASSUME NEW t, NEW s, NEW d, NEW D, SameRows(t, s, d, D), NEW key, <<t, key>> \notin D
  PROVE  (key \in DOMAIN s <=> key \in DOMAIN d) /\ (key \in DOMAIN s => s[key] = d[key])
BY DEF SameRows

\* Reads of aliases, lists and members agree.
LEMMA DirectorySame == BackInv => DirectoryAgrees
<1> SUFFICES ASSUME BackInv PROVE DirectoryAgrees
  OBVIOUS
<1>1. PICK s, d, D : /\ s = sql["aliases"] /\ d = dyn["aliases"] /\ D = Apart("aliases")
                     /\ AliasesOK(s, d, D)
  BY DEF BackInv, TablesOK, Table, PartOK
<1>2. PICK ls, ld, L : /\ ls = sql["lists"] /\ ld = dyn["lists"] /\ L = Apart("lists")
                       /\ ListsOK(ls, ld, L)
  BY DEF BackInv, TablesOK, Table, PartOK
<1>3. PICK ms, md, M : /\ ms = sql["members"] /\ md = dyn["members"] /\ M = Apart("members")
                       /\ MembersOK(ms, md, M)
  BY DEF BackInv, TablesOK, Table, PartOK
<1>4. ASSUME NEW x, ~Drifted("aliases", x)
      PROVE  (x \in DOMAIN s <=> x \in DOMAIN d) /\ (x \in DOMAIN s => s[x] = d[x])
  <2>1. <<"aliases", x>> \notin D
    BY <1>1, <1>4, ApartIs
  <2>2. SameRows("aliases", s, d, D)
    BY <1>1 DEF AliasesOK
  <2>3. QED
    BY <2>1, <2>2, RowSame
<1>5. ASSUME NEW l, ~Drifted("lists", l)
      PROVE  (l \in DOMAIN ls <=> l \in DOMAIN ld) /\ (l \in DOMAIN ls => ls[l] = ld[l])
  <2>1. <<"lists", l>> \notin L
    BY <1>2, <1>5, ApartIs
  <2>2. SameRows("lists", ls, ld, L)
    BY <1>2 DEF ListsOK
  <2>3. QED
    BY <2>1, <2>2, RowSame
<1>6. ASSUME NEW key, ~Drifted("members", key)
      PROVE  key \in DOMAIN ms <=> key \in DOMAIN md
  BY <1>3, <1>6, ApartIs, RowSame DEF MembersOK
<1>7. \A x \in Alias : Drifted("aliases", x) \/ S!GetAlias(sql, x) = Y!GetAlias(dyn, x)
  BY <1>1, <1>4 DEF S!GetAlias, Y!GetAlias, S!Has, Y!Has
<1>8. {x \in S!ListAliases(sql) : ~Drifted("aliases", x.alias)}
      = {x \in Y!ListAliases(dyn) : ~Drifted("aliases", x.alias)}
  <2>1. /\ \A k \in DOMAIN s : s[k].alias = k
        /\ \A k \in DOMAIN d : d[k].alias = k
    <3>1. ASSUME NEW k \in DOMAIN s PROVE s[k].alias = k
      <4>1. s[k] = [alias |-> k, targets |-> s[k].targets]
        BY <1>1 DEF AliasesOK, AliasRows
      <4>2. QED
        BY <4>1
    <3>2. ASSUME NEW k \in DOMAIN d PROVE d[k].alias = k
      <4>1. d[k] = [alias |-> k, targets |-> d[k].targets]
        BY <1>1 DEF AliasesOK, AliasRows
      <4>2. QED
        BY <4>1
    <3>3. QED
      BY <3>1, <3>2
  <2>2. PICK A, B : A = S!ListAliases(sql) /\ B = Y!ListAliases(dyn)
    OBVIOUS
  <2>3. /\ \A x : x \in A <=> \E k \in DOMAIN s : x = s[k]
        /\ \A x : x \in B <=> \E k \in DOMAIN d : x = d[k]
    BY <1>1, <2>2 DEF S!ListAliases, S!Rows, Y!ListAliases, Y!Rows
  <2>4. ASSUME NEW x, ~Drifted("aliases", x.alias) PROVE x \in A <=> x \in B
    BY <1>4, <2>1, <2>3, <2>4
  <2>5. QED
    BY <2>2, <2>4
<1>9. {x \in S!ListMailingLists(sql) : ~Drifted("lists", x.list)}
      = {x \in Y!ListMailingLists(dyn) : ~Drifted("lists", x.list)}
  <2>1. /\ \A k \in DOMAIN ls : ls[k].list = k
        /\ \A k \in DOMAIN ld : ld[k].list = k
    <3>1. ASSUME NEW k \in DOMAIN ls PROVE ls[k].list = k
      <4>1. ls[k] = [list |-> k, owner |-> ls[k].owner]
        BY <1>2 DEF ListsOK, ListRows
      <4>2. QED
        BY <4>1
    <3>2. ASSUME NEW k \in DOMAIN ld PROVE ld[k].list = k
      <4>1. ld[k] = [list |-> k, owner |-> ld[k].owner]
        BY <1>2 DEF ListsOK, ListRows
      <4>2. QED
        BY <4>1
    <3>3. QED
      BY <3>1, <3>2
  <2>2. PICK A, B : A = S!ListMailingLists(sql) /\ B = Y!ListMailingLists(dyn)
    OBVIOUS
  <2>3. /\ \A x : x \in A <=> \E k \in DOMAIN ls : x = ls[k]
        /\ \A x : x \in B <=> \E k \in DOMAIN ld : x = ld[k]
    BY <1>2, <2>2 DEF S!ListMailingLists, S!Rows, Y!ListMailingLists, Y!Rows
  <2>4. ASSUME NEW x, ~Drifted("lists", x.list) PROVE x \in A <=> x \in B
    BY <1>5, <2>1, <2>3, <2>4
  <2>5. QED
    BY <2>2, <2>4
<1>10. ASSUME NEW l \in List
       PROVE  /\ Drifted("lists", l) \/ S!GetMailingList(sql, l) = Y!GetMailingList(dyn, l)
              /\ Drifted("lists", l) \/ S!IsMailingList(sql, l) = Y!IsMailingList(dyn, l)
              /\ {e \in S!GetListMembers(sql, l) : ~Drifted("members", <<l, e>>)}
                 = {e \in Y!GetListMembers(dyn, l) : ~Drifted("members", <<l, e>>)}
  <2>1. Drifted("lists", l) \/ S!GetMailingList(sql, l) = Y!GetMailingList(dyn, l)
    BY <1>2, <1>5 DEF S!GetMailingList, S!Found, S!Has, Y!GetMailingList, Y!Has
  <2>2. Drifted("lists", l) \/ S!IsMailingList(sql, l) = Y!IsMailingList(dyn, l)
    BY <1>2, <1>5 DEF S!IsMailingList, S!Has, Y!IsMailingList, Y!Has
  <2>3. PICK A, B : A = S!GetListMembers(sql, l) /\ B = Y!GetListMembers(dyn, l)
    OBVIOUS
  <2>4. /\ \A e : e \in A <=> \E k \in DOMAIN ms : k[1] = l /\ e = k[2]
        /\ \A e : e \in B <=> \E k \in DOMAIN md : k[1] = l /\ e = k[2]
    BY <1>3, <2>3 DEF S!GetListMembers, S!Members, Y!GetListMembers, Y!Members
  <2>5. /\ \A k \in DOMAIN ms : k = <<k[1], k[2]>>
        /\ \A k \in DOMAIN md : k = <<k[1], k[2]>>
    BY <1>3 DEF MembersOK
  <2>6. ASSUME NEW e, ~Drifted("members", <<l, e>>) PROVE e \in A <=> e \in B
    <3>1. e \in A <=> <<l, e>> \in DOMAIN ms
      BY <2>4, <2>5
    <3>2. e \in B <=> <<l, e>> \in DOMAIN md
      BY <2>4, <2>5
    <3>3. QED
      BY <1>6, <2>6, <3>1, <3>2
  <2>7. {e \in A : ~Drifted("members", <<l, e>>)} = {e \in B : ~Drifted("members", <<l, e>>)}
    BY <2>6
  <2>8. QED
    BY <2>1, <2>2, <2>3, <2>7
<1>11. QED
  BY <1>7, <1>8, <1>9, <1>10 DEF DirectoryAgrees

\* Reads of domains agree.
LEMMA DomainsSame == BackInv => DomainsAgree
<1> SUFFICES ASSUME BackInv PROVE DomainsAgree
  OBVIOUS
<1>1. PICK s, d, D : /\ s = sql["domains"] /\ d = dyn["domains"] /\ D = Apart("domains")
                     /\ DomainsOK(s, d, D)
  BY DEF BackInv, TablesOK, Table, PartOK
<1>2. ASSUME NEW x, ~Drifted("domains", x)
      PROVE  (x \in DOMAIN s <=> x \in DOMAIN d) /\ (x \in DOMAIN s => s[x] = d[x])
  <2>1. <<"domains", x>> \notin D
    BY <1>1, <1>2, ApartIs
  <2>2. SameRows("domains", s, d, D)
    BY <1>1 DEF DomainsOK
  <2>3. QED
    BY <2>1, <2>2, RowSame
<1>3. \A x \in Domains : Drifted("domains", x) \/ S!GetDomain(sql, x) = Y!GetDomain(dyn, x)
  BY <1>1, <1>2 DEF S!GetDomain, S!Found, S!Has, Y!GetDomain, Y!Has
<1>4. {x \in S!ListDomains(sql) : ~Drifted("domains", x.domain)}
      = {x \in Y!ListDomains(dyn) : ~Drifted("domains", x.domain)}
  <2>1. /\ \A k \in DOMAIN s : s[k].domain = k
        /\ \A k \in DOMAIN d : d[k].domain = k
    <3>1. ASSUME NEW k \in DOMAIN s PROVE s[k].domain = k
      <4>1. s[k] = [domain |-> k, ses |-> s[k].ses, dkim |-> s[k].dkim]
        BY <1>1 DEF DomainsOK, DomainRows
      <4>2. QED
        BY <4>1
    <3>2. ASSUME NEW k \in DOMAIN d PROVE d[k].domain = k
      <4>1. d[k] = [domain |-> k, ses |-> d[k].ses, dkim |-> d[k].dkim]
        BY <1>1 DEF DomainsOK, DomainRows
      <4>2. QED
        BY <4>1
    <3>3. QED
      BY <3>1, <3>2
  <2>2. PICK A, B : A = S!ListDomains(sql) /\ B = Y!ListDomains(dyn)
    OBVIOUS
  <2>3. /\ \A x : x \in A <=> \E k \in DOMAIN s : x = s[k]
        /\ \A x : x \in B <=> \E k \in DOMAIN d : x = d[k]
    BY <1>1, <2>2 DEF S!ListDomains, S!Rows, Y!ListDomains, Y!Rows
  <2>4. ASSUME NEW x, ~Drifted("domains", x.domain) PROVE x \in A <=> x \in B
    BY <1>2, <2>1, <2>3, <2>4
  <2>5. QED
    BY <2>2, <2>4
<1>5. QED
  BY <1>3, <1>4 DEF DomainsAgree

\* Replies agree, and the cooldown to within a second.
LEMMA RepliesSame == BackInv => RepliesAgree
<1> SUFFICES ASSUME BackInv, NEW e \in Email, NEW sender \in Email
             PROVE  /\ S!GetAutoReply(sql, e) = Y!GetAutoReply(dyn, e)
                    /\ Y!HasAutoRepliedRecently(dyn, e, sender, now, Cooldown) =>
                         S!HasAutoRepliedRecently(sql, e, sender, now, Cooldown)
                    /\ S!HasAutoRepliedRecently(sql, e, sender, now + Res - 1, Cooldown) =>
                         Y!HasAutoRepliedRecently(dyn, e, sender, now, Cooldown)
  BY DEF RepliesAgree
<1>1. /\ sql["replies"] = dyn["replies"] /\ LogOK(sql["log"], dyn["log"])
      /\ now \in 0..MaxNow
  BY DEF BackInv, BackShape, TablesOK, Table, PartOK
<1>2. S!GetAutoReply(sql, e) = Y!GetAutoReply(dyn, e)
  BY <1>1 DEF S!GetAutoReply, S!Found, S!Has, Y!GetAutoReply, Y!Has
<1>3. PICK s, d, k : s = sql["log"] /\ d = dyn["log"] /\ k = <<e, sender>>
  OBVIOUS
<1>4. \A n : S!HasAutoRepliedRecently(sql, e, sender, n, Cooldown) <=>
               k \in DOMAIN s /\ s[k].sent + Cooldown > n
  BY <1>3 DEF S!HasAutoRepliedRecently, S!Has
<1>5. Y!HasAutoRepliedRecently(dyn, e, sender, now, Cooldown) <=>
        k \in DOMAIN d /\ now - d[k].sent < Cooldown
  BY <1>3 DEF Y!HasAutoRepliedRecently, Y!Has
<1>6. /\ DOMAIN s = DOMAIN d
      /\ k \in DOMAIN s => s[k].sent \in Nat /\ d[k].sent = Y!Seconds(s[k].sent)
  BY <1>1, <1>3 DEF LogOK
<1>7. ASSUME NEW u \in Nat
      PROVE  /\ now - Y!Seconds(u) < Cooldown => u + Cooldown > now
             /\ u + Cooldown > now + Res - 1 => now - Y!Seconds(u) < Cooldown
  <2>1. Res \in Nat /\ Res > 0 /\ now \in Nat /\ Cooldown \in Nat
    BY <1>1, Clock, ResAssumption
  <2>2. PICK v : v = Y!Seconds(u)
    OBVIOUS
  <2>3. v \in Nat /\ v <= u /\ u - v < Res
    BY <2>1, <2>2, SecondsIs
  <2>4. QED
    BY <2>1, <2>2, <2>3
<1>8. QED
  BY <1>2, <1>4, <1>5, <1>6, <1>7

\* What DynamoDB returns of an account of which both keep the same.
LEMMA UserRead ==
  ASSUME NEW x \in UserRow, NEW y \in UserRow, UsersAlike(x, y), x.email = y.email
  PROVE  /\ Account(Y!docUserToModel(y)) = Account(x)
         /\ Y!docUserToModel(y).email = y.email
<1>1. /\ DOMAIN y = {"email", "domain", "name", "hash", "status"}
      /\ y = [email |-> y.email, domain |-> y.domain, name |-> y.name,
              hash |-> y.hash, status |-> y.status]
  BY DEF UserRow
<1>2. Y!docUserToModel(y) = y
  <2>1. \A at \in DOMAIN y : \A zero : Y!Attr(y, at, zero) = y[at]
    BY DEF Y!Attr
  <2>2. Y!docUserToModel(y) = [email |-> y.email, domain |-> y.domain, name |-> y.name,
                               hash |-> y.hash, status |-> y.status]
    BY <1>1, <2>1 DEF Y!docUserToModel
  <2>3. QED
    BY <1>1, <2>2
<1>3. x # NotFound /\ y # NotFound
  BY BackendsAssumption
<1>4. /\ Account(x) = [email |-> x.email, name |-> x.name, hash |-> x.hash]
      /\ Account(y) = [email |-> y.email, name |-> y.name, hash |-> y.hash]
  BY <1>3 DEF Account
<1>5. QED
  BY <1>2, <1>4 DEF UsersAlike

\* Reads of accounts agree, but for the status that DynamoDB does not keep.
LEMMA AccountsSame == BackInv => AccountsAgree
<1> SUFFICES ASSUME BackInv PROVE AccountsAgree
  OBVIOUS
<1>1. PICK s, d, D : /\ s = sql["users"] /\ d = dyn["users"] /\ D = Apart("users")
                     /\ UsersOK(s, d, D)
  BY DEF BackInv, TablesOK, Table, PartOK
<1>2. /\ \A e \in DOMAIN s : e \in Email /\ s[e] \in UserRow /\ s[e].email = e
                             /\ s[e].domain = DomainOf(e)
      /\ \A e \in DOMAIN d : e \in Email /\ UserItem(e, d[e])
  BY <1>1 DEF UsersOK, UserItem
<1>3. ASSUME NEW e \in Email, ~Drifted("users", e)
      PROVE  /\ e \in DOMAIN s <=> e \in DOMAIN d
             /\ e \in DOMAIN s => UsersAlike(s[e], d[e])
  <2>1. <<"users", e>> \notin D
    BY <1>1, <1>3, ApartIs
  <2>2. QED
    BY <1>1, <2>1 DEF UsersOK, UsersAlike
<1>4. \A e \in DOMAIN d : Y!docUserToModel(d[e]).email = e
  <2>1. SUFFICES ASSUME NEW e \in DOMAIN d PROVE Y!docUserToModel(d[e]).email = e
    OBVIOUS
  <2>2. Y!Attr(d[e], "email", "") = e
    BY <1>2 DEF UserItem, Y!Attr
  <2>3. QED
    BY <2>2 DEF Y!docUserToModel
<1>5. ASSUME NEW e \in DOMAIN s, ~Drifted("users", e)
      PROVE  /\ e \in DOMAIN d /\ Account(Y!docUserToModel(d[e])) = Account(s[e])
             /\ d[e].domain = s[e].domain /\ "domain" \in DOMAIN d[e]
  <2>1. e \in DOMAIN d /\ UsersAlike(s[e], d[e]) /\ s[e] \in UserRow /\ s[e].email = e
    BY <1>2, <1>3, <1>5
  <2>2. d[e] \in UserRow /\ d[e].domain = s[e].domain /\ d[e].email = e
    BY <1>2, <2>1 DEF UsersAlike, UserItem
  <2>3. Account(Y!docUserToModel(d[e])) = Account(s[e])
    BY <2>1, <2>2, UserRead
  <2>4. QED
    BY <2>1, <2>2, <2>3 DEF UserRow
<1>6. ASSUME NEW e \in Email, ~Drifted("users", e)
      PROVE  /\ Account(S!GetUser(sql, e)) = Account(Y!GetUser(dyn, e))
             /\ S!UserExistsByEmail(sql, e) = Y!UserExistsByEmail(dyn, e)
  <2>1. S!UserExistsByEmail(sql, e) = Y!UserExistsByEmail(dyn, e)
    BY <1>1, <1>3, <1>6 DEF S!UserExistsByEmail, S!Has, Y!UserExistsByEmail, Y!Has
  <2>2. CASE e \in DOMAIN s
    <3>1. S!GetUser(sql, e) = s[e]
      BY <1>1, <2>2 DEF S!GetUser, S!Found, S!Has
    <3>2. Y!GetUser(dyn, e) = Y!docUserToModel(d[e])
      BY <1>1, <1>5, <1>6, <2>2 DEF Y!GetUser, Y!getUserByKey, Y!Has
    <3>3. QED
      BY <1>5, <1>6, <2>1, <2>2, <3>1, <3>2
  <2>3. CASE e \notin DOMAIN s
    <3>1. S!GetUser(sql, e) = NotFound
      BY <1>1, <2>3 DEF S!GetUser, S!Found, S!Has
    <3>2. Y!GetUser(dyn, e) = NotFound
      BY <1>1, <1>3, <1>6, <2>3 DEF Y!GetUser, Y!getUserByKey, Y!Has
    <3>3. QED
      BY <2>1, <3>1, <3>2
  <2>4. QED
    BY <2>2, <2>3
<1>7. ASSUME NEW dom \in Domains
      PROVE  {Account(u) : u \in {x \in S!ListUsersByDomain(sql, dom) : ~Drifted("users", x.email)}}
             = {Account(u) : u \in {x \in Y!ListUsersByDomain(dyn, dom) : ~Drifted("users", x.email)}}
  <2>1. PICK A : A = {x \in S!ListUsersByDomain(sql, dom) : ~Drifted("users", x.email)}
    OBVIOUS
  <2>2. PICK B : B = {x \in Y!ListUsersByDomain(dyn, dom) : ~Drifted("users", x.email)}
    OBVIOUS
  <2>3. \A x : x \in A <=> \E e \in DOMAIN s : /\ x = s[e] /\ s[e].domain = dom
                                               /\ ~Drifted("users", x.email)
    BY <1>1, <2>1 DEF S!ListUsersByDomain, S!ListUsers, S!Rows
  <2>4. \A x : x \in B <=> \E e \in DOMAIN d : /\ x = Y!docUserToModel(d[e])
                                               /\ "domain" \in DOMAIN d[e] /\ d[e]["domain"] = dom
                                               /\ ~Drifted("users", x.email)
    BY <1>1, <2>2 DEF Y!ListUsersByDomain, Y!Having
  <2>5. ASSUME NEW x \in A PROVE \E y \in B : Account(y) = Account(x)
    <3>1. PICK e \in DOMAIN s : x = s[e] /\ s[e].domain = dom /\ ~Drifted("users", x.email)
      BY <2>3
    <3>2. ~Drifted("users", e)
      BY <1>2, <3>1
    <3>3. /\ e \in DOMAIN d /\ Account(Y!docUserToModel(d[e])) = Account(x)
          /\ d[e]["domain"] = dom /\ "domain" \in DOMAIN d[e]
      BY <1>5, <3>1, <3>2
    <3>4. Y!docUserToModel(d[e]) \in B
      BY <1>4, <2>4, <3>2, <3>3
    <3>5. QED
      BY <3>3, <3>4
  <2>6. ASSUME NEW y \in B PROVE \E x \in A : Account(y) = Account(x)
    <3>1. PICK e \in DOMAIN d : /\ y = Y!docUserToModel(d[e])
                                /\ "domain" \in DOMAIN d[e] /\ d[e]["domain"] = dom
                                /\ ~Drifted("users", y.email)
      BY <2>4
    <3>2. ~Drifted("users", e) /\ e \in Email
      BY <1>2, <1>4, <3>1
    <3>3. e \in DOMAIN s /\ s[e].email = e
      BY <1>2, <1>3, <3>2
    <3>4. Account(y) = Account(s[e]) /\ s[e].domain = dom
      BY <1>5, <3>1, <3>2, <3>3
    <3>5. s[e] \in A
      BY <2>3, <3>2, <3>3, <3>4
    <3>6. QED
      BY <3>4, <3>5
  <2>7. {Account(u) : u \in A} = {Account(u) : u \in B}
    BY <2>5, <2>6
  <2>8. QED
    BY <2>1, <2>2, <2>7
<1>8. QED
  BY <1>6, <1>7, Zenon DEF AccountsAgree

\* Clients, codes and tokens, as they are read.
LEMMA OAuthSame == BackInv => OAuthAgrees
<1> SUFFICES ASSUME BackInv PROVE OAuthAgrees
  OBVIOUS
<1>1. ASSUME NEW c \in Client
      PROVE  S!GetOAuthClient(sql, c.client) = Y!GetOAuthClient(dyn, c.client)
  <2>1. PICK s, d, U : s = sql["clients"] /\ d = dyn["clients"] /\ ClientsOK(s, d, U)
    BY DEF BackInv, TablesOK, Table, PartOK
  <2>2. PICK A, B : A = S!GetOAuthClient(sql, c.client) /\ B = Y!GetOAuthClient(dyn, c.client)
    OBVIOUS
  <2>3. \A x : x \in A <=> x.client = c.client /\ \E id \in DOMAIN s : x = s[id]
    BY <2>1, <2>2 DEF S!GetOAuthClient, S!Rows
  <2>4. \A x : x \in B <=> x.client = c.client /\ \E k \in DOMAIN d : x = d[k]
    BY <2>1, <2>2 DEF Y!GetOAuthClient, Y!Rows
  <2>5. ASSUME NEW id \in DOMAIN s PROVE \E k \in DOMAIN d : d[k] = s[id]
    <3>1. PICK k : k = <<s[id].domain, id>> /\ k \in DOMAIN d
      BY <2>1 DEF ClientsOK
    <3>2. k = <<d[k].domain, d[k].id>> /\ d[k] = s[d[k].id]
      BY <2>1, <3>1 DEF ClientsOK
    <3>3. QED
      BY <3>1, <3>2
  <2>6. ASSUME NEW k \in DOMAIN d PROVE \E id \in DOMAIN s : s[id] = d[k]
    BY <2>1 DEF ClientsOK
  <2>7. A = B
    BY <2>3, <2>4, <2>5, <2>6
  <2>8. QED
    BY <2>2, <2>7
<1>2. Until(NotFound) = NotFound
  BY DEF Until
<1>3. ASSUME NEW k \in Code, ~Drifted("codes", k)
      PROVE  Until(S!GetOAuthCode(sql, k)) = Y!GetOAuthCode(dyn, k)
  <2>1. PICK s, d, D, U : /\ s = sql["codes"] /\ d = dyn["codes"] /\ D = Apart("codes")
                          /\ CodesOK(s, d, D, U)
    BY DEF BackInv, TablesOK, Table, PartOK
  <2>2. <<"codes", k>> \notin D
    BY <1>3, <2>1, ApartIs
  <2>3. /\ k \in DOMAIN s <=> k \in DOMAIN d
        /\ k \in DOMAIN s => s[k] \in CodeRow /\ d[k] = ToSeconds(s[k])
    BY <2>1, <2>2 DEF CodesOK, ToSeconds
  <2>4. CASE k \in DOMAIN s
    <3>a. PICK x \in CodeRow : x = s[k] /\ d[k] = ToSeconds(x)
      BY <2>3, <2>4
    <3>1. PICK y : x = s[k] /\ y = d[k] /\ y = ToSeconds(x)
      BY <3>a
    <3>2. x # NotFound
      BY BackendsAssumption
    <3>3. Until(S!GetOAuthCode(sql, k)) = y
      BY <2>1, <2>4, <3>1, <3>2 DEF Until, ToSeconds, S!GetOAuthCode, S!Found, S!Has
    <3>4. y \in [client : Programs, until : Nat, used : BOOLEAN]
      <4>1. PICK v \in Nat : v = Y!Seconds(x.until)
        BY SecondsIs DEF CodeRow
      <4>2. y = [x EXCEPT !.until = v]
        BY <3>1, <4>1 DEF ToSeconds
      <4>3. QED
        BY <4>2 DEF CodeRow
    <3>5. /\ DOMAIN y = {"client", "until", "used"}
          /\ y = [client |-> y.client, until |-> y.until, used |-> y.used]
      BY <3>4
    <3>6. Y!Attr(y, "client", "") = y.client /\ Y!Attr(y, "until", 0) = y.until
      BY <3>5 DEF Y!Attr
    <3>7. Y!GetOAuthCode(dyn, k) = [client |-> y.client, until |-> y.until, used |-> y.used]
      BY <2>1, <2>3, <2>4, <3>1, <3>6 DEF Y!GetOAuthCode, Y!Has
    <3>8. QED
      BY <3>3, <3>5, <3>7
  <2>5. CASE k \notin DOMAIN s
    <3>1. S!GetOAuthCode(sql, k) = NotFound /\ Y!GetOAuthCode(dyn, k) = NotFound
      BY <2>1, <2>3, <2>5 DEF S!GetOAuthCode, S!Found, S!Has, Y!GetOAuthCode, Y!Has
    <3>2. QED
      BY <1>2, <3>1
  <2>6. QED
    BY <2>4, <2>5
<1>4. ASSUME NEW k \in Token
      PROVE  Until(S!GetOAuthToken(sql, k)) = Y!GetOAuthToken(dyn, k)
  <2>1. PICK s, d, U : s = sql["tokens"] /\ d = dyn["tokens"] /\ TokensOK(s, d, U)
    BY DEF BackInv, TablesOK, Table, PartOK
  <2>2. /\ k \in DOMAIN s <=> k \in DOMAIN d
        /\ k \in DOMAIN s => s[k] \in TokenRow /\ d[k] = ToSeconds(s[k])
    BY <2>1 DEF TokensOK, ToSeconds
  <2>3. CASE k \in DOMAIN s
    <3>1. PICK x \in TokenRow : x = s[k] /\ d[k] = ToSeconds(x)
      BY <2>2, <2>3
    <3>2. x # NotFound
      BY BackendsAssumption
    <3>3. S!GetOAuthToken(sql, k) = x /\ Y!GetOAuthToken(dyn, k) = ToSeconds(x)
      BY <2>1, <2>2, <2>3, <3>1 DEF S!GetOAuthToken, S!Found, S!Has, Y!GetOAuthToken, Y!Has
    <3>4. QED
      BY <3>2, <3>3 DEF Until, ToSeconds
  <2>4. CASE k \notin DOMAIN s
    <3>1. S!GetOAuthToken(sql, k) = NotFound /\ Y!GetOAuthToken(dyn, k) = NotFound
      BY <2>1, <2>2, <2>4 DEF S!GetOAuthToken, S!Found, S!Has, Y!GetOAuthToken, Y!Has
    <3>2. QED
      BY <1>2, <3>1
  <2>5. QED
    BY <2>3, <2>4
<1>5. QED
  BY <1>1, <1>3, <1>4, Zenon DEF OAuthAgrees

\* Whatever calls the program makes, a read answers alike on both databases,
\* save for the rows that the history names.
THEOREM BackendsAgree == MCSpec => []ReadsAgree
<1>1. BackInv => ReadsAgree
  BY AccountsSame, MailSame, DirectorySame, RepliesSame, DomainsSame, OAuthSame DEF ReadsAgree
<1>2. QED
  BY <1>1, TogetherInv, PTL

-----------------------------------------------------------------------------
(* Where the filters file a message.                                       *)

\* A set of natural numbers that is not empty has a least element.
LEMMA LeastNumber ==
  ASSUME NEW T \in SUBSET Nat, T # {}
  PROVE  \E n \in T : \A m \in T : n <= m
<1> DEFINE R == OpToRel(<, Nat)
<1>1. \E n \in T : \A m \in T : ~(<<m, n>> \in R)
  <2>1. IsWellFoundedOn(R, Nat)
    BY NatLessThanWellFounded, Zenon
  <2> HIDE DEF R
  <2>2. QED
    BY <2>1, WFMin, Zenon
<1>2. \A m, n \in Nat : m < n => <<m, n>> \in R
  BY Zenon DEF OpToRel
<1> HIDE DEF R
<1>3. \A m, n \in T : ~(<<m, n>> \in R) => n <= m
  BY <1>2
<1>4. QED
  BY <1>1, <1>3

\* A set that holds 0, and with a number its successor up to n, holds 0 .. n:
\* otherwise the least number it lacks would follow one it holds.
LEMMA UpTo ==
  ASSUME NEW n \in Nat, NEW G, 0 \in G, \A d \in 0 .. n : d \in G /\ d < n => d + 1 \in G
  PROVE  0 .. n \subseteq G
<1> DEFINE Lacks == {e \in 0 .. n : e \notin G}
<1>1. ASSUME Lacks # {} PROVE FALSE
  <2>1. PICK d \in Lacks : \A m \in Lacks : d <= m
    <3>1. Lacks \in SUBSET Nat
      OBVIOUS
    <3>2. QED
      BY <1>1, <3>1, LeastNumber
  <2>2. d # 0 /\ d - 1 \in 0 .. n /\ d - 1 < n /\ (d - 1) + 1 = d
    BY <2>1
  <2>3. d - 1 \in G
    BY <2>1, <2>2
  <2>4. QED
    BY <2>1, <2>2, <2>3
<1>2. QED
  BY <1>1

\* What the i-th filter of a list makes of what those before it came to.
After(filters, m, i, r) ==
  IF Fires(filters[i], m) THEN applyActions(filters[i].actions, r) ELSE r

\* The loop of Apply is well defined: it goes from one filter to the next.
LEMMA ApplySteps ==
  ASSUME NEW filters, NEW m, Len(filters) \in Nat
  PROVE  \E result :
           /\ result[0] = NoChange
           /\ \A i \in 1 .. Len(filters) : result[i] = After(filters, m, i, result[i - 1])
           /\ Apply(filters, m) = result[Len(filters)]
<1> DEFINE Built(n, f) == f = [i \in 0 .. n |-> IF i = 0 THEN NoChange
                                                ELSE After(filters, m, i, f[i - 1])]
           Good == {n \in Nat : \E f : Built(n, f)}
<1>1. 0 \in Good
  <2>1. Built(0, [i \in 0 .. 0 |-> NoChange])
    OBVIOUS
  <2>2. QED
    BY <2>1
<1>2. ASSUME NEW n \in Good PROVE n + 1 \in Good
  <2>1. PICK f : Built(n, f)
    OBVIOUS
  <2> DEFINE g == [i \in 0 .. n + 1 |-> IF i = n + 1 THEN After(filters, m, n + 1, f[n]) ELSE f[i]]
  <2>2. n \in Nat /\ \A i \in 0 .. n : f[i] = IF i = 0 THEN NoChange
                                              ELSE After(filters, m, i, f[i - 1])
    BY <2>1
  <2>3. ASSUME NEW i \in 0 .. n + 1
        PROVE  g[i] = IF i = 0 THEN NoChange ELSE After(filters, m, i, g[i - 1])
    <3>1. CASE i = n + 1
      BY <2>2, <3>1
    <3>2. CASE i # n + 1
      <4>1. i \in 0 .. n /\ (i # 0 => i - 1 \in 0 .. n + 1 /\ i - 1 # n + 1)
        BY <2>2, <3>2
      <4>2. QED
        BY <2>2, <3>2, <4>1
    <3>3. QED
      BY <3>1, <3>2
  <2>4. Built(n + 1, g)
    BY <2>3
  <2>5. n + 1 \in Nat
    BY <2>2
  <2>6. QED
    BY <2>4, <2>5
<1>3. Len(filters) \in Good
  <2> HIDE DEF Good
  <2>1. 0 .. Len(filters) \subseteq Good
    BY <1>1, <1>2, UpTo
  <2>2. QED
    BY <2>1
<1> DEFINE result == CHOOSE f : Built(Len(filters), f)
<1>4. Built(Len(filters), result)
  <2>1. \E f : Built(Len(filters), f)
    BY <1>3
  <2>2. QED
    BY <2>1
<1>5. Apply(filters, m) = result[Len(filters)]
  BY DEF Apply, After
<1> HIDE DEF result
<1>6. \A i \in 0 .. Len(filters) : result[i] = IF i = 0 THEN NoChange
                                               ELSE After(filters, m, i, result[i - 1])
  BY <1>4
<1>7. QED
  BY <1>5, <1>6

\* The filters among the first n that fire.
Firing(filters, m, n) == {i \in 1 .. n : Fires(filters[i], m)}

\* What filters have done to a message when those numbered F have fired: it is
\* marked as any of them says, and goes where one of them moves it, if any does.
Sums(filters, F, r) ==
  /\ r \in [folder : {r.folder}, read : BOOLEAN, delete : BOOLEAN, flag : BOOLEAN]
  /\ r.read <=> \E i \in F : filters[i].actions.read
  /\ r.delete <=> \E i \in F : filters[i].actions.delete
  /\ r.flag <=> \E i \in F : filters[i].actions.flag
  /\ \/ r.folder = "" /\ \A i \in F : filters[i].actions.move = ""
     \/ \E i \in F : filters[i].actions.move # "" /\ r.folder = filters[i].actions.move

\* One more filter that fires.
LEMMA OneMore ==
  ASSUME NEW filters, NEW F, NEW x, Sums(filters, F, x), NEW k,
         NEW y, y = applyActions(filters[k].actions, x)
  PROVE  Sums(filters, F \cup {k}, y)
<1>1. PICK act : act = filters[k].actions
  OBVIOUS
<1>2. y = [folder |-> IF act.move = "" THEN x.folder ELSE act.move, read |-> x.read \/ act.read,
           delete |-> x.delete \/ act.delete, flag |-> x.flag \/ act.flag]
  BY <1>1 DEF applyActions
<1>3. /\ y.folder = IF act.move = "" THEN x.folder ELSE act.move
      /\ y.read <=> x.read \/ act.read
      /\ y.delete <=> x.delete \/ act.delete
      /\ y.flag <=> x.flag \/ act.flag
      /\ y \in [folder : {y.folder}, read : BOOLEAN, delete : BOOLEAN, flag : BOOLEAN]
  <2>1. PICK folder, read, delete, flag :
          /\ folder = IF act.move = "" THEN x.folder ELSE act.move
          /\ read \in BOOLEAN /\ read = (x.read \/ act.read)
          /\ delete \in BOOLEAN /\ delete = (x.delete \/ act.delete)
          /\ flag \in BOOLEAN /\ flag = (x.flag \/ act.flag)
    <3>1. \A P, Q : (P \/ Q) \in BOOLEAN
      OBVIOUS
    <3>2. QED
      BY <3>1, Zenon
  <2>2. y = [folder |-> folder, read |-> read, delete |-> delete, flag |-> flag]
    BY <1>2, <2>1, Zenon
  <2>3. /\ y.folder = folder /\ y.read = read /\ y.delete = delete /\ y.flag = flag
        /\ y \in [folder : {y.folder}, read : BOOLEAN, delete : BOOLEAN, flag : BOOLEAN]
    <3>1. read \in BOOLEAN /\ delete \in BOOLEAN /\ flag \in BOOLEAN
      BY <2>1
    <3>2. y.folder = folder /\ y.read = read /\ y.delete = delete /\ y.flag = flag
      BY <2>2
    <3>3. QED
      BY <2>2, <3>1, <3>2
  <2>4. QED
    BY <2>1, <2>3, Zenon
<1>4. /\ y.read <=> \E i \in F \cup {k} : filters[i].actions.read
      /\ y.delete <=> \E i \in F \cup {k} : filters[i].actions.delete
      /\ y.flag <=> \E i \in F \cup {k} : filters[i].actions.flag
  BY <1>1, <1>3 DEF Sums
<1>5. \/ y.folder = "" /\ \A i \in F \cup {k} : filters[i].actions.move = ""
      \/ \E i \in F \cup {k} : /\ filters[i].actions.move # ""
                              /\ y.folder = filters[i].actions.move
  BY <1>1, <1>3 DEF Sums
<1>6. QED
  BY <1>3, <1>4, <1>5 DEF Sums

\* What Apply computes depends on the filters that fire, and on their order in
\* the choice of the folder only.
LEMMA Outcome ==
  ASSUME NEW filters, NEW m, Len(filters) \in Nat
  PROVE  Sums(filters, Firing(filters, m, Len(filters)), Apply(filters, m))
<1> DEFINE n == Len(filters)
           Fire(k) == Firing(filters, m, k)
<1>1. PICK result : /\ result[0] = NoChange
                    /\ \A i \in 1 .. n : result[i] = After(filters, m, i, result[i - 1])
                    /\ Apply(filters, m) = result[n]
  BY ApplySteps, Zenon
<1> DEFINE G == {k \in 0 .. n : Sums(filters, Fire(k), result[k])}
<1>2. 0 \in G
  <2>1. Fire(0) = {}
    BY DEF Firing
  <2>2. Sums(filters, {}, NoChange)
    BY DEF NoChange, Sums
  <2>3. QED
    BY <1>1, <2>1, <2>2
<1>3. ASSUME NEW d \in 0 .. n, d \in G, d < n PROVE d + 1 \in G
  <2>1. PICK k : k = d + 1
    OBVIOUS
  <2>2. k \in 1 .. n /\ k - 1 = d /\ k \in 0 .. n
    BY <1>3, <2>1
  <2>3. result[k] = After(filters, m, k, result[d])
    BY <1>1, <2>2
  <2>4. Sums(filters, Fire(d), result[d])
    BY <1>3
  <2>5. Sums(filters, Fire(k), result[k])
    <3>1. CASE Fires(filters[k], m)
      <4>1. Fire(k) = Fire(d) \cup {k}
        BY <2>1, <3>1 DEF Firing
      <4>2. result[k] = applyActions(filters[k].actions, result[d])
        BY <2>3, <3>1 DEF After
      <4>3. Sums(filters, Fire(d) \cup {k}, result[k])
        BY <2>4, <4>2, OneMore, Zenon
      <4>4. QED
        BY <4>1, <4>3, Zenon
    <3>2. CASE ~Fires(filters[k], m)
      <4>1. Fire(k) = Fire(d)
        BY <2>1, <3>2 DEF Firing
      <4>2. result[k] = result[d]
        BY <2>3, <3>2 DEF After
      <4>3. QED
        BY <2>4, <4>1, <4>2
    <3>3. QED
      BY <3>1, <3>2
  <2>6. QED
    BY <2>1, <2>2, <2>5
<1>4. n \in G
  <2> HIDE DEF G
  <2>1. 0 .. n \subseteq G
    BY <1>2, <1>3, UpTo
  <2>2. QED
    BY <2>1
<1>5. QED
  BY <1>1, <1>4

\* The values of a function on a finite set are finitely many.
LEMMA Values ==
  ASSUME NEW f, IsFiniteSet(DOMAIN f)
  PROVE  IsFiniteSet({f[i] : i \in DOMAIN f})
<1> DEFINE D == DOMAIN f
           T == {f[i] : i \in D}
           g == [i \in D |-> f[i]]
<1>1. g \in [D -> T] /\ \A t \in T : \E i \in D : g[i] = t
  OBVIOUS
<1>2. g \in Surjection(D, T)
  BY <1>1 DEF Surjection
<1>3. QED
  BY <1>2, FS_Surjection

\* A list that a database returns has each of the filters once.
LEMMA Listed ==
  ASSUME NEW T, IsFiniteSet(T), NEW s, s \in S!SetToSeqs(T) \/ s \in Y!SetToSeqs(T)
  PROVE  Len(s) \in Nat /\ DOMAIN s = 1 .. Len(s) /\ {s[i] : i \in DOMAIN s} = T
<1>1. PICK n : n = Cardinality(T)
  OBVIOUS
<1>2. n \in Nat /\ IsFiniteSet(1 .. n) /\ Cardinality(1 .. n) = n
  BY <1>1, FS_CardinalityType, FS_Interval
<1>3. s \in [1 .. n -> T] /\ \A i, j \in 1 .. n : i # j => s[i] # s[j]
  BY <1>1, Counting DEF S!SetToSeqs, Y!SetToSeqs
<1>4. s \in Injection(1 .. n, T)
  BY <1>3 DEF Injection, IsInjective
<1>5. s \in Surjection(1 .. n, T)
  BY <1>1, <1>2, <1>4, FS_Injection
<1>6. \A f \in T : \E i \in 1 .. n : s[i] = f
  BY <1>5 DEF Surjection
<1>7. Len(s) = n
  BY <1>2, <1>3
<1>8. QED
  BY <1>2, <1>3, <1>6, <1>7

\* Filters that both databases have filed alike are the same filters.
LEMMA SameFilters ==
  ASSUME BackInv, \A id \in FilterId : ~Drifted("filters", id), NEW e,
         NEW T, T = {f \in S!Rows(sql, "filters") : f.user = e}
  PROVE  IsFiniteSet(T) /\ T = {f \in Y!Rows(dyn, "filters") : f.user = e}
<1>1. PICK s, d : s = sql["filters"] /\ d = dyn["filters"]
  OBVIOUS
<1>2. FiltersOK(s, d, Apart("filters"), Handed("filters"))
  BY <1>1 DEF BackInv, TablesOK, PartOK, Table
<1>3. \A id \in FilterId : <<"filters", id>> \notin Apart("filters")
  BY DEF Drifted, Apart
<1>4. /\ IsFiniteSet(DOMAIN s)
      /\ \A id \in DOMAIN s : id \in FilterId /\ s[id].id = id
      /\ \A k \in DOMAIN d : k[2] \in FilterId
  BY <1>2 DEF FiltersOK
<1>5. /\ \A id \in DOMAIN s : <<s[id].user, id>> \in DOMAIN d
      /\ \A k \in DOMAIN d : k[2] \in DOMAIN s /\ d[k] = s[k[2]]
  BY <1>2, <1>3, <1>4 DEF FiltersOK
<1>6. T = {f \in {s[id] : id \in DOMAIN s} : f.user = e}
  BY <1>1 DEF S!Rows
<1>7. {f \in Y!Rows(dyn, "filters") : f.user = e} = {f \in {d[k] : k \in DOMAIN d} : f.user = e}
  BY <1>1 DEF Y!Rows
<1>8. {s[id] : id \in DOMAIN s} = {d[k] : k \in DOMAIN d}
  <2>1. ASSUME NEW id \in DOMAIN s PROVE \E k \in DOMAIN d : s[id] = d[k]
    <3>1. <<s[id].user, id>> \in DOMAIN d /\ <<s[id].user, id>>[2] = id
      BY <1>5
    <3>2. QED
      BY <1>5, <3>1
  <2>2. QED
    BY <1>5, <2>1
<1>9. IsFiniteSet({s[id] : id \in DOMAIN s})
  BY <1>4, Values
<1>10. QED
  BY <1>6, <1>7, <1>8, <1>9, FS_Subset

\* PostgreSQL and DynamoDB hand the filters over in different orders; what
\* filter.Apply makes of them differs by the folder at most, and only where
\* two filters that fire move the message to different ones.
LEMMA FiledAlike == BackInv => FilingExplained
<1> SUFFICES ASSUME BackInv, NEW e \in Email, NEW m \in Mail,
                    \A id \in FilterId : ~Drifted("filters", id),
                    NEW s \in S!ListFilters(sql, e), NEW y \in Y!ListFilters(dyn, e)
             PROVE  LET moves == {s[i].actions.move :
                                    i \in {j \in DOMAIN s : Fires(s[j], m)}} \ {""}
                    IN /\ [Apply(s, m) EXCEPT !.folder = ""] = [Apply(y, m) EXCEPT !.folder = ""]
                       /\ Apply(s, m).folder # Apply(y, m).folder => Cardinality(moves) > 1
  BY Zenon DEF FilingExplained
<1> DEFINE moves == {s[i].actions.move : i \in {j \in DOMAIN s : Fires(s[j], m)}} \ {""}
<1>1. PICK T : T = {f \in S!Rows(sql, "filters") : f.user = e}
  OBVIOUS
<1>2. IsFiniteSet(T) /\ T = {f \in Y!Rows(dyn, "filters") : f.user = e}
  BY <1>1, SameFilters
<1>3. s \in S!SetToSeqs(T) /\ y \in Y!SetToSeqs(T)
  BY <1>1, <1>2 DEF S!ListFilters, Y!ListFilters
<1>4. /\ Len(s) \in Nat /\ DOMAIN s = 1 .. Len(s) /\ {s[i] : i \in DOMAIN s} = T
      /\ Len(y) \in Nat /\ DOMAIN y = 1 .. Len(y) /\ {y[i] : i \in DOMAIN y} = T
  BY <1>2, <1>3, Listed
<1>5. PICK p, q, A, B : /\ p = Apply(s, m) /\ q = Apply(y, m)
                        /\ A = Firing(s, m, Len(s)) /\ B = Firing(y, m, Len(y))
  OBVIOUS
<1>6. /\ \A i \in A : i \in DOMAIN s /\ \E j \in B : y[j] = s[i]
      /\ \A j \in B : \E i \in A : s[i] = y[j]
  BY <1>4, <1>5 DEF Firing
<1>7. Sums(s, A, p)
  BY <1>4, <1>5, Outcome
<1>8. Sums(y, B, q)
  BY <1>4, <1>5, Outcome
<1>9. /\ (\E i \in A : s[i].actions.read) <=> (\E i \in B : y[i].actions.read)
      /\ (\E i \in A : s[i].actions.delete) <=> (\E i \in B : y[i].actions.delete)
      /\ (\E i \in A : s[i].actions.flag) <=> (\E i \in B : y[i].actions.flag)
  BY <1>6
<1>10. [p EXCEPT !.folder = ""] = [q EXCEPT !.folder = ""]
  <2>1. p.read = q.read /\ p.delete = q.delete /\ p.flag = q.flag
    BY <1>7, <1>8, <1>9 DEF Sums
  <2>2. /\ p = [folder |-> p.folder, read |-> p.read, delete |-> p.delete, flag |-> p.flag]
        /\ q = [folder |-> q.folder, read |-> q.read, delete |-> q.delete, flag |-> q.flag]
    BY <1>7, <1>8 DEF Sums
  <2>3. QED
    BY <2>1, <2>2
<1>11. ASSUME NEW u, u = p.folder, NEW v, v = q.folder, u # v PROVE Cardinality(moves) > 1
  <2>1. \A i \in A : s[i].actions.move # "" => s[i].actions.move \in moves
    BY <1>4, <1>5, <1>6 DEF Firing
  <2>2. u \in moves /\ v \in moves
    BY <1>6, <1>7, <1>8, <1>11, <2>1 DEF Sums
  <2> HIDE DEF moves
  <2>3. IsFiniteSet(moves)
    <3>1. PICK f : f = [i \in 1 .. Len(s) |-> s[i].actions.move]
      OBVIOUS
    <3>2. DOMAIN f = 1 .. Len(s)
      BY <3>1
    <3>3. IsFiniteSet(1 .. Len(s))
      <4>1. 1 \in Int /\ Len(s) \in Int
        BY <1>4
      <4>2. QED
        BY <4>1, FS_Interval
    <3>4. IsFiniteSet({f[i] : i \in DOMAIN f})
      BY <3>2, <3>3, Values
    <3>5. moves \subseteq {f[i] : i \in DOMAIN f}
      BY <1>4, <3>1 DEF moves
    <3>6. QED
      BY <3>4, <3>5, FS_Subset
  <2>4. Cardinality({u} \cup {v}) = 2
    <3>1. IsFiniteSet({u}) /\ Cardinality({u}) = 1
      BY FS_Singleton
    <3>2. v \notin {u}
      BY <1>11
    <3>3. Cardinality({u} \cup {v}) = Cardinality({u}) + 1
      BY <3>1, <3>2, FS_AddElement, Zenon
    <3>4. QED
      BY <3>1, <3>3
  <2>5. Cardinality({u} \cup {v}) <= Cardinality(moves) /\ Cardinality(moves) \in Nat
    <3>1. {u} \cup {v} \in SUBSET moves
      BY <2>2
    <3>2. QED
      BY <2>3, <3>1, FS_Subset, FS_CardinalityType
  <2>6. QED
    BY <2>4, <2>5
<1>12. QED
  BY <1>5, <1>10, <1>11

\* The order of the filters matters for the folder only, and only where two
\* filters disagree (filter.Apply over ListFilters of either database).
THEOREM FilingIsExplained == MCSpec => []FilingExplained
<1>1. QED
  BY FiledAlike, TogetherInv, PTL
=============================================================================
