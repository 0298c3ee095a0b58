------------------------------- MODULE Tables -------------------------------
(***************************************************************************)
(* The two storage services under internal/store, as the code uses them.   *)
(* A database is a record of tables, a table a function from the keys that *)
(* are there to their rows, and a row a function from attribute names to   *)
(* values; an operation returns the database it leaves and whether it      *)
(* reports success.  PostgreSQL keeps its primary keys unique and updates  *)
(* only rows that exist.  DynamoDB's PutItem replaces the item and its     *)
(* UpdateItem creates the item it does not find.                           *)
(***************************************************************************)

Row(db, t, key) == IF key \in DOMAIN db[t] THEN db[t][key] ELSE <<>>
Has(db, t, key) == key \in DOMAIN db[t]
Rows(db, t) == {db[t][key] : key \in DOMAIN db[t]}

\* The value of an attribute; one the item lacks unmarshals to its zero value.
Attr(row, a, zero) == IF a \in DOMAIN row THEN row[a] ELSE zero

Done(db) == [db |-> db, ok |-> TRUE]
Refused(db) == [db |-> db, ok |-> FALSE]

\* The attributes that are written, over those the row had.
Over(new, row) ==
  [a \in DOMAIN new \cup DOMAIN row |-> IF a \in DOMAIN new THEN new[a] ELSE row[a]]
With(db, t, key, row) ==
  [db EXCEPT ![t] = [k \in DOMAIN @ \cup {key} |-> IF k = key THEN row ELSE @[k]]]
Without(db, t, keys) ==
  [db EXCEPT ![t] = [key \in DOMAIN @ \ keys |-> @[key]]]

-----------------------------------------------------------------------------
(* PostgreSQL                                                              *)

INSERT(db, t, key, row) ==
  IF Has(db, t, key) THEN Refused(db) ELSE Done(With(db, t, key, row))
INSERTorUPDATE(db, t, key, row) == Done(With(db, t, key, row))
UPDATE(db, t, key, row) ==
  Done(IF Has(db, t, key) THEN With(db, t, key, Over(row, db[t][key])) ELSE db)
DELETE(db, t, keys) == Done(Without(db, t, keys))

-----------------------------------------------------------------------------
(* DynamoDB                                                                *)

PutItem(db, t, key, item) == Done(With(db, t, key, item))
PutNewItem(db, t, key, item) ==
  IF Has(db, t, key) THEN Refused(db) ELSE PutItem(db, t, key, item)
UpdateItem(db, t, key, item) ==
  Done(With(db, t, key, Over(item, Row(db, t, key))))
DeleteItem(db, t, key) == Done(Without(db, t, {key}))
\* BatchWriteItem may hand some of the requests back as unprocessed.
BatchDelete(db, t, keys, unprocessed) == Done(Without(db, t, keys \ unprocessed))
=============================================================================
