------------------------------ MODULE Backends ------------------------------
(***************************************************************************)
(* The two implementations of the Database interface side by side: every   *)
(* call of the program is made on PostgreSQL and on DynamoDB, and neither  *)
(* fails.  They are meant to be exchangeable; "drift" collects the rows    *)
(* for which the program has made a call the two do not answer alike, and  *)
(* the properties say that there are no others.                            *)
(***************************************************************************)
EXTENDS FilterRules, Database, FiniteSets

CONSTANTS Email, Name, Hash,
          Message,        \* the messages a mail family may save
          Folder,
          Alias, Target,  \* alias addresses, and the target sets they get
          List,
          FilterId,       \* in the order of their strings
          Body,           \* filters, without id and user
          Mail,           \* messages filters are asked about
          MaxNow, Cooldown,
          Status,         \* states of SES and DKIM
          Client, Code, Token

Table == {"users", "messages", "aliases", "lists", "members", "filters",
          "replies", "log", "contacts", "domains", "clients", "codes", "tokens"}
Domains == {DomainOf(e) : e \in Email}
Ids == {m.id : m \in Message}
Folders == {m.folder : m \in Message}
Texts == {m.text : m \in Message}
Programs == {c.client : c \in Client}

\* The rows of four tables, for the types and for what a missing row is not.
UserRow == [email : Email, domain : Domains, name : Name, hash : Hash, status : {"", "A", "S"}]
MessageRow == [id : Ids, owner : Email, folder : Folders, seen : BOOLEAN,
               received : Nat, text : Texts, deleted : BOOLEAN]
CodeRow == [client : Programs, until : Nat, used : BOOLEAN]
TokenRow == [client : Programs, until : Nat]

\* Ids are random and never blank; a read that finds nothing returns no row.
ASSUME BackendsAssumption ==
  /\ MaxNow \in Nat /\ Cooldown \in Nat
  /\ Message \subseteq [id : Ids, owner : Email, folder : Folders, seen : BOOLEAN,
                        received : Nat, text : Texts]
  /\ "" \notin Ids
  /\ FilterId \subseteq Nat
  /\ \A b \in Body : b = [priority |-> b.priority, conditions |-> b.conditions,
                          actions |-> b.actions, enabled |-> b.enabled]
  /\ NotFound \notin UserRow /\ NotFound \notin MessageRow
  /\ NotFound \notin CodeRow /\ NotFound \notin TokenRow

VARIABLES sql,     \* the PostgreSQL tables
          dyn,     \* the DynamoDB tables
          now,     \* the clock, in ticks
          spent,   \* (history) random ids handed out; they do not repeat
          drift    \* (history) <<table, key>> of the rows that may differ

backVars == <<sql, dyn, now, spent, drift>>

BackInit == /\ sql = [t \in Table |-> <<>>]
            /\ dyn = [t \in Table |-> <<>>]
            /\ now = 0
            /\ spent = {}
            /\ drift = {}

BackTypeOK ==
  /\ DOMAIN sql = Table /\ DOMAIN dyn = Table
  /\ DOMAIN sql["users"] \subseteq Email /\ DOMAIN dyn["users"] \subseteq Email
  /\ DOMAIN sql["messages"] \subseteq Ids
  /\ \A key \in DOMAIN dyn["messages"] : key[1] \in Email /\ key[3] \in Ids
  /\ DOMAIN sql["members"] \cup DOMAIN dyn["members"] \subseteq List \X Email
  /\ DOMAIN sql["aliases"] \cup DOMAIN dyn["aliases"] \subseteq Alias
  /\ DOMAIN sql["filters"] \subseteq FilterId
  /\ \A x \in drift \cup spent : x[1] \in Table
  /\ now \in 0..MaxNow

\* Both backends run a call; the rows D drift apart, the rows H meet again.
Both(x, y, D, H) == /\ sql' = x.db
                    /\ dyn' = y.db
                    /\ drift' = (drift \ H) \cup D
                    /\ UNCHANGED now
Keep == UNCHANGED spent
Fresh(t, id) == <<t, id>> \notin spent /\ spent' = spent \cup {<<t, id>>}
If(cond, D) == IF cond THEN D ELSE {}
\* A create on a key that is taken: refused by one, overwritten by the other.
Taken(t, key, row) == If(key \in DOMAIN sql[t] /\ sql[t][key] # row, {<<t, key>>})
\* An update of a row that is not there: nothing for one, a new item for the other.
Missing(t, key) == If(key \notin DOMAIN sql[t], {<<t, key>>})

-----------------------------------------------------------------------------

\* A blank password is a new password on PostgreSQL and none on DynamoDB.
UserCalls ==
  /\ \E e \in Email, n \in Name, h \in Hash \ {""} :
       Both(S!CreateUser(sql, e, n, h), Y!CreateUser(dyn, e, n, h), {}, {})
  /\ Keep
UserEdits ==
  /\ \E e \in Email, n \in Name, h \in Hash :
       Both(S!UpdateUser(sql, e, n, h), Y!UpdateUser(dyn, e, n, h),
            Missing("users", e) \cup If(h = "", {<<"users", e>>}), {})
  /\ Keep
UserStatus ==
  /\ \E e \in Email : Both(S!UpdateUserStatus(sql, e, "S"),
                           Y!UpdateUserStatus(dyn, e, "S"), {}, {})
  /\ Keep
UserDeletes ==
  /\ \E e \in Email : Both(S!DeleteUser(sql, e), Y!DeleteUser(dyn, e),
                           {}, {<<"users", e>>})
  /\ Keep
AccountCalls == UserCalls \/ UserEdits \/ UserStatus \/ UserDeletes

-----------------------------------------------------------------------------

\* A message received off the full second is not found again under the key
\* that is put together from what was read back.
OffSecond(id) ==
  If(\E m \in Y!ById(dyn, id) : \E key \in DOMAIN dyn["messages"] :
       dyn["messages"][key] = m /\ key # Y!KeyOf(m), {<<"messages", id>>})
Left(keys) == {<<"messages", k[3]>> : k \in keys}

Save == \E m \in Message : /\ Fresh("messages", m.id)
                           /\ Both(S!SaveMessage(sql, m), Y!SaveMessage(dyn, m), {}, {})
Mark == \E id \in Ids :
          /\ \/ Both(S!MarkSeen(sql, id), Y!MarkSeen(dyn, id), OffSecond(id), {})
             \/ Both(S!MarkDeleted(sql, id), Y!MarkDeleted(dyn, id), OffSecond(id), {})
          /\ Keep
Expunge == \E id \in Ids :
            /\ Both(S!DeleteMessage(sql, id), Y!DeleteMessage(dyn, id), OffSecond(id), {})
            /\ Keep
RemoveAll == \E e \in Email : \E rest \in SUBSET Y!Owned(dyn, e) :
               /\ Both(S!DeleteUserMessages(sql, e), Y!DeleteUserMessages(dyn, e, rest),
                       Left(rest), Left(Y!Owned(dyn, e)))
               /\ Keep
MailCalls == Save \/ Mark \/ Expunge \/ RemoveAll

-----------------------------------------------------------------------------

AliasCreates ==
  /\ \E a \in Alias, T \in Target :
       Both(S!CreateAlias(sql, a, T), Y!CreateAlias(dyn, a, T),
            Taken("aliases", a, [alias |-> a, targets |-> T]), {})
  /\ Keep
AliasUpdates ==
  /\ \E a \in Alias, T \in Target :
       Both(S!UpdateAlias(sql, a, T), Y!UpdateAlias(dyn, a, T), Missing("aliases", a), {})
  /\ Keep
AliasDeletes ==
  /\ \E a \in Alias : Both(S!DeleteAlias(sql, a), Y!DeleteAlias(dyn, a),
                           {}, {<<"aliases", a>>})
  /\ Keep
ListCreates ==
  /\ \E l \in List, e \in Email :
       Both(S!CreateMailingList(sql, l, e), Y!CreateMailingList(dyn, l, e),
            Taken("lists", l, [list |-> l, owner |-> e]), {})
  /\ Keep
ListDeletes ==
  /\ \E l \in List : \E rest \in SUBSET Y!Members(dyn, l) :
       Both(S!DeleteMailingList(sql, l), Y!DeleteMailingList(dyn, l, rest),
            {<<"members", key>> : key \in rest},
            {<<"lists", l>>} \cup {<<"members", key>> : key \in Y!Members(dyn, l)})
  /\ Keep
ListMemberCalls ==
  /\ \E l \in List, e \in Email :
       \/ Both(S!AddListMember(sql, l, e), Y!AddListMember(dyn, l, e),
               {}, {<<"members", <<l, e>>>>})
       \/ Both(S!RemoveListMember(sql, l, e), Y!RemoveListMember(dyn, l, e),
               {}, {<<"members", <<l, e>>>>})
  /\ Keep
DirectoryCalls == AliasCreates \/ AliasUpdates \/ AliasDeletes
                  \/ ListCreates \/ ListDeletes \/ ListMemberCalls

-----------------------------------------------------------------------------

FilterCreates ==
  \E id \in FilterId, e \in Email, b \in Body :
    LET f == S!Over([id |-> id, user |-> e], b)
    IN /\ Fresh("filters", id)
       /\ Both(S!CreateFilter(sql, f), Y!CreateFilter(dyn, f), {}, {})
FilterUpdates ==   \* of a filter that was read, and may be gone by now
  /\ \E id \in FilterId, e \in Email, b \in Body :
       LET f == S!Over([id |-> id, user |-> e], b)
       IN /\ <<"filters", id>> \in spent
          /\ id \in DOMAIN sql["filters"] => sql["filters"][id].user = e
          /\ Both(S!UpdateFilter(sql, f), Y!UpdateFilter(dyn, f), Missing("filters", id), {})
  /\ Keep
FilterDeletes ==
  /\ \E id \in FilterId :
       Both(S!DeleteFilter(sql, id), Y!DeleteFilter(dyn, id), {},
            If(Cardinality(Y!FilterKeys(dyn, id)) <= 1, {<<"filters", id>>}))
  /\ Keep
FilterCalls == FilterCreates \/ FilterUpdates \/ FilterDeletes

-----------------------------------------------------------------------------

ReplyCalls ==
  /\ \/ \E e \in Email, n \in Name :
          Both(S!SetAutoReply(sql, e, n), Y!SetAutoReply(dyn, e, n), {}, {})
     \/ \E e \in Email :
          Both(S!DeleteAutoReply(sql, e), Y!DeleteAutoReply(dyn, e), {}, {})
     \/ \E e, sender \in Email :
          Both(S!RecordAutoReplySent(sql, e, sender, now),
               Y!RecordAutoReplySent(dyn, e, sender, now), {}, {})
  /\ Keep
Tick == now < MaxNow /\ now' = now + 1 /\ UNCHANGED <<sql, dyn, spent, drift>>

-----------------------------------------------------------------------------

DomainCreates ==
  /\ \E d \in Domains, s, k \in Status :
       Both(S!CreateDomain(sql, d, s, k), Y!CreateDomain(dyn, d, s, k),
            Taken("domains", d, [domain |-> d, ses |-> s, dkim |-> k]), {})
  /\ Keep
DomainUpdates ==
  /\ \E d \in Domains, s, k \in Status :
       Both(S!UpdateDomainStatus(sql, d, s, k), Y!UpdateDomainStatus(dyn, d, s, k),
            Missing("domains", d), {})
  /\ Keep
DomainDeletes ==
  /\ \E d \in Domains : Both(S!DeleteDomain(sql, d), Y!DeleteDomain(dyn, d),
                             {}, {<<"domains", d>>})
  /\ Keep
DomainCalls == DomainCreates \/ DomainUpdates \/ DomainDeletes

ClientCalls ==
  \/ \E c \in Client : /\ Fresh("clients", c.id)
                       /\ Both(S!CreateOAuthClient(sql, c), Y!CreateOAuthClient(dyn, c), {}, {})
  \/ \E c \in Client : /\ Both(S!DeleteOAuthClient(sql, c.id),
                               Y!DeleteOAuthClient(dyn, c.id), {}, {})
                       /\ Keep
CodeCalls ==
  \/ \E k \in Code, c \in Client :
       /\ Fresh("codes", k)
       /\ Both(S!CreateOAuthCode(sql, k, c.client, now + Res),
               Y!CreateOAuthCode(dyn, k, c.client, now + Res), {}, {})
  \/ \E k \in Code : /\ Both(S!MarkOAuthCodeUsed(sql, k), Y!MarkOAuthCodeUsed(dyn, k),
                             Missing("codes", k), {})
                     /\ Keep
TokenCalls ==
  \/ \E k \in Token, c \in Client :
       /\ Fresh("tokens", k)
       /\ Both(S!CreateOAuthToken(sql, k, c.client, now + Res),
               Y!CreateOAuthToken(dyn, k, c.client, now + Res), {}, {})
  \/ \E k \in Token : /\ Both(S!DeleteOAuthToken(sql, k), Y!DeleteOAuthToken(dyn, k), {}, {})
                      /\ Keep
OAuthCalls == ClientCalls \/ CodeCalls \/ TokenCalls

BackNext == \/ AccountCalls \/ MailCalls \/ DirectoryCalls \/ FilterCalls
            \/ ReplyCalls \/ Tick \/ DomainCalls \/ OAuthCalls

BackSpec == BackInit /\ [][BackNext]_backVars

-----------------------------------------------------------------------------
(* Properties                                                              *)

Drifted(t, key) == <<t, key>> \in drift

\* An account as both backends know it: DynamoDB keeps no status.
Account(u) == IF u = NotFound THEN u ELSE [email |-> u.email, name |-> u.name, hash |-> u.hash]
AccountsAgree ==
  /\ \A e \in Email : Drifted("users", e) \/
       /\ Account(S!GetUser(sql, e)) = Account(Y!GetUser(dyn, e))
       /\ S!UserExistsByEmail(sql, e) = Y!UserExistsByEmail(dyn, e)
  /\ \A d \in Domains :
       {Account(u) : u \in {x \in S!ListUsersByDomain(sql, d) : ~Drifted("users", x.email)}}
       = {Account(u) : u \in {x \in Y!ListUsersByDomain(dyn, d) : ~Drifted("users", x.email)}}

\* DynamoDB returns the time of a message to the second.
Coarse(m) == IF m = NotFound THEN m ELSE [m EXCEPT !.received = Y!Seconds(@)]
Sound(M) == {m \in M : ~Drifted("messages", m.id)}
MailAgrees ==
  /\ \A id \in Ids : Drifted("messages", id) \/
       Coarse(S!GetMessage(sql, id)) = Y!GetMessage(dyn, id)
  /\ \A e \in Email, f \in Folder :
       {Coarse(m) : m \in Sound(S!ListMessages(sql, e, f))} = Sound(Y!ListMessages(dyn, e, f))
  /\ \A e \in Email : (\A id \in Ids : ~Drifted("messages", id)) =>
       /\ S!ListUserFolders(sql, e) = Y!ListUserFolders(dyn, e)
       /\ \A f \in Folder : S!CountUnread(sql, e, f) = Y!CountUnread(dyn, e, f)
       /\ \A w \in UNION {m.text : m \in Message} :
            {m.id : m \in S!SearchMessages(sql, e, w)} = {m.id : m \in Y!SearchMessages(dyn, e, w)}

DirectoryAgrees ==
  /\ \A a \in Alias : Drifted("aliases", a) \/ S!GetAlias(sql, a) = Y!GetAlias(dyn, a)
  /\ {x \in S!ListAliases(sql) : ~Drifted("aliases", x.alias)}
     = {x \in Y!ListAliases(dyn) : ~Drifted("aliases", x.alias)}
  /\ {x \in S!ListMailingLists(sql) : ~Drifted("lists", x.list)}
     = {x \in Y!ListMailingLists(dyn) : ~Drifted("lists", x.list)}
  /\ \A l \in List :
       /\ Drifted("lists", l) \/ S!GetMailingList(sql, l) = Y!GetMailingList(dyn, l)
       /\ Drifted("lists", l) \/ S!IsMailingList(sql, l) = Y!IsMailingList(dyn, l)
       /\ {e \in S!GetListMembers(sql, l) : ~Drifted("members", <<l, e>>)}
          = {e \in Y!GetListMembers(dyn, l) : ~Drifted("members", <<l, e>>)}

\* The second of a reply is all DynamoDB remembers: within one second of the
\* end of the cooldown the two may disagree.
RepliesAgree ==
  \A e, sender \in Email :
    LET s == S!HasAutoRepliedRecently(sql, e, sender, now, Cooldown)
        y == Y!HasAutoRepliedRecently(dyn, e, sender, now, Cooldown)
    IN /\ S!GetAutoReply(sql, e) = Y!GetAutoReply(dyn, e)
       /\ y => s
       /\ S!HasAutoRepliedRecently(sql, e, sender, now + Res - 1, Cooldown) => y

DomainsAgree ==
  /\ {x \in S!ListDomains(sql) : ~Drifted("domains", x.domain)}
     = {x \in Y!ListDomains(dyn) : ~Drifted("domains", x.domain)}
  /\ \A d \in Domains : Drifted("domains", d) \/ S!GetDomain(sql, d) = Y!GetDomain(dyn, d)

Until(x) == IF x = NotFound THEN x ELSE [x EXCEPT !.until = Y!Seconds(@)]
OAuthAgrees ==
  /\ \A c \in Client : S!GetOAuthClient(sql, c.client) = Y!GetOAuthClient(dyn, c.client)
  /\ \A k \in Code : Drifted("codes", k) \/ Until(S!GetOAuthCode(sql, k)) = Y!GetOAuthCode(dyn, k)
  /\ \A k \in Token : Until(S!GetOAuthToken(sql, k)) = Y!GetOAuthToken(dyn, k)

\* "Backends implement the full interface": whatever sequence of calls the
\* program has made, a read answers alike on both backends, save for the rows
\* on which an overwriting create, an update of a missing row, a blank
\* password, a message received off the full second or an unprocessed batch
\* has set them apart; a deletion of the row brings them together again.
ReadsAgree == /\ AccountsAgree /\ MailAgrees /\ DirectoryAgrees
              /\ RepliesAgree /\ DomainsAgree /\ OAuthAgrees

\* What the mark of a message that was not found under its key leaves behind
\* is never shown as a message, and no message PostgreSQL shows is missing on
\* DynamoDB: the drift of messages only ever keeps too much.
GhostsHidden ==
  \A e \in Email :
    /\ \A m \in Y!ListAllMessages(dyn, e) :
         "id" \in DOMAIN m /\ <<"messages", m.id>> \in spent
    /\ {m.id : m \in S!ListAllMessages(sql, e)} \subseteq {m.id : m \in Y!ListAllMessages(dyn, e)}

\* PostgreSQL applies the filters by falling priority, DynamoDB in the order
\* of their random ids, and the last move decides.  A message ends up in
\* different folders only when two of its filters move it to different ones;
\* what is marked read, flagged or deleted never differs.
FilingExplained ==
  \A e \in Email, m \in Mail :
    (\A id \in FilterId : ~Drifted("filters", id)) =>
      \A s \in S!ListFilters(sql, e), y \in Y!ListFilters(dyn, e) :
        LET moves == {s[i].actions.move : i \in {j \in DOMAIN s : Fires(s[j], m)}} \ {""}
        IN /\ [Apply(s, m) EXCEPT !.folder = ""] = [Apply(y, m) EXCEPT !.folder = ""]
           /\ Apply(s, m).folder # Apply(y, m).folder => Cardinality(moves) > 1
=============================================================================
