# bdsmail: a TLA+ verification project

bdsmail is a mail server in Go: SMTP in and out, POP3 and IMAP, web pages and a
JSON API, CardDAV, an OAuth provider and a two-factor login, over one SQL or
DynamoDB database and one object bucket. This directory holds TLA+ models of it,
the TLC runs that check them on small instances, and proofs that TLAPS checks for
every value of the constants. `PROJECT.json` lists components, runs, hazards,
theorems, and the source lines each definition stands for.

## 1. Inventory

Paths are relative to `src/internal` unless they start with `src/`. All protocol
servers are goroutines of one process, one per connection, and share a `Store`:
a database handle, a bucket and the list of served domains. The code uses **no
transaction** anywhere, so every database or bucket call is an atomic step and
everything between two calls is an interleaving point.

| component | state | operations | correct when | model |
|---|---|---|---|---|
| mail storage (`store/store.go`, `database.go`, `bucket.go`) | `mail_content`, `mail_attachment`, bucket objects | saveAndDeliver, DeleteMessageFull, DeleteUserMessages | no message without its attachments, none that comes back, nothing left behind without a cause | `MailStore` implements `Mailbox` |
| database layer (`store/database.go`, `dynamodb.go`) | the other tables | some sixty calls, implemented twice | both implementations answer alike | `Tables`, `SqlStore`, `DynamoStore`, `Database`, `Backends` |
| directory (`store/store.go` ResolveRecipient, `web/api_handlers.go`) | users, aliases, lists, members | create and delete each, resolve | resolution ends, finds every account an address leads to and no other | `Directory` |
| SMTP server (`smtp/backend.go`) | session: user, from, to | AUTH, MAIL, RCPT, RSET, DATA | what was answered with 250 is kept, once, for the named recipients; only users relay; quarantine holds | `SmtpDelivery` |
| outbound relay (`smtp/relay.go`, `security/mtasts.go`, `dane.go`, `tlsrpt.go`) | goroutine per message, policy cache, TLS results | Send, sendToDomain, tryRelay, GetPolicy, the reporter | nil means delivered; no copy too many; TLS where it is due; results reported once | `Relay` implements `Courier` |
| auto-reply (`store/store.go` ProcessAutoReply) | settings, last reply per correspondent | check, send, record | one reply per correspondent in 24 h (`src/README.md:65`); an exchange ends | `AutoReply` |
| POP3 server (`pop3/server.go`) | user, list of messages, numbers to delete | USER, PASS, DELE, RSET, QUIT | mail goes only when its owner asked and committed | `MailAccess` |
| IMAP server (`imap/server.go`) | user, selected list, copies marked deleted | LOGIN, SELECT, EXAMINE, FETCH, STORE, CLOSE | the same | `MailAccess` |
| web pages and JSON API (`web/handlers.go`, `api_handlers.go`) | rows above | read, delete, contacts, sign in, administration | the same | `MailAccess`, `Contacts`, `TwoFactor`, `Domains`, `OAuth`, `Directory` |
| filters (`filter/engine.go`) | rules | Apply | the same filing whichever database returns the rules | `FilterRules` (used by `Backends`) |
| contacts and CardDAV (`carddav/server.go`) | contacts | PUT, DELETE, web create and delete | an answered PUT is stored; other users' cards stay | `Contacts` |
| lockout (`security/ratelimit.go`) | failures per address in memory | IsLockedOut, RecordAuthFailure, RecordAuthSuccess, cleanup | so many guesses and no more; a lockout ends | `RateLimiter` |
| two-factor login (`auth/auth.go`, `web/auth.go`) | secret, backup codes, login tokens, trusted devices, sessions | login, verify, set up, disable, revoke | tokens and codes are good once; no session without the second factor | `TwoFactor` |
| OAuth (`oauth/oauth.go`, `web/oauth_handlers.go`) | clients, codes, tokens | consent, token endpoint, user info | one token per code, for the user and program it was approved for | `OAuth` |
| domains, sign-up, domain users (`web/signup_handlers.go`, `domain_user_handlers.go`, `superadmin_handlers.go`, `admin/domain.go`) | domains, accounts, permissions, sign-ups, `cfg.Domains` | createSignup, provisionDomain, RefreshDomains, roles, deletions | the served list is the table; a ready domain has an owner, and one founder | `Domains` |
| checks (`security/checker.go` and the scanners it calls) | none | CheckInbound, CheckOutbound | the verdict decides folder or refusal | a choice in `SmtpDelivery` |
| MIME, DKIM, DNS, SES, certificates, start-up, Vue client | none or wiring | — | — | not modelled (section 8) |

How they interact. The SMTP server calls `ResolveRecipient` and `DistributeToList`
(directory), saves each copy through `saveAndDeliver` (storage), and starts a relay
goroutine for what goes out and an auto-reply goroutine for what comes in; both
send through `Relay.Send`. POP3, IMAP and web read rows with `ListMessages` and
remove them with `DeleteMessageFull`; nobody is told when a row changes, so every
reader works on a list that grows stale. Logins of the web pages, the JSON API and
SMTP share one rate limiter. Sessions, lockouts, policies and the list of served
domains live in memory and vanish with the process.

What is hard here, and where `PROJECT.json` lists it as a hazard line by line:

* rows and objects written call by call, with errors that are logged and dropped;
* deletion that overtakes the save of the same message;
* readers with old lists: QUIT, CLOSE and the web delete by ids read long before;
* command sequences that no client of good manners sends: PASS twice, LOGIN as
  somebody else over a selected folder, RSET between DELE and QUIT, STORE with a
  number beyond the folder;
* several addresses that lead to one mailbox, alias loops, lists that are deleted
  half way;
* acknowledgement against persistence: what a failing third save leaves behind,
  and what an answer lost after acceptance makes the relay do;
* check-then-act pairs, each of two database calls: login tokens, backup codes,
  authorization codes, contacts, automatic replies, failed logins, provisioning;
* two databases that treat missing and existing rows differently.

## 2. The modules

Each module names the source of every action in a comment; the lines are in `map`.
Operators whose remark begins with "Fault:" are plausible bugs of the code. They
are used by nothing: exchanged for the definition that follows them, each makes
one property fail, which shows that the property speaks about that code.

### Mail

**`Mailbox`** is the abstract specification of a mailbox as a reader sees it: a
message appears once, its readable attachments accumulate until a deletion is
asked for, it shrinks only after that, and once gone it is gone.

**`MailStore`** is the storage layer, one action per database or bucket call.
`content`, `attachment` and `bucket` are the two tables and the bucket; `pc`,
`cur`, `k` and `todo` are what a goroutine inside saveAndDeliver or
DeleteMessageFull holds. `SaveMessage`, `WriteBlob`, `SaveAttachment` are the
save, `ListAttachments`, `DeleteBlob`, `DeleteAttachmentsByMessage`,
`DeleteMessage` the deletion; the actions ending in `Fails` are their errors,
with what the code does about each (return, log, drop). An object write that
fails may have stored the object. `Crash` kills all goroutines. The keys
`<message>_<i>` become pairs, so two messages never share an object, as in the
code, where the id is a fresh uuid.

**`Directory`** holds users, aliases (the key `@domain` is the domain itself),
lists and members. `ResolveWith` is `ResolveRecipient` with its recursion turned
into levels: `Walk[d]` is the set of addresses the function is called with at
depth `d`; what is beyond the depth limit is returned unseen, as in the code.
`DeleteMailingList` is two statements and two actions; the first one's error is
dropped. `ResolveDespite` is the same resolution when some lookups fail, which the
code reads as "no such alias", "no such account".

**`SmtpDelivery`** extends `Directory` with the sessions. A `DATA` command is one
action for what the handler computes before its first write (`DataRefused`,
`DataRaw`, `DataOutbound`, `DataInbound`), one `Save`, `SkipCopy` or `SaveFails`
for every copy, `Done` for the start of the relay and `Answer` for the reply to
the client. A copy records why, for whom and through which recipient it is saved;
`Turn` is the order of the code (Sent, lists, others) and `Without` its
`delivered` and `seen` maps. The verdict of the checks, the effect of filters and
the failing lookup are choices. Go map iteration is a choice of the next copy.
While a message is handled administrators rest: the directory is read in one
step, since each recipient's lookups would otherwise be steps of their own.

**`Courier`** says what a caller of `Relay.Send` may go by: nil means that every
domain of the recipients has taken the message (an address without "@" has no
domain and falls out), an error that some have.

**`Relay`** is `Send` as a goroutine: `sendToDomain` picks the next domain in any
order, `GetPolicy` and `FetchPolicy` are the MTA-STS cache with its two critical
sections, `NextHost` the loop over MX hosts, and the actions of `tryRelay` one
attempt: no connection, no STARTTLS, a failed handshake, a certificate DANE
rejects, a refusal, an answer lost after the server took the message, and a QUIT
whose failure counts as the attempt's. `Retry` is the loop over attempts and
hosts. The reporter swaps the TLS results and mails a report per domain with
sends of its own, which record results in turn. A policy text is a list of key and
value pairs that `parseMTASTSPolicy` reads as the code does; a host name is the
sequence of its labels, as far as `matchMXPattern` looks at it.

**`AutoReply`** has the goroutines of `ProcessAutoReply`: `ReadRule`,
`CheckRecent`, `SendSimple`, `RecordSent`, over the tables of `SqlStore`. A reply
to a local user comes back as a letter, so that two absent users answer each
other; `Robot` are the addresses of the skip list. Sends do what `Courier` allows:
arrive, arrive twice, or fail with or without arriving.

**`MailAccess`** has the connections of POP3 and IMAP and the web pages over the
rows of one folder per account. `view` and `iview` are the lists read at PASS and
SELECT; POP3 deletes by number at QUIT, IMAP marks the row at STORE and removes
what this connection marked at CLOSE. One turn of each loop is one action, so
mail arrives and others delete in between. `parseSeqNum` takes a number outside
the folder for its first or last message, and clients type such numbers too.
`DeleteMessageFull` is a single step here, which succeeds or does not: its inner
steps are the subject of `MailStore`. Commands that only print (STAT, LIST, UIDL,
RETR, SEARCH, NOOP) are left out.

### Databases

**`Tables`** is what the code uses of either service: a PostgreSQL `INSERT` that
refuses a taken key and an `UPDATE` that changes only what is there, a DynamoDB
`PutItem` that replaces and an `UpdateItem` that creates. **`SqlStore`** and
**`DynamoStore`** are the methods of `database.go` and `dynamodb.go` as functions
from a database to a database, **`Database`** names the two as `S` and `Y`.
DynamoDB keys a message by owner, time and id, and the time read back has lost its
fraction of a second (`Res` ticks): `MarkSeen`, `MarkDeleted` and `DeleteMessage`
then miss the item, or make a new one.

**`Backends`** makes every call on both. `drift` collects the rows for which a call
was made that the two do not answer alike, each by a named cause (`Taken`,
`Missing`, `OffSecond`, `Left`, a blank password), and the properties say that
nothing else differs. **`FilterRules`** is `filter.Apply` as a recursion over the rules
in the order the database returns them.

**`Contacts`** runs CardDAV's PUT and DELETE, which read and then write, and the
web page, on either database.

### Who may do what

**`RateLimiter`** has the three critical sections of a login: `IsLockedOut`,
`CheckPassword`, `RecordAuthFailure` or `RecordAuthSuccess`, with `cleanup` and the
passing of time (`Ages`) beside them. Instead of a time the model keeps the age
of a lock, which stops growing once it cannot matter.

**`TwoFactor`** is one account, its login tokens, trusted devices and requests that
hold what they have read. Each set-up has a number that stands for its secret and
its backup codes. `Writes` marks the requests whose reading it makes stale.
`Restart` forgets sessions and requests.

**`OAuth`** is the consent page and the token endpoint over the tables of
`SqlStore`: `ReadCode`, `MarkOAuthCodeUsed`, `CreateOAuthToken`, `Answer`, the
errors of the two in the middle dropped.

**`Domains`** is sign-up and provisioning call by call, the two steps of
`RefreshDomains`, `RegisterDomain`, domain users and their roles, deletions and
restarts.

### Instances and proofs

`MCMailStore`, `MCDirectory`, `MCSmtpDelivery` and `MCMailAccess` give one module's
constants their values. `MCRelay` (`Relay`, `AutoReply`, `RateLimiter`),
`MCIdentity` (`TwoFactor`, `OAuth`, `Domains`) and `MCBackends` (`Backends` with its
seven groups of tables, `Contacts`) hold components that share no variable: `part`
says which one a behaviour is about, so that one run covers all without
multiplying their states. The modules `MailStoreProofs`, `SmtpDeliveryProofs`,
`MailAccessProofs`, `DirectoryProofs`, `DomainsProofs`, `RelayProofs` (about all of
`MCRelay`), `IdentityProofs` (about `MCIdentity`, on top of `DomainsProofs`) and
`BackendProofs` (about `MCBackends`) hold the theorems (section 5).

## 3. The runs

| run | instance | what it shows |
|---|---|---|
| `store` | 2 messages, 1 mailbox, up to 2 attachments, 2 goroutines; 744 000 states | a metadata row has its object (`MetadataHasBlob`), undisturbed messages are complete (`AttachmentsIntact`), everything left behind has a known cause (`OrphanBlobsExplained`, `OrphanRowsExplained`), the store refines `Mailbox` (`ImplementsMailbox`), deletions end (`DeletionCompletes`) |
| `directory` | 3 addresses in 2 domains, aliases for each and one catch-all, one list; 17 000 states up to symmetry | every alias graph of that size resolves to what it leads to (`ResolveFindsAccounts`); a new list starts empty except for what was written without one (`NewListIsEmpty`) |
| `smtp` | 2 accounts, 1 list, 1 outside address, 3 alias tables, one message of any kind, two plain ones in a row, or two sessions; 1.5 million states | accepted mail is kept (`AcceptedOutboundKept`, `AcceptedInboundKept`), once (`OneCopyEach`), for its recipients (`OnlyNamedRecipients`), from users only (`NoOpenRelay`), in Junk if quarantined (`QuarantineHolds`) |
| `access` | 2 mailboxes, 3 messages, 2 connections of each protocol, in three mixtures; 950 000 states up to symmetry | `RemovedWasAsked`, `OnlyProvenAccounts`, `MarkedIsPending`, `RemovedAtCommit` |
| `relay` | a user's send and a report, 2 domains; 2 users, a list, 2 goroutines, 2 letters, 1 fault; 2 addresses and 2 requests; 682 000 states together | `Relay` keeps `Courier`'s promise (`KeepsPromise`), speaks over TLS where it must (`ProtectedInTransit`), sends again only in doubt (`CopiesNeedDoubt`) and reports each result once (`EventsCountedOnce`); a second automatic reply needs a race or a failed record (`SecondReplyNeedsRace`) and the exchange of two absent users ends (`ExchangeEnds`); guesses are bounded (`GuessesBounded`) and lockouts end (`LockoutEnds`) |
| `identity` | 2 requests at a time, 2 login tokens, 2 set-ups or a set-up and a lost write; 2 codes, 2 tokens, 2 programs; 2 sign-ups of one domain; 2.1 million states up to symmetry | tokens, backup codes and authorization codes are good once save for the overlaps named (`UsedOnce`), the second factor is asked for (`SecondFactorAsked`), the served list is the table save while it is changing (`ServedExplained`), a ready domain has an owner and one founder save for the causes named (`OwnersExplained`) |
| `backends` | 2 users of one domain, 3 messages, 2 filters, 6 rules, one or two of everything else; 4 CardDAV requests | both databases read alike save for drifted rows (`ReadsAgree`), drift of mail shows nothing false and hides nothing (`GhostsHidden`), filing differs only where two rules move a message (`FilingExplained`), an answered PUT is stored (`AnsweredPutStored`) and leaves others' cards alone (`OthersUntouched`) |
| `catch_all`, `list_outbound`, `forward`, `examine`, `registered` | smaller instances of the same | the divergences of section 6 |

**Why the bounds are enough.** Two goroutines, requests or sends are the least that
can overtake each other, and most properties are about one object and whoever works
on it; a second object is there to be mixed up with the first.

* `store`: two attachments separate "the first", "the last" and "all"; more repeat
  the loop.
* `directory`: three addresses admit every shape that matters of alias graphs:
  chains, self loops, two-cycles with a tail, fans; the depth limit is the
  program's own 10, longer than any simple path.
* `smtp`: one header is empty, so that the envelope stands in for it, one names a
  list twice, an account and an outsider. A second message needs only the plain
  header, because what it may inherit is the envelope. Two sessions share only
  mailboxes.
* `access`: two messages in one box make numbers ambiguous once one is gone; the
  third belongs to somebody else. Numbers run from 0 to one beyond the folder: all
  others mean the same as these.
* `relay`: two attempts (the code has three) separate the last from one before it;
  one domain has two hosts, one of them outside its policy, and the other none.
  Each publishes two policies, so that a send may hold one that the cache has
  replaced. `DefaultAge` and `MaxClock` of 1 let a cached policy be fresh and
  expired. A cooldown of 1 in 3 moments lets a reply fall inside and outside it;
  the rules of the two users cover always, from and until. Two failures lock and
  two ticks unlock; ages run to five, where `cleanup` evicts.
* `identity`: `MaxSetups` 2 lets an old code meet a new secret; `MaxLost` 1 loses one
  write. Codes and tokens have a lifetime of 0 and the clock one tick, so that each
  is tried before and after its end. Of two accounts of one domain each signs up.
* `backends`: a second is two ticks (`Res`), so there is a full and a half one, and
  messages arrive on both; the cooldown of 3 ticks ends off the second.

Bounds in guards: `MaxAtt` (attachments), `MaxTries` (how often a message is sent),
`Attempts`, `MaxClock`, the set `Report` (sends left for reports), `MaxLetters`,
`MaxTime`, `MaxFaults`, `MaxSetups`, `MaxLost`, `MaxTicks`, `MaxNow`, and the sets of
ids that are handed out: a client with nothing left to send stays silent.
`CONSTRAINT`s name the mixtures explored: `OneTable` (the operations on aliases
and those on lists read no common variable), `MCCases` of `MCSmtpDelivery` and of
`MCMailAccess`, and in `MCIdentity` `FewChanges` and `StillOpen`, which stop where
one set-up too many was made or both exceptions of a domain are on record.

`SYMMETRY` is used only where no property is a liveness property and no definition
tells the permuted values apart. `CHECK_DEADLOCK` is off in `relay`, `identity`,
`registered` and `backends`, whose bounded systems stop once every request is
answered and every bound is reached; elsewhere a crash, an arriving connection or
an administrator can always act.

## 4. Fairness

* `DeletionCompletes`: `WF_vars(Save(w) \/ Delete(w))`, a goroutine in the middle of
  an operation goes on until it returns. Go's scheduler and the timeouts of
  database and bucket clients give that: a call returns or fails.
* `ExchangeEnds`: `WF(ProcessAutoReply(j))`, the same for the goroutines of
  automatic replies. Nothing is assumed of people, of the clock or of failures,
  which are bounded by `MaxLetters`, `MaxTime` and `MaxFaults`; that the exchange
  ends is due to the replies' own record.
* `LockoutEnds`: `WF(Ages)` (time passes) and `WF(cleanup)` (a ticker every five
  minutes). Nothing is assumed of those who log in: the lockout ends whether they
  keep trying or not.

Nothing is assumed of clients, of administrators or of which of success and failure
happens.


## 5. The proofs

The modules `*Proofs` hold the theorems, for every value of the constants the named
assumptions of their modules allow. None of the invariants is inductive alone; each
module proves a strengthening of it (`IInv`, or by the component's name: `SendInv`,
`ReplyInv`, `SignInInv`, `OAuthInv`, `SignupInv`, `CardInv`, `BackInv`), which `Init` implies
and, in one lemma or step per action, every step keeps; the temporal theorems
combine these. Every invariant and every action property that a passing run checks is
a theorem.

**`MailStoreProofs`** (from `StoreAssumption`: the constants' types, and that `NoRow`
and `NoMsg` are no user and no message): `TypeCorrect`, `RowsHaveObjects`
(`MetadataHasBlob`), `MailKeepsAttachments` (`AttachmentsIntact`), `OrphansExplained`
(`OrphanBlobsExplained`), and `Implements`, that `MailStore` implements `Mailbox`, by
`StepSimulation`: every step of the store is a step of `Mailbox` or leaves the
reader's view alone. A row without its object is ruled out only if the goroutine
about to write the row knows that the object is there, so `IInv` says what each
goroutine knows in the middle of its work: `JobsOK`, `OneSaver` (one goroutine saves
a message), `Unsaved` and `Bounded` (nothing exists of a message before it is saved
or beyond its attachments), `Writing` and `Describing` (which objects and rows each
loop has made), `Overtaken` (a deletion beside the save is on record), `Targets` and
`Purging` (a deletion has before it what is left of its message). `OrphanRowsKnown`
(`OrphanRowsExplained`) adds `RowsExplained`: the rows of a message whose deletion was
asked for are about to be deleted, or a reason why not is on record.

**`SmtpDeliveryProofs`** (from `SmtpAssumption`): `OutboundKept` and `InboundKept`
(`AcceptedOutboundKept`, `AcceptedInboundKept`: 250 means kept), `CopiesOnce`
(`OneCopyEach`), `RecipientsNamed` (`OnlyNamedRecipients`), `RelayForUsers`
(`NoOpenRelay`) and `QuarantineKept` (`QuarantineHolds`), for any tables, sessions and
messages. `IInv` follows a `DATA` command from the envelope to the answer:
`Envelopes` (what is in `env` is what the client said since MAIL and, while a
command is handled, what it named), `OwnTry` and `Fresh` (a command is handled once,
and has left nothing before it is given), `PendingOK` and `StoredOK` (where each
copy comes from, before it is saved and after), `OnceOK` (no pending copy for an
owner who has one), `SentOK`, `OutboundOK` and `InboundOK` (what is not saved is
still to come, or on record as refused) and `RelayedOK`. `HandleInv` proves the four
paths of the handler at once: each sees to the same `Plan` before its first save.
`FrameInv` does the same for the steps that save nothing. `ResolveRecipient` stays
opaque: the proofs use only that it depends on the tables and the failed lookups.

**`MailAccessProofs`** (from `AccessAssumption`: finitely many messages, each with an
owner): `RemovalsAsked`, `AccountsProven`, `MarksPending`, the action property
`RemovalAtCommit`, and types. `IInv` adds `NumbersAsked` (a number in POP3's list of
deletions stands for a message somebody asked to remove, or for one it has come to
stand for), `CopiesAsked` (the same for IMAP's marks) and `LoginProven`.

**`RelayProofs`** is about `MCRelay` and its three components.
*Relay* (from `RelayAssumption`): `PromiseKept`, that `Relay` implements `Courier`;
`TransitProtected` (`ProtectedInTransit`), `OneCopyPerSuccess` (`CopiesNeedDoubt`),
`ResultsCounted` (`EventsCountedOnce`) and `RelayTypeCorrect`. For each send `Travels`
says that every domain has taken the message, is still to come or is at hand;
`Counts` that no attempt is made where one succeeded; `Guarded` that host, policy and
connection in use are those the policy in force allows.
*AutoReply* (from `AutoReplyAssumption`): `RepliesAreRare` (`SecondReplyNeedsRace`) and
`ReplyTypeCorrect`. The property speaks of what went out, the code of what the log
says, so `RepliesRecorded` relates them: the last reply to a sender has a record no
older than itself, or the goroutine that sent it has yet to write one, or failed to.
*RateLimiter* (from `LimiterAssumption`: finitely many requests, positive threshold and
duration): `LimiterTypeCorrect` and `LockoutBoundsGuesses` (`GuessesBounded`).
`GuessesCounted` says that a wrong password is counted or about to be, `CountBounded`
that only requests under way push the count beyond the threshold; the proof counts
the sets of requests in each step.
`ServerTypeCorrect` is `MCTypeOK` of the composition. Its proof has the argument all
three compositions use (`PartsStep`, `IdentitySteps`, `TogetherStep`): a step of the
composition is a step of a component or leaves its variables alone, so that what each
keeps for itself it keeps in company.

**`IdentityProofs`** is about `MCIdentity`.
*TwoFactor* (from `TwoFactorAssumption`: the bounds are naturals and `doubt`'s entry
"account" is no token): `SignInAsksForCode` (`SecondFactorAsked`), `FactorsHold`
(`FactorsStand`, the second-factor part of `UsedOnce`) and `FactorTypeCorrect`. The row
of the account is read in one step and written back in another, so `ReadingOK` says
that a request about to write holds the row as it is, or is marked as outdated;
`TokensOK` and `CodesOK` say that what was accepted is gone from the tables, unless in
doubt; `AskedOK` that the row's set-up is the last one. `RequestsKept` proves once
what a step of one request leaves true of the others.
*OAuth* (from `OAuthAssumption`: clients are programs, the bounds are naturals, and what
a read returns when it finds nothing is no consent): `CodesHold`
(`CodesRedeemedOnce`) and `OAuthTypeCorrect`. `MarkedOnce` is the argument: of a code not
in `overlap` one request at most is past the mark, and no token was answered before
it; `ForConsent` follows program and user from the code's row to the token's.
*The composition*: `OnceEach` (`UsedOnce`, second factor and codes together) and
`IdentityTypeCorrect` (`MCTypeOK`).

**`DomainsProofs`** (from `DomainAssumption`: addresses belong to domains):
`ServedKnown` (`ServedExplained`), `DomainTypeCorrect` and `OwnersKnown` (`OwnersExplained`). `ListsOK` says
that a list about to be installed is the table or is outdated. `OwnersOK` separates what
no request under way can take back (`Firm`: an owner with an account, or a reason on
record) from a grant still to come (`Known`); every owner and every finishing sign-up
has one or the other. `FoundersOK` holds the argument for one founder: one sign-up at
a time is open for a domain, it was checked against a table without the domain, and
whoever founded the domain did so by it.

**`DirectoryProofs`** (from `DirectoryAssumption`): `NewListStartsEmpty`
(`NewListIsEmpty`) from `StrayKnown`: members of a list that is absent or being deleted
are all on record; and `ResolutionIsRight` (`ResolveFindsAccounts`). `ResolveRecipient`
is recursive, and its proof would be an induction over the depth, which the provers
cannot instantiate; a least counterexample does instead (`NatLessThanWellFounded` with
`WFMin`). `WalkMeetsAll` says that each depth
of the walk meets an address no depth before it met, until all are met, so a walk from
an address that leads to `LoopDepth + 1` addresses at most (`Shallow`, which is what
the property supposes) meets them before the limit; `WalkEnds` that where no loop
can be reached, what is left to reach shrinks with every step, so that the
limit returns nothing unseen.

**`BackendProofs`** is about `MCBackends`.
*Contacts*: `PutsStored` (`AnsweredPutStored`), the action property `OthersKept`
(`OthersUntouched`) and `CardTypeCorrect`. `FoundKept` says that what a request found
is there when it writes, unless it was overtaken.
*Backends* (from `BackendsAssumption`: rows and filters have the columns of the structs, ids are
random and so neither blank nor used twice, and a read that finds nothing returns no row):
`BackendsAgree` (`ReadsAgree`), `GhostsNeverShown` (`GhostsHidden`) and
`BackendsTypeCorrect` (`MCTypeOK`). `BackInv` (`BackendsInv`) has a conjunct for each
table that says how the SQL copy and the DynamoDB copy relate: equal rows but for
those in `drift`; for messages, that an item is `Whole`, under the key its own columns
give, or a `Ghost` with nothing but marks, that the items of one id belong to one
owner and one of them at most is whole, and that every SQL row has its whole item. All of
this is needed before `CountUnread` can be compared, where one side counts rows
and the other items: the proof gives the bijection between them. `OneTable` and
`Settles` reduce each call to the one table it writes, so that a call is a lemma
about two functions.

*Filters*: `FilingIsExplained` (`FilingExplained`). `FiltersOK`, the part of `BackInv`
about them, gives both databases the same set of filters for a user, wherever the history
names no difference; each returns that set in an order of its own. `Outcome` says what the loop of
`filter.Apply` computes without its order (`Sums`): the marks of the filters that
fire, and the folder of one of them, if any moves. It is proved up to the length of
the list as the resolution of addresses is, by the least number that would fail.

Model-checked only: the liveness properties (`DeletionCompletes`, `ExchangeEnds`,
`LockoutEnds`), since liveness under fairness is out of the prover's reach. The
properties that expect a violation have their runs and no theorem.
## 6. Where the code and its documents disagree

Five runs look for a disagreement and find it:

* `catch_all`: an existing account without an alias loses its mail to the
  catch-all of its domain, which is looked up before accounts are
  (`store.go:277`; `src/README.md:62,464`).
* `list_outbound`: what a logged-in sender writes to a mailing list is answered
  with 250 and reaches no member; only the inbound path expands lists
  (`backend.go:206`; `src/README.md:466`).
* `forward`: an alias target on another server falls out of resolution, and mail
  for it is accepted and lost (`store.go:290`; `src/README.md:464`).
* `examine`: EXAMINE is "same as SELECT but read-only" in a comment
  (`imap/server.go:122`) and the same as SELECT in the code.
* `registered`: a domain registered through the admin API is "persisted in the
  database" in a comment (`admin/domain.go:133`) and only added to the list in
  memory; the next reload or restart forgets it.

Met on the way and kept in the models, without a run of their own:

* Mail: copies that a list distributes go to INBOX even when the message was
  quarantined (`store.go:317`, `src/README.md:41`; `QuarantineHolds` names the
  exception). `-FLAGS` sets the flag it should clear (`imap/server.go:336`;
  `RemovedWasAsked` excuses `undone`). A sequence number beyond the folder stands for
  the last message (`imap/server.go:556`; `misnumbered`). RETR and FETCH load
  attachments for a copy that lists none (`pop3/server.go:245`,
  `imap/server.go:297`, `store.go:194`), so messages read that way come without them.
* Relay: the comment on `WithRequireTLS` (`relay.go:102`) holds for direct delivery; the
  external relay is not told (`ProtectedInTransit` excludes it). TLS reports are
  mail and give rise to TLS results of their own.
* Second factor: `auth.go:36-37,56` speak of a confirmation with `Confirm2FA`, but
  Setup2FA activates at once (`postgres.go:134`). `auth.go:176` says "in one step"
  of two calls; `UsedOnce` names what may come between them (`doubt`).
* Domains: an expired sign-up blocks its domain for ever; permission rows outlive
  their account, and so do the sessions of the web pages; an admin may demote an
  owner (`domain_user_handlers.go:117-128`); suspension writes empty SES and DKIM
  states (`superadmin_handlers.go:46-49`), and an account's status is never read,
  though `src/README.md:36` says that suspended users cannot log in.
* Databases: a blank password means "keep it" to the page (`domain_users.html:88`) and
  to DynamoDB, and an empty password hash to PostgreSQL (`postgres.go:46`).
  DynamoDB's keys of messages and times to the second are described above.
  `ListClients` is asked for the clients of an address and looks for a domain, so
  it lists nothing.
* Filters: `not_contains` and `equals` compare a value with "|" as a whole.
  `DefaultFilters` (`src/README.md:64`) has no caller; neither have `UpdateAlias`,
  `UpdateFilter`, `RemoveListMember`, `DeleteOAuthToken`, `UpdateDeviceLastSeen`,
  `GetHistory` and the functions on one-time passwords.

The properties that hold also name their exceptions. `RemovedWasAsked` shows that
PASS repeated after DELE makes the recorded numbers mean other messages
(`misnumbered`); `MarkedIsPending` that a message marked by a connection that
ends without CLOSE stays hidden for good (`abandoned`); `OrphanBlobsExplained`
that a deletion which overtakes the save leaves objects nobody will collect
(`overtaken`); `NewListIsEmpty` that members written while their list did not
exist, or whose deletion failed, belong to the next list of that name (`stray`);
`CopiesNeedDoubt` that an answer lost after acceptance, QUIT's included, sends the
message again; `OwnersExplained` that a lost grant leaves a ready domain without an
owner, since a retry skips it with the account (`excused`).

## 7. What is left

The order was that of what a failure costs: mail lost or shown to others first, then
who may log in, then the rest. Open, in this order:

1. Account deletion beside delivery (`api_handlers.go:573`): messages saved between
   the two calls belong to an account recreated under the address. It needs
   accounts and messages in one module.
2. Permissions other than owner and their end dates; administrators' changes while a
   message is handled.

## 8. Not modelled

MIME, DKIM, DNS records and SES are formatting or calls of outside services.
Scanners (ClamAV, rspamd, Safe Browsing) are services whose verdict is a choice. The
certificate reloader replaces entries of a map under a mutex and has one reader.
The token bucket of `AllowConnection` is `golang.org/x/time/rate`. Start-up,
scripts, templates and the Vue client are wiring and user interface. History, DNS
rows and app tokens are plain inserts and queries; searches and counts change
nothing, and are compared between the databases in `Backends` only.
