--------------------------- MODULE IdentityProofs ----------------------------
(***************************************************************************)
(* Who somebody is.  TwoFactor: second factors for every number of         *)
(* requests, tokens, devices, backup codes and set-ups.  OAuth: one token  *)
(* for a code, for the user who approved it, for every number of users,    *)
(* programs and requests.  Then both beside Domains, as MCIdentity runs    *)
(* them.                                                                   *)
(***************************************************************************)
EXTENDS MCIdentity, DomainsProofs

-----------------------------------------------------------------------------
(* Second factors                                                          *)

FactorRow == {row \in [enabled : BOOLEAN, setup : 0 .. MaxSetups, codes : SUBSET BackupCode] :
          row.enabled <=> row.setup > 0}

\* What a request carries at each of its steps.
FactorCarried ==
  [step : {"idle", "disable"}]
    \cup [step : {"session"}, proof : {"password", "code"} \cup Device]
    \cup [step : {"device"}, device : Device]
    \cup [step : {"consume", "totp", "backup", "trust"}, token : LoginToken, code : Typed]
    \cup [step : {"rewrite", "trust"}, read : FactorRow, used : BackupCode]

FactorShape ==
  /\ account \in FactorRow /\ asked \in FactorRow
  /\ login_token \in [LoginToken -> {"none", "live", "expired", "gone"}]
  /\ trusted \subseteq proven /\ proven \subseteq Device
  /\ signedIn \in BOOLEAN
  /\ request \in [Request -> FactorCarried]
  /\ setups \in 0 .. MaxSetups
  /\ uses \in [BackupCode -> Nat] /\ tokenUses \in [LoginToken -> Nat]

\* A token that went through Verify2FA is deleted, or its deletion is in doubt.
TokensOK ==
  \A t \in LoginToken :
    /\ tokenUses[t] > 0 => login_token[t] = "gone" \/ (t \in doubt /\ login_token[t] # "none")
    /\ tokenUses[t] > 1 => t \in doubt

TokenKnown == \A r \in Request : At(r, "consume") => login_token[request[r].token] # "none"

\* A request about to write the row back holds the row as it is, unless another
\* has written it since, and the code it was given is in it.
ReadingOK ==
  \A r \in Request : At(r, "rewrite") =>
    /\ request[r].used \in request[r].read.codes
    /\ r \in stale \/ request[r].read = account

\* A code that was accepted is no longer in the row.
CodesOK ==
  "account" \in doubt \/ \A c \in BackupCode : /\ uses[c] <= 1
                                               /\ uses[c] = 1 => c \notin account.codes

AskedOK == "account" \in doubt \/ (account.enabled = asked.enabled /\ account.setup = asked.setup)

SignInInv == /\ FactorShape /\ TokensOK /\ TokenKnown /\ ReadingOK /\ CodesOK /\ AskedOK
        /\ SecondFactorAsked

-----------------------------------------------------------------------------
(* How requests change.                                                    *)

\* A request takes up a new record; the others keep theirs.
LEMMA FactorTaken ==
  ASSUME request \in [Request -> FactorCarried], NEW r \in Request, NEW to \in FactorCarried, Carries(r, to)
  PROVE  /\ request' \in [Request -> FactorCarried]
         /\ request'[r] = to
         /\ \A q \in Request : q # r => request'[q] = request[q]
BY DEF Carries

\* What a request carries follows from its step.
LEMMA FactorAtStep ==
  ASSUME request \in [Request -> FactorCarried], NEW r \in Request
  PROVE  /\ request[r].step \in {"consume", "totp", "backup"} =>
              request[r] \in [step : {"consume", "totp", "backup", "trust"},
                              token : LoginToken, code : Typed]
         /\ request[r].step = "rewrite" =>
              request[r] \in [step : {"rewrite", "trust"}, read : FactorRow, used : BackupCode]
         /\ request[r].step = "device" => request[r] \in [step : {"device"}, device : Device]
<1>1. request[r] \in FactorCarried
  OBVIOUS
<1>2. QED
  BY <1>1 DEF FactorCarried

\* A request goes on with the token and the code it carries.
LEMMA VerifyGoesOn ==
  ASSUME request \in [Request -> FactorCarried], NEW r \in Request,
         NEW step \in {"totp", "backup", "trust"},
         request[r].step \in {"consume", "totp", "backup"}, Goes(r, step)
  PROVE  /\ request' \in [Request -> FactorCarried]
         /\ request'[r].step = step
         /\ \A q \in Request : q # r => request'[q] = request[q]
<1> DEFINE to == [request[r] EXCEPT !.step = step]
<1>1. to \in [step : {"consume", "totp", "backup", "trust"}, token : LoginToken, code : Typed]
      /\ to.step = step
  BY FactorAtStep
<1>2. request' = [request EXCEPT ![r] = to]
  BY DEF Goes
<1>3. to \in FactorCarried
  BY <1>1 DEF FactorCarried
<1>4. QED
  BY <1>1, <1>2, <1>3

\* A request that wrote the row back goes on to the device.
LEMMA RewriteGoesOn ==
  ASSUME request \in [Request -> FactorCarried], NEW r \in Request,
         At(r, "rewrite"), Goes(r, "trust")
  PROVE  /\ request' \in [Request -> FactorCarried]
         /\ request'[r].step = "trust"
         /\ \A q \in Request : q # r => request'[q] = request[q]
<1> DEFINE to == [request[r] EXCEPT !.step = "trust"]
<1>1. to \in [step : {"rewrite", "trust"}, read : FactorRow, used : BackupCode] /\ to.step = "trust"
  BY FactorAtStep DEF At
<1>2. request' = [request EXCEPT ![r] = to]
  BY DEF Goes
<1>3. to \in FactorCarried
  BY <1>1 DEF FactorCarried
<1>4. QED
  BY <1>1, <1>2, <1>3

\* What a request at rest carries, and the row of an account without a second
\* factor, are such as the types ask for.
LEMMA IdleCarried == Idle \in FactorCarried
BY DEF Idle, FactorCarried

LEMMA OffIsRow == Off \in FactorRow
<1>1. Off \in [enabled : BOOLEAN, setup : 0 .. MaxSetups, codes : SUBSET BackupCode]
  BY TwoFactorAssumption DEF Off
<1>2. ~Off.enabled /\ ~(Off.setup > 0)
  BY DEF Off
<1>3. QED
  BY <1>1, <1>2 DEF FactorRow

-----------------------------------------------------------------------------
(* What a step leaves alone.                                               *)

\* The tokens: unless one is created, none is used and none comes back.
LEMMA TokensKept ==
  ASSUME FactorShape, TokensOK, FactorShape', tokenUses' = tokenUses,
         \A t \in LoginToken : /\ login_token[t] = "gone" => login_token'[t] = "gone"
                               /\ t \in doubt => t \in doubt'
                               /\ login_token[t] # "none" => login_token'[t] # "none"
  PROVE  TokensOK'
BY DEF TokensOK, FactorShape

\* A login token is created where there was none.
LEMMA TokenCreated ==
  ASSUME FactorShape, CreateLoginToken
  PROVE  /\ login_token' \in [LoginToken -> {"none", "live", "expired", "gone"}]
         /\ \A t \in LoginToken : /\ login_token[t] = "gone" => login_token'[t] = "gone"
                                  /\ login_token[t] # "none" => login_token'[t] # "none"
<1>1. PICK t \in LoginToken : login_token[t] = "none" /\ login_token' = [login_token EXCEPT ![t] = "live"]
  BY DEF CreateLoginToken, Fresh
<1>2. QED
  BY <1>1 DEF FactorShape

\* The row is read: what it holds and what was asked for it stand.
LEMMA RowKept ==
  ASSUME CodesOK, AskedOK, UNCHANGED <<account, asked, uses>>,
         "account" \in doubt => "account" \in doubt'
  PROVE  CodesOK' /\ AskedOK'
BY DEF CodesOK, AskedOK

\* A request in "done" relies on nothing outdated now; the others keep what they
\* carry, and are marked when the row changes under them.
LEMMA RequestsKept ==
  ASSUME FactorShape, TokenKnown, ReadingOK, SecondFactorAsked,
         NEW done \in SUBSET Request,
         \A q \in done :
           /\ At(q, "consume")' => login_token'[request'[q].token] # "none"
           /\ At(q, "rewrite")' => /\ request'[q].used \in request'[q].read.codes
                                   /\ request'[q].read = account'
           /\ At(q, "session")' => \/ request'[q].proof = "code"
                                   \/ request'[q].proof \in proven'
                                   \/ request'[q].proof = "password" /\ ~account'.enabled,
         \A q \in Request \ done :
           /\ request'[q] = request[q]
           /\ q \in stale => q \in stale'
           /\ (At(q, "rewrite") \/ At(q, "session")) => account' = account \/ q \in stale',
         \A t \in LoginToken : login_token[t] # "none" => login_token'[t] # "none",
         proven \subseteq proven'
  PROVE  TokenKnown' /\ ReadingOK' /\ SecondFactorAsked'
<1>1. TokenKnown'
  <2> SUFFICES ASSUME NEW q \in Request \ done, At(q, "consume")'
               PROVE  login_token'[request'[q].token] # "none"
    BY DEF TokenKnown
  <2>1. request'[q] = request[q] /\ At(q, "consume")
    BY DEF At
  <2>2. request[q].token \in LoginToken
    BY <2>1, FactorAtStep DEF FactorShape, At
  <2>3. QED
    BY <2>1, <2>2 DEF TokenKnown
<1>2. ReadingOK'
  <2> SUFFICES ASSUME NEW q \in Request, At(q, "rewrite")'
               PROVE  /\ request'[q].used \in request'[q].read.codes
                      /\ q \in stale' \/ request'[q].read = account'
    BY DEF ReadingOK
  <2>1. CASE q \in done
    BY <2>1
  <2>2. CASE q \notin done
    BY <2>2 DEF ReadingOK, At
  <2>3. QED
    BY <2>1, <2>2
<1>3. SecondFactorAsked'
  <2> SUFFICES ASSUME NEW q \in Request, At(q, "session")', request'[q].proof # "code"
               PROVE  \/ request'[q].proof \in proven'
                      \/ /\ request'[q].proof = "password"
                         /\ ~account'.enabled \/ q \in stale'
    BY DEF SecondFactorAsked
  <2>1. CASE q \in done
    BY <2>1
  <2>2. CASE q \notin done
    BY <2>2 DEF SecondFactorAsked, At
  <2>3. QED
    BY <2>1, <2>2
<1>4. QED
  BY <1>1, <1>2, <1>3

-----------------------------------------------------------------------------
(* One lemma per step.                                                     *)

\* The password is right; the row as it is says whether a code is asked for.
LEMMA GetUserStep == ASSUME SignInInv, NEW r \in Request, GetUser(r) PROVE SignInInv'
<1> USE DEF SignInInv
<1>1. PICK to \in [step : {"session"}, proof : {"password"}] \cup [step : {"device"}, device : Device] :
        Carries(r, to) /\ (to.step = "session" => ~account.enabled)
  <2>1. CASE ~account.enabled /\ Carries(r, [step |-> "session", proof |-> "password"])
    BY <2>1
  <2>2. ASSUME NEW d \in Device, Carries(r, [step |-> "device", device |-> d])
        PROVE  \E to \in [step : {"device"}, device : Device] :
                  Carries(r, to) /\ to.step # "session"
    BY <2>2
  <2>3. QED
    BY <2>1, <2>2 DEF GetUser
<1>2. to \in FactorCarried
  BY <1>1 DEF FactorCarried
<1>3. /\ UNCHANGED <<account, table, signedIn, setups, lost, asked, uses, doubt>>
      /\ stale' = stale \ {r}
  BY DEF GetUser, Reads
<1>4. FactorShape'
  BY <1>1, <1>2, <1>3, FactorTaken DEF FactorShape, table
<1>5. TokensOK'
  BY <1>3, <1>4, TokensKept DEF table
<1>6. TokenKnown' /\ ReadingOK' /\ SecondFactorAsked'
  <2>1. /\ request'[r] = to /\ \A q \in Request \ {r} : request'[q] = request[q]
    BY <1>1, <1>2, FactorTaken DEF FactorShape
  <2>2. ~At(r, "consume")' /\ ~At(r, "rewrite")' /\ (At(r, "session")' => to.proof = "password")
    BY <1>1, <2>1 DEF At
  <2>3. QED
    BY <1>1, <1>3, <2>1, <2>2, RequestsKept, {r} \in SUBSET Request DEF table, At
<1>7. QED
  BY <1>3, <1>4, <1>5, <1>6, RowKept

\* The API hands out a login token.
LEMMA APIGetUserStep == ASSUME SignInInv, NEW r \in Request, APIGetUser(r) PROVE SignInInv'
<1> USE DEF SignInInv
<1>1. /\ UNCHANGED <<account, request, trusted, signedIn, setups, lost, asked, uses, tokenUses,
                     proven, doubt>>
      /\ stale' = stale \ {r} /\ CreateLoginToken /\ At(r, "idle")
  BY DEF APIGetUser, Reads
<1>2. FactorShape'
  BY <1>1, TokenCreated DEF FactorShape
<1>3. TokensOK'
  BY <1>1, <1>2, TokenCreated, TokensKept
<1>4. TokenKnown' /\ ReadingOK' /\ SecondFactorAsked'
  BY <1>1, TokenCreated, RequestsKept, {r} \in SUBSET Request DEF At
<1>5. QED
  BY <1>1, <1>2, <1>3, <1>4, RowKept

\* The device is trusted, or a code is asked for.
LEMMA IsTrustedDeviceStep == ASSUME SignInInv, NEW r \in Request, IsTrustedDevice(r) PROVE SignInInv'
<1> USE DEF SignInInv
<1>1. /\ UNCHANGED <<account, trusted, signedIn, setups, lost, asked, uses, tokenUses, proven, doubt>>
      /\ At(r, "device") /\ \A q \in Request \ {r} : q \in stale => q \in stale'
  BY DEF IsTrustedDevice
<1>2. request[r].device \in Device
  BY <1>1, FactorAtStep DEF FactorShape, At
<1>3. PICK to \in {Idle, [step |-> "session", proof |-> request[r].device]} :
        Carries(r, to) /\ (to # Idle => request[r].device \in trusted)
  BY DEF IsTrustedDevice
<1>4. to \in FactorCarried
  BY <1>2, <1>3, IdleCarried DEF FactorCarried
<1>5. /\ login_token' \in [LoginToken -> {"none", "live", "expired", "gone"}]
      /\ \A t \in LoginToken : /\ login_token[t] = "gone" => login_token'[t] = "gone"
                               /\ login_token[t] # "none" => login_token'[t] # "none"
  BY TokenCreated DEF IsTrustedDevice, FactorShape
<1>6. FactorShape'
  BY <1>1, <1>3, <1>4, <1>5, FactorTaken DEF FactorShape
<1>7. TokensOK'
  BY <1>1, <1>5, <1>6, TokensKept
<1>8. TokenKnown' /\ ReadingOK' /\ SecondFactorAsked'
  <2>1. /\ request'[r] = to /\ \A q \in Request \ {r} : request'[q] = request[q]
    BY <1>3, <1>4, FactorTaken DEF FactorShape
  <2>2. /\ ~At(r, "consume")' /\ ~At(r, "rewrite")'
        /\ At(r, "session")' => request'[r].proof \in proven'
    BY <1>1, <1>3, <2>1 DEF At, Idle, FactorShape
  <2>3. QED
    BY <1>1, <1>5, <2>1, <2>2, RequestsKept, {r} \in SUBSET Request DEF At
<1>9. QED
  BY <1>1, <1>6, <1>7, <1>8, RowKept

\* The session is made.
LEMMA createSessionStep == ASSUME SignInInv, NEW r \in Request, createSession(r) PROVE SignInInv'
<1> USE DEF SignInInv
<1>1. /\ UNCHANGED <<account, table, setups, lost, asked, uses, doubt>>
      /\ Carries(r, Idle) /\ signedIn' = TRUE /\ stale' = stale \ {r}
  BY DEF createSession
<1>2. FactorShape'
  BY <1>1, IdleCarried, FactorTaken DEF FactorShape, table
<1>3. TokensOK'
  BY <1>1, <1>2, TokensKept DEF table
<1>4. TokenKnown' /\ ReadingOK' /\ SecondFactorAsked'
  <2>1. /\ request'[r] = Idle /\ \A q \in Request \ {r} : request'[q] = request[q]
    BY <1>1, IdleCarried, FactorTaken DEF FactorShape
  <2>2. request'[r].step = "idle"
    BY <2>1 DEF Idle
  <2>3. QED
    BY <1>1, <2>1, <2>2, RequestsKept, {r} \in SUBSET Request DEF table, At
<1>5. QED
  BY <1>1, <1>2, <1>3, <1>4, RowKept

\* A token is found live, or found expired and deleted.
LEMMA ValidateLoginTokenStep == ASSUME SignInInv, NEW r \in Request, ValidateLoginToken(r) PROVE SignInInv'
<1> USE DEF SignInInv
<1>1. UNCHANGED <<account, trusted, signedIn, setups, lost, asked, uses, tokenUses, proven, stale, doubt>>
  BY DEF ValidateLoginToken
<1>2. PICK t \in LoginToken :
        \/ /\ login_token[t] = "live" /\ UNCHANGED login_token
           /\ \E typed \in Typed : Carries(r, [step |-> "consume", token |-> t, code |-> typed])
        \/ /\ login_token[t] = "expired" /\ login_token' = [login_token EXCEPT ![t] = "gone"]
           /\ UNCHANGED request
  BY DEF ValidateLoginToken
<1>3. /\ login_token' \in [LoginToken -> {"none", "live", "expired", "gone"}]
      /\ \A u \in LoginToken : /\ login_token[u] = "gone" => login_token'[u] = "gone"
                               /\ login_token[u] # "none" => login_token'[u] # "none"
  BY <1>2 DEF FactorShape
<1>4. CASE UNCHANGED request
  <2>1. FactorShape'
    BY <1>1, <1>3, <1>4 DEF FactorShape
  <2>2. TokensOK'
    BY <1>1, <1>3, <2>1, TokensKept
  <2>3. TokenKnown' /\ ReadingOK' /\ SecondFactorAsked'
    BY <1>1, <1>3, <1>4, RequestsKept, {} \in SUBSET Request DEF At
  <2>4. QED
    BY <1>1, <2>1, <2>2, <2>3, RowKept
<1>5. ASSUME NEW typed \in Typed, login_token'[t] = "live",
             Carries(r, [step |-> "consume", token |-> t, code |-> typed])
      PROVE  SignInInv'
  <2> DEFINE to == [step |-> "consume", token |-> t, code |-> typed]
  <2>1. to \in FactorCarried
    BY DEF FactorCarried
  <2>2. /\ request' \in [Request -> FactorCarried]
        /\ request'[r] = to /\ \A q \in Request \ {r} : request'[q] = request[q]
    BY <1>5, <2>1, FactorTaken DEF FactorShape
  <2>3. FactorShape'
    BY <1>1, <1>3, <2>2 DEF FactorShape
  <2>4. TokensOK'
    BY <1>1, <1>3, <2>3, TokensKept
  <2>5. TokenKnown' /\ ReadingOK' /\ SecondFactorAsked'
    <3>1. request'[r].step = "consume" /\ request'[r].token = t
      BY <2>2
    <3>2. QED
      BY <1>1, <1>3, <1>5, <2>2, <3>1, RequestsKept, {r} \in SUBSET Request DEF At
  <2>6. QED
    BY <1>1, <2>3, <2>4, <2>5, RowKept
<1>6. QED
  BY <1>2, <1>4, <1>5

\* The token is deleted, for the first time or again, or its deletion fails.
LEMMA ConsumeLoginTokenStep == ASSUME SignInInv, NEW r \in Request, ConsumeLoginToken(r) PROVE SignInInv'
<1> USE DEF SignInInv
<1>1. /\ UNCHANGED <<account, trusted, signedIn, setups, asked, uses, proven, stale>>
      /\ At(r, "consume") /\ Goes(r, "totp")
  BY DEF ConsumeLoginToken
<1>2. PICK t \in LoginToken : t = request[r].token /\ login_token[t] # "none"
  BY <1>1, FactorAtStep DEF FactorShape, At, TokenKnown
<1>3. /\ tokenUses' = [tokenUses EXCEPT ![t] = @ + 1]
      /\ doubt' \in {doubt, doubt \cup {t}}
      /\ \/ /\ login_token' = [login_token EXCEPT ![t] = "gone"]
            /\ login_token[t] = "gone" => t \in doubt'
         \/ UNCHANGED login_token /\ t \in doubt'
  BY <1>2 DEF ConsumeLoginToken
<1>4. /\ request' \in [Request -> FactorCarried] /\ request'[r].step = "totp"
      /\ \A q \in Request \ {r} : request'[q] = request[q]
  BY <1>1, VerifyGoesOn DEF FactorShape, At
<1>5. \A u \in LoginToken : login_token[u] # "none" => login_token'[u] # "none"
  BY <1>3 DEF FactorShape
<1>6. FactorShape'
  BY <1>1, <1>3, <1>4 DEF FactorShape
<1>7. TokensOK'
  <2> SUFFICES ASSUME NEW u \in LoginToken
               PROVE  /\ tokenUses'[u] > 0
                         => login_token'[u] = "gone" \/ (u \in doubt' /\ login_token'[u] # "none")
                      /\ tokenUses'[u] > 1 => u \in doubt'
    BY DEF TokensOK
  <2>1. CASE u = t
    <3>1. tokenUses'[t] = tokenUses[t] + 1 /\ tokenUses[t] \in Nat
      BY <1>3 DEF FactorShape
    <3>2. tokenUses[t] > 0 => login_token[t] = "gone" \/ t \in doubt
      BY DEF TokensOK
    <3>3. login_token'[t] = "gone" \/ (t \in doubt' /\ login_token'[t] # "none")
      BY <1>2, <1>3 DEF FactorShape
    <3>4. tokenUses'[t] > 1 => tokenUses[t] > 0
      BY <3>1
    <3>5. QED
      BY <1>3, <2>1, <3>2, <3>3, <3>4
  <2>2. CASE u # t
    BY <1>3, <2>2 DEF TokensOK, FactorShape
  <2>3. QED
    BY <2>1, <2>2
<1>8. TokenKnown' /\ ReadingOK' /\ SecondFactorAsked'
  BY <1>1, <1>4, <1>5, RequestsKept, {r} \in SUBSET Request DEF At
<1>9. CodesOK' /\ AskedOK'
  <2>1. "account" \in doubt => "account" \in doubt'
    BY <1>3
  <2>2. QED
    BY <1>1, <2>1, RowKept
<1>10. QED
  BY <1>6, <1>7, <1>8, <1>9

\* The code is compared with the secret in the row.
LEMMA Verify2FAStep == ASSUME SignInInv, NEW r \in Request, Verify2FA(r) PROVE SignInInv'
<1> USE DEF SignInInv
<1>1. /\ UNCHANGED <<account, table, signedIn, setups, lost, asked, uses, doubt>>
      /\ stale' = stale \ {r}
  BY DEF Verify2FA, Reads
<1>2. /\ request' \in [Request -> FactorCarried] /\ request'[r].step \in {"trust", "backup"}
      /\ \A q \in Request \ {r} : request'[q] = request[q]
  BY VerifyGoesOn DEF FactorShape, Verify2FA, At
<1>3. FactorShape'
  BY <1>1, <1>2 DEF FactorShape, table
<1>4. TokensOK'
  BY <1>1, <1>3, TokensKept DEF table
<1>5. TokenKnown' /\ ReadingOK' /\ SecondFactorAsked'
  BY <1>1, <1>2, RequestsKept, {r} \in SUBSET Request DEF table, At
<1>6. QED
  BY <1>1, <1>3, <1>4, <1>5, RowKept

\* The code is looked for among the backup codes in the row.
LEMMA VerifyBackupCodeStep == ASSUME SignInInv, NEW r \in Request, VerifyBackupCode(r) PROVE SignInInv'
<1> USE DEF SignInInv
<1>1. /\ UNCHANGED <<account, trusted, signedIn, setups, lost, asked, uses, tokenUses, proven, doubt>>
      /\ stale' = stale \ {r}
  BY DEF VerifyBackupCode, Reads
<1>2. /\ login_token' \in [LoginToken -> {"none", "live", "expired", "gone"}]
      /\ \A t \in LoginToken : /\ login_token[t] = "gone" => login_token'[t] = "gone"
                               /\ login_token[t] # "none" => login_token'[t] # "none"
  BY TokenCreated DEF VerifyBackupCode, FactorShape
<1>3. \E to \in FactorCarried : /\ Carries(r, to)
                          /\ \/ to.step = "idle"
                             \/ to.step = "rewrite" /\ to.read = account /\ to.used \in account.codes
  <2>1. CASE ~Matches(r, account)
    <3>1. Carries(r, Idle) /\ Idle.step = "idle"
      BY <2>1 DEF VerifyBackupCode, Idle
    <3>2. QED
      BY <3>1, IdleCarried
  <2>2. CASE Matches(r, account)
    <3>1. PICK c \in account.codes : request[r].code = Backup(account.setup, c)
      BY <2>2 DEF Matches
    <3>2. c \in BackupCode /\ request[r].code[2] = c
      BY <3>1 DEF FactorShape, FactorRow, Backup
    <3> DEFINE to == [step |-> "rewrite", read |-> account, used |-> c]
    <3>3. Carries(r, to)
      BY <2>2, <3>2 DEF VerifyBackupCode
    <3>4. to \in [step : {"rewrite", "trust"}, read : FactorRow, used : BackupCode]
      BY <3>2 DEF FactorShape
    <3>5. to \in FactorCarried
      BY <3>4 DEF FactorCarried
    <3>6. to.step = "rewrite" /\ to.read = account /\ to.used \in account.codes
      BY <3>1
    <3>7. QED
      BY <3>3, <3>5, <3>6
  <2>3. QED
    BY <2>1, <2>2
<1>4. /\ request' \in [Request -> FactorCarried]
      /\ \A q \in Request \ {r} : request'[q] = request[q]
      /\ \/ request'[r].step = "idle"
         \/ /\ request'[r].step = "rewrite" /\ request'[r].read = account
            /\ request'[r].used \in account.codes
  BY <1>3, FactorTaken DEF FactorShape
<1>5. FactorShape'
  BY <1>1, <1>2, <1>4 DEF FactorShape
<1>6. TokensOK'
  BY <1>1, <1>2, <1>5, TokensKept
<1>7. TokenKnown' /\ ReadingOK' /\ SecondFactorAsked'
  BY <1>1, <1>2, <1>4, RequestsKept, {r} \in SUBSET Request DEF At
<1>8. QED
  BY <1>1, <1>5, <1>6, <1>7, RowKept

\* The row is written back without the code, over what others wrote since it was
\* read, or the write is lost.
LEMMA ConsumeBackupCodeStep == ASSUME SignInInv, NEW r \in Request, ConsumeBackupCode(r) PROVE SignInInv'
<1> USE DEF SignInInv
<1>1. UNCHANGED <<table, signedIn, setups, asked>> /\ At(r, "rewrite") /\ AcceptedOnce(r)
  BY DEF ConsumeBackupCode
<1>2. /\ request[r] \in [step : {"rewrite", "trust"}, read : FactorRow, used : BackupCode]
      /\ request[r].used \in request[r].read.codes
      /\ r \in stale \/ request[r].read = account
  BY <1>1, FactorAtStep DEF FactorShape, At, ReadingOK
<1>3. PICK c \in BackupCode, read \in FactorRow :
        c = request[r].used /\ read = request[r].read /\ c \in read.codes
  BY <1>2
<1>4. /\ request' \in [Request -> FactorCarried] /\ request'[r].step = "trust"
      /\ \A q \in Request \ {r} : request'[q] = request[q]
      /\ uses' = [uses EXCEPT ![c] = @ + 1]
  BY <1>1, <1>3, RewriteGoesOn DEF AcceptedOnce, FactorShape
<1>5. \/ /\ account' = [read EXCEPT !.codes = @ \ {c}]
         /\ stale' = (stale \cup Holds) \ {r}
         /\ doubt' = IF r \in stale THEN doubt \cup {"account"} ELSE doubt
      \/ doubt' = doubt \cup {"account"} /\ stale' = stale \ {r} /\ UNCHANGED account
  BY <1>3 DEF ConsumeBackupCode, Writes, Reads
<1>6. account' \in FactorRow
  <2> DEFINE to == [read EXCEPT !.codes = @ \ {c}]
  <2>1. to \in [enabled : BOOLEAN, setup : 0 .. MaxSetups, codes : SUBSET BackupCode]
        /\ to.enabled = read.enabled /\ to.setup = read.setup
    BY DEF FactorRow
  <2>2. to \in FactorRow
    BY <2>1 DEF FactorRow
  <2>3. QED
    BY <1>5, <2>2 DEF FactorShape
<1>7. FactorShape'
  BY <1>1, <1>4, <1>6 DEF FactorShape, table
<1>8. TokensOK'
  BY <1>1, <1>5, <1>7, TokensKept DEF table
<1>9. TokenKnown' /\ ReadingOK' /\ SecondFactorAsked'
  <2>1. \A q \in Request \ {r} :
          /\ q \in stale => q \in stale'
          /\ (At(q, "rewrite") \/ At(q, "session")) => account' = account \/ q \in stale'
    BY <1>5 DEF Holds, At
  <2>2. QED
    BY <1>1, <1>4, <2>1, RequestsKept, {r} \in SUBSET Request DEF table, At
<1>10. CASE "account" \in doubt'
  <2>1. CodesOK' /\ AskedOK'
    BY <1>10 DEF CodesOK, AskedOK
  <2>2. QED
    BY <1>7, <1>8, <1>9, <2>1
<1>11. CASE "account" \notin doubt'
  <2>1. "account" \notin doubt /\ read = account /\ account' = [account EXCEPT !.codes = @ \ {c}]
    BY <1>2, <1>3, <1>5, <1>11
  <2>2. /\ account'.codes = account.codes \ {c} /\ account'.enabled = account.enabled
        /\ account'.setup = account.setup
    BY <2>1 DEF FactorShape, FactorRow
  <2>3. uses[c] = 0
    BY <1>3, <2>1 DEF CodesOK, FactorShape
  <2>4. CodesOK'
    <3>1. \A d \in BackupCode : uses'[d] = IF d = c THEN 1 ELSE uses[d]
      BY <1>4, <2>3 DEF FactorShape
    <3>2. QED
      BY <2>1, <2>2, <3>1 DEF CodesOK
  <2>5. AskedOK'
    BY <1>1, <2>1, <2>2 DEF AskedOK
  <2>6. QED
    BY <1>7, <1>8, <1>9, <2>4, <2>5
<1>12. QED
  BY <1>10, <1>11

\* A device is registered after a right code, or not.
LEMMA RegisterTrustedDeviceStep ==
  ASSUME SignInInv, NEW r \in Request, RegisterTrustedDevice(r) PROVE SignInInv'
<1> USE DEF SignInInv
<1>1. UNCHANGED <<account, login_token, signedIn, setups, lost, asked, uses, tokenUses, stale, doubt>>
  BY DEF RegisterTrustedDevice
<1>2. /\ trusted' \subseteq proven' /\ proven \subseteq proven' /\ proven' \subseteq Device
  BY DEF RegisterTrustedDevice, FactorShape
<1> DEFINE to == [step |-> "session", proof |-> "code"]
<1>3. to \in FactorCarried /\ Carries(r, to)
  BY DEF RegisterTrustedDevice, ToSession, FactorCarried
<1>4. /\ request' \in [Request -> FactorCarried] /\ request'[r] = to
      /\ \A q \in Request \ {r} : request'[q] = request[q]
  BY <1>3, FactorTaken DEF FactorShape
<1>5. request'[r].step = "session" /\ request'[r].proof = "code"
  BY <1>4
<1>6. FactorShape'
  BY <1>1, <1>2, <1>4 DEF FactorShape
<1>7. TokensOK'
  BY <1>1, <1>6, TokensKept
<1>8. TokenKnown' /\ ReadingOK' /\ SecondFactorAsked'
  BY <1>1, <1>2, <1>4, <1>5, RequestsKept, {r} \in SUBSET Request DEF At
<1>9. QED
  BY <1>1, <1>6, <1>7, <1>8, RowKept

\* The row is written, with a new set-up or with none: what was asked for.
LEMMA AccountSet ==
  ASSUME SignInInv, NEW r \in Request, NEW to \in FactorRow,
         Writes(r, to), asked' = to, setups' \in 0 .. MaxSetups,
         uses' = [c \in BackupCode |-> 0], doubt' = doubt \ {"account"},
         UNCHANGED <<table, signedIn>>, request' \in [Request -> FactorCarried],
         ~At(r, "rewrite"), ~At(r, "session"), request'[r].step \in {"idle", "disable"},
         \A q \in Request \ {r} : request'[q] = request[q]
  PROVE  SignInInv'
<1> USE TwoFactorAssumption DEF SignInInv
<1>1. account' = to /\ stale' = (stale \cup Holds) \ {r}
  BY DEF Writes
<1>2. FactorShape'
  BY <1>1 DEF FactorShape, table
<1>3. TokensOK'
  BY <1>2, TokensKept DEF table
<1>4. TokenKnown' /\ ReadingOK' /\ SecondFactorAsked'
  <2>1. \A q \in Request \ {r} :
          /\ q \in stale => q \in stale'
          /\ (At(q, "rewrite") \/ At(q, "session")) => q \in stale'
    BY <1>1 DEF Holds, At
  <2>2. QED
    BY <2>1, RequestsKept, {r} \in SUBSET Request DEF table, At
<1>5. CodesOK' /\ AskedOK'
  BY <1>1 DEF CodesOK, AskedOK
<1>6. QED
  BY <1>2, <1>3, <1>4, <1>5

\* A new secret with all its backup codes.
LEMMA Setup2FAStep == ASSUME SignInInv, NEW r \in Request, Setup2FA(r) PROVE SignInInv'
<1> USE TwoFactorAssumption
<1>1. /\ setups' = setups + 1 /\ setups' \in 1 .. MaxSetups
      /\ asked' = [enabled |-> TRUE, setup |-> setups', codes |-> BackupCode]
  BY DEF Setup2FA, SignInInv, FactorShape
<1>2. asked' \in FactorRow
  <2>1. asked' \in [enabled : BOOLEAN, setup : 0 .. MaxSetups, codes : SUBSET BackupCode]
    BY <1>1
  <2>2. asked'.enabled /\ asked'.setup > 0
    BY <1>1
  <2>3. QED
    BY <2>1, <2>2 DEF FactorRow
<1>3. /\ At(r, "idle") /\ Writes(r, asked') /\ uses' = [c \in BackupCode |-> 0]
      /\ doubt' = doubt \ {"account"} /\ UNCHANGED <<table, signedIn, request>>
  BY DEF Setup2FA
<1>4. request \in [Request -> FactorCarried]
  BY DEF SignInInv, FactorShape
<1>5. QED
  BY <1>1, <1>2, <1>3, <1>4, AccountSet DEF At

\* The row is read for its removal.
LEMMA Disable2FAReadsStep == ASSUME SignInInv, NEW r \in Request, Disable2FAReads(r) PROVE SignInInv'
<1> USE DEF SignInInv
<1>1. /\ UNCHANGED <<account, table, signedIn, setups, lost, asked, uses, doubt>>
      /\ stale' = stale \ {r} /\ Carries(r, [step |-> "disable"])
  BY DEF Disable2FAReads, Reads
<1>2. [step |-> "disable"] \in FactorCarried
  BY DEF FactorCarried
<1>3. /\ request' \in [Request -> FactorCarried] /\ request'[r] = [step |-> "disable"]
      /\ \A q \in Request \ {r} : request'[q] = request[q]
  BY <1>1, <1>2, FactorTaken DEF FactorShape
<1>4. request'[r].step = "disable"
  BY <1>3
<1>5. FactorShape'
  BY <1>1, <1>3 DEF FactorShape, table
<1>6. TokensOK'
  BY <1>1, <1>5, TokensKept DEF table
<1>7. TokenKnown' /\ ReadingOK' /\ SecondFactorAsked'
  BY <1>1, <1>3, <1>4, RequestsKept, {r} \in SUBSET Request DEF table, At
<1>8. QED
  BY <1>1, <1>5, <1>6, <1>7, RowKept

\* The second factor is removed, or its removal fails.
LEMMA Disable2FAStep == ASSUME SignInInv, NEW r \in Request, Disable2FA(r) PROVE SignInInv'
<1>1. /\ request' \in [Request -> FactorCarried] /\ request'[r] = Idle
      /\ \A q \in Request \ {r} : request'[q] = request[q]
  BY IdleCarried, FactorTaken DEF Disable2FA, SignInInv, FactorShape
<1>2. request'[r].step = "idle" /\ At(r, "disable") /\ UNCHANGED <<table, signedIn, setups>>
  BY <1>1 DEF Disable2FA, Idle
<1>3. CASE /\ Writes(r, Off) /\ asked' = Off
           /\ uses' = [c \in BackupCode |-> 0] /\ doubt' = doubt \ {"account"}
  <2>1. Off \in FactorRow
    BY OffIsRow
  <2>2. setups' \in 0 .. MaxSetups
    BY <1>2 DEF SignInInv, FactorShape
  <2>3. QED
    BY <1>1, <1>2, <1>3, <2>1, <2>2, AccountSet DEF At
<1>4. CASE UNCHANGED <<account, asked, uses, stale, doubt>>
  <2> USE DEF SignInInv
  <2>1. FactorShape'
    BY <1>1, <1>2, <1>4 DEF FactorShape, table
  <2>2. TokensOK'
    BY <1>2, <1>4, <2>1, TokensKept DEF table
  <2>3. TokenKnown' /\ ReadingOK' /\ SecondFactorAsked'
    BY <1>1, <1>2, <1>4, RequestsKept, {r} \in SUBSET Request DEF table, At
  <2>4. QED
    BY <1>4, <2>1, <2>2, <2>3, RowKept
<1>5. QED
  BY <1>3, <1>4 DEF Disable2FA

\* A session ends, a device is revoked, or a token or a device expires.
LEMMA EndingStep ==
  ASSUME SignInInv, HandleLogout \/ RevokeTrustedDevice \/ Expire PROVE SignInInv'
<1> USE DEF SignInInv
<1>1. /\ UNCHANGED <<account, request, setups, asked, uses, tokenUses, proven, stale, doubt>>
      /\ trusted' \subseteq trusted /\ signedIn' \in BOOLEAN
  BY DEF HandleLogout, RevokeTrustedDevice, Expire, table, FactorShape
<1>2. /\ login_token' \in [LoginToken -> {"none", "live", "expired", "gone"}]
      /\ \A t \in LoginToken : /\ login_token[t] = "gone" => login_token'[t] = "gone"
                               /\ login_token[t] # "none" => login_token'[t] # "none"
  BY DEF HandleLogout, RevokeTrustedDevice, Expire, table, FactorShape
<1>3. FactorShape'
  BY <1>1, <1>2 DEF FactorShape
<1>4. TokensOK'
  BY <1>1, <1>2, <1>3, TokensKept
<1>5. TokenKnown' /\ ReadingOK' /\ SecondFactorAsked'
  BY <1>1, <1>2, RequestsKept, {} \in SUBSET Request
<1>6. QED
  BY <1>1, <1>3, <1>4, <1>5, RowKept

\* The process restarts without its sessions and requests.
LEMMA RestartStep == ASSUME SignInInv, Restart PROVE SignInInv'
<1> USE DEF SignInInv
<1>1. /\ UNCHANGED <<account, table, setups, lost, asked, uses, doubt>>
      /\ signedIn' = FALSE /\ request' = [r \in Request |-> Idle]
  BY DEF Restart
<1>2. \A q \in Request : request'[q].step = "idle"
  BY <1>1 DEF Idle
<1>3. FactorShape'
  BY <1>1, IdleCarried DEF FactorShape, table
<1>4. TokensOK'
  BY <1>1, <1>3, TokensKept DEF table
<1>5. TokenKnown' /\ ReadingOK' /\ SecondFactorAsked'
  BY <1>1, <1>2, RequestsKept, Request \in SUBSET Request DEF table, At
<1>6. QED
  BY <1>1, <1>3, <1>4, <1>5, RowKept

\* At the start no request is under way.
LEMMA FactorInitially == FactorInit => SignInInv
<1> SUFFICES ASSUME FactorInit PROVE SignInInv
  OBVIOUS
<1>1. \A q \in Request : request[q].step = "idle"
  BY DEF FactorInit, Idle
<1>2. FactorShape
  <2>1. account \in FactorRow /\ asked \in FactorRow
    BY OffIsRow DEF FactorInit
  <2>2. request \in [Request -> FactorCarried]
    BY IdleCarried DEF FactorInit
  <2>3. /\ login_token \in [LoginToken -> {"none", "live", "expired", "gone"}]
        /\ uses \in [BackupCode -> Nat] /\ tokenUses \in [LoginToken -> Nat]
    BY DEF FactorInit
  <2>4. trusted \subseteq proven /\ proven \subseteq Device /\ signedIn \in BOOLEAN
    BY DEF FactorInit
  <2>5. setups \in 0 .. MaxSetups
    BY TwoFactorAssumption DEF FactorInit
  <2>6. QED
    BY <2>1, <2>2, <2>3, <2>4, <2>5 DEF FactorShape
<1>3. QED
  BY <1>1, <1>2 DEF FactorInit, SignInInv, TokensOK, TokenKnown, ReadingOK, CodesOK, AskedOK,
     SecondFactorAsked, At

\* Every step keeps the invariant.
LEMMA FactorStep == SignInInv /\ [FactorNext]_factorVars => SignInInv'
<1> SUFFICES ASSUME SignInInv, [FactorNext]_factorVars PROVE SignInInv'
  OBVIOUS
<1>1. ASSUME NEW r \in Request, Calls(r) PROVE SignInInv'
  BY <1>1, GetUserStep, APIGetUserStep, IsTrustedDeviceStep, createSessionStep,
     ValidateLoginTokenStep, ConsumeLoginTokenStep, Verify2FAStep, VerifyBackupCodeStep,
     ConsumeBackupCodeStep, RegisterTrustedDeviceStep, Setup2FAStep, Disable2FAReadsStep,
     Disable2FAStep
  DEF Calls
<1>2. CASE UNCHANGED factorVars
  <2>1. UNCHANGED <<account, login_token, trusted, signedIn, request, setups, asked, uses,
                    tokenUses, proven, stale, doubt>>
    BY <1>2 DEF factorVars
  <2>2. FactorShape'
    BY <2>1 DEF SignInInv, FactorShape
  <2>3. TokensOK'
    BY <2>1, <2>2, TokensKept DEF SignInInv
  <2>4. TokenKnown' /\ ReadingOK' /\ SecondFactorAsked'
    BY <2>1, RequestsKept, {} \in SUBSET Request DEF SignInInv
  <2>5. QED
    BY <2>1, <2>2, <2>3, <2>4, RowKept DEF SignInInv
<1>3. QED
  BY <1>1, <1>2, EndingStep, RestartStep DEF FactorNext

\* The invariant holds through any interleaving of logins, verifications,
\* set-ups and removals, lost writes and restarts.
THEOREM FactorInv == FactorSpec => []SignInInv
BY FactorInitially, FactorStep, PTL DEF FactorSpec

\* Nobody signs in to an account that asks for a second factor without one: the
\* session follows a right code, or a device registered after one, or a set-up
\* that came after the login had read the account.
THEOREM SignInAsksForCode == FactorSpec => []SecondFactorAsked
BY FactorInv, PTL DEF SignInInv

\* What the invariant says of tokens, codes and the set-up.
LEMMA StandsWhole == SignInInv => FactorsStand
<1> SUFFICES ASSUME SignInInv PROVE FactorsStand
  OBVIOUS
<1>1. \A t \in LoginToken : tokenUses[t] > 1 => t \in doubt
  BY DEF SignInInv, TokensOK
<1>2. "account" \in doubt \/ \A c \in BackupCode : uses[c] <= 1
  BY DEF SignInInv, CodesOK
<1>3. "account" \in doubt \/ [account EXCEPT !.codes = asked.codes] = asked
  <2>1. CASE account.enabled = asked.enabled /\ account.setup = asked.setup
    BY <2>1 DEF SignInInv, FactorShape, FactorRow
  <2>2. QED
    BY <2>1 DEF SignInInv, AskedOK
<1>4. QED
  BY <1>1, <1>2, <1>3 DEF FactorsStand

\* Login tokens and backup codes serve once, and the set-up in the row is the one
\* asked for last, unless a write failed or a request wrote back an outdated row.
THEOREM FactorsHold == FactorSpec => []FactorsStand
BY StandsWhole, FactorInv, PTL

LEMMA FactorTypes == SignInInv => FactorTypeOK
BY DEF SignInInv, FactorShape, FactorRow, TokensOK, FactorTypeOK

\* Rows, tokens, devices and set-ups stay within what there is of them.
THEOREM FactorTypeCorrect == FactorSpec => []FactorTypeOK
BY FactorTypes, FactorInv, PTL

-----------------------------------------------------------------------------
(* Authorization codes and tokens                                          *)

Consent == {given \in [user : User, program : Program] : given # NotFound}
\* What a request to the token endpoint holds at each of its steps.
Redeeming ==
  {NotRedeeming} \cup [step : {"code"}, program : Program]
    \cup [step : {"mark", "token"}, code : AuthCode, for : Consent]
    \cup [step : {"answer"}, code : AuthCode, token : AccessToken]
CodeRow == [client : Consent, until : Nat, used : BOOLEAN]
TokenRow == [client : Consent, until : Nat]

OAuthShape ==
  /\ oauth = [clients |-> oauth.clients, codes |-> oauth.codes, tokens |-> oauth.tokens]
  /\ ticks \in Nat
  /\ consent \in [AuthCode -> Consent \cup {NotFound}]
  /\ DOMAIN oauth.codes = {c \in AuthCode : consent[c] # NotFound}
  /\ \A c \in DOMAIN oauth.codes : oauth.codes[c] \in CodeRow /\ oauth.codes[c].client = consent[c]
  /\ DOMAIN oauth.tokens \subseteq AccessToken
  /\ \A t \in DOMAIN oauth.tokens : oauth.tokens[t] \in TokenRow
  /\ redemption \in [Redemption -> Redeeming]
  /\ answered \in [AuthCode -> SUBSET AccessToken]

\* The token is with the client for the code, or on its way.
Gives(c, t) == \/ t \in answered[c]
               \/ \E r \in Redemption : /\ redemption[r].step = "answer"
                                        /\ redemption[r].code = c /\ redemption[r].token = t
\* The request was let through the mark of its code.
Past(r, c) == redemption[r].step \in {"token", "answer"} /\ redemption[r].code = c

\* A request and a token speak for whoever approved the code.
ForConsent ==
  /\ \A r \in Redemption : redemption[r].step \in {"mark", "token"} =>
       redemption[r].for = consent[redemption[r].code]
  /\ \A c \in AuthCode, t \in AccessToken : Gives(c, t) =>
       /\ consent[c] # NotFound
       /\ t \in DOMAIN oauth.tokens => oauth.tokens[t].client = consent[c]

\* The one request past the mark of a code is the one that marked it, and has
\* not answered yet; afterwards there is the one token it answered.
MarkedOnce ==
  \A c \in AuthCode \ overlap :
    /\ \A r \in Redemption : Past(r, c) =>
         /\ c \in DOMAIN oauth.codes /\ oauth.codes[c].used /\ answered[c] = {}
         /\ \A q \in Redemption : Past(q, c) => q = r
    /\ answered[c] # {} => c \in DOMAIN oauth.codes /\ oauth.codes[c].used
    /\ \A t, u \in answered[c] : t = u

OAuthInv == OAuthShape /\ ForConsent /\ MarkedOnce

\* What a request holds follows from its step.
LEMMA RedeemingAt ==
  ASSUME redemption \in [Redemption -> Redeeming], NEW r \in Redemption
  PROVE  /\ redemption[r].step \in {"idle", "code", "mark", "token", "answer"}
         /\ redemption[r].step = "code" => redemption[r].program \in Program
         /\ redemption[r].step \in {"mark", "token"} =>
              redemption[r] \in [step : {"mark", "token"}, code : AuthCode, for : Consent]
         /\ redemption[r].step = "answer" =>
              redemption[r].code \in AuthCode /\ redemption[r].token \in AccessToken
<1>1. redemption[r] \in Redeeming
  OBVIOUS
<1>2. QED
  BY <1>1 DEF Redeeming, NotRedeeming

\* A request goes on; the others are where they were.
LEMMA RedeemingMoves ==
  ASSUME redemption \in [Redemption -> Redeeming], NEW r \in Redemption, NEW next \in Redeeming,
         Moves(r, next)
  PROVE  /\ redemption' \in [Redemption -> Redeeming]
         /\ redemption'[r] = next
         /\ \A q \in Redemption : q # r => redemption'[q] = redemption[q]
BY DEF Moves

\* CreateOAuthCode adds the code and nothing else.
LEMMA CodeStored ==
  ASSUME OAuthShape, NEW c \in AuthCode, c \notin DOMAIN oauth.codes, NEW given, NEW until,
         NEW db, db = S!CreateOAuthCode(oauth, c, given, until).db
  PROVE  /\ db = [clients |-> db.clients, codes |-> db.codes, tokens |-> db.tokens]
         /\ db.tokens = oauth.tokens
         /\ DOMAIN db.codes = DOMAIN oauth.codes \cup {c}
         /\ db.codes[c] = [client |-> given, until |-> until, used |-> FALSE]
         /\ \A d \in DOMAIN oauth.codes : db.codes[d] = oauth.codes[d]
<1> DEFINE new == [k \in DOMAIN oauth.codes \cup {c} |->
                     IF k = c THEN [client |-> given, until |-> until, used |-> FALSE]
                     ELSE oauth.codes[k]]
<1>1. db = [oauth EXCEPT !["codes"] = new]
  BY DEF S!CreateOAuthCode, S!INSERT, S!Has, S!Done, S!With
<1> HIDE DEF new
<1>2. db = [clients |-> oauth.clients, codes |-> new, tokens |-> oauth.tokens]
  BY <1>1 DEF OAuthShape
<1>3. QED
  BY <1>2 DEF new

\* MarkOAuthCodeUsed changes the one column of the one code.
LEMMA CodeMarked ==
  ASSUME OAuthShape, NEW c \in DOMAIN oauth.codes,
         NEW db, db = S!MarkOAuthCodeUsed(oauth, c).db
  PROVE  /\ db = [clients |-> db.clients, codes |-> db.codes, tokens |-> db.tokens]
         /\ db.tokens = oauth.tokens
         /\ DOMAIN db.codes = DOMAIN oauth.codes
         /\ db.codes[c] \in CodeRow /\ db.codes[c].client = oauth.codes[c].client
         /\ db.codes[c].used
         /\ \A d \in DOMAIN oauth.codes : d # c => db.codes[d] = oauth.codes[d]
<1> DEFINE row == S!Over([used |-> TRUE], oauth.codes[c])
           new == [k \in DOMAIN oauth.codes \cup {c} |-> IF k = c THEN row ELSE oauth.codes[k]]
<1>1. db = [oauth EXCEPT !["codes"] = new]
  BY DEF S!MarkOAuthCodeUsed, S!UPDATE, S!Has, S!Done, S!With
<1>2. oauth.codes[c] \in CodeRow
  BY DEF OAuthShape
<1>3. row = [a \in {"client", "until", "used"} |-> IF a = "used" THEN TRUE ELSE oauth.codes[c][a]]
  <2>1. DOMAIN oauth.codes[c] = {"client", "until", "used"}
    BY <1>2 DEF CodeRow
  <2>2. DOMAIN [used |-> TRUE] = {"used"} /\ [used |-> TRUE]["used"] = TRUE
    OBVIOUS
  <2>3. QED
    BY <2>1, <2>2 DEF S!Over
<1> HIDE DEF row
<1>4. row \in CodeRow /\ row.client = oauth.codes[c].client /\ row.used
  <2>1. row = [client |-> oauth.codes[c].client, until |-> oauth.codes[c].until, used |-> TRUE]
    BY <1>3
  <2>2. QED
    BY <1>2, <2>1 DEF CodeRow
<1> HIDE DEF new
<1>5. db = [clients |-> oauth.clients, codes |-> new, tokens |-> oauth.tokens]
  BY <1>1 DEF OAuthShape
<1>6. /\ DOMAIN new = DOMAIN oauth.codes /\ new[c] = row
      /\ \A d \in DOMAIN oauth.codes : d # c => new[d] = oauth.codes[d]
  BY DEF new
<1>7. QED
  BY <1>4, <1>5, <1>6

\* CreateOAuthToken adds the token and nothing else.
LEMMA TokenStored ==
  ASSUME OAuthShape, NEW t \in AccessToken, t \notin DOMAIN oauth.tokens, NEW given, NEW until,
         NEW db, db = S!CreateOAuthToken(oauth, t, given, until).db
  PROVE  /\ db = [clients |-> db.clients, codes |-> db.codes, tokens |-> db.tokens]
         /\ db.codes = oauth.codes
         /\ DOMAIN db.tokens = DOMAIN oauth.tokens \cup {t}
         /\ db.tokens[t] = [client |-> given, until |-> until]
         /\ \A u \in DOMAIN oauth.tokens : db.tokens[u] = oauth.tokens[u]
<1> DEFINE new == [k \in DOMAIN oauth.tokens \cup {t} |->
                     IF k = t THEN [client |-> given, until |-> until] ELSE oauth.tokens[k]]
<1>1. db = [oauth EXCEPT !["tokens"] = new]
  BY DEF S!CreateOAuthToken, S!INSERT, S!Has, S!Done, S!With
<1> HIDE DEF new
<1>2. db = [clients |-> oauth.clients, codes |-> oauth.codes, tokens |-> new]
  BY <1>1 DEF OAuthShape
<1>3. QED
  BY <1>2 DEF new

\* DeleteOAuthClient leaves codes and tokens, whoever they were for.
LEMMA ClientDeleted ==
  ASSUME OAuthShape, NEW p, NEW db, db = S!DeleteOAuthClient(oauth, p).db
  PROVE  /\ db = [clients |-> db.clients, codes |-> db.codes, tokens |-> db.tokens]
         /\ db.codes = oauth.codes /\ db.tokens = oauth.tokens
<1> DEFINE new == [k \in DOMAIN oauth.clients \ {p} |-> oauth.clients[k]]
<1>1. db = [oauth EXCEPT !["clients"] = new]
  BY DEF S!DeleteOAuthClient, S!DELETE, S!Done, S!Without
<1> HIDE DEF new
<1>2. QED
  BY <1>1 DEF OAuthShape

\* Requests that begin, read or end change nothing of what the others hold.
LEMMA NothingRedeemed ==
  ASSUME OAuthInv, OAuthShape', UNCHANGED <<consent, answered, overlap>>,
         oauth'.codes = oauth.codes, oauth'.tokens = oauth.tokens,
         \A r \in Redemption :
           \/ redemption'[r] = redemption[r]
           \/ redemption'[r].step \in {"idle", "code"}
           \/ redemption'[r].step = "mark" /\ redemption'[r].for = consent[redemption'[r].code]
  PROVE  OAuthInv'
<1>1. \A r \in Redemption : \A c : Past(r, c)' => Past(r, c)
  BY DEF Past
<1>2. \A c, t : Gives(c, t)' => Gives(c, t)
  BY DEF Gives
<1>3. ForConsent'
  BY <1>2 DEF OAuthInv, ForConsent
<1>4. MarkedOnce'
  BY <1>1 DEF OAuthInv, MarkedOnce
<1>5. QED
  BY <1>3, <1>4 DEF OAuthInv

LEMMA ReadsStep ==
  ASSUME OAuthInv, NEW r \in Redemption, ReadClient(r) \/ ReadCode(r)
  PROVE  OAuthInv'
<1>1. OAuthShape /\ UNCHANGED <<ticks, oauth, consent, answered, overlap>>
  BY DEF OAuthInv, ReadClient, ReadCode
<1>2. PICK next \in Redeeming :
        /\ Moves(r, next)
        /\ \/ next.step \in {"idle", "code"}
           \/ next.step = "mark" /\ next.for = consent[next.code]
  <2>1. CASE ReadClient(r)
    BY <2>1 DEF ReadClient, Redeeming
  <2>2. CASE ReadCode(r)
    <3>1. NotRedeeming \in Redeeming /\ NotRedeeming.step = "idle"
      BY DEF Redeeming, NotRedeeming
    <3>2. PICK c, p, row :
            /\ c \in AuthCode /\ row = S!GetOAuthCode(oauth, c)
            /\ IF Usable(row, p) THEN Moves(r, [step |-> "mark", code |-> c, for |-> row.client])
                                 ELSE Moves(r, NotRedeeming)
      BY <2>2 DEF ReadCode
    <3>3. CASE Usable(row, p)
      <4>1. c \in DOMAIN oauth.codes /\ row = oauth.codes[c]
        BY <3>2, <3>3 DEF Usable, S!GetOAuthCode, S!Found, S!Has
      <4>2. row.client = consent[c] /\ row.client \in Consent
        BY <1>1, <4>1 DEF OAuthShape, CodeRow
      <4>3. QED
        BY <3>2, <3>3, <4>2 DEF Redeeming
    <3>4. QED
      BY <3>1, <3>2, <3>3
  <2>3. QED
    BY <2>1, <2>2
<1>3. /\ redemption' \in [Redemption -> Redeeming] /\ redemption'[r] = next
      /\ \A q \in Redemption : q # r => redemption'[q] = redemption[q]
  BY <1>1, <1>2, RedeemingMoves DEF OAuthShape
<1>4. OAuthShape'
  BY <1>1, <1>3 DEF OAuthShape
<1>5. QED
  BY <1>1, <1>2, <1>3, <1>4, NothingRedeemed

\* A new code is nobody's yet.
LEMMA IssueCodeStep == ASSUME OAuthInv, IssueCode PROVE OAuthInv'
<1>1. /\ OAuthShape /\ ForConsent /\ MarkedOnce
      /\ UNCHANGED <<ticks, redemption, answered, overlap>>
  BY DEF OAuthInv, IssueCode
<1>2. PICK c \in Unissued, u \in User, p \in Program :
        /\ consent' = [consent EXCEPT ![c] = [user |-> u, program |-> p]]
        /\ oauth' = S!CreateOAuthCode(oauth, c, consent'[c], ticks + CodeTTL).db
  BY DEF IssueCode
<1>3. c \in AuthCode /\ consent[c] = NotFound /\ c \notin DOMAIN oauth.codes
  BY <1>1, <1>2 DEF Unissued, OAuthShape
<1>4. /\ consent' \in [AuthCode -> Consent \cup {NotFound}] /\ consent'[c] \in Consent
      /\ consent'[c] # NotFound /\ \A d \in AuthCode : d # c => consent'[d] = consent[d]
  BY <1>1, <1>2, <1>3, OAuthAssumption DEF Consent, OAuthShape
<1>5. PICK db : db = S!CreateOAuthCode(oauth, c, consent'[c], ticks + CodeTTL).db
  OBVIOUS
<1>6. /\ db = [clients |-> db.clients, codes |-> db.codes, tokens |-> db.tokens]
      /\ db.tokens = oauth.tokens
      /\ DOMAIN db.codes = DOMAIN oauth.codes \cup {c}
      /\ db.codes[c] = [client |-> consent'[c], until |-> ticks + CodeTTL, used |-> FALSE]
      /\ \A d \in DOMAIN oauth.codes : db.codes[d] = oauth.codes[d]
  BY <1>1, <1>3, <1>5, CodeStored
<1>7. oauth' = db
  BY <1>2, <1>5
<1>8. OAuthShape'
  <2>1. DOMAIN db.codes = {d \in AuthCode : consent'[d] # NotFound}
    BY <1>1, <1>3, <1>4, <1>6 DEF OAuthShape
  <2>2. \A d \in DOMAIN db.codes : db.codes[d] \in CodeRow /\ db.codes[d].client = consent'[d]
    <3>1. db.codes[c] \in CodeRow /\ db.codes[c].client = consent'[c]
      BY <1>1, <1>4, <1>6, OAuthAssumption DEF CodeRow, OAuthShape
    <3>2. \A d \in DOMAIN oauth.codes :
            db.codes[d] \in CodeRow /\ db.codes[d].client = consent'[d]
      BY <1>1, <1>3, <1>4, <1>6 DEF OAuthShape
    <3>3. QED
      BY <1>6, <3>1, <3>2
  <2>3. QED
    BY <1>1, <1>4, <1>6, <1>7, <2>1, <2>2 DEF OAuthShape
<1>9. /\ \A r \in Redemption : redemption[r].step \in {"mark", "token"} => redemption[r].code # c
      /\ \A t \in AccessToken : ~Gives(c, t)
  <2>1. \A r \in Redemption : redemption[r].step \in {"mark", "token"} => redemption[r].for # NotFound
    BY <1>1, RedeemingAt DEF OAuthShape, Consent
  <2>2. QED
    BY <1>1, <1>3, <2>1 DEF ForConsent
<1>10. \A d, t : Gives(d, t)' <=> Gives(d, t)
  BY <1>1 DEF Gives
<1>11. ForConsent'
  <2>1. \A r \in Redemption : redemption[r].step \in {"mark", "token"} => redemption[r].code \in AuthCode
    BY <1>1, RedeemingAt DEF OAuthShape
  <2>2. \A r \in Redemption : redemption'[r].step \in {"mark", "token"} =>
          redemption'[r].for = consent'[redemption'[r].code]
    BY <1>1, <1>4, <1>9, <2>1 DEF ForConsent
  <2>3. QED
    BY <1>1, <1>4, <1>6, <1>7, <1>9, <1>10, <2>2 DEF ForConsent
<1>12. MarkedOnce'
  <2>1. \A r \in Redemption : \A d : Past(r, d)' <=> Past(r, d)
    BY <1>1 DEF Past
  <2>2. QED
    BY <1>1, <1>6, <1>7, <2>1 DEF MarkedOnce
<1>13. QED
  BY <1>8, <1>11, <1>12 DEF OAuthInv

\* The mark: whoever was there before makes the code one that was read twice.
LEMMA MarkStep ==
  ASSUME OAuthInv, NEW r \in Redemption, MarkOAuthCodeUsed(r)
  PROVE  OAuthInv'
<1>1. /\ OAuthShape /\ ForConsent /\ MarkedOnce
      /\ UNCHANGED <<ticks, consent, answered>> /\ redemption[r].step = "mark"
  BY DEF OAuthInv, MarkOAuthCodeUsed
<1>2. redemption[r] \in [step : {"mark", "token"}, code : AuthCode, for : Consent]
  BY <1>1, RedeemingAt DEF OAuthShape
<1>0. PICK c : c = redemption[r].code
  OBVIOUS
<1> DEFINE next == [redemption[r] EXCEPT !.step = "token"]
<1>3. /\ next \in [step : {"mark", "token"}, code : AuthCode, for : Consent]
      /\ next.step = "token" /\ next.code = c /\ next.for = redemption[r].for
  BY <1>0, <1>2
<1>4. Moves(r, next)
  BY DEF MarkOAuthCodeUsed
<1>5. next \in Redeeming
  BY <1>3 DEF Redeeming
<1> HIDE DEF next
<1>6. /\ redemption' \in [Redemption -> Redeeming] /\ redemption'[r] = next
      /\ \A q \in Redemption : q # r => redemption'[q] = redemption[q]
  BY <1>1, <1>4, <1>5, RedeemingMoves DEF OAuthShape
<1>7. c \in AuthCode /\ c \in DOMAIN oauth.codes /\ redemption[r].for = consent[c]
  BY <1>0, <1>1, <1>2 DEF OAuthShape, ForConsent, Consent
<1>8. \A d, t : Gives(d, t)' <=> Gives(d, t)
  BY <1>1, <1>3, <1>6 DEF Gives
<1>9. ASSUME oauth'.tokens = oauth.tokens PROVE ForConsent'
  <2>1. \A q \in Redemption : redemption'[q].step \in {"mark", "token"} =>
          redemption'[q].for = consent[redemption'[q].code]
    BY <1>1, <1>3, <1>6, <1>7 DEF ForConsent
  <2>2. QED
    BY <1>1, <1>8, <1>9, <2>1 DEF ForConsent
<1>10. \A q \in Redemption : \A d : d # c \/ q # r => (Past(q, d)' <=> Past(q, d))
  BY <1>1, <1>3, <1>6 DEF Past
<1>11. CASE overlap' = overlap \cup {c} /\ UNCHANGED oauth
  <2>1. OAuthShape'
    BY <1>1, <1>6, <1>11 DEF OAuthShape
  <2>2. MarkedOnce'
    BY <1>1, <1>10, <1>11 DEF MarkedOnce
  <2>3. QED
    BY <1>9, <1>11, <2>1, <2>2 DEF OAuthInv
<1>12. CASE /\ oauth' = S!MarkOAuthCodeUsed(oauth, c).db
            /\ overlap' = IF oauth.codes[c].used THEN overlap \cup {c} ELSE overlap
  <2>1. PICK db : db = S!MarkOAuthCodeUsed(oauth, c).db
    OBVIOUS
  <2>2. /\ db = [clients |-> db.clients, codes |-> db.codes, tokens |-> db.tokens]
        /\ db.tokens = oauth.tokens
        /\ DOMAIN db.codes = DOMAIN oauth.codes
        /\ db.codes[c] \in CodeRow /\ db.codes[c].client = oauth.codes[c].client
        /\ db.codes[c].used
        /\ \A d \in DOMAIN oauth.codes : d # c => db.codes[d] = oauth.codes[d]
    BY <1>1, <1>7, <2>1, CodeMarked
  <2>3. oauth' = db
    BY <1>12, <2>1
  <2>4. OAuthShape'
    <3>1. \A d \in DOMAIN db.codes : db.codes[d] \in CodeRow /\ db.codes[d].client = consent[d]
      BY <1>1, <1>7, <2>2 DEF OAuthShape
    <3>2. QED
      BY <1>1, <1>6, <2>2, <2>3, <3>1 DEF OAuthShape
  <2>5. ASSUME NEW d \in AuthCode \ overlap'
        PROVE  /\ \A q \in Redemption : Past(q, d)' =>
                    /\ d \in DOMAIN db.codes /\ db.codes[d].used /\ answered[d] = {}
                    /\ \A o \in Redemption : Past(o, d)' => o = q
               /\ answered[d] # {} => d \in DOMAIN db.codes /\ db.codes[d].used
               /\ \A t, u \in answered[d] : t = u
    <3>1. d \in AuthCode \ overlap
      BY <1>12, <2>5
    <3>2. CASE d = c
      <4>1. ~oauth.codes[c].used
        BY <1>12, <2>5, <3>2
      <4>2. answered[c] = {} /\ \A q \in Redemption : ~Past(q, c)
        BY <1>1, <3>1, <3>2, <4>1 DEF MarkedOnce
      <4>3. \A q \in Redemption : Past(q, c)' => q = r
        BY <1>10, <4>2
      <4>4. QED
        BY <1>7, <2>2, <3>2, <4>2, <4>3
    <3>3. CASE d # c
      BY <1>1, <1>10, <2>2, <3>1, <3>3 DEF MarkedOnce
    <3>4. QED
      BY <3>2, <3>3
  <2>6. MarkedOnce'
    BY <1>1, <2>3, <2>5 DEF MarkedOnce
  <2>7. QED
    BY <1>9, <2>2, <2>3, <2>4, <2>6 DEF OAuthInv
<1>13. QED
  BY <1>0, <1>11, <1>12 DEF MarkOAuthCodeUsed

\* A token is drawn that nobody has, and stored or not it goes to the request.
LEMMA CreateTokenStep ==
  ASSUME OAuthInv, NEW r \in Redemption, CreateOAuthToken(r)
  PROVE  OAuthInv'
<1>1. /\ OAuthShape /\ ForConsent /\ MarkedOnce
      /\ UNCHANGED <<ticks, consent, answered, overlap>> /\ redemption[r].step = "token"
  BY DEF OAuthInv, CreateOAuthToken
<1>2. redemption[r] \in [step : {"mark", "token"}, code : AuthCode, for : Consent]
  BY <1>1, RedeemingAt DEF OAuthShape
<1>0. PICK c, given : c = redemption[r].code /\ given = redemption[r].for
  OBVIOUS
<1>3. PICK t \in Unused : /\ Moves(r, [step |-> "answer", code |-> c, token |-> t])
                          /\ \/ oauth' = S!CreateOAuthToken(oauth, t, given, ticks + TokenTTL).db
                             \/ UNCHANGED oauth
  BY <1>0 DEF CreateOAuthToken
<1> DEFINE next == [step |-> "answer", code |-> c, token |-> t]
<1>4. t \in AccessToken /\ t \notin DOMAIN oauth.tokens /\ \A d \in AuthCode : ~Gives(d, t)
  BY <1>3 DEF Unused, Gives
<1>5. next \in Redeeming /\ next.step = "answer" /\ next.code = c /\ next.token = t
  BY <1>0, <1>2, <1>4 DEF Redeeming
<1> HIDE DEF next
<1>6. /\ redemption' \in [Redemption -> Redeeming] /\ redemption'[r] = next
      /\ \A q \in Redemption : q # r => redemption'[q] = redemption[q]
  BY <1>1, <1>3, <1>5, RedeemingMoves DEF OAuthShape, next
<1>7. c \in AuthCode /\ given = consent[c] /\ given \in Consent /\ consent[c] # NotFound
  BY <1>0, <1>1, <1>2 DEF ForConsent, Consent
<1>8. \A d, u : Gives(d, u)' => Gives(d, u) \/ (d = c /\ u = t)
  BY <1>1, <1>5, <1>6 DEF Gives
<1>9. \A q \in Redemption : \A d : Past(q, d)' <=> Past(q, d)
  BY <1>0, <1>1, <1>5, <1>6 DEF Past
<1>10. \A q \in Redemption : redemption'[q].step \in {"mark", "token"} =>
          redemption'[q].for = consent[redemption'[q].code]
  BY <1>1, <1>5, <1>6 DEF ForConsent
<1>11. CASE UNCHANGED oauth
  <2>1. OAuthShape'
    BY <1>1, <1>6, <1>11 DEF OAuthShape
  <2>2. ForConsent'
    BY <1>1, <1>4, <1>7, <1>8, <1>10, <1>11 DEF ForConsent
  <2>3. MarkedOnce'
    BY <1>1, <1>9, <1>11 DEF MarkedOnce
  <2>4. QED
    BY <2>1, <2>2, <2>3 DEF OAuthInv
<1>12. CASE oauth' = S!CreateOAuthToken(oauth, t, given, ticks + TokenTTL).db
  <2>1. PICK db : db = S!CreateOAuthToken(oauth, t, given, ticks + TokenTTL).db
    OBVIOUS
  <2>2. /\ db = [clients |-> db.clients, codes |-> db.codes, tokens |-> db.tokens]
        /\ db.codes = oauth.codes
        /\ DOMAIN db.tokens = DOMAIN oauth.tokens \cup {t}
        /\ db.tokens[t] = [client |-> given, until |-> ticks + TokenTTL]
        /\ \A u \in DOMAIN oauth.tokens : db.tokens[u] = oauth.tokens[u]
    BY <1>1, <1>4, <2>1, TokenStored
  <2>3. oauth' = db
    BY <1>12, <2>1
  <2>4. OAuthShape'
    <3>1. db.tokens[t] \in TokenRow
      BY <1>1, <1>7, <2>2, OAuthAssumption DEF OAuthShape, TokenRow
    <3>2. /\ DOMAIN db.tokens \subseteq AccessToken
          /\ \A u \in DOMAIN db.tokens : db.tokens[u] \in TokenRow
      BY <1>1, <1>4, <2>2, <3>1 DEF OAuthShape
    <3>3. QED
      BY <1>1, <1>6, <2>2, <2>3, <3>2 DEF OAuthShape
  <2>5. ForConsent'
    <3>1. ASSUME NEW d \in AuthCode, NEW u \in AccessToken, Gives(d, u)'
          PROVE  consent[d] # NotFound /\ (u \in DOMAIN db.tokens => db.tokens[u].client = consent[d])
      <4>1. CASE d = c /\ u = t
        BY <1>7, <2>2, <4>1
      <4>2. CASE Gives(d, u)
        <5>1. u # t
          BY <1>4, <4>2
        <5>2. QED
          BY <1>1, <2>2, <4>2, <5>1 DEF ForConsent
      <4>3. QED
        BY <1>8, <3>1, <4>1, <4>2
    <3>2. QED
      BY <1>1, <1>10, <2>3, <3>1 DEF ForConsent
  <2>6. MarkedOnce'
    BY <1>1, <1>9, <2>2, <2>3 DEF MarkedOnce
  <2>7. QED
    BY <2>4, <2>5, <2>6 DEF OAuthInv
<1>13. QED
  BY <1>3, <1>11, <1>12

\* The client has its token.
LEMMA AnswerStep ==
  ASSUME OAuthInv, NEW r \in Redemption, Answer(r)
  PROVE  OAuthInv'
<1>1. /\ OAuthShape /\ ForConsent /\ MarkedOnce
      /\ UNCHANGED <<ticks, oauth, consent, overlap>> /\ redemption[r].step = "answer"
      /\ Moves(r, NotRedeeming)
  BY DEF OAuthInv, Answer
<1>0. PICK c, t : c = redemption[r].code /\ t = redemption[r].token
  OBVIOUS
<1>2. /\ c \in AuthCode /\ t \in AccessToken
      /\ NotRedeeming \in Redeeming /\ NotRedeeming.step = "idle"
  BY <1>0, <1>1, RedeemingAt DEF OAuthShape, Redeeming, NotRedeeming
<1>3. /\ redemption' \in [Redemption -> Redeeming] /\ redemption'[r].step = "idle"
      /\ \A q \in Redemption : q # r => redemption'[q] = redemption[q]
  BY <1>1, <1>2, RedeemingMoves DEF OAuthShape
<1>4. /\ answered' \in [AuthCode -> SUBSET AccessToken]
      /\ answered'[c] = answered[c] \cup {t}
      /\ \A d \in AuthCode : d # c => answered'[d] = answered[d]
  BY <1>0, <1>1, <1>2 DEF OAuthShape, Answer
<1>5. OAuthShape'
  BY <1>1, <1>3, <1>4 DEF OAuthShape
<1>6. Past(r, c) /\ Gives(c, t)
  BY <1>0, <1>1 DEF Past, Gives
<1>7. \A d \in AuthCode : \A u : Gives(d, u)' => Gives(d, u)
  BY <1>1, <1>3, <1>4, <1>6 DEF Gives
<1>8. ForConsent'
  <2>1. \A q \in Redemption : redemption'[q].step \in {"mark", "token"} =>
          redemption'[q].for = consent[redemption'[q].code]
    BY <1>1, <1>3 DEF ForConsent
  <2>2. QED
    BY <1>1, <1>7, <2>1 DEF ForConsent
<1>9. \A q \in Redemption : \A d : Past(q, d)' => q # r /\ Past(q, d)
  BY <1>3 DEF Past
<1>10. MarkedOnce'
  <2>1. SUFFICES ASSUME NEW d \in AuthCode \ overlap
        PROVE  /\ \A q \in Redemption : Past(q, d)' =>
                    /\ d \in DOMAIN oauth.codes /\ oauth.codes[d].used /\ answered'[d] = {}
                    /\ \A o \in Redemption : Past(o, d)' => o = q
               /\ answered'[d] # {} => d \in DOMAIN oauth.codes /\ oauth.codes[d].used
               /\ \A u, v \in answered'[d] : u = v
    BY <1>1 DEF MarkedOnce
  <2>2. CASE d = c
    <3>1. /\ c \in DOMAIN oauth.codes /\ oauth.codes[c].used /\ answered[c] = {}
          /\ \A q \in Redemption : Past(q, c) => q = r
      BY <1>1, <1>6, <2>1, <2>2 DEF MarkedOnce
    <3>2. answered'[c] = {t} /\ \A q \in Redemption : ~Past(q, c)'
      BY <1>4, <1>9, <3>1
    <3>3. QED
      BY <2>2, <3>1, <3>2
  <2>3. CASE d # c
    BY <1>1, <1>4, <1>9, <2>1, <2>3 DEF MarkedOnce
  <2>4. QED
    BY <2>2, <2>3
<1>11. QED
  BY <1>5, <1>8, <1>10 DEF OAuthInv

\* No code has been issued when the server starts.
LEMMA OAuthInitially == OAuthInit => OAuthInv
<1> SUFFICES ASSUME OAuthInit PROVE OAuthInv
  OBVIOUS
<1>1. /\ oauth = [clients |-> oauth.clients, codes |-> <<>>, tokens |-> <<>>]
      /\ \A c \in AuthCode : consent[c] = NotFound /\ answered[c] = {}
      /\ \A r \in Redemption : redemption[r] = NotRedeeming
  BY DEF OAuthInit
<1>2. OAuthShape
  <2>1. DOMAIN oauth.codes = {} /\ DOMAIN oauth.tokens = {}
    BY <1>1
  <2>2. redemption \in [Redemption -> Redeeming]
    BY DEF OAuthInit, Redeeming
  <2>3. oauth = [clients |-> oauth.clients, codes |-> oauth.codes, tokens |-> oauth.tokens]
    BY <1>1
  <2>4. /\ ticks \in Nat /\ consent \in [AuthCode -> Consent \cup {NotFound}]
        /\ answered \in [AuthCode -> SUBSET AccessToken]
    BY DEF OAuthInit
  <2>5. QED
    BY <1>1, <2>1, <2>2, <2>3, <2>4 DEF OAuthShape
<1>3. \A r \in Redemption : redemption[r].step = "idle"
  BY <1>1 DEF NotRedeeming
<1>4. QED
  BY <1>1, <1>2, <1>3 DEF OAuthInv, ForConsent, MarkedOnce, Past, Gives

\* Every step keeps the invariant.
LEMMA OAuthStep == OAuthInv /\ [OAuthNext]_oauthVars => OAuthInv'
<1> SUFFICES ASSUME OAuthInv, [OAuthNext]_oauthVars PROVE OAuthInv'
  OBVIOUS
<1>1. OAuthShape
  BY DEF OAuthInv
<1>2. ASSUME NEW r \in Redemption, HandleToken(r) PROVE OAuthInv'
  BY <1>2, ReadsStep, MarkStep, CreateTokenStep, AnswerStep DEF HandleToken
<1>3. CASE IssueCode
  BY <1>3, IssueCodeStep
<1>4. CASE DeleteClient
  <2>1. PICK p : oauth' = S!DeleteOAuthClient(oauth, p).db
    BY <1>4 DEF DeleteClient
  <2>2. PICK db : db = S!DeleteOAuthClient(oauth, p).db
    OBVIOUS
  <2>3. /\ db = [clients |-> db.clients, codes |-> db.codes, tokens |-> db.tokens]
        /\ db.codes = oauth.codes /\ db.tokens = oauth.tokens
    BY <1>1, <2>2, ClientDeleted
  <2>4. oauth' = db /\ UNCHANGED <<ticks, consent, redemption, answered, overlap>>
    BY <1>4, <2>1, <2>2 DEF DeleteClient
  <2>5. OAuthShape'
    BY <1>1, <2>3, <2>4 DEF OAuthShape
  <2>6. QED
    BY <2>3, <2>4, <2>5, NothingRedeemed
<1>5. CASE OAuthRestart
  <2>1. /\ UNCHANGED <<ticks, oauth, consent, answered, overlap>>
        /\ redemption' \in [Redemption -> Redeeming]
        /\ \A r \in Redemption : redemption'[r].step = "idle"
    BY <1>5 DEF OAuthRestart, Redeeming, NotRedeeming
  <2>2. OAuthShape'
    BY <1>1, <2>1 DEF OAuthShape
  <2>3. QED
    BY <2>1, <2>2, NothingRedeemed
<1>6. CASE OAuthTick \/ UNCHANGED oauthVars
  <2>1. UNCHANGED <<oauth, consent, redemption, answered, overlap>> /\ ticks' \in Nat
    BY <1>1, <1>6 DEF OAuthTick, oauthVars, OAuthShape
  <2>2. OAuthShape'
    BY <1>1, <2>1 DEF OAuthShape
  <2>3. QED
    BY <2>1, <2>2, NothingRedeemed
<1>7. QED
  BY <1>2, <1>3, <1>4, <1>5, <1>6 DEF OAuthNext

\* The invariant holds through any interleaving of redemptions, lost writes,
\* removed programs and restarts.
THEOREM RedemptionInv == OAuthSpec => []OAuthInv
BY OAuthInitially, OAuthStep, PTL DEF OAuthSpec

\* What the invariant says of codes and of the tokens answered for them.
LEMMA RedeemedOnce == OAuthInv => CodesRedeemedOnce
<1> SUFFICES ASSUME OAuthInv PROVE CodesRedeemedOnce
  OBVIOUS
<1>1. \A c \in AuthCode \ overlap : \A t, u \in answered[c] : t = u
  BY DEF OAuthInv, MarkedOnce
<1>2. ASSUME NEW c \in AuthCode, NEW t \in answered[c]
      PROVE  HandleUserInfo(t) \in {NotFound, consent[c]}
  <2>1. t \in AccessToken /\ Gives(c, t)
    BY DEF OAuthInv, OAuthShape, Gives
  <2>2. t \in DOMAIN oauth.tokens => oauth.tokens[t].client = consent[c]
    BY <2>1 DEF OAuthInv, ForConsent
  <2>3. QED
    BY <2>2 DEF HandleUserInfo, S!GetOAuthToken, S!Found, S!Has
<1>3. QED
  BY <1>1, <1>2 DEF CodesRedeemedOnce

LEMMA OAuthTypes == OAuthInv => OAuthTypeOK
<1> SUFFICES ASSUME OAuthInv PROVE OAuthTypeOK
  OBVIOUS
<1>1. ASSUME NEW c \in AuthCode, answered[c] # {} PROVE consent[c] # NotFound
  <2>1. PICK t \in AccessToken : Gives(c, t)
    BY <1>1 DEF OAuthInv, OAuthShape, Gives
  <2>2. QED
    BY <2>1 DEF OAuthInv, ForConsent
<1>2. QED
  BY <1>1 DEF OAuthInv, OAuthShape, OAuthTypeOK

\* An authorization code yields one access token, unless two requests read it
\* before either marked it or the mark was lost (HandleToken), and the token
\* speaks for the user who approved the code, to the program it was approved for.
THEOREM CodesHold == OAuthSpec => []CodesRedeemedOnce
BY RedeemedOnce, RedemptionInv, PTL

\* A code in the table is one that somebody approved, and tokens were answered
\* for such codes only.
THEOREM OAuthTypeCorrect == OAuthSpec => []OAuthTypeOK
BY OAuthTypes, RedemptionInv, PTL

-----------------------------------------------------------------------------
(* Side by side                                                            *)

\* A step of one is a step of that one or leaves it alone.
LEMMA IdentitySteps ==
  [MCNext]_allVars => [FactorNext]_factorVars /\ [OAuthNext]_oauthVars /\ [DomainNext]_domainVars
<1> SUFFICES ASSUME [MCNext]_allVars
             PROVE  [FactorNext]_factorVars /\ [OAuthNext]_oauthVars /\ [DomainNext]_domainVars
  OBVIOUS
<1>1. CASE UNCHANGED allVars
  BY <1>1 DEF allVars
<1>2. CASE MCNext
  BY <1>2 DEF MCNext
<1>3. QED
  BY <1>1, <1>2

LEMMA IdentityInv == MCSpec => [](SignInInv /\ OAuthInv /\ SignupInv /\ DomainTypeOK)
<1>1. MCInit => SignInInv /\ OAuthInv /\ SignupInv /\ DomainTypeOK
  BY FactorInitially, OAuthInitially, DomainInitially, DomainTypesInitially DEF MCInit
<1>2. (SignupInv => ShapeOK) /\ (SignupInv' => ShapeOK')
  BY DEF SignupInv
<1>3. /\ SignInInv /\ OAuthInv /\ SignupInv /\ DomainTypeOK
      /\ [FactorNext]_factorVars /\ [OAuthNext]_oauthVars /\ [DomainNext]_domainVars
      => SignInInv' /\ OAuthInv' /\ SignupInv' /\ DomainTypeOK'
  BY <1>2, FactorStep, OAuthStep, DomainStep, DomainTypesStep
<1>4. QED
  BY <1>1, <1>3, IdentitySteps, PTL DEF MCSpec

\* In one server, where logins, redemptions and sign-ups go on side by side,
\* what is to be used once is used once, unless a write failed or a request wrote
\* or went by what it had read before another's change.
THEOREM OnceEach == MCSpec => []UsedOnce
<1>1. SignInInv /\ OAuthInv => UsedOnce
  BY StandsWhole, RedeemedOnce DEF UsedOnce
<1>2. QED
  BY <1>1, IdentityInv, PTL

\* In one server each of the three keeps its types.
THEOREM IdentityTypeCorrect == MCSpec => []MCTypeOK
<1>1. SignInInv /\ OAuthInv /\ DomainTypeOK => MCTypeOK
  BY FactorTypes, OAuthTypes DEF MCTypeOK
<1>2. QED
  BY <1>1, IdentityInv, PTL
=============================================================================
