------------------------------ MODULE TwoFactor -----------------------------
(***************************************************************************)
(* Signing in to the web pages with a second factor: HandleLogin and its   *)
(* JSON twin (internal/web), the handlers of auth_2fa_handlers.go, the     *)
(* Service of internal/auth and the SessionStore of web/auth.go.  One      *)
(* account; each database call is a step of its own and requests           *)
(* interleave between them.  Every set-up has a number: it stands for the  *)
(* secret and for the backup codes made with it.                           *)
(***************************************************************************)
EXTENDS Naturals, FiniteSets

CONSTANTS Request,     \* requests in flight
          LoginToken, Device,
          BackupCode,  \* the codes of one set-up
          MaxSetups,   \* set-ups in a behaviour
          MaxLost      \* database writes that fail

ASSUME TwoFactorAssumption ==
  /\ MaxSetups \in Nat /\ MaxLost \in Nat
  /\ "account" \notin LoginToken

VARIABLES account,     \* its twofa columns: enabled, setup (0 is none), codes
          login_token, \* rows: "none", "live", "expired", or "gone" once deleted
          trusted,     \* the rows of user_trusted_device
          signedIn,    \* whether SessionStore holds a session of the account
          request,     \* per request: its step and what it carries or has read
          setups, lost,
          asked,       \* (history) what the last set-up or removal asked for
          uses,        \* (history) how often each code of that set-up was accepted
          tokenUses,   \* (history) how often each login token was
          proven,      \* (history) devices registered after a right code
          stale,       \* (history) requests whose reading of the account is outdated
          doubt        \* (history) tokens and "account", once a write went wrong

factorVars == <<account, login_token, trusted, signedIn, request, setups, lost,
                asked, uses, tokenUses, proven, stale, doubt>>
table == <<login_token, trusted, tokenUses, proven>>

Off == [enabled |-> FALSE, setup |-> 0, codes |-> {}]
Idle == [step |-> "idle"]
\* What a user may type: the number of a set-up stands for a TOTP code of its
\* secret, a pair for one of its backup codes.
Totp(setup) == <<setup>>
Backup(setup, code) == <<setup, code>>
Typed == {Totp(n) : n \in 0 .. MaxSetups} \cup {Backup(n, c) : n \in 1 .. MaxSetups, c \in BackupCode}

FactorInit ==
  /\ account = Off
  /\ login_token = [t \in LoginToken |-> "none"]
  /\ trusted = {} /\ signedIn = FALSE
  /\ request = [r \in Request |-> Idle]
  /\ setups = 0 /\ lost = 0
  /\ asked = Off
  /\ uses = [c \in BackupCode |-> 0]
  /\ tokenUses = [t \in LoginToken |-> 0]
  /\ proven = {} /\ stale = {} /\ doubt = {}

At(r, step) == request[r].step = step
Carries(r, to) == request' = [request EXCEPT ![r] = to]
Goes(r, step) == request' = [request EXCEPT ![r].step = step]
\* r reads the account's row, or drops what it read; r writes it under the
\* requests that hold what they have read.
Reads(r) == stale' = stale \ {r}
Holds == {r \in Request : request[r].step \in {"session", "device", "rewrite"}}
Writes(r, to) == account' = to /\ stale' = (stale \cup Holds) \ {r}
WriteLost == lost < MaxLost /\ lost' = lost + 1
Fresh == {t \in LoginToken : login_token[t] = "none"}
CreateLoginToken == /\ Fresh # {}
                    /\ login_token' = [login_token EXCEPT ![CHOOSE t \in Fresh : TRUE] = "live"]

-----------------------------------------------------------------------------
(* HandleLogin, HandleAuthLogin                                            *)

\* The user's row is read and the password is right.
GetUser(r) ==
  /\ At(r, "idle") /\ Reads(r)
  /\ \/ ~account.enabled /\ Carries(r, [step |-> "session", proof |-> "password"])
     \/ \E d \in Device : account.enabled /\ Carries(r, [step |-> "device", device |-> d])
  /\ UNCHANGED <<account, table, signedIn, setups, lost, asked, uses, doubt>>
\* The JSON API asks for the code on every device.
APIGetUser(r) ==
  /\ At(r, "idle") /\ account.enabled /\ Reads(r)
  /\ CreateLoginToken
  /\ UNCHANGED <<account, request, trusted, signedIn, setups, lost, asked, uses, tokenUses,
                 proven, doubt>>
IsTrustedDeviceFaulty(r) ==   \* Fault: a lookup that fails lets the device in
  /\ At(r, "device")
  /\ Carries(r, [step |-> "session", proof |-> request[r].device])
  /\ UNCHANGED <<account, table, signedIn, setups, lost, asked, uses, stale, doubt>>
\* A lookup that fails reads as a device nobody registered.
IsTrustedDevice(r) ==
  /\ At(r, "device")
  /\ \/ /\ request[r].device \in trusted
        /\ Carries(r, [step |-> "session", proof |-> request[r].device])
        /\ UNCHANGED <<login_token, stale>>
     \/ CreateLoginToken /\ Carries(r, Idle) /\ stale' = stale \ {r}
  /\ UNCHANGED <<account, trusted, signedIn, setups, lost, asked, uses, tokenUses, proven, doubt>>
createSession(r) ==
  /\ At(r, "session") /\ Carries(r, Idle) /\ signedIn' = TRUE /\ stale' = stale \ {r}
  /\ UNCHANGED <<account, table, setups, lost, asked, uses, doubt>>
HandleLogout ==
  /\ signedIn /\ signedIn' = FALSE
  /\ UNCHANGED <<account, table, request, setups, lost, asked, uses, stale, doubt>>

-----------------------------------------------------------------------------
(* HandleVerify2FA, APIVerify2FA                                           *)

ValidateLoginToken(r) ==
  /\ At(r, "idle")
  /\ \E t \in LoginToken :
       \/ /\ login_token[t] = "live"
          /\ \E typed \in Typed : Carries(r, [step |-> "consume", token |-> t, code |-> typed])
          /\ UNCHANGED login_token
       \/ /\ login_token[t] = "expired" /\ login_token' = [login_token EXCEPT ![t] = "gone"]
          /\ UNCHANGED request
  /\ UNCHANGED <<account, trusted, signedIn, setups, lost, asked, uses, tokenUses, proven,
                 stale, doubt>>
\* The token is deleted, again if another request did so in the meantime.
ConsumeLoginToken(r) ==
  /\ At(r, "consume") /\ Goes(r, "totp")
  /\ LET t == request[r].token
     IN /\ \/ /\ login_token' = [login_token EXCEPT ![t] = "gone"] /\ UNCHANGED lost
              /\ doubt' = IF login_token[t] = "gone" THEN doubt \cup {t} ELSE doubt
           \/ WriteLost /\ doubt' = doubt \cup {t} /\ UNCHANGED login_token
        /\ tokenUses' = [tokenUses EXCEPT ![t] = @ + 1]
  /\ UNCHANGED <<account, trusted, signedIn, setups, asked, uses, proven, stale>>
Verify2FA(r) ==
  /\ At(r, "totp") /\ Reads(r)
  /\ IF account.enabled /\ request[r].code = Totp(account.setup)
     THEN Goes(r, "trust") ELSE Goes(r, "backup")
  /\ UNCHANGED <<account, table, signedIn, setups, lost, asked, uses, doubt>>
Matches(r, row) == /\ row.enabled
                   /\ \E c \in row.codes : request[r].code = Backup(row.setup, c)
\* A wrong code: a new login token for another try.
VerifyBackupCode(r) ==
  /\ At(r, "backup") /\ Reads(r)
  /\ \/ /\ Matches(r, account)
        /\ Carries(r, [step |-> "rewrite", read |-> account, used |-> request[r].code[2]])
        /\ UNCHANGED login_token
     \/ /\ ~Matches(r, account) /\ Carries(r, Idle)
        /\ IF Fresh = {} THEN UNCHANGED login_token ELSE CreateLoginToken
  /\ UNCHANGED <<account, trusted, signedIn, setups, lost, asked, uses, tokenUses, proven, doubt>>
\* Enable2FA writes the row back as it was read, without the code; its error
\* is dropped.
AcceptedOnce(r) ==
  /\ uses' = [uses EXCEPT ![request[r].used] = @ + 1]
  /\ Goes(r, "trust")
ConsumeBackupCodeFaulty(r) ==   \* Fault: the list is written back unchanged
  /\ At(r, "rewrite") /\ AcceptedOnce(r)
  /\ Writes(r, [request[r].read EXCEPT !.enabled = TRUE])
  /\ doubt' = IF r \in stale THEN doubt \cup {"account"} ELSE doubt
  /\ UNCHANGED <<table, signedIn, setups, lost, asked>>
ConsumeBackupCode(r) ==
  /\ At(r, "rewrite") /\ AcceptedOnce(r)
  /\ \/ /\ Writes(r, [request[r].read EXCEPT !.codes = @ \ {request[r].used}])
        /\ doubt' = IF r \in stale THEN doubt \cup {"account"} ELSE doubt
        /\ UNCHANGED lost
     \/ WriteLost /\ doubt' = doubt \cup {"account"} /\ Reads(r) /\ UNCHANGED account
  /\ UNCHANGED <<table, signedIn, setups, asked>>
ToSession(r) == Carries(r, [step |-> "session", proof |-> "code"])
RegisterTrustedDevice(r) ==
  /\ At(r, "trust") /\ ToSession(r)
  /\ \/ \E d \in Device : trusted' = trusted \cup {d} /\ proven' = proven \cup {d}
     \/ UNCHANGED <<trusted, proven>>
  /\ UNCHANGED <<account, login_token, signedIn, setups, lost, asked, uses, tokenUses,
                 stale, doubt>>

-----------------------------------------------------------------------------
(* HandleSetup2FA, APISetup2FA, APIDisable2FA, APIRevokeTrustedDevice       *)

\* Stored and active at once.
Setup2FA(r) ==
  /\ At(r, "idle") /\ signedIn /\ setups < MaxSetups /\ setups' = setups + 1
  /\ asked' = [enabled |-> TRUE, setup |-> setups', codes |-> BackupCode]
  /\ Writes(r, asked')
  /\ uses' = [c \in BackupCode |-> 0]
  /\ doubt' = doubt \ {"account"}
  /\ UNCHANGED <<table, signedIn, request, lost>>
Disable2FAReads(r) ==
  /\ At(r, "idle") /\ signedIn /\ account.enabled /\ Reads(r)
  /\ Carries(r, [step |-> "disable"])
  /\ UNCHANGED <<account, table, signedIn, setups, lost, asked, uses, doubt>>
Disable2FAFaulty(r) ==   \* Fault: the secret and the backup codes stay
  /\ At(r, "disable") /\ Carries(r, Idle)
  /\ Writes(r, [account EXCEPT !.enabled = FALSE]) /\ asked' = Off
  /\ uses' = [c \in BackupCode |-> 0] /\ doubt' = doubt \ {"account"}
  /\ UNCHANGED <<table, signedIn, setups, lost>>
Disable2FA(r) ==
  /\ At(r, "disable") /\ Carries(r, Idle)
  /\ \/ /\ Writes(r, Off) /\ asked' = Off
        /\ uses' = [c \in BackupCode |-> 0] /\ doubt' = doubt \ {"account"}
        /\ UNCHANGED lost
     \/ WriteLost /\ UNCHANGED <<account, asked, uses, stale, doubt>>
  /\ UNCHANGED <<table, signedIn, setups>>
\* Of any user: the handler does not look whose device it is.
RevokeTrustedDevice ==
  /\ \E d \in trusted : trusted' = trusted \ {d}
  /\ UNCHANGED <<account, login_token, signedIn, request, setups, lost, asked, uses,
                 tokenUses, proven, stale, doubt>>

-----------------------------------------------------------------------------
Expire ==
  /\ \/ \E t \in LoginToken : /\ login_token[t] = "live"
                              /\ login_token' = [login_token EXCEPT ![t] = "expired"]
                              /\ UNCHANGED trusted
     \/ \E d \in trusted : trusted' = trusted \ {d} /\ UNCHANGED login_token
  /\ UNCHANGED <<account, signedIn, request, setups, lost, asked, uses, tokenUses, proven,
                 stale, doubt>>
\* Sessions live in memory only; requests are cut short.
Restart ==
  /\ signedIn' = FALSE /\ request' = [r \in Request |-> Idle] /\ stale' = {}
  /\ UNCHANGED <<account, table, setups, lost, asked, uses, doubt>>

Calls(r) == \/ GetUser(r) \/ APIGetUser(r) \/ IsTrustedDevice(r) \/ createSession(r)
            \/ ValidateLoginToken(r) \/ ConsumeLoginToken(r) \/ Verify2FA(r)
            \/ VerifyBackupCode(r) \/ ConsumeBackupCode(r) \/ RegisterTrustedDevice(r)
            \/ Setup2FA(r) \/ Disable2FAReads(r) \/ Disable2FA(r)
FactorNext == \/ \E r \in Request : Calls(r)
              \/ HandleLogout \/ RevokeTrustedDevice \/ Expire \/ Restart
FactorSpec == FactorInit /\ [][FactorNext]_factorVars

-----------------------------------------------------------------------------
(* Properties                                                              *)

FactorTypeOK ==
  /\ account.codes \subseteq BackupCode /\ account.enabled = (account.setup > 0)
  /\ \A t \in LoginToken : tokenUses[t] > 0 => login_token[t] # "none"
  /\ trusted \subseteq Device /\ setups \in 0 .. MaxSetups

\* "A one-time backup code", "validates and deletes the token in one step",
\* and the set-up or removal the user asked for last: all of it stands, unless
\* a write failed or a request wrote back what it had read before another's
\* change.
FactorsStand ==
  /\ \A t \in LoginToken : tokenUses[t] > 1 => t \in doubt
  /\ "account" \in doubt \/ \A c \in BackupCode : uses[c] <= 1
  /\ "account" \in doubt \/ [account EXCEPT !.codes = asked.codes] = asked

\* A session begins without a code only if the device was registered after a
\* right code, or the set-up came after the login had read the account.
SecondFactorAsked ==
  \A r \in Request : At(r, "session") /\ request[r].proof # "code" =>
    \/ request[r].proof \in proven
    \/ request[r].proof = "password" /\ (~account.enabled \/ r \in stale)
=============================================================================
