-------------------------------- MODULE OAuth -------------------------------
(***************************************************************************)
(* Signing in to other programs with an account here: the consent page     *)
(* (web/oauth_handlers.go) and the token endpoint (internal/oauth).  An    *)
(* authorization code is redeemed in several calls to the database, and    *)
(* the errors of the two that write are dropped.                           *)
(***************************************************************************)
EXTENDS Database

CONSTANTS User,
          Program,        \* ids a consent page may be asked about
          Client,         \* those that are registered at first
          AuthCode, AccessToken,
          Redemption,     \* requests to the token endpoint in flight
          CodeTTL, TokenTTL, MaxTicks

ASSUME OAuthAssumption ==
  /\ Client \subseteq Program
  /\ CodeTTL \in Nat /\ TokenTTL \in Nat /\ MaxTicks \in Nat
  /\ \A u \in User, p \in Program : NotFound # [user |-> u, program |-> p]

VARIABLES ticks,
          oauth,       \* the tables clients, codes, tokens
          consent,     \* who approved which program with a code
          redemption,  \* per request: its step, the code and the token
          answered,    \* (history) per code: tokens sent to a client
          overlap      \* (history) codes read twice before a mark, or never marked

oauthVars == <<ticks, oauth, consent, redemption, answered, overlap>>

Registered(p) == [id |-> p, domain |-> NotFound, client |-> p]
NotRedeeming == [step |-> "idle"]
OAuthInit ==
  /\ ticks = 0
  /\ oauth = [clients |-> [p \in Client |-> Registered(p)], codes |-> <<>>, tokens |-> <<>>]
  /\ consent = [c \in AuthCode |-> NotFound]
  /\ redemption = [r \in Redemption |-> NotRedeeming]
  /\ answered = [c \in AuthCode |-> {}]
  /\ overlap = {}

Unissued == {c \in AuthCode : consent[c] = NotFound}
\* The columns client and user of a code or a token are one value here.
\* processConsent takes the program from the form, registered or not.
IssueCode ==
  /\ Unissued # {}
  /\ \E u \in User, p \in Program :
     LET c == CHOOSE c \in Unissued : TRUE
     IN /\ consent' = [consent EXCEPT ![c] = [user |-> u, program |-> p]]
        /\ oauth' = S!CreateOAuthCode(oauth, c, consent'[c], ticks + CodeTTL).db
  /\ UNCHANGED <<ticks, redemption, answered, overlap>>
DeleteClient ==
  /\ \E p \in Program : /\ S!GetOAuthClient(oauth, p) # {}
                        /\ oauth' = S!DeleteOAuthClient(oauth, p).db
  /\ UNCHANGED <<ticks, consent, redemption, answered, overlap>>

Moves(r, to) == redemption' = [redemption EXCEPT ![r] = to]
\* HandleToken: the program knows its secret, the code is its own and is read
\* neither used nor expired.
ReadClient(r) ==
  /\ redemption[r] = NotRedeeming
  /\ \E p \in Program : /\ S!GetOAuthClient(oauth, p) # {}
                        /\ Moves(r, [step |-> "code", program |-> p])
  /\ UNCHANGED <<ticks, oauth, consent, answered, overlap>>
Usable(row, p) == /\ row # NotFound
                  /\ ~row.used /\ ticks <= row.until /\ row.client.program = p
ReadCode(r) ==
  /\ redemption[r].step = "code"
  /\ \E c \in AuthCode :
       LET p == redemption[r].program
           row == S!GetOAuthCode(oauth, c)
       IN IF Usable(row, p)
          THEN Moves(r, [step |-> "mark", code |-> c, for |-> row.client])
          ELSE Moves(r, NotRedeeming)
  /\ UNCHANGED <<ticks, oauth, consent, answered, overlap>>
MarkOAuthCodeUsedFaulty(r) ==   \* Fault: the mark is left out
  /\ redemption[r].step = "mark"
  /\ Moves(r, [redemption[r] EXCEPT !.step = "token"])
  /\ UNCHANGED <<ticks, oauth, consent, answered, overlap>>
MarkOAuthCodeUsed(r) ==
  /\ redemption[r].step = "mark"
  /\ Moves(r, [redemption[r] EXCEPT !.step = "token"])
  /\ LET c == redemption[r].code
     IN \/ /\ oauth' = S!MarkOAuthCodeUsed(oauth, c).db
           /\ overlap' = IF oauth.codes[c].used THEN overlap \cup {c} ELSE overlap
        \/ overlap' = overlap \cup {c} /\ UNCHANGED oauth
  /\ UNCHANGED <<ticks, consent, answered>>
Unused == {t \in AccessToken \ DOMAIN oauth.tokens :
                               /\ \A c \in AuthCode : t \notin answered[c]
                               /\ \A q \in Redemption :
                                    redemption[q].step = "answer" => redemption[q].token # t}
CreateOAuthToken(r) ==
  /\ redemption[r].step = "token" /\ Unused # {}
  /\ LET t == CHOOSE t \in Unused : TRUE
         c == redemption[r].code
     IN /\ Moves(r, [step |-> "answer", code |-> c, token |-> t])
        /\ \/ oauth' = S!CreateOAuthToken(oauth, t, redemption[r].for, ticks + TokenTTL).db
           \/ UNCHANGED oauth
  /\ UNCHANGED <<ticks, consent, answered, overlap>>
Answer(r) ==
  /\ redemption[r].step = "answer" /\ Moves(r, NotRedeeming)
  /\ answered' = [answered EXCEPT ![redemption[r].code] = @ \cup {redemption[r].token}]
  /\ UNCHANGED <<ticks, oauth, consent, overlap>>
OAuthRestart == /\ redemption' = [r \in Redemption |-> NotRedeeming]
                /\ UNCHANGED <<ticks, oauth, consent, answered, overlap>>
OAuthTick == /\ ticks < MaxTicks /\ ticks' = ticks + 1
             /\ UNCHANGED <<oauth, consent, redemption, answered, overlap>>

\* HandleUserInfo: the user a token speaks for, and the program it was issued to.
HandleUserInfo(t) ==
  LET row == S!GetOAuthToken(oauth, t)
  IN IF row = NotFound \/ ticks > row.until THEN NotFound ELSE row.client

HandleToken(r) == \/ ReadClient(r) \/ ReadCode(r) \/ MarkOAuthCodeUsed(r)
                  \/ CreateOAuthToken(r) \/ Answer(r)
OAuthNext == \/ \E r \in Redemption : HandleToken(r)
             \/ IssueCode \/ DeleteClient \/ OAuthRestart \/ OAuthTick
OAuthSpec == OAuthInit /\ [][OAuthNext]_oauthVars

-----------------------------------------------------------------------------
(* Properties                                                              *)

OAuthTypeOK ==
  /\ DOMAIN oauth.codes = {c \in AuthCode : consent[c] # NotFound}
  /\ DOMAIN oauth.tokens \subseteq AccessToken
  /\ \A c \in AuthCode : answered[c] # {} => consent[c] # NotFound

\* An authorization code yields one access token, unless two redemptions read
\* it before either marked it or the mark was lost; and a token speaks for the
\* user who approved its code, to the program it was approved for.
CodesRedeemedOnce ==
  /\ \A c \in AuthCode \ overlap : \A t, u \in answered[c] : t = u
  /\ \A c \in AuthCode : \A t \in answered[c] :
       HandleUserInfo(t) \in {NotFound, consent[c]}
=============================================================================
