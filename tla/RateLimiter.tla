----------------------------- MODULE RateLimiter ----------------------------
(***************************************************************************)
(* Lockout after failed logins (internal/security/ratelimit.go) and the    *)
(* three places that use it: the login form, POST /api/auth/login and SMTP *)
(* AUTH PLAIN.  Each asks IsLockedOut, checks the password and records the *)
(* result, three critical sections with other requests in between.         *)
(*                                                                         *)
(* Instead of the time of a lock the model keeps its age in ticks, which   *)
(* stops growing once cleanup has to evict the entry.                      *)
(***************************************************************************)
EXTENDS Naturals, FiniteSets

CONSTANTS Ip, Attempt,   \* client addresses; requests that may be in flight
          MaxAuthFail,   \* failures that lock an address
          LockoutDur     \* ticks a lock lasts

ASSUME LimiterAssumption ==
  /\ Ip # {} /\ IsFiniteSet(Attempt)
  /\ MaxAuthFail \in Nat \ {0} /\ LockoutDur \in Nat \ {0}

VARIABLES failures,   \* per address; 0 when authFails has no entry
          lockAge,    \* ticks since lockedAt
          attempt,    \* per request: where it is, and its address
          guesses     \* (history) wrong passwords tried since the count restarted

limiterVars == <<failures, lockAge, attempt, guesses>>

Step == {"idle", "password", "wrong", "right"}
Oldest == 2 * LockoutDur + 1

LimiterInit == /\ failures = [ip \in Ip |-> 0]
               /\ lockAge = [ip \in Ip |-> 0]
               /\ attempt = [r \in Attempt |-> [step |-> "idle", ip |-> CHOOSE ip \in Ip : TRUE]]
               /\ guesses = [ip \in Ip |-> 0]

Enters(r, step, ip) == attempt' = [attempt EXCEPT ![r] = [step |-> step, ip |-> ip]]
Proceeds(r, step) == Enters(r, step, attempt[r].ip)
Locked(ip) == failures[ip] >= MaxAuthFail
\* delete(rl.authFails, key)
Forget(ips) == /\ failures' = [ip \in Ip |-> IF ip \in ips THEN 0 ELSE failures[ip]]
               /\ guesses' = [ip \in Ip |-> IF ip \in ips THEN 0 ELSE guesses[ip]]

Refuse(r, ip) == /\ attempt[r].step = "idle" /\ Locked(ip) /\ lockAge[ip] < LockoutDur
                 /\ UNCHANGED limiterVars
Admits(r, ip) == /\ attempt[r].step = "idle"
                 /\ Enters(r, "password", ip)
                 /\ UNCHANGED lockAge
IsLockedOutFaulty(r, ip) ==   \* Fault: locks one failure late
  \/ /\ failures[ip] <= MaxAuthFail /\ Admits(r, ip) /\ UNCHANGED <<failures, guesses>>
  \/ failures[ip] > MaxAuthFail /\ lockAge[ip] >= LockoutDur /\ Admits(r, ip) /\ Forget({ip})
IsLockedOutExtends(r, ip) ==   \* Fault: a refused attempt starts the lockout again
  \/ /\ ~Locked(ip) /\ Admits(r, ip) /\ UNCHANGED <<failures, guesses>>
  \/ Locked(ip) /\ lockAge[ip] >= LockoutDur /\ Admits(r, ip) /\ Forget({ip})
  \/ /\ attempt[r].step = "idle" /\ Locked(ip) /\ lockAge[ip] < LockoutDur
     /\ lockAge' = [lockAge EXCEPT ![ip] = 0] /\ UNCHANGED <<failures, attempt, guesses>>
IsLockedOut(r, ip) ==
  \/ /\ ~Locked(ip) /\ Admits(r, ip) /\ UNCHANGED <<failures, guesses>>
  \/ Locked(ip) /\ lockAge[ip] >= LockoutDur /\ Admits(r, ip) /\ Forget({ip})
  \/ Refuse(r, ip)

CheckPassword(r) ==
  /\ attempt[r].step = "password"
  /\ \/ Proceeds(r, "right") /\ UNCHANGED guesses
     \/ Proceeds(r, "wrong") /\ guesses' = [guesses EXCEPT ![attempt[r].ip] = @ + 1]
  /\ UNCHANGED <<failures, lockAge>>

RecordAuthFailure(r) ==
  /\ attempt[r].step = "wrong" /\ Proceeds(r, "idle")
  /\ LET ip == attempt[r].ip
     IN /\ failures' = [failures EXCEPT ![ip] = @ + 1]
        /\ lockAge' = IF failures[ip] + 1 >= MaxAuthFail THEN [lockAge EXCEPT ![ip] = 0] ELSE lockAge
  /\ UNCHANGED guesses
RecordAuthSuccess(r) == /\ attempt[r].step = "right" /\ Proceeds(r, "idle")
                        /\ Forget({attempt[r].ip})
                        /\ UNCHANGED lockAge

\* Every five minutes; an entry below the threshold stays for ever.
Stale == {ip \in Ip : Locked(ip) /\ lockAge[ip] > 2 * LockoutDur}
cleanup == Stale # {} /\ Forget(Stale) /\ UNCHANGED <<lockAge, attempt>>
Ages == /\ \E ip \in Ip : Locked(ip) /\ lockAge[ip] < Oldest
        /\ lockAge' = [ip \in Ip |-> IF Locked(ip) /\ lockAge[ip] < Oldest THEN lockAge[ip] + 1 ELSE lockAge[ip]]
        /\ UNCHANGED <<failures, attempt, guesses>>

Login(r) == \/ \E ip \in Ip : IsLockedOut(r, ip)
            \/ CheckPassword(r) \/ RecordAuthFailure(r) \/ RecordAuthSuccess(r)
LimiterNext == (\E r \in Attempt : Login(r)) \/ cleanup \/ Ages
LimiterSpec == /\ LimiterInit /\ [][LimiterNext]_limiterVars
               /\ WF_limiterVars(Ages) /\ WF_limiterVars(cleanup)

-----------------------------------------------------------------------------
(* Properties                                                              *)

LimiterTypeOK == /\ failures \in [Ip -> 0 .. MaxAuthFail + Cardinality(Attempt)]
                 /\ lockAge \in [Ip -> 0 .. Oldest]
                 /\ attempt \in [Attempt -> [step : Step, ip : Ip]]

\* Between two lockouts an address tries no more wrong passwords than the
\* threshold allows, plus those of the requests that were under way when the
\* threshold was reached.
GuessesBounded ==
  \A ip \in Ip : guesses[ip] <= MaxAuthFail - 1 + Cardinality(Attempt)

\* A lockout ends, whether or not the address keeps trying meanwhile.
LockoutEnds == \A ip \in Ip : Locked(ip) ~> ~Locked(ip)
=============================================================================
