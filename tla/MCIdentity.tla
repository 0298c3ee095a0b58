----------------------------- MODULE MCIdentity -----------------------------
EXTENDS TwoFactor, OAuth, Domains, TLC

CONSTANTS example

\* A behaviour stays in one of the three.
VARIABLE part
Parts == {"factor", "oauth", "domains"}

MCDomainOf(e) == example
MCInit == FactorInit /\ OAuthInit /\ DomainInit /\ part \in Parts

MCTypeOK == FactorTypeOK /\ OAuthTypeOK /\ DomainTypeOK
UsedOnce == FactorsStand /\ CodesRedeemedOnce

MCNext == /\ \/ part = "factor" /\ FactorNext /\ UNCHANGED <<oauthVars, domainVars>>
             \/ part = "oauth" /\ OAuthNext /\ UNCHANGED <<factorVars, domainVars>>
             \/ part = "domains" /\ DomainNext /\ UNCHANGED <<factorVars, oauthVars>>
          /\ UNCHANGED part
allVars == <<factorVars, oauthVars, domainVars, part>>
MCSpec == MCInit /\ [][MCNext]_allVars

\* Two set-ups, or one and a write that fails.
FewChanges == setups + lost <= 2
\* Nothing is left to find out about a domain whose missing and whose second
\* owner are both explained.
StillOpen == \A d \in Domain : d \notin misled \cap excused
MCSym == Permutations(Request) \cup Permutations(Email) \cup Permutations(Signup)
=============================================================================
