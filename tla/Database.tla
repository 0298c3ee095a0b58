------------------------------ MODULE Database ------------------------------
(***************************************************************************)
(* The Database interface with its two implementations, PostgreSQL (S) and *)
(* DynamoDB (Y), for the modules that call it.                             *)
(***************************************************************************)
EXTENDS Naturals

CONSTANTS DomainOf(_),  \* the domain part of an address
          NotFound,     \* what a read of a missing row returns
          Res           \* ticks of the clock to a second

ASSUME ResAssumption == Res \in Nat \ {0}

S == INSTANCE SqlStore
Y == INSTANCE DynamoStore
=============================================================================
