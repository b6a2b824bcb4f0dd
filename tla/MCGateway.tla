----------------------------- MODULE MCGateway -----------------------------
(* Gateway on small instances. *)
EXTENDS Gateway

CONSTANTS p1, p2, p3, r1, r2, r3

InOrder == [p \in Providers |-> IF p = p1 THEN 1 ELSE IF p = p2 THEN 2 ELSE 3]
\* Every provider has what every request needs.
Everyone == [p \in Providers |-> Requests]
=============================================================================
