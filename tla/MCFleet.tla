------------------------------- MODULE MCFleet -------------------------------
(* Fleet on small instances. *)
EXTENDS Fleet, TLC

CONSTANTS tenant, w1, w2, t1, t2

OneTenant   == {tenant}
AllToOne    == [t \in Tasks |-> tenant]
QuotaOfOne  == [n \in Tenants |-> 1]
Symmetry    == Permutations(Workers)
=============================================================================
