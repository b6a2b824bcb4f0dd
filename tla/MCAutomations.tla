--------------------------- MODULE MCAutomations ---------------------------
(* Automations on small instances. *)
EXTENDS Automations

CONSTANTS a1, a2, n1, n2
=============================================================================
