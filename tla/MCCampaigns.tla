---------------------------- MODULE MCCampaigns ----------------------------
(* Three phases of one goal each: the last one depends on the other two and *)
(* has a milestone.  Two workers execute the campaign, an operator          *)
(* interferes.                                                              *)
EXTENDS Campaigns, TLC

CONSTANTS phase1, phase2, phase3, w1, w2, operator

TheDeps    == [x \in Phases |-> IF x = phase2 THEN {phase1, phase3} ELSE {}]
TheGoals   == [x \in Phases |-> 1]
TheOptions == [heal : BOOLEAN, compensate : BOOLEAN]
Symmetry   == Permutations(Workers)

\* phase3 is there to be ready together with phase1, taken up before or after that one
\* failed, was healed or retried: its own failures are not healed, and two workers do not
\* execute the campaign at once while it is under way.
OneAtATime ==
  /\ attempts[phase3] = 0
  /\ overlap => phase[phase3] \in {"pending", "completed"}
=============================================================================
