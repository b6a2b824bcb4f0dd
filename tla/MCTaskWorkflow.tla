--------------------------- MODULE MCTaskWorkflow ---------------------------
(* TaskWorkflow on small instances. *)
EXTENDS TaskWorkflow

CONSTANTS t1, t2

LastSensitive == {NSteps}

\* The tasks are alike, so that it does not matter which of them is submitted first.
FirstThenSecond == task'[t2] # "absent" => task'[t1] # "absent"
=============================================================================
