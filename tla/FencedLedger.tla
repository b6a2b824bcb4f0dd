---------------------------- MODULE FencedLedger ----------------------------
(***************************************************************************)
(* What a fencing token promises, with no workers, rows or sweeper in it.  *)
(* Every resource has a counter of the grants made so far and a ledger     *)
(* with one entry per grant.  A grant takes the next token, whoever held   *)
(* the resource before; an entry is closed once and never reopened; a      *)
(* grant that is no longer held is never held again.                       *)
(***************************************************************************)
EXTENDS Naturals

CONSTANTS
  Resources,   \* what is leased
  MaxToken     \* bound on the grants of one resource

VARIABLES
  token,    \* [Resources -> Nat]: grants made so far
  held,     \* [Resources -> BOOLEAN]: is the newest grant still held
  ledger    \* [Resources -> [Tokens -> Verdicts]]

vars == <<token, held, ledger>>

Tokens   == 1..MaxToken
Closed   == {"completed", "failed", "fenced", "recovered"}
Verdicts == {"none", "running"} \cup Closed

Init ==
  /\ token  = [r \in Resources |-> 0]
  /\ held   = [r \in Resources |-> FALSE]
  /\ ledger = [r \in Resources |-> [k \in Tokens |-> "none"]]

Grant(r) ==
  /\ token[r] < MaxToken
  /\ token'  = [token EXCEPT ![r] = @ + 1]
  /\ held'   = [held EXCEPT ![r] = TRUE]
  /\ ledger' = [ledger EXCEPT ![r][token[r] + 1] = "running"]

\* Only the newest grant can be given up.
Release(r) ==
  /\ held[r]
  /\ held' = [held EXCEPT ![r] = FALSE]
  /\ UNCHANGED <<token, ledger>>

Close(r, k, verdict) ==
  /\ ledger[r][k] = "running"
  /\ ledger' = [ledger EXCEPT ![r][k] = verdict]
  /\ UNCHANGED <<token, held>>

\* The newest grant ends with its entry.
Conclude(r, verdict) ==
  /\ held[r] /\ ledger[r][token[r]] = "running"
  /\ held'   = [held EXCEPT ![r] = FALSE]
  /\ ledger' = [ledger EXCEPT ![r][token[r]] = verdict]
  /\ UNCHANGED token

\* Several held grants are withdrawn in one step, each with the entry of
\* that grant if it is still open.
Withdraw(S) ==
  /\ \A r \in S : held[r]
  /\ held'   = [r \in Resources |-> held[r] /\ r \notin S]
  /\ ledger' = [r \in Resources |-> [k \in Tokens |->
                  IF r \in S /\ k = token[r] /\ ledger[r][k] = "running"
                    THEN "recovered" ELSE ledger[r][k]]]
  /\ UNCHANGED token

Next ==
  \/ \E r \in Resources : Grant(r) \/ Release(r)
  \/ \E r \in Resources, v \in Closed : Conclude(r, v) \/ \E k \in Tokens : Close(r, k, v)
  \/ \E S \in SUBSET Resources : Withdraw(S)

Spec == Init /\ [][Next]_vars
=============================================================================
