----------------------------- MODULE MC_JobBridge -----------------------------
(* Two workers and three jobs: one that may be tried twice, one that may be   *)
(* tried once, one whose payload is malformed.                                *)
EXTENDS JobBridge

CONSTANTS j1, j2, j3

SuffixOf == [j \in {j1, j2, j3} |-> j]
BudgetOf == [j \in {j1, j2, j3} |-> IF j = j1 THEN 2 ELSE 1]
GradesOf == [j \in {j1, j2, j3} |->
    IF j = j1 THEN {"pass", "fail"} ELSE {"pass", "norun"}]
MinPctOf == [j \in {j1, j2, j3} |-> IF j = j1 THEN 100 ELSE 0]
=============================================================================
