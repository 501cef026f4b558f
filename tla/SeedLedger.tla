------------------------------ MODULE SeedLedger ------------------------------
(***************************************************************************)
(* What a results directory promises to someone who reads only verdicts:   *)
(* each cell has a ledger of seeds; a seed gets its first row only after   *)
(* the seeds before it; a lost seed may be retried until it is graded; a   *)
(* graded seed is never touched again.  Only a forced run may begin a new  *)
(* ledger, which then replaces the old one from its first seed on.         *)
(***************************************************************************)
EXTENDS Integers

CONSTANTS Cells, Seeds, Graded

VARIABLES
    ledger,     \* ledger[c][s]: "none", "error" (lost) or a graded verdict
    force       \* the operator asked for a re-run of everything

ledgerVars == <<ledger, force>>

Verdicts == Graded \cup {"error"}

LedgerTypeOK ==
    /\ ledger \in [Cells -> [Seeds -> Verdicts \cup {"none"}]]
    /\ force \in BOOLEAN

Blank == [s \in Seeds |-> "none"]

LedgerInit == ledger = [c \in Cells |-> Blank] /\ force = FALSE

InOrder(c, s) == \A u \in Seeds : u < s => ledger[c][u] # "none"

Record(c, s, v) ==
    /\ ledger[c][s] \notin Graded
    /\ InOrder(c, s)
    /\ ledger' = [ledger EXCEPT ![c][s] = v]
    /\ UNCHANGED force

Supersede(c, v) ==
    /\ force
    /\ ledger' = [ledger EXCEPT ![c] = [Blank EXCEPT ![0] = v]]
    /\ UNCHANGED force

Choose == force' \in BOOLEAN /\ UNCHANGED ledger

LedgerNext ==
    \/ \E c \in Cells, v \in Verdicts :
         Supersede(c, v) \/ \E s \in Seeds : Record(c, s, v)
    \/ Choose

LedgerSpec == LedgerInit /\ [][LedgerNext]_ledgerVars
=============================================================================
