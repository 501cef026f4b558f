----------------------------- MODULE ReferenceSeam -----------------------------
(***************************************************************************)
(* What the seam to the-hangar promises a process that asks for the Lane A *)
(* reference of one (example, module): a call returns or raises; what it   *)
(* returns is one of the values some checkout computes; and for the life   *)
(* of the process it is the same value every time, so the N seeds of a run *)
(* are graded against one yardstick whatever happens to the checkout.      *)
(* RefCache implements it; JobBridge and its workers rely on it.           *)
(***************************************************************************)
CONSTANTS
    Procs,      \* the processes that ask
    Codes       \* the references the states of the-hangar compute

ASSUME CodesAssumption == "none" \notin Codes

VARIABLES
    call,       \* call[p]: where p is with its call
    memo        \* memo[p]: what p has been told, "none" before

seamVars == <<call, memo>>

CallStates == {"down", "idle", "asked", "returned", "raised"}

SeamTypeOK ==
    /\ call \in [Procs -> CallStates]
    /\ memo \in [Procs -> Codes \cup {"none"}]

SeamInit ==
    /\ call = [p \in Procs |-> "down"]
    /\ memo = [p \in Procs |-> "none"]

Become(p, state) == call' = [call EXCEPT ![p] = state]

Start(p) ==
    /\ call[p] = "down"
    /\ Become(p, "idle")
    /\ UNCHANGED memo

(* The memo dies with the process. *)
Kill(p) ==
    /\ call[p] # "down"
    /\ Become(p, "down")
    /\ memo' = [memo EXCEPT ![p] = "none"]

Ask(p) ==
    /\ call[p] = "idle"
    /\ Become(p, "asked")
    /\ UNCHANGED memo

(* Fault: every call computes anew. *)
LearnAgain(p) ==
    /\ call[p] = "asked"
    /\ \E v \in Codes : memo' = [memo EXCEPT ![p] = v]
    /\ UNCHANGED call

Learn(p) ==
    /\ call[p] = "asked" /\ memo[p] = "none"
    /\ \E v \in Codes : memo' = [memo EXCEPT ![p] = v]
    /\ UNCHANGED call

Answer(p) ==
    /\ call[p] = "asked" /\ memo[p] # "none"
    /\ Become(p, "returned")
    /\ UNCHANGED memo

(* Lane A failed, the file is partial or cannot be written, or there is no *)
(* checkout.                                                               *)
Fail(p) ==
    /\ call[p] \in {"idle", "asked"}
    /\ Become(p, "raised")
    /\ UNCHANGED memo

Leave(p) ==
    /\ call[p] \in {"returned", "raised"}
    /\ Become(p, "idle")
    /\ UNCHANGED memo

SeamNext ==
    \E p \in Procs :
        Start(p) \/ Kill(p) \/ Ask(p) \/ Learn(p) \/ Answer(p) \/ Fail(p) \/ Leave(p)

SeamSpec == SeamInit /\ [][SeamNext]_seamVars
=============================================================================
