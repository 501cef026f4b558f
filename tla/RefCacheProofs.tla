---------------------------- MODULE RefCacheProofs ----------------------------
(***************************************************************************)
(* What the reference cache guarantees for any number of processes,        *)
(* commits, edits and moves of the checkout.                               *)
(***************************************************************************)
EXTENDS RefCache, TLAPS

-----------------------------------------------------------------------------
(* The inductive invariant.  A process that has seen no move (a steady     *)
(* one) knows the checkout as it is: its key is HEAD's, and a reference it *)
(* holds is the checkout's own or was read from a file that is there, in   *)
(* which case it never writes.                                             *)

HasRef  == {"keep", "backfill", "open", "write", "returned"}
Told    == {"backfill", "open", "write", "returned"}
Writing == {"open", "write"}

LocalsInv ==
    \A p \in Procs :
        /\ pc[p] = "down" => memo[p] = "none"
        /\ pc[p] \in {"down", "idle", "rev"} => path[p] = "none" /\ ref[p] = "none"
        /\ pc[p] \in HasRef => ref[p] \in Codes
        /\ pc[p] = "run" => memo[p] = "none"
        /\ pc[p] = "keep" => memo[p] \in {"none", ref[p]}
        /\ pc[p] \in Told => memo[p] = ref[p]
        /\ pc[p] \in Writing \cup {"status"} => path[p] \in Commits

(* v is what the checkout computes now, or came from a file of its commit. *)
Trusted(v) == v = code \/ (Clean /\ cache[head] # "absent")

SteadyInv ==
    \A p \in steady :
        /\ path[p] # "none" => path[p] = head /\ (pc[p] = "status" \/ Clean)
        /\ memo[p] # "none" => Trusted(memo[p])
        /\ ref[p] # "none" => Trusted(ref[p])
        /\ pc[p] \in Writing => ref[p] = code

RefInv == RefTypeOK /\ LocalsInv /\ SteadyInv /\ SteadyWritesAreRight

USE DEF repoVars, procVars, refVars

LEMMA CodesAreNoMarks ==
    /\ "absent" \notin Codes /\ "torn" \notin Codes /\ "none" \notin Codes
    /\ Commits \subseteq Codes
BY MarksAssumption DEF Codes

LEMMA InitRefInv == RefInit => RefInv
BY MovesAssumption, CodesAreNoMarks
DEF RefInit, RefInv, RefTypeOK, LocalsInv, SteadyInv, SteadyWritesAreRight,
    HasRef, Told, Writing, Steps

LEMMA StepRefInv == RefInv /\ [RefNext]_refVars => RefInv'
<1> SUFFICES ASSUME RefInv, [RefNext]_refVars PROVE RefInv'
  OBVIOUS
<1> USE CodesAreNoMarks, MovesAssumption DEF RefInv
<1>1. CASE Move
  BY <1>1 DEF Move, RefTypeOK, LocalsInv, SteadyInv, SteadyWritesAreRight, Codes
<1>2. ASSUME NEW p \in Procs, Start(p) PROVE RefInv'
  BY <1>2 DEF Start, RefTypeOK, LocalsInv, SteadyInv, SteadyWritesAreRight,
              HasRef, Told, Writing, Steps, Trusted, Clean
<1>3. ASSUME NEW p \in Procs, Kill(p) PROVE RefInv'
  BY <1>3 DEF Kill, RefTypeOK, LocalsInv, SteadyInv, SteadyWritesAreRight,
              HasRef, Told, Writing, Steps, Trusted, Clean
<1>4. ASSUME NEW p \in Procs, NEW caching \in Caching, Call(p, caching) PROVE RefInv'
  BY <1>4 DEF Call, Goto, RefTypeOK, LocalsInv, SteadyInv, SteadyWritesAreRight,
              HasRef, Told, Writing, Steps, Trusted, Clean
<1>5. ASSUME NEW p \in Procs, RevParse(p) PROVE RefInv'
  BY <1>5 DEF RevParse, Goto, RefTypeOK, LocalsInv, SteadyInv, SteadyWritesAreRight,
              HasRef, Told, Writing, Steps, Trusted, Clean
<1>6. ASSUME NEW p \in Procs, Status(p) PROVE RefInv'
  BY <1>6 DEF Status, Goto, RefTypeOK, LocalsInv, SteadyInv, SteadyWritesAreRight,
              HasRef, Told, Writing, Steps, Trusted, Clean
<1>7. ASSUME NEW p \in Procs, Look(p) PROVE RefInv'
  BY <1>7 DEF Look, Cached, Goto, RefTypeOK, LocalsInv, SteadyInv, SteadyWritesAreRight,
              HasRef, Told, Writing, Steps, Trusted, Clean
<1>8. ASSUME NEW p \in Procs, Run(p) PROVE RefInv'
  BY <1>8 DEF Run, Goto, RefTypeOK, LocalsInv, SteadyInv, SteadyWritesAreRight,
              HasRef, Told, Writing, Steps, Trusted, Clean
<1>9. ASSUME NEW p \in Procs, Keep(p) PROVE RefInv'
  BY <1>9 DEF Keep, Goto, RefTypeOK, LocalsInv, SteadyInv, SteadyWritesAreRight,
              HasRef, Told, Writing, Steps, Trusted, Clean
<1>10. ASSUME NEW p \in Procs, Backfill(p) PROVE RefInv'
  BY <1>10 DEF Backfill, Cached, Goto, RefTypeOK, LocalsInv, SteadyInv, SteadyWritesAreRight,
              HasRef, Told, Writing, Steps, Trusted, Clean
<1>11. ASSUME NEW p \in Procs, Open(p) PROVE RefInv'
  BY <1>11 DEF Open, Goto, RefTypeOK, LocalsInv, SteadyInv, SteadyWritesAreRight,
              HasRef, Told, Writing, Steps, Trusted, Clean
<1>12. ASSUME NEW p \in Procs, Write(p) PROVE RefInv'
  BY <1>12 DEF Write, Goto, RefTypeOK, LocalsInv, SteadyInv, SteadyWritesAreRight,
              HasRef, Told, Writing, Steps, Trusted, Clean
<1>13. ASSUME NEW p \in Procs, Leave(p) PROVE RefInv'
  BY <1>13 DEF Leave, Goto, RefTypeOK, LocalsInv, SteadyInv, SteadyWritesAreRight,
              HasRef, Told, Writing, Steps, Trusted, Clean
<1>14. CASE UNCHANGED refVars
  BY <1>14 DEF RefTypeOK, LocalsInv, SteadyInv, SteadyWritesAreRight, Trusted, Clean
<1> QED
  BY <1>1, <1>2, <1>3, <1>4, <1>5, <1>6, <1>7, <1>8, <1>9, <1>10, <1>11, <1>12,
     <1>13, <1>14 DEF RefNext, InCall

LEMMA RefInvAlways == RefSpec => []RefInv
BY InitRefInv, StepRefInv, PTL DEF RefSpec

-----------------------------------------------------------------------------
(* The state of the checkout, the cache files and every process in a call  *)
(* keep their types (hangar_ref.py:105-162), for any number of processes.  *)
THEOREM RefCacheTypes == RefSpec => []RefTypeOK
<1>1. RefInv => RefTypeOK
  BY DEF RefInv
<1> QED
  BY <1>1, RefInvAlways, PTL

(* A cache file written by a process that has seen no move of the checkout *)
(* holds its own commit's reference or is partial, whatever the others do: *)
(* the disk cache of hangar_ref.py:118-121 is right up to the moves.       *)
THEOREM SteadyWritesStayRight == RefSpec => []SteadyWritesAreRight
<1>1. RefInv => SteadyWritesAreRight
  BY DEF RefInv
<1> QED
  BY <1>1, RefInvAlways, PTL

(* Every call of lane_a_reference that returns returns the process's memo  *)
(* (hangar_ref.py:156-162).                                                *)
THEOREM ReturnsTheMemo == RefSpec => []AnswerIsTheMemo
<1>1. RefInv => AnswerIsTheMemo
  BY DEF RefInv, LocalsInv, AnswerIsTheMemo, Told, HasRef
<1> QED
  BY <1>1, RefInvAlways, PTL

-----------------------------------------------------------------------------
(* The refinement: every step of a call is one step of the seam or none.   *)

LEMMA InitSeam == RefInit => Seam!SeamInit
BY DEF RefInit, Seam!SeamInit, CallOf

LEMMA StepSeam == RefInv /\ [RefNext]_refVars => [Seam!SeamNext]_(Seam!seamVars)
<1> SUFFICES ASSUME RefInv, [RefNext]_refVars
             PROVE  Seam!SeamNext \/ UNCHANGED Seam!seamVars
  OBVIOUS
<1> USE CodesAreNoMarks DEF Seam!seamVars, CallOf, RefInv, RefTypeOK
<1>1. CASE Move \/ UNCHANGED refVars
  BY <1>1 DEF Move
<1>2. ASSUME NEW p \in Procs, Start(p) PROVE Seam!Start(p)
  BY <1>2 DEF Start, Seam!Start, Seam!Become
<1>3. ASSUME NEW p \in Procs, Kill(p) PROVE Seam!Kill(p)
  BY <1>3 DEF Kill, Steps, Seam!Kill, Seam!Become
<1>4. ASSUME NEW p \in Procs, NEW caching \in Caching, Call(p, caching)
      PROVE  Seam!Ask(p) \/ Seam!Fail(p)
  BY <1>4 DEF Call, Goto, Seam!Ask, Seam!Fail, Seam!Become
<1>5. ASSUME NEW p \in Procs, RevParse(p) \/ Status(p) \/ Open(p)
      PROVE  UNCHANGED Seam!seamVars
  BY <1>5 DEF RevParse, Status, Open, Goto
<1>6. ASSUME NEW p \in Procs, Look(p) \/ Run(p)
      PROVE  Seam!Fail(p) \/ UNCHANGED Seam!seamVars
  BY <1>6 DEF Look, Run, Goto, Seam!Fail, Seam!Become
<1>7. ASSUME NEW p \in Procs, Keep(p)
      PROVE  Seam!Learn(p) \/ UNCHANGED Seam!seamVars
  <2>1. pc[p] = "keep" /\ ref[p] \in Codes /\ memo[p] \in {"none", ref[p]}
    BY <1>7 DEF Keep, LocalsInv, HasRef
  <2>2. UNCHANGED [q \in Procs |-> CallOf(pc[q])]
    BY <1>7 DEF Keep, Goto
  <2>3. memo' = [memo EXCEPT ![p] = ref[p]]
    BY <1>7 DEF Keep
  <2>4. CASE memo[p] = "none"
    BY <2>1, <2>2, <2>3, <2>4 DEF Seam!Learn
  <2>5. CASE memo[p] = ref[p]
    BY <2>2, <2>3, <2>5
  <2> QED
    BY <2>1, <2>4, <2>5
<1>8. ASSUME NEW p \in Procs, Backfill(p) \/ Write(p)
      PROVE  Seam!Answer(p) \/ Seam!Fail(p) \/ UNCHANGED Seam!seamVars
  <2>1. memo[p] # "none"
    BY <1>8 DEF Backfill, Write, LocalsInv, Told, HasRef
  <2> QED
    BY <1>8, <2>1 DEF Backfill, Write, Goto, Seam!Answer, Seam!Fail, Seam!Become
<1>9. ASSUME NEW p \in Procs, Leave(p) PROVE Seam!Leave(p)
  BY <1>9 DEF Leave, Goto, Seam!Leave, Seam!Become
<1> QED
  BY <1>1, <1>2, <1>3, <1>4, <1>5, <1>6, <1>7, <1>8, <1>9
  DEF RefNext, InCall, Seam!SeamNext

(* The reference cache implements the seam, for any number of processes    *)
(* and moves: a process is told one reference for life, or an exception    *)
(* (hangar_ref.py:22-23).                                                  *)
THEOREM CacheImplementsSeam == RefSpec => ImplementsSeam
BY InitSeam, StepSeam, RefInvAlways, PTL DEF RefSpec, ImplementsSeam, Seam!SeamSpec
=============================================================================
