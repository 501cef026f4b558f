------------------------------- MODULE RefCache -------------------------------
(***************************************************************************)
(* The seam to the-hangar: lane_a_reference computes a reference in a      *)
(* subprocess that imports the checkout's code, and keeps it in a memo of  *)
(* the process and in a file named after the checkout's HEAD.  The         *)
(* checkout is a working tree other people use: commits, switches and      *)
(* edits happen between any two steps of a call.                           *)
(*                                                                         *)
(* One (example, module) pair is modelled; entries of different pairs      *)
(* share nothing but the checkout.  The content of the tree is a member of *)
(* Codes and stands for the reference it computes; a clean checkout of     *)
(* commit c has content c.                                                 *)
(***************************************************************************)
EXTENDS Naturals

CONSTANTS
    Procs,      \* the Python processes: campaigns, job workers, re-scores
    Commits,    \* commits of the-hangar
    Edits,      \* contents of a working tree that no commit has
    Caching,    \* the values of "was a cache_dir given" callers use
    MaxMoves    \* bound: how often the checkout changes

Codes == Commits \cup Edits

ASSUME MovesAssumption == MaxMoves \in Nat
ASSUME MarksAssumption == Codes \cap {"absent", "torn", "none"} = {}
ASSUME CachingAssumption == Caching \subseteq BOOLEAN

VARIABLES
    head,       \* the commit HEAD names
    code,       \* the content of the working tree
    cache,      \* cache[c]: the file keyed by c, "torn" while partly written
    memo,       \* memo[p]: the entry of _MEMO, "none" if there is none
    pc,         \* pc[p]: where p is in lane_a_reference
    path,       \* path[p]: the commit cache_path is keyed by, "none" for None
    ref,        \* ref[p]: the local variable ref
    moves,      \* moves of the checkout so far
    steady,     \* history: processes that have seen no move since they started
    sound       \* history: files last written by a process then steady

repoVars == <<head, code, moves>>
procVars == <<memo, pc, path, ref>>
refVars  == <<head, code, cache, memo, pc, path, ref, moves, steady, sound>>

Clean == code = head

Steps == {"down", "idle", "rev", "status", "look", "run", "keep",
          "backfill", "open", "write", "returned", "raised"}

RefTypeOK ==
    /\ head \in Commits
    /\ code \in Codes
    /\ cache \in [Commits -> Codes \cup {"absent", "torn"}]
    /\ memo \in [Procs -> Codes \cup {"none"}]
    /\ pc \in [Procs -> Steps]
    /\ path \in [Procs -> Commits \cup {"none"}]
    /\ ref \in [Procs -> Codes \cup {"none"}]
    /\ moves \in 0 .. MaxMoves
    /\ steady \subseteq Procs
    /\ sound \subseteq Commits

RefInit ==
    /\ head \in Commits
    /\ code = head
    /\ cache = [c \in Commits |-> "absent"]
    /\ memo = [p \in Procs |-> "none"]
    /\ pc = [p \in Procs |-> "down"]
    /\ path = [p \in Procs |-> "none"]
    /\ ref = [p \in Procs |-> "none"]
    /\ moves = 0
    /\ steady = {}
    /\ sound = {}

-----------------------------------------------------------------------------
(* The checkout: a commit, a switch of branch, an edit, a stash.           *)

Move ==
    /\ moves < MaxMoves
    /\ moves' = moves + 1
    /\ head' \in Commits
    /\ code' \in Codes
    /\ <<head', code'>> # <<head, code>>
    /\ steady' = {}
    /\ UNCHANGED <<cache, procVars, sound>>

-----------------------------------------------------------------------------
(* A process.                                                              *)

Start(p) ==
    /\ pc[p] = "down"
    /\ pc' = [pc EXCEPT ![p] = "idle"]
    /\ steady' = steady \cup {p}
    /\ UNCHANGED <<repoVars, cache, memo, path, ref, sound>>

(* Ends, or is killed, wherever it is: the memo is gone, and a file being  *)
(* written stays as it is.                                                 *)
Kill(p) ==
    /\ pc[p] # "down"
    /\ pc' = [pc EXCEPT ![p] = "down"]
    /\ memo' = [memo EXCEPT ![p] = "none"]
    /\ path' = [path EXCEPT ![p] = "none"]
    /\ ref' = [ref EXCEPT ![p] = "none"]
    /\ steady' = steady \ {p}
    /\ UNCHANGED <<repoVars, cache, sound>>

-----------------------------------------------------------------------------
(* lane_a_reference, one call.                                             *)

Goto(p, step) == pc' = [pc EXCEPT ![p] = step]

(* resolve_hangar_repo raises where there is no checkout. *)
Call(p, caching) ==
    /\ pc[p] = "idle"
    /\ \/ Goto(p, IF caching THEN "rev" ELSE "look")
       \/ Goto(p, "raised")
    /\ UNCHANGED <<repoVars, cache, memo, path, ref, steady, sound>>

(* The first command of _repo_state; one that fails leaves no cache_path. *)
RevParse(p) ==
    /\ pc[p] = "rev"
    /\ \/ path' = [path EXCEPT ![p] = head] /\ Goto(p, "status")
       \/ UNCHANGED path /\ Goto(p, "look")
    /\ UNCHANGED <<repoVars, cache, memo, ref, steady, sound>>

(* Fault: the dirty flag is not looked at. *)
StatusUnused(p) ==
    /\ pc[p] = "status"
    /\ UNCHANGED path
    /\ Goto(p, "look")
    /\ UNCHANGED <<repoVars, cache, memo, ref, steady, sound>>

(* The second command: a dirty tree has no trustworthy key. *)
Status(p) ==
    /\ pc[p] = "status"
    /\ \/ path' = [path EXCEPT ![p] = IF Clean THEN @ ELSE "none"]
       \/ path' = [path EXCEPT ![p] = "none"]
    /\ Goto(p, "look")
    /\ UNCHANGED <<repoVars, cache, memo, ref, steady, sound>>

Cached(p) == path[p] # "none" /\ cache[path[p]] # "absent"

(* Fault: the memo is never consulted. *)
LookAtDiskOnly(p) ==
    /\ pc[p] = "look"
    /\ IF ~Cached(p) THEN UNCHANGED ref /\ Goto(p, "run")
       ELSE IF cache[path[p]] = "torn" THEN UNCHANGED ref /\ Goto(p, "raised")
       ELSE ref' = [ref EXCEPT ![p] = cache[path[p]]] /\ Goto(p, "keep")
    /\ UNCHANGED <<repoVars, cache, memo, path, steady, sound>>

(* Fault: a partial file is taken for what it holds. *)
LookAtAnything(p) ==
    /\ pc[p] = "look"
    /\ IF memo[p] # "none" THEN ref' = [ref EXCEPT ![p] = memo[p]] /\ Goto(p, "keep")
       ELSE IF ~Cached(p) THEN UNCHANGED ref /\ Goto(p, "run")
       ELSE ref' = [ref EXCEPT ![p] = cache[path[p]]] /\ Goto(p, "keep")
    /\ UNCHANGED <<repoVars, cache, memo, path, steady, sound>>

(* The memo answers first, then the file; json.loads raises on a partial one. *)
Look(p) ==
    /\ pc[p] = "look"
    /\ IF memo[p] # "none" THEN ref' = [ref EXCEPT ![p] = memo[p]] /\ Goto(p, "keep")
       ELSE IF ~Cached(p) THEN UNCHANGED ref /\ Goto(p, "run")
       ELSE IF cache[path[p]] = "torn" THEN UNCHANGED ref /\ Goto(p, "raised")
       ELSE ref' = [ref EXCEPT ![p] = cache[path[p]]] /\ Goto(p, "keep")
    /\ UNCHANGED <<repoVars, cache, memo, path, steady, sound>>

(* The subprocess imports the code there is now, or fails. *)
Run(p) ==
    /\ pc[p] = "run"
    /\ \/ ref' = [ref EXCEPT ![p] = code] /\ Goto(p, "keep")
       \/ UNCHANGED ref /\ Goto(p, "raised")
    /\ UNCHANGED <<repoVars, cache, memo, path, steady, sound>>

Keep(p) ==
    /\ pc[p] = "keep"
    /\ memo' = [memo EXCEPT ![p] = ref[p]]
    /\ Goto(p, "backfill")
    /\ UNCHANGED <<repoVars, cache, path, ref, steady, sound>>

(* The file is written unless there is one, also after a memo hit. *)
Backfill(p) ==
    /\ pc[p] = "backfill"
    /\ Goto(p, IF path[p] # "none" /\ ~Cached(p) THEN "open" ELSE "returned")
    /\ UNCHANGED <<repoVars, cache, memo, path, ref, steady, sound>>

(* write_text truncates, whoever made the file meanwhile ... *)
Open(p) ==
    /\ pc[p] = "open"
    /\ cache' = [cache EXCEPT ![path[p]] = "torn"]
    /\ Goto(p, "write")
    /\ UNCHANGED <<repoVars, memo, path, ref, steady, sound>>

(* ... and then writes, or fails with the file as it is.  Written over what *)
(* another process wrote since the truncation, a shorter text leaves the    *)
(* tail of the longer one behind.                                           *)
Write(p) ==
    /\ pc[p] = "write"
    /\ \/ /\ \/ cache' = [cache EXCEPT ![path[p]] = ref[p]]
             \/ /\ cache[path[p]] \notin {ref[p], "torn"}
                /\ cache' = [cache EXCEPT ![path[p]] = "torn"]
          /\ sound' = IF p \in steady THEN sound \cup {path[p]} ELSE sound \ {path[p]}
          /\ Goto(p, "returned")
       \/ /\ UNCHANGED <<cache, sound>>
          /\ Goto(p, "raised")
    /\ UNCHANGED <<repoVars, memo, path, ref, steady>>

(* The call is over; its locals with it. *)
Leave(p) ==
    /\ pc[p] \in {"returned", "raised"}
    /\ Goto(p, "idle")
    /\ path' = [path EXCEPT ![p] = "none"]
    /\ ref' = [ref EXCEPT ![p] = "none"]
    /\ UNCHANGED <<repoVars, cache, memo, steady, sound>>

InCall(p) ==
    RevParse(p) \/ Status(p) \/ Look(p) \/ Run(p)
    \/ Keep(p) \/ Backfill(p) \/ Open(p) \/ Write(p)

RefNext ==
    \/ Move
    \/ \E p \in Procs :
        \/ Start(p) \/ Kill(p)
        \/ \E caching \in Caching : Call(p, caching)
        \/ InCall(p)
        \/ Leave(p)

RefSpec == RefInit /\ [][RefNext]_refVars

-----------------------------------------------------------------------------
(* A cache file written by a process that has seen no move of the checkout *)
(* since it started holds the reference of the very commit in its name,    *)
(* whatever other processes, moves, kills and failed writes surround it.   *)
SteadyWritesAreRight ==
    \A c \in sound : cache[c] \in {c, "torn"}

(* hangar_ref.py:118-121: files are only written when the tree is clean,   *)
(* "otherwise the SHA doesn't identify the code that produced the          *)
(* numbers": a cache file holds the numbers of the commit that names it.   *)
CacheIsOfItsCommit ==
    \A c \in Commits : cache[c] \in Codes => cache[c] = c

(* The whole of it, moves of the checkout, races and crashes included, is   *)
(* an implementation of the seam: what a process has been told it is told   *)
(* again, and a call that returns returns that (hangar_ref.py:22-23, "N     *)
(* seeds of one run never recompute, whatever the repo state").             *)
CallOf(step) ==
    IF step \in {"down", "idle", "returned", "raised"} THEN step ELSE "asked"

Seam == INSTANCE ReferenceSeam WITH call <- [p \in Procs |-> CallOf(pc[p])]

ImplementsSeam == Seam!SeamSpec

(* What a returning call hands out is what the process was told before: the *)
(* local ref and the memo agree at every return.                            *)
AnswerIsTheMemo ==
    \A p \in Procs : pc[p] = "returned" => ref[p] = memo[p] /\ ref[p] \in Codes
=============================================================================
