------------------------------ MODULE OmdService ------------------------------
(***************************************************************************)
(* The omd server a seed talks to and the worker process it solves in.     *)
(* Over HTTP the runner launches the server as the leader of a process     *)
(* group, waits until it answers, and tears the group down when the driver *)
(* returns: SIGTERM, a grace period, SIGKILL.  Over stdio the harness      *)
(* launches the same server and nobody tears it down.                      *)
(*                                                                         *)
(* A process inside a C-level solve does not handle SIGTERM until the call *)
(* returns ("deaf" if the signal is pending).                              *)
(***************************************************************************)
EXTENDS Integers

VARIABLES
    svc,        \* OmdHttpService: "idle", "waiting", "serving"; in a teardown "term" once
                \* the group got SIGTERM, "alone" when only the server could be reached;
                \* "closed" after a signal to the group, "abandoned" without one
    server,     \* "none", "booting", "up", "deaf", "dead"
    worker      \* "none", "python", "solving" (in C), "deaf"

svcVars == <<svc, server, worker>>

ServiceTypeOK ==
    /\ svc \in {"idle", "waiting", "serving", "term", "alone", "closed", "abandoned"}
    /\ server \in {"none", "booting", "up", "deaf", "dead"}
    /\ worker \in {"none", "python", "solving", "deaf"}

ServiceInit == svc = "idle" /\ server = "none" /\ worker = "none"

Alive(s) == s \notin {"none", "dead"}

(* What SIGTERM makes of the group: a worker in Python exits, one in C is deaf; *)
(* the server may be in C as well.                                              *)
TermedWorker == IF worker = "python" THEN "none"
                ELSE IF worker = "solving" THEN "deaf" ELSE worker

-----------------------------------------------------------------------------
(* The runner.                                                             *)

Launch ==
    /\ svc = "idle"
    /\ svc' = "waiting" /\ server' = "booting"
    /\ UNCHANGED worker

(* The harness starts its own server over stdio. *)
SpawnStdio ==
    /\ svc = "idle"
    /\ svc' = "serving" /\ server' = "up"
    /\ UNCHANGED worker

Ready ==
    /\ svc = "waiting" /\ server = "up"
    /\ svc' = "serving"
    /\ UNCHANGED <<server, worker>>

(* _wait_ready: the server exited; it is raised without a teardown. *)
StartupCrashes ==
    /\ svc = "waiting" /\ server = "dead"
    /\ svc' = "abandoned"
    /\ UNCHANGED <<server, worker>>

(* Fault: teardown signals the server alone, as it used to. *)
TermServerOnly ==
    /\ svc' = "term" /\ server' \in {"dead", "deaf"}
    /\ UNCHANGED worker

(* _teardown: a server that has already exited is not waited for, and nothing  *)
(* of its group is signalled; otherwise SIGTERM goes to the whole group, or, if *)
(* _signal_group could not reach it, to the server alone.                       *)
Term ==
    IF ~Alive(server)
    THEN svc' = "abandoned" /\ UNCHANGED <<server, worker>>
    ELSE /\ server' \in {"dead", "deaf"}
         /\ \/ svc' = "term" /\ worker' = TermedWorker
            \/ svc' = "alone" /\ UNCHANGED worker

(* __exit__, or a startup that timed out. *)
Teardown == svc = "serving" /\ Term

StartupTimesOut == svc = "waiting" /\ Term

Ended == IF svc = "term" THEN "closed" ELSE "abandoned"

(* The server exits within the grace period: the wait is over. *)
TermSuffices ==
    /\ svc \in {"term", "alone"} /\ server = "dead"
    /\ svc' = Ended
    /\ UNCHANGED <<server, worker>>

(* Fault: no escalation, the wait has no limit. *)
NeverKill == FALSE /\ UNCHANGED svcVars

(* Grace expires: SIGKILL to the group or, if it cannot be reached, the server. *)
Kill ==
    /\ svc \in {"term", "alone"} /\ server = "deaf"
    /\ server' = "dead"
    /\ \/ svc' = "closed" /\ worker' = "none"
       \/ svc' = Ended /\ UNCHANGED worker

-----------------------------------------------------------------------------
(* The processes (omd itself is external).                                 *)

Boots == server = "booting" /\ server' = "up" /\ UNCHANGED <<svc, worker>>

ServerCrashes ==
    /\ server \in {"booting", "up"}
    /\ server' = "dead"
    /\ UNCHANGED <<svc, worker>>

(* A deaf server reaches its handler after all. *)
ServerHears == server = "deaf" /\ server' = "dead" /\ UNCHANGED <<svc, worker>>

EnterSolve == worker = "python" /\ worker' = "solving" /\ UNCHANGED <<svc, server>>

LeaveSolve ==
    /\ worker \in {"solving", "deaf"}
    /\ worker' = IF worker = "solving" THEN "python" ELSE "none"
    /\ UNCHANGED <<svc, server>>
=============================================================================
