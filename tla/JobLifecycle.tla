---------------------------- MODULE JobLifecycle ----------------------------
(***************************************************************************)
(* What the system promises about a job, with no stores, messages, copies  *)
(* or processes: it is submitted once, either cancelled or started, and    *)
(* ends once; its benchmark script is run at most once, never if it was    *)
(* cancelled, and a job that succeeded is one whose script was run.  The   *)
(* script of a job given up as Failed may still be started by the worker   *)
(* that had claimed it.                                                    *)
(***************************************************************************)
CONSTANT Jobs

VARIABLES status, executed

lifecycleVars == <<status, executed>>

Init ==
    /\ status = [j \in Jobs |-> "Absent"]
    /\ executed = {}

Becomes(j, from, to) ==
    /\ status[j] = from
    /\ status' = [status EXCEPT ![j] = to]
    /\ UNCHANGED executed

Submit(j) == Becomes(j, "Absent", "Submitted")

Cancel(j) == Becomes(j, "Submitted", "Cancelled")

Start(j) == Becomes(j, "Submitted", "Running")

Fail(j) == Becomes(j, "Running", "Failed")

Succeed(j) == j \in executed /\ Becomes(j, "Running", "Succeeded")

Execute(j) ==
    /\ status[j] \in {"Running", "Failed"}
    /\ j \notin executed
    /\ executed' = executed \union {j}
    /\ UNCHANGED status

Next ==
    \E j \in Jobs :
        Submit(j) \/ Cancel(j) \/ Start(j) \/ Fail(j) \/ Succeed(j) \/ Execute(j)

Spec == Init /\ [][Next]_lifecycleVars
=============================================================================
