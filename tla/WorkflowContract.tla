-------------------------- MODULE WorkflowContract ---------------------------
(***************************************************************************)
(* What a durable run promises about its steps, without leases, versions,  *)
(* events, retries or workers: a step starts after its dependencies have   *)
(* succeeded, a red-line step succeeds only when a human says so, and a    *)
(* finished step stays finished.  WorkflowRuntime implements this module.  *)
(***************************************************************************)
CONSTANTS Step, Dep, RedLine

VARIABLES
    status,    \* the status of each step
    worked,    \* the steps whose work was done at least once
    accepted   \* the steps a human accepted

vars == <<status, worked, accepted>>

Ready(s) == \A d \in Dep[s] : status[d] = "succeeded"

Move(s, to) == status' = [status EXCEPT ![s] = to]

Init ==
    /\ status = [s \in Step |-> "queued"]
    /\ worked = {}
    /\ accepted = {}

Start(s) ==
    /\ status[s] = "queued"
    /\ Ready(s)
    /\ Move(s, "running")
    /\ UNCHANGED <<worked, accepted>>

\* Work may be repeated, and a slow worker may do it after another finished the step.
DoWork(s) ==
    /\ status[s] # "queued"
    /\ worked' = worked \cup {s}
    /\ UNCHANGED <<status, accepted>>

Finish(s) ==
    /\ status[s] = "running"
    /\ \/ Move(s, "failed")
       \/ Move(s, IF s \in RedLine THEN "waiting_human" ELSE "succeeded")
    /\ UNCHANGED <<worked, accepted>>

\* The attempts are used up, possibly before the step was ever claimed.
GiveUp(s) ==
    /\ status[s] \in {"queued", "running"}
    /\ Ready(s)
    /\ Move(s, "failed")
    /\ UNCHANGED <<worked, accepted>>

Accept(s) ==
    /\ status[s] = "waiting_human"
    /\ Move(s, "succeeded")
    /\ accepted' = accepted \cup {s}
    /\ UNCHANGED worked

Reject(s) ==
    /\ status[s] = "waiting_human"
    /\ Move(s, "failed")
    /\ UNCHANGED <<worked, accepted>>

Next == \E s \in Step :
            Start(s) \/ DoWork(s) \/ Finish(s) \/ GiveUp(s) \/ Accept(s) \/ Reject(s)

Spec == Init /\ [][Next]_vars
=============================================================================
