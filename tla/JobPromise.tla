----------------------------- MODULE JobPromise -----------------------------
(***************************************************************************)
(* What a job promises to whoever reads its row, its turn or its           *)
(* capabilities: the statuses it may go through, that it is over for good, *)
(* that its turn is over with it, and that nothing it was allowed to do    *)
(* outlives it.  JobLifecycle implements it, whatever the consumers, the   *)
(* runner and the operator do.                                             *)
(***************************************************************************)

VARIABLES
    status,     \* job.status
    live,       \* whether a toolbox capability of the job is not revoked
    over        \* whether the turn the job answers is terminal

promiseVars == <<status, live, over>>

PromiseInit == status = "TODO" /\ ~live /\ ~over

\* A consumer takes the job; a claim that was given back may have left a capability.
Claimed == status = "TODO" /\ status' = "RUNNING" /\ UNCHANGED <<live, over>>

Issued == status = "RUNNING" /\ live' /\ UNCHANGED <<status, over>>

\* Another attempt: later, or of the pool.
Returned ==
    /\ status = "RUNNING" /\ status' = "TODO"
    /\ live' => live
    /\ UNCHANGED over

Paused == status = "RUNNING" /\ status' = "PAUSED" /\ ~live' /\ UNCHANGED over

Resumed == status = "PAUSED" /\ status' = "TODO" /\ UNCHANGED <<live, over>>

Succeeded == status = "RUNNING" /\ status' \in {"SUCCESS", "DEAD"} /\ ~live' /\ over'

\* FAILED is a veto; the capability it leaves expires.
Vetoed == status = "RUNNING" /\ status' = "FAILED" /\ (live' => live) /\ over'

\* A worker or a recovery that comes late does not move the row, but ends what was its own.
Late ==
    /\ status # "RUNNING"
    /\ UNCHANGED status
    /\ live' => live
    /\ over => over'

PromiseNext ==
    Claimed \/ Issued \/ Returned \/ Paused \/ Resumed \/ Succeeded \/ Vetoed \/ Late

PromiseSpec == PromiseInit /\ [][PromiseNext]_promiseVars
=============================================================================
