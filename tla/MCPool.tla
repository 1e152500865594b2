------------------------------- MODULE MCPool -------------------------------
(* A pool of two credentials, one of which has a refresh token, two runs   *)
(* and the tick; the process of a run; and root's crontab with the tasks   *)
(* of two views.  The parts share no state here: a behaviour is one of     *)
(* them and the others rest.                                               *)
EXTENDS CredentialPool, HarnessRun, Crontab

CONSTANTS i1, i2

VARIABLE part

poolRunVars == <<part, poolVars, runVars, cronVars>>

\* One rotation and two weeks, and two of the rest.
Calm == [rotate |-> 1, fail |-> 0, fault |-> 0, crash |-> 0, age |-> 2, tick |-> 0, operator |-> 0]
PoolFaults == {[Calm EXCEPT ![p[1]] = @ + 1, ![p[2]] = @ + 1] :
    p \in ({"fail", "fault", "crash", "tick"} \X {"rotate", "tick"})
          \cup ({"fault", "crash", "tick", "operator"} \X {"operator"})}

\* Three lines into a pipe of one; a process left behind in the group and one outside of it.
Announced == {[kind |-> "answer", says |-> {}],
              [kind |-> "other model", says |-> {}], [kind |-> "failure", says |-> {"auth", "limit"}]}
Behind    == {[lines |-> 3, left |-> 2]}

\* A change by people beside an overlap of two runs, of which one fails, dies or is slow.
Quiet == [jira |-> 0, view |-> 0, manifest |-> 0, outage |-> 0, death |-> 0, slow |-> 0, overlap |-> 0,
          restart |-> 0]
CronFaults == {[Quiet EXCEPT ![p[1]] = @ + 1, ![p[2]] = @ + 1] :
    p \in {<<"jira", "overlap">>, <<"jira", "outage">>, <<"view", "outage">>, <<"manifest", "overlap">>,
           <<"death", "overlap">>, <<"slow", "overlap">>, <<"restart", "outage">>}}

PoolPartInit ==
    /\ part \in {"pool", "run", "cron"}
    /\ PoolInit /\ RunInit /\ CronInit
    /\ part # "cron" => cronLeft = CHOOSE x \in CronBudgets : TRUE
    /\ manifest = [m \in Mods |-> "valid"]
    /\ view = [v \in Views |-> [active |-> TRUE, jira |-> TRUE]]
    /\ due = [v \in Views |-> IF v = "v1" THEN {i1} ELSE {i2}]
    /\ part # "pool" => pool = CHOOSE x \in PoolBudgets : TRUE
    /\ part # "run"  => harness = "pi" /\ payload

PoolPartNext ==
    \/ part = "pool" /\ PoolNext /\ UNCHANGED <<part, runVars, cronVars>>
    \/ part = "run"  /\ RunNext  /\ UNCHANGED <<part, poolVars, cronVars>>
    \/ part = "cron" /\ CronNext /\ UNCHANGED <<part, poolVars, runVars>>

\* Cron never rests: it owes a step only to its own part.
CronPartFairness ==
    /\ \A r \in Renderers : WF_cronVars(part = "cron" /\ Rendering(r))
    /\ \A s \in Syncers : WF_cronVars(part = "cron" /\ Syncing(s))
    /\ WF_cronVars(part = "cron" /\ LockAges)

FairPoolSpec == PoolPartInit /\ [][PoolPartNext]_poolRunVars /\ PoolFairness /\ RunFairness /\ CronPartFairness
=============================================================================
