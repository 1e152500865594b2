---------------------------- MODULE JobLifecycle ----------------------------
(***************************************************************************)
(* The life of ONE row of the job table: the worker threads of the         *)
(* consumers that claim, run and finalize it, the operator who pauses and  *)
(* resumes it, the startup recovery of a consumer, and the runner that     *)
(* owns its process.                                                       *)
(*                                                                         *)
(* Every database transaction of the code is one step.  A plain SELECT     *)
(* that a later statement relies on is a step of its own, because other    *)
(* processes commit in between: the connections are READ COMMITTED.        *)
(*                                                                         *)
(* Which due job a consumer picks, and whether the line rules let it run,  *)
(* is ThreadLine's subject; which credential the run gets is left out.     *)
(* Here a claim may happen whenever the row is TODO and preparing a run    *)
(* may fail.                                                               *)
(***************************************************************************)
EXTENDS Integers, Sequences, FiniteSets

CONSTANTS
    Consumers,      \* consumer processes (the daemon, or one `agento e2e`)
    Workers,        \* worker threads of all consumers
    ConsumerOf,     \* the consumer a worker thread belongs to
    MaxAttempts,    \* job.max_attempts
    MaxClaims,      \* bound: how often the row is claimed
    Budget          \* bound: how often each kind of fault or command happens

Kinds == {"pause", "resume", "runtime", "stop", "crash", "boot", "flap", "db"}

ASSUME WorkersAssumption ==
    /\ ConsumerOf \in [Workers -> Consumers]
ASSUME BoundsAssumption ==
    /\ MaxAttempts \in Nat \ {0}
    /\ MaxClaims \in Nat \ {0}
    /\ Budget \in [Kinds -> Nat]

VARIABLES
    job,        \* the job row
    execs,      \* the execution rows, in order of their auto-increment id
    caps,       \* executions whose toolbox capability is not revoked
    msg,        \* message.job_state of the turn this job answers
    outbox,     \* job_event_outbox
    wk,         \* what each worker thread knows and where it is
    run,        \* the agent process of each claim, in the runner
    tag,        \* Server._procs["job:<id>"]: the claim whose process it names
    boot,       \* Server.BOOT
    up,         \* whether the runner's socket answers
    cons,       \* the consumer processes
    stale,      \* the row a starting consumer read for recovery
    op,         \* the operator's pause or resume command
    claims,     \* number of claims so far: names each claim
    budget      \* what is left of Budget

dbVars   == <<job, execs, caps, msg, outbox>>
runVars  == <<run, tag, boot, up>>
consVars == <<cons, stale>>
vars     == <<dbVars, wk, runVars, consVars, op, claims, budget>>

-----------------------------------------------------------------------------
(* Values *)

Open     == {"TODO", "RUNNING", "PAUSED"}
Terminal == {"SUCCESS", "FAILED", "DEAD"}
Statuses == Open \cup Terminal

ExecStatus == {"running", "succeeded", "failed", "abandoned"}

None  == 0                  \* NULL: no owner on record, no execution, no claim
NoRow == [status |-> "none"]

\* What a run or its preparation can end with, as the finalizer tells it apart.
\* "none" is a normal return.  "crash" is a plain RuntimeError, which may be retried in
\* the same attempt and else is "retryable", as is any class the policy retries.  "fatal"
\* is a non-retryable class (or a credential wait past its 24 hours).  "pool" carries
\* pool_retry_at.
RunErrors == {"none", "crash", "retryable", "fatal", "pool"}

\* What the verification observers may turn a normal return into: a veto that allows a
\* retry, one that allows it with a fresh session only, a blocked one, a final one.
Verdicts == {"none", "retryable", "fresh", "blocked", "fatal"}

Errors == RunErrors \cup Verdicts

Idle == [pc |-> "idle", claim |-> None, attempt |-> 0, exec |-> None, sess |-> FALSE,
         prev |-> None, ref |-> None, seen |-> FALSE, again |-> FALSE, ran |-> FALSE,
         err |-> "none", verified |-> FALSE, tries |-> 0]

Pcs == {"idle", "claimed", "minted", "starting", "running", "crashed", "ended", "writing"}

ClaimIds == 1..MaxClaims

JobRow == [status : Statuses, attempt : Nat, sess : BOOLEAN, ref : Nat, aged : BOOLEAN]

Execution == [attempt : Nat, status : ExecStatus]

Event == [kind : {"job.claimed", "job.failed"}, attempt : Nat]

\* What a worker thread may know when there are n execution rows.
Thread(n) ==
    [pc : Pcs, claim : 0..MaxClaims, attempt : Nat, exec : 0..n, sess : BOOLEAN,
     prev : Nat, ref : Nat, seen : BOOLEAN, again : BOOLEAN, ran : BOOLEAN,
     err : Errors, verified : BOOLEAN, tries : Nat]

\* The type of every variable: one type invariant for the module.
TypeOK ==
    /\ job \in JobRow
    /\ execs \in Seq(Execution)
    /\ caps \subseteq 1..Len(execs)
    /\ msg \in {"published", "terminal"}
    /\ outbox \in Seq(Event)
    /\ wk \in [Workers -> Thread(Len(execs))]
    /\ run \in [ClaimIds -> {"none", "fresh", "resumed", "term"}]
    /\ tag \in 0..MaxClaims
    /\ boot \in Nat \ {0}
    /\ up \in BOOLEAN
    /\ cons \in [Consumers -> {"down", "recovering", "up", "draining"}]
    /\ stale \in [Consumers -> JobRow \cup {NoRow}]
    /\ op \in [pc : {"idle", "signal", "resume"}, ref : Nat]
    /\ claims \in 0..MaxClaims
    /\ budget \in [Kinds -> Nat]

-----------------------------------------------------------------------------
(* The initial state: a published job, a consumer about to start. *)

Init ==
    /\ job = [status |-> "TODO", attempt |-> 0, sess |-> FALSE, ref |-> None, aged |-> FALSE]
    /\ execs = <<>>
    /\ caps = {}
    /\ msg = "published"
    /\ outbox = <<>>
    /\ wk = [w \in Workers |-> Idle]
    /\ run = [k \in ClaimIds |-> "none"]
    /\ tag = None
    /\ boot = 1
    /\ up = TRUE
    /\ cons = [c \in Consumers |-> "down"]
    /\ stale = [c \in Consumers |-> NoRow]
    /\ op = [pc |-> "idle", ref |-> None]
    /\ claims = 0
    /\ budget = Budget

Spend(kind) ==
    /\ budget[kind] > 0
    /\ budget' = [budget EXCEPT ![kind] = @ - 1]

-----------------------------------------------------------------------------
(* Operators of the code that several steps use *)

\* runner_client.alive(ref, "job:<id>").
Alive(ref) ==
    IF ref = None THEN "dead"
    ELSE IF ~up THEN "unknown"
    ELSE IF ref # boot THEN "dead"
    ELSE IF tag # None THEN "alive" ELSE "dead"

\* Faulty: recovery, which holds no execution id, closes nothing.
ResolveOwnOnly(exec, attempt) == exec

\* The execution row a finalizer call settles on: the one it was given, or else the
\* newest running row of this attempt.
Resolve(exec, attempt) ==
    LET open == {i \in 1..Len(execs) : execs[i].attempt = attempt /\ execs[i].status = "running"}
    IN  IF exec # None THEN exec
        ELSE IF open = {} THEN None
        ELSE CHOOSE i \in open : \A j \in open : j <= i

\* Faulty: the turn ends only with an execution that exists.
EndExecutionOfARun(exec, attempt, outcome, terminal) ==
    LET e == Resolve(exec, attempt) IN
    /\ execs' = IF e # None /\ execs[e].status = "running"
                THEN [execs EXCEPT ![e].status = outcome] ELSE execs
    /\ msg' = IF terminal /\ e # None THEN "terminal" ELSE msg

\* finalize_execution: the module's rows, in the transaction of the transition.
EndExecution(exec, attempt, outcome, terminal) ==
    LET e == Resolve(exec, attempt) IN
    /\ execs' = IF e # None /\ execs[e].status = "running"
                THEN [execs EXCEPT ![e].status = outcome]
                ELSE execs
    /\ msg' = IF terminal THEN "terminal" ELSE msg

\* retry_policy.evaluate, for an attempt that just ended with err.
ShouldRetry(err, attempt) ==
    /\ err \in {"retryable", "fresh"}
    /\ attempt < MaxAttempts

\* The arguments the finalizer passes to the transition, per kind of ending.
How(err, attempt) ==
    IF err = "none" THEN
        [status |-> "SUCCESS", refund |-> FALSE, revoke |-> TRUE, failed |-> FALSE,
         outcome |-> "succeeded", terminal |-> TRUE]
    ELSE IF err = "pool" THEN
        [status |-> "TODO", refund |-> TRUE, revoke |-> FALSE, failed |-> FALSE,
         outcome |-> "abandoned", terminal |-> FALSE]
    ELSE IF ShouldRetry(err, attempt) THEN
        [status |-> "TODO", refund |-> FALSE, revoke |-> TRUE, failed |-> TRUE,
         outcome |-> "failed", terminal |-> FALSE]
    ELSE IF err = "blocked" THEN
        [status |-> "FAILED", refund |-> FALSE, revoke |-> FALSE, failed |-> TRUE,
         outcome |-> "failed", terminal |-> TRUE]
    ELSE
        [status |-> "DEAD", refund |-> FALSE, revoke |-> TRUE, failed |-> TRUE,
         outcome |-> "failed", terminal |-> TRUE]

\* Faulty: recovery ends the turn of a job it retries.
HowStaleEndsTurn(attempt) ==
    [status |-> IF attempt < MaxAttempts THEN "TODO" ELSE "DEAD", refund |-> FALSE,
     revoke |-> TRUE, failed |-> attempt >= MaxAttempts,
     outcome |-> IF attempt < MaxAttempts THEN "abandoned" ELSE "failed", terminal |-> TRUE]

\* What stale recovery passes.
HowStale(attempt) ==
    IF attempt < MaxAttempts
    THEN [status |-> "TODO", refund |-> FALSE, revoke |-> TRUE, failed |-> FALSE,
          outcome |-> "abandoned", terminal |-> FALSE]
    ELSE [status |-> "DEAD", refund |-> FALSE, revoke |-> TRUE, failed |-> TRUE,
          outcome |-> "failed", terminal |-> TRUE]

\* _transition and the success branch: the UPDATE has WHERE status = 'RUNNING' and its
\* row count is not read, so the capabilities, the execution and the outbox row are
\* written whether or not the row was still RUNNING.  `seen` is the session id the
\* result or the error carries; `fresh` is the verdict that drops the session with an
\* UPDATE of its own, which looks at no status.
Transition(how, exec, attempt, seen, fresh) ==
    /\ job' = IF job.status = "RUNNING"
              THEN [job EXCEPT !.status = how.status,
                               !.sess = (@ \/ seen) /\ ~fresh,
                               !.attempt = IF how.refund /\ @ > 0 THEN @ - 1 ELSE @]
              ELSE [job EXCEPT !.sess = @ /\ ~fresh]
    /\ caps' = IF how.revoke THEN {} ELSE caps
    /\ EndExecution(exec, attempt, how.outcome, how.terminal)
    /\ outbox' = IF how.failed
                 THEN Append(outbox, [kind |-> "job.failed", attempt |-> attempt])
                 ELSE outbox

-----------------------------------------------------------------------------
(* A worker thread of a consumer *)

\* _run_job is over, with err: what it knew of sessions and owners is of no more use.
Over(worker, err) ==
    [worker EXCEPT !.pc = "ended", !.err = err, !.sess = FALSE, !.prev = None, !.ref = None,
                   !.again = FALSE]

Ended(w, err) == wk' = [wk EXCEPT ![w] = Over(wk[w], err)]

\* Faulty: the claim does not look at the status.
ClaimAnyStatus(w) ==
    /\ cons[ConsumerOf[w]] = "up"
    /\ wk[w].pc = "idle"
    /\ job.status \in {"TODO", "RUNNING"}
    /\ claims < MaxClaims
    /\ claims' = claims + 1
    /\ job' = [job EXCEPT !.status = "RUNNING", !.attempt = @ + 1, !.aged = FALSE]
    /\ outbox' = Append(outbox, [kind |-> "job.claimed", attempt |-> job.attempt + 1])
    /\ wk' = [wk EXCEPT ![w] = [Idle EXCEPT !.pc = "claimed", !.claim = claims + 1,
                                  !.attempt = job.attempt + 1, !.sess = job.sess,
                                  !.prev = job.ref]]
    /\ UNCHANGED <<execs, caps, msg, runVars, consVars, op, budget>>

\* _try_dequeue: one transaction.  The row keeps the owner of its previous run.
Claim(w) ==
    /\ cons[ConsumerOf[w]] = "up"
    /\ wk[w].pc = "idle"
    /\ job.status = "TODO"
    /\ claims < MaxClaims
    /\ claims' = claims + 1
    /\ job' = [job EXCEPT !.status = "RUNNING", !.attempt = @ + 1, !.aged = FALSE]
    /\ outbox' = Append(outbox, [kind |-> "job.claimed", attempt |-> job.attempt + 1])
    /\ wk' = [wk EXCEPT ![w] = [Idle EXCEPT !.pc = "claimed", !.claim = claims + 1,
                                  !.attempt = job.attempt + 1, !.sess = job.sess,
                                  !.prev = job.ref]]
    /\ UNCHANGED <<execs, caps, msg, runVars, consVars, op, budget>>

\* _run_job raises before the runner is asked: no runtime, no credential, a workspace
\* that does not materialise, a runner that does not answer or refuses.
PrepareFails(w) ==
    /\ wk[w].pc \in {"claimed", "minted"}
    /\ \E err \in RunErrors \ {"none", "crash"} : Ended(w, err)
    /\ UNCHANGED <<dbVars, runVars, consVars, op, claims, budget>>

\* Faulty: the status is not read, so a pause that came first is not seen.
MintUnchecked(w) ==
    /\ wk[w].pc = "claimed"
    /\ execs' = Append(execs, [attempt |-> wk[w].attempt, status |-> "running"])
    /\ caps' = caps \cup {Len(execs) + 1}
    /\ wk' = [wk EXCEPT ![w].pc = "minted", ![w].exec = Len(execs) + 1]
    /\ UNCHANGED <<job, msg, outbox, runVars, consVars, op, claims, budget>>

\* mint_execution_id and _issue_run_capabilities: one transaction that holds the row
\* lock.  A job that is no longer RUNNING gives the run up: _run_job returns None,
\* which the finalizer treats as a normal return.
Mint(w) ==
    /\ wk[w].pc = "claimed"
    /\ LET e == Len(execs) + 1
           runnable == job.status = "RUNNING"
       IN  /\ execs' = Append(execs, [attempt |-> wk[w].attempt,
                                      status |-> IF runnable THEN "running" ELSE "abandoned"])
           /\ caps' = IF runnable THEN caps \cup {e} ELSE caps
           /\ wk' = [wk EXCEPT ![w].pc = IF runnable THEN "minted" ELSE "ended", ![w].exec = e]
    /\ UNCHANGED <<job, msg, outbox, runVars, consVars, op, claims, budget>>

\* _should_resume: the retry path continues the job's own session, with an empty prompt.
ShouldResume(w) ==
    /\ wk[w].attempt > 1
    /\ wk[w].sess
    /\ wk[w].prev = None \/ Alive(wk[w].prev) = "dead"

\* RemoteRunner.execute: the server starts the process and files its tag.  A run that
\* follows a process crash in the same attempt always continues its session.
StartRun(w) ==
    /\ wk[w].pc = "minted"
    /\ up
    /\ run' = [run EXCEPT ![wk[w].claim] =
                  IF wk[w].again \/ ShouldResume(w) THEN "resumed" ELSE "fresh"]
    /\ tag' = wk[w].claim
    /\ wk' = [wk EXCEPT ![w].pc = "starting"]
    /\ UNCHANGED <<dbVars, boot, up, consVars, op, claims, budget>>

\* The pid frame: _save_pid writes the owner, whatever the row's status; best effort.
PidFrame(w) ==
    /\ wk[w].pc = "starting"
    /\ wk' = [wk EXCEPT ![w].pc = "running", ![w].ref = boot]
    /\ \/ job' = [job EXCEPT !.ref = boot] /\ UNCHANGED budget
       \/ Spend("db") /\ UNCHANGED job
    /\ UNCHANGED <<execs, caps, msg, outbox, runVars, consVars, op, claims>>

\* The session frame: _save_session_id, whatever the row's status; best effort.
SessionFrame(w) ==
    /\ wk[w].pc = "running"
    /\ ~wk[w].seen
    /\ wk' = [wk EXCEPT ![w].sess = TRUE, ![w].seen = TRUE]
    /\ \/ job' = [job EXCEPT !.sess = TRUE] /\ UNCHANGED budget
       \/ Spend("db") /\ UNCHANGED job
    /\ UNCHANGED <<execs, caps, msg, outbox, runVars, consVars, op, claims>>

\* The process ends and the server forgets the tag, whoever filed it last; then the
\* terminal frame reaches the worker.
RunEnds(w) ==
    /\ wk[w].pc \in {"starting", "running"}
    /\ run' = [run EXCEPT ![wk[w].claim] = "none"]
    /\ tag' = None
    /\ \E err \in RunErrors :
         IF err = "crash" THEN wk' = [wk EXCEPT ![w].pc = "crashed"]
         ELSE wk' = [wk EXCEPT ![w] = [Over(wk[w], err) EXCEPT !.ran = TRUE]]
    /\ UNCHANGED <<dbVars, boot, up, consVars, op, claims, budget>>

\* _execute_with_one_retry, after a plain process crash: once, and only while the row is
\* RUNNING and the owner says the run is dead.  The second run reports its own session.
CrashRetry(w) ==
    /\ wk[w].pc = "crashed"
    /\ IF ~wk[w].again /\ wk[w].seen /\ job.status = "RUNNING" /\ Alive(wk[w].ref) = "dead"
       THEN wk' = [wk EXCEPT ![w].pc = "minted", ![w].again = TRUE, ![w].seen = FALSE]
       ELSE Ended(w, "retryable")
    /\ UNCHANGED <<dbVars, runVars, consVars, op, claims, budget>>

\* _finalize_job reads the status without a lock.  A job that is not RUNNING only has
\* this attempt's execution abandoned; else the observers may veto a normal return.
FinalizeRead(w) ==
    /\ wk[w].pc = "ended"
    /\ \/ /\ job.status # "RUNNING"
          /\ EndExecution(wk[w].exec, wk[w].attempt, "abandoned", FALSE)
          /\ wk' = [wk EXCEPT ![w] = Idle]
       \/ /\ job.status = "RUNNING"
          /\ \E err \in IF wk[w].err = "none" /\ ~wk[w].verified THEN Verdicts ELSE {wk[w].err} :
               wk' = [wk EXCEPT ![w].pc = "writing", ![w].err = err, ![w].verified = TRUE]
          /\ UNCHANGED <<execs, msg>>
    /\ UNCHANGED <<job, caps, outbox, runVars, consVars, op, claims, budget>>

\* _finalize_job's second half: the UPDATE and everything that commits with it.
FinalizeWrite(w) ==
    /\ wk[w].pc = "writing"
    /\ Transition(How(wk[w].err, wk[w].attempt), wk[w].exec, wk[w].attempt,
                  wk[w].seen /\ wk[w].err # "none", wk[w].err = "fresh")
    /\ wk' = [wk EXCEPT ![w] = Idle]
    /\ UNCHANGED <<runVars, consVars, op, claims, budget>>

\* Faulty: one try fewer.
TwoDbRetries == 2

\* How often _finalize_job tries.
MaxDbRetries == 3

\* The finalizer's transaction fails and rolls back: it starts again from the read, and
\* gives the job up, still RUNNING, after the third failure.
FinalizeFault(w) ==
    /\ wk[w].pc \in {"ended", "writing"}
    /\ Spend("db")
    /\ IF wk[w].tries + 1 < MaxDbRetries
       THEN wk' = [wk EXCEPT ![w].pc = "ended", ![w].tries = wk[w].tries + 1]
       ELSE wk' = [wk EXCEPT ![w] = Idle]
    /\ UNCHANGED <<dbVars, runVars, consVars, op, claims>>

-----------------------------------------------------------------------------
(* A consumer process *)

\* Consumer.run starts: _recover_stale_jobs reads the RUNNING rows.
RecoverScan(c) ==
    /\ cons[c] = "down"
    /\ cons' = [cons EXCEPT ![c] = "recovering"]
    /\ stale' = [stale EXCEPT ![c] = IF job.status = "RUNNING" THEN job ELSE NoRow]
    /\ UNCHANGED <<dbVars, wk, runVars, op, claims, budget>>

\* Whether recovery takes the row it read: its owner says the run is dead, or there is no
\* owner and the claim is older than the job timeout.
IsStale(row) ==
    /\ row.status = "RUNNING"
    /\ IF row.ref # None THEN Alive(row.ref) = "dead" ELSE row.aged

\* ... then asks the owner of each, moves the dead ones on, and commits.
RecoverApply(c) ==
    /\ cons[c] = "recovering"
    /\ cons' = [cons EXCEPT ![c] = "up"]
    /\ stale' = [stale EXCEPT ![c] = NoRow]
    /\ IF IsStale(stale[c])
       THEN Transition(HowStale(stale[c].attempt), None, stale[c].attempt, FALSE, FALSE)
       ELSE UNCHANGED dbVars
    /\ UNCHANGED <<wk, runVars, op, claims, budget>>

\* SIGTERM: no more claims, the running jobs finish.
Shutdown(c) ==
    /\ cons[c] = "up"
    /\ Spend("stop")
    /\ cons' = [cons EXCEPT ![c] = "draining"]
    /\ UNCHANGED <<dbVars, wk, runVars, stale, op, claims>>

\* Faulty: the process ends without waiting for its threads.
DrainedEarly(c) ==
    /\ cons[c] = "draining"
    /\ cons' = [cons EXCEPT ![c] = "down"]
    /\ UNCHANGED <<dbVars, wk, runVars, stale, op, claims, budget>>

\* executor.shutdown(wait=True): the process ends when its threads are done.
Drained(c) ==
    /\ cons[c] = "draining"
    /\ \A w \in Workers : ConsumerOf[w] = c => wk[w].pc = "idle"
    /\ cons' = [cons EXCEPT ![c] = "down"]
    /\ UNCHANGED <<dbVars, wk, runVars, stale, op, claims, budget>>

\* The process dies.  Its threads are gone; the runner sees the end of file on their
\* connections and will kill their runs.
Crash(c) ==
    /\ cons[c] # "down"
    /\ Spend("crash")
    /\ cons' = [cons EXCEPT ![c] = "down"]
    /\ stale' = [stale EXCEPT ![c] = NoRow]
    /\ wk' = [w \in Workers |-> IF ConsumerOf[w] = c THEN Idle ELSE wk[w]]
    /\ run' = [k \in ClaimIds |->
                 IF /\ run[k] # "none"
                    /\ \E w \in Workers : ConsumerOf[w] = c /\ wk[w].claim = k
                 THEN "term" ELSE run[k]]
    /\ UNCHANGED <<dbVars, tag, boot, up, op, claims>>

-----------------------------------------------------------------------------
(* The runner *)

Listening(k) == \E w \in Workers : wk[w].claim = k /\ wk[w].pc \in {"starting", "running"}

\* _watch_eof and the cleanup of _isolated, for a run nobody listens to.
RunKilled(k) ==
    /\ run[k] = "term"
    /\ ~Listening(k)
    /\ run' = [run EXCEPT ![k] = "none"]
    /\ tag' = None
    /\ UNCHANGED <<dbVars, wk, boot, up, consVars, op, claims, budget>>

\* The runner container starts again: a new boot id, its runs died with the old one, and
\* their workers see the connection lost.
RunnerRestart ==
    /\ Spend("boot")
    /\ boot' = boot + 1
    /\ up' = TRUE
    /\ run' = [k \in ClaimIds |-> "none"]
    /\ tag' = None
    /\ wk' = [w \in Workers |->
                IF wk[w].pc \in {"starting", "running"}
                THEN [wk[w] EXCEPT !.pc = "crashed"]
                ELSE wk[w]]
    /\ UNCHANGED <<dbVars, consVars, op, claims>>

\* The socket stops answering (its connection limit, a stopped container) and answers again.
RunnerSilent ==
    /\ up
    /\ Spend("flap")
    /\ up' = FALSE
    /\ UNCHANGED <<dbVars, wk, run, tag, boot, consVars, op, claims>>

RunnerAnswers ==
    /\ ~up
    /\ up' = TRUE
    /\ UNCHANGED <<dbVars, wk, run, tag, boot, consVars, op, claims, budget>>

-----------------------------------------------------------------------------
(* The operator *)

\* pause_job, its transaction: FOR UPDATE, PAUSED, and the capabilities with it.
Pause ==
    /\ op.pc = "idle"
    /\ job.status = "RUNNING"
    /\ Spend("pause")
    /\ job' = [job EXCEPT !.status = "PAUSED"]
    /\ caps' = {}
    /\ op' = [pc |-> "signal", ref |-> job.ref]
    /\ UNCHANGED <<execs, msg, outbox, wk, runVars, consVars, claims>>

\* ... then SIGTERM through the owner it read, if that owner has the tag.
PauseSignal ==
    /\ op.pc = "signal"
    /\ op' = [pc |-> "idle", ref |-> None]
    /\ run' = IF op.ref = boot /\ up /\ tag # None
              THEN [run EXCEPT ![tag] = "term"] ELSE run
    /\ UNCHANGED <<dbVars, wk, tag, boot, up, consVars, claims, budget>>

\* resume_job reads the row without a lock and asks its owner ...
ResumeRead ==
    /\ op.pc = "idle"
    /\ job.status = "PAUSED"
    /\ job.sess
    /\ Alive(job.ref) = "dead"
    /\ Spend("resume")
    /\ op' = [pc |-> "resume", ref |-> None]
    /\ UNCHANGED <<dbVars, wk, runVars, consVars, claims>>

\* ... then sets it TODO and forgets the owner, if it is still PAUSED.
ResumeWrite ==
    /\ op.pc = "resume"
    /\ op' = [pc |-> "idle", ref |-> None]
    /\ job' = IF job.status = "PAUSED"
              THEN [job EXCEPT !.status = "TODO", !.ref = None] ELSE job
    /\ UNCHANGED <<execs, caps, msg, outbox, wk, runVars, consVars, claims, budget>>

\* set_job_runtime to another harness: a TODO row loses its session.
SetRuntime ==
    /\ op.pc = "idle"
    /\ job.status = "TODO"
    /\ Spend("runtime")
    /\ job' = [job EXCEPT !.sess = FALSE]
    /\ UNCHANGED <<execs, caps, msg, outbox, wk, runVars, consVars, op, claims>>

\* Time passes the started_at threshold.  It is longer than the job timeout, so a worker
\* that has not yet had its pid frame has either had it, or is gone.
Age ==
    /\ job.status = "RUNNING"
    /\ job.ref = None /\ ~job.aged
    /\ \A w \in Workers : wk[w].claim = claims => wk[w].pc \notin {"claimed", "minted", "starting"}
    /\ claims > 0 => run[claims] # "term"
    /\ job' = [job EXCEPT !.aged = TRUE]
    /\ UNCHANGED <<execs, caps, msg, outbox, wk, runVars, consVars, op, claims, budget>>

-----------------------------------------------------------------------------
WorkerStep(w) ==
    \/ Claim(w) \/ PrepareFails(w) \/ Mint(w) \/ StartRun(w) \/ PidFrame(w)
    \/ SessionFrame(w) \/ RunEnds(w) \/ CrashRetry(w) \/ FinalizeRead(w)
    \/ FinalizeWrite(w) \/ FinalizeFault(w)

ConsumerStep(c) ==
    RecoverScan(c) \/ RecoverApply(c) \/ Shutdown(c) \/ Drained(c) \/ Crash(c)

RunnerStep ==
    \/ \E k \in ClaimIds : RunKilled(k)
    \/ RunnerRestart \/ RunnerSilent \/ RunnerAnswers

OperatorStep == Pause \/ PauseSignal \/ ResumeRead \/ ResumeWrite \/ SetRuntime

Next ==
    \/ \E w \in Workers : WorkerStep(w)
    \/ \E c \in Consumers : ConsumerStep(c)
    \/ RunnerStep
    \/ OperatorStep
    \/ Age

Spec == Init /\ [][Next]_vars

\* A worker thread keeps going, a run ends (the job timeout bounds it), the runner kills
\* what nobody listens to and its socket comes back, a container manager starts a consumer
\* that is down, and a command once begun goes on.  No fairness for faults, for operator
\* commands, or for the claim: other jobs may always go first.
Fairness ==
    /\ \A w \in Workers :
         WF_vars(PrepareFails(w) \/ Mint(w) \/ StartRun(w) \/ PidFrame(w) \/ RunEnds(w)
                  \/ CrashRetry(w) \/ FinalizeRead(w) \/ FinalizeWrite(w))
    /\ \A c \in Consumers : WF_vars(RecoverScan(c) \/ RecoverApply(c) \/ Drained(c))
    /\ \A k \in ClaimIds : WF_vars(RunKilled(k))
    /\ WF_vars(RunnerAnswers)
    /\ WF_vars(PauseSignal \/ ResumeWrite)
    /\ WF_vars(Age)

FairSpec == Spec /\ Fairness

-----------------------------------------------------------------------------
(* Properties that hold whatever the operator, the faults and the scheduling do *)

\* A paused, succeeded or dead job has no live toolbox capability: pause_job, the success
\* branch and the retry and dead transitions revoke in the transaction that writes the
\* status, and _issue_run_capabilities takes the row lock before it issues.
NoCapabilityAtRest ==
    job.status \in {"PAUSED", "SUCCESS", "DEAD"} => caps = {}

\* A terminal job is never taken up again: every writer of job.status names the status it
\* replaces, so a late finalizer, a recovery with an old read and a late resume all miss.
TerminalStays ==
    [][job.status \in Terminal => job'.status = job.status]_vars

\* When the job is terminal, the turn it answers is terminal: the finalizer of the
\* conversation runs in the same transaction, so no reader waits for a job that is over.
TerminalEndsTheTurn ==
    job.status \in Terminal => msg = "terminal"

Promise == INSTANCE JobPromise WITH
    status <- job.status, live <- caps # {}, over <- msg = "terminal"

\* The abstract job: every transaction of a consumer, of recovery and of the operator is a step
\* of JobPromise or invisible to it.
KeepsThePromise == Promise!PromiseSpec

-----------------------------------------------------------------------------
(* Properties of a job that no operator touches *)

\* The turn is terminal only when the job is ("either the transition and these rows are
\* both there or neither is", conversation finalizer).
TurnEndsWithTheJob ==
    msg = "terminal" => job.status \in Terminal

\* Only the worker of the latest claim, having had its run or a failure to prepare it,
\* moves the row out of RUNNING; or recovery does, when that worker is gone.
HolderEnds ==
    [][job.status = "RUNNING" /\ job'.status # "RUNNING" =>
          \/ \E w \in Workers : wk[w].claim = claims /\ wk[w].pc = "writing" /\ wk'[w].pc = "idle"
          \/ \A w \in Workers : wk[w].claim # claims
          \/ job'.status = "PAUSED"]_vars

\* At most one process of the job is connected to a worker at any time, so no session is
\* continued by two processes.
OneRun ==
    \A j, k \in ClaimIds : run[j] \in {"fresh", "resumed"} /\ run[k] \in {"fresh", "resumed"} => j = k

\* No execution is left running for ever: a running execution belongs to a worker that
\* will finalize it, or to a RUNNING job that recovery will look at.
OpenExecutionHasOwner ==
    \A e \in 1..Len(execs) :
        execs[e].status = "running" =>
            \/ job.status = "RUNNING" /\ execs[e].attempt = job.attempt
            \/ \E w \in Workers : wk[w].exec = e

-----------------------------------------------------------------------------
(* Liveness *)

\* While its consumer lives, a claim ends: runner restarts, a silent runner, two failed
\* finalize transactions and a pause all leave a worker that moves the row on.
ClaimEnds ==
    job.status = "RUNNING" ~> job.status # "RUNNING"
=============================================================================
