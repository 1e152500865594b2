---------------------- MODULE JobConsequences_proofs ----------------------
(***************************************************************************)
(* What follows from the invariant of JobLifecycle, for any number of      *)
(* worker threads, claims, attempts and faults.                            *)
(*                                                                         *)
(* First, JobLifecycle implements JobPromise: its initial state is an      *)
(* initial state of the abstract job, and each of its steps is one of the  *)
(* abstract steps or changes nothing that the abstract job shows.          *)
(*                                                                         *)
(* Second, who holds a job that no operator touches: with one consumer the *)
(* thread at work has the last claim, its run is the only one heard and    *)
(* its execution the only one open.                                        *)
(***************************************************************************)
EXTENDS JobLifecycle_proofs

-----------------------------------------------------------------------------
(* What a step does to the three facts the abstract job is made of *)

\* A step that writes neither the status nor the capabilities nor the turn is invisible.
LEMMA InvisibleStep ==
    ASSUME job'.status = job.status, caps' = caps, msg' = msg
    PROVE  [Promise!PromiseNext]_(Promise!promiseVars)
BY DEF Promise!promiseVars

\* A step that writes no row is invisible.
LEMMA NoRowIsWritten ==
    ASSUME UNCHANGED dbVars
    PROVE  [Promise!PromiseNext]_(Promise!promiseVars)
BY InvisibleStep DEF dbVars

\* What the finalizer and recovery may pass to the transition: success and death revoke and end
\* the turn, a failure ends it, and nothing else is a status they may write.
Settling(how) ==
    \/ how.status = "TODO" /\ ~how.terminal
    \/ how.status \in {"SUCCESS", "DEAD"} /\ how.revoke /\ how.terminal
    \/ how.status = "FAILED" /\ how.terminal

\* The finalizer's arguments are such, for every ending (_finalize_job).
LEMMA HowSettles ==
    ASSUME NEW err \in Errors, NEW attempt \in Nat
    PROVE  Settling(How(err, attempt))
BY DEF How, Settling

\* So are those of recovery (_recover_stale_jobs).
LEMMA HowStaleSettles ==
    ASSUME NEW attempt \in Nat
    PROVE  Settling(HowStale(attempt))
BY DEF HowStale, Settling

\* The transition is a step of the abstract job: it succeeds, vetoes or returns a RUNNING job,
\* and comes late to any other (_transition, which does not read its row count).
LEMMA TransitionImplements ==
    ASSUME NEW how, NEW exec, NEW attempt, NEW seen, NEW fresh,
           job \in JobRow, Settling(how), Transition(how, exec, attempt, seen, fresh)
    PROVE  [Promise!PromiseNext]_(Promise!promiseVars)
<1>1. caps' \in {{}, caps} /\ (how.revoke => caps' = {})
  BY DEF Transition
<1>2. (msg = "terminal" => msg' = "terminal") /\ (how.terminal => msg' = "terminal")
  BY DEF Transition, EndExecution
<1>3. ~how.terminal => msg' = msg
  BY DEF Transition, EndExecution
<1>4. CASE job.status # "RUNNING"
  <2>1. job'.status = job.status
    BY <1>4 DEF Transition, JobRow
  <2>2. Promise!Late
    BY <1>1, <1>2, <1>4, <2>1 DEF Promise!Late
  <2>3. QED
    BY <2>2 DEF Promise!PromiseNext
<1>5. CASE job.status = "RUNNING"
  <2>1. job'.status = how.status
    BY <1>5 DEF Transition, JobRow
  <2>2. CASE how.status = "TODO" /\ ~how.terminal
    <3>1. Promise!Returned
      BY <1>1, <1>3, <1>5, <2>1, <2>2 DEF Promise!Returned
    <3>2. QED
      BY <3>1 DEF Promise!PromiseNext
  <2>3. CASE how.status \in {"SUCCESS", "DEAD"} /\ how.revoke /\ how.terminal
    <3>1. Promise!Succeeded
      BY <1>1, <1>2, <1>5, <2>1, <2>3 DEF Promise!Succeeded
    <3>2. QED
      BY <3>1 DEF Promise!PromiseNext
  <2>4. CASE how.status = "FAILED" /\ how.terminal
    <3>1. Promise!Vetoed
      BY <1>1, <1>2, <1>5, <2>1, <2>4 DEF Promise!Vetoed
    <3>2. QED
      BY <3>1 DEF Promise!PromiseNext
  <2>5. QED
    BY <2>2, <2>3, <2>4 DEF Settling
<1>6. QED
  BY <1>4, <1>5

-----------------------------------------------------------------------------
(* The steps *)

\* The initial state: a published job that nobody has claimed.
LEMMA InitImplements == Init => Promise!PromiseInit
BY DEF Init, Promise!PromiseInit

\* A claim takes a TODO job (_try_dequeue).
LEMMA ClaimImplements ==
    ASSUME IInv, NEW w \in Workers, Claim(w)
    PROVE  [Promise!PromiseNext]_(Promise!promiseVars)
<1>1. job.status = "TODO" /\ job'.status = "RUNNING" /\ UNCHANGED <<caps, msg>>
  BY DEF Claim, IInv, RowsOK, JobRow
<1>2. Promise!Claimed
  BY <1>1 DEF Promise!Claimed
<1>3. QED
  BY <1>2 DEF Promise!PromiseNext

\* Issuing capabilities reads the status under the row lock (_issue_run_capabilities).
LEMMA MintImplements ==
    ASSUME NEW w \in Workers, Mint(w)
    PROVE  [Promise!PromiseNext]_(Promise!promiseVars)
<1>1. UNCHANGED <<job, msg>>
  BY DEF Mint
<1>2. CASE job.status = "RUNNING"
  <2>1. caps' # {}
    BY <1>2 DEF Mint
  <2>2. Promise!Issued
    BY <1>1, <1>2, <2>1 DEF Promise!Issued
  <2>3. QED
    BY <2>2 DEF Promise!PromiseNext
<1>3. CASE job.status # "RUNNING"
  <2>1. caps' = caps
    BY <1>3 DEF Mint
  <2>2. QED
    BY <1>1, <2>1, InvisibleStep
<1>4. QED
  BY <1>2, <1>3

\* A frame of the runner writes the owner or the session, and no status.
LEMMA FramesImplement ==
    ASSUME IInv, NEW w \in Workers, PidFrame(w) \/ SessionFrame(w)
    PROVE  [Promise!PromiseNext]_(Promise!promiseVars)
<1>1. job'.status = job.status
  BY DEF PidFrame, SessionFrame, IInv, RowsOK, JobRow
<1>2. caps' = caps /\ msg' = msg
  BY DEF PidFrame, SessionFrame
<1>3. QED
  BY <1>1, <1>2, InvisibleStep

\* A finalizer that finds the job not RUNNING closes its own execution and no turn.
LEMMA FinalizeReadImplements ==
    ASSUME NEW w \in Workers, FinalizeRead(w)
    PROVE  [Promise!PromiseNext]_(Promise!promiseVars)
<1>1. job' = job /\ caps' = caps
  BY DEF FinalizeRead
<1>2. msg' = msg
  BY DEF FinalizeRead, EndExecution
<1>3. QED
  BY <1>1, <1>2, InvisibleStep

\* The finalizer's transaction is the transition with the arguments of its ending.
LEMMA FinalizeWriteImplements ==
    ASSUME IInv, NEW w \in Workers, FinalizeWrite(w)
    PROVE  [Promise!PromiseNext]_(Promise!promiseVars)
<1>1. job \in JobRow /\ wk[w].err \in Errors /\ wk[w].attempt \in Nat
  BY DEF IInv, RowsOK, ThreadsOK, Thread
<1>2. Settling(How(wk[w].err, wk[w].attempt))
  BY <1>1, HowSettles
<1>3. QED
  BY <1>1, <1>2, TransitionImplements DEF FinalizeWrite

\* Each step of a worker thread.
LEMMA WorkerStepImplements ==
    ASSUME IInv, NEW w \in Workers, WorkerStep(w)
    PROVE  [Promise!PromiseNext]_(Promise!promiseVars)
<1>1. CASE PrepareFails(w) \/ StartRun(w) \/ RunEnds(w) \/ CrashRetry(w) \/ FinalizeFault(w)
  <2>1. UNCHANGED dbVars
    BY <1>1 DEF PrepareFails, StartRun, RunEnds, CrashRetry, FinalizeFault
  <2>2. QED
    BY <2>1, NoRowIsWritten
<1>2. QED
  BY <1>1, ClaimImplements, MintImplements, FramesImplement, FinalizeReadImplements,
     FinalizeWriteImplements DEF WorkerStep

\* Recovery moves on a row that it read as RUNNING; whoever was faster wins.
LEMMA ConsumerStepImplements ==
    ASSUME IInv, NEW c \in Consumers, ConsumerStep(c)
    PROVE  [Promise!PromiseNext]_(Promise!promiseVars)
<1>1. CASE RecoverApply(c)
  <2>1. CASE IsStale(stale[c])
    <3>1. job \in JobRow /\ stale[c] \in JobRow
      BY <2>1 DEF IInv, RowsOK, OthersOK, IsStale, NoRow
    <3>2. Settling(HowStale(stale[c].attempt))
      BY <3>1, HowStaleSettles DEF JobRow
    <3>3. QED
      BY <1>1, <2>1, <3>1, <3>2, TransitionImplements DEF RecoverApply
  <2>2. CASE ~IsStale(stale[c])
    BY <1>1, <2>2, NoRowIsWritten DEF RecoverApply
  <2>3. QED
    BY <2>1, <2>2
<1>2. CASE RecoverScan(c) \/ Shutdown(c) \/ Drained(c) \/ Crash(c)
  <2>1. UNCHANGED dbVars
    BY <1>2 DEF RecoverScan, Shutdown, Drained, Crash
  <2>2. QED
    BY <2>1, NoRowIsWritten
<1>3. QED
  BY <1>1, <1>2 DEF ConsumerStep

\* Pause and resume are the two of the abstract job; a change of runtime is invisible.
LEMMA OperatorStepImplements ==
    ASSUME IInv, OperatorStep
    PROVE  [Promise!PromiseNext]_(Promise!promiseVars)
<1>1. job \in JobRow
  BY DEF IInv, RowsOK
<1>2. CASE Pause
  <2>1. Promise!Paused
    BY <1>1, <1>2 DEF Pause, JobRow, Promise!Paused
  <2>2. QED
    BY <2>1 DEF Promise!PromiseNext
<1>3. CASE ResumeWrite
  <2>1. CASE job.status = "PAUSED"
    <3>1. Promise!Resumed
      BY <1>1, <1>3, <2>1 DEF ResumeWrite, JobRow, Promise!Resumed
    <3>2. QED
      BY <3>1 DEF Promise!PromiseNext
  <2>2. CASE job.status # "PAUSED"
    BY <1>3, <2>2, InvisibleStep DEF ResumeWrite
  <2>3. QED
    BY <2>1, <2>2
<1>4. CASE SetRuntime
  <2>1. job'.status = job.status /\ caps' = caps /\ msg' = msg
    BY <1>1, <1>4 DEF SetRuntime, JobRow
  <2>2. QED
    BY <2>1, InvisibleStep
<1>5. CASE PauseSignal \/ ResumeRead
  <2>1. UNCHANGED dbVars
    BY <1>5 DEF PauseSignal, ResumeRead
  <2>2. QED
    BY <2>1, NoRowIsWritten
<1>6. QED
  BY <1>2, <1>3, <1>4, <1>5 DEF OperatorStep

\* Every step of the system is one of the abstract job or invisible to it.
LEMMA NextImplements ==
    IInv /\ [Next]_vars => [Promise!PromiseNext]_(Promise!promiseVars)
<1> SUFFICES ASSUME IInv, [Next]_vars
             PROVE  [Promise!PromiseNext]_(Promise!promiseVars)
  OBVIOUS
<1>1. CASE UNCHANGED vars
  BY <1>1, NoRowIsWritten DEF vars
<1>2. CASE RunnerStep
  <2>1. UNCHANGED dbVars
    BY <1>2 DEF RunnerStep, RunKilled, RunnerRestart, RunnerSilent, RunnerAnswers
  <2>2. QED
    BY <2>1, NoRowIsWritten
<1>3. CASE Age
  <2>1. job'.status = job.status /\ caps' = caps /\ msg' = msg
    BY <1>3 DEF Age, IInv, RowsOK, JobRow
  <2>2. QED
    BY <2>1, InvisibleStep
<1>4. QED
  BY <1>1, <1>2, <1>3, WorkerStepImplements, ConsumerStepImplements, OperatorStepImplements
     DEF Next

\* The consumers, the runner, recovery and the operator together keep the promise of the
\* abstract job: its statuses in its order, its turn over with it, and nothing it was allowed
\* to do left at rest (_transition, _issue_run_capabilities, pause_job, resume_job).
THEOREM Refinement == Spec => KeepsThePromise
BY InitImplements, NextImplements, Invariance, PTL DEF Spec, KeepsThePromise, Promise!PromiseSpec

-----------------------------------------------------------------------------
(* A job that no operator touches, with one consumer: who holds it *)

\* What the run `unattended` assumes too: one consumer process at a time, as the entrypoint of
\* the cron container starts it, and nobody pauses the job.
LeftAlone ==
    /\ Budget["pause"] = 0
    /\ \A b, c \in Consumers : b = c

Quiet == op.pc = "idle" /\ job.status # "PAUSED" /\ budget["pause"] = 0

Working(w) == wk[w].pc # "idle"

\* A thread at work has the job's last claim, and no other thread is at work.
OneHolder ==
    \A w \in Workers :
        /\ ~Working(w) => wk[w].claim = None
        /\ Working(w) =>
             /\ job.status = "RUNNING"
             /\ wk[w].claim = claims /\ wk[w].attempt = job.attempt
             /\ cons[ConsumerOf[w]] \in {"up", "draining"}
             /\ wk[w].pc = "claimed" => wk[w].exec = None
             /\ \A v \in Workers : Working(v) => v = w

ClaimedOnce == job.status = "RUNNING" => claims > 0

\* The row that recovery read is as it was.
ReadIsFresh ==
    \A c \in Consumers : stale[c].status = "RUNNING" =>
        cons[c] = "recovering" /\ job.status = "RUNNING" /\ job.attempt = stale[c].attempt

Heard == \A k \in ClaimIds : run[k] \in {"fresh", "resumed"} => Listening(k)

\* At most one execution is open, and the thread at work, if any, has it.
OneOpen ==
    \A e \in 1..Len(execs) : execs[e].status = "running" =>
        /\ job.status = "RUNNING" /\ execs[e].attempt = job.attempt
        /\ \A w \in Workers : Working(w) => wk[w].exec = e
        /\ \A f \in 1..Len(execs) : execs[f].status = "running" => f = e

\* The inductive invariant of a job left alone.
HoldInv ==
    /\ IInv /\ Quiet /\ OneHolder /\ ClaimedOnce /\ ReadIsFresh /\ Heard /\ OneOpen
    /\ TurnEndsWithTheJob

\* A thread at work goes on with its claim, its attempt and its execution, and nothing else changes
\* that matters to who holds the job; a run that is heard stays heard or is over.
LEMMA ThreadGoesOn ==
    ASSUME HoldInv, IInv', NEW w \in Workers, Working(w), NEW t,
           t.pc \notin {"idle", "claimed"}, t.claim = wk[w].claim, t.attempt = wk[w].attempt,
           t.exec = wk[w].exec, wk' = [wk EXCEPT ![w] = t],
           job'.status = job.status, job'.attempt = job.attempt, UNCHANGED <<execs, msg, claims, op>>,
           budget'["pause"] = 0, UNCHANGED consVars,
           \A k \in ClaimIds : run'[k] \in {"fresh", "resumed"} =>
              k = claims /\ t.pc \in {"starting", "running"}
    PROVE  HoldInv'
<1>1. wk'[w] = t /\ \A v \in Workers : v # w => wk'[v] = wk[v]
  BY DEF HoldInv, IInv, ThreadsOK
<1>2. \A v \in Workers : Working(v)' <=> Working(v)
  BY <1>1 DEF Working
<1>3. OneHolder'
  BY <1>1, <1>2 DEF HoldInv, OneHolder, Working, consVars
<1>4. OneOpen'
  BY <1>1, <1>2 DEF HoldInv, OneOpen
<1>5. Heard'
  BY <1>1 DEF HoldInv, Heard, Listening, OneHolder
<1>6. Quiet' /\ ClaimedOnce' /\ ReadIsFresh' /\ TurnEndsWithTheJob'
  BY DEF HoldInv, Quiet, ClaimedOnce, ReadIsFresh, TurnEndsWithTheJob, consVars
<1>7. QED
  BY <1>3, <1>4, <1>5, <1>6 DEF HoldInv

\* Nothing that matters to who holds the job changes.
LEMMA NothingMoves ==
    ASSUME HoldInv, IInv', wk' = wk, job'.status = job.status, job'.attempt = job.attempt,
           UNCHANGED <<execs, msg, claims, op>>, budget'["pause"] = 0,
           UNCHANGED consVars, run' = run
    PROVE  HoldInv'
BY DEF HoldInv, Quiet, OneHolder, Working, ClaimedOnce, ReadIsFresh, Heard, Listening, OneOpen,
       TurnEndsWithTheJob, consVars

\* A bound that is used up stays so, whatever another one is spent on.
LEMMA SpendLeavesPause ==
    ASSUME HoldInv, NEW kind \in Kinds, Spend(kind)
    PROVE  budget'["pause"] = 0
BY DEF HoldInv, IInv, OthersOK, Quiet, Spend, Kinds

\* A thread is at work with the last claim, and the run of that claim is the only one heard.
LEMMA HolderIsAlone ==
    ASSUME HoldInv, NEW w \in Workers, Working(w)
    PROVE  /\ job.status = "RUNNING" /\ wk[w].claim = claims /\ claims \in ClaimIds
           /\ wk[w].attempt = job.attempt
           /\ \A v \in Workers : v # w => ~Working(v)
           /\ \A k \in ClaimIds : run[k] \in {"fresh", "resumed"} =>
                 k = claims /\ wk[w].pc \in {"starting", "running"}
<1>1. /\ job.status = "RUNNING" /\ wk[w].claim = claims /\ wk[w].attempt = job.attempt
      /\ \A v \in Workers : Working(v) => v = w
  BY DEF HoldInv, OneHolder
<1>2. claims \in ClaimIds
  BY <1>1, BoundsAssumption DEF HoldInv, ClaimedOnce, IInv, OthersOK, ClaimIds
<1>3. ASSUME NEW k \in ClaimIds, run[k] \in {"fresh", "resumed"}
      PROVE  k = claims /\ wk[w].pc \in {"starting", "running"}
  BY <1>1, <1>3 DEF HoldInv, Heard, Listening, Working
<1>4. QED
  BY <1>1, <1>2, <1>3

\* A claim finds the row TODO, so nobody is at work, nothing is open and nothing is heard.
LEMMA ClaimKeepsHold == ASSUME HoldInv, IInv', NEW w \in Workers, Claim(w) PROVE HoldInv'
<1>1. /\ job.status = "TODO" /\ job'.status = "RUNNING" /\ job'.attempt = job.attempt + 1
      /\ claims' = claims + 1 /\ UNCHANGED <<execs, msg, run, cons, stale, op, budget>>
      /\ cons[ConsumerOf[w]] = "up"
  BY DEF Claim, HoldInv, IInv, RowsOK, JobRow, runVars, consVars
<1>2. \A v \in Workers : ~Working(v)
  BY <1>1 DEF HoldInv, OneHolder
<1>3. /\ wk'[w].pc = "claimed" /\ wk'[w].claim = claims + 1 /\ wk'[w].attempt = job.attempt + 1
      /\ wk'[w].exec = None
      /\ \A v \in Workers : v # w => wk'[v] = wk[v]
  BY DEF Claim, Idle, HoldInv, IInv, ThreadsOK
<1>4. OneHolder'
  BY <1>1, <1>2, <1>3 DEF HoldInv, OneHolder, Working
<1>5. \A e \in 1..Len(execs) : execs[e].status # "running"
  BY <1>1 DEF HoldInv, OneOpen
<1>6. \A k \in ClaimIds : run[k] \notin {"fresh", "resumed"}
  BY <1>2 DEF HoldInv, Heard, Listening, Working
<1>7. \A c \in Consumers : stale[c].status # "RUNNING"
  BY <1>1 DEF HoldInv, ReadIsFresh
<1>8. claims + 1 > 0
  BY DEF HoldInv, IInv, OthersOK
<1>9. Quiet' /\ ClaimedOnce' /\ ReadIsFresh' /\ TurnEndsWithTheJob' /\ Heard' /\ OneOpen'
  BY <1>1, <1>5, <1>6, <1>7, <1>8 DEF HoldInv, Quiet, ClaimedOnce, ReadIsFresh,
     TurnEndsWithTheJob, Heard, OneOpen, Terminal
<1>10. QED
  BY <1>4, <1>9 DEF HoldInv

\* What the end of _run_job leaves of a thread.
LEMMA OverKeepsClaim ==
    ASSUME NEW n, NEW t \in Thread(n), NEW err
    PROVE  /\ Over(t, err).pc = "ended" /\ Over(t, err).claim = t.claim
           /\ Over(t, err).attempt = t.attempt /\ Over(t, err).exec = t.exec
           /\ [Over(t, err) EXCEPT !.ran = TRUE].pc = "ended"
           /\ [Over(t, err) EXCEPT !.ran = TRUE].claim = t.claim
           /\ [Over(t, err) EXCEPT !.ran = TRUE].attempt = t.attempt
           /\ [Over(t, err) EXCEPT !.ran = TRUE].exec = t.exec
BY DEF Over, Thread

\* A step of a thread that writes no row and leaves the runs alone.
LEMMA ThreadGoesOnAlone ==
    ASSUME HoldInv, IInv', NEW w \in Workers, Working(w), NEW t,
           t.pc \notin {"idle", "claimed"}, t.claim = wk[w].claim, t.attempt = wk[w].attempt,
           t.exec = wk[w].exec, wk' = [wk EXCEPT ![w] = t],
           wk[w].pc \in {"starting", "running"} => t.pc \in {"starting", "running"},
           job'.status = job.status, job'.attempt = job.attempt, UNCHANGED <<execs, msg>>,
           UNCHANGED <<runVars, consVars, op, claims>>, budget'["pause"] = 0
    PROVE  HoldInv'
<1>1. \A k \in ClaimIds : run'[k] \in {"fresh", "resumed"} => k = claims /\ t.pc \in {"starting", "running"}
  BY HolderIsAlone DEF runVars
<1>2. UNCHANGED <<execs, msg, claims, op>>
  OBVIOUS
<1>3. QED
  BY <1>1, <1>2, ThreadGoesOn

LEMMA PrepareFailsKeepsHold == ASSUME HoldInv, IInv', NEW w \in Workers, PrepareFails(w) PROVE HoldInv'
<1>1. PICK err \in RunErrors : wk' = [wk EXCEPT ![w] = Over(wk[w], err)]
  BY DEF PrepareFails, Ended
<1>2. /\ wk[w].pc \in {"claimed", "minted"} /\ UNCHANGED <<dbVars, runVars, consVars, op, claims, budget>>
  BY DEF PrepareFails
<1> DEFINE t == Over(wk[w], err)
<1>3. /\ t.pc = "ended" /\ t.claim = wk[w].claim /\ t.attempt = wk[w].attempt /\ t.exec = wk[w].exec
  BY OverKeepsClaim DEF HoldInv, IInv, ThreadsOK
<1>4. wk' = [wk EXCEPT ![w] = t]
  BY <1>1
<1>5. UNCHANGED <<execs, msg>> /\ job' = job /\ budget'["pause"] = 0
  BY <1>2 DEF dbVars, HoldInv, Quiet
<1> HIDE DEF t
<1> QED
  BY <1>2, <1>3, <1>4, <1>5, ThreadGoesOnAlone DEF Working

\* The holder finds its row RUNNING and opens the only open execution.
LEMMA MintKeepsHold == ASSUME HoldInv, IInv', NEW w \in Workers, Mint(w) PROVE HoldInv'
<1> DEFINE n == Len(execs) + 1
           x == [attempt |-> wk[w].attempt, status |-> "running"]
           t == [wk[w] EXCEPT !.pc = "minted", !.exec = n]
<1>1. wk[w].pc = "claimed" /\ Working(w) /\ wk[w].exec = None
  BY DEF Mint, Working, HoldInv, OneHolder
<1>2. /\ job.status = "RUNNING" /\ wk[w].claim = claims /\ wk[w].attempt = job.attempt
      /\ \A v \in Workers : v # w => ~Working(v)
      /\ \A k \in ClaimIds : run[k] \notin {"fresh", "resumed"}
  BY <1>1, HolderIsAlone
<1>3. /\ execs' = Append(execs, x) /\ wk' = [wk EXCEPT ![w] = t]
      /\ UNCHANGED <<job, msg, run, cons, stale, op, claims, budget>>
  BY <1>2 DEF Mint, runVars, consVars
<1>4. t.pc = "minted" /\ t.claim = claims /\ t.attempt = job.attempt /\ t.exec = n
  BY <1>2 DEF HoldInv, IInv, ThreadsOK, Thread
<1>5. x.status = "running" /\ x.attempt = job.attempt
  BY <1>2
<1> HIDE DEF t, x
<1>6. wk'[w] = t /\ \A v \in Workers : v # w => wk'[v] = wk[v]
  BY <1>3 DEF HoldInv, IInv, ThreadsOK
<1>7. OneHolder'
  BY <1>1, <1>2, <1>3, <1>4, <1>6 DEF HoldInv, OneHolder, Working
<1>8. \A e \in 1..Len(execs) : execs[e].status # "running"
  <2> SUFFICES ASSUME NEW e \in 1..Len(execs), execs[e].status = "running" PROVE FALSE
    OBVIOUS
  <2>1. wk[w].exec = e
    BY <1>1 DEF HoldInv, OneOpen
  <2> QED
    BY <2>1, <1>1 DEF None
<1>9. execs \in Seq(Execution) /\ Len(execs) \in Nat
  BY DEF HoldInv, IInv, RowsOK
<1>10. /\ Len(execs') = n /\ execs'[n] = x
       /\ \A e \in 1..Len(execs) : execs'[e] = execs[e]
  BY <1>3, <1>9
<1>11. \A e \in 1..Len(execs') : execs'[e].status = "running" => e = n
  BY <1>8, <1>9, <1>10
<1>12. OneOpen'
  <2>1. \A v \in Workers : Working(v)' => v = w
    BY <1>2, <1>6 DEF Working
  <2> QED
    BY <1>2, <1>3, <1>4, <1>5, <1>6, <1>10, <1>11, <2>1 DEF OneOpen
<1>13. Quiet' /\ ClaimedOnce' /\ ReadIsFresh' /\ TurnEndsWithTheJob' /\ Heard'
  BY <1>2, <1>3 DEF HoldInv, Quiet, ClaimedOnce, ReadIsFresh, TurnEndsWithTheJob, Heard
<1> QED
  BY <1>7, <1>12, <1>13 DEF HoldInv

LEMMA StartRunKeepsHold == ASSUME HoldInv, IInv', NEW w \in Workers, StartRun(w) PROVE HoldInv'
<1> DEFINE t == [wk[w] EXCEPT !.pc = "starting"]
<1>1. Working(w) /\ wk' = [wk EXCEPT ![w] = t] /\ UNCHANGED <<dbVars, consVars, op, claims, budget>>
      /\ \A k \in ClaimIds : k # wk[w].claim => run'[k] = run[k]
  BY DEF StartRun, Working, HoldInv, IInv, RunnerOK
<1>2. t.pc = "starting" /\ t.claim = wk[w].claim /\ t.attempt = wk[w].attempt /\ t.exec = wk[w].exec
  BY DEF HoldInv, IInv, ThreadsOK, Thread
<1> HIDE DEF t
<1>3. UNCHANGED <<execs, msg, claims, op>> /\ job' = job /\ budget'["pause"] = 0
  BY <1>1 DEF dbVars, HoldInv, Quiet
<1>4. \A k \in ClaimIds : run'[k] \in {"fresh", "resumed"} => k = claims /\ t.pc \in {"starting", "running"}
  BY <1>1, <1>2, HolderIsAlone
<1> QED
  BY <1>1, <1>2, <1>3, <1>4, ThreadGoesOn

LEMMA PidFrameKeepsHold == ASSUME HoldInv, IInv', NEW w \in Workers, PidFrame(w) PROVE HoldInv'
<1> DEFINE t == [wk[w] EXCEPT !.pc = "running", !.ref = boot]
<1>1. /\ Working(w) /\ wk' = [wk EXCEPT ![w] = t]
      /\ UNCHANGED <<execs, msg>> /\ UNCHANGED <<runVars, consVars, op, claims>>
  BY DEF PidFrame, Working
<1>2. t.pc = "running" /\ t.claim = wk[w].claim /\ t.attempt = wk[w].attempt /\ t.exec = wk[w].exec
  BY DEF HoldInv, IInv, ThreadsOK, Thread
<1>3. job'.status = job.status /\ job'.attempt = job.attempt
  BY DEF PidFrame, HoldInv, IInv, RowsOK, JobRow
<1>4. budget'["pause"] = 0
  BY SpendLeavesPause DEF PidFrame, Kinds, HoldInv, Quiet
<1> HIDE DEF t
<1> QED
  BY <1>1, <1>2, <1>3, <1>4, ThreadGoesOnAlone

LEMMA SessionFrameKeepsHold == ASSUME HoldInv, IInv', NEW w \in Workers, SessionFrame(w) PROVE HoldInv'
<1> DEFINE t == [wk[w] EXCEPT !.sess = TRUE, !.seen = TRUE]
<1>1. /\ Working(w) /\ wk' = [wk EXCEPT ![w] = t]
      /\ UNCHANGED <<execs, msg>> /\ UNCHANGED <<runVars, consVars, op, claims>>
  BY DEF SessionFrame, Working
<1>2. t.pc = "running" /\ t.claim = wk[w].claim /\ t.attempt = wk[w].attempt /\ t.exec = wk[w].exec
  BY DEF HoldInv, IInv, ThreadsOK, Thread, SessionFrame
<1>3. job'.status = job.status /\ job'.attempt = job.attempt
  BY DEF SessionFrame, HoldInv, IInv, RowsOK, JobRow
<1>4. budget'["pause"] = 0
  BY SpendLeavesPause DEF SessionFrame, Kinds, HoldInv, Quiet
<1> HIDE DEF t
<1> QED
  BY <1>1, <1>2, <1>3, <1>4, ThreadGoesOnAlone

LEMMA RunEndsKeepsHold == ASSUME HoldInv, IInv', NEW w \in Workers, RunEnds(w) PROVE HoldInv'
<1>1. Working(w) /\ UNCHANGED <<dbVars, consVars, op, claims, budget>>
      /\ run' = [run EXCEPT ![wk[w].claim] = "none"]
  BY DEF RunEnds, Working
<1>2. PICK t : /\ wk' = [wk EXCEPT ![w] = t] /\ t.pc \in {"ended", "crashed"} /\ t.claim = wk[w].claim
               /\ t.attempt = wk[w].attempt /\ t.exec = wk[w].exec
  <2>1. PICK err \in RunErrors :
           IF err = "crash" THEN wk' = [wk EXCEPT ![w].pc = "crashed"]
           ELSE wk' = [wk EXCEPT ![w] = [Over(wk[w], err) EXCEPT !.ran = TRUE]]
    BY DEF RunEnds
  <2>2. wk[w] \in Thread(Len(execs))
    BY DEF HoldInv, IInv, ThreadsOK
  <2>3. CASE err = "crash"
    <3> DEFINE u == [wk[w] EXCEPT !.pc = "crashed"]
    <3>1. u.pc = "crashed" /\ u.claim = wk[w].claim /\ u.attempt = wk[w].attempt /\ u.exec = wk[w].exec
      BY <2>2 DEF Thread
    <3>2. wk' = [wk EXCEPT ![w] = u]
      BY <2>1, <2>3
    <3> HIDE DEF u
    <3> QED
      BY <3>1, <3>2
  <2>4. CASE err # "crash"
    <3> DEFINE u == [Over(wk[w], err) EXCEPT !.ran = TRUE]
    <3>1. u.pc = "ended" /\ u.claim = wk[w].claim /\ u.attempt = wk[w].attempt /\ u.exec = wk[w].exec
      BY <2>2, OverKeepsClaim
    <3>2. wk' = [wk EXCEPT ![w] = u]
      BY <2>1, <2>4
    <3> HIDE DEF u
    <3> QED
      BY <3>1, <3>2
  <2> QED
    BY <2>3, <2>4
<1>3. UNCHANGED <<execs, msg, claims, op>> /\ job' = job /\ budget'["pause"] = 0
  BY <1>1 DEF dbVars, HoldInv, Quiet
<1>4. \A k \in ClaimIds : run'[k] \notin {"fresh", "resumed"}
  BY <1>1, HolderIsAlone DEF HoldInv, IInv, RunnerOK
<1> QED
  BY <1>1, <1>2, <1>3, <1>4, ThreadGoesOn

LEMMA CrashRetryKeepsHold == ASSUME HoldInv, IInv', NEW w \in Workers, CrashRetry(w) PROVE HoldInv'
<1>1. /\ Working(w) /\ wk[w].pc = "crashed" /\ UNCHANGED <<dbVars, runVars, consVars, op, claims, budget>>
  BY DEF CrashRetry, Working
<1>2. wk[w] \in Thread(Len(execs))
  BY DEF HoldInv, IInv, ThreadsOK
<1>3. PICK t : /\ wk' = [wk EXCEPT ![w] = t] /\ t.pc \in {"ended", "minted"} /\ t.claim = wk[w].claim
               /\ t.attempt = wk[w].attempt /\ t.exec = wk[w].exec
  <2>1. CASE wk' = [wk EXCEPT ![w].pc = "minted", ![w].again = TRUE, ![w].seen = FALSE]
    <3> DEFINE u == [wk[w] EXCEPT !.pc = "minted", !.again = TRUE, !.seen = FALSE]
    <3>1. u.pc = "minted" /\ u.claim = wk[w].claim /\ u.attempt = wk[w].attempt /\ u.exec = wk[w].exec
      BY <1>2 DEF Thread
    <3>2. wk' = [wk EXCEPT ![w] = u]
      BY <2>1
    <3> HIDE DEF u
    <3> QED
      BY <3>1, <3>2
  <2>2. CASE Ended(w, "retryable")
    <3> DEFINE u == Over(wk[w], "retryable")
    <3>1. u.pc = "ended" /\ u.claim = wk[w].claim /\ u.attempt = wk[w].attempt /\ u.exec = wk[w].exec
      BY <1>2, OverKeepsClaim
    <3>2. wk' = [wk EXCEPT ![w] = u]
      BY <2>2 DEF Ended
    <3> HIDE DEF u
    <3> QED
      BY <3>1, <3>2
  <2> QED
    BY <2>1, <2>2 DEF CrashRetry
<1>4. UNCHANGED <<execs, msg>> /\ job' = job /\ budget'["pause"] = 0
  BY <1>1 DEF dbVars, HoldInv, Quiet
<1> QED
  BY <1>1, <1>3, <1>4, ThreadGoesOnAlone

\* A way to end an attempt that closes its execution, and ends the turn exactly when it ends the job.
Matched(how) ==
    /\ how.status \in {"TODO"} \cup Terminal
    /\ how.terminal <=> how.status \in Terminal
    /\ how.outcome # "running"

LEMMA HowIsMatched == ASSUME NEW err, NEW attempt PROVE Matched(How(err, attempt))
BY DEF Matched, How, Terminal

LEMMA HowStaleIsMatched == ASSUME NEW attempt PROVE Matched(HowStale(attempt))
BY DEF Matched, HowStale, Terminal

\* The execution that a transition settles on is the open one, if there is one.
LEMMA ResolveFindsIt ==
    ASSUME HoldInv, NEW e \in 1..Len(execs), execs[e].status = "running", NEW exec, exec \in {None, e}
    PROVE  Resolve(exec, job.attempt) = e
<1> DEFINE open == {i \in 1..Len(execs) : execs[i].attempt = job.attempt /\ execs[i].status = "running"}
<1>1. open = {e}
  BY DEF HoldInv, OneOpen
<1>2. e # None /\ e \in Int
  BY DEF None, HoldInv, IInv, RowsOK
<1>3. CASE exec = e
  BY <1>2, <1>3 DEF Resolve
<1>4. CASE exec = None
  <2> DEFINE last(i) == i \in open /\ \A j \in open : j <= i
  <2>1. Resolve(exec, job.attempt) = CHOOSE i \in open : \A j \in open : j <= i
    BY <1>1, <1>4 DEF Resolve
  <2>2. \E i \in open : \A j \in open : j <= i
    BY <1>1, <1>2
  <2> HIDE DEF open
  <2>3. (CHOOSE i \in open : \A j \in open : j <= i) \in open
    BY <2>2
  <2> QED
    BY <1>1, <2>1, <2>3
<1> QED
  BY <1>3, <1>4

\* A transition of the RUNNING row by whoever holds it closes the open execution and leaves the
\* job settled: not RUNNING, with the turn ended exactly when the job is.
LEMMA TransitionSettles ==
    ASSUME HoldInv, job.status = "RUNNING", NEW how, Sound(how), Matched(how), NEW exec, NEW seen, NEW fresh,
           \A e \in 1..Len(execs) : execs[e].status = "running" => exec \in {None, e},
           Transition(how, exec, job.attempt, seen, fresh)
    PROVE  /\ job'.status = how.status /\ job'.status \in {"TODO"} \cup Terminal
           /\ \A e \in 1..Len(execs') : execs'[e].status # "running"
           /\ TurnEndsWithTheJob'
<1>1. job'.status = how.status
  BY DEF Transition, HoldInv, IInv, RowsOK, JobRow
<1>2. msg # "terminal"
  BY DEF HoldInv, TurnEndsWithTheJob, Terminal
<1>3. msg' = IF how.terminal THEN "terminal" ELSE msg
  BY DEF Transition, EndExecution
<1>4. TurnEndsWithTheJob'
  BY <1>1, <1>2, <1>3 DEF TurnEndsWithTheJob, Matched
<1> DEFINE r == Resolve(exec, job.attempt)
<1>5. execs' = IF r # None /\ execs[r].status = "running"
               THEN [execs EXCEPT ![r].status = how.outcome] ELSE execs
  BY DEF Transition, EndExecution
<1>6. how.outcome # "running"
  BY DEF Matched
<1>7. \A e \in 1..Len(execs') : execs'[e].status # "running"
  <2> SUFFICES ASSUME NEW e \in 1..Len(execs'), execs'[e].status = "running" PROVE FALSE
    OBVIOUS
  <2>1. execs \in Seq(Execution) /\ Len(execs') = Len(execs) /\ e \in 1..Len(execs)
    BY <1>5 DEF HoldInv, IInv, RowsOK
  <2>2. CASE execs[e].status = "running"
    <3>1. r = e /\ e # None
      BY <2>1, <2>2, ResolveFindsIt DEF None
    <3>2. execs' = [execs EXCEPT ![e].status = how.outcome]
      BY <1>5, <2>2, <3>1
    <3> HIDE DEF r
    <3>3. execs[e] \in Execution
      BY <2>1
    <3>4. execs'[e].status = how.outcome
      BY <2>1, <3>2, <3>3 DEF Execution
    <3> QED
      BY <1>6, <3>4
  <2>3. CASE execs[e].status # "running"
    <3> HIDE DEF r
    <3>1. execs'[e] = execs[e]
      BY <1>5, <2>1, <2>3
    <3> QED
      BY <2>3, <3>1
  <2> QED
    BY <2>2, <2>3
<1> QED
  BY <1>1, <1>4, <1>7 DEF Matched

\* A step after which nobody is at work and no execution is open.
LEMMA Settled ==
    ASSUME HoldInv, IInv', \A v \in Workers : wk'[v].pc = "idle" /\ wk'[v].claim = None,
           job'.status \in {"TODO"} \cup Terminal,
           \A e \in 1..Len(execs') : execs'[e].status # "running", TurnEndsWithTheJob',
           \A k \in ClaimIds : run'[k] \notin {"fresh", "resumed"},
           \A c \in Consumers : stale'[c].status # "RUNNING",
           op'.pc = "idle", budget'["pause"] = 0
    PROVE  HoldInv'
BY DEF HoldInv, Quiet, OneHolder, Working, ClaimedOnce, ReadIsFresh, Heard, OneOpen, Terminal

LEMMA FinalizeReadKeepsHold == ASSUME HoldInv, IInv', NEW w \in Workers, FinalizeRead(w) PROVE HoldInv'
<1>1. /\ Working(w) /\ wk[w].pc = "ended"
      /\ UNCHANGED <<job, caps, outbox, runVars, consVars, op, claims, budget>>
  BY DEF FinalizeRead, Working
<1>2. job.status = "RUNNING"
  BY <1>1, HolderIsAlone
<1>3. PICK err : /\ wk' = [wk EXCEPT ![w].pc = "writing", ![w].err = err, ![w].verified = TRUE]
                 /\ UNCHANGED <<execs, msg>>
  BY <1>2 DEF FinalizeRead
<1> DEFINE t == [wk[w] EXCEPT !.pc = "writing", !.err = err, !.verified = TRUE]
<1>4. t.pc = "writing" /\ t.claim = wk[w].claim /\ t.attempt = wk[w].attempt /\ t.exec = wk[w].exec
  BY DEF HoldInv, IInv, ThreadsOK, Thread
<1>5. wk' = [wk EXCEPT ![w] = t]
  BY <1>3
<1>6. budget'["pause"] = 0 /\ job' = job
  BY <1>1 DEF HoldInv, Quiet
<1> HIDE DEF t
<1> QED
  BY <1>1, <1>3, <1>4, <1>5, <1>6, ThreadGoesOnAlone

\* The holder's UPDATE hits the RUNNING row.
LEMMA WriteSettles ==
    ASSUME HoldInv, NEW w \in Workers, FinalizeWrite(w)
    PROVE  /\ job'.status \in {"TODO"} \cup Terminal
           /\ \A e \in 1..Len(execs') : execs'[e].status # "running"
           /\ TurnEndsWithTheJob'
<1>1. Working(w) /\ wk[w].pc = "writing"
  BY DEF FinalizeWrite, Working
<1>2. job.status = "RUNNING" /\ wk[w].attempt = job.attempt
  BY <1>1, HolderIsAlone
<1>3. \A e \in 1..Len(execs) : execs[e].status = "running" => wk[w].exec \in {None, e}
  BY <1>1 DEF HoldInv, OneOpen
<1> DEFINE how == How(wk[w].err, wk[w].attempt)
           seen == wk[w].seen /\ wk[w].err # "none"
           fresh == wk[w].err = "fresh"
<1>4. Sound(how) /\ Matched(how)
  BY HowIsSound, HowIsMatched
<1>5. Transition(how, wk[w].exec, job.attempt, seen, fresh)
  BY <1>2 DEF FinalizeWrite
<1> HIDE DEF how, seen, fresh
<1> QED
  BY <1>2, <1>3, <1>4, <1>5, TransitionSettles

LEMMA FinalizeWriteKeepsHold ==
    ASSUME LeftAlone, HoldInv, IInv', NEW w \in Workers, FinalizeWrite(w) PROVE HoldInv'
<1>1. /\ Working(w) /\ wk[w].pc = "writing" /\ wk' = [wk EXCEPT ![w] = Idle]
      /\ UNCHANGED <<run, stale, op, budget>>
  BY DEF FinalizeWrite, Working, runVars, consVars
<1>2. /\ job.status = "RUNNING" /\ cons[ConsumerOf[w]] \in {"up", "draining"}
      /\ \A v \in Workers : v # w => ~Working(v)
      /\ \A k \in ClaimIds : run[k] \notin {"fresh", "resumed"}
  BY <1>1, HolderIsAlone DEF HoldInv, OneHolder
<1>3. \A v \in Workers : wk'[v].pc = "idle" /\ wk'[v].claim = None
  BY <1>1, <1>2 DEF HoldInv, IInv, ThreadsOK, OneHolder, Idle, Working
<1>4. \A c \in Consumers : stale'[c].status # "RUNNING"
  BY <1>1, <1>2, WorkersAssumption DEF LeftAlone, HoldInv, ReadIsFresh
<1> QED
  BY <1>1, <1>2, <1>3, <1>4, WriteSettles, Settled DEF HoldInv, Quiet

\* The third failure: the thread gives up, and whatever is open stays with the RUNNING row.
LEMMA GivesUp ==
    ASSUME HoldInv, IInv', NEW w \in Workers, Working(w), wk[w].pc \notin {"starting", "running"},
           wk' = [wk EXCEPT ![w] = Idle], UNCHANGED <<job, execs, msg, run, cons, stale, op, claims>>,
           budget'["pause"] = 0
    PROVE  HoldInv'
<1>1. /\ \A v \in Workers : v # w => ~Working(v)
      /\ \A k \in ClaimIds : run[k] \notin {"fresh", "resumed"}
  BY HolderIsAlone
<1>2. \A v \in Workers : wk'[v].pc = "idle" /\ wk'[v].claim = None
  BY <1>1 DEF HoldInv, IInv, ThreadsOK, OneHolder, Idle, Working
<1>3. OneHolder' /\ OneOpen'
  BY <1>2 DEF HoldInv, OneHolder, OneOpen, Working
<1> QED
  BY <1>1, <1>3 DEF HoldInv, Quiet, ClaimedOnce, ReadIsFresh, Heard, TurnEndsWithTheJob

LEMMA FinalizeFaultKeepsHold == ASSUME HoldInv, IInv', NEW w \in Workers, FinalizeFault(w) PROVE HoldInv'
<1>1. /\ Working(w) /\ wk[w].pc \in {"ended", "writing"}
      /\ UNCHANGED <<dbVars, runVars, consVars, op, claims>>
  BY DEF FinalizeFault, Working
<1>2. budget'["pause"] = 0
  BY SpendLeavesPause DEF FinalizeFault, Kinds
<1>3. UNCHANGED <<job, execs, msg, run, cons, stale, op, claims>>
  BY <1>1 DEF dbVars, runVars, consVars
<1>4. CASE wk' = [wk EXCEPT ![w] = Idle]
  BY <1>1, <1>2, <1>3, <1>4, GivesUp
<1>5. CASE wk' = [wk EXCEPT ![w].pc = "ended", ![w].tries = wk[w].tries + 1]
  <2> DEFINE t == [wk[w] EXCEPT !.pc = "ended", !.tries = wk[w].tries + 1]
  <2>1. t.pc = "ended" /\ t.claim = wk[w].claim /\ t.attempt = wk[w].attempt /\ t.exec = wk[w].exec
    BY DEF HoldInv, IInv, ThreadsOK, Thread
  <2>2. wk' = [wk EXCEPT ![w] = t]
    BY <1>5
  <2> HIDE DEF t
  <2> QED
    BY <1>1, <1>2, <1>3, <2>1, <2>2, ThreadGoesOnAlone
<1> QED
  BY <1>4, <1>5 DEF FinalizeFault

\* Every step of a thread keeps the invariant.
LEMMA WorkerKeepsHold ==
    ASSUME LeftAlone, HoldInv, IInv', NEW w \in Workers, WorkerStep(w) PROVE HoldInv'
BY ClaimKeepsHold, PrepareFailsKeepsHold, MintKeepsHold, StartRunKeepsHold, PidFrameKeepsHold,
   SessionFrameKeepsHold, RunEndsKeepsHold, CrashRetryKeepsHold, FinalizeReadKeepsHold,
   FinalizeWriteKeepsHold, FinalizeFaultKeepsHold DEF WorkerStep

\* While the consumer is down or recovers, none of its threads is at work.
LEMMA NobodyWorks ==
    ASSUME LeftAlone, HoldInv, NEW c \in Consumers, cons[c] \notin {"up", "draining"}
    PROVE  /\ \A w \in Workers : ~Working(w)
           /\ \A k \in ClaimIds : run[k] \notin {"fresh", "resumed"}
<1>1. \A w \in Workers : ConsumerOf[w] = c
  BY WorkersAssumption DEF LeftAlone
<1>2. \A w \in Workers : ~Working(w)
  BY <1>1 DEF HoldInv, OneHolder
<1> QED
  BY <1>2 DEF HoldInv, Heard, Listening, Working

\* Recovery reads the row while nobody else can write its status ...
LEMMA RecoverScanKeepsHold ==
    ASSUME LeftAlone, HoldInv, IInv', NEW c \in Consumers, RecoverScan(c) PROVE HoldInv'
<1>1. \A w \in Workers : ~Working(w)
  BY NobodyWorks DEF RecoverScan
<1>2. /\ UNCHANGED <<job, execs, msg, wk, run, op, claims, budget>>
      /\ cons'[c] = "recovering" /\ stale'[c] = IF job.status = "RUNNING" THEN job ELSE NoRow
      /\ \A b \in Consumers : b = c
  BY DEF RecoverScan, HoldInv, IInv, OthersOK, dbVars, runVars, LeftAlone
<1>3. ReadIsFresh'
  BY <1>2 DEF ReadIsFresh, NoRow
<1> QED
  BY <1>1, <1>2, <1>3 DEF HoldInv, Quiet, OneHolder, Working, ClaimedOnce, Heard, Listening, OneOpen,
     TurnEndsWithTheJob

\* ... so what it read still holds when it applies it, and no run is left to be cut short.
LEMMA RecoverApplyKeepsHold ==
    ASSUME LeftAlone, HoldInv, IInv', NEW c \in Consumers, RecoverApply(c) PROVE HoldInv'
<1>1. /\ \A w \in Workers : ~Working(w)
      /\ \A k \in ClaimIds : run[k] \notin {"fresh", "resumed"}
  BY NobodyWorks DEF RecoverApply
<1>2. /\ UNCHANGED <<wk, run, op, claims, budget>>
      /\ \A b \in Consumers : stale'[b] = NoRow
  BY DEF RecoverApply, HoldInv, IInv, OthersOK, LeftAlone, runVars
<1>3. \A v \in Workers : wk'[v].pc = "idle" /\ wk'[v].claim = None
  BY <1>1, <1>2 DEF HoldInv, OneHolder, Working
<1>4. CASE IsStale(stale[c])
  <2>1. job.status = "RUNNING" /\ job.attempt = stale[c].attempt
    BY <1>4 DEF IsStale, HoldInv, ReadIsFresh
  <2> DEFINE how == HowStale(stale[c].attempt)
  <2>2. Sound(how) /\ Matched(how)
    BY HowStaleIsSound, HowStaleIsMatched
  <2>3. Transition(how, None, job.attempt, FALSE, FALSE)
    BY <1>4, <2>1 DEF RecoverApply
  <2> HIDE DEF how
  <2>4. /\ job'.status \in {"TODO"} \cup Terminal
        /\ \A e \in 1..Len(execs') : execs'[e].status # "running"
        /\ TurnEndsWithTheJob'
    BY <2>1, <2>2, <2>3, TransitionSettles
  <2> QED
    BY <1>1, <1>2, <1>3, <2>4, Settled DEF HoldInv, Quiet, NoRow
<1>5. CASE ~IsStale(stale[c])
  <2>1. UNCHANGED <<job, execs, msg>>
    BY <1>5 DEF RecoverApply, dbVars
  <2> QED
    BY <1>1, <1>2, <1>3, <2>1 DEF HoldInv, Quiet, OneHolder, Working, ClaimedOnce, ReadIsFresh, NoRow, Heard,
       Listening, OneOpen, TurnEndsWithTheJob
<1> QED
  BY <1>4, <1>5

LEMMA ShutdownKeepsHold == ASSUME HoldInv, IInv', NEW c \in Consumers, Shutdown(c) PROVE HoldInv'
<1>1. /\ UNCHANGED <<job, execs, msg, wk, run, stale, op, claims>>
      /\ cons[c] = "up" /\ cons' = [cons EXCEPT ![c] = "draining"]
  BY DEF Shutdown, dbVars, runVars
<1>2. budget'["pause"] = 0
  BY SpendLeavesPause DEF Shutdown, Kinds
<1>3. \A b \in Consumers : cons'[b] = IF b = c THEN "draining" ELSE cons[b]
  BY <1>1 DEF HoldInv, IInv, OthersOK
<1>4. OneHolder'
  BY <1>1, <1>3, WorkersAssumption DEF HoldInv, OneHolder, Working
<1>5. ReadIsFresh'
  BY <1>1, <1>3 DEF HoldInv, ReadIsFresh
<1> QED
  BY <1>1, <1>2, <1>4, <1>5 DEF HoldInv, Quiet, Working, ClaimedOnce, Heard, Listening, OneOpen,
     TurnEndsWithTheJob

LEMMA DrainedKeepsHold == ASSUME LeftAlone, HoldInv, IInv', NEW c \in Consumers, Drained(c) PROVE HoldInv'
<1>1. /\ UNCHANGED <<job, execs, msg, wk, run, stale, op, claims, budget>>
      /\ cons[c] = "draining" /\ cons' = [cons EXCEPT ![c] = "down"]
      /\ \A w \in Workers : ~Working(w)
  BY WorkersAssumption DEF Drained, dbVars, runVars, LeftAlone, Working
<1>2. \A b \in Consumers : cons[b] # "recovering"
  BY <1>1 DEF LeftAlone
<1>3. ReadIsFresh'
  BY <1>1, <1>2 DEF HoldInv, ReadIsFresh
<1> QED
  BY <1>1, <1>3 DEF HoldInv, Quiet, OneHolder, Working, ClaimedOnce, Heard, Listening, OneOpen,
     TurnEndsWithTheJob

\* Every run of the dead process becomes one that nobody listens to.
LEMMA CrashKeepsHold == ASSUME LeftAlone, HoldInv, IInv', NEW c \in Consumers, Crash(c) PROVE HoldInv'
<1>1. /\ UNCHANGED <<job, execs, msg, op, claims>>
      /\ \A b \in Consumers : stale'[b] = NoRow
      /\ \A w \in Workers : ConsumerOf[w] = c
      /\ wk' = [w \in Workers |-> IF ConsumerOf[w] = c THEN Idle ELSE wk[w]]
  BY WorkersAssumption DEF Crash, dbVars, LeftAlone, HoldInv, IInv, OthersOK
<1>2. budget'["pause"] = 0
  BY SpendLeavesPause DEF Crash, Kinds
<1>3. \A w \in Workers : wk'[w].pc = "idle" /\ wk'[w].claim = None
  BY <1>1 DEF Idle
<1>4. \A k \in ClaimIds : run'[k] \notin {"fresh", "resumed"}
  <2> SUFFICES ASSUME NEW k \in ClaimIds, run'[k] \in {"fresh", "resumed"} PROVE FALSE
    OBVIOUS
  <2>1. run[k] \in {"fresh", "resumed"} /\ \A w \in Workers : ConsumerOf[w] = c => wk[w].claim # k
    BY DEF Crash
  <2> QED
    BY <1>1, <2>1 DEF HoldInv, Heard, Listening
<1> QED
  BY <1>1, <1>2, <1>3, <1>4 DEF HoldInv, Quiet, OneHolder, Working, ClaimedOnce, ReadIsFresh, NoRow, Heard,
     OneOpen, TurnEndsWithTheJob

LEMMA RunnerKeepsHold == ASSUME HoldInv, IInv', RunnerStep PROVE HoldInv'
<1>1. ASSUME NEW k \in ClaimIds, RunKilled(k) PROVE HoldInv'
  <2>1. /\ UNCHANGED <<job, execs, msg, wk, cons, stale, op, claims, budget>>
        /\ \A j \in ClaimIds : run'[j] \in {"fresh", "resumed"} => run[j] \in {"fresh", "resumed"}
    BY <1>1 DEF RunKilled, dbVars, consVars, HoldInv, IInv, RunnerOK
  <2> QED
    BY <2>1 DEF HoldInv, Quiet, OneHolder, Working, ClaimedOnce, ReadIsFresh, Heard, Listening, OneOpen,
       TurnEndsWithTheJob
<1>2. CASE RunnerRestart
  <2>1. /\ UNCHANGED <<job, execs, msg, cons, stale, op, claims>>
        /\ \A k \in ClaimIds : run'[k] = "none"
    BY <1>2 DEF RunnerRestart, dbVars, consVars
  <2>2. budget'["pause"] = 0
    BY <1>2, SpendLeavesPause DEF RunnerRestart, Kinds
  <2>3. \A w \in Workers :
          /\ wk'[w].claim = wk[w].claim /\ wk'[w].attempt = wk[w].attempt /\ wk'[w].exec = wk[w].exec
          /\ wk'[w].pc = IF wk[w].pc \in {"starting", "running"} THEN "crashed" ELSE wk[w].pc
    <3> SUFFICES ASSUME NEW w \in Workers
                 PROVE  /\ wk'[w].claim = wk[w].claim /\ wk'[w].attempt = wk[w].attempt
                        /\ wk'[w].exec = wk[w].exec
                        /\ wk'[w].pc = IF wk[w].pc \in {"starting", "running"} THEN "crashed" ELSE wk[w].pc
      OBVIOUS
    <3>1. wk[w] \in Thread(Len(execs))
      BY DEF HoldInv, IInv, ThreadsOK
    <3>2. wk'[w] = IF wk[w].pc \in {"starting", "running"} THEN [wk[w] EXCEPT !.pc = "crashed"] ELSE wk[w]
      BY <1>2 DEF RunnerRestart
    <3> QED
      BY <3>1, <3>2 DEF Thread
  <2> QED
    BY <2>1, <2>2, <2>3 DEF HoldInv, Quiet, OneHolder, Working, ClaimedOnce, ReadIsFresh, Heard, OneOpen,
       TurnEndsWithTheJob
<1>3. CASE RunnerSilent \/ RunnerAnswers
  <2>1. budget'["pause"] = 0
    BY <1>3, SpendLeavesPause DEF RunnerSilent, RunnerAnswers, Kinds, HoldInv, Quiet
  <2>2. UNCHANGED <<job, execs, msg, wk, run, claims, op>> /\ UNCHANGED consVars
    BY <1>3 DEF RunnerSilent, RunnerAnswers, dbVars
  <2> QED
    BY <2>1, <2>2, NothingMoves
<1> QED
  BY <1>1, <1>2, <1>3 DEF RunnerStep

\* Without a pause, the operator can only edit the runtime of a TODO row.
LEMMA OperatorKeepsHold == ASSUME HoldInv, IInv', OperatorStep PROVE HoldInv'
<1>1. ~Pause /\ ~PauseSignal /\ ~ResumeRead /\ ~ResumeWrite
  BY DEF HoldInv, Quiet, Pause, Spend, PauseSignal, ResumeRead, ResumeWrite, IInv, OthersOK
<1>2. SetRuntime
  BY <1>1 DEF OperatorStep
<1>3. /\ UNCHANGED <<execs, msg, wk, run, claims, op>> /\ UNCHANGED consVars
      /\ job'.status = job.status /\ job'.attempt = job.attempt
  BY <1>2 DEF SetRuntime, HoldInv, IInv, RowsOK, JobRow, runVars
<1>4. budget'["pause"] = 0
  BY <1>2, SpendLeavesPause DEF SetRuntime, Kinds
<1> QED
  BY <1>3, <1>4, NothingMoves

LEMMA AgeKeepsHold == ASSUME HoldInv, IInv', Age PROVE HoldInv'
<1>1. /\ UNCHANGED <<execs, msg, wk, run, claims, op>> /\ UNCHANGED consVars
      /\ job'.status = job.status /\ job'.attempt = job.attempt /\ budget'["pause"] = 0
  BY DEF Age, HoldInv, Quiet, IInv, RowsOK, JobRow, runVars
<1> QED
  BY <1>1, NothingMoves

\* The invariant holds of the published job, and every step keeps it.
LEMMA HoldInit == LeftAlone /\ Init => HoldInv
<1> SUFFICES ASSUME LeftAlone, Init PROVE HoldInv
  OBVIOUS
<1>1. IInv
  BY InitIInv
<1> QED
  BY <1>1 DEF LeftAlone, Init, HoldInv, Quiet, OneHolder, Working, Idle, ClaimedOnce, ReadIsFresh, NoRow, Heard,
     OneOpen, TurnEndsWithTheJob

LEMMA HoldNext == LeftAlone /\ HoldInv /\ [Next]_vars => HoldInv'
<1> SUFFICES ASSUME LeftAlone, HoldInv, [Next]_vars PROVE HoldInv'
  OBVIOUS
<1>1. IInv'
  BY NextIInv DEF HoldInv
<1>2. CASE UNCHANGED vars
  <2>1. UNCHANGED <<job, execs, msg, wk, run, claims, op, budget>> /\ UNCHANGED consVars
    BY <1>2 DEF vars, dbVars, runVars
  <2> QED
    BY <1>1, <2>1, NothingMoves DEF HoldInv, Quiet
<1>3. ASSUME NEW w \in Workers, WorkerStep(w) PROVE HoldInv'
  BY <1>1, <1>3, WorkerKeepsHold
<1>4. ASSUME NEW c \in Consumers, ConsumerStep(c) PROVE HoldInv'
  BY <1>1, <1>4, RecoverScanKeepsHold, RecoverApplyKeepsHold, ShutdownKeepsHold, DrainedKeepsHold,
     CrashKeepsHold DEF ConsumerStep
<1> QED
  BY <1>1, <1>2, <1>3, <1>4, RunnerKeepsHold, OperatorKeepsHold, AgeKeepsHold DEF Next

\* The turn is terminal only when its job is: nobody but the holder of the last claim, or recovery
\* once there is no holder, reaches finalize_execution, and both find the row RUNNING.
THEOREM LeftAloneTurn == ASSUME LeftAlone PROVE Spec => []TurnEndsWithTheJob
<1>1. HoldInv => TurnEndsWithTheJob
  BY DEF HoldInv
<1> QED
  BY <1>1, HoldInit, HoldNext, PTL DEF Spec

\* At most one process of the job is connected to a worker, through crashes of the consumer,
\* restarts of the runner and retries after a process crash (_execute_with_one_retry).
THEOREM LeftAloneRun == ASSUME LeftAlone PROVE Spec => []OneRun
<1>1. HoldInv => OneRun
  BY DEF HoldInv, OneRun, Heard, Listening, OneHolder, Working
<1> QED
  BY <1>1, HoldInit, HoldNext, PTL DEF Spec

\* No execution stays open without somebody who will close it: it is the holder's, or that of a
\* RUNNING row that recovery looks at (_recover_stale_jobs, finalize_execution).
THEOREM LeftAloneExecution == ASSUME LeftAlone PROVE Spec => []OpenExecutionHasOwner
<1>1. HoldInv => OpenExecutionHasOwner
  BY DEF HoldInv, OneOpen, OpenExecutionHasOwner
<1> QED
  BY <1>1, HoldInit, HoldNext, PTL DEF Spec

\* Only the worker of the latest claim, from its finalizer, moves the row out of RUNNING, or
\* recovery does when that worker is gone (_finalize_job, _recover_stale_jobs).
THEOREM LeftAloneHolder == ASSUME LeftAlone PROVE Spec => HolderEnds
<1> DEFINE Ends == job.status = "RUNNING" /\ job'.status # "RUNNING" =>
                     \/ \E w \in Workers : wk[w].claim = claims /\ wk[w].pc = "writing" /\ wk'[w].pc = "idle"
                     \/ \A w \in Workers : wk[w].claim # claims
                     \/ job'.status = "PAUSED"
<1>1. HoldInv /\ [Next]_vars => [Ends]_vars
  <2> SUFFICES ASSUME HoldInv, Next, job.status = "RUNNING", job'.status # "RUNNING", job'.status # "PAUSED"
               PROVE  \/ \E w \in Workers : wk[w].claim = claims /\ wk[w].pc = "writing" /\ wk'[w].pc = "idle"
                      \/ \A w \in Workers : wk[w].claim # claims
    OBVIOUS
  <2>1. job \in JobRow
    BY DEF HoldInv, IInv, RowsOK
  <2>2. ASSUME NEW w \in Workers, WorkerStep(w)
        PROVE  wk[w].claim = claims /\ wk[w].pc = "writing" /\ wk'[w].pc = "idle"
    <3>1. ~Claim(w) /\ ~PidFrame(w) /\ ~SessionFrame(w)
      BY <2>1 DEF Claim, PidFrame, SessionFrame, JobRow
    <3>2. ~Mint(w) /\ ~FinalizeRead(w)
      BY DEF Mint, FinalizeRead
    <3>3. ~PrepareFails(w) /\ ~StartRun(w) /\ ~RunEnds(w) /\ ~CrashRetry(w) /\ ~FinalizeFault(w)
      BY DEF PrepareFails, StartRun, RunEnds, CrashRetry, FinalizeFault, dbVars
    <3>4. FinalizeWrite(w)
      BY <2>2, <3>1, <3>2, <3>3 DEF WorkerStep
    <3>5. wk[w].pc = "writing" /\ wk'[w].pc = "idle"
      BY <3>4 DEF FinalizeWrite, HoldInv, IInv, ThreadsOK, Idle
    <3> QED
      BY <3>5, HolderIsAlone DEF Working
  <2>3. ASSUME NEW c \in Consumers, ConsumerStep(c) PROVE \A w \in Workers : wk[w].claim # claims
    <3>1. ~RecoverScan(c) /\ ~Shutdown(c) /\ ~Drained(c) /\ ~Crash(c)
      BY DEF RecoverScan, Shutdown, Drained, Crash, dbVars
    <3>2. \A w \in Workers : ~Working(w)
      BY <2>3, <3>1, NobodyWorks DEF ConsumerStep, RecoverApply
    <3> QED
      BY <3>2 DEF HoldInv, OneHolder, ClaimedOnce, None
  <2>4. ~RunnerStep
    BY DEF RunnerStep, RunKilled, RunnerRestart, RunnerSilent, RunnerAnswers, dbVars
  <2>5. ~OperatorStep
    BY <2>1 DEF OperatorStep, Pause, PauseSignal, ResumeRead, ResumeWrite, SetRuntime, dbVars, JobRow
  <2>6. ~Age
    BY <2>1 DEF Age, JobRow
  <2> QED
    BY <2>2, <2>3, <2>4, <2>5, <2>6 DEF Next
<1> QED
  BY <1>1, HoldInit, HoldNext, PTL DEF Spec, HolderEnds
=============================================================================
