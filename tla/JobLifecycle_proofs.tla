------------------------ MODULE JobLifecycle_proofs ------------------------
(***************************************************************************)
(* Proofs about JobLifecycle, for any number of consumers, worker threads, *)
(* claims, attempts and faults.                                            *)
(*                                                                         *)
(* The inductive invariant is the conjunction of the type invariant and of *)
(* the two facts about a job at rest.  Every step is proved to preserve it *)
(* by the parts of the state it writes: the worker record, the rows of the *)
(* database, or the runner.                                                *)
(***************************************************************************)
EXTENDS JobLifecycle, TLAPS

-----------------------------------------------------------------------------
(* The parts of the invariant *)

\* The rows of the database, and the two facts about a job at rest.
RowsOK ==
    /\ job \in JobRow
    /\ execs \in Seq(Execution)
    /\ caps \subseteq 1..Len(execs)
    /\ msg \in {"published", "terminal"}
    /\ outbox \in Seq(Event)
    /\ NoCapabilityAtRest
    /\ TerminalEndsTheTurn

ThreadsOK == wk \in [Workers -> Thread(Len(execs))]

\* The runner and its record of the job's processes.
RunnerOK ==
    /\ run \in [ClaimIds -> {"none", "fresh", "resumed", "term"}]
    /\ tag \in 0..MaxClaims
    /\ boot \in Nat \ {0}
    /\ up \in BOOLEAN

\* The consumers, the operator and the bounds.
OthersOK ==
    /\ cons \in [Consumers -> {"down", "recovering", "up", "draining"}]
    /\ stale \in [Consumers -> JobRow \cup {NoRow}]
    /\ op \in [pc : {"idle", "signal", "resume"}, ref : Nat]
    /\ claims \in 0..MaxClaims
    /\ budget \in [Kinds -> Nat]

\* The inductive invariant.
IInv == RowsOK /\ ThreadsOK /\ RunnerOK /\ OthersOK

\* It is the type invariant together with the two facts about a job at rest.
LEMMA WhatIInvSays == IInv <=> TypeOK /\ NoCapabilityAtRest /\ TerminalEndsTheTurn
BY DEF IInv, TypeOK, RowsOK, ThreadsOK, RunnerOK, OthersOK

-----------------------------------------------------------------------------
(* Worker records *)

\* A worker thread without a job is a well-formed one, whatever rows there are.
LEMMA IdleIsAThread ==
    ASSUME NEW n \in Nat
    PROVE  Idle \in Thread(n)
BY BoundsAssumption DEF Idle, Thread, Pcs, Errors, RunErrors, Verdicts, None

\* A thread that knows of at most m rows knows of at most n >= m rows.
LEMMA ThreadsGrow ==
    ASSUME NEW m \in Nat, NEW n \in Nat, m <= n, NEW t \in Thread(m)
    PROVE  t \in Thread(n)
BY DEF Thread

\* Ending a run leaves a well-formed thread.
LEMMA OverIsAThread ==
    ASSUME NEW n \in Nat, NEW t \in Thread(n), NEW err \in Errors
    PROVE  /\ Over(t, err) \in Thread(n)
           /\ [Over(t, err) EXCEPT !.ran = TRUE] \in Thread(n)
BY DEF Over, Thread, Pcs, None

\* The errors a run can end with are errors of the finalizer.
LEMMA ErrorsOfARun ==
    /\ RunErrors \subseteq Errors
    /\ Verdicts \subseteq Errors
    /\ "retryable" \in Errors
BY DEF Errors, RunErrors, Verdicts

-----------------------------------------------------------------------------
(* Transitions *)

\* What the finalizer and recovery may pass to a transition.
Ways == [status : {"TODO", "SUCCESS", "FAILED", "DEAD"}, refund : BOOLEAN, revoke : BOOLEAN,
         failed : BOOLEAN, outcome : ExecStatus, terminal : BOOLEAN]

\* A way to end an attempt that tells the turn of a terminal status, and revokes the
\* capabilities when it leaves the job succeeded or dead.
Sound(how) ==
    /\ how \in Ways
    /\ how.status \in Terminal => how.terminal
    /\ how.status \in {"SUCCESS", "DEAD"} => how.revoke

\* Every ending the finalizer knows is sound.
LEMMA HowIsSound ==
    ASSUME NEW err, NEW attempt
    PROVE  Sound(How(err, attempt))
BY DEF Sound, How, Ways, ExecStatus, Terminal

\* So are the two of stale recovery.
LEMMA HowStaleIsSound ==
    ASSUME NEW attempt
    PROVE  Sound(HowStale(attempt))
BY DEF Sound, HowStale, Ways, ExecStatus, Terminal

\* Closing an execution keeps the rows and their number, and a turn once terminal stays so.
LEMMA EndExecutionKeeps ==
    ASSUME RowsOK, NEW exec, NEW attempt, NEW outcome \in ExecStatus, NEW terminal \in BOOLEAN,
           EndExecution(exec, attempt, outcome, terminal)
    PROVE  /\ execs' \in Seq(Execution)
           /\ Len(execs') = Len(execs)
           /\ msg' \in {"published", "terminal"}
           /\ msg = "terminal" \/ terminal => msg' = "terminal"
<1> DEFINE e == Resolve(exec, attempt)
<1>1. execs' = execs \/ execs' = [execs EXCEPT ![e].status = outcome]
  BY DEF EndExecution
<1>2. execs \in Seq(Execution)
  BY DEF RowsOK
<1>3. /\ [execs EXCEPT ![e].status = outcome] \in Seq(Execution)
      /\ Len([execs EXCEPT ![e].status = outcome]) = Len(execs)
  <2> HIDE DEF e
  <2>1. CASE e \in 1..Len(execs)
    <3>1. [execs[e] EXCEPT !.status = outcome] \in Execution
      <4>1. execs[e] \in Execution
        BY <1>2, <2>1
      <4>2. QED
        BY <4>1 DEF Execution
    <3>2. [execs EXCEPT ![e].status = outcome] = [execs EXCEPT ![e] = [execs[e] EXCEPT !.status = outcome]]
      OBVIOUS
    <3>3. QED
      BY <1>2, <2>1, <3>1, <3>2
  <2>2. CASE e \notin 1..Len(execs)
    <3>1. [execs EXCEPT ![e].status = outcome] = execs
      BY <1>2, <2>2
    <3>2. QED
      BY <1>2, <3>1
  <2>3. QED
    BY <2>1, <2>2
<1>4. msg' = IF terminal THEN "terminal" ELSE msg
  BY DEF EndExecution
<1>5. QED
  BY <1>1, <1>2, <1>3, <1>4 DEF RowsOK

\* A transition keeps the database well-formed and a job at rest at rest: it moves the row
\* only out of RUNNING, and then the turn and the capabilities follow.
LEMMA TransitionKeeps ==
    ASSUME RowsOK, NEW how, Sound(how), NEW exec, NEW attempt \in Nat, NEW seen \in BOOLEAN,
           NEW fresh \in BOOLEAN, Transition(how, exec, attempt, seen, fresh)
    PROVE  RowsOK' /\ Len(execs') = Len(execs)
<1>1. how \in Ways
  BY DEF Sound
<1>2. /\ execs' \in Seq(Execution)
      /\ Len(execs') = Len(execs)
      /\ msg' \in {"published", "terminal"}
      /\ msg = "terminal" \/ how.terminal => msg' = "terminal"
  BY <1>1, EndExecutionKeeps DEF Transition, Ways
<1>3. job' \in JobRow
  <2>1. /\ job \in JobRow
        /\ how.status \in Statuses
    BY <1>1 DEF RowsOK, Ways, Statuses, Terminal, Open
  <2>2. CASE job.status = "RUNNING"
    <3> DEFINE sess == (job.sess \/ seen) /\ ~fresh
               tried == IF how.refund /\ job.attempt > 0 THEN job.attempt - 1 ELSE job.attempt
    <3>1. job' = [job EXCEPT !.status = how.status, !.sess = sess, !.attempt = tried]
      BY <2>2 DEF Transition
    <3>2. sess \in BOOLEAN
      OBVIOUS
    <3>3. tried \in Nat
      BY <2>1 DEF JobRow
    <3> HIDE DEF sess, tried
    <3>4. QED
      BY <2>1, <3>1, <3>2, <3>3 DEF JobRow
  <2>3. CASE job.status # "RUNNING"
    <3>1. job' = [job EXCEPT !.sess = @ /\ ~fresh]
      BY <2>3 DEF Transition
    <3>2. QED
      BY <2>1, <3>1 DEF JobRow
  <2>4. QED
    BY <2>2, <2>3
<1>4. caps' \subseteq 1..Len(execs')
  BY <1>2 DEF RowsOK, Transition
<1>5. outbox' \in Seq(Event)
  <2>1. [kind |-> "job.failed", attempt |-> attempt] \in Event
    BY DEF Event
  <2>2. outbox \in Seq(Event)
    BY DEF RowsOK
  <2>3. outbox' = outbox \/ outbox' = Append(outbox, [kind |-> "job.failed", attempt |-> attempt])
    BY DEF Transition
  <2> HIDE DEF Event
  <2>4. QED
    BY <2>1, <2>2, <2>3
<1>6. job'.status = IF job.status = "RUNNING" THEN how.status ELSE job.status
  BY DEF RowsOK, JobRow, Transition
<1>7. NoCapabilityAtRest'
  BY <1>1, <1>6 DEF RowsOK, NoCapabilityAtRest, Sound, Ways, Transition
<1>8. TerminalEndsTheTurn'
  BY <1>1, <1>2, <1>6 DEF RowsOK, TerminalEndsTheTurn, Sound, Ways, Terminal
<1>9. QED
  BY <1>2, <1>3, <1>4, <1>5, <1>7, <1>8 DEF RowsOK

-----------------------------------------------------------------------------
(* Steps that touch only some of the parts *)

\* A step that leaves the database alone keeps its part.
LEMMA RowsUnchanged ==
    ASSUME RowsOK, UNCHANGED dbVars
    PROVE  RowsOK'
BY DEF RowsOK, dbVars, NoCapabilityAtRest, TerminalEndsTheTurn

\* So for the runner.
LEMMA RunnerUnchanged ==
    ASSUME RunnerOK, UNCHANGED runVars
    PROVE  RunnerOK'
BY DEF RunnerOK, runVars

\* So for the consumers, the operator and the bounds.
LEMMA OthersUnchanged ==
    ASSUME OthersOK, UNCHANGED <<consVars, op, claims, budget>>
    PROVE  OthersOK'
BY DEF OthersOK, consVars

\* Spending from a bound keeps the bounds natural numbers.
LEMMA SpendKeeps ==
    ASSUME budget \in [Kinds -> Nat], NEW kind \in Kinds, Spend(kind)
    PROVE  budget' \in [Kinds -> Nat]
BY DEF Spend

\* A step of one thread, while rows are only added, leaves well-formed threads.
LEMMA OneThreadChanges ==
    ASSUME ThreadsOK, RowsOK, RowsOK', Len(execs) <= Len(execs'), NEW w \in Workers,
           NEW t, t \in Thread(Len(execs')), wk' = [wk EXCEPT ![w] = t]
    PROVE  ThreadsOK'
<1>1. /\ Len(execs) \in Nat
      /\ Len(execs') \in Nat
  BY DEF RowsOK
<1>2. \A v \in Workers : wk[v] \in Thread(Len(execs'))
  BY <1>1, ThreadsGrow DEF ThreadsOK
<1> HIDE DEF Thread
<1>3. QED
  BY <1>2 DEF ThreadsOK

\* The record of a thread.
LEMMA WhatAThreadIs ==
    ASSUME RowsOK, ThreadsOK, NEW w \in Workers
    PROVE  wk[w] \in Thread(Len(execs)) /\ Len(execs) \in Nat
BY DEF RowsOK, ThreadsOK

\* A step of one thread that leaves the database alone.
LEMMA ThreadChangesAlone ==
    ASSUME RowsOK, ThreadsOK, execs' = execs, NEW w \in Workers,
           NEW t, t \in Thread(Len(execs)), wk' = [wk EXCEPT ![w] = t]
    PROVE  ThreadsOK'
BY DEF ThreadsOK

\* A thread that is done with its job.
LEMMA ThreadGoesIdle ==
    ASSUME RowsOK, ThreadsOK, Len(execs') = Len(execs), NEW w \in Workers,
           wk' = [wk EXCEPT ![w] = Idle]
    PROVE  ThreadsOK'
<1>1. Idle \in Thread(Len(execs))
  BY IdleIsAThread DEF RowsOK
<1>2. QED
  BY <1>1 DEF ThreadsOK

\* A step that leaves the rows' number and the threads alone.
LEMMA ThreadsUnchanged ==
    ASSUME ThreadsOK, Len(execs') = Len(execs), wk' = wk
    PROVE  ThreadsOK'
BY DEF ThreadsOK

-----------------------------------------------------------------------------
(* A worker thread's steps *)

\* _try_dequeue: the claimed row is RUNNING, so neither fact about a job at rest applies.
LEMMA ClaimKeeps ==
    ASSUME IInv, NEW w \in Workers, Claim(w)
    PROVE  IInv'
<1> USE DEF IInv
<1>1. RowsOK'
  <2>1. job' \in JobRow /\ job'.status = "RUNNING"
    <3>1. job \in JobRow /\ job.attempt + 1 \in Nat
      BY DEF RowsOK, JobRow
    <3>2. job' = [job EXCEPT !.status = "RUNNING", !.attempt = job.attempt + 1, !.aged = FALSE]
      BY DEF Claim
    <3>3. QED
      BY <3>1, <3>2 DEF JobRow, Statuses, Open
  <2>2. outbox' \in Seq(Event)
    <3>1. [kind |-> "job.claimed", attempt |-> job.attempt + 1] \in Event
      BY DEF RowsOK, JobRow, Event
    <3>2. QED
      BY <3>1 DEF Claim, RowsOK
  <2>3. QED
    BY <2>1, <2>2 DEF Claim, RowsOK, NoCapabilityAtRest, TerminalEndsTheTurn, Terminal
<1>2. ThreadsOK'
  <2> DEFINE t == [Idle EXCEPT !.pc = "claimed", !.claim = claims + 1,
                     !.attempt = job.attempt + 1, !.sess = job.sess, !.prev = job.ref]
  <2>1. /\ claims + 1 \in 0..MaxClaims
        /\ job.attempt + 1 \in Nat
        /\ job.sess \in BOOLEAN
        /\ job.ref \in Nat
    BY BoundsAssumption DEF Claim, RowsOK, OthersOK, JobRow
  <2>2. Len(execs) \in Nat
    BY DEF RowsOK
  <2>3. t \in Thread(Len(execs))
    BY <2>1, <2>2, IdleIsAThread DEF Thread, Pcs
  <2>4. wk' = [wk EXCEPT ![w] = t] /\ execs' = execs
    BY DEF Claim
  <2> HIDE DEF t
  <2>5. QED
    BY <2>3, <2>4, ThreadChangesAlone
<1>3. RunnerOK'
  BY RunnerUnchanged DEF Claim
<1>4. OthersOK'
  BY BoundsAssumption DEF Claim, OthersOK, consVars
<1>5. QED
  BY <1>1, <1>2, <1>3, <1>4

\* A run that cannot be prepared changes the thread only.
LEMMA PrepareFailsKeeps ==
    ASSUME IInv, NEW w \in Workers, PrepareFails(w)
    PROVE  IInv'
<1> USE DEF IInv
<1>1. PICK err \in RunErrors : wk' = [wk EXCEPT ![w] = Over(wk[w], err)]
  BY DEF PrepareFails, Ended
<1>2. /\ UNCHANGED dbVars
      /\ UNCHANGED runVars
      /\ UNCHANGED <<consVars, op, claims, budget>>
  BY DEF PrepareFails
<1>3. Over(wk[w], err) \in Thread(Len(execs))
  BY WhatAThreadIs, OverIsAThread, ErrorsOfARun
<1>4. ThreadsOK'
  <2>1. execs' = execs
    BY <1>2 DEF dbVars
  <2>2. QED
    BY <1>1, <1>3, <2>1, ThreadChangesAlone
<1>5. QED
  BY <1>2, <1>4, RowsUnchanged, RunnerUnchanged, OthersUnchanged

\* mint_execution_id and _issue_run_capabilities: a capability is added only under RUNNING.
LEMMA MintKeeps ==
    ASSUME IInv, NEW w \in Workers, Mint(w)
    PROVE  IInv'
<1> USE DEF IInv
<1> DEFINE runnable == job.status = "RUNNING"
           row == [attempt |-> wk[w].attempt,
                   status |-> IF runnable THEN "running" ELSE "abandoned"]
           pc == IF runnable THEN "minted" ELSE "ended"
           t == [wk[w] EXCEPT !.pc = pc, !.exec = Len(execs) + 1]
<1>1. wk[w] \in Thread(Len(execs)) /\ Len(execs) \in Nat
  BY WhatAThreadIs
<1>2. row \in Execution
  BY <1>1 DEF Thread, Execution, ExecStatus
<1>3. t \in Thread(Len(execs) + 1)
  <2>1. pc \in Pcs
    BY DEF Pcs
  <2>2. wk[w] \in Thread(Len(execs) + 1)
    BY <1>1, ThreadsGrow
  <2>3. Len(execs) + 1 \in 0..(Len(execs) + 1)
    BY <1>1
  <2> HIDE DEF pc
  <2>4. QED
    BY <2>1, <2>2, <2>3 DEF Thread
<1>4. /\ execs' = Append(execs, row)
      /\ wk' = [wk EXCEPT ![w] = t]
      /\ caps' = IF runnable THEN caps \cup {Len(execs) + 1} ELSE caps
      /\ UNCHANGED <<job, msg, outbox>>
      /\ UNCHANGED runVars
      /\ UNCHANGED <<consVars, op, claims, budget>>
  BY DEF Mint
<1> HIDE DEF row, t
<1>5. execs' \in Seq(Execution) /\ Len(execs') = Len(execs) + 1
  BY <1>2, <1>4 DEF RowsOK
<1>6. RowsOK'
  <2>1. caps' \subseteq 1..Len(execs')
    <3>1. caps \subseteq 1..Len(execs)
      BY DEF RowsOK
    <3>2. caps' = caps \/ caps' = caps \cup {Len(execs) + 1}
      BY <1>4
    <3>3. \A x \in caps' : x \in 1..Len(execs) \/ x = Len(execs) + 1
      BY <3>1, <3>2
    <3>4. QED
      BY <1>1, <1>5, <3>3
  <2>2. NoCapabilityAtRest'
    BY <1>4 DEF RowsOK, NoCapabilityAtRest
  <2>3. QED
    BY <1>4, <1>5, <2>1, <2>2 DEF RowsOK, TerminalEndsTheTurn
<1>7. ThreadsOK'
  <2>1. Len(execs) <= Len(execs')
    BY <1>1, <1>5
  <2>2. t \in Thread(Len(execs'))
    BY <1>3, <1>5
  <2>3. QED
    BY <1>4, <1>6, <2>1, <2>2, OneThreadChanges
<1>8. QED
  BY <1>4, <1>6, <1>7, RunnerUnchanged, OthersUnchanged

\* RemoteRunner.execute touches the thread and the runner.
LEMMA StartRunKeeps ==
    ASSUME IInv, NEW w \in Workers, StartRun(w)
    PROVE  IInv'
<1> USE DEF IInv
<1> DEFINE t == [wk[w] EXCEPT !.pc = "starting"]
<1>1. wk[w] \in Thread(Len(execs))
  BY WhatAThreadIs
<1>2. t \in Thread(Len(execs)) /\ wk[w].claim \in 0..MaxClaims
  BY <1>1 DEF Thread, Pcs
<1>3. /\ wk' = [wk EXCEPT ![w] = t]
      /\ UNCHANGED dbVars
      /\ UNCHANGED <<consVars, op, claims, budget>>
  BY DEF StartRun
<1> HIDE DEF t
<1>4. ThreadsOK'
  BY <1>2, <1>3, ThreadChangesAlone DEF dbVars
<1>5. RunnerOK'
  BY <1>2 DEF StartRun, RunnerOK
<1>6. QED
  BY <1>3, <1>4, <1>5, RowsUnchanged, OthersUnchanged

\* A frame that writes one column of the row, or fails to.
LEMMA FrameKeepsRows ==
    ASSUME RowsOK, job' \in JobRow, job'.status = job.status, UNCHANGED <<execs, caps, msg, outbox>>
    PROVE  RowsOK'
BY DEF RowsOK, NoCapabilityAtRest, TerminalEndsTheTurn

\* _save_pid writes the owner and leaves the status alone.
LEMMA PidFrameKeeps ==
    ASSUME IInv, NEW w \in Workers, PidFrame(w)
    PROVE  IInv'
<1> USE DEF IInv
<1> DEFINE t == [wk[w] EXCEPT !.pc = "running", !.ref = boot]
<1>1. wk[w] \in Thread(Len(execs)) /\ boot \in Nat
  BY WhatAThreadIs DEF RunnerOK
<1>2. t \in Thread(Len(execs))
  BY <1>1 DEF Thread, Pcs
<1>3. /\ wk' = [wk EXCEPT ![w] = t]
      /\ UNCHANGED <<execs, caps, msg, outbox>>
      /\ UNCHANGED runVars
      /\ UNCHANGED <<consVars, op, claims>>
  BY DEF PidFrame
<1> HIDE DEF t
<1>4. job' \in JobRow /\ job'.status = job.status
  BY <1>1 DEF PidFrame, RowsOK, JobRow
<1>5. OthersOK'
  <2>1. budget' \in [Kinds -> Nat]
    BY SpendKeeps DEF PidFrame, OthersOK, Kinds
  <2>2. QED
    BY <1>3, <2>1 DEF OthersOK, consVars
<1>6. ThreadsOK'
  BY <1>2, <1>3, ThreadChangesAlone
<1>7. QED
  BY <1>3, <1>4, <1>5, <1>6, FrameKeepsRows, RunnerUnchanged

\* _save_session_id writes the session and leaves the status alone.
LEMMA SessionFrameKeeps ==
    ASSUME IInv, NEW w \in Workers, SessionFrame(w)
    PROVE  IInv'
<1> USE DEF IInv
<1> DEFINE t == [wk[w] EXCEPT !.sess = TRUE, !.seen = TRUE]
<1>1. wk[w] \in Thread(Len(execs))
  BY WhatAThreadIs
<1>2. t \in Thread(Len(execs))
  BY <1>1 DEF Thread
<1>3. /\ wk' = [wk EXCEPT ![w] = t]
      /\ UNCHANGED <<execs, caps, msg, outbox>>
      /\ UNCHANGED runVars
      /\ UNCHANGED <<consVars, op, claims>>
  BY DEF SessionFrame
<1> HIDE DEF t
<1>4. job' \in JobRow /\ job'.status = job.status
  BY DEF SessionFrame, RowsOK, JobRow
<1>5. OthersOK'
  <2>1. budget' \in [Kinds -> Nat]
    BY SpendKeeps DEF SessionFrame, OthersOK, Kinds
  <2>2. QED
    BY <1>3, <2>1 DEF OthersOK, consVars
<1>6. ThreadsOK'
  BY <1>2, <1>3, ThreadChangesAlone
<1>7. QED
  BY <1>3, <1>4, <1>5, <1>6, FrameKeepsRows, RunnerUnchanged

\* The end of a process touches the thread and the runner.
LEMMA RunEndsKeeps ==
    ASSUME IInv, NEW w \in Workers, RunEnds(w)
    PROVE  IInv'
<1> USE DEF IInv
<1>1. wk[w] \in Thread(Len(execs)) /\ Len(execs) \in Nat
  BY WhatAThreadIs
<1>2. PICK err \in RunErrors :
        wk' = [wk EXCEPT ![w] = IF err = "crash" THEN [wk[w] EXCEPT !.pc = "crashed"]
                                ELSE [Over(wk[w], err) EXCEPT !.ran = TRUE]]
  BY DEF RunEnds
<1> DEFINE t == IF err = "crash" THEN [wk[w] EXCEPT !.pc = "crashed"]
                ELSE [Over(wk[w], err) EXCEPT !.ran = TRUE]
<1>3. t \in Thread(Len(execs))
  <2>1. [wk[w] EXCEPT !.pc = "crashed"] \in Thread(Len(execs))
    BY <1>1 DEF Thread, Pcs
  <2>2. [Over(wk[w], err) EXCEPT !.ran = TRUE] \in Thread(Len(execs))
    BY <1>1, OverIsAThread, ErrorsOfARun
  <2>3. QED
    BY <2>1, <2>2
<1>4. /\ UNCHANGED dbVars
      /\ UNCHANGED <<consVars, op, claims, budget>>
  BY DEF RunEnds
<1> HIDE DEF t
<1>5. ThreadsOK'
  BY <1>2, <1>3, <1>4, ThreadChangesAlone DEF dbVars, t
<1>6. RunnerOK'
  <2>1. /\ run' = [run EXCEPT ![wk[w].claim] = "none"]
        /\ tag' = 0
        /\ UNCHANGED <<boot, up>>
    BY DEF RunEnds, None
  <2>2. 0 \in 0..MaxClaims
    BY BoundsAssumption
  <2>3. run' \in [ClaimIds -> {"none", "fresh", "resumed", "term"}]
    BY <2>1 DEF RunnerOK
  <2>4. QED
    BY <2>1, <2>2, <2>3 DEF RunnerOK
<1>7. QED
  BY <1>4, <1>5, <1>6, RowsUnchanged, OthersUnchanged

\* _execute_with_one_retry changes the thread only.
LEMMA CrashRetryKeeps ==
    ASSUME IInv, NEW w \in Workers, CrashRetry(w)
    PROVE  IInv'
<1> USE DEF IInv
<1>1. wk[w] \in Thread(Len(execs)) /\ Len(execs) \in Nat
  BY WhatAThreadIs
<1>2. /\ UNCHANGED dbVars
      /\ UNCHANGED runVars
      /\ UNCHANGED <<consVars, op, claims, budget>>
  BY DEF CrashRetry
<1>3. \E t \in Thread(Len(execs)) : wk' = [wk EXCEPT ![w] = t]
  <2>1. /\ [wk[w] EXCEPT !.pc = "minted", !.again = TRUE, !.seen = FALSE] \in Thread(Len(execs))
        /\ Over(wk[w], "retryable") \in Thread(Len(execs))
    <3>1. [wk[w] EXCEPT !.pc = "minted", !.again = TRUE, !.seen = FALSE] \in Thread(Len(execs))
      BY <1>1 DEF Thread, Pcs
    <3>2. QED
      BY <1>1, <3>1, OverIsAThread, ErrorsOfARun
  <2>2. \/ wk' = [wk EXCEPT ![w] = [wk[w] EXCEPT !.pc = "minted", !.again = TRUE, !.seen = FALSE]]
        \/ wk' = [wk EXCEPT ![w] = Over(wk[w], "retryable")]
    BY DEF CrashRetry, Ended
  <2>3. QED
    BY <2>1, <2>2
<1>4. ThreadsOK'
  BY <1>2, <1>3, ThreadChangesAlone DEF dbVars
<1>5. QED
  BY <1>2, <1>4, RowsUnchanged, RunnerUnchanged, OthersUnchanged

\* _finalize_job up to its decision: at most it closes an execution.
LEMMA FinalizeReadKeeps ==
    ASSUME IInv, NEW w \in Workers, FinalizeRead(w)
    PROVE  IInv'
<1> USE DEF IInv
<1>1. wk[w] \in Thread(Len(execs)) /\ Len(execs) \in Nat
  BY WhatAThreadIs
<1>2. /\ UNCHANGED <<job, caps, outbox>>
      /\ UNCHANGED runVars
      /\ UNCHANGED <<consVars, op, claims, budget>>
  BY DEF FinalizeRead
<1>3. CASE /\ EndExecution(wk[w].exec, wk[w].attempt, "abandoned", FALSE)
           /\ wk' = [wk EXCEPT ![w] = Idle]
  <2>1. /\ execs' \in Seq(Execution)
        /\ Len(execs') = Len(execs)
        /\ msg' \in {"published", "terminal"}
        /\ msg = "terminal" => msg' = "terminal"
    BY <1>3, EndExecutionKeeps DEF ExecStatus
  <2>2. RowsOK'
    BY <1>2, <2>1 DEF RowsOK, NoCapabilityAtRest, TerminalEndsTheTurn
  <2>3. ThreadsOK'
    BY <1>3, <2>1, ThreadGoesIdle
  <2>4. QED
    BY <1>2, <2>2, <2>3, RunnerUnchanged, OthersUnchanged
<1>4. CASE /\ \E err \in Errors : wk' = [wk EXCEPT ![w] =
                 [wk[w] EXCEPT !.pc = "writing", !.err = err, !.verified = TRUE]]
           /\ UNCHANGED <<execs, msg>>
  <2>1. UNCHANGED dbVars
    BY <1>2, <1>4 DEF dbVars
  <2>2. PICK err \in Errors : wk' = [wk EXCEPT ![w] =
                 [wk[w] EXCEPT !.pc = "writing", !.err = err, !.verified = TRUE]]
    BY <1>4
  <2>3. [wk[w] EXCEPT !.pc = "writing", !.err = err, !.verified = TRUE] \in Thread(Len(execs))
    BY <1>1 DEF Thread, Pcs
  <2>4. ThreadsOK'
    BY <1>4, <2>2, <2>3, ThreadChangesAlone
  <2>5. QED
    BY <1>2, <2>1, <2>4, RowsUnchanged, RunnerUnchanged, OthersUnchanged
<1>5. QED
  <2>1. wk[w].err \in Errors
    BY <1>1 DEF Thread
  <2>2. QED
    BY <1>3, <1>4, <2>1, ErrorsOfARun DEF FinalizeRead

\* _finalize_job, its write: a sound transition.
LEMMA FinalizeWriteKeeps ==
    ASSUME IInv, NEW w \in Workers, FinalizeWrite(w)
    PROVE  IInv'
<1> USE DEF IInv
<1>1. wk[w] \in Thread(Len(execs)) /\ Len(execs) \in Nat
  BY WhatAThreadIs
<1>2. /\ wk' = [wk EXCEPT ![w] = Idle]
      /\ UNCHANGED runVars
      /\ UNCHANGED <<consVars, op, claims, budget>>
  BY DEF FinalizeWrite
<1>3. RowsOK' /\ Len(execs') = Len(execs)
  <2> DEFINE how == How(wk[w].err, wk[w].attempt)
             seen == wk[w].seen /\ wk[w].err # "none"
             fresh == wk[w].err = "fresh"
  <2>1. Sound(how)
    BY HowIsSound
  <2>2. wk[w].attempt \in Nat
    BY <1>1 DEF Thread
  <2>3. seen \in BOOLEAN /\ fresh \in BOOLEAN
    OBVIOUS
  <2>4. Transition(how, wk[w].exec, wk[w].attempt, seen, fresh)
    BY DEF FinalizeWrite
  <2> HIDE DEF how, seen, fresh
  <2>5. QED
    BY <2>1, <2>2, <2>3, <2>4, TransitionKeeps
<1>4. ThreadsOK'
  BY <1>2, <1>3, ThreadGoesIdle
<1>5. QED
  BY <1>2, <1>3, <1>4, RunnerUnchanged, OthersUnchanged

\* A finalizer transaction that fails leaves no row behind.
LEMMA FinalizeFaultKeeps ==
    ASSUME IInv, NEW w \in Workers, FinalizeFault(w)
    PROVE  IInv'
<1> USE DEF IInv
<1>1. wk[w] \in Thread(Len(execs)) /\ Len(execs) \in Nat
  BY WhatAThreadIs
<1>2. /\ UNCHANGED dbVars
      /\ UNCHANGED runVars
      /\ UNCHANGED <<consVars, op, claims>>
      /\ Spend("db")
  BY DEF FinalizeFault
<1>3. \E t \in Thread(Len(execs)) : wk' = [wk EXCEPT ![w] = t]
  <2> DEFINE tries == wk[w].tries + 1
  <2>1. tries \in Nat
    BY <1>1 DEF Thread
  <2>2. \/ wk' = [wk EXCEPT ![w] = [wk[w] EXCEPT !.pc = "ended", !.tries = tries]]
        \/ wk' = [wk EXCEPT ![w] = Idle]
    BY DEF FinalizeFault
  <2> HIDE DEF tries
  <2>3. [wk[w] EXCEPT !.pc = "ended", !.tries = tries] \in Thread(Len(execs))
    BY <1>1, <2>1 DEF Thread, Pcs
  <2>4. QED
    BY <1>1, <2>2, <2>3, IdleIsAThread
<1>4. ThreadsOK'
  BY <1>2, <1>3, ThreadChangesAlone DEF dbVars
<1>5. OthersOK'
  <2>1. budget' \in [Kinds -> Nat]
    BY <1>2, SpendKeeps DEF OthersOK, Kinds
  <2>2. QED
    BY <1>2, <2>1 DEF OthersOK, consVars
<1>6. QED
  BY <1>2, <1>4, <1>5, RowsUnchanged, RunnerUnchanged

\* Every step of a worker thread keeps the invariant.
LEMMA WorkerStepKeeps ==
    ASSUME IInv, NEW w \in Workers, WorkerStep(w)
    PROVE  IInv'
BY ClaimKeeps, PrepareFailsKeeps, MintKeeps, StartRunKeeps, PidFrameKeeps, SessionFrameKeeps,
   RunEndsKeeps, CrashRetryKeeps, FinalizeReadKeeps, FinalizeWriteKeeps, FinalizeFaultKeeps
   DEF WorkerStep

-----------------------------------------------------------------------------
(* The other steps *)

\* _recover_stale_jobs: a sound transition, from the row as it was read, or nothing.
LEMMA RecoverApplyKeeps ==
    ASSUME IInv, NEW c \in Consumers, RecoverApply(c)
    PROVE  IInv'
<1> USE DEF IInv
<1>1. RowsOK' /\ Len(execs') = Len(execs)
  <2>1. CASE IsStale(stale[c])
    <3>1. stale[c] \in JobRow \cup {NoRow} /\ stale[c].status = "RUNNING"
      BY <2>1 DEF IsStale, OthersOK
    <3>2. stale[c] # NoRow
      BY <3>1 DEF NoRow
    <3>3. stale[c].attempt \in Nat
      BY <3>1, <3>2 DEF JobRow
    <3>4. Transition(HowStale(stale[c].attempt), None, stale[c].attempt, FALSE, FALSE)
      BY <2>1 DEF RecoverApply
    <3>5. Sound(HowStale(stale[c].attempt))
      BY HowStaleIsSound
    <3>6. QED
      BY <3>3, <3>4, <3>5, TransitionKeeps
  <2>2. CASE ~IsStale(stale[c])
    <3>1. UNCHANGED dbVars
      BY <2>2 DEF RecoverApply
    <3>2. QED
      BY <3>1, RowsUnchanged DEF dbVars
  <2>3. QED
    BY <2>1, <2>2
<1>2. ThreadsOK'
  BY <1>1, ThreadsUnchanged DEF RecoverApply
<1>3. /\ cons' = [cons EXCEPT ![c] = "up"]
      /\ stale' = [stale EXCEPT ![c] = NoRow]
      /\ UNCHANGED runVars
      /\ UNCHANGED <<op, claims, budget>>
  BY DEF RecoverApply
<1>4. OthersOK'
  BY <1>3 DEF OthersOK
<1>5. QED
  BY <1>1, <1>2, <1>3, <1>4, RunnerUnchanged

\* The death of a consumer touches its threads and the runs they listened to.
LEMMA CrashKeeps ==
    ASSUME IInv, NEW c \in Consumers, Crash(c)
    PROVE  IInv'
<1> USE DEF IInv
<1>1. UNCHANGED dbVars
  BY DEF Crash
<1>2. ThreadsOK'
  <2>1. \A w \in Workers : wk[w] \in Thread(Len(execs)) /\ Idle \in Thread(Len(execs))
    BY WhatAThreadIs, IdleIsAThread
  <2>2. wk' = [w \in Workers |-> IF ConsumerOf[w] = c THEN Idle ELSE wk[w]] /\ execs' = execs
    BY DEF Crash, dbVars
  <2>3. QED
    BY <2>1, <2>2 DEF ThreadsOK
<1>3. RunnerOK'
  BY DEF Crash, RunnerOK
<1>4. OthersOK'
  <2>1. budget' \in [Kinds -> Nat]
    BY SpendKeeps DEF Crash, OthersOK, Kinds
  <2>2. QED
    BY <2>1 DEF Crash, OthersOK
<1>5. QED
  BY <1>1, <1>2, <1>3, <1>4, RowsUnchanged

\* Every step of a consumer process keeps the invariant.
LEMMA ConsumerStepKeeps ==
    ASSUME IInv, NEW c \in Consumers, ConsumerStep(c)
    PROVE  IInv'
<1> USE DEF IInv
<1>1. ASSUME UNCHANGED <<dbVars, wk, runVars>>, OthersOK'
      PROVE  IInv'
  BY <1>1, RowsUnchanged, ThreadsUnchanged, RunnerUnchanged DEF dbVars
<1>2. CASE RecoverScan(c)
  BY <1>1, <1>2 DEF RecoverScan, OthersOK, RowsOK
<1>3. CASE Shutdown(c)
  <2>1. budget' \in [Kinds -> Nat]
    BY <1>3, SpendKeeps DEF Shutdown, OthersOK, Kinds
  <2>2. QED
    BY <1>1, <1>3, <2>1 DEF Shutdown, OthersOK
<1>4. CASE Drained(c)
  BY <1>1, <1>4 DEF Drained, OthersOK
<1>5. QED
  BY <1>2, <1>3, <1>4, RecoverApplyKeeps, CrashKeeps DEF ConsumerStep

\* Every step of the runner keeps the invariant.
LEMMA RunnerStepKeeps ==
    ASSUME IInv, RunnerStep
    PROVE  IInv'
<1> USE DEF IInv
<1>1. 0 \in 0..MaxClaims
  BY BoundsAssumption
<1>2. ASSUME NEW k \in ClaimIds, RunKilled(k) PROVE IInv'
  <2>1. RunnerOK'
    BY <1>1, <1>2 DEF RunKilled, RunnerOK, None
  <2>2. QED
    BY <1>2, <2>1, RowsUnchanged, ThreadsUnchanged, OthersUnchanged DEF RunKilled, dbVars
<1>3. CASE RunnerRestart
  <2>1. ThreadsOK'
    <3>1. \A w \in Workers : /\ wk[w] \in Thread(Len(execs))
                             /\ [wk[w] EXCEPT !.pc = "crashed"] \in Thread(Len(execs))
      BY WhatAThreadIs DEF Thread, Pcs
    <3>2. /\ wk' = [w \in Workers |->
                      IF wk[w].pc \in {"starting", "running"}
                      THEN [wk[w] EXCEPT !.pc = "crashed"] ELSE wk[w]]
          /\ execs' = execs
      BY <1>3 DEF RunnerRestart, dbVars
    <3>3. QED
      BY <3>1, <3>2 DEF ThreadsOK
  <2>2. RunnerOK'
    BY <1>1, <1>3 DEF RunnerRestart, RunnerOK, None
  <2>3. OthersOK'
    <3>1. budget' \in [Kinds -> Nat]
      BY <1>3, SpendKeeps DEF RunnerRestart, OthersOK, Kinds
    <3>2. QED
      BY <1>3, <3>1 DEF RunnerRestart, OthersOK, consVars
  <2>4. QED
    BY <1>3, <2>1, <2>2, <2>3, RowsUnchanged DEF RunnerRestart
<1>4. CASE RunnerSilent
  <2>1. budget' \in [Kinds -> Nat]
    BY <1>4, SpendKeeps DEF RunnerSilent, OthersOK, Kinds
  <2>2. RunnerOK' /\ OthersOK'
    BY <1>4, <2>1 DEF RunnerSilent, RunnerOK, OthersOK, consVars
  <2>3. QED
    BY <1>4, <2>2, RowsUnchanged, ThreadsUnchanged DEF RunnerSilent, dbVars
<1>5. CASE RunnerAnswers
  <2>1. RunnerOK'
    BY <1>5 DEF RunnerAnswers, RunnerOK
  <2>2. QED
    BY <1>5, <2>1, RowsUnchanged, ThreadsUnchanged, OthersUnchanged DEF RunnerAnswers, dbVars
<1>6. QED
  BY <1>2, <1>3, <1>4, <1>5 DEF RunnerStep

\* Every command of the operator keeps the invariant.
LEMMA OperatorStepKeeps ==
    ASSUME IInv, OperatorStep
    PROVE  IInv'
<1> USE DEF IInv
<1>1. job \in JobRow /\ job.ref \in Nat
  BY DEF RowsOK, JobRow
<1>2. CASE Pause
  <2>1. budget' \in [Kinds -> Nat]
    BY <1>2, SpendKeeps DEF Pause, OthersOK, Kinds
  <2>2. OthersOK'
    BY <1>1, <1>2, <2>1 DEF Pause, OthersOK, consVars
  <2>3. job' \in JobRow /\ job'.status = "PAUSED"
    BY <1>1, <1>2 DEF Pause, JobRow, Statuses, Open
  <2>4. RowsOK'
    BY <1>2, <2>3 DEF Pause, RowsOK, NoCapabilityAtRest, TerminalEndsTheTurn, Terminal
  <2>5. QED
    BY <1>2, <2>2, <2>4, ThreadsUnchanged, RunnerUnchanged DEF Pause
<1>3. CASE PauseSignal
  <2>1. OthersOK'
    BY <1>3 DEF PauseSignal, OthersOK, consVars, None
  <2>2. RunnerOK'
    BY <1>3 DEF PauseSignal, RunnerOK
  <2>3. QED
    BY <1>3, <2>1, <2>2, RowsUnchanged, ThreadsUnchanged DEF PauseSignal, dbVars
<1>4. CASE ResumeRead
  <2>1. budget' \in [Kinds -> Nat]
    BY <1>4, SpendKeeps DEF ResumeRead, OthersOK, Kinds
  <2>2. OthersOK'
    BY <1>4, <2>1 DEF ResumeRead, OthersOK, consVars, None
  <2>3. QED
    BY <1>4, <2>2, RowsUnchanged, ThreadsUnchanged, RunnerUnchanged DEF ResumeRead, dbVars
<1>5. CASE ResumeWrite
  <2>1. OthersOK'
    BY <1>5 DEF ResumeWrite, OthersOK, consVars, None
  <2>2. job' \in JobRow /\ (job'.status = "TODO" \/ job'.status = job.status)
    BY <1>1, <1>5 DEF ResumeWrite, JobRow, Statuses, Open, None
  <2>3. RowsOK'
    BY <1>5, <2>2 DEF ResumeWrite, RowsOK, NoCapabilityAtRest, TerminalEndsTheTurn, Terminal
  <2>4. QED
    BY <1>5, <2>1, <2>3, ThreadsUnchanged, RunnerUnchanged DEF ResumeWrite
<1>6. CASE SetRuntime
  <2>1. budget' \in [Kinds -> Nat]
    BY <1>6, SpendKeeps DEF SetRuntime, OthersOK, Kinds
  <2>2. OthersOK'
    BY <1>6, <2>1 DEF SetRuntime, OthersOK, consVars
  <2>3. job' \in JobRow /\ job'.status = job.status
    BY <1>1, <1>6 DEF SetRuntime, JobRow
  <2>4. QED
    BY <1>6, <2>2, <2>3, FrameKeepsRows, ThreadsUnchanged, RunnerUnchanged DEF SetRuntime
<1>7. QED
  BY <1>2, <1>3, <1>4, <1>5, <1>6 DEF OperatorStep

\* The passing of the timeout leaves the status alone.
LEMMA AgeKeeps ==
    ASSUME IInv, Age
    PROVE  IInv'
<1> USE DEF IInv
<1>1. job' \in JobRow /\ job'.status = job.status
  BY DEF Age, RowsOK, JobRow
<1>2. QED
  BY <1>1, FrameKeepsRows, ThreadsUnchanged, RunnerUnchanged, OthersUnchanged DEF Age

-----------------------------------------------------------------------------
(* Theorems *)

\* The invariant holds of the published job.
LEMMA InitIInv == Init => IInv
<1> SUFFICES ASSUME Init PROVE IInv
  OBVIOUS
<1>1. execs \in Seq(Execution) /\ outbox \in Seq(Event) /\ Len(execs) = 0
  BY DEF Init
<1>2. RowsOK
  BY <1>1 DEF Init, RowsOK, JobRow, Statuses, Open, Terminal, NoCapabilityAtRest,
              TerminalEndsTheTurn, None
<1>3. ThreadsOK
  BY <1>1, IdleIsAThread DEF Init, ThreadsOK
<1>4. RunnerOK /\ OthersOK
  BY BoundsAssumption DEF Init, RunnerOK, OthersOK, None
<1>5. QED
  BY <1>2, <1>3, <1>4 DEF IInv

\* ... and every step keeps it.
LEMMA NextIInv == IInv /\ [Next]_vars => IInv'
<1> SUFFICES ASSUME IInv, [Next]_vars PROVE IInv'
  OBVIOUS
<1>1. CASE UNCHANGED vars
  BY <1>1, RowsUnchanged, ThreadsUnchanged, RunnerUnchanged, OthersUnchanged
     DEF IInv, vars, dbVars
<1>2. CASE Next
  BY <1>2, WorkerStepKeeps, ConsumerStepKeeps, RunnerStepKeeps, OperatorStepKeeps, AgeKeeps
     DEF Next
<1>3. QED
  BY <1>1, <1>2

\* The invariant holds of every state the specification allows.
THEOREM Invariance == Spec => []IInv
BY InitIInv, NextIInv, PTL DEF Spec

\* Every variable keeps its type: in particular a worker never holds the id of an execution
\* row that was not committed (mint_execution_id), and no write of the row leaves its columns.
THEOREM TypeCorrect == Spec => []TypeOK
BY Invariance, WhatIInvSays, PTL

\* No capability survives a pause, a success or a death, for any number of consumers, late
\* finalizers, recoveries and commands (_issue_run_capabilities, pause_job, _transition).
THEOREM RevokedAtRest == Spec => []NoCapabilityAtRest
BY Invariance, WhatIInvSays, PTL

\* The turn of a terminal job is terminal, whichever of the finalizer and the startup
\* recovery made it so (finalize_execution in the transaction of the transition).
THEOREM TurnEnds == Spec => []TerminalEndsTheTurn
BY Invariance, WhatIInvSays, PTL

\* A terminal job is never taken up again: each writer of job.status names the status it
\* replaces, so nobody who read the row earlier can move it.
THEOREM TerminalForEver == Spec => TerminalStays
<1>1. IInv /\ [Next]_vars => [job.status \in Terminal => job'.status = job.status]_vars
  <2> SUFFICES ASSUME IInv, Next, job.status \in Terminal
               PROVE  job'.status = job.status
    BY DEF vars
  <2>1. /\ job \in JobRow
        /\ job.status \notin {"TODO", "RUNNING", "PAUSED"}
    BY DEF IInv, RowsOK, Terminal
  <2>2. ASSUME NEW how, NEW exec, NEW attempt, NEW seen, NEW fresh,
               Transition(how, exec, attempt, seen, fresh)
        PROVE  job'.status = job.status
    BY <2>1, <2>2 DEF Transition, JobRow
  <2>3. ASSUME NEW w \in Workers, WorkerStep(w) PROVE job'.status = job.status
    <3>1. CASE Claim(w)
      BY <2>1, <3>1 DEF Claim
    <3>2. CASE PidFrame(w)
      BY <2>1, <3>2 DEF PidFrame, JobRow
    <3>3. CASE SessionFrame(w)
      BY <2>1, <3>3 DEF SessionFrame, JobRow
    <3>4. CASE FinalizeWrite(w)
      BY <2>2, <3>4 DEF FinalizeWrite
    <3>5. CASE Mint(w) \/ FinalizeRead(w)
      BY <3>5 DEF Mint, FinalizeRead
    <3>6. CASE PrepareFails(w) \/ StartRun(w) \/ RunEnds(w) \/ CrashRetry(w) \/ FinalizeFault(w)
      BY <3>6 DEF PrepareFails, StartRun, RunEnds, CrashRetry, FinalizeFault, dbVars
    <3>7. QED
      BY <2>3, <3>1, <3>2, <3>3, <3>4, <3>5, <3>6 DEF WorkerStep
  <2>4. ASSUME NEW c \in Consumers, ConsumerStep(c) PROVE job'.status = job.status
    <3>1. CASE RecoverApply(c)
      BY <2>2, <3>1 DEF RecoverApply, dbVars
    <3>2. CASE RecoverScan(c) \/ Shutdown(c) \/ Drained(c) \/ Crash(c)
      BY <3>2 DEF RecoverScan, Shutdown, Drained, Crash, dbVars
    <3>3. QED
      BY <2>4, <3>1, <3>2 DEF ConsumerStep
  <2>5. CASE RunnerStep
    BY <2>5 DEF RunnerStep, RunKilled, RunnerRestart, RunnerSilent, RunnerAnswers, dbVars
  <2>6. CASE OperatorStep
    <3>1. CASE Pause
      BY <2>1, <3>1 DEF Pause
    <3>2. CASE PauseSignal \/ ResumeRead
      BY <3>2 DEF PauseSignal, ResumeRead, dbVars
    <3>3. CASE ResumeWrite
      BY <2>1, <3>3 DEF ResumeWrite
    <3>4. CASE SetRuntime
      BY <2>1, <3>4 DEF SetRuntime
    <3>5. QED
      BY <2>6, <3>1, <3>2, <3>3, <3>4 DEF OperatorStep
  <2>7. CASE Age
    BY <2>1, <2>7 DEF Age
  <2>8. QED
    BY <2>3, <2>4, <2>5, <2>6, <2>7 DEF Next
<1>2. QED
  BY <1>1, Invariance, PTL DEF Spec, TerminalStays
=============================================================================
