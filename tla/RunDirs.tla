------------------------------ MODULE RunDirs ------------------------------
(***************************************************************************)
(* What a run leaves on disk: its run dir, the session it copies out of    *)
(* and back into the agent_view's state/, the dir its thread shares, and   *)
(* the nightly artifacts:prune (run_preparation.py, persistent_home.py,    *)
(* artifacts_dir.py, artifacts_retention.py).  All jobs are turns of one   *)
(* thread and of one session; a file is its mtime, and the clock moves     *)
(* with every write.                                                       *)
(***************************************************************************)
EXTENDS Integers

CONSTANTS
    Turns,        \* jobs of the thread, by id
    DirBudgets    \* bounds on crashes, retries, deleted rows, errors, prunes, time

NoTurn == 0

VARIABLES
    turn,         \* each job: its status, whether finished_at is past the cutoff, its row
    runDir,       \* each run dir: whether it is there and its session file's mtime, 0 for none
    saved,        \* the mtime of the session in state/, 0 when there is none
    threadDir,    \* whether _threads/<key> is there
    runner,       \* the step of each job's worker
    pruner,       \* the step of artifacts:prune and the rows it listed and locked
    clock,
    dirLeft

dirVars == <<turn, runDir, saved, threadDir, runner, pruner, clock, dirLeft>>

NoDir == [there |-> FALSE, mtime |-> 0]
NotPruning == [pc |-> "off", listed |-> {}, rowless |-> {}, row |-> NoTurn, thread |-> FALSE]

DirInit ==
    /\ turn = [j \in Turns |-> [status |-> "none", old |-> FALSE, row |-> TRUE]]
    /\ runDir = [j \in Turns |-> NoDir]
    /\ saved = 0
    /\ threadDir = FALSE
    /\ runner = [j \in Turns |-> "idle"]
    /\ pruner = NotPruning
    /\ clock = 0
    /\ dirLeft \in DirBudgets

PaysFor(k) == dirLeft[k] > 0 /\ dirLeft' = [dirLeft EXCEPT ![k] = @ - 1]

Open(j) == turn[j].status \in {"todo", "running"}
Unlocked(j) == pruner.row # j
ThreadUnlocked == ~pruner.thread
RunnerTo(j, pc) == runner' = [runner EXCEPT ![j] = pc]

-----------------------------------------------------------------------------
(* A job and its run *)

\* ensure_thread or join_thread locks the thread row of the new job.
JoinThread(j) ==
    /\ turn[j].status = "none" /\ ThreadUnlocked
    /\ \A i \in Turns : i < j => turn[i].status # "none"
    /\ turn' = [turn EXCEPT ![j].status = "todo"]
    /\ UNCHANGED <<runDir, saved, threadDir, runner, pruner, clock, dirLeft>>

\* The claim takes the job row (SKIP LOCKED), then the thread row; one turn runs at a time.
ClaimTurn(j) ==
    /\ turn[j].status = "todo" /\ Unlocked(j) /\ ThreadUnlocked
    /\ \A i \in Turns : turn[i].status # "running"
    /\ turn' = [turn EXCEPT ![j].status = "running"]
    /\ RunnerTo(j, "prepare")
    /\ UNCHANGED <<runDir, saved, threadDir, pruner, clock, dirLeft>>

\* materialize_run_workspace, the run dir: an earlier dir of the job goes, and the current
\* build is copied or linked into a new one.
CopyBuild(j) ==
    /\ runner[j] = "prepare"
    /\ runDir' = [runDir EXCEPT ![j] = [there |-> TRUE, mtime |-> 0]]
    /\ RunnerTo(j, "link")
    /\ UNCHANGED <<turn, saved, threadDir, pruner, clock, dirLeft>>

\* The thread's dir, made when it is not there, and the link to what it shares.
PrepareThreadDir(j) ==
    /\ runner[j] = "link"
    /\ threadDir' = TRUE
    /\ RunnerTo(j, "session")
    /\ UNCHANGED <<turn, runDir, saved, pruner, clock, dirLeft>>

\* copy_in_persistent_paths: copy2 keeps the mtime; a session that is not in state/ is left out.
CopyIn == saved

\* After the keys of the dir, the session to resume is copied in, as state/ has it now.
CopySession(j) ==
    /\ runner[j] = "session"
    /\ runDir' = [runDir EXCEPT ![j].mtime = CopyIn]
    /\ RunnerTo(j, "run")
    /\ UNCHANGED <<turn, saved, threadDir, pruner, clock, dirLeft>>

\* The agent appends to its session.
WriteSession(j) ==
    /\ runner[j] = "run" /\ PaysFor("write")
    /\ clock' = clock + 1
    /\ runDir' = [runDir EXCEPT ![j].mtime = clock + 1]
    /\ UNCHANGED <<turn, saved, threadDir, runner, pruner>>

\* _copy_if_newer: a file no newer than the one in state/ counts as saved.
CopyIfNewer(mtime) == mtime # 0 /\ mtime > saved

\* save_persistent_state compares the session with the one in state/ ...
SaveCompares(j) ==
    /\ runner[j] = "run"
    /\ RunnerTo(j, IF CopyIfNewer(runDir[j].mtime) THEN "copy" ELSE "drop")
    /\ UNCHANGED <<turn, runDir, saved, threadDir, pruner, clock, dirLeft>>

\* ... and replaces it; a conflict or an OSError leaves the file in the run dir.
SaveCopies(j) ==
    /\ runner[j] = "copy"
    /\ \/ /\ saved' = runDir[j].mtime
          /\ RunnerTo(j, "drop")
          /\ UNCHANGED dirLeft
       \/ /\ PaysFor("error")
          /\ RunnerTo(j, "finish")
          /\ UNCHANGED saved
    /\ UNCHANGED <<turn, runDir, threadDir, pruner, clock>>

\* drop_persistent_paths: what is in state/ does not stay in the run dir.
SaveDrops(j) ==
    /\ runner[j] = "drop"
    /\ runDir' = [runDir EXCEPT ![j].mtime = 0]
    /\ RunnerTo(j, "finish")
    /\ UNCHANGED <<turn, saved, threadDir, pruner, clock, dirLeft>>

\* The transition waits for the job row.
FinishTurn(j) ==
    /\ runner[j] = "finish" /\ Unlocked(j)
    /\ turn' = [turn EXCEPT ![j].status = "ended", ![j].old = FALSE]
    /\ RunnerTo(j, "idle")
    /\ UNCHANGED <<runDir, saved, threadDir, pruner, clock, dirLeft>>

\* The consumer dies before it has saved, or a step before the run raises; the job is tried
\* again or ends.
WorkerDies(j) ==
    /\ runner[j] \in {"prepare", "link", "session", "run", "copy", "drop"} /\ PaysFor("crash")
    /\ RunnerTo(j, "idle")
    /\ \E st \in {"todo", "ended"} : turn' = [turn EXCEPT ![j].status = st]
    /\ UNCHANGED <<runDir, saved, threadDir, pruner, clock>>

\* An operator retries an ended job: the update waits for its row.
RetryTurn(j) ==
    /\ turn[j].status = "ended" /\ turn[j].row /\ Unlocked(j) /\ PaysFor("retry")
    /\ turn' = [turn EXCEPT ![j].status = "todo"]
    /\ UNCHANGED <<runDir, saved, threadDir, runner, pruner, clock>>

\* A deletion takes the rows of ended jobs and leaves their dirs.
DeleteRow(j) ==
    /\ turn[j].status = "ended" /\ turn[j].row /\ Unlocked(j) /\ PaysFor("delete")
    /\ turn' = [turn EXCEPT ![j].row = FALSE]
    /\ UNCHANGED <<runDir, saved, threadDir, runner, pruner, clock>>

\* The days of core/artifacts/retention_days pass.
DaysPass ==
    /\ PaysFor("time")
    /\ turn' = [j \in Turns |-> [turn[j] EXCEPT !.old = @ \/ turn[j].status = "ended"]]
    /\ UNCHANGED <<runDir, saved, threadDir, runner, pruner, clock>>

-----------------------------------------------------------------------------
(* artifacts:prune, one at a time under GET_LOCK *)

\* _expired: terminal, and finished before the cutoff; with no row, the dir's own mtime.
Expired(j) == turn[j].status = "ended" /\ turn[j].old

ListRunDirs ==
    /\ pruner.pc = "off" /\ PaysFor("prune")
    /\ pruner' = [pruner EXCEPT !.pc = "runs",
                                !.listed = {j \in Turns : runDir[j].there /\ Expired(j)},
                                !.rowless = {j \in Turns : ~turn[j].row}]
    /\ UNCHANGED <<turn, runDir, saved, threadDir, runner, clock>>

\* Faulty: the row that was read with the batch decides.
LockRunRowTrusts(j) ==
    /\ pruner.pc = "runs" /\ j \in pruner.listed
    /\ pruner' = [pruner EXCEPT !.listed = @ \ {j}, !.pc = "compare", !.row = j]
    /\ UNCHANGED <<turn, runDir, saved, threadDir, runner, clock, dirLeft>>

\* FOR UPDATE OF j, and _expired again; a dir with no row has nothing to lock, and one
\* whose row went since it was listed is left for the next prune.
LockRunRow(j) ==
    /\ pruner.pc = "runs" /\ j \in pruner.listed
    /\ pruner' = IF Expired(j) /\ (turn[j].row \/ j \in pruner.rowless)
                 THEN [pruner EXCEPT !.listed = @ \ {j}, !.pc = "compare", !.row = j]
                 ELSE [pruner EXCEPT !.listed = @ \ {j}]
    /\ UNCHANGED <<turn, runDir, saved, threadDir, runner, clock, dirLeft>>

\* _save_sessions of a dir with a row: the session goes to its place in state/ when newer.
\* With no row its name decides: the same bytes count as saved, others are a conflict.
SessionsCompare ==
    LET j == pruner.row IN
    /\ pruner.pc = "compare"
    /\ pruner' = [pruner EXCEPT !.pc =
         IF turn[j].row
         THEN IF CopyIfNewer(runDir[j].mtime) THEN "copy" ELSE "remove"
         ELSE IF runDir[j].mtime \in {0, saved} THEN "remove"
              ELSE IF saved = 0 THEN "copy" ELSE "keep"]
    /\ UNCHANGED <<turn, runDir, saved, threadDir, runner, clock, dirLeft>>

\* Faulty: the dir goes although the copy failed.
SessionsCopyAnyway ==
    /\ pruner.pc = "copy"
    /\ \/ saved' = runDir[pruner.row].mtime /\ UNCHANGED dirLeft
       \/ PaysFor("error") /\ UNCHANGED saved
    /\ pruner' = [pruner EXCEPT !.pc = "remove"]
    /\ UNCHANGED <<turn, runDir, threadDir, runner, clock>>

\* A copy that fails keeps the dir.
SessionsCopy ==
    /\ pruner.pc = "copy"
    /\ \/ /\ saved' = runDir[pruner.row].mtime
          /\ pruner' = [pruner EXCEPT !.pc = "remove"]
          /\ UNCHANGED dirLeft
       \/ /\ PaysFor("error")
          /\ pruner' = [pruner EXCEPT !.pc = "keep"]
          /\ UNCHANGED saved
    /\ UNCHANGED <<turn, runDir, threadDir, runner, clock>>

\* _remove_tree, or the dir is kept (a conflict, an error, a file of another uid); the
\* rollback gives the row back.
RemoveRunDir ==
    /\ pruner.pc \in {"remove", "keep"}
    /\ runDir' = IF pruner.pc = "remove" THEN [runDir EXCEPT ![pruner.row] = NoDir] ELSE runDir
    /\ pruner' = [pruner EXCEPT !.pc = "runs", !.row = NoTurn]
    /\ UNCHANGED <<turn, saved, threadDir, runner, clock, dirLeft>>

\* prune_thread_dirs: the thread row is locked, and only then are its jobs read.
LockThreadDir ==
    /\ pruner.pc = "runs" /\ pruner.listed = {}
    /\ LET old == \A j \in Turns : turn[j].status # "none" => Expired(j) IN
       pruner' = [pruner EXCEPT !.pc = IF old /\ threadDir THEN "shared" ELSE "end",
                                !.thread = TRUE]
    /\ UNCHANGED <<turn, runDir, saved, threadDir, runner, clock, dirLeft>>

\* The tree goes and the transaction ends.
RemoveThreadDir ==
    /\ pruner.pc \in {"shared", "end"}
    /\ threadDir' = (threadDir /\ pruner.pc = "end")
    /\ pruner' = NotPruning
    /\ UNCHANGED <<turn, runDir, saved, runner, clock, dirLeft>>

-----------------------------------------------------------------------------
DirNext ==
    \/ \E j \in Turns :
         \/ JoinThread(j) \/ ClaimTurn(j) \/ CopyBuild(j) \/ PrepareThreadDir(j) \/ CopySession(j)
         \/ WriteSession(j)
         \/ SaveCompares(j) \/ SaveCopies(j) \/ SaveDrops(j) \/ FinishTurn(j)
         \/ WorkerDies(j) \/ RetryTurn(j) \/ DeleteRow(j) \/ LockRunRow(j)
    \/ DaysPass \/ ListRunDirs \/ SessionsCompare \/ SessionsCopy \/ RemoveRunDir
    \/ LockThreadDir \/ RemoveThreadDir

DirSpec == DirInit /\ [][DirNext]_dirVars

-----------------------------------------------------------------------------
(* Properties *)

\* A run has its run dir and its thread's dir from the step that makes each to its end,
\* whatever artifacts:prune listed before the job was retried or the thread got a new turn.
RunKeepsItsDirs ==
    \A j \in Turns :
        /\ runner[j] \in {"link", "session", "run", "copy", "drop", "finish"} => runDir[j].there
        /\ runner[j] \in {"session", "run", "copy", "drop", "finish"} => threadDir

\* A session that a dead consumer or a failed save left in a run dir does not go with it:
\* artifacts:prune removes a run dir only when state/ holds that session or a later one.
PruneLosesNoSession ==
    [][\A j \in Turns : runDir[j].there /\ ~runDir'[j].there => saved >= runDir[j].mtime]_dirVars

=============================================================================
