----------------------------- MODULE ThreadLine -----------------------------
(***************************************************************************)
(* The turns of one thread: the claim of a due job under the thread lock,  *)
(* the line rule that makes a turn wait for an earlier open one, the       *)
(* ordering observer of the conversations, the defer stretches that record *)
(* the waiting, and the session each turn continues.                       *)
(*                                                                         *)
(* The jobs are the ids of one thread, in the order the database gives     *)
(* them.  A job that a claim detaches moves to a thread of its own.  Time  *)
(* is abstracted to the seconds a row has still to wait when it is written *)
(* and to the moment its scheduled_after passes.                           *)
(***************************************************************************)
EXTENDS Integers, FiniteSets

CONSTANTS
    Jobs,           \* job ids, a set of positive numbers
    Depth,          \* job.depth
    LineId,         \* job.line_id, or None
    Priority,       \* job.priority
    MsgRank,        \* order of the message a conversation job answers; 0: another job
    Detachable,     \* jobs whose thread is not their default one
    Consumers,      \* processes that claim
    Delays,         \* what an observer may ask for, in ms
    LateSession,    \* whether a session may still be filed after a pause
    MaxRetries, MaxPauses, MaxFaults    \* bounds

None == 0

ASSUME JobsAssumption ==
    /\ Jobs \subseteq Nat \ {0}
    /\ Depth \in [Jobs -> Nat]
    /\ LineId \in [Jobs -> Nat]
    /\ Priority \in [Jobs -> Int]
    /\ MsgRank \in [Jobs -> Nat]
    /\ Detachable \subseteq Jobs
\* A line_id names the first turn of a line below depth 0 (subagent/src/observers.py).
ASSUME LinesAssumption ==
    \A i \in Jobs : LineId[i] # None =>
        /\ Depth[i] > 0
        /\ LineId[i] \in Jobs => Depth[LineId[i]] > 0 /\ LineId[LineId[i]] = None
ASSUME DelaysAssumption ==
    /\ Delays \subseteq Int
    /\ LateSession \in BOOLEAN
ASSUME LineBoundsAssumption ==
    /\ MaxRetries \in Nat
    /\ MaxPauses \in Nat
    /\ MaxFaults \in Nat

VARIABLES
    job,        \* the job rows
    stretch,    \* the open defer stretch of each job
    claim,      \* the claim transaction of each consumer
    lock,       \* who holds the thread row
    clock,      \* finished_at of the turn that finished last
    left        \* what is left of the bounds

vars == <<job, stretch, claim, lock, clock, left>>

-----------------------------------------------------------------------------
(* Delays: framework/defer.py and threads.line_defer_ms *)

DeferFloorMs   == 250
DeferCeilingMs == 30000
LineDeferMs    == 1000
LineDeferMaxMs == 5000
CountCap       == 4     \* bound: the line delay does not change past this count

ClampDelay(ms) ==
    IF ms < DeferFloorMs THEN DeferFloorMs
    ELSE IF ms > DeferCeilingMs THEN DeferCeilingMs ELSE ms

\* Whole seconds, rounded up: scheduled_after has no fractions.
DeferSeconds(ms) == -((-ClampDelay(ms)) \div 1000)

\* The delay of the n-th deferral in a row behind the line: doubled, up to a maximum.
LineDelay(n) ==
    LET doubled == IF n <= 1 THEN LineDeferMs
                   ELSE IF n = 2 THEN 2 * LineDeferMs
                   ELSE IF n = 3 THEN 4 * LineDeferMs ELSE 8 * LineDeferMs
    IN  IF doubled < LineDeferMaxMs THEN doubled ELSE LineDeferMaxMs

-----------------------------------------------------------------------------
(* Lines *)

Statuses == {"absent", "TODO", "RUNNING", "PAUSED", "DONE"}

MaxWait == DeferCeilingMs \div 1000

\* wait: seconds to scheduled_after as last written, 0 once it has passed.
Row == [status : Statuses, started : BOOLEAN, sess : BOOLEAN, wait : 0..MaxWait,
        fin : Nat, resume : Jobs \cup {None}, moved : BOOLEAN]

Stretch == [open : BOOLEAN, line : BOOLEAN, count : 0..CountCap]

NoClaim == [pc |-> "idle", job |-> None, defer |-> FALSE, detach |-> FALSE,
            blocked |-> FALSE]

\* One type invariant for the module.
TypeOK ==
    /\ job \in [Jobs -> Row]
    /\ stretch \in [Jobs -> Stretch]
    /\ claim \in [Consumers ->
         [pc : {"idle", "picked", "locked"}, job : Jobs \cup {None}, defer : BOOLEAN,
          detach : BOOLEAN, blocked : BOOLEAN]]
    /\ lock \in Jobs \cup {None}
    /\ clock \in Nat
    /\ left \in [retry : Nat, pause : Nat, fault : Nat]

\* line_key: None names the depth-0 line of the thread.
LineKey(i) == IF Depth[i] = 0 THEN None ELSE IF LineId[i] # None THEN LineId[i] ELSE i

\* _line_where, for another row of the thread.
InLineOf(j, i) ==
    /\ j # i
    /\ ~job[i].moved /\ ~job[j].moved
    /\ IF LineKey(i) = None THEN Depth[j] = 0
       ELSE j = LineKey(i) \/ LineId[j] = LineKey(i)

Due(j) == job[j].wait = 0

Terminal(j) == job[j].status = "DONE"

\* A turn that has started and is not over holds its line.
HoldsLine(j) ==
    \/ job[j].status = "RUNNING"
    \/ job[j].status = "PAUSED" /\ job[j].sess
    \/ job[j].status = "TODO" /\ job[j].started

\* Faulty: a wait that an observer ordered keeps the place in the line too.
GoesFirstAnyWait(j, i) ==
    \/ job[j].status = "RUNNING"
    \/ job[j].status = "PAUSED" /\ job[j].sess
    \/ /\ job[j].status = "TODO"
       /\ IF job[i].started THEN job[j].started /\ j < i
          ELSE job[j].started \/ (j < i /\ (Due(j) \/ stretch[j].open))

\* Faulty: started turns go by id, like the others.
GoesFirstById(j, i) ==
    \/ job[j].status = "RUNNING"
    \/ job[j].status = "PAUSED" /\ job[j].sess
    \/ job[j].status = "TODO" /\ j < i /\ (Due(j) \/ (stretch[j].open /\ stretch[j].line))

\* The condition of line_blocked on one other turn j of the line of i.
GoesFirst(j, i) ==
    \/ job[j].status = "RUNNING"
    \/ job[j].status = "PAUSED" /\ job[j].sess
    \/ /\ job[j].status = "TODO"
       /\ IF job[i].started THEN job[j].started /\ j < i
          ELSE job[j].started
               \/ (j < i /\ (Due(j) \/ (stretch[j].open /\ stretch[j].line)))

LineBlocked(i) == \E j \in Jobs : InLineOf(j, i) /\ GoesFirst(j, i)

\* Faulty: the highest id with a session, not the turn that finished last.
ResolveResumeById(i) ==
    LET ended == {j \in Jobs : InLineOf(j, i) /\ Terminal(j) /\ job[j].sess}
    IN  IF ended = {} THEN None ELSE CHOOSE j \in ended : \A k \in ended : k <= j

\* resolve_resume: the turn of the line that finished last and has a session.
ResolveResume(i) ==
    LET ended == {j \in Jobs : InLineOf(j, i) /\ Terminal(j) /\ job[j].sess}
    IN  IF ended = {} THEN None
        ELSE CHOOSE j \in ended : \A k \in ended : job[k].fin <= job[j].fin

\* ConversationOrderingObserver: an earlier message of the conversation is unfinished.
ObserverDefers(i) ==
    /\ MsgRank[i] # 0
    /\ \E j \in Jobs : MsgRank[j] # 0 /\ MsgRank[j] < MsgRank[i] /\ ~Terminal(j)

-----------------------------------------------------------------------------
Init ==
    /\ job = [i \in Jobs |-> [status |-> "absent", started |-> FALSE, sess |-> FALSE,
                              wait |-> 0, fin |-> 0, resume |-> None, moved |-> FALSE]]
    /\ stretch = [i \in Jobs |-> [open |-> FALSE, line |-> FALSE, count |-> 0]]
    /\ claim = [c \in Consumers |-> NoClaim]
    /\ lock = None
    /\ clock = 0
    /\ left = [retry |-> MaxRetries, pause |-> MaxPauses, fault |-> MaxFaults]

RowLocked(i) == \E c \in Consumers : claim[c].job = i

\* insert_job holds the thread row until it commits, so the jobs of the thread appear in id
\* order; a follow-up may be scheduled for later.
Publish(i) ==
    /\ job[i].status = "absent"
    /\ \A j \in Jobs : j < i => job[j].status # "absent"
    /\ lock = None
    /\ \E wait \in {0, 1} : job' = [job EXCEPT ![i].status = "TODO", ![i].wait = wait]
    /\ UNCHANGED <<stretch, claim, lock, clock, left>>

\* scheduled_after passes, for one row or for several in the same second.
ComesDue(rows) ==
    /\ rows # {}
    /\ \A i \in rows : job[i].status = "TODO" /\ ~Due(i) /\ ~RowLocked(i)
    /\ job' = [i \in Jobs |-> IF i \in rows THEN [job[i] EXCEPT !.wait = 0] ELSE job[i]]
    /\ UNCHANGED <<stretch, claim, lock, clock, left>>

\* DEQUEUE_SQL: ORDER BY priority DESC, created_at ASC ... FOR UPDATE SKIP LOCKED.
Offered(i) ==
    LET ready(j) == job[j].status = "TODO" /\ Due(j) /\ ~RowLocked(j)
    IN  /\ ready(i)
        /\ \A j \in Jobs : ready(j) => \/ Priority[j] < Priority[i]
                                       \/ Priority[j] = Priority[i] /\ i <= j

\* The first part of _try_dequeue: the row is locked, the job_claim_before observers
\* decide, and place_claim moves a detached job, in the open transaction.  An observer
\* that fails has not decided "yes".
Pick(c, i) ==
    /\ claim[c].pc = "idle"
    /\ Offered(i)
    /\ \E detach \in IF i \in Detachable /\ ~job[i].moved THEN BOOLEAN ELSE {FALSE},
          fails \in IF left.fault > 0 THEN BOOLEAN ELSE {FALSE} :
         /\ claim' = [claim EXCEPT ![c] =
                [NoClaim EXCEPT !.pc = "picked", !.job = i, !.detach = detach,
                                !.defer = fails \/ ObserverDefers(i)]]
         /\ left' = IF fails THEN [left EXCEPT !.fault = @ - 1] ELSE left
    /\ UNCHANGED <<job, stretch, lock, clock>>

\* A detached job is in a thread nobody else uses.
Moved(c) == claim[c].detach \/ job[claim[c].job].moved

\* lock_thread, then line_blocked reads the line.
LockThread(c) ==
    LET i == claim[c].job IN
    /\ claim[c].pc = "picked"
    /\ \/ Moved(c) /\ UNCHANGED lock
       \/ ~Moved(c) /\ lock = None /\ lock' = i
    /\ claim' = [claim EXCEPT ![c].pc = "locked", ![c].blocked = ~Moved(c) /\ LineBlocked(i)]
    /\ UNCHANGED <<job, stretch, clock, left>>

Unlock(i) == lock' = IF lock = i THEN None ELSE lock

\* The row with what place_claim wrote to it.
Placed(c) ==
    LET row == job[claim[c].job] IN
    IF claim[c].detach THEN [row EXCEPT !.moved = TRUE, !.sess = FALSE] ELSE row

\* The claim that defers: open_or_bump_stretch and the new scheduled_after, one commit.
Defer(c) ==
    LET i == claim[c].job
        byLine == ~claim[c].defer
        count == IF stretch[i].count < CountCap THEN stretch[i].count + 1 ELSE CountCap
    IN
    /\ claim[c].pc = "locked"
    /\ claim[c].defer \/ claim[c].blocked
    /\ stretch' = [stretch EXCEPT ![i].open = TRUE, ![i].line = byLine, ![i].count = count]
    /\ \E ms \in IF byLine THEN {LineDelay(count)} ELSE Delays :
         job' = [job EXCEPT ![i] = [Placed(c) EXCEPT !.wait = DeferSeconds(ms)]]
    /\ claim' = [claim EXCEPT ![c] = NoClaim]
    /\ Unlock(i)
    /\ UNCHANGED <<clock, left>>

\* close_stretch: the stretch is over; the next deferral opens a new one.
CloseStretch(s) == [s EXCEPT !.open = FALSE, !.line = FALSE, !.count = 0]

\* The claim that runs: resolve_resume, unless an observer asked for a fresh session, then
\* CLAIM_SQL and close_stretch, one commit.
Start(c) ==
    LET i == claim[c].job IN
    /\ claim[c].pc = "locked"
    /\ ~claim[c].defer /\ ~claim[c].blocked
    /\ \E fresh \in BOOLEAN :
         job' = [job EXCEPT ![i] =
             [Placed(c) EXCEPT !.status = "RUNNING", !.started = TRUE,
                 !.resume = IF fresh \/ Moved(c) THEN None ELSE ResolveResume(i)]]
    /\ stretch' = [stretch EXCEPT ![i] = CloseStretch(@)]
    /\ claim' = [claim EXCEPT ![c] = NoClaim]
    /\ Unlock(i)
    /\ UNCHANGED <<clock, left>>

\* A claim transaction that fails, or whose consumer dies, rolls back, the detach with it.
Rollback(c) ==
    /\ claim[c].pc # "idle"
    /\ left.fault > 0
    /\ left' = [left EXCEPT !.fault = @ - 1]
    /\ claim' = [claim EXCEPT ![c] = NoClaim]
    /\ Unlock(claim[c].job)
    /\ UNCHANGED <<job, stretch, clock>>

-----------------------------------------------------------------------------
(* What happens to a started turn: JobLifecycle has the details *)

SaveSession(i) ==
    /\ \/ job[i].status = "RUNNING"
       \/ LateSession /\ job[i].status = "PAUSED"
    /\ ~job[i].sess
    /\ job' = [job EXCEPT ![i].sess = TRUE]
    /\ UNCHANGED <<stretch, claim, lock, clock, left>>

\* A terminal transition: finished_at = NOW(6).
Finish(i) ==
    /\ job[i].status = "RUNNING"
    /\ clock' = clock + 1
    /\ job' = [job EXCEPT ![i].status = "DONE", ![i].fin = clock + 1]
    /\ UNCHANGED <<stretch, claim, lock, left>>

\* A retry or a pool wait; a fresh-start verdict drops the session.
Retry(i) ==
    /\ job[i].status = "RUNNING"
    /\ left.retry > 0
    /\ left' = [left EXCEPT !.retry = @ - 1]
    /\ \E fresh \in BOOLEAN :
         job' = [job EXCEPT ![i].status = "TODO", ![i].wait = 1, ![i].sess = @ /\ ~fresh]
    /\ UNCHANGED <<stretch, claim, lock, clock>>

Pause(i) ==
    /\ job[i].status = "RUNNING"
    /\ left.pause > 0
    /\ left' = [left EXCEPT !.pause = @ - 1]
    /\ job' = [job EXCEPT ![i].status = "PAUSED"]
    /\ UNCHANGED <<stretch, claim, lock, clock>>

Resume(i) ==
    /\ job[i].status = "PAUSED"
    /\ job[i].sess
    /\ job' = [job EXCEPT ![i].status = "TODO", ![i].wait = 0]
    /\ UNCHANGED <<stretch, claim, lock, clock, left>>

ClaimStep(c) ==
    \/ \E i \in Jobs : Pick(c, i)
    \/ LockThread(c) \/ Defer(c) \/ Start(c) \/ Rollback(c)

TurnStep(i) ==
    \/ Publish(i) \/ SaveSession(i) \/ Finish(i) \/ Retry(i) \/ Pause(i) \/ Resume(i)

Turns == (\E c \in Consumers : ClaimStep(c)) \/ (\E i \in Jobs : TurnStep(i))

Next == Turns \/ \E rows \in SUBSET Jobs : ComesDue(rows)

Spec == Init /\ [][Next]_vars

\* A deferral lasts a second or more, a claim takes milliseconds, and a consumer that
\* deferred one job asks for the next at once: when a row comes due, every row that was
\* due before has been offered and its claim is over.
Punctual ==
    /\ \A c \in Consumers : claim[c].pc = "idle"
    /\ \A i \in Jobs : ~Offered(i)

PunctualNext == Turns \/ (Punctual /\ \E rows \in SUBSET Jobs : ComesDue(rows))

\* The publishers and the consumers' loops go on, time passes, runs end, a paused job that
\* can be resumed is resumed, and the database grants a lock to those who wait for it.
Fairness ==
    /\ SF_vars(\E i \in Jobs : Publish(i))
    /\ WF_vars(\E i \in Jobs : Finish(i) \/ Resume(i))
    /\ \A i \in Jobs :
          SF_vars(Punctual /\ \E rows \in SUBSET Jobs : i \in rows /\ ComesDue(rows))
    /\ \A c \in Consumers :
         /\ WF_vars(\E i \in Jobs : Pick(c, i))
         /\ SF_vars(LockThread(c))
         /\ WF_vars(Defer(c) \/ Start(c))

FairSpec == Init /\ [][PunctualNext]_vars /\ Fairness

-----------------------------------------------------------------------------
(* Properties *)

\* One open turn per line: of two turns of a line at most one has started and is not over,
\* whichever consumers claim them, so a turn never runs beside another (line_blocked).
OneStartedTurn ==
    \A i, j \in Jobs : InLineOf(j, i) => ~(HoldsLine(i) /\ HoldsLine(j))

\* A session never forks: two turns of a line that both have a session did not continue
\* the same earlier turn (resolve_resume).
SessionNeverForks ==
    \A i, j \in Jobs :
        InLineOf(j, i) /\ job[i].resume # None /\ job[i].sess /\ job[j].sess
            => job[i].resume # job[j].resume

\* A paused turn with no session: nothing can resume it.
Stuck(i) == job[i].status = "PAUSED" /\ ~job[i].sess

\* Every published turn is over in the end, unless it is stuck or its conversation waits for one
\* that is: the line rule and the ordering observer of the conversations never wait for each
\* other, although one goes by job id and the other by message id (line_wait).
EveryTurnEnds ==
    \A i \in Jobs :
        job[i].status # "absent" ~>
           (\/ Terminal(i) \/ Stuck(i)
            \/ MsgRank[i] # 0 /\ \E j \in Jobs : MsgRank[j] \in 1..MsgRank[i] /\ Stuck(j))
=============================================================================
