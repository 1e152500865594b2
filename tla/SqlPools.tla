------------------------------ MODULE SqlPools ------------------------------
(* The SQL pools of the toolbox.  A call of a SQL tool waits for a slot of  *)
(* the database server, takes the pool of its configuration, runs, leaves   *)
(* the pool, gives the slot back and, when the pool turned out unhealthy,   *)
(* retires it.  Pools close when idle; a failed close is tried again.  One  *)
(* server; the continuations of a promise (Enter, Blame) run before any     *)
(* other event of the process.                                              *)
EXTENDS Naturals, Sequences, FiniteSets, SequencesExt

CONSTANTS
    Uses,         \* calls of SQL tools
    Checks,       \* those of a health check: they carry a signal that may be aborted already
    HandleOf,     \* HandleOf[u]: the handle it goes through, one for each session and tool
    Retiring,     \* the handles of mssql tools, which retire an unhealthy pool; mysql ones do not
    KeyOf,        \* KeyOf[h]: the pool key of a handle (adapter, tool, configuration)
    BudgetOf,     \* BudgetOf[h]: the server concurrency budget its session resolved
    QueueLimit, MaxCloseAttempts,
    PoolBudgets   \* bounds: failures, cancelled waits, timers, shutdowns

ASSUME UsesAssumption == IsFiniteSet(Uses)

\* positiveInteger: a session's budget is at least one.
ASSUME BudgetOfAssumption == \A u \in Uses : BudgetOf[HandleOf[u]] \in Nat \ {0}

VARIABLES
    limiter,      \* [limit: 0 when there is none, active, queue]
    use,          \* [at, pool]
    pool,         \* the pools made so far
    current,      \* current[h]: the pool handle h took last, 0 for none
    shut,         \* SIGTERM came
    poolsLeft

poolVars == <<limiter, use, pool, current, shut, poolsLeft>>

Handles   == {HandleOf[u] : u \in Uses}
NoLimiter == [limit |-> 0, active |-> 0, queue |-> <<>>]
NewPool(key) == [key |-> key, state |-> "creating", active |-> 1, listed |-> TRUE, invalid |-> FALSE,
                 idle |-> FALSE, closing |-> FALSE, retry |-> FALSE, attempts |-> 0,
                 abandoned |-> FALSE, healthy |-> TRUE, reported |-> FALSE]

Fails(kind) == poolsLeft[kind] > 0 /\ poolsLeft' = [poolsLeft EXCEPT ![kind] = @ - 1]
NoFail     == UNCHANGED poolsLeft
UseGoes(u, at, p) == use' = [use EXCEPT ![u] = [at |-> at, pool |-> p]]

\* No continuation is due: a request, a timer, an answer of the database may come.
Settled == \A u \in Uses : use[u].at \notin {"granted", "failed"}

SqlInit ==
    /\ limiter = NoLimiter
    /\ use = [u \in Uses |-> [at |-> "new", pool |-> 0]]
    /\ pool = <<>>
    /\ current = [h \in Handles |-> 0]
    /\ shut = FALSE
    /\ poolsLeft \in PoolBudgets
-----------------------------------------------------------------------------
\* The limiter: the lowest budget that met it, while it lives.
Dropped(l) == IF l.active = 0 /\ l.queue = <<>> THEN NoLimiter ELSE l

Acquire(u) ==
    LET b == BudgetOf[HandleOf[u]]
        l == [limiter EXCEPT !.limit = IF @ = 0 \/ b < @ THEN b ELSE @]
    IN  /\ Settled /\ use[u].at = "new"
        /\ \/ l.active < l.limit /\ limiter' = [l EXCEPT !.active = @ + 1] /\ UseGoes(u, "granted", 0)
           \/ l.active >= l.limit /\ Len(l.queue) < QueueLimit
              /\ limiter' = [l EXCEPT !.queue = Append(@, u)] /\ UseGoes(u, "queued", 0)
           \/ l.active >= l.limit /\ (Len(l.queue) >= QueueLimit \/ u \in Checks) /\ limiter' = l /\ UseGoes(u, "ended", 0)
        /\ NoFail /\ UNCHANGED <<pool, current, shut>>

IndexOf(q, u) == CHOOSE i \in DOMAIN q : q[i] = u
Leaving(l, u) == Dropped([l EXCEPT !.queue = RemoveAt(@, IndexOf(@, u))])

Cancel(u) ==
    /\ Settled /\ use[u].at = "queued" /\ Fails("cancel")
    /\ limiter' = Leaving(limiter, u)
    /\ UseGoes(u, "ended", 0) /\ UNCHANGED <<pool, current, shut>>

\* A slot comes back: while there is room, the first that waits gets one.
Room(l) == IF l.limit > l.active - 1 THEN l.limit - (l.active - 1) ELSE 0
GrantedTo(l) == {l.queue[i] : i \in 1..(IF Len(l.queue) < Room(l) THEN Len(l.queue) ELSE Room(l))}
Released(l) ==
    LET n == Cardinality(GrantedTo(l))
    IN  Dropped([l EXCEPT !.active = @ - 1 + n, !.queue = SubSeq(@, n + 1, Len(@))])
-----------------------------------------------------------------------------
\* The pools: the one listed under a key.
ListedUnder(key) == {p \in DOMAIN pool : pool[p].listed /\ pool[p].key = key}

\* getEntry: what the handle remembers counts only while it is listed.
MayReuse(h) == current[h] # 0 /\ pool[current[h]].listed

Enter(u) ==
    LET h == HandleOf[u]
        found == IF MayReuse(h) THEN {current[h]} ELSE ListedUnder(KeyOf[h])
        p == IF found = {} THEN Len(pool) + 1 ELSE CHOOSE e \in found : TRUE
    IN  /\ use[u].at = "granted"
        /\ pool' = IF found = {} THEN Append(pool, NewPool(KeyOf[h]))
                   ELSE [pool EXCEPT ![p].active = @ + 1, ![p].idle = FALSE]
        /\ current' = [current EXCEPT ![h] = p]
        /\ UseGoes(u, "in", p) /\ NoFail /\ UNCHANGED <<limiter, shut>>

Opened(p) ==
    /\ Settled /\ pool[p].state = "creating"
    /\ pool' = [pool EXCEPT ![p].state = "open"]
    /\ NoFail /\ UNCHANGED <<limiter, use, current, shut>>

OpenFails(p) ==
    /\ Settled /\ pool[p].state = "creating" /\ Fails("open")
    /\ pool' = [pool EXCEPT ![p].state = "failed", ![p].listed = FALSE]
    /\ UNCHANGED <<limiter, use, current, shut>>

\* The database goes away under an open pool.
Breaks(p) ==
    /\ Settled /\ pool[p].state = "open" /\ pool[p].healthy /\ Fails("break")
    /\ pool' = [pool EXCEPT ![p].healthy = FALSE]
    /\ UNCHANGED <<limiter, use, current, shut>>

\* closeEntry, unless it is closing or closed already: off the list, no timer, an attempt.
CloseStarts(e) == IF e.closing \/ e.state = "closed" THEN e
                  ELSE [e EXCEPT !.closing = TRUE, !.idle = FALSE, !.retry = FALSE, !.listed = FALSE,
                                 !.attempts = @ + 1]

\* scheduleIdleClose, as the last of its users left.
StaysUnlisted(e) ==
    IF e.active > 0 \/ e.closing \/ e.state \in {"closed", "failed"} \/ ~e.listed THEN e ELSE [e EXCEPT !.idle = TRUE]
LeftBy(e) ==
    IF e.active > 0 \/ e.closing \/ e.state \in {"closed", "failed"} THEN e
    ELSE IF e.invalid \/ ~e.listed THEN CloseStarts(e)
    ELSE [e EXCEPT !.idle = TRUE]

\* The call settles: it leaves the pool, its slot goes on; one that failed under an unhealthy pool
\* has still to retire it.
Leave(u) ==
    LET p == use[u].pool
        unwell == pool[p].state = "closed" \/ (pool[p].state = "open" /\ (pool[p].closing \/ ~pool[p].healthy))
    IN  /\ Settled /\ use[u].at = "in" /\ pool[p].state # "creating"
        /\ pool' = [pool EXCEPT ![p] = LeftBy([pool[p] EXCEPT !.active = @ - 1])]
        /\ limiter' = Released(limiter)
        /\ \E next \in {"ended", "failed"} :
               /\ next = "failed" => unwell /\ HandleOf[u] \in Retiring
               /\ use' = [w \in Uses |-> IF w \in GrantedTo(limiter) THEN [use[w] EXCEPT !.at = "granted"]
                                         ELSE IF w = u THEN [at |-> next, pool |-> p]
                                         ELSE use[w]]
        /\ NoFail /\ UNCHANGED <<current, shut>>

\* invalidate retires what the handle took last, when that is still listed.
Retired(e) == LET off == [e EXCEPT !.invalid = TRUE, !.listed = FALSE]
              IN  IF e.active = 0 THEN CloseStarts(off) ELSE off
Blame(u) ==
    LET p == current[HandleOf[u]]
        marked == [pool EXCEPT ![use[u].pool].reported = TRUE]
    IN  /\ use[u].at = "failed"
        /\ pool' = IF marked[p].listed THEN [marked EXCEPT ![p] = Retired(@)] ELSE marked
        /\ UseGoes(u, "ended", use[u].pool) /\ NoFail /\ UNCHANGED <<limiter, current, shut>>

IdleTimer(p) ==
    /\ Settled /\ pool[p].idle /\ Fails("timer")
    /\ pool' = [pool EXCEPT ![p] = IF @.active = 0 THEN CloseStarts(@) ELSE [@ EXCEPT !.idle = FALSE]]
    /\ UNCHANGED <<limiter, use, current, shut>>

RetryTimer(p) ==
    /\ Settled /\ pool[p].retry
    /\ pool' = [pool EXCEPT ![p] = CloseStarts(@)]
    /\ NoFail /\ UNCHANGED <<limiter, use, current, shut>>

Closed(p) ==
    /\ Settled /\ pool[p].closing /\ pool[p].state = "open"
    /\ pool' = [pool EXCEPT ![p].state = "closed", ![p].closing = FALSE, ![p].retry = FALSE]
    /\ NoFail /\ UNCHANGED <<limiter, use, current, shut>>

\* trackCloseFailure: an earlier failed close of the same key is given up; so is this one, after
\* MaxCloseAttempts; or a timer tries it again.
GivenUp(e) == [e EXCEPT !.abandoned = TRUE, !.retry = FALSE]
FailedBefore(e) == ~e.abandoned /\ (e.retry \/ (e.closing /\ e.attempts > 1))
CloseFails(p) ==
    LET e == pool[p]
    IN  /\ Settled /\ e.closing
        /\ \/ e.state = "open" /\ Fails("close")
           \/ e.state = "failed" /\ NoFail
        /\ pool' = [q \in DOMAIN pool |->
               IF q = p THEN IF e.abandoned THEN [e EXCEPT !.closing = FALSE]
                             ELSE IF e.attempts >= MaxCloseAttempts THEN GivenUp([e EXCEPT !.closing = FALSE])
                             ELSE [e EXCEPT !.closing = FALSE, !.retry = TRUE]
               ELSE IF FailedBefore(pool[q]) /\ pool[q].key = e.key /\ ~e.abandoned THEN GivenUp(pool[q])
               ELSE pool[q]]
        /\ UNCHANGED <<limiter, use, current, shut>>

\* SIGTERM: every pool the registry knows of; requests still arrive until the process exits.
Known(e) == ~e.abandoned /\ e.state \in {"creating", "open"}
CloseAll ==
    /\ Settled /\ Fails("shut")
    /\ pool' = [p \in DOMAIN pool |-> IF Known(pool[p]) THEN CloseStarts(pool[p]) ELSE pool[p]]
    /\ shut' = TRUE
    /\ UNCHANGED <<limiter, use, current>>

SqlNext ==
    \/ \E u \in Uses : Acquire(u) \/ Cancel(u) \/ Enter(u) \/ Leave(u) \/ Blame(u)
    \/ \E p \in DOMAIN pool : Opened(p) \/ OpenFails(p) \/ Breaks(p) \/ IdleTimer(p) \/ RetryTimer(p)
                                \/ Closed(p) \/ CloseFails(p)
    \/ CloseAll

SqlSpec == SqlInit /\ [][SqlNext]_poolVars
-----------------------------------------------------------------------------
\* The limiter's count is that of the calls that hold a slot, a call waits in its queue exactly once,
\* and nobody waits while there is room: a slot lost or a waiter left behind by a timeout, an abort
\* or a lower budget would starve the server's callers for the life of the process.
SlotsAccounted ==
    /\ limiter.active = Cardinality({u \in Uses : use[u].at \in {"granted", "in"}})
    /\ \A u \in Uses : Cardinality({i \in DOMAIN limiter.queue : limiter.queue[i] = u})
                         = IF use[u].at = "queued" THEN 1 ELSE 0
    /\ limiter.queue # <<>> => limiter.active >= limiter.limit

\* No pool is closed under a call that uses it, except when the process goes down, nobody is let into
\* a pool that a failed call reported, and an open pool nobody uses is on its way out: its idle timer
\* runs, or it closes, or a failed close is due again, or the registry gave it up and said so --
\* whatever handles, idle timers and retries remember.
PoolLife ==
    \A p \in DOMAIN pool :
        /\ pool[p].active = Cardinality({u \in Uses : use[u].at = "in" /\ use[u].pool = p})
        /\ pool[p].active > 0 /\ ~shut => ~pool[p].closing /\ pool[p].state # "closed"
        /\ pool[p].reported => ~pool[p].listed
        /\ Settled /\ pool[p].state = "open" /\ pool[p].active = 0 =>
               pool[p].idle \/ pool[p].closing \/ pool[p].retry \/ pool[p].abandoned

\* Both: the limiter of a server and the registry of its pools account for every call
\* (toolbox/adapters/limiter and sql-pool-registry.js).
PoolsAccounted == SlotsAccounted /\ PoolLife
=============================================================================
