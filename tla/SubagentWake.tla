---------------------------- MODULE SubagentWake ----------------------------
(***************************************************************************)
(* The wake of a job that delegated work.  A running job starts children;  *)
(* when a row ends, an observer asks of the row and of each row above it   *)
(* whether it is due, and publishes one follow-up row that continues it.   *)
(*                                                                         *)
(* The observer runs after the commit of the end, on a connection of its   *)
(* own: the decision is one snapshot, the publish a later transaction, and *)
(* the observers of rows that end at once interleave.                      *)
(***************************************************************************)
EXTENDS Integers, Sequences

CONSTANTS
    Rows,       \* job ids, numbers from 1 (the root) in insertion order
    MaxDepth,   \* MAX_DEPTH
    WakeOn,     \* rows whose view has subagent/wake_parent
    MayDetach   \* rows that an observer may detach from their thread

ASSUME RowsAssumption == Rows \subseteq Nat \ {0} /\ MaxDepth \in Nat

VARIABLES
    task,       \* the job rows
    observer    \* per ended row: the rows still to ask, and the wake it decided on

wakeVars == <<task, observer>>

NoTask == [status |-> "none", parent |-> 0, depth |-> 0, thread |-> 0, on |-> FALSE, wakes |-> 0]

WakeInit ==
    /\ task = [r \in Rows |-> IF r = 1 THEN [NoTask EXCEPT !.status = "open", !.on = 1 \in WakeOn]
                              ELSE NoTask]
    /\ observer = [r \in Rows |-> [todo |-> <<>>, wake |-> 0]]

Exists(r) == task[r].status # "none"
NextRow(n) == ~Exists(n) /\ \A k \in Rows : k < n => Exists(k)

\* wakeable: on is the view's subagent/wake_parent.
Wakeable(r) == task[r].status = "success" /\ task[r].on

Children(r, thread) == {c \in Rows : Exists(c) /\ task[c].parent = r /\ task[c].thread = thread}

\* The levels below p that maybe_wake reads, all in one thread.
Below(p, thread) ==
    LET level[n \in 0..MaxDepth] ==
            IF n = 0 THEN {p} ELSE UNION {Children(r, thread) : r \in level[n - 1]}
    IN  UNION {level[n] : n \in 1..MaxDepth}

Woken(r) == \E w \in Rows : Exists(w) /\ task[w].wakes = r

\* Meets the first rule and has no wake row.
Pending(r, thread) == Wakeable(r) /\ Children(r, thread) # {} /\ ~Woken(r)

-----------------------------------------------------------------------------
(* The jobs *)

\* A running job delegates; the child's view decides about its own wake.
Spawn(r, n) ==
    /\ task[r].status = "open" /\ task[r].depth < MaxDepth /\ NextRow(n)
    /\ task' = [task EXCEPT ![n] = [status |-> "open", parent |-> r, depth |-> task[r].depth + 1,
                                    thread |-> task[r].thread, on |-> n \in WakeOn, wakes |-> 0]]
    /\ UNCHANGED observer

\* A job_claim_before observer gives a delegated row a thread of its own.
Detach(r) ==
    /\ r \in MayDetach /\ task[r].status = "open" /\ task[r].depth > 0 /\ task[r].thread = 0
    /\ \A c \in Rows : Exists(c) => task[c].parent # r
    /\ task' = [task EXCEPT ![r].thread = r]
    /\ UNCHANGED observer

\* _ancestors: the row and what is above it, one read for each level.
Ancestors(r) ==
    LET levels == IF task[r].depth < MaxDepth THEN task[r].depth ELSE MaxDepth
        chain[n \in 0..levels] == IF n = 0 THEN r ELSE task[chain[n - 1]].parent
    IN  [i \in 1..(levels + 1) |-> chain[i - 1]]

\* SUCCESS or DEAD, and the observer of that end.
EndTask(r) ==
    /\ task[r].status = "open"
    /\ \E s \in {"success", "dead"} : task' = [task EXCEPT ![r].status = s]
    /\ observer' = [observer EXCEPT ![r].todo = Ancestors(r)]

-----------------------------------------------------------------------------
(* WakeParentObserver, maybe_wake *)

\* The decision on one snapshot of the rows.
WakeDue(p) ==
    LET subtree == Below(p, task[p].thread)
    IN  /\ subtree # {} /\ Wakeable(p)
        /\ \A r \in subtree : task[r].status # "open" /\ ~Pending(r, task[p].thread)

\* Faulty: the observer stops at the first row that is not due.
DecideStops(o) ==
    /\ observer[o].todo # <<>> /\ observer[o].wake = 0
    /\ observer' = IF WakeDue(Head(observer[o].todo))
                   THEN [observer EXCEPT ![o].wake = Head(observer[o].todo)]
                   ELSE [observer EXCEPT ![o].todo = <<>>]
    /\ UNCHANGED task

Decide(o) ==
    /\ observer[o].todo # <<>> /\ observer[o].wake = 0
    /\ observer' = IF WakeDue(Head(observer[o].todo))
                   THEN [observer EXCEPT ![o].wake = Head(observer[o].todo)]
                   ELSE [observer EXCEPT ![o].todo = Tail(@)]
    /\ UNCHANGED task

\* publish_job under the key of the woken row: a second one publishes nothing.
PublishWake(o, n) ==
    LET p == observer[o].wake
    IN  /\ p # 0
        /\ NextRow(n)
        /\ task' = IF Woken(p) THEN task
                   ELSE [task EXCEPT ![n] = [task[p] EXCEPT !.status = "open", !.wakes = p]]
        /\ observer' = [observer EXCEPT ![o] = [todo |-> Tail(@.todo), wake |-> 0]]

WakeNext ==
    \E r \in Rows :
        \/ Detach(r) \/ EndTask(r) \/ Decide(r)
        \/ \E n \in Rows : Spawn(r, n) \/ PublishWake(r, n)

WakeSpec == WakeInit /\ [][WakeNext]_wakeVars

-----------------------------------------------------------------------------
(* Properties *)

\* No wake is lost: when every row has ended and every observer is done, no row with
\* finished children waits for a wake, in whatever order the ends and their observers
\* interleaved.
NoLostWake ==
    (\A r \in Rows : task[r].status # "open" /\ observer[r].todo = <<>>)
    => \A r \in Rows : ~Pending(r, task[r].thread)

\* No row is woken early: the wake comes after the last row below has ended, although the
\* decision is older than the publish and other observers publish between the two.
WokenAfterAll ==
    [][\A p \in Rows : ~Woken(p) /\ Woken(p)' =>
          /\ Wakeable(p) /\ Children(p, task[p].thread) # {}
          /\ \A r \in Below(p, task[p].thread) : task[r].status # "open"]_wakeVars
=============================================================================
