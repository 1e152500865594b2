---------------------------- MODULE RunnerServer ----------------------------
(***************************************************************************)
(* The runner server: connections, child operations and the uid that each  *)
(* of them runs under (runner/server.py, uids.py), and what its clients    *)
(* see (runner/client.py).  A child operation takes a uid, notes and gives *)
(* the run dir to it, spawns, and on its way out stops every process of    *)
(* the uid, gives the dir back and frees the uid, in that order.           *)
(***************************************************************************)
EXTENDS Integers, FiniteSets

CONSTANTS
    Ops,          \* child operations: execute, run, pty
    TagOf,        \* the tag of each, 0 for run and pty
    Uids,         \* the uids of this runner
    MaxProcs,     \* AGENTO_RUNNER_MAX_PROCS
    MaxControl,   \* AGENTO_RUNNER_MAX_CONTROL
    RunnerBudgets \* bounds on faults and requests

\* Server.__init__ refuses more processes than uids.
ASSUME MaxProcsAssumption == MaxProcs <= Cardinality(Uids)

\* Run uids are a range of the host's above 0, which here stands for no uid or for agent's.
ASSUME UidsAssumption == 0 \notin Uids

VARIABLES
    ops,          \* the thread of each operation
    free,         \* UidPool._free
    tagUid,       \* _procs: tag -> uid, 0 when absent
    children,     \* _children
    conns,        \* _open: connections being served
    alive,        \* the live processes: pairs of operation and uid
    dirUid,       \* the owner of each operation's run dir, 0 is agent
    notes,        \* the notes in the state dir: pairs of uid and operation
    boot,         \* BOOT
    runnerLeft

runnerVars == <<ops, free, tagUid, children, conns, alive, dirUid, notes, boot, runnerLeft>>

Tags == {TagOf[o] : o \in Ops} \ {0}
Fresh == [pc |-> "none", uid |-> 0, stopped |-> FALSE, done |-> FALSE, frame |-> "none"]

RunnerInit ==
    /\ ops = [o \in Ops |-> Fresh]
    /\ free = Uids
    /\ tagUid = [t \in Tags |-> 0]
    /\ children = 0 /\ conns = 0
    /\ alive = {} /\ notes = {}
    /\ dirUid = [o \in Ops |-> 0]
    /\ boot = 1
    /\ runnerLeft \in RunnerBudgets

Costs(k) == runnerLeft[k] > 0 /\ runnerLeft' = [runnerLeft EXCEPT ![k] = @ - 1]
Goto(o, pc) == ops' = [ops EXCEPT ![o].pc = pc]
ProcessesOf(u) == {p \in alive : p[2] = u}

-----------------------------------------------------------------------------
(* Requests *)

\* serve_forever and _serve: a connection is closed when alive and signal requests hold the
\* rest of the connections or the accept rate is used up (_take_token); one whose peer is not
\* from this host's namespace never gets here (_refuse).  A job is run again only after its
\* last run's connection ended.
Accept(o) ==
    /\ ops[o].pc = "none"
    /\ \A p \in Ops : (p < o /\ TagOf[o] # 0 /\ TagOf[p] = TagOf[o]) => ops[p].pc = "closed"
    /\ \/ conns < MaxProcs + MaxControl /\ conns' = conns + 1 /\ Goto(o, "request") /\ UNCHANGED runnerLeft
       \/ /\ Costs("refuse")
          /\ ops' = [ops EXCEPT ![o].pc = "closed", ![o].frame = "lost"]
          /\ UNCHANGED conns
    /\ UNCHANGED <<free, tagUid, children, alive, dirUid, notes, boot>>

\* _child_slot
TakeSlot(o) ==
    /\ ops[o].pc = "request"
    /\ \/ children < MaxProcs /\ children' = children + 1 /\ Goto(o, "slot")
       \/ /\ children >= MaxProcs
          /\ ops' = [ops EXCEPT ![o].pc = "reply", ![o].frame = "error"]
          /\ UNCHANGED children
    /\ UNCHANGED <<free, tagUid, conns, alive, dirUid, notes, boot, runnerLeft>>

\* _isolated: the run dir is looked at, and refused when it is not one; the uid and the tag.
TakeUid(o) ==
    /\ ops[o].pc = "slot"
    /\ \/ \E u \in free :
            /\ free' = free \ {u}
            /\ ops' = [ops EXCEPT ![o].pc = "note", ![o].uid = u]
            /\ tagUid' = [t \in Tags |-> IF t = TagOf[o] THEN u ELSE tagUid[t]]
            /\ UNCHANGED runnerLeft
       \/ /\ (free = {} /\ UNCHANGED runnerLeft) \/ Costs("refuse")
          /\ ops' = [ops EXCEPT ![o].pc = "unslot", ![o].frame = "error"]
          /\ UNCHANGED <<free, tagUid>>
    /\ UNCHANGED <<children, conns, alive, dirUid, notes, boot>>

\* Faulty: the note is written when the dir has changed hands.
WriteNoteLate(o) ==
    /\ ops[o].pc = "note"
    /\ Goto(o, "own")
    /\ UNCHANGED <<free, tagUid, children, conns, alive, dirUid, notes, boot, runnerLeft>>

\* record: first, so that a crash in the walk is reclaimed.
WriteNote(o) ==
    /\ ops[o].pc = "note"
    /\ notes' = notes \cup {<<ops[o].uid, o>>}
    /\ Goto(o, "own")
    /\ UNCHANGED <<free, tagUid, children, conns, alive, dirUid, boot, runnerLeft>>

\* own for the run; a dir swapped since the check leaves the operation, perhaps half given.
OwnDir(o) ==
    /\ ops[o].pc = "own"
    /\ \/ dirUid' = [dirUid EXCEPT ![o] = ops[o].uid] /\ Goto(o, "spawn") /\ UNCHANGED runnerLeft
       \/ /\ Costs("walk")
          /\ dirUid' \in {dirUid, [dirUid EXCEPT ![o] = ops[o].uid]}
          /\ ops' = [ops EXCEPT ![o].pc = "kill", ![o].frame = "error"]
    /\ UNCHANGED <<free, tagUid, children, conns, alive, notes, boot>>

\* The worker, the command or the terminal starts as the uid.
Spawn(o) ==
    /\ ops[o].pc = "spawn"
    /\ alive' = alive \cup {<<o, ops[o].uid>>}
    /\ Goto(o, "run")
    /\ UNCHANGED <<free, tagUid, children, conns, dirUid, notes, boot, runnerLeft>>

\* _relay, collect, _relay_pty: the child reports its end, or dies without a result (a
\* signal, _watch_eof's kill, a timeout); descendants may go on.
ChildEnds(o) ==
    /\ ops[o].pc = "run"
    /\ \E f \in {"result", "error"} :
         ops' = [ops EXCEPT ![o].pc = "kill", ![o].frame = f]
    /\ \/ alive' = alive \ {<<o, ops[o].uid>>}
       \/ UNCHANGED alive
    /\ UNCHANGED <<free, tagUid, children, conns, dirUid, notes, boot, runnerLeft>>

-----------------------------------------------------------------------------
(* The way out of _isolated *)

\* kill_all: False when a process outlives the bound, or /proc cannot be read.
KillAll(o) ==
    /\ ops[o].pc = "kill"
    /\ \/ /\ alive' = alive \ ProcessesOf(ops[o].uid)
          /\ ops' = [ops EXCEPT ![o].pc = "return", ![o].stopped = TRUE, ![o].done = TRUE]
          /\ UNCHANGED runnerLeft
       \/ /\ Costs("survive")
          /\ alive' \in {alive, alive \ ProcessesOf(ops[o].uid)}
          /\ ops' = [ops EXCEPT ![o].pc = "free", ![o].stopped = FALSE, ![o].done = FALSE]
    /\ UNCHANGED <<free, tagUid, children, conns, dirUid, notes, boot>>

\* own for the owner, and the note is removed; or the walk fails.
ReturnDir(o) ==
    /\ ops[o].pc = "return"
    /\ \/ /\ dirUid' = [dirUid EXCEPT ![o] = 0]
          /\ notes' = notes \ {<<ops[o].uid, o>>}
          /\ Goto(o, "free")
          /\ UNCHANGED runnerLeft
       \/ /\ Costs("walk")
          /\ ops' = [ops EXCEPT ![o].pc = "free", ![o].done = FALSE]
          /\ UNCHANGED <<dirUid, notes>>
    /\ UNCHANGED <<free, tagUid, children, conns, alive, boot>>

\* Under _lock: the tag goes when the processes are gone, the uid when the dir is back too.
FreeUid(o) ==
    /\ ops[o].pc = "free"
    /\ tagUid' = [t \in Tags |-> IF t = TagOf[o] /\ ops[o].stopped THEN 0 ELSE tagUid[t]]
    /\ free' = IF ops[o].done THEN free \cup {ops[o].uid} ELSE free
    /\ ops' = [ops EXCEPT ![o].pc = "unslot", ![o].frame = IF ops[o].done THEN @ ELSE "error"]
    /\ UNCHANGED <<children, conns, alive, dirUid, notes, boot, runnerLeft>>

GiveSlot(o) ==
    /\ ops[o].pc = "unslot"
    /\ children' = children - 1
    /\ Goto(o, "reply")
    /\ UNCHANGED <<free, tagUid, conns, alive, dirUid, notes, boot, runnerLeft>>

\* _finish: the terminal frame, then the connection is closed.
Reply(o) ==
    /\ ops[o].pc = "reply"
    /\ conns' = conns - 1
    /\ ops' = [ops EXCEPT ![o].pc = "closed"]
    /\ UNCHANGED <<free, tagUid, children, alive, dirUid, notes, boot, runnerLeft>>

\* A process that outlived the kill ends by itself.
SurvivorEnds(p) ==
    /\ p \in alive /\ ops[p[1]].pc \in {"free", "unslot", "reply", "closed"}
    /\ alive' = alive \ {p}
    /\ UNCHANGED <<ops, free, tagUid, children, conns, dirUid, notes, boot, runnerLeft>>

-----------------------------------------------------------------------------
(* Control requests and restart *)

\* Faulty: the uid of the tag is looked up before the lock.
SignalUidStale(t) == IF \E o \in Ops : TagOf[o] = t /\ ops[o].uid # 0
                     THEN ops[CHOOSE o \in Ops : TagOf[o] = t /\ ops[o].uid # 0].uid ELSE 0

SignalUid(t) == tagUid[t]

\* _signal for a run of this boot, under _lock: every process of the uid gets it.
Signal(t) ==
    /\ Costs("signal")
    /\ SignalUid(t) # 0
    /\ alive' = alive \ ProcessesOf(SignalUid(t))
    /\ UNCHANGED <<ops, free, tagUid, children, conns, dirUid, notes, boot>>

\* The server dies and with its PID namespace every process; the clients see the connection
\* end.  At start, before it serves, reclaim gives every noted dir back; a uid whose dir
\* cannot be given back stays out of the pool, with its note.
Restart ==
    /\ Costs("restart")
    /\ \E lame \in SUBSET notes :
         LET kept == {n[1] : n \in lame}
         IN  /\ lame # {} => runnerLeft.walk > 0
             /\ dirUid' = [o \in Ops |-> IF \E n \in notes \ lame : n[2] = o THEN 0 ELSE dirUid[o]]
             /\ notes' = lame
             /\ free' = Uids \ kept
    /\ alive' = {}
    /\ ops' = [o \in Ops |-> IF ops[o].pc \in {"none", "closed"} THEN ops[o]
                             ELSE [ops[o] EXCEPT !.pc = "closed", !.frame = "lost"]]
    /\ tagUid' = [t \in Tags |-> 0]
    /\ children' = 0 /\ conns' = 0 /\ boot' = boot + 1

RunnerNext ==
    \/ \E o \in Ops : \/ Accept(o) \/ TakeSlot(o) \/ TakeUid(o) \/ WriteNote(o) \/ OwnDir(o)
                      \/ Spawn(o) \/ ChildEnds(o) \/ KillAll(o) \/ ReturnDir(o) \/ FreeUid(o)
                      \/ GiveSlot(o) \/ Reply(o)
    \/ \E p \in alive : SurvivorEnds(p)
    \/ \E t \in Tags : Signal(t)
    \/ Restart

RunnerSpec == RunnerInit /\ [][RunnerNext]_runnerVars

-----------------------------------------------------------------------------
(* Properties *)

Held == {ops[o].uid : o \in {p \in Ops : ops[p].pc \notin {"none", "request", "slot", "unslot", "reply", "closed"}}}

\* One uid, one run: whoever has a live process under a uid is its only user, and a uid that
\* can be taken has no process and no run dir, however cleanups fail and servers restart.
UidIsolation ==
    /\ \A p, q \in alive : p[2] = q[2] => p[1] = q[1]
    /\ \A u \in free : ProcessesOf(u) = {} /\ \A o \in Ops : dirUid[o] # u

\* A signal for a tag stops processes of that tag's run only, never the uid's next run.
SignalHitsItsRun ==
    [][\A t \in Tags : Signal(t) => \A p \in alive \ alive' : TagOf[p[1]] = t]_runnerVars

=============================================================================
