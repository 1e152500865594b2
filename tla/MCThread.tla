------------------------------ MODULE MCThread ------------------------------
(* A thread and what is told of it: its turns, the wake of a parent, the   *)
(* user's messages, the event log and the stream of a turn's fragments;    *)
(* and the consumer's reload.  The parts share no state here: a behaviour  *)
(* is one of them and the others rest.                                     *)
EXTENDS ThreadLine, SubagentWake, EventLog, DeltaQueue, Conversation, HotReload

VARIABLE part

threadVars == <<part, vars, wakeVars, logVars, deltaVars, chatVars, reloadVars>>

\* Turns: three of depth 0 and one priority, 1 and 2 for messages written in the other order.
Flat    == [i \in Jobs |-> 0]
Crossed == [i \in Jobs |-> IF i = 1 THEN 2 ELSE IF i = 2 THEN 1 ELSE 0]

\* The event log: commits and streams, a relay that crashes, events that carry an old time.
LogLimits ==
    {[crash |-> 0, connect |-> 2, prune |-> 1, time |-> 2, rows |-> 1, appends |-> 2],
     [crash |-> 1, connect |-> 1, prune |-> 0, time |-> 0, rows |-> 3, appends |-> 1],
     [crash |-> 0, connect |-> 2, prune |-> 1, time |-> 1, rows |-> 0, appends |-> 3]}

\* Fragments: of two runs, past the cap with a failing writer, replaced by flushes, switched off.
Few == [runs |-> 1, fragments |-> 0, partials |-> 0, flushes |-> 0, ends |-> 0, errors |-> 0, syncs |-> 0, cap |-> 4]
DeltaLimits ==
    {[Few EXCEPT !.runs = 2, !.fragments = 3],
     [Few EXCEPT !.fragments = 4, !.errors = 1, !.cap = 2],
     [Few EXCEPT !.fragments = 2, !.partials = 2, !.flushes = 2, !.ends = 1],
     [Few EXCEPT !.fragments = 2, !.partials = 1, !.flushes = 1, !.syncs = 1]}

\* Messages: a request that dies beside a job that pauses, or time beside the user.
Quiet == [die |-> 0, pause |-> 0, user |-> 0, time |-> 0]
ChatFaults == {[Quiet EXCEPT !.die = 1, !.pause = 1], [Quiet EXCEPT !.time = 2],
               [Quiet EXCEPT !.time = 1, !.user = 1]}

\* Two posts of one key, to one conversation or to two, or of two keys to one.
Sent(d1, k1, d2, k2) == [p \in Posts |-> IF p = "p1" THEN [chat |-> d1, key |-> k1] ELSE [chat |-> d2, key |-> k2]]
\* With an archive or a deletion by the user, the first only; with two days, the last only; a
\* job pauses only beside the first two (ThreadInit).
SentTo == {Sent(1, 1, 1, 1), Sent(1, 1, 2, 1), Sent(1, 1, 1, 2)}

\* The reload: modules 2 and 3 want one harness; two edits, or one, a lost database and a signal.
OneHarness   == <<0, 1, 1>>
ChannelUsed  == [t1 |-> 1, t2 |-> 3]
ReloadLimits == {[edit |-> 2, db |-> 0, stop |-> 0], [edit |-> 1, db |-> 1, stop |-> 1]}

AtRest(S, limits) == limits = CHOOSE x \in S : TRUE

ThreadInit ==
    /\ part \in {"line", "wake", "log", "delta", "chat", "reload"}
    /\ Init /\ WakeInit /\ LogInit /\ DeltaInit /\ ChatInit /\ ReloadInit
    /\ part # "log" => AtRest(LogBudgets, logLeft)
    /\ part # "delta" => AtRest(DeltaBudgets, deltaLeft)
    /\ part # "chat" => AtRest(ChatBudgets, chatLeft) /\ \A p \in Posts : actor[p].chat = 1 /\ actor[p].key = 1
    /\ chatLeft.user > 0 => \A p, q \in Posts : actor[p] = actor[q]
    /\ chatLeft.time > 1 => \A p, q \in Posts : actor[p].chat = actor[q].chat /\ (p = q \/ actor[p].key # actor[q].key)
    /\ chatLeft.pause > 0 => \A p, q \in Posts : p = q \/ actor[p].chat # actor[q].chat \/ actor[p].key = actor[q].key
    /\ part # "reload" => AtRest(ReloadBudgets, reloadLeft) /\ disk.enabled = {}

ThreadNext ==
    \/ part = "line"   /\ Next       /\ UNCHANGED <<part, wakeVars, logVars, deltaVars, chatVars, reloadVars>>
    \/ part = "wake"   /\ WakeNext   /\ UNCHANGED <<part, vars, logVars, deltaVars, chatVars, reloadVars>>
    \/ part = "log"    /\ LogNext    /\ UNCHANGED <<part, vars, wakeVars, deltaVars, chatVars, reloadVars>>
    \/ part = "delta"  /\ DeltaNext  /\ UNCHANGED <<part, vars, wakeVars, logVars, chatVars, reloadVars>>
    \/ part = "chat"   /\ ChatNext   /\ UNCHANGED <<part, vars, wakeVars, logVars, deltaVars, reloadVars>>
    \/ part = "reload" /\ ReloadNext /\ UNCHANGED <<part, vars, wakeVars, logVars, deltaVars, chatVars>>

FairThreadSpec == ThreadInit /\ [][ThreadNext]_threadVars /\ ChatFairness
=============================================================================
