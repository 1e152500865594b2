------------------------------ MODULE EventLog ------------------------------
(***************************************************************************)
(* The events of one conversation: transactions that append to it, the     *)
(* relay that turns outbox rows into events, retention, and the stream     *)
(* that a browser reads with the id of the last event it saw as its cursor.*)
(*                                                                         *)
(* An id is given when an event is inserted and the event is seen when its *)
(* transaction commits.  lock_conversations makes each transaction hold    *)
(* the conversation row from before its first insert to its commit.  The   *)
(* relay's locking read waits for an outbox row whose insert has not       *)
(* committed.                                                              *)
(***************************************************************************)
EXTENDS Integers, FiniteSets

CONSTANTS
    OutRows,    \* outbox rows, numbers in id order
    Ours,       \* those of a conversation job whose message exists
    Appends,    \* other events to write, by their source: message, run, answer, tool, delta
    Partials,   \* those the finalizer drops at the end of the run
    Backdated,  \* those that carry an old time of their own (backfill)
    LogBudgets  \* bounds on rows, appends, crashes, connections, prunes and ticks

RELAY == -1
NoBody == 0

\* A source of an event is an outbox row or something else, and who holds the row has a name.
ASSUME SourcesAssumption == Appends \cap (OutRows \cup {RELAY, NoBody}) = {}

VARIABLES
    outbox,     \* the state of each outbox row
    relay,      \* the relay's transaction: rows it locked, rows it still has to write
    holder,     \* who holds the conversation row: the relay, a source, or nobody
    open,       \* events inserted by transactions that have not committed
    events,     \* conversation_event
    history,    \* every event that was ever committed
    nextId,     \* the auto-increment
    logClock,
    watermark,  \* conversation_prune_watermark
    stream,     \* the browser's stream
    logLeft

logVars == <<outbox, relay, holder, open, events, history, nextId, logClock, watermark, stream, logLeft>>

NoRelay == [pc |-> "idle", rows |-> {}, todo |-> {}]

LogInit ==
    /\ outbox = [i \in OutRows |-> "none"]
    /\ relay = NoRelay
    /\ holder = NoBody
    /\ open = {} /\ events = {} /\ history = {}
    /\ nextId = 1 /\ logClock = 1
    /\ watermark = [id |-> 0, at |-> 0, atId |-> 0]
    /\ stream = [on |-> FALSE, cursor |-> 0, from |-> 0, seen |-> {}, missed |-> {}]
    /\ logLeft \in LogBudgets

Uses(k) == logLeft[k] > 0 /\ logLeft' = [logLeft EXCEPT ![k] = @ - 1]

\* The timeline's order.
Earlier(a, b) == a.at < b.at \/ (a.at = b.at /\ a.id <= b.id)

\* append_event: INSERT IGNORE on the unique source.
Insert(src, at) ==
    LET new == {r \in {[id |-> nextId, at |-> at, src |-> src]} : \A e \in history : e.src # src}
    IN  open' = open \cup new /\ nextId' = nextId + Cardinality(new)

CommitEvents(es) ==
    /\ events' = events \cup es
    /\ history' = history \cup es
    /\ open' = open \ es

-----------------------------------------------------------------------------
(* Transactions of the web, the consumer, the delta sink and backfill *)

Written(s) == \E e \in history \cup open : e.src = s

\* Faulty: the row lock is taken by the update of last_activity_at after the insert.
AppendUnlocked(s) ==
    /\ ~Written(s)
    /\ Uses("appends")
    /\ Insert(s, IF s \in Backdated THEN 0 ELSE logClock)
    /\ UNCHANGED <<outbox, relay, holder, events, history, logClock, watermark, stream>>

\* lock_conversations, then the insert.
AppendEvent(s) ==
    /\ ~Written(s)
    /\ holder = NoBody
    /\ holder' = s
    /\ Uses("appends")
    /\ Insert(s, IF s \in Backdated THEN 0 ELSE logClock)
    /\ UNCHANGED <<outbox, relay, events, history, logClock, watermark, stream>>

CommitAppend(s) ==
    /\ \E e \in open : e.src = s /\ CommitEvents({e})
    /\ holder' = IF holder = s THEN NoBody ELSE holder
    /\ UNCHANGED <<outbox, relay, nextId, logClock, watermark, stream, logLeft>>

\* The transaction is rolled back: a deadlock, or its process died.
RollbackAppend(s) ==
    /\ \E e \in open : e.src = s /\ open' = open \ {e}
    /\ Uses("crash")
    /\ holder' = IF holder = s THEN NoBody ELSE holder
    /\ UNCHANGED <<outbox, relay, events, history, nextId, logClock, watermark, stream>>

\* The finalizer's _drop_partials, when the run's answer is in.
DropPartials ==
    /\ holder = NoBody
    /\ \E e \in events : e.src \in Partials
    /\ events' = {e \in events : e.src \notin Partials}
    /\ UNCHANGED <<outbox, relay, holder, open, history, nextId, logClock, watermark, stream, logLeft>>

-----------------------------------------------------------------------------
(* The outbox and its relay *)

\* write_outbox inserts in some job's transaction; transactions commit in any order.
WriteOutbox(i) ==
    /\ outbox[i] = "none" /\ \A j \in OutRows : j < i => outbox[j] # "none"
    /\ Uses("rows")
    /\ outbox' = [outbox EXCEPT ![i] = "written"]
    /\ UNCHANGED <<relay, holder, open, events, history, nextId, logClock, watermark, stream>>

CommitOutbox(i) ==
    /\ outbox[i] = "written"
    /\ outbox' = [outbox EXCEPT ![i] = "new"]
    /\ UNCHANGED <<relay, holder, open, events, history, nextId, logClock, watermark, stream, logLeft>>

\* relay_outbox under the named lock of run_relay: a batch in id order.
RelayReads ==
    /\ relay.pc = "idle"
    /\ \E n \in OutRows :
         LET batch == {i \in OutRows : outbox[i] = "new" /\ i <= n}
         IN  /\ batch # {}
             /\ \A i \in OutRows : i <= n => outbox[i] # "written"
             /\ relay' = [pc |-> "read", rows |-> batch, todo |-> batch \cap Ours]
    /\ UNCHANGED <<outbox, holder, open, events, history, nextId, logClock, watermark, stream, logLeft>>

RelayLocks ==
    /\ relay.pc = "read"
    /\ \/ relay.todo = {} /\ UNCHANGED holder
       \/ relay.todo # {} /\ holder = NoBody /\ holder' = RELAY
    /\ relay' = [relay EXCEPT !.pc = "write"]
    /\ UNCHANGED <<outbox, open, events, history, nextId, logClock, watermark, stream, logLeft>>

\* _write_event, one row after the other.
RelayWrites ==
    \E i \in relay.todo :
        /\ relay.pc = "write" /\ \A j \in relay.todo : i <= j
        /\ Insert(i, logClock)
        /\ relay' = [relay EXCEPT !.todo = @ \ {i}]
        /\ UNCHANGED <<outbox, holder, events, history, logClock, watermark, stream, logLeft>>

\* The events and the marks commit together.
RelayCommits ==
    /\ relay.pc = "write" /\ relay.todo = {}
    /\ CommitEvents({e \in open : e.src \in relay.rows})
    /\ outbox' = [i \in OutRows |-> IF i \in relay.rows THEN "relayed" ELSE outbox[i]]
    /\ relay' = NoRelay
    /\ holder' = IF holder = RELAY THEN NoBody ELSE holder
    /\ UNCHANGED <<nextId, logClock, watermark, stream, logLeft>>

\* The relay dies with its connection: its locks and its transaction go with it.
RelayDies ==
    /\ relay.pc # "idle"
    /\ Uses("crash")
    /\ open' = {e \in open : e.src \notin relay.rows}
    /\ relay' = NoRelay
    /\ holder' = IF holder = RELAY THEN NoBody ELSE holder
    /\ UNCHANGED <<outbox, events, history, nextId, logClock, watermark, stream>>

\* prune_relayed
PruneRelayed ==
    /\ \E i \in OutRows : outbox[i] = "relayed"
    /\ Uses("prune")
    /\ outbox' = [i \in OutRows |-> IF outbox[i] = "relayed" THEN "pruned" ELSE outbox[i]]
    /\ UNCHANGED <<relay, holder, open, events, history, nextId, logClock, watermark, stream>>

-----------------------------------------------------------------------------
(* Retention *)

Tick ==
    /\ Uses("time")
    /\ logClock' = logClock + 1
    /\ UNCHANGED <<outbox, relay, holder, open, events, history, nextId, watermark, stream>>

\* _prune_one: a number of the oldest events in timeline order; the watermark only rises.
PruneEvents ==
    LET old == {e \in events : e.at < logClock}
    IN  /\ Uses("prune")
        /\ \E last \in old :
             LET gone == {e \in old : Earlier(e, last)}
                 top  == CHOOSE n \in {e.id : e \in gone} : \A e \in gone : e.id <= n
                 up   == last.at > watermark.at \/ (last.at = watermark.at /\ last.id > watermark.atId)
             IN  /\ events' = events \ gone
                 /\ watermark' = [id   |-> IF top > watermark.id THEN top ELSE watermark.id,
                                  at   |-> IF up THEN last.at ELSE watermark.at,
                                  atId |-> IF up THEN last.id ELSE watermark.atId]
        /\ UNCHANGED <<outbox, relay, holder, open, history, nextId, logClock, stream>>

\* cursor_expired: by time when the cursor's event exists, else by id.
CursorExpired(k) ==
    /\ k # 0 /\ watermark.id # 0
    /\ IF \E e \in events : e.id = k
       THEN \E e \in events : e.id = k /\ Earlier(e, [at |-> watermark.at, id |-> watermark.atId])
       ELSE k <= watermark.id

-----------------------------------------------------------------------------
(* The stream: frames, _tick *)

Newest == IF events = {} THEN 0 ELSE CHOOSE n \in {e.id : e \in events} : \A e \in events : e.id <= n

\* A browser that has no cursor, or is told that it expired, starts after the newest
\* event; else it goes on after its cursor.  missed are the events it will not be given.
Connect ==
    /\ ~stream.on
    /\ Uses("connect")
    /\ LET at == {e \in history : e.id = stream.cursor}
       IN  stream' = IF stream.cursor = 0 \/ CursorExpired(stream.cursor)
                     THEN [stream EXCEPT !.on = TRUE, !.cursor = Newest, !.from = Newest]
                     ELSE [stream EXCEPT !.on = TRUE, !.missed =
                             {e \in history \ events : /\ e.id > stream.cursor
                                                       /\ e.src \notin Partials
                                                       /\ \A c \in at : Earlier(c, e)}]
    /\ UNCHANGED <<outbox, relay, holder, open, events, history, nextId, logClock, watermark>>

\* list_events after the cursor, in id order.
Deliver ==
    LET page == {e \in events : e.id > stream.cursor}
    IN  /\ stream.on /\ page # {}
        /\ \E e \in page :
             /\ \A f \in page : e.id <= f.id
             /\ stream' = [stream EXCEPT !.cursor = e.id, !.seen = @ \cup {e.id}]
        /\ UNCHANGED <<outbox, relay, holder, open, events, history, nextId, logClock, watermark, logLeft>>

\* The stream's deadline, a slot taken by a newer stream, a session that ended.
Disconnect ==
    /\ stream.on
    /\ stream' = [stream EXCEPT !.on = FALSE]
    /\ UNCHANGED <<outbox, relay, holder, open, events, history, nextId, logClock, watermark, logLeft>>

LogNext ==
    \/ \E s \in Appends : AppendEvent(s) \/ CommitAppend(s) \/ RollbackAppend(s)
    \/ \E i \in OutRows : WriteOutbox(i) \/ CommitOutbox(i)
    \/ DropPartials \/ RelayReads \/ RelayLocks \/ RelayWrites \/ RelayCommits \/ RelayDies
    \/ PruneRelayed \/ Tick \/ PruneEvents \/ Connect \/ Deliver \/ Disconnect

LogSpec == LogInit /\ [][LogNext]_logVars

-----------------------------------------------------------------------------
(* Properties *)

\* A stream misses no event: whatever is in the conversation behind the cursor was given
\* to the browser, although ids are handed out before they are committed and several
\* transactions append at once.
NoEventSkipped ==
    \A e \in events : stream.from < e.id /\ e.id <= stream.cursor => e.id \in stream.seen

=============================================================================
