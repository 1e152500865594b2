--------------------------- MODULE Thread_proofs ----------------------------
(***************************************************************************)
(* Proofs about what readers of a running system see, for any sources,     *)
(* outbox rows, tasks, reloads, executions and bounds: a stream is given   *)
(* every event behind its cursor (EventLog), a job sees one state of the   *)
(* registries from its claim to its end (HotReload), a prune spares what a *)
(* reader may still ask for (Conversation), a lost fragment leaves a       *)
(* marker (DeltaQueue), and a row whose children are over is woken         *)
(* (SubagentWake). The five share no state.                                *)
(***************************************************************************)
EXTENDS EventLog, HotReload, Conversation, DeltaQueue, SubagentWake, FiniteSetTheorems, TLAPS

-----------------------------------------------------------------------------
(* EventLog: the cursor of a stream *)

Event == [id : Nat, at : Nat, src : Appends \cup OutRows]

TypeOK ==
    /\ relay \in [pc : {"idle", "read", "write"}, rows : SUBSET OutRows, todo : SUBSET OutRows]
    /\ holder \in Appends \cup {RELAY, NoBody}
    /\ open \in SUBSET Event /\ history \in SUBSET Event /\ events \in SUBSET history
    /\ nextId \in Nat /\ nextId > 0 /\ logClock \in Nat
    /\ stream \in [on : BOOLEAN, cursor : Nat, from : Nat, seen : SUBSET Nat, missed : SUBSET Event]

\* Ids are given in order, and what has not committed is ahead of what has.
InOrder ==
    /\ \A e \in history \cup open : e.id > 0 /\ e.id < nextId
    /\ \A e \in history, o \in open : e.id < o.id

\* The cursor is no further than what has committed.
CursorBehind ==
    /\ stream.cursor < nextId
    /\ \A o \in open : stream.cursor < o.id

\* Events that have not committed are of the one transaction that holds the conversation.
OneTransaction ==
    /\ holder = NoBody => open = {}
    /\ holder \in Appends => \A e \in open : e.src = holder
    /\ holder = RELAY => relay.pc = "write" /\ \A e \in open : e.src \in relay.rows \ relay.todo
    /\ \A e, o \in open : e.src = o.src => e = o
    /\ relay.pc = "write" /\ relay.todo # {} => holder = RELAY
    /\ relay.todo \subseteq relay.rows

IInv == TypeOK /\ InOrder /\ CursorBehind /\ OneTransaction /\ NoEventSkipped

-----------------------------------------------------------------------------
(* Helpers *)

\* INSERT IGNORE inserts the event with the next id, or nothing.
LEMMA InsertsOne ==
    ASSUME nextId \in Nat, NEW s, NEW at, Insert(s, at)
    PROVE  \/ open' = open \cup {[id |-> nextId, at |-> at, src |-> s]} /\ nextId' = nextId + 1
           \/ open' = open /\ nextId' = nextId
<1> DEFINE x == [id |-> nextId, at |-> at, src |-> s]
           new == {r \in {x} : \A e \in history : e.src # s}
<1>1. open' = open \cup new /\ nextId' = nextId + Cardinality(new)
  BY DEF Insert
<1>2. new = {x} \/ new = {}
  OBVIOUS
<1>3. Cardinality({x}) = 1 /\ Cardinality({}) = 0
  BY FS_Singleton, FS_EmptySet
<1> HIDE DEF x, new
<1>4. CASE new = {x}
  BY <1>1, <1>3, <1>4 DEF x
<1>5. CASE new = {}
  BY <1>1, <1>3, <1>5
<1> QED
  BY <1>2, <1>4, <1>5

\* A set of numbers has a least one (of the sets 0..n, one includes no other).
LEMMA LeastNatural ==
    ASSUME NEW S \in SUBSET Nat, S # {}
    PROVE  \E n \in S : \A m \in S : n <= m
<1> DEFINE below == {0..n : n \in S}
           R == StrictSubsetOrdering(Nat)
<1>1. below \subseteq FiniteSubsetsOf(Nat) /\ below # {}
  <2>1. ASSUME NEW n \in S PROVE IsFiniteSet(0..n) /\ 0..n \subseteq Nat
    BY FS_Interval
  <2> QED
    BY <2>1 DEF FiniteSubsetsOf
<1>2. IsWellFoundedOn(R, FiniteSubsetsOf(Nat))
  BY FS_StrictSubsetOrderingWellFounded
<1>3. \E x \in below : \A y \in below : <<y, x>> \notin R
  <2> HIDE DEF below, R
  <2> QED BY <1>1, <1>2, WFMin
<1>4. PICK n \in S : \A m \in S : <<0..m, 0..n>> \notin R
  BY <1>3
<1>5. ASSUME NEW m \in S, m < n PROVE FALSE
  <2>1. 0..m \subseteq 0..n /\ n \in 0..n /\ n \notin 0..m
    BY <1>5
  <2>2. 0..m \in SUBSET Nat /\ 0..n \in SUBSET Nat /\ 0..m # 0..n
    BY <2>1
  <2> QED
    BY <1>4, <2>1, <2>2 DEF StrictSubsetOrdering
<1> QED
  BY <1>5

\* The newest event is one of them, so it has committed.
LEMMA NewestIsAnEvent ==
    ASSUME TypeOK, InOrder
    PROVE  /\ Newest \in Nat /\ Newest < nextId
           /\ \A o \in open : Newest < o.id
<1>1. CASE events = {}
  BY <1>1 DEF Newest, TypeOK, InOrder, Event
<1>2. CASE events # {}
  <2> DEFINE ages == {nextId - e.id : e \in events}
  <2>1. ages \in SUBSET Nat /\ ages # {}
    BY <1>2 DEF TypeOK, InOrder, Event
  <2>2. PICK a \in ages : \A b \in ages : a <= b
    <3> HIDE DEF ages
    <3> QED
      BY <2>1, LeastNatural
  <2>3. PICK e \in events : a = nextId - e.id
    BY <2>2
  <2>4. ASSUME NEW f \in events PROVE f.id <= e.id
    <3>1. nextId - e.id <= nextId - f.id
      BY <2>2, <2>3
    <3>2. e.id \in Nat /\ f.id \in Nat /\ nextId \in Nat
      BY DEF TypeOK, Event
    <3> QED
      BY <3>1, <3>2
  <2>5. \E n \in {f.id : f \in events} : \A f \in events : f.id <= n
    BY <2>4
  <2>6. Newest \in {f.id : f \in events}
    BY <1>2, <2>5 DEF Newest
  <2>7. PICK f \in events : Newest = f.id
    BY <2>6
  <2> QED
    BY <2>7 DEF TypeOK, InOrder, Event
<1> QED
  BY <1>1, <1>2

\* A step that leaves the events, the ids and the stream alone and rolls some inserts back.
LEMMA NothingCommits ==
    ASSUME IInv, open' \subseteq open, events' \subseteq events,
           UNCHANGED <<history, nextId, logClock, stream>>,
           relay' \in [pc : {"idle", "read", "write"}, rows : SUBSET OutRows, todo : SUBSET OutRows],
           holder' \in Appends \cup {RELAY, NoBody}, OneTransaction'
    PROVE  IInv'
<1>1. TypeOK' /\ InOrder' /\ CursorBehind'
  BY DEF IInv, TypeOK, InOrder, CursorBehind
<1>2. NoEventSkipped'
  BY DEF IInv, NoEventSkipped
<1> QED
  BY <1>1, <1>2 DEF IInv

\* An insert of the transaction that holds the conversation.
LEMMA InsertKeeps ==
    ASSUME IInv, NEW s \in Appends \cup OutRows, NEW at \in Nat, Insert(s, at),
           UNCHANGED <<events, history, logClock, stream>>,
           relay' \in [pc : {"idle", "read", "write"}, rows : SUBSET OutRows, todo : SUBSET OutRows],
           holder' \in Appends \cup {RELAY, NoBody}, OneTransaction'
    PROVE  IInv'
<1> DEFINE x == [id |-> nextId, at |-> at, src |-> s]
<1>1. \/ open' = open \cup {x} /\ nextId' = nextId + 1
      \/ open' = open /\ nextId' = nextId
  BY InsertsOne DEF IInv, TypeOK
<1>2. x \in Event /\ x.id = nextId
  BY DEF IInv, TypeOK, Event
<1> HIDE DEF x
<1>3. TypeOK'
  BY <1>1, <1>2 DEF IInv, TypeOK
<1>4. InOrder'
  BY <1>1, <1>2 DEF IInv, TypeOK, InOrder, Event
<1>5. CursorBehind'
  BY <1>1, <1>2 DEF IInv, TypeOK, CursorBehind
<1>6. NoEventSkipped'
  BY DEF IInv, NoEventSkipped
<1> QED
  BY <1>3, <1>4, <1>5, <1>6 DEF IInv

\* A commit of all that is open, or of nothing, is behind no cursor.
LEMMA CommitKeeps ==
    ASSUME IInv, NEW es \in SUBSET open, CommitEvents(es), open' = {} \/ es = {},
           UNCHANGED <<nextId, logClock, stream>>,
           relay' \in [pc : {"idle", "read", "write"}, rows : SUBSET OutRows, todo : SUBSET OutRows],
           holder' \in Appends \cup {RELAY, NoBody}, OneTransaction'
    PROVE  IInv'
<1>1. TypeOK'
  BY DEF IInv, TypeOK, CommitEvents
<1>2. InOrder' /\ CursorBehind'
  BY DEF IInv, InOrder, CursorBehind, CommitEvents
<1>3. ASSUME NEW e \in events', stream.from < e.id, e.id <= stream.cursor
      PROVE  e.id \in stream.seen
  <2>1. CASE e \in events
    BY <1>3, <2>1 DEF IInv, NoEventSkipped
  <2>2. CASE e \in es
    BY <1>3, <2>2 DEF IInv, TypeOK, CursorBehind, Event
  <2> QED
    BY <2>1, <2>2 DEF CommitEvents
<1>4. NoEventSkipped'
  BY <1>3 DEF NoEventSkipped
<1> QED
  BY <1>1, <1>2, <1>4 DEF IInv

-----------------------------------------------------------------------------
(* One lemma per action *)

LEMMA InitInv == LogInit => IInv
<1> SUFFICES ASSUME LogInit PROVE IInv
  OBVIOUS
<1>1. TypeOK
  BY DEF LogInit, TypeOK, NoRelay
<1>2. InOrder /\ CursorBehind
  BY DEF LogInit, InOrder, CursorBehind
<1>3. OneTransaction
  BY SourcesAssumption DEF LogInit, OneTransaction, NoRelay, RELAY, NoBody
<1>4. NoEventSkipped
  BY DEF LogInit, NoEventSkipped
<1> QED
  BY <1>1, <1>2, <1>3, <1>4 DEF IInv

LEMMA AppendEventKeeps ==
    ASSUME IInv, NEW s \in Appends, AppendEvent(s) PROVE IInv'
<1>1. /\ holder = NoBody /\ holder' = s /\ open = {}
      /\ UNCHANGED <<relay, events, history, logClock, stream>>
  BY DEF IInv, OneTransaction, AppendEvent
<1>2. PICK at \in Nat : Insert(s, at)
  BY DEF AppendEvent, IInv, TypeOK
<1>3. \/ open' = {[id |-> nextId, at |-> at, src |-> s]}
      \/ open' = {}
  BY <1>1, <1>2, InsertsOne DEF IInv, TypeOK
<1>4. OneTransaction'
  BY <1>1, <1>3, SourcesAssumption DEF IInv, OneTransaction, RELAY, NoBody
<1> QED
  BY <1>1, <1>2, <1>4, InsertKeeps DEF IInv, TypeOK

LEMMA CommitAppendKeeps ==
    ASSUME IInv, NEW s \in Appends, CommitAppend(s) PROVE IInv'
<1>1. PICK e \in open : e.src = s /\ CommitEvents({e})
  BY DEF CommitAppend
<1>2. UNCHANGED <<relay, nextId, logClock, stream>> /\ holder' = IF holder = s THEN NoBody ELSE holder
  BY DEF CommitAppend
<1>3. s \notin OutRows /\ s # RELAY /\ s # NoBody
  BY SourcesAssumption
<1>4. holder = s
  BY <1>1, <1>3 DEF IInv, TypeOK, OneTransaction
<1>5. open' = {}
  BY <1>1, <1>4 DEF IInv, OneTransaction, CommitEvents
<1>6. OneTransaction'
  BY <1>2, <1>3, <1>4, <1>5, SourcesAssumption DEF IInv, OneTransaction, RELAY, NoBody
<1> QED
  BY <1>1, <1>2, <1>4, <1>5, <1>6, CommitKeeps DEF IInv, TypeOK

LEMMA RollbackAppendKeeps ==
    ASSUME IInv, NEW s \in Appends, RollbackAppend(s) PROVE IInv'
<1>1. PICK e \in open : e.src = s /\ open' = open \ {e}
  BY DEF RollbackAppend
<1>2. /\ UNCHANGED <<relay, events, history, nextId, logClock, stream>>
      /\ holder' = IF holder = s THEN NoBody ELSE holder
  BY DEF RollbackAppend
<1>3. s \notin OutRows /\ s # RELAY /\ s # NoBody
  BY SourcesAssumption
<1>4. holder = s
  BY <1>1, <1>3 DEF IInv, TypeOK, OneTransaction
<1>5. open' = {}
  BY <1>1, <1>4 DEF IInv, OneTransaction
<1>6. OneTransaction'
  BY <1>2, <1>3, <1>4, <1>5, SourcesAssumption DEF IInv, OneTransaction, RELAY, NoBody
<1> QED
  BY <1>1, <1>2, <1>4, <1>6, NothingCommits DEF IInv, TypeOK

\* Steps that touch neither the events nor who may write them.
LEMMA QuietKeeps ==
    ASSUME IInv, open' = open, events' \subseteq events,
           UNCHANGED <<history, nextId, stream, relay, holder>>, logClock' \in Nat
    PROVE  IInv'
<1>1. TypeOK' /\ InOrder' /\ CursorBehind' /\ OneTransaction'
  BY DEF IInv, TypeOK, InOrder, CursorBehind, OneTransaction
<1>2. NoEventSkipped'
  BY DEF IInv, NoEventSkipped
<1> QED
  BY <1>1, <1>2 DEF IInv

LEMMA RelayReadsKeeps == ASSUME IInv, RelayReads PROVE IInv'
<1>1. PICK batch \in SUBSET OutRows : relay' = [pc |-> "read", rows |-> batch, todo |-> batch \cap Ours]
  BY DEF RelayReads
<1>2. UNCHANGED <<holder, open, events, history, nextId, logClock, stream>> /\ relay.pc = "idle"
  BY DEF RelayReads
<1>3. relay' \in [pc : {"idle", "read", "write"}, rows : SUBSET OutRows, todo : SUBSET OutRows]
  BY <1>1
<1>4. OneTransaction'
  BY <1>1, <1>2 DEF IInv, OneTransaction
<1> QED
  BY <1>2, <1>3, <1>4, NothingCommits DEF IInv, TypeOK

LEMMA RelayLocksKeeps == ASSUME IInv, RelayLocks PROVE IInv'
<1>1. /\ relay.pc = "read" /\ relay' = [relay EXCEPT !.pc = "write"]
      /\ (relay.todo = {} /\ holder' = holder) \/ (holder = NoBody /\ holder' = RELAY)
      /\ UNCHANGED <<open, events, history, nextId, logClock, stream>>
  BY DEF RelayLocks
<1>2. /\ relay' \in [pc : {"idle", "read", "write"}, rows : SUBSET OutRows, todo : SUBSET OutRows]
      /\ relay'.pc = "write" /\ relay'.rows = relay.rows /\ relay'.todo = relay.todo
  BY <1>1 DEF IInv, TypeOK
<1>3. OneTransaction'
  <2>1. CASE relay.todo = {} /\ holder' = holder
    BY <1>1, <1>2, <2>1 DEF IInv, OneTransaction
  <2>2. CASE holder = NoBody /\ holder' = RELAY
    <3>1. open' = {} /\ RELAY # NoBody /\ RELAY \notin Appends
      BY <1>1, <2>2, SourcesAssumption DEF IInv, OneTransaction, RELAY, NoBody
    <3> QED
      BY <1>1, <1>2, <2>2, <3>1 DEF IInv, OneTransaction
  <2> QED
    BY <1>1, <2>1, <2>2
<1> QED
  BY <1>1, <1>2, <1>3, NothingCommits DEF IInv, TypeOK

LEMMA RelayWritesKeeps == ASSUME IInv, RelayWrites PROVE IInv'
<1>1. PICK i \in relay.todo : /\ relay.pc = "write" /\ Insert(i, logClock)
                              /\ relay' = [relay EXCEPT !.todo = relay.todo \ {i}]
  BY DEF RelayWrites
<1>2. UNCHANGED <<holder, events, history, logClock, stream>>
  BY DEF RelayWrites
<1>3. /\ relay' \in [pc : {"idle", "read", "write"}, rows : SUBSET OutRows, todo : SUBSET OutRows]
      /\ relay'.pc = "write" /\ relay'.rows = relay.rows /\ relay'.todo = relay.todo \ {i}
      /\ i \in OutRows /\ i \in relay.rows
  BY <1>1 DEF IInv, TypeOK, OneTransaction
<1>4. holder = RELAY
  BY <1>1 DEF IInv, OneTransaction
<1> DEFINE x == [id |-> nextId, at |-> logClock, src |-> i]
<1>5. open' = open \cup {x} \/ open' = open
  BY <1>1, InsertsOne DEF IInv, TypeOK
<1>6. x.src = i
  OBVIOUS
<1> HIDE DEF x
<1>7. OneTransaction'
  BY <1>1, <1>2, <1>3, <1>4, <1>5, <1>6, SourcesAssumption DEF IInv, OneTransaction, RELAY, NoBody
<1> QED
  BY <1>1, <1>2, <1>3, <1>4, <1>7, InsertKeeps DEF IInv, TypeOK

LEMMA RelayCommitsKeeps == ASSUME IInv, RelayCommits PROVE IInv'
<1> DEFINE es == {e \in open : e.src \in relay.rows}
<1>1. /\ relay.pc = "write" /\ relay.todo = {} /\ CommitEvents(es) /\ relay' = NoRelay
      /\ holder' = IF holder = RELAY THEN NoBody ELSE holder
      /\ UNCHANGED <<nextId, logClock, stream>>
  BY DEF RelayCommits
<1>2. /\ NoRelay \in [pc : {"idle", "read", "write"}, rows : SUBSET OutRows, todo : SUBSET OutRows]
      /\ NoRelay.pc = "idle" /\ NoRelay.rows = {} /\ NoRelay.todo = {}
  BY DEF NoRelay
<1>3. open' = open \ es
  BY <1>1 DEF CommitEvents
<1>4. CASE holder = RELAY
  <2>1. open' = {}
    BY <1>3, <1>4 DEF IInv, OneTransaction
  <2>2. OneTransaction'
    BY <1>1, <1>2, <1>4, <2>1, SourcesAssumption DEF OneTransaction, RELAY, NoBody
  <2> QED
    BY <1>1, <1>2, <1>4, <2>1, <2>2, CommitKeeps DEF IInv, TypeOK
<1>5. CASE holder # RELAY
  <2>1. es = {}
    BY <1>5, SourcesAssumption DEF IInv, TypeOK, OneTransaction
  <2>2. OneTransaction'
    BY <1>1, <1>2, <1>3, <1>5, <2>1 DEF IInv, OneTransaction
  <2> QED
    BY <1>1, <1>2, <1>5, <2>1, <2>2, CommitKeeps DEF IInv, TypeOK
<1> QED
  BY <1>4, <1>5

LEMMA RelayDiesKeeps == ASSUME IInv, RelayDies PROVE IInv'
<1>1. /\ open' = {e \in open : e.src \notin relay.rows} /\ relay' = NoRelay
      /\ holder' = IF holder = RELAY THEN NoBody ELSE holder
      /\ UNCHANGED <<events, history, nextId, logClock, stream>>
  BY DEF RelayDies
<1>2. /\ NoRelay \in [pc : {"idle", "read", "write"}, rows : SUBSET OutRows, todo : SUBSET OutRows]
      /\ NoRelay.pc = "idle" /\ NoRelay.rows = {} /\ NoRelay.todo = {}
  BY DEF NoRelay
<1>3. OneTransaction'
  <2>1. CASE holder = RELAY
    <3>1. open' = {}
      BY <1>1, <2>1 DEF IInv, OneTransaction
    <3> QED
      BY <1>1, <1>2, <2>1, <3>1, SourcesAssumption DEF OneTransaction, RELAY, NoBody
  <2>2. CASE holder # RELAY
    BY <1>1, <1>2, <2>2 DEF IInv, OneTransaction
  <2> QED
    BY <2>1, <2>2
<1> QED
  BY <1>1, <1>2, <1>3, NothingCommits DEF IInv, TypeOK

\* A stream that starts anew starts where every event has committed.
LEMMA ConnectKeeps == ASSUME IInv, Connect PROVE IInv'
<1>1. UNCHANGED <<relay, holder, open, events, history, nextId, logClock>>
  BY DEF Connect
<1>2. /\ stream' \in [on : BOOLEAN, cursor : Nat, from : Nat, seen : SUBSET Nat, missed : SUBSET Event]
      /\ \/ stream'.cursor = Newest /\ stream'.from = Newest
         \/ /\ stream'.cursor = stream.cursor /\ stream'.from = stream.from
            /\ stream'.seen = stream.seen
  <2>1. Newest \in Nat
    BY NewestIsAnEvent DEF IInv
  <2>2. CASE stream.cursor = 0 \/ CursorExpired(stream.cursor)
    <3>1. stream' = [stream EXCEPT !.on = TRUE, !.cursor = Newest, !.from = Newest]
      BY <2>2 DEF Connect
    <3> QED
      BY <2>1, <3>1 DEF IInv, TypeOK
  <2>3. CASE ~(stream.cursor = 0 \/ CursorExpired(stream.cursor))
    <3>1. PICK m \in SUBSET Event : stream' = [stream EXCEPT !.on = TRUE, !.missed = m]
      <4> DEFINE m == {e \in history \ events : /\ e.id > stream.cursor
                                                 /\ e.src \notin Partials
                                                 /\ \A c \in {e1 \in history : e1.id = stream.cursor} : Earlier(c, e)}
      <4>1. m \in SUBSET Event
        BY DEF IInv, TypeOK
      <4>2. stream' = [stream EXCEPT !.on = TRUE, !.missed = m]
        BY <2>3 DEF Connect
      <4> HIDE DEF m
      <4> QED
        BY <4>1, <4>2
    <3> QED
      BY <3>1 DEF IInv, TypeOK
  <2> QED
    BY <2>2, <2>3
<1>3. TypeOK' /\ InOrder' /\ OneTransaction'
  BY <1>1, <1>2 DEF IInv, TypeOK, InOrder, OneTransaction
<1>4. CursorBehind'
  BY <1>1, <1>2, NewestIsAnEvent DEF IInv, CursorBehind
<1>5. NoEventSkipped'
  <2>1. CASE stream'.cursor = Newest /\ stream'.from = Newest
    <3>1. \A e \in events : ~(Newest < e.id /\ e.id <= Newest)
      BY NewestIsAnEvent DEF IInv, TypeOK, Event
    <3> QED
      BY <1>1, <2>1, <3>1 DEF NoEventSkipped
  <2>2. CASE stream'.cursor = stream.cursor /\ stream'.from = stream.from /\ stream'.seen = stream.seen
    BY <1>1, <2>2 DEF IInv, NoEventSkipped
  <2> QED
    BY <1>2, <2>1, <2>2
<1> QED
  BY <1>3, <1>4, <1>5 DEF IInv

\* The stream moves to the next event there is: what it passes, it has given.
LEMMA DeliverKeeps == ASSUME IInv, Deliver PROVE IInv'
<1>1. UNCHANGED <<relay, holder, open, events, history, nextId, logClock>>
  BY DEF Deliver
<1>2. PICK e \in events :
        /\ e.id > stream.cursor /\ \A f \in events : f.id > stream.cursor => e.id <= f.id
        /\ stream' = [stream EXCEPT !.cursor = e.id, !.seen = stream.seen \cup {e.id}]
  BY DEF Deliver
<1>3. e \in history /\ e.id \in Nat
  BY DEF IInv, TypeOK, Event
<1>4. /\ stream' \in [on : BOOLEAN, cursor : Nat, from : Nat, seen : SUBSET Nat, missed : SUBSET Event]
      /\ stream'.cursor = e.id /\ stream'.from = stream.from
      /\ stream'.seen = stream.seen \cup {e.id}
  BY <1>2, <1>3 DEF IInv, TypeOK
<1>5. TypeOK' /\ InOrder' /\ OneTransaction'
  BY <1>1, <1>4 DEF IInv, TypeOK, InOrder, OneTransaction
<1>6. CursorBehind'
  BY <1>1, <1>3, <1>4 DEF IInv, InOrder, CursorBehind
<1>7. NoEventSkipped'
  <2>1. ASSUME NEW f \in events, stream.from < f.id, f.id <= e.id
        PROVE  f.id \in stream.seen \cup {e.id}
    <3>1. f.id \in Nat /\ stream.cursor \in Nat
      BY DEF IInv, TypeOK, Event
    <3>2. CASE f.id <= stream.cursor
      BY <2>1, <3>2 DEF IInv, NoEventSkipped
    <3>3. CASE f.id > stream.cursor
      <4>1. f.id = e.id
        BY <1>2, <1>3, <2>1, <3>1, <3>3
      <4> QED
        BY <4>1
    <3> QED
      BY <3>1, <3>2, <3>3
  <2> QED
    BY <1>1, <1>4, <2>1 DEF NoEventSkipped
<1> QED
  BY <1>5, <1>6, <1>7 DEF IInv

LEMMA DisconnectKeeps == ASSUME IInv, Disconnect PROVE IInv'
<1>1. /\ UNCHANGED <<relay, holder, open, events, history, nextId, logClock>>
      /\ stream' = [stream EXCEPT !.on = FALSE]
  BY DEF Disconnect
<1>2. /\ stream' \in [on : BOOLEAN, cursor : Nat, from : Nat, seen : SUBSET Nat, missed : SUBSET Event]
      /\ stream'.cursor = stream.cursor /\ stream'.from = stream.from /\ stream'.seen = stream.seen
  BY <1>1 DEF IInv, TypeOK
<1>3. TypeOK' /\ InOrder' /\ OneTransaction' /\ CursorBehind'
  BY <1>1, <1>2 DEF IInv, TypeOK, InOrder, OneTransaction, CursorBehind
<1>4. NoEventSkipped'
  BY <1>1, <1>2 DEF IInv, NoEventSkipped
<1> QED
  BY <1>3, <1>4 DEF IInv

-----------------------------------------------------------------------------
(* The theorem *)

LEMMA StepKeeps == IInv /\ [LogNext]_logVars => IInv'
<1> SUFFICES ASSUME IInv, [LogNext]_logVars PROVE IInv'
  OBVIOUS
<1>1. CASE UNCHANGED logVars
  BY <1>1, QuietKeeps DEF logVars, IInv, TypeOK
<1>2. ASSUME NEW s \in Appends, AppendEvent(s) \/ CommitAppend(s) \/ RollbackAppend(s) PROVE IInv'
  BY <1>2, AppendEventKeeps, CommitAppendKeeps, RollbackAppendKeeps
<1>3. ASSUME NEW i \in OutRows, WriteOutbox(i) \/ CommitOutbox(i) PROVE IInv'
  BY <1>3, QuietKeeps DEF WriteOutbox, CommitOutbox, IInv, TypeOK
<1>4. CASE DropPartials
  BY <1>4, QuietKeeps DEF DropPartials, IInv, TypeOK
<1>5. CASE PruneRelayed \/ Tick
  BY <1>5, QuietKeeps DEF PruneRelayed, Tick, IInv, TypeOK
<1>6. CASE PruneEvents
  <2>1. events' \subseteq events
    BY <1>6 DEF PruneEvents
  <2> QED
    BY <1>6, <2>1, QuietKeeps DEF PruneEvents, IInv, TypeOK
<1> QED
  BY <1>1, <1>2, <1>3, <1>4, <1>5, <1>6, RelayReadsKeeps, RelayLocksKeeps, RelayWritesKeeps,
     RelayCommitsKeeps, RelayDiesKeeps, ConnectKeeps, DeliverKeeps, DisconnectKeeps DEF LogNext

\* A stream is given every event that is behind its cursor, although ids are handed out before
\* they are committed and several transactions append at once (stream.py; lock_conversations).
THEOREM StreamMissesNothing == LogSpec => []NoEventSkipped
<1>1. IInv => NoEventSkipped
  BY DEF IInv
<1> QED
  BY InitInv, StepKeeps, <1>1, PTL DEF LogSpec

-----------------------------------------------------------------------------
(* Jobs and the live reload *)

Busy == {t \in Tasks : work[t].at \in {"claimed", "running"}}

\* A job; S are the registries there have been.
JobRow(S) == [at : {"todo", "claimed", "running", "dead", "done"}, saw : S, open : BOOLEAN]

\* _active_jobs counts the jobs that are claimed or running; while it loads, the main thread, which
\* is the only one that claims, has none of them.
ReloadInv ==
    /\ \E S : work \in [Tasks -> JobRow(S)]
    /\ IsFiniteSet(Busy) /\ active = Cardinality(Busy)
    /\ main.at \in {"discover", "load", "stopped"} => active = 0
    /\ \A t \in Busy : registry = work[t].saw
    /\ \A t \in Tasks : work[t].open => work[t].at = "running" /\ registry.hooks # {}

LEMMA NoneBusy ==
  ASSUME ReloadInv, active = 0
  PROVE  Busy = {}
BY FS_EmptySet DEF ReloadInv

LEMMA ReloadInvSafe == ReloadInv => JobKeepsItsLoad
<1> SUFFICES ASSUME ReloadInv PROVE JobKeepsItsLoad
  OBVIOUS
<1>1. active = 0 => Busy = {}
  BY NoneBusy
<1> QED
  BY <1>1 DEF ReloadInv, JobKeepsItsLoad, Busy

LEMMA ReloadInitInv == ReloadInit => ReloadInv
<1> SUFFICES ASSUME ReloadInit PROVE ReloadInv
  OBVIOUS
<1>1. Busy = {}
  BY DEF ReloadInit, Busy
<1>2. work \in [Tasks -> JobRow({Empty})]
  BY DEF ReloadInit, JobRow
<1> QED
  BY <1>1, <1>2, FS_EmptySet DEF ReloadInit, ReloadInv

\* A step that touches no job and no registry.
LEMMA JobsAlone ==
  ASSUME ReloadInv, UNCHANGED <<work, active, registry>>,
         main'.at \in {"discover", "load", "stopped"} => active = 0
  PROVE  ReloadInv'
<1>1. Busy' = Busy
  BY DEF Busy
<1> QED
  BY <1>1 DEF ReloadInv

\* A step of the reload: no job is claimed or running while the registries change.
LEMMA NobodyLooks ==
  ASSUME ReloadInv, UNCHANGED <<work, active>>, active = 0
  PROVE  ReloadInv'
<1>1. Busy' = Busy /\ Busy = {}
  BY NoneBusy DEF Busy
<1>2. \A t \in Tasks : ~work[t].open
  <2> SUFFICES ASSUME NEW t \in Tasks, work[t].open PROVE FALSE
    OBVIOUS
  <2>1. work[t].at = "running"
    BY DEF ReloadInv
  <2> QED
    BY <1>1, <2>1 DEF Busy
<1> QED
  BY <1>1, <1>2 DEF ReloadInv

\* What a step does to one job it does to no other.
LEMMA OneJob ==
  ASSUME NEW S, NEW jobs \in [Tasks -> JobRow(S)], NEW t \in Tasks, NEW row \in JobRow(S)
  PROVE  /\ [jobs EXCEPT ![t] = row] \in [Tasks -> JobRow(S)]
         /\ [jobs EXCEPT ![t] = row][t] = row
         /\ \A u \in Tasks : u # t => [jobs EXCEPT ![t] = row][u] = jobs[u]
OBVIOUS

LEMMA DeadRow ==
  ASSUME NEW S, NEW row \in JobRow(S)
  PROVE  /\ [row EXCEPT !.at = "dead"] \in JobRow(S)
         /\ [row EXCEPT !.at = "dead"].at = "dead"
         /\ [row EXCEPT !.at = "dead"].open = row.open
BY DEF JobRow

LEMMA MovedRow ==
  ASSUME NEW S, NEW row \in JobRow(S), NEW at \in {"running", "done"}, NEW opens \in BOOLEAN
  PROVE  /\ [row EXCEPT !.at = at, !.open = opens] \in JobRow(S)
         /\ [row EXCEPT !.at = at, !.open = opens].at = at
         /\ [row EXCEPT !.at = at, !.open = opens].saw = row.saw
         /\ [row EXCEPT !.at = at, !.open = opens].open = opens
BY DEF JobRow

\* The invariant after a step of one job that counts it in or out.
LEMMA JobSteps ==
  ASSUME ReloadInv, UNCHANGED registry, NEW t \in Tasks, NEW S, work \in [Tasks -> JobRow(S)], NEW row \in JobRow(S),
         work' = [work EXCEPT ![t] = row],
         row.open => row.at = "running" /\ registry.hooks # {},
         row.at \in {"claimed", "running"} => row.saw = registry,
         \/ t \notin Busy /\ row.at \in {"claimed", "running"} /\ active' = active + 1
         \/ t \in Busy /\ row.at \in {"claimed", "running"} /\ active' = active
         \/ t \in Busy /\ row.at \notin {"claimed", "running"} /\ active' = active - 1,
         main'.at \in {"discover", "load", "stopped"} => active' = 0
  PROVE  ReloadInv'
<1>1. /\ work' \in [Tasks -> JobRow(S)]
      /\ work'[t] = row
      /\ \A u \in Tasks : u # t => work'[u] = work[u]
  BY OneJob
<1>2. IsFiniteSet(Busy') /\ active' = Cardinality(Busy')
  <2>1. CASE t \notin Busy /\ row.at \in {"claimed", "running"} /\ active' = active + 1
    <3>1. Busy' = Busy \cup {t}
      BY <1>1, <2>1 DEF Busy
    <3> QED
      BY <2>1, <3>1, FS_AddElement DEF ReloadInv
  <2>2. CASE t \in Busy /\ row.at \in {"claimed", "running"} /\ active' = active
    <3>1. Busy' = Busy
      BY <1>1, <2>2 DEF Busy
    <3> QED
      BY <2>2, <3>1 DEF ReloadInv
  <2>3. CASE t \in Busy /\ row.at \notin {"claimed", "running"} /\ active' = active - 1
    <3>1. Busy' = Busy \ {t}
      BY <1>1, <2>3 DEF Busy
    <3> QED
      BY <2>3, <3>1, FS_RemoveElement DEF ReloadInv
  <2> QED
    BY <2>1, <2>2, <2>3
<1>3. ASSUME NEW u \in Busy' PROVE registry' = work'[u].saw
  <2>1. u \in Tasks
    BY DEF Busy
  <2>2. CASE u = t
    BY <1>1, <2>2 DEF Busy
  <2>3. CASE u # t
    <3>1. u \in Busy /\ work'[u] = work[u]
      BY <1>1, <2>1, <2>3 DEF Busy
    <3> QED
      BY <3>1 DEF ReloadInv
  <2> QED
    BY <2>2, <2>3
<1>4. ASSUME NEW u \in Tasks, work'[u].open PROVE work'[u].at = "running" /\ registry'.hooks # {}
  BY <1>1, <1>4 DEF ReloadInv
<1> QED
  BY <1>1, <1>2, <1>3, <1>4 DEF ReloadInv

\* A row may be read with more registries about.
LEMMA MoreLoads ==
  ASSUME NEW S, NEW s, work \in [Tasks -> JobRow(S)]
  PROVE  work \in [Tasks -> JobRow(S \cup {s})]
BY DEF JobRow

LEMMA TryDequeueKeeps ==
  ASSUME ReloadInv, TryDequeue
  PROVE  ReloadInv'
<1>1. main'.at = "top" /\ registry' = registry
  BY DEF TryDequeue, MainGoes
<1>2. CASE UNCHANGED <<work, active>>
  BY <1>1, <1>2, JobsAlone
<1>3. CASE \E t \in Tasks :
             /\ work[t].at = "todo"
             /\ work' = [work EXCEPT ![t] = [@ EXCEPT !.at = "claimed", !.saw = registry]]
             /\ active' = active + 1
  <2>1. PICK t \in Tasks : /\ work[t].at = "todo"
                           /\ work' = [work EXCEPT ![t] = [@ EXCEPT !.at = "claimed", !.saw = registry]]
                           /\ active' = active + 1
    BY <1>3
  <2>2. PICK S0 : work \in [Tasks -> JobRow(S0)]
    BY DEF ReloadInv
  <2> DEFINE S == S0 \cup {registry}
             row == [work[t] EXCEPT !.at = "claimed", !.saw = registry]
  <2>3. work \in [Tasks -> JobRow(S)]
    BY <2>2, MoreLoads
  <2>4. registry \in S /\ work[t] \in JobRow(S)
    BY <2>3
  <2>5. row \in JobRow(S) /\ row.at = "claimed" /\ row.saw = registry /\ row.open = work[t].open
    <3> DEFINE old == work[t]
    <3> HIDE DEF S, old
    <3>1. old \in JobRow(S) /\ registry \in S
      BY <2>4 DEF old
    <3>2. /\ [old EXCEPT !.at = "claimed", !.saw = registry] \in JobRow(S)
          /\ [old EXCEPT !.at = "claimed", !.saw = registry].at = "claimed"
          /\ [old EXCEPT !.at = "claimed", !.saw = registry].saw = registry
          /\ [old EXCEPT !.at = "claimed", !.saw = registry].open = old.open
      BY <3>1 DEF JobRow
    <3> QED
      BY <3>2 DEF old
  <2>6. work' = [work EXCEPT ![t] = row]
    BY <2>1
  <2>7. ~row.open /\ t \notin Busy
    BY <2>1, <2>5 DEF ReloadInv, Busy
  <2>8. /\ UNCHANGED registry
        /\ row.open => row.at = "running" /\ registry.hooks # {}
        /\ row.at \in {"claimed", "running"} => row.saw = registry
        /\ t \notin Busy /\ row.at \in {"claimed", "running"} /\ active' = active + 1
        /\ main'.at \in {"discover", "load", "stopped"} => active' = 0
    BY <1>1, <2>1, <2>5, <2>7
  <2> HIDE DEF S, row
  <2> QED
    BY <2>3, <2>5, <2>6, <2>8, JobSteps
<1> QED
  BY <1>2, <1>3 DEF TryDequeue

LEMMA RunJobKeeps ==
  ASSUME ReloadInv, NEW t \in Tasks, RunJob(t)
  PROVE  ReloadInv'
<1>1. UNCHANGED <<registry, main>> /\ work[t].at = "claimed"
  BY DEF RunJob
<1>2. t \in Busy /\ active # 0
  BY <1>1, NoneBusy DEF Busy
<1>3. PICK S : work \in [Tasks -> JobRow(S)]
  BY DEF ReloadInv
<1>4. work[t] \in JobRow(S) /\ work[t].saw = registry /\ ~work[t].open
  BY <1>1, <1>2, <1>3 DEF ReloadInv
<1>5. CASE work' = [work EXCEPT ![t].at = "dead"] /\ active' = active - 1
  <2> DEFINE row == [work[t] EXCEPT !.at = "dead"]
  <2>1. row \in JobRow(S) /\ row.at = "dead" /\ row.open = work[t].open
    BY <1>4, DeadRow
  <2>2. work' = [work EXCEPT ![t] = row]
    BY <1>5
  <2>3. /\ row.open => row.at = "running" /\ registry.hooks # {}
        /\ row.at \in {"claimed", "running"} => row.saw = registry
        /\ t \in Busy /\ row.at \notin {"claimed", "running"} /\ active' = active - 1
        /\ main'.at \in {"discover", "load", "stopped"} => active' = 0
    BY <1>1, <1>2, <1>4, <1>5, <2>1 DEF ReloadInv
  <2> HIDE DEF row
  <2> QED
    BY <1>1, <1>3, <2>1, <2>2, <2>3, JobSteps
<1>6. CASE work' = [work EXCEPT ![t].at = "running", ![t].open = registry.hooks # {}] /\ UNCHANGED active
  <2> DEFINE recorded == registry.hooks # {}
             row == [work[t] EXCEPT !.at = "running", !.open = recorded]
  <2>1. recorded \in BOOLEAN /\ (recorded => registry.hooks # {})
    OBVIOUS
  <2>2. work' = [work EXCEPT ![t] = row]
    BY <1>3, <1>6
  <2> HIDE DEF recorded
  <2>3. row \in JobRow(S) /\ row.at = "running" /\ row.open = recorded /\ row.saw = registry
    <3> DEFINE old == work[t]
    <3> HIDE DEF old
    <3>1. old \in JobRow(S)
      BY <1>4 DEF old
    <3>2. /\ [old EXCEPT !.at = "running", !.open = recorded] \in JobRow(S)
          /\ [old EXCEPT !.at = "running", !.open = recorded].at = "running"
          /\ [old EXCEPT !.at = "running", !.open = recorded].open = recorded
          /\ [old EXCEPT !.at = "running", !.open = recorded].saw = old.saw
      BY <2>1, <3>1 DEF JobRow
    <3> QED
      BY <1>4, <3>2 DEF old
  <2>4. /\ row.open => row.at = "running" /\ registry.hooks # {}
        /\ row.at \in {"claimed", "running"} => row.saw = registry
        /\ t \in Busy /\ row.at \in {"claimed", "running"} /\ active' = active
        /\ main'.at \in {"discover", "load", "stopped"} => active' = 0
    BY <1>1, <1>2, <1>6, <2>1, <2>3 DEF ReloadInv
  <2> HIDE DEF row
  <2> QED
    BY <1>1, <1>3, <2>2, <2>3, <2>4, JobSteps
<1> QED
  BY <1>5, <1>6 DEF RunJob

LEMMA FinalizeJobKeeps ==
  ASSUME ReloadInv, NEW t \in Tasks, FinalizeJob(t)
  PROVE  ReloadInv'
<1>1. UNCHANGED <<registry, main>> /\ work[t].at = "running" /\ active' = active - 1
  BY DEF FinalizeJob
<1>2. t \in Busy /\ active # 0
  BY <1>1, NoneBusy DEF Busy
<1>3. PICK S : work \in [Tasks -> JobRow(S)]
  BY DEF ReloadInv
<1>4. work[t] \in JobRow(S)
  BY <1>3
<1> DEFINE left == work[t].open /\ registry.hooks = {}
           row  == [work[t] EXCEPT !.at = "done", !.open = left]
<1>5. left \in BOOLEAN /\ ~left
  BY DEF ReloadInv
<1>6. work' = [work EXCEPT ![t] = row]
  BY <1>3 DEF FinalizeJob
<1> HIDE DEF left
<1>7. row \in JobRow(S) /\ row.at = "done" /\ row.open = left
  <2>1. "done" \in {"running", "done"}
    OBVIOUS
  <2> DEFINE old == work[t]
  <2>2. old \in JobRow(S)
    BY <1>4
  <2> HIDE DEF old, left
  <2>3. /\ [old EXCEPT !.at = "done", !.open = left] \in JobRow(S)
        /\ [old EXCEPT !.at = "done", !.open = left].at = "done"
        /\ [old EXCEPT !.at = "done", !.open = left].open = left
    BY <1>5, <2>1, <2>2, MovedRow
  <2> QED
    BY <2>3 DEF old
<1>8. /\ row.open => row.at = "running" /\ registry.hooks # {}
      /\ row.at \in {"claimed", "running"} => row.saw = registry
      /\ t \in Busy /\ row.at \notin {"claimed", "running"} /\ active' = active - 1
      /\ main'.at \in {"discover", "load", "stopped"} => active' = 0
  BY <1>1, <1>2, <1>5, <1>7 DEF ReloadInv
<1> HIDE DEF row
<1> QED
  BY <1>1, <1>3, <1>6, <1>7, <1>8, JobSteps

\* The steps of the main thread between two claims.
LEMMA MainKeeps ==
  ASSUME ReloadInv, Top \/ Discover \/ LoadModule \/ Loaded \/ Acquire \/ Drain
  PROVE  ReloadInv'
<1>1. UNCHANGED <<work, active>>
  BY DEF Top, Discover, LoadModule, Loaded, Acquire, Drain
<1>2. CASE active = 0
  BY <1>1, <1>2, NobodyLooks
<1>3. CASE active # 0
  <2>1. Top => UNCHANGED registry /\ main'.at = "acquire"
    BY <1>3 DEF Top, MayReload, MainGoes
  <2>2. Acquire => UNCHANGED registry /\ main'.at \in {"dequeue", "top"}
    BY DEF Acquire, MainGoes
  <2>3. ~Discover /\ ~LoadModule /\ ~Loaded /\ ~Drain
    BY <1>3 DEF Discover, LoadModule, Loaded, Drain, ReloadInv
  <2> QED
    BY <1>1, <2>1, <2>2, <2>3, JobsAlone
<1> QED
  BY <1>2, <1>3

\* A job sees one state of the registries from its claim to its end, however modules and reloads
\* come and go (_maybe_reload_bootstrap, which is skipped while workers are busy).
THEOREM JobsKeepTheirLoad == ReloadSpec => []JobKeepsItsLoad
<1>1. ReloadInv /\ [ReloadNext]_reloadVars => ReloadInv'
  <2> SUFFICES ASSUME ReloadInv, [ReloadNext]_reloadVars PROVE ReloadInv'
    OBVIOUS
  <2>1. CASE Top \/ Discover \/ LoadModule \/ Loaded \/ Acquire \/ Drain
    BY <2>1, MainKeeps
  <2>2. CASE TryDequeue
    BY <2>2, TryDequeueKeeps
  <2>3. CASE \E t \in Tasks : RunJob(t) \/ FinalizeJob(t)
    BY <2>3, RunJobKeeps, FinalizeJobKeeps
  <2>4. CASE HandleSignal \/ EditDisk \/ UNCHANGED reloadVars
    <3>1. UNCHANGED <<work, active, registry, main>>
      BY <2>4 DEF HandleSignal, EditDisk, reloadVars
    <3> QED
      BY <3>1, JobsAlone DEF ReloadInv
  <2> QED
    BY <2>1, <2>2, <2>3, <2>4 DEF ReloadNext
<1> QED
  BY <1>1, ReloadInitInv, ReloadInvSafe, PTL DEF ReloadSpec

-----------------------------------------------------------------------------
(* Conversation: what retention deletes *)

ChatRows == [status : {"active", "archived", "deleted"}, why : {"none", "manual", "idle", "deleted"},
             pinned : BOOLEAN, idle : BOOLEAN, old : BOOLEAN]
MsgRows(K) == [state : {"none", "pending", "published", "terminal"}, chat : Chats \cup {0}, key : K]
ActorRows(K) == [pc : {"idle", "duplicate", "complete", "publish", "record", "answered"},
                 msg : Messages \cup {0}, chat : Chats \cup {0}, key : K]

\* K holds the keys of the requests, and 0 for none.
ChatTypes(K) ==
    /\ 0 \in K
    /\ chat \in [Chats -> ChatRows]
    /\ msg \in [Messages -> MsgRows(K)]
    /\ actor \in [Actors -> ActorRows(K)]

\* A conversation of the panel that was archived for being idle has only closed messages.
IdleIsClosed(c) ==
    chat[c].status = "archived" /\ chat[c].why # "manual" => \A m \in OfChat(c) : msg[m].state = "terminal"

ChatInv ==
    /\ \E K : ChatTypes(K)
    /\ \A p \in Posts : actor[p].chat \in Chats
    /\ \A m \in Messages : msg[m].state # "none" => msg[m].chat \in Chats
    /\ \A c \in Chats \ Channels : IdleIsClosed(c)

\* What the rows of messages do when no request adds one.
Advance ==
    \A m \in Messages :
        \/ msg'[m] = msg[m]
        \/ msg'[m].state = "none"
        \/ msg'[m].chat = msg[m].chat /\ msg[m].state # "none" /\ msg'[m].state \in {"published", "terminal"}
           /\ (msg[m].state = "terminal" => msg'[m].state = "terminal")

LEMMA ChatInitInv == ChatInit => ChatInv
<1> SUFFICES ASSUME ChatInit PROVE ChatInv
  OBVIOUS
<1>1. PICK to \in Targets :
        actor = [a \in Actors |-> IF a \in Posts THEN [NoActor EXCEPT !.chat = to[a].chat, !.key = to[a].key] ELSE NoActor]
  BY DEF ChatInit
<1> DEFINE K == {to[p].key : p \in Posts} \cup {0}
<1>2. \A p \in Posts : actor[p] = [pc |-> "idle", msg |-> 0, chat |-> to[p].chat, key |-> to[p].key] /\ to[p].chat \in Chats
  BY <1>1, TargetsAssumption DEF Actors, NoActor
<1>3. \A a \in Actors : actor[a] \in ActorRows(K)
  <2>1. ASSUME NEW a \in Actors, a \notin Posts PROVE actor[a] \in ActorRows(K)
    BY <1>1, <2>1 DEF NoActor, ActorRows
  <2>2. ASSUME NEW a \in Posts PROVE actor[a] \in ActorRows(K)
    <3>1. to[a].key \in K /\ to[a].chat \in Chats
      BY TargetsAssumption
    <3>2. actor[a] = [pc |-> "idle", msg |-> 0, chat |-> to[a].chat, key |-> to[a].key]
      BY <1>2
    <3> HIDE DEF K
    <3> QED
      BY <3>1, <3>2 DEF ActorRows
  <2> QED
    BY <2>1, <2>2
<1>4. actor \in [Actors -> ActorRows(K)]
  BY <1>1, <1>3
<1>5. msg \in [Messages -> MsgRows(K)] /\ \A m \in Messages : msg[m].state = "none"
  <2>1. NoMsg \in MsgRows(K)
    BY DEF NoMsg, MsgRows
  <2>2. msg = [m \in Messages |-> NoMsg] /\ NoMsg.state = "none"
    BY DEF ChatInit, NoMsg
  <2> HIDE DEF K
  <2> QED
    BY <2>1, <2>2
<1>6. chat \in [Chats -> ChatRows] /\ \A c \in Chats : chat[c].status = "active"
  BY DEF ChatInit, ChatRows
<1>7. 0 \in K
  OBVIOUS
<1> HIDE DEF K
<1>8. ChatTypes(K)
  BY <1>4, <1>5, <1>6, <1>7 DEF ChatTypes
<1>9. \A c \in Chats \ Channels : IdleIsClosed(c)
  BY <1>6 DEF IdleIsClosed
<1> QED
  <2>1. ASSUME NEW p \in Posts PROVE actor[p].chat \in Chats
    <3>1. actor[p] = [pc |-> "idle", msg |-> 0, chat |-> to[p].chat, key |-> to[p].key]
      BY <1>2
    <3>2. actor[p].chat = to[p].chat
      BY <3>1
    <3> QED
      BY <3>2, TargetsAssumption
  <2> QED
    BY <1>5, <1>8, <1>9, <2>1 DEF ChatInv

-----------------------------------------------------------------------------
(* Conversation: kinds of steps *)

\* The rows change, and no conversation that could have an open message becomes idle.
LEMMA RowsChange ==
  ASSUME NEW K, ChatTypes(K), ChatInv,
         chat' \in [Chats -> ChatRows], msg' \in [Messages -> MsgRows(K)], Advance, UNCHANGED actor,
         \A c \in Chats \ Channels :
             \/ chat'[c].status = "archived" /\ chat'[c].why # "manual"
                => chat[c].status = "archived" /\ chat[c].why # "manual"
             \/ \A m \in OfChat(c) : msg[m].state = "terminal"
  PROVE  ChatInv'
<1>1. ChatTypes(K)'
  BY DEF ChatTypes
<1>2. \A m \in Messages : msg'[m].state # "none" => msg'[m].chat \in Chats
  BY DEF ChatInv, Advance
<1>3. ASSUME NEW c \in Chats \ Channels PROVE IdleIsClosed(c)'
  <2>1. SUFFICES ASSUME chat'[c].status = "archived", chat'[c].why # "manual",
                        NEW m \in Messages, msg'[m].state # "none", msg'[m].chat = c
                 PROVE  msg'[m].state = "terminal"
    BY DEF IdleIsClosed, OfChat
  <2>2. \A n \in OfChat(c) : msg[n].state = "terminal"
    BY <2>1 DEF ChatInv, IdleIsClosed
  <2>3. msg[m].state # "none" /\ msg[m].chat = c
    BY <2>1 DEF Advance
  <2>4. msg[m].state = "terminal"
    BY <2>2, <2>3 DEF OfChat
  <2> QED
    BY <2>1, <2>4 DEF Advance
<1> QED
  BY <1>1, <1>2, <1>3 DEF ChatInv

\* A request or the sweep moves on, and the rows stay.
LEMMA ActorsMove ==
  ASSUME NEW K, ChatTypes(K), ChatInv, actor' \in [Actors -> ActorRows(K)], UNCHANGED <<chat, msg>>,
         \A p \in Posts : actor'[p].chat = actor[p].chat
  PROVE  ChatInv'
<1>1. ChatTypes(K)'
  BY DEF ChatTypes
<1>2. \A c \in Chats \ Channels : IdleIsClosed(c)'
  BY DEF ChatInv, IdleIsClosed, OfChat
<1> QED
  BY <1>1, <1>2 DEF ChatInv

LEMMA OneActor ==
  ASSUME NEW K, ChatTypes(K), NEW a \in Actors, NEW pc \in {"idle", "duplicate", "complete", "publish", "record", "answered"},
         ActorGoes(a, pc)
  PROVE  actor' \in [Actors -> ActorRows(K)] /\ \A p \in Posts : actor'[p].chat = actor[p].chat
<1>1. actor \in [Actors -> ActorRows(K)] /\ actor' = [actor EXCEPT ![a].pc = pc]
  BY DEF ChatTypes, ActorGoes
<1>2. actor[a] \in ActorRows(K)
  BY <1>1
<1> DEFINE r == [actor[a] EXCEPT !.pc = pc]
<1>3. r \in ActorRows(K) /\ r.chat = actor[a].chat
  BY <1>2 DEF ActorRows
<1>4. actor' = [actor EXCEPT ![a] = r]
  BY <1>1
<1> HIDE DEF r
<1> QED
  BY <1>1, <1>3, <1>4 DEF Actors

\* A message moves on.
LEMMA OneMessage ==
  ASSUME NEW K, ChatTypes(K), NEW m, NEW s \in {"published", "terminal"},
         msg[m].state \in Unsettled, msg' = [msg EXCEPT ![m].state = s]
  PROVE  msg' \in [Messages -> MsgRows(K)] /\ Advance
<1>1. msg \in [Messages -> MsgRows(K)]
  BY DEF ChatTypes
<1>2. CASE m \in Messages
  <2> DEFINE r == [msg[m] EXCEPT !.state = s]
  <2>1. r \in MsgRows(K) /\ r.state = s /\ r.chat = msg[m].chat
    BY <1>1, <1>2 DEF MsgRows
  <2>2. msg' = [msg EXCEPT ![m] = r]
    OBVIOUS
  <2> HIDE DEF r
  <2> QED
    BY <1>1, <1>2, <2>1, <2>2 DEF Advance, Unsettled
<1>3. CASE m \notin Messages
  <2>1. msg' = msg
    BY <1>1, <1>3
  <2> QED
    BY <1>1, <2>1 DEF Advance
<1> QED
  BY <1>2, <1>3

\* The row of one conversation is written.
LEMMA OneChat ==
  ASSUME NEW K, ChatTypes(K), NEW c, c \in Chats => chat[c] \in ChatRows, NEW row,
         c \in Chats => row \in ChatRows, chat' = [chat EXCEPT ![c] = row]
  PROVE  /\ chat' \in [Chats -> ChatRows] /\ \A d \in Chats : d # c => chat'[d] = chat[d]
         /\ c \in Chats => chat'[c] = row
<1>1. chat \in [Chats -> ChatRows]
  BY DEF ChatTypes
<1> QED
  BY <1>1

-----------------------------------------------------------------------------
(* Conversation: requests *)

LEMMA SubmitKeeps ==
  ASSUME ChatInv, NEW p \in Posts, Submit(p)
  PROVE  ChatInv'
<1> DEFINE c == actor[p].chat
<1>1. PICK K : ChatTypes(K)
  BY DEF ChatInv
<1>2. p \in Actors /\ c \in Chats /\ chat \in [Chats -> ChatRows] /\ msg \in [Messages -> MsgRows(K)]
      /\ actor \in [Actors -> ActorRows(K)] /\ actor[p] \in ActorRows(K)
  BY <1>1 DEF ChatInv, ChatTypes, Actors
<1>3. CASE /\ ActorGoes(p, IF chat[c].status # "deleted" THEN "duplicate" ELSE "answered") /\ UNCHANGED <<chat, msg>>
  <2>1. actor' \in [Actors -> ActorRows(K)] /\ \A q \in Posts : actor'[q].chat = actor[q].chat
    BY <1>1, <1>2, <1>3, OneActor
  <2> QED
    BY <1>1, <1>3, <2>1, ActorsMove
<1>4. ASSUME NEW m \in Messages, NextMsg(m),
             msg' = [msg EXCEPT ![m] = [state |-> "pending", chat |-> c, key |-> actor[p].key]],
             actor' = [actor EXCEPT ![p].pc = "complete", ![p].msg = m],
             chat' = [chat EXCEPT ![c] = [Reactivated(@) EXCEPT !.idle = FALSE]]
      PROVE  ChatInv'
  <2> DEFINE a == [[actor[p] EXCEPT !.pc = "complete"] EXCEPT !.msg = m]
             r == [state |-> "pending", chat |-> c, key |-> actor[p].key]
             row == [Reactivated(chat[c]) EXCEPT !.idle = FALSE]
  <2>1. a \in ActorRows(K) /\ a.chat = actor[p].chat /\ actor' = [actor EXCEPT ![p] = a]
    BY <1>2, <1>4 DEF ActorRows
  <2>2. r \in MsgRows(K) /\ r.chat = c /\ r.state = "pending"
    BY <1>2 DEF MsgRows, ActorRows
  <2>3. row \in ChatRows /\ row.status = "active"
    <3>1. chat[c] \in ChatRows
      BY <1>2
    <3>2. Reactivated(chat[c]) \in ChatRows /\ Reactivated(chat[c]).status = "active"
      BY <3>1 DEF Reactivated, ChatRows
    <3> QED
      BY <3>2 DEF ChatRows
  <2>4. msg' = [msg EXCEPT ![m] = r] /\ chat' = [chat EXCEPT ![c] = row]
    BY <1>4
  <2> HIDE DEF a, r, row
  <2>5. actor' \in [Actors -> ActorRows(K)] /\ \A q \in Posts : actor'[q].chat = actor[q].chat
    BY <1>2, <2>1 DEF Actors
  <2>6. /\ msg' \in [Messages -> MsgRows(K)] /\ msg'[m] = r /\ \A n \in Messages : n # m => msg'[n] = msg[n]
        /\ chat' \in [Chats -> ChatRows] /\ chat'[c].status = "active" /\ \A d \in Chats : d # c => chat'[d] = chat[d]
    BY <1>2, <2>2, <2>3, <2>4
  <2>7. ChatTypes(K)'
    BY <1>1, <2>5, <2>6 DEF ChatTypes
  <2>8. \A n \in Messages : msg'[n].state # "none" => msg'[n].chat \in Chats
    BY <1>2, <2>2, <2>6 DEF ChatInv
  <2>9. ASSUME NEW d \in Chats \ Channels PROVE IdleIsClosed(d)'
    <3>1. CASE d = c
      BY <2>6, <3>1 DEF IdleIsClosed
    <3>2. CASE d # c
      <4>1. IdleIsClosed(d) /\ chat'[d] = chat[d]
        BY <2>6, <3>2 DEF ChatInv
      <4>2. \A n \in OfChat(d)' : n \in OfChat(d) /\ msg'[n] = msg[n]
        BY <2>2, <2>6, <3>2 DEF OfChat
      <4> QED
        BY <4>1, <4>2 DEF IdleIsClosed
    <3> QED
      BY <3>1, <3>2
  <2> QED
    BY <2>5, <2>7, <2>8, <2>9 DEF ChatInv
<1> QED
  BY <1>3, <1>4 DEF Submit

LEMMA DuplicateKeeps ==
  ASSUME ChatInv, NEW p \in Posts, Duplicate(p)
  PROVE  ChatInv'
<1> DEFINE c == actor[p].chat
<1>1. PICK K : ChatTypes(K)
  BY DEF ChatInv
<1>2. p \in Actors /\ c \in Chats /\ chat \in [Chats -> ChatRows] /\ msg \in [Messages -> MsgRows(K)]
      /\ actor \in [Actors -> ActorRows(K)] /\ actor[p] \in ActorRows(K) /\ UNCHANGED msg
  BY <1>1 DEF ChatInv, ChatTypes, Actors, Duplicate
<1>3. CASE ActorGoes(p, "answered") /\ UNCHANGED chat
  <2>1. actor' \in [Actors -> ActorRows(K)] /\ \A q \in Posts : actor'[q].chat = actor[q].chat
    BY <1>1, <1>2, <1>3, OneActor
  <2> QED
    BY <1>1, <1>2, <1>3, <2>1, ActorsMove
<1>4. ASSUME chat' = [chat EXCEPT ![c] = Reactivated(@)], NEW m \in Messages,
             actor' = [actor EXCEPT ![p].pc = "complete", ![p].msg = m]
      PROVE  ChatInv'
  <2> DEFINE a == [[actor[p] EXCEPT !.pc = "complete"] EXCEPT !.msg = m]
             row == Reactivated(chat[c])
  <2>1. a \in ActorRows(K) /\ a.chat = actor[p].chat /\ actor' = [actor EXCEPT ![p] = a]
    BY <1>2, <1>4 DEF ActorRows
  <2>2. row \in ChatRows /\ row.status = "active" /\ chat' = [chat EXCEPT ![c] = row]
    <3>1. chat[c] \in ChatRows
      BY <1>2
    <3> QED
      BY <1>4, <3>1 DEF Reactivated, ChatRows
  <2> HIDE DEF a, row
  <2>3. actor' \in [Actors -> ActorRows(K)] /\ \A q \in Posts : actor'[q].chat = actor[q].chat
    BY <1>2, <2>1 DEF Actors
  <2>4. chat' \in [Chats -> ChatRows] /\ chat'[c].status = "active" /\ \A d \in Chats : d # c => chat'[d] = chat[d]
    BY <1>2, <2>2
  <2>5. ChatTypes(K)'
    BY <1>1, <1>2, <2>3, <2>4 DEF ChatTypes
  <2>6. \A d \in Chats \ Channels : IdleIsClosed(d)'
    BY <1>2, <2>4 DEF ChatInv, IdleIsClosed, OfChat
  <2> QED
    BY <1>2, <2>3, <2>5, <2>6 DEF ChatInv
<1>5. \A m \in WithKey(c, actor[p].key) : m \in Messages
  BY DEF WithKey, OfChat
<1> QED
  BY <1>3, <1>4, <1>5 DEF Duplicate

LEMMA ActorKeeps ==
  ASSUME ChatInv, NEW a \in Actors,
         Completes(a) \/ ActorDies(a) \/ (a \in Posts /\ RegenerateRefused(a))
  PROVE  ChatInv'
<1>1. PICK K : ChatTypes(K)
  BY DEF ChatInv
<1>2. CASE CompleteRecords(a)
  <2> DEFINE m == actor[a].msg
  <2>1. /\ ActorGoes(a, "answered") /\ UNCHANGED chat
        /\ msg' = msg \/ (msg[m].state \in Unsettled /\ \E s \in {"published", "terminal"} : msg' = [msg EXCEPT ![m].state = s])
    BY <1>2 DEF CompleteRecords, Unsettled
  <2>2. actor' \in [Actors -> ActorRows(K)] /\ \A p \in Posts : actor'[p].chat = actor[p].chat
    BY <1>1, <2>1, OneActor
  <2>3. msg' \in [Messages -> MsgRows(K)] /\ Advance
    <3>1. CASE msg' = msg
      BY <1>1, <3>1 DEF ChatTypes, Advance
    <3>2. CASE msg' # msg
      BY <1>1, <2>1, <3>2, OneMessage
    <3> QED
      BY <3>1, <3>2
  <2>4. ChatTypes(K)'
    BY <1>1, <2>1, <2>2, <2>3 DEF ChatTypes
  <2>5. \A n \in Messages : msg'[n].state # "none" => msg'[n].chat \in Chats
    BY <2>3 DEF ChatInv, Advance
  <2>6. ASSUME NEW c \in Chats \ Channels PROVE IdleIsClosed(c)'
    BY <2>1, <2>3 DEF ChatInv, IdleIsClosed, OfChat, Advance
  <2> QED
    BY <2>2, <2>4, <2>5, <2>6 DEF ChatInv
<1>3. CASE \E pc \in {"idle", "duplicate", "complete", "publish", "record", "answered"} : ActorGoes(a, pc) /\ UNCHANGED <<chat, msg>>
  <2>1. actor' \in [Actors -> ActorRows(K)] /\ \A p \in Posts : actor'[p].chat = actor[p].chat
    BY <1>1, <1>3, OneActor
  <2> QED
    BY <1>1, <1>3, <2>1, ActorsMove
<1>4. CompleteReads(a) \/ CompletePublishes(a) \/ ActorDies(a) \/ RegenerateRefused(a) =>
        \E pc \in {"idle", "duplicate", "complete", "publish", "record", "answered"} : ActorGoes(a, pc) /\ UNCHANGED <<chat, msg>>
  BY DEF CompleteReads, CompletePublishes, ActorDies, RegenerateRefused
<1> QED
  BY <1>2, <1>3, <1>4 DEF Completes

LEMMA SweepKeeps ==
  ASSUME ChatInv, NEW m \in Messages, SweepPending(m)
  PROVE  ChatInv'
<1>1. PICK K : ChatTypes(K)
  BY DEF ChatInv
<1> DEFINE a == [[NoActor EXCEPT !.pc = "complete"] EXCEPT !.msg = m]
<1>2. actor \in [Actors -> ActorRows(K)] /\ UNCHANGED <<chat, msg>> /\ actor' = [actor EXCEPT ![SWEEP] = a]
  BY <1>1 DEF SweepPending, ChatTypes
<1>3. a \in ActorRows(K)
  <2>1. 0 \in K
    BY <1>1 DEF ChatTypes
  <2>2. NoActor \in ActorRows(K)
    BY <2>1 DEF NoActor, ActorRows
  <2> QED
    BY <2>2 DEF ActorRows
<1> HIDE DEF a
<1>4. actor' \in [Actors -> ActorRows(K)] /\ \A p \in Posts : actor'[p].chat = actor[p].chat
  BY <1>2, <1>3, PostsAssumption DEF Actors
<1> QED
  BY <1>1, <1>2, <1>4, ActorsMove

-----------------------------------------------------------------------------
(* Conversation: jobs of messages *)

\* Only messages move on.
LEMMA MessagesMove ==
  ASSUME ChatInv, NEW K, ChatTypes(K), msg' \in [Messages -> MsgRows(K)], Advance, UNCHANGED <<chat, actor>>
  PROVE  ChatInv'
<1>1. chat' \in [Chats -> ChatRows]
  BY DEF ChatTypes
<1> QED
  BY <1>1, RowsChange

LEMMA TurnKeeps ==
  ASSUME ChatInv, NEW m \in Messages, TurnStarts(m) \/ TurnEnds(m)
  PROVE  ChatInv'
<1> DEFINE c == msg[m].chat
<1>1. PICK K : ChatTypes(K)
  BY DEF ChatInv
<1>2. chat \in [Chats -> ChatRows] /\ msg \in [Messages -> MsgRows(K)] /\ actor' = actor
  BY <1>1 DEF ChatTypes, TurnStarts, TurnEnds
<1>3. msg' \in [Messages -> MsgRows(K)] /\ Advance
  <2>1. CASE msg' = msg
    BY <1>2, <2>1 DEF Advance
  <2>2. CASE msg[m].state \in Unsettled /\ msg' = [msg EXCEPT ![m].state = "terminal"]
    BY <1>1, <2>2, OneMessage
  <2>3. msg' = msg \/ (msg[m].state \in Unsettled /\ msg' = [msg EXCEPT ![m].state = "terminal"])
    BY DEF TurnStarts, TurnEnds, Unsettled
  <2> QED
    BY <2>1, <2>2, <2>3
<1>4. chat' \in [Chats -> ChatRows] /\ \A d \in Chats \ Channels : chat'[d] = chat[d]
  <2>1. CASE chat' = chat
    BY <1>2, <2>1
  <2>2. CASE chat' # chat
    <3>1. PICK row : c \in Channels /\ chat' = [chat EXCEPT ![c] = row] /\ (c \in Chats => row \in ChatRows)
      <4>1. c \in Chats => chat[c] \in ChatRows
        BY <1>2
      <4>2. CASE TurnStarts(m)
        <5>1. c \in Channels /\ chat' = [chat EXCEPT ![c] = Linked(chat[c], msg[m].state \in {"published", "terminal"})]
          BY <2>2, <4>2 DEF TurnStarts
        <5>2. c \in Chats => Linked(chat[c], msg[m].state \in {"published", "terminal"}) \in ChatRows
          BY <4>1 DEF Linked, ChatRows
        <5> QED
          BY <5>1, <5>2
      <4>3. CASE TurnEnds(m)
        <5>1. c \in Channels /\ chat' = [chat EXCEPT ![c] = [chat[c] EXCEPT !.idle = FALSE]]
          BY <2>2, <4>3 DEF TurnEnds
        <5>2. c \in Chats => [chat[c] EXCEPT !.idle = FALSE] \in ChatRows
          BY <4>1 DEF ChatRows
        <5> QED
          BY <5>1, <5>2
      <4> QED
        BY <4>2, <4>3
    <3> QED
      BY <1>2, <3>1
  <2> QED
    BY <2>1, <2>2
<1>5. \A d \in Chats \ Channels : chat'[d].status = "archived" /\ chat'[d].why # "manual"
                                => chat[d].status = "archived" /\ chat[d].why # "manual"
  BY <1>4
<1> QED
  BY <1>1, <1>2, <1>3, <1>4, <1>5, RowsChange

LEMMA SettleKeeps ==
  ASSUME ChatInv, ReconcileTerminal \/ (\E m \in Messages : Unblock(m))
  PROVE  ChatInv'
<1>1. PICK K : ChatTypes(K)
  BY DEF ChatInv
<1>2. msg \in [Messages -> MsgRows(K)] /\ UNCHANGED <<chat, actor>>
  BY <1>1 DEF ChatTypes, ReconcileTerminal, Unblock
<1>3. CASE ReconcileTerminal
  <2>1. PICK D : D \subseteq {m \in Messages : msg[m].state = "published"}
                 /\ msg' = [m \in Messages |-> IF m \in D THEN [msg[m] EXCEPT !.state = "terminal"] ELSE msg[m]]
    BY <1>3 DEF ReconcileTerminal
  <2>2. ASSUME NEW m \in Messages
        PROVE  msg'[m] \in MsgRows(K) /\ (msg'[m] = msg[m] \/ (msg'[m].chat = msg[m].chat /\ msg[m].state = "published" /\ msg'[m].state = "terminal"))
    <3>1. msg[m] \in MsgRows(K) /\ msg'[m] = IF m \in D THEN [msg[m] EXCEPT !.state = "terminal"] ELSE msg[m]
      BY <1>2, <2>1
    <3>2. [msg[m] EXCEPT !.state = "terminal"] \in MsgRows(K)
      BY <3>1 DEF MsgRows
    <3> QED
      BY <2>1, <3>1, <3>2 DEF MsgRows
  <2>3. msg' \in [Messages -> MsgRows(K)] /\ Advance
    BY <2>1, <2>2 DEF Advance
  <2> QED
    BY <1>1, <1>2, <2>3, MessagesMove
<1>4. ASSUME NEW m \in Messages, Unblock(m) PROVE ChatInv'
  <2>1. msg[m].state \in Unsettled /\ msg' = [msg EXCEPT ![m].state = "terminal"]
    BY <1>4 DEF Unblock, Unsettled
  <2> QED
    BY <1>1, <1>2, <2>1, OneMessage, MessagesMove
<1> QED
  BY <1>3, <1>4

-----------------------------------------------------------------------------
(* Conversation: the user and retention *)

LEMMA DeletedKeeps ==
  ASSUME ChatInv, NEW c \in Chats, NEW why \in {"none", "manual", "idle", "deleted"}, Deleted(c, why), UNCHANGED actor
  PROVE  ChatInv'
<1>1. PICK K : ChatTypes(K)
  BY DEF ChatInv
<1>2. chat \in [Chats -> ChatRows] /\ msg \in [Messages -> MsgRows(K)] /\ 0 \in K /\ chat[c] \in ChatRows
  BY <1>1 DEF ChatTypes
<1> DEFINE row == [[[chat[c] EXCEPT !.status = "deleted"] EXCEPT !.why = why] EXCEPT !.pinned = FALSE]
           gone == [NoMsg EXCEPT !.chat = c]
<1>3. row \in ChatRows /\ row.status = "deleted" /\ chat' = [chat EXCEPT ![c] = row]
  BY <1>2 DEF Deleted, ChatRows
<1>4. gone \in MsgRows(K) /\ gone.state = "none" /\ msg' = [m \in Messages |-> IF m \in OfChat(c) THEN gone ELSE msg[m]]
  <2>1. gone = [state |-> "none", chat |-> c, key |-> 0]
    BY DEF NoMsg
  <2> QED
    BY <1>2, <2>1 DEF MsgRows, Deleted
<1> HIDE DEF row, gone
<1>5. chat' \in [Chats -> ChatRows] /\ chat'[c].status = "deleted" /\ \A d \in Chats : d # c => chat'[d] = chat[d]
  BY <1>2, <1>3
<1>6. msg' \in [Messages -> MsgRows(K)] /\ Advance
  BY <1>2, <1>4 DEF Advance
<1>7. \A d \in Chats \ Channels : chat'[d].status = "archived" /\ chat'[d].why # "manual"
                                => chat[d].status = "archived" /\ chat[d].why # "manual"
  BY <1>5
<1> QED
  BY <1>1, <1>5, <1>6, <1>7, RowsChange

\* A step that writes the row of one conversation.
LEMMA ChatKeeps ==
  ASSUME ChatInv, NEW c \in Chats, UNCHANGED <<msg, actor>>, NEW row \in ChatRows, chat' = [chat EXCEPT ![c] = row],
         row.status = "archived" /\ row.why # "manual" /\ c \notin Channels =>
             \/ chat[c].status = "archived" /\ chat[c].why # "manual"
             \/ \A m \in OfChat(c) : msg[m].state = "terminal"
  PROVE  ChatInv'
<1>1. PICK K : ChatTypes(K)
  BY DEF ChatInv
<1>2. chat \in [Chats -> ChatRows] /\ msg' \in [Messages -> MsgRows(K)] /\ Advance
  BY <1>1 DEF ChatTypes, Advance
<1>3. chat' \in [Chats -> ChatRows] /\ chat'[c] = row /\ \A d \in Chats : d # c => chat'[d] = chat[d]
  BY <1>2
<1>4. ASSUME NEW d \in Chats \ Channels
      PROVE  \/ chat'[d].status = "archived" /\ chat'[d].why # "manual"
                => chat[d].status = "archived" /\ chat[d].why # "manual"
             \/ \A m \in OfChat(d) : msg[m].state = "terminal"
  BY <1>3
<1> QED
  BY <1>1, <1>2, <1>3, <1>4, RowsChange

LEMMA UserKeeps ==
  ASSUME ChatInv, NEW c \in Chats, Archive(c) \/ Pin(c) \/ ChatAges(c)
  PROVE  ChatInv'
<1> DEFINE r == chat[c]
<1>1. r \in ChatRows /\ UNCHANGED <<msg, actor>>
  BY DEF ChatInv, ChatTypes, Archive, Pin, ChatAges
<1>2. CASE Archive(c)
  <2> DEFINE row == [[[r EXCEPT !.status = "archived"] EXCEPT !.why = "manual"] EXCEPT !.old = FALSE]
  <2>1. row \in ChatRows /\ row.why = "manual" /\ chat' = [chat EXCEPT ![c] = row]
    BY <1>1, <1>2 DEF Archive, ChatRows
  <2> HIDE DEF row
  <2> QED
    BY <1>1, <2>1, ChatKeeps
<1>3. ASSUME NEW b \in BOOLEAN, chat' = [chat EXCEPT ![c].pinned = b] PROVE ChatInv'
  <2> DEFINE row == [r EXCEPT !.pinned = b]
  <2>1. row \in ChatRows /\ row.why = r.why /\ row.status = r.status /\ chat' = [chat EXCEPT ![c] = row]
    BY <1>1, <1>3 DEF ChatRows
  <2> HIDE DEF row
  <2> QED
    BY <1>1, <2>1, ChatKeeps
<1>4. CASE chat' = [chat EXCEPT ![c].idle = TRUE]
  <2> DEFINE row == [r EXCEPT !.idle = TRUE]
  <2>1. row \in ChatRows /\ row.why = r.why /\ row.status = r.status /\ chat' = [chat EXCEPT ![c] = row]
    BY <1>1, <1>4 DEF ChatRows
  <2> HIDE DEF row
  <2> QED
    BY <1>1, <2>1, ChatKeeps
<1>5. CASE chat' = [chat EXCEPT ![c].old = TRUE]
  <2> DEFINE row == [r EXCEPT !.old = TRUE]
  <2>1. row \in ChatRows /\ row.why = r.why /\ row.status = r.status /\ chat' = [chat EXCEPT ![c] = row]
    BY <1>1, <1>5 DEF ChatRows
  <2> HIDE DEF row
  <2> QED
    BY <1>1, <2>1, ChatKeeps
<1> QED
  BY <1>2, <1>3, <1>4, <1>5 DEF Pin, ChatAges

LEMMA RetentionKeeps ==
  ASSUME ChatInv, NEW c \in Chats, Delete(c) \/ AutoArchive(c) \/ DeleteArchived(c)
  PROVE  ChatInv'
<1> DEFINE r == chat[c]
<1>1. r \in ChatRows /\ UNCHANGED actor
  BY DEF ChatInv, ChatTypes, Delete, AutoArchive, DeleteArchived
<1>2. CASE Delete(c)
  BY <1>1, <1>2, DeletedKeeps DEF Delete
<1>3. CASE AutoArchive(c) /\ Idle(c)
  <2> DEFINE row == [[[r EXCEPT !.status = "archived"] EXCEPT !.why = "idle"] EXCEPT !.old = FALSE]
  <2>1. row \in ChatRows /\ chat' = [chat EXCEPT ![c] = row] /\ UNCHANGED msg
    BY <1>1, <1>3 DEF AutoArchive, ChatRows
  <2>2. c \notin Channels => \A m \in OfChat(c) : msg[m].state = "terminal"
    BY <1>3 DEF Idle
  <2> HIDE DEF row
  <2> QED
    BY <1>1, <2>1, <2>2, ChatKeeps
<1>4. CASE DeleteArchived(c) /\ chat[c].status = "archived" /\ chat[c].old
  <2>1. Deleted(c, chat[c].why) /\ chat[c].why \in {"none", "manual", "idle", "deleted"}
    BY <1>1, <1>4 DEF DeleteArchived, ChatRows
  <2> QED
    BY <1>1, <2>1, DeletedKeeps
<1>5. CASE UNCHANGED <<chat, msg>>
  <2>1. PICK K : ChatTypes(K)
    BY DEF ChatInv
  <2>2. actor' \in [Actors -> ActorRows(K)]
    BY <1>1, <2>1 DEF ChatTypes
  <2> QED
    BY <1>1, <1>5, <2>1, <2>2, ActorsMove
<1> QED
  BY <1>2, <1>3, <1>4, <1>5 DEF AutoArchive, DeleteArchived

LEMMA ChatStutter ==
  ASSUME ChatInv, UNCHANGED <<chat, msg, actor>>
  PROVE  ChatInv'
<1>1. PICK K : ChatTypes(K)
  BY DEF ChatInv
<1>2. actor' \in [Actors -> ActorRows(K)]
  BY <1>1 DEF ChatTypes
<1> QED
  BY <1>1, <1>2, ActorsMove

LEMMA ChatStepKeeps == ChatInv /\ [ChatNext]_chatVars => ChatInv'
<1> SUFFICES ASSUME ChatInv, [ChatNext]_chatVars PROVE ChatInv'
  OBVIOUS
<1>1. ASSUME NEW p \in Posts, Submit(p) \/ RegenerateRefused(p) \/ Duplicate(p) PROVE ChatInv'
  <2>1. p \in Actors
    BY DEF Actors
  <2> QED
    BY <1>1, <2>1, SubmitKeeps, DuplicateKeeps, ActorKeeps
<1>2. ASSUME NEW a \in Actors, Completes(a) \/ ActorDies(a) PROVE ChatInv'
  BY <1>2, ActorKeeps
<1>3. ASSUME NEW m \in Messages, SweepPending(m) \/ TurnStarts(m) \/ TurnEnds(m) \/ TurnSticks(m) \/ Unblock(m) PROVE ChatInv'
  <2>1. CASE TurnSticks(m)
    BY <2>1, ChatStutter DEF TurnSticks
  <2> QED
    BY <1>3, <2>1, SweepKeeps, TurnKeeps, SettleKeeps
<1>4. CASE ReconcileTerminal
  BY <1>4, SettleKeeps
<1>5. CASE RetentionLists
  BY <1>5, ChatStutter DEF RetentionLists
<1>6. ASSUME NEW c \in Chats, Archive(c) \/ Pin(c) \/ Delete(c) \/ AutoArchive(c) \/ DeleteArchived(c) \/ ChatAges(c) PROVE ChatInv'
  BY <1>6, UserKeeps, RetentionKeeps
<1>7. CASE UNCHANGED chatVars
  BY <1>7, ChatStutter DEF chatVars
<1> QED
  BY <1>1, <1>2, <1>3, <1>4, <1>5, <1>6, <1>7 DEF ChatNext

-----------------------------------------------------------------------------
(* Conversation: the theorem *)

Spared ==
    \A m \in Messages :
        (msg[m].state \in Unsettled /\ msg[m].chat \notin Channels /\ msg'[m].state = "none") =>
        chat[msg[m].chat].why = "manual" \/ chat'[msg[m].chat].why = "deleted"

\* Messages go with their conversation only.
LEMMA StaysThere ==
  ASSUME ChatInv, [ChatNext]_chatVars, NEW m \in Messages, msg[m].state \in Unsettled, msg'[m].state = "none"
  PROVE  \E c \in Chats : msg[m].chat = c /\ (Delete(c) \/ (DeleteArchived(c) /\ chat[c].status = "archived"))
<1>1. PICK K : ChatTypes(K)
  BY DEF ChatInv
<1>2. msg \in [Messages -> MsgRows(K)] /\ msg[m] \in MsgRows(K) /\ msg'[m] # msg[m]
  BY <1>1 DEF ChatTypes, Unsettled
<1>3. msg' # msg /\ msg[m].state # "none"
  BY <1>2 DEF Unsettled
<1>4. ASSUME NEW n, NEW s \in {"published", "terminal"}, msg' = [msg EXCEPT ![n].state = s] PROVE FALSE
  BY <1>2, <1>4 DEF MsgRows, Unsettled
<1>5. ASSUME NEW p \in Posts, Submit(p) PROVE FALSE
  <2>1. PICK n \in Messages : \E r : NextMsg(n) /\ msg' = [msg EXCEPT ![n] = r]
    BY <1>3, <1>5 DEF Submit
  <2>2. n # m
    BY <1>3, <2>1 DEF NextMsg
  <2> QED
    BY <1>2, <2>1, <2>2
<1>6. ASSUME NEW a, CompleteRecords(a) PROVE FALSE
  BY <1>3, <1>4, <1>6 DEF CompleteRecords
<1>7. ASSUME NEW n, TurnEnds(n) \/ Unblock(n) PROVE FALSE
  BY <1>3, <1>4, <1>7 DEF TurnEnds, Unblock
<1>8. CASE ReconcileTerminal
  <2>1. msg'[m] = msg[m] \/ msg'[m] = [msg[m] EXCEPT !.state = "terminal"]
    BY <1>8 DEF ReconcileTerminal
  <2>2. [msg[m] EXCEPT !.state = "terminal"].state = "terminal"
    BY <1>2 DEF MsgRows
  <2> QED
    BY <1>2, <2>1, <2>2
<1>9. ASSUME NEW c \in Chats, NEW why, Deleted(c, why) PROVE msg[m].chat = c
  <2>1. m \in OfChat(c)
    BY <1>2, <1>9 DEF Deleted
  <2> QED
    BY <2>1 DEF OfChat
<1>10. ASSUME NEW c \in Chats, Delete(c) PROVE msg[m].chat = c
  BY <1>9, <1>10 DEF Delete
<1>11. ASSUME NEW c \in Chats, DeleteArchived(c) PROVE msg[m].chat = c /\ chat[c].status = "archived"
  BY <1>3, <1>9, <1>11 DEF DeleteArchived
<1>12. ~UNCHANGED chatVars
  BY <1>3 DEF chatVars
<1> USE <1>3 DEF RegenerateRefused, Duplicate, Completes, CompleteReads, CompletePublishes, ActorDies, SweepPending,
             TurnStarts, TurnSticks, RetentionLists, Archive, Pin, AutoArchive, ChatAges
<1>13. ASSUME NEW p \in Posts, Submit(p) \/ RegenerateRefused(p) \/ Duplicate(p) PROVE FALSE
  BY <1>5, <1>13
<1>14. ASSUME NEW a \in Actors, Completes(a) \/ ActorDies(a) PROVE FALSE
  BY <1>6, <1>14
<1>15. ASSUME NEW n \in Messages, SweepPending(n) \/ TurnStarts(n) \/ TurnEnds(n) \/ TurnSticks(n) \/ Unblock(n) PROVE FALSE
  BY <1>7, <1>15
<1>16. ASSUME NEW c \in Chats, Archive(c) \/ Pin(c) \/ AutoArchive(c) \/ ChatAges(c) PROVE FALSE
  BY <1>16
<1>17. ~RetentionLists
  OBVIOUS
<1> QED
  BY <1>8, <1>10, <1>11, <1>12, <1>13, <1>14, <1>15, <1>16, <1>17 DEF ChatNext

LEMMA SparedByStep == ChatInv /\ [ChatNext]_chatVars => Spared
<1> SUFFICES ASSUME ChatInv, [ChatNext]_chatVars, NEW m \in Messages, msg[m].state \in Unsettled,
                    msg[m].chat \notin Channels, msg'[m].state = "none", chat[msg[m].chat].why # "manual"
             PROVE  chat'[msg[m].chat].why = "deleted"
  BY DEF Spared
<1>1. PICK c \in Chats : msg[m].chat = c /\ (Delete(c) \/ (DeleteArchived(c) /\ chat[c].status = "archived"))
  BY StaysThere
<1>2. CASE Delete(c)
  <2>1. chat \in [Chats -> ChatRows] /\ chat[c] \in ChatRows
    BY DEF ChatInv, ChatTypes
  <2>2. chat' = [chat EXCEPT ![c].status = "deleted", ![c].why = "deleted", ![c].pinned = FALSE]
    BY <1>2 DEF Delete, Deleted
  <2> QED
    BY <1>1, <2>1, <2>2 DEF ChatRows
<1>3. CASE chat[c].status = "archived"
  <2>1. m \in OfChat(c)
    BY <1>1 DEF OfChat, Unsettled
  <2>2. msg[m].state = "terminal"
    BY <1>1, <1>3, <2>1 DEF ChatInv, IdleIsClosed
  <2> QED
    BY <2>2 DEF Unsettled
<1> QED
  BY <1>1, <1>2, <1>3

\* Retention deletes no open message of the panel, unless its user archived the conversation
\* (PostsSurviveRetention).
THEOREM PostsAreSpared == ChatSpec => PostsSurviveRetention
<1> DEFINE Safe == \A m \in Messages :
                       (msg[m].state \in Unsettled /\ msg[m].chat \notin Channels /\ msg'[m].state = "none") =>
                       chat[msg[m].chat].why = "manual" \/ chat'[msg[m].chat].why = "deleted"
<1>1. ChatSpec => []ChatInv
  BY ChatInitInv, ChatStepKeeps, PTL DEF ChatSpec
<1>2. ChatInv /\ [ChatNext]_chatVars => [Safe]_chatVars
  BY SparedByStep DEF Spared
<1> QED
  BY <1>1, <1>2, PTL DEF ChatSpec, PostsSurviveRetention

-----------------------------------------------------------------------------
(* DeltaQueue: losses and their markers *)

Kinds      == {PARTIAL, TEXT, "tool_use", "gap", "truncated"}
Recs       == [x : Execs, seq : Nat, kind : Kinds, seg : Nat, gen : Nat]
LedgerRows == [x : Execs, seq : Nat, kind : Kinds]
Spent      == [count : Int, truncated : BOOLEAN]
RunRows    == [open : BOOLEAN, joined : BOOLEAN, part : Nat, seg : Nat, seq : Nat, mine : Nat, last : Nat,
               status : {"none", "running", "closed"}]
TxRows     == [live : SUBSET Execs, cache : [Execs -> Spent], rows : SUBSET Recs, adopted : BOOLEAN]
WorkerRows == [gen : Nat, alive : BOOLEAN, stopping : BOOLEAN, queue : Seq(Recs), gaps : Seq(Recs),
               batch : Seq(Recs), tx : TxRows]

DeltaTypes ==
    /\ runs \in [Execs -> RunRows]
    /\ worker \in WorkerRows
    /\ IsFiniteSet(worker.tx.rows)
    /\ generation \in Nat
    /\ budgets \in [Execs -> Spent]
    /\ ledger \in SUBSET LedgerRows /\ IsFiniteSet(ledger)
    /\ stored \in SUBSET Recs
    /\ lost \in SUBSET Recs

\* The marker of a full budget is among the rows S.
Capped(S, x) == \E row \in S : row.x = x /\ row.kind = "truncated"

\* What a transaction t did with a record: written, or a marker stands for it.
Settled(t, rec) == rec.kind # PARTIAL => rec \in t.rows \/ t.cache[rec.x].truncated

\* A budget that counts as full, in the cache, the ledger or the transaction, has its marker.
BudgetsMarked ==
    /\ \A x \in Execs : budgets[x].truncated => Capped(stored, x)
    /\ \A d \in ledger : d.kind = "truncated" => Capped(stored, d.x)

TxMarked(t) == \A x \in Execs : t.cache[x].truncated => Capped(stored, x) \/ Capped(t.rows, x)

\* A transaction with rows is the writer's, inside the sink, and has settled its batch.
TxSettled ==
    worker.tx.rows # {} =>
      /\ handover
      /\ TxMarked(worker.tx)
      /\ \A i \in DOMAIN worker.batch : Settled(worker.tx, worker.batch[i])

GapsAreGaps == \A i \in DOMAIN worker.gaps : worker.gaps[i].kind = "gap"

DeltaInv == DeltaTypes /\ BudgetsMarked /\ TxSettled /\ GapsAreGaps /\ LossAnnounced

LEMMA DeltaInitInv == DeltaInit => DeltaInv
<1> SUFFICES ASSUME DeltaInit PROVE DeltaInv
  OBVIOUS
<1>1. IsFiniteSet({})
  BY FS_EmptySet
<1>2. Unread \in Spent /\ ~Unread.truncated
  BY DEF Unread, Spent
<1>3. NoTx \in TxRows /\ NoTx.rows = {}
  BY <1>2 DEF NoTx, TxRows
<1>4. worker \in WorkerRows /\ worker.tx = NoTx /\ worker.gaps = <<>>
  BY <1>3 DEF DeltaInit, NewWorker, WorkerRows
<1>5. DeltaTypes
  BY <1>1, <1>2, <1>3, <1>4 DEF DeltaInit, DeltaTypes, RunRows
<1>6. BudgetsMarked
  BY <1>2 DEF DeltaInit, BudgetsMarked
<1>7. TxSettled /\ GapsAreGaps /\ LossAnnounced
  BY <1>3, <1>4 DEF DeltaInit, TxSettled, GapsAreGaps, LossAnnounced
<1> QED
  BY <1>5, <1>6, <1>7 DEF DeltaInv

\* A step of the runs, of the queue or of the generation alone.
LEMMA QueueMoves ==
  ASSUME DeltaInv, runs' \in [Execs -> RunRows], generation' \in Nat,
         worker' \in WorkerRows, worker'.gaps = worker.gaps, worker'.batch = worker.batch, worker'.tx = worker.tx,
         UNCHANGED <<handover, budgets, ledger, stored, lost>>
  PROVE  DeltaInv'
<1>1. DeltaTypes'
  BY DEF DeltaInv, DeltaTypes
<1>2. BudgetsMarked' /\ GapsAreGaps' /\ LossAnnounced'
  BY DEF DeltaInv, BudgetsMarked, GapsAreGaps, LossAnnounced, Capped
<1>3. TxSettled'
  BY DEF DeltaInv, TxSettled, TxMarked, Settled, Capped
<1> QED
  BY <1>1, <1>2, <1>3 DEF DeltaInv

-----------------------------------------------------------------------------
(* DeltaQueue: one transaction of the sink *)

LEMMA OneKeeps ==
  ASSUME NEW t \in TxRows, IsFiniteSet(t.rows), TxMarked(t), NEW rec \in Recs
  PROVE  /\ One(t, rec) \in TxRows /\ IsFiniteSet(One(t, rec).rows) /\ TxMarked(One(t, rec))
         /\ Settled(One(t, rec), rec)
         /\ \A r \in Recs : Settled(t, r) => Settled(One(t, rec), r)
<1> DEFINE full == [rec EXCEPT !.kind = "truncated"]
           over == [t EXCEPT !.cache[rec.x].truncated = TRUE, !.rows = @ \cup {full}]
           kept == [t EXCEPT !.cache[rec.x].count = @ + 1, !.rows = @ \cup {rec}]
<1>1. full \in Recs /\ full.x = rec.x /\ full.kind = "truncated"
  BY DEF Recs, Kinds
<1>2. rec.x \in Execs /\ t.cache \in [Execs -> Spent] /\ t.cache[rec.x] \in Spent
  BY DEF Recs, TxRows
<1>3. \/ One(t, rec) = t /\ (rec.kind = PARTIAL \/ t.cache[rec.x].truncated)
      \/ One(t, rec) = over
      \/ One(t, rec) = kept
  BY DEF One
<1>4. CASE One(t, rec) = t /\ (rec.kind = PARTIAL \/ t.cache[rec.x].truncated)
  BY <1>4 DEF Settled
<1>5. CASE One(t, rec) = over
  <2>1. over.rows = t.rows \cup {full} /\ over.live = t.live /\ over.adopted = t.adopted
    BY <1>1 DEF TxRows
  <2>2. over.cache = [t.cache EXCEPT ![rec.x].truncated = TRUE]
    BY DEF TxRows
  <2>3. over.cache \in [Execs -> Spent] /\ over.cache[rec.x].truncated
        /\ \A x \in Execs : x # rec.x => over.cache[x] = t.cache[x]
    <3> HIDE DEF over
    <3> QED BY <1>2, <2>2 DEF Spent
  <2>4. over \in TxRows
    BY <1>1, <2>1, <2>3 DEF TxRows
  <2>5. IsFiniteSet(over.rows)
    BY <2>1, FS_AddElement
  <2> HIDE DEF over, full
  <2>6. TxMarked(over)
    BY <1>1, <2>1, <2>3 DEF TxMarked, Capped
  <2>7. Settled(over, rec) /\ \A r \in Recs : Settled(t, r) => Settled(over, r)
    BY <2>1, <2>3 DEF Settled, Recs
  <2> QED
    BY <1>5, <2>4, <2>5, <2>6, <2>7
<1>6. CASE One(t, rec) = kept
  <2>1. kept.rows = t.rows \cup {rec} /\ kept.live = t.live /\ kept.adopted = t.adopted
    BY DEF TxRows
  <2>2. kept.cache = [t.cache EXCEPT ![rec.x].count = @ + 1]
    BY DEF TxRows
  <2>3. kept.cache \in [Execs -> Spent]
        /\ \A x \in Execs : kept.cache[x].truncated = t.cache[x].truncated
    BY <1>2, <2>2 DEF Spent
  <2>4. kept \in TxRows
    BY <2>1, <2>3 DEF TxRows
  <2>5. IsFiniteSet(kept.rows)
    BY <2>1, FS_AddElement
  <2> HIDE DEF kept
  <2>6. TxMarked(kept)
    BY <2>1, <2>3 DEF TxMarked, Capped
  <2>7. Settled(kept, rec) /\ \A r \in Recs : Settled(t, r) => Settled(kept, r)
    BY <2>1, <2>3 DEF Settled, Recs
  <2> QED
    BY <1>6, <2>4, <2>5, <2>6, <2>7
<1> QED
  BY <1>3, <1>4, <1>5, <1>6

\* What WriteOn's function is on the first k records.
Prefix(f, t, batch, k) == f = [n \in 0..k |-> IF n = 0 THEN t ELSE One(f[n - 1], batch[n])]

\* It exists: the least k without one would have it from the prefix before.
LEMMA PrefixesExist ==
  ASSUME NEW t, NEW batch \in Seq(Recs)
  PROVE  \A k \in 0..Len(batch) : \E f : Prefix(f, t, batch, k)
<1> DEFINE S == {j \in 0..Len(batch) : ~ \E f : Prefix(f, t, batch, j)}
<1>1. Len(batch) \in Nat /\ S \subseteq Nat
  OBVIOUS
<1>2. \E f : Prefix(f, t, batch, 0)
  <2> DEFINE f == [n \in 0..0 |-> t]
  <2>1. f = [n \in 0..0 |-> IF n = 0 THEN t ELSE One(f[n - 1], batch[n])]
    OBVIOUS
  <2> QED
    BY <2>1 DEF Prefix
<1>3. ASSUME NEW j \in S, \A m \in S : j <= m PROVE FALSE
  <2>1. j \in Nat /\ j <= Len(batch) /\ j # 0
    BY <1>1, <1>2
  <2>2. j - 1 \in 0..Len(batch) /\ j - 1 \notin S
    BY <1>1, <1>3, <2>1
  <2>3. PICK f : Prefix(f, t, batch, j - 1)
    BY <2>2
  <2> DEFINE g == [n \in 0..j |-> IF n = j THEN One(f[j - 1], batch[j]) ELSE f[n]]
  <2>4. ASSUME NEW n \in 0..j
        PROVE  g[n] = IF n = 0 THEN t ELSE One(g[n - 1], batch[n])
    <3>1. CASE n = 0
      BY <2>1, <2>3, <3>1 DEF Prefix
    <3>2. CASE n = j
      <4>1. g[n] = One(f[j - 1], batch[j]) /\ g[n - 1] = f[j - 1]
        BY <2>1, <3>2
      <4> QED
        BY <2>1, <3>2, <4>1
    <3>3. CASE n > 0 /\ n < j
      <4>1. n \in 0..(j - 1) /\ n - 1 \in 0..j /\ n - 1 # j /\ n # j
        BY <2>1, <3>3
      <4>2. g[n] = f[n] /\ g[n - 1] = f[n - 1]
        BY <4>1
      <4> QED
        BY <2>3, <3>3, <4>1, <4>2 DEF Prefix
    <3> QED
      BY <2>1, <3>1, <3>2, <3>3
  <2>5. g = [n \in 0..j |-> IF n = 0 THEN t ELSE One(g[n - 1], batch[n])]
    BY <2>4
  <2>6. \E h : Prefix(h, t, batch, j)
    BY <2>5 DEF Prefix
  <2> QED
    BY <1>3, <2>6
<1>4. S = {}
  <2> HIDE DEF S
  <2> QED BY <1>1, <1>3, LeastNatural
<1> QED
  BY <1>4

LEMMA WriteOnReached ==
  ASSUME NEW t, NEW batch \in Seq(Recs)
  PROVE  \E f : Prefix(f, t, batch, Len(batch)) /\ WriteOn(t, batch) = f[Len(batch)]
<1>1. Len(batch) \in 0..Len(batch)
  OBVIOUS
<1>2. PICK f : Prefix(f, t, batch, Len(batch))
  BY <1>1, PrefixesExist
<1> DEFINE g == CHOOSE h : Prefix(h, t, batch, Len(batch))
<1>3. Prefix(g, t, batch, Len(batch))
  BY <1>2, Zenon
<1>4. WriteOn(t, batch) = g[Len(batch)]
  BY DEF WriteOn, Prefix
<1> QED
  BY <1>3, <1>4

LEMMA WriteOnKeeps ==
  ASSUME NEW t \in TxRows, IsFiniteSet(t.rows), TxMarked(t), NEW batch \in Seq(Recs)
  PROVE  /\ WriteOn(t, batch) \in TxRows /\ IsFiniteSet(WriteOn(t, batch).rows) /\ TxMarked(WriteOn(t, batch))
         /\ \A i \in DOMAIN batch : Settled(WriteOn(t, batch), batch[i])
<1>1. PICK f : Prefix(f, t, batch, Len(batch)) /\ WriteOn(t, batch) = f[Len(batch)]
  BY WriteOnReached
<1> DEFINE Good(n) == /\ f[n] \in TxRows /\ IsFiniteSet(f[n].rows) /\ TxMarked(f[n])
                      /\ \A i \in 1..n : Settled(f[n], batch[i])
           S == {n \in 0..Len(batch) : ~Good(n)}
<1>2. Len(batch) \in Nat /\ DOMAIN batch = 1..Len(batch) /\ S \subseteq Nat
  OBVIOUS
<1>3. Good(0)
  BY <1>1, <1>2 DEF Prefix
<1>4. ASSUME NEW j \in S, \A m \in S : j <= m PROVE FALSE
  <2>1. j > 0 /\ j - 1 \in 0..Len(batch) /\ j \in 1..Len(batch) /\ j - 1 \notin S
    BY <1>2, <1>3, <1>4
  <2>2. Good(j - 1)
    BY <2>1
  <2>3. f[j] = One(f[j - 1], batch[j]) /\ batch[j] \in Recs
    BY <1>1, <1>2, <2>1 DEF Prefix
  <2>4. /\ f[j] \in TxRows /\ IsFiniteSet(f[j].rows) /\ TxMarked(f[j])
        /\ Settled(f[j], batch[j])
        /\ \A r \in Recs : Settled(f[j - 1], r) => Settled(f[j], r)
    BY <2>2, <2>3, OneKeeps
  <2>5. ASSUME NEW i \in 1..j PROVE Settled(f[j], batch[i])
    <3>1. batch[i] \in Recs /\ (i = j \/ i \in 1..(j - 1))
      BY <1>2, <2>1
    <3> QED
      BY <2>2, <2>4, <3>1
  <2> QED
    BY <1>4, <2>4, <2>5
<1>5. S = {}
  <2> HIDE DEF S
  <2> QED BY <1>2, <1>4, LeastNatural
<1>6. Good(Len(batch))
  BY <1>2, <1>5
<1> QED
  BY <1>1, <1>2, <1>6

-----------------------------------------------------------------------------
(* DeltaQueue: the steps *)

LEMMA FlushKeeps ==
  ASSUME NEW w \in WorkerRows, NEW r \in RunRows, NEW x \in Execs, NEW keep \in BOOLEAN
  PROVE  LET f == Flush(w, r, x, keep)
         IN  /\ f.worker \in WorkerRows /\ f.run \in RunRows
             /\ f.worker.gaps = w.gaps /\ f.worker.batch = w.batch /\ f.worker.tx = w.tx
             /\ f.worker.gen = w.gen
<1> DEFINE rec == Record(x, r.seq + 1, PARTIAL, r.part, w.gen)
           fits == Len(w.queue) < MaxQueue
           more == [w EXCEPT !.queue = Append(@, rec)]
           c == [r EXCEPT !.part = IF keep THEN @ ELSE 0]
           d == [c EXCEPT !.seq = @ + 1, !.last = r.seq + 1]
           f == Flush(w, r, x, keep)
<1>1. rec \in Recs
  BY DEF Record, Recs, Kinds, RunRows, WorkerRows
<1>2. more \in WorkerRows /\ more.gaps = w.gaps /\ more.batch = w.batch /\ more.tx = w.tx /\ more.gen = w.gen
  <2> HIDE DEF rec
  <2>1. w.queue \in Seq(Recs) /\ Append(w.queue, rec) \in Seq(Recs)
    BY <1>1 DEF WorkerRows
  <2> QED BY <2>1 DEF WorkerRows
<1>3. c \in RunRows
  BY DEF RunRows
<1>4. d \in RunRows
  <2>1. c.seq = r.seq /\ r.seq + 1 \in Nat
    BY DEF RunRows
  <2>2. d = [c EXCEPT !.seq = r.seq + 1, !.last = r.seq + 1]
    BY <2>1
  <2> HIDE DEF c, d
  <2> QED BY <1>3, <2>1, <2>2 DEF RunRows
<1>5. f.worker = (IF fits THEN more ELSE w) /\ f.run = (IF fits THEN d ELSE c)
  BY DEF Flush
<1> HIDE DEF rec, fits, more, c, d
<1> QED
  BY <1>2, <1>3, <1>4, <1>5

LEMMA OpenRunKeeps == ASSUME DeltaInv, NEW x \in Execs, OpenRun(x) PROVE DeltaInv'
<1>1. runs' \in [Execs -> RunRows]
  BY DEF OpenRun, DeltaInv, DeltaTypes, RunRows
<1>2. worker' \in WorkerRows /\ generation' \in Nat
  BY DEF OpenRun, DeltaInv, DeltaTypes
<1> QED
  BY <1>1, <1>2, QueueMoves DEF OpenRun

LEMMA NumberFragmentKeeps == ASSUME DeltaInv, NEW x \in Execs, NumberFragment(x) PROVE DeltaInv'
<1>1. runs' \in [Execs -> RunRows]
  BY DEF NumberFragment, DeltaInv, DeltaTypes, RunRows
<1>2. worker' \in WorkerRows /\ generation' \in Nat
  BY DEF NumberFragment, DeltaInv, DeltaTypes
<1> QED
  BY <1>1, <1>2, QueueMoves DEF NumberFragment

LEMMA OfferPartialKeeps == ASSUME DeltaInv, NEW x \in Execs, OfferPartial(x) PROVE DeltaInv'
<1>1. runs' \in [Execs -> RunRows]
  BY DEF OfferPartial, DeltaInv, DeltaTypes, RunRows
<1>2. worker' \in WorkerRows /\ generation' \in Nat
  BY DEF OfferPartial, DeltaInv, DeltaTypes
<1> QED
  BY <1>1, <1>2, QueueMoves DEF OfferPartial

LEMMA CloseRunKeeps == ASSUME DeltaInv, NEW x \in Execs, CloseRun(x) PROVE DeltaInv'
<1> DEFINE f == IF runs[x].part = 0 THEN [worker |-> worker, run |-> runs[x]]
                ELSE Flush(worker, runs[x], x, FALSE)
<1>1. worker \in WorkerRows /\ runs[x] \in RunRows /\ runs \in [Execs -> RunRows] /\ generation \in Nat
  BY DEF DeltaInv, DeltaTypes
<1>2. /\ f.worker \in WorkerRows /\ f.run \in RunRows
      /\ f.worker.gaps = worker.gaps /\ f.worker.batch = worker.batch /\ f.worker.tx = worker.tx
  BY <1>1, FlushKeeps
<1>3. worker' = f.worker /\ runs' = [runs EXCEPT ![x] = [f.run EXCEPT !.open = FALSE, !.joined = FALSE]]
  BY DEF CloseRun
<1> HIDE DEF f
<1>4. [f.run EXCEPT !.open = FALSE, !.joined = FALSE] \in RunRows
  BY <1>2 DEF RunRows
<1>5. runs' \in [Execs -> RunRows]
  BY <1>1, <1>3, <1>4
<1> QED
  BY <1>1, <1>2, <1>3, <1>5, QueueMoves DEF CloseRun

LEMMA FlushDueKeeps == ASSUME DeltaInv, NEW x \in Execs, FlushDue(x) PROVE DeltaInv'
<1>1. worker \in WorkerRows /\ runs[x] \in RunRows /\ runs \in [Execs -> RunRows] /\ generation \in Nat
  BY DEF DeltaInv, DeltaTypes
<1>2. PICK keep \in BOOLEAN :
        LET f == Flush(worker, runs[x], x, keep)
        IN  worker' = f.worker /\ runs' = [runs EXCEPT ![x] = f.run]
  BY DEF FlushDue
<1> DEFINE f == Flush(worker, runs[x], x, keep)
<1>3. /\ f.worker \in WorkerRows /\ f.run \in RunRows
      /\ f.worker.gaps = worker.gaps /\ f.worker.batch = worker.batch /\ f.worker.tx = worker.tx
  BY <1>1, FlushKeeps
<1>4. worker' = f.worker /\ runs' = [runs EXCEPT ![x] = f.run]
  BY <1>2
<1> HIDE DEF f
<1>5. runs' \in [Execs -> RunRows]
  BY <1>1, <1>3, <1>4
<1> QED
  BY <1>1, <1>3, <1>4, <1>5, QueueMoves DEF FlushDue

LEMMA QuietWorkerKeeps ==
    ASSUME DeltaInv, ThreadEnds \/ ShutdownStops \/ ShutdownCloses \/ SyncBumps \/ SyncJoins
    PROVE  DeltaInv'
<1>1. worker \in WorkerRows /\ runs \in [Execs -> RunRows] /\ generation \in Nat
  BY DEF DeltaInv, DeltaTypes
<1>2. worker' \in WorkerRows /\ worker'.gaps = worker.gaps /\ worker'.batch = worker.batch /\ worker'.tx = worker.tx
  BY <1>1 DEF ThreadEnds, ShutdownStops, ShutdownCloses, SyncBumps, SyncJoins, WorkerRows
<1>3. runs' \in [Execs -> RunRows] /\ generation' \in Nat
  BY <1>1 DEF ThreadEnds, ShutdownStops, ShutdownCloses, SyncBumps, SyncJoins
<1>4. UNCHANGED <<handover, budgets, ledger, stored, lost>>
  BY DEF ThreadEnds, ShutdownStops, ShutdownCloses, SyncBumps, SyncJoins
<1> QED
  BY <1>2, <1>3, <1>4, QueueMoves

-----------------------------------------------------------------------------
(* DeltaQueue: a full queue *)

Has(s, x) == \E i \in DOMAIN s : s[i].x = x

LEMMA MarkGapKeeps ==
  ASSUME NEW gaps \in Seq(Recs), \A i \in DOMAIN gaps : gaps[i].kind = "gap", NEW d \in Recs
  PROVE  LET m == MarkGap(gaps, d)
         IN  /\ m \in Seq(Recs) /\ \A i \in DOMAIN m : m[i].kind = "gap"
             /\ d.kind # PARTIAL => Has(m, d.x)
             /\ \A x : Has(gaps, x) => \/ Has(m, x)
                                       \/ m # gaps /\ Len(gaps) >= MaxGaps /\ Head(gaps).x = x
<1> DEFINE m == MarkGap(gaps, d)
           mark == [d EXCEPT !.kind = "gap"]
<1>1. mark \in Recs /\ mark.kind = "gap" /\ mark.x = d.x
  BY DEF Recs, Kinds
<1> HIDE DEF mark
<1>2. CASE d.kind = PARTIAL \/ Has(gaps, d.x)
  <2>1. m = gaps
    BY <1>2 DEF MarkGap, Has
  <2> QED
    BY <1>2, <2>1
<1>3. CASE d.kind # PARTIAL /\ ~Has(gaps, d.x) /\ ~(Len(gaps) >= MaxGaps)
  <2>1. m = Append(gaps, mark)
    BY <1>3 DEF MarkGap, Has, mark
  <2>2. m \in Seq(Recs) /\ DOMAIN m = 1..(Len(gaps) + 1) /\ DOMAIN gaps = 1..Len(gaps) /\ Len(gaps) \in Nat
        /\ m[Len(gaps) + 1] = mark /\ \A i \in 1..Len(gaps) : m[i] = gaps[i]
    BY <1>1, <2>1
  <2>3. \A i \in DOMAIN m : m[i].kind = "gap"
    BY <1>1, <2>2
  <2>4. Has(m, d.x) /\ \A x : Has(gaps, x) => Has(m, x)
    BY <1>1, <2>2 DEF Has
  <2> QED
    BY <2>2, <2>3, <2>4
<1>4. CASE d.kind # PARTIAL /\ ~Has(gaps, d.x) /\ Len(gaps) >= MaxGaps
  <2>1. m = Append(Tail(gaps), mark)
    BY <1>4 DEF MarkGap, Has, mark
  <2>2. Len(gaps) \in Nat /\ Len(gaps) > 0 /\ DOMAIN gaps = 1..Len(gaps) /\ Head(gaps) = gaps[1]
        /\ Tail(gaps) \in Seq(Recs) /\ Len(Tail(gaps)) = Len(gaps) - 1
        /\ \A i \in 1..(Len(gaps) - 1) : Tail(gaps)[i] = gaps[i + 1]
    BY <1>4, SizesAssumption
  <2>3. m \in Seq(Recs) /\ DOMAIN m = 1..Len(gaps) /\ m[Len(gaps)] = mark
        /\ \A i \in 1..(Len(gaps) - 1) : m[i] = Tail(gaps)[i]
    BY <1>1, <2>1, <2>2
  <2>4. \A i \in DOMAIN m : m[i].kind = "gap"
    <3> SUFFICES ASSUME NEW i \in DOMAIN m PROVE m[i].kind = "gap"
      OBVIOUS
    <3>1. i = Len(gaps) \/ (i \in 1..(Len(gaps) - 1) /\ i + 1 \in DOMAIN gaps)
      BY <2>2, <2>3
    <3> QED
      BY <1>1, <2>2, <2>3, <3>1
  <2>5. Has(m, d.x)
    BY <1>1, <2>2, <2>3 DEF Has
  <2>6. m # gaps
    BY <1>4, <2>5
  <2>7. ASSUME NEW x, Has(gaps, x) PROVE Has(m, x) \/ Head(gaps).x = x
    <3>1. PICK i \in 1..Len(gaps) : gaps[i].x = x
      BY <2>2, <2>7 DEF Has
    <3>2. CASE i = 1
      BY <2>2, <3>1, <3>2
    <3>3. CASE i # 1
      <4>1. i - 1 \in 1..(Len(gaps) - 1) /\ i - 1 \in DOMAIN m /\ (i - 1) + 1 = i
        BY <2>2, <2>3, <3>3
      <4>2. m[i - 1] = gaps[i]
        BY <2>2, <2>3, <4>1
      <4> QED
        BY <3>1, <4>1, <4>2 DEF Has
    <3> QED
      BY <3>2, <3>3
  <2> QED
    BY <1>4, <2>3, <2>4, <2>5, <2>6, <2>7
<1> QED
  BY <1>2, <1>3, <1>4

LEMMA EnqueueKeeps ==
  ASSUME NEW w \in WorkerRows, \A i \in DOMAIN w.gaps : w.gaps[i].kind = "gap", NEW rec \in Recs
  PROVE  LET q == Enqueue(w, rec)
         IN  /\ q \in WorkerRows /\ q.batch = w.batch /\ q.tx = w.tx
             /\ \A i \in DOMAIN q.gaps : q.gaps[i].kind = "gap"
             /\ Dropped(w) \subseteq lost \cup Recs
             /\ \A e \in Dropped(w) : \/ Has(q.gaps, e.x)
                                      \/ e \in lost /\ ~Has(w.gaps, e.x)
<1> DEFINE q == Enqueue(w, rec)
           h == Head(w.queue)
           m == MarkGap(w.gaps, h)
<1>1. w.queue \in Seq(Recs) /\ w.gaps \in Seq(Recs)
  BY DEF WorkerRows
<1>2. CASE Len(w.queue) < MaxQueue
  <2>1. q = [w EXCEPT !.queue = Append(w.queue, rec)]
    BY <1>2 DEF Enqueue
  <2>2. Append(w.queue, rec) \in Seq(Recs)
    BY <1>1
  <2>3. q \in WorkerRows /\ q.batch = w.batch /\ q.tx = w.tx /\ q.gaps = w.gaps
    BY <2>1, <2>2 DEF WorkerRows
  <2>4. Dropped(w) \subseteq lost
    BY <1>1, <1>2, SizesAssumption DEF Dropped
  <2> QED
    BY <2>3, <2>4
<1>3. CASE ~(Len(w.queue) < MaxQueue)
  <2>1. w.queue # <<>> /\ Len(w.queue) >= MaxQueue
    BY <1>1, <1>3, SizesAssumption
  <2>2. h \in Recs /\ Tail(w.queue) \in Seq(Recs)
    BY <1>1, <2>1
  <2>3. Append(Tail(w.queue), rec) \in Seq(Recs)
    BY <2>2
  <2>4. /\ m \in Seq(Recs) /\ \A i \in DOMAIN m : m[i].kind = "gap"
        /\ h.kind # PARTIAL => Has(m, h.x)
        /\ \A x : Has(w.gaps, x) => \/ Has(m, x)
                                    \/ m # w.gaps /\ Len(w.gaps) >= MaxGaps /\ Head(w.gaps).x = x
    BY <1>1, <2>2, MarkGapKeeps
  <2>5. q = [w EXCEPT !.gaps = m, !.queue = Append(Tail(w.queue), rec)]
    BY <1>3 DEF Enqueue
  <2>6. Dropped(w) = {e \in lost : ~(m # w.gaps /\ Len(w.gaps) >= MaxGaps /\ e.x = Head(w.gaps).x)}
                     \cup (IF h.kind # PARTIAL THEN {h} ELSE {})
    BY <2>1 DEF Dropped
  <2> HIDE DEF m, h
  <2>7. q \in WorkerRows /\ q.batch = w.batch /\ q.tx = w.tx /\ q.gaps = m
    <3> HIDE DEF q
    <3> QED BY <2>3, <2>4, <2>5 DEF WorkerRows
  <2> QED
    BY <2>2, <2>4, <2>6, <2>7
<1> QED
  BY <1>2, <1>3

LEMMA OfferKeeps == ASSUME DeltaInv, NEW x \in Execs, NEW kind \in {TEXT, "tool_use"}, Offer(x, kind) PROVE DeltaInv'
<1> DEFINE s == Supersede(x, kind)
           r == Renumber(s.run)
           rec == Record(x, r.mine, kind, r.seg, worker.gen)
           moved == [r EXCEPT !.mine = 0, !.seg = IF kind = TEXT THEN @ + 1 ELSE @]
<1>1. worker \in WorkerRows /\ runs[x] \in RunRows /\ runs \in [Execs -> RunRows] /\ generation \in Nat
  BY DEF DeltaInv, DeltaTypes
<1>2. /\ s.worker \in WorkerRows /\ s.run \in RunRows
      /\ s.worker.gaps = worker.gaps /\ s.worker.batch = worker.batch /\ s.worker.tx = worker.tx
  <2>1. LET f == Flush(worker, runs[x], x, FALSE)
        IN  /\ f.worker \in WorkerRows /\ f.run \in RunRows
            /\ f.worker.gaps = worker.gaps /\ f.worker.batch = worker.batch /\ f.worker.tx = worker.tx
    BY <1>1, FlushKeeps
  <2>2. [runs[x] EXCEPT !.part = 0] \in RunRows
    BY <1>1 DEF RunRows
  <2> QED
    BY <1>1, <2>1, <2>2 DEF Supersede
<1> HIDE DEF s
<1>3. r \in RunRows
  <2> DEFINE u == s.run
  <2>1. u.seq + 1 \in Nat /\ (r = u \/ r = [u EXCEPT !.seq = u.seq + 1, !.mine = u.seq + 1])
    BY <1>2 DEF Renumber, RunRows
  <2>2. u \in RunRows
    BY <1>2
  <2> HIDE DEF u, r
  <2> QED BY <2>1, <2>2 DEF RunRows
<1> HIDE DEF r
<1>4. rec \in Recs
  BY <1>1, <1>3 DEF Record, Recs, Kinds, RunRows, WorkerRows
<1>5. moved \in RunRows
  <2>1. r.seg \in Nat /\ r.seg + 1 \in Nat
    BY <1>3 DEF RunRows
  <2>2. moved = [r EXCEPT !.mine = 0, !.seg = IF kind = TEXT THEN r.seg + 1 ELSE r.seg]
    BY <1>3 DEF RunRows
  <2> HIDE DEF moved
  <2> QED BY <1>3, <2>1, <2>2 DEF RunRows
<1>6. worker' = Enqueue(s.worker, rec) /\ lost' = Dropped(s.worker) /\ runs' = [runs EXCEPT ![x] = moved]
      /\ UNCHANGED <<generation, handover, sync, budgets, ledger, stored, deltaLeft>>
  BY DEF Offer, s, r
<1> HIDE DEF rec, moved
<1>7. /\ worker' \in WorkerRows /\ worker'.batch = worker.batch /\ worker'.tx = worker.tx
      /\ \A i \in DOMAIN worker'.gaps : worker'.gaps[i].kind = "gap"
      /\ lost' \subseteq lost \cup Recs
      /\ \A e \in lost' : Has(worker'.gaps, e.x) \/ (e \in lost /\ ~Has(worker.gaps, e.x))
  <2>1. \A i \in DOMAIN s.worker.gaps : s.worker.gaps[i].kind = "gap"
    BY <1>2 DEF DeltaInv, GapsAreGaps
  <2> QED
    BY <1>2, <1>4, <1>6, <2>1, EnqueueKeeps
<1>8. runs' \in [Execs -> RunRows]
  BY <1>1, <1>5, <1>6
<1>9. DeltaTypes'
  BY <1>6, <1>7, <1>8 DEF DeltaInv, DeltaTypes
<1>10. BudgetsMarked' /\ GapsAreGaps'
  BY <1>6, <1>7 DEF DeltaInv, BudgetsMarked, GapsAreGaps, Capped
<1>11. TxSettled'
  BY <1>6, <1>7 DEF DeltaInv, TxSettled, TxMarked, Settled, Capped
<1>12. LossAnnounced'
  BY <1>6, <1>7 DEF DeltaInv, LossAnnounced, Has
<1> QED
  BY <1>9, <1>10, <1>11, <1>12 DEF DeltaInv

-----------------------------------------------------------------------------
(* DeltaQueue: the finalizer, the writer and bootstrap *)

LEMMA FinalizeRunKeeps == ASSUME DeltaInv, NEW x \in Execs, FinalizeRun(x) PROVE DeltaInv'
<1>1. stored' \subseteq stored /\ \A row \in stored : row.kind # PARTIAL => row \in stored'
  BY DEF FinalizeRun
<1>2. \A y : Capped(stored, y) => Capped(stored, y)'
  BY <1>1 DEF Capped, PARTIAL
<1>3. UNCHANGED <<worker, generation, handover, budgets, ledger, lost>>
  BY DEF FinalizeRun
<1>4. runs' \in [Execs -> RunRows]
  BY DEF FinalizeRun, DeltaInv, DeltaTypes, RunRows
<1>5. DeltaTypes'
  BY <1>1, <1>3, <1>4 DEF DeltaInv, DeltaTypes
<1>6. BudgetsMarked' /\ GapsAreGaps'
  <2>1. BudgetsMarked'
    <3>1. \A y \in Execs : budgets[y].truncated => Capped(stored, y)'
      BY <1>2 DEF DeltaInv, BudgetsMarked
    <3>2. \A d \in ledger : d.kind = "truncated" => Capped(stored, d.x)'
      BY <1>2 DEF DeltaInv, BudgetsMarked
    <3> QED BY <1>3, <3>1, <3>2 DEF BudgetsMarked, Capped
  <2> QED BY <2>1, <1>3 DEF DeltaInv, GapsAreGaps
<1>7. TxSettled'
  <2> SUFFICES ASSUME worker.tx.rows # {}
               PROVE  handover /\ TxMarked(worker.tx)' /\ \A i \in DOMAIN worker.batch : Settled(worker.tx, worker.batch[i])
    BY <1>3 DEF TxSettled, Settled
  <2>1. handover /\ TxMarked(worker.tx) /\ \A i \in DOMAIN worker.batch : Settled(worker.tx, worker.batch[i])
    BY DEF DeltaInv, TxSettled
  <2>2. \A y \in Execs : worker.tx.cache[y].truncated => Capped(stored, y)' \/ Capped(worker.tx.rows, y)
    BY <1>2, <2>1 DEF TxMarked
  <2>3. TxMarked(worker.tx)'
    BY <1>3, <2>2 DEF TxMarked, Capped
  <2> QED
    BY <2>1, <2>3
<1>8. LossAnnounced'
  BY <1>1, <1>3 DEF DeltaInv, LossAnnounced, Markers, PARTIAL
<1> QED
  BY <1>5, <1>6, <1>7, <1>8 DEF DeltaInv

\* Taking a batch moves each marker of the first ones to the batch.
LEMMA TakeKeeps == ASSUME DeltaInv, Take PROVE DeltaInv'
<1> DEFINE k == IF Len(worker.gaps) < Batch THEN Len(worker.gaps) ELSE Batch
           g == SubSeq(worker.gaps, 1, k)
           room == Batch - Len(g)
           n == IF Len(worker.queue) < room THEN Len(worker.queue) ELSE room
           q == SubSeq(worker.queue, 1, n)
<1>1. worker \in WorkerRows /\ worker.gaps \in Seq(Recs) /\ worker.queue \in Seq(Recs)
      /\ Len(worker.gaps) \in Nat /\ Len(worker.queue) \in Nat
      /\ DOMAIN worker.gaps = 1..Len(worker.gaps)
  BY DEF DeltaInv, DeltaTypes, WorkerRows
<1>2. k \in 0..Len(worker.gaps) /\ k <= Batch /\ k \in Nat /\ Batch \in Nat
  BY <1>1, SizesAssumption
<1> HIDE DEF k
<1>3. g \in Seq(Recs) /\ Len(g) = k /\ \A i \in 1..k : g[i] = worker.gaps[i]
  BY <1>1, <1>2
<1> HIDE DEF g
<1>4. n \in 0..Len(worker.queue) /\ n \in Nat
  BY <1>1, <1>2, <1>3
<1> HIDE DEF n, room
<1>5. q \in Seq(Recs) /\ Len(q) = n
  BY <1>1, <1>4
<1> HIDE DEF q
<1> DEFINE batch == g \o q
           gaps == SubSeq(worker.gaps, k + 1, Len(worker.gaps))
           queue == SubSeq(worker.queue, n + 1, Len(worker.queue))
<1>6. batch \in Seq(Recs) /\ DOMAIN batch = 1..(k + n) /\ \A i \in 1..k : i \in DOMAIN batch /\ batch[i] = g[i]
  BY <1>2, <1>3, <1>4, <1>5
<1>7. gaps \in Seq(Recs) /\ DOMAIN gaps = 1..(Len(worker.gaps) - k)
      /\ \A i \in 1..(Len(worker.gaps) - k) : gaps[i] = worker.gaps[i + k]
  BY <1>1, <1>2
<1>8. queue \in Seq(Recs)
  BY <1>1, <1>4
<1> HIDE DEF batch, gaps, queue
<1>9. worker' = [worker EXCEPT !.batch = batch, !.gaps = gaps, !.queue = queue]
  BY <1>3 DEF Take, batch, gaps, queue, g, q, k, n, room
<1>10. worker' \in WorkerRows /\ worker'.batch = batch /\ worker'.gaps = gaps /\ worker'.tx = worker.tx
  BY <1>1, <1>6, <1>7, <1>8, <1>9 DEF WorkerRows
<1>11. UNCHANGED <<runs, generation, handover, budgets, ledger, stored, lost>> /\ ~handover /\ worker.batch = <<>>
  BY DEF Take
<1>12. DeltaTypes'
  BY <1>10, <1>11 DEF DeltaInv, DeltaTypes
<1>13. BudgetsMarked'
  BY <1>11 DEF DeltaInv, BudgetsMarked, Capped
<1>14. TxSettled'
  BY <1>10, <1>11 DEF DeltaInv, TxSettled
<1>15. GapsAreGaps'
  <2> SUFFICES ASSUME NEW i \in DOMAIN gaps PROVE gaps[i].kind = "gap"
    BY <1>10 DEF GapsAreGaps
  <2>1. gaps[i] = worker.gaps[i + k] /\ i + k \in DOMAIN worker.gaps
    BY <1>1, <1>2, <1>7
  <2> QED
    BY <2>1 DEF DeltaInv, GapsAreGaps
<1>16. LossAnnounced'
  <2> SUFFICES ASSUME NEW e \in lost
               PROVE  \/ \E row \in stored : row.x = e.x /\ row.kind \in Markers
                      \/ Has(gaps, e.x)
                      \/ \E i \in DOMAIN batch : batch[i].x = e.x /\ batch[i].kind = "gap"
    BY <1>10, <1>11 DEF LossAnnounced, Has
  <2>1. CASE \E row \in stored : row.x = e.x /\ row.kind \in Markers
    BY <2>1
  <2>2. CASE \E i \in DOMAIN worker.gaps : worker.gaps[i].x = e.x
    <3>1. PICK i \in 1..Len(worker.gaps) : worker.gaps[i].x = e.x /\ worker.gaps[i].kind = "gap"
      BY <1>1, <2>2 DEF DeltaInv, GapsAreGaps
    <3>2. CASE i <= k
      <4>1. i \in 1..k
        BY <1>1, <1>2, <3>2
      <4> QED
        BY <1>3, <1>6, <3>1, <4>1
    <3>3. CASE ~(i <= k)
      <4>1. i - k \in 1..(Len(worker.gaps) - k) /\ (i - k) + k = i
        BY <1>1, <1>2, <3>3
      <4>2. gaps[i - k] = worker.gaps[i] /\ i - k \in DOMAIN gaps
        BY <1>7, <4>1
      <4> QED
        BY <3>1, <4>2 DEF Has
    <3> QED
      BY <3>2, <3>3
  <2>3. CASE \E i \in DOMAIN worker.batch : worker.batch[i].x = e.x /\ worker.batch[i].kind = "gap"
    BY <1>11, <2>3
  <2> QED
    BY <2>1, <2>2, <2>3 DEF DeltaInv, LossAnnounced
<1> QED
  BY <1>12, <1>13, <1>14, <1>15, <1>16 DEF DeltaInv

\* The batch is dropped, and with it the losses of its executions.
LEMMA EnterSinkKeeps == ASSUME DeltaInv, EnterSink PROVE DeltaInv'
<1>1. UNCHANGED <<runs, generation, budgets, ledger, stored>> /\ ~handover
  BY DEF EnterSink
<1>2. worker \in WorkerRows /\ worker.tx.rows = {}
  BY <1>1 DEF DeltaInv, DeltaTypes, TxSettled
<1>3. BudgetsMarked'
  BY <1>1 DEF DeltaInv, BudgetsMarked, Capped
<1>4. CASE UNCHANGED <<worker, lost>>
  <2>1. DeltaTypes' /\ GapsAreGaps' /\ LossAnnounced'
    BY <1>1, <1>4 DEF DeltaInv, DeltaTypes, GapsAreGaps, LossAnnounced
  <2>2. TxSettled'
    BY <1>2, <1>4 DEF TxSettled
  <2> QED
    BY <1>3, <2>1, <2>2 DEF DeltaInv
<1>5. CASE worker' = [worker EXCEPT !.batch = <<>>] /\ lost' = Forgive(worker.batch)
  <2>1. worker' \in WorkerRows /\ worker'.gaps = worker.gaps /\ worker'.tx = worker.tx
    <3>1. <<>> \in Seq(Recs)
      OBVIOUS
    <3> QED
      BY <1>2, <1>5, <3>1 DEF WorkerRows
  <2>2. lost' \subseteq lost /\ \A e \in lost' : \A i \in DOMAIN worker.batch : worker.batch[i].x # e.x
    BY <1>5 DEF Forgive
  <2>3. DeltaTypes' /\ GapsAreGaps'
    BY <1>1, <2>1, <2>2 DEF DeltaInv, DeltaTypes, GapsAreGaps
  <2>4. LossAnnounced'
    BY <1>1, <2>1, <2>2 DEF DeltaInv, LossAnnounced
  <2>5. TxSettled'
    BY <1>2, <2>1 DEF TxSettled
  <2> QED
    BY <1>3, <2>3, <2>4, <2>5 DEF DeltaInv
<1> QED
  BY <1>4, <1>5 DEF EnterSink

\* What counts as full for a new transaction has its marker stored.
LEMMA BudgetOfMarked ==
  ASSUME DeltaInv, NEW x \in Execs
  PROVE  BudgetOf(x) \in Spent /\ (BudgetOf(x).truncated => Capped(stored, x))
<1> DEFINE mine == {d \in ledger : d.x = x}
<1>1. CASE budgets[x] # Unread
  BY <1>1 DEF BudgetOf, DeltaInv, DeltaTypes, BudgetsMarked
<1>2. CASE budgets[x] = Unread
  <2>1. IsFiniteSet(mine)
    BY FS_Subset DEF DeltaInv, DeltaTypes
  <2>2. Cardinality(mine) \in Int
    BY <2>1, FS_CardinalityType
  <2>3. BudgetOf(x) = [count |-> Cardinality(mine), truncated |-> \E d \in ledger : d.x = x /\ d.kind = "truncated"]
    BY <1>2 DEF BudgetOf
  <2> HIDE DEF mine
  <2>4. BudgetOf(x) \in Spent
    BY <2>2, <2>3 DEF Spent
  <2>5. BudgetOf(x).truncated => \E d \in ledger : d.x = x /\ d.kind = "truncated"
    BY <2>3
  <2>6. (\E d \in ledger : d.x = x /\ d.kind = "truncated") => Capped(stored, x)
    BY DEF DeltaInv, BudgetsMarked
  <2> QED
    BY <2>4, <2>5, <2>6
<1> QED
  BY <1>1, <1>2

LEMMA WriteRowsKeeps == ASSUME DeltaInv, WriteRows PROVE DeltaInv'
<1> DEFINE first == [live |-> Execs \ Closed, cache |-> [x \in Execs |-> BudgetOf(x)], rows |-> {}, adopted |-> FALSE]
           t == WriteOn(first, worker.batch)
<1>1. worker \in WorkerRows /\ worker.batch \in Seq(Recs) /\ worker.tx.rows = {} /\ handover
  BY DEF DeltaInv, DeltaTypes, WorkerRows, WriteRows
<1>2. first \in TxRows /\ first.rows = {} /\ TxMarked(first)
  <2>1. \A x \in Execs : BudgetOf(x) \in Spent /\ (BudgetOf(x).truncated => Capped(stored, x))
    BY BudgetOfMarked
  <2>2. first.cache = [x \in Execs |-> BudgetOf(x)] /\ first.rows = {}
    OBVIOUS
  <2>3. first \in TxRows
    BY <2>1 DEF TxRows, Closed
  <2> HIDE DEF first
  <2> QED
    BY <2>1, <2>2, <2>3 DEF TxMarked
<1>3. IsFiniteSet(first.rows)
  BY <1>2, FS_EmptySet
<1>4. UNCHANGED <<runs, generation, budgets, ledger, stored, lost>>
      /\ (\/ t.rows # {} /\ worker' = [worker EXCEPT !.tx = t] /\ UNCHANGED handover
          \/ t.rows = {} /\ worker' = [worker EXCEPT !.batch = <<>>] /\ handover' = FALSE)
  BY DEF WriteRows
<1> HIDE DEF first
<1>5. /\ t \in TxRows /\ IsFiniteSet(t.rows) /\ TxMarked(t)
      /\ \A i \in DOMAIN worker.batch : Settled(t, worker.batch[i])
  BY <1>1, <1>2, <1>3, WriteOnKeeps
<1> HIDE DEF t
<1>6. BudgetsMarked'
  BY <1>4 DEF DeltaInv, BudgetsMarked, Capped
<1>7. CASE t.rows # {} /\ worker' = [worker EXCEPT !.tx = t] /\ UNCHANGED handover
  <2>1. worker' \in WorkerRows /\ worker'.tx = t /\ worker'.gaps = worker.gaps /\ worker'.batch = worker.batch
    BY <1>1, <1>5, <1>7 DEF WorkerRows
  <2>2. DeltaTypes' /\ GapsAreGaps' /\ LossAnnounced'
    BY <1>4, <1>5, <2>1 DEF DeltaInv, DeltaTypes, GapsAreGaps, LossAnnounced
  <2>3. TxSettled'
    BY <1>1, <1>4, <1>5, <1>7, <2>1 DEF TxSettled, TxMarked, Settled, Capped
  <2> QED
    BY <1>6, <2>2, <2>3 DEF DeltaInv
<1>8. CASE t.rows = {} /\ worker' = [worker EXCEPT !.batch = <<>>] /\ handover' = FALSE
  <2>1. worker' \in WorkerRows /\ worker'.tx = worker.tx /\ worker'.gaps = worker.gaps
    <3>1. <<>> \in Seq(Recs)
      OBVIOUS
    <3> QED
      BY <1>1, <1>8, <3>1 DEF WorkerRows
  <2>2. DeltaTypes' /\ GapsAreGaps' /\ TxSettled'
    BY <1>1, <1>4, <2>1 DEF DeltaInv, DeltaTypes, GapsAreGaps, TxSettled
  <2>3. ASSUME NEW i \in DOMAIN worker.batch, worker.batch[i].kind = "gap"
        PROVE  \E row \in stored : row.x = worker.batch[i].x /\ row.kind \in Markers
    <3>0. worker.batch[i] \in Recs
      BY <1>1
    <3>1. worker.batch[i].x \in Execs
      BY <3>0 DEF Recs
    <3>2. t.cache[worker.batch[i].x].truncated
      BY <1>5, <1>8, <2>3 DEF Settled, PARTIAL
    <3>3. Capped(stored, worker.batch[i].x)
      BY <1>5, <1>8, <3>1, <3>2 DEF TxMarked, Capped
    <3> QED
      BY <3>3 DEF Capped, Markers
  <2>4. LossAnnounced'
    BY <1>4, <2>1, <2>3 DEF DeltaInv, LossAnnounced
  <2> QED
    BY <1>6, <2>2, <2>4 DEF DeltaInv
<1> QED
  BY <1>4, <1>7, <1>8

\* The commit stores the markers of the batch, and of what the budget refused.
LEMMA SinkCommitsKeeps == ASSUME DeltaInv, SinkCommits PROVE DeltaInv'
<1> DEFINE rows == worker.tx.rows
           Row(row) == [x |-> row.x, seq |-> row.seq, kind |-> row.kind]
           in == {[x |-> row.x, seq |-> row.seq, kind |-> row.kind] : row \in rows}
<1>1. worker \in WorkerRows /\ worker.batch \in Seq(Recs) /\ worker.tx \in TxRows
      /\ rows \in SUBSET Recs /\ worker.tx.cache \in [Execs -> Spent]
  BY DEF DeltaInv, DeltaTypes, WorkerRows, TxRows
<1>2. /\ ledger' = ledger \cup in /\ stored' = stored \cup rows
      /\ \/ budgets' = budgets
         \/ budgets' = [x \in Execs |-> IF \E i \in DOMAIN worker.batch : worker.batch[i].x = x
                                        THEN worker.tx.cache[x] ELSE budgets[x]]
      /\ lost' = lost \cup (Complete(worker.batch) \ rows)
      /\ worker' = [worker EXCEPT !.batch = <<>>, !.tx = NoTx]
      /\ UNCHANGED <<runs, generation>> /\ rows # {}
  BY DEF SinkCommits
<1>3. TxMarked(worker.tx) /\ \A i \in DOMAIN worker.batch : Settled(worker.tx, worker.batch[i])
  BY <1>2 DEF DeltaInv, TxSettled
<1>4. in \subseteq LedgerRows
  BY <1>1 DEF LedgerRows, Recs
<1>5. IsFiniteSet(in)
  <2>1. IsFiniteSet(rows)
    BY DEF DeltaInv, DeltaTypes
  <2> DEFINE f == [row \in rows |-> [x |-> row.x, seq |-> row.seq, kind |-> row.kind]]
  <2>2. f \in Surjection(rows, in)
    BY DEF Surjection
  <2> HIDE DEF f, in, rows
  <2> QED
    BY <2>1, <2>2, FS_Surjection
<1>6. IsFiniteSet(ledger')
  <2> HIDE DEF in
  <2> QED BY <1>2, <1>5, FS_Union DEF DeltaInv, DeltaTypes
<1>7. Unread \in Spent /\ NoTx \in TxRows /\ NoTx.rows = {} /\ IsFiniteSet({})
  <2>1. Unread \in Spent
    BY DEF Unread, Spent
  <2> QED
    BY <2>1, FS_EmptySet DEF NoTx, TxRows
<1>8. worker' \in WorkerRows /\ worker'.tx = NoTx /\ worker'.gaps = worker.gaps /\ worker'.batch = <<>>
  <2>1. <<>> \in Seq(Recs)
    OBVIOUS
  <2> QED
    BY <1>1, <1>2, <1>7, <2>1 DEF WorkerRows
<1>9. budgets' \in [Execs -> Spent]
      /\ \A x \in Execs : budgets'[x] \in {budgets[x], worker.tx.cache[x]}
  BY <1>1, <1>2 DEF DeltaInv, DeltaTypes
<1>10. Complete(worker.batch) \subseteq Recs
       /\ \A e \in Complete(worker.batch) : e.kind # PARTIAL /\ \E i \in DOMAIN worker.batch : worker.batch[i] = e
  BY <1>1 DEF Complete
<1>11. \A x \in Execs : worker.tx.cache[x].truncated => Capped(stored, x)'
  BY <1>2, <1>3 DEF TxMarked, Capped
<1>12. \A x : Capped(stored, x) => Capped(stored, x)'
  BY <1>2 DEF Capped
<1>13. DeltaTypes'
  <2>1. runs' \in [Execs -> RunRows] /\ generation' \in Nat
    BY <1>2 DEF DeltaInv, DeltaTypes
  <2>2. ledger' \in SUBSET LedgerRows /\ stored' \in SUBSET Recs /\ lost' \in SUBSET Recs
    BY <1>1, <1>2, <1>4, <1>10 DEF DeltaInv, DeltaTypes
  <2> QED
    BY <1>6, <1>7, <1>8, <1>9, <2>1, <2>2 DEF DeltaTypes
<1>14. BudgetsMarked'
  <2>1. \A x \in Execs : budgets'[x].truncated => Capped(stored, x)'
    BY <1>9, <1>11, <1>12 DEF DeltaInv, BudgetsMarked
  <2>2. ASSUME NEW d \in ledger', d.kind = "truncated" PROVE Capped(stored, d.x)'
    <3>1. CASE d \in ledger
      BY <1>12, <2>2, <3>1 DEF DeltaInv, BudgetsMarked
    <3>2. CASE d \in in
      <4>1. PICK row \in rows : d = [x |-> row.x, seq |-> row.seq, kind |-> row.kind]
        BY <3>2
      <4>2. row \in stored' /\ row.x = d.x /\ row.kind = "truncated"
        BY <1>2, <2>2, <4>1
      <4> QED
        BY <4>2 DEF Capped
    <3> QED
      BY <1>2, <3>1, <3>2
  <2> QED
    BY <2>1, <2>2 DEF BudgetsMarked, Capped
<1>15. TxSettled' /\ GapsAreGaps'
  BY <1>7, <1>8 DEF DeltaInv, TxSettled, GapsAreGaps
<1>16. ASSUME NEW e \in Recs, e.kind # PARTIAL, NEW i \in DOMAIN worker.batch, worker.batch[i] = e, e \notin rows
       PROVE  \E row \in stored' : row.x = e.x /\ row.kind \in Markers
  <2>1. worker.tx.cache[e.x].truncated /\ e.x \in Execs
    BY <1>3, <1>16 DEF Settled, Recs
  <2> QED
    BY <1>11, <2>1 DEF Capped, Markers
<1>17. LossAnnounced'
  <2> SUFFICES ASSUME NEW e \in lost'
               PROVE  (\E row \in stored' : row.x = e.x /\ row.kind \in Markers) \/ Has(worker.gaps, e.x)
    BY <1>8 DEF LossAnnounced, Has
  <2>1. CASE e \in Complete(worker.batch) \ rows
    BY <1>10, <1>16, <2>1
  <2>2. CASE e \in lost /\ \E i \in DOMAIN worker.batch : worker.batch[i].x = e.x /\ worker.batch[i].kind = "gap"
    <3>1. PICK i \in DOMAIN worker.batch : worker.batch[i].x = e.x /\ worker.batch[i].kind = "gap"
      BY <2>2
    <3>2. worker.batch[i] \in Recs
      BY <1>1
    <3>3. CASE worker.batch[i] \in rows
      BY <1>2, <3>1, <3>3 DEF Markers
    <3>4. CASE worker.batch[i] \notin rows
      <4>1. \E row \in stored' : row.x = worker.batch[i].x /\ row.kind \in Markers
        BY <1>16, <3>1, <3>2, <3>4 DEF PARTIAL
      <4> QED
        BY <3>1, <4>1
    <3> QED
      BY <3>3, <3>4
  <2>3. CASE e \in lost /\ ((\E row \in stored : row.x = e.x /\ row.kind \in Markers) \/ Has(worker.gaps, e.x))
    BY <1>2, <2>3
  <2> QED
    BY <1>2, <2>1, <2>2, <2>3 DEF DeltaInv, LossAnnounced, Has
<1> QED
  BY <1>13, <1>14, <1>15, <1>17 DEF DeltaInv

\* A rollback leaves no budget in the cache that was not there, full, before the batch.
LEMMA SinkFailsKeeps == ASSUME DeltaInv, SinkFails PROVE DeltaInv'
<1>1. worker \in WorkerRows /\ budgets \in [Execs -> Spent]
  BY DEF DeltaInv, DeltaTypes
<1>2. Unread \in Spent /\ ~Unread.truncated /\ NoTx \in TxRows /\ NoTx.rows = {} /\ IsFiniteSet({}) /\ <<>> \in Seq(Recs)
  <2>1. Unread \in Spent /\ ~Unread.truncated
    BY DEF Unread, Spent
  <2> QED
    BY <2>1, FS_EmptySet DEF NoTx, TxRows
<1>3. /\ UNCHANGED <<runs, generation, ledger, stored>>
      /\ budgets' = budgets \/ budgets' = [x \in Execs |-> RollbackBudget(x)]
      /\ \/ worker' = [worker EXCEPT !.tx = NoTx] /\ UNCHANGED lost
         \/ worker' = [worker EXCEPT !.tx = NoTx, !.batch = <<>>] /\ lost' = Forgive(worker.batch)
  BY DEF SinkFails
<1>4. budgets' \in [Execs -> Spent] /\ \A x \in Execs : budgets'[x] \in {budgets[x], Unread}
  BY <1>1, <1>2, <1>3 DEF RollbackBudget
<1>5. worker' \in WorkerRows /\ worker'.tx = NoTx /\ worker'.gaps = worker.gaps
      /\ \/ worker'.batch = worker.batch /\ lost' = lost
         \/ lost' = Forgive(worker.batch)
  BY <1>1, <1>2, <1>3 DEF WorkerRows
<1>6. lost' \subseteq lost
  BY <1>5 DEF Forgive
<1>7. DeltaTypes'
  BY <1>2, <1>3, <1>4, <1>5, <1>6 DEF DeltaInv, DeltaTypes
<1>8. BudgetsMarked'
  BY <1>2, <1>3, <1>4 DEF DeltaInv, BudgetsMarked, Capped
<1>9. TxSettled' /\ GapsAreGaps'
  BY <1>2, <1>5 DEF DeltaInv, TxSettled, GapsAreGaps
<1>10. LossAnnounced'
  BY <1>3, <1>5 DEF DeltaInv, LossAnnounced, Forgive
<1> QED
  BY <1>7, <1>8, <1>9, <1>10 DEF DeltaInv

LEMMA AdoptKeeps == ASSUME DeltaInv, Adopt PROVE DeltaInv'
<1>1. worker \in WorkerRows /\ worker.tx \in TxRows
  BY DEF DeltaInv, DeltaTypes, WorkerRows
<1>2. Unread \in Spent /\ ~Unread.truncated
  BY DEF Unread, Spent
<1> DEFINE late == worker.tx.adopted \/ worker.tx.rows # {}
           tx == [worker.tx EXCEPT !.adopted = late]
<1>3. worker' = [worker EXCEPT !.tx = tx] /\ budgets' = [x \in Execs |-> Unread]
      /\ UNCHANGED <<runs, generation, handover, ledger, stored, lost>>
  BY <1>1 DEF Adopt, WorkerRows, TxRows
<1>4. tx \in TxRows /\ tx.cache = worker.tx.cache /\ tx.rows = worker.tx.rows
  <2>1. late \in BOOLEAN
    OBVIOUS
  <2> HIDE DEF late
  <2> QED BY <1>1, <2>1 DEF TxRows
<1> HIDE DEF tx
<1>5. worker' \in WorkerRows /\ worker'.tx = tx /\ worker'.gaps = worker.gaps /\ worker'.batch = worker.batch
  BY <1>1, <1>3, <1>4 DEF WorkerRows
<1>6. DeltaTypes'
  BY <1>2, <1>3, <1>4, <1>5 DEF DeltaInv, DeltaTypes
<1>7. BudgetsMarked'
  BY <1>2, <1>3 DEF DeltaInv, BudgetsMarked, Capped
<1>8. TxSettled'
  BY <1>3, <1>4, <1>5 DEF DeltaInv, TxSettled, TxMarked, Settled, Capped
<1>9. GapsAreGaps' /\ LossAnnounced'
  BY <1>3, <1>5 DEF DeltaInv, GapsAreGaps, LossAnnounced
<1> QED
  BY <1>6, <1>7, <1>8, <1>9 DEF DeltaInv

LEMMA SyncDiscardsKeeps == ASSUME DeltaInv, SyncDiscards PROVE DeltaInv'
<1>1. worker \in WorkerRows /\ <<>> \in Seq(Recs)
  BY DEF DeltaInv, DeltaTypes
<1>2. worker' \in WorkerRows /\ worker'.tx = worker.tx /\ worker'.gaps = <<>> /\ worker'.batch = worker.batch
  BY <1>1 DEF SyncDiscards, WorkerRows
<1>3. lost' = {} /\ UNCHANGED <<generation, handover, budgets, ledger, stored>>
  BY DEF SyncDiscards
<1>4. runs' \in [Execs -> RunRows]
  BY DEF SyncDiscards, DeltaInv, DeltaTypes, RunRows
<1>5. DeltaTypes' /\ BudgetsMarked'
  BY <1>2, <1>3, <1>4 DEF DeltaInv, DeltaTypes, BudgetsMarked, Capped
<1>6. TxSettled'
  BY <1>2, <1>3 DEF DeltaInv, TxSettled, TxMarked, Settled, Capped
<1>7. GapsAreGaps' /\ LossAnnounced'
  BY <1>2, <1>3 DEF GapsAreGaps, LossAnnounced
<1> QED
  BY <1>5, <1>6, <1>7 DEF DeltaInv

LEMMA SyncStartsKeeps == ASSUME DeltaInv, SyncStarts PROVE DeltaInv'
<1>1. Unread \in Spent /\ ~Unread.truncated
  BY DEF Unread, Spent
<1>2. NoTx \in TxRows /\ NoTx.rows = {} /\ IsFiniteSet({})
  BY <1>1, FS_EmptySet DEF NoTx, TxRows
<1>3. generation + 1 \in Nat
  BY DEF DeltaInv, DeltaTypes
<1>4. worker' \in WorkerRows /\ worker'.tx = NoTx /\ worker'.gaps = <<>>
  BY <1>2, <1>3 DEF SyncStarts, NewWorker, WorkerRows
<1>5. lost' = {} /\ generation' = generation + 1 /\ budgets' = [x \in Execs |-> Unread]
      /\ UNCHANGED <<runs, ledger, stored>>
  BY DEF SyncStarts
<1>6. DeltaTypes' /\ BudgetsMarked'
  BY <1>1, <1>2, <1>3, <1>4, <1>5 DEF DeltaInv, DeltaTypes, BudgetsMarked, Capped
<1>7. TxSettled' /\ GapsAreGaps' /\ LossAnnounced'
  BY <1>2, <1>4, <1>5 DEF TxSettled, GapsAreGaps, LossAnnounced
<1> QED
  BY <1>6, <1>7 DEF DeltaInv

LEMMA DeltaStutter == ASSUME DeltaInv, UNCHANGED deltaVars PROVE DeltaInv'
<1>1. UNCHANGED <<runs, worker, generation, handover, budgets, ledger, stored, lost>>
  BY DEF deltaVars
<1>2. runs' \in [Execs -> RunRows] /\ worker' \in WorkerRows /\ generation' \in Nat
  BY <1>1 DEF DeltaInv, DeltaTypes
<1> QED
  BY <1>1, <1>2, QueueMoves

LEMMA DeltaStepKeeps == DeltaInv /\ [DeltaNext]_deltaVars => DeltaInv'
<1> SUFFICES ASSUME DeltaInv, [DeltaNext]_deltaVars PROVE DeltaInv'
  OBVIOUS
<1>1. ASSUME NEW x \in Execs,
             OpenRun(x) \/ NumberFragment(x) \/ OfferPartial(x) \/ CloseRun(x) \/ FinalizeRun(x) \/ FlushDue(x)
      PROVE  DeltaInv'
  BY <1>1, OpenRunKeeps, NumberFragmentKeeps, OfferPartialKeeps, CloseRunKeeps, FinalizeRunKeeps, FlushDueKeeps
<1>2. ASSUME NEW x \in Execs, NEW kind \in {TEXT, "tool_use"}, Offer(x, kind) PROVE DeltaInv'
  BY <1>2, OfferKeeps
<1>3. CASE Take
  BY <1>3, TakeKeeps
<1>4. CASE EnterSink
  BY <1>4, EnterSinkKeeps
<1>5. CASE WriteRows
  BY <1>5, WriteRowsKeeps
<1>6. CASE SinkCommits
  BY <1>6, SinkCommitsKeeps
<1>7. CASE SinkFails
  BY <1>7, SinkFailsKeeps
<1>8. CASE Adopt
  BY <1>8, AdoptKeeps
<1>9. CASE SyncDiscards
  BY <1>9, SyncDiscardsKeeps
<1>10. CASE SyncStarts
  BY <1>10, SyncStartsKeeps
<1>11. CASE ThreadEnds \/ ShutdownStops \/ ShutdownCloses \/ SyncBumps \/ SyncJoins
  BY <1>11, QuietWorkerKeeps
<1>12. CASE UNCHANGED deltaVars
  BY <1>12, DeltaStutter
<1> QED
  BY <1>1, <1>2, <1>3, <1>4, <1>5, <1>6, <1>7, <1>8, <1>9, <1>10, <1>11, <1>12 DEF DeltaNext

\* A complete fragment that a full queue or a full budget dropped has a marker of its run
\* stored, or on its way, whatever was rolled back or retried meanwhile (LossAnnounced).
THEOREM LossesAreAnnounced == DeltaSpec => []LossAnnounced
<1>1. DeltaInv => LossAnnounced
  BY DEF DeltaInv
<1> QED
  BY <1>1, DeltaInitInv, DeltaStepKeeps, PTL DEF DeltaSpec

-----------------------------------------------------------------------------
(* SubagentWake: rows and what is above them *)

TaskRows == [status : {"none", "open", "success", "dead"}, parent : Rows \cup {0}, depth : Nat,
             thread : Rows \cup {0}, on : BOOLEAN, wakes : Rows \cup {0}]

WakeTypes ==
    /\ task \in [Rows -> TaskRows]
    /\ observer \in [Rows -> [todo : Seq(Rows), wake : Rows \cup {0}]]

\* Links lead one level up to rows that exist; the thread of a detached row is its own.
Placed ==
    \A r \in Rows :
      /\ task[r].depth <= MaxDepth
      /\ task[r].parent = 0 <=> task[r].depth = 0
      /\ task[r].parent # 0 => /\ Exists(r) /\ Exists(task[r].parent)
                               /\ task[r].depth = task[task[r].parent].depth + 1
      /\ task[r].thread # 0 => /\ Exists(r) /\ Exists(task[r].thread)
                               /\ task[task[r].thread].thread = task[r].thread

\* Only an ended row has an observer at work, and what it publishes is for the row it is at.
Attended ==
    \A o \in Rows :
      /\ observer[o].todo # <<>> => task[o].status \in {"success", "dead"}
      /\ observer[o].wake # 0 => observer[o].todo # <<>> /\ observer[o].wake = Head(observer[o].todo)

\* A row is over another when every set of rows that includes the parents of its rows and
\* the other includes it.
Upward(S) == \A x \in S : task[x].parent # 0 => task[x].parent \in S
Over(p, r) == \A S \in SUBSET Rows : r \in S /\ Upward(S) => p \in S

Due(p) == Pending(p, task[p].thread)

\* What a row that is due for a wake is held by: an open row below it, a row below that is
\* due itself, or an observer that has yet to ask for it.
Held(p) ==
    \/ \E r \in Rows : Over(p, r) /\ task[r].status = "open"
    \/ \E q \in Rows : q # p /\ Over(p, q) /\ Due(q)
    \/ \E o \in Rows : \E i \in DOMAIN observer[o].todo : observer[o].todo[i] = p

AllHeld == \A p \in Rows : Due(p) => Held(p)

WakeInv == WakeTypes /\ Placed /\ Attended /\ AllHeld

LEMMA OverGrows ==
  ASSUME \A x \in Rows : task[x].parent # 0 => task'[x].parent = task[x].parent
  PROVE  \A p, r : Over(p, r) => Over(p, r)'
<1> SUFFICES ASSUME NEW p, NEW r, Over(p, r), NEW S \in SUBSET Rows, r \in S, Upward(S)'
             PROVE  p \in S
  BY DEF Over
<1>1. Upward(S)
  BY DEF Upward
<1> QED
  BY <1>1 DEF Over

LEMMA OverSelf == \A r : Over(r, r)
  BY DEF Over

LEMMA OverChild ==
  ASSUME WakeTypes, NEW p, NEW q \in Rows, NEW c \in Rows, task[c].parent = q, Over(p, q)
  PROVE  Over(p, c)
<1> SUFFICES ASSUME NEW S \in SUBSET Rows, c \in S, Upward(S) PROVE p \in S
  BY DEF Over
<1>1. q \in S
  BY RowsAssumption DEF Upward
<1> QED
  BY <1>1 DEF Over

LEMMA OverParent ==
  ASSUME WakeTypes, NEW p, NEW r \in Rows, Over(p, r), p # r
  PROVE  task[r].parent \in Rows /\ Over(p, task[r].parent)
<1>1. task[r].parent \in Rows
  <2> SUFFICES ASSUME task[r].parent = 0 PROVE FALSE
    BY DEF WakeTypes, TaskRows
  <2>1. {r} \in SUBSET Rows /\ Upward({r})
    BY DEF Upward
  <2> QED
    BY <2>1 DEF Over
<1> SUFFICES ASSUME NEW S \in SUBSET Rows, task[r].parent \in S, Upward(S) PROVE p \in S
  BY <1>1 DEF Over
<1>2. S \cup {r} \in SUBSET Rows /\ Upward(S \cup {r})
  BY DEF Upward
<1> QED
  BY <1>2 DEF Over

LEMMA OverDeeper ==
  ASSUME WakeTypes, Placed, NEW p \in Rows, NEW r \in Rows, Over(p, r), p # r
  PROVE  task[p].depth < task[r].depth
<1> DEFINE S == {x \in Rows : task[x].depth < task[r].depth} \cup {r}
<1>1. S \in SUBSET Rows /\ r \in S
  OBVIOUS
<1>2. ASSUME NEW x \in S, task[x].parent # 0 PROVE task[x].parent \in S
  <2>1. x \in Rows /\ task[x].parent \in Rows /\ task[x].depth = task[task[x].parent].depth + 1
    BY <1>2 DEF WakeTypes, TaskRows, Placed
  <2>2. task[x].depth \in Nat /\ task[r].depth \in Nat /\ task[task[x].parent].depth \in Nat
    BY <2>1 DEF WakeTypes, TaskRows
  <2>3. task[x].depth <= task[r].depth
    BY <2>2
  <2> QED
    BY <2>1, <2>2, <2>3
<1>3. Upward(S)
  BY <1>2 DEF Upward
<1>4. p \in S
  BY <1>1, <1>3 DEF Over
<1> QED
  BY <1>4

-----------------------------------------------------------------------------
(* SubagentWake: Ancestors and Below *)

\* What the function of Ancestors is on the first k levels.
Chain(f, r, k) == f = [n \in 0..k |-> IF n = 0 THEN r ELSE task[f[n - 1]].parent]

LEMMA ChainsExist ==
  ASSUME NEW r, NEW d \in Nat
  PROVE  \E f : Chain(f, r, d)
<1> DEFINE S == {j \in Nat : ~ \E f : Chain(f, r, j)}
<1>2. \E f : Chain(f, r, 0)
  <2> DEFINE f == [n \in 0..0 |-> r]
  <2>1. f = [n \in 0..0 |-> IF n = 0 THEN r ELSE task[f[n - 1]].parent]
    OBVIOUS
  <2> QED
    BY <2>1 DEF Chain
<1>3. ASSUME NEW j \in S, \A m \in S : j <= m PROVE FALSE
  <2>1. j \in Nat /\ j # 0
    BY <1>2
  <2>2. j - 1 \in Nat /\ j - 1 \notin S
    BY <1>3, <2>1
  <2>3. PICK f : Chain(f, r, j - 1)
    BY <2>2
  <2> DEFINE g == [n \in 0..j |-> IF n = j THEN task[f[j - 1]].parent ELSE f[n]]
  <2>4. ASSUME NEW n \in 0..j
        PROVE  g[n] = IF n = 0 THEN r ELSE task[g[n - 1]].parent
    <3>1. CASE n = 0
      BY <2>1, <2>3, <3>1 DEF Chain
    <3>2. CASE n = j
      <4>1. g[n] = task[f[j - 1]].parent /\ g[n - 1] = f[j - 1]
        BY <2>1, <3>2
      <4> QED
        BY <2>1, <3>2, <4>1
    <3>3. CASE n > 0 /\ n < j
      <4>1. n \in 0..(j - 1) /\ n - 1 \in 0..j /\ n - 1 # j /\ n # j
        BY <2>1, <3>3
      <4>2. g[n] = f[n] /\ g[n - 1] = f[n - 1]
        BY <4>1
      <4> QED
        BY <2>3, <3>3, <4>1, <4>2 DEF Chain
    <3> QED
      BY <2>1, <3>1, <3>2, <3>3
  <2>5. g = [n \in 0..j |-> IF n = 0 THEN r ELSE task[g[n - 1]].parent]
    BY <2>4
  <2>6. \E h : Chain(h, r, j)
    BY <2>5 DEF Chain
  <2> QED
    BY <1>3, <2>6
<1>4. S = {}
  <2> HIDE DEF S
  <2>1. S \subseteq Nat
    BY DEF S
  <2> QED BY <2>1, <1>3, LeastNatural
<1> QED
  BY <1>4

\* The rows of a chain are one level apart, up to the root.
LEMMA ChainClimbs ==
  ASSUME WakeTypes, Placed, NEW r \in Rows, NEW f, Chain(f, r, task[r].depth)
  PROVE  \A n \in 0..task[r].depth : f[n] \in Rows /\ task[f[n]].depth = task[r].depth - n
<1> DEFINE d == task[r].depth
           S == {n \in 0..d : ~(f[n] \in Rows /\ task[f[n]].depth = d - n)}
<1>1. d \in Nat
  BY DEF WakeTypes, TaskRows
<1> HIDE DEF d
<1>2. \A n \in 0..d : f[n] = IF n = 0 THEN r ELSE task[f[n - 1]].parent
  BY DEF Chain, d
<1>3. 0 \notin S
  BY <1>1, <1>2 DEF d
<1>4. ASSUME NEW j \in S, \A m \in S : j <= m PROVE FALSE
  <2>1. j > 0 /\ j \in 0..d /\ j - 1 \in 0..d /\ j - 1 \notin S
    BY <1>1, <1>3, <1>4
  <2>2. f[j - 1] \in Rows /\ task[f[j - 1]].depth = d - (j - 1) /\ f[j] = task[f[j - 1]].parent
    BY <1>2, <2>1
  <2>3. task[f[j - 1]].depth # 0
    BY <1>1, <2>1, <2>2
  <2>4. f[j] \in Rows /\ task[f[j - 1]].depth = task[f[j]].depth + 1
    BY <2>2, <2>3 DEF Placed, WakeTypes, TaskRows
  <2>5. task[f[j]].depth \in Nat
    BY <2>4 DEF WakeTypes, TaskRows
  <2>6. task[f[j]].depth = d - j
    BY <1>1, <2>1, <2>2, <2>4, <2>5
  <2> QED
    BY <2>4, <2>6
<1>5. S = {}
  <2>1. S \subseteq Nat
    BY <1>1
  <2> HIDE DEF S
  <2> QED BY <2>1, <1>4, LeastNatural
<1> QED
  BY <1>5 DEF d

\* An observer asks of every row over the one that ended.
LEMMA AncestorsAsk ==
  ASSUME WakeTypes, Placed, NEW r \in Rows
  PROVE  /\ Ancestors(r) \in Seq(Rows)
         /\ \A p \in Rows : Over(p, r) => \E i \in DOMAIN Ancestors(r) : Ancestors(r)[i] = p
<1> DEFINE d == task[r].depth
           f == CHOOSE h : Chain(h, r, d)
<1>1. d \in Nat /\ d <= MaxDepth /\ MaxDepth \in Nat
  BY RowsAssumption DEF WakeTypes, TaskRows, Placed
<1>2. Chain(f, r, d)
  <2> HIDE DEF d
  <2>1. \E h : Chain(h, r, d)
    BY <1>1, ChainsExist
  <2> QED BY <2>1, Zenon
<1>3. Ancestors(r) = [i \in 1..(d + 1) |-> f[i - 1]]
  <2> DEFINE e == IF task[r].depth < MaxDepth THEN task[r].depth ELSE MaxDepth
  <2>1. e = d
    BY <1>1
  <2>2. Ancestors(r) = [i \in 1..(e + 1) |-> (CHOOSE h : Chain(h, r, e))[i - 1]]
    BY DEF Ancestors, Chain
  <2> HIDE DEF e, d
  <2> QED
    BY <2>1, <2>2
<1>4. \A n \in 0..d : f[n] \in Rows /\ task[f[n]].depth = d - n
  <2> HIDE DEF f
  <2> QED BY <1>2, ChainClimbs
<1>5. \A n \in 0..d : f[n] = IF n = 0 THEN r ELSE task[f[n - 1]].parent
  <2> HIDE DEF f, d
  <2> QED BY <1>2 DEF Chain
<1> HIDE DEF f, d
<1>6. Ancestors(r) \in Seq(Rows) /\ DOMAIN Ancestors(r) = 1..(d + 1)
  <2>1. \A i \in 1..(d + 1) : f[i - 1] \in Rows
    BY <1>1, <1>4
  <2> QED
    BY <1>1, <1>3, <2>1
<1> DEFINE S == {f[n] : n \in 0..d}
<1>7. S \in SUBSET Rows /\ r \in S
  <2>1. f[0] = r
    BY <1>1, <1>5
  <2> QED
    BY <1>1, <1>4, <2>1
<1>8. ASSUME NEW x \in S, task[x].parent # 0 PROVE task[x].parent \in S
  <2>1. PICK n \in 0..d : x = f[n]
    OBVIOUS
  <2>2. task[x].depth # 0 /\ task[x].depth = d - n
    BY <1>4, <1>8, <2>1 DEF Placed
  <2>3. n + 1 \in 0..d /\ n + 1 # 0 /\ (n + 1) - 1 = n
    BY <1>1, <2>1, <2>2
  <2>4. f[n + 1] = task[f[n]].parent
    BY <1>5, <2>3
  <2> QED
    BY <2>1, <2>3, <2>4
<1>9. ASSUME NEW p \in Rows, Over(p, r) PROVE \E i \in DOMAIN Ancestors(r) : Ancestors(r)[i] = p
  <2>1. p \in S
    BY <1>7, <1>8, <1>9 DEF Over, Upward
  <2>2. PICK n \in 0..d : p = f[n]
    BY <2>1
  <2>3. n + 1 \in 1..(d + 1) /\ (n + 1) - 1 = n
    BY <1>1, <2>2
  <2> QED
    BY <1>3, <1>6, <2>2, <2>3
<1> QED
  BY <1>6, <1>9

\* What the function of Below is on the first k levels.
NextLevel(L, t) == UNION {Children(r, t) : r \in L}
Levels(f, p, t, k) == f = [n \in 0..k |-> IF n = 0 THEN {p} ELSE NextLevel(f[n - 1], t)]

LEMMA LevelsExist ==
  ASSUME NEW p, NEW t, NEW d \in Nat
  PROVE  \E f : Levels(f, p, t, d)
<1> DEFINE S == {j \in Nat : ~ \E f : Levels(f, p, t, j)}
<1>2. \E f : Levels(f, p, t, 0)
  <2> DEFINE f == [n \in 0..0 |-> {p}]
  <2>1. f = [n \in 0..0 |-> IF n = 0 THEN {p} ELSE NextLevel(f[n - 1], t)]
    OBVIOUS
  <2> QED
    BY <2>1 DEF Levels
<1>3. ASSUME NEW j \in S, \A m \in S : j <= m PROVE FALSE
  <2>1. j \in Nat /\ j # 0
    BY <1>2
  <2>2. j - 1 \in Nat /\ j - 1 \notin S
    BY <1>3, <2>1
  <2>3. PICK f : Levels(f, p, t, j - 1)
    BY <2>2
  <2>4. \A n \in 0..(j - 1) : f[n] = IF n = 0 THEN {p} ELSE NextLevel(f[n - 1], t)
    BY <2>3 DEF Levels
  <2> DEFINE g == [n \in 0..j |-> IF n = j THEN NextLevel(f[j - 1], t) ELSE f[n]]
  <2>5. ASSUME NEW n \in 0..j
        PROVE  g[n] = IF n = 0 THEN {p} ELSE NextLevel(g[n - 1], t)
    <3>1. CASE n = 0
      BY <2>1, <2>4, <3>1
    <3>2. CASE n = j
      <4>1. g[n] = NextLevel(f[j - 1], t) /\ g[n - 1] = f[j - 1]
        BY <2>1, <3>2
      <4> QED
        BY <2>1, <3>2, <4>1
    <3>3. CASE n > 0 /\ n < j
      <4>1. n \in 0..(j - 1) /\ n - 1 \in 0..j /\ n - 1 # j /\ n # j
        BY <2>1, <3>3
      <4>2. g[n] = f[n] /\ g[n - 1] = f[n - 1]
        BY <4>1
      <4> QED
        BY <2>4, <3>3, <4>1, <4>2
    <3> QED
      BY <2>1, <3>1, <3>2, <3>3
  <2>6. g = [n \in 0..j |-> IF n = 0 THEN {p} ELSE NextLevel(g[n - 1], t)]
    BY <2>5
  <2>7. \E h : Levels(h, p, t, j)
    BY <2>6 DEF Levels
  <2> QED
    BY <1>3, <2>7
<1>4. S = {}
  <2>1. S \subseteq Nat
    OBVIOUS
  <2> HIDE DEF S
  <2> QED BY <2>1, <1>3, LeastNatural
<1> QED
  BY <1>4

\* What maybe_wake reads below a row: its children, and rows of the thread that it is over.
LEMMA BelowReads ==
  ASSUME WakeTypes, Placed, NEW p \in Rows, NEW t
  PROVE  /\ \A r \in Below(p, t) : r \in Rows /\ r # p /\ task[r].thread = t /\ Over(p, r)
         /\ Children(p, t) \subseteq Below(p, t)
<1> DEFINE f == CHOOSE h : Levels(h, p, t, MaxDepth)
<1>0. MaxDepth \in Nat
  BY RowsAssumption
<1>1. Levels(f, p, t, MaxDepth)
  <2>1. \E h : Levels(h, p, t, MaxDepth)
    BY <1>0, LevelsExist
  <2> QED BY <2>1, Zenon
<1>2. Below(p, t) = UNION {f[n] : n \in 1..MaxDepth}
  BY DEF Below, Levels, NextLevel
<1> HIDE DEF f
<1>3. \A n \in 0..MaxDepth : f[n] = IF n = 0 THEN {p} ELSE NextLevel(f[n - 1], t)
  BY <1>1 DEF Levels
<1> DEFINE S == {n \in 0..MaxDepth : ~ \A r \in f[n] : r \in Rows /\ Over(p, r)}
<1>4. 0 \notin S
  BY <1>0, <1>3, OverSelf
<1>5. ASSUME NEW j \in S, \A m \in S : j <= m PROVE FALSE
  <2>1. j > 0 /\ j \in 0..MaxDepth /\ j - 1 \in 0..MaxDepth /\ j - 1 \notin S
    BY <1>0, <1>4, <1>5
  <2>2. \A r \in f[j - 1] : r \in Rows /\ Over(p, r)
    BY <2>1
  <2>3. f[j] = NextLevel(f[j - 1], t)
    BY <1>3, <2>1
  <2>4. ASSUME NEW c \in f[j] PROVE c \in Rows /\ Over(p, c)
    <3>1. PICK r \in f[j - 1] : c \in Children(r, t)
      BY <2>3 DEF NextLevel
    <3>2. c \in Rows /\ task[c].parent = r
      BY <3>1 DEF Children
    <3> QED
      BY <2>2, <3>1, <3>2, OverChild
  <2> QED
    BY <2>4
<1>6. S = {}
  <2>1. S \subseteq Nat
    BY <1>0
  <2> HIDE DEF S
  <2> QED BY <2>1, <1>5, LeastNatural
<1>7. ASSUME NEW c \in Below(p, t) PROVE c \in Rows /\ c # p /\ task[c].thread = t /\ Over(p, c)
  <2>1. PICK n \in 1..MaxDepth : c \in f[n]
    BY <1>2
  <2>2. n \in 0..MaxDepth /\ n - 1 \in 0..MaxDepth /\ n # 0
    BY <1>0, <2>1
  <2>3. PICK r \in f[n - 1] : c \in Children(r, t)
    <3>1. f[n] = NextLevel(f[n - 1], t)
      BY <1>3, <2>2
    <3> QED
      BY <2>1, <3>1 DEF NextLevel
  <2>4. c \in Rows /\ task[c].parent = r /\ task[c].thread = t
    BY <2>3 DEF Children
  <2>5. r \in Rows /\ Over(p, r) /\ Over(p, c)
    BY <1>6, <2>1, <2>2, <2>3
  <2>6. r = p \/ task[p].depth < task[r].depth
    BY <2>5, OverDeeper
  <2>7. task[c].depth = task[r].depth + 1
    BY <2>4, <2>5, RowsAssumption DEF Placed
  <2>8. task[p].depth \in Nat /\ task[r].depth \in Nat
    BY <2>5 DEF WakeTypes, TaskRows
  <2> QED
    BY <2>4, <2>5, <2>6, <2>7, <2>8
<1>8. ASSUME NEW c \in Children(p, t) PROVE c \in Below(p, t)
  <2>1. c \in Rows /\ task[c].parent = p
    BY <1>8 DEF Children
  <2>2. task[c].depth = task[p].depth + 1 /\ task[c].depth <= MaxDepth /\ task[p].depth \in Nat
    BY <2>1, RowsAssumption DEF Placed, WakeTypes, TaskRows
  <2>3. 1 \in 1..MaxDepth /\ 1 \in 0..MaxDepth /\ 0 \in 0..MaxDepth /\ 1 - 1 = 0
    BY <1>0, <2>2
  <2>4. f[0] = {p} /\ f[1] = NextLevel(f[0], t)
    BY <1>3, <2>3
  <2>5. c \in f[1]
    BY <1>8, <2>4 DEF NextLevel
  <2> QED
    BY <1>2, <2>3, <2>5
<1> QED
  BY <1>7, <1>8

-----------------------------------------------------------------------------
(* SubagentWake: the steps *)

LEMMA WakeInitInv == WakeInit => WakeInv
<1> SUFFICES ASSUME WakeInit PROVE WakeInv
  OBVIOUS
<1> DEFINE root == [NoTask EXCEPT !.status = "open", !.on = 1 \in WakeOn]
           Fresh(t) == /\ t \in TaskRows /\ t.status \in {"open", "none"} /\ t.parent = 0 /\ t.depth = 0
                       /\ t.thread = 0
<1>0. Fresh(NoTask)
  BY DEF NoTask, TaskRows
<1>1. \A r \in Rows : Fresh(task[r])
  <2>1. root = [NoTask EXCEPT !.status = "open", !.on = root.on] /\ root.on \in BOOLEAN
    <3>1. root.on = (1 \in WakeOn)
      BY DEF NoTask
    <3> QED
      BY <3>1
  <2>2. \A r \in Rows : task[r] = root \/ task[r] = NoTask
    BY DEF WakeInit
  <2> HIDE DEF root
  <2>3. Fresh(root)
    BY <1>0, <2>1 DEF TaskRows
  <2> QED
    BY <1>0, <2>2, <2>3
<1>2. WakeTypes
  <2>1. \A r \in Rows : task[r] \in TaskRows
    BY <1>1
  <2>2. <<>> \in Seq(Rows)
    OBVIOUS
  <2> QED
    BY <2>1, <2>2 DEF WakeInit, WakeTypes
<1>3. Placed
  <2>1. MaxDepth \in Nat /\ \A r \in Rows : task[r].depth = 0 /\ task[r].parent = 0 /\ task[r].thread = 0
    BY <1>1, RowsAssumption
  <2>2. \A d : d = 0 => d <= MaxDepth
    BY <2>1
  <2> QED
    BY <2>1, <2>2 DEF Placed
<1>4. Attended
  BY DEF WakeInit, Attended
<1>5. AllHeld
  BY <1>1 DEF AllHeld, Due, Pending, Wakeable
<1> QED
  BY <1>2, <1>3, <1>4, <1>5 DEF WakeInv

LEMMA SpawnKeeps == ASSUME WakeInv, NEW r \in Rows, NEW n \in Rows, Spawn(r, n) PROVE WakeInv'
<1> DEFINE new == [status |-> "open", parent |-> r, depth |-> task[r].depth + 1,
                   thread |-> task[r].thread, on |-> n \in WakeOn, wakes |-> 0]
<1>1. /\ task[r].status = "open" /\ task[r].depth < MaxDepth /\ ~Exists(n)
      /\ task' = [task EXCEPT ![n] = new] /\ observer' = observer
  BY DEF Spawn, NextRow
<1>2. WakeTypes /\ Placed /\ Attended /\ AllHeld /\ MaxDepth \in Nat /\ 0 \notin Rows
  BY RowsAssumption DEF WakeInv
<1>3. new \in TaskRows
  BY <1>2 DEF WakeTypes, TaskRows
<1>4. new.status = "open" /\ new.parent = r /\ new.depth = task[r].depth + 1 /\ new.thread = task[r].thread /\ new.wakes = 0
  OBVIOUS
<1> HIDE DEF new
<1>5. WakeTypes'
  BY <1>1, <1>2, <1>3 DEF WakeTypes
<1>6. task'[n] = new /\ \A x \in Rows : x # n => task'[x] = task[x]
  BY <1>1, <1>2 DEF WakeTypes
<1>7. task[n].status = "none" /\ n # r
  BY <1>1 DEF Exists
<1>8. Placed'
  <2>1. \A x \in Rows : task[x].parent # n /\ task[x].thread # n /\ task[n].parent = 0 /\ task[n].thread = 0
    BY <1>2, <1>7 DEF Placed, Exists
  <2>2. \A x \in Rows : Exists(x) => Exists(x)'
    BY <1>4, <1>6 DEF Exists
  <2> SUFFICES ASSUME NEW x \in Rows
               PROVE  /\ task'[x].depth <= MaxDepth
                      /\ task'[x].parent = 0 <=> task'[x].depth = 0
                      /\ task'[x].parent # 0 => /\ Exists(x)' /\ task'[task'[x].parent].status # "none"
                                                /\ task'[x].depth = task'[task'[x].parent].depth + 1
                      /\ task'[x].thread # 0 => /\ Exists(x)' /\ task'[task'[x].thread].status # "none"
                                                /\ task'[task'[x].thread].thread = task'[x].thread
    BY DEF Placed, Exists
  <2>3. CASE x # n
    <3>1. task'[x] = task[x] /\ task[x].parent \in Rows \cup {0} /\ task[x].thread \in Rows \cup {0}
      BY <1>2, <1>6, <2>3 DEF WakeTypes, TaskRows
    <3>2. task[x].parent # 0 => task'[task[x].parent] = task[task[x].parent]
      BY <1>6, <2>1, <3>1
    <3>3. task[x].thread # 0 => task'[task[x].thread] = task[task[x].thread]
      BY <1>6, <2>1, <3>1
    <3> QED
      BY <1>2, <2>2, <3>1, <3>2, <3>3 DEF Placed, Exists
  <2>4. CASE x = n
    <3>1. task'[x] = new /\ task'[r] = task[r] /\ r # 0 /\ task[r].depth \in Nat /\ task[r].thread \in Rows \cup {0}
      BY <1>2, <1>6, <1>7, <2>4 DEF WakeTypes, TaskRows
    <3>2. task[r].thread # 0 => task[r].thread # n /\ task'[task[r].thread] = task[task[r].thread]
      BY <1>6, <2>1, <3>1
    <3> QED
      BY <1>1, <1>2, <1>4, <3>1, <3>2 DEF Placed, Exists
  <2> QED
    BY <2>3, <2>4
<1>9. Attended'
  BY <1>1, <1>2, <1>6, <1>7 DEF Attended
<1>10. \A x \in Rows : task[x].parent # 0 => task'[x].parent = task[x].parent
  BY <1>2, <1>6, <1>7 DEF Placed, Exists
<1>11. \A p, q : Over(p, q) => Over(p, q)'
  BY <1>10, OverGrows
<1>12. ASSUME NEW p \in Rows PROVE Due(p)' <=> Due(p)
  <2>1. CASE p = n
    BY <1>4, <1>6, <1>7, <2>1 DEF Due, Pending, Wakeable
  <2>2. CASE p = r
    BY <1>1, <1>6, <1>7, <2>2 DEF Due, Pending, Wakeable
  <2>3. CASE p # n /\ p # r
    <3>1. task'[p] = task[p]
      BY <1>6, <2>3
    <3>2. Children(p, task[p].thread)' = Children(p, task[p].thread)
      BY <1>4, <1>6, <1>7, <2>3, <3>1 DEF Children, Exists
    <3>3. Woken(p)' <=> Woken(p)
      BY <1>2, <1>4, <1>6, <1>7 DEF Woken, Exists
    <3> QED
      BY <3>1, <3>2, <3>3 DEF Due, Pending, Wakeable, Children
  <2> QED
    BY <2>1, <2>2, <2>3
<1>13. AllHeld'
  <2> SUFFICES ASSUME NEW p \in Rows, Due(p)' PROVE Held(p)'
    BY DEF AllHeld
  <2>1. Held(p)
    BY <1>2, <1>12 DEF AllHeld
  <2>2. CASE \E x \in Rows : Over(p, x) /\ task[x].status = "open"
    BY <1>4, <1>6, <1>11, <2>2 DEF Held
  <2>3. CASE \E q \in Rows : q # p /\ Over(p, q) /\ Due(q)
    BY <1>11, <1>12, <2>3 DEF Held
  <2>4. CASE \E o \in Rows : \E i \in DOMAIN observer[o].todo : observer[o].todo[i] = p
    BY <1>1, <2>4 DEF Held
  <2> QED
    BY <2>1, <2>2, <2>3, <2>4 DEF Held
<1> QED
  BY <1>5, <1>8, <1>9, <1>13 DEF WakeInv

LEMMA DetachKeeps == ASSUME WakeInv, NEW r \in Rows, Detach(r) PROVE WakeInv'
<1>1. /\ task[r].status = "open" /\ task[r].thread = 0 /\ task' = [task EXCEPT ![r].thread = r] /\ observer' = observer
      /\ task[r].depth > 0 /\ \A c \in Rows : Exists(c) => task[c].parent # r
  BY DEF Detach
<1>2. WakeTypes /\ Placed /\ Attended /\ AllHeld /\ 0 \notin Rows
  BY RowsAssumption DEF WakeInv
<1>3. /\ task' \in [Rows -> TaskRows]
      /\ \A x \in Rows : /\ task'[x].status = task[x].status /\ task'[x].parent = task[x].parent
                         /\ task'[x].depth = task[x].depth /\ task'[x].on = task[x].on
                         /\ task'[x].wakes = task[x].wakes
                         /\ task'[x].thread = (IF x = r THEN r ELSE task[x].thread)
  BY <1>1, <1>2 DEF WakeTypes, TaskRows
<1>4. WakeTypes'
  BY <1>1, <1>2, <1>3 DEF WakeTypes
<1>5. Placed'
  <2> SUFFICES ASSUME NEW x \in Rows
               PROVE  /\ task'[x].depth <= MaxDepth
                      /\ task'[x].parent = 0 <=> task'[x].depth = 0
                      /\ task'[x].parent # 0 => /\ Exists(x)' /\ task'[task'[x].parent].status # "none"
                                                /\ task'[x].depth = task'[task'[x].parent].depth + 1
                      /\ task'[x].thread # 0 => /\ Exists(x)' /\ task'[task'[x].thread].status # "none"
                                                /\ task'[task'[x].thread].thread = task'[x].thread
    BY DEF Placed, Exists
  <2>1. task[x].parent \in Rows \cup {0} /\ task[x].thread \in Rows \cup {0}
    BY <1>2 DEF WakeTypes, TaskRows
  <2>2. /\ task'[x].depth <= MaxDepth
        /\ task'[x].parent = 0 <=> task'[x].depth = 0
        /\ task'[x].parent # 0 => /\ Exists(x)' /\ task'[task'[x].parent].status # "none"
                                  /\ task'[x].depth = task'[task'[x].parent].depth + 1
    BY <1>2, <1>3, <2>1 DEF Placed, Exists
  <2>3. CASE x = r
    BY <1>1, <1>3, <2>2, <2>3 DEF Exists
  <2>4. CASE x # r
    <3>1. task'[x].thread = task[x].thread
      BY <1>3, <2>4
    <3>2. task[x].thread # 0 => task[x].thread \in Rows /\ task[x].thread # r
      BY <1>1, <1>2, <2>1 DEF Placed
    <3> QED
      BY <1>2, <1>3, <2>2, <3>1, <3>2 DEF Placed, Exists
  <2> QED
    BY <2>3, <2>4
<1>6. Attended'
  BY <1>1, <1>2, <1>3 DEF Attended
<1>7. \A p, q : Over(p, q) => Over(p, q)'
  <2>1. \A x \in Rows : task[x].parent # 0 => task'[x].parent = task[x].parent
    BY <1>3
  <2> QED
    BY <2>1, OverGrows
<1>8. ASSUME NEW p \in Rows, p # r PROVE Woken(p)' <=> Woken(p)
  BY <1>3 DEF Woken, Exists
<1>9. ASSUME NEW p \in Rows, Due(p)' PROVE p # r /\ Due(p)
  <2>1. p # r
    BY <1>1, <1>3, <1>9 DEF Due, Pending, Wakeable
  <2>2. task'[p].thread = task[p].thread
    BY <1>3, <2>1
  <2>3. Children(p, task[p].thread)' \subseteq Children(p, task[p].thread)
    <3> SUFFICES ASSUME NEW c \in Rows, Exists(c)', task'[c].parent = p, task'[c].thread = task[p].thread
                 PROVE  c \in Children(p, task[p].thread)
      BY <2>2 DEF Children
    <3>1. Exists(c) /\ task[c].parent = p
      BY <1>3 DEF Exists
    <3>2. c # r
      <4> SUFFICES ASSUME c = r PROVE FALSE
        OBVIOUS
      <4>1. task[p].thread = r
        BY <1>3
      <4> QED
        BY <1>1, <1>2, <4>1 DEF Placed
    <3> QED
      BY <1>3, <3>1, <3>2 DEF Children
  <2> QED
    BY <1>3, <1>8, <1>9, <2>1, <2>2, <2>3 DEF Due, Pending, Wakeable, Children, Exists
<1>10. ASSUME NEW q \in Rows, Due(q), ~Due(q)' PROVE task[r].parent = q
  <2>1. q # r /\ task'[q].thread = task[q].thread
    BY <1>1, <1>3, <1>10 DEF Due, Pending, Wakeable
  <2>2. PICK c \in Rows : Exists(c) /\ task[c].parent = q /\ task[c].thread = task[q].thread
    BY <1>10 DEF Due, Pending, Children
  <2>3. CASE c = r
    BY <2>2, <2>3
  <2>4. CASE c # r
    <3>1. Exists(c)' /\ task'[c].parent = q /\ task'[c].thread = task'[q].thread
      BY <1>3, <2>1, <2>2, <2>4 DEF Exists
    <3>2. c \in Children(q, task[q].thread)'
      BY <2>1, <3>1 DEF Children
    <3> QED
      BY <1>3, <1>8, <1>10, <2>1, <3>1 DEF Due, Pending, Wakeable, Children
  <2> QED
    BY <2>3, <2>4
<1>11. AllHeld'
  <2> SUFFICES ASSUME NEW p \in Rows, Due(p)' PROVE Held(p)'
    BY DEF AllHeld
  <2>1. Held(p)
    BY <1>2, <1>9 DEF AllHeld
  <2>2. CASE \E x \in Rows : Over(p, x) /\ task[x].status = "open"
    BY <1>3, <1>7, <2>2 DEF Held
  <2>3. CASE \E q \in Rows : q # p /\ Over(p, q) /\ Due(q)
    <3>1. PICK q \in Rows : q # p /\ Over(p, q) /\ Due(q)
      BY <2>3
    <3>2. CASE Due(q)'
      BY <1>7, <3>1, <3>2 DEF Held
    <3>3. CASE ~Due(q)'
      <4>1. Over(p, r)
        BY <1>2, <1>10, <3>1, <3>3, OverChild
      <4> QED
        BY <1>1, <1>3, <1>7, <4>1 DEF Held
    <3> QED
      BY <3>2, <3>3
  <2>4. CASE \E o \in Rows : \E i \in DOMAIN observer[o].todo : observer[o].todo[i] = p
    BY <1>1, <2>4 DEF Held
  <2> QED
    BY <2>1, <2>2, <2>3, <2>4 DEF Held
<1> QED
  BY <1>4, <1>5, <1>6, <1>11 DEF WakeInv

\* The end of a row hands every row over it to the observer of that end.
LEMMA EndTaskKeeps == ASSUME WakeInv, NEW r \in Rows, EndTask(r) PROVE WakeInv'
<1>1. PICK s \in {"success", "dead"} : task' = [task EXCEPT ![r].status = s]
  BY DEF EndTask
<1>2. task[r].status = "open" /\ observer' = [observer EXCEPT ![r].todo = Ancestors(r)]
  BY DEF EndTask
<1>3. WakeTypes /\ Placed /\ Attended /\ AllHeld /\ 0 \notin Rows
  BY RowsAssumption DEF WakeInv
<1>4. /\ task' \in [Rows -> TaskRows]
      /\ \A x \in Rows : /\ task'[x].status = (IF x = r THEN s ELSE task[x].status)
                         /\ task'[x].parent = task[x].parent /\ task'[x].depth = task[x].depth
                         /\ task'[x].on = task[x].on /\ task'[x].wakes = task[x].wakes
                         /\ task'[x].thread = task[x].thread
  BY <1>1, <1>3 DEF WakeTypes, TaskRows
<1>5. Ancestors(r) \in Seq(Rows)
      /\ \A p \in Rows : Over(p, r) => \E i \in DOMAIN Ancestors(r) : Ancestors(r)[i] = p
  BY <1>3, AncestorsAsk
<1>6. /\ observer' \in [Rows -> [todo : Seq(Rows), wake : Rows \cup {0}]]
      /\ observer'[r].todo = Ancestors(r) /\ observer'[r].wake = observer[r].wake
      /\ \A o \in Rows : o # r => observer'[o] = observer[o]
  BY <1>2, <1>3, <1>5 DEF WakeTypes
<1>7. WakeTypes'
  BY <1>4, <1>6 DEF WakeTypes
<1>8. \A x \in Rows : Exists(x)' <=> Exists(x)
  BY <1>2, <1>4 DEF Exists
<1>9. Placed'
  <2> SUFFICES ASSUME NEW x \in Rows
               PROVE  /\ task'[x].depth <= MaxDepth
                      /\ task'[x].parent = 0 <=> task'[x].depth = 0
                      /\ task'[x].parent # 0 => /\ Exists(x)' /\ task'[task'[x].parent].status # "none"
                                                /\ task'[x].depth = task'[task'[x].parent].depth + 1
                      /\ task'[x].thread # 0 => /\ Exists(x)' /\ task'[task'[x].thread].status # "none"
                                                /\ task'[task'[x].thread].thread = task'[x].thread
    BY DEF Placed, Exists
  <2>1. task[x].parent \in Rows \cup {0} /\ task[x].thread \in Rows \cup {0}
    BY <1>3 DEF WakeTypes, TaskRows
  <2>2. \A y \in Rows : task[y].status # "none" => task'[y].status # "none"
    BY <1>8 DEF Exists
  <2> QED
    BY <1>3, <1>4, <1>8, <2>1, <2>2 DEF Placed, Exists
<1>10. observer[r].todo = <<>> /\ observer[r].wake = 0
  BY <1>2, <1>3 DEF Attended
<1>11. Attended'
  <2> SUFFICES ASSUME NEW o \in Rows
               PROVE  /\ observer'[o].todo # <<>> => task'[o].status \in {"success", "dead"}
                      /\ observer'[o].wake # 0 => observer'[o].todo # <<>> /\ observer'[o].wake = Head(observer'[o].todo)
    BY DEF Attended
  <2>1. CASE o = r
    BY <1>4, <1>6, <1>10, <2>1
  <2>2. CASE o # r
    BY <1>3, <1>4, <1>6, <2>2 DEF Attended
  <2> QED
    BY <2>1, <2>2
<1>12. \A p, q : Over(p, q) => Over(p, q)'
  <2>1. \A x \in Rows : task[x].parent # 0 => task'[x].parent = task[x].parent
    BY <1>4
  <2> QED
    BY <2>1, OverGrows
<1>13. ASSUME NEW p \in Rows, p # r PROVE Due(p)' <=> Due(p)
  <2>1. Children(p, task[p].thread)' = Children(p, task[p].thread) /\ task'[p].thread = task[p].thread
    BY <1>4, <1>8 DEF Children
  <2>2. Woken(p)' <=> Woken(p)
    BY <1>4, <1>8 DEF Woken
  <2> QED
    BY <1>4, <1>13, <2>1, <2>2 DEF Due, Pending, Wakeable, Children
<1>14. AllHeld'
  <2> SUFFICES ASSUME NEW p \in Rows, Due(p)' PROVE Held(p)'
    BY DEF AllHeld
  <2>1. CASE Over(p, r)
    <3>1. PICK i \in DOMAIN Ancestors(r) : Ancestors(r)[i] = p
      BY <1>5, <2>1
    <3> QED
      BY <1>6, <3>1 DEF Held
  <2>2. CASE ~Over(p, r)
    <3>1. p # r
      BY <2>2, OverSelf
    <3>2. Held(p)
      BY <1>3, <1>13, <3>1 DEF AllHeld
    <3>3. CASE \E x \in Rows : Over(p, x) /\ task[x].status = "open"
      BY <1>4, <1>12, <2>2, <3>3 DEF Held
    <3>4. CASE \E q \in Rows : q # p /\ Over(p, q) /\ Due(q)
      BY <1>12, <1>13, <2>2, <3>4 DEF Held
    <3>5. CASE \E o \in Rows : \E i \in DOMAIN observer[o].todo : observer[o].todo[i] = p
      <4>1. PICK o \in Rows : \E i \in DOMAIN observer[o].todo : observer[o].todo[i] = p
        BY <3>5
      <4>2. o # r
        BY <1>3, <1>10, <4>1
      <4> QED
        BY <1>6, <4>1, <4>2 DEF Held
    <3> QED
      BY <3>2, <3>3, <3>4, <3>5 DEF Held
  <2> QED
    BY <2>1, <2>2
<1> QED
  BY <1>7, <1>9, <1>11, <1>14 DEF WakeInv

\* An observer lets a row go only while something below it is open or due.
LEMMA DecideKeeps == ASSUME WakeInv, NEW o \in Rows, Decide(o) PROVE WakeInv'
<1> DEFINE p == Head(observer[o].todo)
<1>1. /\ observer[o].todo # <<>> /\ observer[o].wake = 0 /\ task' = task
      /\ observer' = IF WakeDue(p) THEN [observer EXCEPT ![o].wake = p]
                     ELSE [observer EXCEPT ![o].todo = Tail(@)]
  BY DEF Decide
<1>2. WakeTypes /\ Placed /\ Attended /\ AllHeld
  BY DEF WakeInv
<1>3. observer[o].todo \in Seq(Rows) /\ p \in Rows /\ Tail(observer[o].todo) \in Seq(Rows)
  BY <1>1, <1>2 DEF WakeTypes
<1>4. Placed'
  BY <1>1, <1>2 DEF Placed, Exists
<1>5. \A x, y : Over(x, y)' <=> Over(x, y)
  BY <1>1 DEF Over, Upward
<1>6. \A x : Due(x)' <=> Due(x)
  BY <1>1 DEF Due, Pending, Wakeable, Children, Woken, Exists
<1>7. ASSUME NEW x \in Rows, Due(x), ~WakeDue(x)
      PROVE  (\E r \in Rows : Over(x, r) /\ task[r].status = "open") \/ (\E q \in Rows : q # x /\ Over(x, q) /\ Due(q))
  <2> DEFINE subtree == Below(x, task[x].thread)
  <2>1. /\ \A r \in subtree : r \in Rows /\ r # x /\ task[r].thread = task[x].thread /\ Over(x, r)
        /\ Children(x, task[x].thread) \subseteq subtree
    BY <1>2, BelowReads
  <2>2. subtree # {} /\ Wakeable(x)
    BY <1>7, <2>1 DEF Due, Pending
  <2>3. PICK r \in subtree : task[r].status = "open" \/ Pending(r, task[x].thread)
    BY <1>7, <2>2 DEF WakeDue
  <2> HIDE DEF subtree
  <2> QED
    BY <2>1, <2>3 DEF Due
<1>8. CASE WakeDue(p)
  <2>1. observer' = [observer EXCEPT ![o].wake = p]
    BY <1>1, <1>8
  <2>2. WakeTypes'
    BY <1>1, <1>2, <1>3, <2>1 DEF WakeTypes
  <2>3. \A x \in Rows : observer'[x].todo = observer[x].todo
    BY <1>2, <2>1 DEF WakeTypes
  <2>4. Attended'
    BY <1>1, <1>2, <2>1, <2>3 DEF Attended, WakeTypes
  <2>5. ASSUME NEW x \in Rows, Due(x)' PROVE Held(x)'
    <3>1. Held(x)
      BY <1>2, <1>6, <2>5 DEF AllHeld
    <3> QED
      BY <1>1, <1>5, <1>6, <2>3, <3>1 DEF Held
  <2> QED
    BY <1>4, <2>2, <2>4, <2>5 DEF WakeInv, AllHeld
<1>9. CASE ~WakeDue(p)
  <2>1. observer' = [observer EXCEPT ![o].todo = Tail(observer[o].todo)]
    BY <1>1, <1>9
  <2>2. WakeTypes'
    BY <1>1, <1>2, <1>3, <2>1 DEF WakeTypes
  <2>3. observer'[o].todo = Tail(observer[o].todo) /\ observer'[o].wake = observer[o].wake
        /\ \A x \in Rows : x # o => observer'[x] = observer[x]
    BY <1>2, <2>1 DEF WakeTypes
  <2>4. Attended'
    BY <1>1, <1>2, <2>3 DEF Attended
  <2>5. ASSUME NEW x \in Rows, Due(x)' PROVE Held(x)'
    <3>1. Held(x) /\ Due(x)
      BY <1>2, <1>6, <2>5 DEF AllHeld
    <3>2. CASE \E r \in Rows : Over(x, r) /\ task[r].status = "open"
      BY <1>1, <1>5, <3>2 DEF Held
    <3>3. CASE \E q \in Rows : q # x /\ Over(x, q) /\ Due(q)
      BY <1>5, <1>6, <3>3 DEF Held
    <3>4. CASE x = p
      BY <1>7, <1>9, <3>1, <3>2, <3>3, <3>4
    <3>5. CASE x # p /\ \E y \in Rows : \E i \in DOMAIN observer[y].todo : observer[y].todo[i] = x
      <4>1. PICK y \in Rows : \E i \in DOMAIN observer[y].todo : observer[y].todo[i] = x
        BY <3>5
      <4>2. CASE y # o
        BY <2>3, <4>1, <4>2 DEF Held
      <4>3. CASE y = o
        <5>1. PICK i \in 1..Len(observer[o].todo) : /\ observer[o].todo[i] = x
                                                   /\ i # 1 /\ Len(observer[o].todo) \in Nat
          BY <1>1, <1>3, <3>5, <4>1, <4>3
        <5>2. i - 1 \in DOMAIN Tail(observer[o].todo) /\ Tail(observer[o].todo)[i - 1] = x
          BY <1>1, <1>3, <5>1
        <5> QED
          BY <2>3, <5>2 DEF Held
      <4> QED
        BY <4>2, <4>3
    <3> QED
      BY <3>1, <3>2, <3>3, <3>4, <3>5 DEF Held
  <2> QED
    BY <1>4, <2>2, <2>4, <2>5 DEF WakeInv, AllHeld
<1> QED
  BY <1>8, <1>9

\* The wake is an open row beside the one it wakes, below all that the latter was below.
LEMMA PublishWakeKeeps == ASSUME WakeInv, NEW o \in Rows, NEW n \in Rows, PublishWake(o, n) PROVE WakeInv'
<1>0. PICK p \in Rows : p = observer[o].wake
  <2>1. observer[o].wake # 0 /\ observer[o].wake \in Rows \cup {0}
    BY DEF PublishWake, WakeInv, WakeTypes
  <2> QED
    BY <2>1
<1> DEFINE new == [task[p] EXCEPT !.status = "open", !.wakes = p]
<1>1. /\ p # 0 /\ ~Exists(n) /\ task' = (IF Woken(p) THEN task ELSE [task EXCEPT ![n] = new])
      /\ observer' = [observer EXCEPT ![o] = [todo |-> Tail(observer[o].todo), wake |-> 0]]
  BY <1>0 DEF PublishWake, NextRow
<1>2. WakeTypes /\ Placed /\ Attended /\ AllHeld /\ 0 \notin Rows
  BY RowsAssumption DEF WakeInv
<1>3. p \in Rows /\ observer[o].todo # <<>> /\ p = Head(observer[o].todo)
      /\ observer[o].todo \in Seq(Rows) /\ Tail(observer[o].todo) \in Seq(Rows)
  BY <1>0, <1>1, <1>2 DEF WakeTypes, Attended
<1>4. /\ new \in TaskRows /\ new.status = "open" /\ new.wakes = p /\ new.parent = task[p].parent
      /\ new.depth = task[p].depth /\ new.thread = task[p].thread
  <2>1. task[p] \in TaskRows
    BY <1>2, <1>3 DEF WakeTypes
  <2> QED
    BY <1>3, <2>1 DEF TaskRows
<1> HIDE DEF new
<1>5. /\ observer' \in [Rows -> [todo : Seq(Rows), wake : Rows \cup {0}]]
      /\ observer'[o].todo = Tail(observer[o].todo) /\ observer'[o].wake = 0
      /\ \A x \in Rows : x # o => observer'[x] = observer[x]
  BY <1>1, <1>2, <1>3 DEF WakeTypes
\* Who is still to be asked for stays so, but for the row that was woken.
<1>6. ASSUME NEW x \in Rows, x # p, NEW y \in Rows, \E i \in DOMAIN observer[y].todo : observer[y].todo[i] = x
      PROVE  \E i \in DOMAIN observer'[y].todo : observer'[y].todo[i] = x
  <2>1. CASE y # o
    BY <1>5, <1>6, <2>1
  <2>2. CASE y = o
    <3>1. PICK i \in 1..Len(observer[o].todo) : observer[o].todo[i] = x /\ i # 1 /\ Len(observer[o].todo) \in Nat
      BY <1>3, <1>6, <2>2
    <3>2. i - 1 \in DOMAIN Tail(observer[o].todo) /\ Tail(observer[o].todo)[i - 1] = x
      BY <1>3, <3>1
    <3> QED
      BY <1>5, <2>2, <3>2
  <2> QED
    BY <2>1, <2>2
<1>7. CASE Woken(p)
  <2>1. task' = task
    BY <1>1, <1>7
  <2>2. WakeTypes' /\ Placed'
    BY <1>2, <1>5, <2>1 DEF WakeTypes, Placed, Exists
  <2>3. Attended'
    BY <1>2, <1>3, <1>5, <2>1 DEF Attended
  <2>4. \A x : (Due(x)' <=> Due(x)) /\ (Woken(x)' <=> Woken(x)) /\ \A y : Over(x, y)' <=> Over(x, y)
    BY <2>1 DEF Due, Pending, Wakeable, Children, Woken, Exists, Over, Upward
  <2>5. ASSUME NEW x \in Rows, Due(x)' PROVE Held(x)'
    <3>1. Held(x) /\ x # p
      BY <1>2, <1>7, <2>4, <2>5 DEF AllHeld, Due, Pending
    <3>2. CASE \E r \in Rows : Over(x, r) /\ task[r].status = "open"
      BY <2>1, <2>4, <3>2 DEF Held
    <3>3. CASE \E q \in Rows : q # x /\ Over(x, q) /\ Due(q)
      BY <2>4, <3>3 DEF Held
    <3>4. CASE \E y \in Rows : \E i \in DOMAIN observer[y].todo : observer[y].todo[i] = x
      BY <1>6, <3>1, <3>4 DEF Held
    <3> QED
      BY <3>1, <3>2, <3>3, <3>4 DEF Held
  <2> QED
    BY <2>2, <2>3, <2>5 DEF WakeInv, AllHeld
<1>8. CASE ~Woken(p)
  <2>1. task' = [task EXCEPT ![n] = new]
    BY <1>1, <1>8
  <2>2. task'[n] = new /\ \A x \in Rows : x # n => task'[x] = task[x]
    BY <1>2, <2>1 DEF WakeTypes
  <2>3. WakeTypes'
    BY <1>2, <1>4, <1>5, <2>1 DEF WakeTypes
  <2>4. task[n].status = "none" /\ task[n].parent = 0 /\ task[n].thread = 0
        /\ \A x \in Rows : task[x].parent # n /\ task[x].thread # n
    BY <1>1, <1>2 DEF Placed, Exists
  <2>5. \A x \in Rows : Exists(x) => Exists(x)'
    BY <1>4, <2>2, <2>4 DEF Exists
  <2>6. Placed'
    <3> SUFFICES ASSUME NEW x \in Rows
                 PROVE  /\ task'[x].depth <= MaxDepth
                        /\ task'[x].parent = 0 <=> task'[x].depth = 0
                        /\ task'[x].parent # 0 => /\ Exists(x)' /\ task'[task'[x].parent].status # "none"
                                                  /\ task'[x].depth = task'[task'[x].parent].depth + 1
                        /\ task'[x].thread # 0 => /\ Exists(x)' /\ task'[task'[x].thread].status # "none"
                                                  /\ task'[task'[x].thread].thread = task'[x].thread
      BY DEF Placed, Exists
    <3> DEFINE src == IF x = n THEN p ELSE x
    <3>1. src \in Rows /\ task'[x].depth = task[src].depth /\ task'[x].parent = task[src].parent
          /\ task'[x].thread = task[src].thread
      BY <1>3, <1>4, <2>2
    <3>2. Exists(src) => Exists(x)'
      BY <1>4, <2>2, <2>5 DEF Exists
    <3> HIDE DEF src
    <3>3. task[src].parent \in Rows \cup {0} /\ task[src].thread \in Rows \cup {0}
      BY <1>2, <3>1 DEF WakeTypes, TaskRows
    <3>4. task[src].parent # 0 => task'[task[src].parent] = task[task[src].parent]
      BY <2>2, <2>4, <3>1, <3>3
    <3>5. task[src].thread # 0 => task'[task[src].thread] = task[task[src].thread]
      BY <2>2, <2>4, <3>1, <3>3
    <3> QED
      BY <1>2, <3>1, <3>2, <3>4, <3>5 DEF Placed, Exists
  <2>7. Attended'
    <3>1. \A x \in Rows : task[x].status \in {"success", "dead"} => task'[x].status = task[x].status
      BY <2>2, <2>4
    <3> QED
      BY <1>2, <1>3, <1>5, <3>1 DEF Attended
  <2>8. \A x, y : Over(x, y) => Over(x, y)'
    <3>1. \A x \in Rows : task[x].parent # 0 => task'[x].parent = task[x].parent
      BY <2>2, <2>4
    <3> QED
      BY <3>1, OverGrows
  <2>9. \A x \in Rows : x # p => (Woken(x)' <=> Woken(x))
    BY <1>4, <2>2, <2>4 DEF Woken, Exists
  <2>10. Woken(p)'
    BY <1>4, <2>2 DEF Woken, Exists
  <2>11. ASSUME NEW x \in Rows, Due(x)' PROVE Due(x) /\ x # p /\ x # n
    <3>1. x # p
      BY <2>10, <2>11 DEF Due, Pending
    <3>2. x # n
      BY <1>4, <2>2, <2>11 DEF Due, Pending, Wakeable
    <3>3. PICK c \in Rows : Exists(c)' /\ task'[c].parent = x /\ task'[c].thread = task'[x].thread
      BY <2>11 DEF Due, Pending, Children
    <3>4. Children(x, task[x].thread) # {}
      <4>1. CASE c # n
        BY <2>2, <3>2, <3>3, <4>1 DEF Children, Exists
      <4>2. CASE c = n
        <5>1. task[p].parent = x /\ task[p].thread = task[x].thread
          BY <1>4, <2>2, <3>2, <3>3, <4>2
        <5>2. Exists(p)
          BY <1>2, <1>3, <5>1 DEF Placed
        <5> QED
          BY <1>3, <5>1, <5>2 DEF Children
      <4> QED
        BY <4>1, <4>2
    <3> QED
      BY <2>2, <2>9, <2>11, <3>1, <3>2, <3>4 DEF Due, Pending, Wakeable
  <2>12. ASSUME NEW q \in Rows, Due(q), q # p PROVE Due(q)'
    <3>1. q # n
      BY <2>4, <2>12 DEF Due, Pending, Wakeable
    <3>2. PICK c \in Rows : Exists(c) /\ task[c].parent = q /\ task[c].thread = task[q].thread
      BY <2>12 DEF Due, Pending, Children
    <3>3. c # n
      BY <2>4, <3>2 DEF Exists
    <3>4. Exists(c)' /\ task'[c].parent = q /\ task'[c].thread = task'[q].thread
      BY <2>2, <2>5, <3>1, <3>2, <3>3
    <3> QED
      BY <2>2, <2>9, <2>12, <3>1, <3>4 DEF Due, Pending, Wakeable, Children
  <2>13. ASSUME NEW x \in Rows, x # p, Over(x, p) PROVE Over(x, n)'
    <3>1. task[p].parent \in Rows /\ Over(x, task[p].parent)
      BY <1>2, <1>3, <2>13, OverParent
    <3> SUFFICES ASSUME NEW S \in SUBSET Rows, n \in S, Upward(S)' PROVE x \in S
      BY DEF Over
    <3>3. task[p].parent \in S
      BY <1>2, <1>4, <2>2, <3>1 DEF Upward
    <3>4. Upward(S)
      BY <2>2, <2>4 DEF Upward
    <3> QED
      BY <3>1, <3>3, <3>4 DEF Over
  <2>14. ASSUME NEW x \in Rows, Due(x)' PROVE Held(x)'
    <3>1. Held(x) /\ x # p
      BY <1>2, <2>11, <2>14 DEF AllHeld
    <3>2. CASE \E r \in Rows : Over(x, r) /\ task[r].status = "open"
      BY <2>2, <2>4, <2>8, <3>2 DEF Held
    <3>3. CASE \E q \in Rows : q # x /\ Over(x, q) /\ Due(q)
      <4>1. PICK q \in Rows : q # x /\ Over(x, q) /\ Due(q)
        BY <3>3
      <4>2. CASE q # p
        BY <2>8, <2>12, <4>1, <4>2 DEF Held
      <4>3. CASE q = p
        <5>1. Over(x, n)' /\ task'[n].status = "open"
          BY <1>4, <2>2, <2>13, <3>1, <4>1, <4>3
        <5> QED
          BY <5>1 DEF Held
      <4> QED
        BY <4>2, <4>3
    <3>4. CASE \E y \in Rows : \E i \in DOMAIN observer[y].todo : observer[y].todo[i] = x
      BY <1>6, <3>1, <3>4 DEF Held
    <3> QED
      BY <3>1, <3>2, <3>3, <3>4 DEF Held
  <2> QED
    BY <2>3, <2>6, <2>7, <2>14 DEF WakeInv, AllHeld
<1> QED
  BY <1>7, <1>8

LEMMA WakeStutter == ASSUME WakeInv, UNCHANGED wakeVars PROVE WakeInv'
<1>1. task' = task /\ observer' = observer
  BY DEF wakeVars
<1>2. WakeTypes' /\ Placed' /\ Attended'
  BY <1>1 DEF WakeInv, WakeTypes, Placed, Attended, Exists
<1>3. AllHeld'
  BY <1>1 DEF WakeInv, AllHeld, Held, Due, Pending, Wakeable, Children, Woken, Exists, Over, Upward
<1> QED
  BY <1>2, <1>3 DEF WakeInv

LEMMA WakeStepKeeps == WakeInv /\ [WakeNext]_wakeVars => WakeInv'
<1> SUFFICES ASSUME WakeInv, [WakeNext]_wakeVars PROVE WakeInv'
  OBVIOUS
<1>1. ASSUME NEW r \in Rows, Detach(r) \/ EndTask(r) \/ Decide(r) PROVE WakeInv'
  BY <1>1, DetachKeeps, EndTaskKeeps, DecideKeeps
<1>2. ASSUME NEW r \in Rows, NEW n \in Rows, Spawn(r, n) \/ PublishWake(r, n) PROVE WakeInv'
  BY <1>2, SpawnKeeps, PublishWakeKeeps
<1>3. CASE UNCHANGED wakeVars
  BY <1>3, WakeStutter
<1> QED
  BY <1>1, <1>2, <1>3 DEF WakeNext

\* At rest no row is due: a deepest one would be held by nothing.
LEMMA NoneDueAtRest ==
  ASSUME WakeInv, \A r \in Rows : task[r].status # "open" /\ observer[r].todo = <<>>
  PROVE  \A r \in Rows : ~Due(r)
<1> SUFFICES ASSUME NEW r \in Rows, Due(r) PROVE FALSE
  OBVIOUS
<1> DEFINE S == {MaxDepth - task[x].depth : x \in {y \in Rows : Due(y)}}
<1>1. WakeTypes /\ Placed /\ AllHeld /\ MaxDepth \in Nat
  BY RowsAssumption DEF WakeInv
<1>2. \A x \in Rows : task[x].depth \in Nat /\ MaxDepth - task[x].depth \in Nat
  BY <1>1 DEF WakeTypes, TaskRows, Placed
<1>3. S \subseteq Nat /\ S # {}
  BY <1>2
<1>4. PICK k \in S : \A m \in S : k <= m
  <2> HIDE DEF S
  <2> QED BY <1>3, LeastNatural
<1>5. PICK p \in Rows : Due(p) /\ k = MaxDepth - task[p].depth
  BY <1>4
<1>6. PICK q \in Rows : q # p /\ Over(p, q) /\ Due(q)
  <2>1. Held(p)
    BY <1>1, <1>5 DEF AllHeld
  <2>2. ~ \E o \in Rows : \E i \in DOMAIN observer[o].todo : observer[o].todo[i] = p
    OBVIOUS
  <2> QED
    BY <2>1, <2>2 DEF Held
<1>7. task[p].depth < task[q].depth
  BY <1>1, <1>6, OverDeeper
<1>8. k <= MaxDepth - task[q].depth
  BY <1>4, <1>6
<1> QED
  BY <1>1, <1>2, <1>5, <1>7, <1>8

\* When every row has ended and every observer is done, no row that delegated is left without
\* its wake, in whatever order the ends, the observers and detaches came (NoLostWake).
THEOREM EveryParentIsWoken == WakeSpec => []NoLostWake
<1>1. WakeInv => NoLostWake
  BY NoneDueAtRest DEF NoLostWake, Due
<1> QED
  BY <1>1, WakeInitInv, WakeStepKeeps, PTL DEF WakeSpec
-----------------------------------------------------------------------------
(* SubagentWake: no row is woken before the last row below it has ended *)

\* Rows that include the children of p, and with a row its children, all in thread t.
ClosedBelow(p, t, S) == Children(p, t) \subseteq S /\ \A r \in S : Children(r, t) \subseteq S

LEMMA BelowIsClosed ==
  ASSUME WakeTypes, Placed, NEW p \in Rows, NEW t
  PROVE  /\ ClosedBelow(p, t, Below(p, t))
         /\ \A r \in Below(p, t) : r \in Rows /\ Exists(r)
         /\ \A S : ClosedBelow(p, t, S) => Below(p, t) \subseteq S
<1> DEFINE f == CHOOSE h : Levels(h, p, t, MaxDepth)
<1>1. MaxDepth \in Nat
  BY RowsAssumption
<1>2. Levels(f, p, t, MaxDepth)
  <2>1. \E h : Levels(h, p, t, MaxDepth)
    BY <1>1, LevelsExist
  <2> QED BY <2>1, Zenon
<1>3. Below(p, t) = UNION {f[n] : n \in 1..MaxDepth}
  BY DEF Below, Levels, NextLevel
<1> HIDE DEF f
<1>4. \A n \in 0..MaxDepth : f[n] = IF n = 0 THEN {p} ELSE NextLevel(f[n - 1], t)
  BY <1>2 DEF Levels
<1>5. ASSUME NEW n \in 1..MaxDepth, NEW c \in f[n] PROVE \E r \in f[n - 1] : c \in Children(r, t)
  <2>1. n \in 0..MaxDepth /\ n # 0
    BY <1>1
  <2>2. f[n] = NextLevel(f[n - 1], t)
    BY <1>4, <2>1
  <2> QED
    BY <2>2 DEF NextLevel
\* A level is as deep as its number, so the last one has no children.
<1> DEFINE P == {n \in 0..MaxDepth : ~ \A r \in f[n] : r \in Rows /\ task[r].depth = task[p].depth + n}
<1>6. P = {}
  <2>1. 0 \notin P
    <3>1. f[0] = {p} /\ task[p].depth + 0 = task[p].depth
      BY <1>1, <1>4 DEF WakeTypes, TaskRows
    <3> QED
      BY <3>1
  <2>2. ASSUME NEW j \in P, \A m \in P : j <= m PROVE FALSE
    <3>1. j > 0 /\ j \in 1..MaxDepth /\ j - 1 \in 0..MaxDepth /\ j - 1 \notin P
      BY <1>1, <2>1, <2>2
    <3>2. \A r \in f[j - 1] : r \in Rows /\ task[r].depth = task[p].depth + (j - 1)
      BY <3>1
    <3>3. ASSUME NEW c \in f[j] PROVE c \in Rows /\ task[c].depth = task[p].depth + j
      <4>1. PICK r \in f[j - 1] : c \in Children(r, t)
        BY <1>5, <3>1
      <4>2. c \in Rows /\ r \in Rows /\ task[c].depth = task[r].depth + 1
        BY <3>2, <4>1, RowsAssumption DEF Children, Placed
      <4> QED
        BY <3>1, <3>2, <4>2 DEF WakeTypes, TaskRows
    <3> QED
      BY <3>3
  <2>3. P \subseteq Nat
    BY <1>1
  <2> HIDE DEF P
  <2> QED BY <2>2, <2>3, LeastNatural
<1>7. Children(p, t) \subseteq Below(p, t)
  BY BelowReads
<1>8. ASSUME NEW r \in Below(p, t), NEW c \in Children(r, t) PROVE c \in Below(p, t)
  <2>1. PICK n \in 1..MaxDepth : r \in f[n]
    BY <1>3
  <2>2. n \in 0..MaxDepth /\ r \in Rows /\ task[r].depth = task[p].depth + n
    BY <1>1, <1>6, <2>1
  <2>3. c \in Rows /\ task[c].depth = task[r].depth + 1 /\ task[c].depth <= MaxDepth
    BY <2>2, RowsAssumption DEF Children, Placed
  <2>4. task[p].depth \in Nat
    BY DEF WakeTypes, TaskRows
  <2>5. n + 1 \in 0..MaxDepth /\ n + 1 \in 1..MaxDepth /\ n + 1 # 0 /\ (n + 1) - 1 = n
    BY <1>1, <2>2, <2>3, <2>4
  <2>6. f[n + 1] = NextLevel(f[n], t)
    BY <1>4, <2>5
  <2>7. c \in f[n + 1]
    BY <1>8, <2>1, <2>6 DEF NextLevel
  <2> QED
    BY <1>3, <2>5, <2>7
<1>9. ASSUME NEW r \in Below(p, t) PROVE r \in Rows /\ Exists(r)
  <2>1. PICK n \in 1..MaxDepth : r \in f[n]
    BY <1>3
  <2> QED
    BY <1>5, <2>1 DEF Children
<1>10. ASSUME NEW S, ClosedBelow(p, t, S) PROVE Below(p, t) \subseteq S
  <2> DEFINE Q == {n \in 1..MaxDepth : ~ (f[n] \subseteq S)}
  <2>1. ASSUME NEW j \in Q, \A m \in Q : j <= m PROVE FALSE
    <3>1. j \in 1..MaxDepth
      OBVIOUS
    <3>2. f[j - 1] \subseteq S \cup {p}
      <4>1. CASE j = 1
        <5>1. f[j - 1] = {p}
          BY <1>1, <1>4, <4>1
        <5> QED
          BY <5>1
      <4>2. CASE j # 1
        <5>1. j - 1 \in 1..MaxDepth /\ j - 1 \notin Q
          BY <1>1, <2>1, <3>1, <4>2
        <5> QED
          BY <5>1
      <4> QED
        BY <4>1, <4>2
    <3>3. f[j] \subseteq S
      <4> SUFFICES ASSUME NEW c \in f[j] PROVE c \in S
        OBVIOUS
      <4>1. PICK r \in f[j - 1] : c \in Children(r, t)
        BY <1>5, <3>1
      <4> QED
        BY <1>10, <3>2, <4>1 DEF ClosedBelow
    <3> QED
      BY <3>3
  <2>2. Q \subseteq Nat
    BY <1>1
  <2>3. Q = {}
    <3> HIDE DEF Q
    <3> QED BY <2>1, <2>2, LeastNatural
  <2> QED
    BY <1>3, <2>3
<1> QED
  BY <1>7, <1>8, <1>9, <1>10 DEF ClosedBelow

\* All that is below p has ended and is not owed a wake of its own.
WakeSettled(p, S) ==
    /\ Wakeable(p) /\ Children(p, task[p].thread) # {}
    /\ ClosedBelow(p, task[p].thread, S)
    /\ \A r \in S : task[r].status \in {"success", "dead"} /\ ~Pending(r, task[p].thread)

\* What an observer has decided to wake is settled until it is woken, by it or by another.
OnTime ==
    \A o \in Rows : observer[o].wake # 0 /\ ~Woken(observer[o].wake)
                      => \E S \in SUBSET Rows : WakeSettled(observer[o].wake, S)

LEMMA DueIsSettled ==
  ASSUME WakeInv, NEW p \in Rows, WakeDue(p)
  PROVE  \E S \in SUBSET Rows : WakeSettled(p, S)
<1> DEFINE t == task[p].thread
           S == Below(p, t)
<1>1. ClosedBelow(p, t, S) /\ \A r \in S : r \in Rows /\ Exists(r)
  BY BelowIsClosed DEF WakeInv
<1>2. Children(p, t) # {}
  <2>1. S # {}
    BY DEF WakeDue
  <2>2. ClosedBelow(p, t, {}) => S \subseteq {}
    BY BelowIsClosed DEF WakeInv
  <2> QED
    BY <2>1, <2>2 DEF ClosedBelow
<1>3. Wakeable(p) /\ \A r \in S : task[r].status # "open" /\ ~Pending(r, t)
  BY DEF WakeDue
<1> HIDE DEF S
<1>4. \A r \in S : task[r].status \in {"success", "dead"}
  BY <1>1, <1>3 DEF Exists, WakeInv, WakeTypes, TaskRows
<1>5. WakeSettled(p, S)
  BY <1>1, <1>2, <1>3, <1>4 DEF WakeSettled
<1>6. S \in SUBSET Rows
  BY <1>1
<1> QED
  BY <1>5, <1>6

\* A step that gives neither p nor a row of S another child, and changes none of them.
LEMMA SettledUnless ==
  ASSUME WakeInv, NEW p \in Rows, NEW S \in SUBSET Rows, WakeSettled(p, S),
         \A x \in S \cup {p} : /\ task'[x] = task[x] /\ (Woken(x) => Woken(x)')
                               /\ \A c \in Rows :
                                    Exists(c)' /\ task'[c].parent = x /\ task'[c].thread = task[p].thread
                                      <=> Exists(c) /\ task[c].parent = x /\ task[c].thread = task[p].thread
  PROVE  WakeSettled(p, S)'
<1>1. PICK t : t = task[p].thread /\ t = task'[p].thread
  OBVIOUS
<1>2. \A x \in S \cup {p} : Children(x, t)' = Children(x, t)
  BY <1>1 DEF Children
<1>3. \A x \in S \cup {p} : Wakeable(x)' <=> Wakeable(x)
  BY DEF Wakeable
<1>4. \A x \in S : ~Pending(x, t)'
  <2>1. \A x \in S : ~Pending(x, t)
    BY <1>1 DEF WakeSettled
  <2> QED
    BY <1>2, <1>3, <2>1 DEF Pending
<1>5. ClosedBelow(p, t, S)'
  BY <1>1, <1>2 DEF WakeSettled, ClosedBelow
<1>6. Wakeable(p)' /\ Children(p, t)' # {}
  BY <1>1, <1>2, <1>3 DEF WakeSettled
<1>7. \A r \in S : task'[r].status \in {"success", "dead"}
  BY DEF WakeSettled
<1> QED
  BY <1>1, <1>4, <1>5, <1>6, <1>7 DEF WakeSettled

\* A woken row stays woken.
LEMMA WokenStays ==
  ASSUME WakeInv, [WakeNext]_wakeVars, NEW x \in Rows, Woken(x)
  PROVE  Woken(x)'
<1>1. PICK w \in Rows : Exists(w) /\ task[w].wakes = x
  BY DEF Woken
<1>2. task \in [Rows -> TaskRows]
  BY DEF WakeInv, WakeTypes
<1>3. task[w] \in TaskRows
  BY <1>2
<1>4. Exists(w)' /\ task'[w].wakes = x
  <2>1. ASSUME NEW r \in Rows, NEW n \in Rows, Spawn(r, n) PROVE Exists(w)' /\ task'[w].wakes = x
    BY <1>1, <1>2, <2>1 DEF Spawn, NextRow, Exists
  <2>2. ASSUME NEW r \in Rows, Detach(r) PROVE Exists(w)' /\ task'[w].wakes = x
    <3>1. task' = [task EXCEPT ![r].thread = r]
      BY <2>2 DEF Detach
    <3> QED
      BY <1>1, <1>2, <1>3, <3>1 DEF Exists, TaskRows
  <2>3. ASSUME NEW r \in Rows, EndTask(r) PROVE Exists(w)' /\ task'[w].wakes = x
    <3>1. PICK s \in {"success", "dead"} : task' = [task EXCEPT ![r].status = s]
      BY <2>3 DEF EndTask
    <3> QED
      BY <1>1, <1>2, <1>3, <3>1 DEF Exists, TaskRows
  <2>4. ASSUME NEW r \in Rows, NEW n \in Rows, PublishWake(r, n) PROVE Exists(w)' /\ task'[w].wakes = x
    BY <1>1, <1>2, <2>4 DEF PublishWake, NextRow, Exists
  <2>5. ASSUME NEW r \in Rows, Decide(r) PROVE Exists(w)' /\ task'[w].wakes = x
    BY <1>1, <2>5 DEF Decide, Exists
  <2>6. CASE UNCHANGED wakeVars
    BY <1>1, <2>6 DEF wakeVars, Exists
  <2> QED
    BY <2>1, <2>2, <2>3, <2>4, <2>5, <2>6 DEF WakeNext
<1> QED
  BY <1>4 DEF Woken

\* Who adds a row or changes one below p has no part in what is settled.
LEMMA SettledStays ==
  ASSUME WakeInv, OnTime, [WakeNext]_wakeVars, NEW p \in Rows, NEW S \in SUBSET Rows, WakeSettled(p, S)
  PROVE  WakeSettled(p, S)'
<1> DEFINE Same(x) == /\ task'[x] = task[x]
                      /\ \A c \in Rows :
                           Exists(c)' /\ task'[c].parent = x /\ task'[c].thread = task[p].thread
                             <=> Exists(c) /\ task[c].parent = x /\ task[c].thread = task[p].thread
<1>1. /\ WakeTypes /\ Placed /\ 0 \notin Rows /\ task \in [Rows -> TaskRows]
      /\ \A x \in Rows : task[x] \in TaskRows
  BY RowsAssumption DEF WakeInv, WakeTypes
<1>2. \A x \in S \cup {p} : task[x].status \in {"success", "dead"} /\ x \in Rows
  BY DEF WakeSettled, Wakeable
<1>3. \A x \in S \cup {p}, c \in Rows : Exists(c) /\ task[c].parent = x /\ task[c].thread = task[p].thread => c \in S
  BY DEF WakeSettled, ClosedBelow, Children
<1>4. ASSUME NEW r \in Rows, NEW n \in Rows, Spawn(r, n), NEW x \in S \cup {p} PROVE Same(x)
  <2>1. /\ task[r].status = "open" /\ ~Exists(n)
        /\ task' = [task EXCEPT ![n] = [status |-> "open", parent |-> r, depth |-> task[r].depth + 1,
                                        thread |-> task[r].thread, on |-> n \in WakeOn, wakes |-> 0]]
    BY <1>4 DEF Spawn, NextRow
  <2>2. task'[n].parent = r /\ \A y \in Rows : y # n => task'[y] = task[y]
    BY <1>1, <2>1
  <2>3. x # n /\ x # r
    BY <1>2, <2>1 DEF Exists
  <2> QED
    BY <1>2, <2>1, <2>2, <2>3 DEF Exists
<1>5. ASSUME NEW r \in Rows, Detach(r), NEW x \in S \cup {p} PROVE Same(x)
  <2>1. task[r].status = "open" /\ task[r].thread = 0 /\ task' = [task EXCEPT ![r].thread = r]
    BY <1>5 DEF Detach
  <2>2. /\ task'[r].status = task[r].status /\ task'[r].parent = task[r].parent /\ task'[r].thread = r
        /\ \A y \in Rows : y # r => task'[y] = task[y]
    BY <1>1, <2>1 DEF TaskRows
  <2>3. x # r /\ r \notin S
    BY <1>2, <2>1
  <2>4. task[p].thread # r
    <3>1. task[p].thread = r => task[r].thread = r
      BY <1>1 DEF Placed
    <3> QED
      BY <1>1, <2>1, <3>1
  <2>5. ~(Exists(r) /\ task[r].parent = x /\ task[r].thread = task[p].thread)
    BY <1>3, <2>3
  <2> QED
    BY <1>2, <2>2, <2>3, <2>4, <2>5 DEF Exists
<1>6. ASSUME NEW r \in Rows, EndTask(r), NEW x \in S \cup {p} PROVE Same(x)
  <2>1. PICK s \in {"success", "dead"} : task[r].status = "open" /\ task' = [task EXCEPT ![r].status = s]
    BY <1>6 DEF EndTask
  <2>2. /\ task'[r].status = s /\ task'[r].parent = task[r].parent /\ task'[r].thread = task[r].thread
        /\ \A y \in Rows : y # r => task'[y] = task[y]
    BY <1>1, <2>1 DEF TaskRows
  <2> QED
    BY <1>2, <2>1, <2>2 DEF Exists
<1>7. ASSUME NEW o \in Rows, NEW n \in Rows, PublishWake(o, n), NEW x \in S \cup {p} PROVE Same(x)
  <2>1. PICK q : q = observer[o].wake
    OBVIOUS
  <2>2. CASE Woken(q)
    <3>1. task' = task
      BY <1>7, <2>1, <2>2 DEF PublishWake
    <3> QED
      BY <3>1 DEF Exists
  <2>3. CASE ~Woken(q)
    <3>1. q # 0 /\ ~Exists(n) /\ task' = [task EXCEPT ![n] = [task[q] EXCEPT !.status = "open", !.wakes = q]]
      BY <1>7, <2>1, <2>3 DEF PublishWake, NextRow
    <3>2. q \in Rows
      BY <1>1, <2>1, <3>1 DEF WakeTypes
    <3>3. PICK Q : WakeSettled(q, Q)
      BY <2>1, <2>3, <3>1 DEF OnTime
    <3>4. Pending(q, task[q].thread) /\ Exists(q)
      BY <2>3, <3>3 DEF WakeSettled, Pending, Wakeable, Exists
    <3>5. task'[n].parent = task[q].parent /\ task'[n].thread = task[q].thread
          /\ \A y \in Rows : y # n => task'[y] = task[y]
      BY <1>1, <3>1, <3>2 DEF TaskRows
    <3>6. ~(task[q].parent = x /\ task[q].thread = task[p].thread)
      <4>1. q \in S => ~Pending(q, task[p].thread)
        BY DEF WakeSettled
      <4> QED
        BY <1>3, <3>2, <3>4, <4>1
    <3>7. x # n
      BY <1>2, <3>1 DEF Exists
    <3> QED
      BY <1>2, <3>1, <3>5, <3>6, <3>7 DEF Exists
  <2> QED
    BY <2>2, <2>3
<1>8. ASSUME task' = task, NEW x \in S \cup {p} PROVE Same(x)
  BY <1>8 DEF Exists
<1>9. \A x \in S \cup {p} : Same(x)
  <2> HIDE DEF Same
  <2> QED
    BY <1>4, <1>5, <1>6, <1>7, <1>8 DEF WakeNext, Decide, wakeVars
<1>10. \A x \in S \cup {p} : Woken(x) => Woken(x)'
  BY <1>2, WokenStays
<1> QED
  BY <1>9, <1>10, SettledUnless

LEMMA OnTimeStays == ASSUME WakeInv, OnTime, [WakeNext]_wakeVars PROVE OnTime'
<1> SUFFICES ASSUME NEW o \in Rows, NEW p, p = observer'[o].wake, p # 0, ~Woken(p)'
             PROVE  \E S \in SUBSET Rows : WakeSettled(p, S)'
  <2>1. \A o \in Rows : (observer[o].wake # 0 /\ ~Woken(observer[o].wake)
                          => \E S \in SUBSET Rows : WakeSettled(observer[o].wake, S))'
    OBVIOUS
  <2> QED
    BY <2>1 DEF OnTime
<1>1. WakeInv'
  BY WakeStepKeeps
<1>2. p \in Rows
  BY <1>1 DEF WakeInv, WakeTypes
<1>3. ~Woken(p)
  BY <1>2, WokenStays
<1>4. CASE observer[o].wake = p
  <2>1. PICK S \in SUBSET Rows : WakeSettled(p, S)
    BY <1>3, <1>4 DEF OnTime
  <2> QED
    BY <1>2, <2>1, SettledStays
<1>5. CASE observer[o].wake # p
  <2>1. WakeDue(p)
    <3>1. observer \in [Rows -> [todo : Seq(Rows), wake : Rows \cup {0}]]
      BY DEF WakeInv, WakeTypes
    <3>2. ASSUME NEW r \in Rows, Decide(r) PROVE WakeDue(p)
      <4>1. PICK h : h = Head(observer[r].todo)
        OBVIOUS
      <4>2. CASE WakeDue(h)
        <5>1. observer' = [observer EXCEPT ![r].wake = h]
          BY <3>2, <4>1, <4>2 DEF Decide
        <5>2. p = h
          BY <1>5, <3>1, <5>1
        <5> QED
          BY <4>2, <5>2
      <4>3. CASE ~WakeDue(h)
        <5>1. observer' = [observer EXCEPT ![r].todo = Tail(observer[r].todo)]
          BY <3>2, <4>1, <4>3 DEF Decide
        <5>2. observer'[o].wake = observer[o].wake
          BY <3>1, <5>1
        <5> QED
          BY <1>5, <5>2
      <4> QED
        BY <4>2, <4>3
    <3>3. ASSUME NEW r \in Rows, NEW n \in Rows, PublishWake(r, n) PROVE FALSE
      <4>1. observer' = [observer EXCEPT ![r] = [todo |-> Tail(observer[r].todo), wake |-> 0]]
        BY <3>3 DEF PublishWake
      <4>2. observer'[o].wake \in {observer[o].wake, 0}
        BY <3>1, <4>1
      <4> QED
        BY <1>5, <4>2
    <3>4. ASSUME NEW r \in Rows, EndTask(r) PROVE FALSE
      <4>1. PICK a : a = Ancestors(r)
        OBVIOUS
      <4>2. observer' = [observer EXCEPT ![r].todo = a]
        BY <3>4, <4>1 DEF EndTask
      <4>3. observer'[o].wake = observer[o].wake
        BY <3>1, <4>2
      <4> QED
        BY <1>5, <4>3
    <3>5. observer' # observer
      BY <1>5
    <3> QED
      BY <3>2, <3>3, <3>4, <3>5 DEF WakeNext, Detach, Spawn, wakeVars
  <2>2. PICK S \in SUBSET Rows : WakeSettled(p, S)
    BY <1>2, <2>1, DueIsSettled
  <2> QED
    BY <1>2, <2>2, SettledStays
<1> QED
  BY <1>4, <1>5

LEMMA WokenAfterStep ==
  ASSUME WakeInv, OnTime, [WakeNext]_wakeVars, NEW p \in Rows, ~Woken(p), Woken(p)'
  PROVE  /\ Wakeable(p) /\ Children(p, task[p].thread) # {}
         /\ \A r \in Below(p, task[p].thread) : task[r].status # "open"
<1>1. WakeTypes /\ Placed /\ 0 \notin Rows /\ task \in [Rows -> TaskRows] /\ \A x \in Rows : task[x] \in TaskRows
  BY RowsAssumption DEF WakeInv, WakeTypes
<1>2. PICK w \in Rows : Exists(w)' /\ task'[w].wakes = p
  BY DEF Woken
<1>3. ~(Exists(w) /\ task[w].wakes = p)
  BY DEF Woken
<1>4. \E o \in Rows, n \in Rows : PublishWake(o, n)
  <2>1. ASSUME NEW r \in Rows, NEW n \in Rows, Spawn(r, n) PROVE FALSE
    <3>1. w # n => task'[w] = task[w]
      BY <1>1, <2>1 DEF Spawn
    <3>2. task'[n].wakes = 0
      BY <1>1, <2>1 DEF Spawn
    <3> QED
      BY <1>1, <1>2, <1>3, <3>1, <3>2 DEF Exists
  <2>2. ASSUME NEW r \in Rows, Detach(r) PROVE FALSE
    <3>1. task' = [task EXCEPT ![r].thread = r]
      BY <2>2 DEF Detach
    <3> QED
      BY <1>1, <1>2, <1>3, <3>1 DEF Exists, TaskRows
  <2>3. ASSUME NEW r \in Rows, EndTask(r) PROVE FALSE
    <3>1. PICK s \in {"success", "dead"} : task[r].status = "open" /\ task' = [task EXCEPT ![r].status = s]
      BY <2>3 DEF EndTask
    <3> QED
      BY <1>1, <1>2, <1>3, <3>1 DEF Exists, TaskRows
  <2>4. task' # task
    BY <1>2, <1>3 DEF Exists
  <2> QED
    BY <2>1, <2>2, <2>3, <2>4 DEF WakeNext, Decide, wakeVars
<1>5. PICK o \in Rows, n \in Rows : PublishWake(o, n)
  BY <1>4
<1>6. PICK q : q = observer[o].wake
  OBVIOUS
<1>7. q # 0 /\ ~Woken(q) /\ task' = [task EXCEPT ![n] = [task[q] EXCEPT !.status = "open", !.wakes = q]]
  <2>1. task' # task
    BY <1>2, <1>3 DEF Exists
  <2> QED
    BY <1>5, <1>6, <2>1 DEF PublishWake
<1>8. q \in Rows
  BY <1>1, <1>6, <1>7 DEF WakeTypes
<1>9. p = q
  <2>1. w # n => task'[w] = task[w]
    BY <1>1, <1>7
  <2>2. task'[n].wakes = q
    BY <1>1, <1>7, <1>8 DEF TaskRows
  <2> QED
    BY <1>2, <1>3, <2>1, <2>2 DEF Exists
<1>10. PICK S \in SUBSET Rows : WakeSettled(p, S)
  BY <1>6, <1>7, <1>9 DEF OnTime
<1>11. Below(p, task[p].thread) \subseteq S
  BY <1>1, <1>10, BelowIsClosed DEF WakeSettled
<1> QED
  BY <1>10, <1>11 DEF WakeSettled

\* For any rows and any order of ends, decisions and publishes: a row is woken only when it ended
\* well, delegated, and every row below it in its thread has ended (WokenAfterAll).
THEOREM NobodyIsWokenEarly == WakeSpec => WokenAfterAll
<1>1. WakeInit => OnTime
  BY DEF WakeInit, OnTime
<1>2. WakeInv /\ OnTime /\ [WakeNext]_wakeVars => OnTime'
  BY OnTimeStays
<1>3. WakeInv /\ OnTime /\ [WakeNext]_wakeVars
        => [\A p \in Rows : ~Woken(p) /\ Woken(p)' =>
              /\ Wakeable(p) /\ Children(p, task[p].thread) # {}
              /\ \A r \in Below(p, task[p].thread) : task[r].status # "open"]_wakeVars
  BY WokenAfterStep
<1> QED
  BY <1>1, <1>2, <1>3, WakeInitInv, WakeStepKeeps, PTL DEF WakeSpec, WokenAfterAll
=============================================================================
