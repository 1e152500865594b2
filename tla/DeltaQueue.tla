----------------------------- MODULE DeltaQueue -----------------------------
(***************************************************************************)
(* The live fragments of runs on their way to the conversation: reading    *)
(* threads offer them to a bounded queue, one writer thread takes batches  *)
(* and hands them to the module's sink, and bootstrap starts, stops and    *)
(* replaces the writer (execution_deltas.py, conversation/src/deltas.py).  *)
(* Redaction and sizes in bytes are left out: a fragment counts one.       *)
(***************************************************************************)
EXTENDS Integers, Sequences, FiniteSets

CONSTANTS
    Execs,        \* executions, numbers
    MaxQueue,     \* MAX_QUEUE
    Batch,        \* BATCH
    MaxGaps,      \* MAX_GAPS
    DeltaBudgets  \* bounds on runs, fragments, flushes, ends, write errors and handovers; cap is
                  \* stream/max_deltas_per_execution

ASSUME SizesAssumption == MaxQueue \in Nat \ {0} /\ Batch \in Nat \ {0} /\ MaxGaps \in Nat \ {0}

VARIABLES
    runs,         \* per execution: what its reading thread and _Pending hold, its row's status
    worker,       \* the writer thread and its queue
    generation,   \* _generation
    handover,     \* whether the writer is inside sink.write, holding _handover_lock
    sync,         \* where bootstrap's sync is
    budgets,      \* the sink's cache of what an execution has used
    ledger,       \* execution_delta
    stored,       \* the delta events of the conversation
    lost,         \* complete fragments dropped by a full queue or a full budget
    deltaLeft

deltaVars == <<runs, worker, generation, handover, sync, budgets, ledger, stored, lost, deltaLeft>>

PARTIAL == "assistant.partial"
TEXT == "assistant.text"
Markers == {"gap", "truncated"}
Unread == [count |-> -1, truncated |-> FALSE]
NoTx == [live |-> {}, cache |-> [x \in Execs |-> Unread], rows |-> {}, adopted |-> FALSE]

NewWorker(g) == [gen |-> g, alive |-> TRUE, stopping |-> FALSE, queue |-> <<>>, gaps |-> <<>>,
                 batch |-> <<>>, tx |-> NoTx]

DeltaInit ==
    /\ runs = [x \in Execs |-> [open |-> FALSE, joined |-> FALSE, part |-> 0, seg |-> 1, seq |-> 0,
                                mine |-> 0, last |-> 0, status |-> "none"]]
    /\ worker = NewWorker(1)
    /\ generation = 1 /\ handover = FALSE
    /\ sync = [pc |-> "idle", on |-> TRUE]
    /\ budgets = [x \in Execs |-> Unread]
    /\ ledger = {} /\ stored = {} /\ lost = {}
    /\ deltaLeft \in DeltaBudgets

Spends(k) == deltaLeft[k] > 0 /\ deltaLeft' = [deltaLeft EXCEPT ![k] = @ - 1]

Record(x, seq, kind, seg, g) == [x |-> x, seq |-> seq, kind |-> kind, seg |-> seg, gen |-> g]

-----------------------------------------------------------------------------
(* The queue, under _cv.  A state is the record w of the worker, r of the run. *)

\* _flush_locked: the joined text becomes a record when there is room; a tail that may be
\* the start of a secret is kept unless this is the last flush.
Flush(w, r, x, keep) ==
    LET fits == Len(w.queue) < MaxQueue
    IN  [worker |-> IF fits THEN [w EXCEPT !.queue = Append(@, Record(x, r.seq + 1, PARTIAL, r.part, w.gen))] ELSE w,
         run    |-> LET c == [r EXCEPT !.part = IF keep THEN @ ELSE 0]
                    IN  IF fits THEN [c EXCEPT !.seq = @ + 1, !.last = r.seq + 1] ELSE c]

\* _mark_gap: one marker per execution, the oldest goes when the map is full.
MarkGap(gaps, d) ==
    IF d.kind = PARTIAL \/ \E i \in DOMAIN gaps : gaps[i].x = d.x THEN gaps
    ELSE Append(IF Len(gaps) >= MaxGaps THEN Tail(gaps) ELSE gaps, [d EXCEPT !.kind = "gap"])

\* _append_locked
Enqueue(w, rec) ==
    IF Len(w.queue) < MaxQueue THEN [w EXCEPT !.queue = Append(@, rec)]
    ELSE [w EXCEPT !.gaps = MarkGap(@, Head(w.queue)), !.queue = Append(Tail(@), rec)]

\* What a full queue drops; a displaced marker takes its execution's losses with it.
Dropped(w) ==
    LET d    == Head(w.queue)
        full == Len(w.queue) >= MaxQueue
        push == full /\ MarkGap(w.gaps, d) # w.gaps /\ Len(w.gaps) >= MaxGaps
    IN  {e \in lost : ~(push /\ e.x = Head(w.gaps).x)}
        \cup (IF full /\ d.kind # PARTIAL THEN {d} ELSE {})

-----------------------------------------------------------------------------
(* The run's reading thread: on_fragment, submit, submit_partial, open, close *)

\* The run starts while deltas stream: the row of the execution, and open.
OpenRun(x) ==
    /\ runs[x].status = "none" /\ sync.on
    /\ Spends("runs")
    /\ runs' = [runs EXCEPT ![x].open = TRUE, ![x].joined = TRUE, ![x].status = "running"]
    /\ UNCHANGED <<worker, generation, handover, sync, budgets, ledger, stored, lost>>

\* next(seq) for a complete fragment, outside the lock.
NumberFragment(x) ==
    /\ runs[x].open /\ runs[x].mine = 0
    /\ Spends("fragments")
    /\ runs' = [runs EXCEPT ![x].seq = @ + 1, ![x].mine = runs[x].seq + 1]
    /\ UNCHANGED <<worker, generation, handover, sync, budgets, ledger, stored, lost>>

\* A flush took a later number meanwhile: the record gets a new one.
Renumber(r) ==
    IF r.joined /\ r.mine <= r.last THEN [r EXCEPT !.seq = @ + 1, !.mine = r.seq + 1] ELSE r

\* offer's first half: the complete text replaces its segment, any other fragment flushes it.
Supersede(x, kind) ==
    IF runs[x].part = 0 \/ ~runs[x].joined THEN [worker |-> worker, run |-> runs[x]]
    ELSE IF kind = TEXT THEN [worker |-> worker, run |-> [runs[x] EXCEPT !.part = 0]]
    ELSE Flush(worker, runs[x], x, FALSE)

Offer(x, kind) ==
    LET s == Supersede(x, kind)
        r == Renumber(s.run)
    IN  /\ runs[x].mine # 0
        /\ worker' = Enqueue(s.worker, Record(x, r.mine, kind, r.seg, worker.gen))
        /\ lost' = Dropped(s.worker)
        /\ runs' = [runs EXCEPT ![x] = [r EXCEPT !.mine = 0, !.seg = IF kind = TEXT THEN @ + 1 ELSE @]]
        /\ UNCHANGED <<generation, handover, sync, budgets, ledger, stored, deltaLeft>>

\* offer_partial below the size that flushes at once.
OfferPartial(x) ==
    /\ runs[x].open /\ runs[x].mine = 0 /\ runs[x].part = 0
    /\ Spends("partials")
    /\ runs' = [runs EXCEPT ![x].part = IF runs[x].joined THEN runs[x].seg ELSE 0]
    /\ UNCHANGED <<worker, generation, handover, sync, budgets, ledger, stored, lost>>

\* The run's finally: the tail is queued.
CloseRun(x) ==
    LET f == IF runs[x].part = 0 THEN [worker |-> worker, run |-> runs[x]]
             ELSE Flush(worker, runs[x], x, FALSE)
    IN  /\ runs[x].open /\ runs[x].mine = 0
        /\ worker' = f.worker
        /\ runs' = [runs EXCEPT ![x] = [f.run EXCEPT !.open = FALSE, !.joined = FALSE]]
        /\ UNCHANGED <<generation, handover, sync, budgets, ledger, stored, lost, deltaLeft>>

\* The finalizer holds the conversation row: it closes the execution and forgets the
\* fragments.  Recovery may do so while the run still goes on.
FinalizeRun(x) ==
    /\ runs[x].status = "running"
    /\ handover => worker.tx.rows = {}
    /\ runs' = [runs EXCEPT ![x].status = "closed"]
    /\ stored' = {e \in stored : ~(e.x = x /\ e.kind = PARTIAL)}
    /\ Spends("ends")
    /\ UNCHANGED <<worker, generation, handover, sync, budgets, ledger, lost>>

-----------------------------------------------------------------------------
(* The writer thread: _run *)

\* _flush_due_locked: the due ones of a pass; all of them, whole, on stop.  offer_partial
\* flushes a text that grew too long in the same way.
FlushDue(x) ==
    /\ worker.alive /\ worker.batch = <<>>
    /\ runs[x].part # 0 /\ runs[x].joined
    /\ \E keep \in BOOLEAN :
         /\ worker.stopping => ~keep
         /\ LET f == Flush(worker, runs[x], x, keep)
            IN  worker' = f.worker /\ runs' = [runs EXCEPT ![x] = f.run]
    /\ IF worker.stopping THEN UNCHANGED deltaLeft ELSE Spends("flushes")
    /\ UNCHANGED <<generation, handover, sync, budgets, ledger, stored, lost>>

\* _take: the markers first, then the queue.
Take ==
    LET g == SubSeq(worker.gaps, 1, IF Len(worker.gaps) < Batch THEN Len(worker.gaps) ELSE Batch)
        room == Batch - Len(g)
        n == IF Len(worker.queue) < room THEN Len(worker.queue) ELSE room
    IN  /\ worker.alive /\ worker.batch = <<>> /\ ~handover
        /\ Len(worker.gaps) + Len(worker.queue) > 0
        /\ worker' = [worker EXCEPT !.batch = g \o SubSeq(worker.queue, 1, n),
                                    !.gaps = SubSeq(@, Len(g) + 1, Len(@)),
                                    !.queue = SubSeq(@, n + 1, Len(@))]
        /\ UNCHANGED <<runs, generation, handover, sync, budgets, ledger, stored, lost, deltaLeft>>

\* Nothing is left and stop was asked for.
ThreadEnds ==
    /\ worker.alive /\ worker.stopping /\ worker.batch = <<>>
    /\ worker.queue = <<>> /\ worker.gaps = <<>>
    /\ \A x \in Execs : runs[x].joined => runs[x].part = 0
    /\ worker' = [worker EXCEPT !.alive = FALSE]
    /\ UNCHANGED <<runs, generation, handover, sync, budgets, ledger, stored, lost, deltaLeft>>

Forgive(b) == {e \in lost : \A i \in DOMAIN b : b[i].x # e.x}

\* The handover lock is taken and the generation compared; a batch of an old one is dropped.
EnterSink ==
    /\ worker.alive /\ worker.batch # <<>> /\ ~handover
    /\ \/ worker.gen = generation /\ handover' = TRUE /\ UNCHANGED <<worker, lost>>
       \/ /\ worker.gen # generation
          /\ worker' = [worker EXCEPT !.batch = <<>>] /\ lost' = Forgive(worker.batch)
          /\ UNCHANGED handover
    /\ UNCHANGED <<runs, generation, sync, budgets, ledger, stored, deltaLeft>>

\* _budget: the cache, else what the ledger says.
BudgetOf(x) ==
    IF budgets[x] # Unread THEN budgets[x]
    ELSE [count |-> Cardinality({d \in ledger : d.x = x}),
          truncated |-> \E d \in ledger : d.x = x /\ d.kind = "truncated"]

\* _one: t is the transaction so far.
One(t, rec) ==
    LET b    == t.cache[rec.x]
        skip == \/ rec.kind = PARTIAL /\ rec.x \notin t.live
                \/ b.truncated
                \/ rec.kind = PARTIAL /\ b.count + 1 > deltaLeft.cap \div 2
        over == rec.kind \notin Markers /\ b.count + 1 > deltaLeft.cap
    IN  IF skip THEN t
        ELSE IF over
        THEN [t EXCEPT !.cache[rec.x].truncated = TRUE,
                       !.rows = @ \cup {[rec EXCEPT !.kind = "truncated"]}]
        ELSE [t EXCEPT !.cache[rec.x].count = @ + 1, !.rows = @ \cup {rec}]

Closed == {x \in Execs : runs[x].status = "closed"}

\* _write_on: the records of a batch one after the other, from the transaction t.
WriteOn(t, batch) ==
    LET after[n \in 0..Len(batch)] == IF n = 0 THEN t ELSE One(after[n - 1], batch[n])
    IN  after[Len(batch)]

\* The conversations are locked, which executions are over is read, the rows are written.
WriteRows ==
    /\ handover /\ worker.tx.rows = {}
    /\ LET t == WriteOn([live |-> Execs \ Closed, cache |-> [x \in Execs |-> BudgetOf(x)],
                         rows |-> {}, adopted |-> FALSE], worker.batch)
       IN  \/ t.rows # {} /\ worker' = [worker EXCEPT !.tx = t] /\ UNCHANGED handover
           \/ t.rows = {} /\ worker' = [worker EXCEPT !.batch = <<>>] /\ handover' = FALSE
    /\ UNCHANGED <<runs, generation, sync, budgets, ledger, stored, lost, deltaLeft>>

Complete(b) == {b[i] : i \in {k \in DOMAIN b : b[k].kind \notin Markers \cup {PARTIAL}}}

\* The commit; what the budget refused is lost.
SinkCommits ==
    LET rows == worker.tx.rows
        in   == {[x |-> row.x, seq |-> row.seq, kind |-> row.kind] : row \in rows}
    IN  /\ handover /\ rows # {}
        /\ ledger' = ledger \cup in
        /\ stored' = stored \cup rows
        /\ budgets' = IF worker.tx.adopted THEN budgets
                      ELSE [x \in Execs |-> IF \E i \in DOMAIN worker.batch : worker.batch[i].x = x
                                            THEN worker.tx.cache[x] ELSE budgets[x]]
        /\ lost' = lost \cup (Complete(worker.batch) \ rows)
        /\ worker' = [worker EXCEPT !.batch = <<>>, !.tx = NoTx]
        /\ handover' = FALSE
        /\ UNCHANGED <<runs, generation, sync, deltaLeft>>

\* Faulty: the cached budgets of a batch that was rolled back stay.
RollbackKeepsBudget(x) == worker.tx.cache[x]

\* The batch's budgets are dropped from the cache with the rollback.
RollbackBudget(x) == IF \E i \in DOMAIN worker.batch : worker.batch[i].x = x THEN Unread ELSE budgets[x]

\* A lock wait or a deadlock rolls back and the batch is tried again; any other error, or
\* the last try, loses it.
SinkFails ==
    /\ handover /\ worker.tx.rows # {}
    /\ Spends("errors")
    /\ budgets' = IF worker.tx.adopted THEN budgets ELSE [x \in Execs |-> RollbackBudget(x)]
    /\ \/ worker' = [worker EXCEPT !.tx = NoTx] /\ UNCHANGED <<handover, lost>>
       \/ /\ worker' = [worker EXCEPT !.tx = NoTx, !.batch = <<>>]
          /\ handover' = FALSE /\ lost' = Forgive(worker.batch)
    /\ UNCHANGED <<runs, generation, sync, ledger, stored>>

-----------------------------------------------------------------------------
(* bootstrap: sync, under _state_lock *)

\* The same declaration: the new sink object is adopted, its cache is empty.
Adopt ==
    /\ sync.pc = "idle" /\ sync.on /\ worker.alive
    /\ Spends("syncs")
    /\ budgets' = [x \in Execs |-> Unread]
    /\ worker' = [worker EXCEPT !.tx.adopted = (@ \/ worker.tx.rows # {})]
    /\ UNCHANGED <<runs, generation, handover, sync, ledger, stored, lost>>

\* The module is off, or another sink is declared: close the door before anything else.
SyncBumps ==
    /\ sync.pc = "idle" /\ sync.on /\ ~handover
    /\ Spends("syncs")
    /\ generation' = generation + 1
    /\ sync' = [sync EXCEPT !.pc = "discard"]
    /\ UNCHANGED <<runs, worker, handover, budgets, ledger, stored, lost>>

\* discard and stop: the queue, the markers and the open runs' joined text go.
SyncDiscards ==
    /\ sync.pc = "discard"
    /\ worker' = [worker EXCEPT !.queue = <<>>, !.gaps = <<>>, !.stopping = TRUE]
    /\ runs' = [x \in Execs |-> [runs[x] EXCEPT !.part = 0, !.joined = FALSE]]
    /\ lost' = {}
    /\ sync' = [sync EXCEPT !.pc = "join"]
    /\ UNCHANGED <<generation, handover, budgets, ledger, stored, deltaLeft>>

\* The bounded join: the thread ended, or it is left behind.
SyncJoins ==
    /\ sync.pc = "join"
    /\ sync' = [pc |-> "idle", on |-> FALSE]
    /\ UNCHANGED <<runs, worker, generation, handover, budgets, ledger, stored, lost, deltaLeft>>

\* The module is on again: a new thread, only when the old one is gone.  What was offered
\* to the old worker goes with it.
SyncStarts ==
    /\ sync.pc = "idle" /\ ~sync.on /\ ~worker.alive
    /\ Spends("syncs")
    /\ generation' = generation + 1
    /\ worker' = NewWorker(generation + 1)
    /\ budgets' = [x \in Execs |-> Unread]
    /\ sync' = [sync EXCEPT !.on = TRUE]
    /\ lost' = {}
    /\ UNCHANGED <<runs, handover, ledger, stored>>

\* The consumer's shutdown drains: the thread is told to stop, and only after the join is
\* the door closed.
ShutdownStops ==
    /\ sync = [pc |-> "idle", on |-> TRUE]
    /\ Spends("syncs")
    /\ worker' = [worker EXCEPT !.stopping = TRUE]
    /\ sync' = [sync EXCEPT !.pc = "drain"]
    /\ UNCHANGED <<runs, generation, handover, budgets, ledger, stored, lost>>

ShutdownCloses ==
    /\ sync.pc = "drain" /\ ~handover
    /\ generation' = generation + 1
    /\ sync' = [pc |-> "down", on |-> FALSE]
    /\ UNCHANGED <<runs, worker, handover, budgets, ledger, stored, lost, deltaLeft>>

DeltaNext ==
    \/ \E x \in Execs : \/ OpenRun(x) \/ NumberFragment(x) \/ OfferPartial(x) \/ CloseRun(x)
                        \/ FinalizeRun(x) \/ FlushDue(x)
                        \/ \E kind \in {TEXT, "tool_use"} : Offer(x, kind)
    \/ Take \/ ThreadEnds \/ EnterSink \/ WriteRows \/ SinkCommits \/ SinkFails
    \/ Adopt \/ ShutdownStops \/ ShutdownCloses \/ SyncBumps \/ SyncDiscards \/ SyncJoins \/ SyncStarts

DeltaSpec == DeltaInit /\ [][DeltaNext]_deltaVars

-----------------------------------------------------------------------------
(* Properties *)

\* A loss is announced: a complete fragment that a full queue or a full budget dropped has
\* a marker of its execution stored, or on its way, whatever was rolled back meanwhile.
LossAnnounced ==
    \A e \in lost :
      \/ \E row \in stored : row.x = e.x /\ row.kind \in Markers
      \/ \E i \in DOMAIN worker.gaps : worker.gaps[i].x = e.x
      \/ \E i \in DOMAIN worker.batch : worker.batch[i].x = e.x /\ worker.batch[i].kind = "gap"
=============================================================================
