------------------------- MODULE ThreadLine_proofs -------------------------
(***************************************************************************)
(* Proofs about ThreadLine, for any jobs, lines, consumers and bounds, of  *)
(* the two properties of a line: one started turn, and a session that is   *)
(* continued once.  Both assume that no session is filed after a pause     *)
(* (LateSession = FALSE); with it neither holds.                           *)
(***************************************************************************)
EXTENDS ThreadLine, FiniteSetTheorems, TLAPS

-----------------------------------------------------------------------------
(* The inductive invariant *)

\* Nobody else in the line of i has started and is not over.
Clear(i) == \A j \in Jobs : InLineOf(j, i) => ~HoldsLine(j)

\* What a row says of its past; the turn it continues is over, and ended before it did.
RowOK(i) ==
    /\ job[i].status \in {"RUNNING", "PAUSED"} => job[i].started
    /\ job[i].sess \/ job[i].resume # None => job[i].started
    /\ job[i].status = "absent" => ~job[i].started
    /\ job[i].fin <= clock
    /\ job[i].resume # None =>
         /\ job[job[i].resume].status = "DONE"
         /\ job[i].status = "DONE" => job[job[i].resume].fin < job[i].fin

RowsOK == \A i \in Jobs : RowOK(i)

\* A claim has a waiting job to itself; past the lock it has the thread, and what it read of
\* the line is still so.
ClaimOK(c) ==
    /\ claim[c].pc = "idle" <=> claim[c].job = None
    /\ claim[c].pc # "idle" => job[claim[c].job].status = "TODO"
    /\ claim[c].pc = "locked" /\ ~Moved(c) =>
         lock = claim[c].job /\ (~claim[c].blocked => Clear(claim[c].job))

ClaimsOK ==
    /\ \A c \in Consumers : ClaimOK(c)
    /\ \A c, d \in Consumers : claim[c].job = claim[d].job /\ claim[c].job # None => c = d

\* SessionNeverForks, said also of a turn that runs and has no session yet.
NoForkAhead ==
    \A i, j \in Jobs :
        /\ InLineOf(j, i) /\ job[i].resume # None
        /\ job[i].sess \/ job[i].status = "RUNNING"
        /\ job[j].sess
        => job[i].resume # job[j].resume

IInv == TypeOK /\ RowsOK /\ ClaimsOK /\ OneStartedTurn /\ NoForkAhead

-----------------------------------------------------------------------------
(* Helpers *)

\* A turn of i's line has i in its line: line_key and _line_where agree.
LEMMA LineIsSymmetric ==
    ASSUME NEW i \in Jobs, NEW j \in Jobs, InLineOf(j, i)
    PROVE  InLineOf(i, j)
BY JobsAssumption, LinesAssumption DEF InLineOf, LineKey, None

\* A deferral is of one to thirty seconds.
LEMMA DeferralsAreShort ==
    ASSUME NEW ms \in Int
    PROVE  DeferSeconds(ms) \in 1..MaxWait
<1> DEFINE x == -ClampDelay(ms)
<1>1. x \in Int /\ -30000 <= x /\ x <= -250
  BY DEF ClampDelay, DeferFloorMs, DeferCeilingMs
<1>2. x \div 1000 \in Int /\ -30 <= x \div 1000 /\ x \div 1000 <= -1
  <2> HIDE DEF x
  <2> QED
    BY <1>1
<1> QED
  BY <1>2 DEF DeferSeconds, MaxWait, DeferCeilingMs

LEMMA LineDelayIsANumber ==
    ASSUME NEW n \in Nat
    PROVE  LineDelay(n) \in Int
BY DEF LineDelay, LineDeferMs, LineDeferMaxMs

\* A set of numbers has a least one (of the sets 0..n, one includes no other).
LEMMA LeastNatural ==
  ASSUME NEW S \in SUBSET Nat, S # {}
  PROVE \E n \in S : \A m \in S : n <= m
<1> DEFINE below == {0..n : n \in S}
           R == StrictSubsetOrdering(Nat)
<1>1. below \subseteq FiniteSubsetsOf(Nat) /\ below # {}
  <2>1. ASSUME NEW n \in S PROVE IsFiniteSet(0..n) /\ 0..n \subseteq Nat
    BY FS_Interval
  <2> QED
    BY <2>1 DEF FiniteSubsetsOf
<1>2. IsWellFoundedOn(R, FiniteSubsetsOf(Nat))
  BY FS_StrictSubsetOrderingWellFounded
<1>3. \E x \in below : \A y \in below : <<y, x>> \notin R
  <2> HIDE DEF below, R
  <2> QED BY <1>1, <1>2, WFMin
<1>4. PICK n \in S : \A m \in S : <<0..m, 0..n>> \notin R
  BY <1>3
<1>5. ASSUME NEW m \in S, m < n PROVE FALSE
  <2>1. 0..m \subseteq 0..n /\ n \in 0..n /\ n \notin 0..m
    BY <1>5
  <2>2. 0..m \in SUBSET Nat /\ 0..n \in SUBSET Nat /\ 0..m # 0..n
    BY <2>1
  <2> QED
    BY <1>4, <2>1, <2>2 DEF StrictSubsetOrdering
<1> QED
  BY <1>5

\* Of the turns that ended, one ended last.
LEMMA OneEndedLast ==
    ASSUME TypeOK, RowsOK, NEW S \in SUBSET Jobs, S # {}
    PROVE  \E j \in S : \A k \in S : job[k].fin <= job[j].fin
<1> DEFINE ages == {clock - job[k].fin : k \in S}
<1>1. ages \in SUBSET Nat /\ ages # {}
  <2>1. ASSUME NEW k \in S PROVE clock - job[k].fin \in Nat
    BY DEF TypeOK, RowsOK, RowOK, Row
  <2> QED
    BY <2>1
<1>2. PICK a \in ages : \A b \in ages : a <= b
  <2> HIDE DEF ages
  <2> QED
    BY <1>1, LeastNatural
<1>3. PICK j \in S : a = clock - job[j].fin
  BY <1>2
<1>4. ASSUME NEW k \in S PROVE job[k].fin <= job[j].fin
  <2>1. clock - job[j].fin <= clock - job[k].fin
    BY <1>2, <1>3
  <2>2. clock \in Nat /\ job[j].fin \in Nat /\ job[k].fin \in Nat
    BY DEF TypeOK, Row
  <2> QED
    BY <2>1, <2>2
<1> QED
  BY <1>4

\* What resolve_resume returns.
LEMMA ResumeIsTheLast ==
    ASSUME TypeOK, RowsOK, NEW i \in Jobs, ResolveResume(i) # None
    PROVE  LET r == ResolveResume(i) IN
           /\ r \in Jobs /\ job[r].status = "DONE"
           /\ \A k \in Jobs : InLineOf(k, i) /\ job[k].status = "DONE" /\ job[k].sess
                                => job[k].fin <= job[r].fin
<1> DEFINE ended == {j \in Jobs : InLineOf(j, i) /\ Terminal(j) /\ job[j].sess}
           r == ResolveResume(i)
<1>1. ended # {} /\ r = CHOOSE j \in ended : \A k \in ended : job[k].fin <= job[j].fin
  BY DEF ResolveResume
<1>2. \E j \in ended : \A k \in ended : job[k].fin <= job[j].fin
  BY <1>1, OneEndedLast
<1>3. r \in ended /\ \A k \in ended : job[k].fin <= job[r].fin
  BY <1>1, <1>2
<1> QED
  BY <1>3 DEF Terminal

\* The turn of a row that starts in a line where all that have a session are over continues
\* none of those that they continued.
LEMMA ResumeIsNew ==
    ASSUME IInv, NEW i \in Jobs, Clear(i), ResolveResume(i) # None,
           NEW j \in Jobs, InLineOf(j, i), job[j].sess
    PROVE  ResolveResume(i) # job[j].resume
<1>1. job[j].started /\ ~HoldsLine(j)
  BY DEF IInv, RowsOK, RowOK, Clear
<1>2. job[j].status = "DONE"
  BY <1>1 DEF IInv, TypeOK, Row, Statuses, RowsOK, RowOK, HoldsLine
<1>3. job[j].fin <= job[ResolveResume(i)].fin /\ ResolveResume(i) \in Jobs
  BY <1>2, ResumeIsTheLast DEF IInv
<1>4. CASE job[j].resume = None
  BY <1>4
<1>5. CASE job[j].resume # None
  <2>1. job[j].resume \in Jobs /\ job[job[j].resume].fin < job[j].fin
    BY <1>2, <1>5 DEF IInv, TypeOK, Row, RowsOK, RowOK
  <2>2. job[j].fin \in Nat /\ job[job[j].resume].fin \in Nat /\ job[ResolveResume(i)].fin \in Nat
    BY <1>3, <2>1 DEF IInv, TypeOK, Row
  <2> QED
    BY <1>3, <2>1, <2>2
<1> QED
  BY <1>4, <1>5

-----------------------------------------------------------------------------
(* The steps, in terms of rows *)

\* A claim past its first step is of a waiting job, and nobody else claims it.
LEMMA ClaimedRow ==
    ASSUME IInv, NEW c \in Consumers, claim[c].pc # "idle"
    PROVE  /\ claim[c].job \in Jobs
           /\ job[claim[c].job] \in Row /\ job[claim[c].job].status = "TODO"
           /\ Placed(c) \in Row
           /\ Placed(c).status = "TODO"
           /\ Placed(c).started = job[claim[c].job].started
           /\ Placed(c).fin = job[claim[c].job].fin
           /\ Placed(c).resume = job[claim[c].job].resume
           /\ Placed(c).sess => job[claim[c].job].sess
           /\ Placed(c).moved <=> Moved(c)
<1>1. claim[c].job \in Jobs /\ job[claim[c].job].status = "TODO"
  BY DEF IInv, TypeOK, ClaimsOK, ClaimOK
<1>2. job[claim[c].job] \in Row /\ claim[c].detach \in BOOLEAN
  BY <1>1 DEF IInv, TypeOK
<1> QED
  BY <1>1, <1>2 DEF Placed, Moved, Row

\* What a claim that defers writes.
LEMMA DeferStep ==
    ASSUME IInv, NEW c \in Consumers, Defer(c)
    PROVE  /\ \E w \in 1..MaxWait : job' = [job EXCEPT ![claim[c].job] = [Placed(c) EXCEPT !.wait = w]]
           /\ stretch' \in [Jobs -> Stretch]
<1> DEFINE i == claim[c].job
           count == IF stretch[i].count < CountCap THEN stretch[i].count + 1 ELSE CountCap
<1>1. i \in Jobs
  BY ClaimedRow DEF Defer
<1>2. count \in 0..CountCap
  BY <1>1 DEF IInv, TypeOK, Stretch, CountCap
<1>3. stretch' \in [Jobs -> Stretch]
  <2>1. stretch' = [stretch EXCEPT ![i].open = TRUE, ![i].line = ~claim[c].defer, ![i].count = count]
    BY DEF Defer
  <2>2. claim[c].defer \in BOOLEAN /\ stretch \in [Jobs -> Stretch]
    BY DEF IInv, TypeOK
  <2> HIDE DEF i, count
  <2> QED
    BY <1>1, <1>2, <2>1, <2>2 DEF Stretch
<1>4. LineDelay(count) \in Int
  BY <1>2, LineDelayIsANumber DEF CountCap
<1>5. \E ms \in Int : job' = [job EXCEPT ![i] = [Placed(c) EXCEPT !.wait = DeferSeconds(ms)]]
  BY <1>4, DelaysAssumption DEF Defer
<1> QED
  BY <1>3, <1>5, DeferralsAreShort

\* What a claim that runs writes: the turn continues nothing, or the last that ended.
LEMMA StartStep ==
    ASSUME IInv, NEW c \in Consumers, Start(c)
    PROVE  LET i == claim[c].job IN
           \E r \in Jobs \cup {None} :
             /\ job' = [job EXCEPT ![i] =
                   [Placed(c) EXCEPT !.status = "RUNNING", !.started = TRUE, !.resume = r]]
             /\ r # None => ~Moved(c) /\ r = ResolveResume(i) /\ job[r].status = "DONE"
             /\ ~Moved(c) => lock = i /\ Clear(i)
<1> DEFINE i == claim[c].job
<1>1. i \in Jobs /\ claim[c].pc = "locked"
  BY ClaimedRow DEF Start
<1>2. PICK fresh \in BOOLEAN : job' = [job EXCEPT ![i] =
             [Placed(c) EXCEPT !.status = "RUNNING", !.started = TRUE,
                 !.resume = IF fresh \/ Moved(c) THEN None ELSE ResolveResume(i)]]
  BY DEF Start
<1> DEFINE r == IF fresh \/ Moved(c) THEN None ELSE ResolveResume(i)
<1>3. r # None => r \in Jobs /\ job[r].status = "DONE"
  BY <1>1, ResumeIsTheLast DEF IInv
<1>4. ~Moved(c) => lock = i /\ Clear(i)
  BY <1>1 DEF IInv, ClaimsOK, ClaimOK, Start
<1> QED
  BY <1>2, <1>3, <1>4

\* Rows that are over stay as they are, and a row that moved does not come back.
LEMMA RowsOnlyGrow ==
    ASSUME IInv, Next, NEW i \in Jobs
    PROVE  /\ job[i].status = "DONE" => job'[i] = job[i]
           /\ job[i].moved => job'[i].moved
<1> DEFINE Grows == (job[i].status = "DONE" => job'[i] = job[i]) /\ (job[i].moved => job'[i].moved)
<1>0. job \in [Jobs -> Row]
  BY DEF IInv, TypeOK
<1>1. CASE \E c \in Consumers, k \in Jobs : Pick(c, k)
  BY <1>0, <1>1 DEF Pick
<1>2. CASE \E c \in Consumers : LockThread(c) \/ Rollback(c)
  BY <1>0, <1>2 DEF LockThread, Rollback
<1>3. ASSUME NEW c \in Consumers, Defer(c) PROVE Grows
  <2>1. claim[c].pc # "idle"
    BY <1>3 DEF Defer
  <2>2. PICK w \in 1..MaxWait : job' = [job EXCEPT ![claim[c].job] = [Placed(c) EXCEPT !.wait = w]]
    BY <1>3, DeferStep
  <2>3. claim[c].job \in Jobs /\ Placed(c) \in Row /\ job[claim[c].job].status = "TODO"
        /\ (job[claim[c].job].moved => Placed(c).moved)
    BY <2>1, ClaimedRow DEF Moved
  <2> QED
    BY <1>0, <2>2, <2>3 DEF Row
<1>4. ASSUME NEW c \in Consumers, Start(c) PROVE Grows
  <2>1. claim[c].pc # "idle"
    BY <1>4 DEF Start
  <2>2. PICK r \in Jobs \cup {None} : job' = [job EXCEPT ![claim[c].job] =
          [Placed(c) EXCEPT !.status = "RUNNING", !.started = TRUE, !.resume = r]]
    BY <1>4, StartStep
  <2>3. claim[c].job \in Jobs /\ Placed(c) \in Row /\ job[claim[c].job].status = "TODO"
        /\ (job[claim[c].job].moved => Placed(c).moved)
    BY <2>1, ClaimedRow DEF Moved
  <2> QED
    BY <1>0, <2>2, <2>3 DEF Row
<1>5. ASSUME NEW k \in Jobs, TurnStep(k) PROVE Grows
  BY <1>0, <1>5 DEF TurnStep, Publish, SaveSession, Finish, Retry, Pause, Resume, Row
<1>6. ASSUME NEW rows \in SUBSET Jobs, ComesDue(rows) PROVE Grows
  BY <1>0, <1>6 DEF ComesDue, Row
<1> QED
  BY <1>1, <1>2, <1>3, <1>4, <1>5, <1>6 DEF Next, Turns, ClaimStep

\* A row begins to hold its line only by a claim that has the thread and found the line clear.
LEMMA HoldingBegins ==
    ASSUME IInv, LateSession = FALSE, Next,
           NEW i \in Jobs, HoldsLine(i)', ~job'[i].moved, ~HoldsLine(i)
    PROVE  lock = i /\ Clear(i) /\ \A j \in Jobs \ {i} : job'[j] = job[j]
<1> DEFINE Begins == lock = i /\ Clear(i) /\ \A j \in Jobs \ {i} : job'[j] = job[j]
<1>0. job \in [Jobs -> Row]
  BY DEF IInv, TypeOK
<1>1. CASE \E c \in Consumers, k \in Jobs : Pick(c, k)
  BY <1>1 DEF Pick, HoldsLine
<1>2. CASE \E c \in Consumers : LockThread(c) \/ Rollback(c)
  BY <1>2 DEF LockThread, Rollback, HoldsLine
<1>3. ASSUME NEW c \in Consumers, Defer(c) PROVE Begins
  <2>1. claim[c].pc # "idle"
    BY <1>3 DEF Defer
  <2>2. PICK w \in 1..MaxWait : job' = [job EXCEPT ![claim[c].job] = [Placed(c) EXCEPT !.wait = w]]
    BY <1>3, DeferStep
  <2> QED
    BY <1>0, <2>1, <2>2, ClaimedRow DEF Row, HoldsLine
<1>4. ASSUME NEW c \in Consumers, Start(c) PROVE Begins
  <2>1. claim[c].pc # "idle"
    BY <1>4 DEF Start
  <2>2. PICK r \in Jobs \cup {None} :
          /\ job' = [job EXCEPT ![claim[c].job] =
               [Placed(c) EXCEPT !.status = "RUNNING", !.started = TRUE, !.resume = r]]
          /\ ~Moved(c) => lock = claim[c].job /\ Clear(claim[c].job)
    BY <1>4, StartStep
  <2>3. claim[c].job \in Jobs /\ Placed(c) \in Row /\ (Placed(c).moved <=> Moved(c))
    BY <2>1, ClaimedRow
  <2>4. claim[c].job = i
    BY <1>0, <2>2, <2>3 DEF HoldsLine
  <2>5. ~Moved(c)
    BY <1>0, <2>2, <2>3, <2>4 DEF Row
  <2> QED
    BY <1>0, <2>2, <2>4, <2>5
<1>5. ASSUME NEW k \in Jobs, Publish(k) PROVE Begins
  BY <1>0, <1>5 DEF Publish, Row, HoldsLine, IInv, RowsOK, RowOK
<1>6. ASSUME NEW k \in Jobs, SaveSession(k) \/ Finish(k) \/ Retry(k) \/ Pause(k) \/ Resume(k) PROVE Begins
  BY <1>0, <1>6 DEF SaveSession, Finish, Retry, Pause, Resume, Row, HoldsLine
<1>7. ASSUME NEW rows \in SUBSET Jobs, ComesDue(rows) PROVE Begins
  BY <1>0, <1>7 DEF ComesDue, Row, HoldsLine
<1> QED
  BY <1>1, <1>2, <1>3, <1>4, <1>5, <1>6, <1>7 DEF Next, Turns, ClaimStep, TurnStep

\* Lines lose turns to other threads, and win none.
LEMMA LinesShrink ==
    ASSUME IInv, Next, NEW i \in Jobs, NEW j \in Jobs, InLineOf(j, i)'
    PROVE  InLineOf(j, i)
BY RowsOnlyGrow DEF InLineOf, LineKey

\* What a claim found of its line stays so while it has the thread.
LEMMA ClearStays ==
    ASSUME IInv, LateSession = FALSE, Next, NEW i \in Jobs, Clear(i), lock = i
    PROVE  Clear(i)'
<1> SUFFICES ASSUME NEW j \in Jobs, InLineOf(j, i)', HoldsLine(j)' PROVE FALSE
  BY DEF Clear
<1>1. InLineOf(j, i) /\ ~HoldsLine(j)
  BY LinesShrink DEF Clear
<1>2. j # i /\ ~job'[j].moved
  BY DEF InLineOf
<1> QED
  BY <1>1, <1>2, HoldingBegins

-----------------------------------------------------------------------------
(* The parts of the invariant *)

LEMMA InitOK == Init => IInv
<1> SUFFICES ASSUME Init PROVE IInv
  OBVIOUS
<1>1. TypeOK
  BY JobsAssumption, LineBoundsAssumption
     DEF Init, TypeOK, Row, Statuses, Stretch, NoClaim, CountCap, MaxWait, DeferCeilingMs, None
<1>2. RowsOK
  BY DEF Init, RowsOK, RowOK, None
<1>3. ClaimsOK
  BY DEF Init, ClaimsOK, ClaimOK, NoClaim, None
<1>4. OneStartedTurn /\ NoForkAhead
  BY DEF Init, OneStartedTurn, HoldsLine, NoForkAhead
<1> QED
  BY <1>1, <1>2, <1>3, <1>4 DEF IInv

LEMMA LineStep ==
    ASSUME IInv, LateSession = FALSE, Next
    PROVE  OneStartedTurn'
<1> SUFFICES ASSUME NEW i \in Jobs, NEW j \in Jobs, InLineOf(j, i)', HoldsLine(i)', HoldsLine(j)'
             PROVE  FALSE
  BY DEF OneStartedTurn
<1>1. InLineOf(j, i) /\ InLineOf(i, j) /\ i # j /\ ~job'[i].moved /\ ~job'[j].moved
  BY LinesShrink, LineIsSymmetric DEF InLineOf
<1>2. ~(HoldsLine(i) /\ HoldsLine(j))
  BY <1>1 DEF IInv, OneStartedTurn
<1>3. CASE ~HoldsLine(i)
  <2>1. Clear(i) /\ job'[j] = job[j]
    BY <1>1, <1>3, HoldingBegins
  <2> QED
    BY <1>1, <2>1 DEF Clear, HoldsLine
<1>4. CASE ~HoldsLine(j)
  <2>1. Clear(j) /\ job'[i] = job[i]
    BY <1>1, <1>4, HoldingBegins
  <2> QED
    BY <1>1, <2>1 DEF Clear, HoldsLine
<1> QED
  BY <1>2, <1>3, <1>4

\* A turn gets its session while it runs, and nothing else changes then.
LEMMA SessionBegins ==
    ASSUME IInv, LateSession = FALSE, Next, NEW i \in Jobs, job'[i].sess, ~job[i].sess
    PROVE  job[i].status = "RUNNING" /\ \A j \in Jobs \ {i} : job'[j] = job[j]
<1> DEFINE Begins == job[i].status = "RUNNING" /\ \A j \in Jobs \ {i} : job'[j] = job[j]
<1>0. job \in [Jobs -> Row]
  BY DEF IInv, TypeOK
<1>1. CASE \E c \in Consumers, k \in Jobs : Pick(c, k)
  BY <1>1 DEF Pick
<1>2. CASE \E c \in Consumers : LockThread(c) \/ Rollback(c)
  BY <1>2 DEF LockThread, Rollback
<1>3. ASSUME NEW c \in Consumers, Defer(c) PROVE Begins
  <2>1. claim[c].pc # "idle"
    BY <1>3 DEF Defer
  <2>2. PICK w \in 1..MaxWait : job' = [job EXCEPT ![claim[c].job] = [Placed(c) EXCEPT !.wait = w]]
    BY <1>3, DeferStep
  <2> QED
    BY <1>0, <2>1, <2>2, ClaimedRow DEF Row
<1>4. ASSUME NEW c \in Consumers, Start(c) PROVE Begins
  <2>1. claim[c].pc # "idle"
    BY <1>4 DEF Start
  <2>2. PICK r \in Jobs \cup {None} : job' = [job EXCEPT ![claim[c].job] =
          [Placed(c) EXCEPT !.status = "RUNNING", !.started = TRUE, !.resume = r]]
    BY <1>4, StartStep
  <2> QED
    BY <1>0, <2>1, <2>2, ClaimedRow DEF Row
<1>5. ASSUME NEW k \in Jobs, TurnStep(k) PROVE Begins
  BY <1>0, <1>5 DEF TurnStep, Publish, SaveSession, Finish, Retry, Pause, Resume, Row
<1>6. ASSUME NEW rows \in SUBSET Jobs, ComesDue(rows) PROVE Begins
  BY <1>0, <1>6 DEF ComesDue, Row
<1> QED
  BY <1>1, <1>2, <1>3, <1>4, <1>5, <1>6 DEF Next, Turns, ClaimStep

\* A turn begins to run, or continues another turn than before, by a claim that starts it.
LEMMA RunBegins ==
    ASSUME IInv, LateSession = FALSE, Next, NEW i \in Jobs, ~job'[i].moved,
           \/ job'[i].resume # job[i].resume
           \/ job'[i].status = "RUNNING" /\ job[i].status # "RUNNING"
    PROVE  /\ Clear(i)
           /\ \A j \in Jobs \ {i} : job'[j] = job[j]
           /\ job'[i].sess => job[i].sess
           /\ job'[i].resume # None => job'[i].resume = ResolveResume(i)
<1> DEFINE Begins == /\ Clear(i)
                     /\ \A j \in Jobs \ {i} : job'[j] = job[j]
                     /\ job'[i].sess => job[i].sess
                     /\ job'[i].resume # None => job'[i].resume = ResolveResume(i)
<1>0. job \in [Jobs -> Row]
  BY DEF IInv, TypeOK
<1>1. CASE \E c \in Consumers, k \in Jobs : Pick(c, k)
  BY <1>1 DEF Pick
<1>2. CASE \E c \in Consumers : LockThread(c) \/ Rollback(c)
  BY <1>2 DEF LockThread, Rollback
<1>3. ASSUME NEW c \in Consumers, Defer(c) PROVE Begins
  <2>1. claim[c].pc # "idle"
    BY <1>3 DEF Defer
  <2>2. PICK w \in 1..MaxWait : job' = [job EXCEPT ![claim[c].job] = [Placed(c) EXCEPT !.wait = w]]
    BY <1>3, DeferStep
  <2> QED
    BY <1>0, <2>1, <2>2, ClaimedRow DEF Row
<1>4. ASSUME NEW c \in Consumers, Start(c) PROVE Begins
  <2>1. claim[c].pc # "idle"
    BY <1>4 DEF Start
  <2>2. PICK r \in Jobs \cup {None} :
          /\ job' = [job EXCEPT ![claim[c].job] =
               [Placed(c) EXCEPT !.status = "RUNNING", !.started = TRUE, !.resume = r]]
          /\ r # None => r = ResolveResume(claim[c].job)
          /\ ~Moved(c) => Clear(claim[c].job)
    BY <1>4, StartStep
  <2>3. claim[c].job \in Jobs /\ Placed(c) \in Row /\ (Placed(c).moved <=> Moved(c))
        /\ (Placed(c).sess => job[claim[c].job].sess)
    BY <2>1, ClaimedRow
  <2>4. claim[c].job = i
    BY <1>0, <2>2, <2>3
  <2>5. ~Moved(c)
    BY <1>0, <2>2, <2>3, <2>4 DEF Row
  <2> QED
    BY <1>0, <2>2, <2>3, <2>4, <2>5 DEF Row
<1>5. ASSUME NEW k \in Jobs, TurnStep(k) PROVE Begins
  BY <1>0, <1>5 DEF TurnStep, Publish, SaveSession, Finish, Retry, Pause, Resume, Row
<1>6. ASSUME NEW rows \in SUBSET Jobs, ComesDue(rows) PROVE Begins
  BY <1>0, <1>6 DEF ComesDue, Row
<1> QED
  BY <1>1, <1>2, <1>3, <1>4, <1>5, <1>6 DEF Next, Turns, ClaimStep

LEMMA ForkStep ==
    ASSUME IInv, LateSession = FALSE, Next
    PROVE  NoForkAhead'
<1> DEFINE Ready(i) == job[i].sess \/ job[i].status = "RUNNING"
           Runs(i) == \/ job'[i].resume # job[i].resume
                      \/ job'[i].status = "RUNNING" /\ job[i].status # "RUNNING"
<1> SUFFICES ASSUME NEW i \in Jobs, NEW j \in Jobs, InLineOf(j, i)', job'[i].resume # None,
                    job'[i].sess \/ job'[i].status = "RUNNING", job'[j].sess
             PROVE  job'[i].resume # job'[j].resume
  BY DEF NoForkAhead
<1>1. InLineOf(j, i) /\ InLineOf(i, j) /\ i # j /\ ~job'[i].moved /\ ~job'[j].moved
  BY LinesShrink, LineIsSymmetric DEF InLineOf
<1>2. ~(job[i].status = "RUNNING" /\ job[j].status = "RUNNING")
  BY <1>1 DEF IInv, OneStartedTurn, HoldsLine
<1>3. CASE Runs(i)
  <2>1. Clear(i) /\ job'[j] = job[j] /\ job'[i].resume = ResolveResume(i)
    BY <1>1, <1>3, RunBegins
  <2> QED
    BY <1>1, <2>1, ResumeIsNew
<1>4. CASE Runs(j)
  <2>1. Clear(j) /\ job'[i] = job[i] /\ (job'[j].resume # None => job'[j].resume = ResolveResume(j))
    BY <1>1, <1>4, RunBegins
  <2>2. job[i].sess
    BY <1>1, <2>1 DEF Clear, HoldsLine
  <2> QED
    BY <1>1, <2>1, <2>2, ResumeIsNew
<1>5. CASE ~Runs(i) /\ ~Runs(j)
  <2>1. job'[i].resume = job[i].resume /\ job'[j].resume = job[j].resume
    BY <1>5
  <2>2. CASE ~job[j].sess
    <3>1. job[j].status = "RUNNING" /\ job'[i] = job[i]
      BY <1>1, <2>2, SessionBegins
    <3>2. job[i].sess
      BY <1>2, <3>1
    <3> QED
      BY <1>1, <2>1, <3>1, <3>2 DEF IInv, NoForkAhead
  <2>3. CASE job[j].sess
    <3>1. Ready(i)
      BY <1>5, SessionBegins
    <3> QED
      BY <1>1, <2>1, <2>3, <3>1 DEF IInv, NoForkAhead
  <2> QED
    BY <2>2, <2>3
<1> QED
  BY <1>3, <1>4, <1>5

\* The claims, one conjunct of the type invariant for all their steps.
ClaimTypes == claim \in [Consumers ->
    [pc : {"idle", "picked", "locked"}, job : Jobs \cup {None}, defer : BOOLEAN,
     detach : BOOLEAN, blocked : BOOLEAN]]

LEMMA TypeStep ==
    ASSUME IInv, Next
    PROVE  TypeOK'
<1>0. TypeOK /\ ClaimTypes /\ NoClaim \in [pc : {"idle", "picked", "locked"}, job : Jobs \cup {None},
                  defer : BOOLEAN, detach : BOOLEAN, blocked : BOOLEAN]
  BY DEF IInv, TypeOK, ClaimTypes, NoClaim
<1>1. ASSUME NEW c \in Consumers, NEW i \in Jobs, Pick(c, i) PROVE TypeOK'
  <2>1. PICK detach \in BOOLEAN, fails \in BOOLEAN :
          /\ claim' = [claim EXCEPT ![c] = [NoClaim EXCEPT !.pc = "picked", !.job = i,
                           !.detach = detach, !.defer = fails \/ ObserverDefers(i)]]
          /\ left' = IF fails THEN [left EXCEPT !.fault = @ - 1] ELSE left
          /\ fails => left.fault > 0
    BY <1>1 DEF Pick
  <2>2. (fails \/ ObserverDefers(i)) \in BOOLEAN
    BY DEF ObserverDefers
  <2>3. ClaimTypes'
    BY <1>0, <2>1, <2>2 DEF ClaimTypes, NoClaim
  <2>4. left' \in [retry : Nat, pause : Nat, fault : Nat]
    BY <1>0, <2>1 DEF TypeOK
  <2> QED
    BY <1>0, <1>1, <2>3, <2>4 DEF Pick, TypeOK, ClaimTypes
<1>2. ASSUME NEW c \in Consumers, LockThread(c) PROVE TypeOK'
  <2>1. claim[c].job \in Jobs
    BY <1>2, ClaimedRow DEF LockThread
  <2>2. PICK b \in BOOLEAN : claim' = [claim EXCEPT ![c].pc = "locked", ![c].blocked = b]
    BY <1>2 DEF LockThread
  <2>3. ClaimTypes'
    BY <1>0, <2>2 DEF ClaimTypes
  <2> QED
    BY <1>0, <1>2, <2>1, <2>3 DEF LockThread, TypeOK, ClaimTypes
<1>3. ASSUME NEW c \in Consumers, Defer(c) PROVE TypeOK'
  <2>1. claim[c].pc # "idle" /\ stretch' \in [Jobs -> Stretch]
    BY <1>3, DeferStep DEF Defer
  <2>2. PICK w \in 1..MaxWait : job' = [job EXCEPT ![claim[c].job] = [Placed(c) EXCEPT !.wait = w]]
    BY <1>3, DeferStep
  <2>3. job' \in [Jobs -> Row]
    BY <1>0, <2>1, <2>2, ClaimedRow DEF TypeOK, Row, MaxWait, DeferCeilingMs
  <2>4. ClaimTypes'
    BY <1>0, <1>3 DEF ClaimTypes, Defer
  <2> QED
    BY <1>0, <1>3, <2>1, <2>3, <2>4 DEF Defer, Unlock, TypeOK, ClaimTypes
<1>4. ASSUME NEW c \in Consumers, Start(c) PROVE TypeOK'
  <2>1. claim[c].pc # "idle"
    BY <1>4 DEF Start
  <2>2. PICK r \in Jobs \cup {None} : job' = [job EXCEPT ![claim[c].job] =
          [Placed(c) EXCEPT !.status = "RUNNING", !.started = TRUE, !.resume = r]]
    BY <1>4, StartStep
  <2>3. job' \in [Jobs -> Row]
    <3>1. [Placed(c) EXCEPT !.status = "RUNNING", !.started = TRUE, !.resume = r] \in Row
      BY <2>1, ClaimedRow DEF Row, Statuses
    <3> QED
      BY <1>0, <2>2, <3>1 DEF TypeOK
  <2>4. stretch' \in [Jobs -> Stretch]
    <3>1. claim[c].job \in Jobs
      BY <2>1, ClaimedRow
    <3>2. stretch[claim[c].job] \in Stretch
      BY <1>0, <3>1 DEF TypeOK
    <3>3. CloseStretch(stretch[claim[c].job]) \in Stretch
      <4>1. \A n \in 0..CountCap, x \in Stretch : [x EXCEPT !.open = FALSE, !.line = FALSE, !.count = n] \in Stretch
        BY DEF Stretch
      <4>2. 0 \in 0..CountCap
        BY DEF CountCap
      <4> QED
        BY <3>2, <4>1, <4>2 DEF CloseStretch
    <3>4. stretch' = [stretch EXCEPT ![claim[c].job] = CloseStretch(stretch[claim[c].job])]
      BY <1>4 DEF Start
    <3> QED
      BY <1>0, <3>3, <3>4 DEF TypeOK
  <2>5. ClaimTypes'
    BY <1>0, <1>4 DEF ClaimTypes, Start
  <2> QED
    BY <1>0, <1>4, <2>3, <2>4, <2>5 DEF Start, Unlock, TypeOK, ClaimTypes
<1>5. ASSUME NEW c \in Consumers, Rollback(c) PROVE TypeOK'
  <2>1. ClaimTypes'
    BY <1>0, <1>5 DEF ClaimTypes, Rollback
  <2> QED
    BY <1>0, <1>5, <2>1 DEF Rollback, Unlock, TypeOK, ClaimTypes
<1>6. ASSUME NEW i \in Jobs, TurnStep(i) PROVE TypeOK'
  <2>0. job \in [Jobs -> Row] /\ clock \in Nat
    BY <1>0 DEF TypeOK
  <2>1. 0 \in 0..MaxWait /\ 1 \in 0..MaxWait
    BY DEF MaxWait, DeferCeilingMs
  <2>2. job' \in [Jobs -> Row]
    <3>1. CASE Publish(i)
      <4>1. PICK wait \in 0..MaxWait : job' = [job EXCEPT ![i].status = "TODO", ![i].wait = wait]
        BY <2>1, <3>1 DEF Publish
      <4> QED
        BY <2>0, <4>1 DEF Row, Statuses
    <3>2. CASE SaveSession(i) \/ Finish(i) \/ Pause(i) \/ Resume(i)
      <4>1. CASE SaveSession(i)
        BY <2>0, <4>1 DEF SaveSession, Row
      <4>2. CASE Finish(i)
        <5>1. \A fin \in Nat : [job EXCEPT ![i].status = "DONE", ![i].fin = fin] \in [Jobs -> Row]
          BY <2>0 DEF Row, Statuses
        <5>2. clock + 1 \in Nat
          BY <2>0
        <5> QED
          BY <4>2, <5>1, <5>2 DEF Finish
      <4>3. CASE Pause(i)
        BY <2>0, <4>3 DEF Pause, Row, Statuses
      <4>4. CASE Resume(i)
        <5>1. PICK wait \in 0..MaxWait : job' = [job EXCEPT ![i].status = "TODO", ![i].wait = wait]
          BY <2>1, <4>4 DEF Resume
        <5> QED
          BY <2>0, <5>1 DEF Row, Statuses
      <4> QED
        BY <3>2, <4>1, <4>2, <4>3, <4>4
    <3>3. CASE Retry(i)
      <4>1. PICK fresh \in BOOLEAN :
              job' = [job EXCEPT ![i].status = "TODO", ![i].wait = 1, ![i].sess = @ /\ ~fresh]
        BY <3>3 DEF Retry
      <4>2. (job[i].sess /\ ~fresh) \in BOOLEAN
        OBVIOUS
      <4>3. \A wait \in 0..MaxWait, sess \in BOOLEAN :
              [job EXCEPT ![i].status = "TODO", ![i].wait = wait, ![i].sess = sess] \in [Jobs -> Row]
        BY <2>0 DEF Row, Statuses
      <4> QED
        BY <2>1, <4>1, <4>2, <4>3
    <3> QED
      BY <1>6, <3>1, <3>2, <3>3 DEF TurnStep
  <2>3. clock' \in Nat /\ left' \in [retry : Nat, pause : Nat, fault : Nat]
        /\ UNCHANGED <<stretch, claim, lock>>
    BY <1>0, <1>6 DEF TurnStep, Publish, SaveSession, Finish, Retry, Pause, Resume, TypeOK
  <2> QED
    BY <1>0, <2>2, <2>3 DEF TypeOK
<1>7. ASSUME NEW rows \in SUBSET Jobs, ComesDue(rows) PROVE TypeOK'
  <2>1. job' \in [Jobs -> Row]
    BY <1>0, <1>7 DEF ComesDue, TypeOK, Row, MaxWait, DeferCeilingMs
  <2> QED
    BY <1>0, <1>7, <2>1 DEF ComesDue, TypeOK
<1> QED
  BY <1>1, <1>2, <1>3, <1>4, <1>5, <1>6, <1>7 DEF Next, Turns, ClaimStep

LEMMA RowStep ==
    ASSUME IInv, Next, NEW i \in Jobs
    PROVE  RowOK(i)'
<1>0. /\ job \in [Jobs -> Row] /\ clock \in Nat /\ RowOK(i)
      /\ \A r \in Jobs : job[r].status = "DONE" => job'[r] = job[r]
      /\ \A r \in Jobs : job[r].fin <= clock
  BY RowsOnlyGrow DEF IInv, TypeOK, RowsOK, RowOK
<1>1. CASE \E c \in Consumers, k \in Jobs : Pick(c, k)
  BY <1>0, <1>1 DEF Pick, RowOK
<1>2. CASE \E c \in Consumers : LockThread(c) \/ Rollback(c)
  BY <1>0, <1>2 DEF LockThread, Rollback, RowOK
<1>3. ASSUME NEW c \in Consumers, Defer(c) PROVE RowOK(i)'
  <2>1. claim[c].pc # "idle" /\ clock' = clock
    BY <1>3 DEF Defer
  <2>2. PICK w \in 1..MaxWait : job' = [job EXCEPT ![claim[c].job] = [Placed(c) EXCEPT !.wait = w]]
    BY <1>3, DeferStep
  <2> QED
    BY <1>0, <2>1, <2>2, ClaimedRow DEF Row, RowOK
<1>4. ASSUME NEW c \in Consumers, Start(c) PROVE RowOK(i)'
  <2>1. claim[c].pc # "idle" /\ clock' = clock
    BY <1>4 DEF Start
  <2>2. PICK r \in Jobs \cup {None} :
          /\ job' = [job EXCEPT ![claim[c].job] =
               [Placed(c) EXCEPT !.status = "RUNNING", !.started = TRUE, !.resume = r]]
          /\ r # None => job[r].status = "DONE"
    BY <1>4, StartStep
  <2> QED
    BY <1>0, <2>1, <2>2, ClaimedRow DEF Row, RowOK
<1>5. ASSUME NEW k \in Jobs, Finish(k) PROVE RowOK(i)'
  BY <1>0, <1>5 DEF Finish, Row, RowOK
<1>6. ASSUME NEW k \in Jobs, Publish(k) \/ SaveSession(k) \/ Retry(k) \/ Pause(k) \/ Resume(k)
      PROVE  RowOK(i)'
  <2>1. /\ clock' = clock /\ \A j \in Jobs \ {k} : job'[j] = job[j]
        /\ job'[k].started = job[k].started /\ job'[k].resume = job[k].resume
        /\ job'[k].fin = job[k].fin /\ job'[k].status \notin {"DONE", "absent"}
        /\ job'[k].status \in {"RUNNING", "PAUSED"} => job[k].status \in {"RUNNING", "PAUSED"}
        /\ job'[k].sess => job[k].sess \/ job[k].status \in {"RUNNING", "PAUSED"}
    BY <1>0, <1>6 DEF Publish, SaveSession, Retry, Pause, Resume, Row
  <2>2. RowOK(k)
    BY DEF IInv, RowsOK
  <2> QED
    BY <1>0, <2>1, <2>2 DEF Row, RowOK
<1>7. ASSUME NEW rows \in SUBSET Jobs, ComesDue(rows) PROVE RowOK(i)'
  BY <1>0, <1>7 DEF ComesDue, Row, RowOK
<1> QED
  BY <1>1, <1>2, <1>3, <1>4, <1>5, <1>6, <1>7 DEF Next, Turns, ClaimStep, TurnStep

\* A claim that the step is not about is as it was, if its row still waits and it keeps the lock.
LEMMA ClaimUntouched ==
    ASSUME IInv, LateSession = FALSE, Next, NEW c \in Consumers, claim'[c] = claim[c],
           claim[c].pc # "idle" => /\ job'[claim[c].job].status = "TODO"
                                   /\ job'[claim[c].job].moved = job[claim[c].job].moved,
           lock = claim[c].job /\ claim[c].pc = "locked" => lock' = lock
    PROVE  ClaimOK(c)'
<1>1. ClaimOK(c)
  BY DEF IInv, ClaimsOK
<1>2. claim[c].pc # "idle" => claim[c].job \in Jobs /\ (Moved(c)' <=> Moved(c))
  BY ClaimedRow DEF Moved
<1>3. CASE claim[c].pc = "locked" /\ ~Moved(c)
  <2>1. lock = claim[c].job /\ claim[c].job \in Jobs /\ lock' = lock
    BY <1>1, <1>2, <1>3 DEF ClaimOK
  <2>2. ~claim[c].blocked => Clear(claim[c].job)
    BY <1>1, <1>3 DEF ClaimOK
  <2>3. ~claim[c].blocked => Clear(lock)'
    BY <2>1, <2>2, ClearStays
  <2> QED
    BY <1>1, <2>1, <2>3 DEF ClaimOK, Clear, InLineOf, HoldsLine
<1> QED
  BY <1>1, <1>2, <1>3 DEF ClaimOK

\* A line that does not block a waiting turn is clear: line_blocked looks at all that started.
LEMMA UnblockedIsClear ==
    ASSUME IInv, NEW i \in Jobs, job[i].status = "TODO", ~LineBlocked(i)
    PROVE  Clear(i)
<1> SUFFICES ASSUME NEW j \in Jobs, InLineOf(j, i), HoldsLine(j) PROVE FALSE
  BY DEF Clear
<1>1. ~GoesFirst(j, i)
  BY DEF LineBlocked
<1>2. job[i].started
  BY <1>1 DEF GoesFirst, HoldsLine
<1> QED
  BY <1>2 DEF IInv, OneStartedTurn, HoldsLine

LEMMA ClaimsStep ==
    ASSUME IInv, LateSession = FALSE, Next
    PROVE  ClaimsOK'
<1>0. ClaimTypes /\ ClaimsOK /\ job \in [Jobs -> Row] /\ None \notin Jobs
  BY JobsAssumption DEF IInv, TypeOK, ClaimTypes, None
<1>1. ASSUME NEW c \in Consumers, NEW i \in Jobs, Pick(c, i) PROVE ClaimsOK'
  <2>1. claim'[c].pc = "picked" /\ claim'[c].job = i /\ \A d \in Consumers \ {c} : claim'[d] = claim[d]
    BY <1>0, <1>1 DEF Pick, ClaimTypes, NoClaim
  <2>2. job' = job /\ lock' = lock /\ job[i].status = "TODO" /\ \A d \in Consumers : claim[d].job # i
    BY <1>1 DEF Pick, Offered, RowLocked
  <2>3. \A d \in Consumers : ClaimOK(d)'
    <3>1. ClaimOK(c)'
      BY <1>0, <2>1, <2>2 DEF ClaimOK
    <3>2. ASSUME NEW d \in Consumers \ {c} PROVE ClaimOK(d)'
      BY <1>0, <2>1, <2>2, ClaimedRow, ClaimUntouched
    <3> QED
      BY <3>1, <3>2
  <2> QED
    BY <1>0, <2>1, <2>2, <2>3 DEF ClaimsOK
<1>2. ASSUME NEW c \in Consumers, LockThread(c) PROVE ClaimsOK'
  <2> DEFINE i == claim[c].job
  <2>1. /\ claim'[c].pc = "locked" /\ claim'[c].job = i /\ claim'[c].detach = claim[c].detach
        /\ claim'[c].blocked = (~Moved(c) /\ LineBlocked(i))
        /\ \A d \in Consumers \ {c} : claim'[d] = claim[d]
        /\ job' = job
    BY <1>0, <1>2 DEF LockThread, ClaimTypes
  <2>2. i \in Jobs /\ job[i].status = "TODO"
    BY <1>2, ClaimedRow DEF LockThread
  <2>3. (Moved(c)' <=> Moved(c)) /\ (Clear(i) => Clear(i)')
    BY <2>1 DEF Moved, Clear, InLineOf, HoldsLine
  <2>4. ~Moved(c) => lock = None /\ lock' = i
    BY <1>2 DEF LockThread
  <2>5. Moved(c) => lock' = lock
    BY <1>2 DEF LockThread
  <2>6. ClaimOK(c)'
    BY <1>0, <2>1, <2>2, <2>3, <2>4, UnblockedIsClear DEF ClaimOK
  <2>7. ASSUME NEW d \in Consumers \ {c} PROVE ClaimOK(d)'
    <3>1. claim[d].pc # "idle" => claim[d].job \in Jobs /\ job[claim[d].job].status = "TODO"
      BY ClaimedRow
    <3> QED
      BY <1>0, <2>1, <2>4, <2>5, <3>1, ClaimUntouched
  <2> QED
    BY <1>0, <2>1, <2>6, <2>7 DEF ClaimsOK
<1>3. ASSUME NEW c \in Consumers, claim[c].pc # "idle", claim' = [claim EXCEPT ![c] = NoClaim],
             Unlock(claim[c].job), \A j \in Jobs \ {claim[c].job} : job'[j] = job[j]
      PROVE  ClaimsOK'
  <2>1. claim'[c] = NoClaim /\ \A d \in Consumers \ {c} : claim'[d] = claim[d]
    BY <1>0, <1>3 DEF ClaimTypes
  <2>2. ClaimOK(c)'
    BY <2>1 DEF ClaimOK, NoClaim
  <2>3. ASSUME NEW d \in Consumers \ {c} PROVE ClaimOK(d)'
    <3>1. claim[d].pc # "idle" =>
            claim[d].job \in Jobs /\ job[claim[d].job].status = "TODO" /\ claim[d].job # claim[c].job
      BY <1>0, <1>3, ClaimedRow DEF ClaimsOK
    <3>2. lock = claim[d].job /\ claim[d].pc = "locked" => lock' = lock
      BY <1>3, <3>1 DEF Unlock
    <3> QED
      BY <1>3, <2>1, <3>1, <3>2, ClaimUntouched
  <2> QED
    BY <1>0, <2>1, <2>2, <2>3 DEF ClaimsOK, NoClaim
<1>4. ASSUME NEW c \in Consumers, Defer(c) PROVE ClaimsOK'
  <2>1. claim[c].pc # "idle"
    BY <1>4 DEF Defer
  <2>2. PICK w \in 1..MaxWait : job' = [job EXCEPT ![claim[c].job] = [Placed(c) EXCEPT !.wait = w]]
    BY <1>4, DeferStep
  <2>3. \A j \in Jobs \ {claim[c].job} : job'[j] = job[j]
    BY <1>0, <2>2
  <2> QED
    BY <1>3, <1>4, <2>1, <2>3 DEF Defer
<1>5. ASSUME NEW c \in Consumers, Start(c) PROVE ClaimsOK'
  <2>1. claim[c].pc # "idle"
    BY <1>5 DEF Start
  <2>2. PICK r \in Jobs \cup {None} : job' = [job EXCEPT ![claim[c].job] =
          [Placed(c) EXCEPT !.status = "RUNNING", !.started = TRUE, !.resume = r]]
    BY <1>5, StartStep
  <2>3. \A j \in Jobs \ {claim[c].job} : job'[j] = job[j]
    BY <1>0, <2>2
  <2> QED
    BY <1>3, <1>5, <2>1, <2>3 DEF Start
<1>6. ASSUME NEW c \in Consumers, Rollback(c) PROVE ClaimsOK'
  BY <1>3, <1>6 DEF Rollback
<1>7. ASSUME claim' = claim, lock' = lock,
             \A i \in Jobs : job[i].status = "TODO" =>
                 job'[i].status = "TODO" /\ job'[i].moved = job[i].moved
      PROVE  ClaimsOK'
  <2>1. ASSUME NEW d \in Consumers PROVE ClaimOK(d)'
    BY <1>7, ClaimedRow, ClaimUntouched
  <2> QED
    BY <1>0, <1>7, <2>1 DEF ClaimsOK
<1>8. ASSUME NEW i \in Jobs, TurnStep(i) PROVE ClaimsOK'
  <2>1. claim' = claim /\ lock' = lock
    BY <1>8 DEF TurnStep, Publish, SaveSession, Finish, Retry, Pause, Resume
  <2>2. \A j \in Jobs : job[j].status = "TODO" => job'[j] = job[j]
    BY <1>0, <1>8 DEF TurnStep, Publish, SaveSession, Finish, Retry, Pause, Resume
  <2> QED
    BY <1>7, <2>1, <2>2
<1>9. ASSUME NEW rows \in SUBSET Jobs, ComesDue(rows) PROVE ClaimsOK'
  <2>1. \A j \in Jobs : job'[j].status = job[j].status /\ job'[j].moved = job[j].moved
    BY <1>0, <1>9 DEF ComesDue, Row
  <2> QED
    BY <1>7, <1>9, <2>1 DEF ComesDue
<1> QED
  BY <1>1, <1>2, <1>4, <1>5, <1>6, <1>8, <1>9 DEF Next, Turns, ClaimStep

LEMMA StepOK ==
    ASSUME IInv, LateSession = FALSE, [Next]_vars
    PROVE  IInv'
<1>1. CASE Next
  BY <1>1, TypeStep, RowStep, ClaimsStep, LineStep, ForkStep DEF IInv, RowsOK
<1>2. CASE UNCHANGED vars
  BY <1>2 DEF vars, IInv, TypeOK, RowsOK, RowOK, ClaimsOK, ClaimOK, Moved, Clear, OneStartedTurn,
     NoForkAhead, InLineOf, HoldsLine
<1> QED
  BY <1>1, <1>2

-----------------------------------------------------------------------------
(* The theorems *)

\* The invariant of a thread, when no session is filed after a pause.
THEOREM LineInvariance ==
    ASSUME LateSession = FALSE
    PROVE  Spec => []IInv
<1>1. Init => IInv
  BY InitOK
<1>2. IInv /\ [Next]_vars => IInv'
  BY StepOK
<1> QED
  BY <1>1, <1>2, PTL DEF Spec

\* At most one turn of a line has started and is not over (line_blocked under the thread lock).
THEOREM OneTurnAtATime ==
    ASSUME LateSession = FALSE
    PROVE  Spec => []OneStartedTurn
<1>1. IInv => OneStartedTurn
  BY DEF IInv
<1> QED
  BY <1>1, LineInvariance, PTL

\* Two turns of a line never continue the same earlier turn (resolve_resume).
THEOREM LinearSession ==
    ASSUME LateSession = FALSE
    PROVE  Spec => []SessionNeverForks
<1>1. IInv => SessionNeverForks
  BY DEF IInv, NoForkAhead, SessionNeverForks
<1> QED
  BY <1>1, LineInvariance, PTL
=============================================================================
