---------------------------- MODULE Host_proofs ----------------------------
(***************************************************************************)
(* Proofs about what the host does for the runs, for any operations, tags, *)
(* uids, builders, turns and bounds: one uid has one run and a signal      *)
(* reaches the run it is for (RunnerServer); what current names was        *)
(* written to the end or is gone (WorkspaceBuild); a run has its           *)
(* directories to its end (RunDirs); a saved pair of fields runs           *)
(* (ScopedConfig); and an upgrade goes in the order of the dependencies    *)
(* (SetupUpgrade).  The five share no state, and each part has an          *)
(* invariant of its own.                                                   *)
(***************************************************************************)
EXTENDS RunnerServer, WorkspaceBuild, RunDirs, ScopedConfig, SetupUpgrade, FiniteSetTheorems, TLAPS

-----------------------------------------------------------------------------
(* RunnerServer *)

(* The inductive invariant *)

OpSteps == {"none", "request", "slot", "note", "own", "spawn", "run", "kill", "return", "free",
          "unslot", "reply", "closed"}
OpRecord == [pc : OpSteps, uid : Uids \cup {0}, stopped : BOOLEAN, done : BOOLEAN,
            frame : {"none", "result", "error", "lost"}]

RunnerTypeOK ==
    /\ ops \in [Ops -> OpRecord]
    /\ free \in SUBSET Uids
    /\ tagUid \in [Tags -> Uids \cup {0}]
    /\ alive \in SUBSET (Ops \X Uids)
    /\ notes \in SUBSET (Uids \X Ops)
    /\ dirUid \in [Ops -> Uids \cup {0}]

OpBusy(o) == ops[o].pc \in {"note", "own", "spawn", "run", "kill", "return", "free"}

\* An operation has a hand on a uid while it holds it, has a process under it, or has a note
\* that its dir may be the uid's.
OpUses(o, u) ==
    \/ OpBusy(o) /\ ops[o].uid = u
    \/ <<o, u>> \in alive
    \/ <<u, o>> \in notes

\* Nobody shares a uid, a used one cannot be taken, and a tag leads to the user of its uid.
OpsApart ==
    /\ \A o \in Ops, u \in Uids : OpUses(o, u) => u \notin free
    /\ \A o, q \in Ops, u \in Uids : OpUses(o, u) /\ OpUses(q, u) => o = q
    /\ \A t \in Tags : tagUid[t] # 0 => tagUid[t] \notin free
    /\ \A t \in Tags, o \in Ops : tagUid[t] # 0 /\ OpUses(o, tagUid[t]) => TagOf[o] = t

\* The note is there for as long as the dir may be the uid's; the uid is given back only with
\* its processes and its note gone.
OpOK(o) ==
    /\ OpBusy(o) => ops[o].uid \in Uids
    /\ ops[o].pc \in {"own", "spawn", "run", "kill", "return"} => <<ops[o].uid, o>> \in notes
    /\ ops[o].pc = "return" => ops[o].stopped /\ ProcessesOf(ops[o].uid) = {}
    /\ ops[o].pc = "free" /\ ops[o].done =>
         ops[o].stopped /\ ProcessesOf(ops[o].uid) = {} /\ <<ops[o].uid, o>> \notin notes
    /\ dirUid[o] # 0 => <<dirUid[o], o>> \in notes

RunnerInv == RunnerTypeOK /\ OpsApart /\ \A o \in Ops : OpOK(o)

-----------------------------------------------------------------------------
(* Helpers *)

\* Giving up a hold, a process or a note, or taking a tag off, shares nothing.
LEMMA FewerUses ==
    ASSUME OpsApart, \A o \in Ops, u \in Uids : OpUses(o, u)' => OpUses(o, u),
           free' \subseteq free, tagUid \in [Tags -> Uids \cup {0}],
           \A t \in Tags : tagUid'[t] \in {tagUid[t], 0}
    PROVE  OpsApart'
<1>1. \A o \in Ops, u \in Uids : OpUses(o, u)' => u \notin free'
  BY DEF OpsApart
<1>2. \A o, q \in Ops, u \in Uids : OpUses(o, u)' /\ OpUses(q, u)' => o = q
  BY DEF OpsApart
<1>3. \A t \in Tags : tagUid'[t] # 0 => tagUid'[t] \notin free'
  BY DEF OpsApart
<1>4. ASSUME NEW t \in Tags, NEW o \in Ops, tagUid'[t] # 0 /\ OpUses(o, tagUid[t])'
      PROVE  TagOf[o] = t
  <2>1. PICK u \in Uids : tagUid[t] = u /\ tagUid'[t] = u
    BY <1>4
  <2>2. OpUses(o, u)'
    BY <1>4, <2>1 DEF OpUses
  <2> QED
    BY <1>4, <2>1, <2>2 DEF OpsApart
<1> QED
  BY <1>1, <1>2, <1>3, <1>4 DEF OpsApart

\* An operation that does not move keeps its note and its hold, and nothing runs under its uid
\* that did not before.
LEMMA OthersOK ==
    ASSUME NEW q \in Ops, OpOK(q), ops'[q] = ops[q], dirUid'[q] = dirUid[q],
           \A u : <<u, q>> \in notes' <=> <<u, q>> \in notes,
           \A p \in alive' : p \in alive \/ p[2] # ops[q].uid
    PROVE  OpOK(q)'
BY DEF OpOK, OpBusy, ProcessesOf

\* A step of an operation that only moves it on, with what it needs where it arrives.
LEMMA OpMoves ==
    ASSUME RunnerInv, NEW o \in Ops, NEW r \in OpRecord, ops' = [ops EXCEPT ![o] = r],
           r.pc \in {"note", "own", "spawn", "run", "kill", "return", "free"}
             => OpBusy(o) /\ r.uid = ops[o].uid,
           UNCHANGED <<free, tagUid>>, alive' \subseteq alive, notes' \subseteq notes,
           \A q \in Ops : \A u : q # o => (<<u, q>> \in notes' <=> <<u, q>> \in notes),
           dirUid' \in [Ops -> Uids \cup {0}], \A q \in Ops : q # o => dirUid'[q] = dirUid[q],
           OpOK(o)'
    PROVE  RunnerInv'
<1>1. ops'[o] = r /\ \A q \in Ops : q # o => ops'[q] = ops[q]
  BY DEF RunnerInv, RunnerTypeOK
<1>2. RunnerTypeOK'
  BY DEF RunnerInv, RunnerTypeOK
<1>3. OpsApart'
  <2>1. \A q \in Ops, u \in Uids : OpUses(q, u)' => OpUses(q, u)
    BY <1>1 DEF OpUses, OpBusy
  <2> QED
    BY <2>1, FewerUses DEF RunnerInv, RunnerTypeOK
<1>4. ASSUME NEW q \in Ops, q # o PROVE OpOK(q)'
  BY <1>1, <1>4, OthersOK DEF RunnerInv
<1> QED
  BY <1>2, <1>3, <1>4 DEF RunnerInv

\* The same of a step that leaves processes, notes and dirs alone as well, and of one operation
\* that has no uid in its hands afterwards.
LEMMA IdleOpMoves ==
    ASSUME RunnerInv, NEW o \in Ops, NEW r \in OpRecord, ops' = [ops EXCEPT ![o] = r],
           r.pc \in {"none", "request", "slot", "unslot", "reply", "closed"},
           UNCHANGED <<free, tagUid, alive, notes, dirUid>>
    PROVE  RunnerInv'
<1>1. ops'[o] = r
  BY DEF RunnerInv, RunnerTypeOK
<1>2. OpOK(o)'
  BY <1>1 DEF RunnerInv, OpOK, OpBusy
<1>3. dirUid' \in [Ops -> Uids \cup {0}]
  BY DEF RunnerInv, RunnerTypeOK
<1> QED
  BY <1>2, <1>3, OpMoves

-----------------------------------------------------------------------------
(* One lemma per action *)

LEMMA RunnerInitInv == RunnerInit => RunnerInv
<1> SUFFICES ASSUME RunnerInit PROVE RunnerInv
  OBVIOUS
<1>1. RunnerTypeOK
  BY DEF RunnerInit, RunnerTypeOK, OpRecord, OpSteps, Fresh
<1>2. \A o \in Ops : ~OpBusy(o)
  BY DEF RunnerInit, OpBusy, Fresh
<1>3. OpsApart
  BY <1>2 DEF RunnerInit, OpsApart, OpUses
<1>4. \A o \in Ops : OpOK(o)
  BY <1>2 DEF RunnerInit, OpOK, Fresh, OpBusy
<1> QED
  BY <1>1, <1>3, <1>4 DEF RunnerInv

LEMMA ConnectionKeeps ==
    ASSUME RunnerInv, NEW o \in Ops, Accept(o) \/ TakeSlot(o) \/ GiveSlot(o) \/ Reply(o)
    PROVE  RunnerInv'
<1>1. ops[o] \in OpRecord
  BY DEF RunnerInv, RunnerTypeOK
<1>2. UNCHANGED <<free, tagUid, alive, notes, dirUid>>
  BY DEF Accept, TakeSlot, GiveSlot, Reply
<1>3. PICK pc \in {"request", "closed", "slot", "reply"}, f \in {ops[o].frame, "lost", "error"} :
        ops' = [ops EXCEPT ![o] = [ops[o] EXCEPT !.pc = pc, !.frame = f]]
  <2>1. [ops[o] EXCEPT !.frame = ops[o].frame] = ops[o]
    BY <1>1 DEF OpRecord
  <2>2. \A pc : [ops[o] EXCEPT !.pc = pc] = [ops[o] EXCEPT !.pc = pc, !.frame = ops[o].frame]
    BY <1>1 DEF OpRecord
  <2>3. \E pc \in {"request", "closed", "slot", "reply"} :
            \/ ops' = [ops EXCEPT ![o] = [ops[o] EXCEPT !.pc = pc]]
            \/ \E f \in {"lost", "error"} : ops' = [ops EXCEPT ![o] = [ops[o] EXCEPT !.pc = pc, !.frame = f]]
    BY DEF Accept, TakeSlot, GiveSlot, Reply, Goto, RunnerInv, RunnerTypeOK
  <2> QED
    BY <2>2, <2>3
<1>4. [ops[o] EXCEPT !.pc = pc, !.frame = f] \in OpRecord
      /\ [ops[o] EXCEPT !.pc = pc, !.frame = f].pc = pc
  BY <1>1 DEF OpRecord, OpSteps
<1> QED
  BY <1>2, <1>3, <1>4, IdleOpMoves

LEMMA TakeUidKeeps ==
    ASSUME RunnerInv, NEW o \in Ops, TakeUid(o) PROVE RunnerInv'
<1>1. ops[o] \in OpRecord /\ ~OpBusy(o) /\ UNCHANGED <<alive, dirUid, notes>>
  BY DEF RunnerInv, RunnerTypeOK, TakeUid, OpBusy
<1>2. ASSUME UNCHANGED <<free, tagUid>>,
             ops' = [ops EXCEPT ![o] = [ops[o] EXCEPT !.pc = "unslot", !.frame = "error"]]
      PROVE  RunnerInv'
  <2>1. [ops[o] EXCEPT !.pc = "unslot", !.frame = "error"] \in OpRecord
        /\ [ops[o] EXCEPT !.pc = "unslot", !.frame = "error"].pc = "unslot"
    BY <1>1 DEF OpRecord, OpSteps
  <2> QED
    BY <1>1, <1>2, <2>1, IdleOpMoves
<1>3. ASSUME NEW u \in free, free' = free \ {u},
             ops' = [ops EXCEPT ![o] = [ops[o] EXCEPT !.pc = "note", !.uid = u]],
             tagUid' = [t \in Tags |-> IF t = TagOf[o] THEN u ELSE tagUid[t]]
      PROVE  RunnerInv'
  <2>0. u \in Uids /\ u # 0
    BY <1>3, UidsAssumption DEF RunnerInv, RunnerTypeOK
  <2>1. /\ ops'[o] = [ops[o] EXCEPT !.pc = "note", !.uid = u]
        /\ ops'[o] \in OpRecord /\ ops'[o].pc = "note" /\ ops'[o].uid = u
        /\ \A q \in Ops : q # o => ops'[q] = ops[q]
    BY <1>1, <1>3, <2>0 DEF RunnerInv, RunnerTypeOK, OpRecord, OpSteps
  <2>2. RunnerTypeOK'
    BY <1>1, <1>3, <2>0, <2>1 DEF RunnerInv, RunnerTypeOK
  <2>3. \A q \in Ops, v \in Uids : OpUses(q, v)' => OpUses(q, v) \/ (q = o /\ v = u)
    BY <1>1, <2>1 DEF OpUses, OpBusy
  <2>4. \A q \in Ops : ~OpUses(q, u)
    BY <1>3, <2>0 DEF RunnerInv, OpsApart
  <2>5. OpsApart'
    <3>1. \A q \in Ops, v \in Uids : OpUses(q, v)' => v \notin free'
      BY <1>3, <2>3 DEF RunnerInv, OpsApart
    <3>2. \A p, q \in Ops, v \in Uids : OpUses(p, v)' /\ OpUses(q, v)' => p = q
      BY <2>3, <2>4 DEF RunnerInv, OpsApart
    <3>3. \A t \in Tags : tagUid'[t] # 0 => tagUid'[t] \notin free'
      BY <1>3, <2>0 DEF RunnerInv, OpsApart
    <3>4. ASSUME NEW t \in Tags, NEW q \in Ops, NEW v \in Uids, tagUid'[t] = v, OpUses(q, v)'
          PROVE  TagOf[q] = t
      <4>1. CASE t = TagOf[o]
        BY <1>3, <2>3, <2>4, <3>4, <4>1
      <4>2. CASE t # TagOf[o]
        <5>1. tagUid[t] = v
          BY <1>3, <3>4, <4>2
        <5>2. v # u
          BY <1>3, <2>0, <5>1 DEF RunnerInv, OpsApart
        <5>3. OpUses(q, v) /\ v # 0
          BY <2>3, <3>4, <5>2, UidsAssumption
        <5> QED
          BY <5>1, <5>3 DEF RunnerInv, OpsApart
      <4> QED
        BY <4>1, <4>2
    <3>5. \A t \in Tags, q \in Ops : tagUid'[t] # 0 /\ OpUses(q, tagUid[t])' => TagOf[q] = t
      <4> SUFFICES ASSUME NEW t \in Tags, NEW q \in Ops, tagUid'[t] # 0, OpUses(q, tagUid[t])'
                   PROVE  TagOf[q] = t
        OBVIOUS
      <4>1. PICK v \in Uids : tagUid'[t] = v
        BY <2>2 DEF RunnerTypeOK
      <4>2. OpUses(q, v)'
        BY <4>1 DEF OpUses
      <4> QED
        BY <3>4, <4>1, <4>2
    <3> QED
      BY <3>1, <3>2, <3>3, <3>5 DEF OpsApart
  <2>6. OpOK(o)'
    BY <1>1, <2>0, <2>1 DEF RunnerInv, OpOK, OpBusy
  <2>7. ASSUME NEW q \in Ops, q # o PROVE OpOK(q)'
    BY <1>1, <2>1, <2>7, OthersOK DEF RunnerInv
  <2> QED
    BY <2>2, <2>5, <2>6, <2>7 DEF RunnerInv
<1>4. \/ \E u \in free : /\ free' = free \ {u}
                         /\ ops' = [ops EXCEPT ![o] = [ops[o] EXCEPT !.pc = "note", !.uid = u]]
                         /\ tagUid' = [t \in Tags |-> IF t = TagOf[o] THEN u ELSE tagUid[t]]
      \/ /\ UNCHANGED <<free, tagUid>>
         /\ ops' = [ops EXCEPT ![o] = [ops[o] EXCEPT !.pc = "unslot", !.frame = "error"]]
  <2>1. ASSUME NEW u \in free
        PROVE  [ops EXCEPT ![o].pc = "note", ![o].uid = u]
                = [ops EXCEPT ![o] = [ops[o] EXCEPT !.pc = "note", !.uid = u]]
    BY DEF RunnerInv, RunnerTypeOK
  <2>2. [ops EXCEPT ![o].pc = "unslot", ![o].frame = "error"]
          = [ops EXCEPT ![o] = [ops[o] EXCEPT !.pc = "unslot", !.frame = "error"]]
    BY DEF RunnerInv, RunnerTypeOK
  <2>3. \A u \in free : ops' = [ops EXCEPT ![o].pc = "note", ![o].uid = u]
          => ops' = [ops EXCEPT ![o] = [ops[o] EXCEPT !.pc = "note", !.uid = u]]
    BY <2>1
  <2>4. ops' = [ops EXCEPT ![o].pc = "unslot", ![o].frame = "error"]
          => ops' = [ops EXCEPT ![o] = [ops[o] EXCEPT !.pc = "unslot", !.frame = "error"]]
    BY <2>2
  <2>5. CASE \E u \in free : /\ free' = free \ {u}
                            /\ ops' = [ops EXCEPT ![o].pc = "note", ![o].uid = u]
                            /\ tagUid' = [t \in Tags |-> IF t = TagOf[o] THEN u ELSE tagUid[t]]
    BY <2>3, <2>5
  <2> QED
    BY <2>4, <2>5 DEF TakeUid
<1> QED
  BY <1>2, <1>3, <1>4

LEMMA WriteNoteKeeps ==
    ASSUME RunnerInv, NEW o \in Ops, WriteNote(o) PROVE RunnerInv'
<1> DEFINE u == ops[o].uid
<1>1. ops[o] \in OpRecord /\ OpBusy(o) /\ u \in Uids /\ ops[o].pc = "note"
  BY DEF RunnerInv, RunnerTypeOK, WriteNote, OpBusy, OpOK
<1>2. /\ ops' = [ops EXCEPT ![o] = [ops[o] EXCEPT !.pc = "own"]] /\ notes' = notes \cup {<<u, o>>}
      /\ UNCHANGED <<free, tagUid, alive, dirUid>>
  BY DEF WriteNote, Goto, RunnerInv, RunnerTypeOK
<1>3. /\ ops'[o] \in OpRecord /\ ops'[o].pc = "own" /\ ops'[o].uid = u
      /\ \A q \in Ops : q # o => ops'[q] = ops[q]
  BY <1>1, <1>2 DEF RunnerInv, RunnerTypeOK, OpRecord, OpSteps
<1>4. RunnerTypeOK'
  BY <1>1, <1>2, <1>3 DEF RunnerInv, RunnerTypeOK
<1>5. OpsApart'
  <2>1. \A q \in Ops, v \in Uids : OpUses(q, v)' => OpUses(q, v)
    BY <1>1, <1>2, <1>3 DEF OpUses, OpBusy
  <2> QED
    BY <1>2, <2>1, FewerUses DEF RunnerInv, RunnerTypeOK
<1>6. OpOK(o)'
  <2>1. <<u, o>> \in notes'
    BY <1>2
  <2>2. dirUid'[o] # 0 => <<dirUid'[o], o>> \in notes'
    BY <1>2 DEF RunnerInv, OpOK
  <2> QED
    BY <1>1, <1>3, <2>1, <2>2 DEF OpOK, OpBusy
<1>7. ASSUME NEW q \in Ops, q # o PROVE OpOK(q)'
  BY <1>2, <1>3, <1>7, OthersOK DEF RunnerInv
<1> QED
  BY <1>4, <1>5, <1>6, <1>7 DEF RunnerInv

LEMMA OwnDirKeeps ==
    ASSUME RunnerInv, NEW o \in Ops, OwnDir(o) PROVE RunnerInv'
<1> DEFINE u == ops[o].uid
<1>1. /\ ops[o] \in OpRecord /\ OpBusy(o) /\ u \in Uids /\ <<u, o>> \in notes
      /\ UNCHANGED <<free, tagUid, alive, notes>>
  BY DEF RunnerInv, RunnerTypeOK, OwnDir, OpBusy, OpOK
<1>2. dirUid' = dirUid \/ dirUid' = [dirUid EXCEPT ![o] = u]
  BY DEF OwnDir
<1>3. /\ dirUid' \in [Ops -> Uids \cup {0}] /\ dirUid'[o] \in {dirUid[o], u}
      /\ \A q \in Ops : q # o => dirUid'[q] = dirUid[q]
  BY <1>1, <1>2 DEF RunnerInv, RunnerTypeOK
<1>4. PICK r \in OpRecord :
        r.pc \in {"spawn", "kill"} /\ r.uid = u /\ ops' = [ops EXCEPT ![o] = r]
  <2>1. /\ [ops[o] EXCEPT !.pc = "spawn"] \in OpRecord
        /\ [ops[o] EXCEPT !.pc = "spawn"].pc = "spawn" /\ [ops[o] EXCEPT !.pc = "spawn"].uid = u
    BY <1>1 DEF OpRecord, OpSteps
  <2>2. /\ [ops[o] EXCEPT !.pc = "kill", !.frame = "error"] \in OpRecord
        /\ [ops[o] EXCEPT !.pc = "kill", !.frame = "error"].pc = "kill"
        /\ [ops[o] EXCEPT !.pc = "kill", !.frame = "error"].uid = u
    BY <1>1 DEF OpRecord, OpSteps
  <2>3. \/ ops' = [ops EXCEPT ![o] = [ops[o] EXCEPT !.pc = "spawn"]]
        \/ ops' = [ops EXCEPT ![o] = [ops[o] EXCEPT !.pc = "kill", !.frame = "error"]]
    BY DEF OwnDir, Goto, RunnerInv, RunnerTypeOK
  <2> QED
    BY <2>1, <2>2, <2>3
<1>5. ops'[o] = r
  BY <1>4 DEF RunnerInv, RunnerTypeOK
<1>6. OpOK(o)'
  BY <1>1, <1>3, <1>4, <1>5 DEF RunnerInv, OpOK, OpBusy
<1> QED
  BY <1>1, <1>3, <1>4, <1>6, OpMoves

\* The first process of a run starts under a uid that only the run uses.
LEMMA SpawnKeeps ==
    ASSUME RunnerInv, NEW o \in Ops, Spawn(o) PROVE RunnerInv'
<1> DEFINE u == ops[o].uid
<1>1. /\ ops[o] \in OpRecord /\ OpBusy(o) /\ u \in Uids /\ <<u, o>> \in notes
      /\ UNCHANGED <<free, tagUid, dirUid, notes>>
  BY DEF RunnerInv, RunnerTypeOK, Spawn, OpBusy, OpOK
<1>2. /\ ops' = [ops EXCEPT ![o] = [ops[o] EXCEPT !.pc = "run"]]
      /\ alive' = alive \cup {<<o, u>>}
  BY DEF Spawn, Goto, RunnerInv, RunnerTypeOK
<1>3. /\ ops'[o] \in OpRecord /\ ops'[o].pc = "run" /\ ops'[o].uid = u
      /\ \A q \in Ops : q # o => ops'[q] = ops[q]
  BY <1>1, <1>2 DEF RunnerInv, RunnerTypeOK, OpRecord, OpSteps
<1>4. RunnerTypeOK'
  BY <1>1, <1>2, <1>3 DEF RunnerInv, RunnerTypeOK
<1>5. OpsApart'
  <2>1. \A q \in Ops, v \in Uids : OpUses(q, v)' => OpUses(q, v)
    BY <1>1, <1>2, <1>3 DEF OpUses, OpBusy
  <2> QED
    BY <1>1, <2>1, FewerUses DEF RunnerInv, RunnerTypeOK
<1>6. OpOK(o)'
  BY <1>1, <1>3 DEF RunnerInv, OpOK, OpBusy
<1>7. ASSUME NEW q \in Ops, q # o PROVE OpOK(q)'
  <2>1. CASE OpBusy(q)
    <3>1. OpUses(q, ops[q].uid) /\ OpUses(o, u) /\ ops[q].uid \in Uids
      BY <1>1, <2>1 DEF RunnerInv, OpOK, OpUses
    <3>2. ops[q].uid # u
      BY <1>1, <1>7, <3>1 DEF RunnerInv, OpsApart
    <3> QED
      BY <1>1, <1>2, <1>3, <1>7, <3>2, OthersOK DEF RunnerInv
  <2>2. CASE ~OpBusy(q)
    BY <1>1, <1>3, <1>7, <2>2 DEF RunnerInv, OpOK, OpBusy
  <2> QED
    BY <2>1, <2>2
<1> QED
  BY <1>4, <1>5, <1>6, <1>7 DEF RunnerInv

LEMMA ChildEndsKeeps ==
    ASSUME RunnerInv, NEW o \in Ops, ChildEnds(o) PROVE RunnerInv'
<1>1. /\ ops[o] \in OpRecord /\ OpBusy(o) /\ <<ops[o].uid, o>> \in notes
      /\ UNCHANGED <<free, tagUid, notes, dirUid>> /\ alive' \subseteq alive
  BY DEF RunnerInv, RunnerTypeOK, ChildEnds, OpBusy, OpOK
<1>2. PICK f \in {"result", "error"} :
        ops' = [ops EXCEPT ![o] = [ops[o] EXCEPT !.pc = "kill", !.frame = f]]
  BY DEF ChildEnds, RunnerInv, RunnerTypeOK
<1> DEFINE r == [ops[o] EXCEPT !.pc = "kill", !.frame = f]
<1>3. r \in OpRecord /\ r.pc = "kill" /\ r.uid = ops[o].uid /\ ops' = [ops EXCEPT ![o] = r]
  BY <1>1, <1>2 DEF OpRecord, OpSteps
<1> HIDE DEF r
<1>4. ops'[o] = r
  BY <1>3 DEF RunnerInv, RunnerTypeOK
<1>5. OpOK(o)'
  BY <1>1, <1>3, <1>4 DEF RunnerInv, OpOK, OpBusy
<1>6. dirUid' \in [Ops -> Uids \cup {0}]
  BY <1>1 DEF RunnerInv, RunnerTypeOK
<1> QED
  BY <1>1, <1>3, <1>5, <1>6, OpMoves

LEMMA KillAllKeeps ==
    ASSUME RunnerInv, NEW o \in Ops, KillAll(o) PROVE RunnerInv'
<1> DEFINE u == ops[o].uid
<1>1. /\ ops[o] \in OpRecord /\ OpBusy(o) /\ <<u, o>> \in notes
      /\ UNCHANGED <<free, tagUid, notes, dirUid>> /\ alive' \subseteq alive
  BY DEF RunnerInv, RunnerTypeOK, KillAll, OpBusy, OpOK, ProcessesOf
<1>2. PICK r \in OpRecord : /\ r.uid = u /\ ops' = [ops EXCEPT ![o] = r]
                           /\ \/ r.pc = "return" /\ r.stopped /\ r.done /\ alive' = alive \ ProcessesOf(u)
                              \/ r.pc = "free" /\ ~r.done
  <2> DEFINE a == [ops[o] EXCEPT !.pc = "return", !.stopped = TRUE, !.done = TRUE]
             b == [ops[o] EXCEPT !.pc = "free", !.stopped = FALSE, !.done = FALSE]
  <2>1. a \in OpRecord /\ a.uid = u /\ a.pc = "return" /\ a.stopped /\ a.done
    BY <1>1 DEF OpRecord, OpSteps
  <2>2. b \in OpRecord /\ b.uid = u /\ b.pc = "free" /\ ~b.done
    BY <1>1 DEF OpRecord, OpSteps
  <2>3. \/ ops' = [ops EXCEPT ![o] = a] /\ alive' = alive \ ProcessesOf(u)
        \/ ops' = [ops EXCEPT ![o] = b]
    BY DEF KillAll, RunnerInv, RunnerTypeOK
  <2> HIDE DEF a, b
  <2> QED
    BY <2>1, <2>2, <2>3
<1>3. ops'[o] = r
  BY <1>2 DEF RunnerInv, RunnerTypeOK
<1>4. r.pc = "return" => ProcessesOf(r.uid)' = {}
  BY <1>2, <1>3 DEF ProcessesOf
<1>5. OpOK(o)'
  BY <1>1, <1>2, <1>3, <1>4 DEF RunnerInv, OpOK, OpBusy, ProcessesOf
<1>6. dirUid' \in [Ops -> Uids \cup {0}]
  BY <1>1 DEF RunnerInv, RunnerTypeOK
<1> QED
  BY <1>1, <1>2, <1>5, <1>6, OpMoves

LEMMA ReturnDirKeeps ==
    ASSUME RunnerInv, NEW o \in Ops, ReturnDir(o) PROVE RunnerInv'
<1> DEFINE u == ops[o].uid
<1>1. /\ ops[o] \in OpRecord /\ OpBusy(o) /\ u \in Uids /\ ops[o].stopped /\ ProcessesOf(u) = {} /\ ops[o].pc = "return"
      /\ UNCHANGED <<free, tagUid, alive>>
  BY DEF RunnerInv, RunnerTypeOK, ReturnDir, OpBusy, OpOK
<1>2. CASE UNCHANGED <<dirUid, notes>>
           /\ ops' = [ops EXCEPT ![o] = [ops[o] EXCEPT !.pc = "free", !.done = FALSE]]
  <2> DEFINE r == [ops[o] EXCEPT !.pc = "free", !.done = FALSE]
  <2>1. r \in OpRecord /\ r.pc = "free" /\ r.uid = u /\ ~r.done /\ ops' = [ops EXCEPT ![o] = r]
    BY <1>1, <1>2 DEF OpRecord, OpSteps
  <2> HIDE DEF r
  <2>2. ops'[o] = r
    BY <2>1 DEF RunnerInv, RunnerTypeOK
  <2>3. OpOK(o)'
    BY <1>1, <1>2, <2>1, <2>2 DEF RunnerInv, OpOK, OpBusy
  <2>4. dirUid' \in [Ops -> Uids \cup {0}]
    BY <1>2 DEF RunnerInv, RunnerTypeOK
  <2> QED
    BY <1>1, <1>2, <2>1, <2>3, <2>4, OpMoves
<1>3. CASE /\ ops' = [ops EXCEPT ![o] = [ops[o] EXCEPT !.pc = "free"]]
           /\ dirUid' = [dirUid EXCEPT ![o] = 0] /\ notes' = notes \ {<<u, o>>}
  <2> DEFINE r == [ops[o] EXCEPT !.pc = "free"]
  <2>1. r \in OpRecord /\ r.pc = "free" /\ r.uid = u /\ r.stopped /\ ops' = [ops EXCEPT ![o] = r]
    BY <1>1, <1>3 DEF OpRecord, OpSteps
  <2> HIDE DEF r
  <2>2. ops'[o] = r
    BY <2>1 DEF RunnerInv, RunnerTypeOK
  <2>3. /\ dirUid' \in [Ops -> Uids \cup {0}] /\ dirUid'[o] = 0
        /\ \A q \in Ops : q # o => dirUid'[q] = dirUid[q]
    BY <1>3 DEF RunnerInv, RunnerTypeOK
  <2>4. <<u, o>> \notin notes' /\ ProcessesOf(u)' = {}
    BY <1>1, <1>3, <2>1, <2>2 DEF ProcessesOf
  <2>5. OpOK(o)'
    BY <1>1, <2>1, <2>2, <2>3, <2>4 DEF OpOK, OpBusy
  <2>6. \A q \in Ops : \A v : q # o => (<<v, q>> \in notes' <=> <<v, q>> \in notes)
    BY <1>3
  <2> QED
    BY <1>1, <1>3, <2>1, <2>3, <2>5, <2>6, OpMoves
<1> QED
  BY <1>2, <1>3 DEF ReturnDir, Goto, RunnerInv, RunnerTypeOK

\* The uid goes back only when nothing uses it any more.
LEMMA FreeUidKeeps ==
    ASSUME RunnerInv, NEW o \in Ops, FreeUid(o) PROVE RunnerInv'
<1>0. PICK u \in Uids : u = ops[o].uid
  BY DEF RunnerInv, FreeUid, OpOK, OpBusy
<1> DEFINE r == [ops[o] EXCEPT !.pc = "unslot", !.frame = IF ops[o].done THEN @ ELSE "error"]
<1>1. /\ ops[o] \in OpRecord /\ OpBusy(o) /\ u = ops[o].uid /\ ops[o].pc = "free"
      /\ UNCHANGED <<alive, dirUid, notes>>
      /\ tagUid' = [t \in Tags |-> IF t = TagOf[o] /\ ops[o].stopped THEN 0 ELSE tagUid[t]]
      /\ free' = IF ops[o].done THEN free \cup {u} ELSE free
  BY <1>0 DEF RunnerInv, RunnerTypeOK, FreeUid, OpBusy
<1>2. r \in OpRecord /\ r.pc = "unslot"
  BY <1>1 DEF OpRecord, OpSteps
<1>3. ops' = [ops EXCEPT ![o] = r]
  BY DEF FreeUid, RunnerInv, RunnerTypeOK
<1> HIDE DEF r
<1>4. ops'[o] = r /\ \A q \in Ops : q # o => ops'[q] = ops[q]
  BY <1>3 DEF RunnerInv, RunnerTypeOK
<1>5. RunnerTypeOK'
  BY <1>1, <1>2, <1>3 DEF RunnerInv, RunnerTypeOK
<1>6. \A q \in Ops, v \in Uids : OpUses(q, v)' => OpUses(q, v)
  BY <1>1, <1>2, <1>4 DEF OpUses, OpBusy
<1>7. OpsApart'
  <2>1. CASE ~ops[o].done
    BY <1>1, <1>6, <2>1, FewerUses DEF RunnerInv, RunnerTypeOK
  <2>2. CASE ops[o].done
    <3>1. ops[o].stopped /\ ProcessesOf(u) = {} /\ <<u, o>> \notin notes
      BY <1>1, <2>2 DEF RunnerInv, OpOK
    <3>2. OpUses(o, u)
      BY <1>1 DEF OpUses
    <3>3. ASSUME NEW q \in Ops PROVE ~OpUses(q, u)'
      <4>1. CASE q = o
        <5>1. <<o, u>> \notin alive'
          BY <1>1, <3>1 DEF ProcessesOf
        <5> QED
          BY <1>1, <1>2, <1>4, <3>1, <4>1, <5>1 DEF OpUses, OpBusy
      <4>2. CASE q # o
        <5>1. ~OpUses(q, u)
          BY <1>1, <3>2, <4>2 DEF RunnerInv, OpsApart
        <5> QED
          BY <1>1, <1>4, <4>2, <5>1 DEF OpUses, OpBusy
      <4> QED
        BY <4>1, <4>2
    <3>4. ASSUME NEW t \in Tags PROVE tagUid'[t] # u
      <4>1. CASE t = TagOf[o]
        BY <1>1, <3>1, <4>1, UidsAssumption
      <4>2. CASE t # TagOf[o]
        BY <1>1, <3>2, <4>2, UidsAssumption DEF RunnerInv, OpsApart
      <4> QED
        BY <4>1, <4>2
    <3>5. \A q \in Ops, v \in Uids : OpUses(q, v)' => v \notin free'
      BY <1>1, <1>6, <2>2, <3>3 DEF RunnerInv, OpsApart
    <3>6. \A q, p \in Ops, v \in Uids : OpUses(q, v)' /\ OpUses(p, v)' => q = p
      BY <1>6 DEF RunnerInv, OpsApart
    <3>7. \A t \in Tags : tagUid'[t] # 0 => tagUid'[t] = tagUid[t] /\ tagUid'[t] \notin free'
      BY <1>1, <2>2, <3>4 DEF RunnerInv, OpsApart
    <3>8. ASSUME NEW t \in Tags, NEW q \in Ops, tagUid'[t] # 0 /\ OpUses(q, tagUid[t])'
          PROVE  TagOf[q] = t
      <4>1. PICK v \in Uids : tagUid'[t] = v /\ tagUid[t] = v
        BY <3>7, <3>8 DEF RunnerInv, RunnerTypeOK
      <4>2. OpUses(q, v)
        BY <1>6, <3>8, <4>1 DEF OpUses
      <4> QED
        BY <3>8, <4>1, <4>2 DEF RunnerInv, OpsApart
    <3> QED
      BY <3>5, <3>6, <3>7, <3>8 DEF OpsApart
  <2> QED
    BY <2>1, <2>2
<1>8. OpOK(o)'
  BY <1>1, <1>2, <1>4 DEF RunnerInv, OpOK, OpBusy
<1>9. ASSUME NEW q \in Ops, q # o PROVE OpOK(q)'
  BY <1>1, <1>4, <1>9, OthersOK DEF RunnerInv
<1> QED
  BY <1>5, <1>7, <1>8, <1>9 DEF RunnerInv

\* Processes that end, by a signal or by themselves, take nothing from anybody.
LEMMA ProcessesEnd ==
    ASSUME RunnerInv, alive' \subseteq alive, UNCHANGED <<ops, free, tagUid, dirUid, notes>>
    PROVE  RunnerInv'
<1>1. RunnerTypeOK'
  BY DEF RunnerInv, RunnerTypeOK
<1>2. OpsApart'
  <2>1. \A q \in Ops, v \in Uids : OpUses(q, v)' => OpUses(q, v)
    BY DEF OpUses, OpBusy
  <2> QED
    BY <2>1, FewerUses DEF RunnerInv, RunnerTypeOK
<1>3. ASSUME NEW q \in Ops PROVE OpOK(q)'
  BY OthersOK DEF RunnerInv
<1> QED
  BY <1>1, <1>2, <1>3 DEF RunnerInv

\* After a restart nobody runs, and a uid that is missing from the pool has a note.
LEMMA RestartKeeps ==
    ASSUME RunnerInv, Restart PROVE RunnerInv'
<1>1. PICK lame \in SUBSET notes :
        /\ dirUid' = [o \in Ops |-> IF \E n \in notes \ lame : n[2] = o THEN 0 ELSE dirUid[o]]
        /\ notes' = lame
        /\ free' = Uids \ {n[1] : n \in lame}
  BY DEF Restart
<1>2. /\ alive' = {} /\ tagUid' = [t \in Tags |-> 0]
      /\ ops' = [o \in Ops |-> IF ops[o].pc \in {"none", "closed"} THEN ops[o]
                               ELSE [ops[o] EXCEPT !.pc = "closed", !.frame = "lost"]]
  BY DEF Restart
<1>3. ASSUME NEW o \in Ops
      PROVE  ops'[o] \in OpRecord /\ ops'[o].pc \in {"none", "closed"}
  <2>1. ops[o] \in OpRecord
    BY DEF RunnerInv, RunnerTypeOK
  <2> QED
    BY <1>2, <2>1 DEF OpRecord, OpSteps
<1>4. RunnerTypeOK'
  <2>1. ops' \in [Ops -> OpRecord]
    BY <1>2, <1>3
  <2>2. dirUid' \in [Ops -> Uids \cup {0}]
    BY <1>1 DEF RunnerInv, RunnerTypeOK
  <2> QED
    BY <1>1, <1>2, <2>1, <2>2 DEF RunnerInv, RunnerTypeOK
<1>5. \A q \in Ops, v \in Uids : OpUses(q, v)' => <<v, q>> \in lame /\ OpUses(q, v)
  BY <1>1, <1>2, <1>3 DEF OpUses, OpBusy
<1>6. OpsApart'
  <2>1. \A q \in Ops, v \in Uids : OpUses(q, v)' => v \notin free'
    <3>1. \A n \in lame : n[1] \notin free'
      BY <1>1
    <3>2. ASSUME NEW q \in Ops, NEW v \in Uids, OpUses(q, v)' PROVE v \notin free'
      <4>1. <<v, q>> \in lame /\ <<v, q>>[1] = v
        BY <1>5, <3>2
      <4> QED
        BY <3>1, <4>1
    <3> QED
      BY <3>2
  <2>2. \A q, p \in Ops, v \in Uids : OpUses(q, v)' /\ OpUses(p, v)' => q = p
    BY <1>5 DEF RunnerInv, OpsApart
  <2>3. \A t \in Tags : tagUid'[t] = 0
    BY <1>2
  <2> QED
    BY <2>1, <2>2, <2>3 DEF OpsApart
<1>7. ASSUME NEW o \in Ops PROVE OpOK(o)'
  <2>1. dirUid'[o] # 0 => <<dirUid'[o], o>> \in notes'
    <3>1. SUFFICES ASSUME dirUid'[o] # 0 PROVE <<dirUid'[o], o>> \in notes'
      OBVIOUS
    <3>2. ~(\E n \in notes \ lame : n[2] = o) /\ dirUid'[o] = dirUid[o]
      BY <1>1, <3>1
    <3>3. <<dirUid[o], o>> \in notes /\ <<dirUid[o], o>>[2] = o
      BY <3>1, <3>2 DEF RunnerInv, OpOK
    <3> QED
      BY <1>1, <3>2, <3>3
  <2> QED
    BY <1>3, <2>1 DEF OpOK, OpBusy
<1> QED
  BY <1>4, <1>6, <1>7 DEF RunnerInv

-----------------------------------------------------------------------------
(* The theorems *)

LEMMA RunnerKeeps == RunnerInv /\ [RunnerNext]_runnerVars => RunnerInv'
<1> SUFFICES ASSUME RunnerInv, [RunnerNext]_runnerVars PROVE RunnerInv'
  OBVIOUS
<1>1. CASE UNCHANGED runnerVars
  BY <1>1, ProcessesEnd DEF runnerVars
<1>2. ASSUME NEW o \in Ops,
             \/ Accept(o) \/ TakeSlot(o) \/ TakeUid(o) \/ WriteNote(o) \/ OwnDir(o)
             \/ Spawn(o) \/ ChildEnds(o) \/ KillAll(o) \/ ReturnDir(o) \/ FreeUid(o)
             \/ GiveSlot(o) \/ Reply(o)
      PROVE  RunnerInv'
  BY <1>2, ConnectionKeeps, TakeUidKeeps, WriteNoteKeeps, OwnDirKeeps, SpawnKeeps, ChildEndsKeeps,
     KillAllKeeps, ReturnDirKeeps, FreeUidKeeps
<1>3. ASSUME NEW p \in alive, SurvivorEnds(p) PROVE RunnerInv'
  BY <1>3, ProcessesEnd DEF SurvivorEnds
<1>4. ASSUME NEW t \in Tags, Signal(t) PROVE RunnerInv'
  BY <1>4, ProcessesEnd DEF Signal
<1>5. CASE Restart
  BY <1>5, RestartKeeps
<1> QED
  BY <1>1, <1>2, <1>3, <1>4, <1>5 DEF RunnerNext

\* Who is among the live processes uses the uid of the pair.
LEMMA LiveUses ==
    ASSUME RunnerTypeOK, NEW p \in alive
    PROVE  p[1] \in Ops /\ p[2] \in Uids /\ OpUses(p[1], p[2])
BY DEF RunnerTypeOK, OpUses

\* A uid has one run, and one that can be taken has neither a process nor a run dir, however
\* cleanups fail and servers restart (uids.py:1-13).
THEOREM OneRunPerUid == RunnerSpec => []UidIsolation
<1>1. ASSUME RunnerInv PROVE UidIsolation
  <2>1. \A p, q \in alive : p[2] = q[2] => p[1] = q[1]
    BY <1>1, LiveUses DEF RunnerInv, OpsApart
  <2>2. ASSUME NEW u \in free PROVE ProcessesOf(u) = {}
    BY <1>1, LiveUses DEF RunnerInv, OpsApart, ProcessesOf
  <2>3. ASSUME NEW u \in free, NEW o \in Ops PROVE dirUid[o] # u
    <3>1. u \in Uids /\ u # 0
      BY <1>1, UidsAssumption DEF RunnerInv, RunnerTypeOK
    <3>2. dirUid[o] = u => OpUses(o, u)
      BY <1>1, <3>1 DEF RunnerInv, OpOK, OpUses
    <3> QED
      BY <1>1, <3>1, <3>2 DEF RunnerInv, OpsApart
  <2> QED
    BY <2>1, <2>2, <2>3 DEF UidIsolation
<1> QED
  BY RunnerInitInv, RunnerKeeps, <1>1, PTL DEF RunnerSpec

\* A signal for a tag stops processes of that tag's run only: the uid behind a tag is not the
\* next run's (server.py, _signal under _lock).
THEOREM SignalsReachTheirRun == RunnerSpec => SignalHitsItsRun
<1>1. ASSUME RunnerInv, [RunnerNext]_runnerVars
      PROVE  [\A t \in Tags : Signal(t) => \A p \in alive \ alive' : TagOf[p[1]] = t]_runnerVars
  <2>1. ASSUME NEW t \in Tags, Signal(t), NEW p \in alive \ alive' PROVE TagOf[p[1]] = t
    <3>1. p \in alive /\ p[2] = tagUid[t] /\ tagUid[t] # 0
      BY <2>1 DEF Signal, SignalUid, ProcessesOf
    <3> QED
      BY <1>1, <3>1, LiveUses DEF RunnerInv, OpsApart
  <2> QED
    BY <2>1
<1> QED
  BY RunnerInitInv, RunnerKeeps, <1>1, PTL DEF RunnerSpec, SignalHitsItsRun

-----------------------------------------------------------------------------
(* WorkspaceBuild *)

(* The inductive invariant *)

Sums == {0, 1, 2}
BuildRow == [status : {"none", "building", "ready", "failed"}, sum : Sums, dir : BOOLEAN]
Builder == [pc : {"idle", "lookup", "relink", "insert", "mkdir", "write", "home", "ready", "unlink",
                  "symlink", "gc", "built", "failed", "ran"},
            sum : Sums, id : Ids \cup {NoLink}, skip : BOOLEAN]

BuildTypeOK ==
    /\ config \in Sums
    /\ buildRows \in [Ids -> BuildRow]
    /\ dirs \in [Ids -> {"none", "partial", "complete"}]
    /\ link \in Ids \cup {NoLink}
    /\ builder \in [Builders -> Builder]

Writing(b) == builder[b].pc \in {"mkdir", "write", "home"}

\* Nobody writes to the build or will: it is as it was left, or gone.
Whole(i) ==
    /\ i \in Ids
    /\ buildRows[i].status # "none" /\ dirs[i] # "partial"
    /\ \A b \in Builders : Writing(b) => builder[b].id # i

\* A builder that writes has a build to itself, which nobody takes for a ready one; past that
\* its build is whole.
BuilderOK(b) ==
    /\ Writing(b) =>
         /\ builder[b].id \in Ids /\ buildRows[builder[b].id].status \notin {"none", "ready"}
         /\ \A c \in Builders : c # b /\ Writing(c) => builder[c].id # builder[b].id
    /\ builder[b].pc = "failed" => builder[b].id \in Ids /\ buildRows[builder[b].id].status # "none"
    /\ builder[b].pc \in {"relink", "ready", "unlink", "symlink", "gc", "built"} => Whole(builder[b].id)

BuildInv ==
    /\ BuildTypeOK
    /\ \A b \in Builders : BuilderOK(b)
    /\ \A i \in Ids : buildRows[i].status = "ready" => Whole(i)
    /\ link # NoLink => Whole(link)

-----------------------------------------------------------------------------
(* Helpers *)

LEMMA NoLinkIsNoBuild == NoLink \notin Ids
BY DEF NoLink, Ids

\* A whole build stays whole when its row stays, its dir is not begun again and the one builder
\* that moves does not come to write it.
LEMMA WholeStays ==
    ASSUME BuildTypeOK, NEW b \in Builders, NEW r, builder' = [builder EXCEPT ![b] = r],
           NEW i, Whole(i), buildRows'[i].status # "none", dirs'[i] # "partial",
           r.pc \in {"mkdir", "write", "home"} => r.id # i
    PROVE  Whole(i)'
BY DEF BuildTypeOK, Whole, Writing

\* What a step of a builder has to show; the rest does not move.
LEMMA BuilderStep ==
    ASSUME BuildInv, NEW b \in Builders, NEW r \in Builder, builder' = [builder EXCEPT ![b] = r],
           UNCHANGED config,
           buildRows' \in [Ids -> BuildRow], dirs' \in [Ids -> {"none", "partial", "complete"}],
           link' \in Ids \cup {NoLink}, link' # NoLink => Whole(link'),
           \A i \in Ids : Whole(i) => /\ buildRows'[i].status # "none" /\ dirs'[i] # "partial"
                                      /\ r.pc \in {"mkdir", "write", "home"} => r.id # i,
           \A i \in Ids : buildRows'[i].status = "ready" => Whole(i),
           \A i \in Ids : buildRows[i].status # "none" => buildRows'[i].status # "none",
           \A c \in Builders : c # b /\ Writing(c) /\ r.pc \in {"mkdir", "write", "home"} => r.id # builder[c].id,
           BuilderOK(b)'
    PROVE  BuildInv'
<1>1. builder'[b] = r /\ \A c \in Builders : c # b => builder'[c] = builder[c]
  BY DEF BuildInv, BuildTypeOK
<1>2. BuildTypeOK'
  <2>1. builder' \in [Builders -> Builder]
    BY DEF BuildInv, BuildTypeOK
  <2> QED
    BY <2>1 DEF BuildInv, BuildTypeOK
<1>3. ASSUME NEW i \in Ids, Whole(i) PROVE Whole(i)'
  <2>1. BuildTypeOK /\ buildRows'[i].status # "none" /\ dirs'[i] # "partial"
    BY <1>3 DEF BuildInv
  <2>2. r.pc \in {"mkdir", "write", "home"} => r.id # i
    BY <1>3
  <2> QED
    BY <1>3, <2>1, <2>2, WholeStays
<1>4. ASSUME NEW c \in Builders, c # b PROVE BuilderOK(c)'
  <2>1. builder'[c] = builder[c] /\ BuilderOK(c)
    BY <1>1, <1>4 DEF BuildInv
  <2>2. ASSUME Writing(c)
        PROVE  /\ builder[c].id \in Ids /\ buildRows'[builder[c].id].status \notin {"none", "ready"}
               /\ \A d \in Builders : d # c /\ Writing(d)' => builder'[d].id # builder[c].id
    <3>1. builder[c].id \in Ids /\ buildRows[builder[c].id].status # "none" /\ ~Whole(builder[c].id)
      BY <2>1, <2>2 DEF BuilderOK, Whole
    <3>2. buildRows'[builder[c].id].status \notin {"none", "ready"}
      BY <3>1
    <3>3. ASSUME NEW d \in Builders, d # c, Writing(d)' PROVE builder'[d].id # builder[c].id
      <4>1. CASE d = b
        BY <1>1, <1>4, <2>2, <3>3, <4>1 DEF Writing
      <4>2. CASE d # b
        BY <1>1, <2>1, <2>2, <3>3, <4>2 DEF Writing, BuilderOK
      <4> QED
        BY <4>1, <4>2
    <3> QED
      BY <3>1, <3>2, <3>3
  <2>3. ASSUME builder[c].pc = "failed"
        PROVE  builder[c].id \in Ids /\ buildRows'[builder[c].id].status # "none"
    BY <2>1, <2>3 DEF BuilderOK
  <2>4. ASSUME builder[c].pc \in {"relink", "ready", "unlink", "symlink", "gc", "built"}
        PROVE  Whole(builder[c].id)'
    <3>1. PICK i \in Ids : i = builder[c].id /\ Whole(i)
      BY <2>1, <2>4 DEF BuilderOK, Whole
    <3>2. Whole(i)' /\ builder'[c].id = i
      BY <1>3, <2>1, <3>1
    <3> QED
      BY <3>2 DEF Whole, Writing
  <2> QED
    BY <2>1, <2>2, <2>3, <2>4 DEF BuilderOK, Writing
<1>5. \A i \in Ids : buildRows'[i].status = "ready" => Whole(i)'
  BY <1>3
<1>6. link' # NoLink => Whole(link)'
  <2>1. SUFFICES ASSUME link' # NoLink PROVE Whole(link)'
    OBVIOUS
  <2>2. PICK i \in Ids : i = link' /\ Whole(i)
    BY <2>1
  <2>3. Whole(i)'
    BY <1>3, <2>2
  <2> QED
    BY <2>2, <2>3 DEF Whole, Writing
<1> QED
  BY <1>2, <1>4, <1>5, <1>6 DEF BuildInv

\* A builder goes on, and neither rows nor dirs change.
LEMMA BuilderMoves ==
    ASSUME BuildInv, NEW b \in Builders, NEW r \in Builder, builder' = [builder EXCEPT ![b] = r],
           UNCHANGED <<config, buildRows, dirs>>,
           r.pc \notin {"mkdir", "write", "home"},
           r.pc = "failed" => r.id \in Ids /\ buildRows[r.id].status # "none",
           r.pc \in {"relink", "ready", "unlink", "symlink", "gc", "built"} => Whole(r.id),
           link' \in Ids \cup {NoLink}, link' # NoLink => Whole(link')
    PROVE  BuildInv'
<1>1. builder'[b] = r
  BY DEF BuildInv, BuildTypeOK
<1>2. BuilderOK(b)'
  <2>1. r.pc \in {"relink", "ready", "unlink", "symlink", "gc", "built"} => Whole(builder[b].id)'
    <3>1. SUFFICES ASSUME r.pc \in {"relink", "ready", "unlink", "symlink", "gc", "built"}
                   PROVE  Whole(builder[b].id)'
      OBVIOUS
    <3>2. PICK i \in Ids : i = r.id /\ Whole(i)
      BY <3>1 DEF Whole
    <3>3. Whole(i)'
      BY <3>2, WholeStays DEF BuildInv, Whole
    <3> QED
      BY <1>1, <3>2, <3>3 DEF Whole, Writing
  <2> QED
    BY <1>1, <2>1 DEF BuilderOK, Writing
<1>3. \A i \in Ids : Whole(i) => buildRows'[i].status # "none" /\ dirs'[i] # "partial"
  BY DEF Whole
<1> QED
  BY <1>2, <1>3, BuilderStep DEF BuildInv, BuildTypeOK

-----------------------------------------------------------------------------
(* The steps *)

LEMMA BuildInitInv == BuildInit => BuildInv
BY DEF BuildInit, BuildInv, BuildTypeOK, BuilderOK, Writing, Idle, Builder, BuildRow, Sums, Ids, NoLink

LEMMA ConfigChangesKeeps == BuildInv /\ ConfigChanges => BuildInv'
<1>1. SUFFICES ASSUME BuildInv, ConfigChanges PROVE BuildInv'
  OBVIOUS
<1>2. UNCHANGED <<buildRows, dirs, link, builder>> /\ config' \in Sums
  BY <1>1 DEF ConfigChanges, Sums
<1> QED
  BY <1>1, <1>2 DEF BuildInv, BuildTypeOK, BuilderOK, Whole, Writing

\* A builder stays a builder when only its pc is set.
LEMMA ToIsBuilder ==
    ASSUME BuildInv, NEW b \in Builders, NEW pc,
           pc \in {"idle", "insert", "write", "home", "ready", "unlink", "symlink", "gc", "built", "failed", "ran"}
    PROVE  /\ [builder[b] EXCEPT !.pc = pc] \in Builder
           /\ [builder[b] EXCEPT !.pc = pc].pc = pc
           /\ [builder[b] EXCEPT !.pc = pc].id = builder[b].id
           /\ To(b, pc) => builder' = [builder EXCEPT ![b] = [builder[b] EXCEPT !.pc = pc]]
BY DEF BuildInv, BuildTypeOK, Builder, To

\* A step of a builder whose build is whole, or that leaves it, and that writes nothing.
LEMMA OnWholeKeeps ==
    ASSUME BuildInv, NEW b \in Builders, NEW pc,
           pc \in {"idle", "insert", "ready", "unlink", "symlink", "gc", "built", "failed", "ran"},
           To(b, pc), UNCHANGED <<config, buildRows, dirs>>,
           pc \in {"ready", "unlink", "symlink", "gc", "built", "failed"} => Whole(builder[b].id),
           link' \in Ids \cup {NoLink}, link' # NoLink => Whole(link')
    PROVE  BuildInv'
<1> DEFINE r == [builder[b] EXCEPT !.pc = pc]
<1>1. r \in Builder /\ r.pc = pc /\ r.id = builder[b].id /\ builder' = [builder EXCEPT ![b] = r]
  BY ToIsBuilder
<1> HIDE DEF r
<1>2. r.pc = "failed" => r.id \in Ids /\ buildRows[r.id].status # "none"
  BY <1>1 DEF Whole
<1> QED
  BY <1>1, <1>2, BuilderMoves

LEMMA ResolveViewKeeps == ASSUME BuildInv, NEW b \in Builders, ResolveView(b) PROVE BuildInv'
<1> DEFINE r == [Idle EXCEPT !.pc = "lookup", !.sum = config]
<1>1. r \in Builder /\ r.pc = "lookup"
  BY DEF BuildInv, BuildTypeOK, Builder, Idle, NoLink
<1>2. builder' = [builder EXCEPT ![b] = r] /\ UNCHANGED <<config, buildRows, dirs, link>>
  BY DEF ResolveView
<1> HIDE DEF r
<1> QED
  BY <1>1, <1>2, BuilderMoves DEF BuildInv, BuildTypeOK

LEMMA LookupKeeps == ASSUME BuildInv, NEW b \in Builders, Lookup(b) PROVE BuildInv'
<1>1. UNCHANGED <<config, link>>
  BY DEF Lookup
<1>2. CASE \E i \in Existing(builder[b].sum) :
             /\ builder' = [builder EXCEPT ![b].pc = "relink", ![b].id = i, ![b].skip = TRUE]
             /\ UNCHANGED <<buildRows, dirs>>
  <2>1. PICK i \in Existing(builder[b].sum) :
             /\ builder' = [builder EXCEPT ![b].pc = "relink", ![b].id = i, ![b].skip = TRUE]
             /\ UNCHANGED <<buildRows, dirs>>
    BY <1>2
  <2>2. i \in Ids /\ Whole(i)
    BY DEF Existing, BuildInv
  <2> DEFINE r == [builder[b] EXCEPT !.pc = "relink", !.id = i, !.skip = TRUE]
  <2>3. r \in Builder /\ r.pc = "relink" /\ r.id = i /\ builder' = [builder EXCEPT ![b] = r]
    BY <2>1, <2>2 DEF BuildInv, BuildTypeOK, Builder
  <2> HIDE DEF r
  <2> QED
    BY <1>1, <2>1, <2>2, <2>3, BuilderMoves DEF BuildInv, BuildTypeOK
<1>3. CASE \E i \in Existing(builder[b].sum) :
             /\ dirs' = [dirs EXCEPT ![i] = "none"]
             /\ buildRows' = [buildRows EXCEPT ![i].status = "failed"]
             /\ To(b, "insert")
  <2>1. PICK i \in Existing(builder[b].sum) :
             /\ dirs' = [dirs EXCEPT ![i] = "none"]
             /\ buildRows' = [buildRows EXCEPT ![i].status = "failed"]
             /\ To(b, "insert")
    BY <1>3
  <2>2. i \in Ids
    BY DEF Existing
  <2> DEFINE r == [builder[b] EXCEPT !.pc = "insert"]
  <2>3. r \in Builder /\ r.pc = "insert" /\ builder' = [builder EXCEPT ![b] = r]
    BY <2>1, ToIsBuilder
  <2> HIDE DEF r
  <2>4. dirs' \in [Ids -> {"none", "partial", "complete"}] /\ buildRows' \in [Ids -> BuildRow]
    BY <2>1, <2>2 DEF BuildInv, BuildTypeOK, BuildRow
  <2>5. \A j \in Ids : /\ buildRows'[j].status = IF j = i THEN "failed" ELSE buildRows[j].status
                       /\ dirs'[j] = IF j = i THEN "none" ELSE dirs[j]
    BY <2>1, <2>2 DEF BuildInv, BuildTypeOK, BuildRow
  <2>6. BuilderOK(b)'
    BY <2>3 DEF BuilderOK, Writing, BuildInv, BuildTypeOK
  <2>7. \A j \in Ids : Whole(j) => buildRows'[j].status # "none" /\ dirs'[j] # "partial"
    BY <2>5 DEF Whole
  <2>8. \A j \in Ids : /\ buildRows'[j].status = "ready" => Whole(j)
                       /\ buildRows[j].status # "none" => buildRows'[j].status # "none"
    BY <2>5 DEF BuildInv
  <2> QED
    BY <1>1, <2>3, <2>4, <2>6, <2>7, <2>8, BuilderStep DEF BuildInv, BuildTypeOK
<1>4. CASE To(b, "insert") /\ UNCHANGED <<buildRows, dirs>>
  BY <1>1, <1>4, OnWholeKeeps DEF BuildInv, BuildTypeOK
<1> QED
  BY <1>2, <1>3, <1>4 DEF Lookup

LEMMA InsertRowKeeps == ASSUME BuildInv, NEW b \in Builders, InsertRow(b) PROVE BuildInv'
<1>1. PICK i \in Ids :
         /\ buildRows[i].status = "none"
         /\ buildRows' = [buildRows EXCEPT ![i] = [status |-> "building", sum |-> builder[b].sum, dir |-> FALSE]]
         /\ builder' = [builder EXCEPT ![b].pc = "mkdir", ![b].id = i]
  BY DEF InsertRow
<1>2. UNCHANGED <<config, dirs, link>>
  BY DEF InsertRow
<1> DEFINE r == [builder[b] EXCEPT !.pc = "mkdir", !.id = i]
<1>3. r \in Builder /\ r.pc = "mkdir" /\ r.id = i /\ builder' = [builder EXCEPT ![b] = r]
  BY <1>1 DEF BuildInv, BuildTypeOK, Builder
<1> HIDE DEF r
<1>4. buildRows' \in [Ids -> BuildRow]
  <2>1. builder[b].sum \in Sums
    BY DEF BuildInv, BuildTypeOK, Builder
  <2> QED
    BY <1>1, <2>1 DEF BuildInv, BuildTypeOK, BuildRow
<1>5. \A j \in Ids : buildRows'[j].status = IF j = i THEN "building" ELSE buildRows[j].status
  BY <1>1 DEF BuildInv, BuildTypeOK
<1>6. \A j \in Ids : Whole(j) => buildRows'[j].status # "none" /\ dirs'[j] # "partial" /\ r.id # j
  BY <1>1, <1>2, <1>3, <1>5 DEF Whole
<1>7. \A c \in Builders : Writing(c) => builder[c].id # i
  BY <1>1 DEF BuildInv, BuilderOK
<1>8. BuilderOK(b)'
  <2>1. builder'[b] = r /\ \A c \in Builders : c # b => builder'[c] = builder[c]
    BY <1>3 DEF BuildInv, BuildTypeOK
  <2> QED
    BY <1>3, <1>5, <1>7, <2>1 DEF BuilderOK, Writing
<1>9. \A j \in Ids : /\ buildRows'[j].status = "ready" => Whole(j)
                     /\ buildRows[j].status # "none" => buildRows'[j].status # "none"
  BY <1>5 DEF BuildInv
<1> QED
  BY <1>2, <1>3, <1>4, <1>6, <1>7, <1>8, <1>9, BuilderStep DEF BuildInv, BuildTypeOK

LEMMA MakeDirKeeps == ASSUME BuildInv, NEW b \in Builders, MakeDir(b) PROVE BuildInv'
<1>1. PICK i \in Ids : /\ i = builder[b].id /\ buildRows[i].status \notin {"none", "ready"}
                       /\ \A c \in Builders : c # b /\ Writing(c) => builder[c].id # i
  BY DEF MakeDir, At, BuildInv, BuilderOK, Writing
<1>2. /\ buildRows' = [buildRows EXCEPT ![i].dir = TRUE] /\ dirs' = [dirs EXCEPT ![i] = "partial"]
      /\ To(b, "write") /\ UNCHANGED <<config, link>> /\ Writing(b)
  BY <1>1 DEF MakeDir, At, Writing
<1> DEFINE r == [builder[b] EXCEPT !.pc = "write"]
<1>3. r \in Builder /\ r.pc = "write" /\ r.id = i /\ builder' = [builder EXCEPT ![b] = r]
  BY <1>1, <1>2, ToIsBuilder
<1> HIDE DEF r
<1>4. /\ buildRows' \in [Ids -> BuildRow] /\ dirs' \in [Ids -> {"none", "partial", "complete"}]
      /\ \A j \in Ids : /\ buildRows'[j].status = buildRows[j].status
                        /\ j # i => dirs'[j] = dirs[j]
  BY <1>2 DEF BuildInv, BuildTypeOK, BuildRow
<1>5. \A j \in Ids : Whole(j) => j # i
  BY <1>1, <1>2 DEF Whole
<1>6. \A j \in Ids : Whole(j) => buildRows'[j].status # "none" /\ dirs'[j] # "partial" /\ r.id # j
  BY <1>3, <1>4, <1>5 DEF Whole
<1>7. BuilderOK(b)'
  <2>1. builder'[b] = r /\ \A c \in Builders : c # b => builder'[c] = builder[c]
    BY <1>3 DEF BuildInv, BuildTypeOK
  <2> QED
    BY <1>1, <1>3, <1>4, <2>1 DEF BuilderOK, Writing
<1>8. \A j \in Ids : /\ buildRows'[j].status = "ready" => Whole(j)
                     /\ buildRows[j].status # "none" => buildRows'[j].status # "none"
  BY <1>4 DEF BuildInv
<1>9. link' \in Ids \cup {NoLink} /\ (link' # NoLink => Whole(link'))
  BY <1>2 DEF BuildInv, BuildTypeOK
<1>10. \A c \in Builders : c # b /\ Writing(c) => r.id # builder[c].id
  BY <1>1, <1>3
<1>11. UNCHANGED config /\ buildRows' \in [Ids -> BuildRow] /\ dirs' \in [Ids -> {"none", "partial", "complete"}]
  BY <1>2, <1>4
<1>12. \A j \in Ids : Whole(j) => /\ buildRows'[j].status # "none" /\ dirs'[j] # "partial"
                                  /\ r.pc \in {"mkdir", "write", "home"} => r.id # j
  BY <1>6
<1>13. \A c \in Builders : c # b /\ Writing(c) /\ r.pc \in {"mkdir", "write", "home"} => r.id # builder[c].id
  BY <1>10
<1> QED
  BY <1>3, <1>7, <1>8, <1>9, <1>11, <1>12, <1>13, BuilderStep

LEMMA WriteBuildKeeps == ASSUME BuildInv, NEW b \in Builders, WriteBuild(b) PROVE BuildInv'
<1>1. PICK i \in Ids : /\ i = builder[b].id /\ buildRows[i].status \notin {"none", "ready"}
                       /\ \A c \in Builders : c # b /\ Writing(c) => builder[c].id # i
  BY DEF WriteBuild, At, BuildInv, BuilderOK, Writing
<1>2. UNCHANGED <<config, buildRows, link>>
  BY DEF WriteBuild
<1>3. CASE dirs' = [dirs EXCEPT ![i] = "complete"] /\ To(b, "ready")
  <2> DEFINE r == [builder[b] EXCEPT !.pc = "ready"]
  <2>1. r \in Builder /\ r.pc = "ready" /\ r.id = i /\ builder' = [builder EXCEPT ![b] = r]
    BY <1>1, <1>3, ToIsBuilder
  <2> HIDE DEF r
  <2>2. /\ dirs' \in [Ids -> {"none", "partial", "complete"}]
        /\ \A j \in Ids : dirs'[j] = IF j = i THEN "complete" ELSE dirs[j]
    BY <1>3 DEF BuildInv, BuildTypeOK
  <2>3. builder'[b] = r /\ \A c \in Builders : c # b => builder'[c] = builder[c]
    BY <2>1 DEF BuildInv, BuildTypeOK
  <2>4. Whole(i)'
    BY <1>1, <1>2, <2>1, <2>2, <2>3 DEF Whole, Writing
  <2>5. BuilderOK(b)'
    BY <2>1, <2>3, <2>4 DEF BuilderOK, Writing, Whole
  <2>6. \A j \in Ids : Whole(j) => buildRows'[j].status # "none" /\ dirs'[j] # "partial"
    BY <1>2, <2>2 DEF Whole
  <2> QED
    BY <1>2, <2>1, <2>2, <2>5, <2>6, BuilderStep DEF BuildInv, BuildTypeOK
<1>4. CASE To(b, "failed") /\ UNCHANGED dirs
  <2> DEFINE r == [builder[b] EXCEPT !.pc = "failed"]
  <2>1. r \in Builder /\ r.pc = "failed" /\ r.id = i /\ builder' = [builder EXCEPT ![b] = r]
    BY <1>1, <1>4, ToIsBuilder
  <2> HIDE DEF r
  <2> QED
    BY <1>1, <1>2, <1>4, <2>1, BuilderMoves DEF BuildInv, BuildTypeOK
<1> QED
  BY <1>1, <1>3, <1>4 DEF WriteBuild

LEMMA WriteLayersKeeps == ASSUME BuildInv, NEW b \in Builders, WriteLayers(b) PROVE BuildInv'
<1>1. PICK i \in Ids : /\ i = builder[b].id /\ buildRows[i].status \notin {"none", "ready"}
                       /\ \A c \in Builders : c # b /\ Writing(c) => builder[c].id # i
  BY DEF WriteLayers, At, BuildInv, BuilderOK, Writing
<1>2. UNCHANGED <<config, buildRows, dirs, link>> /\ Writing(b)
  BY DEF WriteLayers, At, Writing
<1>3. CASE To(b, "home")
  <2> DEFINE r == [builder[b] EXCEPT !.pc = "home"]
  <2>1. r \in Builder /\ r.pc = "home" /\ r.id = i /\ builder' = [builder EXCEPT ![b] = r]
    BY <1>1, <1>3, ToIsBuilder
  <2> HIDE DEF r
  <2>2. builder'[b] = r /\ \A c \in Builders : c # b => builder'[c] = builder[c]
    BY <2>1 DEF BuildInv, BuildTypeOK
  <2>3. BuilderOK(b)'
    BY <1>1, <1>2, <2>1, <2>2 DEF BuilderOK, Writing
  <2>4. \A j \in Ids : Whole(j) => /\ buildRows'[j].status # "none" /\ dirs'[j] # "partial"
                                   /\ r.pc \in {"mkdir", "write", "home"} => r.id # j
    BY <1>1, <1>2, <2>1 DEF Whole
  <2>5. \A j \in Ids : /\ buildRows'[j].status = "ready" => Whole(j)
                       /\ buildRows[j].status # "none" => buildRows'[j].status # "none"
    BY <1>2 DEF BuildInv
  <2>6. /\ buildRows' \in [Ids -> BuildRow] /\ dirs' \in [Ids -> {"none", "partial", "complete"}]
        /\ link' \in Ids \cup {NoLink} /\ (link' # NoLink => Whole(link'))
    BY <1>2 DEF BuildInv, BuildTypeOK
  <2>7. \A c \in Builders : c # b /\ Writing(c) /\ r.pc \in {"mkdir", "write", "home"} => r.id # builder[c].id
    BY <1>1, <2>1
  <2> QED
    BY <1>2, <2>1, <2>3, <2>4, <2>5, <2>6, <2>7, BuilderStep
<1>4. CASE To(b, "failed")
  <2> DEFINE r == [builder[b] EXCEPT !.pc = "failed"]
  <2>1. r \in Builder /\ r.pc = "failed" /\ r.id = i /\ builder' = [builder EXCEPT ![b] = r]
    BY <1>1, <1>4, ToIsBuilder
  <2> HIDE DEF r
  <2> QED
    BY <1>1, <1>2, <2>1, BuilderMoves DEF BuildInv, BuildTypeOK
<1> QED
  BY <1>3, <1>4 DEF WriteLayers

LEMMA MarkReadyKeeps == ASSUME BuildInv, NEW b \in Builders, MarkReady(b) PROVE BuildInv'
<1>1. PICK i \in Ids : i = builder[b].id /\ Whole(i)
  BY DEF MarkReady, At, BuildInv, BuilderOK, Whole
<1>2. /\ buildRows' = [buildRows EXCEPT ![i].status = "ready"]
      /\ To(b, "unlink") /\ UNCHANGED <<config, dirs, link>>
  BY <1>1 DEF MarkReady
<1> DEFINE r == [builder[b] EXCEPT !.pc = "unlink"]
<1>3. r \in Builder /\ r.pc = "unlink" /\ r.id = i /\ builder' = [builder EXCEPT ![b] = r]
  BY <1>1, <1>2, ToIsBuilder
<1> HIDE DEF r
<1>4. /\ buildRows' \in [Ids -> BuildRow]
      /\ \A j \in Ids : buildRows'[j].status = IF j = i THEN "ready" ELSE buildRows[j].status
  BY <1>2 DEF BuildInv, BuildTypeOK, BuildRow
<1>5. \A j \in Ids : Whole(j) => buildRows'[j].status # "none" /\ dirs'[j] # "partial"
  BY <1>2, <1>4 DEF Whole
<1>6. builder'[b] = r /\ Whole(i)'
  BY <1>1, <1>3, <1>5, WholeStays DEF BuildInv, BuildTypeOK
<1>7. BuilderOK(b)'
  BY <1>3, <1>6 DEF BuilderOK, Writing, Whole
<1>8. \A j \in Ids : /\ buildRows'[j].status = "ready" => Whole(j)
                     /\ buildRows[j].status # "none" => buildRows'[j].status # "none"
  BY <1>1, <1>4 DEF BuildInv
<1> QED
  BY <1>2, <1>3, <1>4, <1>5, <1>7, <1>8, BuilderStep DEF BuildInv, BuildTypeOK

\* The skip path, current and the copy: these builders stand on a whole build.
LEMMA LinkStepsKeep ==
    ASSUME BuildInv, NEW b \in Builders,
           Relink(b) \/ Unlink(b) \/ Symlink(b) \/ UseBuild(b) \/ BuilderDies(b)
    PROVE  BuildInv'
<1>1. UNCHANGED <<config, buildRows, dirs>>
  BY DEF Relink, Unlink, Symlink, UseBuild, BuilderDies
<1>2. builder[b].pc \in {"relink", "unlink", "symlink"} => Whole(builder[b].id)
  BY DEF BuildInv, BuilderOK
<1>3. link \in Ids \cup {NoLink} /\ (link # NoLink => Whole(link))
  BY DEF BuildInv, BuildTypeOK
<1>4. CASE Relink(b)
  <2>1. UNCHANGED link /\ Whole(builder[b].id) /\ (To(b, "built") \/ To(b, "unlink"))
    BY <1>2, <1>4 DEF Relink, At
  <2> QED
    BY <1>1, <1>3, <2>1, OnWholeKeeps
<1>5. CASE Unlink(b)
  <2>1. /\ Whole(builder[b].id) /\ link' \in {link, NoLink}
        /\ To(b, "symlink") \/ To(b, "failed")
    BY <1>2, <1>5 DEF Unlink, At
  <2> QED
    BY <1>1, <1>3, <2>1, OnWholeKeeps
<1>6. CASE Symlink(b)
  <2>1. /\ Whole(builder[b].id) /\ link' \in {link, builder[b].id}
        /\ To(b, "built") \/ To(b, "gc") \/ To(b, "failed")
    BY <1>2, <1>6 DEF Symlink, At
  <2>2. builder[b].id \in Ids
    BY <2>1 DEF Whole
  <2> QED
    BY <1>1, <1>3, <2>1, <2>2, OnWholeKeeps
<1>7. CASE UseBuild(b) \/ BuilderDies(b)
  <2>1. UNCHANGED link /\ (To(b, "idle") \/ To(b, "ran"))
    BY <1>7 DEF UseBuild, BuilderDies
  <2> QED
    BY <1>1, <1>3, <2>1, OnWholeKeeps
<1> QED
  BY <1>4, <1>5, <1>6, <1>7

LEMMA GcKeeps == ASSUME BuildInv, NEW b \in Builders, Gc(b) PROVE BuildInv'
<1>1. UNCHANGED <<config, buildRows, link>> /\ To(b, "built") /\ Whole(builder[b].id)
  BY DEF Gc, At, BuildInv, BuilderOK
<1>2. /\ dirs' \in [Ids -> {"none", "partial", "complete"}]
      /\ \A j \in Ids : dirs'[j] \in {"none", dirs[j]}
  BY DEF Gc, BuildInv, BuildTypeOK
<1> DEFINE r == [builder[b] EXCEPT !.pc = "built"]
<1>3. r \in Builder /\ r.pc = "built" /\ r.id = builder[b].id /\ builder' = [builder EXCEPT ![b] = r]
  BY <1>1, ToIsBuilder
<1> HIDE DEF r
<1>4. \A j \in Ids : Whole(j) => buildRows'[j].status # "none" /\ dirs'[j] # "partial"
  BY <1>1, <1>2 DEF Whole
<1>5. PICK i \in Ids : i = builder[b].id /\ Whole(i)
  BY <1>1 DEF Whole
<1>6. builder'[b] = r /\ Whole(i)'
  BY <1>3, <1>4, <1>5, WholeStays DEF BuildInv, BuildTypeOK
<1>7. BuilderOK(b)'
  BY <1>3, <1>5, <1>6 DEF BuilderOK, Writing, Whole
<1> QED
  BY <1>1, <1>2, <1>3, <1>4, <1>7, BuilderStep DEF BuildInv, BuildTypeOK

LEMMA FailedKeeps == ASSUME BuildInv, NEW b \in Builders, Failed(b) PROVE BuildInv'
<1>1. PICK i \in Ids : i = builder[b].id /\ buildRows[i].status # "none"
  BY DEF Failed, At, BuildInv, BuilderOK
<1>2. /\ buildRows' = [buildRows EXCEPT ![i].status = IF builder[b].skip THEN @ ELSE "failed"]
      /\ To(b, "idle") /\ UNCHANGED <<config, dirs, link>>
  BY <1>1 DEF Failed
<1> DEFINE r == [builder[b] EXCEPT !.pc = "idle"]
<1>3. r \in Builder /\ r.pc = "idle" /\ builder' = [builder EXCEPT ![b] = r]
  BY <1>2, ToIsBuilder
<1> HIDE DEF r
<1>4. /\ buildRows' \in [Ids -> BuildRow]
      /\ \A j \in Ids : buildRows'[j].status \in {buildRows[j].status, "failed"}
  BY <1>2 DEF BuildInv, BuildTypeOK, BuildRow
<1>5. \A j \in Ids : Whole(j) => buildRows'[j].status # "none" /\ dirs'[j] # "partial"
  BY <1>2, <1>4 DEF Whole
<1>6. BuilderOK(b)'
  BY <1>3 DEF BuilderOK, Writing, BuildInv, BuildTypeOK
<1>7. \A j \in Ids : /\ buildRows'[j].status = "ready" => Whole(j)
                     /\ buildRows[j].status # "none" => buildRows'[j].status # "none"
  BY <1>4 DEF BuildInv
<1> QED
  BY <1>2, <1>3, <1>4, <1>5, <1>6, <1>7, BuilderStep DEF BuildInv, BuildTypeOK

LEMMA RunOverKeeps == ASSUME BuildInv, NEW b \in Builders, RunOver(b) PROVE BuildInv'
<1>1. Idle \in Builder /\ Idle.pc = "idle"
  BY DEF Idle, Builder, Sums, NoLink
<1>2. builder' = [builder EXCEPT ![b] = Idle] /\ UNCHANGED <<config, buildRows, dirs, link>>
  BY DEF RunOver
<1> QED
  BY <1>1, <1>2, BuilderMoves DEF BuildInv, BuildTypeOK

LEMMA BuildKeeps == BuildInv /\ [BuildNext]_buildVars => BuildInv'
<1>1. SUFFICES ASSUME BuildInv, [BuildNext]_buildVars PROVE BuildInv'
  OBVIOUS
<1>2. CASE UNCHANGED buildVars
  BY <1>1, <1>2 DEF buildVars, BuildInv, BuildTypeOK, BuilderOK, Whole, Writing
<1>3. CASE ConfigChanges
  BY <1>1, <1>3, ConfigChangesKeeps
<1>4. ASSUME NEW b \in Builders,
             \/ ResolveView(b) \/ Lookup(b) \/ Relink(b) \/ InsertRow(b) \/ MakeDir(b)
             \/ WriteLayers(b) \/ WriteBuild(b) \/ MarkReady(b) \/ Unlink(b) \/ Symlink(b) \/ Gc(b)
             \/ Failed(b) \/ BuilderDies(b) \/ UseBuild(b) \/ RunOver(b)
      PROVE  BuildInv'
  BY <1>1, <1>4, ResolveViewKeeps, LookupKeeps, InsertRowKeeps, MakeDirKeeps, WriteBuildKeeps,
     WriteLayersKeeps, MarkReadyKeeps, LinkStepsKeep, GcKeeps, FailedKeeps, RunOverKeeps
<1> QED
  BY <1>1, <1>2, <1>3, <1>4 DEF BuildNext

\* A run is never made from a half-written workspace (builder.py execute_build and
\* artifacts_dir.py copy_build_to_artifacts_dir): what current names was written to the end or
\* is gone, for any builders, forced or not, any retention and any failures and crashes.
THEOREM LinkedIsComplete == BuildSpec => []CompleteWhenLinked
<1>1. BuildInv => CompleteWhenLinked
  BY DEF BuildInv, BuildTypeOK, Whole, CompleteWhenLinked, IsDir
<1> QED
  BY <1>1, BuildInitInv, BuildKeeps, PTL DEF BuildSpec

-----------------------------------------------------------------------------
(* A run and its directories *)

TurnRow == [status : {"none", "todo", "running", "ended"}, old : BOOLEAN, row : BOOLEAN]

DirTypeOK ==
    /\ turn \in [Turns -> TurnRow]
    /\ runDir \in [Turns -> [there : BOOLEAN, mtime : Nat]]
    /\ saved \in Nat /\ clock \in Nat
    /\ threadDir \in BOOLEAN
    /\ runner \in [Turns -> {"idle", "prepare", "link", "session", "run", "copy", "drop", "finish"}]
    /\ pruner \in [pc : {"off", "runs", "compare", "copy", "remove", "keep", "shared", "end"},
                   listed : SUBSET Turns, rowless : SUBSET Turns, row : Turns \cup {NoTurn},
                   thread : BOOLEAN]

\* A worker that is not idle has a running turn.
RunnersRun == \A j \in Turns : runner[j] # "idle" => turn[j].status = "running"

\* The run dir that the prune works on is that of an ended turn, whose row it holds.
LockedIsOver ==
    pruner.pc \in {"compare", "copy", "remove", "keep"} =>
        pruner.row \in Turns /\ turn[pruner.row].status = "ended"

\* While the prune removes the thread's dir it holds the thread's row, and no turn runs.
SharedIsOver ==
    pruner.pc = "shared" => pruner.thread /\ \A j \in Turns : turn[j].status # "running"

DirInv == DirTypeOK /\ RunnersRun /\ LockedIsOver /\ SharedIsOver /\ RunKeepsItsDirs

\* At first no turn is there, no dir, and no prune.
LEMMA DirInitInv == DirInit => DirInv
<1> SUFFICES ASSUME DirInit PROVE DirInv
  OBVIOUS
<1>1. turn \in [Turns -> TurnRow]
  BY DEF DirInit, TurnRow
<1>2. DirTypeOK
  BY <1>1 DEF DirInit, DirTypeOK, NoDir, NotPruning
<1> QED
  BY <1>2 DEF DirInit, DirInv, NotPruning, RunnersRun, LockedIsOver, SharedIsOver, RunKeepsItsDirs

\* A step of one turn's row and worker: the turn does not leave "ended" while the prune holds its
\* row, nor starts to run while the prune holds the thread's, and its dirs are there if it runs.
LEMMA TurnStep ==
    ASSUME DirInv, DirTypeOK', NEW j \in Turns, pruner' = pruner,
           \A i \in Turns : i # j => turn'[i].status = turn[i].status /\ runner'[i] = runner[i] /\ runDir'[i] = runDir[i],
           runner'[j] # "idle" => turn'[j].status = "running",
           pruner.row = j /\ turn[j].status = "ended" => turn'[j].status = "ended",
           turn'[j].status = "running" => turn[j].status = "running" \/ ~pruner.thread,
           runner'[j] \in {"link", "session", "run", "copy", "drop", "finish"} => runDir'[j].there,
           runner'[j] \in {"session", "run", "copy", "drop", "finish"} => threadDir',
           threadDir => threadDir'
    PROVE  DirInv'
<1>1. RunnersRun' /\ LockedIsOver'
  BY DEF DirInv, RunnersRun, LockedIsOver
<1>2. SharedIsOver'
  BY DEF DirInv, SharedIsOver
<1>3. RunKeepsItsDirs'
  BY DEF DirInv, RunKeepsItsDirs
<1> QED
  BY <1>1, <1>2, <1>3 DEF DirInv

LEMMA TurnKeepsDirInv ==
    ASSUME DirInv, NEW j \in Turns,
           \/ JoinThread(j) \/ ClaimTurn(j) \/ CopyBuild(j) \/ PrepareThreadDir(j) \/ CopySession(j)
           \/ WriteSession(j) \/ SaveCompares(j) \/ SaveCopies(j) \/ SaveDrops(j) \/ FinishTurn(j)
           \/ WorkerDies(j) \/ RetryTurn(j) \/ DeleteRow(j)
    PROVE  DirInv'
<1> USE DEF DirInv, DirTypeOK, TurnRow, RunnerTo
<1>1. CASE JoinThread(j)
  BY <1>1, TurnStep DEF JoinThread, RunnersRun, RunKeepsItsDirs
<1>2. CASE ClaimTurn(j)
  BY <1>2, TurnStep DEF ClaimTurn, ThreadUnlocked
<1>3. CASE CopyBuild(j)
  BY <1>3, TurnStep DEF CopyBuild, RunnersRun
<1>4. CASE PrepareThreadDir(j)
  BY <1>4, TurnStep DEF PrepareThreadDir, RunnersRun, RunKeepsItsDirs
<1>5. CASE CopySession(j)
  BY <1>5, TurnStep DEF CopySession, CopyIn, RunnersRun, RunKeepsItsDirs
<1>6. CASE WriteSession(j)
  BY <1>6, TurnStep DEF WriteSession, RunnersRun, RunKeepsItsDirs
<1>7. CASE SaveCompares(j)
  BY <1>7, TurnStep DEF SaveCompares, RunnersRun, RunKeepsItsDirs
<1>8. CASE SaveCopies(j)
  BY <1>8, TurnStep DEF SaveCopies, RunnersRun, RunKeepsItsDirs
<1>9. CASE SaveDrops(j)
  BY <1>9, TurnStep DEF SaveDrops, RunnersRun, RunKeepsItsDirs
<1>10. CASE FinishTurn(j)
  BY <1>10, TurnStep DEF FinishTurn
<1>11. CASE WorkerDies(j)
  BY <1>11, TurnStep DEF WorkerDies, RunnersRun
<1>12. CASE RetryTurn(j)
  BY <1>12, TurnStep DEF RetryTurn, Unlocked, RunnersRun
<1>13. CASE DeleteRow(j)
  <2>1. \A i \in Turns : turn'[i].status = turn[i].status /\ turn'[i] \in TurnRow
    BY <1>13 DEF DeleteRow
  <2>2. DirTypeOK'
    BY <1>13, <2>1 DEF DeleteRow
  <2> QED
    BY <1>13, <2>1, <2>2, TurnStep DEF DeleteRow, RunnersRun, RunKeepsItsDirs
<1> QED
  BY <1>1, <1>2, <1>3, <1>4, <1>5, <1>6, <1>7, <1>8, <1>9, <1>10, <1>11, <1>12, <1>13

LEMMA PruneKeepsDirInv ==
    ASSUME DirInv,
           \/ \E j \in Turns : LockRunRow(j)
           \/ DaysPass \/ ListRunDirs \/ SessionsCompare \/ SessionsCopy \/ RemoveRunDir
           \/ LockThreadDir \/ RemoveThreadDir
    PROVE  DirInv'
<1> USE DEF DirInv
<1>1. ASSUME NEW j \in Turns, LockRunRow(j) PROVE DirInv'
  BY <1>1 DEF LockRunRow, DirTypeOK, RunnersRun, LockedIsOver, SharedIsOver, RunKeepsItsDirs, Expired
<1>2. CASE DaysPass
  <2>1. \A j \in Turns : turn'[j].status = turn[j].status
    BY <1>2 DEF DaysPass, DirTypeOK, TurnRow
  <2>2. DirTypeOK'
    BY <1>2 DEF DaysPass, DirTypeOK, TurnRow
  <2> QED
    BY <1>2, <2>1, <2>2 DEF DaysPass, RunnersRun, LockedIsOver, SharedIsOver, RunKeepsItsDirs
<1>3. CASE ListRunDirs
  BY <1>3 DEF ListRunDirs, DirTypeOK, RunnersRun, LockedIsOver, SharedIsOver, RunKeepsItsDirs
<1>4. CASE SessionsCompare
  BY <1>4 DEF SessionsCompare, DirTypeOK, RunnersRun, LockedIsOver, SharedIsOver, RunKeepsItsDirs
<1>5. CASE SessionsCopy
  BY <1>5 DEF SessionsCopy, DirTypeOK, RunnersRun, LockedIsOver, SharedIsOver, RunKeepsItsDirs
<1>6. CASE RemoveRunDir
  <2>1. DirTypeOK'
    BY <1>6 DEF RemoveRunDir, DirTypeOK, NoDir
  <2>2. \A j \in Turns : runner[j] # "idle" => runDir'[j] = runDir[j]
    BY <1>6 DEF RemoveRunDir, DirTypeOK, RunnersRun, LockedIsOver
  <2> QED
    BY <1>6, <2>1, <2>2 DEF RemoveRunDir, DirTypeOK, RunnersRun, LockedIsOver, SharedIsOver, RunKeepsItsDirs
<1>7. CASE LockThreadDir
  BY <1>7 DEF LockThreadDir, DirTypeOK, RunnersRun, LockedIsOver, SharedIsOver, RunKeepsItsDirs, Expired
<1>8. CASE RemoveThreadDir
  BY <1>8 DEF RemoveThreadDir, NotPruning, DirTypeOK, RunnersRun, LockedIsOver, SharedIsOver, RunKeepsItsDirs
<1> QED
  BY <1>1, <1>2, <1>3, <1>4, <1>5, <1>6, <1>7, <1>8

THEOREM DirsStay == DirSpec => []RunKeepsItsDirs
<1>1. DirInv /\ [DirNext]_dirVars => DirInv'
  <2> SUFFICES ASSUME DirInv, [DirNext]_dirVars PROVE DirInv'
    OBVIOUS
  <2>1. CASE UNCHANGED dirVars
    BY <2>1 DEF dirVars, DirInv, DirTypeOK, RunnersRun, LockedIsOver, SharedIsOver, RunKeepsItsDirs
  <2> QED
    BY <2>1, TurnKeepsDirInv, PruneKeepsDirInv DEF DirNext
<1>2. DirInv => RunKeepsItsDirs
  BY DEF DirInv
<1> QED
  BY <1>1, <1>2, DirInitInv, PTL DEF DirSpec

-----------------------------------------------------------------------------
(* ScopedConfig: the pair of a save that nothing came between *)

\* The view's workspace has no rows while there are saves at both (resolve_with_origin looks
\* at the one scope and the default), and no environment variable overrides the harness.
NoWorkspaceBetween ==
    /\ Environments \subseteq {Unset}
    /\ SavedScopes \subseteq Scopes
    /\ "workspace" \in SavedScopes => "agent_view" \notin SavedScopes

Table == [Scopes -> [Fields -> Harnesses \cup Providers \cup {Unset}]]
Save == [scope : Scopes, field : Fields, value : Harnesses \cup Providers \cup {Unset}]

ConfigTypes ==
    /\ rows \in Table
    /\ env = Unset
    /\ save \in [Writers -> Save]

\* Where the view is saved at, its workspace has no row.
NoneAtWorkspace(table) == "agent_view" \in SavedScopes => \A f \in Fields : table["workspace"][f] = Unset
WorkspaceEmpty == NoneAtWorkspace(rows)

\* A save that waits was validated; nothing changed since if its writer is alone.
SavesValid ==
    /\ \A w \in Writers : save[w] # NoSave => /\ save[w].scope \in SavedScopes
                                              /\ save[w].value \in Values(save[w].field)
    /\ \A w \in alone : w \in Writers /\ save[w] # NoSave /\ save[w].value \in Allowed(save[w].scope, save[w].field)

ConfigInv == ConfigTypes /\ WorkspaceEmpty /\ SavesValid

\* The nearest scope, for each chain.
LEMMA MinOfFew ==
  /\ \A S : S \subseteq {1, 2, 3} /\ 1 \in S => Min(S) = 1
  /\ \A S : S \subseteq {1, 2, 3} /\ 1 \notin S /\ 2 \in S => Min(S) = 2
  /\ Min({3}) = 3
<1>1. ASSUME NEW S, NEW x \in S, S \subseteq {1, 2, 3}, \A y \in S : x <= y PROVE Min(S) = x
  <2>1. \E z \in S : \A y \in S : z =< y
    BY <1>1
  <2> DEFINE m == CHOOSE z \in S : \A y \in S : z =< y
  <2>2. m \in S /\ \A y \in S : m =< y
    BY <2>1
  <2>3. m \in {1, 2, 3} /\ x \in {1, 2, 3} /\ m <= x /\ x <= m
    BY <1>1, <2>2
  <2> HIDE DEF m
  <2>4. m = x
    BY <2>3
  <2> QED
    BY <2>4 DEF m, Min
<1>2. ASSUME NEW S, S \subseteq {1, 2, 3}, 1 \in S PROVE Min(S) = 1
  <2>1. \A y \in S : 1 <= y
    BY <1>2
  <2> QED
    BY <1>1, <1>2, <2>1
<1>3. ASSUME NEW S, S \subseteq {1, 2, 3}, 1 \notin S, 2 \in S PROVE Min(S) = 2
  <2>1. \A y \in S : 2 <= y
    BY <1>3
  <2> QED
    BY <1>1, <1>3, <2>1
<1>4. Min({3}) = 3
  BY <1>1
<1> QED
  BY <1>2, <1>3, <1>4

\* The first scope of a chain is the nearest when it has a row.
LEMMA OwnScope ==
  ASSUME NEW s \in Scopes, NEW f, NEW table, table[s][f] # Unset
  PROVE  /\ WithRow(Chain(s), f, table) # {} /\ Nearest(Chain(s), f, table) = s
         /\ WithRow(WriteChain(s), f, table) # {} /\ Nearest(WriteChain(s), f, table) = s
<1>1. ASSUME NEW c \in {Chain(s), WriteChain(s)}
      PROVE  /\ DOMAIN c \subseteq {1, 2, 3} /\ 1 \in DOMAIN c /\ c[1] = s
  <2>1. c \in {<<"default">>, <<"workspace", "default">>, <<"agent_view", "workspace", "default">>, <<"agent_view", "default">>}
        /\ c[1] = s
    BY DEF Chain, WriteChain, Scopes
  <2> QED
    BY <2>1
<1>2. ASSUME NEW c \in {Chain(s), WriteChain(s)}
      PROVE  WithRow(c, f, table) # {} /\ Nearest(c, f, table) = s
  <2>1. WithRow(c, f, table) \subseteq {1, 2, 3} /\ 1 \in WithRow(c, f, table)
    BY <1>1 DEF WithRow
  <2>2. Min(WithRow(c, f, table)) = 1
    BY <2>1, MinOfFew
  <2> QED
    BY <1>1, <2>1, <2>2 DEF Nearest
<1> QED
  BY <1>2

\* Without rows at the workspace, the write-time chain of a view decides as the full one does.
LEMMA SameChains ==
  ASSUME NEW s \in Scopes, NEW f, NEW table, s = "agent_view" => table["workspace"][f] = Unset
  PROVE  /\ WithRow(Chain(s), f, table) = {} <=> WithRow(WriteChain(s), f, table) = {}
         /\ WithRow(Chain(s), f, table) # {} => Nearest(Chain(s), f, table) = Nearest(WriteChain(s), f, table)
<1>1. CASE s # "agent_view"
  BY <1>1 DEF WriteChain
<1>2. CASE table[s][f] # Unset
  BY <1>2, OwnScope
<1>3. CASE s = "agent_view" /\ table[s][f] = Unset
  <2>1. Chain(s) = <<"agent_view", "workspace", "default">> /\ WriteChain(s) = <<"agent_view", "default">>
    BY <1>3 DEF Chain, WriteChain
  <2>2. WithRow(Chain(s), f, table) = IF table["default"][f] # Unset THEN {3} ELSE {}
    BY <1>3, <2>1 DEF WithRow
  <2>3. WithRow(WriteChain(s), f, table) = IF table["default"][f] # Unset THEN {2} ELSE {}
    BY <1>3, <2>1 DEF WithRow
  <2>4. Min({2}) = 2 /\ Min({3}) = 3
    BY MinOfFew
  <2> QED
    BY <2>1, <2>2, <2>3, <2>4 DEF Nearest
<1> QED
  BY <1>1, <1>2, <1>3

LEMMA ChainScopes ==
  ASSUME NEW s \in Scopes
  PROVE  \A i \in DOMAIN Chain(s) : Chain(s)[i] \in Scopes
BY DEF Chain, Scopes

LEMMA NearestScope ==
  ASSUME NEW s \in Scopes, NEW f, NEW table, WithRow(Chain(s), f, table) # {}
  PROVE  Nearest(Chain(s), f, table) \in Scopes
<1> DEFINE S == WithRow(Chain(s), f, table)
<1>1. S \subseteq {1, 2, 3} /\ S \subseteq DOMAIN Chain(s)
  BY DEF Chain, Scopes, WithRow
<1> HIDE DEF S
<1>2. S # {}
  BY DEF S
<1>3. 1 \in S \/ 2 \in S \/ S = {3}
  BY <1>1, <1>2
<1>4. Min(S) \in S
  BY <1>1, <1>3, MinOfFew
<1> QED
  BY <1>1, <1>4, ChainScopes DEF Nearest, S

LEMMA PairFits ==
  ASSUME NEW s, NEW h, NEW p, Get(s, "harness")' = h, Get(s, "provider")' = p, p \in ToSet(Offers[h])
  PROVE  ~Runtime(s)'.error
BY DEF Runtime, Pair

\* What a save writes at its scope fits together, seen through the view's own chain.
LEMMA SavedFits ==
  ASSUME ConfigInv, NEW w \in alone, Write(w), rows' # rows, NEW s \in Scopes, save[w].scope = s
  PROVE  ~Runtime(s)'.error
<1>1. PICK f \in Fields : \E v \in Values(f) : save[w] = [scope |-> s, field |-> f, value |-> v]
                                                /\ v \in Allowed(s, f) /\ s \in SavedScopes
  <2>1. w \in Writers /\ save[w] # NoSave /\ save[w] \in Save /\ save[w].value \in Allowed(save[w].scope, save[w].field)
    BY DEF ConfigInv, ConfigTypes, SavesValid
  <2>2. save[w].scope \in SavedScopes /\ save[w].value \in Values(save[w].field)
    BY <2>1 DEF ConfigInv, SavesValid
  <2> QED
    BY <2>1, <2>2 DEF Save
<1>0. PICK v \in Values(f) : save[w] = [scope |-> s, field |-> f, value |-> v]
                             /\ v \in Allowed(s, f) /\ s \in SavedScopes
  BY <1>1
<1> DEFINE first == [rows EXCEPT ![s][f] = v]
<1>2. /\ rows' = Repaired(s, f, v, first)
      /\ env = Unset /\ env' = Unset /\ rows \in Table
      /\ s = "agent_view" => rows["workspace"]["harness"] = Unset /\ rows["workspace"]["provider"] = Unset
  BY <1>0 DEF Write, ConfigInv, ConfigTypes, WorkspaceEmpty, NoneAtWorkspace, Fields
<1>3. v # Unset /\ v \in Harnesses \cup Providers
  BY <1>0, OffersAssumption DEF Values, Fields
<1>4. first \in Table /\ first[s][f] = v /\ \A t \in Scopes, g \in Fields : (t # s \/ g # f) => first[t][g] = rows[t][g]
  BY <1>2, <1>3 DEF Table, Fields
<1> HIDE DEF first
<1>5. \A t \in {"workspace", "default"} : t \in Scopes
  BY DEF Scopes
<1>6. CASE f = "provider"
  <2>1. rows' = first
    BY <1>2, <1>6 DEF Repaired
  <2>2. rows'[s]["provider"] = v /\ \A t \in Scopes : rows'[t]["harness"] = rows[t]["harness"]
    BY <1>4, <1>6, <2>1 DEF Fields
  <2>3. Get(s, "provider")' = v
    <3>1. /\ WithRow(Chain(s), "provider", rows') # {} /\ Nearest(Chain(s), "provider", rows') = s
      BY <1>3, <2>2, OwnScope
    <3> QED
      BY <2>2, <3>1 DEF Get, Resolve
  <2>4. Get(s, "harness")' = Resolve(WriteChain(s), "harness", Shipped.harness)
    <3>1. /\ WithRow(Chain(s), "harness", rows) = {} <=> WithRow(WriteChain(s), "harness", rows) = {}
          /\ WithRow(Chain(s), "harness", rows) # {} => Nearest(Chain(s), "harness", rows) = Nearest(WriteChain(s), "harness", rows)
      BY <1>2, SameChains
    <3>2. WithRow(Chain(s), "harness", rows') = WithRow(Chain(s), "harness", rows)
      BY <2>2, ChainScopes DEF WithRow
    <3>3. Nearest(Chain(s), "harness", rows') = Nearest(Chain(s), "harness", rows)
      BY <3>2 DEF Nearest
    <3>4. WithRow(Chain(s), "harness", rows) # {} => Nearest(Chain(s), "harness", rows) \in Scopes
      BY NearestScope
    <3>5. Get(s, "harness")' = IF WithRow(Chain(s), "harness", rows) # {}
                               THEN rows[Nearest(Chain(s), "harness", rows)]["harness"] ELSE Shipped["harness"]
      BY <1>2, <2>2, <3>2, <3>3, <3>4 DEF Get, Resolve
    <3>6. Resolve(WriteChain(s), "harness", Shipped.harness)
            = IF WithRow(WriteChain(s), "harness", rows) # {}
              THEN rows[Nearest(WriteChain(s), "harness", rows)]["harness"] ELSE Shipped["harness"]
      BY <1>2 DEF Resolve
    <3> QED
      BY <3>1, <3>5, <3>6
  <2>5. v \in ToSet(Offers[Resolve(WriteChain(s), "harness", Shipped.harness)])
    BY <1>0, <1>6 DEF Allowed
  <2>6. ~Runtime(s)'.error
    BY <2>3, <2>4, <2>5, PairFits
  <2> QED
    BY <2>6
<1>7. CASE f = "harness"
  <2>1. v \in Harnesses /\ Offers[v] \in Seq(Providers) /\ Offers[v] # <<>>
    BY <1>0, <1>7, OffersAssumption DEF Values
  <2>2. Head(Offers[v]) \in ToSet(Offers[v]) /\ Head(Offers[v]) \in Providers /\ Head(Offers[v]) # Unset
    BY <2>1, OffersAssumption DEF ToSet
  <2> DEFINE near == Nearest(WriteChain(s), "provider", first)
             fits == WithRow(WriteChain(s), "provider", first) # {} /\ first[near]["provider"] \in ToSet(Offers[v])
  <2>3. rows' = IF fits THEN first ELSE [first EXCEPT ![s]["provider"] = Head(Offers[v])]
    BY <1>2, <1>7 DEF Repaired
  <2>4. rows'[s]["harness"] = v
    BY <1>4, <1>7, <2>2, <2>3 DEF Table, Fields
  <2>5. Get(s, "harness")' = v
    <3>1. WithRow(Chain(s), "harness", rows') # {} /\ Nearest(Chain(s), "harness", rows') = s
      BY <1>3, <2>4, OwnScope
    <3> QED
      BY <1>2, <2>4, <3>1 DEF Get, Resolve
  <2>6. CASE fits
    <3>1. s = "agent_view" => first["workspace"]["provider"] = Unset
      BY <1>2, <1>4, <1>5 DEF Fields
    <3>2. WithRow(Chain(s), "provider", first) # {} /\ Nearest(Chain(s), "provider", first) = near
      BY <2>6, <3>1, SameChains
    <3>3. Get(s, "provider")' = first[near]["provider"]
      BY <2>3, <2>6, <3>2 DEF Get, Resolve
    <3>4. ~Runtime(s)'.error
      BY <2>5, <2>6, <3>3, PairFits
    <3> QED
      BY <3>4
  <2>7. CASE ~fits
    <3>1. rows'[s]["provider"] = Head(Offers[v])
      <4>1. rows' = [first EXCEPT ![s]["provider"] = Head(Offers[v])]
        BY <2>3, <2>7
      <4> QED
        BY <1>4, <4>1 DEF Table, Fields
    <3>2. WithRow(Chain(s), "provider", rows') # {} /\ Nearest(Chain(s), "provider", rows') = s
      BY <2>2, <3>1, OwnScope
    <3>3. Get(s, "provider")' = Head(Offers[v])
      BY <3>1, <3>2 DEF Get, Resolve
    <3>4. ~Runtime(s)'.error
      BY <2>2, <2>5, <3>3, PairFits
    <3> QED
      BY <3>4
  <2> QED
    BY <2>6, <2>7
<1> QED
  BY <1>6, <1>7 DEF Fields

LEMMA ConfigInitInv == NoWorkspaceBetween /\ ConfigInit => ConfigInv
<1> SUFFICES ASSUME NoWorkspaceBetween, ConfigInit PROVE ConfigInv
  OBVIOUS
<1>1. ConfigTypes
  BY DEF ConfigInit, ConfigTypes, NoWorkspaceBetween, Table, Save, NoSave, Scopes, Fields
<1>2. WorkspaceEmpty
  BY DEF ConfigInit, WorkspaceEmpty, NoneAtWorkspace, Scopes, Fields
<1>3. SavesValid
  BY DEF ConfigInit, SavesValid, NoSave
<1> QED
  BY <1>1, <1>2, <1>3 DEF ConfigInv

\* Rows that changed: typed, still none at the workspace of a view that is saved at.
LEMMA RowsWritten ==
  ASSUME NoWorkspaceBetween, ConfigInv, NEW s \in SavedScopes, NEW f \in Fields, NEW table \in Table,
         NEW v \in Harnesses \cup Providers \cup {Unset},
         NoneAtWorkspace(table)
  PROVE  [table EXCEPT ![s][f] = v] \in Table /\ NoneAtWorkspace([table EXCEPT ![s][f] = v])
<1>1. s \in Scopes
  BY DEF NoWorkspaceBetween
<1>2. "agent_view" \in SavedScopes => s # "workspace"
  BY DEF NoWorkspaceBetween
<1> QED
  BY <1>1, <1>2 DEF Table, Scopes, NoneAtWorkspace

LEMMA ValidateKeeps == ASSUME NoWorkspaceBetween, ConfigInv, NEW w \in Writers, Validate(w) PROVE ConfigInv'
<1>0. PICK s \in SavedScopes, f \in Fields : \E v \in Values(f) \cap Allowed(s, f) :
         /\ save' = [save EXCEPT ![w] = [scope |-> s, field |-> f, value |-> v]]
         /\ alone' = alone \cup {w} /\ rows' = rows /\ env' = env
  BY DEF Validate
<1>1. PICK v \in Values(f) \cap Allowed(s, f) :
         /\ save' = [save EXCEPT ![w] = [scope |-> s, field |-> f, value |-> v]]
         /\ alone' = alone \cup {w} /\ rows' = rows /\ env' = env
  BY <1>0
<1>2. s \in Scopes /\ v \in Harnesses \cup Providers /\ v # Unset /\ v \in Values(f)
  BY OffersAssumption DEF NoWorkspaceBetween, Values
<1>3. [scope |-> s, field |-> f, value |-> v] \in Save
  BY <1>2 DEF Save
<1>4. ConfigTypes' /\ WorkspaceEmpty'
  BY <1>1, <1>3 DEF ConfigInv, ConfigTypes, WorkspaceEmpty
<1>5. \A t, g : Allowed(t, g)' = Allowed(t, g)
  BY <1>1 DEF Allowed, Resolve
<1>6. save'[w] = [scope |-> s, field |-> f, value |-> v] /\ \A x \in Writers : x # w => save'[x] = save[x]
  BY <1>1 DEF ConfigInv, ConfigTypes
<1>7. save'[w] # NoSave
  BY <1>2, <1>6 DEF NoSave
<1>8. SavesValid'
  <2>1. \A x \in Writers : save'[x] # NoSave => /\ save'[x].scope \in SavedScopes
                                                /\ save'[x].value \in Values(save'[x].field)
    BY <1>2, <1>6 DEF ConfigInv, SavesValid
  <2>2. ASSUME NEW x \in alone'
        PROVE  x \in Writers /\ save'[x] # NoSave /\ save'[x].value \in Allowed(save'[x].scope, save'[x].field)
    BY <1>1, <1>6, <1>7 DEF ConfigInv, SavesValid
  <2> QED
    BY <1>5, <2>1, <2>2 DEF SavesValid
<1> QED
  BY <1>4, <1>8 DEF ConfigInv

LEMMA WriteKeeps == ASSUME NoWorkspaceBetween, ConfigInv, NEW w \in Writers, Write(w) PROVE ConfigInv'
<1>0. PICK s \in Scopes, f \in Fields : \E v \in Values(f) : save[w] = [scope |-> s, field |-> f, value |-> v] /\ s \in SavedScopes
  BY DEF ConfigInv, ConfigTypes, SavesValid, Write, Save
<1>1. PICK v \in Values(f) : save[w] = [scope |-> s, field |-> f, value |-> v] /\ s \in SavedScopes
  BY <1>0
<1>2. /\ rows' = Repaired(s, f, v, [rows EXCEPT ![s][f] = v]) \/ rows' = rows
      /\ save' = [save EXCEPT ![w] = NoSave] /\ env' = env
      /\ alone' = IF rows' = rows THEN alone \ {w} ELSE {}
  BY <1>1 DEF Write
<1>3. v \in Harnesses \cup Providers
  BY <1>1 DEF Values
<1> DEFINE first == [rows EXCEPT ![s][f] = v]
<1>4. first \in Table /\ NoneAtWorkspace(first)
  BY <1>1, <1>3, RowsWritten DEF ConfigInv, ConfigTypes, WorkspaceEmpty
<1> HIDE DEF first
<1>5. rows' = rows \/ rows' = first \/ (f = "harness" /\ rows' = [first EXCEPT ![s]["provider"] = Head(Offers[v])])
  BY <1>2 DEF Repaired, Fields, first
<1>6. rows' \in Table /\ NoneAtWorkspace(rows')
  <2>1. CASE rows' = rows
    BY <2>1 DEF ConfigInv, ConfigTypes, WorkspaceEmpty
  <2>2. CASE rows' = first
    BY <1>4, <2>2
  <2>3. CASE f = "harness" /\ rows' = [first EXCEPT ![s]["provider"] = Head(Offers[v])]
    <3> DEFINE new == Head(Offers[v])
    <3>1. new \in Harnesses \cup Providers \cup {Unset} /\ "provider" \in Fields
      BY <1>1, <2>3, OffersAssumption DEF Values, Fields
    <3>2. rows' = [first EXCEPT ![s]["provider"] = new]
      BY <2>3
    <3> HIDE DEF new
    <3> QED
      BY <1>1, <1>4, <3>1, <3>2, RowsWritten
  <2> QED
    BY <1>5, <2>1, <2>2, <2>3
<1>7. ConfigTypes' /\ WorkspaceEmpty'
  <2>1. NoSave \in Save
    BY DEF NoSave, Save, Scopes, Fields
  <2> QED
    BY <1>2, <1>6, <2>1 DEF ConfigInv, ConfigTypes, WorkspaceEmpty
<1>8. save'[w] = NoSave /\ \A x \in Writers : x # w => save'[x] = save[x]
  BY <1>2 DEF ConfigInv, ConfigTypes
<1>9. SavesValid'
  <2>1. \A x \in Writers : save'[x] # NoSave => /\ save'[x].scope \in SavedScopes
                                                /\ save'[x].value \in Values(save'[x].field)
    BY <1>8 DEF ConfigInv, SavesValid
  <2>2. ASSUME NEW x \in alone'
        PROVE  (x \in Writers /\ save[x] # NoSave /\ save[x].value \in Allowed(save[x].scope, save[x].field))'
    <3>1. rows' = rows /\ x \in alone /\ x # w
      BY <1>2, <2>2
    <3>2. \A t, g : Allowed(t, g)' = Allowed(t, g)
      BY <1>2, <3>1 DEF Allowed, Resolve
    <3> QED
      BY <1>8, <3>1, <3>2 DEF ConfigInv, SavesValid
  <2> QED
    BY <2>1, <2>2 DEF SavesValid
<1> QED
  BY <1>7, <1>9 DEF ConfigInv

LEMMA ConfigRemoveKeeps == ASSUME NoWorkspaceBetween, ConfigInv, ConfigRemove PROVE ConfigInv'
<1>1. PICK s \in SavedScopes, f \in Fields : rows' = [rows EXCEPT ![s][f] = Unset]
  BY DEF ConfigRemove
<1>2. alone' = {} /\ save' = save /\ env' = env
  BY DEF ConfigRemove
<1>3. rows' \in Table /\ NoneAtWorkspace(rows')
  <2>1. Unset \in Harnesses \cup Providers \cup {Unset} /\ rows \in Table /\ NoneAtWorkspace(rows)
    BY DEF ConfigInv, ConfigTypes, WorkspaceEmpty
  <2> QED
    BY <1>1, <2>1, RowsWritten
<1> QED
  BY <1>2, <1>3 DEF ConfigInv, ConfigTypes, WorkspaceEmpty, SavesValid

LEMMA ConfigStepKeeps == NoWorkspaceBetween /\ ConfigInv /\ [ConfigNext]_configVars => ConfigInv'
<1> SUFFICES ASSUME NoWorkspaceBetween, ConfigInv, [ConfigNext]_configVars PROVE ConfigInv'
  OBVIOUS
<1>1. CASE StartJob \/ UNCHANGED configVars
  <2>1. rows' = rows /\ env' = env /\ save' = save /\ alone' = alone
    BY <1>1 DEF StartJob, configVars
  <2>2. \A t, g : Allowed(t, g)' = Allowed(t, g)
    BY <2>1 DEF Allowed, Resolve
  <2> QED
    BY <2>1, <2>2 DEF ConfigInv, ConfigTypes, WorkspaceEmpty, SavesValid
<1> QED
  BY <1>1, ValidateKeeps, WriteKeeps, ConfigRemoveKeeps DEF ConfigNext

\* Only its own write ends a writer's save.
LEMMA SavedPairStep ==
  NoWorkspaceBetween /\ ConfigInv /\ [ConfigNext]_configVars
    => \A w \in alone, s \in Scopes : save'[w] = NoSave /\ rows' # rows /\ save[w].scope = s => ~Runtime(s)'.error
<1> SUFFICES ASSUME NoWorkspaceBetween, ConfigInv, [ConfigNext]_configVars, NEW w \in alone, NEW s \in Scopes,
                    save'[w] = NoSave, rows' # rows, save[w].scope = s
             PROVE  ~Runtime(s)'.error
  OBVIOUS
<1>1. w \in Writers /\ save[w] # NoSave
  BY DEF ConfigInv, SavesValid
<1>2. Write(w)
  <2>1. \A x \in Writers : ~Validate(x)
    BY DEF Validate
  <2>2. ~ConfigRemove /\ ~StartJob /\ ~UNCHANGED configVars
    BY <1>1 DEF ConfigRemove, StartJob, configVars
  <2>3. PICK x \in Writers : Write(x)
    BY <2>1, <2>2 DEF ConfigNext
  <2>4. save' = [save EXCEPT ![x] = NoSave] /\ save \in [Writers -> Save]
    BY <2>3 DEF Write, ConfigInv, ConfigTypes
  <2>5. x = w
    BY <1>1, <2>4
  <2> QED
    BY <2>3, <2>5
<1> QED
  BY <1>2, SavedFits

\* For any writers, harnesses, providers, offers, saves, removals and interleavings, when a view and
\* its workspace are not both saved at: a save that nothing came between leaves a pair that runs
\* (write_config with reset_dependents).
THEOREM SavesLeaveAPair ==
  ASSUME NoWorkspaceBetween
  PROVE  ConfigSpec => SavedPairRuns
<1>1. ConfigInit => ConfigInv
  BY ConfigInitInv
<1>2. ConfigInv /\ [ConfigNext]_configVars => ConfigInv'
  BY ConfigStepKeeps
<1>3. ConfigInv /\ [ConfigNext]_configVars
      => [\A w \in alone, s \in Scopes :
            save'[w] = NoSave /\ rows' # rows /\ save[w].scope = s => ~Runtime(s)'.error]_configVars
  BY SavedPairStep
<1> QED
  BY <1>1, <1>2, <1>3, PTL DEF ConfigSpec, SavedPairRuns

-----------------------------------------------------------------------------
(* SetupUpgrade: the order of modules *)

\* A set of numbers has a least one (of the sets 0..n, one includes no other).
LEMMA LeastNatural ==
    ASSUME NEW S \in SUBSET Nat, S # {}
    PROVE  \E n \in S : \A m \in S : n <= m
<1> DEFINE below == {0..n : n \in S}
           R == StrictSubsetOrdering(Nat)
<1>1. below \subseteq FiniteSubsetsOf(Nat) /\ below # {}
  <2>1. ASSUME NEW n \in S PROVE IsFiniteSet(0..n) /\ 0..n \subseteq Nat
    BY FS_Interval
  <2> QED
    BY <2>1 DEF FiniteSubsetsOf
<1>2. IsWellFoundedOn(R, FiniteSubsetsOf(Nat))
  BY FS_StrictSubsetOrderingWellFounded
<1>3. \E x \in below : \A y \in below : <<y, x>> \notin R
  <2> HIDE DEF below, R
  <2> QED BY <1>1, <1>2, WFMin
<1>4. PICK n \in S : \A m \in S : <<0..m, 0..n>> \notin R
  BY <1>3
<1>5. ASSUME NEW m \in S, m < n PROVE FALSE
  <2>1. 0..m \subseteq 0..n /\ n \in 0..n /\ n \notin 0..m
    BY <1>5
  <2>2. 0..m \in SUBSET Nat /\ 0..n \in SUBSET Nat /\ 0..m # 0..n
    BY <2>1
  <2> QED
    BY <1>4, <2>1, <2>2 DEF StrictSubsetOrdering
<1> QED
  BY <1>5

LEMMA UpTo ==
  ASSUME NEW d \in Nat, NEW S, 0 \in S, \A n \in 0..d : n \in S /\ n < d => n + 1 \in S
  PROVE  \A n \in 0..d : n \in S
<1> DEFINE out == {n \in 0..d : n \notin S}
<1>1. ASSUME NEW n \in out, \A m \in out : n <= m PROVE FALSE
  <2>1. n \in 0..d /\ n # 0 /\ n - 1 \in 0..d /\ n - 1 < d
    OBVIOUS
  <2>2. n - 1 \notin out
    BY <1>1, <2>1
  <2>3. (n - 1) + 1 \in S
    BY <2>1, <2>2
  <2> QED
    BY <2>1, <2>3
<1>2. out \subseteq Nat
  OBVIOUS
<1>3. out = {}
  <2> HIDE DEF out
  <2> QED BY <1>1, <1>2, LeastNatural
<1> QED
  BY <1>3

\* What is computed in d rounds from b, each a step in U, is a function on the rounds.
RoundsOf(f, b, d, F) == f[0] = b /\ \A n \in 1..d : f[n] = F[<<n, f[n - 1]>>]

LEMMA Rounds ==
  ASSUME NEW U, NEW b \in U, NEW d \in Nat, NEW F \in [(1..d) \X U -> U]
  PROVE  \E f \in [0..d -> U] : RoundsOf(f, b, d, F)
<1> DEFINE Upto(f, k) == f[0] = b /\ \A n \in 1..k : f[n] = F[<<n, f[n - 1]>>]
           S == {k \in 0..d : \E f \in [0..d -> U] : Upto(f, k)}
<1>1. 0 \in S
  <2>1. [n \in 0..d |-> b] \in [0..d -> U] /\ Upto([n \in 0..d |-> b], 0)
    OBVIOUS
  <2>2. 0 \in 0..d
    OBVIOUS
  <2> HIDE DEF Upto
  <2> QED
    BY <2>1, <2>2
<1>2. ASSUME NEW k \in 0..d, k \in S, k < d PROVE k + 1 \in S
  <2>1. PICK f \in [0..d -> U] : Upto(f, k)
    BY <1>2
  <2>2. <<k + 1, f[k]>> \in (1..d) \X U
    BY <1>2, <2>1
  <2> DEFINE g == [f EXCEPT ![k + 1] = F[<<k + 1, f[k]>>]]
  <2>3. g \in [0..d -> U] /\ g[k + 1] = F[<<k + 1, f[k]>>] /\ \A n \in 0..k : g[n] = f[n]
    BY <1>2, <2>1, <2>2
  <2> HIDE DEF g
  <2>4. g[0] = b
    BY <2>1, <2>3
  <2>5. ASSUME NEW n \in 1..(k + 1) PROVE g[n] = F[<<n, g[n - 1]>>]
    <3>1. CASE n = k + 1
      <4>1. n - 1 = k /\ k \in 0..k
        BY <3>1
      <4> QED
        BY <2>3, <3>1, <4>1
    <3>2. CASE n # k + 1
      <4>1. n \in 1..k /\ n \in 0..k /\ n - 1 \in 0..k
        BY <3>2
      <4> QED
        BY <2>1, <2>3, <4>1
    <3> QED
      BY <3>1, <3>2
  <2>6. Upto(g, k + 1)
    BY <2>4, <2>5
  <2> HIDE DEF Upto
  <2> QED
    BY <1>2, <2>3, <2>6
<1>3. d \in S
  <2> HIDE DEF S
  <2>1. d \in 0..d
    OBVIOUS
  <2> QED BY <1>1, <1>2, <2>1, UpTo
<1> QED
  BY <1>3 DEF RoundsOf

\* What comes before the migration and the patch of a unit.
Needs(u) == IF u = 0 THEN {} ELSE requires[u] \cup {0}

\* In a sequence of units everything that is not done yet comes after what it needs.
After(seq, done) == \A i \in DOMAIN seq : Needs(seq[i]) \subseteq done \cup {seq[j] : j \in 1..(i - 1)}

LEMMA AfterMore ==
  ASSUME NEW seq, NEW done, NEW more, After(seq, done), done \subseteq more
  PROVE  After(seq, more)
BY DEF After

LEMMA AfterHead ==
  ASSUME NEW S, NEW seq \in Seq(S), NEW done, After(seq, done), seq # <<>>
  PROVE  Needs(Head(seq)) \subseteq done
<1>1. 1 \in DOMAIN seq /\ seq[1] = Head(seq) /\ {seq[j] : j \in 1..(1 - 1)} = {}
  OBVIOUS
<1> QED
  BY <1>1 DEF After

LEMMA AfterTail ==
  ASSUME NEW S, NEW seq \in Seq(S), NEW done, After(seq, done), seq # <<>>, Head(seq) \in done
  PROVE  After(Tail(seq), done)
<1> SUFFICES ASSUME NEW i \in DOMAIN Tail(seq), NEW x \in Needs(Tail(seq)[i])
             PROVE  x \in done \/ \E j \in 1..(i - 1) : x = Tail(seq)[j]
  BY DEF After
<1>1. i \in 1..(Len(seq) - 1) /\ i + 1 \in DOMAIN seq /\ Tail(seq)[i] = seq[i + 1] /\ (i + 1) - 1 = i
  OBVIOUS
<1>2. x \in done \/ \E j \in 1..i : x = seq[j]
  BY <1>1 DEF After
<1>3. ASSUME NEW j \in 1..i, x = seq[j] PROVE x \in done \/ \E k \in 1..(i - 1) : x = Tail(seq)[k]
  <2>1. CASE j = 1
    BY <1>3, <2>1
  <2>2. CASE j # 1
    <3>1. j - 1 \in 1..(i - 1) /\ Tail(seq)[j - 1] = seq[j]
      BY <1>1, <2>2
    <3> QED
      BY <1>3, <3>1
  <2> QED
    BY <2>1, <2>2
<1> QED
  BY <1>2, <1>3

LEMMA AfterAppend ==
  ASSUME NEW S, NEW seq \in Seq(S), NEW done, NEW u \in S, After(seq, done), Needs(u) \subseteq done \cup ToSet(seq)
  PROVE  After(Append(seq, u), done)
<1> DEFINE new == Append(seq, u)
<1>1. /\ DOMAIN new = 1..(Len(seq) + 1) /\ new[Len(seq) + 1] = u /\ Len(seq) \in Nat
      /\ DOMAIN seq = 1..Len(seq) /\ \A i \in 1..Len(seq) : new[i] = seq[i]
  OBVIOUS
<1> HIDE DEF new
<1> SUFFICES ASSUME NEW i \in DOMAIN new, NEW x \in Needs(new[i])
             PROVE  x \in done \/ \E j \in 1..(i - 1) : x = new[j]
  BY DEF After, new
<1>2. CASE i = Len(seq) + 1
  <2>1. x \in done \/ \E j \in 1..Len(seq) : x = seq[j]
    BY <1>1, <1>2 DEF ToSet
  <2> QED
    BY <1>1, <1>2, <2>1
<1>3. CASE i # Len(seq) + 1
  <2>1. i \in DOMAIN seq /\ new[i] = seq[i]
    BY <1>1, <1>3
  <2>2. x \in done \/ \E j \in 1..(i - 1) : x = seq[j]
    BY <2>1 DEF After
  <2>3. \A j \in 1..(i - 1) : new[j] = seq[j]
    BY <1>1, <2>1
  <2> QED
    BY <2>2, <2>3
<1> QED
  BY <1>2, <1>3

\* The framework's own migrations come first.
LEMMA AfterFramework ==
  ASSUME NEW seq \in Seq(Mods), After(seq, {0})
  PROVE  <<0>> \o seq \in Seq(Units) /\ After(<<0>> \o seq, {})
<1> DEFINE new == <<0>> \o seq
<1>1. /\ new \in Seq(Units) /\ DOMAIN new = 1..(Len(seq) + 1) /\ new[1] = 0 /\ Len(seq) \in Nat
      /\ DOMAIN seq = 1..Len(seq) /\ \A i \in 1..Len(seq) : new[i + 1] = seq[i]
  BY DEF Units
<1> HIDE DEF new
<1> SUFFICES ASSUME NEW i \in DOMAIN new, NEW x \in Needs(new[i])
             PROVE  \E j \in 1..(i - 1) : x = new[j]
  BY <1>1 DEF After, new
<1>2. i # 1
  BY <1>1 DEF Needs
<1>3. i - 1 \in DOMAIN seq /\ (i - 1) + 1 = i /\ new[i] = seq[i - 1]
  BY <1>1, <1>2
<1>4. x = 0 \/ \E j \in 1..((i - 1) - 1) : x = seq[j]
  BY <1>3 DEF After
<1>5. ASSUME NEW j \in 1..((i - 1) - 1), x = seq[j] PROVE \E k \in 1..(i - 1) : x = new[k]
  <2>1. j + 1 \in 1..(i - 1) /\ new[j + 1] = seq[j]
    BY <1>1, <1>3
  <2> QED
    BY <1>5, <2>1
<1>6. CASE x = 0
  BY <1>1, <1>2, <1>6
<1> QED
  BY <1>4, <1>5, <1>6

-----------------------------------------------------------------------------
(* SetupUpgrade: what the rounds of the resolver compute *)

Keep(kept) == {m \in kept : requires[m] \subseteq kept}
Passes(f, mods) == f = [n \in 0 .. Cardinality(mods) |-> IF n = 0 THEN mods ELSE Keep(f[n - 1])]

LEMMA AvailableIsFound ==
  ASSUME NEW mods \in SUBSET Mods
  PROVE  Available(mods) \subseteq mods
<1> DEFINE d == Cardinality(mods)
           F == [x \in (1..d) \X SUBSET mods |-> Keep(x[2])]
           g == CHOOSE f : Passes(f, mods)
<1>1. d \in Nat
  BY ModsAssumption, FS_Subset, FS_CardinalityType
<1>2. F \in [(1..d) \X SUBSET mods -> SUBSET mods] /\ \A n \in 1..d, k \in SUBSET mods : F[<<n, k>>] = Keep(k)
  BY DEF Keep
<1> HIDE DEF F, d
<1>3. PICK f \in [0..d -> SUBSET mods] : RoundsOf(f, mods, d, F)
  <2>1. mods \in SUBSET mods
    OBVIOUS
  <2>2. F \in [(1..d) \X SUBSET mods -> SUBSET mods]
    BY <1>2
  <2> QED
    BY <1>1, <2>1, <2>2, Rounds, Zenon
<1>4. f = [n \in 0..d |-> IF n = 0 THEN mods ELSE Keep(f[n - 1])]
  <2>1. ASSUME NEW n \in 0..d, n # 0 PROVE f[n] = Keep(f[n - 1])
    <3>1. n \in 1..d /\ n - 1 \in 0..d
      BY <1>1, <2>1
    <3> QED
      BY <1>2, <1>3, <3>1 DEF RoundsOf
  <2> QED
    BY <1>3, <2>1 DEF RoundsOf
<1>5. Passes(g, mods)
  <2>1. \E h : Passes(h, mods)
    BY <1>4 DEF Passes, d
  <2> QED
    BY <2>1, Zenon
<1>6. Available(mods) = g[d]
  BY DEF Available, Passes, Keep, d
<1> HIDE DEF g
<1> DEFINE S == {n \in 0..d : g[n] \in SUBSET mods}
<1>7. \A n \in 0..d : g[n] = IF n = 0 THEN mods ELSE Keep(g[n - 1])
  BY <1>5 DEF Passes, d
<1>8. 0 \in S
  BY <1>1, <1>7
<1>9. ASSUME NEW n \in 0..d, n \in S, n < d PROVE n + 1 \in S
  <2>1. n + 1 \in 0..d /\ n + 1 # 0 /\ (n + 1) - 1 = n
    BY <1>1, <1>9
  <2>2. g[n + 1] = Keep(g[n])
    BY <1>7, <2>1
  <2> QED
    BY <1>9, <2>1, <2>2 DEF Keep
<1>10. d \in S
  <2> HIDE DEF S
  <2>1. d \in 0..d
    BY <1>1
  <2> QED BY <1>1, <1>8, <1>9, <2>1, UpTo
<1> QED
  BY <1>6, <1>10

Ready(valid, placed) == {m \in valid \ ToSet(placed) : requires[m] \subseteq ToSet(placed)}
Place(valid, placed) == IF Ready(valid, placed) = {} THEN placed ELSE Append(placed, Min(Ready(valid, placed)))
Orders(f, valid) == f = [n \in 0 .. Cardinality(valid) |-> IF n = 0 THEN <<>> ELSE Place(valid, f[n - 1])]

Placings == {s \in Seq(Mods) : After(s, {0})}

LEMMA PlaceKeepsOrder ==
  ASSUME NEW valid \in SUBSET Mods, NEW placed \in Placings
  PROVE  Place(valid, placed) \in Placings
<1> DEFINE R == Ready(valid, placed)
<1>1. CASE R = {}
  BY <1>1 DEF Place
<1>2. CASE R # {}
  <2>1. R \subseteq Mods /\ R \in SUBSET Nat
    BY ModsAssumption DEF Ready
  <2>2. Min(R) \in R
    <3> HIDE DEF R
    <3>1. \E x \in R : \A y \in R : x =< y
      BY <1>2, <2>1, LeastNatural
    <3> QED
      BY <3>1 DEF Min
  <2> DEFINE m == Min(R)
  <2>3. m \in Mods /\ requires[m] \subseteq ToSet(placed)
    BY <2>1, <2>2 DEF Ready
  <2>4. Place(valid, placed) = Append(placed, m)
    BY <1>2 DEF Place
  <2> HIDE DEF m, R
  <2>5. Needs(m) \subseteq {0} \cup ToSet(placed)
    BY <2>3 DEF Needs
  <2>6. placed \in Seq(Mods) /\ After(placed, {0})
    BY DEF Placings
  <2>7. After(Append(placed, m), {0})
    BY <2>3, <2>5, <2>6, AfterAppend
  <2>8. Append(placed, m) \in Seq(Mods)
    BY <2>3, <2>6
  <2> QED
    BY <2>4, <2>7, <2>8 DEF Placings
<1> QED
  BY <1>1, <1>2

\* Kahn's algorithm places a module after all that it requires.
LEMMA ResolvedInOrder ==
  ASSUME NEW mods \in SUBSET Mods
  PROVE  ResolveOrder(mods) \in Seq(Mods) /\ After(ResolveOrder(mods), {0})
<1> DEFINE valid == Available(mods)
           d == Cardinality(valid)
           F == [x \in (1..d) \X Placings |-> Place(valid, x[2])]
           g == CHOOSE f : Orders(f, valid)
<1>1. valid \in SUBSET Mods
  BY AvailableIsFound
<1>2. d \in Nat
  <2> HIDE DEF valid
  <2> QED
    BY <1>1, ModsAssumption, FS_Subset, FS_CardinalityType
<1>3. ResolveOrder(mods) = g[d]
  BY DEF ResolveOrder, Orders, Place, Ready
<1> HIDE DEF valid
<1>4. F \in [(1..d) \X Placings -> Placings] /\ \A n \in 1..d, s \in Placings : F[<<n, s>>] = Place(valid, s)
  BY <1>1, PlaceKeepsOrder
<1>5. <<>> \in Placings
  <2>1. <<>> \in Seq(Mods)
    OBVIOUS
  <2>2. After(<<>>, {0})
    BY DEF After
  <2> QED
    BY <2>1, <2>2 DEF Placings
<1> HIDE DEF F, d
<1>6. PICK f \in [0..d -> Placings] : RoundsOf(f, <<>>, d, F)
  <2>1. F \in [(1..d) \X Placings -> Placings]
    BY <1>4
  <2> QED
    BY <1>2, <1>5, <2>1, Rounds, Zenon
<1>7. f = [n \in 0..d |-> IF n = 0 THEN <<>> ELSE Place(valid, f[n - 1])]
  <2>1. ASSUME NEW n \in 0..d, n # 0 PROVE f[n] = Place(valid, f[n - 1])
    <3>1. n \in 1..d /\ n - 1 \in 0..d
      BY <1>2, <2>1
    <3> QED
      BY <1>4, <1>6, <3>1 DEF RoundsOf
  <2> QED
    BY <1>6, <2>1 DEF RoundsOf
<1>8. Orders(g, valid)
  <2>1. \E h : Orders(h, valid)
    BY <1>7 DEF Orders, d
  <2> QED
    BY <2>1, Zenon
<1> HIDE DEF g
<1>9. \A n \in 0..d : g[n] = IF n = 0 THEN <<>> ELSE Place(valid, g[n - 1])
  BY <1>8 DEF Orders, d
<1> DEFINE S == {n \in 0..d : g[n] \in Placings}
<1>10. 0 \in S
  BY <1>2, <1>5, <1>9
<1>11. ASSUME NEW n \in 0..d, n \in S, n < d PROVE n + 1 \in S
  <2>1. n + 1 \in 0..d /\ n + 1 # 0 /\ (n + 1) - 1 = n
    BY <1>2, <1>11
  <2>2. g[n + 1] = Place(valid, g[n])
    BY <1>9, <2>1
  <2> QED
    BY <1>1, <1>11, <2>1, <2>2, PlaceKeepsOrder
<1>12. d \in S
  <2> HIDE DEF S
  <2>1. d \in 0..d
    BY <1>2
  <2> QED BY <1>2, <1>10, <1>11, <2>1, UpTo
<1> QED
  BY <1>3, <1>12 DEF Placings

Take(found, m) == IF m \in patched \cup {0} THEN found ELSE Append(found, m)
Takes(f, mods) == f = [n \in 0 .. Len(mods) |-> IF n = 0 THEN <<>> ELSE Take(f[n - 1], mods[n])]

\* The patches that are pending keep the order of their modules.
LEMMA UnpatchedInOrder ==
  ASSUME NEW mods \in Seq(Units), After(mods, {})
  PROVE  Unpatched(mods) \in Seq(Mods) /\ After(Unpatched(mods), patched \cup {0})
<1> DEFINE d == Len(mods)
           done == patched \cup {0}
           F == [x \in (1..d) \X Seq(Mods) |-> Take(x[2], mods[x[1]])]
           g == CHOOSE f : Takes(f, mods)
<1>1. d \in Nat /\ DOMAIN mods = 1..d /\ \A n \in 1..d : mods[n] \in Units
  OBVIOUS
<1>2. Unpatched(mods) = g[d]
  BY DEF Unpatched, Takes, Take
<1> HIDE DEF d
<1>3. ASSUME NEW n \in 1..d, NEW s \in Seq(Mods) PROVE Take(s, mods[n]) \in Seq(Mods)
  BY <1>1 DEF Take, Units
<1>4. F \in [(1..d) \X Seq(Mods) -> Seq(Mods)] /\ \A n \in 1..d, s \in Seq(Mods) : F[<<n, s>>] = Take(s, mods[n])
  BY <1>3
<1>5. <<>> \in Seq(Mods)
  OBVIOUS
<1> HIDE DEF F
<1>6. PICK f \in [0..d -> Seq(Mods)] : RoundsOf(f, <<>>, d, F)
  <2>1. F \in [(1..d) \X Seq(Mods) -> Seq(Mods)] /\ d \in Nat
    BY <1>1, <1>4
  <2> QED
    BY <1>5, <2>1, Rounds, Zenon
<1>7. f = [n \in 0..d |-> IF n = 0 THEN <<>> ELSE Take(f[n - 1], mods[n])]
  <2>1. ASSUME NEW n \in 0..d, n # 0 PROVE f[n] = Take(f[n - 1], mods[n])
    <3>1. n \in 1..d /\ n - 1 \in 0..d
      BY <1>1, <2>1
    <3> QED
      BY <1>4, <1>6, <3>1 DEF RoundsOf
  <2> QED
    BY <1>6, <2>1 DEF RoundsOf
<1>8. Takes(g, mods)
  <2>1. \E h : Takes(h, mods)
    BY <1>7 DEF Takes, d
  <2> QED
    BY <2>1, Zenon
<1> HIDE DEF g
<1>9. \A n \in 0..d : g[n] = IF n = 0 THEN <<>> ELSE Take(g[n - 1], mods[n])
  BY <1>8 DEF Takes, d
<1> DEFINE Good(n) == /\ g[n] \in Seq(Mods) /\ After(g[n], done)
                      /\ \A i \in 1..n : mods[i] \in done \cup ToSet(g[n])
           S == {n \in 0..d : Good(n)}
<1>10. 0 \in S
  <2>1. g[0] = <<>>
    BY <1>1, <1>9
  <2>2. After(<<>>, done)
    BY DEF After
  <2>3. Good(0)
    BY <1>5, <2>1, <2>2
  <2> HIDE DEF Good
  <2> QED
    BY <1>1, <2>3
<1>11. ASSUME NEW n \in 0..d, n \in S, n < d PROVE n + 1 \in S
  <2>1. n + 1 \in 0..d /\ n + 1 # 0 /\ (n + 1) - 1 = n /\ n + 1 \in 1..d
    <3> HIDE DEF S, Good
    <3>1. n < d /\ n \in 0..d /\ d \in Nat
      BY <1>1, <1>11
    <3> QED
      BY <3>1
  <2>2. g[n + 1] = Take(g[n], mods[n + 1])
    BY <1>9, <2>1
  <2>3. Good(n)
    BY <1>11
  <2>4. CASE mods[n + 1] \in done
    <3>1. g[n + 1] = g[n]
      BY <2>2, <2>4 DEF Take
    <3>2. Good(n + 1)
      <4>1. \A i \in 1..(n + 1) : i \in 1..n \/ i = n + 1
        OBVIOUS
      <4> QED
        BY <2>3, <2>4, <3>1, <4>1
    <3> HIDE DEF Good
    <3> QED
      BY <2>1, <3>2
  <2>5. CASE mods[n + 1] \notin done
    <3> DEFINE m == mods[n + 1]
    <3>1. g[n + 1] = Append(g[n], m)
      BY <2>2, <2>5 DEF Take
    <3>2. m \in Mods
      BY <1>1, <2>1, <2>5 DEF Units
    <3>3. Needs(m) \subseteq {mods[j] : j \in 1..n}
      BY <1>1, <2>1 DEF After
    <3> HIDE DEF m
    <3>4. Needs(m) \subseteq done \cup ToSet(g[n])
      BY <2>3, <3>3
    <3> HIDE DEF done
    <3>5. After(Append(g[n], m), done)
      BY <2>3, <3>2, <3>4, AfterAppend
    <3>6. Append(g[n], m) \in Seq(Mods)
      BY <2>3, <3>2
    <3>7. ToSet(g[n]) \subseteq ToSet(Append(g[n], m)) /\ m \in ToSet(Append(g[n], m))
      <4>1. Len(g[n]) + 1 \in DOMAIN Append(g[n], m) /\ Append(g[n], m)[Len(g[n]) + 1] = m
        BY <2>3, <3>2
      <4>2. \A i \in DOMAIN g[n] : i \in DOMAIN Append(g[n], m) /\ Append(g[n], m)[i] = g[n][i]
        BY <2>3, <3>2
      <4> QED
        BY <4>1, <4>2 DEF ToSet
    <3>8. \A i \in 1..(n + 1) : i \in 1..n \/ i = n + 1
      OBVIOUS
    <3>9. Good(n + 1)
      BY <2>3, <3>1, <3>5, <3>6, <3>7, <3>8 DEF m
    <3> HIDE DEF Good
    <3> QED
      BY <2>1, <3>9
  <2> QED
    BY <2>4, <2>5
<1>12. d \in S
  <2> HIDE DEF S
  <2>1. d \in 0..d
    BY <1>1
  <2> QED BY <1>1, <1>10, <1>11, <2>1, UpTo
<1> QED
  BY <1>2, <1>12

-----------------------------------------------------------------------------
(* SetupUpgrade: migrations and patches of commands that interleave *)

Pcs == {"idle", "pending", "ddl", "dml", "record", "patches", "patch", "onboard", "switch", "write"}
Command(T) == [pc : Pcs, mods : Seq(Units), open : T, todo : T, read : SUBSET Mods, on : BOOLEAN]

\* Of the modules to be disabled it does not matter what they are.
SetupTypes ==
    /\ requires \in [Mods -> SUBSET (Nat \ {0})]
    /\ enabled \subseteq Mods
    /\ \E T : proc \in [Operators -> Command(T)]

\* What is left to do for a command is in order, given what is recorded and patched.
CommandOK(c, rec, pat) ==
    /\ After(c.mods, {})
    /\ c.pc \in {"pending", "ddl", "dml", "record"}
         => c.todo \in Seq(Units) /\ After(c.todo, rec) /\ (c.pc # "pending" => c.todo # <<>>)
    /\ c.pc = "patch" => c.todo \in Seq(Mods) /\ After(c.todo, pat \cup {0})
    /\ c.pc \in {"switch", "write"} /\ c.on => c.todo \in Seq(Mods)
    /\ c.pc = "write" => c.todo # <<>>

SetupInv == SetupTypes /\ \A p \in Operators : CommandOK(proc[p], recorded, patched)

LEMMA MoreIsDone ==
  ASSUME NEW c, NEW rec, NEW pat, NEW rec2, NEW pat2, CommandOK(c, rec, pat), rec \subseteq rec2, pat \subseteq pat2
  PROVE  CommandOK(c, rec2, pat2)
<1>1. \A seq : After(seq, rec) => After(seq, rec2)
  BY AfterMore
<1>2. \A seq : After(seq, pat \cup {0}) => After(seq, pat2 \cup {0})
  BY AfterMore
<1> QED
  BY <1>1, <1>2 DEF CommandOK

\* The order of modules does not change.
LEMMA SameOrder ==
  ASSUME requires' = requires, \A q \in Operators : CommandOK(proc'[q], recorded', patched')
  PROVE  \A q \in Operators : CommandOK(proc[q], recorded, patched)'
<1>1. \A u : Needs(u)' = Needs(u)
  BY DEF Needs
<1>2. \A seq, done : After(seq, done)' <=> After(seq, done)
  BY <1>1 DEF After
<1> QED
  BY <1>2 DEF CommandOK

LEMMA IdleOK == \A rec, pat : NoCommand \in Command({{}, <<>>}) /\ CommandOK(NoCommand, rec, pat)
<1>1. <<>> \in Seq(Units) /\ DOMAIN <<>> = {}
  OBVIOUS
<1> QED
  BY <1>1 DEF NoCommand, Command, CommandOK, After, Pcs

\* A command moves on, or stops, and nothing that was done is undone.
LEMMA StepKeeps ==
  ASSUME SetupInv, NEW p \in Operators, NEW to, NEW T, to \in Command(T), Step(p, to),
         CommandOK(to, recorded', patched'), requires' = requires, recorded \subseteq recorded',
         patched \subseteq patched', enabled' \subseteq Mods
  PROVE  SetupInv'
<1>1. PICK T0 : proc \in [Operators -> Command(T0)]
  BY DEF SetupInv, SetupTypes
<1>2. to \in Command(T0 \cup T) /\ \A q \in Operators : proc[q] \in Command(T0 \cup T)
  BY <1>1 DEF Command
<1>3. proc' = [proc EXCEPT ![p] = to]
  BY DEF Step
<1>4. proc' \in [Operators -> Command(T0 \cup T)] /\ proc'[p] = to /\ \A q \in Operators : q # p => proc'[q] = proc[q]
  BY <1>1, <1>2, <1>3
<1>5. SetupTypes'
  BY <1>4 DEF SetupInv, SetupTypes
<1>6. ASSUME NEW q \in Operators PROVE CommandOK(proc'[q], recorded', patched')
  <2>1. CASE q = p
    BY <1>4, <2>1
  <2>2. CASE q # p
    BY <1>4, <2>2, MoreIsDone DEF SetupInv
  <2> QED
    BY <2>1, <2>2
<1>7. \A q \in Operators : CommandOK(proc[q], recorded, patched)'
  BY <1>6, SameOrder
<1> QED
  BY <1>5, <1>7 DEF SetupInv

LEMMA StopKeeps ==
  ASSUME SetupInv, NEW p \in Operators, Stops(p), requires' = requires, recorded \subseteq recorded',
         patched \subseteq patched', enabled' \subseteq Mods
  PROVE  SetupInv'
BY IdleOK, StepKeeps DEF Stops

\* The part of the state that a command reads about itself.
LEMMA OwnCommand ==
  ASSUME SetupInv, NEW p \in Operators
  PROVE  \E T : proc[p] \in Command(T) /\ CommandOK(proc[p], recorded, patched)
BY DEF SetupInv, SetupTypes

LEMMA SetupInitInv == SetupInit => SetupInv
<1> SUFFICES ASSUME SetupInit PROVE SetupInv
  OBVIOUS
<1>1. requires \in [Mods -> SUBSET (Nat \ {0})] /\ enabled \subseteq Mods
  BY ModsAssumption DEF SetupInit
<1>2. proc = [p \in Operators |-> NoCommand]
  BY DEF SetupInit
<1>3. proc \in [Operators -> Command({{}, <<>>})]
  BY <1>2, IdleOK
<1>4. \A p \in Operators : CommandOK(proc[p], recorded, patched)
  BY <1>2, IdleOK
<1> QED
  BY <1>1, <1>3, <1>4 DEF SetupInv, SetupTypes

LEMMA SetupScanKeeps == ASSUME SetupInv, NEW p \in Operators, SetupScan(p) PROVE SetupInv'
<1> DEFINE seq == <<0>> \o ResolveOrder(enabled)
           to == [NoCommand EXCEPT !.pc = "pending", !.mods = seq, !.todo = seq]
<1>1. Step(p, to) /\ requires' = requires /\ recorded' = recorded /\ patched' = patched /\ enabled' = enabled
  BY DEF SetupScan
<1>2. enabled \in SUBSET Mods
  BY DEF SetupInv, SetupTypes
<1>3. ResolveOrder(enabled) \in Seq(Mods) /\ After(ResolveOrder(enabled), {0})
  BY <1>2, ResolvedInOrder
<1>4. seq \in Seq(Units) /\ After(seq, {})
  BY <1>3, AfterFramework
<1> HIDE DEF seq
<1>5. After(seq, recorded)
  BY <1>4, AfterMore
<1>6. to \in Command({{}, seq})
  BY <1>4 DEF Command, NoCommand, Pcs
<1>7. CommandOK(to, recorded', patched')
  BY <1>1, <1>4, <1>5 DEF CommandOK, NoCommand
<1> HIDE DEF to
<1> QED
  BY <1>1, <1>2, <1>6, <1>7, StepKeeps

LEMMA GetPendingKeeps == ASSUME SetupInv, NEW p \in Operators, GetPending(p) PROVE SetupInv'
<1>1. PICK c : c = proc[p]
  OBVIOUS
<1>2. PICK T : c \in Command(T) /\ CommandOK(c, recorded, patched)
  BY <1>1, OwnCommand
<1>3. /\ c.pc = "pending" /\ requires' = requires /\ recorded' = recorded /\ patched' = patched
      /\ enabled' = enabled /\ enabled \subseteq Mods
  BY <1>1 DEF GetPending, SetupInv, SetupTypes
<1>4. c.todo \in Seq(Units) /\ After(c.todo, recorded) /\ After(c.mods, {})
  BY <1>2, <1>3 DEF CommandOK
<1>5. CASE c.todo = <<>>
  <2> DEFINE to == [c EXCEPT !.pc = "patches"]
  <2>1. Step(p, to)
    BY <1>1, <1>5 DEF GetPending, StepTo
  <2>2. to \in Command(T) /\ CommandOK(to, recorded', patched')
    BY <1>2, <1>4 DEF Command, CommandOK, Pcs
  <2> HIDE DEF to
  <2> QED
    BY <1>3, <2>1, <2>2, StepKeeps
<1>6. CASE c.todo # <<>> /\ Head(c.todo) \in recorded
  <2> DEFINE rest == Tail(c.todo)
             to == [c EXCEPT !.todo = rest]
  <2>1. Step(p, to)
    BY <1>1, <1>6 DEF GetPending
  <2>2. rest \in Seq(Units) /\ After(rest, recorded)
    BY <1>4, <1>6, AfterTail
  <2> HIDE DEF rest
  <2>3. to \in Command(T \cup {rest}) /\ CommandOK(to, recorded', patched')
    BY <1>2, <1>3, <1>4, <2>2 DEF Command, CommandOK, Pcs
  <2> HIDE DEF to
  <2> QED
    BY <1>3, <2>1, <2>3, StepKeeps
<1>7. CASE c.todo # <<>> /\ Head(c.todo) \notin recorded
  <2> DEFINE to == [c EXCEPT !.pc = "ddl"]
  <2>1. Step(p, to)
    BY <1>1, <1>7 DEF GetPending, StepTo
  <2>2. to \in Command(T) /\ CommandOK(to, recorded', patched')
    BY <1>2, <1>3, <1>4, <1>7 DEF Command, CommandOK, Pcs
  <2> HIDE DEF to
  <2> QED
    BY <1>3, <2>1, <2>2, StepKeeps
<1> QED
  BY <1>5, <1>6, <1>7

LEMMA DdlKeeps == ASSUME SetupInv, NEW p \in Operators, Ddl(p) \/ Dml(p) PROVE SetupInv'
<1>1. PICK c : c = proc[p]
  OBVIOUS
<1>2. PICK T : c \in Command(T) /\ CommandOK(c, recorded, patched)
  BY <1>1, OwnCommand
<1>3. c.pc \in {"ddl", "dml"} /\ \E pc \in {"dml", "record"} : \E x : Step(p, [c EXCEPT !.pc = pc, !.open = x])
  <2>1. CASE Ddl(p)
    BY <1>1, <2>1 DEF Ddl
  <2>2. CASE Dml(p)
    BY <1>1, <2>2 DEF Dml
  <2> QED
    BY <2>1, <2>2
<1>4. PICK pc \in {"dml", "record"} : \E x : Step(p, [c EXCEPT !.pc = pc, !.open = x])
  BY <1>3
<1>5. PICK x : Step(p, [c EXCEPT !.pc = pc, !.open = x])
  BY <1>4
<1>6. requires' = requires /\ recorded' = recorded /\ patched' = patched /\ enabled' = enabled /\ enabled \subseteq Mods
  BY DEF Ddl, Dml, SetupInv, SetupTypes
<1> DEFINE to == [c EXCEPT !.pc = pc, !.open = x]
<1>7. to \in Command(T \cup {x}) /\ CommandOK(to, recorded', patched')
  BY <1>2, <1>3, <1>6 DEF Command, CommandOK, Pcs
<1>8. Step(p, to)
  BY <1>5
<1> HIDE DEF to
<1> QED
  BY <1>6, <1>7, <1>8, StepKeeps

LEMMA RecordKeeps == ASSUME SetupInv, NEW p \in Operators, Record(p) PROVE SetupInv'
<1>1. PICK c : c = proc[p]
  OBVIOUS
<1>2. PICK T : c \in Command(T) /\ CommandOK(c, recorded, patched)
  BY <1>1, OwnCommand
<1>3. c.pc = "record" /\ requires' = requires /\ patched' = patched /\ enabled' = enabled /\ enabled \subseteq Mods
  BY <1>1 DEF Record, SetupInv, SetupTypes
<1>4. c.todo \in Seq(Units) /\ c.todo # <<>> /\ After(c.todo, recorded) /\ After(c.mods, {})
  BY <1>2, <1>3 DEF CommandOK
<1>5. CASE VersionTaken(Head(c.todo))
  <2>1. Stops(p) /\ recorded' = recorded
    BY <1>1, <1>5 DEF Record
  <2> QED
    BY <1>3, <2>1, StopKeeps
<1>6. CASE ~VersionTaken(Head(c.todo))
  <2> DEFINE rest == Tail(c.todo)
             to == [c EXCEPT !.pc = "pending", !.open = {}, !.todo = rest]
  <2>1. Step(p, to) /\ recorded' = recorded \cup {Head(c.todo)}
    BY <1>1, <1>6 DEF Record
  <2>2. PICK rec : rec = recorded \cup {Head(c.todo)}
    OBVIOUS
  <2>3. After(c.todo, rec) /\ Head(c.todo) \in rec
    BY <1>4, <2>2, AfterMore
  <2>4. rest \in Seq(Units) /\ After(rest, rec)
    BY <1>4, <2>3, AfterTail
  <2> HIDE DEF rest
  <2>5. to \in Command(T \cup {rest, {}}) /\ CommandOK(to, recorded', patched')
    BY <1>2, <1>3, <1>4, <2>1, <2>2, <2>4 DEF Command, CommandOK, Pcs
  <2>6. recorded \subseteq recorded'
    BY <2>1
  <2> HIDE DEF to
  <2> QED
    BY <1>3, <2>1, <2>5, <2>6, StepKeeps
<1> QED
  BY <1>5, <1>6

LEMMA PendingPatchesKeeps == ASSUME SetupInv, NEW p \in Operators, PendingPatches(p) PROVE SetupInv'
<1>1. PICK c : c = proc[p]
  OBVIOUS
<1>2. PICK T : c \in Command(T) /\ CommandOK(c, recorded, patched)
  BY <1>1, OwnCommand
<1>3. /\ c.pc = "patches" /\ requires' = requires /\ recorded' = recorded /\ patched' = patched
      /\ enabled' = enabled /\ enabled \subseteq Mods
  BY <1>1 DEF PendingPatches, SetupInv, SetupTypes
<1>4. c.mods \in Seq(Units) /\ After(c.mods, {})
  BY <1>2 DEF CommandOK, Command
<1>5. PICK todo : todo = Unpatched(c.mods)
  OBVIOUS
<1>6. todo \in Seq(Mods) /\ After(todo, patched \cup {0})
  BY <1>4, <1>5, UnpatchedInOrder
<1> DEFINE to == [c EXCEPT !.pc = "patch", !.todo = todo]
<1>7. Step(p, to)
  BY <1>1, <1>5 DEF PendingPatches
<1>8. to \in Command(T \cup {todo}) /\ CommandOK(to, recorded', patched')
  BY <1>2, <1>3, <1>4, <1>6 DEF Command, CommandOK, Pcs
<1> HIDE DEF to
<1> QED
  BY <1>3, <1>7, <1>8, StepKeeps

LEMMA ApplyPatchKeeps == ASSUME SetupInv, NEW p \in Operators, ApplyPatch(p) PROVE SetupInv'
<1>1. PICK c : c = proc[p]
  OBVIOUS
<1>2. PICK T : c \in Command(T) /\ CommandOK(c, recorded, patched)
  BY <1>1, OwnCommand
<1>3. c.pc = "patch" /\ requires' = requires /\ recorded' = recorded /\ enabled' = enabled /\ enabled \subseteq Mods
  BY <1>1 DEF ApplyPatch, SetupInv, SetupTypes
<1>4. c.todo \in Seq(Mods) /\ After(c.todo, patched \cup {0}) /\ After(c.mods, {})
  BY <1>2, <1>3 DEF CommandOK
<1>5. CASE c.todo = <<>>
  <2>1. PICK todo : todo = Tail(c.mods)
    OBVIOUS
  <2> DEFINE to == [c EXCEPT !.pc = "onboard", !.todo = todo]
  <2>2. Step(p, to) /\ patched' = patched
    BY <1>1, <1>5, <2>1 DEF ApplyPatch
  <2>3. to \in Command(T \cup {todo}) /\ CommandOK(to, recorded', patched')
    BY <1>2, <1>3, <1>4, <2>2 DEF Command, CommandOK, Pcs
  <2> HIDE DEF to
  <2> QED
    BY <1>3, <2>2, <2>3, StepKeeps
<1>6. CASE c.todo # <<>> /\ Head(c.todo) \in patched
  <2>1. Stops(p) /\ patched' = patched
    BY <1>1, <1>6 DEF ApplyPatch
  <2> QED
    BY <1>3, <2>1, StopKeeps
<1>7. CASE c.todo # <<>> /\ Head(c.todo) \notin patched
  <2> DEFINE rest == Tail(c.todo)
             to == [c EXCEPT !.todo = rest]
  <2>1. Step(p, to) /\ patched' = patched \cup {Head(c.todo)}
    BY <1>1, <1>7 DEF ApplyPatch
  <2>2. PICK pat : pat = (patched \cup {Head(c.todo)}) \cup {0}
    OBVIOUS
  <2>3. After(c.todo, pat) /\ Head(c.todo) \in pat
    BY <1>4, <2>2, AfterMore
  <2>4. rest \in Seq(Mods) /\ After(rest, pat)
    BY <1>4, <1>7, <2>3, AfterTail
  <2> HIDE DEF rest
  <2>5. to \in Command(T \cup {rest}) /\ CommandOK(to, recorded', patched')
    BY <1>2, <1>3, <1>4, <2>1, <2>2, <2>4 DEF Command, CommandOK, Pcs
  <2>6. patched \subseteq patched'
    BY <2>1
  <2> HIDE DEF to
  <2> QED
    BY <1>3, <2>1, <2>5, <2>6, StepKeeps
<1> QED
  BY <1>5, <1>6, <1>7

LEMMA OnboardKeeps == ASSUME SetupInv, NEW p \in Operators, Onboard(p) PROVE SetupInv'
<1>1. PICK c : c = proc[p]
  OBVIOUS
<1>2. PICK T : c \in Command(T) /\ CommandOK(c, recorded, patched)
  BY <1>1, OwnCommand
<1>3. /\ c.pc = "onboard" /\ requires' = requires /\ recorded' = recorded /\ patched' = patched
      /\ enabled' = enabled /\ enabled \subseteq Mods
  BY <1>1 DEF Onboard, SetupInv, SetupTypes
<1>4. After(c.mods, {})
  BY <1>2 DEF CommandOK
<1>5. \/ Stops(p)
      \/ \E todo : Step(p, [c EXCEPT !.todo = todo]) \/ Step(p, [c EXCEPT !.pc = "switch", !.on = FALSE, !.todo = todo])
  BY <1>1 DEF Onboard
<1>6. CASE Stops(p)
  BY <1>3, <1>6, StopKeeps
<1>7. ASSUME NEW todo, Step(p, [c EXCEPT !.todo = todo]) PROVE SetupInv'
  <2> DEFINE to == [c EXCEPT !.todo = todo]
  <2>1. to \in Command(T \cup {todo}) /\ CommandOK(to, recorded', patched')
    BY <1>2, <1>3, <1>4 DEF Command, CommandOK, Pcs
  <2>2. Step(p, to)
    BY <1>7
  <2> HIDE DEF to
  <2> QED
    BY <1>3, <2>1, <2>2, StepKeeps
<1>8. ASSUME NEW todo, Step(p, [c EXCEPT !.pc = "switch", !.on = FALSE, !.todo = todo]) PROVE SetupInv'
  <2> DEFINE to == [c EXCEPT !.pc = "switch", !.on = FALSE, !.todo = todo]
  <2>1. to \in Command(T \cup {todo}) /\ CommandOK(to, recorded', patched')
    BY <1>2, <1>3, <1>4 DEF Command, CommandOK, Pcs
  <2>2. Step(p, to)
    BY <1>8
  <2> HIDE DEF to
  <2> QED
    BY <1>3, <2>1, <2>2, StepKeeps
<1> QED
  BY <1>5, <1>6, <1>7, <1>8

LEMMA SwitchKeeps == ASSUME SetupInv, NEW p \in Operators, Switch(p) PROVE SetupInv'
<1>1. PICK m \in Mods, on \in BOOLEAN : Step(p, [NoCommand EXCEPT !.pc = "switch", !.todo = <<m>>, !.on = on])
  BY DEF Switch
<1>2. /\ requires' = requires /\ recorded' = recorded /\ patched' = patched /\ enabled' = enabled
      /\ enabled \subseteq Mods
  BY DEF Switch, SetupInv, SetupTypes
<1> DEFINE to == [NoCommand EXCEPT !.pc = "switch", !.todo = <<m>>, !.on = on]
<1>3. <<>> \in Seq(Units) /\ <<m>> \in Seq(Mods) /\ After(<<>>, {})
  BY DEF After
<1>4. to \in Command({{}, <<m>>})
  BY <1>3 DEF Command, NoCommand, Pcs
<1>5. CommandOK(to, recorded', patched')
  BY <1>3 DEF CommandOK, NoCommand
<1>6. Step(p, to)
  BY <1>1
<1> HIDE DEF to
<1> QED
  BY <1>2, <1>4, <1>5, <1>6, StepKeeps

LEMMA SetEnabledReadsKeeps == ASSUME SetupInv, NEW p \in Operators, SetEnabledReads(p) PROVE SetupInv'
<1>1. PICK c : c = proc[p]
  OBVIOUS
<1>2. PICK T : c \in Command(T) /\ CommandOK(c, recorded, patched)
  BY <1>1, OwnCommand
<1>3. /\ c.pc = "switch" /\ requires' = requires /\ recorded' = recorded /\ patched' = patched
      /\ enabled' = enabled /\ enabled \subseteq Mods
  BY <1>1 DEF SetEnabledReads, SetupInv, SetupTypes
<1>4. CASE c.todo = <<>>
  <2>1. Stops(p)
    BY <1>1, <1>4 DEF SetEnabledReads
  <2> QED
    BY <1>3, <2>1, StopKeeps
<1>5. CASE c.todo # <<>>
  <2>1. PICK read : read = enabled
    OBVIOUS
  <2> DEFINE to == [c EXCEPT !.pc = "write", !.read = read]
  <2>2. Step(p, to)
    BY <1>1, <1>5, <2>1 DEF SetEnabledReads
  <2>3. to \in Command(T) /\ CommandOK(to, recorded', patched')
    BY <1>2, <1>3, <1>5, <2>1 DEF Command, CommandOK, Pcs
  <2> HIDE DEF to
  <2> QED
    BY <1>3, <2>2, <2>3, StepKeeps
<1> QED
  BY <1>4, <1>5

LEMMA SetEnabledWritesKeeps == ASSUME SetupInv, NEW p \in Operators, SetEnabledWrites(p) PROVE SetupInv'
<1>1. PICK c : c = proc[p]
  OBVIOUS
<1>2. PICK T : c \in Command(T) /\ CommandOK(c, recorded, patched)
  BY <1>1, OwnCommand
<1>3. /\ c.pc = "write" /\ requires' = requires /\ recorded' = recorded /\ patched' = patched
      /\ enabled' = IF c.on THEN c.read \cup {Head(c.todo)} ELSE c.read \ {Head(c.todo)}
  BY <1>1 DEF SetEnabledWrites
<1>4. c.todo # <<>> /\ c.read \subseteq Mods /\ (c.on => c.todo \in Seq(Mods)) /\ After(c.mods, {})
  BY <1>2, <1>3 DEF CommandOK, Command
<1>5. enabled' \subseteq Mods
  <2>1. c.on => Head(c.todo) \in Mods
    BY <1>4
  <2> QED
    BY <1>3, <1>4, <2>1
<1> DEFINE rest == Tail(c.todo)
           to == [c EXCEPT !.pc = "switch", !.todo = rest, !.read = {}]
<1>6. Step(p, to)
  BY <1>1 DEF SetEnabledWrites
<1>7. c.on => rest \in Seq(Mods)
  BY <1>4
<1> HIDE DEF rest
<1>8. to \in Command(T \cup {rest}) /\ CommandOK(to, recorded', patched')
  BY <1>2, <1>3, <1>4, <1>7 DEF Command, CommandOK, Pcs
<1> HIDE DEF to
<1> QED
  BY <1>3, <1>5, <1>6, <1>8, StepKeeps

LEMMA SetupStepKeeps == SetupInv /\ [SetupNext]_setupVars => SetupInv'
<1> SUFFICES ASSUME SetupInv, [SetupNext]_setupVars PROVE SetupInv'
  OBVIOUS
<1>1. CASE Bootstrap \/ UNCHANGED setupVars
  <2>1. requires' = requires /\ enabled' = enabled /\ proc' = proc /\ recorded' = recorded /\ patched' = patched
    BY <1>1 DEF Bootstrap, setupVars
  <2>2. SetupTypes'
    BY <2>1 DEF SetupInv, SetupTypes
  <2>3. \A p \in Operators : CommandOK(proc'[p], recorded', patched')
    BY <2>1 DEF SetupInv
  <2>4. \A p \in Operators : CommandOK(proc[p], recorded, patched)'
    BY <2>1, <2>3, SameOrder
  <2> QED
    BY <2>2, <2>4 DEF SetupInv
<1>2. ASSUME NEW p \in Operators, Killed(p) PROVE SetupInv'
  <2>1. /\ Stops(p) /\ requires' = requires /\ enabled' = enabled /\ recorded' = recorded /\ patched' = patched
        /\ enabled \subseteq Mods
    BY <1>2 DEF Killed, SetupInv, SetupTypes
  <2> QED
    BY <2>1, StopKeeps
<1> QED
  BY <1>1, <1>2, SetupScanKeeps, GetPendingKeeps, DdlKeeps, RecordKeeps, PendingPatchesKeeps, ApplyPatchKeeps,
     OnboardKeeps, SwitchKeeps, SetEnabledReadsKeeps, SetEnabledWritesKeeps DEF SetupNext

\* Only Record and ApplyPatch add to what is done, and what they add is next in order.
LEMMA DependenciesStep ==
  ASSUME SetupInv, [SetupNext]_setupVars
  PROVE  /\ \A u \in (recorded' \ recorded) \ {0} : requires[u] \cup {0} \subseteq recorded'
         /\ \A m \in patched' \ patched : requires[m] \subseteq patched
<1>1. ASSUME NEW u \in recorded' \ recorded, u # 0 PROVE requires[u] \cup {0} \subseteq recorded'
  <2>1. PICK p \in Operators : Record(p)
    BY <1>1 DEF SetupNext, setupVars, Bootstrap, SetupScan, GetPending, Ddl, Dml, PendingPatches, ApplyPatch,
       Onboard, Switch, SetEnabledReads, SetEnabledWrites, Killed
  <2>2. PICK c : c = proc[p]
    OBVIOUS
  <2>3. c.pc = "record" /\ recorded' = recorded \cup {Head(c.todo)} /\ u = Head(c.todo)
    BY <1>1, <2>1, <2>2 DEF Record
  <2>4. c.todo \in Seq(Units) /\ c.todo # <<>> /\ After(c.todo, recorded)
    BY <2>2, <2>3 DEF SetupInv, CommandOK
  <2>5. Needs(u) \subseteq recorded
    BY <2>3, <2>4, AfterHead
  <2> QED
    BY <1>1, <2>3, <2>5 DEF Needs
<1>2. ASSUME NEW m \in patched' \ patched PROVE requires[m] \subseteq patched
  <2>1. PICK p \in Operators : ApplyPatch(p)
    BY <1>2 DEF SetupNext, setupVars, Bootstrap, SetupScan, GetPending, Ddl, Dml, PendingPatches, Record,
       Onboard, Switch, SetEnabledReads, SetEnabledWrites, Killed
  <2>2. PICK c : c = proc[p]
    OBVIOUS
  <2>3. c.pc = "patch" /\ c.todo # <<>> /\ m = Head(c.todo)
    BY <1>2, <2>1, <2>2 DEF ApplyPatch
  <2>4. c.todo \in Seq(Mods) /\ After(c.todo, patched \cup {0})
    BY <2>2, <2>3 DEF SetupInv, CommandOK
  <2>5. Needs(m) \subseteq patched \cup {0} /\ m \in Mods
    BY <2>3, <2>4, AfterHead
  <2>6. 0 \notin requires[m] /\ m # 0
    BY <2>5, ModsAssumption DEF SetupInv, SetupTypes
  <2> QED
    BY <2>5, <2>6 DEF Needs
<1> QED
  BY <1>1, <1>2

\* For any modules, dependency relations, operators, upgrades that are killed or race, and any
\* enabling and disabling between: the migration and the patch of a module come after those of
\* every module it requires (resolve_order, get_all_pending, setup_upgrade).
THEOREM UpgradesInOrder == SetupSpec => DependenciesFirst
<1>1. SetupInv /\ [SetupNext]_setupVars
        => [/\ \A u \in (recorded' \ recorded) \ {0} : requires[u] \cup {0} \subseteq recorded'
            /\ \A m \in patched' \ patched : requires[m] \subseteq patched]_setupVars
  BY DependenciesStep
<1> QED
  BY <1>1, SetupInitInv, SetupStepKeeps, PTL DEF SetupSpec, DependenciesFirst
=============================================================================
