--------------------------- MODULE Toolbox_proofs ---------------------------
(***************************************************************************)
(* Proofs about the toolbox, for any sessions, drafts, calls, fields and   *)
(* bounds: a commit has one version, what a live launch serves stays       *)
(* served (ArtifactStore), slots and pools account for every call          *)
(* (SqlPools), the logins of live tests are spaced (ConfigTests), and a    *)
(* handler runs for a call that nothing refuses (ToolboxCalls). The four   *)
(* share no state.                                                         *)
(***************************************************************************)
EXTENDS ArtifactStore, SqlPools, ConfigTests, ToolboxCalls,
        FiniteSetTheorems, WellFoundedInduction, TLAPS

-----------------------------------------------------------------------------
(* Versions and commits of an artifact *)

Ids == UNION {[S -> Nat] : S \in SUBSET Nat}

\* T holds what current and a request's version have ever been.
Repos(T) == [state : {"none", "half", "whole"}, artifact : Nat, ids : Ids, current : T, commits : Nat, minted : Nat]
DraftRows == [state : {"none", "incomplete", "open", "discarding"}, tip : Nat]
AgentRows == [op : {"none", "init", "auth", "draft", "discard", "save", "publish"},
              pc : {"done", "import", "auth", "base", "teardown", "recall", "mint", "cas", "tree", "prune", "rm"},
              on : Drafts \cup Nat, version : Nat, stale : SUBSET Nat]
PanelRows(T) == [op : {"none", "launch", "approve", "delete"},
                 pc : {"done", "serve", "commit", "remove", "store", "row"}, version : T]

StoreTypes(T) ==
    /\ repo \in Repos(T)
    /\ draft \in [Drafts -> DraftRows]
    /\ tree \in [dirs : SUBSET Nat, link : Nat]
    /\ agent \in [Agents -> AgentRows]
    /\ panel \in PanelRows(T)

\* The steps under the lifecycle lock.
Locked == {"import", "base", "teardown", "recall", "mint", "cas", "prune", "rm"}

LockHeld ==
    /\ \A a \in Agents : agent[a].pc \in Locked => lock = a
    /\ panel.pc = "store" => lock = "web"

\* Ids and tips are of commits there have been, and ids count up.
CountsOK ==
    /\ VersionIds \subseteq 1..repo.minted
    /\ \A i \in VersionIds : repo.ids[i] <= repo.commits
    /\ \A d \in Drafts : draft[d].tip <= repo.commits

\* What the holder of the lock has read is still so: a save that mints has a tip without version.
HeldOK(a) ==
    /\ agent[a].pc \in {"recall", "mint"} => agent[a].on \in Drafts
    /\ agent[a].pc = "mint" => IdsOf(draft[agent[a].on].tip) = {}

IdInv ==
    /\ \E T : StoreTypes(T)
    /\ LockHeld
    /\ CountsOK
    /\ OneIdPerCommit
    /\ \A a \in Agents : HeldOK(a)

LEMMA IdsFacts ==
  ASSUME NEW ids \in Ids
  PROVE  DOMAIN ids \subseteq Nat /\ \A i \in DOMAIN ids : ids[i] \in Nat
BY DEF Ids

LEMMA InIds ==
  ASSUME NEW S \in SUBSET Nat, NEW f \in [S -> Nat]
  PROVE  f \in Ids
BY DEF Ids

LEMMA NoIdsFacts == NoIds \in Ids /\ DOMAIN NoIds = {}
BY DEF NoIds, Ids

LEMMA RepoFacts ==
  ASSUME NEW T, repo \in Repos(T)
  PROVE  VersionIds \subseteq Nat /\ (\A i \in VersionIds : repo.ids[i] \in Nat) /\ repo.commits \in Nat /\ repo.minted \in Nat
         /\ repo.artifact \in Nat
BY IdsFacts DEF Repos, VersionIds

LEMMA MoreStore ==
  ASSUME NEW T, NEW U, StoreTypes(T), T \subseteq U
  PROVE  StoreTypes(U)
BY DEF StoreTypes, Repos, PanelRows

LEMMA NoOpRow == NoOp \in AgentRows /\ NoOp.pc = "done"
BY DEF NoOp, AgentRows

LEMMA NoRequestRow ==
  ASSUME NEW T, 0 \in T
  PROVE  NoRequest \in PanelRows(T) /\ NoRequest.pc = "done" /\ NoRequest.op = "none"
<1>1. ASSUME NEW z \in T PROVE [op |-> "none", pc |-> "done", version |-> z] \in PanelRows(T)
  BY DEF PanelRows
<1> QED
  BY <1>1 DEF NoRequest

LEMMA IdInitInv == StoreInit => IdInv
<1> SUFFICES ASSUME StoreInit PROVE IdInv
  OBVIOUS
<1> DEFINE T == {0}
<1>1. 0 \in T
  OBVIOUS
<1> HIDE DEF T
<1>2. repo \in Repos(T)
  <2>1. ASSUME NEW z \in T, NEW n \in Nat, NEW ids \in Ids
        PROVE  [state |-> "none", artifact |-> n, ids |-> ids, current |-> z, commits |-> n, minted |-> n] \in Repos(T)
    BY DEF Repos
  <2> QED
    BY <1>1, <2>1, NoIdsFacts DEF StoreInit
<1>3. draft \in [Drafts -> DraftRows] /\ \A d \in Drafts : draft[d].tip = 0
  BY DEF StoreInit, NoDraft, DraftRows
<1>4. tree \in [dirs : SUBSET Nat, link : Nat]
  BY DEF StoreInit, Bare
<1>5. agent \in [Agents -> AgentRows] /\ \A a \in Agents : agent[a].pc = "done"
  BY NoOpRow DEF StoreInit
<1>6. panel \in PanelRows(T) /\ panel.pc = "done"
  BY <1>1, NoRequestRow DEF StoreInit
<1>7. VersionIds = {} /\ repo.commits = 0
  BY NoIdsFacts DEF StoreInit, VersionIds
<1>8. StoreTypes(T)
  BY <1>2, <1>3, <1>4, <1>5, <1>6 DEF StoreTypes
<1> QED
  BY <1>3, <1>5, <1>6, <1>7, <1>8 DEF IdInv, LockHeld, Locked, CountsOK, OneIdPerCommit, HeldOK

\* A step of one session, which has the lock or finds it free, or touches nothing it guards.
LEMMA AgentMoves ==
  ASSUME IdInv, NEW a \in Agents, NEW to \in AgentRows, agent' = [agent EXCEPT ![a] = to],
         to.pc \in Locked => lock' = a,
         lock \in {a, "free"} \/ UNCHANGED <<repo, draft, lock>>,
         panel' = panel, lock' # "web" => lock # "web",
         \E T : StoreTypes(T) /\ repo' \in Repos(T),
         draft' \in [Drafts -> DraftRows], tree' \in [dirs : SUBSET Nat, link : Nat],
         CountsOK', OneIdPerCommit', HeldOK(a)'
  PROVE  IdInv'
<1>1. agent'[a] = to /\ (\A b \in Agents \ {a} : agent'[b] = agent[b]) /\ agent' \in [Agents -> AgentRows]
  BY DEF IdInv, StoreTypes
<1>2. \E T : StoreTypes(T)'
  BY <1>1 DEF StoreTypes
<1>3. ASSUME NEW b \in Agents \ {a} PROVE (agent[b].pc \in Locked => lock' = b) /\ HeldOK(b)'
  <2>1. agent[b].pc \in Locked => lock = b
    BY DEF IdInv, LockHeld
  <2>2. lock \in {a, "free"} => agent[b].pc \notin Locked
    BY <2>1, AgentsAssumption
  <2>3. {"recall", "mint"} \subseteq Locked
    BY DEF Locked
  <2>4. CASE agent[b].pc \notin Locked
    BY <1>1, <2>3, <2>4 DEF HeldOK
  <2>5. CASE agent[b].pc \in Locked
    <3>1. UNCHANGED <<repo, draft, lock>>
      BY <2>2, <2>5
    <3> QED
      BY <1>1, <2>1, <2>5, <3>1 DEF HeldOK, IdInv, IdsOf, VersionIds
  <2> QED
    BY <2>4, <2>5
<1>4. panel.pc = "store" => lock' = "web"
  BY DEF IdInv, LockHeld
<1>5. LockHeld'
  BY <1>1, <1>3, <1>4 DEF LockHeld
<1> QED
  BY <1>1, <1>2, <1>3, <1>5 DEF IdInv

\* Such a step that leaves the repository alone.
LEMMA AgentLeavesRepo ==
  ASSUME IdInv, NEW a \in Agents, NEW to \in AgentRows, agent' = [agent EXCEPT ![a] = to],
         to.pc \in Locked => lock' = a,
         lock \in {a, "free"} \/ UNCHANGED <<draft, lock>>,
         panel' = panel, lock' # "web" => lock # "web", repo' = repo,
         draft' \in [Drafts -> DraftRows], \A d \in Drafts : draft'[d].tip <= repo.commits,
         tree' \in [dirs : SUBSET Nat, link : Nat], HeldOK(a)'
  PROVE  IdInv'
<1>1. CountsOK' /\ OneIdPerCommit'
  BY DEF IdInv, CountsOK, OneIdPerCommit, VersionIds
<1>2. \E T : StoreTypes(T) /\ repo' \in Repos(T)
  BY DEF IdInv, StoreTypes
<1> QED
  BY <1>1, <1>2, AgentMoves

\* Types that the steps need.
LEMMA IdTypes ==
  ASSUME IdInv
  PROVE  /\ agent \in [Agents -> AgentRows] /\ draft \in [Drafts -> DraftRows]
         /\ tree \in [dirs : SUBSET Nat, link : Nat]
         /\ VersionIds \subseteq Nat /\ (\A i \in VersionIds : repo.ids[i] \in Nat)
         /\ repo.commits \in Nat /\ repo.minted \in Nat
         /\ \A d \in Drafts : draft[d].tip <= repo.commits
         /\ \A a \in Agents : agent[a].pc \in Locked => lock = a
BY RepoFacts DEF IdInv, StoreTypes, CountsOK, LockHeld

LEMMA TreeRows ==
  ASSUME tree \in [dirs : SUBSET Nat, link : Nat], NEW S \in SUBSET Nat, NEW v \in Nat
  PROVE  /\ [tree EXCEPT !.dirs = tree.dirs \cup S] \in [dirs : SUBSET Nat, link : Nat]
         /\ [tree EXCEPT !.dirs = tree.dirs \ S] \in [dirs : SUBSET Nat, link : Nat]
         /\ [tree EXCEPT !.link = v] \in [dirs : SUBSET Nat, link : Nat]
OBVIOUS

\* Drafts after one of them, or the incomplete ones, change.
LEMMA DraftRowsOK ==
  ASSUME draft \in [Drafts -> DraftRows], NEW n \in Nat, \A d \in Drafts : draft[d].tip <= n
  PROVE  /\ Reconciled \in [Drafts -> DraftRows] /\ \A d \in Drafts : Reconciled[d].tip <= n
         /\ [d \in Drafts |-> NoDraft] \in [Drafts -> DraftRows]
         /\ \A d \in Drafts : [e \in Drafts |-> NoDraft][d].tip <= n
BY DEF Reconciled, NoDraft, DraftRows

LEMMA SessionQuietSteps ==
  ASSUME IdInv, NEW a \in Agents,
         AskAuth(a) \/ ApplyAuth(a) \/ RecordBase(a) \/ Teardown(a) \/ Recall(a)
  PROVE  IdInv'
<1> USE IdTypes
<1>1. CASE AskAuth(a)
  <2> DEFINE to == [NoOp EXCEPT !.op = "auth", !.pc = "auth"]
  <2>1. to \in AgentRows /\ to.pc = "auth"
    BY DEF NoOp, AgentRows
  <2>2. agent' = [agent EXCEPT ![a] = to] /\ UNCHANGED <<repo, draft, lock, tree, panel>>
    BY <1>1 DEF AskAuth, Panel
  <2> HIDE DEF to
  <2>3. HeldOK(a)'
    BY <2>1, <2>2 DEF HeldOK
  <2> QED
    BY <2>1, <2>2, <2>3, AgentLeavesRepo DEF Locked
<1>2. CASE ApplyAuth(a)
  <2>2. agent' = [agent EXCEPT ![a] = NoOp] /\ UNCHANGED <<repo, draft, lock, tree, panel>>
    BY <1>2 DEF ApplyAuth, Panel
  <2>3. HeldOK(a)'
    BY NoOpRow, <2>2 DEF HeldOK
  <2> QED
    BY <2>2, <2>3, NoOpRow, AgentLeavesRepo DEF Locked
<1>3. CASE RecordBase(a) \/ Teardown(a)
  <2>2. /\ agent' = [agent EXCEPT ![a] = NoOp] /\ lock' = "free" /\ UNCHANGED <<repo, tree, panel>>
        /\ lock = a
    BY <1>3 DEF RecordBase, Teardown, Panel, Unlocks, AgentAt, Locked
  <2>3. HeldOK(a)'
    BY NoOpRow, <2>2 DEF HeldOK
  <2>4. draft' \in [Drafts -> DraftRows] /\ \A d \in Drafts : draft'[d].tip <= repo.commits
    <3>1. NoDraft \in DraftRows /\ NoDraft.tip <= repo.commits
      BY DEF NoDraft, DraftRows
    <3>2. CASE draft' = [draft EXCEPT ![agent[a].on].state = "open"]
      BY <3>2 DEF DraftRows
    <3>3. CASE draft' = [draft EXCEPT ![agent[a].on] = NoDraft]
      BY <3>1, <3>3
    <3> QED
      BY <1>3, <3>2, <3>3 DEF RecordBase, Teardown
  <2> QED
    BY <2>2, <2>3, <2>4, NoOpRow, AgentLeavesRepo, AgentsAssumption DEF Locked
<1>4. CASE Recall(a)
  <2>1. agent[a].pc = "recall" /\ lock = a /\ agent[a].on \in Drafts /\ agent[a] \in AgentRows
    BY <1>4 DEF Recall, AgentAt, Locked, IdInv, HeldOK
  <2>2. UNCHANGED <<repo, draft, tree, panel>>
    BY <1>4 DEF Recall, Panel
  <2>3. ASSUME Moves(a, "mint"), IdsOf(draft[agent[a].on].tip) = {} PROVE IdInv'
    <3> DEFINE to == [agent[a] EXCEPT !.pc = "mint"]
    <3>1. to \in AgentRows /\ to.pc = "mint" /\ to.on = agent[a].on
      BY <2>1 DEF AgentRows
    <3>2. agent' = [agent EXCEPT ![a] = to] /\ UNCHANGED lock
      BY <2>3 DEF Moves
    <3> HIDE DEF to
    <3>3. HeldOK(a)'
      BY <2>1, <2>2, <2>3, <3>1, <3>2 DEF HeldOK, IdsOf, VersionIds
    <3> QED
      BY <2>1, <2>2, <3>1, <3>2, <3>3, AgentLeavesRepo, AgentsAssumption
  <2>4. ASSUME NEW v \in VersionIds, Unlocks(a, [agent[a] EXCEPT !.pc = "tree", !.version = v]) PROVE IdInv'
    <3> DEFINE to == [agent[a] EXCEPT !.pc = "tree", !.version = v]
    <3>1. to \in AgentRows /\ to.pc = "tree"
      BY <2>1 DEF AgentRows
    <3>2. agent' = [agent EXCEPT ![a] = to] /\ lock' = "free"
      BY <2>4 DEF Unlocks
    <3> HIDE DEF to
    <3>3. HeldOK(a)'
      BY <3>1, <3>2 DEF HeldOK
    <3> QED
      BY <2>1, <2>2, <3>1, <3>2, <3>3, AgentLeavesRepo, AgentsAssumption DEF Locked
  <2> QED
    BY <1>4, <2>3, <2>4 DEF Recall, IdsOf
<1> QED
  BY <1>1, <1>2, <1>3, <1>4

LEMMA SessionTreeSteps ==
  ASSUME IdInv, NEW a \in Agents, ServeTree(a) \/ ReadPinned(a) \/ RemoveDoomed(a)
  PROVE  IdInv'
<1> USE IdTypes
<1>1. CASE ServeTree(a)
  <2>1. agent[a] \in AgentRows /\ agent[a].version \in Nat /\ lock = "free" /\ UNCHANGED <<repo, draft, panel>>
    BY <1>1 DEF ServeTree, Panel, AgentRows
  <2>2. CASE repo.state = "whole" /\ agent[a].version \in VersionIds
    <3> DEFINE to == [agent[a] EXCEPT !.pc = "prune"]
    <3>1. to \in AgentRows /\ to.pc = "prune"
      BY <2>1 DEF AgentRows
    <3>2. agent' = [agent EXCEPT ![a] = to] /\ lock' = a
      BY <1>1, <2>2 DEF ServeTree
    <3>3. tree' \in [dirs : SUBSET Nat, link : Nat]
      BY <1>1, <2>1, <2>2 DEF ServeTree
    <3> HIDE DEF to
    <3>4. HeldOK(a)'
      BY <3>1, <3>2 DEF HeldOK
    <3> QED
      BY <2>1, <3>1, <3>2, <3>3, <3>4, AgentLeavesRepo, AgentsAssumption
  <2>3. CASE ~(repo.state = "whole" /\ agent[a].version \in VersionIds)
    <3>1. agent' = [agent EXCEPT ![a] = NoOp] /\ UNCHANGED <<tree, lock>>
      BY <1>1, <2>3 DEF ServeTree
    <3>2. HeldOK(a)'
      BY NoOpRow, <3>1 DEF HeldOK
    <3> QED
      BY <2>1, <3>1, <3>2, NoOpRow, AgentLeavesRepo DEF Locked
  <2> QED
    BY <2>2, <2>3
<1>2. CASE ReadPinned(a)
  <2>1. agent[a] \in AgentRows /\ lock = a /\ UNCHANGED <<repo, draft, tree, panel>>
    BY <1>2 DEF ReadPinned, Panel, Locked
  <2>2. CASE MayPrune
    <3> DEFINE to == [agent[a] EXCEPT !.pc = "rm", !.stale = Doomed]
    <3>1. Doomed \in SUBSET Nat
      BY DEF Doomed
    <3>2. to \in AgentRows /\ to.pc = "rm"
      <4> HIDE DEF Doomed
      <4> QED
        BY <2>1, <3>1 DEF AgentRows
    <3>3. agent' = [agent EXCEPT ![a] = to] /\ lock' = a
      BY <1>2, <2>1, <2>2 DEF ReadPinned
    <3> HIDE DEF to
    <3>4. HeldOK(a)'
      BY <3>2, <3>3 DEF HeldOK
    <3> QED
      BY <2>1, <3>2, <3>3, <3>4, AgentLeavesRepo, AgentsAssumption
  <2>3. CASE ~MayPrune
    <3>1. agent' = [agent EXCEPT ![a] = NoOp] /\ lock' = "free"
      BY <1>2, <2>3 DEF ReadPinned, Unlocks
    <3>2. HeldOK(a)'
      BY NoOpRow, <3>1 DEF HeldOK
    <3> QED
      BY <2>1, <3>1, <3>2, NoOpRow, AgentLeavesRepo, AgentsAssumption DEF Locked
  <2> QED
    BY <2>2, <2>3
<1>3. CASE RemoveDoomed(a)
  <2>1. lock = a /\ agent' = [agent EXCEPT ![a] = NoOp] /\ lock' = "free" /\ UNCHANGED <<repo, draft, panel>>
    BY <1>3 DEF RemoveDoomed, Panel, Locked, Unlocks
  <2>2. tree' \in [dirs : SUBSET Nat, link : Nat]
    BY <1>3 DEF RemoveDoomed
  <2>3. HeldOK(a)'
    BY NoOpRow, <2>1 DEF HeldOK
  <2> QED
    BY <2>1, <2>2, <2>3, NoOpRow, AgentLeavesRepo, AgentsAssumption DEF Locked
<1> QED
  BY <1>1, <1>2, <1>3

\* A session begins under the lock, which it found free.
LEMMA SessionBegins ==
  ASSUME IdInv, NEW a \in Agents, NEW op \in {"init", "auth", "draft", "discard", "save", "publish"},
         NEW pc \in {"import", "auth", "base", "teardown", "recall", "mint", "cas"},
         NEW d \in Drafts \cup Nat, NEW v \in Nat, Begin(a, op, pc, d, v), panel' = panel,
         \E T : StoreTypes(T) /\ repo' \in Repos(T),
         draft' \in [Drafts -> DraftRows], tree' \in [dirs : SUBSET Nat, link : Nat],
         CountsOK', OneIdPerCommit',
         pc \in {"recall", "mint"} => d \in Drafts,
         pc = "mint" => IdsOf(draft[d].tip)' = {}
  PROVE  IdInv'
<1> DEFINE to == [NoOp EXCEPT !.op = op, !.pc = pc, !.on = d, !.version = v]
<1>1. to \in AgentRows /\ to.pc = pc /\ to.on = d
  BY DEF NoOp, AgentRows
<1>2. agent' = [agent EXCEPT ![a] = to] /\ lock = "free" /\ lock' = a
  BY DEF Begin
<1> HIDE DEF to
<1>3. agent'[a] = to
  BY <1>2, IdTypes
<1>4. HeldOK(a)'
  <2>1. pc = "mint" => IdsOf(draft[agent[a].on].tip)' = {}
    BY <1>1, <1>3
  <2> QED
    BY <1>1, <1>3, <2>1 DEF HeldOK
<1> QED
  BY <1>1, <1>2, <1>4, AgentMoves, AgentsAssumption

LEMMA SessionBeginSteps ==
  ASSUME IdInv, NEW a \in Agents,
         \/ BeginInit(a)
         \/ \E d \in Drafts : BeginSave(a, d) \/ BeginDiscard(a, d) \/ \E v \in VersionIds : BeginDraft(a, d, v)
         \/ \E v, expected \in VersionIds : BeginPublish(a, v, expected)
  PROVE  IdInv'
<1> USE IdTypes
<1>1. CASE BeginInit(a)
  <2>1. Begin(a, "init", "import", 0, 0) /\ UNCHANGED <<panel, draft, tree>>
    BY <1>1 DEF BeginInit, Panel
  <2>2. \E T : StoreTypes(T) /\ repo' \in Repos(T)
    BY <1>1 DEF BeginInit, IdInv, StoreTypes, Repos
  <2>3. repo'.ids = repo.ids /\ repo'.commits = repo.commits /\ repo'.minted = repo.minted
    <3>1. PICK T : repo \in Repos(T)
      BY DEF IdInv, StoreTypes
    <3> QED
      BY <1>1, <3>1 DEF BeginInit, Repos
  <2>4. CountsOK' /\ OneIdPerCommit'
    BY <2>1, <2>3 DEF IdInv, CountsOK, OneIdPerCommit, VersionIds
  <2> QED
    BY <2>1, <2>2, <2>4, SessionBegins
<1>2. ASSUME NEW d \in Drafts, BeginSave(a, d) PROVE IdInv'
  <2>1. UNCHANGED <<panel, tree>>
    BY <1>2 DEF BeginSave, Panel
  <2>2. CASE desk[d] = "edited"
    <3>1. Begin(a, "save", "mint", d, 0) /\ draft' = [draft EXCEPT ![d].tip = repo.commits + 1]
          /\ repo' = [repo EXCEPT !.commits = @ + 1]
      BY <1>2, <2>2 DEF BeginSave
    <3>2. PICK T : StoreTypes(T) /\ repo \in Repos(T)
      BY DEF IdInv, StoreTypes
    <3>3. /\ repo' \in Repos(T) /\ repo'.ids = repo.ids /\ repo'.commits = repo.commits + 1
          /\ repo'.minted = repo.minted
      BY <3>1, <3>2 DEF Repos
    <3>4. /\ draft' \in [Drafts -> DraftRows] /\ draft'[d].tip = repo.commits + 1
          /\ \A e \in Drafts \ {d} : draft'[e] = draft[e]
      BY <3>1 DEF DraftRows
    <3>5. \A e \in Drafts : draft[e].tip \in Nat
      BY DEF DraftRows
    <3>6. CountsOK'
      <4>1. \A e \in Drafts : draft'[e].tip <= repo.commits + 1
        BY <3>4, <3>5
      <4>2. \A i \in VersionIds : repo.ids[i] <= repo.commits + 1
        BY DEF IdInv, CountsOK
      <4> QED
        BY <3>3, <4>1, <4>2 DEF IdInv, CountsOK, VersionIds
    <3>7. OneIdPerCommit'
      BY <3>3 DEF IdInv, OneIdPerCommit, VersionIds
    <3>8. IdsOf(draft[d].tip)' = {}
      <4>1. \A i \in VersionIds : repo.ids[i] # repo.commits + 1
        BY DEF IdInv, CountsOK
      <4> QED
        BY <3>3, <3>4, <4>1 DEF IdsOf, VersionIds
    <3> QED
      BY <2>1, <3>1, <3>2, <3>3, <3>4, <3>6, <3>7, <3>8, SessionBegins
  <2>3. CASE desk[d] # "edited"
    <3>1. Begin(a, "save", "recall", d, 0) /\ UNCHANGED <<repo, draft>>
      BY <1>2, <2>3 DEF BeginSave
    <3>2. CountsOK' /\ OneIdPerCommit' /\ \E T : StoreTypes(T) /\ repo' \in Repos(T)
      BY <3>1 DEF IdInv, CountsOK, OneIdPerCommit, VersionIds, StoreTypes
    <3> QED
      BY <2>1, <3>1, <3>2, SessionBegins
  <2> QED
    BY <2>2, <2>3
<1>3. ASSUME NEW d \in Drafts, BeginDiscard(a, d) PROVE IdInv'
  <2>1. Begin(a, "discard", "teardown", d, 0) /\ UNCHANGED <<repo, panel, tree>>
        /\ draft' = [draft EXCEPT ![d].state = "discarding"]
    BY <1>3 DEF BeginDiscard, Panel
  <2>2. draft' \in [Drafts -> DraftRows] /\ \A e \in Drafts : draft'[e].tip <= repo.commits
    BY <2>1 DEF DraftRows
  <2>3. CountsOK' /\ OneIdPerCommit' /\ \E T : StoreTypes(T) /\ repo' \in Repos(T)
    BY <2>1, <2>2 DEF IdInv, CountsOK, OneIdPerCommit, VersionIds, StoreTypes
  <2> QED
    BY <2>1, <2>2, <2>3, SessionBegins
<1>4. ASSUME NEW d \in Drafts, NEW v \in VersionIds, BeginDraft(a, d, v) PROVE IdInv'
  <2>1. Begin(a, "draft", "base", d, v) /\ UNCHANGED <<repo, panel, tree>>
        /\ draft' = [Reconciled EXCEPT ![d] = [state |-> "incomplete", tip |-> repo.ids[v]]]
    BY <1>4 DEF BeginDraft, Panel
  <2>2. [state |-> "incomplete", tip |-> repo.ids[v]] \in DraftRows /\ repo.ids[v] <= repo.commits
    BY DEF DraftRows, IdInv, CountsOK
  <2>3. draft' \in [Drafts -> DraftRows] /\ \A e \in Drafts : draft'[e].tip <= repo.commits
    <3>1. Reconciled \in [Drafts -> DraftRows] /\ \A e \in Drafts : Reconciled[e].tip <= repo.commits
      BY DraftRowsOK
    <3> QED
      BY <2>1, <2>2, <3>1
  <2>4. CountsOK' /\ OneIdPerCommit' /\ \E T : StoreTypes(T) /\ repo' \in Repos(T)
    BY <2>1, <2>3 DEF IdInv, CountsOK, OneIdPerCommit, VersionIds, StoreTypes
  <2> QED
    BY <2>1, <2>3, <2>4, SessionBegins
<1>5. ASSUME NEW v \in VersionIds, NEW expected \in VersionIds, BeginPublish(a, v, expected) PROVE IdInv'
  <2>1. Begin(a, "publish", "cas", expected, v) /\ UNCHANGED <<repo, draft, panel>>
        /\ tree' = [tree EXCEPT !.dirs = @ \cup {v}]
    BY <1>5 DEF BeginPublish, Panel
  <2>2. tree' \in [dirs : SUBSET Nat, link : Nat]
    BY <2>1
  <2>3. CountsOK' /\ OneIdPerCommit' /\ \E T : StoreTypes(T) /\ repo' \in Repos(T)
    BY <2>1 DEF IdInv, CountsOK, OneIdPerCommit, VersionIds, StoreTypes
  <2> QED
    BY <2>1, <2>2, <2>3, SessionBegins
<1> QED
  BY <1>1, <1>2, <1>3, <1>4, <1>5

LEMMA SessionCommitSteps ==
  ASSUME IdInv, NEW a \in Agents, Import(a) \/ Mint(a) \/ Publish(a)
  PROVE  IdInv'
<1> USE IdTypes
<1> DEFINE v == repo.minted + 1
<1>1. v \in Nat /\ v \notin VersionIds
  <2>1. repo.minted \in Nat /\ VersionIds \subseteq 1..repo.minted
    BY DEF IdInv, CountsOK
  <2>2. v \notin 1..repo.minted
    BY <2>1
  <2> QED
    BY <2>1, <2>2
<1>2. PICK T : StoreTypes(T) /\ repo \in Repos(T)
  BY DEF IdInv, StoreTypes
<1>3. agent[a].pc \in Locked /\ lock = a /\ agent[a] \in AgentRows /\ panel' = panel
  BY DEF Import, Mint, Publish, AgentAt, Locked, Panel
<1>4. ASSUME NEW pc \in {"done", "tree", "prune"}, NEW to \in AgentRows, to.pc = pc,
             agent' = [agent EXCEPT ![a] = to], lock' \in {a, "free"}, pc = "prune" => lock' = a,
             draft' = draft, tree' \in [dirs : SUBSET Nat, link : Nat],
             \E U : StoreTypes(U) /\ repo' \in Repos(U), CountsOK', OneIdPerCommit'
      PROVE  IdInv'
  <2>1. HeldOK(a)'
    BY <1>4 DEF HeldOK
  <2>2. to.pc \in Locked => lock' = a
    BY <1>4 DEF Locked
  <2> QED
    BY <1>3, <1>4, <2>1, <2>2, AgentMoves, AgentsAssumption
<1>5. ASSUME agent' = [agent EXCEPT ![a] = NoOp], lock' = "free", UNCHANGED <<draft, tree>>,
             repo' \in Repos(T), repo'.ids = repo.ids, repo'.commits = repo.commits, repo'.minted = repo.minted
      PROVE  IdInv'
  <2>1. CountsOK' /\ OneIdPerCommit'
    BY <1>5 DEF IdInv, CountsOK, OneIdPerCommit, VersionIds
  <2> QED
    BY <1>2, <1>4, <1>5, <2>1, NoOpRow
<1>6. CASE Import(a)
  <2>1. UNCHANGED <<draft, tree>>
    BY <1>6 DEF Import
  <2> DEFINE c == repo.commits + 1
             n == repo.artifact + 1
             made == [state |-> "whole", artifact |-> n, ids |-> [i \in {v} |-> c], current |-> c,
                      commits |-> c, minted |-> v]
             to == [agent[a] EXCEPT !.pc = "tree", !.version = v]
  <2>2. ASSUME repo' = made, agent' = [agent EXCEPT ![a] = to], lock' = "free" PROVE IdInv'
    <3> DEFINE U == T \cup {c}
    <3>1. c \in Nat /\ n \in Nat
      BY <1>2 DEF Repos
    <3>2. [i \in {v} |-> c] \in Ids
      <4> HIDE DEF c, v
      <4>1. [i \in {v} |-> c] \in [{v} -> Nat] /\ {v} \in SUBSET Nat
        BY <1>1, <3>1
      <4> QED
        BY <4>1, InIds
    <3>3. StoreTypes(U)
      BY <1>2, MoreStore
    <3>4. repo' \in Repos(U)
      <4>1. ASSUME NEW m \in Nat, NEW k \in Nat, NEW z \in U, NEW ids \in Ids, NEW w \in Nat
            PROVE  [state |-> "whole", artifact |-> m, ids |-> ids, current |-> z, commits |-> k, minted |-> w]
                   \in Repos(U)
        BY DEF Repos
      <4>2. c \in U
        OBVIOUS
      <4> HIDE DEF c, n, v, U
      <4> QED
        BY <1>1, <2>2, <3>1, <3>2, <4>1, <4>2
    <3>5. to \in AgentRows /\ to.pc = "tree"
      BY <1>1, <1>3 DEF AgentRows
    <3>6. repo'.ids = [i \in {v} |-> c] /\ repo'.commits = c /\ repo'.minted = v
      BY <2>2
    <3>7. OneIdPerCommit'
      BY <3>6 DEF OneIdPerCommit, VersionIds
    <3>8. CountsOK'
      <4>1. \A d \in Drafts : draft'[d].tip <= c
        BY <2>1 DEF DraftRows
      <4>2. v \in 1..v
        OBVIOUS
      <4> QED
        BY <3>1, <3>6, <4>1, <4>2 DEF CountsOK, VersionIds
    <3> HIDE DEF U, c, v, to
    <3> QED
      BY <1>4, <2>1, <2>2, <3>3, <3>4, <3>5, <3>7, <3>8
  <2>3. ASSUME repo' = [repo EXCEPT !.state = "none"], Unlocks(a, NoOp) PROVE IdInv'
    <3>1. repo' \in Repos(T) /\ repo'.ids = repo.ids /\ repo'.commits = repo.commits /\ repo'.minted = repo.minted
      BY <1>2, <2>3 DEF Repos
    <3> QED
      BY <1>5, <2>1, <2>3, <3>1 DEF Unlocks
  <2> QED
    BY <1>6, <2>2, <2>3 DEF Import, Unlocks
<1>7. CASE Mint(a)
  <2>1. /\ UNCHANGED <<draft, tree>> /\ agent[a].on \in Drafts
        /\ IdsOf(draft[agent[a].on].tip) = {}
    BY <1>7 DEF Mint, AgentAt, IdInv, HeldOK
  <2> DEFINE c == draft[agent[a].on].tip
             ids == [i \in VersionIds \cup {v} |-> IF i = v THEN c ELSE repo.ids[i]]
             to == [agent[a] EXCEPT !.pc = "tree", !.version = v]
  <2>2. ASSUME repo' = [repo EXCEPT !.minted = v,
                                    !.ids = [i \in VersionIds \cup {v} |-> IF i = v THEN c ELSE @[i]]],
               agent' = [agent EXCEPT ![a] = to], lock' = "free"
        PROVE  IdInv'
    <3>1. c \in Nat /\ c <= repo.commits
      BY <2>1 DEF DraftRows
    <3>2. ids \in Ids
      <4> DEFINE S == VersionIds \cup {v}
      <4>1. ids \in [S -> Nat] /\ S \in SUBSET Nat
        <5> HIDE DEF c, v
        <5> QED
          BY <1>1, <3>1
      <4> HIDE DEF S, ids
      <4> QED
        BY <4>1, InIds
    <3>3. repo' \in Repos(T) /\ repo'.ids = ids /\ repo'.commits = repo.commits /\ repo'.minted = v
      <4> HIDE DEF c, v
      <4>1. repo' = [repo EXCEPT !.minted = v, !.ids = ids]
        BY <2>2
      <4> HIDE DEF ids
      <4> QED
        BY <1>1, <1>2, <3>2, <4>1 DEF Repos
    <3>4. VersionIds' = VersionIds \cup {v} /\ \A i \in VersionIds : repo'.ids[i] = repo.ids[i]
      BY <1>1, <3>3 DEF VersionIds
    <3>5. repo'.ids[v] = c
      BY <3>3
    <3>6. \A i \in VersionIds : repo.ids[i] # c
      BY <2>1 DEF IdsOf
    <3>7. OneIdPerCommit'
      <4> HIDE DEF v, c, ids
      <4> QED
        BY <3>4, <3>5, <3>6 DEF IdInv, OneIdPerCommit
    <3>8. CountsOK'
      <4>1. 1..repo.minted \cup {v} \subseteq 1..v
        OBVIOUS
      <4> HIDE DEF v, c, ids
      <4> QED
        BY <2>1, <3>1, <3>3, <3>4, <3>5, <4>1 DEF IdInv, CountsOK
    <3>9. to \in AgentRows /\ to.pc = "tree"
      BY <1>1, <1>3 DEF AgentRows
    <3> HIDE DEF to, v, c, ids
    <3> QED
      BY <1>2, <1>4, <2>1, <2>2, <3>3, <3>7, <3>8, <3>9
  <2>3. ASSUME Unlocks(a, NoOp), UNCHANGED repo PROVE IdInv'
    BY <1>2, <1>5, <2>1, <2>3 DEF Unlocks
  <2> QED
    BY <1>7, <2>2, <2>3 DEF Mint, Unlocks
<1>8. CASE Publish(a)
  <2>1. draft' = draft
    BY <1>8 DEF Publish
  <2>2. CASE repo.current = repo.ids[agent[a].on]
    <3> DEFINE z == repo.ids[agent[a].version]
               U == T \cup {z}
               to == [agent[a] EXCEPT !.pc = "prune"]
    <3>1. /\ repo' = [repo EXCEPT !.current = z]
          /\ agent' = [agent EXCEPT ![a] = to] /\ lock' = a
          /\ tree' = [tree EXCEPT !.link = agent[a].version] \/ tree' = tree
      BY <1>3, <1>8, <2>2 DEF Publish, Moves
    <3>2. agent[a].version \in Nat
      BY <1>3 DEF AgentRows
    <3>3. tree' \in [dirs : SUBSET Nat, link : Nat]
      BY <3>1, <3>2
    <3>4. StoreTypes(U) /\ repo \in Repos(U)
      BY <1>2, MoreStore DEF StoreTypes
    <3>5. z \in U
      OBVIOUS
    <3>6. to \in AgentRows /\ to.pc = "prune"
      BY <1>3 DEF AgentRows
    <3> HIDE DEF z, U, to
    <3>7. repo' \in Repos(U) /\ repo'.ids = repo.ids /\ repo'.commits = repo.commits /\ repo'.minted = repo.minted
      BY <3>1, <3>4, <3>5 DEF Repos
    <3>8. CountsOK' /\ OneIdPerCommit'
      BY <2>1, <3>7 DEF IdInv, CountsOK, OneIdPerCommit, VersionIds
    <3> QED
      BY <1>4, <2>1, <3>1, <3>3, <3>4, <3>6, <3>7, <3>8
  <2>3. CASE repo.current # repo.ids[agent[a].on]
    BY <1>2, <1>5, <1>8, <2>1, <2>3 DEF Publish, Unlocks
  <2> QED
    BY <2>2, <2>3
<1> QED
  BY <1>6, <1>7, <1>8

\* A step of no session: what a session under the lock has read, it may not touch.
LEMMA OutsideMoves ==
  ASSUME IdInv, UNCHANGED agent,
         UNCHANGED <<repo, draft, lock>> \/ lock \in {"free", "web"},
         \E T : StoreTypes(T) /\ panel' \in PanelRows(T) /\ repo' \in Repos(T),
         draft' \in [Drafts -> DraftRows], tree' \in [dirs : SUBSET Nat, link : Nat],
         CountsOK', OneIdPerCommit', panel'.pc = "store" => lock' = "web"
  PROVE  IdInv'
<1>1. \E T : StoreTypes(T)'
  BY DEF StoreTypes
<1>2. ASSUME NEW a \in Agents PROVE (agent[a].pc \in Locked => lock' = a) /\ HeldOK(a)'
  <2>1. agent[a].pc \in Locked => lock = a
    BY DEF IdInv, LockHeld
  <2>2. {"recall", "mint"} \subseteq Locked
    BY DEF Locked
  <2>3. CASE agent[a].pc \notin Locked
    BY <2>2, <2>3 DEF HeldOK
  <2>4. CASE agent[a].pc \in Locked
    <3>1. UNCHANGED <<repo, draft, lock>>
      BY <2>1, <2>4, AgentsAssumption
    <3> QED
      BY <2>1, <2>4, <3>1 DEF HeldOK, IdInv, IdsOf, VersionIds
  <2> QED
    BY <2>3, <2>4
<1>3. LockHeld'
  BY <1>2 DEF LockHeld
<1> QED
  BY <1>1, <1>2, <1>3 DEF IdInv

LEMMA OutsideLeavesRepo ==
  ASSUME IdInv, UNCHANGED <<agent, repo, draft>>, lock' = lock \/ lock = "free",
         \E T : StoreTypes(T) /\ panel' \in PanelRows(T),
         tree' \in [dirs : SUBSET Nat, link : Nat], panel'.pc = "store" => lock' = "web"
  PROVE  IdInv'
<1>1. CountsOK' /\ OneIdPerCommit' /\ draft' \in [Drafts -> DraftRows]
  BY IdTypes DEF IdInv, CountsOK, OneIdPerCommit, VersionIds
<1>2. \E T : StoreTypes(T) /\ panel' \in PanelRows(T) /\ repo' \in Repos(T)
  BY DEF StoreTypes
<1> QED
  BY <1>1, <1>2, OutsideMoves

\* No request is a panel row over wider types.
LEMMA WebEndsTypes ==
  ASSUME IdInv, panel' = NoRequest
  PROVE  (\E T : StoreTypes(T) /\ panel' \in PanelRows(T)) /\ panel'.pc = "done"
<1>1. PICK T : StoreTypes(T)
  BY DEF IdInv
<1> DEFINE U == T \cup {0}
<1>2. StoreTypes(U)
  BY <1>1, MoreStore
<1>3. 0 \in U
  OBVIOUS
<1> HIDE DEF U
<1> QED
  BY <1>2, <1>3, NoRequestRow

LEMMA PanelMovesOn ==
  ASSUME NEW T, NEW was \in PanelRows(T), NEW pc \in {"serve", "commit", "remove", "store", "row"}
  PROVE  [was EXCEPT !.pc = pc] \in PanelRows(T) /\ [was EXCEPT !.pc = pc].pc = pc
<1>1. [was EXCEPT !.pc = pc] \in PanelRows(T)
  BY DEF PanelRows
<1>2. [was EXCEPT !.pc = pc].pc = pc
  BY DEF PanelRows
<1> QED
  BY <1>1, <1>2

LEMMA WebStepTypes ==
  ASSUME IdInv, NEW pc \in {"serve", "commit", "remove", "store", "row"}, WebStep(pc)
  PROVE  (\E T : StoreTypes(T) /\ panel' \in PanelRows(T)) /\ panel'.pc = pc
<1>1. PICK T : StoreTypes(T)
  BY DEF IdInv
<1>2. panel \in PanelRows(T)
  BY <1>1 DEF StoreTypes
<1>3. panel' \in PanelRows(T) /\ panel'.pc = pc
  BY <1>2, PanelMovesOn DEF WebStep
<1> QED
  BY <1>1, <1>3

LEMMA ErasedFacts ==
  ASSUME IdInv, repo' = Erased, draft' = [d \in Drafts |-> NoDraft]
  PROVE  /\ draft' \in [Drafts -> DraftRows] /\ CountsOK' /\ OneIdPerCommit'
         /\ repo'.minted = repo.minted /\ VersionIds' = {}
         /\ \E T : StoreTypes(T) /\ repo' \in Repos(T)
<1>1. PICK T : StoreTypes(T)
  BY DEF IdInv
<1> DEFINE U == T \cup {0}
<1>2. StoreTypes(U) /\ repo \in Repos(U)
  BY <1>1, MoreStore DEF StoreTypes
<1>3. 0 \in U
  OBVIOUS
<1> HIDE DEF U
<1>4. /\ repo' \in Repos(U) /\ repo'.ids = NoIds /\ repo'.commits = repo.commits /\ repo'.minted = repo.minted
  <2>1. ASSUME NEW z \in U, NEW ids \in Ids, repo' = [repo EXCEPT !.state = "none", !.ids = ids, !.current = z]
        PROVE  /\ repo' \in Repos(U) /\ repo'.ids = ids /\ repo'.commits = repo.commits
               /\ repo'.minted = repo.minted
    BY <1>2, <2>1 DEF Repos
  <2> QED
    BY <1>3, <2>1, NoIdsFacts DEF Erased
<1>5. VersionIds' = {}
  BY <1>4, NoIdsFacts DEF VersionIds
<1>6. repo.commits \in Nat
  BY IdTypes
<1>7. draft' \in [Drafts -> DraftRows] /\ \A d \in Drafts : draft'[d].tip <= repo.commits
  BY <1>6, IdTypes, DraftRowsOK
<1> QED
  BY <1>2, <1>4, <1>5, <1>7 DEF CountsOK, OneIdPerCommit

LEMMA DeskSteps ==
  ASSUME IdInv, UNCHANGED <<agent, repo, draft, lock, panel, tree>>
  PROVE  IdInv'
<1>1. (\E T : StoreTypes(T) /\ panel' \in PanelRows(T)) /\ (panel'.pc = "store" => lock' = "web")
  BY DEF IdInv, StoreTypes, LockHeld
<1> QED
  BY <1>1, IdTypes, OutsideLeavesRepo

LEMMA PanelSteps ==
  ASSUME IdInv,
         \/ \E op \in {"launch", "approve", "delete"} : Ask(op)
         \/ EnsureServed \/ CommitLaunch \/ RemoveTree \/ DeleteArtifactRow \/ WebDies
  PROVE  IdInv'
<1> USE IdTypes
<1>1. ASSUME NEW op \in {"launch", "approve", "delete"}, Ask(op) PROVE IdInv'
  <2>1. UNCHANGED <<agent, repo, draft, lock, tree>>
    BY <1>1 DEF Ask
  <2>2. PICK T : StoreTypes(T)
    BY DEF IdInv
  <2> DEFINE to == IF op = "launch" /\ approved # 0 THEN approved ELSE CurrentId
             U == T \cup {0, to}
  <2>3. StoreTypes(U)
    BY <2>2, MoreStore
  <2>4. 0 \in U /\ to \in U
    OBVIOUS
  <2>5. ASSUME NEW z \in U PROVE [op |-> op, pc |-> "serve", version |-> z] \in PanelRows(U)
    BY DEF PanelRows
  <2>6. [NoRequest EXCEPT !.op = "delete", !.pc = "remove"] \in PanelRows(U)
        /\ [NoRequest EXCEPT !.op = "delete", !.pc = "remove"].pc = "remove"
    <3> DEFINE was == NoRequest
    <3>1. was \in PanelRows(U)
      BY <2>4, NoRequestRow
    <3> HIDE DEF was, U
    <3>2. [was EXCEPT !.op = "delete", !.pc = "remove"] \in PanelRows(U)
          /\ [was EXCEPT !.op = "delete", !.pc = "remove"].pc = "remove"
      BY <3>1 DEF PanelRows
    <3> QED
      BY <3>2 DEF was
  <2>7. \/ panel' = [op |-> op, pc |-> "serve", version |-> to]
        \/ panel' = [NoRequest EXCEPT !.op = "delete", !.pc = "remove"]
    BY <1>1 DEF Ask
  <2>8. panel'.pc # "store"
    <3> HIDE DEF U, to
    <3>1. CASE panel' = [op |-> op, pc |-> "serve", version |-> to]
      BY <3>1
    <3>2. CASE panel' = [NoRequest EXCEPT !.op = "delete", !.pc = "remove"]
      <4>1. panel'.pc = "remove"
        BY <2>6, <3>2, Zenon
      <4> QED
        BY <4>1
    <3> QED
      BY <2>7, <3>1, <3>2
  <2>9. panel' \in PanelRows(U)
    <3> HIDE DEF U, to
    <3> QED
      BY <2>4, <2>5, <2>6, <2>7
  <2> HIDE DEF U
  <2> QED
    BY <2>1, <2>3, <2>8, <2>9, OutsideLeavesRepo
<1>2. CASE EnsureServed
  <2>1. UNCHANGED <<agent, repo, draft, lock>>
    BY <1>2 DEF EnsureServed
  <2>2. (\E T : StoreTypes(T) /\ panel' \in PanelRows(T)) /\ panel'.pc # "store"
    BY <1>2, WebStepTypes, WebEndsTypes DEF EnsureServed, WebEnds
  <2>3. tree' \in [dirs : SUBSET Nat, link : Nat]
    BY <1>2 DEF EnsureServed
  <2> QED
    BY <2>1, <2>2, <2>3, OutsideLeavesRepo
<1>3. CASE CommitLaunch \/ DeleteArtifactRow \/ WebDies
  <2>1. UNCHANGED <<agent, repo, draft, lock, tree>> /\ panel' = NoRequest
    BY <1>3 DEF CommitLaunch, DeleteArtifactRow, WebDies, WebEnds
  <2>2. (\E T : StoreTypes(T) /\ panel' \in PanelRows(T)) /\ panel'.pc # "store"
    BY <2>1, WebEndsTypes
  <2> QED
    BY <2>1, <2>2, OutsideLeavesRepo
<1>4. CASE RemoveTree
  <2>1. UNCHANGED <<agent, repo, draft>> /\ lock = "free" /\ lock' = "web" /\ tree' = Bare /\ WebStep("store")
    BY <1>4 DEF RemoveTree
  <2>2. \E T : StoreTypes(T) /\ panel' \in PanelRows(T)
    BY <2>1, WebStepTypes
  <2>3. tree' \in [dirs : SUBSET Nat, link : Nat]
    BY <2>1 DEF Bare
  <2> QED
    BY <2>1, <2>2, <2>3, OutsideLeavesRepo
<1> QED
  BY <1>1, <1>2, <1>3, <1>4

LEMMA RemovalSteps ==
  ASSUME IdInv, RemoveStore \/ LateRemoval
  PROVE  IdInv'
<1> USE IdTypes
<1>1. CASE RemoveStore
  <2>1. UNCHANGED <<agent, tree>> /\ lock = "web" /\ WebStep("row") /\ repo' = Erased
        /\ draft' = [d \in Drafts |-> NoDraft]
    BY <1>1 DEF RemoveStore, IdInv, LockHeld
  <2>2. PICK T : StoreTypes(T) /\ panel' \in PanelRows(T)
    BY <2>1, WebStepTypes
  <2>3. PICK U : StoreTypes(U) /\ repo' \in Repos(U)
    BY <2>1, ErasedFacts
  <2>4. /\ StoreTypes(T \cup U) /\ panel' \in PanelRows(T \cup U) /\ repo' \in Repos(T \cup U)
    BY <2>2, <2>3, MoreStore DEF PanelRows, Repos
  <2>5. panel'.pc = "row"
    BY <2>1, WebStepTypes
  <2>6. draft' \in [Drafts -> DraftRows] /\ CountsOK' /\ OneIdPerCommit'
    BY <2>1, ErasedFacts
  <2> QED
    BY <2>1, <2>4, <2>5, <2>6, OutsideMoves
<1>2. CASE LateRemoval
  <2>1. UNCHANGED <<agent, lock, panel>>
    BY <1>2 DEF LateRemoval, Panel
  <2>2. CASE lock = "free" /\ tree' = Bare /\ repo' = Erased /\ draft' = [d \in Drafts |-> NoDraft]
    <3>1. PICK U : StoreTypes(U) /\ repo' \in Repos(U)
      BY <2>2, ErasedFacts
    <3>2. panel' \in PanelRows(U) /\ panel'.pc # "store"
      BY <2>1, <2>2, <3>1 DEF StoreTypes, IdInv, LockHeld
    <3>3. tree' \in [dirs : SUBSET Nat, link : Nat]
      BY <2>2 DEF Bare
    <3>4. draft' \in [Drafts -> DraftRows] /\ CountsOK' /\ OneIdPerCommit'
      BY <2>2, ErasedFacts
    <3> QED
      BY <2>1, <2>2, <3>1, <3>2, <3>3, <3>4, OutsideMoves
  <2>3. CASE UNCHANGED <<tree, repo, draft>>
    BY <2>1, <2>3, DeskSteps
  <2> QED
    BY <1>2, <2>2, <2>3 DEF LateRemoval
<1> QED
  BY <1>1, <1>2

LEMMA RestartKeeps ==
  ASSUME IdInv, ToolboxRestarts
  PROVE  IdInv'
<1> USE IdTypes
<1>1. /\ agent' = [a \in Agents |-> NoOp] /\ draft' = Reconciled /\ UNCHANGED <<repo, tree>>
      /\ panel' = NoRequest \/ (panel' = panel /\ panel.pc # "store")
  BY DEF ToolboxRestarts, WebEnds
<1>2. agent' \in [Agents -> AgentRows] /\ \A a \in Agents : agent'[a].pc = "done"
  BY <1>1, NoOpRow
<1>3. (\E T : StoreTypes(T) /\ panel' \in PanelRows(T)) /\ panel'.pc # "store"
  BY <1>1, WebEndsTypes DEF IdInv, StoreTypes
<1>4. draft' \in [Drafts -> DraftRows] /\ \A d \in Drafts : draft'[d].tip <= repo.commits
  BY <1>1, DraftRowsOK
<1>5. CountsOK' /\ OneIdPerCommit'
  BY <1>1, <1>4 DEF IdInv, CountsOK, OneIdPerCommit, VersionIds
<1>6. \E T : StoreTypes(T)'
  BY <1>1, <1>2, <1>3, <1>4 DEF StoreTypes
<1>7. LockHeld' /\ \A a \in Agents : HeldOK(a)'
  BY <1>2, <1>3 DEF LockHeld, HeldOK, Locked
<1> QED
  BY <1>5, <1>6, <1>7 DEF IdInv

LEMMA IdStepKeeps == IdInv /\ [StoreNext]_storeVars => IdInv'
<1> SUFFICES ASSUME IdInv, [StoreNext]_storeVars PROVE IdInv'
  OBVIOUS
<1>1. CASE UNCHANGED storeVars
  BY <1>1, DeskSteps DEF storeVars
<1>2. ASSUME NEW d \in Drafts, MaterializeDraft(d) \/ Edit(d) \/ LoseDesk(d) PROVE IdInv'
  BY <1>2, DeskSteps DEF MaterializeDraft, Edit, LoseDesk, Panel
<1>3. ASSUME NEW v \in launched, LaunchEnds(v) PROVE IdInv'
  BY <1>3, DeskSteps DEF LaunchEnds
<1> QED
  BY <1>1, <1>2, <1>3, SessionQuietSteps, SessionTreeSteps, SessionBeginSteps, SessionCommitSteps, PanelSteps,
     RemovalSteps, RestartKeeps DEF StoreNext

\* A commit never gets two versions, whatever dies between the commit and its version and however
\* often a save is tried again, for any sessions, drafts and bounds (git-backend.js:221-231).
THEOREM CommitHasOneId == StoreSpec => []OneIdPerCommit
<1>1. IdInv => OneIdPerCommit
  BY DEF IdInv
<1> QED
  BY <1>1, IdInitInv, IdStepKeeps, PTL DEF StoreSpec

-----------------------------------------------------------------------------
(* What a launch serves *)

\* A version that is launched, or about to be, is in the tree for as long as the repository has it:
\* who prunes holds the retention lock and spares the launches, and so does a request.
ServeOK ==
    /\ launched \cap VersionIds \subseteq tree.dirs
    /\ launched \subseteq 1..repo.minted
    /\ panel.pc = "commit" => (panel.version \in 1..repo.minted
                               /\ (panel.version \in VersionIds => panel.version \in tree.dirs))
    /\ panel.pc # "done" => retention = "web"
    /\ panel.pc \in {"remove", "store"} => launched = {}
    /\ \A a \in Agents : agent[a].pc = "rm" => retention = a /\ agent[a].stale \cap launched = {}

LEMMA ServeInit == StoreInit => ServeOK
BY NoIdsFacts, NoRequestRow, NoOpRow DEF StoreInit, ServeOK, VersionIds

\* Steps beside the launches: a new version is one that no launch has, and the tree only grows
\* or goes with its versions.
LEMMA ServeQuiet ==
  ASSUME IdInv, ServeOK, UNCHANGED <<launched, panel, retention>>,
         repo'.minted \in Nat, repo.minted <= repo'.minted,
         (VersionIds' \ VersionIds) \cap 1..repo.minted = {},
         tree.dirs \subseteq tree'.dirs \/ VersionIds' = {},
         \A a \in Agents : agent'[a].pc = "rm" => agent'[a] = agent[a]
  PROVE  ServeOK'
<1>1. repo.minted \in Nat
  BY IdTypes
<1>2. 1..repo.minted \subseteq 1..repo'.minted
  BY <1>1
<1> DEFINE m == 1..repo.minted
           n == repo'.minted
<1>3. m \subseteq 1..n /\ (VersionIds' \ VersionIds) \cap m = {} /\ launched \subseteq m
      /\ (panel.pc = "commit" => panel.version \in m)
  BY <1>2 DEF ServeOK
<1> HIDE DEF m
<1>4. launched' \cap VersionIds' \subseteq tree'.dirs
  BY <1>3 DEF ServeOK
<1>5. panel'.pc = "commit" => (panel'.version \in 1..n
                               /\ (panel'.version \in VersionIds' => panel'.version \in tree'.dirs))
  BY <1>3 DEF ServeOK
<1>6. launched' \subseteq 1..n
  BY <1>3
<1>7. \A a \in Agents : agent'[a].pc = "rm" => retention' = a /\ agent'[a].stale \cap launched' = {}
  BY DEF ServeOK
<1>8. (panel'.pc # "done" => retention' = "web") /\ (panel'.pc \in {"remove", "store"} => launched' = {})
  BY DEF ServeOK
<1> QED
  BY <1>4, <1>5, <1>6, <1>7, <1>8 DEF ServeOK

\* The steps of a session, but those of its prune.
LEMMA SessionServes ==
  ASSUME IdInv, ServeOK, NEW a \in Agents,
         \/ AskAuth(a) \/ ApplyAuth(a) \/ RecordBase(a) \/ Teardown(a) \/ Recall(a) \/ ServeTree(a)
         \/ BeginInit(a) \/ Import(a) \/ Mint(a) \/ Publish(a)
         \/ \E d \in Drafts : BeginSave(a, d) \/ BeginDiscard(a, d) \/ \E v \in VersionIds : BeginDraft(a, d, v)
         \/ \E v, expected \in VersionIds : BeginPublish(a, v, expected)
  PROVE  ServeOK'
<1> USE IdTypes
<1>1. UNCHANGED <<launched, panel, retention>>
  BY DEF AskAuth, ApplyAuth, RecordBase, Teardown, Recall, ServeTree, BeginInit, Import, Mint, Publish, BeginSave,
         BeginDiscard, BeginDraft, BeginPublish, Panel
<1>2. PICK T : repo \in Repos(T)
  BY DEF IdInv, StoreTypes
<1>3. \A b \in Agents : agent'[b].pc = "rm" => agent'[b] = agent[b]
  <2>1. \E to : agent' = [agent EXCEPT ![a] = to] /\ to.pc # "rm"
    <3>1. ASSUME NEW op, NEW pc \in {"import", "base", "teardown", "recall", "mint", "cas"}, NEW d, NEW v,
                 Begin(a, op, pc, d, v)
          PROVE  \E to : agent' = [agent EXCEPT ![a] = to] /\ to.pc # "rm"
      <4>1. [NoOp EXCEPT !.op = op, !.pc = pc, !.on = d, !.version = v].pc = pc
        BY DEF NoOp
      <4> QED
        BY <3>1, <4>1 DEF Begin
    <3>2. CASE BeginInit(a) \/ (\E v, expected \in VersionIds : BeginPublish(a, v, expected))
               \/ \E d \in Drafts : BeginSave(a, d) \/ BeginDiscard(a, d) \/ \E v \in VersionIds : BeginDraft(a, d, v)
      BY <3>1, <3>2 DEF BeginInit, BeginPublish, BeginSave, BeginDiscard, BeginDraft
    <3>3. ASSUME NEW pc \in {"tree", "mint", "prune"}, NEW v \in Nat,
                 \/ agent' = [agent EXCEPT ![a] = [agent[a] EXCEPT !.pc = pc]]
                 \/ agent' = [agent EXCEPT ![a] = [agent[a] EXCEPT !.pc = pc, !.version = v]]
          PROVE  \E to : agent' = [agent EXCEPT ![a] = to] /\ to.pc # "rm"
      <4>1. [agent[a] EXCEPT !.pc = pc].pc = pc /\ [agent[a] EXCEPT !.pc = pc, !.version = v].pc = pc
        BY DEF AgentRows
      <4> QED
        BY <3>3, <4>1
    <3>4. ASSUME agent' = [agent EXCEPT ![a] = NoOp]
          PROVE  \E to : agent' = [agent EXCEPT ![a] = to] /\ to.pc # "rm"
      BY <3>4, NoOpRow
    <3>5. CASE AskAuth(a)
      <4>1. [NoOp EXCEPT !.op = "auth", !.pc = "auth"].pc = "auth"
        BY DEF NoOp
      <4> QED
        BY <3>5, <4>1 DEF AskAuth
    <3>6. CASE ApplyAuth(a) \/ RecordBase(a) \/ Teardown(a)
      BY <3>4, <3>6 DEF ApplyAuth, RecordBase, Teardown, Unlocks
    <3>7. CASE Recall(a)
      BY <3>3, <3>7 DEF Recall, Moves, Unlocks, IdsOf
    <3>8. CASE ServeTree(a)
      BY <3>3, <3>4, <3>8 DEF ServeTree
    <3>9. CASE Import(a) \/ Mint(a)
      <4>1. repo.minted + 1 \in Nat
        OBVIOUS
      <4> QED
        BY <3>3, <3>4, <3>9, <4>1 DEF Import, Mint, Unlocks
    <3>10. CASE Publish(a)
      BY <3>3, <3>4, <3>10 DEF Publish, Moves, Unlocks
    <3> QED
      BY <3>2, <3>5, <3>6, <3>7, <3>8, <3>9, <3>10
  <2> QED
    BY <2>1
<1>4. /\ repo'.minted \in Nat /\ repo.minted <= repo'.minted
      /\ (VersionIds' \ VersionIds) \cap 1..repo.minted = {}
  <2>1. CASE repo'.ids = repo.ids /\ repo'.minted = repo.minted
    BY <2>1 DEF VersionIds
  <2>2. CASE repo'.minted = repo.minted + 1 /\ VersionIds' \subseteq VersionIds \cup {repo.minted + 1}
    BY <2>2
  <2>3. CASE repo' = repo
    BY <2>1, <2>3
  <2>4. CASE BeginInit(a) \/ Publish(a) \/ \E d \in Drafts : BeginSave(a, d)
    <3>1. repo'.ids = repo.ids /\ repo'.minted = repo.minted
      BY <1>2, <2>4 DEF BeginInit, Publish, BeginSave, Repos
    <3> QED
      BY <2>1, <3>1
  <2>5. CASE Import(a)
    <3>1. \/ repo' = [repo EXCEPT !.state = "none"]
          \/ repo'.ids = [i \in {repo.minted + 1} |-> repo.commits + 1] /\ repo'.minted = repo.minted + 1
      BY <2>5 DEF Import
    <3>2. repo' = [repo EXCEPT !.state = "none"] => repo'.ids = repo.ids /\ repo'.minted = repo.minted
      BY <1>2 DEF Repos
    <3> QED
      BY <2>1, <2>2, <3>1, <3>2 DEF VersionIds
  <2>6. CASE Mint(a)
    <3> DEFINE ids == [i \in VersionIds \cup {repo.minted + 1} |->
                         IF i = repo.minted + 1 THEN draft[agent[a].on].tip ELSE repo.ids[i]]
    <3>1. repo' = [repo EXCEPT !.minted = repo.minted + 1, !.ids = ids] \/ repo' = repo
      BY <2>6 DEF Mint
    <3>2. DOMAIN ids = VersionIds \cup {repo.minted + 1}
      OBVIOUS
    <3> HIDE DEF ids
    <3>3. repo' = repo \/ (repo'.minted = repo.minted + 1 /\ repo'.ids = ids)
      BY <1>2, <3>1 DEF Repos
    <3> QED
      BY <2>2, <2>3, <3>2, <3>3 DEF VersionIds
  <2>7. CASE \/ AskAuth(a) \/ ApplyAuth(a) \/ RecordBase(a) \/ Teardown(a) \/ Recall(a) \/ ServeTree(a)
             \/ \E d \in Drafts : BeginDiscard(a, d) \/ \E v \in VersionIds : BeginDraft(a, d, v)
             \/ \E v, expected \in VersionIds : BeginPublish(a, v, expected)
    BY <2>3, <2>7 DEF AskAuth, ApplyAuth, RecordBase, Teardown, Recall, ServeTree, BeginDiscard, BeginDraft,
       BeginPublish
  <2> QED
    BY <2>4, <2>5, <2>6, <2>7
<1>5. tree.dirs \subseteq tree'.dirs
  <2>1. CASE tree' = tree
    BY <2>1
  <2>2. CASE Publish(a)
    BY <2>2 DEF Publish
  <2>3. CASE ServeTree(a) \/ \E v, expected \in VersionIds : BeginPublish(a, v, expected)
    BY <2>3 DEF ServeTree, BeginPublish
  <2> QED
    BY <2>1, <2>2, <2>3 DEF AskAuth, ApplyAuth, RecordBase, Teardown, Recall, BeginInit, Import, Mint, BeginSave,
       BeginDiscard, BeginDraft
<1> QED
  BY <1>1, <1>3, <1>4, <1>5, ServeQuiet

LEMMA PruneServes ==
  ASSUME IdInv, ServeOK, NEW a \in Agents, ReadPinned(a) \/ RemoveDoomed(a)
  PROVE  ServeOK'
<1> USE IdTypes
<1>1. CASE ReadPinned(a) /\ ~MayPrune
  <2>1. agent' = [agent EXCEPT ![a] = NoOp] /\ UNCHANGED <<launched, panel, retention, repo, tree>>
    BY <1>1 DEF ReadPinned, Unlocks, Panel
  <2>2. \A b \in Agents : agent'[b].pc = "rm" => agent'[b] = agent[b]
    BY <2>1, NoOpRow
  <2> QED
    BY <2>1, <2>2, ServeQuiet DEF VersionIds
<1>2. CASE ReadPinned(a) /\ MayPrune
  <2> DEFINE S  == Doomed
             to == [agent[a] EXCEPT !.pc = "rm", !.stale = S]
  <2>1. agent' = [agent EXCEPT ![a] = to] /\ retention = "free" /\ retention' = a
        /\ UNCHANGED <<launched, panel, repo, tree>>
    BY <1>2 DEF ReadPinned, MayPrune, Panel
  <2>2. S \cap launched = {}
    BY DEF Doomed
  <2> HIDE DEF S
  <2>3. to.stale = S
    BY DEF AgentRows
  <2> HIDE DEF to
  <2>4. \A b \in Agents : agent[b].pc # "rm"
    BY <2>1, AgentsAssumption DEF ServeOK
  <2>5. \A b \in Agents : agent'[b].pc = "rm" => retention' = b /\ agent'[b].stale \cap launched' = {}
    BY <2>1, <2>2, <2>3, <2>4
  <2>6. panel.pc = "done"
    BY <2>1 DEF ServeOK
  <2> QED
    BY <2>1, <2>5, <2>6 DEF ServeOK, VersionIds
<1>3. CASE RemoveDoomed(a)
  <2>1. /\ tree' = [tree EXCEPT !.dirs = @ \ agent[a].stale] /\ agent' = [agent EXCEPT ![a] = NoOp]
        /\ retention = a /\ agent[a].stale \cap launched = {} /\ UNCHANGED <<launched, panel, repo>>
    BY <1>3 DEF RemoveDoomed, Unlocks, Panel, ServeOK
  <2>2. launched' \cap VersionIds' \subseteq tree'.dirs
    BY <2>1 DEF ServeOK, VersionIds
  <2>3. panel.pc = "done"
    BY <2>1, AgentsAssumption DEF ServeOK
  <2>4. \A b \in Agents : agent'[b].pc # "rm"
    BY <2>1, NoOpRow, AgentsAssumption DEF ServeOK
  <2> QED
    BY <2>1, <2>2, <2>3, <2>4 DEF ServeOK
<1> QED
  BY <1>1, <1>2, <1>3

LEMMA RequestServes ==
  ASSUME IdInv, ServeOK,
         \/ \E op \in {"launch", "approve", "delete"} : Ask(op)
         \/ EnsureServed \/ CommitLaunch \/ RemoveTree \/ RemoveStore \/ DeleteArtifactRow \/ WebDies
         \/ \E v \in launched : LaunchEnds(v)
  PROVE  ServeOK'
<1> USE IdTypes
<1>1. UNCHANGED agent
  BY DEF Ask, EnsureServed, CommitLaunch, RemoveTree, RemoveStore, DeleteArtifactRow, WebDies, LaunchEnds
<1>2. PICK T : StoreTypes(T) /\ panel \in PanelRows(T)
  BY DEF IdInv, StoreTypes
<1>3. NoRequest.pc = "done"
  BY DEF NoRequest
<1>4. retention \in {"free", "web"} => \A a \in Agents : agent[a].pc # "rm"
  BY AgentsAssumption DEF ServeOK
<1>5. ASSUME NEW op \in {"launch", "approve", "delete"}, Ask(op) PROVE ServeOK'
  <2>1. retention = "free" /\ retention' = "web" /\ UNCHANGED <<repo, tree>>
        /\ (launched' = launched \/ launched' = {})
    BY <1>5 DEF Ask
  <2>2. CASE panel' = [NoRequest EXCEPT !.op = op, !.pc = "remove"] /\ launched' = {}
    <3>1. panel'.pc = "remove"
      BY <2>2 DEF NoRequest
    <3> QED
      BY <1>1, <1>4, <2>1, <2>2, <3>1 DEF ServeOK
  <2>3. CASE panel'.pc = "serve"
    BY <1>1, <1>4, <2>1, <2>3 DEF ServeOK, VersionIds
  <2> QED
    BY <1>5, <2>2, <2>3 DEF Ask
<1>6. CASE EnsureServed
  <2>1. panel.pc = "serve" /\ retention = "web" /\ UNCHANGED <<repo, launched>>
    BY <1>6 DEF EnsureServed, ServeOK
  <2>2. CASE panel.version \in VersionIds /\ tree' = [tree EXCEPT !.dirs = @ \cup {panel.version}]
             /\ WebStep("commit") /\ UNCHANGED retention
    <3> DEFINE v == panel.version
    <3>1. panel'.version = v /\ panel'.pc = "commit"
      BY <1>2, <2>2 DEF WebStep, PanelRows
    <3>2. v \in 1..repo.minted /\ v \in tree'.dirs /\ tree.dirs \subseteq tree'.dirs
      BY <2>2 DEF IdInv, CountsOK
    <3> HIDE DEF v
    <3> QED
      BY <1>1, <1>4, <2>1, <2>2, <3>1, <3>2 DEF ServeOK, VersionIds
  <2>3. CASE WebEnds /\ UNCHANGED tree
    BY <1>1, <1>3, <1>4, <2>1, <2>3 DEF WebEnds, ServeOK, VersionIds
  <2> QED
    BY <1>6, <2>2, <2>3 DEF EnsureServed
<1>7. CASE CommitLaunch
  <2>1. /\ panel.pc = "commit" /\ retention = "web" /\ panel' = NoRequest /\ UNCHANGED <<repo, tree>>
        /\ launched' \subseteq launched \cup {panel.version}
    BY <1>7 DEF CommitLaunch, WebEnds, ServeOK
  <2> QED
    BY <1>1, <1>3, <1>4, <2>1 DEF ServeOK, VersionIds
<1>8. CASE DeleteArtifactRow \/ WebDies
  <2>1. panel.pc # "done" /\ panel' = NoRequest /\ UNCHANGED <<repo, tree, launched>>
    BY <1>8 DEF DeleteArtifactRow, WebDies, WebEnds
  <2>2. retention = "web"
    BY <2>1 DEF ServeOK
  <2> QED
    BY <1>1, <1>3, <1>4, <2>1, <2>2 DEF ServeOK, VersionIds
<1>9. CASE RemoveTree
  <2>1. panel.pc = "remove" /\ launched = {} /\ UNCHANGED <<repo, launched, retention>> /\ WebStep("store")
    BY <1>9 DEF RemoveTree, ServeOK
  <2>2. panel'.pc = "store"
    BY <1>2, <2>1 DEF WebStep, PanelRows
  <2> QED
    BY <1>1, <2>1, <2>2 DEF ServeOK
<1>10. CASE RemoveStore
  <2>1. /\ panel.pc = "store" /\ launched = {} /\ UNCHANGED <<launched, retention>> /\ WebStep("row")
    BY <1>10 DEF RemoveStore, ServeOK
  <2>2. panel'.pc = "row"
    BY <1>2, <2>1 DEF WebStep, PanelRows
  <2> QED
    BY <1>1, <2>1, <2>2 DEF ServeOK
<1>11. ASSUME NEW v \in launched, LaunchEnds(v) PROVE ServeOK'
  <2>1. launched' \subseteq launched /\ UNCHANGED <<repo, tree, panel, retention>>
    BY <1>11 DEF LaunchEnds
  <2>2. \A a \in Agents : agent'[a].pc = "rm" => retention' = a /\ agent'[a].stale \cap launched' = {}
    BY <1>1, <2>1 DEF ServeOK
  <2>3. panel'.pc \in {"remove", "store"} => launched' = {}
    BY <2>1 DEF ServeOK
  <2>4. launched' \subseteq 1..repo'.minted /\ launched' \cap VersionIds' \subseteq tree'.dirs
    BY <2>1 DEF ServeOK, VersionIds
  <2> QED
    BY <2>1, <2>2, <2>3, <2>4 DEF ServeOK, VersionIds
<1> QED
  BY <1>5, <1>6, <1>7, <1>8, <1>9, <1>10, <1>11

LEMMA ServeStepKeeps == IdInv /\ ServeOK /\ [StoreNext]_storeVars => ServeOK'
<1> SUFFICES ASSUME IdInv, ServeOK, [StoreNext]_storeVars PROVE ServeOK'
  OBVIOUS
<1> USE IdTypes
<1>1. ASSUME UNCHANGED <<launched, panel, retention, repo, tree, agent>> PROVE ServeOK'
  BY <1>1, ServeQuiet DEF VersionIds
<1>2. CASE UNCHANGED storeVars
  BY <1>1, <1>2 DEF storeVars
<1>3. ASSUME NEW d \in Drafts, MaterializeDraft(d) \/ Edit(d) \/ LoseDesk(d) PROVE ServeOK'
  BY <1>1, <1>3 DEF MaterializeDraft, Edit, LoseDesk, Panel
<1>4. CASE LateRemoval
  <2>1. UNCHANGED <<launched, panel, retention, agent>>
    BY <1>4 DEF LateRemoval, Panel
  <2>2. CASE repo' = Erased /\ draft' = [d \in Drafts |-> NoDraft]
    <3>1. repo'.minted = repo.minted /\ VersionIds' = {}
      BY <2>2, ErasedFacts
    <3> QED
      BY <2>1, <3>1, ServeQuiet
  <2> QED
    BY <1>1, <1>4, <2>1, <2>2 DEF LateRemoval
<1>5. CASE ToolboxRestarts
  <2>1. /\ agent' = [a \in Agents |-> NoOp] /\ UNCHANGED <<repo, tree, launched>>
        /\ \/ panel' = NoRequest
           \/ panel' = panel /\ retention' = (IF retention = "web" THEN "web" ELSE "free")
    BY <1>5 DEF ToolboxRestarts, WebEnds
  <2>2. \A a \in Agents : agent'[a].pc # "rm"
    BY <2>1, NoOpRow
  <2>3. NoRequest.pc = "done"
    BY DEF NoRequest
  <2> QED
    BY <2>1, <2>2, <2>3 DEF ServeOK, VersionIds
<1> QED
  BY <1>2, <1>3, <1>4, <1>5, SessionServes, PruneServes, RequestServes DEF StoreNext

\* What a live launch serves stays served for as long as anything of the artifact is, however prunes,
\* launches, deletions, crashes and late removals overlap (service.js:281-288, launches.py:90-96).
THEOREM LaunchesStayServed == StoreSpec => []LaunchIsServed
<1>1. ServeOK => LaunchIsServed
  BY DEF ServeOK, LaunchIsServed
<1> QED
  BY <1>1, IdInitInv, IdStepKeeps, ServeInit, ServeStepKeeps, PTL DEF StoreSpec

-----------------------------------------------------------------------------
(* SqlPools: slots of the server *)

Limiters == [limit : Nat, active : Nat, queue : Seq(Uses)]

\* A limiter whose queue holds the calls W once each, and whose slots n calls hold.
LimiterOK(l, W, n) ==
    /\ l \in Limiters
    /\ l.active = n
    /\ l.limit = 0 => l.active = 0 /\ l.queue = <<>>
    /\ l.queue # <<>> => l.active >= l.limit
    /\ \A i, j \in 1..Len(l.queue) : l.queue[i] = l.queue[j] => i = j
    /\ W = {l.queue[i] : i \in 1..Len(l.queue)}

LEMMA DroppedIsOK ==
  ASSUME NEW l \in Limiters, NEW W, NEW n, l.limit # 0, LimiterOK(l, W, n)
  PROVE  LimiterOK(Dropped(l), W, n)
<1>1. CASE l.active = 0 /\ l.queue = <<>>
  <2>1. Dropped(l) = NoLimiter /\ NoLimiter \in Limiters /\ NoLimiter.active = 0 /\ NoLimiter.queue = <<>>
    BY <1>1 DEF Dropped, NoLimiter, Limiters
  <2> QED
    BY <1>1, <2>1 DEF LimiterOK
<1>2. CASE ~(l.active = 0 /\ l.queue = <<>>)
  BY <1>2 DEF Dropped
<1> QED
  BY <1>1, <1>2

\* One waiter leaves the queue.
LEMMA LeavingIsOK ==
  ASSUME NEW l, NEW W, NEW n, LimiterOK(l, W, n), NEW u \in W
  PROVE  LimiterOK(Leaving(l, u), W \ {u}, n)
<1> DEFINE q == l.queue
           k == IndexOf(q, u)
           r == RemoveAt(q, k)
<1>1. q \in Seq(Uses) /\ l \in Limiters /\ Len(q) \in Nat
  BY DEF LimiterOK, Limiters
<1>2. k \in 1..Len(q) /\ q[k] = u
  <2>1. \E i \in DOMAIN q : q[i] = u
    BY <1>1 DEF LimiterOK
  <2> QED
    BY <1>1, <2>1 DEF IndexOf
<1> HIDE DEF k
<1>3. /\ r \in Seq(Uses) /\ Len(r) = Len(q) - 1
      /\ \A i \in 1..Len(r) : r[i] = q[IF i < k THEN i ELSE i + 1]
  <2> DEFINE a == SubSeq(q, 1, k - 1)
             b == SubSeq(q, k + 1, Len(q))
  <2>1. a \in Seq(Uses) /\ Len(a) = k - 1 /\ \A i \in 1..(k - 1) : a[i] = q[i]
    BY <1>1, <1>2
  <2>2. b \in Seq(Uses) /\ Len(b) = Len(q) - k /\ \A i \in 1..(Len(q) - k) : b[i] = q[k + i]
    BY <1>1, <1>2
  <2>3. r = a \o b
    BY DEF RemoveAt
  <2> HIDE DEF a, b, r, q
  <2>4. r \in Seq(Uses) /\ Len(r) = Len(q) - 1
    <3>1. a \in Seq(Uses) /\ b \in Seq(Uses) /\ k \in Nat
      BY <1>2, <2>1, <2>2
    <3>2. r \in Seq(Uses) /\ Len(r) = Len(a) + Len(b)
      BY <2>3, <3>1
    <3> QED
      BY <1>1, <2>1, <2>2, <3>1, <3>2
  <2>5. ASSUME NEW i \in 1..Len(r) PROVE r[i] = q[IF i < k THEN i ELSE i + 1]
    <3>1. CASE i < k
      BY <1>1, <1>2, <2>1, <2>2, <2>3, <2>4, <3>1
    <3>2. CASE ~(i < k)
      <4>1. r[i] = b[i - (k - 1)]
        <5>1. a \in Seq(Uses) /\ b \in Seq(Uses) /\ Len(a) = k - 1 /\ k \in Nat
          BY <1>1, <1>2, <2>1, <2>2
        <5>2. i \in 1..(Len(a) + Len(b)) /\ ~(i <= Len(a))
          BY <1>1, <1>2, <2>1, <2>2, <2>4, <3>2, <5>1
        <5>3. (a \o b)[i] = b[i - Len(a)]
          BY <5>1, <5>2
        <5> QED
          BY <2>3, <5>1, <5>3
      <4>2. i - (k - 1) \in 1..(Len(q) - k) /\ k + (i - (k - 1)) = i + 1
        BY <1>1, <1>2, <2>4, <3>2
      <4> QED
        BY <2>2, <3>2, <4>1, <4>2
    <3> QED
      BY <3>1, <3>2
  <2> QED
    BY <2>4, <2>5
<1> DEFINE m == [l EXCEPT !.queue = r]
<1>4. m \in Limiters /\ m.queue = r /\ m.active = l.active /\ m.limit = l.limit
  BY <1>1, <1>3 DEF Limiters
<1>5. l.limit # 0 /\ l.queue # <<>>
  BY <1>1, <1>2 DEF LimiterOK
<1>6. Leaving(l, u) = Dropped(m)
  BY DEF Leaving, k
<1> HIDE DEF m, r
<1>7. \A i, j \in 1..Len(r) : r[i] = r[j] => i = j
  <2>1. SUFFICES ASSUME NEW i \in 1..Len(r), NEW j \in 1..Len(r), r[i] = r[j] PROVE i = j
    OBVIOUS
  <2> DEFINE f(x) == IF x < k THEN x ELSE x + 1
  <2>2. f(i) \in 1..Len(q) /\ f(j) \in 1..Len(q)
    BY <1>1, <1>2, <1>3
  <2>3. q[f(i)] = q[f(j)]
    BY <1>3, <2>1
  <2>4. f(i) = f(j)
    <3> HIDE DEF f
    <3> QED
      BY <2>2, <2>3 DEF LimiterOK
  <2> QED
    BY <1>1, <1>2, <1>3, <2>4
<1>8. W \ {u} = {r[i] : i \in 1..Len(r)}
  <2>1. ASSUME NEW w \in W \ {u} PROVE w \in {r[i] : i \in 1..Len(r)}
    <3>1. PICK i \in 1..Len(q) : q[i] = w
      BY DEF LimiterOK
    <3>2. i # k
      BY <1>2, <3>1
    <3>3. CASE i < k
      <4>1. i \in 1..Len(r) /\ r[i] = w
        BY <1>1, <1>2, <1>3, <3>1, <3>3
      <4> QED
        BY <4>1
    <3>4. CASE i > k
      <4>1. i - 1 \in 1..Len(r) /\ ~(i - 1 < k) /\ (i - 1) + 1 = i
        BY <1>1, <1>2, <1>3, <3>1, <3>4
      <4>2. r[i - 1] = w
        BY <1>3, <3>1, <4>1
      <4> QED
        BY <4>1, <4>2
    <3> QED
      BY <1>1, <1>2, <3>1, <3>2, <3>3, <3>4
  <2>2. ASSUME NEW i \in 1..Len(r) PROVE r[i] \in W \ {u}
    <3> DEFINE g == IF i < k THEN i ELSE i + 1
    <3>1. g \in 1..Len(q) /\ g # k
      BY <1>1, <1>2, <1>3
    <3>2. r[i] = q[g]
      BY <1>3
    <3> HIDE DEF g
    <3>3. q[g] \in W /\ q[g] # u
      BY <1>2, <3>1 DEF LimiterOK
    <3> QED
      BY <3>2, <3>3
  <2> QED
    BY <2>1, <2>2
<1>9. r # <<>> => m.active >= m.limit
  BY <1>4, <1>5 DEF LimiterOK
<1>10. LimiterOK(m, W \ {u}, n)
  BY <1>4, <1>5, <1>7, <1>8, <1>9 DEF LimiterOK
<1> QED
  BY <1>4, <1>5, <1>6, <1>10, DroppedIsOK

\* A slot comes back and goes to the first that wait.
LEMMA ReleasedIsOK ==
  ASSUME NEW l, NEW W, NEW n, LimiterOK(l, W, n), n # 0
  PROVE  /\ GrantedTo(l) \subseteq W /\ IsFiniteSet(GrantedTo(l))
         /\ LimiterOK(Released(l), W \ GrantedTo(l), n - 1 + Cardinality(GrantedTo(l)))
<1> DEFINE q == l.queue
           k == IF Len(q) < Room(l) THEN Len(q) ELSE Room(l)
           G == GrantedTo(l)
           r == SubSeq(q, k + 1, Len(q))
<1>1. q \in Seq(Uses) /\ l \in Limiters /\ Len(q) \in Nat /\ l.limit \in Nat /\ l.active \in Nat /\ l.active = n
  BY DEF LimiterOK, Limiters
<1>2. /\ k \in Nat /\ k <= Len(q)
      /\ k < Len(q) => l.active - 1 + k >= l.limit
  BY <1>1 DEF Room
<1>3. G = {q[i] : i \in 1..k}
  BY DEF GrantedTo
<1> HIDE DEF k, G
<1>4. \A i, j \in 1..Len(q) : q[i] = q[j] => i = j
  BY DEF LimiterOK
<1>5. IsFiniteSet(G) /\ Cardinality(G) = k
  <2> DEFINE f == [i \in 1..k |-> q[i]]
  <2>1. \A i \in 1..k : i \in 1..Len(q)
    BY <1>1, <1>2
  <2>2. f \in [1..k -> G]
    BY <1>3
  <2>3. \A i, j \in 1..k : f[i] = f[j] => i = j
    BY <1>4, <2>1
  <2>4. \A g \in G : \E i \in 1..k : f[i] = g
    BY <1>3
  <2>5. f \in Bijection(1..k, G)
    BY <2>2, <2>3, <2>4 DEF Bijection, Injection, Surjection, IsInjective
  <2>6. ExistsBijection(1..k, G)
    BY <2>5 DEF ExistsBijection
  <2>7. IsFiniteSet(1..k) /\ Cardinality(1..k) = k
    <3>1. 1 \in Int /\ k \in Int
      BY <1>2
    <3>2. IsFiniteSet(1..k) /\ Cardinality(1..k) = IF 1 > k THEN 0 ELSE k - 1 + 1
      BY <3>1, FS_Interval, Zenon
    <3> QED
      BY <1>2, <3>2
  <2> QED
    BY <2>6, <2>7, FS_Bijection
<1>6. /\ r \in Seq(Uses) /\ Len(r) = Len(q) - k
      /\ \A i \in 1..Len(r) : r[i] = q[k + i] /\ k + i \in 1..Len(q)
  BY <1>1, <1>2
<1> DEFINE m == [l EXCEPT !.active = @ - 1 + k, !.queue = r]
<1>9. Released(l) = Dropped(m)
  BY <1>5 DEF Released, G
<1> HIDE DEF r
<1>7. m \in Limiters /\ m.queue = r /\ m.active = n - 1 + k /\ m.limit = l.limit
  <2>1. l.active - 1 + k \in Nat /\ l.active - 1 + k = n - 1 + k
    BY <1>1, <1>2
  <2> DEFINE a == l.active - 1 + k
  <2> HIDE DEF a
  <2>2. a \in Nat /\ a = n - 1 + k /\ m = [l EXCEPT !.active = a, !.queue = r]
    BY <2>1 DEF a
  <2> HIDE DEF m
  <2> QED
    BY <1>1, <1>6, <2>2 DEF Limiters
<1>8. l.limit # 0
  BY <1>1 DEF LimiterOK
<1> HIDE DEF m
<1>10. \A i, j \in 1..Len(r) : r[i] = r[j] => i = j
  <2>1. \A i, j \in 1..Len(r) : r[i] = r[j] => k + i = k + j
    BY <1>4, <1>6
  <2>2. \A i, j \in 1..Len(r) : k + i = k + j => i = j
    BY <1>2
  <2> QED
    BY <2>1, <2>2
<1>11. W \ G = {r[i] : i \in 1..Len(r)}
  <2>1. ASSUME NEW w \in W \ G PROVE w \in {r[i] : i \in 1..Len(r)}
    <3>1. PICK i \in 1..Len(q) : q[i] = w
      BY DEF LimiterOK
    <3>2. ~(i \in 1..k)
      BY <1>3, <3>1
    <3>3. i - k \in 1..Len(r) /\ k + (i - k) = i
      BY <1>1, <1>2, <1>6, <3>1, <3>2
    <3>4. r[i - k] = w
      BY <1>6, <3>1, <3>3
    <3> QED
      BY <3>3, <3>4
  <2>2. ASSUME NEW i \in 1..Len(r) PROVE r[i] \in W \ G
    <3>1. r[i] = q[k + i] /\ k + i \in 1..Len(q)
      BY <1>6
    <3>2. q[k + i] \in W
      BY <3>1 DEF LimiterOK
    <3>3. q[k + i] \notin G
      <4>1. \A j \in 1..k : j \in 1..Len(q) /\ j # k + i
        BY <1>1, <1>2
      <4> QED
        BY <1>3, <1>4, <3>1, <4>1
    <3> QED
      BY <3>1, <3>2, <3>3
  <2> QED
    BY <2>1, <2>2
<1>12. r # <<>> => m.active >= m.limit
  <2>1. r # <<>> => Len(r) # 0
    BY <1>6
  <2> QED
    BY <1>1, <1>2, <1>6, <1>7, <2>1
<1>13. G \subseteq W
  <2>1. \A i \in 1..k : i \in 1..Len(q)
    BY <1>1, <1>2
  <2> QED
    BY <1>3, <2>1 DEF LimiterOK
<1>14. LimiterOK(m, W \ G, n - 1 + k)
  BY <1>7, <1>8, <1>10, <1>11, <1>12 DEF LimiterOK
<1> QED
  BY <1>5, <1>7, <1>8, <1>9, <1>13, <1>14, DroppedIsOK DEF G

-----------------------------------------------------------------------------
(* SqlPools: the entries of the registry *)

PoolRows == [key : {KeyOf[h] : h \in Handles}, state : {"creating", "open", "failed", "closed"},
             active : Nat, listed : BOOLEAN, invalid : BOOLEAN, idle : BOOLEAN, closing : BOOLEAN,
             retry : BOOLEAN, attempts : Nat, abandoned : BOOLEAN, healthy : BOOLEAN, reported : BOOLEAN]

\* What holds of an entry that nobody uses any more, while the process is up (s: it goes down).
Sound(e, s) ==
    /\ e \in PoolRows
    /\ e.state = "creating" => e.active # 0
    /\ e.listed => ~e.closing /\ ~e.retry /\ ~e.reported /\ e.state \in {"creating", "open"}
    /\ e.closing \/ e.retry \/ e.state = "closed" => s \/ e.active = 0
    /\ e.state = "open" /\ e.active = 0 => e.idle \/ e.closing \/ e.retry \/ e.abandoned

\* The same of one that its last user just left.
Left(e, s) ==
    /\ e \in PoolRows /\ e.state # "creating"
    /\ e.listed => ~e.closing /\ ~e.retry /\ ~e.reported /\ e.state \in {"creating", "open"}
    /\ e.closing \/ e.retry \/ e.state = "closed" => s \/ e.active = 0

LEMMA CloseStartsIsSound ==
  ASSUME NEW e \in PoolRows, NEW s \in BOOLEAN, s \/ e.active = 0,
         e.state = "creating" => e.active # 0,
         e.listed => ~e.closing /\ ~e.retry /\ e.state \in {"creating", "open"}
  PROVE  LET c == CloseStarts(e)
         IN  Sound(c, s) /\ c.active = e.active /\ ~c.listed
<1>1. CASE e.closing \/ e.state = "closed"
  BY <1>1 DEF CloseStarts, Sound, PoolRows
<1>2. CASE ~(e.closing \/ e.state = "closed")
  <2> DEFINE c == [e EXCEPT !.closing = TRUE, !.idle = FALSE, !.retry = FALSE, !.listed = FALSE,
                            !.attempts = @ + 1]
  <2>1. c \in PoolRows /\ c.closing /\ ~c.listed /\ c.active = e.active /\ c.state = e.state
    <3> DEFINE n == e.attempts + 1
               d == [[[[e EXCEPT !.closing = TRUE] EXCEPT !.idle = FALSE] EXCEPT !.retry = FALSE] EXCEPT !.listed = FALSE]
    <3>1. n \in Nat
      BY DEF PoolRows
    <3> HIDE DEF n
    <3>2. d \in PoolRows /\ d.closing /\ ~d.listed /\ d.active = e.active /\ d.state = e.state
      BY DEF PoolRows
    <3>3. c = [d EXCEPT !.attempts = n]
      BY DEF PoolRows, n
    <3> HIDE DEF c, d
    <3> QED
      BY <3>1, <3>2, <3>3 DEF PoolRows
  <2>2. CloseStarts(e) = c
    BY <1>2 DEF CloseStarts
  <2> HIDE DEF c
  <2> QED
    BY <2>1, <2>2 DEF Sound
<1> QED
  BY <1>1, <1>2

LEMMA LeftByIsSound ==
  ASSUME NEW e, NEW s \in BOOLEAN, Left(e, s)
  PROVE  LET c == LeftBy(e)
         IN  Sound(c, s) /\ c.active = e.active /\ (c.listed => e.listed)
<1>1. CASE e.active > 0 \/ e.closing \/ e.state \in {"closed", "failed"}
  BY <1>1 DEF LeftBy, Left, Sound, PoolRows
<1>2. CASE ~(e.active > 0 \/ e.closing \/ e.state \in {"closed", "failed"})
  <2>1. e.active = 0 /\ e.state = "open" /\ e \in PoolRows
    BY <1>2 DEF Left, PoolRows
  <2>2. CASE e.invalid \/ ~e.listed
    BY <1>2, <2>1, <2>2, CloseStartsIsSound DEF LeftBy, Left
  <2>3. CASE ~(e.invalid \/ ~e.listed)
    <3> DEFINE c == [e EXCEPT !.idle = TRUE]
    <3>1. c \in PoolRows /\ c.idle /\ \A f \in DOMAIN e \ {"idle"} : c[f] = e[f]
      BY <2>1 DEF PoolRows
    <3>2. c.state = e.state /\ c.active = e.active /\ c.listed = e.listed /\ c.closing = e.closing
          /\ c.retry = e.retry /\ c.reported = e.reported
      BY <2>1 DEF PoolRows
    <3>3. LeftBy(e) = c
      BY <1>2, <2>3 DEF LeftBy
    <3> HIDE DEF c
    <3> QED
      BY <2>1, <3>1, <3>2, <3>3 DEF Sound, Left
  <2> QED
    BY <2>2, <2>3
<1> QED
  BY <1>1, <1>2

LEMMA RetiredIsSound ==
  ASSUME NEW e \in PoolRows, NEW s \in BOOLEAN, e.listed, ~e.closing, ~e.retry, e.state \in {"creating", "open"},
         e.state = "creating" => e.active # 0
  PROVE  LET c == Retired(e)
         IN  Sound(c, s) /\ c.active = e.active /\ ~c.listed
<1> DEFINE off == [e EXCEPT !.invalid = TRUE, !.listed = FALSE]
<1>1. off \in PoolRows /\ off.state = e.state /\ off.active = e.active /\ ~off.listed
      /\ off.closing = e.closing /\ off.retry = e.retry
  BY DEF PoolRows
<1>2. Retired(e) = IF e.active = 0 THEN CloseStarts(off) ELSE off
  BY DEF Retired
<1> HIDE DEF off
<1>3. CASE e.active = 0
  BY <1>1, <1>2, <1>3, CloseStartsIsSound
<1>4. CASE e.active # 0
  BY <1>1, <1>2, <1>4 DEF Sound
<1> QED
  BY <1>3, <1>4

-----------------------------------------------------------------------------
(* SqlPools: the inductive invariant *)

Waiting   == {u \in Uses : use[u].at = "queued"}
Holding   == {u \in Uses : use[u].at \in {"granted", "in"}}
Inside(p) == {u \in Uses : use[u].at = "in" /\ use[u].pool = p}

UseRows == [at : {"new", "queued", "granted", "in", "failed", "ended"}, pool : Nat]

PoolTypeOK ==
    /\ use \in [Uses -> UseRows]
    /\ pool \in Seq(PoolRows)
    /\ current \in [Handles -> Nat]
    /\ shut \in BOOLEAN

\* A call's pool is still the one of its handle, or is listed no more.
HandleKnows(u) ==
    use[u].at \in {"in", "failed"} =>
        /\ use[u].pool \in 1..Len(pool)
        /\ current[HandleOf[u]] # 0
        /\ pool[use[u].pool].listed => current[HandleOf[u]] = use[u].pool

PoolInv ==
    /\ PoolTypeOK
    /\ LimiterOK(limiter, Waiting, Cardinality(Holding))
    /\ \A h \in Handles : current[h] <= Len(pool)
    /\ \A u \in Uses : HandleKnows(u)
    /\ \A p \in 1..Len(pool) : Sound(pool[p], shut) /\ pool[p].active = Cardinality(Inside(p))

LEMMA PoolInitInv == SqlInit => PoolInv
<1> SUFFICES ASSUME SqlInit PROVE PoolInv
  OBVIOUS
<1>1. PoolTypeOK /\ Len(pool) = 0
  <2>1. [at |-> "new", pool |-> 0] \in UseRows
    BY DEF UseRows
  <2>2. use \in [Uses -> UseRows] /\ current \in [Handles -> Nat] /\ shut \in BOOLEAN
    BY <2>1 DEF SqlInit
  <2>3. pool \in Seq(PoolRows) /\ Len(pool) = 0
    BY DEF SqlInit
  <2> QED
    BY <2>2, <2>3 DEF PoolTypeOK
<1>2. Waiting = {} /\ Holding = {} /\ \A u \in Uses : HandleKnows(u)
  BY DEF SqlInit, Waiting, Holding, HandleKnows
<1>3. NoLimiter \in Limiters /\ NoLimiter.active = 0 /\ NoLimiter.queue = <<>> /\ Len(NoLimiter.queue) = 0
  BY DEF NoLimiter, Limiters
<1>4. LimiterOK(limiter, Waiting, Cardinality(Holding))
  BY <1>2, <1>3, FS_EmptySet DEF LimiterOK, SqlInit
<1> QED
  BY <1>1, <1>2, <1>4 DEF PoolInv, SqlInit

-----------------------------------------------------------------------------
(* SqlPools: steps that change entries only *)

\* A call may end meanwhile.
LEMMA CallAndEntriesChange ==
  ASSUME PoolInv, UNCHANGED <<limiter, current>>, shut' \in BOOLEAN,
         use' \in [Uses -> UseRows],
         \A w \in Uses : use'[w] = use[w] \/ (use[w].at = "failed" /\ use'[w].at = "ended"),
         pool' \in Seq(PoolRows), Len(pool') = Len(pool),
         \A p \in 1..Len(pool) : /\ Sound(pool'[p], shut')
                                 /\ pool'[p].active = pool[p].active
                                 /\ pool'[p].listed => pool[p].listed
  PROVE  PoolInv'
<1>1. Waiting' = Waiting /\ Holding' = Holding /\ \A p \in 1..Len(pool) : Inside(p)' = Inside(p)
  BY DEF Waiting, Holding, Inside
<1>2. PoolTypeOK'
  BY DEF PoolInv, PoolTypeOK
<1>3. LimiterOK(limiter, Waiting, Cardinality(Holding))'
  BY <1>1 DEF PoolInv, LimiterOK, Limiters
<1>4. ASSUME NEW u \in Uses PROVE HandleKnows(u)'
  <2>1. CASE use'[u] = use[u]
    BY <2>1 DEF PoolInv, HandleKnows
  <2>2. CASE use'[u].at = "ended"
    BY <2>2 DEF HandleKnows
  <2> QED
    BY <2>1, <2>2
<1>5. ASSUME NEW p \in 1..Len(pool) PROVE (Sound(pool[p], shut) /\ pool[p].active = Cardinality(Inside(p)))'
  BY <1>1 DEF PoolInv
<1>6. \A h \in Handles : current'[h] <= Len(pool')
  BY DEF PoolInv
<1> QED
  BY <1>2, <1>3, <1>4, <1>5, <1>6 DEF PoolInv

LEMMA EntriesChange ==
  ASSUME PoolInv, UNCHANGED <<limiter, use, current>>, shut' \in BOOLEAN,
         pool' \in Seq(PoolRows), Len(pool') = Len(pool),
         \A p \in 1..Len(pool) : /\ Sound(pool'[p], shut')
                                 /\ pool'[p].active = pool[p].active
                                 /\ pool'[p].listed => pool[p].listed
  PROVE  PoolInv'
<1>1. use' \in [Uses -> UseRows] /\ \A w \in Uses : use'[w] = use[w]
  BY DEF PoolInv, PoolTypeOK
<1> QED
  BY <1>1, CallAndEntriesChange

LEMMA OneEntryChanges ==
  ASSUME PoolInv, UNCHANGED <<limiter, use, current, shut>>, NEW p \in 1..Len(pool), NEW e,
         Sound(e, shut), e.active = pool[p].active, e.listed => pool[p].listed,
         pool' = [pool EXCEPT ![p] = e]
  PROVE  PoolInv'
<1>1. pool \in Seq(PoolRows) /\ shut \in BOOLEAN /\ e \in PoolRows
  BY DEF PoolInv, PoolTypeOK, Sound
<1>2. pool' \in Seq(PoolRows) /\ Len(pool') = Len(pool)
  BY <1>1
<1>3. \A q \in 1..Len(pool) : pool'[q] = IF q = p THEN e ELSE pool[q]
  BY <1>1
<1>4. \A q \in 1..Len(pool) : /\ Sound(pool'[q], shut')
                              /\ pool'[q].active = pool[q].active
                              /\ pool'[q].listed => pool[q].listed
  BY <1>3 DEF PoolInv
<1> QED
  BY <1>1, <1>2, <1>4, EntriesChange

LEMMA OpensOrBreaks ==
  ASSUME PoolInv, NEW p \in DOMAIN pool, Opened(p) \/ OpenFails(p) \/ Breaks(p) \/ Closed(p)
  PROVE  PoolInv'
<1>1. p \in 1..Len(pool)
  BY DEF PoolInv, PoolTypeOK
<1>2. Sound(pool[p], shut) /\ pool[p] \in PoolRows
  BY <1>1 DEF PoolInv, Sound
<1> DEFINE d == pool[p]
<1> HIDE DEF d
<1>3. d \in PoolRows /\ Sound(d, shut) /\ d = pool[p]
  BY <1>2 DEF d
<1>4. CASE Opened(p)
  <2> DEFINE e == [d EXCEPT !.state = "open"]
  <2>1. Sound(e, shut) /\ e.active = d.active /\ e.listed = d.listed
    BY <1>3, <1>4 DEF Opened, Sound, PoolRows
  <2>2. pool' = [pool EXCEPT ![p] = e]
    BY <1>1, <1>4 DEF Opened, d
  <2> HIDE DEF e
  <2> QED
    BY <1>1, <1>3, <1>4, <2>1, <2>2, OneEntryChanges DEF Opened
<1>5. CASE OpenFails(p)
  <2> DEFINE e == [[d EXCEPT !.state = "failed"] EXCEPT !.listed = FALSE]
  <2>1. Sound(e, shut) /\ e.active = d.active /\ ~e.listed
    BY <1>3, <1>5 DEF OpenFails, Sound, PoolRows
  <2>2. pool' = [pool EXCEPT ![p] = e]
    BY <1>1, <1>2, <1>5 DEF OpenFails, d, PoolRows
  <2> HIDE DEF e
  <2> QED
    BY <1>1, <1>3, <1>5, <2>1, <2>2, OneEntryChanges DEF OpenFails
<1>6. CASE Breaks(p)
  <2> DEFINE e == [d EXCEPT !.healthy = FALSE]
  <2>1. Sound(e, shut) /\ e.active = d.active /\ e.listed = d.listed
    BY <1>3, <1>6 DEF Breaks, Sound, PoolRows
  <2>2. pool' = [pool EXCEPT ![p] = e]
    BY <1>1, <1>6 DEF Breaks, d
  <2> HIDE DEF e
  <2> QED
    BY <1>1, <1>3, <1>6, <2>1, <2>2, OneEntryChanges DEF Breaks
<1>7. CASE Closed(p)
  <2> DEFINE e == [[[d EXCEPT !.state = "closed"] EXCEPT !.closing = FALSE] EXCEPT !.retry = FALSE]
  <2>1. Sound(e, shut) /\ e.active = d.active /\ e.listed = d.listed
    BY <1>3, <1>7 DEF Closed, Sound, PoolRows
  <2>2. pool' = [pool EXCEPT ![p] = e]
    BY <1>1, <1>2, <1>7 DEF Closed, d, PoolRows
  <2> HIDE DEF e
  <2> QED
    BY <1>1, <1>3, <1>7, <2>1, <2>2, OneEntryChanges DEF Closed
<1> QED
  BY <1>4, <1>5, <1>6, <1>7

LEMMA TimerFires ==
  ASSUME PoolInv, NEW p \in DOMAIN pool, IdleTimer(p) \/ RetryTimer(p)
  PROVE  PoolInv'
<1>1. p \in 1..Len(pool) /\ shut \in BOOLEAN
  BY DEF PoolInv, PoolTypeOK
<1> DEFINE d == pool[p]
<1>2. Sound(d, shut) /\ d \in PoolRows
  BY <1>1 DEF PoolInv, Sound
<1>3. CASE RetryTimer(p)
  <2>1. shut \/ d.active = 0
    BY <1>2, <1>3 DEF RetryTimer, Sound
  <2>2. Sound(CloseStarts(d), shut) /\ CloseStarts(d).active = d.active /\ ~CloseStarts(d).listed
    BY <1>1, <1>2, <2>1, CloseStartsIsSound DEF Sound
  <2>3. pool' = [pool EXCEPT ![p] = CloseStarts(d)]
    BY <1>3 DEF RetryTimer
  <2> QED
    BY <1>1, <1>3, <2>2, <2>3, OneEntryChanges DEF RetryTimer
<1>4. CASE IdleTimer(p) /\ d.active = 0
  <2>1. Sound(CloseStarts(d), shut) /\ CloseStarts(d).active = d.active /\ ~CloseStarts(d).listed
    BY <1>1, <1>2, <1>4, CloseStartsIsSound DEF Sound
  <2>2. pool' = [pool EXCEPT ![p] = CloseStarts(d)]
    BY <1>4 DEF IdleTimer
  <2> QED
    BY <1>1, <1>4, <2>1, <2>2, OneEntryChanges DEF IdleTimer
<1>5. CASE IdleTimer(p) /\ d.active # 0
  <2> DEFINE e == [d EXCEPT !.idle = FALSE]
  <2>1. pool' = [pool EXCEPT ![p] = e]
    BY <1>5 DEF IdleTimer
  <2> HIDE DEF d
  <2>2. Sound(e, shut) /\ e.active = d.active /\ e.listed = d.listed
    BY <1>2, <1>5 DEF Sound, PoolRows
  <2> HIDE DEF e
  <2> QED
    BY <1>1, <1>5, <2>1, <2>2, OneEntryChanges DEF IdleTimer, d
<1> QED
  BY <1>3, <1>4, <1>5

LEMMA CloseFailsKeeps ==
  ASSUME PoolInv, NEW p \in DOMAIN pool, CloseFails(p)
  PROVE  PoolInv'
<1> DEFINE e == pool[p]
           New(q) == IF q = p THEN IF e.abandoned THEN [e EXCEPT !.closing = FALSE]
                                   ELSE IF e.attempts >= MaxCloseAttempts THEN GivenUp([e EXCEPT !.closing = FALSE])
                                   ELSE [e EXCEPT !.closing = FALSE, !.retry = TRUE]
                     ELSE IF FailedBefore(pool[q]) /\ pool[q].key = e.key /\ ~e.abandoned THEN GivenUp(pool[q])
                     ELSE pool[q]
<1>1. pool \in Seq(PoolRows) /\ shut \in BOOLEAN /\ DOMAIN pool = 1..Len(pool) /\ p \in 1..Len(pool)
  BY DEF PoolInv, PoolTypeOK
<1>2. pool' = [q \in DOMAIN pool |-> New(q)] /\ e.closing /\ UNCHANGED <<limiter, use, current, shut>>
  BY DEF CloseFails
<1>3. \A q \in 1..Len(pool) : Sound(pool[q], shut)
  BY DEF PoolInv
<1>4. ASSUME NEW d, Sound(d, shut), d.closing
      PROVE  \A f \in {[d EXCEPT !.closing = FALSE, !.retry = TRUE], GivenUp([d EXCEPT !.closing = FALSE])} :
                Sound(f, shut) /\ f.active = d.active /\ ~f.listed
  <2>1. Sound([d EXCEPT !.closing = FALSE, !.retry = TRUE], shut)
    <3> DEFINE f == [[d EXCEPT !.closing = FALSE] EXCEPT !.retry = TRUE]
    <3>1. Sound(f, shut)
      BY <1>4 DEF Sound, PoolRows
    <3>2. f = [d EXCEPT !.closing = FALSE, !.retry = TRUE]
      BY <1>4 DEF Sound, PoolRows
    <3> QED
      BY <3>1, <3>2
  <2>2. Sound(GivenUp([d EXCEPT !.closing = FALSE]), shut)
    <3> DEFINE f == [[[d EXCEPT !.closing = FALSE] EXCEPT !.abandoned = TRUE] EXCEPT !.retry = FALSE]
    <3>1. Sound(f, shut)
      BY <1>4 DEF Sound, PoolRows
    <3>2. f = GivenUp([d EXCEPT !.closing = FALSE])
      BY <1>4 DEF Sound, PoolRows, GivenUp
    <3> QED
      BY <3>1, <3>2
  <2>3. \A f \in {[d EXCEPT !.closing = FALSE, !.retry = TRUE], GivenUp([d EXCEPT !.closing = FALSE])} :
           f.active = d.active /\ f.listed = d.listed
    BY <1>4 DEF Sound, PoolRows, GivenUp
  <2> QED
    BY <1>4, <2>1, <2>2, <2>3 DEF Sound
<1>5. ASSUME NEW d, Sound(d, shut), d.closing, d.abandoned
      PROVE  LET f == [d EXCEPT !.closing = FALSE]
             IN  Sound(f, shut) /\ f.active = d.active /\ ~f.listed
  BY <1>5 DEF Sound, PoolRows
<1>6. ASSUME NEW d, Sound(d, shut)
      PROVE  LET f == GivenUp(d)
             IN  Sound(f, shut) /\ f.active = d.active /\ f.listed = d.listed
  <2> DEFINE f == [[d EXCEPT !.abandoned = TRUE] EXCEPT !.retry = FALSE]
  <2>1. Sound(f, shut) /\ f.active = d.active /\ f.listed = d.listed
    BY <1>6 DEF Sound, PoolRows
  <2>2. f = GivenUp(d)
    BY <1>6 DEF Sound, PoolRows, GivenUp
  <2> QED
    BY <2>1, <2>2
<1>7. ASSUME NEW q \in 1..Len(pool)
      PROVE  Sound(New(q), shut) /\ New(q).active = pool[q].active /\ (New(q).listed => pool[q].listed)
  <2>1. CASE q = p
    BY <1>1, <1>2, <1>3, <1>4, <1>5, <2>1
  <2>2. CASE q # p
    BY <1>3, <1>6, <2>2
  <2> QED
    BY <2>1, <2>2
<1>8. \A q \in 1..Len(pool) : pool'[q] = New(q)
  BY <1>1, <1>2
<1>9. pool' \in Seq(PoolRows) /\ Len(pool') = Len(pool)
  <2>1. \A q \in 1..Len(pool) : New(q) \in PoolRows
    BY <1>7 DEF Sound
  <2>2. pool' = [q \in 1..Len(pool) |-> New(q)]
    BY <1>1, <1>2
  <2> HIDE DEF New
  <2>3. pool' \in [1..Len(pool) -> PoolRows] /\ Len(pool) \in Nat
    BY <1>1, <2>1, <2>2
  <2> QED
    BY <2>3
<1> HIDE DEF New
<1> QED
  BY <1>1, <1>2, <1>7, <1>8, <1>9, EntriesChange

LEMMA CloseAllKeeps ==
  ASSUME PoolInv, CloseAll
  PROVE  PoolInv'
<1> DEFINE New(q) == IF Known(pool[q]) THEN CloseStarts(pool[q]) ELSE pool[q]
<1>1. pool \in Seq(PoolRows) /\ DOMAIN pool = 1..Len(pool)
  BY DEF PoolInv, PoolTypeOK
<1>2. pool' = [q \in 1..Len(pool) |-> New(q)] /\ shut' = TRUE /\ UNCHANGED <<limiter, use, current>>
  BY <1>1 DEF CloseAll
<1>3. ASSUME NEW q \in 1..Len(pool)
      PROVE  Sound(New(q), TRUE) /\ New(q).active = pool[q].active /\ (New(q).listed => pool[q].listed)
  <2>1. Sound(pool[q], shut) /\ pool[q] \in PoolRows
    BY DEF PoolInv, Sound
  <2> DEFINE d == pool[q]
  <2> HIDE DEF d
  <2>2. Sound(d, shut) /\ d \in PoolRows /\ d = pool[q]
    BY <2>1 DEF d
  <2>3. Sound(CloseStarts(d), TRUE) /\ CloseStarts(d).active = d.active /\ ~CloseStarts(d).listed
    BY <2>2, CloseStartsIsSound DEF Sound
  <2>4. Sound(d, TRUE)
    BY <2>2 DEF Sound
  <2> QED
    BY <2>2, <2>3, <2>4
<1> HIDE DEF New
<1>4. \A q \in 1..Len(pool) : pool'[q] = New(q)
  BY <1>2
<1>5. pool' \in Seq(PoolRows) /\ Len(pool') = Len(pool)
  <2>1. \A q \in 1..Len(pool) : New(q) \in PoolRows
    BY <1>3 DEF Sound
  <2>2. pool' \in [1..Len(pool) -> PoolRows] /\ Len(pool) \in Nat
    BY <1>1, <1>2, <2>1
  <2> QED
    BY <2>2
<1> QED
  BY <1>2, <1>3, <1>4, <1>5, EntriesChange

-----------------------------------------------------------------------------
(* SqlPools: steps of a call *)

LEMMA FiniteUses ==
  ASSUME NEW S \in SUBSET Uses
  PROVE  IsFiniteSet(S) /\ Cardinality(S) \in Nat
<1>1. IsFiniteSet(S)
  BY UsesAssumption, FS_Subset
<1> QED
  BY <1>1, FS_CardinalityType

\* A call that is in no pool moves, and gets into none.
LEMMA CallOutsideMoves ==
  ASSUME PoolInv, NEW u \in Uses, use[u].at \notin {"in", "failed"},
         NEW a \in {"new", "queued", "granted", "ended"}, UseGoes(u, a, 0),
         UNCHANGED <<pool, current, shut>>,
         LimiterOK(limiter', Waiting', Cardinality(Holding'))
  PROVE  PoolInv'
<1>1. /\ use \in [Uses -> UseRows]
      /\ use'[u] = [at |-> a, pool |-> 0]
      /\ \A w \in Uses : w # u => use'[w] = use[w]
  BY DEF PoolInv, PoolTypeOK, UseGoes
<1>2. [at |-> a, pool |-> 0] \in UseRows
  BY DEF UseRows
<1>3. use' \in [Uses -> UseRows]
  BY <1>1, <1>2 DEF UseGoes
<1>4. use'[u].at = a
  BY <1>1
<1>5. ASSUME NEW p PROVE Inside(p)' = Inside(p)
  BY <1>1, <1>4 DEF Inside
<1>6. ASSUME NEW w \in Uses PROVE HandleKnows(w)'
  <2>1. HandleKnows(w)
    BY DEF PoolInv
  <2>2. CASE w = u
    BY <1>4, <2>2 DEF HandleKnows
  <2>3. CASE w # u
    BY <1>1, <2>1, <2>3 DEF HandleKnows
  <2> QED
    BY <2>2, <2>3
<1>7. ASSUME NEW p \in 1..Len(pool) PROVE (Sound(pool[p], shut) /\ pool[p].active = Cardinality(Inside(p)))'
  BY <1>5 DEF PoolInv
<1> QED
  BY <1>3, <1>6, <1>7 DEF PoolInv, PoolTypeOK

LEMMA AcquireKeeps ==
  ASSUME PoolInv, NEW u \in Uses, Acquire(u)
  PROVE  PoolInv'
<1> DEFINE b == BudgetOf[HandleOf[u]]
           k == IF limiter.limit = 0 \/ b < limiter.limit THEN b ELSE limiter.limit
           l == [limiter EXCEPT !.limit = k]
<1>1. /\ b \in Nat \ {0} /\ limiter \in Limiters
      /\ use \in [Uses -> UseRows] /\ use[u].at = "new"
      /\ UNCHANGED <<pool, current, shut>>
  BY BudgetOfAssumption DEF Acquire, PoolInv, PoolTypeOK, LimiterOK
<1>2. k \in Nat \ {0} /\ (limiter.limit # 0 => k <= limiter.limit)
  BY <1>1 DEF Limiters
<1> DEFINE n == Cardinality(Holding)
<1>3. LimiterOK(limiter, Waiting, n) /\ n \in Nat /\ IsFiniteSet(Holding)
  BY FiniteUses DEF PoolInv, Holding
<1>4. \/ l.active < l.limit /\ limiter' = [l EXCEPT !.active = @ + 1] /\ UseGoes(u, "granted", 0)
      \/ l.active >= l.limit /\ limiter' = [l EXCEPT !.queue = Append(@, u)] /\ UseGoes(u, "queued", 0)
      \/ limiter' = l /\ UseGoes(u, "ended", 0)
  BY DEF Acquire
<1> HIDE DEF k
<1>5. l \in Limiters /\ l.limit = k /\ l.active = limiter.active /\ l.queue = limiter.queue
  BY <1>1, <1>2 DEF Limiters
<1> HIDE DEF l, n
<1>6. /\ l.active = n /\ l.active \in Nat /\ l.limit \in Nat \ {0}
      /\ l.queue \in Seq(Uses) /\ Len(l.queue) \in Nat
      /\ l.queue # <<>> => l.active >= l.limit
  BY <1>1, <1>2, <1>3, <1>5 DEF LimiterOK, Limiters
<1>7. /\ \A i, j \in 1..Len(l.queue) : l.queue[i] = l.queue[j] => i = j
      /\ Waiting = {l.queue[i] : i \in 1..Len(l.queue)}
  BY <1>3, <1>5 DEF LimiterOK
<1>8. LimiterOK(l, Waiting, n)
  BY <1>5, <1>6, <1>7 DEF LimiterOK
<1>9. u \notin Waiting /\ u \notin Holding
  BY <1>1 DEF Waiting, Holding
<1>10. ASSUME NEW a, UseGoes(u, a, 0)
       PROVE  /\ Waiting' = IF a = "queued" THEN Waiting \cup {u} ELSE Waiting
              /\ a # "in" => Holding' = IF a = "granted" THEN Holding \cup {u} ELSE Holding
  <2>1. \A w \in Uses : use'[w] = IF w = u THEN [at |-> a, pool |-> 0] ELSE use[w]
    BY <1>1, <1>10 DEF UseGoes
  <2> QED
    BY <1>1, <2>1 DEF Waiting, Holding
<1>11. CASE l.active < l.limit /\ limiter' = [l EXCEPT !.active = @ + 1] /\ UseGoes(u, "granted", 0)
  <2>1. Waiting' = Waiting /\ Holding' = Holding \cup {u}
    BY <1>10, <1>11
  <2>2. Cardinality(Holding') = n + 1
    BY <1>3, <1>9, <2>1, FS_AddElement DEF n
  <2>3. limiter' \in Limiters /\ limiter'.active = n + 1 /\ limiter'.limit = l.limit /\ limiter'.queue = l.queue
    BY <1>5, <1>6, <1>11 DEF Limiters
  <2>4. l.queue = <<>>
    BY <1>6, <1>11
  <2>5. LimiterOK(limiter', Waiting', Cardinality(Holding'))
    BY <1>6, <1>7, <2>1, <2>2, <2>3, <2>4 DEF LimiterOK
  <2> QED
    BY <1>1, <1>11, <2>5, CallOutsideMoves
<1>12. CASE l.active >= l.limit /\ limiter' = [l EXCEPT !.queue = Append(@, u)] /\ UseGoes(u, "queued", 0)
  <2>1. Waiting' = Waiting \cup {u} /\ Holding' = Holding
    BY <1>10, <1>12
  <2> DEFINE q == Append(l.queue, u)
  <2>2. /\ q \in Seq(Uses) /\ Len(q) = Len(l.queue) + 1 /\ q[Len(l.queue) + 1] = u
        /\ \A i \in 1..Len(l.queue) : q[i] = l.queue[i]
    BY <1>6
  <2>3. limiter' = [l EXCEPT !.queue = q]
    BY <1>12
  <2> HIDE DEF q
  <2>4. limiter' \in Limiters /\ limiter'.active = n /\ limiter'.limit = l.limit /\ limiter'.queue = q
    BY <1>5, <1>6, <2>2, <2>3 DEF Limiters
  <2>5. \A i \in 1..Len(l.queue) : q[i] # u
    BY <1>7, <1>9, <2>2
  <2>6. \A i \in 1..Len(q) : i \in 1..Len(l.queue) \/ i = Len(l.queue) + 1
    BY <1>6, <2>2
  <2>7. \A i, j \in 1..Len(q) : q[i] = q[j] => i = j
    BY <1>7, <2>2, <2>5, <2>6
  <2>8. Waiting \cup {u} = {q[i] : i \in 1..Len(q)}
    <3>1. \A i \in 1..Len(q) : q[i] \in Waiting \cup {u}
      BY <1>7, <2>2, <2>6
    <3>2. Len(l.queue) + 1 \in 1..Len(q) /\ \A i \in 1..Len(l.queue) : i \in 1..Len(q)
      BY <1>6, <2>2
    <3>3. \A w \in Waiting : \E i \in 1..Len(q) : q[i] = w
      BY <1>7, <2>2, <3>2
    <3> QED
      BY <2>2, <3>1, <3>2, <3>3
  <2>9. LimiterOK(limiter', Waiting', Cardinality(Holding'))
    BY <1>6, <1>12, <2>1, <2>4, <2>7, <2>8 DEF LimiterOK, n
  <2> QED
    BY <1>1, <1>12, <2>9, CallOutsideMoves
<1>13. CASE limiter' = l /\ UseGoes(u, "ended", 0)
  <2>1. Waiting' = Waiting /\ Holding' = Holding
    BY <1>10, <1>13
  <2>2. LimiterOK(limiter', Waiting', Cardinality(Holding'))
    BY <1>8, <1>13, <2>1 DEF n
  <2> QED
    BY <1>1, <1>13, <2>2, CallOutsideMoves
<1> QED
  BY <1>4, <1>11, <1>12, <1>13

LEMMA CancelKeeps ==
  ASSUME PoolInv, NEW u \in Uses, Cancel(u)
  PROVE  PoolInv'
<1>1. /\ use \in [Uses -> UseRows] /\ use[u].at = "queued" /\ limiter' = Leaving(limiter, u)
      /\ UseGoes(u, "ended", 0) /\ UNCHANGED <<pool, current, shut>>
  BY DEF Cancel, PoolInv, PoolTypeOK
<1>2. u \in Waiting
  BY <1>1 DEF Waiting
<1>3. Waiting' = Waiting \ {u} /\ Holding' = Holding
  <2>1. \A w \in Uses : use'[w] = IF w = u THEN [at |-> "ended", pool |-> 0] ELSE use[w]
    BY <1>1 DEF UseGoes
  <2> QED
    BY <1>1, <2>1 DEF Waiting, Holding
<1>4. LimiterOK(Leaving(limiter, u), Waiting \ {u}, Cardinality(Holding))
  BY <1>2, LeavingIsOK DEF PoolInv
<1>5. LimiterOK(limiter', Waiting', Cardinality(Holding'))
  BY <1>1, <1>3, <1>4
<1> QED
  BY <1>1, <1>5, CallOutsideMoves

LEMMA EnterKeeps ==
  ASSUME PoolInv, NEW u \in Uses, Enter(u)
  PROVE  PoolInv'
<1> DEFINE h     == HandleOf[u]
           found == IF MayReuse(h) THEN {current[h]} ELSE ListedUnder(KeyOf[h])
           at    == IF found = {} THEN Len(pool) + 1 ELSE CHOOSE e \in found : TRUE
           n     == Len(pool)
<1>1. /\ use \in [Uses -> UseRows] /\ pool \in Seq(PoolRows) /\ current \in [Handles -> Nat] /\ shut \in BOOLEAN
      /\ h \in Handles /\ n \in Nat /\ DOMAIN pool = 1..n
  BY DEF PoolInv, PoolTypeOK, Handles
<1>2. /\ use[u].at = "granted" /\ UNCHANGED <<limiter, shut>>
      /\ pool' = IF found = {} THEN Append(pool, NewPool(KeyOf[h]))
                 ELSE [pool EXCEPT ![at].active = @ + 1, ![at].idle = FALSE]
      /\ current' = [current EXCEPT ![h] = at]
      /\ use' = [use EXCEPT ![u] = [at |-> "in", pool |-> at]]
  BY DEF Enter, UseGoes
<1>3. found \subseteq {q \in 1..n : pool[q].listed}
  <2>1. MayReuse(h) => current[h] \in 1..n /\ pool[current[h]].listed
    BY <1>1 DEF MayReuse, PoolInv
  <2> QED
    BY <1>1, <2>1 DEF ListedUnder
<1>4. found # {} => at \in found
  OBVIOUS
<1>5. ASSUME NEW q \in 1..n, pool[q].listed, current[h] = q PROVE found = {q}
  BY <1>1, <1>5 DEF MayReuse
<1>6. PICK p : p = at
  OBVIOUS
<1> HIDE DEF found, at
<1>7. p \in 1..(n + 1) /\ (found = {} => p = n + 1) /\ (found # {} => p \in 1..n /\ pool[p].listed)
  <2>1. CASE found = {}
    BY <1>1, <1>6, <2>1 DEF at
  <2>2. CASE found # {}
    <3>1. p \in {q \in 1..n : pool[q].listed}
      BY <1>3, <1>4, <1>6, <2>2
    <3> QED
      BY <1>1, <2>2, <3>1
  <2> QED
    BY <2>1, <2>2
<1>8. /\ \A q \in 1..n : Sound(pool[q], shut) /\ pool[q] \in PoolRows /\ pool[q].active = Cardinality(Inside(q))
      /\ \A w \in Uses : HandleKnows(w)
  BY DEF PoolInv, Sound
\* The calls
<1>9. use' \in [Uses -> UseRows] /\ \A w \in Uses : use'[w] = IF w = u THEN [at |-> "in", pool |-> p] ELSE use[w]
  <2>1. [at |-> "in", pool |-> p] \in UseRows
    BY <1>1, <1>7 DEF UseRows
  <2> QED
    BY <1>1, <1>2, <1>6, <2>1
<1>10. Waiting' = Waiting /\ Holding' = Holding
  BY <1>2, <1>9 DEF Waiting, Holding
<1>11. ASSUME NEW q PROVE Inside(q)' = IF q = p THEN Inside(q) \cup {u} ELSE Inside(q)
  BY <1>2, <1>9 DEF Inside
<1>12. u \notin Inside(p) /\ IsFiniteSet(Inside(p))
  BY <1>2, FiniteUses DEF Inside
<1>13. Cardinality(Inside(p)') = Cardinality(Inside(p)) + 1
  BY <1>11, <1>12, FS_AddElement
<1>14. current' \in [Handles -> Nat] /\ current'[h] = p /\ \A g \in Handles : g # h => current'[g] = current[g]
  BY <1>1, <1>2, <1>6, <1>7
\* The entries
<1>15. /\ pool' \in Seq(PoolRows) /\ n <= Len(pool') /\ p <= Len(pool') /\ 1..Len(pool') = (1..n) \cup {p}
       /\ \A q \in 1..n : q # p => pool'[q] = pool[q]
       /\ Sound(pool'[p], shut) /\ pool'[p].active = Cardinality(Inside(p)')
       /\ p \in 1..n => (pool'[p].listed => pool[p].listed)
  <2>1. CASE found = {}
    <3> DEFINE e == NewPool(KeyOf[h])
    <3>1. e \in PoolRows /\ e.active = 1 /\ e.listed /\ ~e.closing /\ ~e.retry /\ ~e.reported /\ e.state = "creating"
      <4>1. KeyOf[h] \in {KeyOf[g] : g \in Handles}
        BY <1>1
      <4> QED
        BY <4>1 DEF NewPool, PoolRows
    <3> HIDE DEF e
    <3>2. Sound(e, shut)
      BY <3>1 DEF Sound
    <3>3. pool' = Append(pool, e)
      BY <1>2, <2>1 DEF e
    <3>4. pool' \in Seq(PoolRows) /\ Len(pool') = n + 1 /\ pool'[n + 1] = e /\ \A q \in 1..n : pool'[q] = pool[q]
      BY <1>1, <3>1, <3>3
    <3>5. Inside(p) = {}
      BY <1>1, <1>7, <1>8, <2>1 DEF HandleKnows, Inside
    <3>6. Cardinality(Inside(p)') = 1
      BY <1>13, <3>5, FS_EmptySet
    <3>7. 1..(n + 1) = (1..n) \cup {n + 1} /\ n + 1 \notin 1..n
      BY <1>1
    <3> QED
      BY <1>1, <1>7, <2>1, <3>1, <3>2, <3>4, <3>6, <3>7
  <2>2. CASE found # {}
    <3> DEFINE d == pool[p]
               a == d.active + 1
               e == [[d EXCEPT !.active = a] EXCEPT !.idle = FALSE]
    <3>1. d \in PoolRows /\ Sound(d, shut) /\ d.listed /\ d.active = Cardinality(Inside(p))
      BY <1>7, <1>8, <2>2
    <3>2. pool' = [pool EXCEPT ![p] = e]
      BY <1>1, <1>2, <1>6, <1>7, <2>2, <3>1 DEF PoolRows
    <3> HIDE DEF d
    <3>3. a \in Nat /\ a # 0 /\ a = Cardinality(Inside(p)')
      BY <1>13, <3>1 DEF PoolRows
    <3> HIDE DEF a
    <3>4. Sound(e, shut) /\ e \in PoolRows /\ e.active = a
      BY <3>1, <3>3 DEF Sound, PoolRows
    <3> HIDE DEF e
    <3>5. pool' \in Seq(PoolRows) /\ Len(pool') = n /\ pool'[p] = e /\ \A q \in 1..n : q # p => pool'[q] = pool[q]
      BY <1>1, <1>7, <2>2, <3>2, <3>4
    <3>6. 1..n = (1..n) \cup {p} /\ p <= n
      BY <1>1, <1>7, <2>2
    <3> QED
      BY <1>1, <1>7, <2>2, <3>1, <3>3, <3>4, <3>5, <3>6 DEF d
  <2> QED
    BY <2>1, <2>2
<1>16. ASSUME NEW q \in 1..Len(pool') PROVE Sound(pool'[q], shut') /\ pool'[q].active = Cardinality(Inside(q)')
  <2>1. CASE q = p
    BY <1>2, <1>15, <2>1
  <2>2. CASE q # p
    <3>1. q \in 1..n /\ pool'[q] = pool[q] /\ Inside(q)' = Inside(q)
      BY <1>11, <1>15, <2>2
    <3> QED
      BY <1>2, <1>8, <3>1
  <2> QED
    BY <2>1, <2>2
<1>17. ASSUME NEW w \in Uses PROVE HandleKnows(w)'
  <2>1. CASE w = u
    BY <1>1, <1>7, <1>9, <1>14, <1>15, <2>1 DEF HandleKnows
  <2>2. CASE w # u
    <3> DEFINE q == use[w].pool
    <3>1. SUFFICES ASSUME use[w].at \in {"in", "failed"}
                   PROVE  /\ q \in 1..Len(pool')
                          /\ current'[HandleOf[w]] # 0
                          /\ pool'[q].listed => current'[HandleOf[w]] = q
      BY <1>9, <2>2 DEF HandleKnows
    <3>2. /\ q \in 1..n
          /\ current[HandleOf[w]] # 0
          /\ pool[q].listed => current[HandleOf[w]] = q
      BY <1>8, <3>1 DEF HandleKnows
    <3> HIDE DEF q
    <3>3. q \in 1..Len(pool')
      BY <1>15, <3>2
    <3>4. pool'[q].listed => pool[q].listed
      BY <1>15, <3>2
    <3>5. HandleOf[w] \in Handles
      BY DEF Handles
    <3>6. CASE HandleOf[w] # h
      BY <1>14, <3>2, <3>3, <3>4, <3>5, <3>6
    <3>7. CASE HandleOf[w] = h
      <4>1. pool[q].listed => p = q
        BY <1>4, <1>5, <1>6, <3>2, <3>7
      <4> QED
        BY <1>1, <1>7, <1>14, <3>3, <3>4, <3>7, <4>1
    <3> QED
      BY <3>6, <3>7
  <2> QED
    BY <2>1, <2>2
<1>18. \A g \in Handles : current'[g] <= Len(pool')
  <2>1. \A g \in Handles : current[g] <= n /\ current[g] \in Nat
    BY <1>1 DEF PoolInv
  <2>2. Len(pool') \in Nat
    BY <1>15
  <2>3. ASSUME NEW g \in Handles PROVE current'[g] <= Len(pool')
    BY <1>1, <1>14, <1>15, <2>1, <2>2
  <2> QED
    BY <2>3
<1>19. LimiterOK(limiter, Waiting, Cardinality(Holding))'
  BY <1>2, <1>10 DEF PoolInv, LimiterOK, Limiters
<1>20. PoolTypeOK'
  BY <1>1, <1>2, <1>9, <1>14, <1>15 DEF PoolTypeOK
<1> QED
  BY <1>16, <1>17, <1>18, <1>19, <1>20 DEF PoolInv

LEMMA LeaveKeeps ==
  ASSUME PoolInv, NEW u \in Uses, Leave(u)
  PROVE  PoolInv'
<1>1. /\ use \in [Uses -> UseRows] /\ pool \in Seq(PoolRows) /\ current \in [Handles -> Nat] /\ shut \in BOOLEAN
      /\ \A q \in 1..Len(pool) : Sound(pool[q], shut) /\ pool[q] \in PoolRows /\ pool[q].active = Cardinality(Inside(q))
      /\ \A w \in Uses : HandleKnows(w)
  BY DEF PoolInv, PoolTypeOK, Sound
<1>2. /\ use[u].at = "in" /\ pool[use[u].pool].state # "creating"
      /\ pool' = [pool EXCEPT ![use[u].pool] = LeftBy([pool[use[u].pool] EXCEPT !.active = @ - 1])]
      /\ limiter' = Released(limiter) /\ UNCHANGED <<current, shut>>
  BY DEF Leave
<1>3. PICK p \in 1..Len(pool) : p = use[u].pool
  BY <1>1, <1>2 DEF HandleKnows
<1>4. PICK G : G = GrantedTo(limiter)
  OBVIOUS
<1>5. PICK next \in {"ended", "failed"} :
         use' = [w \in Uses |-> IF w \in G THEN [use[w] EXCEPT !.at = "granted"]
                                ELSE IF w = u THEN [at |-> next, pool |-> p]
                                ELSE use[w]]
  BY <1>3, <1>4 DEF Leave
\* The slots
<1> DEFINE n == Cardinality(Holding)
<1>6. /\ LimiterOK(limiter, Waiting, n) /\ n \in Nat /\ IsFiniteSet(Holding)
      /\ u \in Holding /\ u \notin Waiting
  BY <1>2, FiniteUses DEF PoolInv, Holding, Waiting
<1>7. n # 0
  BY <1>6, FS_EmptySet
<1>8. G \subseteq Waiting /\ IsFiniteSet(G) /\ LimiterOK(limiter', Waiting \ G, n - 1 + Cardinality(G))
  <2> HIDE DEF n
  <2> QED
    BY <1>2, <1>4, <1>6, <1>7, ReleasedIsOK
<1>9. /\ \A w \in G : w \in Uses /\ use[w].at = "queued" /\ w # u
      /\ \A w \in Uses : use[w] \in UseRows
  BY <1>1, <1>6, <1>8 DEF Waiting
<1>10. ASSUME NEW w \in Uses
       PROVE  /\ w \in G => use'[w].at = "granted"
              /\ w = u => use'[w] = [at |-> next, pool |-> p]
              /\ w \notin G /\ w # u => use'[w] = use[w]
              /\ use'[w] \in UseRows
  <2>1. use'[w] = IF w \in G THEN [use[w] EXCEPT !.at = "granted"]
                  ELSE IF w = u THEN [at |-> next, pool |-> p]
                  ELSE use[w]
    BY <1>5
  <2>2. [at |-> next, pool |-> p] \in UseRows
    BY DEF UseRows
  <2> QED
    BY <1>9, <2>1, <2>2 DEF UseRows
<1>11. use' \in [Uses -> UseRows]
  <2>1. \A w \in Uses : use'[w] \in UseRows
    BY <1>10
  <2> QED
    BY <1>5, <2>1
<1>12. Waiting' = Waiting \ G
  BY <1>9, <1>10, <1>2 DEF Waiting
<1>13. Holding' = (Holding \ {u}) \cup G
  BY <1>9, <1>10, <1>2 DEF Holding
<1>14. Cardinality(Holding') = n - 1 + Cardinality(G)
  <2> DEFINE H == Holding \ {u}
  <2>1. IsFiniteSet(H) /\ Cardinality(H) = n - 1
    BY <1>6, FS_RemoveElement
  <2>2. H \cap G = {}
    BY <1>9 DEF Holding
  <2> HIDE DEF H, n
  <2>3. Cardinality(H \cup G) = Cardinality(H) + Cardinality(G) - Cardinality(H \cap G)
    BY <1>8, <2>1, FS_Union
  <2>4. Cardinality(G) \in Nat
    BY <1>8, FS_CardinalityType
  <2>5. Cardinality(H \cap G) = 0
    BY <2>2, FS_EmptySet
  <2>6. Holding' = H \cup G
    BY <1>13 DEF H
  <2> QED
    BY <1>6, <2>1, <2>3, <2>4, <2>5, <2>6
<1>15. LimiterOK(limiter', Waiting', Cardinality(Holding'))
  BY <1>8, <1>12, <1>14
\* The pool
<1>16. ASSUME NEW q PROVE Inside(q)' = IF q = p THEN Inside(q) \ {u} ELSE Inside(q)
  BY <1>2, <1>3, <1>9, <1>10 DEF Inside
<1> DEFINE d == pool[p]
           a == d.active - 1
           c == [d EXCEPT !.active = a]
<1>17. d \in PoolRows /\ Sound(d, shut) /\ d.active = Cardinality(Inside(p)) /\ d.state # "creating"
  BY <1>1, <1>2, <1>3
<1>18. a \in Nat /\ d.active # 0 /\ a = Cardinality(Inside(p)')
  <2>1. u \in Inside(p) /\ IsFiniteSet(Inside(p)) /\ Cardinality(Inside(p)) \in Nat
    BY <1>2, <1>3, FiniteUses DEF Inside
  <2>2. Cardinality(Inside(p) \ {u}) = Cardinality(Inside(p)) - 1
    BY <2>1, FS_RemoveElement
  <2>3. Cardinality(Inside(p)) # 0
    BY <2>1, FS_EmptySet
  <2>4. Inside(p)' = Inside(p) \ {u}
    BY <1>16
  <2>5. Cardinality(Inside(p)') = Cardinality(Inside(p)) - 1
    BY <2>2, <2>4
  <2> HIDE DEF d
  <2> QED
    BY <1>17, <2>1, <2>3, <2>5
<1>19. pool' = [pool EXCEPT ![p] = LeftBy(c)]
  BY <1>2, <1>3
<1> HIDE DEF d, a
<1>20. Left(c, shut) /\ c.active = a /\ c.listed = d.listed
  BY <1>17, <1>18 DEF Left, Sound, PoolRows
<1> HIDE DEF c
<1>21. PICK e : e = LeftBy(c)
  OBVIOUS
<1>22. Sound(e, shut) /\ e.active = a /\ (e.listed => d.listed)
  BY <1>1, <1>20, <1>21, LeftByIsSound
<1>23. /\ pool' \in Seq(PoolRows) /\ Len(pool') = Len(pool)
       /\ pool'[p] = e /\ \A q \in 1..Len(pool) : q # p => pool'[q] = pool[q]
  <2>1. e \in PoolRows
    BY <1>22 DEF Sound
  <2> QED
    BY <1>1, <1>19, <1>21, <2>1
<1>24. ASSUME NEW q \in 1..Len(pool') PROVE Sound(pool'[q], shut') /\ pool'[q].active = Cardinality(Inside(q)')
  <2>1. CASE q = p
    BY <1>2, <1>18, <1>22, <1>23, <2>1
  <2>2. CASE q # p
    <3>1. q \in 1..Len(pool) /\ pool'[q] = pool[q] /\ Inside(q)' = Inside(q)
      BY <1>16, <1>23, <2>2
    <3> QED
      BY <1>1, <1>2, <3>1
  <2> QED
    BY <2>1, <2>2
<1>25. ASSUME NEW w \in Uses, use'[w].at \in {"in", "failed"}
       PROVE  HandleKnows(w)'
  <2>1. /\ use[w].at \in {"in", "failed"} /\ use'[w].pool = use[w].pool
    BY <1>2, <1>3, <1>10, <1>25
  <2>2. PICK q : q = use[w].pool
    OBVIOUS
  <2>3. /\ q \in 1..Len(pool)
        /\ current[HandleOf[w]] # 0
        /\ pool[q].listed => current[HandleOf[w]] = q
    BY <1>1, <2>1, <2>2 DEF HandleKnows
  <2>4. pool'[q].listed => pool[q].listed
    <3>1. CASE q = p
      BY <1>22, <1>23, <3>1 DEF d
    <3>2. CASE q # p
      BY <1>23, <2>3, <3>2
    <3> QED
      BY <3>1, <3>2
  <2> QED
    BY <1>2, <1>23, <2>1, <2>2, <2>3, <2>4 DEF HandleKnows
<1>26. \A w \in Uses : HandleKnows(w)'
  BY <1>25 DEF HandleKnows
<1>27. PoolTypeOK'
  BY <1>1, <1>2, <1>11, <1>23 DEF PoolTypeOK
<1>28. \A g \in Handles : current'[g] <= Len(pool')
  BY <1>2, <1>23 DEF PoolInv
<1> QED
  BY <1>15, <1>24, <1>26, <1>27, <1>28 DEF PoolInv

LEMMA BlameKeeps ==
  ASSUME PoolInv, NEW u \in Uses, Blame(u)
  PROVE  PoolInv'
<1>1. /\ use \in [Uses -> UseRows] /\ pool \in Seq(PoolRows) /\ current \in [Handles -> Nat] /\ shut \in BOOLEAN
      /\ \A x \in 1..Len(pool) : Sound(pool[x], shut)
      /\ HandleKnows(u) /\ HandleOf[u] \in Handles
  BY DEF PoolInv, PoolTypeOK, Handles
<1>2. PICK q, p : q = use[u].pool /\ p = current[HandleOf[u]]
  OBVIOUS
<1> DEFINE c == [pool[q] EXCEPT !.reported = TRUE]
           marked == [pool EXCEPT ![q] = c]
<1>3. /\ use[u].at = "failed" /\ UNCHANGED <<limiter, current, shut>>
      /\ pool' = IF marked[p].listed THEN [marked EXCEPT ![p] = Retired(@)] ELSE marked
      /\ use' = [use EXCEPT ![u] = [at |-> "ended", pool |-> q]]
  BY <1>2 DEF Blame, UseGoes
<1>4. q \in 1..Len(pool) /\ p \in 1..Len(pool) /\ (pool[q].listed => p = q)
  BY <1>1, <1>2, <1>3 DEF HandleKnows, PoolInv
<1>5. Sound(pool[q], shut) /\ pool[q] \in PoolRows /\ Sound(pool[p], shut) /\ pool[p] \in PoolRows
  BY <1>1, <1>4 DEF Sound
<1> DEFINE d == pool[q]
<1> HIDE DEF d
<1>6. /\ c \in PoolRows /\ c.active = d.active /\ c.listed = d.listed /\ c.closing = d.closing
      /\ c.retry = d.retry /\ c.state = d.state /\ (~d.listed => Sound(c, shut))
  <2>1. c = [d EXCEPT !.reported = TRUE]
    BY DEF d
  <2>2. d \in PoolRows /\ Sound(d, shut)
    BY <1>5 DEF d
  <2> HIDE DEF c
  <2> QED
    BY <2>1, <2>2 DEF Sound, PoolRows
<1> HIDE DEF c
<1>7. /\ marked \in Seq(PoolRows) /\ Len(marked) = Len(pool)
      /\ \A x \in 1..Len(pool) : marked[x] = IF x = q THEN c ELSE pool[x]
  BY <1>1, <1>4, <1>6
<1> HIDE DEF marked
<1>8. /\ marked[p] \in PoolRows /\ marked[p].active = pool[p].active /\ marked[p].listed = pool[p].listed
      /\ marked[p].closing = pool[p].closing /\ marked[p].retry = pool[p].retry /\ marked[p].state = pool[p].state
  BY <1>4, <1>5, <1>6, <1>7 DEF d
<1>9. PICK r : r = Retired(marked[p])
  OBVIOUS
<1>10. marked[p].listed => Sound(r, shut) /\ r.active = pool[p].active /\ ~r.listed
  <2>1. SUFFICES ASSUME marked[p].listed PROVE Sound(r, shut) /\ r.active = pool[p].active /\ ~r.listed
    OBVIOUS
  <2>2. ~marked[p].closing /\ ~marked[p].retry /\ marked[p].state \in {"creating", "open"}
        /\ (marked[p].state = "creating" => marked[p].active # 0)
    BY <1>5, <1>8, <2>1 DEF Sound
  <2> QED
    BY <1>1, <1>8, <1>9, <2>1, <2>2, RetiredIsSound
<1>11. /\ pool' \in Seq(PoolRows) /\ Len(pool') = Len(pool)
       /\ \A x \in 1..Len(pool) : pool'[x] = IF x = p /\ marked[p].listed THEN r ELSE marked[x]
  <2>1. CASE marked[p].listed
    <3>1. r \in PoolRows /\ pool' = [marked EXCEPT ![p] = r]
      BY <1>3, <1>9, <1>10, <2>1 DEF Sound
    <3> QED
      BY <1>4, <1>7, <2>1, <3>1
  <2>2. CASE ~marked[p].listed
    BY <1>3, <1>7, <2>2
  <2> QED
    BY <2>1, <2>2
<1>12. ASSUME NEW x \in 1..Len(pool)
       PROVE  /\ Sound(pool'[x], shut')
              /\ pool'[x].active = pool[x].active
              /\ pool'[x].listed => pool[x].listed
  <2>1. CASE x = p /\ marked[p].listed
    BY <1>3, <1>10, <1>11, <2>1
  <2>2. CASE ~(x = p /\ marked[p].listed) /\ x = q
    <3>1. ~d.listed
      BY <1>4, <1>8, <2>2 DEF d
    <3> QED
      BY <1>3, <1>6, <1>7, <1>11, <2>2, <3>1 DEF d
  <2>3. CASE ~(x = p /\ marked[p].listed) /\ x # q
    BY <1>1, <1>3, <1>7, <1>11, <2>3
  <2> QED
    BY <2>1, <2>2, <2>3
<1>13. /\ use' \in [Uses -> UseRows]
       /\ \A w \in Uses : use'[w] = use[w] \/ (use[w].at = "failed" /\ use'[w].at = "ended")
  <2>1. [at |-> "ended", pool |-> q] \in UseRows
    BY <1>4 DEF UseRows
  <2> QED
    BY <1>1, <1>3, <2>1
<1>14. shut' \in BOOLEAN
  BY <1>1, <1>3
<1> QED
  BY <1>3, <1>11, <1>12, <1>13, <1>14, CallAndEntriesChange

LEMMA PoolStepKeeps == PoolInv /\ [SqlNext]_poolVars => PoolInv'
<1> SUFFICES ASSUME PoolInv, [SqlNext]_poolVars PROVE PoolInv'
  OBVIOUS
<1>1. CASE UNCHANGED poolVars
  BY <1>1 DEF poolVars, PoolInv, PoolTypeOK, LimiterOK, HandleKnows, Waiting, Holding, Inside
<1>2. ASSUME NEW u \in Uses, Acquire(u) \/ Cancel(u) \/ Enter(u) \/ Leave(u) \/ Blame(u) PROVE PoolInv'
  BY <1>2, AcquireKeeps, CancelKeeps, EnterKeeps, LeaveKeeps, BlameKeeps
<1>3. ASSUME NEW p \in DOMAIN pool,
             \/ Opened(p) \/ OpenFails(p) \/ Breaks(p) \/ IdleTimer(p) \/ RetryTimer(p)
             \/ Closed(p) \/ CloseFails(p)
      PROVE  PoolInv'
  BY <1>3, OpensOrBreaks, TimerFires, CloseFailsKeeps
<1> QED
  BY <1>1, <1>2, <1>3, CloseAllKeeps DEF SqlNext

\* Slots and pools account for every call, for any calls, sessions, budgets, cancelled waits, timers and
\* failures (sql-pool-registry.js).
THEOREM PoolsAccount == SqlSpec => []PoolsAccounted
<1>1. ASSUME PoolInv PROVE SlotsAccounted
  <2>1. /\ limiter \in Limiters /\ Len(limiter.queue) \in Nat /\ DOMAIN limiter.queue = 1..Len(limiter.queue)
        /\ LimiterOK(limiter, Waiting, Cardinality(Holding))
    BY <1>1 DEF PoolInv, LimiterOK, Limiters
  <2>2. ASSUME NEW u \in Uses
        PROVE  Cardinality({i \in DOMAIN limiter.queue : limiter.queue[i] = u})
                 = IF use[u].at = "queued" THEN 1 ELSE 0
    <3> DEFINE S == {i \in DOMAIN limiter.queue : limiter.queue[i] = u}
    <3>1. CASE use[u].at = "queued"
      <4>1. PICK i \in 1..Len(limiter.queue) : limiter.queue[i] = u
        BY <2>1, <3>1 DEF Waiting, LimiterOK
      <4>2. S = {i}
        BY <2>1, <4>1 DEF LimiterOK
      <4> QED
        BY <3>1, <4>2, FS_Singleton
    <3>2. CASE use[u].at # "queued"
      <4>1. S = {}
        BY <2>1, <3>2 DEF Waiting, LimiterOK
      <4> QED
        BY <3>2, <4>1, FS_EmptySet
    <3> QED
      BY <3>1, <3>2
  <2>3. /\ limiter.active = Cardinality(Holding)
        /\ limiter.queue # <<>> => limiter.active >= limiter.limit
    BY <2>1 DEF LimiterOK
  <2> QED
    BY <2>2, <2>3 DEF SlotsAccounted, Holding
<1>2. ASSUME PoolInv PROVE PoolLife
  <2>1. ASSUME NEW p \in DOMAIN pool
        PROVE  /\ pool[p].active = Cardinality({u \in Uses : use[u].at = "in" /\ use[u].pool = p})
               /\ pool[p].active > 0 /\ ~shut => ~pool[p].closing /\ pool[p].state # "closed"
               /\ pool[p].reported => ~pool[p].listed
               /\ Settled /\ pool[p].state = "open" /\ pool[p].active = 0 =>
                      pool[p].idle \/ pool[p].closing \/ pool[p].retry \/ pool[p].abandoned
    <3>1. p \in 1..Len(pool)
      BY <1>2 DEF PoolInv, PoolTypeOK
    <3>2. Sound(pool[p], shut) /\ pool[p].active = Cardinality(Inside(p))
      BY <1>2, <3>1 DEF PoolInv
    <3>3. pool[p].active = Cardinality({u \in Uses : use[u].at = "in" /\ use[u].pool = p})
      BY <3>2 DEF Inside
    <3> QED
      BY <3>2, <3>3 DEF Sound
  <2> QED
    BY <2>1 DEF PoolLife
<1>3. PoolInv => PoolsAccounted
  BY <1>1, <1>2 DEF PoolsAccounted
<1> QED
  BY <1>3, PoolInitInv, PoolStepKeeps, PTL DEF SqlSpec

-----------------------------------------------------------------------------
(* ConfigTests: live tests of configured credentials *)

LEMMA LeastNumber ==
  ASSUME NEW S \in SUBSET Nat, S # {}
  PROVE  \E n \in S : \A m \in S : n <= m
<1> DEFINE R == OpToRel(<, Nat)
<1>1. IsWellFoundedOn(R, Nat)
  BY NatLessThanWellFounded
<1>2. \A x, y \in Nat : <<x, y>> \in R <=> x < y
  BY DEF OpToRel
<1> HIDE DEF R
<1>3. S \subseteq Nat
  OBVIOUS
<1>4. \E n \in S : \A m \in S : ~ (<<m, n>> \in R)
  BY <1>1, <1>3, WFMin, Zenon
<1>5. PICK n \in S : \A m \in S : ~ (<<m, n>> \in R)
  BY <1>4, Zenon
<1>6. \A m \in S : ~ (m < n)
  BY <1>2, <1>3, <1>5, Zenon
<1>7. \A m \in S : n <= m
  BY <1>6
<1> QED
  BY <1>7

Places == DOMAIN Fields
Codes  == {"NO_TESTER", "LOCAL", "SCOPE_UNSUPPORTED", "FOREIGN_PATH", "FOREIGN_TESTER", "DUPLICATE_TESTER",
           "UNKNOWN_TESTER", "UNKNOWN_KIND", "TOOLBOX_UNREACHABLE", "CONFIG_UNAVAILABLE", "DECRYPT_FAILED",
           "NOT_SET", "COOLDOWN", "PROBED"}
Replies  == Seq({Fields[i] : i \in Places} \X Codes)
Requests == [todo : SUBSET Places, waits : BOOLEAN, answers : Replies]

TestTypeOK ==
    /\ command \in [Commands -> Requests]
    /\ testing \in [Probings -> {"none", "reading", "probing", "done"}]
    /\ probes \in Seq([of : Probings, at : Nat])
    /\ last \subseteq [key : {Credential(r) : r \in Probings}, at : Nat, nth : Nat]
    /\ tick \in Nat

\* A command asks for each of its tests once, and what it has not asked for never ran.
AskedOnce(c) ==
    /\ command[c].todo \subseteq FieldsOf(c)
    /\ command[c].waits => command[c].todo # {}
    /\ \A i \in Places : testing[<<c, Fields[i]>>] # "none" =>
           /\ i \in FieldsOf(c)
           /\ i \in command[c].todo => command[c].waits /\ i = Place(c)

\* An earlier probe of the credential is still stamped, unless it is a cooldown old or was evicted.
Stamped(i) ==
    /\ testing[probes[i].of] \in {"probing", "done"}
    /\ probes[i].at <= tick
    /\ Credential(probes[i].of) \notin evicted /\ tick - probes[i].at < Cooldown
         => \E e \in last : e.key = Credential(probes[i].of) /\ e.at = probes[i].at

Spaced ==
    \A i, j \in 1..Len(probes) :
        i < j /\ Credential(probes[i].of) = Credential(probes[j].of) /\ Credential(probes[i].of) \notin evicted
        => probes[j].at >= probes[i].at + Cooldown

\* Another command's login is why this one waits.
Excused(c, f) ==
    \E p \in 1..Len(probes) : Credential(probes[p].of) = Credential(<<c, f>>) /\ probes[p].of[1] # c

ExcusedAnswers(c) ==
    \A n \in 1..Len(command[c].answers) :
        command[c].answers[n][2] = "COOLDOWN" => Excused(c, command[c].answers[n][1])

TestInv ==
    /\ TestTypeOK
    /\ \A c \in Commands : AskedOnce(c)
    /\ \A i \in 1..Len(probes) : Stamped(i)
    /\ \A e \in last : \E i \in 1..Len(probes) : Credential(probes[i].of) = e.key
    /\ Spaced
    /\ \A c \in Commands : ExcusedAnswers(c)

\* The probes that ran.
LEMMA ProbeOf ==
  ASSUME TestTypeOK, NEW i \in 1..Len(probes)
  PROVE  probes[i].of \in Probings /\ probes[i].at \in Nat
<1> DEFINE R == [of : Probings, at : Nat]
<1>1. probes \in Seq(R)
  BY DEF TestTypeOK
<1>2. probes[i] \in R
  <2> HIDE DEF R
  <2> QED
    BY <1>1
<1> QED
  BY <1>2

\* A test is asked for by one field of a command.
LEMMA OnePlace ==
  ASSUME NEW c \in Commands, NEW i \in FieldsOf(c), NEW j \in FieldsOf(c),
         Tester[Fields[i]].test = Tester[Fields[j]].test
  PROVE  i = j
<1>1. i \in Places /\ j \in Places /\ Places = 1..Len(Fields) /\ Len(Fields) \in Nat
  BY FieldsAssumption DEF FieldsOf, EnumerateTestGroups, Places
<1>2. CASE c.path # "all"
  BY <1>1, <1>2, FieldsAssumption DEF FieldsOf, Places
<1>3. CASE c.path = "all"
  <2>1. \A x, y \in FieldsOf(c) : x < y => Tester[Fields[x]].test # Tester[Fields[y]].test
    <3>1. SUFFICES ASSUME NEW x \in FieldsOf(c), NEW y \in FieldsOf(c), x < y
                   PROVE  Tester[Fields[x]].test # Tester[Fields[y]].test
      OBVIOUS
    <3>2. x \in 1..Len(Fields) /\ y \in 1..Len(Fields)
      BY <1>1 DEF FieldsOf, EnumerateTestGroups, Places
    <3>3. x \in 1..(y - 1)
      BY <1>1, <3>1, <3>2
    <3> QED
      BY <1>3, <3>3 DEF FieldsOf, EnumerateTestGroups
  <2>2. ~(i < j) /\ ~(j < i)
    BY <2>1
  <2> QED
    BY <1>1, <2>2
<1> QED
  BY <1>2, <1>3

LEMMA PlaceOf ==
  ASSUME TestTypeOK, NEW c \in Commands, command[c].todo # {}
  PROVE  Place(c) \in command[c].todo /\ Place(c) \in Places
<1>1. command[c].todo \in SUBSET Places /\ Places \subseteq Nat
  <2>1. Places = 1..Len(Fields) /\ Len(Fields) \in Nat
    BY FieldsAssumption DEF Places
  <2> QED
    BY <2>1 DEF TestTypeOK, Requests
<1> DEFINE S == command[c].todo
<1>2. PICK n \in S : \A m \in S : n <= m
  BY <1>1, LeastNumber
<1>3. Min(S) \in S
  BY <1>2 DEF Min
<1> QED
  BY <1>1, <1>3 DEF Place

LEMMA TestInitInv == TestInit => TestInv
<1> SUFFICES ASSUME TestInit PROVE TestInv
  OBVIOUS
<1>1. \A c \in Commands : FieldsOf(c) \in SUBSET Places
  BY DEF FieldsOf, EnumerateTestGroups, Places
<1>2. \A c \in Commands : [todo |-> FieldsOf(c), waits |-> FALSE, answers |-> <<>>] \in Requests
  <2>1. <<>> \in Replies
    BY DEF Replies
  <2> QED
    BY <1>1, <2>1 DEF Requests
<1>3. command \in [Commands -> Requests] /\ \A c \in Commands : command[c] = [todo |-> FieldsOf(c), waits |-> FALSE, answers |-> <<>>]
  BY <1>2 DEF TestInit
<1>4. probes = <<>> /\ probes \in Seq([of : Probings, at : Nat]) /\ Len(probes) = 0
  BY DEF TestInit
<1>5. TestTypeOK
  BY <1>3, <1>4 DEF TestInit, TestTypeOK
<1>6. ASSUME NEW c \in Commands PROVE AskedOnce(c) /\ Len(command[c].answers) = 0
  <2>1. \A i \in Places : <<c, Fields[i]>> \in Probings
    BY DEF Probings, Places
  <2> QED
    BY <1>3, <2>1 DEF AskedOnce, TestInit
<1> QED
  BY <1>4, <1>5, <1>6 DEF TestInv, ExcusedAnswers, Spaced, TestInit

-----------------------------------------------------------------------------
(* ConfigTests: answers *)

\* A command has an answer, or has not; a test may have ended.
LEMMA AnswerGiven ==
  ASSUME TestInv, NEW c \in Commands, NEW code \in Codes,
         \/ command' = command
         \/ /\ command[c].todo # {}
            /\ command' = [command EXCEPT ![c] = [todo |-> @.todo \ {Place(c)}, waits |-> FALSE,
                                                 answers |-> Append(@.answers, <<Field(c), code>>)]]
            /\ code = "COOLDOWN" => Excused(c, Field(c)),
         testing' \in [Probings -> {"none", "reading", "probing", "done"}],
         \A r \in Probings : testing'[r] = testing[r] \/ (testing[r] # "none" /\ testing'[r] = "done"),
         UNCHANGED <<last, probes, evicted, tick>>
  PROVE  TestInv'
<1> DEFINE old == command[c]
           new == [todo |-> old.todo \ {Place(c)}, waits |-> FALSE, answers |-> Append(old.answers, <<Field(c), code>>)]
<1>1. command \in [Commands -> Requests] /\ probes \in Seq([of : Probings, at : Nat])
  BY DEF TestInv, TestTypeOK
<1>2. ASSUME NEW i \in 1..Len(probes) PROVE Stamped(i)'
  <2>1. probes[i].of \in Probings /\ Stamped(i)
    BY ProbeOf DEF TestInv
  <2>2. testing'[probes[i].of] \in {"probing", "done"}
    BY <2>1 DEF Stamped
  <2> QED
    BY <2>1, <2>2 DEF Stamped
<1>3. ASSUME NEW e \in last PROVE \E i \in 1..Len(probes) : Credential(probes[i].of) = e.key
  BY DEF TestInv
<1>4. Spaced'
  BY DEF TestInv, Spaced
<1>5. \A d \in Commands, i \in Places : <<d, Fields[i]>> \in Probings
  BY DEF Probings, Places
<1>6. ASSUME NEW d \in Commands, command'[d] = command[d]
      PROVE  AskedOnce(d)' /\ ExcusedAnswers(d)'
  <2>1. AskedOnce(d) /\ Place(d)' = Place(d)
    BY <1>6 DEF TestInv, Place
  <2>2. \A i \in Places : testing'[<<d, Fields[i]>>] # "none" => testing[<<d, Fields[i]>>] # "none"
    BY <1>5
  <2>3. AskedOnce(d)'
    BY <1>6, <2>1, <2>2 DEF AskedOnce
  <2>4. ExcusedAnswers(d)
    BY DEF TestInv
  <2>5. ExcusedAnswers(d)'
    BY <1>6, <2>4 DEF ExcusedAnswers, Excused
  <2> QED
    BY <2>3, <2>5
<1>7. CASE command' = command
  <2>1. TestTypeOK'
    BY <1>7 DEF TestInv, TestTypeOK
  <2> QED
    BY <1>2, <1>3, <1>4, <1>6, <1>7, <2>1 DEF TestInv
<1>8. CASE /\ old.todo # {}
           /\ command' = [command EXCEPT ![c] = new]
           /\ code = "COOLDOWN" => Excused(c, Field(c))
  <2>1. /\ Place(c) \in Places /\ Place(c) \in old.todo
        /\ old.answers \in Replies /\ old.todo \in SUBSET Places
    BY <1>1, <1>8, PlaceOf DEF TestInv, Requests
  <2> DEFINE a == old.answers
             b == Append(a, <<Field(c), code>>)
  <2>2. <<Field(c), code>> \in {Fields[i] : i \in Places} \X Codes
    BY <2>1 DEF Field
  <2>3. /\ b \in Replies /\ Len(a) \in Nat /\ Len(b) = Len(a) + 1 /\ b[Len(a) + 1] = <<Field(c), code>>
        /\ \A n \in 1..Len(a) : b[n] = a[n]
    <3> HIDE DEF a
    <3>1. a \in Seq({Fields[i] : i \in Places} \X Codes)
      BY <2>1 DEF Replies, a
    <3> QED
      BY <2>2, <3>1 DEF Replies
  <2> HIDE DEF b
  <2>4. new = [todo |-> old.todo \ {Place(c)}, waits |-> FALSE, answers |-> b]
    BY DEF b
  <2>5. new \in Requests /\ new.todo = old.todo \ {Place(c)} /\ ~new.waits /\ new.answers = b
    BY <2>1, <2>3, <2>4 DEF Requests
  <2> HIDE DEF new
  <2>6. command' \in [Commands -> Requests] /\ command'[c] = new /\ \A d \in Commands : d # c => command'[d] = command[d]
    BY <1>1, <1>8, <2>5
  <2>7. AskedOnce(c)'
    <3>1. AskedOnce(c)
      BY DEF TestInv
    <3>2. \A i \in Places : testing'[<<c, Fields[i]>>] # "none" => testing[<<c, Fields[i]>>] # "none"
      BY <1>5
    <3>3. new.todo \subseteq FieldsOf(c)
      BY <2>5, <3>1 DEF AskedOnce
    <3>4. ASSUME NEW i \in Places, testing'[<<c, Fields[i]>>] # "none"
          PROVE  i \in FieldsOf(c) /\ i \notin new.todo
      BY <2>5, <3>1, <3>2, <3>4 DEF AskedOnce
    <3> QED
      BY <2>5, <2>6, <3>3, <3>4 DEF AskedOnce
  <2>8. ASSUME NEW n \in 1..Len(b), b[n][2] = "COOLDOWN" PROVE Excused(c, b[n][1])
    <3>1. CASE n \in 1..Len(a)
      BY <2>3, <2>8, <3>1 DEF TestInv, ExcusedAnswers, a
    <3>2. CASE n = Len(a) + 1
      BY <1>8, <2>3, <2>8, <3>2
    <3> QED
      BY <2>3, <3>1, <3>2
  <2>9. TestTypeOK'
    BY <2>6 DEF TestInv, TestTypeOK
  <2>10. ExcusedAnswers(c)'
    BY <2>5, <2>6, <2>8 DEF ExcusedAnswers, Excused
  <2>11. \A d \in Commands : AskedOnce(d)' /\ ExcusedAnswers(d)'
    BY <1>6, <2>6, <2>7, <2>10
  <2> QED
    BY <1>2, <1>3, <1>4, <2>9, <2>11 DEF TestInv
<1> QED
  BY <1>7, <1>8

LEMMA AnswersKeeps ==
  ASSUME TestInv, NEW r \in Probings, testing[r] # "none", NEW code \in Codes, Answers(r, code),
         code = "COOLDOWN" => Excused(r[1], r[2]),
         UNCHANGED <<last, probes, evicted, tick>>
  PROVE  TestInv'
<1>1. r[1] \in Commands
  BY DEF Probings
<1>2. testing \in [Probings -> {"none", "reading", "probing", "done"}] /\ testing' = [testing EXCEPT ![r] = "done"]
  BY DEF TestInv, TestTypeOK, Answers
<1>3. command[r[1]].waits => command[r[1]].todo # {}
  BY <1>1 DEF TestInv, AskedOnce
<1>4. \/ command' = command
      \/ /\ command[r[1]].todo # {} /\ Field(r[1]) = r[2]
         /\ command' = [command EXCEPT ![r[1]] = [todo |-> @.todo \ {Place(r[1])}, waits |-> FALSE,
                                                 answers |-> Append(@.answers, <<Field(r[1]), code>>)]]
  BY <1>3 DEF Answers, Answered
<1> QED
  BY <1>1, <1>2, <1>4, AnswerGiven

\* A test that has not been probed is told to wait only for another command's login.
LEMMA CoolingIsExcused ==
  ASSUME TestInv, NEW r \in Probings, testing[r] = "reading", Cooling(LimiterKey(r))
  PROVE  Excused(r[1], r[2])
<1>1. PICK c \in Commands, i \in Places : r = <<c, Fields[i]>>
  BY DEF Probings, Places
<1>2. PICK e \in last : e.key = Credential(r)
  BY DEF Cooling, Fresh, LimiterKey, Credential
<1>3. PICK p \in 1..Len(probes) : Credential(probes[p].of) = Credential(r)
  BY <1>2 DEF TestInv
<1>4. probes[p].of \in Probings /\ testing[probes[p].of] \in {"probing", "done"}
  <2>1. probes[p].of \in Probings
    BY ProbeOf DEF TestInv
  <2> QED
    BY <2>1 DEF TestInv, Stamped
<1>5. PICK d \in Commands, j \in Places : probes[p].of = <<d, Fields[j]>>
  BY <1>4 DEF Probings, Places
<1>6. Tester[Fields[i]].test = Tester[Fields[j]].test
  BY <1>1, <1>3, <1>5 DEF Credential
<1>7. d # c
  <2>1. SUFFICES ASSUME d = c PROVE FALSE
    OBVIOUS
  <2>2. i \in FieldsOf(c) /\ j \in FieldsOf(c)
    BY <1>1, <1>4, <1>5, <2>1 DEF TestInv, AskedOnce
  <2>3. i = j
    BY <1>6, <2>2, OnePlace
  <2> QED
    BY <1>1, <1>4, <1>5, <2>1, <2>3
<1> QED
  BY <1>1, <1>3, <1>5, <1>7 DEF Excused

-----------------------------------------------------------------------------
(* ConfigTests: requests and probes *)

LEMMA ProbeStarts ==
  ASSUME TestInv, NEW r \in Probings, testing[r] = "reading", Take(r),
         probes' = Append(probes, [of |-> r, at |-> tick]),
         testing' = [testing EXCEPT ![r] = "probing"],
         UNCHANGED <<command, tick>>
  PROVE  TestInv'
<1> DEFINE R == [of : Probings, at : Nat]
           p == [of |-> r, at |-> tick]
           L == Len(probes)
<1>1. probes \in Seq(R) /\ tick \in Nat /\ p \in R
  BY DEF TestInv, TestTypeOK
<1>2. /\ L \in Nat /\ Len(probes') = L + 1 /\ probes' \in Seq(R)
      /\ probes'[L + 1] = p /\ \A i \in 1..L : probes'[i] = probes[i]
  <2> HIDE DEF R, p
  <2>1. probes' = Append(probes, p)
    BY DEF p
  <2> QED
    BY <1>1, <2>1
<1>3. p.of = r /\ p.at = tick
  OBVIOUS
<1> HIDE DEF L, p
<1>4. 1..Len(probes') = 1..L \cup {L + 1}
  BY <1>2
<1>5. testing \in [Probings -> {"none", "reading", "probing", "done"}]
  BY DEF TestInv, TestTypeOK
<1>6. /\ testing' \in [Probings -> {"none", "reading", "probing", "done"}] /\ testing'[r] = "probing"
      /\ \A s \in Probings : s # r => testing'[s] = testing[s]
  BY <1>5
<1> DEFINE entry == [key |-> LimiterKey(r), at |-> tick, nth |-> Len(probes) + 1]
<1>7. entry.key = Credential(r) /\ entry.at = tick /\ entry.nth = L + 1
  BY DEF LimiterKey, Credential, L
<1>8. /\ last' = Kept \cup {entry} /\ evicted' = evicted \cup {e.key : e \in Fresh \ Kept}
      /\ ~Cooling(Credential(r)) /\ Kept \subseteq Fresh /\ Fresh \subseteq last
  BY DEF Take, Kept, Fresh, LimiterKey, Credential
<1>9. entry \in [key : {Credential(s) : s \in Probings}, at : Nat, nth : Nat]
  BY <1>1, <1>2, <1>7 DEF L
<1> HIDE DEF entry
<1>10. TestTypeOK'
  <2>1. last' \subseteq [key : {Credential(s) : s \in Probings}, at : Nat, nth : Nat]
    BY <1>8, <1>9 DEF TestInv, TestTypeOK
  <2> QED
    BY <1>2, <1>6, <2>1 DEF TestInv, TestTypeOK
<1>11. ASSUME NEW i \in 1..L
       PROVE  /\ probes[i].of \in Probings /\ probes[i].at \in Nat /\ Stamped(i) /\ probes'[i] = probes[i]
  BY <1>2, ProbeOf DEF TestInv, L
<1>12. ASSUME NEW i \in 1..Len(probes') PROVE Stamped(i)'
  <2>1. CASE i = L + 1
    <3>1. Credential(probes'[i].of) = entry.key /\ probes'[i].at = entry.at
      BY <1>2, <1>3, <1>7, <2>1
    <3>2. entry \in last'
      BY <1>8
    <3>3. testing'[probes'[i].of] \in {"probing", "done"} /\ probes'[i].at <= tick'
      BY <1>1, <1>2, <1>3, <1>6, <2>1
    <3> QED
      BY <3>1, <3>2, <3>3 DEF Stamped
  <2>2. CASE i \in 1..L
    <3>1. probes[i].of \in Probings /\ Stamped(i) /\ probes'[i] = probes[i]
      BY <1>11, <2>2
    <3>2. testing'[probes[i].of] \in {"probing", "done"}
      BY <1>6, <3>1 DEF Stamped
    <3>3. ASSUME Credential(probes[i].of) \notin evicted', tick - probes[i].at < Cooldown
          PROVE  \E e \in last' : e.key = Credential(probes[i].of) /\ e.at = probes[i].at
      <4>1. PICK e \in last : e.key = Credential(probes[i].of) /\ e.at = probes[i].at
        BY <1>8, <3>1, <3>3 DEF Stamped
      <4>2. e \in Fresh
        BY <3>3, <4>1 DEF Fresh
      <4>3. e \in Kept
        BY <1>8, <3>3, <4>1, <4>2
      <4> QED
        BY <1>8, <4>1, <4>3
    <3> QED
      BY <3>1, <3>2, <3>3 DEF Stamped
  <2> QED
    BY <1>4, <2>1, <2>2
<1>13. ASSUME NEW e \in last' PROVE \E i \in 1..Len(probes') : Credential(probes'[i].of) = e.key
  <2>1. CASE e = entry
    BY <1>2, <1>3, <1>4, <1>7, <2>1
  <2>2. CASE e \in last
    <3>1. PICK i \in 1..L : Credential(probes[i].of) = e.key
      BY <2>2 DEF TestInv, L
    <3> QED
      BY <1>4, <1>11, <3>1
  <2> QED
    BY <1>8, <2>1, <2>2
<1>14. ASSUME NEW i \in 1..Len(probes'), NEW j \in 1..Len(probes'), i < j,
              Credential(probes'[i].of) = Credential(probes'[j].of), Credential(probes'[i].of) \notin evicted'
       PROVE  probes'[j].at >= probes'[i].at + Cooldown
  <2>1. i \in 1..L /\ probes'[i] = probes[i] /\ Stamped(i) /\ probes[i].at \in Nat
    BY <1>2, <1>11, <1>14
  <2>2. Credential(probes[i].of) \notin evicted
    BY <1>8, <1>14, <2>1
  <2>3. CASE j \in 1..L
    <3>1. probes'[j] = probes[j]
      BY <1>11, <2>3
    <3> QED
      BY <1>14, <2>1, <2>2, <2>3, <3>1 DEF TestInv, Spaced, L
  <2>4. CASE j = L + 1
    <3>1. Credential(probes[i].of) = Credential(r)
      BY <1>2, <1>3, <1>14, <2>1, <2>4
    <3>2. ASSUME tick - probes[i].at < Cooldown PROVE FALSE
      <4>1. PICK e \in last : e.key = Credential(probes[i].of) /\ e.at = probes[i].at
        BY <2>1, <2>2, <3>2 DEF Stamped
      <4>2. e \in Fresh
        BY <3>2, <4>1 DEF Fresh
      <4> QED
        BY <1>8, <3>1, <4>1, <4>2 DEF Cooling
    <3> QED
      BY <1>1, <1>2, <1>3, <2>1, <2>4, <3>2, CooldownAssumption
  <2> QED
    BY <1>4, <2>3, <2>4
<1>15. ASSUME NEW c \in Commands PROVE AskedOnce(c)' /\ ExcusedAnswers(c)'
  <2>1. \A i \in Places : <<c, Fields[i]>> \in Probings
    BY DEF Probings, Places
  <2>2. \A i \in Places : testing'[<<c, Fields[i]>>] # "none" => testing[<<c, Fields[i]>>] # "none"
    BY <1>6, <2>1
  <2>3. AskedOnce(c) /\ Place(c)' = Place(c) /\ ExcusedAnswers(c)
    BY DEF TestInv, Place
  <2>4. AskedOnce(c)'
    BY <2>2, <2>3 DEF AskedOnce
  <2>5. ASSUME NEW f, Excused(c, f)
        PROVE  \E i \in 1..Len(probes') : Credential(probes'[i].of) = Credential(<<c, f>>) /\ probes'[i].of[1] # c
    <3>1. PICK i \in 1..L : Credential(probes[i].of) = Credential(<<c, f>>) /\ probes[i].of[1] # c
      BY <2>5 DEF Excused, L
    <3> QED
      BY <1>4, <1>11, <3>1
  <2>6. ExcusedAnswers(c)'
    BY <2>3, <2>5 DEF ExcusedAnswers, Excused
  <2> QED
    BY <2>4, <2>6
<1> QED
  BY <1>10, <1>12, <1>13, <1>14, <1>15 DEF TestInv, Spaced

LEMMA PassKeeps ==
  ASSUME TestInv, Pass
  PROVE  TestInv'
<1>1. /\ UNCHANGED <<command, testing, last, probes, evicted>>
      /\ tick \in Nat /\ tick' = tick + 1
  BY DEF Pass, TestInv, TestTypeOK
<1>2. TestTypeOK'
  BY <1>1 DEF TestInv, TestTypeOK
<1>3. ASSUME NEW i \in 1..Len(probes) PROVE Stamped(i)'
  <2>1. probes[i].at \in Nat /\ Stamped(i)
    BY ProbeOf DEF TestInv
  <2>2. probes[i].at <= tick' /\ (tick' - probes[i].at < Cooldown => tick - probes[i].at < Cooldown)
    BY <1>1, <2>1, CooldownAssumption DEF Stamped
  <2> QED
    BY <1>1, <2>1, <2>2 DEF Stamped
<1>4. ASSUME NEW c \in Commands PROVE AskedOnce(c)' /\ ExcusedAnswers(c)'
  BY <1>1 DEF TestInv, AskedOnce, Place, ExcusedAnswers, Excused
<1> QED
  BY <1>1, <1>2, <1>3, <1>4 DEF TestInv, Spaced

LEMMA ConfigTestKeeps ==
  ASSUME TestInv, NEW c \in Commands, RunConfigTest(c)
  PROVE  TestInv'
<1> DEFINE code == AnswerOfFramework(c)
           old == command[c]
<1>1. code \in Codes /\ code # "COOLDOWN"
  BY DEF RunConfigTest, AnswerOfFramework, Codes
<1>2. command \in [Commands -> Requests] /\ old \in Requests /\ ~old.waits /\ old.todo # {}
  BY DEF TestInv, TestTypeOK, RunConfigTest
<1>3. command' = [command EXCEPT ![c] = [todo |-> @.todo \ {Place(c)}, waits |-> FALSE,
                                        answers |-> Append(@.answers, <<Field(c), code>>)]]
  BY <1>2 DEF RunConfigTest, Requests
<1> HIDE DEF code
<1>4. /\ UNCHANGED <<testing, last, probes, evicted, tick>>
      /\ testing \in [Probings -> {"none", "reading", "probing", "done"}]
  BY DEF RunConfigTest, TestInv, TestTypeOK
<1> QED
  BY <1>1, <1>2, <1>3, <1>4, AnswerGiven

LEMMA ToolboxTestKeeps ==
  ASSUME TestInv, NEW c \in Commands, RunToolboxTest(c)
  PROVE  TestInv'
<1> DEFINE old == command[c]
<1>1. command \in [Commands -> Requests] /\ old \in Requests /\ ~old.waits /\ old.todo # {}
  BY DEF TestInv, TestTypeOK, RunToolboxTest
<1>2. UNCHANGED <<last, probes, evicted, tick>> /\ testing \in [Probings -> {"none", "reading", "probing", "done"}]
  BY DEF RunToolboxTest, TestInv, TestTypeOK
<1>3. CASE /\ command' = [command EXCEPT ![c].todo = @ \ {Place(c)}, ![c].answers = Append(@, <<Field(c), "FOREIGN_PATH">>)]
           /\ UNCHANGED testing
  <2>1. command' = [command EXCEPT ![c] = [todo |-> @.todo \ {Place(c)}, waits |-> FALSE,
                                          answers |-> Append(@.answers, <<Field(c), "FOREIGN_PATH">>)]]
    BY <1>1, <1>3 DEF Requests
  <2>2. "FOREIGN_PATH" \in Codes
    BY DEF Codes
  <2> QED
    BY <1>1, <1>2, <1>3, <2>1, <2>2, AnswerGiven
<1>4. CASE /\ command' = [command EXCEPT ![c].waits = TRUE]
           /\ testing' = [testing EXCEPT ![<<c, Field(c)>>] = "reading"]
  <2>1. Place(c) \in old.todo /\ Place(c) \in Places
    BY <1>1, PlaceOf DEF TestInv
  <2>2. /\ command' \in [Commands -> Requests] /\ command'[c].todo = old.todo /\ command'[c].waits
        /\ command'[c].answers = old.answers /\ \A d \in Commands : d # c => command'[d] = command[d]
    BY <1>1, <1>4 DEF Requests
  <2>3. <<c, Field(c)>> \in Probings
    BY <2>1 DEF Field, Probings, Places
  <2>4. /\ testing' \in [Probings -> {"none", "reading", "probing", "done"}]
        /\ \A s \in Probings : s # <<c, Field(c)>> => testing'[s] = testing[s]
    BY <1>2, <1>4, <2>3
  <2>5. testing[<<c, Field(c)>>] = "none"
    <3>1. testing[<<c, Fields[Place(c)]>>] # "none" => command[c].waits
      BY <2>1 DEF TestInv, AskedOnce
    <3> QED
      BY <1>1, <3>1 DEF Field
  <2>6. TestTypeOK'
    BY <1>2, <2>2, <2>4 DEF TestInv, TestTypeOK
  <2>7. ASSUME NEW i \in 1..Len(probes) PROVE Stamped(i)'
    <3>1. probes[i].of \in Probings /\ Stamped(i)
      BY ProbeOf DEF TestInv
    <3>2. testing'[probes[i].of] = testing[probes[i].of]
      BY <2>4, <2>5, <3>1 DEF Stamped
    <3> QED
      BY <1>2, <3>1, <3>2 DEF Stamped
  <2>8. Place(c)' = Place(c)
    BY <2>2 DEF Place
  <2>9. AskedOnce(c)'
    <3>1. AskedOnce(c)
      BY DEF TestInv
    <3>2. ASSUME NEW i \in Places, testing'[<<c, Fields[i]>>] # "none"
          PROVE  i \in FieldsOf(c) /\ (i \in old.todo => i = Place(c))
      <4>1. CASE Fields[i] = Field(c)
        <5>1. i = Place(c)
          BY <2>1, <4>1, FieldsAssumption DEF Field, Places
        <5> QED
          BY <2>1, <3>1, <5>1 DEF AskedOnce
      <4>2. CASE Fields[i] # Field(c)
        <5>1. testing[<<c, Fields[i]>>] # "none"
          <6>1. <<c, Fields[i]>> \in Probings /\ <<c, Fields[i]>> # <<c, Field(c)>>
            BY <4>2 DEF Probings, Places
          <6> QED
            BY <2>4, <3>2, <6>1
        <5> QED
          BY <1>1, <3>1, <5>1 DEF AskedOnce
      <4> QED
        BY <4>1, <4>2
    <3> QED
      BY <1>1, <2>2, <2>8, <3>1, <3>2 DEF AskedOnce
  <2>10. ASSUME NEW d \in Commands, d # c PROVE AskedOnce(d)'
    <3>1. AskedOnce(d) /\ command'[d] = command[d] /\ Place(d)' = Place(d)
      BY <2>2, <2>10 DEF TestInv, Place
    <3>2. \A i \in Places : testing'[<<d, Fields[i]>>] = testing[<<d, Fields[i]>>]
      <4>1. \A i \in Places : <<d, Fields[i]>> \in Probings /\ <<d, Fields[i]>> # <<c, Field(c)>>
        BY <2>10 DEF Probings, Places
      <4> QED
        BY <2>4, <4>1
    <3> QED
      BY <3>1, <3>2 DEF AskedOnce
  <2>11. ASSUME NEW d \in Commands PROVE ExcusedAnswers(d)'
    <3>1. command'[d].answers = command[d].answers /\ ExcusedAnswers(d)
      BY <2>2 DEF TestInv
    <3> QED
      BY <1>2, <3>1 DEF ExcusedAnswers, Excused
  <2> QED
    BY <1>2, <2>6, <2>7, <2>9, <2>10, <2>11 DEF TestInv, Spaced
<1> QED
  BY <1>3, <1>4 DEF RunToolboxTest

LEMMA GiveUpKeeps ==
  ASSUME TestInv, NEW c \in Commands, GiveUp(c)
  PROVE  TestInv'
<1>1. command[c].todo # {}
  BY DEF GiveUp, TestInv, AskedOnce
<1>2. command' = [command EXCEPT ![c] = [todo |-> @.todo \ {Place(c)}, waits |-> FALSE,
                                        answers |-> Append(@.answers, <<Field(c), "TOOLBOX_UNREACHABLE">>)]]
  BY DEF GiveUp, Answered
<1>3. /\ UNCHANGED <<testing, last, probes, evicted, tick>>
      /\ testing \in [Probings -> {"none", "reading", "probing", "done"}]
  BY DEF GiveUp, TestInv, TestTypeOK
<1>4. "TOOLBOX_UNREACHABLE" \in Codes
  BY DEF Codes
<1> QED
  BY <1>1, <1>2, <1>3, <1>4, AnswerGiven

LEMMA ResolvedKeeps ==
  ASSUME TestInv, NEW r \in Probings, Resolved(r)
  PROVE  TestInv'
<1>1. testing[r] = "reading" /\ tick' = tick
  BY DEF Resolved
<1>2. Tester[r[2]].fault \in Codes \cup {"none"} /\ Tester[r[2]].fault # "COOLDOWN"
  <2>1. PICK i \in DOMAIN Fields : r[2] = Fields[i]
    BY DEF Probings
  <2> QED
    BY <2>1, TesterAssumption DEF Codes
<1>3. ASSUME NEW code \in Codes, Answers(r, code), code # "COOLDOWN" \/ Cooling(LimiterKey(r)),
             UNCHANGED <<last, probes, evicted>>
      PROVE  TestInv'
  <2>1. code = "COOLDOWN" => Excused(r[1], r[2])
    BY <1>1, <1>3, CoolingIsExcused
  <2> QED
    BY <1>1, <1>3, <2>1, AnswersKeeps
<1>4. CASE /\ \E code \in IF Tester[r[2]].fault = "none" THEN {"CONFIG_UNAVAILABLE", "DECRYPT_FAILED", "NOT_SET"}
                           ELSE {"CONFIG_UNAVAILABLE"} : Answers(r, code)
           /\ UNCHANGED <<last, probes, evicted>>
  <2>1. PICK code \in {"CONFIG_UNAVAILABLE", "DECRYPT_FAILED", "NOT_SET"} : Answers(r, code)
    BY <1>4
  <2>2. code \in Codes /\ code # "COOLDOWN"
    BY DEF Codes
  <2> QED
    BY <1>3, <1>4, <2>1, <2>2
<1>5. CASE /\ Tester[r[2]].fault # "none" /\ Answers(r, Tester[r[2]].fault)
           /\ UNCHANGED <<last, probes, evicted>>
  BY <1>2, <1>3, <1>5
<1>6. CASE /\ Cooling(LimiterKey(r)) /\ Answers(r, "COOLDOWN")
           /\ UNCHANGED <<last, probes, evicted>>
  <2>1. "COOLDOWN" \in Codes
    BY DEF Codes
  <2> QED
    BY <1>3, <1>6, <2>1
<1>7. CASE /\ Take(r) /\ probes' = Append(probes, [of |-> r, at |-> tick])
           /\ testing' = [testing EXCEPT ![r] = "probing"] /\ UNCHANGED command
  BY <1>1, <1>7, ProbeStarts
<1> QED
  BY <1>4, <1>5, <1>6, <1>7 DEF Resolved

LEMMA ProbedKeeps ==
  ASSUME TestInv, NEW r \in Probings, Probed(r)
  PROVE  TestInv'
<1>1. testing[r] # "none" /\ Answers(r, "PROBED") /\ UNCHANGED <<last, probes, evicted, tick>>
  BY DEF Probed
<1>2. "PROBED" \in Codes
  BY DEF Codes
<1> QED
  BY <1>1, <1>2, AnswersKeeps

LEMMA TestStepKeeps == TestInv /\ [TestNext]_testVars => TestInv'
<1> SUFFICES ASSUME TestInv, [TestNext]_testVars PROVE TestInv'
  OBVIOUS
<1>1. ASSUME NEW c \in Commands, RunConfigTest(c) \/ RunToolboxTest(c) \/ GiveUp(c) PROVE TestInv'
  BY <1>1, ConfigTestKeeps, ToolboxTestKeeps, GiveUpKeeps
<1>2. ASSUME NEW r \in Probings, Resolved(r) \/ Probed(r) PROVE TestInv'
  BY <1>2, ResolvedKeeps, ProbedKeeps
<1>3. CASE Pass
  BY <1>3, PassKeeps
<1>4. CASE UNCHANGED testVars
  <2>1. UNCHANGED <<command, testing, last, probes, evicted, tick>>
    BY <1>4 DEF testVars
  <2>2. TestTypeOK' /\ \A i \in 1..Len(probes) : Stamped(i)'
    BY <2>1 DEF TestInv, TestTypeOK, Stamped
  <2>3. \A c \in Commands : AskedOnce(c)' /\ ExcusedAnswers(c)'
    BY <2>1 DEF TestInv, AskedOnce, Place, ExcusedAnswers, Excused
  <2> QED
    BY <2>1, <2>2, <2>3 DEF TestInv, Spaced
<1> QED
  BY <1>1, <1>2, <1>3, <1>4 DEF TestNext

\* What is told to wait is excused, and the probes are spaced.
LEMMA SpacedFollows == TestInv => ProbesSpaced
<1> SUFFICES ASSUME TestInv PROVE ProbesSpaced
  OBVIOUS
<1>1. DOMAIN probes = 1..Len(probes)
  BY DEF TestInv, TestTypeOK
<1>2. ASSUME NEW r \in Probings, NEW n \in DOMAIN command[r[1]].answers,
             command[r[1]].answers[n] = <<r[2], "COOLDOWN">>
      PROVE  \E p \in DOMAIN probes : Credential(probes[p].of) = Credential(r) /\ probes[p].of[1] # r[1]
  <2>1. PICK c \in Commands, f \in {Fields[i] : i \in DOMAIN Fields} : r = <<c, f>>
    BY DEF Probings
  <2>2. r[1] = c /\ r[2] = f
    BY <2>1
  <2>3. command[c] \in Requests
    BY DEF TestInv, TestTypeOK
  <2>4. command[c].answers \in Replies
    BY <2>3 DEF Requests
  <2>5. n \in 1..Len(command[c].answers)
    BY <2>2, <2>4 DEF Replies
  <2>6. Excused(c, f)
    BY <1>2, <2>2, <2>5 DEF TestInv, ExcusedAnswers
  <2> QED
    BY <1>1, <2>1, <2>2, <2>6 DEF Excused
<1> QED
  BY <1>1, <1>2 DEF ProbesSpaced, TestInv, Spaced

\* Two logins of one account are a cooldown apart, unless the cap pushed the entry out, and only
\* another command's login makes a command wait (ProbesSpaced).
THEOREM TestsAreSpaced == TestSpec => []ProbesSpaced
<1>1. TestSpec => []TestInv
  BY TestInitInv, TestStepKeeps, PTL DEF TestSpec
<1> QED
  BY <1>1, SpacedFollows, PTL

-----------------------------------------------------------------------------
(* ToolboxCalls: what a call has read *)

Flags     == {"none", "on", "off"}
Steps     == {"audit", "consume", "verify", "read", "decide", "finalize"}
CallRows  == [at : Steps, cap : Caps, for : {"call", "session", "registry"}, registry : BOOLEAN,
              layer : {1, 2, 3}, seen : [ToolChain -> Flags], permitted : BOOLEAN,
              stood : SUBSET (ToolChain \X Layers), withdrawn : BOOLEAN]
CapRows   == [alive : BOOLEAN, source : BOOLEAN, permitted : BOOLEAN, used : BOOLEAN, runs : Nat]

CallTypeOK ==
    /\ flag \in [ToolChain -> [Layers -> Flags]]
    /\ capability \in [Caps -> CapRows]
    /\ session \in [Caps -> {NoSession, "registered", "empty"}]
    /\ call \in [Calls -> CallRows \cup {NoCall}]

\* How many layers there are, and how many were read.
Depth(c)  == IF Kind[c] = "user" THEN 2 ELSE 3
ReadTo(r) == IF r.at = "read" THEN r.layer - 1 ELSE Depth(r.cap)

\* The refusal of the i-th layer stands, of the first n.
Refuses(r, t, i, n) ==
    LET L == LayersOf(r.cap) IN
    /\ flag[t][L[i]] = "off" /\ <<t, L[i]>> \in r.stood
    /\ \A j \in (i + 1)..n : flag[t][L[j]] = "none" /\ <<t, L[j]>> \in r.stood

LayersSeen(r) ==
    \A t \in ToolChain : \A i \in 1..ReadTo(r) : Refuses(r, t, i, ReadTo(r)) => r.seen[t] = "off"

\* The capability is no longer good for a call.
Lost(c) == ~capability[c].alive \/ (SingleUse(c) /\ ~(capability[c].source /\ capability[c].permitted))

Verified(r) == r.at \in {"read", "decide"} /\ r.for = "call"

\* The call used up its capability.
Past(r) == r # NoCall /\ SingleUse(r.cap) /\ r.at \in {"read", "verify", "decide", "finalize"}

Stands(r) ==
    r # NoCall =>
        /\ r.withdrawn => Lost(r.cap)
        /\ r.for = "session" => ~SingleUse(r.cap)
        /\ r.at \in {"audit", "consume", "read"} => r.layer \in 1..Depth(r.cap)
        /\ Verified(r) => LayersSeen(r) /\ (r.withdrawn => ~r.permitted)
        /\ Past(r) => capability[r.cap].used /\ (r.at # "finalize" => capability[r.cap].runs = 0)

CallInv ==
    /\ CallTypeOK
    /\ \A k \in Calls : Stands(call[k])
    /\ \A j, k \in Calls : Past(call[j]) /\ Past(call[k]) /\ call[j].cap = call[k].cap => j = k
    /\ \A c \in Caps : SingleUse(c) /\ ~capability[c].used => capability[c].runs = 0
    /\ \A c \in Caps : session[c] # NoSession => ~SingleUse(c)

LEMMA DepthOf ==
  ASSUME NEW c
  PROVE  /\ Depth(c) \in {2, 3} /\ DOMAIN LayersOf(c) = 1..Depth(c) /\ Cardinality(DOMAIN LayersOf(c)) = Depth(c)
         /\ LayersOf(c)[1] = "default" /\ LayersOf(c)[2] = "workspace"
         /\ Depth(c) = 3 => LayersOf(c)[3] = "agent_view"
<1>1. Cardinality(1..2) = 2 /\ Cardinality(1..3) = 3
  <2>1. \A a, b \in Int : Cardinality(a..b) = IF a > b THEN 0 ELSE b - a + 1
    BY FS_Interval
  <2>2. ASSUME NEW b \in Int, b >= 1 PROVE Cardinality(1..b) = b
    BY <2>1, <2>2
  <2>3. 2 \in Int /\ 2 >= 1 /\ 3 \in Int /\ 3 >= 1
    OBVIOUS
  <2> QED
    BY <2>2, <2>3, Zenon
<1>2. CASE Kind[c] = "user"
  <2>1. LayersOf(c) = <<"default", "workspace">> /\ Depth(c) = 2
    BY <1>2 DEF LayersOf, Depth
  <2>2. DOMAIN LayersOf(c) = 1..2
    BY <2>1
  <2> QED
    BY <1>1, <2>1, <2>2
<1>3. CASE Kind[c] # "user"
  <2>1. LayersOf(c) = <<"default", "workspace", "agent_view">> /\ Depth(c) = 3
    BY <1>3 DEF LayersOf, Depth
  <2>2. DOMAIN LayersOf(c) = 1..3
    BY <2>1
  <2> QED
    BY <1>1, <2>1, <2>2
<1> QED
  BY <1>2, <1>3

LEMMA NoCallIsNone == NoCall.at = "none" /\ NoCall \notin CallRows
<1>1. NoCall.at = "none"
  BY DEF NoCall
<1>2. \A r \in CallRows : r.at # "none"
  BY DEF CallRows, Steps
<1> QED
  BY <1>1, <1>2

LEMMA NewCallOK ==
  ASSUME NEW c \in Caps, NEW at \in {"read", "audit"}, NEW reg \in BOOLEAN
  PROVE  /\ NewCall(c, at, reg) \in CallRows
         /\ NewCall(c, at, reg).cap = c /\ NewCall(c, at, reg).at = at /\ NewCall(c, at, reg).for = "call"
         /\ NewCall(c, at, reg).layer = 1 /\ ~NewCall(c, at, reg).withdrawn
<1> DEFINE none == [t \in ToolChain |-> "none"]
<1>1. none \in [ToolChain -> Flags]
  BY DEF Flags
<1> HIDE DEF none
<1>2. NewCall(c, at, reg) = [at |-> at, cap |-> c, for |-> "call", registry |-> reg, layer |-> 1,
                             seen |-> none, permitted |-> FALSE, stood |-> {}, withdrawn |-> FALSE]
  BY DEF NewCall, none
<1> QED
  BY <1>1, <1>2 DEF CallRows, Steps

LEMMA CallInitInv == CallInit => CallInv
<1> SUFFICES ASSUME CallInit PROVE CallInv
  OBVIOUS
<1>1. flag \in [ToolChain -> [Layers -> Flags]]
  BY FlagsAssumption DEF CallInit, Flags
<1>2. capability \in [Caps -> CapRows] /\ \A c \in Caps : capability[c].runs = 0
  BY DEF CallInit, CapRows
<1>3. session \in [Caps -> {NoSession, "registered", "empty"}] /\ \A c \in Caps : session[c] = NoSession
  BY DEF CallInit
<1>4. call \in [Calls -> CallRows \cup {NoCall}] /\ \A k \in Calls : call[k] = NoCall
  BY DEF CallInit
<1> QED
  BY <1>1, <1>2, <1>3, <1>4 DEF CallInv, CallTypeOK, Stands, Past

-----------------------------------------------------------------------------
(* ToolboxCalls: steps of one call *)

LEMMA OneCall ==
  ASSUME CallInv, NEW k \in Calls, NEW n \in CallRows \cup {NoCall}, call' = [call EXCEPT ![k] = n],
         UNCHANGED <<flag, capability>>,
         Stands(n), Past(n) => Past(call[k]) /\ call[k].cap = n.cap,
         session' \in [Caps -> {NoSession, "registered", "empty"}],
         \A c \in Caps : session'[c] # NoSession => ~SingleUse(c)
  PROVE  CallInv'
<1>1. call' \in [Calls -> CallRows \cup {NoCall}] /\ call'[k] = n /\ \A j \in Calls : j # k => call'[j] = call[j]
  BY DEF CallInv, CallTypeOK
<1>2. CallTypeOK'
  BY <1>1 DEF CallInv, CallTypeOK
<1>3. ASSUME NEW j \in Calls PROVE Stands(call[j])'
  <2>1. \E r : r = call'[j] /\ Stands(r)
    BY <1>1 DEF CallInv
  <2> QED
    BY <2>1 DEF Stands, Lost, LayersSeen, Refuses
<1>4. \A i, j \in Calls : Past(call'[i]) /\ Past(call'[j]) /\ call'[i].cap = call'[j].cap => i = j
  BY <1>1 DEF CallInv
<1>5. \A i, j \in Calls : (Past(call[i]) /\ Past(call[j]) /\ call[i].cap = call[j].cap => i = j)'
  BY <1>4 DEF Past
<1> QED
  BY <1>2, <1>3, <1>5 DEF CallInv

\* The call is over.
LEMMA CallEnds ==
  ASSUME CallInv, NEW k \in Calls, call' = [call EXCEPT ![k] = NoCall], UNCHANGED <<flag, capability, session>>
  PROVE  CallInv'
<1>1. Stands(NoCall) /\ ~Past(NoCall)
  BY DEF Stands, Past
<1>2. session' \in [Caps -> {NoSession, "registered", "empty"}] /\ \A c \in Caps : session'[c] # NoSession => ~SingleUse(c)
  BY DEF CallInv, CallTypeOK
<1> QED
  BY <1>1, <1>2, OneCall

\* The call moves on and the sessions stay.
LEMMA CallMoves ==
  ASSUME CallInv, NEW k \in Calls, NEW n \in CallRows, call' = [call EXCEPT ![k] = n],
         UNCHANGED <<flag, capability, session>>, Stands(n), Past(n) => Past(call[k]) /\ call[k].cap = n.cap
  PROVE  CallInv'
<1>1. session' \in [Caps -> {NoSession, "registered", "empty"}] /\ \A c \in Caps : session'[c] # NoSession => ~SingleUse(c)
  BY DEF CallInv, CallTypeOK
<1> QED
  BY <1>1, OneCall

LEMMA BeginKeeps ==
  ASSUME CallInv, NEW k \in Calls, NEW c \in Caps,
         OpenSession(k, c) \/ CallOverSession(k, c) \/ Invoke(k, c)
  PROVE  CallInv'
<1>1. UNCHANGED <<flag, capability, session>>
  BY DEF OpenSession, CallOverSession, Invoke
<1>2. CASE OpenSession(k, c)
  <2> DEFINE r == NewCall(c, "read", FALSE)
             n == [r EXCEPT !.for = "session"]
  <2>1. r \in CallRows /\ r.cap = c /\ r.at = "read" /\ r.layer = 1 /\ ~r.withdrawn
    BY NewCallOK
  <2> HIDE DEF r
  <2>2. n \in CallRows /\ n.cap = c /\ n.at = "read" /\ n.for = "session" /\ n.layer = 1 /\ ~n.withdrawn
    BY <2>1 DEF CallRows
  <2>3. call' = [call EXCEPT ![k] = n] /\ ~SingleUse(c)
    BY <1>2 DEF OpenSession, r, SingleUse
  <2> HIDE DEF n
  <2>4. Stands(n) /\ ~Past(n)
    BY <2>2, <2>3, DepthOf DEF Stands, Verified, Past
  <2> QED
    BY <1>1, <2>2, <2>3, <2>4, CallMoves
<1>3. CASE CallOverSession(k, c) \/ Invoke(k, c)
  <2>1. PICK reg \in BOOLEAN : call' = [call EXCEPT ![k] = NewCall(c, "audit", reg)]
    BY <1>3 DEF CallOverSession, Invoke
  <2> DEFINE n == NewCall(c, "audit", reg)
  <2>2. n \in CallRows /\ n.cap = c /\ n.at = "audit" /\ n.for = "call" /\ n.layer = 1 /\ ~n.withdrawn
    BY NewCallOK
  <2> HIDE DEF n
  <2>3. call' = [call EXCEPT ![k] = n]
    BY <2>1 DEF n
  <2>4. Stands(n) /\ ~Past(n)
    BY <2>2, DepthOf DEF Stands, Verified, Past
  <2> QED
    BY <1>1, <2>2, <2>3, <2>4, CallMoves
<1> QED
  BY <1>2, <1>3

LEMMA RowOf ==
  ASSUME CallInv, NEW k \in Calls, call[k].at # "none"
  PROVE  call[k] \in CallRows /\ call[k] # NoCall /\ call[k].cap \in Caps
<1>1. call[k] # NoCall
  BY NoCallIsNone
<1>2. call[k] \in CallRows
  BY <1>1 DEF CallInv, CallTypeOK
<1> QED
  BY <1>1, <1>2 DEF CallRows

LEMMA AuditKeeps ==
  ASSUME CallInv, NEW k \in Calls, WriteAudit(k)
  PROVE  CallInv'
<1> DEFINE r == call[k]
           to == IF SingleUse(r.cap) THEN "consume" ELSE "verify"
           n == [r EXCEPT !.at = to]
<1>1. r \in CallRows /\ r # NoCall /\ r.at = "audit" /\ Stands(r)
  BY RowOf DEF WriteAudit, CallInv
<1>2. call' = [call EXCEPT ![k] = n] /\ UNCHANGED <<flag, capability, session>>
  BY DEF WriteAudit
<1>3. /\ n \in CallRows /\ n.cap = r.cap /\ n.at = to /\ n.for = r.for /\ n.withdrawn = r.withdrawn
      /\ n.layer = r.layer
  BY <1>1 DEF CallRows, Steps
<1>4. Stands(n) /\ ~Past(n)
  <2> HIDE DEF n
  <2> QED
    BY <1>1, <1>3 DEF Stands, Verified, Past
<1> HIDE DEF n
<1> QED
  BY <1>2, <1>3, <1>4, CallMoves

LEMMA ConsumeKeeps ==
  ASSUME CallInv, NEW k \in Calls, Consume(k), Consumable(call[k].cap)
  PROVE  CallInv'
<1> DEFINE r == call[k]
           c == r.cap
           n == [[r EXCEPT !.at = "read"] EXCEPT !.for = "registry"]
           o == capability[c]
           u == [o EXCEPT !.used = TRUE]
<1>1. r \in CallRows /\ r # NoCall /\ r.at = "consume" /\ Stands(r) /\ c \in Caps
  BY RowOf DEF Consume, CallInv
<1>2. capability \in [Caps -> CapRows] /\ call \in [Calls -> CallRows \cup {NoCall}]
      /\ capability' = [capability EXCEPT ![c] = u] /\ UNCHANGED <<flag, session>>
      /\ ~o.used
  BY DEF CallInv, CallTypeOK, Consume, Consumable
<1>3. call' = [call EXCEPT ![k] = n]
  BY <1>1 DEF Consume, CallRows
<1>4. /\ n \in CallRows /\ n.cap = c /\ n.at = "read" /\ n.for = "registry" /\ n.withdrawn = r.withdrawn
      /\ n.layer = r.layer
  BY <1>1 DEF CallRows, Steps
<1>5. o \in CapRows /\ u \in CapRows /\ u.used /\ u.runs = o.runs /\ u.alive = o.alive /\ u.source = o.source /\ u.permitted = o.permitted
  BY <1>1, <1>2 DEF CapRows
<1> HIDE DEF n, u
<1>6. /\ capability' \in [Caps -> CapRows] /\ capability'[c] = u /\ \A d \in Caps : d # c => capability'[d] = capability[d]
      /\ call' \in [Calls -> CallRows \cup {NoCall}] /\ call'[k] = n /\ \A j \in Calls : j # k => call'[j] = call[j]
  BY <1>1, <1>2, <1>3, <1>4, <1>5
<1>7. CallTypeOK'
  BY <1>2, <1>6 DEF CallInv, CallTypeOK
<1>8. \A d \in Caps : Lost(d)' = Lost(d)
  BY <1>5, <1>6 DEF Lost
<1>9. ASSUME NEW j \in Calls, j # k PROVE Stands(call[j])' /\ ~(Past(call[j]) /\ call[j].cap = c)
  <2>1. Stands(call[j]) /\ call'[j] = call[j] /\ (call[j] # NoCall => call[j].cap \in Caps)
    BY <1>6, <1>9 DEF CallInv, CallTypeOK, CallRows
  <2>2. ~(Past(call[j]) /\ call[j].cap = c)
    BY <1>2, <2>1 DEF Stands, Past
  <2>3. call[j] # NoCall => (LayersSeen(call[j])' <=> LayersSeen(call[j]))
    BY <1>2, <2>1 DEF LayersSeen, Refuses
  <2>4. call[j] # NoCall => (Lost(call[j].cap)' <=> Lost(call[j].cap))
    BY <1>8, <2>1
  <2>5. Past(call[j]) => capability'[call[j].cap] = capability[call[j].cap]
    BY <1>6, <2>1, <2>2 DEF Past
  <2> QED
    BY <2>1, <2>2, <2>3, <2>4, <2>5 DEF Stands, Past, Verified
<1>10. Stands(call[k])'
  <2>1. capability[c].runs = 0 \/ ~SingleUse(c)
    BY <1>1, <1>2 DEF CallInv
  <2>2. Lost(call[k].cap)' <=> Lost(c)
    BY <1>1, <1>4, <1>5, <1>6 DEF Lost
  <2> QED
    BY <1>1, <1>4, <1>5, <1>6, <2>1, <2>2 DEF Stands, Past, Verified
<1>11. \A i, j \in Calls : (Past(call[i]) /\ Past(call[j]) /\ call[i].cap = call[j].cap => i = j)'
  <2>1. ASSUME NEW i \in Calls, NEW j \in Calls, Past(call'[i]), Past(call'[j]), call'[i].cap = call'[j].cap
        PROVE  i = j
    <3>1. CASE i # k /\ j # k
      BY <1>6, <2>1, <3>1 DEF CallInv
    <3>2. CASE i = k /\ j # k
      BY <1>4, <1>6, <1>9, <2>1, <3>2
    <3>3. CASE i # k /\ j = k
      BY <1>4, <1>6, <1>9, <2>1, <3>3
    <3> QED
      BY <3>1, <3>2, <3>3
  <2> QED
    BY <2>1 DEF Past
<1>12. \A d \in Caps : (SingleUse(d) /\ ~capability[d].used => capability[d].runs = 0)'
  BY <1>5, <1>6 DEF CallInv
<1>13. \A d \in Caps : session'[d] # NoSession => ~SingleUse(d)
  BY <1>2 DEF CallInv
<1> QED
  BY <1>7, <1>9, <1>10, <1>11, <1>12, <1>13 DEF CallInv

LEMMA RegisterKeeps ==
  ASSUME CallInv, NEW k \in Calls, Register(k)
  PROVE  CallInv'
<1> DEFINE r == call[k]
           c == r.cap
<1>1. r \in CallRows /\ r # NoCall /\ r.at = "decide" /\ r.for # "call" /\ Stands(r) /\ c \in Caps
  BY RowOf DEF Register, CallInv
<1>2. PICK loads \in BOOLEAN :
        LET has == Registered(r.seen, loads) IN
        IF r.for = "session"
        THEN session' = [session EXCEPT ![c] = IF has THEN "registered" ELSE "empty"] /\ call' = [call EXCEPT ![k] = NoCall]
        ELSE call' = [call EXCEPT ![k] = [@ EXCEPT !.at = "verify", !.registry = has]] /\ UNCHANGED session
  BY DEF Register
<1>3. UNCHANGED <<flag, capability>>
  BY DEF Register
<1>4. CASE r.for = "session"
  <2>1. PICK v \in {"registered", "empty"} : session' = [session EXCEPT ![c] = v]
    BY <1>2, <1>4
  <2>2. session' \in [Caps -> {NoSession, "registered", "empty"}] /\ \A d \in Caps : session'[d] # NoSession => ~SingleUse(d)
    BY <1>1, <1>4, <2>1 DEF CallInv, CallTypeOK, Stands
  <2>3. Stands(NoCall) /\ ~Past(NoCall)
    BY DEF Stands, Past
  <2> QED
    BY <1>2, <1>3, <1>4, <2>2, <2>3, OneCall
<1>5. CASE r.for # "session"
  <2> DEFINE has == Registered(r.seen, loads)
             n == [[r EXCEPT !.at = "verify"] EXCEPT !.registry = has]
  <2>1. has \in BOOLEAN
    BY DEF Registered, Enabled
  <2> HIDE DEF has
  <2>2. call' = [call EXCEPT ![k] = n] /\ UNCHANGED session
    BY <1>1, <1>2, <1>5 DEF has, CallRows
  <2>3. n \in CallRows /\ n.cap = c /\ n.at = "verify" /\ n.for = r.for /\ n.withdrawn = r.withdrawn
    BY <1>1, <2>1 DEF CallRows, Steps
  <2> HIDE DEF n
  <2>4. Stands(n) /\ (Past(n) => Past(r) /\ r.cap = n.cap)
    BY <1>1, <2>3 DEF Stands, Past, Verified
  <2> QED
    BY <1>3, <2>2, <2>3, <2>4, CallMoves
<1> QED
  BY <1>4, <1>5

\* The second check: what was withdrawn before it and still passes is no longer permitted.
LEMMA ReverifyKeeps ==
  ASSUME CallInv, NEW k \in Calls, Reverify(k)
  PROVE  CallInv'
<1> DEFINE r == call[k]
           c == r.cap
           none == [t \in ToolChain |-> "none"]
           a == [r EXCEPT !.at = "read"]
           b == [a EXCEPT !.for = "call"]
           d == [b EXCEPT !.layer = 1]
           e == [d EXCEPT !.permitted = capability[c].permitted]
           f == [e EXCEPT !.seen = none]
           n == [f EXCEPT !.stood = ToolChain \X Layers]
<1>1. r \in CallRows /\ r # NoCall /\ r.at = "verify" /\ Stands(r) /\ c \in Caps /\ capability[c] \in CapRows
  BY RowOf DEF Reverify, CallInv, CallTypeOK
<1>2. UNCHANGED <<flag, capability, session>>
  BY DEF Reverify
<1>3. CASE call' = [call EXCEPT ![k] = NoCall]
  BY <1>2, <1>3, CallEnds
<1>4. CASE Derives(c) /\ call' = [call EXCEPT ![k] = n]
  <2>1. none \in [ToolChain -> Flags] /\ capability[c].permitted \in BOOLEAN
    BY <1>1 DEF Flags, CapRows
  <2>2. a \in CallRows /\ a.cap = c /\ a.at = "read" /\ a.withdrawn = r.withdrawn
    BY <1>1 DEF CallRows, Steps
  <2> HIDE DEF a, none
  <2>3. b \in CallRows /\ b.cap = c /\ b.at = "read" /\ b.withdrawn = r.withdrawn /\ b.for = "call"
    BY <2>2 DEF CallRows
  <2> HIDE DEF b
  <2>4. d \in CallRows /\ d.cap = c /\ d.at = "read" /\ d.withdrawn = r.withdrawn /\ d.for = "call" /\ d.layer = 1
    BY <2>3 DEF CallRows
  <2> HIDE DEF d
  <2>5. /\ e \in CallRows /\ e.cap = c /\ e.at = "read" /\ e.withdrawn = r.withdrawn /\ e.for = "call" /\ e.layer = 1
        /\ e.permitted = capability[c].permitted
    BY <2>1, <2>4 DEF CallRows
  <2> HIDE DEF e
  <2>6. /\ f \in CallRows /\ f.cap = c /\ f.at = "read" /\ f.withdrawn = r.withdrawn /\ f.for = "call" /\ f.layer = 1
        /\ f.permitted = capability[c].permitted
    BY <2>1, <2>5 DEF CallRows
  <2> HIDE DEF f
  <2>7. /\ n \in CallRows /\ n.cap = c /\ n.at = "read" /\ n.withdrawn = r.withdrawn /\ n.for = "call" /\ n.layer = 1
        /\ n.permitted = capability[c].permitted
    BY <2>6 DEF CallRows
  <2> HIDE DEF n
  <2>8. n.withdrawn => ~n.permitted
    BY <1>1, <1>4, <2>7 DEF Stands, Lost, Derives
  <2>9. LayersSeen(n)
    BY <2>7 DEF LayersSeen, ReadTo
  <2>10. Stands(n) /\ (Past(n) => Past(r) /\ r.cap = n.cap)
    BY <1>1, <2>7, <2>8, <2>9, DepthOf DEF Stands, Past, Verified
  <2> QED
    BY <1>2, <1>4, <2>7, <2>10, CallMoves
<1>5. ~Derives(c) \/ ~r.registry => call' = [call EXCEPT ![k] = NoCall]
  BY DEF Reverify
<1>6. Derives(c) /\ r.registry => call' = [call EXCEPT ![k] = n]
  <2>1. Derives(c) /\ r.registry =>
          call' = [call EXCEPT ![k] = [r EXCEPT !.at = "read", !.for = "call", !.layer = 1, !.permitted = capability[c].permitted,
                        !.seen = none, !.stood = ToolChain \X Layers]]
    BY DEF Reverify
  <2> QED
    BY <1>1, <2>1 DEF CallRows
<1> QED
  BY <1>3, <1>4, <1>5, <1>6

-----------------------------------------------------------------------------
(* ToolboxCalls: the layers, and the handler *)

\* A layer is read: what refuses among the first n still does with the next one.
LEMMA ReadKeeps ==
  ASSUME CallInv, NEW k \in Calls, ReadLayer(k)
  PROVE  CallInv'
<1> DEFINE r == call[k]
           c == r.cap
           L == LayersOf(c)
           s == L[r.layer]
           merged == [t \in ToolChain |-> IF flag[t][s] = "none" THEN r.seen[t] ELSE flag[t][s]]
           final == r.layer = Depth(c)
           l == IF final THEN r.layer ELSE r.layer + 1
           at == IF final THEN "decide" ELSE "read"
           a == [r EXCEPT !.seen = merged]
           b == [a EXCEPT !.layer = l]
           n == [b EXCEPT !.at = at]
<1>1. r \in CallRows /\ r # NoCall /\ r.at = "read" /\ Stands(r) /\ c \in Caps
  BY RowOf DEF ReadLayer, CallInv
<1>2. UNCHANGED <<flag, capability, session>>
  BY DEF ReadLayer
<1>3. /\ Depth(c) \in {2, 3} /\ Cardinality(DOMAIN L) = Depth(c) /\ r.layer \in 1..Depth(c)
      /\ \A i \in 1..Depth(c) : L[i] \in Layers
  <2>1. Depth(c) \in {2, 3} /\ Cardinality(DOMAIN L) = Depth(c) /\ r.layer \in 1..Depth(c)
    BY <1>1, DepthOf DEF Stands
  <2>2. ASSUME NEW i \in 1..Depth(c) PROVE L[i] \in Layers
    <3>1. i = 1 \/ i = 2 \/ (i = 3 /\ Depth(c) = 3)
      BY <2>1
    <3> QED
      BY <3>1, DepthOf DEF Layers
  <2> QED
    BY <2>1, <2>2
<1>4. call' = [call EXCEPT ![k] = n]
  <2>1. call' = [call EXCEPT ![k] = [r EXCEPT !.seen = merged, !.layer = l, !.at = at]]
    BY <1>3 DEF ReadLayer
  <2> HIDE DEF merged, l, at
  <2> QED
    BY <1>1, <2>1 DEF CallRows
<1>5. merged \in [ToolChain -> Flags] /\ \A t \in ToolChain : merged[t] = IF flag[t][s] = "none" THEN r.seen[t] ELSE flag[t][s]
  BY <1>1, <1>3 DEF CallInv, CallTypeOK, CallRows
<1>6. l \in {1, 2, 3} /\ at \in {"read", "decide"} /\ (at = "read" => l \in 1..Depth(c) /\ l = r.layer + 1) /\ (at = "decide" => r.layer = Depth(c))
  BY <1>3
<1> HIDE DEF merged, l, at
<1>7. a \in CallRows /\ a.cap = c /\ a.for = r.for /\ a.seen = merged /\ a.withdrawn = r.withdrawn /\ a.permitted = r.permitted /\ a.stood = r.stood
  BY <1>1, <1>5 DEF CallRows
<1> HIDE DEF a
<1>8. /\ b \in CallRows /\ b.cap = c /\ b.for = r.for /\ b.seen = merged /\ b.withdrawn = r.withdrawn /\ b.permitted = r.permitted
      /\ b.stood = r.stood /\ b.layer = l
  BY <1>6, <1>7 DEF CallRows
<1> HIDE DEF b
<1>9. /\ n \in CallRows /\ n.cap = c /\ n.for = r.for /\ n.seen = merged /\ n.withdrawn = r.withdrawn /\ n.permitted = r.permitted
      /\ n.stood = r.stood /\ n.layer = l /\ n.at = at
  BY <1>6, <1>8 DEF CallRows, Steps
<1> HIDE DEF n
<1>10. ReadTo(n) = r.layer /\ ReadTo(r) = r.layer - 1 /\ r.layer \in Nat
  BY <1>1, <1>3, <1>6, <1>9 DEF ReadTo
<1>11. ASSUME r.for = "call" PROVE LayersSeen(n)
  <2>1. LayersSeen(r)
    BY <1>1, <1>11 DEF Stands, Verified
  <2>2. SUFFICES ASSUME NEW t \in ToolChain, NEW i \in 1..r.layer, Refuses(n, t, i, r.layer) PROVE merged[t] = "off"
    BY <1>9, <1>10 DEF LayersSeen
  <2>3. flag[t][L[i]] = "off" /\ <<t, L[i]>> \in r.stood /\ \A j \in (i + 1)..r.layer : flag[t][L[j]] = "none" /\ <<t, L[j]>> \in r.stood
    BY <1>9, <2>2 DEF Refuses
  <2>4. CASE i = r.layer
    BY <1>5, <2>3, <2>4
  <2>5. CASE i < r.layer
    <3>1. r.layer \in (i + 1)..r.layer /\ \A j \in (i + 1)..(r.layer - 1) : j \in (i + 1)..r.layer
      BY <1>10, <2>5
    <3>2. Refuses(r, t, i, r.layer - 1) /\ i \in 1..(r.layer - 1)
      BY <1>10, <2>3, <2>5, <3>1 DEF Refuses
    <3>3. r.seen[t] = "off"
      BY <1>10, <2>1, <3>2 DEF LayersSeen
    <3>4. flag[t][s] = "none"
      BY <2>3, <3>1
    <3> QED
      BY <1>5, <3>3, <3>4
  <2> QED
    BY <1>10, <2>4, <2>5
<1>12. Stands(n) /\ (Past(n) => Past(r) /\ r.cap = n.cap)
  BY <1>1, <1>6, <1>9, <1>11 DEF Stands, Past, Verified
<1> QED
  BY <1>2, <1>4, <1>9, <1>12, CallMoves

LEMMA RunKeeps ==
  ASSUME CallInv, NEW k \in Calls, Run(k)
  PROVE  CallInv'
<1> DEFINE r == call[k]
           c == r.cap
           n == [r EXCEPT !.at = "finalize"]
           o == capability[c]
           v == o.runs + 1
           u == [o EXCEPT !.runs = v]
<1>1. r \in CallRows /\ r # NoCall /\ r.at = "decide" /\ r.for = "call" /\ Stands(r) /\ c \in Caps
  BY RowOf DEF Run, CallInv
<1>2. capability \in [Caps -> CapRows] /\ call \in [Calls -> CallRows \cup {NoCall}]
      /\ capability' = [capability EXCEPT ![c] = u] /\ UNCHANGED <<flag, session>> /\ call' = [call EXCEPT ![k] = n]
  BY DEF CallInv, CallTypeOK, Run
<1>3. n \in CallRows /\ n.cap = c /\ n.at = "finalize" /\ n.for = "call" /\ n.withdrawn = r.withdrawn
  BY <1>1 DEF CallRows, Steps
<1>4. o \in CapRows /\ v \in Nat
  BY <1>1, <1>2 DEF CapRows
<1> HIDE DEF v
<1>5. u \in CapRows /\ u.used = o.used /\ u.alive = o.alive /\ u.source = o.source /\ u.permitted = o.permitted
  BY <1>4 DEF CapRows
<1> HIDE DEF n, u
<1>6. /\ capability' \in [Caps -> CapRows] /\ capability'[c] = u /\ \A d \in Caps : d # c => capability'[d] = capability[d]
      /\ call' \in [Calls -> CallRows \cup {NoCall}] /\ call'[k] = n /\ \A j \in Calls : j # k => call'[j] = call[j]
  BY <1>1, <1>2, <1>3, <1>5
<1>7. CallTypeOK'
  BY <1>2, <1>6 DEF CallInv, CallTypeOK
<1>8. \A d \in Caps : Lost(d)' = Lost(d)
  BY <1>5, <1>6 DEF Lost
<1>9. SingleUse(c) => o.used /\ Past(r)
  BY <1>1 DEF Stands, Past
<1>10. ASSUME NEW j \in Calls, j # k PROVE Stands(call[j])' /\ ~(Past(call[j]) /\ call[j].cap = c)
  <2>1. Stands(call[j]) /\ call'[j] = call[j] /\ (call[j] # NoCall => call[j].cap \in Caps)
    BY <1>6, <1>10 DEF CallInv, CallTypeOK, CallRows
  <2>2. ~(Past(call[j]) /\ call[j].cap = c)
    <3>1. ASSUME Past(call[j]), call[j].cap = c PROVE FALSE
      <4>1. SingleUse(c)
        BY <3>1 DEF Past
      <4> QED
        BY <1>9, <1>10, <3>1, <4>1 DEF CallInv
    <3> QED
      BY <3>1
  <2>3. call[j] # NoCall => (LayersSeen(call[j])' <=> LayersSeen(call[j]))
    BY <1>2, <2>1 DEF LayersSeen, Refuses
  <2>4. call[j] # NoCall => (Lost(call[j].cap)' <=> Lost(call[j].cap))
    BY <1>8, <2>1
  <2>5. Past(call[j]) => capability'[call[j].cap] = capability[call[j].cap]
    BY <1>6, <2>1, <2>2 DEF Past
  <2> QED
    BY <2>1, <2>2, <2>3, <2>4, <2>5 DEF Stands, Past, Verified
<1>11. Stands(call[k])'
  <2>1. Lost(call[k].cap)' <=> Lost(c)
    BY <1>1, <1>3, <1>5, <1>6 DEF Lost
  <2> QED
    BY <1>1, <1>3, <1>5, <1>6, <1>9, <2>1 DEF Stands, Past, Verified
<1>12. \A i, j \in Calls : (Past(call[i]) /\ Past(call[j]) /\ call[i].cap = call[j].cap => i = j)'
  <2>1. ASSUME NEW i \in Calls, NEW j \in Calls, Past(call'[i]), Past(call'[j]), call'[i].cap = call'[j].cap
        PROVE  i = j
    <3>1. CASE i # k /\ j # k
      BY <1>6, <2>1, <3>1 DEF CallInv
    <3>2. CASE i = k /\ j # k
      BY <1>3, <1>6, <1>10, <2>1, <3>2
    <3>3. CASE i # k /\ j = k
      BY <1>3, <1>6, <1>10, <2>1, <3>3
    <3> QED
      BY <3>1, <3>2, <3>3
  <2> QED
    BY <2>1 DEF Past
<1>13. \A d \in Caps : (SingleUse(d) /\ ~capability[d].used => capability[d].runs = 0)'
  BY <1>5, <1>6, <1>9 DEF CallInv
<1>14. \A d \in Caps : session'[d] # NoSession => ~SingleUse(d)
  BY <1>2 DEF CallInv
<1> QED
  BY <1>7, <1>10, <1>11, <1>12, <1>13, <1>14 DEF CallInv

LEMMA EndKeeps ==
  ASSUME CallInv, NEW k \in Calls, QueryFails(k) \/ Refuse(k) \/ Finalize(k) \/ (Consume(k) /\ ~Consumable(call[k].cap))
  PROVE  CallInv'
BY CallEnds DEF QueryFails, Refuse, Finalize, Consume

-----------------------------------------------------------------------------
(* ToolboxCalls: what happens around the calls *)

LEMMA SessionEndsKeeps ==
  ASSUME CallInv, NEW c \in Caps, SessionEnds(c)
  PROVE  CallInv'
<1>1. /\ session \in [Caps -> {NoSession, "registered", "empty"}] /\ session' = [session EXCEPT ![c] = NoSession]
      /\ UNCHANGED <<flag, capability, call>>
  BY DEF SessionEnds, CallInv, CallTypeOK
<1>2. session' \in [Caps -> {NoSession, "registered", "empty"}] /\ \A d \in Caps : session'[d] # NoSession => ~SingleUse(d)
  BY <1>1 DEF CallInv
<1>3. CallTypeOK' /\ \A k \in Calls : Stands(call[k])'
  BY <1>1, <1>2 DEF CallInv, CallTypeOK, Stands, Past, Verified, Lost, LayersSeen, Refuses
<1> QED
  BY <1>1, <1>2, <1>3 DEF CallInv, Past

\* A write takes what it wrote from what stood, so that a refusal that stands was there before.
LEMMA WriteKeeps ==
  ASSUME CallInv, NEW t \in ToolChain, NEW s \in Layers, WriteFlag(t, s)
  PROVE  CallInv'
<1>1. PICK v \in Flags : flag' = [flag EXCEPT ![t][s] = v]
  BY DEF WriteFlag, Flags
<1>2. /\ UNCHANGED <<capability, session>> /\ flag \in [ToolChain -> [Layers -> Flags]]
      /\ call' = [k \in Calls |-> IF call[k] = NoCall THEN NoCall ELSE [call[k] EXCEPT !.stood = @ \ {<<t, s>>}]]
  BY DEF WriteFlag, CallInv, CallTypeOK
<1>3. /\ flag' \in [ToolChain -> [Layers -> Flags]]
      /\ \A u \in ToolChain, x \in Layers : <<u, x>> # <<t, s>> => flag'[u][x] = flag[u][x]
  BY <1>1, <1>2
<1>4. ASSUME NEW k \in Calls, call[k] # NoCall
      PROVE  /\ call[k] \in CallRows /\ call'[k] \in CallRows /\ call'[k] # NoCall
             /\ call'[k].at = call[k].at /\ call'[k].cap = call[k].cap /\ call'[k].for = call[k].for
             /\ call'[k].layer = call[k].layer /\ call'[k].seen = call[k].seen /\ call'[k].permitted = call[k].permitted
             /\ call'[k].withdrawn = call[k].withdrawn /\ call'[k].stood = call[k].stood \ {<<t, s>>}
  <2>1. call[k] \in CallRows
    BY <1>4 DEF CallInv, CallTypeOK
  <2>2. call'[k] = [call[k] EXCEPT !.stood = @ \ {<<t, s>>}]
    BY <1>2, <1>4
  <2>3. call'[k] \in CallRows
    BY <2>1, <2>2 DEF CallRows
  <2> QED
    BY <2>1, <2>2, <2>3, NoCallIsNone DEF CallRows
<1>5. \A k \in Calls : call[k] = NoCall => call'[k] = NoCall
  BY <1>2
<1>6. CallTypeOK'
  <2>1. call' \in [Calls -> CallRows \cup {NoCall}]
    BY <1>2, <1>4, <1>5
  <2> QED
    BY <1>2, <1>3, <2>1 DEF CallInv, CallTypeOK
<1>7. ASSUME NEW k \in Calls, call[k] # NoCall, call[k].at \in {"read", "decide"}, Stands(call[k]), LayersSeen(call[k])
      PROVE  LayersSeen(call[k])'
  <2> DEFINE r == call[k]
             q == call'[k]
             n == ReadTo(r)
             L == LayersOf(r.cap)
  <2>1. ReadTo(r)' = n /\ n <= Depth(r.cap) /\ n \in Int /\ r.cap \in Caps
    BY <1>4, <1>7, DepthOf DEF ReadTo, CallRows, Stands
  <2>2. ASSUME NEW u \in ToolChain, NEW i \in 1..n,
               flag'[u][L[i]] = "off", <<u, L[i]>> \in q.stood,
               \A j \in (i + 1)..n : flag'[u][L[j]] = "none" /\ <<u, L[j]>> \in q.stood
        PROVE  r.seen[u] = "off"
    <3>1. \A x : <<u, x>> \in q.stood => <<u, x>> \in r.stood /\ x \in Layers /\ flag'[u][x] = flag[u][x]
      BY <1>3, <1>4, <1>7 DEF CallRows
    <3>2. Refuses(r, u, i, n)
      BY <2>2, <3>1 DEF Refuses
    <3> QED
      BY <1>7, <3>2 DEF LayersSeen
  <2> HIDE DEF n
  <2>3. L = LayersOf(q.cap) /\ q.seen = r.seen
    BY <1>4, <1>7
  <2> QED
    BY <2>1, <2>2, <2>3 DEF LayersSeen, Refuses
<1>8. ASSUME NEW k \in Calls PROVE Stands(call[k])' /\ (Past(call[k])' <=> Past(call[k]))
  <2>1. CASE call[k] = NoCall
    BY <1>5, <2>1 DEF Stands, Past
  <2>2. CASE call[k] # NoCall
    <3>1. Stands(call[k])
      BY DEF CallInv
    <3>2. Past(call[k])' <=> Past(call[k])
      BY <1>4, <2>2 DEF Past
    <3>3. Verified(call[k])' <=> Verified(call[k])
      BY <1>4, <2>2 DEF Verified
    <3>4. Verified(call[k]) => LayersSeen(call[k])'
      BY <1>7, <2>2, <3>1 DEF Stands, Verified
    <3>5. Lost(call[k].cap)' <=> Lost(call[k].cap)
      BY <1>2, <1>4, <2>2 DEF Lost
    <3> QED
      BY <1>2, <1>4, <2>2, <3>1, <3>2, <3>3, <3>4, <3>5 DEF Stands
  <2> QED
    BY <2>1, <2>2
<1>9. \A i, j \in Calls : (Past(call[i]) /\ Past(call[j]) /\ call[i].cap = call[j].cap => i = j)'
  <2>1. \A i \in Calls : Past(call[i]) => call'[i].cap = call[i].cap
    BY <1>4 DEF Past
  <2> QED
    BY <1>8, <2>1 DEF CallInv
<1> QED
  BY <1>2, <1>6, <1>8, <1>9 DEF CallInv

LEMMA WithdrawKeeps ==
  ASSUME CallInv, NEW c \in Caps, Withdraw(c)
  PROVE  CallInv'
<1> DEFINE o == capability[c]
<1>1. PICK what \in {"alive", "source", "permitted"} :
        /\ ~SingleUse(c) => what = "alive"
        /\ capability' = [capability EXCEPT ![c] =
                 [o EXCEPT !.alive = o.alive /\ what # "alive",
                           !.source = o.source /\ what # "source",
                           !.permitted = o.permitted /\ what # "permitted"]]
  BY DEF Withdraw
<1> DEFINE a == [o EXCEPT !.alive = o.alive /\ what # "alive"]
           b == [a EXCEPT !.source = o.source /\ what # "source"]
           u == [b EXCEPT !.permitted = o.permitted /\ what # "permitted"]
<1>2. capability \in [Caps -> CapRows] /\ o \in CapRows /\ UNCHANGED <<flag, session>>
      /\ call' = [k \in Calls |-> IF Unverified(k) /\ call[k].cap = c THEN [call[k] EXCEPT !.withdrawn = TRUE] ELSE call[k]]
  BY DEF CallInv, CallTypeOK, Withdraw
<1>3. capability' = [capability EXCEPT ![c] = u]
  BY <1>1, <1>2 DEF CapRows
<1>4. a \in CapRows /\ a.alive = (o.alive /\ what # "alive") /\ a.source = o.source /\ a.permitted = o.permitted /\ a.used = o.used /\ a.runs = o.runs
  BY <1>2 DEF CapRows
<1> HIDE DEF a
<1>5. /\ b \in CapRows /\ b.alive = a.alive /\ b.source = (o.source /\ what # "source") /\ b.permitted = o.permitted
      /\ b.used = o.used /\ b.runs = o.runs
  BY <1>4 DEF CapRows
<1> HIDE DEF b
<1>6. /\ u \in CapRows /\ u.alive = a.alive /\ u.source = b.source /\ u.permitted = (o.permitted /\ what # "permitted")
      /\ u.used = o.used /\ u.runs = o.runs
  BY <1>5 DEF CapRows
<1> HIDE DEF u
<1>7. capability' \in [Caps -> CapRows] /\ capability'[c] = u /\ \A d \in Caps : d # c => capability'[d] = capability[d]
  BY <1>2, <1>3, <1>6
<1>8. Lost(c)' /\ \A d \in Caps : Lost(d) => Lost(d)'
  BY <1>1, <1>4, <1>5, <1>6, <1>7 DEF Lost
<1>9. \A d \in Caps : capability'[d].used = capability[d].used /\ capability'[d].runs = capability[d].runs
  BY <1>6, <1>7
<1>10. ASSUME NEW k \in Calls, call[k] # NoCall
       PROVE  /\ call[k] \in CallRows /\ call'[k] \in CallRows /\ call'[k] # NoCall
              /\ call'[k].at = call[k].at /\ call'[k].cap = call[k].cap /\ call'[k].for = call[k].for
              /\ call'[k].layer = call[k].layer /\ call'[k].seen = call[k].seen /\ call'[k].permitted = call[k].permitted
              /\ call'[k].stood = call[k].stood
              /\ \/ call'[k].withdrawn = call[k].withdrawn
                 \/ call[k].cap = c /\ Unverified(k)
  <2>1. call[k] \in CallRows
    BY <1>10 DEF CallInv, CallTypeOK
  <2>2. call'[k] = IF Unverified(k) /\ call[k].cap = c THEN [call[k] EXCEPT !.withdrawn = TRUE] ELSE call[k]
    BY <1>2
  <2>3. call'[k] \in CallRows
    BY <2>1, <2>2 DEF CallRows
  <2> QED
    BY <1>10, <2>1, <2>2, <2>3, NoCallIsNone DEF CallRows
<1>11. ASSUME NEW k \in Calls, call[k] = NoCall PROVE call'[k] = NoCall
  <2>1. ~Unverified(k)
    BY <1>11, NoCallIsNone DEF Unverified
  <2> QED
    BY <1>2, <1>11, <2>1
<1>12. CallTypeOK'
  <2>1. call' \in [Calls -> CallRows \cup {NoCall}]
    BY <1>2, <1>10, <1>11
  <2> QED
    BY <1>2, <1>7, <2>1 DEF CallInv, CallTypeOK
<1>13. ASSUME NEW k \in Calls PROVE Stands(call[k])' /\ (Past(call[k])' <=> Past(call[k]))
  <2>1. CASE call[k] = NoCall
    BY <1>11, <2>1 DEF Stands, Past
  <2>2. CASE call[k] # NoCall
    <3>1. Stands(call[k]) /\ call[k].cap \in Caps /\ call'[k] # NoCall
      BY <1>10, <2>2 DEF CallInv, CallRows
    <3>2. Past(call[k])' <=> Past(call[k])
      BY <1>10, <2>2 DEF Past
    <3>3. Verified(call[k])' <=> Verified(call[k])
      BY <1>10, <2>2 DEF Verified
    <3>4. LayersSeen(call[k])' <=> LayersSeen(call[k])
      BY <1>2, <1>10, <2>2 DEF LayersSeen, Refuses, ReadTo
    <3>5. call'[k].withdrawn => Lost(call[k].cap)'
      <4>1. call'[k].cap = call[k].cap /\ (call'[k].withdrawn => call[k].cap = c \/ Lost(call[k].cap))
        BY <1>10, <2>2, <3>1 DEF Stands
      <4>2. \A d \in Caps : (d = c \/ Lost(d)) => Lost(d)'
        BY <1>8
      <4> DEFINE d == call[k].cap
      <4> HIDE DEF d
      <4>3. PICK e \in Caps : e = d
        BY <3>1 DEF d
      <4>4. call'[k].withdrawn => Lost(e)'
        BY <4>1, <4>2, <4>3 DEF d
      <4>5. call'[k].cap = e
        BY <4>1, <4>3 DEF d
      <4> QED
        BY <4>4, <4>5 DEF Lost
    <3>6. Verified(call[k]) => call'[k].withdrawn = call[k].withdrawn
      BY <1>10, <2>2 DEF Verified, Unverified
    <3>7. Past(call[k]) => capability'[call[k].cap].used = capability[call[k].cap].used
                           /\ capability'[call[k].cap].runs = capability[call[k].cap].runs
      BY <1>9, <3>1
    <3> QED
      BY <1>10, <2>2, <3>1, <3>2, <3>3, <3>4, <3>5, <3>6, <3>7 DEF Stands
  <2> QED
    BY <2>1, <2>2
<1>14. \A i, j \in Calls : (Past(call[i]) /\ Past(call[j]) /\ call[i].cap = call[j].cap => i = j)'
  <2>1. \A i \in Calls : Past(call[i]) => call'[i].cap = call[i].cap
    BY <1>10 DEF Past
  <2> QED
    BY <1>13, <2>1 DEF CallInv
<1> QED
  BY <1>2, <1>9, <1>12, <1>13, <1>14 DEF CallInv

LEMMA CallStepKeeps == CallInv /\ [CallNext]_callVars => CallInv'
<1> SUFFICES ASSUME CallInv, [CallNext]_callVars PROVE CallInv'
  OBVIOUS
<1>1. ASSUME NEW k \in Calls, NEW c \in Caps, OpenSession(k, c) \/ CallOverSession(k, c) \/ Invoke(k, c) PROVE CallInv'
  BY <1>1, BeginKeeps
<1>2. ASSUME NEW k \in Calls, Consume(k) PROVE CallInv'
  BY <1>2, ConsumeKeeps, EndKeeps
<1>3. ASSUME NEW k \in Calls, WriteAudit(k) \/ QueryFails(k) \/ ReadLayer(k) \/ Register(k) PROVE CallInv'
  BY <1>3, AuditKeeps, EndKeeps, ReadKeeps, RegisterKeeps
<1>4. ASSUME NEW k \in Calls, Reverify(k) \/ Run(k) \/ Refuse(k) \/ Finalize(k) PROVE CallInv'
  BY <1>4, ReverifyKeeps, RunKeeps, EndKeeps
<1>5. ASSUME NEW c \in Caps, SessionEnds(c) \/ Withdraw(c) PROVE CallInv'
  BY <1>5, SessionEndsKeeps, WithdrawKeeps
<1>6. ASSUME NEW t \in ToolChain, NEW s \in Layers, WriteFlag(t, s) PROVE CallInv'
  BY <1>6, WriteKeeps
<1>7. CASE UNCHANGED callVars
  <2>1. UNCHANGED <<flag, capability, session, call>>
    BY <1>7 DEF callVars
  <2>2. CallTypeOK' /\ \A k \in Calls : Stands(call[k])'
    BY <2>1 DEF CallInv, CallTypeOK, Stands, Past, Verified, Lost, LayersSeen, Refuses
  <2> QED
    BY <2>1, <2>2 DEF CallInv, Past
<1> QED
  BY <1>1, <1>2, <1>3, <1>4, <1>5, <1>6, <1>7 DEF CallNext

-----------------------------------------------------------------------------
(* ToolboxCalls: the theorem *)

\* Only Run takes a call to its outcome.
LEMMA WhoRuns ==
  ASSUME CallInv, [CallNext]_callVars, NEW k \in Calls, HandlerRuns(k)
  PROVE  Run(k)
<1> DEFINE r == call[k]
<1>1. r \in CallRows /\ r # NoCall /\ r.at = "decide" /\ call'[k].at = "finalize" /\ call \in [Calls -> CallRows \cup {NoCall}]
  BY RowOf DEF HandlerRuns, CallInv, CallTypeOK
<1>2. call' # call
  BY <1>1
<1>3. ASSUME NEW j \in Calls, NEW n, call' = [call EXCEPT ![j] = n] PROVE j = k /\ n.at = "finalize"
  BY <1>1, <1>3
<1>4. ASSUME NEW j \in Calls, NEW c \in Caps, OpenSession(j, c) \/ CallOverSession(j, c) \/ Invoke(j, c) PROVE FALSE
  <2>1. PICK n : call' = [call EXCEPT ![j] = n]
    BY <1>4 DEF OpenSession, CallOverSession, Invoke
  <2>2. j = k
    BY <1>3, <2>1
  <2>3. call[j] = NoCall
    BY <1>4, <2>2 DEF OpenSession, CallOverSession, Invoke, SingleUse
  <2> QED
    BY <1>1, <2>2, <2>3
<1>5. ASSUME NEW j \in Calls, WriteAudit(j) \/ QueryFails(j) \/ Consume(j) \/ ReadLayer(j) \/ Reverify(j) \/ Finalize(j) PROVE FALSE
  <2>1. PICK n : call' = [call EXCEPT ![j] = n]
    BY <1>5 DEF WriteAudit, QueryFails, Consume, ReadLayer, Reverify, Finalize
  <2>2. j = k
    BY <1>3, <2>1
  <2> QED
    BY <1>1, <1>5, <2>2 DEF WriteAudit, QueryFails, Consume, ReadLayer, Reverify, Finalize
<1>6. ASSUME NEW j \in Calls, Register(j) PROVE FALSE
  <2>1. PICK n : call' = [call EXCEPT ![j] = n] /\ (n = NoCall \/ n.at = "verify")
    <3>1. CASE call[j].for = "session"
      BY <1>6, <3>1 DEF Register
    <3>2. CASE call[j].for # "session"
      <4>1. PICK has \in BOOLEAN : call' = [call EXCEPT ![j] = [call[j] EXCEPT !.at = "verify", !.registry = has]]
        BY <1>6, <3>2 DEF Register, Registered, Enabled
      <4>2. call[j] \in CallRows
        BY <1>6, RowOf DEF Register
      <4>3. [call[j] EXCEPT !.at = "verify", !.registry = has].at = "verify"
        BY <4>2 DEF CallRows
      <4> QED
        BY <4>1, <4>3
    <3> QED
      BY <3>1, <3>2
  <2>2. j = k /\ n.at = "finalize"
    BY <1>3, <2>1
  <2> QED
    BY <2>1, <2>2, NoCallIsNone
<1>7. ASSUME NEW j \in Calls, Refuse(j) PROVE FALSE
  BY <1>3, <1>7, NoCallIsNone DEF Refuse
<1>8. ASSUME NEW j \in Calls, Run(j) PROVE j = k
  <2>1. PICK n : call' = [call EXCEPT ![j] = n]
    BY <1>8 DEF Run
  <2> QED
    BY <1>3, <2>1
<1>9. ASSUME NEW c \in Caps, SessionEnds(c) PROVE FALSE
  BY <1>2, <1>9 DEF SessionEnds
<1>10. ASSUME NEW c \in Caps, Withdraw(c) PROVE FALSE
  <2>1. call'[k] = r \/ call'[k] = [r EXCEPT !.withdrawn = TRUE]
    BY <1>10 DEF Withdraw
  <2>2. [r EXCEPT !.withdrawn = TRUE].at = "decide"
    BY <1>1 DEF CallRows
  <2> QED
    BY <1>1, <2>1, <2>2
<1>11. ASSUME NEW t \in ToolChain, NEW s \in Layers, WriteFlag(t, s) PROVE FALSE
  <2>1. call'[k] = [r EXCEPT !.stood = @ \ {<<t, s>>}]
    BY <1>1, <1>11 DEF WriteFlag
  <2>2. [r EXCEPT !.stood = @ \ {<<t, s>>}].at = "decide"
    BY <1>1 DEF CallRows
  <2> QED
    BY <1>1, <2>1, <2>2
<1>12. ~UNCHANGED callVars
  BY <1>2 DEF callVars
<1> QED
  BY <1>4, <1>5, <1>6, <1>7, <1>8, <1>9, <1>10, <1>11, <1>12 DEF CallNext

\* A refusal that stands has been read.
LEMMA RefusalIsSeen ==
  ASSUME CallInv, NEW k \in Calls, Run(k)
  PROVE  ~StandingRefusalOf(k)
<1> DEFINE r == call[k]
           c == r.cap
           L == LayersOf(c)
           scopes == {L[i] : i \in DOMAIN L}
<1>1. r \in CallRows /\ r # NoCall /\ r.at = "decide" /\ r.for = "call" /\ Enabled(r.seen)
  BY RowOf DEF Run
<1>2. LayersSeen(r) /\ ReadTo(r) = Depth(c)
  BY <1>1 DEF CallInv, Stands, Verified, ReadTo
<1>3. /\ Depth(c) \in {2, 3} /\ DOMAIN L = 1..Depth(c) /\ L[1] = "default" /\ L[2] = "workspace"
      /\ Depth(c) = 3 => L[3] = "agent_view"
  BY DepthOf
<1> HIDE DEF L
<1>4. SUFFICES ASSUME NEW t \in ToolChain, NEW i \in 1..Depth(c), flag[t][L[i]] = "off", <<t, L[i]>> \in r.stood,
                      \A n \in Nearer(L[i]) \cap scopes : flag[t][n] = "none" /\ <<t, n>> \in r.stood
               PROVE  FALSE
  BY <1>3 DEF StandingRefusalOf, L
<1>5. ASSUME NEW j \in (i + 1)..Depth(c) PROVE L[j] \in Nearer(L[i]) \cap scopes
  <2>1. j \in 1..Depth(c) /\ L[j] \in scopes
    BY <1>3
  <2>2. \/ i = 1 /\ j = 2
        \/ i = 1 /\ j = 3 /\ Depth(c) = 3
        \/ i = 2 /\ j = 3 /\ Depth(c) = 3
    BY <1>3
  <2>3. L[j] \in Nearer(L[i])
    BY <1>3, <2>2 DEF Nearer
  <2> QED
    BY <2>1, <2>3
<1>6. Refuses(r, t, i, Depth(c))
  BY <1>4, <1>5 DEF Refuses, L
<1>7. r.seen[t] = "off"
  BY <1>2, <1>6 DEF LayersSeen
<1> QED
  BY <1>1, <1>7 DEF Enabled, ToolOn

\* A handler runs for a call that nothing refuses (RefusalHolds).
THEOREM RefusalsHold == CallSpec => RefusalHolds
<1> DEFINE Holds == \A k \in Calls : HandlerRuns(k) =>
                        /\ ~StandingRefusalOf(k)
                        /\ ~call[k].withdrawn
                        /\ SingleUse(call[k].cap) => capability[call[k].cap].runs = 0
<1>1. CallSpec => []CallInv
  BY CallInitInv, CallStepKeeps, PTL DEF CallSpec
<1>2. CallInv /\ [CallNext]_callVars => [Holds]_callVars
  <2> SUFFICES ASSUME CallInv, [CallNext]_callVars, NEW k \in Calls, HandlerRuns(k)
               PROVE  /\ ~StandingRefusalOf(k)
                      /\ ~call[k].withdrawn
                      /\ SingleUse(call[k].cap) => capability[call[k].cap].runs = 0
    OBVIOUS
  <2>1. Run(k)
    BY WhoRuns
  <2>2. call[k] # NoCall /\ Stands(call[k])
    BY <2>1, RowOf DEF Run, CallInv
  <2> QED
    BY <2>1, <2>2, RefusalIsSeen DEF Run, Stands, Verified, Past
<1> QED
  BY <1>1, <1>2, PTL DEF CallSpec, RefusalHolds
=============================================================================
