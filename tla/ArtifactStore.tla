--------------------------- MODULE ArtifactStore ----------------------------
(***************************************************************************)
(* One artifact code of the toolbox's store: drafts and their desks,       *)
(* versions, the current pointer, the published tree with its retention,   *)
(* and the panel's launches and deletion (modules/versioned_artifacts/     *)
(* toolbox, src/admin.py).  Every mutation holds the lifecycle lock of the *)
(* code; the panel and the prune share the retention lock.  Contents are   *)
(* commits, counted; a crash of the toolbox ends every operation in it.    *)
(***************************************************************************)
EXTENDS Integers, FiniteSets, FiniteSetsExt

CONSTANTS
    Agents,         \* sessions that call the tools
    Drafts,         \* draft ids
    KeepVersions,   \* serving/keep_versions
    StoreBudgets    \* bounds on each operation, on crashes and on failures

ASSUME AgentsAssumption == Agents \cap {"free", "web", "dead"} = {}

VARIABLES
    repo,        \* the bare repository: commit of each version id, commit of current, counters
    row,         \* which artifact the versioned_artifact row is of, 0 for none
    draft,       \* a draft's state and the commit of its branch
    desk,        \* the workspace copy of a draft: gone, the same as its tip, or edited
    tree,        \* the served versions, and the version that the current link names
    lock,        \* the lifecycle lock: free, its holder, or left by a dead process
    agent,       \* each session's operation: its step, its version, and what it is on, which is a
                 \* draft or the version expected
    panel,       \* the panel's request: what, its step, its version
    launched,    \* versions of live launches
    approved,    \* the approved version, 0 for none
    retention,   \* holder of the retention lock
    lost,        \* a deletion still on its way in the toolbox, whose web process died
    storeLeft

storeVars == <<repo, row, draft, desk, tree, lock, agent, panel, launched, approved, retention, lost,
               storeLeft>>

NoIds   == [i \in {} |-> 0]
NoOp    == [op |-> "none", pc |-> "done", on |-> 0, version |-> 0, stale |-> {}]
NoDraft == [state |-> "none", tip |-> 0]
NoRequest    == [op |-> "none", pc |-> "done", version |-> 0]
Bare    == [dirs |-> {}, link |-> 0]

StoreInit ==
    /\ repo = [state |-> "none", artifact |-> 0, ids |-> NoIds, current |-> 0, commits |-> 0, minted |-> 0]
    /\ row = 0
    /\ draft = [d \in Drafts |-> NoDraft]
    /\ desk = [d \in Drafts |-> "gone"]
    /\ tree = Bare
    /\ lock = "free"
    /\ agent = [a \in Agents |-> NoOp]
    /\ panel = NoRequest
    /\ launched = {} /\ approved = 0
    /\ retention = "free" /\ lost = FALSE
    /\ storeLeft \in StoreBudgets

Takes(k)     == storeLeft[k] > 0 /\ storeLeft' = [storeLeft EXCEPT ![k] = @ - 1]
AgentAt(a, op, pc) == agent[a].op = op /\ agent[a].pc = pc
Panel        == <<panel, launched, approved>>

VersionIds       == DOMAIN repo.ids
IdsOf(c)  == {i \in VersionIds : repo.ids[i] = c}
CurrentId == CHOOSE i \in IdsOf(repo.current) : TRUE

\* withLock: an operation that finds the lock held for 10 s ends with DRAFT_LOCKED.
Begin(a, op, pc, d, v) ==
    /\ agent[a].pc = "done" /\ lock = "free"
    /\ lock' = a
    /\ agent' = [agent EXCEPT ![a] = [NoOp EXCEPT !.op = op, !.pc = pc, !.on = d, !.version = v]]

Moves(a, pc) == agent' = [agent EXCEPT ![a].pc = pc] /\ UNCHANGED lock
Unlocks(a, op) == agent' = [agent EXCEPT ![a] = op] /\ lock' = "free"

-----------------------------------------------------------------------------
(* Creation *)

\* The store has no such directory, and the table has no row left by a deletion.
CodeFree == repo.state = "none" /\ row = 0

BeginInit(a) ==
    /\ Begin(a, "init", "import", 0, 0) /\ Takes("init")
    /\ CodeFree
    /\ repo' = [repo EXCEPT !.state = "half"]
    /\ UNCHANGED <<row, draft, desk, tree, Panel, retention, lost>>

\* Version 1, current, then the row, whose INSERT may fail; or the import fails and is removed.
Import(a) ==
    /\ AgentAt(a, "init", "import")
    /\ LET v == repo.minted + 1
           c == repo.commits + 1
           n == repo.artifact + 1
       IN \/ /\ repo' = [state |-> "whole", artifact |-> n, ids |-> [i \in {v} |-> c], current |-> c,
                         commits |-> c, minted |-> v]
             /\ \/ /\ row' = IF row = 0 THEN n ELSE row
                   /\ UNCHANGED storeLeft
                \/ UNCHANGED row /\ Takes("fail")
             /\ Unlocks(a, [agent[a] EXCEPT !.pc = "tree", !.version = v])
          \/ /\ repo' = [repo EXCEPT !.state = "none"]
             /\ Unlocks(a, NoOp) /\ Takes("fail")
             /\ UNCHANGED row
    /\ UNCHANGED <<draft, desk, tree, Panel, retention, lost>>

\* setAuth, the command's: the artifact must exist, which is read before the lock is had.
AskAuth(a) ==
    /\ agent[a].pc = "done" /\ Takes("auth")
    /\ repo.state = "whole"
    /\ agent' = [agent EXCEPT ![a] = [NoOp EXCEPT !.op = "auth", !.pc = "auth"]]
    /\ UNCHANGED <<repo, row, draft, desk, tree, lock, Panel, retention, lost>>

\* applyAuth or clearAuth, under the lock: the sidecar, then the row, made if it is missing; an
\* upsert that fails costs the row only.
ApplyAuth(a) ==
    /\ AgentAt(a, "auth", "auth") /\ lock = "free"
    /\ \/ row' = (IF row = 0 THEN repo.artifact ELSE row) /\ UNCHANGED storeLeft
       \/ Takes("fail") /\ UNCHANGED row
    /\ agent' = [agent EXCEPT ![a] = NoOp]
    /\ UNCHANGED <<repo, draft, desk, tree, lock, Panel, retention, lost>>

-----------------------------------------------------------------------------
(* Drafts and desks *)

\* reconcileDrafts: a checkout with no base ref is torn down.
Reconciled == [d \in Drafts |-> IF draft[d].state = "incomplete" THEN NoDraft ELSE draft[d]]

\* The worktree and its branch, on a version.
BeginDraft(a, d, v) ==
    /\ Begin(a, "draft", "base", d, v) /\ Takes("draft")
    /\ repo.state = "whole" /\ v \in VersionIds /\ draft[d].state = "none"
    /\ draft' = [Reconciled EXCEPT ![d] = [state |-> "incomplete", tip |-> repo.ids[v]]]
    /\ UNCHANGED <<repo, row, desk, tree, Panel, retention, lost>>

\* The base ref, or the compensating teardown when it cannot be written.
RecordBase(a) ==
    /\ AgentAt(a, "draft", "base")
    /\ \/ /\ draft' = [draft EXCEPT ![agent[a].on].state = "open"]
          /\ UNCHANGED storeLeft
       \/ /\ draft' = [draft EXCEPT ![agent[a].on] = NoDraft]
          /\ Takes("fail")
    /\ Unlocks(a, NoOp)
    /\ UNCHANGED <<repo, row, desk, tree, Panel, retention, lost>>

\* materialize: the desk is emptied and filled with the draft's tip, under the lock.
MaterializeDraft(d) ==
    /\ lock = "free" /\ draft[d].state = "open"
    /\ desk' = [desk EXCEPT ![d] = "same"]
    /\ UNCHANGED <<repo, row, draft, tree, lock, agent, Panel, retention, lost, storeLeft>>

\* The agent works on its desk; a retry of its job starts with none.
Edit(d) ==
    /\ desk[d] # "gone" /\ desk' = [desk EXCEPT ![d] = "edited"]
    /\ UNCHANGED <<repo, row, draft, tree, lock, agent, Panel, retention, lost, storeLeft>>

LoseDesk(d) ==
    /\ desk[d] # "gone" /\ desk' = [desk EXCEPT ![d] = "gone"]
    /\ UNCHANGED <<repo, row, draft, tree, lock, agent, Panel, retention, lost, storeLeft>>

\* The marker that makes a discard resumable, and the teardown.
BeginDiscard(a, d) ==
    /\ Begin(a, "discard", "teardown", d, 0) /\ Takes("discard")
    /\ draft[d].state \in {"open", "discarding"}
    /\ draft' = [draft EXCEPT ![d].state = "discarding"]
    /\ UNCHANGED <<repo, row, desk, tree, Panel, retention, lost>>

Teardown(a) ==
    /\ AgentAt(a, "discard", "teardown")
    /\ \/ draft' = [draft EXCEPT ![agent[a].on] = NoDraft] /\ UNCHANGED storeLeft
       \/ Takes("fail") /\ UNCHANGED draft
    /\ Unlocks(a, NoOp)
    /\ UNCHANGED <<repo, row, desk, tree, Panel, retention, lost>>

-----------------------------------------------------------------------------
(* Versions *)

\* prepareDraft, then mirrorOut and commitDraft: a commit only if the desk differs.
BeginSave(a, d) ==
    /\ desk[d] # "gone" /\ draft[d].state = "open"
    /\ Takes("save")
    /\ IF desk[d] = "edited"
       THEN /\ repo' = [repo EXCEPT !.commits = @ + 1]
            /\ draft' = [draft EXCEPT ![d].tip = repo.commits + 1]
            /\ Begin(a, "save", "mint", d, 0)
       ELSE /\ UNCHANGED <<repo, draft>>
            /\ Begin(a, "save", "recall", d, 0)
    /\ desk' = [desk EXCEPT ![d] = "same"]
    /\ UNCHANGED <<row, tree, Panel, retention, lost>>

\* Faulty: a save that committed nothing has no version yet.
RecallNothing(a) ==
    /\ AgentAt(a, "save", "recall")
    /\ Moves(a, "mint")
    /\ UNCHANGED <<repo, row, draft, desk, tree, Panel, retention, lost, storeLeft>>

\* Nothing to commit: the version that the tip has, or the crash window of an earlier save.
Recall(a) ==
    /\ AgentAt(a, "save", "recall")
    /\ LET known == IdsOf(draft[agent[a].on].tip) IN
       IF known = {} THEN Moves(a, "mint")
       ELSE \E v \in known : Unlocks(a, [agent[a] EXCEPT !.pc = "tree", !.version = v])
    /\ UNCHANGED <<repo, row, draft, desk, tree, Panel, retention, lost, storeLeft>>

\* mintVersion; it may fail, and a later save finds the commit without its version.
Mint(a) ==
    /\ AgentAt(a, "save", "mint")
    /\ LET v == repo.minted + 1
           c == draft[agent[a].on].tip
       IN \/ /\ repo' = [repo EXCEPT !.minted = v,
                                     !.ids = [i \in VersionIds \cup {v} |-> IF i = v THEN c ELSE @[i]]]
             /\ Unlocks(a, [agent[a] EXCEPT !.pc = "tree", !.version = v])
             /\ UNCHANGED storeLeft
          \/ Unlocks(a, NoOp) /\ Takes("fail") /\ UNCHANGED repo
    /\ UNCHANGED <<row, draft, desk, tree, Panel, retention, lost>>

\* The target is served before current moves, whatever the CAS will say.
BeginPublish(a, v, expected) ==
    /\ Begin(a, "publish", "cas", expected, v) /\ Takes("publish")
    /\ repo.state = "whole" /\ {v, expected} \subseteq VersionIds
    /\ tree' = [tree EXCEPT !.dirs = @ \cup {v}]
    /\ UNCHANGED <<repo, row, draft, desk, Panel, retention, lost>>

\* update-ref from the commit expected; then the link, which may stay stale.
Publish(a) ==
    /\ AgentAt(a, "publish", "cas")
    /\ IF repo.current = repo.ids[agent[a].on]
       THEN /\ repo' = [repo EXCEPT !.current = repo.ids[agent[a].version]]
            /\ \/ tree' = [tree EXCEPT !.link = agent[a].version] /\ UNCHANGED storeLeft
               \/ Takes("fail") /\ UNCHANGED tree
            /\ Moves(a, "prune")
       ELSE Unlocks(a, NoOp) /\ UNCHANGED <<repo, tree, storeLeft>>
    /\ UNCHANGED <<row, draft, desk, Panel, retention, lost>>

-----------------------------------------------------------------------------
(* The published tree *)

\* Only init moves the link here, and only while the store still has its version current.
Installs(op, v) == op = "init" /\ CurrentId = v

\* publishVersionTree, under the lock again: serve the version, and for init the link.
ServeTree(a) ==
    /\ agent[a].pc = "tree" /\ lock = "free"
    /\ LET v == agent[a].version IN
       IF repo.state = "whole" /\ v \in VersionIds
       THEN /\ tree' = [dirs |-> tree.dirs \cup {v},
                        link |-> IF Installs(agent[a].op, v) THEN v ELSE tree.link]
            /\ lock' = a /\ agent' = [agent EXCEPT ![a].pc = "prune"]
       ELSE agent' = [agent EXCEPT ![a] = NoOp] /\ UNCHANGED <<tree, lock>>
    /\ UNCHANGED <<repo, row, draft, desk, Panel, retention, lost, storeLeft>>

\* Faulty: the prune reads the live launches without the retention lock.
MayPruneAlways == TRUE

\* GET_LOCK with no wait: a busy lock skips the prune.
MayPrune == retention = "free"

Newest(S) == {v \in S : Cardinality({w \in S : w > v}) < KeepVersions}
Doomed == tree.dirs \ (Newest(tree.dirs) \cup {tree.link, approved} \cup launched)

\* pruneQuietly reads what must stay ...
ReadPinned(a) ==
    /\ agent[a].pc = "prune"
    /\ IF MayPrune
       THEN /\ agent' = [agent EXCEPT ![a].pc = "rm", ![a].stale = Doomed]
            /\ retention' = IF retention = "free" THEN a ELSE retention
            /\ UNCHANGED lock
       ELSE Unlocks(a, NoOp) /\ UNCHANGED retention
    /\ UNCHANGED <<repo, row, draft, desk, tree, Panel, lost, storeLeft>>

\* ... and removes the rest.
RemoveDoomed(a) ==
    /\ agent[a].pc = "rm"
    /\ tree' = [tree EXCEPT !.dirs = @ \ agent[a].stale]
    /\ retention' = IF retention = a THEN "free" ELSE retention
    /\ Unlocks(a, NoOp)
    /\ UNCHANGED <<repo, row, draft, desk, Panel, lost, storeLeft>>

-----------------------------------------------------------------------------
(* The panel, under the retention lock *)

WebStep(pc) == panel' = [panel EXCEPT !.pc = pc]
WebEnds     == panel' = NoRequest /\ retention' = "free"

\* A launch or an approval resolves its version; a deletion revokes the launches first.
Ask(op) ==
    /\ panel = NoRequest /\ retention = "free" /\ Takes("web")
    /\ \/ /\ op \in {"launch", "approve"} /\ repo.state = "whole"
          /\ panel' = [op |-> op, pc |-> "serve",
                       version |-> IF op = "launch" /\ approved # 0 THEN approved ELSE CurrentId]
          /\ UNCHANGED launched
       \/ /\ op = "delete" /\ repo.artifact > 0
          /\ panel' = [NoRequest EXCEPT !.op = op, !.pc = "remove"]
          /\ launched' = {}
    /\ retention' = "web"
    /\ UNCHANGED <<repo, row, draft, desk, tree, lock, agent, approved, lost>>

\* ensureServed; a version the store does not have ends the request, and an approval of it.
EnsureServed ==
    /\ panel.pc = "serve" /\ lock = "free"
    /\ IF repo.state = "whole" /\ panel.version \in VersionIds
       THEN /\ tree' = [tree EXCEPT !.dirs = @ \cup {panel.version}]
            /\ WebStep("commit") /\ UNCHANGED <<retention, approved>>
       ELSE /\ WebEnds /\ UNCHANGED tree
            /\ approved' = IF approved = panel.version THEN 0 ELSE approved
    /\ UNCHANGED <<repo, row, draft, desk, lock, agent, launched, lost, storeLeft>>

\* create_launch, or the row of the approval.
CommitLaunch ==
    /\ panel.pc = "commit"
    /\ IF panel.op = "launch"
       THEN launched' = launched \cup {panel.version} /\ UNCHANGED approved
       ELSE approved' = panel.version /\ UNCHANGED launched
    /\ WebEnds
    /\ UNCHANGED <<repo, row, draft, desk, tree, lock, agent, lost, storeLeft>>

LaunchEnds(v) ==
    /\ v \in launched /\ launched' = launched \ {v}
    /\ UNCHANGED <<repo, row, draft, desk, tree, lock, agent, panel, approved, retention, lost, storeLeft>>

Erased == [repo EXCEPT !.state = "none", !.ids = NoIds, !.current = 0]

\* remove: the published tree first ...
RemoveTree ==
    /\ panel.pc = "remove" /\ lock = "free"
    /\ tree' = Bare /\ lock' = "web"
    /\ WebStep("store")
    /\ UNCHANGED <<repo, row, draft, desk, agent, launched, approved, retention, lost, storeLeft>>

\* ... then the store, with its drafts.
RemoveStore ==
    /\ panel.pc = "store"
    /\ repo' = Erased /\ draft' = [d \in Drafts |-> NoDraft]
    /\ lock' = "free"
    /\ WebStep("row")
    /\ UNCHANGED <<row, desk, tree, agent, launched, approved, retention, lost, storeLeft>>

\* The row, and the approvals with it.
DeleteArtifactRow ==
    /\ panel.pc = "row"
    /\ row' = 0 /\ approved' = 0
    /\ WebEnds
    /\ UNCHANGED <<repo, draft, desk, tree, lock, agent, launched, lost, storeLeft>>

\* The web process dies: its connection frees the lock; a deletion it sent goes on.
WebDies ==
    /\ panel.pc \notin {"done", "store"} /\ Takes("crash")
    /\ WebEnds
    /\ lost' = (lost \/ panel.pc = "remove")
    /\ UNCHANGED <<repo, row, draft, desk, tree, lock, agent, launched, approved>>

\* Such a deletion gets the lock late, or waits in vain.
LateRemoval ==
    /\ lost /\ lost' = FALSE
    /\ \/ /\ lock = "free"
          /\ tree' = Bare /\ repo' = Erased /\ draft' = [d \in Drafts |-> NoDraft]
       \/ lock # "free" /\ UNCHANGED <<tree, repo, draft>>
    /\ UNCHANGED <<row, desk, lock, agent, Panel, retention, storeLeft>>

-----------------------------------------------------------------------------
(* Crash and restart of the toolbox *)

\* startupSweep: a lock goes when it was not refreshed for 300 s, incomplete drafts always; a
\* lock younger than that is left where its holder died.
ToolboxRestarts ==
    /\ Takes("crash")
    /\ agent' = [a \in Agents |-> NoOp]
    /\ lock' \in IF lock = "free" THEN {"free"} ELSE {"free", "dead"}
    /\ draft' = Reconciled
    /\ desk' \in {desk} \cup {[desk EXCEPT ![d] = "edited"] : d \in {d \in Drafts : desk[d] = "same"}}
    /\ lost' = FALSE
    /\ IF panel.pc \in {"serve", "remove", "store"} THEN WebEnds
       ELSE retention' = (IF retention = "web" THEN "web" ELSE "free") /\ UNCHANGED panel
    /\ UNCHANGED <<repo, row, tree, launched, approved>>

StoreNext ==
    \/ \E a \in Agents :
         \/ BeginInit(a) \/ Import(a) \/ AskAuth(a) \/ ApplyAuth(a) \/ RecordBase(a) \/ Teardown(a) \/ Recall(a) \/ Mint(a)
         \/ Publish(a) \/ ServeTree(a) \/ ReadPinned(a) \/ RemoveDoomed(a)
         \/ \E d \in Drafts : BeginSave(a, d) \/ BeginDiscard(a, d) \/ \E v \in VersionIds : BeginDraft(a, d, v)
         \/ \E v, expected \in VersionIds : BeginPublish(a, v, expected)
    \/ \E d \in Drafts : MaterializeDraft(d) \/ Edit(d) \/ LoseDesk(d)
    \/ \E op \in {"launch", "approve", "delete"} : Ask(op)
    \/ EnsureServed \/ CommitLaunch \/ RemoveTree \/ RemoveStore \/ DeleteArtifactRow \/ WebDies \/ LateRemoval
    \/ \E v \in launched : LaunchEnds(v)
    \/ ToolboxRestarts

StoreSpec == StoreInit /\ [][StoreNext]_storeVars

-----------------------------------------------------------------------------
(* Properties *)

\* What a live launch serves stays served: as long as the store has the version that a launch
\* resolved, no prune, deletion or crash before it or during it takes the version from the tree
\* (service.js:281-288, launches.py:90-96).
LaunchIsServed == launched \cap VersionIds \subseteq tree.dirs

\* A commit has one version, whatever died between the commit and its version and however
\* often the save is tried again; two would make every read of current fail
\* (git-backend.js:221-231, 700-714).
OneIdPerCommit == \A i, j \in VersionIds : repo.ids[i] = repo.ids[j] => i = j

=============================================================================
