------------------------------ MODULE Miniapps ------------------------------
(***************************************************************************)
(* One mini-app in one agent_view: its members, the approval of a version, *)
(* launches, and the deletion of a member or of the app, each a request of *)
(* the panel under the artifact's retention lock (modules/miniapps/src,    *)
(* versioned_artifacts/src/admin.py).  The store of versions is the        *)
(* toolbox's; what publishes to it is external.                            *)
(***************************************************************************)
EXTENDS Integers, FiniteSets

CONSTANTS
    Panelists,    \* users with a request in flight; who has edit or remove is not told apart
    AppBudgets    \* bounds on publications, member changes, requests and failures

ASSUME AppBudgetsAssumption == AppBudgets \subseteq [publish : Nat, request : Nat, fail : Nat]

VARIABLES
    store,       \* the toolbox's: whether the artifact is there, which one, its current version,
                 \* whether it has its versioned_artifact row, and a deletion still on its way there
    approved,    \* miniapp_activation: the content approved, a version of an artifact
    members,     \* miniapp_member
    live,        \* live launches: user and content
    panel,       \* each user's request: what it does, its step, the content it resolved
    appLeft

appVars == <<store, approved, members, live, panel, appLeft>>

None == [artifact |-> 0, version |-> 0]
NoPanel == [op |-> "none", pc |-> "done", content |-> None]

AppInit ==
    /\ store = [there |-> TRUE, artifact |-> 1, version |-> 1, row |-> TRUE, late |-> FALSE]
    /\ approved = None
    /\ members = Panelists
    /\ live = {}
    /\ panel = [u \in Panelists |-> NoPanel]
    /\ appLeft \in AppBudgets

Costs(k) == appLeft[k] > 0 /\ appLeft' = [appLeft EXCEPT ![k] = @ - 1]
Doing(u, op, pc) == panel[u].op = op /\ panel[u].pc = pc
Goes(u, pc) == panel' = [panel EXCEPT ![u].pc = pc]
Ends(u) == panel' = [panel EXCEPT ![u] = NoPanel]

Current == [artifact |-> store.artifact, version |-> store.version]
Resolves(content) == store.there /\ content.artifact = store.artifact

\* An agent publishes a version, or makes a new artifact under the code of one that is deleted
\* with its row.
Publish ==
    /\ Costs("publish")
    /\ \/ store.there /\ store' = [store EXCEPT !.version = @ + 1]
       \/ /\ ~store.there /\ ~store.row
          /\ store' = [store EXCEPT !.there = TRUE, !.artifact = @ + 1, !.version = 1, !.row = TRUE]
    /\ UNCHANGED <<approved, members, live, panel>>

-----------------------------------------------------------------------------
(* A request: the rights of its user, then the artifact's retention lock *)

Holding == {"resolve", "write", "revoke", "store", "row", "event"}

\* Faulty: requests on one artifact do not wait for each other.
NothingRetained == TRUE

Free == \A u \in Panelists : panel[u].pc \notin Holding

\* The route's own rights check; what it allowed is done later.
Ask(u, op) ==
    /\ Doing(u, "none", "done") /\ Costs("request")
    /\ u \in members
    /\ panel' = [panel EXCEPT ![u] = [NoPanel EXCEPT !.op = op, !.pc = "lock"]]
    /\ UNCHANGED <<store, approved, members, live>>

FirstStep(op) == CASE op = "delete" -> "revoke" [] op = "expel" -> "write" [] OTHER -> "resolve"

\* GET_LOCK, or RetentionBusy after RETENTION_LOCK_WAIT_SECONDS.
TakeRetention(u) ==
    /\ panel[u].pc = "lock" /\ panel[u].op \notin {"admit", "unapprove"}
    /\ \/ Free /\ Goes(u, FirstStep(panel[u].op))
       \/ ~Free /\ Ends(u)
    /\ UNCHANGED <<store, approved, members, live, appLeft>>

\* The toolbox resolves current, or for a launch the approved version; an approval whose
\* content is gone is dropped.
ResolveVersion(u) ==
    /\ panel[u].pc = "resolve"
    /\ LET op == panel[u].op
           content == IF op = "launch" THEN approved ELSE Current IN
       IF content # None /\ Resolves(content)
       THEN /\ panel' = [panel EXCEPT ![u].pc = "write", ![u].content = content]
            /\ UNCHANGED approved
       ELSE /\ approved' = IF op = "launch" THEN None ELSE approved
            /\ Ends(u)
    /\ UNCHANGED <<store, members, live, appLeft>>

\* APPROVE_SQL and its audit row.
Approve(u) ==
    /\ Doing(u, "approve", "write")
    /\ approved' = panel[u].content
    /\ Ends(u)
    /\ UNCHANGED <<store, members, live, appLeft>>

\* create_launch, which asks for the rights again: execute needs the approval, preview edit.
Launch(u) ==
    /\ panel[u].op \in {"launch", "preview"} /\ panel[u].pc = "write"
    /\ live' = IF u \in members /\ (panel[u].op = "launch" => approved # None)
               THEN live \cup {[user |-> u, content |-> panel[u].content]} ELSE live
    /\ Ends(u)
    /\ UNCHANGED <<store, approved, members, appLeft>>

\* revoke takes the row of the approval only, and leaves the launches to their checks.
RevokeApproval(u) ==
    /\ Doing(u, "unapprove", "lock")
    /\ approved' = None
    /\ Ends(u)
    /\ UNCHANGED <<store, members, live, appLeft>>

\* put_member by a user who has edit; the row it refers to may have gone.
PutMember(u, v) ==
    /\ Doing(u, "admit", "lock")
    /\ members' = IF store.row THEN members \cup {v} ELSE members
    /\ Ends(u)
    /\ UNCHANGED <<store, approved, live, appLeft>>

\* delete_member ends every live launch of the app in the same transaction.
DeleteMember(u, v) ==
    /\ Doing(u, "expel", "write")
    /\ members' = members \ {v}
    /\ live' = IF v \in members THEN {} ELSE live
    /\ Ends(u)
    /\ UNCHANGED <<store, approved, appLeft>>

\* delete_artifact: the launches are revoked and committed first ...
RevokeForArtifact(u) ==
    /\ Doing(u, "delete", "revoke")
    /\ live' = {}
    /\ Goes(u, "store")
    /\ UNCHANGED <<store, approved, members, appLeft>>

\* ... then the store: gone, gone before, or the request fails, when the toolbox refuses or
\* when it is late and goes on alone ...
DeleteFromStore(u) ==
    /\ Doing(u, "delete", "store")
    /\ \/ /\ store' = [store EXCEPT !.there = FALSE]
          /\ Goes(u, "row")
          /\ UNCHANGED appLeft
       \/ /\ Costs("fail")
          /\ Ends(u)
          /\ store' \in {store, [store EXCEPT !.late = TRUE]}
    /\ UNCHANGED <<approved, members, live>>

LateDeletion ==
    /\ store.late
    /\ store' \in {[store EXCEPT !.late = FALSE, !.there = FALSE], [store EXCEPT !.late = FALSE]}
    /\ UNCHANGED <<approved, members, live, panel, appLeft>>

\* ... then the row, with its members by the foreign key.
DeleteArtifactRow(u) ==
    /\ Doing(u, "delete", "row")
    /\ store' = [store EXCEPT !.row = FALSE]
    /\ members' = {}
    /\ Goes(u, "event")
    /\ UNCHANGED <<approved, live, appLeft>>

\* artifact_delete_after drops the approvals; an observer that fails leaves them.
DropActivations(u) ==
    /\ Doing(u, "delete", "event")
    /\ \/ approved' = None /\ UNCHANGED appLeft
       \/ Costs("fail") /\ UNCHANGED approved
    /\ Ends(u)
    /\ UNCHANGED <<store, members, live>>

\* The web process dies: its connection's lock and its request go; what it sent does not.
WebDies(u) ==
    /\ panel[u].pc \in Holding /\ Costs("fail")
    /\ Ends(u)
    /\ store' \in {store, [store EXCEPT !.late = @ \/ panel[u].pc = "store"]}
    /\ UNCHANGED <<approved, members, live>>

\* A user becomes a member of the new artifact: its creator.
CreatorJoins(u) ==
    /\ store.row /\ members = {}
    /\ members' = {u}
    /\ UNCHANGED <<store, approved, live, panel, appLeft>>

-----------------------------------------------------------------------------
AppNext ==
    \/ Publish \/ LateDeletion
    \/ \E u \in Panelists :
         \/ \E op \in {"approve", "preview", "launch", "unapprove", "admit", "expel", "delete"} : Ask(u, op)
         \/ TakeRetention(u) \/ ResolveVersion(u) \/ Approve(u) \/ Launch(u) \/ RevokeApproval(u)
         \/ RevokeForArtifact(u) \/ DeleteFromStore(u)
         \/ DeleteArtifactRow(u) \/ DropActivations(u) \/ WebDies(u)
         \/ CreatorJoins(u)
         \/ \E v \in Panelists : PutMember(u, v) \/ DeleteMember(u, v)

AppSpec == AppInit /\ [][AppNext]_appVars

-----------------------------------------------------------------------------
(* Properties *)

\* No launch outlives the membership that allowed it or the artifact it serves, also when it
\* was asked for before the member or the artifact was removed; a deletion that ended half way
\* leaves the row, and the deletion that removes it revokes again (settings.py:111-112,
\* admin.py:72-73).
LaunchOutlivesNothing ==
    \A l \in live :
        /\ l.user \in members
        /\ l.content.artifact = store.artifact /\ (store.there \/ store.row)

=============================================================================
