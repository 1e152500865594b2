------------------------------- MODULE Access -------------------------------
(***************************************************************************)
(* The panel's users, roles, grants, sessions and launches: what a web     *)
(* request proves, and the transactions it or an operator's command then   *)
(* makes under row locks (framework/access, cli/access.py, web/api.py,     *)
(* web/admin_api.py, web/server.py).  One workspace with one agent_view;   *)
(* the grants are artifact.launch in either and one panel operation.       *)
(***************************************************************************)
EXTENDS Integers, Sequences, SequencesExt

CONSTANTS
    Users,          \* user ids; the first is the admin of a fresh install
    CustomRoles,    \* role codes that are not built in
    MaxLaunches,    \* web/launch/max_concurrent
    AccessBudgets   \* bounds on changes, sign-ins and launches

ASSUME LaunchesAssumption == MaxLaunches \in Nat

Admin == "admin"
Command == 0          \* actor None: a command on the host
Scopes == {"workspace", "view", "panel"}
Codes == CustomRoles \cup {Admin}

VARIABLES
    user,        \* each row of `user`: there, role, active, password version
    roles,       \* the role codes there are
    grants,      \* <<role, scope>>
    session,     \* the live sessions of each user: password and role they began under
    launch,      \* the live launches of each user, oldest first: whether redeemed
    web,         \* each user's request in flight: its step and what it read
    accessLeft

accessVars == <<user, roles, grants, session, launch, web, accessLeft>>

NoRequest == [pc |-> "none", role |-> Admin, password |-> 0, panel |-> FALSE]
First == CHOOSE u \in Users : \A v \in Users : u <= v

AccessInit ==
    /\ user = [u \in Users |-> [there |-> u = First, role |-> Admin, active |-> u = First,
                                password |-> 0]]
    /\ roles = {Admin}
    /\ grants = {}
    /\ session = [u \in Users |-> {}]
    /\ launch = [u \in Users |-> <<>>]
    /\ web = [u \in Users |-> NoRequest]
    /\ accessLeft \in AccessBudgets

Spend(k) == accessLeft[k] > 0 /\ accessLeft' = [accessLeft EXCEPT ![k] = @ - 1]
Request(u, pc) == web' = [web EXCEPT ![u].pc = pc]
Done(u) == IF u = Command THEN web ELSE [web EXCEPT ![u] = NoRequest]

\* Faulty: authenticate reads the row without its lock.
LockedByLaunch(u) == web[u].pc = "launching"

\* The row of u is locked by its own sign-in or launch, from its read to its commit.
Locked(u) == web[u].pc \in {"signing", "launching"}
UnlockedAll(S) == \A u \in S : ~Locked(u)
WithRole(r) == {u \in Users : user[u].there /\ user[u].role = r}

\* can_reach and has_operation of the one view, and held_admin.
MayLaunch(r) == r = Admin \/ \E s \in {"workspace", "view"} : <<r, s>> \in grants
HoldsPanel(r) == r = Admin \/ <<r, "panel">> \in grants

-----------------------------------------------------------------------------
(* Sign-in, sessions and requests *)

\* authenticate_in(lock=True): the right password of an active user.
SignInVerifies(u) ==
    /\ web[u].pc = "none" /\ Spend("signin")
    /\ user[u].there /\ user[u].active
    /\ web' = [web EXCEPT ![u] = [pc |-> "signing", role |-> user[u].role,
                                  password |-> user[u].password, panel |-> FALSE]]
    /\ UNCHANGED <<user, roles, grants, session, launch>>

\* The session is inserted for the user that was read, and the transaction ends.
SignInInserts(u) ==
    /\ web[u].pc = "signing"
    /\ session' = [session EXCEPT ![u] = @ \cup {[password |-> web[u].password, role |-> web[u].role]}]
    /\ web' = Done(u)
    /\ UNCHANGED <<user, roles, grants, launch, accessLeft>>

\* lookup_session of the cookie, then the route's acl.  What was read here is acted on later.
Identify(u) ==
    /\ web[u].pc = "none" /\ session[u] # {} /\ user[u].active
    /\ web' = [web EXCEPT ![u] = [pc |-> "in", role |-> user[u].role, password |-> 0,
                                  panel |-> HoldsPanel(user[u].role)]]
    /\ UNCHANGED <<user, roles, grants, session, launch, accessLeft>>

Logout(u) ==
    /\ web[u].pc = "in" /\ session[u] # {}
    /\ \E s \in session[u] : session' = [session EXCEPT ![u] = @ \ {s}]
    /\ web' = Done(u)
    /\ UNCHANGED <<user, roles, grants, launch, accessLeft>>

-----------------------------------------------------------------------------
(* Changes to users and roles, by a request of the panel or by a command *)

\* The route's acl let the request in; then, under the lock, _check_actor.
ActorStands(a) ==
    IF a = Command THEN TRUE
    ELSE /\ web[a].pc = "in" /\ web[a].panel
         /\ user[a].there /\ user[a].active /\ user[a].role = web[a].role

ByAdmin(a) == IF a = Command THEN TRUE ELSE web[a].role = Admin

CreateUser(a, u, r) ==
    /\ ActorStands(a) /\ Spend("change")
    /\ ~user[u].there /\ r \in roles
    /\ r = Admin => ByAdmin(a)
    /\ user' = [user EXCEPT ![u] = [there |-> TRUE, role |-> r, active |-> TRUE, password |-> 0]]
    /\ web' = Done(a)
    /\ UNCHANGED <<roles, grants, session, launch>>

\* A change of role, of activity or of password; only the first has a role.
Changes == [kind : {"role"}, role : Codes]
             \cup [kind : {"activate", "deactivate", "password"}, role : {Admin}]

Changed(row, c) ==
    CASE c.kind = "role" -> [row EXCEPT !.role = c.role]
      [] c.kind = "password" -> [row EXCEPT !.password = @ + 1]
      [] OTHER -> [row EXCEPT !.active = c.kind = "activate"]

\* update_user: a change to an admin, or to the admin role, is an admin's.
UpdateUser(a, u, c) ==
    /\ ActorStands(a) /\ Spend("change")
    /\ user[u].there /\ ~Locked(u)
    /\ c.kind = "role" => c.role \in roles
    /\ user[u].role = Admin \/ (c.kind = "role" /\ c.role = Admin) => ByAdmin(a)
    /\ user' = [user EXCEPT ![u] = Changed(@, c)]
    /\ session' = IF c.kind # "activate" THEN [session EXCEPT ![u] = {}] ELSE session
    /\ launch' = IF c.kind \in {"role", "deactivate"} THEN [launch EXCEPT ![u] = <<>>] ELSE launch
    /\ web' = Done(a)
    /\ UNCHANGED <<roles, grants>>

CreateRole(a, r) ==
    /\ ActorStands(a) /\ Spend("change")
    /\ r \notin roles
    /\ roles' = roles \cup {r}
    /\ web' = Done(a)
    /\ UNCHANGED <<user, grants, session, launch>>

\* Refused for a built-in role and for one a user has; its grants go with it.
DeleteRole(a, r) ==
    /\ ActorStands(a) /\ Spend("change")
    /\ r \in roles \cap CustomRoles /\ WithRole(r) = {}
    /\ roles' = roles \ {r}
    /\ grants' = {g \in grants : g[1] # r}
    /\ web' = Done(a)
    /\ UNCHANGED <<user, session, launch>>

-----------------------------------------------------------------------------
(* Grants *)

\* _revoke_role_launches in the scope of a grant that went; the panel scope has none.
WithoutRoleLaunches(r, scope) ==
    [u \in Users |-> IF scope # "panel" /\ user[u].there /\ user[u].role = r THEN <<>> ELSE launch[u]]

\* grant:add, under the grant lock.
AddGrant(r, scope) ==
    /\ Spend("change")
    /\ r \in roles /\ <<r, scope>> \notin grants
    /\ grants' = grants \cup {<<r, scope>>}
    /\ UNCHANGED <<user, roles, session, launch, web>>

\* grant:remove: the users of the role are locked, then the grant and its launches go.
RemoveGrant(r, scope) ==
    /\ Spend("change")
    /\ <<r, scope>> \in grants
    /\ UnlockedAll(WithRole(r))
    /\ grants' = grants \ {<<r, scope>>}
    /\ launch' = WithoutRoleLaunches(r, scope)
    /\ UNCHANGED <<user, roles, session, web>>

\* set_role_grants of one scope to {} or to its one name: a view inherits its workspace's
\* grants, and a panel grant of a non-admin stays within what its own role holds.
SetRoleGrants(a, r, scope, want) ==
    LET g == <<r, scope>>
        inherited == scope = "view" /\ <<r, "workspace">> \in grants
        adds == want /\ g \notin grants /\ ~inherited
        drops == ~want /\ g \in grants /\ ~inherited
    IN
    /\ ActorStands(a) /\ Spend("change")
    /\ r \in roles /\ UnlockedAll(WithRole(r))
    /\ scope = "panel" /\ (adds \/ drops) /\ ~ByAdmin(a) => HoldsPanel(web[a].role)
    /\ grants' = IF adds THEN grants \cup {g} ELSE IF drops THEN grants \ {g} ELSE grants
    /\ launch' = IF drops THEN WithoutRoleLaunches(r, scope) ELSE launch
    /\ web' = Done(a)
    /\ UNCHANGED <<user, roles, session>>

-----------------------------------------------------------------------------
(* Launches *)

\* create_launch: the user's row is locked and its role and grants are read again.
LaunchLocks(u) ==
    /\ web[u].pc = "in" /\ Spend("launch")
    /\ IF user[u].active /\ MayLaunch(user[u].role) THEN Request(u, "launching")
       ELSE web' = Done(u)
    /\ UNCHANGED <<user, roles, grants, session, launch>>

\* The launch is inserted, and the oldest above the cap are revoked with it.
LaunchInserts(u) ==
    /\ web[u].pc = "launching"
    /\ LET all == Append(launch[u], FALSE)
           evicted == IF Len(all) > MaxLaunches THEN Len(all) - MaxLaunches ELSE 0 IN
       launch' = [launch EXCEPT ![u] = SubSeq(all, evicted + 1, Len(all))]
    /\ web' = Done(u)
    /\ UNCHANGED <<user, roles, grants, session, accessLeft>>

\* redeem: one UPDATE that takes the code once, of a live launch of an active user.
Redeem(u, i) ==
    /\ ~launch[u][i] /\ user[u].active
    /\ launch' = [launch EXCEPT ![u][i] = TRUE]
    /\ UNCHANGED <<user, roles, grants, session, web, accessLeft>>

\* revoke_launch of the user's own launch, or expires_at passed.
LaunchEnds(u, i) ==
    /\ launch' = [launch EXCEPT ![u] = RemoveAt(@, i)]
    /\ UNCHANGED <<user, roles, grants, session, web, accessLeft>>

-----------------------------------------------------------------------------
AccessNext ==
    \/ \E u \in Users :
         \/ SignInVerifies(u) \/ SignInInserts(u) \/ Identify(u) \/ Logout(u)
         \/ LaunchLocks(u) \/ LaunchInserts(u)
         \/ \E i \in DOMAIN launch[u] : Redeem(u, i) \/ LaunchEnds(u, i)
    \/ \E a \in Users \cup {Command} :
         \/ \E u \in Users :
              \/ \E r \in Codes : CreateUser(a, u, r)
              \/ \E c \in Changes : UpdateUser(a, u, c)
         \/ \E r \in Codes :
              \/ CreateRole(a, r) \/ DeleteRole(a, r)
              \/ \E scope \in Scopes, want \in BOOLEAN : SetRoleGrants(a, r, scope, want)
    \/ \E r \in Codes, scope \in Scopes : AddGrant(r, scope) \/ RemoveGrant(r, scope)

AccessSpec == AccessInit /\ [][AccessNext]_accessVars

-----------------------------------------------------------------------------
(* Properties *)

\* Access follows the user: a live session began under the password and the role its user has
\* now, and a live launch is of an active user whose role may launch there now.  A sign-in or a
\* launch that overlaps a change of either does not outlive it (accounts.py:4-8).
AccessFollowsUser ==
    \A u \in Users :
        /\ \A s \in session[u] :
              user[u].active /\ s.password = user[u].password /\ s.role = user[u].role
        /\ launch[u] # <<>> => user[u].active /\ MayLaunch(user[u].role)
=============================================================================
