---------------------------- MODULE Panel_proofs ----------------------------
(***************************************************************************)
(* Proofs about what the panel gives away, for any users, mails, requests, *)
(* workers, apps, tokens, hosts and bounds: access follows the user        *)
(* (Access), no mail is lost (MailPolling), a sign-in keeps its HOME       *)
(* (WebLogin), launches are those of members and end with the artifact     *)
(* (Miniapps), who ends without a word leaves no token (Capability), the   *)
(* feedback of reviewers is queued (ReviewLane), and a hold of the request *)
(* limiter lasts (RateLimit). The seven share no state, and each part has  *)
(* an invariant of its own.                                                *)
(***************************************************************************)
EXTENDS Access, MailPolling, WebLogin, Miniapps, Capability, ReviewLane, RateLimit,
        FiniteSetTheorems, WellFoundedInduction, TLAPS

-----------------------------------------------------------------------------
(* Access: what a user was given *)

Rows == [there : BOOLEAN, role : Codes, active : BOOLEAN, password : Nat]

AccessTypeOK ==
    /\ user \in [Users -> Rows]
    /\ session \in [Users -> SUBSET [password : Nat, role : Codes]]
    /\ launch \in [Users -> Seq(BOOLEAN)]
    /\ web \in [Users -> [pc : {"none", "signing", "in", "launching"}, role : Codes,
                          password : Nat, panel : BOOLEAN]]

\* A row that is not there yet has nothing that hangs on it.
NothingBefore(u) ==
    ~user[u].there => session[u] = {} /\ launch[u] = <<>> /\ web[u].pc = "none"

\* What a sign-in or a launch has read under the lock is still so.
ReadsStand(u) ==
    /\ web[u].pc = "signing" =>
         user[u].active /\ web[u].role = user[u].role /\ web[u].password = user[u].password
    /\ web[u].pc = "launching" => user[u].active /\ MayLaunch(user[u].role)

\* AccessFollowsUser, of one user.
Follows(u) ==
    /\ \A s \in session[u] :
          user[u].active /\ s.password = user[u].password /\ s.role = user[u].role
    /\ launch[u] # <<>> => user[u].active /\ MayLaunch(user[u].role)

Stands(u) == NothingBefore(u) /\ ReadsStand(u) /\ Follows(u)

AccessInv == AccessTypeOK /\ \A u \in Users : Stands(u)

-----------------------------------------------------------------------------
(* Helpers *)

\* The end of a request leaves everyone else's, and at most takes a lock back.
LEMMA DoneKeeps ==
    ASSUME AccessTypeOK, NEW a \in Users \cup {Command}, web' = Done(a)
    PROVE  /\ web' \in [Users -> [pc : {"none", "signing", "in", "launching"}, role : Codes,
                                  password : Nat, panel : BOOLEAN]]
           /\ \A u \in Users : web'[u] = web[u] \/ web'[u].pc = "none"
<1>1. NoRequest \in [pc : {"none", "signing", "in", "launching"}, role : Codes,
                     password : Nat, panel : BOOLEAN] /\ NoRequest.pc = "none"
  BY DEF NoRequest, Codes
<1> HIDE DEF NoRequest
<1> QED
  BY <1>1 DEF AccessTypeOK, Done, Command

\* A user whose rows are as they were, whose request is as it was or over, and whose role may
\* launch if it could, stands as before.
LEMMA Untouched ==
    ASSUME NEW u \in Users, Stands(u),
           user'[u] = user[u], session'[u] = session[u],
           launch'[u] = launch[u] \/ launch'[u] = <<>>,
           web'[u] = web[u] \/ web'[u].pc = "none" \/ (web'[u].pc = "in" /\ user[u].there),
           MayLaunch(user[u].role) /\ (launch'[u] # <<>> \/ web'[u].pc = "launching")
             => MayLaunch(user[u].role)'
    PROVE  Stands(u)'
<1>1. NothingBefore(u)'
  BY DEF Stands, NothingBefore, Locked
<1>2. ReadsStand(u)'
  BY DEF Stands, ReadsStand
<1>3. Follows(u)'
  BY DEF Stands, Follows
<1> QED
  BY <1>1, <1>2, <1>3 DEF Stands

\* Grants that stay keep what they allow.
LEMMA GrantsGrow ==
    ASSUME NEW r, grants \subseteq grants', MayLaunch(r)
    PROVE  MayLaunch(r)'
BY DEF MayLaunch

-----------------------------------------------------------------------------
(* Initial states *)

LEMMA AccessInitInv == AccessInit => AccessInv
<1> SUFFICES ASSUME AccessInit PROVE AccessInv
  OBVIOUS
<1>1. AccessTypeOK
  BY DEF AccessInit, AccessTypeOK, Rows, Codes, NoRequest
<1>2. ASSUME NEW u \in Users PROVE Stands(u)
  BY DEF AccessInit, Stands, NothingBefore, ReadsStand, Follows, Locked, NoRequest
<1> QED
  BY <1>1, <1>2 DEF AccessInv

-----------------------------------------------------------------------------
(* Sign-in and sessions *)

LEMMA SignInVerifiesKeeps ==
    ASSUME AccessInv, NEW v \in Users, SignInVerifies(v) PROVE AccessInv'
<1>1. AccessTypeOK'
  BY DEF AccessInv, AccessTypeOK, SignInVerifies, Rows
<1>2. ASSUME NEW u \in Users, u # v PROVE Stands(u)'
  <2>1. web'[u] = web[u]
    BY <1>2 DEF AccessInv, AccessTypeOK, SignInVerifies
  <2> QED
    BY <2>1, Untouched, <1>2 DEF AccessInv, SignInVerifies, MayLaunch
<1>3. Stands(v)'
  <2>1. /\ web'[v].pc = "signing" /\ web'[v].role = user[v].role
        /\ web'[v].password = user[v].password
    BY DEF AccessInv, AccessTypeOK, SignInVerifies
  <2> QED
    BY <2>1 DEF AccessInv, SignInVerifies, Stands, NothingBefore, ReadsStand, Follows, Locked, MayLaunch
<1> QED
  BY <1>1, <1>2, <1>3 DEF AccessInv

LEMMA SignInInsertsKeeps ==
    ASSUME AccessInv, NEW v \in Users, SignInInserts(v) PROVE AccessInv'
<1> v \in Users \cup {Command} /\ web' = Done(v)
  BY DEF SignInInserts
<1>0. web' \in [Users -> [pc : {"none", "signing", "in", "launching"}, role : Codes,
                          password : Nat, panel : BOOLEAN]]
      /\ \A u \in Users : web'[u] = web[u] \/ web'[u].pc = "none"
  BY DoneKeeps DEF AccessInv
<1>1. AccessTypeOK'
  <2>1. [password |-> web[v].password, role |-> web[v].role] \in [password : Nat, role : Codes]
    BY DEF AccessInv, AccessTypeOK
  <2>2. session' \in [Users -> SUBSET [password : Nat, role : Codes]]
    BY <2>1 DEF AccessInv, AccessTypeOK, SignInInserts
  <2> QED
    BY <1>0, <2>2 DEF AccessInv, AccessTypeOK, SignInInserts
<1>2. ASSUME NEW u \in Users, u # v PROVE Stands(u)'
  BY <1>0, <1>2, Untouched DEF AccessInv, AccessTypeOK, SignInInserts, MayLaunch
<1>3. Stands(v)'
  <2>1. session'[v] = session[v] \cup {[password |-> web[v].password, role |-> web[v].role]}
    BY DEF AccessInv, AccessTypeOK, SignInInserts
  <2>2. UNCHANGED <<user, grants, launch>> /\ web[v].pc = "signing"
    BY DEF SignInInserts
  <2>3. Follows(v)'
    BY <2>1, <2>2 DEF AccessInv, Stands, ReadsStand, Follows, MayLaunch
  <2>4. NothingBefore(v)' /\ ReadsStand(v)'
    BY <2>2, <1>0 DEF AccessInv, Stands, NothingBefore, ReadsStand, Locked, MayLaunch
  <2> QED
    BY <2>3, <2>4 DEF Stands
<1> QED
  BY <1>1, <1>2, <1>3 DEF AccessInv

LEMMA IdentifyKeeps ==
    ASSUME AccessInv, NEW v \in Users, Identify(v) PROVE AccessInv'
<1>0. HoldsPanel(user[v].role) \in BOOLEAN
  BY DEF HoldsPanel
<1>1. AccessTypeOK'
  BY <1>0 DEF AccessInv, AccessTypeOK, Identify, Rows
<1>2. ASSUME NEW u \in Users PROVE Stands(u)'
  <2>1. web'[u] = web[u] \/ web'[u].pc = "in"
    BY DEF AccessInv, AccessTypeOK, Identify
  <2>2. user[u].there \/ web'[u] = web[u]
    BY DEF AccessInv, AccessTypeOK, Identify, Stands, NothingBefore
  <2> QED
    BY <2>1, <2>2, Untouched DEF AccessInv, Identify, MayLaunch
<1> QED
  BY <1>1, <1>2 DEF AccessInv

LEMMA LogoutKeeps ==
    ASSUME AccessInv, NEW v \in Users, Logout(v) PROVE AccessInv'
<1> v \in Users \cup {Command} /\ web' = Done(v)
  BY DEF Logout
<1>0. web' \in [Users -> [pc : {"none", "signing", "in", "launching"}, role : Codes,
                          password : Nat, panel : BOOLEAN]]
      /\ \A u \in Users : web'[u] = web[u] \/ web'[u].pc = "none"
  BY DoneKeeps DEF AccessInv
<1>1. AccessTypeOK'
  BY <1>0 DEF AccessInv, AccessTypeOK, Logout
<1>2. ASSUME NEW u \in Users PROVE Stands(u)'
  <2>1. session'[u] \subseteq session[u]
    BY DEF AccessInv, AccessTypeOK, Logout
  <2>2. UNCHANGED <<user, grants, launch>>
    BY DEF Logout
  <2> QED
    BY <2>1, <2>2, <1>0 DEF AccessInv, Stands, NothingBefore, ReadsStand, Follows, Locked, MayLaunch
<1> QED
  BY <1>1, <1>2 DEF AccessInv

-----------------------------------------------------------------------------
(* Changes to users, roles and grants *)

LEMMA CreateUserKeeps ==
    ASSUME AccessInv, NEW a \in Users \cup {Command}, NEW v \in Users, NEW r \in Codes, CreateUser(a, v, r)
    PROVE  AccessInv'
<1>0. web' \in [Users -> [pc : {"none", "signing", "in", "launching"}, role : Codes,
                          password : Nat, panel : BOOLEAN]]
      /\ \A u \in Users : web'[u] = web[u] \/ web'[u].pc = "none"
  BY DoneKeeps DEF AccessInv, CreateUser
<1>1. AccessTypeOK'
  BY <1>0 DEF AccessInv, AccessTypeOK, CreateUser, Rows
<1>2. ASSUME NEW u \in Users, u # v PROVE Stands(u)'
  BY <1>0, <1>2, Untouched DEF AccessInv, AccessTypeOK, CreateUser, MayLaunch
<1>3. Stands(v)'
  BY <1>0 DEF AccessInv, CreateUser, Stands, NothingBefore, ReadsStand, Follows, Locked
<1> QED
  BY <1>1, <1>2, <1>3 DEF AccessInv

\* What a change to a user makes of the row.
LEMMA ChangedRow ==
    ASSUME NEW entry \in Rows, NEW c \in Changes
    PROVE  /\ Changed(entry, c) \in Rows
           /\ Changed(entry, c).there = entry.there
           /\ c.kind # "role" => Changed(entry, c).role = entry.role
           /\ c.kind # "password" => Changed(entry, c).password = entry.password
           /\ c.kind \notin {"activate", "deactivate"} => Changed(entry, c).active = entry.active
           /\ c.kind = "activate" => Changed(entry, c).active
           /\ c.kind \in {"role", "activate", "deactivate", "password"}
<1>1. CASE c.kind = "role"
  BY <1>1 DEF Changed, Changes, Rows
<1>2. CASE c.kind = "password"
  BY <1>2 DEF Changed, Changes, Rows
<1>3. CASE c.kind \in {"activate", "deactivate"}
  BY <1>3 DEF Changed, Changes, Rows
<1> QED
  BY <1>1, <1>2, <1>3 DEF Changes

LEMMA UpdateUserKeeps ==
    ASSUME AccessInv, NEW a \in Users \cup {Command}, NEW v \in Users, NEW c \in Changes, UpdateUser(a, v, c)
    PROVE  AccessInv'
<1>0. web' \in [Users -> [pc : {"none", "signing", "in", "launching"}, role : Codes,
                          password : Nat, panel : BOOLEAN]]
      /\ \A u \in Users : web'[u] = web[u] \/ web'[u].pc = "none"
  BY DoneKeeps DEF AccessInv, UpdateUser
<1>a. user[v] \in Rows /\ user' = [user EXCEPT ![v] = Changed(user[v], c)]
  BY DEF AccessInv, AccessTypeOK, UpdateUser
<1>b. /\ Changed(user[v], c) \in Rows
      /\ Changed(user[v], c).there = user[v].there
      /\ c.kind # "role" => Changed(user[v], c).role = user[v].role
      /\ c.kind # "password" => Changed(user[v], c).password = user[v].password
      /\ c.kind \notin {"activate", "deactivate"} => Changed(user[v], c).active = user[v].active
      /\ c.kind = "activate" => Changed(user[v], c).active
      /\ c.kind \in {"role", "activate", "deactivate", "password"}
  BY <1>a, ChangedRow
<1>c. user'[v] = Changed(user[v], c)
  BY <1>a DEF AccessInv, AccessTypeOK
<1>1. AccessTypeOK'
  <2>1. user' \in [Users -> Rows]
    BY <1>a, <1>b DEF AccessInv, AccessTypeOK
  <2>2. <<>> \in Seq(BOOLEAN)
    OBVIOUS
  <2> QED
    BY <1>0, <2>1, <2>2 DEF AccessInv, AccessTypeOK, UpdateUser
<1>2. ASSUME NEW u \in Users, u # v PROVE Stands(u)'
  BY <1>0, <1>2, Untouched DEF AccessInv, AccessTypeOK, UpdateUser, MayLaunch
<1>3. Stands(v)'
  <2>1. session'[v] = IF c.kind # "activate" THEN {} ELSE session[v]
    BY DEF AccessInv, AccessTypeOK, UpdateUser
  <2>2. launch'[v] = IF c.kind \in {"role", "deactivate"} THEN <<>> ELSE launch[v]
    BY DEF AccessInv, AccessTypeOK, UpdateUser
  <2>3. user[v].there /\ ~Locked(v) /\ ~Locked(v)' /\ UNCHANGED grants
    BY <1>0 DEF UpdateUser, Locked
  <2>4. NothingBefore(v)' /\ ReadsStand(v)'
    BY <1>b, <1>c, <2>3 DEF NothingBefore, ReadsStand, Locked
  <2>5. Follows(v)'
    BY <1>b, <1>c, <2>1, <2>2, <2>3 DEF AccessInv, Stands, Follows, MayLaunch
  <2> QED
    BY <2>4, <2>5 DEF Stands
<1> QED
  BY <1>1, <1>2, <1>3 DEF AccessInv

LEMMA CreateRoleKeeps ==
    ASSUME AccessInv, NEW a \in Users \cup {Command}, NEW r \in Codes, CreateRole(a, r)
    PROVE  AccessInv'
<1>0. web' \in [Users -> [pc : {"none", "signing", "in", "launching"}, role : Codes,
                          password : Nat, panel : BOOLEAN]]
      /\ \A u \in Users : web'[u] = web[u] \/ web'[u].pc = "none"
  BY DoneKeeps DEF AccessInv, CreateRole
<1>1. AccessTypeOK'
  BY <1>0 DEF AccessInv, AccessTypeOK, CreateRole
<1>2. ASSUME NEW u \in Users PROVE Stands(u)'
  BY <1>0, Untouched DEF AccessInv, CreateRole, MayLaunch
<1> QED
  BY <1>1, <1>2 DEF AccessInv

\* A role that is deleted is nobody's, so nobody's launch hung on its grants.
LEMMA DeleteRoleKeeps ==
    ASSUME AccessInv, NEW a \in Users \cup {Command}, NEW r \in Codes, DeleteRole(a, r)
    PROVE  AccessInv'
<1>0. web' \in [Users -> [pc : {"none", "signing", "in", "launching"}, role : Codes,
                          password : Nat, panel : BOOLEAN]]
      /\ \A u \in Users : web'[u] = web[u] \/ web'[u].pc = "none"
  BY DoneKeeps DEF AccessInv, DeleteRole
<1>1. AccessTypeOK'
  BY <1>0 DEF AccessInv, AccessTypeOK, DeleteRole
<1>2. ASSUME NEW u \in Users PROVE Stands(u)'
  <2>1. user[u].there => user[u].role # r
    BY DEF DeleteRole, WithRole
  <2>2. UNCHANGED <<user, session, launch>> /\ grants' = {g \in grants : g[1] # r}
    BY DEF DeleteRole
  <2>3. user[u].there /\ MayLaunch(user[u].role) => MayLaunch(user[u].role)'
    BY <2>1, <2>2 DEF MayLaunch
  <2>4. launch[u] # <<>> \/ web[u].pc = "launching" => user[u].there
    BY DEF AccessInv, Stands, NothingBefore, Locked
  <2>5. MayLaunch(user[u].role) /\ (launch'[u] # <<>> \/ web'[u].pc = "launching")
          => MayLaunch(user[u].role)'
    BY <1>0, <2>2, <2>3, <2>4
  <2> QED
    BY <1>0, <2>2, <2>5, Untouched DEF AccessInv
<1> QED
  BY <1>1, <1>2 DEF AccessInv

LEMMA AddGrantKeeps ==
    ASSUME AccessInv, NEW r \in Codes, NEW scope \in Scopes, AddGrant(r, scope)
    PROVE  AccessInv'
<1>1. AccessTypeOK'
  BY DEF AccessInv, AccessTypeOK, AddGrant
<1>2. ASSUME NEW u \in Users PROVE Stands(u)'
  <2>1. MayLaunch(user[u].role) => MayLaunch(user[u].role)'
    BY DEF AddGrant, MayLaunch
  <2> QED
    BY <2>1, Untouched DEF AccessInv, AddGrant
<1> QED
  BY <1>1, <1>2 DEF AccessInv

\* The users of a role that loses a grant are not launching, and lose their launches.
LEMMA LosesGrant ==
    ASSUME AccessInv, NEW r \in Codes, NEW scope \in Scopes, UnlockedAll(WithRole(r)),
           grants' = grants \ {<<r, scope>>}, launch' = WithoutRoleLaunches(r, scope),
           UNCHANGED <<user, session>>, NEW u \in Users,
           web'[u] = web[u] \/ web'[u].pc = "none"
    PROVE  Stands(u)'
<1>0. launch'[u] = IF scope # "panel" /\ user[u].there /\ user[u].role = r THEN <<>> ELSE launch[u]
  BY DEF WithoutRoleLaunches
<1>1. CASE scope = "panel"
  <2>1. MayLaunch(user[u].role) => MayLaunch(user[u].role)'
    BY <1>1 DEF MayLaunch
  <2> QED
    BY <1>0, <1>1, <2>1, Untouched DEF AccessInv
<1>2. CASE user[u].role # r
  <2>1. MayLaunch(user[u].role) => MayLaunch(user[u].role)'
    BY <1>2 DEF MayLaunch
  <2> QED
    BY <1>0, <1>2, <2>1, Untouched DEF AccessInv
<1>3. CASE scope # "panel" /\ user[u].role = r /\ user[u].there
  <2>1. launch'[u] = <<>> /\ web'[u].pc # "launching"
    BY <1>0, <1>3 DEF UnlockedAll, WithRole, Locked
  <2> QED
    BY <2>1, Untouched DEF AccessInv
<1>4. CASE ~user[u].there
  <2>1. launch'[u] = <<>> /\ web'[u].pc # "launching"
    BY <1>0, <1>4 DEF AccessInv, Stands, NothingBefore, Locked
  <2> QED
    BY <2>1, Untouched DEF AccessInv
<1> QED
  BY <1>1, <1>2, <1>3, <1>4

LEMMA LosingIsTyped ==
    ASSUME AccessTypeOK, NEW r, NEW scope
    PROVE  WithoutRoleLaunches(r, scope) \in [Users -> Seq(BOOLEAN)]
<1>1. <<>> \in Seq(BOOLEAN)
  OBVIOUS
<1> QED
  BY <1>1 DEF AccessTypeOK, WithoutRoleLaunches

LEMMA RemoveGrantKeeps ==
    ASSUME AccessInv, NEW r \in Codes, NEW scope \in Scopes, RemoveGrant(r, scope)
    PROVE  AccessInv'
<1>1. AccessTypeOK'
  BY LosingIsTyped DEF AccessInv, AccessTypeOK, RemoveGrant
<1>2. ASSUME NEW u \in Users PROVE Stands(u)'
  BY LosesGrant DEF RemoveGrant
<1> QED
  BY <1>1, <1>2 DEF AccessInv

LEMMA SetRoleGrantsKeeps ==
    ASSUME AccessInv, NEW a \in Users \cup {Command}, NEW r \in Codes, NEW scope \in Scopes,
           NEW want \in BOOLEAN, SetRoleGrants(a, r, scope, want)
    PROVE  AccessInv'
<1>0. web' \in [Users -> [pc : {"none", "signing", "in", "launching"}, role : Codes,
                          password : Nat, panel : BOOLEAN]]
      /\ \A u \in Users : web'[u] = web[u] \/ web'[u].pc = "none"
  BY DoneKeeps DEF AccessInv, SetRoleGrants
<1>1. UNCHANGED <<user, session>> /\ UnlockedAll(WithRole(r))
  BY DEF SetRoleGrants
<1>2. \/ grants' = grants \ {<<r, scope>>} /\ launch' = WithoutRoleLaunches(r, scope)
      \/ grants \subseteq grants' /\ launch' = launch
  BY DEF SetRoleGrants
<1>3. AccessTypeOK'
  BY <1>0, <1>1, <1>2, LosingIsTyped DEF AccessInv, AccessTypeOK
<1>4. ASSUME NEW u \in Users PROVE Stands(u)'
  <2>1. CASE grants' = grants \ {<<r, scope>>} /\ launch' = WithoutRoleLaunches(r, scope)
    BY <1>0, <1>1, <2>1, LosesGrant
  <2>2. CASE grants \subseteq grants' /\ launch' = launch
    <3>1. MayLaunch(user[u].role) => MayLaunch(user[u].role)'
      BY <1>1, <2>2, GrantsGrow DEF MayLaunch
    <3> QED
      BY <1>0, <1>1, <2>2, <3>1, Untouched DEF AccessInv
  <2> QED
    BY <1>2, <2>1, <2>2
<1> QED
  BY <1>3, <1>4 DEF AccessInv

-----------------------------------------------------------------------------
(* Launches *)

LEMMA LaunchLocksKeeps ==
    ASSUME AccessInv, NEW v \in Users, LaunchLocks(v) PROVE AccessInv'
<1>1. CASE user[v].active /\ MayLaunch(user[v].role)
  <2>0. web' = [web EXCEPT ![v].pc = "launching"] /\ web[v].pc = "in"
        /\ UNCHANGED <<user, grants, session, launch>>
    BY <1>1 DEF LaunchLocks, Request
  <2>1. AccessTypeOK'
    BY <2>0 DEF AccessInv, AccessTypeOK
  <2>2. ASSUME NEW u \in Users, u # v PROVE Stands(u)'
    BY <2>0, <2>2, Untouched DEF AccessInv, AccessTypeOK, MayLaunch
  <2>3. Stands(v)'
    <3>1. web'[v].pc = "launching"
      BY <2>0 DEF AccessInv, AccessTypeOK
    <3>2. user[v].active \in BOOLEAN /\ user[v].there \in BOOLEAN
      BY DEF AccessInv, AccessTypeOK, Rows
    <3> QED
      BY <1>1, <2>0, <3>1 DEF AccessInv, Stands, NothingBefore, ReadsStand, Follows, Locked, MayLaunch
  <2> QED
    BY <2>1, <2>2, <2>3 DEF AccessInv
<1>2. CASE ~(user[v].active /\ MayLaunch(user[v].role))
  <2>0. web' = Done(v) /\ UNCHANGED <<user, grants, session, launch>>
    BY <1>2 DEF LaunchLocks
  <2>1. web' \in [Users -> [pc : {"none", "signing", "in", "launching"}, role : Codes,
                            password : Nat, panel : BOOLEAN]]
        /\ \A u \in Users : web'[u] = web[u] \/ web'[u].pc = "none"
    <3>1. v \in Users \cup {Command}
      OBVIOUS
    <3> QED
      BY <2>0, <3>1, DoneKeeps DEF AccessInv
  <2>2. AccessTypeOK'
    BY <2>0, <2>1 DEF AccessInv, AccessTypeOK
  <2>3. ASSUME NEW u \in Users PROVE Stands(u)'
    BY <2>0, <2>1, Untouched DEF AccessInv, MayLaunch
  <2> QED
    BY <2>2, <2>3 DEF AccessInv
<1> QED
  BY <1>1, <1>2

\* The part of a sequence between two places is a sequence.
LEMMA PartIsTyped ==
    ASSUME NEW s \in Seq(BOOLEAN), NEW k \in Nat, k <= Len(s)
    PROVE  SubSeq(s, k + 1, Len(s)) \in Seq(BOOLEAN)
OBVIOUS

LEMMA LaunchInsertsKeeps ==
    ASSUME AccessInv, NEW v \in Users, LaunchInserts(v) PROVE AccessInv'
<1> v \in Users \cup {Command} /\ web' = Done(v)
  BY DEF LaunchInserts
<1>0. web' \in [Users -> [pc : {"none", "signing", "in", "launching"}, role : Codes,
                          password : Nat, panel : BOOLEAN]]
      /\ \A u \in Users : web'[u] = web[u] \/ web'[u].pc = "none"
  BY DoneKeeps DEF AccessInv
<1> DEFINE all == Append(launch[v], FALSE)
           evicted == IF Len(all) > MaxLaunches THEN Len(all) - MaxLaunches ELSE 0
           rest == SubSeq(all, evicted + 1, Len(all))
<1>1. launch' = [launch EXCEPT ![v] = rest] /\ web[v].pc = "launching"
      /\ UNCHANGED <<user, grants, session>>
  BY DEF LaunchInserts
<1>2. all \in Seq(BOOLEAN)
  BY DEF AccessInv, AccessTypeOK
<1>3. rest \in Seq(BOOLEAN)
  <2>1. evicted \in Nat /\ evicted <= Len(all)
    BY <1>2, LaunchesAssumption
  <2> HIDE DEF all, evicted
  <2> QED
    BY <1>2, <2>1, PartIsTyped
<1> HIDE DEF rest
<1>4. AccessTypeOK'
  BY <1>0, <1>1, <1>3 DEF AccessInv, AccessTypeOK
<1>5. ASSUME NEW u \in Users, u # v PROVE Stands(u)'
  BY <1>0, <1>1, <1>5, Untouched DEF AccessInv, AccessTypeOK, MayLaunch
<1>6. Stands(v)'
  BY <1>0, <1>1 DEF AccessInv, Stands, NothingBefore, ReadsStand, Follows, Locked, MayLaunch
<1> QED
  BY <1>4, <1>5, <1>6 DEF AccessInv

LEMMA RedeemKeeps ==
    ASSUME AccessInv, NEW v \in Users, NEW i \in DOMAIN launch[v], Redeem(v, i) PROVE AccessInv'
<1>1. /\ launch' = [launch EXCEPT ![v] = [launch[v] EXCEPT ![i] = TRUE]]
      /\ UNCHANGED <<user, grants, session, web>>
  BY DEF Redeem
<1>2. [launch[v] EXCEPT ![i] = TRUE] \in Seq(BOOLEAN) /\ launch[v] # <<>>
  BY DEF AccessInv, AccessTypeOK
<1>3. AccessTypeOK'
  BY <1>1, <1>2 DEF AccessInv, AccessTypeOK
<1>4. ASSUME NEW u \in Users PROVE Stands(u)'
  <2>1. launch'[u] # <<>> => launch[u] # <<>>
    BY <1>1, <1>2 DEF AccessInv, AccessTypeOK
  <2> QED
    BY <1>1, <2>1 DEF AccessInv, Stands, NothingBefore, ReadsStand, Follows, MayLaunch
<1> QED
  BY <1>3, <1>4 DEF AccessInv

LEMMA LaunchEndsKeeps ==
    ASSUME AccessInv, NEW v \in Users, NEW i \in DOMAIN launch[v], LaunchEnds(v, i) PROVE AccessInv'
<1>1. launch' = [launch EXCEPT ![v] = RemoveAt(launch[v], i)]
      /\ UNCHANGED <<user, grants, session, web>>
  BY DEF LaunchEnds
<1>2. RemoveAt(launch[v], i) \in Seq(BOOLEAN) /\ launch[v] # <<>>
  BY DEF AccessInv, AccessTypeOK, RemoveAt
<1>3. AccessTypeOK'
  BY <1>1, <1>2 DEF AccessInv, AccessTypeOK
<1>4. ASSUME NEW u \in Users PROVE Stands(u)'
  <2>1. launch'[u] # <<>> => launch[u] # <<>>
    BY <1>1, <1>2 DEF AccessInv, AccessTypeOK
  <2> QED
    BY <1>1, <2>1 DEF AccessInv, Stands, NothingBefore, ReadsStand, Follows, MayLaunch
<1> QED
  BY <1>3, <1>4 DEF AccessInv

-----------------------------------------------------------------------------
(* The theorem *)

LEMMA AccessStepKeeps == AccessInv /\ [AccessNext]_accessVars => AccessInv'
<1> SUFFICES ASSUME AccessInv, [AccessNext]_accessVars PROVE AccessInv'
  OBVIOUS
<1>1. CASE UNCHANGED accessVars
  BY <1>1 DEF accessVars, AccessInv, AccessTypeOK, Stands, NothingBefore, ReadsStand, Follows, MayLaunch
<1>2. ASSUME NEW u \in Users,
             \/ SignInVerifies(u) \/ SignInInserts(u) \/ Identify(u) \/ Logout(u)
             \/ LaunchLocks(u) \/ LaunchInserts(u)
             \/ \E i \in DOMAIN launch[u] : Redeem(u, i) \/ LaunchEnds(u, i)
      PROVE  AccessInv'
  BY <1>2, SignInVerifiesKeeps, SignInInsertsKeeps, IdentifyKeeps, LogoutKeeps, LaunchLocksKeeps,
     LaunchInsertsKeeps, RedeemKeeps, LaunchEndsKeeps
<1>3. ASSUME NEW a \in Users \cup {Command}, NEW u \in Users,
             \/ \E r \in Codes : CreateUser(a, u, r)
             \/ \E c \in Changes : UpdateUser(a, u, c)
      PROVE  AccessInv'
  BY <1>3, CreateUserKeeps, UpdateUserKeeps
<1>4. ASSUME NEW a \in Users \cup {Command}, NEW r \in Codes,
             \/ CreateRole(a, r) \/ DeleteRole(a, r)
             \/ \E scope \in Scopes, want \in BOOLEAN : SetRoleGrants(a, r, scope, want)
      PROVE  AccessInv'
  BY <1>4, CreateRoleKeeps, DeleteRoleKeeps, SetRoleGrantsKeeps
<1>5. ASSUME NEW r \in Codes, NEW scope \in Scopes, AddGrant(r, scope) \/ RemoveGrant(r, scope)
      PROVE  AccessInv'
  BY <1>5, AddGrantKeeps, RemoveGrantKeeps
<1> QED
  BY <1>1, <1>2, <1>3, <1>4, <1>5 DEF AccessNext

\* Nothing a user was given outlives what it was given for: a session the password and the role
\* it began under, a launch the right to it (accounts.py:4-8), however sign-ins, launches and
\* changes overlap.
THEOREM AccessIsCurrent == AccessSpec => []AccessFollowsUser
<1>1. AccessInv => AccessFollowsUser
  BY DEF AccessInv, Stands, Follows, AccessFollowsUser
<1> QED
  BY AccessInitInv, AccessStepKeeps, <1>1, PTL DEF AccessSpec

-----------------------------------------------------------------------------
(* MailPolling: the cursor of a mailbox *)

\* The first n mails have been dealt with.
Dealt(n) == \A m \in 1..n : Published(m) \/ m \in judged

\* What a run has read of the configuration, and its notes on senders, may be anything.
Fields == {"pc", "seen", "from", "upTo", "at", "memo", "hold"}

PollerOK(p) ==
    /\ DOMAIN poller[p] = Fields
    /\ poller[p].from \in Nat /\ poller[p].upTo \in Nat /\ poller[p].at \in Nat
    /\ poller[p].hold \in BOOLEAN

\* A run starts from a cursor, and what it leaves behind without a hold has been dealt with.
Progress(p) ==
    /\ In(p, "ask") => Dealt(poller[p].from) /\ ~poller[p].hold
    /\ poller[p].pc \in {"mail", "check", "insert"} /\ ~poller[p].hold => Dealt(poller[p].at - 1)

MailTypeOK ==
    /\ box \in Nat /\ cursor \in Nat
    /\ DOMAIN poller = Pollers
    /\ \A p \in Pollers : PollerOK(p)

MailInv ==
    /\ MailTypeOK
    /\ NoMailLost
    /\ \A p \in Pollers : Progress(p)

-----------------------------------------------------------------------------
(* Helpers *)

\* Mails stay dealt with: no job is taken back, no verdict forgotten.
LEMMA DealtStays ==
    ASSUME jobs \subseteq jobs', judged \subseteq judged'
    PROVE  \A n \in Int : Dealt(n) => Dealt(n)'
BY DEF Dealt, Published

\* A run that does not move, while nothing is undone, is as well placed as it was.
LEMMA OthersProgress ==
    ASSUME NEW q \in Pollers, PollerOK(q), Progress(q), poller'[q] = poller[q],
           jobs \subseteq jobs', judged \subseteq judged'
    PROVE  PollerOK(q)' /\ Progress(q)'
<1>1. PollerOK(q)'
  BY DEF PollerOK
<1>2. poller[q].from \in Int /\ poller[q].at - 1 \in Int
  BY DEF PollerOK
<1> QED
  BY <1>1, <1>2, DealtStays DEF Progress, In

\* The step of one run that leaves the cursor and the mailbox alone.
LEMMA RunStep ==
    ASSUME MailInv, NEW p \in Pollers, NEW r, poller' = [poller EXCEPT ![p] = r],
           PollerOK(p)', Progress(p)', jobs \subseteq jobs', judged \subseteq judged',
           UNCHANGED <<box, cursor>>
    PROVE  MailInv'
<1>1. ASSUME NEW q \in Pollers, q # p PROVE PollerOK(q)' /\ Progress(q)'
  <2>1. poller'[q] = poller[q]
    BY <1>1 DEF MailInv, MailTypeOK
  <2> QED
    BY <2>1, OthersProgress DEF MailInv, MailTypeOK
<1>2. NoMailLost'
  BY DEF MailInv, NoMailLost, Published
<1>3. DOMAIN poller' = Pollers
  BY DEF MailInv, MailTypeOK
<1> QED
  BY <1>1, <1>2, <1>3 DEF MailInv, MailTypeOK

\* A mail that the run passes without a hold has a job or a verdict by then.
LEMMA NextMailKeeps ==
    ASSUME MailInv, NEW p \in Pollers, poller[p].pc \in {"mail", "check", "insert"},
           NEW r, poller' = [poller EXCEPT ![p] = r],
           DOMAIN r = Fields, r.pc = "mail", r.at = poller[p].at + 1,
           r.from = poller[p].from, r.upTo = poller[p].upTo, r.hold \in BOOLEAN,
           ~r.hold => ~poller[p].hold /\ (Mail(p) \in judged' \/ \E j \in jobs' : j.mail = Mail(p)),
           jobs \subseteq jobs', judged \subseteq judged', UNCHANGED <<box, cursor>>
    PROVE  MailInv'
<1>1. poller'[p] = r
  BY DEF MailInv, MailTypeOK
<1>2. PollerOK(p)'
  BY <1>1 DEF MailInv, MailTypeOK, PollerOK
<1>3. Progress(p)'
  <2>1. PICK n \in Nat : n = poller[p].at
    BY DEF MailInv, MailTypeOK, PollerOK
  <2>2. ASSUME ~r.hold PROVE Dealt(n)'
    <3>1. ~poller[p].hold /\ Dealt(n - 1)
      BY <2>1, <2>2 DEF MailInv, Progress
    <3>2. Dealt(n - 1)'
      BY <3>1, DealtStays
    <3>3. \A m \in 1..n : m \in 1..(n - 1) \/ m = n
      OBVIOUS
    <3>4. n \in judged' \/ Published(n)'
      BY <2>1, <2>2 DEF Published, Mail
    <3> QED
      BY <3>2, <3>3, <3>4 DEF Dealt
  <2>3. r.at - 1 = n
    BY <2>1
  <2> QED
    BY <1>1, <2>2, <2>3 DEF Progress, In
<1> QED
  BY <1>2, <1>3, RunStep

\* A mail that has its job, or gets it, is passed.
LEMMA PassedKeeps ==
    ASSUME MailInv, NEW p \in Pollers, poller[p].pc \in {"check", "insert"},
           poller' = [poller EXCEPT ![p] = NextMail(p)],
           \E j \in jobs' : j.mail = Mail(p),
           jobs \subseteq jobs', UNCHANGED <<box, cursor, judged>>
    PROVE  MailInv'
<1>1. DOMAIN poller[p] = Fields /\ poller[p].hold \in BOOLEAN
  BY DEF MailInv, MailTypeOK, PollerOK
<1>2. /\ DOMAIN NextMail(p) = Fields /\ NextMail(p).pc = "mail" /\ NextMail(p).from = poller[p].from
      /\ NextMail(p).upTo = poller[p].upTo /\ NextMail(p).at = poller[p].at + 1
      /\ NextMail(p).hold = poller[p].hold
  BY <1>1 DEF Fields, NextMail
<1> QED
  BY <1>1, <1>2, NextMailKeeps

\* A mail that could not be dealt with puts a hold on the cursor.
LEMMA HeldKeeps ==
    ASSUME MailInv, NEW p \in Pollers, poller[p].pc \in {"mail", "check", "insert"},
           poller' = [poller EXCEPT ![p] = Held(p)],
           UNCHANGED <<box, cursor, jobs, judged>>
    PROVE  MailInv'
<1>1. DOMAIN poller[p] = Fields
  BY DEF MailInv, MailTypeOK, PollerOK
<1>2. /\ DOMAIN Held(p) = Fields /\ Held(p).pc = "mail" /\ Held(p).from = poller[p].from
      /\ Held(p).upTo = poller[p].upTo /\ Held(p).at = poller[p].at + 1
      /\ Held(p).hold = TRUE
  BY <1>1 DEF Fields, NextMail, Held
<1> QED
  BY <1>2, NextMailKeeps

\* A step within one mail.
LEMMA SameMailKeeps ==
    ASSUME MailInv, NEW p \in Pollers, poller[p].pc \in {"mail", "check"},
           NEW r, poller' = [poller EXCEPT ![p] = r],
           DOMAIN r = Fields, r.pc \in {"check", "insert"}, r.at = poller[p].at,
           r.from = poller[p].from, r.upTo = poller[p].upTo, r.hold = poller[p].hold,
           UNCHANGED <<box, cursor, jobs, judged>>
    PROVE  MailInv'
<1>1. poller'[p] = r
  BY DEF MailInv, MailTypeOK
<1>2. PollerOK(p)'
  BY <1>1 DEF MailInv, MailTypeOK, PollerOK
<1>3. Progress(p)'
  <2>1. PICK n \in Nat : n = poller[p].at
    BY DEF MailInv, MailTypeOK, PollerOK
  <2>2. ~r.hold => Dealt(n - 1)
    BY <2>1 DEF MailInv, Progress
  <2>3. ~r.hold => Dealt(n - 1)'
    BY <2>2, DealtStays
  <2>4. r.at - 1 = n - 1
    BY <2>1
  <2>5. poller'[p].hold = r.hold /\ poller'[p].at - 1 = n - 1 /\ poller'[p].pc # "ask"
    BY <1>1, <2>4
  <2>6. ~poller'[p].hold => Dealt(poller[p].at - 1)'
    BY <2>3, <2>5 DEF Dealt
  <2> QED
    BY <2>5, <2>6 DEF Progress, In
<1> QED
  BY <1>2, <1>3, RunStep

-----------------------------------------------------------------------------
(* One lemma per action *)

LEMMA MailInitInv == MailInit => MailInv
<1> SUFFICES ASSUME MailInit PROVE MailInv
  OBVIOUS
<1>1. \A p \in Pollers : PollerOK(p) /\ Progress(p)
  BY DEF MailInit, PollerOK, Fields, Progress, In, NoRun
<1> QED
  BY <1>1 DEF MailInit, MailInv, MailTypeOK, NoMailLost

LEMMA StartPollKeeps ==
    ASSUME MailInv, NEW p \in Pollers, StartPoll(p) PROVE MailInv'
<1> DEFINE r == [NoRun EXCEPT !.pc = "ask", !.seen = boxCfg, !.from = cursor]
<1>1. poller' = [poller EXCEPT ![p] = r] /\ UNCHANGED <<box, cursor, jobs, judged>>
  BY DEF StartPoll
<1>2. /\ DOMAIN r = Fields /\ r.pc = "ask" /\ r.from = cursor /\ r.upTo \in Nat /\ r.at \in Nat
      /\ r.hold \in BOOLEAN /\ ~r.hold
  BY DEF NoRun, Fields
<1> HIDE DEF r
<1>3. poller'[p] = r
  BY <1>1 DEF MailInv, MailTypeOK
<1>4. PollerOK(p)'
  BY <1>2, <1>3 DEF MailInv, MailTypeOK, PollerOK
<1>5. Progress(p)'
  <2>1. Dealt(cursor)'
    BY <1>1 DEF MailInv, NoMailLost, Dealt, Published
  <2> QED
    BY <1>1, <1>2, <1>3, <2>1 DEF Progress, In
<1> QED
  BY <1>1, <1>4, <1>5, RunStep

LEMMA ListDeltaKeeps ==
    ASSUME MailInv, NEW p \in Pollers, ListDelta(p) PROVE MailInv'
<1>1. PICK a \in {1, poller[p].from + 1} :
        poller' = [poller EXCEPT ![p] = [poller[p] EXCEPT !.pc = "mail", !.at = a, !.upTo = box]]
  <2>1. DOMAIN poller = Pollers
    BY DEF MailInv, MailTypeOK
  <2> QED
    BY <2>1 DEF ListDelta
<1>2. UNCHANGED <<box, cursor, jobs, judged>> /\ In(p, "ask")
  BY DEF ListDelta
<1> DEFINE r == [poller[p] EXCEPT !.pc = "mail", !.at = a, !.upTo = box]
<1>3. /\ DOMAIN r = Fields /\ r.pc = "mail" /\ r.from = poller[p].from /\ r.upTo = box /\ r.at = a
      /\ r.hold = poller[p].hold
  BY DEF MailInv, MailTypeOK, PollerOK, Fields
<1>4. poller' = [poller EXCEPT ![p] = r]
  BY <1>1
<1> HIDE DEF r
<1>5. poller'[p] = r
  BY <1>4 DEF MailInv, MailTypeOK
<1>6. PollerOK(p)'
  BY <1>3, <1>5 DEF MailInv, MailTypeOK, PollerOK
<1>7. Progress(p)'
  <2>1. Dealt(poller[p].from) /\ poller[p].from \in Nat
    BY <1>2 DEF MailInv, MailTypeOK, PollerOK, Progress
  <2>2. Dealt(a - 1)
    BY <2>1 DEF Dealt
  <2>3. Dealt(a - 1)'
    BY <1>2, <2>2 DEF Dealt, Published
  <2> QED
    BY <1>3, <1>5, <2>3 DEF Progress, In
<1> QED
  BY <1>2, <1>4, <1>6, <1>7, RunStep

LEMMA RejectKeeps ==
    ASSUME MailInv, NEW p \in Pollers, Reject(p) PROVE MailInv'
<1> DEFINE r == [NextMail(p) EXCEPT !.memo = poller[p].memo]
<1>1. /\ DOMAIN r = Fields /\ r.pc = "mail" /\ r.from = poller[p].from /\ r.upTo = poller[p].upTo
      /\ r.at = poller[p].at + 1 /\ r.hold = poller[p].hold
  BY DEF MailInv, MailTypeOK, PollerOK, Fields, NextMail
<1>2. /\ poller' = [poller EXCEPT ![p] = r] /\ judged' = judged \cup {Mail(p)}
      /\ UNCHANGED <<box, cursor, jobs>> /\ In(p, "mail")
  BY DEF Reject, Drops, HasMail
<1>3. poller[p].hold \in BOOLEAN
  BY DEF MailInv, MailTypeOK, PollerOK
<1> HIDE DEF r
<1> QED
  BY <1>1, <1>2, <1>3, NextMailKeeps DEF In

LEMMA RouteMailKeeps ==
    ASSUME MailInv, NEW p \in Pollers, RouteMail(p) PROVE MailInv'
<1>1. HasMail(p) /\ UNCHANGED <<box, cursor, jobs>>
  BY DEF RouteMail
<1>2. poller[p].pc = "mail" /\ poller[p].hold \in BOOLEAN /\ DOMAIN poller[p] = Fields
  BY <1>1 DEF HasMail, In, MailInv, MailTypeOK, PollerOK
<1>3. \/ \E memo : Drops(p, memo)
      \/ \E memo : poller' = [poller EXCEPT ![p] = [poller[p] EXCEPT !.pc = "check", !.memo = memo]]
                   /\ UNCHANGED judged
      \/ poller' = [poller EXCEPT ![p] = Held(p)] /\ UNCHANGED judged
  <2>1. DOMAIN poller = Pollers
    BY DEF MailInv, MailTypeOK
  <2> QED
    BY <2>1 DEF RouteMail
<1>4. ASSUME NEW memo, Drops(p, memo) PROVE MailInv'
  <2> DEFINE r == [NextMail(p) EXCEPT !.memo = memo]
  <2>1. /\ DOMAIN r = Fields /\ r.pc = "mail" /\ r.from = poller[p].from /\ r.upTo = poller[p].upTo
        /\ r.at = poller[p].at + 1 /\ r.hold = poller[p].hold
    BY <1>2 DEF Fields, NextMail
  <2>2. poller' = [poller EXCEPT ![p] = r] /\ judged' = judged \cup {Mail(p)}
    BY <1>4 DEF Drops
  <2> HIDE DEF r
  <2> QED
    BY <1>1, <1>2, <2>1, <2>2, NextMailKeeps
<1>5. ASSUME NEW memo, UNCHANGED judged,
             poller' = [poller EXCEPT ![p] = [poller[p] EXCEPT !.pc = "check", !.memo = memo]]
      PROVE  MailInv'
  <2> DEFINE r == [poller[p] EXCEPT !.pc = "check", !.memo = memo]
  <2>1. /\ DOMAIN r = Fields /\ r.pc = "check" /\ r.from = poller[p].from /\ r.upTo = poller[p].upTo
        /\ r.at = poller[p].at /\ r.hold = poller[p].hold
    BY <1>2 DEF Fields
  <2>2. poller' = [poller EXCEPT ![p] = r]
    BY <1>5
  <2> HIDE DEF r
  <2> QED
    BY <1>1, <1>2, <1>5, <2>1, <2>2, SameMailKeeps
<1>6. ASSUME UNCHANGED judged, poller' = [poller EXCEPT ![p] = Held(p)] PROVE MailInv'
  BY <1>1, <1>2, <1>6, HeldKeeps
<1> QED
  BY <1>3, <1>4, <1>5, <1>6

LEMMA DirectMailKeeps ==
    ASSUME MailInv, NEW p \in Pollers, DirectMail(p) PROVE MailInv'
<1> DEFINE r == [poller[p] EXCEPT !.pc = "check"]
<1>1. DOMAIN poller[p] = Fields /\ DOMAIN poller = Pollers
  BY DEF MailInv, MailTypeOK, PollerOK
<1>2. /\ DOMAIN r = Fields /\ r.pc = "check" /\ r.from = poller[p].from /\ r.upTo = poller[p].upTo
      /\ r.at = poller[p].at /\ r.hold = poller[p].hold
  BY <1>1 DEF Fields
<1>3. /\ poller' = [poller EXCEPT ![p] = r] /\ poller[p].pc = "mail"
      /\ UNCHANGED <<box, cursor, jobs, judged>>
  BY <1>1 DEF DirectMail, RunGoes, HasMail, In
<1> HIDE DEF r
<1> QED
  BY <1>2, <1>3, SameMailKeeps

LEMMA PublishChecksKeeps ==
    ASSUME MailInv, NEW p \in Pollers, PublishChecks(p) PROVE MailInv'
<1>1. DOMAIN poller[p] = Fields /\ DOMAIN poller = Pollers /\ poller[p].hold \in BOOLEAN
  BY DEF MailInv, MailTypeOK, PollerOK
<1>2. UNCHANGED <<box, cursor, jobs, judged>> /\ poller[p].pc = "check"
  BY DEF PublishChecks, In
<1>3. CASE Published(Mail(p))
  <2>1. poller' = [poller EXCEPT ![p] = NextMail(p)]
    BY <1>1, <1>3 DEF PublishChecks
  <2>2. \E j \in jobs' : j.mail = Mail(p)
    BY <1>2, <1>3 DEF Published
  <2> QED
    BY <1>2, <2>1, <2>2, PassedKeeps
<1>4. CASE ~Published(Mail(p))
  <2> DEFINE r == [poller[p] EXCEPT !.pc = "insert"]
  <2>1. /\ DOMAIN r = Fields /\ r.pc = "insert" /\ r.from = poller[p].from /\ r.upTo = poller[p].upTo
        /\ r.at = poller[p].at /\ r.hold = poller[p].hold
    BY <1>1 DEF Fields
  <2>2. poller' = [poller EXCEPT ![p] = r]
    BY <1>1, <1>4 DEF PublishChecks
  <2> HIDE DEF r
  <2> QED
    BY <1>2, <2>1, <2>2, SameMailKeeps
<1> QED
  BY <1>3, <1>4

LEMMA PublishInsertsKeeps ==
    ASSUME MailInv, NEW p \in Pollers, PublishInserts(p) PROVE MailInv'
<1>1. /\ poller' = [poller EXCEPT ![p] = NextMail(p)] /\ poller[p].pc = "insert"
      /\ UNCHANGED <<box, cursor, judged>> /\ jobs \subseteq jobs'
  BY DEF PublishInserts, In
<1>2. \E j \in jobs' : j.mail = Mail(p)
  <2>1. CASE Published(Mail(p))
    BY <2>1 DEF PublishInserts, Taken, Published
  <2>2. CASE ~Published(Mail(p))
    <3> DEFINE entry == [mail |-> Mail(p), view |-> Target(p)]
    <3>1. entry \in jobs' /\ entry.mail = Mail(p)
      BY <2>2 DEF PublishInserts, Taken
    <3> QED
      BY <3>1
  <2> QED
    BY <2>1, <2>2
<1> QED
  BY <1>1, <1>2, PassedKeeps

LEMMA PublishFailsKeeps ==
    ASSUME MailInv, NEW p \in Pollers, PublishFails(p) PROVE MailInv'
BY HeldKeeps DEF PublishFails, In

\* A run at rest is no nearer and no further than any other.
LEMMA RestIsFine ==
    ASSUME NEW p \in Pollers, poller'[p] = NoRun
    PROVE  PollerOK(p)' /\ Progress(p)'
BY DEF PollerOK, Fields, Progress, In, NoRun

LEMMA PollFailsKeeps ==
    ASSUME MailInv, NEW p \in Pollers, PollFails(p) PROVE MailInv'
<1>1. poller' = [poller EXCEPT ![p] = NoRun] /\ UNCHANGED <<box, cursor, jobs, judged>>
  BY DEF PollFails, RunEnds
<1>2. poller'[p] = NoRun
  BY <1>1 DEF MailInv, MailTypeOK
<1> HIDE DEF NoRun
<1> QED
  BY <1>1, <1>2, RestIsFine, RunStep

\* The cursor advances over what the run itself has passed without a hold.
LEMMA EndPollKeeps ==
    ASSUME MailInv, NEW p \in Pollers, EndPoll(p) PROVE MailInv'
<1>1. /\ poller' = [poller EXCEPT ![p] = NoRun] /\ UNCHANGED <<box, jobs, judged>>
      /\ cursor' = IF poller[p].hold THEN cursor ELSE poller[p].upTo
      /\ poller[p].pc = "mail" /\ ~(poller[p].at <= poller[p].upTo)
  BY DEF EndPoll, RunEnds, HasMail, In
<1>2. poller'[p] = NoRun
  BY <1>1 DEF MailInv, MailTypeOK
<1> HIDE DEF NoRun
<1>3. ASSUME NEW q \in Pollers PROVE PollerOK(q)' /\ Progress(q)'
  <2>1. CASE q = p
    BY <1>2, <2>1, RestIsFine
  <2>2. CASE q # p
    <3>1. poller'[q] = poller[q]
      BY <1>1, <2>2 DEF MailInv, MailTypeOK
    <3> QED
      BY <1>1, <3>1, OthersProgress DEF MailInv, MailTypeOK
  <2> QED
    BY <2>1, <2>2
<1>4. cursor' \in Nat /\ DOMAIN poller' = Pollers
  BY <1>1 DEF MailInv, MailTypeOK, PollerOK
<1>5. NoMailLost'
  <2>1. CASE poller[p].hold
    BY <1>1, <2>1 DEF MailInv, NoMailLost, Published
  <2>2. CASE ~poller[p].hold
    <3>1. poller[p].at \in Nat /\ poller[p].upTo \in Nat
      BY DEF MailInv, MailTypeOK, PollerOK
    <3>2. Dealt(poller[p].at - 1)
      BY <1>1, <2>2 DEF MailInv, Progress
    <3>3. \A m \in 1..poller[p].upTo : m \in 1..(poller[p].at - 1)
      BY <1>1, <3>1
    <3>4. Dealt(poller[p].upTo)
      BY <3>2, <3>3 DEF Dealt
    <3> QED
      BY <1>1, <2>2, <3>4 DEF Dealt, NoMailLost, Published
  <2> QED
    BY <2>1, <2>2
<1> QED
  BY <1>1, <1>3, <1>4, <1>5 DEF MailInv, MailTypeOK

-----------------------------------------------------------------------------
(* The theorem *)

LEMMA WorldKeeps ==
    ASSUME MailInv, Arrive \/ Operate PROVE MailInv'
<1>1. UNCHANGED <<cursor, jobs, poller, judged>>
  BY DEF Arrive, Operate
<1>b. box' \in Nat
  BY DEF Arrive, Operate, MailInv, MailTypeOK
<1>2. \A p \in Pollers : PollerOK(p)' /\ Progress(p)'
  BY <1>1, OthersProgress DEF MailInv, MailTypeOK
<1>3. DOMAIN poller' = Pollers /\ cursor' \in Nat /\ NoMailLost'
  BY <1>1 DEF MailInv, MailTypeOK, NoMailLost, Published
<1> QED
  BY <1>b, <1>2, <1>3 DEF MailInv, MailTypeOK

LEMMA MailStepKeeps == MailInv /\ [MailNext]_mailVars => MailInv'
<1> SUFFICES ASSUME MailInv, [MailNext]_mailVars PROVE MailInv'
  OBVIOUS
<1>1. CASE UNCHANGED mailVars
  <2>1. \A p \in Pollers : PollerOK(p)' /\ Progress(p)'
    BY <1>1, OthersProgress DEF MailInv, MailTypeOK, mailVars
  <2> QED
    BY <1>1, <2>1 DEF MailInv, MailTypeOK, NoMailLost, Published, mailVars
<1>2. CASE Arrive \/ Operate
  BY <1>2, WorldKeeps
<1>3. ASSUME NEW p \in Pollers,
             \/ StartPoll(p) \/ ListDelta(p) \/ Reject(p) \/ RouteMail(p) \/ DirectMail(p)
             \/ PublishChecks(p) \/ PublishInserts(p) \/ PublishFails(p)
             \/ EndPoll(p) \/ PollFails(p)
      PROVE  MailInv'
  BY <1>3, StartPollKeeps, ListDeltaKeeps, RejectKeeps, RouteMailKeeps, DirectMailKeeps,
     PublishChecksKeeps, PublishInsertsKeeps, PublishFailsKeeps, EndPollKeeps, PollFailsKeeps
<1> QED
  BY <1>1, <1>2, <1>3 DEF MailNext

\* The cursor of a mailbox never passes a mail that has neither a job nor a verdict against it
\* (publish.py:385-389), however runs overlap, fail and die, the configuration changes and the
\* cursor goes back.
THEOREM MailReachesItsJob == MailSpec => []NoMailLost
<1>1. MailInv => NoMailLost
  BY DEF MailInv
<1> QED
  BY MailInitInv, MailStepKeeps, <1>1, PTL DEF MailSpec

-----------------------------------------------------------------------------
(* The HOME of a sign-in *)

Working == {"claimed", "prompting", "watching", "taking", "polling", "verifying", "saving", "closing"}
AtHome  == {"prompting", "watching", "taking", "polling", "verifying", "saving"}
Sweeping == {"listed", "marked", "read"}

WorkerRow == [pc : Working \cup Sweeping \cup {"idle", "ready"}, login : Logins \cup {0},
              listed : SUBSET Logins, active : SUBSET Logins]

\* Requests that a worker has claimed, whatever became of them.
Claimed == {l \in Logins : request[l].status \notin {"none", "pending"}}

LoginTypeOK ==
    /\ request \in [Logins -> RequestRow]
    /\ worker \in [LoginWorkers -> WorkerRow]
    /\ homes \subseteq Logins

\* A request is claimed once, so it has one worker and one HOME, and what a sweep will remove is
\* over for good.
WorkerOK(w) ==
    /\ worker[w].pc \in Working => worker[w].login \in Claimed
    /\ worker[w].pc \in AtHome /\ IsActive(worker[w].login) => worker[w].login \in homes
    /\ worker[w].pc \in Sweeping => worker[w].listed \subseteq Claimed
    /\ worker[w].pc = "read" => \A l \in worker[w].listed \ worker[w].active : ~IsActive(l)

OneWorker ==
    \A v, w \in LoginWorkers :
        worker[v].pc \in Working /\ worker[w].pc \in Working /\ worker[v].login = worker[w].login => v = w

LoginInv ==
    /\ LoginTypeOK
    /\ homes \subseteq Claimed
    /\ \A w \in LoginWorkers : WorkerOK(w)
    /\ OneWorker

LEMMA LoginInvSafe == LoginInv => HomeKept
BY DEF LoginInv, WorkerOK, HomeKept, AtHome

LEMMA LoginInitInv == LoginInit => LoginInv
<1> SUFFICES ASSUME LoginInit PROVE LoginInv
  OBVIOUS
<1>1. request \in [Logins -> RequestRow]
  BY DEF LoginInit, NewRequest, RequestRow
<1>2. worker \in [LoginWorkers -> WorkerRow] /\ homes = {}
  BY DEF LoginInit, NoLogin, WorkerRow
<1>3. \A w \in LoginWorkers : worker[w].pc = "idle"
  BY DEF LoginInit, NoLogin
<1> QED
  BY <1>1, <1>2, <1>3 DEF LoginInv, LoginTypeOK, WorkerOK, OneWorker, Working, AtHome, Sweeping

\* What a request may become: once claimed it stays claimed, and over once it is over.
Onward(entry, next) ==
    /\ next \in RequestRow
    /\ entry.status \notin {"none", "pending"} => next.status \notin {"none", "pending"}
    /\ entry.status \notin {"none", "pending"} \cup ActiveStates => next.status \notin ActiveStates

AllOnward == request' \in [Logins -> RequestRow] /\ \A l \in Logins : Onward(request[l], request'[l])

LEMMA ClosedOnward ==
  ASSUME NEW entry \in RequestRow, NEW status \in Ended
  PROVE  Onward(entry, Closed(entry, status))
BY DEF Onward, Closed, RequestRow, ActiveStates, Ended

LEMMA StaysOnward ==
  ASSUME NEW entry \in RequestRow
  PROVE  Onward(entry, entry)
BY DEF Onward

LEMMA OneOnward ==
  ASSUME request \in [Logins -> RequestRow], NEW l \in Logins, NEW next, Onward(request[l], next),
         request' = [request EXCEPT ![l] = next]
  PROVE  AllOnward
BY StaysOnward DEF AllOnward, Onward

LEMMA MarkStaleOnward ==
  ASSUME request \in [Logins -> RequestRow], NEW l \in Logins
  PROVE  Onward(request[l], MarkStale[l])
<1>1. "failed" \in Ended
  BY DEF Ended
<1>2. Onward(request[l], request[l]) /\ Onward(request[l], Closed(request[l], "failed"))
  BY <1>1, StaysOnward, ClosedOnward
<1> QED
  BY <1>2 DEF MarkStale

LEMMA SameOnward ==
  ASSUME request \in [Logins -> RequestRow], UNCHANGED request
  PROVE  AllOnward
BY StaysOnward DEF AllOnward

LEMMA OnwardMeans ==
  ASSUME AllOnward
  PROVE  /\ Claimed \subseteq Claimed'
         /\ \A l \in Claimed : ~IsActive(l) => ~IsActive(l)'
BY DEF AllOnward, Onward, Claimed, IsActive

\* The requests go on; the workers and homes rest.
LEMMA RequestsMove ==
  ASSUME LoginInv, AllOnward, UNCHANGED <<worker, homes>>
  PROVE  LoginInv'
<1>1. LoginTypeOK'
  BY DEF LoginInv, LoginTypeOK, AllOnward
<1>2. Claimed \subseteq Claimed' /\ \A l \in Claimed : ~IsActive(l) => ~IsActive(l)'
  BY OnwardMeans
<1>3. \A w \in LoginWorkers : WorkerOK(w)'
  <2> SUFFICES ASSUME NEW w \in LoginWorkers PROVE WorkerOK(w)'
    OBVIOUS
  <2>1. WorkerOK(w)
    BY DEF LoginInv
  <2>2. worker[w].pc \in AtHome => worker[w].pc \in Working
    BY DEF AtHome, Working
  <2>3. worker[w].pc = "read" => worker[w].pc \in Sweeping
    BY DEF Sweeping
  <2> QED
    BY <1>2, <2>1, <2>2, <2>3 DEF WorkerOK
<1> QED
  BY <1>1, <1>2, <1>3 DEF LoginInv, OneWorker

\* One worker's step: what it does not disturb in the others.
LEMMA WorkerMoves ==
  ASSUME LoginInv, AllOnward, NEW w \in LoginWorkers, NEW next \in WorkerRow, worker' = [worker EXCEPT ![w] = next],
         homes' \subseteq Claimed',
         \A v \in LoginWorkers \ {w} :
             worker[v].pc \in AtHome /\ worker[v].login \in homes /\ IsActive(worker[v].login) => worker[v].login \in homes',
         \A v \in LoginWorkers \ {w} :
             next.pc \in Working /\ worker[v].pc \in Working => worker[v].login # next.login,
         WorkerOK(w)'
  PROVE  LoginInv'
<1>1. worker'[w] = next /\ \A v \in LoginWorkers \ {w} : worker'[v] = worker[v]
  BY DEF LoginInv, LoginTypeOK
<1>2. worker' \in [LoginWorkers -> WorkerRow]
  BY DEF LoginInv, LoginTypeOK
<1>3. LoginTypeOK'
  BY <1>2 DEF LoginTypeOK, AllOnward, Claimed
<1>4. Claimed \subseteq Claimed' /\ \A l \in Claimed : ~IsActive(l) => ~IsActive(l)'
  BY OnwardMeans
<1>5. ASSUME NEW v \in LoginWorkers PROVE WorkerOK(v)'
  <2>1. CASE v = w
    BY <2>1
  <2>2. CASE v # w
    <3>1. WorkerOK(v) /\ worker'[v] = worker[v] /\ v \in LoginWorkers \ {w}
      BY <1>1, <2>2 DEF LoginInv
    <3>2. worker[v].pc \in AtHome => worker[v].pc \in Working
      BY DEF AtHome, Working
    <3>3. worker[v].pc = "read" => worker[v].pc \in Sweeping
      BY DEF Sweeping
    <3>4. worker[v].pc \in AtHome /\ IsActive(worker[v].login)' => IsActive(worker[v].login)
      BY <1>4, <3>1, <3>2 DEF WorkerOK
    <3> QED
      BY <1>4, <3>1, <3>2, <3>3, <3>4 DEF WorkerOK
  <2> QED
    BY <2>1, <2>2
<1>6. OneWorker'
  BY <1>1 DEF LoginInv, OneWorker
<1> QED
  BY <1>3, <1>5, <1>6 DEF LoginInv

\* The worker of a request goes on with it.
LEMMA GoesOn ==
  ASSUME LoginInv, AllOnward, UNCHANGED homes, NEW w \in LoginWorkers, worker[w].pc \in Working,
         NEW pc \in Working, LGoes(w, pc),
         pc \in AtHome => worker[w].pc \in AtHome
  PROVE  LoginInv'
<1> DEFINE next == [worker[w] EXCEPT !.pc = pc]
<1>1. worker[w] \in WorkerRow /\ WorkerOK(w) /\ DOMAIN worker = LoginWorkers
  BY DEF LoginInv, LoginTypeOK
<1>2. next \in WorkerRow /\ next.pc = pc /\ next.login = worker[w].login
  BY <1>1 DEF WorkerRow
<1>3. worker' = [worker EXCEPT ![w] = next] /\ worker'[w] = next
  BY <1>1 DEF LGoes
<1> HIDE DEF next
<1>4. Claimed \subseteq Claimed' /\ \A l \in Claimed : ~IsActive(l) => ~IsActive(l)'
  BY OnwardMeans
<1>5. worker[w].login \in Claimed /\ pc \notin Sweeping /\ pc # "read"
  BY <1>1 DEF WorkerOK, Working, Sweeping
<1>6. WorkerOK(w)'
  BY <1>1, <1>2, <1>3, <1>4, <1>5 DEF WorkerOK
<1>7. \A v \in LoginWorkers \ {w} :
         next.pc \in Working /\ worker[v].pc \in Working => worker[v].login # next.login
  BY <1>2 DEF LoginInv, OneWorker
<1>8. homes' \subseteq Claimed'
  BY <1>4 DEF LoginInv
<1> QED
  BY <1>2, <1>3, <1>6, <1>7, <1>8, WorkerMoves

\* A worker is between two requests.
LEMMA Rests ==
  ASSUME LoginInv, AllOnward, NEW w \in LoginWorkers, NEW next \in WorkerRow, next.pc \in {"idle", "ready"},
         worker' = [worker EXCEPT ![w] = next], homes' \subseteq homes,
         \A v \in LoginWorkers \ {w} :
             worker[v].pc \in AtHome /\ worker[v].login \in homes /\ IsActive(worker[v].login) => worker[v].login \in homes'
  PROVE  LoginInv'
<1>1. worker'[w] = next
  BY DEF LoginInv, LoginTypeOK
<1>2. next.pc \notin Working /\ next.pc \notin AtHome /\ next.pc \notin Sweeping /\ next.pc # "read"
  BY DEF Working, AtHome, Sweeping
<1>3. WorkerOK(w)'
  BY <1>1, <1>2 DEF WorkerOK
<1>4. Claimed \subseteq Claimed'
  BY OnwardMeans
<1>5. homes' \subseteq Claimed'
  BY <1>4 DEF LoginInv
<1> QED
  BY <1>2, <1>3, <1>5, WorkerMoves

\* Writing to the request of one worker.
LEMMA Writes ==
  ASSUME LoginInv, NEW l \in Logins
  PROVE  /\ request' = [request EXCEPT ![l] = Closed(@, "failed")] => AllOnward
         /\ request' = [request EXCEPT ![l] = Closed(@, "cancelled")] => AllOnward
<1>1. request[l] \in RequestRow /\ {"failed", "cancelled"} \subseteq Ended /\ request \in [Logins -> RequestRow]
  BY DEF LoginInv, LoginTypeOK, Ended
<1>2. Onward(request[l], Closed(request[l], "failed")) /\ Onward(request[l], Closed(request[l], "cancelled"))
  BY <1>1, ClosedOnward
<1> QED
  BY <1>1, <1>2, OneOnward

\* The panel and time leave the status alone.
LEMMA RowOnward ==
  ASSUME NEW entry \in RequestRow
  PROVE  /\ Onward(entry, [entry EXCEPT !.stale = TRUE])
         /\ Onward(entry, [entry EXCEPT !.box = TRUE])
         /\ Onward(entry, [entry EXCEPT !.expired = TRUE])
BY DEF Onward, RequestRow

LEMMA SweepKeeps ==
  ASSUME LoginInv, NEW w \in LoginWorkers, SweepLists(w) \/ SweepMarks(w) \/ SweepReads(w)
  PROVE  LoginInv'
<1>1. worker[w] \in WorkerRow /\ WorkerOK(w) /\ DOMAIN worker = LoginWorkers /\ request \in [Logins -> RequestRow]
  BY DEF LoginInv, LoginTypeOK
<1>2. {"listed", "marked", "read"} \cap Working = {} /\ {"listed", "marked", "read"} \cap AtHome = {}
  BY DEF Working, AtHome
<1>3. homes \subseteq Claimed /\ homes \subseteq Logins /\ UNCHANGED homes
  BY DEF LoginInv, LoginTypeOK, SweepLists, SweepMarks, SweepReads
<1>4. CASE SweepLists(w)
  <2> DEFINE next == [worker[w] EXCEPT !.pc = "listed", !.listed = homes]
  <2>1. AllOnward
    BY <1>1, <1>4, SameOnward DEF SweepLists
  <2>2. next \in WorkerRow /\ next.pc = "listed" /\ next.listed = homes
    BY <1>1, <1>3 DEF WorkerRow, Sweeping
  <2>3. worker' = [worker EXCEPT ![w] = next] /\ worker'[w] = next
    BY <1>1, <1>4 DEF SweepLists
  <2> HIDE DEF next
  <2>4. Claimed' = Claimed
    BY <1>4 DEF SweepLists, Claimed
  <2>5. WorkerOK(w)'
    BY <1>2, <1>3, <2>2, <2>3, <2>4 DEF WorkerOK
  <2> QED
    BY <1>2, <1>3, <2>1, <2>2, <2>3, <2>4, <2>5, WorkerMoves
<1>5. CASE SweepMarks(w)
  <2> DEFINE next == [worker[w] EXCEPT !.pc = "marked"]
  <2>1. AllOnward
    <3>1. CASE request' = MarkStale
      <4>1. request' \in [Logins -> RequestRow]
        <5>1. \A l \in Logins : MarkStale[l] \in RequestRow
          BY <1>1, MarkStaleOnward DEF Onward
        <5> QED
          BY <3>1, <5>1 DEF MarkStale
      <4> QED
        BY <1>1, <3>1, <4>1, MarkStaleOnward DEF AllOnward
    <3>2. CASE request' = [l \in Logins |-> IF request[l].status \in Ended
                              THEN [request[l] EXCEPT !.status = "deleted"] ELSE MarkStale[l]]
      <4>1. ASSUME NEW l \in Logins PROVE Onward(request[l], request'[l]) /\ request'[l] \in RequestRow
        <5>1. CASE request[l].status \in Ended
          <6>1. Onward(request[l], [request[l] EXCEPT !.status = "deleted"])
            BY <1>1, <5>1 DEF Onward, RequestRow, ActiveStates, Ended
          <6> QED
            BY <3>2, <5>1, <6>1 DEF Onward
        <5>2. CASE request[l].status \notin Ended
          BY <1>1, <3>2, <5>2, MarkStaleOnward DEF Onward
        <5> QED
          BY <5>1, <5>2
      <4> QED
        BY <3>2, <4>1 DEF AllOnward
    <3> QED
      BY <1>5, <3>1, <3>2 DEF SweepMarks
  <2>2. next \in WorkerRow /\ next.pc = "marked" /\ next.listed = worker[w].listed
    BY <1>1 DEF WorkerRow, Sweeping
  <2>3. worker' = [worker EXCEPT ![w] = next] /\ worker'[w] = next
    BY <1>1, <1>5 DEF SweepMarks, LGoes
  <2> HIDE DEF next
  <2>4. Claimed \subseteq Claimed'
    BY <2>1, OnwardMeans
  <2>5. worker[w].listed \subseteq Claimed
    BY <1>1, <1>5 DEF SweepMarks, WorkerOK, Sweeping
  <2>6. WorkerOK(w)'
    BY <1>2, <2>2, <2>3, <2>4, <2>5 DEF WorkerOK
  <2> QED
    BY <1>2, <1>3, <2>1, <2>2, <2>3, <2>4, <2>6, WorkerMoves
<1>6. CASE SweepReads(w)
  <2> DEFINE on   == {l \in Logins : IsActive(l)}
             next == [worker[w] EXCEPT !.pc = "read", !.active = on]
  <2>1. AllOnward
    BY <1>1, <1>6, SameOnward DEF SweepReads
  <2>2. next \in WorkerRow /\ next.pc = "read" /\ next.listed = worker[w].listed /\ next.active = on
    BY <1>1 DEF WorkerRow, Sweeping
  <2>3. worker' = [worker EXCEPT ![w] = next] /\ worker'[w] = next
    BY <1>1, <1>6 DEF SweepReads
  <2>4. \A l \in worker[w].listed \ on : ~IsActive(l)'
    BY <1>1, <1>6 DEF SweepReads, IsActive, WorkerRow
  <2> HIDE DEF next, on
  <2>5. Claimed' = Claimed
    BY <1>6 DEF SweepReads, Claimed
  <2>6. worker[w].listed \subseteq Claimed
    BY <1>1, <1>6 DEF SweepReads, WorkerOK, Sweeping
  <2>7. WorkerOK(w)'
    BY <1>2, <2>2, <2>3, <2>4, <2>5, <2>6 DEF WorkerOK
  <2> QED
    BY <1>2, <1>3, <2>1, <2>2, <2>3, <2>5, <2>7, WorkerMoves
<1> QED
  BY <1>4, <1>5, <1>6

LEMMA RestKeeps ==
  ASSUME LoginInv, NEW w \in LoginWorkers,
         SweepRemoves(w) \/ WorkerStops(w) \/ CloseLogin(w) \/ WorkerDies(w)
  PROVE  LoginInv'
<1>1. worker[w] \in WorkerRow /\ WorkerOK(w) /\ DOMAIN worker = LoginWorkers /\ request \in [Logins -> RequestRow]
  BY DEF LoginInv, LoginTypeOK
<1>2. AllOnward
  BY <1>1, SameOnward DEF SweepRemoves, WorkerStops, CloseLogin, WorkerDies
<1>3. NoLogin \in WorkerRow /\ NoLogin.pc = "idle"
  BY DEF NoLogin, WorkerRow
<1>4. [NoLogin EXCEPT !.pc = "ready"] \in WorkerRow /\ [NoLogin EXCEPT !.pc = "ready"].pc = "ready"
  BY DEF NoLogin, WorkerRow
<1>5. [worker[w] EXCEPT !.pc = "idle"] \in WorkerRow /\ [worker[w] EXCEPT !.pc = "idle"].pc = "idle"
  BY <1>1 DEF WorkerRow
<1>6. CASE SweepRemoves(w)
  <2>1. ASSUME NEW v \in LoginWorkers \ {w}, worker[v].login \in homes, IsActive(worker[v].login)
        PROVE  worker[v].login \in homes'
    BY <1>1, <1>6, <2>1 DEF SweepRemoves, WorkerOK
  <2> QED
    BY <1>2, <1>4, <1>6, <2>1, Rests DEF SweepRemoves
<1>7. CASE WorkerStops(w)
  <2>1. worker' = [worker EXCEPT ![w] = [worker[w] EXCEPT !.pc = "idle"]]
    BY <1>1, <1>7 DEF WorkerStops, LGoes
  <2> QED
    BY <1>2, <1>5, <1>7, <2>1, Rests DEF WorkerStops
<1>8. CASE CloseLogin(w)
  <2>1. worker[w].pc \in Working
    BY <1>8 DEF CloseLogin, Working
  <2>2. ASSUME NEW v \in LoginWorkers \ {w}, worker[v].pc \in AtHome, worker[v].login \in homes
        PROVE  worker[v].login \in homes'
    <3>1. worker[v].pc \in Working
      BY <2>2 DEF AtHome, Working
    <3>2. worker[v].login # worker[w].login
      BY <2>1, <3>1 DEF LoginInv, OneWorker
    <3> QED
      BY <1>8, <2>2, <3>2 DEF CloseLogin
  <2> QED
    BY <1>2, <1>4, <1>8, <2>2, Rests DEF CloseLogin
<1>9. CASE WorkerDies(w)
  BY <1>2, <1>3, <1>9, Rests DEF WorkerDies
<1> QED
  BY <1>6, <1>7, <1>8, <1>9

LEMMA ClaimKeeps ==
  ASSUME LoginInv, NEW w \in LoginWorkers, NEW l \in Logins, ClaimLogin(w, l)
  PROVE  LoginInv'
<1>1. worker[w] \in WorkerRow /\ DOMAIN worker = LoginWorkers /\ request \in [Logins -> RequestRow] /\ request[l] \in RequestRow
  BY DEF LoginInv, LoginTypeOK
<1> DEFINE next == [worker[w] EXCEPT !.pc = "claimed", !.login = l]
           entry  == [request[l] EXCEPT !.status = "starting", !.stale = FALSE]
<1>2. Onward(request[l], entry) /\ entry.status = "starting"
  BY <1>1 DEF ClaimLogin, Onward, RequestRow, ActiveStates
<1>3. request' = [request EXCEPT ![l] = entry] /\ request'[l] = entry
  BY <1>1 DEF ClaimLogin
<1>4. next \in WorkerRow /\ next.pc = "claimed" /\ next.login = l
  BY <1>1 DEF WorkerRow, Working
<1>5. worker' = [worker EXCEPT ![w] = next] /\ worker'[w] = next
  BY <1>1 DEF ClaimLogin
<1> HIDE DEF next, entry
<1>6. AllOnward /\ Claimed \subseteq Claimed' /\ l \in Claimed'
  BY <1>1, <1>2, <1>3, OneOnward, OnwardMeans DEF Claimed
<1>7. l \notin Claimed
  BY DEF ClaimLogin, Claimed
<1>8. WorkerOK(w)'
  BY <1>4, <1>5, <1>6 DEF WorkerOK, AtHome, Sweeping
<1>9. UNCHANGED homes /\ homes' \subseteq Claimed'
  BY <1>6 DEF LoginInv, ClaimLogin
<1>10. \A v \in LoginWorkers \ {w} : worker[v].pc \in Working => worker[v].login # next.login
  BY <1>4, <1>7 DEF LoginInv, WorkerOK
<1> QED
  BY <1>4, <1>5, <1>6, <1>8, <1>9, <1>10, WorkerMoves

LEMMA MakeHomeKeeps ==
  ASSUME LoginInv, NEW w \in LoginWorkers, MakeHome(w)
  PROVE  LoginInv'
<1> DEFINE l == worker[w].login
<1>1. worker[w] \in WorkerRow /\ DOMAIN worker = LoginWorkers /\ request \in [Logins -> RequestRow]
  BY DEF LoginInv, LoginTypeOK
<1>2. worker[w].pc = "claimed" /\ worker[w].pc \in Working /\ l \in Claimed /\ l \in Logins
  BY DEF MakeHome, LoginInv, WorkerOK, Working, Claimed
<1>3. CASE homes' = homes \cup {l} /\ LGoes(w, "prompting") /\ UNCHANGED request
  <2> DEFINE next == [worker[w] EXCEPT !.pc = "prompting"]
  <2>1. next \in WorkerRow /\ next.pc = "prompting" /\ next.login = l
    BY <1>1 DEF WorkerRow, Working
  <2>2. worker' = [worker EXCEPT ![w] = next] /\ worker'[w] = next
    BY <1>1, <1>3 DEF LGoes
  <2>3. AllOnward /\ Claimed' = Claimed
    BY <1>1, <1>3, SameOnward DEF Claimed
  <2> HIDE DEF next
  <2>4. l \in homes' /\ homes \subseteq homes'
    BY <1>3
  <2>5. homes' \subseteq Claimed'
    BY <1>2, <1>3, <2>3 DEF LoginInv
  <2>6. "prompting" \notin Sweeping /\ "prompting" # "read"
    BY DEF Sweeping
  <2>7. WorkerOK(w)'
    BY <1>2, <2>1, <2>2, <2>3, <2>4, <2>6 DEF WorkerOK
  <2>8. \A v \in LoginWorkers \ {w} : worker[v].pc \in Working => worker[v].login # next.login
    BY <1>2, <2>1 DEF LoginInv, OneWorker
  <2> QED
    BY <2>1, <2>2, <2>3, <2>4, <2>5, <2>7, <2>8, WorkerMoves
<1>4. CASE request' = [request EXCEPT ![l] = Closed(@, "failed")] /\ LGoes(w, "ready") /\ UNCHANGED homes
  <2> DEFINE next == [worker[w] EXCEPT !.pc = "ready"]
  <2>1. next \in WorkerRow /\ next.pc = "ready"
    BY <1>1 DEF WorkerRow
  <2>2. worker' = [worker EXCEPT ![w] = next]
    BY <1>1, <1>4 DEF LGoes
  <2>3. AllOnward
    BY <1>2, <1>4, Writes
  <2> HIDE DEF next
  <2> QED
    BY <1>4, <2>1, <2>2, <2>3, Rests
<1> QED
  BY <1>3, <1>4 DEF MakeHome

\* From the prompt to the saved login.
LEMMA RunKeeps ==
  ASSUME LoginInv, NEW w \in LoginWorkers,
         Prompt(w) \/ Watch(w) \/ TakeCode(w) \/ Poll(w) \/ BeginSave(w) \/ Save(w)
  PROVE  LoginInv'
<1> DEFINE l == worker[w].login
<1>1. request \in [Logins -> RequestRow]
  BY DEF LoginInv, LoginTypeOK
<1>2. worker[w].pc \in AtHome /\ worker[w].pc \in Working /\ UNCHANGED homes
  BY DEF Prompt, Watch, TakeCode, Poll, BeginSave, Save, AtHome, Working
<1>3. l \in Logins /\ request[l] \in RequestRow
  BY <1>1, <1>2 DEF LoginInv, WorkerOK, Claimed
<1>4. \E pc \in Working : LGoes(w, pc)
  <2>1. {"closing", "watching", "taking", "polling", "saving", "verifying"} \subseteq Working
    BY DEF Working
  <2>2. Prompt(w) => LGoes(w, "closing") \/ LGoes(w, "watching")
    BY DEF Prompt
  <2>3. Watch(w) => LGoes(w, "closing") \/ LGoes(w, "taking") \/ LGoes(w, "polling")
    BY DEF Watch
  <2>4. TakeCode(w) => LGoes(w, "closing") \/ LGoes(w, "polling")
    BY DEF TakeCode
  <2>5. Poll(w) => LGoes(w, "watching") \/ LGoes(w, "closing") \/ LGoes(w, "saving") \/ LGoes(w, "verifying")
    BY DEF Poll
  <2>6. BeginSave(w) => LGoes(w, "closing") \/ LGoes(w, "saving")
    BY DEF BeginSave
  <2>7. Save(w) => LGoes(w, "closing")
    BY DEF Save
  <2> QED
    BY <2>1, <2>2, <2>3, <2>4, <2>5, <2>6, <2>7
<1>5. AllOnward
  <2>1. UNCHANGED request => AllOnward
    BY <1>1, SameOnward
  <2>2. request' = [request EXCEPT ![l] = Closed(@, "failed")] => AllOnward
    BY <1>3, Writes
  <2>3. CASE Prompt(w)
    <3>1. ASSUME NEW needs \in BOOLEAN, request[l].status = "starting",
                 request' = [request EXCEPT ![l].status = "waiting", ![l].needs = needs, ![l].stale = FALSE]
          PROVE  AllOnward
      <4>1. request' = [request EXCEPT ![l] = [request[l] EXCEPT !.status = "waiting", !.needs = needs, !.stale = FALSE]]
        BY <1>1, <1>3, <3>1
      <4>2. Onward(request[l], [request[l] EXCEPT !.status = "waiting", !.needs = needs, !.stale = FALSE])
        BY <1>3, <3>1 DEF Onward, RequestRow, ActiveStates
      <4> QED
        BY <1>1, <1>3, <4>1, <4>2, OneOnward
    <3> QED
      BY <2>1, <2>2, <2>3, <3>1 DEF Prompt
  <2>4. CASE Watch(w)
    <3>1. ASSUME request' = [request EXCEPT ![l].stale = FALSE] PROVE AllOnward
      <4>1. request' = [request EXCEPT ![l] = [request[l] EXCEPT !.stale = FALSE]]
        BY <1>1, <1>3, <3>1
      <4>2. Onward(request[l], [request[l] EXCEPT !.stale = FALSE])
        BY <1>3 DEF Onward, RequestRow
      <4> QED
        BY <1>1, <1>3, <4>1, <4>2, OneOnward
    <3> QED
      BY <2>1, <2>2, <2>4, <3>1 DEF Watch
  <2>5. CASE TakeCode(w)
    <3>1. ASSUME request[l].status = "waiting", request' = [request EXCEPT ![l].status = "verifying", ![l].box = FALSE]
          PROVE  AllOnward
      <4>1. request' = [request EXCEPT ![l] = [request[l] EXCEPT !.status = "verifying", !.box = FALSE]]
        BY <1>1, <1>3, <3>1
      <4>2. Onward(request[l], [request[l] EXCEPT !.status = "verifying", !.box = FALSE])
        BY <1>3, <3>1 DEF Onward, RequestRow, ActiveStates
      <4> QED
        BY <1>1, <1>3, <4>1, <4>2, OneOnward
    <3> QED
      BY <2>1, <2>2, <2>5, <3>1 DEF TakeCode
  <2>6. CASE Poll(w)
    BY <2>1, <2>2, <2>6 DEF Poll
  <2>7. CASE BeginSave(w)
    <3>1. ASSUME request[l].status = "waiting", request' = [request EXCEPT ![l].status = "verifying"]
          PROVE  AllOnward
      <4>1. request' = [request EXCEPT ![l] = [request[l] EXCEPT !.status = "verifying"]]
        BY <1>1, <1>3, <3>1
      <4>2. Onward(request[l], [request[l] EXCEPT !.status = "verifying"])
        BY <1>3, <3>1 DEF Onward, RequestRow, ActiveStates
      <4> QED
        BY <1>1, <1>3, <4>1, <4>2, OneOnward
    <3> QED
      BY <2>1, <2>7, <3>1 DEF BeginSave
  <2>8. CASE Save(w)
    <3>1. ASSUME request[l].status = "verifying", request' = [request EXCEPT ![l].status = "done", ![l].box = FALSE]
          PROVE  AllOnward
      <4>1. request' = [request EXCEPT ![l] = [request[l] EXCEPT !.status = "done", !.box = FALSE]]
        BY <1>1, <1>3, <3>1
      <4>2. Onward(request[l], [request[l] EXCEPT !.status = "done", !.box = FALSE])
        BY <1>3, <3>1 DEF Onward, RequestRow, ActiveStates, Ended
      <4> QED
        BY <1>1, <1>3, <4>1, <4>2, OneOnward
    <3> QED
      BY <2>1, <2>2, <2>8, <3>1 DEF Save
  <2> QED
    BY <2>3, <2>4, <2>5, <2>6, <2>7, <2>8
<1> QED
  BY <1>2, <1>4, <1>5, GoesOn

\* The panel and time.
LEMMA OutsideKeeps ==
  ASSUME LoginInv, NEW l \in Logins,
         RequestLogin(l) \/ PutCode(l) \/ CancelLogin(l) \/ Expires(l) \/ GoesStale(l)
  PROVE  LoginInv'
<1>1. request \in [Logins -> RequestRow] /\ request[l] \in RequestRow
  BY DEF LoginInv, LoginTypeOK
<1>2. UNCHANGED <<worker, homes>>
  BY DEF RequestLogin, PutCode, CancelLogin, Expires, GoesStale
<1>3. ASSUME NEW entry, Onward(request[l], entry), request' = [request EXCEPT ![l] = entry] PROVE AllOnward
  BY <1>1, <1>3, OneOnward
<1>4. CASE RequestLogin(l)
  <2>1. ASSUME NEW k \in Logins PROVE Onward(request[k], MarkStale[k]) /\ MarkStale[k] \in RequestRow
    BY <1>1, MarkStaleOnward DEF Onward
  <2>2. MarkStale \in [Logins -> RequestRow]
    BY <2>1 DEF MarkStale
  <2>3. MarkStale[l].status = "none" /\ Onward(request[l], [MarkStale[l] EXCEPT !.status = "pending"])
    <3>1. request[l].status = "none"
      BY <1>4 DEF RequestLogin
    <3>2. MarkStale[l] = request[l]
      BY <1>1, <3>1 DEF MarkStale, Closed, ActiveStates
    <3> QED
      BY <1>1, <3>1, <3>2 DEF Onward, RequestRow, ActiveStates
  <2>4. ASSUME request' = MarkStale PROVE AllOnward
    BY <2>1, <2>2, <2>4 DEF AllOnward
  <2>5. ASSUME request' = [MarkStale EXCEPT ![l].status = "pending"] PROVE AllOnward
    <3> DEFINE entry == [MarkStale[l] EXCEPT !.status = "pending"]
    <3>1. entry \in RequestRow
      BY <2>3 DEF Onward
    <3>2. request' = [MarkStale EXCEPT ![l] = entry]
      BY <2>5
    <3> HIDE DEF entry
    <3>3. request' \in [Logins -> RequestRow] /\ request'[l] = entry /\ \A k \in Logins \ {l} : request'[k] = MarkStale[k]
      BY <2>2, <3>1, <3>2
    <3> QED
      BY <2>1, <2>3, <3>3 DEF AllOnward, entry
  <2>6. AllOnward
    BY <1>4, <2>4, <2>5 DEF RequestLogin
  <2> QED
    BY <1>2, <2>6, RequestsMove
<1>5. CASE PutCode(l)
  <2>1. request' = [request EXCEPT ![l] = [request[l] EXCEPT !.box = TRUE]]
    BY <1>1, <1>5 DEF PutCode
  <2> QED
    BY <1>1, <1>2, <1>3, <2>1, RowOnward, RequestsMove
<1>6. CASE CancelLogin(l)
  BY <1>2, <1>6, Writes, RequestsMove DEF CancelLogin
<1>7. CASE Expires(l)
  <2>1. request' = [request EXCEPT ![l] = [request[l] EXCEPT !.expired = TRUE]]
    BY <1>1, <1>7 DEF Expires
  <2> QED
    BY <1>1, <1>2, <1>3, <2>1, RowOnward, RequestsMove
<1>8. CASE GoesStale(l)
  <2>1. request' = [request EXCEPT ![l] = [request[l] EXCEPT !.stale = TRUE]]
    BY <1>1, <1>8 DEF GoesStale
  <2> QED
    BY <1>1, <1>2, <1>3, <2>1, RowOnward, RequestsMove
<1> QED
  BY <1>4, <1>5, <1>6, <1>7, <1>8

\* The sweep of one worker never removes the HOME of a sign-in that another still drives, for any
\* requests, workers and bounds (credential_login.py, sweep: the homes are listed, then the requests read).
THEOREM HomesAreKept == LoginSpec => []HomeKept
<1>1. LoginInv /\ [LoginNext]_loginVars => LoginInv'
  <2> SUFFICES ASSUME LoginInv, [LoginNext]_loginVars PROVE LoginInv'
    OBVIOUS
  <2>1. ASSUME NEW w \in LoginWorkers, LoginStep(w) \/ WorkerDies(w) PROVE LoginInv'
    BY <2>1, SweepKeeps, RestKeeps, ClaimKeeps, MakeHomeKeeps, RunKeeps DEF LoginStep
  <2>2. ASSUME NEW l \in Logins, RequestLogin(l) \/ PutCode(l) \/ CancelLogin(l) \/ Expires(l) \/ GoesStale(l)
        PROVE  LoginInv'
    BY <2>2, OutsideKeeps
  <2>3. CASE AccountChanges \/ UNCHANGED loginVars
    <3>1. UNCHANGED <<request, worker, homes>>
      BY <2>3 DEF AccountChanges, loginVars
    <3> QED
      BY <3>1, SameOnward, RequestsMove DEF LoginInv, LoginTypeOK
  <2> QED
    BY <2>1, <2>2, <2>3 DEF LoginNext
<1> QED
  BY <1>1, LoginInitInv, LoginInvSafe, PTL DEF LoginSpec

-----------------------------------------------------------------------------
(* Launches of a mini-app *)

Contents == [artifact : Int, version : Int]
AppRequests == [op : {"none", "approve", "preview", "launch", "unapprove", "admit", "expel", "delete"},
             pc : Holding \cup {"done", "lock"}, content : Contents]

AppTypeOK ==
    /\ store \in [there : BOOLEAN, artifact : Int, version : Int, row : BOOLEAN, late : BOOLEAN]
    /\ approved \in Contents /\ members \subseteq Panelists
    /\ live \subseteq [user : Panelists, content : Contents]
    /\ panel \in [Panelists -> AppRequests]
    /\ appLeft \in [publish : Nat, request : Nat, fail : Nat]

\* One request holds the retention lock; a deletion that revoked has left no launch.
OneRetainer == \A u, v \in Panelists : panel[u].pc \in Holding /\ panel[v].pc \in Holding => u = v
Revoking(u) == panel[u].op = "delete" /\ panel[u].pc \in {"store", "row"} => live = {}

\* Who has a live launch is a member, and members hang on the row of the artifact.
MembersLaunch ==
    /\ \A l \in live : l.user \in members
    /\ members # {} => store.row

AppInv == AppTypeOK /\ OneRetainer /\ (\A u \in Panelists : Revoking(u)) /\ MembersLaunch

LEMMA AppInitInv == AppInit => AppInv
<1> SUFFICES ASSUME AppInit PROVE AppInv
  OBVIOUS
<1>1. None \in Contents
  BY DEF None, Contents
<1>2. panel \in [Panelists -> AppRequests] /\ \A u \in Panelists : panel[u].pc = "done"
  BY <1>1 DEF AppInit, NoPanel, AppRequests
<1>3. AppTypeOK
  BY <1>1, <1>2, AppBudgetsAssumption DEF AppInit, AppTypeOK
<1> QED
  BY <1>2, <1>3 DEF AppInit, AppInv, OneRetainer, Revoking, MembersLaunch, Holding

\* What a request writes to its own row.
LEMMA RequestRows ==
  ASSUME NEW entry \in AppRequests, NEW pc \in Holding \cup {"done", "lock"}, NEW content \in Contents
  PROVE  /\ [entry EXCEPT !.pc = pc] \in AppRequests
         /\ [entry EXCEPT !.pc = pc].pc = pc
         /\ [entry EXCEPT !.pc = pc].op = entry.op
         /\ [entry EXCEPT !.pc = pc].content = entry.content
         /\ [entry EXCEPT !.pc = pc, !.content = content] \in AppRequests
         /\ [entry EXCEPT !.pc = pc, !.content = content].pc = pc
         /\ [entry EXCEPT !.pc = pc, !.content = content].op = entry.op
         /\ [entry EXCEPT !.pc = pc, !.content = content].content = content
BY DEF AppRequests

LEMMA NoPanelRow == NoPanel \in AppRequests /\ NoPanel.pc = "done" /\ NoPanel.op = "none"
BY DEF NoPanel, AppRequests, None, Contents

LEMMA BudgetStays ==
  ASSUME AppTypeOK, NEW k \in {"publish", "request", "fail"}, Costs(k) \/ UNCHANGED appLeft
  PROVE  /\ appLeft' \in [publish : Nat, request : Nat, fail : Nat]
         /\ appLeft.fail = 0 => appLeft'.fail = 0
         /\ Costs("fail") => appLeft.fail # 0
BY DEF AppTypeOK, Costs

\* The invariant after a step of one request that keeps the lock to one.
LEMMA RequestMoves ==
  ASSUME AppInv, NEW u \in Panelists, NEW entry \in AppRequests, panel' = [panel EXCEPT ![u] = entry],
         entry.pc \in Holding => panel[u].pc \in Holding \/ Free,
         entry.op = "delete" /\ entry.pc \in {"store", "row"} => live' = {},
         live' # {} => live = live' \/ panel[u].pc \in Holding,
         /\ store' \in [there : BOOLEAN, artifact : Int, version : Int, row : BOOLEAN, late : BOOLEAN]
         /\ approved' \in Contents /\ members' \subseteq Panelists
         /\ live' \subseteq [user : Panelists, content : Contents]
         /\ appLeft' \in [publish : Nat, request : Nat, fail : Nat],
         MembersLaunch'
  PROVE  AppInv'
<1>1. panel'[u] = entry /\ \A v \in Panelists \ {u} : panel'[v] = panel[v]
  BY DEF AppInv, AppTypeOK
<1>2. AppTypeOK'
  BY DEF AppInv, AppTypeOK
<1>3. OneRetainer'
  BY <1>1 DEF AppInv, OneRetainer, Free
<1>4. ASSUME NEW v \in Panelists PROVE Revoking(v)'
  <2>1. CASE v = u
    BY <1>1, <2>1 DEF Revoking
  <2>2. CASE v # u
    <3>1. panel'[v] = panel[v] /\ Revoking(v)
      BY <1>1, <2>2 DEF AppInv
    <3>2. {"store", "row"} \subseteq Holding
      BY DEF Holding
    <3>3. panel[v].pc \in Holding => panel[u].pc \notin Holding
      BY <2>2 DEF AppInv, OneRetainer
    <3> QED
      BY <3>1, <3>2, <3>3 DEF Revoking
  <2> QED
    BY <2>1, <2>2
<1> QED
  BY <1>2, <1>3, <1>4 DEF AppInv

\* Ends(u), and Goes(u, pc).
LEMMA EndsMoves ==
  ASSUME AppInv, NEW u \in Panelists, Ends(u), MembersLaunch',
         live' # {} => live = live' \/ panel[u].pc \in Holding,
         /\ store' \in [there : BOOLEAN, artifact : Int, version : Int, row : BOOLEAN, late : BOOLEAN]
         /\ approved' \in Contents /\ members' \subseteq Panelists
         /\ live' \subseteq [user : Panelists, content : Contents]
         /\ appLeft' \in [publish : Nat, request : Nat, fail : Nat]
  PROVE  AppInv'
<1>1. "done" \notin Holding
  BY DEF Holding
<1>2. panel' = [panel EXCEPT ![u] = NoPanel]
  BY DEF Ends
<1> QED
  BY <1>1, <1>2, NoPanelRow, RequestMoves

LEMMA GoesMoves ==
  ASSUME AppInv, NEW u \in Panelists, NEW pc \in Holding \cup {"lock"}, Goes(u, pc), MembersLaunch',
         pc \in Holding => panel[u].pc \in Holding \/ Free,
         panel[u].op = "delete" /\ pc \in {"store", "row"} => live' = {},
         live' # {} => live = live',
         /\ store' \in [there : BOOLEAN, artifact : Int, version : Int, row : BOOLEAN, late : BOOLEAN]
         /\ approved' \in Contents /\ members' \subseteq Panelists
         /\ live' \subseteq [user : Panelists, content : Contents]
         /\ appLeft' \in [publish : Nat, request : Nat, fail : Nat]
  PROVE  AppInv'
<1>1. panel[u] \in AppRequests /\ None \in Contents /\ panel \in [Panelists -> AppRequests]
  BY DEF AppInv, AppTypeOK, None, Contents
<1> DEFINE entry == [panel[u] EXCEPT !.pc = pc]
<1>2. entry \in AppRequests /\ entry.pc = pc /\ entry.op = panel[u].op
  BY <1>1 DEF AppRequests
<1>3. panel' = [panel EXCEPT ![u] = entry]
  BY <1>1 DEF Goes
<1> HIDE DEF entry
<1> QED
  BY <1>2, <1>3, RequestMoves

\* The store and who may launch, when neither members nor launches change.
LEMMA SameMembers ==
  ASSUME MembersLaunch, UNCHANGED <<members, live>>, store.row => store'.row
  PROVE  MembersLaunch'
BY DEF MembersLaunch

LEMMA AskKeeps ==
  ASSUME AppInv, NEW u \in Panelists, NEW op \in {"approve", "preview", "launch", "unapprove", "admit", "expel", "delete"}, Ask(u, op)
  PROVE  AppInv'
<1> DEFINE entry == [NoPanel EXCEPT !.op = op, !.pc = "lock"]
<1>1. entry \in AppRequests /\ entry.pc = "lock"
  <2> DEFINE idle == NoPanel
  <2>1. idle \in AppRequests
    BY NoPanelRow
  <2> HIDE DEF idle
  <2>2. [idle EXCEPT !.op = op, !.pc = "lock"] \in AppRequests /\ [idle EXCEPT !.op = op, !.pc = "lock"].pc = "lock"
    BY <2>1 DEF AppRequests
  <2> QED
    BY <2>2 DEF idle
<1>2. panel' = [panel EXCEPT ![u] = entry] /\ "lock" \notin Holding /\ "lock" \notin {"store", "row"}
  BY DEF Ask, Holding
<1>3. MembersLaunch' /\ UNCHANGED <<store, approved, members, live>>
  BY SameMembers DEF Ask, AppInv
<1>4. appLeft' \in [publish : Nat, request : Nat, fail : Nat]
  BY BudgetStays DEF Ask, AppInv
<1> HIDE DEF entry
<1>5. AppTypeOK
  BY DEF AppInv
<1> QED
  BY <1>1, <1>2, <1>3, <1>4, <1>5, RequestMoves DEF AppTypeOK

LEMMA RetentionKeeps ==
  ASSUME AppInv, NEW u \in Panelists, TakeRetention(u)
  PROVE  AppInv'
<1>1. UNCHANGED <<store, approved, members, live, appLeft>> /\ AppTypeOK /\ MembersLaunch'
  BY SameMembers DEF TakeRetention, AppInv
<1>2. CASE Free /\ Goes(u, FirstStep(panel[u].op))
  <2> DEFINE pc == FirstStep(panel[u].op)
  <2>1. pc \in Holding /\ pc \notin {"store", "row"}
    BY DEF FirstStep, Holding
  <2> HIDE DEF pc
  <2>2. Goes(u, pc) /\ Free
    BY <1>2 DEF pc
  <2> QED
    BY <1>1, <2>1, <2>2, GoesMoves DEF AppTypeOK
<1>3. CASE Ends(u)
  BY <1>1, <1>3, EndsMoves DEF AppTypeOK
<1> QED
  BY <1>2, <1>3 DEF TakeRetention

LEMMA ResolveKeeps ==
  ASSUME AppInv, NEW u \in Panelists, ResolveVersion(u)
  PROVE  AppInv'
<1>1. UNCHANGED <<store, members, live, appLeft>> /\ AppTypeOK /\ MembersLaunch' /\ panel[u].pc \in Holding
  BY SameMembers DEF ResolveVersion, AppInv, Holding
<1> DEFINE content == IF panel[u].op = "launch" THEN approved ELSE Current
           entry     == [panel[u] EXCEPT !.pc = "write", !.content = content]
<1>2. content \in Contents
  BY <1>1 DEF AppTypeOK, Current, Contents
<1>3. CASE panel' = [panel EXCEPT ![u].pc = "write", ![u].content = content] /\ UNCHANGED approved
  <2> HIDE DEF content
  <2>1. entry \in AppRequests /\ entry.pc = "write" /\ panel[u] \in AppRequests
    BY <1>1, <1>2 DEF AppTypeOK, AppRequests, Holding
  <2>2. panel' = [panel EXCEPT ![u] = entry]
    BY <1>1, <1>3 DEF AppTypeOK
  <2>3. "write" \notin {"store", "row"}
    OBVIOUS
  <2> HIDE DEF entry
  <2> QED
    BY <1>1, <1>3, <2>1, <2>2, <2>3, RequestMoves DEF AppTypeOK
<1>4. CASE Ends(u) /\ approved' \in {None, approved}
  <2>1. approved' \in Contents
    BY <1>1, <1>4 DEF AppTypeOK, None, Contents
  <2> QED
    BY <1>1, <1>4, <2>1, EndsMoves DEF AppTypeOK
<1> QED
  BY <1>3, <1>4 DEF ResolveVersion

\* What is written under the approvals and the members.
LEMMA WriteKeeps ==
  ASSUME AppInv, NEW u \in Panelists,
         \/ Approve(u) \/ Launch(u) \/ RevokeApproval(u) \/ DropActivations(u)
         \/ \E v \in Panelists : PutMember(u, v) \/ DeleteMember(u, v)
  PROVE  AppInv'
<1>1. AppTypeOK /\ MembersLaunch /\ panel[u].content \in Contents /\ None \in Contents
  BY DEF AppInv, AppTypeOK, AppRequests, None, Contents
<1>2. Ends(u) /\ UNCHANGED store
  BY DEF Approve, Launch, RevokeApproval, DropActivations, PutMember, DeleteMember
<1>3. appLeft' \in [publish : Nat, request : Nat, fail : Nat]
  BY <1>1, BudgetStays DEF Approve, Launch, RevokeApproval, DropActivations, PutMember, DeleteMember, AppTypeOK
<1>4. approved' \in Contents
  BY <1>1 DEF Approve, Launch, RevokeApproval, DropActivations, PutMember, DeleteMember, AppTypeOK
<1>5. CASE UNCHANGED <<members, live>>
  BY <1>1, <1>2, <1>3, <1>4, <1>5, SameMembers, EndsMoves DEF AppTypeOK
<1>6. CASE Launch(u)
  <2> DEFINE new == [user |-> u, content |-> panel[u].content]
  <2>1. new \in [user : Panelists, content : Contents] /\ new.user = u
    BY <1>1
  <2>2. members' = members /\ live' \in {live, live \cup {new}} /\ (u \notin members => live' = live)
    BY <1>6 DEF Launch
  <2> HIDE DEF new
  <2>3. MembersLaunch' /\ live' \subseteq [user : Panelists, content : Contents] /\ panel[u].pc \in Holding
    BY <1>1, <1>2, <1>6, <2>1, <2>2 DEF MembersLaunch, AppTypeOK, Launch, Holding
  <2> QED
    BY <1>1, <1>2, <1>3, <1>4, <2>2, <2>3, EndsMoves DEF AppTypeOK
<1>7. ASSUME NEW v \in Panelists, PutMember(u, v) PROVE AppInv'
  <2>1. MembersLaunch' /\ members' \subseteq Panelists /\ UNCHANGED live
    BY <1>1, <1>7 DEF PutMember, MembersLaunch, AppTypeOK
  <2> QED
    BY <1>1, <1>2, <1>3, <1>4, <2>1, EndsMoves DEF AppTypeOK
<1>8. ASSUME NEW v \in Panelists, DeleteMember(u, v) PROVE AppInv'
  <2>1. MembersLaunch' /\ members' \subseteq Panelists /\ live' \in {{}, live}
    BY <1>1, <1>8 DEF DeleteMember, MembersLaunch, AppTypeOK
  <2> QED
    BY <1>1, <1>2, <1>3, <1>4, <2>1, EndsMoves DEF AppTypeOK
<1> QED
  BY <1>5, <1>6, <1>7, <1>8 DEF Approve, RevokeApproval, DropActivations

\* The three steps of a deletion, and a process that dies in one.
LEMMA DeletionKeeps ==
  ASSUME AppInv, NEW u \in Panelists,
         RevokeForArtifact(u) \/ DeleteFromStore(u) \/ DeleteArtifactRow(u) \/ WebDies(u)
  PROVE  AppInv'
<1>1. AppTypeOK /\ MembersLaunch /\ Revoking(u) /\ panel[u].pc \in Holding /\ UNCHANGED approved
  BY DEF AppInv, RevokeForArtifact, DeleteFromStore, DeleteArtifactRow, WebDies, Doing, Holding
<1>2. appLeft' \in [publish : Nat, request : Nat, fail : Nat]
  BY <1>1, BudgetStays DEF RevokeForArtifact, DeleteFromStore, DeleteArtifactRow, WebDies, AppTypeOK
<1>3. {"store", "row", "event"} \subseteq Holding
  BY DEF Holding
<1>4. CASE RevokeForArtifact(u)
  <2>1. MembersLaunch' /\ live' = {} /\ UNCHANGED <<store, members>> /\ Goes(u, "store")
    BY <1>1, <1>4 DEF RevokeForArtifact, MembersLaunch
  <2> QED
    BY <1>1, <1>2, <1>3, <2>1, GoesMoves DEF AppTypeOK
<1>5. ASSUME UNCHANGED <<members, live>>, Ends(u),
             \/ store' = store
             \/ store' = [store EXCEPT !.late = TRUE]
             \/ store' = [store EXCEPT !.late = @ \/ panel[u].pc = "store"]
      PROVE  AppInv'
  <2>1. store' \in [there : BOOLEAN, artifact : Int, version : Int, row : BOOLEAN, late : BOOLEAN] /\ store'.row = store.row
    BY <1>1, <1>5 DEF AppTypeOK
  <2> QED
    BY <1>1, <1>2, <1>5, <2>1, SameMembers, EndsMoves DEF AppTypeOK
<1>6. CASE DeleteFromStore(u)
  <2>1. CASE store' = [store EXCEPT !.there = FALSE] /\ Goes(u, "row")
    <3>1. store' \in [there : BOOLEAN, artifact : Int, version : Int, row : BOOLEAN, late : BOOLEAN] /\ store'.row = store.row
      BY <1>1, <2>1 DEF AppTypeOK
    <3>2. live' = {} /\ UNCHANGED <<members, live>>
      BY <1>1, <1>6 DEF DeleteFromStore, Revoking, Doing
    <3> QED
      BY <1>1, <1>2, <1>3, <2>1, <3>1, <3>2, SameMembers, GoesMoves DEF AppTypeOK
  <2> QED
    BY <1>5, <1>6, <2>1 DEF DeleteFromStore
<1>7. CASE DeleteArtifactRow(u)
  <2>1. store' \in [there : BOOLEAN, artifact : Int, version : Int, row : BOOLEAN, late : BOOLEAN]
    BY <1>1, <1>7 DEF AppTypeOK, DeleteArtifactRow
  <2>2. members' = {} /\ live' = {} /\ UNCHANGED live /\ Goes(u, "event")
    BY <1>1, <1>7 DEF DeleteArtifactRow, Revoking, Doing
  <2>3. MembersLaunch' /\ "event" \notin {"store", "row"}
    BY <2>2 DEF MembersLaunch
  <2> QED
    BY <1>1, <1>2, <1>3, <2>1, <2>2, <2>3, GoesMoves DEF AppTypeOK
<1>8. CASE WebDies(u)
  BY <1>5, <1>8 DEF WebDies
<1> QED
  BY <1>4, <1>6, <1>7, <1>8

\* The toolbox, and the creator of a new artifact.
LEMMA StoreKeeps ==
  ASSUME AppInv, UNCHANGED panel, Publish \/ LateDeletion \/ \E u \in Panelists : CreatorJoins(u)
  PROVE  AppInv'
<1>1. AppTypeOK /\ MembersLaunch /\ UNCHANGED <<approved, live>>
  BY DEF AppInv, Publish, LateDeletion, CreatorJoins
<1>2. appLeft' \in [publish : Nat, request : Nat, fail : Nat]
  BY <1>1, BudgetStays DEF Publish, LateDeletion, CreatorJoins, AppTypeOK
<1>3. store' \in [there : BOOLEAN, artifact : Int, version : Int, row : BOOLEAN, late : BOOLEAN] /\ (store.row => store'.row)
  <2>1. CASE Publish
    <3>1. CASE store' = [store EXCEPT !.version = @ + 1]
      BY <1>1, <3>1 DEF AppTypeOK
    <3>2. CASE store' = [store EXCEPT !.there = TRUE, !.artifact = @ + 1, !.version = 1, !.row = TRUE]
      <4> DEFINE next == store.artifact + 1
      <4>1. next \in Int /\ store' = [store EXCEPT !.there = TRUE, !.artifact = next, !.version = 1, !.row = TRUE]
        BY <1>1, <3>2 DEF AppTypeOK
      <4> HIDE DEF next
      <4>2. store' = [there |-> TRUE, artifact |-> next, version |-> 1, row |-> TRUE, late |-> store.late]
        BY <1>1, <4>1 DEF AppTypeOK
      <4>3. store.late \in BOOLEAN
        BY <1>1 DEF AppTypeOK
      <4>4. store'.row
        BY <4>2
      <4>5. store' \in [there : BOOLEAN, artifact : Int, version : Int, row : BOOLEAN, late : BOOLEAN]
        <5>1. next \in Int
          BY <4>1
        <5> QED
          BY <4>2, <4>3, <5>1
      <4> QED
        BY <4>4, <4>5
    <3> QED
      BY <2>1, <3>1, <3>2 DEF Publish
  <2>2. CASE LateDeletion
    BY <1>1, <2>2 DEF AppTypeOK, LateDeletion
  <2>3. CASE \E u \in Panelists : CreatorJoins(u)
    BY <1>1, <2>3 DEF AppTypeOK, CreatorJoins
  <2> QED
    BY <2>1, <2>2, <2>3
<1>4. members' \subseteq Panelists /\ MembersLaunch'
  <2>1. CASE UNCHANGED members
    BY <1>1, <1>3, <2>1, SameMembers DEF AppTypeOK
  <2>2. CASE \E u \in Panelists : CreatorJoins(u)
    BY <1>1, <2>2 DEF CreatorJoins, MembersLaunch
  <2> QED
    BY <2>1, <2>2 DEF Publish, LateDeletion
<1>5. AppTypeOK'
  BY <1>1, <1>2, <1>3, <1>4 DEF AppTypeOK
<1> QED
  BY <1>1, <1>4, <1>5 DEF AppInv, OneRetainer, Revoking

LEMMA AppNextInv == AppInv /\ [AppNext]_appVars => AppInv'
<1> SUFFICES ASSUME AppInv, [AppNext]_appVars PROVE AppInv'
  OBVIOUS
<1>1. CASE UNCHANGED appVars
  BY <1>1 DEF appVars, AppInv, AppTypeOK, OneRetainer, Revoking, MembersLaunch, Contents, AppRequests
<1>2. CASE Publish \/ LateDeletion
  BY <1>2, StoreKeeps DEF Publish, LateDeletion
<1>3. ASSUME NEW u \in Panelists, CreatorJoins(u) PROVE AppInv'
  BY <1>3, StoreKeeps DEF CreatorJoins
<1>4. CASE AppNext /\ ~(Publish \/ LateDeletion \/ \E u \in Panelists : CreatorJoins(u))
  <2>1. PICK u \in Panelists :
           \/ \E op \in {"approve", "preview", "launch", "unapprove", "admit", "expel", "delete"} : Ask(u, op)
           \/ TakeRetention(u) \/ ResolveVersion(u) \/ Approve(u) \/ Launch(u) \/ RevokeApproval(u)
           \/ RevokeForArtifact(u) \/ DeleteFromStore(u)
           \/ DeleteArtifactRow(u) \/ DropActivations(u) \/ WebDies(u)
           \/ \E v \in Panelists : PutMember(u, v) \/ DeleteMember(u, v)
    BY <1>4 DEF AppNext
  <2> QED
    BY <2>1, AskKeeps, RetentionKeeps, ResolveKeeps, WriteKeeps, DeletionKeeps
<1> QED
  BY <1>1, <1>2, <1>3, <1>4

\* The live launches of an app are those of its members, and end with its row.
LaunchersAreMembers == \A l \in live : l.user \in members /\ store.row

\* No launch outlives the membership that allowed it, nor the row of the artifact, whatever fails
\* and however late the toolbox deletes (settings.py:111-112).
THEOREM MembersOnlyLaunch == AppSpec => []LaunchersAreMembers
<1>1. AppInv => LaunchersAreMembers
  BY DEF AppInv, MembersLaunch, LaunchersAreMembers
<1> QED
  BY <1>1, AppInitInv, AppNextInv, PTL DEF AppSpec

\* No request fails: every deletion the toolbox began has ended before its request does.
NothingFails == \A b \in AppBudgets : b.fail = 0

\* Then the artifact that a launch is written for is the one that was resolved.
WritesCurrent(u) ==
    panel[u].op \in {"launch", "preview"} /\ panel[u].pc = "write" =>
        store.there /\ panel[u].content.artifact = store.artifact

ContentInv ==
    /\ AppInv
    /\ appLeft.fail = 0 /\ ~store.late
    /\ \A u \in Panelists : WritesCurrent(u)
    /\ \A l \in live : l.content.artifact = store.artifact

\* A step of the requests that leaves the artifact where it is, or finds no launch being written.
LEMMA ContentStays ==
  ASSUME ContentInv, AppInv', appLeft'.fail = 0, UNCHANGED store,
         \A l \in live' : l \in live \/ l.content.artifact = store.artifact,
         \A u \in Panelists : panel'[u] = panel[u] \/ panel'[u].pc # "write" \/ WritesCurrent(u)'
  PROVE  ContentInv'
<1>1. \A u \in Panelists : WritesCurrent(u)'
  BY DEF ContentInv, WritesCurrent
<1> QED
  BY <1>1 DEF ContentInv

LEMMA FailsNever ==
  ASSUME ContentInv, [AppNext]_appVars
  PROVE  appLeft'.fail = 0 /\ ~Costs("fail") /\ ~LateDeletion
<1>1. AppTypeOK /\ appLeft.fail = 0 /\ ~store.late
  BY DEF ContentInv, AppInv
<1>2. ~Costs("fail") /\ ~LateDeletion
  BY <1>1 DEF Costs, LateDeletion
<1>3. Costs("publish") \/ Costs("request") \/ UNCHANGED appLeft
  BY <1>2 DEF AppNext, Publish, Ask, TakeRetention, ResolveVersion, Approve, Launch, RevokeApproval, RevokeForArtifact,
        DeleteFromStore, DeleteArtifactRow, DropActivations, WebDies, CreatorJoins, PutMember, DeleteMember, appVars
<1>4. appLeft'.fail = 0
  BY <1>1, <1>3, BudgetStays
<1> QED
  BY <1>2, <1>4

LEMMA ContentNextInv == ContentInv /\ [AppNext]_appVars => ContentInv'
<1> SUFFICES ASSUME ContentInv, [AppNext]_appVars PROVE ContentInv'
  OBVIOUS
<1>1. AppInv /\ AppInv' /\ AppTypeOK /\ MembersLaunch /\ OneRetainer
  BY AppNextInv DEF ContentInv, AppInv
<1>2. appLeft'.fail = 0 /\ ~Costs("fail") /\ ~LateDeletion
  BY FailsNever
<1>3. \A u \in Panelists : Ends(u) =>
         \A v \in Panelists : panel'[v] = panel[v] \/ panel'[v].pc # "write"
  BY <1>1, NoPanelRow DEF Ends, AppTypeOK
<1>4. ASSUME NEW u \in Panelists, NEW pc \in Holding \cup {"lock"}, Goes(u, pc), pc = "write" => panel[u].op = "expel"
      PROVE  \A v \in Panelists : panel'[v] = panel[v] \/ panel'[v].pc # "write" \/ WritesCurrent(v)'
  <2>1. panel'[u].pc = pc /\ panel'[u].op = panel[u].op /\ \A v \in Panelists \ {u} : panel'[v] = panel[v]
    BY <1>1, <1>4 DEF Goes, AppTypeOK, AppRequests
  <2> QED
    BY <1>4, <2>1 DEF WritesCurrent
<1>5. CASE UNCHANGED appVars
  BY <1>1, <1>2, <1>5, ContentStays DEF appVars
<1>6. CASE Publish
  <2>1. CASE store.there /\ store' = [store EXCEPT !.version = @ + 1]
    <3>1. store'.there = store.there /\ store'.artifact = store.artifact /\ store'.late = store.late
      BY <1>1, <2>1 DEF AppTypeOK
    <3> QED
      BY <1>1, <1>2, <1>6, <3>1 DEF ContentInv, WritesCurrent, Publish
  <2>2. CASE ~store.there /\ ~store.row /\ store' = [store EXCEPT !.there = TRUE, !.artifact = @ + 1, !.version = 1, !.row = TRUE]
    <3>1. live = {} /\ store'.late = store.late
      BY <1>1, <2>2 DEF MembersLaunch, AppTypeOK
    <3>2. \A u \in Panelists : ~(panel[u].op \in {"launch", "preview"} /\ panel[u].pc = "write")
      BY <2>2 DEF ContentInv, WritesCurrent
    <3> QED
      BY <1>1, <1>2, <1>6, <3>1, <3>2 DEF ContentInv, WritesCurrent, Publish
  <2> QED
    BY <1>6, <2>1, <2>2 DEF Publish
<1>7. ASSUME NEW u \in Panelists, CreatorJoins(u) PROVE ContentInv'
  BY <1>1, <1>2, <1>7, ContentStays DEF CreatorJoins
<1>8. ASSUME NEW u \in Panelists, NEW op \in {"approve", "preview", "launch", "unapprove", "admit", "expel", "delete"}, Ask(u, op)
      PROVE  ContentInv'
  <2>1. \A v \in Panelists : panel'[v] = panel[v] \/ panel'[v].pc # "write"
    BY <1>1, <1>8 DEF Ask, NoPanel, AppTypeOK
  <2> QED
    BY <1>1, <1>2, <1>8, <2>1, ContentStays DEF Ask
<1>9. ASSUME NEW u \in Panelists, TakeRetention(u) PROVE ContentInv'
  <2>1. CASE Goes(u, FirstStep(panel[u].op))
    <3> DEFINE pc == FirstStep(panel[u].op)
    <3>1. pc \in Holding /\ (pc = "write" => panel[u].op = "expel")
      BY DEF FirstStep, Holding
    <3>2. Goes(u, pc)
      BY <2>1
    <3> HIDE DEF pc
    <3>3. \A v \in Panelists : panel'[v] = panel[v] \/ panel'[v].pc # "write" \/ WritesCurrent(v)'
      BY <1>4, <3>1, <3>2
    <3> QED
      BY <1>1, <1>2, <1>9, <3>3, ContentStays DEF TakeRetention
  <2>2. CASE Ends(u)
    BY <1>1, <1>2, <1>3, <1>9, <2>2, ContentStays DEF TakeRetention
  <2> QED
    BY <1>9, <2>1, <2>2 DEF TakeRetention
<1>10. ASSUME NEW u \in Panelists, ResolveVersion(u) PROVE ContentInv'
  <2> DEFINE content == IF panel[u].op = "launch" THEN approved ELSE Current
  <2>1. CASE Resolves(content) /\ panel' = [panel EXCEPT ![u].pc = "write", ![u].content = content]
    <3>1. content \in Contents /\ store.there /\ content.artifact = store.artifact /\ UNCHANGED <<store, live>>
      BY <1>1, <1>10, <2>1 DEF AppTypeOK, Current, Contents, Resolves, ResolveVersion
    <3> HIDE DEF content
    <3>2. panel'[u].content = content /\ \A v \in Panelists \ {u} : panel'[v] = panel[v]
      BY <1>1, <2>1, <3>1 DEF AppTypeOK, AppRequests
    <3>3. WritesCurrent(u)'
      BY <3>1, <3>2 DEF WritesCurrent
    <3> QED
      BY <1>1, <1>2, <3>1, <3>2, <3>3, ContentStays
  <2>2. CASE Ends(u)
    BY <1>1, <1>2, <1>3, <1>10, <2>2, ContentStays DEF ResolveVersion
  <2> QED
    BY <1>10, <2>1, <2>2 DEF ResolveVersion
<1>11. ASSUME NEW u \in Panelists, Launch(u) PROVE ContentInv'
  <2>1. \A l \in live' : l \in live \/ l.content.artifact = store.artifact
    BY <1>11 DEF Launch, ContentInv, WritesCurrent
  <2> QED
    BY <1>1, <1>2, <1>3, <1>11, <2>1, ContentStays DEF Launch
<1>12. ASSUME NEW u \in Panelists, Approve(u) \/ RevokeApproval(u) \/ DropActivations(u)
       PROVE  ContentInv'
  BY <1>1, <1>2, <1>3, <1>12, ContentStays DEF Approve, RevokeApproval, DropActivations
<1>13. ASSUME NEW u \in Panelists, NEW v \in Panelists, PutMember(u, v) \/ DeleteMember(u, v)
       PROVE  ContentInv'
  BY <1>1, <1>2, <1>3, <1>13, ContentStays DEF PutMember, DeleteMember
<1>14. ASSUME NEW u \in Panelists, RevokeForArtifact(u) PROVE ContentInv'
  <2>1. \A v \in Panelists : panel'[v] = panel[v] \/ panel'[v].pc # "write" \/ WritesCurrent(v)'
    BY <1>4, <1>14 DEF RevokeForArtifact, Holding
  <2> QED
    BY <1>1, <1>2, <1>14, <2>1, ContentStays DEF RevokeForArtifact
<1>15. ASSUME NEW u \in Panelists, DeleteFromStore(u) \/ DeleteArtifactRow(u) PROVE ContentInv'
  <2>1. /\ store'.artifact = store.artifact /\ store'.late = store.late /\ UNCHANGED live
        /\ Goes(u, "row") \/ Goes(u, "event")
        /\ panel[u].pc \in {"store", "row"}
    BY <1>1, <1>2, <1>15 DEF DeleteFromStore, DeleteArtifactRow, AppTypeOK, Doing
  <2>2. panel'[u].pc # "write" /\ \A v \in Panelists \ {u} : panel'[v] = panel[v]
    BY <1>1, <2>1 DEF Goes, AppTypeOK, AppRequests
  <2>3. \A v \in Panelists \ {u} : panel[v].pc # "write"
    BY <1>1, <2>1 DEF OneRetainer, Holding
  <2>4. \A v \in Panelists : WritesCurrent(v)'
    BY <2>2, <2>3 DEF WritesCurrent
  <2> QED
    BY <1>1, <1>2, <2>1, <2>4 DEF ContentInv
<1>16. \A u \in Panelists : ~WebDies(u)
  BY <1>2 DEF WebDies
<1> QED
  BY <1>2, <1>5, <1>6, <1>7, <1>8, <1>9, <1>10, <1>11, <1>12, <1>13, <1>14, <1>15, <1>16 DEF AppNext

\* Nor does a launch outlive the artifact it serves, when no deletion goes on after its request: a
\* late one can take a new artifact of the same code from under a launch (admin.py:69-85).
THEOREM LaunchesEndWithTheArtifact ==
  ASSUME NothingFails
  PROVE  AppSpec => []LaunchOutlivesNothing
<1>1. AppInit => ContentInv
  <2> SUFFICES ASSUME AppInit PROVE ContentInv
    OBVIOUS
  <2>1. appLeft.fail = 0
    BY DEF AppInit, NothingFails
  <2>2. \A u \in Panelists : panel[u].pc = "done"
    BY DEF AppInit, NoPanel
  <2> QED
    BY <2>1, <2>2, AppInitInv DEF AppInit, ContentInv, WritesCurrent
<1>2. ContentInv => LaunchOutlivesNothing
  BY DEF ContentInv, AppInv, MembersLaunch, LaunchOutlivesNothing
<1> QED
  BY <1>1, <1>2, ContentNextInv, PTL DEF AppSpec

-----------------------------------------------------------------------------
(* Tokens and those who hold them *)

\* A token and a process; T are the times, sources and kinds there have been.
Tokens(T)  == [id : Nat, kind : T, transports : T, src : T, made : T, until : T, revoked : BOOLEAN]
Holders(T) ==
    [pc : {"idle", "issue", "post", "body", "revoke", "prepare", "failing", "host", "running"}, src : T, ttl : T,
     cap : Nat, body : {"none", "done", "raised"},
     answer : {"none", "served", "refused", "done", "raised", "failed", "failed, warned", "refused on the host"}]

Typed(T) == caps \subseteq Tokens(T) /\ caller \in [Callers -> Holders(T)]

\* Who ended quietly with this token has revoked it.
QuietOf(tokens, id, answer) == answer \in {"done", "failed"} => \A entry \in tokens : entry.id = id => entry.revoked

\* Ids count up, so nobody holds the id of a token to come.
CapInv ==
    /\ \E T : Typed(T)
    /\ IsFiniteSet(caps)
    /\ \A entry \in caps : entry.id <= Cardinality(caps)
    /\ \A a, b \in caps : a.id = b.id => a = b
    /\ \A c \in Callers : caller[c].cap <= Cardinality(caps) /\ QuietOf(caps, caller[c].cap, caller[c].answer)
    /\ \A c \in Callers : caller[c].pc = "issue" => caller[c].answer = "none"

LEMMA CapInvSafe == CapInv => QuietEndRevokes
BY DEF CapInv, QuietEndRevokes, QuietOf, Verifies

LEMMA NoCallTyped ==
  ASSUME NEW T, 0 \in T
  PROVE  NoCall \in Holders(T) /\ NoCall.pc = "idle" /\ NoCall.cap = 0 /\ NoCall.answer = "none"
<1>1. ASSUME NEW z \in T, NEW n \in Nat
      PROVE  [pc |-> "idle", src |-> z, ttl |-> z, cap |-> n, body |-> "none", answer |-> "none"] \in Holders(T)
  BY DEF Holders
<1> QED
  BY <1>1 DEF NoCall

LEMMA CapInitInv == CapInit => CapInv
<1> SUFFICES ASSUME CapInit PROVE CapInv
  OBVIOUS
<1>1. Typed({0})
  <2>1. NoCall \in Holders({0})
    BY NoCallTyped
  <2> QED
    BY <2>1 DEF CapInit, Typed
<1>2. caps = {} /\ \A c \in Callers : caller[c].cap = 0 /\ caller[c].pc = "idle" /\ caller[c].answer = "none"
  BY DEF CapInit, NoCall
<1> QED
  BY <1>1, <1>2, FS_EmptySet DEF CapInv, QuietOf

LEMMA MoreValues ==
  ASSUME NEW T, NEW U, Typed(T), T \subseteq U
  PROVE  Typed(U)
BY DEF Typed, Tokens, Holders

LEMMA Counting ==
  ASSUME CapInv
  PROVE  Cardinality(caps) \in Nat
BY FS_CardinalityType DEF CapInv

\* A process goes on and no token changes.
LEMMA HolderMoves ==
  ASSUME CapInv, UNCHANGED caps, NEW c \in Callers, NEW T, Typed(T), NEW entry \in Holders(T),
         caller' = [caller EXCEPT ![c] = entry], entry.cap <= Cardinality(caps), QuietOf(caps, entry.cap, entry.answer),
         entry.pc = "issue" => entry.answer = "none"
  PROVE  CapInv'
<1>1. caller' \in [Callers -> Holders(T)] /\ caller'[c] = entry /\ \A d \in Callers \ {c} : caller'[d] = caller[d]
  BY DEF Typed
<1>2. Typed(T)'
  BY <1>1 DEF Typed
<1>3. ASSUME NEW d \in Callers
      PROVE  /\ caller'[d].cap <= Cardinality(caps) /\ QuietOf(caps, caller'[d].cap, caller'[d].answer)
             /\ caller'[d].pc = "issue" => caller'[d].answer = "none"
  BY <1>1 DEF CapInv
<1> QED
  BY <1>2, <1>3 DEF CapInv, QuietOf

\* A new token goes to a process that has not ended with it.
LEMMA IssueKeeps ==
  ASSUME CapInv, NEW c \in Callers, NEW T, Typed(T), NEW entry \in Tokens(T), entry.id = NextId, NEW rest \in Holders(T),
         Issue(c, entry, rest), rest.answer = "none"
  PROVE  CapInv'
<1> DEFINE n    == Cardinality(caps)
           id   == entry.id
           next == [rest EXCEPT !.cap = id]
<1>1. n \in Nat /\ entry.id = n + 1 /\ IsFiniteSet(caps) /\ \A r \in caps : r.id <= n /\ r.id \in Nat
  BY Counting DEF CapInv, Typed, Tokens, NextId
<1>2. entry \notin caps /\ caps' = caps \cup {entry}
  BY <1>1 DEF Issue
<1>3. IsFiniteSet(caps') /\ Cardinality(caps') = n + 1
  BY <1>1, <1>2, FS_AddElement
<1>4. next \in Holders(T) /\ next.cap = n + 1 /\ next.answer = "none"
  <2>1. id \in Nat /\ id = n + 1
    BY <1>1
  <2> HIDE DEF id
  <2>2. next \in Holders(T) /\ next.cap = id /\ next.answer = rest.answer
    BY <2>1 DEF Holders
  <2> QED
    BY <2>1, <2>2
<1>5. caller' = [caller EXCEPT ![c] = next]
  BY DEF Issue
<1>6. \A d \in Callers : caller[d].cap <= n /\ caller[d].cap \in Nat /\ QuietOf(caps, caller[d].cap, caller[d].answer)
                         /\ (caller[d].pc = "issue" => caller[d].answer = "none")
  BY DEF CapInv, Typed, Holders
<1> HIDE DEF n, id, next
<1>7. caller' \in [Callers -> Holders(T)] /\ caller'[c] = next /\ \A d \in Callers \ {c} : caller'[d] = caller[d]
  BY <1>4, <1>5 DEF Typed
<1>8. Typed(T)'
  BY <1>2, <1>7 DEF Typed
<1>9. \A r \in caps' : r.id <= n + 1
  BY <1>1, <1>2
<1>10. \A a, b \in caps' : a.id = b.id => a = b
  BY <1>1, <1>2 DEF CapInv
<1>11. ASSUME NEW d \in Callers
       PROVE  /\ caller'[d].cap <= n + 1 /\ QuietOf(caps', caller'[d].cap, caller'[d].answer)
              /\ caller'[d].pc = "issue" => caller'[d].answer = "none"
  <2>1. CASE d = c
    BY <1>1, <1>4, <1>7, <2>1 DEF QuietOf
  <2>2. CASE d # c
    BY <1>1, <1>2, <1>6, <1>7, <2>2 DEF QuietOf
  <2> QED
    BY <2>1, <2>2
<1> QED
  BY <1>3, <1>8, <1>9, <1>10, <1>11 DEF CapInv

\* Revoking keeps every token, its id and the count.
LEMMA RevokeFacts ==
  ASSUME CapInv, NEW id, NEW T, Typed(T)
  PROVE  /\ Revoked(id) \subseteq Tokens(T)
         /\ IsFiniteSet(Revoked(id)) /\ Cardinality(Revoked(id)) = Cardinality(caps)
         /\ \A r \in Revoked(id) : \E entry \in caps : r.id = entry.id /\ (entry.revoked => r.revoked)
         /\ \A r \in Revoked(id) : r.id = id => r.revoked
         /\ \A a, b \in Revoked(id) : a.id = b.id => a = b
<1> DEFINE R(entry) == IF entry.id = id THEN [entry EXCEPT !.revoked = TRUE] ELSE entry
           f == [entry \in caps |-> R(entry)]
<1>1. \A entry \in caps : R(entry) \in Tokens(T) /\ R(entry).id = entry.id /\ (entry.revoked => R(entry).revoked) /\ (entry.id = id => R(entry).revoked)
  BY DEF Typed, Tokens
<1>2. Revoked(id) = {R(entry) : entry \in caps}
  BY DEF Revoked
<1>3. \A a, b \in caps : R(a).id = R(b).id => a = b
  BY <1>1 DEF CapInv
<1> HIDE DEF R
<1>4. f \in Surjection(caps, Revoked(id))
  BY <1>2 DEF Surjection
<1>5. f \in Injection(caps, Revoked(id))
  <2>1. \A a, b \in caps : R(a) = R(b) => a = b
    BY <1>3
  <2> QED
    BY <1>2, <2>1 DEF Injection, IsInjective
<1>6. IsFiniteSet(Revoked(id)) /\ Cardinality(Revoked(id)) = Cardinality(caps)
  <2> HIDE DEF f
  <2> QED
    BY <1>4, <1>5, FS_Surjection DEF CapInv
<1> QED
  BY <1>1, <1>2, <1>3, <1>6

\* A process that revokes its own token, or anyone that revokes any.
LEMMA RevokeKeeps ==
  ASSUME CapInv, NEW id, caps' = Revoked(id), NEW T, Typed(T),
         \/ UNCHANGED caller
         \/ \E c \in Callers : \E entry \in Holders(T) :
               /\ caller' = [caller EXCEPT ![c] = entry]
               /\ entry.cap <= Cardinality(caps) /\ (entry.answer \in {"done", "failed"} => entry.cap = id) /\ entry.pc # "issue"
  PROVE  CapInv'
<1>1. /\ caps' \subseteq Tokens(T)
      /\ IsFiniteSet(caps') /\ Cardinality(caps') = Cardinality(caps)
      /\ \A r \in caps' : \E entry \in caps : r.id = entry.id /\ (entry.revoked => r.revoked)
      /\ \A r \in caps' : r.id = id => r.revoked
      /\ \A a, b \in caps' : a.id = b.id => a = b
  BY RevokeFacts
<1>2. \A r \in caps' : r.id <= Cardinality(caps)
  BY <1>1 DEF CapInv
<1>3. \A d \in Callers : caller[d].cap <= Cardinality(caps) /\ QuietOf(caps', caller[d].cap, caller[d].answer)
                         /\ (caller[d].pc = "issue" => caller[d].answer = "none")
  BY <1>1 DEF CapInv, QuietOf
<1>4. CASE UNCHANGED caller
  <2>1. Typed(T)'
    BY <1>1, <1>4 DEF Typed
  <2> QED
    BY <1>1, <1>2, <1>3, <1>4, <2>1 DEF CapInv, QuietOf
<1>5. ASSUME NEW c \in Callers, NEW entry \in Holders(T), caller' = [caller EXCEPT ![c] = entry],
             entry.cap <= Cardinality(caps), entry.answer \in {"done", "failed"} => entry.cap = id, entry.pc # "issue"
      PROVE  CapInv'
  <2>1. caller' \in [Callers -> Holders(T)] /\ caller'[c] = entry /\ \A d \in Callers \ {c} : caller'[d] = caller[d]
    BY <1>5 DEF Typed
  <2>2. Typed(T)'
    BY <1>1, <2>1 DEF Typed
  <2>3. ASSUME NEW d \in Callers
        PROVE  /\ caller'[d].cap <= Cardinality(caps) /\ QuietOf(caps', caller'[d].cap, caller'[d].answer)
               /\ caller'[d].pc = "issue" => caller'[d].answer = "none"
    <3>1. CASE d = c
      BY <1>1, <1>5, <2>1, <3>1 DEF QuietOf
    <3>2. CASE d # c
      BY <1>3, <2>1, <3>2 DEF QuietOf
    <3> QED
      BY <3>1, <3>2
  <2> QED
    BY <1>1, <1>2, <2>2, <2>3 DEF CapInv
<1> QED
  BY <1>4, <1>5

LEMMA TokenTyped ==
  ASSUME CapInv, NEW kind, NEW transports, NEW ttl, NEW src, NEW T, Typed(T)
  PROVE  \E U : Typed(U) /\ 0 \in U /\ Row(kind, transports, ttl, src) \in Tokens(U)
                /\ Row(kind, transports, ttl, src).id = NextId
<1> DEFINE until == clock + (IF "sse" \in transports THEN Min({ttl, SseTtl}) ELSE ttl)
           id == NextId
           U  == T \cup {0, kind, transports, src, clock, until}
<1>1. id \in Nat
  BY Counting DEF NextId
<1>2. Typed(U) /\ 0 \in U /\ {kind, transports, src, clock, until} \subseteq U
  BY MoreValues
<1>3. Row(kind, transports, ttl, src) =
        [id |-> id, kind |-> kind, transports |-> transports, src |-> src, made |-> clock, until |-> until, revoked |-> FALSE]
  BY DEF Row
<1> HIDE DEF until, id, U
<1>4. [id |-> id, kind |-> kind, transports |-> transports, src |-> src, made |-> clock, until |-> until, revoked |-> FALSE]
        \in Tokens(U)
  BY <1>1, <1>2 DEF Tokens
<1> QED
  BY <1>2, <1>3, <1>4 DEF id

\* Rows of processes.
LEMMA FreshRow ==
  ASSUME NEW T, 0 \in T, NEW pc \in {"idle", "body", "prepare"}
  PROVE  [NoCall EXCEPT !.pc = pc] \in Holders(T) /\ [NoCall EXCEPT !.pc = pc].answer = "none"
<1>1. [NoCall EXCEPT !.pc = pc] = [pc |-> pc, src |-> 0, ttl |-> 0, cap |-> 0, body |-> "none", answer |-> "none"]
  BY DEF NoCall
<1>2. ASSUME NEW z \in T, NEW n \in Nat
      PROVE  [pc |-> pc, src |-> z, ttl |-> z, cap |-> n, body |-> "none", answer |-> "none"] \in Holders(T)
  BY DEF Holders
<1> QED
  BY <1>1, <1>2

LEMMA MintsKeep ==
  ASSUME CapInv, NEW c \in Callers, BlockMints(c) \/ PrepareMints(c) \/ Mint(c) \/ InvokeIssues(c)
  PROVE  CapInv'
<1>1. PICK T : Typed(T)
  BY DEF CapInv
<1>2. ASSUME NEW kind, NEW transports, NEW ttl, NEW src, NEW pc \in {"idle", "body", "prepare"},
             Issue(c, Row(kind, transports, ttl, src), [NoCall EXCEPT !.pc = pc])
      PROVE  CapInv'
  <2> DEFINE token == Row(kind, transports, ttl, src)
             rest  == [NoCall EXCEPT !.pc = pc]
  <2>1. PICK U : Typed(U) /\ 0 \in U /\ token \in Tokens(U) /\ token.id = NextId
    BY <1>1, TokenTyped
  <2>2. rest \in Holders(U) /\ rest.answer = "none"
    BY <2>1, FreshRow
  <2>3. Issue(c, token, rest)
    BY <1>2
  <2> HIDE DEF token, rest
  <2> QED
    BY <2>1, <2>2, <2>3, IssueKeeps
<1>3. CASE BlockMints(c)
  BY <1>2, <1>3 DEF BlockMints
<1>4. CASE PrepareMints(c)
  BY <1>2, <1>4 DEF PrepareMints
<1>5. CASE Mint(c)
  <2>1. PICK kind, transports, ttl : Issue(c, Row(kind, transports, ttl, 0), NoCall)
    BY <1>5 DEF Mint
  <2>2. NoCall = [NoCall EXCEPT !.pc = "idle"]
    BY DEF NoCall
  <2> QED
    BY <1>2, <2>1, <2>2
<1>6. CASE InvokeIssues(c)
  <2> DEFINE token == Row(KindOfSource[caller[c].src], {"http"}, caller[c].ttl, caller[c].src)
             old   == caller[c]
             rest  == [old EXCEPT !.pc = "post"]
  <2>1. PICK U : Typed(U) /\ 0 \in U /\ token \in Tokens(U) /\ token.id = NextId
    BY <1>1, TokenTyped
  <2>2. old \in Holders(U) /\ old.answer = "none"
    BY <1>6, <2>1 DEF InvokeIssues, CallIn, CapInv, Typed
  <2>3. Issue(c, token, rest)
    BY <1>6 DEF InvokeIssues
  <2> HIDE DEF token, old
  <2>4. rest \in Holders(U) /\ rest.answer = "none"
    BY <2>2 DEF Holders
  <2> HIDE DEF rest
  <2> QED
    BY <2>1, <2>3, <2>4, IssueKeeps
<1> QED
  BY <1>3, <1>4, <1>5, <1>6

\* A process that reads how long its source lasts.
LEMMA ReadsKeep ==
  ASSUME CapInv, NEW c \in Callers, NEW s \in Sources, InvokeReads(c, s)
  PROVE  CapInv'
<1>1. UNCHANGED caps /\ Cardinality(caps) \in Nat
  BY Counting DEF InvokeReads
<1>2. PICK T : Typed(T)
  BY DEF CapInv
<1> DEFINE t == Min({CapTtl, source[s].until - clock})
           U == T \cup {0, s, t}
           a == [NoCall EXCEPT !.pc = "issue"]
           b == [a EXCEPT !.src = s]
           d == [b EXCEPT !.ttl = t]
<1>3. Typed(U) /\ s \in U /\ t \in U /\ 0 \in U
  BY <1>2, MoreValues
<1>4. caller' = [caller EXCEPT ![c] = d]
  BY DEF InvokeReads
<1> HIDE DEF U, t
<1>5. a \in Holders(U) /\ a.pc = "issue" /\ a.cap = 0 /\ a.answer = "none"
  <2> DEFINE old == NoCall
  <2>1. old \in Holders(U) /\ old.cap = 0 /\ old.answer = "none"
    BY <1>3, NoCallTyped
  <2> HIDE DEF old
  <2>2. [old EXCEPT !.pc = "issue"] \in Holders(U) /\ [old EXCEPT !.pc = "issue"].pc = "issue"
        /\ [old EXCEPT !.pc = "issue"].cap = old.cap /\ [old EXCEPT !.pc = "issue"].answer = old.answer
    BY <2>1 DEF Holders
  <2> QED
    BY <2>1, <2>2 DEF old
<1> HIDE DEF a
<1>6. b \in Holders(U) /\ b.pc = "issue" /\ b.cap = 0 /\ b.answer = "none"
  BY <1>3, <1>5 DEF Holders
<1> HIDE DEF b
<1>7. d \in Holders(U) /\ d.pc = "issue" /\ d.cap = 0 /\ d.answer = "none"
  BY <1>3, <1>6 DEF Holders
<1> HIDE DEF d
<1>8. QuietOf(caps, d.cap, d.answer) /\ d.cap <= Cardinality(caps)
  BY <1>1, <1>7 DEF QuietOf
<1> QED
  BY <1>1, <1>3, <1>4, <1>7, <1>8, HolderMoves

\* A process that forgets its token, or refuses before it has one.
LEMMA ForgetKeeps ==
  ASSUME CapInv, NEW c \in Callers, HolderDies(c) \/ RunCloses(c) \/ PrepareRefuses(c)
  PROVE  CapInv'
<1>1. UNCHANGED caps /\ Cardinality(caps) \in Nat
  BY Counting DEF HolderDies, RunCloses, PrepareRefuses
<1>2. PICK T : Typed(T)
  BY DEF CapInv
<1> DEFINE U   == T \cup {0}
           old == NoCall
           refused == [old EXCEPT !.answer = "refused"]
<1>3. Typed(U) /\ 0 \in U
  BY <1>2, MoreValues
<1>4. caller' = [caller EXCEPT ![c] = old] \/ caller' = [caller EXCEPT ![c] = refused]
  BY DEF HolderDies, RunCloses, PrepareRefuses
<1> HIDE DEF U
<1>5. old \in Holders(U) /\ old.cap = 0 /\ old.answer = "none" /\ old.pc = "idle"
  BY <1>3, NoCallTyped
<1> HIDE DEF old
<1>6. refused \in Holders(U) /\ refused.cap = 0 /\ refused.answer = "refused" /\ refused.pc = "idle"
  BY <1>5 DEF Holders
<1> HIDE DEF refused
<1>7. /\ QuietOf(caps, old.cap, old.answer) /\ QuietOf(caps, refused.cap, refused.answer)
      /\ old.cap <= Cardinality(caps) /\ refused.cap <= Cardinality(caps)
      /\ old.pc # "issue" /\ refused.pc # "issue"
  BY <1>1, <1>5, <1>6 DEF QuietOf
<1>8. CASE caller' = [caller EXCEPT ![c] = old]
  BY <1>1, <1>3, <1>5, <1>7, <1>8, HolderMoves
<1>9. CASE caller' = [caller EXCEPT ![c] = refused]
  BY <1>1, <1>3, <1>6, <1>7, <1>9, HolderMoves
<1> QED
  BY <1>4, <1>8, <1>9

\* A process goes to its next step, or to its end with an answer that is not quiet.
LEMMA GoesOnWithToken ==
  ASSUME CapInv, UNCHANGED caps, NEW c \in Callers,
         NEW pc \in {"idle", "post", "body", "revoke", "prepare", "failing", "host", "running"},
         \/ caller' = [caller EXCEPT ![c].pc = pc]
         \/ \E body \in {"none", "done", "raised"} : caller' = [caller EXCEPT ![c].pc = pc, ![c].body = body]
         \/ \E answer \in {"none", "served", "refused", "raised", "failed, warned", "refused on the host"} :
               \/ caller' = [caller EXCEPT ![c].pc = pc, ![c].answer = answer]
               \/ caller[c].pc # "issue" /\ caller' = [caller EXCEPT ![c].answer = answer]
  PROVE  CapInv'
<1>1. PICK T : Typed(T)
  BY DEF CapInv
<1> DEFINE old == caller[c]
           moved == [old EXCEPT !.pc = pc]
<1>2. old \in Holders(T) /\ old.cap <= Cardinality(caps) /\ QuietOf(caps, old.cap, old.answer)
  BY <1>1 DEF CapInv, Typed
<1>3. DOMAIN caller = Callers
  BY <1>1 DEF Typed
<1>4. CASE caller' = [caller EXCEPT ![c].pc = pc]
  <2>1. caller' = [caller EXCEPT ![c] = moved]
    BY <1>3, <1>4
  <2> HIDE DEF old
  <2>2. moved \in Holders(T) /\ moved.cap = old.cap /\ moved.answer = old.answer /\ moved.pc # "issue"
    BY <1>2 DEF Holders
  <2> HIDE DEF moved
  <2> QED
    BY <1>1, <1>2, <2>1, <2>2, HolderMoves
<1>5. ASSUME NEW body \in {"none", "done", "raised"}, caller' = [caller EXCEPT ![c].pc = pc, ![c].body = body]
      PROVE  CapInv'
  <2> DEFINE entry == [moved EXCEPT !.body = body]
  <2>1. caller' = [caller EXCEPT ![c] = entry]
    BY <1>3, <1>5
  <2> HIDE DEF old
  <2>2. moved \in Holders(T) /\ moved.cap = old.cap /\ moved.answer = old.answer /\ moved.pc # "issue"
    BY <1>2 DEF Holders
  <2> HIDE DEF moved
  <2>3. entry \in Holders(T) /\ entry.cap = moved.cap /\ entry.answer = moved.answer /\ entry.pc = moved.pc
    BY <2>2 DEF Holders
  <2> HIDE DEF entry
  <2> QED
    BY <1>1, <1>2, <2>1, <2>2, <2>3, HolderMoves
<1>6. ASSUME NEW answer \in {"none", "served", "refused", "raised", "failed, warned", "refused on the host"},
             caller' = [caller EXCEPT ![c].pc = pc, ![c].answer = answer]
      PROVE  CapInv'
  <2> DEFINE entry == [moved EXCEPT !.answer = answer]
  <2>1. caller' = [caller EXCEPT ![c] = entry]
    BY <1>3, <1>6
  <2> HIDE DEF old
  <2>2. moved \in Holders(T) /\ moved.cap = old.cap /\ moved.pc # "issue"
    BY <1>2 DEF Holders
  <2> HIDE DEF moved
  <2>3. entry \in Holders(T) /\ entry.cap = moved.cap /\ entry.answer = answer /\ entry.pc = moved.pc
    BY <2>2 DEF Holders
  <2> HIDE DEF entry
  <2>4. QuietOf(caps, entry.cap, entry.answer)
    BY <2>3 DEF QuietOf
  <2> QED
    BY <1>1, <1>2, <2>1, <2>2, <2>3, <2>4, HolderMoves
<1>7. ASSUME NEW answer \in {"none", "served", "refused", "raised", "failed, warned", "refused on the host"},
             caller[c].pc # "issue", caller' = [caller EXCEPT ![c].answer = answer]
      PROVE  CapInv'
  <2> DEFINE entry == [old EXCEPT !.answer = answer]
  <2>1. caller' = [caller EXCEPT ![c] = entry] /\ old.pc # "issue"
    BY <1>3, <1>7
  <2> HIDE DEF old
  <2>2. entry \in Holders(T) /\ entry.cap = old.cap /\ entry.answer = answer /\ entry.pc = old.pc
    BY <1>2 DEF Holders
  <2> HIDE DEF entry
  <2>3. QuietOf(caps, entry.cap, entry.answer)
    BY <2>2 DEF QuietOf
  <2> QED
    BY <1>1, <1>2, <2>1, <2>2, <2>3, HolderMoves
<1> QED
  BY <1>4, <1>5, <1>6, <1>7

LEMMA CallsKeep ==
  ASSUME CapInv, NEW c \in Callers,
         \/ InvokePosts(c) \/ BlockBody(c) \/ BlockRevokeFails(c) \/ Prepare(c) \/ HostRefuses(c) \/ HostExecutes(c)
         \/ RunCallsTool(c)
  PROVE  CapInv'
<1>1. UNCHANGED caps
  BY DEF InvokePosts, BlockBody, BlockRevokeFails, Prepare, HostRefuses, HostExecutes, RunCallsTool
<1>2. CASE InvokePosts(c)
  <2>1. \E answer \in {"served", "refused"} : caller' = [caller EXCEPT ![c].pc = "idle", ![c].answer = answer]
    BY <1>2 DEF InvokePosts
  <2> QED
    BY <1>1, <2>1, GoesOnWithToken
<1>3. CASE BlockBody(c)
  <2>1. \E how \in {"done", "raised"} : caller' = [caller EXCEPT ![c].pc = "revoke", ![c].body = how]
    BY <1>3 DEF BlockBody
  <2> QED
    BY <1>1, <2>1, GoesOnWithToken
<1>4. CASE BlockRevokeFails(c)
  <2>1. caller' = [caller EXCEPT ![c].pc = "idle", ![c].answer = "raised"]
    BY <1>4 DEF BlockRevokeFails, Seen
  <2> QED
    BY <1>1, <2>1, GoesOnWithToken
<1>5. CASE Prepare(c)
  <2>1. \E pc \in {"host", "failing"} : caller' = [caller EXCEPT ![c].pc = pc]
    BY <1>5 DEF Prepare
  <2> QED
    BY <1>1, <2>1, GoesOnWithToken
<1>6. CASE HostRefuses(c)
  <2>1. caller' = [caller EXCEPT ![c].pc = "idle", ![c].answer = "refused on the host"]
    BY <1>6 DEF HostRefuses
  <2> QED
    BY <1>1, <2>1, GoesOnWithToken
<1>7. CASE HostExecutes(c)
  <2>1. caller' = [caller EXCEPT ![c].pc = "running"]
    BY <1>7 DEF HostExecutes
  <2> QED
    BY <1>1, <2>1, GoesOnWithToken
<1>8. CASE RunCallsTool(c)
  <2>1. \E answer \in {"served", "refused"} : caller[c].pc # "issue" /\ caller' = [caller EXCEPT ![c].answer = answer]
    BY <1>8 DEF RunCallsTool, CallIn
  <2> QED
    BY <1>1, <2>1, GoesOnWithToken
<1> QED
  BY <1>2, <1>3, <1>4, <1>5, <1>6, <1>7, <1>8

LEMMA RevokesKeep ==
  ASSUME CapInv, RevokeByToken \/ \E c \in Callers : BlockRevokes(c) \/ PrepareFails(c)
  PROVE  CapInv'
<1>1. PICK T : Typed(T)
  BY DEF CapInv
<1>2. CASE RevokeByToken
  <2>1. \E id : caps' = Revoked(id)
    BY <1>2 DEF RevokeByToken
  <2> QED
    BY <1>1, <1>2, <2>1, RevokeKeeps DEF RevokeByToken
<1>3. ASSUME NEW c \in Callers, caps' = Revoked(caller[c].cap),
             NEW answer \in {"none", "done", "raised", "failed"},
             caller' = [caller EXCEPT ![c].pc = "idle", ![c].answer = answer]
      PROVE  CapInv'
  <2> DEFINE old   == caller[c]
             id    == old.cap
             moved == [old EXCEPT !.pc = "idle"]
             entry   == [moved EXCEPT !.answer = answer]
  <2>1. caller' = [caller EXCEPT ![c] = entry] /\ caps' = Revoked(id)
    BY <1>1, <1>3 DEF Typed
  <2>2. old \in Holders(T) /\ id <= Cardinality(caps)
    BY <1>1 DEF CapInv, Typed
  <2> HIDE DEF old
  <2>3. moved \in Holders(T) /\ moved.cap = id /\ moved.pc = "idle"
    BY <2>2 DEF Holders
  <2> HIDE DEF moved, id
  <2>4. entry \in Holders(T) /\ entry.cap = id /\ entry.pc = "idle"
    BY <2>3 DEF Holders
  <2> HIDE DEF entry
  <2> QED
    BY <1>1, <2>1, <2>2, <2>4, RevokeKeeps
<1>4. ASSUME NEW c \in Callers, BlockRevokes(c) PROVE CapInv'
  <2>1. caller[c].body \in {"none", "done", "raised"}
    BY <1>1 DEF Typed, Holders
  <2> QED
    BY <1>3, <1>4, <2>1 DEF BlockRevokes
<1>5. ASSUME NEW c \in Callers, PrepareFails(c) PROVE CapInv'
  <2>1. CASE caps' = Revoked(caller[c].cap) /\ caller' = [caller EXCEPT ![c].pc = "idle", ![c].answer = "failed"]
    BY <1>3, <2>1
  <2>2. CASE UNCHANGED caps /\ caller' = [caller EXCEPT ![c].pc = "idle", ![c].answer = "failed, warned"]
    BY <2>2, GoesOnWithToken
  <2> QED
    BY <1>5, <2>1, <2>2 DEF PrepareFails, FailsRevoking
<1> QED
  BY <1>2, <1>4, <1>5

\* Who ends without a word about its token has left none that the toolbox would take, for any
\* sources, processes, lifetimes and bounds (toolbox_capability.py:283-300, prepare_run.py:29-56).
THEOREM QuietEndsRevoke == CapSpec => []QuietEndRevokes
<1>1. CapInv /\ [CapNext]_capVars => CapInv'
  <2> SUFFICES ASSUME CapInv, [CapNext]_capVars PROVE CapInv'
    OBVIOUS
  <2>1. CASE Tick \/ (\E s \in Sources : SourceEnds(s)) \/ UNCHANGED capVars
    <3>1. UNCHANGED <<caps, caller>>
      BY <2>1 DEF Tick, SourceEnds, capVars
    <3> QED
      BY <3>1 DEF CapInv, Typed, Tokens, Holders, QuietOf
  <2>2. CASE RevokeByToken
    BY <2>2, RevokesKeep
  <2>3. ASSUME NEW c \in Callers,
               \/ \E s \in Sources : InvokeReads(c, s)
               \/ InvokeIssues(c) \/ InvokePosts(c)
               \/ BlockMints(c) \/ BlockBody(c) \/ BlockRevokes(c) \/ BlockRevokeFails(c) \/ HolderDies(c)
               \/ PrepareRefuses(c) \/ PrepareMints(c) \/ Prepare(c) \/ PrepareFails(c)
               \/ HostRefuses(c) \/ HostExecutes(c) \/ RunCallsTool(c) \/ RunCloses(c)
               \/ Mint(c)
        PROVE  CapInv'
    BY <2>3, MintsKeep, ReadsKeep, ForgetKeeps, CallsKeep, RevokesKeep
  <2> QED
    BY <2>1, <2>2, <2>3 DEF CapNext
<1> QED
  BY <1>1, CapInitInv, CapInvSafe, PTL DEF CapSpec

-----------------------------------------------------------------------------
(* ReviewLane: feedback of reviewers *)

(* Least and greatest numbers *)

LEMMA LeastNumber ==
  ASSUME NEW S \in SUBSET Nat, S # {}
  PROVE  \E n \in S : \A m \in S : n <= m
<1> DEFINE R == OpToRel(<, Nat)
<1>1. IsWellFoundedOn(R, Nat)
  BY NatLessThanWellFounded
<1>2. \A x, y \in Nat : <<x, y>> \in R <=> x < y
  BY DEF OpToRel
<1> HIDE DEF R
<1>3. S \subseteq Nat
  OBVIOUS
<1>4. \E n \in S : \A m \in S : ~ (<<m, n>> \in R)
  BY <1>1, <1>3, WFMin, Zenon
<1>5. PICK n \in S : \A m \in S : ~ (<<m, n>> \in R)
  BY <1>4, Zenon
<1>6. \A m \in S : ~ (m < n)
  BY <1>2, <1>3, <1>5, Zenon
<1>7. \A m \in S : n <= m
  BY <1>6
<1> QED
  BY <1>7

\* Max of the community module, on a bounded set of numbers that has one.
LEMMA MaxOf ==
  ASSUME NEW S \in SUBSET Nat, S # {}, NEW n \in Nat, \A x \in S : x <= n
  PROVE  Max(S) \in S /\ \A x \in S : x <= Max(S)
<1> DEFINE D == {n - x : x \in S}
<1>1. D \in SUBSET Nat /\ D # {}
  <2>1. \A x \in S : n - x \in Nat
    OBVIOUS
  <2>2. D \subseteq Nat
    BY <2>1
  <2>3. PICK x \in S : TRUE
    OBVIOUS
  <2>4. n - x \in D
    OBVIOUS
  <2> QED
    BY <2>2, <2>4
<1>2. PICK d \in D : \A e \in D : d <= e
  BY <1>1, LeastNumber
<1>3. PICK m \in S : d = n - m
  BY <1>2
<1>4. \A x \in S : n - x \in D
  OBVIOUS
<1>5. \A x \in S : n - m <= n - x
  BY <1>2, <1>3, <1>4
<1>6. \A x \in S : m >= x
  BY <1>5
<1>7. \E x \in S : \A y \in S : x >= y
  BY <1>6
<1>8. Max(S) \in S /\ \A y \in S : Max(S) >= y
  BY <1>7 DEF Max
<1> QED
  BY <1>8

-----------------------------------------------------------------------------
(* What was said, and what a job covers *)

Entries == [who : Reviewers \cup {Agent}, what : {"comment", "changes", "approve", "commit"}, at : Nat]
Keys == [lane : Lanes, at : Nat, ids : SUBSET Nat]
JobRows == [key : Keys, state : {"queued", "running", "over"}, covers : Nat]

LaneTypeOK ==
    /\ host \in {"github", "bitbucket", "jira"}
    /\ second \in Nat \ {0}
    /\ talk \in Seq(Entries)
    /\ laneJobs \in SUBSET JobRows
    /\ scan \in [Lanes -> [pc : {"idle", "publish"}, n : Nat, gone : SUBSET Nat]]
    /\ gone \in SUBSET Nat
    /\ owed \in SUBSET (Lanes \X Nat)

\* The times follow the talk; only GitHub's may tie.
TimesFollow ==
    /\ \A e \in 1..Len(talk) : talk[e].at <= second /\ talk[e].at >= 1
    /\ \A e, f \in 1..Len(talk) : e < f => /\ talk[e].at <= talk[f].at
                                           /\ host # "github" => talk[e].at < talk[f].at

\* A job has seen the entries that its key names, and the one its time is of.
KeySeen(j) ==
    /\ j.covers <= Len(talk)
    /\ j.key.ids \subseteq 1..j.covers
    /\ \E e \in 1..j.covers : talk[e].at = j.key.at

LaneInv ==
    /\ LaneTypeOK
    /\ TimesFollow
    /\ \A j \in laneJobs : KeySeen(j)
    /\ \A l \in Lanes : scan[l].n <= Len(talk)
    /\ FeedbackQueued

LEMMA LaneInitInv == LaneInit => LaneInv
<1> SUFFICES ASSUME LaneInit PROVE LaneInv
  OBVIOUS
<1>1. talk \in Seq(Entries) /\ Len(talk) = 0
  BY DEF LaneInit
<1>2. scan \in [Lanes -> [pc : {"idle", "publish"}, n : Nat, gone : SUBSET Nat]] /\ \A l \in Lanes : scan[l].n = 0
  BY DEF LaneInit, NoScan
<1> QED
  BY <1>1, <1>2, HostsAssumption DEF LaneInit, LaneInv, LaneTypeOK, TimesFollow, FeedbackQueued

\* More is said.
LEMMA SaysKeeps ==
  ASSUME LaneInv, NEW who \in Reviewers \cup {Agent}, NEW what \in {"comment", "changes", "approve", "commit"},
         Says(who, what), UNCHANGED <<host, gone, laneJobs, scan, owed>>
  PROVE  LaneInv'
<1> DEFINE n == Len(talk)
           new == [who |-> who, what |-> what, at |-> second']
<1>1. n \in Nat /\ talk \in Seq(Entries) /\ second \in Nat \ {0}
  BY DEF LaneInv, LaneTypeOK
<1>2. second' \in Nat \ {0} /\ second <= second' /\ (host # "github" => second < second')
  BY <1>1 DEF Says
<1>3. new \in Entries
  BY <1>2 DEF Entries
<1>4. talk' = Append(talk, new)
  BY DEF Says
<1> HIDE DEF new
<1>5. talk' \in Seq(Entries) /\ Len(talk') = n + 1 /\ talk'[n + 1] = new /\ \A e \in 1..n : talk'[e] = talk[e]
  BY <1>1, <1>3, <1>4
<1>6. new.at = second'
  BY DEF new
<1>7. \A e \in 1..n : talk[e].at \in Nat
  <2>1. \A e \in 1..n : talk[e] \in Entries
    BY <1>1
  <2> QED
    BY <2>1 DEF Entries
<1> HIDE DEF n
<1>8. \A e \in 1..n : talk[e].at <= second /\ talk[e].at >= 1
  BY DEF LaneInv, TimesFollow, n
<1>9. TimesFollow'
  <2>1. \A e \in 1..(n + 1) : e \in 1..n \/ e = n + 1
    BY <1>1
  <2>2. ASSUME NEW e \in 1..(n + 1) PROVE talk'[e].at <= second' /\ talk'[e].at >= 1
    BY <1>1, <1>2, <1>5, <1>6, <1>7, <1>8, <2>1
  <2>3. ASSUME NEW e \in 1..(n + 1), NEW f \in 1..(n + 1), e < f
        PROVE  talk'[e].at <= talk'[f].at /\ (host # "github" => talk'[e].at < talk'[f].at)
    <3>1. e \in 1..n
      BY <1>1, <2>3
    <3>2. CASE f \in 1..n
      BY <1>5, <2>3, <3>1, <3>2 DEF LaneInv, TimesFollow, n
    <3>3. CASE f = n + 1
      BY <1>1, <1>2, <1>5, <1>6, <1>7, <1>8, <3>1, <3>3
    <3> QED
      BY <2>1, <3>2, <3>3
  <2> QED
    BY <1>5, <2>2, <2>3 DEF TimesFollow
<1>10. ASSUME NEW j \in laneJobs PROVE KeySeen(j)'
  <2>1. KeySeen(j) /\ j.covers \in Nat
    BY DEF LaneInv, LaneTypeOK, JobRows
  <2>2. 1..j.covers \subseteq 1..n /\ j.covers <= n
    BY <1>1, <2>1 DEF KeySeen, n
  <2> QED
    BY <1>1, <1>5, <2>1, <2>2 DEF KeySeen
<1>11. \A l \in Lanes : scan[l].n <= n /\ scan[l].n \in Nat
  BY DEF LaneInv, LaneTypeOK, n
<1>12. FeedbackQueued'
  BY DEF LaneInv, FeedbackQueued, Covered
<1> QED
  BY <1>1, <1>2, <1>5, <1>9, <1>10, <1>11, <1>12 DEF LaneInv, LaneTypeOK

\* A job goes on.
LEMMA JobGoesOn ==
  ASSUME LaneInv, NEW j \in laneJobs, NEW state \in {"running", "over"},
         laneJobs' = (laneJobs \ {j}) \cup {[j EXCEPT !.state = state]},
         UNCHANGED <<host, second, talk, gone, scan, owed>>
  PROVE  LaneInv'
<1> DEFINE i == [j EXCEPT !.state = state]
<1>1. i \in JobRows /\ i.key = j.key /\ i.covers = j.covers
  BY DEF LaneInv, LaneTypeOK, JobRows
<1> HIDE DEF i
<1>2. laneJobs' = (laneJobs \ {j}) \cup {i}
  BY DEF i
<1>3. KeySeen(i)
  BY <1>1 DEF LaneInv, KeySeen
<1>4. \A k \in laneJobs' : KeySeen(k)
  BY <1>2, <1>3 DEF LaneInv
<1>5. FeedbackQueued'
  <2>1. \A l \in Lanes, e \in Nat : Covered(l, e) => Covered(l, e)'
    BY <1>1, <1>2 DEF Covered
  <2>2. \A w \in owed : w[1] \in Lanes /\ w[2] \in Nat
    BY DEF LaneInv, LaneTypeOK
  <2> QED
    BY <2>1, <2>2 DEF LaneInv, FeedbackQueued, Covered
<1>6. LaneTypeOK'
  BY <1>1, <1>2 DEF LaneInv, LaneTypeOK
<1> QED
  BY <1>4, <1>5, <1>6 DEF LaneInv, TimesFollow, KeySeen

-----------------------------------------------------------------------------
(* What a scan finds *)

\* What the facts about a scan s need of the talk.
Scanned(s) == LaneInv /\ s.n \in Nat /\ s.n <= Len(talk)

LEMMA TimesOf ==
  ASSUME NEW s, Scanned(s), NEW found \in SUBSET (1..s.n), found # {}
  PROVE  /\ LatestOf({At(e) : e \in found}) \in {At(e) : e \in found}
         /\ \A e \in found : At(e) <= LatestOf({At(f) : f \in found})
         /\ LatestOf({At(e) : e \in found}) \in Nat
         /\ LatestOf(found) \in found /\ \A e \in found : e <= LatestOf(found)
<1> DEFINE T == {At(e) : e \in found}
<1>1. \A e \in 1..Len(talk) : At(e) \in Nat /\ At(e) <= second
  <2>1. talk \in Seq(Entries)
    BY DEF Scanned, LaneInv, LaneTypeOK
  <2>2. \A e \in 1..Len(talk) : talk[e] \in Entries
    BY <2>1
  <2> QED
    BY <2>2 DEF Scanned, LaneInv, TimesFollow, At, Entries
<1>2. found \in SUBSET Nat /\ found \subseteq 1..Len(talk) /\ \A e \in found : e <= s.n
  BY DEF Scanned
<1>3. T \in SUBSET Nat /\ T # {} /\ \A x \in T : x <= second
  BY <1>1, <1>2
<1>4. second \in Nat /\ s.n \in Nat
  BY DEF Scanned, LaneInv, LaneTypeOK
<1>5. LatestOf(found) \in found /\ \A e \in found : e <= LatestOf(found)
  BY <1>2, <1>4, MaxOf DEF LatestOf
<1>6. \A e \in found : At(e) \in T
  OBVIOUS
<1> HIDE DEF T
<1>7. LatestOf(T) \in T /\ \A x \in T : x <= LatestOf(T)
  BY <1>3, <1>4, MaxOf DEF LatestOf
<1> QED
  BY <1>3, <1>5, <1>6, <1>7 DEF T

\* What nobody answered is found, or what is found came after it.
LEMMA UnheardIsFound ==
  ASSUME NEW l \in Lanes, NEW s, Scanned(s), NEW e \in Unheard(l, s)
  PROVE  /\ e \in 1..s.n /\ Found(l, s) \in SUBSET (1..s.n)
         /\ \/ e \in Found(l, s)
            \/ host = "jira" /\ \E f \in Found(l, s) : e <= f /\ Found(l, s) = {f}
<1>1. Found(l, s) \in SUBSET (1..s.n)
  BY DEF Found, FlagUnanswered, UnansweredMention, Theirs, Comments, Outstanding, Requests
<1>2. CASE l = "changes"
  BY <1>1, <1>2 DEF Unheard, Found, Lanes
<1>3. CASE l = "comments"
  <2>1. /\ e \in Theirs(s) /\ e \in 1..s.n
        /\ \A f \in 1..s.n : f > e => ~(talk[f].what = "commit" \/ (talk[f].who = Agent /\ talk[f].what = "comment"))
    BY <1>3 DEF Unheard, Theirs, Comments
  <2>2. CASE host = "jira"
    <3> DEFINE last == LatestOf(Theirs(s))
    <3>1. Theirs(s) \in SUBSET (1..s.n) /\ Theirs(s) # {}
      BY <2>1 DEF Theirs, Comments
    <3>2. last \in Theirs(s) /\ e <= last
      BY <2>1, <3>1, TimesOf
    <3>3. \A f \in Comments(s) : f > last => talk[f].who # Agent
      <4>1. \A f \in Comments(s) : f \in 1..s.n /\ talk[f].what = "comment"
        BY DEF Comments
      <4>2. last \in 1..s.n
        BY <3>1, <3>2
      <4> HIDE DEF last
      <4> QED
        BY <2>1, <3>2, <4>1, <4>2
    <3>4. UnansweredMention(s) = {last}
      BY <3>2, <3>3 DEF UnansweredMention
    <3>5. Found(l, s) = {last}
      BY <1>3, <2>2, <3>4 DEF Found, FlagUnanswered
    <3> QED
      BY <1>1, <2>1, <2>2, <3>2, <3>5
  <2>3. CASE host # "jira"
    <3> DEFINE S == {f \in Comments(s) : talk[f].who = Agent} \cup {f \in 1..s.n : talk[f].what = "commit"}
    <3>1. S \in SUBSET (1..s.n)
      BY DEF Comments
    <3>2. \A f \in S : f < e
      <4>1. talk[e].what = "comment" /\ talk[e].who # Agent
        BY <2>1 DEF Theirs, Comments
      <4>2. \A f \in S : talk[f].what = "commit" \/ (talk[f].who = Agent /\ talk[f].what = "comment")
        BY DEF Comments
      <4>3. \A f \in S : f # e /\ ~(f > e)
        BY <2>1, <3>1, <4>1, <4>2
      <4>4. e \in Nat /\ S \subseteq Nat
        BY <2>1, <3>1 DEF Scanned
      <4> HIDE DEF S
      <4>5. ASSUME NEW f \in S PROVE f < e
        <5>1. f \in Nat /\ f # e /\ ~(f > e)
          BY <4>3, <4>4
        <5> QED
          BY <4>4, <5>1
      <4> QED
        BY <4>5
    <3>3. At(e) \in Nat /\ At(e) >= 1
      <4>1. talk \in Seq(Entries) /\ e \in 1..Len(talk)
        BY <2>1 DEF Scanned, LaneInv, LaneTypeOK
      <4>2. talk[e] \in Entries
        BY <4>1
      <4> QED
        BY <4>1, <4>2 DEF At, Entries, Scanned, LaneInv, TimesFollow
    <3>4. \A f \in S : At(f) <= At(e) /\ (host # "github" => At(f) < At(e))
      <4>1. \A f \in S : f \in 1..Len(talk)
        BY <3>1 DEF Scanned
      <4>2. e \in 1..Len(talk)
        BY <2>1 DEF Scanned
      <4> HIDE DEF S
      <4> QED
        BY <3>2, <4>1, <4>2 DEF At, Scanned, LaneInv, TimesFollow
    <3>5. Watermark(s) = LatestOf({At(f) : f \in S})
      BY DEF Watermark
    <3>6. Watermark(s) <= At(e) /\ (host # "github" => Watermark(s) < At(e))
      <4>1. CASE S = {}
        BY <3>3, <3>5, <4>1 DEF LatestOf
      <4>2. CASE S # {}
        <5>1. Watermark(s) \in {At(f) : f \in S}
          BY <3>1, <3>5, <4>2, TimesOf
        <5> HIDE DEF S
        <5> QED
          BY <3>4, <5>1
      <4> QED
        BY <4>1, <4>2
    <3>7. Watermark(s) \in Nat
      <4>1. CASE S = {}
        BY <3>5, <4>1 DEF LatestOf
      <4>2. CASE S # {}
        BY <3>1, <3>5, <4>2, TimesOf
      <4> QED
        BY <4>1, <4>2
    <3>8. Outlives(e, Watermark(s))
      BY <3>3, <3>6, <3>7 DEF Outlives
    <3> QED
      BY <1>1, <1>3, <2>1, <2>3, <3>8 DEF Found, FlagUnanswered
  <2> QED
    BY <2>2, <2>3
<1> QED
  BY <1>2, <1>3 DEF Lanes

\* The key of what a scan found, and the job that has it.
LEMMA KeyCovers ==
  ASSUME NEW l \in Lanes, NEW s, Scanned(s), NEW found \in SUBSET (1..s.n), found # {},
         NEW j \in laneJobs, j.key = KeyOf(l, found), NEW e \in found
  PROVE  e <= j.covers
<1> DEFINE top == LatestOf({At(f) : f \in found})
<1>1. /\ j.key.at = top /\ KeySeen(j) /\ j.covers \in Nat
  BY DEF Scanned, LaneInv, LaneTypeOK, JobRows, KeyOf
<1>2. \A f \in found : At(f) <= top /\ At(f) \in Nat
  <2>1. talk \in Seq(Entries) /\ found \subseteq 1..Len(talk)
    BY DEF Scanned, LaneInv, LaneTypeOK
  <2>2. \A f \in found : talk[f] \in Entries
    BY <2>1
  <2> QED
    BY <2>2, TimesOf DEF At, Entries
<1>3. PICK m \in found : At(m) = top
  BY TimesOf
<1>4. \A f, g \in 1..Len(talk) : f < g => At(f) <= At(g) /\ (host # "github" => At(f) < At(g))
  BY DEF Scanned, LaneInv, TimesFollow, At
<1>5. found \subseteq 1..Len(talk) /\ e \in Nat /\ m \in Nat /\ e \in 1..Len(talk) /\ m \in 1..Len(talk) /\ Len(talk) \in Nat
  BY DEF Scanned, LaneInv, LaneTypeOK
<1>6. CASE host = "bitbucket"
  <2>1. PICK f \in 1..j.covers : At(f) = top
    BY <1>1 DEF KeySeen, At
  <2>2. f \in 1..Len(talk)
    BY <1>1, <1>5 DEF KeySeen
  <2>3. ~(f < e)
    <3>1. SUFFICES ASSUME f < e PROVE FALSE
      OBVIOUS
    <3>2. At(f) < At(e) /\ host # "github"
      BY <1>4, <1>5, <1>6, <2>2, <3>1
    <3>3. At(e) <= At(f) /\ At(e) \in Nat /\ At(f) \in Nat
      <4>1. top \in Nat
        BY TimesOf
      <4> HIDE DEF top
      <4> QED
        BY <1>2, <2>1, <4>1
    <3> QED
      BY <3>2, <3>3
  <2> QED
    BY <1>1, <1>5, <2>2, <2>3
<1>7. CASE host = "github" /\ l = "comments"
  <2>1. m \in Newest(found)
    BY <1>3 DEF Newest
  <2>2. j.key.ids = Newest(found)
    BY <1>7 DEF KeyOf
  <2>3. m <= j.covers
    BY <1>1, <2>1, <2>2 DEF KeySeen
  <2>4. CASE At(e) = top
    <3>1. e \in j.key.ids
      BY <2>2, <2>4 DEF Newest
    <3> QED
      BY <1>1, <3>1 DEF KeySeen
  <2>5. CASE At(e) # top
    <3>1. ~(m < e)
      BY <1>2, <1>3, <1>4, <1>5, <2>5
    <3> QED
      BY <1>1, <1>5, <2>3, <3>1
  <2> QED
    BY <2>4, <2>5
<1>8. CASE host # "bitbucket" /\ ~(host = "github" /\ l = "comments")
  <2>1. j.key.ids = {LatestOf(found)}
    BY <1>8 DEF KeyOf
  <2>2. LatestOf(found) \in found /\ e <= LatestOf(found)
    BY TimesOf
  <2>3. LatestOf(found) <= j.covers /\ LatestOf(found) \in Nat
    BY <1>1, <2>1 DEF KeySeen
  <2> QED
    BY <1>1, <1>5, <2>2, <2>3
<1> QED
  BY <1>6, <1>7, <1>8

LEMMA PublishKeeps ==
  ASSUME LaneInv, NEW l \in Lanes, ScanPublishes(l)
  PROVE  LaneInv'
<1> DEFINE s     == scan[l]
           found == Found(l, s)
           key   == KeyOf(l, found)
           n     == Len(talk)
           new   == [key |-> key, state |-> "queued", covers |-> n]
<1>1. Scanned(s) /\ n \in Nat /\ talk \in Seq(Entries)
  BY DEF Scanned, LaneInv, LaneTypeOK
<1>2. UNCHANGED <<host, second, talk, gone>> /\ scan' = [scan EXCEPT ![l] = NoScan]
  BY DEF ScanPublishes
<1>3. /\ scan' \in [Lanes -> [pc : {"idle", "publish"}, n : Nat, gone : SUBSET Nat]]
      /\ \A k \in Lanes : scan'[k].n <= n
  BY <1>1, <1>2 DEF NoScan, LaneInv, LaneTypeOK
<1>4. found \in SUBSET (1..s.n)
  BY DEF Found, FlagUnanswered, UnansweredMention, Theirs, Comments, Outstanding, Requests
<1>5. ASSUME found # {} PROVE new \in JobRows /\ KeySeen(new)
  <2> DEFINE top == LatestOf({At(f) : f \in found})
  <2>1. /\ top \in Nat /\ (\E e \in found : At(e) = top) /\ LatestOf(found) \in found
    BY <1>1, <1>4, <1>5, TimesOf
  <2>2. found \subseteq 1..n /\ 1..n \subseteq Nat
    BY <1>1, <1>4 DEF Scanned
  <2>3. key.ids \subseteq found /\ key.at = top /\ key.lane = l
    BY <2>1 DEF KeyOf, Newest
  <2>4. key \in Keys
    <3>1. ASSUME NEW ids \in SUBSET Nat, NEW at \in Nat PROVE [lane |-> l, at |-> at, ids |-> ids] \in Keys
      BY DEF Keys
    <3>2. key.ids \in SUBSET Nat /\ key = [lane |-> l, at |-> top, ids |-> key.ids]
      BY <2>2, <2>3 DEF KeyOf
    <3> HIDE DEF key, top
    <3> QED
      BY <2>1, <3>1, <3>2
  <2> HIDE DEF key, top, found
  <2>5. new \in JobRows
    BY <1>1, <2>4 DEF JobRows
  <2>6. \E e \in 1..n : talk[e].at = top
    BY <2>1, <2>2 DEF At
  <2>7. key.ids \subseteq 1..n
    BY <2>2, <2>3
  <2> HIDE DEF n
  <2>8. new.covers = n /\ new.key = key
    OBVIOUS
  <2> HIDE DEF new
  <2>9. KeySeen(new)
    BY <1>1, <2>3, <2>6, <2>7, <2>8 DEF KeySeen, n
  <2> QED
    BY <2>5, <2>9
<1>6. \/ laneJobs' = laneJobs
      \/ found # {} /\ laneJobs' = laneJobs \cup {new}
  BY DEF ScanPublishes
<1>7. \A k \in Lanes, e \in Nat : Covered(k, e) => Covered(k, e)'
  BY <1>6 DEF Covered
<1>8. ASSUME NEW e \in Unheard(l, s), ~Active(l) PROVE Covered(l, e)'
  <2>1. /\ e \in 1..s.n
        /\ \/ e \in found
           \/ \E f \in found : e <= f
    BY <1>1, UnheardIsFound
  <2>2. PICK f \in found : e <= f /\ f \in Nat /\ e \in Nat /\ f <= n
    BY <1>1, <1>4, <2>1 DEF Scanned
  <2>3. found # {}
    BY <2>2
  <2>4. CASE \E j \in laneJobs : j.key = key
    <3>1. PICK j \in laneJobs : j.key = key
      BY <2>4
    <3>2. f <= j.covers /\ j.covers \in Nat
      <4> HIDE DEF found, s
      <4> QED
        BY <1>1, <1>4, <2>3, <3>1, KeyCovers DEF LaneInv, LaneTypeOK, JobRows
    <3>4. j.key.lane = l
      BY <3>1 DEF KeyOf
    <3>3. e <= j.covers /\ j \in laneJobs'
      BY <1>6, <2>2, <3>2
    <3> QED
      BY <3>3, <3>4 DEF Covered
  <2>5. CASE ~(\E j \in laneJobs : j.key = key)
    <3>1. laneJobs' = laneJobs \cup {new}
      BY <1>8, <2>3, <2>5 DEF ScanPublishes
    <3>2. new.covers = n /\ new.key.lane = l /\ new \in laneJobs'
      BY <3>1 DEF KeyOf
    <3>3. e <= n
      BY <1>1, <2>2
    <3> HIDE DEF new, n
    <3> QED
      BY <3>2, <3>3 DEF Covered
  <2> QED
    BY <2>4, <2>5
<1>9. owed' = owed \/ (~Active(l) /\ owed' = owed \cup ({l} \X Unheard(l, s)))
  BY DEF ScanPublishes
<1>10. \A e \in Unheard(l, s) : e \in Nat
  <2>1. s.n \in Nat
    BY <1>1 DEF Scanned
  <2> QED
    BY <1>1, <2>1, UnheardIsFound
<1>11. owed' \in SUBSET (Lanes \X Nat)
  BY <1>9, <1>10 DEF LaneInv, LaneTypeOK
<1>12. FeedbackQueued'
  <2>1. ASSUME NEW w \in owed' PROVE Covered(w[1], w[2])'
    <3>1. CASE w \in owed
      <4>1. w[1] \in Lanes /\ w[2] \in Nat /\ Covered(w[1], w[2])
        BY <3>1 DEF LaneInv, LaneTypeOK, FeedbackQueued
      <4> QED
        BY <1>7, <4>1
    <3>2. CASE w \notin owed
      <4>1. ~Active(l) /\ w[1] = l /\ w[2] \in Unheard(l, s)
        BY <1>9, <3>2
      <4> QED
        BY <1>8, <4>1
    <3> QED
      BY <3>1, <3>2
  <2> QED
    BY <2>1 DEF FeedbackQueued, Covered
<1>13. laneJobs' \in SUBSET JobRows /\ \A j \in laneJobs' : KeySeen(j)
  <2> HIDE DEF new, found
  <2> QED
    BY <1>5, <1>6 DEF LaneInv, LaneTypeOK
<1>14. \A j \in laneJobs' : KeySeen(j)'
  BY <1>2, <1>13 DEF KeySeen
<1>15. LaneTypeOK'
  BY <1>2, <1>3, <1>11, <1>13 DEF LaneInv, LaneTypeOK
<1>16. TimesFollow'
  BY <1>2 DEF LaneInv, TimesFollow
<1> QED
  BY <1>2, <1>3, <1>12, <1>14, <1>15, <1>16 DEF LaneInv

LEMMA LaneStepKeeps == LaneInv /\ [LaneNext]_laneVars => LaneInv'
<1> SUFFICES ASSUME LaneInv, [LaneNext]_laneVars PROVE LaneInv'
  OBVIOUS
<1> USE DEF LaneInv
<1>1. ASSUME UNCHANGED <<host, talk, laneJobs, scan, owed>>, second' \in Nat \ {0}, second <= second', gone' \in SUBSET Nat
      PROVE  LaneInv'
  <2>1. second \in Nat /\ \A e \in 1..Len(talk) : talk[e].at \in Nat /\ talk[e].at <= second
    <3>1. talk \in Seq(Entries)
      BY DEF LaneTypeOK
    <3>2. \A e \in 1..Len(talk) : talk[e] \in Entries
      BY <3>1
    <3> QED
      BY <3>2 DEF LaneTypeOK, Entries, TimesFollow
  <2>2. \A e \in 1..Len(talk) : talk[e].at <= second'
    BY <1>1, <2>1
  <2>3. TimesFollow'
    BY <1>1, <2>2 DEF TimesFollow
  <2> QED
    BY <1>1, <2>3 DEF LaneTypeOK, KeySeen, FeedbackQueued, Covered
<1>2. CASE UNCHANGED laneVars
  BY <1>1, <1>2 DEF laneVars, LaneTypeOK
<1>3. CASE ReviewerSays
  <2>1. PICK r \in Reviewers, what \in {"comment", "changes", "approve"} : Says(r, what)
    BY <1>3 DEF ReviewerSays
  <2> QED
    BY <1>3, <2>1, SaysKeeps DEF ReviewerSays
<1>4. CASE SomeoneCommits
  <2>1. PICK r \in Reviewers : Says(r, "commit")
    BY <1>4 DEF SomeoneCommits
  <2> QED
    BY <1>4, <2>1, SaysKeeps DEF SomeoneCommits
<1>5. CASE AgentAnswers
  <2>1. PICK what \in {"comment", "commit"} : Says(Agent, what)
    BY <1>5 DEF AgentAnswers
  <2> QED
    BY <1>5, <2>1, SaysKeeps DEF AgentAnswers
<1>6. CASE Second
  BY <1>1, <1>6 DEF Second, LaneTypeOK
<1>7. CASE ResolveComment
  <2>1. PICK e \in 1..Len(talk) : gone' = gone \cup {e}
    BY <1>7 DEF ResolveComment
  <2>2. gone' \in SUBSET Nat
    BY <2>1 DEF LaneTypeOK
  <2> QED
    BY <1>1, <1>7, <2>2 DEF ResolveComment, LaneTypeOK
<1>8. CASE AgentReads
  BY <1>8, JobGoesOn DEF AgentReads
<1>9. CASE AgentEnds
  BY <1>9, JobGoesOn DEF AgentEnds
<1>10. ASSUME NEW l \in Lanes, ScanReads(l) \/ ScanGivesUp(l) PROVE LaneInv'
  <2>1. Len(talk) \in Nat /\ gone \in SUBSET Nat
    BY DEF LaneTypeOK
  <2>2. /\ scan' \in [Lanes -> [pc : {"idle", "publish"}, n : Nat, gone : SUBSET Nat]]
        /\ \A k \in Lanes : scan'[k].n <= Len(talk)
    <3>1. CASE scan' = [scan EXCEPT ![l] = [pc |-> "publish", n |-> Len(talk), gone |-> gone]]
      BY <2>1, <3>1 DEF LaneTypeOK
    <3>2. CASE scan' = [scan EXCEPT ![l] = NoScan]
      BY <2>1, <3>2 DEF LaneTypeOK, NoScan
    <3> QED
      BY <1>10, <3>1, <3>2 DEF ScanReads, ScanGivesUp
  <2>3. UNCHANGED <<host, second, talk, gone, laneJobs, owed>>
    BY <1>10 DEF ScanReads, ScanGivesUp
  <2> QED
    BY <2>2, <2>3 DEF LaneTypeOK, TimesFollow, KeySeen, FeedbackQueued, Covered
<1> QED
  BY <1>2, <1>3, <1>4, <1>5, <1>6, <1>7, <1>8, <1>9, <1>10, PublishKeeps DEF LaneNext

\* What a scan of a quiet lane found unanswered is in a job published after it was said, for any
\* hosts, reviewers and bounds: no tie of the clock and no earlier key hides it
\* (review_scan.py:118-131, 207-222).
THEOREM FeedbackIsQueued == LaneSpec => []FeedbackQueued
<1>1. LaneInv => FeedbackQueued
  BY DEF LaneInv
<1> QED
  BY <1>1, LaneInitInv, LaneStepKeeps, PTL DEF LaneSpec

-----------------------------------------------------------------------------
(* RateLimit: the hold of a limited client *)

Counters == [start : Nat, count : Nat, failures : Nat, held : Nat, expires : Nat, there : BOOLEAN]

\* A hold is at most Hold long, and its row is kept at least as long.
Keeps(r) == r.held <= now + Hold /\ (r.there => r.expires >= r.held)

LimitInv ==
    /\ now \in Nat
    /\ row \in [Buckets -> Counters]
    /\ \A b \in Buckets : Keeps(row[b])

\* What a statement may do to a row.
Outlasts(r, s) == OnHold(r) => s.there /\ s.held >= r.held

LEMMA LimitInitInv == LimitInit => LimitInv
BY PeriodsAssumption DEF LimitInit, LimitInv, NoRow, Counters, Keeps

\* The expiry that a statement computes from what it wrote.
LEMMA ExpiresKeeps ==
  ASSUME NEW r \in Counters, now \in Nat, r.held <= now + Hold
  PROVE  /\ [r EXCEPT !.expires = ExpiresAt(r)] \in Counters
         /\ [r EXCEPT !.expires = ExpiresAt(r)].held = r.held
         /\ [r EXCEPT !.expires = ExpiresAt(r)].there = r.there
         /\ Keeps([r EXCEPT !.expires = ExpiresAt(r)])
<1>1. r.start \in Nat /\ r.held \in Nat
  BY DEF Counters
<1>2. ExpiresAt(r) \in Nat /\ ExpiresAt(r) >= r.held
  BY <1>1, PeriodsAssumption DEF ExpiresAt, Latest
<1> DEFINE t == ExpiresAt(r)
<1> HIDE DEF t
<1>3. t \in Nat /\ t >= r.held
  BY <1>2 DEF t
<1>4. [r EXCEPT !.expires = t] \in Counters /\ [r EXCEPT !.expires = t].held = r.held
      /\ [r EXCEPT !.expires = t].there = r.there /\ [r EXCEPT !.expires = t].expires = t
  BY <1>3 DEF Counters
<1> QED
  BY <1>3, <1>4 DEF Keeps, t

LEMMA TouchedKeeps ==
  ASSUME NEW r \in Counters, now \in Nat, Keeps(r)
  PROVE  Touched(r) \in Counters /\ Keeps(Touched(r)) /\ Outlasts(r, Touched(r))
<1> DEFINE fresh == ~r.there \/ Stale(r)
           a == [r EXCEPT !.there = TRUE]
           b == [a EXCEPT !.start = IF fresh THEN now ELSE @]
           c == [b EXCEPT !.count = IF fresh THEN 1 ELSE @ + 1]
           d == [c EXCEPT !.failures = IF fresh THEN 0 ELSE @]
<1>1. a \in Counters /\ a.held = r.held /\ a.there
  BY DEF Counters
<1> HIDE DEF a, fresh
<1>2. b \in Counters /\ b.held = r.held /\ b.there
  BY <1>1 DEF Counters
<1> HIDE DEF b
<1>3. c \in Counters /\ c.held = r.held /\ c.there
  BY <1>2 DEF Counters
<1> HIDE DEF c
<1>4. d \in Counters /\ d.held = r.held /\ d.there
  BY <1>3 DEF Counters
<1>5. Touched(r) = [d EXCEPT !.expires = ExpiresAt(d)]
  BY DEF Touched, a, b, c, fresh, Counters
<1> HIDE DEF d
<1>6. d.held <= now + Hold
  BY <1>4 DEF Keeps
<1>7. r.held \in Nat
  BY DEF Counters
<1> QED
  BY <1>4, <1>5, <1>6, <1>7, ExpiresKeeps DEF Outlasts

LEMMA FailedKeeps ==
  ASSUME NEW r \in Counters, now \in Nat, Keeps(r)
  PROVE  Failed(r) \in Counters /\ Keeps(Failed(r)) /\ Outlasts(r, Failed(r))
<1> DEFINE fresh == ~r.there \/ Stale(r)
           n == IF fresh THEN 1 ELSE r.failures + 1
           h == IF n >= Threshold THEN now + Hold ELSE r.held
           a == [r EXCEPT !.there = TRUE]
           b == [a EXCEPT !.start = IF fresh THEN now ELSE @]
           c == [b EXCEPT !.failures = n]
           d == [c EXCEPT !.held = h]
<1>1. n \in Nat /\ h \in Nat /\ h >= r.held /\ h <= now + Hold
  <2>1. n \in Nat /\ r.held \in Nat /\ r.held <= now + Hold /\ now + Hold \in Nat
    BY PeriodsAssumption DEF Counters, Keeps
  <2> HIDE DEF n
  <2> QED
    BY <2>1
<1>2. a \in Counters /\ a.held = r.held /\ a.there
  BY DEF Counters
<1> HIDE DEF a, fresh, n, h
<1>3. b \in Counters /\ b.held = r.held /\ b.there
  BY <1>2 DEF Counters
<1> HIDE DEF b
<1>4. c \in Counters /\ c.held = r.held /\ c.there
  BY <1>1, <1>3 DEF Counters
<1> HIDE DEF c
<1>5. d \in Counters /\ d.held = h /\ d.there
  BY <1>1, <1>4 DEF Counters
<1>6. Failed(r) = [d EXCEPT !.expires = ExpiresAt(d)]
  BY DEF Failed, a, b, c, n, h, fresh, Counters
<1> HIDE DEF d
<1> QED
  BY <1>1, <1>5, <1>6, ExpiresKeeps DEF Outlasts

\* One row is replaced by one that keeps its hold, while time stands.
LEMMA RowKeeps ==
  ASSUME LimitInv, NEW b \in Buckets, NEW s \in Counters, Keeps(s), Outlasts(row[b], s),
         row' = [row EXCEPT ![b] = s], now' = now
  PROVE  LimitInv' /\ \A c \in Buckets : Outlasts(row[c], row'[c])
<1>1. row \in [Buckets -> Counters] /\ row' \in [Buckets -> Counters] /\ row'[b] = s /\ \A c \in Buckets : c # b => row'[c] = row[c]
  BY DEF LimitInv
<1>2. \A c \in Buckets : row[c].held \in Nat /\ Outlasts(row[c], row[c])
  BY <1>1 DEF Counters, Outlasts, OnHold
<1>3. ASSUME NEW c \in Buckets PROVE Keeps(row[c])' /\ Outlasts(row[c], row'[c])
  BY <1>1, <1>2 DEF LimitInv, Keeps
<1> QED
  BY <1>1, <1>3 DEF LimitInv

LEMMA SameKeeps ==
  ASSUME LimitInv, row' = row, now' \in Nat, now' >= now
  PROVE  LimitInv' /\ \A c \in Buckets : Outlasts(row[c], row'[c])
<1>1. \A c \in Buckets : row[c].held \in Nat
  BY DEF LimitInv, Counters
<1>2. \A c \in Buckets : Keeps(row[c])'
  BY <1>1, PeriodsAssumption DEF LimitInv, Keeps
<1>3. \A c \in Buckets : Outlasts(row[c], row'[c])
  BY <1>1 DEF Outlasts, OnHold
<1> QED
  BY <1>2, <1>3 DEF LimitInv

LEMMA CallKeeps ==
  ASSUME LimitInv, NEW c \in Calls,
         Limited(c) \/ ProveIdentity(c) \/ RefusedAsStranger(c) \/ Answer(c) \/ RecordFailure(c)
  PROVE  LimitInv' /\ \A b \in Buckets : Outlasts(row[b], row'[b])
<1>1. /\ now \in Nat /\ now' = now /\ now' >= now
      /\ \A b \in Buckets : row[b] \in Counters /\ Keeps(row[b])
  BY DEF LimitInv, Limited, ProveIdentity, RefusedAsStranger, Answer, RecordFailure
<1>2. ASSUME NEW b \in Buckets, row' = [row EXCEPT ![b] = Touched(row[b])]
      PROVE  LimitInv' /\ \A d \in Buckets : Outlasts(row[d], row'[d])
  BY <1>1, <1>2, TouchedKeeps, RowKeeps
<1>3. ASSUME NEW b \in Buckets, row' = [row EXCEPT ![b] = Failed(row[b])]
      PROVE  LimitInv' /\ \A d \in Buckets : Outlasts(row[d], row'[d])
  BY <1>1, <1>3, FailedKeeps, RowKeeps
<1>4. CASE row' = row
  BY <1>1, <1>4, SameKeeps
<1>5. "session" \in Buckets /\ "address" \in Buckets
  BY DEF Buckets
<1>6. Limited(c) => row' = [row EXCEPT !["session"] = Touched(row["session"])]
  BY DEF Limited
<1>7. RefusedAsStranger(c) => row' = row \/ row' = [row EXCEPT !["address"] = Touched(row["address"])]
  BY DEF RefusedAsStranger
<1>8. RecordFailure(c) => \E b \in Buckets : row' = [row EXCEPT ![b] = Failed(row[b])]
  BY DEF RecordFailure
<1>9. ProveIdentity(c) \/ Answer(c) => row' = row
  BY DEF ProveIdentity, Answer
<1> QED
  BY <1>2, <1>3, <1>4, <1>5, <1>6, <1>7, <1>8, <1>9

\* A row on hold is not pruned.
LEMMA PruneKeeps ==
  ASSUME LimitInv, PruneBuckets
  PROVE  LimitInv' /\ \A b \in Buckets : Outlasts(row[b], row'[b])
<1>1. /\ now \in Nat /\ now' = now /\ row \in [Buckets -> Counters]
      /\ row' = [b \in Buckets |-> IF row[b].there /\ row[b].expires <= now THEN NoRow ELSE row[b]]
  BY DEF LimitInv, PruneBuckets
<1>2. NoRow \in Counters /\ Keeps(NoRow)
  BY <1>1, PeriodsAssumption DEF NoRow, Counters, Keeps
<1>3. ASSUME NEW b \in Buckets PROVE row'[b] \in Counters /\ Keeps(row'[b]) /\ Outlasts(row[b], row'[b])
  <2>1. row[b] \in Counters /\ Keeps(row[b]) /\ row[b].held \in Nat /\ row[b].expires \in Nat
    BY <1>1 DEF LimitInv, Counters
  <2>2. CASE row[b].there /\ row[b].expires <= now
    <3>1. ~OnHold(row[b])
      BY <1>1, <2>1, <2>2 DEF OnHold, Keeps
    <3> QED
      BY <1>1, <1>2, <2>2, <3>1 DEF Outlasts
  <2>3. CASE ~(row[b].there /\ row[b].expires <= now)
    BY <1>1, <2>1, <2>3 DEF Outlasts, OnHold
  <2> QED
    BY <2>2, <2>3
<1>4. row' \in [Buckets -> Counters]
  BY <1>1, <1>3
<1>5. \A b \in Buckets : Keeps(row[b])'
  BY <1>1, <1>3 DEF Keeps
<1> QED
  BY <1>1, <1>3, <1>4, <1>5 DEF LimitInv

LEMMA LimitStepKeeps ==
  ASSUME LimitInv, [LimitNext]_limitVars
  PROVE  LimitInv' /\ \A b \in Buckets : Outlasts(row[b], row'[b])
<1>1. now \in Nat
  BY DEF LimitInv
<1>2. CASE TimePasses \/ UNCHANGED limitVars
  <2>1. row' = row /\ now' \in Nat /\ now' >= now
    BY <1>1, <1>2 DEF TimePasses, limitVars
  <2> QED
    BY <2>1, SameKeeps
<1> QED
  BY <1>2, CallKeeps, PruneKeeps DEF LimitNext

\* Only time ends a hold (HoldLasts).
THEOREM HoldsLast == LimitSpec => HoldLasts
<1> DEFINE Lasts == \A b \in Buckets : OnHold(row[b]) => row'[b].there /\ row'[b].held >= row[b].held
<1>1. LimitInv /\ [LimitNext]_limitVars => LimitInv'
  BY LimitStepKeeps
<1>2. LimitInv /\ [LimitNext]_limitVars => [Lasts]_limitVars
  BY LimitStepKeeps DEF Outlasts
<1> QED
  BY <1>1, <1>2, LimitInitInv, PTL DEF LimitSpec, HoldLasts
=============================================================================
