--------------------------- MODULE CredentialPool ---------------------------
(***************************************************************************)
(* The pool of provider credentials of one scope: which credential a run   *)
(* gets, the refresh lease that keeps a single-use refresh token with one  *)
(* process, the refresh outside the run, what a failed run does to its     *)
(* credential, and the operator's commands.                                *)
(*                                                                         *)
(* A refresh token is a chain (one login at the provider) and a number.    *)
(* The provider accepts the tokens in "valid"; presenting one replaces it  *)
(* by its successor.  The life of an access token is abstracted to fresh,  *)
(* near (inside the horizon of refresh_imminent) and over.  A run that was *)
(* given a fresh token ends before the token is over: that is what the     *)
(* horizon is for.  One consumer; each of its threads runs one job.        *)
(***************************************************************************)
EXTENDS Integers, Sequences, FiniteSets, SequencesExt

CONSTANTS
    Creds,          \* credential ids, in id order: a set of numbers
    Rotating,       \* those with a refresh token; the others are API keys
    Runs,           \* worker threads, each with a job that needs the scope
    PoolBudgets     \* bounds: how many of each kind of step, a set of records

NoCred == 0
NoOne  == "nobody"
TICK   == "limits"  \* the lease owner of the limits tick

ASSUME RotatingAssumption == Rotating \subseteq Creds
ASSUME OwnersAssumption   == NoOne \notin Runs /\ TICK \notin Runs

VARIABLES
    cred,       \* the credential rows
    lru,        \* the ids by used_at, least recently used first
    valid,      \* tokens the provider accepts, per credential
    login,      \* chain of the operator's latest login, per credential
    run,        \* the worker threads
    held,       \* Consumer._held_leases: runs whose lease is renewed
    tick,       \* the credential:limits command
    relogin,    \* credential:refresh: the row whose owner is at the provider's page
    pool        \* what is left of the bounds

poolVars == <<cred, lru, valid, login, run, held, tick, relogin, pool>>

Token == [chain : Nat, n : Nat]
Life  == {"fresh", "near", "over"}

CredRow == [enabled : BOOLEAN, status : {"ok", "error"}, source : {"none", "auto", "operator"},
            throttled : BOOLEAN, expired : BOOLEAN, life : Life, tok : Token, prio : 0..1,
            owner : Runs \cup {NoOne, TICK}, live : BOOLEAN]

NoRun == [pc |-> "idle", cred |-> NoCred, tok |-> [chain |-> 0, n |-> 0],
          leased |-> FALSE, rotated |-> FALSE, refreshed |-> FALSE, ok |-> FALSE, next |-> "none"]

PoolInit ==
    /\ cred = [c \in Creds |->
         [enabled |-> TRUE, status |-> "ok", source |-> "none", throttled |-> FALSE,
          expired |-> FALSE, life |-> "fresh", tok |-> [chain |-> 0, n |-> 0], prio |-> 0,
          owner |-> NoOne, live |-> FALSE]]
    /\ lru = SetToSortSeq(Creds, <)
    /\ valid = [c \in Creds |-> IF c \in Rotating THEN {[chain |-> 0, n |-> 0]} ELSE {}]
    /\ login = [c \in Creds |-> 0]
    /\ run = [r \in Runs |-> NoRun]
    /\ held = {}
    /\ tick = [pc |-> "idle", cred |-> NoCred, tok |-> [chain |-> 0, n |-> 0]]
    /\ relogin = NoCred
    /\ pool \in PoolBudgets

Spend(k) == pool[k] > 0 /\ pool' = [pool EXCEPT ![k] = @ - 1]

-----------------------------------------------------------------------------
(* Selection: credential_store.select_credential, credential_resolver *)

Healthy(c) == /\ cred[c].enabled
              /\ cred[c].status = "ok"
              /\ ~cred[c].expired
              /\ ~cred[c].throttled

\* The candidates of select_credential: healthy, and no unexpired lease.
FreeRow(c) == Healthy(c) /\ ~cred[c].live

\* refresh_imminent: only a row with a refresh token, near the end of its life.
RefreshImminent(c) == c \in Rotating /\ cred[c].life # "fresh"

Position(c) == CHOOSE i \in DOMAIN lru : lru[i] = c

\* ORDER BY priority, used_at
GoesBefore(c, d) == \/ cred[c].prio < cred[d].prio
                    \/ cred[c].prio = cred[d].prio /\ Position(c) < Position(d)

Touched(c) == Append(SelectSeq(lru, LAMBDA d : d # c), c)

\* write_credentials: what the run's HOME gets is the payload of the row that was read.
Given(c) == cred[c].tok

\* resolve, one claim that finds a row.  The same statement stamps used_at and
\* takes the lease, or clears an expired one.
Select(r) ==
    /\ run[r].pc = "idle"
    /\ \E c \in Creds :
         /\ FreeRow(c)
         /\ \A d \in Creds \ {c} : FreeRow(d) => GoesBefore(c, d)
         /\ lru' = Touched(c)
         /\ cred' = [cred EXCEPT ![c].owner = IF RefreshImminent(c) THEN r ELSE NoOne,
                                 ![c].live = RefreshImminent(c)]
         /\ run' = [run EXCEPT ![r] = [NoRun EXCEPT
                      !.pc = IF RefreshImminent(c) THEN "refreshing" ELSE "running",
                      !.cred = c, !.tok = Given(c)]]
    /\ UNCHANGED <<valid, login, held, tick, relogin, pool>>

\* resolve gives up: busy when a healthy row exists (it is leased), else the job
\* waits for a credential.  Both put the job off.
NoneFree(r) ==
    /\ run[r].pc = "idle"
    /\ \A c \in Creds : ~FreeRow(c)
    /\ run' = [run EXCEPT ![r].pc = IF \E c \in Creds : Healthy(c) THEN "busy" ELSE "waiting"]
    /\ UNCHANGED <<cred, lru, valid, login, held, tick, relogin, pool>>

\* A job that was put off is due again.
ComesBack(r) ==
    /\ run[r].pc \in {"busy", "waiting"}
    /\ run' = [run EXCEPT ![r].pc = "idle"]
    /\ UNCHANGED <<cred, lru, valid, login, held, tick, relogin, pool>>

-----------------------------------------------------------------------------
(* What a failed run or refresh does to its credential *)

FailureKinds == {"transient", "limit", "auth", "other"}

Mark(row, src)  == [row EXCEPT !.status = "error", !.source = src]
Throttle(row)   == [row EXCEPT !.throttled = TRUE]

\* _handle_transient_auth: a refused token that can be rotated is only cooled
\* down; one that cannot is dead.
HandleTransientAuth(c) == IF c \in Rotating THEN Throttle(cred[c]) ELSE Mark(cred[c], "auto")

\* _handle_usage_limit and _handle_auth_failure
HandleFailure(c, kind) ==
    CASE kind = "transient" -> HandleTransientAuth(c)
      [] kind = "limit"     -> Throttle(cred[c])
      [] kind = "auth"      -> Mark(cred[c], "auto")
      [] OTHER              -> cred[c]

\* retry_with_other_token, and _raise_if_auth_wait, from the healthy rows after the
\* handler's commit.
NextAfter(rows, kind) ==
    LET healthy == \E d \in Creds : /\ rows[d].enabled /\ rows[d].status = "ok"
                                    /\ ~rows[d].expired /\ ~rows[d].throttled
    IN  IF kind = "other" THEN "over"
        ELSE IF healthy THEN "failover" ELSE "waiting"

\* The thread's exception: the handler's transaction, then the lifecycle's end.
Fails(r, kind) ==
    LET c    == run[r].cred
        rows == [cred EXCEPT ![c] = HandleFailure(c, kind)]
    IN  /\ cred' = rows
        /\ run' = [run EXCEPT ![r].pc = "ended", ![r].ok = FALSE, ![r].next = NextAfter(rows, kind)]

-----------------------------------------------------------------------------
(* The refresh under the lease: Consumer._refresh_claimed_credential, and the *)
(* workspace adapter's refresh_credentials                                    *)

Successor(t) == [t EXCEPT !.n = @ + 1]

\* The provider: a valid token is replaced by its successor.
Present(c, t) == valid' = [valid EXCEPT ![c] = (@ \ {t}) \cup {Successor(t)}]

\* update_refreshed_credentials writes the payload and the expiry, nothing else.
Refreshed(row, t, life) == [row EXCEPT !.tok = t, !.expired = FALSE, !.life = life]

\* The adapter rotates and persists; some tokens are near their end again at once.
RefreshRotates(r) ==
    LET c == run[r].cred
    IN  /\ run[r].pc = "refreshing"
        /\ run[r].tok \in valid[c]
        /\ Spend("rotate")
        /\ Present(c, run[r].tok)
        /\ \E life \in {"fresh", "near"} :
             cred' = [cred EXCEPT ![c] = Refreshed(@, Successor(run[r].tok), life)]
        /\ run' = [run EXCEPT ![r].pc = "refreshed", ![r].refreshed = TRUE]
        /\ UNCHANGED <<lru, login, held, tick, relogin>>

\* The harness cannot refresh out of band, or its command failed for no known reason.
RefreshUnavailable(r) ==
    /\ run[r].pc = "refreshing"
    /\ run' = [run EXCEPT ![r].pc = "refreshed"]
    /\ UNCHANGED <<cred, lru, valid, login, held, tick, relogin, pool>>

\* A classified failure is handled like a failed run.
RefreshFails(r) ==
    /\ run[r].pc = "refreshing"
    /\ Spend("fail")
    /\ \E kind \in IF run[r].tok \in valid[run[r].cred] THEN {"limit", "auth"} ELSE {"transient"} :
         Fails(r, kind)
    /\ UNCHANGED <<lru, valid, login, held, tick, relogin>>

\* The row is read again: an unfit one ends the run; a token with a full life is
\* shared and the lease released (which wakes the busy jobs); else the run keeps the
\* lease and it is renewed.
Reread(r) ==
    LET c    == run[r].cred
        fit  == cred[c].enabled /\ cred[c].status = "ok"
        free == run[r].refreshed /\ ~RefreshImminent(c)
        mine == cred[c].owner = r
    IN  /\ run[r].pc = "refreshed"
        /\ \/ /\ ~fit
              /\ run' = [run EXCEPT ![r].pc = "ended", ![r].next = "over"]
              /\ UNCHANGED <<cred, held>>
           \/ /\ fit /\ free
              /\ run' = [s \in Runs |->
                   IF s = r THEN [run[r] EXCEPT !.pc = "running", !.tok = Given(c)]
                   ELSE IF mine /\ run[s].pc = "busy" THEN [run[s] EXCEPT !.pc = "idle"]
                   ELSE run[s]]
              /\ cred' = IF mine THEN [cred EXCEPT ![c].owner = NoOne, ![c].live = FALSE] ELSE cred
              /\ UNCHANGED held
           \/ /\ fit /\ ~free
              /\ run' = [run EXCEPT ![r].pc = "running", ![r].tok = Given(c), ![r].leased = TRUE]
              /\ held' = held \cup {r}
              /\ UNCHANGED cred
        /\ UNCHANGED <<lru, valid, login, tick, relogin, pool>>

-----------------------------------------------------------------------------
(* The run *)

\* The agent's own client refreshes in the run's HOME.
RunRotates(r) ==
    LET c == run[r].cred
    IN  /\ run[r].pc = "running" /\ run[r].leased
        /\ run[r].tok \in valid[c]
        /\ Spend("rotate")
        /\ Present(c, run[r].tok)
        /\ run' = [run EXCEPT ![r].tok = Successor(@), ![r].rotated = TRUE]
        /\ UNCHANGED <<cred, lru, login, held, tick, relogin>>

RunSucceeds(r) ==
    /\ run[r].pc = "running"
    /\ run' = [run EXCEPT ![r].pc = "ended", ![r].ok = TRUE, ![r].next = "over"]
    /\ UNCHANGED <<cred, lru, valid, login, held, tick, relogin, pool>>

RunFails(r) ==
    /\ run[r].pc = "running"
    /\ Spend("fail")
    /\ \E kind \in FailureKinds : Fails(r, kind)
    /\ UNCHANGED <<lru, valid, login, held, tick, relogin>>

\* The refresh token in the run's HOME is not the one the run was given.
Rotated(r) == run[r].rotated

\* capture_refreshed_credentials: the payload in HOME, if its refresh token changed.
Captured(r) == IF Rotated(r) THEN Refreshed(cred[run[r].cred], run[r].tok, "fresh")
               ELSE cred[run[r].cred]

\* clear_auto_credential_error: only the framework's own mark.
SelfHealed(row, ok) ==
    IF ok /\ row.source = "auto"
    THEN [row EXCEPT !.status = "ok", !.source = "none", !.throttled = FALSE] ELSE row

\* release_credential_lease: only the owner's.
Released(row, o) == IF row.owner = o THEN [row EXCEPT !.owner = NoOne, !.live = FALSE] ELSE row

\* Where the job goes: it is over, is tried again with another credential, or is put off.
Goes(r) == IF run[r].next = "failover" THEN "idle"
           ELSE IF run[r].next = "waiting" THEN "waiting" ELSE "done"

\* Faulty: the lease stays registered when the transaction failed.
FinishFailsKeepsHeld(r) ==
    /\ run[r].pc = "ended"
    /\ Spend("fault")
    /\ run' = [run EXCEPT ![r] = [NoRun EXCEPT !.pc = Goes(r)]]
    /\ UNCHANGED <<cred, lru, valid, login, held, tick, relogin>>

\* _finish_credential_lifecycle whose connection or commit fails: renewal stops.
FinishFails(r) ==
    /\ run[r].pc = "ended"
    /\ Spend("fault")
    /\ run' = [run EXCEPT ![r] = [NoRun EXCEPT !.pc = Goes(r)]]
    /\ held' = held \ {r}
    /\ UNCHANGED <<cred, lru, valid, login, tick, relogin>>

\* _finish_credential_lifecycle: capture, self-heal and release in one transaction.
FinishRun(r) ==
    LET c    == run[r].cred
        wake == cred[c].owner = r
    IN  /\ run[r].pc = "ended"
        /\ cred' = [cred EXCEPT ![c] = Released(SelfHealed(Captured(r), run[r].ok), r)]
        /\ run' = [s \in Runs |->
             IF s = r THEN [NoRun EXCEPT !.pc = Goes(r)]
             ELSE IF wake /\ run[s].pc = "busy" THEN [run[s] EXCEPT !.pc = "idle"] ELSE run[s]]
        /\ held' = held \ {r}
        /\ UNCHANGED <<lru, valid, login, tick, relogin, pool>>

\* The consumer dies: its threads, their processes and the renewals with it.
Crash ==
    /\ Spend("crash")
    /\ run' = [r \in Runs |-> IF run[r].pc \in {"done", "busy", "waiting"} THEN run[r] ELSE NoRun]
    /\ held' = {}
    /\ UNCHANGED <<cred, lru, valid, login, tick, relogin>>

-----------------------------------------------------------------------------
(* Time *)

\* A lease runs out when nobody renews it.  The claim's lease is twice as long as the
\* refresh may take, so it does not run out during one.
LeaseRunsOut(c) ==
    /\ cred[c].live
    /\ \/ cred[c].owner = TICK /\ tick.pc = "idle"
       \/ /\ cred[c].owner \in Runs \ held
          /\ \/ run[cred[c].owner].pc \notin {"refreshing", "refreshed"}
             \/ run[cred[c].owner].cred # c
    /\ cred' = [cred EXCEPT ![c].live = FALSE]
    /\ UNCHANGED <<lru, valid, login, run, held, tick, relogin, pool>>

CoolsDown(c) ==
    /\ cred[c].throttled
    /\ cred' = [cred EXCEPT ![c].throttled = FALSE]
    /\ UNCHANGED <<lru, valid, login, run, held, tick, relogin, pool>>

\* A token grows old.  It is not over while a run that was given it fresh goes on.
GrowsOld(c) ==
    /\ Spend("age")
    /\ \/ /\ c \in Rotating /\ cred[c].life = "fresh"
          /\ cred' = [cred EXCEPT ![c].life = "near"]
       \/ /\ c \in Rotating /\ cred[c].life = "near"
          /\ \A r \in Runs : ~(run[r].pc = "running" /\ run[r].cred = c /\ ~run[r].leased)
          /\ cred' = [cred EXCEPT ![c].life = "over"]
       \/ /\ c \notin Rotating /\ ~cred[c].expired
          /\ cred' = [cred EXCEPT ![c].expired = TRUE]
    /\ UNCHANGED <<lru, valid, login, run, held, tick, relogin>>

-----------------------------------------------------------------------------
(* credential:limits renews an expired token as a job would: _renew_expired *)

\* claim_credential_lease: no used_at, and no unexpired lease of anyone.
TickClaims(c) ==
    /\ tick.pc = "idle" /\ c \in Rotating
    /\ cred[c].enabled /\ cred[c].status = "ok" /\ cred[c].life = "over"
    /\ ~cred[c].live
    /\ Spend("tick")
    /\ cred' = [cred EXCEPT ![c].owner = TICK, ![c].live = TRUE]
    /\ tick' = [tick EXCEPT !.pc = "claimed", !.cred = c]
    /\ UNCHANGED <<lru, valid, login, run, held, relogin>>

\* The row as it is under the lease; an unfit or renewed one is left alone.
TickReads ==
    LET c == tick.cred
    IN  /\ tick.pc = "claimed"
        /\ tick' = [tick EXCEPT !.tok = cred[c].tok,
                      !.pc = IF /\ cred[c].enabled /\ cred[c].status = "ok"
                                /\ cred[c].life = "over"
                             THEN "refreshing" ELSE "over"]
        /\ UNCHANGED <<cred, lru, valid, login, run, held, relogin, pool>>

\* refresh_credentials, which may fail; a failure is only logged.
TickRefreshes ==
    LET c == tick.cred
    IN  /\ tick.pc = "refreshing"
        /\ \/ /\ tick.tok \in valid[c]
              /\ Spend("rotate")
              /\ Present(c, tick.tok)
              /\ cred' = [cred EXCEPT ![c] = Refreshed(@, Successor(tick.tok), "fresh")]
           \/ UNCHANGED <<valid, cred, pool>>
        /\ tick' = [tick EXCEPT !.pc = "over"]
        /\ UNCHANGED <<lru, login, run, held, relogin>>

TickReleases ==
    /\ tick.pc = "over"
    /\ cred' = [cred EXCEPT ![tick.cred] = Released(@, TICK)]
    /\ run' = [s \in Runs |-> IF cred[tick.cred].owner = TICK /\ run[s].pc = "busy"
                              THEN [run[s] EXCEPT !.pc = "idle"] ELSE run[s]]
    /\ tick' = [tick EXCEPT !.pc = "idle", !.cred = NoCred, !.tok = [chain |-> 0, n |-> 0]]
    /\ UNCHANGED <<lru, valid, login, held, relogin, pool>>

-----------------------------------------------------------------------------
(* The operator: framework/cli/credential.py *)

\* What the provider hands out at the end of a login: the first token of a new chain.  An
\* API key or an access token read from stdin cannot be rotated.
LoggedIn(c) == [chain |-> login[c] + 1, n |-> 0]

\* register_credential: the row of this label gets the new payload and is enabled and healthy,
\* with no lease.  The cool-down stays.
Registers(c) ==
    /\ cred' = [cred EXCEPT ![c] = [@ EXCEPT !.tok = IF c \in Rotating THEN LoggedIn(c) ELSE cred[c].tok,
                  !.life = "fresh", !.expired = FALSE, !.enabled = TRUE, !.status = "ok",
                  !.source = "none", !.owner = NoOne]]
    /\ valid' = IF c \in Rotating THEN [valid EXCEPT ![c] = @ \cup {LoggedIn(c)}] ELSE valid
    /\ login' = IF c \in Rotating THEN [login EXCEPT ![c] = @ + 1] ELSE login

\* Faulty: a login replaces the payload whoever holds the row.
RegistersAnyway(c) == Registers(c)

\* Refused while the row has an active lease (CredentialLeasedError).
RegistersUnleased(c) == ~cred[c].live /\ Registers(c)

\* credential:register of a label that is there, and the panel's login.
Register(c) ==
    /\ Spend("operator")
    /\ RegistersUnleased(c)
    /\ UNCHANGED <<lru, run, held, tick, relogin>>

\* credential:refresh reads an enabled row and closes the connection before the login.
RefreshAsks(c) ==
    /\ relogin = NoCred /\ c \in Rotating
    /\ cred[c].enabled
    /\ Spend("operator")
    /\ relogin' = c
    /\ UNCHANGED <<cred, lru, valid, login, run, held, tick>>

\* The login fails, is given up, or ends while a run or the tick has the lease.
RefreshGivesUp ==
    /\ relogin # NoCred
    /\ relogin' = NoCred
    /\ UNCHANGED <<cred, lru, valid, login, run, held, tick, pool>>

\* What was read before the login decides: a row deregistered meanwhile is enabled again.
RefreshRegisters ==
    /\ relogin # NoCred
    /\ RegistersUnleased(relogin)
    /\ relogin' = NoCred
    /\ UNCHANGED <<lru, run, held, tick, pool>>

Deregister(c) ==
    /\ Spend("operator")
    /\ cred' = [cred EXCEPT ![c].enabled = FALSE]
    /\ UNCHANGED <<lru, valid, login, run, held, tick, relogin>>

MarkError(c) ==
    /\ Spend("operator")
    /\ cred' = [cred EXCEPT ![c] = Mark(@, "operator")]
    /\ UNCHANGED <<lru, valid, login, run, held, tick, relogin>>

\* clear_credential_error
Reset(c) ==
    /\ Spend("operator")
    /\ cred' = [cred EXCEPT ![c].status = "ok", ![c].source = "none", ![c].throttled = FALSE]
    /\ UNCHANGED <<lru, valid, login, run, held, tick, relogin>>

SetPriority(c) ==
    /\ Spend("operator")
    /\ cred' = [cred EXCEPT ![c].prio = 1 - @]
    /\ UNCHANGED <<lru, valid, login, run, held, tick, relogin>>

-----------------------------------------------------------------------------

Thread(r) ==
    \/ Select(r) \/ NoneFree(r) \/ ComesBack(r)
    \/ RefreshRotates(r) \/ RefreshUnavailable(r) \/ RefreshFails(r) \/ Reread(r)
    \/ RunRotates(r) \/ RunSucceeds(r) \/ RunFails(r) \/ FinishRun(r) \/ FinishFails(r)

PoolNext ==
    \/ \E r \in Runs : Thread(r)
    \/ Crash
    \/ \E c \in Creds : \/ LeaseRunsOut(c) \/ CoolsDown(c) \/ GrowsOld(c) \/ TickClaims(c)
                        \/ Register(c) \/ RefreshAsks(c) \/ Deregister(c) \/ MarkError(c) \/ Reset(c)
                        \/ SetPriority(c)
    \/ TickReads \/ TickRefreshes \/ TickReleases
    \/ RefreshGivesUp \/ RefreshRegisters

PoolSpec == PoolInit /\ [][PoolNext]_poolVars

\* A run goes on and ends, an ended one is closed, and time passes.
PoolFairness ==
    /\ \A r \in Runs : WF_poolVars(\/ RefreshUnavailable(r) \/ Reread(r) \/ RunSucceeds(r)
                                   \/ FinishRun(r))
    /\ \A c \in Creds : WF_poolVars(LeaseRunsOut(c))
    /\ WF_poolVars(TickReads \/ TickRefreshes \/ TickReleases)

-----------------------------------------------------------------------------
(* Properties *)

\* Processes that may present the stored refresh token of c, or write its successor.
Rotators(c) ==
    {r \in Runs : /\ run[r].cred = c
                  /\ \/ run[r].pc \in {"refreshing", "refreshed"}
                     \/ run[r].pc \in {"running", "ended"} /\ run[r].leased}
    \cup (IF tick.pc \in {"claimed", "refreshing"} /\ tick.cred = c THEN {TICK} ELSE {})

\* A refresh token is presented by one process: at most one run or limits tick may
\* rotate a credential, whatever crashes, runs out or is registered (the refresh lease).
ExclusiveRotation == \A c \in Creds : Cardinality(Rotators(c)) <= 1

\* What the operator logged in with is never replaced by a descendant of an older login
\* (register_credential refuses a leased row, so a late capture cannot overwrite it).
LoginSurvives == \A c \in Rotating : cred[c].tok.chain = login[c]

\* Both: no refresh token is presented twice, and no rotation undoes a login
\* (select_credential, claim_credential_lease, register_credential).
RotationSafe == ExclusiveRotation /\ LoginSurvives

\* No lease is held for ever: its owner releases it, or renewal stops and it runs out.
LeaseEnds == \A c \in Creds, o \in Runs \cup {TICK} :
    (cred[c].live /\ cred[c].owner = o) ~> ~(cred[c].live /\ cred[c].owner = o)

=============================================================================
