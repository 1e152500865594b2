---------------------------- MODULE Pool_proofs ----------------------------
(***************************************************************************)
(* Proofs about CredentialPool and Crontab, for any credentials, runs,     *)
(* views, issues, renderers, syncs and bounds: a refresh token is with one *)
(* process and a login is not undone; a recurring task that nobody changed *)
(* keeps its line.                                                         *)
(***************************************************************************)
EXTENDS CredentialPool, Crontab, FiniteSetTheorems, TLAPS

-----------------------------------------------------------------------------
(* The refresh lease *)

RunState == [pc : {"idle", "busy", "waiting", "refreshing", "refreshed", "running", "ended", "done"},
             cred : Creds \cup {NoCred}, tok : Token, leased : BOOLEAN, rotated : BOOLEAN,
             refreshed : BOOLEAN, ok : BOOLEAN, next : {"none", "over", "failover", "waiting"}]
TickState == [pc : {"idle", "claimed", "refreshing", "over"}, cred : Creds \cup {NoCred}, tok : Token]

PoolTypeOK ==
    /\ cred \in [Creds -> CredRow] /\ login \in [Creds -> Nat]
    /\ run \in [Runs -> RunState] /\ held \subseteq Runs
    /\ tick \in TickState /\ relogin \in Creds \cup {NoCred}

\* The lease of o on c is not over.
Leases(o, c) == c \in Rotating /\ cred[c].live /\ cred[c].owner = o

Rotator(x) == \/ x.pc \in {"refreshing", "refreshed"}
              \/ x.pc \in {"running", "ended"} /\ x.leased

\* A run that may rotate has the lease of its row and a token of the row's login, and the lease
\* is renewed once the run itself may rotate.
RunOK(r) ==
    LET x == run[r]
    IN  /\ Rotator(x) => Leases(r, x.cred) /\ x.tok.chain = login[x.cred]
        /\ x.pc \in {"refreshing", "refreshed"} => ~x.leased /\ ~x.rotated
        /\ x.pc \in {"running", "ended"} =>
              x.cred \in Creds /\ (x.leased => r \in held) /\ (x.rotated => x.leased)

\* So has the tick.
TickOK ==
    /\ tick.pc \in {"claimed", "refreshing"} => Leases(TICK, tick.cred)
    /\ tick.pc = "refreshing" => tick.tok.chain = login[tick.cred]
    /\ tick.pc = "over" => tick.cred \in Creds

PoolInv == PoolTypeOK /\ (\A r \in Runs : RunOK(r)) /\ TickOK /\ LoginSurvives

\* One lease, one owner.
LEMMA PoolInvSafe == PoolInv => RotationSafe
<1> SUFFICES ASSUME PoolInv PROVE RotationSafe
  OBVIOUS
<1>1. ASSUME NEW c \in Creds PROVE Cardinality(Rotators(c)) <= 1
  <2>1. Rotators(c) \subseteq {cred[c].owner}
    BY DEF Rotators, PoolInv, RunOK, TickOK, Rotator, Leases
  <2>2. IsFiniteSet({cred[c].owner}) /\ Cardinality({cred[c].owner}) = 1
    BY FS_Singleton
  <2>3. Cardinality(Rotators(c)) <= Cardinality({cred[c].owner})
    BY <2>1, <2>2, FS_Subset
  <2> QED
    BY <2>2, <2>3
<1> QED
  BY <1>1 DEF PoolInv, RotationSafe, ExclusiveRotation

LEMMA PoolInitInv == PoolInit => PoolInv
<1> SUFFICES ASSUME PoolInit PROVE PoolInv
  OBVIOUS
<1>1. cred \in [Creds -> CredRow]
  <2>1. [chain |-> 0, n |-> 0] \in Token /\ "fresh" \in Life /\ 0 \in 0..1
    BY DEF Token, Life
  <2>2. [enabled |-> TRUE, status |-> "ok", source |-> "none", throttled |-> FALSE, expired |-> FALSE,
         life |-> "fresh", tok |-> [chain |-> 0, n |-> 0], prio |-> 0, owner |-> NoOne, live |-> FALSE] \in CredRow
    BY <2>1, Zenon DEF CredRow
  <2> QED
    BY <2>2 DEF PoolInit
<1>2. run \in [Runs -> RunState] /\ tick \in TickState
  BY DEF PoolInit, RunState, TickState, Token, NoRun
<1>3. LoginSurvives
  BY RotatingAssumption DEF PoolInit, LoginSurvives
<1>4. TickOK /\ \A r \in Runs : RunOK(r)
  BY DEF PoolInit, TickOK, RunOK, Rotator, NoRun
<1> QED
  BY <1>1, <1>2, <1>3, <1>4 DEF PoolInit, PoolInv, PoolTypeOK

\* What leaves every lease, every login and every process alone.
LEMMA SameLeases ==
    ASSUME PoolInv, cred' \in [Creds -> CredRow], UNCHANGED <<login, run, held, tick>>,
           relogin' \in Creds \cup {NoCred},
           \A c \in Creds : /\ cred'[c].owner = cred[c].owner /\ cred'[c].live = cred[c].live
                            /\ cred'[c].tok = cred[c].tok
    PROVE  PoolInv'
BY RotatingAssumption DEF PoolInv, PoolTypeOK, RunOK, Rotator, Leases, TickOK, LoginSurvives

LEMMA OperatorKeepsPoolInv ==
    ASSUME PoolInv, NEW c \in Creds,
           \/ CoolsDown(c) \/ GrowsOld(c) \/ Deregister(c) \/ MarkError(c) \/ Reset(c) \/ SetPriority(c)
           \/ RefreshAsks(c) \/ RefreshGivesUp
    PROVE  PoolInv'
<1>1. cred \in [Creds -> CredRow] /\ cred[c] \in CredRow /\ relogin \in Creds \cup {NoCred}
  BY DEF PoolInv, PoolTypeOK
<1>2. /\ UNCHANGED <<login, run, held, tick>> /\ relogin' \in Creds \cup {NoCred}
  BY <1>1 DEF CoolsDown, GrowsOld, Deregister, MarkError, Reset, SetPriority, RefreshAsks, RefreshGivesUp
<1>3. /\ cred' \in [Creds -> CredRow]
      /\ \A d \in Creds : /\ cred'[d].owner = cred[d].owner /\ cred'[d].live = cred[d].live
                          /\ cred'[d].tok = cred[d].tok
  <2>1. CASE CoolsDown(c)
    BY <1>1, <2>1 DEF CoolsDown, CredRow
  <2>2. CASE GrowsOld(c)
    <3>1. \/ \E life \in Life : cred' = [cred EXCEPT ![c].life = life]
          \/ cred' = [cred EXCEPT ![c].expired = TRUE]
      BY <2>2 DEF GrowsOld, Life
    <3>2. ASSUME NEW life \in Life, cred' = [cred EXCEPT ![c].life = life] PROVE <1>3!1 /\ <1>3!2
      BY <1>1, <3>2 DEF CredRow
    <3>3. CASE cred' = [cred EXCEPT ![c].expired = TRUE]
      BY <1>1, <3>3 DEF CredRow
    <3> QED
      BY <3>1, <3>2, <3>3
  <2>3. CASE Deregister(c)
    BY <1>1, <2>3 DEF Deregister, CredRow
  <2>4. CASE MarkError(c)
    BY <1>1, <2>4 DEF MarkError, Mark, CredRow
  <2>5. CASE Reset(c)
    BY <1>1, <2>5 DEF Reset, CredRow
  <2>6. CASE SetPriority(c)
    <3>1. cred[c].prio \in 0..1 /\ 1 - cred[c].prio \in 0..1
      BY <1>1 DEF CredRow
    <3>2. cred' = [cred EXCEPT ![c] = [@ EXCEPT !.prio = 1 - cred[c].prio]]
      BY <2>6 DEF SetPriority
    <3>3. [cred[c] EXCEPT !.prio = 1 - cred[c].prio] \in CredRow
      BY <1>1, <3>1 DEF CredRow
    <3>4. /\ [cred[c] EXCEPT !.prio = 1 - cred[c].prio].owner = cred[c].owner
          /\ [cred[c] EXCEPT !.prio = 1 - cred[c].prio].live = cred[c].live
          /\ [cred[c] EXCEPT !.prio = 1 - cred[c].prio].tok = cred[c].tok
      BY <1>1 DEF CredRow
    <3> QED
      BY <1>1, <3>2, <3>3, <3>4
  <2>7. CASE RefreshAsks(c) \/ RefreshGivesUp
    BY <1>1, <2>7 DEF RefreshAsks, RefreshGivesUp
  <2> QED
    BY <2>1, <2>2, <2>3, <2>4, <2>5, <2>6, <2>7
<1> QED
  BY <1>1, <1>2, <1>3, SameLeases

\* A lease that runs out is of nobody who may still rotate.
LEMMA LeaseRunsOutKeepsPoolInv == ASSUME PoolInv, NEW c \in Creds, LeaseRunsOut(c) PROVE PoolInv'
<1>1. cred[c] \in CredRow /\ cred \in [Creds -> CredRow]
  BY DEF PoolInv, PoolTypeOK
<1>2. /\ UNCHANGED <<login, run, held, tick, relogin>> /\ cred' \in [Creds -> CredRow]
      /\ cred'[c].tok = cred[c].tok
      /\ \A d \in Creds : d # c => cred'[d] = cred[d]
  BY <1>1 DEF LeaseRunsOut, CredRow
<1>3. \A r \in Runs : run[r].cred = c => ~(Rotator(run[r]) /\ Leases(r, c))
  BY OwnersAssumption DEF LeaseRunsOut, Rotator, Leases, PoolInv, RunOK
<1>4. \A r \in Runs : RunOK(r)'
  BY <1>2, <1>3, RotatingAssumption DEF PoolInv, RunOK, Rotator, Leases
<1>5. TickOK'
  BY <1>2, OwnersAssumption, RotatingAssumption DEF PoolInv, TickOK, Leases, LeaseRunsOut
<1>6. PoolTypeOK' /\ LoginSurvives'
  BY <1>2, RotatingAssumption DEF PoolInv, PoolTypeOK, LoginSurvives
<1> QED
  BY <1>4, <1>5, <1>6 DEF PoolInv

\* A login replaces a row that nobody leases.
LEMMA RegistersKeepsPoolInv ==
    ASSUME PoolInv, NEW c \in Creds, RegistersUnleased(c), UNCHANGED <<run, held, tick>>,
           relogin' \in Creds \cup {NoCred}
    PROVE  PoolInv'
<1>1. cred[c] \in CredRow /\ cred \in [Creds -> CredRow] /\ login \in [Creds -> Nat] /\ cred[c].live = FALSE
  BY DEF PoolInv, PoolTypeOK, RegistersUnleased, CredRow
<1> DEFINE tok == IF c \in Rotating THEN LoggedIn(c) ELSE cred[c].tok
<1>2. tok \in Token /\ (c \in Rotating => tok.chain = login[c] + 1)
  BY <1>1 DEF LoggedIn, Token, CredRow
<1>3. cred' = [cred EXCEPT ![c] = [@ EXCEPT !.tok = tok, !.life = "fresh", !.expired = FALSE,
                 !.enabled = TRUE, !.status = "ok", !.source = "none", !.owner = NoOne]]
  BY DEF RegistersUnleased, Registers
<1> HIDE DEF tok
<1>4. cred' \in [Creds -> CredRow] /\ cred'[c].tok = tok /\ \A d \in Creds : d # c => cred'[d] = cred[d]
  BY <1>1, <1>2, <1>3 DEF CredRow, Life
<1>5. login' = IF c \in Rotating THEN [login EXCEPT ![c] = @ + 1] ELSE login
  BY DEF RegistersUnleased, Registers
<1>6. login' \in [Creds -> Nat] /\ (\A d \in Creds : d # c => login'[d] = login[d])
  BY <1>1, <1>5
<1>7. PoolTypeOK'
  BY <1>4, <1>6 DEF PoolInv, PoolTypeOK
<1>8. LoginSurvives'
  <2>1. c \in Rotating => login'[c] = login[c] + 1
    BY <1>1, <1>5
  <2> QED
    BY <1>2, <1>4, <1>6, <2>1, RotatingAssumption DEF PoolInv, LoginSurvives
<1>9. \A o \in Runs \cup {TICK}, d \in Creds : Leases(o, d) => d # c /\ Leases(o, d)'
  BY <1>1, <1>4 DEF Leases
<1>10. \A r \in Runs : RunOK(r)'
  BY <1>6, <1>9, RotatingAssumption DEF PoolInv, RunOK, Rotator, Leases
<1>11. TickOK'
  BY <1>6, <1>9, RotatingAssumption DEF PoolInv, TickOK, Leases
<1> QED
  BY <1>7, <1>8, <1>10, <1>11 DEF PoolInv

\* A row that o may write: nobody else's lease is touched, and no login.
OthersKeep(o) ==
    /\ cred' \in [Creds -> CredRow] /\ UNCHANGED login /\ LoginSurvives'
    /\ \A q \in (Runs \cup {TICK}) \ {o}, c \in Creds : Leases(q, c) => Leases(q, c)'

\* Busy runs may be woken.
OnlyWoken(s) == run'[s] = run[s] \/ (run[s].pc = "busy" /\ run'[s] = [run[s] EXCEPT !.pc = "idle"])

LEMMA ReleasedRow ==
    ASSUME NEW row \in CredRow, NEW o
    PROVE  /\ Released(row, o) \in CredRow /\ Released(row, o).tok = row.tok
           /\ row.owner # o => Released(row, o) = row
<1>1. [row EXCEPT !.owner = NoOne, !.live = FALSE] \in CredRow
  BY DEF CredRow
<1>2. [row EXCEPT !.owner = NoOne, !.live = FALSE].tok = row.tok
  BY DEF CredRow
<1> QED
  BY <1>1, <1>2 DEF Released

LEMMA RefreshedRow ==
    ASSUME NEW row \in CredRow, NEW t \in Token, NEW life \in Life
    PROVE  /\ Refreshed(row, t, life) \in CredRow /\ Refreshed(row, t, life).tok = t
           /\ Refreshed(row, t, life).owner = row.owner /\ Refreshed(row, t, life).live = row.live
<1>1. Refreshed(row, t, life) \in CredRow
  BY DEF Refreshed, CredRow
<1> QED
  BY DEF Refreshed, CredRow

LEMMA SuccessorToken ==
    ASSUME NEW t \in Token PROVE Successor(t) \in Token /\ Successor(t).chain = t.chain
BY DEF Successor, Token

LEMMA TickKeepsPoolInv ==
    ASSUME PoolInv, \/ TickReads \/ TickRefreshes \/ TickReleases
                    \/ \E c \in Creds : TickClaims(c)
    PROVE  PoolInv'
<1> USE RotatingAssumption
<1>1. /\ cred \in [Creds -> CredRow] /\ login \in [Creds -> Nat] /\ run \in [Runs -> RunState]
      /\ tick \in TickState /\ LoginSurvives /\ TickOK
  BY DEF PoolInv, PoolTypeOK
<1>2. SUFFICES /\ OthersKeep(TICK) /\ TickOK' /\ tick' \in TickState /\ UNCHANGED <<held, relogin>>
               /\ run' \in [Runs -> RunState] /\ \A s \in Runs : OnlyWoken(s)
  <2>1. \A s \in Runs, c \in Creds : Leases(s, c) => Leases(s, c)'
    BY <1>2, OwnersAssumption DEF OthersKeep
  <2>2. ASSUME NEW s \in Runs PROVE RunOK(s)'
    <3>1. RunOK(s) /\ run[s] \in RunState
      BY <1>1 DEF PoolInv
    <3>2. CASE run'[s] = run[s]
      BY <1>2, <2>1, <3>1, <3>2 DEF RunOK, Rotator, Leases, OthersKeep
    <3>3. CASE run[s].pc = "busy" /\ run'[s] = [run[s] EXCEPT !.pc = "idle"]
      BY <3>1, <3>3 DEF RunOK, Rotator, RunState
    <3> QED
      BY <1>2, <3>2, <3>3 DEF OnlyWoken
  <2> QED
    BY <1>1, <1>2, <2>2 DEF PoolInv, PoolTypeOK, OthersKeep
<1>3. ASSUME NEW c \in Creds, TickClaims(c) PROVE <1>2!1
  <2>1. cred' = [cred EXCEPT ![c] = [@ EXCEPT !.owner = TICK, !.live = TRUE]]
    BY <1>3 DEF TickClaims
  <2>2. cred' \in [Creds -> CredRow]
    BY <1>1, <2>1 DEF CredRow
  <2>3. cred'[c].live /\ cred'[c].owner = TICK /\ cred'[c].tok = cred[c].tok /\ cred[c].live = FALSE
    <3>1. cred[c] \in CredRow /\ ~cred[c].live
      BY <1>1, <1>3 DEF TickClaims
    <3>2. cred'[c] = [cred[c] EXCEPT !.owner = TICK, !.live = TRUE]
      BY <1>1, <2>1
    <3> QED
      BY <3>1, <3>2 DEF CredRow
  <2>4. \A d \in Creds : d # c => cred'[d] = cred[d]
    BY <1>1, <2>1
  <2>5. OthersKeep(TICK)
    <3>1. UNCHANGED login
      BY <1>3 DEF TickClaims
    <3>2. LoginSurvives'
      BY <1>1, <2>3, <2>4, <3>1 DEF LoginSurvives
    <3> QED
      BY <2>2, <2>3, <2>4, <3>1, <3>2 DEF OthersKeep, Leases
  <2>6. tick' = [tick EXCEPT !.pc = "claimed", !.cred = c] /\ UNCHANGED <<held, relogin, run>> /\ c \in Rotating
    BY <1>3 DEF TickClaims
  <2>7. tick' \in TickState /\ tick'.pc = "claimed" /\ tick'.cred = c
    BY <1>1, <2>6 DEF TickState
  <2>8. TickOK'
    BY <2>3, <2>6, <2>7 DEF TickOK, Leases
  <2> QED
    BY <1>1, <2>5, <2>6, <2>7, <2>8 DEF OnlyWoken
<1>4. CASE TickReads
  <2>1. PICK pc \in {"refreshing", "over"} :
          tick' = [pc |-> pc, cred |-> tick.cred, tok |-> cred[tick.cred].tok]
    BY <1>1, <1>4 DEF TickReads, TickState
  <2>2. UNCHANGED <<cred, login, run, held, relogin>> /\ tick.pc = "claimed"
    BY <1>4 DEF TickReads
  <2>3. tick.cred \in Rotating /\ Leases(TICK, tick.cred)
    BY <1>1, <2>2 DEF TickOK, Leases
  <2>4. tick' \in TickState
    BY <1>1, <2>1, <2>3 DEF TickState, CredRow
  <2>5. TickOK'
    BY <1>1, <2>1, <2>2, <2>3 DEF TickOK, LoginSurvives, Leases
  <2> QED
    BY <1>1, <2>2, <2>4, <2>5 DEF OthersKeep, OnlyWoken, Leases, LoginSurvives
<1>5. CASE TickRefreshes
  <2>1. /\ tick' = [tick EXCEPT !.pc = "over"] /\ UNCHANGED <<login, run, held, relogin>>
        /\ tick.pc = "refreshing"
    BY <1>5 DEF TickRefreshes
  <2>2. tick.cred \in Rotating /\ tick.cred \in Creds /\ tick.tok.chain = login[tick.cred] /\ tick.tok \in Token
    BY <1>1, <2>1 DEF TickOK, Leases, TickState
  <2>3. tick' \in TickState /\ TickOK'
    BY <1>1, <2>1, <2>2 DEF TickState, TickOK
  <2>4. OthersKeep(TICK)
    <3>1. CASE UNCHANGED cred
      BY <1>1, <2>1, <3>1 DEF OthersKeep, LoginSurvives, Leases
    <3>2. CASE cred' = [cred EXCEPT ![tick.cred] = Refreshed(@, Successor(tick.tok), "fresh")]
      <4> DEFINE row == Refreshed(cred[tick.cred], Successor(tick.tok), "fresh")
      <4>1. Successor(tick.tok) \in Token /\ Successor(tick.tok).chain = tick.tok.chain
        BY <2>2, SuccessorToken
      <4>2. /\ row \in CredRow /\ row.tok.chain = login[tick.cred]
            /\ row.owner = cred[tick.cred].owner /\ row.live = cred[tick.cred].live
        BY <1>1, <2>2, <4>1, RefreshedRow DEF Life
      <4>3. cred' = [cred EXCEPT ![tick.cred] = row]
        BY <3>2
      <4> HIDE DEF row
      <4> QED
        BY <1>1, <2>1, <2>2, <4>2, <4>3 DEF OthersKeep, LoginSurvives, Leases
    <3> QED
      BY <1>5, <3>1, <3>2 DEF TickRefreshes
  <2> QED
    BY <1>1, <2>1, <2>3, <2>4 DEF OnlyWoken
<1>6. CASE TickReleases
  <2>1. tick.cred \in Creds /\ tick.pc = "over"
    BY <1>1, <1>6 DEF TickReleases, TickOK
  <2> DEFINE row == Released(cred[tick.cred], TICK)
  <2>2. /\ row \in CredRow /\ row.tok = cred[tick.cred].tok
        /\ cred[tick.cred].owner # TICK => row = cred[tick.cred]
    BY <1>1, <2>1, ReleasedRow
  <2>3. cred' = [cred EXCEPT ![tick.cred] = row]
    BY <1>6 DEF TickReleases
  <2> HIDE DEF row
  <2>4. OthersKeep(TICK)
    BY <1>1, <1>6, <2>1, <2>2, <2>3 DEF OthersKeep, LoginSurvives, Leases, TickReleases
  <2>5. /\ UNCHANGED <<held, relogin>>
        /\ tick' = [tick EXCEPT !.pc = "idle", !.cred = NoCred, !.tok = [chain |-> 0, n |-> 0]]
        /\ run' = [s \in Runs |-> IF cred[tick.cred].owner = TICK /\ run[s].pc = "busy"
                                 THEN [run[s] EXCEPT !.pc = "idle"] ELSE run[s]]
    BY <1>6 DEF TickReleases
  <2>6. tick' \in TickState /\ TickOK'
    BY <1>1, <2>5 DEF TickState, TickOK, Token
  <2>7. run' \in [Runs -> RunState] /\ \A s \in Runs : OnlyWoken(s)
    BY <1>1, <2>5 DEF OnlyWoken, RunState
  <2> QED
    BY <2>4, <2>5, <2>6, <2>7
<1> QED
  BY <1>3, <1>4, <1>5, <1>6

\* A thread's step concerns its own run and its own row; it may wake busy runs.
LEMMA ThreadStep ==
    ASSUME PoolInv, NEW r \in Runs, OthersKeep(r), UNCHANGED <<tick, relogin>>,
           run' \in [Runs -> RunState], held' \subseteq Runs, held \ {r} \subseteq held',
           \A s \in Runs \ {r} : OnlyWoken(s), RunOK(r)'
    PROVE  PoolInv'
<1> USE RotatingAssumption, OwnersAssumption
<1>1. ASSUME NEW s \in Runs \ {r} PROVE RunOK(s)'
  <2>1. RunOK(s) /\ run[s] \in RunState
    BY DEF PoolInv, PoolTypeOK
  <2>2. \A c \in Creds : Leases(s, c) => Leases(s, c)'
    BY DEF OthersKeep
  <2>3. CASE run'[s] = run[s]
    BY <2>1, <2>2, <2>3 DEF RunOK, Rotator, Leases, OthersKeep
  <2>4. CASE run[s].pc = "busy" /\ run'[s] = [run[s] EXCEPT !.pc = "idle"]
    BY <2>1, <2>4 DEF RunOK, Rotator, RunState
  <2> QED
    BY <2>3, <2>4 DEF OnlyWoken
<1>2. \A c \in Creds : Leases(TICK, c) => Leases(TICK, c)'
  BY DEF OthersKeep
<1>3. TickOK'
  BY <1>2 DEF PoolInv, TickOK, OthersKeep, Leases
<1> QED
  BY <1>1, <1>3 DEF PoolInv, PoolTypeOK, OthersKeep

\* The row of a failed run keeps its lease and its token.
LEMMA HandledRow ==
    ASSUME NEW c \in Creds, cred[c] \in CredRow, NEW kind
    PROVE  /\ HandleFailure(c, kind) \in CredRow /\ HandleFailure(c, kind).tok = cred[c].tok
           /\ HandleFailure(c, kind).owner = cred[c].owner /\ HandleFailure(c, kind).live = cred[c].live
<1> DEFINE Ok(row) == /\ row \in CredRow /\ row.tok = cred[c].tok
                      /\ row.owner = cred[c].owner /\ row.live = cred[c].live
<1>1. Ok(Mark(cred[c], "auto"))
  BY DEF Mark, CredRow
<1>2. Ok(Throttle(cred[c]))
  BY DEF Throttle, CredRow
<1>3. Ok(cred[c])
  OBVIOUS
<1>4. HandleFailure(c, kind) \in {Mark(cred[c], "auto"), Throttle(cred[c]), cred[c]}
  BY DEF HandleFailure, HandleTransientAuth
<1> QED
  BY <1>1, <1>2, <1>3, <1>4

LEMMA FailsKeepsPoolInv ==
    ASSUME PoolInv, NEW r \in Runs, run[r].pc \in {"refreshing", "running"}, NEW kind \in FailureKinds,
           Fails(r, kind), UNCHANGED <<login, held, tick, relogin>>
    PROVE  PoolInv'
<1> USE RotatingAssumption
<1>1. /\ cred \in [Creds -> CredRow] /\ login \in [Creds -> Nat] /\ run \in [Runs -> RunState]
      /\ run[r] \in RunState /\ RunOK(r) /\ LoginSurvives /\ held \subseteq Runs
  BY DEF PoolInv, PoolTypeOK
<1> DEFINE c == run[r].cred
<1>2. c \in Creds
  BY <1>1 DEF RunOK, Rotator, Leases
<1>3. cred' = [cred EXCEPT ![c] = HandleFailure(c, kind)]
  BY DEF Fails
<1>4. OthersKeep(r)
  <2>1. cred[c] \in CredRow
    BY <1>1, <1>2
  <2> HIDE DEF c
  <2> QED
    BY <1>1, <1>2, <1>3, <2>1, HandledRow DEF OthersKeep, LoginSurvives, Leases
<1>5. PICK next \in {"over", "failover", "waiting"} :
        run' = [run EXCEPT ![r].pc = "ended", ![r].ok = FALSE, ![r].next = next]
  BY DEF Fails, NextAfter
<1>6. run' \in [Runs -> RunState] /\ \A s \in Runs \ {r} : OnlyWoken(s)
  BY <1>1, <1>5 DEF RunState, OnlyWoken
<1>7. /\ run'[r].pc = "ended" /\ run'[r].cred = run[r].cred /\ run'[r].tok = run[r].tok
      /\ run'[r].leased = run[r].leased /\ run'[r].rotated = run[r].rotated
  BY <1>1, <1>5 DEF RunState
<1>8. Leases(r, c) => Leases(r, c)'
  <2>1. cred[c] \in CredRow
    BY <1>1, <1>2
  <2> QED
    BY <1>1, <1>2, <1>3, <1>7, <2>1, HandledRow DEF Leases
<1>9. RunOK(r)'
  BY <1>1, <1>2, <1>7, <1>8 DEF RunOK, Rotator
<1> QED
  BY <1>1, <1>4, <1>6, <1>9, ThreadStep

LEMMA NoRunOK == NoRun \in RunState /\ [chain |-> 0, n |-> 0] \in Token
BY DEF NoRun, RunState, Token

\* A step of the thread that writes no row.
LEMMA OwnStep ==
    ASSUME PoolInv, NEW r \in Runs, NEW x \in RunState, run' = [run EXCEPT ![r] = x],
           held' \subseteq Runs, held \ {r} \subseteq held', UNCHANGED <<cred, login, tick, relogin>>, RunOK(r)'
    PROVE  PoolInv'
<1>1. OthersKeep(r)
  BY DEF OthersKeep, PoolInv, PoolTypeOK, LoginSurvives, Leases
<1>2. run' \in [Runs -> RunState] /\ \A s \in Runs \ {r} : OnlyWoken(s)
  BY DEF PoolInv, PoolTypeOK, OnlyWoken
<1> QED
  BY <1>1, <1>2, ThreadStep

LEMMA SelectKeepsPoolInv == ASSUME PoolInv, NEW r \in Runs, Select(r) PROVE PoolInv'
<1> USE RotatingAssumption
<1>1. /\ cred \in [Creds -> CredRow] /\ run \in [Runs -> RunState] /\ LoginSurvives /\ held \subseteq Runs
  BY DEF PoolInv, PoolTypeOK
<1>2. PICK c \in Creds :
        /\ FreeRow(c)
        /\ cred' = [cred EXCEPT ![c].owner = IF RefreshImminent(c) THEN r ELSE NoOne, ![c].live = RefreshImminent(c)]
        /\ run' = [run EXCEPT ![r] = [NoRun EXCEPT !.pc = IF RefreshImminent(c) THEN "refreshing" ELSE "running",
                                                   !.cred = c, !.tok = Given(c)]]
  BY DEF Select
<1> DEFINE owner == IF RefreshImminent(c) THEN r ELSE NoOne
           x == [NoRun EXCEPT !.pc = IF RefreshImminent(c) THEN "refreshing" ELSE "running", !.cred = c,
                              !.tok = Given(c)]
<1>3. RefreshImminent(c) \in BOOLEAN /\ owner \in Runs \cup {NoOne, TICK} /\ cred[c] \in CredRow
  BY <1>1 DEF RefreshImminent
<1>4. /\ cred' \in [Creds -> CredRow] /\ cred'[c].tok = cred[c].tok
      /\ cred'[c].owner = owner /\ cred'[c].live = RefreshImminent(c)
      /\ \A d \in Creds : d # c => cred'[d] = cred[d]
  <2> DEFINE live == RefreshImminent(c)
  <2>1. cred' = [cred EXCEPT ![c] = [cred[c] EXCEPT !.owner = owner, !.live = live]]
    BY <1>1, <1>2
  <2>2. live \in BOOLEAN
    BY <1>3
  <2> HIDE DEF owner, live
  <2>3. [cred[c] EXCEPT !.owner = owner, !.live = live] \in CredRow
    BY <1>3, <2>2 DEF CredRow
  <2>4. /\ [cred[c] EXCEPT !.owner = owner, !.live = live].tok = cred[c].tok
        /\ [cred[c] EXCEPT !.owner = owner, !.live = live].owner = owner
        /\ [cred[c] EXCEPT !.owner = owner, !.live = live].live = live
    BY <1>3, <2>2 DEF CredRow
  <2> QED
    BY <1>1, <2>1, <2>3, <2>4 DEF live
<1>5. UNCHANGED <<login, held, tick, relogin>>
  BY DEF Select
<1>6. OthersKeep(r)
  <2>1. cred[c].live = FALSE
    BY <1>2, <1>3 DEF FreeRow, CredRow
  <2> QED
    BY <1>1, <1>4, <1>5, <2>1 DEF OthersKeep, LoginSurvives, Leases
<1>7. x \in RunState /\ x.pc \in {"refreshing", "running"} /\ x.cred = c /\ x.tok = cred[c].tok /\ ~x.leased
      /\ ~x.rotated /\ (x.pc = "refreshing" => RefreshImminent(c))
  <2>1. cred[c].tok \in Token
    BY <1>3 DEF CredRow
  <2> QED
    BY <2>1, NoRunOK DEF RunState, NoRun, Given
<1>8. run' = [run EXCEPT ![r] = x]
  BY <1>2
<1> HIDE DEF x
<1>9. run' \in [Runs -> RunState] /\ run'[r] = x /\ \A s \in Runs \ {r} : OnlyWoken(s)
  BY <1>1, <1>7, <1>8 DEF OnlyWoken
<1>10. RunOK(r)'
  <2>1. RefreshImminent(c) => Leases(r, c)' /\ c \in Rotating /\ cred[c].tok.chain = login'[c]
    BY <1>1, <1>4, <1>5 DEF Leases, RefreshImminent, LoginSurvives
  <2> QED
    BY <1>7, <1>9, <2>1 DEF RunOK, Rotator
<1> QED
  BY <1>1, <1>5, <1>6, <1>9, <1>10, ThreadStep

\* Steps that wait, or that only say how the run went on.
LEMMA QuietStepKeepsPoolInv ==
    ASSUME PoolInv, NEW r \in Runs,
           NoneFree(r) \/ ComesBack(r) \/ RefreshUnavailable(r) \/ RunSucceeds(r) \/ FinishFails(r)
    PROVE  PoolInv'
<1>1. run[r] \in RunState /\ RunOK(r) /\ held \subseteq Runs /\ run \in [Runs -> RunState]
  BY DEF PoolInv, PoolTypeOK
<1>2. UNCHANGED <<cred, login, tick, relogin>> /\ held' \subseteq Runs /\ held \ {r} \subseteq held'
  BY <1>1 DEF NoneFree, ComesBack, RefreshUnavailable, RunSucceeds, FinishFails
<1>3. CASE NoneFree(r) \/ ComesBack(r)
  <2>1. PICK pc \in {"busy", "waiting", "idle"} : run' = [run EXCEPT ![r] = [run[r] EXCEPT !.pc = pc]]
    BY <1>3 DEF NoneFree, ComesBack
  <2>2. [run[r] EXCEPT !.pc = pc] \in RunState /\ [run[r] EXCEPT !.pc = pc].pc = pc
    BY <1>1 DEF RunState
  <2>3. RunOK(r)'
    BY <1>1, <2>1, <2>2 DEF RunOK, Rotator
  <2> QED
    BY <1>2, <2>1, <2>2, <2>3, OwnStep
<1>4. CASE RefreshUnavailable(r)
  <2>1. run' = [run EXCEPT ![r] = [run[r] EXCEPT !.pc = "refreshed"]] /\ run[r].pc = "refreshing"
    BY <1>4 DEF RefreshUnavailable
  <2> DEFINE x == [run[r] EXCEPT !.pc = "refreshed"]
  <2>2. /\ x \in RunState /\ x.pc = "refreshed" /\ x.cred = run[r].cred /\ x.tok = run[r].tok
        /\ x.leased = run[r].leased /\ x.rotated = run[r].rotated
    BY <1>1 DEF RunState
  <2> HIDE DEF x
  <2>3. run' = [run EXCEPT ![r] = x] /\ run'[r] = x
    BY <1>1, <2>1 DEF x
  <2>4. RunOK(r)'
    BY <1>1, <1>2, <2>1, <2>2, <2>3 DEF RunOK, Rotator, Leases
  <2> QED
    BY <1>2, <2>2, <2>3, <2>4, OwnStep
<1>5. CASE RunSucceeds(r)
  <2> DEFINE x == [run[r] EXCEPT !.pc = "ended", !.ok = TRUE, !.next = "over"]
  <2>1. run' = [run EXCEPT ![r] = x] /\ run[r].pc = "running" /\ UNCHANGED held
    BY <1>5 DEF RunSucceeds
  <2>2. /\ x \in RunState /\ x.pc = "ended" /\ x.cred = run[r].cred /\ x.tok = run[r].tok
        /\ x.leased = run[r].leased /\ x.rotated = run[r].rotated
    BY <1>1 DEF RunState
  <2> HIDE DEF x
  <2>3. run'[r] = x
    BY <1>1, <2>1
  <2>4. RunOK(r)'
    BY <1>1, <1>2, <2>1, <2>2, <2>3 DEF RunOK, Rotator, Leases
  <2> QED
    BY <1>2, <2>1, <2>2, <2>4, OwnStep
<1>6. CASE FinishFails(r)
  <2> DEFINE x == [NoRun EXCEPT !.pc = Goes(r)]
  <2>1. run' = [run EXCEPT ![r] = x]
    BY <1>6 DEF FinishFails
  <2>2. x \in RunState /\ x.pc \in {"idle", "waiting", "done"}
    BY NoRunOK DEF RunState, NoRun, Goes
  <2> HIDE DEF x
  <2>3. RunOK(r)'
    BY <1>1, <2>1, <2>2 DEF RunOK, Rotator
  <2> QED
    BY <1>2, <2>1, <2>2, <2>3, OwnStep
<1> QED
  BY <1>3, <1>4, <1>5, <1>6

\* A run that rotates has a token of the row's login, and so is its successor.
LEMMA RotateKeepsPoolInv == ASSUME PoolInv, NEW r \in Runs, RefreshRotates(r) \/ RunRotates(r) PROVE PoolInv'
<1> USE RotatingAssumption
<1> DEFINE c == run[r].cred
<1>1. /\ cred \in [Creds -> CredRow] /\ run \in [Runs -> RunState] /\ LoginSurvives /\ held \subseteq Runs
      /\ run[r] \in RunState /\ RunOK(r)
  BY DEF PoolInv, PoolTypeOK
<1>2. UNCHANGED <<login, held, tick, relogin>>
  BY DEF RefreshRotates, RunRotates
<1>3. /\ run[r].pc = "refreshing" \/ (run[r].pc = "running" /\ run[r].leased)
      /\ c \in Rotating /\ c \in Creds /\ run[r].tok.chain = login[c] /\ run[r].tok \in Token
  BY <1>1 DEF RefreshRotates, RunRotates, RunOK, Rotator, Leases, RunState
<1>4. Successor(run[r].tok) \in Token /\ Successor(run[r].tok).chain = login[c]
  BY <1>3, SuccessorToken
<1>5. CASE RefreshRotates(r)
  <2>1. PICK life \in Life : cred' = [cred EXCEPT ![c] = Refreshed(@, Successor(run[r].tok), life)]
    BY <1>5 DEF RefreshRotates, Life
  <2> DEFINE row == Refreshed(cred[c], Successor(run[r].tok), life)
             x   == [run[r] EXCEPT !.pc = "refreshed", !.refreshed = TRUE]
  <2>2. cred' = [cred EXCEPT ![c] = row]
    BY <2>1
  <2>3. /\ row \in CredRow /\ row.tok.chain = login[c] /\ row.owner = cred[c].owner /\ row.live = cred[c].live
    BY <1>1, <1>3, <1>4, RefreshedRow
  <2> HIDE DEF row
  <2>4. OthersKeep(r) /\ cred'[c].owner = cred[c].owner /\ cred'[c].live = cred[c].live
    BY <1>1, <1>2, <1>3, <2>2, <2>3 DEF OthersKeep, LoginSurvives, Leases
  <2>5. run' = [run EXCEPT ![r] = x] /\ run[r].pc = "refreshing"
    BY <1>5 DEF RefreshRotates
  <2>6. /\ x \in RunState /\ x.pc = "refreshed" /\ x.cred = c /\ x.tok = run[r].tok
        /\ x.leased = run[r].leased /\ x.rotated = run[r].rotated
    BY <1>1 DEF RunState
  <2> HIDE DEF x
  <2>7. run' \in [Runs -> RunState] /\ run'[r] = x /\ \A s \in Runs \ {r} : OnlyWoken(s)
    BY <1>1, <2>5, <2>6 DEF OnlyWoken
  <2>8. RunOK(r)'
    BY <1>1, <1>2, <1>3, <2>4, <2>5, <2>6, <2>7 DEF RunOK, Rotator, Leases
  <2> QED
    BY <1>1, <1>2, <2>4, <2>7, <2>8, ThreadStep
<1>6. CASE RunRotates(r)
  <2> DEFINE x == [run[r] EXCEPT !.tok = Successor(run[r].tok), !.rotated = TRUE]
  <2>1. run' = [run EXCEPT ![r] = x] /\ UNCHANGED cred /\ run[r].pc = "running" /\ run[r].leased
    BY <1>6 DEF RunRotates
  <2>2. /\ x \in RunState /\ x.pc = "running" /\ x.cred = c /\ x.tok.chain = login[c] /\ x.leased
    BY <1>1, <1>4, <2>1 DEF RunState
  <2> HIDE DEF x
  <2>3. run'[r] = x
    BY <1>1, <2>1
  <2>4. RunOK(r)'
    BY <1>1, <1>2, <1>3, <2>1, <2>2, <2>3 DEF RunOK, Rotator, Leases
  <2> QED
    BY <1>1, <1>2, <2>1, <2>2, <2>4, OwnStep
<1> QED
  BY <1>5, <1>6

LEMMA RereadKeepsPoolInv == ASSUME PoolInv, NEW r \in Runs, Reread(r) PROVE PoolInv'
<1> USE RotatingAssumption
<1> DEFINE c == run[r].cred
<1>1. /\ cred \in [Creds -> CredRow] /\ run \in [Runs -> RunState] /\ LoginSurvives /\ held \subseteq Runs
      /\ run[r] \in RunState /\ RunOK(r)
  BY DEF PoolInv, PoolTypeOK
<1>2. UNCHANGED <<login, tick, relogin>> /\ run[r].pc = "refreshed"
  BY DEF Reread
<1>3. /\ Leases(r, c) /\ c \in Rotating /\ c \in Creds /\ ~run[r].leased /\ ~run[r].rotated
      /\ cred[c] \in CredRow /\ cred[c].tok \in Token /\ cred[c].tok.chain = login[c]
      /\ run[r].tok.chain = login[c]
  BY <1>1, <1>2 DEF RunOK, Rotator, Leases, LoginSurvives, CredRow
<1>4. CASE UNCHANGED cred
  <2>1. PICK x \in RunState :
          /\ run' = [run EXCEPT ![r] = x] /\ x.cred = c /\ ~x.rotated
          /\ \/ x.pc = "ended" /\ ~x.leased /\ UNCHANGED held
             \/ x.pc = "running" /\ x.leased /\ x.tok = cred[c].tok /\ held' = held \cup {r}
    <3>1. CASE ~(cred[c].enabled /\ cred[c].status = "ok")
      <4> DEFINE x == [run[r] EXCEPT !.pc = "ended", !.next = "over"]
      <4>1. run' = [run EXCEPT ![r] = x] /\ UNCHANGED held
        BY <3>1 DEF Reread
      <4>2. x \in RunState /\ x.cred = c /\ ~x.rotated /\ x.pc = "ended" /\ ~x.leased
        BY <1>1, <1>3 DEF RunState
      <4> HIDE DEF x
      <4> QED
        BY <4>1, <4>2
    <3>2. CASE /\ cred[c].enabled /\ cred[c].status = "ok"
               /\ ~(run[r].refreshed /\ ~RefreshImminent(c))
      <4> DEFINE x == [run[r] EXCEPT !.pc = "running", !.tok = Given(c), !.leased = TRUE]
      <4>1. run' = [run EXCEPT ![r] = x] /\ held' = held \cup {r}
        BY <3>2 DEF Reread
      <4>2. x \in RunState /\ x.cred = c /\ ~x.rotated /\ x.pc = "running" /\ x.leased /\ x.tok = cred[c].tok
        BY <1>1, <1>3 DEF RunState, Given
      <4> HIDE DEF x
      <4> QED
        BY <4>1, <4>2
    <3>3. CASE /\ cred[c].enabled /\ cred[c].status = "ok"
               /\ run[r].refreshed /\ ~RefreshImminent(c)
      <4>1. cred[c].owner = r /\ cred[c].live
        BY <1>3 DEF Leases
      <4>2. cred' = [cred EXCEPT ![c].owner = NoOne, ![c].live = FALSE]
        BY <3>3, <4>1 DEF Reread
      <4>3. cred'[c].live = FALSE
        BY <1>1, <1>3, <4>2 DEF CredRow
      <4> QED
        BY <1>4, <4>1, <4>3
    <3> QED
      BY <3>1, <3>2, <3>3
  <2>2. run'[r] = x
    BY <1>1, <2>1
  <2>3. RunOK(r)'
    BY <1>1, <1>2, <1>3, <1>4, <2>1, <2>2 DEF RunOK, Rotator, Leases
  <2> QED
    BY <1>1, <1>2, <1>4, <2>1, <2>3, OwnStep
<1>5. CASE ~UNCHANGED cred
  <2>1. /\ cred' = [cred EXCEPT ![c].owner = NoOne, ![c].live = FALSE] /\ UNCHANGED held
        /\ run' = [s \in Runs |->
             IF s = r THEN [run[r] EXCEPT !.pc = "running", !.tok = Given(c)]
             ELSE IF cred[c].owner = r /\ run[s].pc = "busy" THEN [run[s] EXCEPT !.pc = "idle"]
             ELSE run[s]]
    BY <1>5 DEF Reread
  <2> DEFINE x   == [run[r] EXCEPT !.pc = "running", !.tok = Given(c)]
             row == [cred[c] EXCEPT !.owner = NoOne, !.live = FALSE]
  <2>2. x \in RunState /\ x.cred = c /\ ~x.rotated /\ ~x.leased /\ x.pc = "running"
    BY <1>1, <1>3 DEF RunState, Given
  <2>3. row \in CredRow /\ row.tok = cred[c].tok
    BY <1>3 DEF CredRow
  <2>4. run' \in [Runs -> RunState] /\ run'[r] = x /\ \A s \in Runs \ {r} : OnlyWoken(s)
    <3>1. \A s \in Runs : run[s] \in RunState /\ [run[s] EXCEPT !.pc = "idle"] \in RunState
      BY <1>1 DEF RunState
    <3> HIDE DEF x, row
    <3>2. run' = [s \in Runs |-> IF s = r THEN x
             ELSE IF cred[c].owner = r /\ run[s].pc = "busy" THEN [run[s] EXCEPT !.pc = "idle"]
             ELSE run[s]]
      BY <2>1 DEF x
    <3> QED
      BY <2>2, <3>1, <3>2 DEF OnlyWoken
  <2>5. OthersKeep(r)
    <3>1. cred' = [cred EXCEPT ![c] = row]
      BY <1>1, <2>1
    <3> HIDE DEF row
    <3> QED
      BY <1>1, <1>2, <1>3, <2>3, <3>1 DEF OthersKeep, LoginSurvives, Leases
  <2> HIDE DEF x, row
  <2>6. RunOK(r)'
    BY <1>3, <2>2, <2>4 DEF RunOK, Rotator
  <2> QED
    BY <1>1, <1>2, <2>1, <2>4, <2>5, <2>6, ThreadStep
<1> QED
  BY <1>4, <1>5

\* What a run leaves in its row is of the row's login: it rotated only under the lease.
LEMMA FinishKeepsPoolInv == ASSUME PoolInv, NEW r \in Runs, FinishRun(r) PROVE PoolInv'
<1> USE RotatingAssumption
<1> DEFINE c   == run[r].cred
           row == Released(SelfHealed(Captured(r), run[r].ok), r)
           x   == [NoRun EXCEPT !.pc = Goes(r)]
<1>1. /\ cred \in [Creds -> CredRow] /\ run \in [Runs -> RunState] /\ LoginSurvives /\ held \subseteq Runs
      /\ run[r] \in RunState /\ RunOK(r) /\ run[r].pc = "ended"
  BY DEF PoolInv, PoolTypeOK, FinishRun
<1>2. /\ UNCHANGED <<login, tick, relogin>> /\ held' = held \ {r} /\ cred' = [cred EXCEPT ![c] = row]
      /\ run' = [s \in Runs |-> IF s = r THEN x
                              ELSE IF cred[c].owner = r /\ run[s].pc = "busy"
                                   THEN [run[s] EXCEPT !.pc = "idle"] ELSE run[s]]
  BY DEF FinishRun
<1>3. c \in Creds /\ cred[c] \in CredRow
  BY <1>1 DEF RunOK
<1>4. /\ row \in CredRow
      /\ c \in Rotating => row.tok.chain = login[c]
      /\ cred[c].owner # r => row.owner = cred[c].owner /\ row.live = cred[c].live
  <2> DEFINE cap == Captured(r)
             healed == SelfHealed(cap, run[r].ok)
  <2>1. /\ cap \in CredRow /\ cap.owner = cred[c].owner /\ cap.live = cred[c].live
        /\ c \in Rotating => cap.tok.chain = login[c]
    <3>1. CASE ~run[r].rotated
      <4>1. cap = cred[c]
        BY <3>1 DEF Captured, Rotated
      <4> HIDE DEF cap
      <4> QED
        BY <1>1, <1>3, <4>1 DEF LoginSurvives
    <3>2. CASE run[r].rotated
      <4>1. run[r].tok.chain = login[c] /\ run[r].tok \in Token
        BY <1>1, <3>2 DEF RunOK, Rotator, RunState
      <4>2. cap = Refreshed(cred[c], run[r].tok, "fresh")
        BY <3>2 DEF Captured, Rotated
      <4>3. "fresh" \in Life
        BY DEF Life
      <4> HIDE DEF cap, c
      <4> QED
        BY <1>3, <4>1, <4>2, <4>3, RefreshedRow
    <3> QED
      BY <3>1, <3>2
  <2> HIDE DEF cap
  <2>2. healed \in CredRow /\ healed.owner = cap.owner /\ healed.live = cap.live /\ healed.tok = cap.tok
    <3>1. /\ [cap EXCEPT !.status = "ok", !.source = "none", !.throttled = FALSE] \in CredRow
          /\ [cap EXCEPT !.status = "ok", !.source = "none", !.throttled = FALSE].owner = cap.owner
          /\ [cap EXCEPT !.status = "ok", !.source = "none", !.throttled = FALSE].live = cap.live
          /\ [cap EXCEPT !.status = "ok", !.source = "none", !.throttled = FALSE].tok = cap.tok
      BY <2>1 DEF CredRow
    <3> QED
      BY <2>1, <3>1 DEF SelfHealed
  <2>3. row = Released(healed, r)
    BY DEF cap
  <2> HIDE DEF healed
  <2> QED
    BY <2>1, <2>2, <2>3, ReleasedRow
<1>5. x \in RunState /\ x.pc \in {"idle", "waiting", "done"}
  BY NoRunOK DEF RunState, NoRun, Goes
<1> HIDE DEF row, x
<1>6. OthersKeep(r)
  BY <1>1, <1>2, <1>3, <1>4 DEF OthersKeep, LoginSurvives, Leases
<1>7. run' \in [Runs -> RunState] /\ run'[r] = x /\ \A s \in Runs \ {r} : OnlyWoken(s)
  <2>1. \A s \in Runs : run[s] \in RunState /\ [run[s] EXCEPT !.pc = "idle"] \in RunState
    BY <1>1 DEF RunState
  <2> QED
    BY <1>2, <1>5, <2>1 DEF OnlyWoken
<1>8. RunOK(r)'
  BY <1>5, <1>7 DEF RunOK, Rotator
<1> QED
  BY <1>1, <1>2, <1>6, <1>7, <1>8, ThreadStep

\* With the consumer go all that may rotate but the tick.
LEMMA CrashKeepsPoolInv == ASSUME PoolInv, Crash PROVE PoolInv'
<1>1. run' \in [Runs -> RunState] /\ \A r \in Runs : run'[r].pc \in {"idle", "done", "busy", "waiting"}
  BY NoRunOK DEF Crash, PoolInv, PoolTypeOK, NoRun
<1>2. UNCHANGED <<cred, login, tick, relogin>> /\ held' \subseteq Runs
  BY DEF Crash
<1>3. \A r \in Runs : RunOK(r)'
  BY <1>1 DEF RunOK, Rotator
<1> QED
  BY <1>1, <1>2, <1>3 DEF PoolInv, PoolTypeOK, TickOK, Leases, LoginSurvives

LEMMA PoolNextInv == PoolInv /\ [PoolNext]_poolVars => PoolInv'
<1> SUFFICES ASSUME PoolInv, [PoolNext]_poolVars PROVE PoolInv'
  OBVIOUS
<1>1. CASE UNCHANGED poolVars
  <2>1. UNCHANGED <<cred, login, run, held, tick, relogin>>
    BY <1>1 DEF poolVars
  <2> QED
    BY <2>1 DEF PoolInv, PoolTypeOK, RunOK, Rotator, Leases, TickOK, LoginSurvives
<1>2. ASSUME NEW r \in Runs, Thread(r) PROVE PoolInv'
  <2>1. CASE RefreshFails(r) \/ RunFails(r)
    <3>1. PICK kind \in FailureKinds : Fails(r, kind)
      BY <2>1 DEF RefreshFails, RunFails, FailureKinds
    <3> QED
      BY <2>1, <3>1, FailsKeepsPoolInv DEF RefreshFails, RunFails
  <2> QED
    BY <1>2, <2>1, SelectKeepsPoolInv, QuietStepKeepsPoolInv, RotateKeepsPoolInv, RereadKeepsPoolInv,
       FinishKeepsPoolInv DEF Thread
<1>3. ASSUME NEW c \in Creds, Register(c) PROVE PoolInv'
  <2>1. relogin \in Creds \cup {NoCred}
    BY DEF PoolInv, PoolTypeOK
  <2> QED
    BY <1>3, <2>1, RegistersKeepsPoolInv DEF Register
<1>4. CASE RefreshRegisters
  <2>1. relogin \in Creds /\ RegistersUnleased(relogin) /\ UNCHANGED <<run, held, tick>> /\ relogin' = NoCred
    BY <1>4 DEF RefreshRegisters, PoolInv, PoolTypeOK
  <2>2. PICK c \in Creds : c = relogin
    BY <2>1
  <2>3. RegistersUnleased(c)
    BY <2>1, <2>2
  <2> QED
    BY <2>1, <2>3, RegistersKeepsPoolInv
<1>5. CASE RefreshGivesUp
  <2>1. PICK c \in Creds : TRUE
    BY <1>5 DEF RefreshGivesUp, PoolInv, PoolTypeOK
  <2> QED
    BY <1>5, OperatorKeepsPoolInv
<1> QED
  BY <1>1, <1>2, <1>3, <1>4, <1>5, OperatorKeepsPoolInv, LeaseRunsOutKeepsPoolInv, TickKeepsPoolInv,
     CrashKeepsPoolInv DEF PoolNext

\* A refresh token is with one process at a time, and what the operator logged in with is not
\* replaced by a descendant of an older login (select_credential, claim_credential_lease,
\* register_credential, capture_refreshed_credentials).
THEOREM RotationIsSafe == PoolSpec => []RotationSafe
BY PoolInitInv, PoolNextInv, PoolInvSafe, PTL DEF PoolSpec

-----------------------------------------------------------------------------
(* A task on its way to cron *)

\* Every line that some crontab may have.
CronLines == {Self} \cup {ModLine(m) : m \in Mods} \cup {Task(p[1], p[2]) : p \in (Views \cup {NoView}) \X Issues}

CronTypeOK ==
    /\ due \in [Views -> SUBSET Issues]
    /\ rows \in [Views \cup {NoView} -> SUBSET Issues]
    /\ renderer \in [Renderers -> [pc : {"off", "modules", "schedule", "compare", "install"},
                                    lines : SUBSET CronLines]]
    /\ syncer \in [Syncers -> [pc : {"off", "lock", "steal", "again", "views", "write"},
                                todo : SUBSET Views, at : Views \cup {NoView}, found : SUBSET Issues]]
    /\ steady \subseteq Views \X Issues
    /\ lock \in {"free", "held", "old"}

\* A task that nobody changed is one that Jira lists ...
SteadyIsListed == \A p \in steady : Listed(p[1], p[2])

\* ... its row is enabled ...
SteadyHasRow == \A p \in steady : p[2] \in rows[p[1]]

\* ... every sync of its view that is about to write has found it ...
SteadyIsFound ==
    \A s \in Syncers : syncer[s].pc = "write" =>
        syncer[s].at \in Views /\ \A p \in steady : p[1] = syncer[s].at => p[2] \in syncer[s].found

\* ... and every renderer that has read the table has its line.
SteadyIsRendered ==
    \A r \in Renderers : renderer[r].pc \in {"compare", "install"} =>
        \A p \in steady : Task(p[1], p[2]) \in renderer[r].lines

CronInv ==
    /\ CronTypeOK /\ SteadyIsListed /\ SteadyHasRow /\ SteadyIsFound /\ SteadyIsRendered
    /\ SteadyTaskStays

\* max_results is as large as all that a view may have, so a page has everything.
LEMMA PageIsAll == ASSUME NEW S \in SUBSET Issues, NEW p \in Page(S) PROVE p = S
<1>1. IsFiniteSet(S) /\ Cardinality(S) \in Nat /\ Cardinality(S) <= MaxResults
  BY ResultsAssumption, FS_Subset, FS_CardinalityType
<1>2. CASE p # S
  <2>1. p \in SUBSET S /\ Cardinality(p) = MaxResults
    BY <1>2 DEF Page
  <2>2. Cardinality(p) <= Cardinality(S) /\ (Cardinality(S) = Cardinality(p) => S = p)
    BY <1>1, <2>1, FS_Subset
  <2>3. Cardinality(p) \in Nat
    BY <2>1, ResultsAssumption
  <2> QED
    BY <1>1, <1>2, <2>1, <2>2, <2>3
<1> QED
  BY <1>2

\* The table has a line for every enabled row of an active view whose schedule cron takes.
LEMMA SteadyIsATaskLine ==
    ASSUME CronTypeOK, SteadyIsListed, SteadyHasRow, NEW p \in steady
    PROVE  Task(p[1], p[2]) \in TaskLines
<1>1. /\ p[1] \in Views /\ p[2] \in Issues /\ view[p[1]].active /\ p[2] \notin Misfits
      /\ p[2] \in rows[p[1]]
  BY DEF CronTypeOK, SteadyIsListed, Listed, SteadyHasRow
<1> DEFINE active == {v \in Views : view[v].active}
           places == IF active = {} THEN {NoView} ELSE active
<1>2. p[1] \in places
  BY <1>1
<1>3. <<p[1], p[2]>> \in {q \in places \X Issues : q[2] \in rows[q[1]] /\ Sound(q[2])}
  BY <1>1, <1>2 DEF Sound
<1>4. TaskLines = {Task(q[1], q[2]) : q \in {r \in places \X Issues : r[2] \in rows[r[1]] /\ Sound(r[2])}}
  BY DEF TaskLines
<1> HIDE DEF places
<1> QED
  BY <1>3, <1>4

LEMMA SourcesAreLines == ASSUME CronTypeOK PROVE ModLines \subseteq CronLines /\ TaskLines \subseteq CronLines
<1>1. ModLines \subseteq CronLines
  BY DEF ModLines, CronLines
<1> DEFINE active == {v \in Views : view[v].active}
           places == IF active = {} THEN {NoView} ELSE active
<1>2. places \subseteq Views \cup {NoView}
  OBVIOUS
<1>3. TaskLines = {Task(q[1], q[2]) : q \in {r \in places \X Issues : r[2] \in rows[r[1]] /\ Sound(r[2])}}
  BY DEF TaskLines
<1> HIDE DEF places
<1> QED
  BY <1>1, <1>2, <1>3 DEF CronLines

LEMMA CronInitInv == CronInit => CronInv
<1> SUFFICES ASSUME CronInit PROVE CronInv
  OBVIOUS
<1>1. CronTypeOK
  <2>1. rows \in [Views \cup {NoView} -> SUBSET Issues]
    BY DEF CronInit
  <2>2. /\ renderer \in [Renderers -> [pc : {"off", "modules", "schedule", "compare", "install"},
                                        lines : SUBSET CronLines]]
        /\ steady \subseteq Views \X Issues
    BY DEF CronInit, NotRendering
  <2>3. syncer \in [Syncers -> [pc : {"off", "lock", "steal", "again", "views", "write"},
                                todo : SUBSET Views, at : Views \cup {NoView}, found : SUBSET Issues]]
    BY DEF CronInit, NotSyncing
  <2> QED
    BY <2>1, <2>2, <2>3 DEF CronInit, CronTypeOK
<1>2. SteadyIsListed
  BY DEF CronInit, SteadyIsListed
<1>3. SteadyHasRow
  BY ViewsAssumption DEF CronInit, SteadyHasRow, Listed
<1>4. SteadyIsFound /\ SteadyIsRendered
  BY DEF CronInit, SteadyIsFound, SteadyIsRendered, NotSyncing, NotRendering
<1>5. SteadyTaskStays
  BY <1>1, <1>2, <1>3, SteadyIsATaskLine DEF CronInit, SteadyTaskStays
<1> QED
  BY <1>1, <1>2, <1>3, <1>4, <1>5 DEF CronInv

\* People only take tasks out of the set of those that nobody changed.
LEMMA PeopleKeepCronInv ==
    ASSUME CronInv,
           \/ \E v \in Views : ViewChanges(v) \/ \E i \in Issues : IssueChanges(v, i)
           \/ \E m \in Mods : ManifestChanges(m)
    PROVE  CronInv'
<1>1. /\ steady' \subseteq steady /\ \A p \in steady' : Listed(p[1], p[2])'
      /\ UNCHANGED <<rows, crontab, renderer, syncer, lock>>
  BY DEF ViewChanges, IssueChanges, ManifestChanges, StillSteady, CronInv, SteadyIsListed, Listed
<1>2. due' \in [Views -> SUBSET Issues]
  BY DEF ViewChanges, IssueChanges, ManifestChanges, CronInv, CronTypeOK
<1>3. CronLines' = CronLines
  BY DEF CronLines
<1> QED
  BY <1>1, <1>2, <1>3 DEF CronInv, CronTypeOK, SteadyIsListed, SteadyHasRow, SteadyIsFound, SteadyIsRendered,
     SteadyTaskStays

\* With no task left that ran ever since, nothing is claimed.
LEMMA RestartKeepsCronInv == ASSUME CronInv, CronRestarts PROVE CronInv'
<1>1. /\ UNCHANGED <<due, rows>> /\ steady' = {} /\ lock' \in {lock, "free"}
      /\ \A r \in Renderers : renderer'[r].pc = "off"
      /\ \A s \in Syncers : syncer'[s].pc = "off"
  BY DEF CronRestarts, NotRendering, NotSyncing
<1>2. renderer' \in [Renderers -> [pc : {"off", "modules", "schedule", "compare", "install"},
                                   lines : SUBSET CronLines]]
  BY DEF CronRestarts, NotRendering
<1>3. syncer' \in [Syncers -> [pc : {"off", "lock", "steal", "again", "views", "write"},
                               todo : SUBSET Views, at : Views \cup {NoView}, found : SUBSET Issues]]
  BY DEF CronRestarts, NotSyncing
<1> QED
  BY <1>1, <1>2, <1>3 DEF CronInv, CronTypeOK, CronLines, SteadyIsListed, SteadyHasRow, SteadyIsFound,
     SteadyIsRendered, SteadyTaskStays

\* A renderer leaves the tables alone, and puts up only what it has read from both of its sources.
LEMMA RenderingKeepsCronInv == ASSUME CronInv, NEW r \in Renderers, Rendering(r) PROVE CronInv'
<1> USE DEF CronInv
<1>1. UNCHANGED <<due, view, rows, syncer, lock, steady>> /\ CronLines' = CronLines
  BY DEF Rendering, RenderStarts, RenderReadsModules, RenderReadsSchedule, RenderFails, RenderCompares,
     RenderInstalls, CronLines
<1>2. /\ renderer' \in [Renderers -> [pc : {"off", "modules", "schedule", "compare", "install"},
                                      lines : SUBSET CronLines]]
      /\ \A q \in Renderers : q # r => renderer'[q] = renderer[q]
      /\ renderer'[r].pc \in {"compare", "install"} =>
           \A p \in steady : Task(p[1], p[2]) \in renderer'[r].lines
  <2>1. renderer[r] \in [pc : {"off", "modules", "schedule", "compare", "install"}, lines : SUBSET CronLines]
    BY DEF CronTypeOK
  <2>2. CASE RenderStarts(r)
    BY <2>1, <2>2 DEF RenderStarts, CronTypeOK
  <2>3. CASE RenderReadsModules(r)
    BY <2>1, <2>3, SourcesAreLines DEF RenderReadsModules, CronTypeOK
  <2>4. CASE RenderReadsSchedule(r)
    <3>1. \A p \in steady : Task(p[1], p[2]) \in TaskLines
      BY SteadyIsATaskLine
    <3>2. TaskLines \subseteq CronLines
      BY SourcesAreLines
    <3>3. renderer' = [renderer EXCEPT ![r].pc = "compare", ![r].lines = @ \cup TaskLines]
      BY <2>4 DEF RenderReadsSchedule
    <3>4. renderer'[r].lines = renderer[r].lines \cup TaskLines /\ renderer'[r].pc = "compare"
      BY <2>1, <3>3 DEF CronTypeOK
    <3>5. renderer' \in [Renderers -> [pc : {"off", "modules", "schedule", "compare", "install"},
                                      lines : SUBSET CronLines]]
      BY <2>1, <3>2, <3>3 DEF CronTypeOK
    <3>6. \A q \in Renderers : q # r => renderer'[q] = renderer[q]
      BY <3>3 DEF CronTypeOK
    <3> QED
      BY <3>1, <3>4, <3>5, <3>6
  <2>5. CASE RenderFails(r) \/ RenderInstalls(r)
    BY <2>1, <2>5 DEF RenderFails, RenderInstalls, NotRendering, CronTypeOK
  <2>6. CASE RenderCompares(r)
    BY <2>1, <2>6 DEF RenderCompares, NotRendering, CronTypeOK, SteadyIsRendered
  <2> QED
    BY <2>2, <2>3, <2>4, <2>5, <2>6 DEF Rendering
<1>3. CronTypeOK' /\ SteadyIsListed' /\ SteadyHasRow' /\ SteadyIsFound'
  BY <1>1, <1>2 DEF CronTypeOK, SteadyIsListed, Listed, SteadyHasRow, SteadyIsFound
<1>4. SteadyTaskStays'
  BY <1>1 DEF Rendering, RenderStarts, RenderReadsModules, RenderReadsSchedule, RenderFails, RenderCompares,
     RenderInstalls, SteadyTaskStays, SteadyIsRendered
<1>5. SteadyIsRendered'
  BY <1>1, <1>2 DEF SteadyIsRendered
<1> QED
  BY <1>3, <1>4, <1>5

\* A sync changes the enabled rows of one view at a time, to all that Jira lists for it.
LEMMA SyncingKeepsCronInv ==
    ASSUME CronInv, NEW s \in Syncers, Syncing(s) \/ SyncDies(s) PROVE CronInv'
<1> USE DEF CronInv
<1> DEFINE Type == [pc : {"off", "lock", "steal", "again", "views", "write"},
                    todo : SUBSET Views, at : Views \cup {NoView}, found : SUBSET Issues]
<1>1. UNCHANGED <<due, view, crontab, renderer, steady>> /\ CronLines' = CronLines
  BY DEF Syncing, SyncStarts, TakeLock, RemoveOldLock, MakeLockAgain, SearchJira, UpsertSchedules, SyncEnds,
     SyncDies, CronLines
<1>2. syncer[s] \in Type /\ syncer \in [Syncers -> Type] /\ NotSyncing \in Type
  BY DEF CronTypeOK, NotSyncing
<1>3. /\ syncer' \in [Syncers -> Type]
      /\ \A q \in Syncers : q # s => syncer'[q] = syncer[q]
      /\ syncer'[s].pc = "write" =>
            /\ syncer'[s].at \in Views
            /\ \A p \in steady : p[1] = syncer'[s].at => p[2] \in syncer'[s].found
  <2>1. CASE SyncEnds(s) \/ SyncDies(s)
    BY <1>2, <2>1 DEF SyncEnds, SyncDies, NotSyncing
  <2>2. CASE SyncStarts(s)
    BY <1>2, <2>2 DEF SyncStarts, NotSyncing
  <2>3. CASE TakeLock(s)
    <3>1. syncer' \in {[syncer EXCEPT ![s] = [@ EXCEPT !.pc = "views"]], [syncer EXCEPT ![s] = NotSyncing],
                       [syncer EXCEPT ![s] = [@ EXCEPT !.pc = "steal"]]}
      BY <2>3 DEF TakeLock, CronTypeOK
    <3> QED
      BY <1>2, <3>1 DEF NotSyncing
  <2>4. CASE RemoveOldLock(s)
    BY <1>2, <2>4 DEF RemoveOldLock, NotSyncing
  <2>5. CASE MakeLockAgain(s)
    BY <1>2, <2>5 DEF MakeLockAgain, NotSyncing
  <2>6. CASE UpsertSchedules(s)
    BY <1>2, <2>6 DEF UpsertSchedules
  <2>7. ASSUME NEW v \in Views, SearchJira(s, v)
        PROVE  <1>3!1 /\ <1>3!2 /\ <1>3!3
    <3>1. CASE syncer' = [syncer EXCEPT ![s].todo = @ \ {v}]
      BY <1>2, <2>7, <3>1 DEF SearchJira
    <3>2. ASSUME NEW found \in Page(due[v]),
                 syncer' = [syncer EXCEPT ![s] = [@ EXCEPT !.pc = "write", !.at = v, !.found = found]]
          PROVE  <1>3!1 /\ <1>3!2 /\ <1>3!3
      <4>1. due[v] \in SUBSET Issues
        BY DEF CronTypeOK
      <4>2. found = due[v]
        BY <4>1, PageIsAll
      <4>3. \A p \in steady : p[1] = v => p[2] \in due[v]
        BY DEF SteadyIsListed, Listed
      <4>4. syncer'[s].at = v /\ syncer'[s].found = found
        BY <1>2, <3>2
      <4>5. syncer' \in [Syncers -> Type] /\ \A q \in Syncers : q # s => syncer'[q] = syncer[q]
        BY <1>2, <3>2, <4>1, <4>2
      <4> QED
        BY <4>2, <4>3, <4>4, <4>5
    <3> QED
      BY <2>7, <3>1, <3>2 DEF SearchJira, SearchFails
  <2> QED
    BY <2>1, <2>2, <2>3, <2>4, <2>5, <2>6, <2>7 DEF Syncing
<1>4. rows' \in [Views \cup {NoView} -> SUBSET Issues] /\ SteadyHasRow'
  <2>1. CASE rows' = rows
    BY <1>1, <2>1 DEF CronTypeOK, SteadyHasRow
  <2>2. CASE rows' # rows
    <3>1. UpsertSchedules(s)
      BY <2>2 DEF Syncing, SyncStarts, TakeLock, RemoveOldLock, MakeLockAgain, SearchJira, SyncEnds, SyncDies
    <3>2. rows' = [rows EXCEPT ![syncer[s].at] = syncer[s].found] /\ syncer[s].pc = "write"
      BY <2>2, <3>1 DEF UpsertSchedules
    <3> QED
      BY <1>1, <1>2, <3>2 DEF CronTypeOK, SteadyHasRow, SteadyIsFound
  <2> QED
    BY <2>1, <2>2
<1>5. CronTypeOK' /\ SteadyIsListed' /\ SteadyIsRendered' /\ SteadyTaskStays'
  <2>1. lock' \in {"free", "held", "old"}
    BY DEF CronTypeOK, Syncing, SyncStarts, TakeLock, RemoveOldLock, MakeLockAgain, SearchJira, UpsertSchedules,
       SyncEnds, SyncDies
  <2> QED
    BY <1>1, <1>3, <1>4, <2>1 DEF CronTypeOK, SteadyIsListed, Listed, SteadyIsRendered, SteadyTaskStays
<1>6. SteadyIsFound'
  BY <1>1, <1>3 DEF SteadyIsFound
<1> QED
  BY <1>4, <1>5, <1>6

LEMMA CronNextInv == CronInv /\ [CronNext]_cronVars => CronInv'
<1> SUFFICES ASSUME CronInv, [CronNext]_cronVars PROVE CronInv'
  OBVIOUS
<1>1. CASE UNCHANGED cronVars \/ LockAges
  <2>1. UNCHANGED <<due, view, rows, crontab, renderer, syncer, steady>> /\ lock' \in {lock, "old"}
    BY <1>1 DEF cronVars, LockAges
  <2> QED
    BY <2>1 DEF CronInv, CronTypeOK, CronLines, SteadyIsListed, Listed, SteadyHasRow, SteadyIsFound, SteadyIsRendered,
       SteadyTaskStays
<1> QED
  BY <1>1, PeopleKeepCronInv, RenderingKeepsCronInv, SyncingKeepsCronInv, RestartKeepsCronInv DEF CronNext

\* A task that nobody changed keeps its line in root's crontab, through outages of Jira and of the
\* database, syncs that die, locks that are taken away, overlapping renderers and malformed
\* neighbours (install-crontab.py main, sync.py _upsert_schedules).
THEOREM SteadyTasksRun == CronSpec => []SteadyTaskStays
<1>1. CronInv => SteadyTaskStays
  BY DEF CronInv
<1> QED
  BY <1>1, CronInitInv, CronNextInv, PTL DEF CronSpec

=============================================================================
