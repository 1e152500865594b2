----------------------------- MODULE Capability -----------------------------
(***************************************************************************)
(* Capabilities for the toolbox that no job owns: those a panel request    *)
(* mints from a session or a launch for one call (web/toolbox_client.py),  *)
(* the internal_rest block around a bounded request, and the ones an       *)
(* operator mints and revokes (framework/toolbox_capability.py,            *)
(* framework/cli/capability.py), or gets for an agento run                 *)
(* (agent_view/src/commands/prepare_run.py, framework/cli/run.py).  Each   *)
(* statement reads the clock of the database anew.  The verifier is the    *)
(* toolbox's and external; what it derives from a row is the contract both *)
(* sides share (framework/auth_context.py).                                *)
(***************************************************************************)
EXTENDS Integers, FiniteSetsExt

CONSTANTS
    Sources,        \* sessions and launches
    KindOfSource,   \* "user_session" or "miniapp" of each
    Callers,        \* processes: panel requests, blocks and operators' commands
    CapTtl,         \* capability_ttl of the configuration
    BlockTtl,       \* REST_CAPABILITY_TTL_SECONDS
    MintTtl,        \* INTERACTIVE_CAPABILITY_TTL_SECONDS
    SseTtl,         \* SSE_CAPABILITY_TTL_SECONDS
    LastSecond,     \* bound on the clock
    CapBudgets      \* bounds on tokens, ended sources and failures

VARIABLES
    clock,
    source,     \* session and launch rows: live, and when they expire
    caps,       \* toolbox_capability
    caller,     \* the processes
    capLeft

capVars == <<clock, source, caps, caller, capLeft>>

NoCall == [pc |-> "idle", src |-> 0, ttl |-> 0, cap |-> 0, body |-> "none", answer |-> "none"]

CapInit ==
    /\ clock = 0
    /\ source \in [Sources -> {[live |-> TRUE, until |-> t] : t \in 1..LastSecond}]
    /\ caps = {}
    /\ caller = [c \in Callers |-> NoCall]
    /\ capLeft \in CapBudgets

Uses(k) == capLeft[k] > 0 /\ capLeft' = [capLeft EXCEPT ![k] = @ - 1]
CallIn(c, pc) == caller[c].pc = pc

Tick == clock < LastSecond /\ clock' = clock + 1 /\ UNCHANGED <<source, caps, caller, capLeft>>

\* Logout, a revoked launch, a deactivated user.
SourceEnds(s) ==
    /\ source[s].live /\ Uses("end")
    /\ source' = [source EXCEPT ![s].live = FALSE]
    /\ UNCHANGED <<clock, caps, caller>>

-----------------------------------------------------------------------------
(* Issuing and verifying *)

NextId == Cardinality(caps) + 1

Row(kind, transports, ttl, src) ==
    [id |-> NextId, kind |-> kind, transports |-> transports, src |-> src, made |-> clock,
     until |-> clock + (IF "sse" \in transports THEN Min({ttl, SseTtl}) ELSE ttl), revoked |-> FALSE]

UserKinds == {"user_session", "miniapp"}
Endpoints(kind) ==
    CASE kind = "mcp_interactive" -> {"sse", "messages", "mcp", "invoke"}
      [] kind = "internal_rest" -> {"api", "config_test", "health"}
      [] OTHER -> {"invoke"}
Transport(endpoint) == IF endpoint \in {"sse", "messages"} THEN "sse" ELSE "http"

\* A user's token is good for no longer than its session or launch.
WithinSource(row, s) == row.until <= source[s].until /\ row.until - row.made \in 1..CapTtl

Derives(row, endpoint) ==
    /\ endpoint \in Endpoints(row.kind) /\ Transport(endpoint) \in row.transports
    /\ row.kind \in UserKinds =>
          source[row.src].live /\ source[row.src].until > clock /\ WithinSource(row, row.src)

Verifies(row, endpoint) == ~row.revoked /\ row.until > clock /\ Derives(row, endpoint)

Issue(c, row, rest) ==
    /\ caps' = caps \cup {row}
    /\ caller' = [caller EXCEPT ![c] = [rest EXCEPT !.cap = row.id]]

-----------------------------------------------------------------------------
(* One call of a user's tool *)

\* The time the source has left is read by one statement ...
InvokeReads(c, s) ==
    LET ttl == Min({CapTtl, source[s].until - clock})
    IN /\ CallIn(c, "idle") /\ Uses("token")
       /\ source[s].live /\ source[s].until > clock
       /\ caller' = [caller EXCEPT ![c] = [NoCall EXCEPT !.pc = "issue", !.src = s, !.ttl = ttl]]
       /\ UNCHANGED <<clock, source, caps>>

\* ... and the token expires that long after another one.  The source the row is checked against
\* here is made up to agree with it.
InvokeIssues(c) ==
    /\ CallIn(c, "issue")
    /\ Issue(c, Row(KindOfSource[caller[c].src], {"http"}, caller[c].ttl, caller[c].src), [caller[c] EXCEPT !.pc = "post"])
    /\ UNCHANGED <<clock, source, capLeft>>

InvokePosts(c) ==
    /\ CallIn(c, "post")
    /\ \E row \in caps :
        /\ row.id = caller[c].cap
        /\ caller' = [caller EXCEPT ![c].pc = "idle",
                          ![c].answer = IF Verifies(row, "invoke") THEN "served" ELSE "refused"]
    /\ UNCHANGED <<clock, source, caps, capLeft>>

-----------------------------------------------------------------------------
(* with rest_capability(...): mint, a bounded request, revoke *)

BlockMints(c) ==
    /\ CallIn(c, "idle") /\ Uses("token")
    /\ Issue(c, Row("internal_rest", {"http"}, BlockTtl, 0), [NoCall EXCEPT !.pc = "body"])
    /\ UNCHANGED <<clock, source>>

BlockBody(c) ==
    /\ CallIn(c, "body")
    /\ \E how \in {"done", "raised"} : caller' = [caller EXCEPT ![c].pc = "revoke", ![c].body = how]
    /\ UNCHANGED <<clock, source, caps, capLeft>>

Revoked(id) == {IF row.id = id THEN [row EXCEPT !.revoked = TRUE] ELSE row : row \in caps}

BlockRevokes(c) ==
    /\ CallIn(c, "revoke")
    /\ caps' = Revoked(caller[c].cap)
    /\ caller' = [caller EXCEPT ![c].pc = "idle", ![c].answer = caller[c].body]
    /\ UNCHANGED <<clock, source, capLeft>>

\* Faulty: a failed revoke is only logged, whatever happened in the block.
LoggedOnly(how) == how

\* What the caller sees of a block whose revoke failed: the body's own exception, or that failure.
Seen(how) == "raised"

BlockRevokeFails(c) ==
    /\ CallIn(c, "revoke") /\ Uses("fault")
    /\ caller' = [caller EXCEPT ![c].pc = "idle", ![c].answer = Seen(caller[c].body)]
    /\ UNCHANGED <<clock, source, caps>>

\* The process ends with a token in hand: the token lives on until it expires.
HolderDies(c) ==
    /\ caller[c].pc \in {"body", "revoke", "prepare", "failing"}
    /\ Uses("fault")
    /\ caller' = [caller EXCEPT ![c] = NoCall]
    /\ UNCHANGED <<clock, source, caps>>

-----------------------------------------------------------------------------
(* agento run: the container prepares, the host executes *)

\* An unknown view, a pair or pin that does not resolve, or no credential for a prompt: all of it
\* is found before the token is made.
PrepareRefuses(c) ==
    /\ CallIn(c, "idle")
    /\ caller' = [caller EXCEPT ![c] = [NoCall EXCEPT !.answer = "refused"]]
    /\ UNCHANGED <<clock, source, caps, capLeft>>

PrepareMints(c) ==
    /\ CallIn(c, "idle") /\ Uses("token")
    /\ Issue(c, Row("mcp_interactive", {"http"}, MintTtl, 0), [NoCall EXCEPT !.pc = "prepare"])
    /\ UNCHANGED <<clock, source>>

\* The workspace is materialized with the token in it and the payload printed, or anything raises.
Prepare(c) ==
    /\ CallIn(c, "prepare")
    /\ \E pc \in {"host", "failing"} : caller' = [caller EXCEPT ![c].pc = pc]
    /\ UNCHANGED <<clock, source, caps, capLeft>>

\* _revoke_on_failure, over a connection of its own; it warns when that fails, and raises the
\* first failure either way.
FailsRevoking(c) ==
    \/ /\ caps' = Revoked(caller[c].cap)
       /\ caller' = [caller EXCEPT ![c].pc = "idle", ![c].answer = "failed"]
       /\ UNCHANGED capLeft
    \/ /\ Uses("fault")
       /\ caller' = [caller EXCEPT ![c].pc = "idle", ![c].answer = "failed, warned"]
       /\ UNCHANGED caps

PrepareFails(c) == CallIn(c, "failing") /\ FailsRevoking(c) /\ UNCHANGED <<clock, source>>

\* The host finds no harness, command or build in what came back; the token lives on.
HostRefuses(c) ==
    /\ CallIn(c, "host")
    /\ caller' = [caller EXCEPT ![c].pc = "idle", ![c].answer = "refused on the host"]
    /\ UNCHANGED <<clock, source, caps, capLeft>>

\* docker exec: by execvp without a prompt, else as a child whose stream may be rendered.
HostExecutes(c) ==
    /\ CallIn(c, "host")
    /\ caller' = [caller EXCEPT ![c].pc = "running"]
    /\ UNCHANGED <<clock, source, caps, capLeft>>

RunCallsTool(c) ==
    /\ CallIn(c, "running")
    /\ \E row \in caps : row.id = caller[c].cap
                         /\ caller' = [caller EXCEPT ![c].answer = IF Verifies(row, "mcp") THEN "served" ELSE "refused"]
    /\ UNCHANGED <<clock, source, caps, capLeft>>

\* The run's process ends, and its command with it: nothing revokes.
RunCloses(c) ==
    /\ CallIn(c, "running")
    /\ caller' = [caller EXCEPT ![c] = NoCall]
    /\ UNCHANGED <<clock, source, caps, capLeft>>

-----------------------------------------------------------------------------
(* capability:mint, capability:revoke, and the purge *)

Mint(c) ==
    /\ CallIn(c, "idle") /\ Uses("token")
    /\ \E kind \in {"internal_rest", "mcp_interactive"}, t \in {{"http"}, {"sse"}, {"http", "sse"}} :
        /\ kind = "internal_rest" => t = {"http"}
        /\ Issue(c, Row(kind, t, IF kind = "internal_rest" THEN BlockTtl ELSE MintTtl, 0), NoCall)
    /\ UNCHANGED <<clock, source>>

RevokeByToken ==
    /\ Uses("end")
    /\ \E row \in caps : row.src = 0 /\ caps' = Revoked(row.id)
    /\ UNCHANGED <<clock, source, caller>>

CapNext ==
    \/ Tick \/ RevokeByToken
    \/ \E s \in Sources : SourceEnds(s)
    \/ \E c \in Callers : \/ \E s \in Sources : InvokeReads(c, s)
                          \/ InvokeIssues(c) \/ InvokePosts(c)
                          \/ BlockMints(c) \/ BlockBody(c) \/ BlockRevokes(c) \/ BlockRevokeFails(c) \/ HolderDies(c)
                          \/ PrepareRefuses(c) \/ PrepareMints(c) \/ Prepare(c) \/ PrepareFails(c)
                          \/ HostRefuses(c) \/ HostExecutes(c) \/ RunCallsTool(c) \/ RunCloses(c)
                          \/ Mint(c)

CapSpec == CapInit /\ [][CapNext]_capVars

-----------------------------------------------------------------------------
(* Properties *)

\* Who ends without a word about its token has left none that the toolbox would take: a block that
\* is done, and a run that could not be prepared (toolbox_capability.py:283-300, prepare_run.py:29-56).
QuietEndRevokes ==
    \A c \in Callers : caller[c].answer \in {"done", "failed"} =>
        \A row \in caps : row.id = caller[c].cap => \A e \in Endpoints(row.kind) : ~Verifies(row, e)

=============================================================================
