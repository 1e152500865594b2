---------------------------- MODULE ToolboxCalls ----------------------------
(* A tool call at the toolbox: the guard of its endpoint, the pending audit *)
(* row, the use of a single-use capability, the registry, the second check  *)
(* of the capability and its source, whether the tool is enabled for the    *)
(* scope (one query for each layer), the handler, the outcome.  Calls       *)
(* interleave with each other, with writes of tools/<name>/is_enabled and   *)
(* with revocations.  A row that cannot be decrypted counts as "off".       *)
EXTENDS Naturals, FiniteSets

CONSTANTS
    Calls,        \* requests in flight
    Caps,         \* capabilities
    Kind,         \* Kind[c]: "job" (MCP sessions), "app" or "user" (invoke, single use)
    ToolChain,        \* the tool called and the tools up its `requires` chain
    OnByDefault,  \* the tools config.json ships enabled
    Rows,         \* the <<tool, scope>> rows an administrator may write
    FirstFlags,   \* the rows to begin with
    CallBudgets   \* bounds: requests, writes, withdrawals, failures

VARIABLES
    flag,         \* flag[t][s]: the row of tool t at scope s, or "none"
    capability,   \* [alive: neither revoked nor expired, source: found live, permitted: its user's
                  \*  grants hold the tool, used: consumed, runs: how often a tool ran for it]
    session,      \* session[c]: NoSession, or whether its MCP session registered the tool
    call,
    callsLeft

callVars == <<flag, capability, session, call, callsLeft>>

Layers    == {"default", "workspace", "agent_view"}
ASSUME FlagsAssumption == FirstFlags \subseteq [ToolChain -> [Layers -> {"none", "on", "off"}]]

NoSession == "none"
NoCall    == [at |-> "none"]
Spend(kind) == callsLeft[kind] > 0 /\ callsLeft' = [callsLeft EXCEPT ![kind] = @ - 1]

\* The layers read in turn; a capability of no view stops at the workspace.
LayersOf(c) == IF Kind[c] = "user" THEN <<"default", "workspace">> ELSE <<"default", "workspace", "agent_view">>
SingleUse(c) == Kind[c] # "job"

Derives(c) == capability[c].alive /\ (SingleUse(c) => capability[c].source)

\* requireCapability, before every request.
Admitted(c) == Derives(c)
-----------------------------------------------------------------------------
\* A request past its guard: `seen` is what the layers read so far say of each tool.
NewCall(c, at, registry) ==
    [at |-> at, cap |-> c, for |-> "call", registry |-> registry, layer |-> 1,
     seen |-> [t \in ToolChain |-> "none"], permitted |-> FALSE, stood |-> {}, withdrawn |-> FALSE]

\* resolveConfigValue and toolChainState over the merged layers.
ToolOn(seen, t) == IF seen[t] = "none" THEN t \in OnByDefault ELSE seen[t] = "on"
Enabled(seen)   == \A t \in ToolChain : ToolOn(seen, t)

CallInit ==
    /\ flag \in FirstFlags
    /\ capability = [c \in Caps |-> [alive |-> TRUE, source |-> TRUE, permitted |-> TRUE, used |-> FALSE, runs |-> 0]]
    /\ session = [c \in Caps |-> NoSession]
    /\ call = [k \in Calls |-> NoCall]
    /\ callsLeft \in CallBudgets

\* GET /sse and the first /mcp: the guard, then the registration of the scope's tools.
OpenSession(k, c) ==
    /\ call[k] = NoCall /\ Kind[c] = "job" /\ Admitted(c)
    /\ Spend("call")
    /\ call' = [call EXCEPT ![k] = [NewCall(c, "read", FALSE) EXCEPT !.for = "session"]]
    /\ UNCHANGED <<flag, capability, session>>

\* The guard runs before the session is looked up, so each request re-verifies.
CallOverSession(k, c) ==
    /\ call[k] = NoCall /\ session[c] # NoSession /\ Admitted(c)
    /\ Spend("call")
    /\ call' = [call EXCEPT ![k] = NewCall(c, "audit", session[c] = "registered")]
    /\ UNCHANGED <<flag, capability, session>>

\* POST /internal/tools/<name>:invoke.
Invoke(k, c) ==
    /\ call[k] = NoCall /\ SingleUse(c) /\ Admitted(c)
    /\ Spend("call")
    /\ call' = [call EXCEPT ![k] = NewCall(c, "audit", FALSE)]
    /\ UNCHANGED <<flag, capability, session>>

\* The pending row; without it nothing runs.
WriteAudit(k) ==
    /\ call[k].at = "audit"
    /\ call' = [call EXCEPT ![k].at = IF SingleUse(call[k].cap) THEN "consume" ELSE "verify"]
    /\ UNCHANGED <<flag, capability, session, callsLeft>>

\* As the lenient loaders do: what was read so far answers.
QueryFailsLeniently(k) ==
    /\ call[k].at \in {"audit", "consume", "verify", "read"}
    /\ Spend("fail")
    /\ call' = [call EXCEPT ![k] = IF @.at = "read" THEN [@ EXCEPT !.at = "decide"] ELSE NoCall]
    /\ UNCHANGED <<flag, capability, session>>

\* A query fails: no audit row, no use, no derivation or no layer.  The caller reads
\* `unavailable` and no wider layer answers.
QueryFails(k) ==
    /\ call[k].at \in {"audit", "consume", "verify", "read"}
    /\ Spend("fail")
    /\ call' = [call EXCEPT ![k] = NoCall]
    /\ UNCHANGED <<flag, capability, session>>

Consumable(c) == capability[c].alive /\ ~capability[c].used

Consume(k) ==
    LET c == call[k].cap IN
    /\ call[k].at = "consume"
    /\ IF Consumable(c)
       THEN /\ capability' = [capability EXCEPT ![c].used = TRUE]
            /\ call' = [call EXCEPT ![k] = [@ EXCEPT !.at = "read", !.for = "registry"]]
       ELSE call' = [call EXCEPT ![k] = NoCall] /\ UNCHANGED capability
    /\ UNCHANGED <<flag, session, callsLeft>>

\* One query of the chain of scopes; a nearer row replaces a wider one.
ReadLayer(k) ==
    LET layers == LayersOf(call[k].cap)
        s      == layers[call[k].layer]
        merged == [t \in ToolChain |-> IF flag[t][s] = "none" THEN call[k].seen[t] ELSE flag[t][s]]
        last   == call[k].layer = Cardinality(DOMAIN layers)
    IN /\ call[k].at = "read"
       /\ call' = [call EXCEPT ![k] = [@ EXCEPT !.seen = merged,
                                                !.layer = IF last THEN call[k].layer ELSE call[k].layer + 1,
                                                !.at = IF last THEN "decide" ELSE "read"]]
       /\ UNCHANGED <<flag, capability, session, callsLeft>>

\* registerTools: the tools whose chain is on; a module that throws makes its own unavailable.
Registered(seen, loads) == loads /\ Enabled(seen)

Register(k) ==
    LET c == call[k].cap IN
    /\ call[k].at = "decide" /\ call[k].for # "call"
    /\ \E loads \in BOOLEAN :
         LET has == Registered(call[k].seen, loads) IN
         /\ IF loads THEN UNCHANGED callsLeft ELSE Spend("fail")
         /\ IF call[k].for = "session"
            THEN session' = [session EXCEPT ![c] = IF has THEN "registered" ELSE "empty"] /\ call' = [call EXCEPT ![k] = NoCall]
            ELSE call' = [call EXCEPT ![k] = [@ EXCEPT !.at = "verify", !.registry = has]] /\ UNCHANGED session
    /\ UNCHANGED <<flag, capability>>

\* The capability and its source again, then the registry.
Reverify(k) ==
    LET c == call[k].cap IN
    /\ call[k].at = "verify"
    /\ call' = [call EXCEPT ![k] =
         IF ~Derives(c) \/ ~@.registry THEN NoCall
         ELSE [@ EXCEPT !.at = "read", !.for = "call", !.layer = 1, !.permitted = capability[c].permitted,
                        !.seen = [t \in ToolChain |-> "none"], !.stood = ToolChain \X Layers]]
    /\ UNCHANGED <<flag, capability, session, callsLeft>>

\* Enabled and permitted: the handler runs, or is stubbed in a test run.
Run(k) ==
    /\ call[k].at = "decide" /\ call[k].for = "call"
    /\ Enabled(call[k].seen) /\ call[k].permitted
    /\ capability' = [capability EXCEPT ![call[k].cap].runs = @ + 1]
    /\ call' = [call EXCEPT ![k].at = "finalize"]
    /\ UNCHANGED <<flag, session, callsLeft>>

\* Refused: disabled, not permitted, outside the launch's ceiling, or arguments that do not parse.
Refuse(k) ==
    /\ call[k].at = "decide" /\ call[k].for = "call"
    /\ call' = [call EXCEPT ![k] = NoCall]
    /\ UNCHANGED <<flag, capability, session, callsLeft>>

\* The outcome of the row, which stays `pending` when the write fails; the answer leaves.
Finalize(k) ==
    /\ call[k].at = "finalize"
    /\ call' = [call EXCEPT ![k] = NoCall]
    /\ UNCHANGED <<flag, capability, session, callsLeft>>

\* The client goes away, or the sweeper reaps an idle session.
SessionEnds(c) ==
    /\ session[c] # NoSession
    /\ session' = [session EXCEPT ![c] = NoSession]
    /\ UNCHANGED <<flag, capability, call, callsLeft>>

\* tool:enable, tool:disable, config:set and config:remove at one scope.
WriteFlag(t, s) ==
    /\ <<t, s>> \in Rows /\ Spend("write")
    /\ \E v \in {"none", "on", "off"} \ {flag[t][s]} : flag' = [flag EXCEPT ![t][s] = v]
    /\ call' = [k \in Calls |-> IF call[k] = NoCall THEN NoCall ELSE [call[k] EXCEPT !.stood = @ \ {<<t, s>>}]]
    /\ UNCHANGED <<capability, session>>

\* Before the second check.
Unverified(k) ==
    \/ call[k].at \in {"audit", "consume", "verify"}
    \/ call[k].at \in {"read", "decide"} /\ call[k].for = "registry"

\* Revoked or expired; its session or launch ended; its user's grants withdrawn.
Withdraw(c) ==
    /\ Spend("withdraw")
    /\ \E what \in IF SingleUse(c) THEN {"alive", "source", "permitted"} ELSE {"alive"} :
         /\ capability[c][what]
         /\ capability' = [capability EXCEPT ![c] =
                 [capability[c] EXCEPT !.alive = capability[c].alive /\ what # "alive",
                                       !.source = capability[c].source /\ what # "source",
                                       !.permitted = capability[c].permitted /\ what # "permitted"]]
    /\ call' = [k \in Calls |-> IF Unverified(k) /\ call[k].cap = c
                                THEN [call[k] EXCEPT !.withdrawn = TRUE] ELSE call[k]]
    /\ UNCHANGED <<flag, session>>

CallNext ==
    \/ \E k \in Calls, c \in Caps : OpenSession(k, c) \/ CallOverSession(k, c) \/ Invoke(k, c)
    \/ \E k \in Calls : \/ WriteAudit(k) \/ QueryFails(k) \/ Consume(k) \/ ReadLayer(k) \/ Register(k)
                         \/ Reverify(k) \/ Run(k) \/ Refuse(k) \/ Finalize(k)
    \/ \E c \in Caps : SessionEnds(c) \/ Withdraw(c)
    \/ \E t \in ToolChain, s \in Layers : WriteFlag(t, s)

CallSpec == CallInit /\ [][CallNext]_callVars
-----------------------------------------------------------------------------
HandlerRuns(k) == call[k].at = "decide" /\ call'[k].at = "finalize"

\* The row of s decides tool t, and neither it nor the absence of a nearer one changed
\* since the call was verified.
Nearer(s) == CASE s = "default" -> {"workspace", "agent_view"}
               [] s = "workspace" -> {"agent_view"}
               [] s = "agent_view" -> {}
StandingRefusalOf(k) ==
    LET scopes == {LayersOf(call[k].cap)[i] : i \in DOMAIN LayersOf(call[k].cap)} IN
    \E t \in ToolChain, s \in scopes :
        /\ flag[t][s] = "off" /\ <<t, s>> \in call[k].stood
        /\ \A n \in Nearer(s) \cap scopes : flag[t][n] = "none" /\ <<t, n>> \in call[k].stood

\* A handler runs for a call nothing refuses: the nearest scope's refusal that stands while the
\* call is looked up holds, for the tool and for every tool it requires, whichever query fails
\* (loadScopedDbOverridesStrict); what lost its capability, source or grants before the second
\* check does not run, over a session opened in time included (authorizeAndRun's reverify); and
\* however many requests present a single-use capability, one runs (createConsumer).
RefusalHolds ==
    [][\A k \in Calls : HandlerRuns(k) =>
           /\ ~StandingRefusalOf(k)
           /\ ~call[k].withdrawn
           /\ SingleUse(call[k].cap) => capability[call[k].cap].runs = 0]_callVars
=============================================================================
