---------------------------- MODULE ScopedConfig ----------------------------
(***************************************************************************)
(* Configuration rows at three scopes and the pair of fields that depend   *)
(* on each other, agent_view/harness and agent_view/provider: how a value  *)
(* is resolved (config_resolver.py, scoped_config.py), saved with what it  *)
(* invalidates (config_write.py, config_dependents.py, cli/config.py), and *)
(* what a job then runs with (agent_view_runtime.py).  One agent view in   *)
(* one workspace.  A save validates before its transaction, so two steps;  *)
(* a transaction is one step.                                              *)
(***************************************************************************)
EXTENDS FiniteSets, SequencesExt

CONSTANTS
    Writers,         \* processes that save configuration
    Harnesses, Providers,
    Offers,          \* providers of each harness, its default provider first
    Environments,    \* values of CONFIG__AGENT_VIEW__HARNESS considered, with Unset
    SavedScopes,     \* scopes at which values are saved
    Shipped,         \* config.json of the agent_view module
    Unset

ASSUME OffersAssumption ==
    /\ Unset \notin Harnesses \cup Providers
    /\ \A h \in Harnesses : Offers[h] \in Seq(Providers) /\ Offers[h] # <<>>

Scopes == {"default", "workspace", "agent_view"}
Fields == {"harness", "provider"}
Values(f) == IF f = "harness" THEN Harnesses ELSE Providers

VARIABLES
    rows,      \* core_config_data: rows[scope][field]
    env,       \* the environment's harness
    save,      \* each writer's validated save
    alone,     \* the writers since whose validation no row changed
    pair       \* the pair of the last job that was started, or of the last error

configVars == <<rows, env, save, alone, pair>>

NoSave == [scope |-> "default", field |-> "harness", value |-> Unset]

ConfigInit ==
    /\ rows = [s \in Scopes |-> [f \in Fields |-> Unset]]
    /\ env \in Environments
    /\ save = [w \in Writers |-> NoSave]
    /\ alone = {}
    /\ pair = [harness |-> Unset, provider |-> Unset, error |-> FALSE]

-----------------------------------------------------------------------------
(* Resolution *)

\* The scopes consulted, the nearest first.
Chain(s) ==
    CASE s = "default" -> <<"default">>
      [] s = "workspace" -> <<"workspace", "default">>
      [] s = "agent_view" -> <<"agent_view", "workspace", "default">>

\* What write-time code consults: resolve_with_origin with the id of the target scope only,
\* so a view's workspace is left out.
WriteChain(s) == IF s = "agent_view" THEN <<"agent_view", "default">> ELSE Chain(s)

\* build_scoped_overrides: the places of the chain whose scope has a row, in a table of rows.
WithRow(chain, f, table) == {i \in DOMAIN chain : table[chain[i]][f] # Unset}
Nearest(chain, f, table) == chain[Min(WithRow(chain, f, table))]

\* resolve_field: environment, rows, config.json.
Resolve(chain, f, shipped) ==
    IF f = "harness" /\ env # Unset THEN env
    ELSE IF WithRow(chain, f, rows) # {} THEN rows[Nearest(chain, f, rows)][f]
    ELSE shipped

\* ScopedConfigService.get looks in the same places in the same order, in code of its own.
Get(s, f) == Resolve(Chain(s), f, Shipped[f])

\* ORIGIN_*: how near the value is.
Origin(chain, f) ==
    IF f = "harness" /\ env # Unset THEN 4
    ELSE IF WithRow(chain, f, rows) = {} THEN 0
    ELSE CASE Nearest(chain, f, rows) = "agent_view" -> 3
           [] Nearest(chain, f, rows) = "workspace" -> 2
           [] Nearest(chain, f, rows) = "default" -> 1

\* _resolve_harness_and_provider.  A provider that names a harness is how rows were written
\* before there was a harness field; the nearer of the two decides.
Pair(harness, provider, legacyIsNearer) ==
    LET Runs(h, p) == [harness |-> h, provider |-> p, error |-> FALSE] IN
    IF provider \in ToSet(Offers[harness]) THEN Runs(harness, provider)
    ELSE IF provider \in Harnesses /\ legacyIsNearer THEN Runs(provider, Head(Offers[provider]))
    ELSE IF provider \in Harnesses THEN Runs(harness, Head(Offers[harness]))
    ELSE [harness |-> harness, provider |-> provider, error |-> TRUE]

\* resolve_agent_view_runtime, and resolve_runtime_for_scope
Runtime(s) ==
    Pair(Get(s, "harness"), Get(s, "provider"),
         Origin(Chain(s), "provider") >= Origin(Chain(s), "harness"))

-----------------------------------------------------------------------------
(* Saving *)

\* validate_config_value: a dependent select is narrowed to what the parent offers.
Allowed(s, f) ==
    IF f = "harness" THEN Harnesses
    ELSE ToSet(Offers[Resolve(WriteChain(s), "harness", Shipped.harness)])

\* save_config: config:set, the admin screens and the panel.
Validate(w) ==
    \E s \in SavedScopes, f \in Fields : \E v \in Values(f) \cap Allowed(s, f) :
      /\ save[w] = NoSave
      /\ save' = [save EXCEPT ![w] = [scope |-> s, field |-> f, value |-> v]]
      /\ alone' = alone \cup {w}
      /\ UNCHANGED <<rows, env, pair>>

\* Faulty: any provider that is set is kept.
RepairedIfUnset(s, f, v, written) ==
    IF f = "provider" \/ \E t \in ToSet(WriteChain(s)) : written[t]["provider"] # Unset THEN written
    ELSE [written EXCEPT ![s]["provider"] = Head(Offers[v])]

\* reset_dependents: a provider the new harness does not offer is replaced at the scope of
\* the save.  config.json is not looked at here: a value nobody saved is written too.
Repaired(s, f, v, written) ==
    LET fits == /\ WithRow(WriteChain(s), "provider", written) # {}
                /\ written[Nearest(WriteChain(s), "provider", written)]["provider"] \in ToSet(Offers[v])
    IN IF f = "provider" \/ fits THEN written
       ELSE [written EXCEPT ![s]["provider"] = Head(Offers[v])]

\* write_config: the value and the repair commit together, or the actor is refused.
Write(w) ==
    LET c == save[w] IN
    /\ c # NoSave
    /\ \/ rows' = Repaired(c.scope, c.field, c.value, [rows EXCEPT ![c.scope][c.field] = c.value])
       \/ UNCHANGED rows
    /\ save' = [save EXCEPT ![w] = NoSave]
    /\ alone' = IF rows' = rows THEN alone \ {w} ELSE {}
    /\ UNCHANGED <<env, pair>>

\* config:remove: the row alone.
ConfigRemove ==
    \E s \in SavedScopes, f \in Fields :
      /\ rows[s][f] # Unset
      /\ rows' = [rows EXCEPT ![s][f] = Unset]
      /\ alone' = {}
      /\ UNCHANGED <<env, save, pair>>

\* resolve_agent_view_runtime: an invalid pair fails the job.
StartJob ==
    /\ pair' = Runtime("agent_view")
    /\ pair' # pair
    /\ UNCHANGED <<rows, env, save, alone>>

ConfigNext == (\E w \in Writers : Validate(w) \/ Write(w)) \/ ConfigRemove \/ StartJob

ConfigSpec == ConfigInit /\ [][ConfigNext]_configVars

-----------------------------------------------------------------------------
(* Properties *)

\* config_dependents.py: "the parent write and the repair land together and a broken pair is
\* never observable": a save that nothing came between leaves a pair that runs at the scope
\* it was saved at, whatever was saved or removed at the other scopes before.
SavedPairRuns ==
    [][\A w \in alone, s \in Scopes :
         save'[w] = NoSave /\ rows' # rows /\ save[w].scope = s => ~Runtime(s)'.error]_configVars

=============================================================================
