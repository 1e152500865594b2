------------------------------- MODULE MCHost -------------------------------
(* The host: the runner's uids and signals, the builds of a workspace, the *)
(* directories of a run, setup:upgrade beside module commands, the         *)
(* configuration of a view, the store of an artifact, the calls of the     *)
(* toolbox and its SQL pools.  The parts share no state here: a behaviour  *)
(* is one of them and the others rest.                                     *)
EXTENDS RunnerServer, WorkspaceBuild, RunDirs, SetupUpgrade, ScopedConfig, ArtifactStore, ToolboxCalls,
        SqlPools

VARIABLE part

hostVars == <<part, runnerVars, buildVars, dirVars, setupVars, configVars, storeVars, callVars, poolVars>>

\* The runner: two faults of those that meet; operation 3 has no tag.
NoFault == [refuse |-> 0, walk |-> 0, survive |-> 0, signal |-> 0, restart |-> 0]
RunnerFaults == {[NoFault EXCEPT ![p[1]] = @ + 1, ![p[2]] = @ + 1] :
    p \in {<<"survive", "restart">>, <<"survive", "signal">>, <<"walk", "restart">>, <<"refuse", "refuse">>}}
OwnTags == <<1, 2, 0>>

\* Builds: three of them over two changes, one of which fails or dies.
BuildFaults == {[config |-> 2, builds |-> 3, fail |-> 1, crash |-> 0],
                [config |-> 2, builds |-> 3, fail |-> 0, crash |-> 1]}

\* Directories: two writes, a day and a prune, and two more steps.
Plain == [write |-> 2, crash |-> 0, error |-> 0, retry |-> 0, delete |-> 0, time |-> 1, prune |-> 1]
DirFaults == {[Plain EXCEPT ![a] = @ + 1, ![b] = @ + 1] :
                 a \in {"crash", "error", "write"}, b \in {"retry", "delete", "time", "prune", "error"}}

\* Modules: what each requires (3 is not installed); the version of a unit is its own.
Requirements == {r \in [Mods -> SUBSET (Mods \cup {3})] : (\A m \in Mods : m \notin r[m]) /\ 3 \notin r[1]}
Versions     == [u \in {0, 1, 2, 3} |-> u]
SetupFaults  == {[commands |-> 2, crashes |-> 1], [commands |-> 3, crashes |-> 0]}

\* Configuration: two harnesses, one of which offers both providers.
OffersOf == [claude |-> <<"anthropic">>, pi |-> <<"openai", "anthropic">>]
Ship     == [harness |-> "claude", provider |-> "anthropic"]
NoWorkspace == {"default", "agent_view"}

\* The store: a prune beside launches; saves that die; a code made again beside a change of its
\* credential; drafts that go.
Few == [init |-> 1, draft |-> 0, save |-> 0, publish |-> 0, discard |-> 0, auth |-> 0, web |-> 0,
        crash |-> 0, fail |-> 0]
StoreFaults == {[Few EXCEPT !.draft = 1, !.save = 2, !.publish = 1, !.web = 2],
                [Few EXCEPT !.draft = 1, !.save = 2, !.publish = 1, !.crash = 1, !.fail = 1],
                [Few EXCEPT !.init = 2, !.auth = 1, !.web = 3, !.crash = 1, !.fail = 1],
                [Few EXCEPT !.draft = 2, !.discard = 2, !.save = 1, !.crash = 1, !.fail = 1]}

\* Calls: a master tool off at the workspace, or on; writes at the tool's own view.
Kinds   == [j |-> "job", u |-> "user", a |-> "app"]
Master  == {[t \in {"tool", "master"} |-> [s \in Layers |->
               IF s = "default" THEN "on" ELSE IF s = "workspace" /\ t = "master" THEN v ELSE "none"]] :
               v \in {"none", "off"}}
Written == {<<"tool", "agent_view">>, <<"master", "workspace">>}
CallFaults == {[call |-> 3, write |-> 1, withdraw |-> 0, fail |-> 1],
               [call |-> 2, write |-> 2, withdraw |-> 0, fail |-> 0],
               [call |-> 3, write |-> 0, withdraw |-> 1, fail |-> 0]}

\* SQL: four calls of two sessions with one pool key; the second session's budget is lower.
OneKey    == <<"one", "one">>
Sessions4 == <<1, 1, 2, 2>>
Slots     == <<2, 1>>
Calm      == [open |-> 0, break |-> 0, close |-> 0, timer |-> 0, cancel |-> 0, shut |-> 0]
SqlFaults == {[Calm EXCEPT !.break = 1, !.close = 3, !.timer = 1],
              [Calm EXCEPT !.break = 2, !.open = 1, !.timer = 1],
              [Calm EXCEPT !.cancel = 1, !.open = 1, !.timer = 1],
              [Calm EXCEPT !.shut = 1, !.close = 1, !.open = 1, !.timer = 1]}

AtRest(S, limits) == limits = CHOOSE x \in S : TRUE

HostInit ==
    /\ part \in {"runner", "build", "dirs", "setup", "config", "store", "calls", "sql"}
    /\ RunnerInit /\ BuildInit /\ DirInit /\ SetupInit /\ ConfigInit /\ StoreInit /\ CallInit /\ SqlInit
    /\ part # "runner" => AtRest(RunnerBudgets, runnerLeft)
    /\ part # "build" => AtRest(BuildBudgets, buildLeft)
    /\ part # "dirs" => AtRest(DirBudgets, dirLeft)
    /\ part # "setup" => AtRest(SetupBudgets, setupBudget) /\ AtRest(Sequences, requires)
    /\ part # "store" => AtRest(StoreBudgets, storeLeft)
    /\ part # "calls" => AtRest(CallBudgets, callsLeft) /\ AtRest(FirstFlags, flag)
    /\ part # "sql" => AtRest(PoolBudgets, poolsLeft)

HostNext ==
    \/ part = "runner" /\ RunnerNext /\ UNCHANGED <<part, buildVars, dirVars, setupVars, configVars, storeVars, callVars, poolVars>>
    \/ part = "build"  /\ BuildNext  /\ UNCHANGED <<part, runnerVars, dirVars, setupVars, configVars, storeVars, callVars, poolVars>>
    \/ part = "dirs"   /\ DirNext    /\ UNCHANGED <<part, runnerVars, buildVars, setupVars, configVars, storeVars, callVars, poolVars>>
    \/ part = "setup"  /\ SetupNext  /\ UNCHANGED <<part, runnerVars, buildVars, dirVars, configVars, storeVars, callVars, poolVars>>
    \/ part = "config" /\ ConfigNext /\ UNCHANGED <<part, runnerVars, buildVars, dirVars, setupVars, storeVars, callVars, poolVars>>
    \/ part = "store"  /\ StoreNext  /\ UNCHANGED <<part, runnerVars, buildVars, dirVars, setupVars, configVars, callVars, poolVars>>
    \/ part = "calls"  /\ CallNext   /\ UNCHANGED <<part, runnerVars, buildVars, dirVars, setupVars, configVars, storeVars, poolVars>>
    \/ part = "sql"    /\ SqlNext    /\ UNCHANGED <<part, runnerVars, buildVars, dirVars, setupVars, configVars, storeVars, callVars>>

HostSpec == HostInit /\ [][HostNext]_hostVars
=============================================================================
