---------------------------- MODULE SetupUpgrade ----------------------------
(***************************************************************************)
(* setup:upgrade, module:enable, module:disable and bootstrap              *)
(* (framework/setup.py, migrate.py, data_patch.py, dependency_resolver.py, *)
(* module_status.py, bootstrap.py).  Operators run commands at the same    *)
(* time and any of them may be killed between two statements.  A module    *)
(* has one migration of two statements, a DDL statement that commits what  *)
(* came before it and an UPDATE that stays in the transaction, and one     *)
(* data patch, which requires the patches of the modules in its sequence.  *)
(* Module 0 is the framework, which has only its migrations.               *)
(***************************************************************************)
EXTENDS Integers, FiniteSets, SequencesExt

CONSTANTS
    Operators,       \* command line processes
    Mods,            \* modules, numbered in the order they load in when nothing else decides
    Sequences,       \* the dependency relations considered; a module may require one that is not there
    Version,         \* version of the migration of each module and of the framework
    Onboarded,       \* modules with an onboarding that is not complete
    SetupBudgets     \* bounds: commands, crashes, retries of an onboarding

ASSUME ModsAssumption ==
    /\ IsFiniteSet(Mods) /\ Mods \subseteq Nat \ {0}
    /\ Sequences \subseteq [Mods -> SUBSET (Nat \ {0})]

Units == Mods \cup {0}
Statements == Units \X {"ddl", "dml"}

VARIABLES
    requires,    \* `sequence` of each manifest
    enabled,     \* app/etc/modules.json
    committed,   \* statements that took effect
    recorded,    \* schema_migration: the units whose migration is recorded
    patched,     \* data_patch
    complete,    \* onboardings that are complete
    proc,        \* each command
    loaded,      \* the modules the last bootstrap loaded, in order
    setupBudget

setupVars == <<requires, enabled, committed, recorded, patched, complete, proc, loaded, setupBudget>>

NoCommand == [pc |-> "idle", mods |-> <<>>, open |-> {}, todo |-> <<>>, read |-> {}, on |-> FALSE]

SetupInit ==
    /\ requires \in Sequences
    /\ enabled = Mods /\ committed = {} /\ recorded = {} /\ patched = {}
    /\ complete = Mods \ Onboarded
    /\ proc = [p \in Operators |-> NoCommand]
    /\ loaded = <<>>
    /\ setupBudget \in SetupBudgets

SpendSetup(k) ==
    /\ setupBudget[k] > 0
    /\ setupBudget' = [setupBudget EXCEPT ![k] = @ - 1]

-----------------------------------------------------------------------------
(* dependency_resolver.py *)

\* validate_dependencies: no enabled module requires one that is there and disabled.
DependenciesEnabled(mods) == \A m \in mods : requires[m] \cap Mods \subseteq mods

\* resolve_order: a module with a dependency that is not there is left out, and with it
\* every module that needs it.
Available(mods) ==
    LET Keep(kept) == {m \in kept : requires[m] \subseteq kept}
        pass[n \in 0 .. Cardinality(mods)] == IF n = 0 THEN mods ELSE Keep(pass[n - 1])
    IN  pass[Cardinality(mods)]

\* Faulty: modules in the order of their numbers, not of their dependencies.
ResolveOrderByNumber(mods) == SetToSortSeq(Available(mods), <)

\* resolve_order: of the modules whose dependencies are placed, the first goes next.
\* Modules in a cycle are never placed.
ResolveOrder(mods) ==
    LET valid == Available(mods)
        Ready(placed) == {m \in valid \ ToSet(placed) : requires[m] \subseteq ToSet(placed)}
        Place(placed) == IF Ready(placed) = {} THEN placed ELSE Append(placed, Min(Ready(placed)))
        order[n \in 0 .. Cardinality(valid)] == IF n = 0 THEN <<>> ELSE Place(order[n - 1])
    IN  order[Cardinality(valid)]

Acyclic(mods) == Len(ResolveOrder(mods)) = Cardinality(Available(mods))

\* get_transitive_dependents, among all modules that were scanned.
Dependents(module) ==
    LET Grow(found, i) == found \cup {m \in Mods : requires[m] \cap (found \cup {module}) # {}}
    IN FoldLeft(Grow, {}, [i \in 1 .. Cardinality(Mods) |-> i])

-----------------------------------------------------------------------------
(* Commands *)

Step(p, to) == proc' = [proc EXCEPT ![p] = to]
StepTo(p, pc) == Step(p, [proc[p] EXCEPT !.pc = pc])

\* The command fails or is killed: what its transaction holds is rolled back.
Stops(p) == Step(p, NoCommand)

\* bootstrap and setup_upgrade: scan, filter_enabled, validate_dependencies, resolve_order.
\* An error ends the command before anything is written.
Accepted == DependenciesEnabled(enabled) /\ Acyclic(enabled)

\* bootstrap of a process: registries are cleared, then filled in the order of the modules.
Bootstrap ==
    /\ loaded' = IF Accepted THEN ResolveOrder(enabled) ELSE <<>>
    /\ loaded' # loaded
    /\ UNCHANGED <<requires, enabled, committed, recorded, patched, complete, proc, setupBudget>>

SetupScan(p) ==
    /\ proc[p].pc = "idle" /\ SpendSetup("commands")
    /\ Accepted
    /\ Step(p, [NoCommand EXCEPT !.pc = "pending", !.mods = <<0>> \o ResolveOrder(enabled),
                                 !.todo = <<0>> \o ResolveOrder(enabled)])
    /\ UNCHANGED <<requires, enabled, committed, recorded, patched, complete, loaded>>

\* get_pending of the next module, or the end of the migrations.
GetPending(p) ==
    LET c == proc[p] IN
    /\ c.pc = "pending"
    /\ IF c.todo = <<>> THEN StepTo(p, "patches")
       ELSE IF Head(c.todo) \in recorded THEN Step(p, [c EXCEPT !.todo = Tail(@)])
       ELSE StepTo(p, "ddl")
    /\ UNCHANGED <<requires, enabled, committed, recorded, patched, complete, loaded, setupBudget>>

\* apply_migration: a DDL statement commits; run again it fails with an ignorable error.
Ddl(p) ==
    LET c == proc[p] IN
    /\ c.pc = "ddl"
    /\ committed' = committed \cup c.open \cup {<<Head(c.todo), "ddl">>}
    /\ Step(p, [c EXCEPT !.pc = "dml", !.open = {}])
    /\ UNCHANGED <<requires, enabled, recorded, patched, complete, loaded, setupBudget>>

Dml(p) ==
    LET c == proc[p] IN
    /\ c.pc = "dml"
    /\ Step(p, [c EXCEPT !.pc = "record", !.open = {<<Head(c.todo), "dml">>}])
    /\ UNCHANGED <<requires, enabled, committed, recorded, patched, complete, loaded, setupBudget>>

\* The version is the primary key of schema_migration, whatever the module.
VersionTaken(u) == \E r \in recorded : Version[r] = Version[u]

\* The INSERT and the commit.  A taken version is an IntegrityError, which nothing catches.
Record(p) ==
    LET c == proc[p] IN
    /\ c.pc = "record"
    /\ IF VersionTaken(Head(c.todo)) THEN Stops(p) /\ UNCHANGED <<committed, recorded>>
       ELSE /\ committed' = committed \cup c.open
            /\ recorded' = recorded \cup {Head(c.todo)}
            /\ Step(p, [c EXCEPT !.pc = "pending", !.open = {}, !.todo = Tail(@)])
    /\ UNCHANGED <<requires, enabled, patched, complete, loaded, setupBudget>>

\* get_all_pending: the modules whose patch is not applied yet.
Unpatched(mods) ==
    LET Take(found, m) == IF m \in patched \cup {0} THEN found ELSE Append(found, m)
        taken[n \in 0 .. Len(mods)] == IF n = 0 THEN <<>> ELSE Take(taken[n - 1], mods[n])
    IN  taken[Len(mods)]

\* resolve_patch_order: each patch after the pending ones it requires, which is the order of
\* the modules.  A required patch that is not pending is not looked at.
PendingPatches(p) ==
    LET c == proc[p] IN
    /\ c.pc = "patches"
    /\ Step(p, [c EXCEPT !.pc = "patch", !.todo = Unpatched(c.mods)])
    /\ UNCHANGED <<requires, enabled, committed, recorded, patched, complete, loaded, setupBudget>>

\* apply_patch and its record commit together; applied by another meanwhile, the key is taken.
ApplyPatch(p) ==
    LET c == proc[p] IN
    /\ c.pc = "patch"
    /\ IF c.todo = <<>> THEN UNCHANGED patched /\ Step(p, [c EXCEPT !.pc = "onboard", !.todo = Tail(c.mods)])
       ELSE IF Head(c.todo) \in patched THEN UNCHANGED patched /\ Stops(p)
       ELSE /\ patched' = patched \cup {Head(c.todo)}
            /\ Step(p, [c EXCEPT !.todo = Tail(@)])
    /\ UNCHANGED <<requires, enabled, committed, recorded, complete, loaded, setupBudget>>

\* The onboarding of the next module: complete already, completed, left to a retry, to a quit,
\* or the module and all its dependents are to be disabled.
Onboard(p) ==
    LET c == proc[p]
        module == Head(c.todo)
    IN
    /\ c.pc = "onboard"
    /\ \/ c.todo = <<>> /\ Stops(p) /\ UNCHANGED <<complete, setupBudget>>
       \/ /\ c.todo # <<>> /\ module \in complete
          /\ Step(p, [c EXCEPT !.todo = Tail(@)]) /\ UNCHANGED <<complete, setupBudget>>
       \/ /\ c.todo # <<>> /\ module \notin complete
          /\ complete' = complete \cup {module}
          /\ Step(p, [c EXCEPT !.todo = Tail(@)]) /\ UNCHANGED setupBudget
       \/ /\ c.todo # <<>> /\ module \notin complete /\ Stops(p) /\ UNCHANGED <<complete, setupBudget>>
       \/ /\ c.todo # <<>> /\ module \notin complete
          /\ Step(p, [c EXCEPT !.pc = "switch", !.on = FALSE,
                               !.todo = <<module>> \o SetToSortSeq(Dependents(module), <)])
          /\ UNCHANGED <<complete, setupBudget>>
    /\ UNCHANGED <<requires, enabled, committed, recorded, patched, loaded>>

\* module:enable and module:disable look at no dependency.
Switch(p) ==
    \E m \in Mods, on \in BOOLEAN :
      /\ proc[p].pc = "idle" /\ SpendSetup("commands")
      /\ Step(p, [NoCommand EXCEPT !.pc = "switch", !.todo = <<m>>, !.on = on])
      /\ UNCHANGED <<requires, enabled, committed, recorded, patched, complete, loaded>>

\* set_enabled reads the file, and then replaces it.
SetEnabledReads(p) ==
    LET c == proc[p] IN
    /\ c.pc = "switch"
    /\ IF c.todo = <<>> THEN Stops(p) ELSE Step(p, [c EXCEPT !.pc = "write", !.read = enabled])
    /\ UNCHANGED <<requires, enabled, committed, recorded, patched, complete, loaded, setupBudget>>

SetEnabledWrites(p) ==
    LET c == proc[p] IN
    /\ c.pc = "write"
    /\ enabled' = IF c.on THEN c.read \cup {Head(c.todo)} ELSE c.read \ {Head(c.todo)}
    /\ Step(p, [c EXCEPT !.pc = "switch", !.todo = Tail(@), !.read = {}])
    /\ UNCHANGED <<requires, committed, recorded, patched, complete, loaded, setupBudget>>

Killed(p) ==
    /\ proc[p].pc # "idle" /\ SpendSetup("crashes")
    /\ Stops(p)
    /\ UNCHANGED <<requires, enabled, committed, recorded, patched, complete, loaded>>

SetupNext ==
    \/ Bootstrap
    \/ \E p \in Operators :
         \/ SetupScan(p) \/ GetPending(p) \/ Ddl(p) \/ Dml(p) \/ Record(p)
         \/ PendingPatches(p) \/ ApplyPatch(p) \/ Onboard(p)
         \/ Switch(p) \/ SetEnabledReads(p) \/ SetEnabledWrites(p) \/ Killed(p)

SetupSpec == SetupInit /\ [][SetupNext]_setupVars

-----------------------------------------------------------------------------
(* Properties *)

\* The migration and the patch of a module come after those of every module it requires,
\* whatever was enabled or disabled before and whoever ran the upgrade.
DependenciesFirst ==
    [][/\ \A u \in (recorded' \ recorded) \ {0} : requires[u] \cup {0} \subseteq recorded'
       /\ \A m \in patched' \ patched : requires[m] \subseteq patched]_setupVars

=============================================================================
