----------------------------- MODULE HotReload ------------------------------
(* The main loop of the consumer and its live reload.  Between two claims,  *)
(* when no job is active, the registries are emptied and filled again from  *)
(* modules.json, the manifests and the database.  Worker threads look       *)
(* channels and execution hooks up while their job runs.                    *)
EXTENDS Naturals, Sequences, FiniteSets

CONSTANTS
    Mods,            \* modules, 1..n in the order they load
    HarnessOf,       \* HarnessOf[m]: the harness a module registers, 0 for none
    Recorder,        \* the module whose execution hooks record runs
    Tasks, ChannelOf,  \* jobs, and the module whose channel each came from
    MaxWorkers,
    ReloadBudgets    \* bounds: edits of the disk, database errors, signals

VARIABLES
    disk,        \* [enabled, refused: modules whose manifest discovery refuses, hookFits: the recorder's class imports]
    registry,    \* the modules each registry has: [config, channels, harnesses, hooks, manifests]
    main,        \* the main thread: [at, todo: modules still to load]
    before,      \* the registries when the last reload began
    failed,      \* the last reload raised
    work,        \* [at, saw: the registries at its claim, open: its execution is recorded as running]
    active,      \* _active_jobs
    shut,        \* _shutdown
    reloadLeft

reloadVars == <<disk, registry, main, before, failed, work, active, shut, reloadLeft>>

Empty == [config |-> {}, channels |-> {}, harnesses |-> {}, hooks |-> {}, manifests |-> {}]
Full(mods) == [config |-> mods, channels |-> mods, harnesses |-> {m \in mods : HarnessOf[m] # 0},
               hooks |-> mods \cap {Recorder}, manifests |-> mods]
Charges(kind)    == reloadLeft[kind] > 0 /\ reloadLeft' = [reloadLeft EXCEPT ![kind] = @ - 1]
MainGoes(at, mods) == main' = [at |-> at, todo |-> mods]

Collide(m, mods) == HarnessOf[m] # 0 /\ \E n \in mods : n # m /\ HarnessOf[n] = HarnessOf[m]

\* The process comes up with a bootstrap that worked.
ReloadInit ==
    /\ \E mods \in SUBSET Mods :
         /\ \A m \in mods : ~Collide(m, mods)
         /\ disk = [enabled |-> mods, refused |-> {}, hookFits |-> TRUE]
         /\ registry = Full(mods) /\ before = Full(mods)
    /\ main = [at |-> "top", todo |-> <<>>]
    /\ failed = FALSE
    /\ work = [t \in Tasks |-> [at |-> "todo", saw |-> Empty, open |-> FALSE]]
    /\ active = 0 /\ shut = FALSE
    /\ reloadLeft \in ReloadBudgets
-----------------------------------------------------------------------------
(* The reload *)

FreeSlot == active < MaxWorkers

\* The gate of the reload: no job is active.
MayReload == active = 0

\* clear_registries: every one but the manifests.
Cleared(r) == [Empty EXCEPT !.manifests = r.manifests]

\* _maybe_reload_bootstrap, at the top of each pass: a busy consumer, or one without a database
\* connection, keeps what it has; bootstrap() begins by clearing.
Top ==
    /\ main.at = "top" /\ ~shut
    /\ \/ /\ ~MayReload
          /\ MainGoes("acquire", <<>>)
          /\ UNCHANGED <<registry, before, reloadLeft>>
       \/ /\ MayReload /\ Charges("db")
          /\ MainGoes("acquire", <<>>)
          /\ UNCHANGED <<registry, before>>
       \/ /\ MayReload
          /\ MainGoes("discover", <<>>)
          /\ before' = registry /\ registry' = Cleared(registry)
          /\ UNCHANGED reloadLeft
    /\ UNCHANGED <<disk, failed, work, active, shut>>

\* An exception anywhere in bootstrap() is logged; the loop goes on.
Raises ==
    /\ failed' = TRUE
    /\ MainGoes("acquire", <<>>)

\* Discovery refuses the whole set for one module; otherwise every module's configuration is resolved.
Discover ==
    /\ main.at = "discover"
    /\ IF disk.enabled \cap disk.refused # {}
       THEN Raises /\ UNCHANGED registry
       ELSE /\ registry' = [registry EXCEPT !.config = disk.enabled]
            /\ MainGoes("load", SelectSeq([m \in 1..Cardinality(Mods) |-> m], LAMBDA m : m \in disk.enabled))
            /\ UNCHANGED failed
    /\ UNCHANGED <<disk, before, work, active, shut, reloadLeft>>

\* One module: its channels and the like, which only log what fails, then its harness and its
\* execution hooks, which raise.
LoadModule ==
    LET m == Head(main.todo)
        channels == registry.channels \cup {m}
    IN  /\ main.at = "load" /\ main.todo # <<>>
        /\ IF Collide(m, registry.harnesses \cup {m})
           THEN Raises /\ registry' = [registry EXCEPT !.channels = channels]
           ELSE LET r == [registry EXCEPT !.channels = channels,
                                          !.harnesses = IF HarnessOf[m] # 0 THEN @ \cup {m} ELSE @]
                IN  IF m = Recorder /\ ~disk.hookFits
                    THEN Raises /\ registry' = r
                    ELSE /\ registry' = [r EXCEPT !.hooks = IF m = Recorder THEN {m} ELSE @]
                         /\ MainGoes("load", Tail(main.todo))
                         /\ UNCHANGED failed
        /\ UNCHANGED <<disk, before, work, active, shut, reloadLeft>>

\* The manifests are replaced in one statement.
Loaded ==
    /\ main.at = "load" /\ main.todo = <<>>
    /\ registry' = [registry EXCEPT !.manifests = registry.channels]
    /\ failed' = FALSE
    /\ MainGoes("acquire", <<>>)
    /\ UNCHANGED <<disk, before, work, active, shut, reloadLeft>>
-----------------------------------------------------------------------------
(* Claims, jobs, the end *)

\* A slot, or the poll interval passes.
Acquire ==
    /\ main.at = "acquire" /\ ~shut
    /\ \/ FreeSlot /\ MainGoes("dequeue", <<>>)
       \/ MainGoes("top", <<>>)
    /\ UNCHANGED <<disk, registry, before, failed, work, active, shut, reloadLeft>>

\* A job, or none: a signal that comes by now does not stop the claim.
TryDequeue ==
    /\ main.at = "dequeue"
    /\ \/ UNCHANGED <<work, active>>
       \/ \E t \in Tasks :
            /\ work[t].at = "todo"
            /\ work' = [work EXCEPT ![t] = [@ EXCEPT !.at = "claimed", !.saw = registry]]
            /\ active' = active + 1
    /\ MainGoes("top", <<>>)
    /\ UNCHANGED <<disk, registry, before, failed, shut, reloadLeft>>

\* _run_job: the channel is looked up, and the run recorded when a module records runs.  An
\* unknown channel is a ValueError, which is not retried.
RunJob(t) ==
    /\ work[t].at = "claimed"
    /\ IF ChannelOf[t] \notin registry.channels
       THEN work' = [work EXCEPT ![t].at = "dead"] /\ active' = active - 1
       ELSE work' = [work EXCEPT ![t].at = "running", ![t].open = registry.hooks # {}] /\ UNCHANGED active
    /\ UNCHANGED <<disk, registry, main, before, failed, shut, reloadLeft>>

\* _finalize_job, and the slot is free: the finalizer of this moment closes what is recorded.
FinalizeJob(t) ==
    /\ work[t].at = "running"
    /\ work' = [work EXCEPT ![t].at = "done", ![t].open = @ /\ registry.hooks = {}]
    /\ active' = active - 1
    /\ UNCHANGED <<disk, registry, main, before, failed, shut, reloadLeft>>

HandleSignal ==
    /\ ~shut /\ Charges("stop")
    /\ shut' = TRUE
    /\ UNCHANGED <<disk, registry, main, before, failed, work, active>>

\* The loop is left; the running jobs end first, then the modules hear of the shutdown.
Drain ==
    /\ shut /\ main.at \in {"top", "acquire"}
    /\ active = 0
    /\ MainGoes("stopped", <<>>)
    /\ UNCHANGED <<disk, registry, before, failed, work, active, shut, reloadLeft>>

\* Outside: modules.json, a manifest, the recorder's source.
EditDisk ==
    /\ Charges("edit")
    /\ \/ \E m \in Mods : disk' = [disk EXCEPT !.enabled = IF m \in @ THEN @ \ {m} ELSE @ \cup {m}]
       \/ \E m \in Mods : disk' = [disk EXCEPT !.refused = IF m \in @ THEN @ \ {m} ELSE @ \cup {m}]
       \/ disk' = [disk EXCEPT !.hookFits = ~@]
    /\ UNCHANGED <<registry, main, before, failed, work, active, shut>>

ReloadNext ==
    \/ Top \/ Discover \/ LoadModule \/ Loaded \/ Acquire \/ TryDequeue \/ Drain
    \/ \E t \in Tasks : RunJob(t) \/ FinalizeJob(t)
    \/ HandleSignal \/ EditDisk

ReloadSpec == ReloadInit /\ [][ReloadNext]_reloadVars
-----------------------------------------------------------------------------
\* A job sees one state of the registries from its claim to its end, so the hooks that recorded
\* its run as started are there to record its end, and no job is left when the modules are told
\* of the shutdown (_maybe_reload_bootstrap: skipped while workers are busy).
JobKeepsItsLoad ==
    /\ \A t \in Tasks : work[t].at \in {"claimed", "running"} => registry = work[t].saw /\ main.at # "stopped"
    /\ \A t \in Tasks : work[t].at = "done" => ~work[t].open

\* A reload that fails leaves the consumer with the registries it had: "Re-bootstrap failed --
\* continuing with previous registry" (consumer.py:521).
FailedReloadKeeps == failed /\ main.at = "acquire" => registry = before
=============================================================================
