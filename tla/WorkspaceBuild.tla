--------------------------- MODULE WorkspaceBuild ---------------------------
(***************************************************************************)
(* The materialized workspace of one agent_view: execute_build, which every *)
(* run starts with and the CLI may force, the current link, retention, and *)
(* the copy of the current build that a run gets (workspace_build/src,     *)
(* artifacts_dir.py, run_preparation.py).  The checksum of what is resolved *)
(* is the version of the configuration; what the files say is left out.    *)
(***************************************************************************)
EXTENDS Integers, FiniteSets

CONSTANTS
    Builders,     \* consumer workers and CLI processes that build this view
    Forcing,      \* those that run workspace:build --force and start no run
    MaxBuilds,    \* workspace_build/retention/max_builds
    BuildBudgets  \* bounds on config changes, failures and crashes

NoLink == 0

VARIABLES
    config,       \* the checksum of the resolved configuration
    buildRows,    \* workspace_build: [sum, status, dir], in id order
    dirs,         \* builds on disk: id -> none, partial, complete
    link,         \* the target of current, 0 when there is no link
    builder,      \* where each builder is
    buildLeft

buildVars == <<config, buildRows, dirs, link, builder, buildLeft>>

Ids == 1 .. 5
Idle == [pc |-> "idle", sum |-> 0, id |-> 0, skip |-> FALSE]

BuildInit ==
    /\ config = 1
    /\ buildRows = [i \in Ids |-> [status |-> "none", sum |-> 0, dir |-> FALSE]]
    /\ dirs = [i \in Ids |-> "none"]
    /\ link = NoLink
    /\ builder = [b \in Builders |-> Idle]
    /\ buildLeft \in BuildBudgets

Pays(k) == buildLeft[k] > 0 /\ buildLeft' = [buildLeft EXCEPT ![k] = @ - 1]
At(b, pc) == builder[b].pc = pc
To(b, pc) == builder' = [builder EXCEPT ![b].pc = pc]
IsDir(i) == i # NoLink /\ dirs[i] # "none"

\* An operator, a module upgrade or the environment changes what is resolved.
ConfigChanges ==
    /\ Pays("config")
    /\ \E c \in 1 .. 2 : c # config /\ config' = c
    /\ UNCHANGED <<buildRows, dirs, link, builder>>

-----------------------------------------------------------------------------
(* execute_build *)

\* The checksum of everything the view resolves to: config, skills, strategies.
ResolveView(b) ==
    /\ At(b, "idle") /\ Pays("builds")
    /\ builder' = [builder EXCEPT ![b] = [Idle EXCEPT !.pc = "lookup", !.sum = config]]
    /\ UNCHANGED <<config, buildRows, dirs, link>>

\* Faulty: any row of this checksum counts, also one whose build never finished.
ExistingAny(sum) == {i \in Ids : buildRows[i].sum = sum /\ buildRows[i].status # "none" /\ buildRows[i].dir}

\* SELECT ... status = 'ready'
Existing(sum) == {i \in Ids : buildRows[i].sum = sum /\ buildRows[i].status = "ready"}

\* An identical build whose dir is there is taken; else, or when forced, it is retired and
\* its dir removed, and a new one is made.
Lookup(b) ==
    /\ At(b, "lookup")
    /\ \/ \E i \in Existing(builder[b].sum) :
            /\ b \notin Forcing /\ IsDir(i)
            /\ builder' = [builder EXCEPT ![b].pc = "relink", ![b].id = i, ![b].skip = TRUE]
            /\ UNCHANGED <<buildRows, dirs>>
       \/ \E i \in Existing(builder[b].sum) :
            /\ b \in Forcing \/ ~IsDir(i)
            /\ dirs' = [dirs EXCEPT ![i] = "none"]
            /\ buildRows' = [buildRows EXCEPT ![i].status = "failed"]
            /\ To(b, "insert")
       \/ /\ Existing(builder[b].sum) = {}
          /\ To(b, "insert")
          /\ UNCHANGED <<buildRows, dirs>>
    /\ UNCHANGED <<config, link, buildLeft>>

\* The skip path: current is left when it points there, else unlinked and made again.
Relink(b) ==
    /\ At(b, "relink")
    /\ To(b, IF link = builder[b].id THEN "built" ELSE "unlink")
    /\ UNCHANGED <<config, buildRows, dirs, link, buildLeft>>

\* INSERT ... 'building', then its build_dir.
InsertRow(b) ==
    /\ At(b, "insert")
    /\ \E i \in Ids :
         /\ buildRows[i].status = "none" /\ \A j \in Ids : j < i => buildRows[j].status # "none"
         /\ buildRows' = [buildRows EXCEPT ![i] = [status |-> "building", sum |-> builder[b].sum, dir |-> FALSE]]
         /\ builder' = [builder EXCEPT ![b].pc = "mkdir", ![b].id = i]
    /\ UNCHANGED <<config, dirs, link, buildLeft>>

MakeDir(b) ==
    /\ At(b, "mkdir")
    /\ buildRows' = [buildRows EXCEPT ![builder[b].id].dir = TRUE]
    /\ dirs' = [dirs EXCEPT ![builder[b].id] = "partial"]
    /\ To(b, "write")
    /\ UNCHANGED <<config, link, buildLeft>>

\* Theme, harness config, instruction files, module workspaces and skills, the layers of the
\* workspace and of the view over those of the installation; or an exception on the way.
WriteLayers(b) ==
    /\ At(b, "write")
    /\ \/ To(b, "home") /\ UNCHANGED buildLeft
       \/ Pays("fail") /\ To(b, "failed")
    /\ UNCHANGED <<config, buildRows, dirs, link>>

\* Git identity, persistent paths and, if there is one to be had, the credential.
WriteBuild(b) ==
    /\ At(b, "home")
    /\ \/ /\ dirs' = [dirs EXCEPT ![builder[b].id] = "complete"]
          /\ To(b, "ready") /\ UNCHANGED buildLeft
       \/ Pays("fail") /\ To(b, "failed") /\ UNCHANGED dirs
    /\ UNCHANGED <<config, buildRows, link>>

MarkReady(b) ==
    /\ At(b, "ready")
    /\ buildRows' = [buildRows EXCEPT ![builder[b].id].status = "ready"]
    /\ To(b, "unlink")
    /\ UNCHANGED <<config, dirs, link, buildLeft>>

\* unlink and then symlink_to: between the two there is no link, and a builder that saw the
\* link another one has just removed gets an error.
Unlink(b) ==
    /\ At(b, "unlink")
    /\ \/ link' = NoLink /\ To(b, "symlink")
       \/ /\ link = NoLink /\ \E c \in Builders \ {b} : At(c, "symlink")
          /\ UNCHANGED link /\ To(b, "failed")
    /\ UNCHANGED <<config, buildRows, dirs, buildLeft>>

\* A link that another builder made meanwhile is an error.  The skip path prunes nothing.
Symlink(b) ==
    /\ At(b, "symlink")
    /\ \/ link = NoLink /\ link' = builder[b].id /\ To(b, IF builder[b].skip THEN "built" ELSE "gc")
       \/ link # NoLink /\ UNCHANGED link /\ To(b, "failed")
    /\ UNCHANGED <<config, buildRows, dirs, buildLeft>>

\* gc_old_builds: the newest dirs by id stay, and this builder's own.  Assumed: no build is so
\* slow that MaxBuilds newer ones end before it has written its own dir.
Gc(b) ==
    LET there == {i \in Ids : dirs[i] # "none"}
        keep  == {i \in there : Cardinality({j \in there : j > i}) < MaxBuilds} \cup {builder[b].id}
    IN  /\ At(b, "gc")
        /\ \A c \in Builders : At(c, "write") \/ At(c, "home") => builder[c].id \in keep
        /\ dirs' = [i \in Ids |-> IF i \in there \ keep THEN "none" ELSE dirs[i]]
        /\ To(b, "built")
        /\ UNCHANGED <<config, buildRows, link, buildLeft>>

\* The exception: a new build's row is failed, ready or not; the error reaches the run.
Failed(b) ==
    /\ At(b, "failed")
    /\ buildRows' = [buildRows EXCEPT ![builder[b].id].status = IF builder[b].skip THEN @ ELSE "failed"]
    /\ To(b, "idle")
    /\ UNCHANGED <<config, dirs, link, buildLeft>>

\* The process dies: a row that is building stays so, a dir stays partial.
BuilderDies(b) ==
    /\ builder[b].pc \notin {"idle", "ran"}
    /\ Pays("crash")
    /\ To(b, "idle")
    /\ UNCHANGED <<config, buildRows, dirs, link>>

-----------------------------------------------------------------------------
(* materialize_run_workspace, after the check *)

\* get_current_build_dir and copy_build_to_artifacts_dir; without a build the harness
\* prepares the run dir by itself.
UseBuild(b) ==
    /\ At(b, "built")
    /\ To(b, IF b \in Forcing THEN "idle" ELSE "ran")
    /\ UNCHANGED <<config, buildRows, dirs, link, buildLeft>>

RunOver(b) ==
    /\ At(b, "ran")
    /\ builder' = [builder EXCEPT ![b] = Idle]
    /\ UNCHANGED <<config, buildRows, dirs, link, buildLeft>>

BuildNext ==
    \/ ConfigChanges
    \/ \E b \in Builders : \/ ResolveView(b) \/ Lookup(b) \/ Relink(b) \/ InsertRow(b) \/ MakeDir(b)
                           \/ WriteLayers(b) \/ WriteBuild(b) \/ MarkReady(b) \/ Unlink(b) \/ Symlink(b) \/ Gc(b)
                           \/ Failed(b) \/ BuilderDies(b) \/ UseBuild(b) \/ RunOver(b)

BuildSpec == BuildInit /\ [][BuildNext]_buildVars

-----------------------------------------------------------------------------
(* Properties *)

\* No run is made from a half-written workspace: what current names was written to the end
\* or is gone, whichever builders failed or died, and however their steps interleave.
CompleteWhenLinked == IsDir(link) => dirs[link] = "complete"

=============================================================================
