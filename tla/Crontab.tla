------------------------------- MODULE Crontab -------------------------------
(***************************************************************************)
(* Recurring Jira tasks on their way to cron: jira:periodic:sync writes    *)
(* what Jira lists into the schedule table (jira_periodic_tasks/src), and  *)
(* a renderer that root's crontab starts every minute rewrites that        *)
(* crontab from the installed modules and the table                        *)
(* (docker/cron/install-crontab.py).  Neither waits for another one of its *)
(* kind, but for the lock dir of the sync (framework/lock.py).             *)
(***************************************************************************)
EXTENDS FiniteSets, Integers

CONSTANTS
    Views, Issues,
    Misfits,      \* issues whose frequency maps to a schedule cron would reject
    Mods,         \* installed modules with a cron.json
    SyncMod,      \* jira_periodic_tasks, whose line starts the sync
    Renderers, Syncers,
    MaxResults,   \* the page that jira_search asks for
    CronBudgets   \* bounds on changes, outages, deaths, slow syncs, overlaps of two runs, restarts

NoView == "no view"
ASSUME ResultsAssumption == MaxResults \in Nat /\ IsFiniteSet(Issues) /\ Cardinality(Issues) <= MaxResults
ASSUME ViewsAssumption == NoView \notin Views

VARIABLES
    due,          \* the issues with a known frequency that Jira lists for each view
    view,         \* agent_view rows: active, and whether Jira is enabled for it
    rows,         \* the enabled rows of schedule, by view; those of deleted views have none
    manifest,     \* each module's cron.json: valid or malformed
    crontab,      \* root's crontab, a set of lines
    renderer, syncer,
    lock,         \* the lock dir: free, held, old (held for longer than stale_seconds)
    steady,       \* the tasks that were to run ever since cron's start
    cronLeft

cronVars == <<due, view, rows, manifest, crontab, renderer, syncer, lock, steady, cronLeft>>

Self == <<"self">>
ModLine(m) == <<"module", m>>
Task(v, i) == <<"task", v, i>>

\* _validate_schedule: a line that cron rejects would take the whole crontab with it.
Sound(i) == i \notin Misfits

\* Faulty: the renderer leaves its own line to the entrypoint.
ModLinesAlone == {ModLine(m) : m \in {n \in Mods : manifest[n] = "valid"}}

\* _framework_jobs and _module_jobs: a malformed source drops out by itself.
ModLines == {Self} \cup {ModLine(m) : m \in {n \in Mods : manifest[n] = "valid"}}

\* _schedule_jobs: the rows of the active views; without one, those of no view.
TaskLines ==
    LET active == {v \in Views : view[v].active}
    IN  {Task(p[1], p[2]) : p \in {q \in (IF active = {} THEN {NoView} ELSE active) \X Issues :
                                      q[2] \in rows[q[1]] /\ Sound(q[2])}}

Listed(v, i) == view[v].active /\ view[v].jira /\ i \in due[v] /\ i \notin Misfits

NotRendering == [pc |-> "off", lines |-> {}]
NotSyncing   == [pc |-> "off", todo |-> {}, at |-> NoView, found |-> {}]

CronInit ==
    /\ due \in [Views -> SUBSET Issues]
    /\ view \in [Views -> [active : BOOLEAN, jira : BOOLEAN]]
    /\ rows = [v \in Views \cup {NoView} |-> IF v = NoView THEN {} ELSE due[v]]
    /\ manifest \in [Mods -> {"valid", "malformed"}]
    /\ crontab = ModLines \cup TaskLines
    /\ renderer = [r \in Renderers |-> NotRendering]
    /\ syncer = [s \in Syncers |-> NotSyncing]
    /\ lock = "free"
    /\ steady = {p \in Views \X Issues : Listed(p[1], p[2])}
    /\ cronLeft \in CronBudgets

Spends(k) == cronLeft[k] > 0 /\ cronLeft' = [cronLeft EXCEPT ![k] = @ - 1]
StillSteady == steady' = {p \in steady : Listed(p[1], p[2])'}

-----------------------------------------------------------------------------
(* What people change *)

IssueChanges(v, i) ==
    /\ Spends("jira")
    /\ due' = [due EXCEPT ![v] = IF i \in @ THEN @ \ {i} ELSE @ \cup {i}]
    /\ UNCHANGED <<view, rows, manifest, crontab, renderer, syncer, lock>>
    /\ StillSteady

ViewChanges(v) ==
    /\ Spends("view")
    /\ view' \in {[view EXCEPT ![v].active = ~@], [view EXCEPT ![v].jira = ~@]}
    /\ UNCHANGED <<due, rows, manifest, crontab, renderer, syncer, lock>>
    /\ StillSteady

ManifestChanges(m) ==
    /\ Spends("manifest")
    /\ manifest' = [manifest EXCEPT ![m] = IF @ = "valid" THEN "malformed" ELSE "valid"]
    /\ UNCHANGED <<due, view, rows, crontab, renderer, syncer, lock, steady>>

-----------------------------------------------------------------------------
(* install-crontab.py *)

\* Cron's minute: the crontab's own line starts a renderer, also beside one that is slow.
RenderStarts(r) ==
    /\ renderer[r].pc = "off" /\ Self \in crontab
    /\ IF \E n \in Renderers : renderer[n].pc # "off" THEN Spends("overlap") ELSE UNCHANGED cronLeft
    /\ renderer' = [renderer EXCEPT ![r].pc = "modules"]
    /\ UNCHANGED <<due, view, rows, manifest, crontab, syncer, lock, steady>>

RenderReadsModules(r) ==
    /\ renderer[r].pc = "modules"
    /\ renderer' = [renderer EXCEPT ![r] = [pc |-> "schedule", lines |-> ModLines]]
    /\ UNCHANGED <<due, view, rows, manifest, crontab, syncer, lock, steady, cronLeft>>

RenderReadsSchedule(r) ==
    /\ renderer[r].pc = "schedule"
    /\ renderer' = [renderer EXCEPT ![r].pc = "compare", ![r].lines = @ \cup TaskLines]
    /\ UNCHANGED <<due, view, rows, manifest, crontab, syncer, lock, steady, cronLeft>>

\* Faulty: an unreachable source counts as one that has no jobs.
RenderSkipsSource(r) ==
    /\ renderer[r].pc \in {"modules", "schedule"} /\ Spends("outage")
    /\ renderer' = [renderer EXCEPT ![r].pc = "compare", ![r].lines = @ \cup {Self}]
    /\ UNCHANGED <<due, view, rows, manifest, crontab, syncer, lock, steady>>

\* OperationalError, from a schedule's directive or from the table: nothing is rendered.
RenderFails(r) ==
    /\ renderer[r].pc \in {"modules", "schedule"} /\ Spends("outage")
    /\ renderer' = [renderer EXCEPT ![r] = NotRendering]
    /\ UNCHANGED <<due, view, rows, manifest, crontab, syncer, lock, steady>>

RenderCompares(r) ==
    /\ renderer[r].pc = "compare"
    /\ renderer' = [renderer EXCEPT ![r] = IF @.lines = crontab THEN NotRendering ELSE [@ EXCEPT !.pc = "install"]]
    /\ UNCHANGED <<due, view, rows, manifest, crontab, syncer, lock, steady, cronLeft>>

\* crontab -: it takes the file as a whole, or none of it when one line is malformed.
RenderInstalls(r) ==
    /\ renderer[r].pc = "install"
    /\ crontab' = IF \E v \in Views \cup {NoView}, i \in Misfits : Task(v, i) \in renderer[r].lines
                  THEN crontab ELSE renderer[r].lines
    /\ renderer' = [renderer EXCEPT ![r] = NotRendering]
    /\ UNCHANGED <<due, view, rows, manifest, syncer, lock, steady, cronLeft>>

-----------------------------------------------------------------------------
(* jira:periodic:sync *)

\* The views are listed before the lock is asked for.
SyncStarts(s) ==
    /\ syncer[s].pc = "off" /\ ModLine(SyncMod) \in crontab
    /\ IF \E n \in Syncers : syncer[n].pc # "off" THEN Spends("overlap") ELSE UNCHANGED cronLeft
    /\ syncer' = [syncer EXCEPT ![s] = [NotSyncing EXCEPT !.pc = "lock", !.todo = {v \in Views : view[v].active}]]
    /\ UNCHANGED <<due, view, rows, manifest, crontab, renderer, lock, steady>>

\* FileLock.__enter__: mkdir; a dir that is too old is removed first, a younger one turns it away.
TakeLock(s) ==
    /\ syncer[s].pc = "lock"
    /\ lock' = IF lock = "free" THEN "held" ELSE lock
    /\ syncer' = [syncer EXCEPT ![s] = CASE lock = "free" -> [@ EXCEPT !.pc = "views"]
                                         [] lock = "held" -> NotSyncing
                                         [] lock = "old"  -> [@ EXCEPT !.pc = "steal"]]
    /\ UNCHANGED <<due, view, rows, manifest, crontab, renderer, steady, cronLeft>>

\* rmtree of a dir that is gone by now raises; whoever holds a dir made meanwhile loses it.
RemoveOldLock(s) ==
    /\ syncer[s].pc = "steal"
    /\ lock' = "free"
    /\ syncer' = [syncer EXCEPT ![s] = IF lock = "free" THEN NotSyncing ELSE [@ EXCEPT !.pc = "again"]]
    /\ UNCHANGED <<due, view, rows, manifest, crontab, renderer, steady, cronLeft>>

MakeLockAgain(s) ==
    /\ syncer[s].pc = "again"
    /\ lock' = IF lock = "free" THEN "held" ELSE lock
    /\ syncer' = [syncer EXCEPT ![s] = IF lock = "free" THEN [@ EXCEPT !.pc = "views"] ELSE NotSyncing]
    /\ UNCHANGED <<due, view, rows, manifest, crontab, renderer, steady, cronLeft>>

\* Its exception is logged; the loop goes on with the next view.
SearchFails(s, v) ==
    /\ Spends("outage")
    /\ syncer' = [syncer EXCEPT ![s].todo = @ \ {v}]

\* What max_results lets through, in an order nobody asked for.
Page(issues) ==
    {p \in SUBSET issues : p = issues \/ Cardinality(p) = MaxResults} \ {p \in {issues} : Cardinality(p) > MaxResults}

\* One view: skipped when Jira is off for it, else a page of its issues.
SearchJira(s, v) ==
    /\ syncer[s].pc = "views" /\ v \in syncer[s].todo
    /\ \/ ~view[v].jira /\ syncer' = [syncer EXCEPT ![s].todo = @ \ {v}] /\ UNCHANGED cronLeft
       \/ /\ view[v].jira
          /\ \E found \in Page(due[v]) :
               syncer' = [syncer EXCEPT ![s] = [@ EXCEPT !.pc = "write", !.at = v, !.found = found]]
          /\ UNCHANGED cronLeft
       \/ view[v].jira /\ SearchFails(s, v)
    /\ UNCHANGED <<due, view, rows, manifest, crontab, renderer, lock, steady>>

\* _upsert_schedules: what was found is enabled and every other row of the view is not, in one
\* transaction that rolls back when it fails.
UpsertSchedules(s) ==
    /\ syncer[s].pc = "write"
    /\ \/ rows' = [rows EXCEPT ![syncer[s].at] = syncer[s].found] /\ UNCHANGED cronLeft
       \/ Spends("outage") /\ UNCHANGED rows
    /\ syncer' = [syncer EXCEPT ![s].pc = "views", ![s].todo = @ \ {syncer[s].at}]
    /\ UNCHANGED <<due, view, manifest, crontab, renderer, lock, steady>>

\* FileLock.__exit__ removes the dir, whoever made it.  With no active view the sync exits at once.
SyncEnds(s) ==
    /\ syncer[s].pc = "views" /\ syncer[s].todo = {}
    /\ lock' = "free"
    /\ syncer' = [syncer EXCEPT ![s] = NotSyncing]
    /\ UNCHANGED <<due, view, rows, manifest, crontab, renderer, steady, cronLeft>>

SyncDies(s) ==
    /\ syncer[s].pc # "off" /\ Spends("death")
    /\ syncer' = [syncer EXCEPT ![s] = NotSyncing]
    /\ UNCHANGED <<due, view, rows, manifest, crontab, renderer, lock, steady>>

LockAges ==
    /\ lock = "held" /\ lock' = "old"
    /\ IF \E s \in Syncers : syncer[s].pc \in {"views", "write"} THEN Spends("slow") ELSE UNCHANGED cronLeft
    /\ UNCHANGED <<due, view, rows, manifest, crontab, renderer, syncer, steady>>

\* entrypoint.sh: all processes are gone and the crontab has the renderer's line only; /tmp
\* stays, or the container is a new one.
CronRestarts ==
    /\ Spends("restart")
    /\ crontab' = {Self}
    /\ renderer' = [r \in Renderers |-> NotRendering]
    /\ syncer' = [s \in Syncers |-> NotSyncing]
    /\ lock' \in {lock, "free"}
    /\ steady' = {}
    /\ UNCHANGED <<due, view, rows, manifest>>

-----------------------------------------------------------------------------
Rendering(r) ==
    \/ RenderStarts(r) \/ RenderReadsModules(r) \/ RenderReadsSchedule(r) \/ RenderFails(r)
    \/ RenderCompares(r) \/ RenderInstalls(r)

Syncing(s) ==
    \/ SyncStarts(s) \/ TakeLock(s) \/ RemoveOldLock(s) \/ MakeLockAgain(s)
    \/ \E v \in Views : SearchJira(s, v)
    \/ UpsertSchedules(s) \/ SyncEnds(s)

CronNext ==
    \/ \E v \in Views : ViewChanges(v) \/ \E i \in Issues : IssueChanges(v, i)
    \/ \E m \in Mods : ManifestChanges(m)
    \/ \E r \in Renderers : Rendering(r)
    \/ \E s \in Syncers : Syncing(s) \/ SyncDies(s)
    \/ LockAges \/ CronRestarts

\* Cron starts what its lines say, a process goes on, and time passes.
CronFairness ==
    /\ \A r \in Renderers : WF_cronVars(Rendering(r))
    /\ \A s \in Syncers : WF_cronVars(Syncing(s))
    /\ WF_cronVars(LockAges)

CronSpec == CronInit /\ [][CronNext]_cronVars
FairCronSpec == CronSpec /\ CronFairness

-----------------------------------------------------------------------------
(* Properties *)

\* A task that nobody changed keeps its line: no outage, failed sync, lost lock, stale renderer
\* or malformed neighbour takes it out of the crontab (install-crontab.py:10-13, sync.py:126-184).
SteadyTaskStays == \A p \in steady : Task(p[1], p[2]) \in crontab

\* Once nobody changes anything more, root's crontab has the tasks that Jira lists, and no others
\* of the views it was asked about, as long as the module that syncs them is sound.
CrontabFollows ==
    <>[](manifest[SyncMod] = "valid" =>
           \A v \in Views, i \in Issues :
              view[v].active /\ view[v].jira => (Task(v, i) \in crontab <=> Listed(v, i)))

=============================================================================
