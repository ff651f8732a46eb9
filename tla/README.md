# Verification of ipac_delta_sync

TLA+ models of the operational core of this repository, model-checked with TLC
and, for the properties that matter most, proved with TLAPS. Paths are relative
to the repository root; `ops/` stands for `src/common/ops/`.

## 1. The system

The repository keeps client databases on SQL Server in step with Delta tables
on Databricks. Lakeflow Connect pipelines (external) do the copying; the code
here decides which tables go into which pipeline, prepares the source, watches
the pipelines, restarts them, and tells the downstream tax calculation when a
database has been ingested completely.

| Component | Where | State it keeps | Operations | Interacts with | Modelled |
|---|---|---|---|---|---|
| Ingestion recon job | `ops/ingestion_recon_ops.py`, `ops/sql_server_audit_store.py`, notebook `run_ingestion_recon.py` | in memory: verified caches, batch-detected times | one endless loop of polls, a poll being a sequence of remote calls | source CT (reads), Delta (counts, histories), recon stores (read/write) | `IngestRecon`, `ReconGate` |
| Recon stores | `ops/sql_server_audit_store.py`, `ops/recon_store.py`, `sql_server/sql/002` | `ct_table_watermark`, `ct_db_watermark`, `recon_event_log_watermark`, `ingestion_audit_log`, `recon_table_result`, Delta `recon_ready`, `lakeflow_flow_metrics`, `lakeflow_flow_summary` | upserts, appends, reads | the recon jobs write, the calc reads `recon_ready` | partly, in the modules of their users |
| Source and pipelines | external (`ops/source_ct_direct.py` reads them) | tables, CT versions, commit times; Delta tables and histories; updates and their event log | commit, read, MERGE, update | read by the recon jobs | as far as the code reads them |
| Legacy event-log recon | `run_pipeline_recon`, `ops/lakeflow_event_ops.py`, `ops/recon_store.py` | event-log watermark, flow metrics and summaries | poll events, add up flows, compare with CT, record | API, event log, source CT, recon stores | `FlowRecon`, `EventFeed` |
| Heartbeat monitor, restart job | `ops/pipeline_job_ops.py`, `ops/process_log_store.py` | Delta `process_log` | monitor: poll every pipeline, append its state; restart: read the log, start an update | pipelines API, each other through `process_log` | `PipelineOps` |
| Table resolution, pipeline split | `src/util/resolver.py`, `src/util/pipeline_generator.py`, `src/util/models.py` | none (pure) | merge common tables, overrides and extras; chunk into pipelines | feed the bundle and the recon contexts | `TableSelection` |
| Generation | `src/util/cli.py` and the writers it calls | the tree a deploy copies: bundle, schemas, registry of names, SQL scripts | clean, then write client after client | configuration files; the jobs read the registry | `Generate` |
| Source setup scripts | `src/util/sql_generator.py` (generated SQL) | CT and permissions of a client database | enable CT, grant for CT, grant for CDC, report | run by an administrator; the recon job reads CT | `SourceSetup` |
| Configuration, names | `src/util/config_loader.py`, `bundle_config.py`, `ops/pipeline_names.py` | files | load, validate, normalise | generation, jobs | partly, in `Generate` |
| Baseline script | `sql_server/sql/006_baseline_ct_watermarks.sql` | the watermarks | MERGE every watermark to the current head | the recon job | as `Init` of `IngestRecon` |
| Alerts, setup, test-data notebooks | `ops/alert_ops.py`, `ops/uc_schema_ops.py`, ... | none | one-shot I/O | developers | no |

### What is hard

* A poll of the recon job reads six things from three systems, one after
  another, while the source commits and the pipelines merge; it then writes to
  two systems that share no transaction. Every boundary between two calls is a
  place where the world moves or the job dies.
* Calls fail one at a time and most failures are swallowed (a warning and a
  default value). The models have each of them (`Calls`).
* The job is restarted by the platform with empty caches; what must survive has
  to be on disk.
* A batch may be larger than what one poll counts, so progress is carried from
  poll to poll in caches keyed by the CT head, which itself moves.
* The event-log recon reads a log past a watermark that is coarser than the
  events' times, of updates that end and start between two polls.
* Monitor and restart job share a log whose order is given by timestamps taken
  before the rows are written; either may hide what the other has seen.
* The timestamp rule for delta-ts tables infers *content* from *times*.
* A generate run is a sequence of removals and writes that may stop anywhere;
  four other programs rely on what files say about each other.
* The setup scripts skip what they cannot do, without an error, while the
  schema under them changes.

The full list, each at its line, is `hazards` in `PROJECT.json`.

### What makes each component correct

* Recon: a `recon_ready` row means its database is in Delta up to the row's CT
  head; no change is forgotten; one row per head; every batch is eventually
  published.
* Event-log recon: no event is skipped, no flow is recorded twice, every
  completed flow is judged.
* Stores: watermarks and rows agree, whatever crashes; audited facts stay.
* Monitor/restart: a failed pipeline is restarted, a logged failure stays
  visible until it is answered, no pipeline keeps the others from it.
* Resolution/split: the tables are those the files declare, each in exactly one
  pipeline.
* Generation: at no moment does a file refer to another that is not there; what
  is deployed is registered, prepared on the source and waited for.
* Setup scripts: what was prepared can be read by the recon job, and the report
  says so if and only if it is true.

## 2. Modules

| Module | Content |
|---|---|
| `IngestRecon` | the recon job with source, pipelines and stores; the properties |
| `IngestReconInv`, `IngestRecon_proofs` | its inductive invariants, as conjunctions of named parts; the theorems |
| `ReconGate` | what the job promises to the calc, without any of the means |
| `ReconGate_proofs` | what follows from the promise alone |
| `IngestReconRefines`, `IngestReconRefines_proofs` | the refinement mapping (`INSTANCE ReconGate WITH ...`); that the job implements the promise |
| `FlowRecon`, `FlowReconInv`, `FlowRecon_proofs` | the event-log recon of one pipeline, its invariants and theorems |
| `EventFeed`, `FlowReconRefines` | what that recon promises to those who read its tables; the refinement mapping and the invariant it adds |
| `PipelineOps`, `PipelineOps_proofs` | heartbeat monitor, restart job, `process_log`, the pipelines API; invariant and theorems |
| `TableSelection`, `TableSelection_proofs` | resolution and split as operators, and what the files declare; that the one computes the other |
| `Generate`, `GenerateInv`, `Generate_proofs` | `ipac-delta-sync generate`, the tree, what the jobs find in it; two invariants and the theorems |
| `SourceSetup`, `SourceSetup_proofs` | the generated SQL scripts against a changing schema; invariant and theorems |
| `MC...` | finite instances for TLC |

`Generate` uses `TableSelection` twice, as the code does: when it writes the
pipelines and when the recon job looks for its tables.

A definition `Name_Variant` that stands before `Name` is a faulty form of it, as
a bug in that code would make it; `mutants` in `PROJECT.json` says which property
of which run fails with it in the place of `Name`. Nothing else uses these.

### IngestRecon

One client database. `poll` and `pc` are the locals and the next call of a
poll; `verified` and `batch` are the job's memory; `wm`, `wmAt`, `dbwm`,
`detected`, `claimed` are the SQL Server tables and `ready` is `recon_ready`.
Each remote call is an action:

| Action | Code |
|---|---|
| `ReadHead`, `ReadWatermarks`, `CountChanges`, `ReadCommitTimes` | the four queries of `discover_pending_ct_tables` |
| `MarkBatch` | `mark_batch_detected` and, on another connection, the rest of the poll |
| `ReadSqlCounts` | sample selection and the `COUNT(*)` UNION |
| `ReadDelta(t)` | one `DESCRIBE HISTORY` or one Delta count of `prefetch_ct_delta_parallel` (sequential in spite of its name) |
| `ReadDbWatermark`, `Evaluate`, `CheckRecorded`, `WriteReady`, `AdvanceTable(t)`, `AdvanceDb` | the rest of `run_simplified_pipeline_recon`, in its order |
| `Crash` | an exception out of the poll, or the cluster going away, then the restart of the continuous job |
| `Commit`, `Tick`, `IngestRead`, `IngestMerge` | the source, the clock, the pipelines (external) |

Abstractions, all of them on data:

* A table is, per key, the version that changed it last, and the set of keys
  holding a row. What a row contains is not needed: Delta has a change when it
  carries the version. For delta-ts tables presence does not matter to the
  code, so it is fixed; for counted tables MERGE times do not matter, so they
  are not kept.
* One clock for SQL Server, Delta and the job, and marking a batch is one step
  (the code takes the driver's time for the first poll and the server's
  `recorded_at` later, milliseconds apart).
* `Lag` bounds the delay between the pipeline's read of a table and the
  timestamp of its MERGE. The code bounds it nowhere; it is the assumption
  under which the timestamp rule means anything, so it is a constant, and the
  theorems say `Lag < Quiesce`.
* `recon_run`, messages and the metrics columns are left out; of
  `recon_table_result` only `watermark_advanced` is kept (`claimed`).
* A history that cannot be read, or shows no write, gives way to other times of the
  table (`lastModified`, `last_altered`), which maintenance moves: the fault
  `"history"` of `ReadDelta` takes any time up to now. The fault `"deltaRead"` is all
  of these reads failing, twice.

`doubted` is a history variable: the delta-ts tables that ever passed on a time that
stands in for the one the rule is about, that of the commit or that of the MERGE.
`Trusted` are the others. Nothing can be said of a doubted table; that a doubted table
does the others no harm can, and is.

Bounds: `MaxVersion`, `MaxTime`, `MaxCrashes`, `MaxFaults`, each in one guard.

### ReconGate

The promise: `Publish` a head with a list of tables, allowed only when Delta
holds every change of the gated tables up to that head and every other table has
been confirmed that far; `Confirm` a table up to a published head, never
backwards; `ConfirmDb` once the tables of the batch are confirmed; `Doubt` a table, which
ends the promise for it alone and for good. There are no
polls, times, counts, caches, faults or crashes in it. `IngestReconRefines` maps
`src` and `dst` to the versions each key carries, `ready` to the published
batches, `wm` and `dbwm` to what is confirmed; the gated tables are the delta-ts
ones (the counted ones are a finding). Of the job's actions `WriteReady`,
`AdvanceTable` and `AdvanceDb` map to the first three and an `Evaluate` in which a table
passes on a stand-in time to `Doubt`; all others stutter.

### FlowRecon

The other mode of the same function, `run_all_pipeline_recon` with
`simplified_recon` false, which is the parameter's default: one pipeline, the SQL
Server audit on.

| Action | Code |
|---|---|
| `StartPoll` | connection, watermark rows, `GET /pipelines/{id}`, `pipeline_needs_event_log_poll` |
| `ReadEvents` | `fetch_flow_progress_rows` and `_watermark_from_rows_and_api` |
| `MergeMetrics`, `OpenAudit`, `TakeFlow`, `Baseline`, `BaselineDb`, `ReadCtHead`, `CountChanges`, `CountRaises` (one handler catches what any of the calls from `Baseline` on raises), `Evaluate`, `AdvanceTable`, `AdvanceDb`, `WriteReady`, `WriteProcessLog` | `run_pipeline_recon`, flow by flow, in its order |
| `FlushMark` | `flush_recon_event_log_watermarks_sql`, the last call of a poll |
| `Crash` | any failure that is not caught; the job starts again |
| `Commit`, `StartUpdate`, `BeginFlow`, `ReportRows`, `CompleteFlow`, `EndUpdate` | the source, the pipeline and its event log (external) |

Event times are finer than the whole seconds in which the watermark is stored:
a second has `TicksPerSecond` ticks, and `WholeSecond` is the conversion. No two
events of a pipeline have the same time. Left out: the 24 h lookback of a first
poll (the log is younger), the resolution of table names, the difference between
recon types 2 and 3 (both compare a sum with a CT count), the variant without the
SQL audit, and the tables that are written and never read (`recon_run`,
`recon_table_result`, audit rows).

### EventFeed

The promise of that recon: events are emitted in the order of their times and
merged; a flow is judged (`Judge`) only when it has completed and all its events are
merged; it is published (`Publish`) once, and only if it was judged to pass; a time is
noted as read (`Note`) only when every event up to it is merged and every flow that
completed up to it is judged. There are no polls, snapshots, counts, CT watermarks,
failures or crashes in it. The mapping takes `log`, `lakeflow_flow_metrics`,
`lakeflow_flow_summary`, `recon_ready` and the time of the stored watermark as they
are. Of `FlowRecon`'s actions `ReportRows` and `CompleteFlow` map to `Emit`,
`MergeMetrics` to `Merge`, `Evaluate` to `Judge`, `WriteReady` to `Publish`,
`FlushMark` to `Note`, all others to a stutter.

What is *not* promised shows in the judgement: `Judge` says nothing of the rows
summed, since a poll adds up only what it has read itself (run `flow_window`), and
nothing says that a flow which passed is published, since a crash in between loses
that for good.

### PipelineOps

Both jobs in the deployed mode: the monitor (`MonitorGet`, one per pipeline,
`MonitorStamp`, `MonitorAppend`) and the restart job (`ReadLog`, `StartLoop`,
`RestartGet`, `RestartPost` or `RestartRefused`, `RestartRow`, `EndLoop`), each
an endless loop that any call may end (`MonitorDies`, `RestartDies`; the jobs
are continuous). `Stop`, `Start` and `ChangePhase` are the pipelines.

`process_log` is read in one way only: the row with the highest `recorded_at`
of each pipeline. So the model keeps that row's status (`log`) and no clock.
Three kinds of times can still be compared, those of the latest rows and the
one each job has taken for the rows it has yet to append: `afterM` and `afterR`
hold the pipelines whose latest row is newer than the monitor's and the restart
job's time, `lastStamp` says which of the two is newer. The order is therefore
exact, for any number of polls, with finitely many states. It presumes one
clock; skew between the two drivers is a listed hazard.

"active" is any state of `ACTIVE_UPDATE_STATES`; "unlisted" is an update in
progress that the list leaves out (the API knows more phases than it names),
which the code takes for not active. The API refuses a second update: the code
skips active pipelines for that reason, and the refusal is modelled for those
it does not recognise and for those that started between its GET and its POST.
HEALTHY, UNHEALTHY, IDLE and RUNNING rows are one status, since the restart job
tells only failed rows apart. `fresh` and `known` are history variables.

### TableSelection and Generate

`TableSelection` is pure: `Resolve` folds the entries of `extra` over the common
tables, in the order of the file, as `resolve_effective_tables` does;
`CountBatches` and `ReconBatches` are the two splits. A table name is a number,
since only equality and order matter. `sorted(...)` followed by slicing is told by
`Rank`: the batch of a table follows from how many names come before its own. `Declared`, `DeclaredType` and `Ambiguous`
say independently, entry by entry, what the files mean. A row without
`recon_type` has its default 1 even for a snapshot table (`ReconTypeFor`): pydantic
runs the validator that makes those 2 only on fields that are present. `models.py:19`
says "Snapshot tables use recon_type 2", as do the recon notebook (`:8`) and, for rows
that state a type, `tests/test_resolver.py:71`. This is a disagreement of the code with
its documentation; the declaration takes no side and leaves the type of such rows open.

`Generate` is the command over a tree of files. Each removal and each file is a
step: `Start` (client.json and common_tables.json are read), `RemoveBundles`,
`RemoveSchemas`, `RemoveRegistry`, `RemoveStaleDirs` (the clean),
`ResolveVariables` (a bad bundle variable ends the run here, after the clean),
`WriteShared`, then per client `ResolveClient` (its overrides are read now),
`WriteSchema`, `WriteBundle`, `WriteScript` (four times), and `Finish`. `Abort` is
an exception the command does not catch, or Ctrl-C; `Edit` changes the
configuration at any moment. Runs may be full or for one client, with or without
the clean, or to stdout, and for any target. The properties are stated about the tree,
whatever its history, because a deploy copies the tree as it is.

A file that cannot be removed stays, with a warning, and the run goes on and may exit
with 0 (`_unlink_generated`): `Unlink` lets any of the files of a removal stay.
`undeleted` keeps the clients whose pipelines stayed, until they are removed or written
again, and the properties leave them out. It is no small print: without it TLC
refutes `SchemaOutlivesBundle`, `FullRunRegistersAll`, `SuccessIsComplete` and
`ScriptsMatchPipelines`.

The pipelines of a client depend on two schema resources, by keys. The client's is made
of its schema's name with the target's suffix, converted (`SchemaKey`); its file holds
the key of the run that wrote it last. Between `WriteSchema` and `WriteBundle` of a
`--no-clean` run with another suffix, the older pipelines depend on a key that nothing
defines: `rekeyed` keeps those clients, and `SchemaOutlivesBundle` leaves them out.
The metadata schema's resource is always `schema_ipac_metadata`, but the pipelines
depend on `schema_<name>` for the name the run was told. Any other name dangles from
the first run on (`cli.py:182`, `schema_generator.py:10`), so the property speaks of
files made for the usual one (`SharedKey`); both targets of `databricks.yml` have it.

The recon job's view of the tree is `RegisteredKeys`, `RegisteredClients`,
`KeysFor`, `Contexts` and `Watched`: names, then clients out of the names, then
pipelines by *contained* name (`NamePart`), then tables. Left out: the folders of
the scaffold, `--output-dir`, the job YAML and the `process_log` DDL (they do not
depend on the clients), and the text of every file.

### SourceSetup

The four generated scripts on one database: each is a session that walks the
listed tables with a cursor, one statement a step (`EnableTable`, `GrantCtTable`,
`GrantCdcTable`), and skips what is missing, has no key or is not tracked; they
may run together, again, and break off (`BreakOff`). Around them the application
creates and drops tables and adds keys, CDC captures tables, and `generate`
rewrites the list (`Rewrite`). `CanCount` is what the recon job needs:
`fetch_pending_ct_counts_batch` asks for all tables in one statement, so one
unreadable table fails it for all. Nobody in this repository reads what the CDC
script prepares, so no property is about it. `undisturbed` and `done` are history
variables: the scripts that have run through with nothing changing under them.

## 3. Properties and runs

| Property | Says |
|---|---|
| `IngestRecon!GateSound` | a `recon_ready` row for head *h* implies that every trusted delta-ts table holds every change up to *h*, listed or not |
| `ConfirmedIngested` | no watermark of a trusted table passes a change Delta lacks |
| `NothingUnlisted` | a row's head covers no unconfirmed change of a table it does not list |
| `WatermarksPublished` | watermarks stand only at heads of published rows |
| `OneReadyPerHead` | one row per head |
| `MergedAfterChange` | a batch passes only if the last MERGE of each of its trusted tables lies at least `Quiesce` after each of its changes |
| `DetectedOnce` (action) | the audited detection time never changes, and every row carries it |
| `ImplementsGate` (refinement) | every step is one of `ReconGate` or a stutter |
| `EventuallyReconciled` (liveness) | once every pending table stays ready, the job confirms them all |
| `FlowRecon!NothingSkipped` | every event at or below the stored watermark is merged, and its flow judged if it completed |
| `OneReadyPerFlow` | one row per flow and update |
| `EventuallyEvaluated` (liveness) | every completed flow is judged |
| `ImplementsFeed` (refinement) | every step is one of `EventFeed` or a stutter |
| `PipelineOps!FailureStaysVisible` | a failure the monitor saw after a pipeline's last restart, and logged, is its latest row until the next restart or its recovery |
| `EventuallyRestarted` (liveness) | once the pipelines are left alone, each failed one gets an update |
| `Generate!SchemaOutlivesBundle` | at every moment, the schema resources a pipeline file refers to are in the tree, but for files that stayed, clients being renamed and other names of the metadata schema |
| `RegisteredExists` | after a run that was not cut short, registered names are those of pipelines |
| `FullRunRegistersAll` | after a full run, also one with errors, every pipeline is registered, but for those in files that stayed |
| `SuccessIsComplete` | exit code 0, and no edit since the run began, mean pipelines for exactly the active clients, but for files that stayed |
| `PipelinesDisjoint` | no table in two pipelines of a client, no empty pipeline |
| `ScriptsMatchPipelines` | the SQL scripts list exactly the tables the pipelines ingest, but for clients a run was cut short in and files that stayed |
| `ResolvedAsDeclared` | the resolution is what the files declare, as far as they do |
| `WatchesWhatIsIngested` | the recon job starts, and waits for exactly the tables the pipelines ingest |
| `SourceSetup!PreparedIsReadable` | enable, then grant, undisturbed: every listed table with a key can be counted |
| `ReportDecides` | from then on the report lists no problem exactly if the job's query works |
| `RetriesConverge` (liveness) | as long as both scripts keep being run, every such table ends up readable |
| `TypeOK`, one per module | types; in `PipelineOps` also `restart_limit`, in `SourceSetup` that tracking needs a key and a grant needs tracking |

| Run | Instance | Shows |
|---|---|---|
| `recon_safety` | one delta-ts and one counted table, one key, two versions, two ticks, a crash and a fault | all the safety properties and the refinement, with every failure the code is meant to survive |
| `recon_live` | one delta-ts and two counted tables, sample 1, a fault | both rules pass in one poll; the caches carry a batch over several |
| `recon_no_commit_time`, `recon_count`, `recon_claim` | smallest that shows it | findings below |
| `ops` | two pipelines, limit 1, a crash, a failed log read | the log under every interleaving of the jobs, the pipelines moving without bound; restarts with a limit below the number of failed pipelines |
| `ops_refused` | two pipelines, the first refused | a finding below |
| `flow` | one flow, two updates, one change, three event times of two a second, a fault or crash | skipping, double rows, the refinement and liveness across restarts |
| `flow_window` | two flows, no faults | a finding below |
| `generate` | two clients, the name of one within the other's; five tables, five configurations, two targets, batches of two, an edit, and an abort or a removal that fails | every property of the tree and of resolution |
| `generate_one` | the same with one configuration | a finding below |
| `source_setup` | two tables, two schema changes, one rewritten list, one break | every order of the scripts' statements and of what happens around them |

The bounds are enough for the interesting cases to happen. Two versions let a
row be re-changed between two calls of one poll, which is what the window
arithmetic must survive; two ticks with `Quiesce` 1 separate a MERGE before,
inside and after the buffer; one crash and one fault can fall anywhere. Three
event times, two to a second, put one event into the first second and two into the
next, so that a stored watermark lies below an event that was read. The configurations
of `generate` have extras that add, replace, withdraw, repeat and collide,
ignores that count and that do not, no common tables, nothing left, a file that
does not load, an inactive client and a bad bundle variable; no run meets itself,
but any number of runs follow each other, since only edits and faults are
bounded. The two targets differ in the suffix and in the name of the metadata schema. Two schema changes can undo and redo what a script has seen. `Lag` is 0
in the runs; a pipeline that needs time is covered by the theorems, which hold for
every `Lag < Quiesce`. That larger instances add nothing is what the theorems are
for.

### Findings

Six statements of the documentation that the code does not keep; each has a
run whose counterexample shows how.

* *"Buffer after SQL CT change before Delta write must occur"*
  (`RECONNREADME.md:238`): if only the commit-time query fails, the reference
  time becomes the watermark's update time and an older MERGE passes
  (`recon_no_commit_time`).
* *recon_type 2 compares upserted + deleted with CT I+U+D*
  (`RECONNREADME.md:85`, `:90`): the deployed rule compares row counts; an
  UPDATE passes before it is ingested (`recon_count`).
* *"On PASS, recon advances ct_table_watermark"* (`RECONNREADME.md:77`): after
  a crash between the append and the upserts, later polls of that head
  record PASS with `watermark_advanced = 1`, find the row, skip, and never
  advance (`recon_claim`). The next commit to the database heals it; until
  then the job repeats the batch in every poll.
* *"For each monitored pipeline with latest ingest status `FAILED` and no active
  pipeline update ... then calls the pipeline restart API"* (`README.md:233`): a
  refused request raises out of the loop and the job, and the next one starts
  with the same pipeline; those after it are never reached (`ops_refused`).
* *"The recon job sums upserted/deleted/output rows across all events for that
  (update_id, flow_name) window"* (`RECONNREADME.md:103`): only the rows of the
  poll that sees COMPLETED are summed; those an earlier poll has read are below the
  watermark (`flow_window`).
* *"`generated/config/pipeline_names.json` — list of generated pipeline names for
  heartbeat/restart jobs"* (`README.md:215`): after `generate --client` it lists
  that client's only (`generate_one`).

Two more were met while modelling and show without a run: a snapshot table without
`recon_type` gets 1 (`models.py:19` says 2), and a metadata schema of another name than
`ipac_metadata` leaves every pipeline with a dependency that nothing defines
(`cli.py:404` offers the name). Both are above and among the hazards.

`recon_safety` leaves exactly one call out of `MayFail`, the query for the recorded
row, after whose failure a second row of a head is appended; the theorem about the rows
carries the same assumption. The calls after which a stand-in time is used, the
commit-time query and the history, do fail in it: that is what `Trusted` is for. Without
it, one failed history is enough for TLC to refute `GateSound`, and one failed
commit-time query is the first finding. `flow` leaves out the query for the recorded
row, and the event query: after its failure the poll stores the API's
COMPLETED, and a pipeline that is quiet from then on is not asked again. Both are
listed hazards.

### Fairness

`IngestRecon` and `FlowRecon` assume `WF_vars(Recon)`: the recon process takes its
next step. The job is continuous, its loop has no exit and no call waits for
another actor, so this is what the scheduler gives. Nothing is assumed of the
source and the pipelines: `EventuallyReconciled` has their cooperation as its
premise (`<>[]Confirmable`: from some point on every pending table is in a state
that passes the code's rule), `EventuallyEvaluated` speaks of flows that have
completed. `recon_live` lets every call fail once except `writeAck`: an append that
commits unseen leaves the head published and the watermarks behind, the third
finding again.

In `PipelineOps`, `FairSpec` assumes weak fairness of each job's next call, for
the same reason; nothing of the pipelines. `EventuallyRestarted` has
`<>[][~External]_vars` as its premise: without it pipelines that crash again
for ever use up `restart_limit`, and updates that start between a GET and its
POST can end every poll. Both are listed hazards. Jobs die a bounded number of
times: one that dies in every round does nothing.

In `SourceSetup` a script that runs goes on (`WF_vars(Session)`): it is one batch on
the server. That somebody starts it again is not the code's doing, and is the
premise of `RetriesConverge`. `Generate` has no liveness: a developer may stop at
any point.

## 4. Proofs

The theorems hold for every value of the constants that satisfies the module's
named assumption: any tables, keys, pipelines, clients, configurations, number of
versions, crashes, faults and failing calls.

| Theorem | Proves | Assumes besides |
|---|---|---|
| `IngestRecon_proofs!TypeCorrect` | `Spec => []TypeOK` | |
| `GateIsSound` | `Spec => []GateSound` | `Lag < Quiesce` |
| `ConfirmedIsIngested` | `Spec => []ConfirmedIngested` | the same |
| `RowsAccountForAll` | `Spec => []NothingUnlisted` | |
| `WatermarksArePublished` | `Spec => []WatermarksPublished` | |
| `OneRowPerHead` | `Spec => []OneReadyPerHead` | the query for the row does not fail |
| `DetectionSurvives` | `Spec => DetectedOnce` | |
| `MergedAfterEveryChange` | `Spec => []MergedAfterChange` | |
| `DoubtNeedsFailure` | no table is ever doubted | commit times and histories can be read |
| `IngestReconRefines_proofs!JobImplementsGate` | `Spec => ImplementsGate` | `Lag < Quiesce` |
| `ReconGate_proofs!PublishedStaysComplete`, `ConfirmedStaysComplete` | a published batch, and what is confirmed, stays in Delta, of every table that is not doubted, in every implementation | |
| `FlowRecon_proofs!NothingIsSkipped` | `Spec => []NothingSkipped` | |
| `OneRowPerFlow` | `Spec => []OneReadyPerFlow` | the query for the row does not fail |
| `FlowTypeCorrect` | `Spec => []TypeOK` | |
| `FlowReconImplementsFeed` | `Spec => ImplementsFeed` | the query for the row does not fail |
| `FeedPublishesComplete`, `ReadyIsComplete` | a published flow had ended, is merged to its last event and passed: in every implementation of `EventFeed`, and so in this one | the second: the same |
| `PipelineOps_proofs!OpsTypeCorrect`, `FailuresStayVisible` | `Spec => []TypeOK`, `Spec => []FailureStaysVisible` | |
| `Generate_proofs!SchemasAlwaysThere`, `NamesAreDeployed`, `AllAreRegistered`, `SuccessCoversClients` | `SchemaOutlivesBundle`, `RegisteredExists`, `FullRunRegistersAll`, `SuccessIsComplete` | |
| `GenerateTypeCorrect`, `PipelinesNeverShare`, `ScriptsListWhatIsIngested`, `ResolutionIsAsDeclared`, `ReconWatchesWhatIsIngested` | `TypeOK`, `PipelinesDisjoint`, `ScriptsMatchPipelines`, `ResolvedAsDeclared`, `WatchesWhatIsIngested` | |
| `TableSelection_proofs!ResolutionFollowsFiles`, `SplitIsPartition` | `AsDeclared` for every catalog and override file; `SplitTables` is a partition of the tables | |
| `SourceSetup_proofs!TypesHold`, `PreparedTablesReadable`, `ReportIsRight` | `TypeOK`, `PreparedIsReadable`, `ReportDecides` | |

*The gate* (`SoundInv`). A poll asks in four steps: head, watermarks, changes,
commit times. Rows change in between, but a row that does gets a version above the
poll's head, so it leaves the window and is not the poll's concern; a row that
stays has its window membership and its commit time fixed (`WindowFixed`). Hence a
table with a change in the window is pending (`WindowCovered`) and its reference
time is no earlier than any of its changes (`ReferenceLate`), unless the poll notes that
it is a stand-in; a table that passes on one is doubted from then on. On the other side, a
MERGE that leaves a change out was read before that change was committed, so it
carries a time below commit + `Lag` (`MissingRecent`). If `Lag < Quiesce`, a table
that passes cannot lack a change (`PassedIsIngested`); what Delta has it keeps
(`IngestedStep`), so the verified caches stay true across polls, and a table that
is not pending was covered by its watermark already. The invariant needs all of
these parts at once: none is inductive alone.

`PublishInv` adds that the row of a batch is in `recon_ready` before any of its
upserts (`RowWritten`), which is why a crash leaves watermarks behind and never
ahead. `OnceInv` and `DetectInv` are small: the check precedes the append in the
same poll, and memory is filled from the audit or together with it. `WrittenInv`
needs no bound on the pipeline's delay: it follows what the rule has *seen*
(`Settled`) from the history read through caches and watermarks.

*The refinement.* Under `SoundInv` and `PublishInv` each write of the job is a
step of `ReconGate`: the append is a `Publish`, because passed tables are ingested
and unlisted ones accounted for; an upsert is a `Confirm` of the row just written,
and the last one a `ConfirmDb`, because the tables already done stand at its head
(`AdvancedSoFar`). The rest stutters. What the calc may rely on is then proved of
the small module alone.

*The event log* (`SkipInv`). The watermark to be stored never lies in the future
(`MarksPast`), so what is emitted later is read later; what lies at or below it is
covered, or still in the poll's hands as a row or a flow to do (`PollCovers`), at
each step up to the flush. A flow leaves those hands only with a summary
(`FlowsEvaluated`), and is in them because nothing follows a COMPLETED event
(`CompletedLast`). Rounding down only widens what is read.

Its types (`TypeInv`) rest on `SkipInv`: the largest time of what a poll read is a
time because the log, and so every read that is not empty, ends with the event of
`now` (`LogOrdered`, `LastIsRead`). `RowsAddUp` is the lemma that adding up a finite
set of events gives a number. `MapThenSumSet` is a recursive function that picks an
element and goes on with the rest; that it exists, and that its values are numbers,
goes by the size of the subsets (`RowsDefined`).

*Its refinement* (`FeedInv`). A flow in the poll's hands completed at or before the
watermark to be stored, and its COMPLETED event is its last (`CompletedLast`); so all
its events are at or below that watermark, and `PollCovers` has them merged: the
verdict is a `Judge`. The append is a `Publish` because the flow has no row
(`RecordedInv`) and its summary with PASS is written (`FeedInv`), the flush a `Note`
by `NothingSkipped`, and an event an `Emit` because no watermark lies in the future
(`MarksPast`). The same argument fails without the assumption on the query for the
row: counting a failed query as "not recorded" publishes a flow twice.

*The process log* (`VisibleInv`). Whatever the monitor saw after a request it also
stamped after the poll's time, which was taken before the request
(`RowStampedFirst`); hence its logged failure is newer than the row still to come
(`RowOutdated`), and no row that could hide the current round belongs to a pipeline
it has seen since (`RoundShown`). The code gets this from one line, `now` before
the loop (`ops/pipeline_job_ops.py:625`): taken at the append instead, the run
fails.

*The tree* (`GenerateInv`). Schemas are removed after the bundle and written before
it, at every step (`SchemaFirst`); which pipeline files have stayed is known before the
schemas go. A run meets each client at most once, so a name
it has noted stays that of a pipeline in the bundle, and a full run notes them all,
since it starts from a bundle with nothing but files that stayed (`NamesNoted`); both pass to the registry at
the end (`NamesRegistered`). Without an error, the bundle grows to the clients the
run covers (`ClientsCovered`). Overrides do not matter to any of this.

*What the files contain* (`ContentInv`, inductive together with the first). A bundle
file is one split of a client's tables (`SplitFiles`). A client is `torn` from its
pipelines to its last script, and the scripts written so far list the tables in hand,
which are those of its file (`ScriptsFollow`). If nothing was edited, every file that
the present or the last full run wrote is what the files on disk resolve to
(`MadeFromFiles`); `Fresh` says from when on that holds, which is after the clean of the
bundle and not before. `WatchesWhatIsIngested` then needs one more step:
the job finds pipelines by contained name, so it may find those of a namesake too, but
it resolves tables by client, and the client's own keys are among those found
(`WatchedTables`).

*Resolution and split.* `Resolve` is a fold. `MergeSteps` gives it back as a sequence
of states, one for each entry of `extra`, and `MergedTo` is what holds after each:
it has failed if some active entry so far names a common table that is not ignored;
else each name stands as its latest entry so far says, or as the catalog does if it
has none. After the last entry that is the declaration. For the split, the tables of
a batch are those whose ranks share a quotient, and ranks of different tables differ.

The library states induction with an operator as a parameter, which the provers cannot
instantiate. `InductiveSet` says it of a set of numbers instead, from the least-element
principle; every induction here (the fold, ranks, sums) is of that form. The lemma is
stated in both modules that use it, since neither should depend on the other.

*The scripts.* A script that nothing has disturbed has done its work on the tables
its cursor has passed (`EnableWorks`, `GrantWorks`); a grant counts only if enable
was done when it started.

Every invariant and every action property of a passing run is thereby proved, and
what remains with TLC alone are the four liveness properties, `EventuallyReconciled`,
`EventuallyEvaluated`, `EventuallyRestarted` and `RetriesConverge`: they need fairness
and `ENABLED`, which are out of the prover's reach. The invariants that the proofs add
(`SoundInv`, `SkipInv`, `TypeInv`, `FeedInv`, `ContentInv` and the others) were checked by TLC on
the instances of the runs as well.

The assumptions on constants are those that the code makes sure of, or that only say
what a constant is. `GenerateAssumption` says that every configuration consists of a
catalog and of override files of the shape the pydantic models let through; which
tables they name, and whether they collide, is free.

## 5. Not modelled, and why

`PROJECT.json` lists every component. Left out for good:

* alerts, Unity Catalog setup, ad-hoc and test-data notebooks: one-shot I/O;
* `list-clients`, `validate`, `resolve` and `sync-src`: they read and print, or copy
  folders; the layout of generated text, cluster files and DDL;
* validation of static files beyond what decides whether a client is generated;
* the pass rules the deployed notebook cannot select (`auto`, `api_update`,
  `ct_delta_history`, `ingest_quiesce`), and the legacy recon without the SQL audit;
* schema evolution of the recon stores, and tables that are written and never read;
* clean-up of Change Tracking by retention, clock skew between drivers, growth of
  caches: listed as hazards, outside what the code controls or a bounded instance
  shows;
* the baseline script as a step of a live database. Its header calls it safe to run
  again, which is true of its MERGE statements; it moves every watermark to the head
  without a look at Delta, so on a database with pending changes it gives up
  `ConfirmedIngested`, and there is nothing to check beyond that.

## 6. Plan

1. Done: `IngestRecon`, its runs and its proofs, `MergedAfterChange` included.
2. Done: `ReconGate` and the refinement, by TLC and by proof.
3. Done: `PipelineOps`, its runs and its proofs.
4. Done: `FlowRecon`, its runs and its proofs; `EventFeed` and the refinement.
5. Done: `TableSelection`, `Generate`, `SourceSetup`, their runs and proofs, for all
   their invariants.
6. Left: several pipelines in one `FlowRecon` poll, whose watermarks one flush
   stores together; the other pass rules, should a notebook select them.
