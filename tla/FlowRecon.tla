----------------------------- MODULE FlowRecon -----------------------------
(***************************************************************************)
(* The legacy recon of one pipeline (run_all_pipeline_recon with           *)
(* simplified_recon=False, the function's default): a poll asks the REST   *)
(* API for the latest update, reads the pipeline's new flow events from the *)
(* hidden event log, adds them up per flow and compares the sum of a flow  *)
(* that completed with the source's Change Tracking (CT) count.            *)
(*                                                                         *)
(* What was read is remembered as an event-log watermark on SQL Server,    *)
(* which the poll stores last; what was decided is in the Delta tables     *)
(* lakeflow_flow_metrics, lakeflow_flow_summary, recon_ready, process_log. *)
(***************************************************************************)
EXTENDS Integers, Sequences, FiniteSets, FiniteSetsExt

CONSTANTS
    Flows,           \* the flows of the pipeline, one a table
    MetricsOnly,     \* those of recon_type 1: pass without a CT count
    Keys,            \* primary keys a table's rows may have
    MaxVersion,      \* bound on the CT versions the source produces
    MaxUpdates,      \* bound on the updates the pipeline runs
    MaxTime,         \* bound on the clock of the event log
    TicksPerSecond,  \* event times are finer than the whole seconds the SQL keeps
    MaxFailures,     \* bound on failed calls and restarts of the recon job
    MayFail          \* which calls may fail, a subset of Calls

\* The calls whose failure is caught.  Any other failure is a Crash.
Calls == {"connect", "marks", "events", "audit", "recorded", "count", "flush"}

ASSUME FlowAssumption ==
    /\ MetricsOnly \subseteq Flows
    /\ IsFiniteSet(Flows) /\ IsFiniteSet(Keys)
    /\ MaxVersion \in Nat /\ MaxUpdates \in Nat /\ MaxTime \in Nat
    /\ TicksPerSecond \in Nat \ {0}
    /\ MaxFailures \in Nat
    /\ MayFail \subseteq Calls

VARIABLES
    now,        \* time of the latest event
    changes,    \* the source's commits in version order: which key of which table
    api,        \* GET /pipelines/{id}: the latest update and its state
    stage,      \* how far the current update is with a flow
    reading,    \* the version up to which the flow reads in this update
    rest,       \* rows the flow has yet to report in this update
    loaded,     \* the version up to which the flow's Delta table is loaded
    log,        \* the events of event_log(pipeline)
    tableWm,    \* ct_table_watermark.last_version (NoVersion: no row)
    dbWm,       \* ct_db_watermark.last_version (NoVersion: no row)
    mark,       \* the row of recon_event_log_watermark, or NoMark
    metrics,    \* lakeflow_flow_metrics
    summaries,  \* lakeflow_flow_summary
    ready,      \* recon_ready
    processLog, \* the ingest rows of process_log
    pc,         \* the next step of the poll
    poll,       \* what the poll has read so far
    failures    \* calls that failed, and restarts

pipelineVars == <<now, changes, api, stage, reading, rest, loaded, log>>
storeVars    == <<tableWm, dbWm, mark, metrics, summaries, ready, processLog>>
vars         == <<pipelineVars, storeVars, pc, poll, failures>>

-----------------------------------------------------------------------------
(* Values *)

Versions  == 0..MaxVersion
NoVersion == -1
Updates   == 1..MaxUpdates
Times     == 0..MaxTime
NoTime    == -1
NoCount   == -1
Counts    == Nat \cup {NoCount}

CountedFlows == Flows \ MetricsOnly

Event == [at: Times, update: Updates, flow: Flows, status: {"RUNNING", "COMPLETED"}, rows: Nat]

\* The state of no update at all is the empty string.
ApiState == [update: 0..MaxUpdates, state: {"", "RUNNING", "COMPLETED", "FAILED"}]

\* last_event_ts, last_update_id, last_api_update_state
Mark   == [at: Times \cup {NoTime}, update: 0..MaxUpdates,
           state: {"", "RUNNING", "COMPLETED", "FAILED"}]
NoMark == [at |-> NoTime, update |-> -1, state |-> "none"]

\* A completed flow of this poll's rows, as aggregate_flow_metrics returns it.
Summary   == [update: Updates, flow: Flows, rows: Nat]
NoSummary == [update |-> 0, flow |-> "none", rows |-> 0]
Evaluated == [update: Updates, flow: Flows, rows: Nat, source: Counts, status: {"PASS", "FAIL"}]

\* recon_id is a fresh UUID: here the number of rows written before, plus one.
ReadyRow == [recon_id: Nat, update: Updates, flow: Flows, rows: Nat, source: Counts]

PollState == [mark: Mark \cup {NoMark}, connected: BOOLEAN, rows: SUBSET Event,
              stamp: Mark \cup {NoMark}, todo: SUBSET Summary, audit: BOOLEAN,
              cur: Summary \cup {NoSummary}, before: Versions \cup {NoVersion},
              head: Versions, source: Counts, process: SUBSET Evaluated]

NoPoll == [mark |-> NoMark, connected |-> FALSE, rows |-> {}, stamp |-> NoMark,
           todo |-> {}, audit |-> FALSE, cur |-> NoSummary, before |-> 0,
           head |-> 0, source |-> NoCount, process |-> {}]

Steps == {"idle", "events", "merge", "audit", "flows", "baseline", "baselineDb", "head",
          "count", "evaluate", "advance", "advanceDb", "ready", "log", "flush"}

TypeOK ==
    /\ now \in Times
    /\ changes \in Seq(Flows \X Keys) /\ Len(changes) \in Versions
    /\ api \in ApiState
    /\ stage \in [Flows -> {"waiting", "running", "done"}]
    /\ reading \in [Flows -> Versions]
    /\ rest \in [Flows -> Nat]
    /\ loaded \in [Flows -> Versions]
    /\ log \subseteq Event
    /\ tableWm \in [Flows -> Versions \cup {NoVersion}]
    /\ dbWm \in Versions \cup {NoVersion}
    /\ mark \in Mark \cup {NoMark}
    /\ metrics \subseteq Event
    /\ summaries \subseteq Evaluated
    /\ ready \subseteq ReadyRow
    /\ processLog \subseteq Evaluated
    /\ pc \in Steps
    /\ poll \in PollState
    /\ failures \in 0..MaxFailures

\* A new deployment: Delta holds the source, and nothing has been recorded.
Init ==
    /\ now = 0
    /\ changes = <<>>
    /\ api = [update |-> 0, state |-> ""]
    /\ stage = [f \in Flows |-> "done"]
    /\ reading = [f \in Flows |-> 0]
    /\ rest = [f \in Flows |-> 0]
    /\ loaded = [f \in Flows |-> 0]
    /\ log = {}
    /\ tableWm \in {[f \in Flows |-> NoVersion], [f \in Flows |-> 0]}
    /\ dbWm = NoVersion
    /\ mark = NoMark
    /\ metrics = {}
    /\ summaries = {}
    /\ ready = {}
    /\ processLog = {}
    /\ pc = "idle"
    /\ poll = NoPoll
    /\ failures = 0

-----------------------------------------------------------------------------
(* The source and the pipeline: outside the repository, modelled from what *)
(* the recon code reads of them.                                           *)

CtHead == Len(changes)

\* CHANGETABLE(CHANGES t, w) up to h: a key counts once, at its latest version.
LatestVersions(f) ==
    {v \in 1..CtHead : /\ changes[v][1] = f
                     /\ \A u \in (v + 1)..CtHead : changes[u] # changes[v]}
PendingChanges(f, w, h) == Cardinality({v \in LatestVersions(f) : w < v /\ v <= h})

Commit(f, k) ==
    /\ CtHead < MaxVersion
    /\ changes' = Append(changes, <<f, k>>)
    /\ UNCHANGED <<now, api, stage, reading, rest, loaded, log,
                   storeVars, pc, poll, failures>>

StartUpdate ==
    /\ api.state # "RUNNING"
    /\ api.update < MaxUpdates
    /\ api' = [update |-> api.update + 1, state |-> "RUNNING"]
    /\ stage' = [f \in Flows |-> "waiting"]
    /\ UNCHANGED <<now, changes, reading, rest, loaded, log,
                   storeVars, pc, poll, failures>>

BeginFlow(f) ==
    /\ api.state = "RUNNING"
    /\ stage[f] = "waiting"
    /\ stage' = [stage EXCEPT ![f] = "running"]
    /\ reading' = [reading EXCEPT ![f] = CtHead]
    /\ rest' = [rest EXCEPT ![f] = PendingChanges(f, loaded[f], CtHead)]
    /\ UNCHANGED <<now, changes, api, loaded, log, storeVars, pc, poll, failures>>

\* The log orders events by time, and no two carry the same one.
Emit(f, status, rows) ==
    /\ now' \in (now + 1)..MaxTime
    /\ log' = log \cup {[at |-> now', update |-> api.update, flow |-> f,
                         status |-> status, rows |-> rows]}

\* The metrics of an event are deltas: they count the rows since the last one.
ReportRows(f) ==
    /\ api.state = "RUNNING"
    /\ stage[f] = "running"
    /\ \E r \in 1..rest[f] :
          /\ Emit(f, "RUNNING", r)
          /\ rest' = [rest EXCEPT ![f] = @ - r]
    /\ UNCHANGED <<changes, api, stage, reading, loaded, storeVars, pc, poll, failures>>

CompleteFlow(f) ==
    /\ api.state = "RUNNING"
    /\ stage[f] = "running"
    /\ Emit(f, "COMPLETED", rest[f])
    /\ stage' = [stage EXCEPT ![f] = "done"]
    /\ reading' = [reading EXCEPT ![f] = 0]
    /\ rest' = [rest EXCEPT ![f] = 0]
    /\ loaded' = [loaded EXCEPT ![f] = reading[f]]
    /\ UNCHANGED <<changes, api, storeVars, pc, poll, failures>>

\* An update completes with all its flows, or fails and drops what it had begun.
EndUpdate ==
    /\ api.state = "RUNNING"
    /\ \/ /\ \A f \in Flows : stage[f] = "done"
          /\ api' = [api EXCEPT !.state = "COMPLETED"]
       \/ api' = [api EXCEPT !.state = "FAILED"]
    /\ stage' = [f \in Flows |-> "done"]
    /\ reading' = [f \in Flows |-> 0]
    /\ rest' = [f \in Flows |-> 0]
    /\ UNCHANGED <<now, changes, loaded, log, storeVars, pc, poll, failures>>

-----------------------------------------------------------------------------
(* Helpers of the recon *)

Fail(call) ==
    /\ call \in MayFail
    /\ failures < MaxFailures
    /\ failures' = failures + 1

Ok == UNCHANGED failures

\* The poll is done with its current flow.
NextFlow(processed) ==
    /\ pc' = "flows"
    /\ poll' = [poll EXCEPT !.process = @ \cup processed, !.todo = @ \ {poll.cur},
                            !.cur = NoSummary, !.before = 0, !.head = 0, !.source = NoCount]

EndPoll ==
    /\ pc' = "idle"
    /\ poll' = NoPoll

\* strftime('%Y-%m-%d %H:%M:%S'): the second an event falls in, as a time.
WholeSecond(t) == IF t = NoTime THEN NoTime ELSE (t \div TicksPerSecond) * TicksPerSecond

\* pipeline_needs_event_log_poll
NeedsPoll_OnlyNewOrActive(snapshot, m) ==
    \/ m = NoMark
    \/ snapshot.update # 0 /\ snapshot.update # m.update
    \/ snapshot.state \in {"RUNNING", "FAILED"}
NeedsPoll(snapshot, m) ==
    \/ m = NoMark
    \/ snapshot.update # 0 /\ snapshot.update # m.update
    \/ snapshot.state \in {"RUNNING", "FAILED"}
    \/ snapshot.state = "COMPLETED" /\ m.state # "COMPLETED"

Stamp_PastTheEvents(snapshot, m, rows) ==
    [at     |-> Max({m.at} \cup {e.at : e \in rows}) + 1,
     update |-> snapshot.update,
     state  |-> snapshot.state]

\* _watermark_from_rows_and_api: the time never goes back within a poll.
Stamp(snapshot, m, rows) ==
    [at     |-> Max({m.at} \cup {e.at : e \in rows}),
     update |-> snapshot.update,
     state  |-> snapshot.state]

\* The events after the watermark; without one, those of the lookback window.
EventsSince(since) == {e \in log : since = NoTime \/ e.at > WholeSecond(since)}

TotalRows(events) == MapThenSumSet(LAMBDA e : e.rows, events)

FlowSummaries_AnyStatus(events) ==
    {[update |-> e.update, flow |-> e.flow,
      rows |-> TotalRows({d \in events : d.update = e.update /\ d.flow = e.flow})] :
        e \in {c \in events :
                 \A d \in events : d.update = c.update /\ d.flow = c.flow => d.at <= c.at}}

\* aggregate_flow_metrics: only this poll's rows, and only flows whose last row
\* says COMPLETED.
FlowSummaries(events) ==
    {[update |-> e.update, flow |-> e.flow,
      rows |-> TotalRows({d \in events : d.update = e.update /\ d.flow = e.flow})] :
        e \in {c \in events :
                 /\ c.status = "COMPLETED"
                 /\ \A d \in events : d.update = c.update /\ d.flow = c.flow => d.at <= c.at}}

\* evaluate_recon
Verdict(summary, source) ==
    IF summary.flow \in MetricsOnly \/ source = summary.rows THEN "PASS" ELSE "FAIL"

\* The current flow's row, in lakeflow_flow_summary and in process_log.
CurrentRow(status) ==
    [update |-> poll.cur.update, flow |-> poll.cur.flow, rows |-> poll.cur.rows,
     source |-> poll.source, status |-> status]

\* recon_already_recorded
Recorded_Never(s) == FALSE
Recorded(s) == \E r \in ready : r.update = s.update /\ r.flow = s.flow

-----------------------------------------------------------------------------
(* The recon: run_all_pipeline_recon *)

\* The watermark and the API are read; a quiet pipeline is not polled, but its mark
\* is stored again.  A failed connection leaves nothing to store the mark with.
StartPoll ==
    /\ pc = "idle"
    /\ \E m \in {mark, NoMark}, connected \in BOOLEAN :
          /\ \/ Ok /\ m = mark /\ connected
             \/ Fail("connect") /\ m = NoMark /\ ~connected
             \/ Fail("marks") /\ m = NoMark /\ connected
          /\ poll' = [NoPoll EXCEPT !.mark = m, !.connected = connected,
                                    !.stamp = Stamp(api, m, {})]
          /\ pc' = IF NeedsPoll(api, m) THEN "events" ELSE "flush"
    /\ UNCHANGED <<pipelineVars, storeVars>>

ReadEvents_FlushFirst ==
    /\ pc = "events"
    /\ poll' = [poll EXCEPT !.rows = EventsSince(poll.mark.at), !.mark = NoMark]
    /\ mark' = [Stamp(poll.stamp, poll.mark, EventsSince(poll.mark.at))
                    EXCEPT !.at = WholeSecond(@)]
    /\ pc' = "merge"
    /\ UNCHANGED <<pipelineVars, tableWm, dbWm, metrics, summaries, ready, processLog,
                   failures>>

\* A failed query returns no rows, and a poll without rows has nothing to merge.
ReadEvents ==
    /\ pc = "events"
    /\ \E rows \in {EventsSince(poll.mark.at), {}} :
          /\ \/ Ok /\ rows = EventsSince(poll.mark.at)
             \/ Fail("events") /\ rows = {}
          /\ poll' = [poll EXCEPT !.rows = rows,
                                  !.mark = NoMark,
                                  !.stamp = Stamp(poll.stamp, poll.mark, rows)]
          /\ pc' = IF rows = {} THEN "flush" ELSE "merge"
    /\ UNCHANGED <<pipelineVars, storeVars>>

-----------------------------------------------------------------------------
(* The recon: run_pipeline_recon *)

\* MERGE by event_id, then the summaries of the completed flows.
MergeMetrics ==
    /\ pc = "merge"
    /\ metrics' = metrics \cup poll.rows
    /\ poll' = [poll EXCEPT !.rows = {}, !.todo = FlowSummaries(poll.rows)]
    /\ pc' = "audit"
    /\ UNCHANGED <<pipelineVars, tableWm, dbWm, mark, summaries, ready, processLog,
                   failures>>

\* The audit connection is opened when some flow needs a CT count.
OpenAudit ==
    /\ pc = "audit"
    /\ LET needed == \E s \in poll.todo : s.flow \in CountedFlows
       IN  \/ Ok /\ poll' = [poll EXCEPT !.audit = needed]
           \/ Fail("audit") /\ needed /\ UNCHANGED poll
    /\ pc' = "flows"
    /\ UNCHANGED <<pipelineVars, storeVars>>

\* Where a flow goes next: a metrics-only flow needs no count, and without the audit
\* connection the count is asked through the federated catalog.
CountStep(f) ==
    IF f \in MetricsOnly THEN "evaluate" ELSE IF poll.audit THEN "baseline" ELSE "count"

\* A recorded flow is passed over; a failed query counts as "not recorded".
TakeFlow(s) ==
    /\ pc = "flows"
    /\ s \in poll.todo
    /\ \/ /\ Ok
          /\ Recorded(s)
          /\ poll' = [poll EXCEPT !.todo = @ \ {s}]
          /\ pc' = "flows"
       \/ /\ \/ Ok /\ ~Recorded(s)
             \/ Fail("recorded") /\ Recorded(s)
          /\ poll' = [poll EXCEPT !.cur = s]
          /\ pc' = CountStep(s.flow)
    /\ UNCHANGED <<pipelineVars, storeVars>>

\* baseline_table_watermark_if_missing: a table without a watermark starts at the
\* head of this moment.
Baseline ==
    /\ pc = "baseline"
    /\ IF tableWm[poll.cur.flow] = NoVersion
       THEN tableWm' = [tableWm EXCEPT ![poll.cur.flow] = CtHead] /\ pc' = "baselineDb"
       ELSE pc' = "head" /\ UNCHANGED tableWm
    /\ UNCHANGED <<pipelineVars, dbWm, mark, metrics, summaries, ready, processLog,
                   poll, failures>>

BaselineDb ==
    /\ pc = "baselineDb"
    /\ dbWm' = tableWm[poll.cur.flow]
    /\ pc' = "head"
    /\ UNCHANGED <<pipelineVars, tableWm, mark, metrics, summaries, ready, processLog,
                   poll, failures>>

\* resolve_source_ct_for_recon
ReadCtHead ==
    /\ pc = "head"
    /\ poll' = [poll EXCEPT !.before = tableWm[poll.cur.flow], !.head = CtHead]
    /\ pc' = "count"
    /\ UNCHANGED <<pipelineVars, storeVars, failures>>

\* run_source_ct_recon_direct counts up to the head read before; through the
\* federated catalog the window is everything since version 0.
CountChanges ==
    /\ pc = "count"
    /\ LET f == poll.cur.flow
       IN  poll' = [poll EXCEPT !.source =
                      IF poll.audit THEN PendingChanges(f, poll.before, poll.head)
                      ELSE PendingChanges(f, 0, CtHead)]
    /\ pc' = "evaluate"
    /\ UNCHANGED <<pipelineVars, storeVars, failures>>

\* One handler catches what any of the calls from the baseline to the count raises:
\* the flow is judged without a count, and without a head; a baseline may stay.
CountRaises ==
    /\ pc \in {"baseline", "baselineDb", "head", "count"}
    /\ Fail("count")
    /\ poll' = [poll EXCEPT !.before = 0, !.head = 0]
    /\ pc' = "evaluate"
    /\ UNCHANGED <<pipelineVars, storeVars>>

\* The summary with its verdict is appended; a flow that passed on a head goes on to
\* the watermarks, one that passed without to recon_ready, one that failed nowhere.
Evaluate ==
    /\ pc = "evaluate"
    /\ LET verdict == Verdict(poll.cur, poll.source)
       IN  /\ summaries' = summaries \cup {CurrentRow(verdict)}
           /\ \/ verdict = "FAIL" /\ NextFlow({CurrentRow("FAIL")})
              \/ /\ verdict = "PASS"
                 /\ UNCHANGED poll
                 /\ pc' = IF poll.audit /\ poll.cur.flow \in CountedFlows /\ poll.head > 0
                          THEN "advance" ELSE "ready"
    /\ UNCHANGED <<pipelineVars, tableWm, dbWm, mark, metrics, ready, processLog,
                   failures>>

AdvanceTable ==
    /\ pc = "advance"
    /\ tableWm' = [tableWm EXCEPT ![poll.cur.flow] = poll.head]
    /\ pc' = "advanceDb"
    /\ UNCHANGED <<pipelineVars, dbWm, mark, metrics, summaries, ready, processLog,
                   poll, failures>>

AdvanceDb ==
    /\ pc = "advanceDb"
    /\ dbWm' = poll.head
    /\ pc' = "ready"
    /\ UNCHANGED <<pipelineVars, tableWm, mark, metrics, summaries, ready, processLog,
                   poll, failures>>

WriteReady ==
    /\ pc = "ready"
    /\ ready' = ready \cup {[recon_id |-> Cardinality(ready) + 1,
                             update |-> poll.cur.update, flow |-> poll.cur.flow,
                             rows |-> poll.cur.rows, source |-> poll.source]}
    /\ NextFlow({CurrentRow("PASS")})
    /\ UNCHANGED <<pipelineVars, tableWm, dbWm, mark, metrics, summaries, processLog,
                   failures>>

\* The ingest rows of the process log are written after the last flow.
WriteProcessLog ==
    /\ pc = "flows"
    /\ poll.todo = {}
    /\ processLog' = processLog \cup poll.process
    /\ pc' = "flush"
    /\ UNCHANGED <<pipelineVars, tableWm, dbWm, mark, metrics, summaries, ready,
                   poll, failures>>

\* flush_recon_event_log_watermarks_sql, the last call of a poll: whole seconds.
FlushMark ==
    /\ pc = "flush"
    /\ \/ Ok /\ poll.connected
             /\ mark' = [poll.stamp EXCEPT !.at = WholeSecond(@)]
       \/ Ok /\ ~poll.connected /\ UNCHANGED mark
       \/ Fail("flush") /\ poll.connected /\ UNCHANGED mark
    /\ EndPoll
    /\ UNCHANGED <<pipelineVars, tableWm, dbWm, metrics, summaries, ready, processLog>>

\* A call outside Calls raises, or the cluster goes away; the job starts again.
Crash ==
    /\ pc # "idle"
    /\ failures < MaxFailures
    /\ failures' = failures + 1
    /\ EndPoll
    /\ UNCHANGED <<pipelineVars, storeVars>>

-----------------------------------------------------------------------------
(* The specification *)

Pipeline ==
    \/ \E f \in Flows, k \in Keys : Commit(f, k)
    \/ StartUpdate
    \/ \E f \in Flows : BeginFlow(f) \/ ReportRows(f) \/ CompleteFlow(f)
    \/ EndUpdate

Recon ==
    \/ StartPoll \/ ReadEvents \/ MergeMetrics \/ OpenAudit
    \/ \E s \in poll.todo : TakeFlow(s)
    \/ Baseline \/ BaselineDb \/ ReadCtHead \/ CountChanges \/ CountRaises \/ Evaluate
    \/ AdvanceTable \/ AdvanceDb \/ WriteReady \/ WriteProcessLog \/ FlushMark

Next == Pipeline \/ Recon \/ Crash

Spec == Init /\ [][Next]_vars

\* The job polls for ever; nothing is assumed of the source and the pipeline.
FairSpec == Spec /\ WF_vars(Recon)

-----------------------------------------------------------------------------
(* What the legacy recon promises *)

EvaluatedFlow(u, f) == \E s \in summaries : s.update = u /\ s.flow = f

\* What lies at or below the stored event-log watermark is never read again, so it
\* must have been merged into lakeflow_flow_metrics, and a flow that completed there
\* must have been evaluated, whatever call failed and wherever the job crashed
\* (flush_recon_event_log_watermarks_sql comes last).
NothingSkipped ==
    \A e \in log : e.at <= mark.at =>
        /\ e \in metrics
        /\ e.status = "COMPLETED" => EvaluatedFlow(e.update, e.flow)

\* One recon_ready row a flow and update, although the seconds around a watermark,
\* and whole polls after a crash or a failed flush, are read twice
\* (recon_already_recorded).
OneReadyPerFlow ==
    \A r1, r2 \in ready : r1.update = r2.update /\ r1.flow = r2.flow => r1 = r2

\* A flow that completes is evaluated in the end, however the updates follow each
\* other between two polls (pipeline_needs_event_log_poll skips only quiet pipelines).
EventuallyEvaluated ==
    \A u \in Updates, f \in Flows :
        (\E e \in log : e.update = u /\ e.flow = f /\ e.status = "COMPLETED")
            ~> EvaluatedFlow(u, f)

\* RECONNREADME.md:103: the recon sums the rows across all events of the flow's
\* (update_id, flow_name) window.
WholeWindowSummed ==
    \A s \in summaries :
        s.rows >= TotalRows({e \in log : e.update = s.update /\ e.flow = s.flow})

=============================================================================
