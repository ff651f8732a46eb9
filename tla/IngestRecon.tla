---------------------------- MODULE IngestRecon ----------------------------
(***************************************************************************)
(* Ingestion reconciliation of one client database, as the continuous job  *)
(* run_ingestion_recon runs it (SIMPLIFIED_RECON, pass rule ct_row_count). *)
(*                                                                         *)
(* Four parties share state: the SQL Server source, whose Change Tracking  *)
(* (CT) gives every commit a version; the Lakeflow pipeline, which copies  *)
(* the source's tables to Delta; the recon process, which polls both; and  *)
(* the stores it keeps: ipac_metadata.dbo on SQL Server (watermarks, audit)*)
(* and the Delta table recon_ready, the gate of the downstream calc.       *)
(*                                                                         *)
(* A poll is a sequence of remote calls.  Each call is one action, so that *)
(* commits, ingestion and crashes fall between any two of them.            *)
(***************************************************************************)
EXTENDS Integers, FiniteSets

CONSTANTS
    Tables,       \* the active tables of the client, all pipelines together
    CountTables,  \* those with recon_type 2: validated by COUNT, not by time
    Keys,         \* primary keys a table's rows may have
    MaxVersion,   \* bound on the CT versions the source produces
    MaxTime,      \* bound on the clock
    Quiesce,      \* table_quiesce_sec
    Lag,          \* the pipeline's longest delay from its read to its MERGE
    SampleSize,   \* row_count_sample_size; 0 means all
    MaxCrashes,   \* bound on restarts of the recon job
    MaxFaults,    \* bound on failed calls that the code survives
    MayFail       \* which calls may fail, a subset of Calls

\* The remote calls whose failure the recon code catches and goes on from.
\* "writeAck" is the append to recon_ready that commits and then reports an
\* error; "history" is a DESCRIBE HISTORY that fails or shows no write, "deltaRead" the
\* failure of all the ways to read Delta.  A call that is not listed raises out of the
\* poll, which is a Crash.
Calls == {"head", "watermarks", "counts", "commitTimes", "connect", "sqlCounts", "history",
          "deltaRead", "dbWatermark", "results", "recorded", "write", "writeAck"}

ASSUME ConstantsAssumption ==
    /\ CountTables \subseteq Tables
    /\ IsFiniteSet(Tables) /\ IsFiniteSet(Keys)
    /\ MaxVersion \in Nat /\ MaxTime \in Nat
    /\ Quiesce \in Nat /\ Lag \in Nat
    /\ SampleSize \in Nat
    /\ MaxCrashes \in Nat /\ MaxFaults \in Nat
    /\ MayFail \subseteq Calls

VARIABLES
    now,        \* the clock, common to SQL Server, Delta and the job
    head,       \* CHANGE_TRACKING_CURRENT_VERSION() of the database
    commitAt,   \* sys.dm_tran_commit_table: commit time of each version
    src,        \* the source's tables
    snap,       \* what the pipeline has read of a table and not merged yet
    snapAt,     \* when it read it, NoTime when nothing is in flight
    dst,        \* the Delta tables
    lastMerge,  \* time of a Delta table's latest MERGE (DESCRIBE HISTORY)
    wm,         \* ct_table_watermark.last_version (no row counts as 0)
    wmAt,       \* ct_table_watermark.updated_at (NoTime: no row)
    dbwm,       \* ct_db_watermark.last_version (NoVersion: no row)
    detected,   \* RECON_BATCH_DETECTED audit rows: first time by ct_head
    claimed,    \* highest head recorded with watermark_advanced = 1, by table
    ready,      \* rows of recon_ready
    doubted,    \* history: tables that ever passed on a time that stands in for another
    pc,         \* the next call of the recon process
    poll,       \* what the current poll has read so far
    verified,   \* row_count_verified_cache and delta_history_verified_cache
    batch,      \* ct_batch_detected_at, the in-memory copy of detected
    crashes,
    faults

sourceVars == <<now, head, commitAt, src>>
deltaVars  == <<snap, snapAt, dst, lastMerge>>
sqlVars    == <<wm, wmAt, dbwm, detected, claimed>>
cacheVars  == <<verified, batch>>
reconVars  == <<sqlVars, ready, doubted, pc, poll, cacheVars, crashes, faults>>
vars       == <<sourceVars, deltaVars, reconVars>>

-----------------------------------------------------------------------------
(* Values *)

Versions  == 0..MaxVersion
NoVersion == -1
Times     == 0..MaxTime
NoTime    == -1
MaybeTime == Times \cup {NoTime}
NoCount   == -1
Counts    == Nat \cup {NoCount}

DeltaTsTables == Tables \ CountTables

\* A table: the version that last changed each key (0: before tracking), and
\* the keys that hold a row.
Image == [ver: [Keys -> Versions], live: SUBSET Keys]

\* recon_id is a fresh UUID: here the number of rows written before, plus one.
ReadyRow == [recon_id: Nat, ct_head_version: Versions,
             ct_watermark_before: Versions \cup {NoVersion},
             loop_started_at: MaybeTime, tables: SUBSET Tables]

PollState == [head: Versions, wm: [Tables -> Versions], wmAt: [Tables -> MaybeTime],
              pending: [Tables -> Nat], ref: [Tables -> MaybeTime],
              sample: SUBSET Tables, sqlCount: [Tables -> Counts],
              deltaCount: [Tables -> Counts], lastWrite: [Tables -> MaybeTime],
              standIns: SUBSET DeltaTsTables, todo: SUBSET Tables,
              before: Versions \cup {NoVersion}]

NoPoll == [head |-> 0, wm |-> [t \in Tables |-> 0], wmAt |-> [t \in Tables |-> NoTime],
           pending |-> [t \in Tables |-> 0], ref |-> [t \in Tables |-> NoTime],
           sample |-> {}, sqlCount |-> [t \in Tables |-> NoCount],
           deltaCount |-> [t \in Tables |-> NoCount],
           lastWrite |-> [t \in Tables |-> NoTime],
           standIns |-> {}, todo |-> {}, before |-> NoVersion]

Steps == {"idle", "watermarks", "counts", "commitTimes", "mark", "sqlCounts",
          "deltaReads", "dbWatermark", "evaluate", "recorded", "write", "advance", "advanceDb"}

TypeOK ==
    /\ now \in Times
    /\ head \in Versions
    /\ commitAt \in [Versions -> MaybeTime]
    /\ src \in [Tables -> Image]
    /\ snap \in [Tables -> Image]
    /\ snapAt \in [Tables -> MaybeTime]
    /\ dst \in [Tables -> Image]
    /\ lastMerge \in [Tables -> MaybeTime]
    /\ wm \in [Tables -> Versions]
    /\ wmAt \in [Tables -> MaybeTime]
    /\ dbwm \in Versions \cup {NoVersion}
    /\ detected \in [Versions -> MaybeTime]
    /\ claimed \in [Tables -> Versions]
    /\ ready \subseteq ReadyRow /\ IsFiniteSet(ready)
    /\ doubted \subseteq DeltaTsTables
    /\ pc \in Steps
    /\ poll \in PollState
    /\ verified \subseteq Tables \X Versions
    /\ batch \in [Versions -> MaybeTime]
    /\ crashes \in 0..MaxCrashes
    /\ faults \in 0..MaxFaults

\* Version 0 stands for the head at deployment, when Delta equals the source; the
\* watermarks have been baselined there by 006_baseline_ct_watermarks.sql, or not.
Init ==
    /\ now = 0
    /\ head = 0
    /\ commitAt = [v \in Versions |-> NoTime]
    /\ src \in [Tables -> {[ver |-> [k \in Keys |-> 0], live |-> L] : L \in SUBSET Keys}]
    /\ \A t \in DeltaTsTables : src[t].live = Keys
    /\ dst = src
    /\ snap = src
    /\ snapAt = [t \in Tables |-> NoTime]
    /\ lastMerge = [t \in Tables |-> IF t \in CountTables THEN NoTime ELSE 0]
    /\ wm = [t \in Tables |-> 0]
    /\ \/ wmAt = [t \in Tables |-> NoTime] /\ dbwm = NoVersion
       \/ wmAt = [t \in Tables |-> 0] /\ dbwm = 0
    /\ detected = [v \in Versions |-> NoTime]
    /\ claimed = [t \in Tables |-> 0]
    /\ ready = {}
    /\ doubted = {}
    /\ pc = "idle"
    /\ poll = NoPoll
    /\ verified = {}
    /\ batch = [v \in Versions |-> NoTime]
    /\ crashes = 0
    /\ faults = 0

-----------------------------------------------------------------------------
(* The source and the pipeline: outside the repository, modelled from what *)
(* the recon code reads of them.                                           *)

\* An INSERT, UPDATE or DELETE of one row: CT gives it the next version.  Which
\* keys hold a row is tracked for the tables whose rows are counted.
Commit(t, k) ==
    /\ head < MaxVersion
    /\ \E L \in {src[t].live \cup {k}, src[t].live \ {k}} :
          /\ IF t \in CountTables THEN k \in src[t].live \cup L ELSE L = src[t].live
          /\ src' = [src EXCEPT ![t] = [ver |-> [@.ver EXCEPT ![k] = head + 1],
                                        live |-> L]]
    /\ head' = head + 1
    /\ commitAt' = [commitAt EXCEPT ![head + 1] = now]
    /\ UNCHANGED <<now, deltaVars, reconVars>>

\* Time does not pass the deadline of a MERGE in flight: Lag bounds the delay.
Tick ==
    /\ now < MaxTime
    /\ \A t \in Tables : snapAt[t] # NoTime => now < snapAt[t] + Lag
    /\ now' = now + 1
    /\ UNCHANGED <<head, commitAt, src, deltaVars, reconVars>>

IngestRead(t) ==
    /\ snapAt[t] = NoTime
    /\ dst[t] # src[t]
    /\ snap' = [snap EXCEPT ![t] = src[t]]
    /\ snapAt' = [snapAt EXCEPT ![t] = now]
    /\ UNCHANGED <<sourceVars, dst, lastMerge, reconVars>>

\* The time of a MERGE is tracked for the tables whose history is read.
IngestMerge(t) ==
    /\ snapAt[t] # NoTime
    /\ dst' = [dst EXCEPT ![t] = snap[t]]
    /\ lastMerge' = [lastMerge EXCEPT ![t] = IF t \in CountTables THEN NoTime ELSE now]
    /\ snapAt' = [snapAt EXCEPT ![t] = NoTime]
    /\ UNCHANGED <<sourceVars, snap, reconVars>>

-----------------------------------------------------------------------------
(* Helpers of the recon process *)

Larger(a, b) == IF a >= b THEN a ELSE b

\* One of the calls the process survives fails, while the bound allows it.
Fail(call) ==
    /\ call \in MayFail
    /\ faults < MaxFaults
    /\ faults' = faults + 1

Ok == UNCHANGED faults

\* The poll returns; the notebook sleeps and polls again.
EndPoll ==
    /\ pc' = "idle"
    /\ poll' = NoPoll

\* CHANGETABLE(CHANGES t, w) with SYS_CHANGE_VERSION <= h: one entry a key,
\* carrying the version of its latest change only.
PendingKeys_BelowHead(t, w, h) == {k \in Keys : w < src[t].ver[k] /\ src[t].ver[k] < h}
PendingKeys(t, w, h) == {k \in Keys : w < src[t].ver[k] /\ src[t].ver[k] <= h}

\* MAX(commit_time) over those entries; no entry, no time.
LatestCommit(t, w, h) ==
    LET times == {commitAt[src[t].ver[k]] : k \in PendingKeys(t, w, h)}
    IN  IF times = {} THEN NoTime ELSE CHOOSE c \in times : \A d \in times : d <= c

PendingTables == {t \in Tables : poll.pending[t] > 0}

\* _sql_ct_reference_timestamp: the later of the two that are known.
Reference(updatedAt, committedAt) == Larger(updatedAt, committedAt)

IsVerified(t) == <<t, poll.head>> \in verified

\* The COUNT candidates of this poll, largest pending total first.
SampleCandidates_WithVerified == CountTables \cap PendingTables
SampleCandidates == {t \in CountTables \cap PendingTables : ~IsVerified(t)}

Samples ==
    IF SampleSize = 0
    THEN {CountTables \cap PendingTables}
    ELSE {S \in SUBSET SampleCandidates :
            /\ Cardinality(S) <= SampleSize
            /\ Cardinality(S) < SampleSize => S = SampleCandidates
            /\ \A t \in S, u \in SampleCandidates \ S : poll.pending[t] >= poll.pending[u]}

\* evaluate_ct_row_count_recon
RowCountStatus(t) ==
    IF t \notin poll.sample \/ NoCount \in {poll.sqlCount[t], poll.deltaCount[t]}
    THEN "WAITING"
    ELSE IF poll.sqlCount[t] # poll.deltaCount[t] THEN "FAIL" ELSE "PASS"

\* evaluate_ct_delta_ts_after_sql_ct
WrittenAfter_NoBuffer(last, ref) == last >= ref
WrittenAfter(last, ref) == last >= ref + Quiesce

DeltaTsStatus(t) ==
    IF NoTime \in {poll.ref[t], poll.lastWrite[t]}
    THEN "WAITING"
    ELSE IF WrittenAfter(poll.lastWrite[t], poll.ref[t]) THEN "PASS" ELSE "WAITING"

Status(t) ==
    IF IsVerified(t) THEN "PASS"
    ELSE IF t \in CountTables THEN RowCountStatus(t) ELSE DeltaTsStatus(t)

BatchPasses == \A t \in PendingTables : Status(t) = "PASS"

-----------------------------------------------------------------------------
(* The recon process: discover_pending_ct_tables *)

ReadHead ==
    /\ pc = "idle"
    /\ \/ /\ Ok
          /\ pc' = "watermarks"
          /\ poll' = [NoPoll EXCEPT !.head = head]
       \/ Fail("head") /\ EndPoll
    /\ UNCHANGED <<sourceVars, deltaVars, sqlVars, ready, doubted, cacheVars, crashes>>

\* A failed read leaves every table without a watermark row.
ReadWatermarks ==
    /\ pc = "watermarks"
    /\ \/ /\ Ok
          /\ poll' = [poll EXCEPT !.wm = wm, !.wmAt = wmAt]
       \/ /\ Fail("watermarks")
          /\ poll' = [poll EXCEPT !.wm = [t \in Tables |-> 0],
                                  !.wmAt = [t \in Tables |-> NoTime]]
    /\ pc' = "counts"
    /\ UNCHANGED <<sourceVars, deltaVars, sqlVars, ready, doubted, cacheVars, crashes>>

\* A failed count leaves no table pending, and a poll without pending tables ends.
CountChanges ==
    /\ pc = "counts"
    /\ LET pending == [t \in Tables |->
                          Cardinality(PendingKeys(t, poll.wm[t], poll.head))]
       IN  \/ /\ Ok
              /\ \E t \in Tables : pending[t] > 0
              /\ pc' = "commitTimes"
              /\ poll' = [poll EXCEPT !.pending = pending]
           \/ /\ Ok
              /\ \A t \in Tables : pending[t] = 0
              /\ EndPoll
           \/ Fail("counts") /\ EndPoll
    /\ UNCHANGED <<sourceVars, deltaVars, sqlVars, ready, doubted, cacheVars, crashes>>

\* A failed read leaves the watermark's update time as the only reference.
ReadCommitTimes ==
    /\ pc = "commitTimes"
    /\ \E committedAt \in {[t \in Tables |-> LatestCommit(t, poll.wm[t], poll.head)],
                           [t \in Tables |-> NoTime]},
          standIns \in {{}, PendingTables \cap DeltaTsTables} :
          /\ \/ /\ Ok
                /\ committedAt = [t \in Tables |-> LatestCommit(t, poll.wm[t], poll.head)]
                /\ standIns = {}
             \/ /\ Fail("commitTimes")
                /\ committedAt = [t \in Tables |-> NoTime]
                /\ standIns = PendingTables \cap DeltaTsTables
          /\ poll' = [poll EXCEPT
                !.ref = [t \in Tables |-> IF t \in PendingTables
                                          THEN Reference(poll.wmAt[t], committedAt[t])
                                          ELSE NoTime],
                !.standIns = @ \cup standIns]
    /\ pc' = "mark"
    /\ UNCHANGED <<sourceVars, deltaVars, sqlVars, ready, doubted, cacheVars, crashes>>

-----------------------------------------------------------------------------
(* The recon process: run_simplified_pipeline_recon *)

\* mark_batch_detected: memory first, then the audit row, else a new audit row.
FirstDetection_InMemory == IF batch[poll.head] # NoTime THEN batch[poll.head] ELSE now
FirstDetection ==
    IF batch[poll.head] # NoTime THEN batch[poll.head]
    ELSE IF detected[poll.head] # NoTime THEN detected[poll.head]
    ELSE now

\* The mark is made on the connection of the discovery; the rest of the poll opens
\* another one, and returns when it cannot.
MarkBatch ==
    /\ pc = "mark"
    /\ batch' = [batch EXCEPT ![poll.head] = FirstDetection]
    /\ detected' = [detected EXCEPT ![poll.head] = FirstDetection]
    /\ \/ Ok /\ pc' = "sqlCounts" /\ UNCHANGED poll
       \/ Fail("connect") /\ EndPoll
    /\ UNCHANGED <<sourceVars, deltaVars, wm, wmAt, dbwm, claimed, ready,
                   doubted, verified, crashes>>

\* The sample is chosen and its tables counted in SQL Server by one UNION.
ReadSqlCounts ==
    /\ pc = "sqlCounts"
    /\ \E S \in Samples, counts \in {[t \in Tables |-> Cardinality(src[t].live)],
                                     [t \in Tables |-> NoCount]} :
          /\ \/ Ok /\ counts = [t \in Tables |-> Cardinality(src[t].live)]
             \/ Fail("sqlCounts") /\ S # {} /\ counts = [t \in Tables |-> NoCount]
          /\ LET todo == {t \in PendingTables : t \in S \/ t \notin CountTables}
             IN  /\ poll' = [poll EXCEPT
                       !.sample = S,
                       !.sqlCount = [t \in Tables |-> IF t \in S THEN counts[t] ELSE NoCount],
                       !.todo = todo]
                 /\ pc' = IF todo = {} THEN "dbWatermark" ELSE "deltaReads"
    /\ UNCHANGED <<sourceVars, deltaVars, sqlVars, ready, doubted, cacheVars, crashes>>

\* Delta is read table by table: the histories first, then the counts.  Without a write
\* in its history, a table's last modification stands in for its last MERGE: DESCRIBE
\* DETAIL's lastModified or last_altered, which maintenance and ALTER move as well.  A
\* history of which all reads failed is read once more at the evaluation: a failed
\* "deltaRead" is both times failing.
ReadDelta(t) ==
    /\ pc = "deltaReads"
    /\ t \in poll.todo
    /\ t \in CountTables => poll.todo \subseteq CountTables
    /\ LET read == [poll EXCEPT !.todo = @ \ {t}]
       IN  \/ /\ Ok
              /\ poll' = IF t \in CountTables
                         THEN [read EXCEPT !.deltaCount[t] = Cardinality(dst[t].live)]
                         ELSE [read EXCEPT !.lastWrite[t] = lastMerge[t]]
           \/ /\ Fail("history")
              /\ t \notin CountTables
              /\ \E modified \in 0..now :
                    poll' = [read EXCEPT !.lastWrite[t] = modified,
                                         !.standIns = @ \cup {t}]
           \/ Fail("deltaRead") /\ poll' = read
    /\ pc' = IF poll.todo = {t} THEN "dbWatermark" ELSE "deltaReads"
    /\ UNCHANGED <<sourceVars, deltaVars, sqlVars, ready, doubted, cacheVars, crashes>>

\* ct_db_watermark becomes ct_watermark_before; a failed read leaves it empty.
ReadDbWatermark ==
    /\ pc = "dbWatermark"
    /\ \/ Ok /\ poll' = [poll EXCEPT !.before = dbwm]
       \/ Fail("dbWatermark") /\ UNCHANGED poll
    /\ pc' = "evaluate"
    /\ UNCHANGED <<sourceVars, deltaVars, sqlVars, ready, doubted, cacheVars, crashes>>

\* Every pending table gets a status; a table that passes is cached for this head
\* and its result is recorded; only a batch of which all tables pass goes on.
Evaluate ==
    /\ pc = "evaluate"
    /\ verified' = verified \cup
                    {<<t, poll.head>> : t \in {u \in PendingTables : Status(u) = "PASS"}}
    /\ doubted' = doubted \cup {t \in PendingTables \cap poll.standIns :
                                  ~IsVerified(t) /\ Status(t) = "PASS"}
    /\ \E lost \in {{}} \cup {{t} : t \in PendingTables} :
          /\ IF lost = {} THEN Ok ELSE Fail("results")
          /\ claimed' = [t \in Tables |-> IF BatchPasses /\ t \in PendingTables \ lost
                                          THEN Larger(claimed[t], poll.head) ELSE claimed[t]]
    /\ IF BatchPasses THEN pc' = "recorded" /\ UNCHANGED poll ELSE EndPoll
    /\ UNCHANGED <<sourceVars, deltaVars, wm, wmAt, dbwm, detected, ready, batch, crashes>>

\* recon_database_already_recorded; a failed query counts as "not recorded".
AlreadyRecorded_Never == FALSE
AlreadyRecorded == \E r \in ready : r.ct_head_version = poll.head

CheckRecorded ==
    /\ pc = "recorded"
    /\ \/ Ok /\ AlreadyRecorded /\ EndPoll
       \/ Ok /\ ~AlreadyRecorded /\ pc' = "write" /\ UNCHANGED poll
       \/ Fail("recorded") /\ pc' = "write" /\ UNCHANGED poll
    /\ UNCHANGED <<sourceVars, deltaVars, sqlVars, ready, doubted, cacheVars, crashes>>

\* An append that reports an error leaves the watermarks alone, whether it
\* committed or not.
WriteReady ==
    /\ pc = "write"
    /\ LET row == [recon_id |-> Cardinality(ready) + 1,
                   ct_head_version |-> poll.head,
                   ct_watermark_before |-> poll.before,
                   loop_started_at |-> batch[poll.head],
                   tables |-> PendingTables]
       IN  \/ /\ Ok
              /\ ready' = ready \cup {row}
              /\ pc' = "advance"
              /\ poll' = [poll EXCEPT !.todo = PendingTables]
           \/ Fail("write") /\ EndPoll /\ UNCHANGED ready
           \/ Fail("writeAck") /\ EndPoll /\ ready' = ready \cup {row}
    /\ UNCHANGED <<sourceVars, deltaVars, sqlVars, doubted, cacheVars, crashes>>

\* upsert_table_watermark: one table, one commit.
AdvancedTo_CurrentHead == head
AdvancedTo_NextVersion == poll.head + 1
AdvancedTo == poll.head

AdvanceTable_DbAfterFirst(t) ==
    /\ pc = "advance"
    /\ t \in poll.todo
    /\ wm' = [wm EXCEPT ![t] = AdvancedTo]
    /\ wmAt' = [wmAt EXCEPT ![t] = now]
    /\ poll' = [poll EXCEPT !.todo = @ \ {t}]
    /\ pc' = "advanceDb"
    /\ UNCHANGED <<sourceVars, deltaVars, dbwm, detected, claimed, ready, doubted, cacheVars,
                   crashes, faults>>

AdvanceTable(t) ==
    /\ pc = "advance"
    /\ t \in poll.todo
    /\ wm' = [wm EXCEPT ![t] = AdvancedTo]
    /\ wmAt' = [wmAt EXCEPT ![t] = now]
    /\ poll' = [poll EXCEPT !.todo = @ \ {t}]
    /\ pc' = IF poll.todo = {t} THEN "advanceDb" ELSE "advance"
    /\ UNCHANGED <<sourceVars, deltaVars, dbwm, detected, claimed, ready, doubted, cacheVars,
                   crashes, faults>>

\* upsert_db_watermark, then clear_recon_batch_state for this head only.
AdvanceDb ==
    /\ pc = "advanceDb"
    /\ dbwm' = poll.head
    /\ batch' = [batch EXCEPT ![poll.head] = NoTime]
    /\ verified' = {e \in verified : e[2] # poll.head}
    /\ EndPoll
    /\ UNCHANGED <<sourceVars, deltaVars, wm, wmAt, detected, claimed, ready,
                   doubted, crashes, faults>>

\* A call outside Calls raises, or the cluster goes away: the continuous job
\* starts the notebook again, with empty caches.
Crash ==
    /\ crashes < MaxCrashes
    /\ crashes' = crashes + 1
    /\ EndPoll
    /\ verified' = {}
    /\ batch' = [v \in Versions |-> NoTime]
    /\ UNCHANGED <<sourceVars, deltaVars, sqlVars, ready, doubted, faults>>

-----------------------------------------------------------------------------
(* The specification *)

Environment ==
    \/ \E t \in Tables, k \in Keys : Commit(t, k)
    \/ Tick
    \/ \E t \in Tables : IngestRead(t) \/ IngestMerge(t)

Recon ==
    \/ ReadHead \/ ReadWatermarks \/ CountChanges \/ ReadCommitTimes
    \/ MarkBatch \/ ReadSqlCounts
    \/ \E t \in Tables : ReadDelta(t)
    \/ ReadDbWatermark \/ Evaluate \/ CheckRecorded \/ WriteReady
    \/ \E t \in Tables : AdvanceTable(t)
    \/ AdvanceDb

Next == Environment \/ Recon \/ Crash

Spec == Init /\ [][Next]_vars

\* The job is continuous and its loop never blocks: the recon process always
\* takes its next step.  Nothing is assumed of the source and the pipeline.
FairSpec == Spec /\ WF_vars(Recon)

-----------------------------------------------------------------------------
(* What the recon job promises *)

\* Everything the source changed in t up to version v, and not again since, has
\* reached Delta.
Ingested(t, v) == \A k \in Keys : src[t].ver[k] <= v => dst[t].ver[k] = src[t].ver[k]

\* The delta-ts tables that have passed on the times the rule is about only, those of
\* their commits and of their MERGEs.
Trusted == DeltaTsTables \ doubted

\* The gate is sound: when the calc sees a recon_ready row for a CT head, every trusted
\* delta-ts table holds every change up to that head, whether the row lists the table
\* or not (write_recon_ready_rows as the gate of ipac-sdt-calc).
GateSound ==
    \A r \in ready, t \in Trusted : Ingested(t, r.ct_head_version)

\* A confirmed change is in Delta: what lies at or below a trusted table's watermark is
\* never looked at again, so the watermark must not pass a change that is missing.
ConfirmedIngested ==
    \A t \in Trusted : Ingested(t, wm[t])

\* A recon_ready row accounts for every table: what a table it does not list had
\* changed up to its head was confirmed before (discover_pending_ct_tables reads the
\* head first and the changes later).
NothingUnlisted ==
    \A r \in ready : \A t \in Tables \ r.tables, k \in Keys :
        src[t].ver[k] <= r.ct_head_version => src[t].ver[k] <= wm[t]

\* Watermarks only move to published heads: each table's stands at the head of a row
\* that lists the table, and the database's at the head of some row, so no crash
\* makes the job forget changes it has not published.
WatermarksPublished ==
    /\ \A t \in Tables : wm[t] > 0 =>
          \E r \in ready : r.ct_head_version = wm[t] /\ t \in r.tables
    /\ dbwm > 0 => \E r \in ready : r.ct_head_version = dbwm

\* One recon_ready row per reconciled CT head, across restarts and failed writes
\* (recon_database_already_recorded).
OneReadyPerHead ==
    \A r1, r2 \in ready : r1.ct_head_version = r2.ct_head_version => r1 = r2

\* The detection time of a batch survives restarts: once audited it stays, and
\* every row's loop_started_at is the audited time (record_recon_batch_detected).
DetectedOnce ==
    [][/\ \A v \in Versions : detected[v] # NoTime => detected'[v] = detected[v]
       /\ \A r \in ready' \ ready : r.loop_started_at = detected[r.ct_head_version]]_vars

\* The last MERGE of t lies Quiesce after every change of the poll's window.
MergedAfter(t) ==
    \A k \in PendingKeys(t, poll.wm[t], poll.head) :
        lastMerge[t] >= commitAt[src[t].ver[k]] + Quiesce

\* A batch passes only when each of its trusted tables had a MERGE at least Quiesce after
\* each pending change, however many polls and restarts lie between the table's own pass
\* and the batch's (evaluate_ct_delta_ts_after_sql_ct, the verified caches).
MergedAfterChange == pc = "recorded" => \A t \in PendingTables \cap Trusted : MergedAfter(t)

\* The buffer as it is documented, for every delta-ts table whatever its times were read
\* from (table_quiesce_sec: the buffer after the SQL CT change before the Delta write).
WrittenAfterChange ==
    pc = "recorded" => \A t \in PendingTables \cap DeltaTsTables : MergedAfter(t)

\* A recon_type 2 table passes only when the changes CT counts since the watermark
\* were ingested (recon_type 2: upserted + deleted = CT I + U + D).
CountedIsIngested ==
    pc = "recorded" =>
        \A t \in PendingTables \cap CountTables :
            \A k \in PendingKeys(t, poll.wm[t], poll.head) :
                dst[t].ver[k] = src[t].ver[k]

\* A result recorded with watermark_advanced = 1 is followed by the advance.
ClaimedIsAdvanced ==
    \A t \in Tables, v \in Versions : (claimed[t] = v) ~> (wm[t] >= v)

\* A pending table is ready when its COUNTs agree, or its last MERGE is late enough.
Confirmable ==
    \A t \in Tables :
        PendingKeys(t, wm[t], head) # {} =>
            IF t \in CountTables
            THEN Cardinality(src[t].live) = Cardinality(dst[t].live)
            ELSE lastMerge[t] >= Larger(wmAt[t], LatestCommit(t, wm[t], head)) + Quiesce

Reconciled == \A t \in Tables : PendingKeys(t, wm[t], head) = {}

\* Once every pending table stays ready, the job confirms them all, however few it
\* samples per poll (the verified caches carry a batch over several polls).
EventuallyReconciled == <>[]Confirmable => []<>Reconciled

=============================================================================
