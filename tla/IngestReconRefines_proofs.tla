--------------------- MODULE IngestReconRefines_proofs ---------------------
(***************************************************************************)
(* The recon job implements ReconGate, for every number of tables and keys *)
(* and every failure.                                                      *)
(***************************************************************************)
EXTENDS IngestReconRefines, IngestRecon_proofs

\* The database watermark: only the last upsert of a batch moves it.
LEMMA DbWatermarkFrame == [Next]_vars => dbwm' = dbwm \/ AdvanceDb
BY EnvironmentFrame
   DEF Next, Recon, ReadHead, ReadWatermarks, CountChanges, ReadCommitTimes, MarkBatch,
       ReadSqlCounts, ReadDelta, ReadDbWatermark, Evaluate, CheckRecorded, WriteReady,
       AdvanceTable, Crash, sqlVars, reconVars, vars

\* The upserts of a batch, one table after the other.
LEMMA AdvancedSoFarStep ==
    ASSUME TypeOK, AdvancedSoFar, [Next]_vars
    PROVE  AdvancedSoFar'
<1> SUFFICES ASSUME pc' \in {"advance", "advanceDb"}
             PROVE  /\ \A t \in Tables : poll'.pending[t] > 0 /\ t \notin poll'.todo
                                            => wm'[t] = poll'.head
                    /\ pc' = "advanceDb" => poll'.todo = {}
  BY DEF AdvancedSoFar, PendingTables
<1> USE DEF TypeOK, PollState, PendingTables
<1>1. CASE WriteReady
  <2>1. pc' = "advance" /\ poll' = [poll EXCEPT !.todo = PendingTables]
    BY <1>1 DEF WriteReady, EndPoll
  <2> QED
    BY <2>1
<1>2. ASSUME NEW u \in Tables, AdvanceTable(u)
      PROVE  /\ \A t \in Tables : poll'.pending[t] > 0 /\ t \notin poll'.todo
                                     => wm'[t] = poll'.head
             /\ pc' = "advanceDb" => poll'.todo = {}
  <2>1. /\ poll'.head = poll.head /\ poll'.pending = poll.pending
        /\ poll'.todo = poll.todo \ {u} /\ wm' = [wm EXCEPT ![u] = poll.head]
        /\ pc = "advance" /\ (pc' = "advanceDb" => poll.todo = {u})
    BY <1>2 DEF AdvanceTable, AdvancedTo
  <2> QED
    BY <2>1 DEF AdvancedSoFar
<1>3. CASE Environment \/ UNCHANGED vars
  BY <1>3, EnvironmentFrame DEF AdvancedSoFar, reconVars, sqlVars, vars
<1>4. WriteReady \/ (\E t \in Tables : AdvanceTable(t)) \/ Environment \/ UNCHANGED vars
  BY DEF Next, Recon, ReadHead, ReadWatermarks, CountChanges, ReadCommitTimes, MarkBatch,
         ReadSqlCounts, ReadDelta, ReadDbWatermark, Evaluate, CheckRecorded,
         AdvanceDb, Crash, EndPoll
<1> QED
  BY <1>1, <1>2, <1>3, <1>4

-----------------------------------------------------------------------------
(* The steps *)

LEMMA RefinesInit == Init => Gate!Init
<1> SUFFICES ASSUME Init PROVE Gate!Init
  OBVIOUS
<1>1. \A t \in Tables : src[t].ver = [k \in Keys |-> 0]
  BY DEF Init
<1>2. ChangedKeys = [t \in Tables |-> [k \in Keys |-> 0]]
  BY <1>1 DEF ChangedKeys
<1>3. DeliveredKeys = ChangedKeys
  BY DEF Init, DeliveredKeys, ChangedKeys
<1>4. Batches = {} /\ doubted = {} /\ head = 0 /\ wm = [t \in Tables |-> 0] /\ dbwm \in {-1, 0}
  BY DEF Init, Batches, NoVersion
<1> QED
  BY <1>2, <1>3, <1>4 DEF Gate!Init

\* A step that keeps the source, Delta, the rows and the watermarks is a stutter.
LEMMA RefinesStutter ==
    UNCHANGED <<head, src, dst, ready, doubted, wm, dbwm>> => UNCHANGED Gate!vars
BY DEF Gate!vars, ChangedKeys, DeliveredKeys, Batches

LEMMA RefinesCommit ==
    ASSUME TypeOK, NEW t \in Tables, NEW k \in Keys, Commit(t, k)
    PROVE  Gate!Change(t, k)
<1>1. PICK L : src' = [src EXCEPT ![t] = [ver |-> [@.ver EXCEPT ![k] = head + 1], live |-> L]]
  BY DEF Commit
<1>2. UNCHANGED <<dst, ready, doubted, wm, dbwm>> /\ head' = head + 1
  BY DEF Commit, deltaVars, reconVars, sqlVars
<1>3. \A u \in Tables : src'[u].ver = IF u = t THEN [src[t].ver EXCEPT ![k] = head + 1]
                                              ELSE src[u].ver
  BY <1>1 DEF TypeOK
<1>4. ChangedKeys' = [ChangedKeys EXCEPT ![t][k] = head + 1]
  BY <1>3 DEF ChangedKeys
<1> QED
  BY <1>2, <1>4 DEF Gate!Change, DeliveredKeys, Batches

LEMMA RefinesMerge ==
    ASSUME TypeOK, TypeOK', VersionsProduced, CopiesBehind, NEW t \in Tables, IngestMerge(t)
    PROVE  Gate!Deliver(t)
<1>1. /\ UNCHANGED <<head, src, ready, doubted, wm, dbwm>>
      /\ dst' = [dst EXCEPT ![t] = snap[t]] /\ snapAt[t] # NoTime
  BY DEF IngestMerge, sourceVars, reconVars, sqlVars
<1>2. head \in Nat /\ \A u \in Tables, k \in Keys : dst'[u].ver[k] \in Nat /\ src[u].ver[k] \in Nat
  <2>1. dst' \in [Tables -> Image] /\ src \in [Tables -> Image] /\ head \in Nat
    BY ConstantTypes DEF TypeOK, Versions
  <2>2. \A u \in Tables : dst'[u].ver \in [Keys -> Versions] /\ src[u].ver \in [Keys -> Versions]
    BY <2>1 DEF Image
  <2> QED
    BY <2>1, <2>2, ConstantTypes DEF Versions
<1>3. \A u \in Tables : dst'[u] = IF u = t THEN snap[t] ELSE dst[u]
  BY <1>1 DEF TypeOK
<1>4. \A k \in Keys : dst[t].ver[k] <= dst'[t].ver[k] /\ dst'[t].ver[k] <= src[t].ver[k]
  BY <1>1, <1>3 DEF CopiesBehind
<1>5. \A u \in Tables, k \in Keys : dst'[u].ver[k] <= src[u].ver[k]
  BY <1>3, <1>4 DEF CopiesBehind
<1>6. \A u \in Tables, k \in Keys : dst'[u].ver[k] \in 0..head
  BY <1>2, <1>5 DEF VersionsProduced
<1>7. \A u \in Tables : dst'[u].ver \in [Keys -> 0..head]
  <2>1. \A u \in Tables : dst'[u].ver \in [Keys -> Versions]
    BY DEF TypeOK, Image
  <2> QED
    BY <1>6, <2>1
<1>8. DeliveredKeys' \in [Tables -> [Keys -> 0..head]]
  BY <1>7 DEF DeliveredKeys
<1>9. \A u \in Tables \ {t} : DeliveredKeys'[u] = DeliveredKeys[u]
  BY <1>3 DEF DeliveredKeys
<1>10. \A k \in Keys : /\ DeliveredKeys[t][k] <= DeliveredKeys'[t][k]
                       /\ DeliveredKeys'[t][k] <= ChangedKeys[t][k]
  BY <1>4 DEF DeliveredKeys, ChangedKeys
<1> QED
  BY <1>1, <1>8, <1>9, <1>10 DEF Gate!Deliver, ChangedKeys, Batches

\* The row's head, its tables, and every table besides.
LEMMA RefinesWrite ==
    ASSUME SoundInv, PublishInv', WriteReady, ready' # ready
    PROVE  poll.head \in 0..head /\ PendingTables \in SUBSET Tables
           /\ Gate!Publish(poll.head, PendingTables)
<1>1. UNCHANGED <<head, src, dst, doubted, wm, dbwm>> /\ pc = "write"
  BY DEF WriteReady, sourceVars, deltaVars, sqlVars
<1> DEFINE row == [recon_id |-> Cardinality(ready) + 1,
                   ct_head_version |-> poll.head,
                   ct_watermark_before |-> poll.before,
                   loop_started_at |-> batch[poll.head],
                   tables |-> PendingTables]
<1>2. ready' = ready \cup {row}
  BY DEF WriteReady
<1>3. row.ct_head_version = poll.head /\ row.tables = PendingTables
  OBVIOUS
<1> HIDE DEF row
<1>4. poll.head \in 0..head /\ PendingTables \in SUBSET Tables
  BY ConstantTypes DEF SoundInv, TypeOK, PollState, VersionsProduced, Versions, PendingTables
<1>5. \A t \in DeltaTsTables \ doubted : Gate!Complete(t, poll.head)
  BY <1>1 DEF SoundInv, BatchIngested, Passed, Ingested, Gate!Complete, ChangedKeys,
              DeliveredKeys, DeltaTsTables, Trusted
<1>6. \A t \in Tables \ PendingTables, k \in Keys :
          ChangedKeys[t][k] <= poll.head => ChangedKeys[t][k] <= wm[t]
  BY <1>1, <1>2, <1>3 DEF PublishInv, NothingUnlisted, ChangedKeys
<1>7. Batches' = Batches \cup {[head |-> poll.head, tables |-> PendingTables]}
  BY <1>2, <1>3 DEF Batches
<1>8. poll.head <= head
  BY <1>4
<1> QED
  BY <1>1, <1>4, <1>5, <1>6, <1>7, <1>8 DEF Gate!Publish, ChangedKeys, DeliveredKeys

LEMMA RefinesAdvance ==
    ASSUME PublishInv, NEW t \in Tables, AdvanceTable(t)
    PROVE  \E b \in Batches : Gate!Confirm(b, t)
<1> DEFINE b == [head |-> poll.head, tables |-> PendingTables]
<1>1. UNCHANGED <<head, src, dst, ready, doubted, dbwm>> /\ wm' = [wm EXCEPT ![t] = poll.head]
      /\ pc = "advance" /\ t \in poll.todo
  BY DEF AdvanceTable, AdvancedTo, sourceVars, deltaVars
<1>2. b \in Batches
  BY <1>1 DEF PublishInv, RowWritten, Batches
<1>3. t \in PendingTables /\ wm[t] <= poll.head
  BY <1>1 DEF PublishInv, RowWritten, WindowCovered
<1>4. Gate!Confirm(b, t)
  BY <1>1, <1>3 DEF Gate!Confirm, ChangedKeys, DeliveredKeys, Batches
<1> QED
  BY <1>2, <1>4

LEMMA RefinesAdvanceDb ==
    ASSUME PublishInv, AdvancedSoFar, AdvanceDb
    PROVE  \E b \in Batches : Gate!ConfirmDb(b)
<1> DEFINE b == [head |-> poll.head, tables |-> PendingTables]
<1>1. UNCHANGED <<head, src, dst, ready, doubted, wm>> /\ dbwm' = poll.head /\ pc = "advanceDb"
  BY DEF AdvanceDb, sourceVars, deltaVars
<1>2. b \in Batches
  BY <1>1 DEF PublishInv, RowWritten, Batches
<1>3. \A t \in PendingTables : wm[t] = poll.head
  BY <1>1 DEF AdvancedSoFar
<1>4. Gate!ConfirmDb(b)
  BY <1>1, <1>3 DEF Gate!ConfirmDb, ChangedKeys, DeliveredKeys, Batches
<1> QED
  BY <1>2, <1>4

\* The tables of a poll that pass on a stand-in are doubted, in whatever batch.
LEMMA RefinesEvaluate ==
    ASSUME TypeOK, Evaluate
    PROVE  \E S \in SUBSET DeltaTsTables : Gate!Doubt(S)
<1> DEFINE S == {t \in PendingTables \cap poll.standIns :
                   ~IsVerified(t) /\ Status(t) = "PASS"}
<1>1. UNCHANGED <<head, src, dst, ready, wm, dbwm>> /\ doubted' = doubted \cup S
  BY DEF Evaluate, sourceVars, deltaVars
<1>2. S \in SUBSET DeltaTsTables
  BY DEF TypeOK, PollState
<1> HIDE DEF S
<1>3. Gate!Doubt(S)
  BY <1>1 DEF Gate!Doubt, ChangedKeys, DeliveredKeys, Batches
<1> QED
  BY <1>2, <1>3

LEMMA RefinesStep ==
    ASSUME SoundInv, PublishInv, PublishInv', AdvancedSoFar, [Next]_vars
    PROVE  [Gate!Next]_(Gate!vars)
<1>1. TypeOK /\ TypeOK' /\ VersionsProduced /\ CopiesBehind
  BY DEF SoundInv, PublishInv
<1>2. CASE Environment
  <2>1. UNCHANGED <<ready, doubted, wm, dbwm>>
    BY <1>2, EnvironmentFrame DEF reconVars, sqlVars
  <2>2. ASSUME NEW t \in Tables, NEW k \in Keys, Commit(t, k) PROVE Gate!Next
    BY <1>1, <2>2, RefinesCommit DEF Gate!Next
  <2>3. ASSUME NEW t \in Tables, IngestMerge(t) PROVE Gate!Next
    BY <1>1, <2>3, RefinesMerge DEF Gate!Next
  <2>4. CASE Tick \/ \E t \in Tables : IngestRead(t)
    BY <2>1, <2>4, RefinesStutter DEF Tick, IngestRead, sourceVars, deltaVars
  <2> QED
    BY <1>2, <2>2, <2>3, <2>4 DEF Environment
<1>3. CASE WriteReady
  <2>1. UNCHANGED <<head, src, dst, doubted, wm, dbwm>>
    BY <1>3 DEF WriteReady, sourceVars, deltaVars, sqlVars
  <2>2. CASE ready' = ready
    BY <2>1, <2>2, RefinesStutter
  <2>3. CASE ready' # ready
    BY <1>3, <2>3, RefinesWrite DEF Gate!Next
  <2> QED
    BY <2>2, <2>3
<1>4. ASSUME NEW t \in Tables, AdvanceTable(t) PROVE Gate!Next
  BY <1>4, RefinesAdvance DEF Gate!Next
<1>5. CASE AdvanceDb
  BY <1>5, RefinesAdvanceDb DEF Gate!Next
<1>6. CASE Evaluate
  BY <1>1, <1>6, RefinesEvaluate DEF Gate!Next
<1>7. CASE /\ (Recon \/ Crash \/ UNCHANGED vars)
           /\ ~Evaluate /\ ~WriteReady /\ ~AdvanceDb /\ \A t \in Tables : ~AdvanceTable(t)
  <2>1. UNCHANGED <<head, src, dst>>
    BY <1>7, ReconFrame DEF sourceVars, deltaVars, vars
  <2>2. UNCHANGED <<ready, doubted, wm, dbwm>>
    BY <1>7, ReadyFrame, DoubtedFrame, WatermarkFrame, DbWatermarkFrame
  <2> QED
    BY <2>1, <2>2, RefinesStutter
<1> QED
  BY <1>2, <1>3, <1>4, <1>5, <1>6, <1>7 DEF Next

\* The job publishes and confirms nothing that ReconGate would not, if the pipeline's
\* delay stays below table_quiesce_sec, whatever fails or crashes.
THEOREM JobImplementsGate ==
    ASSUME Lag < Quiesce
    PROVE  Spec => ImplementsGate
<1> DEFINE Inv == SoundInv /\ PublishInv /\ AdvancedSoFar
<1>1. Init => Inv
  BY SoundInit, PublishInit DEF Init, AdvancedSoFar
<1>2. Inv /\ [Next]_vars => Inv'
  BY SoundStep, PublishStep, AdvancedSoFarStep DEF SoundInv
<1>3. Inv /\ Inv' /\ [Next]_vars => [Gate!Next]_(Gate!vars)
  BY RefinesStep
<1> HIDE DEF Inv
<1> QED
  BY RefinesInit, <1>1, <1>2, <1>3, PTL DEF Spec, ImplementsGate, Gate!Spec

===========================================================================
