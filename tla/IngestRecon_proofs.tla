------------------------ MODULE IngestRecon_proofs ------------------------
(* Proofs about IngestRecon, for every value of its constants. *)
EXTENDS IngestReconInv, TLAPS, FiniteSetTheorems

-----------------------------------------------------------------------------
(* Facts about the values *)

\* What ConstantsAssumption says of the bounds, in the form SMT wants it.
LEMMA ConstantTypes ==
    /\ CountTables \subseteq Tables
    /\ IsFiniteSet(Keys)
    /\ MaxVersion \in Nat /\ MaxTime \in Nat
    /\ Quiesce \in Nat /\ Lag \in Nat
    /\ MaxCrashes \in Nat /\ MaxFaults \in Nat
BY ConstantsAssumption

\* A set of integers with an upper bound has a largest member.
LEMMA LargestExists ==
    ASSUME NEW n \in Nat, NEW S, S \subseteq Int, \A s \in S : s <= n, S # {}
    PROVE  \E c \in S : \A d \in S : d <= c
<1> DEFINE U == {m \in Nat : n - m \in S}
<1>1. U \subseteq Nat /\ U # {}
  <2>1. PICK s \in S : TRUE
    OBVIOUS
  <2>2. s \in Int /\ s <= n /\ n - (n - s) = s /\ n - s \in Nat
    OBVIOUS
  <2> QED
    BY <2>1, <2>2
<1>2. \E x \in U : \A y \in U : ~ (<<y, x>> \in OpToRel(<, Nat))
  BY <1>1, NatLessThanWellFounded, WFMin, Zenon
<1>3. PICK x \in U : \A y \in U : ~ (y < x)
  BY <1>1, <1>2 DEF OpToRel
<1>4. ASSUME NEW d \in S
      PROVE  d <= n - x
  <2>1. d \in Int /\ n - (n - d) = d /\ n - d \in Nat
    OBVIOUS
  <2>2. n - d \in U
    BY <2>1
  <2>3. ~ (n - d < x)
    BY <2>2, <1>3, Zenon
  <2>4. x \in Nat
    OBVIOUS
  <2> HIDE DEF U
  <2> QED
    BY <2>1, <2>3, <2>4
<1> QED
  BY <1>3, <1>4

\* What ReadCommitTimes reads is a time, and no earlier than any commit it covers.
LEMMA LatestCommitBounds ==
    ASSUME TypeOK, NEW t \in Tables, NEW w, NEW h
    PROVE  /\ LatestCommit(t, w, h) \in MaybeTime
           /\ \A k \in PendingKeys(t, w, h) : commitAt[src[t].ver[k]] <= LatestCommit(t, w, h)
<1> DEFINE times == {commitAt[src[t].ver[k]] : k \in PendingKeys(t, w, h)}
<1>1. times \subseteq MaybeTime
  BY DEF TypeOK, PendingKeys, Image
<1>2. CASE times = {}
  <2>1. LatestCommit(t, w, h) = NoTime
    BY <1>2 DEF LatestCommit
  <2>2. PendingKeys(t, w, h) = {}
    BY <1>2
  <2> QED
    BY <2>1, <2>2 DEF MaybeTime
<1>3. CASE times # {}
  <2>1. \E c \in times : \A d \in times : d <= c
    <3>1. times \subseteq Int /\ \A s \in times : s <= MaxTime
      BY <1>1, ConstantTypes DEF MaybeTime, Times, NoTime
    <3> HIDE DEF times
    <3> QED
      BY <3>1, <1>3, LargestExists, ConstantTypes
  <2>2. LatestCommit(t, w, h) = CHOOSE c \in times : \A d \in times : d <= c
    BY <1>3 DEF LatestCommit
  <2>3. LatestCommit(t, w, h) \in times /\ \A d \in times : d <= LatestCommit(t, w, h)
    <3> HIDE DEF times
    <3> QED
      BY <2>1, <2>2
  <2> QED
    BY <2>3, <1>1
<1> QED
  BY <1>2, <1>3

\* CountChanges stores a natural number for every table, positive when a key is pending.
LEMMA PendingFinite ==
    ASSUME NEW t, NEW w, NEW h
    PROVE  /\ IsFiniteSet(PendingKeys(t, w, h))
           /\ Cardinality(PendingKeys(t, w, h)) \in Nat
           /\ Cardinality(PendingKeys(t, w, h)) = 0 <=> PendingKeys(t, w, h) = {}
<1>1. PendingKeys(t, w, h) \in SUBSET Keys
  BY DEF PendingKeys
<1> QED
  BY <1>1, ConstantTypes, FS_Subset, FS_CardinalityType, FS_EmptySet

-----------------------------------------------------------------------------
(* Type correctness *)

\* The initial states are well typed.
LEMMA InitTypeOK == Init => TypeOK
<1> SUFFICES ASSUME Init PROVE TypeOK
  OBVIOUS
<1> USE ConstantTypes DEF Init, Versions, Times, MaybeTime, NoTime, NoVersion, NoCount, Counts
<1>1. src \in [Tables -> Image]
  BY DEF Image
<1>2. poll \in PollState
  BY DEF NoPoll, PollState
<1> QED
  BY <1>1, <1>2, FS_EmptySet DEF TypeOK, Steps

\* The record of a poll that has read nothing is well typed.
LEMMA NoPollType == NoPoll \in PollState
BY ConstantTypes DEF NoPoll, PollState, Versions, Times, MaybeTime, NoTime, NoVersion,
                     NoCount, Counts

\* Every step, of the source, the pipeline or a poll, keeps the types.
LEMMA NextTypeOK == TypeOK /\ [Next]_vars => TypeOK'
<1> SUFFICES ASSUME TypeOK, [Next]_vars PROVE TypeOK'
  OBVIOUS
<1> USE ConstantTypes, NoPollType DEF EndPoll, Ok, Fail, TypeOK
<1>1. ASSUME NEW t \in Tables, NEW k \in Keys, Commit(t, k) PROVE TypeOK'
  <2>1. src' \in [Tables -> Image]
    BY <1>1 DEF Commit, Image, Versions
  <2>2. head' \in Versions /\ commitAt' \in [Versions -> MaybeTime]
    BY <1>1 DEF Commit, Versions, MaybeTime
  <2> QED
    BY <2>1, <2>2, <1>1 DEF Commit, deltaVars, reconVars, sqlVars, cacheVars
<1>2. CASE Tick
  BY <1>2 DEF Tick, Times, deltaVars, reconVars, sqlVars, cacheVars
<1>3. ASSUME NEW t \in Tables, IngestRead(t) PROVE TypeOK'
  BY <1>3 DEF IngestRead, MaybeTime, sourceVars, reconVars, sqlVars, cacheVars
<1>4. ASSUME NEW t \in Tables, IngestMerge(t) PROVE TypeOK'
  BY <1>4 DEF IngestMerge, MaybeTime, sourceVars, reconVars, sqlVars, cacheVars
<1> USE DEF sourceVars, deltaVars
<1>5. CASE ReadHead
  <2>1. [NoPoll EXCEPT !.head = head] \in PollState
    BY DEF PollState
  <2> QED
    BY <1>5, <2>1 DEF ReadHead, Steps, sqlVars, cacheVars
<1>6. CASE ReadWatermarks
  <2>1. poll' \in PollState
    <3>1. [poll EXCEPT !.wm = wm, !.wmAt = wmAt] \in PollState
      BY DEF PollState
    <3>2. [poll EXCEPT !.wm = [t \in Tables |-> 0],
                       !.wmAt = [t \in Tables |-> NoTime]] \in PollState
      <4>1. [t \in Tables |-> 0] \in [Tables -> Versions]
        BY DEF Versions
      <4>2. [t \in Tables |-> NoTime] \in [Tables -> MaybeTime]
        BY DEF MaybeTime
      <4> QED
        BY <4>1, <4>2 DEF PollState
    <3> QED
      BY <1>6, <3>1, <3>2 DEF ReadWatermarks
  <2> QED
    BY <1>6, <2>1 DEF ReadWatermarks, Steps, sqlVars, cacheVars
<1>7. CASE CountChanges
  <2>1. [t \in Tables |-> Cardinality(PendingKeys(t, poll.wm[t], poll.head))] \in [Tables -> Nat]
    BY PendingFinite
  <2>2. poll' \in PollState
    BY <1>7, <2>1 DEF CountChanges, PollState
  <2> QED
    BY <1>7, <2>2 DEF CountChanges, Steps, sqlVars, cacheVars
<1>8. CASE ReadCommitTimes
  <2>1. PICK committedAt \in {[t \in Tables |-> LatestCommit(t, poll.wm[t], poll.head)],
                              [t \in Tables |-> NoTime]},
             standIns \in {{}, PendingTables \cap DeltaTsTables} :
          poll' = [poll EXCEPT
             !.ref = [t \in Tables |-> IF t \in PendingTables
                                       THEN Reference(poll.wmAt[t], committedAt[t])
                                       ELSE NoTime],
             !.standIns = @ \cup standIns]
    BY <1>8 DEF ReadCommitTimes
  <2>2. committedAt \in [Tables -> MaybeTime]
    BY <2>1, LatestCommitBounds DEF MaybeTime
  <2>3. poll' \in PollState
    BY <2>1, <2>2 DEF PollState, Reference, Larger, MaybeTime
  <2> QED
    BY <1>8, <2>3 DEF ReadCommitTimes, Steps, sqlVars, cacheVars
<1>9. CASE MarkBatch
  <2>1. FirstDetection \in MaybeTime
    BY DEF FirstDetection, MaybeTime, PollState
  <2>2. batch' \in [Versions -> MaybeTime] /\ detected' \in [Versions -> MaybeTime]
    BY <1>9, <2>1 DEF MarkBatch
  <2>3. poll' \in PollState /\ pc' \in Steps
    BY <1>9 DEF MarkBatch, Steps
  <2> QED
    BY <1>9, <2>2, <2>3 DEF MarkBatch
<1>10. CASE ReadSqlCounts
  <2>1. \A t \in Tables : Cardinality(src[t].live) \in Nat
    BY FS_Subset, FS_CardinalityType DEF Image
  <2>2. poll' \in PollState
    <3>1. PICK S \in Samples, counts \in {[t \in Tables |-> Cardinality(src[t].live)],
                                          [t \in Tables |-> NoCount]} :
            poll' = [poll EXCEPT
                       !.sample = S,
                       !.sqlCount = [t \in Tables |-> IF t \in S THEN counts[t] ELSE NoCount],
                       !.todo = {t \in PendingTables : t \in S \/ t \notin CountTables}]
      BY <1>10 DEF ReadSqlCounts
    <3>2. counts \in [Tables -> Counts]
      BY <2>1, <3>1 DEF Counts
    <3>3. S \in SUBSET Tables
      BY <3>1 DEF Samples, SampleCandidates
    <3> QED
      BY <3>1, <3>2, <3>3 DEF PollState, PendingTables, Counts
  <2> QED
    BY <1>10, <2>2 DEF ReadSqlCounts, Steps, sqlVars, cacheVars
<1>11. ASSUME NEW t \in Tables, ReadDelta(t) PROVE TypeOK'
  <2>1. Cardinality(dst[t].live) \in Nat
    BY FS_Subset, FS_CardinalityType DEF Image
  <2>2. poll' \in PollState
    <3> DEFINE read == [poll EXCEPT !.todo = @ \ {t}]
    <3>1. read \in PollState
      BY DEF PollState
    <3>2. [read EXCEPT !.deltaCount[t] = Cardinality(dst[t].live)] \in PollState
      BY <2>1, <3>1 DEF PollState, Counts
    <3>3. [read EXCEPT !.lastWrite[t] = lastMerge[t]] \in PollState
      BY <3>1 DEF PollState
    <3>4. ASSUME NEW modified \in 0..now, t \notin CountTables
          PROVE  [read EXCEPT !.lastWrite[t] = modified, !.standIns = @ \cup {t}] \in PollState
      <4>1. modified \in MaybeTime
        BY DEF MaybeTime, Times
      <4> QED
        BY <3>1, <3>4, <4>1 DEF PollState, DeltaTsTables
    <3>5. \/ poll' = read
          \/ poll' = [read EXCEPT !.deltaCount[t] = Cardinality(dst[t].live)]
          \/ poll' = [read EXCEPT !.lastWrite[t] = lastMerge[t]]
          \/ t \notin CountTables /\ \E modified \in 0..now :
                poll' = [read EXCEPT !.lastWrite[t] = modified, !.standIns = @ \cup {t}]
      BY <1>11 DEF ReadDelta
    <3> HIDE DEF read
    <3> QED
      BY <3>1, <3>2, <3>3, <3>4, <3>5
  <2>3. faults' \in 0..MaxFaults
    <3>1. Ok \/ Fail("history") \/ Fail("deltaRead")
      <4> HIDE DEF Ok, Fail
      <4> QED
        BY <1>11 DEF ReadDelta
    <3> QED
      BY <3>1
  <2>4. pc' \in Steps /\ UNCHANGED <<sourceVars, deltaVars, sqlVars, ready, doubted, cacheVars,
                                     crashes>>
    BY <1>11 DEF ReadDelta, Steps
  <2> QED
    BY <2>2, <2>3, <2>4 DEF sqlVars, cacheVars
<1>12. CASE ReadDbWatermark
  <2>1. poll' \in PollState
    BY <1>12 DEF ReadDbWatermark, PollState
  <2> QED
    BY <1>12, <2>1 DEF ReadDbWatermark, Steps, sqlVars, cacheVars
<1>13. CASE Evaluate
  <2>1. claimed' \in [Tables -> Versions]
    BY <1>13 DEF Evaluate, Larger, PollState
  <2>2. verified' \subseteq Tables \X Versions
    BY <1>13 DEF Evaluate, PendingTables, PollState
  <2>3. doubted' \subseteq DeltaTsTables
    BY <1>13 DEF Evaluate, PollState
  <2>4. poll' \in PollState /\ pc' \in Steps
    BY <1>13 DEF Evaluate, Steps
  <2> QED
    BY <1>13, <2>1, <2>2, <2>3, <2>4 DEF Evaluate
<1>14. CASE CheckRecorded
  BY <1>14 DEF CheckRecorded, Steps, sqlVars, cacheVars
<1>15. CASE WriteReady
  <2>1. poll' \in PollState
    <3>1. [poll EXCEPT !.todo = PendingTables] \in PollState
      BY DEF PollState, PendingTables
    <3>2. poll' = poll \/ poll' = NoPoll \/ poll' = [poll EXCEPT !.todo = PendingTables]
      BY <1>15 DEF WriteReady
    <3> QED
      BY <3>1, <3>2
  <2>2. ready' \subseteq ReadyRow /\ IsFiniteSet(ready')
    <3> DEFINE row == [recon_id |-> Cardinality(ready) + 1,
                       ct_head_version |-> poll.head,
                       ct_watermark_before |-> poll.before,
                       loop_started_at |-> batch[poll.head],
                       tables |-> PendingTables]
    <3>1. Cardinality(ready) + 1 \in Nat
      BY FS_CardinalityType
    <3>2. row \in ReadyRow
      BY <3>1 DEF PollState, PendingTables, ReadyRow
    <3>3. ready' = ready \/ ready' = ready \cup {row}
      BY <1>15 DEF WriteReady
    <3> HIDE DEF row
    <3> QED
      BY <3>2, <3>3, FS_AddElement
  <2> QED
    BY <1>15, <2>1, <2>2 DEF WriteReady, Steps, sqlVars, cacheVars
<1>16. ASSUME NEW t \in Tables, AdvanceTable(t) PROVE TypeOK'
  <2>1. poll' \in PollState
    BY <1>16 DEF AdvanceTable, PollState
  <2> QED
    BY <1>16, <2>1 DEF AdvanceTable, AdvancedTo, Steps, PollState, MaybeTime, cacheVars
<1>17. CASE AdvanceDb
  BY <1>17 DEF AdvanceDb, Steps, PollState, MaybeTime
<1>18. CASE Crash
  BY <1>18 DEF Crash, Steps, sqlVars, MaybeTime
<1>19. CASE UNCHANGED vars
  BY <1>19 DEF vars, reconVars, sqlVars, cacheVars
<1> QED
  BY <1>1, <1>2, <1>3, <1>4, <1>5, <1>6, <1>7, <1>8, <1>9, <1>10, <1>11, <1>12, <1>13,
     <1>14, <1>15, <1>16, <1>17, <1>18, <1>19 DEF Next, Environment, Recon

\* Every reachable state is well typed: what the calls of a poll hand to each other,
\* and what the tables of the recon database hold, keeps its form through every failure.
THEOREM TypeCorrect == Spec => []TypeOK
<1> QED
  BY InitTypeOK, NextTypeOK, PTL DEF Spec

-----------------------------------------------------------------------------
(* What a step leaves alone *)

\* The source and the pipeline change nothing of the recon job's.
LEMMA EnvironmentFrame == Environment => UNCHANGED reconVars
BY DEF Environment, Commit, Tick, IngestRead, IngestMerge, reconVars

\* The recon job changes neither the source nor the Delta tables.
LEMMA ReconFrame == Recon \/ Crash => UNCHANGED <<sourceVars, deltaVars>>
BY DEF Recon, Crash, ReadHead, ReadWatermarks, CountChanges, ReadCommitTimes, MarkBatch,
       ReadSqlCounts, ReadDelta, ReadDbWatermark, Evaluate, CheckRecorded, WriteReady,
       AdvanceTable, AdvanceDb

\* Only upsert_table_watermark moves a table's watermark.
LEMMA WatermarkFrame == [Next]_vars => wm' = wm \/ \E t \in Tables : AdvanceTable(t)
BY EnvironmentFrame
   DEF Next, Recon, ReadHead, ReadWatermarks, CountChanges, ReadCommitTimes, MarkBatch,
       ReadSqlCounts, ReadDelta, ReadDbWatermark, Evaluate, CheckRecorded, WriteReady,
       AdvanceDb, Crash, sqlVars, reconVars, vars

\* Only write_recon_ready_rows adds rows.
LEMMA ReadyFrame == [Next]_vars => ready' = ready \/ WriteReady
BY EnvironmentFrame
   DEF Next, Recon, ReadHead, ReadWatermarks, CountChanges, ReadCommitTimes, MarkBatch,
       ReadSqlCounts, ReadDelta, ReadDbWatermark, Evaluate, CheckRecorded,
       AdvanceTable, AdvanceDb, Crash, reconVars, vars

\* Only the evaluation adds to the verified caches.
LEMMA VerifiedFrame == [Next]_vars => verified' \subseteq verified \/ Evaluate
BY EnvironmentFrame
   DEF Next, Recon, ReadHead, ReadWatermarks, CountChanges, ReadCommitTimes, MarkBatch,
       ReadSqlCounts, ReadDelta, ReadDbWatermark, CheckRecorded, WriteReady,
       AdvanceTable, AdvanceDb, Crash, cacheVars, reconVars, vars

\* Only the evaluation doubts a table, and none is trusted again.
LEMMA DoubtedFrame ==
    [Next]_vars => \/ doubted' = doubted
                   \/ Evaluate /\ doubted \subseteq doubted'
BY EnvironmentFrame
   DEF Next, Recon, ReadHead, ReadWatermarks, CountChanges, ReadCommitTimes, MarkBatch,
       ReadSqlCounts, ReadDelta, ReadDbWatermark, Evaluate, CheckRecorded, WriteReady,
       AdvanceTable, AdvanceDb, Crash, reconVars, vars

\* Within a poll its head is fixed; otherwise it ends, or starts at the current head.
LEMMA PollHeadStep ==
    ASSUME TypeOK, [Next]_vars
    PROVE  \/ poll'.head = poll.head
           \/ pc' = "idle" /\ poll' = NoPoll
           \/ pc' = "watermarks" /\ poll'.head = head
<1> USE DEF TypeOK, PollState, EndPoll
<1>1. CASE Environment
  BY <1>1, EnvironmentFrame DEF reconVars
<1>2. CASE ReadHead
  BY <1>2 DEF ReadHead, NoPoll
<1>3. CASE ReadWatermarks
  BY <1>3 DEF ReadWatermarks
<1>4. CASE CountChanges
  BY <1>4 DEF CountChanges
<1>5. CASE ReadCommitTimes
  BY <1>5 DEF ReadCommitTimes
<1>6. CASE MarkBatch
  BY <1>6 DEF MarkBatch
<1>7. CASE ReadSqlCounts
  BY <1>7 DEF ReadSqlCounts
<1>8. ASSUME NEW t \in Tables, ReadDelta(t) PROVE poll'.head = poll.head
  BY <1>8 DEF ReadDelta
<1>9. CASE ReadDbWatermark
  BY <1>9 DEF ReadDbWatermark
<1>10. CASE Evaluate \/ CheckRecorded
  BY <1>10 DEF Evaluate, CheckRecorded
<1>11. CASE WriteReady
  BY <1>11 DEF WriteReady
<1>12. ASSUME NEW t \in Tables, AdvanceTable(t) PROVE poll'.head = poll.head
  BY <1>12 DEF AdvanceTable
<1>13. CASE AdvanceDb \/ Crash \/ UNCHANGED vars
  BY <1>13 DEF AdvanceDb, Crash, vars, reconVars
<1> QED
  BY <1>1, <1>2, <1>3, <1>4, <1>5, <1>6, <1>7, <1>8, <1>9, <1>10, <1>11, <1>12, <1>13
     DEF Next, Recon

\* A read of Delta adds one table's time, and notes when it stands in for another.
LEMMA DeltaReadStep ==
    ASSUME TypeOK, NEW t \in Tables, ReadDelta(t)
    PROVE  /\ poll'.head = poll.head /\ poll'.wm = poll.wm
           /\ poll'.pending = poll.pending /\ poll'.ref = poll.ref
           /\ \/ /\ poll'.standIns = poll.standIns
                 /\ \A u \in Tables : poll'.lastWrite[u] \in {poll.lastWrite[u], lastMerge[u]}
              \/ /\ "history" \in MayFail
                 /\ poll'.standIns = poll.standIns \cup {t}
                 /\ \A u \in Tables \ {t} : poll'.lastWrite[u] = poll.lastWrite[u]
<1> DEFINE read == [poll EXCEPT !.todo = @ \ {t}]
<1> USE DEF TypeOK, PollState
<1>1. CASE poll' = read \/ poll' = [read EXCEPT !.deltaCount[t] = Cardinality(dst[t].live)]
  BY <1>1
<1>2. CASE poll' = [read EXCEPT !.lastWrite[t] = lastMerge[t]]
  BY <1>2
<1>3. ASSUME "history" \in MayFail, NEW modified \in 0..now,
             poll' = [read EXCEPT !.lastWrite[t] = modified, !.standIns = @ \cup {t}]
      PROVE  /\ poll'.head = poll.head /\ poll'.wm = poll.wm
             /\ poll'.pending = poll.pending /\ poll'.ref = poll.ref
             /\ poll'.standIns = poll.standIns \cup {t}
             /\ \A u \in Tables \ {t} : poll'.lastWrite[u] = poll.lastWrite[u]
  BY <1>3
<1>4. \/ poll' = read \/ poll' = [read EXCEPT !.deltaCount[t] = Cardinality(dst[t].live)]
      \/ poll' = [read EXCEPT !.lastWrite[t] = lastMerge[t]]
      \/ "history" \in MayFail /\ \E modified \in 0..now :
            poll' = [read EXCEPT !.lastWrite[t] = modified, !.standIns = @ \cup {t}]
  BY Zenon DEF ReadDelta, Fail
<1> HIDE DEF read
<1> QED
  BY <1>1, <1>2, <1>3, <1>4

\* The source only adds versions: a row keeps its version or gets the next one, and
\* the time of a version never changes.
LEMMA SourceStep ==
    ASSUME TypeOK, [Next]_vars
    PROVE  /\ head' \in Int /\ head <= head'
           /\ now' \in Int /\ now <= now'
           /\ \A t \in Tables, k \in Keys :
                 \/ src'[t].ver[k] = src[t].ver[k]
                 \/ src'[t].ver[k] = head + 1 /\ head' = head + 1
           /\ \A v \in Versions : v <= head => commitAt'[v] = commitAt[v]
<1> USE ConstantTypes DEF TypeOK, Versions, Times
<1>1. ASSUME NEW t \in Tables, NEW k \in Keys, Commit(t, k)
      PROVE  /\ head' = head + 1 /\ now' = now
             /\ \A u \in Tables, j \in Keys :
                   src'[u].ver[j] = src[u].ver[j] \/ src'[u].ver[j] = head + 1
             /\ \A v \in Versions : v <= head => commitAt'[v] = commitAt[v]
  BY <1>1 DEF Commit, Image
<1>2. CASE Tick
  BY <1>2 DEF Tick
<1>3. CASE UNCHANGED sourceVars
  BY <1>3 DEF sourceVars
<1> QED
  BY <1>1, <1>2, <1>3, ReconFrame DEF Next, Environment, IngestRead, IngestMerge, vars

\* Delta only takes what was read of the source, and every MERGE is later.
LEMMA MergeStep ==
    ASSUME TypeOK, TimesPast, [Next]_vars
    PROVE  /\ \A t \in Tables :
                 \/ dst'[t] = dst[t]
                 \/ snapAt[t] # NoTime /\ dst'[t] = snap[t] /\ src' = src
           /\ \A t \in DeltaTsTables : lastMerge[t] <= lastMerge'[t]
<1> USE DEF TypeOK, TimesPast, DeltaTsTables
<1>1. ASSUME NEW t \in Tables, IngestMerge(t)
      PROVE  /\ \A u \in Tables : \/ dst'[u] = dst[u]
                                  \/ snapAt[u] # NoTime /\ dst'[u] = snap[u] /\ src' = src
             /\ \A u \in DeltaTsTables : lastMerge[u] <= lastMerge'[u]
  BY <1>1, ConstantTypes DEF IngestMerge, sourceVars, MaybeTime, Times, NoTime
<1>2. CASE UNCHANGED <<dst, lastMerge>>
  BY <1>2, ConstantTypes DEF MaybeTime, Times, NoTime
<1> QED
  BY <1>1, <1>2, ReconFrame
     DEF Next, Environment, Commit, Tick, IngestRead, deltaVars, vars

-----------------------------------------------------------------------------
(* The source and the copies of it *)

\* No step makes up a version.
LEMMA VersionsProducedStep == TypeOK /\ VersionsProduced /\ [Next]_vars => VersionsProduced'
<1> SUFFICES ASSUME TypeOK, VersionsProduced, [Next]_vars PROVE VersionsProduced'
  OBVIOUS
<1> USE ConstantTypes DEF TypeOK, Versions
<1>1. head \in Int /\ head' \in Int /\ head <= head'
  BY SourceStep
<1>2. \A t \in Tables, k \in Keys : src'[t].ver[k] <= head'
  <2>1. \A t \in Tables, k \in Keys : src[t].ver[k] \in Int /\ src[t].ver[k] <= head
    BY DEF VersionsProduced, Image
  <2>2. \A t \in Tables, k \in Keys :
           \/ src'[t].ver[k] = src[t].ver[k]
           \/ src'[t].ver[k] = head + 1 /\ head' = head + 1
    BY SourceStep
  <2> HIDE DEF TypeOK
  <2> QED
    BY <2>1, <2>2, <1>1
<1>3. poll'.head <= head'
  <2>1. poll.head \in Int /\ head \in Int /\ poll.head <= head
    BY DEF VersionsProduced, PollState
  <2> QED
    BY <2>1, <1>1, PollHeadStep DEF NoPoll
<1>4. \A t \in Tables : wm'[t] <= head'
  <2>1. \A t \in Tables : wm'[t] = wm[t] \/ wm'[t] = poll.head
    BY WatermarkFrame DEF AdvanceTable, AdvancedTo
  <2>2. \A t \in Tables : wm[t] \in Int /\ wm[t] <= head
    BY DEF VersionsProduced
  <2>3. poll.head \in Int /\ poll.head <= head
    BY DEF VersionsProduced, PollState
  <2> HIDE DEF TypeOK
  <2> QED
    BY <2>1, <2>2, <2>3, <1>1
<1>5. \A r \in ready' : r.ct_head_version <= head'
  <2>1. \A r \in ready' : r \in ready \/ r.ct_head_version = poll.head
    BY ReadyFrame DEF WriteReady
  <2>2. \A r \in ready : r.ct_head_version \in Int /\ r.ct_head_version <= head
    BY DEF VersionsProduced, ReadyRow
  <2>3. poll.head \in Int /\ poll.head <= head
    BY DEF VersionsProduced, PollState
  <2> HIDE DEF TypeOK
  <2> QED
    BY <2>1, <2>2, <2>3, <1>1
<1>6. \A e \in verified' : e[2] <= head'
  <2>1. \A e \in verified' : e \in verified \/ e[2] = poll.head
    BY VerifiedFrame DEF Evaluate
  <2>2. \A e \in verified : e[2] \in Int /\ e[2] <= head
    BY DEF VersionsProduced
  <2>3. poll.head \in Int /\ poll.head <= head
    BY DEF VersionsProduced, PollState
  <2> HIDE DEF TypeOK
  <2> QED
    BY <2>1, <2>2, <2>3, <1>1
<1> QED
  BY <1>2, <1>3, <1>4, <1>5, <1>6 DEF VersionsProduced

\* No step records a time that has not come.
LEMMA TimesPastStep == TypeOK /\ TimesPast /\ [Next]_vars => TimesPast'
<1> SUFFICES ASSUME TypeOK, TimesPast, [Next]_vars PROVE TimesPast'
  OBVIOUS
<1> USE ConstantTypes DEF TypeOK, TimesPast, Versions, Times, MaybeTime, NoTime
<1>1. ASSUME NEW t \in Tables, NEW k \in Keys, Commit(t, k) PROVE TimesPast'
  <2>1. \A v \in Versions : 0 < v /\ v <= head' => 0 <= commitAt'[v] /\ commitAt'[v] <= now'
    BY <1>1 DEF Commit
  <2> QED
    BY <1>1, <2>1 DEF Commit, deltaVars
<1>2. CASE Tick
  <2>1. now' = now + 1 /\ UNCHANGED <<head, commitAt, lastMerge>>
    BY <1>2 DEF Tick, deltaVars
  <2>2. \A v \in Versions : commitAt[v] \in Int
    OBVIOUS
  <2>3. now \in Int /\ \A u \in Tables : lastMerge[u] \in Int
    OBVIOUS
  <2> HIDE DEF TypeOK
  <2> QED
    BY <2>1, <2>2, <2>3
<1>3. ASSUME NEW t \in Tables, IngestMerge(t) PROVE TimesPast'
  <2>1. \A u \in Tables : lastMerge'[u] <= now
    BY <1>3 DEF IngestMerge
  <2> QED
    BY <1>3, <2>1 DEF IngestMerge, sourceVars
<1>4. CASE UNCHANGED <<sourceVars, lastMerge>>
  BY <1>4 DEF sourceVars
<1> QED
  BY <1>1, <1>2, <1>3, <1>4, ReconFrame
     DEF Next, Environment, IngestRead, deltaVars, vars

\* A commit moves the source forward, a read the copy, a MERGE the Delta table.
LEMMA CopiesBehindStep ==
    TypeOK /\ VersionsProduced /\ CopiesBehind /\ [Next]_vars => CopiesBehind'
<1> SUFFICES ASSUME TypeOK, VersionsProduced, CopiesBehind, [Next]_vars PROVE CopiesBehind'
  OBVIOUS
<1>1. \A t \in Tables, k \in Keys : /\ src[t].ver[k] \in Int
                                  /\ dst[t].ver[k] \in Int
                                  /\ snap[t].ver[k] \in Int
  BY ConstantTypes DEF TypeOK, Image, Versions
<1>2. ASSUME NEW t \in Tables, NEW k \in Keys, Commit(t, k) PROVE CopiesBehind'
  <2>1. \A u \in Tables, j \in Keys : src'[u].ver[j] \in Int /\ src[u].ver[j] <= src'[u].ver[j]
    <3>1. \A u \in Tables, j \in Keys :
            src'[u].ver[j] = src[u].ver[j] \/ src'[u].ver[j] = head + 1
      BY SourceStep
    <3>2. head \in Int /\ \A u \in Tables, j \in Keys : src[u].ver[j] <= head
      BY ConstantTypes DEF TypeOK, VersionsProduced, Versions
    <3> QED
      BY <3>1, <3>2, <1>1
  <2> QED
    BY <1>1, <1>2, <2>1 DEF CopiesBehind, Commit, deltaVars
<1>3. ASSUME NEW t \in Tables, IngestRead(t) PROVE CopiesBehind'
  BY <1>1, <1>3 DEF CopiesBehind, IngestRead, sourceVars, TypeOK
<1>4. ASSUME NEW t \in Tables, IngestMerge(t) PROVE CopiesBehind'
  BY <1>1, <1>4 DEF CopiesBehind, IngestMerge, sourceVars, TypeOK
<1>5. CASE UNCHANGED <<src, deltaVars>>
  BY <1>5 DEF CopiesBehind, deltaVars
<1> QED
  BY <1>2, <1>3, <1>4, <1>5, ReconFrame
     DEF Next, Environment, Tick, sourceVars, vars

\* The clock waits for a MERGE in flight, and a commit is no earlier than the read.
LEMMA FlightRecentStep ==
    TypeOK /\ VersionsProduced /\ TimesPast /\ FlightRecent /\ [Next]_vars => FlightRecent'
<1> SUFFICES ASSUME TypeOK, VersionsProduced, TimesPast, FlightRecent, [Next]_vars
             PROVE  FlightRecent'
  OBVIOUS
<1>1. /\ now \in Int /\ Lag \in Nat
      /\ \A t \in Tables : snapAt[t] \in Int
      /\ \A t \in Tables, k \in Keys : src[t].ver[k] \in Versions /\ src[t].ver[k] <= head
  BY ConstantTypes DEF TypeOK, VersionsProduced, Image, MaybeTime, Times, NoTime
<1>2. ASSUME NEW t \in Tables, NEW k \in Keys, Commit(t, k) PROVE FlightRecent'
  <2>1. snap' = snap /\ snapAt' = snapAt /\ now' = now
    BY <1>2 DEF Commit, deltaVars
  <2>2. \A u \in Tables, j \in Keys :
           \/ src'[u].ver[j] = src[u].ver[j]
           \/ src'[u].ver[j] = head + 1
    BY SourceStep
  <2>3. \A v \in Versions : v <= head => commitAt'[v] = commitAt[v]
    BY SourceStep
  <2>4. commitAt'[head + 1] = now
    BY <1>2, ConstantTypes DEF Commit, TypeOK, Versions
  <2>5. ASSUME NEW u \in Tables, snapAt[u] # NoTime, NEW j \in Keys,
               snap[u].ver[j] # src'[u].ver[j]
        PROVE  snapAt[u] <= commitAt'[src'[u].ver[j]]
    <3>1. CASE src'[u].ver[j] = src[u].ver[j]
      BY <3>1, <2>3, <2>5, <1>1 DEF FlightRecent
    <3>2. CASE src'[u].ver[j] = head + 1
      BY <3>2, <2>4, <2>5, <1>1 DEF FlightRecent
    <3> QED
      BY <3>1, <3>2, <2>2
  <2> QED
    BY <2>1, <2>5, <1>1 DEF FlightRecent
<1>3. CASE Tick
  BY <1>1, <1>3 DEF FlightRecent, Tick, deltaVars
<1>4. ASSUME NEW t \in Tables, IngestRead(t) PROVE FlightRecent'
  BY <1>1, <1>4 DEF FlightRecent, IngestRead, sourceVars, TypeOK
<1>5. ASSUME NEW t \in Tables, IngestMerge(t) PROVE FlightRecent'
  BY <1>1, <1>5 DEF FlightRecent, IngestMerge, sourceVars, TypeOK
<1>6. CASE UNCHANGED <<sourceVars, deltaVars>>
  BY <1>6 DEF FlightRecent, sourceVars, deltaVars
<1> QED
  BY <1>2, <1>3, <1>4, <1>5, <1>6, ReconFrame DEF Next, Environment, vars

\* The MERGE that leaves a change out was read before the change, at most Lag ago:
\* a Quiesce longer than Lag is what makes the timestamp rule sound.
LEMMA MissingRecentStep ==
    ASSUME Lag < Quiesce
    PROVE  /\ TypeOK /\ VersionsProduced /\ TimesPast /\ CopiesBehind
           /\ FlightRecent /\ MissingRecent /\ [Next]_vars
           => MissingRecent'
<1> SUFFICES ASSUME TypeOK, VersionsProduced, TimesPast, CopiesBehind,
                    FlightRecent, MissingRecent, [Next]_vars
             PROVE  MissingRecent'
  OBVIOUS
<1>1. /\ now \in Int /\ head \in Int /\ Lag \in Nat /\ Quiesce \in Nat
      /\ \A t \in Tables : snapAt[t] \in Int /\ lastMerge[t] \in Int /\ lastMerge[t] <= now
      /\ \A t \in Tables, k \in Keys : /\ src[t].ver[k] \in Versions /\ src[t].ver[k] <= head
                                     /\ commitAt[src[t].ver[k]] \in Int
      /\ DeltaTsTables \subseteq Tables
  BY ConstantTypes
     DEF TypeOK, VersionsProduced, TimesPast, Image, MaybeTime, Versions, Times, NoTime,
         DeltaTsTables
<1>2. ASSUME NEW t \in Tables, NEW k \in Keys, Commit(t, k) PROVE MissingRecent'
  <2>1. dst' = dst /\ lastMerge' = lastMerge
    BY <1>2 DEF Commit, deltaVars
  <2>2. \A u \in Tables, j \in Keys :
           \/ src'[u].ver[j] = src[u].ver[j]
           \/ src'[u].ver[j] = head + 1
    BY SourceStep
  <2>3. \A v \in Versions : v <= head => commitAt'[v] = commitAt[v]
    BY SourceStep
  <2>4. commitAt'[head + 1] = now
    BY <1>2, ConstantTypes DEF Commit, TypeOK, Versions
  <2>5. ASSUME NEW u \in DeltaTsTables, NEW j \in Keys, dst[u].ver[j] # src'[u].ver[j]
        PROVE  lastMerge[u] < commitAt'[src'[u].ver[j]] + Quiesce
    <3>1. CASE src'[u].ver[j] = src[u].ver[j]
      BY <3>1, <2>3, <2>5, <1>1 DEF MissingRecent
    <3>2. CASE src'[u].ver[j] = head + 1
      BY <3>2, <2>4, <2>5, <1>1
    <3> QED
      BY <3>1, <3>2, <2>2, <1>1
  <2> QED
    BY <2>1, <2>5 DEF MissingRecent
<1>3. ASSUME NEW t \in Tables, IngestMerge(t) PROVE MissingRecent'
  <2>1. src' = src /\ commitAt' = commitAt
    BY <1>3 DEF IngestMerge, sourceVars
  <2>2. ASSUME NEW u \in DeltaTsTables, NEW j \in Keys, dst'[u].ver[j] # src[u].ver[j]
        PROVE  lastMerge'[u] < commitAt[src[u].ver[j]] + Quiesce
    <3>1. CASE u = t
      <4>1. snap[t].ver[j] # src[t].ver[j] /\ snapAt[t] # NoTime /\ lastMerge'[t] = now
        BY <1>3, <2>2, <3>1 DEF IngestMerge, TypeOK, DeltaTsTables
      <4>2. snapAt[t] <= commitAt[src[t].ver[j]] /\ now <= snapAt[t] + Lag
        BY <4>1 DEF FlightRecent
      <4> QED
        BY <4>1, <4>2, <3>1, <1>1
    <3>2. CASE u # t
      BY <1>3, <2>2, <3>2, <1>1 DEF IngestMerge, TypeOK, MissingRecent
    <3> QED
      BY <3>1, <3>2
  <2> QED
    BY <2>1, <2>2 DEF MissingRecent
<1>4. CASE UNCHANGED <<src, commitAt, dst, lastMerge>>
  BY <1>4 DEF MissingRecent
<1> QED
  BY <1>2, <1>3, <1>4, ReconFrame
     DEF Next, Environment, Tick, IngestRead, sourceVars, deltaVars, vars

\* What has reached Delta stays there: a later change has a later version.
LEMMA IngestedStep ==
    ASSUME TypeOK, VersionsProduced, TimesPast, CopiesBehind, [Next]_vars,
           NEW t \in Tables, NEW v \in Int, v <= head, Ingested(t, v),
           NEW k \in Keys, src'[t].ver[k] <= v
    PROVE  dst'[t].ver[k] = src'[t].ver[k]
<1>1. head \in Int /\ src[t].ver[k] \in Int /\ dst[t].ver[k] \in Int /\ snap[t].ver[k] \in Int
  BY ConstantTypes DEF TypeOK, Image, Versions
<1>2. src'[t].ver[k] = src[t].ver[k]
  BY <1>1, SourceStep
<1>3. dst[t].ver[k] = src[t].ver[k]
  BY <1>2 DEF Ingested
<1>4. snapAt[t] # NoTime => snap[t].ver[k] = src[t].ver[k]
  BY <1>1, <1>3 DEF CopiesBehind
<1> QED
  BY <1>2, <1>3, <1>4, MergeStep

-----------------------------------------------------------------------------
(* The poll *)

\* Once the changes are counted the window is fixed, and so is the reference once the
\* commit times are read; what stands in for a time is remembered to the end of the poll.
LEMMA WindowFixed ==
    ASSUME TypeOK, [Next]_vars, pc' \in AfterCounts, ~CountChanges
    PROVE  /\ pc \in AfterCounts
           /\ poll'.head = poll.head /\ poll'.wm = poll.wm /\ poll'.pending = poll.pending
           /\ pc' \in AfterCommitTimes /\ ~ReadCommitTimes =>
                 /\ pc \in AfterCommitTimes /\ poll'.ref = poll.ref
                 /\ poll.standIns \subseteq poll'.standIns
<1> USE DEF TypeOK, PollState, EndPoll, AfterCommitTimes, AfterCounts, AfterWatermarks
<1>1. CASE Environment
  BY <1>1, EnvironmentFrame DEF reconVars
<1>2. CASE ReadHead \/ ReadWatermarks
  BY <1>2 DEF ReadHead, ReadWatermarks
<1>3. CASE ReadCommitTimes
  BY <1>3 DEF ReadCommitTimes
<1>4. CASE MarkBatch
  BY <1>4 DEF MarkBatch
<1>5. CASE ReadSqlCounts
  BY <1>5 DEF ReadSqlCounts
<1>6. ASSUME NEW t \in Tables, ReadDelta(t)
      PROVE  pc = "deltaReads" /\ poll'.head = poll.head /\ poll'.wm = poll.wm
             /\ poll'.pending = poll.pending /\ poll'.ref = poll.ref
             /\ poll.standIns \subseteq poll'.standIns
  BY <1>6, DeltaReadStep DEF ReadDelta
<1>7. CASE ReadDbWatermark
  BY <1>7 DEF ReadDbWatermark
<1>8. CASE Evaluate \/ CheckRecorded
  BY <1>8 DEF Evaluate, CheckRecorded
<1>9. CASE WriteReady \/ (\E t \in Tables : AdvanceTable(t)) \/ AdvanceDb \/ Crash
  BY <1>9 DEF WriteReady, AdvanceTable, AdvanceDb, Crash
<1>10. CASE UNCHANGED vars
  BY <1>10 DEF vars, reconVars
<1> QED
  BY <1>1, <1>2, <1>3, <1>4, <1>5, <1>6, <1>7, <1>8, <1>9, <1>10 DEF Next, Recon

\* The window of a poll, read in three calls, keeps covering what is not confirmed.
LEMMA WindowCoveredStep ==
    TypeOK /\ VersionsProduced /\ WindowCovered /\ [Next]_vars => WindowCovered'
<1> SUFFICES ASSUME TypeOK, VersionsProduced, WindowCovered, [Next]_vars PROVE WindowCovered'
  OBVIOUS
<1>1. /\ head \in Int /\ poll.head \in Int /\ poll.head <= head
      /\ \A t \in Tables : wm[t] \in Int /\ wm[t] <= head /\ 0 <= wm[t] /\ poll.wm[t] \in Int
  BY ConstantTypes DEF TypeOK, PollState, VersionsProduced, Versions
<1>2. pc' # "idle" => \A t \in Tables : wm'[t] <= poll'.head
  <2>1. CASE \E t \in Tables : AdvanceTable(t)
    <3>1. poll'.head = poll.head /\ pc # "idle"
      BY <2>1 DEF AdvanceTable, TypeOK, PollState
    <3>2. \A t \in Tables : wm'[t] = wm[t] \/ wm'[t] = poll.head
      BY <2>1 DEF AdvanceTable, AdvancedTo, TypeOK
    <3> QED
      BY <3>1, <3>2, <1>1 DEF WindowCovered
  <2>2. CASE wm' = wm /\ ~ReadHead
    <3>1. pc' # "idle" => pc # "idle" /\ poll'.head = poll.head
      <4>1. pc' # "idle" => pc # "idle"
        BY <2>2, EnvironmentFrame
           DEF Next, Recon, ReadWatermarks, CountChanges, ReadCommitTimes, MarkBatch,
               ReadSqlCounts, ReadDelta, ReadDbWatermark, Evaluate, CheckRecorded, WriteReady,
               AdvanceTable, AdvanceDb, Crash, EndPoll, reconVars, vars
      <4>2. pc' = "watermarks" => pc = "watermarks" /\ poll' = poll
        BY <2>2, EnvironmentFrame
           DEF Next, Recon, ReadWatermarks, CountChanges, ReadCommitTimes, MarkBatch,
               ReadSqlCounts, ReadDelta, ReadDbWatermark, Evaluate, CheckRecorded, WriteReady,
               AdvanceTable, AdvanceDb, Crash, EndPoll, reconVars, vars
      <4> QED
        BY <4>1, <4>2, PollHeadStep
    <3> QED
      BY <2>2, <3>1 DEF WindowCovered
  <2>3. CASE ReadHead
    <3>1. wm' = wm /\ (pc' # "idle" => poll'.head = head)
      BY <2>3 DEF ReadHead, EndPoll, NoPoll, sqlVars
    <3> QED
      BY <3>1, <1>1
  <2> QED
    BY <2>1, <2>2, <2>3, WatermarkFrame
<1>3. pc' \in AfterWatermarks => \A t \in Tables : poll'.wm[t] <= wm'[t]
  <2>1. CASE ReadWatermarks
    <3>1. wm' = wm /\ (poll'.wm = wm \/ poll'.wm = [t \in Tables |-> 0])
      BY <2>1 DEF ReadWatermarks, sqlVars, TypeOK, PollState
    <3> QED
      BY <3>1, <1>1
  <2>2. ASSUME pc' \in AfterWatermarks, ~ReadWatermarks
        PROVE  pc \in AfterWatermarks /\ poll'.wm = poll.wm /\ wm' = wm
    <3> USE DEF AfterWatermarks
    <3>1. CASE pc' = "counts"
      BY <3>1, <2>2, EnvironmentFrame
         DEF Next, Recon, ReadHead, CountChanges, ReadCommitTimes, MarkBatch,
             ReadSqlCounts, ReadDelta, ReadDbWatermark, Evaluate, CheckRecorded, WriteReady,
             AdvanceTable, AdvanceDb, Crash, EndPoll, reconVars, sqlVars, vars
    <3>2. CASE CountChanges
      BY <3>2, <2>2 DEF CountChanges, EndPoll, sqlVars, TypeOK, PollState
    <3>3. CASE pc' # "counts" /\ ~CountChanges
      <4>1. pc' \in AfterCounts
        BY <3>3, <2>2 DEF AfterCounts
      <4>2. pc \in AfterWatermarks /\ poll'.wm = poll.wm
        BY <4>1, <3>3, WindowFixed DEF AfterCounts
      <4>3. ~ \E t \in Tables : AdvanceTable(t)
        BY <2>2 DEF AdvanceTable
      <4> QED
        BY <4>2, <4>3, WatermarkFrame
    <3> QED
      BY <3>1, <3>2, <3>3
  <2> QED
    BY <2>1, <2>2 DEF WindowCovered
<1>4. ASSUME pc' \in AfterCounts, NEW t \in Tables, NEW k \in Keys,
             poll'.wm[t] < src'[t].ver[k], src'[t].ver[k] <= poll'.head
      PROVE  poll'.pending[t] > 0
  <2>1. CASE CountChanges
    <3>1. /\ poll'.wm = poll.wm /\ poll'.head = poll.head /\ src' = src
          /\ poll'.pending[t] = Cardinality(PendingKeys(t, poll.wm[t], poll.head))
      BY <2>1, <1>4
         DEF CountChanges, EndPoll, AfterCounts, AfterWatermarks, TypeOK, PollState, sourceVars
    <3>2. k \in PendingKeys(t, poll.wm[t], poll.head)
      BY <3>1, <1>4 DEF PendingKeys
    <3> QED
      BY <3>1, <3>2, PendingFinite
  <2>2. CASE ~CountChanges
    <3>1. /\ pc \in AfterCounts
          /\ poll'.head = poll.head /\ poll'.wm = poll.wm /\ poll'.pending = poll.pending
      BY <2>2, <1>4, WindowFixed
    <3>2. src'[t].ver[k] = src[t].ver[k]
      BY <3>1, <1>1, <1>4, SourceStep
    <3>3. k \in PendingKeys(t, poll.wm[t], poll.head)
      BY <3>1, <3>2, <1>4 DEF PendingKeys
    <3> QED
      BY <3>1, <3>3 DEF WindowCovered, PendingTables
  <2> QED
    BY <2>1, <2>2
<1> QED
  BY <1>2, <1>3, <1>4 DEF WindowCovered, PendingTables, PendingKeys

\* Where the commit times were read, the reference is no earlier than any of them.
LEMMA ReferenceLateStep ==
    TypeOK /\ VersionsProduced /\ WindowCovered /\ ReferenceLate /\ [Next]_vars
       => ReferenceLate'
<1> SUFFICES ASSUME TypeOK, VersionsProduced, WindowCovered, ReferenceLate, [Next]_vars,
                    pc' \in AfterCommitTimes,
                    NEW t \in DeltaTsTables, t \notin poll'.standIns, NEW k \in Keys,
                    poll'.wm[t] < src'[t].ver[k], src'[t].ver[k] <= poll'.head
             PROVE  commitAt'[src'[t].ver[k]] <= poll'.ref[t]
  BY DEF ReferenceLate, PendingKeys
<1>0. t \in Tables
  BY DEF DeltaTsTables
<1>1. ~CountChanges
  BY DEF CountChanges, EndPoll, AfterCommitTimes, AfterCounts, AfterWatermarks
<1>2. /\ pc \in AfterCounts
      /\ poll'.head = poll.head /\ poll'.wm = poll.wm /\ poll'.pending = poll.pending
  BY <1>1, WindowFixed DEF AfterCommitTimes
<1>3. /\ head \in Int /\ poll.head \in Int /\ poll.head <= head
      /\ src[t].ver[k] \in Versions /\ src[t].ver[k] \in Int
  BY <1>0, ConstantTypes DEF TypeOK, PollState, VersionsProduced, Versions, Image
<1>4. src'[t].ver[k] = src[t].ver[k]
  BY <1>0, <1>2, <1>3, SourceStep
<1>5. commitAt'[src[t].ver[k]] = commitAt[src[t].ver[k]]
  BY <1>0, <1>3, SourceStep DEF VersionsProduced
<1>6. k \in PendingKeys(t, poll.wm[t], poll.head)
  BY <1>2, <1>4 DEF PendingKeys
<1>7. CASE ReadCommitTimes
  <2>1. t \in PendingTables
    BY <1>0, <1>2, <1>6 DEF WindowCovered
  <2>2. poll'.ref = [u \in Tables |-> IF u \in PendingTables
                                      THEN Reference(poll.wmAt[u],
                                                     LatestCommit(u, poll.wm[u], poll.head))
                                      ELSE NoTime]
    BY <1>7, <2>1 DEF ReadCommitTimes, TypeOK, PollState
  <2>3. poll'.ref[t] = Larger(poll.wmAt[t], LatestCommit(t, poll.wm[t], poll.head))
    BY <1>0, <2>1, <2>2 DEF Reference
  <2>4. /\ poll.wmAt[t] \in Int /\ LatestCommit(t, poll.wm[t], poll.head) \in Int
        /\ commitAt[src[t].ver[k]] \in Int
        /\ commitAt[src[t].ver[k]] <= LatestCommit(t, poll.wm[t], poll.head)
    BY <1>0, <1>3, <1>6, LatestCommitBounds, ConstantTypes
       DEF TypeOK, PollState, MaybeTime, Times, NoTime
  <2> QED
    BY <1>4, <1>5, <2>3, <2>4 DEF Larger
<1>8. CASE ~ReadCommitTimes
  <2>1. pc \in AfterCommitTimes /\ poll'.ref = poll.ref /\ t \notin poll.standIns
    BY <1>1, <1>8, WindowFixed DEF AfterCommitTimes
  <2> QED
    BY <2>1, <1>4, <1>5, <1>6 DEF ReferenceLate
<1> QED
  BY <1>7, <1>8

\* A history that was read stays in the past of the Delta table.
LEMMA HistoryReadStep == TypeOK /\ TimesPast /\ HistoryRead /\ [Next]_vars => HistoryRead'
<1> SUFFICES ASSUME TypeOK, TimesPast, HistoryRead, [Next]_vars,
                    NEW t \in DeltaTsTables, t \notin poll'.standIns
             PROVE  poll'.lastWrite[t] <= lastMerge'[t]
  BY DEF HistoryRead
<1>1. /\ t \in Tables /\ poll.lastWrite[t] \in Int /\ lastMerge[t] \in Int
      /\ lastMerge'[t] \in Int /\ NoTime <= lastMerge[t] /\ lastMerge[t] <= lastMerge'[t]
  BY ConstantTypes, NextTypeOK, MergeStep
     DEF TypeOK, PollState, DeltaTsTables, MaybeTime, Times, NoTime
<1> DEFINE Kept == poll'.lastWrite[t] = poll.lastWrite[t] /\ t \notin poll.standIns
           Read == poll'.lastWrite[t] \in {lastMerge[t], NoTime}
<1>2. Kept \/ Read
  <2> USE DEF TypeOK, PollState, EndPoll, NoPoll
  <2>1. CASE Environment \/ UNCHANGED vars
    BY <2>1, EnvironmentFrame DEF reconVars, vars
  <2>2. CASE ReadHead
    BY <2>2, <1>1 DEF ReadHead
  <2>3. CASE ReadWatermarks
    BY <2>3 DEF ReadWatermarks
  <2>4. CASE CountChanges
    BY <2>4, <1>1 DEF CountChanges
  <2>5. CASE ReadCommitTimes
    BY <2>5 DEF ReadCommitTimes
  <2>6. CASE MarkBatch
    BY <2>6, <1>1 DEF MarkBatch
  <2>7. CASE ReadSqlCounts
    BY <2>7 DEF ReadSqlCounts
  <2>8. ASSUME NEW u \in Tables, ReadDelta(u) PROVE Kept \/ Read
    BY <2>8, <1>1, DeltaReadStep
  <2>9. CASE ReadDbWatermark
    BY <2>9 DEF ReadDbWatermark
  <2>10. CASE Evaluate \/ CheckRecorded
    BY <2>10, <1>1 DEF Evaluate, CheckRecorded
  <2>11. CASE WriteReady \/ AdvanceDb \/ Crash
    BY <2>11, <1>1 DEF WriteReady, AdvanceDb, Crash
  <2>12. ASSUME NEW u \in Tables, AdvanceTable(u) PROVE Kept \/ Read
    BY <2>12 DEF AdvanceTable
  <2> QED
    BY <2>1, <2>2, <2>3, <2>4, <2>5, <2>6, <2>7, <2>8, <2>9, <2>10, <2>11, <2>12
       DEF Next, Recon
<1> QED
  BY <1>1, <1>2 DEF HistoryRead, NoTime

-----------------------------------------------------------------------------
(* The gate is sound *)

\* The heart of the argument: a delta-ts table that is not pending, or that passes and
\* is not doubted for it, holds every change up to the poll's head.
LEMMA PassedIsIngested ==
    ASSUME SoundInv, Evaluate, NEW t \in DeltaTsTables, t \notin doubted',
           t \in PendingTables => Status(t) = "PASS"
    PROVE  Ingested(t, poll.head)
<1>1. t \in Tables /\ t \notin CountTables /\ t \in Trusted /\ pc = "evaluate"
  BY DEF DeltaTsTables, Trusted, Evaluate
<1>2. CASE IsVerified(t)
  BY <1>2, <1>1 DEF IsVerified, SoundInv, VerifiedIngested
<1>3. CASE ~IsVerified(t)
  <2> SUFFICES ASSUME NEW k \in Keys, src[t].ver[k] <= poll.head
               PROVE  dst[t].ver[k] = src[t].ver[k]
    BY DEF Ingested
  <2>1. /\ src[t].ver[k] \in Int /\ poll.wm[t] \in Int /\ wm[t] \in Int /\ Quiesce \in Int
        /\ poll.ref[t] \in Int /\ poll.lastWrite[t] \in Int /\ lastMerge[t] \in Int
        /\ commitAt[src[t].ver[k]] \in Int
    BY <1>1, ConstantTypes
       DEF SoundInv, TypeOK, PollState, Image, Versions, MaybeTime, Times, NoTime
  <2>2. CASE src[t].ver[k] <= poll.wm[t]
    <3>1. poll.wm[t] <= wm[t]
      BY <1>1 DEF SoundInv, WindowCovered, AfterWatermarks
    <3> QED
      BY <1>1, <2>1, <2>2, <3>1 DEF SoundInv, ConfirmedIngested, Ingested
  <2>3. CASE poll.wm[t] < src[t].ver[k]
    <3>1. k \in PendingKeys(t, poll.wm[t], poll.head)
      BY <2>3 DEF PendingKeys
    <3>2. t \in PendingTables
      BY <3>1, <1>1 DEF SoundInv, WindowCovered, AfterCounts, AfterWatermarks
    <3>3. poll.lastWrite[t] >= poll.ref[t] + Quiesce
      BY <3>2, <1>1, <1>3 DEF Status, DeltaTsStatus, WrittenAfter
    <3>4. t \notin poll.standIns
      BY <3>2, <1>1, <1>3 DEF Evaluate
    <3>5. commitAt[src[t].ver[k]] <= poll.ref[t]
      BY <3>1, <3>4, <1>1
         DEF SoundInv, ReferenceLate, AfterCommitTimes, AfterCounts, AfterWatermarks
    <3>6. poll.lastWrite[t] <= lastMerge[t]
      BY <3>4 DEF SoundInv, HistoryRead
    <3>7. ~ (lastMerge[t] < commitAt[src[t].ver[k]] + Quiesce)
      BY <2>1, <3>3, <3>5, <3>6
    <3> QED
      BY <3>7 DEF SoundInv, MissingRecent
  <2> QED
    BY <2>1, <2>2, <2>3
<1> QED
  BY <1>2, <1>3

\* What was Ingested at a version produced before the step still is.
LEMMA IngestedKept ==
    ASSUME SoundInv, [Next]_vars, NEW t \in DeltaTsTables, NEW v, v \in Int, v <= head,
           Ingested(t, v)
    PROVE  \A k \in Keys : src'[t].ver[k] <= v => dst'[t].ver[k] = src'[t].ver[k]
BY IngestedStep DEF SoundInv, DeltaTsTables

\* SoundInv holds initially: Delta equals the source, and nothing is published.
LEMMA SoundInit == Init => SoundInv
<1> SUFFICES ASSUME Init PROVE SoundInv
  OBVIOUS
<1>1. TypeOK
  BY InitTypeOK
<1> USE ConstantTypes, <1>1
        DEF Init, Versions, NoTime, NoPoll, DeltaTsTables
<1>2. VersionsProduced /\ TimesPast
  BY DEF VersionsProduced, TimesPast
<1>3. CopiesBehind /\ FlightRecent /\ MissingRecent
  BY DEF CopiesBehind, FlightRecent, MissingRecent
<1>4. WindowCovered /\ ReferenceLate /\ HistoryRead
  BY DEF WindowCovered, ReferenceLate, HistoryRead, AfterWatermarks, AfterCounts,
         AfterCommitTimes
<1>5. VerifiedIngested /\ BatchIngested /\ GateSound /\ ConfirmedIngested
  BY DEF VerifiedIngested, BatchIngested, GateSound, ConfirmedIngested, Ingested, Passed
<1> QED
  BY <1>1, <1>2, <1>3, <1>4, <1>5 DEF SoundInv

\* Every step keeps SoundInv.
LEMMA SoundStep ==
    ASSUME Lag < Quiesce
    PROVE  SoundInv /\ [Next]_vars => SoundInv'
<1> SUFFICES ASSUME SoundInv, [Next]_vars PROVE SoundInv'
  OBVIOUS
<1>1. /\ TypeOK /\ VersionsProduced /\ TimesPast /\ CopiesBehind /\ FlightRecent
      /\ MissingRecent /\ WindowCovered /\ ReferenceLate /\ HistoryRead
  BY DEF SoundInv
<1>2. /\ TypeOK' /\ VersionsProduced' /\ TimesPast' /\ CopiesBehind' /\ FlightRecent'
      /\ MissingRecent' /\ WindowCovered' /\ ReferenceLate' /\ HistoryRead'
  BY <1>1, NextTypeOK, VersionsProducedStep, TimesPastStep, CopiesBehindStep, FlightRecentStep,
     MissingRecentStep, WindowCoveredStep, ReferenceLateStep, HistoryReadStep
<1>3. /\ poll.head \in Int /\ poll.head <= head
      /\ \A r \in ready : r.ct_head_version \in Int /\ r.ct_head_version <= head
      /\ \A t \in Tables : wm[t] \in Int /\ wm[t] <= head
      /\ \A e \in verified : e[2] \in Int /\ e[2] <= head
  BY <1>1, ConstantTypes DEF TypeOK, VersionsProduced, PollState, ReadyRow, Versions
<1>0. doubted \subseteq doubted'
  BY DoubtedFrame
<1>4. VerifiedIngested'
  <2> SUFFICES ASSUME NEW e \in verified', e[1] \in DeltaTsTables, e[1] \notin doubted'
               PROVE  \A k \in Keys : src'[e[1]].ver[k] <= e[2] =>
                         dst'[e[1]].ver[k] = src'[e[1]].ver[k]
    BY DEF VerifiedIngested, Ingested, Trusted
  <2>1. CASE e \in verified
    BY <2>1, <1>0, <1>3, IngestedKept DEF SoundInv, VerifiedIngested, Trusted
  <2>2. CASE e \notin verified
    <3>1. Evaluate
      BY <2>2, VerifiedFrame
    <3>2. e[2] = poll.head /\ e[1] \in PendingTables /\ Status(e[1]) = "PASS"
      BY <2>2, <3>1 DEF Evaluate
    <3>3. Ingested(e[1], poll.head)
      BY <3>1, <3>2, PassedIsIngested
    <3> QED
      BY <3>2, <3>3, <1>3, IngestedKept
  <2> QED
    BY <2>1, <2>2
<1>5. BatchIngested'
  <2> SUFFICES ASSUME pc' \in Passed, NEW t \in DeltaTsTables, t \notin doubted'
               PROVE  \A k \in Keys : src'[t].ver[k] <= poll'.head =>
                         dst'[t].ver[k] = src'[t].ver[k]
    BY DEF BatchIngested, Ingested, Trusted
  <2>1. poll'.head = poll.head
    BY <1>1, PollHeadStep DEF Passed
  <2>2. Ingested(t, poll.head)
    <3>1. CASE Evaluate
      BY <3>1, PassedIsIngested DEF Evaluate, BatchPasses, Passed, EndPoll
    <3>2. CASE pc \in Passed
      BY <3>2, <1>0 DEF SoundInv, BatchIngested, Trusted
    <3>3. Evaluate \/ pc \in Passed
      BY EnvironmentFrame
         DEF Passed, Next, Recon, ReadHead, ReadWatermarks, CountChanges, ReadCommitTimes,
             MarkBatch, ReadSqlCounts, ReadDelta, ReadDbWatermark, CheckRecorded, WriteReady,
             AdvanceTable, AdvanceDb, Crash, EndPoll, reconVars, vars
    <3> QED
      BY <3>1, <3>2, <3>3
  <2> QED
    BY <2>1, <2>2, <1>3, IngestedKept
<1>6. GateSound'
  <2> SUFFICES ASSUME NEW r \in ready', NEW t \in DeltaTsTables, t \notin doubted'
               PROVE  \A k \in Keys : src'[t].ver[k] <= r.ct_head_version =>
                         dst'[t].ver[k] = src'[t].ver[k]
    BY DEF GateSound, Ingested, Trusted
  <2>1. CASE r \in ready
    BY <2>1, <1>0, <1>3, IngestedKept DEF SoundInv, GateSound, Trusted
  <2>2. CASE r \notin ready
    <3>1. WriteReady
      BY <2>2, ReadyFrame
    <3>2. r.ct_head_version = poll.head /\ Ingested(t, poll.head)
      BY <2>2, <3>1, <1>0 DEF WriteReady, SoundInv, BatchIngested, Passed, Trusted
    <3> QED
      BY <3>2, <1>3, IngestedKept
  <2> QED
    BY <2>1, <2>2
<1>7. ConfirmedIngested'
  <2> SUFFICES ASSUME NEW t \in DeltaTsTables, t \notin doubted'
               PROVE  \A k \in Keys : src'[t].ver[k] <= wm'[t] =>
                         dst'[t].ver[k] = src'[t].ver[k]
    BY DEF ConfirmedIngested, Ingested, Trusted
  <2>1. \E v \in {wm[t], poll.head} : wm'[t] = v /\ Ingested(t, v)
    <3>1. CASE wm' = wm
      BY <3>1, <1>0 DEF SoundInv, ConfirmedIngested, Trusted
    <3>2. ASSUME NEW u \in Tables, AdvanceTable(u)
          PROVE  \E v \in {wm[t], poll.head} : wm'[t] = v /\ Ingested(t, v)
      <4>1. Ingested(t, poll.head) /\ Ingested(t, wm[t])
        BY <3>2, <1>0
           DEF AdvanceTable, SoundInv, BatchIngested, ConfirmedIngested, Passed, Trusted
      <4>2. wm'[t] \in {wm[t], poll.head}
        BY <3>2, <1>1 DEF AdvanceTable, AdvancedTo, TypeOK, DeltaTsTables
      <4> QED
        BY <4>1, <4>2
    <3> QED
      BY <3>1, <3>2, WatermarkFrame
  <2> QED
    BY <2>1, <1>3, IngestedKept DEF DeltaTsTables
<1> QED
  BY <1>2, <1>4, <1>5, <1>6, <1>7 DEF SoundInv

\* A recon_ready row is written only when Delta holds every change of the delta-ts
\* tables up to its head, but of those that ever passed on a stand-in time, if the
\* pipeline's delay is below the quiesce time; whatever fails or crashes.
THEOREM GateIsSound ==
    ASSUME Lag < Quiesce
    PROVE  Spec => []GateSound
<1>1. SoundInv /\ [Next]_vars => SoundInv'
  BY SoundStep
<1>2. SoundInv => GateSound
  BY DEF SoundInv
<1> QED
  BY SoundInit, <1>1, <1>2, PTL DEF Spec

\* Under the same assumption no watermark of those tables passes a change Delta lacks.
THEOREM ConfirmedIsIngested ==
    ASSUME Lag < Quiesce
    PROVE  Spec => []ConfirmedIngested
<1>1. SoundInv /\ [Next]_vars => SoundInv'
  BY SoundStep
<1>2. SoundInv => ConfirmedIngested
  BY DEF SoundInv
<1> QED
  BY SoundInit, <1>1, <1>2, PTL DEF Spec

\* No table is doubted, and the two theorems are about all delta-ts tables, unless a
\* commit-time query or a history read fails.
THEOREM DoubtNeedsFailure ==
    ASSUME MayFail \cap {"commitTimes", "history"} = {}
    PROVE  Spec => [](doubted = {})
<1> DEFINE Inv == doubted = {} /\ poll.standIns = {}
<1>1. Init => Inv
  BY DEF Init, NoPoll
<1>2. TypeOK /\ Inv /\ [Next]_vars => Inv'
  <2> SUFFICES ASSUME TypeOK, Inv, [Next]_vars PROVE Inv'
    OBVIOUS
  <2>1. doubted' = {}
    BY DoubtedFrame DEF Evaluate
  <2>2. poll'.standIns = {}
    <3> USE DEF TypeOK, PollState, EndPoll, NoPoll, Fail
    <3>1. CASE Environment \/ UNCHANGED vars
      BY <3>1, EnvironmentFrame DEF reconVars, vars
    <3>2. CASE ReadHead
      BY <3>2 DEF ReadHead
    <3>3. CASE ReadWatermarks
      BY <3>3 DEF ReadWatermarks
    <3>4. CASE CountChanges
      BY <3>4 DEF CountChanges
    <3>5. CASE ReadCommitTimes
      BY <3>5 DEF ReadCommitTimes
    <3>6. CASE ReadSqlCounts
      BY <3>6 DEF ReadSqlCounts
    <3>7. ASSUME NEW t \in Tables, ReadDelta(t) PROVE poll'.standIns = {}
      BY <3>7, DeltaReadStep
    <3>8. ASSUME NEW t \in Tables, AdvanceTable(t) PROVE poll'.standIns = {}
      BY <3>8 DEF AdvanceTable
    <3>9. CASE MarkBatch \/ ReadDbWatermark \/ Evaluate \/ CheckRecorded
      BY <3>9 DEF MarkBatch, ReadDbWatermark, Evaluate, CheckRecorded
    <3>10. CASE WriteReady \/ AdvanceDb \/ Crash
      BY <3>10 DEF WriteReady, AdvanceDb, Crash
    <3> QED
      BY <3>1, <3>2, <3>3, <3>4, <3>5, <3>6, <3>7, <3>8, <3>9, <3>10 DEF Next, Recon
  <2> QED
    BY <2>1, <2>2
<1>3. Inv => doubted = {}
  OBVIOUS
<1> HIDE DEF Inv
<1> QED
  BY <1>1, <1>2, <1>3, TypeCorrect, PTL DEF Spec

-----------------------------------------------------------------------------
(* Rows and watermarks *)

\* PublishInv holds initially: no row and no watermark past 0.
LEMMA PublishInit == Init => PublishInv
<1> SUFFICES ASSUME Init PROVE PublishInv
  OBVIOUS
<1>1. TypeOK /\ VersionsProduced /\ WindowCovered
  BY SoundInit DEF SoundInv
<1> QED
  BY <1>1 DEF Init, PublishInv, RowWritten, NothingUnlisted, WatermarksPublished, NoVersion

\* The upserts follow the append of the row that lists their tables.
LEMMA RowWrittenStep == TypeOK /\ RowWritten /\ [Next]_vars => RowWritten'
<1> SUFFICES ASSUME TypeOK, RowWritten, [Next]_vars, pc' \in {"advance", "advanceDb"}
             PROVE  /\ \E r \in ready' : r.ct_head_version = poll'.head
                                      /\ r.tables = {t \in Tables : poll'.pending[t] > 0}
                    /\ pc' = "advance" =>
                          poll'.todo \subseteq {t \in Tables : poll'.pending[t] > 0}
  BY DEF RowWritten, PendingTables
<1> USE DEF TypeOK, PollState, PendingTables
<1>1. CASE WriteReady
  <2> DEFINE row == [recon_id |-> Cardinality(ready) + 1,
                     ct_head_version |-> poll.head,
                     ct_watermark_before |-> poll.before,
                     loop_started_at |-> batch[poll.head],
                     tables |-> PendingTables]
  <2>1. row \in ready' /\ poll' = [poll EXCEPT !.todo = PendingTables]
    BY <1>1, Zenon DEF WriteReady, EndPoll
  <2>2. row.ct_head_version = poll.head /\ row.tables = PendingTables
    OBVIOUS
  <2>3. poll'.head = poll.head /\ poll'.pending = poll.pending /\ poll'.todo = PendingTables
    BY <2>1
  <2> HIDE DEF row
  <2> QED
    BY <2>1, <2>2, <2>3
<1>2. ASSUME NEW t \in Tables, AdvanceTable(t)
      PROVE  /\ ready' = ready /\ poll'.head = poll.head /\ poll'.pending = poll.pending
             /\ poll'.todo \subseteq poll.todo /\ pc = "advance"
  BY <1>2 DEF AdvanceTable
<1>3. CASE Environment \/ UNCHANGED vars
  BY <1>3, EnvironmentFrame DEF RowWritten, reconVars, vars
<1>4. WriteReady \/ (\E t \in Tables : AdvanceTable(t)) \/ Environment \/ UNCHANGED vars
  BY DEF Next, Recon, ReadHead, ReadWatermarks, CountChanges, ReadCommitTimes, MarkBatch,
         ReadSqlCounts, ReadDelta, ReadDbWatermark, Evaluate, CheckRecorded,
         AdvanceDb, Crash, EndPoll
<1> QED
  BY <1>1, <1>2, <1>3, <1>4 DEF RowWritten

\* Every step keeps PublishInv.
LEMMA PublishStep == PublishInv /\ [Next]_vars => PublishInv'
<1> SUFFICES ASSUME PublishInv, [Next]_vars PROVE PublishInv'
  OBVIOUS
<1>1. TypeOK /\ VersionsProduced /\ WindowCovered /\ RowWritten
  BY DEF PublishInv
<1>2. TypeOK' /\ VersionsProduced' /\ WindowCovered' /\ RowWritten'
  BY <1>1, NextTypeOK, VersionsProducedStep, WindowCoveredStep, RowWrittenStep
<1>3. /\ head \in Int /\ poll.head \in Int /\ poll.head <= head
      /\ \A r \in ready : r.ct_head_version \in Int /\ r.ct_head_version <= head
      /\ \A t \in Tables : wm[t] \in Int /\ poll.wm[t] \in Int
      /\ \A t \in Tables, k \in Keys : src[t].ver[k] \in Int
  BY <1>1, ConstantTypes DEF TypeOK, VersionsProduced, PollState, ReadyRow, Versions, Image
<1>4. \A t \in Tables : wm'[t] \in Int /\ wm[t] <= wm'[t]
  BY <1>1, <1>3, WatermarkFrame DEF AdvanceTable, AdvancedTo, WindowCovered, TypeOK
<1>5. NothingUnlisted'
  <2> SUFFICES ASSUME NEW r \in ready', NEW t \in Tables \ r.tables, NEW k \in Keys,
                      src'[t].ver[k] <= r.ct_head_version
               PROVE  src'[t].ver[k] <= wm'[t]
    BY DEF NothingUnlisted
  <2>1. r \in ready \/ (WriteReady /\ r.ct_head_version = poll.head /\ r.tables = PendingTables)
    BY ReadyFrame DEF WriteReady
  <2>2. src'[t].ver[k] = src[t].ver[k]
    BY <1>1, <1>3, <2>1, SourceStep
  <2>3. CASE r \in ready
    <3>1. src[t].ver[k] <= wm[t]
      BY <2>2, <2>3 DEF PublishInv, NothingUnlisted
    <3> QED
      BY <3>1, <2>2, <1>3, <1>4
  <2>4. CASE WriteReady /\ r.ct_head_version = poll.head /\ r.tables = PendingTables
    <3>1. poll.wm[t] <= wm[t]
      BY <2>4, <1>1 DEF WriteReady, WindowCovered, AfterWatermarks
    <3>2. k \notin PendingKeys(t, poll.wm[t], poll.head)
      BY <2>4, <1>1 DEF WriteReady, WindowCovered, AfterCounts, AfterWatermarks
    <3>3. src[t].ver[k] <= poll.wm[t]
      BY <3>2, <2>2, <2>4, <1>3 DEF PendingKeys
    <3> QED
      BY <3>1, <3>3, <2>2, <1>3, <1>4
  <2> QED
    BY <2>1, <2>3, <2>4
<1>6. WatermarksPublished'
  <2>1. ready \subseteq ready'
    BY ReadyFrame DEF WriteReady
  <2>2. ASSUME NEW t \in Tables, wm'[t] > 0
        PROVE  \E r \in ready : r.ct_head_version = wm'[t] /\ t \in r.tables
    <3>1. CASE wm'[t] = wm[t]
      BY <2>2, <3>1 DEF PublishInv, WatermarksPublished
    <3>2. CASE wm'[t] # wm[t]
      <4>1. AdvanceTable(t) /\ wm'[t] = poll.head
        BY <3>2, <1>1, WatermarkFrame DEF AdvanceTable, AdvancedTo, TypeOK
      <4> QED
        BY <4>1, <1>1 DEF AdvanceTable, RowWritten
    <3> QED
      BY <3>1, <3>2
  <2>3. dbwm' > 0 => \E r \in ready : r.ct_head_version = dbwm'
    <3>1. CASE dbwm' = dbwm
      BY <3>1 DEF PublishInv, WatermarksPublished
    <3>2. CASE AdvanceDb
      BY <3>2, <1>1 DEF AdvanceDb, RowWritten
    <3>3. dbwm' = dbwm \/ AdvanceDb
      BY EnvironmentFrame
         DEF Next, Recon, ReadHead, ReadWatermarks, CountChanges, ReadCommitTimes, MarkBatch,
             ReadSqlCounts, ReadDelta, ReadDbWatermark, Evaluate, CheckRecorded, WriteReady,
             AdvanceTable, Crash, sqlVars, reconVars, vars
    <3> QED
      BY <3>1, <3>2, <3>3
  <2> QED
    BY <2>1, <2>2, <2>3 DEF WatermarksPublished
<1> QED
  BY <1>2, <1>5, <1>6 DEF PublishInv

\* Whatever fails or crashes, a row accounts for every change up to its head: the
\* tables it does not list have none that was not confirmed before.
THEOREM RowsAccountForAll == Spec => []NothingUnlisted
<1>1. PublishInv => NothingUnlisted
  BY DEF PublishInv
<1> QED
  BY PublishInit, PublishStep, <1>1, PTL DEF Spec

\* Whatever fails or crashes, a watermark stands at the head of a published row.
THEOREM WatermarksArePublished == Spec => []WatermarksPublished
<1>1. PublishInv => WatermarksPublished
  BY DEF PublishInv
<1> QED
  BY PublishInit, PublishStep, <1>1, PTL DEF Spec

-----------------------------------------------------------------------------
(* Once across restarts *)

\* Every step keeps OnceInv, unless the check for a recorded row may fail.
LEMMA OnceStep ==
    ASSUME "recorded" \notin MayFail
    PROVE  TypeOK /\ OnceInv /\ [Next]_vars => OnceInv'
<1> SUFFICES ASSUME TypeOK, OnceInv, [Next]_vars PROVE OnceInv'
  OBVIOUS
<1>1. ASSUME pc' = "write" PROVE ~ \E r \in ready' : r.ct_head_version = poll'.head
  <2>1. CASE CheckRecorded
    BY <1>1, <2>1 DEF CheckRecorded, Fail, AlreadyRecorded, EndPoll
  <2>2. CASE pc = "write" /\ UNCHANGED <<ready, poll>>
    BY <2>2 DEF OnceInv, AlreadyRecorded
  <2>3. CheckRecorded \/ (pc = "write" /\ UNCHANGED <<ready, poll>>)
    BY <1>1, EnvironmentFrame
       DEF Next, Recon, ReadHead, ReadWatermarks, CountChanges, ReadCommitTimes, MarkBatch,
           ReadSqlCounts, ReadDelta, ReadDbWatermark, Evaluate, WriteReady,
           AdvanceTable, AdvanceDb, Crash, EndPoll, reconVars, vars
  <2> QED
    BY <2>1, <2>2, <2>3
<1>2. OneReadyPerHead'
  <2>1. CASE WriteReady
    BY <2>1 DEF WriteReady, OnceInv, AlreadyRecorded, OneReadyPerHead
  <2>2. CASE ready' = ready
    BY <2>2 DEF OnceInv, OneReadyPerHead
  <2> QED
    BY <2>1, <2>2, ReadyFrame
<1> QED
  BY <1>1, <1>2 DEF OnceInv, AlreadyRecorded

\* One row per CT head, across restarts, failed appends and appends whose outcome is
\* unknown, as long as the query that looks for the row does not fail.
THEOREM OneRowPerHead ==
    ASSUME "recorded" \notin MayFail
    PROVE  Spec => []OneReadyPerHead
<1>1. Init => OnceInv
  BY DEF Init, OnceInv, OneReadyPerHead
<1>2. TypeOK /\ OnceInv /\ [Next]_vars => OnceInv'
  BY OnceStep
<1>3. OnceInv => OneReadyPerHead
  BY DEF OnceInv
<1> QED
  BY <1>1, <1>2, <1>3, TypeCorrect, PTL DEF Spec

\* Every step keeps DetectInv.
LEMMA DetectStep == TypeOK /\ DetectInv /\ [Next]_vars => DetectInv'
<1> SUFFICES ASSUME TypeOK, DetectInv, [Next]_vars PROVE DetectInv'
  OBVIOUS
<1>1. CASE MarkBatch
  <2>1. FirstDetection # NoTime
    BY ConstantTypes DEF FirstDetection, TypeOK, Times, NoTime
  <2>2. /\ batch' = [batch EXCEPT ![poll.head] = FirstDetection]
        /\ detected' = [detected EXCEPT ![poll.head] = FirstDetection]
        /\ poll.head \in Versions
        /\ (pc' = "sqlCounts" /\ poll' = poll) \/ pc' = "idle"
    BY <1>1 DEF MarkBatch, EndPoll, TypeOK, PollState
  <2> QED
    BY <2>1, <2>2
       DEF DetectInv, TypeOK, AfterMark, AfterCommitTimes, AfterCounts, AfterWatermarks
<1>2. CASE AdvanceDb
  BY <1>2
     DEF AdvanceDb, EndPoll, DetectInv, TypeOK, PollState, AfterMark, AfterCommitTimes,
         AfterCounts, AfterWatermarks
<1>3. CASE Crash
  BY <1>3
     DEF Crash, EndPoll, DetectInv, AfterMark, AfterCommitTimes, AfterCounts, AfterWatermarks
<1>4. CASE ~MarkBatch /\ ~AdvanceDb /\ ~Crash
  <2>1. batch' = batch /\ detected' = detected
    BY <1>4, EnvironmentFrame
       DEF Next, Recon, ReadHead, ReadWatermarks, CountChanges, ReadCommitTimes,
           ReadSqlCounts, ReadDelta, ReadDbWatermark, Evaluate, CheckRecorded, WriteReady,
           AdvanceTable, sqlVars, cacheVars, reconVars, vars
  <2>2. ASSUME pc' \in AfterMark PROVE pc \in AfterMark /\ poll'.head = poll.head
    <3>1. poll'.head = poll.head
      BY <2>2, PollHeadStep DEF AfterMark, AfterCommitTimes, AfterCounts, AfterWatermarks
    <3>2. pc \in AfterMark
      BY <1>4, <2>2, EnvironmentFrame
         DEF AfterMark, AfterCommitTimes, AfterCounts, AfterWatermarks,
             Next, Recon, ReadHead, ReadWatermarks, CountChanges, ReadCommitTimes,
             ReadSqlCounts, ReadDelta, ReadDbWatermark, Evaluate, CheckRecorded, WriteReady,
             AdvanceTable, EndPoll, reconVars, vars
    <3> QED
      BY <3>1, <3>2
  <2> QED
    BY <2>1, <2>2 DEF DetectInv
<1> QED
  BY <1>1, <1>2, <1>3, <1>4

\* The time a batch was first detected never changes once audited, and every row
\* carries it, whatever restarts lie between.
THEOREM DetectionSurvives == Spec => DetectedOnce
<1>1. Init => DetectInv
  BY DEF Init, DetectInv, AfterMark, AfterCommitTimes, AfterCounts, AfterWatermarks
<1>2. TypeOK /\ DetectInv /\ [Next]_vars
        => [/\ \A v \in Versions : detected[v] # NoTime => detected'[v] = detected[v]
            /\ \A r \in ready' \ ready : r.loop_started_at = detected[r.ct_head_version]]_vars
  <2> SUFFICES ASSUME TypeOK, DetectInv, [Next]_vars
               PROVE  /\ \A v \in Versions : detected[v] # NoTime => detected'[v] = detected[v]
                      /\ \A r \in ready' \ ready :
                            r.loop_started_at = detected[r.ct_head_version]
    OBVIOUS
  <2>1. \A v \in Versions : detected[v] # NoTime => detected'[v] = detected[v]
    <3>1. CASE MarkBatch
      BY <3>1 DEF MarkBatch, FirstDetection, DetectInv, TypeOK, PollState
    <3>2. CASE detected' = detected
      BY <3>2
    <3>3. MarkBatch \/ detected' = detected
      BY EnvironmentFrame
         DEF Next, Recon, ReadHead, ReadWatermarks, CountChanges, ReadCommitTimes,
             ReadSqlCounts, ReadDelta, ReadDbWatermark, Evaluate, CheckRecorded, WriteReady,
             AdvanceTable, AdvanceDb, Crash, sqlVars, reconVars, vars
    <3> QED
      BY <3>1, <3>2, <3>3
  <2>2. \A r \in ready' \ ready : r.loop_started_at = detected[r.ct_head_version]
    <3>1. CASE WriteReady
      BY <3>1
         DEF WriteReady, DetectInv, TypeOK, PollState, AfterMark, AfterCommitTimes,
             AfterCounts, AfterWatermarks
    <3> QED
      BY <3>1, ReadyFrame
  <2> QED
    BY <2>1, <2>2
<1> QED
  BY <1>1, <1>2, DetectStep, TypeCorrect, PTL DEF Spec, DetectedOnce

-----------------------------------------------------------------------------
(* MergedAfterChange *)

\* A table that passes, and is not doubted for it, is settled at the head of the poll.
LEMMA PassedIsSettled ==
    ASSUME WrittenInv, Evaluate, NEW t \in DeltaTsTables, t \notin doubted',
           t \in PendingTables, Status(t) = "PASS"
    PROVE  Settled(t, poll.head)
<1>1. t \in Tables /\ t \notin CountTables /\ t \in Trusted /\ pc = "evaluate"
  BY DEF DeltaTsTables, Trusted, Evaluate
<1>2. CASE IsVerified(t)
  BY <1>2, <1>1 DEF IsVerified, WrittenInv
<1>3. CASE ~IsVerified(t)
  <2> SUFFICES ASSUME NEW k \in Keys, 0 < src[t].ver[k], src[t].ver[k] <= poll.head
               PROVE  lastMerge[t] >= commitAt[src[t].ver[k]] + Quiesce
    BY DEF Settled
  <2>1. /\ src[t].ver[k] \in Int /\ poll.wm[t] \in Int /\ wm[t] \in Int /\ Quiesce \in Int
        /\ poll.ref[t] \in Int /\ poll.lastWrite[t] \in Int /\ lastMerge[t] \in Int
        /\ commitAt[src[t].ver[k]] \in Int
    BY <1>1, ConstantTypes
       DEF WrittenInv, TypeOK, PollState, Image, Versions, MaybeTime, Times, NoTime
  <2>2. CASE src[t].ver[k] <= poll.wm[t]
    <3>1. poll.wm[t] <= wm[t]
      BY <1>1 DEF WrittenInv, WindowCovered, AfterWatermarks
    <3>2. src[t].ver[k] <= wm[t]
      BY <2>1, <2>2, <3>1
    <3> QED
      BY <1>1, <3>2 DEF WrittenInv, Settled
  <2>3. CASE poll.wm[t] < src[t].ver[k]
    <3>1. k \in PendingKeys(t, poll.wm[t], poll.head)
      BY <2>3 DEF PendingKeys
    <3>2. poll.lastWrite[t] >= poll.ref[t] + Quiesce
      BY <1>1, <1>3 DEF Status, DeltaTsStatus, WrittenAfter
    <3>3. t \notin poll.standIns
      BY <1>1, <1>3 DEF Evaluate
    <3>4. commitAt[src[t].ver[k]] <= poll.ref[t]
      BY <3>1, <3>3, <1>1
         DEF WrittenInv, ReferenceLate, AfterCommitTimes, AfterCounts, AfterWatermarks
    <3>5. poll.lastWrite[t] <= lastMerge[t]
      BY <3>3 DEF WrittenInv, HistoryRead
    <3> QED
      BY <2>1, <3>2, <3>4, <3>5
  <2> QED
    BY <2>1, <2>2, <2>3
<1> QED
  BY <1>2, <1>3

\* What is settled stays so: commit times are fixed, and a table's MERGEs go forward.
LEMMA SettledStep ==
    ASSUME TypeOK, TypeOK', VersionsProduced, TimesPast, [Next]_vars,
           NEW t \in DeltaTsTables, NEW v \in Int, v <= head, Settled(t, v),
           NEW k \in Keys, 0 < src'[t].ver[k], src'[t].ver[k] <= v
    PROVE  lastMerge'[t] >= commitAt'[src'[t].ver[k]] + Quiesce
<1>1. t \in Tables /\ t \notin CountTables
  BY DEF DeltaTsTables
<1>2. /\ head \in Int /\ src[t].ver[k] \in Int /\ lastMerge[t] \in Int /\ now \in Int
      /\ Quiesce \in Int
  BY <1>1, ConstantTypes DEF TypeOK, Image, Versions, MaybeTime, Times, NoTime
<1>3. src'[t].ver[k] = src[t].ver[k]
  BY <1>1, <1>2, SourceStep
<1>4. src[t].ver[k] <= head /\ src[t].ver[k] \in Versions
  BY <1>1, <1>2 DEF VersionsProduced, TypeOK, Image
<1>5. commitAt'[src[t].ver[k]] = commitAt[src[t].ver[k]] /\ commitAt[src[t].ver[k]] \in Int
  <2>1. commitAt' = commitAt \/ commitAt' = [commitAt EXCEPT ![head + 1] = now]
    BY ReconFrame DEF Next, Environment, Commit, Tick, IngestRead, IngestMerge, sourceVars, vars
  <2>2. src[t].ver[k] # head + 1
    BY <1>2, <1>4
  <2>3. commitAt[src[t].ver[k]] \in Int
    BY <1>4, ConstantTypes DEF TypeOK, MaybeTime, Times, NoTime
  <2> QED
    BY <1>4, <2>1, <2>2, <2>3 DEF TypeOK
<1>6. lastMerge'[t] = lastMerge[t] \/ lastMerge'[t] = now
  <2>1. lastMerge' = lastMerge \/ \E u \in Tables : IngestMerge(u)
    BY ReconFrame DEF Next, Environment, Commit, Tick, IngestRead, deltaVars, vars
  <2> QED
    BY <1>1, <2>1 DEF IngestMerge, TypeOK
<1>7. lastMerge[t] <= now
  BY <1>1 DEF TimesPast
<1>8. lastMerge[t] >= commitAt[src[t].ver[k]] + Quiesce
  BY <1>3 DEF Settled
<1> QED
  BY <1>2, <1>3, <1>5, <1>6, <1>7, <1>8

\* Every step keeps WrittenInv.
LEMMA WrittenStep == WrittenInv /\ [Next]_vars => WrittenInv'
<1> SUFFICES ASSUME WrittenInv, [Next]_vars PROVE WrittenInv'
  OBVIOUS
<1>1. /\ TypeOK /\ VersionsProduced /\ TimesPast /\ WindowCovered /\ ReferenceLate
      /\ HistoryRead /\ RowWritten
  BY DEF WrittenInv
<1>2. /\ TypeOK' /\ VersionsProduced' /\ TimesPast' /\ WindowCovered' /\ ReferenceLate'
      /\ HistoryRead' /\ RowWritten'
  BY <1>1, NextTypeOK, VersionsProducedStep, TimesPastStep, WindowCoveredStep,
     ReferenceLateStep, HistoryReadStep, RowWrittenStep
<1>3. ASSUME NEW t \in DeltaTsTables, NEW v \in Int, v <= head, Settled(t, v)
      PROVE  \A k \in Keys : 0 < src'[t].ver[k] /\ src'[t].ver[k] <= v =>
                lastMerge'[t] >= commitAt'[src'[t].ver[k]] + Quiesce
  BY <1>1, <1>2, <1>3, SettledStep
<1>4. poll.head \in Int /\ poll.head <= head /\ \A t \in Tables : wm[t] \in Int /\ wm[t] <= head
  BY <1>1, ConstantTypes DEF TypeOK, PollState, VersionsProduced, Versions
<1>0. doubted \subseteq doubted'
  BY DoubtedFrame
<1>5. ASSUME NEW t \in DeltaTsTables, t \notin doubted'
      PROVE  \A k \in Keys : 0 < src'[t].ver[k] /\ src'[t].ver[k] <= wm'[t] =>
                lastMerge'[t] >= commitAt'[src'[t].ver[k]] + Quiesce
  <2>1. t \in Tables /\ t \in Trusted
    BY <1>0, <1>5 DEF DeltaTsTables, Trusted
  <2>2. CASE wm'[t] = wm[t]
    <3>1. Settled(t, wm[t])
      BY <2>1 DEF WrittenInv
    <3> QED
      BY <1>3, <1>4, <2>1, <2>2, <3>1
  <2>3. ASSUME NEW u \in Tables, AdvanceTable(u), wm'[t] # wm[t]
        PROVE  wm'[t] = poll.head /\ Settled(t, poll.head)
    <3>1. u = t /\ wm'[t] = poll.head
      BY <1>1, <2>1, <2>3 DEF AdvanceTable, AdvancedTo, TypeOK
    <3>2. t \in PendingTables /\ pc = "advance"
      BY <1>1, <2>3, <3>1 DEF AdvanceTable, RowWritten
    <3> QED
      BY <2>1, <3>1, <3>2 DEF WrittenInv, Passed
  <2> QED
    BY <1>3, <1>4, <2>2, <2>3, WatermarkFrame
<1>6. ASSUME NEW e \in verified', e[1] \in DeltaTsTables, e[1] \notin doubted'
      PROVE  \A k \in Keys : 0 < src'[e[1]].ver[k] /\ src'[e[1]].ver[k] <= e[2] =>
                lastMerge'[e[1]] >= commitAt'[src'[e[1]].ver[k]] + Quiesce
  <2>1. CASE e \in verified
    <3>1. e[2] \in Int /\ e[2] <= head
      BY <1>1, <2>1, ConstantTypes DEF TypeOK, VersionsProduced, Versions
    <3>2. Settled(e[1], e[2])
      BY <1>0, <1>6, <2>1 DEF WrittenInv, Trusted
    <3> QED
      BY <1>3, <1>6, <3>1, <3>2
  <2>2. CASE e \notin verified
    <3>1. Evaluate
      BY <2>2, VerifiedFrame
    <3>2. e[2] = poll.head /\ e[1] \in PendingTables /\ Status(e[1]) = "PASS"
      BY <2>2, <3>1 DEF Evaluate
    <3>3. Settled(e[1], poll.head)
      BY <1>6, <3>1, <3>2, PassedIsSettled
    <3> QED
      BY <1>3, <1>4, <1>6, <3>2, <3>3
  <2> QED
    BY <2>1, <2>2
<1>7. ASSUME pc' \in Passed, NEW t \in DeltaTsTables, t \notin doubted',
             t \in Tables, poll'.pending[t] > 0
      PROVE  \A k \in Keys : 0 < src'[t].ver[k] /\ src'[t].ver[k] <= poll'.head =>
                lastMerge'[t] >= commitAt'[src'[t].ver[k]] + Quiesce
  <2>1. CASE Evaluate
    <3>1. poll' = poll /\ BatchPasses
      BY <1>7, <2>1 DEF Evaluate, EndPoll, Passed
    <3>2. t \in PendingTables /\ Status(t) = "PASS"
      BY <1>7, <3>1 DEF PendingTables, BatchPasses
    <3>3. Settled(t, poll.head)
      BY <1>7, <2>1, <3>2, PassedIsSettled
    <3> QED
      BY <1>3, <1>4, <3>1, <3>3
  <2>2. CASE ~Evaluate
    <3>1. pc \in Passed /\ poll'.head = poll.head /\ poll'.pending = poll.pending
      <4>1. CASE Environment \/ UNCHANGED vars
        BY <1>7, <4>1, EnvironmentFrame DEF reconVars, vars
      <4>2. CASE WriteReady
        <5>1. poll' = [poll EXCEPT !.todo = PendingTables] /\ pc = "write"
          BY <1>7, <4>2 DEF WriteReady, EndPoll, Passed
        <5> QED
          BY <1>1, <5>1 DEF Passed, TypeOK, PollState
      <4>3. ASSUME NEW u \in Tables, AdvanceTable(u)
            PROVE  pc \in Passed /\ poll'.head = poll.head /\ poll'.pending = poll.pending
        BY <1>1, <4>3 DEF AdvanceTable, Passed, TypeOK, PollState
      <4>4. CASE CheckRecorded
        BY <1>7, <4>4 DEF CheckRecorded, EndPoll, Passed
      <4> QED
        BY <1>7, <2>2, <4>1, <4>2, <4>3, <4>4
           DEF Next, Recon, ReadHead, ReadWatermarks, CountChanges, ReadCommitTimes, MarkBatch,
               ReadSqlCounts, ReadDelta, ReadDbWatermark, AdvanceDb, Crash, EndPoll, Passed
    <3>2. Settled(t, poll.head)
      BY <1>0, <1>7, <3>1 DEF WrittenInv, PendingTables, Trusted
    <3> QED
      BY <1>3, <1>4, <3>1, <3>2
  <2> QED
    BY <2>1, <2>2
<1> QED
  BY <1>2, <1>5, <1>6, <1>7 DEF WrittenInv, Settled, PendingTables, Trusted

\* No batch passes on a MERGE that came too early after a change of one of its trusted
\* tables, for any quiesce time and whatever fails: a pass carried over in the caches, a
\* restart or a window reopened by a failed watermark read included.
THEOREM MergedAfterEveryChange == Spec => []MergedAfterChange
<1>1. Init => WrittenInv
  <2> SUFFICES ASSUME Init PROVE WrittenInv
    OBVIOUS
  <2>1. SoundInv /\ PublishInv
    BY SoundInit, PublishInit
  <2>2. \A t \in DeltaTsTables : ~ \E k \in Keys : 0 < src[t].ver[k]
    BY DEF Init, DeltaTsTables
  <2>3. \A t \in Trusted : Settled(t, wm[t])
    BY <2>2 DEF Settled, Trusted
  <2>4. verified = {} /\ pc = "idle"
    BY DEF Init
  <2> QED
    BY <2>1, <2>3, <2>4 DEF WrittenInv, SoundInv, PublishInv, Passed
<1>2. WrittenInv /\ [Next]_vars => WrittenInv'
  BY WrittenStep
<1>3. WrittenInv => MergedAfterChange
  <2> SUFFICES ASSUME WrittenInv, pc = "recorded", NEW t \in PendingTables \cap Trusted,
                      NEW k \in PendingKeys(t, poll.wm[t], poll.head)
               PROVE  lastMerge[t] >= commitAt[src[t].ver[k]] + Quiesce
    BY DEF MergedAfterChange, MergedAfter
  <2>1. k \in Keys /\ poll.wm[t] < src[t].ver[k] /\ src[t].ver[k] <= poll.head
    BY DEF PendingKeys
  <2>2. poll.wm[t] \in Nat /\ src[t].ver[k] \in Int
    BY <2>1, ConstantTypes DEF WrittenInv, TypeOK, PollState, Image, Versions, PendingTables
  <2>3. 0 < src[t].ver[k]
    BY <2>1, <2>2
  <2>4. Settled(t, poll.head)
    BY DEF WrittenInv, Passed
  <2> QED
    BY <2>1, <2>3, <2>4 DEF Settled
<1> QED
  BY <1>1, <1>2, <1>3, PTL DEF Spec

=============================================================================
