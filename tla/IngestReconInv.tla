-------------------------- MODULE IngestReconInv --------------------------
(***************************************************************************)
(* The inductive invariants behind the safety properties of IngestRecon:   *)
(* SoundInv for what recon_ready and the watermarks say about Delta,       *)
(* PublishInv for what they say about each other, OnceInv and DetectInv    *)
(* for the two facts that must survive restarts.  Each is a conjunction of *)
(* named parts, with the step of the code that a part is about.            *)
(***************************************************************************)
EXTENDS IngestRecon

\* The calls of a poll after which each fact about its window holds.
AfterWatermarks  == {"counts", "commitTimes", "mark", "sqlCounts", "deltaReads",
                     "dbWatermark", "evaluate", "recorded", "write"}
AfterCounts      == AfterWatermarks \ {"counts"}
AfterCommitTimes == AfterCounts \ {"commitTimes"}
AfterMark        == AfterCommitTimes \ {"mark"}
Passed           == {"recorded", "write", "advance", "advanceDb"}

-----------------------------------------------------------------------------
(* The source and the copies of it *)

\* Nothing carries a version the source has not produced.
VersionsProduced ==
    /\ \A t \in Tables, k \in Keys : src[t].ver[k] <= head
    /\ poll.head <= head
    /\ \A t \in Tables : wm[t] <= head
    /\ \A r \in ready : r.ct_head_version <= head
    /\ \A e \in verified : e[2] <= head

\* Every version has a commit time, and every MERGE lies in the past.
TimesPast ==
    /\ \A v \in Versions : 0 < v /\ v <= head => 0 <= commitAt[v] /\ commitAt[v] <= now
    /\ \A t \in Tables : lastMerge[t] <= now

\* The pipeline never goes back: Delta is behind what it has read, and that is
\* behind the source.
CopiesBehind ==
    /\ \A t \in Tables, k \in Keys : dst[t].ver[k] <= src[t].ver[k]
    /\ \A t \in Tables : snapAt[t] # NoTime =>
          \A k \in Keys : /\ dst[t].ver[k] <= snap[t].ver[k]
                          /\ snap[t].ver[k] <= src[t].ver[k]

\* What a copy in flight lacks was committed after it was read, within Lag of now.
FlightRecent ==
    \A t \in Tables : snapAt[t] # NoTime =>
        /\ snapAt[t] <= now /\ now <= snapAt[t] + Lag
        /\ \A k \in Keys : snap[t].ver[k] # src[t].ver[k] =>
              snapAt[t] <= commitAt[src[t].ver[k]]

\* A change that Delta lacks was committed less than Quiesce before the last MERGE:
\* the fact on which the timestamp rule for delta-ts tables rests.
MissingRecent ==
    \A t \in DeltaTsTables, k \in Keys :
        dst[t].ver[k] # src[t].ver[k] =>
            lastMerge[t] < commitAt[src[t].ver[k]] + Quiesce

-----------------------------------------------------------------------------
(* The poll *)

\* The poll's window starts no later than the watermark, ends no earlier, and a
\* table whose window holds a change is pending.
WindowCovered ==
    /\ pc # "idle" => \A t \in Tables : wm[t] <= poll.head
    /\ pc \in AfterWatermarks => \A t \in Tables : poll.wm[t] <= wm[t]
    /\ pc \in AfterCounts =>
          \A t \in Tables, k \in Keys :
              k \in PendingKeys(t, poll.wm[t], poll.head) => t \in PendingTables

\* The reference time is no earlier than any commit of the window, unless another
\* stands in for them.
ReferenceLate ==
    pc \in AfterCommitTimes =>
        \A t \in DeltaTsTables \ poll.standIns, k \in Keys :
            k \in PendingKeys(t, poll.wm[t], poll.head) =>
                commitAt[src[t].ver[k]] <= poll.ref[t]

\* A history read of this poll is no newer than the history.
HistoryRead ==
    \A t \in DeltaTsTables \ poll.standIns : poll.lastWrite[t] <= lastMerge[t]

\* The caches remember tables that are still good at their head, if they passed on the
\* times of their commits and MERGEs; so do the batches.
VerifiedIngested ==
    \A e \in verified : e[1] \in Trusted => Ingested(e[1], e[2])

BatchIngested ==
    pc \in Passed => \A t \in Trusted : Ingested(t, poll.head)

SoundInv ==
    /\ TypeOK
    /\ VersionsProduced /\ TimesPast /\ CopiesBehind /\ FlightRecent /\ MissingRecent
    /\ WindowCovered /\ ReferenceLate /\ HistoryRead
    /\ VerifiedIngested /\ BatchIngested
    /\ GateSound /\ ConfirmedIngested

-----------------------------------------------------------------------------
(* Rows and watermarks *)

\* The watermarks move only for tables the row just written lists.
RowWritten ==
    /\ pc \in {"advance", "advanceDb"} =>
          \E r \in ready : r.ct_head_version = poll.head /\ r.tables = PendingTables
    /\ pc = "advance" => poll.todo \subseteq PendingTables

PublishInv ==
    /\ TypeOK
    /\ VersionsProduced /\ WindowCovered /\ RowWritten
    /\ NothingUnlisted /\ WatermarksPublished

\* A row is appended only for a head that has none.
OnceInv ==
    /\ pc = "write" => ~AlreadyRecorded
    /\ OneReadyPerHead

\* The time in memory is the audited one, and a poll past its mark has one.
DetectInv ==
    /\ \A v \in Versions : batch[v] # NoTime => batch[v] = detected[v]
    /\ pc \in AfterMark => batch[poll.head] # NoTime

-----------------------------------------------------------------------------
(* What the timestamp rule has seen *)

\* Every change of t up to v is older, by the buffer, than the last MERGE.
Settled(t, v) ==
    \A k \in Keys : 0 < src[t].ver[k] /\ src[t].ver[k] <= v =>
        lastMerge[t] >= commitAt[src[t].ver[k]] + Quiesce

\* It was so when a table passed, and stays so: in the caches, in the batch, and
\* below the watermark, from which a failed read may reopen the window.
WrittenInv ==
    /\ TypeOK
    /\ VersionsProduced /\ TimesPast /\ WindowCovered /\ ReferenceLate /\ HistoryRead
    /\ RowWritten
    /\ \A t \in Trusted : Settled(t, wm[t])
    /\ \A e \in verified : e[1] \in Trusted => Settled(e[1], e[2])
    /\ pc \in Passed => \A t \in Trusted \cap PendingTables : Settled(t, poll.head)

=============================================================================
