-------------------------- MODULE FlowRecon_proofs --------------------------
(***************************************************************************)
(* Theorems about FlowRecon, for every value of its constants: nothing at  *)
(* or below the stored event-log watermark is skipped, a flow of an update *)
(* gets one recon_ready row, the records keep their types, and the whole   *)
(* implements EventFeed.                                                   *)
(***************************************************************************)
EXTENDS FlowReconRefines, TLAPS, FiniteSetTheorems, WellFoundedInduction

USE DEF NoTime

-----------------------------------------------------------------------------
(* Lemmas *)

\* The whole second of a time is a time, and not a later one
\* (_sql_datetime_literal, strftime in the event query).
LEMMA WholeSecondEarlier ==
    ASSUME NEW t \in Nat \cup {NoTime}
    PROVE  WholeSecond(t) \in Nat \cup {NoTime} /\ WholeSecond(t) <= t
<1>1. CASE t = NoTime
  BY <1>1 DEF WholeSecond
<1>2. CASE t \in Nat
  <2> DEFINE T == TicksPerSecond
             q == t \div T
  <2>1. T \in Nat /\ T > 0
    BY FlowAssumption DEF FlowAssumption
  <2>2. q \in Nat /\ t = T * q + (t % T) /\ t % T >= 0
    BY <1>2, <2>1
  <2> HIDE DEF T, q
  <2>3. q * T \in Nat /\ q * T <= t
    BY <1>2, <2>1, <2>2
  <2> QED
    BY <1>2, <2>3 DEF WholeSecond, T, q
<1> QED
  BY <1>1, <1>2

\* The largest of a set of times, once one of them is known to be it.
LEMMA MaxIs ==
    ASSUME NEW S \in SUBSET Int, NEW x \in S, \A y \in S : y <= x
    PROVE  Max(S) = x
<1>1. \A y \in S : (\A z \in S : y >= z) => y = x
  OBVIOUS
<1> QED
  BY <1>1 DEF Max

\* What is covered stays covered: both tables only grow.
LEMMA CoveredStays ==
    ASSUME metrics \subseteq metrics', summaries \subseteq summaries'
    PROVE  /\ \A u, f : EvaluatedFlow(u, f) => EvaluatedFlow(u, f)'
           /\ \A e : Covered(e) => Covered(e)'
BY DEF Covered, EvaluatedFlow

\* The watermark a poll stamps is that of its last event, or the one it read
\* (_watermark_from_rows_and_api).
LEMMA StampTime ==
    ASSUME NEW rows, NEW m, LogOrdered, now \in Nat,
           m.at \in Nat \cup {NoTime}, m.at <= now,
           rows = {} \/ (rows \subseteq log /\ \E e \in rows : e.at = now)
    PROVE  LET at == Max({m.at} \cup {e.at : e \in rows})
           IN  /\ at \in Nat \cup {NoTime} /\ at <= now /\ (rows = {} => at = m.at)
               /\ \A e \in rows : e.at <= at
<1> DEFINE S == {m.at} \cup {e.at : e \in rows}
<1>1. S \in SUBSET Int
  BY DEF LogOrdered
<1>2. CASE rows = {}
  <2>1. m.at \in S /\ \A y \in S : y <= m.at
    BY <1>2
  <2>2. Max(S) = m.at
    BY <1>1, <2>1, MaxIs
  <2> QED
    BY <1>2, <2>2
<1>3. CASE rows # {}
  <2>1. now \in S /\ \A y \in S : y <= now
    BY <1>3 DEF LogOrdered
  <2>2. Max(S) = now
    BY <1>1, <2>1, MaxIs
  <2>3. \A e \in rows : e.at <= now
    BY <2>1
  <2> QED
    BY <1>3, <2>2, <2>3
<1> QED
  BY <1>2, <1>3

-----------------------------------------------------------------------------
(* NothingSkipped *)

LEMMA SkipInit == Init => SkipInv
<1> SUFFICES ASSUME Init PROVE SkipInv
  OBVIOUS
<1> USE DEF Init
<1>1. Shapes
  BY DEF Shapes, NoPoll, Steps, InFlows
<1>2. LogOrdered /\ CompletedLast /\ NothingSkipped
  BY DEF LogOrdered, CompletedLast, NothingSkipped
<1>3. MarksPast
  <2>1. mark = NoMark /\ poll.mark = NoMark /\ poll.stamp = NoMark
    BY DEF NoPoll
  <2>2. NoMark.at = -1 /\ now = 0
    BY DEF NoMark
  <2>3. \A m \in {mark, poll.mark, poll.stamp} : m = NoMark
    BY <2>1
  <2> HIDE DEF Init
  <2>4. \A m \in {mark, poll.mark, poll.stamp} : m.at = -1
    BY <2>2, <2>3
  <2> QED
    BY <2>2, <2>4 DEF MarksPast
<1>4. PollCovers /\ FlowsEvaluated
  BY DEF PollCovers, FlowsEvaluated, InFlows, Passed
<1> QED
  BY <1>1, <1>2, <1>3, <1>4 DEF SkipInv

\* The source and the pipeline: the log grows past every watermark.
LEMMA SkipPipeline ==
    ASSUME SkipInv, Pipeline
    PROVE  SkipInv'
<1> USE DEF SkipInv
<1>u. UNCHANGED <<storeVars, pc, poll>>
  BY DEF Pipeline, Commit, StartUpdate, BeginFlow, ReportRows, CompleteFlow, EndUpdate
<1>c. \A e : Covered(e)' <=> Covered(e)
  BY <1>u DEF Covered, EvaluatedFlow, storeVars
<1>f. FlowsEvaluated'
  BY <1>u DEF FlowsEvaluated, EvaluatedFlow, storeVars
<1>1. CASE UNCHANGED <<now, log>>
  <2>1. LogOrdered' /\ CompletedLast' /\ Shapes'
    <3>1. CASE UNCHANGED <<api, stage>>
      BY <1>1, <1>u, <3>1 DEF LogOrdered, CompletedLast, Shapes
    <3>2. CASE StartUpdate
      <4>1. api'.update = api.update + 1 /\ DOMAIN api' = {"update", "state"}
        BY <3>2 DEF StartUpdate
      <4>2. \A e \in log : e.update # api'.update
        BY <4>1 DEF LogOrdered, Shapes
      <4>3. stage' \in [Flows -> {"waiting", "running", "done"}]
        BY <3>2 DEF StartUpdate
      <4> QED
        BY <1>1, <1>u, <4>1, <4>2, <4>3 DEF LogOrdered, CompletedLast, Shapes
    <3>3. ASSUME NEW f \in Flows, BeginFlow(f) PROVE LogOrdered' /\ CompletedLast' /\ Shapes'
      <4>1. UNCHANGED api /\ stage' = [stage EXCEPT ![f] = "running"] /\ stage[f] = "waiting"
        BY <3>3 DEF BeginFlow
      <4> QED
        BY <1>1, <1>u, <4>1 DEF LogOrdered, CompletedLast, Shapes
    <3>4. CASE EndUpdate
      <4>1. api'.update = api.update /\ DOMAIN api' = {"update", "state"}
        BY <3>4 DEF EndUpdate, Shapes
      <4>2. stage' = [f \in Flows |-> "done"]
        BY <3>4 DEF EndUpdate
      <4> QED
        BY <1>1, <1>u, <4>1, <4>2 DEF LogOrdered, CompletedLast, Shapes
    <3>5. ASSUME NEW f \in Flows, ReportRows(f) \/ CompleteFlow(f)
          PROVE  FALSE
      BY <1>1, <3>5 DEF ReportRows, CompleteFlow, Emit, Shapes
    <3> QED
      BY <3>1, <3>2, <3>3, <3>4, <3>5 DEF Pipeline, Commit
  <2>2. MarksPast' /\ PollCovers' /\ NothingSkipped'
    BY <1>1, <1>u, <1>c DEF MarksPast, PollCovers, NothingSkipped, Covered, EvaluatedFlow,
                            storeVars
  <2> QED
    BY <1>f, <2>1, <2>2
<1>2. ASSUME NEW f \in Flows, ReportRows(f) \/ CompleteFlow(f)
      PROVE  SkipInv'
  <2>1. PICK status, rows :
          Emit(f, status, rows) /\ (status = "COMPLETED" => CompleteFlow(f))
    <3>1. CASE ReportRows(f)
      <4>1. PICK r \in 1..rest[f] : Emit(f, "RUNNING", r)
        BY <3>1 DEF ReportRows
      <4> QED
        BY <4>1
    <3>2. CASE CompleteFlow(f)
      <4>1. Emit(f, "COMPLETED", rest[f])
        BY <3>2 DEF CompleteFlow
      <4> QED
        BY <3>2, <4>1
    <3> QED
      BY <1>2, <3>1, <3>2
  <2> DEFINE new == [at |-> now', update |-> api.update, flow |-> f, status |-> status,
                     rows |-> rows]
  <2>2. log' = log \cup {new} /\ now' \in Nat /\ now < now'
    BY <2>1 DEF Emit, Shapes
  <2>3. /\ UNCHANGED api /\ stage[f] = "running"
        /\ stage' \in [Flows -> {"waiting", "running", "done"}]
        /\ \A g \in Flows : g # f => stage'[g] = stage[g]
        /\ status = "COMPLETED" => stage'[f] = "done"
    <3>1. UNCHANGED api /\ stage[f] = "running"
          /\ stage' \in {stage, [stage EXCEPT ![f] = "done"]}
      BY <1>2 DEF ReportRows, CompleteFlow
    <3>2. status = "COMPLETED" => stage' = [stage EXCEPT ![f] = "done"]
      BY <2>1 DEF CompleteFlow
    <3> QED
      BY <3>1, <3>2 DEF Shapes
  <2>4. Shapes'
    BY <1>u, <2>2, <2>3 DEF Shapes
  <2>5. LogOrdered'
    <3>1. new.at = now' /\ new.update = api.update /\ new \in log'
      BY <2>2
    <3>2. \A e \in log' : e \in log \/ e = new
      BY <2>2
    <3> HIDE DEF new
    <3> QED
      BY <2>2, <2>3, <3>1, <3>2 DEF LogOrdered, Shapes
  <2>6. CompletedLast'
    <3>1. /\ new.at = now' /\ new.update = api.update /\ new.flow = f
          /\ new.status = status
      BY <2>2
    <3>2. \A e \in log' : e \in log \/ e = new
      BY <2>2
    <3> HIDE DEF new
    <3>3. \A e \in log : e.at <= new.at /\ e.at \in Nat
      BY <2>2, <3>1 DEF LogOrdered, Shapes
    <3>4. \A c \in log : ~ (c.status = "COMPLETED" /\ new.update = c.update
                                                /\ new.flow = c.flow)
      BY <2>3, <3>1 DEF CompletedLast
    <3>5. new.at <= new.at
      BY <2>2, <3>1
    <3>6. \A c, d \in log' : c.status = "COMPLETED" /\ d.update = c.update
                                 /\ d.flow = c.flow => d.at <= c.at
      BY <3>2, <3>3, <3>4, <3>5 DEF CompletedLast
    <3>7. \A e \in log' : e.status = "COMPLETED" /\ e.update = api'.update
                             /\ e.flow \in Flows => stage'[e.flow] = "done"
      BY <2>3, <3>1, <3>2 DEF CompletedLast
    <3> QED
      BY <3>6, <3>7 DEF CompletedLast
  <2>7. MarksPast'
    BY <1>u, <2>2 DEF MarksPast, storeVars, Shapes
  <2>8. PollCovers' /\ NothingSkipped'
    BY <1>u, <1>c, <2>2 DEF MarksPast, PollCovers, NothingSkipped, Covered, EvaluatedFlow,
                            storeVars, Shapes, LogOrdered
  <2> QED
    BY <1>f, <2>4, <2>5, <2>6, <2>7, <2>8
<1> QED
  BY <1>1, <1>2 DEF Pipeline, Commit, StartUpdate, BeginFlow, EndUpdate

\* The fields of a poll, for the steps that change some of them.
LEMMA PollFields ==
    DOMAIN NoPoll = {"mark", "connected", "rows", "stamp", "todo", "audit", "cur", "before",
                     "head", "source", "process"}
BY DEF NoPoll

\* A step among a poll's flows: a flow leaves the poll's hands evaluated.
LEMMA SkipInFlows ==
    ASSUME SkipInv, UNCHANGED <<pipelineVars, mark>>,
           pc \in InFlows, pc' \in InFlows,
           DOMAIN poll' = DOMAIN poll,
           poll'.mark = poll.mark, poll'.stamp = poll.stamp,
           metrics \subseteq metrics', summaries \subseteq summaries',
           \A s \in poll.todo : s \in poll'.todo \/ EvaluatedFlow(s.update, s.flow)',
           FlowsEvaluated'
    PROVE  SkipInv'
<1> USE DEF SkipInv, pipelineVars
<1>1. LogOrdered' /\ CompletedLast'
  BY DEF LogOrdered, CompletedLast
<1>2. Shapes'
  BY DEF Shapes, Steps, InFlows
<1>3. MarksPast'
  BY DEF MarksPast
<1>4. NothingSkipped'
  BY CoveredStays DEF NothingSkipped
<1>5. PollCovers'
  <2>1. \A e \in log : e.at <= poll.stamp.at =>
            /\ e \in metrics'
            /\ \/ e.status = "COMPLETED" => EvaluatedFlow(e.update, e.flow)'
               \/ \E s \in poll'.todo : s.update = e.update /\ s.flow = e.flow
    BY CoveredStays DEF PollCovers
  <2>2. pc' \notin {"events", "merge", "flush"}
    BY DEF InFlows
  <2> QED
    BY <2>1, <2>2 DEF PollCovers
<1> QED
  BY <1>1, <1>2, <1>3, <1>4, <1>5

\* What a poll reads, if anything, includes the last event of the log.
LEMMA LastIsRead ==
    ASSUME SkipInv, NEW rows \in {EventsSince(poll.mark.at), {}}
    PROVE  /\ rows \subseteq log /\ poll.mark.at <= now
           /\ rows = {} \/ \E e \in rows : e.at = now
<1> USE DEF SkipInv
<1>1. poll.mark.at \in Nat \cup {NoTime} /\ poll.mark.at <= now /\ now \in Nat
  BY DEF MarksPast, Shapes
<1>2. WholeSecond(poll.mark.at) \in Nat \cup {NoTime}
  BY <1>1, WholeSecondEarlier
<1>3. rows \subseteq log
  BY DEF EventsSince
<1>4. ASSUME rows # {} PROVE \E e \in rows : e.at = now
  <2>1. PICK d \in rows : TRUE
    BY <1>4
  <2>2. PICK e \in log : e.at = now
    BY <1>3, <2>1 DEF LogOrdered
  <2>3. d.at <= now /\ d.at \in Nat
    BY <1>3, <2>1 DEF LogOrdered
  <2>4. poll.mark.at = NoTime \/ e.at > WholeSecond(poll.mark.at)
    BY <1>1, <1>2, <2>1, <2>2, <2>3 DEF EventsSince
  <2> QED
    BY <1>4, <2>2, <2>4 DEF EventsSince
<1> QED
  BY <1>1, <1>3, <1>4

\* A poll reads everything after the watermark, and stamps what it read.
LEMMA SkipRead == ASSUME SkipInv, ReadEvents PROVE SkipInv'
<1> USE DEF SkipInv
<1> DEFINE since == EventsSince(poll.mark.at)
<1>1. PICK rows \in {since, {}} :
        /\ poll' = [poll EXCEPT !.rows = rows, !.mark = NoMark,
                                !.stamp = Stamp(poll.stamp, poll.mark, rows)]
        /\ pc' = IF rows = {} THEN "flush" ELSE "merge"
  BY DEF ReadEvents
<1>2. UNCHANGED <<pipelineVars, storeVars>> /\ pc = "events"
  BY DEF ReadEvents
<1> DEFINE top == Max({poll.mark.at} \cup {e.at : e \in rows})
<1>3. /\ DOMAIN poll' = DOMAIN NoPoll /\ poll'.rows = rows /\ poll'.mark = NoMark
      /\ poll'.stamp = Stamp(poll.stamp, poll.mark, rows)
  BY <1>1, PollFields DEF Shapes
<1>4. poll'.stamp.at = top /\ "at" \in DOMAIN poll'.stamp
  BY <1>3 DEF Stamp
<1>5. poll.mark.at \in Nat \cup {NoTime} /\ poll.mark.at <= now /\ now \in Nat
  BY DEF MarksPast, Shapes
<1>6. WholeSecond(poll.mark.at) \in Nat \cup {NoTime} /\ WholeSecond(poll.mark.at) <= poll.mark.at
  BY <1>5, WholeSecondEarlier
<1>7. rows = {} \/ (rows \subseteq log /\ \E e \in rows : e.at = now)
  BY LastIsRead
<1>8. top \in Nat \cup {NoTime} /\ top <= now /\ (rows = {} => top = poll.mark.at)
  BY <1>5, <1>7, StampTime
<1>9. \A e \in log : e \in since \/ Covered(e)
  <2> SUFFICES ASSUME NEW e \in log, e \notin since PROVE Covered(e)
    OBVIOUS
  <2>1. poll.mark.at # NoTime /\ ~(e.at > WholeSecond(poll.mark.at)) /\ e.at \in Nat
    BY DEF EventsSince, LogOrdered
  <2>2. poll.mark.at = mark.at
    BY <1>2, <2>1 DEF PollCovers
  <2> QED
    BY <1>5, <1>6, <2>1, <2>2 DEF NothingSkipped, Covered
<1> HIDE DEF top, since
<1>10. \A e : Covered(e)' <=> Covered(e)
  BY <1>2 DEF Covered, EvaluatedFlow, storeVars
<1>11. Shapes' /\ LogOrdered' /\ CompletedLast'
  BY <1>1, <1>2, <1>3, <1>4 DEF Shapes, LogOrdered, CompletedLast, pipelineVars, Steps, InFlows
<1>12. MarksPast'
  <2>1. NoMark.at = NoTime
    BY DEF NoMark
  <2> QED
    BY <1>2, <1>3, <1>4, <1>5, <1>8, <2>1 DEF MarksPast, pipelineVars, storeVars
<1>13. NothingSkipped' /\ FlowsEvaluated'
  BY <1>1, <1>2 DEF NothingSkipped, FlowsEvaluated, EvaluatedFlow, Passed, storeVars,
                    pipelineVars
<1>14. PollCovers'
  <2>1. CASE rows = {}
    <3>1. pc' = "flush" /\ top = poll.mark.at /\ poll.mark.at \in {mark.at, NoTime}
      BY <1>1, <1>2, <1>8, <2>1 DEF PollCovers
    <3>2. \A e \in log : e.at <= top => Covered(e)
      BY <3>1 DEF NothingSkipped, Covered, LogOrdered
    <3> QED
      BY <1>2, <1>4, <1>10, <3>1, <3>2 DEF PollCovers, pipelineVars, InFlows
  <2>2. CASE rows # {}
    <3>1. pc' = "merge" /\ rows = since
      BY <1>1, <2>2
    <3> QED
      BY <1>2, <1>3, <1>7, <1>9, <1>10, <2>2, <3>1 DEF PollCovers, pipelineVars, InFlows
  <2> QED
    BY <2>1, <2>2
<1> QED
  BY <1>11, <1>12, <1>13, <1>14

\* The first and the last steps of a poll, and a crash.
LEMMA SkipEnds ==
    ASSUME SkipInv, StartPoll \/ WriteProcessLog \/ FlushMark \/ Crash
    PROVE  SkipInv'
<1> USE DEF SkipInv
<1>1. UNCHANGED <<pipelineVars, metrics, summaries, ready>>
  BY DEF StartPoll, WriteProcessLog, FlushMark, Crash, storeVars
<1>2. LogOrdered' /\ CompletedLast'
  BY <1>1 DEF LogOrdered, CompletedLast, pipelineVars
<1>3. \A e : Covered(e)' <=> Covered(e)
  BY <1>1 DEF Covered, EvaluatedFlow
<1>4. NoMark.at = NoTime /\ "at" \in DOMAIN NoMark
  BY DEF NoMark
<1>5. NoPoll.mark = NoMark /\ NoPoll.stamp = NoMark
  BY DEF NoPoll
<1>6. CASE StartPoll
  <2>1. PICK m \in {mark, NoMark}, connected \in BOOLEAN :
            /\ poll' = [NoPoll EXCEPT !.mark = m, !.connected = connected,
                                      !.stamp = Stamp(api, m, {})]
            /\ pc' = IF NeedsPoll(api, m) THEN "events" ELSE "flush"
    BY <1>6 DEF StartPoll
  <2>2. DOMAIN poll' = DOMAIN NoPoll /\ poll'.mark = m /\ poll'.stamp = Stamp(api, m, {})
    BY <2>1, PollFields
  <2>3. m.at \in Nat \cup {NoTime} /\ m.at <= now /\ now \in Nat
    BY <1>4 DEF MarksPast, Shapes
  <2>4. Stamp(api, m, {}).at = m.at /\ "at" \in DOMAIN Stamp(api, m, {})
    <3>1. Max({m.at} \cup {e.at : e \in {}}) = m.at
      BY <2>3, StampTime
    <3> QED
      BY <3>1 DEF Stamp
  <2>5. UNCHANGED mark
    BY <1>6 DEF StartPoll, storeVars
  <2>6. m.at \in {mark.at, NoTime}
    BY <1>4
  <2>7. \A e \in log : e.at <= m.at => Covered(e)
    BY <2>3, <2>6 DEF NothingSkipped, Covered, LogOrdered
  <2>8. Shapes'
    BY <1>1, <2>1, <2>2, <2>4 DEF Shapes, pipelineVars, Steps, InFlows
  <2>9. MarksPast'
    BY <1>1, <2>2, <2>3, <2>4, <2>5 DEF MarksPast, pipelineVars
  <2>10. PollCovers'
    BY <1>1, <1>3, <2>1, <2>2, <2>4, <2>5, <2>6, <2>7 DEF PollCovers, InFlows, pipelineVars
  <2>11. FlowsEvaluated' /\ NothingSkipped'
    BY <1>1, <2>1, <2>5 DEF FlowsEvaluated, NothingSkipped, EvaluatedFlow, Passed, pipelineVars
  <2> QED
    BY <1>2, <2>8, <2>9, <2>10, <2>11
<1>7. CASE WriteProcessLog
  <2>1. UNCHANGED <<poll, mark>> /\ pc = "flows" /\ pc' = "flush" /\ poll.todo = {}
    BY <1>7 DEF WriteProcessLog
  <2>2. \A e \in log : e.at <= poll.stamp.at => Covered(e)
    BY <2>1 DEF PollCovers, Covered, InFlows
  <2>3. PollCovers'
    BY <1>1, <1>3, <2>1, <2>2 DEF PollCovers, InFlows, pipelineVars
  <2>4. Shapes' /\ MarksPast'
    BY <1>1, <2>1 DEF Shapes, MarksPast, pipelineVars, Steps, InFlows
  <2>5. FlowsEvaluated' /\ NothingSkipped'
    BY <1>1, <2>1 DEF FlowsEvaluated, NothingSkipped, EvaluatedFlow, Passed, pipelineVars
  <2> QED
    BY <1>2, <2>3, <2>4, <2>5
<1>8. CASE FlushMark \/ Crash
  <2>1. poll' = NoPoll /\ pc' = "idle"
    BY <1>8 DEF FlushMark, Crash, EndPoll
  <2>2. \/ UNCHANGED mark
        \/ pc = "flush" /\ mark' = [poll.stamp EXCEPT !.at = WholeSecond(@)]
    BY <1>8 DEF FlushMark, Crash, storeVars
  <2>3. /\ mark'.at \in Nat \cup {NoTime} /\ mark'.at <= now
        /\ \A e \in log : e.at <= mark'.at => Covered(e)
    <3>1. CASE UNCHANGED mark
      BY <3>1 DEF MarksPast, NothingSkipped, Covered
    <3>2. CASE pc = "flush" /\ mark' = [poll.stamp EXCEPT !.at = WholeSecond(@)]
      <4>1. "at" \in DOMAIN poll.stamp
        BY <3>2 DEF Shapes
      <4>2. mark'.at = WholeSecond(poll.stamp.at)
        BY <3>2, <4>1
      <4>3. poll.stamp.at \in Nat \cup {NoTime} /\ poll.stamp.at <= now /\ now \in Nat
        BY DEF MarksPast, Shapes
      <4>4. mark'.at \in Nat \cup {NoTime} /\ mark'.at <= poll.stamp.at
        BY <4>2, <4>3, WholeSecondEarlier
      <4>5. \A e \in log : e.at <= poll.stamp.at => Covered(e)
        BY <3>2 DEF PollCovers
      <4>6. \A e \in log : e.at \in Nat
        BY DEF LogOrdered
      <4> QED
        BY <4>3, <4>4, <4>5, <4>6
    <3> QED
      BY <2>2, <3>1, <3>2
  <2>4. NothingSkipped'
    BY <1>1, <1>3, <2>3 DEF NothingSkipped, Covered, pipelineVars
  <2>5. MarksPast'
    <3>1. now' = now /\ now \in Nat /\ poll'.mark.at = -1 /\ poll'.stamp.at = -1
      BY <1>1, <1>4, <1>5, <2>1 DEF Shapes, pipelineVars
    <3> QED
      BY <2>3, <3>1 DEF MarksPast
  <2>6. PollCovers' /\ FlowsEvaluated'
    BY <1>1, <2>1 DEF PollCovers, FlowsEvaluated, EvaluatedFlow, Passed, InFlows
  <2>7. Shapes'
    BY <1>1, <2>1 DEF Shapes, pipelineVars, Steps, InFlows
  <2> QED
    BY <1>2, <2>4, <2>5, <2>6, <2>7
<1> QED
  BY <1>6, <1>7, <1>8

\* The rows are merged before their flows are gone through.
LEMMA SkipMerge == ASSUME SkipInv, MergeMetrics PROVE SkipInv'
<1> USE DEF SkipInv
<1>1. /\ UNCHANGED <<pipelineVars, mark, summaries, ready>>
      /\ metrics' = metrics \cup poll.rows /\ pc = "merge" /\ pc' = "audit"
      /\ poll' = [poll EXCEPT !.rows = {}, !.todo = FlowSummaries(poll.rows)]
  BY DEF MergeMetrics
<1>2. /\ DOMAIN poll' = DOMAIN NoPoll /\ poll'.todo = FlowSummaries(poll.rows)
      /\ poll'.mark = poll.mark /\ poll'.stamp = poll.stamp
  BY <1>1, PollFields DEF Shapes
<1>3. Shapes' /\ LogOrdered' /\ CompletedLast' /\ MarksPast'
  BY <1>1, <1>2 DEF Shapes, LogOrdered, CompletedLast, MarksPast, pipelineVars, Steps, InFlows
<1>4. NothingSkipped' /\ FlowsEvaluated'
  BY <1>1 DEF NothingSkipped, FlowsEvaluated, EvaluatedFlow, Passed, pipelineVars
<1>5. ASSUME NEW e \in poll.rows, e.status = "COMPLETED"
      PROVE  \E s \in FlowSummaries(poll.rows) : s.update = e.update /\ s.flow = e.flow
  <2>1. poll.rows \subseteq log
    BY <1>1 DEF PollCovers
  <2>2. \A d \in poll.rows : d.update = e.update /\ d.flow = e.flow => d.at <= e.at
    BY <1>5, <2>1 DEF CompletedLast
  <2> DEFINE s == [update |-> e.update, flow |-> e.flow,
                   rows |-> TotalRows({d \in poll.rows : d.update = e.update /\ d.flow = e.flow})]
  <2>3. s \in FlowSummaries(poll.rows)
    BY <1>5, <2>2 DEF FlowSummaries
  <2>4. s.update = e.update /\ s.flow = e.flow
    OBVIOUS
  <2> QED
    BY <2>3, <2>4
<1>6. PollCovers'
  <2>1. \A e \in log : e.at <= poll.stamp.at =>
            /\ e \in metrics'
            /\ \/ e.status = "COMPLETED" => EvaluatedFlow(e.update, e.flow)
               \/ \E s \in poll'.todo : s.update = e.update /\ s.flow = e.flow
    BY <1>1, <1>2, <1>5 DEF PollCovers, Covered
  <2> QED
    BY <1>1, <1>2, <2>1 DEF PollCovers, EvaluatedFlow, InFlows, pipelineVars
<1> QED
  BY <1>3, <1>4, <1>6

\* The steps among the flows.
LEMMA SkipFlows ==
    ASSUME SkipInv,
           \/ OpenAudit \/ (\E s \in poll.todo : TakeFlow(s))
           \/ Baseline \/ BaselineDb \/ ReadCtHead \/ CountChanges \/ CountRaises \/ Evaluate
           \/ AdvanceTable \/ AdvanceDb \/ WriteReady
    PROVE  SkipInv'
<1> USE DEF SkipInv
<1>p. DOMAIN poll = DOMAIN NoPoll
  BY DEF Shapes
<1>1. CASE OpenAudit
  <2>1. /\ UNCHANGED <<pipelineVars, storeVars>> /\ pc = "audit" /\ pc' = "flows"
        /\ poll' = poll \/ \E b : poll' = [poll EXCEPT !.audit = b]
    BY <1>1 DEF OpenAudit
  <2>2. DOMAIN poll' = DOMAIN poll /\ poll'.mark = poll.mark /\ poll'.stamp = poll.stamp
        /\ poll'.todo = poll.todo
    BY <1>p, <2>1, PollFields
  <2>3. FlowsEvaluated'
    BY <2>1 DEF FlowsEvaluated, EvaluatedFlow, Passed, storeVars
  <2> QED
    BY <2>1, <2>2, <2>3, SkipInFlows DEF storeVars, InFlows
<1>2. ASSUME NEW s \in poll.todo, TakeFlow(s) PROVE SkipInv'
  <2>1. UNCHANGED <<pipelineVars, storeVars>> /\ pc = "flows"
    BY <1>2 DEF TakeFlow
  <2>2. CASE Recorded(s) /\ poll' = [poll EXCEPT !.todo = @ \ {s}] /\ pc' = "flows"
    <3>1. DOMAIN poll' = DOMAIN poll /\ poll'.mark = poll.mark /\ poll'.stamp = poll.stamp
          /\ poll'.todo = poll.todo \ {s}
      BY <1>p, <2>2, PollFields
    <3>2. EvaluatedFlow(s.update, s.flow)'
      BY <2>1, <2>2 DEF FlowsEvaluated, Recorded, EvaluatedFlow, storeVars
    <3>3. FlowsEvaluated'
      BY <2>1, <2>2 DEF FlowsEvaluated, EvaluatedFlow, Passed, storeVars
    <3> QED
      BY <2>1, <2>2, <3>1, <3>2, <3>3, SkipInFlows DEF storeVars, InFlows
  <2>3. CASE poll' = [poll EXCEPT !.cur = s] /\ pc' = CountStep(s.flow)
    <3>1. DOMAIN poll' = DOMAIN poll /\ poll'.mark = poll.mark /\ poll'.stamp = poll.stamp
          /\ poll'.todo = poll.todo
      BY <1>p, <2>3, PollFields
    <3>2. pc' \in {"evaluate", "baseline", "count"}
      BY <2>3 DEF CountStep
    <3>3. FlowsEvaluated'
      BY <2>1, <3>2 DEF FlowsEvaluated, EvaluatedFlow, Passed, storeVars
    <3> QED
      BY <2>1, <3>1, <3>2, <3>3, SkipInFlows DEF storeVars, InFlows
  <2> QED
    BY <1>2, <2>2, <2>3 DEF TakeFlow
<1>3. CASE \/ Baseline \/ BaselineDb \/ ReadCtHead \/ CountChanges \/ CountRaises
           \/ AdvanceTable \/ AdvanceDb
  <2>1. /\ UNCHANGED <<pipelineVars, mark, metrics, summaries, ready>>
        /\ pc \in InFlows /\ pc' \in InFlows
        /\ pc' \in Passed => pc \in Passed
    BY <1>3 DEF Baseline, BaselineDb, ReadCtHead, CountChanges, CountRaises,
                AdvanceTable, AdvanceDb, storeVars, InFlows, Passed
  <2>2. \/ poll' = poll
        \/ \E b, h : poll' = [poll EXCEPT !.before = b, !.head = h]
        \/ \E n : poll' = [poll EXCEPT !.source = n]
    BY <1>3 DEF Baseline, BaselineDb, ReadCtHead, CountChanges, CountRaises, AdvanceTable, AdvanceDb
  <2>3. DOMAIN poll' = DOMAIN poll /\ poll'.mark = poll.mark /\ poll'.stamp = poll.stamp
        /\ poll'.todo = poll.todo /\ poll'.cur = poll.cur
    BY <1>p, <2>2, PollFields
  <2>4. FlowsEvaluated'
    BY <2>1, <2>3 DEF FlowsEvaluated, EvaluatedFlow
  <2> QED
    BY <2>1, <2>3, <2>4, SkipInFlows
<1>4. CASE Evaluate
  <2>1. PICK verdict \in {"PASS", "FAIL"} :
          /\ summaries' = summaries \cup {CurrentRow(verdict)}
          /\ \/ verdict = "FAIL" /\ NextFlow({CurrentRow("FAIL")})
             \/ UNCHANGED poll /\ pc' \in {"advance", "ready"}
    BY <1>4 DEF Evaluate, Verdict
  <2>2. UNCHANGED <<pipelineVars, mark, metrics, ready>> /\ pc = "evaluate"
    BY <1>4 DEF Evaluate
  <2>3. \E s \in summaries' : s.update = poll.cur.update /\ s.flow = poll.cur.flow
    <3>1. CurrentRow(verdict) \in summaries'
      BY <2>1
    <3>2. CurrentRow(verdict).update = poll.cur.update /\ CurrentRow(verdict).flow = poll.cur.flow
      BY DEF CurrentRow
    <3> QED
      BY <3>1, <3>2
  <2>4. \A r \in ready : EvaluatedFlow(r.update, r.flow)'
    BY <2>1 DEF FlowsEvaluated, EvaluatedFlow
  <2>5. CASE NextFlow({CurrentRow("FAIL")})
    <3>1. DOMAIN poll' = DOMAIN poll /\ poll'.mark = poll.mark /\ poll'.stamp = poll.stamp
          /\ poll'.todo = poll.todo \ {poll.cur} /\ pc' = "flows"
      BY <1>p, <2>5, PollFields DEF NextFlow
    <3>2. FlowsEvaluated'
      BY <2>2, <2>4, <3>1 DEF FlowsEvaluated, EvaluatedFlow, Passed
    <3>3. \A s \in poll.todo : s \in poll'.todo \/ EvaluatedFlow(s.update, s.flow)'
      BY <2>3, <3>1 DEF EvaluatedFlow
    <3> QED
      BY <2>1, <2>2, <3>1, <3>2, <3>3, SkipInFlows DEF InFlows
  <2>6. CASE UNCHANGED poll /\ pc' \in {"advance", "ready"}
    <3>1. FlowsEvaluated'
      BY <2>2, <2>3, <2>4, <2>6 DEF FlowsEvaluated, EvaluatedFlow
    <3> QED
      BY <2>1, <2>2, <2>6, <3>1, SkipInFlows DEF InFlows
  <2> QED
    BY <2>1, <2>5, <2>6
<1>5. CASE WriteReady
  <2>1. PICK new : /\ ready' = ready \cup {new}
                   /\ new.update = poll.cur.update /\ new.flow = poll.cur.flow
    <3> DEFINE row == [recon_id |-> Cardinality(ready) + 1,
                   update |-> poll.cur.update, flow |-> poll.cur.flow,
                   rows |-> poll.cur.rows, source |-> poll.source]
    <3>1. ready' = ready \cup {row}
      BY <1>5 DEF WriteReady
    <3>2. row.update = poll.cur.update /\ row.flow = poll.cur.flow
      OBVIOUS
    <3> QED
      BY <3>1, <3>2
  <2>2. UNCHANGED <<pipelineVars, mark, metrics, summaries>> /\ pc = "ready"
        /\ NextFlow({CurrentRow("PASS")})
    BY <1>5 DEF WriteReady
  <2>3. DOMAIN poll' = DOMAIN poll /\ poll'.mark = poll.mark /\ poll'.stamp = poll.stamp
        /\ poll'.todo = poll.todo \ {poll.cur} /\ pc' = "flows"
    BY <1>p, <2>2, PollFields DEF NextFlow
  <2>4. EvaluatedFlow(poll.cur.update, poll.cur.flow)
    BY <2>2 DEF FlowsEvaluated, Passed
  <2>5. FlowsEvaluated'
    BY <2>1, <2>2, <2>3, <2>4 DEF FlowsEvaluated, EvaluatedFlow, Passed
  <2>6. \A s \in poll.todo : s \in poll'.todo \/ EvaluatedFlow(s.update, s.flow)'
    BY <2>2, <2>3, <2>4 DEF EvaluatedFlow
  <2> QED
    BY <2>2, <2>3, <2>5, <2>6, SkipInFlows DEF InFlows
<1> QED
  BY <1>1, <1>2, <1>3, <1>4, <1>5

LEMMA AlwaysSkipInv == Spec => []SkipInv
<1>1. SkipInv /\ [Next]_vars => SkipInv'
  <2> SUFFICES ASSUME SkipInv, [Next]_vars PROVE SkipInv'
    OBVIOUS
  <2>1. CASE UNCHANGED vars
    BY <2>1 DEF vars, pipelineVars, storeVars, SkipInv, Shapes, LogOrdered, CompletedLast,
                MarksPast, PollCovers, FlowsEvaluated, NothingSkipped, Covered, EvaluatedFlow
  <2>2. CASE Next
    BY <2>2, SkipPipeline, SkipEnds, SkipRead, SkipMerge, SkipFlows DEF Next, Recon
  <2> QED
    BY <2>1, <2>2
<1> QED
  BY SkipInit, <1>1, PTL DEF Spec

\* However often calls fail and the job crashes, no event at or below the stored
\* watermark goes unread, nor a flow that completed there unevaluated.
THEOREM NothingIsSkipped == Spec => []NothingSkipped
<1>1. SkipInv => NothingSkipped
  BY DEF SkipInv
<1> QED
  BY <1>1, AlwaysSkipInv, PTL

-----------------------------------------------------------------------------
(* OneReadyPerFlow *)

LEMMA AlwaysRecordedInv ==
    ASSUME "recorded" \notin MayFail
    PROVE  Spec => []RecordedInv
<1>1. Init => RecordedInv
  BY DEF Init, RecordedInv, OneReadyPerFlow, Working, InFlows
<1>2. RecordedInv /\ [Next]_vars => RecordedInv'
  <2> SUFFICES ASSUME RecordedInv, [Next]_vars PROVE RecordedInv'
    OBVIOUS
  <2> USE DEF RecordedInv
  <2>1. CASE WriteReady
    <3>1. PICK new : /\ ready' = ready \cup {new}
                     /\ new.update = poll.cur.update /\ new.flow = poll.cur.flow
      <4> DEFINE row == [recon_id |-> Cardinality(ready) + 1,
                     update |-> poll.cur.update, flow |-> poll.cur.flow,
                     rows |-> poll.cur.rows, source |-> poll.source]
      <4>1. ready' = ready \cup {row}
        BY <2>1 DEF WriteReady
      <4>2. row.update = poll.cur.update /\ row.flow = poll.cur.flow
        OBVIOUS
      <4> QED
        BY <4>1, <4>2
    <3>2. pc = "ready" /\ NextFlow({CurrentRow("PASS")})
      BY <2>1 DEF WriteReady
    <3>3. DOMAIN poll' = DOMAIN poll /\ pc' = "flows"
      BY <3>2 DEF NextFlow
    <3>4. \A r \in ready : ~ (r.update = new.update /\ r.flow = new.flow)
      BY <3>1, <3>2 DEF Recorded, Working, InFlows
    <3>5. OneReadyPerFlow'
      BY <3>1, <3>4 DEF OneReadyPerFlow
    <3> QED
      BY <3>3, <3>5 DEF Working
  <2>2. ASSUME NEW s \in poll.todo, TakeFlow(s) PROVE RecordedInv'
    <3>1. UNCHANGED ready
      BY <2>2 DEF TakeFlow, storeVars
    <3>2. CASE ~Recorded(s) /\ poll' = [poll EXCEPT !.cur = s]
      <4>1. DOMAIN poll' = DOMAIN poll /\ poll'.cur = s
        BY <3>2, PollFields
      <4> QED
        BY <3>1, <3>2, <4>1 DEF Recorded, OneReadyPerFlow
    <3>3. CASE pc' = "flows" /\ poll' = [poll EXCEPT !.todo = @ \ {s}]
      BY <3>1, <3>3 DEF OneReadyPerFlow, Working
    <3> QED
      BY <2>2, <3>2, <3>3 DEF TakeFlow, Fail
  <2>3. CASE UNCHANGED ready /\ DOMAIN poll' = DOMAIN poll
              /\ (pc' \in Working => pc \in Working /\ poll'.cur = poll.cur)
    BY <2>3 DEF Recorded, OneReadyPerFlow
  <2>4. ASSUME [Next]_vars, ~WriteReady, \A s \in poll.todo : ~TakeFlow(s)
        PROVE  UNCHANGED ready /\ DOMAIN poll' = DOMAIN poll
               /\ (pc' \in Working => pc \in Working /\ poll'.cur = poll.cur)
    <3>1. CASE Pipeline \/ UNCHANGED vars
      BY <3>1 DEF Pipeline, Commit, StartUpdate, BeginFlow, ReportRows, CompleteFlow,
                  EndUpdate, vars, storeVars
    <3>2. CASE StartPoll \/ FlushMark \/ Crash
      <4>1. UNCHANGED ready /\ pc' \in {"idle", "events", "flush"}
        BY <3>2 DEF StartPoll, FlushMark, Crash, EndPoll, storeVars
      <4>2. DOMAIN poll' = DOMAIN NoPoll
        BY <3>2 DEF StartPoll, FlushMark, Crash, EndPoll
      <4> QED
        BY <4>1, <4>2 DEF Working, InFlows
    <3>3. CASE ReadEvents
      <4>1. UNCHANGED ready /\ pc' \in {"merge", "flush"}
        BY <3>3 DEF ReadEvents, storeVars
      <4>2. DOMAIN poll' = DOMAIN poll
        BY <3>3 DEF ReadEvents
      <4> QED
        BY <4>1, <4>2 DEF Working, InFlows
    <3>4. CASE MergeMetrics \/ OpenAudit \/ WriteProcessLog
      <4>1. UNCHANGED ready /\ pc' \in {"audit", "flows", "flush"}
        BY <3>4 DEF MergeMetrics, OpenAudit, WriteProcessLog, storeVars
      <4>2. DOMAIN poll' = DOMAIN poll
        BY <3>4 DEF MergeMetrics, OpenAudit, WriteProcessLog
      <4> QED
        BY <4>1, <4>2 DEF Working, InFlows
    <3>5. CASE \/ Baseline \/ BaselineDb \/ ReadCtHead \/ CountChanges \/ CountRaises
               \/ AdvanceTable \/ AdvanceDb
      <4>1. /\ UNCHANGED ready /\ pc \in Working
            /\ \/ poll' = poll
               \/ \E b, h : poll' = [poll EXCEPT !.before = b, !.head = h]
               \/ \E n : poll' = [poll EXCEPT !.source = n]
        BY <3>5 DEF Baseline, BaselineDb, ReadCtHead, CountChanges, CountRaises,
                    AdvanceTable, AdvanceDb, storeVars, Working, InFlows
      <4> QED
        BY <4>1, PollFields
    <3>6. CASE Evaluate
      <4>1. /\ UNCHANGED ready /\ pc = "evaluate"
            /\ UNCHANGED poll \/ NextFlow({CurrentRow("FAIL")})
        BY <3>6 DEF Evaluate
      <4> QED
        BY <4>1, PollFields DEF NextFlow, Working, InFlows
    <3> QED
      BY <2>4, <3>1, <3>2, <3>3, <3>4, <3>5, <3>6 DEF Next, Recon
  <2> QED
    BY <2>1, <2>2, <2>3, <2>4
<1> QED
  BY <1>1, <1>2, PTL DEF Spec

\* A row is appended only for a flow whose row was looked for and not found: with one
\* recon job, and the query for the row answered, no flow of an update gets two.
THEOREM OneRowPerFlow ==
    ASSUME "recorded" \notin MayFail
    PROVE  Spec => []OneReadyPerFlow
<1>1. RecordedInv => OneReadyPerFlow
  BY DEF RecordedInv
<1> QED
  BY <1>1, AlwaysRecordedInv, PTL

-----------------------------------------------------------------------------
(* TypeOK *)

LEMMA LeastNat ==
    ASSUME NEW T, T \subseteq Nat, T # {}
    PROVE  \E x \in T : \A y \in T : x <= y
<1> DEFINE R == {ss \in Nat \X Nat : ss[1] < ss[2]}
<1>1. IsWellFoundedOn(R, Nat)
  BY NatLessThanWellFounded DEF OpToRel
<1>2. PICK x \in T : \A y \in T : ~ (<<y, x>> \in R)
  <2> HIDE DEF R
  <2> QED
    BY <1>1, WFMin
<1>3. \A y \in T : ~ (y < x)
  BY <1>2
<1> QED
  BY <1>3

\* Induction over the natural numbers, for what is said as membership in a set.
LEMMA InductiveSet ==
    ASSUME NEW S, 0 \in S, \A n \in Nat : n \in S => n + 1 \in S
    PROVE  \A n \in Nat : n \in S
<1> SUFFICES ASSUME Nat \ S # {} PROVE FALSE
  OBVIOUS
<1>1. PICK x \in Nat \ S : \A y \in Nat \ S : x <= y
  BY LeastNat
<1>2. x - 1 \in Nat /\ x - 1 \in S
  BY <1>1
<1> QED
  BY <1>2

\* TotalRows is a recursive function over the subsets of the events, with this body.
AnyOf(s) == CHOOSE e \in s : TRUE

RowsBody(f, s) == IF s = {} THEN 0 ELSE AnyOf(s).rows + f[s \ {AnyOf(s)}]

RowsFunction(S, f) == [s \in S |-> RowsBody(f, s)]

UpTo(events, n) == {s \in SUBSET events : Cardinality(s) <= n}

LEMMA OneLess ==
    ASSUME NEW events, IsFiniteSet(events), NEW n \in Nat,
           NEW s \in UpTo(events, n + 1), s # {}
    PROVE  AnyOf(s) \in s /\ s \ {AnyOf(s)} \in UpTo(events, n)
<1>1. AnyOf(s) \in s
  BY DEF AnyOf
<1>2. IsFiniteSet(s) /\ s \in SUBSET events /\ Cardinality(s) <= n + 1
  BY FS_Subset DEF UpTo
<1>3. Cardinality(s \ {AnyOf(s)}) = Cardinality(s) - 1
  BY <1>1, <1>2, FS_RemoveElement
<1>4. Cardinality(s) \in Nat
  BY <1>2, FS_CardinalityType
<1> QED
  BY <1>1, <1>2, <1>3, <1>4 DEF UpTo

LEMMA OnlyEmpty ==
    ASSUME NEW events, IsFiniteSet(events), NEW s \in UpTo(events, 0)
    PROVE  s = {}
<1>1. IsFiniteSet(s) /\ Cardinality(s) <= 0
  BY FS_Subset DEF UpTo
<1>2. Cardinality(s) \in Nat
  BY <1>1, FS_CardinalityType
<1>3. Cardinality(s) = 0
  BY <1>1, <1>2
<1> QED
  BY <1>1, <1>3, FS_EmptySet

\* That there is such a function, for the subsets of up to n events: by induction on n.
LEMMA RowsDefined ==
    ASSUME NEW events, IsFiniteSet(events)
    PROVE  \E f : f = RowsFunction(SUBSET events, f)
<1> DEFINE S == {n \in Nat : \E f : f = RowsFunction(UpTo(events, n), f)}
<1>1. 0 \in S
  <2> DEFINE f == [s \in UpTo(events, 0) |-> 0]
  <2>1. \A s \in UpTo(events, 0) : RowsBody(f, s) = 0
    BY OnlyEmpty DEF RowsBody
  <2>2. f = [s \in UpTo(events, 0) |-> RowsBody(f, s)]
    BY <2>1
  <2>3. f = RowsFunction(UpTo(events, 0), f)
    BY <2>2 DEF RowsFunction
  <2> HIDE DEF f
  <2> QED
    BY <2>3
<1>2. ASSUME NEW n \in Nat, n \in S PROVE n + 1 \in S
  <2>1. PICK f : f = [s \in UpTo(events, n) |-> RowsBody(f, s)]
    BY <1>2 DEF RowsFunction
  <2> DEFINE g == [s \in UpTo(events, n + 1) |-> RowsBody(f, s)]
  <2>2. ASSUME NEW s \in UpTo(events, n + 1), s # {}
        PROVE  f[s \ {AnyOf(s)}] = g[s \ {AnyOf(s)}]
    <3>1. s \ {AnyOf(s)} \in UpTo(events, n)
      BY <2>2, OneLess
    <3>2. s \ {AnyOf(s)} \in UpTo(events, n + 1)
      <4>1. Cardinality(s \ {AnyOf(s)}) \in Nat
        BY <3>1, FS_Subset, FS_CardinalityType DEF UpTo
      <4> QED
        BY <3>1, <4>1 DEF UpTo
    <3> QED
      BY <2>1, <3>1, <3>2
  <2>3. \A s \in UpTo(events, n + 1) : RowsBody(f, s) = RowsBody(g, s)
    BY <2>2 DEF RowsBody
  <2>4. g = [s \in UpTo(events, n + 1) |-> RowsBody(g, s)]
    BY <2>3
  <2>5. g = RowsFunction(UpTo(events, n + 1), g)
    BY <2>4 DEF RowsFunction
  <2> HIDE DEF g
  <2> QED
    BY <2>5
<1>3. \A n \in Nat : n \in S
  <2> HIDE DEF S
  <2> QED
    BY <1>1, <1>2, InductiveSet
<1>4. Cardinality(events) \in Nat
  BY FS_CardinalityType
<1>5. UpTo(events, Cardinality(events)) = SUBSET events
  BY FS_Subset DEF UpTo
<1> QED
  BY <1>3, <1>4, <1>5

\* Adding up the rows of finitely many events gives a number (aggregate_flow_metrics).
LEMMA RowsAddUp ==
    ASSUME NEW events \in SUBSET Event, IsFiniteSet(events)
    PROVE  TotalRows(events) \in Nat
<1> DEFINE f == CHOOSE g : g = RowsFunction(SUBSET events, g)
<1>1. TotalRows(events) = f[events]
  BY Zenon DEF TotalRows, MapThenSumSet, MapThenFoldSet, RowsFunction, RowsBody, AnyOf
<1>2. f = RowsFunction(SUBSET events, f)
  BY RowsDefined
<1> HIDE DEF f
<1>3. \A s \in SUBSET events : f[s] = RowsBody(f, s)
  BY <1>2 DEF RowsFunction
<1> DEFINE S == {n \in Nat : \A s \in UpTo(events, n) : f[s] \in Nat}
<1>4. 0 \in S
  <2>1. \A s \in UpTo(events, 0) : f[s] = 0
    BY <1>3, OnlyEmpty DEF RowsBody, UpTo
  <2> QED
    BY <2>1
<1>5. ASSUME NEW n \in Nat, n \in S PROVE n + 1 \in S
  <2> SUFFICES ASSUME NEW s \in UpTo(events, n + 1) PROVE f[s] \in Nat
    OBVIOUS
  <2>1. f[s] = RowsBody(f, s) /\ s \in SUBSET events
    BY <1>3 DEF UpTo
  <2>2. CASE s = {}
    BY <2>1, <2>2 DEF RowsBody
  <2>3. CASE s # {}
    <3>1. AnyOf(s) \in s /\ s \ {AnyOf(s)} \in UpTo(events, n)
      BY <2>3, OneLess
    <3>2. f[s \ {AnyOf(s)}] \in Nat
      BY <1>5, <3>1
    <3>3. AnyOf(s).rows \in Nat
      BY <2>1, <3>1 DEF Event
    <3> QED
      BY <2>1, <2>3, <3>2, <3>3 DEF RowsBody
  <2> QED
    BY <2>2, <2>3
<1>6. \A n \in Nat : n \in S
  <2> HIDE DEF S
  <2> QED
    BY <1>4, <1>5, InductiveSet
<1>7. Cardinality(events) \in Nat
  BY FS_CardinalityType
<1>8. events \in UpTo(events, Cardinality(events))
  BY <1>7 DEF UpTo
<1> QED
  BY <1>1, <1>6, <1>7, <1>8

\* A count of changes is a number (CHANGETABLE in the database, or federated).
LEMMA ChangesCounted ==
    ASSUME TypeOK, NEW f, NEW w, NEW h
    PROVE  PendingChanges(f, w, h) \in Nat
<1> DEFINE counted == {v \in LatestVersions(f) : w < v /\ v <= h}
<1>1. CtHead \in Int
  BY DEF TypeOK, CtHead, Versions
<1>2. counted \in SUBSET (1..CtHead)
  BY DEF LatestVersions
<1>3. IsFiniteSet(counted)
  <2>1. IsFiniteSet(1..CtHead)
    BY <1>1, FS_Interval
  <2> HIDE DEF counted
  <2> QED
    BY <1>2, <2>1, FS_Subset
<1>4. Cardinality(counted) \in Nat
  BY <1>3, FS_CardinalityType
<1> QED
  BY <1>4 DEF PendingChanges

\* The summaries of finitely many events name their updates and flows.
LEMMA SummariesTyped ==
    ASSUME NEW events \in SUBSET Event, IsFiniteSet(events)
    PROVE  FlowSummaries(events) \subseteq Summary
<1> SUFFICES ASSUME NEW e \in events
             PROVE  [update |-> e.update, flow |-> e.flow,
                     rows |-> TotalRows({d \in events : d.update = e.update /\ d.flow = e.flow})]
                        \in Summary
  BY DEF FlowSummaries
<1> DEFINE window == {d \in events : d.update = e.update /\ d.flow = e.flow}
<1>1. window \in SUBSET Event /\ IsFiniteSet(window)
  BY FS_Subset
<1>2. TotalRows(window) \in Nat
  <2> HIDE DEF window
  <2> QED
    BY <1>1, RowsAddUp
<1>3. e.update \in Updates /\ e.flow \in Flows
  BY DEF Event
<1> QED
  BY <1>2, <1>3 DEF Summary

\* What a poll stamps is a mark that can be stored, and so is its whole second.
LEMMA StampTyped ==
    ASSUME TypeOK, LogOrdered, NEW snapshot \in ApiState \cup Mark, NEW m \in Mark \cup {NoMark},
           m.at <= now,
           NEW rows, rows = {} \/ (rows \subseteq log /\ \E e \in rows : e.at = now)
    PROVE  Stamp(snapshot, m, rows) \in Mark
<1> DEFINE top == Max({m.at} \cup {e.at : e \in rows})
<1>1. now \in Nat /\ now <= MaxTime /\ MaxTime \in Nat
  BY FlowAssumption DEF FlowAssumption, TypeOK, Times
<1>2. m.at \in Nat \cup {NoTime}
  <2>1. CASE m = NoMark
    <3>1. NoMark.at = NoTime
      BY DEF NoMark
    <3> QED
      BY <2>1, <3>1
  <2>2. CASE m \in Mark
    <3>1. m.at \in Times \cup {NoTime}
      BY <2>2 DEF Mark
    <3>2. Times \subseteq Nat
      BY <1>1 DEF Times
    <3> QED
      BY <3>1, <3>2
  <2> QED
    BY <2>1, <2>2
<1>3. top \in Nat \cup {NoTime} /\ top <= now
  BY <1>1, <1>2, StampTime
<1>4. top \in Times \cup {NoTime}
  <2> HIDE DEF top
  <2> QED
    BY <1>1, <1>3 DEF Times
<1>5. /\ snapshot.update \in 0..MaxUpdates
      /\ snapshot.state \in {"", "RUNNING", "COMPLETED", "FAILED"}
  BY DEF ApiState, Mark
<1> QED
  BY <1>4, <1>5 DEF Stamp, Mark

LEMMA SecondsTyped ==
    ASSUME NEW m \in Mark
    PROVE  [m EXCEPT !.at = WholeSecond(@)] \in Mark
<1>1. m.at \in Times \cup {NoTime} /\ MaxTime \in Nat
  BY FlowAssumption DEF FlowAssumption, Mark
<1>2. WholeSecond(m.at) \in Nat \cup {NoTime} /\ WholeSecond(m.at) <= m.at
  BY <1>1, WholeSecondEarlier DEF Times
<1>3. WholeSecond(m.at) \in Times \cup {NoTime}
  BY <1>1, <1>2 DEF Times
<1> QED
  BY <1>3 DEF Mark

LEMMA EmptyPoll == 0 \in Versions => NoPoll \in PollState
BY DEF PollState, NoPoll, Counts

LEMMA TypeInit == Init => TypeInv
<1> SUFFICES ASSUME Init PROVE TypeInv
  OBVIOUS
<1> USE DEF Init
<1>1. 0 \in Times /\ 0 \in Versions /\ 0 \in 0..MaxUpdates /\ 0 \in 0..MaxFailures
  <2>1. MaxVersion \in Nat /\ MaxUpdates \in Nat /\ MaxTime \in Nat /\ MaxFailures \in Nat
    BY FlowAssumption DEF FlowAssumption
  <2> HIDE DEF Init
  <2> QED
    BY <2>1 DEF Times, Versions
<1>2. now \in Times /\ failures \in 0..MaxFailures /\ api \in ApiState
  BY <1>1 DEF ApiState
<1>3. changes \in Seq(Flows \X Keys) /\ Len(changes) \in Versions
  <2>1. changes = <<>>
    OBVIOUS
  <2> HIDE DEF Init
  <2> QED
    BY <1>1, <2>1
<1>4. /\ stage \in [Flows -> {"waiting", "running", "done"}]
      /\ reading \in [Flows -> Versions] /\ rest \in [Flows -> Nat]
      /\ loaded \in [Flows -> Versions]
      /\ tableWm \in [Flows -> Versions \cup {NoVersion}]
  BY <1>1
<1>5. poll \in PollState
  BY <1>1, EmptyPoll
<1>6. TypeOK
  BY <1>2, <1>3, <1>4, <1>5 DEF TypeOK, Steps
<1>7. Finite /\ InProgress
  BY FS_EmptySet DEF Finite, InProgress, Working, InFlows
<1> QED
  BY <1>6, <1>7 DEF TypeInv

\* The source and the pipeline leave what the recon has alone.
LEMMA TypePipeline == ASSUME TypeInv, Pipeline PROVE TypeInv'
<1> USE DEF TypeInv
<1>u. UNCHANGED <<storeVars, pc, poll, failures>>
  BY DEF Pipeline, Commit, StartUpdate, BeginFlow, ReportRows, CompleteFlow, EndUpdate
<1>b. MaxVersion \in Nat /\ MaxUpdates \in Nat /\ MaxTime \in Nat
  BY FlowAssumption DEF FlowAssumption
<1>r. /\ tableWm' \in [Flows -> Versions \cup {NoVersion}] /\ dbWm' \in Versions \cup {NoVersion}
      /\ mark' \in Mark \cup {NoMark} /\ metrics' \subseteq Event /\ summaries' \subseteq Evaluated
      /\ ready' \subseteq ReadyRow /\ processLog' \subseteq Evaluated /\ pc' \in Steps
      /\ poll' \in PollState /\ failures' \in 0..MaxFailures
  BY <1>u DEF TypeOK, storeVars
<1>s. /\ IsFiniteSet(ready')
      /\ pc' # "idle" => poll'.stamp \in Mark
      /\ pc' \in Working => poll'.cur \in Summary
  BY <1>u DEF Finite, InProgress, storeVars
<1>1. ASSUME NEW f \in Flows, NEW k \in Keys, Commit(f, k) PROVE TypeInv'
  <2>1. changes' = Append(changes, <<f, k>>) /\ Len(changes) < MaxVersion
    BY <1>1 DEF Commit, CtHead
  <2>2. changes' \in Seq(Flows \X Keys) /\ Len(changes') \in Versions
    BY <1>b, <2>1 DEF TypeOK, Versions
  <2>3. UNCHANGED <<now, api, stage, reading, rest, loaded, log>>
    BY <1>1 DEF Commit
  <2> QED
    BY <1>r, <1>s, <2>2, <2>3 DEF TypeOK, Finite, InProgress
<1>2. CASE StartUpdate
  <2>1. api.update < MaxUpdates /\ api' = [update |-> api.update + 1, state |-> "RUNNING"]
        /\ api.update \in 0..MaxUpdates
    BY <1>2 DEF StartUpdate, TypeOK, ApiState
  <2>2. api' \in ApiState /\ api'.update # 0
    BY <1>b, <2>1 DEF ApiState
  <2>3. stage' \in [Flows -> {"waiting", "running", "done"}]
        /\ UNCHANGED <<now, changes, reading, rest, loaded, log>>
    BY <1>2 DEF StartUpdate
  <2> QED
    BY <1>r, <1>s, <2>2, <2>3 DEF TypeOK, Finite, InProgress
<1>3. ASSUME NEW f \in Flows, BeginFlow(f) PROVE TypeInv'
  <2>1. PendingChanges(f, loaded[f], CtHead) \in Nat /\ CtHead \in Versions
    BY ChangesCounted DEF TypeOK, CtHead
  <2>2. /\ stage' \in [Flows -> {"waiting", "running", "done"}]
        /\ reading' \in [Flows -> Versions] /\ rest' \in [Flows -> Nat]
    BY <1>3, <2>1 DEF BeginFlow, TypeOK
  <2>3. UNCHANGED <<now, changes, api, loaded, log>>
    BY <1>3 DEF BeginFlow
  <2> QED
    BY <1>r, <1>s, <2>2, <2>3 DEF TypeOK, Finite, InProgress
<1>4. ASSUME NEW f \in Flows, NEW status \in {"RUNNING", "COMPLETED"}, NEW rows \in Nat,
             api.state = "RUNNING", Emit(f, status, rows)
      PROVE  now' \in Times /\ log' \subseteq Event /\ IsFiniteSet(log')
  <2>1. now' \in Times
    <3>1. now' \in (now + 1)..MaxTime
      BY <1>4 DEF Emit
    <3>2. now \in Nat
      BY <1>b DEF TypeOK, Times
    <3> QED
      BY <1>b, <3>1, <3>2 DEF Times
  <2>2. api.update \in Updates
    <3>1. api.update \in 0..MaxUpdates /\ api.update # 0
      BY <1>4 DEF TypeOK, ApiState, InProgress
    <3> QED
      BY <1>b, <3>1 DEF Updates
  <2> DEFINE e == [at |-> now', update |-> api.update, flow |-> f, status |-> status,
                   rows |-> rows]
  <2>3. log' = log \cup {e}
    BY <1>4 DEF Emit
  <2>4. e \in Event
    BY <2>1, <2>2 DEF Event
  <2> HIDE DEF e
  <2>5. IsFiniteSet(log')
    BY <2>3, FS_AddElement DEF Finite
  <2> QED
    BY <2>1, <2>3, <2>4, <2>5 DEF TypeOK
<1>5. ASSUME NEW f \in Flows, ReportRows(f) PROVE TypeInv'
  <2>1. PICK r \in 1..rest[f] :
            Emit(f, "RUNNING", r) /\ rest' = [rest EXCEPT ![f] = @ - r]
    BY <1>5 DEF ReportRows
  <2>2. rest[f] \in Nat /\ rest \in [Flows -> Nat]
    BY DEF TypeOK
  <2>3. r \in Nat /\ rest' \in [Flows -> Nat]
    BY <2>1, <2>2
  <2>4. UNCHANGED <<changes, api, stage, reading, loaded>> /\ api.state = "RUNNING"
    BY <1>5 DEF ReportRows
  <2>5. now' \in Times /\ log' \subseteq Event /\ IsFiniteSet(log')
    BY <1>4, <2>1, <2>3, <2>4
  <2> QED
    BY <1>r, <1>s, <2>3, <2>4, <2>5 DEF TypeOK, Finite, InProgress
<1>6. ASSUME NEW f \in Flows, CompleteFlow(f) PROVE TypeInv'
  <2>1. rest[f] \in Nat /\ 0 \in Versions
    BY <1>b DEF TypeOK, Versions
  <2>2. /\ stage' \in [Flows -> {"waiting", "running", "done"}]
        /\ reading' \in [Flows -> Versions] /\ rest' \in [Flows -> Nat]
        /\ loaded' \in [Flows -> Versions]
    BY <1>6, <2>1 DEF CompleteFlow, TypeOK
  <2>3. UNCHANGED <<changes, api>> /\ api.state = "RUNNING" /\ Emit(f, "COMPLETED", rest[f])
    BY <1>6 DEF CompleteFlow
  <2>4. now' \in Times /\ log' \subseteq Event /\ IsFiniteSet(log')
    BY <1>4, <2>1, <2>3
  <2> QED
    BY <1>r, <1>s, <2>2, <2>3, <2>4 DEF TypeOK, Finite, InProgress
<1>7. CASE EndUpdate
  <2>1. 0 \in Versions
    BY <1>b DEF Versions
  <2>2. /\ stage' \in [Flows -> {"waiting", "running", "done"}]
        /\ reading' \in [Flows -> Versions] /\ rest' \in [Flows -> Nat]
        /\ UNCHANGED <<now, changes, loaded, log>>
    BY <1>7, <2>1 DEF EndUpdate
  <2>3. api' \in ApiState /\ api'.state # "RUNNING"
    BY <1>7 DEF EndUpdate, TypeOK, ApiState
  <2> QED
    BY <1>r, <1>s, <2>2, <2>3 DEF TypeOK, Finite, InProgress
<1> QED
  BY <1>1, <1>2, <1>3, <1>5, <1>6, <1>7 DEF Pipeline

\* The steps of the recon leave the pipeline alone, and a failed call is counted.
LEMMA TypeStores ==
    ASSUME TypeInv, UNCHANGED pipelineVars,
           tableWm' \in [Flows -> Versions \cup {NoVersion}], dbWm' \in Versions \cup {NoVersion},
           mark' \in Mark \cup {NoMark}, metrics' \subseteq Event, summaries' \subseteq Evaluated,
           ready' \subseteq ReadyRow, IsFiniteSet(ready'), processLog' \subseteq Evaluated,
           pc' \in Steps, poll' \in PollState, failures' \in 0..MaxFailures,
           pc' # "idle" => poll'.stamp \in Mark,
           pc' \in Working => poll'.cur \in Summary
    PROVE  TypeInv'
BY DEF TypeInv, TypeOK, Finite, InProgress, pipelineVars

LEMMA FailuresCounted ==
    ASSUME TypeInv, Ok \/ \E call : Fail(call)
    PROVE  failures' \in 0..MaxFailures
BY FlowAssumption DEF FlowAssumption, TypeInv, TypeOK, Ok, Fail

\* The first and the last steps of a poll, and a crash.
LEMMA TypeEnds ==
    ASSUME TypeInv, SkipInv, StartPoll \/ WriteProcessLog \/ FlushMark \/ Crash
    PROVE  TypeInv'
<1> USE DEF TypeInv
<1>1. CASE StartPoll
  <2>1. PICK m \in {mark, NoMark}, connected \in BOOLEAN :
            /\ poll' = [NoPoll EXCEPT !.mark = m, !.connected = connected,
                                      !.stamp = Stamp(api, m, {})]
            /\ Ok \/ \E call : Fail(call)
            /\ pc' = IF NeedsPoll(api, m) THEN "events" ELSE "flush"
    BY <1>1 DEF StartPoll
  <2>2. m \in Mark \cup {NoMark} /\ m.at <= now
    <3>1. NoMark.at <= now
      BY DEF SkipInv, MarksPast, Shapes, NoMark
    <3> QED
      BY <3>1 DEF TypeOK, SkipInv, MarksPast
  <2>3. Stamp(api, m, {}) \in Mark
    BY <2>2, StampTyped DEF TypeOK, SkipInv
  <2>4. NoPoll \in PollState
    BY FlowAssumption, EmptyPoll DEF FlowAssumption, Versions
  <2>5. poll' \in PollState /\ poll'.stamp \in Mark
    BY <2>1, <2>2, <2>3, <2>4 DEF PollState
  <2>6. UNCHANGED <<pipelineVars, storeVars>> /\ pc' \in {"events", "flush"}
    BY <1>1, <2>1 DEF StartPoll
  <2>7. pc' \in Steps /\ pc' \notin Working
    BY <2>6 DEF Steps, Working, InFlows
  <2> QED
    BY <2>1, <2>5, <2>6, <2>7, TypeStores, FailuresCounted DEF TypeOK, Finite, storeVars
<1>2. CASE WriteProcessLog
  <2>1. /\ UNCHANGED <<pipelineVars, tableWm, dbWm, mark, metrics, summaries, ready, poll,
                      failures>>
        /\ processLog' = processLog \cup poll.process /\ pc = "flows" /\ pc' = "flush"
    BY <1>2 DEF WriteProcessLog
  <2>2. poll.process \subseteq Evaluated /\ poll.stamp \in Mark
    BY <2>1 DEF TypeOK, PollState, InProgress
  <2>3. pc' \in Steps /\ pc' \notin Working
    BY <2>1 DEF Steps, Working, InFlows
  <2> QED
    BY <2>1, <2>2, <2>3, TypeStores DEF TypeOK, Finite
<1>3. CASE FlushMark \/ Crash
  <2>1. poll' = NoPoll /\ pc' = "idle"
    BY <1>3 DEF FlushMark, Crash, EndPoll
  <2>2. NoPoll \in PollState
    BY FlowAssumption, EmptyPoll DEF FlowAssumption, Versions
  <2>3. UNCHANGED <<pipelineVars, tableWm, dbWm, metrics, summaries, ready, processLog>>
    BY <1>3 DEF FlushMark, Crash, storeVars
  <2>4. failures' \in 0..MaxFailures
    <3>1. CASE FlushMark
      BY <3>1, FailuresCounted DEF FlushMark
    <3>2. CASE Crash
      BY <3>2, FlowAssumption DEF FlowAssumption, Crash, TypeOK
    <3> QED
      BY <1>3, <3>1, <3>2
  <2>5. mark' \in Mark \cup {NoMark}
    <3>1. \/ UNCHANGED mark
          \/ pc = "flush" /\ mark' = [poll.stamp EXCEPT !.at = WholeSecond(@)]
      BY <1>3 DEF FlushMark, Crash, storeVars
    <3>2. pc = "flush" => poll.stamp \in Mark
      BY DEF InProgress
    <3>3. pc = "flush" => [poll.stamp EXCEPT !.at = WholeSecond(@)] \in Mark
      BY <3>2, SecondsTyped
    <3> QED
      BY <3>1, <3>3 DEF TypeOK
  <2>6. pc' \in Steps /\ pc' \notin Working
    BY <2>1 DEF Steps, Working, InFlows
  <2> QED
    BY <2>1, <2>2, <2>3, <2>4, <2>5, <2>6, TypeStores DEF TypeOK, Finite
<1> QED
  BY <1>1, <1>2, <1>3

\* A poll reads events of the log, stamps what it read, and merges it.
LEMMA TypeRead ==
    ASSUME TypeInv, SkipInv, ReadEvents \/ MergeMetrics
    PROVE  TypeInv'
<1> USE DEF TypeInv
<1>1. CASE ReadEvents
  <2>1. PICK rows \in {EventsSince(poll.mark.at), {}} :
            /\ poll' = [poll EXCEPT !.rows = rows, !.mark = NoMark,
                                    !.stamp = Stamp(poll.stamp, poll.mark, rows)]
            /\ Ok \/ \E call : Fail(call)
            /\ pc' = IF rows = {} THEN "flush" ELSE "merge"
    BY <1>1 DEF ReadEvents
  <2>2. poll \in PollState /\ poll.stamp \in Mark /\ poll.mark \in Mark \cup {NoMark}
    BY <1>1 DEF ReadEvents, TypeOK, InProgress, PollState
  <2>3. rows \subseteq log /\ (rows = {} \/ \E e \in rows : e.at = now) /\ poll.mark.at <= now
    BY <2>1, LastIsRead DEF SkipInv
  <2>4. Stamp(poll.stamp, poll.mark, rows) \in Mark
    BY <2>2, <2>3, StampTyped DEF SkipInv
  <2>5. rows \subseteq Event
    BY <2>3 DEF TypeOK
  <2>6. poll' \in PollState /\ poll'.stamp \in Mark
    BY <2>1, <2>2, <2>4, <2>5 DEF PollState
  <2>7. UNCHANGED <<pipelineVars, storeVars>> /\ pc' \in {"merge", "flush"}
    BY <1>1, <2>1 DEF ReadEvents
  <2>8. pc' \in Steps /\ pc' \notin Working
    BY <2>7 DEF Steps, Working, InFlows
  <2> QED
    BY <2>1, <2>6, <2>7, <2>8, TypeStores, FailuresCounted DEF TypeOK, Finite, storeVars
<1>2. CASE MergeMetrics
  <2>1. /\ UNCHANGED <<pipelineVars, tableWm, dbWm, mark, summaries, ready, processLog, failures>>
        /\ metrics' = metrics \cup poll.rows /\ pc = "merge" /\ pc' = "audit"
        /\ poll' = [poll EXCEPT !.rows = {}, !.todo = FlowSummaries(poll.rows)]
    BY <1>2 DEF MergeMetrics
  <2>2. poll \in PollState /\ poll.stamp \in Mark /\ poll.rows \in SUBSET Event
    BY <2>1 DEF TypeOK, InProgress, PollState
  <2>3. IsFiniteSet(poll.rows)
    BY <2>1, FS_Subset DEF Finite, SkipInv, PollCovers
  <2>4. FlowSummaries(poll.rows) \subseteq Summary
    BY <2>2, <2>3, SummariesTyped
  <2>5. poll' \in PollState /\ poll'.stamp \in Mark
    BY <2>1, <2>2, <2>4 DEF PollState
  <2>6. pc' \in Steps /\ pc' \notin Working
    BY <2>1 DEF Steps, Working, InFlows
  <2> QED
    BY <2>1, <2>2, <2>5, <2>6, TypeStores DEF TypeOK, Finite
<1> QED
  BY <1>1, <1>2

\* The steps among the flows: the flow at hand is a completed one, with a count or none.
LEMMA TypeFlows ==
    ASSUME TypeInv,
           \/ OpenAudit \/ (\E s \in poll.todo : TakeFlow(s))
           \/ Baseline \/ BaselineDb \/ ReadCtHead \/ CountChanges \/ CountRaises \/ Evaluate
           \/ AdvanceTable \/ AdvanceDb \/ WriteReady
    PROVE  TypeInv'
<1> USE DEF TypeInv
<1>p. poll \in PollState /\ CtHead \in Versions /\ 0 \in Versions
  BY FlowAssumption DEF FlowAssumption, TypeOK, CtHead, Versions
<1>s. pc # "idle" => poll.stamp \in Mark
  BY DEF InProgress
<1>w. /\ Working \subseteq Steps /\ "idle" \notin Working
      /\ "flows" \in Steps /\ "flows" \notin Working
  BY DEF Working, InFlows, Steps
<1>1. CASE OpenAudit
  <2>1. /\ UNCHANGED <<pipelineVars, storeVars>> /\ pc = "audit" /\ pc' = "flows"
        /\ Ok \/ \E call : Fail(call)
        /\ poll' = poll \/ \E b \in BOOLEAN : poll' = [poll EXCEPT !.audit = b]
    BY <1>1 DEF OpenAudit
  <2>2. poll' \in PollState /\ poll'.stamp \in Mark
    BY <1>p, <1>s, <2>1 DEF PollState
  <2> QED
    BY <1>w, <2>1, <2>2, TypeStores, FailuresCounted DEF TypeOK, Finite, storeVars
<1>2. ASSUME NEW s \in poll.todo, TakeFlow(s) PROVE TypeInv'
  <2>1. /\ UNCHANGED <<pipelineVars, storeVars>> /\ pc = "flows"
        /\ Ok \/ \E call : Fail(call)
        /\ \/ poll' = [poll EXCEPT !.todo = @ \ {s}] /\ pc' = "flows"
           \/ poll' = [poll EXCEPT !.cur = s] /\ pc' = CountStep(s.flow)
    BY <1>2 DEF TakeFlow
  <2>2. s \in Summary /\ poll.stamp \in Mark
    BY <1>p, <1>s, <2>1 DEF PollState
  <2>3. pc' = "flows" \/ (pc' \in Working /\ poll' = [poll EXCEPT !.cur = s])
    BY <2>1 DEF CountStep, Working, InFlows
  <2>4. poll' \in PollState /\ poll'.stamp \in Mark /\ (pc' \in Working => poll'.cur \in Summary)
    BY <1>p, <1>w, <2>1, <2>2, <2>3 DEF PollState
  <2> QED
    BY <1>w, <2>1, <2>3, <2>4, TypeStores, FailuresCounted DEF TypeOK, Finite, storeVars
<1>c. pc \in Working => /\ poll.cur \in Summary /\ poll.cur.flow \in Flows /\ poll.stamp \in Mark
                      /\ \A status \in {"PASS", "FAIL"} : CurrentRow(status) \in Evaluated
  <2> SUFFICES ASSUME pc \in Working
               PROVE  /\ poll.cur \in Summary /\ poll.cur.flow \in Flows /\ poll.stamp \in Mark
                      /\ \A status \in {"PASS", "FAIL"} : CurrentRow(status) \in Evaluated
    OBVIOUS
  <2>1. poll.cur \in Summary /\ poll.stamp \in Mark
    BY <1>s, <1>w DEF InProgress
  <2>2. poll.cur.update \in Updates /\ poll.cur.flow \in Flows /\ poll.cur.rows \in Nat
    BY <2>1 DEF Summary
  <2>3. poll.source \in Counts
    BY <1>p DEF PollState
  <2> QED
    BY <2>1, <2>2, <2>3 DEF CurrentRow, Evaluated
<1>3. CASE Baseline \/ BaselineDb \/ AdvanceTable \/ AdvanceDb
  <2>1. /\ UNCHANGED <<pipelineVars, mark, metrics, summaries, ready, processLog, poll, failures>>
        /\ pc \in Working /\ pc' \in Working
    BY <1>3 DEF Baseline, BaselineDb, AdvanceTable, AdvanceDb, Working, InFlows
  <2>2. poll.head \in Versions
    BY <1>p DEF PollState
  <2>3. /\ tableWm' \in [Flows -> Versions \cup {NoVersion}]
        /\ dbWm' \in Versions \cup {NoVersion}
    BY <1>3, <1>p, <1>c, <2>1, <2>2 DEF Baseline, BaselineDb, AdvanceTable, AdvanceDb, TypeOK
  <2> QED
    BY <1>w, <1>c, <1>p, <2>1, <2>3, TypeStores DEF TypeOK, Finite
<1>4. CASE ReadCtHead \/ CountChanges \/ CountRaises
  <2>1. /\ UNCHANGED <<pipelineVars, storeVars>>
        /\ Ok \/ \E call : Fail(call)
        /\ pc \in Working /\ pc' \in Working
    BY <1>4 DEF ReadCtHead, CountChanges, CountRaises, Working, InFlows, Ok
  <2>2. tableWm[poll.cur.flow] \in Versions \cup {NoVersion}
    BY <1>c, <2>1 DEF TypeOK
  <2>3. \/ \E b \in Versions \cup {NoVersion}, h \in Versions :
              poll' = [poll EXCEPT !.before = b, !.head = h]
        \/ \E n \in Counts : poll' = [poll EXCEPT !.source = n]
    BY <1>4, <1>p, <2>2, ChangesCounted DEF ReadCtHead, CountChanges, CountRaises, Counts
  <2>4. poll' \in PollState /\ poll'.stamp \in Mark /\ poll'.cur \in Summary
    BY <1>p, <1>c, <2>1, <2>3 DEF PollState
  <2> QED
    BY <1>w, <2>1, <2>4, TypeStores, FailuresCounted DEF TypeOK, Finite, storeVars
<1>n. ASSUME NEW status \in {"PASS", "FAIL"}, pc \in Working, NextFlow({CurrentRow(status)})
      PROVE  poll' \in PollState /\ poll'.stamp \in Mark /\ pc' = "flows"
  BY <1>p, <1>c, <1>n DEF NextFlow, PollState, Counts
<1>5. CASE Evaluate
  <2>1. PICK verdict \in {"PASS", "FAIL"} :
          /\ summaries' = summaries \cup {CurrentRow(verdict)}
          /\ \/ verdict = "FAIL" /\ NextFlow({CurrentRow("FAIL")})
             \/ UNCHANGED poll /\ pc' \in {"advance", "ready"}
    BY <1>5 DEF Evaluate, Verdict
  <2>2. /\ UNCHANGED <<pipelineVars, tableWm, dbWm, mark, metrics, ready, processLog, failures>>
        /\ pc \in Working /\ {"advance", "ready"} \subseteq Working
    BY <1>5 DEF Evaluate, Working, InFlows
  <2>3. summaries' \subseteq Evaluated
    BY <1>c, <2>1, <2>2 DEF TypeOK
  <2>4. /\ poll' \in PollState /\ poll'.stamp \in Mark /\ pc' \in Steps
        /\ pc' \in Working => poll'.cur \in Summary
    BY <1>p, <1>c, <1>n, <1>w, <2>1, <2>2
  <2> QED
    BY <2>2, <2>3, <2>4, TypeStores DEF TypeOK, Finite
<1>6. CASE WriteReady
  <2> DEFINE row == [recon_id |-> Cardinality(ready) + 1,
                     update |-> poll.cur.update, flow |-> poll.cur.flow,
                     rows |-> poll.cur.rows, source |-> poll.source]
  <2>1. /\ UNCHANGED <<pipelineVars, tableWm, dbWm, mark, metrics, summaries, processLog, failures>>
        /\ pc \in Working /\ NextFlow({CurrentRow("PASS")}) /\ ready' = ready \cup {row}
    BY <1>6 DEF WriteReady, Working, InFlows
  <2>2. row \in ReadyRow
    <3>1. Cardinality(ready) + 1 \in Nat
      BY FS_CardinalityType DEF Finite
    <3>2. poll.cur \in Summary /\ poll.source \in Counts
      BY <1>c, <1>p, <2>1 DEF PollState
    <3> QED
      BY <3>1, <3>2 DEF Summary, ReadyRow
  <2> HIDE DEF row
  <2>3. ready' \subseteq ReadyRow /\ IsFiniteSet(ready')
    BY <2>1, <2>2, FS_AddElement DEF TypeOK, Finite
  <2> QED
    BY <1>n, <1>w, <2>1, <2>3, TypeStores DEF TypeOK
<1> QED
  BY <1>1, <1>2, <1>3, <1>4, <1>5, <1>6

\* The recon's records, the poll's included, keep their types: what is stored as a
\* watermark is a time of the log, whatever failed, and a flow's sum and count are
\* numbers.
THEOREM FlowTypeCorrect == Spec => []TypeOK
<1>1. SkipInv /\ TypeInv /\ [Next]_vars => TypeInv'
  <2> SUFFICES ASSUME SkipInv, TypeInv, [Next]_vars PROVE TypeInv'
    OBVIOUS
  <2>1. CASE UNCHANGED vars
    BY <2>1 DEF vars, storeVars, pipelineVars, TypeInv, TypeOK, Finite, InProgress
  <2>2. CASE Next
    BY <2>2, TypePipeline, TypeEnds, TypeRead, TypeFlows DEF Next, Recon
  <2> QED
    BY <2>1, <2>2
<1>2. TypeInv => TypeOK
  BY DEF TypeInv
<1> QED
  BY TypeInit, <1>1, <1>2, AlwaysSkipInv, PTL DEF Spec

-----------------------------------------------------------------------------
(* FlowRecon implements EventFeed *)

\* Outside a poll's flows FeedInv says little, and among them little changes.
LEMMA FeedFrame ==
    ASSUME FeedInv, log \subseteq log', metrics \subseteq log', metrics' = metrics,
           \/ pc' \notin InFlows \cup {"merge"}
           \/ pc' = pc /\ poll' = poll /\ summaries' = summaries
    PROVE  FeedInv'
BY DEF FeedInv, Working, Passed, InFlows, CurrentRow

\* A step among a poll's flows.
LEMMA FeedInFlows ==
    ASSUME FeedInv, UNCHANGED <<pipelineVars, metrics>>,
           pc \in InFlows, pc' \in InFlows,
           poll'.stamp = poll.stamp, poll'.todo \subseteq poll.todo,
           pc' \in Working => poll'.cur \in poll'.todo,
           pc' \in Passed => CurrentRow("PASS")' \in summaries'
    PROVE  FeedInv'
BY DEF FeedInv, InFlows, pipelineVars

\* The rows merged are events, and the flows taken in hand completed among them.
LEMMA FeedReads ==
    ASSUME SkipInv, FeedInv, ReadEvents \/ MergeMetrics
    PROVE  FeedInv'
<1> USE DEF SkipInv
<1>p. DOMAIN poll = DOMAIN NoPoll
  BY DEF Shapes
<1>1. CASE ReadEvents
  <2>1. PICK rows \in {EventsSince(poll.mark.at), {}} :
          /\ poll' = [poll EXCEPT !.rows = rows, !.mark = NoMark,
                                  !.stamp = Stamp(poll.stamp, poll.mark, rows)]
          /\ pc' = IF rows = {} THEN "flush" ELSE "merge"
    BY <1>1 DEF ReadEvents
  <2>2. poll'.rows = rows /\ poll'.stamp = Stamp(poll.stamp, poll.mark, rows)
    BY <1>p, <2>1, PollFields
  <2> DEFINE top == Max({poll.mark.at} \cup {e.at : e \in rows})
  <2>3. poll'.stamp.at = top
    BY <2>2 DEF Stamp
  <2>4. poll.mark.at \in Nat \cup {NoTime} /\ poll.mark.at <= now /\ now \in Nat
    BY DEF MarksPast, Shapes
  <2>5. \A e \in rows : e.at <= top
    BY <2>4, LastIsRead, StampTime
  <2> HIDE DEF top
  <2>6. UNCHANGED <<log, metrics>> /\ pc' \in {"merge", "flush"}
    BY <1>1, <2>1 DEF ReadEvents, pipelineVars, storeVars
  <2> QED
    BY <2>2, <2>3, <2>5, <2>6 DEF FeedInv, Working, Passed, InFlows
<1>2. CASE MergeMetrics
  <2>1. /\ UNCHANGED pipelineVars /\ metrics' = metrics \cup poll.rows
        /\ pc = "merge" /\ pc' = "audit"
        /\ poll' = [poll EXCEPT !.rows = {}, !.todo = FlowSummaries(poll.rows)]
    BY <1>2 DEF MergeMetrics
  <2>2. poll'.todo = FlowSummaries(poll.rows) /\ poll'.stamp = poll.stamp
    BY <1>p, <2>1, PollFields
  <2>3. poll.rows \subseteq log /\ \A e \in poll.rows : e.at <= poll.stamp.at
    BY <2>1 DEF PollCovers, FeedInv
  <2>4. ASSUME NEW s \in FlowSummaries(poll.rows)
        PROVE  \E c \in poll.rows : /\ c.update = s.update /\ c.flow = s.flow
                                    /\ c.status = "COMPLETED"
    <3> DEFINE Window(c) == {d \in poll.rows : d.update = c.update /\ d.flow = c.flow}
    <3>1. PICK c \in poll.rows :
            /\ c.status = "COMPLETED"
            /\ s = [update |-> c.update, flow |-> c.flow, rows |-> TotalRows(Window(c))]
      BY DEF FlowSummaries
    <3> HIDE DEF Window
    <3> QED
      BY <3>1
  <2> QED
    BY <2>1, <2>2, <2>3, <2>4 DEF FeedInv, Working, Passed, InFlows, pipelineVars
<1> QED
  BY <1>1, <1>2

\* The flow in work stays in the poll's hands until it is done, and what passed has
\* its summary.
LEMMA FeedFlows ==
    ASSUME FeedInv, DOMAIN poll = DOMAIN NoPoll,
           \/ OpenAudit \/ (\E s \in poll.todo : TakeFlow(s))
           \/ Baseline \/ BaselineDb \/ ReadCtHead \/ CountChanges \/ CountRaises \/ Evaluate
           \/ AdvanceTable \/ AdvanceDb \/ WriteReady
    PROVE  FeedInv'
<1>1. CASE OpenAudit
  <2>1. /\ UNCHANGED <<pipelineVars, storeVars>> /\ pc = "audit" /\ pc' = "flows"
        /\ poll' = poll \/ \E b : poll' = [poll EXCEPT !.audit = b]
    BY <1>1 DEF OpenAudit
  <2>2. poll'.stamp = poll.stamp /\ poll'.todo = poll.todo
    BY <2>1, PollFields
  <2> QED
    BY <2>1, <2>2, FeedInFlows DEF storeVars, Working, Passed, InFlows
<1>2. ASSUME NEW s \in poll.todo, TakeFlow(s) PROVE FeedInv'
  <2>1. /\ UNCHANGED <<pipelineVars, storeVars>> /\ pc = "flows"
        /\ \/ poll' = [poll EXCEPT !.todo = @ \ {s}] /\ pc' = "flows"
           \/ poll' = [poll EXCEPT !.cur = s] /\ pc' = CountStep(s.flow)
    BY <1>2 DEF TakeFlow
  <2>2. poll'.stamp = poll.stamp
        /\ \/ poll'.todo = poll.todo \ {s} /\ pc' = "flows"
           \/ poll'.todo = poll.todo /\ poll'.cur = s /\ pc' \in Working \ Passed
    BY <2>1, PollFields DEF CountStep, Working, Passed, InFlows
  <2> QED
    BY <2>1, <2>2, FeedInFlows DEF storeVars, Working, Passed, InFlows
<1>3. CASE Baseline \/ BaselineDb \/ ReadCtHead \/ CountChanges \/ CountRaises
  <2>1. /\ UNCHANGED <<pipelineVars, metrics>>
        /\ pc \in Working /\ pc' \in Working \ Passed
        /\ \/ poll' = poll
           \/ \E b, h : poll' = [poll EXCEPT !.before = b, !.head = h]
           \/ \E n : poll' = [poll EXCEPT !.source = n]
    BY <1>3 DEF Baseline, BaselineDb, ReadCtHead, CountChanges, CountRaises, storeVars,
                Working, Passed, InFlows
  <2>2. poll'.stamp = poll.stamp /\ poll'.todo = poll.todo /\ poll'.cur = poll.cur
    BY <2>1, PollFields
  <2>3. poll.cur \in poll.todo
    BY <2>1 DEF FeedInv
  <2> QED
    BY <2>1, <2>2, <2>3, FeedInFlows DEF Working
<1>4. CASE AdvanceTable \/ AdvanceDb
  <2>1. /\ UNCHANGED <<pipelineVars, metrics, summaries, poll>>
        /\ pc \in Passed /\ pc' \in Passed
    BY <1>4 DEF AdvanceTable, AdvanceDb, Passed
  <2>2. poll.cur \in poll.todo /\ CurrentRow("PASS") \in summaries
    BY <2>1 DEF FeedInv, Working, Passed, InFlows
  <2> QED
    BY <2>1, <2>2, FeedInFlows DEF CurrentRow, Passed, InFlows
<1>n. ASSUME NEW row, NextFlow({row}) PROVE poll'.stamp = poll.stamp /\ pc' = "flows"
                                            /\ poll'.todo = poll.todo \ {poll.cur}
  BY <1>n, PollFields DEF NextFlow
<1>5. CASE Evaluate
  <2>1. UNCHANGED <<pipelineVars, metrics>> /\ pc = "evaluate" /\ poll.cur \in poll.todo
    BY <1>5 DEF Evaluate, FeedInv, Working, InFlows
  <2>2. \/ NextFlow({CurrentRow("FAIL")})
        \/ /\ UNCHANGED poll /\ pc' \in {"advance", "ready"}
           /\ CurrentRow("PASS") \in summaries'
    BY <1>5 DEF Evaluate
  <2>3. CASE NextFlow({CurrentRow("FAIL")})
    BY <2>1, <2>3, <1>n, FeedInFlows DEF Working, Passed, InFlows
  <2>4. CASE UNCHANGED poll /\ pc' \in {"advance", "ready"} /\ CurrentRow("PASS") \in summaries'
    <3>1. CurrentRow("PASS")' = CurrentRow("PASS")
      BY <2>4 DEF CurrentRow
    <3> QED
      BY <2>1, <2>4, <3>1, FeedInFlows DEF InFlows
  <2> QED
    BY <2>2, <2>3, <2>4
<1>6. CASE WriteReady
  <2>1. UNCHANGED <<pipelineVars, metrics>> /\ pc = "ready" /\ NextFlow({CurrentRow("PASS")})
    BY <1>6 DEF WriteReady
  <2> QED
    BY <2>1, <1>n, FeedInFlows DEF Working, Passed, InFlows
<1> QED
  BY <1>1, <1>2, <1>3, <1>4, <1>5, <1>6

LEMMA AlwaysFeedInv == Spec => []FeedInv
<1>1. Init => FeedInv
  BY DEF Init, FeedInv, Working, Passed, InFlows
<1>2. SkipInv /\ FeedInv /\ [Next]_vars => FeedInv'
  <2> SUFFICES ASSUME SkipInv, FeedInv, [Next]_vars PROVE FeedInv'
    OBVIOUS
  <2>1. CASE Pipeline \/ UNCHANGED vars
    <3>1. UNCHANGED <<metrics, summaries, pc, poll>> /\ log \subseteq log'
      BY <2>1 DEF Pipeline, Commit, StartUpdate, BeginFlow, ReportRows, CompleteFlow, EndUpdate,
                  Emit, vars, storeVars, pipelineVars
    <3> QED
      BY <3>1, FeedFrame DEF FeedInv
  <2>2. CASE StartPoll \/ WriteProcessLog \/ FlushMark \/ Crash
    <3>1. UNCHANGED <<log, metrics>> /\ pc' \in {"idle", "events", "flush"}
      BY <2>2 DEF StartPoll, WriteProcessLog, FlushMark, Crash, EndPoll, storeVars, pipelineVars
    <3> QED
      BY <3>1, FeedFrame DEF FeedInv, InFlows
  <2>3. DOMAIN poll = DOMAIN NoPoll
    BY DEF SkipInv, Shapes
  <2> QED
    BY <2>1, <2>2, <2>3, FeedReads, FeedFlows DEF Next, Recon
<1> QED
  BY <1>1, <1>2, AlwaysSkipInv, PTL DEF Spec

\* An event is later than all others, than the watermark too, and its flow had not
\* completed.
LEMMA RefinesEmit ==
    ASSUME SkipInv, NEW f \in Flows, ReportRows(f) \/ CompleteFlow(f)
    PROVE  \E e \in log' : Feed!Emit(e)
<1> USE DEF SkipInv
<1>1. PICK status, rows : Emit(f, status, rows)
  BY DEF ReportRows, CompleteFlow
<1>2. UNCHANGED storeVars /\ stage[f] = "running"
  BY DEF ReportRows, CompleteFlow
<1> DEFINE new == [at |-> now', update |-> api.update, flow |-> f, status |-> status,
                   rows |-> rows]
<1>3. log' = log \cup {new} /\ now' \in Nat /\ now < now' /\ now \in Nat
  BY <1>1 DEF Emit, Shapes
<1>4. new.at = now' /\ new.update = api.update /\ new.flow = f
  OBVIOUS
<1> HIDE DEF new
<1>5. \A d \in log : d.at < new.at
  BY <1>3, <1>4 DEF LogOrdered
<1>6. \A d \in log : d.status = "COMPLETED" => ~ (d.update = new.update /\ d.flow = new.flow)
  BY <1>2, <1>4 DEF CompletedLast
<1>7. mark.at < new.at
  BY <1>3, <1>4 DEF MarksPast
<1> QED
  BY <1>2, <1>3, <1>5, <1>6, <1>7
     DEF Feed!Emit, Feed!IsCompleted, Feed!SameFlow, storeVars

\* A flow in the poll's hands completed, and the poll holds all it reported.
LEMMA RefinesJudge ==
    ASSUME SkipInv, FeedInv, Evaluate
    PROVE  \E verdict \in summaries' : Feed!Judge(verdict)
<1> USE DEF SkipInv
<1>1. PICK status : summaries' = summaries \cup {CurrentRow(status)}
  BY DEF Evaluate
<1>2. /\ UNCHANGED <<pipelineVars, mark, metrics, ready>> /\ pc = "evaluate"
      /\ poll.cur \in poll.todo
  BY DEF Evaluate, FeedInv, Working, InFlows
<1>3. CurrentRow(status).update = poll.cur.update /\ CurrentRow(status).flow = poll.cur.flow
  BY DEF CurrentRow
<1>4. PICK c \in log : /\ c.update = poll.cur.update /\ c.flow = poll.cur.flow
                       /\ c.status = "COMPLETED" /\ c.at <= poll.stamp.at
  BY <1>2 DEF FeedInv, InFlows
<1>5. \A d \in log : d.at <= poll.stamp.at => d \in metrics
  BY <1>2 DEF PollCovers, InFlows
<1>6. ASSUME NEW d \in log, d.update = poll.cur.update, d.flow = poll.cur.flow
      PROVE  d \in metrics
  <2>1. d.at <= c.at /\ d.at \in Nat /\ c.at \in Nat
    BY <1>4, <1>6 DEF CompletedLast, LogOrdered
  <2>2. poll.stamp.at \in Nat \cup {NoTime}
    BY DEF MarksPast
  <2> QED
    BY <1>4, <1>5, <2>1, <2>2
<1>7. Feed!Finished(CurrentRow(status))
  BY <1>3, <1>4, <1>5, <1>6 DEF Feed!Finished, Feed!SameFlow, Feed!IsCompleted
<1> QED
  BY <1>1, <1>2, <1>7 DEF Feed!Judge, pipelineVars

\* The row is written for a flow that passed and that had none.
LEMMA RefinesPublish ==
    ASSUME FeedInv, RecordedInv, WriteReady
    PROVE  \E row \in ready' : Feed!Publish(row)
<1> DEFINE new == [recon_id |-> Cardinality(ready) + 1,
                   update |-> poll.cur.update, flow |-> poll.cur.flow,
                   rows |-> poll.cur.rows, source |-> poll.source]
<1>1. ready' = ready \cup {new} /\ UNCHANGED <<pipelineVars, mark, metrics, summaries>>
  BY DEF WriteReady
<1>2. new.update = poll.cur.update /\ new.flow = poll.cur.flow
  OBVIOUS
<1> HIDE DEF new
<1>3. CurrentRow("PASS") \in summaries /\ ~Recorded(poll.cur)
  BY DEF WriteReady, FeedInv, RecordedInv, Passed, Working, InFlows
<1>4. /\ CurrentRow("PASS").update = poll.cur.update /\ CurrentRow("PASS").flow = poll.cur.flow
      /\ CurrentRow("PASS").status = "PASS"
  BY DEF CurrentRow
<1>5. \A r \in ready : ~Feed!SameFlow(r, new)
  BY <1>2, <1>3 DEF Recorded, Feed!SameFlow
<1>6. \E j \in summaries : Feed!SameFlow(j, new) /\ j.status = "PASS"
  BY <1>2, <1>3, <1>4 DEF Feed!SameFlow
<1> QED
  BY <1>1, <1>5, <1>6 DEF Feed!Publish, pipelineVars

\* The watermark is stored with nothing left to do at or below it.
LEMMA RefinesNote ==
    ASSUME NothingSkipped', UNCHANGED <<log, metrics, summaries, ready>>
    PROVE  Feed!Note
BY DEF NothingSkipped, EvaluatedFlow, Feed!Note, Feed!Settled, Feed!IsCompleted, Feed!SameFlow

LEMMA RefinesNext ==
    ASSUME SkipInv, SkipInv', FeedInv, FeedInv', RecordedInv, [Next]_vars
    PROVE  [Feed!Next]_Feed!vars
<1>1. ASSUME UNCHANGED <<log, metrics, summaries, ready, mark>>
      PROVE  UNCHANGED Feed!vars
  BY <1>1 DEF Feed!vars
<1>2. ASSUME NEW f \in Flows, ReportRows(f) \/ CompleteFlow(f) PROVE Feed!Next
  BY <1>2, RefinesEmit DEF Feed!Next
<1>3. CASE MergeMetrics
  BY <1>3 DEF MergeMetrics, FeedInv, Feed!Next, Feed!Merge, pipelineVars
<1>4. CASE Evaluate
  BY <1>4, RefinesJudge DEF Feed!Next
<1>5. CASE WriteReady
  BY <1>5, RefinesPublish DEF Feed!Next
<1>6. CASE FlushMark
  BY <1>6, RefinesNote DEF FlushMark, SkipInv, Feed!Next, pipelineVars
<1>7. CASE \/ UNCHANGED vars \/ (\E f \in Flows, k \in Keys : Commit(f, k))
           \/ StartUpdate \/ (\E f \in Flows : BeginFlow(f)) \/ EndUpdate
  BY <1>1, <1>7 DEF Commit, StartUpdate, BeginFlow, EndUpdate, vars, storeVars, pipelineVars
<1>8. CASE \/ StartPoll \/ ReadEvents \/ OpenAudit \/ (\E s \in poll.todo : TakeFlow(s))
           \/ Baseline \/ BaselineDb \/ ReadCtHead \/ CountChanges \/ CountRaises
           \/ AdvanceTable \/ AdvanceDb \/ WriteProcessLog \/ Crash
  BY <1>1, <1>8 DEF StartPoll, ReadEvents, OpenAudit, TakeFlow, Baseline, BaselineDb, ReadCtHead,
                    CountChanges, CountRaises, AdvanceTable, AdvanceDb, WriteProcessLog, Crash,
                    storeVars, pipelineVars
<1> QED
  BY <1>2, <1>3, <1>4, <1>5, <1>6, <1>7, <1>8 DEF Next, Pipeline, Recon

\* The legacy recon, its crashes and its failed calls included, does nothing a reader
\* of its tables would see that EventFeed does not allow: it judges a flow only after
\* the flow completed and all its events are merged, publishes it once and on PASS
\* only, and notes a time as read only when nothing up to it is left
\* (run_all_pipeline_recon, run_pipeline_recon).  It does not say that the verdict's
\* sum is of all those events: that is what WholeWindowSummed refutes.
THEOREM FlowReconImplementsFeed ==
    ASSUME "recorded" \notin MayFail
    PROVE  Spec => ImplementsFeed
<1>1. Init => Feed!Init
  <2>1. NoMark.at = -1
    BY DEF NoMark
  <2>2. Init => mark = NoMark /\ log = {} /\ metrics = {} /\ summaries = {} /\ ready = {}
    BY DEF Init
  <2> QED
    BY <2>1, <2>2 DEF Feed!Init
<1> QED
  BY <1>1, RefinesNext, AlwaysSkipInv, AlwaysFeedInv, AlwaysRecordedInv, PTL
     DEF Spec, ImplementsFeed, Feed!Spec

\* What is judged or published is finished, and stays so.
LEMMA FeedStep ==
    ASSUME metrics \subseteq log, \A j \in summaries : Feed!Finished(j),
           Feed!PublishedComplete, [Feed!Next]_Feed!vars
    PROVE  /\ metrics' \subseteq log' /\ \A j \in summaries' : Feed!Finished(j)'
           /\ Feed!PublishedComplete'
<1> USE DEF Feed!Finished, Feed!SameFlow, Feed!IsCompleted, Feed!PublishedComplete
<1>1. CASE \E e \in log' : Feed!Emit(e)
  BY <1>1 DEF Feed!Emit
<1>2. CASE Feed!Merge
  BY <1>2 DEF Feed!Merge
<1>3. CASE \E verdict \in summaries' : Feed!Judge(verdict)
  BY <1>3 DEF Feed!Judge
<1>4. CASE \E row \in ready' : Feed!Publish(row)
  BY <1>4 DEF Feed!Publish
<1>5. CASE Feed!Note \/ UNCHANGED Feed!vars
  BY <1>5 DEF Feed!Note, Feed!vars
<1> QED
  BY <1>1, <1>2, <1>3, <1>4, <1>5 DEF Feed!Next

\* In every implementation of EventFeed a published flow had ended, was merged to its
\* last event and passed.
THEOREM FeedPublishesComplete == Feed!Spec => []Feed!PublishedComplete
<1> DEFINE Inv == /\ metrics \subseteq log /\ \A j \in summaries : Feed!Finished(j)
                  /\ Feed!PublishedComplete
<1>1. Feed!Init => Inv
  BY DEF Feed!Init, Feed!PublishedComplete
<1>2. Inv /\ [Feed!Next]_Feed!vars => Inv'
  BY FeedStep
<1>3. Inv => Feed!PublishedComplete
  OBVIOUS
<1> HIDE DEF Inv
<1> QED
  BY <1>1, <1>2, <1>3, PTL DEF Feed!Spec

\* So a recon_ready row of the legacy recon stands for a flow that completed, whose
\* every event is in lakeflow_flow_metrics and which has a summary with PASS
\* (run_pipeline_recon appends both before the row).
THEOREM ReadyIsComplete ==
    ASSUME "recorded" \notin MayFail
    PROVE  Spec => []Feed!PublishedComplete
BY FlowReconImplementsFeed, FeedPublishesComplete, PTL DEF ImplementsFeed

=============================================================================
