---------------------------- MODULE FlowReconInv ----------------------------
(***************************************************************************)
(* The inductive invariants behind NothingSkipped (SkipInv),               *)
(* OneReadyPerFlow (RecordedInv) and TypeOK (TypeInv) of FlowRecon, as     *)
(* named parts.                                                            *)
(***************************************************************************)
EXTENDS FlowRecon

Covered(e) == e \in metrics /\ (e.status = "COMPLETED" => EvaluatedFlow(e.update, e.flow))

\* The steps at which a poll has merged its rows and has flows to go through.
InFlows == {"audit", "flows", "baseline", "baselineDb", "head", "count", "evaluate",
            "advance", "advanceDb", "ready"}
Working == InFlows \ {"audit", "flows"}
Passed  == {"advance", "advanceDb", "ready"}

\* The records have their fields, and the times are times.
Shapes ==
    /\ now \in Nat
    /\ api.update \in Nat /\ DOMAIN api = {"update", "state"}
    /\ stage \in [Flows -> {"waiting", "running", "done"}]
    /\ DOMAIN poll = DOMAIN NoPoll
    /\ pc \in {"events", "merge", "flush"} \cup InFlows => "at" \in DOMAIN poll.stamp
    /\ pc \in Steps

\* The log grows at its end, and now is the time of its last event.
LogOrdered ==
    /\ \A e \in log : e.at \in Nat /\ e.at <= now /\ e.update \in Nat /\ e.update <= api.update
    /\ log # {} => \E e \in log : e.at = now

\* A flow reports nothing after its COMPLETED event, which is why the last event of
\* a poll's rows decides about the flow.
CompletedLast ==
    /\ \A c, d \in log : c.status = "COMPLETED" /\ d.update = c.update /\ d.flow = c.flow
                            => d.at <= c.at
    /\ \A e \in log : e.status = "COMPLETED" /\ e.update = api.update /\ e.flow \in Flows
                            => stage[e.flow] = "done"

\* No watermark lies in the future: what is emitted later is read later.
MarksPast ==
    \A m \in {mark, poll.mark, poll.stamp} : m.at \in Nat \cup {NoTime} /\ m.at <= now

\* What lies at or below the watermark the poll is going to store is covered, or
\* still in the poll's hands.
PollCovers ==
    /\ pc = "events" => poll.mark.at \in {mark.at, NoTime} /\ poll.stamp.at = poll.mark.at
    /\ pc = "merge" =>
          /\ poll.rows \subseteq log
          /\ \A e \in log : e.at <= poll.stamp.at => e \in poll.rows \/ Covered(e)
    /\ pc \in InFlows =>
          \A e \in log : e.at <= poll.stamp.at =>
              /\ e \in metrics
              /\ \/ e.status = "COMPLETED" => EvaluatedFlow(e.update, e.flow)
                 \/ \E s \in poll.todo : s.update = e.update /\ s.flow = e.flow
    /\ pc = "flush" => \A e \in log : e.at <= poll.stamp.at => Covered(e)

\* A flow leaves the poll's hands with a summary; so does a recorded one.
FlowsEvaluated ==
    /\ \A r \in ready : EvaluatedFlow(r.update, r.flow)
    /\ pc \in Passed => EvaluatedFlow(poll.cur.update, poll.cur.flow)

SkipInv ==
    /\ Shapes /\ LogOrdered /\ CompletedLast /\ MarksPast /\ PollCovers /\ FlowsEvaluated
    /\ NothingSkipped

\* A row is appended only for a flow that has none.
RecordedInv ==
    /\ DOMAIN poll = DOMAIN NoPoll
    /\ pc \in Working => ~Recorded(poll.cur)
    /\ OneReadyPerFlow

\* What is counted and summed is finite; a poll carries a proper mark to store, not
\* the one of "none stored"; and the flow it works on is one that completed.
Finite == IsFiniteSet(log) /\ IsFiniteSet(ready)

InProgress ==
    /\ api.state = "RUNNING" => api.update # 0
    /\ pc # "idle" => poll.stamp \in Mark
    /\ pc \in Working => poll.cur \in Summary

\* Inductive together with SkipInv: the stamp of a poll is a time because the log
\* ends with the event of now.
TypeInv == TypeOK /\ Finite /\ InProgress

=============================================================================
