------------------------- MODULE PipelineOps_proofs -------------------------
(***************************************************************************)
(* What process_log says of a failed pipeline, for any number of           *)
(* pipelines, any limit and any number of crashes: a failure that has been *)
(* logged is not hidden by a row the restart job appends later.            *)
(***************************************************************************)
EXTENDS PipelineOps, TLAPS

-----------------------------------------------------------------------------
(* The inductive invariant *)

\* The limit is checked before a pipeline is asked for, so a request stays within it.
PostWithinLimit == rpc = "post" => ~LimitReached

TypeInv == TypeOK /\ PostWithinLimit

\* The monitor's rows of this round are newer than every row that could hide what it
\* saw: the only rows stamped after them belong to pipelines restarted since.
RoundShown == mpc = "append" => afterM \cap fresh = {}

\* Between a request and its row: if the monitor has asked for the pipeline since and
\* stamped its round, its stamp is the later one ...
RowStampedFirst ==
    rpc = "row" /\ mpc = "append" =>
        \A p \in fresh : IsNext(p, rtodo) => lastStamp = "monitor"

\* ... and if it has logged it as failed, that row is stamped after the poll's time.
RowOutdated ==
    rpc = "row" => \A p \in known : IsNext(p, rtodo) => p \in afterR

VisibleInv ==
    /\ TypeInv
    /\ FailureStaysVisible
    /\ RoundShown
    /\ RowStampedFirst
    /\ RowOutdated

\* A list has one next element: between a request and its row there is one current pipeline.
LEMMA NextIsUnique ==
    ASSUME NEW S \in SUBSET Pipelines, NEW p, NEW q, IsNext(p, S), IsNext(q, S)
    PROVE  p = q
  BY OpsAssumption DEF IsNext

-----------------------------------------------------------------------------

\* Every action keeps the types, and only a poll that is under its limit goes on to a
\* request.
LEMMA TypeStep == TypeInv /\ [Next]_vars => TypeInv'
<1> SUFFICES ASSUME TypeInv, [Next]_vars PROVE TypeInv'
  OBVIOUS
<1> USE DEF TypeInv, TypeOK, PostWithinLimit, LimitReached, States, InProgress, Statuses,
            Status, NothingSeen, worldVars, monitorVars, restartVars, stampVars,
            historyVars
<1>1. ASSUME NEW p \in Pipelines, MonitorGet(p) PROVE TypeInv'
  BY <1>1 DEF MonitorGet, IsNext
<1>2. CASE MonitorStamp
  BY <1>2 DEF MonitorStamp
<1>3. CASE MonitorAppend
  BY <1>3 DEF MonitorAppend
<1>4. CASE MonitorDies
  BY <1>4, OpsAssumption DEF MonitorDies
<1>5. CASE ReadLog
  BY <1>5, OpsAssumption DEF ReadLog
<1>6. CASE StartLoop
  BY <1>6, OpsAssumption DEF StartLoop
<1>7. ASSUME NEW p \in Pipelines, RestartGet(p) PROVE TypeInv'
  BY <1>7 DEF RestartGet, IsNext
<1>8. ASSUME NEW p \in Pipelines, RestartPost(p) PROVE TypeInv'
  BY <1>8, OpsAssumption DEF RestartPost
<1>9. ASSUME NEW p \in Pipelines, RestartRefused(p) PROVE TypeInv'
  BY <1>9, OpsAssumption DEF RestartRefused, PollOver
<1>10. ASSUME NEW p \in Pipelines, RestartRow(p) PROVE TypeInv'
  BY <1>10 DEF RestartRow
<1>11. CASE EndLoop
  BY <1>11, OpsAssumption DEF EndLoop, PollOver
<1>12. CASE RestartDies
  BY <1>12, OpsAssumption DEF RestartDies, PollOver
<1>13. CASE External
  BY <1>13 DEF External, Stop, Start, ChangePhase
<1>14. CASE UNCHANGED vars
  BY <1>14 DEF vars
<1> QED
  BY <1>1, <1>2, <1>3, <1>4, <1>5, <1>6, <1>7, <1>8, <1>9, <1>10, <1>11, <1>12,
     <1>13, <1>14 DEF Next, Monitor, RestartJob

\* Init is well typed, and makes no request.
LEMMA TypeInit == Init => TypeInv
  BY OpsAssumption DEF Init, TypeInv, TypeOK, PostWithinLimit, LimitReached, States,
     Statuses, NothingSeen

\* Every reachable state is well typed; in particular no poll of the restart job makes
\* more than restart_limit requests (pipeline_job_ops.py:628).
THEOREM OpsTypeCorrect == Spec => []TypeOK
<1>1. TypeInv => TypeOK
  BY DEF TypeInv
<1> QED
  BY TypeInit, TypeStep, <1>1, PTL DEF Spec

-----------------------------------------------------------------------------

\* At the start nothing has been logged.
LEMMA VisibleInit == Init => VisibleInv
  BY TypeInit DEF Init, VisibleInv, FailureStaysVisible, RoundShown, RowStampedFirst,
     RowOutdated

\* Every action keeps the four parts; those that can disturb one are the monitor's append
\* and the restart job's request and row.
LEMMA VisibleStep == VisibleInv /\ [Next]_vars => VisibleInv'
<1> SUFFICES ASSUME VisibleInv, [Next]_vars PROVE VisibleInv'
  OBVIOUS
<1>t. TypeInv /\ TypeInv'
  BY TypeStep DEF VisibleInv
<1> DEFINE Visible == /\ FailureStaysVisible
                      /\ RoundShown
                      /\ RowStampedFirst
                      /\ RowOutdated
<1>v. Visible
  BY DEF VisibleInv
<1> SUFFICES Visible'
  BY <1>t DEF VisibleInv
<1> USE DEF Visible, FailureStaysVisible, RoundShown, RowStampedFirst, RowOutdated,
            worldVars, monitorVars, restartVars, stampVars, historyVars
<1>1. ASSUME NEW p \in Pipelines, MonitorGet(p) PROVE Visible'
  BY <1>1, <1>v DEF MonitorGet
<1>2. CASE MonitorStamp
  BY <1>2, <1>v DEF MonitorStamp, IsNext
<1>3. CASE MonitorAppend
  <2> USE <1>3 DEF MonitorAppend
  <2>1. \A p \in known' : p \in fresh /\ p \in Pipelines \ afterM /\ obs[p] = "failed"
    BY <1>v, <1>t DEF TypeInv, TypeOK
  <2>2. FailureStaysVisible'
    BY <2>1
  <2>3. RowOutdated'
    BY <2>1, <1>v DEF IsNext
  <2> QED
    BY <2>2, <2>3
<1>4. CASE MonitorDies
  BY <1>4, <1>v DEF MonitorDies, IsNext
<1>5. CASE ReadLog
  BY <1>5, <1>v DEF ReadLog
<1>6. CASE StartLoop
  BY <1>6, <1>v DEF StartLoop
<1>7. ASSUME NEW p \in Pipelines, RestartGet(p) PROVE Visible'
  BY <1>7, <1>v DEF RestartGet
<1>8. ASSUME NEW p \in Pipelines, RestartPost(p) PROVE Visible'
  <2> USE <1>8 DEF RestartPost
  <2>1. \A q : IsNext(q, rtodo') => q = p
    BY <1>t, NextIsUnique DEF TypeInv, TypeOK
  <2>2. p \notin fresh' /\ p \notin known'
    OBVIOUS
  <2>3. FailureStaysVisible' /\ RoundShown'
    BY <1>v
  <2> QED
    BY <2>1, <2>2, <2>3 DEF IsNext
<1>9. ASSUME NEW p \in Pipelines, RestartRefused(p) PROVE Visible'
  BY <1>9, <1>v DEF RestartRefused, PollOver
<1>10. ASSUME NEW p \in Pipelines, RestartRow(p) PROVE Visible'
  <2> USE <1>10 DEF RestartRow
  <2>1. FailureStaysVisible'
    <3> SUFFICES ASSUME NEW q \in known PROVE log'[q] = "failed"
      OBVIOUS
    <3>1. log[q] = "failed"
      BY <1>v
    <3>2. q = p => Outdated(p)
      BY <1>v DEF Outdated
    <3>3. log \in [Pipelines -> Statuses \cup {"none"}] /\ q \in Pipelines
      BY <1>t DEF TypeInv, TypeOK
    <3> QED
      BY <3>1, <3>2, <3>3
  <2>2. RoundShown'
    <3>1. mpc = "append" /\ lastStamp = "restart" => p \notin fresh
      BY <1>v
    <3> QED
      BY <3>1, <1>v
  <2> QED
    BY <2>1, <2>2
<1>11. CASE EndLoop
  BY <1>11, <1>v DEF EndLoop, PollOver
<1>12. CASE RestartDies
  BY <1>12, <1>v DEF RestartDies, PollOver
<1>13. CASE External
  BY <1>13, <1>v DEF External, Stop, Start, ChangePhase, IsNext
<1>14. CASE UNCHANGED vars
  BY <1>14, <1>v DEF vars, IsNext
<1> QED
  BY <1>1, <1>2, <1>3, <1>4, <1>5, <1>6, <1>7, <1>8, <1>9, <1>10, <1>11, <1>12,
     <1>13, <1>14 DEF Next, Monitor, RestartJob

\* A failure that the monitor saw after a pipeline's last restart, and logged, stays in
\* its latest row until it is restarted or seen to recover: for any number of
\* pipelines, any limit and wherever the jobs die.
THEOREM FailuresStayVisible == Spec => []FailureStaysVisible
<1>1. VisibleInv => FailureStaysVisible
  BY DEF VisibleInv
<1> QED
  BY VisibleInit, VisibleStep, <1>1, PTL DEF Spec

=============================================================================
