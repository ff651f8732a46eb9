---------------------------- MODULE PipelineOps ----------------------------
(***************************************************************************)
(* The two continuous jobs that keep the ingestion pipelines running.      *)
(*                                                                         *)
(* The heartbeat monitor asks the API for each pipeline and appends what   *)
(* it saw to the Delta table process_log; the restart job reads the latest *)
(* row of each pipeline, asks the API again and starts an update of those  *)
(* that failed, which it logs too.  They share process_log and the API and *)
(* nothing else: no lock, no order, and each may die at any call.          *)
(*                                                                         *)
(* The latest row is the one with the highest recorded_at, a time the jobs *)
(* take before they append.  The model keeps no clock, only how the times  *)
(* that can still matter are ordered: the latest rows' and the two jobs'.  *)
(***************************************************************************)
EXTENDS Integers, FiniteSets

CONSTANTS
    Pipelines,    \* the monitored pipelines, numbered in the order of the API's list
    RestartLimit, \* restart_limit: requests per poll of the restart job
    Refused,      \* pipelines whose restart the API always refuses
    MaxCrashes,   \* bound on the deaths of either job
    MaxFaults     \* bound on failed reads of process_log, which the code survives

ASSUME OpsAssumption ==
    /\ Pipelines \subseteq Nat /\ IsFiniteSet(Pipelines)
    /\ Refused \subseteq Pipelines
    /\ RestartLimit \in Nat /\ MaxCrashes \in Nat /\ MaxFaults \in Nat

VARIABLES
    state,     \* state of each pipeline's relevant update, as the API reports it
    log,       \* status in each pipeline's latest process_log row
    mpc,       \* monitor: "get" during its round, "append" once rows are stamped
    mtodo,     \* monitor: pipelines the round has not asked for yet
    obs,       \* monitor: the statuses of this round
    afterM,    \* pipelines whose latest row is stamped after the monitor's rows
    rpc,       \* restart job: its next call
    rtodo,     \* restart job: pipelines with a FAILED row, not handled yet
    restarted, \* restart job: requests of this poll
    afterR,    \* pipelines whose latest row is stamped after the restart poll
    lastStamp, \* which job took its time stamp last
    fresh,     \* history: pipelines the monitor asked for since their last restart
    known,     \* history: those it then logged as failed and has not seen recover
    crashes, faults

worldVars   == <<state>>
monitorVars == <<mpc, mtodo, obs>>
restartVars == <<rpc, rtodo, restarted>>
stampVars   == <<afterM, afterR, lastStamp>>
historyVars == <<fresh, known>>
vars == <<worldVars, log, monitorVars, restartVars, stampVars, historyVars, crashes, faults>>

-----------------------------------------------------------------------------
(* Values *)

\* "active" stands for ACTIVE_UPDATE_STATES, "failed" for FAILED_STATES (canceled
\* updates included); "unlisted" is an update in progress whose state the code does
\* not list as active, "ended" one that completed, or none.
States     == {"active", "unlisted", "failed", "ended"}
InProgress == {"active", "unlisted"}

\* What a row says, as far as the restart job tells rows apart.
Statuses  == {"failed", "other"}
Status(s) == IF s = "failed" THEN "failed" ELSE "other"

TypeOK ==
    /\ state \in [Pipelines -> States]
    /\ log \in [Pipelines -> Statuses \cup {"none"}]
    /\ mpc \in {"get", "append"} /\ mtodo \in SUBSET Pipelines
    /\ obs \in [Pipelines -> Statuses \cup {"none"}]
    /\ rpc \in {"idle", "stamp", "loop", "post", "row"} /\ rtodo \in SUBSET Pipelines
    /\ restarted \in 0..RestartLimit
    /\ afterM \in SUBSET Pipelines /\ afterR \in SUBSET Pipelines
    /\ lastStamp \in {"monitor", "restart"}
    /\ fresh \in SUBSET Pipelines /\ known \in SUBSET Pipelines
    /\ crashes \in 0..MaxCrashes /\ faults \in 0..MaxFaults

NothingSeen == [p \in Pipelines |-> "none"]

Init ==
    /\ state \in [Pipelines -> States]
    /\ log = [p \in Pipelines |-> "none"]
    /\ mpc = "get" /\ mtodo = Pipelines /\ obs = NothingSeen
    /\ rpc = "idle" /\ rtodo = {} /\ restarted = 0
    /\ afterM = {} /\ afterR = {} /\ lastStamp = "monitor"
    /\ fresh = {} /\ known = {}
    /\ crashes = 0 /\ faults = 0

\* p is the next of the pipelines S in the order of the API's list.
IsNext(p, S) == p \in S /\ \A q \in S : p <= q

-----------------------------------------------------------------------------
(* The heartbeat monitor *)

\* Ask for one pipeline.  A call that raises ends the poll and the job: MonitorDies.
MonitorGet(p) ==
    /\ mpc = "get" /\ IsNext(p, mtodo)
    /\ obs' = [obs EXCEPT ![p] = Status(state[p])]
    /\ mtodo' = mtodo \ {p}
    /\ fresh' = fresh \cup {p}
    /\ UNCHANGED <<worldVars, log, mpc, restartVars, stampVars, known, crashes, faults>>

\* All rows of the round get one recorded_at, the time after its last answer.
MonitorStamp ==
    /\ mpc = "get" /\ mtodo = {}
    /\ mpc' = "append"
    /\ afterM' = {} /\ lastStamp' = "monitor"
    /\ UNCHANGED <<worldVars, log, mtodo, obs, restartVars, afterR, historyVars, crashes, faults>>

\* One append for the round; a row is the latest unless a later one is there already.
MonitorAppend ==
    LET shown == Pipelines \ afterM
    IN  /\ mpc = "append"
        /\ log' = [p \in Pipelines |-> IF p \in shown THEN obs[p] ELSE log[p]]
        /\ afterR' = IF lastStamp = "monitor" THEN afterR \cup shown ELSE afterR
        /\ known' = {p \in fresh : obs[p] = "failed"}
        /\ mpc' = "get" /\ mtodo' = Pipelines /\ obs' = NothingSeen
        /\ UNCHANGED <<worldVars, restartVars, afterM, lastStamp, fresh, crashes, faults>>

MonitorDies ==
    /\ crashes < MaxCrashes
    /\ crashes' = crashes + 1
    /\ mpc' = "get" /\ mtodo' = Pipelines /\ obs' = NothingSeen
    /\ UNCHANGED <<worldVars, log, restartVars, stampVars, historyVars, faults>>

Monitor == (\E p \in Pipelines : MonitorGet(p)) \/ MonitorStamp \/ MonitorAppend

-----------------------------------------------------------------------------
(* The restart job *)

\* The latest row of each pipeline; a query that fails counts as an empty table.
ReadLog ==
    /\ rpc = "idle"
    /\ \/ rtodo' = {p \in Pipelines : log[p] = "failed"} /\ faults' = faults
       \/ faults < MaxFaults /\ faults' = faults + 1 /\ rtodo' = {}
    /\ rpc' = "stamp"
    /\ UNCHANGED <<worldVars, log, monitorVars, restarted, stampVars, historyVars, crashes>>

\* The time of the whole poll, and the count of its requests.
StartLoop ==
    /\ rpc = "stamp"
    /\ rpc' = "loop" /\ restarted' = 0
    /\ afterR' = {} /\ lastStamp' = "restart"
    /\ UNCHANGED <<worldVars, log, monitorVars, rtodo, afterM, historyVars, crashes, faults>>

LimitReached_Late  == restarted > RestartLimit      \* mutant: one request too many
LimitReached_Early == restarted + 1 >= RestartLimit \* mutant: one too few
LimitReached == restarted >= RestartLimit

\* Ask for a pipeline whose row says FAILED: one with an active update is skipped.
RestartGet(p) ==
    /\ rpc = "loop" /\ ~LimitReached /\ IsNext(p, rtodo)
    /\ IF state[p] = "active"
         THEN rtodo' = rtodo \ {p} /\ rpc' = rpc
         ELSE rpc' = "post" /\ rtodo' = rtodo
    /\ UNCHANGED <<worldVars, log, monitorVars, restarted, stampVars, historyVars, crashes, faults>>

\* The API takes no request for a pipeline that has an update in progress.
Accepts(p) == p \notin Refused /\ state[p] \notin InProgress

\* The request starts an update.
RestartPost(p) ==
    /\ rpc = "post" /\ IsNext(p, rtodo) /\ Accepts(p)
    /\ state' = [state EXCEPT ![p] = "active"]
    /\ restarted' = restarted + 1
    /\ rpc' = "row"
    /\ fresh' = fresh \ {p} /\ known' = known \ {p}
    /\ UNCHANGED <<log, monitorVars, rtodo, stampVars, crashes, faults>>

\* A refused request raises out of the poll and of the job, which is started again.
PollOver == rpc' = "idle" /\ rtodo' = {} /\ restarted' = 0

RestartRefused(p) ==
    /\ rpc = "post" /\ IsNext(p, rtodo) /\ ~Accepts(p)
    /\ PollOver
    /\ UNCHANGED <<worldVars, log, monitorVars, stampVars, historyVars, crashes, faults>>

\* The RESTART_REQUESTED row carries the time of the poll, so a row stamped since
\* then stays the latest.
Outdated_StampedNow(p) == FALSE \* mutant: the row is stamped when it is appended
Outdated(p) == p \in afterR

RestartRow(p) ==
    /\ rpc = "row" /\ IsNext(p, rtodo)
    /\ log' = IF Outdated(p) THEN log ELSE [log EXCEPT ![p] = "other"]
    /\ afterM' = IF ~Outdated(p) /\ lastStamp = "restart" THEN afterM \cup {p} ELSE afterM
    /\ rtodo' = rtodo \ {p} /\ rpc' = "loop"
    /\ UNCHANGED <<worldVars, monitorVars, restarted, afterR, lastStamp, historyVars, crashes,
                   faults>>

EndLoop ==
    /\ rpc = "loop" /\ (rtodo = {} \/ LimitReached)
    /\ PollOver
    /\ UNCHANGED <<worldVars, log, monitorVars, stampVars, historyVars, crashes, faults>>

\* Any other call that raises, or the end of the job's compute: also between a
\* request and its row.
RestartDies ==
    /\ crashes < MaxCrashes /\ rpc # "idle"
    /\ crashes' = crashes + 1
    /\ PollOver
    /\ UNCHANGED <<worldVars, log, monitorVars, stampVars, historyVars, faults>>

RestartJob ==
    \/ ReadLog \/ StartLoop \/ EndLoop
    \/ \E p \in Pipelines : RestartGet(p) \/ RestartPost(p) \/ RestartRefused(p) \/ RestartRow(p)

-----------------------------------------------------------------------------
(* The pipelines, and people and services that start and stop them (external) *)

Stop(p) ==
    /\ state[p] \in InProgress
    /\ \E s \in {"failed", "ended"} : state' = [state EXCEPT ![p] = s]
    /\ UNCHANGED <<log, monitorVars, restartVars, stampVars, historyVars, crashes, faults>>

Start(p) ==
    /\ state[p] \notin InProgress
    /\ state' = [state EXCEPT ![p] = "active"]
    /\ UNCHANGED <<log, monitorVars, restartVars, stampVars, historyVars, crashes, faults>>

\* An update passes through phases the code knows as active and others it does not.
ChangePhase(p) ==
    /\ state[p] \in InProgress
    /\ \E s \in InProgress \ {state[p]} : state' = [state EXCEPT ![p] = s]
    /\ UNCHANGED <<log, monitorVars, restartVars, stampVars, historyVars, crashes, faults>>

External == \E p \in Pipelines : Stop(p) \/ Start(p) \/ ChangePhase(p)

-----------------------------------------------------------------------------

Next == Monitor \/ MonitorDies \/ RestartJob \/ RestartDies \/ External

Spec == Init /\ [][Next]_vars

\* Both jobs loop for ever and wait for nobody.
FairSpec == Spec /\ WF_vars(Monitor) /\ WF_vars(RestartJob)

-----------------------------------------------------------------------------
(* Properties *)

\* A failure the monitor saw after a pipeline's last restart, and logged, stays its
\* latest row until the next restart or until the monitor sees it recovered: the
\* restart job's own row, appended late, never hides it (pipeline_job_ops.py:625 takes
\* its time before the loop).
FailureStaysVisible == \A p \in known : log[p] = "failed"

\* Once nobody else touches the pipelines, each one that has failed gets an update:
\* whatever died before, the log catches up and the restart job answers it
\* (run_monitor_loop, run_restart_loop).
EventuallyRestarted ==
    (<>[][~External]_vars) =>
        \A p \in Pipelines \ Refused : (state[p] = "failed") ~> (state[p] # "failed")

=============================================================================
