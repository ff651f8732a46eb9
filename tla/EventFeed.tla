------------------------------ MODULE EventFeed ------------------------------
(***************************************************************************)
(* What the event-log recon of a pipeline promises to those who read its   *)
(* tables, without any of the means: no polls, API snapshots, counts, CT   *)
(* watermarks, failed calls or restarts.                                   *)
(*                                                                         *)
(* A flow is judged only when it has completed and all it reported has     *)
(* been merged; it is published once, and only if it was judged to pass;   *)
(* and a time is noted as read only when nothing up to it is left to do.   *)
(* What the verdict is computed from is not part of this promise.          *)
(* FlowReconRefines shows that the job implements this.                    *)
(***************************************************************************)
EXTENDS Integers

VARIABLES
    emitted,   \* the events of the pipeline's flows
    merged,    \* those in lakeflow_flow_metrics
    judged,    \* the verdicts on flows of an update
    published, \* the recon_ready rows
    noted      \* the time up to which the log is not read again, -1 before the first

vars == <<emitted, merged, judged, published, noted>>

Init ==
    /\ emitted = {} /\ merged = {}
    /\ judged = {} /\ published = {}
    /\ noted = -1

SameFlow(a, b) == a.update = b.update /\ a.flow = b.flow

IsCompleted(e) == e.status = "COMPLETED"

\* All the events of the flow are known, and the last one is among them.
Finished(e) ==
    /\ \E c \in merged : SameFlow(c, e) /\ IsCompleted(c)
    /\ \A d \in emitted : SameFlow(d, e) => d \in merged

\* Nothing is left to do about an event.
Settled(e) == e \in merged /\ (IsCompleted(e) => \E j \in judged : SameFlow(j, e))

\* Events come in the order of their times, and none after the flow's completion.
Emit(e) ==
    /\ \A d \in emitted : d.at < e.at /\ (IsCompleted(d) => ~SameFlow(d, e))
    /\ noted < e.at
    /\ emitted' = emitted \cup {e}
    /\ UNCHANGED <<merged, judged, published, noted>>

Merge ==
    /\ merged \subseteq merged' /\ merged' \subseteq emitted
    /\ UNCHANGED <<emitted, judged, published, noted>>

Judge(verdict) ==
    /\ Finished(verdict)
    /\ judged' = judged \cup {verdict}
    /\ UNCHANGED <<emitted, merged, published, noted>>

Publish(row) ==
    /\ \E j \in judged : SameFlow(j, row) /\ j.status = "PASS"
    /\ \A r \in published : ~SameFlow(r, row)
    /\ published' = published \cup {row}
    /\ UNCHANGED <<emitted, merged, judged, noted>>

\* A time may be noted again, or an earlier one: that only makes work.
Note ==
    /\ \A e \in emitted : e.at <= noted' => Settled(e)
    /\ UNCHANGED <<emitted, merged, judged, published>>

Next ==
    \/ \E e \in emitted' : Emit(e)
    \/ Merge
    \/ \E verdict \in judged' : Judge(verdict)
    \/ \E row \in published' : Publish(row)
    \/ Note

Spec == Init /\ [][Next]_vars

-----------------------------------------------------------------------------
(* What its readers may rely on *)

\* A flow that is published has ended, is merged to its last event, and was judged to
\* pass; nothing that comes later changes that.
PublishedComplete ==
    \A row \in published : /\ Finished(row)
                          /\ \E j \in judged : SameFlow(j, row) /\ j.status = "PASS"

=============================================================================
