---------------------------- MODULE MCFlowRecon ----------------------------
(* Finite instances of FlowRecon for TLC. *)
EXTENDS FlowReconRefines, TLC

\* Calls that fail in the passing run: not the event query, after which a quiet
\* pipeline is not asked again, nor the query for the recorded row.
RetriedCalls == Calls \ {"events", "recorded"}

=============================================================================
