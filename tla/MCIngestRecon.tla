--------------------------- MODULE MCIngestRecon ---------------------------
(* Finite instances of IngestRecon for TLC. *)
EXTENDS IngestReconRefines

\* Calls that fail in the safety run: all but the query for a recorded row, whose failure
\* writes a second one.
SurvivableCalls == Calls \ {"recorded"}

\* Calls that fail in the liveness run: those whose failure the next poll makes good.
\* After an append that committed unseen, the next polls only find the row.
RetriedCalls == Calls \ {"writeAck"}

=============================================================================
