------------------------ MODULE IngestReconRefines ------------------------
(* The recon job implements ReconGate: the refinement mapping. *)
EXTENDS IngestReconInv

ChangedKeys   == [t \in Tables |-> src[t].ver]
DeliveredKeys == [t \in Tables |-> dst[t].ver]
Batches       == {[head |-> r.ct_head_version, tables |-> r.tables] : r \in ready}

Gate == INSTANCE ReconGate
            WITH Gated       <- DeltaTsTables,
                 changed     <- ChangedKeys,
                 delivered   <- DeliveredKeys,
                 published   <- Batches,
                 doubted     <- doubted,
                 confirmed   <- wm,
                 dbConfirmed <- dbwm

\* Every step of the job, the source and the pipeline, crashes and failed calls
\* included, is a step of ReconGate or changes nothing the calc can see: batches are
\* published complete but for doubted tables, watermarks never go back and only move to
\* published batches, the database's last (run_simplified_pipeline_recon).
ImplementsGate == Gate!Spec

\* What the last part rests on: in a batch being advanced, the tables done stand at
\* its head.
AdvancedSoFar ==
    pc \in {"advance", "advanceDb"} =>
        /\ \A t \in PendingTables \ poll.todo : wm[t] = poll.head
        /\ pc = "advanceDb" => poll.todo = {}

===========================================================================
