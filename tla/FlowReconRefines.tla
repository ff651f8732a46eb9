-------------------------- MODULE FlowReconRefines --------------------------
(* The legacy recon implements EventFeed: the refinement mapping. *)
EXTENDS FlowReconInv

Feed == INSTANCE EventFeed
            WITH emitted   <- log,
                 merged    <- metrics,
                 judged    <- summaries,
                 published <- ready,
                 noted     <- mark.at

\* Every step of the recon, the source and the pipeline, crashes and failed calls
\* included, is a step of EventFeed or changes nothing a reader of the tables can see:
\* a flow is judged after its last event and with all its events merged, published
\* once and only on PASS, and the watermark is stored only when nothing at or below it
\* is left to do (run_all_pipeline_recon, run_pipeline_recon).
ImplementsFeed == Feed!Spec

\* What the refinement adds to SkipInv and RecordedInv: a flow in the poll's hands has
\* completed at or before the watermark to be stored, and one that passed has its
\* summary.
FeedInv ==
    /\ metrics \subseteq log
    /\ pc = "merge" => \A e \in poll.rows : e.at <= poll.stamp.at
    /\ pc \in InFlows =>
          \A s \in poll.todo : \E c \in log : /\ c.update = s.update /\ c.flow = s.flow
                                              /\ c.status = "COMPLETED"
                                              /\ c.at <= poll.stamp.at
    /\ pc \in Working => poll.cur \in poll.todo
    /\ pc \in Passed => CurrentRow("PASS") \in summaries

=============================================================================
