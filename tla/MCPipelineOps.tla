--------------------------- MODULE MCPipelineOps ---------------------------
(* Finite instances of PipelineOps for TLC. *)
EXTENDS PipelineOps

TwoPipelines   == 1..2

FirstOnly      == {1}
None           == {}

=============================================================================
