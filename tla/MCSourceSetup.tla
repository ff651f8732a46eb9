--------------------------- MODULE MCSourceSetup ---------------------------
(* Finite instances of SourceSetup for TLC. *)
EXTENDS SourceSetup

=============================================================================
