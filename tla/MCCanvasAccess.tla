--------------------------- MODULE MCCanvasAccess ---------------------------
(* Small instances of CanvasAccess for TLC. *)
EXTENDS CanvasAccess
=============================================================================
