--------------------------- MODULE MCNodeControls ---------------------------
(* A line of three characters and a press of three ticks. *)
EXTENDS NodeControls
============================================================================
