------------------------- MODULE MCPartitionRunner -------------------------
(* Model-checking instance of PartitionRunner: the cfg file gives the constants. *)
EXTENDS PartitionRunner
=============================================================================
