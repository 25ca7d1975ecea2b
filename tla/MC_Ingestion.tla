---------------------------- MODULE MC_Ingestion ----------------------------
(* Model-checking instance of Ingestion: the bounds are set in the cfg. *)
EXTENDS Ingestion

=============================================================================
