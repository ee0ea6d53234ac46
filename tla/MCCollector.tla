---------------------------- MODULE MCCollector ----------------------------
(* Small instances of Collector; the values are in the .cfg files. *)
EXTENDS Collector
=============================================================================
