------------------------------ MODULE MCGzScene ------------------------------
(* Small instances of GzScene. *)
EXTENDS GzScene
=============================================================================
