---------------------------- MODULE MCAicEngine -----------------------------
(* Small instances of AicEngine. *)
EXTENDS AicEngine
=============================================================================
