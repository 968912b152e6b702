---------------------------- MODULE MCTaskSystem ----------------------------
(* Small instances of TaskSystem for TLC. *)
EXTENDS TaskSystem
=============================================================================
