------------------------------ MODULE MCMemoryMove ------------------------------
(* A memory move for TLC. *)
EXTENDS MemoryMove
================================================================================
