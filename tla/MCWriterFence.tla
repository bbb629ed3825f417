----------------------------- MODULE MCWriterFence -----------------------------
(* The writer fence for TLC: one Agent's containers that can write its state. *)
EXTENDS WriterFence

MCOneWriter == {"agent"}
================================================================================
