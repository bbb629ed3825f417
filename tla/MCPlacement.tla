------------------------------ MODULE MCPlacement ------------------------------
(* The instances of Placement that TLC checks.                                *)
EXTENDS Placement
================================================================================
