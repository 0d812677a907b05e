------------------------------ MODULE MCReloader ------------------------------
(***************************************************************************)
(* Reloader for TLC.  No symmetry: the runs check liveness.                *)
(***************************************************************************)
EXTENDS Reloader
===============================================================================
