------------------------------ MODULE MCHandoff ------------------------------
(* SurfaceHandoff needs no definitions of its own to be checked.            *)
EXTENDS SurfaceHandoff
=============================================================================
