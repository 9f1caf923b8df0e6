------------------------------- MODULE MCShim -------------------------------
(* LibretroShim needs no definitions of its own to be checked.              *)
EXTENDS LibretroShim
=============================================================================
