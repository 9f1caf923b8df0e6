------------------------------- MODULE MCAudio -------------------------------
(* AudioOutput needs no definitions of its own to be checked.               *)
EXTENDS AudioOutput
=============================================================================
