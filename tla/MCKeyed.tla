------------------------------- MODULE MCKeyed -------------------------------
(* KeyedHandoff needs no definitions of its own to be checked.              *)
EXTENDS KeyedHandoff
=============================================================================
