-------------------------------- MODULE MCTcp --------------------------------
(* TcpSession needs no definitions of its own to be checked.                *)
EXTENDS TcpSession
=============================================================================
