-------------------------------- MODULE MCVk --------------------------------
(* VkBackend needs no definitions of its own to be checked.                 *)
EXTENDS VkBackend
=============================================================================
