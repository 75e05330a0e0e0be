------------------------- MODULE MCRegistryMessages -------------------------
(* RegistryMessages with the values of RegistryMessages_*.cfg.             *)
EXTENDS RegistryMessages
=============================================================================
