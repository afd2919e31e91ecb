-------------------------- MODULE MC_RegistryServer --------------------------
(* Small instances of RegistryServer.                                      *)
EXTENDS RegistryServer, TLC

CONSTANTS c1, c2, c3, h1, h2

\* c1 and c2 are two connections of one RPC server, before and after a restart.
MCAccessAddr == c1 :> h1 @@ c2 :> h1 @@ c3 :> h2
=============================================================================
