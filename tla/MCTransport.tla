---------------------------- MODULE MCTransport ----------------------------
(***************************************************************************)
(* Instances of Transport for TLC.                                         *)
(***************************************************************************)
EXTENDS Transport, TLC

CONSTANTS client, server

MCOrdered == (server :> 3) @@ (client :> 0)
MCUnordered == (server :> 0) @@ (client :> 1)
MCMaxSend == (server :> 3) @@ (client :> 1)
=============================================================================
