------------------------------- MODULE MCClients -------------------------------
(***************************************************************************)
(* One worker with its adapter and one bot, which observes as well, so     *)
(* that its own replies come back to it.                                   *)
(***************************************************************************)
EXTENDS Clients

CONSTANTS w,  \* a worker
          b   \* a bot
===============================================================================
