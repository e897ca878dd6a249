----------------------------- MODULE MCBusTxWorker -----------------------------
(***************************************************************************)
(* The worker has no parameters: every message is one of four kinds, and   *)
(* a worker that is done with one is as it was before it.                  *)
(***************************************************************************)
EXTENDS BusTxWorker

===============================================================================
