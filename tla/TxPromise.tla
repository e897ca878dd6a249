------------------------------- MODULE TxPromise -------------------------------
(***************************************************************************)
(* What a transmit worker promises the owner of a bus, and all VifClaims   *)
(* uses of it: one message at a time, on the wire only between acceptance  *)
(* and completion, never once it has been revoked, never when it was held  *)
(* back for an answer the owner had not read, and nothing after the worker *)
(* has gone.                                                               *)
(***************************************************************************)
VARIABLES
  life,      \* "gone", "idle", "pending", "done" or "exited"
  stopping,  \* the owner wants it gone
  sent,      \* the message reached the wire
  revoked,   \* the owner took it back in time
  held       \* it must wait for an answer the owner has not read

promise == <<life, stopping, sent, revoked, held>>

PromiseInit ==
  /\ life = "gone"
  /\ stopping = FALSE /\ sent = FALSE /\ revoked = FALSE /\ held = FALSE

Hire ==
  /\ life = "gone"
  /\ life' = "idle" /\ stopping' = FALSE
  /\ sent' = FALSE /\ revoked' = FALSE /\ held' = FALSE

Accept ==
  /\ life = "idle" /\ ~stopping
  /\ life' = "pending"
  /\ sent' = FALSE /\ revoked' = FALSE /\ held' \in BOOLEAN
  /\ UNCHANGED stopping

Send ==
  /\ life = "pending" /\ ~sent /\ ~revoked /\ ~held
  /\ sent' = TRUE
  /\ UNCHANGED <<life, stopping, revoked, held>>

Revoke ==
  /\ ~sent
  /\ revoked' = TRUE
  /\ UNCHANGED <<life, stopping, sent, held>>

Finish ==
  /\ life = "pending"
  /\ life' = "done"
  /\ UNCHANGED <<stopping, sent, revoked, held>>

Collect ==
  /\ life = "done"
  /\ life' = "idle"
  /\ UNCHANGED <<stopping, sent, revoked, held>>

Stop ==
  /\ stopping' = TRUE
  /\ UNCHANGED <<life, sent, revoked, held>>

Leave ==
  /\ stopping
  /\ life \in {"idle", "pending", "done"}
  /\ life' = "exited"
  /\ UNCHANGED <<stopping, sent, revoked, held>>

Dismiss ==
  /\ life = "exited"
  /\ life' = "gone" /\ stopping' = FALSE
  /\ sent' = FALSE /\ revoked' = FALSE /\ held' = FALSE

PromiseNext ==
  \/ Hire \/ Accept \/ Send \/ Revoke \/ Finish \/ Collect \/ Stop \/ Leave
  \/ Dismiss

PromiseSpec == PromiseInit /\ [][PromiseNext]_promise
===============================================================================
