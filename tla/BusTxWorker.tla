------------------------------ MODULE BusTxWorker ------------------------------
(***************************************************************************)
(* The transmit worker of a bus (src/main/bus_tx_worker.c) and the control *)
(* block its message carries into the driver (src/main/bus_tx.c): the      *)
(* owner's thread submits, polls, cancels, waits and closes; the worker's  *)
(* task sends.  They share two atomic words and three binary semaphores,   *)
(* and each step below is one access to one of these.  The driver's        *)
(* receive side runs beside both.                                          *)
(*                                                                         *)
(* The driver's send_controlled() is what its four implementations have in *)
(* common: admission before the first byte, an end time, and possibly more *)
(* to check after the end.                                                 *)
(***************************************************************************)
EXTENDS Naturals

VARIABLES
  state,    \* worker->state, "none" while there is no worker
  stopping, \* worker->stopping
  control,  \* worker->control: state, check_rx, ended, and whether a frame has
            \* arrived since rx_sequence was read
  reported, \* worker->timing_reported
  result,   \* worker->result
  wake, done, exited,  \* the three binary semaphores
  task,     \* where the worker's task is
  at,       \* where the owner's thread is
  read,     \* worker->state, as that thread last read it
  sent,     \* the message has reached the wire
  held      \* it was submitted behind an unread frame, to be checked for

shared == <<state, stopping, control, reported, result>>
signals == <<wake, done, exited>>
ghosts == <<sent, held>>
vars == <<state, stopping, control, reported, result, wake, done, exited,
          task, at, read, sent, held>>

Quiet == [state |-> "queued", check_rx |-> FALSE, ended |-> FALSE,
          newer |-> FALSE]

Calls == {"idle", "submitted", "polling", "cancelling", "waiting", "closing",
          "stopped", "joining"}

Work == {"take", "look", "ask", "admit", "swap", "transmit", "sending", "ended",
         "give", "loop", "exit", "gone"}

TypeOK ==
  /\ state \in {"none", "idle", "pending", "done"}
  /\ stopping \in BOOLEAN
  /\ control \in [state: {"queued", "active", "cancelled"}, check_rx: BOOLEAN,
                  ended: BOOLEAN, newer: BOOLEAN]
  /\ reported \in BOOLEAN
  /\ result \in {"none", "ok", "failed", "cancelled", "rx_pending"}
  /\ wake \in BOOLEAN /\ done \in BOOLEAN /\ exited \in BOOLEAN
  /\ task \in Work
  /\ at \in Calls
  /\ read \in {"none", "idle", "pending", "done"}
  /\ sent \in BOOLEAN /\ held \in BOOLEAN

\* calloc() and release_worker()
Zeroed ==
  /\ stopping' = FALSE /\ control' = Quiet /\ reported' = FALSE
  /\ result' = "none"
  /\ wake' = FALSE /\ done' = FALSE /\ exited' = FALSE
  /\ sent' = FALSE /\ held' = FALSE

Init ==
  /\ stopping = FALSE /\ control = Quiet /\ reported = FALSE /\ result = "none"
  /\ wake = FALSE /\ done = FALSE /\ exited = FALSE
  /\ sent = FALSE /\ held = FALSE
  /\ state = "none" /\ task = "gone" /\ at = "idle" /\ read = "none"

Call(place) == at' = place /\ UNCHANGED read

-------------------------------------------------------------------------------
(* The owner's thread. *)

\* bus_tx_worker_create(): zeroed, with semaphores of its own.
Create ==
  /\ at = "idle" /\ state = "none"
  /\ state' = "idle" /\ task' = "take"
  /\ Zeroed
  /\ UNCHANGED <<at, read>>

\* Refused unless the last message was collected.  A completion nobody waited
\* for is drained, and the frame the owner last read may not be the newest.
Submit(check, newer) ==
  /\ at = "idle"
  /\ ~stopping
  /\ state = "idle"
  /\ done' = FALSE
  /\ control' = [Quiet EXCEPT !.check_rx = check, !.newer = newer]
  /\ reported' = FALSE
  /\ state' = "pending"
  /\ sent' = FALSE /\ held' = (check /\ newer)
  /\ Call("submitted")
  /\ UNCHANGED <<stopping, result, wake, exited, task>>

\* Mutant: the task is not woken.
SubmitSilent ==
  /\ at = "submitted"
  /\ Call("idle")
  /\ UNCHANGED <<shared, signals, task, ghosts>>

SubmitWake ==
  /\ at = "submitted"
  /\ wake' = TRUE
  /\ Call("idle")
  /\ UNCHANGED <<shared, done, exited, task, ghosts>>

\* The three calls that first look at the state.
Look(place) ==
  /\ at = "idle" /\ state # "none"
  /\ place \in {"polling", "cancelling", "waiting"}
  /\ read' = state
  /\ at' = place
  /\ UNCHANGED <<shared, signals, task, ghosts>>

\* Complete: collected.  Ended but not complete: the timing is reported, once.
PollReport ==
  /\ at = "polling"
  /\ \/ read = "done" /\ reported' = TRUE /\ state' = "idle"
     \/ read = "pending" /\ reported' = (reported \/ control.ended)
        /\ UNCHANGED state
     \/ read = "idle" /\ UNCHANGED <<state, reported>>
  /\ Call("idle")
  /\ UNCHANGED <<stopping, control, result, signals, task, ghosts>>

Cancelled == [control EXCEPT !.state = IF @ = "queued" THEN "cancelled" ELSE @]

\* Mutant: a message already on its way is marked cancelled.
CancelAnyway ==
  /\ at = "cancelling"
  /\ control' = IF read = "pending" THEN [control EXCEPT !.state = "cancelled"]
                                    ELSE control
  /\ Call("idle")
  /\ UNCHANGED <<state, stopping, reported, result, signals, task, ghosts>>

\* bus_tx_cancel(): QUEUED becomes CANCELLED in one exchange, or nothing does.
Cancel ==
  /\ at = "cancelling"
  /\ control' = IF read = "pending" THEN Cancelled ELSE control
  /\ Call("idle")
  /\ UNCHANGED <<state, stopping, reported, result, signals, task, ghosts>>

WaitReturn ==
  /\ at = "waiting"
  /\ read # "pending"
  /\ Call("idle")
  /\ UNCHANGED <<shared, signals, task, ghosts>>

\* A completion wakes it, perhaps the one of the message before: look again.
WaitTake ==
  /\ at = "waiting"
  /\ read = "pending"
  /\ done
  /\ done' = FALSE
  /\ read' = state
  /\ UNCHANGED <<shared, wake, exited, task, at, ghosts>>

WaitTimeout ==
  /\ at = "waiting"
  /\ read = "pending"
  /\ ~done
  /\ Call("idle")
  /\ UNCHANGED <<shared, signals, task, ghosts>>

CloseBegin ==
  /\ at = "idle" /\ state # "none"
  /\ stopping' = TRUE
  /\ read' = state
  /\ at' = "closing"
  /\ UNCHANGED <<state, control, reported, result, signals, task, ghosts>>

CloseCancel ==
  /\ at = "closing"
  /\ control' = IF read = "pending" THEN Cancelled ELSE control
  /\ Call("stopped")
  /\ UNCHANGED <<state, stopping, reported, result, signals, task, ghosts>>

\* Mutant: a task asleep on its semaphore is not told.
CloseSilent ==
  /\ at = "stopped"
  /\ Call("joining")
  /\ UNCHANGED <<shared, signals, task, ghosts>>

CloseWake ==
  /\ at = "stopped"
  /\ wake' = TRUE
  /\ Call("joining")
  /\ UNCHANGED <<shared, done, exited, task, ghosts>>

CloseJoined ==
  /\ at = "joining"
  /\ exited
  /\ state' = "none"
  /\ Zeroed
  /\ Call("idle")
  /\ UNCHANGED task

\* A failed close keeps the worker, stopping, for the next try.
CloseTimeout ==
  /\ at = "joining"
  /\ ~exited
  /\ Call("idle")
  /\ UNCHANGED <<shared, signals, task, ghosts>>

-------------------------------------------------------------------------------
(* transmit_task(), and what every send_controlled() does in it. *)

Step(place) == task' = place /\ UNCHANGED <<at, read, held>>

Take ==
  /\ task = "take"
  /\ wake
  /\ wake' = FALSE
  /\ Step("look")
  /\ UNCHANGED <<shared, done, exited, sent>>

LookState ==
  /\ task = "look"
  /\ Step(IF state = "pending" THEN "ask" ELSE "loop")
  /\ UNCHANGED <<shared, signals, sent>>

AskCancelled ==
  /\ task = "ask"
  /\ IF control.state = "cancelled"
       THEN result' = "cancelled" /\ Step("ended")
       ELSE UNCHANGED result /\ Step("admit")
  /\ UNCHANGED <<state, stopping, control, reported, signals, sent>>

\* bus_tx_admit(), as far as the exchange.  A retry of the driver's own finds
\* the message admitted already.
Admit ==
  LET refuse(why) == result' = why /\ Step("ended") IN
  /\ task = "admit"
  /\ \/ control.state = "cancelled" /\ refuse("cancelled")
     \/ control.state = "active" /\ Step("transmit") /\ UNCHANGED result
     \/ /\ control.state = "queued"
        /\ IF control.check_rx /\ control.newer
             THEN refuse("rx_pending")
             ELSE Step("swap") /\ UNCHANGED result
  /\ UNCHANGED <<state, stopping, control, reported, signals, sent>>

\* Mutant: a plain store, so a cancellation between load and store is undone.
AdmitStore ==
  /\ task = "swap"
  /\ control' = [control EXCEPT !.state = "active"]
  /\ Step("transmit")
  /\ UNCHANGED <<state, stopping, reported, result, signals, sent>>

AdmitSwap ==
  /\ task = "swap"
  /\ IF control.state = "queued"
       THEN /\ control' = [control EXCEPT !.state = "active"]
            /\ UNCHANGED result
            /\ Step("transmit")
       ELSE /\ result' = "cancelled"
            /\ UNCHANGED control
            /\ Step("ended")
  /\ UNCHANGED <<state, stopping, reported, signals, sent>>

\* The first byte goes out, or the driver cannot start after all.
Transmit ==
  /\ task = "transmit"
  /\ \/ sent' = TRUE /\ Step("sending") /\ UNCHANGED result
     \/ result' = "failed" /\ Step("ended") /\ UNCHANGED sent
  /\ UNCHANGED <<state, stopping, control, reported, signals>>

\* bus_tx_end() with the echo still to check; a failure; or one more try.
Sending ==
  /\ task = "sending"
  /\ \/ /\ control' = [control EXCEPT !.ended = TRUE]
        /\ result' \in {"ok", "failed"}
        /\ Step("ended")
     \/ result' = "failed" /\ Step("ended") /\ UNCHANGED control
     \/ Step("admit") /\ UNCHANGED <<control, result>>
  /\ UNCHANGED <<state, stopping, reported, signals, sent>>

\* Mutant: the two words are swapped.
StoreResult ==
  /\ task = "ended"
  /\ state' = result /\ result' = "none"
  /\ Step("give")
  /\ UNCHANGED <<stopping, control, reported, signals, sent>>

StoreDone ==
  /\ task = "ended"
  /\ state' = "done"
  /\ Step("give")
  /\ UNCHANGED <<stopping, control, reported, result, signals, sent>>

\* Mutant: the completion is not signalled.
GiveNothing ==
  /\ task = "give"
  /\ Step("loop")
  /\ UNCHANGED <<shared, signals, sent>>

GiveDone ==
  /\ task = "give"
  /\ done' = TRUE
  /\ Step("loop")
  /\ UNCHANGED <<shared, wake, exited, sent>>

Loop ==
  /\ task = "loop"
  /\ Step(IF stopping THEN "exit" ELSE "take")
  /\ UNCHANGED <<shared, signals, sent>>

Exit ==
  /\ task = "exit"
  /\ exited' = TRUE
  /\ Step("gone")
  /\ UNCHANGED <<shared, wake, done, sent>>

\* bus_rx_next() in the driver, on its own task or in its interrupt.
Receive ==
  /\ state # "none"
  /\ control' = [control EXCEPT !.newer = TRUE]
  /\ UNCHANGED <<state, stopping, reported, result, signals, task, at, read,
                 ghosts>>

-------------------------------------------------------------------------------

OwnerReturns ==
  \/ SubmitWake \/ PollReport \/ Cancel
  \/ WaitReturn \/ WaitTake \/ WaitTimeout
  \/ CloseCancel \/ CloseWake \/ CloseJoined \/ CloseTimeout

OwnerCalls ==
  \/ Create \/ CloseBegin
  \/ \E check, newer \in BOOLEAN: Submit(check, newer)
  \/ \E place \in {"polling", "cancelling", "waiting"}: Look(place)

TaskStep ==
  \/ Take \/ LookState \/ AskCancelled \/ Admit \/ AdmitSwap \/ Transmit
  \/ Sending \/ StoreDone \/ GiveDone \/ Loop \/ Exit

Next == OwnerCalls \/ OwnerReturns \/ TaskStep \/ Receive

Spec == Init /\ [][Next]_vars

(***************************************************************************)
(* Fairness: the owner's calls return, the task runs, and a driver gives   *)
(* up retrying: each of them has a retry limit.                            *)
(***************************************************************************)
Ends == Sending /\ task' = "ended"

FairSpec ==
  /\ Spec
  /\ WF_vars(OwnerReturns)
  /\ WF_vars(TaskStep)
  /\ SF_vars(Ends)

-------------------------------------------------------------------------------
(* What must hold. *)

\* The worker VifClaims reckons with: a message reaches the wire between its
\* submission and its completion, never after a cancellation took it back
\* (bus_tx_cancel() against bus_tx_admit()) and never past an answer the owner
\* had not read when it submitted (BUS_TX_CHECK_RX).
Promise == INSTANCE TxPromise WITH
  life <- CASE state = "none" -> "gone"
            [] state # "none" /\ task = "gone" -> "exited"
            [] OTHER -> state,
  revoked <- control.state = "cancelled"

PromiseSpec == Promise!PromiseSpec

\* No message is accepted and then forgotten: a wake-up is there, or about to
\* be, or the task has its own and has not yet looked at the state.  The wake
\* semaphore is binary, and a submission may find it given already.
PendingIsServed ==
  state = "pending" /\ ~stopping =>
    \/ wake
    \/ at = "submitted"
    \/ task \in {"look", "ask", "admit", "swap", "transmit", "sending", "ended"}

\* A caller waiting for a message that is done is about to be told, although
\* the completion it sleeps on is binary and may be the one of the message
\* before (bus_tx_worker_wait()).
WaitIsAnswered ==
  at = "waiting" /\ read = "pending" /\ state = "done" => done \/ task = "give"

\* What is reported is what happened on the wire.
ReportIsTrue ==
  state = "done" =>
    /\ result = "ok" => sent /\ control.ended
    /\ result \in {"cancelled", "rx_pending"} => ~sent
    /\ sent => control.state = "active"

\* Whoever submits a message is answered, and truly (bus_tx_worker.c).
AnswersAreTrue == TypeOK /\ PendingIsServed /\ WaitIsAnswered /\ ReportIsTrue

\* A worker told to stop goes, even when the close gives up on it first, so the
\* next close succeeds: its task never sleeps on with nobody left to wake it.
StopEnds == stopping ~> (task = "gone")

===============================================================================
