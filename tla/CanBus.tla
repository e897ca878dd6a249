-------------------------------- MODULE CanBus --------------------------------
(***************************************************************************)
(* The CAN driver: can_bus.c with the receive epoch of bus_tx.c.           *)
(*                                                                         *)
(* Four parties share it.  The owner of the claim opens and closes the     *)
(* driver, receives, and sends what needs no worker; the transmit worker   *)
(* sends for it under a control block; can_bus_task brings a controller    *)
(* the bus threw off back; and the controller's interrupts deliver frames, *)
(* completions and changes of state.  A close waits for the worker first   *)
(* (VifClaims), and a send and a BUS_ON exclude each other there.          *)
(*                                                                         *)
(* The controller and its driver (esp_twai) are external, known by what    *)
(* can_bus.c expects of them: transmissions complete in order, are kept    *)
(* through a bus-off, and are dropped by a disable, which a controller in  *)
(* bus-off refuses.                                                        *)
(***************************************************************************)
EXTENDS Integers, Sequences

CONSTANTS
  TxQueueLen,   \* CAN_TX_QUEUE_LEN
  RxQueueLen,   \* CAN_RX_QUEUE_LEN
  SeqMod,       \* the modulus of a receive sequence, 2^32 in the code
  Lag           \* bound: receptions counted while one of them waits to be seen or
                \* reported, or a message to be admitted (the code: half of
                \* SeqMod); a claim whose owner ignores them gets one

ASSUME CanAssumption ==
  /\ {TxQueueLen, RxQueueLen, Lag} \subseteq Nat \ {0}
  /\ SeqMod \in Nat /\ Lag + 1 < SeqMod \div 2

VARIABLES
  owner,    \* where the claim's owner is
  send,     \* the one send there may be
  report,   \* what the last send promised: that its frame went out, that it
            \* never will, or neither
  task,     \* can_bus_task: where it is, and its notifications
  joined,   \* can_bus_task_handle = NULL
  exit,     \* task_should_exit
  sem,      \* the exit semaphore has been given
  res,      \* rx_frame_queue and task_exit_semaphore exist
  node,     \* the controller
  flight,   \* slots of the frames the controller's driver holds, the first
            \* in hardware
  slot,     \* tx_pool_next
  failed,   \* tx_failed has moved since the send in progress read it, and it
            \* has yet to look again
  started, silent, manual, linkDown,
  out,      \* history: the frame of the last send that waited has gone out
  raced,    \* history: it had, when the send that gave it up silenced the rest
  isr,      \* the reception the interrupt has counted and not placed
  rxq,      \* rx_frame_queue, by sequence
  epoch,    \* rx_epoch: the newest sequence, and the newest lost
  seen,     \* the owner's rx_sequence
  misled    \* a report that carries no sequence was taken for the newest

txVars == <<send, report, flight, slot, failed, out, raced>>
rxVars == <<isr, rxq, epoch, seen, misled>>
upVars == <<task, joined, exit, sem, res>>
canVars == <<owner, node, started, silent, manual, linkDown, upVars, txVars, rxVars>>

\* Two slots more than the driver can hold: one in hardware, one being filled.
\* Mutant: the slot being filled is forgotten.
PoolOfHeld == TxQueueLen + 1
PoolLen == TxQueueLen + 2
Slots == 0 .. PoolLen - 1

Quiet == [at |-> "none", controlled |-> FALSE, check |-> FALSE, wait |-> FALSE,
          seen |-> 0]
\* Between two calls; "drained" follows a receive that found nothing.
Free == owner \in {"idle", "drained"}

CanInit ==
  /\ owner = "closed" /\ send = Quiet
  /\ report = "none"
  /\ task = [at |-> "gone", notes |-> 0]
  /\ joined = TRUE /\ exit = FALSE /\ sem = FALSE /\ res = FALSE
  /\ node = "none" /\ flight = <<>> /\ slot = 0 /\ failed = FALSE
  /\ out = FALSE /\ raced = FALSE
  /\ started = FALSE /\ silent = TRUE /\ manual = FALSE /\ linkDown = FALSE
  /\ isr = 0 /\ rxq = <<>> /\ epoch = [sequence |-> 0, lost |-> 0] /\ seen = 0 /\ misled = FALSE

-------------------------------------------------------------------------------
\* Opening.  What was left behind by a failed close is not built over.

OpenBuild(m) ==
  /\ owner = "closed" /\ joined /\ node = "none" /\ ~res
  /\ manual' = m /\ linkDown' = FALSE /\ exit' = FALSE /\ sem' = FALSE
  /\ epoch' = [sequence |-> 0, lost |-> 0] /\ seen' = 0 /\ rxq' = <<>> /\ misled' = FALSE
  /\ slot' = 0 /\ res' = TRUE
  /\ \/ node' = "stopped" /\ owner' = "built"
     \/ node' = "none" /\ owner' = "down"
  /\ UNCHANGED <<send, report, task, joined, flight, failed, out, raced, started,
                 silent, isr>>

OpenTask ==
  /\ owner = "built"
  /\ \/ /\ owner' = "tasked" /\ joined' = FALSE
        /\ task' = [at |-> "loop", notes |-> 0]
     \/ owner' = "down" /\ UNCHANGED <<joined, task>>
  /\ UNCHANGED <<node, started, silent, manual, linkDown, exit, sem, res, txVars, rxVars>>

OpenEnable ==
  /\ owner = "tasked"
  /\ \/ /\ owner' = "idle" /\ node' = "on" /\ started' = TRUE /\ silent' = FALSE
     \/ owner' = "down" /\ UNCHANGED <<node, started, silent>>
  /\ UNCHANGED <<manual, linkDown, upVars, txVars, rxVars>>

\* can_bus_teardown(): from a close, from a failed open ("down") and from a
\* waited-for send that nobody controls.
Silence == started' = FALSE /\ silent' = TRUE
TeardownBegin ==
  /\ Free \/ owner \in {"down", "retained"}
  /\ send.at = "none"
  /\ Silence /\ exit' = TRUE /\ owner' = "stopping"
  /\ UNCHANGED <<node, manual, linkDown, task, joined, sem, res, txVars, rxVars>>

\* can_bus_stop_task(): the owner waits for the semaphore, and not for ever.
\* Mutant: a wait that ends without the semaphore is taken for the task's end.
StopAnyway ==
  /\ owner = "stopping"
  /\ joined' = TRUE /\ sem' = FALSE /\ owner' = "releasing"
  /\ UNCHANGED <<node, started, silent, manual, linkDown, task, exit, res, txVars, rxVars>>
StopTask ==
  /\ owner = "stopping"
  /\ \/ joined /\ owner' = "releasing" /\ UNCHANGED <<joined, sem>>
     \/ ~joined /\ sem /\ joined' = TRUE /\ sem' = FALSE /\ owner' = "releasing"
     \/ ~joined /\ ~sem /\ owner' = "retained" /\ UNCHANGED <<joined, sem>>
  /\ UNCHANGED <<node, started, silent, manual, linkDown, task, exit, res, txVars, rxVars>>

\* can_bus_release(): a controller the bus threw off is deleted as it is.
Release ==
  /\ owner = "releasing" /\ isr = 0
  /\ \/ /\ owner' = "closed" /\ node' = "none" /\ flight' = <<>>
        /\ res' = FALSE /\ rxq' = <<>>
     \/ /\ node # "none" /\ owner' = "retained"
        /\ node' \in {node, IF node = "on" THEN "stopped" ELSE node}
        /\ flight' = IF node' = "stopped" THEN <<>> ELSE flight
        /\ UNCHANGED <<res, rxq>>
  /\ UNCHANGED <<started, silent, manual, linkDown, task, joined, exit, sem, send,
                 report, slot, failed, out, raced, isr, epoch, seen, misled>>

-------------------------------------------------------------------------------
\* Sending.

\* J2534, which recovers by hand, sends through the worker; the others do not.
SendBegin(controlled, check, wait) ==
  /\ Free /\ send.at = "none" /\ controlled = manual
  /\ check => controlled /\ owner = "drained"
  /\ send' = [at |-> "admit", controlled |-> controlled, check |-> check,
              wait |-> controlled \/ wait, seen |-> IF check THEN seen ELSE 0]
  /\ owner' = IF controlled THEN owner ELSE "sending"
  /\ report' = "none" /\ out' = FALSE /\ raced' = FALSE
  /\ UNCHANGED <<node, started, silent, manual, linkDown, upVars, flight, slot,
                 failed, rxVars>>

Return(result) ==
  /\ report' = result
  /\ send' = Quiet
Back == owner' = IF owner = "sending" THEN "idle" ELSE owner

\* bus_tx_admit(): not past a reception its sender has not seen.
Unseen == send.seen # epoch.sequence
Admit ==
  /\ send.at = "admit"
  /\ \/ /\ send.check /\ Unseen /\ Return("none") /\ Back /\ UNCHANGED failed
     \/ /\ ~(send.check /\ Unseen)
        /\ send' = [send EXCEPT !.at = "fill"] /\ failed' = FALSE
        /\ UNCHANGED <<report, owner>>
  /\ UNCHANGED <<node, started, silent, manual, linkDown, upVars, flight, slot,
                 out, raced, rxVars>>

\* can_send(): the slot is filled before there is room for its frame.
Fill ==
  /\ send.at = "fill"
  /\ \/ /\ ~started /\ Return("none") /\ Back
     \/ /\ started
        /\ send' = [send EXCEPT !.at = "room"] /\ UNCHANGED <<report, owner>>
  /\ UNCHANGED <<node, started, silent, manual, linkDown, upVars, flight, slot,
                 failed, out, raced, rxVars>>

Transmit ==
  /\ send.at = "room"
  /\ \/ /\ node \in {"on", "busoff", "recovering"} /\ Len(flight) <= TxQueueLen
        /\ flight' = Append(flight, slot) /\ out' = FALSE
        /\ slot' = (slot + 1) % PoolLen
        /\ IF send.wait THEN send' = [send EXCEPT !.at = "done"] /\ UNCHANGED <<report, owner>>
           ELSE Return("none") /\ Back
     \/ /\ node # "on" \/ Len(flight) > TxQueueLen
        /\ Return("none") /\ Back /\ UNCHANGED <<flight, slot, out>>
  /\ UNCHANGED <<node, started, silent, manual, linkDown, upVars, failed, raced, rxVars>>

\* The wait, with its second look, ends with everything sent.
AllDone ==
  /\ send.at = "done" /\ flight = <<>>
  /\ Return(IF failed THEN "none" ELSE "sent") /\ Back /\ failed' = FALSE
  /\ UNCHANGED <<node, started, silent, manual, linkDown, upVars, flight, slot,
                 out, raced, rxVars>>

\* It ends without.
GivesUp ==
  /\ send.at = "done" /\ flight # <<>>
  /\ send' = [send EXCEPT !.at = "late"]
  /\ UNCHANGED <<owner, node, started, silent, manual, linkDown, upVars, report,
                 flight, slot, failed, out, raced, rxVars>>

\* Mutant of AbortBegin: the controller is disabled, the transceiver left driving.
AbortByDisable ==
  /\ send.at = "late"
  /\ send' = [send EXCEPT !.at = "abort"] /\ started' = FALSE /\ raced' = out
  /\ UNCHANGED <<owner, node, silent, manual, linkDown, upVars, report, flight,
                 slot, failed, out, rxVars>>
\* What is queued is silenced, a moment after that look: the frame may just have
\* gone out.  A worker leaves the rest to the owner, who closes once it has
\* joined it.
AbortBegin ==
  /\ send.at = "late"
  /\ send' = [send EXCEPT !.at = "abort"] /\ Silence /\ raced' = out /\ failed' = FALSE
  /\ UNCHANGED <<owner, node, manual, linkDown, upVars, report, flight, slot,
                 out, rxVars>>

Abort ==
  /\ send.at = "abort" /\ Return("aborted")
  /\ \/ /\ send.controlled /\ node = "on"
        /\ node' = "stopped" /\ flight' = <<>> /\ UNCHANGED <<exit, owner>>
     \/ send.controlled /\ UNCHANGED <<node, flight, exit, owner>>
     \/ /\ ~send.controlled /\ exit' = TRUE /\ owner' = "stopping"
        /\ UNCHANGED <<node, flight>>
  /\ UNCHANGED <<started, silent, manual, linkDown, task, joined, sem, res, slot,
                 failed, out, raced, rxVars>>

-------------------------------------------------------------------------------
\* The controller, its interrupts, and the task that recovers it.

TxDone ==
  /\ node = "on" /\ flight # <<>>
  /\ flight' = Tail(flight)
  /\ \/ ~silent /\ out' = (Len(flight) = 1 /\ (report # "none" \/ send.wait)) /\ UNCHANGED failed
     \/ failed' = (send.at \in {"fill", "room", "done"}) /\ UNCHANGED out
  /\ UNCHANGED <<owner, node, started, silent, manual, linkDown, upVars, send, report,
                 slot, raced, rxVars>>

\* can_state_change(): both edges wake the task.
\* Mutant: the wake-up is given only to a task that waits for it.
NotifyWaiting ==
  task' = IF exit \/ joined \/ task.at # "loop" THEN task ELSE [task EXCEPT !.notes = 1]
Notify == task' = IF exit \/ joined THEN task ELSE [task EXCEPT !.notes = 1]
StateChange(to) ==
  /\ node' = to /\ Notify
  /\ linkDown' = (linkDown \/ (manual /\ to = "busoff"))
  /\ UNCHANGED <<owner, started, silent, manual, joined, exit, sem, res, txVars, rxVars>>
BusOff == node = "on" /\ StateChange("busoff")
Recovered == node = "recovering" /\ StateChange("on")

TaskWake ==
  /\ task.at = "loop"
  /\ \/ exit /\ task' = [task EXCEPT !.at = "leave"]
     \/ ~exit /\ task.notes > 0 /\ task' = [at |-> "woken", notes |-> 0]
  /\ UNCHANGED <<owner, node, started, silent, manual, linkDown, joined, exit, sem, res,
                 txVars, rxVars>>

\* The state is read, and acted on a moment later.
TaskLook ==
  /\ task.at = "woken"
  /\ task' = [task EXCEPT !.at = IF exit THEN "leave"
                ELSE IF node = "busoff" /\ ~manual THEN "recover" ELSE "fine"]
  /\ UNCHANGED <<owner, node, started, silent, manual, linkDown, joined, exit, sem, res,
                 txVars, rxVars>>
TaskRecover ==
  /\ task.at \in {"recover", "fine"} /\ task' = [task EXCEPT !.at = "loop"]
  /\ node' = IF task.at = "recover" /\ node = "busoff" THEN "recovering" ELSE node
  /\ UNCHANGED <<owner, started, silent, manual, linkDown, joined, exit, sem, res,
                 txVars, rxVars>>
TaskExit ==
  /\ task.at = "leave" /\ task' = [task EXCEPT !.at = "gone"] /\ sem' = TRUE
  /\ UNCHANGED <<owner, node, started, silent, manual, linkDown, joined, exit, res,
                 txVars, rxVars>>

\* BUS_IOCTL_BUS_ON, which only starts the recovery and then waits for it.
BusOn ==
  /\ Free /\ send.at = "none" /\ started /\ node = "busoff"
  /\ node' = "recovering"
  /\ UNCHANGED <<owner, started, silent, manual, linkDown, upVars, txVars, rxVars>>

-------------------------------------------------------------------------------
\* Receiving: the interrupt counts a frame, then places it or records its loss.

\* bus_rx_next() skips zero, which stands for no sequence.
\* Mutant: it does not.
NextSequenceWraps(n) == (n + 1) % SeqMod
NextSequence(n) == IF n + 1 = SeqMod THEN 1 ELSE n + 1
Awaited == {seen} \cup ({epoch.lost} \ {0}) \cup (IF send.check THEN {send.seen} ELSE {})
RxDone ==
  /\ node = "on" /\ isr = 0
  /\ started /\ send.at \in {"none", "admit"}  \* bound: it may still be at work later
  /\ \A n \in Awaited : (epoch.sequence - n) % SeqMod < Lag
  /\ IF manual THEN ~misled ELSE epoch.sequence = 0
  /\ epoch' = [epoch EXCEPT !.sequence = NextSequence(@)]
  /\ isr' = epoch'.sequence
  /\ UNCHANGED <<owner, node, started, silent, manual, linkDown, upVars, txVars, rxq, seen, misled>>

Later(a, b) == LET d == (a - b) % SeqMod IN d # 0 /\ d < SeqMod \div 2
RxPlace ==
  /\ isr # 0 /\ isr' = 0
  /\ IF Len(rxq) < RxQueueLen THEN rxq' = Append(rxq, isr) /\ UNCHANGED epoch
     ELSE /\ UNCHANGED rxq
          /\ epoch' = IF epoch.lost = 0 \/ Later(isr, epoch.lost)
                      THEN [epoch EXCEPT !.lost = isr] ELSE epoch
  /\ UNCHANGED <<owner, node, started, silent, manual, linkDown, upVars, txVars, seen, misled>>

See(n) == seen' = IF Later(n, seen) THEN n ELSE seen

\* can_ops_recv(), as the first of what it finds.  An empty queue is found
\* before the loss is taken.
RecvLinkDown ==
  /\ Free /\ linkDown /\ linkDown' = FALSE /\ See(0) /\ owner' = "idle"
  /\ misled' = (misled \/ Later(0, seen))
  /\ UNCHANGED <<node, started, silent, manual, upVars, txVars, isr, rxq, epoch>>
RecvFrame ==
  /\ Free /\ ~linkDown /\ started /\ rxq # <<>>
  /\ See(Head(rxq)) /\ rxq' = Tail(rxq) /\ owner' = "idle"
  /\ UNCHANGED <<node, started, silent, manual, linkDown, upVars, txVars, isr,
                 epoch, misled>>
RecvEmpty ==
  /\ Free /\ ~linkDown /\ (~started \/ rxq = <<>>)
  /\ owner' = "empty"
  /\ UNCHANGED <<node, started, silent, manual, linkDown, upVars, txVars, rxVars>>
RecvLoss ==
  /\ owner = "empty"
  /\ IF epoch.lost = 0 THEN owner' = "drained" /\ UNCHANGED <<seen, epoch>>
     ELSE owner' = "idle" /\ See(epoch.lost) /\ epoch' = [epoch EXCEPT !.lost = 0]
  /\ UNCHANGED <<node, started, silent, manual, linkDown, upVars, txVars, isr, rxq, misled>>

-------------------------------------------------------------------------------
CanOpenStep == (\E m \in BOOLEAN : OpenBuild(m)) \/ OpenTask \/ OpenEnable
CloseStep == TeardownBegin \/ StopTask \/ Release
SendStep ==
  \/ \E controlled, check, wait \in BOOLEAN : SendBegin(controlled, check, wait)
  \/ Admit \/ Fill \/ Transmit \/ AllDone \/ GivesUp \/ AbortBegin \/ Abort
TaskStep == TaskWake \/ TaskLook \/ TaskRecover \/ TaskExit
RecvStep == RecvLinkDown \/ RecvFrame \/ RecvEmpty \/ RecvLoss \/ BusOn
Controller == TxDone \/ BusOff \/ Recovered \/ RxDone \/ RxPlace
CanNext == CanOpenStep \/ CloseStep \/ SendStep \/ TaskStep \/ RecvStep \/ Controller
CanSpec == CanInit /\ [][CanNext]_canVars

\* The task runs, and a recovery that was asked for ends: the controller counts
\* the recessive bits of an idle bus by itself.
CanFairSpec == CanSpec /\ WF_canVars(TaskStep) /\ WF_canVars(Recovered)

Sequence == 0 .. SeqMod - 1
CanTypeOK ==
  /\ owner \in {"closed", "built", "tasked", "down", "idle", "drained", "empty",
                "sending", "stopping", "releasing", "retained"}
  /\ send.at \in {"none", "admit", "fill", "room", "done", "late", "abort"}
  /\ task.at \in {"loop", "woken", "recover", "fine", "leave", "gone"} /\ task.notes \in 0 .. 1
  /\ node \in {"none", "stopped", "on", "busoff", "recovering"}
  /\ Len(flight) <= TxQueueLen + 1 /\ slot \in Slots
  /\ {isr, epoch.sequence, epoch.lost, seen} \subseteq Sequence
  /\ Len(rxq) <= RxQueueLen

\* No send fills the slot of a frame the controller still holds, whatever was
\* refused, retried or given up before.
FramesIntact == send.at = "room" => \A i \in DOMAIN flight : flight[i] # slot

\* Neither the task nor the interrupt outlives what it uses.
NothingFreedInUse ==
  /\ task.at # "gone" => res /\ node # "none"
  /\ isr # 0 => res /\ node # "none"

\* What is shared by pointer stays with who uses it, also when a close gives up
\* waiting, fails half-way and is tried again.
MemoryIsOwned == CanTypeOK /\ FramesIntact /\ NothingFreedInUse

\* An owner that has drained the driver knows the newest reception, so that a
\* message it queues "unless something came" is not refused for ever; and such a
\* message goes out only with everything counted, placed or lost, seen.  A report of a bus-off carries
\* sequence zero and is compared like a reception: once half the sequences are
\* used up it sets the owner back.
Accounted == isr = 0 /\ rxq = <<>> /\ epoch.lost = 0
NothingUnseen ==
  /\ (started /\ Accounted) => misled \/ seen = epoch.sequence
  /\ (started /\ send.at = "admit" /\ send.check /\ ~Unseen) => Accounted

\* A send that was waited for and reported good went out.  Of one reported
\* aborted nothing goes out after the silencing, also when the controller, thrown
\* off the bus, refused to be disabled and comes back with its queue.
ReportIsTrue == (report = "sent" => out) /\ (report = "aborted" => out = raced)
\* Not so: the frame may have gone out between the second look and the silencing.
AbortedNeverWentOut == report = "aborted" => ~out
\* Both ways, and in whatever state a close left the driver (can_bus.c).
TrafficIsTrue == MemoryIsOwned /\ NothingUnseen /\ ReportIsTrue

\* A controller the bus threw off comes back by itself, unless its owner asked to
\* do that by hand, or closes: two edges that share one wake-up lose nothing.
BusComesBack == (node = "busoff" /\ ~manual) ~> (node # "busoff" \/ exit)
===============================================================================
