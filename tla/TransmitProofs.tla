--------------------------- MODULE TransmitProofs ---------------------------
(***************************************************************************)
(* Proofs about the two parts of transmission that every grammar uses: the *)
(* worker of a bus (BusTxWorker) and the segmentation of what is longer    *)
(* than a frame (IsoTp).  They share nothing; each has a part of this      *)
(* module.                                                                 *)
(***************************************************************************)
EXTENDS BusTxWorker, IsoTp, SequenceTheorems, TLAPS

-------------------------------------------------------------------------------
(***************************************************************************)
(* BusTxWorker: the worker answers truly whatever the order in which its   *)
(* two threads touch the words and semaphores they share, and it keeps     *)
(* TxPromise, which is all that VifClaims uses of it.                      *)
(***************************************************************************)

\* Where the task holds a message, and where it may have reached the wire.
Working == {"ask", "admit", "swap", "transmit", "sending", "ended"}
Admitted == {"admit", "transmit", "sending", "ended"}

\* TypeOK in three parts.
WordsTyped ==
  /\ state \in {"none", "idle", "pending", "done"}
  /\ stopping \in BOOLEAN
  /\ control \in [state: {"queued", "active", "cancelled"}, check_rx: BOOLEAN,
                  ended: BOOLEAN, newer: BOOLEAN]
  /\ reported \in BOOLEAN
  /\ result \in {"none", "ok", "failed", "cancelled", "rx_pending"}

SignalsTyped ==
  /\ wake \in BOOLEAN /\ done \in BOOLEAN /\ exited \in BOOLEAN
  /\ sent \in BOOLEAN /\ held \in BOOLEAN

ThreadsTyped ==
  task \in Work /\ at \in Calls /\ read \in {"none", "idle", "pending", "done"}

-------------------------------------------------------------------------------
(* The inductive invariant. *)

\* A worker is there from its creation to the close that joined its task, and
\* the task leaves only when told to.
WorkerLives ==
  /\ state = "none" =>
       /\ task = "gone" /\ at = "idle"
       /\ ~stopping /\ ~sent /\ ~held /\ ~exited /\ control.state = "queued"
  /\ state # "none" => (exited <=> task = "gone")
  /\ state # "none" /\ task \in {"exit", "gone"} => stopping
  /\ at \in {"closing", "stopped", "joining"} => stopping

\* What the owner last read is still so, except that a pending message may be
\* done by now; and nobody else collects or submits.
OwnerKnows ==
  /\ at \in {"polling", "cancelling", "waiting", "closing"} =>
       /\ read # "none"
       /\ read = "pending" => state \in {"pending", "done"}
       /\ read # "pending" => state = read
  /\ at = "submitted" => state \in {"pending", "done"} /\ ~stopping

\* A message the task is at is pending, and only one that was admitted is
\* active; a message held back is never admitted.
TaskKnows ==
  /\ task \in Working => state = "pending"
  /\ task \in {"transmit", "sending"} => control.state = "active"
  /\ state = "pending" /\ task \notin Admitted => control.state # "active"
  /\ state # "none" /\ held => control.check_rx /\ control.newer
  /\ task = "swap" => ~held
  /\ control.state = "active" => ~held
  /\ sent => control.state = "active"
  /\ task = "sending" => sent

\* The report is true from the moment it is written.
ReportStands ==
  task = "ended" \/ state = "done" =>
    /\ result # "none"
    /\ result = "ok" => sent /\ control.ended
    /\ result \in {"cancelled", "rx_pending"} => ~sent

WorkerInv ==
  /\ TypeOK
  /\ WorkerLives /\ OwnerKnows /\ TaskKnows /\ ReportStands
  /\ PendingIsServed /\ WaitIsAnswered

LEMMA InitWorker == Init => WorkerInv
<1> SUFFICES ASSUME Init PROVE WorkerInv
  OBVIOUS
<1> USE DEF Init, Quiet
<1>1. TypeOK
  BY DEF TypeOK, Work, Calls
<1>2. WorkerLives /\ OwnerKnows /\ TaskKnows
  BY DEF WorkerLives, OwnerKnows, TaskKnows, Working, Admitted
<1>3. ReportStands /\ PendingIsServed /\ WaitIsAnswered
  BY DEF ReportStands, PendingIsServed, WaitIsAnswered
<1>4. QED
  BY <1>1, <1>2, <1>3 DEF WorkerInv

-------------------------------------------------------------------------------
(* The owner's steps. *)

LEMMA CallsKeep == WorkerInv /\ OwnerCalls => WorkerInv'
<1> SUFFICES ASSUME WorkerInv, OwnerCalls PROVE WorkerInv'
  OBVIOUS
<1> USE DEF WorkerInv, Call, shared, signals, ghosts
<1>1. CASE Create
  <2> USE <1>1 DEF Create, Zeroed
  <2>0. control' \in [state: {"queued", "active", "cancelled"}, check_rx: BOOLEAN,
                     ended: BOOLEAN, newer: BOOLEAN]
    BY DEF TypeOK, Quiet
  <2>1. TypeOK'
    <3>1. WordsTyped'
      BY <2>0 DEF WordsTyped, TypeOK
    <3>2. SignalsTyped'
      BY <2>0 DEF SignalsTyped, TypeOK
    <3>3. ThreadsTyped'
      BY <2>0 DEF ThreadsTyped, TypeOK, Calls, Work
    <3>4. QED
      BY <3>1, <3>2, <3>3 DEF TypeOK, WordsTyped, SignalsTyped, ThreadsTyped
  <2>2. WorkerLives' /\ OwnerKnows'
    BY <2>0 DEF WorkerLives, OwnerKnows, TypeOK
  <2>3. TaskKnows'
    BY <2>0 DEF TaskKnows, Working, Admitted, WorkerLives, OwnerKnows, TypeOK
  <2>4. ReportStands'
    BY <2>0 DEF ReportStands, TaskKnows, Working, WorkerLives, OwnerKnows, TypeOK
  <2>5. PendingIsServed' /\ WaitIsAnswered'
    BY <2>0 DEF PendingIsServed, WaitIsAnswered, TaskKnows, Working, OwnerKnows, TypeOK
  <2>6. QED
    BY <2>1, <2>2, <2>3, <2>4, <2>5
<1>2. CASE CloseBegin
  <2> USE <1>2 DEF CloseBegin
  <2>1. TypeOK'
    <3>1. WordsTyped'
      BY DEF WordsTyped, TypeOK
    <3>2. SignalsTyped'
      BY DEF SignalsTyped, TypeOK
    <3>3. ThreadsTyped'
      BY DEF ThreadsTyped, TypeOK, Calls, Work
    <3>4. QED
      BY <3>1, <3>2, <3>3 DEF TypeOK, WordsTyped, SignalsTyped, ThreadsTyped
  <2>2. WorkerLives' /\ OwnerKnows'
    BY DEF WorkerLives, OwnerKnows, TypeOK
  <2>3. TaskKnows'
    BY DEF TaskKnows, Working, Admitted, WorkerLives, OwnerKnows, TypeOK
  <2>4. ReportStands'
    BY DEF ReportStands, TaskKnows, Working, WorkerLives, OwnerKnows, TypeOK
  <2>5. PendingIsServed' /\ WaitIsAnswered'
    BY DEF PendingIsServed, WaitIsAnswered, TaskKnows, Working, OwnerKnows, TypeOK
  <2>6. QED
    BY <2>1, <2>2, <2>3, <2>4, <2>5
<1>3. CASE \E check, newer \in BOOLEAN: Submit(check, newer)
  <2> USE <1>3 DEF Submit
  <2>0. /\ control' \in [state: {"queued", "active", "cancelled"}, check_rx: BOOLEAN,
                         ended: BOOLEAN, newer: BOOLEAN]
        /\ control'.state = "queued"
        /\ held' => control'.check_rx /\ control'.newer
    BY DEF TypeOK, Quiet
  <2>1. TypeOK'
    <3>1. WordsTyped'
      BY <2>0 DEF WordsTyped, TypeOK
    <3>2. SignalsTyped'
      BY <2>0 DEF SignalsTyped, TypeOK
    <3>3. ThreadsTyped'
      BY <2>0 DEF ThreadsTyped, TypeOK, Calls, Work
    <3>4. QED
      BY <3>1, <3>2, <3>3 DEF TypeOK, WordsTyped, SignalsTyped, ThreadsTyped
  <2>2. WorkerLives' /\ OwnerKnows'
    BY <2>0 DEF WorkerLives, OwnerKnows, TypeOK
  <2>3. TaskKnows'
    BY <2>0 DEF TaskKnows, Working, Admitted, WorkerLives, OwnerKnows, TypeOK
  <2>4. ReportStands'
    BY <2>0 DEF ReportStands, TaskKnows, Working, WorkerLives, OwnerKnows, TypeOK
  <2>5. PendingIsServed' /\ WaitIsAnswered'
    BY <2>0 DEF PendingIsServed, WaitIsAnswered, TaskKnows, Working, OwnerKnows, TypeOK
  <2>6. QED
    BY <2>1, <2>2, <2>3, <2>4, <2>5
<1>4. CASE \E place \in {"polling", "cancelling", "waiting"}: Look(place)
  <2> USE <1>4 DEF Look
  <2>1. TypeOK'
    <3>1. WordsTyped'
      BY DEF WordsTyped, TypeOK
    <3>2. SignalsTyped'
      BY DEF SignalsTyped, TypeOK
    <3>3. ThreadsTyped'
      BY DEF ThreadsTyped, TypeOK, Calls, Work
    <3>4. QED
      BY <3>1, <3>2, <3>3 DEF TypeOK, WordsTyped, SignalsTyped, ThreadsTyped
  <2>2. WorkerLives' /\ OwnerKnows'
    BY DEF WorkerLives, OwnerKnows, TypeOK
  <2>3. TaskKnows'
    BY DEF TaskKnows, Working, Admitted, WorkerLives, OwnerKnows, TypeOK
  <2>4. ReportStands'
    BY DEF ReportStands, TaskKnows, Working, WorkerLives, OwnerKnows, TypeOK
  <2>5. PendingIsServed' /\ WaitIsAnswered'
    BY DEF PendingIsServed, WaitIsAnswered, TaskKnows, Working, OwnerKnows, TypeOK
  <2>6. QED
    BY <2>1, <2>2, <2>3, <2>4, <2>5
<1>5. QED
  BY <1>1, <1>2, <1>3, <1>4 DEF OwnerCalls

LEMMA ReturnsKeep == WorkerInv /\ OwnerReturns => WorkerInv'
<1> SUFFICES ASSUME WorkerInv, OwnerReturns PROVE WorkerInv'
  OBVIOUS
<1> USE DEF WorkerInv, Call, shared, signals, ghosts
<1>1. CASE SubmitWake \/ CloseWake
  <2> USE <1>1 DEF SubmitWake, CloseWake
  <2>1. TypeOK'
    <3>1. WordsTyped'
      BY DEF WordsTyped, TypeOK
    <3>2. SignalsTyped'
      BY DEF SignalsTyped, TypeOK
    <3>3. ThreadsTyped'
      BY DEF ThreadsTyped, TypeOK, Calls, Work
    <3>4. QED
      BY <3>1, <3>2, <3>3 DEF TypeOK, WordsTyped, SignalsTyped, ThreadsTyped
  <2>2. WorkerLives' /\ OwnerKnows'
    BY DEF WorkerLives, OwnerKnows, TypeOK
  <2>3. TaskKnows'
    BY DEF TaskKnows, Working, Admitted, WorkerLives, OwnerKnows, TypeOK
  <2>4. ReportStands'
    BY DEF ReportStands, TaskKnows, Working, WorkerLives, OwnerKnows, TypeOK
  <2>5. PendingIsServed' /\ WaitIsAnswered'
    BY DEF PendingIsServed, WaitIsAnswered, TaskKnows, Working, OwnerKnows, TypeOK
  <2>6. QED
    BY <2>1, <2>2, <2>3, <2>4, <2>5
<1>2. CASE PollReport
  <2> USE <1>2 DEF PollReport
  <2>1. TypeOK'
    <3>1. WordsTyped'
      BY ZenonT(30) DEF WordsTyped, TypeOK
    <3>2. SignalsTyped'
      BY DEF SignalsTyped, TypeOK
    <3>3. ThreadsTyped'
      BY DEF ThreadsTyped, TypeOK, Calls, Work
    <3>4. QED
      BY <3>1, <3>2, <3>3 DEF TypeOK, WordsTyped, SignalsTyped, ThreadsTyped
  <2>2. WorkerLives' /\ OwnerKnows'
    BY DEF WorkerLives, OwnerKnows, TypeOK
  <2>3. TaskKnows'
    BY DEF TaskKnows, Working, Admitted, WorkerLives, OwnerKnows, TypeOK
  <2>4. ReportStands'
    BY DEF ReportStands, TaskKnows, Working, WorkerLives, OwnerKnows, TypeOK
  <2>5. PendingIsServed' /\ WaitIsAnswered'
    BY DEF PendingIsServed, WaitIsAnswered, TaskKnows, Working, OwnerKnows, TypeOK
  <2>6. QED
    BY <2>1, <2>2, <2>3, <2>4, <2>5
<1>3. CASE Cancel \/ CloseCancel
  <2> USE <1>3 DEF Cancel, CloseCancel, Cancelled
  <2>0. control' \in [state: {"queued", "active", "cancelled"}, check_rx: BOOLEAN,
                     ended: BOOLEAN, newer: BOOLEAN]
    BY DEF TypeOK, Quiet
  <2>1. TypeOK'
    <3>1. WordsTyped'
      BY <2>0 DEF WordsTyped, TypeOK
    <3>2. SignalsTyped'
      BY <2>0 DEF SignalsTyped, TypeOK
    <3>3. ThreadsTyped'
      BY <2>0 DEF ThreadsTyped, TypeOK, Calls, Work
    <3>4. QED
      BY <3>1, <3>2, <3>3 DEF TypeOK, WordsTyped, SignalsTyped, ThreadsTyped
  <2>2. WorkerLives' /\ OwnerKnows'
    BY <2>0 DEF WorkerLives, OwnerKnows, TypeOK
  <2>3. TaskKnows'
    BY <2>0 DEF TaskKnows, Working, Admitted, WorkerLives, OwnerKnows, TypeOK
  <2>4. ReportStands'
    BY <2>0 DEF ReportStands, TaskKnows, Working, WorkerLives, OwnerKnows, TypeOK
  <2>5. PendingIsServed' /\ WaitIsAnswered'
    BY <2>0 DEF PendingIsServed, WaitIsAnswered, TaskKnows, Working, OwnerKnows, TypeOK
  <2>6. QED
    BY <2>1, <2>2, <2>3, <2>4, <2>5
<1>4. CASE WaitReturn \/ WaitTake \/ WaitTimeout
  <2> USE <1>4 DEF WaitReturn, WaitTake, WaitTimeout
  <2>1. TypeOK'
    <3>1. WordsTyped'
      BY DEF WordsTyped, TypeOK
    <3>2. SignalsTyped'
      BY DEF SignalsTyped, TypeOK
    <3>3. ThreadsTyped'
      BY DEF ThreadsTyped, TypeOK, Calls, Work
    <3>4. QED
      BY <3>1, <3>2, <3>3 DEF TypeOK, WordsTyped, SignalsTyped, ThreadsTyped
  <2>2. WorkerLives' /\ OwnerKnows'
    BY DEF WorkerLives, OwnerKnows, TypeOK
  <2>3. TaskKnows'
    BY DEF TaskKnows, Working, Admitted, WorkerLives, OwnerKnows, TypeOK
  <2>4. ReportStands'
    BY DEF ReportStands, TaskKnows, Working, WorkerLives, OwnerKnows, TypeOK
  <2>5. PendingIsServed' /\ WaitIsAnswered'
    BY DEF PendingIsServed, WaitIsAnswered, TaskKnows, Working, OwnerKnows, TypeOK
  <2>6. QED
    BY <2>1, <2>2, <2>3, <2>4, <2>5
<1>5. CASE CloseJoined
  <2> USE <1>5 DEF CloseJoined, Zeroed
  <2>0. control' \in [state: {"queued", "active", "cancelled"}, check_rx: BOOLEAN,
                     ended: BOOLEAN, newer: BOOLEAN]
    BY DEF TypeOK, Quiet
  <2>1. TypeOK'
    <3>1. WordsTyped'
      BY <2>0 DEF WordsTyped, TypeOK
    <3>2. SignalsTyped'
      BY <2>0 DEF SignalsTyped, TypeOK
    <3>3. ThreadsTyped'
      BY <2>0 DEF ThreadsTyped, TypeOK, Calls, Work
    <3>4. QED
      BY <3>1, <3>2, <3>3 DEF TypeOK, WordsTyped, SignalsTyped, ThreadsTyped
  <2>2. WorkerLives' /\ OwnerKnows'
    <3>1. WorkerLives'
      BY <2>0 DEF WorkerLives, Quiet
    <3>2. OwnerKnows'
      BY DEF OwnerKnows
    <3>3. QED
      BY <3>1, <3>2
  <2>3. TaskKnows'
    BY <2>0 DEF TaskKnows, Working, Admitted, WorkerLives, OwnerKnows, TypeOK
  <2>4. ReportStands'
    BY <2>0 DEF ReportStands, TaskKnows, Working, WorkerLives, OwnerKnows, TypeOK
  <2>5. PendingIsServed' /\ WaitIsAnswered'
    BY <2>0 DEF PendingIsServed, WaitIsAnswered, TaskKnows, Working, OwnerKnows, TypeOK
  <2>6. QED
    BY <2>1, <2>2, <2>3, <2>4, <2>5
<1>6. CASE CloseTimeout
  <2> USE <1>6 DEF CloseTimeout
  <2>1. TypeOK'
    <3>1. WordsTyped'
      BY DEF WordsTyped, TypeOK
    <3>2. SignalsTyped'
      BY DEF SignalsTyped, TypeOK
    <3>3. ThreadsTyped'
      BY DEF ThreadsTyped, TypeOK, Calls, Work
    <3>4. QED
      BY <3>1, <3>2, <3>3 DEF TypeOK, WordsTyped, SignalsTyped, ThreadsTyped
  <2>2. WorkerLives' /\ OwnerKnows'
    BY DEF WorkerLives, OwnerKnows, TypeOK
  <2>3. TaskKnows'
    BY DEF TaskKnows, Working, Admitted, WorkerLives, OwnerKnows, TypeOK
  <2>4. ReportStands'
    BY DEF ReportStands, TaskKnows, Working, WorkerLives, OwnerKnows, TypeOK
  <2>5. PendingIsServed' /\ WaitIsAnswered'
    BY DEF PendingIsServed, WaitIsAnswered, TaskKnows, Working, OwnerKnows, TypeOK
  <2>6. QED
    BY <2>1, <2>2, <2>3, <2>4, <2>5
<1>7. QED
  BY <1>1, <1>2, <1>3, <1>4, <1>5, <1>6 DEF OwnerReturns

-------------------------------------------------------------------------------
(* The task's steps, and the driver's receive side. *)

LEMMA TaskKeeps == WorkerInv /\ TaskStep => WorkerInv'
<1> SUFFICES ASSUME WorkerInv, TaskStep PROVE WorkerInv'
  OBVIOUS
<1> USE DEF WorkerInv, Step, shared, signals, ghosts
<1>1. CASE Take \/ LookState
  <2> USE <1>1 DEF Take, LookState
  <2>1. TypeOK'
    <3>1. WordsTyped'
      BY DEF WordsTyped, TypeOK
    <3>2. SignalsTyped'
      BY DEF SignalsTyped, TypeOK
    <3>3. ThreadsTyped'
      BY DEF ThreadsTyped, TypeOK, Calls, Work
    <3>4. QED
      BY <3>1, <3>2, <3>3 DEF TypeOK, WordsTyped, SignalsTyped, ThreadsTyped
  <2>2. WorkerLives' /\ OwnerKnows'
    BY DEF WorkerLives, OwnerKnows, TypeOK
  <2>3. TaskKnows'
    BY DEF TaskKnows, Working, Admitted, WorkerLives, OwnerKnows, TypeOK
  <2>4. ReportStands'
    BY DEF ReportStands, TaskKnows, Working, WorkerLives, OwnerKnows, TypeOK
  <2>5. PendingIsServed' /\ WaitIsAnswered'
    BY DEF PendingIsServed, WaitIsAnswered, TaskKnows, Working, OwnerKnows, TypeOK
  <2>6. QED
    BY <2>1, <2>2, <2>3, <2>4, <2>5
<1>2. CASE AskCancelled
  <2> USE <1>2 DEF AskCancelled
  <2>1. TypeOK'
    <3>1. WordsTyped'
      BY DEF WordsTyped, TypeOK
    <3>2. SignalsTyped'
      BY DEF SignalsTyped, TypeOK
    <3>3. ThreadsTyped'
      BY DEF ThreadsTyped, TypeOK, Calls, Work
    <3>4. QED
      BY <3>1, <3>2, <3>3 DEF TypeOK, WordsTyped, SignalsTyped, ThreadsTyped
  <2>2. WorkerLives' /\ OwnerKnows'
    BY DEF WorkerLives, OwnerKnows, TypeOK
  <2>3. TaskKnows'
    BY DEF TaskKnows, Working, Admitted, WorkerLives, OwnerKnows, TypeOK
  <2>4. ReportStands'
    BY DEF ReportStands, TaskKnows, Working, WorkerLives, OwnerKnows, TypeOK
  <2>5. PendingIsServed' /\ WaitIsAnswered'
    BY DEF PendingIsServed, WaitIsAnswered, TaskKnows, Working, OwnerKnows, TypeOK
  <2>6. QED
    BY <2>1, <2>2, <2>3, <2>4, <2>5
<1>3. CASE Admit
  <2> USE <1>3 DEF Admit
  <2>1. TypeOK'
    <3>1. WordsTyped'
      BY DEF WordsTyped, TypeOK
    <3>2. SignalsTyped'
      BY DEF SignalsTyped, TypeOK
    <3>3. ThreadsTyped'
      BY DEF ThreadsTyped, TypeOK, Calls, Work
    <3>4. QED
      BY <3>1, <3>2, <3>3 DEF TypeOK, WordsTyped, SignalsTyped, ThreadsTyped
  <2>2. WorkerLives' /\ OwnerKnows'
    BY DEF WorkerLives, OwnerKnows, TypeOK
  <2>3. TaskKnows'
    BY DEF TaskKnows, Working, Admitted, WorkerLives, OwnerKnows, TypeOK
  <2>4. ReportStands'
    BY DEF ReportStands, TaskKnows, Working, WorkerLives, OwnerKnows, TypeOK
  <2>5. PendingIsServed' /\ WaitIsAnswered'
    BY DEF PendingIsServed, WaitIsAnswered, TaskKnows, Working, OwnerKnows, TypeOK
  <2>6. QED
    BY <2>1, <2>2, <2>3, <2>4, <2>5
<1>4. CASE AdmitSwap
  <2> USE <1>4 DEF AdmitSwap
  <2>0. control' \in [state: {"queued", "active", "cancelled"}, check_rx: BOOLEAN,
                     ended: BOOLEAN, newer: BOOLEAN]
    BY DEF TypeOK, Quiet
  <2>1. TypeOK'
    <3>1. WordsTyped'
      BY <2>0 DEF WordsTyped, TypeOK
    <3>2. SignalsTyped'
      BY <2>0 DEF SignalsTyped, TypeOK
    <3>3. ThreadsTyped'
      BY <2>0 DEF ThreadsTyped, TypeOK, Calls, Work
    <3>4. QED
      BY <3>1, <3>2, <3>3 DEF TypeOK, WordsTyped, SignalsTyped, ThreadsTyped
  <2>2. WorkerLives' /\ OwnerKnows'
    BY <2>0 DEF WorkerLives, OwnerKnows, TypeOK
  <2>3. TaskKnows'
    BY <2>0 DEF TaskKnows, Working, Admitted, WorkerLives, OwnerKnows, TypeOK
  <2>4. ReportStands'
    <3>1. state = "pending" /\ state' = "pending"
      BY DEF TaskKnows, Working
    <3>2. CASE control.state = "queued"
      BY <3>1, <3>2 DEF ReportStands
    <3>3. CASE control.state # "queued"
      BY <3>1, <3>3 DEF ReportStands, TaskKnows, Working, Admitted
    <3>4. QED
      BY <3>2, <3>3
  <2>5. PendingIsServed' /\ WaitIsAnswered'
    BY <2>0 DEF PendingIsServed, WaitIsAnswered, TaskKnows, Working, OwnerKnows, TypeOK
  <2>6. QED
    BY <2>1, <2>2, <2>3, <2>4, <2>5
<1>5. CASE Transmit
  <2> USE <1>5 DEF Transmit
  <2>1. TypeOK'
    <3>1. WordsTyped'
      BY DEF WordsTyped, TypeOK
    <3>2. SignalsTyped'
      BY DEF SignalsTyped, TypeOK
    <3>3. ThreadsTyped'
      BY DEF ThreadsTyped, TypeOK, Calls, Work
    <3>4. QED
      BY <3>1, <3>2, <3>3 DEF TypeOK, WordsTyped, SignalsTyped, ThreadsTyped
  <2>2. WorkerLives' /\ OwnerKnows'
    BY DEF WorkerLives, OwnerKnows, TypeOK
  <2>3. TaskKnows'
    BY DEF TaskKnows, Working, Admitted, WorkerLives, OwnerKnows, TypeOK
  <2>4. ReportStands'
    BY DEF ReportStands, TaskKnows, Working, WorkerLives, OwnerKnows, TypeOK
  <2>5. PendingIsServed' /\ WaitIsAnswered'
    BY DEF PendingIsServed, WaitIsAnswered, TaskKnows, Working, OwnerKnows, TypeOK
  <2>6. QED
    BY <2>1, <2>2, <2>3, <2>4, <2>5
<1>6. CASE Sending
  <2> USE <1>6 DEF Sending
  <2>0. control' \in [state: {"queued", "active", "cancelled"}, check_rx: BOOLEAN,
                     ended: BOOLEAN, newer: BOOLEAN]
    BY DEF TypeOK, Quiet
  <2>1. TypeOK'
    <3>1. WordsTyped'
      BY <2>0 DEF WordsTyped, TypeOK
    <3>2. SignalsTyped'
      BY <2>0 DEF SignalsTyped, TypeOK
    <3>3. ThreadsTyped'
      BY <2>0 DEF ThreadsTyped, TypeOK, Calls, Work
    <3>4. QED
      BY <3>1, <3>2, <3>3 DEF TypeOK, WordsTyped, SignalsTyped, ThreadsTyped
  <2>2. WorkerLives' /\ OwnerKnows'
    BY <2>0 DEF WorkerLives, OwnerKnows, TypeOK
  <2>3. TaskKnows'
    BY <2>0 DEF TaskKnows, Working, Admitted, WorkerLives, OwnerKnows, TypeOK
  <2>4. ReportStands'
    BY <2>0 DEF ReportStands, TaskKnows, Working, WorkerLives, OwnerKnows, TypeOK
  <2>5. PendingIsServed' /\ WaitIsAnswered'
    BY <2>0 DEF PendingIsServed, WaitIsAnswered, TaskKnows, Working, OwnerKnows, TypeOK
  <2>6. QED
    BY <2>1, <2>2, <2>3, <2>4, <2>5
<1>7. CASE StoreDone \/ GiveDone
  <2> USE <1>7 DEF StoreDone, GiveDone
  <2>1. TypeOK'
    <3>1. WordsTyped'
      BY DEF WordsTyped, TypeOK
    <3>2. SignalsTyped'
      BY DEF SignalsTyped, TypeOK
    <3>3. ThreadsTyped'
      BY DEF ThreadsTyped, TypeOK, Calls, Work
    <3>4. QED
      BY <3>1, <3>2, <3>3 DEF TypeOK, WordsTyped, SignalsTyped, ThreadsTyped
  <2>2. WorkerLives' /\ OwnerKnows'
    <3>1. WorkerLives'
      BY DEF WorkerLives, TypeOK
    <3>2. OwnerKnows'
      BY DEF OwnerKnows, TaskKnows, Working
    <3>3. QED
      BY <3>1, <3>2
  <2>3. TaskKnows'
    BY DEF TaskKnows, Working, Admitted, WorkerLives, OwnerKnows, TypeOK
  <2>4. ReportStands'
    BY DEF ReportStands, TaskKnows, Working, WorkerLives, OwnerKnows, TypeOK
  <2>5. PendingIsServed' /\ WaitIsAnswered'
    BY DEF PendingIsServed, WaitIsAnswered, TaskKnows, Working, OwnerKnows, TypeOK
  <2>6. QED
    BY <2>1, <2>2, <2>3, <2>4, <2>5
<1>8. CASE Loop
  <2> USE <1>8 DEF Loop
  <2>1. TypeOK'
    <3>1. WordsTyped'
      BY DEF WordsTyped, TypeOK
    <3>2. SignalsTyped'
      BY DEF SignalsTyped, TypeOK
    <3>3. ThreadsTyped'
      BY DEF ThreadsTyped, TypeOK, Calls, Work
    <3>4. QED
      BY <3>1, <3>2, <3>3 DEF TypeOK, WordsTyped, SignalsTyped, ThreadsTyped
  <2>2. WorkerLives' /\ OwnerKnows'
    BY DEF WorkerLives, OwnerKnows, TypeOK
  <2>3. TaskKnows'
    BY DEF TaskKnows, Working, Admitted, WorkerLives, OwnerKnows, TypeOK
  <2>4. ReportStands'
    BY DEF ReportStands, TaskKnows, Working, WorkerLives, OwnerKnows, TypeOK
  <2>5. PendingIsServed' /\ WaitIsAnswered'
    BY DEF PendingIsServed, WaitIsAnswered, TaskKnows, Working, OwnerKnows, TypeOK
  <2>6. QED
    BY <2>1, <2>2, <2>3, <2>4, <2>5
<1>9. CASE Exit
  <2> USE <1>9 DEF Exit
  <2>1. TypeOK'
    <3>1. WordsTyped'
      BY DEF WordsTyped, TypeOK
    <3>2. SignalsTyped'
      BY DEF SignalsTyped, TypeOK
    <3>3. ThreadsTyped'
      BY DEF ThreadsTyped, TypeOK, Calls, Work
    <3>4. QED
      BY <3>1, <3>2, <3>3 DEF TypeOK, WordsTyped, SignalsTyped, ThreadsTyped
  <2>2. WorkerLives' /\ OwnerKnows'
    BY DEF WorkerLives, OwnerKnows, TypeOK
  <2>3. TaskKnows'
    BY DEF TaskKnows, Working, Admitted, WorkerLives, OwnerKnows, TypeOK
  <2>4. ReportStands'
    BY DEF ReportStands, TaskKnows, Working, WorkerLives, OwnerKnows, TypeOK
  <2>5. PendingIsServed' /\ WaitIsAnswered'
    BY DEF PendingIsServed, WaitIsAnswered, TaskKnows, Working, OwnerKnows, TypeOK
  <2>6. QED
    BY <2>1, <2>2, <2>3, <2>4, <2>5
<1>10. QED
  BY <1>1, <1>2, <1>3, <1>4, <1>5, <1>6, <1>7, <1>8, <1>9 DEF TaskStep

LEMMA ReceiveKeeps == WorkerInv /\ Receive => WorkerInv'
<1> SUFFICES ASSUME WorkerInv, Receive PROVE WorkerInv'
  OBVIOUS
<1> USE DEF WorkerInv, shared, signals, ghosts
<1>1. CASE Receive
  <2> USE <1>1 DEF Receive
  <2>0. control' \in [state: {"queued", "active", "cancelled"}, check_rx: BOOLEAN,
                     ended: BOOLEAN, newer: BOOLEAN]
    BY DEF TypeOK, Quiet
  <2>1. TypeOK'
    <3>1. WordsTyped'
      BY <2>0 DEF WordsTyped, TypeOK
    <3>2. SignalsTyped'
      BY <2>0 DEF SignalsTyped, TypeOK
    <3>3. ThreadsTyped'
      BY <2>0 DEF ThreadsTyped, TypeOK, Calls, Work
    <3>4. QED
      BY <3>1, <3>2, <3>3 DEF TypeOK, WordsTyped, SignalsTyped, ThreadsTyped
  <2>2. WorkerLives' /\ OwnerKnows'
    BY <2>0 DEF WorkerLives, OwnerKnows, TypeOK
  <2>3. TaskKnows'
    BY <2>0 DEF TaskKnows, Working, Admitted, WorkerLives, OwnerKnows, TypeOK
  <2>4. ReportStands'
    BY <2>0 DEF ReportStands, TaskKnows, Working, WorkerLives, OwnerKnows, TypeOK
  <2>5. PendingIsServed' /\ WaitIsAnswered'
    BY <2>0 DEF PendingIsServed, WaitIsAnswered, TaskKnows, Working, OwnerKnows, TypeOK
  <2>6. QED
    BY <2>1, <2>2, <2>3, <2>4, <2>5
<1>2. QED
  BY <1>1

LEMMA WorkerKeeps == Spec => []WorkerInv
<1>1. WorkerInv /\ [Next]_vars => WorkerInv'
  <2> SUFFICES ASSUME WorkerInv, [Next]_vars PROVE WorkerInv'
    OBVIOUS
  <2>1. CASE Next
    BY <2>1, CallsKeep, ReturnsKeep, TaskKeeps, ReceiveKeeps DEF Next
  <2>2. CASE UNCHANGED vars
    BY <2>2 DEF vars, WorkerInv, TypeOK, WorkerLives, OwnerKnows, TaskKnows,
                ReportStands, PendingIsServed, WaitIsAnswered
  <2>3. QED
    BY <2>1, <2>2
<1>2. QED
  BY <1>1, InitWorker, PTL DEF Spec

\* Whoever submits a message is answered, and truly: it is never forgotten, a
\* caller waiting for it is woken, and what the report says is what happened on
\* the wire (bus_tx_worker.c, bus_tx.c).
THEOREM AnswersTheorem == Spec => []AnswersAreTrue
<1>1. WorkerInv => AnswersAreTrue
  BY DEF WorkerInv, AnswersAreTrue, ReportIsTrue, ReportStands, TaskKnows
<1>2. QED
  BY <1>1, WorkerKeeps, PTL

-------------------------------------------------------------------------------
(* The refinement: what the owner of a bus can tell of each step. *)

\* Nobody can tell a step that leaves the worker's life, its orders and the
\* fate of the message alone.
LEMMA Unseen ==
  ASSUME UNCHANGED <<state, stopping, sent, held>>,
         task' = "gone" <=> task = "gone",
         control'.state = "cancelled" <=> control.state = "cancelled"
  PROVE  UNCHANGED Promise!promise
BY DEF Promise!promise

LEMMA CallsPromise == WorkerInv /\ OwnerCalls => [Promise!PromiseNext]_Promise!promise
<1> SUFFICES ASSUME WorkerInv, OwnerCalls
             PROVE  [Promise!PromiseNext]_Promise!promise
  OBVIOUS
<1> USE DEF WorkerInv, WorkerLives, Call, Quiet, shared, signals, ghosts
<1>1. CASE Create
  <2>1. Promise!Hire
    BY <1>1 DEF Create, Zeroed, Promise!Hire
  <2>2. QED
    BY <2>1 DEF Promise!PromiseNext
<1>2. CASE CloseBegin
  <2>1. Promise!Stop
    BY <1>2 DEF CloseBegin, Promise!Stop
  <2>2. QED
    BY <2>1 DEF Promise!PromiseNext
<1>3. ASSUME NEW check \in BOOLEAN, NEW newer \in BOOLEAN, Submit(check, newer)
      PROVE  [Promise!PromiseNext]_Promise!promise
  <2>1. task # "gone" /\ task' = task
    BY <1>3 DEF Submit
  <2>2. control'.state = "queued" /\ held' \in BOOLEAN
    BY <1>3 DEF Submit
  <2>3. Promise!Accept
    BY <1>3, <2>1, <2>2 DEF Submit, Promise!Accept
  <2>4. QED
    BY <2>3 DEF Promise!PromiseNext
<1>4. ASSUME NEW place \in {"polling", "cancelling", "waiting"}, Look(place)
      PROVE  [Promise!PromiseNext]_Promise!promise
  BY <1>4, Unseen DEF Look
<1>5. QED
  BY <1>1, <1>2, <1>3, <1>4 DEF OwnerCalls

LEMMA ReturnsPromise ==
  WorkerInv /\ OwnerReturns => [Promise!PromiseNext]_Promise!promise
<1> SUFFICES ASSUME WorkerInv, OwnerReturns
             PROVE  [Promise!PromiseNext]_Promise!promise
  OBVIOUS
<1> USE DEF WorkerInv, Call, shared, signals, ghosts
<1>1. CASE SubmitWake \/ CloseWake \/ WaitReturn \/ WaitTake \/ WaitTimeout
           \/ CloseTimeout
  BY <1>1, Unseen
  DEF SubmitWake, CloseWake, WaitReturn, WaitTake, WaitTimeout, CloseTimeout
<1>2. CASE PollReport
  <2>1. CASE UNCHANGED state
    BY <1>2, <2>1, Unseen DEF PollReport
  <2>2. CASE state' # state /\ task = "gone"
    \* A message collected from a worker whose task has gone: nobody can tell.
    BY <1>2, <2>2 DEF PollReport, OwnerKnows, Promise!promise
  <2>3. CASE state' # state /\ task # "gone"
    <3>1. Promise!Collect
      BY <1>2, <2>3 DEF PollReport, OwnerKnows, Promise!Collect
    <3>2. QED
      BY <3>1 DEF Promise!PromiseNext
  <2>4. QED
    BY <2>1, <2>2, <2>3
<1>3. CASE Cancel \/ CloseCancel
  <2>1. /\ UNCHANGED <<state, stopping, task, sent, held>>
        /\ control' = control \/ control' = Cancelled
    BY <1>3 DEF Cancel, CloseCancel
  <2>2. CASE control'.state = control.state
    BY <2>1, <2>2, Unseen
  <2>3. CASE control'.state # control.state
    <3>1. control.state = "queued" /\ control'.state = "cancelled"
      BY <2>1, <2>3 DEF Cancelled, TypeOK
    <3>2. ~sent
      BY <3>1 DEF TaskKnows
    <3>3. Promise!Revoke
      BY <2>1, <3>1, <3>2 DEF Promise!Revoke
    <3>4. QED
      BY <3>3 DEF Promise!PromiseNext
  <2>4. QED
    BY <2>2, <2>3
<1>4. CASE CloseJoined
  <2>1. Promise!Dismiss
    BY <1>4 DEF CloseJoined, Zeroed, Quiet, WorkerLives, Promise!Dismiss
  <2>2. QED
    BY <2>1 DEF Promise!PromiseNext
<1>5. QED
  BY <1>1, <1>2, <1>3, <1>4 DEF OwnerReturns

LEMMA TaskPromise == WorkerInv /\ TaskStep => [Promise!PromiseNext]_Promise!promise
<1> SUFFICES ASSUME WorkerInv, TaskStep
             PROVE  [Promise!PromiseNext]_Promise!promise
  OBVIOUS
<1> USE DEF WorkerInv, Step, shared, signals, ghosts
<1>1. CASE Take \/ LookState \/ AskCancelled \/ Admit \/ GiveDone \/ Loop
  BY <1>1, Unseen DEF Take, LookState, AskCancelled, Admit, GiveDone, Loop
<1>2. CASE AdmitSwap \/ Sending
  <2>1. control'.state = "cancelled" <=> control.state = "cancelled"
    BY <1>2 DEF AdmitSwap, Sending, TypeOK
  <2>2. QED
    BY <1>2, <2>1, Unseen DEF AdmitSwap, Sending
<1>3. CASE Transmit
  <2>1. state = "pending" /\ control.state = "active" /\ ~held
    BY <1>3 DEF Transmit, TaskKnows, Working
  <2>2. CASE sent' = sent
    BY <1>3, <2>2, Unseen DEF Transmit
  <2>3. CASE sent' # sent
    <3>1. Promise!Send
      BY <1>3, <2>1, <2>3 DEF Transmit, TypeOK, Promise!Send
    <3>2. QED
      BY <3>1 DEF Promise!PromiseNext
  <2>4. QED
    BY <2>2, <2>3
<1>4. CASE StoreDone
  <2>1. Promise!Finish
    BY <1>4 DEF StoreDone, TaskKnows, Working, Promise!Finish
  <2>2. QED
    BY <2>1 DEF Promise!PromiseNext
<1>5. CASE Exit
  <2>1. state \in {"idle", "pending", "done"} /\ stopping
    BY <1>5 DEF Exit, TypeOK, WorkerLives
  <2>2. Promise!Leave
    BY <1>5, <2>1 DEF Exit, Promise!Leave
  <2>3. QED
    BY <2>2 DEF Promise!PromiseNext
<1>6. QED
  BY <1>1, <1>2, <1>3, <1>4, <1>5 DEF TaskStep

LEMMA ReceivePromise ==
  WorkerInv /\ Receive => [Promise!PromiseNext]_Promise!promise
<1> SUFFICES ASSUME WorkerInv, Receive PROVE UNCHANGED Promise!promise
  OBVIOUS
<1>1. control'.state = control.state
  BY DEF Receive, WorkerInv, TypeOK
<1>2. QED
  BY <1>1, Unseen DEF Receive, ghosts

\* The worker is what VifClaims reckons with: one message at a time, on the
\* wire only between its acceptance and its completion, never once it has been
\* revoked and never past an answer it was to wait for (bus_tx_admit() against
\* bus_tx_cancel(), and the order of bus_tx_worker_submit()).
THEOREM PromiseTheorem == Spec => PromiseSpec
<1>1. Init => Promise!PromiseInit
  BY DEF Init, Quiet, Promise!PromiseInit
<1>2. WorkerInv /\ [Next]_vars => [Promise!PromiseNext]_Promise!promise
  <2> SUFFICES ASSUME WorkerInv, [Next]_vars
               PROVE  [Promise!PromiseNext]_Promise!promise
    OBVIOUS
  <2>1. CASE Next
    BY <2>1, CallsPromise, ReturnsPromise, TaskPromise, ReceivePromise DEF Next
  <2>2. CASE UNCHANGED vars
    BY <2>2, Unseen DEF vars
  <2>3. QED
    BY <2>1, <2>2
<1>3. QED
  BY <1>1, <1>2, WorkerKeeps, PTL DEF Spec, PromiseSpec, Promise!PromiseSpec

-------------------------------------------------------------------------------
(***************************************************************************)
(* IsoTp, for any clock, sequence number, time-outs, block size, buffer and *)
(* message sizes, and any number of messages.                              *)
(*                                                                         *)
(* What a frame carries is a unit <<m, i>>: the i-th part of message m.    *)
(* Everything sent is in the order of Before, nothing is sent twice, and   *)
(* while no flow control has crossed to another message the receiver takes *)
(* consecutive frames of one message only.                                 *)
(***************************************************************************)

Before(u, v) == u[1] < v[1] \/ (u[1] = v[1] /\ u[2] < v[2])

UnitType == (Nat \ {0}) \X (Nat \ {0})

FrameType ==
  [kind : {"single", "first"}, size : Nat, data : UnitType]
    \cup [kind : {"next"}, seq : 0 .. SnMod - 1, data : UnitType]

FlowType ==
  [kind : {"flow"}, fs : {"cts", "wait", "overflow"}, bs : {BlockSize},
   st : StMins \cup {0}, of : Nat]

TxType ==
  [state : {"idle", "ready", "confirm", "fc", "cf"}, deadline : Time, next : Time,
   lastCf : Time, sep : Nat, total : Nat, offset : Nat, waits : Nat,
   seq : 0 .. SnMod - 1, bs : Nat, block : Nat, sentCf : BOOLEAN,
   pendingCf : BOOLEAN, reserved : BOOLEAN]

RxType ==
  [state : {"idle", "fc", "confirm", "cf"}, deadline : Time, total : Nat,
   got : Seq(UnitType), seq : 0 .. SnMod - 1, block : Nat,
   status : {"cts", "overflow"}]

\* A frame is in the sender's worker, and not yet on the wire or reported.
Carries == txOut \notin {None, Sent}

\* The message the receiver is at, or was at last.
Gathering(m) == rx.got # <<>> /\ rx.got[1][1] = m

-------------------------------------------------------------------------------
(* The inductive invariant. *)

Typed ==
  /\ now \in Time /\ tx \in TxType /\ rx \in RxType
  /\ message \in Seq(Sizes) /\ Len(message) <= MaxMessages
  /\ fwd \in Seq(FrameType) /\ txOut \in FrameType \cup {None, Sent}
  /\ back \in Seq(FlowType) /\ fcOut \in FlowType \cup {None, Sent}
  /\ crossed \in BOOLEAN

\* u is a part of a message, and has been sent.
SentUnit(u) ==
  /\ u[1] <= Len(message) /\ u[2] <= message[u[1]]
  /\ u[1] = Len(message) => u[2] <= tx.offset

\* A frame is the first of its message, and says its size, or one of the next.
FrameIsTrue(f) ==
  /\ SentUnit(f.data)
  /\ IF f.data[2] = 1
       THEN /\ f.kind = IF message[f.data[1]] = 1 THEN "single" ELSE "first"
            /\ f.size = message[f.data[1]]
       ELSE f.kind = "next"

\* A receiver clears its sender to send what it has the first part of.
FlowIsTrue(f) ==
  f.fs = "cts" =>
    /\ f.st \in StMins
    /\ f.of \in 1 .. Len(message)
    /\ f.of = Len(message) => Gathering(f.of)

\* The sender's place in its message.
TxStands ==
  /\ tx.total = IF message = <<>> THEN 0 ELSE message[Len(message)]
  /\ message = <<>> => tx.state = "idle"
  /\ tx.offset <= tx.total
  /\ tx.state = "ready" => tx.offset = 0
  /\ tx.state = "confirm" => tx.offset # 0
  /\ tx.state \in {"fc", "cf"} => tx.offset \in 1 .. tx.total - 1
  /\ tx.waits <= WaitLimit + 1
  /\ tx.state # "idle" => tx.waits <= WaitLimit

\* The receiver's.
RxStands ==
  /\ Len(rx.got) <= rx.total
  /\ rx.state = "cf" => rx.status = "cts"
  /\ rx.state # "idle" =>
       IF rx.status = "cts" THEN rx.got # <<>> /\ Len(rx.got) < rx.total
                            ELSE rx.got = <<>>

\* What is on its way is what was sent, in that order ...
StreamIsTrue ==
  /\ \A a \in DOMAIN fwd : FrameIsTrue(fwd[a])
  /\ Carries => FrameIsTrue(txOut)
  /\ \A a, b \in DOMAIN fwd : a < b => Before(fwd[a].data, fwd[b].data)
  /\ Carries => \A a \in DOMAIN fwd : Before(fwd[a].data, txOut.data)

\* ... and comes after what has been taken.
GotIsOlder ==
  \A k \in DOMAIN rx.got :
    /\ SentUnit(rx.got[k])
    /\ \A a \in DOMAIN fwd : Before(rx.got[k], fwd[a].data)
    /\ Carries => Before(rx.got[k], txOut.data)

FlowsAreTrue ==
  /\ \A a \in DOMAIN back : FlowIsTrue(back[a])
  /\ fcOut \notin {None, Sent} => FlowIsTrue(fcOut)

\* Nothing but a message's first part is sent before the receiver has it.
PartsAreAsked ==
  /\ tx.state = "cf" \/ (tx.state = "confirm" /\ tx.pendingCf) =>
       Gathering(Len(message))
  /\ \A a \in DOMAIN fwd : fwd[a].data[2] # 1 => Gathering(fwd[a].data[1])
  /\ Carries /\ txOut.data[2] # 1 => Gathering(txOut.data[1])

\* What has been gathered is parts of one message, from its first on; none is
\* there twice, so that there are as many only if they are all.
GotIsTrue ==
  rx.got # <<>> =>
    /\ rx.got[1][2] = 1
    /\ rx.total = message[rx.got[1][1]]
    /\ \A k \in DOMAIN rx.got :
         /\ rx.got[k][1] = rx.got[1][1]
         /\ rx.got[k][2] >= k
         /\ rx.got[k][2] + (Len(rx.got) - k) <= rx.got[Len(rx.got)][2]

IsoTpInv ==
  /\ Typed /\ TxStands /\ RxStands
  /\ StreamIsTrue /\ GotIsOlder /\ FlowsAreTrue
  /\ ~crossed => PartsAreAsked /\ GotIsTrue
  /\ WholeOrNothing

-------------------------------------------------------------------------------
(* Numbers. *)

LEMMA ModTyped == \A a \in Int : \A m \in Nat \ {0} : a % m \in 0 .. m - 1
BY SMTT(30)

LEMMA Constants ==
  /\ ClockMod \in Nat \ {0} /\ SnMod \in Nat \ {0}
  /\ TimeoutA \in Nat /\ TimeoutBs \in Nat /\ TimeoutCr \in Nat
  /\ WaitLimit \in Nat /\ BlockSize \in Nat /\ Capacity \in Nat
  /\ MaxMessages \in Nat
  /\ Time \subseteq Nat /\ 0 \in Time
  /\ Sizes \subseteq Nat \ {0} /\ StMins \subseteq Nat
BY ClockAssumption, DataAssumption DEF Time

LEMMA AfterTyped == \A t, d \in Nat : After(t, d) \in Time
BY ModTyped, Constants DEF After, Time

LEMMA SequenceTyped == \A n \in Nat : (n + 1) % SnMod \in 0 .. SnMod - 1
BY ModTyped, Constants

LEMMA OneTyped == 1 % SnMod \in 0 .. SnMod - 1
BY ModTyped, Constants

LEMMA SeparationTyped == \A st \in StMins : Separation(st) \in StMins
<1> DEFINE longest == CHOOSE s \in StMins : \A r \in StMins : r <= s
<1>1. longest \in StMins
  BY DataAssumption
<1> HIDE DEF longest
<1>2. \A st : Separation(st) \in {longest, st}
  BY DEF Separation, longest
<1>3. QED
  BY <1>1, <1>2

-------------------------------------------------------------------------------
(* Sequences and frames. *)

LEMMA Appended ==
  ASSUME NEW S, NEW s \in Seq(S), NEW e \in S
  PROVE  /\ Append(s, e) \in Seq(S)
         /\ Len(Append(s, e)) = Len(s) + 1
         /\ DOMAIN Append(s, e) = 1 .. Len(s) + 1
         /\ \A i \in 1 .. Len(s) : Append(s, e)[i] = s[i]
         /\ Append(s, e)[Len(s) + 1] = e
         /\ Append(s, e) # <<>>
BY AppendProperties

LEMMA Taken ==
  ASSUME NEW S, NEW s \in Seq(S), s # <<>>
  PROVE  /\ Tail(s) \in Seq(S)
         /\ Len(Tail(s)) = Len(s) - 1
         /\ \A i \in DOMAIN Tail(s) : i + 1 \in DOMAIN s /\ Tail(s)[i] = s[i + 1]
         /\ 1 \in DOMAIN s
         /\ Head(s) = s[1] /\ Head(s) \in S
BY HeadTailProperties, EmptySeq

LEMMA FrameFields ==
  ASSUME NEW f \in FrameType
  PROVE  /\ f # None /\ f # Sent
         /\ f.data \in UnitType
         /\ f.data[1] \in Nat \ {0} /\ f.data[2] \in Nat \ {0}
         /\ f.kind \in {"single", "first", "next"}
         /\ f.kind = "next" => f.seq \in 0 .. SnMod - 1
         /\ f.kind # "next" => f.size \in Nat
BY DEF FrameType, UnitType, None, Sent

LEMMA FlowFields ==
  ASSUME NEW f \in FlowType
  PROVE  /\ f # None /\ f # Sent
         /\ f.fs \in {"cts", "wait", "overflow"}
         /\ f.bs \in Nat /\ f.st \in Nat /\ f.of \in Nat
<1>1. f.kind = "flow" /\ f.fs \in {"cts", "wait", "overflow"} /\ f.of \in Nat
  BY DEF FlowType
<1>2. f.bs \in Nat /\ f.st \in Nat
  BY Constants DEF FlowType
<1>3. f # None /\ f # Sent
  BY <1>1 DEF None, Sent
<1>4. QED
  BY <1>1, <1>2, <1>3

LEMMA RestTyped ==
  ASSUME Typed
  PROVE  TxIdle \in TxType /\ RxIdle \in RxType
BY DEF Typed, TxIdle, RxIdle, TxType, RxType

LEMMA InitIsoTp == IsoInit => IsoTpInv
<1> SUFFICES ASSUME IsoInit PROVE IsoTpInv
  OBVIOUS
<1> USE Constants DEF IsoInit, None
<1>1. Typed
  <2>1. tx \in TxType
    BY DEF TxType
  <2>2. rx \in RxType
    BY DEF RxType
  <2>3. Len(<<>>) = 0
    OBVIOUS
  <2>4. message \in Seq(Sizes) /\ Len(message) <= MaxMessages
    BY <2>3
  <2>5. fwd \in Seq(FrameType) /\ back \in Seq(FlowType)
    OBVIOUS
  <2>6. QED
    BY <2>1, <2>2, <2>4, <2>5 DEF Typed
<1>2. TxStands /\ RxStands
  BY DEF TxStands, RxStands
<1>3. StreamIsTrue /\ GotIsOlder /\ FlowsAreTrue
  BY DEF StreamIsTrue, GotIsOlder, FlowsAreTrue, Carries
<1>4. PartsAreAsked /\ GotIsTrue /\ WholeOrNothing
  BY DEF PartsAreAsked, GotIsTrue, WholeOrNothing, Carries
<1>5. QED
  BY <1>1, <1>2, <1>3, <1>4 DEF IsoTpInv

-------------------------------------------------------------------------------
(* What a step keeps. *)

\* Messages are added at the end; the one being sent only advances.
Grows ==
  \/ message' = message /\ tx'.offset >= tx.offset
  \/ \E n \in Sizes : message' = Append(message, n)

LEMMA Prefix ==
  ASSUME Typed, Grows
  PROVE  /\ Len(message) \in Nat /\ Len(message)' \in Nat
         /\ Len(message) <= Len(message)'
         /\ \A m \in 1 .. Len(message) : message'[m] = message[m] /\ message[m] \in Nat \ {0}
         /\ Len(message)' = Len(message) => tx'.offset >= tx.offset
<1>1. message \in Seq(Sizes) /\ Len(message) \in Nat
  BY DEF Typed
<1>2. \A m \in 1 .. Len(message) : message[m] \in Nat \ {0}
  BY <1>1, ElementOfSeq, Constants
<1>3. CASE message' = message /\ tx'.offset >= tx.offset
  BY <1>1, <1>2, <1>3
<1>4. CASE \E n \in Sizes : message' = Append(message, n)
  <2>1. PICK n \in Sizes : message' = Append(message, n)
    BY <1>4
  <2>2. Len(message)' = Len(message) + 1
    BY <1>1, <2>1, Appended
  <2>3. \A m \in 1 .. Len(message) : message'[m] = message[m]
    BY <1>1, <2>1, Appended
  <2>4. QED
    BY <1>1, <1>2, <2>2, <2>3
<1>5. QED
  BY <1>3, <1>4 DEF Grows

LEMMA UnitKept ==
  ASSUME Typed, Typed', Grows, NEW u \in UnitType, SentUnit(u)
  PROVE  SentUnit(u)' /\ u[1] \in 1 .. Len(message) /\ message'[u[1]] = message[u[1]]
<1>1. u[1] \in Nat \ {0} /\ u[2] \in Nat \ {0}
  BY DEF UnitType
<1>2. u[1] \in 1 .. Len(message)
  BY <1>1, Prefix DEF SentUnit
<1>3. message'[u[1]] = message[u[1]]
  BY <1>2, Prefix
<1>4. tx.offset \in Nat /\ tx'.offset \in Nat
  BY DEF Typed, TxType
<1>5. u[1] = Len(message)' => u[1] = Len(message) /\ tx'.offset >= tx.offset
  BY <1>2, Prefix
<1>6. SentUnit(u)'
  BY <1>1, <1>2, <1>3, <1>4, <1>5, Prefix DEF SentUnit
<1>7. QED
  BY <1>2, <1>3, <1>6

LEMMA FrameKept ==
  ASSUME Typed, Typed', Grows, NEW f \in FrameType, FrameIsTrue(f)
  PROVE  FrameIsTrue(f)'
<1>1. SentUnit(f.data) /\ f.data \in UnitType
  BY FrameFields DEF FrameIsTrue
<1>2. SentUnit(f.data)' /\ message'[f.data[1]] = message[f.data[1]]
  BY <1>1, UnitKept
<1>3. QED
  BY <1>2 DEF FrameIsTrue

LEMMA Places ==
  ASSUME Typed
  PROVE  /\ \A a \in DOMAIN fwd : fwd[a] \in FrameType
         /\ \A a \in DOMAIN back : back[a] \in FlowType
         /\ \A k \in DOMAIN rx.got : rx.got[k] \in UnitType
         /\ Carries => txOut \in FrameType
         /\ fcOut \notin {None, Sent} => fcOut \in FlowType
         /\ rx.got \in Seq(UnitType) /\ Len(rx.got) \in Nat
         /\ DOMAIN rx.got = 1 .. Len(rx.got)
         /\ rx.got # <<>> => Len(rx.got) # 0 /\ 1 \in DOMAIN rx.got
<1>1. rx.got \in Seq(UnitType)
  BY DEF Typed, RxType
<1>2. \A a \in DOMAIN fwd : fwd[a] \in FrameType
  BY ElementOfSeq, LenProperties DEF Typed
<1>3. \A a \in DOMAIN back : back[a] \in FlowType
  BY ElementOfSeq, LenProperties DEF Typed
<1>4. \A k \in DOMAIN rx.got : rx.got[k] \in UnitType
  BY <1>1, ElementOfSeq, LenProperties
<1>5. DOMAIN rx.got = 1 .. Len(rx.got) /\ Len(rx.got) \in Nat
  BY <1>1, LenProperties
<1>6. rx.got # <<>> => Len(rx.got) # 0 /\ 1 \in DOMAIN rx.got
  BY <1>1, <1>5, EmptySeq
<1>7. QED
  BY <1>1, <1>2, <1>3, <1>4, <1>5, <1>6 DEF Typed, Carries

\* What is on its way, and what was taken, stays as true while nothing moves.
LEMMA StreamKept ==
  ASSUME IsoTpInv, Typed', Grows, fwd' = fwd, rx'.got = rx.got,
         txOut' \in {txOut, None, Sent}
  PROVE  StreamIsTrue' /\ GotIsOlder'
<1>1. Typed
  BY DEF IsoTpInv
<1>2. Carries' => Carries /\ txOut' = txOut
  BY DEF Carries
<1>3. \A a \in DOMAIN fwd : FrameIsTrue(fwd[a])'
  BY <1>1, Places, FrameKept DEF IsoTpInv, StreamIsTrue
<1>4. Carries' => FrameIsTrue(txOut)'
  <2> SUFFICES ASSUME Carries' PROVE FrameIsTrue(txOut)'
    OBVIOUS
  <2>1. txOut \in FrameType /\ FrameIsTrue(txOut)
    BY <1>1, <1>2, Places DEF IsoTpInv, StreamIsTrue
  <2>2. QED
    BY <1>1, <1>2, <2>1, FrameKept DEF FrameIsTrue, SentUnit
<1>5. StreamIsTrue'
  BY <1>2, <1>3, <1>4 DEF IsoTpInv, StreamIsTrue, FrameIsTrue, SentUnit
<1>6. \A k \in DOMAIN rx.got : SentUnit(rx.got[k])'
  BY <1>1, Places, UnitKept DEF IsoTpInv, GotIsOlder
<1>7. GotIsOlder'
  BY <1>2, <1>6 DEF IsoTpInv, GotIsOlder, SentUnit
<1>8. QED
  BY <1>5, <1>7

LEMMA DeliveryKept ==
  ASSUME Typed, Typed', WholeOrNothing, Grows, delivered' = delivered,
         crossed => crossed'
  PROVE  WholeOrNothing'
<1>1. ASSUME NEW m \in DOMAIN message
      PROVE  m \in DOMAIN message' /\ Whole(m)' = Whole(m)
  <2>1. m \in 1 .. Len(message) /\ DOMAIN message' = 1 .. Len(message)'
    BY LenProperties DEF Typed
  <2>2. QED
    BY <2>1, Prefix DEF Whole
<1>2. QED
  BY <1>1 DEF WholeOrNothing

\* The receiver's side of a step that leaves the receiver as it is.
LEMMA GatheredKept ==
  ASSUME IsoTpInv, Typed', Grows, rx' = rx, ~crossed
  PROVE  GotIsTrue'
<1>1. Typed /\ GotIsTrue
  BY DEF IsoTpInv
<1>2. SUFFICES ASSUME rx.got # <<>> PROVE GotIsTrue'
  BY DEF GotIsTrue
<1>3. rx.got[1] \in UnitType /\ SentUnit(rx.got[1])
  BY <1>1, <1>2, Places DEF IsoTpInv, GotIsOlder
<1>4. message'[rx.got[1][1]] = message[rx.got[1][1]]
  BY <1>1, <1>3, UnitKept
<1>5. QED
  BY <1>1, <1>4 DEF GotIsTrue

\* A step of the sender that puts nothing on its way.
LEMMA SenderMoves ==
  ASSUME IsoTpInv, Typed', TxStands',
         message' = message, tx'.offset = tx.offset,
         fwd' = fwd, rx' = rx, fcOut' = fcOut, delivered' = delivered,
         back' = back \/ (back # <<>> /\ back' = Tail(back)),
         txOut' \in {txOut, None, Sent},
         crossed => crossed',
         ~crossed' /\ (tx'.state = "cf" \/ (tx'.state = "confirm" /\ tx'.pendingCf))
           => Gathering(Len(message))
  PROVE  IsoTpInv'
<1>1. Typed /\ Grows
  BY SMTT(30) DEF IsoTpInv, Typed, TxType, Grows
<1>2. RxStands'
  BY DEF IsoTpInv, RxStands
<1>3. StreamIsTrue' /\ GotIsOlder'
  BY <1>1, StreamKept
<1>4. FlowsAreTrue'
  <2>1. \A f : FlowIsTrue(f) => FlowIsTrue(f)'
    BY DEF FlowIsTrue, Gathering
  <2>2. \A a \in DOMAIN back' : FlowIsTrue(back'[a])
    <3>1. CASE back' = back
      BY <3>1 DEF IsoTpInv, FlowsAreTrue
    <3>2. CASE back # <<>> /\ back' = Tail(back)
      BY <3>2, Taken DEF IsoTpInv, Typed, FlowsAreTrue
    <3>3. QED
      BY <3>1, <3>2
  <2>3. fcOut \notin {None, Sent} => FlowIsTrue(fcOut)
    BY DEF IsoTpInv, FlowsAreTrue
  <2>4. QED
    BY <2>1, <2>2, <2>3 DEF FlowsAreTrue, FlowIsTrue, Gathering, None, Sent
<1>5. ASSUME ~crossed' PROVE PartsAreAsked' /\ GotIsTrue'
  <2>1. ~crossed /\ PartsAreAsked
    BY <1>5 DEF IsoTpInv
  <2>2. Carries' => Carries /\ txOut' = txOut
    BY DEF Carries
  <2>3. PartsAreAsked'
    BY <1>5, <2>1, <2>2 DEF PartsAreAsked, Gathering
  <2>4. QED
    BY <1>1, <2>1, <2>3, GatheredKept
<1>6. WholeOrNothing'
  BY <1>1, DeliveryKept DEF IsoTpInv
<1>7. QED
  BY <1>2, <1>3, <1>4, <1>5, <1>6 DEF IsoTpInv

\* A step of the receiver that takes no frame.
LEMMA ReceiverMoves ==
  ASSUME IsoTpInv, Typed', RxStands', FlowsAreTrue',
         rx'.got = rx.got, rx'.total = rx.total,
         tx' = tx, txOut' = txOut, fwd' = fwd, message' = message,
         delivered' = delivered, crossed' = crossed
  PROVE  IsoTpInv'
<1>1. Typed /\ Grows
  BY DEF IsoTpInv, Typed, TxType, Grows
<1>2. TxStands'
  BY DEF IsoTpInv, TxStands
<1>3. StreamIsTrue' /\ GotIsOlder'
  BY <1>1, StreamKept
<1>4. ~crossed' => PartsAreAsked' /\ GotIsTrue'
  BY DEF IsoTpInv, PartsAreAsked, GotIsTrue, Gathering, Carries
<1>5. WholeOrNothing'
  BY <1>1, DeliveryKept DEF IsoTpInv
<1>6. QED
  BY <1>2, <1>3, <1>4, <1>5 DEF IsoTpInv

-------------------------------------------------------------------------------
(* The sender, one lemma for each of its operations. *)

\* What the operations on the sending machine leave alone.
TxOnly == UNCHANGED <<now, message, rxVars>>

LEMMA QueueTyped ==
  ASSUME Typed, back' = back \/ (back # <<>> /\ back' = Tail(back))
  PROVE  back' \in Seq(FlowType)
BY Taken DEF Typed

LEMMA TxTyped ==
  ASSUME Typed, TxOnly, tx' \in TxType, crossed' \in BOOLEAN,
         back' = back \/ (back # <<>> /\ back' = Tail(back)),
         txOut' \in FrameType \cup {None, Sent}
  PROVE  Typed'
<1>1. back' \in Seq(FlowType)
  BY QueueTyped
<1>2. /\ now' = now /\ message' = message /\ rx' = rx
      /\ fcOut' = fcOut /\ fwd' = fwd /\ delivered' = delivered
  BY DEF TxOnly, rxVars
<1>3. QED
  BY <1>1, <1>2 DEF Typed, None, Sent

\* The sender gives its message up, or has sent it.
LEMMA TxRests ==
  ASSUME IsoTpInv, TxOnly, tx' = TxIdle, crossed' = crossed,
         back' = back \/ (back # <<>> /\ back' = Tail(back)),
         txOut' \in {txOut, None}
  PROVE  IsoTpInv'
<1>1. Typed /\ TxStands
  BY DEF IsoTpInv
<1>2. TxIdle \in TxType
  BY <1>1, RestTyped
<1>3. Typed'
  BY <1>1, <1>2, TxTyped DEF Typed
<1>4. /\ tx'.state = "idle" /\ tx'.offset = tx.offset /\ tx'.total = tx.total
      /\ tx'.waits = tx.waits
  BY <1>1 DEF TxIdle, Typed, TxType
<1>5. TxStands'
  BY <1>1, <1>4 DEF TxStands, TxOnly
<1>6. /\ message' = message /\ rx' = rx
      /\ fcOut' = fcOut /\ fwd' = fwd /\ delivered' = delivered
  BY DEF TxOnly, rxVars
<1>7. QED
  BY <1>3, <1>4, <1>5, <1>6, SenderMoves

LEMMA TxCheckKeeps == ASSUME IsoTpInv, TxCheck PROVE IsoTpInv'
<1>1. tx' = TxIdle
  BY DEF TxCheck, TxExpire
<1>2. TxOnly /\ crossed' = crossed /\ back' = back /\ txOut' = txOut
  BY DEF TxCheck, TxOnly, rxVars
<1>3. QED
  BY <1>1, <1>2, TxRests

LEMMA StartKeeps == ASSUME IsoTpInv, NEW n \in Sizes, Start(n) PROVE IsoTpInv'
<1>1. Typed /\ TxStands
  BY DEF IsoTpInv
<1>2. /\ now' = now /\ rx' = rx /\ fcOut' = fcOut /\ fwd' = fwd
      /\ delivered' = delivered /\ txOut' = txOut /\ back' = back
      /\ crossed' = crossed
  BY DEF Start, rxVars
<1>3. message' = Append(message, n) /\ Len(message) < MaxMessages
  BY DEF Start
<1>4. /\ message' \in Seq(Sizes) /\ Len(message)' = Len(message) + 1
      /\ Len(message) \in Nat /\ message'[Len(message)'] = n /\ message' # <<>>
  BY <1>1, <1>3, Appended, LenProperties DEF Typed
<1>5. tx' \in TxType
  <2>1. After(now, TimeoutA) \in Time
    BY <1>1, AfterTyped, Constants DEF Typed
  <2>2. QED
    BY <1>1, <2>1, OneTyped, Constants DEF Start, Typed, TxType
<1>6. Typed'
  BY <1>1, <1>2, <1>3, <1>4, <1>5, Constants DEF Typed
<1>7. /\ tx'.state = "ready" /\ tx'.offset = 0 /\ tx'.total = n /\ tx'.waits = 0
  BY <1>1 DEF Start, Typed, TxType
<1>8. TxStands'
  BY <1>4, <1>7, Constants DEF TxStands
<1>9. Grows
  BY <1>3 DEF Grows
<1>10. RxStands'
  BY <1>2 DEF IsoTpInv, RxStands
<1>11. StreamIsTrue' /\ GotIsOlder'
  BY <1>2, <1>6, <1>9, StreamKept
<1>12. FlowsAreTrue'
  <2>1. \A f : FlowIsTrue(f) => FlowIsTrue(f)'
    BY <1>4 DEF FlowIsTrue
  <2>2. QED
    BY <1>2, <2>1 DEF IsoTpInv, FlowsAreTrue, FlowIsTrue
<1>13. ~crossed' => PartsAreAsked' /\ GotIsTrue'
  BY <1>1, <1>2, <1>6, <1>7, <1>9, GatheredKept
     DEF IsoTpInv, PartsAreAsked, Gathering, Carries
<1>14. WholeOrNothing'
  BY <1>1, <1>2, <1>6, <1>9, DeliveryKept DEF IsoTpInv
<1>15. QED
  BY <1>6, <1>8, <1>10, <1>11, <1>12, <1>13, <1>14 DEF IsoTpInv

\* The frame taken is the next of the message, and after all that was sent.
LEMMA SendKeeps ==
  ASSUME IsoTpInv, TxNext, ~TxExpire
  PROVE  IsoTpInv'
<1>1. Typed /\ TxStands
  BY DEF IsoTpInv
<1>2. /\ txOut = None /\ TxDue /\ txOut' = TxFrame
      /\ tx' = [tx EXCEPT !.state = "confirm", !.deadline = After(now, TimeoutA),
                  !.pendingCf = tx.offset # 0, !.offset = @ + 1,
                  !.seq = IF tx.offset = 0 THEN @ ELSE (@ + 1) % SnMod]
      /\ now' = now /\ back' = back /\ message' = message /\ crossed' = crossed
      /\ rx' = rx /\ fcOut' = fcOut /\ fwd' = fwd /\ delivered' = delivered
  BY DEF TxNext, rxVars
<1>3. /\ tx.offset \in Nat /\ tx.total \in Nat /\ tx.seq \in Nat
      /\ tx.seq \in 0 .. SnMod - 1 /\ Len(message) \in Nat
  BY <1>1, Constants DEF Typed, TxType
<1>4. /\ message # <<>> /\ Len(message) \in 1 .. Len(message)
      /\ tx.total = message[Len(message)] /\ tx.offset < tx.total
      /\ tx.state = "cf" => tx.offset # 0
      /\ tx.state # "cf" => tx.offset = 0
  <2>1. tx.state \in {"ready", "cf"}
    BY <1>2 DEF TxDue
  <2>2. message # <<>>
    BY <1>1, <2>1 DEF TxStands
  <2>3. Len(message) \in 1 .. Len(message)
    BY <1>1, <2>2, EmptySeq DEF Typed
  <2>4. tx.total = message[Len(message)] /\ tx.total \in Nat \ {0}
    BY <1>1, <2>2, <2>3, ElementOfSeq, Constants DEF Typed, TxStands
  <2>5. QED
    BY <1>1, <1>3, <2>1, <2>2, <2>3, <2>4 DEF TxStands
<1>5. Unit \in UnitType /\ Unit[1] = Len(message) /\ Unit[2] = tx.offset + 1
  BY <1>3, <1>4 DEF Unit, UnitType
<1>6. txOut' \in FrameType /\ txOut'.data = Unit
  <2>1. CASE tx.offset > 0
    BY <1>2, <1>3, <1>5, <2>1 DEF TxFrame, FrameType
  <2>2. CASE ~(tx.offset > 0)
    BY <1>2, <1>3, <1>5, <2>2 DEF TxFrame, FrameType
  <2>3. QED
    BY <2>1, <2>2
<1>7. tx' \in TxType
  <2>1. After(now, TimeoutA) \in Time /\ (tx.seq + 1) % SnMod \in 0 .. SnMod - 1
    BY <1>1, <1>3, AfterTyped, SequenceTyped, Constants DEF Typed
  <2>2. tx.offset + 1 \in Nat /\ (tx.offset # 0) \in BOOLEAN
    BY <1>3
  <2>3. CASE tx.offset = 0
    BY <1>1, <1>2, <1>3, <2>1, <2>2, <2>3 DEF Typed, TxType
  <2>4. CASE tx.offset # 0
    BY <1>1, <1>2, <1>3, <2>1, <2>2, <2>4 DEF Typed, TxType
  <2>5. QED
    BY <2>3, <2>4
<1>8. Typed'
  BY <1>1, <1>2, <1>6, <1>7 DEF Typed
<1>9. /\ tx'.state = "confirm" /\ tx'.offset = tx.offset + 1
      /\ tx'.total = tx.total /\ tx'.waits = tx.waits
      /\ tx'.pendingCf = (tx.offset # 0)
  BY <1>1, <1>2 DEF Typed, TxType
<1>10. TxStands'
  <2>1. tx.state # "idle" /\ tx.waits <= WaitLimit /\ tx.waits <= WaitLimit + 1
    BY <1>1, <1>2 DEF TxDue, TxStands
  <2>2. QED
    BY <1>2, <1>3, <1>4, <1>9, <2>1 DEF TxStands
<1>11. Grows
  BY <1>2, <1>3, <1>9 DEF Grows
<1>12. RxStands'
  BY <1>2 DEF IsoTpInv, RxStands
<1>13. ASSUME NEW u \in UnitType, SentUnit(u)
       PROVE  SentUnit(u)' /\ Before(u, Unit)
  <2>1. SentUnit(u)' /\ u[1] \in 1 .. Len(message)
    BY <1>1, <1>8, <1>11, <1>13, UnitKept
  <2>2. u[1] = Len(message) => u[2] <= tx.offset
    BY <1>13 DEF SentUnit
  <2>3. u[1] < Len(message) \/ (u[1] = Len(message) /\ u[2] < tx.offset + 1)
    BY <1>3, <1>13, <2>1, <2>2 DEF UnitType
  <2>4. QED
    BY <1>5, <2>1, <2>3 DEF Before
<1>14. \A a \in DOMAIN fwd :
         /\ fwd[a] \in FrameType /\ fwd[a].data \in UnitType
         /\ FrameIsTrue(fwd[a]) /\ SentUnit(fwd[a].data)
  BY <1>1, Places, FrameFields DEF IsoTpInv, StreamIsTrue, FrameIsTrue
<1>15. FrameIsTrue(txOut)'
  <2>1. SentUnit(txOut.data)'
    BY <1>2, <1>3, <1>4, <1>5, <1>6, <1>9 DEF SentUnit
  <2>2. CASE tx.offset > 0
    BY <1>2, <1>3, <1>5, <1>6, <2>1, <2>2 DEF TxFrame, FrameIsTrue
  <2>3. CASE tx.offset = 0
    BY <1>2, <1>4, <1>5, <1>6, <2>1, <2>3 DEF TxFrame, FrameIsTrue
  <2>4. QED
    BY <1>3, <2>2, <2>3
<1>16. StreamIsTrue'
  <2>1. \A a \in DOMAIN fwd : FrameIsTrue(fwd[a])'
    BY <1>1, <1>2, <1>8, <1>11, <1>14, FrameKept
  <2>2. \A a \in DOMAIN fwd : Before(fwd[a].data, Unit)
    BY <1>13, <1>14
  <2>3. \A a, b \in DOMAIN fwd : a < b => Before(fwd[a].data, fwd[b].data)
    BY DEF IsoTpInv, StreamIsTrue
  <2>4. QED
    BY <1>2, <1>6, <1>15, <2>1, <2>2, <2>3
       DEF StreamIsTrue, FrameIsTrue, SentUnit
<1>17. GotIsOlder'
  <2>1. \A k \in DOMAIN rx.got : SentUnit(rx.got[k])' /\ Before(rx.got[k], Unit)
    BY <1>1, <1>2, <1>13, Places DEF IsoTpInv, GotIsOlder
  <2>2. QED
    BY <1>2, <1>6, <2>1 DEF IsoTpInv, GotIsOlder, SentUnit
<1>18. FlowsAreTrue'
  BY <1>2 DEF IsoTpInv, FlowsAreTrue, FlowIsTrue, Gathering
<1>19. ASSUME ~crossed PROVE PartsAreAsked' /\ GotIsTrue'
  <2>1. PartsAreAsked
    BY <1>19 DEF IsoTpInv
  <2>2. tx.offset # 0 => Gathering(Len(message))
    BY <1>4, <2>1 DEF PartsAreAsked
  <2>3. tx'.pendingCf => Gathering(Len(message))
    BY <1>9, <2>2
  <2>4. txOut'.data[2] # 1 => Gathering(txOut'.data[1])
    BY <1>3, <1>5, <1>6, <2>2
  <2>5. \A m : Gathering(m)' <=> Gathering(m)
    BY <1>2 DEF Gathering
  <2>6. \A a \in DOMAIN fwd : fwd[a].data[2] # 1 => Gathering(fwd[a].data[1])
    BY <2>1 DEF PartsAreAsked
  <2>7. PartsAreAsked'
    BY <1>2, <1>9, <2>3, <2>4, <2>5, <2>6 DEF PartsAreAsked, Gathering
  <2>8. QED
    BY <1>2, <1>8, <1>11, <1>19, <2>7, GatheredKept
<1>20. WholeOrNothing'
  BY <1>1, <1>2, <1>8, <1>11, DeliveryKept DEF IsoTpInv
<1>21. QED
  BY <1>2, <1>8, <1>10, <1>12, <1>16, <1>17, <1>18, <1>19, <1>20 DEF IsoTpInv

LEMMA TxNextKeeps == ASSUME IsoTpInv, TxNext PROVE IsoTpInv'
<1>1. CASE TxExpire
  <2>1. tx' = TxIdle /\ TxLate
    BY <1>1 DEF TxExpire
  <2>2. TxOnly /\ crossed' = crossed /\ back' = back /\ txOut' = txOut
    BY <2>1 DEF TxNext, TxExpire, TxOnly, rxVars
  <2>3. QED
    BY <2>1, <2>2, TxRests
<1>2. QED
  BY <1>1, SendKeeps

LEMMA TxWireKeeps == ASSUME IsoTpInv, TxWire PROVE IsoTpInv'
<1>1. Typed /\ Carries
  BY DEF IsoTpInv, TxWire, Carries
<1>2. /\ txOut' = Sent /\ (fwd' = fwd \/ fwd' = Append(fwd, txOut))
      /\ now' = now /\ tx' = tx /\ back' = back /\ message' = message
      /\ crossed' = crossed /\ rx' = rx /\ fcOut' = fcOut
      /\ delivered' = delivered
  BY DEF TxWire
<1>3. txOut \in FrameType /\ fwd \in Seq(FrameType)
  BY <1>1, Places DEF Typed
<1>4. ~Carries'
  BY <1>2 DEF Carries
\* What is in the queue then is what was there, and what was carried after it.
<1>5. /\ fwd' \in Seq(FrameType)
      /\ \A a \in DOMAIN fwd' :
           \/ a \in DOMAIN fwd /\ fwd'[a] = fwd[a]
           \/ a = Len(fwd) + 1 /\ fwd'[a] = txOut
  <2>1. CASE fwd' = fwd
    BY <1>3, <2>1
  <2>2. CASE fwd' = Append(fwd, txOut)
    <3>1. DOMAIN fwd = 1 .. Len(fwd) /\ Len(fwd) \in Nat
      BY <1>3, LenProperties
    <3>2. QED
      BY <1>3, <2>2, <3>1, Appended
  <2>3. QED
    BY <1>2, <2>1, <2>2
<1>6. \A a \in DOMAIN fwd : a < Len(fwd) + 1
  BY <1>3, LenProperties
<1>7. Typed'
  BY <1>1, <1>2, <1>5 DEF Typed, Sent, None
<1>8. TxStands' /\ RxStands'
  BY <1>2 DEF IsoTpInv, TxStands, RxStands
<1>9. StreamIsTrue'
  <2>1. \A a \in DOMAIN fwd' : FrameIsTrue(fwd'[a])
    BY <1>1, <1>5 DEF IsoTpInv, StreamIsTrue
  <2>2. ASSUME NEW a \in DOMAIN fwd', NEW b \in DOMAIN fwd', a < b
        PROVE  Before(fwd'[a].data, fwd'[b].data)
    <3>1. a \in DOMAIN fwd /\ fwd'[a] = fwd[a]
      <4>1. CASE a = Len(fwd) + 1
        <5>1. b = Len(fwd) + 1 \/ b < Len(fwd) + 1
          BY <1>5, <1>6
        <5>2. Len(fwd) \in Nat /\ b \in Nat
          BY <1>3, <1>5, LenProperties
        <5>3. QED
          BY <2>2, <4>1, <5>1, <5>2
      <4>2. QED
        BY <1>5, <4>1
    <3>2. QED
      BY <1>1, <1>5, <2>2, <3>1 DEF IsoTpInv, StreamIsTrue
  <2>3. QED
    BY <1>2, <1>4, <2>1, <2>2 DEF StreamIsTrue, FrameIsTrue, SentUnit
<1>10. GotIsOlder'
  BY <1>1, <1>2, <1>4, <1>5 DEF IsoTpInv, GotIsOlder, SentUnit
<1>11. FlowsAreTrue'
  BY <1>2 DEF IsoTpInv, FlowsAreTrue, FlowIsTrue, Gathering
<1>12. ASSUME ~crossed PROVE PartsAreAsked' /\ GotIsTrue'
  BY <1>1, <1>2, <1>4, <1>5, <1>12
     DEF IsoTpInv, PartsAreAsked, GotIsTrue, Gathering
<1>13. WholeOrNothing'
  BY <1>2 DEF IsoTpInv, WholeOrNothing, Whole
<1>14. QED
  BY <1>2, <1>7, <1>8, <1>9, <1>10, <1>11, <1>12, <1>13 DEF IsoTpInv

LEMMA TxConfirmKeeps == ASSUME IsoTpInv, TxConfirm PROVE IsoTpInv'
<1>1. Typed /\ TxStands
  BY DEF IsoTpInv
<1>2. TxOnly /\ txOut' = None /\ back' = back /\ crossed' = crossed
  BY DEF TxConfirm, TxOnly, rxVars
<1>3. /\ message' = message /\ rx' = rx /\ fcOut' = fcOut
      /\ fwd' = fwd /\ delivered' = delivered
  BY <1>2 DEF TxOnly, rxVars
<1>4. CASE tx' = TxIdle
  BY <1>2, <1>4, TxRests
<1>5. CASE tx' = tx /\ tx.state # "confirm"
  <2>1. Typed'
    BY <1>1, <1>2, <1>5, TxTyped DEF Typed
  <2>2. TxStands'
    BY <1>1, <1>3, <1>5 DEF TxStands
  <2>3. ~crossed' /\ tx'.state = "cf" => Gathering(Len(message))
    BY <1>2, <1>5 DEF IsoTpInv, PartsAreAsked
  <2>4. QED
    BY <1>2, <1>3, <1>5, <2>1, <2>2, <2>3, SenderMoves
<1>6. CASE tx.state = "confirm" /\ tx.offset # tx.total /\ NextPart
  <2>1. CountCf \in TxType /\ CountCf.offset = tx.offset /\ CountCf.total = tx.total
        /\ CountCf.waits = tx.waits
    <3>1. tx \in TxType /\ now \in Time /\ tx.block + 1 \in Nat
      BY <1>1 DEF Typed, TxType
    <3>2. CASE tx.pendingCf
      BY <3>1, <3>2 DEF CountCf, TxType
    <3>3. CASE ~tx.pendingCf
      BY <3>1, <3>3 DEF CountCf
    <3>4. QED
      BY <3>2, <3>3
  <2>2. After(now, TimeoutBs) \in Time /\ After(now, tx.sep) \in Time
    BY <1>1, AfterTyped, Constants DEF Typed, TxType
  <2>3. tx' \in TxType /\ tx'.offset = tx.offset /\ tx'.total = tx.total
        /\ tx'.waits = tx.waits /\ tx'.state \in {"fc", "cf"}
    BY <1>6, <2>1, <2>2 DEF NextPart, TxType
  <2>4. tx'.state = "cf" => tx.pendingCf
    <3>1. BlockOver => tx'.state = "fc"
      BY <1>6, <2>1 DEF NextPart, TxType
    <3>2. QED
      BY <3>1 DEF BlockOver
  <2>5. Typed'
    BY <1>1, <1>2, <2>3, TxTyped DEF Typed
  <2>6. tx.offset \in Nat /\ tx.total \in Nat
    BY <1>1 DEF Typed, TxType
  <2>7. tx.offset \in 1 .. tx.total - 1
    BY <1>1, <1>6, <2>6 DEF TxStands
  <2>8. TxStands'
    BY <1>1, <1>3, <1>6, <2>3, <2>7 DEF TxStands
  <2>9. ~crossed' /\ tx'.state = "cf" => Gathering(Len(message))
    BY <1>2, <1>6, <2>4 DEF IsoTpInv, PartsAreAsked
  <2>10. QED
    BY <1>2, <1>3, <2>3, <2>5, <2>8, <2>9, SenderMoves
<1>7. QED
  BY <1>4, <1>5, <1>6 DEF TxConfirm, Confirmed, TxExpire

LEMMA TxFlowKeeps == ASSUME IsoTpInv, TxFlow PROVE IsoTpInv'
<1> DEFINE f == Head(back)
<1>1. Typed /\ TxStands
  BY DEF IsoTpInv
<1>2. TxOnly /\ txOut' = txOut /\ back # <<>> /\ back' = Tail(back)
  BY DEF TxFlow, TxOnly, rxVars
<1>3. /\ message' = message /\ rx' = rx /\ fcOut' = fcOut
      /\ fwd' = fwd /\ delivered' = delivered
  BY <1>2 DEF TxOnly, rxVars
<1>4. f \in FlowType /\ FlowIsTrue(f)
  <2>1. 1 \in DOMAIN back /\ f = back[1] /\ f \in FlowType
    BY <1>1, <1>2, Taken DEF Typed
  <2>2. QED
    BY <2>1 DEF IsoTpInv, FlowsAreTrue
<1>5. CASE tx' = TxIdle /\ crossed' = crossed
  BY <1>2, <1>5, TxRests
<1>6. CASE tx' = tx /\ crossed' = crossed
  <2>1. Typed'
    BY <1>1, <1>2, <1>6, TxTyped DEF Typed
  <2>2. TxStands'
    BY <1>1, <1>3, <1>6 DEF TxStands
  <2>3. ~crossed' /\ (tx'.state = "cf" \/ (tx'.state = "confirm" /\ tx'.pendingCf))
          => Gathering(Len(message))
    BY <1>6 DEF IsoTpInv, PartsAreAsked
  <2>4. QED
    BY <1>2, <1>3, <1>6, <2>1, <2>2, <2>3, SenderMoves
<1>7. CASE tx.state = "fc" /\ ClearToSend(f)
  <2>1. f.st \in StMins /\ f.bs \in Nat /\ f.fs = "cts"
    BY <1>4, <1>7, FlowFields DEF FlowIsTrue, ClearToSend
  <2>2. Separation(f.st) \in StMins /\ Separation(f.st) \in Nat
    BY <2>1, SeparationTyped, Constants
  <2>3. After(tx.lastCf, Separation(f.st)) \in Time /\ now \in Time /\ tx \in TxType
    BY <1>1, <2>2, AfterTyped, Constants DEF Typed, TxType
  <2>4. (tx.reserved \/ f.st = Reserved) \in BOOLEAN
    OBVIOUS
  <2>5. PICK t \in Time :
          tx' = [tx EXCEPT !.state = "cf", !.bs = f.bs, !.sep = Separation(f.st),
                   !.block = 0, !.waits = 0, !.reserved = @ \/ f.st = Reserved,
                   !.next = t]
    BY <1>7, <2>3 DEF ClearToSend
  <2>6. tx' \in TxType
    BY <2>1, <2>2, <2>3, <2>4, <2>5 DEF TxType
  <2>7. /\ tx'.state = "cf" /\ tx'.offset = tx.offset /\ tx'.total = tx.total
        /\ tx'.waits = 0
    BY <2>3, <2>5 DEF TxType
  <2>8. crossed' \in BOOLEAN /\ (crossed => crossed')
        /\ (~crossed' => f.of = Len(message))
    BY <1>7 DEF ClearToSend
  <2>9. Typed'
    BY <1>1, <1>2, <2>6, <2>8, TxTyped DEF Typed
  <2>10. TxStands'
    BY <1>1, <1>3, <1>7, <2>7, Constants DEF TxStands
  <2>11. ~crossed' => Gathering(Len(message))
    BY <1>4, <2>1, <2>8 DEF FlowIsTrue
  <2>12. QED
    BY <1>2, <1>3, <2>7, <2>8, <2>9, <2>10, <2>11, SenderMoves
<1>8. CASE tx.state = "fc" /\ NotYet(f)
  <2>1. After(now, TimeoutBs) \in Time /\ tx \in TxType /\ tx.waits \in Nat
        /\ tx.waits <= WaitLimit /\ tx.waits + 1 \in Nat
    BY SMTT(30), <1>1, <1>8, AfterTyped, Constants DEF Typed, TxType, TxStands
  <2>2. CASE tx.waits + 1 <= WaitLimit
    <3>1. tx' = [tx EXCEPT !.waits = @ + 1, !.deadline = After(now, TimeoutBs)]
      BY <1>8, <2>2 DEF NotYet
    <3>2. /\ tx' \in TxType /\ tx'.offset = tx.offset /\ tx'.total = tx.total
          /\ tx'.state = "fc" /\ tx'.waits = tx.waits + 1
      BY <1>8, <2>1, <3>1 DEF TxType
    <3>3. crossed' = crossed
      BY <1>8 DEF NotYet
    <3>4. Typed'
      BY <1>1, <1>2, <3>2, <3>3, TxTyped DEF Typed
    <3>5. TxStands'
      BY <1>1, <1>3, <1>8, <2>1, <2>2, <3>2, Constants DEF TxStands
    <3>6. QED
      BY <1>2, <1>3, <3>2, <3>3, <3>4, <3>5, SenderMoves
  <2>3. CASE ~(tx.waits + 1 <= WaitLimit)
    <3>1. tx' = [TxIdle EXCEPT !.waits = @ + 1]
      BY <1>8, <2>3 DEF NotYet
    <3>2. /\ tx' \in TxType /\ tx'.offset = tx.offset /\ tx'.total = tx.total
          /\ tx'.state = "idle" /\ tx'.waits = tx.waits + 1
      BY <2>1, <3>1 DEF TxType, TxIdle
    <3>3. crossed' = crossed
      BY <1>8 DEF NotYet
    <3>4. Typed'
      BY <1>1, <1>2, <3>2, <3>3, TxTyped DEF Typed
    <3>5. TxStands'
      BY <1>1, <1>3, <1>8, <2>1, <3>2, Constants DEF TxStands
    <3>6. QED
      BY <1>2, <1>3, <3>2, <3>3, <3>4, <3>5, SenderMoves
  <2>4. QED
    BY <2>2, <2>3
<1>9. QED
  BY <1>5, <1>6, <1>7, <1>8 DEF TxFlow, TxExpire, Refused

-------------------------------------------------------------------------------
(* The receiver, one lemma for each of its operations. *)

\* What the operations on the receiving machine leave alone.
RxOnly == UNCHANGED <<now, delivered, txOut, tx, message, crossed>>

LEMMA RxTyped ==
  ASSUME Typed, RxOnly, rx' \in RxType, fwd' \in Seq(FrameType),
         back' \in Seq(FlowType), fcOut' \in FlowType \cup {None, Sent}
  PROVE  Typed'
<1>1. /\ now' = now /\ message' = message /\ tx' = tx
      /\ txOut' = txOut /\ crossed' = crossed
  BY DEF RxOnly
<1>2. QED
  BY <1>1 DEF Typed, None, Sent

\* The flow controls on their way are true of the receiver as it was: they are
\* as long as it has the same message.
LEMMA FlowsKept ==
  ASSUME IsoTpInv, RxOnly, rx'.got = rx.got, back' = back,
         fcOut' \in {fcOut, None, Sent}
  PROVE  FlowsAreTrue'
<1>1. \A f : FlowIsTrue(f)' <=> FlowIsTrue(f)
  BY DEF FlowIsTrue, Gathering, RxOnly
<1>2. QED
  BY <1>1 DEF IsoTpInv, FlowsAreTrue, FlowIsTrue, Gathering, RxOnly, None, Sent

LEMMA RxRests ==
  ASSUME IsoTpInv, RxOnly, rx' = RxIdle, fwd' = fwd, back' = back,
         fcOut' \in {fcOut, None}
  PROVE  IsoTpInv'
<1>1. Typed /\ RxStands
  BY DEF IsoTpInv
<1>2. RxIdle \in RxType
  BY <1>1, RestTyped
<1>3. Typed'
  BY <1>1, <1>2, RxTyped DEF Typed
<1>4. rx'.state = "idle" /\ rx'.got = rx.got /\ rx'.total = rx.total
  BY <1>1 DEF RxIdle, Typed, RxType
<1>5. RxStands'
  BY <1>1, <1>4 DEF RxStands
<1>6. FlowsAreTrue'
  BY <1>4, FlowsKept
<1>7. QED
  BY <1>3, <1>4, <1>5, <1>6, ReceiverMoves DEF RxOnly

LEMMA RxCheckKeeps == ASSUME IsoTpInv, RxCheck PROVE IsoTpInv'
<1>1. /\ rx' = RxIdle /\ RxOnly /\ fwd' = fwd /\ back' = back /\ fcOut' = fcOut
  BY DEF RxCheck, RxExpire, RxOnly, txVars
<1>2. QED
  BY <1>1, RxRests

LEMMA RxFlowKeeps ==
  ASSUME IsoTpInv, NEW st \in StMins, RxFlow(st)
  PROVE  IsoTpInv'
<1>1. Typed /\ RxStands
  BY DEF IsoTpInv
<1>2. RxOnly /\ fwd' = fwd /\ back' = back /\ fcOut = None
  BY DEF RxFlow, RxOnly, txVars
<1>3. CASE RxExpire /\ fcOut' = fcOut
  BY <1>2, <1>3, RxRests DEF RxExpire
<1>4. CASE /\ rx.state = "fc"
           /\ rx' = [rx EXCEPT !.state = "confirm", !.deadline = After(now, TimeoutA)]
           /\ fcOut' = Flow(rx.status, st, Asked)
  <2>1. After(now, TimeoutA) \in Time /\ rx \in RxType
    BY <1>1, AfterTyped, Constants DEF Typed
  <2>2. /\ rx' \in RxType /\ rx'.state = "confirm" /\ rx'.got = rx.got
        /\ rx'.total = rx.total /\ rx'.status = rx.status
    BY <1>4, <2>1 DEF RxType
  <2>3. rx.got # <<>> => Asked \in 1 .. Len(message) /\ Gathering(Asked)
    <3> SUFFICES ASSUME rx.got # <<>>
                 PROVE  Asked \in 1 .. Len(message) /\ Gathering(Asked)
      OBVIOUS
    <3>1. rx.got[1] \in UnitType /\ SentUnit(rx.got[1])
      BY <1>1, Places DEF IsoTpInv, GotIsOlder
    <3>2. Asked = rx.got[1][1]
      BY DEF Asked
    <3>3. Asked \in 1 .. Len(message)
      BY <3>1, <3>2, <1>1, LenProperties DEF UnitType, SentUnit, Typed
    <3>4. QED
      BY <3>2, <3>3 DEF Gathering
  <2>4. Asked \in Nat
    <3>1. CASE rx.got = <<>>
      BY <3>1 DEF Asked
    <3>2. CASE rx.got # <<>>
      BY <2>3, <3>2
    <3>3. QED
      BY <3>1, <3>2
  <2>5. /\ fcOut' \in FlowType /\ fcOut'.fs = rx.status /\ fcOut'.st = st
        /\ fcOut'.of = Asked
    BY <1>4, <2>1, <2>4 DEF Flow, FlowType, RxType
  <2>6. Typed'
    BY <1>1, <1>2, <2>2, <2>5, RxTyped DEF Typed
  <2>7. RxStands'
    BY <1>1, <1>4, <2>2 DEF RxStands
  <2>8. rx.status = "cts" => rx.got # <<>>
    BY <1>1, <1>4 DEF RxStands
  <2>9. FlowIsTrue(fcOut)'
    BY <1>2, <2>2, <2>3, <2>5, <2>8 DEF FlowIsTrue, Gathering, RxOnly
  <2>10. \A f : FlowIsTrue(f)' <=> FlowIsTrue(f)
    BY <1>2, <2>2 DEF FlowIsTrue, Gathering, RxOnly
  <2>11. FlowsAreTrue'
    BY <1>2, <2>9, <2>10 DEF IsoTpInv, FlowsAreTrue, FlowIsTrue, Gathering, RxOnly
  <2>12. QED
    BY <1>2, <2>2, <2>6, <2>7, <2>11, ReceiverMoves DEF RxOnly
<1>5. QED
  BY <1>3, <1>4 DEF RxFlow

LEMMA RxWireKeeps == ASSUME IsoTpInv, RxWire PROVE IsoTpInv'
<1>1. Typed /\ RxStands
  BY DEF IsoTpInv
<1>2. /\ RxOnly /\ fwd' = fwd /\ rx' = rx /\ fcOut' = Sent
      /\ (back' = back \/ back' = Append(back, fcOut))
  BY DEF RxWire, RxOnly
<1>3. fcOut \in FlowType /\ FlowIsTrue(fcOut) /\ back \in Seq(FlowType)
  BY <1>1, Places DEF RxWire, IsoTpInv, FlowsAreTrue, Typed
<1>4. /\ back' \in Seq(FlowType)
      /\ \A a \in DOMAIN back' : FlowIsTrue(back'[a])
  <2>1. \A a \in DOMAIN back : FlowIsTrue(back[a])
    BY DEF IsoTpInv, FlowsAreTrue
  <2>2. CASE back' = back
    BY <1>3, <2>1, <2>2
  <2>3. CASE back' = Append(back, fcOut)
    <3>1. DOMAIN back = 1 .. Len(back) /\ Len(back) \in Nat
      BY <1>3, LenProperties
    <3>2. \A a \in DOMAIN back' : a \in DOMAIN back \/ a = Len(back) + 1
      BY <1>3, <2>3, <3>1, Appended
    <3>3. QED
      BY <1>3, <2>1, <2>3, <3>1, <3>2, Appended
  <2>4. QED
    BY <1>2, <2>2, <2>3
<1>5. Typed'
  BY <1>1, <1>2, <1>4, RxTyped DEF Typed
<1>6. RxStands'
  BY <1>1, <1>2 DEF RxStands
<1>7. FlowsAreTrue'
  BY <1>2, <1>4 DEF FlowsAreTrue, FlowIsTrue, Gathering, RxOnly
<1>8. QED
  BY <1>2, <1>5, <1>6, <1>7, ReceiverMoves DEF RxOnly

LEMMA RxConfirmKeeps == ASSUME IsoTpInv, RxConfirm PROVE IsoTpInv'
<1>1. Typed /\ RxStands
  BY DEF IsoTpInv
<1>2. RxOnly /\ fwd' = fwd /\ back' = back /\ fcOut' = None
  BY DEF RxConfirm, RxOnly, txVars
<1>3. CASE rx' = RxIdle
  BY <1>2, <1>3, RxRests
<1>4. CASE rx' = rx
  <2>1. Typed'
    BY <1>1, <1>2, <1>4, RxTyped DEF Typed
  <2>2. RxStands'
    BY <1>1, <1>4 DEF RxStands
  <2>3. FlowsAreTrue'
    BY <1>2, <1>4, FlowsKept
  <2>4. QED
    BY <1>2, <1>4, <2>1, <2>2, <2>3, ReceiverMoves DEF RxOnly
<1>5. CASE /\ rx.state = "confirm" /\ rx.status # "overflow"
           /\ rx' = [rx EXCEPT !.state = "cf", !.deadline = After(now, TimeoutCr)]
  <2>1. After(now, TimeoutCr) \in Time /\ rx \in RxType
    BY <1>1, AfterTyped, Constants DEF Typed
  <2>2. /\ rx' \in RxType /\ rx'.state = "cf" /\ rx'.got = rx.got
        /\ rx'.total = rx.total /\ rx'.status = rx.status /\ rx.status = "cts"
    BY <1>5, <2>1 DEF RxType
  <2>3. Typed'
    BY <1>1, <1>2, <2>2, RxTyped DEF Typed
  <2>4. RxStands'
    BY <1>1, <1>5, <2>2 DEF RxStands
  <2>5. FlowsAreTrue'
    BY <1>2, <2>2, FlowsKept
  <2>6. QED
    BY <1>2, <2>2, <2>3, <2>4, <2>5, ReceiverMoves DEF RxOnly
<1>6. QED
  BY <1>3, <1>4, <1>5 DEF RxConfirm, RxExpire

LEMMA PeerWaitKeeps == ASSUME IsoTpInv, PeerWait PROVE IsoTpInv'
<1> DEFINE asked == Flow("wait", 0, Len(message))
<1>1. Typed /\ RxStands
  BY DEF IsoTpInv
<1>2. RxOnly /\ fwd' = fwd /\ rx' = rx /\ fcOut' = fcOut /\ back' = <<asked>>
  BY DEF PeerWait, RxOnly, rxVars
<1>3. asked \in FlowType /\ asked.fs = "wait"
  BY <1>1, LenProperties DEF Flow, FlowType, Typed
<1> HIDE DEF asked
<1>4. back' \in Seq(FlowType) /\ \A a \in DOMAIN back' : back'[a] = asked
  BY <1>2, <1>3
<1>5. Typed'
  BY <1>1, <1>2, <1>4, RxTyped DEF Typed
<1>6. RxStands'
  BY <1>1, <1>2 DEF RxStands
<1>7. FlowsAreTrue'
  BY <1>2, <1>3, <1>4 DEF IsoTpInv, FlowsAreTrue, FlowIsTrue, Gathering, RxOnly
<1>8. QED
  BY <1>2, <1>5, <1>6, <1>7, ReceiverMoves DEF RxOnly

-------------------------------------------------------------------------------
(* The frame at the head of the queue, and what is done with it. *)

Feeds ==
  /\ fwd # <<>> /\ fwd' = Tail(fwd)
  /\ UNCHANGED <<now, fcOut, txVars>>

\* Its unit comes after all that was taken, and before all that is on its way.
LEMMA HeadIsNext ==
  ASSUME IsoTpInv, Feeds
  PROVE  /\ Head(fwd) \in FrameType /\ FrameIsTrue(Head(fwd))
         /\ fwd' \in Seq(FrameType)
         /\ \A a \in DOMAIN fwd' :
              /\ \E b \in DOMAIN fwd : fwd'[a] = fwd[b]
              /\ fwd'[a].data \in UnitType /\ Before(Head(fwd).data, fwd'[a].data)
         /\ Carries => txOut.data \in UnitType /\ Before(Head(fwd).data, txOut.data)
         /\ \A k \in DOMAIN rx.got : Before(rx.got[k], Head(fwd).data)
         /\ Carries' = Carries /\ txOut' = txOut
         /\ StreamIsTrue'
<1>1. Typed
  BY DEF IsoTpInv
<1>2. /\ now' = now /\ fcOut' = fcOut /\ tx' = tx /\ txOut' = txOut
      /\ back' = back /\ message' = message /\ crossed' = crossed
  BY DEF Feeds, txVars
<1>3. /\ fwd \in Seq(FrameType) /\ DOMAIN fwd = 1 .. Len(fwd) /\ Len(fwd) \in Nat
      /\ fwd' \in Seq(FrameType) /\ DOMAIN fwd' = 1 .. Len(fwd)'
  BY <1>1, Taken, LenProperties DEF Typed, Feeds
<1>4. 1 \in DOMAIN fwd /\ Head(fwd) = fwd[1] /\ Head(fwd) \in FrameType
  BY <1>3, Taken DEF Feeds
<1>5. \A a \in DOMAIN fwd' : a + 1 \in DOMAIN fwd /\ fwd'[a] = fwd[a + 1]
  BY <1>3, Taken DEF Feeds
<1>6. \A a \in DOMAIN fwd : FrameIsTrue(fwd[a]) /\ fwd[a] \in FrameType
  BY <1>1, Places DEF IsoTpInv, StreamIsTrue
<1>7. \A a, b \in DOMAIN fwd : a < b => Before(fwd[a].data, fwd[b].data)
  BY DEF IsoTpInv, StreamIsTrue
<1>8. FrameIsTrue(Head(fwd))
  BY <1>4, <1>6
<1>9. ASSUME NEW a \in DOMAIN fwd'
      PROVE  /\ \E b \in DOMAIN fwd : fwd'[a] = fwd[b]
             /\ fwd'[a].data \in UnitType /\ Before(Head(fwd).data, fwd'[a].data)
  <2>1. a + 1 \in DOMAIN fwd /\ fwd'[a] = fwd[a + 1] /\ 1 < a + 1
    BY <1>3, <1>5
  <2>2. fwd'[a].data \in UnitType
    BY <1>6, <2>1, FrameFields
  <2>3. QED
    BY <1>4, <1>7, <2>1, <2>2
<1>10. /\ Carries => txOut.data \in UnitType /\ Before(Head(fwd).data, txOut.data)
       /\ \A k \in DOMAIN rx.got : Before(rx.got[k], Head(fwd).data)
  BY <1>1, <1>4, Places, FrameFields DEF IsoTpInv, StreamIsTrue, GotIsOlder
<1>11. Carries' = Carries
  BY <1>2 DEF Carries
<1>12. StreamIsTrue'
  <2>1. \A f : FrameIsTrue(f)' <=> FrameIsTrue(f)
    BY <1>2 DEF FrameIsTrue, SentUnit
  <2>2. \A a \in DOMAIN fwd' : FrameIsTrue(fwd'[a])
    BY <1>5, <1>6
  <2>3. Carries => FrameIsTrue(txOut) /\ \A a \in DOMAIN fwd' : Before(fwd'[a].data, txOut.data)
    BY <1>5 DEF IsoTpInv, StreamIsTrue
  <2>4. ASSUME NEW a \in DOMAIN fwd', NEW b \in DOMAIN fwd', a < b
        PROVE  Before(fwd'[a].data, fwd'[b].data)
    <3>1. a + 1 \in DOMAIN fwd /\ b + 1 \in DOMAIN fwd /\ a + 1 < b + 1
      BY <1>3, <1>5, <2>4
    <3>2. QED
      BY <1>5, <1>7, <3>1
  <2>5. QED
    BY <1>2, <1>11, <2>1, <2>2, <2>3, <2>4 DEF StreamIsTrue, FrameIsTrue, SentUnit
<1>13. QED
  BY <1>2, <1>3, <1>4, <1>8, <1>9, <1>10, <1>11, <1>12

LEMMA FeedTyped ==
  ASSUME IsoTpInv, Feeds, rx' \in RxType
  PROVE  Typed' /\ TxStands'
<1>1. /\ now' = now /\ fcOut' = fcOut /\ tx' = tx /\ txOut' = txOut
      /\ back' = back /\ message' = message /\ crossed' = crossed
  BY DEF Feeds, txVars
<1>2. Typed'
  BY <1>1, HeadIsNext DEF IsoTpInv, Typed, None, Sent
<1>3. TxStands'
  BY <1>1 DEF IsoTpInv, TxStands
<1>4. QED
  BY <1>2, <1>3

\* The frame is not used.
LEMMA SkipKeeps ==
  ASSUME IsoTpInv, Feeds, delivered' = delivered, rx' \in {rx, RxIdle}
  PROVE  IsoTpInv'
<1>1. Typed /\ RxStands
  BY DEF IsoTpInv
<1>2. /\ now' = now /\ fcOut' = fcOut /\ tx' = tx /\ txOut' = txOut
      /\ back' = back /\ message' = message /\ crossed' = crossed
  BY DEF Feeds, txVars
<1>3. /\ rx' \in RxType /\ rx'.got = rx.got /\ rx'.total = rx.total
      /\ rx'.status = rx.status /\ rx'.state \in {rx.state, "idle"}
  BY <1>1, RestTyped DEF RxIdle, Typed, RxType
<1>4. Typed' /\ TxStands'
  BY <1>3, FeedTyped
<1>5. RxStands'
  BY <1>1, <1>3 DEF RxStands
<1>6. StreamIsTrue'
  BY HeadIsNext
<1>7. GotIsOlder'
  BY <1>2, <1>3, HeadIsNext DEF IsoTpInv, GotIsOlder, SentUnit
<1>8. FlowsAreTrue'
  BY <1>2, <1>3 DEF IsoTpInv, FlowsAreTrue, FlowIsTrue, Gathering
<1>9. ASSUME ~crossed PROVE PartsAreAsked' /\ GotIsTrue'
  <2>1. \A m : Gathering(m)' <=> Gathering(m)
    BY <1>3 DEF Gathering
  <2>2. PartsAreAsked'
    <3>1. PartsAreAsked
      BY <1>9 DEF IsoTpInv
    <3>2. \A a \in DOMAIN fwd' : fwd'[a].data[2] # 1 => Gathering(fwd'[a].data[1])
      BY <3>1, HeadIsNext DEF PartsAreAsked
    <3>3. Carries' = Carries
      BY HeadIsNext
    <3>4. QED
      BY <1>2, <2>1, <3>1, <3>2, <3>3 DEF PartsAreAsked
  <2>3. GotIsTrue'
    BY <1>2, <1>3, <1>9 DEF IsoTpInv, GotIsTrue
  <2>4. QED
    BY <2>2, <2>3
<1>10. WholeOrNothing'
  BY <1>2 DEF IsoTpInv, WholeOrNothing, Whole
<1>11. QED
  BY <1>2, <1>4, <1>5, <1>6, <1>7, <1>8, <1>9, <1>10 DEF IsoTpInv

\* A frame that begins a message replaces what was being gathered, and nothing
\* that was asked for of that message is on its way any more.
LEMMA FirstKeeps ==
  ASSUME IsoTpInv, Feeds, TakeFirst(Head(fwd))
  PROVE  IsoTpInv'
<1> DEFINE f == Head(fwd)
           n == f.data[1]
<1>1. Typed
  BY DEF IsoTpInv
<1>2. /\ now' = now /\ fcOut' = fcOut /\ tx' = tx /\ txOut' = txOut
      /\ back' = back /\ message' = message /\ crossed' = crossed
  BY DEF Feeds, txVars
<1>3. /\ f \in FrameType /\ FrameIsTrue(f) /\ f.kind \in {"single", "first"}
      /\ f.data \in UnitType /\ f.size \in Nat
  BY HeadIsNext, FrameFields DEF TakeFirst
<1>4. /\ f.data[2] = 1 /\ n \in 1 .. Len(message) /\ f.data = <<n, 1>>
      /\ f.size = message[n] /\ message[n] \in Nat \ {0}
      /\ (f.kind = "single") <=> message[n] = 1
  <2>1. n \in 1 .. Len(message)
    BY <1>1, <1>3, LenProperties DEF FrameIsTrue, SentUnit, UnitType, Typed
  <2>2. message[n] \in Nat \ {0}
    <3>1. message \in Seq(Sizes)
      BY <1>1 DEF Typed
    <3>2. message[n] \in Sizes
      BY <2>1, <3>1, ElementOfSeq
    <3>3. QED
      BY <3>2, Constants
  <2>3. QED
    BY <1>3, <2>1, <2>2 DEF FrameIsTrue, UnitType
<1>5. <<f.data>> \in Seq(UnitType) /\ Append(<<>>, f.data) = <<f.data>>
      /\ Len(<<f.data>>) = 1
  BY <1>3
<1>6. /\ rx' \in RxType /\ rx'.total = f.size
      /\ rx'.state \in {"idle", "fc"}
      /\ \/ rx'.got = <<>> /\ (rx'.state = "fc" => rx'.status = "overflow")
         \/ rx'.got = <<f.data>> /\ (rx'.state = "fc" => rx'.status = "cts" /\ f.kind = "first")
      /\ delivered' = delivered \/ (delivered' = <<f.data>> /\ f.kind = "single")
  <2> DEFINE fresh == Afresh(f)
             asking == [fresh EXCEPT !.state = "fc", !.deadline = After(now, TimeoutA)]
  <2>1. rx \in RxType /\ After(now, TimeoutA) \in Time
    BY <1>1, AfterTyped, Constants DEF Typed
  <2>2. /\ fresh \in RxType /\ fresh.state = "idle" /\ fresh.total = f.size
        /\ fresh.got = <<>>
    <3>1. f.size \in Nat /\ <<>> \in Seq(UnitType)
      BY <1>3
    <3>2. QED
      BY <2>1, <3>1 DEF Afresh, RxType
  <2>3. /\ asking \in RxType /\ asking.state = "fc" /\ asking.total = f.size
        /\ asking.got = <<>>
    BY <2>1, <2>2 DEF RxType
  <2> HIDE DEF fresh
  <2>4. CASE /\ rx' = IF f.kind = "first" THEN [asking EXCEPT !.status = "overflow"]
                      ELSE fresh
             /\ delivered' = delivered
    <3>1. CASE f.kind = "first"
      BY <2>3, <2>4, <3>1 DEF RxType
    <3>2. CASE f.kind # "first"
      BY <2>2, <2>4, <3>2 DEF RxType
    <3>3. QED
      BY <3>1, <3>2
  <2>5. CASE /\ f.kind = "single"
             /\ rx' = [fresh EXCEPT !.got = Append(@, f.data)]
             /\ delivered' = rx'.got
    BY <1>5, <2>2, <2>5 DEF RxType
  <2>6. CASE /\ f.kind = "first"
             /\ rx' = [asking EXCEPT !.got = Append(@, f.data), !.seq = 1 % SnMod,
                                     !.block = 0, !.status = "cts"]
             /\ delivered' = delivered
    BY ZenonT(30), <1>5, <2>3, <2>6, OneTyped DEF RxType
  <2>7. QED
    BY <2>4, <2>5, <2>6 DEF TakeFirst, fresh
<1> HIDE DEF f
<1>7. Typed' /\ TxStands'
  BY <1>6, FeedTyped
<1>8. RxStands'
  <2>1. CASE rx'.got = <<>>
    BY <1>3, <1>6, <2>1 DEF RxStands
  <2>2. CASE rx'.got = <<f.data>>
    <3>1. Len(rx'.got) = 1 /\ rx'.got # <<>> /\ rx'.total \in Nat \ {0}
      BY <1>4, <1>5, <1>6, <2>2
    <3>2. rx'.state = "fc" => rx'.status = "cts" /\ rx'.total # 1
      BY <1>4, <1>6, <2>2
    <3>3. QED
      BY <1>6, <3>1, <3>2 DEF RxStands
  <2>3. QED
    BY <1>6, <2>1, <2>2
<1>9. StreamIsTrue'
  BY HeadIsNext
<1>10. /\ DOMAIN rx'.got \subseteq {1}
       /\ \A k \in DOMAIN rx'.got : rx'.got[k] = f.data
  <2>1. CASE rx'.got = <<>>
    BY <2>1
  <2>2. CASE rx'.got = <<f.data>>
    BY <2>2
  <2>3. QED
    BY <1>6, <2>1, <2>2
<1>11. GotIsOlder'
  <2>1. SentUnit(f.data)
    BY <1>3 DEF FrameIsTrue
  <2>2. QED
    BY <1>2, <1>10, <2>1, HeadIsNext DEF GotIsOlder, SentUnit, f
\* What was gathered is of an earlier message.
<1>12. \A m \in Nat : Gathering(m) => m < n
  <2> SUFFICES ASSUME NEW m \in Nat, Gathering(m) PROVE m < n
    OBVIOUS
  <2>1. rx.got[1] \in UnitType /\ rx.got[1][1] = m /\ Before(rx.got[1], f.data)
    BY <1>1, Places, HeadIsNext DEF Gathering, f
  <2>2. QED
    BY <1>4, <2>1 DEF Before, UnitType
<1>13. FlowsAreTrue'
  <2>1. ASSUME NEW g, FlowIsTrue(g) PROVE FlowIsTrue(g)'
    <3> SUFFICES ASSUME g.fs = "cts"
                 PROVE  /\ g.st \in StMins /\ g.of \in 1 .. Len(message)
                        /\ g.of = Len(message) => Gathering(g.of)'
      BY <1>2 DEF FlowIsTrue
    <3>1. g.st \in StMins /\ g.of \in 1 .. Len(message)
      BY <2>1 DEF FlowIsTrue
    <3>2. g.of # Len(message)
      BY <1>1, <1>4, <1>12, <2>1, LenProperties DEF FlowIsTrue, Typed
    <3>3. QED
      BY <3>1, <3>2
  <2>2. QED
    BY <1>2, <2>1 DEF IsoTpInv, FlowsAreTrue, FlowIsTrue
<1>14. ASSUME ~crossed PROVE PartsAreAsked' /\ GotIsTrue'
  <2>1. PartsAreAsked
    BY <1>14 DEF IsoTpInv
  <2>2. ~(tx.state = "cf" \/ (tx.state = "confirm" /\ tx.pendingCf))
    BY <1>1, <1>4, <1>12, <2>1, LenProperties DEF PartsAreAsked, Typed
  <2>3. ASSUME NEW u \in UnitType, Before(f.data, u), u[2] # 1 => Gathering(u[1])
        PROVE  u[2] = 1
    BY <1>4, <1>12, <2>3 DEF Before, UnitType
  <2>4. \A a \in DOMAIN fwd' : fwd'[a].data[2] = 1
    BY <2>1, <2>3, HeadIsNext DEF PartsAreAsked, f
  <2>5. Carries => txOut.data[2] = 1
    BY <2>1, <2>3, HeadIsNext DEF PartsAreAsked, f
  <2>6. PartsAreAsked'
    BY <1>2, <2>2, <2>4, <2>5, HeadIsNext DEF PartsAreAsked
  <2>7. GotIsTrue'
    <3> SUFFICES ASSUME rx'.got # <<>> PROVE GotIsTrue'
      BY DEF GotIsTrue
    <3>1. rx'.got = <<f.data>> /\ rx'.got[1] = f.data /\ rx'.total = message[n]
      BY <1>4, <1>6
    <3>2. DOMAIN rx'.got = {1} /\ Len(rx'.got) = 1
      BY <1>5, <3>1
    <3>3. QED
      BY <1>2, <1>4, <3>1, <3>2 DEF GotIsTrue
  <2>8. QED
    BY <2>6, <2>7
<1>15. WholeOrNothing'
  <2>1. CASE delivered' = delivered
    BY <1>2, <2>1 DEF IsoTpInv, WholeOrNothing, Whole
  <2>2. CASE delivered' = <<f.data>> /\ f.kind = "single"
    <3>1. Whole(n) = <<f.data>>
      <4>1. Whole(n) = [i \in {1} |-> <<n, i>>]
        BY <1>4, <2>2 DEF Whole
      <4>2. <<f.data>> = [i \in {1} |-> <<n, i>>]
        BY <1>4
      <4>3. QED
        BY <4>1, <4>2
    <3>2. n \in DOMAIN message
      BY <1>1, <1>4, LenProperties DEF Typed
    <3>3. QED
      BY <1>2, <2>2, <3>1, <3>2 DEF WholeOrNothing, Whole
  <2>3. QED
    BY <1>6, <2>1, <2>2
<1>16. QED
  BY <1>2, <1>7, <1>8, <1>9, <1>11, <1>13, <1>14, <1>15 DEF IsoTpInv

\* A frame that goes on belongs to what is being gathered, if no flow control
\* crossed; the last one makes it whole.
LEMMA NextKeeps ==
  ASSUME IsoTpInv, Feeds, TakeNext(Head(fwd))
  PROVE  IsoTpInv'
<1> DEFINE f == Head(fwd)
           L == Len(rx.got)
           m == rx.got[1][1]
           r == [rx EXCEPT !.got = Append(@, f.data), !.seq = (@ + 1) % SnMod]
<1>1. Typed /\ RxStands
  BY DEF IsoTpInv
<1>2. /\ now' = now /\ fcOut' = fcOut /\ tx' = tx /\ txOut' = txOut
      /\ back' = back /\ message' = message /\ crossed' = crossed
  BY DEF Feeds, txVars
<1>3. /\ f \in FrameType /\ FrameIsTrue(f) /\ f.kind = "next"
      /\ f.data \in UnitType /\ SentUnit(f.data)
  BY HeadIsNext, FrameFields DEF TakeNext, FrameIsTrue
<1>4. /\ rx.state = "cf" /\ rx.status = "cts" /\ rx.got # <<>>
      /\ L \in Nat \ {0} /\ L < rx.total /\ rx.total \in Nat
      /\ rx.got \in Seq(UnitType) /\ DOMAIN rx.got = 1 .. L
      /\ 1 \in DOMAIN rx.got /\ L \in DOMAIN rx.got
      /\ \A k \in DOMAIN rx.got : rx.got[k] \in UnitType
  BY <1>1, Places DEF TakeNext, RxStands, Typed, RxType
<1>5. /\ r \in RxType /\ r.got = Append(rx.got, f.data) /\ r.total = rx.total
      /\ r.status = "cts" /\ r.state = "cf" /\ r.block = rx.block
  <2>1. (rx.seq + 1) % SnMod \in 0 .. SnMod - 1 /\ rx \in RxType
    BY <1>1, SequenceTyped, Constants DEF Typed, RxType
  <2>2. Append(rx.got, f.data) \in Seq(UnitType)
    BY <1>3, <1>4, Appended
  <2>3. QED
    BY <1>4, <2>1, <2>2 DEF RxType
<1>6. \/ Complete(r) /\ rx' = [r EXCEPT !.state = "idle"] /\ delivered' = r.got
      \/ /\ ~Complete(r) /\ delivered' = delivered
         /\ rx' = IF BlockSize # 0 /\ rx.block + 1 = BlockSize
                  THEN [r EXCEPT !.state = "fc", !.block = 0,
                                 !.deadline = After(now, TimeoutA)]
                  ELSE [r EXCEPT !.block = IF BlockSize = 0 THEN @ ELSE @ + 1,
                                 !.deadline = After(now, TimeoutCr)]
  BY DEF TakeNext
<1> HIDE DEF r, f
<1>7. /\ r.got \in Seq(UnitType) /\ Len(r.got) = L + 1 /\ r.got # <<>>
      /\ DOMAIN r.got = 1 .. L + 1 /\ r.got[L + 1] = f.data
      /\ \A k \in 1 .. L : r.got[k] = rx.got[k]
  BY <1>3, <1>4, <1>5, Appended
<1>8. /\ rx' \in RxType /\ rx'.got = r.got /\ rx'.total = rx.total
      /\ rx'.status = "cts"
      /\ IF rx'.state = "idle" THEN Len(r.got) = rx.total /\ delivered' = r.got
         ELSE Len(r.got) # rx.total /\ delivered' = delivered
  <2>1. CASE Complete(r) /\ rx' = [r EXCEPT !.state = "idle"] /\ delivered' = r.got
    BY <1>5, <2>1 DEF Complete, RxType
  <2>2. CASE ~Complete(r) /\ delivered' = delivered /\ rx' # [r EXCEPT !.state = "idle"]
    <3>1. /\ After(now, TimeoutA) \in Time /\ After(now, TimeoutCr) \in Time
          /\ rx.block \in Nat
      BY <1>1, AfterTyped, Constants DEF Typed, RxType
    <3>2. CASE rx' = [r EXCEPT !.state = "fc", !.block = 0,
                               !.deadline = After(now, TimeoutA)]
      BY <1>5, <2>2, <3>1, <3>2 DEF Complete, RxType
    <3>3. ASSUME NEW b \in Nat, rx' = [r EXCEPT !.block = b,
                                                !.deadline = After(now, TimeoutCr)]
          PROVE  /\ rx' \in RxType /\ rx'.got = r.got /\ rx'.total = rx.total
                 /\ rx'.status = "cts" /\ rx'.state = "cf"
      BY <1>5, <3>1, <3>3 DEF RxType
    <3>4. (IF BlockSize = 0 THEN r.block ELSE r.block + 1) \in Nat
      BY <1>5, <3>1
    <3>5. CASE rx' = [r EXCEPT !.block = IF BlockSize = 0 THEN @ ELSE @ + 1,
                               !.deadline = After(now, TimeoutCr)]
      BY <1>5, <2>2, <3>3, <3>4, <3>5 DEF Complete
    <3>6. QED
      BY <1>6, <2>2, <3>2, <3>5
  <2>3. CASE ~Complete(r) /\ delivered' = delivered /\ rx' = [r EXCEPT !.state = "idle"]
    <3>1. rx'.state = "idle"
      BY <1>5, <2>3 DEF RxType
    <3>2. rx'.state # "idle"
      BY <1>5, <1>6, <2>3 DEF RxType
    <3>3. QED
      BY <3>1, <3>2
  <2>4. QED
    BY <1>6, <2>1, <2>2, <2>3
<1>9. Typed' /\ TxStands'
  BY <1>8, FeedTyped
<1>10. RxStands'
  BY <1>4, <1>7, <1>8 DEF RxStands
<1>11. StreamIsTrue'
  BY HeadIsNext
<1>12. \A k \in DOMAIN r.got : (k \in DOMAIN rx.got /\ r.got[k] = rx.got[k]) \/ r.got[k] = f.data
  BY <1>4, <1>7
<1>13. GotIsOlder'
  <2>1. \A k \in DOMAIN r.got : SentUnit(r.got[k])
    BY <1>3, <1>12 DEF IsoTpInv, GotIsOlder
  <2>2. \A k \in DOMAIN r.got : \A a \in DOMAIN fwd' : Before(r.got[k], fwd'[a].data)
    BY <1>12, HeadIsNext DEF IsoTpInv, GotIsOlder, f
  <2>3. \A k \in DOMAIN r.got : Carries => Before(r.got[k], txOut.data)
    BY <1>12, HeadIsNext DEF IsoTpInv, GotIsOlder, f
  <2>4. QED
    BY <1>2, <1>8, <2>1, <2>2, <2>3, HeadIsNext DEF GotIsOlder, SentUnit
<1>14. \A x : Gathering(x)' <=> Gathering(x)
  BY <1>4, <1>7, <1>8 DEF Gathering
<1>15. FlowsAreTrue'
  BY <1>2, <1>14 DEF IsoTpInv, FlowsAreTrue, FlowIsTrue
<1>16. ASSUME ~crossed PROVE PartsAreAsked' /\ GotIsTrue' /\ WholeOrNothing'
  <2>1. PartsAreAsked /\ GotIsTrue
    BY <1>16 DEF IsoTpInv
  <2>2. PartsAreAsked'
    <3>1. \A a \in DOMAIN fwd' : fwd'[a].data[2] # 1 => Gathering(fwd'[a].data[1])
      BY <2>1, HeadIsNext DEF PartsAreAsked
    <3>2. Carries' = Carries
      BY HeadIsNext
    <3>3. QED
      BY <1>2, <1>14, <2>1, <3>1, <3>2 DEF PartsAreAsked
  <2>3. f.data[1] = m
    <3>1. f.data[2] # 1
      BY <1>3 DEF FrameIsTrue
    <3>2. 1 \in DOMAIN fwd /\ f = fwd[1]
      BY <1>1, Taken DEF Typed, Feeds, f
    <3>3. Gathering(f.data[1])
      BY <2>1, <3>1, <3>2 DEF PartsAreAsked
    <3>4. QED
      BY <3>3 DEF Gathering
  <2>4. /\ rx.got[1][2] = 1 /\ rx.total = message[m]
        /\ \A k \in 1 .. L :
             /\ rx.got[k][1] = m /\ rx.got[k][2] >= k /\ rx.got[k][2] \in Nat
             /\ rx.got[k][2] + (L - k) <= rx.got[L][2]
    BY <1>4, <2>1 DEF GotIsTrue, UnitType
  <2> HIDE DEF L, m
\* The new unit is beyond the last one gathered.
  <2>5. f.data[2] \in Nat /\ rx.got[L][2] < f.data[2]
    <3>1. Before(rx.got[L], f.data) /\ rx.got[L][1] = m
      BY <1>4, <2>4, HeadIsNext DEF f
    <3>2. m \in Nat
      BY <1>4 DEF UnitType, m
    <3>3. QED
      BY <1>3, <2>3, <3>1, <3>2 DEF Before, UnitType
  <2>6. \A k \in 1 .. L + 1 :
          /\ r.got[k][1] = m /\ r.got[k][2] >= k /\ r.got[k][2] \in Nat
          /\ r.got[k][2] + (L + 1 - k) <= f.data[2]
    <3>1. ASSUME NEW k \in 1 .. L
          PROVE  /\ r.got[k][1] = m /\ r.got[k][2] >= k /\ r.got[k][2] \in Nat
                 /\ r.got[k][2] + (L + 1 - k) <= f.data[2]
      <4>1. L \in 1 .. L /\ rx.got[L][2] \in Nat
        BY <1>4, <2>4
      <4>2. /\ rx.got[k][1] = m /\ rx.got[k][2] >= k /\ rx.got[k][2] \in Nat
            /\ rx.got[k][2] + (L - k) <= rx.got[L][2]
        BY <2>4
      <4>3. r.got[k] = rx.got[k]
        BY <1>7
      <4>4. \A x, l, e \in Nat : x + (L - k) <= l /\ l < e => x + (L + 1 - k) <= e
        BY <1>4
      <4>5. QED
        BY <2>5, <4>1, <4>2, <4>3, <4>4
    <3>2. /\ r.got[L + 1][1] = m /\ r.got[L + 1][2] >= L + 1
          /\ r.got[L + 1][2] = f.data[2]
      <4>1. L \in 1 .. L /\ rx.got[L][2] >= L /\ rx.got[L][2] \in Nat
        BY <1>4, <2>4
      <4>2. r.got[L + 1] = f.data
        BY <1>7
      <4>3. \A x, e \in Nat : x >= L /\ x < e => e >= L + 1
        BY <1>4
      <4>4. QED
        BY <2>3, <2>5, <4>1, <4>2, <4>3
    <3>3. \A k \in 1 .. L + 1 : k \in 1 .. L \/ k = L + 1
      BY <1>4
    <3>4. L + 1 - (L + 1) = 0 /\ f.data[2] + 0 <= f.data[2]
      BY <1>4, <2>5
    <3>5. QED
      BY <2>5, <3>1, <3>2, <3>3, <3>4
  <2>7. GotIsTrue'
    <3>1. rx'.got[1][1] = m /\ rx'.got[1][2] = 1
      BY <1>4, <1>7, <1>8, <2>4
    <3>2. rx'.total = message'[m]
      BY <1>2, <1>8, <2>4
    <3>3. Len(rx'.got) = L + 1 /\ DOMAIN rx'.got = 1 .. L + 1
          /\ rx'.got[Len(rx'.got)] = f.data
      BY <1>7, <1>8
    <3>4. \A k \in DOMAIN rx'.got :
            /\ rx'.got[k][1] = m /\ rx'.got[k][2] >= k
            /\ rx'.got[k][2] + (Len(rx'.got) - k) <= rx'.got[Len(rx'.got)][2]
      <4>1. rx'.got = r.got /\ Len(rx'.got) = L + 1 /\ rx'.got[Len(rx'.got)] = f.data
        BY <1>8, <3>3
      <4>2. DOMAIN rx'.got = 1 .. L + 1
        BY <3>3
      <4>3. SUFFICES
              ASSUME NEW k \in 1 .. L + 1
              PROVE  /\ rx'.got[k][1] = m /\ rx'.got[k][2] >= k
                     /\ rx'.got[k][2] + (Len(rx'.got) - k) <= rx'.got[Len(rx'.got)][2]
        BY <4>2
      <4>4. rx'.got[k] = r.got[k] /\ Len(rx'.got) - k = L + 1 - k
        <5>1. L \in Nat /\ k \in Nat
          BY <1>4
        <5>2. Len(rx'.got) - k = L + 1 - k
          BY <4>1, <5>1
        <5>3. QED
          BY <4>1, <5>2, Zenon
      <4>5. rx'.got[Len(rx'.got)][2] = f.data[2]
        BY <4>1
      <4>6. QED
        BY <2>6, <4>4, <4>5, Zenon
    <3>5. QED
      BY <3>1, <3>2, <3>4 DEF GotIsTrue
  <2>8. WholeOrNothing'
    <3>1. CASE rx'.state # "idle"
      BY <1>2, <1>8, <3>1 DEF IsoTpInv, WholeOrNothing, Whole
    <3>2. CASE rx'.state = "idle"
      <4>1. delivered' = r.got /\ L + 1 = rx.total /\ message[m] = L + 1
        BY <1>7, <1>8, <2>4, <3>2
      <4>2. m \in 1 .. Len(message) /\ m \in DOMAIN message /\ f.data[2] <= message[m]
        BY <1>1, <1>3, <2>3, LenProperties DEF SentUnit, UnitType, Typed
      <4>3. \A k \in 1 .. L + 1 : r.got[k] = <<m, k>>
        <5> SUFFICES ASSUME NEW k \in 1 .. L + 1 PROVE r.got[k] = <<m, k>>
          OBVIOUS
        <5>1. r.got[k] \in UnitType
          BY <1>7, ElementOfSeq
        <5>2. /\ r.got[k][1] = m /\ r.got[k][2] >= k /\ r.got[k][2] \in Nat
              /\ r.got[k][2] + (L + 1 - k) <= f.data[2]
          BY <2>6
        <5>3. f.data[2] <= L + 1
          BY <4>1, <4>2
        <5>4. \A x, e \in Nat : x + (L + 1 - k) <= e /\ e <= L + 1 /\ x >= k => x = k
          BY <1>4
        <5>5. r.got[k][2] = k
          BY <2>5, <5>2, <5>3, <5>4
        <5>6. QED
          BY <5>1, <5>2, <5>5 DEF UnitType
      <4>4. r.got = [k \in 1 .. L + 1 |-> <<m, k>>]
        <5>1. r.got = [k \in 1 .. L + 1 |-> r.got[k]]
          BY <1>7, LenProperties
        <5>2. QED
          BY <4>3, <5>1
      <4>5. r.got = Whole(m)
        BY <4>1, <4>4 DEF Whole
      <4>6. QED
        BY <1>2, <4>1, <4>2, <4>5 DEF WholeOrNothing, Whole
    <3>3. QED
      BY <3>1, <3>2
  <2>9. QED
    BY <2>2, <2>7, <2>8
<1>17. CASE crossed
  <2>1. crossed' /\ WholeOrNothing'
    BY <1>2, <1>17 DEF WholeOrNothing
  <2>2. QED
    BY <1>9, <1>10, <1>11, <1>13, <1>15, <2>1 DEF IsoTpInv
<1>18. CASE ~crossed
  BY <1>2, <1>9, <1>10, <1>11, <1>13, <1>15, <1>16, <1>18 DEF IsoTpInv
<1>19. QED
  BY <1>17, <1>18

LEMMA RxFeedKeeps == ASSUME IsoTpInv, RxFeed PROVE IsoTpInv'
<1>1. Feeds
  BY DEF RxFeed, Feeds
<1>2. CASE delivered' = delivered /\ rx' \in {rx, RxIdle}
  BY <1>1, <1>2, SkipKeeps
<1>3. CASE TakeFirst(Head(fwd))
  BY <1>1, <1>3, FirstKeeps
<1>4. CASE TakeNext(Head(fwd))
  BY <1>1, <1>4, NextKeeps
<1>5. QED
  BY <1>2, <1>3, <1>4 DEF RxFeed, RxExpire, OutOfStep

-------------------------------------------------------------------------------
(* The theorem. *)

LEMMA TickKeeps == ASSUME IsoTpInv, Tick PROVE IsoTpInv'
<1>1. /\ now' = After(now, 1) /\ fwd' = fwd /\ back' = back /\ tx' = tx
      /\ rx' = rx /\ txOut' = txOut /\ fcOut' = fcOut /\ message' = message
      /\ delivered' = delivered /\ crossed' = crossed
  BY DEF Tick, txVars, rxVars
<1>2. After(now, 1) \in Time
  BY AfterTyped, Constants DEF IsoTpInv, Typed
<1>3. Typed'
  BY <1>1, <1>2 DEF IsoTpInv, Typed
<1>4. TxStands' /\ RxStands'
  BY <1>1 DEF IsoTpInv, TxStands, RxStands
<1>5. FlowsAreTrue'
  BY <1>1 DEF IsoTpInv, FlowsAreTrue, FlowIsTrue, Gathering
<1>6. QED
  BY <1>1, <1>3, <1>4, <1>5, ReceiverMoves

LEMMA StepKeeps == IsoTpInv /\ [IsoNext]_isoVars => IsoTpInv'
<1> SUFFICES ASSUME IsoTpInv, [IsoNext]_isoVars PROVE IsoTpInv'
  OBVIOUS
<1>1. CASE TxCheck
  BY <1>1, TxCheckKeeps
<1>2. CASE TxNext
  BY <1>2, TxNextKeeps
<1>3. CASE TxWire
  BY <1>3, TxWireKeeps
<1>4. CASE TxConfirm
  BY <1>4, TxConfirmKeeps
<1>5. CASE TxFlow
  BY <1>5, TxFlowKeeps
<1>6. CASE \E n \in Sizes : Start(n)
  BY <1>6, StartKeeps
<1>7. CASE RxCheck
  BY <1>7, RxCheckKeeps
<1>8. CASE RxFeed
  BY <1>8, RxFeedKeeps
<1>9. CASE RxWire
  BY <1>9, RxWireKeeps
<1>10. CASE RxConfirm
  BY <1>10, RxConfirmKeeps
<1>11. CASE PeerWait
  BY <1>11, PeerWaitKeeps
<1>12. CASE \E st \in StMins : RxFlow(st)
  BY <1>12, RxFlowKeeps
<1>13. CASE Tick
  BY <1>13, TickKeeps
<1>14. CASE UNCHANGED isoVars
  <2>1. /\ now' = now /\ fwd' = fwd /\ back' = back /\ tx' = tx
        /\ rx' = rx /\ txOut' = txOut /\ fcOut' = fcOut /\ message' = message
        /\ delivered' = delivered /\ crossed' = crossed
    BY <1>14 DEF isoVars
  <2>2. Typed'
    BY <2>1 DEF IsoTpInv, Typed
  <2>3. RxStands'
    BY <2>1 DEF IsoTpInv, RxStands
  <2>4. FlowsAreTrue'
    BY <2>1 DEF IsoTpInv, FlowsAreTrue, FlowIsTrue, Gathering
  <2>5. QED
    BY <2>1, <2>2, <2>3, <2>4, ReceiverMoves
<1>15. QED
  BY <1>1, <1>2, <1>3, <1>4, <1>5, <1>6, <1>7, <1>8, <1>9, <1>10, <1>11, <1>12,
     <1>13, <1>14 DEF IsoNext, Sender, Receiver

LEMMA IsoTpHolds == IsoSpec => []IsoTpInv
BY InitIsoTp, StepKeeps, PTL DEF IsoSpec

LEMMA DeliveryFollows == IsoTpInv => DeliveryIsTrue
<1> SUFFICES ASSUME IsoTpInv PROVE DeliveryIsTrue
  OBVIOUS
<1>1. Typed /\ TxStands /\ RxStands /\ WholeOrNothing
  BY DEF IsoTpInv
<1>2. /\ tx.state \in {"idle", "ready", "confirm", "fc", "cf"}
      /\ {tx.deadline, tx.next, tx.lastCf, rx.deadline} \subseteq Time
      /\ {tx.seq, rx.seq} \subseteq 0 .. SnMod - 1
      /\ rx.state \in {"idle", "fc", "confirm", "cf"}
      /\ rx.status \in {"cts", "overflow"}
  BY <1>1 DEF Typed, TxType, RxType
<1>3. tx.offset \in 0 .. tx.total /\ tx.waits \in 0 .. WaitLimit + 1
  BY <1>1, Constants DEF Typed, TxType, TxStands
<1>4. QED
  BY <1>1, <1>2, <1>3 DEF DeliveryIsTrue, IsoTpTypeOK, Typed, RxStands

\* A message handed over is one that was sent, whole and in order, and both
\* machines are in a state isotp.h names, for any number and size of messages,
\* whatever the bus loses and whenever a machine gives up
\* (isotp_tx_next(), isotp_rx_feed(), segment_copy()).
THEOREM DeliveryTheorem == IsoSpec => []DeliveryIsTrue
BY IsoTpHolds, DeliveryFollows, PTL

-------------------------------------------------------------------------------
(***************************************************************************)
(* IsoTp: the separation the receiver asked for, at any size of the clock  *)
(* and wherever it stands and wraps.  The code compares two times by the   *)
(* sign of their difference, so what holds a sender up has to be less than *)
(* half the clock; times are counted from the last consecutive frame on.   *)
(***************************************************************************)

\* A receiver that keeps a sender waiting does so for less than half the clock.
\* In the code: wait_limit of 255 and timeout_bs_us of 60 s are far more than
\* the 36 minutes that half of 2^32 us is; the usual ones are far less.
WaitsFit ==
  \A gap \in StMins \cup {1} :
    2 * (gap + (WaitLimit + 1) * (TimeoutBs + Slack) + 2 * Slack) <= ClockMod

Polled == TimeoutBs + Slack
\* With the times counted from the last consecutive frame on: now and the
\* deadline of a flow control, or the time of the next frame.
AwaitsFlow(e, d) ==
  /\ now = After(tx.lastCf, e) /\ tx.deadline = After(tx.lastCf, d)
  /\ d <= (tx.waits + 1) * Polled /\ e <= d + Slack
AwaitsTurn(e, n) ==
  /\ now = After(tx.lastCf, e) /\ tx.next = After(tx.lastCf, n)
  /\ tx.sep <= n /\ 2 * (n + Slack) <= ClockMod /\ e <= n + Slack
SpacingFits ==
  /\ tx.state = "ready" => ~tx.sentCf
  /\ tx.state = "confirm" /\ ~tx.pendingCf => ~tx.sentCf
  /\ tx.state = "cf" \/ (tx.state = "confirm" /\ tx.pendingCf) => tx.sep \in StMins
  /\ tx.state = "fc" /\ tx.sentCf => \E e, d \in Nat : AwaitsFlow(e, d)
  /\ tx.state = "cf" /\ tx.sentCf => \E e, n \in Nat : AwaitsTurn(e, n)

LEMMA Wrapped ==
  ASSUME NEW m \in Nat \ {0}, NEW a \in 0 .. m - 1
  PROVE  a % m = a /\ (a + m) % m = a /\ (a - m) % m = a
BY SMTT(30)

LEMMA AfterIs ==
  ASSUME NEW l \in Time, NEW e \in Nat, e < ClockMod
  PROVE  /\ After(l, e) = IF l + e < ClockMod THEN l + e ELSE l + e - ClockMod
         /\ After(l, e) \in Time
<1> DEFINE M == ClockMod
<1>1. M \in Nat \ {0} /\ l \in 0 .. M - 1
  BY Constants DEF Time
<1> HIDE DEF M
<1>2. CASE l + e < M
  BY <1>1, <1>2, Wrapped DEF After, M, Time
<1>3. CASE ~(l + e < M)
  <2>1. l + e - M \in 0 .. M - 1 /\ (l + e - M) + M = l + e
    BY <1>1, <1>3 DEF M
  <2>2. (l + e) % M = l + e - M
    BY <1>1, <2>1, Wrapped
  <2>3. QED
    BY <1>1, <1>3, <2>1, <2>2 DEF After, M, Time
<1>4. QED
  BY <1>2, <1>3 DEF M

LEMMA AfterTwice ==
  ASSUME NEW l \in Time, NEW e \in Nat, NEW k \in Nat, e + k < ClockMod
  PROVE  After(After(l, e), k) = After(l, e + k)
<1>1. ClockMod \in Nat \ {0} /\ l \in 0 .. ClockMod - 1 /\ e < ClockMod /\ k < ClockMod /\ e + k \in Nat
  BY Constants DEF Time
<1> DEFINE t == After(l, e)
<1>2. t = (IF l + e < ClockMod THEN l + e ELSE l + e - ClockMod) /\ t \in Time
  BY <1>1, AfterIs
<1> HIDE DEF t
<1>3. After(t, k) = IF t + k < ClockMod THEN t + k ELSE t + k - ClockMod
  BY <1>1, <1>2, AfterIs
<1>4. After(l, e + k) = IF l + (e + k) < ClockMod THEN l + (e + k) ELSE l + (e + k) - ClockMod
  BY <1>1, AfterIs
<1>5. After(t, k) = After(l, e + k)
  BY <1>1, <1>2, <1>3, <1>4 DEF Time
<1>6. QED
  BY <1>5 DEF t

LEMMA Apart ==
  ASSUME NEW l \in Time, NEW e \in Nat, NEW d \in Nat, e < ClockMod, d < ClockMod
  PROVE  (After(l, e) - After(l, d)) % ClockMod = IF d <= e THEN e - d ELSE ClockMod - (d - e)
<1> DEFINE t == After(l, e)
           u == After(l, d)
<1>1. ClockMod \in Nat \ {0} /\ l \in 0 .. ClockMod - 1
  BY Constants DEF Time
<1>2. /\ t = (IF l + e < ClockMod THEN l + e ELSE l + e - ClockMod)
      /\ u = (IF l + d < ClockMod THEN l + d ELSE l + d - ClockMod)
  BY AfterIs
<1>3. t \in 0 .. ClockMod - 1 /\ u \in 0 .. ClockMod - 1
  BY AfterIs DEF Time
<1> HIDE DEF t, u
<1> DEFINE a == IF d <= e THEN e - d ELSE ClockMod - (d - e)
<1>4. a \in 0 .. ClockMod - 1 /\ (t - u = a \/ t - u = a - ClockMod)
  BY <1>1, <1>2, <1>3
<1> HIDE DEF a
<1>5. (t - u) % ClockMod = a
  BY <1>1, <1>4, Wrapped
<1>6. QED
  BY <1>5 DEF t, u, a

LEMMA HalfIs == Half \in Nat /\ 2 * Half <= ClockMod /\ ClockMod <= 2 * Half + 1
BY Constants DEF Half

\* What expires counted from the last consecutive frame on.
LEMMA ExpiredIs ==
  ASSUME NEW l \in Time, NEW e \in Nat, NEW d \in Nat,
         2 * d <= ClockMod, e - d < Half, e < ClockMod
  PROVE  Expired(After(l, e), After(l, d)) <=> d <= e
<1>1. ClockMod \in Nat \ {0} /\ d < ClockMod
  BY Constants
<1>2. (After(l, e) - After(l, d)) % ClockMod = IF d <= e THEN e - d ELSE ClockMod - (d - e)
  BY <1>1, Apart
<1>3. QED
  BY <1>1, <1>2, HalfIs DEF Expired

LEMMA Bounds ==
  ASSUME WaitsFit, Typed, TxStands
  PROVE  /\ Slack \in Nat /\ Polled \in Nat \ {0} /\ TimeoutBs \in Nat \ {0} /\ ClockMod \in Nat \ {0}
         /\ Slack < Half /\ TimeoutBs <= Polled /\ Polled = TimeoutBs + Slack
         /\ tx.waits \in Nat /\ Polled <= (tx.waits + 1) * Polled
         /\ (tx.waits + 1) * Polled \in Nat
         /\ \A gap \in StMins \cup {1} : gap \in Nat /\ 2 * (gap + 2 * Slack) <= ClockMod
         /\ tx.state # "idle" => 
              \A gap \in StMins \cup {1} : 2 * (gap + (tx.waits + 1) * Polled + 2 * Slack) <= ClockMod
<1>1. /\ Slack \in Nat /\ TimeoutBs \in Nat \ {0} /\ 2 * (TimeoutBs + Slack) < ClockMod /\ WaitLimit \in Nat
      /\ ClockMod \in Nat \ {0} /\ StMins \subseteq Nat
  BY ClockAssumption, Constants DEF ClockAssumption
<1>2. Polled \in Nat \ {0} /\ Polled = TimeoutBs + Slack /\ TimeoutBs <= Polled
  BY <1>1 DEF Polled
<1>3. Slack < Half
  BY <1>1, HalfIs
<1>4. tx.waits \in Nat /\ (tx.state # "idle" => tx.waits <= WaitLimit)
  BY DEF Typed, TxType, TxStands
<1> DEFINE W == (WaitLimit + 1) * Polled
           V == (tx.waits + 1) * Polled
<1> HIDE DEF Polled
<1>5. \A a, b, k \in Nat : a <= b => (a + 1) * k <= (b + 1) * k /\ (a + 1) * k \in Nat /\ k <= (a + 1) * k
  BY SMTT(30)
<1>6. V \in Nat /\ Polled <= V /\ W \in Nat
  BY <1>1, <1>2, <1>4, <1>5
<1>7. tx.state # "idle" => V <= W
  BY <1>1, <1>2, <1>4, <1>5
<1>8. \A gap \in StMins \cup {1} : gap \in Nat /\ 2 * (gap + W + 2 * Slack) <= ClockMod
  BY <1>1 DEF WaitsFit, Polled
<1> HIDE DEF W, V
<1>9. \A gap \in StMins \cup {1} : gap \in Nat /\ 2 * (gap + 2 * Slack) <= ClockMod
  BY <1>1, <1>6, <1>8
<1>10. tx.state # "idle" => \A gap \in StMins \cup {1} : 2 * (gap + V + 2 * Slack) <= ClockMod
  BY <1>1, <1>6, <1>7, <1>8
<1>11. QED
  BY <1>1, <1>2, <1>3, <1>4, <1>6, <1>9, <1>10 DEF V

LEMMA SpacingTicks == ASSUME WaitsFit, IsoTpInv, SpacingFits, Tick PROVE SpacingFits'
<1>1. Typed /\ TxStands /\ tx' = tx /\ now' = After(now, 1) /\ tx.lastCf \in Time
  BY DEF IsoTpInv, Tick, txVars, Typed, TxType
<1> DEFINE l == tx.lastCf
<1>2. /\ Slack \in Nat /\ ClockMod \in Nat \ {0} /\ Slack < Half /\ tx.waits \in Nat /\ (tx.waits + 1) * Polled \in Nat
      /\ tx.state # "idle" => 2 * (1 + (tx.waits + 1) * Polled + 2 * Slack) <= ClockMod
  BY <1>1, Bounds
<1>3. ASSUME NEW e \in Nat, NEW d \in Nat, 2 * (d + Slack) <= ClockMod, e <= d + Slack, ~Overdue(After(l, d)),
             now = After(l, e)
      PROVE  now' = After(l, e + 1) /\ e + 1 <= d + Slack
  <2>1. e - d < Half /\ 2 * d <= ClockMod /\ e < ClockMod /\ d < ClockMod
    BY <1>2, <1>3, HalfIs
  <2>2. Expired(now, After(l, d)) <=> d <= e
    BY <1>1, <1>3, <2>1, ExpiredIs
  <2>3. d <= e => (now - After(l, d)) % ClockMod = e - d
    BY <1>1, <1>3, <2>1, Apart
  <2>4. d <= e => e - d < Slack
    BY <1>2, <1>3, <2>2, <2>3 DEF Overdue
  <2>5. e + 1 <= d + Slack
    <3>1. CASE d <= e
      BY <1>2, <2>4, <3>1
    <3>2. CASE ~(d <= e)
      BY <1>2, <3>2
    <3>3. QED
      BY <3>1, <3>2
  <2>6. e + 1 < ClockMod
    BY <1>2, <1>3, <2>5
  <2>7. QED
    BY <1>1, <1>3, <2>5, <2>6, AfterTwice
<1>4. CASE tx.state = "fc" /\ tx.sentCf
  <2>1. PICK e \in Nat, d \in Nat : AwaitsFlow(e, d)
    BY <1>4 DEF SpacingFits
  <2>2. ~Overdue(After(l, d))
    BY <1>4, <2>1 DEF Tick, AwaitsFlow
  <2>3. 2 * (d + Slack) <= ClockMod
    BY <1>2, <1>4, <2>1 DEF AwaitsFlow
  <2>4. now' = After(l, e + 1) /\ e + 1 <= d + Slack
    BY <1>3, <2>1, <2>2, <2>3 DEF AwaitsFlow
  <2>5. e + 1 \in Nat /\ AwaitsFlow(e + 1, d)'
    BY <1>1, <2>1, <2>4 DEF AwaitsFlow
  <2>6. QED
    BY <1>1, <1>4, <2>5 DEF SpacingFits
<1>5. CASE tx.state = "cf" /\ tx.sentCf
  <2>1. PICK e \in Nat, n \in Nat : AwaitsTurn(e, n)
    BY <1>5 DEF SpacingFits
  <2>2. ~Overdue(After(l, n))
    BY <1>5, <2>1 DEF Tick, AwaitsTurn
  <2>3. now' = After(l, e + 1) /\ e + 1 <= n + Slack
    BY <1>3, <2>1, <2>2 DEF AwaitsTurn
  <2>4. e + 1 \in Nat /\ AwaitsTurn(e + 1, n)'
    BY <1>1, <2>1, <2>3 DEF AwaitsTurn
  <2>5. QED
    BY <1>1, <1>5, <2>4 DEF SpacingFits
<1>6. CASE ~(tx.state \in {"fc", "cf"} /\ tx.sentCf)
  BY <1>1, <1>6 DEF SpacingFits
<1>7. QED
  BY <1>4, <1>5, <1>6

LEMMA SpacingSends == ASSUME WaitsFit, IsoTpInv, SpacingFits, TxNext PROVE SpacingFits' /\ Spaced
<1>1. /\ Typed /\ TxStands /\ tx.lastCf \in Time /\ tx.sep \in Nat /\ tx.offset \in Nat /\ tx.sentCf \in BOOLEAN
      /\ tx \in TxType
  BY DEF IsoTpInv, Typed, TxType
<1> DEFINE l == tx.lastCf
<1>2. CASE TxExpire
  BY <1>2 DEF TxExpire, TxIdle, SpacingFits, Spaced, TxLate
<1>3. CASE ~TxExpire
  <2>1. /\ TxDue /\ tx'.state = "confirm" /\ tx'.sentCf = tx.sentCf /\ tx'.sep = tx.sep
        /\ (tx'.pendingCf <=> tx.offset # 0)
    BY <1>1, <1>3 DEF TxNext, TxType
  <2>2. \/ tx.state = "ready" /\ tx.offset = 0 /\ ~tx.sentCf
        \/ tx.state = "cf" /\ tx.offset # 0 /\ Expired(now, tx.next)
    <3>1. CASE tx.state = "ready"
      <4>1. ~tx.sentCf
        BY <3>1 DEF SpacingFits
      <4>2. tx.offset = 0
        BY <1>1, <3>1 DEF TxStands
      <4>3. QED
        BY <3>1, <4>1, <4>2
    <3>2. CASE tx.state = "cf" /\ Expired(now, tx.next)
      <4>1. tx.offset \in 1 .. tx.total - 1
        BY <1>1, <3>2 DEF TxStands
      <4>2. QED
        BY <3>2, <4>1
    <3>3. QED
      BY <2>1, <3>1, <3>2 DEF TxDue
  <2>3. SpacingFits'
    BY <2>1, <2>2 DEF SpacingFits
  <2>4. Spaced
    <3>1. SUFFICES ASSUME tx.state = "cf", tx.sentCf PROVE (now - tx.lastCf) % ClockMod >= tx.sep
      BY DEF Spaced
    <3>2. PICK e \in Nat, n \in Nat : AwaitsTurn(e, n)
      BY <3>1 DEF SpacingFits
    <3>3. /\ now = After(l, e) /\ tx.next = After(l, n) /\ tx.sep <= n /\ 2 * (n + Slack) <= ClockMod
          /\ e <= n + Slack
      BY <3>2 DEF AwaitsTurn
    <3>4. ClockMod \in Nat \ {0} /\ Slack \in Nat /\ Slack < Half
      BY <1>1, Bounds
    <3>5. 2 * n <= ClockMod /\ e - n < Half /\ e < ClockMod
      BY <3>3, <3>4, HalfIs
    <3>6. n <= e
      BY <1>1, <2>2, <3>1, <3>3, <3>5, ExpiredIs
    <3>7. After(l, 0) = l
      BY <1>1, <3>4, AfterIs DEF Time
    <3>8. (now - l) % ClockMod = e
      BY <1>1, <3>3, <3>4, <3>5, <3>7, Apart
    <3>9. QED
      BY <1>1, <3>3, <3>6, <3>8
  <2>5. QED
    BY <2>3, <2>4
<1>4. QED
  BY <1>2, <1>3

LEMMA SpacingConfirms == ASSUME WaitsFit, IsoTpInv, SpacingFits, TxConfirm PROVE SpacingFits'
<1>1. Typed /\ TxStands /\ tx \in TxType /\ now' = now /\ now \in Time
  BY DEF IsoTpInv, Typed, TxConfirm
<1>2. CASE tx' = tx
  BY <1>1, <1>2 DEF SpacingFits, AwaitsFlow, AwaitsTurn
<1>3. CASE tx' = TxIdle
  BY <1>1, <1>3 DEF SpacingFits, TxIdle, TxType
<1>4. CASE tx.state = "confirm" /\ NextPart
  <2>1. /\ ClockMod \in Nat \ {0} /\ Slack \in Nat /\ TimeoutBs \in Nat \ {0} /\ TimeoutBs <= (tx.waits + 1) * Polled
        /\ TimeoutBs < ClockMod /\ tx.waits \in Nat
        /\ \A gap \in StMins : gap \in Nat /\ 2 * (gap + 2 * Slack) <= ClockMod
    <3>1. /\ Slack \in Nat /\ Polled \in Nat \ {0} /\ TimeoutBs \in Nat \ {0} /\ ClockMod \in Nat \ {0}
          /\ TimeoutBs <= Polled /\ tx.waits \in Nat /\ Polled <= (tx.waits + 1) * Polled
          /\ (tx.waits + 1) * Polled \in Nat
          /\ \A gap \in StMins \cup {1} : gap \in Nat /\ 2 * (gap + 2 * Slack) <= ClockMod
      BY <1>1, Bounds
    <3>2. TimeoutBs < ClockMod
      BY <3>1, ClockAssumption DEF ClockAssumption
    <3>3. TimeoutBs <= (tx.waits + 1) * Polled
      BY <3>1
    <3>4. QED
      BY <3>1, <3>2, <3>3
  <2>2. now = After(now, 0)
    BY <1>1, <2>1, AfterIs DEF Time
  <2>3. CASE ~tx.pendingCf
    <3>1. ~tx.sentCf /\ tx' = [tx EXCEPT !.state = "fc", !.deadline = After(now, TimeoutBs)]
      BY <1>4, <2>3 DEF NextPart, BlockOver, CountCf, SpacingFits
    <3>2. tx'.state = "fc" /\ ~tx'.sentCf
      BY <1>1, <3>1 DEF TxType
    <3>3. QED
      BY <3>2 DEF SpacingFits
  <2>4. CASE tx.pendingCf /\ BlockOver
    <3>1. tx'.state = "fc" /\ tx'.lastCf = now /\ tx'.deadline = After(now, TimeoutBs) /\ tx'.waits = tx.waits
      BY <1>1, <1>4, <2>4 DEF NextPart, CountCf, TxType
    <3>2. AwaitsFlow(0, TimeoutBs)'
      BY <1>1, <2>1, <2>2, <3>1 DEF AwaitsFlow
    <3>3. QED
      BY <2>1, <3>1, <3>2 DEF SpacingFits
  <2>5. CASE tx.pendingCf /\ ~BlockOver
    <3>1. /\ tx'.state = "cf" /\ tx'.lastCf = now /\ tx'.next = After(now, tx.sep) /\ tx'.sep = tx.sep
          /\ tx.sep \in StMins
      BY <1>1, <1>4, <2>5 DEF NextPart, CountCf, TxType, SpacingFits
    <3>2. tx.sep \in Nat /\ 2 * (tx.sep + Slack) <= ClockMod
      BY <2>1, <3>1
    <3>3. AwaitsTurn(0, tx.sep)'
      BY <1>1, <2>1, <2>2, <3>1, <3>2 DEF AwaitsTurn
    <3>4. QED
      BY <3>1, <3>2, <3>3 DEF SpacingFits
  <2>6. QED
    BY <1>1, <2>3, <2>4, <2>5 DEF TxType
<1>5. QED
  BY <1>2, <1>3, <1>4 DEF TxConfirm, TxExpire, Confirmed

LEMMA SpacingClears ==
  ASSUME WaitsFit, IsoTpInv, SpacingFits, now' = now, tx.state = "fc",
         NEW f, f.fs = "cts", f.st \in StMins, ClearToSend(f)
  PROVE  SpacingFits'
<1> DEFINE l == tx.lastCf
<1>0. PICK sep \in StMins : sep = Separation(f.st)
  BY SeparationTyped
<1>1. Typed /\ TxStands /\ tx \in TxType /\ l \in Time
  BY DEF IsoTpInv, Typed, TxType
<1>2. /\ tx'.state = "cf" /\ tx'.sep = sep /\ tx'.lastCf = l /\ tx'.sentCf = tx.sentCf
      /\ tx'.next = IF tx.sentCf /\ ~Expired(now, After(l, sep)) THEN After(l, sep) ELSE now
  BY <1>0, <1>1 DEF ClearToSend, TxType
<1>3. sep \in StMins
  BY <1>0
<1>4. CASE ~tx.sentCf
  BY <1>2, <1>3, <1>4 DEF SpacingFits
<1>5. CASE tx.sentCf
  <2>1. PICK e \in Nat, d \in Nat : AwaitsFlow(e, d)
    BY <1>5 DEF SpacingFits
  <2>2. now = After(l, e) /\ d <= (tx.waits + 1) * Polled /\ e <= d + Slack
    BY <2>1 DEF AwaitsFlow
  <2>3. /\ ClockMod \in Nat \ {0} /\ Slack \in Nat /\ (tx.waits + 1) * Polled \in Nat
        /\ sep \in Nat /\ 2 * (sep + 2 * Slack) <= ClockMod
        /\ 2 * (sep + (tx.waits + 1) * Polled + 2 * Slack) <= ClockMod
        /\ 2 * (1 + (tx.waits + 1) * Polled + 2 * Slack) <= ClockMod
    BY <1>1, <1>3, Bounds
  <2>4. e - sep < Half /\ e < ClockMod /\ 2 * sep <= ClockMod /\ 2 * (e + Slack) <= ClockMod
    BY <2>2, <2>3, HalfIs
  <2>5. Expired(now, After(l, sep)) <=> sep <= e
    BY <1>1, <2>2, <2>3, <2>4, ExpiredIs
  <2>6. CASE sep <= e
    <3>1. AwaitsTurn(e, e)'
      BY <1>2, <2>2, <2>3, <2>4, <2>5, <2>6 DEF AwaitsTurn
    <3>2. QED
      BY <1>2, <1>3, <3>1 DEF SpacingFits
  <2>7. CASE ~(sep <= e)
    <3>1. tx'.next = After(l, sep)
      BY <1>2, <1>5, <2>5, <2>7
    <3>2. sep <= sep /\ 2 * (sep + Slack) <= ClockMod /\ e <= sep + Slack
      BY <2>2, <2>3, <2>7
    <3>3. AwaitsTurn(e, sep)'
      BY <1>2, <2>2, <3>1, <3>2 DEF AwaitsTurn
    <3>4. \E x, n \in Nat : AwaitsTurn(x, n)'
      BY <2>3, <3>3
    <3>5. QED
      BY <1>2, <1>3, <3>4 DEF SpacingFits
  <2>8. QED
    BY <2>6, <2>7
<1>6. QED
  BY <1>4, <1>5

LEMMA SpacingWaits ==
  ASSUME WaitsFit, IsoTpInv, SpacingFits, now' = now, tx.state = "fc", NEW f, NotYet(f)
  PROVE  SpacingFits'
<1> DEFINE l == tx.lastCf
<1>1. Typed /\ TxStands /\ tx \in TxType /\ l \in Time /\ tx.waits \in Nat
  BY DEF IsoTpInv, Typed, TxType
<1>2. CASE tx.waits + 1 <= WaitLimit
  <2>1. /\ tx'.state = "fc" /\ tx'.waits = tx.waits + 1 /\ tx'.deadline = After(now, TimeoutBs)
        /\ tx'.lastCf = l /\ tx'.sentCf = tx.sentCf
    BY <1>1, <1>2 DEF NotYet, TxType
  <2>2. CASE ~tx.sentCf
    BY <2>1, <2>2 DEF SpacingFits
  <2>3. CASE tx.sentCf
    <3>1. PICK e \in Nat, d \in Nat : AwaitsFlow(e, d)
      BY <2>3 DEF SpacingFits
    <3>2. now = After(l, e) /\ d <= (tx.waits + 1) * Polled /\ e <= d + Slack
      BY <3>1 DEF AwaitsFlow
    <3>3. /\ ClockMod \in Nat \ {0} /\ Slack \in Nat /\ TimeoutBs \in Nat /\ Polled = TimeoutBs + Slack
          /\ (tx.waits + 1) * Polled \in Nat /\ Polled \in Nat
          /\ 2 * (1 + (tx.waits + 1) * Polled + 2 * Slack) <= ClockMod /\ 2 * (TimeoutBs + Slack) < ClockMod
      BY <1>1, Bounds, ClockAssumption DEF ClockAssumption
    <3>4. e + TimeoutBs < ClockMod
      BY <3>2, <3>3
    <3>5. tx'.deadline = After(l, e + TimeoutBs)
      BY <1>1, <2>1, <3>2, <3>3, <3>4, AfterTwice
    <3>6. \A w, k \in Nat : (w + 1 + 1) * k = (w + 1) * k + k
      BY SMTT(30)
    <3>7. (tx'.waits + 1) * Polled = (tx.waits + 1) * Polled + Polled
      BY <1>1, <2>1, <3>3, <3>6
    <3>8. e + TimeoutBs <= (tx'.waits + 1) * Polled
      BY <3>2, <3>3, <3>7
    <3>9. e + TimeoutBs \in Nat /\ e <= e + TimeoutBs + Slack
      BY <3>3
    <3>10. AwaitsFlow(e, e + TimeoutBs)'
      BY <2>1, <3>2, <3>5, <3>8, <3>9 DEF AwaitsFlow
    <3>11. QED
      BY <2>1, <3>9, <3>10 DEF SpacingFits
  <2>4. QED
    BY <2>2, <2>3
<1>3. CASE ~(tx.waits + 1 <= WaitLimit)
  <2>1. tx'.state = "idle"
    BY <1>1, <1>3 DEF NotYet, TxIdle, TxType
  <2>2. QED
    BY <2>1 DEF SpacingFits
<1>4. QED
  BY <1>2, <1>3

LEMMA SpacingFlows == ASSUME WaitsFit, IsoTpInv, SpacingFits, TxFlow PROVE SpacingFits'
<1>1. Typed /\ tx \in TxType /\ now' = now /\ back # <<>> /\ back \in Seq(FlowType)
  BY DEF IsoTpInv, Typed, TxFlow
<1>2. CASE tx' = tx
  BY <1>1, <1>2 DEF SpacingFits, AwaitsFlow, AwaitsTurn
<1>3. CASE tx' = TxIdle
  BY <1>1, <1>3 DEF SpacingFits, TxIdle, TxType
<1> DEFINE f == Head(back)
<1>4. CASE tx.state = "fc" /\ ClearToSend(f)
  <2>1. f.fs = "cts"
    BY <1>4 DEF ClearToSend
  <2>2. f = back[1] /\ 1 \in DOMAIN back
    BY <1>1, Taken
  <2>3. f.st \in StMins
    BY <2>1, <2>2 DEF IsoTpInv, FlowsAreTrue, FlowIsTrue
  <2>4. QED
    BY <1>1, <1>4, <2>1, <2>3, SpacingClears
<1>5. CASE tx.state = "fc" /\ NotYet(f)
  BY <1>1, <1>5, SpacingWaits
<1>6. QED
  BY <1>2, <1>3, <1>4, <1>5 DEF TxFlow, TxExpire, Refused

LEMMA SpacingStarts == ASSUME Typed, NEW n \in Sizes, Start(n) PROVE SpacingFits'
<1>1. tx'.state = "ready" /\ ~tx'.sentCf
  BY DEF Start, Typed, TxType
<1>2. QED
  BY <1>1 DEF SpacingFits

LEMMA SpacingStep ==
  ASSUME WaitsFit, IsoTpInv, SpacingFits, [IsoNext]_isoVars
  PROVE  SpacingFits' /\ [Spaced]_isoVars
<1>1. Typed /\ tx \in TxType
  BY DEF IsoTpInv, Typed
<1>2. CASE tx' = tx /\ now' = now
  BY <1>2 DEF SpacingFits, AwaitsFlow, AwaitsTurn, Spaced
<1>3. CASE TxCheck
  BY <1>1, <1>3 DEF TxCheck, TxExpire, TxLate, TxIdle, TxType, SpacingFits, Spaced
<1>4. CASE TxNext
  BY <1>4, SpacingSends
<1>5. CASE TxConfirm
  <2>1. SpacingFits'
    BY <1>5, SpacingConfirms
  <2>2. tx.state = "cf" => tx' = tx
    BY <1>5 DEF TxConfirm
  <2>3. QED
    BY <2>1, <2>2 DEF Spaced
<1>6. CASE TxFlow
  <2>1. SpacingFits'
    BY <1>6, SpacingFlows
  <2>2. tx.state = "cf" => tx' = tx
    BY <1>6 DEF TxFlow, TxExpire, TxLate
  <2>3. QED
    BY <2>1, <2>2 DEF Spaced
<1>7. CASE \E n \in Sizes : Start(n)
  <2>1. SpacingFits'
    BY <1>1, <1>7, SpacingStarts
  <2>2. tx.state # "cf"
    BY <1>7 DEF Start
  <2>3. QED
    BY <2>1, <2>2 DEF Spaced
<1>8. CASE Tick
  <2>1. SpacingFits'
    BY <1>8, SpacingTicks
  <2>2. tx' = tx
    BY <1>8 DEF Tick, txVars
  <2>3. QED
    BY <2>1, <2>2 DEF Spaced
<1>9. CASE Receiver
  <2>1. tx' = tx /\ now' = now
    BY <1>9 DEF Receiver, RxCheck, RxFeed, RxWire, RxConfirm, PeerWait, RxFlow, txVars
  <2>2. QED
    BY <1>2, <2>1
<1>10. CASE TxWire \/ UNCHANGED isoVars
  <2>1. tx' = tx /\ now' = now
    BY <1>10 DEF TxWire, isoVars
  <2>2. QED
    BY <1>2, <2>1
<1>11. QED
  BY <1>3, <1>4, <1>5, <1>6, <1>7, <1>8, <1>9, <1>10 DEF IsoNext, Sender

\* Two consecutive frames are as far apart as the receiver asked, also when a
\* block ends between them and when the clock wraps (isotp_tx_flow_control(),
\* isotp_tx_next()).
THEOREM SpacingTheorem == ASSUME WaitsFit PROVE IsoSpec => SpacingKept
<1>1. IsoInit => SpacingFits
  BY DEF IsoInit, SpacingFits
<1>2. IsoTpInv /\ SpacingFits /\ [IsoNext]_isoVars => SpacingFits' /\ [Spaced]_isoVars
  BY SpacingStep
<1>3. QED
  BY <1>1, <1>2, IsoTpHolds, PTL DEF IsoSpec, SpacingKept
===============================================================================
