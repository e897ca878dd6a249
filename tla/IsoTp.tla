-------------------------------- MODULE IsoTp ---------------------------------
(***************************************************************************)
(* The transport of isotp.c: the sending machine of one node and the       *)
(* receiving machine of another, over a bus that loses frames.             *)
(*                                                                         *)
(* Every function of isotp.c is called by its owner with the time, a       *)
(* wrapping counter here as there.  A frame a machine returns is in its    *)
(* owner's transmit worker (txOut, fcOut) until that reports on it; a      *)
(* frame on the wire waits in the other node's receive queue (fwd, back).  *)
(* Payload is known by the message it belongs to and its place in it: one  *)
(* unit for each frame a message takes.                                    *)
(***************************************************************************)
EXTENDS Integers, Sequences

CONSTANTS
  ClockMod,     \* the clock's modulus, 2^32 in the code
  SnMod,       \* the modulus of a frame's sequence number, 16 in the code
  TimeoutA, TimeoutBs, TimeoutCr,
  WaitLimit,    \* the flow controls that may say "wait" in a row
  BlockSize,    \* frames between two flow controls, 0 for no limit
  StMins,       \* the separations a receiver may ask for
  Reserved,     \* the value of StMins that stands for a reserved one
  Capacity,     \* the receiver's buffer
  Sizes,        \* the sizes of the messages sent
  MaxMessages,  \* bound: messages sent in a behaviour
  Slack         \* how late an owner may poll, far below half the clock

ASSUME ClockAssumption ==
  /\ {ClockMod, SnMod, TimeoutA, TimeoutBs, TimeoutCr} \subseteq Nat \ {0}
  /\ {WaitLimit, BlockSize, Capacity, MaxMessages, Slack} \subseteq Nat
  /\ \A t \in {TimeoutA, TimeoutBs, TimeoutCr} : 2 * (t + Slack) < ClockMod
ASSUME DataAssumption ==
  /\ Sizes \subseteq Nat \ {0} /\ StMins \subseteq Nat /\ Reserved \in StMins
  /\ \E longest \in StMins : \A st \in StMins : st <= longest

VARIABLES
  now,        \* the time, modulo ClockMod
  tx,         \* the sending machine (isotp_tx_t)
  txOut,      \* what the sender's worker holds
  rx,         \* the receiving machine (isotp_rx_t)
  fcOut,      \* what the receiver's worker holds
  fwd, back,  \* the two receive queues
  message,    \* messages started so far: message i has size message[i]
  delivered,  \* the payload last handed over whole, for the properties
  crossed     \* a flow control answered a later message than it was meant for

isoVars == <<now, tx, txOut, rx, fcOut, fwd, back, message, delivered, crossed>>
txVars == <<tx, txOut, back, message, crossed>>
rxVars == <<rx, fcOut, fwd, delivered>>

None == [kind |-> "none"]
Sent == [kind |-> "sent"]
Flow(fs, st, m) ==
  [kind |-> "flow", fs |-> fs, bs |-> BlockSize, st |-> st, of |-> m]

Half == ClockMod \div 2
After(t, d) == (t + d) % ClockMod
Expired(t, d) == (t - d) % ClockMod < Half

TxIdle == [tx EXCEPT !.state = "idle"]
RxIdle == [rx EXCEPT !.state = "idle"]

IsoInit ==
  /\ now = 0
  /\ tx = [state |-> "idle", deadline |-> 0, next |-> 0, lastCf |-> 0, sep |-> 0,
           total |-> 0, offset |-> 0, waits |-> 0, seq |-> 0, bs |-> 0,
           block |-> 0, sentCf |-> FALSE, pendingCf |-> FALSE, reserved |-> FALSE]
  /\ rx = [state |-> "idle", deadline |-> 0, total |-> 0, got |-> <<>>,
           seq |-> 0, block |-> 0, status |-> "cts"]
  /\ txOut = None /\ fcOut = None
  /\ fwd = <<>> /\ back = <<>> /\ message = <<>> /\ delivered = <<>>
  /\ crossed = FALSE

-------------------------------------------------------------------------------
\* The sending machine.

\* Mutant: a sender waiting for a flow control that never comes.
TxLateUnlessAsking ==
  tx.state \notin {"idle", "cf", "fc"} /\ Expired(now, tx.deadline)

TxLate == tx.state \notin {"idle", "cf"} /\ Expired(now, tx.deadline)
TxExpire == TxLate /\ tx' = TxIdle

\* isotp_tx_check_timeout() called by itself.
TxCheck == TxExpire /\ UNCHANGED <<now, txOut, back, message, crossed, rxVars>>

Start(size) ==
  /\ tx.state = "idle" /\ Len(message) < MaxMessages
  /\ message' = Append(message, size)
  /\ tx' = [tx EXCEPT !.state = "ready", !.deadline = After(now, TimeoutA),
              !.total = size, !.offset = 0, !.seq = 1 % SnMod, !.waits = 0,
              !.block = 0, !.sentCf = FALSE, !.reserved = FALSE]
  /\ UNCHANGED <<now, txOut, back, crossed, rxVars>>

Unit == <<Len(message), tx.offset + 1>>
TxFrame ==
  IF tx.offset > 0 THEN [kind |-> "next", seq |-> tx.seq, data |-> Unit]
  ELSE [kind |-> IF tx.total = 1 THEN "single" ELSE "first",
        size |-> tx.total, data |-> Unit]

\* isotp_tx_next(): the owner takes a frame once its worker is free.
TxDue == tx.state = "ready" \/ (tx.state = "cf" /\ Expired(now, tx.next))
TxNext ==
  /\ txOut = None
  /\ \/ TxExpire /\ UNCHANGED txOut
     \/ /\ ~TxLate /\ TxDue
        /\ txOut' = TxFrame
        /\ tx' = [tx EXCEPT !.state = "confirm", !.deadline = After(now, TimeoutA),
                    !.pendingCf = tx.offset # 0, !.offset = @ + 1,
                    !.seq = IF tx.offset = 0 THEN @ ELSE (@ + 1) % SnMod]
  /\ UNCHANGED <<now, back, message, crossed, rxVars>>

\* The frame goes out; the receiver's queue may be full.
TxWire ==
  /\ txOut \notin {None, Sent}
  /\ txOut' = Sent
  /\ fwd' \in {fwd, Append(fwd, txOut)}
  /\ UNCHANGED <<now, tx, back, message, crossed, rx, fcOut, delivered>>

BlockOver == ~tx.pendingCf \/ (tx.bs # 0 /\ tx.block + 1 = tx.bs)
CountCf ==
  IF tx.pendingCf
  THEN [tx EXCEPT !.sentCf = TRUE, !.lastCf = now, !.block = @ + 1] ELSE tx
NextPart ==
  tx' = IF BlockOver
        THEN [CountCf EXCEPT !.state = "fc", !.deadline = After(now, TimeoutBs)]
        ELSE [CountCf EXCEPT !.state = "cf", !.next = After(now, tx.sep)]

\* Mutant: the last frame's confirmation is taken as any other's.
ConfirmedForgetsEnd == NextPart

Confirmed ==
  \/ tx.offset = tx.total /\ tx' = TxIdle
  \/ /\ tx.offset # tx.total
     /\ NextPart

\* isotp_tx_confirm() with the worker's report.  A frame still here failed.
TxConfirm ==
  /\ txOut # None
  /\ txOut' = None
  /\ \/ tx.state # "confirm" /\ UNCHANGED tx
     \/ tx.state = "confirm" /\ TxExpire
     \/ tx.state = "confirm" /\ ~TxLate /\ txOut # Sent /\ tx' = TxIdle
     \/ tx.state = "confirm" /\ ~TxLate /\ txOut = Sent /\ Confirmed
  /\ UNCHANGED <<now, back, message, crossed, rxVars>>

\* A reserved separation counts as the longest, for the rest of the message.
Separation(st) ==
  IF tx.reserved \/ st = Reserved
  THEN CHOOSE s \in StMins : \A r \in StMins : r <= s ELSE st

\* Mutant: a new block starts at once.
ClearToSendAtOnce(f) ==
  /\ f.fs = "cts"
  /\ crossed' = (crossed \/ f.of # Len(message))
  /\ tx' = [tx EXCEPT !.state = "cf", !.bs = f.bs, !.sep = Separation(f.st),
              !.block = 0, !.waits = 0, !.reserved = @ \/ f.st = Reserved,
              !.next = now]

ClearToSend(f) ==
  LET sep == Separation(f.st) IN
  /\ f.fs = "cts"
  /\ crossed' = (crossed \/ f.of # Len(message))
  /\ tx' = [tx EXCEPT !.state = "cf", !.bs = f.bs, !.sep = sep, !.block = 0,
              !.waits = 0, !.reserved = @ \/ f.st = Reserved,
              !.next = IF tx.sentCf /\ ~Expired(now, After(tx.lastCf, sep))
                       THEN After(tx.lastCf, sep) ELSE now]
NotYet(f) ==
  /\ f.fs = "wait" /\ UNCHANGED crossed
  /\ tx' = IF tx.waits + 1 <= WaitLimit
           THEN [tx EXCEPT !.waits = @ + 1, !.deadline = After(now, TimeoutBs)]
           ELSE [TxIdle EXCEPT !.waits = @ + 1]
Refused(f) == f.fs = "overflow" /\ tx' = TxIdle /\ UNCHANGED crossed

\* isotp_tx_flow_control() with the frame at the head of the queue.
TxFlow ==
  /\ back # <<>>
  /\ back' = Tail(back)
  /\ \/ TxExpire /\ UNCHANGED crossed
     \/ ~TxLate /\ tx.state # "fc" /\ UNCHANGED <<tx, crossed>>
     \/ /\ ~TxLate /\ tx.state = "fc"
        /\ LET f == Head(back) IN ClearToSend(f) \/ NotYet(f) \/ Refused(f)
  /\ UNCHANGED <<now, txOut, message, rxVars>>

-------------------------------------------------------------------------------
\* The receiving machine.

RxLate == rx.state # "idle" /\ Expired(now, rx.deadline)
RxExpire == RxLate /\ rx' = RxIdle
RxCheck == RxExpire /\ UNCHANGED <<now, fcOut, fwd, delivered, txVars>>

\* segment_copy() and what follows it.
Complete(r) == Len(r.got) = r.total

\* Mutant: what an interrupted reception gathered is kept.
KeptOver(f) == [rx EXCEPT !.state = "idle", !.total = f.size]
Afresh(f) == [rx EXCEPT !.state = "idle", !.total = f.size, !.got = <<>>]

TakeFirst(f) ==
  /\ f.kind \in {"single", "first"}
  /\ LET fresh == Afresh(f)
         asking == [fresh EXCEPT !.state = "fc", !.deadline = After(now, TimeoutA)]
     IN \/ /\ f.size > Capacity
           /\ rx' = IF f.kind = "first" THEN [asking EXCEPT !.status = "overflow"]
                    ELSE fresh
           /\ UNCHANGED delivered
        \/ /\ f.size <= Capacity /\ f.kind = "single"
           /\ rx' = [fresh EXCEPT !.got = Append(@, f.data)]
           /\ delivered' = rx'.got
        \/ /\ f.size <= Capacity /\ f.kind = "first"
           /\ rx' = [asking EXCEPT !.got = Append(@, f.data), !.seq = 1 % SnMod,
                                   !.block = 0, !.status = "cts"]
           /\ UNCHANGED delivered

WrongSequence(f) == f.seq # rx.seq
OutOfStep(f) ==
  /\ f.kind = "next" /\ rx.state = "cf" /\ WrongSequence(f)
  /\ rx' = RxIdle /\ UNCHANGED delivered

TakeNext(f) ==
  /\ f.kind = "next" /\ rx.state = "cf" /\ ~WrongSequence(f)
  /\ LET r == [rx EXCEPT !.got = Append(@, f.data), !.seq = (@ + 1) % SnMod]
     IN \/ Complete(r) /\ rx' = [r EXCEPT !.state = "idle"] /\ delivered' = r.got
        \/ /\ ~Complete(r) /\ UNCHANGED delivered
           /\ rx' = IF BlockSize # 0 /\ rx.block + 1 = BlockSize
                    THEN [r EXCEPT !.state = "fc", !.block = 0,
                                   !.deadline = After(now, TimeoutA)]
                    ELSE [r EXCEPT !.block = IF BlockSize = 0 THEN @ ELSE @ + 1,
                                   !.deadline = After(now, TimeoutCr)]

\* isotp_rx_feed() with the frame at the head of the queue.  What an expired
\* reception was handed is not looked at.
RxFeed ==
  /\ fwd # <<>>
  /\ fwd' = Tail(fwd)
  /\ LET f == Head(fwd) IN
     \/ RxExpire /\ UNCHANGED delivered
     \/ ~RxLate /\ (TakeFirst(f) \/ OutOfStep(f) \/ TakeNext(f))
     \/ /\ ~RxLate /\ f.kind = "next" /\ rx.state # "cf"
        /\ UNCHANGED <<rx, delivered>>
  /\ UNCHANGED <<now, fcOut, txVars>>

Asked == IF rx.got = <<>> THEN 0 ELSE rx.got[1][1]

\* isotp_rx_flow_control(): a pending flow control is taken exactly once.
RxFlow(st) ==
  /\ fcOut = None
  /\ \/ RxExpire /\ UNCHANGED fcOut
     \/ /\ ~RxLate /\ rx.state = "fc"
        /\ rx' = [rx EXCEPT !.state = "confirm", !.deadline = After(now, TimeoutA)]
        /\ fcOut' = Flow(rx.status, st, Asked)
  /\ UNCHANGED <<now, fwd, delivered, txVars>>

RxWire ==
  /\ fcOut \notin {None, Sent}
  /\ fcOut' = Sent
  /\ back' \in {back, Append(back, fcOut)}
  /\ UNCHANGED <<now, rx, fwd, delivered, tx, txOut, message, crossed>>

\* isotp_rx_confirm().
RxConfirm ==
  /\ fcOut # None
  /\ fcOut' = None
  /\ \/ rx.state # "confirm" /\ UNCHANGED rx
     \/ rx.state = "confirm" /\ RxExpire
     \/ /\ rx.state = "confirm" /\ ~RxLate
        /\ rx' = IF fcOut # Sent \/ rx.status = "overflow" THEN RxIdle
                 ELSE [rx EXCEPT !.state = "cf", !.deadline = After(now, TimeoutCr)]
  /\ UNCHANGED <<now, fwd, delivered, txVars>>

\* External: a receiving node that is not ready says so first.
PeerWait ==
  /\ rx.state = "fc" /\ tx.state = "fc" /\ back = <<>>
  /\ back' = <<Flow("wait", 0, Len(message))>>
  /\ UNCHANGED <<now, tx, txOut, message, crossed, rxVars>>

-------------------------------------------------------------------------------
\* Time passes once both owners have polled: what is late is not very late,
\* and a receive queue is drained in every pass.
Overdue(d) == Expired(now, d) /\ (now - d) % ClockMod >= Slack
Tick ==
  /\ fwd = <<>> /\ back = <<>>
  /\ tx.state \in {"ready", "confirm", "fc"} => ~Overdue(tx.deadline)
  /\ tx.state = "cf" => ~Overdue(tx.next)
  /\ rx.state # "idle" => ~Overdue(rx.deadline)
  /\ now' = After(now, 1)
  /\ UNCHANGED <<txVars, rxVars>>

Sender ==
  TxCheck \/ TxNext \/ TxWire \/ TxConfirm \/ TxFlow \/ \E n \in Sizes : Start(n)
Receiver ==
  RxCheck \/ RxFeed \/ RxWire \/ RxConfirm \/ PeerWait \/ \E st \in StMins : RxFlow(st)
IsoNext == Sender \/ Receiver \/ Tick
IsoSpec == IsoInit /\ [][IsoNext]_isoVars

\* Owners poll, drain their queues and give a frame that is due to a worker,
\* which reports in the end.  The bus and the other node may stay silent.
IsoFairSpec ==
  /\ IsoSpec /\ WF_isoVars(Tick)
  /\ WF_isoVars(TxCheck) /\ WF_isoVars(TxNext) /\ WF_isoVars(TxConfirm) /\ WF_isoVars(TxFlow)
  /\ WF_isoVars(RxCheck) /\ WF_isoVars(RxFeed) /\ WF_isoVars(RxConfirm)

-------------------------------------------------------------------------------
Time == 0 .. ClockMod - 1
Units == (1 .. MaxMessages) \X (1 .. SnMod * Capacity)

\* Both machines are in a state isotp.h names, with values of its types.
IsoTpTypeOK ==
  /\ now \in Time
  /\ tx.state \in {"idle", "ready", "confirm", "fc", "cf"}
  /\ {tx.deadline, tx.next, tx.lastCf, rx.deadline} \subseteq Time
  /\ tx.offset \in 0 .. tx.total /\ {tx.seq, rx.seq} \subseteq 0 .. SnMod - 1
  /\ tx.waits \in 0 .. WaitLimit + 1
  /\ rx.state \in {"idle", "fc", "confirm", "cf"}
  /\ rx.status \in {"cts", "overflow"}
  /\ Len(rx.got) <= rx.total
  /\ message \in Seq(Sizes) /\ Len(message) <= MaxMessages

\* A message handed over is one that was sent, whole, its frames in order,
\* whatever was lost, given up or replaced in between.  The protocol has no way
\* to tell a flow control that comes so late that the sender has moved on to
\* another message.
Whole(m) == [i \in 1 .. message[m] |-> <<m, i>>]
WholeOrNothing ==
  crossed \/ delivered = <<>> \/ \E m \in DOMAIN message : delivered = Whole(m)
\* The same, with the types (isotp.c as a whole).
DeliveryIsTrue == IsoTpTypeOK /\ WholeOrNothing

\* Two consecutive frames are as far apart as the receiver asked in its last
\* flow control, also when a block ends between them and when the clock wraps.
Spaced ==
  tx.state = "cf" /\ tx'.state = "confirm" /\ tx.sentCf
    => (now - tx.lastCf) % ClockMod >= tx.sep
SpacingKept == [][Spaced]_isoVars

Sends == tx.state # "idle"
Receives == rx.state # "idle"
\* Neither machine waits for ever for a node that has gone silent.
TransferEnds == (Sends ~> ~Sends) /\ (Receives ~> ~Receives)
\* The two of time: no frame too early, and no transfer for ever (isotp.c, the deadlines of both machines).
TransferKeepsTime == SpacingKept /\ TransferEnds
===============================================================================
