--------------------------------- MODULE KLine ---------------------------------
(***************************************************************************)
(* The K-Line driver: kline.c, the framing of kline_codec.c, the admission *)
(* of bus_tx.c.                                                            *)
(*                                                                         *)
(* One task owns the UART.  A caller (one at a time: VifClaims) hands it a *)
(* command and waits; the wait may run out with the task still at work,    *)
(* and the driver then refuses everything but a close.  Between commands   *)
(* the task frames what arrives and keeps the session alive.               *)
(*                                                                         *)
(* The transceiver echoes what the node drives, so the task compares every *)
(* byte it sends with what it hears, while the UART's interrupt fills a    *)
(* ring of bytes and a queue of events beside it that may overflow.        *)
(*                                                                         *)
(* A message is two bytes on the wire.  Time is in ticks, and the task is  *)
(* quicker than one: it passes while the task has nothing to do but wait.  *)
(* The initialisations' patterns and single bytes are steps that succeed   *)
(* or fail; VifPins has what they do to the L line.                        *)
(***************************************************************************)
EXTENDS Integers, Sequences, FiniteSetsExt

CONSTANTS
  P1, P2, P3,   \* p1_max, p2_max, p3_min
  Idle,         \* periodic_ms
  Quiet,        \* KLINE_PERIODIC_QUIET_MS
  Retries,      \* tx_retries
  UartEvents,   \* KLINE_UART_EVENTS
  RingLen,      \* bound: bytes waiting in the UART's ring
  Commands      \* the commands the caller gives

ASSUME KLineAssumption ==
  /\ {P1, P2, P3, Idle, UartEvents, RingLen} \subseteq Nat \ {0}
  /\ {Quiet, Retries} \subseteq Nat
  /\ Commands \subseteq {"tx", "managed", "five", "fast", "stop"}

VARIABLES
  drv,      \* started, uart_installed, task, stop_requested, the exit semaphore
  late,     \* command_timed_out
  stuck,    \* uart_tx_unresolved
  call,     \* where the caller is
  req,      \* the request, and how far the task is with it
  done,     \* cmd_done
  t,        \* where the task is
  job,      \* whom it transmits for
  tx,       \* kline_tx_t, and the step of the loop around it
  due,      \* bytes driven whose echo has not come back
  ring,     \* the UART's ring buffer
  pend,     \* uart_pending, while a transmission looks at it
  ev,       \* the UART's event queue
  asm,      \* asm_buf
  asmLeft,  \* until the gap after it is P1
  mute,     \* rx_invalid: until the gap after the fault is P1
  bus,      \* the time since last_bus_us
  suppress, \* until suppress_until_us
  answered, \* tx_answered
  link,     \* g.link: KWP, or none and those that end by themselves
  keep,     \* periodic_ms and a periodic message are set
  unseen,   \* rx_q holds something, or rx_epoch a loss: the caller is behind
  ghost     \* what the properties remember

wire == <<ring, pend, ev>>
rx == <<asm, asmLeft, mute>>
sending == <<tx, due>>
handing == <<drv, late, call, req, done>>
vars == <<handing, stuck, t, job, sending, wire, rx, bus, suppress, answered,
          link, keep, unseen, ghost>>

TxLen == 2
Oldest == Max({P2, P3, Idle})
Own(i) == <<"e1", "e2">>[i]
\* A byte of another node may have the value of ours.
SameValue(b, i) == b = Own(i) \/ (b = "f2" /\ i = 2)
NoTx == [sent |-> 0, echoed |-> 0, announced |-> 0, failed |-> FALSE, step |-> "none", tries |-> 0]
NoReq == [kind |-> "none", at |-> "none", control |-> "none"]
Down == [started |-> FALSE, uart |-> FALSE, task |-> FALSE, stop |-> FALSE, exited |-> FALSE]
Blocked == late \/ stuck

Init ==
  /\ drv = Down /\ late = FALSE /\ stuck = FALSE /\ call = "out" /\ req = NoReq /\ done = FALSE
  /\ t = "none" /\ job = "none" /\ tx = NoTx /\ due = <<>>
  /\ ring = <<>> /\ pend = <<>> /\ ev = <<>>
  /\ asm = "" /\ asmLeft = 0 /\ mute = 0 /\ bus = 0 /\ suppress = 0 /\ answered = TRUE
  /\ link = "none" /\ keep = FALSE /\ unseen = FALSE
  /\ ghost = [lost |-> FALSE, orphan |-> FALSE, torn |-> FALSE, still |-> 0, early |-> FALSE,
              strayed |-> FALSE, echo |-> "clean", judged |-> TRUE]

-----------------------------------------------------------------------------
(* The caller *)

\* kline_open(): everything anew, or what was built taken down again; a UART
\* that will not be deleted stays for the next close.
Open ==
  /\ call = "out" /\ ~drv.started /\ ~drv.task /\ ~drv.uart
  /\ late' = FALSE /\ stuck' = FALSE /\ req' = NoReq /\ done' = FALSE
  /\ job' = "none" /\ tx' = NoTx /\ due' = <<>> /\ ring' = <<>> /\ pend' = <<>> /\ ev' = <<>>
  /\ asm' = "" /\ asmLeft' = 0 /\ mute' = 0 /\ bus' = 0 /\ suppress' = 0 /\ answered' = TRUE
  /\ link' = "none" /\ keep' = FALSE /\ unseen' = FALSE
  /\ ghost' = [ghost EXCEPT !.orphan = FALSE, !.still = 0]
  /\ \/ drv' = [Down EXCEPT !.started = TRUE, !.uart = TRUE, !.task = TRUE] /\ t' = "loop"
     \/ \E left \in BOOLEAN : drv' = [Down EXCEPT !.uart = left] /\ t' = t
  /\ UNCHANGED call

\* kline_close(): the task is asked to leave out of band, a timed-out command
\* may still occupy the queue.
CloseBegin ==
  /\ call = "out" /\ (drv.started \/ drv.task \/ drv.uart)
  /\ drv' = [drv EXCEPT !.started = FALSE, !.stop = @ \/ drv.task]
  /\ call' = IF drv.task THEN "joining" ELSE "releasing"
  /\ UNCHANGED <<late, stuck, req, done, t, job, sending, wire, rx, bus, suppress, answered, link,
                 keep, unseen, ghost>>
Joined ==
  /\ call = "joining"
  /\ \/ /\ drv.exited /\ call' = "releasing"
        /\ drv' = [drv EXCEPT !.task = FALSE, !.exited = FALSE]
     \/ call' = "out" /\ drv' = drv                       \* four seconds are over
  /\ UNCHANGED <<late, stuck, req, done, t, job, sending, wire, rx, bus, suppress, answered, link,
                 keep, unseen, ghost>>
Release ==
  /\ call = "releasing" /\ call' = "out"
  /\ \/ drv' = Down /\ link' = "none" /\ done' = FALSE /\ req' = NoReq
        /\ late' = FALSE /\ stuck' = FALSE /\ ring' = <<>> /\ ev' = <<>> /\ asm' = "" /\ asmLeft' = 0
        /\ mute' = 0 /\ bus' = 0 /\ suppress' = 0 /\ answered' = TRUE /\ unseen' = FALSE
        /\ keep' = FALSE
        /\ ghost' = [ghost EXCEPT !.still = 0, !.orphan = FALSE, !.lost = @ \/ link = "kwp"]
     \/ UNCHANGED <<drv, link, done, req, late, stuck, ring, ev, rx, bus, suppress, answered,
                    unseen, keep, ghost>>
  /\ UNCHANGED <<t, job, sending, pend>>

\* What a write to the request, or to a parameter the task works from, would do.
Working == t \notin {"none", "loop"} /\ job \notin {"none", "periodic", "bye"}
Torn == ghost' = [ghost EXCEPT !.torn = @ \/ Working]

\* kline_tx_controlled(), kline_ioctl() and run_cmd().  A managed request can be
\* cancelled, and asks to be refused once something has arrived (check_rx).
MayAsk == call = "out" /\ drv.started /\ ~Blocked
Ask(kind) ==
  /\ MayAsk
  /\ req' = [kind |-> kind, at |-> "queued",
             control |-> IF kind = "managed" THEN "queued" ELSE "none"]
  /\ call' = "waiting" /\ Torn
  /\ UNCHANGED <<drv, late, stuck, done, t, job, sending, wire, rx, bus, suppress, answered, link,
                 keep, unseen>>
Answered ==
  /\ call = "waiting" /\ done /\ done' = FALSE /\ call' = "out" /\ req' = NoReq
  /\ UNCHANGED <<drv, late, stuck, t, job, sending, wire, rx, bus, suppress, answered, link, keep,
                 unseen, ghost>>
\* Mutant of TimesOut: the driver does not remember it.
TimesOutForgotten ==
  /\ call = "waiting" /\ req.kind # "managed" /\ call' = "out"
  /\ ghost' = [ghost EXCEPT !.orphan = TRUE]
  /\ UNCHANGED <<drv, late, stuck, req, done, t, job, sending, wire, rx, bus, suppress, answered,
                 link, keep, unseen>>
\* A managed transmission waits for ever.
TimesOut ==
  /\ call = "waiting" /\ req.kind # "managed" /\ call' = "out"
  /\ late' = TRUE /\ ghost' = [ghost EXCEPT !.orphan = TRUE]
  /\ UNCHANGED <<drv, stuck, req, done, t, job, sending, wire, rx, bus, suppress, answered, link,
                 keep, unseen>>
\* bus_tx_cancel()
Cancel ==
  /\ call = "waiting" /\ req.control = "queued" /\ req' = [req EXCEPT !.control = "cancelled"]
  /\ UNCHANGED <<drv, late, stuck, call, done, t, job, sending, wire, rx, bus, suppress, answered,
                 link, keep, unseen, ghost>>

\* kline_set_param(): a parameter the task works from.
SetParam ==
  /\ MayAsk /\ Torn
  /\ UNCHANGED <<handing, stuck, t, job, sending, wire, rx, bus, suppress, answered, link, keep, unseen>>
AssumeLink ==
  /\ MayAsk /\ link' \in {"none", "kwp"} /\ Torn
  /\ UNCHANGED <<handing, stuck, t, job, sending, wire, rx, bus, suppress, answered, keep, unseen>>
SetPeriodic(on) ==
  /\ MayAsk /\ keep' = on
  /\ UNCHANGED <<handing, stuck, t, job, sending, wire, rx, bus, suppress, answered, link, unseen, ghost>>
\* kline_rx(), and its report of a loss once the queue is empty.
Recv ==
  /\ call = "out" /\ drv.started /\ unseen
  /\ unseen' = FALSE
  /\ UNCHANGED <<handing, stuck, t, job, sending, wire, rx, bus, suppress, answered, link, keep, ghost>>

-----------------------------------------------------------------------------
(* The wire and the UART *)

Drained == ev = <<>> /\ ring = <<>>
Listening == t \in {"loop", "quiet", "retry", "tx"}
\* The interrupt notes data, an error or an overflow; a full queue drops it.
\* Only a transmission cares for data.
Notified(notes) ==
  LET wanted == IF t = "tx" THEN notes ELSE SelectSeq(notes, LAMBDA n : n # "data")
  IN ev' = SubSeq(ev \o wanted, 1, Min({UartEvents, Len(ev) + Len(wanted)}))
Dropped(notes) == t = "tx" /\ Len(ev) + Len(notes) > UartEvents
Arrives(bytes, notes, echo) ==
  /\ IF t = "tx" THEN Len(ring) < RingLen ELSE Drained
  /\ ring' = ring \o bytes /\ Notified(notes)
  /\ ghost' = [ghost EXCEPT !.still = IF bytes = <<>> \/ t = "tx" THEN @ ELSE 0,
                            !.echo = IF Dropped(notes) THEN "any" ELSE echo]
  /\ UNCHANGED <<handing, stuck, t, job, tx, pend, rx, bus, suppress, answered, link, keep, unseen>>

\* A byte driven comes back whole, damaged, or lost to an overflow.
Worse == IF ghost.echo = "any" THEN "any" ELSE "damaged"
EchoBack ==
  /\ t = "tx" /\ due # <<>> /\ due' = Tail(due)
  /\ \/ Arrives(<<Own(Head(due))>>, <<"data">>, ghost.echo)
     \/ Arrives(<<"x">>, <<"err", "data">>, Worse) \/ Arrives(<<"x">>, <<"data", "err">>, Worse)
     \/ Arrives(<<>>, <<"ovf">>, Worse)
\* An echo the transmission did not wait for; a byte that was stuck may leave
\* at any time.
LateEcho ==
  /\ t \in {"loop", "quiet", "retry", "idle"} /\ due # <<>> /\ due' = Tail(due)
  /\ Arrives(<<Own(Head(due))>>, <<>>, ghost.echo)
\* Another node speaks, behind what we drove (what it garbles of that is
\* damaged above).  Between our bytes its own is a collision.
Spoken ==
  /\ Listening /\ (due = <<>> \/ stuck)
  /\ LET echo == IF t = "tx" /\ tx.sent < TxLen THEN "any" ELSE ghost.echo
     IN \/ \E b \in {"r1", IF t = "tx" THEN "f2" ELSE "r2"} : Arrives(<<b>>, <<"data">>, echo)
        \/ Arrives(<<"x">>, <<"data", "err">>, echo)
        \/ Arrives(<<>>, <<"ovf">>, echo)
  /\ UNCHANGED due

-----------------------------------------------------------------------------
(* Framing and delivery *)

\* asm_push() and the part of asm_complete() that needs no gap.
Pushed(b) ==
  CASE asm = "" /\ b \in {"r1", "e1"} -> b
    [] asm = "r1" /\ b = "r2" -> "answer"
    [] asm = "e1" /\ b = "e2" -> "echo"
    [] OTHER -> "junk"

\* publish()
Publish(own) ==
  /\ answered' = TRUE
  /\ IF suppress > 0
     THEN UNCHANGED <<unseen, ghost>>
     ELSE unseen' = TRUE /\ ghost' = [ghost EXCEPT !.strayed = @ \/ own]

\* rx_drain(), a byte at a time: after the events, and not while a byte of
\* ours may still be on its way.
Event ==
  /\ ev # <<>> /\ ev' = Tail(ev) /\ asm' = "" /\ asmLeft' = 0 /\ mute' = P1
  /\ ring' = IF Head(ev) = "ovf" THEN <<>> ELSE ring
  /\ unseen' = (unseen \/ Head(ev) = "ovf")
  \* What an overflow takes along is not measured: last_bus_us stays.
  /\ ghost' = IF Head(ev) = "ovf" THEN [ghost EXCEPT !.still = Oldest] ELSE ghost
  /\ UNCHANGED <<pend, bus, answered>>
Discard ==
  /\ ev = <<>> /\ stuck /\ ring' = <<>> /\ asm' = "" /\ asmLeft' = 0 /\ mute' = 0
  /\ UNCHANGED <<pend, ev, unseen, bus, answered, ghost>>
\* Mutant of Skip: a byte behind a fault is no activity.
SkipUnmeasured ==
  /\ ev = <<>> /\ ~stuck /\ mute > 0 /\ ring' = Tail(ring) /\ mute' = P1
  /\ UNCHANGED <<pend, ev, asm, asmLeft, bus, unseen, answered, ghost>>
Skip ==
  /\ ev = <<>> /\ ~stuck /\ mute > 0 /\ ring' = Tail(ring) /\ mute' = P1 /\ bus' = 0
  /\ UNCHANGED <<pend, ev, asm, asmLeft, unseen, answered, ghost>>
Gather ==
  /\ ev = <<>> /\ ~stuck /\ mute = 0 /\ ring' = Tail(ring) /\ bus' = 0
  /\ LET got == Pushed(Head(ring))
     IN IF got \in {"answer", "echo"}
        THEN asm' = "" /\ asmLeft' = 0 /\ Publish(got = "echo")
        ELSE asm' = got /\ asmLeft' = P1 /\ UNCHANGED <<unseen, answered, ghost>>
  /\ UNCHANGED <<pend, ev, mute>>
Drain == Event \/ (ring # <<>> /\ (Discard \/ Skip \/ Gather))
\* The gap ends what is not a message: too short, or a wrong checksum.
Gap ==
  /\ Drained /\ asm # "" /\ asmLeft = 0 /\ asm' = ""
  /\ UNCHANGED <<wire, asmLeft, mute, bus, answered, unseen, ghost>>

-----------------------------------------------------------------------------
(* The task between commands *)

Waits(j) == t' = "quiet" /\ job' = j /\ tx' = NoTx
Due == keep /\ ~Blocked /\ bus >= Idle

Stays == UNCHANGED <<handing, stuck, job, sending, suppress, link, keep>>
LoopDrain == t = "loop" /\ (Drain \/ Gap) /\ UNCHANGED t /\ Stays
\* A session is ended before the task goes.
Exit ==
  /\ t' = "none" /\ job' = "none" /\ tx' = NoTx
  /\ drv' = [drv EXCEPT !.exited = TRUE]
Leave ==
  /\ t = "loop" /\ drv.stop
  /\ IF link = "kwp" /\ ~stuck THEN Waits("bye") /\ UNCHANGED <<drv, link>>
     ELSE Exit /\ link' = "none"
  /\ UNCHANGED <<ghost, late, call, req, done, stuck, due, wire, rx, bus, suppress, answered, keep, unseen>>
Periodic ==
  /\ t = "loop" /\ ~drv.stop /\ Due /\ Waits("periodic")
  /\ UNCHANGED <<handing, stuck, due, wire, rx, bus, suppress, answered, link, keep, unseen, ghost>>

Answer == done' = TRUE /\ req' = [req EXCEPT !.at = "none"] /\ t' = "loop" /\ job' = "none" /\ tx' = NoTx
TakeCommand ==
  /\ t = "loop" /\ ~drv.stop /\ Drained /\ req.at = "queued"
  /\ CASE req.kind \in {"tx", "managed"} /\ ~stuck ->
            Waits("tx") /\ req' = [req EXCEPT !.at = "taken"] /\ UNCHANGED <<done, link>>
       [] req.kind = "stop" /\ link = "kwp" /\ ~stuck ->
            Waits("stop") /\ req' = [req EXCEPT !.at = "taken"] /\ UNCHANGED <<done, link>>
       [] req.kind \in {"five", "fast"} /\ ~stuck ->
            /\ t' = "idle" /\ job' = req.kind /\ tx' = NoTx
            /\ req' = [req EXCEPT !.at = "taken"] /\ link' = "none" /\ UNCHANGED done
       [] OTHER -> Answer /\ link' = IF req.kind = "stop" THEN "none" ELSE link
  /\ UNCHANGED <<ghost, drv, late, stuck, call, due, wire, rx, bus, suppress, answered, keep, unseen>>

-----------------------------------------------------------------------------
(* Transmission *)

\* The end of a transmission, by whom it was for.
Finish(ok, g) ==
  /\ ghost' = g
  /\ CASE job = "periodic" ->
            /\ t' = "loop" /\ job' = "none" /\ tx' = NoTx /\ suppress' = P2 + Quiet
            /\ UNCHANGED <<drv, req, done, link>>
       [] job = "stop" -> Answer /\ link' = "none" /\ suppress' = P2 /\ UNCHANGED drv
       [] job = "bye" -> Exit /\ link' = "none" /\ suppress' = P2 /\ UNCHANGED <<req, done>>
       [] job = "fast" /\ ok ->
            t' = "reply" /\ tx' = NoTx /\ UNCHANGED <<drv, req, done, job, link, suppress>>
       [] job = "five" /\ ok -> Answer /\ link' \in {"none", "kwp"} /\ UNCHANGED <<drv, suppress>>
       [] OTHER -> Answer /\ UNCHANGED <<drv, link, suppress>>

\* wait_before_tx()
Managed == job = "tx" /\ req.kind = "managed"
Owed == IF answered THEN P3 ELSE P2
Refused ==
  /\ t = "quiet" /\ Managed
  /\ req.control = "cancelled" \/ (unseen /\ Drained)
  /\ Finish(FALSE, ghost)
  /\ UNCHANGED <<late, call, stuck, due, wire, rx, bus, answered, keep, unseen>>
QuietDrain ==
  /\ t = "quiet" /\ ~(Managed /\ req.control = "cancelled")
  /\ Drain \/ Gap
  /\ UNCHANGED t /\ Stays
\* tx_once(): admitted, and what is not framed by now is thrown away.
Starts ==
  /\ t' = "tx" /\ due' = <<>> /\ ring' = <<>> /\ ev' = <<>> /\ pend' = <<>>
  /\ asm' = "" /\ asmLeft' = 0 /\ mute' = 0 /\ bus' = 0 /\ answered' = FALSE
  /\ req' = IF Managed THEN [req EXCEPT !.control = "active"] ELSE req
  /\ UNCHANGED <<drv, late, call, done, stuck, job, suppress, link, keep, unseen>>
Start ==
  /\ t = "quiet" /\ Drained /\ asm = "" /\ bus >= Owed
  /\ ~(Managed /\ (req.control = "cancelled" \/ unseen))
  /\ tx' = [NoTx EXCEPT !.step = "look", !.tries = tx.tries]
  /\ Starts
  /\ ghost' = [ghost EXCEPT !.early = @ \/ ghost.still \in 1 .. Owed - 1, !.still = Oldest]

\* tx_read_echo(), up to limit.
ReadEcho(x, bytes, limit) ==
  LET room == Min({limit - x.echoed, Len(bytes)})
      same == {n \in 0 .. room : \A i \in 1 .. n : SameValue(bytes[i], x.echoed + i)}
      good == Max(same)
      bad == good < room
  IN [tx |-> [x EXCEPT !.echoed = @ + good, !.failed = @ \/ bad],
      used |-> good + (IF bad THEN 1 ELSE 0)]
\* The bytes at hand come from uart_pending, refilled when it is empty.
Reads(x, limit) ==
  LET read == ReadEcho(x, pend \o ring, limit)
  IN IF x.failed \/ limit <= x.echoed THEN tx' = x /\ UNCHANGED <<pend, ring>>
     ELSE /\ tx' = read.tx
          /\ pend' = IF read.used <= Len(pend) THEN SubSeq(pend, read.used + 1, Len(pend))
                     ELSE SubSeq(pend \o ring, read.used + 1, Len(pend) + Len(ring))
          /\ ring' = IF read.used <= Len(pend) THEN ring ELSE <<>>

Within == UNCHANGED <<handing, stuck, t, job, suppress, link, keep, bus, answered>>
\* uart_event() during a transmission.
TxEvent ==
  /\ t = "tx" /\ tx.step \in {"look", "look again"} /\ ev # <<>> /\ ev' = Tail(ev)
  /\ LET e == Head(ev)
         announced == Min({tx.announced + 1, TxLen})
         faulted == [tx EXCEPT !.failed = @ \/ tx.echoed < TxLen]
     IN CASE e = "data" ->
               /\ Reads([tx EXCEPT !.announced = announced], Min({announced, tx.sent}))
               /\ UNCHANGED <<unseen, rx>>
          [] e = "err" ->
               /\ tx' = faulted /\ asm' = "" /\ asmLeft' = 0 /\ mute' = P1
               /\ UNCHANGED <<pend, ring, unseen>>
          [] OTHER ->                                        \* an overflow
               /\ tx' = faulted /\ asm' = "" /\ asmLeft' = 0 /\ mute' = P1
               /\ pend' = <<>> /\ ring' = <<>> /\ unseen' = TRUE
  /\ UNCHANGED <<due, ghost>> /\ Within
\* tx_collect_echo(): what has arrived is taken before the events that came
\* with it are looked at.
Look ==
  /\ t = "tx" /\ tx.step = "look" /\ ev = <<>>
  /\ IF tx.failed \/ tx.echoed = tx.sent THEN tx' = [tx EXCEPT !.step = "decide"] /\ UNCHANGED <<pend, ring>>
     ELSE /\ tx' = [tx EXCEPT !.step = "look again"]
          /\ IF pend = <<>> THEN pend' = ring /\ ring' = <<>> ELSE UNCHANGED <<pend, ring>>
  /\ UNCHANGED <<ev, due, rx, unseen, ghost>> /\ Within
LookAgain ==
  /\ t = "tx" /\ tx.step = "look again" /\ ev = <<>>
  /\ LET x == [tx EXCEPT !.step = "decide"] IN Reads(x, tx.sent)
  /\ UNCHANGED <<ev, due, rx, unseen, ghost>> /\ Within

\* The next byte: written and out of the UART, refused, or stuck in it.
Decided == t = "tx" /\ tx.step = "decide"
Drives == Decided /\ ~tx.failed /\ tx.sent < TxLen
Write ==
  /\ Drives /\ due' = Append(due, tx.sent + 1)
  /\ tx' = [tx EXCEPT !.sent = @ + 1, !.step = "look"]
  /\ UNCHANGED <<wire, rx, unseen, ghost>> /\ Within
Over == [ghost EXCEPT !.echo = "clean"]
Ends(flushed) ==
  /\ ring' = (IF flushed THEN <<>> ELSE pend \o ring) /\ pend' = <<>>
  /\ ev' = SelectSeq(ev, LAMBDA n : n # "data")
  /\ IF flushed THEN asm' = "" /\ asmLeft' = 0 /\ mute' = 0 ELSE UNCHANGED rx
  /\ UNCHANGED <<late, call, bus, keep, unseen, answered>>
Stuck ==
  /\ Drives /\ due' = Append(due, tx.sent + 1) /\ stuck' = TRUE
  /\ Ends(FALSE) /\ Finish(FALSE, Over)
WriteFails ==
  /\ Drives /\ Ends(TRUE) /\ Finish(FALSE, Over) /\ UNCHANGED <<due, stuck>>

AllHeard == tx.sent = TxLen /\ tx.echoed = TxLen
\* What follows the echo stays for the framer.
Sent ==
  /\ Decided /\ ~tx.failed /\ AllHeard
  /\ Ends(FALSE)
  /\ Finish(TRUE, [ghost EXCEPT !.judged = @ /\ ghost.echo # "damaged", !.echo = "clean"])
  /\ UNCHANGED <<due, stuck>>
\* tx_finish_echo() looks until the echo is due no more.
Missing == due = <<>> /\ ring = <<>> /\ pend = <<>> /\ ev = <<>>
LooksOn ==
  /\ Decided /\ ~tx.failed /\ tx.sent = TxLen /\ ~AllHeard /\ ~Missing
  /\ tx' = [tx EXCEPT !.step = "look"]
  /\ UNCHANGED <<due, wire, rx, unseen, ghost>> /\ Within
\* tx_message() sends again after a corrupted transmission, some times.
Corrupted ==
  /\ Decided
  /\ tx.failed \/ (tx.sent = TxLen /\ ~AllHeard /\ Missing)
  /\ Ends(TRUE)
  /\ LET g == [ghost EXCEPT !.judged = @ /\ ghost.echo # "clean", !.echo = "clean"]
     IN IF tx.tries < Retries /\ job # "five"
        THEN /\ t' = "retry" /\ tx' = [NoTx EXCEPT !.tries = tx.tries + 1] /\ ghost' = g
             /\ UNCHANGED <<drv, req, done, job, link, suppress>>
        ELSE Finish(FALSE, g)
  /\ UNCHANGED <<due, stuck>>
TryAgain ==
  /\ t = "retry" /\ bus >= P2 /\ t' = "quiet"
  /\ UNCHANGED <<handing, stuck, job, sending, wire, rx, bus, suppress, answered, link, keep, unseen, ghost>>

-----------------------------------------------------------------------------
(* Initialisation *)

\* The bus has been idle; the pattern; at five baud the rate and the key
\* bytes, then the inverted second one.  No quiet wait: the request follows.
InitFails ==
  /\ t = "idle" /\ bus >= P3 /\ Answer
  /\ ring' = <<>> /\ ev' = <<>> /\ bus' = 0
  /\ UNCHANGED <<drv, late, stuck, call, due, pend, rx, suppress, answered, link, keep, unseen, ghost>>
InitStarts ==
  /\ t = "idle" /\ bus >= P3
  /\ tx' = [NoTx EXCEPT !.step = "look"] /\ Starts
  /\ ghost' = [ghost EXCEPT !.still = Oldest]
\* The reply to StartCommunication, or none in time.
Replied ==
  /\ t = "reply" /\ Answer
  /\ link' \in {link, "kwp"}
  /\ ring' = <<>> /\ ev' = <<>> /\ asm' = "" /\ asmLeft' = 0 /\ mute' = 0 /\ bus' = 0
  /\ UNCHANGED <<drv, late, stuck, call, due, pend, suppress, answered, keep, unseen, ghost>>

-----------------------------------------------------------------------------
(* Time *)

\* The task has something to do at once, or is in the middle of it.
AtWork ==
  \/ t \in {"tx", "reply"}
  \/ t \in {"loop", "quiet"} /\ (~Drained \/ (asm # "" /\ asmLeft = 0))
  \/ t = "loop" /\ (req.at = "queued" \/ Due)
  \/ t = "quiet" /\ asm = "" /\ bus >= Owed
  \/ t \in {"idle", "retry"} /\ bus >= Oldest
Down1(n) == Max({n - 1, 0})
Older(n) == Min({n + 1, Oldest})
Tick ==
  /\ drv.uart /\ ~AtWork /\ (due = <<>> \/ stuck)
  /\ bus' = Older(bus) /\ asmLeft' = Down1(asmLeft) /\ mute' = Down1(mute) /\ suppress' = Down1(suppress)
  /\ ghost' = [ghost EXCEPT !.still = Older(@)]
  /\ <<bus, asmLeft, mute, suppress, ghost>>' # <<bus, asmLeft, mute, suppress, ghost>>
  /\ UNCHANGED <<handing, stuck, t, job, sending, wire, asm, answered, link, keep, unseen>>

-----------------------------------------------------------------------------
\* A transmission, and the whole of a keepalive, reads nothing the caller
\* writes: what the caller does during one is done before it or after it.
Caller ==
  /\ t \notin {"tx", "reply"} /\ job # "periodic"
  /\ \/ Open \/ CloseBegin \/ Joined \/ Release \/ Answered \/ TimesOut \/ Cancel
     \/ SetParam \/ AssumeLink \/ Recv \/ \E on \in BOOLEAN : SetPeriodic(on)
     \/ \E kind \in Commands : Ask(kind)
TaskStep ==
  \/ LoopDrain \/ Leave \/ Periodic \/ TakeCommand \/ Refused \/ QuietDrain \/ Start
  \/ TxEvent \/ Look \/ LookAgain \/ Write \/ Stuck \/ WriteFails \/ Sent \/ LooksOn \/ Corrupted
  \/ TryAgain \/ InitFails \/ InitStarts \/ Replied
Bus == EchoBack \/ LateEcho \/ Spoken
Next == Caller \/ TaskStep \/ Bus \/ Tick
Spec == Init /\ [][Next]_vars

-----------------------------------------------------------------------------
KLineTypeOK ==
  /\ drv \in [DOMAIN Down -> BOOLEAN]
  /\ {late, stuck, done, answered, keep, unseen} \subseteq BOOLEAN
  /\ call \in {"out", "waiting", "joining", "releasing"}
  /\ t \in {"none", "loop", "quiet", "tx", "retry", "idle", "reply"}
  /\ job \in {"none", "tx", "five", "fast", "stop", "periodic", "bye"}
  /\ link \in {"none", "kwp"}
  /\ asm \in {"", "r1", "e1", "junk"}
  /\ tx.echoed <= tx.sent /\ tx.sent <= TxLen
\* kline.c:2015 and kline.c:2324: nothing is written where a command that
\* timed out is still at work, and no later caller is answered with its result.
RequestIntact == ~ghost.torn
ResultIsOwn == call = "waiting" => ~ghost.orphan
\* kline.c:1803: no worker may still use these resources.
HeldWhileUsed == t # "none" => drv.uart /\ drv.task
\* kline.c:1967: the session an initialisation opened is ended before the
\* driver goes.
SessionIsEnded == ~ghost.lost
HandOver == KLineTypeOK /\ RequestIntact /\ ResultIsOwn /\ HeldWhileUsed /\ SessionIsEnded

\* tx_once() calls a transmission sent if and only if its echo came back
\* whole, whatever arrives behind it in the same batch.
EchoIsJudged == ghost.judged
\* No echo is delivered as another node's message.
EchoStaysHome == ~ghost.strayed
\* wait_before_tx(): a reply restarts the quiet time owed before a request.
QuietIsKept == ~ghost.early
WireIsHeard == EchoIsJudged /\ EchoStaysHome /\ QuietIsKept
=============================================================================
