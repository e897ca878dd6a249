--------------------------------- MODULE J1850 ---------------------------------
(***************************************************************************)
(* The two J1850 drivers, j1850_vpw.c and j1850_pwm.c, and what they share *)
(* in j1850_lifecycle.c.                                                   *)
(*                                                                         *)
(* A caller (one at a time: VifClaims) opens, sends, closes and sets       *)
(* parameters.  Beside it run two interrupts, on another core: the         *)
(* receiver's, with each capture, and the watch: in VPW an alarm that      *)
(* compares the wire with what the node means to drive and takes the pin   *)
(* off the transmitter when it has lost; in PWM the capture of the wire's  *)
(* edges, which answers a frame in its own time slot.                      *)
(*                                                                         *)
(* The node hears its own frames.  A capture is one of ours, of another    *)
(* node or, in PWM, a break; the receiver holds one, and is deaf until its *)
(* interrupt has taken it.                                                 *)
(***************************************************************************)
EXTENDS Integers, Sequences

CONSTANTS
  Kinds,   \* which of the drivers: "vpw", "pwm"
  Retries  \* retries

ASSUME J1850Assumption == Kinds \subseteq {"vpw", "pwm"} /\ Retries \in Nat

VARIABLES
  kind,
  drv,      \* initialized, started
  res,      \* what the driver holds: "tx", "clock", "rx", and in PWM "edges"
  stopping, \* the gate of each interrupt
  cb,       \* where each interrupt is
  at,       \* where the caller is
  todo,     \* what a close has still to take down
  tx,       \* attempt, rc, and whether the bus was heard in the idle wait
  heard,    \* rx_foreign, rx_events: moved since this attempt began
  armed,    \* echo_armed
  sem,      \* tx_done_sem, echo_sem, and a completion still to be told
  hw,       \* the transmitter; cut: the pin was taken from this frame
  pin,      \* who drives TX_P: the transmitter, nobody, or no driver is up
  mon,      \* mon.running, mon.lost, and the alarm
  cap,      \* a capture the receive interrupt has not taken
  talking,  \* another node is in a frame
  stream,   \* the frame on the wire, as the edge interrupt follows it
  fresh,    \* ifr_generation has not moved since the edge interrupt read it
  brk,      \* break_pending
  long,     \* the idle time this attempt waits is the one after a break
  moved     \* kept for checking: parameters changed since that frame began

edges == <<stream, fresh>>
air == <<cap, talking>>
rxVars == <<heard, armed, brk>>
wire == <<hw, pin, mon>>
life == <<drv, res, stopping, todo>>
vars == <<kind, life, cb, at, tx, sem, wire, air, rxVars, edges, long, moved>>

Vpw == kind = "vpw"
Isrs == {"rx", "watch"}
NoTx == [n |-> 0, rc |-> "ok", stale |-> FALSE]
Quiet == [state |-> "idle", cut |-> FALSE]
NoSem == [done |-> FALSE, echo |-> FALSE, due |-> FALSE]
NoMon == [running |-> FALSE, lost |-> FALSE, alarm |-> FALSE]
Gone == [init |-> FALSE, started |-> FALSE]

Init ==
  /\ kind \in Kinds /\ drv = Gone /\ res = {} /\ stopping = [i \in Isrs |-> FALSE]
  /\ cb = [i \in Isrs |-> "out"] /\ at = "out" /\ todo = <<>>
  /\ tx = NoTx /\ heard = FALSE /\ armed = FALSE /\ sem = NoSem
  /\ hw = Quiet /\ pin = "off" /\ mon = NoMon /\ cap = "none" /\ talking = FALSE
  /\ stream = "none" /\ fresh = FALSE /\ brk = FALSE /\ long = FALSE
  /\ moved = FALSE

-----------------------------------------------------------------------------
(* Opening and closing *)

\* Everything anew, or as far as it came and then down again.
OpensVpw(built) == built \in {{}, {"tx"}, {"tx", "clock"}, {"tx", "clock", "rx"}}
OpensPwm(built) == built \in {{}, {"tx"}, {"tx", "rx"}, {"tx", "rx", "edges", "clock"}}
Whole == IF Vpw THEN {"tx", "clock", "rx"} ELSE {"tx", "rx", "edges", "clock"}
TeardownVpw == <<"rx_gate", "watch_gate", "clock", "rx", "tx">>
TeardownPwm ==
  IF "edges" \in res' THEN <<"edges", "watch_gate", "clock", "rx_gate", "rx", "tx">>
  ELSE <<"clock", "rx_gate", "rx", "tx">>
Teardown == IF Vpw THEN TeardownVpw ELSE TeardownPwm

\* An interrupt the gate refused has left before the bus is opened again.
Open ==
  /\ at = "out" /\ ~drv.init /\ \A i \in Isrs : cb[i] = "out"
  /\ \E built \in SUBSET Whole :
       /\ IF Vpw THEN OpensVpw(built) ELSE OpensPwm(built)
       /\ res' = built
       /\ drv' = [init |-> TRUE, started |-> built = Whole]
       /\ at' = (IF built = Whole THEN "out" ELSE "close")
       /\ todo' = IF built = Whole THEN <<>> ELSE Teardown
  /\ stopping' = [i \in Isrs |-> i = "watch" /\ Vpw]
  /\ tx' = NoTx /\ heard' = FALSE /\ armed' = FALSE /\ sem' = NoSem
  /\ hw' = Quiet /\ pin' = "rmt" /\ mon' = NoMon /\ cap' = "none"
  /\ stream' = "none" /\ fresh' = FALSE /\ brk' = FALSE
  /\ UNCHANGED <<kind, cb, talking, long, moved>>

Close ==
  /\ at = "out" /\ drv.init /\ drv' = [drv EXCEPT !.started = FALSE]
  /\ at' = "close" /\ res' = res /\ todo' = Teardown
  /\ UNCHANGED <<kind, stopping, cb, tx, sem, wire, air, rxVars, edges, long, moved>>

Next1 == Head(todo)
GateOf == [rx |-> "rx_gate", watch |-> "watch_gate"]
Gate(i) == at = "close" /\ todo # <<>> /\ Next1 = GateOf[i]
GivesUp == at' = "out" /\ todo' = <<>>
\* j1850_callbacks_stop(): the flag, then the count, for a tenth of a second.
GateShuts(i) ==
  /\ Gate(i) /\ ~stopping[i] /\ stopping' = [stopping EXCEPT ![i] = TRUE]
  /\ UNCHANGED <<kind, drv, res, todo, cb, at, tx, sem, wire, air, rxVars, edges, long, moved>>
\* Mutant of GatePassed: nobody waits for the callback that is in.
GateNotWaited(i) ==
  /\ Gate(i) /\ stopping[i]
  /\ todo' = Tail(todo)
  /\ mon' = IF i = "watch" THEN [mon EXCEPT !.running = FALSE, !.alarm = FALSE] ELSE mon
  /\ UNCHANGED <<kind, drv, res, stopping, cb, at, tx, sem, hw, pin, air, rxVars, edges, long, moved>>
GatePassed(i) ==
  /\ Gate(i) /\ stopping[i] /\ cb[i] = "out"
  /\ todo' = Tail(todo)
  /\ mon' = IF i = "watch" THEN [mon EXCEPT !.running = FALSE, !.alarm = FALSE] ELSE mon
  /\ UNCHANGED <<kind, drv, res, stopping, cb, at, tx, sem, hw, pin, air, rxVars, edges, long, moved>>
GateHeld(i) ==
  /\ Gate(i) /\ stopping[i] /\ cb[i] # "out" /\ GivesUp
  /\ UNCHANGED <<kind, drv, res, stopping, cb, tx, sem, wire, air, rxVars, edges, long, moved>>
\* j1850_rmt_delete(), j1850_timer_delete(), edge_clock_close(): done, or not
\* done and tried again by the next close.  The edges are switched off on the
\* core that takes their interrupt.
Deletes ==
  /\ at = "close" /\ todo # <<>> /\ Next1 \in Whole
  /\ Next1 = "edges" => cb.watch = "out"
  /\ \/ res' = res \ {Next1} /\ todo' = Tail(todo) /\ at' = at
     \/ Next1 \in res /\ res' = res /\ GivesUp
  /\ UNCHANGED <<kind, drv, stopping, cb, tx, sem, wire, air, rxVars, edges, long, moved>>
Freed ==
  /\ at = "close" /\ todo = <<>> /\ at' = "out" /\ drv' = Gone /\ pin' = "off"
  /\ hw' = Quiet /\ sem' = NoSem /\ cap' = "none"
  /\ UNCHANGED <<kind, res, stopping, todo, cb, tx, mon, talking, rxVars, edges, long, moved>>

\* set_param() and ioctl() of what decides an in-frame response.
SetIfr ==
  /\ at = "out" /\ drv.started /\ ~Vpw
  /\ stream' = (IF stream = "valid" THEN "outdated" ELSE stream) /\ fresh' = FALSE
  /\ moved' = (stream # "none")
  /\ UNCHANGED <<kind, life, cb, at, tx, sem, wire, air, rxVars, long>>

-----------------------------------------------------------------------------
(* Sending *)

Within == UNCHANGED <<kind, life, cb, air, edges>>
Send ==
  /\ at = "out" /\ drv.started /\ at' = "prepare" /\ tx' = [NoTx EXCEPT !.stale = tx.stale]
  /\ Within /\ UNCHANGED <<sem, wire, rxVars, long, moved>>
\* What an earlier attempt left is drained; suppression is off until admitted.
Prepare ==
  /\ at = "prepare" /\ at' = "idle" /\ heard' = FALSE /\ armed' = FALSE
  /\ sem' = [sem EXCEPT !.done = FALSE, !.echo = FALSE]
  /\ long' = brk
  /\ Within /\ UNCHANGED <<tx, wire, brk, moved>>
Fails(rc) == at' = "result" /\ tx' = [tx EXCEPT !.rc = rc]
\* wait_bus_idle(): in vain, or the bus was passive so long that a frame, its
\* capture and an answer in its slot would be over.
Busy ==
  /\ at = "idle" /\ Fails("busy")
  /\ Within /\ UNCHANGED <<sem, wire, rxVars, long, moved>>
BusIdle == ~talking /\ hw.state = "idle" /\ (Vpw \/ cb.watch = "out")
\* bus_tx_admit() refuses a first attempt only; rmt_transmit() may refuse.
Idles ==
  /\ at = "idle" /\ BusIdle
  /\ brk' = FALSE /\ long' = FALSE /\ moved' = moved
  /\ \/ tx.n = 0 /\ Fails("refused") /\ UNCHANGED <<armed, hw>>
     \/ armed' = TRUE /\ Fails("failed") /\ hw' = hw
     \/ /\ armed' = TRUE /\ hw' = [state |-> "sending", cut |-> FALSE]
        /\ tx' = [tx EXCEPT !.stale = ~Vpw /\ (heard \/ cap # "none")]
        /\ at' = IF Vpw THEN "watch" ELSE "await"
  /\ pin' = "rmt"
  /\ Within /\ UNCHANGED <<sem, mon, heard>>
\* mon_start(): the edge that ends the start of frame is found, or the frame
\* goes unwatched.
Watch ==
  /\ at = "watch" /\ at' = "await"
  /\ \/ /\ mon' = [running |-> TRUE, lost |-> FALSE, alarm |-> TRUE]
        /\ stopping' = [stopping EXCEPT !.watch = FALSE]
     \/ mon' = [mon EXCEPT !.lost = FALSE] /\ UNCHANGED stopping
  /\ UNCHANGED <<kind, drv, res, todo, cb, air, edges, tx, sem, hw, pin, rxVars, long, moved>>

\* tx_await(): a completion may be an earlier transfer's, so what counts is
\* that the transmitter has nothing left.
TxDone == hw.state \in {"tail", "idle"}
Verdict(rc) ==
  /\ tx' = [tx EXCEPT !.rc = rc] /\ at' = "stop"
  /\ Within /\ UNCHANGED <<wire, rxVars, long, moved>>
Loses == Vpw /\ at = "await" /\ mon.lost /\ Verdict("lost") /\ UNCHANGED sem
Told ==
  /\ Vpw /\ at = "await" /\ ~mon.lost /\ sem.done /\ sem' = [sem EXCEPT !.done = FALSE]
  /\ at' = "drain"
  /\ Within /\ UNCHANGED <<tx, wire, rxVars, long, moved>>
\* Mutant of Hangs: the completion is waited for without an end.
Endless == Vpw /\ at = "await" /\ hw.state = "hung" /\ sem.done /\ Verdict("failed") /\ UNCHANGED sem
Hangs == Vpw /\ at = "await" /\ hw.state = "hung" /\ Verdict("failed") /\ UNCHANGED sem
\* Mutant of Drained: the completion is believed.
Believed ==
  /\ at = "drain"
  /\ Verdict(IF mon.lost THEN "lost" ELSE "ok")
  /\ UNCHANGED sem
Drained ==
  /\ at = "drain" /\ (TxDone \/ hw.state = "hung")
  /\ Verdict(IF mon.lost THEN "lost" ELSE IF TxDone THEN "ok" ELSE "failed")
  /\ UNCHANGED sem
\* A wait of milliseconds outlasts a capture that closes and is taken.
Taken == hw.state # "tail" /\ cap # "echo"
\* tx_finish(): the watch is stopped; a failed transfer is drained before the
\* pin is given back; if that fails the driver is down.
FinishShuts ==
  /\ at = "stop" /\ ~stopping.watch /\ stopping' = [stopping EXCEPT !.watch = TRUE]
  /\ UNCHANGED <<kind, drv, res, todo, cb, at, tx, sem, wire, air, rxVars, edges, long, moved>>
Fault ==
  /\ drv' = [drv EXCEPT !.started = FALSE] /\ Fails("fault")
  /\ UNCHANGED <<kind, res, stopping, todo, cb, air, edges, sem, wire, rxVars, long, moved>>
FinishHeld == at = "stop" /\ stopping.watch /\ cb.watch # "out" /\ Taken /\ Fault
FinishStops ==
  /\ at = "stop" /\ stopping.watch /\ cb.watch = "out"
  /\ mon' = NoMon
  /\ IF tx.rc = "ok" THEN at' = "echo" /\ pin' = "rmt" ELSE at' = "recover" /\ pin' = pin
  /\ Within /\ UNCHANGED <<tx, sem, hw, rxVars, long, moved>>
\* j1850_rmt_recover(): what was aborted may still be told as complete.
Aborted ==
  /\ hw' = IF hw.state = "idle" THEN Quiet ELSE [state |-> "tail", cut |-> TRUE]
  /\ \/ sem' = sem
     \/ Vpw /\ hw.state = "sending" /\ sem' = [sem EXCEPT !.due = TRUE]
Recovers ==
  /\ at = "recover" /\ Aborted /\ at' = "result" /\ pin' = "rmt"
  /\ Within /\ UNCHANGED <<tx, mon, rxVars, long, moved>>
RecoverFails == at = "recover" /\ Fault

\* VPW: the echo, and the silence a retry needs.
Result ==
  /\ at = "result" /\ armed' = FALSE
  /\ IF Vpw /\ tx.rc = "lost" /\ tx.n < Retries
     THEN at' = "prepare" /\ tx' = [tx EXCEPT !.n = @ + 1]
     ELSE at' = "out" /\ tx' = tx
  /\ Within /\ UNCHANGED <<sem, wire, heard, brk, long, moved>>
Settled == hw.state = "idle" /\ Taken
Echo ==
  /\ at = "echo" /\ at' = "silence"
  /\ \/ sem.echo /\ sem' = [sem EXCEPT !.echo = FALSE] /\ armed' = armed
     \/ ~sem.echo /\ Settled /\ armed' = FALSE /\ sem' = sem
  /\ Within /\ UNCHANGED <<tx, wire, heard, brk, long, moved>>
Again == at' = "prepare" /\ tx' = [tx EXCEPT !.n = @ + 1]
SilenceVpw ==
  /\ Vpw /\ at = "silence"
  /\ IF tx.n >= Retries \/ heard THEN at' = "out" /\ tx' = tx ELSE Again
  /\ Within /\ UNCHANGED <<sem, wire, rxVars, long, moved>>

\* PWM: the transmitter is waited for, then anything on the bus or the silence.
SentPwm ==
  /\ ~Vpw /\ at = "await" /\ TxDone /\ at' = "silence"
  /\ Within /\ UNCHANGED <<tx, sem, wire, rxVars, long, moved>>
FailsPwm ==
  /\ ~Vpw /\ at = "await" /\ hw.state = "hung" /\ at' = "recover" /\ tx' = [tx EXCEPT !.rc = "failed"]
  /\ Within /\ UNCHANGED <<sem, wire, rxVars, long, moved>>
SilencePwm ==
  /\ ~Vpw /\ at = "silence" /\ (heard \/ Settled)
  /\ IF heard \/ tx.n >= Retries THEN at' = "out" /\ tx' = tx /\ armed' = FALSE
     ELSE Again /\ armed' = armed
  /\ Within /\ UNCHANGED <<sem, wire, heard, brk, long, moved>>

-----------------------------------------------------------------------------
(* The wire *)

Elsewhere == UNCHANGED <<kind, life, at, tx, rxVars, long>>
TxEnds ==
  /\ hw.state = "sending" /\ cb.watch # "losing"
  /\ \/ hw' = [hw EXCEPT !.state = "tail"] /\ sem' = [sem EXCEPT !.due = Vpw]
     \/ hw' = [hw EXCEPT !.state = "hung"] /\ sem' = sem
  /\ Elsewhere /\ UNCHANGED <<cb, pin, mon, air, edges, moved>>
OnTxDone ==
  /\ sem.due /\ sem' = [sem EXCEPT !.due = FALSE, !.done = TRUE]
  /\ Elsewhere /\ UNCHANGED <<cb, wire, air, edges, moved>>
Hears(what) == cap' = IF cap = "none" /\ "rx" \in res THEN what ELSE cap
\* Our frame comes back whole, as something else, or not at all.
CaptureCloses ==
  /\ hw.state = "tail" /\ hw' = Quiet
  /\ \E what \in {"none", "other"} \union (IF hw.cut THEN {} ELSE {"echo"}) : Hears(what)
  /\ Elsewhere /\ UNCHANGED <<cb, sem, pin, mon, talking, edges, moved>>
OtherStarts ==
  /\ drv.init /\ ~talking /\ hw.state \in {"idle", "hung"} /\ (Vpw \/ cb.watch = "out") /\ talking' = TRUE
  /\ stream' = (IF "edges" \in res /\ ~stopping.watch THEN "valid" ELSE "none")
  /\ moved' = FALSE
  /\ Elsewhere /\ UNCHANGED <<cb, sem, wire, cap, fresh>>
\* The last edge of its frame is an interrupt of its own in PWM.
OtherEnds ==
  /\ talking /\ talking' = FALSE
  /\ \E what \in {"other"} \union (IF Vpw THEN {} ELSE {"break"}) :
       /\ Hears(what)
       /\ cb' = IF what = "other" /\ "edges" \in res /\ stream # "none"
                THEN [cb EXCEPT !.watch = "counted"] ELSE cb
  /\ Elsewhere /\ UNCHANGED <<sem, wire, edges, moved>>

-----------------------------------------------------------------------------
(* The interrupts: counted, then past the gate, then at work *)

RxFires ==
  /\ cap # "none" /\ "rx" \in res /\ cb.rx = "out" /\ cb' = [cb EXCEPT !.rx = "counted"]
  /\ Elsewhere /\ UNCHANGED <<sem, wire, air, edges, moved>>
RxEnters ==
  /\ cb.rx = "counted"
  /\ IF stopping.rx THEN cb' = [cb EXCEPT !.rx = "out"] /\ cap' = "none"
     ELSE cb' = [cb EXCEPT !.rx = "in"] /\ cap' = cap
  /\ Elsewhere /\ UNCHANGED <<sem, wire, talking, edges, moved>>
Leaves == cb' = [cb EXCEPT !.rx = "out"] /\ cap' = "none"
\* What came in counts for an attempt that goes on.
Asks == at \notin {"out", "prepare", "close", "result"}
OurEcho == cap = "echo" /\ armed
ReceivedVpw ==
  /\ Vpw /\ cb.rx = "in" /\ Leaves
  /\ IF OurEcho THEN armed' = FALSE /\ sem' = [sem EXCEPT !.echo = TRUE] /\ heard' = heard
     ELSE heard' = Asks /\ UNCHANGED <<armed, sem>>
  /\ UNCHANGED <<kind, life, at, tx, brk, long, wire, talking, edges, moved>>
ReceivedPwm ==
  /\ ~Vpw /\ cb.rx = "in" /\ Leaves
  /\ heard' = Asks /\ armed' = (armed /\ ~OurEcho) /\ brk' = (brk \/ cap = "break")
  /\ UNCHANGED <<kind, life, at, tx, sem, long, wire, talking, edges, moved>>

\* VPW's watch: an alarm of a frame that is over, or one too late, changes
\* nothing; a wire that is active while we drive nothing has been lost.
WatchFires ==
  /\ Vpw /\ mon.alarm /\ "clock" \in res /\ cb.watch = "out"
  /\ cb' = [cb EXCEPT !.watch = "counted"] /\ mon' = [mon EXCEPT !.alarm = FALSE]
  /\ Elsewhere /\ UNCHANGED <<sem, hw, pin, air, edges, moved>>
WatchEnters ==
  /\ Vpw /\ cb.watch = "counted"
  /\ cb' = [cb EXCEPT !.watch = IF stopping.watch THEN "out" ELSE "in"]
  /\ Elsewhere /\ UNCHANGED <<sem, wire, air, edges, moved>>
WatchSamples ==
  /\ Vpw /\ cb.watch = "in"
  /\ \/ mon.running /\ hw.state = "sending" /\ cb' = [cb EXCEPT !.watch = "losing"] /\ mon' = mon
     \/ /\ cb' = [cb EXCEPT !.watch = "out"]
        /\ \E more \in {FALSE, mon.running} : mon' = [mon EXCEPT !.alarm = more]
  /\ Elsewhere /\ UNCHANGED <<sem, hw, pin, air, edges, moved>>
WatchAborts ==
  /\ cb.watch = "losing" /\ cb' = [cb EXCEPT !.watch = "out"]
  /\ pin' = "parked" /\ mon' = [mon EXCEPT !.lost = TRUE] /\ hw' = [hw EXCEPT !.cut = TRUE]
  /\ Elsewhere /\ UNCHANGED <<sem, air, edges, moved>>

\* PWM's edges: a frame that began under other parameters is not answered, nor
\* one whose parameters change before the answer is committed.
EdgeEnters ==
  /\ ~Vpw /\ cb.watch = "counted"
  /\ IF stopping.watch \/ stream # "valid"
     THEN cb' = [cb EXCEPT !.watch = "out"] /\ fresh' = fresh /\ stream' = "none"
     ELSE cb' = [cb EXCEPT !.watch = "in"] /\ fresh' = TRUE /\ stream' = stream
  /\ Elsewhere /\ UNCHANGED <<sem, wire, air, moved>>
EdgeAnswers ==
  /\ ~Vpw /\ cb.watch = "in" /\ cb' = [cb EXCEPT !.watch = "out"] /\ stream' = "none"
  /\ fresh' = FALSE /\ moved' = FALSE
  /\ Elsewhere /\ UNCHANGED <<sem, wire, air>>

-----------------------------------------------------------------------------
CallerStep ==
  \/ Prepare \/ Busy \/ Idles \/ Watch \/ Loses \/ Told \/ Hangs \/ Drained
  \/ FinishShuts \/ FinishHeld \/ FinishStops \/ Recovers \/ RecoverFails \/ Result \/ Echo
  \/ SilenceVpw \/ SentPwm \/ FailsPwm \/ SilencePwm
  \/ Deletes \/ Freed \/ \E i \in Isrs : GateShuts(i) \/ GatePassed(i) \/ GateHeld(i)
Interrupts ==
  \/ RxFires \/ RxEnters \/ ReceivedVpw \/ ReceivedPwm
  \/ WatchFires \/ WatchEnters \/ WatchSamples \/ WatchAborts \/ EdgeEnters \/ EdgeAnswers
Hardware == TxEnds \/ OnTxDone \/ CaptureCloses
Next == Open \/ Close \/ Send \/ SetIfr \/ CallerStep \/ Interrupts \/ Hardware \/ OtherStarts \/ OtherEnds
Spec == Init /\ [][Next]_vars
\* The caller's thread runs, interrupts are served and end, the transmitter
\* comes to an end, no node talks for ever, and the core that takes the edges
\* also runs threads.
FairSpec ==
  /\ Spec /\ WF_vars(CallerStep) /\ SF_vars(Deletes)
  /\ WF_vars(RxFires \/ RxEnters \/ ReceivedVpw \/ ReceivedPwm)
  /\ WF_vars(WatchEnters \/ WatchSamples \/ WatchAborts \/ EdgeEnters \/ EdgeAnswers)
  /\ WF_vars(TxEnds) /\ WF_vars(OnTxDone) /\ WF_vars(CaptureCloses) /\ WF_vars(OtherEnds)

-----------------------------------------------------------------------------
J1850TypeOK ==
  /\ drv \in [init : BOOLEAN, started : BOOLEAN] /\ res \subseteq Whole
  /\ cb \in [Isrs -> {"out", "counted", "in", "losing"}]
  /\ hw \in [state : {"idle", "sending", "hung", "tail"}, cut : BOOLEAN]
  /\ pin \in {"off", "rmt", "parked"} /\ cap \in {"none", "echo", "other", "break"}
  /\ tx.n \in 0 .. Retries
\* j1850_lifecycle.h: shutdown cannot miss an admitted ISR.
CallbackHasItsBus ==
  /\ cb.rx = "in" => drv.init /\ "rx" \in res
  /\ cb.watch \in {"in", "losing"} => drv.init /\ "clock" \in res
\* A driver that is down holds nothing, and one that is up and at rest has its
\* pin and a transmitter with nothing in it.
RestIsClean ==
  /\ ~drv.init => res = {} /\ pin = "off"
  /\ at = "out" /\ drv.started => pin = "rmt" /\ hw.state \in {"idle", "tail"} /\ res = Whole
LifecycleIsSafe == J1850TypeOK /\ CallbackHasItsBus /\ RestIsClean

\* j1850_vpw.c:1033: the pin stays off an aborted transfer until it is drained.
NothingDrivenAfterLoss == hw.state = "sending" /\ hw.cut => pin = "parked"
\* What is called sent was driven to its end.
SentIsSent == at \in {"echo", "silence"} => TxDone /\ ~hw.cut
\* No frame of ours is delivered as another node's, but for PWM when the bus
\* was heard in the idle wait (SuppressionOutlastsTheEcho).
EchoStaysHome == cb.rx = "in" /\ cap = "echo" => armed \/ tx.stale
\* j1850_pwm.c: policy changes invalidate a frame already being decoded.
IfrIsCurrent == ~Vpw /\ cb.watch = "in" /\ fresh => ~moved
WireIsOurs == NothingDrivenAfterLoss /\ SentIsSent /\ EchoStaysHome /\ IfrIsCurrent
\* Both: the lifecycle with its interrupts, and what they make of the wire.
DriverIsSafe == LifecycleIsSafe /\ WireIsOurs

\* Every call returns, whatever the wire does.
CallsReturn == at # "out" ~> at = "out"

\* j1850_pwm.c:1136: keep echo suppression armed for that capture.
SuppressionOutlastsTheEcho == cb.rx = "in" /\ cap = "echo" => armed
\* j1850_pwm.c:264: break_pending is cleared by whoever waits it out.
BreakIsServed == at = "idle" /\ BusIdle /\ brk => long
=============================================================================
