------------------------------ MODULE J1850Proofs ------------------------------
(***************************************************************************)
(* Proofs about J1850, for both drivers and any number of retries.         *)
(*                                                                         *)
(* What a close still has to take down orders what is there (Closes); the  *)
(* gates say which interrupt may be at work (Gates); where the caller is   *)
(* says what the transmitter holds (Drives); and a frame whose echo is     *)
(* still to come is one the caller waits for (EchoIsAwaited).              *)
(***************************************************************************)
EXTENDS J1850, TLAPS

Places ==
  {"out", "close", "prepare", "idle", "watch", "await", "drain", "stop", "recover",
   "result", "echo", "silence"}

\* The teardowns, and what is left of them.
PlansVpw ==
  {<<"rx_gate", "watch_gate", "clock", "rx", "tx">>,
   <<"watch_gate", "clock", "rx", "tx">>, <<"clock", "rx", "tx">>, <<"rx", "tx">>,
   <<"tx">>, <<>>}
PlansPwm ==
  {<<"edges", "watch_gate", "clock", "rx_gate", "rx", "tx">>,
   <<"watch_gate", "clock", "rx_gate", "rx", "tx">>,
   <<"clock", "rx_gate", "rx", "tx">>, <<"rx_gate", "rx", "tx">>, <<"rx", "tx">>,
   <<"tx">>, <<>>}
Steps(plan) == {plan[i] : i \in DOMAIN plan}
Left == Steps(todo)

-------------------------------------------------------------------------------
(* The inductive invariant. *)

LifeTyped ==
  /\ kind \in {"vpw", "pwm"}
  /\ drv \in [init : BOOLEAN, started : BOOLEAN] /\ res \subseteq Whole
  /\ stopping \in [Isrs -> BOOLEAN]
  /\ cb \in [Isrs -> {"out", "counted", "in", "losing"}]
  /\ at \in Places
  /\ todo \in IF Vpw THEN PlansVpw ELSE PlansPwm
TxType ==
  [n : 0 .. Retries, rc : {"ok", "busy", "refused", "failed", "lost", "fault"},
   stale : BOOLEAN]
SemType == [done : BOOLEAN, echo : BOOLEAN, due : BOOLEAN]
HwType == [state : {"idle", "sending", "hung", "tail"}, cut : BOOLEAN]
MonType == [running : BOOLEAN, lost : BOOLEAN, alarm : BOOLEAN]
TxTyped ==
  /\ tx \in TxType /\ sem \in SemType
  /\ heard \in BOOLEAN /\ armed \in BOOLEAN /\ brk \in BOOLEAN
WireTyped ==
  /\ hw \in HwType /\ mon \in MonType /\ pin \in {"off", "rmt", "parked"}
  /\ cap \in {"none", "echo", "other", "break"} /\ talking \in BOOLEAN
  /\ stream \in {"none", "valid", "outdated"} /\ fresh \in BOOLEAN /\ moved \in BOOLEAN

\* What is up, by where the caller is.
Builds ==
  /\ drv.started => drv.init
  /\ ~drv.init => res = {} /\ pin = "off"
  /\ at = "close" => drv.init /\ ~drv.started
  /\ at # "close" => todo = <<>>
  /\ drv.started \/ at \notin {"out", "close"} => drv.init /\ res = Whole
  /\ at \notin {"out", "close", "result"} => drv.started
  /\ at \in {"watch", "drain", "stop", "echo"} => Vpw
  /\ at = "result" /\ ~drv.started => tx.rc = "fault"
  /\ ~Vpw /\ "edges" \in res => "clock" \in res

\* What a close has done stays done.
Closes ==
  at = "close" =>
    /\ Whole \cap res \subseteq Left
    /\ "rx_gate" \notin Left => stopping.rx /\ cb.rx # "in"
    /\ Vpw /\ "watch_gate" \notin Left =>
         stopping.watch /\ cb.watch \notin {"in", "losing"}

\* Without what it uses an interrupt is out, or will be sent away at the gate;
\* and VPW's watch is out of a driver that is not sending.
Gates ==
  /\ cb.rx # "losing"
  /\ "rx" \notin res => cb.rx = "out" \/ (cb.rx = "counted" /\ stopping.rx)
  /\ Vpw /\ "clock" \notin res =>
       cb.watch = "out" \/ (cb.watch = "counted" /\ stopping.watch)
  /\ ~Vpw /\ "edges" \notin res => cb.watch = "out"
  /\ Vpw /\ drv.started /\ at \notin {"await", "drain", "stop"} =>
       cb.watch = "out" /\ ~mon.alarm /\ stopping.watch

\* What the transmitter holds, and who has the pin.
Drives ==
  /\ cb.watch = "losing" => Vpw /\ hw.state = "sending"
  /\ drv.started /\ at \in {"out", "prepare", "idle", "result", "echo", "silence"} =>
       pin = "rmt" /\ hw.state \in {"idle", "tail"}
  /\ hw.state = "sending" /\ hw.cut => pin = "parked"
  /\ ~Vpw /\ drv.started => pin = "rmt"
  /\ at = "stop" /\ tx.rc = "ok" => TxDone /\ ~hw.cut
  /\ at \in {"watch", "echo", "silence"} => ~hw.cut
  /\ at \in {"await", "drain"} /\ hw.cut => Vpw /\ mon.lost

\* A frame of ours is on the wire to its end, or has been captured.
Held == hw.state \in {"sending", "tail"} /\ ~hw.cut
Pending == cap = "echo" \/ Held

\* At most one echo is to come, and nobody else talks meanwhile.
EchoIsOne ==
  /\ Vpw => ~tx.stale
  /\ Held => ~talking
  /\ drv.started /\ cb.rx # "out" => cap # "none"
  /\ ~tx.stale /\ cap = "echo" => hw.state \notin {"sending", "hung"} /\ ~Held

\* The caller waits for it, and it will be suppressed.
EchoIsAwaited ==
  Pending /\ ~tx.stale =>
    /\ armed
    /\ \/ at \in {"watch", "await", "drain", "stop", "echo"}
       \/ at = "silence" /\ ~Vpw

\* What an attempt goes by says that it has come, or will not.
EchoIsKnown ==
  /\ ~Vpw /\ at \in {"await", "silence"} /\ ~tx.stale =>
       /\ heard => ~Pending
       /\ cap # "none" => ~Held
  /\ Vpw /\ at = "idle" => ~sem.echo
  /\ Vpw /\ at \in {"watch", "await", "drain", "stop", "echo"} /\ sem.echo => ~Pending
  /\ Vpw /\ at \in {"await", "drain"} /\ mon.lost => ~Pending
  /\ at = "stop" /\ tx.rc # "ok" => ~Pending

Ifr ==
  /\ stream = "valid" => ~moved
  /\ IfrIsCurrent

J1850Inv ==
  /\ LifeTyped /\ TxTyped /\ WireTyped
  /\ Builds /\ Closes /\ Gates /\ Drives
  /\ EchoIsOne /\ EchoIsAwaited /\ EchoIsKnown /\ Ifr

-------------------------------------------------------------------------------
(* Teardowns. *)

\* A step done is no longer to do; what it needs is done.
LEMMA VpwPlansGo ==
  ASSUME NEW plan \in PlansVpw, plan # <<>>
  PROVE  /\ Tail(plan) \in PlansVpw
         /\ Head(plan) \in Steps(plan)
         /\ Steps(Tail(plan)) = Steps(plan) \ {Head(plan)}
         /\ Head(plan) = "rx" => "rx_gate" \notin Steps(plan)
         /\ Head(plan) = "clock" => "watch_gate" \notin Steps(plan)
<1> DEFINE Goes(s) ==
      /\ Tail(s) \in PlansVpw
      /\ Head(s) \in Steps(s)
      /\ Steps(Tail(s)) = Steps(s) \ {Head(s)}
      /\ Head(s) = "rx" => "rx_gate" \notin Steps(s)
      /\ Head(s) = "clock" => "watch_gate" \notin Steps(s)
<1>1. Goes(<<"rx_gate", "watch_gate", "clock", "rx", "tx">>)
  BY DEF PlansVpw, Steps
<1>2. Goes(<<"watch_gate", "clock", "rx", "tx">>)
  BY DEF PlansVpw, Steps
<1>3. Goes(<<"clock", "rx", "tx">>)
  BY DEF PlansVpw, Steps
<1>4. Goes(<<"rx", "tx">>)
  BY DEF PlansVpw, Steps
<1>5. Goes(<<"tx">>)
  BY DEF PlansVpw, Steps
<1> HIDE DEF Goes
<1>6. Goes(plan)
  BY <1>1, <1>2, <1>3, <1>4, <1>5 DEF PlansVpw
<1>7. QED
  BY <1>6 DEF Goes

LEMMA PwmPlansGo ==
  ASSUME NEW plan \in PlansPwm, plan # <<>>
  PROVE  /\ Tail(plan) \in PlansPwm
         /\ Head(plan) \in Steps(plan)
         /\ Steps(Tail(plan)) = Steps(plan) \ {Head(plan)}
         /\ Head(plan) = "rx" => "rx_gate" \notin Steps(plan)
         /\ Head(plan) = "clock" => "edges" \notin Steps(plan)
<1> DEFINE Goes(s) ==
      /\ Tail(s) \in PlansPwm
      /\ Head(s) \in Steps(s)
      /\ Steps(Tail(s)) = Steps(s) \ {Head(s)}
      /\ Head(s) = "rx" => "rx_gate" \notin Steps(s)
      /\ Head(s) = "clock" => "edges" \notin Steps(s)
<1>1. Goes(<<"edges", "watch_gate", "clock", "rx_gate", "rx", "tx">>)
  BY DEF PlansPwm, Steps
<1>2. Goes(<<"watch_gate", "clock", "rx_gate", "rx", "tx">>)
  BY DEF PlansPwm, Steps
<1>3. Goes(<<"clock", "rx_gate", "rx", "tx">>)
  BY DEF PlansPwm, Steps
<1>4. Goes(<<"rx_gate", "rx", "tx">>)
  BY DEF PlansPwm, Steps
<1>5. Goes(<<"rx", "tx">>)
  BY DEF PlansPwm, Steps
<1>6. Goes(<<"tx">>)
  BY DEF PlansPwm, Steps
<1> HIDE DEF Goes
<1>7. Goes(plan)
  BY <1>1, <1>2, <1>3, <1>4, <1>5, <1>6 DEF PlansPwm
<1>8. QED
  BY <1>7 DEF Goes

LEMMA NothingLeft == Steps(<<>>) = {} /\ <<>> \in PlansVpw /\ <<>> \in PlansPwm
BY DEF Steps, PlansVpw, PlansPwm

\* A step of the close that is done.
LEMMA PlansMove ==
  ASSUME LifeTyped, todo # <<>>, todo' = Tail(todo), kind' = kind
  PROVE  /\ todo' \in IF Vpw THEN PlansVpw ELSE PlansPwm
         /\ Next1 \in Left /\ Left' = Left \ {Next1}
         /\ Next1 = "rx" => "rx_gate" \notin Left
         /\ Next1 = "clock" => IF Vpw THEN "watch_gate" \notin Left
                                      ELSE "edges" \notin Left
<1>1. CASE Vpw
  BY <1>1, VpwPlansGo DEF LifeTyped, Left, Next1, Steps
<1>2. CASE ~Vpw
  BY <1>2, PwmPlansGo DEF LifeTyped, Left, Next1, Steps
<1>3. QED
  BY <1>1, <1>2

\* A close begins with what there is in it.
LEMMA PlansBegin ==
  ASSUME kind' = kind, todo' = Teardown, res' \subseteq Whole, LifeTyped
  PROVE  /\ todo' \in IF Vpw THEN PlansVpw ELSE PlansPwm
         /\ res' \subseteq Left' /\ "rx_gate" \in Left'
         /\ Vpw => "watch_gate" \in Left'
<1>1. CASE Vpw
  <2>1. todo' = <<"rx_gate", "watch_gate", "clock", "rx", "tx">>
    BY <1>1 DEF Teardown, TeardownVpw
  <2>2. Left' = {"rx_gate", "watch_gate", "clock", "rx", "tx"}
    BY <2>1 DEF Left, Steps
  <2>3. QED
    BY <1>1, <2>1, <2>2 DEF PlansVpw, Whole
<1>2. CASE ~Vpw /\ "edges" \in res'
  <2>1. todo' = <<"edges", "watch_gate", "clock", "rx_gate", "rx", "tx">>
    BY <1>2 DEF Teardown, TeardownPwm
  <2>2. Left' = {"edges", "watch_gate", "clock", "rx_gate", "rx", "tx"}
    BY <2>1 DEF Left, Steps
  <2>3. QED
    BY <1>2, <2>1, <2>2 DEF PlansPwm, Whole
<1>3. CASE ~Vpw /\ "edges" \notin res'
  <2>1. todo' = <<"clock", "rx_gate", "rx", "tx">>
    BY <1>3 DEF Teardown, TeardownPwm
  <2>2. Left' = {"clock", "rx_gate", "rx", "tx"}
    BY <2>1 DEF Left, Steps
  <2>3. QED
    BY <1>3, <2>1, <2>2 DEF PlansPwm, Whole
<1>4. QED
  BY <1>1, <1>2, <1>3

\* What the caller does to its attempt.
LEMMA TxMoves ==
  ASSUME TxTyped
  PROVE  /\ NoTx \in TxType /\ [NoTx EXCEPT !.stale = tx.stale] \in TxType
         /\ \A rc \in {"ok", "busy", "refused", "failed", "lost", "fault"} :
              [tx EXCEPT !.rc = rc] \in TxType
         /\ \A stale \in BOOLEAN : [tx EXCEPT !.stale = stale] \in TxType
         /\ tx.n < Retries => [tx EXCEPT !.n = @ + 1] \in TxType
         /\ ~(tx.n >= Retries) => tx.n < Retries
<1>1. Retries \in Nat /\ tx \in TxType
  BY J1850Assumption DEF TxTyped
<1>2. tx.n < Retries => tx.n + 1 \in 0 .. Retries
  BY <1>1 DEF TxType
<1>3. tx.n < Retries => [tx EXCEPT !.n = @ + 1] \in TxType
  BY <1>1, <1>2 DEF TxType
<1>4. NoTx \in TxType /\ [NoTx EXCEPT !.stale = tx.stale] \in TxType
  BY <1>1 DEF TxType, NoTx
<1>5. QED
  BY <1>1, <1>3, <1>4 DEF TxType

\* Semaphores given and taken.
LEMMA SemMoves ==
  ASSUME TxTyped
  PROVE  /\ NoSem \in SemType
         /\ [sem EXCEPT !.done = FALSE, !.echo = FALSE] \in SemType
         /\ [sem EXCEPT !.due = FALSE, !.done = TRUE] \in SemType
         /\ \A b \in BOOLEAN : /\ [sem EXCEPT !.done = b] \in SemType
                              /\ [sem EXCEPT !.echo = b] \in SemType
                              /\ [sem EXCEPT !.due = b] \in SemType
BY DEF TxTyped, SemType, NoSem

\* The transmitter's states.
LEMMA HwMoves ==
  ASSUME WireTyped
  PROVE  /\ Quiet \in HwType
         /\ [state |-> "sending", cut |-> FALSE] \in HwType
         /\ [state |-> "tail", cut |-> TRUE] \in HwType
         /\ [hw EXCEPT !.cut = TRUE] \in HwType
         /\ \A s \in {"tail", "hung"} : [hw EXCEPT !.state = s] \in HwType
BY DEF WireTyped, HwType, Quiet

\* The watch's states.
LEMMA MonMoves ==
  ASSUME WireTyped
  PROVE  /\ NoMon \in MonType
         /\ [running |-> TRUE, lost |-> FALSE, alarm |-> TRUE] \in MonType
         /\ [mon EXCEPT !.running = FALSE, !.alarm = FALSE] \in MonType
         /\ \A b \in BOOLEAN : [mon EXCEPT !.lost = b] \in MonType
         /\ \A b \in {FALSE, TRUE, mon.running} : [mon EXCEPT !.alarm = b] \in MonType
BY DEF WireTyped, MonType, NoMon

-------------------------------------------------------------------------------
(* Every step preserves each part. *)

\* Where the caller and the interrupts are, and what is left to take down.
LEMMA LifeKept == ASSUME J1850Inv, [Next]_vars PROVE LifeTyped'
<1>1. LifeTyped /\ Builds
  BY DEF J1850Inv
<1> USE DEF Elsewhere, Within, wire, air, rxVars, edges, life, LifeTyped, Builds, Vpw,
   Whole, Places, Gone, Next1, GivesUp, Isrs
<1>2. CASE Open
  <2>1. /\ kind' = kind /\ cb' = cb /\ res' \in SUBSET Whole
        /\ drv' = [init |-> TRUE, started |-> res' = Whole]
        /\ stopping' = [i \in Isrs |-> i = "watch" /\ Vpw]
        /\ at' \in {"out", "close"}
        /\ todo' = IF res' = Whole THEN <<>> ELSE Teardown
    BY <1>2 DEF Open
  <2>2. todo' \in IF Vpw THEN PlansVpw ELSE PlansPwm
    BY <1>1, <2>1, PlansBegin, NothingLeft
  <2>3. drv' \in [init : BOOLEAN, started : BOOLEAN]
    <3>1. (res' = Whole) \in BOOLEAN
      OBVIOUS
    <3>2. QED
      BY <2>1, <3>1
  <2>4. stopping' \in [Isrs -> BOOLEAN]
    <3>1. \A i \in Isrs : (i = "watch" /\ Vpw) \in BOOLEAN
      OBVIOUS
    <3>2. QED
      BY <2>1, <3>1
  <2>5. QED
    BY <1>1, <2>1, <2>2, <2>3, <2>4
<1>3. CASE Close
  <2>1. todo' \in IF Vpw THEN PlansVpw ELSE PlansPwm
    BY <1>1, <1>3, PlansBegin DEF Close
  <2>2. QED
    BY <1>1, <1>3, <2>1 DEF Close
<1>4. CASE Send \/ SetIfr
  BY <1>1, <1>4, PlansMove, NothingLeft
     DEF Send, NoTx, SetIfr
<1>5. CASE Prepare \/ Busy \/ Idles
  BY <1>1, <1>5, PlansMove, NothingLeft
     DEF Prepare, Busy, Fails, Idles, BusIdle
<1>6. CASE Watch \/ Loses \/ Told \/ Hangs \/ Drained
  BY <1>1, <1>6, PlansMove, NothingLeft
     DEF Watch, Loses, Verdict, Told, Hangs, Drained, TxDone
<1>7. CASE FinishShuts \/ FinishHeld \/ FinishStops \/ Recovers \/ RecoverFails
  BY <1>1, <1>7, PlansMove, NothingLeft
     DEF FinishShuts, FinishHeld, Taken, Fault, Fails, FinishStops, NoMon, Recovers,
        Aborted, Quiet, RecoverFails
<1>8. CASE Result \/ Echo \/ SilenceVpw
  BY <1>1, <1>8, PlansMove, NothingLeft
     DEF Result, Echo, Settled, Taken, SilenceVpw, Again
<1>9. CASE SentPwm \/ FailsPwm \/ SilencePwm
  BY <1>1, <1>9, PlansMove, NothingLeft
     DEF SentPwm, TxDone, FailsPwm, SilencePwm, Again, Settled, Taken
<1>10. CASE Deletes
  BY <1>1, <1>10, PlansMove, NothingLeft
     DEF Deletes, GivesUp
<1>11. CASE Freed
  BY <1>1, <1>11, PlansMove, NothingLeft
     DEF Freed, Gone, Quiet, NoSem
<1>12. CASE \E i \in Isrs : GateShuts(i)
  BY <1>1, <1>12, PlansMove, NothingLeft
     DEF GateShuts, Gate, GateOf
<1>13. CASE \E i \in Isrs : GatePassed(i)
  BY <1>1, <1>13, PlansMove, NothingLeft
     DEF GatePassed, Gate, GateOf
<1>14. CASE \E i \in Isrs : GateHeld(i)
  BY <1>1, <1>14, PlansMove, NothingLeft
     DEF GateHeld, Gate, GateOf, GivesUp
<1>15. CASE RxFires \/ RxEnters \/ ReceivedVpw \/ ReceivedPwm
  BY <1>1, <1>15, PlansMove, NothingLeft
     DEF RxFires, RxEnters, ReceivedVpw, Leaves, OurEcho, Asks, ReceivedPwm
<1>16. CASE WatchFires \/ WatchEnters \/ WatchSamples \/ WatchAborts
  BY <1>1, <1>16, PlansMove, NothingLeft
     DEF WatchFires, WatchEnters, WatchSamples, WatchAborts
<1>17. CASE EdgeEnters \/ EdgeAnswers
  BY <1>1, <1>17, PlansMove, NothingLeft
     DEF EdgeEnters, EdgeAnswers
<1>18. CASE TxEnds \/ OnTxDone \/ CaptureCloses
  BY <1>1, <1>18, PlansMove, NothingLeft
     DEF TxEnds, OnTxDone, CaptureCloses, Hears, Quiet
<1>19. CASE OtherStarts \/ OtherEnds
  BY <1>1, <1>19, PlansMove, NothingLeft
     DEF OtherStarts, OtherEnds, Hears
<1>20. CASE UNCHANGED vars
  BY <1>1, <1>20, PlansMove, NothingLeft
     DEF vars
<1>21. QED
  BY <1>2, <1>3, <1>4, <1>5, <1>6, <1>7, <1>8, <1>9, <1>10, <1>11, <1>12, <1>13, <1>14,
     <1>15, <1>16, <1>17, <1>18, <1>19, <1>20
     DEF Next, CallerStep, Interrupts, Hardware

\* The attempts stay within the retries.
LEMMA TxKept == ASSUME J1850Inv, [Next]_vars PROVE TxTyped'
<1>1. LifeTyped /\ TxTyped
  BY DEF J1850Inv
<1> USE DEF Elsewhere, Within, wire, air, rxVars, edges, life, TxTyped, Vpw, Isrs
<1>2. CASE Open
  BY <1>1, <1>2, TxMoves, SemMoves
     DEF Open, OpensVpw, OpensPwm, Quiet, NoTx, NoSem, NoMon
<1>3. CASE Close
  BY <1>1, <1>3, TxMoves, SemMoves
     DEF Close
<1>4. CASE Send \/ SetIfr
  BY <1>1, <1>4, TxMoves, SemMoves
     DEF Send, NoTx, SetIfr
<1>5. CASE Prepare
  BY <1>1, <1>5, TxMoves, SemMoves
     DEF Prepare
<1>6. CASE Busy
  BY <1>1, <1>6, TxMoves, SemMoves
     DEF Busy, Fails
<1>7. CASE Idles
  BY <1>1, <1>7, TxMoves, SemMoves
     DEF Idles, BusIdle, Fails
<1>8. CASE Watch \/ Loses \/ Told \/ Hangs \/ Drained
  BY <1>1, <1>8, TxMoves, SemMoves
     DEF Watch, Loses, Verdict, Told, Hangs, Drained, TxDone
<1>9. CASE FinishShuts \/ FinishHeld \/ FinishStops \/ Recovers \/ RecoverFails
  BY <1>1, <1>9, TxMoves, SemMoves
     DEF FinishShuts, FinishHeld, Taken, Fault, Fails, FinishStops, NoMon, Recovers,
        Aborted, Quiet, RecoverFails
<1>10. CASE Result \/ Echo \/ SilenceVpw
  BY <1>1, <1>10, TxMoves, SemMoves
     DEF Result, Echo, Settled, Taken, SilenceVpw, Again
<1>11. CASE SentPwm \/ FailsPwm \/ SilencePwm
  BY <1>1, <1>11, TxMoves, SemMoves
     DEF SentPwm, TxDone, FailsPwm, SilencePwm, Again, Settled, Taken
<1>12. CASE Deletes
  BY <1>1, <1>12, TxMoves, SemMoves
     DEF Deletes, GivesUp
<1>13. CASE Freed
  BY <1>1, <1>13, TxMoves, SemMoves
     DEF Freed, Gone, Quiet, NoSem
<1>14. CASE \E i \in Isrs : GateShuts(i) \/ GatePassed(i) \/ GateHeld(i)
  BY <1>1, <1>14, TxMoves, SemMoves
     DEF GateShuts, Gate, GateOf, GatePassed, GateHeld, GivesUp
<1>15. CASE RxFires \/ RxEnters \/ ReceivedVpw \/ ReceivedPwm
  BY <1>1, <1>15, TxMoves, SemMoves
     DEF RxFires, RxEnters, ReceivedVpw, Leaves, OurEcho, Asks, ReceivedPwm
<1>16. CASE WatchFires \/ WatchEnters \/ WatchSamples \/ WatchAborts
  BY <1>1, <1>16, TxMoves, SemMoves
     DEF WatchFires, WatchEnters, WatchSamples, WatchAborts
<1>17. CASE EdgeEnters \/ EdgeAnswers
  BY <1>1, <1>17, TxMoves, SemMoves
     DEF EdgeEnters, EdgeAnswers
<1>18. CASE TxEnds \/ OnTxDone \/ CaptureCloses
  BY <1>1, <1>18, TxMoves, SemMoves
     DEF TxEnds, OnTxDone, CaptureCloses, Hears, Quiet
<1>19. CASE OtherStarts \/ OtherEnds
  BY <1>1, <1>19, TxMoves, SemMoves
     DEF OtherStarts, OtherEnds, Hears
<1>20. CASE UNCHANGED vars
  BY <1>1, <1>20, TxMoves, SemMoves
     DEF vars
<1>21. QED
  BY <1>2, <1>3, <1>4, <1>5, <1>6, <1>7, <1>8, <1>9, <1>10, <1>11, <1>12, <1>13, <1>14,
     <1>15, <1>16, <1>17, <1>18, <1>19, <1>20
     DEF Next, CallerStep, Interrupts, Hardware

\* The transmitter, the watch and what is captured.
LEMMA WireKept == ASSUME J1850Inv, [Next]_vars PROVE WireTyped'
<1>1. LifeTyped /\ WireTyped
  BY DEF J1850Inv
<1> USE DEF Elsewhere, Within, wire, air, rxVars, edges, life, WireTyped, Vpw, Isrs
<1>2. CASE Open
  BY <1>1, <1>2, HwMoves, MonMoves
     DEF Open, OpensVpw, OpensPwm, Quiet, NoTx, NoSem, NoMon
<1>3. CASE Close
  BY <1>1, <1>3, HwMoves, MonMoves
     DEF Close
<1>4. CASE Send \/ SetIfr
  BY <1>1, <1>4, HwMoves, MonMoves
     DEF Send, NoTx, SetIfr
<1>5. CASE Prepare
  BY <1>1, <1>5, HwMoves, MonMoves
     DEF Prepare
<1>6. CASE Busy
  BY <1>1, <1>6, HwMoves, MonMoves
     DEF Busy, Fails
<1>7. CASE Idles
  BY <1>1, <1>7, HwMoves, MonMoves
     DEF Idles, BusIdle, Fails
<1>8. CASE Watch \/ Loses \/ Told \/ Hangs \/ Drained
  BY <1>1, <1>8, HwMoves, MonMoves
     DEF Watch, Loses, Verdict, Told, Hangs, Drained, TxDone
<1>9. CASE FinishShuts \/ FinishHeld \/ FinishStops \/ Recovers \/ RecoverFails
  <2>1. CASE FinishShuts
    BY <1>1, <2>1, HwMoves, MonMoves DEF FinishShuts
  <2>2. CASE FinishHeld
    BY <1>1, <2>2, HwMoves, MonMoves DEF FinishHeld, Taken, Fault, Fails
  <2>3. CASE FinishStops
    BY <1>1, <2>3, HwMoves, MonMoves DEF FinishStops, NoMon
  <2>4. CASE Recovers
    BY <1>1, <2>4, HwMoves, MonMoves DEF Recovers, Aborted, Quiet
  <2>5. CASE RecoverFails
    BY <1>1, <2>5, HwMoves, MonMoves DEF RecoverFails, Fault, Fails
  <2>6. QED
    BY <1>9, <2>1, <2>2, <2>3, <2>4, <2>5
<1>10. CASE Result \/ Echo \/ SilenceVpw
  BY <1>1, <1>10, HwMoves, MonMoves
     DEF Result, Echo, Settled, Taken, SilenceVpw, Again
<1>11. CASE SentPwm \/ FailsPwm \/ SilencePwm
  BY <1>1, <1>11, HwMoves, MonMoves
     DEF SentPwm, TxDone, FailsPwm, SilencePwm, Again, Settled, Taken
<1>12. CASE Deletes
  BY <1>1, <1>12, HwMoves, MonMoves
     DEF Deletes, GivesUp
<1>13. CASE Freed
  BY <1>1, <1>13, HwMoves, MonMoves
     DEF Freed, Gone, Quiet, NoSem
<1>14. CASE \E i \in Isrs : GateShuts(i) \/ GatePassed(i) \/ GateHeld(i)
  BY <1>1, <1>14, HwMoves, MonMoves
     DEF GateShuts, Gate, GateOf, GatePassed, GateHeld, GivesUp
<1>15. CASE RxFires \/ RxEnters \/ ReceivedVpw \/ ReceivedPwm
  BY <1>1, <1>15, HwMoves, MonMoves
     DEF RxFires, RxEnters, ReceivedVpw, Leaves, OurEcho, Asks, ReceivedPwm
<1>16. CASE WatchFires \/ WatchEnters \/ WatchSamples \/ WatchAborts
  <2>1. CASE WatchFires
    BY <1>1, <2>1, HwMoves, MonMoves DEF WatchFires
  <2>2. CASE WatchEnters
    BY <1>1, <2>2, HwMoves, MonMoves DEF WatchEnters
  <2>3. CASE WatchSamples
    BY <1>1, <2>3, HwMoves, MonMoves DEF WatchSamples
  <2>4. CASE WatchAborts
    BY <1>1, <2>4, HwMoves, MonMoves DEF WatchAborts
  <2>5. QED
    BY <1>16, <2>1, <2>2, <2>3, <2>4
<1>17. CASE EdgeEnters \/ EdgeAnswers
  BY <1>1, <1>17, HwMoves, MonMoves
     DEF EdgeEnters, EdgeAnswers
<1>18. CASE TxEnds \/ OnTxDone \/ CaptureCloses
  <2>1. CASE TxEnds
    BY <1>1, <2>1, HwMoves, MonMoves DEF TxEnds
  <2>2. CASE OnTxDone
    BY <1>1, <2>2, HwMoves, MonMoves DEF OnTxDone
  <2>3. CASE CaptureCloses
    BY <1>1, <2>3, HwMoves, MonMoves DEF CaptureCloses, Hears, Quiet
  <2>4. QED
    BY <1>18, <2>1, <2>2, <2>3
<1>19. CASE OtherStarts \/ OtherEnds
  BY <1>1, <1>19, HwMoves, MonMoves
     DEF OtherStarts, OtherEnds, Hears
<1>20. CASE UNCHANGED vars
  BY <1>1, <1>20, HwMoves, MonMoves
     DEF vars
<1>21. QED
  BY <1>2, <1>3, <1>4, <1>5, <1>6, <1>7, <1>8, <1>9, <1>10, <1>11, <1>12, <1>13, <1>14,
     <1>15, <1>16, <1>17, <1>18, <1>19, <1>20
     DEF Next, CallerStep, Interrupts, Hardware

\* What is up stays up until a close or a fault takes it, whole.
LEMMA BuildsKept == ASSUME J1850Inv, [Next]_vars PROVE Builds'
<1>1. LifeTyped /\ TxTyped /\ WireTyped /\ Builds /\ Closes /\ Gates /\ Drives
  BY DEF J1850Inv
<1> USE DEF Elsewhere, Within, wire, air, rxVars, edges, life, LifeTyped, TxTyped,
   TxType, Builds, Closes, Gates, Drives, Whole, Gone, Vpw, Next1, GivesUp, Isrs
<1>2. CASE Open
  BY <1>1, <1>2, PlansMove
     DEF Open, OpensVpw, OpensPwm, Quiet, NoTx, NoSem, NoMon
<1>3. CASE Close
  BY <1>1, <1>3, PlansMove
     DEF Close
<1>4. CASE Send \/ SetIfr
  BY <1>1, <1>4, PlansMove
     DEF Send, NoTx, SetIfr
<1>5. CASE Prepare \/ Busy \/ Idles
  BY <1>1, <1>5, PlansMove
     DEF Prepare, Busy, Fails, Idles, BusIdle
<1>6. CASE Watch \/ Loses \/ Told \/ Hangs \/ Drained
  BY <1>1, <1>6, PlansMove
     DEF Watch, Loses, Verdict, Told, Hangs, Drained, TxDone
<1>7. CASE FinishShuts \/ FinishHeld \/ FinishStops \/ Recovers \/ RecoverFails
  BY <1>1, <1>7, PlansMove
     DEF FinishShuts, FinishHeld, Taken, Fault, Fails, FinishStops, NoMon, Recovers,
        Aborted, Quiet, RecoverFails
<1>8. CASE Result \/ Echo \/ SilenceVpw
  BY <1>1, <1>8, PlansMove
     DEF Result, Echo, Settled, Taken, SilenceVpw, Again
<1>9. CASE SentPwm \/ FailsPwm \/ SilencePwm
  BY <1>1, <1>9, PlansMove
     DEF SentPwm, TxDone, FailsPwm, SilencePwm, Again, Settled, Taken
<1>10. CASE Deletes
  BY <1>1, <1>10, PlansMove
     DEF Deletes, GivesUp
<1>11. CASE Freed
  <2>1. Left = {}
    BY <1>11, NothingLeft DEF Freed, Left
  <2>2. res \subseteq Whole /\ Whole \cap res \subseteq Left
    BY <1>1, <1>11 DEF Freed
  <2>3. res' = {}
    BY <1>11, <2>1, <2>2 DEF Freed
  <2>4. QED
    BY <1>1, <1>11, <2>3 DEF Freed
<1>12. CASE \E i \in Isrs : GateShuts(i) \/ GatePassed(i) \/ GateHeld(i)
  BY <1>1, <1>12, PlansMove
     DEF GateShuts, Gate, GateOf, GatePassed, GateHeld, GivesUp
<1>13. CASE RxFires \/ RxEnters \/ ReceivedVpw \/ ReceivedPwm
  BY <1>1, <1>13, PlansMove
     DEF RxFires, RxEnters, ReceivedVpw, Leaves, OurEcho, Asks, ReceivedPwm
<1>14. CASE WatchFires \/ WatchEnters \/ WatchSamples \/ WatchAborts
  BY <1>1, <1>14, PlansMove
     DEF WatchFires, WatchEnters, WatchSamples, WatchAborts
<1>15. CASE EdgeEnters \/ EdgeAnswers
  BY <1>1, <1>15, PlansMove
     DEF EdgeEnters, EdgeAnswers
<1>16. CASE TxEnds \/ OnTxDone \/ CaptureCloses
  BY <1>1, <1>16, PlansMove
     DEF TxEnds, OnTxDone, CaptureCloses, Hears, Quiet
<1>17. CASE OtherStarts \/ OtherEnds
  BY <1>1, <1>17, PlansMove
     DEF OtherStarts, OtherEnds, Hears
<1>18. CASE UNCHANGED vars
  BY <1>1, <1>18, PlansMove
     DEF vars
<1>19. QED
  BY <1>2, <1>3, <1>4, <1>5, <1>6, <1>7, <1>8, <1>9, <1>10, <1>11, <1>12, <1>13, <1>14,
     <1>15, <1>16, <1>17, <1>18
     DEF Next, CallerStep, Interrupts, Hardware

\* A close deletes in its order, and a gate it has passed stays shut.
LEMMA ClosesKept == ASSUME J1850Inv, [Next]_vars PROVE Closes'
<1>1. LifeTyped /\ Builds /\ Closes
  BY DEF J1850Inv
<1> USE DEF Elsewhere, Within, wire, air, rxVars, edges, life, LifeTyped, Builds,
   Closes, Whole, Vpw, Next1, GivesUp, Isrs
<1>2. todo' = todo => Left' = Left
  BY DEF Left
<1>3. CASE Open
  <2>1. at' = "close" => /\ kind' = kind /\ res' \in SUBSET Whole /\ todo' = Teardown
    BY <1>3 DEF Open
  <2>2. QED
    BY <1>1, <2>1, PlansBegin
<1>4. CASE Close
  <2>1. kind' = kind /\ res' = res /\ todo' = Teardown
    BY <1>4 DEF Close
  <2>2. QED
    BY <1>1, <2>1, PlansBegin
<1>5. CASE Send \/ SetIfr
  BY <1>1, <1>5, PlansMove, <1>2
     DEF Send, NoTx, SetIfr
<1>6. CASE Prepare \/ Busy \/ Idles
  BY <1>1, <1>6, PlansMove, <1>2
     DEF Prepare, Busy, Fails, Idles, BusIdle
<1>7. CASE Watch \/ Loses \/ Told \/ Hangs \/ Drained
  BY <1>1, <1>7, PlansMove, <1>2
     DEF Watch, Loses, Verdict, Told, Hangs, Drained, TxDone
<1>8. CASE FinishShuts \/ FinishHeld \/ FinishStops \/ Recovers \/ RecoverFails
  BY <1>1, <1>8, PlansMove, <1>2
     DEF FinishShuts, FinishHeld, Taken, Fault, Fails, FinishStops, NoMon, Recovers,
        Aborted, Quiet, RecoverFails
<1>9. CASE Result \/ Echo \/ SilenceVpw
  BY <1>1, <1>9, PlansMove, <1>2
     DEF Result, Echo, Settled, Taken, SilenceVpw, Again
<1>10. CASE SentPwm \/ FailsPwm \/ SilencePwm
  BY <1>1, <1>10, PlansMove, <1>2
     DEF SentPwm, TxDone, FailsPwm, SilencePwm, Again, Settled, Taken
<1>11. CASE Deletes
  BY <1>1, <1>11, PlansMove, <1>2
     DEF Deletes, GivesUp
<1>12. CASE Freed
  BY <1>1, <1>12, PlansMove, <1>2
     DEF Freed, Gone, Quiet, NoSem
<1>13. CASE \E i \in Isrs : GateShuts(i) \/ GatePassed(i) \/ GateHeld(i)
  BY <1>1, <1>13, PlansMove, <1>2
     DEF GateShuts, Gate, GateOf, GatePassed, GateHeld, GivesUp
<1>14. CASE RxFires \/ RxEnters \/ ReceivedVpw \/ ReceivedPwm
  BY <1>1, <1>14, PlansMove, <1>2
     DEF RxFires, RxEnters, ReceivedVpw, Leaves, OurEcho, Asks, ReceivedPwm
<1>15. CASE WatchFires \/ WatchEnters \/ WatchSamples \/ WatchAborts
  BY <1>1, <1>15, PlansMove, <1>2
     DEF WatchFires, WatchEnters, WatchSamples, WatchAborts
<1>16. CASE EdgeEnters \/ EdgeAnswers
  BY <1>1, <1>16, PlansMove, <1>2
     DEF EdgeEnters, EdgeAnswers
<1>17. CASE TxEnds \/ OnTxDone \/ CaptureCloses
  BY <1>1, <1>17, PlansMove, <1>2
     DEF TxEnds, OnTxDone, CaptureCloses, Hears, Quiet
<1>18. CASE OtherStarts \/ OtherEnds
  BY <1>1, <1>18, PlansMove, <1>2
     DEF OtherStarts, OtherEnds, Hears
<1>19. CASE UNCHANGED vars
  BY <1>1, <1>19, PlansMove, <1>2
     DEF vars
<1>20. QED
  BY <1>3, <1>4, <1>5, <1>6, <1>7, <1>8, <1>9, <1>10, <1>11, <1>12, <1>13, <1>14, <1>15,
     <1>16, <1>17, <1>18, <1>19
     DEF Next, CallerStep, Interrupts, Hardware

\* No interrupt gets past a gate that is shut, nor to work without its clock.
LEMMA GatesKept == ASSUME J1850Inv, [Next]_vars PROVE Gates'
<1>1. LifeTyped /\ WireTyped /\ Builds /\ Closes /\ Gates /\ Drives
  BY DEF J1850Inv
<1> USE DEF Elsewhere, Within, wire, air, rxVars, edges, life, LifeTyped, WireTyped,
   MonType, Builds, Closes, Gates, Whole, Vpw, Next1, GivesUp, Isrs
<1>2. CASE Open
  BY <1>1, <1>2, PlansMove
     DEF Open, OpensVpw, OpensPwm, Quiet, NoTx, NoSem, NoMon
<1>3. CASE Close
  BY <1>1, <1>3, PlansMove
     DEF Close
<1>4. CASE Send \/ SetIfr
  BY <1>1, <1>4, PlansMove
     DEF Send, NoTx, SetIfr
<1>5. CASE Prepare \/ Busy \/ Idles
  BY <1>1, <1>5, PlansMove
     DEF Prepare, Busy, Fails, Idles, BusIdle
<1>6. CASE Watch \/ Loses \/ Told \/ Hangs \/ Drained
  BY <1>1, <1>6, PlansMove
     DEF Watch, Loses, Verdict, Told, Hangs, Drained, TxDone
<1>7. CASE FinishShuts \/ FinishHeld \/ FinishStops \/ Recovers \/ RecoverFails
  BY <1>1, <1>7, PlansMove
     DEF FinishShuts, FinishHeld, Taken, Fault, Fails, FinishStops, NoMon, Recovers,
        Aborted, Quiet, RecoverFails
<1>8. CASE Result \/ Echo \/ SilenceVpw
  BY <1>1, <1>8, PlansMove
     DEF Result, Echo, Settled, Taken, SilenceVpw, Again
<1>9. CASE SentPwm \/ FailsPwm \/ SilencePwm
  BY <1>1, <1>9, PlansMove
     DEF SentPwm, TxDone, FailsPwm, SilencePwm, Again, Settled, Taken
<1>10. CASE Deletes
  BY <1>1, <1>10, PlansMove
     DEF Deletes, GivesUp
<1>11. CASE Freed
  BY <1>1, <1>11, PlansMove
     DEF Freed, Gone, Quiet, NoSem
<1>12. CASE \E i \in Isrs : GateShuts(i) \/ GatePassed(i) \/ GateHeld(i)
  BY <1>1, <1>12, PlansMove
     DEF GateShuts, Gate, GateOf, GatePassed, GateHeld, GivesUp
<1>13. CASE RxFires \/ RxEnters \/ ReceivedVpw \/ ReceivedPwm
  BY <1>1, <1>13, PlansMove
     DEF RxFires, RxEnters, ReceivedVpw, Leaves, OurEcho, Asks, ReceivedPwm
<1>14. CASE WatchFires \/ WatchEnters \/ WatchSamples \/ WatchAborts
  BY <1>1, <1>14, PlansMove
     DEF WatchFires, WatchEnters, WatchSamples, WatchAborts
<1>15. CASE EdgeEnters \/ EdgeAnswers
  BY <1>1, <1>15, PlansMove
     DEF EdgeEnters, EdgeAnswers
<1>16. CASE TxEnds \/ OnTxDone \/ CaptureCloses
  BY <1>1, <1>16, PlansMove
     DEF TxEnds, OnTxDone, CaptureCloses, Hears, Quiet
<1>17. CASE OtherStarts \/ OtherEnds
  BY <1>1, <1>17, PlansMove
     DEF OtherStarts, OtherEnds, Hears
<1>18. CASE UNCHANGED vars
  BY <1>1, <1>18, PlansMove
     DEF vars
<1>19. QED
  BY <1>2, <1>3, <1>4, <1>5, <1>6, <1>7, <1>8, <1>9, <1>10, <1>11, <1>12, <1>13, <1>14,
     <1>15, <1>16, <1>17, <1>18
     DEF Next, CallerStep, Interrupts, Hardware

\* The transmitter and the pin follow the caller, and the watch that aborts.
LEMMA DrivesKept == ASSUME J1850Inv, [Next]_vars PROVE Drives'
<1>1. LifeTyped /\ TxTyped /\ WireTyped /\ Builds /\ Closes /\ Gates /\ Drives
  BY DEF J1850Inv
<1> USE DEF Elsewhere, Within, wire, air, rxVars, edges, life, LifeTyped, TxTyped,
   TxType, SemType, WireTyped, HwType, MonType, Builds, Gates, Drives, TxDone, Vpw, Isrs
<1>2. CASE Open
  BY <1>1, <1>2
     DEF Open, OpensVpw, OpensPwm, Quiet, NoTx, NoSem, NoMon
<1>3. CASE Close
  BY <1>1, <1>3
     DEF Close
<1>4. CASE Send \/ SetIfr
  BY <1>1, <1>4
     DEF Send, NoTx, SetIfr
<1>5. CASE Prepare \/ Busy \/ Idles
  BY <1>1, <1>5
     DEF Prepare, Busy, Fails, Idles, BusIdle
<1>6. CASE Watch \/ Loses \/ Told \/ Hangs \/ Drained
  BY <1>1, <1>6
     DEF Watch, Loses, Verdict, Told, Hangs, Drained, TxDone
<1>7. CASE FinishShuts \/ FinishHeld \/ FinishStops \/ Recovers \/ RecoverFails
  BY <1>1, <1>7
     DEF FinishShuts, FinishHeld, Taken, Fault, Fails, FinishStops, NoMon, Recovers,
        Aborted, Quiet, RecoverFails
<1>8. CASE Result \/ Echo \/ SilenceVpw
  BY <1>1, <1>8
     DEF Result, Echo, Settled, Taken, SilenceVpw, Again
<1>9. CASE SentPwm \/ FailsPwm \/ SilencePwm
  BY <1>1, <1>9
     DEF SentPwm, TxDone, FailsPwm, SilencePwm, Again, Settled, Taken
<1>10. CASE Deletes
  BY <1>1, <1>10
     DEF Deletes, GivesUp
<1>11. CASE Freed
  <2>1. Left = {}
    BY <1>11, NothingLeft DEF Freed, Left
  <2>2. cb.watch # "losing"
    BY <1>1, <1>11, <2>1 DEF Freed, Closes
  <2>3. QED
    BY <1>1, <1>11, <2>2 DEF Freed, Gone, Quiet
<1>12. CASE \E i \in Isrs : GateShuts(i) \/ GatePassed(i) \/ GateHeld(i)
  BY <1>1, <1>12
     DEF GateShuts, Gate, GateOf, GatePassed, GateHeld, GivesUp
<1>13. CASE RxFires \/ RxEnters \/ ReceivedVpw \/ ReceivedPwm
  BY <1>1, <1>13
     DEF RxFires, RxEnters, ReceivedVpw, Leaves, OurEcho, Asks, ReceivedPwm
<1>14. CASE WatchFires \/ WatchEnters \/ WatchSamples \/ WatchAborts
  BY <1>1, <1>14
     DEF WatchFires, WatchEnters, WatchSamples, WatchAborts
<1>15. CASE EdgeEnters \/ EdgeAnswers
  BY <1>1, <1>15
     DEF EdgeEnters, EdgeAnswers
<1>16. CASE TxEnds \/ OnTxDone \/ CaptureCloses
  BY <1>1, <1>16
     DEF TxEnds, OnTxDone, CaptureCloses, Hears, Quiet
<1>17. CASE OtherStarts \/ OtherEnds
  BY <1>1, <1>17
     DEF OtherStarts, OtherEnds, Hears
<1>18. CASE UNCHANGED vars
  BY <1>1, <1>18
     DEF vars
<1>19. QED
  BY <1>2, <1>3, <1>4, <1>5, <1>6, <1>7, <1>8, <1>9, <1>10, <1>11, <1>12, <1>13, <1>14,
     <1>15, <1>16, <1>17, <1>18
     DEF Next, CallerStep, Interrupts, Hardware

\* Nothing is sent while a frame of ours has still to come back.
LEMMA OneKept == ASSUME J1850Inv, [Next]_vars PROVE EchoIsOne'
<1>1. LifeTyped /\ TxTyped /\ WireTyped /\ Builds /\ Drives /\ Gates /\ EchoIsOne /\
   EchoIsAwaited
  BY DEF J1850Inv
<1> USE DEF Elsewhere, Within, wire, air, rxVars, edges, life, LifeTyped, TxTyped,
   TxType, SemType, WireTyped, HwType, MonType, Builds, Drives, Gates, EchoIsOne,
   EchoIsAwaited, Held, Pending, Vpw, Isrs
<1>2. CASE Open
  BY <1>1, <1>2
     DEF Open, OpensVpw, OpensPwm, Quiet, NoTx, NoSem, NoMon
<1>3. CASE Close
  BY <1>1, <1>3
     DEF Close
<1>4. CASE Send \/ SetIfr
  BY <1>1, <1>4
     DEF Send, NoTx, SetIfr
<1>5. CASE Prepare \/ Busy \/ Idles
  BY <1>1, <1>5
     DEF Prepare, Busy, Fails, Idles, BusIdle
<1>6. CASE Watch \/ Loses \/ Told \/ Hangs \/ Drained
  BY <1>1, <1>6
     DEF Watch, Loses, Verdict, Told, Hangs, Drained, TxDone
<1>7. CASE FinishShuts \/ FinishHeld \/ FinishStops \/ Recovers \/ RecoverFails
  BY <1>1, <1>7
     DEF FinishShuts, FinishHeld, Taken, Fault, Fails, FinishStops, NoMon, Recovers,
        Aborted, Quiet, RecoverFails
<1>8. CASE Result \/ Echo \/ SilenceVpw
  BY <1>1, <1>8
     DEF Result, Echo, Settled, Taken, SilenceVpw, Again
<1>9. CASE SentPwm \/ FailsPwm \/ SilencePwm
  BY <1>1, <1>9
     DEF SentPwm, TxDone, FailsPwm, SilencePwm, Again, Settled, Taken
<1>10. CASE Deletes
  BY <1>1, <1>10
     DEF Deletes, GivesUp
<1>11. CASE Freed
  BY <1>1, <1>11
     DEF Freed, Gone, Quiet, NoSem
<1>12. CASE \E i \in Isrs : GateShuts(i) \/ GatePassed(i) \/ GateHeld(i)
  BY <1>1, <1>12
     DEF GateShuts, Gate, GateOf, GatePassed, GateHeld, GivesUp
<1>13. CASE RxFires \/ RxEnters \/ ReceivedVpw \/ ReceivedPwm
  BY <1>1, <1>13
     DEF RxFires, RxEnters, ReceivedVpw, Leaves, OurEcho, Asks, ReceivedPwm
<1>14. CASE WatchFires \/ WatchEnters \/ WatchSamples \/ WatchAborts
  BY <1>1, <1>14
     DEF WatchFires, WatchEnters, WatchSamples, WatchAborts
<1>15. CASE EdgeEnters \/ EdgeAnswers
  BY <1>1, <1>15
     DEF EdgeEnters, EdgeAnswers
<1>16. CASE TxEnds \/ OnTxDone \/ CaptureCloses
  BY <1>1, <1>16
     DEF TxEnds, OnTxDone, CaptureCloses, Hears, Quiet
<1>17. CASE OtherStarts \/ OtherEnds
  BY <1>1, <1>17
     DEF OtherStarts, OtherEnds, Hears
<1>18. CASE UNCHANGED vars
  BY <1>1, <1>18
     DEF vars
<1>19. QED
  BY <1>2, <1>3, <1>4, <1>5, <1>6, <1>7, <1>8, <1>9, <1>10, <1>11, <1>12, <1>13, <1>14,
     <1>15, <1>16, <1>17, <1>18
     DEF Next, CallerStep, Interrupts, Hardware

\* Nobody disarms or leaves while a frame of ours has still to come back.
LEMMA AwaitedKept == ASSUME J1850Inv, [Next]_vars PROVE EchoIsAwaited'
<1>1. LifeTyped /\ TxTyped /\ WireTyped /\ Builds /\ Drives /\ Gates /\ EchoIsOne /\
   EchoIsAwaited /\ EchoIsKnown
  BY DEF J1850Inv
<1> USE DEF Elsewhere, Within, wire, air, rxVars, edges, life, LifeTyped, TxTyped,
   TxType, SemType, WireTyped, HwType, MonType, Builds, Drives, Gates, EchoIsOne,
   EchoIsAwaited, EchoIsKnown, Held, Pending, TxDone, Vpw, Isrs
<1>2. CASE Open
  BY <1>1, <1>2
     DEF Open, OpensVpw, OpensPwm, Quiet, NoTx, NoSem, NoMon
<1>3. CASE Close
  BY <1>1, <1>3
     DEF Close
<1>4. CASE Send \/ SetIfr
  BY <1>1, <1>4
     DEF Send, NoTx, SetIfr
<1>5. CASE Prepare \/ Busy \/ Idles
  BY <1>1, <1>5
     DEF Prepare, Busy, Fails, Idles, BusIdle
<1>6. CASE Watch \/ Loses \/ Told \/ Hangs \/ Drained
  BY <1>1, <1>6
     DEF Watch, Loses, Verdict, Told, Hangs, Drained, TxDone
<1>7. CASE FinishShuts \/ FinishHeld \/ FinishStops \/ Recovers \/ RecoverFails
  BY <1>1, <1>7
     DEF FinishShuts, FinishHeld, Taken, Fault, Fails, FinishStops, NoMon, Recovers,
        Aborted, Quiet, RecoverFails
<1>8. CASE Result \/ Echo \/ SilenceVpw
  BY <1>1, <1>8
     DEF Result, Echo, Settled, Taken, SilenceVpw, Again
<1>9. CASE SentPwm \/ FailsPwm \/ SilencePwm
  BY <1>1, <1>9
     DEF SentPwm, TxDone, FailsPwm, SilencePwm, Again, Settled, Taken
<1>10. CASE Deletes
  BY <1>1, <1>10
     DEF Deletes, GivesUp
<1>11. CASE Freed
  BY <1>1, <1>11
     DEF Freed, Gone, Quiet, NoSem
<1>12. CASE \E i \in Isrs : GateShuts(i) \/ GatePassed(i) \/ GateHeld(i)
  BY <1>1, <1>12
     DEF GateShuts, Gate, GateOf, GatePassed, GateHeld, GivesUp
<1>13. CASE RxFires \/ RxEnters \/ ReceivedVpw \/ ReceivedPwm
  BY <1>1, <1>13
     DEF RxFires, RxEnters, ReceivedVpw, Leaves, OurEcho, Asks, ReceivedPwm
<1>14. CASE WatchFires \/ WatchEnters \/ WatchSamples \/ WatchAborts
  BY <1>1, <1>14
     DEF WatchFires, WatchEnters, WatchSamples, WatchAborts
<1>15. CASE EdgeEnters \/ EdgeAnswers
  BY <1>1, <1>15
     DEF EdgeEnters, EdgeAnswers
<1>16. CASE TxEnds \/ OnTxDone \/ CaptureCloses
  BY <1>1, <1>16
     DEF TxEnds, OnTxDone, CaptureCloses, Hears, Quiet
<1>17. CASE OtherStarts \/ OtherEnds
  BY <1>1, <1>17
     DEF OtherStarts, OtherEnds, Hears
<1>18. CASE UNCHANGED vars
  BY <1>1, <1>18
     DEF vars
<1>19. QED
  BY <1>2, <1>3, <1>4, <1>5, <1>6, <1>7, <1>8, <1>9, <1>10, <1>11, <1>12, <1>13, <1>14,
     <1>15, <1>16, <1>17, <1>18
     DEF Next, CallerStep, Interrupts, Hardware

\* What tells the caller that the echo came, or will not, is true.
LEMMA KnownKept == ASSUME J1850Inv, [Next]_vars PROVE EchoIsKnown'
<1>1. LifeTyped /\ TxTyped /\ WireTyped /\ Builds /\ Drives /\ Gates /\ EchoIsOne /\
   EchoIsAwaited /\ EchoIsKnown
  BY DEF J1850Inv
<1> USE DEF Elsewhere, Within, wire, air, rxVars, edges, life, LifeTyped, TxTyped,
   TxType, SemType, WireTyped, HwType, MonType, Builds, Drives, Gates, EchoIsOne,
   EchoIsAwaited, EchoIsKnown, Held, Pending, Vpw, Isrs
<1>2. CASE Open
  BY <1>1, <1>2
     DEF Open, OpensVpw, OpensPwm, Quiet, NoTx, NoSem, NoMon
<1>3. CASE Close
  BY <1>1, <1>3
     DEF Close
<1>4. CASE Send \/ SetIfr
  BY <1>1, <1>4
     DEF Send, NoTx, SetIfr
<1>5. CASE Prepare
  BY <1>1, <1>5
     DEF Prepare
<1>6. CASE Busy
  BY <1>1, <1>6
     DEF Busy, Fails
<1>7. CASE Idles
  BY <1>1, <1>7
     DEF Idles, BusIdle, Fails
<1>8. CASE Watch \/ Loses \/ Told \/ Hangs \/ Drained
  BY <1>1, <1>8
     DEF Watch, Loses, Verdict, Told, Hangs, Drained, TxDone
<1>9. CASE FinishShuts \/ FinishHeld \/ FinishStops \/ Recovers \/ RecoverFails
  BY <1>1, <1>9
     DEF FinishShuts, FinishHeld, Taken, Fault, Fails, FinishStops, NoMon, Recovers,
        Aborted, Quiet, RecoverFails
<1>10. CASE Result \/ Echo \/ SilenceVpw
  BY <1>1, <1>10
     DEF Result, Echo, Settled, Taken, SilenceVpw, Again
<1>11. CASE SentPwm \/ FailsPwm \/ SilencePwm
  BY <1>1, <1>11
     DEF SentPwm, TxDone, FailsPwm, SilencePwm, Again, Settled, Taken
<1>12. CASE Deletes
  BY <1>1, <1>12
     DEF Deletes, GivesUp
<1>13. CASE Freed
  BY <1>1, <1>13
     DEF Freed, Gone, Quiet, NoSem
<1>14. CASE \E i \in Isrs : GateShuts(i) \/ GatePassed(i) \/ GateHeld(i)
  BY <1>1, <1>14
     DEF GateShuts, Gate, GateOf, GatePassed, GateHeld, GivesUp
<1>15. CASE RxFires \/ RxEnters \/ ReceivedVpw \/ ReceivedPwm
  BY <1>1, <1>15
     DEF RxFires, RxEnters, ReceivedVpw, Leaves, OurEcho, Asks, ReceivedPwm
<1>16. CASE WatchFires \/ WatchEnters \/ WatchSamples \/ WatchAborts
  BY <1>1, <1>16
     DEF WatchFires, WatchEnters, WatchSamples, WatchAborts
<1>17. CASE EdgeEnters \/ EdgeAnswers
  BY <1>1, <1>17
     DEF EdgeEnters, EdgeAnswers
<1>18. CASE TxEnds
  BY <1>1, <1>18
     DEF TxEnds
<1>19. CASE OnTxDone
  BY <1>1, <1>19
     DEF OnTxDone
<1>20. CASE CaptureCloses
  BY <1>1, <1>20
     DEF CaptureCloses, Hears, Quiet
<1>21. CASE OtherStarts \/ OtherEnds
  BY <1>1, <1>21
     DEF OtherStarts, OtherEnds, Hears
<1>22. CASE UNCHANGED vars
  BY <1>1, <1>22
     DEF vars
<1>23. QED
  BY <1>2, <1>3, <1>4, <1>5, <1>6, <1>7, <1>8, <1>9, <1>10, <1>11, <1>12, <1>13, <1>14,
     <1>15, <1>16, <1>17, <1>18, <1>19, <1>20, <1>21, <1>22
     DEF Next, CallerStep, Interrupts, Hardware

\* A frame that is still valid has seen no parameter change.
LEMMA IfrKept == ASSUME J1850Inv, [Next]_vars PROVE Ifr'
<1>1. LifeTyped /\ WireTyped /\ Ifr
  BY DEF J1850Inv
<1> USE DEF Elsewhere, Within, wire, air, rxVars, edges, life, LifeTyped, WireTyped,
   Ifr, IfrIsCurrent, Vpw, Isrs
<1>2. CASE Open
  BY <1>1, <1>2
     DEF Open, OpensVpw, OpensPwm, Quiet, NoTx, NoSem, NoMon
<1>3. CASE Close
  BY <1>1, <1>3
     DEF Close
<1>4. CASE Send \/ SetIfr
  BY <1>1, <1>4
     DEF Send, NoTx, SetIfr
<1>5. CASE Prepare \/ Busy \/ Idles
  BY <1>1, <1>5
     DEF Prepare, Busy, Fails, Idles, BusIdle
<1>6. CASE Watch \/ Loses \/ Told \/ Hangs \/ Drained
  BY <1>1, <1>6
     DEF Watch, Loses, Verdict, Told, Hangs, Drained, TxDone
<1>7. CASE FinishShuts \/ FinishHeld \/ FinishStops \/ Recovers \/ RecoverFails
  BY <1>1, <1>7
     DEF FinishShuts, FinishHeld, Taken, Fault, Fails, FinishStops, NoMon, Recovers,
        Aborted, Quiet, RecoverFails
<1>8. CASE Result \/ Echo \/ SilenceVpw
  BY <1>1, <1>8
     DEF Result, Echo, Settled, Taken, SilenceVpw, Again
<1>9. CASE SentPwm \/ FailsPwm \/ SilencePwm
  BY <1>1, <1>9
     DEF SentPwm, TxDone, FailsPwm, SilencePwm, Again, Settled, Taken
<1>10. CASE Deletes
  BY <1>1, <1>10
     DEF Deletes, GivesUp
<1>11. CASE Freed
  BY <1>1, <1>11
     DEF Freed, Gone, Quiet, NoSem
<1>12. CASE \E i \in Isrs : GateShuts(i) \/ GatePassed(i) \/ GateHeld(i)
  BY <1>1, <1>12
     DEF GateShuts, Gate, GateOf, GatePassed, GateHeld, GivesUp
<1>13. CASE RxFires \/ RxEnters \/ ReceivedVpw \/ ReceivedPwm
  BY <1>1, <1>13
     DEF RxFires, RxEnters, ReceivedVpw, Leaves, OurEcho, Asks, ReceivedPwm
<1>14. CASE WatchFires \/ WatchEnters \/ WatchSamples \/ WatchAborts
  BY <1>1, <1>14
     DEF WatchFires, WatchEnters, WatchSamples, WatchAborts
<1>15. CASE EdgeEnters \/ EdgeAnswers
  BY <1>1, <1>15
     DEF EdgeEnters, EdgeAnswers
<1>16. CASE TxEnds \/ OnTxDone \/ CaptureCloses
  BY <1>1, <1>16
     DEF TxEnds, OnTxDone, CaptureCloses, Hears, Quiet
<1>17. CASE OtherStarts \/ OtherEnds
  BY <1>1, <1>17
     DEF OtherStarts, OtherEnds, Hears
<1>18. CASE UNCHANGED vars
  BY <1>1, <1>18
     DEF vars
<1>19. QED
  BY <1>2, <1>3, <1>4, <1>5, <1>6, <1>7, <1>8, <1>9, <1>10, <1>11, <1>12, <1>13, <1>14,
     <1>15, <1>16, <1>17, <1>18
     DEF Next, CallerStep, Interrupts, Hardware

-------------------------------------------------------------------------------
(* What it all comes to. *)

LEMMA InitJ1850 == Init => J1850Inv
<1> SUFFICES ASSUME Init PROVE J1850Inv
  OBVIOUS
<1> USE DEF Init
<1>1. LifeTyped
  BY J1850Assumption, NothingLeft DEF LifeTyped, Gone, Places, Whole, Isrs
<1>2. TxTyped
  <2>1. 0 \in 0 .. Retries
    BY J1850Assumption
  <2>2. tx \in TxType /\ sem \in SemType
    BY <2>1 DEF TxType, SemType, NoTx, NoSem
  <2>3. QED
    BY <2>2 DEF TxTyped
<1>3. WireTyped
  BY DEF WireTyped, HwType, MonType, Quiet, NoMon
<1>4. Builds /\ Closes /\ Gates /\ Drives
  BY DEF Builds, Closes, Gates, Drives, Gone, Quiet, Isrs, NoMon
<1>5. EchoIsOne /\ EchoIsAwaited /\ EchoIsKnown /\ Ifr
  BY DEF EchoIsOne, EchoIsAwaited, EchoIsKnown, Ifr, IfrIsCurrent, Pending, Held,
         Quiet, NoTx, Isrs
<1>6. QED
  BY <1>1, <1>2, <1>3, <1>4, <1>5 DEF J1850Inv

\* The invariant holds in every state of either driver, whoever interrupts whom
\* (j1850_vpw.c, j1850_pwm.c).
THEOREM J1850Holds == Spec => []J1850Inv
<1>1. J1850Inv /\ [Next]_vars => J1850Inv'
  BY LifeKept, TxKept, WireKept, BuildsKept, ClosesKept, GatesKept, DrivesKept,
     OneKept, AwaitedKept, KnownKept, IfrKept
     DEF J1850Inv
<1>2. QED
  BY InitJ1850, <1>1, PTL DEF Spec

\* No interrupt is at work in a driver that a close has taken apart, also when
\* the close gave up half-way and was tried again; what is called sent was sent,
\* nothing drives a bus it has lost, and no frame of ours is taken for another
\* node's (j1850_callbacks_stop(), tx_finish(), j1850_rmt_recover()).
THEOREM DriverTheorem == Spec => []DriverIsSafe
<1>1. J1850Inv => DriverIsSafe
  <2> SUFFICES ASSUME J1850Inv PROVE DriverIsSafe
    OBVIOUS
  <2>1. /\ LifeTyped /\ TxTyped /\ WireTyped
        /\ Builds /\ Closes /\ Gates /\ Drives
        /\ EchoIsOne /\ EchoIsAwaited /\ EchoIsKnown /\ Ifr
    BY DEF J1850Inv
  <2>2. J1850TypeOK
    BY <2>1 DEF J1850TypeOK, LifeTyped, TxTyped, WireTyped, TxType, HwType
  <2>3. CallbackHasItsBus
    BY <2>1 DEF CallbackHasItsBus, Gates, Builds, Drives, LifeTyped, Vpw
  <2>4. RestIsClean
    BY <2>1 DEF RestIsClean, Builds, Drives
  <2>5. NothingDrivenAfterLoss /\ IfrIsCurrent
    BY <2>1 DEF NothingDrivenAfterLoss, Drives, Ifr
  <2>6. SentIsSent
    BY <2>1 DEF SentIsSent, Drives, Builds, TxDone
  <2>7. EchoStaysHome
    BY <2>1 DEF EchoStaysHome, EchoIsAwaited, Pending
  <2>8. QED
    BY <2>2, <2>3, <2>4, <2>5, <2>6, <2>7
       DEF DriverIsSafe, LifecycleIsSafe, WireIsOurs
<1>2. QED
  BY J1850Holds, <1>1, PTL

===============================================================================
