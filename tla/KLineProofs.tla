------------------------------ MODULE KLineProofs ------------------------------
(***************************************************************************)
(* Proofs about the K-Line: about VifPins, whose low-side pin 15 is its L  *)
(* line, for any sets of high-side and low-side pins, and about KLine, for *)
(* any timing, any number of retries and any size of the UART's queues.    *)
(***************************************************************************)
EXTENDS VifPins, KLine, SequenceTheorems, TLAPS

-------------------------------------------------------------------------------
(* The pins. *)

\* The threads that may hold the K-Line, and nobody, are different things.
LEMMA OwnersAre == Link \in Owners /\ Shell \in Owners /\ NoOwner \notin Owners
BY OwnersDiffer DEF Owners

\* The L line is low-side only, the calibrated pin high-side only (vif_pins[]).
LEMMA PinsAre ==
  /\ NoPin \notin HsPins /\ NoPin \notin LsPins
  /\ LLine \in LsPins /\ LLine \notin HsPins
  /\ CalPin \in HsPins /\ CalPin \notin LsPins
BY PinsAreReal, LLineIsLowSide, CalPinIsHighSide DEF Pins

\* At boot no output is on and nobody holds the K-Line.
LEMMA InitPins == PinsInit => PinsInv
<1> SUFFICES ASSUME PinsInit PROVE PinsInv
  OBVIOUS
<1> USE OwnersAre, PinsAre DEF PinsInit
<1>1. TypeOK
  BY DEF TypeOK, ClaimType, DriverType, TaskType, ArgType, Unset, NoKLine, NoTask,
         NoArg, Places
<1>2. NothingLeftLive /\ LLineHasOneUser /\ LLineIsReserved /\ HsBookkeepingIsTrue
  BY DEF NothingLeftLive, LLineHasOneUser, LLineIsReserved, HsBookkeepingIsTrue,
         Unset, NoKLine, NoTask
<1>3. SidesHold /\ LineHolds
  BY DEF SidesHold, LineHolds, LLineIsOn, CalPlaces, Unset, NoKLine, NoTask
<1>4. \A o \in Owners: CallHolds(o)
  BY DEF CallHolds, KPlaces, NoKLine
<1>5. QED
  BY <1>1, <1>2, <1>3, <1>4 DEF PinsInv

\* Moving on inside a K-Line call moves nobody else.
LEMMA GotoPlace ==
  ASSUME TypeOK, NEW o \in Owners, NEW place, NEW locals, Goto(o, place, locals)
  PROVE  /\ at'[o] = place /\ arg'[o] = locals
         /\ \A p \in Owners: p # o => at'[p] = at[p] /\ arg'[p] = arg[p]
BY DEF Goto, TypeOK

\* Moving on inside a K-Line call stays among its places and its locals.
LEMMA GotoType ==
  ASSUME TypeOK, NEW o \in Owners, NEW place \in Places, NEW locals \in ArgType,
         Goto(o, place, locals)
  PROVE  at' \in [Owners -> Places] /\ arg' \in [Owners -> ArgType]
BY DEF Goto, TypeOK

\* What is empty has its type.
LEMMA NoArgType == NoArg \in ArgType /\ NoTask \in TaskType
BY DEF NoArg, ArgType, NoTask, TaskType

-------------------------------------------------------------------------------
(* Steps that leave the K-Line alone. *)

\* A call that leaves kline.c's state alone keeps what is true of it.
LEMMA PinsOnlyKeeps ==
  ASSUME PinsInv, UNCHANGED kline,
         TypeOK', NothingLeftLive', LLineHasOneUser', HsBookkeepingIsTrue',
         SidesHold', LLineIsOn' => LLineIsOn,
         \A o \in Owners: \/ at'[o] = at[o] /\ arg'[o] = arg[o]
                          \/ at[o] \notin KPlaces /\ at'[o] \notin KPlaces
  PROVE  PinsInv'
<1> USE DEF PinsInv, kline
<1>1. LLineIsReserved' /\ LineHolds'
  BY DEF LLineIsReserved, LineHolds
<1>2. ASSUME NEW o \in Owners PROVE CallHolds(o)'
  <2>1. CallHolds(o)
    OBVIOUS
  <2>2. CASE at'[o] = at[o] /\ arg'[o] = arg[o]
    BY <2>1, <2>2 DEF CallHolds
  <2>3. CASE at[o] \notin KPlaces /\ at'[o] \notin KPlaces
    BY <2>1, <2>3 DEF CallHolds, KPlaces
  <2>4. QED
    BY <2>2, <2>3
<1>3. QED
  BY <1>1, <1>2

\* vif_pin_set() switching an output off.
LEMMA PinOffKeeps ==
  ASSUME PinsInv, NEW o \in Owners, NEW p \in Pins, PinOff(o, p)
  PROVE  PinsInv'
<1> USE PinsAre, OwnersAre DEF PinsInv, PinOff, Off
<1>1. TypeOK'
  BY DEF TypeOK, Stay, kline
<1>2. NothingLeftLive' /\ LLineHasOneUser' /\ HsBookkeepingIsTrue'
  BY DEF NothingLeftLive, LLineHasOneUser, HsBookkeepingIsTrue, TypeOK, kline
<1>3. SidesHold'
  BY DEF SidesHold, TypeOK, Stay, CalPlaces
<1>4. LLineIsOn' => LLineIsOn
  BY DEF LLineIsOn, TypeOK
<1>5. QED
  BY <1>1, <1>2, <1>3, <1>4, PinsOnlyKeeps DEF Stay

\* vif_pin_set() connecting a pin to the boost rail.
LEMMA VoltageKeeps ==
  ASSUME PinsInv, NEW o \in Owners, NEW p \in HsPins, Voltage(o, p)
  PROVE  PinsInv'
<1> USE PinsAre, OwnersAre DEF PinsInv, Voltage, Free
<1>1. TypeOK'
  BY DEF TypeOK, Stay, kline
<1>2. NothingLeftLive' /\ LLineHasOneUser' /\ HsBookkeepingIsTrue'
  BY DEF NothingLeftLive, LLineHasOneUser, HsBookkeepingIsTrue, TypeOK, kline
<1>3. SidesHold'
  BY DEF SidesHold, TypeOK, Stay, CalPlaces
<1>4. QED
  BY <1>1, <1>2, <1>3, PinsOnlyKeeps DEF Stay, LLineIsOn

\* vif_pin_set() pulling a pin to ground.
LEMMA GroundKeeps ==
  ASSUME PinsInv, NEW o \in Owners, NEW p \in LsPins, Ground(o, p)
  PROVE  PinsInv'
<1> USE PinsAre, OwnersAre DEF PinsInv, Ground, Free
<1>1. TypeOK'
  BY DEF TypeOK, Stay, kline
<1>2. NothingLeftLive' /\ LLineHasOneUser' /\ HsBookkeepingIsTrue'
  BY DEF NothingLeftLive, LLineHasOneUser, HsBookkeepingIsTrue, TypeOK, kline
<1>3. SidesHold'
  BY DEF SidesHold, TypeOK, Stay, CalPlaces
<1>4. LLineIsOn' => LLineIsOn
  BY DEF LLineIsOn, TypeOK
<1>5. QED
  BY <1>1, <1>2, <1>3, <1>4, PinsOnlyKeeps DEF Stay

\* vif_release_pins() switches off what the link switched on.
LEMMA ReleasePinsKeeps ==
  ASSUME PinsInv, NEW o \in Owners, ReleasePins(o)
  PROVE  PinsInv'
<1> USE PinsAre, OwnersAre DEF PinsInv, ReleasePins
<1>1. TypeOK'
  BY DEF TypeOK, Stay, kline
<1>2. NothingLeftLive' /\ LLineHasOneUser' /\ HsBookkeepingIsTrue'
  BY DEF NothingLeftLive, LLineHasOneUser, HsBookkeepingIsTrue, TypeOK, kline
<1>3. SidesHold'
  BY OwnersDiffer DEF SidesHold, TypeOK, Stay, CalPlaces
<1>4. LLineIsOn' => LLineIsOn
  BY DEF LLineIsOn, TypeOK
<1>5. QED
  BY <1>1, <1>2, <1>3, <1>4, PinsOnlyKeeps DEF Stay

\* vif_calibrate_hs(), place by place: it never leaves an output behind.
LEMMA CalKeeps ==
  ASSUME PinsInv, CalStep
  PROVE  PinsInv'
<1> USE PinsAre, OwnersAre DEF PinsInv, pins, BoardReset
<1>1. ASSUME NEW place \in {"reset", "drive", "measured", "drop", "store", "idle"},
             Goto(Shell, place, NoArg), at[Shell] \notin KPlaces
      PROVE  /\ at' \in [Owners -> Places]
             /\ arg' \in [Owners -> ArgType]
             /\ \A o \in Owners: \/ at'[o] = at[o] /\ arg'[o] = arg[o]
                                 \/ at[o] \notin KPlaces /\ at'[o] \notin KPlaces
             /\ at'[Shell] = place
  BY <1>1 DEF Goto, TypeOK, Places, KPlaces, NoArg, ArgType
<1>2. CASE CalClaim
  <2>1. TypeOK'
    BY <1>1, <1>2 DEF CalClaim, TypeOK, kline, KPlaces
  <2>2. NothingLeftLive' /\ LLineHasOneUser' /\ HsBookkeepingIsTrue'
    BY <1>2 DEF CalClaim, NothingLeftLive, LLineHasOneUser, HsBookkeepingIsTrue,
                TypeOK, kline
  <2>3. SidesHold'
    BY <1>1, <1>2 DEF CalClaim, SidesHold, TypeOK, CalPlaces, KPlaces
  <2>4. LLineIsOn' => LLineIsOn
    BY <1>2 DEF CalClaim, LLineIsOn, TypeOK
  <2>5. QED
    BY <1>1, <1>2, <2>1, <2>2, <2>3, <2>4, PinsOnlyKeeps DEF CalClaim, KPlaces
<1>3. CASE CalReset \/ CalDrive \/ CalEnd
  <2>1. PICK place \in {"drive", "measured", "drop"}:
          Goto(Shell, place, NoArg) /\ (place = "drop" => high' = {})
    BY <1>3 DEF CalReset, CalDrive, CalEnd
  <2>2. UNCHANGED <<hs, ls, calibrating, kline>> /\ gains' \in BOOLEAN
    BY <1>3 DEF CalReset, CalDrive, CalEnd, TypeOK
  <2>3. /\ at[Shell] \in CalPlaces /\ at[Shell] \notin KPlaces
        /\ calibrating /\ hs.pin = CalPin
    BY <1>3 DEF CalReset, CalDrive, CalEnd, CalPlaces, KPlaces, SidesHold
  <2>4. high' \subseteq high \cup {CalPin} /\ low' \subseteq low
    BY <1>3 DEF CalReset, CalDrive, CalEnd
  <2>5. TypeOK'
    BY <1>1, <2>1, <2>2, <2>3, <2>4 DEF TypeOK, kline
  <2>6. NothingLeftLive' /\ LLineHasOneUser' /\ HsBookkeepingIsTrue'
    BY <2>2, <2>3, <2>4
    DEF NothingLeftLive, LLineHasOneUser, HsBookkeepingIsTrue, kline
  <2>7. SidesHold'
    BY <1>1, <2>1, <2>2, <2>3 DEF SidesHold, CalPlaces
  <2>8. LLineIsOn' => LLineIsOn
    BY <2>2, <2>4 DEF LLineIsOn
  <2>9. QED
    BY <1>1, <2>1, <2>2, <2>3, <2>5, <2>6, <2>7, <2>8, PinsOnlyKeeps
<1>4. CASE CalDrop
  <2>1. /\ hs' = [hs EXCEPT !.pin = NoPin] /\ high = {} /\ Goto(Shell, "idle", NoArg)
        /\ UNCHANGED <<ls, high, low, gains, kline>> /\ calibrating' = FALSE
        /\ at[Shell] \notin KPlaces /\ calibrating
    BY <1>4 DEF CalDrop, SidesHold, CalPlaces, KPlaces
  <2>2. TypeOK'
    <3>1. "idle" \in Places
      BY DEF Places
    <3>2. at' \in [Owners -> Places] /\ arg' \in [Owners -> ArgType]
      BY <2>1, <3>1, GotoType, NoArgType
    <3>3. QED
      BY <2>1, <3>2 DEF TypeOK, kline
  <2>3. NothingLeftLive' /\ LLineHasOneUser' /\ HsBookkeepingIsTrue'
    BY <2>1 DEF NothingLeftLive, LLineHasOneUser, HsBookkeepingIsTrue, TypeOK, kline
  <2>4. SidesHold'
    BY <1>1, <2>1 DEF SidesHold, CalPlaces, TypeOK
  <2>5. QED
    BY <1>1, <2>1, <2>2, <2>3, <2>4, PinsOnlyKeeps DEF LLineIsOn
<1>5. CASE CalSetCheck \/ CalSetStore
  <2>1. PICK place \in {"store", "idle"}: Goto(Shell, place, NoArg)
    BY <1>5 DEF CalSetCheck, CalSetStore
  <2>2. UNCHANGED <<hs, ls, calibrating, high, low, kline>> /\ gains' \in BOOLEAN
    BY <1>5 DEF CalSetCheck, CalSetStore, TypeOK
  <2>3. at[Shell] \notin CalPlaces /\ at[Shell] \notin KPlaces
    BY <1>5 DEF CalSetCheck, CalSetStore, CalPlaces, KPlaces
  <2>4. TypeOK'
    BY <1>1, <2>1, <2>2, <2>3 DEF TypeOK, kline
  <2>5. NothingLeftLive' /\ LLineHasOneUser' /\ HsBookkeepingIsTrue'
    BY <2>2 DEF NothingLeftLive, LLineHasOneUser, HsBookkeepingIsTrue, kline
  <2>6. SidesHold'
    BY <1>1, <2>1, <2>2, <2>3 DEF SidesHold, CalPlaces
  <2>7. QED
    BY <1>1, <2>1, <2>2, <2>3, <2>4, <2>5, <2>6, PinsOnlyKeeps DEF LLineIsOn
<1>6. QED
  BY <1>2, <1>3, <1>4, <1>5 DEF CalStep

-------------------------------------------------------------------------------
(* The calls of the K-Line's owner, and its task. *)

\* A thread that does not hold the K-Line is in no K-Line call.
LEMMA BystanderKeeps ==
  ASSUME NEW p \in Owners, CallHolds(p), at'[p] = at[p],
         claim.owner # p, claim'.owner # p
  PROVE  CallHolds(p)'
BY DEF CallHolds, KPlaces

\* A step of a K-Line call of o: what is left to show is what o and the driver
\* look like afterwards.
LEMMA CallKeeps ==
  ASSUME PinsInv, NEW o \in Owners, NEW place \in Places, NEW locals,
         Goto(o, place, locals), UNCHANGED <<pins, high, gains>>,
         claim.owner \in {o, NoOwner}, claim'.owner \in {o, NoOwner},
         at[o] \notin CalPlaces, place \notin CalPlaces,
         TypeOK', NothingLeftLive', LLineHasOneUser', LLineIsReserved', LineHolds',
         CallHolds(o)'
  PROVE  PinsInv'
<1> USE OwnersAre DEF PinsInv, pins
<1>1. TypeOK /\ at'[o] = place
  BY GotoPlace
<1>2. \A p \in Owners: p # o => at'[p] = at[p]
  BY <1>1, GotoPlace
<1>3. HsBookkeepingIsTrue'
  BY DEF HsBookkeepingIsTrue
<1>4. SidesHold'
  BY <1>1, <1>2 DEF SidesHold, CalPlaces
<1>5. ASSUME NEW p \in Owners, p # o PROVE CallHolds(p)'
  BY <1>2, <1>5, BystanderKeeps
<1>6. QED
  BY <1>3, <1>4, <1>5

\* kline_open() and kline_close() up to the wait for the task.
LEMMA KOpenCloseKeeps ==
  ASSUME PinsInv, NEW o \in Owners, KOpen(o) \/ KClose(o)
  PROVE  PinsInv'
<1> USE PinsAre, OwnersAre DEF PinsInv, KOpen, KClose
<1>1. PICK place \in {"unreserve", "stop"}, locals \in ArgType:
        /\ Goto(o, place, locals)
        /\ place = "unreserve" <=> claim.owner = NoOwner
  <2>1. NoArg \in ArgType /\ [NoArg EXCEPT !.reopen = TRUE] \in ArgType
    BY DEF NoArg, ArgType
  <2>2. CASE KOpen(o)
    BY <2>1, <2>2
  <2>3. CASE KClose(o)
    BY <2>1, <2>3
  <2>4. QED
    BY <2>2, <2>3
<1>2. /\ at'[o] = place /\ at[o] = "idle" /\ claim'.owner = o /\ ~claim'.open
      /\ claim'.reserved = claim.reserved /\ claim.owner \in {o, NoOwner}
      /\ claim' \in ClaimType
      /\ UNCHANGED <<pins, high, low, gains, driver, task>>
  <2>1. at'[o] = place
    BY <1>1, GotoPlace
  <2>2. claim' \in {[claim EXCEPT !.owner = o, !.open = FALSE],
                    [claim EXCEPT !.open = FALSE]}
    OBVIOUS
  <2>3. QED
    BY <2>1, <2>2 DEF TypeOK, ClaimType
<1>3. place \in Places \ CalPlaces /\ at[o] \notin CalPlaces
  BY <1>2 DEF Places, CalPlaces
<1>4. TypeOK'
  BY <1>1, <1>2, <1>3, GotoType DEF TypeOK, pins
<1>5. NothingLeftLive' /\ LLineHasOneUser' /\ LLineIsReserved' /\ LineHolds'
  BY <1>2 DEF NothingLeftLive, LLineHasOneUser, LLineIsReserved, LineHolds, LLineIsOn,
              pins
<1>6. CallHolds(o)'
  BY <1>1, <1>2 DEF CallHolds, LineHolds, LLineIsOn, NothingLeftLive, KPlaces, pins
<1>7. QED
  BY <1>1, <1>2, <1>3, <1>4, <1>5, <1>6, CallKeeps

\* A thread waiting for the K-Line's task, or giving up on it.
LEMMA KWaitKeeps ==
  ASSUME PinsInv, NEW o \in Owners,
         KStop(o) \/ KJoined(o) \/ KJoinTimeout(o) \/ InitReturn(o) \/ InitTimeout(o)
  PROVE  PinsInv'
<1> USE PinsAre, OwnersAre, NoArgType DEF PinsInv
<1>1. arg[o] \in ArgType /\ driver \in DriverType /\ task \in TaskType
  BY DEF TypeOK
<1>2. PICK place \in {"release", "stopping", "idle"}, locals \in ArgType:
        /\ Goto(o, place, locals)
        /\ place = "release" => task'.state = "none"
        /\ place # "idle" => at[o] # "waiting"
  <2>1. CASE KStop(o)
    BY <1>1, <2>1 DEF KStop
  <2>2. CASE KJoined(o)
    BY <1>1, <2>2 DEF KJoined, NoTask
  <2>3. CASE KJoinTimeout(o) \/ InitReturn(o) \/ InitTimeout(o)
    BY <2>3 DEF KJoinTimeout, InitReturn, InitTimeout
  <2>4. QED
    BY <2>1, <2>2, <2>3
<1>3. at'[o] = place /\ at[o] \in {"stop", "stopping", "waiting"}
  BY <1>2, GotoPlace DEF KStop, KJoined, KJoinTimeout, InitReturn, InitTimeout
<1>4. /\ claim.owner = o /\ (driver.uart \/ driver.only)
      /\ place # "idle" => ~claim.open
  BY <1>2, <1>3 DEF CallHolds, KPlaces
<1>5. /\ UNCHANGED <<pins, high, low, gains, claim>>
      /\ driver' \in DriverType /\ task' \in TaskType
      /\ driver'.uart = driver.uart /\ driver'.only = driver.only
      /\ task' \in {task, NoTask}
  <2>1. CASE KStop(o)
    BY <1>1, <2>1 DEF KStop, DriverType
  <2>2. CASE KJoined(o) \/ KJoinTimeout(o)
    BY <1>1, <2>2 DEF KJoined, KJoinTimeout, kline
  <2>3. CASE InitReturn(o) \/ InitTimeout(o)
    BY <1>1, <2>3 DEF InitReturn, InitTimeout, kline, DriverType
  <2>4. QED
    BY <2>1, <2>2, <2>3
<1>6. place \in Places \ CalPlaces /\ at[o] \notin CalPlaces
  BY <1>3 DEF Places, CalPlaces
<1>7. TypeOK'
  BY <1>2, <1>5, <1>6, GotoType DEF TypeOK, pins
<1>8. NothingLeftLive' /\ LLineHasOneUser' /\ LLineIsReserved' /\ LineHolds'
  BY <1>5 DEF NothingLeftLive, LLineHasOneUser, LLineIsReserved, LineHolds, LLineIsOn,
              pins, NoTask
<1>9. CallHolds(o)'
  BY <1>2, <1>3, <1>4, <1>5 DEF CallHolds, KPlaces
<1>10. QED
  BY <1>2, <1>4, <1>5, <1>6, <1>7, <1>8, <1>9, CallKeeps

\* The end of kline_close(): the L line is let go before the claim is.
LEMMA KReleaseKeeps ==
  ASSUME PinsInv, NEW o \in Owners, KRelease(o) \/ KReleaseFail(o)
  PROVE  PinsInv'
<1> USE PinsAre, OwnersAre, NoArgType DEF PinsInv
<1>1. PICK place \in {"unreserve", "erase", "idle"}:
        Goto(o, place, NoArg) /\ (place = "idle" => driver' = driver)
  BY DEF KRelease, KReleaseFail, kline
<1>2. at'[o] = place /\ at[o] = "release"
  BY <1>1, GotoPlace DEF KRelease, KReleaseFail
<1>3. /\ claim.owner = o /\ ~claim.open
      /\ driver.uart \/ driver.only
      /\ task.state = "none"
  BY <1>2 DEF CallHolds, KPlaces
<1>4. /\ UNCHANGED <<pins, high, gains, claim, task>>
      /\ driver' \in {driver, [driver EXCEPT !.uart = FALSE]}
      /\ place # "idle" => driver' = [driver EXCEPT !.uart = FALSE]
      /\ low' = IF driver.only THEN low ELSE low \ {LLine}
      /\ place = "idle" => driver.uart
  <2>1. CASE KRelease(o)
    <3>1. place # "idle"
      BY <1>2, <2>1, GotoPlace DEF KRelease
    <3>2. QED
      BY <2>1, <3>1 DEF KRelease, ReleaseLLine
  <2>2. CASE KReleaseFail(o)
    <3>1. place = "idle"
      BY <1>2, <2>2, GotoPlace DEF KReleaseFail
    <3>2. QED
      BY <2>2, <3>1 DEF KReleaseFail, ReleaseLLine, kline
  <2>3. QED
    BY <2>1, <2>2
<1>5. /\ driver' \in DriverType /\ driver'.only = driver.only
      /\ driver'.uart => driver.uart
      /\ place # "idle" => ~driver'.uart
      /\ place = "idle" => driver'.uart
  BY <1>1, <1>4 DEF TypeOK, DriverType
<1>6. place \in Places \ CalPlaces /\ at[o] \notin CalPlaces
  BY <1>2 DEF Places, CalPlaces
<1>7. TypeOK'
  BY <1>1, <1>4, <1>5, <1>6, GotoType DEF TypeOK, pins
<1>8. ~LLineIsOn' /\ low' \subseteq low
  BY <1>4 DEF LineHolds, LLineIsOn, pins
<1>9. NothingLeftLive' /\ LLineHasOneUser' /\ LLineIsReserved'
  BY <1>4, <1>5, <1>8 DEF NothingLeftLive, LLineHasOneUser, LLineIsReserved, pins
<1>10. LineHolds'
  BY <1>3, <1>4, <1>5, <1>8 DEF LineHolds
<1>11. CallHolds(o)'
  BY <1>2, <1>3, <1>4, <1>5, <1>8 DEF CallHolds, KPlaces
<1>12. QED
  BY <1>1, <1>3, <1>4, <1>6, <1>7, <1>9, <1>10, <1>11, CallKeeps

\* kline_close() once the pin and the buffers are given back.
LEMMA KEraseKeeps ==
  ASSUME PinsInv, NEW o \in Owners, KErase(o) \/ KUnreserve(o)
  PROVE  PinsInv'
<1> USE PinsAre, OwnersAre, NoArgType DEF PinsInv
<1>1. PICK place \in {"idle", "starting"}:
        /\ Goto(o, place, NoArg)
        /\ claim' = IF place = "idle" THEN NoKLine
                    ELSE [claim EXCEPT !.owner = o, !.reserved = FALSE]
  BY DEF KErase, KUnreserve
<1>2. at'[o] = place /\ at[o] \in {"erase", "unreserve"}
  BY <1>1, GotoPlace DEF KErase, KUnreserve
<1>3. /\ claim.owner = o /\ ~claim.open /\ ~driver.uart /\ ~LLineIsOn
      /\ task.state = "none"
  BY <1>2 DEF CallHolds, KPlaces
<1>4. UNCHANGED <<pins, high, low, gains, driver, task>>
  BY DEF KErase, KUnreserve
<1>5. /\ claim' \in ClaimType /\ ~claim'.open /\ ~claim'.reserved
      /\ claim'.owner = IF place = "idle" THEN NoOwner ELSE o
  BY <1>1, <1>3 DEF TypeOK, ClaimType, NoKLine
<1>6. place \in Places \ CalPlaces /\ at[o] \notin CalPlaces
  BY <1>2 DEF Places, CalPlaces
<1>7. TypeOK'
  BY <1>1, <1>4, <1>5, <1>6, GotoType DEF TypeOK, pins
<1>8. ~task.l_line
  BY <1>3 DEF LineHolds
<1>9. NothingLeftLive' /\ LLineHasOneUser' /\ LLineIsReserved' /\ LineHolds'
  BY <1>3, <1>4, <1>5, <1>8
  DEF NothingLeftLive, LLineHasOneUser, LLineIsReserved, LineHolds, LLineIsOn, pins
<1>10. CallHolds(o)'
  BY <1>2, <1>3, <1>4, <1>5 DEF CallHolds, KPlaces
<1>11. QED
  BY <1>1, <1>3, <1>4, <1>5, <1>6, <1>7, <1>9, <1>10, CallKeeps

\* kline_open() bringing the UART up.
LEMMA KUpKeeps ==
  ASSUME PinsInv, NEW o \in Owners, KUp(o) \/ KUpFail(o)
  PROVE  PinsInv'
<1> USE PinsAre, OwnersAre, NoArgType DEF PinsInv
<1>1. PICK place \in {"opened", "stop"}, uart \in BOOLEAN:
        /\ Goto(o, place, NoArg) /\ (place = "opened" => uart)
        /\ driver' = [uart |-> uart, only |-> TRUE, blocked |-> FALSE, stop |-> FALSE]
        /\ task' = IF place = "opened" THEN [state |-> "idle", l_line |-> FALSE]
                                       ELSE task
  <2>1. CASE KUp(o)
    BY <2>1 DEF KUp
  <2>2. CASE KUpFail(o)
    BY <2>2 DEF KUpFail
  <2>3. QED
    BY <2>1, <2>2
<1>2. at'[o] = place /\ at[o] = "starting"
  BY <1>1, GotoPlace DEF KUp, KUpFail
<1>3. /\ claim.owner = o /\ ~claim.open /\ ~claim.reserved
      /\ task.state = "none" /\ ~task.l_line
  BY <1>2 DEF CallHolds, LineHolds, KPlaces
<1>4. UNCHANGED <<pins, high, low, gains, claim>>
  BY DEF KUp, KUpFail
<1>5. place \in Places \ CalPlaces /\ at[o] \notin CalPlaces
  BY <1>2 DEF Places, CalPlaces
<1>6. driver' \in DriverType /\ task' \in TaskType
  BY <1>1 DEF TypeOK, DriverType, TaskType
<1>7. TypeOK'
  BY <1>1, <1>4, <1>5, <1>6, GotoType DEF TypeOK, pins
<1>8. ~LLineIsOn
  BY <1>3 DEF NothingLeftLive, LLineIsOn, TypeOK
<1>9. NothingLeftLive' /\ LLineHasOneUser' /\ LLineIsReserved' /\ LineHolds'
  BY <1>1, <1>3, <1>4, <1>8
  DEF NothingLeftLive, LLineHasOneUser, LLineIsReserved, LineHolds, LLineIsOn, pins
<1>10. CallHolds(o)'
  BY <1>1, <1>2, <1>3, <1>4 DEF CallHolds, KPlaces
<1>11. QED
  BY <1>1, <1>3, <1>4, <1>5, <1>7, <1>9, <1>10, CallKeeps

\* The end of kline_open(): the port is published, or all is undone.
LEMMA KOpenedKeeps ==
  ASSUME PinsInv, NEW o \in Owners, KOpened(o)
  PROVE  PinsInv'
<1> USE PinsAre, OwnersAre, NoArgType DEF PinsInv, KOpened
<1>1. at'[o] = "idle" /\ at[o] = "opened" /\ claim.owner = o /\ driver.uart
  BY GotoPlace DEF CallHolds, KPlaces
<1>2. /\ claim' \in ClaimType /\ claim'.owner = o
      /\ claim'.reserved = claim.reserved
  BY <1>1 DEF TypeOK, ClaimType
<1>3. "idle" \in Places \ CalPlaces /\ at[o] \notin CalPlaces
  BY <1>1 DEF Places, CalPlaces
<1>4. TypeOK'
  BY <1>2, <1>3, GotoType DEF TypeOK, pins
<1>5. NothingLeftLive' /\ LLineHasOneUser' /\ LLineIsReserved' /\ LineHolds'
  BY <1>1, <1>2
  DEF NothingLeftLive, LLineHasOneUser, LLineIsReserved, LineHolds, LLineIsOn, pins
<1>6. CallHolds(o)'
  BY <1>1 DEF CallHolds, KPlaces
<1>7. QED
  BY <1>1, <1>2, <1>3, <1>4, <1>5, <1>6, CallKeeps

\* kline_set_only_with_pin_claim(), part by part.
LEMMA ReserveKeeps ==
  ASSUME PinsInv, NEW o \in Owners, NEW enable \in BOOLEAN, Reserve(o, enable)
  PROVE  PinsInv'
<1> USE PinsAre, OwnersAre DEF PinsInv
<1> DEFINE locals == [NoArg EXCEPT !.enable = enable, !.was = claim.reserved]
<1>1. /\ claim \in ClaimType /\ claim.owner = o /\ claim.open /\ at[o] = "idle"
      /\ enable => ls.pin # LLine /\ ~calibrating
      /\ claim' = [claim EXCEPT !.reserved = @ \/ enable]
      /\ Goto(o, "set", locals)
      /\ UNCHANGED <<pins, high, low, gains, driver, task>>
  BY DEF Reserve, TypeOK
<1>2. locals \in ArgType /\ locals.enable = enable /\ locals.was = claim.reserved
  BY <1>1, NoArgType DEF ArgType, ClaimType
<1> HIDE DEF locals
<1>3. at'[o] = "set" /\ arg'[o] = locals
  BY <1>1, GotoPlace
<1>4. claim' \in ClaimType /\ claim'.owner = o /\ claim'.open
  BY <1>1 DEF ClaimType
<1>5. claim'.reserved <=> claim.reserved \/ enable
  BY <1>1 DEF ClaimType
<1>6. "set" \in Places \ CalPlaces /\ at[o] \notin CalPlaces
  BY <1>1 DEF Places, CalPlaces
<1>7. TypeOK'
  BY <1>1, <1>2, <1>4, <1>6, GotoType DEF TypeOK, pins
<1>8. NothingLeftLive' /\ LLineHasOneUser' /\ LLineIsReserved' /\ LineHolds'
  BY <1>1, <1>4, <1>5
  DEF NothingLeftLive, LLineHasOneUser, LLineIsReserved, LineHolds, LLineIsOn, pins
<1>9. CallHolds(o)'
  BY <1>1, <1>2, <1>3, <1>4, <1>5
  DEF CallHolds, KPlaces, LLineIsReserved, LineHolds
<1>10. QED
  BY <1>1, <1>2, <1>4, <1>6, <1>7, <1>8, <1>9, CallKeeps

\* kline_set_only_with_pin_claim() as it is entered.
LEMMA SetOnlyKeeps ==
  ASSUME PinsInv, NEW o \in Owners, SetOnly(o)
  PROVE  PinsInv'
<1> USE PinsAre, OwnersAre DEF PinsInv
<1>1. /\ arg[o] \in ArgType /\ driver \in DriverType /\ at[o] = "set"
      /\ UNCHANGED <<pins, high, gains, claim, task>>
  BY DEF TypeOK, SetOnly
<1>2. PICK ok \in BOOLEAN:
        /\ Goto(o, "commit", [arg[o] EXCEPT !.ok = ok])
        /\ ok => /\ driver' = [driver EXCEPT !.only = ~arg[o].enable]
                 /\ driver.only = arg[o].enable => task.state # "read"
                 /\ low' = IF driver.only = arg[o].enable THEN low \ {LLine} ELSE low
        /\ ~ok => driver' = driver /\ low' = low
  BY <1>1 DEF SetOnly, InitPending, DriverType, ArgType
<1>3. /\ at'[o] = "commit" /\ arg'[o] = [arg[o] EXCEPT !.ok = ok]
      /\ [arg[o] EXCEPT !.ok = ok] \in ArgType
  BY <1>1, <1>2, GotoPlace DEF ArgType
<1>4. /\ arg'[o].ok = ok /\ arg'[o].enable = arg[o].enable
      /\ arg'[o].was = arg[o].was
  BY <1>1, <1>3 DEF ArgType
<1>5. /\ claim.owner = o /\ claim.open /\ driver.uart
      /\ arg[o].enable \/ arg[o].was => claim.reserved
      /\ ~arg[o].was => driver.only
  BY <1>1 DEF CallHolds, KPlaces, LineHolds
<1>6. /\ driver' \in DriverType /\ driver'.uart = driver.uart
      /\ driver'.only = IF ok THEN ~arg[o].enable ELSE driver.only
  BY <1>1, <1>2 DEF DriverType, ArgType
<1>7. "commit" \in Places \ CalPlaces /\ at[o] \notin CalPlaces
  BY <1>1 DEF Places, CalPlaces
<1>8. TypeOK'
  BY <1>1, <1>2, <1>3, <1>6, <1>7, GotoType DEF TypeOK, pins
<1>9. low' \subseteq low /\ (LLineIsOn' => LLineIsOn)
  BY <1>1, <1>2 DEF LLineIsOn, pins
<1>10. NothingLeftLive' /\ LLineHasOneUser' /\ LLineIsReserved'
  BY <1>1, <1>5, <1>6, <1>9 DEF NothingLeftLive, LLineHasOneUser, LLineIsReserved, pins
<1>11. LineHolds'
  <2>1. LLineIsOn' => ~driver'.only
    BY <1>1, <1>2, <1>6, <1>9 DEF LineHolds, LLineIsOn, ArgType, DriverType, pins
  <2>2. task.l_line => ~driver'.only
    BY <1>1, <1>2, <1>6 DEF LineHolds, ArgType, DriverType
  <2>3. QED
    BY <1>1, <1>5, <1>6, <2>1, <2>2 DEF LineHolds
<1>12. CallHolds(o)'
  BY <1>1, <1>3, <1>4, <1>5, <1>6 DEF CallHolds, KPlaces
<1>13. QED
  BY <1>1, <1>2, <1>5, <1>7, <1>8, <1>10, <1>11, <1>12, CallKeeps

\* kline_set_only_with_pin_claim() as it returns: the claim says what was done.
LEMMA CommitKeeps ==
  ASSUME PinsInv, NEW o \in Owners, Commit(o)
  PROVE  PinsInv'
<1> USE PinsAre, OwnersAre, NoArgType DEF PinsInv, Commit
<1>1. /\ at[o] = "commit" /\ at'[o] = "idle" /\ arg[o] \in ArgType
      /\ claim \in ClaimType /\ claim.owner = o /\ claim.open /\ driver.uart
  BY GotoPlace DEF TypeOK, CallHolds, KPlaces, LineHolds
<1> DEFINE held == IF arg[o].ok THEN arg[o].enable ELSE arg[o].was
<1>2. held \in BOOLEAN /\ claim' = [claim EXCEPT !.reserved = held]
  BY <1>1 DEF ArgType
<1>3. (held => claim.reserved) /\ (~held => driver.only)
  BY <1>1 DEF CallHolds
<1> HIDE DEF held
<1>4. /\ claim' \in ClaimType /\ claim'.owner = o /\ claim'.open
      /\ claim'.reserved = held
  BY <1>1, <1>2 DEF ClaimType
<1>5. "idle" \in Places \ CalPlaces /\ at[o] \notin CalPlaces
  BY <1>1 DEF Places, CalPlaces
<1>6. TypeOK'
  BY <1>4, <1>5, GotoType DEF TypeOK, pins
<1>7. NothingLeftLive' /\ LLineHasOneUser' /\ LLineIsReserved' /\ LineHolds'
  BY <1>1, <1>3, <1>4
  DEF NothingLeftLive, LLineHasOneUser, LLineIsReserved, LineHolds, LLineIsOn, pins
<1>8. CallHolds(o)'
  BY <1>1 DEF CallHolds, KPlaces
<1>9. QED
  BY <1>1, <1>4, <1>5, <1>6, <1>7, <1>8, CallKeeps

\* do_init(), which may drive the L line: it is queued for the task.
LEMMA InitCallKeeps ==
  ASSUME PinsInv, NEW o \in Owners, InitCall(o)
  PROVE  PinsInv'
<1> USE PinsAre, OwnersAre, NoArgType DEF PinsInv, InitCall
<1>1. /\ at'[o] = "waiting" /\ at[o] = "idle" /\ claim.owner = o
      /\ claim.open /\ driver.uart
  BY GotoPlace DEF TypeOK, LineHolds
<1>2. task \in TaskType /\ ~task.l_line
  BY DEF TypeOK, LineHolds, InitPending
<1>3. /\ task' \in TaskType /\ task'.state = "queued"
      /\ task'.l_line = task.l_line
  BY <1>2 DEF TaskType
<1>4. "waiting" \in Places \ CalPlaces /\ at[o] \notin CalPlaces
  BY <1>1 DEF Places, CalPlaces
<1>5. TypeOK'
  BY <1>3, <1>4, GotoType DEF TypeOK, pins
<1>6. NothingLeftLive' /\ LLineHasOneUser' /\ LLineIsReserved' /\ LineHolds'
  BY <1>1, <1>2, <1>3
  DEF NothingLeftLive, LLineHasOneUser, LLineIsReserved, LineHolds, LLineIsOn, pins
<1>7. CallHolds(o)'
  BY <1>1 DEF CallHolds, KPlaces
<1>8. QED
  BY <1>1, <1>4, <1>5, <1>6, <1>7, CallKeeps

\* The task, which may still be driving the L line after its caller gave up.
LEMMA TaskKeeps ==
  ASSUME PinsInv, LineTask
  PROVE  PinsInv'
<1> USE PinsAre, OwnersAre DEF PinsInv
<1>1. UNCHANGED <<hs, ls, calibrating, high, gains, claim, driver, at, arg>>
  BY DEF LineTask, TaskTake, TaskRead, TaskWrite, TaskExit, Stay, pins
<1>2. /\ task' \in TaskType /\ task.state # "none"
      /\ task'.l_line => task'.state = "read" /\ ~driver.only
      /\ low' \in {low, low \ {LLine}} \/ (task.l_line /\ low' = low \cup {LLine})
  <2>1. task \in TaskType /\ driver \in DriverType
    BY DEF TypeOK
  <2>2. CASE TaskTake
    BY <2>1, <2>2 DEF TaskTake, TaskType, LineHolds
  <2>3. CASE TaskRead
    BY <2>1, <2>3 DEF TaskRead, TaskType, DriverType
  <2>4. CASE \E on, last \in BOOLEAN: TaskWrite(on, last)
    BY <2>1, <2>4 DEF TaskWrite, TaskType
  <2>5. CASE TaskExit
    BY <2>1, <2>5 DEF TaskExit, TaskType, LineHolds
  <2>6. QED
    BY <2>2, <2>3, <2>4, <2>5 DEF LineTask
<1>3. driver.uart /\ (task.l_line => claim.reserved /\ ~driver.only)
  BY <1>2 DEF LineHolds, LLineIsReserved
<1>4. TypeOK'
  BY <1>1, <1>2 DEF TypeOK
<1>5. NothingLeftLive' /\ LLineHasOneUser' /\ LLineIsReserved' /\ HsBookkeepingIsTrue'
  BY <1>1, <1>2, <1>3
  DEF NothingLeftLive, LLineHasOneUser, LLineIsReserved, HsBookkeepingIsTrue
<1>6. SidesHold' /\ LineHolds'
  BY <1>1, <1>2, <1>3 DEF SidesHold, LineHolds, LLineIsOn
<1>7. ASSUME NEW o \in Owners PROVE CallHolds(o)'
  <2>1. at[o] \notin {"release", "erase", "unreserve", "starting"}
    BY <1>2 DEF CallHolds
  <2>2. QED
    BY <1>1, <2>1 DEF CallHolds
<1>8. QED
  BY <1>4, <1>5, <1>6, <1>7

-------------------------------------------------------------------------------
(* The invariant of the pins, and what follows from it. *)

\* Every step of the vehicle interface keeps the pins' invariant.
LEMMA PinsNextKeeps == PinsInv /\ [PinsNext]_pinVars => PinsInv'
<1> SUFFICES ASSUME PinsInv, [PinsNext]_pinVars PROVE PinsInv'
  OBVIOUS
<1>1. ASSUME NEW o \in Owners, PinStep(o) PROVE PinsInv'
  BY <1>1, PinOffKeeps, VoltageKeeps, GroundKeeps, ReleasePinsKeeps DEF PinStep
<1>2. ASSUME NEW o \in Owners, KLineStep(o) PROVE PinsInv'
  BY <1>2, KOpenCloseKeeps, KWaitKeeps, KReleaseKeeps, KEraseKeeps, KUpKeeps,
     KOpenedKeeps, ReserveKeeps, SetOnlyKeeps, CommitKeeps, InitCallKeeps
  DEF KLineStep
<1>3. CASE UNCHANGED pinVars
  <2>1. UNCHANGED <<hs, ls, calibrating, high, low, gains, claim, driver, task, at, arg>>
    BY <1>3 DEF pinVars, pins, kline
  <2>2. TypeOK' /\ NothingLeftLive' /\ LLineHasOneUser' /\ LLineIsReserved'
    BY <2>1 DEF PinsInv, TypeOK, NothingLeftLive, LLineHasOneUser, LLineIsReserved
  <2>3. HsBookkeepingIsTrue' /\ SidesHold' /\ LineHolds'
    BY <2>1 DEF PinsInv, HsBookkeepingIsTrue, SidesHold, LineHolds, LLineIsOn
  <2>4. \A o \in Owners: CallHolds(o)'
    BY <2>1 DEF PinsInv, CallHolds, LLineIsOn
  <2>5. QED
    BY <2>2, <2>3, <2>4 DEF PinsInv
<1>4. QED
  BY <1>1, <1>2, <1>3, CalKeeps, TaskKeeps DEF PinsNext

\* What the pins, the calibration, the K-Line driver and its task know about one
\* another: the inductive invariant of the shared outputs of vif.c.
THEOREM PinsCorrect == PinsSpec => []PinsInv
<1>1. QED
  BY InitPins, PinsNextKeeps, PTL DEF PinsSpec

\* Every output that is on has somebody who will switch it off.
THEOREM NoPinIsLeftLive == PinsSpec => []NothingLeftLive
<1>1. PinsInv => NothingLeftLive
  BY DEF PinsInv
<1>2. QED
  BY <1>1, PinsCorrect, PTL

\* No pin is ever on the boost rail and pulled to ground at once.
THEOREM NoPinIsShorted == PinsSpec => []NoShortThrough
<1>1. ASSUME PinsInv PROVE NoShortThrough
  BY <1>1, PinsAre
  DEF PinsInv, TypeOK, NothingLeftLive, SidesHold, NoShortThrough
<1>2. QED
  BY <1>1, PinsCorrect, PTL

\* The records of the pins are true, and the L line has one user (vif_pin_set(),
\* vif_calibrate_hs() and kline_set_only_with_pin_claim() together).
THEOREM LinesStayKept == PinsSpec => []LinesAreKept
<1>1. PinsInv => LinesAreKept
  BY DEF PinsInv, LinesAreKept
<1>2. QED
  BY <1>1, PinsCorrect, PTL

-------------------------------------------------------------------------------
(* The K-Line driver: its inductive invariant. *)

\* What each variable holds.
DrvType == [started : BOOLEAN, uart : BOOLEAN, task : BOOLEAN, stop : BOOLEAN,
            exited : BOOLEAN]
ReqType == [kind : Commands \cup {"none"}, at : {"none", "queued", "taken"},
            control : {"none", "queued", "cancelled", "active"}]
TxType == [sent : 0 .. TxLen, echoed : 0 .. TxLen, announced : 0 .. TxLen,
           failed : BOOLEAN, step : {"none", "look", "look again", "decide"},
           tries : Nat]
Bytes == {"e1", "e2", "r1", "r2", "f2", "x"}
Remembered == {"lost", "orphan", "torn", "still", "early", "strayed", "echo", "judged"}
Named ==
  /\ drv \in DrvType /\ req \in ReqType
  /\ late \in BOOLEAN /\ stuck \in BOOLEAN /\ done \in BOOLEAN
  /\ call \in {"out", "waiting", "joining", "releasing"}
  /\ t \in {"none", "loop", "quiet", "tx", "retry", "idle", "reply"}
  /\ job \in {"none", "tx", "five", "fast", "stop", "periodic", "bye"}
  /\ link \in {"none", "kwp"}
  /\ DOMAIN ghost = Remembered
Words ==
  /\ answered \in BOOLEAN /\ keep \in BOOLEAN /\ unseen \in BOOLEAN
  /\ asm \in {"", "r1", "e1", "junk"}
Wired ==
  /\ tx \in TxType /\ tx.echoed <= tx.sent
  /\ due \in Seq(1 .. TxLen) /\ ring \in Seq(Bytes) /\ pend \in Seq(Bytes)

\* The task is there while it may touch the UART, and ends the session first.
Lives ==
  /\ t # "none" => drv.uart /\ drv.task
  /\ t = "none" => job = "none" /\ link = "none"
  /\ drv.exited => t = "none"
  /\ drv.started => t # "none" /\ ~drv.stop
  /\ job = "bye" => drv.stop
  /\ call = "releasing" => t = "none"

\* What the task does, it does for a keepalive, for its end, or for the request
\* it took.
Works ==
  /\ t \in {"quiet", "tx", "retry", "idle", "reply"} => job # "none"
  /\ t = "idle" => job \in {"five", "fast"}
  /\ t = "reply" => job = "fast"
  /\ job \in {"tx", "stop", "five", "fast"} => req.at = "taken"

\* A request that is not answered, or an answer that is not taken, has a caller
\* who waits for it, or closes the driver to all others.
Owes ==
  /\ done => req.at = "none"
  /\ done \/ req.at # "none" => call = "waiting" \/ late \/ ~drv.started
  /\ call = "waiting" => ~late
  /\ ghost.orphan => late
  /\ ghost.torn = FALSE /\ ghost.lost = FALSE

Controlled == Named /\ Lives /\ Works /\ Owes
KLineInv == Controlled /\ Words /\ Wired

-------------------------------------------------------------------------------
(* Operators. *)

\* The lesser of two numbers.
LEMMA LesserIs ==
  ASSUME NEW a \in Int, NEW b \in Int
  PROVE  Min({a, b}) = IF a <= b THEN a ELSE b
<1>1. PICK m \in {a, b} : \A y \in {a, b} : m <= y
  OBVIOUS
<1>2. Min({a, b}) \in {a, b} /\ \A y \in {a, b} : Min({a, b}) <= y
  BY <1>1 DEF Min
<1>3. QED
  BY <1>2

\* The lesser of two numbers is one of those up to either.
LEMMA LesserWithin ==
  ASSUME NEW a \in Nat, NEW b \in Nat
  PROVE  Min({a, b}) \in 0 .. b /\ Min({a, b}) \in 0 .. a
<1>1. CASE a <= b
  <2>1. Min({a, b}) = a
    BY <1>1, LesserIs
  <2>2. QED
    BY <1>1, <2>1
<1>2. CASE ~(a <= b)
  <2>1. Min({a, b}) = b
    BY <1>2, LesserIs
  <2>2. QED
    BY <1>2, <2>1
<1>3. QED
  BY <1>1, <1>2

\* The greatest of a few numbers, zero among them.
LEMMA GreatestIs ==
  ASSUME NEW room \in 0 .. TxLen, NEW S \in SUBSET (0 .. room), 0 \in S
  PROVE  Max(S) \in S /\ \A n \in S : n <= Max(S)
<1>1. \E m \in S : \A y \in S : m >= y
  <2>1. room \in {0, 1, 2} /\ \A y \in S : y \in {0, 1, 2} /\ y <= room
    BY DEF TxLen
  <2>2. CASE 2 \in S
    BY <2>1, <2>2
  <2>3. CASE 2 \notin S /\ 1 \in S
    BY <2>1, <2>3
  <2>4. CASE 2 \notin S /\ 1 \notin S
    BY <2>1, <2>4
  <2>5. QED
    BY <2>2, <2>3, <2>4
<1>2. Max(S) \in S /\ \A n \in S : Max(S) >= n
  BY <1>1 DEF Max
<1>3. \A n \in S : n \in Int /\ Max(S) \in Int
  <2>1. \A n \in 0 .. room : n \in Int
    OBVIOUS
  <2>2. QED
    BY <1>2, <2>1
<1>4. QED
  BY <1>2, <1>3

\* The counters of a transmission, one by one.
LEMMA TxFields ==
  ASSUME NEW x \in TxType
  PROVE  /\ x.sent \in 0 .. 2 /\ x.echoed \in 0 .. 2 /\ x.announced \in 0 .. 2
         /\ x.failed \in BOOLEAN /\ x.tries \in Nat
         /\ x.step \in {"none", "look", "look again", "decide"}
BY DEF TxType, TxLen

\* tx_read_echo() advances within its limit, and uses what there is.
LEMMA ReadEchoTyped ==
  ASSUME NEW x \in TxType, NEW limit \in 0 .. TxLen, x.echoed < limit,
         limit <= x.sent, NEW bytes \in Seq(Bytes)
  PROVE  /\ ReadEcho(x, bytes, limit).tx \in TxType
         /\ ReadEcho(x, bytes, limit).tx.echoed <= ReadEcho(x, bytes, limit).tx.sent
         /\ ReadEcho(x, bytes, limit).used \in 0 .. Len(bytes)
<1> DEFINE room == Min({limit - x.echoed, Len(bytes)})
           same == {n \in 0 .. room : \A i \in 1 .. n : SameValue(bytes[i], x.echoed + i)}
           good == Max(same)
           bad == good < room
<1>1. /\ x.echoed \in 0 .. TxLen /\ x.sent \in 0 .. TxLen /\ Len(bytes) \in Nat
      /\ x.failed \in BOOLEAN
  BY TxFields, LenProperties DEF TxLen
<1>2. room \in 0 .. TxLen /\ room <= Len(bytes) /\ x.echoed + room <= limit
  BY <1>1, LesserIs DEF TxLen
<1>3. same \in SUBSET (0 .. room) /\ 0 \in same
  <2> HIDE DEF room
  <2>1. 1 .. 0 = {} /\ 0 \in 0 .. room
    BY <1>2
  <2>2. QED
    BY <2>1
<1>4. good \in 0 .. room
  <2>1. good \in same
    <3> HIDE DEF room, same
    <3>1. QED
      BY <1>2, <1>3, GreatestIs
  <2> HIDE DEF room, good
  <2>2. QED
    BY <2>1
<1>5. ReadEcho(x, bytes, limit) =
        [tx |-> [x EXCEPT !.echoed = @ + good, !.failed = @ \/ bad],
         used |-> good + (IF bad THEN 1 ELSE 0)]
  BY DEF ReadEcho
<1> HIDE DEF room, same, good
<1> DEFINE y == [x EXCEPT !.echoed = @ + good, !.failed = @ \/ bad]
<1>6. bad \in BOOLEAN
  OBVIOUS
<1>7. y \in TxType /\ y.echoed = x.echoed + good /\ y.sent = x.sent
  <2>1. x.echoed + good \in 0 .. TxLen /\ (x.failed \/ bad) \in BOOLEAN
    BY <1>1, <1>2, <1>4, <1>6 DEF TxLen
  <2> HIDE DEF bad
  <2>2. QED
    BY <2>1 DEF TxType
<1>8. good + (IF bad THEN 1 ELSE 0) \in 0 .. Len(bytes)
  BY <1>1, <1>2, <1>4
<1>9. y.echoed <= y.sent
  BY <1>1, <1>2, <1>4, <1>7
<1> HIDE DEF y, bad
<1>10. ReadEcho(x, bytes, limit).tx = y
  BY <1>5 DEF y
<1>11. ReadEcho(x, bytes, limit).used \in 0 .. Len(bytes)
  BY <1>5, <1>8
<1>12. QED
  BY <1>7, <1>9, <1>10, <1>11

\* The bytes at hand stay bytes.
LEMMA RestTyped ==
  ASSUME NEW s \in Seq(Bytes), NEW n \in 0 .. Len(s)
  PROVE  SubSeq(s, n + 1, Len(s)) \in Seq(Bytes)
<1>1. n + 1 \in 1 .. Len(s) + 1 /\ Len(s) \in (n + 1) - 1 .. Len(s)
  BY LenProperties
<1>2. QED
  BY <1>1, SubSeqProperties

\* tx_read_echo() reads what the UART holds, and stays within what was sent.
LEMMA ReadsTyped ==
  ASSUME NEW x \in TxType, NEW limit \in 0 .. TxLen, limit <= x.sent, x.echoed <= x.sent,
         ring \in Seq(Bytes), pend \in Seq(Bytes), Reads(x, limit)
  PROVE  /\ tx' \in TxType /\ tx'.echoed <= tx'.sent
         /\ ring' \in Seq(Bytes) /\ pend' \in Seq(Bytes)
<1>1. CASE x.failed \/ limit <= x.echoed
  BY <1>1 DEF Reads
<1>2. CASE ~(x.failed \/ limit <= x.echoed)
  <2> DEFINE all == pend \o ring
             read == ReadEcho(x, all, limit)
  <2>1. all \in Seq(Bytes) /\ Len(all) = Len(pend) + Len(ring)
        /\ Len(pend) \in Nat /\ Len(ring) \in Nat
    BY ConcatProperties, LenProperties
  <2>2. x.echoed < limit
    <3>1. ~(limit <= x.echoed)
      BY <1>2
    <3>2. limit \in 0 .. 2 /\ x.echoed \in 0 .. 2
      BY TxFields DEF TxLen
    <3>3. QED
      BY <3>1, <3>2
  <2>3. /\ tx' = read.tx
        /\ pend' = IF read.used <= Len(pend) THEN SubSeq(pend, read.used + 1, Len(pend))
                   ELSE SubSeq(all, read.used + 1, Len(pend) + Len(ring))
        /\ ring' = IF read.used <= Len(pend) THEN ring ELSE <<>>
    BY <1>2 DEF Reads
  <2> HIDE DEF all
  <2>4. /\ read.tx \in TxType /\ read.tx.echoed <= read.tx.sent
        /\ read.used \in 0 .. Len(all)
    BY <2>1, <2>2, ReadEchoTyped
  <2> HIDE DEF read
  <2>5. CASE read.used <= Len(pend)
    <3>1. read.used \in 0 .. Len(pend)
      BY <2>1, <2>4, <2>5
    <3>2. SubSeq(pend, read.used + 1, Len(pend)) \in Seq(Bytes)
      BY <3>1, RestTyped
    <3>3. QED
      BY <2>3, <2>4, <2>5, <3>2
  <2>6. CASE ~(read.used <= Len(pend))
    <3>1. SubSeq(all, read.used + 1, Len(all)) \in Seq(Bytes) /\ <<>> \in Seq(Bytes)
      BY <2>1, <2>4, RestTyped
    <3>2. QED
      BY <2>1, <2>3, <2>4, <2>6, <3>1
  <2>7. QED
    BY <2>5, <2>6
<1>3. QED
  BY <1>1, <1>2

\* A transmission that has not begun.
LEMMA NoTxTyped == NoTx \in TxType /\ NoTx.echoed <= NoTx.sent
BY DEF NoTx, TxType, TxLen

\* A request slot that is free.
LEMMA NoReqTyped == NoReq \in ReqType /\ NoReq.at = "none"
BY DEF NoReq, ReqType

\* A driver that was never opened satisfies the invariant.
LEMMA InitKLine == Init => KLineInv
<1> SUFFICES ASSUME Init PROVE KLineInv
  OBVIOUS
<1>1. Named
  BY NoReqTyped DEF Init, Named, DrvType, Down, Remembered
<1>2. Words /\ Lives /\ Works
  BY DEF Init, Words, Lives, Works, Down
<1>3. Owes
  BY NoReqTyped DEF Init, Owes
<1>4. Wired
  BY NoTxTyped, EmptySeq DEF Init, Wired
<1>5. QED
  BY <1>1, <1>2, <1>3, <1>4 DEF KLineInv, Controlled

\* What the properties remember of a hand-over.
Same(g) ==
  /\ DOMAIN g = Remembered
  /\ g.lost = ghost.lost /\ g.orphan = ghost.orphan /\ g.torn = ghost.torn

\* What is remembered of the wire says nothing of the hand-over.
LEMMA GhostSame ==
  ASSUME DOMAIN ghost = Remembered
  PROVE  /\ Same(ghost)
         /\ \A v : /\ Same([ghost EXCEPT !.still = v]) /\ Same([ghost EXCEPT !.early = v])
                   /\ Same([ghost EXCEPT !.strayed = v]) /\ Same([ghost EXCEPT !.echo = v])
         /\ \A v, w : /\ Same([ghost EXCEPT !.still = v, !.echo = w])
                      /\ Same([ghost EXCEPT !.early = v, !.still = w])
                      /\ Same([ghost EXCEPT !.judged = v, !.echo = w])
BY DEF Same, Remembered

\* Most of what happens on the wire leaves the hand-over alone.
LEMMA ControlStays ==
  ASSUME Controlled, Same(ghost'), stuck' \in BOOLEAN,
         UNCHANGED <<drv, late, call, req, done, t, job, link>>
  PROVE  Controlled'
<1>1. Named'
  BY DEF Controlled, Named, Same
<1>2. Lives' /\ Works'
  BY DEF Controlled, Lives, Works
<1>3. Owes'
  BY DEF Controlled, Owes, Same
<1>4. QED
  BY <1>1, <1>2, <1>3 DEF Controlled

-------------------------------------------------------------------------------
(* The caller. *)

\* The flags of the driver, and those of one that is closed.
LEMMA DrvMoves ==
  ASSUME drv \in DrvType
  PROVE  /\ Down \in DrvType /\ ~Down.started /\ ~Down.uart /\ ~Down.task
         /\ ~Down.stop /\ ~Down.exited
         /\ drv.started \in BOOLEAN /\ drv.uart \in BOOLEAN /\ drv.task \in BOOLEAN
         /\ drv.stop \in BOOLEAN /\ drv.exited \in BOOLEAN
BY DEF DrvType, Down

\* kline_open() starts a task that has nothing to do.
LEMMA OpenControlled == ASSUME Controlled, Open PROVE Controlled'
<1>1. /\ Named /\ Lives /\ Works /\ Owes
  BY DEF Controlled
<1>2. /\ t = "none" /\ late' = FALSE /\ stuck' = FALSE /\ req' = NoReq /\ done' = FALSE
      /\ job' = "none" /\ link' = "none" /\ call' = "out" /\ call = "out"
  BY <1>1 DEF Open, Lives
<1>3. DOMAIN ghost' = Remembered /\ ghost'.orphan = FALSE
      /\ ghost'.lost = ghost.lost /\ ghost'.torn = ghost.torn
  BY <1>1 DEF Open, Named, Remembered
<1>4. /\ drv' \in DrvType /\ ~drv'.stop /\ ~drv'.exited
      /\ \/ drv'.started /\ drv'.uart /\ drv'.task /\ t' = "loop"
         \/ ~drv'.started /\ t' = "none"
  <2>1. CASE drv' = [Down EXCEPT !.started = TRUE, !.uart = TRUE, !.task = TRUE] /\ t' = "loop"
    BY <2>1 DEF Down, DrvType
  <2>2. CASE \E left \in BOOLEAN : drv' = [Down EXCEPT !.uart = left] /\ t' = t
    BY <1>2, <2>2 DEF Down, DrvType
  <2>3. QED
    BY <2>1, <2>2 DEF Open
<1>5. Named'
  BY <1>2, <1>3, <1>4, NoReqTyped DEF Named
<1>6. Lives' /\ Works'
  BY <1>2, <1>4 DEF Lives, Works
<1>7. Owes'
  BY <1>1, <1>2, <1>3, NoReqTyped DEF Owes
<1>8. QED
  BY <1>5, <1>6, <1>7 DEF Controlled

\* kline_close() tells the task to stop, and waits until it has.
LEMMA CloseControlled ==
  ASSUME Controlled, CloseBegin \/ Joined PROVE Controlled'
<1>1. /\ Named /\ Lives /\ Works /\ Owes
  BY DEF Controlled
<1>2. /\ UNCHANGED <<late, stuck, req, done, t, job, link, ghost>>
      /\ call \in {"out", "joining"} /\ call' \in {"out", "joining", "releasing"}
  BY DEF CloseBegin, Joined
<1>3. /\ drv' \in DrvType /\ drv'.uart = drv.uart
      /\ drv'.started => drv.started /\ drv'.stop = drv.stop
      /\ drv.stop => drv'.stop
      /\ drv'.task = drv.task \/ (drv.exited /\ ~drv'.exited)
      /\ drv'.exited => drv.exited
      /\ call' = "releasing" => drv.exited \/ ~drv.task
  <2>1. CASE CloseBegin
    <3>1. (drv.stop \/ drv.task) \in BOOLEAN
      OBVIOUS
    <3>2. drv' = [drv EXCEPT !.started = FALSE, !.stop = drv.stop \/ drv.task]
      BY <2>1 DEF CloseBegin
    <3>3. QED
      BY <1>1, <2>1, <3>1, <3>2 DEF CloseBegin, Named, DrvType
  <2>2. CASE Joined
    BY <1>1, <2>2 DEF Joined, Named, DrvType
  <2>3. QED
    BY <2>1, <2>2
<1>4. Named'
  BY <1>1, <1>2, <1>3 DEF Named
<1>5. Lives'
  BY <1>1, <1>2, <1>3 DEF Lives
<1>6. Works' /\ Owes'
  BY <1>1, <1>2, <1>3 DEF Works, Owes
<1>7. QED
  BY <1>4, <1>5, <1>6 DEF Controlled

\* kline_release() frees the UART only once the task is gone.
LEMMA ReleaseControlled == ASSUME Controlled, Release PROVE Controlled'
<1>1. /\ Named /\ Lives /\ Works /\ Owes
  BY DEF Controlled
<1>2. t = "none" /\ job = "none" /\ link = "none" /\ call = "releasing" /\ call' = "out"
      /\ t' = t /\ job' = job
  BY <1>1 DEF Release, Lives
<1>3. CASE UNCHANGED <<drv, link, done, req, late, stuck, ghost>>
  <2>1. Named' /\ Lives' /\ Works'
    BY <1>1, <1>2, <1>3 DEF Named, Lives, Works
  <2>2. Owes'
    BY <1>1, <1>2, <1>3 DEF Owes
  <2>3. QED
    BY <2>1, <2>2 DEF Controlled
<1>4. CASE /\ drv' = Down /\ link' = "none" /\ done' = FALSE /\ req' = NoReq
           /\ late' = FALSE /\ stuck' = FALSE
           /\ ghost' = [ghost EXCEPT !.still = 0, !.orphan = FALSE, !.lost = @ \/ link = "kwp"]
  <2>1. /\ DOMAIN ghost' = Remembered /\ ghost'.orphan = FALSE /\ ghost'.torn = ghost.torn
        /\ ghost'.lost = (ghost.lost \/ link = "kwp")
    BY <1>1, <1>4 DEF Named, Remembered
  <2>2. Named'
    BY <1>1, <1>2, <1>4, <2>1, NoReqTyped, DrvMoves DEF Named
  <2>3. Lives' /\ Works'
    BY <1>1, <1>2, <1>4, DrvMoves DEF Lives, Works, Named
  <2>4. Owes'
    BY <1>1, <1>2, <1>4, <2>1, NoReqTyped DEF Owes
  <2>5. QED
    BY <2>2, <2>3, <2>4 DEF Controlled
<1>5. QED
  BY <1>3, <1>4 DEF Release

\* Nobody is let in while the task is at work for somebody.
LEMMA NobodyIsTorn ==
  ASSUME Controlled, MayAsk
  PROVE  ~Working /\ done = FALSE /\ req.at = "none" /\ ~late
BY DEF Controlled, Named, Works, Owes, MayAsk, Blocked, Working

\* A slot that is written while the task is at rest is not torn.
LEMMA TornSame ==
  ASSUME DOMAIN ghost = Remembered, ~Working, ghost.torn = FALSE, Torn
  PROVE  Same(ghost')
<1>1. ghost' = [ghost EXCEPT !.torn = @ \/ Working]
  BY DEF Torn
<1>2. DOMAIN ghost' = Remembered /\ ghost'.lost = ghost.lost /\ ghost'.orphan = ghost.orphan
  BY <1>1 DEF Remembered
<1>3. ghost'.torn = (ghost.torn \/ Working)
  BY <1>1 DEF Remembered
<1>4. ghost'.torn = ghost.torn
  BY <1>3
<1>5. QED
  BY <1>2, <1>4 DEF Same

\* run_cmd() writes the shared slot and waits.
LEMMA AskControlled ==
  ASSUME Controlled, NEW kind \in Commands, Ask(kind) PROVE Controlled'
<1>1. /\ Named /\ Lives /\ Works /\ Owes
  BY DEF Controlled
<1>2. /\ UNCHANGED <<drv, late, stuck, done, t, job, link>>
      /\ call' = "waiting" /\ Torn /\ MayAsk
      /\ req' = [kind |-> kind, at |-> "queued",
                 control |-> IF kind = "managed" THEN "queued" ELSE "none"]
  BY DEF Ask
<1>3. ~Working /\ done = FALSE /\ req.at = "none" /\ ~late
  BY <1>2, NobodyIsTorn
<1>4. Same(ghost')
  BY <1>1, <1>2, <1>3, TornSame DEF Named, Owes
<1>5. req' \in ReqType /\ req'.at = "queued"
  BY <1>2 DEF ReqType
<1>6. Named'
  BY <1>1, <1>2, <1>4, <1>5 DEF Named, Same
<1>7. Lives' /\ Works'
  BY <1>1, <1>2, <1>3 DEF Lives, Works, MayAsk
<1>8. Owes'
  BY <1>1, <1>2, <1>3, <1>4 DEF Owes, Same
<1>9. QED
  BY <1>6, <1>7, <1>8 DEF Controlled

\* The three ends of that wait: the answer, the deadline, a cancellation.
LEMMA TakenControlled ==
  ASSUME Controlled, Answered \/ TimesOut \/ Cancel PROVE Controlled'
<1>1. /\ Named /\ Lives /\ Works /\ Owes
  BY DEF Controlled
<1>2. /\ UNCHANGED <<drv, stuck, t, job, link>> /\ call = "waiting"
  BY DEF Answered, TimesOut, Cancel
<1>3. CASE Answered
  <2>1. /\ call' = "out" /\ req' = NoReq /\ done' = FALSE /\ done = TRUE
        /\ late' = late /\ ghost' = ghost /\ req.at = "none"
    BY <1>1, <1>3 DEF Answered, Owes, Named
  <2>2. Named'
    BY <1>1, <1>2, <2>1, NoReqTyped DEF Named
  <2>3. Lives' /\ Works'
    BY <1>1, <1>2, <2>1, NoReqTyped DEF Lives, Works
  <2>4. Owes'
    BY <1>1, <2>1, NoReqTyped DEF Owes
  <2>5. QED
    BY <2>2, <2>3, <2>4 DEF Controlled
<1>4. CASE TimesOut
  <2>1. /\ call' = "out" /\ late' = TRUE /\ UNCHANGED <<req, done>>
        /\ DOMAIN ghost' = Remembered /\ ghost'.torn = ghost.torn /\ ghost'.lost = ghost.lost
    BY <1>1, <1>4 DEF TimesOut, Named, Remembered
  <2>2. Named' /\ Lives' /\ Works'
    BY <1>1, <1>2, <2>1 DEF Named, Lives, Works
  <2>3. Owes'
    BY <1>1, <2>1 DEF Owes
  <2>4. QED
    BY <2>2, <2>3 DEF Controlled
<1>5. CASE Cancel
  <2>1. /\ UNCHANGED <<late, call, done, ghost>>
        /\ req' = [req EXCEPT !.control = "cancelled"]
    BY <1>5 DEF Cancel
  <2>2. req' \in ReqType /\ req'.at = req.at
    BY <1>1, <2>1 DEF Named, ReqType
  <2>3. Named' /\ Lives' /\ Works'
    BY <1>1, <1>2, <2>1, <2>2 DEF Named, Lives, Works
  <2>4. Owes'
    BY <1>1, <1>2, <2>1, <2>2 DEF Owes
  <2>5. QED
    BY <2>3, <2>4 DEF Controlled
<1>6. QED
  BY <1>3, <1>4, <1>5

\* The setters of the parameters, which the task reads.
LEMMA ParamsControlled ==
  ASSUME Controlled, SetParam \/ AssumeLink PROVE Controlled'
<1>1. /\ Named /\ Lives /\ Works /\ Owes
  BY DEF Controlled
<1>2. /\ UNCHANGED <<drv, late, stuck, call, req, done, t, job>>
      /\ MayAsk /\ Torn /\ link' \in {link, "none", "kwp"}
  BY DEF SetParam, AssumeLink, handing
<1>3. Same(ghost')
  BY <1>1, <1>2, NobodyIsTorn, TornSame DEF Named, Owes
<1>4. t # "none"
  BY <1>1, <1>2 DEF Lives, MayAsk
<1>5. Named' /\ Lives' /\ Works'
  BY <1>1, <1>2, <1>3, <1>4 DEF Named, Lives, Works, Same
<1>6. Owes'
  BY <1>1, <1>2, <1>3 DEF Owes, Same
<1>7. QED
  BY <1>5, <1>6 DEF Controlled

-------------------------------------------------------------------------------
(* The task. *)

\* An answer is owed to whoever is still there for it.
LEMMA AnswerControlled ==
  ASSUME Controlled, Answer, req.at # "none", t # "none", Same(ghost'), stuck' \in BOOLEAN,
         UNCHANGED <<drv, late, call>>, link' \in {"none", "kwp"}
  PROVE  Controlled'
<1>1. /\ Named /\ Lives /\ Works /\ Owes
  BY DEF Controlled
<1>2. done' = TRUE /\ t' = "loop" /\ job' = "none" /\ req' = [req EXCEPT !.at = "none"]
  BY DEF Answer
<1>3. req' \in ReqType /\ req'.at = "none"
  BY <1>1, <1>2 DEF Named, ReqType
<1>4. Named'
  BY <1>1, <1>2, <1>3 DEF Named, Same
<1>5. Lives' /\ Works'
  BY <1>1, <1>2 DEF Lives, Works
<1>6. Owes'
  BY <1>1, <1>2, <1>3 DEF Owes, Same
<1>7. QED
  BY <1>4, <1>5, <1>6 DEF Controlled

\* The task ends for good once it has been told to.
LEMMA ExitControlled ==
  ASSUME Controlled, Exit, drv.stop, Same(ghost'), stuck' \in BOOLEAN,
         UNCHANGED <<late, call, req, done>>, link' = "none"
  PROVE  Controlled'
<1>1. /\ Named /\ Lives /\ Works /\ Owes
  BY DEF Controlled
<1>2. t' = "none" /\ job' = "none" /\ drv' = [drv EXCEPT !.exited = TRUE]
  BY DEF Exit
<1>3. /\ drv' \in DrvType /\ drv'.started = drv.started /\ ~drv.started
  BY <1>1, <1>2 DEF Named, DrvType, Lives
<1>4. Named'
  BY <1>1, <1>2, <1>3 DEF Named, Same
<1>5. Lives' /\ Works'
  BY <1>1, <1>2, <1>3 DEF Lives, Works
<1>6. Owes'
  BY <1>1, <1>3 DEF Owes, Same
<1>7. QED
  BY <1>4, <1>5, <1>6 DEF Controlled

\* Between those the task moves on, and keeps whom it works for.
LEMMA MovesControlled ==
  ASSUME Controlled, Same(ghost'), stuck' \in BOOLEAN, t # "none",
         UNCHANGED <<drv, late, call, done>>, link' \in {link, "none"},
         req' \in ReqType, req'.at = req.at \/ (req.at # "none" /\ req'.at = "taken" /\ t = "loop"),
         t' \in {"loop", "quiet", "tx", "retry", "idle", "reply"},
         job' \in {"none", "tx", "five", "fast", "stop", "periodic", "bye"},
         job' = "bye" => drv.stop,
         Works'
  PROVE  Controlled'
<1>1. /\ Named /\ Lives /\ Works /\ Owes
  BY DEF Controlled
<1>2. Named'
  BY <1>1 DEF Named, Same
<1>3. Lives'
  BY <1>1 DEF Lives
<1>4. Owes'
  <2>1. req.at \in {"none", "queued", "taken"} /\ req'.at \in {"none", "queued", "taken"}
    BY <1>1 DEF Named, ReqType
  <2>2. QED
    BY <1>1, <2>1 DEF Owes, Same
<1>5. QED
  BY <1>2, <1>3, <1>4 DEF Controlled

\* Whoever a transmission was for, its end keeps what is handed over.
LEMMA FinishControlled ==
  ASSUME Controlled, NEW ok \in BOOLEAN, NEW g, Finish(ok, g), Same(g), stuck' \in BOOLEAN,
         t \in {"quiet", "tx"}, UNCHANGED <<late, call>>
  PROVE  Controlled' /\ tx' = NoTx
<1>1. /\ Named /\ Lives /\ Works /\ Owes
  BY DEF Controlled
<1>2. Same(ghost')
  BY DEF Finish
<1>3. job \in {"tx", "five", "fast", "stop", "periodic", "bye"}
  BY <1>1 DEF Named, Works
<1>4. CASE job = "periodic"
  <2>1. t' = "loop" /\ job' = "none" /\ tx' = NoTx /\ UNCHANGED <<drv, req, done, link>>
    BY <1>4 DEF Finish
  <2>2. Works' /\ req' \in ReqType
    BY <1>1, <2>1 DEF Works, Named
  <2>3. QED
    BY <1>1, <1>2, <2>1, <2>2, MovesControlled
<1>5. CASE job = "bye"
  <2>1. Exit /\ link' = "none" /\ UNCHANGED <<req, done>>
    BY <1>5 DEF Finish
  <2>2. drv.stop /\ tx' = NoTx
    BY <1>1, <1>5, <2>1 DEF Lives, Exit
  <2>3. QED
    BY <1>2, <2>1, <2>2, ExitControlled
<1>6. CASE job = "fast" /\ ok
  <2>1. t' = "reply" /\ tx' = NoTx /\ UNCHANGED <<drv, req, done, job, link>>
    BY <1>6 DEF Finish
  <2>2. Works' /\ req' \in ReqType
    BY <1>1, <1>6, <2>1 DEF Works, Named
  <2>3. QED
    BY <1>1, <1>2, <1>6, <2>1, <2>2, MovesControlled
<1>7. CASE job \in {"tx", "five", "fast", "stop"} /\ ~(job = "fast" /\ ok)
  <2>1. Answer /\ drv' = drv /\ link' \in {link, "none", "kwp"}
    BY <1>7 DEF Finish
  <2>2. req.at # "none" /\ link' \in {"none", "kwp"} /\ tx' = NoTx
    BY <1>1, <1>7, <2>1 DEF Works, Named, Answer
  <2>3. QED
    BY <1>2, <2>1, <2>2, AnswerControlled
<1>8. QED
  BY <1>3, <1>4, <1>5, <1>6, <1>7

\* Reading the UART loses no request.
LEMMA DrainSame ==
  ASSUME DOMAIN ghost = Remembered, Drain \/ Gap
  PROVE  Same(ghost')
<1>1. CASE Event
  BY <1>1, GhostSame DEF Event
<1>2. CASE Discard \/ Skip \/ Gap
  BY <1>2, GhostSame DEF Discard, Skip, Gap
<1>3. CASE Gather
  BY <1>3, GhostSame DEF Gather, Publish
<1>4. QED
  BY <1>1, <1>2, <1>3 DEF Drain

\* kline_task() seeing its stop flag, with or without a session to end.
LEMMA LeaveControlled == ASSUME Controlled, Leave PROVE Controlled'
<1>1. Named /\ Works
  BY DEF Controlled
<1>2. /\ t = "loop" /\ drv.stop /\ UNCHANGED <<late, call, req, done, stuck, ghost>>
  BY DEF Leave
<1>3. Same(ghost') /\ stuck' \in BOOLEAN
  BY <1>1, <1>2, GhostSame DEF Named
<1>4. CASE Waits("bye") /\ UNCHANGED <<drv, link>>
  <2>1. t' = "quiet" /\ job' = "bye"
    BY <1>4 DEF Waits
  <2>2. Works' /\ req' \in ReqType
    BY <1>1, <1>2, <2>1 DEF Works, Named
  <2>3. QED
    BY <1>2, <1>3, <1>4, <2>1, <2>2, MovesControlled
<1>5. CASE Exit /\ link' = "none"
  BY <1>2, <1>3, <1>5, ExitControlled
<1>6. QED
  BY <1>4, <1>5 DEF Leave

\* kline_task() starting the session's keepalive.
LEMMA PeriodicControlled == ASSUME Controlled, Periodic PROVE Controlled'
<1>1. Named /\ Works
  BY DEF Controlled
<1>2. /\ t = "loop" /\ t' = "quiet" /\ job' = "periodic"
      /\ UNCHANGED <<drv, late, call, req, done, stuck, ghost, link>>
  BY DEF Periodic, Waits, handing
<1>3. Same(ghost') /\ stuck' \in BOOLEAN
  BY <1>1, <1>2, GhostSame DEF Named
<1>4. Works' /\ req' \in ReqType
  BY <1>1, <1>2 DEF Works, Named
<1>5. QED
  BY <1>2, <1>3, <1>4, MovesControlled

\* kline_task() taking the command out of the shared slot.
LEMMA TakeControlled == ASSUME Controlled, TakeCommand PROVE Controlled'
<1>1. Named /\ Works
  BY DEF Controlled
<1>2. /\ t = "loop" /\ req.at = "queued" /\ UNCHANGED <<drv, late, call, stuck, ghost>>
  BY DEF TakeCommand
<1>3. Same(ghost') /\ stuck' \in BOOLEAN
  BY <1>1, <1>2, GhostSame DEF Named
<1>4. CASE /\ req' = [req EXCEPT !.at = "taken"] /\ done' = done
           /\ \/ \E j \in {"tx", "stop"} : Waits(j) /\ link' = link
              \/ t' = "idle" /\ job' = req.kind /\ req.kind \in {"five", "fast"} /\ link' = "none"
  <2>1. req' \in ReqType /\ req'.at = "taken"
    BY <1>1, <1>4 DEF Named, ReqType
  <2>2. /\ \/ t' = "quiet" /\ job' \in {"tx", "stop"}
           \/ t' = "idle" /\ job' \in {"five", "fast"}
        /\ link' \in {link, "none"}
    BY <1>4 DEF Waits
  <2>3. Works'
    BY <2>1, <2>2 DEF Works
  <2>4. QED
    BY <1>2, <1>3, <1>4, <2>1, <2>2, <2>3, MovesControlled
<1>5. CASE Answer /\ link' = IF req.kind = "stop" THEN "none" ELSE link
  <2>1. link' \in {"none", "kwp"}
    BY <1>1, <1>5 DEF Named
  <2>2. QED
    BY <1>2, <1>3, <1>5, <2>1, AnswerControlled
<1>6. QED
  <2>1. CASE req.kind \in {"tx", "managed"} /\ ~stuck
    BY <1>4, <2>1 DEF TakeCommand
  <2>2. CASE req.kind = "stop" /\ link = "kwp" /\ ~stuck
    BY <1>4, <2>2 DEF TakeCommand
  <2>3. CASE req.kind \in {"five", "fast"} /\ ~stuck
    BY <1>4, <2>3 DEF TakeCommand
  <2>4. CASE /\ ~(req.kind \in {"tx", "managed"} /\ ~stuck)
             /\ ~(req.kind = "stop" /\ link = "kwp" /\ ~stuck)
             /\ ~(req.kind \in {"five", "fast"} /\ ~stuck)
    BY <1>5, <2>4 DEF TakeCommand
  <2>5. QED
    BY <2>1, <2>2, <2>3, <2>4

\* A transmission beginning after its quiet time.
LEMMA StartsControlled ==
  ASSUME Controlled, Starts, t \in {"quiet", "idle"}, Same(ghost')
  PROVE  Controlled'
<1>1. Named /\ Works
  BY DEF Controlled
<1>2. /\ t' = "tx" /\ UNCHANGED <<drv, late, call, done, stuck, job, link>>
      /\ req' = IF Managed THEN [req EXCEPT !.control = "active"] ELSE req
  BY DEF Starts
<1>3. req' \in ReqType /\ req'.at = req.at
  BY <1>1, <1>2 DEF Named, ReqType
<1>4. Works' /\ stuck' \in BOOLEAN /\ job' \in {"tx", "five", "fast", "stop", "periodic", "bye"}
  BY <1>1, <1>2, <1>3 DEF Works, Named
<1>5. job' = "bye" => drv.stop
  BY <1>2 DEF Controlled, Lives
<1>6. QED
  BY <1>2, <1>3, <1>4, <1>5, MovesControlled

\* The steps of a transmission, and the one that ends it.
LEMMA SendControlled ==
  ASSUME Controlled,
         \/ Refused \/ Start \/ Stuck \/ WriteFails \/ Sent \/ Corrupted \/ TryAgain
         \/ InitFails \/ InitStarts \/ Replied
  PROVE  Controlled'
<1>1. Named /\ Works /\ DOMAIN ghost = Remembered /\ stuck \in BOOLEAN
  BY DEF Controlled, Named
<1>2. CASE Refused
  <2>1. t = "quiet" /\ Finish(FALSE, ghost) /\ UNCHANGED <<late, call, stuck>>
    BY <1>2 DEF Refused
  <2>2. QED
    BY <1>1, <2>1, GhostSame, FinishControlled
<1>3. CASE Start
  <2>1. t = "quiet" /\ Starts /\ Same(ghost')
    BY <1>1, <1>3, GhostSame DEF Start
  <2>2. QED
    BY <2>1, StartsControlled
<1>4. CASE Stuck
  <2>1. t = "tx" /\ Finish(FALSE, Over) /\ UNCHANGED <<late, call>> /\ stuck' \in BOOLEAN
    BY <1>4 DEF Stuck, Drives, Decided, Ends
  <2>2. Same(Over)
    BY <1>1, GhostSame DEF Over
  <2>3. QED
    BY <2>1, <2>2, FinishControlled
<1>5. CASE WriteFails
  <2>1. t = "tx" /\ Finish(FALSE, Over) /\ UNCHANGED <<late, call>> /\ stuck' \in BOOLEAN
    BY <1>1, <1>5 DEF WriteFails, Drives, Decided, Ends
  <2>2. Same(Over)
    BY <1>1, GhostSame DEF Over
  <2>3. QED
    BY <2>1, <2>2, FinishControlled
<1>6. CASE Sent
  <2> DEFINE g == [ghost EXCEPT !.judged = @ /\ ghost.echo # "damaged", !.echo = "clean"]
  <2>1. t = "tx" /\ Finish(TRUE, g) /\ UNCHANGED <<late, call>> /\ stuck' \in BOOLEAN
    BY <1>1, <1>6 DEF Sent, Decided, Ends
  <2>2. Same(g)
    BY <1>1, GhostSame
  <2> HIDE DEF g
  <2>3. QED
    BY <2>1, <2>2, FinishControlled
<1>7. CASE Corrupted
  <2> DEFINE g == [ghost EXCEPT !.judged = @ /\ ghost.echo # "clean", !.echo = "clean"]
  <2>1. t = "tx" /\ UNCHANGED <<late, call>> /\ stuck' \in BOOLEAN
        /\ \/ /\ t' = "retry" /\ ghost' = g /\ UNCHANGED <<drv, req, done, job, link>>
           \/ Finish(FALSE, g)
    BY <1>1, <1>7 DEF Corrupted, Decided, Ends
  <2>2. Same(g)
    BY <1>1, GhostSame
  <2> HIDE DEF g
  <2>3. CASE t' = "retry" /\ ghost' = g /\ UNCHANGED <<drv, req, done, job, link>>
    <3>1. Works' /\ req' \in ReqType /\ Same(ghost')
          /\ job' \in {"tx", "five", "fast", "stop", "periodic", "bye"}
      BY <1>1, <2>1, <2>2, <2>3 DEF Works, Named, Same
    <3>2. job' = "bye" => drv.stop
      BY <2>3 DEF Controlled, Lives
    <3>3. QED
      BY <2>1, <2>3, <3>1, <3>2, MovesControlled
  <2>4. CASE Finish(FALSE, g)
    BY <2>1, <2>2, <2>4, FinishControlled
  <2>5. QED
    BY <2>1, <2>3, <2>4
<1>8. CASE TryAgain
  <2>1. /\ t = "retry" /\ t' = "quiet"
        /\ UNCHANGED <<drv, late, call, req, done, stuck, job, link, ghost>>
    BY <1>8 DEF TryAgain, handing
  <2>2. Works' /\ req' \in ReqType /\ Same(ghost')
        /\ job' \in {"tx", "five", "fast", "stop", "periodic", "bye"}
    BY <1>1, <2>1, GhostSame DEF Works, Named
  <2>3. job' = "bye" => drv.stop
    BY <2>1 DEF Controlled, Lives
  <2>4. QED
    BY <1>1, <2>1, <2>2, <2>3, MovesControlled
<1>9. CASE InitFails
  <2>1. t = "idle" /\ Answer /\ UNCHANGED <<drv, late, call, stuck, link, ghost>>
    BY <1>9 DEF InitFails
  <2>2. req.at # "none" /\ Same(ghost') /\ link' \in {"none", "kwp"}
    BY <1>1, <2>1, GhostSame DEF Works, Named
  <2>3. QED
    BY <1>1, <2>1, <2>2, AnswerControlled
<1>10. CASE InitStarts
  <2>1. t = "idle" /\ Starts /\ Same(ghost')
    BY <1>1, <1>10, GhostSame DEF InitStarts
  <2>2. QED
    BY <2>1, StartsControlled
<1>11. CASE Replied
  <2>1. t = "reply" /\ Answer /\ UNCHANGED <<drv, late, call, stuck, ghost>>
        /\ link' \in {link, "kwp"}
    BY <1>11 DEF Replied
  <2>2. req.at # "none" /\ Same(ghost') /\ link' \in {"none", "kwp"}
    BY <1>1, <2>1, GhostSame DEF Works, Named
  <2>3. QED
    BY <1>1, <2>1, <2>2, AnswerControlled
<1>12. QED
  BY <1>2, <1>3, <1>4, <1>5, <1>6, <1>7, <1>8, <1>9, <1>10, <1>11

\* What neither the caller nor the task decides.
LEMMA WireControlled ==
  ASSUME Controlled,
         \/ LoopDrain \/ QuietDrain \/ TxEvent \/ Look \/ LookAgain \/ Write \/ LooksOn
         \/ Bus \/ Tick \/ Recv \/ UNCHANGED vars
         \/ \E on \in BOOLEAN : SetPeriodic(on)
  PROVE  Controlled'
<1>1. DOMAIN ghost = Remembered /\ stuck \in BOOLEAN
  BY DEF Controlled, Named
<1>2. CASE LoopDrain \/ QuietDrain
  <2>1. Same(ghost')
    BY <1>1, <1>2, DrainSame DEF LoopDrain, QuietDrain
  <2>2. UNCHANGED <<drv, late, call, req, done, t, job, link, stuck>>
    BY <1>2 DEF LoopDrain, QuietDrain, Stays, handing
  <2>3. QED
    BY <1>1, <2>1, <2>2, ControlStays
<1>3. CASE TxEvent \/ Look \/ LookAgain \/ Write \/ LooksOn
  <2>1. UNCHANGED <<drv, late, call, req, done, t, job, link, stuck, ghost>>
    BY <1>3 DEF TxEvent, Look, LookAgain, Write, LooksOn, Within, handing
  <2>2. QED
    BY <1>1, <2>1, GhostSame, ControlStays
<1>4. CASE Bus
  <2>1. ASSUME NEW bytes, NEW notes, NEW echo, Arrives(bytes, notes, echo)
        PROVE  /\ UNCHANGED <<drv, late, call, req, done, t, job, link, stuck>>
               /\ Same(ghost')
    BY <1>1, <2>1, GhostSame DEF Arrives, handing
  <2>2. \E bytes, notes, echo : Arrives(bytes, notes, echo)
    <3>1. CASE EchoBack
      BY <3>1 DEF EchoBack
    <3>2. CASE LateEcho
      BY <3>2 DEF LateEcho
    <3>3. CASE Spoken
      BY <3>3 DEF Spoken
    <3>4. QED
      BY <1>4, <3>1, <3>2, <3>3 DEF Bus
  <2>3. QED
    BY <1>1, <2>1, <2>2, ControlStays
<1>5. CASE Tick
  <2>1. UNCHANGED <<drv, late, call, req, done, t, job, link, stuck>> /\ Same(ghost')
    BY <1>1, <1>5, GhostSame DEF Tick, handing
  <2>2. QED
    BY <1>1, <2>1, ControlStays
<1>6. CASE Recv \/ UNCHANGED vars \/ \E on \in BOOLEAN : SetPeriodic(on)
  <2>1. UNCHANGED <<drv, late, call, req, done, t, job, link, stuck, ghost>>
    BY <1>6 DEF Recv, SetPeriodic, vars, handing
  <2>2. QED
    BY <1>1, <2>1, GhostSame, ControlStays
<1>7. QED
  BY <1>2, <1>3, <1>4, <1>5, <1>6

\* Every step of the driver keeps the hand-over's part of the invariant.
LEMMA ControlledKept == ASSUME Controlled, [Next]_vars PROVE Controlled'
<1>1. CASE Caller
  <2>1. CASE Open
    BY <2>1, OpenControlled
  <2>2. CASE CloseBegin \/ Joined
    BY <2>2, CloseControlled
  <2>3. CASE Release
    BY <2>3, ReleaseControlled
  <2>4. CASE Answered \/ TimesOut \/ Cancel
    BY <2>4, TakenControlled
  <2>5. CASE SetParam \/ AssumeLink
    BY <2>5, ParamsControlled
  <2>6. CASE Recv \/ \E on \in BOOLEAN : SetPeriodic(on)
    BY <2>6, WireControlled
  <2>7. CASE \E kind \in Commands : Ask(kind)
    BY <2>7, AskControlled
  <2>8. QED
    BY <1>1, <2>1, <2>2, <2>3, <2>4, <2>5, <2>6, <2>7 DEF Caller
<1>2. CASE TaskStep
  BY <1>2, LeaveControlled, PeriodicControlled, TakeControlled, SendControlled,
     WireControlled DEF TaskStep
<1>3. CASE Bus \/ Tick \/ UNCHANGED vars
  BY <1>3, WireControlled
<1>4. QED
  BY <1>1, <1>2, <1>3 DEF Next

-------------------------------------------------------------------------------
(* What is framed, and the bytes of a transmission. *)

\* The task's reading of the UART keeps words words and bytes bytes.
LEMMA DrainTyped ==
  ASSUME Words, ring \in Seq(Bytes), Drain \/ Gap
  PROVE  /\ answered' \in BOOLEAN /\ unseen' \in BOOLEAN
         /\ asm' \in {"", "r1", "e1", "junk"}
         /\ ring' \in Seq(Bytes) /\ pend' = pend
<1>1. /\ answered \in BOOLEAN /\ unseen \in BOOLEAN /\ asm \in {"", "r1", "e1", "junk"}
      /\ <<>> \in Seq(Bytes)
  BY EmptySeq DEF Words
<1>2. CASE Event
  <2>1. (unseen \/ Head(ev) = "ovf") \in BOOLEAN
    OBVIOUS
  <2>2. QED
    BY <1>1, <1>2, <2>1 DEF Event
<1>3. CASE Gap
  BY <1>1, <1>3 DEF Gap, wire
<1>4. CASE ring # <<>> /\ (Discard \/ Skip \/ Gather)
  <2>1. Tail(ring) \in Seq(Bytes)
    BY <1>4, HeadTailProperties
  <2>2. CASE Discard \/ Skip
    BY <1>1, <2>1, <2>2 DEF Discard, Skip
  <2>3. CASE Gather
    <3>1. ring' = Tail(ring) /\ pend' = pend
      BY <2>3 DEF Gather
    <3>2. CASE Pushed(Head(ring)) \in {"answer", "echo"}
      <4>1. /\ asm' = "" /\ answered' = TRUE /\ unseen' \in {unseen, TRUE}
        BY <2>3, <3>2 DEF Gather, Publish
      <4>2. QED
        BY <1>1, <2>1, <3>1, <4>1
    <3>3. CASE Pushed(Head(ring)) \notin {"answer", "echo"}
      <4>1. /\ asm' = Pushed(Head(ring)) /\ UNCHANGED <<unseen, answered>>
        BY <2>3, <3>3 DEF Gather
      <4>2. Pushed(Head(ring)) \in {"r1", "e1", "junk"}
        BY <1>1, <3>3 DEF Pushed
      <4>3. asm' \in {"r1", "e1", "junk"}
        BY <4>1, <4>2
      <4>4. QED
        BY <1>1, <2>1, <3>1, <4>1, <4>3
    <3>4. QED
      BY <3>2, <3>3
  <2>4. QED
    BY <1>4, <2>2, <2>3
<1>5. QED
  BY <1>2, <1>3, <1>4 DEF Drain

\* Every step keeps the types of what is framed.
LEMMA WordsKept == ASSUME KLineInv, [Next]_vars PROVE Words'
<1>1. /\ answered \in BOOLEAN /\ keep \in BOOLEAN /\ unseen \in BOOLEAN
      /\ asm \in {"", "r1", "e1", "junk"} /\ Words /\ ring \in Seq(Bytes)
  BY DEF KLineInv, Words, Wired
<1> USE DEF Words, rx
<1>2. CASE Caller
  BY <1>1, <1>2
     DEF Caller, Open, CloseBegin, Joined, Release, Answered, TimesOut, Cancel, SetParam,
         AssumeLink, Recv, SetPeriodic, Ask
<1>3. CASE LoopDrain \/ QuietDrain
  <2>1. keep' = keep /\ (Drain \/ Gap)
    BY <1>3 DEF LoopDrain, QuietDrain, Stays
  <2>2. QED
    BY <1>1, <2>1, DrainTyped
<1>4. CASE Leave \/ Periodic \/ TakeCommand \/ TryAgain
  BY <1>1, <1>4 DEF Leave, Periodic, TakeCommand, TryAgain
<1>5. CASE Refused
  BY <1>1, <1>5 DEF Refused
<1>6. CASE Start \/ InitStarts
  BY <1>1, <1>6 DEF Start, InitStarts, Starts
<1>7. CASE TxEvent
  <2>1. answered' = answered /\ keep' = keep
    BY <1>7 DEF TxEvent, Within
  <2>2. unseen' \in {unseen, TRUE} /\ asm' \in {asm, ""}
    BY <1>7 DEF TxEvent
  <2>3. QED
    BY <1>1, <2>1, <2>2
<1>8. CASE Look \/ LookAgain \/ Write \/ LooksOn
  BY <1>1, <1>8 DEF Look, LookAgain, Write, LooksOn, Within
<1>9. CASE Stuck \/ WriteFails \/ Sent \/ Corrupted
  <2>1. \E flushed \in BOOLEAN : Ends(flushed)
    BY <1>9 DEF Stuck, WriteFails, Sent, Corrupted
  <2>2. UNCHANGED <<keep, unseen, answered>> /\ asm' \in {asm, ""}
    BY <2>1 DEF Ends
  <2>3. QED
    BY <1>1, <2>2
<1>10. CASE InitFails \/ Replied
  BY <1>1, <1>10 DEF InitFails, Replied
<1>11. CASE Bus
  <2>1. \E bytes, notes, echo : Arrives(bytes, notes, echo)
    BY <1>11 DEF Bus, EchoBack, LateEcho, Spoken
  <2>2. UNCHANGED <<rx, answered, keep, unseen>>
    BY <2>1 DEF Arrives
  <2>3. QED
    BY <1>1, <2>2
<1>12. CASE Tick \/ UNCHANGED vars
  BY <1>1, <1>12 DEF Tick, vars
<1>13. QED
  BY <1>2, <1>3, <1>4, <1>5, <1>6, <1>7, <1>8, <1>9, <1>10, <1>11, <1>12 DEF Next, TaskStep

\* What arrives are bytes.
LEMMA ArrivesTyped ==
  ASSUME Wired, NEW bytes \in Seq(Bytes), NEW notes, NEW echo, Arrives(bytes, notes, echo)
  PROVE  ring' \in Seq(Bytes) /\ tx' = tx /\ pend' = pend
<1>1. ring' = ring \o bytes /\ tx' = tx /\ pend' = pend
  BY DEF Arrives
<1>2. QED
  BY <1>1, ConcatProperties DEF Wired

\* The bytes there are, and the queues of one of them.
LEMMA ByteIs ==
  /\ \A b \in Bytes : <<b>> \in Seq(Bytes)
  /\ <<>> \in Seq(Bytes) /\ <<>> \in Seq(1 .. TxLen)
  /\ \A i \in 1 .. TxLen : Own(i) \in Bytes /\ <<i>> \in Seq(1 .. TxLen)
<1>1. \A b \in Bytes : <<b>> \in Seq(Bytes)
  OBVIOUS
<1>2. \A i \in 1 .. TxLen : Own(i) \in Bytes
  BY DEF Own, Bytes, TxLen
<1>3. \A i \in 1 .. TxLen : <<i>> \in Seq(1 .. TxLen)
  OBVIOUS
<1>4. QED
  BY <1>1, <1>2, <1>3, EmptySeq

\* What the line does: echoes, late echoes and what the ECU says.
LEMMA BusWired == ASSUME Wired, Bus PROVE Wired'
<1>1. /\ tx \in TxType /\ tx.echoed <= tx.sent /\ due \in Seq(1 .. TxLen)
      /\ ring \in Seq(Bytes) /\ pend \in Seq(Bytes)
  BY DEF Wired
<1>2. /\ due' \in Seq(1 .. TxLen)
      /\ \E bytes \in Seq(Bytes) : \E notes, echo : Arrives(bytes, notes, echo)
  <2>1. CASE EchoBack \/ LateEcho
    <3>1. due # <<>> /\ due' = Tail(due)
      BY <2>1 DEF EchoBack, LateEcho
    <3>2. Head(due) \in 1 .. TxLen /\ Tail(due) \in Seq(1 .. TxLen)
      BY <1>1, <3>1, HeadTailProperties
    <3>3. <<Own(Head(due))>> \in Seq(Bytes) /\ <<"x">> \in Seq(Bytes) /\ <<>> \in Seq(Bytes)
      BY <3>2, ByteIs DEF Bytes
    <3>4. \E bytes \in Seq(Bytes) : \E notes, echo : Arrives(bytes, notes, echo)
      BY <2>1, <3>3 DEF EchoBack, LateEcho
    <3>5. QED
      BY <3>1, <3>2, <3>4
  <2>2. CASE Spoken
    <3>1. due' = due
      BY <2>2 DEF Spoken
    <3>2. /\ <<"r1">> \in Seq(Bytes) /\ <<"r2">> \in Seq(Bytes) /\ <<"f2">> \in Seq(Bytes)
          /\ <<"x">> \in Seq(Bytes) /\ <<>> \in Seq(Bytes)
      BY ByteIs DEF Bytes
    <3>3. \E bytes \in {<<"r1">>, <<"r2">>, <<"f2">>, <<"x">>, <<>>} :
            \E notes, echo : Arrives(bytes, notes, echo)
      BY <2>2 DEF Spoken
    <3>4. QED
      BY <1>1, <3>1, <3>2, <3>3
  <2>3. QED
    BY <2>1, <2>2 DEF Bus
<1>3. ring' \in Seq(Bytes) /\ tx' = tx /\ pend' = pend
  BY <1>2, ArrivesTyped
<1>4. QED
  BY <1>1, <1>2, <1>3 DEF Wired

\* A caller touches the wire only by opening and closing the driver.
LEMMA CallerWired == ASSUME Wired, Caller PROVE Wired'
<1>1. /\ tx' \in {tx, NoTx} /\ due' \in {due, <<>>} /\ ring' \in {ring, <<>>}
      /\ pend' \in {pend, <<>>}
  BY DEF Caller, Open, CloseBegin, Joined, Release, Answered, TimesOut, Cancel, SetParam,
         AssumeLink, Recv, SetPeriodic, Ask, sending, wire
<1>2. QED
  BY <1>1, NoTxTyped, ByteIs DEF Wired

\* A transmission that has driven nothing yet.
Again(n) == [NoTx EXCEPT !.tries = n]
Starting(n) == [NoTx EXCEPT !.step = "look", !.tries = n]
\* A transmission as it begins, after n retries.
LEMMA FreshTyped ==
  ASSUME NEW n \in Nat
  PROVE  /\ Again(n) \in TxType /\ Again(n).echoed <= Again(n).sent
         /\ Starting(n) \in TxType /\ Starting(n).echoed <= Starting(n).sent
<1>1. NoTx.sent = 0 /\ NoTx.echoed = 0
  BY DEF NoTx
<1>2. Again(n) \in TxType /\ Again(n).echoed = NoTx.echoed /\ Again(n).sent = NoTx.sent
  BY NoTxTyped DEF Again, TxType
<1>3. /\ Starting(n) \in TxType
      /\ Starting(n).echoed = NoTx.echoed /\ Starting(n).sent = NoTx.sent
  BY NoTxTyped DEF Starting, TxType
<1>4. QED
  BY <1>1, <1>2, <1>3

\* The loops of the task, and what starts a transmission.
LEMMA LoopWired ==
  ASSUME Words, Wired,
         \/ LoopDrain \/ QuietDrain \/ Leave \/ Periodic \/ TakeCommand \/ TryAgain
         \/ Start \/ InitStarts \/ InitFails \/ Replied
  PROVE  Wired'
<1>1. /\ tx \in TxType /\ tx.echoed <= tx.sent /\ due \in Seq(1 .. TxLen)
      /\ ring \in Seq(Bytes) /\ pend \in Seq(Bytes)
  BY DEF Wired
<1>2. CASE LoopDrain \/ QuietDrain
  <2>1. tx' = tx /\ due' = due /\ (Drain \/ Gap)
    BY <1>2 DEF LoopDrain, QuietDrain, Stays, sending
  <2>2. QED
    BY <1>1, <2>1, DrainTyped DEF Wired
<1>3. CASE Leave \/ Periodic \/ TakeCommand \/ TryAgain
  <2>1. tx' \in {tx, NoTx} /\ UNCHANGED <<due, wire>>
    BY <1>3 DEF Leave, Periodic, TakeCommand, TryAgain, Waits, Exit, Answer, sending
  <2>2. QED
    BY <1>1, <2>1, NoTxTyped DEF Wired, wire
<1>4. CASE Start \/ InitStarts
  <2>1. /\ due' = <<>> /\ ring' = <<>> /\ pend' = <<>>
        /\ \E n \in {0, tx.tries} : tx' = Starting(n)
    BY <1>4 DEF Start, InitStarts, Starts, Starting, NoTx
  <2>2. \A n \in Nat : Starting(n) \in TxType /\ Starting(n).echoed <= Starting(n).sent
    BY FreshTyped
  <2>3. tx.tries \in Nat /\ 0 \in Nat
    BY <1>1, TxFields
  <2>4. tx' \in TxType /\ tx'.echoed <= tx'.sent
    BY <2>1, <2>2, <2>3
  <2>5. QED
    BY <2>1, <2>4, ByteIs DEF Wired
<1>5. CASE InitFails \/ Replied
  <2>1. tx' = NoTx /\ due' = due /\ ring' = <<>> /\ pend' = pend
    BY <1>5 DEF InitFails, Replied, Answer
  <2>2. QED
    BY <1>1, <2>1, NoTxTyped, ByteIs DEF Wired
<1>6. QED
  BY <1>2, <1>3, <1>4, <1>5

\* A transmission never counts an echo it did not drive.
LEMMA EventWired == ASSUME Wired, TxEvent PROVE Wired'
<1>1. /\ tx \in TxType /\ tx.echoed <= tx.sent /\ due \in Seq(1 .. TxLen)
      /\ ring \in Seq(Bytes) /\ pend \in Seq(Bytes) /\ due' = due /\ <<>> \in Seq(Bytes)
      /\ tx.sent \in 0 .. 2 /\ tx.echoed \in 0 .. 2 /\ tx.announced \in 0 .. 2
      /\ tx.failed \in BOOLEAN
  BY TxFields, EmptySeq DEF Wired, TxEvent
<1> DEFINE announced == Min({tx.announced + 1, TxLen})
           faulted == [tx EXCEPT !.failed = @ \/ tx.echoed < TxLen]
           counted == [tx EXCEPT !.announced = announced]
<1>2. announced \in 0 .. TxLen
  <2>1. tx.announced + 1 \in Nat /\ TxLen \in Nat
    BY <1>1 DEF TxLen
  <2>2. QED
    BY <2>1, LesserWithin
<1>3. faulted \in TxType /\ faulted.echoed = tx.echoed /\ faulted.sent = tx.sent
  <2>1. (tx.failed \/ tx.echoed < TxLen) \in BOOLEAN
    OBVIOUS
  <2>2. QED
    BY <1>1, <2>1 DEF TxType
<1>4. /\ counted \in TxType /\ counted.echoed = tx.echoed /\ counted.sent = tx.sent
  <2> HIDE DEF announced
  <2>1. QED
    BY <1>1, <1>2 DEF TxType
<1>5. Min({announced, tx.sent}) \in 0 .. TxLen /\ Min({announced, tx.sent}) <= tx.sent
  <2> HIDE DEF announced
  <2>1. announced \in 0 .. 2 /\ TxLen = 2
    BY <1>2 DEF TxLen
  <2>2. announced \in Nat /\ tx.sent \in Nat
    BY <1>1, <2>1
  <2>3. Min({announced, tx.sent}) \in 0 .. announced /\ Min({announced, tx.sent}) \in 0 .. tx.sent
    BY <2>2, LesserWithin
  <2>4. QED
    BY <1>1, <2>1, <2>3
<1>6. \/ Reads(counted, Min({announced, tx.sent}))
      \/ tx' = faulted /\ pend' \in {pend, <<>>} /\ ring' \in {ring, <<>>}
  BY DEF TxEvent
<1> HIDE DEF counted, faulted, announced
<1>7. /\ tx' \in TxType /\ tx'.echoed <= tx'.sent
      /\ ring' \in Seq(Bytes) /\ pend' \in Seq(Bytes)
  <2>1. CASE Reads(counted, Min({announced, tx.sent}))
    BY <1>1, <1>4, <1>5, <2>1, ReadsTyped
  <2>2. CASE tx' = faulted /\ pend' \in {pend, <<>>} /\ ring' \in {ring, <<>>}
    BY <1>1, <1>3, <2>2
  <2>3. QED
    BY <1>6, <2>1, <2>2
<1>8. QED
  BY <1>1, <1>7 DEF Wired

\* A transmission between two bytes: it looks, decides, drives one.
LEMMA LookWired ==
  ASSUME Wired, Look \/ LookAgain \/ Write \/ LooksOn PROVE Wired'
<1>1. /\ tx \in TxType /\ tx.echoed <= tx.sent /\ due \in Seq(1 .. TxLen)
      /\ ring \in Seq(Bytes) /\ pend \in Seq(Bytes) /\ <<>> \in Seq(Bytes)
      /\ tx.sent \in 0 .. 2 /\ tx.echoed \in 0 .. 2
  BY TxFields, EmptySeq DEF Wired
<1>2. \A s \in {"none", "look", "look again", "decide"} :
         LET x == [tx EXCEPT !.step = s]
         IN x \in TxType /\ x.echoed = tx.echoed /\ x.sent = tx.sent
  BY <1>1 DEF TxType
<1>3. CASE Look
  <2>1. /\ \E s \in {"decide", "look again"} : tx' = [tx EXCEPT !.step = s]
        /\ due' = due /\ ring' \in {ring, <<>>} /\ pend' \in {pend, ring}
    BY <1>3 DEF Look
  <2>2. tx' \in TxType /\ tx'.echoed <= tx'.sent
    BY <1>1, <1>2, <2>1
  <2>3. QED
    BY <1>1, <2>1, <2>2 DEF Wired
<1>4. CASE LookAgain
  <2> DEFINE x == [tx EXCEPT !.step = "decide"]
  <2>1. Reads(x, tx.sent) /\ due' = due
    BY <1>4 DEF LookAgain
  <2>2. /\ x \in TxType /\ x.echoed <= x.sent /\ tx.sent \in 0 .. TxLen /\ tx.sent <= x.sent
    <3>1. x \in TxType /\ x.echoed = tx.echoed /\ x.sent = tx.sent
      BY <1>2
    <3> HIDE DEF x
    <3>2. QED
      BY <1>1, <3>1 DEF TxLen
  <2> HIDE DEF x
  <2>3. /\ tx' \in TxType /\ tx'.echoed <= tx'.sent
        /\ ring' \in Seq(Bytes) /\ pend' \in Seq(Bytes)
    BY <1>1, <2>1, <2>2, ReadsTyped
  <2>4. QED
    BY <1>1, <2>1, <2>3 DEF Wired
<1>5. CASE Write
  <2>1. /\ due' = Append(due, tx.sent + 1) /\ tx.sent < TxLen
        /\ tx' = [tx EXCEPT !.sent = @ + 1, !.step = "look"] /\ UNCHANGED <<ring, pend>>
    BY <1>5 DEF Write, Drives, wire
  <2>2. tx.sent + 1 \in 1 .. TxLen /\ tx.sent + 1 \in 0 .. TxLen /\ tx.echoed <= tx.sent + 1
    BY <1>1, <2>1 DEF TxLen
  <2>3. Append(due, tx.sent + 1) \in Seq(1 .. TxLen)
    BY <1>1, <2>2, AppendProperties
  <2>4. tx' \in TxType /\ tx'.echoed = tx.echoed /\ tx'.sent = tx.sent + 1
    BY <1>1, <2>1, <2>2 DEF TxType
  <2>5. QED
    BY <1>1, <2>1, <2>2, <2>3, <2>4 DEF Wired
<1>6. CASE LooksOn
  <2>1. tx' = [tx EXCEPT !.step = "look"] /\ UNCHANGED <<due, ring, pend>>
    BY <1>6 DEF LooksOn, wire
  <2>2. QED
    BY <1>1, <1>2, <2>1 DEF Wired
<1>7. QED
  BY <1>3, <1>4, <1>5, <1>6

\* The ends of a transmission, with the input flushed or not.
LEMMA EndsWired ==
  ASSUME Controlled, Wired, Refused \/ Stuck \/ WriteFails \/ Sent \/ Corrupted
  PROVE  Wired'
<1>1. /\ tx \in TxType /\ tx.echoed <= tx.sent /\ due \in Seq(1 .. TxLen)
      /\ ring \in Seq(Bytes) /\ pend \in Seq(Bytes) /\ <<>> \in Seq(Bytes)
      /\ tx.sent \in 0 .. 2 /\ tx.tries \in Nat
  BY TxFields, EmptySeq DEF Wired
<1>2. tx' \in TxType /\ tx'.echoed <= tx'.sent
  <2>1. ASSUME NEW ok \in BOOLEAN, NEW g, Finish(ok, g)
        PROVE  tx' = NoTx
    BY <2>1 DEF Finish, Answer, Exit
  <2>2. \A n \in Nat : Again(n) \in TxType /\ Again(n).echoed <= Again(n).sent
    BY FreshTyped
  <2>3. \/ \E g : Finish(FALSE, g) \/ Finish(TRUE, g)
        \/ tx' = Again(tx.tries + 1)
    BY DEF Again, Refused, Stuck, WriteFails, Sent, Corrupted
  <2>4. tx.tries + 1 \in Nat
    BY <1>1
  <2>5. QED
    BY <2>1, <2>2, <2>3, <2>4, NoTxTyped
<1>3. due' \in Seq(1 .. TxLen)
  <2>1. CASE Stuck
    <3>1. due' = Append(due, tx.sent + 1) /\ tx.sent + 1 \in 1 .. TxLen
      BY <1>1, <2>1 DEF Stuck, Drives, TxLen
    <3>2. QED
      BY <1>1, <3>1, AppendProperties
  <2>2. CASE Refused \/ WriteFails \/ Sent \/ Corrupted
    BY <1>1, <2>2 DEF Refused, WriteFails, Sent, Corrupted
  <2>3. QED
    BY <2>1, <2>2
<1>4. ring' \in Seq(Bytes) /\ pend' \in Seq(Bytes)
  <2>1. CASE Refused
    BY <1>1, <2>1 DEF Refused, wire
  <2>2. CASE Stuck \/ WriteFails \/ Sent \/ Corrupted
    <3>1. \E flushed \in BOOLEAN : Ends(flushed)
      BY <2>2 DEF Stuck, WriteFails, Sent, Corrupted
    <3>2. ring' \in {<<>>, pend \o ring} /\ pend' = <<>>
      BY <3>1 DEF Ends
    <3>3. pend \o ring \in Seq(Bytes)
      BY <1>1, ConcatProperties
    <3>4. QED
      BY <1>1, <3>2, <3>3
  <2>3. QED
    BY <2>1, <2>2
<1>5. QED
  BY <1>1, <1>2, <1>3, <1>4 DEF Wired

\* Every step keeps the types of the wire and of a transmission.
LEMMA WiredKept == ASSUME KLineInv, [Next]_vars PROVE Wired'
<1>1. Controlled /\ Words /\ Wired
  BY DEF KLineInv
<1>2. CASE TaskStep
  BY <1>1, <1>2, LoopWired, EventWired, LookWired, EndsWired DEF TaskStep
<1>3. CASE Tick \/ UNCHANGED vars
  <2>1. UNCHANGED <<tx, due, ring, pend>>
    BY <1>3 DEF Tick, vars, sending, wire
  <2>2. QED
    BY <1>1, <2>1 DEF Wired
<1>4. QED
  BY <1>1, <1>2, <1>3, CallerWired, BusWired DEF Next

\* The invariant is inductive.
LEMMA StepKLine == ASSUME KLineInv, [Next]_vars PROVE KLineInv'
<1>1. Controlled
  BY DEF KLineInv
<1>2. QED
  BY <1>1, ControlledKept, WordsKept, WiredKept DEF KLineInv

-------------------------------------------------------------------------------
(* The theorems. *)

\* What the task, the caller and the wire are to one another in every state.
THEOREM KLineHolds == Spec => []KLineInv
<1>1. Init => KLineInv
  BY InitKLine
<1>2. KLineInv /\ [Next]_vars => KLineInv'
  BY StepKLine
<1>3. QED
  BY <1>1, <1>2, PTL DEF Spec

\* The invariant says all that HandOver asks.
LEMMA InvHandsOver == KLineInv => HandOver
<1> SUFFICES ASSUME KLineInv PROVE HandOver
  OBVIOUS
<1> USE DEF KLineInv, Controlled
<1>1. drv \in [DOMAIN Down -> BOOLEAN]
  <2>1. DOMAIN Down = {"started", "uart", "task", "stop", "exited"}
    BY DEF Down
  <2>2. drv \in [{"started", "uart", "task", "stop", "exited"} -> BOOLEAN]
    BY DEF Named, DrvType
  <2>3. QED
    BY <2>1, <2>2
<1>2. {late, stuck, done, answered, keep, unseen} \subseteq BOOLEAN
  BY DEF Named, Words
<1>3. tx.echoed <= tx.sent /\ tx.sent <= TxLen
  <2>1. tx \in TxType /\ tx.echoed <= tx.sent
    BY DEF Wired
  <2>2. tx.sent \in 0 .. 2
    BY <2>1, TxFields
  <2>3. QED
    BY <2>1, <2>2 DEF TxLen
<1>4. KLineTypeOK
  BY <1>1, <1>2, <1>3 DEF KLineTypeOK, Named, Words
<1>5. RequestIntact /\ ResultIsOwn /\ HeldWhileUsed /\ SessionIsEnded
  BY DEF RequestIntact, ResultIsOwn, HeldWhileUsed, SessionIsEnded, Owes, Lives, Named
<1>6. QED
  BY <1>4, <1>5 DEF HandOver

\* kline_tx(), kline_ioctl() and kline_close(): a request, its result and the
\* session are never mixed up, and the task never works on what is gone.
THEOREM HandOverTheorem == Spec => []HandOver
BY KLineHolds, InvHandsOver, PTL

-------------------------------------------------------------------------------
(* The wire: what is remembered of it, and the quiet time. *)

\* The properties remember the same of the wire, but for the time since it was
\* last active.
Since(g, v) ==
  /\ DOMAIN g = Remembered /\ g.still = v /\ g.early = ghost.early
  /\ g.strayed = ghost.strayed /\ g.echo = ghost.echo /\ g.judged = ghost.judged
SameWire(g) == Since(g, ghost.still)

\* The measured time since the last activity (last_bus_us) is never more than the
\* real one, once nothing is left to read and nobody has the driver to himself;
\* a byte that is stuck in the UART leaves the task between commands.
Rested ==
  /\ stuck => t \in {"none", "loop"}
  /\ bus \in Nat /\ ghost.still \in Nat /\ bus <= Oldest
  /\ (ring = <<>> \/ t = "tx") /\ ~stuck => bus <= ghost.still
  /\ ghost.early = FALSE

\* No time that is owed is longer than what is measured.
LEMMA OldestIs == Oldest \in Nat \ {0} /\ P2 <= Oldest /\ P3 <= Oldest /\ P2 \in Nat /\ P3 \in Nat
<1>1. P2 \in Nat \ {0} /\ P3 \in Nat \ {0} /\ Idle \in Nat \ {0}
  BY KLineAssumption
<1>2. \E m \in {P2, P3, Idle} : \A y \in {P2, P3, Idle} : m >= y
  <2>1. CASE P2 >= P3 /\ P2 >= Idle
    BY <1>1, <2>1
  <2>2. CASE P3 >= P2 /\ P3 >= Idle
    BY <1>1, <2>2
  <2>3. CASE Idle >= P2 /\ Idle >= P3
    BY <1>1, <2>3
  <2>4. QED
    BY <1>1, <2>1, <2>2, <2>3
<1>3. Oldest \in {P2, P3, Idle} /\ \A y \in {P2, P3, Idle} : Oldest >= y
  BY <1>2 DEF Oldest, Max
<1>4. QED
  BY <1>1, <1>3

\* What a hand-over writes says nothing of the wire.
LEMMA WireSame ==
  ASSUME DOMAIN ghost = Remembered
  PROVE  /\ SameWire(ghost)
         /\ \A v : SameWire([ghost EXCEPT !.torn = v]) /\ SameWire([ghost EXCEPT !.orphan = v])
         /\ \A v, w, u : Since([ghost EXCEPT !.still = v, !.orphan = w, !.lost = u], v)
         /\ \A v, w : Since([ghost EXCEPT !.orphan = w, !.still = v], v)
         /\ \A v : Since([ghost EXCEPT !.still = v], v)
BY DEF Since, SameWire, Remembered

\* The caller leaves the wire alone, but for opening and closing the driver.
LEMMA CallerMoves ==
  ASSUME KLineInv, Caller
  PROVE  /\ t # "tx" /\ t' # "tx"
         /\ \/ UNCHANGED <<t, stuck, bus, ring, asm, due>> /\ SameWire(ghost')
            \/ /\ stuck' = FALSE /\ bus' = 0 /\ ring' = <<>> /\ asm' = "" /\ Since(ghost', 0)
               /\ t' = "none" \/ due' = <<>>
<1>1. DOMAIN ghost = Remembered /\ t # "tx" /\ (call = "releasing" => t = "none")
  BY DEF KLineInv, Controlled, Named, Lives, Caller
<1>2. CASE Open
  <2>1. Since(ghost', 0)
    BY <1>1, <1>2, WireSame DEF Open
  <2>2. QED
    BY <1>1, <1>2, <2>1 DEF Open
<1>3. CASE Release
  <2>1. CASE UNCHANGED <<drv, link, done, req, late, stuck, ring, ev, rx, bus, suppress, answered,
                    unseen, keep, ghost>>
    BY <1>1, <1>3, <2>1, WireSame DEF Release, rx, sending
  <2>2. CASE ghost' = [ghost EXCEPT !.still = 0, !.orphan = FALSE, !.lost = @ \/ link = "kwp"]
             /\ stuck' = FALSE /\ bus' = 0 /\ ring' = <<>> /\ asm' = ""
    <3>1. Since(ghost', 0)
      BY <1>1, <2>2, WireSame
    <3>2. QED
      BY <1>1, <1>3, <2>2, <3>1 DEF Release
  <2>3. QED
    BY <1>3, <2>1, <2>2 DEF Release
<1>4. CASE CloseBegin \/ Joined \/ Answered \/ TimesOut \/ Cancel \/ SetParam \/ AssumeLink
           \/ Recv \/ (\E on \in BOOLEAN : SetPeriodic(on)) \/ (\E kind \in Commands : Ask(kind))
  <2>1. UNCHANGED <<t, stuck, bus, ring, asm, due>>
    BY <1>4 DEF CloseBegin, Joined, Answered, TimesOut, Cancel, SetParam, AssumeLink, Recv,
         SetPeriodic, Ask, rx, sending, wire
  <2>2. ghost' = ghost \/ Torn \/ ghost' = [ghost EXCEPT !.orphan = TRUE]
    BY <1>4 DEF CloseBegin, Joined, Answered, TimesOut, Cancel, SetParam, AssumeLink, Recv,
         SetPeriodic, Ask
  <2>3. SameWire(ghost')
    BY <1>1, <2>2, WireSame DEF Torn
  <2>4. QED
    BY <1>1, <2>1, <2>3
<1>5. QED
  BY <1>2, <1>3, <1>4 DEF Caller

\* rx_drain(), as the measured time sees it: a byte that is read was activity.
LEMMA DrainMoves ==
  ASSUME DOMAIN ghost = Remembered, Drain \/ Gap
  PROVE  /\ ghost'.early = ghost.early /\ ghost'.echo = ghost.echo /\ ghost'.judged = ghost.judged
         /\ \/ ring' = ring /\ bus' = bus /\ ghost'.still = ghost.still
            \/ ring' = <<>> /\ bus' = bus /\ ghost'.still = Oldest
            \/ ring' = <<>> /\ bus' = bus /\ ghost'.still = ghost.still /\ stuck
            \/ bus' = 0 /\ ghost'.still = ghost.still
<1>1. CASE Event
  <2>1. ghost' \in {ghost, [ghost EXCEPT !.still = Oldest]}
    BY <1>1 DEF Event
  <2>2. /\ ghost'.early = ghost.early /\ ghost'.echo = ghost.echo /\ ghost'.judged = ghost.judged
    BY <2>1 DEF Remembered
  <2>3. CASE Head(ev) = "ovf"
    <3>1. ghost'.still = Oldest
      BY <1>1, <2>3 DEF Event, Remembered
    <3>2. QED
      BY <1>1, <2>2, <2>3, <3>1 DEF Event
  <2>4. CASE Head(ev) # "ovf"
    BY <1>1, <2>2, <2>4 DEF Event
  <2>5. QED
    BY <2>3, <2>4
<1>2. CASE Discard \/ Skip \/ Gap
  BY <1>2 DEF Discard, Skip, Gap, wire
<1>3. CASE Gather
  <2>1. bus' = 0
    BY <1>3 DEF Gather
  <2>2. ghost' = ghost \/ \E v : ghost' = [ghost EXCEPT !.strayed = v]
    BY <1>3 DEF Gather, Publish
  <2>3. QED
    BY <2>1, <2>2 DEF Remembered
<1>4. QED
  BY <1>1, <1>2, <1>3 DEF Drain

\* What arrives while nothing is sent restarts the time.
LEMMA SilenceIs ==
  ASSUME DOMAIN ghost = Remembered, NEW bytes, NEW notes, NEW echo, Arrives(bytes, notes, echo)
  PROVE  /\ DOMAIN ghost' = Remembered /\ ghost'.early = ghost.early
         /\ ghost'.strayed = ghost.strayed /\ ghost'.judged = ghost.judged
         /\ ghost'.still = (IF bytes = <<>> \/ t = "tx" THEN ghost.still ELSE 0)
         /\ ghost'.echo = (IF Dropped(notes) THEN "any" ELSE echo)
         /\ UNCHANGED <<t, stuck, bus, asm, tx, pend>> /\ ring' = ring \o bytes
BY DEF Arrives, Remembered, handing, rx

\* A wait leaves what it looked at alone.
LEMMA WaitMoves ==
  ASSUME KLineInv, Rested, Leave \/ Periodic \/ TakeCommand \/ TryAgain \/ Refused
  PROVE  /\ UNCHANGED <<stuck, bus, ring, asm, due, ghost>>
         /\ t # "tx" /\ t' # "tx" /\ (stuck => t' \in {"none", "loop"}) /\ t # "none"
<1>1. CASE Leave
  BY <1>1 DEF Leave, Waits, Exit, rx, sending, wire
<1>2. CASE Periodic
  BY <1>2 DEF Periodic, Waits, Due, Blocked, rx, sending, wire
<1>3. CASE TakeCommand
  BY <1>3 DEF TakeCommand, Waits, Answer, rx, sending, wire
<1>4. CASE TryAgain
  BY <1>4 DEF TryAgain, rx, sending, wire, Rested
<1>5. CASE Refused
  <2>1. job = "tx" /\ t = "quiet" /\ Finish(FALSE, ghost) /\ UNCHANGED <<stuck, bus, wire, rx, due>>
    BY <1>5 DEF Refused, Managed
  <2>2. t' = "loop" /\ ghost' = ghost
    BY <2>1 DEF Finish, Answer
  <2>3. QED
    BY <2>1, <2>2 DEF Rested, rx, wire
<1>6. QED
  BY <1>1, <1>2, <1>3, <1>4, <1>5

\* The start of a transmission flushes what was not framed.
LEMMA StartMoves ==
  ASSUME KLineInv, Rested, Start \/ InitStarts
  PROVE  /\ t' = "tx" /\ stuck' = stuck /\ bus' = 0 /\ due' = <<>> /\ ring' = <<>>
         /\ pend' = <<>> /\ ev' = <<>> /\ asm' = "" /\ t \in {"quiet", "idle"}
         /\ tx'.sent = 0 /\ tx'.echoed = 0 /\ tx'.announced = 0 /\ tx'.failed = FALSE
         /\ ghost'.still = Oldest /\ ghost'.early = FALSE
         /\ ghost'.strayed = ghost.strayed /\ ghost'.echo = ghost.echo
         /\ ghost'.judged = ghost.judged
<1>1. DOMAIN ghost = Remembered /\ tx.tries \in Nat
  BY TxFields DEF KLineInv, Controlled, Named, Wired
<1>2. CASE Start
  <2>1. /\ Starts /\ t = "quiet" /\ ring = <<>> /\ bus >= Owed
        /\ ghost' = [ghost EXCEPT !.early = @ \/ ghost.still \in 1 .. Owed - 1, !.still = Oldest]
        /\ tx' = [NoTx EXCEPT !.step = "look", !.tries = tx.tries]
    BY <1>2 DEF Start, Drained
  <2>2. ~(ghost.still \in 1 .. Owed - 1)
    <3>1. bus <= ghost.still /\ bus \in Nat /\ ghost.still \in Nat
      BY <2>1 DEF Rested
    <3>2. Owed \in Nat
      BY OldestIs DEF Owed
    <3>3. QED
      BY <2>1, <3>1, <3>2
  <2>3. /\ ghost'.early = (ghost.early \/ ghost.still \in 1 .. Owed - 1) /\ ghost'.still = Oldest
        /\ ghost'.strayed = ghost.strayed /\ ghost'.echo = ghost.echo
        /\ ghost'.judged = ghost.judged
    BY <1>1, <2>1 DEF Remembered
  <2>4. ghost'.early = FALSE
    BY <2>2, <2>3 DEF Rested
  <2>5. tx'.sent = 0 /\ tx'.echoed = 0 /\ tx'.announced = 0 /\ tx'.failed = FALSE
    BY <2>1 DEF NoTx
  <2>6. QED
    BY <1>1, <2>1, <2>3, <2>4, <2>5 DEF Starts
<1>3. CASE InitStarts
  <2>1. Starts /\ t = "idle" /\ ghost' = [ghost EXCEPT !.still = Oldest]
    BY <1>3 DEF InitStarts
  <2>2. tx' = [NoTx EXCEPT !.step = "look"]
    BY <1>3 DEF InitStarts
  <2>3. tx'.sent = 0 /\ tx'.echoed = 0 /\ tx'.announced = 0 /\ tx'.failed = FALSE
    BY <2>2 DEF NoTx
  <2>4. /\ ghost'.early = ghost.early /\ ghost'.still = Oldest
        /\ ghost'.strayed = ghost.strayed /\ ghost'.echo = ghost.echo
        /\ ghost'.judged = ghost.judged
    BY <1>1, <2>1 DEF Remembered
  <2>5. QED
    BY <2>1, <2>3, <2>4 DEF Starts, Rested
<1>4. QED
  BY <1>2, <1>3

\* The steps within a transmission.
Inside == TxEvent \/ Look \/ LookAgain \/ Write \/ LooksOn
\* They leave the time alone.
LEMMA InsideMoves ==
  ASSUME Inside
  PROVE  t = "tx" /\ UNCHANGED <<t, stuck, bus, ghost>>
BY DEF Inside, TxEvent, Look, LookAgain, Write, LooksOn, Within, Decided, Drives

\* The ends of one.
TxEnds == Stuck \/ WriteFails \/ Sent \/ Corrupted
\* They leave the time alone too, and judge the echo.
LEMMA EndMoves ==
  ASSUME KLineInv, TxEnds
  PROVE  /\ t = "tx" /\ t' # "tx" /\ bus' = bus
         /\ \/ stuck' = stuck
            \/ Stuck /\ stuck' = TRUE /\ t' \in {"none", "loop"}
         /\ ghost'.still = ghost.still /\ ghost'.early = ghost.early
         /\ ghost'.strayed = ghost.strayed /\ ghost'.echo = "clean"
         /\ ghost'.judged \in {ghost.judged, ghost.judged /\ ghost.echo # "damaged",
                               ghost.judged /\ ghost.echo # "clean"}
<1>1. DOMAIN ghost = Remembered
  BY DEF KLineInv, Controlled, Named
<1>2. ASSUME NEW ok, NEW g, Finish(ok, g)
      PROVE  t' # "tx" /\ ghost' = g /\ (ok = FALSE => t' \in {"none", "loop"})
  BY <1>2 DEF Finish, Answer, Exit
<1>3. /\ t = "tx" /\ bus' = bus
  BY DEF TxEnds, Stuck, WriteFails, Sent, Corrupted, Decided, Drives, Ends
<1>4. CASE Stuck
  <2>1. stuck' = TRUE /\ Finish(FALSE, Over)
    BY <1>4 DEF Stuck
  <2>2. ghost' = [ghost EXCEPT !.echo = "clean"] /\ t' \in {"none", "loop"}
    BY <1>2, <2>1 DEF Over
  <2>3. QED
    BY <1>1, <1>3, <1>4, <2>1, <2>2 DEF Remembered
<1>5. CASE WriteFails
  <2>1. stuck' = stuck /\ Finish(FALSE, Over)
    BY <1>5 DEF WriteFails
  <2>2. ghost' = [ghost EXCEPT !.echo = "clean"] /\ t' # "tx"
    BY <1>2, <2>1 DEF Over
  <2>3. QED
    BY <1>1, <1>3, <2>1, <2>2 DEF Remembered
<1>6. CASE Sent
  <2> DEFINE g == [ghost EXCEPT !.judged = @ /\ ghost.echo # "damaged", !.echo = "clean"]
  <2>1. stuck' = stuck /\ Finish(TRUE, g)
    BY <1>6 DEF Sent
  <2>2. ghost' = g /\ t' # "tx"
    BY <1>2, <2>1
  <2>3. QED
    BY <1>1, <1>3, <2>1, <2>2 DEF Remembered
<1>7. CASE Corrupted
  <2> DEFINE g == [ghost EXCEPT !.judged = @ /\ ghost.echo # "clean", !.echo = "clean"]
  <2>1. stuck' = stuck /\ (Finish(FALSE, g) \/ (t' = "retry" /\ ghost' = g))
    BY <1>7 DEF Corrupted
  <2>2. ghost' = g /\ t' # "tx"
    BY <1>2, <2>1
  <2>3. QED
    BY <1>1, <1>3, <2>1, <2>2 DEF Remembered
<1>8. QED
  BY <1>4, <1>5, <1>6, <1>7 DEF TxEnds

\* Time passes for what is measured as for what is remembered.
LEMMA TickMoves ==
  ASSUME DOMAIN ghost = Remembered, bus \in Nat, ghost.still \in Nat, Tick
  PROVE  /\ bus' \in Nat /\ bus' <= Oldest /\ ghost'.still \in Nat
         /\ (bus <= ghost.still => bus' <= ghost'.still)
         /\ UNCHANGED <<t, stuck, ring, asm, due>> /\ t # "tx"
         /\ ghost'.early = ghost.early /\ ghost'.strayed = ghost.strayed
         /\ ghost'.echo = ghost.echo /\ ghost'.judged = ghost.judged
<1>1. /\ bus' = Older(bus) /\ ghost' = [ghost EXCEPT !.still = Older(@)] /\ t # "tx"
      /\ UNCHANGED <<t, stuck, ring, asm, due>>
  BY DEF Tick, AtWork, sending, wire
<1>2. /\ ghost'.still = Older(ghost.still)
      /\ ghost'.early = ghost.early /\ ghost'.strayed = ghost.strayed
      /\ ghost'.echo = ghost.echo /\ ghost'.judged = ghost.judged
  BY <1>1 DEF Remembered
<1>3. \A n \in Nat : Older(n) = IF n + 1 <= Oldest THEN n + 1 ELSE Oldest
  <2>1. \A n \in Nat : n + 1 \in Int /\ Oldest \in Int
    BY OldestIs
  <2>2. QED
    BY <2>1, LesserIs DEF Older
<1>4. Oldest \in Nat
  BY OldestIs
<1>5. QED
  BY <1>1, <1>2, <1>3, <1>4

\* What the line brings are bytes.
LEMMA BusBytes ==
  ASSUME Wired, Bus
  PROVE  \E bytes \in Seq(Bytes) : \E notes, echo : Arrives(bytes, notes, echo)
<1>1. CASE EchoBack \/ LateEcho
  <2>1. Head(due) \in 1 .. TxLen
    BY <1>1, HeadTailProperties DEF EchoBack, LateEcho, Wired
  <2>2. <<Own(Head(due))>> \in Seq(Bytes) /\ <<"x">> \in Seq(Bytes) /\ <<>> \in Seq(Bytes)
    BY <2>1, ByteIs DEF Bytes
  <2>3. QED
    BY <1>1, <2>2 DEF EchoBack, LateEcho
<1>2. CASE Spoken
  <2>1. /\ <<"r1">> \in Seq(Bytes) /\ <<"r2">> \in Seq(Bytes) /\ <<"f2">> \in Seq(Bytes)
        /\ <<"x">> \in Seq(Bytes) /\ <<>> \in Seq(Bytes)
    BY ByteIs DEF Bytes
  <2>2. \E bytes \in {<<"r1">>, <<"r2">>, <<"f2">>, <<"x">>, <<>>} :
          \E notes, echo : Arrives(bytes, notes, echo)
    BY <1>2 DEF Spoken
  <2>3. QED
    BY <2>1, <2>2
<1>3. QED
  BY <1>1, <1>2 DEF Bus

\* The quiet time is kept by every step.
LEMMA RestedKept == ASSUME KLineInv, Rested, [Next]_vars PROVE Rested'
<1>1. /\ DOMAIN ghost = Remembered /\ Oldest \in Nat
      /\ (stuck => t \in {"none", "loop"}) /\ bus \in Nat /\ ghost.still \in Nat
      /\ bus <= Oldest /\ ((ring = <<>> \/ t = "tx") /\ ~stuck => bus <= ghost.still)
      /\ ghost.early = FALSE /\ stuck \in BOOLEAN
  BY OldestIs DEF KLineInv, Controlled, Named, Rested
<1>2. CASE Caller
  <2>1. CASE UNCHANGED <<t, stuck, bus, ring, asm, due>> /\ SameWire(ghost')
    BY <1>1, <2>1 DEF SameWire, Since, Rested
  <2>2. CASE /\ stuck' = FALSE /\ bus' = 0 /\ ring' = <<>> /\ Since(ghost', 0)
    BY <1>1, <2>2 DEF Since, Rested
  <2>3. QED
    BY <1>2, <2>1, <2>2, CallerMoves
<1>3. CASE LoopDrain \/ QuietDrain
  <2>1. UNCHANGED <<t, stuck>> /\ (Drain \/ Gap) /\ t # "tx"
    BY <1>3 DEF LoopDrain, QuietDrain, Stays
  <2>2. QED
    BY <1>1, <2>1, DrainMoves DEF Rested
<1>4. CASE Leave \/ Periodic \/ TakeCommand \/ TryAgain \/ Refused
  <2>1. /\ UNCHANGED <<stuck, bus, ring, ghost>>
        /\ t # "tx" /\ t' # "tx" /\ (stuck => t' \in {"none", "loop"})
    BY <1>4, WaitMoves
  <2>2. QED
    BY <1>1, <2>1 DEF Rested
<1>5. CASE Start \/ InitStarts
  <2>1. /\ stuck' = FALSE /\ t' = "tx" /\ bus' = 0 /\ ghost'.still = Oldest /\ ghost'.early = FALSE
    BY <1>1, <1>5, StartMoves
  <2>2. QED
    BY <1>1, <2>1 DEF Rested
<1>6. CASE Inside
  BY <1>1, <1>6, InsideMoves DEF Rested
<1>7. CASE TxEnds
  <2>1. /\ t = "tx" /\ t' # "tx" /\ bus' = bus
        /\ stuck' = stuck \/ (stuck' = TRUE /\ t' \in {"none", "loop"})
        /\ ghost'.still = ghost.still /\ ghost'.early = ghost.early
    BY <1>7, EndMoves
  <2>2. QED
    BY <1>1, <2>1 DEF Rested
<1>8. CASE InitFails \/ Replied
  <2>1. t' = "loop" /\ bus' = 0 /\ UNCHANGED <<stuck, ghost>>
    BY <1>8 DEF InitFails, Replied, Answer
  <2>2. QED
    BY <1>1, <2>1 DEF Rested
<1>9. CASE Bus
  <2>1. PICK bytes \in Seq(Bytes) : \E notes, echo : Arrives(bytes, notes, echo)
    BY <1>9, BusBytes DEF KLineInv
  <2>2. /\ ghost'.early = ghost.early
        /\ ghost'.still = (IF bytes = <<>> \/ t = "tx" THEN ghost.still ELSE 0)
        /\ UNCHANGED <<t, stuck, bus>> /\ ring' = ring \o bytes
    BY <1>1, <2>1, SilenceIs
  <2>3. ring' = <<>> /\ t # "tx" => ring = <<>> /\ bytes = <<>>
    <3>1. /\ ring \in Seq(Bytes) /\ Len(ring') = Len(ring) + Len(bytes)
          /\ Len(ring) \in Nat /\ Len(bytes) \in Nat
      BY <2>2, ConcatProperties, LenProperties DEF KLineInv, Wired
    <3>2. ring' = <<>> => Len(ring) = 0 /\ Len(bytes) = 0
      <4>1. ring' = <<>> => Len(ring') = 0
        OBVIOUS
      <4>2. QED
        BY <3>1, <4>1
    <3>3. QED
      BY <3>1, <3>2, EmptySeq
  <2>4. QED
    BY <1>1, <2>2, <2>3 DEF Rested
<1>10. CASE Tick
  BY <1>1, <1>10, TickMoves DEF Rested
<1>11. CASE UNCHANGED vars
  BY <1>1, <1>11 DEF Rested, vars, wire
<1>12. QED
  BY <1>2, <1>3, <1>4, <1>5, <1>6, <1>7, <1>8, <1>9, <1>10, <1>11
  DEF Next, TaskStep, Inside, TxEnds

-------------------------------------------------------------------------------
(* The wire: the echoes of a transmission. *)

Notes == {"data", "err", "ovf"}
\* What the task has of what arrived since it last decided, and how many of the
\* bytes it drove came back.
Heard == pend \o ring
Back == tx.sent - Len(due)

\* Bytes come back in the order in which they were driven; nothing is framed.
Lined ==
  /\ ev \in Seq(Notes) /\ asm = ""
  /\ Len(due) <= tx.sent /\ \A i \in 1 .. Len(due) : due[i] = Back + i
  /\ tx.echoed \in 0 .. TxLen

\* The first byte comes back once.
NoFirst == \A i \in 1 .. Len(Heard) : Heard[i] # "e1"
OneFirst == \A i, j \in 1 .. Len(Heard) : Heard[i] = "e1" /\ Heard[j] = "e1" => i = j
Firsts ==
  /\ OneFirst /\ (Back = 0 \/ tx.echoed > 0 => NoFirst) /\ (Back = 0 => tx.echoed = 0)
\* Nothing comes before it once it is driven, so the second is driven without it
\* only while nothing has been heard at all.
Early ==
  /\ Len(due) = 2 => ev = <<>> /\ Heard = <<>> /\ tx.failed = FALSE
  /\ Back = 0 /\ tx.sent = 1 /\ tx.step \in {"look again", "decide"} => ev = <<>>
  /\ Back = 0 /\ tx.sent = 1 /\ tx.step = "decide" /\ tx.failed = FALSE => Heard = <<>>
Once == Firsts /\ Early

\* Nothing was damaged, lost or spoken between: what is heard begins with the
\* echoes that are not yet counted, and the notes of those that are not yet
\* announced are still to come, before any other.
Clean ==
  /\ tx.failed = FALSE /\ tx.echoed <= Back /\ tx.announced <= tx.echoed
  /\ Back - tx.echoed <= Len(Heard)
  /\ \A i \in 1 .. Back - tx.echoed : Heard[i] = Own(tx.echoed + i)
  /\ Back < TxLen => Len(Heard) = Back - tx.echoed
  /\ Back - tx.announced <= Len(ev)
  /\ \A i \in 1 .. Back - tx.announced : ev[i] = "data"
  /\ Back < TxLen => Len(ev) = Back - tx.announced

\* An echo was damaged or lost: it was noticed, or the wrong byte is where an
\* echo is looked for, or a note of it comes before the last echo is announced.
WrongByte ==
  \E k \in 1 .. Len(Heard) : k <= TxLen - tx.echoed /\ ~SameValue(Heard[k], tx.echoed + k)
WrongNote == \E j \in 1 .. Len(ev) : ev[j] # "data" /\ tx.announced + j <= TxLen
Doomed == tx.failed = TRUE \/ (tx.echoed < TxLen /\ (WrongByte \/ WrongNote))

Sending ==
  /\ Lined /\ Once /\ ghost.echo \in {"clean", "damaged", "any"}
  /\ ghost.echo = "clean" => Clean
  /\ ghost.echo = "damaged" => Doomed

\* Between transmissions no first byte can be framed with a second.
One == asm = "e1" \/ (\E i \in 1 .. Len(ring) : ring[i] = "e1") \/ (\E i \in 1 .. Len(due) : due[i] = 1)
Two == (\E i \in 1 .. Len(ring) : ring[i] = "e2") \/ (\E i \in 1 .. Len(due) : due[i] = 2)
Apart == t \notin {"tx", "none"} /\ stuck = FALSE => ~(One /\ Two)

Echoed ==
  /\ IF t = "tx" THEN Sending ELSE ghost.echo = "clean"
  /\ Apart
  /\ ghost.strayed = FALSE /\ ghost.judged = TRUE

\* What is heard is bytes.
LEMMA HeardTyped ==
  ASSUME Wired
  PROVE  /\ Heard \in Seq(Bytes) /\ Len(Heard) = Len(pend) + Len(ring)
         /\ Len(Heard) \in Nat /\ Len(pend) \in Nat /\ Len(ring) \in Nat /\ Len(due) \in Nat
         /\ pend \in Seq(Bytes) /\ ring \in Seq(Bytes) /\ due \in Seq(1 .. TxLen)
BY ConcatProperties, LenProperties DEF Wired, Heard

\* What follows the first n of a sequence.
LEMMA RestIs ==
  ASSUME NEW s \in Seq(Bytes), NEW n \in 0 .. Len(s)
  PROVE  LET r == SubSeq(s, n + 1, Len(s))
         IN r \in Seq(Bytes) /\ Len(r) = Len(s) - n /\ \A i \in 1 .. Len(r) : r[i] = s[n + i]
<1>1. n + 1 \in 1 .. Len(s) + 1 /\ Len(s) \in (n + 1) - 1 .. Len(s) /\ Len(s) \in Nat
  BY LenProperties
<1> DEFINE r == SubSeq(s, n + 1, Len(s))
<1>2. /\ r \in Seq(Bytes) /\ Len(r) = Len(s) - (n + 1) + 1
      /\ \A i \in 1 .. Len(s) - (n + 1) + 1 : r[i] = s[(n + 1) + i - 1]
  BY <1>1, SubSeqProperties
<1> HIDE DEF r
<1>3. QED
  <2>1. Len(r) = Len(s) - n
    BY <1>1, <1>2
  <2>2. ASSUME NEW i \in 1 .. Len(r) PROVE r[i] = s[n + i]
    <3>1. i \in 1 .. Len(s) - (n + 1) + 1
      BY <1>2
    <3>2. r[i] = s[(n + 1) + i - 1]
      BY <1>2, <3>1
    <3>3. i \in Int /\ n \in Int
      BY <1>1, <3>1
    <3>4. (n + 1) + i - 1 = n + i
      BY <3>3
    <3>5. QED
      BY <3>2, <3>4
  <2>3. QED
    BY <1>2, <2>1, <2>2 DEF r

\* tx_read_echo(): as many echoes as match are counted, up to the limit, and the
\* first that does not fails the transmission.
Counts(x, limit, good) ==
  /\ good \in 0 .. 2 /\ good <= Len(Heard) /\ good <= limit - x.echoed
  /\ \A i \in 1 .. good : SameValue(Heard[i], x.echoed + i)
Fails(x, limit, good) ==
  /\ good < Len(Heard) /\ good < limit - x.echoed
  /\ ~SameValue(Heard[good + 1], x.echoed + good + 1)
Ready(x, limit, good) == good = Len(Heard) \/ good = limit - x.echoed
Reading(x, y, good) ==
  /\ y.echoed = x.echoed + good /\ y.sent = x.sent /\ y.announced = x.announced
  /\ y.step = x.step
\* What tx_read_echo() makes of what was heard.
LEMMA EchoRead ==
  ASSUME NEW x \in TxType, NEW limit \in 0 .. TxLen, x.echoed < limit, x.failed = FALSE, Wired
  PROVE  LET r == ReadEcho(x, Heard, limit)
         IN \E good \in 0 .. 2 :
              /\ Counts(x, limit, good) /\ Reading(x, r.tx, good)
              /\ \/ Fails(x, limit, good) /\ r.tx.failed = TRUE /\ r.used = good + 1
                 \/ Ready(x, limit, good) /\ r.tx.failed = FALSE /\ r.used = good
<1> DEFINE room == Min({limit - x.echoed, Len(Heard)})
           same == {n \in 0 .. room : \A i \in 1 .. n : SameValue(Heard[i], x.echoed + i)}
           good == Max(same)
           bad == good < room
<1>1. /\ x.echoed \in 0 .. 2 /\ Len(Heard) \in Nat /\ limit \in 0 .. 2
  BY TxFields, HeardTyped DEF TxLen
<1>2. /\ room \in 0 .. 2 /\ room <= Len(Heard) /\ room <= limit - x.echoed
      /\ (room = Len(Heard) \/ room = limit - x.echoed)
  <2>1. limit - x.echoed \in Int /\ Len(Heard) \in Int
    BY <1>1
  <2>2. room = IF limit - x.echoed <= Len(Heard) THEN limit - x.echoed ELSE Len(Heard)
    BY <2>1, LesserIs
  <2> DEFINE n == limit - x.echoed
             m == Len(Heard)
  <2>3. n \in 1 .. 2 /\ m \in Nat
    BY <1>1
  <2> HIDE DEF room, n, m
  <2>4. room = IF n <= m THEN n ELSE m
    BY <2>2 DEF n, m
  <2>5. room \in 0 .. 2 /\ room <= m /\ room <= n /\ (room = m \/ room = n)
    BY <2>3, <2>4
  <2>6. QED
    BY <2>5 DEF n, m
<1>3. same \in SUBSET (0 .. room) /\ 0 \in same
  <2> HIDE DEF room
  <2>1. 1 .. 0 = {} /\ 0 \in 0 .. room
    BY <1>2
  <2>2. QED
    BY <2>1
<1>4. good \in same /\ \A n \in same : n <= good
  <2> HIDE DEF room, same
  <2>1. room \in 0 .. TxLen
    BY <1>2 DEF TxLen
  <2>2. QED
    BY <1>3, <2>1, GreatestIs
<1>5. ReadEcho(x, Heard, limit) =
        [tx |-> [x EXCEPT !.echoed = @ + good, !.failed = @ \/ bad],
         used |-> good + (IF bad THEN 1 ELSE 0)]
  BY DEF ReadEcho
<1>6. good \in 0 .. room /\ \A i \in 1 .. good : SameValue(Heard[i], x.echoed + i)
  <2> HIDE DEF room, good
  <2>1. QED
    BY <1>4
<1>7. good < room => ~SameValue(Heard[good + 1], x.echoed + good + 1)
  <2> HIDE DEF room, good
  <2> SUFFICES ASSUME good < room, SameValue(Heard[good + 1], x.echoed + good + 1)
               PROVE  FALSE
    OBVIOUS
  <2>1. good + 1 \in 0 .. room /\ good + 1 > good
    BY <1>2, <1>6
  <2>2. \A i \in 1 .. good + 1 : SameValue(Heard[i], x.echoed + i)
    <3> SUFFICES ASSUME NEW i \in 1 .. good + 1 PROVE SameValue(Heard[i], x.echoed + i)
      OBVIOUS
    <3>1. CASE i = good + 1
      <4>1. x.echoed + i = x.echoed + good + 1
        BY <1>1, <1>2, <1>6, <3>1
      <4>2. QED
        BY <3>1, <4>1
    <3>2. CASE i # good + 1
      <4>1. i \in 1 .. good
        BY <1>2, <1>6, <3>2
      <4>2. QED
        BY <1>6, <4>1
    <3>3. QED
      BY <3>1, <3>2
  <2>3. good + 1 \in same
    BY <2>1, <2>2
  <2> HIDE DEF same
  <2>4. good + 1 <= good /\ good \in Int
    BY <1>2, <1>4, <1>6, <2>3
  <2>5. QED
    BY <2>4
<1> HIDE DEF room, same, good
<1>8. Counts(x, limit, good)
  BY <1>1, <1>2, <1>6 DEF Counts
<1> DEFINE r == ReadEcho(x, Heard, limit)
<1>9. Reading(x, r.tx, good) /\ r.tx.failed = (x.failed \/ bad) /\ r.used = good + (IF bad THEN 1 ELSE 0)
  <2> HIDE DEF bad
  <2>1. r.tx = [x EXCEPT !.echoed = @ + good, !.failed = @ \/ bad]
    BY <1>5
  <2> HIDE DEF r
  <2>2. Reading(x, r.tx, good) /\ r.tx.failed = (x.failed \/ bad)
    BY <2>1 DEF Reading, TxType
  <2>3. QED
    BY <1>5, <2>2 DEF r
<1> HIDE DEF r
<1>10. CASE bad
  <2>1. Fails(x, limit, good)
    BY <1>1, <1>2, <1>6, <1>7, <1>10 DEF Fails
  <2>2. r.tx.failed = TRUE /\ r.used = good + 1
    BY <1>9, <1>10
  <2>3. QED
    BY <1>8, <1>9, <2>1, <2>2 DEF Counts, r
<1>11. CASE ~bad
  <2>1. Ready(x, limit, good)
    BY <1>1, <1>2, <1>6, <1>11 DEF Ready
  <2>2. r.tx.failed = FALSE
    BY <1>9, <1>11
  <2>3. r.used = good + 0 /\ good + 0 = good
    BY <1>2, <1>6, <1>9, <1>11
  <2>4. QED
    BY <1>8, <1>9, <2>1, <2>2, <2>3 DEF Counts, r
<1>12. QED
  BY <1>10, <1>11

\* The first n bytes of what was heard are used up.
Used(n) ==
  /\ n \in 0 .. Len(Heard) /\ Len(Heard') = Len(Heard) - n
  /\ \A i \in 1 .. Len(Heard') : Heard'[i] = Heard[n + i]
ReadsTo(x, limit, good) ==
  /\ Counts(x, limit, good) /\ Reading(x, tx', good)
  /\ \/ Fails(x, limit, good) /\ tx'.failed = TRUE /\ Used(good + 1)
     \/ Ready(x, limit, good) /\ tx'.failed = FALSE /\ Used(good)

\* uart_receive() hands over what is pending first, and then the ring.
LEMMA UsedUp ==
  ASSUME Wired, NEW n \in 0 .. Len(Heard),
         pend' = IF n <= Len(pend) THEN SubSeq(pend, n + 1, Len(pend))
                 ELSE SubSeq(Heard, n + 1, Len(pend) + Len(ring)),
         ring' = IF n <= Len(pend) THEN ring ELSE <<>>
  PROVE  Used(n)
<1>1. /\ Heard \in Seq(Bytes) /\ Len(Heard) = Len(pend) + Len(ring) /\ Heard = pend \o ring
      /\ Len(pend) \in Nat /\ Len(ring) \in Nat /\ pend \in Seq(Bytes) /\ ring \in Seq(Bytes)
      /\ n \in Nat /\ n <= Len(Heard)
  BY HeardTyped DEF Heard
<1>2. \A i \in 1 .. Len(Heard) : Heard[i] = IF i <= Len(pend) THEN pend[i] ELSE ring[i - Len(pend)]
  BY <1>1, ConcatProperties
<1>3. Heard' = pend' \o ring'
  BY DEF Heard
<1>4. CASE n <= Len(pend)
  <2>1. /\ pend' \in Seq(Bytes) /\ Len(pend') = Len(pend) - n
        /\ \A i \in 1 .. Len(pend') : pend'[i] = pend[n + i]
    <3>1. n \in 0 .. Len(pend)
      BY <1>1, <1>4
    <3>2. QED
      BY <1>1, <1>4, <3>1, RestIs
  <2>2. ring' = ring
    BY <1>4
  <2>3. /\ Len(Heard') = Len(pend') + Len(ring)
        /\ \A i \in 1 .. Len(Heard') :
             Heard'[i] = IF i <= Len(pend') THEN pend'[i] ELSE ring[i - Len(pend')]
    BY <1>1, <1>3, <2>1, <2>2, ConcatProperties
  <2>4. Len(Heard') = Len(Heard) - n
    BY <1>1, <2>1, <2>3
  <2>5. ASSUME NEW i \in 1 .. Len(Heard') PROVE Heard'[i] = Heard[n + i]
    <3>1. n + i \in 1 .. Len(Heard) /\ i \in Nat
      BY <1>1, <2>4
    <3>2. CASE i <= Len(pend')
      <4>1. n + i <= Len(pend) /\ i \in 1 .. Len(pend')
        BY <1>1, <2>1, <3>1, <3>2
      <4>2. QED
        BY <1>2, <2>1, <2>3, <3>1, <3>2, <4>1
    <3>3. CASE ~(i <= Len(pend'))
      <4>1. ~(n + i <= Len(pend)) /\ i - Len(pend') = (n + i) - Len(pend)
        <5>1. n \in Nat /\ Len(pend) \in Nat /\ i \in Nat /\ Len(pend') = Len(pend) - n
          BY <1>1, <2>1, <3>1
        <5>2. \A a, l, k \in Nat : ~(k <= l - a) => ~(a + k <= l) /\ k - (l - a) = (a + k) - l
          OBVIOUS
        <5>3. ~(i <= Len(pend) - n)
          BY <3>3, <5>1
        <5>4. ~(n + i <= Len(pend)) /\ i - (Len(pend) - n) = (n + i) - Len(pend)
          BY <5>1, <5>2, <5>3
        <5>5. QED
          BY <5>1, <5>4
      <4>2. QED
        BY <1>2, <2>3, <3>1, <3>3, <4>1
    <3>4. QED
      BY <3>2, <3>3
  <2>6. QED
    BY <2>4, <2>5 DEF Used
<1>5. CASE ~(n <= Len(pend))
  <2>1. /\ pend' \in Seq(Bytes) /\ Len(pend') = Len(Heard) - n
        /\ \A i \in 1 .. Len(pend') : pend'[i] = Heard[n + i]
    <3>1. pend' = SubSeq(Heard, n + 1, Len(Heard))
      BY <1>1, <1>5
    <3>2. Heard \in Seq(Bytes)
      BY <1>1
    <3> DEFINE r == SubSeq(Heard, n + 1, Len(Heard))
    <3>3. r \in Seq(Bytes) /\ Len(r) = Len(Heard) - n /\ \A i \in 1 .. Len(r) : r[i] = Heard[n + i]
      BY <3>2, RestIs
    <3>4. pend' = r
      BY <3>1
    <3> HIDE DEF r
    <3>5. QED
      BY <3>3, <3>4
  <2>2. ring' = <<>> /\ <<>> \in Seq(Bytes) /\ Len(<<>>) = 0
    BY <1>5, EmptySeq
  <2>3. /\ Len(Heard') = Len(pend')
        /\ \A i \in 1 .. Len(Heard') : Heard'[i] = pend'[i]
    <3>1. /\ Len(pend' \o <<>>) = Len(pend') + Len(<<>>) /\ Len(pend') \in Nat
          /\ \A i \in 1 .. Len(pend') + Len(<<>>) :
               (pend' \o <<>>)[i] = IF i <= Len(pend') THEN pend'[i] ELSE <<>>[i - Len(pend')]
      BY <2>1, <2>2, ConcatProperties, LenProperties
    <3>2. Heard' = pend' \o <<>>
      <4>1. ring' = <<>>
        BY <2>2
      <4>2. QED
        BY <1>3, <4>1, Zenon
    <3>5. Len(pend') + Len(<<>>) = Len(pend')
      <4>1. Len(pend') \in Nat /\ Len(<<>>) = 0
        BY <2>2, <3>1
      <4>2. QED
        BY <4>1
    <3>3. \A i \in 1 .. Len(pend') : i <= Len(pend')
      BY <3>1
    <3>4. QED
      BY <3>1, <3>2, <3>3, <3>5
  <2>4. QED
    BY <2>1, <2>3 DEF Used
<1>6. QED
  BY <1>4, <1>5

\* A read of the echoes.
LEMMA ReadsIs ==
  ASSUME NEW x \in TxType, NEW limit \in 0 .. TxLen, x.echoed < limit, x.failed = FALSE, Wired,
         Reads(x, limit)
  PROVE  \E good \in 0 .. 2 : ReadsTo(x, limit, good)
<1> DEFINE r == ReadEcho(x, Heard, limit)
<1>1. PICK good \in 0 .. 2 :
        /\ Counts(x, limit, good) /\ Reading(x, r.tx, good)
        /\ \/ Fails(x, limit, good) /\ r.tx.failed = TRUE /\ r.used = good + 1
           \/ Ready(x, limit, good) /\ r.tx.failed = FALSE /\ r.used = good
  BY EchoRead
<1>2. ~(x.failed \/ limit <= x.echoed)
  <2>1. x.echoed \in 0 .. 2 /\ limit \in 0 .. 2
    BY TxFields DEF TxLen
  <2>2. ~(limit <= x.echoed)
    BY <2>1
  <2>3. QED
    BY <2>2
<1>3. /\ tx' = r.tx
      /\ pend' = IF r.used <= Len(pend) THEN SubSeq(pend, r.used + 1, Len(pend))
                 ELSE SubSeq(Heard, r.used + 1, Len(pend) + Len(ring))
      /\ ring' = IF r.used <= Len(pend) THEN ring ELSE <<>>
  BY <1>2 DEF Reads, Heard
<1> HIDE DEF r
<1>4. r.used \in 0 .. Len(Heard)
  BY <1>1, HeardTyped DEF Counts, Fails
<1>5. Used(r.used)
  BY <1>3, <1>4, UsedUp
<1>6. QED
  BY <1>1, <1>3, <1>5 DEF ReadsTo

\* The counts of a transmission, as numbers.
LEMMA SendTyped ==
  ASSUME Wired, Lined
  PROVE  /\ tx.sent \in 0 .. 2 /\ tx.echoed \in 0 .. 2 /\ tx.announced \in 0 .. 2
         /\ tx.failed \in BOOLEAN /\ Back \in 0 .. 2 /\ Back <= tx.sent
         /\ Len(due) \in 0 .. 2 /\ Len(due) = tx.sent - Back
<1>1. /\ tx.sent \in 0 .. 2 /\ tx.echoed \in 0 .. 2 /\ tx.announced \in 0 .. 2
      /\ tx.failed \in BOOLEAN
  BY TxFields DEF Wired
<1>2. Len(due) \in Nat /\ Len(due) <= tx.sent
  BY HeardTyped DEF Lined
<1>3. Back = tx.sent - Len(due)
  BY DEF Back
<1>4. Len(due) \in 0 .. 2
  <2>1. tx.sent \in 0 .. 2
    BY <1>1
  <2>2. \A s \in 0 .. 2, n \in Nat : n <= s => n \in 0 .. 2
    OBVIOUS
  <2>3. QED
    BY <1>2, <2>1, <2>2
<1>5. Back \in 0 .. 2 /\ Back <= tx.sent /\ Len(due) = tx.sent - Back
  <2>1. \A s \in 0 .. 2, n \in 0 .. 2 : n <= s =>
          s - n \in 0 .. 2 /\ s - n <= s /\ n = s - (s - n)
    OBVIOUS
  <2>2. QED
    BY <1>1, <1>2, <1>3, <1>4, <2>1
<1>6. QED
  BY <1>1, <1>4, <1>5

\* What has arrived during a transmission is heard after the rest.
LEMMA HeardMore ==
  ASSUME Wired, NEW bytes \in Seq(Bytes), pend' = pend, ring' = ring \o bytes
  PROVE  /\ Len(Heard') = Len(Heard) + Len(bytes) /\ Len(bytes) \in Nat
         /\ \A i \in 1 .. Len(Heard) : Heard'[i] = Heard[i]
         /\ \A i \in 1 .. Len(bytes) : Heard'[Len(Heard) + i] = bytes[i]
         /\ \A i \in 1 .. Len(Heard') :
              i \in 1 .. Len(Heard) \/ \E j \in 1 .. Len(bytes) : i = Len(Heard) + j
<1>1. /\ pend \in Seq(Bytes) /\ ring \in Seq(Bytes) /\ Len(pend) \in Nat /\ Len(ring) \in Nat
      /\ Heard \in Seq(Bytes) /\ Len(Heard) = Len(pend) + Len(ring) /\ Len(bytes) \in Nat
  BY HeardTyped, LenProperties
<1>2. /\ ring' \in Seq(Bytes) /\ Len(ring') = Len(ring) + Len(bytes)
      /\ \A i \in 1 .. Len(ring) + Len(bytes) :
           ring'[i] = IF i <= Len(ring) THEN ring[i] ELSE bytes[i - Len(ring)]
  BY <1>1, ConcatProperties
<1>3. /\ Len(Heard) = Len(pend) + Len(ring)
      /\ \A i \in 1 .. Len(pend) + Len(ring) :
           Heard[i] = IF i <= Len(pend) THEN pend[i] ELSE ring[i - Len(pend)]
  BY <1>1, ConcatProperties DEF Heard
<1>4. /\ Len(Heard') = Len(pend) + Len(ring')
      /\ \A i \in 1 .. Len(pend) + Len(ring') :
           Heard'[i] = IF i <= Len(pend) THEN pend[i] ELSE ring'[i - Len(pend)]
  BY <1>1, <1>2, ConcatProperties DEF Heard
<1>5. Len(Heard') = Len(Heard) + Len(bytes)
  BY <1>1, <1>2, <1>3, <1>4
<1>6. ASSUME NEW i \in 1 .. Len(Heard) PROVE Heard'[i] = Heard[i]
  <2>1. i \in 1 .. Len(pend) + Len(ring) /\ i \in 1 .. Len(pend) + Len(ring')
    BY <1>1, <1>2, <1>3
  <2>2. CASE i <= Len(pend)
    BY <1>3, <1>4, <2>1, <2>2
  <2>3. CASE ~(i <= Len(pend))
    <3>1. i - Len(pend) \in 1 .. Len(ring) + Len(bytes) /\ i - Len(pend) <= Len(ring)
      BY <1>1, <1>3, <2>3
    <3>2. ring'[i - Len(pend)] = ring[i - Len(pend)]
      BY <1>2, <3>1
    <3>3. QED
      BY <1>3, <1>4, <2>1, <2>3, <3>2
  <2>4. QED
    BY <2>2, <2>3
<1>7. ASSUME NEW i \in 1 .. Len(bytes) PROVE Heard'[Len(Heard) + i] = bytes[i]
  <2> DEFINE n == Len(Heard) + i
  <2>1. /\ n \in 1 .. Len(pend) + Len(ring') /\ ~(n <= Len(pend))
        /\ n - Len(pend) \in 1 .. Len(ring) + Len(bytes)
        /\ ~(n - Len(pend) <= Len(ring)) /\ (n - Len(pend)) - Len(ring) = i
    BY <1>1, <1>2, <1>3
  <2> HIDE DEF n
  <2>2. Heard'[n] = ring'[n - Len(pend)]
    BY <1>4, <2>1
  <2>3. ring'[n - Len(pend)] = bytes[(n - Len(pend)) - Len(ring)]
    BY <1>2, <2>1
  <2>4. Heard'[n] = bytes[i]
    BY <2>1, <2>2, <2>3
  <2>5. QED
    BY <2>4 DEF n
<1>8. ASSUME NEW i \in 1 .. Len(Heard')
      PROVE  i \in 1 .. Len(Heard) \/ \E j \in 1 .. Len(bytes) : i = Len(Heard) + j
  <2>1. CASE i <= Len(Heard)
    BY <1>1, <2>1
  <2>2. CASE ~(i <= Len(Heard))
    <3>1. i - Len(Heard) \in 1 .. Len(bytes) /\ i = Len(Heard) + (i - Len(Heard))
      BY <1>1, <1>5, <2>2
    <3>2. QED
      BY <3>1
  <2>3. QED
    BY <2>1, <2>2
<1>9. QED
  BY <1>1, <1>5, <1>6, <1>7, <1>8

\* The interrupt's notes come after the rest, unless the queue is full.
LEMMA NotesMore ==
  ASSUME ev \in Seq(Notes), NEW notes \in Seq(Notes), Notified(notes), t = "tx"
  PROVE  /\ ev' \in Seq(Notes)
         /\ ~Dropped(notes) =>
              /\ Len(ev') = Len(ev) + Len(notes)
              /\ \A i \in 1 .. Len(ev) : ev'[i] = ev[i]
              /\ \A i \in 1 .. Len(notes) : ev'[Len(ev) + i] = notes[i]
<1> DEFINE all == ev \o notes
           room == Min({UartEvents, Len(ev) + Len(notes)})
<1>1. Len(ev) \in Nat /\ Len(notes) \in Nat /\ UartEvents \in Nat
  BY LenProperties, KLineAssumption
<1>2. /\ all \in Seq(Notes) /\ Len(all) = Len(ev) + Len(notes)
      /\ \A i \in 1 .. Len(ev) + Len(notes) :
           all[i] = IF i <= Len(ev) THEN ev[i] ELSE notes[i - Len(ev)]
  BY ConcatProperties
<1>3. ev' = SubSeq(all, 1, room)
  BY DEF Notified
<1>4. room \in 0 .. Len(all) /\ (Len(ev) + Len(notes) <= UartEvents => room = Len(all))
  <2>1. Len(ev) + Len(notes) \in Nat
    BY <1>1
  <2>2. room \in 0 .. Len(ev) + Len(notes)
    BY <1>1, <2>1, LesserWithin
  <2>3. room = IF UartEvents <= Len(ev) + Len(notes) THEN UartEvents ELSE Len(ev) + Len(notes)
    BY <1>1, <2>1, LesserIs
  <2>4. Len(all) = Len(ev) + Len(notes)
    BY <1>2
  <2> DEFINE n == Len(ev) + Len(notes)
             l == Len(all)
  <2>5. n \in Nat /\ room \in 0 .. n /\ l = n /\ room = (IF UartEvents <= n THEN UartEvents ELSE n)
    BY <2>1, <2>2, <2>3, <2>4
  <2> HIDE DEF room, all, n, l
  <2>6. room \in 0 .. l /\ (n <= UartEvents => room = l)
    BY <1>1, <2>5
  <2>7. QED
    BY <2>6 DEF n, l
<1> HIDE DEF all, room
<1>5. /\ ev' \in Seq(Notes) /\ Len(ev') = room
      /\ \A i \in 1 .. room : ev'[i] = all[i]
  <2>1. 1 \in 1 .. Len(all) + 1 /\ room \in 1 - 1 .. Len(all) /\ room - 1 + 1 = room
    BY <1>1, <1>2, <1>4
  <2>2. /\ ev' \in Seq(Notes) /\ Len(ev') = room - 1 + 1
        /\ \A i \in 1 .. room - 1 + 1 : ev'[i] = all[1 + i - 1]
    BY <1>2, <1>3, <2>1, SubSeqProperties
  <2>3. \A i \in 1 .. room : 1 + i - 1 = i
    OBVIOUS
  <2>4. QED
    BY <2>1, <2>2, <2>3
<1>6. ASSUME ~Dropped(notes)
      PROVE  /\ Len(ev') = Len(ev) + Len(notes)
             /\ \A i \in 1 .. Len(ev) : ev'[i] = ev[i]
             /\ \A i \in 1 .. Len(notes) : ev'[Len(ev) + i] = notes[i]
  <2>1. room = Len(ev) + Len(notes)
    BY <1>1, <1>2, <1>4, <1>6 DEF Dropped
  <2>2. \A i \in 1 .. Len(ev) : i \in 1 .. Len(ev) + Len(notes) /\ i <= Len(ev)
    BY <1>1
  <2>3. \A i \in 1 .. Len(notes) : /\ Len(ev) + i \in 1 .. Len(ev) + Len(notes)
                                   /\ ~(Len(ev) + i <= Len(ev)) /\ (Len(ev) + i) - Len(ev) = i
    BY <1>1
  <2>4. \A i \in 1 .. Len(ev) + Len(notes) : ev'[i] = IF i <= Len(ev) THEN ev[i] ELSE notes[i - Len(ev)]
    BY <1>2, <1>5, <2>1
  <2>5. \A i \in 1 .. Len(ev) : ev'[i] = ev[i]
    BY <2>2, <2>4
  <2>6. \A i \in 1 .. Len(notes) : ev'[Len(ev) + i] = notes[i]
    BY <2>3, <2>4
  <2>7. QED
    BY <1>5, <2>1, <2>5, <2>6
<1>7. QED
  BY <1>5, <1>6

\* A transmission begins with nothing driven and nothing heard.
LEMMA StartSends ==
  ASSUME KLineInv, Rested, ghost.echo = "clean", Start \/ InitStarts
  PROVE  t' = "tx" /\ Sending'
<1>1. /\ t' = "tx" /\ due' = <<>> /\ ring' = <<>> /\ pend' = <<>> /\ ev' = <<>> /\ asm' = ""
      /\ tx'.sent = 0 /\ tx'.echoed = 0 /\ tx'.announced = 0 /\ tx'.failed = FALSE
      /\ ghost'.echo = "clean"
  BY StartMoves
<1>2. Len(<<>>) = 0 /\ <<>> \in Seq(Notes)
  BY EmptySeq
<1>3. Heard' = <<>> /\ Back' = 0
  <2>1. Heard' = <<>> \o <<>>
    BY <1>1 DEF Heard
  <2>2. <<>> \o <<>> = <<>>
    BY <1>2, ConcatEmptySeq
  <2>3. tx'.sent - Len(due') = 0 - 0
    BY <1>1, <1>2
  <2>4. QED
    BY <2>1, <2>2, <2>3 DEF Back
<1>8. /\ Len(due') = 0 /\ Len(Heard') = 0 /\ Len(ev') = 0
      /\ tx'.sent = 0 /\ tx'.echoed = 0 /\ tx'.announced = 0 /\ Back' = 0
  BY <1>1, <1>2, <1>3
<1>10. ev' \in Seq(Notes) /\ tx'.failed = FALSE /\ asm' = ""
  BY <1>1, <1>2
<1>9. 1 .. 0 = {}
  OBVIOUS
<1>4. Lined'
  <2>1. \A i \in 1 .. Len(due') : due'[i] = Back' + i
    BY <1>8, <1>9
  <2>2. Len(due') <= tx'.sent /\ tx'.echoed \in 0 .. TxLen
    BY <1>8 DEF TxLen
  <2>3. QED
    BY <1>10, <2>1, <2>2 DEF Lined, TxLen
<1>5. Once'
  <2>1. \A i \in 1 .. Len(Heard') : Heard'[i] # "e1"
    BY <1>8, <1>9
  <2>2. \A i, j \in 1 .. Len(Heard') : Heard'[i] = "e1" /\ Heard'[j] = "e1" => i = j
    BY <2>1
  <2>3. tx'.echoed = 0 /\ ~(Len(due') = 2) /\ ~(tx'.sent = 1)
    BY <1>8
  <2>4. QED
    BY <2>1, <2>2, <2>3, Zenon DEF Once, Firsts, Early, OneFirst, NoFirst
<1>6. Clean'
  <2>1. 0 - 0 = 0 /\ Back' - tx'.echoed = 0 /\ Back' - tx'.announced = 0
    BY <1>8
  <2>2. \A i \in 1 .. Back' - tx'.echoed : Heard'[i] = Own(tx'.echoed + i)
    BY <1>9, <2>1
  <2>3. \A i \in 1 .. Back' - tx'.announced : ev'[i] = "data"
    BY <1>9, <2>1
  <2>4. /\ tx'.echoed <= Back' /\ tx'.announced <= tx'.echoed
        /\ Back' - tx'.echoed <= Len(Heard') /\ Len(Heard') = Back' - tx'.echoed
        /\ Back' - tx'.announced <= Len(ev') /\ Len(ev') = Back' - tx'.announced
    BY <1>8
  <2>5. QED
    BY <1>10, <2>2, <2>3, <2>4, Zenon DEF Clean, TxLen
<1>7. QED
  BY <1>1, <1>4, <1>5, <1>6 DEF Sending

\* What was noticed stays noticed as more arrives.
LEMMA DoomGrows ==
  ASSUME Doomed, tx' = tx, Len(Heard) \in Nat, Len(Heard') \in Nat, Len(Heard) <= Len(Heard'),
         \A i \in 1 .. Len(Heard) : Heard'[i] = Heard[i],
         Len(ev) \in Nat, Len(ev') \in Nat, Len(ev) <= Len(ev'),
         \A i \in 1 .. Len(ev) : ev'[i] = ev[i]
  PROVE  Doomed'
<1>1. WrongByte => WrongByte'
  <2> SUFFICES ASSUME NEW k \in 1 .. Len(Heard), k <= TxLen - tx.echoed,
                      ~SameValue(Heard[k], tx.echoed + k)
               PROVE  WrongByte'
    BY DEF WrongByte
  <2>1. k \in 1 .. Len(Heard') /\ Heard'[k] = Heard[k]
    OBVIOUS
  <2>2. ~SameValue(Heard'[k], tx'.echoed + k) /\ k <= TxLen - tx'.echoed
    BY <2>1
  <2>3. QED
    BY <2>1, <2>2 DEF WrongByte, SameValue, Own, TxLen
<1>2. WrongNote => WrongNote'
  <2> SUFFICES ASSUME NEW j \in 1 .. Len(ev), ev[j] # "data", tx.announced + j <= TxLen
               PROVE  WrongNote'
    BY DEF WrongNote
  <2>1. j \in 1 .. Len(ev') /\ ev'[j] # "data"
    OBVIOUS
  <2>2. tx'.announced + j <= TxLen
    OBVIOUS
  <2>3. QED
    BY <2>1, <2>2 DEF WrongNote, TxLen
<1>3. QED
  BY <1>1, <1>2, Zenon DEF Doomed, TxLen

\* What arrives during a transmission.
LEMMA ArriveSends ==
  ASSUME Wired, Sending, t = "tx", DOMAIN ghost = Remembered,
         NEW bytes \in Seq(Bytes), NEW notes \in Seq(Notes), NEW echo, Arrives(bytes, notes, echo)
  PROVE  /\ tx' = tx /\ pend' = pend /\ asm' = "" /\ ev' \in Seq(Notes)
         /\ ring' = ring \o bytes
         /\ ghost'.echo = (IF Dropped(notes) THEN "any" ELSE echo)
         /\ ~Dropped(notes) =>
              /\ Len(ev') = Len(ev) + Len(notes)
              /\ \A i \in 1 .. Len(ev) : ev'[i] = ev[i]
              /\ \A i \in 1 .. Len(notes) : ev'[Len(ev) + i] = notes[i]
              /\ Doomed => Doomed'
<1>1. /\ asm' = asm /\ tx' = tx /\ pend' = pend /\ ring' = ring \o bytes
      /\ ghost'.echo = (IF Dropped(notes) THEN "any" ELSE echo)
  BY SilenceIs
<1>2. asm = "" /\ ev \in Seq(Notes) /\ Notified(notes)
  BY DEF Sending, Lined, Arrives
<1>3. /\ ev' \in Seq(Notes)
      /\ ~Dropped(notes) =>
              /\ Len(ev') = Len(ev) + Len(notes)
              /\ \A i \in 1 .. Len(ev) : ev'[i] = ev[i]
              /\ \A i \in 1 .. Len(notes) : ev'[Len(ev) + i] = notes[i]
  BY <1>2, NotesMore
<1>4. ASSUME ~Dropped(notes), Doomed PROVE Doomed'
  <2>1. /\ Len(Heard') = Len(Heard) + Len(bytes) /\ Len(bytes) \in Nat
        /\ \A i \in 1 .. Len(Heard) : Heard'[i] = Heard[i]
    BY <1>1, HeardMore
  <2>2. Len(Heard) \in Nat /\ Len(ev) \in Nat /\ Len(notes) \in Nat
    BY <1>2, HeardTyped, LenProperties
  <2>3. Len(Heard') \in Nat /\ Len(Heard) <= Len(Heard')
    BY <2>1, <2>2
  <2>4. Len(ev') \in Nat /\ Len(ev) <= Len(ev')
    BY <1>3, <1>4, <2>2
  <2>5. QED
    BY <1>1, <1>3, <1>4, <2>1, <2>2, <2>3, <2>4, DoomGrows
<1>5. QED
  BY <1>1, <1>2, <1>3, <1>4

\* What arrives does not disturb the order, whatever it is, if only a first echo
\* brings the first byte.
LEMMA MoreOnce ==
  ASSUME Wired, OneFirst, NEW bytes \in Seq(Bytes), pend' = pend, ring' = ring \o bytes,
         NoFirst \/ \A i \in 1 .. Len(bytes) : bytes[i] # "e1", Len(bytes) <= 1
  PROVE  /\ OneFirst'
         /\ NoFirst /\ (\A i \in 1 .. Len(bytes) : bytes[i] # "e1") => NoFirst'
<1>1. /\ Len(bytes) \in Nat /\ Len(Heard) \in Nat
      /\ \A i \in 1 .. Len(Heard) : Heard'[i] = Heard[i]
      /\ \A i \in 1 .. Len(bytes) : Heard'[Len(Heard) + i] = bytes[i]
      /\ \A i \in 1 .. Len(Heard') :
           i \in 1 .. Len(Heard) \/ \E j \in 1 .. Len(bytes) : i = Len(Heard) + j
  BY HeardMore, HeardTyped
<1>2. ASSUME NoFirst, \A i \in 1 .. Len(bytes) : bytes[i] # "e1" PROVE NoFirst'
  <2> SUFFICES ASSUME NEW i \in 1 .. Len(Heard') PROVE Heard'[i] # "e1"
    BY DEF NoFirst
  <2>1. CASE i \in 1 .. Len(Heard)
    BY <1>1, <1>2, <2>1 DEF NoFirst
  <2>2. CASE \E j \in 1 .. Len(bytes) : i = Len(Heard) + j
    BY <1>1, <1>2, <2>2
  <2>3. QED
    BY <1>1, <2>1, <2>2
<1>3. OneFirst'
  <2> SUFFICES ASSUME NEW i \in 1 .. Len(Heard'), NEW j \in 1 .. Len(Heard'),
                      Heard'[i] = "e1", Heard'[j] = "e1"
               PROVE  i = j
    BY DEF OneFirst
  <2>1. CASE NoFirst
    <3>1. \A n \in 1 .. Len(Heard) : Heard'[n] # "e1"
      BY <1>1, <2>1 DEF NoFirst
    <3>2. \A n, m \in 1 .. Len(bytes) : n = m
      BY <1>1
    <3>3. PICK n \in 1 .. Len(bytes) : i = Len(Heard) + n
      BY <1>1, <3>1
    <3>4. PICK m \in 1 .. Len(bytes) : j = Len(Heard) + m
      BY <1>1, <3>1
    <3>5. n = m
      BY <3>2
    <3>6. QED
      BY <3>3, <3>4, <3>5
  <2>2. CASE \A n \in 1 .. Len(bytes) : bytes[n] # "e1"
    <3>1. \A n \in 1 .. Len(bytes) : Heard'[Len(Heard) + n] # "e1"
      BY <1>1, <2>2
    <3>2. i \in 1 .. Len(Heard) /\ j \in 1 .. Len(Heard)
      BY <1>1, <3>1
    <3>3. Heard[i] = "e1" /\ Heard[j] = "e1"
      BY <1>1, <3>2
    <3>4. QED
      BY <3>2, <3>3 DEF OneFirst
  <2>3. QED
    BY <2>1, <2>2
<1>4. QED
  BY <1>2, <1>3

\* The echo that is due next is that of the byte after those that came back.
LEMMA NextDue ==
  ASSUME Wired, Lined, due # <<>>, due' = Tail(due), tx' = tx
  PROVE  /\ Back \in 0 .. 1 /\ Back' = Back + 1 /\ Head(due) = Back + 1 /\ Len(due') \in 0 .. 1
         /\ Len(due') <= tx'.sent /\ \A i \in 1 .. Len(due') : due'[i] = Back' + i
<1>1. /\ tx.sent \in 0 .. 2 /\ Back \in 0 .. 2 /\ Back <= tx.sent
      /\ Len(due) \in 0 .. 2 /\ Len(due) = tx.sent - Back
  BY SendTyped
<1>2. Len(due) # 0
  BY HeardTyped, EmptySeq
<1>3. /\ Len(due') = Len(due) - 1
      /\ \A i \in 1 .. Len(due') : due'[i] = due[i + 1]
  BY HeardTyped, HeadTailProperties
<1>4. Head(due) = due[1]
  BY HeardTyped
<1>5. Len(due) \in 1 .. 2 /\ Back \in 0 .. 1 /\ Len(due') \in 0 .. 1
  <2>1. \A n, s, b \in 0 .. 2 : n # 0 /\ n = s - b => n \in 1 .. 2 /\ b \in 0 .. 1 /\ n - 1 \in 0 .. 1
    OBVIOUS
  <2>2. QED
    BY <1>1, <1>2, <1>3, <2>1
<1>6. \A i \in 1 .. Len(due) : due[i] = Back + i
  BY DEF Lined
<1>7. Head(due) = Back + 1
  BY <1>4, <1>5, <1>6
<1>8. Back' = Back + 1
  <2>1. Back' = tx.sent - Len(due')
    BY DEF Back
  <2>2. QED
    BY <1>1, <1>3, <1>5, <2>1
<1>9. ASSUME NEW i \in 1 .. Len(due') PROVE due'[i] = Back' + i
  <2>1. i + 1 \in 1 .. Len(due)
    BY <1>3, <1>5
  <2>2. due'[i] = Back + (i + 1)
    BY <1>3, <1>6, <2>1
  <2>3. QED
    BY <1>5, <1>8, <2>2
<1>10. Len(due') <= tx'.sent
  BY <1>1, <1>3
<1>11. QED
  BY <1>5, <1>7, <1>8, <1>9, <1>10

\* An echo, or what became of it, keeps the order.
LEMMA EchoLined ==
  ASSUME Wired, Sending, t = "tx", DOMAIN ghost = Remembered, due # <<>>, due' = Tail(due),
         NEW bytes \in Seq(Bytes), NEW notes \in Seq(Notes), NEW echo, Arrives(bytes, notes, echo),
         Len(bytes) <= 1, Back # 0 => \A i \in 1 .. Len(bytes) : bytes[i] # "e1"
  PROVE  Lined' /\ Once'
<1>1. Lined /\ Once
  BY DEF Sending
<1>2. /\ tx' = tx /\ pend' = pend /\ asm' = "" /\ ev' \in Seq(Notes) /\ ring' = ring \o bytes
  BY ArriveSends
<1>3. /\ Back \in 0 .. 1 /\ Back' = Back + 1 /\ Head(due) = Back + 1 /\ Len(due') \in 0 .. 1
      /\ Len(due') <= tx'.sent /\ \A i \in 1 .. Len(due') : due'[i] = Back' + i
  BY <1>1, <1>2, NextDue
<1>4. Lined'
  BY <1>1, <1>2, <1>3 DEF Lined, TxLen
<1>5. /\ OneFirst /\ (Back = 0 \/ tx.echoed > 0 => NoFirst) /\ (Back = 0 => tx.echoed = 0)
  BY <1>1 DEF Once, Firsts, Early, OneFirst, NoFirst
<1>6. NoFirst \/ \A i \in 1 .. Len(bytes) : bytes[i] # "e1"
  BY <1>5
<1>7. OneFirst' /\ (NoFirst /\ (\A i \in 1 .. Len(bytes) : bytes[i] # "e1") => NoFirst')
  BY <1>2, <1>5, <1>6, MoreOnce
<1>8. tx'.echoed > 0 => NoFirst'
  <2> SUFFICES ASSUME tx.echoed > 0 PROVE NoFirst'
    BY <1>2
  <2>1. Back # 0
    BY <1>5
  <2>2. QED
    BY <1>5, <1>7, <2>1
<1>9. Back' # 0 /\ Len(due') # 2
  <2>1. Back \in 0 .. 1 /\ Back' = Back + 1 /\ Len(due') \in 0 .. 1
    BY <1>3
  <2>2. \A n \in 0 .. 1 : n + 1 # 0 /\ n # 2
    OBVIOUS
  <2>3. QED
    BY <2>1, <2>2
<1>10. Once'
  BY <1>7, <1>8, <1>9, Zenon DEF Once, Firsts, Early, OneFirst, NoFirst
<1>11. QED
  BY <1>4, <1>10

\* The numbers of a transmission of which nothing was damaged.
LEMMA CleanCounts ==
  ASSUME Wired, Lined, Clean, Back # TxLen
  PROVE  /\ tx.echoed \in 0 .. 1 /\ tx.announced \in 0 .. 1 /\ Back \in 0 .. 1
         /\ tx.echoed <= Back /\ tx.announced <= tx.echoed
         /\ Len(Heard) = Back - tx.echoed /\ Len(ev) = Back - tx.announced
<1>1. tx.echoed \in 0 .. 2 /\ tx.announced \in 0 .. 2 /\ Back \in 0 .. 2
  BY SendTyped
<1>2. tx.echoed <= Back /\ tx.announced <= tx.echoed
  BY DEF Clean
<1>3. Back < TxLen /\ Back \in 0 .. 1
  BY <1>1 DEF TxLen
<1>4. Len(Heard) = Back - tx.echoed /\ Len(ev) = Back - tx.announced
  BY <1>3 DEF Clean
<1>5. \A e, a \in 0 .. 2, b \in 0 .. 1 : e <= b /\ a <= e => e \in 0 .. 1 /\ a \in 0 .. 1
  OBVIOUS
<1>6. tx.echoed \in 0 .. 1 /\ tx.announced \in 0 .. 1
  BY <1>1, <1>2, <1>3, <1>5
<1>7. QED
  BY <1>2, <1>3, <1>4, <1>6

\* A whole echo, and the note of it.
LEMMA CleanEcho ==
  ASSUME Wired, Lined, Clean, Back \in 0 .. 1, Back' = Back + 1, tx' = tx,
         Len(Heard') = Len(Heard) + 1, \A i \in 1 .. Len(Heard) : Heard'[i] = Heard[i],
         Heard'[Len(Heard) + 1] = Own(Back + 1),
         Len(ev') = Len(ev) + 1, \A i \in 1 .. Len(ev) : ev'[i] = ev[i],
         ev'[Len(ev) + 1] = "data"
  PROVE  Clean'
<1>1. /\ tx.echoed \in 0 .. 1 /\ tx.announced \in 0 .. 1 /\ Back \in 0 .. 1
      /\ tx.echoed <= Back /\ tx.announced <= tx.echoed
      /\ Len(Heard) = Back - tx.echoed /\ Len(ev) = Back - tx.announced
  BY CleanCounts DEF TxLen
<1>2. /\ tx'.echoed = tx.echoed /\ tx'.announced = tx.announced /\ tx'.failed = FALSE
  BY DEF Clean
<1>3. /\ Back' - tx.echoed = Len(Heard) + 1 /\ Back' - tx.announced = Len(ev) + 1
      /\ Len(Heard') = Back' - tx.echoed /\ Len(ev') = Back' - tx.announced
      /\ tx.echoed <= Back' /\ tx.echoed + (Len(Heard) + 1) = Back + 1
      /\ Len(Heard) \in 0 .. 1 /\ Len(ev) \in 0 .. 1
  <2> DEFINE h == Len(Heard)
             n == Len(ev)
  <2>1. h = Back - tx.echoed /\ n = Back - tx.announced
    BY <1>1
  <2> HIDE DEF h, n
  <2>2. /\ Back' - tx.echoed = h + 1 /\ Back' - tx.announced = n + 1
        /\ tx.echoed <= Back' /\ tx.echoed + (h + 1) = Back + 1 /\ h \in 0 .. 1 /\ n \in 0 .. 1
    BY <1>1, <2>1
  <2>3. QED
    BY <2>2 DEF h, n
<1>4. ASSUME NEW i \in 1 .. Back' - tx.echoed PROVE Heard'[i] = Own(tx.echoed + i)
  <2>1. CASE i = Len(Heard) + 1
    BY <1>3, <2>1
  <2>2. CASE i # Len(Heard) + 1
    <3>1. i \in 1 .. Len(Heard)
      BY <1>3, <2>2
    <3>2. Heard[i] = Own(tx.echoed + i)
      BY <1>1, <3>1 DEF Clean
    <3>3. QED
      BY <3>1, <3>2
  <2>3. QED
    BY <2>1, <2>2
<1>5. ASSUME NEW i \in 1 .. Back' - tx.announced PROVE ev'[i] = "data"
  <2>1. CASE i # Len(ev) + 1
    <3>1. i \in 1 .. Len(ev)
      BY <1>3, <2>1
    <3>2. ev[i] = "data"
      BY <1>1, <3>1 DEF Clean
    <3>3. QED
      BY <3>1, <3>2
  <2>2. QED
    BY <2>1
<1>6. /\ Back' - tx.echoed <= Len(Heard') /\ Back' - tx.announced <= Len(ev')
  <2>1. Back' - tx.echoed \in Int /\ Back' - tx.announced \in Int
    BY <1>1
  <2>2. QED
    BY <1>3, <2>1
<1>7. QED
  BY <1>1, <1>2, <1>3, <1>4, <1>5, <1>6, Zenon DEF Clean

\* An echo that was damaged or lost is noticed, or will be.
LEMMA DoomedEcho ==
  ASSUME Wired, Lined, Clean, Back \in 0 .. 1, tx' = tx,
         \/ Len(Heard') = Len(Heard) + 1 /\ Heard'[Len(Heard) + 1] = "x"
         \/ Len(ev') = Len(ev) + 1 /\ ev'[Len(ev) + 1] = "ovf"
  PROVE  Doomed'
<1>1. /\ tx.echoed \in 0 .. 1 /\ tx.announced \in 0 .. 1 /\ Back \in 0 .. 1
      /\ tx.echoed <= Back /\ tx.announced <= tx.echoed
      /\ Len(Heard) = Back - tx.echoed /\ Len(ev) = Back - tx.announced
  BY CleanCounts DEF TxLen
<1>2. tx.echoed < TxLen
  BY <1>1 DEF TxLen
<1>3. CASE Len(Heard') = Len(Heard) + 1 /\ Heard'[Len(Heard) + 1] = "x"
  <2> DEFINE k == Back - tx.echoed + 1
  <2>1. k \in 1 .. 2 /\ k <= 2 - tx.echoed /\ tx.echoed + k \in 1 .. 2 /\ k = Len(Heard) + 1
    <3>1. \A b, e \in 0 .. 1 : e <= b =>
            /\ b - e + 1 \in 1 .. 2 /\ b - e + 1 <= 2 - e /\ e + (b - e + 1) \in 1 .. 2
      OBVIOUS
    <3>2. QED
      BY <1>1, <3>1
  <2>2. ~SameValue("x", tx.echoed + k)
    <3>1. tx.echoed + k = 1 \/ tx.echoed + k = 2
      BY <2>1
    <3>2. QED
      BY <3>1 DEF SameValue, Own
  <2>3. Len(Heard') = k /\ Heard'[k] = "x"
    BY <1>3, <2>1
  <2> HIDE DEF k
  <2>4. k \in 1 .. Len(Heard') /\ k <= TxLen - tx'.echoed /\ ~SameValue(Heard'[k], tx'.echoed + k)
    <3>1. k \in 1 .. k
      BY <2>1
    <3>2. k <= TxLen - tx'.echoed
      BY <2>1 DEF TxLen
    <3>3. QED
      BY <2>2, <2>3, <3>1, <3>2
  <2>5. WrongByte'
    BY <2>4 DEF WrongByte, SameValue, Own, TxLen
  <2>6. tx'.echoed < TxLen
    BY <1>2
  <2>7. QED
    BY <2>5, <2>6 DEF Doomed, TxLen
<1>4. CASE Len(ev') = Len(ev) + 1 /\ ev'[Len(ev) + 1] = "ovf"
  <2> DEFINE j == Back - tx.announced + 1
  <2>1. j \in 1 .. 2 /\ tx.announced + j <= 2 /\ j = Len(ev) + 1
    <3>1. \A b, a \in 0 .. 1 : a <= b => b - a + 1 \in 1 .. 2 /\ a + (b - a + 1) <= 2
      OBVIOUS
    <3>2. tx.announced <= Back
      BY <1>1
    <3>3. QED
      BY <1>1, <3>1, <3>2
  <2>2. Len(ev') = j /\ ev'[j] = "ovf"
    BY <1>4, <2>1
  <2> HIDE DEF j
  <2>3. j \in 1 .. j /\ tx'.announced + j <= TxLen
    BY <2>1 DEF TxLen
  <2>4. WrongNote'
    BY <2>2, <2>3 DEF WrongNote, TxLen
  <2>5. tx'.echoed < TxLen
    BY <1>2
  <2>6. QED
    BY <2>4, <2>5 DEF Doomed, TxLen
<1>5. QED
  BY <1>3, <1>4

\* The interrupt's notes.
LEMMA NotesAre ==
  /\ <<"data">> \in Seq(Notes) /\ <<"err", "data">> \in Seq(Notes) /\ <<"data", "err">> \in Seq(Notes)
  /\ <<"ovf">> \in Seq(Notes)
  /\ Len(<<"data">>) = 1 /\ Len(<<"ovf">>) = 1
BY DEF Notes

\* The echo of a byte comes back, as it was, damaged, or not at all.
LEMMA EchoSends ==
  ASSUME Wired, Sending, DOMAIN ghost = Remembered, EchoBack
  PROVE  Sending'
<1>1. t = "tx" /\ due # <<>> /\ due' = Tail(due)
  BY DEF EchoBack
<1>2. /\ Lined /\ ghost.echo \in {"clean", "damaged", "any"}
      /\ (ghost.echo = "clean" => Clean) /\ (ghost.echo = "damaged" => Doomed)
  BY DEF Sending
<1>3. CASE Arrives(<<Own(Head(due))>>, <<"data">>, ghost.echo)
  <2> DEFINE b == <<Own(Head(due))>>
             n == <<"data">>
  <2>1. Head(due) \in 1 .. TxLen
    BY <1>1, HeadTailProperties DEF Wired
  <2>2. b \in Seq(Bytes) /\ Len(b) = 1 /\ b[1] = Own(Head(due))
    BY <2>1, ByteIs
  <2>3. n \in Seq(Notes) /\ Len(n) = 1 /\ n[1] = "data"
    BY NotesAre
  <2> HIDE DEF b, n
  <2>4. Arrives(b, n, ghost.echo)
    BY <1>3 DEF b, n
  <2>5. /\ tx' = tx /\ pend' = pend /\ ring' = ring \o b
        /\ ghost'.echo = (IF Dropped(n) THEN "any" ELSE ghost.echo)
        /\ ~Dropped(n) =>
              /\ Len(ev') = Len(ev) + Len(n)
              /\ \A i \in 1 .. Len(ev) : ev'[i] = ev[i]
              /\ \A i \in 1 .. Len(n) : ev'[Len(ev) + i] = n[i]
              /\ Doomed => Doomed'
    BY <1>1, <2>2, <2>3, <2>4, ArriveSends
  <2>6. Back \in 0 .. 1 /\ Back' = Back + 1 /\ Head(due) = Back + 1
    BY <1>1, <1>2, <2>5, NextDue
  <2>7. Back # 0 => \A i \in 1 .. Len(b) : b[i] # "e1"
    <3>1. Back # 0 => Own(Head(due)) = "e2"
      BY <2>6 DEF Own
    <3>2. QED
      BY <2>2, <3>1
  <2>8. Lined' /\ Once'
    <3>1. Len(b) <= 1
      BY <2>2
    <3>2. QED
      BY <1>1, <2>2, <2>3, <2>4, <2>7, <3>1, EchoLined
  <2>9. ASSUME ghost'.echo = "clean" PROVE Clean'
    <3>1. ~Dropped(n) /\ Clean
      BY <1>2, <2>5, <2>9
    <3>2. 1 \in 1 .. Len(b) /\ 1 \in 1 .. Len(n)
      BY <2>2, <2>3
    <3>3. /\ Len(Heard') = Len(Heard) + 1 /\ \A i \in 1 .. Len(Heard) : Heard'[i] = Heard[i]
          /\ Heard'[Len(Heard) + 1] = Own(Back + 1)
      BY <2>2, <2>5, <2>6, <3>2, HeardMore
    <3>4. /\ Len(ev') = Len(ev) + 1 /\ \A i \in 1 .. Len(ev) : ev'[i] = ev[i]
          /\ ev'[Len(ev) + 1] = "data"
      BY <2>3, <2>5, <3>1, <3>2
    <3>5. QED
      BY <1>2, <2>5, <2>6, <3>1, <3>3, <3>4, CleanEcho
  <2>10. ghost'.echo = "damaged" => Doomed'
    BY <1>2, <2>5
  <2>11. ghost'.echo \in {"clean", "damaged", "any"}
    BY <1>2, <2>5
  <2>12. QED
    BY <2>8, <2>9, <2>10, <2>11 DEF Sending
<1>4. ASSUME NEW b \in Seq(Bytes), NEW n \in Seq(Notes), Arrives(b, n, Worse),
             Len(b) <= 1, \A i \in 1 .. Len(b) : b[i] # "e1",
             (Len(b) = 1 /\ b[1] = "x") \/ (Len(n) = 1 /\ n[1] = "ovf")
      PROVE  Sending'
  <2>1. /\ tx' = tx /\ pend' = pend /\ ring' = ring \o b
        /\ ghost'.echo = (IF Dropped(n) THEN "any" ELSE Worse)
        /\ ~Dropped(n) =>
              /\ Len(ev') = Len(ev) + Len(n)
              /\ \A i \in 1 .. Len(n) : ev'[Len(ev) + i] = n[i]
              /\ Doomed => Doomed'
    <3>1. Arrives(b, n, Worse) /\ t = "tx" /\ b \in Seq(Bytes) /\ n \in Seq(Notes)
      BY <1>1, <1>4
    <3>2. QED
      BY <3>1, ArriveSends
  <2>2. Worse \in {"any", "damaged"}
    BY DEF Worse
  <2>3. Lined' /\ Once'
    BY <1>1, <1>4, EchoLined
  <2>4. Back \in 0 .. 1
    BY <1>1, <1>2, <2>1, NextDue
  <2>5. ASSUME ghost'.echo = "damaged" PROVE Doomed'
    <3>1. ~Dropped(n) /\ Worse = "damaged"
      BY <2>1, <2>5
    <3>2. ghost.echo # "any"
      BY <3>1 DEF Worse
    <3>3. CASE Doomed
      BY <2>1, <3>1, <3>3
    <3>4. CASE Clean
      <4>1. CASE Len(b) = 1 /\ b[1] = "x"
        <5>1. 1 \in 1 .. Len(b)
          BY <4>1
        <5>2. Len(Heard') = Len(Heard) + 1 /\ Heard'[Len(Heard) + 1] = "x"
          BY <2>1, <4>1, <5>1, HeardMore
        <5>3. QED
          BY <1>2, <2>1, <2>4, <3>4, <5>2, DoomedEcho
      <4>2. CASE Len(n) = 1 /\ n[1] = "ovf"
        <5>1. 1 \in 1 .. Len(n)
          BY <4>2
        <5>2. Len(ev') = Len(ev) + 1 /\ ev'[Len(ev) + 1] = "ovf"
          BY <2>1, <3>1, <4>2, <5>1
        <5>3. QED
          BY <1>2, <2>1, <2>4, <3>4, <5>2, DoomedEcho
      <4>3. QED
        BY <1>4, <4>1, <4>2
    <3>5. QED
      BY <1>2, <3>2, <3>3, <3>4
  <2>6. ghost'.echo \in {"damaged", "any"}
    BY <2>1, <2>2
  <2>7. QED
    BY <2>3, <2>5, <2>6 DEF Sending
<1>7. CASE Arrives(<<"x">>, <<"err", "data">>, Worse) \/ Arrives(<<"x">>, <<"data", "err">>, Worse)
  <2> DEFINE b == <<"x">>
  <2>1. b \in Seq(Bytes) /\ Len(b) = 1 /\ b[1] = "x"
    BY ByteIs DEF Bytes
  <2> HIDE DEF b
  <2>2. Len(b) <= 1 /\ \A i \in 1 .. Len(b) : b[i] # "e1"
    BY <2>1
  <2>3. PICK n \in Seq(Notes) : Arrives(b, n, Worse)
    BY <1>7, NotesAre DEF b
  <2>4. QED
    BY <1>4, <2>1, <2>2, <2>3
<1>8. CASE Arrives(<<>>, <<"ovf">>, Worse)
  <2> DEFINE b == <<>>
             n == <<"ovf">>
  <2>1. b \in Seq(Bytes) /\ Len(b) = 0
    BY ByteIs, EmptySeq
  <2>2. n \in Seq(Notes) /\ Len(n) = 1 /\ n[1] = "ovf"
    BY NotesAre
  <2> HIDE DEF b, n
  <2>3. Len(b) <= 1 /\ \A i \in 1 .. Len(b) : b[i] # "e1"
    BY <2>1
  <2>4. Arrives(b, n, Worse)
    BY <1>8 DEF b, n
  <2>5. QED
    BY <1>4, <2>1, <2>2, <2>3, <2>4
<1>9. QED
  BY <1>3, <1>7, <1>8 DEF EchoBack

\* Another node speaks during a transmission.
LEMMA SpokenSends ==
  ASSUME Wired, Sending, DOMAIN ghost = Remembered, Spoken, t = "tx", stuck = FALSE
  PROVE  Sending'
<1>1. /\ Lined /\ Once /\ ghost.echo \in {"clean", "damaged", "any"}
      /\ (ghost.echo = "clean" => Clean) /\ (ghost.echo = "damaged" => Doomed)
  BY DEF Sending
<1>2. due = <<>> /\ due' = due
  BY DEF Spoken
<1>3. /\ Len(due) = 0 /\ Back = tx.sent /\ tx.sent \in 0 .. 2
  <2>1. Len(due) = 0
    BY <1>2, EmptySeq
  <2>2. tx.sent \in 0 .. 2 /\ Len(due) = tx.sent - Back /\ Back \in 0 .. 2
    BY <1>1, SendTyped
  <2>3. QED
    BY <2>1, <2>2
<1> DEFINE spoken == IF tx.sent < TxLen THEN "any" ELSE ghost.echo
<1>4. \E b \in Seq(Bytes), n \in Seq(Notes) :
        /\ Arrives(b, n, spoken) /\ Len(b) <= 1 /\ \A i \in 1 .. Len(b) : b[i] # "e1"
  <2> DEFINE Quietly(b) == b \in Seq(Bytes) /\ Len(b) <= 1 /\ \A i \in 1 .. Len(b) : b[i] # "e1"
  <2>1. Quietly(<<"x">>) /\ Quietly(<<"r1">>) /\ Quietly(<<"f2">>)
    BY ByteIs DEF Bytes
  <2>2. Quietly(<<>>)
    BY ByteIs, EmptySeq
  <2> HIDE DEF spoken
  <2>3. \E b \in {<<"x">>, <<"r1">>, <<"f2">>, <<>>} :
          \E n \in {<<"data">>, <<"data", "err">>, <<"ovf">>} : Arrives(b, n, spoken)
    BY DEF Spoken, spoken
  <2>4. QED
    BY <2>1, <2>2, <2>3, NotesAre
<1> HIDE DEF spoken
<1>5. PICK b \in Seq(Bytes), n \in Seq(Notes) :
        /\ Arrives(b, n, spoken) /\ Len(b) <= 1 /\ \A i \in 1 .. Len(b) : b[i] # "e1"
  BY <1>4
<1>6. /\ tx' = tx /\ pend' = pend /\ asm' = "" /\ ev' \in Seq(Notes) /\ ring' = ring \o b
      /\ ghost'.echo = (IF Dropped(n) THEN "any" ELSE spoken)
      /\ ~Dropped(n) =>
           /\ Len(ev') = Len(ev) + Len(n)
           /\ \A i \in 1 .. Len(ev) : ev'[i] = ev[i]
           /\ Doomed => Doomed'
  BY <1>5, ArriveSends
<1>7. Back' = Back /\ Len(due') = Len(due)
  BY <1>2, <1>6 DEF Back
<1>8. Lined'
  BY <1>1, <1>2, <1>6, <1>7 DEF Lined
<1>9. /\ OneFirst /\ (Back = 0 \/ tx.echoed > 0 => NoFirst) /\ (Back = 0 => tx.echoed = 0)
  BY <1>1 DEF Once, Firsts, Early, OneFirst, NoFirst
<1>10. OneFirst' /\ (NoFirst => NoFirst')
  BY <1>5, <1>6, <1>9, MoreOnce
<1>11. ~(Len(due') = 2) /\ ~(Back' = 0 /\ tx'.sent = 1)
  <2>1. Len(due') = 0 /\ Back' = tx.sent /\ tx'.sent = tx.sent
    BY <1>3, <1>6, <1>7
  <2>2. QED
    BY <2>1
<1>12. Once'
  <2>1. (Back' = 0 \/ tx'.echoed > 0 => NoFirst') /\ (Back' = 0 => tx'.echoed = 0)
    BY <1>6, <1>7, <1>9, <1>10
  <2>2. QED
    BY <1>10, <1>11, <2>1, Zenon DEF Once, Firsts, Early, OneFirst, NoFirst
<1>13. ASSUME ghost'.echo = "clean" PROVE Clean'
  <2>1. ~Dropped(n) /\ spoken = "clean"
    BY <1>6, <1>13
  <2>2. Back = TxLen /\ Clean
    BY <1>1, <1>3, <2>1 DEF spoken, TxLen
  <2>3. /\ Len(Heard') = Len(Heard) + Len(b) /\ Len(b) \in Nat
        /\ \A i \in 1 .. Len(Heard) : Heard'[i] = Heard[i]
    BY <1>6, HeardMore
  <2>4. /\ tx.echoed \in 0 .. 2 /\ tx.announced \in 0 .. 2 /\ Len(Heard) \in Nat
        /\ Len(ev) \in Nat /\ Len(n) \in Nat
    BY <1>1, SendTyped, HeardTyped, LenProperties DEF Lined
  <2>5. /\ Back - tx.echoed <= Len(Heard) /\ Back - tx.announced <= Len(ev)
        /\ tx.echoed <= Back /\ tx.announced <= tx.echoed
    BY <2>2 DEF Clean
  <2>6. /\ tx.failed = FALSE
        /\ \A i \in 1 .. Back - tx.echoed : Heard[i] = Own(tx.echoed + i)
        /\ \A i \in 1 .. Back - tx.announced : ev[i] = "data"
    BY <2>2 DEF Clean
  <2>7. /\ \A i \in 1 .. Back - tx.echoed : i \in 1 .. Len(Heard)
        /\ \A i \in 1 .. Back - tx.announced : i \in 1 .. Len(ev)
    BY <2>2, <2>4, <2>5 DEF TxLen
  <2>8. /\ \A i \in 1 .. Back - tx.echoed : Heard'[i] = Own(tx.echoed + i)
        /\ \A i \in 1 .. Back - tx.announced : ev'[i] = "data"
    BY <1>6, <2>1, <2>3, <2>6, <2>7
  <2>9. Back - tx.echoed <= Len(Heard') /\ Back - tx.announced <= Len(ev')
    <3>1. Len(ev') = Len(ev) + Len(n)
      BY <1>6, <2>1
    <3>2. Back \in Int
      BY <2>2 DEF TxLen
    <3>3. QED
      BY <2>3, <2>4, <2>5, <3>1, <3>2
  <2>10. ~(Back' < TxLen)
    BY <1>7, <2>2 DEF TxLen
  <2>11. QED
    BY <1>6, <1>7, <2>5, <2>6, <2>8, <2>9, <2>10, Zenon DEF Clean
<1>14. ASSUME ghost'.echo = "damaged" PROVE Doomed'
  <2>1. ~Dropped(n) /\ spoken = "damaged"
    BY <1>6, <1>14
  <2>2. QED
    BY <1>1, <1>6, <2>1 DEF spoken
<1>15. ghost'.echo \in {"clean", "damaged", "any"}
  BY <1>1, <1>6 DEF spoken
<1>16. QED
  BY <1>8, <1>12, <1>13, <1>14, <1>15 DEF Sending

\* What is used of what was heard brings no first byte.
LEMMA UsedOnce ==
  ASSUME Wired, NEW n \in Nat, Used(n), OneFirst
  PROVE  /\ OneFirst' /\ (NoFirst => NoFirst')
         /\ n > 0 /\ Heard[1] = "e1" => NoFirst'
<1>1. /\ Len(Heard) \in Nat /\ n \in 0 .. Len(Heard) /\ Len(Heard') = Len(Heard) - n
      /\ \A i \in 1 .. Len(Heard') : Heard'[i] = Heard[n + i]
  BY HeardTyped DEF Used
<1>2. \A i \in 1 .. Len(Heard') : n + i \in 1 .. Len(Heard)
  BY <1>1
<1>3. OneFirst'
  <2> SUFFICES ASSUME NEW i \in 1 .. Len(Heard'), NEW j \in 1 .. Len(Heard'),
                      Heard'[i] = "e1", Heard'[j] = "e1"
               PROVE  i = j
    BY DEF OneFirst
  <2>1. Heard[n + i] = "e1" /\ Heard[n + j] = "e1"
    BY <1>1
  <2>2. n + i = n + j
    BY <1>2, <2>1 DEF OneFirst
  <2>3. i \in Int /\ j \in Int
    BY <1>1
  <2>4. QED
    BY <2>2, <2>3
<1>4. NoFirst => NoFirst'
  <2> SUFFICES ASSUME NoFirst, NEW i \in 1 .. Len(Heard') PROVE Heard'[i] # "e1"
    BY DEF NoFirst
  <2>1. Heard[n + i] # "e1"
    BY <1>2 DEF NoFirst
  <2>2. QED
    BY <1>1, <2>1
<1>5. ASSUME n > 0, Heard[1] = "e1" PROVE NoFirst'
  <2> SUFFICES ASSUME NEW i \in 1 .. Len(Heard'), Heard'[i] = "e1" PROVE FALSE
    BY DEF NoFirst
  <2>1. Heard[n + i] = "e1" /\ n + i \in 1 .. Len(Heard) /\ 1 \in 1 .. Len(Heard) /\ n + i # 1
    <3>1. n + i \in 1 .. Len(Heard) /\ i \in 1 .. Len(Heard')
      BY <1>2
    <3>2. n + i # 1 /\ 1 \in 1 .. Len(Heard)
      BY <1>1, <1>5, <3>1
    <3>3. QED
      BY <1>1, <3>1, <3>2
  <2>2. n + i = 1
    BY <1>5, <2>1 DEF OneFirst
  <2>3. QED
    BY <2>1, <2>2
<1>6. QED
  BY <1>3, <1>4, <1>5

\* A read either looks at nothing, as it need not, or at what was heard.
LEMMA ReadCases ==
  ASSUME NEW x \in TxType, NEW limit \in 0 .. TxLen, Wired, Reads(x, limit)
  PROVE  \/ tx' = x /\ pend' = pend /\ ring' = ring /\ (x.failed = TRUE \/ limit <= x.echoed)
         \/ x.failed = FALSE /\ x.echoed < limit /\ \E good \in 0 .. 2 : ReadsTo(x, limit, good)
<1>1. x.failed \in BOOLEAN
  BY TxFields
<1>2. x.echoed \in 0 .. 2 /\ limit \in 0 .. 2
  BY TxFields DEF TxLen
<1>3. limit <= x.echoed \/ x.echoed < limit
  BY <1>2
<1>4. CASE x.failed = TRUE \/ limit <= x.echoed
  BY <1>4 DEF Reads
<1>5. CASE x.failed = FALSE /\ x.echoed < limit
  BY <1>5, ReadsIs
<1>6. QED
  BY <1>1, <1>3, <1>4, <1>5

\* The order through a read.
LEMMA ReadFirsts ==
  ASSUME Wired, Firsts, tx.echoed \in 0 .. 2, NEW x, x.echoed = tx.echoed, x.sent = tx.sent,
         NEW limit \in 0 .. TxLen, NEW good \in 0 .. 2, ReadsTo(x, limit, good), due' = due
  PROVE  Firsts' /\ Back' = Back /\ (Back = 0 => good = 0)
<1>1. /\ tx'.echoed = tx.echoed + good /\ tx'.sent = tx.sent
      /\ good <= Len(Heard) /\ Len(Heard) \in Nat
      /\ \A i \in 1 .. good : SameValue(Heard[i], tx.echoed + i)
  BY HeardTyped DEF ReadsTo, Reading, Counts
<1>2. Back' = Back
  BY <1>1 DEF Back
<1>3. PICK n \in {good, good + 1} : Used(n)
  BY DEF ReadsTo
<1>4. n \in Nat /\ good \in Nat /\ (good > 0 => n > 0)
  BY <1>3
<1>5. /\ OneFirst' /\ (NoFirst => NoFirst') /\ (n > 0 /\ Heard[1] = "e1" => NoFirst')
  BY <1>3, <1>4, UsedOnce DEF Firsts
<1>6. ASSUME tx.echoed = 0, good > 0 PROVE Heard[1] = "e1" /\ Back # 0
  <2>1. 1 \in 1 .. good /\ 1 \in 1 .. Len(Heard) /\ 0 + 1 = 1
    BY <1>1, <1>4, <1>6
  <2>2. SameValue(Heard[1], 1)
    BY <1>1, <1>6, <2>1
  <2>3. Heard[1] = "e1"
    BY <2>2 DEF SameValue, Own
  <2>4. ~NoFirst
    BY <2>1, <2>3 DEF NoFirst
  <2>5. QED
    BY <2>3, <2>4 DEF Firsts
<1>7. Back = 0 => good = 0
  <2> SUFFICES ASSUME Back = 0, good # 0 PROVE FALSE
    OBVIOUS
  <2>1. tx.echoed = 0 /\ good > 0
    BY <1>4 DEF Firsts
  <2>2. QED
    BY <1>6, <2>1
<1>8. Back' = 0 => tx'.echoed = 0
  <2> SUFFICES ASSUME Back = 0 PROVE tx'.echoed = 0
    BY <1>2
  <2>1. good = 0 /\ tx.echoed = 0
    BY <1>7 DEF Firsts
  <2>2. QED
    BY <1>1, <2>1
<1>9. Back' = 0 \/ tx'.echoed > 0 => NoFirst'
  <2>1. CASE Back = 0 \/ tx.echoed > 0
    BY <1>5, <2>1 DEF Firsts
  <2>2. CASE Back # 0 /\ ~(tx.echoed > 0) /\ tx'.echoed > 0
    <3>1. tx.echoed = 0
      BY <2>2
    <3>2. good > 0
      BY <1>1, <2>2, <3>1
    <3>3. QED
      BY <1>4, <1>5, <1>6, <3>1, <3>2
  <2>3. QED
    BY <1>2, <2>1, <2>2
<1>10. QED
  BY <1>2, <1>5, <1>7, <1>8, <1>9 DEF Firsts

\* A wrong byte that is read fails the transmission; one that is not read yet
\* stays ahead, and an echo is still missing.
LEMMA ReadDooms ==
  ASSUME Wired, WrongByte, tx.echoed \in 0 .. 2, NEW x, x.echoed = tx.echoed,
         NEW limit \in 0 .. TxLen, NEW good \in 0 .. 2, ReadsTo(x, limit, good)
  PROVE  tx'.failed = TRUE \/ (tx'.echoed < TxLen /\ WrongByte')
<1>1. CASE tx'.failed = TRUE
  BY <1>1
<1>2. CASE Ready(x, limit, good) /\ tx'.failed = FALSE /\ Used(good)
  <2>1. /\ tx'.echoed = tx.echoed + good /\ Len(Heard) \in Nat
        /\ \A i \in 1 .. good : SameValue(Heard[i], tx.echoed + i)
    BY HeardTyped DEF ReadsTo, Reading, Counts
  <2>2. PICK k \in 1 .. Len(Heard) : k <= TxLen - tx.echoed /\ ~SameValue(Heard[k], tx.echoed + k)
    BY DEF WrongByte
  <2>3. good < k
    <3>1. k \notin 1 .. good
      BY <2>1, <2>2
    <3>2. QED
      BY <2>1, <2>2, <3>1
  <2>4. /\ Len(Heard') = Len(Heard) - good
        /\ \A i \in 1 .. Len(Heard') : Heard'[i] = Heard[good + i]
    BY <1>2 DEF Used
  <2> DEFINE m == k - good
  <2>5. m \in 1 .. Len(Heard') /\ good + m = k
    BY <2>1, <2>2, <2>3, <2>4
  <2>6. m <= 2 - tx'.echoed /\ tx'.echoed + m = tx.echoed + k /\ tx'.echoed < 2
    <3>1. k \in Nat /\ k <= 2 - tx.echoed
      BY <2>1, <2>2 DEF TxLen
    <3>2. \A e, g \in 0 .. 2, n \in Nat : n <= 2 - e /\ g < n =>
            n - g <= 2 - (e + g) /\ (e + g) + (n - g) = e + n /\ e + g < 2
      OBVIOUS
    <3>3. QED
      BY <2>1, <2>3, <3>1, <3>2
  <2> HIDE DEF m
  <2>7. Heard'[m] = Heard[k]
    BY <2>4, <2>5
  <2>8. ~SameValue(Heard'[m], tx'.echoed + m)
    BY <2>2, <2>6, <2>7
  <2>9. WrongByte'
    BY <2>5, <2>6, <2>8 DEF WrongByte, SameValue, Own, TxLen
  <2>10. QED
    BY <2>6, <2>9 DEF TxLen
<1>3. QED
  BY <1>1, <1>2 DEF ReadsTo

\* A note is taken off the queue.
LEMMA NoteTaken ==
  ASSUME Lined, ev # <<>>, ev' = Tail(ev)
  PROVE  /\ ev' \in Seq(Notes) /\ Len(ev) \in Nat \ {0} /\ Len(ev') = Len(ev) - 1
         /\ Head(ev) = ev[1] /\ \A i \in 1 .. Len(ev') : ev'[i] = ev[i + 1]
<1>1. ev \in Seq(Notes)
  BY DEF Lined
<1>2. Head(ev) = ev[1]
  BY <1>1
<1>3. QED
  BY <1>1, <1>2, HeadTailProperties, EmptySeq

\* Notes come before the second byte is driven without the first echo, or not at all.
LEMMA EarlyKept ==
  ASSUME Early, ev # <<>>, tx.step \in {"look", "look again"}, tx'.step = tx.step,
         tx'.sent = tx.sent, due' = due
  PROVE  Early' /\ Back' = Back
<1>1. Back' = Back /\ Len(due') = Len(due)
  BY DEF Back
<1>2. Len(due) # 2 /\ ~(Back = 0 /\ tx.sent = 1 /\ tx.step = "look again")
  BY DEF Early
<1>3. Len(due') # 2
  BY <1>1, <1>2, Zenon
<1>4. ~(Back' = 0 /\ tx'.sent = 1 /\ tx'.step \in {"look again", "decide"})
  BY <1>1, <1>2
<1>5. QED
  BY <1>1, <1>3, <1>4, Zenon DEF Early

\* The task takes the note of an echo, and reads as many as it knows of.
LEMMA DataSends ==
  ASSUME Wired, Sending, TxEvent, Head(ev) = "data"
  PROVE  Sending'
<1> DEFINE announced == Min({tx.announced + 1, TxLen})
           limit == Min({announced, tx.sent})
           x == [tx EXCEPT !.announced = announced]
<1>1. /\ tx.step \in {"look", "look again"} /\ ev # <<>> /\ ev' = Tail(ev)
      /\ due' = due /\ ghost' = ghost /\ asm' = asm /\ Reads(x, limit)
  BY DEF TxEvent, rx
<1>2. /\ Lined /\ Firsts /\ Early /\ ghost.echo \in {"clean", "damaged", "any"}
      /\ (ghost.echo = "clean" => Clean) /\ (ghost.echo = "damaged" => Doomed)
  BY DEF Sending, Once
<1>3. /\ tx.sent \in 0 .. 2 /\ tx.echoed \in 0 .. 2 /\ tx.announced \in 0 .. 2
      /\ Back \in 0 .. 2 /\ Back <= tx.sent
  BY <1>2, SendTyped
<1>4. tx \in TxType /\ tx.failed \in BOOLEAN
  BY TxFields DEF Wired
<1>5. announced \in 0 .. 2 /\ announced = IF tx.announced + 1 <= 2 THEN tx.announced + 1 ELSE 2
  <2>1. announced = IF tx.announced + 1 <= 2 THEN tx.announced + 1 ELSE 2
    BY <1>3, LesserIs DEF TxLen
  <2> HIDE DEF announced
  <2>2. QED
    BY <1>3, <2>1
<1>6. /\ x \in TxType /\ x.echoed = tx.echoed /\ x.sent = tx.sent /\ x.failed = tx.failed
      /\ x.step = tx.step /\ x.announced = announced
  <2> HIDE DEF announced
  <2>1. QED
    BY <1>4, <1>5 DEF TxType, TxLen
<1> HIDE DEF announced
<1>7. limit \in 0 .. 2 /\ limit = IF announced <= tx.sent THEN announced ELSE tx.sent
  <2>1. limit = IF announced <= tx.sent THEN announced ELSE tx.sent
    BY <1>3, <1>5, LesserIs
  <2> HIDE DEF limit
  <2>2. QED
    BY <1>3, <1>5, <2>1
<1> HIDE DEF x, limit
<1>8. limit \in 0 .. TxLen
  BY <1>7 DEF TxLen
<1> DEFINE Idles == tx' = x /\ pend' = pend /\ ring' = ring /\ (x.failed = TRUE \/ limit <= x.echoed)
           Looks(good) == x.failed = FALSE /\ x.echoed < limit /\ ReadsTo(x, limit, good)
<1>9. Idles \/ \E good \in 0 .. 2 : Looks(good)
  BY <1>1, <1>6, <1>8, ReadCases
<1>10. /\ ev' \in Seq(Notes) /\ Len(ev) \in Nat \ {0} /\ Len(ev') = Len(ev) - 1
       /\ ev[1] = "data" /\ \A i \in 1 .. Len(ev') : ev'[i] = ev[i + 1]
  BY <1>1, <1>2, NoteTaken
<1>11. /\ tx'.sent = tx.sent /\ tx'.step = tx.step /\ tx'.announced = announced
       /\ tx'.echoed \in 0 .. 2 /\ Firsts'
  <2>1. CASE Idles
    <3>1. tx'.echoed = tx.echoed /\ tx'.sent = tx.sent /\ tx'.step = tx.step /\ tx'.announced = announced
      BY <1>6, <2>1
    <3>2. Heard' = Heard /\ Back' = Back
      BY <1>1, <2>1, <3>1 DEF Heard, Back
    <3>3. Firsts'
      BY <1>2, <3>1, <3>2, Zenon DEF Firsts, OneFirst, NoFirst
    <3>4. QED
      BY <1>3, <3>1, <3>3
  <2>2. ASSUME NEW good \in 0 .. 2, Looks(good)
        PROVE  /\ tx'.sent = tx.sent /\ tx'.step = tx.step /\ tx'.announced = announced
               /\ tx'.echoed \in 0 .. 2 /\ Firsts'
    <3>1. /\ tx'.sent = tx.sent /\ tx'.step = tx.step /\ tx'.announced = announced
          /\ tx'.echoed = tx.echoed + good /\ good <= limit - tx.echoed
      BY <1>6, <2>2 DEF ReadsTo, Reading, Counts
    <3>2. tx'.echoed \in 0 .. 2
      BY <1>3, <1>7, <3>1
    <3>3. Firsts'
      BY <1>1, <1>2, <1>3, <1>6, <1>8, <2>2, ReadFirsts
    <3>4. QED
      BY <3>1, <3>2, <3>3
  <2>3. QED
    BY <1>9, <2>1, <2>2
<1>12. Early' /\ Back' = Back
  BY <1>1, <1>2, <1>11, EarlyKept
<1>13. Once'
  BY <1>11, <1>12, Zenon DEF Once
<1>14. Lined'
  <2>1. asm' = ""
    BY <1>1, <1>2 DEF Lined
  <2>2. /\ Len(due') <= tx'.sent /\ \A i \in 1 .. Len(due') : due'[i] = Back' + i
    BY <1>1, <1>2, <1>11, <1>12 DEF Lined
  <2>3. tx'.echoed \in 0 .. TxLen
    BY <1>11 DEF TxLen
  <2>4. QED
    BY <1>10, <2>1, <2>2, <2>3 DEF Lined
<1>15. ASSUME Clean PROVE Clean'
  <2>1. /\ tx.failed = FALSE /\ tx.echoed <= Back /\ tx.announced <= tx.echoed
        /\ Back - tx.echoed <= Len(Heard) /\ Back - tx.announced <= Len(ev)
        /\ \A i \in 1 .. Back - tx.echoed : Heard[i] = Own(tx.echoed + i)
        /\ \A i \in 1 .. Back - tx.announced : ev[i] = "data"
        /\ (Back < 2 => Len(Heard) = Back - tx.echoed /\ Len(ev) = Back - tx.announced)
    BY <1>15 DEF Clean, TxLen
  <2>2. Len(Heard) \in Nat
    BY HeardTyped
  <2>3. CASE tx.announced < Back
    <3>1. announced = tx.announced + 1 /\ announced <= Back /\ limit = announced
      <4>1. announced = tx.announced + 1
        BY <1>3, <1>5, <2>3
      <4>2. QED
        BY <1>3, <1>7, <2>3, <4>1
    <3>2. /\ Back - announced <= Len(ev')
          /\ (Back < 2 => Len(ev') = Back - announced)
      <4>1. Back - announced = (Back - tx.announced) - 1
        BY <1>3, <3>1
      <4>2. Back - tx.announced \in Int /\ Len(ev) \in Int
        BY <1>3, <1>10
      <4>3. QED
        BY <1>10, <2>1, <4>1, <4>2
    <3>3. ASSUME NEW i \in 1 .. Back - announced PROVE ev'[i] = "data"
      <4>1. i \in 1 .. Len(ev')
        BY <1>3, <1>5, <1>10, <3>2
      <4>2. i + 1 \in 1 .. Back - tx.announced
        BY <1>3, <3>1
      <4>3. QED
        BY <1>10, <2>1, <4>1, <4>2
    <3>4. CASE Idles
      <4>1. limit <= tx.echoed
        BY <1>6, <2>1, <3>4
      <4>2. tx'.echoed = tx.echoed /\ tx'.failed = FALSE /\ Heard' = Heard
        BY <1>6, <2>1, <3>4 DEF Heard
      <4>3. QED
        BY <1>11, <1>12, <2>1, <3>1, <3>2, <3>3, <4>1, <4>2, Zenon DEF Clean, TxLen
    <3>5. ASSUME NEW good \in 0 .. 2, Looks(good) PROVE Clean'
      <4>1. tx.echoed = tx.announced /\ limit - tx.echoed = 1 /\ Back - tx.echoed \in 1 .. 2
        <5>1. tx.echoed < tx.announced + 1
          BY <1>6, <3>1, <3>5
        <5>2. tx.echoed = tx.announced
          <6>1. tx.announced <= tx.echoed
            BY <2>1
          <6>2. QED
            BY <1>3, <5>1, <6>1
        <5>3. QED
          BY <1>3, <2>3, <3>1, <5>2
      <4>2. /\ Counts(x, limit, good) /\ tx'.echoed = tx.echoed + good
            /\ \/ Fails(x, limit, good) /\ tx'.failed = TRUE /\ Used(good + 1)
               \/ Ready(x, limit, good) /\ tx'.failed = FALSE /\ Used(good)
        BY <1>6, <3>5 DEF ReadsTo, Reading
      <4>3. Len(Heard) \in Nat \ {0} /\ Heard[1] = Own(tx.echoed + 1)
        BY <2>1, <2>2, <4>1
      <4>4. good \in 0 .. 1
        BY <1>6, <4>1, <4>2 DEF Counts
      <4>5. good = 0 => SameValue(Heard[good + 1], x.echoed + good + 1)
        <5>1. good = 0 => good + 1 = 1 /\ x.echoed + good + 1 = tx.echoed + 1
          BY <1>3, <1>6
        <5>2. SameValue(Heard[1], tx.echoed + 1)
          BY <4>3 DEF SameValue
        <5>3. QED
          BY <5>1, <5>2
      <4>6. ~Fails(x, limit, good)
        <5> SUFFICES ASSUME Fails(x, limit, good) PROVE FALSE
          OBVIOUS
        <5>1. good < limit - x.echoed /\ ~SameValue(Heard[good + 1], x.echoed + good + 1)
          BY DEF Fails
        <5>2. good = 0
          BY <1>6, <4>1, <4>4, <5>1
        <5>3. QED
          BY <4>5, <5>1, <5>2
      <4>7. good = 1 /\ tx'.failed = FALSE /\ Used(1)
        <5>1. Ready(x, limit, good) /\ tx'.failed = FALSE /\ Used(good)
          BY <4>2, <4>6
        <5>2. good = Len(Heard) \/ good = 1
          BY <1>6, <4>1, <5>1 DEF Ready
        <5>3. good = 1
          BY <4>3, <4>4, <5>2
        <5>4. QED
          BY <5>1, <5>3
      <4>8. Len(Heard') = Len(Heard) - 1 /\ \A i \in 1 .. Len(Heard') : Heard'[i] = Heard[1 + i]
        BY <4>7 DEF Used
      <4>9. tx'.echoed = tx.echoed + 1 /\ tx'.echoed = announced /\ announced \in 0 .. 2
        BY <1>5, <3>1, <4>1, <4>2, <4>7
      <4>10. /\ Back - tx'.echoed <= Len(Heard') /\ (Back < 2 => Len(Heard') = Back - tx'.echoed)
        <5>1. Back - tx'.echoed = (Back - tx.echoed) - 1 /\ Back - tx.echoed \in Int
          BY <1>3, <4>9
        <5>2. QED
          BY <2>1, <2>2, <4>8, <5>1
      <4>11. ASSUME NEW i \in 1 .. Back - tx'.echoed PROVE Heard'[i] = Own(tx'.echoed + i)
        <5>1. /\ i \in 1 .. Len(Heard') /\ 1 + i \in 1 .. Back - tx.echoed
              /\ tx.echoed + (1 + i) = tx'.echoed + i
          <6>1. Back - tx'.echoed \in Int /\ Len(Heard') \in Int
            BY <1>3, <2>2, <4>8, <4>9
          <6>2. QED
            BY <1>3, <4>9, <4>10, <6>1
        <5>2. Heard'[i] = Heard[1 + i] /\ Heard[1 + i] = Own(tx.echoed + (1 + i))
          BY <2>1, <4>8, <5>1
        <5>3. QED
          BY <5>1, <5>2
      <4>12. tx'.echoed <= Back /\ tx'.announced <= tx'.echoed
        BY <1>3, <1>11, <3>1, <4>9
      <4>13. QED
        BY <1>11, <1>12, <3>2, <3>3, <4>7, <4>10, <4>11, <4>12, Zenon DEF Clean, TxLen
    <3>6. QED
      BY <1>9, <3>4, <3>5
  <2>4. CASE ~(tx.announced < Back)
    <3>1. Back = tx.announced /\ Back = tx.echoed
      BY <1>3, <2>1, <2>4
    <3>2. Back = 2
      <4>1. Back < 2 => Len(ev) = 0
        BY <1>3, <2>1, <3>1
      <4>2. QED
        BY <1>3, <1>10, <4>1
    <3>3. announced = 2 /\ limit <= 2 /\ tx.echoed = 2
      BY <1>3, <1>5, <1>7, <3>1, <3>2
    <3>4. ~\E good \in 0 .. 2 : Looks(good)
      BY <1>6, <1>7, <3>3
    <3>5. Idles
      BY <1>9, <3>4
    <3>6. tx'.echoed = tx.echoed /\ tx'.failed = FALSE /\ Heard' = Heard
      BY <1>6, <2>1, <3>5 DEF Heard
    <3>7. Back - announced = 0 /\ Back - tx.echoed = 0 /\ 1 .. 0 = {}
      BY <3>2, <3>3
    <3>8. 0 <= Len(ev') /\ 0 <= Len(Heard) /\ ~(Back < 2) /\ announced <= tx.echoed /\ tx.echoed <= Back
      BY <1>10, <2>2, <3>2, <3>3
    <3>9. QED
      BY <1>11, <1>12, <3>6, <3>7, <3>8 DEF Clean, TxLen
  <2>5. QED
    BY <2>3, <2>4
<1>16. ASSUME Doomed PROVE Doomed'
  <2>1. CASE tx.failed = TRUE
    <3>1. tx'.failed = TRUE
      BY <1>6, <1>9, <2>1
    <3>2. QED
      BY <3>1 DEF Doomed
  <2>2. CASE tx.echoed < TxLen /\ WrongByte
    <3>1. CASE Idles
      <4>1. tx'.echoed = tx.echoed /\ Heard' = Heard
        BY <1>6, <3>1 DEF Heard
      <4>2. WrongByte' /\ tx'.echoed < TxLen
        <5>1. tx'.echoed < TxLen
          BY <2>2, <4>1
        <5>2. WrongByte'
          BY <2>2, <4>1, Zenon DEF WrongByte, SameValue, Own, TxLen
        <5>3. QED
          BY <5>1, <5>2
      <4>3. QED
        BY <4>2 DEF Doomed
    <3>2. ASSUME NEW good \in 0 .. 2, Looks(good) PROVE Doomed'
      <4>1. tx'.failed = TRUE \/ (tx'.echoed < TxLen /\ WrongByte')
        BY <1>3, <1>6, <1>8, <2>2, <3>2, ReadDooms
      <4>2. QED
        BY <4>1 DEF Doomed, TxLen
    <3>3. QED
      BY <1>9, <3>1, <3>2
  <2>3. CASE tx.echoed < TxLen /\ WrongNote
    <3>1. PICK j \in 1 .. Len(ev) : ev[j] # "data" /\ tx.announced + j <= 2
      BY <2>3 DEF WrongNote, TxLen
    <3>2. j = 2 /\ tx.announced = 0 /\ 2 <= Len(ev)
      <4>1. j # 1
        BY <1>10, <3>1
      <4>2. QED
        BY <1>3, <1>10, <3>1, <4>1
    <3>3. announced = 1 /\ limit <= 1
      BY <1>3, <1>5, <1>7, <3>2
    <3>4. 1 \in 1 .. Len(ev') /\ ev'[1] # "data"
      <4>1. 1 \in 1 .. Len(ev') /\ 1 + 1 = 2
        BY <1>10, <3>2
      <4>2. ev'[1] = ev[2]
        BY <1>10, <4>1
      <4>3. QED
        BY <3>1, <3>2, <4>1, <4>2
    <3>5. WrongNote'
      <4>1. tx'.announced + 1 <= TxLen
        BY <1>11, <3>3 DEF TxLen
      <4>2. QED
        BY <3>4, <4>1 DEF WrongNote, TxLen
    <3>6. tx'.echoed < 2
      <4>1. CASE Idles
        BY <1>6, <2>3, <4>1 DEF TxLen
      <4>2. ASSUME NEW good \in 0 .. 2, Looks(good) PROVE tx'.echoed < 2
        <5>1. tx'.echoed = tx.echoed + good /\ good <= limit - tx.echoed
          BY <1>6, <4>2 DEF ReadsTo, Reading, Counts
        <5>2. QED
          BY <1>3, <1>7, <3>3, <5>1
      <4>3. QED
        BY <1>9, <4>1, <4>2
    <3>7. QED
      BY <3>5, <3>6 DEF Doomed, TxLen
  <2>4. QED
    BY <1>16, <2>1, <2>2, <2>3 DEF Doomed
<1>17. QED
  BY <1>1, <1>2, <1>13, <1>14, <1>15, <1>16 DEF Sending

\* Nothing heard is nothing wrong, and no first byte.
LEMMA EmptyHeard ==
  ASSUME pend' = <<>>, ring' = <<>>
  PROVE  Heard' = <<>> /\ Len(Heard') = 0 /\ OneFirst' /\ NoFirst'
<1>1. Heard' = <<>> \o <<>> /\ <<>> \o <<>> = <<>> /\ Len(<<>>) = 0
  BY ConcatEmptySeq, EmptySeq DEF Heard
<1>2. Heard' = <<>> /\ Len(Heard') = 0
  BY <1>1
<1>3. 1 .. 0 = {}
  OBVIOUS
<1>4. NoFirst'
  BY <1>2, <1>3 DEF NoFirst
<1>5. QED
  BY <1>2, <1>4 DEF NoFirst, OneFirst

\* A noted fault fails a transmission whose echo is not complete; what came back
\* whole is not taken for failed.
LEMMA FaultSends ==
  ASSUME Wired, Sending, TxEvent, Head(ev) # "data"
  PROVE  Sending'
<1> DEFINE faulted == [tx EXCEPT !.failed = @ \/ tx.echoed < TxLen]
<1>1. /\ tx.step \in {"look", "look again"} /\ ev # <<>> /\ ev' = Tail(ev)
      /\ due' = due /\ ghost' = ghost /\ asm' = "" /\ tx' = faulted
      /\ (pend' = pend /\ ring' = ring) \/ (pend' = <<>> /\ ring' = <<>>)
  BY DEF TxEvent
<1>2. /\ Lined /\ Firsts /\ Early /\ ghost.echo \in {"clean", "damaged", "any"}
      /\ (ghost.echo = "clean" => Clean) /\ (ghost.echo = "damaged" => Doomed)
  BY DEF Sending, Once
<1>3. /\ tx.sent \in 0 .. 2 /\ tx.echoed \in 0 .. 2 /\ tx.announced \in 0 .. 2
      /\ Back \in 0 .. 2 /\ Back <= tx.sent
  BY <1>2, SendTyped
<1>4. /\ tx'.sent = tx.sent /\ tx'.echoed = tx.echoed /\ tx'.announced = tx.announced
      /\ tx'.step = tx.step /\ tx'.failed = (tx.failed \/ tx.echoed < TxLen)
  BY <1>1 DEF Wired, TxType
<1>5. Early' /\ Back' = Back
  BY <1>1, <1>2, <1>4, EarlyKept
<1>6. /\ ev' \in Seq(Notes) /\ Len(ev) \in Nat \ {0} /\ Len(ev') = Len(ev) - 1
      /\ ev[1] # "data" /\ \A i \in 1 .. Len(ev') : ev'[i] = ev[i + 1]
  BY <1>1, <1>2, NoteTaken
<1>7. Firsts'
  <2>1. CASE pend' = pend /\ ring' = ring
    <3>1. Heard' = Heard
      BY <2>1 DEF Heard
    <3>2. QED
      BY <1>2, <1>4, <1>5, <3>1, Zenon DEF Firsts, OneFirst, NoFirst
  <2>2. CASE pend' = <<>> /\ ring' = <<>>
    BY <1>2, <1>4, <1>5, <2>2, EmptyHeard DEF Firsts
  <2>3. QED
    BY <1>1, <2>1, <2>2
<1>9. Once'
  BY <1>5, <1>7, Zenon DEF Once
<1>10. Lined'
  <2>1. /\ Len(due') <= tx'.sent /\ \A i \in 1 .. Len(due') : due'[i] = Back' + i
    BY <1>1, <1>2, <1>4, <1>5 DEF Lined
  <2>2. tx'.echoed \in 0 .. TxLen
    BY <1>3, <1>4 DEF TxLen
  <2>3. QED
    BY <1>1, <1>6, <2>1, <2>2 DEF Lined
<1>11. ASSUME Clean PROVE Clean'
  <2>1. /\ tx.failed = FALSE /\ tx.echoed <= Back /\ tx.announced <= tx.echoed
        /\ \A i \in 1 .. Back - tx.announced : ev[i] = "data"
        /\ (Back < 2 => Len(ev) = Back - tx.announced)
    BY <1>11 DEF Clean, TxLen
  <2>2. ~(tx.announced < Back)
    <3>1. tx.announced < Back => 1 \in 1 .. Back - tx.announced
      BY <1>3
    <3>2. QED
      BY <1>6, <2>1, <3>1
  <2>3. Back = tx.announced /\ Back = tx.echoed
    <3>1. tx.echoed <= Back /\ tx.announced <= tx.echoed
      BY <2>1
    <3>2. QED
      BY <1>3, <2>2, <3>1
  <2>4. Back = 2
    <3>1. Back < 2 => Len(ev) = 0
      BY <1>3, <2>1, <2>3
    <3>2. QED
      BY <1>3, <1>6, <3>1
  <2>5. tx'.failed = FALSE
    <3>1. ~(tx.echoed < TxLen) /\ tx.failed = FALSE
      BY <1>3, <2>1, <2>3, <2>4 DEF TxLen
    <3>2. QED
      BY <1>4, <3>1
  <2>6. Back - tx.echoed = 0 /\ Back - tx.announced = 0 /\ 1 .. 0 = {} /\ ~(Back < 2)
    BY <2>3, <2>4
  <2>7. 0 <= Len(Heard') /\ 0 <= Len(ev')
    <3>1. Len(ev') \in Nat
      BY <1>6
    <3>2. Heard' = Heard \/ Len(Heard') = 0
      BY <1>1, EmptyHeard DEF Heard
    <3>3. Len(Heard) \in Nat
      BY HeardTyped
    <3>4. QED
      BY <3>1, <3>2, <3>3
  <2>8. tx.echoed <= Back /\ tx.announced <= tx.echoed
    BY <2>1
  <2>9. QED
    BY <1>4, <1>5, <2>5, <2>6, <2>7, <2>8 DEF Clean, TxLen
<1>12. ASSUME Doomed PROVE Doomed'
  <2>1. tx'.failed = TRUE
    BY <1>4, <1>12 DEF Doomed
  <2>2. QED
    BY <2>1 DEF Doomed
<1>13. QED
  BY <1>1, <1>2, <1>9, <1>10, <1>11, <1>12 DEF Sending

\* A look that finds everything known, or takes the ring over, hears the same.
LEMMA LookSends ==
  ASSUME Wired, Sending, Look
  PROVE  Sending'
<1>1. /\ tx.step = "look" /\ ev = <<>> /\ ev' = ev /\ due' = due /\ ghost' = ghost /\ asm' = asm
  BY DEF Look, rx
<1>2. /\ Lined /\ Firsts /\ Early /\ ghost.echo \in {"clean", "damaged", "any"}
      /\ (ghost.echo = "clean" => Clean) /\ (ghost.echo = "damaged" => Doomed)
  BY DEF Sending, Once
<1>3. /\ tx.failed \in BOOLEAN /\ ring \in Seq(Bytes)
  BY TxFields DEF Wired
<1>4. \/ tx' = [tx EXCEPT !.step = "decide"] /\ (tx.failed \/ tx.echoed = tx.sent)
      \/ tx' = [tx EXCEPT !.step = "look again"]
  BY DEF Look
<1>5. /\ tx'.sent = tx.sent /\ tx'.echoed = tx.echoed /\ tx'.announced = tx.announced
      /\ tx'.failed = tx.failed
      /\ tx'.step = "look again" \/ (tx'.step = "decide" /\ (tx.failed \/ tx.echoed = tx.sent))
  BY <1>4 DEF Wired, TxType
<1>6. Heard' = Heard
  <2>1. CASE pend' = pend /\ ring' = ring
    BY <2>1 DEF Heard
  <2>2. CASE pend = <<>> /\ pend' = ring /\ ring' = <<>>
    <3>1. ring \o <<>> = ring /\ <<>> \o ring = ring
      BY <1>3, ConcatEmptySeq
    <3>2. QED
      BY <2>2, <3>1 DEF Heard
  <2>3. QED
    BY <2>1, <2>2 DEF Look
<1>7. Back' = Back /\ Len(due') = Len(due)
  BY <1>1, <1>5 DEF Back
<1>8. Firsts'
  BY <1>2, <1>5, <1>6, <1>7, Zenon DEF Firsts, OneFirst, NoFirst
<1>9. Early'
  <2>1. Len(due') = 2 => ev' = <<>> /\ Heard' = <<>> /\ tx'.failed = FALSE
    BY <1>1, <1>2, <1>5, <1>6, <1>7, Zenon DEF Early
  <2>2. ~(Back' = 0 /\ tx'.sent = 1 /\ tx'.step = "decide" /\ tx'.failed = FALSE)
    <3>1. Back = 0 => tx.echoed = 0
      BY <1>2 DEF Firsts
    <3>2. tx'.step = "decide" /\ tx'.failed = FALSE => tx.echoed = tx.sent
      BY <1>5
    <3>3. ~(tx.sent = 1 /\ tx.echoed = 0 /\ tx.echoed = tx.sent)
      OBVIOUS
    <3>4. QED
      BY <1>5, <1>7, <3>1, <3>2, <3>3, Zenon
  <2>3. QED
    BY <1>1, <2>1, <2>2, Zenon DEF Early
<1>10. Once'
  BY <1>8, <1>9, Zenon DEF Once
<1>11. Lined'
  BY <1>1, <1>2, <1>5, <1>7, Zenon DEF Lined
<1>12. Clean => Clean'
  BY <1>1, <1>5, <1>6, <1>7, Zenon DEF Clean
<1>13. Doomed => Doomed'
  BY <1>1, <1>5, <1>6, <1>7, Zenon DEF Doomed, WrongByte, WrongNote, SameValue, Own, TxLen
<1>14. QED
  BY <1>1, <1>2, <1>10, <1>11, <1>12, <1>13 DEF Sending

\* A byte is driven, or the echo is waited for.
LEMMA WriteSends ==
  ASSUME Wired, Sending, Write \/ LooksOn
  PROVE  Sending'
<1>1. /\ tx.step = "decide" /\ tx.failed = FALSE /\ pend' = pend /\ ring' = ring /\ ev' = ev
      /\ ghost' = ghost /\ asm' = asm
  <2>1. tx.failed \in BOOLEAN
    BY TxFields DEF Wired
  <2>2. QED
    BY <2>1 DEF Write, LooksOn, Drives, Decided, wire, rx
<1>2. /\ Lined /\ Firsts /\ Early /\ ghost.echo \in {"clean", "damaged", "any"}
      /\ (ghost.echo = "clean" => Clean) /\ (ghost.echo = "damaged" => Doomed)
  BY DEF Sending, Once
<1>3. /\ tx.sent \in 0 .. 2 /\ Len(due) \in 0 .. 2 /\ Len(due) = tx.sent - Back
      /\ Back \in 0 .. 2 /\ Back <= tx.sent
  BY <1>2, SendTyped
<1>4. Heard' = Heard
  BY <1>1 DEF Heard
<1>5. /\ tx'.echoed = tx.echoed /\ tx'.announced = tx.announced /\ tx'.failed = tx.failed
      /\ tx'.step = "look"
  BY DEF Write, LooksOn, Wired, TxType
<1>6. /\ Back' = Back /\ Len(due') <= tx'.sent /\ \A i \in 1 .. Len(due') : due'[i] = Back' + i
      /\ Len(due') = 2 => Len(due) = 2 \/ (Back = 0 /\ tx.sent = 1)
  <2>1. CASE LooksOn
    <3>1. due' = due /\ tx'.sent = tx.sent
      BY <2>1 DEF LooksOn, Wired, TxType
    <3>2. Back' = Back /\ Len(due') = Len(due)
      BY <3>1 DEF Back
    <3>3. QED
      BY <1>2, <3>1, <3>2 DEF Lined
  <2>2. CASE Write
    <3>1. due' = Append(due, tx.sent + 1) /\ tx'.sent = tx.sent + 1 /\ tx.sent < 2
      BY <2>2 DEF Write, Drives, Wired, TxType, TxLen
    <3>2. tx.sent \in 0 .. 1 /\ tx.sent + 1 \in 1 .. TxLen
      BY <1>3, <3>1 DEF TxLen
    <3>3. /\ Len(due') = Len(due) + 1 /\ due'[Len(due) + 1] = tx.sent + 1
          /\ \A i \in 1 .. Len(due) : due'[i] = due[i]
      BY <3>1, <3>2, HeardTyped, AppendProperties
    <3>4. Back' = Back
      <4>1. Back' = (tx.sent + 1) - (Len(due) + 1)
        BY <3>1, <3>3 DEF Back
      <4>2. \A s, n, b \in 0 .. 2 : n = s - b => (s + 1) - (n + 1) = b
        OBVIOUS
      <4>3. QED
        BY <1>3, <4>1, <4>2
    <3>5. ASSUME NEW i \in 1 .. Len(due') PROVE due'[i] = Back' + i
      <4>1. i \in 1 .. Len(due) + 1
        BY <3>3
      <4>2. CASE i = Len(due) + 1
        <5>1. \A s, n, b \in 0 .. 2 : n = s - b => s + 1 = b + (n + 1)
          OBVIOUS
        <5>2. QED
          BY <1>3, <3>3, <3>4, <4>2, <5>1
      <4>3. CASE i # Len(due) + 1
        <5>1. \A n \in 0 .. 2 : \A m \in 1 .. n + 1 : m # n + 1 => m \in 1 .. n
          OBVIOUS
        <5>2. i \in 1 .. Len(due)
          BY <1>3, <4>1, <4>3, <5>1
        <5>3. due[i] = Back + i
          BY <1>2, <5>2 DEF Lined
        <5>4. QED
          BY <3>3, <3>4, <5>2, <5>3
      <4>4. QED
        BY <4>2, <4>3
    <3>6. Len(due') <= tx'.sent
      <4>1. \A s, n, b \in 0 .. 2 : n = s - b => n + 1 <= s + 1
        OBVIOUS
      <4>2. QED
        BY <1>3, <3>1, <3>3, <4>1
    <3>7. Len(due') = 2 => Back = 0 /\ tx.sent = 1
      <4>1. \A s \in 0 .. 1, n, b \in 0 .. 2 : n = s - b /\ n + 1 = 2 => b = 0 /\ s = 1
        OBVIOUS
      <4>2. QED
        BY <1>3, <3>2, <3>3, <4>1
    <3>8. QED
      BY <3>4, <3>5, <3>6, <3>7
  <2>3. QED
    BY <2>1, <2>2
<1>7. Firsts'
  BY <1>2, <1>4, <1>5, <1>6, Zenon DEF Firsts, OneFirst, NoFirst
<1>8. Early'
  <2>1. Len(due') = 2 => ev' = <<>> /\ Heard' = <<>> /\ tx'.failed = FALSE
    BY <1>1, <1>2, <1>4, <1>5, <1>6 DEF Early
  <2>2. tx'.step \notin {"look again", "decide"}
    BY <1>5
  <2>3. QED
    BY <2>1, <2>2, Zenon DEF Early
<1>9. Once'
  BY <1>7, <1>8, Zenon DEF Once
<1>10. Lined'
  <2>1. ev' \in Seq(Notes) /\ asm' = "" /\ tx'.echoed \in 0 .. TxLen
    BY <1>1, <1>2, <1>5, Zenon DEF Lined
  <2>2. QED
    BY <1>6, <2>1, Zenon DEF Lined
<1>11. Clean => Clean'
  BY <1>1, <1>4, <1>5, <1>6, Zenon DEF Clean
<1>12. Doomed => Doomed'
  BY <1>1, <1>4, <1>5, Zenon DEF Doomed, WrongByte, WrongNote, SameValue, Own, TxLen
<1>13. QED
  BY <1>1, <1>2, <1>9, <1>10, <1>11, <1>12 DEF Sending

\* What was found is compared once more, up to what was driven.
LEMMA LookAgainSends ==
  ASSUME Wired, Sending, LookAgain
  PROVE  Sending'
<1> DEFINE x == [tx EXCEPT !.step = "decide"]
           limit == tx.sent
<1>1. /\ tx.step = "look again" /\ ev = <<>> /\ ev' = ev
      /\ due' = due /\ ghost' = ghost /\ asm' = asm /\ Reads(x, limit)
  BY DEF LookAgain, rx
<1>2. /\ Lined /\ Firsts /\ Early /\ ghost.echo \in {"clean", "damaged", "any"}
      /\ (ghost.echo = "clean" => Clean) /\ (ghost.echo = "damaged" => Doomed)
  BY DEF Sending, Once
<1>3. /\ tx.sent \in 0 .. 2 /\ tx.echoed \in 0 .. 2 /\ tx.announced \in 0 .. 2
      /\ Back \in 0 .. 2 /\ Back <= tx.sent /\ Len(Heard) \in Nat
  BY <1>2, SendTyped, HeardTyped
<1>4. /\ x \in TxType /\ x.echoed = tx.echoed /\ x.sent = tx.sent /\ x.failed = tx.failed
      /\ x.step = "decide" /\ x.announced = tx.announced
  BY DEF Wired, TxType
<1> HIDE DEF x
<1>5. limit \in 0 .. TxLen
  BY <1>3 DEF TxLen
<1> DEFINE Idles == tx' = x /\ pend' = pend /\ ring' = ring /\ (x.failed = TRUE \/ limit <= x.echoed)
           Looks(good) == x.failed = FALSE /\ x.echoed < limit /\ ReadsTo(x, limit, good)
<1>6. Idles \/ \E good \in 0 .. 2 : Looks(good)
  BY <1>1, <1>4, <1>5, ReadCases
<1> HIDE DEF limit
<1>7. ASSUME Idles
      PROVE  /\ tx'.sent = tx.sent /\ tx'.step = "decide" /\ tx'.announced = tx.announced
             /\ tx'.echoed = tx.echoed /\ tx'.failed = tx.failed
             /\ Heard' = Heard /\ Back' = Back
  BY <1>1, <1>4, <1>7 DEF Heard, Back
<1>8. ASSUME NEW good \in 0 .. 2, Looks(good)
      PROVE  /\ tx'.sent = tx.sent /\ tx'.step = "decide" /\ tx'.announced = tx.announced
             /\ tx'.echoed = tx.echoed + good /\ good <= Len(Heard) /\ good <= tx.sent - tx.echoed
             /\ \/ Fails(x, limit, good) /\ tx'.failed = TRUE /\ Used(good + 1)
                \/ Ready(x, limit, good) /\ tx'.failed = FALSE /\ Used(good)
             /\ Firsts' /\ Back' = Back /\ (Back = 0 => good = 0)
  <2>1. Counts(x, limit, good) /\ Reading(x, tx', good)
    BY <1>8 DEF ReadsTo
  <2>2. /\ tx'.sent = tx.sent /\ tx'.step = "decide" /\ tx'.announced = tx.announced
        /\ tx'.echoed = tx.echoed + good
    BY <1>4, <2>1 DEF Reading
  <2>3. good <= Len(Heard) /\ good <= tx.sent - tx.echoed
    BY <1>4, <2>1 DEF Counts, limit
  <2>4. Firsts' /\ Back' = Back /\ (Back = 0 => good = 0)
    BY <1>1, <1>2, <1>3, <1>4, <1>5, <1>8, ReadFirsts
  <2>5. QED
    BY <1>8, <2>2, <2>3, <2>4 DEF ReadsTo
<1>9. /\ Firsts' /\ Back' = Back /\ tx'.sent = tx.sent /\ tx'.step = "decide"
      /\ tx'.announced = tx.announced /\ tx'.echoed \in 0 .. 2
  <2>1. CASE Idles
    <3>1. Firsts'
      BY <1>2, <1>7, <2>1, Zenon DEF Firsts, OneFirst, NoFirst
    <3>2. QED
      BY <1>3, <1>7, <2>1, <3>1
  <2>2. ASSUME NEW good \in 0 .. 2, Looks(good)
        PROVE  /\ Firsts' /\ Back' = Back /\ tx'.sent = tx.sent /\ tx'.step = "decide"
               /\ tx'.announced = tx.announced /\ tx'.echoed \in 0 .. 2
    <3>1. tx'.echoed = tx.echoed + good /\ good <= tx.sent - tx.echoed
      BY <1>8, <2>2
    <3>2. tx'.echoed \in 0 .. 2
      BY <1>3, <3>1
    <3>3. QED
      BY <1>8, <2>2, <3>2
  <2>3. QED
    BY <1>6, <2>1, <2>2
<1>19. Len(ev) = 0
  <2>1. Len(<<>>) = 0
    BY EmptySeq
  <2>2. QED
    BY <1>1, <2>1, Zenon
<1>10. Len(due') = Len(due)
  BY <1>1
\* Nothing that was heard can be an echo while none came back.
<1>11. ASSUME Back = 0, tx.sent > 0
       PROVE  tx'.failed = FALSE => Heard' = <<>> \/ Len(Heard') = 0
  <2>1. tx.echoed = 0
    BY <1>2, <1>11 DEF Firsts
  <2>2. CASE Idles
    <3>1. ~(limit <= x.echoed)
      BY <1>3, <1>4, <1>11, <2>1 DEF limit
    <3>2. QED
      BY <1>4, <1>7, <2>2, <3>1
  <2>3. ASSUME NEW good \in 0 .. 2, Looks(good), tx'.failed = FALSE PROVE Len(Heard') = 0
    <3>1. good = 0 /\ Ready(x, limit, good) /\ Used(good)
      BY <1>8, <1>11, <2>3
    <3>2. 0 # limit - x.echoed
      BY <1>3, <1>4, <1>11, <2>1 DEF limit
    <3>3. Len(Heard) = 0
      BY <3>1, <3>2 DEF Ready
    <3>4. QED
      BY <3>1, <3>3 DEF Used
  <2>4. QED
    BY <1>6, <2>2, <2>3
<1>12. Len(Heard') = 0 => Heard' = <<>>
  <2>1. pend' \in Seq(Bytes) /\ ring' \in Seq(Bytes)
    <3>1. Wired'
      BY LookWired
    <3>2. QED
      BY <3>1 DEF Wired
  <2>2. Heard' \in Seq(Bytes)
    BY <2>1, ConcatProperties DEF Heard
  <2>3. QED
    BY <2>2, EmptySeq
<1>13. Early'
  <2>1. ASSUME Len(due) = 2 PROVE Heard' = <<>> /\ tx'.failed = FALSE
    <3>1. Heard = <<>> /\ tx.failed = FALSE /\ Len(Heard) = 0
      BY <1>2, <2>1, EmptySeq DEF Early
    <3>2. CASE Idles
      BY <1>7, <3>1, <3>2
    <3>3. ASSUME NEW good \in 0 .. 2, Looks(good) PROVE Heard' = <<>> /\ tx'.failed = FALSE
      <4>1. good = 0
        <5>1. good <= 0 /\ good \in 0 .. 2
          BY <1>8, <3>1, <3>3
        <5>2. QED
          BY <5>1
      <4>2. ~Fails(x, limit, good)
        BY <3>1, <4>1 DEF Fails
      <4>3. tx'.failed = FALSE /\ Used(0)
        BY <1>8, <3>3, <4>1, <4>2
      <4>4. Len(Heard') = 0
        BY <3>1, <4>3 DEF Used
      <4>5. QED
        BY <1>12, <4>3, <4>4
    <3>4. QED
      BY <1>6, <3>2, <3>3
  <2>2. Back = 0 /\ tx.sent = 1 /\ tx'.failed = FALSE => Heard' = <<>>
    <3>1. tx.sent = 1 => tx.sent > 0
      OBVIOUS
    <3>2. QED
      BY <1>11, <1>12, <3>1
  <2>3. QED
    BY <1>1, <1>9, <1>10, <2>1, <2>2, Zenon DEF Early
<1>14. Once'
  BY <1>9, <1>13, Zenon DEF Once
<1>15. Lined'
  <2>1. ev' \in Seq(Notes) /\ asm' = ""
    BY <1>1, <1>2, Zenon DEF Lined
  <2>2. Len(due') <= tx'.sent /\ \A i \in 1 .. Len(due') : due'[i] = Back' + i
    BY <1>1, <1>2, <1>9, Zenon DEF Lined
  <2>3. tx'.echoed \in 0 .. TxLen
    BY <1>9 DEF TxLen
  <2>4. QED
    BY <2>1, <2>2, <2>3, Zenon DEF Lined
<1>16. ASSUME Clean PROVE Clean'
  <2>1. /\ tx.failed = FALSE /\ tx.echoed <= Back /\ tx.announced <= tx.echoed
        /\ Back - tx.announced <= Len(ev)
        /\ (Back < 2 => Len(Heard) = Back - tx.echoed)
    BY <1>16 DEF Clean, TxLen
  <2>2. Back = tx.announced /\ Back = tx.echoed
    <3>2. tx.echoed <= Back /\ tx.announced <= tx.echoed /\ Back - tx.announced <= 0
      BY <1>19, <2>1
    <3>3. QED
      BY <1>3, <3>2
  <2>3. CASE Idles
    BY <1>1, <1>7, <1>16, <2>3, Zenon DEF Clean
  <2>4. ASSUME NEW good \in 0 .. 2, Looks(good) PROVE Clean'
    <3>1. Back < 2
      <4>1. tx.echoed < tx.sent
        BY <1>4, <2>4 DEF limit
      <4>2. QED
        BY <1>3, <2>2, <4>1
    <3>2. Len(Heard) = 0
      BY <1>3, <2>1, <2>2, <3>1
    <3>3. good = 0
      <4>1. good <= 0 /\ good \in 0 .. 2
        BY <1>8, <2>4, <3>2
      <4>2. QED
        BY <4>1
    <3>4. ~Fails(x, limit, good)
      BY <3>2, <3>3 DEF Fails
    <3>5. tx'.failed = FALSE /\ Used(0) /\ tx'.echoed = tx.echoed + 0
      BY <1>8, <2>4, <3>3, <3>4
    <3>6. Len(Heard') = 0 /\ tx'.echoed = tx.echoed
      <4>1. Len(Heard') = Len(Heard) - 0
        BY <3>5 DEF Used
      <4>2. QED
        BY <1>3, <3>2, <3>5, <4>1
    <3>7. Back - tx.echoed = 0 /\ Back - tx.announced = 0 /\ 1 .. 0 = {} /\ Len(ev) = 0
      <4>1. Back - tx.echoed = 0 /\ Back - tx.announced = 0 /\ 1 .. 0 = {}
        BY <1>3, <2>2
      <4>2. QED
        BY <1>19, <4>1
    <3>8. tx.echoed <= Back /\ tx.announced <= tx.echoed /\ 0 <= 0
      BY <2>1
    <3>9. /\ Back' - tx'.echoed = 0 /\ Back' - tx'.announced = 0 /\ Len(ev') = 0
          /\ tx'.echoed <= Back' /\ tx'.announced <= tx'.echoed
      BY <1>1, <1>9, <3>6, <3>7, <3>8
    <3>10. QED
      BY <3>5, <3>6, <3>7, <3>8, <3>9 DEF Clean, TxLen
  <2>5. QED
    BY <1>6, <2>3, <2>4
<1>17. ASSUME Doomed PROVE Doomed'
  <2>1. tx.failed = TRUE \/ (tx.echoed < TxLen /\ WrongByte)
    <3>1. ~WrongNote
      <4>1. Len(ev) = 0 /\ 1 .. 0 = {}
        BY <1>19
      <4>2. QED
        BY <4>1 DEF WrongNote
    <3>2. QED
      BY <1>17, <3>1 DEF Doomed
  <2>2. CASE Idles
    BY <1>1, <1>7, <1>17, <2>2, Zenon DEF Doomed, WrongByte, WrongNote, SameValue, Own, TxLen
  <2>3. ASSUME NEW good \in 0 .. 2, Looks(good) PROVE Doomed'
    <3>1. WrongByte
      BY <1>4, <2>1, <2>3
    <3>2. tx'.failed = TRUE \/ (tx'.echoed < TxLen /\ WrongByte')
      BY <1>3, <1>4, <1>5, <2>3, <3>1, ReadDooms
    <3>3. QED
      BY <3>2 DEF Doomed, TxLen
  <2>4. QED
    BY <1>6, <2>2, <2>3
<1>18. QED
  BY <1>1, <1>2, <1>14, <1>15, <1>16, <1>17 DEF Sending

\* A transmission that is sent was heard whole: it was not damaged, and no first
\* byte of it is left.
LEMMA SentApart ==
  ASSUME KLineInv, Sending, Sent
  PROVE  ghost.echo # "damaged" /\ ~One'
<1>1. Wired /\ DOMAIN ghost = Remembered
  BY DEF KLineInv, Controlled, Named
<1>2. /\ Lined /\ Once /\ (ghost.echo = "damaged" => Doomed)
  BY DEF Sending
<1>3. tx.failed = FALSE /\ tx.sent = 2 /\ tx.echoed = 2
  <2>1. tx.failed \in BOOLEAN
    BY <1>1, TxFields DEF Wired
  <2>2. QED
    BY <2>1 DEF Sent, AllHeard, TxLen
<1>4. ~Doomed
  <2>1. ~(tx.echoed < TxLen)
    BY <1>3 DEF TxLen
  <2>2. QED
    BY <1>3, <2>1 DEF Doomed
<1>5. ring' = Heard /\ due' = due /\ asm' = asm
  BY DEF Sent, Ends, Heard, rx
<1>6. /\ Back # 0 /\ tx.echoed > 0
  BY <1>2, <1>3 DEF Once, Firsts, Early, OneFirst, NoFirst
<1>7. NoFirst
  BY <1>2, <1>6 DEF Once, Firsts, Early, OneFirst, NoFirst
<1>8. ~\E i \in 1 .. Len(ring') : ring'[i] = "e1"
  BY <1>5, <1>7 DEF NoFirst
<1>9. ~\E i \in 1 .. Len(due') : due'[i] = 1
  <2> SUFFICES ASSUME NEW i \in 1 .. Len(due), due[i] = 1 PROVE FALSE
    BY <1>5
  <2>1. due[i] = Back + i /\ Back \in 0 .. 2 /\ Len(due) \in 0 .. 2
    BY <1>1, <1>2, SendTyped DEF Lined
  <2>2. \A b, n \in 0 .. 2 : \A m \in 1 .. n : b # 0 => b + m # 1
    OBVIOUS
  <2>3. QED
    BY <1>6, <2>1, <2>2
<1>10. asm' # "e1"
  BY <1>2, <1>5 DEF Lined
<1>11. QED
  BY <1>2, <1>4, <1>8, <1>9, <1>10 DEF One

\* Two bytes that are both due have not been told of at all.
LEMMA BothDue ==
  ASSUME Wired, Lined, \E i \in 1 .. Len(due) : due[i] = 1, \E i \in 1 .. Len(due) : due[i] = 2
  PROVE  Len(due) = 2
<1>1. PICK i \in 1 .. Len(due) : due[i] = 1
  OBVIOUS
<1>2. PICK j \in 1 .. Len(due) : due[j] = 2
  OBVIOUS
<1>3. Back + i = 1 /\ Back + j = 2 /\ Back \in 0 .. 2 /\ Len(due) \in 0 .. 2
  BY <1>1, <1>2, SendTyped DEF Lined
<1>4. \A b, n \in 0 .. 2 : \A k, m \in 1 .. n : b + k = 1 /\ b + m = 2 => n = 2
  OBVIOUS
<1>5. QED
  BY <1>3, <1>4

\* A transmission that is taken for corrupted was: what is left of it is at most
\* one byte on its way.
LEMMA CorruptedApart ==
  ASSUME KLineInv, Sending, Corrupted
  PROVE  ghost.echo # "clean" /\ ~(One /\ Two)'
<1>1. Wired
  BY DEF KLineInv
<1>2. /\ Lined /\ Once /\ (ghost.echo = "clean" => Clean)
  BY DEF Sending
<1>3. /\ ring' = <<>> /\ due' = due /\ asm' = ""
  BY DEF Corrupted, Ends
<1>4. tx.failed = TRUE \/ (tx.failed = FALSE /\ tx.sent = 2 /\ tx.echoed # 2 /\ Missing)
  <2>1. tx.failed \in BOOLEAN
    BY <1>1, TxFields DEF Wired
  <2>2. QED
    BY <2>1 DEF Corrupted, AllHeard, TxLen
<1>5. ghost.echo # "clean"
  <2> SUFFICES ASSUME Clean PROVE FALSE
    BY <1>2
  <2>1. tx.sent = 2 /\ tx.echoed # 2 /\ Missing
    BY <1>4 DEF Clean
  <2>2. Len(due) = 0 /\ Len(Heard) = 0
    <3>1. due = <<>> /\ pend = <<>> /\ ring = <<>> /\ Len(<<>>) = 0
      BY <2>1, EmptySeq DEF Missing
    <3>2. Len(Heard) = Len(pend) + Len(ring)
      BY <1>1, HeardTyped
    <3>3. QED
      BY <3>1, <3>2
  <2>3. Back \in 0 .. 2 /\ tx.echoed \in 0 .. 2 /\ Len(due) = tx.sent - Back
    BY <1>1, <1>2, SendTyped
  <2>4. Back = 2
    BY <2>1, <2>2, <2>3
  <2>5. Back - tx.echoed <= Len(Heard)
    BY DEF Clean
  <2>6. 2 - tx.echoed <= 0
    BY <2>2, <2>4, <2>5
  <2>7. QED
    BY <2>1, <2>3, <2>6
<1>6. ~(One /\ Two)'
  <2> SUFFICES ASSUME One', Two' PROVE FALSE
    OBVIOUS
  <2>1. Len(<<>>) = 0 /\ 1 .. 0 = {}
    BY EmptySeq
  <2>2. ~(\E i \in 1 .. Len(ring') : ring'[i] = "e1") /\ ~(\E i \in 1 .. Len(ring') : ring'[i] = "e2")
    BY <1>3, <2>1
  <2>3. (\E i \in 1 .. Len(due) : due[i] = 1) /\ (\E i \in 1 .. Len(due) : due[i] = 2)
    BY <1>3, <2>2 DEF One, Two
  <2>4. Len(due) = 2
    BY <1>1, <1>2, <2>3, BothDue
  <2>5. tx.failed = FALSE
    BY <1>2, <2>4 DEF Once, Firsts, Early, OneFirst, NoFirst
  <2>6. due = <<>>
    BY <1>4, <2>5 DEF Missing
  <2>7. QED
    BY <2>1, <2>4, <2>6
<1>7. QED
  BY <1>5, <1>6

\* Every end of a transmission is judged rightly.
LEMMA EndsEchoed ==
  ASSUME KLineInv, Rested, Echoed, TxEnds
  PROVE  Echoed'
<1>1. /\ t = "tx" /\ t' # "tx" /\ ghost'.echo = "clean" /\ ghost'.strayed = ghost.strayed
  BY EndMoves
<1>2. /\ Sending /\ ghost.strayed = FALSE /\ ghost.judged = TRUE
      /\ DOMAIN ghost = Remembered /\ Wired
  BY <1>1 DEF Echoed, KLineInv, Controlled, Named
<1>3. CASE Stuck
  <2>1. stuck' = TRUE /\ ghost' = [ghost EXCEPT !.echo = "clean"]
    BY <1>3 DEF Stuck, Finish, Over
  <2>2. ghost'.judged = ghost.judged
    BY <1>2, <2>1 DEF Remembered
  <2>3. QED
    BY <1>1, <1>2, <2>1, <2>2 DEF Echoed, Apart
<1>4. CASE WriteFails
  <2>1. /\ ghost' = [ghost EXCEPT !.echo = "clean"] /\ ring' = <<>> /\ asm' = "" /\ due' = due
        /\ tx.sent < 2
    BY <1>4 DEF WriteFails, Finish, Over, Ends, Drives, TxLen
  <2>2. ghost'.judged = ghost.judged
    BY <1>2, <2>1 DEF Remembered
  <2>3. ~(One /\ Two)'
    <3> SUFFICES ASSUME One', Two' PROVE FALSE
      OBVIOUS
    <3>1. Len(<<>>) = 0 /\ 1 .. 0 = {}
      BY EmptySeq
    <3>2. /\ ~(\E i \in 1 .. Len(ring') : ring'[i] = "e1")
          /\ ~(\E i \in 1 .. Len(ring') : ring'[i] = "e2")
      BY <2>1, <3>1
    <3>3. (\E i \in 1 .. Len(due) : due[i] = 1) /\ (\E i \in 1 .. Len(due) : due[i] = 2)
      BY <2>1, <3>2 DEF One, Two
    <3>4. Len(due) = 2
      BY <1>2, <3>3, BothDue DEF Sending
    <3>5. tx.sent \in 0 .. 2 /\ Back \in 0 .. 2 /\ Len(due) = tx.sent - Back
      BY <1>2, SendTyped DEF Sending
    <3>6. \A n, b \in 0 .. 2 : 2 = n - b => ~(n < 2)
      OBVIOUS
    <3>7. QED
      BY <2>1, <3>4, <3>5, <3>6
  <2>4. QED
    BY <1>1, <1>2, <2>2, <2>3 DEF Echoed, Apart
<1>5. CASE Sent
  <2>1. ghost' = [ghost EXCEPT !.judged = @ /\ ghost.echo # "damaged", !.echo = "clean"]
    BY <1>5 DEF Sent, Finish
  <2>2. ghost'.judged = (ghost.judged /\ ghost.echo # "damaged")
    BY <1>2, <2>1 DEF Remembered
  <2>3. ghost.echo # "damaged" /\ ~One'
    BY <1>2, <1>5, SentApart
  <2>4. QED
    BY <1>1, <1>2, <2>2, <2>3 DEF Echoed, Apart
<1>6. CASE Corrupted
  <2>1. ghost' = [ghost EXCEPT !.judged = @ /\ ghost.echo # "clean", !.echo = "clean"]
    BY <1>6 DEF Corrupted, Finish
  <2>2. ghost'.judged = (ghost.judged /\ ghost.echo # "clean")
    BY <1>2, <2>1 DEF Remembered
  <2>3. ghost.echo # "clean" /\ ~(One /\ Two)'
    BY <1>2, <1>6, CorruptedApart
  <2>4. QED
    BY <1>1, <1>2, <2>2, <2>3 DEF Echoed, Apart
<1>7. QED
  BY <1>3, <1>4, <1>5, <1>6 DEF TxEnds

\* What is read leaves a part of what there was.
LEMMA TailLess ==
  ASSUME NEW S, NEW s \in Seq(S), s # <<>>, NEW v
  PROVE  (\E i \in 1 .. Len(Tail(s)) : Tail(s)[i] = v) => \E i \in 1 .. Len(s) : s[i] = v
<1>1. /\ Len(s) \in Nat \ {0} /\ Len(Tail(s)) = Len(s) - 1
      /\ \A i \in 1 .. Len(Tail(s)) : Tail(s)[i] = s[i + 1]
  BY HeadTailProperties, EmptySeq
<1>2. SUFFICES ASSUME NEW i \in 1 .. Len(Tail(s)), Tail(s)[i] = v
               PROVE  \E j \in 1 .. Len(s) : s[j] = v
  OBVIOUS
<1>3. i + 1 \in 1 .. Len(s) /\ s[i + 1] = v
  BY <1>1, <1>2
<1>4. QED
  BY <1>3

\* rx_drain() and the gap frame what they find: the two bytes of one transmission
\* never meet, and an echo is not taken for a message.
LEMMA DrainEchoed ==
  ASSUME KLineInv, Rested, Echoed, LoopDrain \/ QuietDrain
  PROVE  Echoed'
<1>1. /\ (Drain \/ Gap) /\ t \notin {"tx", "none"} /\ UNCHANGED <<t, stuck, due>>
      /\ DOMAIN ghost = Remembered /\ ring \in Seq(Bytes) /\ stuck \in BOOLEAN
  BY DEF LoopDrain, QuietDrain, Stays, sending, KLineInv, Controlled, Named, Wired
<1>2. /\ ghost.echo = "clean" /\ ghost.strayed = FALSE /\ ghost.judged = TRUE
      /\ (stuck = FALSE => ~(One /\ Two))
  BY <1>1 DEF Echoed, Apart
<1>3. ghost'.echo = ghost.echo /\ ghost'.judged = ghost.judged
  BY <1>1, DrainMoves
<1>4. SUFFICES ghost'.strayed = FALSE /\ (stuck = FALSE => ~(One /\ Two)')
  BY <1>1, <1>2, <1>3, <1>4 DEF Echoed, Apart
<1>5. CASE Event
  <2>1. ghost'.strayed = FALSE
    BY <1>1, <1>2, <1>5 DEF Event, Remembered
  <2>2. asm' = "" /\ ring' \in {<<>>, ring}
    BY <1>5 DEF Event
  <2>3. Len(<<>>) = 0 /\ 1 .. 0 = {}
    BY EmptySeq
  <2>4. (One' => One) /\ (Two' => Two)
    <3>1. CASE ring' = ring
      BY <1>1, <2>2, <3>1 DEF One, Two
    <3>2. CASE ring' = <<>>
      BY <1>1, <2>2, <2>3, <3>2 DEF One, Two
    <3>3. QED
      BY <2>2, <3>1, <3>2
  <2>5. QED
    BY <1>2, <2>1, <2>4
<1>6. CASE ring # <<>> /\ Discard
  <2>1. ghost' = ghost /\ stuck
    BY <1>6 DEF Discard
  <2>2. QED
    BY <1>1, <1>2, <2>1
<1>7. CASE Gap
  <2>1. ghost' = ghost /\ ring' = ring /\ asm' = ""
    BY <1>7 DEF Gap, wire
  <2>2. (One' => One) /\ (Two' => Two)
    BY <1>1, <2>1 DEF One, Two
  <2>3. QED
    BY <1>2, <2>1, <2>2
<1>8. CASE ring # <<>> /\ Skip
  <2>1. ghost' = ghost /\ ring' = Tail(ring) /\ asm' = asm
    BY <1>8 DEF Skip
  <2>2. (One' => One) /\ (Two' => Two)
    BY <1>1, <1>8, <2>1, TailLess DEF One, Two
  <2>3. QED
    BY <1>2, <2>1, <2>2
<1>9. CASE ring # <<>> /\ Gather
  <2> DEFINE b == Head(ring)
             got == Pushed(b)
  <2>1. 1 \in 1 .. Len(ring) /\ ring[1] = b
    BY <1>1, <1>9, EmptySeq
  <2>2. ring' = Tail(ring) /\ stuck = FALSE
    BY <1>1, <1>9 DEF Gather
  <2> HIDE DEF b
  <2>3. got = "echo" => asm = "e1" /\ b = "e2"
    BY DEF Pushed
  <2>4. got = "e1" => b = "e1"
    BY DEF Pushed
  <2> HIDE DEF got
  <2>5. got # "echo"
    <3> SUFFICES ASSUME got = "echo" PROVE FALSE
      OBVIOUS
    <3>1. One /\ Two
      BY <2>1, <2>3 DEF One, Two
    <3>2. QED
      BY <1>2, <2>2, <3>1
  <2>6. \/ asm' = "" /\ ghost' \in {ghost, [ghost EXCEPT !.strayed = @ \/ FALSE]}
        \/ asm' = got /\ ghost' = ghost
    <3>1. IF got \in {"answer", "echo"}
          THEN asm' = "" /\ asmLeft' = 0 /\ Publish(got = "echo")
          ELSE asm' = got /\ asmLeft' = P1 /\ UNCHANGED <<unseen, answered, ghost>>
      BY <1>9 DEF Gather, got, b
    <3>2. (got = "echo") = FALSE
      BY <2>5
    <3>3. Publish(FALSE) => ghost' \in {ghost, [ghost EXCEPT !.strayed = @ \/ FALSE]}
      BY DEF Publish
    <3>4. QED
      BY <3>1, <3>2, <3>3
  <2>7. ghost'.strayed = FALSE
    BY <1>1, <1>2, <2>6 DEF Remembered
  <2>8. (One' => One) /\ (Two' => Two)
    <3>1. asm' = "e1" => ring[1] = "e1"
      BY <2>1, <2>4, <2>6
    <3>2. One' => One
      BY <1>1, <1>9, <2>1, <2>2, <3>1, TailLess DEF One
    <3>3. Two' => Two
      BY <1>1, <1>9, <2>2, TailLess DEF Two
    <3>4. QED
      BY <3>2, <3>3
  <2>9. QED
    BY <1>2, <2>7, <2>8
<1>10. QED
  BY <1>1, <1>5, <1>6, <1>7, <1>8, <1>9 DEF Drain

\* A late echo only moves a byte from the line into the ring; what another node
\* says between transmissions is no echo.
LEMMA BusEchoed ==
  ASSUME KLineInv, Rested, Echoed, Bus, t # "tx"
  PROVE  Echoed'
<1>1. /\ DOMAIN ghost = Remembered /\ ring \in Seq(Bytes) /\ due \in Seq(1 .. TxLen)
      /\ stuck \in BOOLEAN /\ Wired
  BY DEF KLineInv, Controlled, Named, Wired
<1>2. /\ ghost.echo = "clean" /\ ghost.strayed = FALSE /\ ghost.judged = TRUE
      /\ (t # "none" /\ stuck = FALSE => ~(One /\ Two))
  BY DEF Echoed, Apart
<1>3. ASSUME NEW bytes \in Seq(Bytes), NEW notes, Arrives(bytes, notes, ghost.echo),
             (\E i \in 1 .. Len(bytes) : bytes[i] = "e1") => \E i \in 1 .. Len(due) : due[i] = 1,
             (\E i \in 1 .. Len(bytes) : bytes[i] = "e2") => \E i \in 1 .. Len(due) : due[i] = 2,
             due' = due \/ (due # <<>> /\ due' = Tail(due))
      PROVE  Echoed'
  <2>1. /\ ghost'.strayed = ghost.strayed /\ ghost'.judged = ghost.judged
        /\ ghost'.echo = ghost.echo
        /\ UNCHANGED <<t, stuck, asm>> /\ ring' = ring \o bytes
    <3>1. ~Dropped(notes)
      BY DEF Dropped
    <3>2. QED
      BY <1>1, <1>3, <3>1, SilenceIs
  <2>2. \A v : (\E i \in 1 .. Len(ring') : ring'[i] = v) =>
                 \/ \E i \in 1 .. Len(ring) : ring[i] = v
                 \/ \E i \in 1 .. Len(bytes) : bytes[i] = v
    <3>1. /\ Len(ring') = Len(ring) + Len(bytes) /\ Len(ring) \in Nat /\ Len(bytes) \in Nat
          /\ \A i \in 1 .. Len(ring) + Len(bytes) :
               ring'[i] = IF i <= Len(ring) THEN ring[i] ELSE bytes[i - Len(ring)]
      BY <1>1, <1>3, <2>1, ConcatProperties, LenProperties
    <3>2. SUFFICES ASSUME NEW v, NEW i \in 1 .. Len(ring'), ring'[i] = v
                   PROVE  \/ \E j \in 1 .. Len(ring) : ring[j] = v
                          \/ \E j \in 1 .. Len(bytes) : bytes[j] = v
      OBVIOUS
    <3>3. CASE i <= Len(ring)
      <4>1. i \in 1 .. Len(ring) /\ ring[i] = v
        BY <3>1, <3>2, <3>3
      <4>2. QED
        BY <4>1
    <3>4. CASE ~(i <= Len(ring))
      <4>1. i - Len(ring) \in 1 .. Len(bytes) /\ bytes[i - Len(ring)] = v
        BY <3>1, <3>2, <3>4
      <4>2. QED
        BY <4>1
    <3>5. QED
      BY <3>3, <3>4
  <2>3. \A v : (\E i \in 1 .. Len(due') : due'[i] = v) => \E i \in 1 .. Len(due) : due[i] = v
    <3>1. CASE due' = due
      BY <3>1
    <3>2. CASE due # <<>> /\ due' = Tail(due)
      <4>1. \A v : (\E i \in 1 .. Len(Tail(due)) : Tail(due)[i] = v)
                     => \E i \in 1 .. Len(due) : due[i] = v
        BY <1>1, <3>2, TailLess
      <4>2. QED
        BY <3>2, <4>1, Zenon
    <3>3. QED
      BY <1>3, <3>1, <3>2
  <2>4. (One' => One) /\ (Two' => Two)
    BY <1>3, <2>1, <2>2, <2>3 DEF One, Two
  <2>5. QED
    BY <1>2, <2>1, <2>4 DEF Echoed, Apart
<1>4. CASE LateEcho
  <2> DEFINE b == <<Own(Head(due))>>
  <2>1. due # <<>> /\ due' = Tail(due) /\ Head(due) \in 1 .. TxLen
    BY <1>1, <1>4, HeadTailProperties DEF LateEcho
  <2>2. b \in Seq(Bytes) /\ Len(b) = 1 /\ b[1] = Own(Head(due))
    BY <2>1, ByteIs
  <2>3. Arrives(b, <<>>, ghost.echo)
    BY <1>4 DEF LateEcho
  <2> HIDE DEF b
  <2>4. 1 \in 1 .. Len(due) /\ due[1] = Head(due)
    BY <1>1, <2>1, EmptySeq
  <2>5. Head(due) = 1 \/ Head(due) = 2
    BY <2>1 DEF TxLen
  <2>6. (b[1] = "e1" => due[1] = 1) /\ (b[1] = "e2" => due[1] = 2)
    BY <2>2, <2>4, <2>5 DEF Own
  <2>7. \A i \in 1 .. Len(b) : i = 1
    BY <2>2
  <2>8. /\ (\E i \in 1 .. Len(b) : b[i] = "e1") => \E i \in 1 .. Len(due) : due[i] = 1
        /\ (\E i \in 1 .. Len(b) : b[i] = "e2") => \E i \in 1 .. Len(due) : due[i] = 2
    BY <2>4, <2>6, <2>7
  <2>9. QED
    BY <1>3, <2>1, <2>2, <2>3, <2>8
<1>5. CASE Spoken
  <2> DEFINE Others(b) == b \in Seq(Bytes) /\ \A i \in 1 .. Len(b) : b[i] \notin {"e1", "e2"}
  <2>1. Others(<<"x">>) /\ Others(<<"r1">>) /\ Others(<<"r2">>)
    BY ByteIs DEF Bytes
  <2>2. Others(<<>>)
    BY ByteIs, EmptySeq
  <2>3. \E b \in {<<"x">>, <<"r1">>, <<"r2">>, <<>>} : \E notes : Arrives(b, notes, ghost.echo)
    BY <1>5 DEF Spoken
  <2>4. PICK b : Others(b) /\ \E notes : Arrives(b, notes, ghost.echo)
    BY <2>1, <2>2, <2>3
  <2>5. due' = due
    BY <1>5 DEF Spoken
  <2>6. QED
    BY <1>3, <2>4, <2>5
<1>6. QED
  BY <1>4, <1>5 DEF Bus, EchoBack

\* The judgement of the echo, and what is left of it, through every step.
LEMMA EchoedKept ==
  ASSUME KLineInv, Rested, Echoed, [Next]_vars
  PROVE  Echoed'
<1>1. /\ DOMAIN ghost = Remembered /\ Wired /\ stuck \in BOOLEAN
      /\ (stuck => t \in {"none", "loop"}) /\ bus \in Nat /\ ghost.still \in Nat
  BY DEF KLineInv, Controlled, Named, Rested
<1>2. /\ ghost.strayed = FALSE /\ ghost.judged = TRUE
      /\ (t = "tx" => Sending) /\ (t # "tx" => ghost.echo = "clean")
      /\ (t \notin {"tx", "none"} /\ stuck = FALSE => ~(One /\ Two))
  BY DEF Echoed, Apart
<1>3. CASE Caller
  <2>1. t # "tx" /\ t' # "tx"
    BY <1>3, CallerMoves
  <2>2. CASE UNCHANGED <<t, stuck, bus, ring, asm, due>> /\ SameWire(ghost')
    <3>1. (One' => One) /\ (Two' => Two)
      BY <2>2 DEF One, Two
    <3>2. QED
      BY <1>2, <2>1, <2>2, <3>1 DEF Echoed, Apart, SameWire, Since
  <2>3. CASE /\ stuck' = FALSE /\ bus' = 0 /\ ring' = <<>> /\ asm' = "" /\ Since(ghost', 0)
             /\ t' = "none" \/ due' = <<>>
    <3>1. Len(<<>>) = 0 /\ 1 .. 0 = {}
      BY EmptySeq
    <3>2. due' = <<>> => ~One'
      BY <2>3, <3>1 DEF One
    <3>3. QED
      BY <1>2, <2>1, <2>3, <3>2 DEF Echoed, Apart, Since
  <2>4. QED
    BY <1>3, <2>2, <2>3, CallerMoves
<1>4. CASE LoopDrain \/ QuietDrain
  BY <1>4, DrainEchoed
<1>5. CASE Leave \/ Periodic \/ TakeCommand \/ TryAgain \/ Refused
  <2>1. UNCHANGED <<stuck, ring, asm, due, ghost>> /\ t # "tx" /\ t' # "tx" /\ t # "none"
    BY <1>5, WaitMoves
  <2>2. (One' => One) /\ (Two' => Two)
    BY <2>1 DEF One, Two
  <2>3. QED
    BY <1>2, <2>1, <2>2 DEF Echoed, Apart
<1>6. CASE Start \/ InitStarts
  <2>1. /\ t' = "tx" /\ ghost'.strayed = ghost.strayed /\ ghost'.judged = ghost.judged
        /\ t # "tx"
    BY <1>6, StartMoves
  <2>2. Sending'
    BY <1>2, <1>6, <2>1, StartSends
  <2>3. QED
    BY <1>2, <2>1, <2>2 DEF Echoed, Apart
<1>7. CASE Inside
  <2>1. t = "tx" /\ UNCHANGED <<t, ghost>>
    BY <1>7, InsideMoves
  <2>2. Sending'
    BY <1>1, <1>2, <1>7, <2>1, DataSends, FaultSends, LookSends, LookAgainSends, WriteSends DEF Inside
  <2>3. QED
    BY <1>2, <2>1, <2>2 DEF Echoed, Apart
<1>8. CASE TxEnds
  BY <1>8, EndsEchoed
<1>9. CASE InitFails \/ Replied
  <2>1. /\ t \in {"idle", "reply"} /\ t' = "loop" /\ ring' = <<>> /\ due' = due
        /\ asm' \in {asm, ""} /\ UNCHANGED <<stuck, ghost>>
    BY <1>9 DEF InitFails, Replied, Answer, rx
  <2>2. Len(<<>>) = 0 /\ 1 .. 0 = {}
    BY EmptySeq
  <2>3. (One' => One) /\ (Two' => Two)
    BY <2>1, <2>2 DEF One, Two
  <2>4. QED
    BY <1>2, <2>1, <2>3 DEF Echoed, Apart
<1>10. CASE Bus
  <2>1. CASE t = "tx"
    <3>1. /\ t' = t /\ ghost'.strayed = ghost.strayed /\ ghost'.judged = ghost.judged
      <4>1. PICK bytes \in Seq(Bytes) : \E notes, echo : Arrives(bytes, notes, echo)
        BY <1>1, <1>10, BusBytes
      <4>2. QED
        BY <1>1, <4>1, SilenceIs
    <3>2. stuck = FALSE
      BY <1>1, <2>1
    <3>3. Sending'
      BY <1>1, <1>2, <1>10, <2>1, <3>2, EchoSends, SpokenSends DEF Bus, LateEcho
    <3>4. QED
      BY <1>2, <2>1, <3>1, <3>3 DEF Echoed, Apart
  <2>2. CASE t # "tx"
    BY <1>10, <2>2, BusEchoed
  <2>3. QED
    BY <2>1, <2>2
<1>11. CASE Tick
  <2>1. /\ UNCHANGED <<t, stuck, ring, asm, due>> /\ t # "tx"
        /\ ghost'.strayed = ghost.strayed
        /\ ghost'.echo = ghost.echo /\ ghost'.judged = ghost.judged
    BY <1>1, <1>11, TickMoves
  <2>2. (One' => One) /\ (Two' => Two)
    BY <2>1 DEF One, Two
  <2>3. QED
    BY <1>2, <2>1, <2>2 DEF Echoed, Apart
<1>12. CASE UNCHANGED vars
  <2>1. UNCHANGED <<t, stuck, ring, asm, due, ghost, tx, ev, pend>>
    BY <1>12 DEF vars, handing, sending, wire, rx
  <2>2. Heard' = Heard /\ Back' = Back
    BY <2>1 DEF Heard, Back
  <2>3. Sending => Sending'
    <3>1. Lined => Lined'
      BY <2>1, <2>2, Zenon DEF Lined
    <3>2. Once => Once'
      BY <2>1, <2>2, Zenon DEF Once, Firsts, Early, OneFirst, NoFirst
    <3>3. Clean => Clean'
      BY <2>1, <2>2, Zenon DEF Clean
    <3>4. Doomed => Doomed'
      BY <2>1, <2>2, Zenon DEF Doomed, WrongByte, WrongNote, SameValue, Own, TxLen
    <3>5. QED
      BY <2>1, <3>1, <3>2, <3>3, <3>4 DEF Sending
  <2>4. (One' => One) /\ (Two' => Two)
    BY <2>1 DEF One, Two
  <2>5. QED
    BY <1>2, <2>1, <2>3, <2>4 DEF Echoed, Apart
<1>13. QED
  BY <1>3, <1>4, <1>5, <1>6, <1>7, <1>8, <1>9, <1>10, <1>11, <1>12
  DEF Next, TaskStep, Inside, TxEnds

\* A driver that was never opened has measured nothing and heard nothing.
LEMMA InitWire == Init => Rested /\ Echoed
<1> SUFFICES ASSUME Init PROVE Rested /\ Echoed
  OBVIOUS
<1>1. /\ stuck = FALSE /\ t = "none" /\ bus = 0 /\ ghost.still = 0 /\ ghost.early = FALSE
      /\ ghost.echo = "clean" /\ ghost.strayed = FALSE /\ ghost.judged = TRUE
  BY DEF Init
<1>2. Oldest \in Nat
  BY OldestIs
<1>3. Rested
  BY <1>1, <1>2 DEF Rested
<1>4. Echoed
  BY <1>1 DEF Echoed, Apart
<1>5. QED
  BY <1>3, <1>4

\* What the task knows of the wire, by the time it measures and by what it hears,
\* always holds.
THEOREM WireHolds == Spec => [](KLineInv /\ Rested /\ Echoed)
<1>1. Init => KLineInv /\ Rested /\ Echoed
  BY InitKLine, InitWire
<1>2. KLineInv /\ Rested /\ Echoed /\ [Next]_vars => (KLineInv /\ Rested /\ Echoed)'
  BY StepKLine, RestedKept, EchoedKept
<1>3. QED
  BY <1>1, <1>2, PTL DEF Spec

\* tx_once() calls a transmission sent if its echo came back whole and corrupted if
\* it did not, no echo is delivered as another node's message, and wait_before_tx()
\* lets no request go before the quiet time it owes.
THEOREM WireTheorem == Spec => []WireIsHeard
<1>1. KLineInv /\ Rested /\ Echoed => WireIsHeard
  BY DEF Rested, Echoed, WireIsHeard, EchoIsJudged, EchoStaysHome, QuietIsKept
<1>2. QED
  BY <1>1, WireHolds, PTL
===============================================================================
