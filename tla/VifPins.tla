-------------------------------- MODULE VifPins --------------------------------
(***************************************************************************)
(* The pin half of the vehicle interface (src/main/vif.c): one high-side   *)
(* and one low-side pin at a time, each with an owner; the factory         *)
(* calibration, which drives the pins itself for as long as a person takes *)
(* to type; and the K-Line driver (src/main/kline.c), whose L line is the  *)
(* low-side pin 15.  Pin calls are atomic under the claim lock.  The       *)
(* calibration, the K-Line calls and the K-Line task take a step at a time *)
(* outside it, and write the same outputs.                                 *)
(*                                                                         *)
(* The K-Line claim is VifClaims' claim on one group, with the teardown    *)
(* this module needs; who may hold it, and who waits, is settled there.    *)
(***************************************************************************)
EXTENDS Naturals

CONSTANTS
  Link, Shell,     \* vif_owner_t
  NoOwner,         \* a K-Line nobody has claimed
  HsPins, LsPins,  \* the pins of each kind; pin 9 is of both
  NoPin,           \* -1
  LLine,           \* LS_OBD_PIN_15
  CalPin           \* VIF_CAL_HS_PIN

Owners == {Link, Shell}
Pins == HsPins \cup LsPins

ASSUME OwnersDiffer == Link # Shell /\ NoOwner \notin Owners
ASSUME PinsAreReal == NoPin \notin Pins
ASSUME LLineIsLowSide == LLine \in LsPins \ HsPins
ASSUME CalPinIsHighSide == CalPin \in HsPins \ LsPins

VARIABLES
  hs, ls,       \* g.hs_pin and g.ls_pin, with their owners
  calibrating,  \* g.pins_calibrating
  high, low,    \* the outputs that are on: to the boost rail, to ground
  gains,        \* the calibration constants; a write flips it
  claim,        \* g.claim[VIF_RES_KLINE]: owner, open, l_line_reserved
  driver,       \* kline.c: uart installed, k_line_only, commands blocked, stop
  task,         \* the K-Line task, and the k_line_only it last read
  at,           \* where each owner's thread is
  arg           \* the locals of kline_set_only_with_pin_claim()

pins == <<hs, ls, calibrating>>
kline == <<claim, driver, task>>
pinVars == <<hs, ls, calibrating, high, low, gains, claim, driver, task, at, arg>>

Unset == [pin |-> NoPin, owner |-> Link]

NoKLine == [owner |-> NoOwner, open |-> FALSE, reserved |-> FALSE]

NoTask == [state |-> "none", l_line |-> FALSE]

NoArg == [enable |-> FALSE, was |-> FALSE, ok |-> FALSE, reopen |-> FALSE]

Places == {"idle",
           "reset", "drive", "measured", "drop",        \* vif_calibrate_hs()
           "store",                                     \* vif_calibration_set()
           "stop", "stopping", "release", "erase",      \* kline_close()
           "unreserve", "starting", "opened",           \* vif_bus_open()
           "set", "commit",                             \* K_LINE_ONLY
           "waiting"}                                   \* an initialisation

ClaimType == [owner: Owners \cup {NoOwner}, open: BOOLEAN, reserved: BOOLEAN]

DriverType == [uart: BOOLEAN, only: BOOLEAN, blocked: BOOLEAN, stop: BOOLEAN]

TaskType == [state: {"none", "idle", "queued", "init", "read", "exited"},
             l_line: BOOLEAN]

ArgType == [enable: BOOLEAN, was: BOOLEAN, ok: BOOLEAN, reopen: BOOLEAN]

TypeOK ==
  /\ hs \in [pin: HsPins \cup {NoPin}, owner: Owners]
  /\ ls \in [pin: LsPins \cup {NoPin}, owner: Owners]
  /\ calibrating \in BOOLEAN
  /\ high \subseteq HsPins
  /\ low \subseteq LsPins
  /\ gains \in BOOLEAN
  /\ claim \in ClaimType
  /\ driver \in DriverType
  /\ task \in TaskType
  /\ at \in [Owners -> Places]
  /\ arg \in [Owners -> ArgType]

PinsInit ==
  /\ hs = Unset /\ ls = Unset
  /\ calibrating = FALSE
  /\ high = {} /\ low = {}
  /\ gains = FALSE
  /\ claim = NoKLine
  /\ driver = [uart |-> FALSE, only |-> FALSE, blocked |-> FALSE, stop |-> FALSE]
  /\ task = NoTask
  /\ at = [o \in Owners |-> "idle"]
  /\ arg = [o \in Owners |-> NoArg]

Goto(o, place, locals) ==
  /\ at' = [at EXCEPT ![o] = place]
  /\ arg' = [arg EXCEPT ![o] = locals]

Stay == UNCHANGED <<at, arg>>

-------------------------------------------------------------------------------
(* vif_pin_set() and vif_pin_release_all(): one critical section each. *)

Free(side, p, o) == side.pin = NoPin \/ (side.pin = p /\ side.owner = o)

Off(side, p) == IF side.pin = p THEN [side EXCEPT !.pin = NoPin] ELSE side

PinOff(o, p) ==
  /\ at[o] = "idle"
  /\ hs.pin = p => hs.owner = o
  /\ ls.pin = p => ls.owner = o
  /\ hs' = Off(hs, p) /\ high' = (IF hs.pin = p THEN high \ {p} ELSE high)
  /\ ls' = Off(ls, p) /\ low' = (IF ls.pin = p THEN low \ {p} ELSE low)
  /\ Stay
  /\ UNCHANGED <<calibrating, gains, kline>>

\* Mutant: the boost rail is put on a pin that is pulled to ground.
VoltageUnchecked(o, p) ==
  /\ at[o] = "idle"
  /\ Free(hs, p, o)
  /\ hs' = [pin |-> p, owner |-> o]
  /\ high' = high \cup {p}
  /\ Stay
  /\ UNCHANGED <<ls, calibrating, low, gains, kline>>

Voltage(o, p) ==
  /\ at[o] = "idle"
  /\ ls.pin # p
  /\ Free(hs, p, o)
  /\ hs' = [pin |-> p, owner |-> o]
  /\ high' = high \cup {p}
  /\ Stay
  /\ UNCHANGED <<ls, calibrating, low, gains, kline>>

Ground(o, p) ==
  /\ at[o] = "idle"
  /\ ~(p = LLine /\ claim.reserved)
  /\ hs.pin # p
  /\ Free(ls, p, o)
  /\ ls' = [pin |-> p, owner |-> o]
  /\ low' = low \cup {p}
  /\ Stay
  /\ UNCHANGED <<hs, calibrating, high, gains, kline>>

\* The link's are also released from the control channel's thread, whatever
\* the link task is doing.
ReleasePins(o) ==
  LET mine(side) == side.pin # NoPin /\ side.owner = o IN
  /\ o = Link \/ at[o] = "idle"
  /\ hs' = IF mine(hs) THEN [hs EXCEPT !.pin = NoPin] ELSE hs
  /\ high' = IF mine(hs) THEN high \ {hs.pin} ELSE high
  /\ ls' = IF mine(ls) THEN [ls EXCEPT !.pin = NoPin] ELSE ls
  /\ low' = IF mine(ls) THEN low \ {ls.pin} ELSE low
  /\ Stay
  /\ UNCHANGED <<calibrating, gains, kline>>

-------------------------------------------------------------------------------
(* The factory calibration, on the shell's thread only. *)

CalClaim ==
  /\ at[Shell] = "idle"
  /\ ~claim.reserved /\ ~calibrating
  /\ hs.pin = NoPin \/ hs.owner = Shell
  /\ ls.pin = NoPin \/ ls.owner = Shell
  /\ high' = high \ {hs.pin}
  /\ low' = low \ {ls.pin}
  /\ hs' = [pin |-> CalPin, owner |-> Shell]
  /\ ls' = [ls EXCEPT !.pin = NoPin]
  /\ calibrating' = TRUE
  /\ Goto(Shell, "reset", NoArg)
  /\ UNCHANGED <<gains, kline>>

\* board_hs_ls_reset_state(): every output off, whoever claims it.
BoardReset == high' = {} /\ low' = {}

CalReset ==
  /\ at[Shell] = "reset"
  /\ BoardReset
  /\ Goto(Shell, "drive", NoArg)
  /\ UNCHANGED <<pins, gains, kline>>

CalDrive ==
  /\ at[Shell] = "drive"
  /\ high' = high \cup {CalPin}
  /\ Goto(Shell, "measured", NoArg)
  /\ UNCHANGED <<pins, low, gains, kline>>

\* The pins go off again, and the operator commits the constants or does not.
CalEnd ==
  /\ at[Shell] = "measured"
  /\ BoardReset
  /\ gains' \in BOOLEAN
  /\ Goto(Shell, "drop", NoArg)
  /\ UNCHANGED <<pins, kline>>

\* Mutant: the pin stays claimed after the board has switched it off.
CalDropKeepsPin ==
  /\ at[Shell] = "drop"
  /\ calibrating' = FALSE
  /\ Goto(Shell, "idle", NoArg)
  /\ UNCHANGED <<hs, ls, high, low, gains, kline>>

CalDrop ==
  /\ at[Shell] = "drop"
  /\ calibrating' = FALSE
  /\ hs' = IF hs.owner = Shell THEN [hs EXCEPT !.pin = NoPin] ELSE hs
  /\ Goto(Shell, "idle", NoArg)
  /\ UNCHANGED <<ls, high, low, gains, kline>>

\* vif_calibration_set(): the pins are looked at under the lock ...
CalSetCheck ==
  /\ at[Shell] = "idle"
  /\ hs.pin = NoPin /\ ls.pin = NoPin
  /\ Goto(Shell, "store", NoArg)
  /\ UNCHANGED <<pins, high, low, gains, kline>>

\* ... and the constant is stored after it.
CalSetStore ==
  /\ at[Shell] = "store"
  /\ gains' = ~gains
  /\ Goto(Shell, "idle", NoArg)
  /\ UNCHANGED <<pins, high, low, kline>>

-------------------------------------------------------------------------------
(* The K-Line claim, opened and closed. *)

KOpen(o) ==
  /\ at[o] = "idle"
  /\ claim.owner \in {NoOwner, o}
  /\ claim' = [claim EXCEPT !.owner = o, !.open = FALSE]
  /\ IF claim.owner = NoOwner
       THEN Goto(o, "unreserve", NoArg)
       ELSE Goto(o, "stop", [NoArg EXCEPT !.reopen = TRUE])
  /\ UNCHANGED <<pins, high, low, gains, driver, task>>

KClose(o) ==
  /\ at[o] = "idle"
  /\ claim.owner = o
  /\ claim' = [claim EXCEPT !.open = FALSE]
  /\ Goto(o, "stop", NoArg)
  /\ UNCHANGED <<pins, high, low, gains, driver, task>>

KStop(o) ==
  /\ at[o] = "stop"
  /\ IF task.state = "none"
       THEN Goto(o, "release", arg[o]) /\ UNCHANGED driver
       ELSE Goto(o, "stopping", arg[o]) /\ driver' = [driver EXCEPT !.stop = TRUE]
  /\ UNCHANGED <<pins, high, low, gains, claim, task>>

KJoined(o) ==
  /\ at[o] = "stopping"
  /\ task.state = "exited"
  /\ task' = NoTask
  /\ Goto(o, "release", arg[o])
  /\ UNCHANGED <<pins, high, low, gains, claim, driver>>

\* Mutant: the claim is given up although the task has not stopped.
KJoinTimeoutErases(o) ==
  /\ at[o] = "stopping"
  /\ task.state # "exited"
  /\ claim' = NoKLine
  /\ Goto(o, "idle", NoArg)
  /\ UNCHANGED <<pins, high, low, gains, driver, task>>

\* "worker did not exit; resources retained": the claim stays, closed.
KJoinTimeout(o) ==
  /\ at[o] = "stopping"
  /\ task.state # "exited"
  /\ Goto(o, "idle", NoArg)
  /\ UNCHANGED <<pins, high, low, gains, kline>>

ReleaseLLine == low' = IF driver.only THEN low ELSE low \ {LLine}

KRelease(o) ==
  /\ at[o] = "release"
  /\ ReleaseLLine
  /\ driver' = [driver EXCEPT !.uart = FALSE]
  /\ Goto(o, IF arg[o].reopen THEN "unreserve" ELSE "erase", NoArg)
  /\ UNCHANGED <<pins, high, gains, claim, task>>

\* uart_driver_delete() failed: retained as well.
KReleaseFail(o) ==
  /\ at[o] = "release"
  /\ driver.uart
  /\ ReleaseLLine
  /\ Goto(o, "idle", NoArg)
  /\ UNCHANGED <<pins, high, gains, kline>>

KErase(o) ==
  /\ at[o] = "erase"
  /\ claim' = NoKLine
  /\ Goto(o, "idle", NoArg)
  /\ UNCHANGED <<pins, high, low, gains, driver, task>>

KUnreserve(o) ==
  /\ at[o] = "unreserve"
  /\ claim' = [claim EXCEPT !.owner = o, !.reserved = FALSE]
  /\ Goto(o, "starting", NoArg)
  /\ UNCHANGED <<pins, high, low, gains, driver, task>>

\* cfg_defaults() turns the L line off before anything can use it.
KUp(o) ==
  /\ at[o] = "starting"
  /\ driver' = [uart |-> TRUE, only |-> TRUE, blocked |-> FALSE, stop |-> FALSE]
  /\ task' = [state |-> "idle", l_line |-> FALSE]
  /\ Goto(o, "opened", NoArg)
  /\ UNCHANGED <<pins, high, low, gains, claim>>

\* Anything from the UART to the task could not be had; what was is put back,
\* if it can be, and vif closes the driver once more.
KUpFail(o) ==
  /\ at[o] = "starting"
  /\ \E uart \in BOOLEAN:
       driver' = [uart |-> uart, only |-> TRUE, blocked |-> FALSE, stop |-> FALSE]
  /\ Goto(o, "stop", NoArg)
  /\ UNCHANGED <<pins, high, low, gains, claim, task>>

KOpened(o) ==
  /\ at[o] = "opened"
  /\ claim' = [claim EXCEPT !.open = TRUE]
  /\ Goto(o, "idle", NoArg)
  /\ UNCHANGED <<pins, high, low, gains, driver, task>>

-------------------------------------------------------------------------------
(* kline_set_only_with_pin_claim(): reserve, tell the driver, commit. *)

\* Mutant: pin 15 is reserved although a calibration is driving the pins.
ReserveWhileCalibrating(o, enable) ==
  /\ at[o] = "idle"
  /\ claim.owner = o /\ claim.open
  /\ enable => ls.pin # LLine
  /\ claim' = [claim EXCEPT !.reserved = @ \/ enable]
  /\ Goto(o, "set", [NoArg EXCEPT !.enable = enable, !.was = claim.reserved])
  /\ UNCHANGED <<pins, high, low, gains, driver, task>>

Reserve(o, enable) ==
  /\ at[o] = "idle"
  /\ claim.owner = o /\ claim.open
  /\ enable => ls.pin # LLine /\ ~calibrating
  /\ claim' = [claim EXCEPT !.reserved = @ \/ enable]
  /\ Goto(o, "set", [NoArg EXCEPT !.enable = enable, !.was = claim.reserved])
  /\ UNCHANGED <<pins, high, low, gains, driver, task>>

InitPending == task.state \in {"queued", "init", "read"}

\* Mutant: a timed-out initialisation still driving the pin does not refuse it.
SetOnlyDuringInit(o) ==
  LET changes == driver.only = arg[o].enable IN
  /\ at[o] = "set"
  /\ low' = IF changes THEN low \ {LLine} ELSE low
  /\ driver' = [driver EXCEPT !.only = ~arg[o].enable]
  /\ Goto(o, "commit", [arg[o] EXCEPT !.ok = TRUE])
  /\ UNCHANGED <<pins, high, gains, claim, task>>

\* kline_set_param(BUS_P_K_LINE_ONLY, !enable)
SetOnly(o) ==
  LET changes == driver.only = arg[o].enable
      busy    == driver.blocked \/ (changes /\ InitPending)
  IN
  /\ at[o] = "set"
  /\ low' = IF changes /\ ~busy THEN low \ {LLine} ELSE low
  /\ driver' = IF busy THEN driver ELSE [driver EXCEPT !.only = ~arg[o].enable]
  /\ Goto(o, "commit", [arg[o] EXCEPT !.ok = ~busy])
  /\ UNCHANGED <<pins, high, gains, claim, task>>

Commit(o) ==
  /\ at[o] = "commit"
  /\ claim' = [claim EXCEPT !.reserved =
                 IF arg[o].ok THEN arg[o].enable ELSE arg[o].was]
  /\ Goto(o, "idle", NoArg)
  /\ UNCHANGED <<pins, high, low, gains, driver, task>>

-------------------------------------------------------------------------------
(* An initialisation: the caller waits, the task drives K and the L line.  *)

InitCall(o) ==
  /\ at[o] = "idle"
  /\ claim.owner = o /\ claim.open
  /\ ~driver.blocked /\ ~InitPending
  /\ task' = [task EXCEPT !.state = "queued"]
  /\ Goto(o, "waiting", NoArg)
  /\ UNCHANGED <<pins, high, low, gains, claim, driver>>

InitReturn(o) ==
  /\ at[o] = "waiting"
  /\ ~InitPending
  /\ Goto(o, "idle", NoArg)
  /\ UNCHANGED <<pins, high, low, gains, kline>>

\* run_cmd() gives up waiting; the task does not, and no call gets through.
InitTimeout(o) ==
  /\ at[o] = "waiting"
  /\ InitPending
  /\ driver' = [driver EXCEPT !.blocked = TRUE]
  /\ Goto(o, "idle", NoArg)
  /\ UNCHANGED <<pins, high, low, gains, claim, task>>

\* The task takes the command; an unusable line ends it before any level.
TaskTake ==
  /\ task.state = "queued"
  /\ task' \in {[task EXCEPT !.state = s]: s \in {"init", "idle"}}
  /\ Stay
  /\ UNCHANGED <<pins, high, low, gains, claim, driver>>

\* init_set_level() tests k_line_only ...
TaskRead ==
  /\ task.state = "init"
  /\ task' = [state |-> "read", l_line |-> ~driver.only]
  /\ Stay
  /\ UNCHANGED <<pins, high, low, gains, claim, driver>>

\* ... and then writes the pin; the pattern's last level is always "off".
TaskWrite(on, last) ==
  /\ task.state = "read"
  /\ last => ~on
  /\ low' = IF ~task.l_line THEN low
            ELSE IF on THEN low \cup {LLine} ELSE low \ {LLine}
  /\ task' = [state |-> IF last THEN "idle" ELSE "init", l_line |-> FALSE]
  /\ Stay
  /\ UNCHANGED <<pins, high, gains, claim, driver>>

\* stop_requested is looked at before the queue: a late command never runs.
TaskExit ==
  /\ driver.stop
  /\ task.state \in {"idle", "queued"}
  /\ task' = [task EXCEPT !.state = "exited"]
  /\ Stay
  /\ UNCHANGED <<pins, high, low, gains, claim, driver>>

-------------------------------------------------------------------------------

\* Mutant: a pin is driven to a side it has no driver for.
PinStepAnySide(o) ==
  \/ \E p \in Pins: PinOff(o, p) \/ Voltage(o, p) \/ Ground(o, p)
  \/ ReleasePins(o)

PinStep(o) ==
  \/ \E p \in Pins: PinOff(o, p)
  \/ \E p \in HsPins: Voltage(o, p)
  \/ \E p \in LsPins: Ground(o, p)
  \/ ReleasePins(o)

CalStep ==
  \/ CalClaim \/ CalReset \/ CalDrive \/ CalEnd \/ CalDrop
  \/ CalSetCheck \/ CalSetStore

KLineStep(o) ==
  \/ KOpen(o) \/ KClose(o)
  \/ KStop(o) \/ KJoined(o) \/ KJoinTimeout(o) \/ KRelease(o) \/ KReleaseFail(o)
  \/ KErase(o) \/ KUnreserve(o) \/ KUp(o) \/ KUpFail(o) \/ KOpened(o)
  \/ \E enable \in BOOLEAN: Reserve(o, enable)
  \/ SetOnly(o) \/ Commit(o)
  \/ InitCall(o) \/ InitReturn(o) \/ InitTimeout(o)

LineTask ==
  TaskTake \/ TaskRead \/ TaskExit \/ \E on, last \in BOOLEAN: TaskWrite(on, last)

PinsNext == CalStep \/ LineTask \/ \E o \in Owners: PinStep(o) \/ KLineStep(o)

PinsSpec == PinsInit /\ [][PinsNext]_pinVars

-------------------------------------------------------------------------------
(* What must hold. *)

\* Every output that is on has somebody who will switch it off: no refused,
\* abandoned or interleaved call leaves a pin of the vehicle's connector live
\* behind everybody's back (vif_pin_set(), kline_set_only_with_pin_claim()).
NothingLeftLive ==
  /\ high \subseteq {hs.pin}
  /\ low \subseteq {ls.pin} \cup (IF claim.reserved THEN {LLine} ELSE {})

\* No pin is on the boost rail and pulled to ground at once, whoever drives
\* each side (vif_pin_set() cross-checks the two claims).
NoShortThrough == high \cap low = {}

\* Pin 15 is the L line or a grounded pin and never both, and a calibration,
\* which switches every output off, never runs over a live L line.
LLineHasOneUser ==
  claim.reserved => ls.pin # LLine /\ ~calibrating

\* The driver may only touch pin 15 while vif has it reserved: through a close
\* that was given up on, a set that was refused and a task past its deadline.
LLineIsReserved ==
  /\ driver.uart /\ ~driver.only => claim.reserved
  /\ task.l_line => claim.reserved

\* Outside a calibration, the high-side pin vif says is on is on.
HsBookkeepingIsTrue ==
  hs.pin # NoPin /\ ~calibrating => hs.pin \in high

\* The shared pins and their records: nobody's claim is used by somebody else
\* (vif_pin_set(), vif_calibrate_hs() and the K-Line's reservation together).
LinesAreKept == TypeOK /\ LLineHasOneUser /\ LLineIsReserved /\ HsBookkeepingIsTrue

\* What pins_claim_for_calibration()'s comment says its release keeps from
\* happening: "the bookkeeping would go on claiming a pin the calibration had
\* quietly switched off".
LsBookkeepingIsTrue == ls.pin # NoPin => ls.pin \in low

\* What vif_calibration_set()'s comment says: the constants do not move under a
\* pin that is energised; "wait until the connector is quiet instead".
ConstantsMoveWhenQuiet == [][gains' # gains => high = {}]_pinVars

-------------------------------------------------------------------------------
(* The inductive invariant behind the safety properties. *)

CalPlaces == {"reset", "drive", "measured", "drop"}

KPlaces == {"stop", "stopping", "release", "erase", "unreserve", "starting",
            "opened", "set", "commit", "waiting"}

LLineIsOn == LLine \in low /\ ls.pin # LLine

\* The two records never name one pin, and a calibration has its own.
SidesHold ==
  /\ hs.pin = ls.pin => hs.pin = NoPin
  /\ calibrating <=> at[Shell] \in CalPlaces
  /\ calibrating => hs = [pin |-> CalPin, owner |-> Shell]
  /\ at[Shell] = "drop" => high = {}

\* Only a driver told to use the L line, and a task that saw it told, drives it.
LineHolds ==
  /\ LLineIsOn => ~driver.only
  /\ task.l_line => task.state = "read" /\ ~driver.only
  /\ task.state # "none" => driver.uart
  /\ claim.open => driver.uart
  /\ claim.owner = NoOwner => ~driver.uart /\ ~claim.reserved

\* What each place of a thread inside a K-Line call knows.
CallHolds(o) ==
  /\ at[o] \in KPlaces => claim.owner = o
  /\ at[o] \in KPlaces \ {"set", "commit", "waiting"} => ~claim.open
  /\ claim.owner = o /\ at[o] \notin {"erase", "unreserve", "starting"} =>
       driver.uart \/ driver.only
  /\ at[o] \in {"release", "erase", "unreserve", "starting"} => task.state = "none"
  /\ at[o] \in {"erase", "unreserve"} => ~driver.uart /\ ~LLineIsOn
  /\ at[o] = "starting" => ~driver.uart /\ ~claim.reserved
  /\ at[o] = "opened" => driver.uart
  /\ at[o] \in {"set", "commit"} =>
       /\ claim.open
       /\ arg[o].enable \/ arg[o].was => claim.reserved
  /\ at[o] = "set" /\ ~arg[o].was => driver.only
  /\ at[o] = "commit" =>
       driver.only \/ (IF arg[o].ok THEN arg[o].enable ELSE arg[o].was)

PinsInv ==
  /\ TypeOK
  /\ NothingLeftLive
  /\ LLineHasOneUser /\ LLineIsReserved /\ HsBookkeepingIsTrue
  /\ SidesHold /\ LineHolds
  /\ \A o \in Owners: CallHolds(o)

===============================================================================
