------------------------------- MODULE BlePairing -------------------------------
(***************************************************************************)
(* The Bluetooth transport (ble_uart.c): who may connect, what is on the   *)
(* air, the pairing window and the session of a phone.  The LED is left    *)
(* out.                                                                    *)
(*                                                                         *)
(* Three threads: the host task of the Bluetooth stack, which runs every   *)
(* event and every posted job to its end; the button or the shell, which   *)
(* opens the window and forgets phones; and the timers, which shut the     *)
(* window and look after the advertisement.  The stack is external: it     *)
(* stores a bond before it reports the encryption, has one phone connected *)
(* at a time, lets in only the phones of the list when the advertisement   *)
(* is filtered, may stop advertising by itself, and may refuse any call,   *)
(* the reading of its store included.                                      *)
(***************************************************************************)
EXTENDS Naturals, FiniteSets

CONSTANTS
  Phones,
  Irks,       \* those that hand out an identity key
  MaxRefusals \* bound: events of the host task in which the stack refuses calls
NoPhone == "none"
ASSUME BleAssumption == NoPhone \notin Phones /\ Irks \subseteq Phones /\ MaxRefusals \in Nat

VARIABLES
  window,    \* "shut", "open", or "over": its minute is up and nobody has shut it
  firing,    \* pairing_window_expired() is about to run
  bonds,     \* the store
  known,     \* g_bond_count is not zero, and g_bonds_resolvable
  air,       \* what the controller advertises, "listed" to the phones of
  list,      \* the accept list, looked at while it is in use
  adv,       \* g_adv_state
  conn,      \* the phone connected
  latch,     \* of this connection: g_pairing_allowed, g_bonds_at_connect, g_bond_changed
  evicted,   \* g_evicted_conn is this connection
  session_open, \* g_session_open
  jobs, posted, \* g_pending_jobs, and its event in the queue
  taken,     \* the jobs the host task has read and not yet cleared
  refusals,
  amiss      \* history: of "stop" and "count", what failed and was not made good since

pairing == <<window, firing>>
airVars == <<air, list, adv>>
connVars == <<conn, latch, evicted, session_open>>
jobVars == <<jobs, posted, taken>>
failVars == <<refusals, amiss>>
bleVars == <<pairing, bonds, known, airVars, connVars, jobVars, failVars>>

NoLatch == [allowed |-> FALSE, bonds |-> 0, changed |-> FALSE]
Nothing == {"nothing"}
\* ble_uart_setup(), adv_init(): no phone is bonded yet.
BleInit ==
  /\ window = "shut" /\ firing = FALSE
  /\ bonds = {} /\ known = [some |-> FALSE, all |-> FALSE]
  /\ air = "off" /\ list = {} /\ adv = "silent"
  /\ conn = NoPhone /\ latch = NoLatch /\ evicted = FALSE /\ session_open = FALSE
  /\ jobs = {} /\ posted = FALSE /\ taken = Nothing /\ refusals = 0 /\ amiss = {}

-----------------------------------------------------------------------------
(* The policy *)

HostIdle == taken = Nothing
\* Those of these calls of a handler that fail.
Failing(calls) == {f \in SUBSET calls : f # {} => refusals < MaxRefusals}
Refusal(f) == refusals' = (IF f = {} THEN refusals ELSE refusals + 1)
NotesAmiss(f) == amiss' = f \cap {"stop", "count"}
\* bond_state_refresh(): none, if the store cannot be read.
Counted(f) ==
  LET some == bonds' # {} /\ "count" \notin f
  IN  known' = [some |-> some, all |-> some /\ bonds' \subseteq Irks]
\* ble_pair_policy_adv_state(), of what was last counted
Policy(w, k) ==
  CASE w = "open" -> "pairable" [] ~k.some -> "silent" [] ~k.all -> "degraded" [] OTHER -> "locked"
\* ble_pair_policy_latch(): what a connection is judged by, whatever comes later.
Latched(f) ==
  [allowed |-> window = "open", changed |-> FALSE,
   bonds |-> IF "number" \in f THEN 0 ELSE Cardinality(bonds)]
MayBond == latch.allowed \/ window = "open"

\* adv_apply(): off the air first; then to everybody or to the list, or, if the
\* list or its filter is refused, to everybody after all.  An advertisement that does
\* not stop is taken for the one started, and the list it uses cannot be changed.
\* Nothing while a phone is connected.
AdvApply(f) ==
  IF conn' # NoPhone THEN UNCHANGED airVars
  ELSE LET kept == "stop" \in f
           wanted == Policy(window', known')
           state == IF wanted = "locked" /\ ("list" \in f \/ (kept /\ air = "listed"))
                    THEN "degraded" ELSE wanted
           shown == CASE state = "silent" \/ "start" \in f -> "off"
                      [] state = "locked" -> "listed" [] OTHER -> "all"
       IN  /\ air' = (IF kept THEN air ELSE shown)
           /\ adv' = (IF state # "silent" /\ "start" \in f THEN adv ELSE state)
           /\ list' = (IF air' # "listed" THEN {} ELSE IF kept THEN list ELSE bonds')
AdvCalls == {"list", "start"}
\* There is something to stop.
Stop == IF air = "off" THEN {} ELSE {"stop"}

-----------------------------------------------------------------------------
(* The button, the shell and the timers *)

\* ble_job_post()
Posts(job) == jobs' = jobs \union job /\ posted' = TRUE /\ UNCHANGED taken

\* ble_uart_open_pairing_window(): the timer starts again, but a callback that
\* has begun cannot be stopped.
OpenWindow ==
  /\ window' = "open" /\ Posts({"refresh"})
  /\ UNCHANGED <<firing, bonds, known, airVars, connVars, failVars>>
\* ble_uart_forget_bonds()
ForgetBonds ==
  /\ Posts({"forget", "refresh"})
  /\ UNCHANGED <<pairing, bonds, known, airVars, connVars, failVars>>
MinuteElapses ==
  /\ window = "open" /\ window' = "over"
  /\ UNCHANGED <<firing, bonds, known, airVars, connVars, jobVars, failVars>>
TimerFires ==
  /\ window = "over" /\ ~firing /\ firing' = TRUE
  /\ UNCHANGED <<window, bonds, known, airVars, connVars, jobVars, failVars>>
ShutsWindow == window' = "shut"
\* Mutant of Expired: the host task is not told.
ExpiredQuietly ==
  /\ firing /\ firing' = FALSE /\ ShutsWindow
  /\ UNCHANGED <<bonds, known, airVars, connVars, jobVars, failVars>>
\* pairing_window_expired(): whichever window is open by now.
Expired ==
  /\ firing /\ firing' = FALSE /\ ShutsWindow /\ Posts({"refresh"})
  /\ UNCHANGED <<bonds, known, airVars, connVars, failVars>>
\* Mutant of Watchdog: what was last advertised is looked at.
WatchdogTrustsState ==
  /\ conn = NoPhone /\ air = "off" /\ adv # "silent" /\ Posts({"refresh"})
  /\ UNCHANGED <<pairing, bonds, known, airVars, connVars, failVars>>
\* adv_watchdog_tick()
Watchdog ==
  /\ conn = NoPhone /\ air = "off" /\ Policy(window, known) # "silent" /\ Posts({"refresh"})
  /\ UNCHANGED <<pairing, bonds, known, airVars, connVars, failVars>>

-----------------------------------------------------------------------------
(* The host task *)

\* ble_job_run(): the jobs are read and then cleared, two steps to those who post.
JobTaken ==
  /\ HostIdle /\ posted /\ posted' = FALSE /\ taken' = jobs
  /\ UNCHANGED <<pairing, bonds, known, airVars, connVars, jobs, failVars>>
JobRun ==
  /\ ~HostIdle /\ jobs' = {} /\ taken' = Nothing /\ UNCHANGED <<pairing, connVars, posted>>
  /\ \E f \in Failing(AdvCalls \union Stop \union {"read", "count"}) :
       /\ bonds' = (IF "forget" \in taken /\ "read" \notin f THEN {} ELSE bonds)
       /\ Counted(f) /\ AdvApply(f) /\ Refusal(f) /\ NotesAmiss(f)

\* The stack stops, and says nothing.
StopsByItself ==
  /\ air # "off" /\ refusals < MaxRefusals /\ refusals' = refusals + 1
  /\ air' = "off" /\ list' = {} /\ amiss' = amiss \ {"stop"}
  /\ UNCHANGED <<pairing, bonds, known, adv, connVars, jobVars>>
\* BLE_GAP_EVENT_ADV_COMPLETE, and a connection that failed.
AdvertisingEnds ==
  /\ HostIdle /\ air # "off" /\ amiss' = amiss \ {"stop"}
  /\ UNCHANGED <<pairing, bonds, known, connVars, jobVars>>
  /\ \E f \in Failing(AdvCalls) : AdvApply(f) /\ Refusal(f)

\* BLE_GAP_EVENT_CONNECT: a phone nobody expects is sent away.
Connects(p) ==
  /\ HostIdle /\ conn = NoPhone /\ air # "off" /\ (air = "listed" => p \in list)
  /\ conn' = p /\ air' = "off" /\ list' = {} /\ amiss' = amiss \ {"stop"}
  /\ UNCHANGED <<pairing, bonds, known, adv, jobVars>>
  /\ \E f \in Failing({"number", "read"}) :
       LET Expected == window = "open" \/ ~known.all \/ (p \in bonds /\ "read" \notin f)
       IN  evicted' = ~Expected /\ session_open' = Expected /\ latch' = Latched(f) /\ Refusal(f)
Ended ==
  /\ HostIdle /\ conn # NoPhone /\ conn' = NoPhone /\ evicted' = FALSE /\ session_open' = FALSE
  /\ latch' = NoLatch /\ UNCHANGED <<pairing, bonds, jobVars>>
\* Mutant of Disconnects: the bonds are not counted again.
DisconnectsUncounted ==
  Ended /\ \E f \in Failing(AdvCalls) :
             UNCHANGED known /\ AdvApply(f) /\ Refusal(f) /\ NotesAmiss(f)
\* BLE_GAP_EVENT_DISCONNECT
Disconnects ==
  Ended /\ \E f \in Failing(AdvCalls \union {"count"}) :
             Counted(f) /\ AdvApply(f) /\ Refusal(f) /\ NotesAmiss(f)

\* BLE_GAP_EVENT_ENC_CHANGE, the bond being stored: one more than there were is
\* dropped with its phone unless it was invited, and uses up the window if it was.
\* The bonds are numbered for each of the two.
Pairs == HostIdle /\ conn # NoPhone /\ ~evicted /\ \E f \in Failing({"number", "again", "count"}) :
  LET stored == bonds \union {conn}
      grown == Cardinality(stored) > latch.bonds
      uninvited == grown /\ "number" \notin f /\ ~MayBond
      used == (grown /\ "again" \notin f) \/ latch.changed
  IN  /\ evicted' = uninvited
      /\ bonds' = (IF uninvited THEN bonds \ {conn} ELSE stored)
      /\ IF used /\ ~uninvited THEN ShutsWindow ELSE UNCHANGED window
      /\ IF used \/ uninvited THEN Counted(f) ELSE UNCHANGED known
      /\ Refusal(f) /\ UNCHANGED <<firing, airVars, conn, latch, session_open, jobVars, amiss>>
\* BLE_GAP_EVENT_REPEAT_PAIRING: a phone that has forgotten this adapter.
PairsAgain ==
  /\ HostIdle /\ conn \in bonds /\ ~evicted /\ MayBond
  /\ bonds' = bonds \ {conn} /\ latch' = [latch EXCEPT !.changed = TRUE]
  /\ UNCHANGED <<pairing, known, airVars, conn, evicted, session_open, jobVars, failVars>>

-----------------------------------------------------------------------------
BleHostStep == JobTaken \/ JobRun
TimerStep == TimerFires \/ Expired
BleNext ==
  \/ OpenWindow \/ ForgetBonds \/ MinuteElapses \/ TimerStep \/ Watchdog
  \/ BleHostStep \/ StopsByItself \/ AdvertisingEnds \/ Disconnects
  \/ Pairs \/ PairsAgain
  \/ \E p \in Phones : Connects(p)
BleSpec == BleInit /\ [][BleNext]_bleVars
\* The stack's task runs, and so do the timers.
BleFairness == WF_bleVars(BleHostStep) /\ WF_bleVars(Watchdog) /\ WF_bleVars(TimerStep)
BleFairSpec == BleSpec /\ BleFairness

-----------------------------------------------------------------------------
(* Properties *)

\* A filtered advertisement lets in every phone that is bonded, and is used only when
\* each of them can be recognised: no owner is locked out, whatever the stack refuses.
\* It lets in nobody else, unless it is an old one that could not be stopped
\* (bond_state_refresh() and adv_apply() at every change of the store).
OwnersAreListed ==
  air = "listed" =>
    bonds \subseteq list \intersect Irks /\ ("stop" \notin amiss => list = bonds /\ bonds # {})
Wanted == conn = NoPhone /\ (bonds # {} \/ window = "open")
\* With nobody connected and somebody to talk to, the adapter is on the air
\* (adv_watchdog_tick(): off it, it is "indistinguishable from a dead one").  Every
\* interruption ends.
OnTheAir == Wanted => air # "off"
AirFollowsBonds ==
  IF bonds = {} THEN air = "off" ELSE bonds \subseteq Irks => (air # "all" \/ adv = "degraded")
\* With the window shut the advertisement is what the bonds call for, unless the
\* controller has refused the list (adv_apply()).  Every exception ends.
DoorIsShut == conn = NoPhone /\ window = "shut" => AirFollowsBonds
\* The adapter comes back to the air, and its door shuts, unless it could not stop the
\* old advertisement or could not count the bonds and nothing has happened since.
AirIsKept == []<>(amiss # {} \/ (OnTheAir /\ DoorIsShut))

\* Not so: bonds that cannot be read once count as none, which keeps the adapter off
\* the air, and the watchdog has the same count.
AirComesBack == []<>OnTheAir
\* Not so: an advertisement to everybody that does not stop passes for the filtered one.
DoorShuts == []<>DoorIsShut
\* Not so: an owner that encrypts its connection loses the bond if the bonds could not
\* be read when it connected, or if it was bonded since, in a window opened since.
OwnersStay == [][Pairs => bonds \subseteq bonds']_bleVars
\* Not so: a callback that has begun shuts the window that was opened since.
WindowLastsItsMinute == [][window = "open" /\ window' = "shut" => Pairs]_bleVars
\* Not so: a request posted between the reading and the clearing is lost.
ForgetIsServed == ("forget" \in jobs) ~> bonds = {}
=============================================================================
