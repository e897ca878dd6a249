------------------------------- MODULE VifClaims -------------------------------
(***************************************************************************)
(* The bus half of the vehicle interface (src/main/vif.c): two owners, the *)
(* link task and the shell, share the vehicle's buses.  A claim is against *)
(* a group of wiring (J1850 PWM and VPW are one group), a driver is taken  *)
(* down only by the thread that could be blocked in it, and anybody else   *)
(* asks.  Each step is one critical section of the claim lock, one driver  *)
(* call's start or end, or one step of a transmit worker, so the owners    *)
(* interleave where the code drops the lock.                               *)
(*                                                                         *)
(* A call that is refused changes nothing and is not an action.  Errors of *)
(* the drivers (open or close failing) and of the worker (not gone within  *)
(* TX_WAIT_MS) are nondeterministic.                                       *)
(***************************************************************************)
EXTENDS Naturals

CONSTANTS
  Owners,     \* vif_owner_t
  Link,       \* VIF_OWNER_LINK, the zero of the enumeration
  Buses,      \* vif_bus_t without VIF_BUS_NONE
  NoBus,      \* VIF_BUS_NONE
  NumGroups,  \* VIF_RES_COUNT
  GroupOf     \* bus_group()

Groups == 0 .. (NumGroups - 1)

ASSUME LinkIsOwner    == Link \in Owners
ASSUME NoBusIsNoBus   == NoBus \notin Buses
ASSUME NumGroupsIsNat == NumGroups \in Nat
ASSUME GroupOfIsTotal == GroupOf \in [Buses -> Groups]
ASSUME OwnersAreNamed == {"none", "worker"} \cap Owners = {}

VARIABLES
  claim,       \* g.claim[]: bus, owner, open, and whether tx_worker is set
  driver,      \* each bus driver: down, up, or partial after a failure
  worker,      \* the transmit task behind claim[g].tx_worker
  release_req, \* g.release_req[]
  recover_req, \* g.recover_req[]
  at,          \* where each owner's thread is
  job          \* the locals of the call it is in

vars == <<claim, driver, worker, release_req, recover_req, at, job>>

-------------------------------------------------------------------------------
(* The states a thread, a worker and a driver go through. *)

Transfers == {"recv", "exclusive", "submit", "poll"}

Places == {"idle",
           "checked",                  \* bus_owned_by() said yes, lock dropped
           "recv", "exclusive",        \* inside the driver
           "join", "joining",          \* bus_tx_worker_close()
           "closing", "erase",         \* ops->close(), then the claim's memset
           "claim", "starting", "opened", \* the rest of vif_bus_open()
           "scan"}                     \* the loop of vif_bus_release_all()

TearDown == {"join", "joining", "closing", "erase"}

Callers == {"none", "reopen", "failed", "close", "release"}

MaybeBus == Buses \cup {NoBus}

NoJob == [bus |-> NoBus, held |-> NoBus, kind |-> "recv", caller |-> "none",
          next |-> 0, bad |-> FALSE, service |-> "no"]

NoClaim == [bus |-> NoBus, owner |-> Link, open |-> FALSE, tx_worker |-> FALSE]

NoWorker == [state |-> "gone", bus |-> NoBus, stopping |-> FALSE]

ClaimType == [bus: MaybeBus, owner: Owners, open: BOOLEAN, tx_worker: BOOLEAN]

DriverType == {"down", "up", "partial"}

WorkerType == [state: {"gone", "idle", "pending", "done", "exited"},
               bus: MaybeBus, stopping: BOOLEAN]

JobType == [bus: MaybeBus, held: MaybeBus, kind: Transfers, caller: Callers,
            next: 0 .. NumGroups, bad: BOOLEAN,
            service: {"no", "release", "recover"}]

TypeOK ==
  /\ claim \in [Groups -> ClaimType]
  /\ driver \in [Buses -> DriverType]
  /\ worker \in [Groups -> WorkerType]
  /\ release_req \in [Owners -> BOOLEAN]
  /\ recover_req \in [Owners -> BOOLEAN]
  /\ at \in [Owners -> Places]
  /\ job \in [Owners -> JobType]

Init ==
  /\ claim = [g \in Groups |-> NoClaim]
  /\ driver = [b \in Buses |-> "down"]
  /\ worker = [g \in Groups |-> NoWorker]
  /\ release_req = [o \in Owners |-> FALSE]
  /\ recover_req = [o \in Owners |-> FALSE]
  /\ at = [o \in Owners |-> "idle"]
  /\ job = [o \in Owners |-> NoJob]

Goto(o, place, locals) ==
  /\ at' = [at EXCEPT ![o] = place]
  /\ job' = [job EXCEPT ![o] = locals]

requests == <<release_req, recover_req>>

Mine(o, g) == claim[g].bus # NoBus /\ claim[g].owner = o

Owned(o, b) ==
  LET c == claim[GroupOf[b]] IN c.bus = b /\ c.owner = o /\ c.open

-------------------------------------------------------------------------------
(* Transfers.  The claim is checked under the lock, and the driver or the  *)
(* worker is used after the lock is gone.                                  *)

Check(o, b, kind) ==
  /\ at[o] = "idle"
  /\ Owned(o, b)
  /\ Goto(o, "checked", [NoJob EXCEPT !.bus = b, !.kind = kind])
  /\ UNCHANGED <<claim, driver, worker, requests>>

\* Mutant: a synchronous call that does not wait for the worker.
EnterDriverAtOnce(o) ==
  /\ at[o] = "checked"
  /\ job[o].kind \in {"recv", "exclusive"}
  /\ Goto(o, job[o].kind, job[o])
  /\ UNCHANGED <<claim, driver, worker, requests>>

\* recv goes straight in; send, param and ioctl wait for the worker first.
EnterDriver(o) ==
  /\ at[o] = "checked"
  /\ job[o].kind \in {"recv", "exclusive"}
  /\ job[o].kind = "exclusive" => worker[GroupOf[job[o].bus]].state # "pending"
  /\ Goto(o, job[o].kind, job[o])
  /\ UNCHANGED <<claim, driver, worker, requests>>

LeaveDriver(o) ==
  /\ at[o] \in {"recv", "exclusive"}
  /\ Goto(o, "idle", NoJob)
  /\ UNCHANGED <<claim, driver, worker, requests>>

\* bus_tx_worker_wait() gives up: the driver is not entered.
WaitTimeout(o) ==
  /\ at[o] = "checked"
  /\ job[o].kind = "exclusive"
  /\ worker[GroupOf[job[o].bus]].state = "pending"
  /\ Goto(o, "idle", NoJob)
  /\ UNCHANGED <<claim, driver, worker, requests>>

\* The first submission on a claim creates the worker, bound to that bus's ops.
Submit(o) ==
  LET b == job[o].bus
      g == GroupOf[b]
  IN
  /\ at[o] = "checked"
  /\ job[o].kind = "submit"
  /\ \/ ~claim[g].tx_worker
     \/ worker[g].state = "idle" /\ ~worker[g].stopping
  /\ claim' = [claim EXCEPT ![g].tx_worker = TRUE]
  /\ worker' = [worker EXCEPT ![g] =
                  IF claim[g].tx_worker THEN [@ EXCEPT !.state = "pending"]
                  ELSE [state |-> "pending", bus |-> b, stopping |-> FALSE]]
  /\ Goto(o, "idle", NoJob)
  /\ UNCHANGED <<driver, requests>>

\* No memory for a worker, or the last message is not yet collected.
SubmitRefused(o) ==
  LET g == GroupOf[job[o].bus] IN
  /\ at[o] = "checked"
  /\ job[o].kind = "submit"
  /\ claim[g].tx_worker => worker[g].state # "idle" \/ worker[g].stopping
  /\ Goto(o, "idle", NoJob)
  /\ UNCHANGED <<claim, driver, worker, requests>>

\* A completed message is handed over once, and the worker is idle again.
Poll(o) ==
  LET g == GroupOf[job[o].bus] IN
  /\ at[o] = "checked"
  /\ job[o].kind = "poll"
  /\ worker' = IF claim[g].tx_worker /\ worker[g].state = "done"
                 THEN [worker EXCEPT ![g].state = "idle"] ELSE worker
  /\ Goto(o, "idle", NoJob)
  /\ UNCHANGED <<claim, driver, requests>>

\* transmit_task(): the message is sent, or found cancelled.
WorkerDone(g) ==
  /\ worker[g].state = "pending"
  /\ worker' = [worker EXCEPT ![g].state = "done"]
  /\ UNCHANGED <<claim, driver, requests, at, job>>

\* transmit_task() finds stopping set after one message, or woken with none;
\* a message submitted in between is left unsent.
WorkerExit(g) ==
  /\ worker[g].stopping
  /\ worker[g].state \in {"idle", "pending", "done"}
  /\ worker' = [worker EXCEPT ![g].state = "exited"]
  /\ UNCHANGED <<claim, driver, requests, at, job>>

-------------------------------------------------------------------------------
(* bus_driver_down(): stop the worker, then close the driver.  caller says *)
(* where control returns to.                                               *)

\* Mutant: the loop variable is stepped in the body and again in the header.
NextGroupTwice(o, failed) ==
  Goto(o, "scan", [NoJob EXCEPT !.next = job[o].next + 2,
                                !.bad = job[o].bad \/ failed,
                                !.service = job[o].service])

\* vif_bus_release_all() goes on with the next group.
NextGroup(o, failed) ==
  Goto(o, "scan", [NoJob EXCEPT !.next = job[o].next + 1,
                                !.bad = job[o].bad \/ failed,
                                !.service = job[o].service])

\* The way back of a caller whose bus_driver_down() failed: the claim stays,
\* closed, and a release goes on with the next group.
Retained(o) ==
  IF job[o].caller = "release" THEN NextGroup(o, TRUE) ELSE Goto(o, "idle", NoJob)

JoinBegin(o) ==
  LET g == GroupOf[job[o].held] IN
  /\ at[o] = "join"
  /\ IF claim[g].tx_worker
       THEN /\ worker' = [worker EXCEPT ![g].stopping = TRUE]
            /\ Goto(o, "joining", job[o])
       ELSE /\ Goto(o, "closing", job[o])
            /\ UNCHANGED worker
  /\ UNCHANGED <<claim, driver, requests>>

JoinOk(o) ==
  LET g == GroupOf[job[o].held] IN
  /\ at[o] = "joining"
  /\ worker[g].state = "exited"
  /\ worker' = [worker EXCEPT ![g] = NoWorker]
  /\ claim' = [claim EXCEPT ![g].tx_worker = FALSE]
  /\ Goto(o, "closing", job[o])
  /\ UNCHANGED <<driver, requests>>

\* Mutant: the driver is closed although its worker did not stop in time.
JoinTimeoutClosesAnyway(o) ==
  /\ at[o] = "joining"
  /\ worker[GroupOf[job[o].held]].state # "exited"
  /\ Goto(o, "closing", job[o])
  /\ UNCHANGED <<claim, driver, worker, requests>>

\* Mutant: the worker is forgotten although it did not stop in time.
JoinTimeoutForgets(o) ==
  /\ at[o] = "joining"
  /\ worker[GroupOf[job[o].held]].state # "exited"
  /\ claim' = [claim EXCEPT ![GroupOf[job[o].held]].tx_worker = FALSE]
  /\ Retained(o)
  /\ UNCHANGED <<driver, worker, requests>>

JoinTimeout(o) ==
  /\ at[o] = "joining"
  /\ worker[GroupOf[job[o].held]].state # "exited"
  /\ Retained(o)
  /\ UNCHANGED <<claim, driver, worker, requests>>

CloseOk(o, b) ==
  /\ at[o] = "closing"
  /\ job[o].held = b
  /\ driver' = [driver EXCEPT ![b] = "down"]
  /\ Goto(o, IF job[o].caller = "reopen" THEN "claim" ELSE "erase", job[o])
  /\ UNCHANGED <<claim, worker, requests>>

\* Mutant: the claim is given up although the driver did not close.
CloseFailErases(o) ==
  /\ at[o] = "closing"
  /\ driver' = [driver EXCEPT ![job[o].held] = "partial"]
  /\ Goto(o, "erase", job[o])
  /\ UNCHANGED <<claim, worker, requests>>

CloseFail(o) ==
  /\ at[o] = "closing"
  /\ driver' = [driver EXCEPT ![job[o].held] = "partial"]
  /\ Retained(o)
  /\ UNCHANGED <<claim, worker, requests>>

\* memset(&g.claim[grp], 0, sizeof(g.claim[grp]))
Erase(o) ==
  /\ at[o] = "erase"
  /\ claim' = [claim EXCEPT ![GroupOf[job[o].held]] = NoClaim]
  /\ IF job[o].caller = "release" THEN NextGroup(o, FALSE)
                                  ELSE Goto(o, "idle", NoJob)
  /\ UNCHANGED <<driver, worker, requests>>

-------------------------------------------------------------------------------
(* vif_bus_open() and vif_bus_close() on the owner's own thread.           *)

\* Mutant: the group is taken whoever holds it.
OpenBeginTakesOver(o, b) ==
  LET g == GroupOf[b] IN
  /\ at[o] = "idle"
  /\ claim' = [claim EXCEPT ![g].bus = b, ![g].owner = o, ![g].open = FALSE]
  /\ IF claim[g].bus = NoBus
       THEN Goto(o, "claim", [NoJob EXCEPT !.bus = b])
       ELSE Goto(o, "join", [NoJob EXCEPT !.bus = b, !.held = claim[g].bus,
                                          !.caller = "reopen"])
  /\ UNCHANGED <<driver, worker, requests>>

\* Refused while the other owner holds the group.  A free group is reserved at
\* once; a group this owner holds is closed first, whichever bus it runs.
OpenBegin(o, b) ==
  LET g == GroupOf[b] IN
  /\ at[o] = "idle"
  /\ claim[g].bus = NoBus \/ claim[g].owner = o
  /\ IF claim[g].bus = NoBus
       THEN /\ claim' = [claim EXCEPT ![g].bus = b, ![g].owner = o,
                                      ![g].open = FALSE]
            /\ Goto(o, "claim", [NoJob EXCEPT !.bus = b])
       ELSE /\ claim' = [claim EXCEPT ![g].open = FALSE]
            /\ Goto(o, "join", [NoJob EXCEPT !.bus = b, !.held = claim[g].bus,
                                             !.caller = "reopen"])
  /\ UNCHANGED <<driver, worker, requests>>

OpenClaim(o) ==
  /\ at[o] = "claim"
  /\ claim' = [claim EXCEPT ![GroupOf[job[o].bus]] =
                 [@ EXCEPT !.bus = job[o].bus, !.owner = o]]
  /\ Goto(o, "starting", [NoJob EXCEPT !.bus = job[o].bus])
  /\ UNCHANGED <<driver, worker, requests>>

StartOk(o) ==
  /\ at[o] = "starting"
  /\ driver' = [driver EXCEPT ![job[o].bus] = "up"]
  /\ Goto(o, "opened", job[o])
  /\ UNCHANGED <<claim, worker, requests>>

\* ops->open() failed, perhaps with some of it built: clean up.
StartFail(o) ==
  LET b == job[o].bus IN
  /\ at[o] = "starting"
  /\ \E left \in {"down", "partial"}: driver' = [driver EXCEPT ![b] = left]
  /\ Goto(o, "join", [NoJob EXCEPT !.bus = b, !.held = b, !.caller = "failed"])
  /\ UNCHANGED <<claim, worker, requests>>

Opened(o) ==
  /\ at[o] = "opened"
  /\ claim' = [claim EXCEPT ![GroupOf[job[o].bus]].open = TRUE]
  /\ Goto(o, "idle", NoJob)
  /\ UNCHANGED <<driver, worker, requests>>

\* Closes whatever bus of the group the owner holds.
CloseBegin(o, b) ==
  LET g == GroupOf[b] IN
  /\ at[o] = "idle"
  /\ Mine(o, g)
  /\ claim' = [claim EXCEPT ![g].open = FALSE]
  /\ Goto(o, "join", [NoJob EXCEPT !.held = claim[g].bus, !.caller = "close"])
  /\ UNCHANGED <<driver, worker, requests>>

-------------------------------------------------------------------------------
(* vif_bus_release_all(), vif_recover_all() and vif_owner_service().       *)

\* From any other thread: the owner is asked.
AskRelease(o) ==
  /\ release_req' = [release_req EXCEPT ![o] = TRUE]
  /\ UNCHANGED <<claim, driver, worker, recover_req, at, job>>

AskRecover ==
  /\ recover_req' = [o \in Owners |-> TRUE]
  /\ UNCHANGED <<claim, driver, worker, release_req, at, job>>

\* From the owner's own thread, a grammar switch for one: release them here.
ReleaseAll(o) ==
  /\ at[o] = "idle"
  /\ Goto(o, "scan", NoJob)
  /\ UNCHANGED <<claim, driver, worker, requests>>

\* The top of the owner's loop: take both requests and carry them out.
Service(o) ==
  /\ at[o] = "idle"
  /\ release_req[o] \/ recover_req[o]
  /\ release_req' = [release_req EXCEPT ![o] = FALSE]
  /\ recover_req' = [recover_req EXCEPT ![o] = FALSE]
  /\ Goto(o, "scan", [NoJob EXCEPT !.service =
                        IF recover_req[o] THEN "recover" ELSE "release"])
  /\ UNCHANGED <<claim, driver, worker>>

\* Mutant: a release leaves the bus open to transfers until it is torn down.
ScanLeavesOpen(o) ==
  LET g == job[o].next IN
  /\ at[o] = "scan"
  /\ g \in Groups
  /\ IF Mine(o, g)
       THEN Goto(o, "join", [job[o] EXCEPT !.held = claim[g].bus,
                                           !.caller = "release"])
       ELSE NextGroup(o, FALSE)
  /\ UNCHANGED <<claim, driver, worker, requests>>

Scan(o) ==
  LET g == job[o].next IN
  /\ at[o] = "scan"
  /\ g \in Groups
  /\ IF Mine(o, g)
       THEN /\ claim' = [claim EXCEPT ![g].open = FALSE]
            /\ Goto(o, "join", [job[o] EXCEPT !.held = claim[g].bus,
                                              !.caller = "release"])
       ELSE /\ NextGroup(o, FALSE)
            /\ UNCHANGED claim
  /\ UNCHANGED <<driver, worker, requests>>

\* Mutant: a pass that failed is not asked for again.
ScanDoneForgets(o) ==
  /\ at[o] = "scan"
  /\ job[o].next = NumGroups
  /\ Goto(o, "idle", NoJob)
  /\ UNCHANGED <<claim, driver, worker, requests>>

\* A pass of the service that could not finish asks for itself again.
ScanDone(o) ==
  LET again == job[o].bad /\ job[o].service # "no" IN
  /\ at[o] = "scan"
  /\ job[o].next = NumGroups
  /\ release_req' = [release_req EXCEPT ![o] = @ \/ again]
  /\ recover_req' = [recover_req EXCEPT ![o] =
                       @ \/ (again /\ job[o].service = "recover")]
  /\ Goto(o, "idle", NoJob)
  /\ UNCHANGED <<claim, driver, worker>>

-------------------------------------------------------------------------------

TearDownStep(o) ==
  \/ JoinBegin(o) \/ JoinOk(o) \/ JoinTimeout(o)
  \/ \E b \in Buses: CloseOk(o, b)
  \/ CloseFail(o) \/ Erase(o)

OpenStep(o) ==
  OpenClaim(o) \/ StartOk(o) \/ StartFail(o) \/ Opened(o)

TransferStep(o) ==
  \/ EnterDriver(o) \/ LeaveDriver(o) \/ WaitTimeout(o)
  \/ Submit(o) \/ SubmitRefused(o) \/ Poll(o)

\* What a thread does once it is inside a call: it always comes back.
Inside(o) ==
  TearDownStep(o) \/ OpenStep(o) \/ TransferStep(o) \/ Scan(o) \/ ScanDone(o)

\* What it may begin when it is not.
Begin(o) ==
  \/ \E b \in Buses: OpenBegin(o, b) \/ CloseBegin(o, b)
  \/ \E b \in Buses, kind \in Transfers: Check(o, b, kind)
  \/ ReleaseAll(o) \/ Service(o)

WorkerStep(g) == WorkerDone(g) \/ WorkerExit(g)

Next ==
  \/ \E o \in Owners: Inside(o) \/ Begin(o) \/ AskRelease(o)
  \/ AskRecover
  \/ \E g \in Groups: WorkerStep(g)

Spec == Init /\ [][Next]_vars

(***************************************************************************)
(* Fairness.  A driver call and a worker's transmission end, because each  *)
(* of them is bounded by a timeout of its own.  The owner's loop starts    *)
(* every pass with its service, so the service is not passed over for      *)
(* ever.  A driver that release passes ask to close again and again does   *)
(* close: that is the assumption the code makes by retrying, and only the  *)
(* last property below needs it.                                           *)
(***************************************************************************)
ReleaseCloses(o, b) == job[o].caller = "release" /\ CloseOk(o, b)

Fairness ==
  /\ \A o \in Owners: WF_vars(Inside(o)) /\ SF_vars(Service(o))
  /\ \A o \in Owners, b \in Buses: SF_vars(ReleaseCloses(o, b))
  /\ \A g \in Groups: WF_vars(WorkerStep(g))

FairSpec == Spec /\ Fairness

-------------------------------------------------------------------------------
(* What must hold.                                                         *)

InDriver(o, b) == at[o] \in {"recv", "exclusive"} /\ job[o].bus = b

Transmitting(b) ==
  worker[GroupOf[b]].state = "pending" /\ worker[GroupOf[b]].bus = b

Busy(b) == Transmitting(b) \/ \E o \in Owners: InDriver(o, b)

\* A thread inside a driver, the owner's or the worker's, never sees that
\* driver closed or being closed under it: the rule on_owner_thread() states
\* (vif.c:151-165), which a check made under a lock that is then dropped, a
\* failed close and a late worker all put at risk.
NobodyTornDown ==
  \A b \in Buses: Busy(b) =>
    /\ driver[b] = "up"
    /\ \A o \in Owners: job[o].held = b => at[o] \notin {"closing", "erase"}

\* The wiring of a group is driven by the claimed bus and by no other, failed
\* starts and failed closes included: PWM and VPW never both hold their pins.
WiringFollowsClaim ==
  \A b \in Buses: driver[b] # "down" => claim[GroupOf[b]].bus = b

\* A transmit task outlives neither the claim that points at it nor the bus it
\* was created for, though a close may give up waiting for it.
WorkerBelongsToClaim ==
  \A g \in Groups: worker[g].state # "gone" =>
    /\ claim[g].tx_worker
    /\ claim[g].bus # NoBus
    /\ worker[g].bus = claim[g].bus

\* A synchronous send, parameter or ioctl call is never inside the driver
\* together with the worker's transmission (vif_bus_send() and its siblings
\* wait for the worker first).
SendersExclude ==
  \A o \in Owners: at[o] = "exclusive" => ~Transmitting(job[o].bus)

\* Who leases a group, and the threads inside its drivers.
Holder(g) == IF claim[g].bus = NoBus THEN "none" ELSE claim[g].owner

Within(g) ==
  {o \in Owners: \E b \in Buses: GroupOf[b] = g /\ InDriver(o, b)}
  \cup {t \in {"worker"}: worker[g].state = "pending"}

Lease == INSTANCE GroupLease WITH
  NoOwner <- "none",
  holder  <- [g \in Groups |-> Holder(g)],
  inside  <- [g \in Groups |-> Within(g)]

\* Each group is a lease: one holder at a time, dropped only when no thread is
\* inside the group's driver.
LeaseSpec == Lease!LeaseSpec

AskedToRelease(o) == release_req[o]
AllShut(o) == \A g \in Groups: Mine(o, g) => ~claim[g].open
\* A release somebody asked for from another thread shuts every bus of the
\* owner to new transfers, whatever its drivers do (vif_owner_service()).
RequestShutsBuses == \A o \in Owners: AskedToRelease(o) ~> AllShut(o)

AskedWhileUp(o, b) == release_req[o] /\ Mine(o, GroupOf[b]) /\ driver[b] # "down"
Down(b) == driver[b] = "down"
\* ... and every driver that was up when its owner was asked is closed in the
\* end, however often the close failed on the way: a service pass that fails
\* asks for itself again.
RequestClosesDrivers ==
  \A o \in Owners, b \in Buses: AskedWhileUp(o, b) ~> Down(b)

-------------------------------------------------------------------------------
(* The inductive invariant behind the safety properties: what each place   *)
(* of an owner's thread knows about its group, and what a group's claim,   *)
(* drivers and worker know about one another.                              *)

\* Inside a transfer the claim is still this owner's, open, and for this bus.
TransferHolds(o) ==
  /\ at[o] \in {"checked", "recv", "exclusive"} =>
       job[o].bus \in Buses /\ Owned(o, job[o].bus)
  /\ at[o] = "exclusive" => worker[GroupOf[job[o].bus]].state # "pending"

\* Inside a teardown the claim is still this owner's, and shut; past the join
\* there is no worker, past the close no driver.
TearDownHolds(o) ==
  LET g == GroupOf[job[o].held] IN
  /\ at[o] \in TearDown =>
       /\ job[o].held \in Buses
       /\ claim[g].bus = job[o].held /\ claim[g].owner = o /\ ~claim[g].open
       /\ job[o].caller = "release" => job[o].next \in Groups
       /\ job[o].caller = "reopen" =>
            job[o].bus \in Buses /\ GroupOf[job[o].bus] = g
  /\ at[o] \in {"closing", "erase"} => ~claim[g].tx_worker
  /\ at[o] = "erase" => driver[job[o].held] = "down"

\* Inside an open the group is reserved, shut, and quiet until ops->open().
OpenHolds(o) ==
  LET g == GroupOf[job[o].bus] IN
  /\ at[o] \in {"claim", "starting", "opened"} =>
       /\ job[o].bus \in Buses
       /\ Mine(o, g) /\ ~claim[g].open /\ ~claim[g].tx_worker
  /\ at[o] \in {"claim", "starting"} =>
       \A b \in Buses: GroupOf[b] = g => driver[b] = "down"
  /\ at[o] \in {"starting", "opened"} => claim[g].bus = job[o].bus
  /\ at[o] = "opened" => driver[job[o].bus] = "up"

OwnerHolds(o) == TransferHolds(o) /\ TearDownHolds(o) /\ OpenHolds(o)

GroupHolds(g) ==
  /\ claim[g].bus \in Buses => GroupOf[claim[g].bus] = g
  /\ claim[g].open => claim[g].bus \in Buses /\ driver[claim[g].bus] = "up"
  /\ worker[g].state = "gone" => ~claim[g].tx_worker
  /\ worker[g].state # "gone" =>
       /\ claim[g].tx_worker
       /\ claim[g].bus \in Buses
       /\ worker[g].bus = claim[g].bus
  /\ worker[g].state = "pending" => driver[claim[g].bus] = "up"

ClaimsInv ==
  /\ TypeOK
  /\ WiringFollowsClaim
  /\ \A o \in Owners: OwnerHolds(o)
  /\ \A g \in Groups: GroupHolds(g)

===============================================================================
