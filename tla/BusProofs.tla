------------------------------ MODULE BusProofs ------------------------------
(***************************************************************************)
(* Proofs about who holds a bus (VifClaims) and about the CAN driver, the  *)
(* bus most of them are after (CanBus).  They share nothing; each has a    *)
(* part of this module.                                                    *)
(***************************************************************************)
EXTENDS VifClaims, CanBus, SequenceTheorems, TLAPS

-------------------------------------------------------------------------------
(***************************************************************************)
(* VifClaims, for any number of owners, buses and groups: its invariant,   *)
(* and that it implements GroupLease.                                      *)
(***************************************************************************)

LEMMA InitClaims == Init => ClaimsInv
<1> SUFFICES ASSUME Init PROVE ClaimsInv
  OBVIOUS
<1> USE LinkIsOwner, NoBusIsNoBus, NumGroupsIsNat, GroupOfIsTotal
<1>1. TypeOK
  BY DEF Init, TypeOK, NoClaim, NoWorker, NoJob, MaybeBus, Places, Callers,
         Transfers, Groups, ClaimType, DriverType, WorkerType, JobType
<1>2. WiringFollowsClaim
  BY DEF Init, WiringFollowsClaim
<1>3. \A o \in Owners: OwnerHolds(o)
  BY DEF Init, OwnerHolds, TransferHolds, TearDownHolds, OpenHolds, TearDown
<1>4. \A g \in Groups: GroupHolds(g)
  BY DEF Init, GroupHolds, NoClaim, NoWorker
<1>5. QED
  BY <1>1, <1>2, <1>3, <1>4 DEF ClaimsInv

LEMMA NoJobType == NoJob \in JobType
BY NumGroupsIsNat DEF NoJob, JobType, MaybeBus, Transfers, Callers

\* An owner's step that disturbs only one group, which nobody else holds: what
\* is left to show is what the owner and that group look like afterwards.
LEMMA OwnerStep ==
  ASSUME ClaimsInv, NEW o \in Owners, NEW g \in Groups,
         claim[g].bus = NoBus \/ claim[g].owner = o,
         claim' \in [Groups -> ClaimType],
         \A h \in Groups: h # g => claim'[h] = claim[h],
         worker' \in [Groups -> WorkerType],
         \A h \in Groups: h # g => worker'[h] = worker[h],
         driver' \in [Buses -> DriverType],
         \A b \in Buses: GroupOf[b] # g => driver'[b] = driver[b],
         release_req' \in [Owners -> BOOLEAN],
         recover_req' \in [Owners -> BOOLEAN],
         NEW place \in Places, NEW locals \in JobType, Goto(o, place, locals),
         \A b \in Buses: GroupOf[b] = g /\ driver'[b] # "down" => claim'[g].bus = b,
         OwnerHolds(o)',
         GroupHolds(g)'
  PROVE  ClaimsInv'
<1> USE NoBusIsNoBus, GroupOfIsTotal DEF ClaimsInv
<1>1. TypeOK'
  BY DEF TypeOK, Goto
<1>2. WiringFollowsClaim'
  BY DEF WiringFollowsClaim, TypeOK
<1>3. ASSUME NEW p \in Owners, p # o PROVE OwnerHolds(p)'
  <2>1. at'[p] = at[p] /\ job'[p] = job[p]
    BY <1>3 DEF Goto, TypeOK
  <2>2. OwnerHolds(p)
    OBVIOUS
  <2>3. TransferHolds(p)'
    BY <1>3, <2>1, <2>2 DEF OwnerHolds, TransferHolds, Owned
  <2>4. TearDownHolds(p)'
    BY <1>3, <2>1, <2>2 DEF OwnerHolds, TearDownHolds, TearDown
  <2>5. OpenHolds(p)'
    BY <1>3, <2>1, <2>2 DEF OwnerHolds, OpenHolds, Mine
  <2>6. QED
    BY <2>3, <2>4, <2>5 DEF OwnerHolds
<1>4. ASSUME NEW h \in Groups, h # g PROVE GroupHolds(h)'
  BY <1>4 DEF GroupHolds
<1>5. QED
  BY <1>1, <1>2, <1>3, <1>4

\* A step that moves only an owner's thread.
LEMMA ControlStep ==
  ASSUME ClaimsInv, NEW o \in Owners,
         UNCHANGED <<claim, driver, worker>>,
         release_req' \in [Owners -> BOOLEAN],
         recover_req' \in [Owners -> BOOLEAN],
         NEW place \in Places, NEW locals \in JobType, Goto(o, place, locals),
         OwnerHolds(o)'
  PROVE  ClaimsInv'
<1> USE DEF ClaimsInv
<1>1. TypeOK'
  BY DEF TypeOK, Goto
<1>2. WiringFollowsClaim'
  BY DEF WiringFollowsClaim
<1>3. ASSUME NEW p \in Owners, p # o PROVE OwnerHolds(p)'
  <2>1. at'[p] = at[p] /\ job'[p] = job[p]
    BY <1>3 DEF Goto, TypeOK
  <2>2. TransferHolds(p)'
    BY <2>1 DEF OwnerHolds, TransferHolds, Owned
  <2>3. TearDownHolds(p)'
    BY <2>1 DEF OwnerHolds, TearDownHolds
  <2>4. OpenHolds(p)'
    BY <2>1 DEF OwnerHolds, OpenHolds, Mine
  <2>5. QED
    BY <2>2, <2>3, <2>4 DEF OwnerHolds
<1>4. ASSUME NEW g \in Groups PROVE GroupHolds(g)'
  BY <1>4 DEF GroupHolds
<1>5. QED
  BY <1>1, <1>2, <1>3, <1>4

-------------------------------------------------------------------------------
(* The owner's control steps: no claim, driver or worker changes.          *)

\* Where a thread is after Goto, and that idle and scanning threads know
\* nothing about any group.
LEMMA GotoPlace ==
  ASSUME TypeOK, NEW o \in Owners, NEW place, NEW locals, Goto(o, place, locals)
  PROVE  at'[o] = place /\ job'[o] = locals
BY DEF Goto, TypeOK

LEMMA RestingHolds ==
  ASSUME NEW o \in Owners, at'[o] \in {"idle", "scan"}
  PROVE  OwnerHolds(o)'
BY DEF OwnerHolds, TransferHolds, TearDownHolds, OpenHolds, TearDown

LEMMA TransferControlKeeps ==
  ASSUME ClaimsInv, NEW o \in Owners,
         \/ \E b \in Buses, kind \in Transfers: Check(o, b, kind)
         \/ EnterDriver(o) \/ LeaveDriver(o) \/ WaitTimeout(o) \/ SubmitRefused(o)
  PROVE  ClaimsInv'
<1> USE NoJobType DEF ClaimsInv, requests
<1>1. ASSUME NEW b \in Buses, NEW kind \in Transfers, Check(o, b, kind)
      PROVE  ClaimsInv'
  <2> DEFINE locals == [NoJob EXCEPT !.bus = b, !.kind = kind]
  <2>1. locals \in JobType /\ locals.bus = b
    BY DEF JobType, NoJob, MaybeBus
  <2>2. at'[o] = "checked" /\ job'[o] = locals
    BY <1>1, GotoPlace DEF Check
  <2>4. "checked" \in Places
    BY DEF Places
  <2>5. Goto(o, "checked", locals) /\ UNCHANGED <<claim, driver, worker, requests>>
    BY <1>1 DEF Check, locals
  <2> HIDE DEF locals
  <2>3. OwnerHolds(o)'
    BY <1>1, <2>1, <2>2, <2>5
    DEF Check, OwnerHolds, TransferHolds, TearDownHolds, OpenHolds, TearDown, Owned
  <2>6. QED
    BY <2>1, <2>3, <2>4, <2>5, ControlStep DEF TypeOK
<1>2. CASE EnterDriver(o)
  <2>1. at'[o] = job[o].kind /\ job'[o] = job[o]
    BY <1>2, GotoPlace DEF EnterDriver
  <2>2. OwnerHolds(o)'
    <3>1. TransferHolds(o)'
      BY <1>2, <2>1 DEF EnterDriver, OwnerHolds, TransferHolds, Owned
    <3>2. TearDownHolds(o)' /\ OpenHolds(o)'
      BY <1>2, <2>1 DEF EnterDriver, TearDownHolds, OpenHolds, TearDown
    <3>3. QED
      BY <3>1, <3>2 DEF OwnerHolds
  <2>3. job[o].kind \in Places /\ job[o] \in JobType
    BY <1>2 DEF EnterDriver, Places, TypeOK
  <2>4. QED
    BY <1>2, <2>2, <2>3, ControlStep DEF EnterDriver, TypeOK
<1>3. CASE LeaveDriver(o) \/ WaitTimeout(o) \/ SubmitRefused(o)
  <2>1. Goto(o, "idle", NoJob) /\ UNCHANGED <<claim, driver, worker, requests>>
    BY <1>3 DEF LeaveDriver, WaitTimeout, SubmitRefused
  <2>2. at'[o] = "idle" /\ "idle" \in Places
    BY <2>1, GotoPlace DEF Places
  <2>3. QED
    BY <2>1, <2>2, RestingHolds, ControlStep DEF TypeOK
<1>4. QED
  BY <1>1, <1>2, <1>3

\* The way back of a failed bus_driver_down() and the step to the next group.
LEMMA NextGroupType ==
  ASSUME ClaimsInv, NEW o \in Owners, NEW bad \in BOOLEAN,
         job[o].next \in Groups, NextGroup(o, bad)
  PROVE  \E locals \in JobType: Goto(o, "scan", locals)
<1> DEFINE locals == [NoJob EXCEPT !.next = job[o].next + 1,
                                   !.bad = job[o].bad \/ bad,
                                   !.service = job[o].service]
<1>1. job[o] \in JobType
  BY DEF ClaimsInv, TypeOK
<1>2. job[o].next + 1 \in 0 .. NumGroups
  BY NumGroupsIsNat DEF Groups
<1>3. job[o].bad \/ bad \in BOOLEAN
  OBVIOUS
<1>4. locals \in JobType
  BY <1>1, <1>2, <1>3, NoJobType DEF JobType
<1>5. QED
  BY <1>4 DEF NextGroup

LEMMA RetainedType ==
  ASSUME ClaimsInv, NEW o \in Owners, at[o] \in TearDown, Retained(o)
  PROVE  \E place \in {"idle", "scan"}, locals \in JobType: Goto(o, place, locals)
<1>1. CASE job[o].caller = "release"
  <2>1. job[o].next \in Groups /\ NextGroup(o, TRUE)
    BY <1>1 DEF Retained, ClaimsInv, OwnerHolds, TearDownHolds
  <2>2. QED
    BY <2>1, NextGroupType
<1>2. CASE job[o].caller # "release"
  BY <1>2, NoJobType DEF Retained
<1>3. QED
  BY <1>1, <1>2

LEMMA ReleaseControlKeeps ==
  ASSUME ClaimsInv, NEW o \in Owners,
         ReleaseAll(o) \/ Service(o) \/ ScanDone(o) \/ JoinTimeout(o)
  PROVE  ClaimsInv'
<1> USE NoJobType DEF ClaimsInv, requests
<1>1. "idle" \in Places /\ "scan" \in Places
  BY DEF Places
<1>2. CASE ReleaseAll(o)
  <2>1. at'[o] = "scan"
    BY <1>2, GotoPlace DEF ReleaseAll
  <2>2. QED
    BY <1>1, <1>2, <2>1, RestingHolds, ControlStep DEF ReleaseAll, TypeOK
<1>3. CASE Service(o)
  <2> DEFINE locals == [NoJob EXCEPT !.service =
                          IF recover_req[o] THEN "recover" ELSE "release"]
  <2>1. locals \in JobType
    BY DEF JobType
  <2>2. Goto(o, "scan", locals) /\ at'[o] = "scan"
    BY <1>3, GotoPlace DEF Service
  <2> HIDE DEF locals
  <2>3. UNCHANGED <<claim, driver, worker>>
    BY <1>3 DEF Service
  <2>4. release_req' \in [Owners -> BOOLEAN] /\ recover_req' \in [Owners -> BOOLEAN]
    BY <1>3 DEF Service, TypeOK
  <2>5. QED
    BY <1>1, <2>1, <2>2, <2>3, <2>4, RestingHolds, ControlStep
<1>4. CASE ScanDone(o)
  <2>1. Goto(o, "idle", NoJob) /\ at'[o] = "idle"
    BY <1>4, GotoPlace DEF ScanDone
  <2>2. UNCHANGED <<claim, driver, worker>>
    BY <1>4 DEF ScanDone
  <2>3. release_req' \in [Owners -> BOOLEAN] /\ recover_req' \in [Owners -> BOOLEAN]
    BY <1>4 DEF ScanDone, TypeOK
  <2>4. QED
    BY <1>1, <2>1, <2>2, <2>3, RestingHolds, ControlStep
<1>5. CASE JoinTimeout(o)
  <2>1. PICK place \in {"idle", "scan"}, locals \in JobType: Goto(o, place, locals)
    BY <1>5, RetainedType DEF JoinTimeout, TearDown
  <2>2. at'[o] = place
    BY <2>1, GotoPlace
  <2>3. UNCHANGED <<claim, driver, worker, requests>>
    BY <1>5 DEF JoinTimeout
  <2>4. QED
    BY <1>1, <2>1, <2>2, <2>3, RestingHolds, ControlStep DEF TypeOK
<1>6. QED
  BY <1>2, <1>3, <1>4, <1>5

LEMMA AskKeeps ==
  ASSUME ClaimsInv, AskRecover \/ \E o \in Owners: AskRelease(o)
  PROVE  ClaimsInv'
<1> USE DEF ClaimsInv, AskRecover, AskRelease
<1>1. TypeOK'
  BY DEF TypeOK
<1>2. WiringFollowsClaim'
  BY DEF WiringFollowsClaim
<1>3. \A o \in Owners: OwnerHolds(o)'
  BY DEF OwnerHolds, TransferHolds, TearDownHolds, OpenHolds, Owned, Mine
<1>4. \A g \in Groups: GroupHolds(g)'
  BY DEF GroupHolds
<1>5. QED
  BY <1>1, <1>2, <1>3, <1>4

-------------------------------------------------------------------------------
(* The worker.                                                             *)

LEMMA SubmitKeeps ==
  ASSUME ClaimsInv, NEW o \in Owners, Submit(o)
  PROVE  ClaimsInv'
<1> USE NoBusIsNoBus, GroupOfIsTotal DEF requests
<1>1. PICK b \in Buses: b = job[o].bus
  BY DEF ClaimsInv, OwnerHolds, TransferHolds, Submit
<1>2. PICK g \in Groups: g = GroupOf[b]
  BY <1>1
<1>3. claim[g].bus = b /\ claim[g].owner = o /\ claim[g].open
  BY <1>1, <1>2 DEF ClaimsInv, OwnerHolds, TransferHolds, Submit, Owned
<1>4. claim' = [claim EXCEPT ![g].tx_worker = TRUE]
  BY <1>1, <1>2 DEF Submit
<1>5. worker' = [worker EXCEPT ![g] =
                   IF claim[g].tx_worker THEN [@ EXCEPT !.state = "pending"]
                   ELSE [state |-> "pending", bus |-> b, stopping |-> FALSE]]
  BY <1>1, <1>2 DEF Submit
<1>6. claim[g] \in ClaimType /\ worker[g] \in WorkerType
  BY DEF ClaimsInv, TypeOK
<1>7. claim' \in [Groups -> ClaimType] /\ worker' \in [Groups -> WorkerType]
  BY <1>4, <1>5, <1>6 DEF ClaimsInv, TypeOK, ClaimType, WorkerType, MaybeBus
<1>8. claim'[g] = [claim[g] EXCEPT !.tx_worker = TRUE]
  BY <1>4 DEF ClaimsInv, TypeOK
<1>9. \A h \in Groups: h # g => claim'[h] = claim[h] /\ worker'[h] = worker[h]
  BY <1>4, <1>5 DEF ClaimsInv, TypeOK
<1>10. GroupHolds(g)'
  <2>1. worker'[g] = IF claim[g].tx_worker THEN [worker[g] EXCEPT !.state = "pending"]
                     ELSE [state |-> "pending", bus |-> b, stopping |-> FALSE]
    BY <1>5 DEF ClaimsInv, TypeOK
  <2>2. /\ claim'[g].bus = b /\ claim'[g].open /\ claim'[g].tx_worker
        /\ claim'[g].owner = o
    BY <1>3, <1>6, <1>8 DEF ClaimType
  <2>3. claim[g].tx_worker => worker[g].state = "idle" /\ ~worker[g].stopping
    BY <1>1, <1>2 DEF Submit
  <2>4. GroupHolds(g)
    BY DEF ClaimsInv
  <2>5. /\ worker'[g].state = "pending" /\ ~worker'[g].stopping /\ worker'[g].bus = b
    BY <1>3, <1>6, <2>1, <2>3, <2>4 DEF GroupHolds, WorkerType
  <2>6. driver'[b] = "up" /\ GroupOf[b] = g
    BY <1>2, <1>3, <2>4 DEF Submit, GroupHolds
  <2>7. QED
    BY <1>1, <2>2, <2>5, <2>6 DEF GroupHolds
<1>11. \A c \in Buses: GroupOf[c] = g /\ driver'[c] # "down" => claim'[g].bus = c
  <2>1. claim'[g].bus = claim[g].bus /\ driver' = driver
    BY <1>6, <1>8 DEF Submit, ClaimType
  <2>2. QED
    BY <2>1 DEF ClaimsInv, WiringFollowsClaim
<1>12. Goto(o, "idle", NoJob) /\ at'[o] = "idle" /\ "idle" \in Places
  BY GotoPlace DEF Submit, ClaimsInv, Places
<1>13. UNCHANGED <<driver, release_req, recover_req>>
  BY DEF Submit
<1>14. QED
  BY <1>3, <1>7, <1>9, <1>10, <1>11, <1>12, <1>13, RestingHolds, OwnerStep, NoJobType
  DEF ClaimsInv, TypeOK

LEMMA PollKeeps ==
  ASSUME ClaimsInv, NEW o \in Owners, Poll(o)
  PROVE  ClaimsInv'
<1> USE NoBusIsNoBus, GroupOfIsTotal DEF requests
<1>1. PICK g \in Groups: g = GroupOf[job[o].bus] /\ claim[g].owner = o
  BY DEF ClaimsInv, OwnerHolds, TransferHolds, Owned, Poll
<1>2. worker' = IF claim[g].tx_worker /\ worker[g].state = "done"
                  THEN [worker EXCEPT ![g].state = "idle"] ELSE worker
  BY <1>1 DEF Poll
<1>3. claim[g] \in ClaimType /\ worker[g] \in WorkerType
  BY DEF ClaimsInv, TypeOK
<1>4. worker' \in [Groups -> WorkerType]
  BY <1>2, <1>3 DEF ClaimsInv, TypeOK, WorkerType
<1>5. \A h \in Groups: h # g => worker'[h] = worker[h]
  BY <1>2 DEF ClaimsInv, TypeOK
<1>6. UNCHANGED <<claim, driver, release_req, recover_req>>
  BY DEF Poll
<1>7. GroupHolds(g)'
  BY <1>2, <1>3, <1>6 DEF ClaimsInv, TypeOK, GroupHolds, WorkerType
<1>8. Goto(o, "idle", NoJob) /\ at'[o] = "idle" /\ "idle" \in Places
  BY GotoPlace DEF Poll, ClaimsInv, Places
<1>9. QED
  BY <1>1, <1>4, <1>5, <1>6, <1>7, <1>8, RestingHolds, OwnerStep, NoJobType
  DEF ClaimsInv, TypeOK, WiringFollowsClaim

LEMMA WorkerStepKeeps ==
  ASSUME ClaimsInv, NEW g \in Groups, WorkerStep(g)
  PROVE  ClaimsInv'
<1> USE DEF WorkerStep, WorkerDone, WorkerExit, requests
<1>1. TypeOK'
  <2>1. \E s \in {"done", "exited"}: worker' = [worker EXCEPT ![g].state = s]
    OBVIOUS
  <2>2. worker[g] \in WorkerType
    BY DEF ClaimsInv, TypeOK
  <2>3. worker' \in [Groups -> WorkerType]
    BY <2>1, <2>2 DEF ClaimsInv, TypeOK, WorkerType
  <2>4. UNCHANGED <<claim, driver, release_req, recover_req, at, job>>
    OBVIOUS
  <2>5. QED
    BY <2>3, <2>4 DEF ClaimsInv, TypeOK
<1>2. WiringFollowsClaim'
  BY DEF ClaimsInv, WiringFollowsClaim
<1>3. ASSUME NEW p \in Owners PROVE OwnerHolds(p)'
  <2>1. OwnerHolds(p)
    BY DEF ClaimsInv
  <2>2. TransferHolds(p)'
    <3>1. \A h \in Groups: worker'[h].state = "pending" => worker[h].state = "pending"
      BY DEF ClaimsInv, TypeOK, WorkerType
    <3>2. UNCHANGED <<claim, at, job>>
      OBVIOUS
    <3>3. QED
      BY <2>1, <3>1, <3>2, GroupOfIsTotal DEF OwnerHolds, TransferHolds, Owned
  <2>3. TearDownHolds(p)' /\ OpenHolds(p)'
    BY <2>1 DEF OwnerHolds, TearDownHolds, OpenHolds, Mine
  <2>4. QED
    BY <2>2, <2>3 DEF OwnerHolds
<1>4. ASSUME NEW h \in Groups PROVE GroupHolds(h)'
  BY SMTT(30), <1>4 DEF ClaimsInv, TypeOK, GroupHolds, WorkerType
<1>5. QED
  BY <1>1, <1>2, <1>3, <1>4 DEF ClaimsInv

-------------------------------------------------------------------------------
(* Taking a driver down.                                                   *)

\* What the thread that tears a driver down knows about the group.
LEMMA TearDownFacts ==
  ASSUME ClaimsInv, NEW o \in Owners, at[o] \in TearDown
  PROVE  \E b \in Buses, g \in Groups:
           /\ job[o].held = b /\ GroupOf[b] = g
           /\ claim[g].bus = b /\ claim[g].owner = o /\ ~claim[g].open
           /\ claim[g] \in ClaimType /\ worker[g] \in WorkerType
           /\ job[o] \in JobType
BY GroupOfIsTotal DEF ClaimsInv, TypeOK, OwnerHolds, TearDownHolds

LEMMA JoinBeginKeeps ==
  ASSUME ClaimsInv, NEW o \in Owners, JoinBegin(o)
  PROVE  ClaimsInv'
<1> USE NoBusIsNoBus, GroupOfIsTotal DEF requests
<1>1. PICK b \in Buses, g \in Groups:
           /\ job[o].held = b /\ GroupOf[b] = g
           /\ claim[g].bus = b /\ claim[g].owner = o /\ ~claim[g].open
           /\ claim[g] \in ClaimType /\ worker[g] \in WorkerType
           /\ job[o] \in JobType
  BY TearDownFacts DEF JoinBegin, TearDown
<1>2. UNCHANGED <<claim, driver, release_req, recover_req>>
  BY DEF JoinBegin
<1>3. PICK place \in {"joining", "closing"}:
        /\ Goto(o, place, job[o])
        /\ place = "closing" <=> ~claim[g].tx_worker
  BY <1>1 DEF JoinBegin
<1>4. worker' = IF claim[g].tx_worker THEN [worker EXCEPT ![g].stopping = TRUE]
                                      ELSE worker
  BY <1>1 DEF JoinBegin
<1>5. at'[o] = place /\ job'[o] = job[o] /\ place \in Places
  BY <1>3, GotoPlace DEF ClaimsInv, Places
<1>6. worker' \in [Groups -> WorkerType]
  BY <1>1, <1>4 DEF ClaimsInv, TypeOK, WorkerType
<1>7. \A h \in Groups: h # g => worker'[h] = worker[h]
  BY <1>4 DEF ClaimsInv, TypeOK
<1>8. GroupHolds(g)'
  BY <1>1, <1>2, <1>4 DEF ClaimsInv, TypeOK, GroupHolds, WorkerType
<1>9. TearDownHolds(o)'
  BY <1>1, <1>2, <1>3, <1>5 DEF JoinBegin, ClaimsInv, OwnerHolds, TearDownHolds, TearDown
<1>10. OwnerHolds(o)'
  BY <1>5, <1>9 DEF OwnerHolds, TransferHolds, OpenHolds
<1>11. /\ claim' \in [Groups -> ClaimType] /\ driver' \in [Buses -> DriverType]
       /\ release_req' \in [Owners -> BOOLEAN] /\ recover_req' \in [Owners -> BOOLEAN]
       /\ job[o] \in JobType
  BY <1>2 DEF ClaimsInv, TypeOK
<1>12. \A c \in Buses: GroupOf[c] = g /\ driver'[c] # "down" => claim'[g].bus = c
  BY <1>1, <1>2 DEF ClaimsInv, WiringFollowsClaim
<1>13. QED
  BY <1>1, <1>2, <1>3, <1>5, <1>6, <1>7, <1>8, <1>10, <1>11, <1>12, OwnerStep

LEMMA JoinOkKeeps ==
  ASSUME ClaimsInv, NEW o \in Owners, JoinOk(o)
  PROVE  ClaimsInv'
<1> USE NoBusIsNoBus, GroupOfIsTotal DEF requests
<1>1. PICK b \in Buses, g \in Groups:
           /\ job[o].held = b /\ GroupOf[b] = g
           /\ claim[g].bus = b /\ claim[g].owner = o /\ ~claim[g].open
           /\ claim[g] \in ClaimType /\ worker[g] \in WorkerType
           /\ job[o] \in JobType
  BY TearDownFacts DEF JoinOk, TearDown
<1>2. UNCHANGED <<driver, release_req, recover_req>>
  BY DEF JoinOk
<1>3. claim' = [claim EXCEPT ![g].tx_worker = FALSE]
  BY <1>1 DEF JoinOk
<1>4. worker' = [worker EXCEPT ![g] = NoWorker]
  BY <1>1 DEF JoinOk
<1>5. /\ Goto(o, "closing", job[o]) /\ at'[o] = "closing" /\ job'[o] = job[o]
      /\ "closing" \in Places
  BY GotoPlace DEF JoinOk, ClaimsInv, Places
<1>6. claim' \in [Groups -> ClaimType] /\ worker' \in [Groups -> WorkerType]
  BY <1>1, <1>3, <1>4 DEF ClaimsInv, TypeOK, ClaimType, WorkerType, NoWorker, MaybeBus
<1>7. claim'[g] = [claim[g] EXCEPT !.tx_worker = FALSE] /\ worker'[g] = NoWorker
  BY <1>3, <1>4 DEF ClaimsInv, TypeOK
<1>8. claim'[g].bus = b /\ claim'[g].owner = o /\ ~claim'[g].open /\ ~claim'[g].tx_worker
  BY <1>1, <1>7 DEF ClaimType
<1>9. \A h \in Groups: h # g => claim'[h] = claim[h] /\ worker'[h] = worker[h]
  BY <1>3, <1>4 DEF ClaimsInv, TypeOK
<1>10. GroupHolds(g)'
  BY <1>1, <1>7, <1>8 DEF GroupHolds, NoWorker
<1>11. TearDownHolds(o)'
  BY <1>1, <1>5, <1>8 DEF JoinOk, ClaimsInv, OwnerHolds, TearDownHolds, TearDown
<1>12. OwnerHolds(o)'
  BY <1>5, <1>11 DEF OwnerHolds, TransferHolds, OpenHolds
<1>13. \A c \in Buses: GroupOf[c] = g /\ driver'[c] # "down" => claim'[g].bus = c
  BY <1>1, <1>2, <1>8 DEF ClaimsInv, WiringFollowsClaim
<1>14. QED
  BY <1>1, <1>2, <1>5, <1>6, <1>9, <1>10, <1>12, <1>13, OwnerStep DEF ClaimsInv, TypeOK

LEMMA CloseOkKeeps ==
  ASSUME ClaimsInv, NEW o \in Owners, NEW c \in Buses, CloseOk(o, c)
  PROVE  ClaimsInv'
<1> USE NoBusIsNoBus, GroupOfIsTotal DEF requests
<1>1. PICK b \in Buses, g \in Groups:
           /\ job[o].held = b /\ GroupOf[b] = g
           /\ claim[g].bus = b /\ claim[g].owner = o /\ ~claim[g].open
           /\ claim[g] \in ClaimType /\ worker[g] \in WorkerType
           /\ job[o] \in JobType
  BY TearDownFacts DEF CloseOk, TearDown
<1>2. UNCHANGED <<claim, worker, release_req, recover_req>>
  BY DEF CloseOk
<1>3. driver' = [driver EXCEPT ![b] = "down"]
  BY <1>1 DEF CloseOk
<1>4. PICK place \in {"claim", "erase"}:
        /\ Goto(o, place, job[o])
        /\ place = "claim" <=> job[o].caller = "reopen"
  BY DEF CloseOk
<1>5. at'[o] = place /\ job'[o] = job[o] /\ place \in Places
  BY <1>4, GotoPlace DEF ClaimsInv, Places
<1>6. driver' \in [Buses -> DriverType]
  BY <1>3 DEF ClaimsInv, TypeOK, DriverType
<1>7. \A d \in Buses: GroupOf[d] # g => driver'[d] = driver[d]
  BY <1>1, <1>3 DEF ClaimsInv, TypeOK
<1>8. \A d \in Buses: GroupOf[d] = g => driver'[d] = "down"
  BY <1>1, <1>3 DEF ClaimsInv, WiringFollowsClaim, TypeOK
<1>9. ~claim[g].tx_worker /\ worker[g].state = "gone"
  BY <1>1 DEF CloseOk, ClaimsInv, OwnerHolds, TearDownHolds, GroupHolds
<1>10. GroupHolds(g)'
  BY <1>1, <1>2, <1>9 DEF GroupHolds
<1>11. OwnerHolds(o)'
  <2>1. TearDownHolds(o)
    BY DEF ClaimsInv, OwnerHolds
  <2>2. TearDownHolds(o)'
    BY <1>1, <1>2, <1>5, <1>8, <1>9, <2>1 DEF CloseOk, TearDownHolds, TearDown
  <2>3. OpenHolds(o)'
    BY <1>1, <1>2, <1>4, <1>5, <1>8, <1>9, <2>1
    DEF CloseOk, TearDownHolds, OpenHolds, TearDown, Mine
  <2>4. QED
    BY <1>5, <2>2, <2>3 DEF OwnerHolds, TransferHolds
<1>12. QED
  BY <1>1, <1>2, <1>4, <1>5, <1>6, <1>7, <1>8, <1>10, <1>11, OwnerStep
  DEF ClaimsInv, TypeOK

LEMMA CloseFailKeeps ==
  ASSUME ClaimsInv, NEW o \in Owners, CloseFail(o)
  PROVE  ClaimsInv'
<1> USE NoBusIsNoBus, GroupOfIsTotal DEF requests
<1>1. PICK b \in Buses, g \in Groups:
           /\ job[o].held = b /\ GroupOf[b] = g
           /\ claim[g].bus = b /\ claim[g].owner = o /\ ~claim[g].open
           /\ claim[g] \in ClaimType /\ worker[g] \in WorkerType
           /\ job[o] \in JobType
  BY TearDownFacts DEF CloseFail, TearDown
<1>2. UNCHANGED <<claim, worker, release_req, recover_req>>
  BY DEF CloseFail
<1>3. driver' = [driver EXCEPT ![b] = "partial"]
  BY <1>1 DEF CloseFail
<1>4. PICK place \in {"idle", "scan"}, locals \in JobType: Goto(o, place, locals)
  BY RetainedType DEF CloseFail, TearDown
<1>5. OwnerHolds(o)' /\ place \in Places
  BY <1>4, GotoPlace, RestingHolds DEF ClaimsInv, Places
<1>6. driver' \in [Buses -> DriverType]
  BY <1>3 DEF ClaimsInv, TypeOK, DriverType
<1>7. \A d \in Buses: GroupOf[d] # g => driver'[d] = driver[d]
  BY <1>1, <1>3 DEF ClaimsInv, TypeOK
<1>8. \A d \in Buses: GroupOf[d] = g /\ driver'[d] # "down" => claim'[g].bus = d
  BY <1>1, <1>2, <1>3 DEF ClaimsInv, WiringFollowsClaim, TypeOK
<1>9. worker[g].state = "gone"
  BY <1>1 DEF CloseFail, ClaimsInv, OwnerHolds, TearDownHolds, GroupHolds
<1>10. GroupHolds(g)'
  BY <1>1, <1>2, <1>9 DEF ClaimsInv, GroupHolds
<1>11. QED
  BY <1>1, <1>2, <1>4, <1>5, <1>6, <1>7, <1>8, <1>10, OwnerStep
  DEF ClaimsInv, TypeOK

LEMMA EraseKeeps ==
  ASSUME ClaimsInv, NEW o \in Owners, Erase(o)
  PROVE  ClaimsInv'
<1> USE NoBusIsNoBus, GroupOfIsTotal DEF requests
<1>1. PICK b \in Buses, g \in Groups:
           /\ job[o].held = b /\ GroupOf[b] = g
           /\ claim[g].bus = b /\ claim[g].owner = o /\ ~claim[g].open
           /\ claim[g] \in ClaimType /\ worker[g] \in WorkerType
           /\ job[o] \in JobType
  BY TearDownFacts DEF Erase, TearDown
<1>2. UNCHANGED <<driver, worker, release_req, recover_req>>
  BY DEF Erase
<1>3. claim' = [claim EXCEPT ![g] = NoClaim]
  BY <1>1 DEF Erase
<1>4. PICK place \in {"idle", "scan"}, locals \in JobType: Goto(o, place, locals)
  <2>1. CASE job[o].caller = "release"
    <3>1. job[o].next \in Groups /\ NextGroup(o, FALSE)
      BY <2>1 DEF Erase, ClaimsInv, OwnerHolds, TearDownHolds, TearDown
    <3>2. QED
      BY <3>1, NextGroupType
  <2>2. CASE job[o].caller # "release"
    BY <2>2, NoJobType DEF Erase
  <2>3. QED
    BY <2>1, <2>2
<1>5. OwnerHolds(o)' /\ place \in Places
  BY <1>4, GotoPlace, RestingHolds DEF ClaimsInv, Places
<1>6. claim' \in [Groups -> ClaimType]
  BY <1>3, LinkIsOwner DEF ClaimsInv, TypeOK, ClaimType, NoClaim, MaybeBus
<1>7. \A h \in Groups: h # g => claim'[h] = claim[h]
  BY <1>3 DEF ClaimsInv, TypeOK
<1>8. claim'[g] = NoClaim
  BY <1>3 DEF ClaimsInv, TypeOK
<1>9. ~claim[g].tx_worker /\ driver[b] = "down" /\ worker[g].state = "gone"
  BY <1>1 DEF Erase, ClaimsInv, OwnerHolds, TearDownHolds, GroupHolds
<1>10. \A d \in Buses: GroupOf[d] = g => driver'[d] = "down"
  BY <1>1, <1>2, <1>9 DEF ClaimsInv, WiringFollowsClaim
<1>11. GroupHolds(g)'
  BY <1>2, <1>8, <1>9 DEF GroupHolds, NoClaim
<1>12. QED
  BY <1>1, <1>2, <1>4, <1>5, <1>6, <1>7, <1>10, <1>11, OwnerStep
  DEF ClaimsInv, TypeOK

-------------------------------------------------------------------------------
(* Opening, and the first step of a teardown.                              *)

\* The step that shuts a group this owner holds and goes to tear it down.
LEMMA ShutKeeps ==
  ASSUME ClaimsInv, NEW o \in Owners, NEW g \in Groups,
         Mine(o, g),
         claim' = [claim EXCEPT ![g].open = FALSE],
         UNCHANGED <<driver, worker, release_req, recover_req>>,
         NEW locals \in JobType, Goto(o, "join", locals),
         locals.held = claim[g].bus,
         locals.caller = "release" => locals.next \in Groups,
         locals.caller = "reopen" => locals.bus \in Buses /\ GroupOf[locals.bus] = g
  PROVE  ClaimsInv'
<1> USE NoBusIsNoBus, GroupOfIsTotal
<1>1. claim[g] \in ClaimType /\ worker[g] \in WorkerType
  BY DEF ClaimsInv, TypeOK
<1>2. PICK b \in Buses: claim[g].bus = b /\ GroupOf[b] = g /\ claim[g].owner = o
  BY <1>1 DEF ClaimsInv, GroupHolds, Mine, ClaimType, MaybeBus
<1>3. claim'[g] = [claim[g] EXCEPT !.open = FALSE]
  BY DEF ClaimsInv, TypeOK
<1>4. claim'[g].bus = b /\ claim'[g].owner = o /\ ~claim'[g].open
  BY <1>1, <1>2, <1>3 DEF ClaimType
<1>5. claim' \in [Groups -> ClaimType]
  BY <1>1 DEF ClaimsInv, TypeOK, ClaimType
<1>6. \A h \in Groups: h # g => claim'[h] = claim[h]
  BY DEF ClaimsInv, TypeOK
<1>7. at'[o] = "join" /\ job'[o] = locals /\ "join" \in Places
  BY GotoPlace DEF ClaimsInv, Places
<1>8. TearDownHolds(o)'
  BY <1>2, <1>4, <1>7 DEF TearDownHolds, TearDown
<1>9. OwnerHolds(o)'
  BY <1>7, <1>8 DEF OwnerHolds, TransferHolds, OpenHolds
<1>10. GroupHolds(g)'
  BY <1>1, <1>2, <1>3, <1>4 DEF ClaimsInv, GroupHolds, ClaimType
<1>11. \A c \in Buses: GroupOf[c] = g /\ driver'[c] # "down" => claim'[g].bus = c
  BY <1>2, <1>4 DEF ClaimsInv, WiringFollowsClaim
<1>12. QED
  BY <1>2, <1>5, <1>6, <1>7, <1>9, <1>10, <1>11, OwnerStep DEF ClaimsInv, TypeOK

LEMMA CloseBeginKeeps ==
  ASSUME ClaimsInv, NEW o \in Owners, NEW b \in Buses, CloseBegin(o, b)
  PROVE  ClaimsInv'
<1> DEFINE g == GroupOf[b]
           locals == [NoJob EXCEPT !.held = claim[g].bus, !.caller = "close"]
<1>1. g \in Groups /\ Mine(o, g)
  BY GroupOfIsTotal DEF CloseBegin
<1>2. claim[g] \in ClaimType
  BY <1>1 DEF ClaimsInv, TypeOK
<1>3. locals \in JobType /\ locals.held = claim[g].bus /\ locals.caller = "close"
  BY <1>2, NoJobType DEF JobType, ClaimType, Callers
<1>4. Goto(o, "join", locals) /\ claim' = [claim EXCEPT ![g].open = FALSE]
  BY DEF CloseBegin
<1>5. UNCHANGED <<driver, worker, release_req, recover_req>>
  BY DEF CloseBegin, requests
<1> HIDE DEF g, locals
<1>6. QED
  BY <1>1, <1>3, <1>4, <1>5, ShutKeeps

LEMMA ScanKeeps ==
  ASSUME ClaimsInv, NEW o \in Owners, Scan(o)
  PROVE  ClaimsInv'
<1>1. PICK g \in Groups: g = job[o].next
  BY DEF Scan
<1>2. claim[g] \in ClaimType /\ job[o] \in JobType
  BY DEF ClaimsInv, TypeOK
<1>3. UNCHANGED <<driver, worker, release_req, recover_req>>
  BY DEF Scan, requests
<1>4. CASE Mine(o, g)
  <2> DEFINE locals == [job[o] EXCEPT !.held = claim[g].bus, !.caller = "release"]
  <2>1. /\ locals \in JobType /\ locals.held = claim[g].bus
        /\ locals.caller = "release" /\ locals.next = g
    BY <1>1, <1>2 DEF JobType, ClaimType, Callers
  <2>2. Goto(o, "join", locals) /\ claim' = [claim EXCEPT ![g].open = FALSE]
    BY <1>1, <1>4 DEF Scan
  <2> HIDE DEF locals
  <2>3. QED
    BY <1>3, <1>4, <2>1, <2>2, ShutKeeps
<1>5. CASE ~Mine(o, g)
  <2>1. NextGroup(o, FALSE) /\ UNCHANGED claim
    BY <1>1, <1>5 DEF Scan
  <2>2. PICK locals \in JobType: Goto(o, "scan", locals)
    BY <1>1, <2>1, NextGroupType
  <2>3. OwnerHolds(o)' /\ "scan" \in Places
    BY <2>2, GotoPlace, RestingHolds DEF ClaimsInv, Places
  <2>4. QED
    BY <1>3, <2>1, <2>2, <2>3, ControlStep DEF ClaimsInv, TypeOK
<1>6. QED
  BY <1>4, <1>5

LEMMA OpenBeginKeeps ==
  ASSUME ClaimsInv, NEW o \in Owners, NEW b \in Buses, OpenBegin(o, b)
  PROVE  ClaimsInv'
<1> USE NoBusIsNoBus, GroupOfIsTotal
<1>1. PICK g \in Groups: g = GroupOf[b]
  OBVIOUS
<1>2. claim[g] \in ClaimType /\ worker[g] \in WorkerType
  BY DEF ClaimsInv, TypeOK
<1>3. UNCHANGED <<driver, worker, release_req, recover_req>>
  BY DEF OpenBegin, requests
<1>4. CASE claim[g].bus # NoBus
  <2> DEFINE locals == [NoJob EXCEPT !.bus = b, !.held = claim[g].bus,
                                     !.caller = "reopen"]
  <2>1. Mine(o, g) /\ claim' = [claim EXCEPT ![g].open = FALSE]
    BY <1>1, <1>4 DEF OpenBegin, Mine
  <2>2. /\ locals \in JobType /\ locals.held = claim[g].bus
        /\ locals.caller = "reopen" /\ locals.bus = b
    BY <1>2, NoJobType DEF JobType, ClaimType, Callers, MaybeBus
  <2>3. Goto(o, "join", locals)
    BY <1>1, <1>4 DEF OpenBegin
  <2> HIDE DEF locals
  <2>4. QED
    BY <1>1, <1>3, <2>1, <2>2, <2>3, ShutKeeps
<1>5. CASE claim[g].bus = NoBus
  <2> DEFINE locals == [NoJob EXCEPT !.bus = b]
  <2>1. claim' = [claim EXCEPT ![g].bus = b, ![g].owner = o, ![g].open = FALSE]
    BY <1>1, <1>5 DEF OpenBegin
  <2>2. locals \in JobType /\ locals.bus = b
    BY NoJobType DEF JobType, MaybeBus
  <2>3. Goto(o, "claim", locals)
    BY <1>1, <1>5 DEF OpenBegin
  <2> HIDE DEF locals
  <2>4. at'[o] = "claim" /\ job'[o] = locals /\ "claim" \in Places
    BY <2>3, GotoPlace DEF ClaimsInv, Places
  <2>5. claim' \in [Groups -> ClaimType]
    BY <1>2, <2>1 DEF ClaimsInv, TypeOK, ClaimType, MaybeBus
  <2>6. \A h \in Groups: h # g => claim'[h] = claim[h]
    BY <2>1 DEF ClaimsInv, TypeOK
  <2>7. claim'[g] = [claim[g] EXCEPT !.bus = b, !.owner = o, !.open = FALSE]
    BY <2>1 DEF ClaimsInv, TypeOK, ClaimType
  <2>8. worker[g].state = "gone" /\ ~claim[g].tx_worker
    BY <1>5 DEF ClaimsInv, GroupHolds
  <2>9. /\ claim'[g].bus = b /\ claim'[g].owner = o /\ ~claim'[g].open
        /\ ~claim'[g].tx_worker
    BY <1>2, <2>7, <2>8 DEF ClaimType
  <2>10. \A d \in Buses: GroupOf[d] = g => driver'[d] = "down"
    BY <1>3, <1>5 DEF ClaimsInv, WiringFollowsClaim
  <2>11. GroupHolds(g)'
    BY <1>1, <1>3, <2>8, <2>9 DEF GroupHolds
  <2>12. OpenHolds(o)'
    BY <1>1, <2>2, <2>4, <2>9, <2>10 DEF OpenHolds, Mine
  <2>13. OwnerHolds(o)'
    BY <2>4, <2>12 DEF OwnerHolds, TransferHolds, TearDownHolds, TearDown
  <2>14. QED
    BY <1>3, <1>5, <2>2, <2>3, <2>4, <2>5, <2>6, <2>10, <2>11, <2>13, OwnerStep
    DEF ClaimsInv, TypeOK
<1>6. QED
  BY <1>4, <1>5

\* What the thread inside vif_bus_open() knows once the group is its own.
LEMMA OpenFacts ==
  ASSUME ClaimsInv, NEW o \in Owners, at[o] \in {"claim", "starting", "opened"}
  PROVE  \E b \in Buses, g \in Groups:
           /\ job[o].bus = b /\ GroupOf[b] = g
           /\ claim[g].bus # NoBus /\ claim[g].owner = o /\ ~claim[g].open
           /\ ~claim[g].tx_worker /\ worker[g].state = "gone"
           /\ claim[g] \in ClaimType /\ job[o] \in JobType
BY GroupOfIsTotal DEF ClaimsInv, TypeOK, OwnerHolds, OpenHolds, GroupHolds, Mine

LEMMA OpenClaimKeeps ==
  ASSUME ClaimsInv, NEW o \in Owners, OpenClaim(o)
  PROVE  ClaimsInv'
<1> USE NoBusIsNoBus, GroupOfIsTotal DEF requests
<1>1. PICK b \in Buses, g \in Groups:
           /\ job[o].bus = b /\ GroupOf[b] = g
           /\ claim[g].bus # NoBus /\ claim[g].owner = o /\ ~claim[g].open
           /\ ~claim[g].tx_worker /\ worker[g].state = "gone"
           /\ claim[g] \in ClaimType /\ job[o] \in JobType
  BY OpenFacts DEF OpenClaim
<1> DEFINE locals == [NoJob EXCEPT !.bus = b]
<1>2. claim' = [claim EXCEPT ![g] = [@ EXCEPT !.bus = b, !.owner = o]]
  BY <1>1 DEF OpenClaim
<1>3. UNCHANGED <<driver, worker, release_req, recover_req>>
  BY DEF OpenClaim
<1>4. Goto(o, "starting", locals) /\ locals \in JobType /\ locals.bus = b
  BY <1>1, NoJobType DEF OpenClaim, JobType, MaybeBus
<1> HIDE DEF locals
<1>5. at'[o] = "starting" /\ job'[o] = locals /\ "starting" \in Places
  BY <1>4, GotoPlace DEF ClaimsInv, Places
<1>6. claim'[g] = [claim[g] EXCEPT !.bus = b, !.owner = o]
  BY <1>2 DEF ClaimsInv, TypeOK
<1>7. claim' \in [Groups -> ClaimType]
  BY <1>1, <1>2 DEF ClaimsInv, TypeOK, ClaimType, MaybeBus
<1>8. \A h \in Groups: h # g => claim'[h] = claim[h]
  BY <1>2 DEF ClaimsInv, TypeOK
<1>9. /\ claim'[g].bus = b /\ claim'[g].owner = o /\ ~claim'[g].open
      /\ ~claim'[g].tx_worker
  BY <1>1, <1>6 DEF ClaimType
<1>10. \A d \in Buses: GroupOf[d] = g => driver'[d] = "down"
  BY <1>1, <1>3 DEF OpenClaim, ClaimsInv, OwnerHolds, OpenHolds
<1>11. GroupHolds(g)'
  BY <1>1, <1>3, <1>9 DEF GroupHolds
<1>12. OpenHolds(o)'
  BY <1>1, <1>4, <1>5, <1>9, <1>10 DEF OpenHolds, Mine
<1>13. OwnerHolds(o)'
  BY <1>5, <1>12 DEF OwnerHolds, TransferHolds, TearDownHolds, TearDown
<1>14. QED
  BY <1>1, <1>3, <1>4, <1>5, <1>7, <1>8, <1>10, <1>11, <1>13, OwnerStep
  DEF ClaimsInv, TypeOK

LEMMA StartKeeps ==
  ASSUME ClaimsInv, NEW o \in Owners, StartOk(o) \/ StartFail(o)
  PROVE  ClaimsInv'
<1> USE NoBusIsNoBus, GroupOfIsTotal DEF requests
<1>1. PICK b \in Buses, g \in Groups:
           /\ job[o].bus = b /\ GroupOf[b] = g
           /\ claim[g].bus # NoBus /\ claim[g].owner = o /\ ~claim[g].open
           /\ ~claim[g].tx_worker /\ worker[g].state = "gone"
           /\ claim[g] \in ClaimType /\ job[o] \in JobType
  BY OpenFacts DEF StartOk, StartFail
<1>2. UNCHANGED <<claim, worker, release_req, recover_req>>
  BY DEF StartOk, StartFail
<1>3. claim[g].bus = b
  BY <1>1 DEF StartOk, StartFail, ClaimsInv, OwnerHolds, OpenHolds
<1>4. \E left \in DriverType: driver' = [driver EXCEPT ![b] = left]
  <2>1. CASE StartOk(o)
    BY <1>1, <2>1 DEF StartOk, DriverType
  <2>2. CASE StartFail(o)
    BY <1>1, <2>2 DEF StartFail, DriverType
  <2>3. QED
    BY <2>1, <2>2
<1>5. /\ driver' \in [Buses -> DriverType]
      /\ \A d \in Buses: d # b => driver'[d] = driver[d]
  BY <1>4 DEF ClaimsInv, TypeOK
<1>6. \A d \in Buses: GroupOf[d] # g => driver'[d] = driver[d]
  BY <1>1, <1>5
<1>7. \A d \in Buses: GroupOf[d] = g /\ driver'[d] # "down" => claim'[g].bus = d
  BY <1>1, <1>2, <1>3, <1>5 DEF ClaimsInv, WiringFollowsClaim
<1>8. GroupHolds(g)'
  BY <1>1, <1>2 DEF ClaimsInv, GroupHolds
<1>9. CASE StartOk(o)
  <2>1. Goto(o, "opened", job[o]) /\ driver'[b] = "up"
    BY <1>1, <1>9 DEF StartOk, ClaimsInv, TypeOK
  <2>2. at'[o] = "opened" /\ job'[o] = job[o] /\ "opened" \in Places
    BY <2>1, GotoPlace DEF ClaimsInv, Places
  <2>3. OpenHolds(o)'
    BY <1>1, <1>2, <1>3, <2>1, <2>2 DEF OpenHolds, Mine
  <2>4. OwnerHolds(o)'
    BY <2>2, <2>3 DEF OwnerHolds, TransferHolds, TearDownHolds, TearDown
  <2>5. QED
    BY <1>1, <1>2, <1>5, <1>6, <1>7, <1>8, <2>1, <2>2, <2>4, OwnerStep
    DEF ClaimsInv, TypeOK
<1>10. CASE StartFail(o)
  <2> DEFINE locals == [NoJob EXCEPT !.bus = b, !.held = b, !.caller = "failed"]
  <2>1. /\ Goto(o, "join", locals) /\ locals \in JobType
        /\ locals.held = b /\ locals.caller = "failed"
    BY <1>1, <1>10, NoJobType DEF StartFail, JobType, MaybeBus, Callers
  <2> HIDE DEF locals
  <2>2. at'[o] = "join" /\ job'[o] = locals /\ "join" \in Places
    BY <2>1, GotoPlace DEF ClaimsInv, Places
  <2>3. TearDownHolds(o)'
    BY <1>1, <1>2, <1>3, <2>1, <2>2 DEF TearDownHolds, TearDown
  <2>4. OwnerHolds(o)'
    BY <2>2, <2>3 DEF OwnerHolds, TransferHolds, OpenHolds
  <2>5. QED
    BY <1>1, <1>2, <1>5, <1>6, <1>7, <1>8, <2>1, <2>2, <2>4, OwnerStep
    DEF ClaimsInv, TypeOK
<1>11. QED
  BY <1>9, <1>10

LEMMA OpenedKeeps ==
  ASSUME ClaimsInv, NEW o \in Owners, Opened(o)
  PROVE  ClaimsInv'
<1> USE NoBusIsNoBus, GroupOfIsTotal DEF requests
<1>1. PICK b \in Buses, g \in Groups:
           /\ job[o].bus = b /\ GroupOf[b] = g
           /\ claim[g].bus # NoBus /\ claim[g].owner = o /\ ~claim[g].open
           /\ ~claim[g].tx_worker /\ worker[g].state = "gone"
           /\ claim[g] \in ClaimType /\ job[o] \in JobType
  BY OpenFacts DEF Opened
<1>2. claim[g].bus = b /\ driver[b] = "up"
  BY <1>1 DEF Opened, ClaimsInv, OwnerHolds, OpenHolds
<1>3. UNCHANGED <<driver, worker, release_req, recover_req>>
  BY DEF Opened
<1>4. claim' = [claim EXCEPT ![g].open = TRUE]
  BY <1>1 DEF Opened
<1>5. claim'[g] = [claim[g] EXCEPT !.open = TRUE]
  BY <1>4 DEF ClaimsInv, TypeOK
<1>6. claim' \in [Groups -> ClaimType]
  BY <1>1, <1>4 DEF ClaimsInv, TypeOK, ClaimType
<1>7. \A h \in Groups: h # g => claim'[h] = claim[h]
  BY <1>4 DEF ClaimsInv, TypeOK
<1>8. claim'[g].bus = b /\ claim'[g].tx_worker = claim[g].tx_worker
  BY <1>1, <1>2, <1>5 DEF ClaimType
<1>9. GroupHolds(g)'
  BY <1>1, <1>2, <1>3, <1>8 DEF ClaimsInv, GroupHolds
<1>10. /\ Goto(o, "idle", NoJob) /\ at'[o] = "idle" /\ "idle" \in Places
  BY GotoPlace DEF Opened, ClaimsInv, Places
<1>11. \A d \in Buses: GroupOf[d] = g /\ driver'[d] # "down" => claim'[g].bus = d
  BY <1>2, <1>3, <1>8 DEF ClaimsInv, WiringFollowsClaim
<1>12. QED
  BY <1>1, <1>3, <1>6, <1>7, <1>9, <1>10, <1>11, RestingHolds, NoJobType, OwnerStep
  DEF ClaimsInv, TypeOK

-------------------------------------------------------------------------------
(* The invariant, and what follows from it.                                *)

LEMMA NextKeeps == ClaimsInv /\ [Next]_vars => ClaimsInv'
<1> SUFFICES ASSUME ClaimsInv, [Next]_vars PROVE ClaimsInv'
  OBVIOUS
<1>1. ASSUME NEW o \in Owners, Inside(o) PROVE ClaimsInv'
  <2>1. CASE TearDownStep(o)
    BY <2>1, JoinBeginKeeps, JoinOkKeeps, ReleaseControlKeeps, CloseOkKeeps,
       CloseFailKeeps, EraseKeeps DEF TearDownStep
  <2>2. CASE OpenStep(o)
    BY <2>2, OpenClaimKeeps, StartKeeps, OpenedKeeps DEF OpenStep
  <2>3. CASE TransferStep(o)
    BY <2>3, TransferControlKeeps, SubmitKeeps, PollKeeps DEF TransferStep
  <2>4. CASE Scan(o) \/ ScanDone(o)
    BY <2>4, ScanKeeps, ReleaseControlKeeps
  <2>5. QED
    BY <1>1, <2>1, <2>2, <2>3, <2>4 DEF Inside
<1>2. ASSUME NEW o \in Owners, Begin(o) PROVE ClaimsInv'
  BY <1>2, OpenBeginKeeps, CloseBeginKeeps, TransferControlKeeps, ReleaseControlKeeps
  DEF Begin
<1>3. ASSUME NEW o \in Owners, AskRelease(o) PROVE ClaimsInv'
  BY <1>3, AskKeeps
<1>4. CASE AskRecover
  BY <1>4, AskKeeps
<1>5. ASSUME NEW g \in Groups, WorkerStep(g) PROVE ClaimsInv'
  BY <1>5, WorkerStepKeeps
<1>6. CASE UNCHANGED vars
  <2>1. TypeOK' /\ WiringFollowsClaim'
    BY <1>6 DEF vars, ClaimsInv, TypeOK, WiringFollowsClaim
  <2>2. \A o \in Owners: OwnerHolds(o)'
    BY <1>6 DEF vars, ClaimsInv, OwnerHolds, TransferHolds, TearDownHolds, OpenHolds,
                Owned, Mine
  <2>3. \A g \in Groups: GroupHolds(g)'
    BY <1>6 DEF vars, ClaimsInv, GroupHolds
  <2>4. QED
    BY <2>1, <2>2, <2>3 DEF ClaimsInv
<1>7. QED
  BY <1>1, <1>2, <1>3, <1>4, <1>5, <1>6 DEF Next

\* Everything an owner's thread and a group know about one another always
\* holds: the inductive invariant of the claim bookkeeping of vif.c.
THEOREM ClaimsCorrect == Spec => []ClaimsInv
<1>1. QED
  BY InitClaims, NextKeeps, PTL DEF Spec

\* Every variable of the claim bookkeeping keeps its type.
THEOREM ClaimsTyped == Spec => []TypeOK
<1>1. ClaimsInv => TypeOK
  BY DEF ClaimsInv
<1>2. QED
  BY <1>1, ClaimsCorrect, PTL

\* No thread inside a bus driver ever has it closed under it (vif.c:151-165).
THEOREM NobodyIsTornDown == Spec => []NobodyTornDown
<1>1. ASSUME ClaimsInv PROVE NobodyTornDown
  <2> SUFFICES ASSUME NEW b \in Buses, Busy(b)
               PROVE  /\ driver[b] = "up"
                      /\ \A o \in Owners:
                           job[o].held = b => at[o] \notin {"closing", "erase"}
    BY DEF NobodyTornDown
  <2>1. PICK g \in Groups: g = GroupOf[b]
    BY GroupOfIsTotal
  <2>2. CASE \E p \in Owners: InDriver(p, b)
    <3>1. claim[g].bus = b /\ claim[g].open
      BY <1>1, <2>1, <2>2 DEF ClaimsInv, OwnerHolds, TransferHolds, Owned, InDriver
    <3>2. QED
      BY <1>1, <2>1, <3>1 DEF ClaimsInv, OwnerHolds, TearDownHolds, TearDown, GroupHolds
  <2>3. CASE Transmitting(b)
    <3>1. claim[g].bus = b /\ claim[g].tx_worker /\ driver[b] = "up"
      BY <1>1, <2>1, <2>3 DEF ClaimsInv, GroupHolds, Transmitting
    <3>2. QED
      BY <1>1, <2>1, <3>1 DEF ClaimsInv, OwnerHolds, TearDownHolds
  <2>4. QED
    BY <2>2, <2>3 DEF Busy
<1>2. QED
  BY <1>1, ClaimsCorrect, PTL

\* The drivers that hold a group's wiring are those of its claim.
THEOREM WiringIsClaimed == Spec => []WiringFollowsClaim
<1>1. ClaimsInv => WiringFollowsClaim
  BY DEF ClaimsInv
<1>2. QED
  BY <1>1, ClaimsCorrect, PTL

\* A transmit task never outlives the claim or the bus it was created for.
THEOREM WorkersBelong == Spec => []WorkerBelongsToClaim
<1>1. ClaimsInv => WorkerBelongsToClaim
  BY NoBusIsNoBus DEF ClaimsInv, WorkerBelongsToClaim, GroupHolds
<1>2. QED
  BY <1>1, ClaimsCorrect, PTL

\* A synchronous call is never inside a driver together with the worker.
THEOREM SendersAreExclusive == Spec => []SendersExclude
<1>1. ClaimsInv => SendersExclude
  BY DEF ClaimsInv, OwnerHolds, TransferHolds, SendersExclude, Transmitting
<1>2. QED
  BY <1>1, ClaimsCorrect, PTL

-------------------------------------------------------------------------------
(* VifClaims implements GroupLease: every step of the claim bookkeeping is *)
(* a step of the lease or leaves it alone.                                 *)

LeaseStep == [Lease!LeaseNext]_(Lease!leaseVars)

\* A step after which every group has the holder and the threads it had.
LEMMA QuietStep ==
  ASSUME \A g \in Groups: Holder(g)' = Holder(g) /\ Within(g)' = Within(g)
  PROVE  LeaseStep
BY DEF LeaseStep, Lease!leaseVars

\* A step that changes what the lease says of one group only.
LEMMA GroupStep ==
  ASSUME NEW g \in Groups,
         Holder(g) \in Owners \cup {"none"},
         \A h \in Groups: h # g => Holder(h)' = Holder(h) /\ Within(h)' = Within(h),
         \/ /\ Holder(g) = "none"
            /\ Holder(g)' \in Owners
            /\ Within(g)' = Within(g)
         \/ /\ Holder(g)' = "none"
            /\ Holder(g) # "none"
            /\ Within(g) = {} /\ Within(g)' = {}
         \/ /\ Holder(g)' = Holder(g)
            /\ Holder(g) # "none"
            /\ \E t \in {Holder(g), "worker"}: Within(g)' = Within(g) \cup {t}
         \/ /\ Holder(g)' = Holder(g)
            /\ \E t \in Within(g): Within(g)' = Within(g) \ {t}
  PROVE  LeaseStep
<1> DEFINE holder == [h \in Groups |-> Holder(h)]
           inside == [h \in Groups |-> Within(h)]
<1>1. CASE Holder(g) = "none" /\ Holder(g)' \in Owners /\ Within(g)' = Within(g)
  <2>1. holder' = [holder EXCEPT ![g] = Holder(g)'] /\ inside' = inside
    BY <1>1
  <2>2. Lease!Take(Holder(g)', g)
    BY <1>1, <2>1 DEF Lease!Take
  <2>3. QED
    BY <1>1, <2>2 DEF LeaseStep, Lease!LeaseNext
<1>2. CASE /\ Holder(g)' = "none" /\ Holder(g) # "none"
           /\ Within(g) = {} /\ Within(g)' = {}
  <2>1. holder' = [holder EXCEPT ![g] = "none"] /\ inside' = inside
    BY <1>2
  <2>2. Lease!Drop(g)
    BY <1>2, <2>1 DEF Lease!Drop
  <2>3. QED
    BY <2>2 DEF LeaseStep, Lease!LeaseNext
<1>3. ASSUME Holder(g)' = Holder(g), Holder(g) # "none",
             NEW t \in {Holder(g), "worker"}, Within(g)' = Within(g) \cup {t}
      PROVE  LeaseStep
  <2>1. holder' = holder /\ inside' = [inside EXCEPT ![g] = @ \cup {t}]
    BY <1>3
  <2>2. Lease!Enter(t, g)
    BY <1>3, <2>1 DEF Lease!Enter
  <2>3. t \in Owners \cup {"worker"}
    BY <1>3 DEF Holder
  <2>4. QED
    BY <2>2, <2>3 DEF LeaseStep, Lease!LeaseNext
<1>4. ASSUME Holder(g)' = Holder(g), NEW t \in Within(g), Within(g)' = Within(g) \ {t}
      PROVE  LeaseStep
  <2>1. holder' = holder /\ inside' = [inside EXCEPT ![g] = @ \ {t}]
    BY <1>4
  <2>2. Lease!Leave(t, g)
    BY <1>4, <2>1 DEF Lease!Leave
  <2>3. t \in Owners \cup {"worker"}
    BY <1>4 DEF Within
  <2>4. QED
    BY <2>2, <2>3 DEF LeaseStep, Lease!LeaseNext
<1>5. QED
  BY <1>1, <1>2, <1>3, <1>4

LEMMA HolderType ==
  ASSUME TypeOK, NEW g \in Groups
  PROVE  Holder(g) \in Owners \cup {"none"}
BY DEF TypeOK, ClaimType, Holder

-------------------------------------------------------------------------------
(* Steps the lease does not see.                                           *)

Sending(g) == worker[g].state = "pending"

LEMMA WithinKept ==
  ASSUME NEW g \in Groups, Sending(g)' <=> Sending(g),
         \A o \in Owners, b \in Buses: InDriver(o, b)' <=> InDriver(o, b)
  PROVE  Within(g)' = Within(g)
BY DEF Within, Sending

\* A thread that is outside the drivers and stays outside.
LEMMA StaysOutside ==
  ASSUME TypeOK, NEW o \in Owners, NEW place, NEW locals, Goto(o, place, locals),
         at[o] \notin {"recv", "exclusive"}, place \notin {"recv", "exclusive"}
  PROVE  \A p \in Owners, b \in Buses: InDriver(p, b)' <=> InDriver(p, b)
BY DEF TypeOK, Goto, InDriver

LEMMA OutsideStep ==
  ASSUME TypeOK, NEW o \in Owners, NEW place, NEW locals, Goto(o, place, locals),
         at[o] \notin {"recv", "exclusive"}, place \notin {"recv", "exclusive"},
         \A g \in Groups: Holder(g)' = Holder(g) /\ (Sending(g)' <=> Sending(g))
  PROVE  LeaseStep
BY StaysOutside, WithinKept, QuietStep

\* Neither the claims nor the workers change.
LEMMA ThreadSteps ==
  ASSUME ClaimsInv, NEW o \in Owners,
         \/ \E b \in Buses, kind \in Transfers: Check(o, b, kind)
         \/ WaitTimeout(o) \/ SubmitRefused(o)
         \/ JoinTimeout(o) \/ CloseFail(o) \/ \E b \in Buses: CloseOk(o, b)
         \/ StartOk(o) \/ StartFail(o)
         \/ ReleaseAll(o) \/ Service(o) \/ ScanDone(o)
  PROVE  LeaseStep
<1>1. UNCHANGED <<claim, worker>> /\ at[o] \notin {"recv", "exclusive"}
  BY DEF Check, WaitTimeout, SubmitRefused, JoinTimeout, CloseFail, CloseOk, StartOk,
         StartFail, ReleaseAll, Service, ScanDone
<1>2. \E place, locals: Goto(o, place, locals) /\ place \notin {"recv", "exclusive"}
  <2>1. CASE JoinTimeout(o) \/ CloseFail(o)
    BY <2>1 DEF JoinTimeout, CloseFail, Retained, NextGroup
  <2>2. CASE \E b \in Buses: CloseOk(o, b)
    BY <2>2 DEF CloseOk
  <2>3. CASE WaitTimeout(o) \/ SubmitRefused(o)
    BY <2>3 DEF WaitTimeout, SubmitRefused
  <2>4. CASE StartOk(o) \/ StartFail(o)
    BY <2>4 DEF StartOk, StartFail
  <2>5. CASE ReleaseAll(o) \/ Service(o) \/ ScanDone(o)
    BY <2>5 DEF ReleaseAll, Service, ScanDone
  <2>6. ASSUME NEW b \in Buses, NEW kind \in Transfers, Check(o, b, kind)
        PROVE  \E locals: Goto(o, "checked", locals)
    BY <2>6 DEF Check
  <2>7. QED
    BY <2>1, <2>2, <2>3, <2>4, <2>5, <2>6
<1>3. QED
  BY <1>1, <1>2, OutsideStep DEF ClaimsInv, Holder, Sending

\* The claim or the worker changes, but not what the lease says of them.
LEMMA ClaimSteps ==
  ASSUME ClaimsInv, NEW o \in Owners,
         \/ JoinBegin(o) \/ JoinOk(o) \/ OpenClaim(o) \/ Opened(o) \/ Scan(o)
         \/ \E b \in Buses: CloseBegin(o, b)
         \/ \E b \in Buses: OpenBegin(o, b) /\ claim[GroupOf[b]].bus # NoBus
  PROVE  LeaseStep
<1> USE NoBusIsNoBus, GroupOfIsTotal
<1>1. TypeOK
  BY DEF ClaimsInv
<1>2. CASE JoinBegin(o) \/ JoinOk(o)
  <2>1. PICK b \in Buses, g \in Groups:
           /\ job[o].held = b /\ GroupOf[b] = g
           /\ claim[g].bus = b /\ claim[g].owner = o /\ ~claim[g].open
           /\ claim[g] \in ClaimType /\ worker[g] \in WorkerType
           /\ job[o] \in JobType
    BY <1>2, TearDownFacts DEF JoinBegin, JoinOk, TearDown
  <2>2. \A h \in Groups: Holder(h)' = Holder(h)
    <3>1. UNCHANGED claim \/ claim' = [claim EXCEPT ![g].tx_worker = FALSE]
      BY <1>2, <2>1 DEF JoinBegin, JoinOk
    <3>2. QED
      BY <1>1, <3>1 DEF Holder, TypeOK, ClaimType
  <2>3. \A h \in Groups: Sending(h)' <=> Sending(h)
    BY <1>1, <1>2, <2>1 DEF JoinBegin, JoinOk, Sending, TypeOK, WorkerType, NoWorker
  <2>4. \E place \in {"joining", "closing"}: Goto(o, place, job[o])
    BY <1>2 DEF JoinBegin, JoinOk
  <2>5. QED
    BY <1>1, <1>2, <2>2, <2>3, <2>4, OutsideStep DEF JoinBegin, JoinOk
<1>3. CASE OpenClaim(o) \/ Opened(o)
  <2>1. PICK b \in Buses, g \in Groups:
           /\ job[o].bus = b /\ GroupOf[b] = g
           /\ claim[g].bus # NoBus /\ claim[g].owner = o /\ ~claim[g].open
           /\ ~claim[g].tx_worker /\ worker[g].state = "gone"
           /\ claim[g] \in ClaimType /\ job[o] \in JobType
    BY <1>3, OpenFacts DEF OpenClaim, Opened
  <2>2. \A h \in Groups: Holder(h)' = Holder(h)
    <3>1. CASE OpenClaim(o)
      <4>1. claim' = [claim EXCEPT ![g].bus = b, ![g].owner = o]
        BY <2>1, <3>1 DEF OpenClaim
      <4>2. QED
        BY <1>1, <2>1, <4>1 DEF Holder, TypeOK, ClaimType
    <3>2. CASE Opened(o)
      <4>1. claim' = [claim EXCEPT ![g].open = TRUE]
        BY <2>1, <3>2 DEF Opened
      <4>2. QED
        BY <1>1, <4>1 DEF Holder, TypeOK, ClaimType
    <3>3. QED
      BY <1>3, <3>1, <3>2
  <2>3. UNCHANGED worker
    BY <1>3 DEF OpenClaim, Opened
  <2>4. \E place \in {"starting", "idle"}: \E locals: Goto(o, place, locals)
    BY <1>3 DEF OpenClaim, Opened
  <2>5. QED
    BY <1>1, <1>3, <2>2, <2>3, <2>4, OutsideStep DEF OpenClaim, Opened, Sending
<1>4. CASE Scan(o)
  <2>1. \A h \in Groups: Holder(h)' = Holder(h)
    <3>1. \/ UNCHANGED claim
          \/ claim' = [claim EXCEPT ![job[o].next].open = FALSE]
      BY <1>4 DEF Scan
    <3>2. QED
      BY <1>1, <3>1 DEF Holder, TypeOK, ClaimType
  <2>2. UNCHANGED worker
    BY <1>4 DEF Scan
  <2>3. \E place \in {"join", "scan"}: \E locals: Goto(o, place, locals)
    BY <1>4 DEF Scan, NextGroup
  <2>4. QED
    BY <1>1, <1>4, <2>1, <2>2, <2>3, OutsideStep DEF Scan, Sending
<1>5. ASSUME NEW b \in Buses,
             \/ CloseBegin(o, b)
             \/ OpenBegin(o, b) /\ claim[GroupOf[b]].bus # NoBus
      PROVE  LeaseStep
  <2>1. claim' = [claim EXCEPT ![GroupOf[b]].open = FALSE]
    BY <1>5 DEF CloseBegin, OpenBegin
  <2>2. \A h \in Groups: Holder(h)' = Holder(h)
    BY <1>1, <2>1 DEF Holder, TypeOK, ClaimType
  <2>3. UNCHANGED worker
    BY <1>5 DEF CloseBegin, OpenBegin
  <2>4. \E locals: Goto(o, "join", locals)
    BY <1>5 DEF CloseBegin, OpenBegin
  <2>5. QED
    BY <1>1, <1>5, <2>2, <2>3, <2>4, OutsideStep DEF CloseBegin, OpenBegin, Sending
<1>6. QED
  BY <1>2, <1>3, <1>4, <1>5

-------------------------------------------------------------------------------
(* Steps the lease sees.                                                   *)

\* A free group reserved by vif_bus_open().
LEMMA TakeStep ==
  ASSUME ClaimsInv, NEW o \in Owners, NEW b \in Buses, OpenBegin(o, b),
         claim[GroupOf[b]].bus = NoBus
  PROVE  LeaseStep
<1> USE NoBusIsNoBus, GroupOfIsTotal
<1>1. TypeOK
  BY DEF ClaimsInv
<1>2. PICK g \in Groups: g = GroupOf[b]
  OBVIOUS
<1>3. claim' = [claim EXCEPT ![g].bus = b, ![g].owner = o, ![g].open = FALSE]
  BY <1>2 DEF OpenBegin
<1>4. Holder(g) = "none" /\ Holder(g)' = o
  BY <1>1, <1>2, <1>3 DEF Holder, TypeOK, ClaimType
<1>5. \A h \in Groups: h # g => Holder(h)' = Holder(h)
  BY <1>1, <1>3 DEF Holder, TypeOK
<1>6. \A p \in Owners, c \in Buses: InDriver(p, c)' <=> InDriver(p, c)
  BY <1>1, <1>2, StaysOutside DEF OpenBegin
<1>7. \A h \in Groups: Within(h)' = Within(h)
  BY <1>6, WithinKept DEF OpenBegin, Sending
<1>8. QED
  BY <1>4, <1>5, <1>7, GroupStep

\* The claim erased at the end of a teardown: no thread is in the group's
\* drivers, which is what ClaimsInv is for.
LEMMA DropStep ==
  ASSUME ClaimsInv, NEW o \in Owners, Erase(o)
  PROVE  LeaseStep
<1> USE NoBusIsNoBus, GroupOfIsTotal
<1>1. TypeOK
  BY DEF ClaimsInv
<1>2. PICK b \in Buses, g \in Groups:
           /\ job[o].held = b /\ GroupOf[b] = g
           /\ claim[g].bus = b /\ claim[g].owner = o /\ ~claim[g].open
           /\ claim[g] \in ClaimType /\ worker[g] \in WorkerType
           /\ job[o] \in JobType
  BY TearDownFacts DEF Erase, TearDown
<1>3. claim' = [claim EXCEPT ![g] = NoClaim] /\ UNCHANGED worker
  BY <1>2 DEF Erase
<1>4. Holder(g) # "none" /\ Holder(g)' = "none"
  BY <1>1, <1>2, <1>3, OwnersAreNamed DEF Holder, TypeOK, NoClaim
<1>5. \A h \in Groups: h # g => Holder(h)' = Holder(h)
  BY <1>1, <1>3 DEF Holder, TypeOK
<1>6. ~Sending(g)
  BY <1>2 DEF Erase, ClaimsInv, OwnerHolds, TearDownHolds, GroupHolds, Sending
<1>7. \A p \in Owners, c \in Buses: GroupOf[c] = g => ~InDriver(p, c)
  BY <1>2 DEF ClaimsInv, OwnerHolds, TransferHolds, Owned, InDriver
<1>8. \A p \in Owners, c \in Buses: InDriver(p, c)' <=> InDriver(p, c)
  <2>1. \E place \in {"idle", "scan"}: \E locals: Goto(o, place, locals)
    BY DEF Erase, NextGroup
  <2>2. QED
    BY <1>1, <2>1, StaysOutside DEF Erase
<1>9. \A h \in Groups: Within(h)' = Within(h)
  BY <1>3, <1>8, WithinKept DEF Sending
<1>10. Within(g) = {}
  BY <1>6, <1>7 DEF Within, Sending
<1>11. QED
  BY <1>1, <1>4, <1>5, <1>9, <1>10, GroupStep, HolderType

\* What a thread past its ownership check knows of the group.
LEMMA TransferFacts ==
  ASSUME ClaimsInv, NEW o \in Owners, at[o] \in {"checked", "recv", "exclusive"}
  PROVE  /\ job[o].bus \in Buses /\ GroupOf[job[o].bus] \in Groups
         /\ Holder(GroupOf[job[o].bus]) = o
BY GroupOfIsTotal, NoBusIsNoBus
DEF ClaimsInv, OwnerHolds, TransferHolds, Owned, Holder

LEMMA DriverStep ==
  ASSUME ClaimsInv, NEW o \in Owners, EnterDriver(o) \/ LeaveDriver(o)
  PROVE  LeaseStep
<1> USE GroupOfIsTotal
<1>1. TypeOK
  BY DEF ClaimsInv
<1>2. PICK b \in Buses, g \in Groups:
        job[o].bus = b /\ GroupOf[b] = g /\ Holder(g) = o
  BY TransferFacts DEF EnterDriver, LeaveDriver
<1>3. UNCHANGED <<claim, worker>>
  BY DEF EnterDriver, LeaveDriver
<1>4. \A h \in Groups: Holder(h)' = Holder(h) /\ (Sending(h)' <=> Sending(h))
  BY <1>3 DEF Holder, Sending
<1>5. \A p \in Owners, c \in Buses: p # o => (InDriver(p, c)' <=> InDriver(p, c))
  BY <1>1 DEF EnterDriver, LeaveDriver, Goto, TypeOK, InDriver
<1>6. o # "none" /\ o # "worker"
  BY OwnersAreNamed
<1>7. CASE EnterDriver(o)
  <2>1. \A c \in Buses: ~InDriver(o, c) /\ (InDriver(o, c)' <=> c = b)
    BY <1>1, <1>2, <1>7, GotoPlace DEF EnterDriver, InDriver
  <2>2. Within(g)' = Within(g) \cup {o}
    BY <1>2, <1>4, <1>5, <2>1 DEF Within, Sending
  <2>3. \A h \in Groups: h # g => Within(h)' = Within(h)
    BY <1>2, <1>4, <1>5, <2>1 DEF Within, Sending
  <2>4. QED
    BY <1>1, <1>2, <1>4, <1>6, <2>2, <2>3, GroupStep
<1>8. CASE LeaveDriver(o)
  <2>1. at'[o] = "idle"
    BY <1>1, <1>8, GotoPlace DEF LeaveDriver
  <2>2. \A c \in Buses: ~InDriver(o, c)' /\ (InDriver(o, c) <=> c = b)
    BY <1>2, <1>8, <2>1 DEF LeaveDriver, InDriver
  <2>3. Within(g)' = Within(g) \ {o} /\ o \in Within(g)
    BY <1>2, <1>4, <1>5, <1>6, <2>2 DEF Within, Sending
  <2>4. \A h \in Groups: h # g => Within(h)' = Within(h)
    BY <1>2, <1>4, <1>5, <2>2 DEF Within, Sending
  <2>5. QED
    BY <1>1, <1>2, <1>4, <2>3, <2>4, GroupStep
<1>9. QED
  BY <1>7, <1>8

\* The worker enters the driver with a message and comes out when it is sent.
LEMMA SubmitStep ==
  ASSUME ClaimsInv, NEW o \in Owners, Submit(o)
  PROVE  LeaseStep
<1> USE GroupOfIsTotal
<1>1. TypeOK
  BY DEF ClaimsInv
<1>2. PICK b \in Buses, g \in Groups:
        job[o].bus = b /\ GroupOf[b] = g /\ Holder(g) = o
  BY TransferFacts DEF Submit
<1>3. claim' = [claim EXCEPT ![g].tx_worker = TRUE]
  BY <1>2 DEF Submit
<1>4. \A h \in Groups: Holder(h)' = Holder(h)
  BY <1>1, <1>3 DEF Holder, TypeOK, ClaimType
<1>5. Sending(g)' /\ \A h \in Groups: h # g => (Sending(h)' <=> Sending(h))
  <2>1. worker[g] \in WorkerType
    BY <1>1 DEF TypeOK
  <2>2. worker' = [worker EXCEPT ![g] =
                     IF claim[g].tx_worker THEN [@ EXCEPT !.state = "pending"]
                     ELSE [state |-> "pending", bus |-> b, stopping |-> FALSE]]
    BY <1>2 DEF Submit
  <2>3. QED
    BY <1>1, <2>1, <2>2 DEF Sending, TypeOK, WorkerType
<1>6. \A p \in Owners, c \in Buses: InDriver(p, c)' <=> InDriver(p, c)
  BY <1>1, StaysOutside DEF Submit
<1>7. Within(g)' = Within(g) \cup {"worker"}
  BY <1>5, <1>6 DEF Within, Sending
<1>8. \A h \in Groups: h # g => Within(h)' = Within(h)
  BY <1>5, <1>6, WithinKept
<1>9. o # "none"
  BY OwnersAreNamed
<1>10. QED
  BY <1>2, <1>4, <1>7, <1>8, <1>9, GroupStep

\* A poll only moves a worker that is not sending.
LEMMA PollStep ==
  ASSUME ClaimsInv, NEW o \in Owners, Poll(o)
  PROVE  LeaseStep
<1>1. TypeOK
  BY DEF ClaimsInv
<1>2. \A h \in Groups: Sending(h)' <=> Sending(h)
  <2>1. \/ UNCHANGED worker
        \/ LET g == GroupOf[job[o].bus] IN
             worker[g].state = "done" /\ worker' = [worker EXCEPT ![g].state = "idle"]
    BY DEF Poll
  <2>2. QED
    BY <1>1, <2>1 DEF Sending, TypeOK, WorkerType
<1>3. QED
  BY <1>1, <1>2, OutsideStep DEF Poll, Holder

LEMMA WorkerLeaseStep ==
  ASSUME ClaimsInv, NEW g \in Groups, WorkerStep(g)
  PROVE  LeaseStep
<1>1. TypeOK
  BY DEF ClaimsInv
<1>2. \E s \in {"done", "exited"}: worker' = [worker EXCEPT ![g].state = s]
  BY DEF WorkerStep, WorkerDone, WorkerExit
<1>3. ~Sending(g)' /\ \A h \in Groups: h # g => (Sending(h)' <=> Sending(h))
  BY <1>1, <1>2 DEF Sending, TypeOK, WorkerType
<1>4. \A p \in Owners, c \in Buses: InDriver(p, c)' <=> InDriver(p, c)
  BY DEF WorkerStep, WorkerDone, WorkerExit, InDriver
<1>5. \A h \in Groups: Holder(h)' = Holder(h)
  BY DEF WorkerStep, WorkerDone, WorkerExit, Holder
<1>6. \A h \in Groups: h # g => Within(h)' = Within(h)
  BY <1>3, <1>4, WithinKept
<1>7. CASE Sending(g)
  <2>1. "worker" \in Within(g)
    BY <1>7 DEF Within, Sending
  <2>2. Within(g)' = Within(g) \ {"worker"}
    BY <1>3, <1>4, OwnersAreNamed DEF Within, Sending
  <2>3. QED
    BY <1>1, <1>5, <1>6, <2>1, <2>2, GroupStep, HolderType
<1>8. CASE ~Sending(g)
  BY <1>3, <1>4, <1>5, <1>6, <1>8, WithinKept, QuietStep
<1>9. QED
  BY <1>7, <1>8

-------------------------------------------------------------------------------

LEMMA InitLease == Init => Lease!LeaseInit
<1> SUFFICES ASSUME Init PROVE Lease!LeaseInit
  OBVIOUS
<1>1. \A g \in Groups: Holder(g) = "none"
  BY DEF Init, Holder, NoClaim
<1>2. \A g \in Groups: Within(g) = {}
  BY DEF Init, Within, NoWorker, InDriver
<1>3. QED
  BY <1>1, <1>2 DEF Lease!LeaseInit

LEMMA NextLease == ClaimsInv /\ [Next]_vars => LeaseStep
<1> SUFFICES ASSUME ClaimsInv, [Next]_vars PROVE LeaseStep
  OBVIOUS
<1>1. ASSUME NEW o \in Owners, Inside(o) PROVE LeaseStep
  <2>1. CASE TearDownStep(o)
    BY <2>1, ThreadSteps, ClaimSteps, DropStep DEF TearDownStep
  <2>2. CASE OpenStep(o)
    BY <2>2, ThreadSteps, ClaimSteps DEF OpenStep
  <2>3. CASE TransferStep(o)
    BY <2>3, ThreadSteps, DriverStep, SubmitStep, PollStep DEF TransferStep
  <2>4. CASE Scan(o) \/ ScanDone(o)
    BY <2>4, ThreadSteps, ClaimSteps
  <2>5. QED
    BY <1>1, <2>1, <2>2, <2>3, <2>4 DEF Inside
<1>2. ASSUME NEW o \in Owners, Begin(o) PROVE LeaseStep
  <2>1. ASSUME NEW b \in Buses, OpenBegin(o, b) PROVE LeaseStep
    BY <2>1, ClaimSteps, TakeStep
  <2>2. QED
    BY <1>2, <2>1, ClaimSteps, ThreadSteps DEF Begin
<1>3. CASE UNCHANGED <<claim, worker, at, job>>
  BY <1>3, QuietStep DEF Holder, Within, InDriver
<1>4. ASSUME NEW g \in Groups, WorkerStep(g) PROVE LeaseStep
  BY <1>4, WorkerLeaseStep
<1>5. CASE AskRecover \/ UNCHANGED vars \/ \E o \in Owners: AskRelease(o)
  BY <1>3, <1>5 DEF AskRecover, AskRelease, vars
<1>6. QED
  BY <1>1, <1>2, <1>4, <1>5 DEF Next

\* Each bus group of vif.c is a lease: one holder at a time, and a holder that
\* gives the group up only when no thread is left inside its drivers.
THEOREM LeaseImplemented == Spec => LeaseSpec
<1>1. Init => Lease!LeaseInit
  BY InitLease
<1>2. ClaimsInv /\ [Next]_vars => [Lease!LeaseNext]_(Lease!leaseVars)
  BY NextLease DEF LeaseStep
<1>3. QED
  BY <1>1, <1>2, ClaimsCorrect, PTL DEF Spec, LeaseSpec, Lease!LeaseSpec

-------------------------------------------------------------------------------
(***************************************************************************)
(* CanBus, for any queue lengths and any modulus of the receive sequence.  *)
(*                                                                         *)
(* The invariant has four parts: what exists while what uses it runs, the  *)
(* ring of transmit slots, what a report is worth, and the receptions.  A  *)
(* reception is known by its distance from the newest: everything that     *)
(* waits to be seen is less than half the sequences old, so that the       *)
(* comparison of bus_rx_later() orders it as it came.                      *)
(***************************************************************************)

OwnerType ==
  {"closed", "built", "tasked", "down", "idle", "drained", "empty", "sending",
   "stopping", "releasing", "retained"}
NodeType == {"none", "stopped", "on", "busoff", "recovering"}
SendType ==
  [at : {"none", "admit", "fill", "room", "done", "late", "abort"}, controlled : BOOLEAN,
   check : BOOLEAN, wait : BOOLEAN, seen : Sequence]
TaskType ==
  [at : {"loop", "woken", "recover", "fine", "leave", "gone"}, notes : 0 .. 1]
EpochType == [sequence : Sequence, lost : Sequence]

\* How far n is behind m, for two sequences in their circle.
Behind(m, n) == IF n <= m THEN m - n ELSE m - n + SeqMod
Age(n) == Behind(epoch.sequence, n)

-------------------------------------------------------------------------------
(* The inductive invariant. *)

PartsTyped ==
  /\ owner \in OwnerType /\ node \in NodeType
  /\ send \in SendType /\ report \in {"none", "sent", "aborted"}
  /\ task \in TaskType
FlagsTyped ==
  /\ joined \in BOOLEAN /\ exit \in BOOLEAN /\ sem \in BOOLEAN /\ res \in BOOLEAN
  /\ started \in BOOLEAN /\ silent \in BOOLEAN /\ manual \in BOOLEAN
  /\ linkDown \in BOOLEAN /\ failed \in BOOLEAN /\ out \in BOOLEAN
  /\ misled \in BOOLEAN /\ raced \in BOOLEAN
TxTyped ==
  /\ flight \in Seq(Slots) /\ Len(flight) <= TxQueueLen + 1 /\ slot \in Slots
RxTyped ==
  /\ isr \in Sequence /\ epoch \in EpochType /\ seen \in Sequence
  /\ rxq \in Seq(Sequence) /\ Len(rxq) <= RxQueueLen

\* What exists, and who may still use it.
Exists ==
  /\ node # "none" => res
  /\ owner = "closed" => joined /\ node = "none" /\ ~res
  /\ owner = "built" => joined
  /\ owner \in {"built", "tasked"} => node = "stopped"
  /\ owner \in {"idle", "drained", "empty", "sending"} => node # "none"
TaskLives ==
  /\ task.at # "gone" => ~joined /\ node # "none"
  /\ sem => ~joined /\ task.at = "gone"
  /\ owner = "releasing" => joined
OwnerWaits ==
  /\ send.at # "none" => owner \in {"idle", "drained", "empty", "sending"}
  /\ owner \in {"stopping", "releasing"} \/ send.at = "abort" => ~started
InterruptLives == isr # 0 => node # "none"

\* The frames held are in the slots before the next one, in their order.
Ring ==
  /\ node \in {"none", "stopped"} => flight = <<>>
  /\ \A i \in DOMAIN flight :
       flight[i] + (Len(flight) + 1 - i) \in {slot, slot + PoolLen}

\* What a send that is over has reported, and what one under way relies on.
Reports ==
  /\ send.at # "none" => report = "none"
  /\ flight # <<>> => ~out
  /\ send.at = "done" => send.wait
  /\ send.at = "done" /\ flight = <<>> /\ ~failed => out
  /\ report = "sent" => flight = <<>> /\ out
  /\ report = "aborted" \/ send.at = "abort" => out = raced
  /\ (report = "aborted" \/ send.at = "abort") /\ flight # <<>> => silent

\* Nothing has been received yet.
FromZero ==
  epoch.sequence = 0 => epoch.lost = 0 /\ seen = 0 /\ isr = 0 /\ rxq = <<>>
Fresh == owner \in {"built", "tasked"} => epoch.sequence = 0

\* The reception an interrupt has counted is the newest, and nowhere else yet.
Counted ==
  isr # 0 =>
    /\ isr = epoch.sequence /\ seen # isr /\ epoch.lost # isr
    /\ \A i \in DOMAIN rxq : rxq[i] # isr
\* What waits to be seen is not old, and queued in its order.
Ordered ==
  /\ epoch.lost # 0 => Age(epoch.lost) <= Lag + 1
  /\ ~misled =>
       /\ Age(seen) <= Lag + 1
       /\ \A i, j \in DOMAIN rxq : i < j => Age(rxq[j]) < Age(rxq[i])
       /\ \A i \in DOMAIN rxq :
            /\ Age(rxq[i]) <= Age(seen) + Lag + 1
            /\ owner = "empty" => Age(rxq[i]) <= Age(seen)
\* The newest is seen, or waits to be.
NewestKept ==
  ~misled =>
    \/ epoch.sequence = seen \/ epoch.sequence = epoch.lost
    \/ isr # 0 \/ \E i \in DOMAIN rxq : rxq[i] = epoch.sequence
\* An owner that found nothing has not seen what came since.
Drained ==
  /\ owner = "empty" /\ (isr # 0 \/ rxq # <<>>) => epoch.sequence # seen
  /\ owner = "drained" /\ ~Accounted => epoch.sequence # seen
  /\ send.at = "admit" /\ send.check /\ ~Accounted => epoch.sequence # send.seen

Received ==
  started => Counted /\ Ordered /\ NewestKept /\ Drained

Lives == Exists /\ TaskLives /\ OwnerWaits /\ InterruptLives
Sends == TxTyped /\ Ring /\ Reports
Receives == RxTyped /\ Fresh /\ FromZero /\ Received
CanInv == PartsTyped /\ FlagsTyped /\ Lives /\ Sends /\ Receives

-------------------------------------------------------------------------------
(* The circle of sequences. *)

LEMMA Constants ==
  /\ TxQueueLen \in Nat \ {0} /\ RxQueueLen \in Nat \ {0} /\ Lag \in Nat \ {0}
  /\ SeqMod \in Nat /\ SeqMod > 4
  /\ SeqMod \div 2 \in Nat
  /\ Lag + 1 < SeqMod \div 2 /\ 2 * (SeqMod \div 2) <= SeqMod
  /\ PoolLen \in Nat /\ PoolLen = TxQueueLen + 2
  /\ Sequence = 0 .. SeqMod - 1 /\ 0 \in Sequence
  /\ Slots = 0 .. PoolLen - 1 /\ 0 \in Slots
<1>1. /\ TxQueueLen \in Nat \ {0} /\ RxQueueLen \in Nat \ {0} /\ Lag \in Nat \ {0}
      /\ SeqMod \in Nat /\ Lag + 1 < SeqMod \div 2
  BY CanAssumption
<1>2. \A m \in Nat : m \div 2 \in Nat /\ 2 * (m \div 2) <= m
  BY SMTT(30)
<1>3. SeqMod \div 2 \in Nat /\ 2 * (SeqMod \div 2) <= SeqMod
  BY <1>1, <1>2
<1>4. SeqMod > 4
  BY <1>1, <1>3
<1>5. QED
  BY <1>1, <1>3, <1>4 DEF PoolLen, Slots, Sequence

LEMMA BehindTyped ==
  ASSUME NEW m \in Sequence, NEW n \in Sequence
  PROVE  /\ Behind(m, n) \in Sequence
         /\ Behind(m, n) = 0 <=> m = n
BY Constants DEF Behind

\* The difference the code takes, with its wrap.
LEMMA BehindIs ==
  ASSUME NEW m \in Sequence, NEW n \in Sequence
  PROVE  (m - n) % SeqMod = Behind(m, n)
<1>1. /\ m \in Nat /\ n \in Nat /\ m < SeqMod /\ n < SeqMod /\ SeqMod \in Nat
  BY Constants
<1>2. \A a \in Nat : a < SeqMod => a % SeqMod = a
  BY <1>1, SMTT(30)
<1>3. \A a \in Int : a < 0 /\ -SeqMod <= a => a % SeqMod = a + SeqMod
  BY <1>1, SMTT(30)
<1>4. CASE n <= m
  BY <1>1, <1>2, <1>4 DEF Behind
<1>5. CASE ~(n <= m)
  <2>1. m - n \in Int /\ m - n < 0 /\ -SeqMod <= m - n
    BY <1>1, <1>5
  <2>2. QED
    BY <1>3, <1>5, <2>1 DEF Behind
<1>6. QED
  BY <1>4, <1>5

LEMMA LaterIs ==
  ASSUME NEW m \in Sequence, NEW n \in Sequence
  PROVE  Later(m, n) <=> m # n /\ Behind(m, n) < SeqMod \div 2
<1>1. (m - n) % SeqMod = Behind(m, n) /\ (Behind(m, n) = 0 <=> m = n)
  BY BehindIs, BehindTyped
<1> DEFINE d == (m - n) % SeqMod
<1>2. Later(m, n) <=> d # 0 /\ d < SeqMod \div 2
  BY DEF Later
<1> HIDE DEF d
<1>3. d = Behind(m, n)
  BY <1>1 DEF d
<1>4. QED
  BY <1>1, <1>2, <1>3, Zenon

\* An older one is not later, up to half the circle.
LEMMA OlderIsNotLater ==
  ASSUME NEW m \in Sequence, NEW n \in Sequence, Behind(m, n) <= SeqMod \div 2
  PROVE  ~Later(n, m)
<1>1. CASE m = n
  BY <1>1, LaterIs
<1>2. CASE m # n
  <2>1. Behind(n, m) = SeqMod - Behind(m, n)
    BY <1>2, Constants DEF Behind
  <2>2. ~(Behind(n, m) < SeqMod \div 2)
    <3> DEFINE half == SeqMod \div 2
    <3>1. half \in Nat /\ 2 * half <= SeqMod /\ SeqMod \in Nat
      BY Constants
    <3>2. Behind(m, n) \in Nat /\ Behind(m, n) <= half
      BY BehindTyped, Constants
    <3> HIDE DEF half
    <3>3. \A b \in Nat : b <= half => ~(SeqMod - b < half)
      BY <3>1
    <3>4. ~(SeqMod - Behind(m, n) < half)
      BY <3>2, <3>3
    <3>5. QED
      BY <2>1, <3>4 DEF half
  <2>3. QED
    BY <2>2, LaterIs
<1>3. QED
  BY <1>1, <1>2

\* The next reception leaves all the others behind by as much.
Stride(m) == IF m + 1 = SeqMod THEN 2 ELSE 1
LEMMA NextIs ==
  ASSUME NEW m \in Sequence
  PROVE  /\ NextSequence(m) \in Sequence \ {0}
         /\ Stride(m) \in {1, 2}
         /\ \A n \in Sequence : Behind(m, n) + 2 < SeqMod =>
              /\ Behind(NextSequence(m), n) = Behind(m, n) + Stride(m)
              /\ NextSequence(m) # n
BY Constants DEF NextSequence, Behind, Stride

-------------------------------------------------------------------------------
(* Types. *)

LEMMA InitCan == CanInit => CanInv
<1> SUFFICES ASSUME CanInit PROVE CanInv
  OBVIOUS
<1> USE Constants DEF CanInit
<1>1. PartsTyped /\ FlagsTyped
  <2>1. send \in SendType /\ task \in TaskType
    BY DEF SendType, TaskType, Quiet
  <2>2. PartsTyped
    BY <2>1 DEF PartsTyped, OwnerType, NodeType
  <2>3. QED
    BY <2>2 DEF FlagsTyped
<1>2. Lives
  BY DEF Lives, Exists, TaskLives, OwnerWaits, InterruptLives, Quiet
<1>3. Sends
  <2>1. Len(<<>>) = 0 /\ <<>> \in Seq(Slots)
    OBVIOUS
  <2>2. QED
    BY <2>1 DEF Sends, TxTyped, Ring, Reports, Quiet
<1>4. Receives
  <2>1. Len(<<>>) = 0 /\ <<>> \in Seq(Sequence)
    OBVIOUS
  <2>2. QED
    BY <2>1 DEF Receives, RxTyped, EpochType, Fresh, FromZero, Received
<1>5. QED
  BY <1>1, <1>2, <1>3, <1>4 DEF CanInv

\* The records the actions write are of their types.
LEMMA QuietTyped == Quiet \in SendType /\ Quiet.at = "none"
BY Constants DEF Quiet, SendType

LEMMA BeginTyped ==
  ASSUME NEW controlled \in BOOLEAN, NEW check \in BOOLEAN, NEW wait \in BOOLEAN,
         seen \in Sequence
  PROVE  [at |-> "admit", controlled |-> controlled, check |-> check,
          wait |-> controlled \/ wait, seen |-> IF check THEN seen ELSE 0] \in SendType
<1>1. (controlled \/ wait) \in BOOLEAN
  OBVIOUS
<1>2. (IF check THEN seen ELSE 0) \in Sequence
  BY Constants
<1>3. QED
  BY <1>1, <1>2 DEF SendType

LEMMA TaskMoves ==
  ASSUME task \in TaskType
  PROVE  /\ \A a \in {"loop", "woken", "recover", "fine", "leave", "gone"} :
              [task EXCEPT !.at = a] \in TaskType
         /\ [task EXCEPT !.notes = 1] \in TaskType
         /\ [at |-> "loop", notes |-> 0] \in TaskType
         /\ [at |-> "woken", notes |-> 0] \in TaskType
BY DEF TaskType

LEMMA SendMoves ==
  ASSUME send \in SendType
  PROVE  \A a \in {"admit", "fill", "room", "done", "late", "abort"} :
           [send EXCEPT !.at = a] \in SendType /\ [send EXCEPT !.at = a].at = a
BY DEF SendType

LEMMA TypesKept ==
  ASSUME CanInv, [CanNext]_canVars
  PROVE  PartsTyped' /\ FlagsTyped'
<1>1. PartsTyped /\ FlagsTyped /\ seen \in Sequence
  BY DEF CanInv, Receives, RxTyped
<1> USE DEF upVars, txVars, rxVars, OwnerType, NodeType
<1>2. CASE \E m \in BOOLEAN : OpenBuild(m)
  <2>1. PartsTyped'
    BY <1>1, <1>2, QuietTyped, SendMoves, TaskMoves DEF OpenBuild, PartsTyped
  <2>2. FlagsTyped'
    BY <1>1, <1>2 DEF OpenBuild, FlagsTyped
  <2>3. QED
    BY <2>1, <2>2
<1>3. CASE \E controlled, check, wait \in BOOLEAN : SendBegin(controlled, check, wait)
  <2>1. PartsTyped'
    BY <1>1, <1>3, BeginTyped DEF SendBegin, PartsTyped
  <2>2. FlagsTyped'
    BY <1>1, <1>3 DEF SendBegin, FlagsTyped
  <2>3. QED
    BY <2>1, <2>2
<1>4. CASE OpenTask
  <2>1. PartsTyped'
    BY <1>1, <1>4, QuietTyped, SendMoves, TaskMoves DEF OpenTask, PartsTyped
  <2>2. FlagsTyped'
    BY ZenonT(30), <1>1, <1>4 DEF OpenTask, FlagsTyped
  <2>3. QED
    BY <2>1, <2>2
<1>5. CASE OpenEnable
  <2>1. PartsTyped'
    BY <1>1, <1>5, QuietTyped, SendMoves, TaskMoves DEF OpenEnable, PartsTyped
  <2>2. FlagsTyped'
    BY ZenonT(30), <1>1, <1>5 DEF OpenEnable, FlagsTyped
  <2>3. QED
    BY <2>1, <2>2
<1>6. CASE TeardownBegin
  <2>1. PartsTyped'
    BY <1>1, <1>6, QuietTyped, SendMoves, TaskMoves DEF TeardownBegin, Silence, Free, PartsTyped
  <2>2. FlagsTyped'
    BY <1>1, <1>6 DEF TeardownBegin, Silence, Free, FlagsTyped
  <2>3. QED
    BY <2>1, <2>2
<1>7. CASE StopTask
  <2>1. PartsTyped'
    BY <1>1, <1>7, QuietTyped, SendMoves, TaskMoves DEF StopTask, PartsTyped
  <2>2. FlagsTyped'
    BY ZenonT(30), <1>1, <1>7 DEF StopTask, FlagsTyped
  <2>3. QED
    BY <2>1, <2>2
<1>8. CASE Release
  <2>1. PartsTyped'
    BY <1>1, <1>8, QuietTyped, SendMoves, TaskMoves DEF Release, PartsTyped
  <2>2. FlagsTyped'
    BY ZenonT(30), <1>1, <1>8 DEF Release, FlagsTyped
  <2>3. QED
    BY <2>1, <2>2
<1>9. CASE Admit
  <2>1. PartsTyped'
    BY <1>1, <1>9, QuietTyped, SendMoves, TaskMoves DEF Admit, Return, Back, PartsTyped
  <2>2. FlagsTyped'
    BY ZenonT(30), <1>1, <1>9 DEF Admit, Return, Back, FlagsTyped
  <2>3. QED
    BY <2>1, <2>2
<1>10. CASE Fill
  <2>1. PartsTyped'
    BY <1>1, <1>10, QuietTyped, SendMoves, TaskMoves DEF Fill, Return, Back, PartsTyped
  <2>2. FlagsTyped'
    BY <1>1, <1>10 DEF Fill, Return, Back, FlagsTyped
  <2>3. QED
    BY <2>1, <2>2
<1>11. CASE Transmit
  <2>1. send' \in SendType
    BY <1>1, <1>11, QuietTyped, SendMoves DEF Transmit, Return, PartsTyped
  <2>2. PartsTyped'
    BY <1>1, <1>11, <2>1 DEF Transmit, Return, Back, PartsTyped
  <2>3. FlagsTyped'
    BY ZenonT(30), <1>1, <1>11 DEF Transmit, Return, Back, FlagsTyped
  <2>4. QED
    BY <2>2, <2>3
<1>12. CASE AllDone
  <2>1. PartsTyped'
    BY <1>1, <1>12, QuietTyped, SendMoves, TaskMoves DEF AllDone, Return, Back, PartsTyped
  <2>2. FlagsTyped'
    BY <1>1, <1>12 DEF AllDone, Return, Back, FlagsTyped
  <2>3. QED
    BY <2>1, <2>2
<1>13. CASE GivesUp \/ AbortBegin
  <2>1. PartsTyped'
    BY <1>1, <1>13, QuietTyped, SendMoves, TaskMoves
       DEF GivesUp, AbortBegin, Silence, PartsTyped
  <2>2. FlagsTyped'
    BY ZenonT(30), <1>1, <1>13 DEF GivesUp, AbortBegin, Silence, FlagsTyped
  <2>3. QED
    BY <2>1, <2>2
<1>14. CASE Abort
  <2>1. PartsTyped'
    BY <1>1, <1>14, QuietTyped, SendMoves, TaskMoves DEF Abort, Return, PartsTyped
  <2>2. FlagsTyped'
    BY ZenonT(30), <1>1, <1>14 DEF Abort, Return, FlagsTyped
  <2>3. QED
    BY <2>1, <2>2
<1>15. CASE TxDone
  <2>1. PartsTyped'
    BY <1>1, <1>15, QuietTyped, SendMoves, TaskMoves DEF TxDone, PartsTyped
  <2>2. out' \in BOOLEAN /\ failed' \in BOOLEAN
    <3>1. CASE /\ out' = (Len(flight) = 1 /\ (report # "none" \/ send.wait))
               /\ failed' = failed
      BY <1>1, <3>1 DEF FlagsTyped
    <3>2. CASE failed' = (send.at \in {"fill", "room", "done"}) /\ out' = out
      BY <1>1, <3>2 DEF FlagsTyped
    <3>3. QED
      BY <1>15, <3>1, <3>2 DEF TxDone
  <2>3. FlagsTyped'
    BY ZenonT(30), <1>1, <1>15, <2>2 DEF TxDone, FlagsTyped
  <2>4. QED
    BY <2>1, <2>3
<1>16. CASE BusOff
  <2>1. task' \in TaskType
    BY <1>1, <1>16, TaskMoves DEF BusOff, StateChange, Notify, PartsTyped
  <2>2. PartsTyped'
    BY <1>1, <1>16, <2>1 DEF BusOff, StateChange, Notify, PartsTyped
  <2>3. FlagsTyped'
    BY <1>1, <1>16 DEF BusOff, StateChange, Notify, FlagsTyped
  <2>4. QED
    BY <2>2, <2>3
<1>17. CASE Recovered
  <2>1. task' \in TaskType
    BY <1>1, <1>17, TaskMoves DEF Recovered, StateChange, Notify, PartsTyped
  <2>2. PartsTyped'
    BY <1>1, <1>17, <2>1 DEF Recovered, StateChange, Notify, PartsTyped
  <2>3. FlagsTyped'
    BY <1>1, <1>17 DEF Recovered, StateChange, Notify, FlagsTyped
  <2>4. QED
    BY <2>2, <2>3
<1>18. CASE TaskWake
  <2>1. PartsTyped'
    BY <1>1, <1>18, QuietTyped, SendMoves, TaskMoves DEF TaskWake, PartsTyped
  <2>2. FlagsTyped'
    BY <1>1, <1>18 DEF TaskWake, FlagsTyped
  <2>3. QED
    BY <2>1, <2>2
<1>19. CASE TaskLook
  <2>1. task' \in TaskType
    BY <1>1, <1>19, TaskMoves DEF TaskLook, PartsTyped
  <2>2. PartsTyped'
    BY <1>1, <1>19, <2>1 DEF TaskLook, PartsTyped
  <2>3. FlagsTyped'
    BY <1>1, <1>19 DEF TaskLook, FlagsTyped
  <2>4. QED
    BY <2>2, <2>3
<1>20. CASE TaskRecover
  <2>1. PartsTyped'
    BY <1>1, <1>20, QuietTyped, SendMoves, TaskMoves DEF TaskRecover, PartsTyped
  <2>2. FlagsTyped'
    BY <1>1, <1>20 DEF TaskRecover, FlagsTyped
  <2>3. QED
    BY <2>1, <2>2
<1>21. CASE TaskExit
  <2>1. task' \in TaskType
    BY <1>1, <1>21, TaskMoves DEF TaskExit, PartsTyped
  <2>2. PartsTyped'
    BY <1>1, <1>21, <2>1 DEF TaskExit, PartsTyped
  <2>3. FlagsTyped'
    BY <1>1, <1>21 DEF TaskExit, FlagsTyped
  <2>4. QED
    BY <2>2, <2>3
<1>22. CASE BusOn
  <2>1. PartsTyped'
    BY <1>1, <1>22, QuietTyped, SendMoves, TaskMoves DEF BusOn, PartsTyped
  <2>2. FlagsTyped'
    BY <1>1, <1>22 DEF BusOn, FlagsTyped
  <2>3. QED
    BY <2>1, <2>2
<1>23. CASE RxDone
  <2>1. PartsTyped'
    BY <1>1, <1>23, QuietTyped, SendMoves, TaskMoves DEF RxDone, PartsTyped
  <2>2. FlagsTyped'
    BY <1>1, <1>23 DEF RxDone, FlagsTyped
  <2>3. QED
    BY <2>1, <2>2
<1>24. CASE RxPlace
  <2>1. PartsTyped'
    BY <1>1, <1>24, QuietTyped, SendMoves, TaskMoves DEF RxPlace, PartsTyped
  <2>2. FlagsTyped'
    BY <1>1, <1>24 DEF RxPlace, FlagsTyped
  <2>3. QED
    BY <2>1, <2>2
<1>25. CASE RecvLinkDown
  <2>1. PartsTyped'
    BY <1>1, <1>25, QuietTyped, SendMoves, TaskMoves DEF RecvLinkDown, PartsTyped
  <2>2. FlagsTyped'
    BY <1>1, <1>25 DEF RecvLinkDown, FlagsTyped
  <2>3. QED
    BY <2>1, <2>2
<1>26. CASE RecvFrame
  <2>1. PartsTyped'
    BY <1>1, <1>26, QuietTyped, SendMoves, TaskMoves DEF RecvFrame, PartsTyped
  <2>2. FlagsTyped'
    BY <1>1, <1>26 DEF RecvFrame, FlagsTyped
  <2>3. QED
    BY <2>1, <2>2
<1>27. CASE RecvEmpty
  <2>1. PartsTyped'
    BY <1>1, <1>27, QuietTyped, SendMoves, TaskMoves DEF RecvEmpty, PartsTyped
  <2>2. FlagsTyped'
    BY <1>1, <1>27 DEF RecvEmpty, FlagsTyped
  <2>3. QED
    BY <2>1, <2>2
<1>28. CASE RecvLoss
  <2>1. PartsTyped'
    BY <1>1, <1>28, QuietTyped, SendMoves, TaskMoves DEF RecvLoss, PartsTyped
  <2>2. FlagsTyped'
    BY <1>1, <1>28 DEF RecvLoss, FlagsTyped
  <2>3. QED
    BY <2>1, <2>2
<1>29. CASE UNCHANGED canVars
  <2>1. PartsTyped'
    BY <1>1, <1>29, QuietTyped, SendMoves, TaskMoves DEF canVars, PartsTyped
  <2>2. FlagsTyped'
    BY <1>1, <1>29 DEF canVars, FlagsTyped
  <2>3. QED
    BY <2>1, <2>2
<1>30. QED
  BY <1>2, <1>3, <1>4, <1>5, <1>6, <1>7, <1>8, <1>9, <1>10, <1>11, <1>12, <1>13, <1>14, <1>15, <1>16, <1>17, <1>18, <1>19, <1>20, <1>21, <1>22, <1>23, <1>24, <1>25, <1>26, <1>27, <1>28, <1>29
     DEF CanNext, CanOpenStep, CloseStep, SendStep, TaskStep, RecvStep, Controller

-------------------------------------------------------------------------------
(* What exists, and who uses it. *)

LEMMA LivesKept ==
  ASSUME CanInv, [CanNext]_canVars
  PROVE  Lives'
<1>1. /\ PartsTyped /\ FlagsTyped
      /\ Exists /\ TaskLives /\ OwnerWaits /\ InterruptLives
  BY DEF CanInv, Lives
<1>2. PartsTyped' /\ FlagsTyped'
  BY TypesKept
<1> USE DEF upVars, txVars, rxVars
<1>3. CASE \E m \in BOOLEAN : OpenBuild(m)
  <2>1. Exists' /\ InterruptLives'
    BY <1>1, <1>3 DEF OpenBuild, Exists, InterruptLives, TaskLives, OwnerWaits
  <2>2. TaskLives'
    BY <1>1, <1>3 DEF OpenBuild, Exists, TaskLives, PartsTyped, TaskType
  <2>3. OwnerWaits'
    BY <1>1, <1>3 DEF OpenBuild, OwnerWaits, Exists, PartsTyped
  <2>4. QED
    BY <2>1, <2>2, <2>3 DEF Lives
<1>4. CASE \E controlled, check, wait \in BOOLEAN : SendBegin(controlled, check, wait)
  <2>1. Exists' /\ InterruptLives'
    BY <1>1, <1>4 DEF SendBegin, Free, Exists, InterruptLives, TaskLives, OwnerWaits
  <2>2. TaskLives'
    BY <1>1, <1>4 DEF SendBegin, Free, Exists, TaskLives, PartsTyped, TaskType
  <2>3. OwnerWaits'
    BY <1>1, <1>4 DEF SendBegin, Free, OwnerWaits, Exists, PartsTyped
  <2>4. QED
    BY <2>1, <2>2, <2>3 DEF Lives
<1>5. CASE OpenTask
  <2>1. Exists' /\ InterruptLives'
    BY <1>1, <1>5 DEF OpenTask, Exists, InterruptLives, TaskLives, OwnerWaits
  <2>2. TaskLives'
    BY <1>1, <1>5 DEF OpenTask, Exists, TaskLives, PartsTyped, TaskType
  <2>3. OwnerWaits'
    BY <1>1, <1>5 DEF OpenTask, OwnerWaits, Exists, PartsTyped
  <2>4. QED
    BY <2>1, <2>2, <2>3 DEF Lives
<1>6. CASE OpenEnable
  <2>1. Exists' /\ InterruptLives'
    BY <1>1, <1>6 DEF OpenEnable, Exists, InterruptLives, TaskLives, OwnerWaits
  <2>2. TaskLives'
    BY <1>1, <1>6 DEF OpenEnable, Exists, TaskLives, PartsTyped, TaskType
  <2>3. OwnerWaits'
    BY <1>1, <1>6 DEF OpenEnable, OwnerWaits, Exists, PartsTyped
  <2>4. QED
    BY <2>1, <2>2, <2>3 DEF Lives
<1>7. CASE TeardownBegin
  <2>1. Exists' /\ InterruptLives'
    BY <1>1, <1>7 DEF TeardownBegin, Silence, Free, Exists, InterruptLives, TaskLives, OwnerWaits
  <2>2. TaskLives'
    BY <1>1, <1>7 DEF TeardownBegin, Silence, Free, Exists, TaskLives, PartsTyped, TaskType
  <2>3. OwnerWaits'
    BY <1>1, <1>7 DEF TeardownBegin, Silence, Free, OwnerWaits, Exists, PartsTyped
  <2>4. QED
    BY <2>1, <2>2, <2>3 DEF Lives
<1>8. CASE StopTask
  <2>1. Exists' /\ InterruptLives'
    BY <1>1, <1>8 DEF StopTask, Exists, InterruptLives, TaskLives, OwnerWaits
  <2>2. TaskLives'
    BY <1>1, <1>8 DEF StopTask, Exists, TaskLives, PartsTyped, TaskType
  <2>3. OwnerWaits'
    BY <1>1, <1>8 DEF StopTask, OwnerWaits, Exists, PartsTyped
  <2>4. QED
    BY <2>1, <2>2, <2>3 DEF Lives
<1>9. CASE Release
  <2>1. Exists' /\ InterruptLives'
    BY <1>1, <1>9 DEF Release, Exists, InterruptLives, TaskLives, OwnerWaits
  <2>2. TaskLives'
    BY <1>1, <1>9 DEF Release, Exists, TaskLives, PartsTyped, TaskType
  <2>3. OwnerWaits'
    BY <1>1, <1>9 DEF Release, OwnerWaits, Exists, PartsTyped
  <2>4. QED
    BY <2>1, <2>2, <2>3 DEF Lives
<1>10. CASE Admit
  <2>1. Exists' /\ InterruptLives'
    BY <1>1, <1>10 DEF Admit, Return, Back, Exists, InterruptLives, TaskLives, OwnerWaits
  <2>2. TaskLives'
    BY <1>1, <1>10 DEF Admit, Return, Back, Exists, TaskLives, PartsTyped, TaskType
  <2>3. OwnerWaits'
    BY <1>1, <1>10, QuietTyped, SendMoves DEF Admit, Return, Back, OwnerWaits, Exists, PartsTyped
  <2>4. QED
    BY <2>1, <2>2, <2>3 DEF Lives
<1>11. CASE Fill
  <2>1. Exists' /\ InterruptLives'
    BY <1>1, <1>11 DEF Fill, Return, Back, Exists, InterruptLives, TaskLives, OwnerWaits
  <2>2. TaskLives'
    BY <1>1, <1>11 DEF Fill, Return, Back, Exists, TaskLives, PartsTyped, TaskType
  <2>3. OwnerWaits'
    BY <1>1, <1>11, QuietTyped, SendMoves DEF Fill, Return, Back, OwnerWaits, Exists, PartsTyped
  <2>4. QED
    BY <2>1, <2>2, <2>3 DEF Lives
<1>12. CASE Transmit
  <2>1. Exists' /\ InterruptLives'
    BY <1>1, <1>12 DEF Transmit, Return, Back, Exists, InterruptLives, TaskLives, OwnerWaits
  <2>2. TaskLives'
    BY <1>1, <1>12 DEF Transmit, Return, Back, Exists, TaskLives, PartsTyped, TaskType
  <2>3. OwnerWaits'
    BY <1>1, <1>12, QuietTyped, SendMoves DEF Transmit, Return, Back, OwnerWaits, Exists, PartsTyped
  <2>4. QED
    BY <2>1, <2>2, <2>3 DEF Lives
<1>13. CASE AllDone
  <2>1. Exists' /\ InterruptLives'
    BY <1>1, <1>13 DEF AllDone, Return, Back, Exists, InterruptLives, TaskLives, OwnerWaits
  <2>2. TaskLives'
    BY <1>1, <1>13 DEF AllDone, Return, Back, Exists, TaskLives, PartsTyped, TaskType
  <2>3. OwnerWaits'
    BY <1>1, <1>13, QuietTyped, SendMoves DEF AllDone, Return, Back, OwnerWaits, Exists, PartsTyped
  <2>4. QED
    BY <2>1, <2>2, <2>3 DEF Lives
<1>14. CASE GivesUp \/ AbortBegin
  <2>1. Exists' /\ InterruptLives'
    BY <1>1, <1>14 DEF GivesUp, AbortBegin, Silence, Exists, InterruptLives, TaskLives, OwnerWaits
  <2>2. TaskLives'
    BY <1>1, <1>14 DEF GivesUp, AbortBegin, Silence, Exists, TaskLives, PartsTyped, TaskType
  <2>3. OwnerWaits'
    BY <1>1, <1>14, QuietTyped, SendMoves
       DEF GivesUp, AbortBegin, Silence, OwnerWaits, Exists, PartsTyped
  <2>4. QED
    BY <2>1, <2>2, <2>3 DEF Lives
<1>15. CASE Abort
  <2>1. Exists' /\ InterruptLives'
    BY <1>1, <1>15 DEF Abort, Return, Exists, InterruptLives, TaskLives, OwnerWaits
  <2>2. TaskLives'
    BY <1>1, <1>15 DEF Abort, Return, Exists, TaskLives, PartsTyped, TaskType
  <2>3. OwnerWaits'
    BY <1>1, <1>15, QuietTyped, SendMoves DEF Abort, Return, OwnerWaits, Exists, PartsTyped
  <2>4. QED
    BY <2>1, <2>2, <2>3 DEF Lives
<1>16. CASE TxDone
  <2>1. Exists' /\ InterruptLives'
    BY <1>1, <1>16 DEF TxDone, Exists, InterruptLives, TaskLives, OwnerWaits
  <2>2. TaskLives'
    BY <1>1, <1>16 DEF TxDone, Exists, TaskLives, PartsTyped, TaskType
  <2>3. OwnerWaits'
    BY <1>1, <1>16 DEF TxDone, OwnerWaits, Exists, PartsTyped
  <2>4. QED
    BY <2>1, <2>2, <2>3 DEF Lives
<1>17. CASE BusOff
  <2>1. Exists' /\ InterruptLives'
    BY <1>1, <1>17 DEF BusOff, StateChange, Notify, Exists, InterruptLives, TaskLives, OwnerWaits
  <2>2. TaskLives'
    BY <1>1, <1>17 DEF BusOff, StateChange, Notify, Exists, TaskLives, PartsTyped, TaskType
  <2>3. OwnerWaits'
    BY <1>1, <1>17 DEF BusOff, StateChange, Notify, OwnerWaits, Exists, PartsTyped
  <2>4. QED
    BY <2>1, <2>2, <2>3 DEF Lives
<1>18. CASE Recovered
  <2>1. Exists' /\ InterruptLives'
    BY <1>1, <1>18 DEF Recovered, StateChange, Notify, Exists, InterruptLives, TaskLives, OwnerWaits
  <2>2. TaskLives'
    BY <1>1, <1>18 DEF Recovered, StateChange, Notify, Exists, TaskLives, PartsTyped, TaskType
  <2>3. OwnerWaits'
    BY <1>1, <1>18 DEF Recovered, StateChange, Notify, OwnerWaits, Exists, PartsTyped
  <2>4. QED
    BY <2>1, <2>2, <2>3 DEF Lives
<1>19. CASE TaskWake
  <2>1. Exists' /\ InterruptLives'
    BY <1>1, <1>19 DEF TaskWake, Exists, InterruptLives, TaskLives, OwnerWaits
  <2>2. TaskLives'
    BY <1>1, <1>19 DEF TaskWake, Exists, TaskLives, PartsTyped, TaskType
  <2>3. OwnerWaits'
    BY <1>1, <1>19 DEF TaskWake, OwnerWaits, Exists, PartsTyped
  <2>4. QED
    BY <2>1, <2>2, <2>3 DEF Lives
<1>20. CASE TaskLook
  <2>1. Exists' /\ InterruptLives'
    BY <1>1, <1>20 DEF TaskLook, Exists, InterruptLives, TaskLives, OwnerWaits
  <2>2. TaskLives'
    BY <1>1, <1>20 DEF TaskLook, Exists, TaskLives, PartsTyped, TaskType
  <2>3. OwnerWaits'
    BY <1>1, <1>20 DEF TaskLook, OwnerWaits, Exists, PartsTyped
  <2>4. QED
    BY <2>1, <2>2, <2>3 DEF Lives
<1>21. CASE TaskRecover
  <2>1. Exists' /\ InterruptLives'
    BY <1>1, <1>21 DEF TaskRecover, Exists, InterruptLives, TaskLives, OwnerWaits
  <2>2. TaskLives'
    BY <1>1, <1>21 DEF TaskRecover, Exists, TaskLives, PartsTyped, TaskType
  <2>3. OwnerWaits'
    BY <1>1, <1>21 DEF TaskRecover, OwnerWaits, Exists, PartsTyped
  <2>4. QED
    BY <2>1, <2>2, <2>3 DEF Lives
<1>22. CASE TaskExit
  <2>1. Exists' /\ InterruptLives'
    BY <1>1, <1>22 DEF TaskExit, Exists, InterruptLives, TaskLives, OwnerWaits
  <2>2. TaskLives'
    BY <1>1, <1>22 DEF TaskExit, Exists, TaskLives, PartsTyped, TaskType
  <2>3. OwnerWaits'
    BY <1>1, <1>22 DEF TaskExit, OwnerWaits, Exists, PartsTyped
  <2>4. QED
    BY <2>1, <2>2, <2>3 DEF Lives
<1>23. CASE BusOn
  <2>1. Exists' /\ InterruptLives'
    BY <1>1, <1>23 DEF BusOn, Free, Exists, InterruptLives, TaskLives, OwnerWaits
  <2>2. TaskLives'
    BY <1>1, <1>23 DEF BusOn, Free, Exists, TaskLives, PartsTyped, TaskType
  <2>3. OwnerWaits'
    BY <1>1, <1>23 DEF BusOn, Free, OwnerWaits, Exists, PartsTyped
  <2>4. QED
    BY <2>1, <2>2, <2>3 DEF Lives
<1>24. CASE RxDone
  <2>1. Exists' /\ InterruptLives'
    BY <1>1, <1>24 DEF RxDone, Exists, InterruptLives, TaskLives, OwnerWaits
  <2>2. TaskLives'
    BY <1>1, <1>24 DEF RxDone, Exists, TaskLives, PartsTyped, TaskType
  <2>3. OwnerWaits'
    BY <1>1, <1>24 DEF RxDone, OwnerWaits, Exists, PartsTyped
  <2>4. QED
    BY <2>1, <2>2, <2>3 DEF Lives
<1>25. CASE RxPlace
  <2>1. Exists' /\ InterruptLives'
    BY <1>1, <1>25 DEF RxPlace, Exists, InterruptLives, TaskLives, OwnerWaits
  <2>2. TaskLives'
    BY <1>1, <1>25 DEF RxPlace, Exists, TaskLives, PartsTyped, TaskType
  <2>3. OwnerWaits'
    BY <1>1, <1>25 DEF RxPlace, OwnerWaits, Exists, PartsTyped
  <2>4. QED
    BY <2>1, <2>2, <2>3 DEF Lives
<1>26. CASE RecvLinkDown
  <2>1. Exists' /\ InterruptLives'
    BY <1>1, <1>26 DEF RecvLinkDown, Free, Exists, InterruptLives, TaskLives, OwnerWaits
  <2>2. TaskLives'
    BY <1>1, <1>26 DEF RecvLinkDown, Free, Exists, TaskLives, PartsTyped, TaskType
  <2>3. OwnerWaits'
    BY <1>1, <1>26 DEF RecvLinkDown, Free, OwnerWaits, Exists, PartsTyped
  <2>4. QED
    BY <2>1, <2>2, <2>3 DEF Lives
<1>27. CASE RecvFrame
  <2>1. Exists' /\ InterruptLives'
    BY <1>1, <1>27 DEF RecvFrame, Free, Exists, InterruptLives, TaskLives, OwnerWaits
  <2>2. TaskLives'
    BY <1>1, <1>27 DEF RecvFrame, Free, Exists, TaskLives, PartsTyped, TaskType
  <2>3. OwnerWaits'
    BY <1>1, <1>27 DEF RecvFrame, Free, OwnerWaits, Exists, PartsTyped
  <2>4. QED
    BY <2>1, <2>2, <2>3 DEF Lives
<1>28. CASE RecvEmpty
  <2>1. Exists' /\ InterruptLives'
    BY <1>1, <1>28 DEF RecvEmpty, Free, Exists, InterruptLives, TaskLives, OwnerWaits
  <2>2. TaskLives'
    BY <1>1, <1>28 DEF RecvEmpty, Free, Exists, TaskLives, PartsTyped, TaskType
  <2>3. OwnerWaits'
    BY <1>1, <1>28 DEF RecvEmpty, Free, OwnerWaits, Exists, PartsTyped
  <2>4. QED
    BY <2>1, <2>2, <2>3 DEF Lives
<1>29. CASE RecvLoss
  <2>1. Exists' /\ InterruptLives'
    BY <1>1, <1>29 DEF RecvLoss, Exists, InterruptLives, TaskLives, OwnerWaits
  <2>2. TaskLives'
    BY <1>1, <1>29 DEF RecvLoss, Exists, TaskLives, PartsTyped, TaskType
  <2>3. OwnerWaits'
    BY <1>1, <1>29 DEF RecvLoss, OwnerWaits, Exists, PartsTyped
  <2>4. QED
    BY <2>1, <2>2, <2>3 DEF Lives
<1>30. CASE UNCHANGED canVars
  <2>1. Exists' /\ InterruptLives'
    BY <1>1, <1>30 DEF canVars, Exists, InterruptLives, TaskLives, OwnerWaits
  <2>2. TaskLives'
    BY <1>1, <1>30 DEF canVars, Exists, TaskLives, PartsTyped, TaskType
  <2>3. OwnerWaits'
    BY <1>1, <1>30 DEF canVars, OwnerWaits, Exists, PartsTyped
  <2>4. QED
    BY <2>1, <2>2, <2>3 DEF Lives
<1>31. QED
  BY <1>3, <1>4, <1>5, <1>6, <1>7, <1>8, <1>9, <1>10, <1>11, <1>12, <1>13, <1>14, <1>15, <1>16, <1>17, <1>18, <1>19, <1>20, <1>21, <1>22, <1>23, <1>24, <1>25, <1>26, <1>27, <1>28, <1>29, <1>30
     DEF CanNext, CanOpenStep, CloseStep, SendStep, TaskStep, RecvStep, Controller

-------------------------------------------------------------------------------
(* Sending. *)

LEMMA Slot ==
  ASSUME NEW s \in Slots
  PROVE  /\ (s + 1) % PoolLen \in Slots
         /\ (s + 1) % PoolLen = IF s + 1 = PoolLen THEN 0 ELSE s + 1
<1>1. s \in Nat /\ s < PoolLen /\ PoolLen \in Nat
  BY Constants
<1>2. \A a \in Nat : a < PoolLen => a % PoolLen = a
  BY <1>1, SMTT(30)
<1>3. s + 1 = PoolLen => (s + 1) % PoolLen = 0
  <2>1. \A a \in Nat \ {0} : a % a = 0
    BY SMTT(30)
  <2>2. QED
    BY <1>1, <2>1
<1>4. s + 1 # PoolLen => (s + 1) % PoolLen = s + 1
  BY <1>1, <1>2
<1>5. QED
  BY <1>1, <1>3, <1>4, Constants

\* A step that neither queues, completes nor drops a frame.
LEMMA SendsKept ==
  ASSUME CanInv,
         send' = send, report' = report, flight' = flight, slot' = slot,
         out' = out, raced' = raced, failed' = failed, silent' \in {silent, TRUE},
         node' \in {"none", "stopped"} => node \in {"none", "stopped"}
  PROVE  Sends'
<1>1. TxTyped'
  BY DEF CanInv, Sends, TxTyped
<1>2. Ring'
  BY DEF CanInv, Sends, Ring
<1>3. Reports'
  BY DEF CanInv, Sends, Reports
<1>4. QED
  BY <1>1, <1>2, <1>3 DEF Sends

\* The frame queued is in the slot just filled, and all the others are one
\* further behind it.
LEMMA QueuedInRing ==
  ASSUME TxTyped, Ring, node \notin {"none", "stopped"}, node' = node,
         Len(flight) <= TxQueueLen,
         flight' = Append(flight, slot), slot' = (slot + 1) % PoolLen
  PROVE  TxTyped' /\ Ring' /\ flight' # <<>>
<1>1. /\ flight \in Seq(Slots) /\ slot \in Slots /\ Len(flight) \in Nat
      /\ DOMAIN flight = 1 .. Len(flight)
  BY LenProperties DEF TxTyped
<1>2. /\ flight' \in Seq(Slots) /\ Len(flight)' = Len(flight) + 1
      /\ DOMAIN flight' = 1 .. Len(flight) + 1
      /\ flight'[Len(flight) + 1] = slot /\ flight' # <<>>
      /\ \A i \in 1 .. Len(flight) : flight'[i] = flight[i]
  BY <1>1, AppendProperties, LenProperties
<1>3. slot' \in Slots /\ slot' = IF slot + 1 = PoolLen THEN 0 ELSE slot + 1
  BY <1>1, Slot
<1>4. TxTyped'
  BY <1>1, <1>2, <1>3, Constants DEF TxTyped
<1>5. ASSUME NEW i \in DOMAIN flight'
      PROVE  flight'[i] + (Len(flight)' + 1 - i) \in {slot', slot' + PoolLen}
  <2>1. CASE i = Len(flight) + 1
    <3>1. flight'[i] = slot /\ Len(flight)' + 1 - i = 1
      BY <1>1, <1>2, <2>1
    <3>2. slot \in Nat /\ slot' \in Nat /\ PoolLen \in Nat
      BY <1>1, <1>3, Constants
    <3>3. slot + 1 = slot' \/ slot + 1 = slot' + PoolLen
      BY <1>3, <3>2
    <3>4. QED
      BY <3>1, <3>3
  <2>2. CASE i \in 1 .. Len(flight)
    <3>1. /\ flight'[i] = flight[i] /\ flight[i] \in Slots
          /\ flight[i] + (Len(flight) + 1 - i) \in {slot, slot + PoolLen}
      BY <1>1, <1>2, <2>2, ElementOfSeq DEF Ring
    <3>2. flight[i] \in Nat /\ flight[i] < PoolLen /\ slot \in Nat /\ PoolLen \in Nat
          /\ Len(flight) <= PoolLen - 2
      BY <1>1, <3>1, Constants
    <3> DEFINE d == Len(flight) + 1 - i
    <3>3. d \in Nat /\ d + 2 <= PoolLen /\ Len(flight)' + 1 - i = d + 1
      BY <1>1, <1>2, <2>2, <3>2
    <3>4. flight[i] + d = slot \/ flight[i] + d = slot + PoolLen
      BY <3>1
    <3> HIDE DEF d
    <3>5. slot' \in Nat /\ slot < PoolLen
      BY <1>1, <1>3, Constants
    <3>6. flight[i] + (d + 1) = slot' \/ flight[i] + (d + 1) = slot' + PoolLen
      <4>1. flight[i] \in Nat /\ d \in Nat /\ slot \in Nat /\ PoolLen \in Nat
        BY <3>2, <3>3
      <4>2. flight[i] < PoolLen /\ slot < PoolLen /\ d + 2 <= PoolLen
        BY <3>2, <3>3, <3>5
      <4>3. slot' = IF slot + 1 = PoolLen THEN 0 ELSE slot + 1
        BY <1>3
      <4>4. PICK f \in Nat, n \in Nat : f = flight[i] /\ n = slot'
        BY <3>5, <4>1
      <4>5. /\ n = IF slot + 1 = PoolLen THEN 0 ELSE slot + 1
            /\ f < PoolLen
            /\ f + d = slot \/ f + d = slot + PoolLen
        BY <3>4, <4>2, <4>3, <4>4
      <4>6. f + (d + 1) = n \/ f + (d + 1) = n + PoolLen
        BY <4>1, <4>2, <4>5
      <4>7. QED
        BY <4>4, <4>6
    <3>7. QED
      BY <3>1, <3>3, <3>6
  <2>3. QED
    BY <1>1, <1>2, <2>1, <2>2
<1>6. Ring'
  BY <1>5 DEF Ring
<1>7. QED
  BY <1>2, <1>4, <1>6

LEMMA SentInRing ==
  ASSUME TxTyped, Ring, node \notin {"none", "stopped"}, node' = node,
         flight # <<>>, flight' = Tail(flight), slot' = slot
  PROVE  TxTyped' /\ Ring' /\ (flight' = <<>> <=> Len(flight) = 1)
<1>1. /\ flight \in Seq(Slots) /\ slot \in Slots /\ Len(flight) \in Nat \ {0}
      /\ DOMAIN flight = 1 .. Len(flight)
  BY LenProperties, EmptySeq DEF TxTyped
<1>2. /\ flight' \in Seq(Slots) /\ Len(flight)' = Len(flight) - 1
      /\ DOMAIN flight' = 1 .. Len(flight) - 1
      /\ \A i \in 1 .. Len(flight) - 1 : flight'[i] = flight[i + 1]
  BY <1>1, HeadTailProperties, LenProperties
<1>3. TxTyped'
  BY <1>1, <1>2, Constants DEF TxTyped
<1>4. ASSUME NEW i \in DOMAIN flight'
      PROVE  flight'[i] + (Len(flight)' + 1 - i) \in {slot', slot' + PoolLen}
  <2>1. /\ i + 1 \in DOMAIN flight /\ flight'[i] = flight[i + 1]
        /\ Len(flight) + 1 - (i + 1) = Len(flight)' + 1 - i
    BY <1>1, <1>2
  <2>2. flight[i + 1] + (Len(flight) + 1 - (i + 1)) \in {slot, slot + PoolLen}
    BY <2>1 DEF Ring
  <2>3. QED
    BY <2>1, <2>2
<1>5. Ring'
  BY <1>4 DEF Ring
<1>6. flight' = <<>> <=> Len(flight)' = 0
  BY <1>2, EmptySeq
<1>7. QED
  BY <1>1, <1>2, <1>3, <1>5, <1>6

LEMMA SendsStep ==
  ASSUME CanInv, [CanNext]_canVars
  PROVE  Sends'
<1>1. /\ PartsTyped /\ FlagsTyped /\ TxTyped /\ Ring /\ Reports
      /\ Exists /\ OwnerWaits
  BY DEF CanInv, Lives, Sends
<1> USE DEF upVars, txVars, rxVars
<1>2. CASE \E m \in BOOLEAN : OpenBuild(m)
  <2>1. /\ owner = "closed" /\ node' \in {"none", "stopped"} /\ slot' = 0
        /\ send' = send /\ report' = report /\ flight' = flight /\ out' = out
        /\ failed' = failed /\ silent' = silent /\ raced' = raced
    BY <1>2 DEF OpenBuild
  <2>2. flight = <<>>
    BY <1>1, <2>1 DEF Exists, Ring
  <2>3. TxTyped'
    BY <1>1, <2>1, Constants DEF TxTyped
  <2>4. Ring'
    BY <2>1, <2>2 DEF Ring
  <2>5. Reports'
    BY <1>1, <2>1 DEF Reports
  <2>6. QED
    BY <2>3, <2>4, <2>5 DEF Sends
<1>3. CASE OpenEnable
  <2>1. /\ owner = "tasked" /\ slot' = slot
        /\ send' = send /\ report' = report /\ flight' = flight /\ out' = out
        /\ failed' = failed /\ raced' = raced
    BY <1>3 DEF OpenEnable
  <2>2. flight = <<>>
    BY <1>1, <2>1 DEF Exists, Ring
  <2>3. TxTyped' /\ Ring'
    BY <1>1, <2>1, <2>2 DEF TxTyped, Ring
  <2>4. Reports'
    BY ZenonT(30), <1>1, <2>1, <2>2 DEF Reports
  <2>5. QED
    BY <2>3, <2>4 DEF Sends
<1>4. CASE Release
  <2>1. /\ owner = "releasing" /\ slot' = slot /\ flight' \in {flight, <<>>}
        /\ node' \in {"none", "stopped"} => flight' = <<>> \/ node' = node
        /\ send' = send /\ report' = report /\ out' = out
        /\ failed' = failed /\ silent' = silent /\ raced' = raced
    BY <1>4 DEF Release
  <2>2. send.at = "none"
    BY <1>1, <2>1 DEF OwnerWaits, PartsTyped, SendType
  <2>3. Len(<<>>) = 0 /\ <<>> \in Seq(Slots)
    OBVIOUS
  <2>4. TxTyped'
    <3>1. CASE flight' = flight
      BY <1>1, <2>1, <3>1 DEF TxTyped
    <3>2. CASE flight' = <<>>
      BY <1>1, <2>1, <2>3, <3>2, Constants DEF TxTyped
    <3>3. QED
      BY <2>1, <3>1, <3>2
  <2>5. Ring'
    BY <1>1, <2>1 DEF Ring
  <2>6. Reports'
    BY <1>1, <2>1, <2>2 DEF Reports
  <2>7. QED
    BY <2>4, <2>5, <2>6 DEF Sends
<1>5. CASE \/ \E controlled, check, wait \in BOOLEAN : SendBegin(controlled, check, wait)
           \/ Admit \/ Fill
  <2>1. /\ node' = node /\ silent' = silent /\ flight' = flight
        /\ slot' = slot /\ (out' => out)
    BY <1>5 DEF SendBegin, Admit, Fill
  <2>2. /\ report' = "none" /\ send'.at \in {"none", "admit", "fill", "room"}
    <3>1. CASE \E controlled, check, wait \in BOOLEAN : SendBegin(controlled, check, wait)
      BY <3>1 DEF SendBegin
    <3>2. CASE Admit
      BY <1>1, <3>2, QuietTyped, SendMoves DEF Admit, Return, Reports, PartsTyped
    <3>3. CASE Fill
      BY <1>1, <3>3, QuietTyped, SendMoves DEF Fill, Return, Reports, PartsTyped
    <3>4. QED
      BY <1>5, <3>1, <3>2, <3>3
  <2>3. TxTyped' /\ Ring'
    BY <1>1, <2>1 DEF TxTyped, Ring
  <2>4. Reports'
    BY <1>1, <2>1, <2>2 DEF Reports
  <2>5. QED
    BY <2>3, <2>4 DEF Sends
<1>6. CASE Transmit
  <2>1. /\ node' = node /\ silent' = silent /\ failed' = failed
        /\ send.at = "room" /\ report = "none"
    BY <1>1, <1>6 DEF Transmit, Reports
  <2>2. /\ report' = "none" /\ send'.at \in {"none", "done"}
        /\ send'.at = "done" => send'.wait
    BY <1>1, <1>6, <2>1, QuietTyped, SendMoves DEF Transmit, Return, PartsTyped, SendType
  <2>3. CASE flight' = flight /\ slot' = slot /\ out' = out
    <3>1. send'.at = "none"
      BY <1>1, <1>6, <2>3, QuietTyped, AppendProperties, LenProperties
         DEF Transmit, Return, TxTyped
    <3>2. QED
      BY <1>1, <2>1, <2>2, <2>3, <3>1 DEF Sends, TxTyped, Ring, Reports
  <2>4. CASE /\ node \in {"on", "busoff", "recovering"} /\ Len(flight) <= TxQueueLen
             /\ flight' = Append(flight, slot) /\ out' = FALSE
             /\ slot' = (slot + 1) % PoolLen
    <3>1. TxTyped' /\ Ring' /\ flight' # <<>>
      BY <1>1, <2>1, <2>4, QueuedInRing
    <3>2. Reports'
      BY <2>2, <2>4, <3>1 DEF Reports
    <3>3. QED
      BY <3>1, <3>2 DEF Sends
  <2>5. QED
    BY <1>6, <2>3, <2>4 DEF Transmit
<1>7. CASE AllDone
  <2>1. /\ node' = node /\ silent' = silent /\ flight' = flight
        /\ slot' = slot /\ out' = out /\ send.at = "done" /\ flight = <<>>
        /\ report' = IF failed THEN "none" ELSE "sent"
        /\ send' = Quiet
    BY <1>7 DEF AllDone, Return
  <2>2. TxTyped' /\ Ring'
    BY <1>1, <2>1 DEF TxTyped, Ring
  <2>3. Reports'
    BY <1>1, <2>1, QuietTyped DEF Reports
  <2>4. QED
    BY <2>2, <2>3 DEF Sends
<1>8. CASE GivesUp
  <2>1. /\ node' = node /\ silent' = silent /\ flight' = flight
        /\ slot' = slot /\ out' = out /\ report' = report
        /\ send.at = "done" /\ send'.at = "late"
    BY <1>1, <1>8, SendMoves DEF GivesUp, PartsTyped
  <2>2. TxTyped' /\ Ring'
    BY <1>1, <2>1 DEF TxTyped, Ring
  <2>3. Reports'
    BY <1>1, <2>1 DEF Reports
  <2>4. QED
    BY <2>2, <2>3 DEF Sends
<1>16. CASE AbortBegin
  <2>1. /\ node' = node /\ silent' = TRUE /\ flight' = flight
        /\ slot' = slot /\ out' = out /\ raced' = out /\ report' = report
        /\ send.at = "late" /\ send'.at = "abort"
    BY <1>1, <1>16, SendMoves DEF AbortBegin, Silence, PartsTyped
  <2>2. TxTyped' /\ Ring'
    BY <1>1, <2>1 DEF TxTyped, Ring
  <2>3. Reports'
    BY <1>1, <2>1 DEF Reports
  <2>4. QED
    BY <2>2, <2>3 DEF Sends
<1>9. CASE Abort
  <2>1. /\ silent' = silent /\ failed' = failed /\ slot' = slot /\ out' = out
        /\ send.at = "abort" /\ report' = "aborted" /\ send' = Quiet /\ raced' = raced
        /\ \/ node' = node /\ flight' = flight
           \/ node' = "stopped" /\ flight' = <<>>
    BY <1>9 DEF Abort, Return
  <2>2. Len(<<>>) = 0 /\ <<>> \in Seq(Slots)
    OBVIOUS
  <2>3. TxTyped' /\ Ring'
    <3>1. CASE node' = node /\ flight' = flight
      BY <1>1, <2>1, <3>1 DEF TxTyped, Ring
    <3>2. CASE flight' = <<>>
      BY <1>1, <2>1, <2>2, <3>2, Constants DEF TxTyped, Ring
    <3>3. QED
      BY <2>1, <3>1, <3>2
  <2>4. Reports'
    BY <1>1, <2>1, QuietTyped DEF Reports
  <2>5. QED
    BY <2>3, <2>4 DEF Sends
<1>10. CASE TxDone
  <2>1. /\ node = "on" /\ flight # <<>> /\ flight' = Tail(flight)
        /\ node' = node /\ slot' = slot /\ send' = send /\ report' = report
        /\ silent' = silent
        /\ raced' = raced
        /\ \/ /\ ~silent /\ failed' = failed
              /\ out' = (Len(flight) = 1 /\ (report # "none" \/ send.wait))
           \/ failed' = (send.at \in {"fill", "room", "done"}) /\ out' = out
    BY <1>10 DEF TxDone
  <2>2. TxTyped' /\ Ring' /\ (flight' = <<>> <=> Len(flight) = 1)
    BY <1>1, <2>1, SentInRing
  <2>3. Reports'
    <3>1. ~out /\ report # "sent" /\ (send.at = "done" => send.wait)
      BY <1>1, <2>1 DEF Reports
    <3>2. CASE /\ ~silent /\ failed' = failed
               /\ out' = (Len(flight) = 1 /\ (report # "none" \/ send.wait))
      <4>1. report # "aborted" /\ send.at # "abort"
        BY <1>1, <2>1, <3>2 DEF Reports
      <4>2. /\ flight' # <<>> => ~out'
            /\ flight' = <<>> /\ send.wait => out'
        BY <2>2, <3>2
      <4>3. send'.at # "none" => report' = "none"
        BY <1>1, <2>1 DEF Reports
      <4>4. QED
        BY <2>1, <3>1, <4>1, <4>2, <4>3 DEF Reports
    <3>3. CASE failed' = (send.at \in {"fill", "room", "done"}) /\ out' = out
      <4>1. send.at = "done" => failed'
        BY <3>3
      <4>2. QED
        BY <1>1, <2>1, <3>1, <3>3, <4>1 DEF Reports
    <3>4. QED
      BY <2>1, <3>2, <3>3
  <2>4. QED
    BY <2>2, <2>3 DEF Sends
<1>11. CASE OpenTask \/ TeardownBegin \/ StopTask
  BY <1>1, <1>11, SendsKept DEF OpenTask, TeardownBegin, StopTask, Silence
<1>12. CASE BusOff \/ Recovered \/ TaskStep \/ BusOn
  BY <1>1, <1>12, SendsKept
     DEF BusOff, Recovered, StateChange, TaskStep, TaskWake, TaskLook, TaskRecover,
         TaskExit, BusOn
<1>13. CASE RxDone \/ RxPlace \/ RecvLinkDown \/ RecvFrame \/ RecvEmpty \/ RecvLoss
  BY <1>13, SendsKept DEF RxDone, RxPlace, RecvLinkDown, RecvFrame, RecvEmpty, RecvLoss
<1>14. CASE UNCHANGED canVars
  BY <1>14, SendsKept DEF canVars
<1>15. QED
  BY <1>2, <1>3, <1>4, <1>5, <1>6, <1>7, <1>8, <1>9, <1>10, <1>11, <1>12, <1>13,
     <1>14, <1>16
     DEF CanNext, CanOpenStep, CloseStep, SendStep, RecvStep, Controller

-------------------------------------------------------------------------------
(* Receiving. *)

\* Seen from one sequence, the later of two is the less far behind.
LEMMA Apart ==
  ASSUME NEW s \in Sequence, NEW m \in Sequence, NEW n \in Sequence
  PROVE  Behind(m, n) = IF Behind(s, m) <= Behind(s, n)
                        THEN Behind(s, n) - Behind(s, m)
                        ELSE Behind(s, n) - Behind(s, m) + SeqMod
BY Constants DEF Behind

LEMMA RxFacts ==
  ASSUME RxTyped
  PROVE  /\ isr \in Sequence /\ seen \in Sequence
         /\ epoch.sequence \in Sequence /\ epoch.lost \in Sequence
         /\ rxq \in Seq(Sequence) /\ Len(rxq) \in Nat /\ Len(rxq) <= RxQueueLen
         /\ DOMAIN rxq = 1 .. Len(rxq)
         /\ \A i \in DOMAIN rxq : rxq[i] \in Sequence
         /\ \A n \in Sequence : Age(n) \in Nat /\ Age(n) < SeqMod
         /\ \A n \in Sequence : Age(n) = 0 <=> n = epoch.sequence
<1>1. /\ isr \in Sequence /\ seen \in Sequence
      /\ epoch.sequence \in Sequence /\ epoch.lost \in Sequence
      /\ rxq \in Seq(Sequence) /\ Len(rxq) <= RxQueueLen
  BY DEF RxTyped, EpochType
<1>2. /\ Len(rxq) \in Nat /\ DOMAIN rxq = 1 .. Len(rxq)
      /\ \A i \in DOMAIN rxq : rxq[i] \in Sequence
  BY <1>1, LenProperties, ElementOfSeq
<1>3. \A n \in Sequence : Age(n) \in Sequence /\ (Age(n) = 0 <=> n = epoch.sequence)
  BY <1>1, BehindTyped DEF Age
<1>4. \A n \in Sequence : n \in Nat /\ n < SeqMod
  BY Constants
<1>5. QED
  BY <1>1, <1>2, <1>3, <1>4

\* Before the first reception there is nothing to be wrong about.
LEMMA NothingYet ==
  ASSUME FromZero', epoch'.sequence = 0
  PROVE  Received'
<1>1. epoch'.lost = 0 /\ seen' = 0 /\ isr' = 0 /\ rxq' = <<>>
  BY DEF FromZero
<1>2. Age(seen)' = 0
  BY <1>1 DEF Age, Behind
<1>3. Ordered'
  BY <1>1, <1>2, Constants DEF Ordered
<1>4. QED
  BY <1>1, <1>3 DEF Received, Counted, NewestKept, Drained, Accounted

\* A step that touches no reception and opens nothing.
LEMMA ReceivesKept ==
  ASSUME CanInv, UNCHANGED rxVars, started' => started,
         owner' \in {"built", "tasked"} => owner \in {"built", "tasked"},
         owner' = "empty" => owner = "empty",
         owner' = "drained" => owner = "drained",
         send'.at = "admit" /\ send'.check =>
           send.at = "admit" /\ send.check /\ send'.seen = send.seen
  PROVE  Receives'
<1>1. RxTyped /\ Fresh /\ FromZero /\ Received
  BY DEF CanInv, Receives
<1>2. /\ isr' = isr /\ rxq' = rxq /\ epoch' = epoch /\ seen' = seen
      /\ misled' = misled
  BY DEF rxVars
<1>3. RxTyped' /\ Fresh' /\ FromZero'
  BY <1>1, <1>2 DEF RxTyped, Fresh, FromZero
<1>4. ASSUME started' PROVE Counted' /\ Ordered' /\ NewestKept' /\ Drained'
  <2>1. Counted /\ Ordered /\ NewestKept /\ Drained
    BY <1>1, <1>4 DEF Received
  <2>2. Counted' /\ NewestKept'
    BY <1>2, <2>1 DEF Counted, NewestKept
  <2>3. Ordered'
    BY <1>2, <2>1 DEF Ordered, Age
  <2>4. Drained'
    BY <1>2, <2>1 DEF Drained, Accounted
  <2>5. QED
    BY <2>2, <2>3, <2>4
<1>5. QED
  BY <1>3, <1>4 DEF Receives, Received

LEMMA OpenReceives ==
  ASSUME CanInv, (\E m \in BOOLEAN : OpenBuild(m)) \/ OpenEnable
  PROVE  Receives'
<1>1. /\ RxTyped /\ Fresh /\ FromZero /\ Exists /\ InterruptLives
  BY DEF CanInv, Lives, Receives
<1>2. CASE \E m \in BOOLEAN : OpenBuild(m)
  <2>1. /\ epoch' = [sequence |-> 0, lost |-> 0] /\ seen' = 0 /\ rxq' = <<>>
        /\ isr' = isr /\ owner = "closed"
    BY <1>2 DEF OpenBuild
  <2>2. isr' = 0
    BY <1>1, <2>1 DEF Exists, InterruptLives
  <2>3. Len(<<>>) = 0 /\ <<>> \in Seq(Sequence)
    OBVIOUS
  <2>4. RxTyped' /\ epoch'.sequence = 0 /\ FromZero' /\ Fresh'
    BY <2>1, <2>2, <2>3, Constants DEF RxTyped, EpochType, FromZero, Fresh
  <2>5. Received'
    BY <2>4, NothingYet
  <2>6. QED
    BY <2>4, <2>5 DEF Receives
<1>3. CASE OpenEnable
  <2>1. /\ epoch' = epoch /\ seen' = seen /\ rxq' = rxq /\ isr' = isr
        /\ owner = "tasked" /\ owner' \in {"idle", "down"}
    BY <1>3 DEF OpenEnable, rxVars
  <2>2. RxTyped' /\ FromZero' /\ Fresh' /\ epoch'.sequence = 0
    BY <1>1, <2>1 DEF RxTyped, FromZero, Fresh
  <2>3. QED
    BY <2>2, NothingYet DEF Receives
<1>4. QED
  BY <1>2, <1>3

LEMMA ReleaseReceives == ASSUME CanInv, Release PROVE Receives'
<1>1. RxTyped /\ FromZero /\ ~started
  BY DEF CanInv, Lives, OwnerWaits, Receives, Release
<1>2. /\ started' = started /\ isr' = isr /\ epoch' = epoch /\ seen' = seen
      /\ owner' \in {"closed", "retained"} /\ (rxq' = rxq \/ rxq' = <<>>)
  BY DEF Release
<1>3. Len(<<>>) = 0 /\ <<>> \in Seq(Sequence)
  OBVIOUS
<1>4. RxTyped'
  <2>1. CASE rxq' = rxq
    BY <1>1, <1>2, <2>1 DEF RxTyped
  <2>2. CASE rxq' = <<>>
    BY <1>1, <1>2, <1>3, <2>2, Constants DEF RxTyped
  <2>3. QED
    BY <1>2, <2>1, <2>2
<1>5. QED
  BY <1>1, <1>2, <1>4 DEF Receives, Fresh, FromZero, Received

\* A message that goes out "unless something came" is queued by an owner that
\* has found nothing.
LEMMA SendReceives ==
  ASSUME CanInv, NEW controlled \in BOOLEAN, NEW check \in BOOLEAN,
         NEW wait \in BOOLEAN, SendBegin(controlled, check, wait)
  PROVE  Receives'
<1>1. RxTyped /\ Fresh /\ FromZero /\ Received
  BY DEF CanInv, Receives
<1>2. /\ isr' = isr /\ rxq' = rxq /\ epoch' = epoch /\ seen' = seen
      /\ misled' = misled /\ started' = started
      /\ owner' \in {owner, "sending"}
      /\ send'.check => owner = "drained" /\ send'.seen = seen
  BY DEF SendBegin, rxVars
<1>3. RxTyped' /\ Fresh' /\ FromZero'
  BY <1>1, <1>2 DEF RxTyped, Fresh, FromZero
<1>4. ASSUME started' PROVE Counted' /\ Ordered' /\ NewestKept' /\ Drained'
  <2>1. Counted /\ Ordered /\ NewestKept /\ Drained
    BY <1>1, <1>2, <1>4 DEF Received
  <2>2. Counted' /\ NewestKept'
    BY <1>2, <2>1 DEF Counted, NewestKept
  <2>3. Ordered'
    BY <1>2, <2>1 DEF Ordered, Age
  <2>4. Drained'
    BY <1>2, <2>1 DEF Drained, Accounted
  <2>5. QED
    BY <2>2, <2>3, <2>4
<1>5. QED
  BY <1>3, <1>4 DEF Receives, Received

LEMMA RxDoneReceives == ASSUME CanInv, RxDone PROVE Receives'
<1> DEFINE s == epoch.sequence
           d == Stride(s)
<1>1. /\ RxTyped /\ FromZero /\ Received /\ Exists /\ PartsTyped
  BY DEF CanInv, Lives, Receives
<1>2. /\ node = "on" /\ started /\ started' = started /\ owner' = owner
      /\ send' = send /\ rxq' = rxq /\ seen' = seen /\ misled' = misled
      /\ IF manual THEN ~misled ELSE s = 0
      /\ epoch' = [epoch EXCEPT !.sequence = NextSequence(@)]
      /\ isr' = epoch'.sequence
      /\ \A n \in Awaited : (s - n) % SeqMod < Lag
  BY DEF RxDone, upVars, txVars
<1>3. /\ s \in Sequence /\ seen \in Sequence /\ epoch.lost \in Sequence
      /\ \A i \in DOMAIN rxq : rxq[i] \in Sequence
      /\ epoch \in EpochType /\ send.seen \in Sequence
  BY <1>1, RxFacts DEF RxTyped, PartsTyped, SendType
<1>4. /\ epoch'.sequence = NextSequence(s) /\ epoch'.lost = epoch.lost
      /\ epoch' \in EpochType /\ isr' = NextSequence(s)
      /\ NextSequence(s) \in Sequence \ {0} /\ d \in {1, 2}
  BY <1>2, <1>3, NextIs DEF EpochType
<1>5. Counted /\ Ordered
  BY <1>1, <1>2 DEF Received
<1>6. \A n \in Sequence : Age(n)' = Behind(NextSequence(s), n)
  BY <1>4 DEF Age
\* What is waited for has been overtaken by few; the queue, by not many more.
<1>7. ASSUME NEW n \in Sequence, n \in Awaited
      PROVE  Age(n) < Lag /\ Behind(NextSequence(s), n) = Age(n) + d
             /\ Behind(NextSequence(s), n) <= Lag + 1 /\ NextSequence(s) # n
  <2>1. Age(n) < Lag /\ Age(n) \in Nat
    BY <1>1, <1>2, <1>3, <1>7, BehindIs, RxFacts DEF Age
  <2>2. Age(n) + 2 < SeqMod
    BY <2>1, Constants
  <2>3. Age(n) = Behind(s, n) /\ s \in Sequence
    BY <1>3 DEF Age
  <2>4. Behind(NextSequence(s), n) = Age(n) + d /\ NextSequence(s) # n
    BY <2>2, <2>3, NextIs
  <2> HIDE DEF d
  <2>5. Age(n) + d <= Lag + 1
    BY <1>4, <2>1, Constants
  <2>6. QED
    BY <2>1, <2>4, <2>5
<1>8. seen \in Awaited
  BY DEF Awaited
<1>9. ASSUME NEW i \in DOMAIN rxq
      PROVE  Behind(NextSequence(s), rxq[i]) = Age(rxq[i]) + d /\ NextSequence(s) # rxq[i]
             /\ Age(rxq[i]) \in Nat
  <2>1. ~misled
    BY <1>1, <1>2 DEF FromZero
  <2>2. Age(rxq[i]) <= Age(seen) + Lag + 1 /\ Age(rxq[i]) \in Nat /\ Age(seen) \in Nat
    BY <1>1, <1>3, <1>5, <2>1, RxFacts DEF Ordered
  <2>3. Age(seen) < Lag
    BY <1>3, <1>7, <1>8
  <2>4. Age(rxq[i]) + 2 < SeqMod
    BY <2>2, <2>3, Constants
  <2>5. QED
    BY <1>3, <2>2, <2>4, NextIs DEF Age
<1>10. RxTyped'
  BY <1>1, <1>2, <1>4 DEF RxTyped
<1>11. Fresh' /\ FromZero'
  BY <1>1, <1>2, <1>4 DEF Fresh, FromZero, Exists
<1>12. epoch.lost # 0 => epoch.lost \in Awaited
  BY DEF Awaited
<1>13. Counted'
  BY <1>2, <1>3, <1>4, <1>7, <1>8, <1>9, <1>12 DEF Counted
<1>14. Ordered'
  <2>1. epoch'.lost # 0 => Age(epoch.lost)' <= Lag + 1
    BY <1>3, <1>4, <1>6, <1>7, <1>12
  <2>2. Age(seen)' = Age(seen) + d /\ Age(seen)' <= Lag + 1 /\ Age(seen) \in Nat
    BY <1>1, <1>2, <1>3, <1>6, <1>7, <1>8, RxFacts
  <2>3. \A i \in DOMAIN rxq : Age(rxq[i])' = Age(rxq[i]) + d /\ Age(rxq[i]) \in Nat
    BY <1>2, <1>3, <1>6, <1>9
  <2> HIDE DEF d
  <2>4. ASSUME ~misled, NEW i \in DOMAIN rxq, NEW j \in DOMAIN rxq, i < j
        PROVE  Age(rxq[j])' < Age(rxq[i])'
    <3>1. Age(rxq[j]) < Age(rxq[i])
      BY <1>5, <2>4 DEF Ordered
    <3>2. QED
      BY <1>4, <2>3, <3>1
  <2>5. ASSUME ~misled, NEW i \in DOMAIN rxq
        PROVE  /\ Age(rxq[i])' <= Age(seen)' + Lag + 1
               /\ owner = "empty" => Age(rxq[i])' <= Age(seen)'
    <3>1. /\ Age(rxq[i]) <= Age(seen) + Lag + 1
          /\ owner = "empty" => Age(rxq[i]) <= Age(seen)
      BY <1>5, <2>5 DEF Ordered
    <3>2. QED
      BY <1>4, <2>2, <2>3, <3>1, Constants
  <2>6. QED
    BY <1>2, <2>1, <2>2, <2>4, <2>5 DEF Ordered
<1>15. NewestKept'
  BY <1>4 DEF NewestKept
<1>16. Drained'
  <2>1. send.check => send.seen \in Awaited
    BY DEF Awaited
  <2>2. NextSequence(s) # seen /\ (send.check => NextSequence(s) # send.seen)
    BY <1>3, <1>7, <1>8, <2>1
  <2>3. QED
    BY <1>2, <1>4, <2>2 DEF Drained
<1>17. QED
  BY <1>10, <1>11, <1>13, <1>14, <1>15, <1>16 DEF Receives, Received

LEMMA RxPlaceReceives == ASSUME CanInv, RxPlace PROVE Receives'
<1> DEFINE s == epoch.sequence
           L == Len(rxq)
<1>1. RxTyped /\ Fresh /\ FromZero /\ Received
  BY DEF CanInv, Receives
<1>2. /\ isr # 0 /\ isr' = 0 /\ seen' = seen /\ misled' = misled
      /\ started' = started /\ owner' = owner /\ send' = send
  BY DEF RxPlace, upVars, txVars
<1>3. /\ s \in Sequence /\ isr \in Sequence /\ seen \in Sequence
      /\ epoch.lost \in Sequence /\ epoch \in EpochType
      /\ rxq \in Seq(Sequence) /\ L \in Nat /\ DOMAIN rxq = 1 .. L
      /\ \A i \in DOMAIN rxq : rxq[i] \in Sequence
      /\ \A n \in Sequence : Age(n) \in Nat /\ (Age(n) = 0 <=> n = s)
  BY <1>1, RxFacts DEF RxTyped
<1>4. s # 0
  BY <1>1, <1>2 DEF FromZero
<1>5. started => Counted /\ Ordered /\ Drained /\ isr = s /\ seen # s /\ epoch.lost # s
  BY <1>1, <1>2 DEF Received, Counted
<1>6. CASE L < RxQueueLen /\ rxq' = Append(rxq, isr) /\ epoch' = epoch
  <2>1. /\ rxq' \in Seq(Sequence) /\ Len(rxq)' = L + 1
        /\ DOMAIN rxq' = 1 .. L + 1 /\ rxq'[L + 1] = isr
        /\ \A i \in 1 .. L : rxq'[i] = rxq[i]
    BY <1>3, <1>6, AppendProperties, LenProperties
  <2>2. RxTyped' /\ Fresh' /\ FromZero'
    BY <1>1, <1>2, <1>4, <1>6, <2>1, Constants DEF RxTyped, Fresh, FromZero
  <2>3. \A n : Age(n)' = Age(n)
    BY <1>6 DEF Age
  <2>4. ASSUME started PROVE Counted' /\ Ordered' /\ NewestKept' /\ Drained'
    <3>1. Age(isr) = 0 /\ Age(seen) \in Nat
      BY <1>3, <1>5, <2>4
    <3>2. \A i \in 1 .. L : Age(rxq[i]) \in Nat /\ Age(rxq[i]) > 0
      BY <1>2, <1>3, <1>5, <2>4 DEF Counted
    <3>3. Age(seen)' = Age(seen) /\ Age(epoch.lost)' = Age(epoch.lost)
      BY <1>2, <1>6 DEF Age
    <3>4. \A i \in DOMAIN rxq' :
            Age(rxq[i])' = IF i = L + 1 THEN 0 ELSE Age(rxq[i])
      BY <1>3, <1>6, <2>1, <3>1 DEF Age
    <3>5. ASSUME ~misled, NEW i \in DOMAIN rxq', NEW j \in DOMAIN rxq', i < j
          PROVE  Age(rxq[j])' < Age(rxq[i])'
      <4>1. i \in 1 .. L
        BY <1>3, <2>1, <3>5
      <4>2. CASE j = L + 1
        BY <1>3, <3>2, <3>4, <4>1, <4>2
      <4>3. CASE j # L + 1
        <5>1. j \in 1 .. L
          BY <1>3, <2>1, <4>3
        <5>2. Age(rxq[j]) < Age(rxq[i])
          BY <1>3, <1>5, <2>4, <3>5, <4>1, <5>1 DEF Ordered
        <5>3. QED
          BY SMTT(30), <1>3, <3>4, <3>5, <4>1, <5>1, <5>2
      <4>4. QED
        BY <4>2, <4>3
    <3>6. ASSUME ~misled, NEW i \in DOMAIN rxq'
          PROVE  /\ Age(rxq[i])' <= Age(seen)' + Lag + 1
                 /\ owner = "empty" => Age(rxq[i])' <= Age(seen)'
      <4>1. CASE i = L + 1
        BY <3>1, <3>3, <3>4, <4>1, Constants
      <4>2. CASE i # L + 1
        <5>1. i \in DOMAIN rxq
          BY <1>3, <2>1, <4>2
        <5>2. /\ Age(rxq[i]) <= Age(seen) + Lag + 1
              /\ owner = "empty" => Age(rxq[i]) <= Age(seen)
          BY <1>5, <2>4, <3>6, <5>1 DEF Ordered
        <5>3. QED
          BY <3>3, <3>4, <4>2, <5>2
      <4>3. QED
        BY <4>1, <4>2
    <3>7. Ordered'
      BY <1>2, <1>5, <1>6, <2>4, <3>3, <3>5, <3>6 DEF Ordered
    <3>8. NewestKept'
      <4>1. L + 1 \in DOMAIN rxq' /\ rxq'[L + 1] = epoch'.sequence
        BY <1>3, <1>5, <1>6, <2>1, <2>4
      <4>2. QED
        BY <4>1 DEF NewestKept
    <3>9. Counted' /\ Drained'
      BY <1>2, <1>5, <1>6, <2>4 DEF Counted, Drained, Accounted
    <3>10. QED
      BY <3>7, <3>8, <3>9
  <2>5. QED
    BY <1>2, <2>2, <2>4 DEF Receives, Received
\* With the queue full, the reception is the newest that was lost.
<1>7. CASE /\ rxq' = rxq
           /\ epoch' = IF epoch.lost = 0 \/ Later(isr, epoch.lost)
                       THEN [epoch EXCEPT !.lost = isr] ELSE epoch
  <2>1. epoch' \in EpochType /\ epoch'.sequence = s
    BY <1>3, <1>7 DEF EpochType
  <2>2. RxTyped' /\ Fresh' /\ FromZero'
    BY <1>1, <1>2, <1>4, <1>7, <2>1, Constants DEF RxTyped, Fresh, FromZero
  <2>3. ASSUME started PROVE Counted' /\ Ordered' /\ NewestKept' /\ Drained'
    <3>1. epoch.lost = 0 \/ Later(isr, epoch.lost)
      <4> SUFFICES ASSUME epoch.lost # 0 PROVE Later(isr, epoch.lost)
        OBVIOUS
      <4>1. Age(epoch.lost) <= Lag + 1 /\ Age(epoch.lost) \in Nat
        BY <1>3, <1>5, <2>3 DEF Ordered
      <4>2. Behind(isr, epoch.lost) < SeqMod \div 2 /\ isr # epoch.lost
        BY <1>5, <2>3, <4>1, Constants DEF Age
      <4>3. QED
        BY <1>3, <4>2, LaterIs
    <3>2. epoch'.lost = s /\ epoch'.sequence = s
      BY <1>3, <1>5, <1>7, <2>3, <3>1 DEF EpochType
    <3>3. \A n : Behind(epoch'.sequence, n) = Age(n)
      BY <3>2 DEF Age
    <3>4. Age(s) = 0
      BY <1>3
    <3>5. Ordered'
      BY <1>2, <1>5, <1>7, <2>3, <3>2, <3>3, <3>4, Constants DEF Ordered, Age
    <3>6. NewestKept'
      BY <3>2 DEF NewestKept
    <3>7. Counted' /\ Drained'
      BY <1>2, <1>5, <1>7, <2>3, <3>2 DEF Counted, Drained, Accounted
    <3>8. QED
      BY <3>5, <3>6, <3>7
  <2>4. QED
    BY <1>2, <2>2, <2>3 DEF Receives, Received
<1>8. QED
  BY <1>6, <1>7 DEF RxPlace

LEMMA LinkDownReceives == ASSUME CanInv, RecvLinkDown PROVE Receives'
<1>1. RxTyped /\ Fresh /\ FromZero /\ Received
  BY DEF CanInv, Receives
<1>2. /\ isr' = isr /\ rxq' = rxq /\ epoch' = epoch /\ send' = send
      /\ owner' = "idle" /\ started' = started
      /\ seen' = IF Later(0, seen) THEN 0 ELSE seen
      /\ misled' = (misled \/ Later(0, seen))
  BY DEF RecvLinkDown, See, txVars, upVars
<1>3. RxTyped' /\ Fresh' /\ FromZero'
  BY <1>1, <1>2, Constants DEF RxTyped, Fresh, FromZero
<1>4. ASSUME started PROVE Counted' /\ Ordered' /\ NewestKept' /\ Drained'
  <2>1. Counted /\ Ordered /\ NewestKept /\ Drained
    BY <1>1, <1>4 DEF Received
  <2>2. Counted'
    BY <1>2, <2>1 DEF Counted
  <2>3. ~misled' => ~misled /\ seen' = seen
    BY <1>2
  <2>4. Ordered'
    BY <1>2, <2>1, <2>3 DEF Ordered, Age
  <2>5. NewestKept'
    BY <1>2, <2>1, <2>3 DEF NewestKept
  <2>6. Drained'
    BY <1>2, <2>1 DEF Drained, Accounted
  <2>7. QED
    BY <2>2, <2>4, <2>5, <2>6
<1>5. QED
  BY <1>2, <1>3, <1>4 DEF Receives, Received

\* What is taken to have been seen when a sequence is: the newest, if it is
\* that one, and otherwise nothing that was not seen.
LEMMA SeenIs ==
  ASSUME RxTyped, NEW n \in Sequence, See(n), Age(seen) <= Lag + 1
  PROVE  /\ seen' \in {seen, n}
         /\ n = epoch.sequence => seen' = epoch.sequence
         /\ seen = epoch.sequence /\ Age(n) <= Lag + 1 => seen' = epoch.sequence
         /\ Age(n) <= Age(seen) + Lag + 1 =>
              IF Age(n) <= Age(seen) THEN seen' = n ELSE seen' = seen
<1>1. /\ seen \in Sequence /\ epoch.sequence \in Sequence
      /\ Age(n) \in Nat /\ Age(seen) \in Nat /\ Age(n) < SeqMod
      /\ (Age(n) = 0 <=> n = epoch.sequence)
      /\ (Age(seen) = 0 <=> seen = epoch.sequence)
  BY RxFacts
<1>2. seen' = IF Later(n, seen) THEN n ELSE seen
  BY DEF See
<1>3. Later(n, seen) <=> n # seen /\ Behind(n, seen) < SeqMod \div 2
  BY <1>1, LaterIs
<1>4. Behind(n, seen) = IF Age(n) <= Age(seen) THEN Age(seen) - Age(n)
                        ELSE Age(seen) - Age(n) + SeqMod
  BY <1>1, Apart DEF Age
<1> DEFINE half == SeqMod \div 2
<1>5. half \in Nat /\ Lag + 1 < half /\ 2 * half <= SeqMod /\ Lag \in Nat /\ SeqMod \in Nat
  BY Constants
<1> HIDE DEF half
<1>6. CASE Age(n) <= Age(seen)
  <2>1. Behind(n, seen) < half
    BY <1>1, <1>4, <1>5, <1>6
  <2>2. seen' = n
    BY <1>2, <1>3, <2>1 DEF half
  <2>3. seen = epoch.sequence => n = epoch.sequence
    BY <1>1, <1>6
  <2>4. QED
    BY <1>6, <2>2, <2>3
<1>7. CASE ~(Age(n) <= Age(seen))
  <2>1. n # epoch.sequence
    BY <1>1, <1>7
  <2>2. ASSUME Age(n) <= Age(seen) + Lag + 1
        PROVE  seen' = seen
    <3>1. Behind(n, seen) >= half
      BY <1>1, <1>4, <1>5, <1>7, <2>2
    <3>2. Behind(n, seen) \in Nat
      BY <1>1, <1>4, <1>5, <1>7, <2>2
    <3>3. ~(Behind(n, seen) < half)
      BY <1>5, <3>1, <3>2
    <3>4. QED
      BY <1>2, <1>3, <3>3 DEF half
  <2>3. seen = epoch.sequence /\ Age(n) <= Lag + 1 => Age(n) <= Age(seen) + Lag + 1
    BY <1>1, <1>5
  <2>4. QED
    BY <1>2, <1>7, <2>1, <2>2, <2>3
<1>8. QED
  BY <1>6, <1>7

LEMMA SeeTyped ==
  ASSUME seen \in Sequence, NEW n \in Sequence, See(n)
  PROVE  seen' \in Sequence /\ seen' \in {seen, n}
BY DEF See

LEMMA FrameReceives == ASSUME CanInv, RecvFrame PROVE Receives'
<1> DEFINE L == Len(rxq)
           n == rxq[1]
<1>1. RxTyped /\ Fresh /\ FromZero /\ Received
  BY DEF CanInv, Receives
<1>2. /\ started /\ rxq # <<>> /\ See(Head(rxq)) /\ rxq' = Tail(rxq)
      /\ isr' = isr /\ epoch' = epoch /\ misled' = misled /\ send' = send
      /\ owner' = "idle" /\ started' = started
  BY DEF RecvFrame, txVars, upVars
<1>3. /\ seen \in Sequence /\ epoch.sequence \in Sequence
      /\ rxq \in Seq(Sequence) /\ L \in Nat \ {0} /\ L <= RxQueueLen
      /\ DOMAIN rxq = 1 .. L /\ 1 \in DOMAIN rxq
      /\ \A i \in DOMAIN rxq : rxq[i] \in Sequence
      /\ \A m \in Sequence : Age(m) \in Nat /\ (Age(m) = 0 <=> m = epoch.sequence)
  BY <1>1, <1>2, RxFacts, EmptySeq
<1>4. /\ Head(rxq) = n /\ n \in Sequence
      /\ rxq' \in Seq(Sequence) /\ Len(rxq)' = L - 1 /\ DOMAIN rxq' = 1 .. L - 1
      /\ \A i \in 1 .. L - 1 : rxq'[i] = rxq[i + 1]
  BY <1>2, <1>3, HeadTailProperties, LenProperties
<1>5. seen' \in Sequence /\ seen' \in {seen, n}
  BY <1>2, <1>3, <1>4, SeeTyped
<1>6. epoch.sequence # 0
  BY <1>1, <1>2 DEF FromZero
<1>7. RxTyped' /\ Fresh' /\ FromZero'
  BY <1>1, <1>2, <1>3, <1>4, <1>5, <1>6, Constants DEF RxTyped, Fresh, FromZero
<1>8. Counted /\ Ordered /\ NewestKept /\ Drained
  BY <1>1, <1>2 DEF Received
<1>9. \A i \in DOMAIN rxq' : i + 1 \in DOMAIN rxq /\ rxq'[i] = rxq[i + 1]
  BY SMTT(30), <1>3, <1>4
<1>10. Counted'
  BY <1>2, <1>3, <1>4, <1>5, <1>8, <1>9 DEF Counted
<1>11. Drained'
  BY <1>2, <1>8 DEF Drained, Accounted
<1>12. ASSUME ~misled
       PROVE  /\ Age(seen) <= Lag + 1 /\ Age(seen) \in Nat
              /\ Age(n) \in Nat /\ Age(n) <= Age(seen) + Lag + 1
              /\ IF Age(n) <= Age(seen) THEN seen' = n ELSE seen' = seen
              /\ seen = epoch.sequence => seen' = epoch.sequence
              /\ n = epoch.sequence => seen' = epoch.sequence
  <2>1. /\ Age(seen) <= Lag + 1 /\ Age(seen) \in Nat
        /\ Age(n) \in Nat /\ Age(n) <= Age(seen) + Lag + 1
    BY <1>3, <1>4, <1>8, <1>12 DEF Ordered
  <2>2. seen = epoch.sequence => Age(n) <= Lag + 1
    BY <1>3, <2>1, Constants
  <2>3. See(n)
    BY <1>2, <1>4
  <2> HIDE DEF n
  <2>4. QED
    BY <1>1, <1>4, <2>1, <2>2, <2>3, SeenIs
<1>13. Ordered'
  <2>1. \A m : Age(m)' = Age(m)
    BY <1>2 DEF Age
  <2>2. Age(seen)' = Behind(epoch.sequence, seen') /\ Age(seen) = Behind(epoch.sequence, seen)
        /\ Age(n) = Behind(epoch.sequence, n)
    BY <1>2 DEF Age
  <2>3. \A i \in DOMAIN rxq' : Age(rxq[i])' = Age(rxq[i + 1])
    BY <1>2, <1>9 DEF Age
  <2>4. epoch'.lost # 0 => Age(epoch.lost)' <= Lag + 1
    BY <1>2, <1>8 DEF Ordered, Age
  <2>5. ASSUME ~misled
        PROVE  Age(seen)' <= Lag + 1
    BY <1>12, <2>2, <2>5, Constants
  <2>6. ASSUME ~misled, NEW i \in DOMAIN rxq', NEW j \in DOMAIN rxq', i < j
        PROVE  Age(rxq[j])' < Age(rxq[i])'
    <3>1. i + 1 \in DOMAIN rxq /\ j + 1 \in DOMAIN rxq /\ i + 1 < j + 1
      BY <1>4, <1>9, <2>6
    <3>2. QED
      BY <1>8, <2>3, <2>6, <3>1 DEF Ordered
  <2>7. ASSUME ~misled, NEW i \in DOMAIN rxq'
        PROVE  Age(rxq[i])' <= Age(seen)' + Lag + 1
    <3>1. i + 1 \in DOMAIN rxq /\ 1 < i + 1
      BY <1>4, <1>9
    <3>2. /\ Age(rxq[i + 1]) <= Age(seen) + Lag + 1
          /\ Age(rxq[i + 1]) < Age(n) /\ Age(rxq[i + 1]) \in Nat
      BY <1>3, <1>8, <2>7, <3>1 DEF Ordered
    <3>3. CASE seen' = seen
      BY <2>2, <2>3, <3>2, <3>3
    <3>4. CASE seen' = n
      BY <1>12, <2>2, <2>3, <2>7, <3>2, <3>4, Constants
    <3>5. QED
      BY <1>5, <3>3, <3>4
  <2>8. QED
    BY <1>2, <2>4, <2>5, <2>6, <2>7 DEF Ordered
<1>14. NewestKept'
  <2> SUFFICES ASSUME ~misled' PROVE NewestKept'
    BY DEF NewestKept
  <2>1. ~misled
    BY <1>2
  <2>2. CASE epoch.sequence = seen \/ n = epoch.sequence
    BY <1>2, <1>12, <2>1, <2>2 DEF NewestKept
  <2>3. CASE epoch.sequence = epoch.lost \/ isr # 0
    BY <1>2, <2>3 DEF NewestKept
  <2>4. ASSUME NEW i \in DOMAIN rxq, rxq[i] = epoch.sequence, i # 1
        PROVE  NewestKept'
    <3>1. i - 1 \in DOMAIN rxq' /\ rxq'[i - 1] = epoch.sequence
      BY SMTT(30), <1>3, <1>4, <2>4
    <3>2. QED
      BY <1>2, <3>1 DEF NewestKept
  <2>5. QED
    BY <1>8, <2>1, <2>2, <2>3, <2>4 DEF NewestKept
<1>15. QED
  BY <1>2, <1>7, <1>10, <1>11, <1>13, <1>14 DEF Receives, Received

LEMMA EmptyReceives == ASSUME CanInv, RecvEmpty PROVE Receives'
<1>1. RxTyped /\ Fresh /\ FromZero /\ Received
  BY DEF CanInv, Receives
<1>2. /\ isr' = isr /\ rxq' = rxq /\ epoch' = epoch /\ send' = send
      /\ seen' = seen /\ misled' = misled
      /\ owner' = "empty" /\ started' = started /\ (started => rxq = <<>>)
  BY DEF RecvEmpty, txVars, upVars, rxVars
<1>3. RxTyped' /\ Fresh' /\ FromZero'
  BY <1>1, <1>2 DEF RxTyped, Fresh, FromZero
<1>4. ASSUME started PROVE Counted' /\ Ordered' /\ NewestKept' /\ Drained'
  <2>1. Counted /\ Ordered /\ NewestKept /\ Drained
    BY <1>1, <1>4 DEF Received
  <2>2. Counted' /\ NewestKept'
    BY <1>2, <2>1 DEF Counted, NewestKept
  <2>3. Ordered'
    BY <1>2, <1>4, <2>1 DEF Ordered, Age
  <2>4. Drained'
    BY <1>2, <1>4, <2>1 DEF Drained, Accounted, Counted
  <2>5. QED
    BY <2>2, <2>3, <2>4
<1>5. QED
  BY <1>2, <1>3, <1>4 DEF Receives, Received

LEMMA LossReceives == ASSUME CanInv, RecvLoss PROVE Receives'
<1>1. RxTyped /\ Fresh /\ FromZero /\ Received
  BY DEF CanInv, Receives
<1>2. /\ owner = "empty" /\ isr' = isr /\ rxq' = rxq /\ send' = send
      /\ misled' = misled /\ started' = started
  BY DEF RecvLoss, txVars, upVars
<1>3. CASE epoch.lost = 0 /\ owner' = "drained" /\ seen' = seen /\ epoch' = epoch
  <2>1. RxTyped' /\ Fresh' /\ FromZero'
    BY <1>1, <1>2, <1>3 DEF RxTyped, Fresh, FromZero
  <2>2. ASSUME started PROVE Counted' /\ Ordered' /\ NewestKept' /\ Drained'
    <3>1. Counted /\ Ordered /\ NewestKept /\ Drained
      BY <1>1, <2>2 DEF Received
    <3>2. Counted' /\ NewestKept'
      BY <1>2, <1>3, <3>1 DEF Counted, NewestKept
    <3>3. Ordered'
      BY <1>2, <1>3, <3>1 DEF Ordered, Age
    <3>4. Drained'
      BY <1>2, <1>3, <3>1 DEF Drained, Accounted
    <3>5. QED
      BY <3>2, <3>3, <3>4
  <2>3. QED
    BY <1>2, <2>1, <2>2 DEF Receives, Received
<1>4. CASE /\ epoch.lost # 0 /\ owner' = "idle" /\ See(epoch.lost)
           /\ epoch' = [epoch EXCEPT !.lost = 0]
  <2>1. /\ seen \in Sequence /\ epoch.lost \in Sequence /\ epoch \in EpochType
        /\ epoch.sequence \in Sequence
        /\ \A m \in Sequence : Age(m) \in Nat /\ (Age(m) = 0 <=> m = epoch.sequence)
        /\ \A i \in DOMAIN rxq : rxq[i] \in Sequence
    BY <1>1, RxFacts DEF RxTyped
  <2>2. /\ epoch' \in EpochType /\ epoch'.sequence = epoch.sequence /\ epoch'.lost = 0
    BY <1>4, <2>1, Constants DEF EpochType
  <2>3. seen' \in Sequence /\ seen' \in {seen, epoch.lost}
    BY <1>4, <2>1, SeeTyped
  <2>4. epoch.sequence # 0
    BY <1>1, <1>4 DEF FromZero
  <2>5. RxTyped' /\ Fresh' /\ FromZero'
    BY <1>1, <1>2, <1>4, <2>2, <2>3, <2>4 DEF RxTyped, Fresh, FromZero
  <2>6. ASSUME started PROVE Counted' /\ Ordered' /\ NewestKept' /\ Drained'
    <3>1. Counted /\ Ordered /\ NewestKept /\ Drained
      BY <1>1, <2>6 DEF Received
    <3>2. Counted'
      BY <1>2, <2>2, <2>3, <3>1 DEF Counted
    <3>3. Age(epoch.lost) <= Lag + 1 /\ Age(epoch.lost) \in Nat
      BY <1>4, <2>1, <3>1 DEF Ordered
    <3>4. ASSUME ~misled
          PROVE  /\ Age(seen) <= Lag + 1 /\ Age(seen) \in Nat
                 /\ seen = epoch.sequence => seen' = epoch.sequence
                 /\ epoch.lost = epoch.sequence => seen' = epoch.sequence
      <4>1. Age(seen) <= Lag + 1 /\ Age(seen) \in Nat
        BY <2>1, <3>1, <3>4 DEF Ordered
      <4>2. QED
        BY <1>1, <1>4, <2>1, <3>3, <4>1, SeenIs
    <3>5. Age(seen)' = Behind(epoch.sequence, seen')
          /\ Age(seen) = Behind(epoch.sequence, seen)
          /\ Age(epoch.lost) = Behind(epoch.sequence, epoch.lost)
          /\ \A i \in DOMAIN rxq : Age(rxq[i])' = Age(rxq[i])
      BY <1>2, <2>2 DEF Age
    <3>6. ASSUME ~misled
          PROVE  Age(seen)' <= Lag + 1 /\ Age(seen)' \in Nat
      BY <2>3, <3>3, <3>4, <3>5, <3>6
    <3>7. ASSUME ~misled, NEW i \in DOMAIN rxq
          PROVE  Age(rxq[i])' <= Age(seen)' + Lag + 1
      <4>1. Age(rxq[i]) <= Age(seen) /\ Age(rxq[i]) \in Nat
        BY <1>2, <2>1, <3>1, <3>7 DEF Ordered
      <4>2. QED
        BY <3>4, <3>5, <3>6, <3>7, <4>1, Constants
    <3>8. Ordered'
      BY <1>2, <1>4, <2>2, <3>1, <3>5, <3>6, <3>7 DEF Ordered
    <3>9. NewestKept'
      BY <1>2, <2>2, <3>1, <3>4 DEF NewestKept
    <3>10. Drained'
      BY <1>2, <1>4, <2>2, <3>1 DEF Drained, Accounted
    <3>11. QED
      BY <3>2, <3>8, <3>9, <3>10
  <2>7. QED
    BY <1>2, <2>5, <2>6 DEF Receives, Received
<1>5. QED
  BY <1>3, <1>4 DEF RecvLoss

LEMMA ReceivesStep == ASSUME CanInv, [CanNext]_canVars PROVE Receives'
<1>1. PartsTyped
  BY DEF CanInv
<1>2. CASE (\E m \in BOOLEAN : OpenBuild(m)) \/ OpenEnable
  BY <1>2, OpenReceives
<1>3. CASE Release
  BY <1>3, ReleaseReceives
<1>4. CASE \E controlled, check, wait \in BOOLEAN : SendBegin(controlled, check, wait)
  BY <1>4, SendReceives
<1>5. CASE RxDone
  BY <1>5, RxDoneReceives
<1>6. CASE RxPlace
  BY <1>6, RxPlaceReceives
<1>7. CASE RecvLinkDown
  BY <1>7, LinkDownReceives
<1>8. CASE RecvFrame
  BY <1>8, FrameReceives
<1>9. CASE RecvEmpty
  BY <1>9, EmptyReceives
<1>10. CASE RecvLoss
  BY <1>10, LossReceives
<1>11. CASE OpenTask \/ TeardownBegin \/ StopTask
  BY <1>11, ReceivesKept
     DEF OpenTask, TeardownBegin, StopTask, Silence, txVars
<1>12. CASE Admit \/ Fill
  <2>1. /\ UNCHANGED rxVars /\ started' = started
        /\ owner' \in {owner, "idle"}
        /\ send'.at # "admit"
    BY <1>1, <1>12, QuietTyped, SendMoves DEF Admit, Fill, Return, Back, PartsTyped
  <2>2. QED
    BY <2>1, ReceivesKept
<1>13. CASE Transmit \/ AllDone
  <2>1. /\ UNCHANGED rxVars /\ started' = started
        /\ owner' \in {owner, "idle"}
        /\ send'.at # "admit"
    BY <1>1, <1>13, QuietTyped, SendMoves DEF Transmit, AllDone, Return, Back, PartsTyped
  <2>2. QED
    BY <2>1, ReceivesKept
<1>14. CASE GivesUp \/ AbortBegin \/ Abort
  <2>1. UNCHANGED rxVars /\ (started' => started) /\ owner' \in {owner, "stopping"}
    BY <1>14 DEF GivesUp, AbortBegin, Abort, Silence
  <2>2. send'.at # "admit"
    BY <1>1, <1>14, QuietTyped, SendMoves
       DEF GivesUp, AbortBegin, Abort, Return, PartsTyped
  <2>3. QED
    BY <2>1, <2>2, ReceivesKept
<1>15. CASE TxDone \/ BusOff \/ Recovered \/ TaskStep \/ BusOn
  BY <1>15, ReceivesKept
     DEF TxDone, BusOff, Recovered, StateChange, TaskStep, TaskWake, TaskLook,
         TaskRecover, TaskExit, BusOn, txVars
<1>16. CASE UNCHANGED canVars
  BY <1>16, ReceivesKept DEF canVars, txVars
<1>17. QED
  BY <1>2, <1>3, <1>4, <1>5, <1>6, <1>7, <1>8, <1>9, <1>10, <1>11, <1>12, <1>13,
     <1>14, <1>15, <1>16
     DEF CanNext, CanOpenStep, CloseStep, SendStep, RecvStep, Controller

-------------------------------------------------------------------------------
(* What it all comes to. *)

\* The invariant holds in every state: opening, sending, receiving, recovering
\* and closing all keep it (can_bus.c).
THEOREM CanHolds == CanSpec => []CanInv
<1>1. CanInv /\ [CanNext]_canVars => CanInv'
  BY TypesKept, LivesKept, SendsStep, ReceivesStep DEF CanInv
<1>2. QED
  BY InitCan, <1>1, PTL DEF CanSpec

\* The slot that is filled is not one the controller's driver holds: there is
\* one slot more than it can hold and the one being filled.
LEMMA RingApart == ASSUME TxTyped, Ring PROVE FramesIntact
<1> SUFFICES ASSUME NEW i \in DOMAIN flight, flight[i] = slot PROVE FALSE
  BY DEF FramesIntact
<1>1. /\ Len(flight) \in Nat /\ Len(flight) <= TxQueueLen + 1
      /\ DOMAIN flight = 1 .. Len(flight) /\ slot \in Nat
  BY LenProperties, Constants DEF TxTyped
<1>2. slot + (Len(flight) + 1 - i) \in {slot, slot + PoolLen}
  BY DEF Ring
<1>3. QED
  BY <1>1, <1>2, Constants

LEMMA TrafficFollows == ASSUME CanInv PROVE TrafficIsTrue
<1>1. /\ PartsTyped /\ Exists /\ TaskLives /\ InterruptLives
      /\ TxTyped /\ Ring /\ Reports /\ RxTyped /\ FromZero /\ Received
  BY DEF CanInv, Lives, Sends, Receives
<1>2. CanTypeOK
  <2>1. send.at \in {"none", "admit", "fill", "room", "done", "late", "abort"}
    BY <1>1 DEF PartsTyped, SendType
  <2>2. /\ task.at \in {"loop", "woken", "recover", "fine", "leave", "gone"}
        /\ task.notes \in 0 .. 1
    BY <1>1 DEF PartsTyped, TaskType
  <2>3. {isr, epoch.sequence, epoch.lost, seen} \subseteq Sequence
    BY <1>1, RxFacts
  <2>4. QED
    BY <1>1, <2>1, <2>2, <2>3
       DEF CanTypeOK, PartsTyped, OwnerType, NodeType, TxTyped, RxTyped
<1>3. FramesIntact
  BY <1>1, RingApart
<1>4. NothingFreedInUse
  BY <1>1 DEF NothingFreedInUse, Exists, TaskLives, InterruptLives
<1>5. NothingUnseen
  <2>1. ASSUME started, Accounted, ~misled PROVE seen = epoch.sequence
    <3>1. NewestKept
      BY <1>1, <2>1 DEF Received
    <3>2. ~ \E i \in DOMAIN rxq : rxq[i] = epoch.sequence
      BY <2>1 DEF Accounted
    <3>3. epoch.sequence = epoch.lost => seen = epoch.sequence
      BY <1>1, <2>1 DEF Accounted, FromZero
    <3>4. QED
      BY <2>1, <3>1, <3>2, <3>3 DEF NewestKept, Accounted
  <2>2. ASSUME started, send.at = "admit", send.check, ~Unseen PROVE Accounted
    BY <1>1, <2>2 DEF Received, Drained, Unseen
  <2>3. QED
    BY <2>1, <2>2 DEF NothingUnseen
<1>6. ReportIsTrue
  BY <1>1 DEF Reports, ReportIsTrue
<1>7. QED
  BY <1>2, <1>3, <1>4, <1>5, <1>6 DEF TrafficIsTrue, MemoryIsOwned

\* Whatever the lengths of the queues and the modulus: no frame the controller
\* holds is overwritten, neither can_bus_task nor an interrupt outlives what a
\* close frees, a message that waits for silence goes out past no reception, and
\* what a send reports is so (can_bus.c with the receive epoch of bus_tx.c).
THEOREM TrafficTheorem == CanSpec => []TrafficIsTrue
BY CanHolds, TrafficFollows, PTL
===============================================================================
