----------------------------- MODULE J2534Proofs ------------------------------
(***************************************************************************)
(* Proofs about J2534, for any receive queue, any segmented messages, any  *)
(* of the scheduled ones and any number of users.                          *)
(*                                                                         *)
(* A step of the front-end is a chain of calls that change the channels,   *)
(* each an operator from one record of them (Desk) to the records it may   *)
(* become.  So the invariant is a predicate of such a record, one lemma    *)
(* per operator says that it leaves a good one good, and a step follows    *)
(* the chain.                                                              *)
(***************************************************************************)
EXTENDS J2534, TLAPS

-------------------------------------------------------------------------------
(* The inductive invariant. *)

Kinds == {"none", "message", "isotp", "fc", "job"}
States == {"none", "queued", "active", "ended", "ok", "failed", "refused", "cancelled"}
Marks == {"none", "old", "before", "within", "due"}
PendType ==
  [kind : Kinds, discard : BOOLEAN, confirmed : BOOLEAN, own : BOOLEAN,
   current : BOOLEAN, generation : BOOLEAN]
IsoType == [st : {"none", "queued", "confirm", "fc", "cf"}, next : Nat, size : Nat, out : Nat]
JobType ==
  [kind : JobKinds \cup {"none"}, active : BOOLEAN, pending : BOOLEAN, ended : BOOLEAN,
   sent : BOOLEAN, matched : BOOLEAN, match : Marks, known : BOOLEAN]
Hearing == [kind : {"match", "single", "first", "next", "flow"}, when : Marks]
DeskType ==
  [pend : PendType, worker : States, late : BOOLEAN, raw : BOOLEAN, rawOut : BOOLEAN,
   iso : IsoType, untrue : BOOLEAN, cursor : {"raw", "iso"}, rx : {"idle", "confirm", "cf"},
   asked : BOOLEAN, fcPending : BOOLEAN, job : JobType, clock : {"within", "due"},
   linkDown : BOOLEAN]

Gone == {"ended", "ok"}

\* The frame with the worker, and the message it belongs to.
MailOk(s) ==
  /\ (s.pend.kind = "none") = (s.worker = "none")
  /\ s.pend.own /\ ~s.pend.discard /\ s.pend.kind = "message" => s.pend.current

\* What is called sent went out.
RawOk(s) ==
  /\ ~s.untrue
  /\ s.pend.kind = "message" /\ s.pend.own /\ s.pend.current /\ s.worker \in Gone => s.rawOut

\* A segmented message that waits for its frame has it with the worker.
IsoOk(s) ==
  /\ s.iso.next <= s.iso.size
  /\ s.iso.st \in {"queued", "fc", "cf"} => s.iso.next < s.iso.size
  /\ s.iso.st \in {"queued", "fc", "cf"} => s.iso.out = s.iso.next
  /\ s.iso.st = "confirm" =>
       /\ s.pend.kind = "isotp" /\ Settles(s.pend) /\ s.pend.current
       /\ s.worker \in Gone => s.iso.out = s.iso.next
       /\ s.worker \in {"queued", "active"} => s.iso.out + 1 = s.iso.next
  /\ s.pend.kind = "isotp" /\ s.pend.own /\ s.pend.current
     /\ s.worker \in {"queued", "active"} => s.iso.st = "confirm"

\* A flow control that would still be believed is the present wait's.
FlowOk(s) ==
  /\ s.rx = "cf" => s.asked /\ ~s.fcPending
  /\ s.pend.kind = "fc" /\ Settles(s.pend) /\ s.pend.generation =>
       /\ s.rx # "cf"
       /\ s.rx = "confirm" =>
            s.pend.current /\ ~s.fcPending /\ (s.worker \in Gone => s.asked)

\* The scheduled message's frame, and what is known of its answers.
JobOk(s) ==
  /\ s.job.kind = "none" => Over(s.job)
  /\ s.pend.kind = "job" /\ s.pend.own => s.job.pending
  /\ s.pend.kind = "job" /\ s.worker = "queued" => s.pend.own
  /\ s.job.active /\ ~s.job.pending => s.job.known
  /\ s.pend.kind = "job" /\ s.pend.own /\ s.worker \in {"queued", "refused", "cancelled"} =>
       s.job.known

MetOk(s) ==
  s.job.kind = "while" =>
    /\ s.job.match = "within" => met
    /\ s.job.matched /\ s.job.known => met
    /\ s.pend.kind = "job" /\ s.worker = "queued" /\ s.job.sent => met

StopOk(s) ==
  /\ stop => s.job.kind \in {"until", "while"}
  /\ stop /\ s.pend.kind = "job" /\ s.worker = "queued" => s.late

Rest(s) ==
  /\ s \in DeskType
  /\ MailOk(s) /\ RawOk(s) /\ FlowOk(s) /\ JobOk(s) /\ MetOk(s) /\ StopOk(s)
DeskOk(s) == Rest(s) /\ IsoOk(s)

\* What ends the job, or may have, is still to be read; nobody has to be
\* reminded of an answer that is.
Heard ==
  /\ job.active /\ stop =>
       lost \/ \E i \in DOMAIN rxq : rxq[i].when # "old" /\ Ends(rxq[i].kind)
  /\ job.active /\ job.kind = "while" =>
       \A i \in DOMAIN rxq : rxq[i].kind = "match" /\ rxq[i].when = "within" => met
  /\ Over(job) => ~stop

Placed ==
  /\ pc \in {"idle", "rx", "choose", "collect"} /\ work \in {"poll", "clear", "bus_on"}
  /\ full \in BOOLEAN /\ stop \in BOOLEAN /\ met \in BOOLEAN
  /\ lost \in BOOLEAN /\ down \in BOOLEAN /\ drained \in BOOLEAN
  /\ rxq \in Seq(Hearing) /\ Len(rxq) <= RxLen

J2534Inv == DeskOk(Desk) /\ Heard /\ Placed

-------------------------------------------------------------------------------
(* The calls of a step, one operator at a time. *)

\* The job on the desk is the one of the state, and nothing of a step starts it.
Mine(s) == Rest(s) /\ s.job.kind = job.kind /\ (s.job.active => job.active)

\* The frame with the worker stays a frame, whatever is taken from it.
LEMMA PendMoves ==
  ASSUME NEW p \in PendType
  PROVE  /\ NoPend \in PendType
         /\ [p EXCEPT !.discard = TRUE, !.current = FALSE] \in PendType
         /\ [p EXCEPT !.current = FALSE] \in PendType
         /\ [p EXCEPT !.confirmed = TRUE] \in PendType
         /\ \A b \in BOOLEAN : [p EXCEPT !.own = b] \in PendType
         /\ \A b \in BOOLEAN : [p EXCEPT !.generation = b] \in PendType
         /\ \A a, b \in BOOLEAN : [p EXCEPT !.current = a, !.generation = b] \in PendType
BY DEF PendType, NoPend, Kinds

\* cancel_channel_tx(): what is taken back is answered nobody, and nobody waits for it.
LEMMA TakenBackRest ==
  ASSUME NEW s, Mine(s), NEW kinds \in SUBSET {"message", "isotp", "fc", "job"}
  PROVE  LET r == TakenBack(s, kinds) IN
         /\ Mine(r)
         /\ "isotp" \in kinds /\ r.pend.kind = "isotp" /\ r.pend.own => ~r.pend.current
         /\ "message" \in kinds /\ r.pend.kind = "message" /\ r.pend.own => r.pend.discard
         /\ r.pend.kind \in kinds /\ r.pend.own => ~r.pend.current /\ r.worker # "queued"
         /\ r.pend.kind = s.pend.kind
         /\ "isotp" \notin kinds /\ IsoOk(s) => IsoOk(r)
<1> DEFINE r == TakenBack(s, kinds)
           p == [s.pend EXCEPT !.discard = TRUE, !.current = FALSE]
           w == IF s.worker = "queued" THEN "cancelled" ELSE s.worker
<1>1. s \in DeskType /\ s.pend \in PendType /\ s.worker \in States
  BY DEF Mine, Rest, DeskType
<1>2. CASE s.pend.kind \notin kinds \/ ~s.pend.own
  BY <1>2 DEF TakenBack
<1>3. CASE s.pend.kind \in kinds /\ s.pend.own
  <2>1. r = [s EXCEPT !.pend = p, !.worker = w, !.late = FALSE]
    BY <1>3, <1>1 DEF TakenBack, DeskType
  <2>2. p \in PendType /\ w \in States
    BY <1>1, PendMoves DEF States
  <2>3. /\ r.pend = p /\ r.worker = w /\ r.late = FALSE /\ r.raw = s.raw
        /\ r.rawOut = s.rawOut /\ r.iso = s.iso /\ r.untrue = s.untrue
        /\ r.cursor = s.cursor /\ r.rx = s.rx /\ r.asked = s.asked
        /\ r.fcPending = s.fcPending /\ r.job = s.job /\ r.clock = s.clock
        /\ r.linkDown = s.linkDown
    BY <1>1, <2>1 DEF DeskType
  <2>4. /\ p.kind = s.pend.kind /\ p.own = s.pend.own /\ p.discard /\ ~p.current
        /\ p.generation = s.pend.generation /\ p.confirmed = s.pend.confirmed
    BY <1>1 DEF PendType
  <2> HIDE DEF p, w
  <2>5. r \in DeskType
    BY <1>1, <2>1, <2>2, ZenonT(30) DEF DeskType
  <2> USE DEF w
  <2> HIDE DEF r
  <2>6. MailOk(r) /\ RawOk(r)
    BY <2>3, <2>4 DEF Mine, Rest, MailOk, RawOk, Gone
  <2>7. FlowOk(r)
    BY <2>3, <2>4 DEF Mine, Rest, FlowOk, Gone, Settles
  <2>8. JobOk(r) /\ MetOk(r) /\ StopOk(r)
    BY <2>3, <2>4 DEF Mine, Rest, JobOk, MetOk, StopOk, Over
  <2>9. IsoOk(s) /\ "isotp" \notin kinds => IsoOk(r)
    BY <1>3, <2>3, <2>4 DEF IsoOk, Settles
  <2>10. QED
    BY <1>3, <2>3, <2>4, <2>5, <2>6, <2>7, <2>8, <2>9 DEF Mine, Rest, r
<1>4. QED
  BY <1>2, <1>3

\* Records of the small things a call changes.
LEMMA OrphanFacts ==
  ASSUME NEW s \in DeskType, NEW kind
  PROVE  LET p == Orphan(s, kind) IN
         /\ p \in PendType /\ p.kind = s.pend.kind /\ p.own = s.pend.own
         /\ p.discard = s.pend.discard /\ p.confirmed = s.pend.confirmed
         /\ p.generation = s.pend.generation
         /\ p.current = (s.pend.current /\ s.pend.kind # kind)
<1>1. s.pend \in PendType
  BY DEF DeskType
<1>2. QED
  BY <1>1, PendMoves, ZenonT(30) DEF Orphan, PendType

\* A scheduled message stays one, whatever is noted of it.
LEMMA JobMoves ==
  ASSUME NEW j \in JobType
  PROVE  /\ NoJob \in JobType
         /\ \A b \in BOOLEAN : /\ [j EXCEPT !.pending = b] \in JobType
                              /\ [j EXCEPT !.active = b] \in JobType
                              /\ [j EXCEPT !.ended = b] \in JobType
         /\ [j EXCEPT !.pending = TRUE, !.ended = FALSE] \in JobType
         /\ [j EXCEPT !.ended = FALSE, !.sent = TRUE, !.known = TRUE] \in JobType
         /\ \A b \in BOOLEAN :
              [j EXCEPT !.ended = TRUE, !.sent = TRUE, !.known = TRUE, !.matched = b] \in JobType
         /\ \A b \in BOOLEAN, a \in Marks : [j EXCEPT !.match = a, !.matched = b] \in JobType
BY DEF JobType, NoJob, Marks

\* An answer that counts was within the interval of the newest copy, or counted before.
LEMMA TransmittedFacts ==
  ASSUME NEW j \in JobType
  PROVE  LET k == Transmitted(j) IN
         /\ k \in JobType /\ k.kind = j.kind /\ k.active = j.active /\ k.pending = j.pending
         /\ k.match = j.match /\ k.known = TRUE
         /\ k.matched => j.match = "within" \/ (j.matched /\ j.known)
<1>1. (j.match = "within") \in BOOLEAN
  OBVIOUS
<1>2. Transmitted(j) \in JobType
  BY <1>1, JobMoves DEF Transmitted
<1>3. QED
  BY <1>2 DEF Transmitted, JobType

\* A repeat nobody could watch is over; everything else of it stays.
LEMMA UnwatchedFacts ==
  ASSUME NEW j \in JobType
  PROVE  LET k == Unwatched(j) IN
         /\ k \in JobType /\ k.kind = j.kind /\ k.pending = j.pending /\ k.match = j.match
         /\ k.known = j.known /\ k.matched = j.matched /\ k.sent = j.sent
         /\ k.active => j.active
<1>1. Unwatched(j) \in JobType
  BY JobMoves DEF Unwatched
<1>2. QED
  BY <1>1 DEF Unwatched, JobType

\* A segmented message stays one from frame to frame.
LEMMA IsoMoves ==
  ASSUME NEW i \in IsoType
  PROVE  /\ NoIso \in IsoType
         /\ \A to \in {"fc", "cf"} : [i EXCEPT !.st = to] \in IsoType
         /\ [i EXCEPT !.st = "confirm", !.next = @ + 1] \in IsoType
         /\ [i EXCEPT !.out = @ + 1] \in IsoType
<1>1. NoIso \in IsoType
  BY DEF IsoType, NoIso
<1>2. \A to \in {"fc", "cf"} : [i EXCEPT !.st = to] \in IsoType
  BY DEF IsoType
<1>3. i.next + 1 \in Nat /\ i.out + 1 \in Nat
  BY DEF IsoType
<1>4. [i EXCEPT !.st = "confirm", !.next = @ + 1] \in IsoType
  BY <1>3 DEF IsoType
<1>5. [i EXCEPT !.out = @ + 1] \in IsoType
  BY <1>3 DEF IsoType
<1>6. QED
  BY <1>1, <1>2, <1>4, <1>5

\* A reception given up leaves nothing to ask for.
LEMMA QuietRest ==
  ASSUME NEW s, Mine(s)
  PROVE  LET r == [s EXCEPT !.rx = "idle"] IN Mine(r) /\ (IsoOk(s) => IsoOk(r))
<1> DEFINE r == [s EXCEPT !.rx = "idle"]
<1>1. s \in DeskType
  BY DEF Mine, Rest
<1>2. r \in DeskType
  BY <1>1 DEF DeskType
<1>3. /\ r.pend = s.pend /\ r.worker = s.worker /\ r.late = s.late
      /\ r.raw = s.raw /\ r.rawOut = s.rawOut /\ r.iso = s.iso
      /\ r.untrue = s.untrue /\ r.cursor = s.cursor /\ r.rx = "idle"
      /\ r.asked = s.asked /\ r.fcPending = s.fcPending /\ r.job = s.job
      /\ r.clock = s.clock /\ r.linkDown = s.linkDown
  BY <1>1 DEF DeskType
<1> HIDE DEF r
<1>4. MailOk(r) /\ RawOk(r) /\ FlowOk(r) /\ (IsoOk(s) => IsoOk(r))
  BY <1>3 DEF Mine, Rest, MailOk, RawOk, FlowOk, IsoOk
<1>5. JobOk(r) /\ MetOk(r) /\ StopOk(r)
  BY <1>3 DEF Mine, Rest, JobOk, MetOk, StopOk
<1>6. QED
  BY <1>2, <1>3, <1>4, <1>5 DEF Mine, Rest, r

\* A queued message is reported sent only with its frame out.
LEMMA RawDoneRest ==
  ASSUME NEW s, Mine(s), NEW ok \in BOOLEAN, ok => s.rawOut,
         s.pend.kind = "message" /\ s.pend.own => s.pend.discard
  PROVE  LET r == RawDone(s, ok) IN
         /\ Mine(r) /\ (IsoOk(s) => IsoOk(r))
         /\ r.pend.kind = s.pend.kind /\ r.pend.own = s.pend.own
         /\ r.pend.current => s.pend.current
<1> DEFINE r == RawDone(s, ok)
           p == Orphan(s, "message")
           u == s.untrue \/ (ok /\ ~s.rawOut)
<1>1. s \in DeskType
  BY DEF Mine, Rest
<1>2. s.untrue \in BOOLEAN /\ s.rawOut \in BOOLEAN /\ s.pend \in PendType
  BY <1>1 DEF DeskType
<1>3. u \in BOOLEAN /\ (u = FALSE)
  BY <1>2 DEF Mine, Rest, RawOk
<1>4. /\ p \in PendType /\ p.kind = s.pend.kind /\ p.own = s.pend.own
      /\ p.discard = s.pend.discard /\ p.confirmed = s.pend.confirmed
      /\ p.generation = s.pend.generation
      /\ p.current = (s.pend.current /\ s.pend.kind # "message")
  BY <1>1, OrphanFacts
<1>5. r = [s EXCEPT !.raw = FALSE, !.rawOut = FALSE, !.pend = p, !.untrue = u]
  BY <1>1 DEF RawDone, DeskType
<1> HIDE DEF p, u
<1>6. r \in DeskType
  BY <1>1, <1>3, <1>4, <1>5, ZenonT(30) DEF DeskType
<1>7. /\ r.pend = p /\ r.worker = s.worker /\ r.late = s.late /\ r.raw = FALSE
      /\ r.rawOut = FALSE /\ r.iso = s.iso /\ r.untrue = u
      /\ r.cursor = s.cursor /\ r.rx = s.rx /\ r.asked = s.asked
      /\ r.fcPending = s.fcPending /\ r.job = s.job /\ r.clock = s.clock
      /\ r.linkDown = s.linkDown
  BY <1>1, <1>5 DEF DeskType
<1> HIDE DEF r
<1>8. MailOk(r) /\ RawOk(r) /\ FlowOk(r) /\ (IsoOk(s) => IsoOk(r))
  BY <1>2, <1>3, <1>4, <1>7 DEF Mine, Rest, MailOk, RawOk, FlowOk, IsoOk, Settles, PendType
<1>9. JobOk(r) /\ MetOk(r) /\ StopOk(r)
  BY <1>4, <1>7 DEF Mine, Rest, JobOk, MetOk, StopOk
<1>10. QED
  BY <1>2, <1>4, <1>6, <1>7, <1>8, <1>9 DEF Mine, Rest, r

\* A segmented message is reported sent only with its last frame out.
LEMMA IsoDoneOk ==
  ASSUME NEW s, Mine(s), NEW ok \in BOOLEAN, ok => s.iso.out = s.iso.size
  PROVE  LET r == IsoDone(s, ok) IN
         /\ Mine(r) /\ IsoOk(r) /\ r.iso.st = "none"
         /\ r.pend.kind = s.pend.kind /\ r.pend.own = s.pend.own /\ r.worker = s.worker
<1> DEFINE r == IsoDone(s, ok)
           p == Orphan(s, "isotp")
           u == s.untrue \/ (ok /\ s.iso.out # s.iso.size)
<1>1. s \in DeskType
  BY DEF Mine, Rest
<1>2. s.untrue \in BOOLEAN /\ s.pend \in PendType /\ s.iso \in IsoType
  BY <1>1 DEF DeskType
<1>3. u \in BOOLEAN /\ (u = FALSE) /\ NoIso \in IsoType
  BY <1>2, IsoMoves DEF Mine, Rest, RawOk
<1>4. /\ p \in PendType /\ p.kind = s.pend.kind /\ p.own = s.pend.own
      /\ p.discard = s.pend.discard /\ p.confirmed = s.pend.confirmed
      /\ p.generation = s.pend.generation
      /\ p.current = (s.pend.current /\ s.pend.kind # "isotp")
  BY <1>1, OrphanFacts
<1>5. r = [s EXCEPT !.iso = NoIso, !.pend = p, !.untrue = u]
  BY <1>1 DEF IsoDone, DeskType
<1> HIDE DEF p, u
<1>6. r \in DeskType
  BY <1>1, <1>3, <1>4, <1>5 DEF DeskType
<1>7. /\ r.pend = p /\ r.worker = s.worker /\ r.late = s.late /\ r.raw = s.raw
      /\ r.rawOut = s.rawOut /\ r.iso = NoIso /\ r.untrue = u
      /\ r.cursor = s.cursor /\ r.rx = s.rx /\ r.asked = s.asked
      /\ r.fcPending = s.fcPending /\ r.job = s.job /\ r.clock = s.clock
      /\ r.linkDown = s.linkDown
  BY <1>1, <1>5 DEF DeskType
<1> HIDE DEF r
<1>8. MailOk(r) /\ RawOk(r) /\ FlowOk(r)
  BY <1>2, <1>3, <1>4, <1>7 DEF Mine, Rest, MailOk, RawOk, FlowOk, Settles, PendType
<1>9. JobOk(r) /\ MetOk(r) /\ StopOk(r)
  BY <1>4, <1>7 DEF Mine, Rest, JobOk, MetOk, StopOk
<1>10. IsoOk(r) /\ r.iso.st = "none"
  BY <1>2, <1>4, <1>7 DEF IsoOk, NoIso, PendType
<1>11. QED
  BY <1>4, <1>6, <1>7, <1>8, <1>9, <1>10 DEF Mine, Rest, r

-------------------------------------------------------------------------------
(* Collecting what became of a frame. *)

\* A segmented message that goes on has all it counted behind it.
LEMMA IsoGoesOnOk ==
  ASSUME NEW s, Mine(s), s.iso.st = "confirm", NEW to \in {"fc", "cf"},
         s.iso.next < s.iso.size, s.iso.out = s.iso.next,
         s.pend.kind = "isotp" /\ s.pend.own /\ s.pend.current =>
           s.worker \notin {"queued", "active"}
  PROVE  LET r == [s EXCEPT !.iso.st = to] IN
         /\ Mine(r) /\ IsoOk(r) /\ r.iso.st = to /\ r.pend = s.pend /\ r.worker = s.worker
<1> DEFINE r == [s EXCEPT !.iso.st = to]
           i == [s.iso EXCEPT !.st = to]
<1>1. s \in DeskType /\ s.iso \in IsoType
  BY DEF Mine, Rest, DeskType
<1>2. i \in IsoType /\ i.st = to /\ i.next = s.iso.next /\ i.size = s.iso.size
      /\ i.out = s.iso.out
  <2>1. i \in IsoType
    BY <1>1, IsoMoves
  <2>2. QED
    BY <1>1, <2>1 DEF IsoType
<1>3. r = [s EXCEPT !.iso = i]
  BY <1>1 DEF DeskType
<1> HIDE DEF i
<1>4. r \in DeskType
  BY <1>1, <1>2, <1>3 DEF DeskType
<1>5. /\ r.pend = s.pend /\ r.worker = s.worker /\ r.late = s.late
      /\ r.raw = s.raw /\ r.rawOut = s.rawOut /\ r.iso = i
      /\ r.untrue = s.untrue /\ r.cursor = s.cursor /\ r.rx = s.rx
      /\ r.asked = s.asked /\ r.fcPending = s.fcPending /\ r.job = s.job
      /\ r.clock = s.clock /\ r.linkDown = s.linkDown
  BY <1>1, <1>3 DEF DeskType
<1> HIDE DEF r
<1>6. MailOk(r) /\ RawOk(r) /\ FlowOk(r)
  BY <1>5 DEF Mine, Rest, MailOk, RawOk, FlowOk
<1>7. JobOk(r) /\ MetOk(r) /\ StopOk(r)
  BY <1>5 DEF Mine, Rest, JobOk, MetOk, StopOk
<1>8. i.next <= i.size
  BY <1>1, <1>2 DEF IsoType
<1>9. IsoOk(r)
  BY <1>2, <1>5, <1>8 DEF IsoOk
<1>10. QED
  BY <1>2, <1>4, <1>5, <1>6, <1>7, <1>9 DEF Mine, Rest, r

\* A message whose frame has come back is done, or waits for what is next.
LEMMA IsoConfirmOk ==
  ASSUME NEW s, Mine(s), NEW ok \in BOOLEAN, s.iso.next <= s.iso.size,
         s.iso.st = "confirm" /\ ok => s.iso.out = s.iso.next,
         s.pend.kind = "isotp" /\ s.pend.own /\ s.pend.current =>
           s.worker \notin {"queued", "active"},
         NEW r \in IsoConfirm(s, ok)
  PROVE  /\ Mine(r) /\ IsoOk(r) /\ r.iso.st # "confirm"
         /\ r.pend.kind = s.pend.kind /\ r.pend.own = s.pend.own /\ r.worker = s.worker
<1>1. s.iso \in IsoType
  BY DEF Mine, Rest, DeskType
<1>2. CASE r = IsoDone(s, FALSE)
  BY <1>2, IsoDoneOk
<1>3. CASE /\ s.iso.st = "confirm" /\ ok /\ s.iso.next = s.iso.size
           /\ r = IsoDone(s, TRUE)
  BY <1>3, IsoDoneOk
<1>4. CASE /\ s.iso.st = "confirm" /\ ok /\ s.iso.next # s.iso.size
           /\ \E to \in {"fc", "cf"} : r = [s EXCEPT !.iso.st = to]
  <2>1. s.iso.next < s.iso.size
    BY <1>1, <1>4 DEF IsoType
  <2>2. PICK to \in {"fc", "cf"} : r = [s EXCEPT !.iso.st = to]
    BY <1>4
  <2>3. QED
    BY <1>4, <2>1, <2>2, IsoGoesOnOk
<1>5. QED
  BY <1>2, <1>3, <1>4 DEF IsoConfirm

\* The worker has nothing.
Released(s) == [s EXCEPT !.pend = NoPend, !.worker = "none"]
\* What the worker no longer has, nothing but a segmented message misses.
LEMMA ReleasedRest ==
  ASSUME NEW s, Mine(s)
  PROVE  LET r == Released(s) IN
         /\ Mine(r) /\ r.pend.kind = "none" /\ ~r.pend.own
         /\ r.iso = s.iso /\ r.rx = s.rx /\ r.asked = s.asked /\ r.fcPending = s.fcPending
         /\ r.rawOut = s.rawOut /\ r.job = s.job
         /\ IsoOk(s) /\ s.iso.st # "confirm" => IsoOk(r)
<1> DEFINE r == Released(s)
<1>1. s \in DeskType /\ s.pend \in PendType
  BY DEF Mine, Rest, DeskType
<1>2. NoPend \in PendType /\ "none" \in States
  BY <1>1, PendMoves DEF States
<1>3. r \in DeskType
  BY <1>1, <1>2 DEF Released, DeskType
<1>4. /\ r.pend = NoPend /\ r.worker = "none" /\ r.late = s.late
      /\ r.raw = s.raw /\ r.rawOut = s.rawOut /\ r.iso = s.iso
      /\ r.untrue = s.untrue /\ r.cursor = s.cursor /\ r.rx = s.rx
      /\ r.asked = s.asked /\ r.fcPending = s.fcPending /\ r.job = s.job
      /\ r.clock = s.clock /\ r.linkDown = s.linkDown
  BY <1>1 DEF Released, DeskType
<1> HIDE DEF r
<1>5. /\ NoPend.kind = "none" /\ ~NoPend.own /\ ~NoPend.current
  BY DEF NoPend
<1>6. MailOk(r) /\ RawOk(r) /\ FlowOk(r) /\ (IsoOk(s) /\ s.iso.st # "confirm" => IsoOk(r))
  BY <1>4, <1>5 DEF Mine, Rest, MailOk, RawOk, FlowOk, IsoOk
<1>7. JobOk(r) /\ MetOk(r) /\ StopOk(r)
  BY <1>4, <1>5 DEF Mine, Rest, JobOk, MetOk, StopOk
<1>8. QED
  BY <1>3, <1>4, <1>5, <1>6, <1>7 DEF Mine, Rest, r

\* A job may become another, if what it knows of its frame and answers is true.
JobFits(s, k) ==
  /\ k.kind = s.job.kind /\ (k.kind = "none" => Over(k)) /\ (k.active => s.job.active)
  /\ s.pend.kind = "job" /\ s.pend.own => k.pending
  /\ k.active /\ ~k.pending => k.known
  /\ s.pend.kind = "job" /\ s.pend.own /\ s.worker \in {"queued", "refused", "cancelled"} =>
       k.known
  /\ k.kind = "while" =>
       /\ k.match = "within" => met
       /\ k.matched /\ k.known => met
       /\ s.pend.kind = "job" /\ s.worker = "queued" /\ k.sent => met

\* A job may become any that fits what the worker has of it.
LEMMA JobRest ==
  ASSUME NEW s, Mine(s), NEW k \in JobType, JobFits(s, k)
  PROVE  LET r == [s EXCEPT !.job = k] IN
         /\ Mine(r) /\ (IsoOk(s) => IsoOk(r)) /\ r.job = k
         /\ r.pend = s.pend /\ r.worker = s.worker /\ r.iso = s.iso
<1> DEFINE r == [s EXCEPT !.job = k]
<1>1. s \in DeskType
  BY DEF Mine, Rest, DeskType
<1>2. r \in DeskType
  BY <1>1 DEF DeskType
<1>3. /\ r.pend = s.pend /\ r.worker = s.worker /\ r.late = s.late
      /\ r.raw = s.raw /\ r.rawOut = s.rawOut /\ r.iso = s.iso
      /\ r.untrue = s.untrue /\ r.cursor = s.cursor /\ r.rx = s.rx
      /\ r.asked = s.asked /\ r.fcPending = s.fcPending /\ r.job = k
      /\ r.clock = s.clock /\ r.linkDown = s.linkDown
  BY <1>1 DEF DeskType
<1> HIDE DEF r
<1>4. MailOk(r) /\ RawOk(r) /\ FlowOk(r) /\ (IsoOk(s) => IsoOk(r))
  BY <1>3 DEF Mine, Rest, MailOk, RawOk, FlowOk, IsoOk
<1>5. JobOk(r) /\ MetOk(r)
  BY <1>3 DEF Mine, Rest, JobOk, MetOk, JobFits
<1>6. StopOk(r)
  BY <1>3 DEF Mine, Rest, StopOk, JobFits
<1>7. QED
  BY <1>2, <1>3, <1>4, <1>5, <1>6 DEF Mine, Rest, JobFits, r

JobWithin(s, k) == [s EXCEPT !.job = k, !.clock = "within"]
\* The same with a new interval.
LEMMA JobWithinRest ==
  ASSUME NEW s, Mine(s), NEW k \in JobType, JobFits(s, k)
  PROVE  LET r == JobWithin(s, k) IN
         /\ Mine(r) /\ (IsoOk(s) => IsoOk(r)) /\ r.job = k
         /\ r.pend = s.pend /\ r.worker = s.worker /\ r.iso = s.iso
<1> DEFINE r == JobWithin(s, k)
<1> USE DEF JobWithin
<1>1. s \in DeskType
  BY DEF Mine, Rest, DeskType
<1>2. r \in DeskType
  BY <1>1 DEF DeskType
<1>3. /\ r.pend = s.pend /\ r.worker = s.worker /\ r.late = s.late
      /\ r.raw = s.raw /\ r.rawOut = s.rawOut /\ r.iso = s.iso
      /\ r.untrue = s.untrue /\ r.cursor = s.cursor /\ r.rx = s.rx
      /\ r.asked = s.asked /\ r.fcPending = s.fcPending /\ r.job = k
      /\ r.clock = "within" /\ r.linkDown = s.linkDown
  BY <1>1 DEF DeskType
<1> HIDE DEF r
<1>4. MailOk(r) /\ RawOk(r) /\ FlowOk(r) /\ (IsoOk(s) => IsoOk(r))
  BY <1>3 DEF Mine, Rest, MailOk, RawOk, FlowOk, IsoOk
<1>5. JobOk(r) /\ MetOk(r)
  BY <1>3 DEF Mine, Rest, JobOk, MetOk, JobFits
<1>6. StopOk(r)
  BY <1>3 DEF Mine, Rest, StopOk, JobFits
<1>7. QED
  BY <1>2, <1>3, <1>4, <1>5, <1>6 DEF Mine, Rest, JobFits, r


\* j2534_schedule_complete() leaves a job that fits.
LEMMA CompleteRest ==
  ASSUME NEW s, Mine(s), s.pend.kind = "none", NEW ok \in BOOLEAN
  PROVE  LET r == Complete(s, ok) IN
         Mine(r) /\ (IsoOk(s) => IsoOk(r)) /\ r.pend = s.pend /\ r.worker = s.worker
<1> DEFINE j == [s.job EXCEPT !.pending = FALSE]
           t == Transmitted(j)
<1>1. s \in DeskType /\ s.job \in JobType
  BY DEF Mine, Rest, DeskType
<1>2. j \in JobType
  BY <1>1, JobMoves
<1>3. /\ j.kind = s.job.kind /\ ~j.pending /\ j.match = s.job.match /\ j.matched = s.job.matched
      /\ j.known = s.job.known /\ j.active = s.job.active
  BY <1>1 DEF JobType
<1>4. /\ t \in JobType /\ t.kind = j.kind /\ t.active = j.active /\ t.pending = j.pending
      /\ t.match = j.match /\ t.known = TRUE
      /\ t.matched => j.match = "within" \/ (j.matched /\ j.known)
  BY <1>2, TransmittedFacts
<1>5. JobOk(s) /\ MetOk(s)
  BY DEF Mine, Rest
<1>6. CASE ok
  <2> DEFINE k == [t EXCEPT !.ended = FALSE]
  <2>1. Complete(s, ok) = [s EXCEPT !.job = k]
    BY <1>1, <1>6 DEF Complete, DeskType
  <2>2. k \in JobType
    BY <1>4, JobMoves
  <2> HIDE DEF t, j
  <2>3. /\ k.kind = t.kind /\ k.active = t.active /\ k.pending = t.pending
        /\ k.match = t.match /\ k.known = t.known /\ k.matched = t.matched
    BY <1>4 DEF JobType
  <2> HIDE DEF k
  <2>4. JobFits(s, k)
    BY <1>3, <1>4, <1>5, <2>3 DEF JobOk, MetOk, Over, JobFits
  <2>5. QED
    BY <2>1, <2>2, <2>4, JobRest
<1>7. CASE ~ok /\ Repeat
  <2> DEFINE k == [j EXCEPT !.active = FALSE]
  <2>1. Complete(s, ok) = [s EXCEPT !.job = k]
    BY <1>1, <1>7 DEF Complete, DeskType
  <2>2. k \in JobType
    BY <1>2, JobMoves
  <2> HIDE DEF j
  <2>3. /\ k.kind = j.kind /\ ~k.active /\ ~k.pending
        /\ k.match = j.match /\ k.known = j.known /\ k.matched = j.matched
    BY <1>2, <1>3 DEF JobType
  <2> HIDE DEF k
  <2>4. JobFits(s, k)
    BY <1>3, <1>5, <2>3 DEF JobOk, MetOk, Over, JobFits
  <2>5. QED
    BY <2>1, <2>2, <2>4, JobRest
<1>8. CASE ~ok /\ ~Repeat
  <2> DEFINE k == [j EXCEPT !.ended = FALSE, !.sent = TRUE, !.known = TRUE]
  <2>1. Complete(s, ok) = JobWithin(s, k)
    BY <1>1, <1>8 DEF Complete, DeskType, JobWithin
  <2>2. k \in JobType
    BY <1>2, JobMoves
  <2> HIDE DEF j
  <2>3. k.kind = j.kind /\ k.active = j.active /\ ~k.pending /\ k.known
    BY <1>2, <1>3 DEF JobType
  <2> HIDE DEF k
  <2>4. k.kind # "while"
    BY <1>3, <1>8, <2>3 DEF Repeat, Mine
  <2>5. JobFits(s, k)
    BY <1>3, <1>5, <2>3, <2>4 DEF JobOk, Over, JobFits
  <2>6. QED
    BY <2>1, <2>2, <2>5, JobWithinRest
<1>9. QED
  BY <1>6, <1>7, <1>8

\* The wait for the first consecutive frame begins with the flow control out.
LEMMA AskedRest ==
  ASSUME NEW s, Mine(s), s.pend.kind = "none", s.asked, ~s.fcPending
  PROVE  LET r == [s EXCEPT !.rx = "cf"] IN Mine(r) /\ (IsoOk(s) => IsoOk(r))
<1> DEFINE r == [s EXCEPT !.rx = "cf"]
<1>1. s \in DeskType
  BY DEF Mine, Rest
<1>2. r \in DeskType
  BY <1>1 DEF DeskType
<1>3. /\ r.pend = s.pend /\ r.worker = s.worker /\ r.late = s.late
      /\ r.raw = s.raw /\ r.rawOut = s.rawOut /\ r.iso = s.iso
      /\ r.untrue = s.untrue /\ r.cursor = s.cursor /\ r.rx = "cf"
      /\ r.asked = s.asked /\ r.fcPending = s.fcPending /\ r.job = s.job
      /\ r.clock = s.clock /\ r.linkDown = s.linkDown
  BY <1>1 DEF DeskType
<1> HIDE DEF r
<1>4. MailOk(r) /\ RawOk(r) /\ FlowOk(r) /\ (IsoOk(s) => IsoOk(r))
  BY <1>3 DEF Mine, Rest, MailOk, RawOk, FlowOk, IsoOk
<1>5. JobOk(r) /\ MetOk(r) /\ StopOk(r)
  BY <1>3 DEF Mine, Rest, JobOk, MetOk, StopOk
<1>6. QED
  BY <1>2, <1>3, <1>4, <1>5 DEF Mine, Rest, r

Final == {"ok", "failed", "refused", "cancelled"}
Good(s) == Mine(s) /\ IsoOk(s)

\* finish_bus_tx(): the result reaches the message it belongs to, and the mailbox is free.
LEMMA FinishGood ==
  ASSUME NEW s, Good(s), s.worker \in Final, NEW r \in Finish(s)
  PROVE  Good(r) /\ r.pend.kind = "none"
<1> DEFINE p == s.pend
           t == Released(s)
           ok == s.worker = "ok"
<1>1. Mine(s) /\ IsoOk(s) /\ s \in DeskType /\ p \in PendType /\ s.iso \in IsoType
      /\ s.job \in JobType /\ ok \in BOOLEAN
  BY DEF Good, Mine, Rest, DeskType
<1>2. p.kind \in {"message", "isotp", "fc", "job"}
  BY <1>1 DEF Mine, Rest, MailOk, Final, PendType, Kinds
<1>3. /\ Mine(t) /\ t.pend.kind = "none" /\ ~t.pend.own
      /\ t.iso = s.iso /\ t.rx = s.rx /\ t.asked = s.asked /\ t.fcPending = s.fcPending
      /\ t.rawOut = s.rawOut /\ t.job = s.job
      /\ s.iso.st # "confirm" => IsoOk(t)
  BY <1>1, ReleasedRest
<1>4. s.iso.st = "confirm" => p.kind = "isotp" /\ Settles(p)
  BY <1>1 DEF IsoOk
<1> HIDE DEF t
<1>5. CASE p.kind = "job" /\ ~p.own
  BY <1>3, <1>4, <1>5 DEF Finish, Good, Released, t
<1>6. CASE p.kind = "job" /\ p.own /\ Deferred(s)
  <2> DEFINE k == [s.job EXCEPT !.pending = FALSE]
  <2>1. r = [t EXCEPT !.job = k]
    <3>1. r = [t EXCEPT !.job.pending = FALSE]
      BY <1>6 DEF Finish, Released, t
    <3>2. QED
      BY <1>3, <3>1 DEF Mine, Rest, DeskType
  <2>2. k \in JobType
    BY <1>1, JobMoves
  <2>3. /\ k.kind = s.job.kind /\ k.active = s.job.active /\ ~k.pending
        /\ k.match = s.job.match /\ k.known = s.job.known /\ k.matched = s.job.matched
    BY <1>1 DEF JobType
  <2> HIDE DEF k
  <2>4. k.known
    BY <1>1, <1>6, <2>3 DEF Mine, Rest, JobOk, Deferred
  <2>5. JobFits(t, k)
    BY <1>1, <1>3, <2>3, <2>4 DEF Mine, Rest, JobOk, MetOk, Over, JobFits
  <2>6. Mine(r) /\ (IsoOk(t) => IsoOk(r)) /\ r.pend = t.pend
    BY <1>3, <2>1, <2>2, <2>5, JobRest
  <2>7. QED
    BY <1>3, <1>4, <1>6, <2>6 DEF Good
<1>7. CASE p.kind = "job" /\ p.own /\ ~Deferred(s)
  <2>1. r = Complete(t, ok)
    BY <1>7 DEF Finish, Released, t
  <2>2. QED
    BY <1>1, <1>3, <1>4, <1>7, <2>1, CompleteRest DEF Good
<1>8. CASE p.kind # "job" /\ ~Settles(p)
  BY <1>3, <1>4, <1>8 DEF Finish, Good, Released, t
<1>9. CASE p.kind = "message" /\ Settles(p)
  <2>1. r = RawDone(t, ok)
    BY <1>9 DEF Finish, Confirm, Released, t
  <2>2. ok => t.rawOut
    BY <1>1, <1>3, <1>9 DEF Mine, Rest, MailOk, RawOk, Settles, Gone
  <2>3. QED
    BY <1>1, <1>3, <1>4, <1>9, <2>1, <2>2, RawDoneRest DEF Good
<1>10. CASE p.kind = "isotp" /\ Settles(p)
  <2>1. r \in IsoConfirm(t, ok)
    BY <1>10 DEF Finish, Confirm, Released, t
  <2>2. t.iso.next <= t.iso.size /\ (t.iso.st = "confirm" /\ ok => t.iso.out = t.iso.next)
    BY <1>1, <1>3 DEF IsoOk, Gone
  <2>3. QED
    BY <1>1, <1>3, <2>1, <2>2, IsoConfirmOk DEF Good
<1>11. CASE p.kind = "fc" /\ Settles(p)
  <2>1. r \in FlowConfirm(t, p, ok)
    BY <1>11 DEF Finish, Confirm, Released, t
  <2>2. CASE r = t
    BY <1>3, <1>4, <1>11, <2>2 DEF Good
  <2>3. CASE r = [t EXCEPT !.rx = "idle"]
    <3>1. r.pend = t.pend
      BY <1>3, <2>3 DEF Mine, Rest, DeskType
    <3>2. QED
      BY <1>3, <1>4, <1>11, <2>3, <3>1, QuietRest DEF Good
  <2>4. CASE ok /\ ItsReception(p) /\ t.rx = "confirm" /\ r = [t EXCEPT !.rx = "cf"]
    <3>1. r.pend = t.pend
      BY <1>3, <2>4 DEF Mine, Rest, DeskType
    <3>2. t.asked /\ ~t.fcPending
      BY <1>1, <1>3, <1>11, <2>4 DEF Mine, Rest, FlowOk, ItsReception, Gone
    <3>3. QED
      BY <1>3, <1>4, <1>11, <2>4, <3>1, <3>2, AskedRest DEF Good
  <2>5. QED
    BY <2>1, <2>2, <2>3, <2>4 DEF FlowConfirm
<1>12. QED
  BY <1>2, <1>5, <1>6, <1>7, <1>8, <1>9, <1>10, <1>11

\* A result that is known before the worker's report is not looked at again.
LEMMA ConfirmedGood ==
  ASSUME NEW s, Good(s), s.iso.st # "confirm"
  PROVE  Good([s EXCEPT !.pend.confirmed = TRUE])
<1> DEFINE r == [s EXCEPT !.pend.confirmed = TRUE]
           p == [s.pend EXCEPT !.confirmed = TRUE]
<1>1. s \in DeskType /\ s.pend \in PendType
  BY DEF Good, Mine, Rest, DeskType
<1>2. /\ p \in PendType /\ p.kind = s.pend.kind /\ p.own = s.pend.own /\ p.confirmed
      /\ p.discard = s.pend.discard /\ p.current = s.pend.current
      /\ p.generation = s.pend.generation
  <2>1. p \in PendType
    BY <1>1, PendMoves
  <2>2. QED
    BY <1>1, <2>1 DEF PendType
<1>3. r = [s EXCEPT !.pend = p]
  BY <1>1 DEF DeskType
<1> HIDE DEF p
<1>4. r \in DeskType
  BY <1>1, <1>2, <1>3 DEF DeskType
<1>5. /\ r.pend = p /\ r.worker = s.worker /\ r.late = s.late /\ r.raw = s.raw
      /\ r.rawOut = s.rawOut /\ r.iso = s.iso /\ r.untrue = s.untrue
      /\ r.cursor = s.cursor /\ r.rx = s.rx /\ r.asked = s.asked
      /\ r.fcPending = s.fcPending /\ r.job = s.job /\ r.clock = s.clock
      /\ r.linkDown = s.linkDown
  BY <1>1, <1>3 DEF DeskType
<1> HIDE DEF r
<1>6. MailOk(r) /\ RawOk(r)
  BY <1>2, <1>5 DEF Good, Mine, Rest, MailOk, RawOk
<1>7. FlowOk(r) /\ IsoOk(r)
  BY <1>2, <1>5 DEF Good, Mine, Rest, FlowOk, IsoOk, Settles
<1>8. JobOk(r) /\ MetOk(r) /\ StopOk(r)
  BY <1>2, <1>5 DEF Good, Mine, Rest, JobOk, MetOk, StopOk
<1>9. QED
  BY <1>4, <1>5, <1>6, <1>7, <1>8 DEF Good, Mine, Rest, r

\* The flow control whose end is heard first is not confirmed again.
LEMMA FlowConfirmedGood ==
  ASSUME NEW s, Good(s), s.pend.kind = "fc", NEW t \in FlowConfirm(s, s.pend, TRUE),
         Settles(s.pend), s.worker = "ended"
  PROVE  Good([t EXCEPT !.pend.confirmed = TRUE])
<1> DEFINE r == [t EXCEPT !.pend.confirmed = TRUE]
           p == [s.pend EXCEPT !.confirmed = TRUE]
<1>1. s \in DeskType /\ s.pend \in PendType
  BY DEF Good, Mine, Rest, DeskType
<1>2. /\ p \in PendType /\ p.kind = s.pend.kind /\ p.own = s.pend.own /\ p.confirmed
      /\ p.discard = s.pend.discard /\ p.current = s.pend.current
      /\ p.generation = s.pend.generation
  <2>1. p \in PendType
    BY <1>1, PendMoves
  <2>2. QED
    BY <1>1, <2>1 DEF PendType
<1>3. \/ t = s
      \/ t = [s EXCEPT !.rx = "idle"]
      \/ ItsReception(s.pend) /\ s.rx = "confirm" /\ t = [s EXCEPT !.rx = "cf"]
  BY DEF FlowConfirm
<1>4. t.rx \in {s.rx, "idle", "cf"} /\ (t.rx = "cf" /\ s.rx # "cf" => s.asked /\ ~s.fcPending)
  BY <1>1, <1>3 DEF Good, Mine, Rest, FlowOk, ItsReception, Gone, DeskType
<1>5. s.rx \in {"idle", "confirm", "cf"}
  BY <1>1 DEF DeskType
<1>6. t \in DeskType
  BY <1>1, <1>3 DEF DeskType
<1> DEFINE x == t.rx
<1>7. t.pend = s.pend
  BY <1>1, <1>3 DEF DeskType
<1>8. r = [t EXCEPT !.pend = p]
  BY <1>6, <1>7 DEF DeskType
<1> HIDE DEF p
<1>9. r \in DeskType
  BY <1>2, <1>6, <1>8 DEF DeskType
<1>10. /\ r.pend = p /\ r.worker = s.worker /\ r.late = s.late /\ r.raw = s.raw
      /\ r.rawOut = s.rawOut /\ r.iso = s.iso /\ r.untrue = s.untrue
      /\ r.cursor = s.cursor /\ r.rx = x /\ r.asked = s.asked
      /\ r.fcPending = s.fcPending /\ r.job = s.job /\ r.clock = s.clock
      /\ r.linkDown = s.linkDown
  BY <1>1, <1>3, <1>6, <1>8 DEF DeskType
<1> HIDE DEF r
<1>11. MailOk(r) /\ RawOk(r)
  BY <1>2, <1>10 DEF Good, Mine, Rest, MailOk, RawOk
<1>12. FlowOk(r)
  BY <1>2, <1>4, <1>10 DEF Good, Mine, Rest, FlowOk, Settles
<1>13. IsoOk(r)
  BY <1>2, <1>10 DEF Good, IsoOk
<1>14. JobOk(r) /\ MetOk(r) /\ StopOk(r)
  BY <1>2, <1>10 DEF Good, Mine, Rest, JobOk, MetOk, StopOk
<1>15. QED
  BY <1>9, <1>10, <1>11, <1>12, <1>13, <1>14 DEF Good, Mine, Rest, r

\* collect_bus_tx(), whatever has become of the frame.
LEMMA CollectedGood ==
  ASSUME NEW s, Good(s), NEW r \in Collected(s)
  PROVE  Good(r)
<1> DEFINE p == s.pend
<1>1. Mine(s) /\ IsoOk(s) /\ s \in DeskType /\ p \in PendType /\ s.job \in JobType
  BY DEF Good, Mine, Rest, DeskType
<1>2. CASE s.worker \in Final
  BY <1>2, FinishGood DEF Collected, Final
<1>3. CASE s.worker = "ended" /\ p.kind = "isotp" /\ Settles(p)
  <2>1. PICK t \in IsoConfirm(s, TRUE) : r = [t EXCEPT !.pend.confirmed = TRUE]
    BY <1>3 DEF Collected, Confirm
  <2>2. s.iso.next <= s.iso.size /\ (s.iso.st = "confirm" => s.iso.out = s.iso.next)
    BY <1>1, <1>3 DEF IsoOk, Gone
  <2>3. Good(t) /\ t.iso.st # "confirm"
    BY <1>1, <1>3, <2>1, <2>2, IsoConfirmOk DEF Good
  <2>4. QED
    BY <2>1, <2>3, ConfirmedGood
<1>4. CASE s.worker = "ended" /\ p.kind = "fc" /\ Settles(p)
  <2>1. PICK t \in FlowConfirm(s, p, TRUE) : r = [t EXCEPT !.pend.confirmed = TRUE]
    BY <1>4 DEF Collected, Confirm
  <2>2. QED
    BY <1>4, <2>1, FlowConfirmedGood
<1>5. CASE s.worker = "ended" /\ p.kind = "job" /\ p.own
  <2> DEFINE k == Transmitted(s.job)
  <2>1. r = [s EXCEPT !.job = k]
    BY <1>1, <1>5 DEF Collected, DeskType
  <2>2. /\ k \in JobType /\ k.kind = s.job.kind /\ k.active = s.job.active
        /\ k.pending = s.job.pending /\ k.match = s.job.match /\ k.known = TRUE
        /\ k.matched => s.job.match = "within" \/ (s.job.matched /\ s.job.known)
    BY <1>1, TransmittedFacts
  <2> HIDE DEF k
  <2>3. JobFits(s, k)
    BY <1>1, <1>5, <2>2 DEF Mine, Rest, JobOk, MetOk, Over, JobFits
  <2>4. QED
    BY <1>1, <2>1, <2>2, <2>3, JobRest DEF Good
<1>6. CASE s.worker \notin Final /\ r = s
  BY <1>6
<1>7. QED
  BY <1>2, <1>3, <1>4, <1>5, <1>6 DEF Collected, Final

-------------------------------------------------------------------------------
(* Receiving. *)

\* A new wait believes no flow control there is; a further one begins when
\* none is believed any more.
LEMMA WaitsGood ==
  ASSUME NEW s, Good(s), NEW new \in BOOLEAN, new \/ s.rx = "cf"
  PROVE  Good(Waits(s, new))
<1> DEFINE r == Waits(s, new)
           p == [s.pend EXCEPT !.current = @ /\ s.pend.kind # "fc", !.generation = @ /\ ~new]
<1>1. s \in DeskType /\ s.pend \in PendType
  BY DEF Good, Mine, Rest, DeskType
<1>2. /\ p \in PendType /\ p.kind = s.pend.kind /\ p.own = s.pend.own
      /\ p.discard = s.pend.discard /\ p.confirmed = s.pend.confirmed
      /\ p.current = (s.pend.current /\ s.pend.kind # "fc")
      /\ p.generation = (s.pend.generation /\ ~new)
  <2>1. /\ (s.pend.current /\ s.pend.kind # "fc") \in BOOLEAN
        /\ (s.pend.generation /\ ~new) \in BOOLEAN
    BY <1>1 DEF PendType
  <2>2. p \in PendType
    BY <1>1, <2>1, PendMoves
  <2>3. QED
    BY <1>1, <2>2 DEF PendType
<1>3. r = [s EXCEPT !.rx = "confirm", !.fcPending = TRUE, !.asked = FALSE, !.pend = p]
  BY <1>1 DEF Waits, DeskType, PendType
<1> HIDE DEF p
<1>4. r \in DeskType
  BY <1>1, <1>2, <1>3, ZenonT(30) DEF DeskType
<1>5. /\ r.pend = p /\ r.worker = s.worker /\ r.late = s.late /\ r.raw = s.raw
      /\ r.rawOut = s.rawOut /\ r.iso = s.iso /\ r.untrue = s.untrue
      /\ r.cursor = s.cursor /\ r.rx = "confirm" /\ r.asked = FALSE
      /\ r.fcPending = TRUE /\ r.job = s.job /\ r.clock = s.clock
      /\ r.linkDown = s.linkDown
  BY <1>1, <1>3 DEF DeskType
<1> HIDE DEF r
<1>6. MailOk(r) /\ RawOk(r) /\ IsoOk(r)
  BY <1>2, <1>5 DEF Good, Mine, Rest, MailOk, RawOk, IsoOk, Settles
<1>7. FlowOk(r)
  BY <1>2, <1>5 DEF Good, Mine, Rest, FlowOk, Settles
<1>8. JobOk(r) /\ MetOk(r) /\ StopOk(r)
  BY <1>2, <1>5 DEF Good, Mine, Rest, JobOk, MetOk, StopOk
<1>9. QED
  BY <1>4, <1>5, <1>6, <1>7, <1>8 DEF Good, Mine, Rest, r

\* A single frame ends the wait there was.
LEMMA SingleGood ==
  ASSUME NEW s, Good(s)
  PROVE  Good([s EXCEPT !.rx = "idle", !.pend.generation = FALSE])
<1> DEFINE r == [s EXCEPT !.rx = "idle", !.pend.generation = FALSE]
           p == [s.pend EXCEPT !.generation = FALSE]
<1>1. s \in DeskType /\ s.pend \in PendType
  BY DEF Good, Mine, Rest, DeskType
<1>2. /\ p \in PendType /\ p.kind = s.pend.kind /\ p.own = s.pend.own
      /\ p.discard = s.pend.discard /\ p.confirmed = s.pend.confirmed
      /\ p.current = s.pend.current /\ ~p.generation
  <2>1. p \in PendType
    BY <1>1, PendMoves
  <2>2. QED
    BY <1>1, <2>1 DEF PendType
<1>3. r = [s EXCEPT !.rx = "idle", !.pend = p]
  BY <1>1 DEF DeskType, PendType
<1> HIDE DEF p
<1>4. r \in DeskType
  BY <1>1, <1>2, <1>3 DEF DeskType
<1>5. /\ r.pend = p /\ r.worker = s.worker /\ r.late = s.late /\ r.raw = s.raw
      /\ r.rawOut = s.rawOut /\ r.iso = s.iso /\ r.untrue = s.untrue
      /\ r.cursor = s.cursor /\ r.rx = "idle" /\ r.asked = s.asked
      /\ r.fcPending = s.fcPending /\ r.job = s.job /\ r.clock = s.clock
      /\ r.linkDown = s.linkDown
  BY <1>1, <1>3 DEF DeskType
<1> HIDE DEF r
<1>6. MailOk(r) /\ RawOk(r) /\ IsoOk(r)
  BY <1>2, <1>5 DEF Good, Mine, Rest, MailOk, RawOk, IsoOk, Settles
<1>7. FlowOk(r)
  BY <1>2, <1>5 DEF Good, Mine, Rest, FlowOk, Settles
<1>8. JobOk(r) /\ MetOk(r) /\ StopOk(r)
  BY <1>2, <1>5 DEF Good, Mine, Rest, JobOk, MetOk, StopOk
<1>9. QED
  BY <1>4, <1>5, <1>6, <1>7, <1>8 DEF Good, Mine, Rest, r

\* A reception that timed out.
LEMMA QuietGood == ASSUME NEW s, Good(s) PROVE Good([s EXCEPT !.rx = "idle"])
BY QuietRest DEF Good

\* A segmented message that waited for flow control has nothing with the worker
\* that could be taken for its next frame.
LEMMA TxHearsGood ==
  ASSUME NEW s, Good(s), NEW kind, NEW r \in TxHears(s, kind)
  PROVE  Good(r)
<1>1. CASE r = s
  BY <1>1
<1>2. CASE r = IsoDone(s, FALSE)
  BY <1>2, IsoDoneOk DEF Good
<1>3. CASE s.iso.st = "fc" /\ r = [s EXCEPT !.iso.st = "cf"]
  <2> DEFINE i == [s.iso EXCEPT !.st = "cf"]
  <2>1. Mine(s) /\ IsoOk(s) /\ s \in DeskType /\ s.iso \in IsoType
    BY DEF Good, Mine, Rest, DeskType
  <2>2. /\ i \in IsoType /\ i.st = "cf" /\ i.next = s.iso.next /\ i.size = s.iso.size
        /\ i.out = s.iso.out
    <3>1. i \in IsoType
      BY <2>1, IsoMoves
    <3>2. QED
      BY <2>1, <3>1 DEF IsoType
  <2>3. r = [s EXCEPT !.iso = i]
    BY <1>3, <2>1 DEF DeskType
  <2> HIDE DEF i
  <2>4. r \in DeskType
    BY <2>1, <2>2, <2>3 DEF DeskType
  <2>5. /\ r.pend = s.pend /\ r.worker = s.worker /\ r.late = s.late
      /\ r.raw = s.raw /\ r.rawOut = s.rawOut /\ r.iso = i
      /\ r.untrue = s.untrue /\ r.cursor = s.cursor /\ r.rx = s.rx
      /\ r.asked = s.asked /\ r.fcPending = s.fcPending /\ r.job = s.job
      /\ r.clock = s.clock /\ r.linkDown = s.linkDown
    BY <2>1, <2>3 DEF DeskType
  <2>6. MailOk(r) /\ RawOk(r) /\ FlowOk(r)
    BY <2>1, <2>5 DEF Mine, Rest, MailOk, RawOk, FlowOk
  <2>7. JobOk(r) /\ MetOk(r) /\ StopOk(r)
    BY <2>1, <2>5 DEF Mine, Rest, JobOk, MetOk, StopOk
  <2>8. IsoOk(r)
    BY <1>3, <2>1, <2>2, <2>5 DEF IsoOk
  <2>9. QED
    BY <2>1, <2>4, <2>5, <2>6, <2>7, <2>8 DEF Good, Mine, Rest
<1>4. QED
  BY <1>1, <1>2, <1>3 DEF TxHears

\* isotp_rx_feed(), for every kind of frame.
LEMMA RxHearsGood ==
  ASSUME NEW s, Good(s), NEW kind \in {"match", "single", "first", "next", "flow"},
         NEW r \in RxHears(s, kind)
  PROVE  Good(r)
<1>1. CASE r = s
  BY <1>1
<1>2. CASE r = [s EXCEPT !.rx = "idle"]
  BY <1>2, QuietGood
<1>3. CASE r = Waits(s, TRUE)
  BY <1>3, WaitsGood
<1>4. CASE s.rx = "cf" /\ r = Waits(s, FALSE)
  BY <1>4, WaitsGood
<1>5. CASE kind = "single" /\ r = [s EXCEPT !.rx = "idle", !.pend.generation = FALSE]
  BY <1>5, SingleGood
<1>6. QED
  <2> DEFINE quiet == [s EXCEPT !.rx = "idle"]
  <2>1. [quiet EXCEPT !.pend.generation = FALSE]
          = [s EXCEPT !.rx = "idle", !.pend.generation = FALSE]
    BY DEF Good, Mine, Rest, DeskType
  <2>2. CASE kind = "first"
    BY <1>2, <1>3, <2>2 DEF RxHears
  <2>3. CASE kind = "single"
    BY <1>2, <1>5, <2>1, <2>3 DEF RxHears
  <2>4. CASE kind = "next"
    BY <1>1, <1>2, <1>4, <2>4 DEF RxHears
  <2>5. CASE kind \in {"match", "flow"}
    BY <1>1, <1>2, <2>5 DEF RxHears
  <2>6. QED
    BY <2>2, <2>3, <2>4, <2>5

\* One reception and both directions of the logical channel.
LEMMA LogicalGood ==
  ASSUME NEW s, Good(s), NEW kind \in {"match", "single", "first", "next", "flow"},
         NEW r \in Logical(s, kind)
  PROVE  Good(r)
BY TxHearsGood, RxHearsGood DEF Logical

\* j2534_schedule_receive(): a reception that ends the job has ended it.
LEMMA ScheduledGood ==
  ASSUME NEW s, Good(s), NEW m \in Hearing,
         job.active /\ job.kind = "while" /\ m.kind = "match" /\ m.when = "within" => met
  PROVE  LET r == [s EXCEPT !.job = Scheduled(@, m)] IN
         Good(r) /\ (r.job.active /\ m.when # "old" => ~Ends(m.kind))
<1> DEFINE k == Scheduled(s.job, m)
           r == [s EXCEPT !.job = Scheduled(@, m)]
<1>1. Mine(s) /\ IsoOk(s) /\ s \in DeskType /\ s.job \in JobType /\ m.when \in Marks
  BY DEF Good, Mine, Rest, DeskType, Hearing
<1>2. r = [s EXCEPT !.job = k]
  BY <1>1 DEF DeskType
<1>3. s.job.kind \in {"until", "while"} \/ ~Ends(m.kind)
  BY <1>1 DEF Mine, Ends
<1>4. CASE k = s.job
  <2>1. JobFits(s, k)
    BY <1>1, <1>4 DEF Mine, Rest, JobOk, MetOk, JobFits
  <2>2. k.active /\ m.when # "old" => ~Ends(m.kind)
    BY <1>1, <1>3, <1>4 DEF Scheduled, JobType
  <2>3. QED
    BY <1>1, <1>2, <1>4, <2>1, <2>2, JobRest DEF Good
<1>5. CASE s.job.active /\ Ends(m.kind) /\ k = [s.job EXCEPT !.active = FALSE]
  <2>1. k \in JobType
    BY <1>1, <1>5, JobMoves
  <2>2. /\ k.kind = s.job.kind /\ ~k.active /\ k.pending = s.job.pending
        /\ k.match = s.job.match /\ k.matched = s.job.matched /\ k.known = s.job.known
        /\ k.sent = s.job.sent
    BY <1>1, <1>5 DEF JobType
  <2>3. JobFits(s, k)
    BY <1>1, <2>2 DEF Mine, Rest, JobOk, MetOk, JobFits, Over
  <2>4. QED
    BY <1>1, <1>2, <2>1, <2>2, <2>3, JobRest DEF Good
<1>6. CASE /\ s.job.active /\ ~Ends(m.kind) /\ m.kind = "match"
           /\ k = [s.job EXCEPT !.match = m.when,
                     !.matched = @ \/ (s.job.sent /\ s.job.known /\ m.when = "within")]
  <2> DEFINE b == s.job.matched \/ (s.job.sent /\ s.job.known /\ m.when = "within")
  <2>1. b \in BOOLEAN /\ k = [s.job EXCEPT !.match = m.when, !.matched = b]
    BY <1>1, <1>6 DEF JobType
  <2> HIDE DEF k
  <2>2. k \in JobType
    BY <1>1, <2>1, JobMoves
  <2>3. /\ k.kind = s.job.kind /\ k.active = s.job.active /\ k.pending = s.job.pending
        /\ k.match = m.when /\ k.matched = b /\ k.known = s.job.known
        /\ k.sent = s.job.sent
    BY <1>1, <2>1 DEF JobType
  <2>4. JobFits(s, k)
    BY <1>1, <1>6, <2>3 DEF Mine, Rest, JobOk, MetOk, JobFits, Over
  <2>5. QED
    BY <1>1, <1>2, <1>6, <2>2, <2>4, JobRest DEF Good
<1>7. QED
  BY <1>4, <1>5, <1>6 DEF Scheduled

\* j2534_schedule_receive_lost(): only a periodic message goes on.
LEMMA UnwatchedGood ==
  ASSUME NEW s, Good(s)
  PROVE  LET r == [s EXCEPT !.job = Unwatched(@)] IN
         Good(r) /\ (r.job.active => r.job.kind = "periodic")
<1> DEFINE k == Unwatched(s.job)
<1>1. Mine(s) /\ IsoOk(s) /\ s \in DeskType /\ s.job \in JobType
  BY DEF Good, Mine, Rest, DeskType
<1>2. [s EXCEPT !.job = Unwatched(@)] = [s EXCEPT !.job = k]
  BY <1>1 DEF DeskType
<1>3. k.active => k.kind = "periodic"
  BY <1>1 DEF Unwatched, JobType
<1>4. /\ k \in JobType /\ k.kind = s.job.kind /\ k.pending = s.job.pending
      /\ k.match = s.job.match /\ k.known = s.job.known /\ k.matched = s.job.matched
      /\ k.sent = s.job.sent /\ (k.active => s.job.active)
  BY <1>1, UnwatchedFacts
<1> HIDE DEF k
<1>5. JobFits(s, k)
  BY <1>1, <1>4 DEF Mine, Rest, JobOk, MetOk, JobFits, Over
<1> DEFINE r == [s EXCEPT !.job = k]
<1>6. Mine(r) /\ IsoOk(r) /\ r.job = k
  BY <1>1, <1>4, <1>5, JobRest
<1> HIDE DEF r
<1>7. Good(r) /\ (r.job.active => r.job.kind = "periodic")
  BY <1>3, <1>6 DEF Good
<1>8. QED
  BY <1>2, <1>7 DEF r

\* A message given up with its frame taken back leaves nothing to confirm.
LEMMA DropIsoGood ==
  ASSUME NEW s, Mine(s), s.pend.kind = "isotp" /\ s.pend.own => ~s.pend.current
  PROVE  Good([s EXCEPT !.iso = NoIso])
<1> DEFINE r == [s EXCEPT !.iso = NoIso]
<1>1. s \in DeskType /\ NoIso \in IsoType
  BY DEF Mine, Rest, IsoType, NoIso
<1>2. r \in DeskType
  BY <1>1 DEF DeskType
<1>3. /\ r.pend = s.pend /\ r.worker = s.worker /\ r.late = s.late
      /\ r.raw = s.raw /\ r.rawOut = s.rawOut /\ r.iso = NoIso
      /\ r.untrue = s.untrue /\ r.cursor = s.cursor /\ r.rx = s.rx
      /\ r.asked = s.asked /\ r.fcPending = s.fcPending /\ r.job = s.job
      /\ r.clock = s.clock /\ r.linkDown = s.linkDown
  BY <1>1 DEF DeskType
<1> HIDE DEF r
<1>4. MailOk(r) /\ RawOk(r) /\ FlowOk(r)
  BY <1>3 DEF Mine, Rest, MailOk, RawOk, FlowOk
<1>5. JobOk(r) /\ MetOk(r) /\ StopOk(r)
  BY <1>3 DEF Mine, Rest, JobOk, MetOk, StopOk
<1>6. IsoOk(r)
  BY <1>3 DEF IsoOk, NoIso
<1>7. QED
  BY <1>2, <1>3, <1>4, <1>5, <1>6 DEF Good, Mine, Rest, r

\* A controller that went off takes back everything that was given to it.
LEMMA DownGood ==
  ASSUME NEW s, Good(s)
  PROVE  Good(Down(s))
<1> DEFINE all == {"message", "isotp", "fc", "job"}
           b == TakenBack(s, all)
           k == Unwatched(b.job)
           t == [b EXCEPT !.linkDown = TRUE, !.job = k, !.rx = "idle"]
           u == IF t.raw THEN RawDone(t, FALSE) ELSE t
<1>1. /\ Mine(b)
      /\ b.pend.kind = "isotp" /\ b.pend.own => ~b.pend.current
      /\ b.pend.kind = "message" /\ b.pend.own => b.pend.discard
  BY TakenBackRest DEF Good
<1>2. b \in DeskType /\ b.job \in JobType
  BY <1>1 DEF Mine, Rest, DeskType
<1>3. Down(s) = [u EXCEPT !.iso = NoIso]
  BY <1>2 DEF Down, DeskType
<1> HIDE DEF b
<1>4. /\ k \in JobType /\ k.kind = b.job.kind /\ k.pending = b.job.pending
      /\ k.match = b.job.match /\ k.known = b.job.known /\ k.matched = b.job.matched
      /\ k.sent = b.job.sent /\ (k.active => b.job.active)
  BY <1>2, UnwatchedFacts
<1> HIDE DEF k
<1>5. JobFits(b, k)
  BY <1>1, <1>4 DEF Mine, Rest, JobOk, MetOk, JobFits, Over
<1>6. t \in DeskType
  BY <1>2, <1>4 DEF DeskType
<1>7. /\ t.pend = b.pend /\ t.worker = b.worker /\ t.late = b.late
      /\ t.raw = b.raw /\ t.rawOut = b.rawOut /\ t.iso = b.iso
      /\ t.untrue = b.untrue /\ t.cursor = b.cursor /\ t.rx = "idle"
      /\ t.asked = b.asked /\ t.fcPending = b.fcPending /\ t.job = k
      /\ t.clock = b.clock /\ t.linkDown = TRUE
  BY <1>2 DEF DeskType
<1> HIDE DEF t
<1>8. MailOk(t) /\ RawOk(t) /\ FlowOk(t)
  BY <1>1, <1>7 DEF Mine, Rest, MailOk, RawOk, FlowOk
<1>9. JobOk(t) /\ MetOk(t) /\ StopOk(t)
  BY <1>1, <1>5, <1>7 DEF Mine, Rest, JobOk, MetOk, StopOk, JobFits
<1>10. Mine(t)
  BY <1>1, <1>5, <1>6, <1>7, <1>8, <1>9 DEF Mine, Rest, JobFits
<1>11. Mine(u) /\ (u.pend.kind = "isotp" /\ u.pend.own => ~u.pend.current)
  <2> DEFINE v == RawDone(t, FALSE)
  <2>1. t.pend.kind = "message" /\ t.pend.own => t.pend.discard
    BY <1>1, <1>7
  <2>2. /\ Mine(v) /\ v.pend.kind = t.pend.kind /\ v.pend.own = t.pend.own
        /\ v.pend.current => t.pend.current
    BY <1>10, <2>1, RawDoneRest
  <2> HIDE DEF v
  <2>3. u = v \/ u = t
    BY DEF v
  <2>4. QED
    BY <1>1, <1>7, <1>10, <2>2, <2>3
<1> HIDE DEF u
<1>12. QED
  BY <1>3, <1>11, DropIsoGood

\* What CLEAR_RX_BUFFER and BUS_ON do once the driver is drained.
LEMMA EndedGood ==
  ASSUME NEW s, Good(s), work \in {"poll", "clear", "bus_on"}
  PROVE  Good(Ended(s))
<1>1. Mine(s) /\ IsoOk(s) /\ s \in DeskType /\ s.pend \in PendType
  BY DEF Good, Mine, Rest, DeskType
<1>2. CASE Ended(s) = s
  BY <1>2
<1>3. CASE work = "clear"
  <2> DEFINE p == [s.pend EXCEPT !.generation = FALSE]
             r == Ended(s)
  <2>1. /\ p \in PendType /\ p.kind = s.pend.kind /\ p.own = s.pend.own
        /\ p.discard = s.pend.discard /\ p.confirmed = s.pend.confirmed
        /\ p.current = s.pend.current /\ ~p.generation
    <3>1. p \in PendType
      BY <1>1, PendMoves
    <3>2. QED
      BY <1>1, <3>1 DEF PendType
  <2>2. r = [s EXCEPT !.rx = "idle", !.fcPending = FALSE, !.pend = p]
    BY <1>1, <1>3 DEF Ended, DeskType, PendType
  <2> HIDE DEF p
  <2>3. r \in DeskType
    BY <1>1, <2>1, <2>2 DEF DeskType
  <2>4. /\ r.pend = p /\ r.worker = s.worker /\ r.late = s.late /\ r.raw = s.raw
      /\ r.rawOut = s.rawOut /\ r.iso = s.iso /\ r.untrue = s.untrue
      /\ r.cursor = s.cursor /\ r.rx = "idle" /\ r.asked = s.asked
      /\ r.fcPending = FALSE /\ r.job = s.job /\ r.clock = s.clock
      /\ r.linkDown = s.linkDown
    BY <1>1, <2>2 DEF DeskType
  <2> HIDE DEF r
  <2>5. MailOk(r) /\ RawOk(r) /\ IsoOk(r)
    BY <1>1, <2>1, <2>4 DEF Mine, Rest, MailOk, RawOk, IsoOk, Settles
  <2>6. FlowOk(r)
    BY <1>1, <2>1, <2>4 DEF Mine, Rest, FlowOk, Settles
  <2>7. JobOk(r) /\ MetOk(r) /\ StopOk(r)
    BY <1>1, <2>1, <2>4 DEF Mine, Rest, JobOk, MetOk, StopOk
  <2>8. QED
    BY <1>1, <2>3, <2>4, <2>5, <2>6, <2>7 DEF Good, Mine, Rest, r
<1>4. CASE work = "bus_on" /\ Ended(s) = [s EXCEPT !.linkDown = FALSE]
  <2> DEFINE r == Ended(s)
  <2>1. r \in DeskType
    BY <1>1, <1>4 DEF DeskType
  <2>2. /\ r.pend = s.pend /\ r.worker = s.worker /\ r.late = s.late
      /\ r.raw = s.raw /\ r.rawOut = s.rawOut /\ r.iso = s.iso
      /\ r.untrue = s.untrue /\ r.cursor = s.cursor /\ r.rx = s.rx
      /\ r.asked = s.asked /\ r.fcPending = s.fcPending /\ r.job = s.job
      /\ r.clock = s.clock /\ r.linkDown = FALSE
    BY <1>1, <1>4 DEF DeskType
  <2> HIDE DEF r
  <2>3. MailOk(r) /\ RawOk(r) /\ IsoOk(r) /\ FlowOk(r)
    BY <1>1, <2>2 DEF Mine, Rest, MailOk, RawOk, IsoOk, FlowOk
  <2>4. JobOk(r) /\ MetOk(r) /\ StopOk(r)
    BY <1>1, <2>2 DEF Mine, Rest, JobOk, MetOk, StopOk
  <2>5. QED
    BY <1>1, <2>1, <2>2, <2>3, <2>4 DEF Good, Mine, Rest, r
<1>5. QED
  BY <1>2, <1>3, <1>4 DEF Ended

-------------------------------------------------------------------------------
(* Choosing what goes out. *)

\* A message that is due, and goes on only while it is answered, was answered.
Ready(s) ==
  Due(s.job) /\ s.job.kind = "while" /\ s.job.sent => met

\* What is still due after the deadlines were looked at may go out.
LEMMA AgingGood ==
  ASSUME Good(Desk), NEW r \in Aging(Desk)
  PROVE  Good(r) /\ Ready(r)
<1> DEFINE t == IF Expires(job) THEN [Desk EXCEPT !.job.active = FALSE] ELSE Desk
           k == [job EXCEPT !.active = FALSE]
<1>1. Mine(Desk) /\ IsoOk(Desk) /\ Desk \in DeskType /\ job \in JobType /\ Desk.job = job
  BY DEF Good, Mine, Rest, DeskType, Desk
<1> HIDE DEF Good, t
<1>2. Good(t) /\ Ready(t)
  <2>1. CASE Expires(job)
    <3>1. t = [Desk EXCEPT !.job = k]
      BY <1>1, <2>1 DEF t, DeskType
    <3>2. k \in JobType
      BY <1>1, JobMoves
    <3>3. /\ k.kind = job.kind /\ ~k.active /\ k.pending = job.pending
          /\ k.match = job.match /\ k.matched = job.matched /\ k.known = job.known
          /\ k.sent = job.sent
      BY <1>1 DEF JobType
    <3> HIDE DEF k
    <3>4. JobFits(Desk, k)
      BY <1>1, <3>3 DEF Mine, Rest, JobOk, MetOk, JobFits, Over
    <3>5. Good(t) /\ t.job = k
      BY <1>1, <3>1, <3>2, <3>4, JobRest DEF Good
    <3>6. Ready(t)
      BY <3>3, <3>5 DEF Ready, Due
    <3>7. QED
      BY <3>5, <3>6
  <2>2. CASE ~Expires(job)
    <3>1. t = Desk
      BY <2>2 DEF t
    <3>2. Due(job) /\ job.kind = "while" /\ job.sent => met
      BY <1>1, <2>2 DEF Mine, Rest, JobOk, MetOk, Expires, Due
    <3>3. Ready(Desk)
      BY <1>1, <3>2 DEF Ready
    <3>4. QED
      BY <3>1, <3>3
  <2>3. QED
    BY <2>1, <2>2
<1>3. r = t \/ r = [t EXCEPT !.rx = "idle"]
  BY <1>1 DEF Aging, t
<1>4. CASE r = [t EXCEPT !.rx = "idle"]
  <2>1. r.job = t.job
    BY <1>2, <1>4 DEF Good, Mine, Rest, DeskType
  <2>2. Good(r)
    BY <1>2, <1>4, QuietGood
  <2>3. QED
    BY <1>2, <2>1, <2>2 DEF Ready
<1>5. QED
  BY <1>2, <1>3, <1>4

\* A copy the worker no longer need send is taken from it.
LEMMA DroppedGood ==
  ASSUME NEW s, Good(s)
  PROVE  LET r == Dropped(s) IN Good(r) /\ r.job = s.job /\ r.pend = s.pend
<1> DEFINE r == Dropped(s)
<1>1. Mine(s) /\ IsoOk(s) /\ s \in DeskType /\ "cancelled" \in States
  BY DEF Good, Mine, Rest, States
<1>2. CASE r = s
  BY <1>2
<1>3. CASE /\ s.pend.kind = "job" /\ s.worker = "queued"
           /\ r = [s EXCEPT !.worker = "cancelled", !.late = FALSE]
  <2>1. r \in DeskType
    BY <1>1, <1>3 DEF DeskType
  <2>2. /\ r.pend = s.pend /\ r.worker = "cancelled" /\ r.late = FALSE
      /\ r.raw = s.raw /\ r.rawOut = s.rawOut /\ r.iso = s.iso
      /\ r.untrue = s.untrue /\ r.cursor = s.cursor /\ r.rx = s.rx
      /\ r.asked = s.asked /\ r.fcPending = s.fcPending /\ r.job = s.job
      /\ r.clock = s.clock /\ r.linkDown = s.linkDown
    BY <1>1, <1>3 DEF DeskType
  <2> HIDE DEF r
  <2>3. MailOk(r) /\ RawOk(r) /\ IsoOk(r) /\ FlowOk(r)
    BY <1>1, <1>3, <2>2 DEF Mine, Rest, MailOk, RawOk, IsoOk, FlowOk, Gone
  <2>4. JobOk(r) /\ MetOk(r) /\ StopOk(r)
    BY <1>1, <1>3, <2>2 DEF Mine, Rest, JobOk, MetOk, StopOk
  <2>5. QED
    BY <1>1, <2>1, <2>2, <2>3, <2>4 DEF Good, Mine, Rest, r
<1>4. QED
  BY <1>2, <1>3 DEF Dropped

\* What is given to the worker is its own message's, and tells the worker of
\* receptions it has not heeded.
LEMMA SubmittedRest ==
  ASSUME NEW s, Mine(s), s.pend.kind = "none", NEW kind \in {"message", "isotp", "fc", "job"},
         kind = "fc" => ~s.fcPending /\ s.rx # "cf",
         kind = "job" => /\ s.job.pending /\ s.job.known
                         /\ stop => rxq # <<>> \/ lost
                         /\ s.job.kind = "while" /\ s.job.sent => met,
         NEW r \in Submitted(s, kind)
  PROVE  /\ Mine(r) /\ r.iso = s.iso /\ Settles(r.pend) /\ r.pend.current
         /\ r.pend.kind = kind /\ r.worker \in {"queued", "failed"}
<1> DEFINE p == [NoPend EXCEPT !.kind = kind, !.own = TRUE, !.current = TRUE,
                               !.generation = (kind = "fc")]
<1>1. s \in DeskType
  BY DEF Mine, Rest
<1>2. PICK w \in {"queued", "failed"} :
        r = [s EXCEPT !.pend = p, !.worker = w,
                      !.late = Repeat /\ kind = "job" /\ w = "queued" /\ (rxq # <<>> \/ lost)]
  BY DEF Submitted
<1> DEFINE l == Repeat /\ kind = "job" /\ w = "queued" /\ (rxq # <<>> \/ lost)
<1>3. l \in BOOLEAN
  BY DEF Repeat
<1>4. /\ p \in PendType /\ p.kind = kind /\ p.own /\ p.current /\ ~p.discard /\ ~p.confirmed
      /\ p.generation = (kind = "fc")
  BY DEF PendType, NoPend, Kinds
<1>5. r = [s EXCEPT !.pend = p, !.worker = w, !.late = l]
  BY <1>2
<1> HIDE DEF p, l
<1>6. w \in States
  BY DEF States
<1>7. r \in DeskType
  BY <1>1, <1>3, <1>4, <1>5, <1>6 DEF DeskType
<1>8. /\ r.pend = p /\ r.worker = w /\ r.late = l /\ r.raw = s.raw
      /\ r.rawOut = s.rawOut /\ r.iso = s.iso /\ r.untrue = s.untrue
      /\ r.cursor = s.cursor /\ r.rx = s.rx /\ r.asked = s.asked
      /\ r.fcPending = s.fcPending /\ r.job = s.job /\ r.clock = s.clock
      /\ r.linkDown = s.linkDown
  BY <1>1, <1>5 DEF DeskType
<1>9. MailOk(r) /\ RawOk(r)
  BY <1>4, <1>8 DEF Mine, Rest, MailOk, RawOk, Gone
<1>10. FlowOk(r)
  BY <1>4, <1>8 DEF Mine, Rest, FlowOk, Gone, Settles
<1>11. JobOk(r) /\ MetOk(r)
  BY <1>4, <1>8 DEF Mine, Rest, JobOk, MetOk
<1>12. StopOk(r)
  BY <1>4, <1>8 DEF Mine, Rest, StopOk, Repeat, l
<1>13. QED
  BY <1>4, <1>7, <1>8, <1>9, <1>10, <1>11, <1>12 DEF Mine, Rest, Settles

\* A frame given to the worker that no segmented message waits for.
LEMMA SubmittedGood ==
  ASSUME NEW s, Good(s), s.pend.kind = "none", NEW kind \in {"message", "fc", "job"},
         kind = "fc" => ~s.fcPending /\ s.rx # "cf",
         kind = "job" => /\ s.job.pending /\ s.job.known
                         /\ stop => rxq # <<>> \/ lost
                         /\ s.job.kind = "while" /\ s.job.sent => met,
         NEW r \in Submitted(s, kind)
  PROVE  Good(r)
<1>1. /\ Mine(r) /\ r.iso = s.iso /\ r.pend.kind = kind
  BY SubmittedRest DEF Good
<1>2. IsoOk(r)
  BY <1>1 DEF Good, IsoOk
<1>3. QED
  BY <1>1, <1>2 DEF Good

\* A segmented message that may go on has sent all it counted, and counts one more.
LEMMA NextFrameGood ==
  ASSUME NEW s, Good(s), s.pend.kind = "none", s.iso.st \in {"queued", "cf"},
         NEW r \in NextFrame(s)
  PROVE  Good(r)
<1> DEFINE i == [s.iso EXCEPT !.st = "confirm", !.next = @ + 1]
           u == [s EXCEPT !.iso.st = "confirm", !.iso.next = @ + 1]
<1>1. Mine(s) /\ IsoOk(s) /\ s \in DeskType /\ s.iso \in IsoType
  BY DEF Good, Mine, Rest, DeskType
<1>2. i \in IsoType /\ i.st = "confirm" /\ i.next = s.iso.next + 1 /\ i.size = s.iso.size
      /\ i.out = s.iso.out
  <2>1. i \in IsoType
    BY <1>1, IsoMoves
  <2>2. QED
    BY <1>1, <2>1 DEF IsoType
<1>3. u = [s EXCEPT !.iso = i]
  BY <1>1 DEF DeskType, IsoType
<1>4. r \in Submitted(u, "isotp")
  BY DEF NextFrame
<1> HIDE DEF i
<1>5. u \in DeskType
  BY <1>1, <1>2, <1>3 DEF DeskType
<1>6. /\ u.pend = s.pend /\ u.worker = s.worker /\ u.late = s.late /\ u.rawOut = s.rawOut
      /\ u.untrue = s.untrue /\ u.rx = s.rx /\ u.asked = s.asked
      /\ u.fcPending = s.fcPending /\ u.job = s.job /\ u.iso = i
  BY <1>1, <1>3 DEF DeskType
<1> HIDE DEF u
<1>7. MailOk(u) /\ RawOk(u) /\ FlowOk(u)
  BY <1>1, <1>6 DEF Mine, Rest, MailOk, RawOk, FlowOk
<1>8. JobOk(u) /\ MetOk(u) /\ StopOk(u)
  BY <1>1, <1>6 DEF Mine, Rest, JobOk, MetOk, StopOk
<1>9. Mine(u) /\ u.pend.kind = "none"
  BY <1>1, <1>5, <1>6, <1>7, <1>8 DEF Mine, Rest
<1>10. /\ Mine(r) /\ r.iso = i /\ Settles(r.pend) /\ r.pend.current
       /\ r.pend.kind = "isotp" /\ r.worker \in {"queued", "failed"}
  BY <1>4, <1>6, <1>9, SubmittedRest
<1>11. s.iso.next < s.iso.size /\ s.iso.out = s.iso.next
  BY <1>1 DEF IsoOk
<1>12. i.next <= i.size /\ i.out + 1 = i.next
  BY <1>1, <1>2, <1>11 DEF IsoType
<1>13. IsoOk(r)
  BY <1>2, <1>10, <1>12 DEF IsoOk, Gone
<1>14. QED
  BY <1>10, <1>13 DEF Good

\* The turn of the other channel.
LEMMA CursorGood ==
  ASSUME NEW s, Good(s), NEW c \in {"raw", "iso"}
  PROVE  LET r == [s EXCEPT !.cursor = c] IN
         Good(r) /\ r.pend = s.pend /\ r.iso = s.iso
<1> DEFINE r == [s EXCEPT !.cursor = c]
<1>1. Mine(s) /\ IsoOk(s) /\ s \in DeskType
  BY DEF Good, Mine, Rest
<1>2. r \in DeskType
  BY <1>1 DEF DeskType
<1>3. /\ r.pend = s.pend /\ r.worker = s.worker /\ r.late = s.late
      /\ r.raw = s.raw /\ r.rawOut = s.rawOut /\ r.iso = s.iso
      /\ r.untrue = s.untrue /\ r.cursor = c /\ r.rx = s.rx
      /\ r.asked = s.asked /\ r.fcPending = s.fcPending /\ r.job = s.job
      /\ r.clock = s.clock /\ r.linkDown = s.linkDown
  BY <1>1 DEF DeskType
<1> HIDE DEF r
<1>4. MailOk(r) /\ RawOk(r) /\ FlowOk(r) /\ IsoOk(r)
  BY <1>1, <1>3 DEF Mine, Rest, MailOk, RawOk, FlowOk, IsoOk
<1>5. JobOk(r) /\ MetOk(r) /\ StopOk(r)
  BY <1>1, <1>3 DEF Mine, Rest, JobOk, MetOk, StopOk
<1>6. QED
  BY <1>1, <1>2, <1>3, <1>4, <1>5 DEF Good, Mine, Rest, r

\* poll_tx() of either channel.
LEMMA PollTxGood ==
  ASSUME NEW s, Good(s), s.pend.kind = "none", NEW channel \in {"raw", "iso"},
         NEW r \in PollTx(s, channel)
  PROVE  Good(r)
<1>1. CASE r = s
  BY <1>1
<1>2. CASE r = IsoDone(s, FALSE)
  BY <1>2, IsoDoneOk DEF Good
<1>3. CASE r \in Submitted([s EXCEPT !.cursor = "iso"], "message")
  <2> DEFINE t == [s EXCEPT !.cursor = "iso"]
  <2>1. Good(t) /\ t.pend = s.pend
    BY CursorGood
  <2> HIDE DEF t
  <2>2. QED
    BY <1>3, <2>1, SubmittedGood DEF t
<1>4. CASE s.iso.st \in {"queued", "cf"} /\ r \in NextFrame([s EXCEPT !.cursor = "raw"])
  <2> DEFINE t == [s EXCEPT !.cursor = "raw"]
  <2>1. Good(t) /\ t.pend = s.pend /\ t.iso = s.iso
    BY CursorGood
  <2> HIDE DEF t
  <2>2. r \in NextFrame(t)
    BY <1>4 DEF t
  <2>3. QED
    BY <1>4, <2>1, <2>2, NextFrameGood
<1>5. CASE channel = "raw"
  BY <1>1, <1>3, <1>5 DEF PollTx
<1>6. CASE channel = "iso"
  <2>1. CASE s.iso.st = "queued"
    BY <1>1, <1>4, <1>6, <2>1 DEF PollTx
  <2>2. CASE s.iso.st = "cf"
    BY <1>1, <1>4, <1>6, <2>2 DEF PollTx
  <2>3. CASE s.iso.st = "fc"
    BY <1>1, <1>2, <1>6, <2>3 DEF PollTx
  <2>4. CASE s.iso.st \in {"none", "confirm"}
    BY <1>1, <1>6, <2>4 DEF PollTx
  <2>5. s.iso.st \in {"none", "queued", "confirm", "fc", "cf"}
    BY DEF Good, Mine, Rest, DeskType, IsoType
  <2>6. QED
    BY <2>1, <2>2, <2>3, <2>4, <2>5
<1>7. QED
  BY <1>5, <1>6

\* Both channels in turn, until one has something.
LEMMA RoundRobinGood ==
  ASSUME NEW s, Good(s), s.pend.kind = "none", NEW r \in RoundRobin(s)
  PROVE  Good(r)
<1> DEFINE second == IF s.cursor = "raw" THEN "iso" ELSE "raw"
<1>1. s.cursor \in {"raw", "iso"} /\ second \in {"raw", "iso"}
  BY DEF Good, Mine, Rest, DeskType
<1>2. PICK t \in PollTx(s, s.cursor) :
        r \in IF t.pend.kind # "none" THEN {t} ELSE PollTx(t, second)
  BY DEF RoundRobin
<1>3. Good(t)
  BY <1>1, PollTxGood
<1> HIDE DEF second
<1>4. QED
  BY <1>1, <1>2, <1>3, PollTxGood

\* What is chosen belongs to a message that may go out: a flow control to the
\* present wait, a repeat to a job nothing that was read has ended.
LEMMA ChosenGood ==
  ASSUME NEW s, Good(s), Ready(s), s.pend.kind = "none", Heard, NEW r \in Chosen(s)
  PROVE  Good(r)
<1>1. Mine(s) /\ IsoOk(s) /\ s \in DeskType /\ s.job \in JobType
  BY DEF Good, Mine, Rest, DeskType
<1>2. CASE s.fcPending
  <2> DEFINE t == [s EXCEPT !.fcPending = FALSE]
  <2>1. t \in DeskType
    BY <1>1 DEF DeskType
  <2>2. /\ t.pend = s.pend /\ t.worker = s.worker /\ t.late = s.late /\ t.rawOut = s.rawOut
        /\ t.untrue = s.untrue /\ t.rx = s.rx /\ t.asked = s.asked /\ t.iso = s.iso
        /\ t.fcPending = FALSE /\ t.job = s.job
    BY <1>1 DEF DeskType
  <2>3. r \in Submitted(t, "fc")
    BY <1>2 DEF Chosen
  <2> HIDE DEF t
  <2>4. MailOk(t) /\ RawOk(t) /\ FlowOk(t) /\ IsoOk(t) /\ t.rx # "cf"
    BY <1>1, <1>2, <2>2 DEF Mine, Rest, MailOk, RawOk, FlowOk, IsoOk
  <2>5. JobOk(t) /\ MetOk(t) /\ StopOk(t)
    BY <1>1, <2>2 DEF Mine, Rest, JobOk, MetOk, StopOk
  <2>6. Good(t) /\ t.pend.kind = "none"
    BY <1>1, <2>1, <2>2, <2>4, <2>5 DEF Good, Mine, Rest
  <2>7. QED
    BY <2>2, <2>3, <2>4, <2>6, SubmittedGood
<1>3. CASE ~s.fcPending /\ Due(s.job)
  <2> DEFINE k == [s.job EXCEPT !.pending = TRUE, !.ended = FALSE]
             t == [s EXCEPT !.job = k]
  <2>1. r \in Submitted(t, "job")
    BY <1>1, <1>3 DEF Chosen, DeskType, JobType
  <2>2. k \in JobType
    BY <1>1, JobMoves
  <2>3. /\ k.kind = s.job.kind /\ k.active = s.job.active /\ k.pending
        /\ k.match = s.job.match /\ k.matched = s.job.matched /\ k.known = s.job.known
        /\ k.sent = s.job.sent
    BY <1>1 DEF JobType
  <2>4. s.job.active /\ ~s.job.pending
    BY <1>3 DEF Due
  <2> HIDE DEF k
  <2>5. JobFits(s, k)
    BY <1>1, <2>3, <2>4 DEF Mine, Rest, JobOk, MetOk, JobFits, Over
  <2>6. Mine(t) /\ IsoOk(t) /\ t.job = k /\ t.pend = s.pend
    BY <1>1, <2>2, <2>5, JobRest
  <2> HIDE DEF t
  <2>7. k.known
    BY <1>1, <2>3, <2>4 DEF Mine, Rest, JobOk
  <2>8. stop => rxq # <<>> \/ lost
    BY <1>1, <2>4 DEF Heard, Mine
  <2>9. k.kind = "while" /\ k.sent => met
    BY <1>3, <2>3 DEF Ready
  <2>10. QED
    BY <2>1, <2>3, <2>6, <2>7, <2>8, <2>9, SubmittedGood DEF Good
<1>4. CASE ~s.fcPending /\ ~Due(s.job)
  BY <1>4, RoundRobinGood DEF Chosen
<1>5. QED
  BY <1>2, <1>3, <1>4

-------------------------------------------------------------------------------
(* What a step leaves. *)

\* The fields of the desk are the variables,
LEMMA DeskNow ==
  /\ Desk.pend = pend /\ Desk.worker = worker /\ Desk.late = late /\ Desk.raw = raw
  /\ Desk.rawOut = rawOut /\ Desk.iso = iso /\ Desk.untrue = untrue /\ Desk.cursor = cursor
  /\ Desk.rx = rx /\ Desk.asked = asked /\ Desk.fcPending = fcPending /\ Desk.job = job
  /\ Desk.clock = clock /\ Desk.linkDown = linkDown
BY DEF Desk

\* and after a step the variables it leaves.
LEMMA DeskNext ==
  /\ Desk'.pend = pend' /\ Desk'.worker = worker' /\ Desk'.late = late' /\ Desk'.raw = raw'
  /\ Desk'.rawOut = rawOut' /\ Desk'.iso = iso' /\ Desk'.untrue = untrue'
  /\ Desk'.cursor = cursor' /\ Desk'.rx = rx' /\ Desk'.asked = asked'
  /\ Desk'.fcPending = fcPending' /\ Desk'.job = job' /\ Desk'.clock = clock'
  /\ Desk'.linkDown = linkDown'
BY DEF Desk

\* A desk of the right type is one of the right variables,
LEMMA DeskTypedNow ==
  ASSUME Desk \in DeskType
  PROVE  /\ pend \in PendType /\ worker \in States /\ late \in BOOLEAN /\ raw \in BOOLEAN
         /\ rawOut \in BOOLEAN /\ iso \in IsoType /\ untrue \in BOOLEAN
         /\ cursor \in {"raw", "iso"} /\ rx \in {"idle", "confirm", "cf"} /\ asked \in BOOLEAN
         /\ fcPending \in BOOLEAN /\ job \in JobType /\ clock \in {"within", "due"}
         /\ linkDown \in BOOLEAN
BY DEF Desk, DeskType

\* and the other way round after a step.
LEMMA DeskTypedNext ==
  ASSUME pend' \in PendType, worker' \in States, late' \in BOOLEAN, raw' \in BOOLEAN,
         rawOut' \in BOOLEAN, iso' \in IsoType, untrue' \in BOOLEAN, cursor' \in {"raw", "iso"},
         rx' \in {"idle", "confirm", "cf"}, asked' \in BOOLEAN, fcPending' \in BOOLEAN,
         job' \in JobType, clock' \in {"within", "due"}, linkDown' \in BOOLEAN
  PROVE  Desk' \in DeskType
BY DEF Desk, DeskType

\* The channels a step may leave: a job that has ended is reset.
Fits(s) ==
  /\ s \in DeskType /\ MailOk(s) /\ RawOk(s) /\ FlowOk(s) /\ IsoOk(s) /\ JobOk(s)
  /\ ~Over(s.job) => MetOk(s) /\ StopOk(s)

\* What the calls leave may be written back.
LEMMA GoodFits == ASSUME NEW s, Good(s) PROVE Fits(s)
BY DEF Good, Mine, Rest, Fits

\* Writing it back resets a job that has ended, and nothing of the invariant is lost.
LEMMA BecomesDesk ==
  ASSUME NEW s, Fits(s), Becomes(s)
  PROVE  DeskOk(Desk)'
<1> DEFINE k == [NoJob EXCEPT !.kind = s.job.kind]
<1>1. s \in DeskType /\ s.job \in JobType
  BY DEF Fits, DeskType
<1>2. k \in JobType /\ k.kind = s.job.kind /\ ~k.active /\ ~k.pending /\ k.match = "none"
      /\ ~k.matched /\ ~k.sent
  BY <1>1 DEF JobType, NoJob, Marks
<1>3. job' = IF Over(s.job) THEN k ELSE s.job
  BY DEF Becomes
<1> HIDE DEF k
<1>4. Desk' \in DeskType
  <2>1. /\ pend' \in PendType /\ worker' \in States /\ late' \in BOOLEAN /\ raw' \in BOOLEAN
        /\ rawOut' \in BOOLEAN /\ iso' \in IsoType /\ untrue' \in BOOLEAN
        /\ cursor' \in {"raw", "iso"} /\ rx' \in {"idle", "confirm", "cf"}
        /\ asked' \in BOOLEAN /\ fcPending' \in BOOLEAN
        /\ clock' \in {"within", "due"} /\ linkDown' \in BOOLEAN
    BY <1>1 DEF Becomes, DeskType
  <2>2. job' \in JobType
    BY <1>1, <1>2, <1>3
  <2>3. QED
    BY <2>1, <2>2, DeskTypedNext
<1>5. /\ Desk'.pend = s.pend /\ Desk'.worker = s.worker /\ Desk'.late = s.late
      /\ Desk'.rawOut = s.rawOut /\ Desk'.iso = s.iso /\ Desk'.untrue = s.untrue
      /\ Desk'.rx = s.rx /\ Desk'.asked = (s.asked /\ s.rx # "idle")
      /\ Desk'.fcPending = s.fcPending /\ Desk'.job = job'
  BY DeskNext DEF Becomes
<1>6. (MailOk(Desk) /\ RawOk(Desk) /\ FlowOk(Desk) /\ IsoOk(Desk))'
  <2>1. (MailOk(Desk) /\ RawOk(Desk))'
    BY <1>5 DEF Fits, MailOk, RawOk, Gone
  <2>2. FlowOk(Desk)'
    BY <1>5 DEF Fits, FlowOk
  <2>3. IsoOk(Desk)'
    BY <1>5 DEF Fits, IsoOk
  <2>4. QED
    BY <2>1, <2>2, <2>3
<1>7. stop' = (stop /\ ~Over(s.job)) /\ met' = (met /\ ~Over(s.job))
  BY DEF Becomes
<1>8. CASE Over(s.job)
  <2>1. (JobOk(Desk) /\ MetOk(Desk) /\ StopOk(Desk))'
    BY <1>2, <1>3, <1>5, <1>7, <1>8 DEF Fits, JobOk, MetOk, StopOk, Over
  <2>2. QED
    BY <1>4, <1>6, <2>1 DEF DeskOk, Rest
<1>9. CASE ~Over(s.job)
  <2>1. (JobOk(Desk) /\ MetOk(Desk) /\ StopOk(Desk))'
    BY <1>3, <1>5, <1>7, <1>9 DEF Fits, JobOk, MetOk, StopOk
  <2>2. QED
    BY <1>4, <1>6, <2>1 DEF DeskOk, Rest
<1>10. QED
  BY <1>8, <1>9

\* What is still to be read is still to be read.
LEMMA BecomesHeard ==
  ASSUME NEW s, Mine(s), Becomes(s), Heard, rxq' = rxq, lost' = lost
  PROVE  Heard'
<1>1. s \in DeskType /\ s.job \in JobType
  BY DEF Mine, Rest, DeskType
<1>2. /\ job'.kind = job.kind
      /\ job'.active => job.active /\ ~Over(s.job)
      /\ Over(job') = Over(s.job)
  BY <1>1 DEF Becomes, Mine, NoJob, Over, JobType
<1>3. stop' = (stop /\ ~Over(s.job)) /\ met' = (met /\ ~Over(s.job))
  BY DEF Becomes
<1>4. QED
  BY <1>2, <1>3 DEF Heard, Ends

\* A step begins with a desk the calls accept.
LEMMA InvGood == ASSUME J2534Inv PROVE Good(Desk)
BY DeskNow DEF J2534Inv, DeskOk, Good, Mine

\* Most steps only change the channels.
LEMMA BecomesInv ==
  ASSUME J2534Inv, NEW s, Good(s), Becomes(s), UNCHANGED busVars,
         pc' \in {"idle", "rx", "choose", "collect"}, work' \in {"poll", "clear", "bus_on"},
         full' \in BOOLEAN, drained' \in BOOLEAN
  PROVE  J2534Inv'
<1>1. DeskOk(Desk)'
  BY GoodFits, BecomesDesk
<1>2. Heard'
  BY BecomesHeard DEF J2534Inv, Good, busVars
<1>3. Placed'
  BY DEF J2534Inv, Placed, Becomes, busVars
<1>4. QED
  BY <1>1, <1>2, <1>3 DEF J2534Inv

-------------------------------------------------------------------------------
(* The worker and the bus. *)

\* bus_tx_admit(): what is late is refused, and only a job's frame can be.
LEMMA AdmitKeeps == ASSUME J2534Inv, Admit PROVE J2534Inv'
<1>1. DeskOk(Desk) /\ Desk \in DeskType
  BY DEF J2534Inv, DeskOk, Rest
<1>2. /\ pend' = pend /\ rawOut' = rawOut /\ iso' = iso /\ untrue' = untrue /\ rx' = rx
      /\ asked' = asked /\ fcPending' = fcPending /\ job' = job /\ stop' = stop /\ met' = met
      /\ worker = "queued" /\ worker' \in {"active", "refused"} /\ late' = FALSE
      /\ worker' = "refused" => pend.kind = "job"
  BY DEF Admit, txVars, rxVars, jobVars, Checks
<1>3. Desk' \in DeskType
  <2>1. /\ pend' \in PendType /\ worker' \in States /\ late' \in BOOLEAN /\ raw' \in BOOLEAN
        /\ rawOut' \in BOOLEAN /\ iso' \in IsoType /\ untrue' \in BOOLEAN
        /\ cursor' \in {"raw", "iso"} /\ rx' \in {"idle", "confirm", "cf"}
        /\ asked' \in BOOLEAN /\ fcPending' \in BOOLEAN /\ job' \in JobType
        /\ clock' \in {"within", "due"} /\ linkDown' \in BOOLEAN
    BY ZenonT(30), <1>1, <1>2, DeskTypedNow DEF Admit, txVars, rxVars, jobVars, States
  <2>2. QED
    BY <2>1, DeskTypedNext
<1>4. (MailOk(Desk) /\ RawOk(Desk) /\ FlowOk(Desk))'
  BY <1>1, <1>2, DeskNow, DeskNext DEF DeskOk, Rest, MailOk, RawOk, FlowOk, Gone
<1>5. IsoOk(Desk)'
  BY <1>1, <1>2, DeskNow, DeskNext DEF DeskOk, IsoOk, Gone
<1>6. (JobOk(Desk) /\ MetOk(Desk) /\ StopOk(Desk))'
  BY <1>1, <1>2, DeskNow, DeskNext DEF DeskOk, Rest, JobOk, MetOk, StopOk
<1>7. Heard' /\ Placed'
  BY <1>2 DEF J2534Inv, Heard, Placed, Ends, Admit, busVars, txVars
<1>8. QED
  BY <1>3, <1>4, <1>5, <1>6, <1>7 DEF J2534Inv, DeskOk, Rest

\* The worker's answer: a frame it reports sent went out before.
LEMMA ReportKeeps == ASSUME J2534Inv, Report PROVE J2534Inv'
<1>1. DeskOk(Desk) /\ Desk \in DeskType
  BY DEF J2534Inv, DeskOk, Rest
<1>2. /\ pend' = pend /\ rawOut' = rawOut /\ iso' = iso /\ untrue' = untrue /\ rx' = rx
      /\ asked' = asked /\ fcPending' = fcPending /\ job' = job /\ stop' = stop /\ met' = met
      /\ worker \in {"active", "ended"} /\ worker' \in {"ok", "failed"} /\ late' = late
      /\ worker' = "ok" => worker = "ended"
  BY DEF Report, txVars, rxVars, jobVars
<1>3. Desk' \in DeskType
  <2>1. /\ pend' \in PendType /\ worker' \in States /\ late' \in BOOLEAN /\ raw' \in BOOLEAN
        /\ rawOut' \in BOOLEAN /\ iso' \in IsoType /\ untrue' \in BOOLEAN
        /\ cursor' \in {"raw", "iso"} /\ rx' \in {"idle", "confirm", "cf"}
        /\ asked' \in BOOLEAN /\ fcPending' \in BOOLEAN /\ job' \in JobType
        /\ clock' \in {"within", "due"} /\ linkDown' \in BOOLEAN
    BY <1>1, <1>2, DeskTypedNow DEF Report, txVars, rxVars, jobVars, States
  <2>2. QED
    BY <2>1, DeskTypedNext
<1>4. (MailOk(Desk) /\ RawOk(Desk) /\ FlowOk(Desk))'
  BY <1>1, <1>2, DeskNow, DeskNext DEF DeskOk, Rest, MailOk, RawOk, FlowOk, Gone
<1>5. IsoOk(Desk)'
  BY <1>1, <1>2, DeskNow, DeskNext DEF DeskOk, IsoOk, Gone
<1>6. (JobOk(Desk) /\ MetOk(Desk) /\ StopOk(Desk))'
  BY <1>1, <1>2, DeskNow, DeskNext DEF DeskOk, Rest, JobOk, MetOk, StopOk
<1>7. Heard' /\ Placed'
  BY <1>2 DEF J2534Inv, Heard, Placed, Ends, Report, busVars, txVars
<1>8. QED
  BY <1>3, <1>4, <1>5, <1>6, <1>7 DEF J2534Inv, DeskOk, Rest

\* A mark from before the newest copy is no longer within its interval.
LEMMA AgedMark ==
  ASSUME NEW when \in Marks
  PROVE  Aged(when) \in Marks /\ Aged(when) # "within" /\ (Aged(when) = "old") = (when = "old")
BY DEF Aged, Marks

\* The frame that ends begins the interval: what was received before is not
\* within it, and what must still be read must still be.
LEMMA FrameOutKeeps == ASSUME J2534Inv, FrameOut PROVE J2534Inv'
<1> DEFINE own(kind) == pend.kind = kind /\ pend.own /\ pend.current
           k == [job EXCEPT !.match = Aged(@), !.known = FALSE]
           q == [i \in DOMAIN rxq |-> [rxq[i] EXCEPT !.when = Aged(@)]]
<1>1. DeskOk(Desk) /\ Desk \in DeskType
  BY DEF J2534Inv, DeskOk, Rest
<1>2. /\ pend' = pend /\ untrue' = untrue /\ rx' = rx /\ fcPending' = fcPending
      /\ stop' = stop /\ worker = "active" /\ worker' = "ended" /\ late' = late
      /\ raw' = raw /\ cursor' = cursor /\ linkDown' = linkDown
      /\ rawOut' = (rawOut \/ own("message")) /\ asked' = (asked \/ own("fc"))
      /\ iso' = IF own("isotp") THEN [iso EXCEPT !.out = @ + 1] ELSE iso
  BY DEF FrameOut
<1>3. IF own("job")
      THEN clock' = "within" /\ met' = FALSE /\ job' = k /\ rxq' = q
      ELSE clock' = clock /\ met' = met /\ job' = job /\ rxq' = rxq
  BY DEF FrameOut
<1>4. pend \in PendType /\ iso \in IsoType /\ job \in JobType /\ rawOut \in BOOLEAN
      /\ asked \in BOOLEAN
  BY <1>1, DeskTypedNow
<1>5. /\ k \in JobType /\ k.kind = job.kind /\ k.active = job.active
      /\ k.pending = job.pending /\ k.match # "within" /\ ~k.known
      /\ k.matched = job.matched /\ k.sent = job.sent
  BY <1>4, AgedMark DEF JobType
<1>6. /\ iso' \in IsoType /\ iso'.st = iso.st /\ iso'.next = iso.next /\ iso'.size = iso.size
      /\ iso'.out = IF own("isotp") THEN iso.out + 1 ELSE iso.out
  <2>1. iso' \in IsoType
    BY <1>2, <1>4, IsoMoves
  <2>2. QED
    BY <1>2, <1>4, <2>1 DEF IsoType
<1> HIDE DEF k
<1>7. (rawOut \/ own("message")) \in BOOLEAN /\ (asked \/ own("fc")) \in BOOLEAN
  BY <1>4 DEF PendType
<1>8. Desk' \in DeskType
  <2>1. /\ pend' \in PendType /\ worker' \in States /\ late' \in BOOLEAN /\ raw' \in BOOLEAN
        /\ untrue' \in BOOLEAN /\ cursor' \in {"raw", "iso"}
        /\ rx' \in {"idle", "confirm", "cf"} /\ fcPending' \in BOOLEAN
        /\ linkDown' \in BOOLEAN
    BY <1>1, <1>2, DeskTypedNow DEF States
  <2>2. rawOut' \in BOOLEAN /\ asked' \in BOOLEAN
    BY <1>2, <1>7
  <2>3. job' \in JobType /\ clock' \in {"within", "due"}
    BY <1>1, <1>3, <1>5, DeskTypedNow
  <2>4. QED
    BY <1>6, <2>1, <2>2, <2>3, DeskTypedNext
<1>9. MailOk(Desk)' /\ RawOk(Desk)' /\ FlowOk(Desk)'
  BY <1>1, <1>2, <1>4, DeskNow, DeskNext
  DEF DeskOk, Rest, MailOk, RawOk, FlowOk, Gone, Settles, PendType
<1>10. IsoOk(Desk)'
  <2>1. IsoOk(Desk) /\ iso.next \in Nat /\ iso.size \in Nat /\ iso.out \in Nat
    BY <1>1, <1>4 DEF DeskOk, IsoType
  <2>2. CASE own("isotp")
    <3>1. iso.st = "confirm" /\ iso'.out = iso.next
      BY <1>2, <1>6, <2>1, <2>2, DeskNow DEF IsoOk
    <3>2. QED
      BY <1>2, <1>6, <2>1, <3>1, DeskNow, DeskNext DEF IsoOk, Gone
  <2>3. CASE ~own("isotp")
    <3>1. iso.st # "confirm"
      BY <2>1, <2>3, DeskNow DEF IsoOk, Settles
    <3>2. QED
      BY <1>2, <1>6, <2>1, <2>3, <3>1, DeskNow, DeskNext DEF IsoOk, Gone
  <2>4. QED
    BY <2>2, <2>3
<1>11. (JobOk(Desk) /\ MetOk(Desk) /\ StopOk(Desk))'
  <2>1. CASE own("job")
    BY <1>1, <1>2, <1>3, <1>5, <2>1, DeskNow, DeskNext
    DEF DeskOk, Rest, JobOk, MetOk, StopOk, Over
  <2>2. CASE ~own("job")
    BY <1>1, <1>2, <1>3, <2>2, DeskNow, DeskNext
    DEF DeskOk, Rest, JobOk, MetOk, StopOk, Over
  <2>3. QED
    BY <2>1, <2>2
<1>12. /\ rxq \in Seq(Hearing) /\ Len(rxq) <= RxLen
       /\ lost' = lost /\ full' = full /\ down' = down /\ drained' = drained
       /\ pc' = pc /\ work' = work
  BY DEF J2534Inv, Placed, FrameOut
<1>13. \A i \in DOMAIN rxq :
         /\ [rxq[i] EXCEPT !.when = Aged(@)] \in Hearing
         /\ [rxq[i] EXCEPT !.when = Aged(@)].kind = rxq[i].kind
         /\ [rxq[i] EXCEPT !.when = Aged(@)].when # "within"
         /\ ([rxq[i] EXCEPT !.when = Aged(@)].when = "old") = (rxq[i].when = "old")
  <2>1. TAKE i \in DOMAIN rxq
  <2>2. rxq[i] \in Hearing
    BY <1>12
  <2>3. rxq[i].when \in Marks
    BY <2>2 DEF Hearing
  <2>4. QED
    BY <2>2, <2>3, AgedMark DEF Hearing
<1>14. /\ q \in Seq(Hearing) /\ Len(q) = Len(rxq) /\ DOMAIN q = DOMAIN rxq
       /\ \A i \in DOMAIN rxq : /\ q[i].kind = rxq[i].kind /\ q[i].when # "within"
                                /\ (q[i].when = "old") = (rxq[i].when = "old")
  <2>1. DOMAIN rxq = 1..Len(rxq) /\ Len(rxq) \in Nat
    BY <1>12
  <2>2. q \in [1..Len(rxq) -> Hearing]
    BY <1>13, <2>1
  <2>3. q \in Seq(Hearing) /\ Len(q) = Len(rxq) /\ DOMAIN q = DOMAIN rxq
    BY <2>1, <2>2
  <2>4. QED
    BY <1>13, <2>3
<1> HIDE DEF q
<1>15. Heard'
  <2>1. CASE own("job")
    BY <1>2, <1>3, <1>5, <1>12, <1>14, <2>1 DEF J2534Inv, Heard, Ends, Over
  <2>2. CASE ~own("job")
    BY <1>2, <1>3, <1>12, <2>2 DEF J2534Inv, Heard, Ends, Over
  <2>3. QED
    BY <2>1, <2>2
<1>16. Placed'
  <2>1. /\ rxq' \in Seq(Hearing) /\ Len(rxq') <= RxLen /\ met' \in BOOLEAN
    BY <1>3, <1>12, <1>14 DEF J2534Inv, Placed
  <2>2. QED
    BY <1>2, <1>12, <2>1 DEF J2534Inv, Placed
<1>17. QED
  BY <1>8, <1>9, <1>10, <1>11, <1>15, <1>16 DEF J2534Inv, DeskOk, Rest

\* Receptions and time change nothing of the channels but what they mean to the job.
LEMMA SameDesk ==
  ASSUME J2534Inv, UNCHANGED <<pend, worker, txVars, rxVars, job, linkDown>>,
         late' \in BOOLEAN, clock' \in {"within", "due"}
  PROVE  /\ Desk' \in DeskType
         /\ (MailOk(Desk) /\ RawOk(Desk) /\ FlowOk(Desk) /\ IsoOk(Desk) /\ JobOk(Desk))'
<1>1. DeskOk(Desk) /\ Desk \in DeskType
  BY DEF J2534Inv, DeskOk, Rest
<1>2. /\ pend' = pend /\ worker' = worker /\ raw' = raw /\ rawOut' = rawOut /\ iso' = iso
      /\ untrue' = untrue /\ cursor' = cursor /\ rx' = rx /\ asked' = asked
      /\ fcPending' = fcPending /\ job' = job /\ linkDown' = linkDown
  BY DEF txVars, rxVars
<1>3. Desk' \in DeskType
  BY <1>1, <1>2, DeskTypedNow, DeskTypedNext
<1>4. (MailOk(Desk) /\ RawOk(Desk) /\ FlowOk(Desk) /\ IsoOk(Desk))'
  BY <1>1, <1>2, DeskNow, DeskNext DEF DeskOk, Rest, MailOk, RawOk, FlowOk, IsoOk
<1>5. JobOk(Desk)'
  BY <1>1, <1>2, DeskNow, DeskNext DEF DeskOk, Rest, JobOk
<1>6. QED
  BY <1>3, <1>4, <1>5

\* What ends a repeat makes a copy that is not yet admitted late, and is there to be read.
LEMMA HearKeeps ==
  ASSUME J2534Inv, NEW kind \in {"match", "single", "first", "next", "flow"}, Hear(kind)
  PROVE  J2534Inv'
<1> DEFINE m == [kind |-> kind, when |-> IF Repeat /\ job.active THEN clock ELSE "old"]
<1>1. /\ DeskOk(Desk) /\ Desk \in DeskType /\ Heard /\ Placed
      /\ clock \in {"within", "due"} /\ late \in BOOLEAN /\ pend \in PendType /\ job \in JobType
  BY DeskTypedNow DEF J2534Inv, DeskOk, Rest
<1>2. /\ rxq' = Append(rxq, m) /\ Len(rxq) < RxLen
      /\ late' = (late \/ Unadmitted) /\ stop' = (stop \/ (job.active /\ Ends(kind)))
      /\ met' = (met \/ (job.kind = "while" /\ kind = "match" /\ clock = "within"))
      /\ pend' = pend /\ worker' = worker /\ job' = job /\ clock' = clock /\ lost' = lost
      /\ UNCHANGED <<pend, worker, txVars, rxVars, job, linkDown>>
  BY DEF Hear
<1>3. late' \in BOOLEAN /\ stop' \in BOOLEAN /\ met' \in BOOLEAN
  <2>1. (late \/ Unadmitted) \in BOOLEAN
    BY <1>1 DEF Unadmitted, Checks, Repeat
  <2>2. (stop \/ (job.active /\ Ends(kind))) \in BOOLEAN
    BY <1>1 DEF Placed, Ends, JobType
  <2>3. (met \/ (job.kind = "while" /\ kind = "match" /\ clock = "within")) \in BOOLEAN
    BY <1>1 DEF Placed
  <2>4. QED
    BY <1>2, <2>1, <2>2, <2>3
<1>4. /\ Desk' \in DeskType
      /\ (MailOk(Desk) /\ RawOk(Desk) /\ FlowOk(Desk) /\ IsoOk(Desk) /\ JobOk(Desk))'
  BY <1>1, <1>2, <1>3, SameDesk
<1>5. MetOk(Desk)'
  BY <1>1, <1>2, DeskNow, DeskNext DEF DeskOk, Rest, MetOk
<1>6. StopOk(Desk)'
  BY <1>1, <1>2, DeskNow, DeskNext
  DEF DeskOk, Rest, StopOk, Ends, Unadmitted, Checks, Repeat
<1>7. m \in Hearing /\ m.kind = kind
      /\ m.when = IF Repeat /\ job.active THEN clock ELSE "old"
  BY <1>1 DEF Hearing, Marks
<1> HIDE DEF m
<1>8. /\ rxq \in Seq(Hearing) /\ Len(rxq) \in Nat
      /\ rxq' \in Seq(Hearing) /\ Len(rxq') = Len(rxq) + 1 /\ DOMAIN rxq' = 1..(Len(rxq) + 1)
      /\ DOMAIN rxq = 1..Len(rxq)
      /\ rxq'[Len(rxq) + 1] = m /\ \A i \in 1..Len(rxq) : rxq'[i] = rxq[i]
  BY <1>1, <1>2, <1>7 DEF Placed
<1>9. Heard'
  <2>1. ASSUME job'.active, stop'
        PROVE  lost' \/ \E i \in DOMAIN rxq' : rxq'[i].when # "old" /\ Ends(rxq'[i].kind)
    <3>1. CASE stop
      <4>1. lost \/ \E i \in DOMAIN rxq : rxq[i].when # "old" /\ Ends(rxq[i].kind)
        BY <1>1, <1>2, <2>1, <3>1 DEF Heard
      <4>2. \A i \in DOMAIN rxq : i \in DOMAIN rxq' /\ rxq'[i] = rxq[i]
        BY <1>8
      <4>3. QED
        BY <1>2, <4>1, <4>2
    <3>2. CASE job.active /\ Ends(kind)
      <4>1. m.when # "old" /\ Ends(m.kind) /\ Len(rxq) + 1 \in DOMAIN rxq'
        BY <1>1, <1>2, <1>7, <1>8, <3>2 DEF Ends, Repeat
      <4>2. QED
        BY <1>8, <4>1
    <3>3. QED
      BY <1>2, <2>1, <3>1, <3>2
  <2>2. ASSUME job'.active, job'.kind = "while", NEW i \in DOMAIN rxq',
               rxq'[i].kind = "match", rxq'[i].when = "within"
        PROVE  met'
    <3>1. CASE i \in 1..Len(rxq)
      BY <1>1, <1>2, <1>8, <2>2, <3>1 DEF Heard
    <3>2. CASE i = Len(rxq) + 1
      BY <1>1, <1>2, <1>7, <1>8, <2>2, <3>2
    <3>3. QED
      BY <1>8, <2>2, <3>1, <3>2
  <2>3. Over(job') => ~stop'
    BY <1>1, <1>2 DEF Heard, Over
  <2>4. QED
    BY <1>2, <2>1, <2>2, <2>3 DEF Heard, Ends
<1>10. Placed'
  <2>1. Len(rxq') <= RxLen
    BY <1>2, <1>8, J2534Assumption
  <2>2. QED
    BY <1>1, <1>3, <1>8, <2>1 DEF Placed, Hear, txVars
<1>11. QED
  BY <1>4, <1>5, <1>6, <1>9, <1>10 DEF J2534Inv, DeskOk, Rest

\* A lost reception may have been what ends the job.
LEMMA LoseKeeps == ASSUME J2534Inv, Lose PROVE J2534Inv'
<1>1. /\ DeskOk(Desk) /\ Desk \in DeskType /\ Heard /\ Placed
      /\ clock \in {"within", "due"} /\ late \in BOOLEAN
  BY DeskTypedNow DEF J2534Inv, DeskOk, Rest
<1>2. /\ lost' = TRUE /\ late' = (late \/ Unadmitted) /\ stop' = TRUE /\ Repeat /\ job.active
      /\ pend' = pend /\ worker' = worker /\ job' = job /\ clock' = clock /\ met' = met
      /\ rxq' = rxq /\ UNCHANGED <<pend, worker, txVars, rxVars, job, linkDown>>
  BY DEF Lose
<1>3. late' \in BOOLEAN
  <2>1. (late \/ Unadmitted) \in BOOLEAN
    BY <1>1 DEF Unadmitted, Checks, Repeat
  <2>2. QED
    BY <1>2, <2>1
<1>4. /\ Desk' \in DeskType
      /\ (MailOk(Desk) /\ RawOk(Desk) /\ FlowOk(Desk) /\ IsoOk(Desk) /\ JobOk(Desk))'
  BY <1>1, <1>2, <1>3, SameDesk
<1>5. (MetOk(Desk) /\ StopOk(Desk))'
  BY <1>1, <1>2, DeskNow, DeskNext
  DEF DeskOk, Rest, MetOk, StopOk, Unadmitted, Checks, Repeat
<1>6. Heard'
  BY <1>1, <1>2 DEF Heard, Over
<1>7. Placed'
  BY <1>1, <1>2 DEF Placed, Lose, txVars
<1>8. QED
  BY <1>4, <1>5, <1>6, <1>7 DEF J2534Inv, DeskOk, Rest

\* A controller that goes off, time, a poll that begins, and nothing at all.
Elsewhere ==
  /\ UNCHANGED <<sent, txVars, rxVars, job, stop, met, rxq, lost, linkDown, drained>>
  /\ pc' \in {"idle", "rx", "choose", "collect"} /\ work' \in {"poll", "clear", "bus_on"}
  /\ clock' \in {"within", "due"} /\ down' \in BOOLEAN
\* Nothing the invariant speaks of changes.
LEMMA ElsewhereKeeps == ASSUME J2534Inv, Elsewhere PROVE J2534Inv'
<1>1. /\ DeskOk(Desk) /\ Desk \in DeskType /\ Heard /\ Placed /\ late \in BOOLEAN
  BY DeskTypedNow DEF J2534Inv, DeskOk, Rest
<1>2. /\ pend' = pend /\ worker' = worker /\ late' = late /\ job' = job /\ met' = met
      /\ stop' = stop /\ lost' = lost /\ rxq' = rxq
      /\ UNCHANGED <<pend, worker, txVars, rxVars, job, linkDown>>
  BY DEF Elsewhere, sent
<1>3. /\ Desk' \in DeskType
      /\ (MailOk(Desk) /\ RawOk(Desk) /\ FlowOk(Desk) /\ IsoOk(Desk) /\ JobOk(Desk))'
  BY <1>1, <1>2, SameDesk DEF Elsewhere
<1>4. (MetOk(Desk) /\ StopOk(Desk))'
  BY <1>1, <1>2, DeskNow, DeskNext DEF DeskOk, Rest, MetOk, StopOk
<1>5. Heard'
  BY <1>1, <1>2 DEF Heard, Ends
<1>6. Placed'
  BY <1>1, <1>2 DEF Placed, Elsewhere, txVars
<1>7. QED
  BY <1>3, <1>4, <1>5, <1>6 DEF J2534Inv, DeskOk, Rest

\* BUS_OFF, time, the polls requests begin, and stuttering.
LEMMA RestKeeps ==
  ASSUME J2534Inv, BusOff \/ IntervalEnds \/ ClearRx \/ BusOn \/ UNCHANGED vars
  PROVE  J2534Inv'
<1>1. clock \in {"within", "due"} /\ Placed
  BY DeskTypedNow DEF J2534Inv, DeskOk, Rest
<1>2. Elsewhere
  BY <1>1 DEF Elsewhere, Placed, BusOff, IntervalEnds, ClearRx, BusOn, PollFor, vars, sent,
              txVars, rxVars, jobVars, busVars
<1>3. QED
  BY <1>2, ElsewhereKeeps

-------------------------------------------------------------------------------
(* A poll. *)

\* Looking at the worker before the poll and after the choice.
LEMMA CollectKeeps == ASSUME J2534Inv, Collect PROVE J2534Inv'
<1>1. PICK s \in Collected(Desk) : Becomes(s)
  BY DEF Collect
<1>2. Good(s)
  BY <1>1, InvGood, CollectedGood
<1>3. QED
  BY <1>1, <1>2, BecomesInv DEF Collect, J2534Inv, Placed

\* The end of poll_rx().
LEMMA LeaveKeeps == ASSUME J2534Inv, Leave PROVE J2534Inv'
<1>1. work \in {"poll", "clear", "bus_on"}
  BY DEF J2534Inv, Placed
<1>2. Good(Ended(Desk)) /\ Becomes(Ended(Desk))
  BY <1>1, InvGood, EndedGood DEF Leave
<1>3. drained' \in BOOLEAN
  BY DEF Leave, J2534Inv, Placed
<1>4. QED
  BY <1>2, <1>3, BecomesInv DEF Leave, J2534Inv, Placed

\* service_bus(): deadlines first, then one frame for the worker.
LEMMA ChooseKeeps == ASSUME J2534Inv, Choose PROVE J2534Inv'
<1>1. PICK s \in Aging(Desk) :
        LET t == Dropped(s) IN
        IF t.pend.kind # "none" \/ t.linkDown
        THEN Becomes(t) /\ pc' = "idle"
        ELSE (\E u \in Chosen(t) : Becomes(u)) /\ pc' = "collect"
  BY DEF Choose
<1> DEFINE t == Dropped(s)
<1>2. Good(s) /\ Ready(s)
  BY <1>1, InvGood, AgingGood
<1>3. Good(t) /\ Ready(t)
  <2>1. Good(t) /\ t.job = s.job
    BY <1>2, DroppedGood
  <2>2. QED
    BY <1>2, <2>1 DEF Ready
<1>4. Heard
  BY DEF J2534Inv
<1>5. PICK u : Good(u) /\ Becomes(u) /\ pc' \in {"idle", "collect"}
  <2>1. CASE t.pend.kind # "none" \/ t.linkDown
    BY <1>1, <1>3, <2>1
  <2>2. CASE t.pend.kind = "none" /\ ~t.linkDown
    <3>1. PICK u \in Chosen(t) : Becomes(u)
      BY <1>1, <2>2
    <3>2. Good(u)
      <4> HIDE DEF t
      <4>1. QED
        BY <1>3, <1>4, <2>2, <3>1, ChosenGood
    <3>3. QED
      BY <1>1, <2>2, <3>1, <3>2
  <2>3. QED
    BY <2>1, <2>2
<1>6. QED
  BY <1>5, BecomesInv DEF Choose, J2534Inv, Placed

\* What is read is no longer there to be read: the job has heard it.
LEMMA RecvKeeps == ASSUME J2534Inv, Recv PROVE J2534Inv'
<1>1. Heard /\ Placed
  BY DEF J2534Inv
<1>2. /\ rxq \in Seq(Hearing) /\ Len(rxq) \in Nat /\ Len(rxq) <= RxLen
      /\ pc' = pc /\ work' = work /\ full' = full /\ drained' = drained
  BY <1>1 DEF Placed, Recv
<1>3. PICK s \in Collected(Desk) :
        \/ down /\ down' = FALSE /\ Becomes(Down(s)) /\ UNCHANGED <<rxq, lost>>
        \/ /\ ~down /\ rxq # <<>> /\ rxq' = Tail(rxq)
           /\ \E t \in Logical(s, Head(rxq).kind) :
                Becomes([t EXCEPT !.job = Scheduled(@, Head(rxq))])
           /\ UNCHANGED <<lost, down>>
        \/ /\ ~down /\ rxq = <<>> /\ lost /\ lost' = FALSE
           /\ Becomes([s EXCEPT !.job = Unwatched(@)]) /\ UNCHANGED <<rxq, down>>
  BY DEF Recv
<1>4. Good(s)
  BY <1>3, InvGood, CollectedGood
<1>5. CASE down /\ down' = FALSE /\ Becomes(Down(s)) /\ UNCHANGED <<rxq, lost>>
  <2>1. Good(Down(s))
    BY <1>4, DownGood
  <2>2. DeskOk(Desk)'
    BY <1>5, <2>1, GoodFits, BecomesDesk
  <2>3. Heard'
    BY <1>1, <1>5, <2>1, BecomesHeard DEF Good
  <2>4. Placed'
    BY <1>1, <1>2, <1>5 DEF Placed, Becomes
  <2>5. QED
    BY <2>2, <2>3, <2>4 DEF J2534Inv
<1>6. CASE /\ ~down /\ rxq # <<>> /\ rxq' = Tail(rxq)
           /\ \E t \in Logical(s, Head(rxq).kind) :
                Becomes([t EXCEPT !.job = Scheduled(@, Head(rxq))])
           /\ UNCHANGED <<lost, down>>
  <2> DEFINE m == Head(rxq)
  <2>1. /\ 1 \in DOMAIN rxq /\ m = rxq[1] /\ m \in Hearing
        /\ rxq' \in Seq(Hearing) /\ Len(rxq') = Len(rxq) - 1
        /\ DOMAIN rxq = 1..Len(rxq) /\ DOMAIN rxq' = 1..(Len(rxq) - 1)
        /\ \A i \in 1..(Len(rxq) - 1) : rxq'[i] = rxq[i + 1]
    BY <1>2, <1>6
  <2> HIDE DEF m
  <2>2. m.kind \in {"match", "single", "first", "next", "flow"}
    BY <2>1 DEF Hearing
  <2>3. PICK t \in Logical(s, m.kind) : Becomes([t EXCEPT !.job = Scheduled(@, m)])
    BY <1>6 DEF m
  <2> DEFINE r == [t EXCEPT !.job = Scheduled(@, m)]
  <2>4. Good(t)
    BY <1>4, <2>2, <2>3, LogicalGood
  <2>5. job.active /\ job.kind = "while" /\ m.kind = "match" /\ m.when = "within" => met
    BY <1>1, <2>1 DEF Heard
  <2>6. Good(r) /\ (r.job.active /\ m.when # "old" => ~Ends(m.kind))
    BY <2>1, <2>4, <2>5, ScheduledGood
  <2>7. Becomes(r)
    BY <2>3
  <2> HIDE DEF r
  <2>8. DeskOk(Desk)'
    BY <2>6, <2>7, GoodFits, BecomesDesk
  <2>9. /\ job'.kind = job.kind
        /\ job'.active => job.active /\ r.job.active /\ ~Over(r.job)
        /\ Over(job') = Over(r.job)
    BY <2>6, <2>7 DEF Becomes, Good, Mine, Rest, DeskType, NoJob, Over, JobType
  <2>10. stop' = (stop /\ ~Over(r.job)) /\ met' = (met /\ ~Over(r.job)) /\ lost' = lost
    BY <1>6, <2>7 DEF Becomes
  <2>11. Heard'
    <3>1. ASSUME job'.active, stop'
          PROVE  lost' \/ \E i \in DOMAIN rxq' : rxq'[i].when # "old" /\ Ends(rxq'[i].kind)
      <4>1. CASE lost
        BY <2>10, <4>1
      <4>2. CASE ~lost
        <5>1. PICK i \in 1..Len(rxq) : rxq[i].when # "old" /\ Ends(rxq[i].kind)
          BY <1>1, <2>1, <2>9, <2>10, <3>1, <4>2 DEF Heard
        <5>2. i # 1
          BY <2>1, <2>6, <2>9, <3>1, <5>1
        <5>3. i - 1 \in 1..(Len(rxq) - 1) /\ rxq'[i - 1] = rxq[i]
          BY <1>2, <2>1, <5>2
        <5>4. QED
          BY <2>1, <5>1, <5>3
      <4>3. QED
        BY <4>1, <4>2
    <3>2. ASSUME job'.active, job'.kind = "while", NEW i \in DOMAIN rxq',
                 rxq'[i].kind = "match", rxq'[i].when = "within"
          PROVE  met'
      <4>1. i + 1 \in DOMAIN rxq /\ rxq'[i] = rxq[i + 1]
        BY <1>2, <2>1
      <4>2. QED
        BY <1>1, <2>9, <2>10, <3>2, <4>1 DEF Heard
    <3>3. Over(job') => ~stop'
      BY <2>9, <2>10
    <3>4. QED
      BY <2>9, <3>1, <3>2, <3>3 DEF Heard, Ends
  <2>12. Placed'
    <3>1. Len(rxq') <= RxLen
      BY <1>2, <2>1, J2534Assumption
    <3>2. QED
      BY <1>1, <1>2, <1>6, <2>1, <2>10, <3>1 DEF Placed
  <2>13. QED
    BY <2>8, <2>11, <2>12 DEF J2534Inv
<1>7. CASE /\ ~down /\ rxq = <<>> /\ lost /\ lost' = FALSE
           /\ Becomes([s EXCEPT !.job = Unwatched(@)]) /\ UNCHANGED <<rxq, down>>
  <2> DEFINE r == [s EXCEPT !.job = Unwatched(@)]
  <2>1. Good(r) /\ (r.job.active => r.job.kind = "periodic") /\ Becomes(r)
    BY <1>4, <1>7, UnwatchedGood
  <2> HIDE DEF r
  <2>2. DeskOk(Desk)'
    BY <2>1, GoodFits, BecomesDesk
  <2>3. /\ job'.kind = job.kind /\ (job'.active => job.kind = "periodic")
        /\ Over(job') = Over(r.job)
    BY <2>1 DEF Becomes, Good, Mine, Rest, DeskType, NoJob, Over, JobType
  <2>4. stop' = (stop /\ ~Over(r.job)) /\ met' = (met /\ ~Over(r.job)) /\ rxq' = rxq
    BY <1>7, <2>1 DEF Becomes
  <2>5. stop => job.kind \in {"until", "while"}
    BY DeskNow DEF J2534Inv, DeskOk, Rest, StopOk
  <2>6. Heard'
    BY <2>3, <2>4, <2>5 DEF Heard
  <2>7. Placed'
    BY <1>1, <1>2, <1>7, <2>4 DEF Placed
  <2>8. QED
    BY <2>2, <2>6, <2>7 DEF J2534Inv
<1>8. QED
  BY <1>3, <1>5, <1>6, <1>7

-------------------------------------------------------------------------------
(* The requests. *)

\* A request that only changes the channels.
LEMMA AskKeeps == ASSUME J2534Inv, NEW s, Good(s), Ask(s) PROVE J2534Inv'
BY BecomesInv DEF Ask, J2534Inv, Placed

\* A message is queued on the physical channel.
LEMMA QueueRawKeeps == ASSUME J2534Inv, QueueRaw PROVE J2534Inv'
<1> DEFINE s == Desk
           r == [s EXCEPT !.raw = TRUE]
<1>1. Mine(s) /\ IsoOk(s) /\ s \in DeskType
  BY InvGood DEF Good, Mine, Rest
<1> HIDE DEF s
<1>2. r \in DeskType
  BY <1>1 DEF DeskType
<1>3. /\ r.pend = s.pend /\ r.worker = s.worker /\ r.late = s.late
      /\ r.raw = TRUE /\ r.rawOut = s.rawOut /\ r.iso = s.iso
      /\ r.untrue = s.untrue /\ r.cursor = s.cursor /\ r.rx = s.rx
      /\ r.asked = s.asked /\ r.fcPending = s.fcPending /\ r.job = s.job
      /\ r.clock = s.clock /\ r.linkDown = s.linkDown
  BY <1>1 DEF DeskType
<1> HIDE DEF r
<1>4. MailOk(r) /\ RawOk(r) /\ FlowOk(r) /\ IsoOk(r)
  BY <1>1, <1>3 DEF Mine, Rest, MailOk, RawOk, FlowOk, IsoOk
<1>5. JobOk(r) /\ MetOk(r) /\ StopOk(r)
  BY <1>1, <1>3 DEF Mine, Rest, JobOk, MetOk, StopOk
<1>6. Good(r)
  BY <1>1, <1>2, <1>3, <1>4, <1>5 DEF Good, Mine, Rest
<1>7. QED
  BY <1>6, AskKeeps DEF QueueRaw, r, s

\* A segmented message is queued; none of its frames is anywhere.
LEMMA QueueIsoKeeps == ASSUME J2534Inv, NEW n \in IsoFrames, QueueIso(n) PROVE J2534Inv'
<1> DEFINE s == Desk
           i == [NoIso EXCEPT !.st = "queued", !.size = n]
           r == [s EXCEPT !.iso = i]
<1>1. Mine(s) /\ IsoOk(s) /\ s \in DeskType
  BY InvGood DEF Good, Mine, Rest
<1>2. s.iso.st = "none"
  BY DeskNow DEF QueueIso
<1>3. n \in Nat /\ 0 < n
  BY J2534Assumption
<1>4. i \in IsoType /\ i.st = "queued" /\ i.next = 0 /\ i.out = 0 /\ i.size = n
  BY <1>3 DEF IsoType, NoIso
<1> HIDE DEF s, i
<1>5. r \in DeskType
  BY <1>1, <1>4 DEF DeskType
<1>6. /\ r.pend = s.pend /\ r.worker = s.worker /\ r.late = s.late
      /\ r.raw = s.raw /\ r.rawOut = s.rawOut /\ r.iso = i
      /\ r.untrue = s.untrue /\ r.cursor = s.cursor /\ r.rx = s.rx
      /\ r.asked = s.asked /\ r.fcPending = s.fcPending /\ r.job = s.job
      /\ r.clock = s.clock /\ r.linkDown = s.linkDown
  BY <1>1 DEF DeskType
<1> HIDE DEF r
<1>7. MailOk(r) /\ RawOk(r) /\ FlowOk(r)
  BY <1>1, <1>6 DEF Mine, Rest, MailOk, RawOk, FlowOk
<1>8. JobOk(r) /\ MetOk(r) /\ StopOk(r)
  BY <1>1, <1>6 DEF Mine, Rest, JobOk, MetOk, StopOk
<1>9. IsoOk(r)
  BY <1>1, <1>2, <1>3, <1>4, <1>6 DEF IsoOk
<1>10. Good(r)
  BY <1>1, <1>5, <1>6, <1>7, <1>8, <1>9 DEF Good, Mine, Rest
<1>11. QED
  BY <1>10, AskKeeps DEF QueueIso, r, s, i

\* A message taken back can no longer be taken for the one that is queued next.
LEMMA ClearTxRawKeeps ==
  ASSUME J2534Inv, Ask([TakenBack(Desk, {"message", "job"}) EXCEPT
                          !.raw = FALSE, !.rawOut = FALSE])
  PROVE  J2534Inv'
<1> DEFINE s == TakenBack(Desk, {"message", "job"})
           r == [s EXCEPT !.raw = FALSE, !.rawOut = FALSE]
<1>1. Mine(s) /\ IsoOk(s) /\ s \in DeskType
      /\ (s.pend.kind = "message" /\ s.pend.own => ~s.pend.current)
  BY InvGood, TakenBackRest DEF Good, Mine, Rest
<1> HIDE DEF s
<1>2. r \in DeskType
  BY <1>1 DEF DeskType
<1>3. /\ r.pend = s.pend /\ r.worker = s.worker /\ r.late = s.late
      /\ r.raw = FALSE /\ r.rawOut = FALSE /\ r.iso = s.iso
      /\ r.untrue = s.untrue /\ r.cursor = s.cursor /\ r.rx = s.rx
      /\ r.asked = s.asked /\ r.fcPending = s.fcPending /\ r.job = s.job
      /\ r.clock = s.clock /\ r.linkDown = s.linkDown
  BY <1>1 DEF DeskType
<1> HIDE DEF r
<1>4. MailOk(r) /\ RawOk(r) /\ FlowOk(r) /\ IsoOk(r)
  BY <1>1, <1>3 DEF Mine, Rest, MailOk, RawOk, FlowOk, IsoOk
<1>5. JobOk(r) /\ MetOk(r) /\ StopOk(r)
  BY <1>1, <1>3 DEF Mine, Rest, JobOk, MetOk, StopOk
<1>6. Good(r)
  BY <1>1, <1>2, <1>3, <1>4, <1>5 DEF Good, Mine, Rest
<1>7. QED
  BY <1>6, AskKeeps DEF r, s

\* A physical channel that could not be closed.
LEMMA TakeBackKeeps ==
  ASSUME J2534Inv, Ask(TakenBack(Desk, {"message", "job"}))
  PROVE  J2534Inv'
<1> DEFINE s == TakenBack(Desk, {"message", "job"})
<1>1. Good(s)
  BY InvGood, TakenBackRest DEF Good
<1>2. QED
  BY <1>1, AskKeeps

\* CLEAR_TX_BUFFER on the logical channel.
LEMMA ClearTxIsoKeeps == ASSUME J2534Inv, ClearTxIso PROVE J2534Inv'
<1> DEFINE s == TakenBack(Desk, {"isotp", "fc"})
           r == [s EXCEPT !.iso = NoIso]
<1>1. Mine(s) /\ (s.pend.kind = "isotp" /\ s.pend.own => ~s.pend.current)
  BY InvGood, TakenBackRest DEF Good
<1>2. Good(r)
  <2> HIDE DEF s
  <2>1. QED
    BY <1>1, DropIsoGood
<1>3. QED
  BY <1>2, AskKeeps DEF ClearTxIso

\* The reset of the channel; what the worker still had is gone with it.
LEMMA ReconnectKeeps == ASSUME J2534Inv, NEW duplex \in Duplex, Reconnect(duplex) PROVE J2534Inv'
<1> DEFINE s == TakenBack(Desk, {"isotp", "fc"})
           b == s.pend.own /\ pend.kind \notin {"isotp", "fc"}
           p == [s.pend EXCEPT !.own = b]
           r == [s EXCEPT !.iso = NoIso, !.rx = "idle", !.asked = FALSE, !.fcPending = FALSE,
                          !.pend = p]
<1>1. Mine(s) /\ s \in DeskType /\ s.pend \in PendType /\ s.pend.kind = pend.kind
      /\ NoIso \in IsoType
  <2>1. Mine(s) /\ s.pend.kind = Desk.pend.kind
    BY InvGood, TakenBackRest DEF Good
  <2> HIDE DEF s
  <2>2. QED
    BY <2>1, DeskNow DEF Mine, Rest, DeskType, IsoType, NoIso
<1>2. Becomes(r)
  BY <1>1 DEF Reconnect, DeskType, PendType
<1>3. b \in BOOLEAN
  BY <1>1 DEF PendType
<1>4. /\ p \in PendType /\ p.kind = s.pend.kind /\ p.discard = s.pend.discard
      /\ p.confirmed = s.pend.confirmed /\ p.current = s.pend.current
      /\ p.generation = s.pend.generation /\ p.own = b
  <2>1. p \in PendType
    BY <1>1, <1>3, PendMoves
  <2>2. QED
    BY <1>1, <1>3, <2>1 DEF PendType
<1> HIDE DEF s, p
<1>5. r \in DeskType
  BY <1>1, <1>4 DEF DeskType
<1>6. /\ r.pend = p /\ r.worker = s.worker /\ r.late = s.late /\ r.raw = s.raw
      /\ r.rawOut = s.rawOut /\ r.iso = NoIso /\ r.untrue = s.untrue
      /\ r.cursor = s.cursor /\ r.rx = "idle" /\ r.asked = FALSE
      /\ r.fcPending = FALSE /\ r.job = s.job /\ r.clock = s.clock
      /\ r.linkDown = s.linkDown
  BY <1>1 DEF DeskType
<1> HIDE DEF r
<1>7. MailOk(r) /\ RawOk(r) /\ FlowOk(r)
  BY <1>1, <1>4, <1>6 DEF Mine, Rest, MailOk, RawOk, FlowOk, Settles
<1>8. JobOk(r) /\ MetOk(r) /\ StopOk(r)
  BY <1>1, <1>4, <1>6 DEF Mine, Rest, JobOk, MetOk, StopOk
<1>9. IsoOk(r)
  <2>1. r.iso.st = "none" /\ r.iso.next = 0 /\ r.iso.size = 0
    BY <1>6 DEF NoIso
  <2>2. r.pend.kind = "isotp" => ~r.pend.own
    BY <1>1, <1>4, <1>6
  <2>3. QED
    BY <2>1, <2>2 DEF IsoOk
<1>10. Good(r)
  BY <1>1, <1>5, <1>6, <1>7, <1>8, <1>9 DEF Good, Mine, Rest
<1>11. full' \in BOOLEAN
  BY J2534Assumption DEF Reconnect
<1>12. QED
  BY <1>2, <1>10, <1>11, BecomesInv DEF Reconnect, J2534Inv, Placed

\* What is still in the receive queue when a job starts came before it.
LEMMA StartJobKeeps == ASSUME J2534Inv, NEW kind \in JobKinds, StartJob(kind) PROVE J2534Inv'
<1> DEFINE s == Desk
           k == [NoJob EXCEPT !.kind = kind, !.active = TRUE]
           r == [s EXCEPT !.job = k, !.clock = "due"]
           q == [i \in DOMAIN rxq |-> [rxq[i] EXCEPT !.when = "old"]]
<1>1. /\ Mine(s) /\ IsoOk(s) /\ s \in DeskType /\ s.job = job /\ job.kind = "none"
      /\ Heard /\ Placed
  BY InvGood, DeskNow DEF Good, Mine, Rest, StartJob, J2534Inv
<1>2. Becomes(r) /\ rxq' = q
  BY DEF StartJob
<1>3. k \in JobType /\ k.kind = kind /\ k.active /\ ~k.pending /\ ~k.sent /\ ~k.matched
      /\ k.match = "none" /\ k.known /\ kind \in {"periodic", "until", "while"}
  BY J2534Assumption DEF JobType, NoJob, Marks
<1> HIDE DEF s, k
<1>4. Over(job) /\ ~stop
  BY <1>1 DEF Mine, Rest, JobOk, Heard
<1>5. r \in DeskType
  BY <1>1, <1>3 DEF DeskType
<1>6. /\ r.pend = s.pend /\ r.worker = s.worker /\ r.late = s.late
      /\ r.raw = s.raw /\ r.rawOut = s.rawOut /\ r.iso = s.iso
      /\ r.untrue = s.untrue /\ r.cursor = s.cursor /\ r.rx = s.rx
      /\ r.asked = s.asked /\ r.fcPending = s.fcPending /\ r.job = k
      /\ r.clock = "due" /\ r.linkDown = s.linkDown
  BY <1>1 DEF DeskType
<1> HIDE DEF r
<1>7. MailOk(r) /\ RawOk(r) /\ FlowOk(r) /\ IsoOk(r)
  BY <1>1, <1>6 DEF Mine, Rest, MailOk, RawOk, FlowOk, IsoOk
<1>8. ~(s.pend.kind = "job" /\ s.pend.own) /\ ~(s.pend.kind = "job" /\ s.worker = "queued")
  BY <1>1, <1>4 DEF Mine, Rest, JobOk, Over
<1>9. JobOk(r) /\ MetOk(r) /\ StopOk(r)
  BY <1>3, <1>4, <1>6, <1>8 DEF JobOk, MetOk, StopOk, Over
<1>10. DeskOk(Desk)'
  BY <1>2, <1>5, <1>7, <1>9, BecomesDesk DEF Fits
<1>11. /\ q \in Seq(Hearing) /\ Len(q) = Len(rxq)
       /\ \A i \in DOMAIN q : q[i].when = "old"
  <2>1. rxq \in Seq(Hearing) /\ DOMAIN rxq = 1..Len(rxq) /\ Len(rxq) \in Nat
    BY <1>1 DEF Placed
  <2>2. \A i \in 1..Len(rxq) : /\ [rxq[i] EXCEPT !.when = "old"] \in Hearing
                               /\ [rxq[i] EXCEPT !.when = "old"].when = "old"
    <3>1. TAKE i \in 1..Len(rxq)
    <3>2. rxq[i] \in Hearing
      BY <2>1
    <3>3. QED
      BY <3>2 DEF Hearing, Marks
  <2>3. q \in [1..Len(rxq) -> Hearing]
    BY <2>1, <2>2
  <2>4. q \in Seq(Hearing) /\ Len(q) = Len(rxq)
    BY <2>1, <2>3
  <2>5. QED
    BY <2>1, <2>2, <2>4
<1> HIDE DEF q
<1>12. job' = k /\ stop' = FALSE /\ met' \in BOOLEAN
  BY <1>1, <1>2, <1>3, <1>4, <1>6 DEF Becomes, Over, Placed
<1>13. Heard'
  BY <1>2, <1>3, <1>11, <1>12 DEF Heard, Over
<1>14. Placed'
  BY <1>1, <1>2, <1>11, <1>12 DEF Placed, StartJob
<1>15. QED
  BY <1>10, <1>13, <1>14 DEF J2534Inv

\* A job that is stopped leaves nothing the next one could be answered by.
LEMMA StopJobKeeps == ASSUME J2534Inv, StopJob PROVE J2534Inv'
<1> DEFINE s == TakenBack(Desk, {"job"})
           b == s.pend.own /\ pend.kind # "job"
           p == [s.pend EXCEPT !.own = b]
           r == [s EXCEPT !.job = NoJob, !.clock = "due", !.pend = p]
<1>1. /\ Mine(s) /\ IsoOk(s) /\ s \in DeskType /\ s.pend \in PendType
      /\ s.pend.kind = pend.kind
      /\ s.pend.kind = "job" /\ s.pend.own => s.worker # "queued"
  <2>1. /\ Mine(s) /\ s.pend.kind = Desk.pend.kind /\ IsoOk(s)
        /\ s.pend.kind = "job" /\ s.pend.own => s.worker # "queued"
    BY InvGood, TakenBackRest DEF Good
  <2> HIDE DEF s
  <2>2. QED
    BY <2>1, DeskNow DEF Mine, Rest, DeskType
<1>2. Becomes(r) /\ pc = "idle" /\ UNCHANGED <<pc, work, full, busVars, drained>>
  BY <1>1 DEF StopJob, Ask, DeskType, PendType
<1>3. b \in BOOLEAN
  BY <1>1 DEF PendType
<1>4. /\ p \in PendType /\ p.kind = s.pend.kind /\ p.discard = s.pend.discard
      /\ p.confirmed = s.pend.confirmed /\ p.current = s.pend.current
      /\ p.generation = s.pend.generation /\ p.own = b
  <2>1. p \in PendType
    BY <1>1, <1>3, PendMoves
  <2>2. QED
    BY <1>1, <1>3, <2>1 DEF PendType
<1>5. NoJob \in JobType /\ NoJob.kind = "none" /\ ~NoJob.active /\ ~NoJob.pending
  BY DEF JobType, NoJob, Marks
<1> HIDE DEF s, p
<1>6. r \in DeskType
  BY <1>1, <1>4, <1>5 DEF DeskType
<1>7. /\ r.pend = p /\ r.worker = s.worker /\ r.late = s.late /\ r.raw = s.raw
      /\ r.rawOut = s.rawOut /\ r.iso = s.iso /\ r.untrue = s.untrue
      /\ r.cursor = s.cursor /\ r.rx = s.rx /\ r.asked = s.asked
      /\ r.fcPending = s.fcPending /\ r.job = NoJob /\ r.clock = "due"
      /\ r.linkDown = s.linkDown
  BY <1>1 DEF DeskType
<1> HIDE DEF r
<1>8. MailOk(r) /\ RawOk(r) /\ FlowOk(r) /\ IsoOk(r)
  <2>1. /\ r.pend.kind = s.pend.kind /\ r.pend.current = s.pend.current
        /\ r.pend.discard = s.pend.discard /\ r.pend.generation = s.pend.generation
        /\ (s.pend.kind # "job" => r.pend = s.pend)
    BY <1>1, <1>4, <1>7 DEF PendType
  <2>2. MailOk(r) /\ RawOk(r)
    BY <1>1, <1>7, <2>1 DEF Mine, Rest, MailOk, RawOk
  <2>3. FlowOk(r)
    BY <1>1, <1>7, <2>1 DEF Mine, Rest, FlowOk
  <2>4. IsoOk(r)
    BY <1>1, <1>7, <2>1 DEF IsoOk
  <2>5. QED
    BY <2>2, <2>3, <2>4
<1>9. r.pend.kind = "job" => ~r.pend.own /\ r.worker # "queued"
  BY <1>1, <1>4, <1>7 DEF Mine, Rest, JobOk
<1>10. JobOk(r) /\ Over(r.job)
  BY <1>5, <1>7, <1>9 DEF JobOk, Over
<1>11. DeskOk(Desk)'
  BY <1>2, <1>6, <1>8, <1>10, BecomesDesk DEF Fits
<1>12. /\ stop' = FALSE /\ met' = FALSE /\ ~job'.active
       /\ rxq' = rxq /\ lost' = lost /\ down' = down
  BY <1>2, <1>5, <1>7, <1>10 DEF Becomes, busVars, NoJob
<1>13. Heard'
  BY <1>12 DEF Heard
<1>14. Placed'
  BY <1>2, <1>12 DEF J2534Inv, Placed
<1>15. QED
  BY <1>11, <1>13, <1>14 DEF J2534Inv

\* A channel with nothing on it.
LEMMA FreshDesk ==
  ASSUME pend' = NoPend, worker' = "none", late' = FALSE, raw' = FALSE, rawOut' = FALSE,
         iso' = NoIso, cursor' = "raw", untrue' = FALSE, rx' = "idle", asked' = FALSE,
         fcPending' = FALSE, job' = NoJob, clock' = "due", stop' = FALSE, linkDown' = FALSE
  PROVE  DeskOk(Desk)'
<1>1. Desk' \in DeskType
  <2>1. NoPend \in PendType /\ NoIso \in IsoType /\ NoJob \in JobType
    BY DEF PendType, NoPend, Kinds, IsoType, NoIso, JobType, NoJob, Marks
  <2>2. QED
    BY <2>1, DeskTypedNext DEF States
<1>2. /\ NoPend.kind = "none" /\ ~NoPend.own /\ NoIso.st = "none" /\ NoIso.next = 0
      /\ NoIso.size = 0 /\ NoJob.kind = "none" /\ ~NoJob.active /\ ~NoJob.pending
  BY DEF NoPend, NoIso, NoJob
<1>3. (MailOk(Desk) /\ RawOk(Desk) /\ FlowOk(Desk) /\ IsoOk(Desk))'
  BY <1>2, DeskNext DEF MailOk, RawOk, FlowOk, IsoOk
<1>4. (JobOk(Desk) /\ MetOk(Desk) /\ StopOk(Desk))'
  BY <1>2, DeskNext DEF JobOk, MetOk, StopOk, Over
<1>5. QED
  BY <1>1, <1>3, <1>4 DEF DeskOk, Rest

\* disconnect_channel(), closed or not.
LEMMA DisconnectKeeps == ASSUME J2534Inv, Disconnect PROVE J2534Inv'
<1>1. CASE Ask(TakenBack(Desk, {"message", "job"}))
  BY <1>1, TakeBackKeeps
<1>2. CASE ~Ask(TakenBack(Desk, {"message", "job"}))
  <2>1. /\ pc' = pc /\ work' = work /\ full' = full /\ stop' = FALSE /\ met' = FALSE
        /\ rxq' = <<>> /\ lost' = FALSE /\ down' = FALSE /\ drained' = FALSE
        /\ job' = NoJob /\ untrue' = untrue
    BY <1>2 DEF Disconnect
  <2>2. ~untrue
    BY DeskNow DEF J2534Inv, DeskOk, Rest, RawOk
  <2>3. untrue' = FALSE
    BY <2>1, <2>2, DeskTypedNow DEF J2534Inv, DeskOk, Rest
  <2>4. DeskOk(Desk)'
    BY <1>2, <2>3, FreshDesk DEF Disconnect
  <2>5. Heard'
    BY <2>1 DEF Heard, NoJob
  <2>6. Placed'
    <3>1. rxq' \in Seq(Hearing) /\ Len(rxq') <= RxLen
      BY <2>1, J2534Assumption
    <3>2. QED
      BY <2>1, <3>1 DEF J2534Inv, Placed
  <2>7. QED
    BY <2>4, <2>5, <2>6 DEF J2534Inv
<1>3. QED
  BY <1>1, <1>2

-------------------------------------------------------------------------------
(* The theorems. *)

\* A channel that was just connected has nothing to wait for.
LEMMA InitJ2534 == ASSUME Init PROVE J2534Inv
<1>1. /\ pc = "idle" /\ work = "poll" /\ pend = NoPend /\ worker = "none" /\ late = FALSE
      /\ raw = FALSE /\ rawOut = FALSE /\ iso = NoIso /\ untrue = FALSE /\ cursor = "raw"
      /\ rx = "idle" /\ asked = FALSE /\ fcPending = FALSE
      /\ job = NoJob /\ clock = "due" /\ stop = FALSE /\ met = FALSE
      /\ rxq = <<>> /\ lost = FALSE /\ down = FALSE /\ drained = FALSE /\ linkDown = FALSE
      /\ full \in BOOLEAN
  BY J2534Assumption DEF Init, Fresh
<1>2. Desk \in DeskType
  <2>1. NoPend \in PendType /\ NoIso \in IsoType /\ NoJob \in JobType
    BY DEF PendType, NoPend, Kinds, IsoType, NoIso, JobType, NoJob, Marks
  <2>2. QED
    BY <1>1, <2>1 DEF Desk, DeskType, States
<1>3. /\ NoPend.kind = "none" /\ ~NoPend.own /\ NoIso.st = "none" /\ NoIso.next = 0
      /\ NoIso.size = 0 /\ NoJob.kind = "none" /\ ~NoJob.active /\ ~NoJob.pending
  BY DEF NoPend, NoIso, NoJob
<1>4. MailOk(Desk) /\ RawOk(Desk) /\ FlowOk(Desk) /\ IsoOk(Desk)
  BY <1>1, <1>3, DeskNow DEF MailOk, RawOk, FlowOk, IsoOk
<1>5. JobOk(Desk) /\ MetOk(Desk) /\ StopOk(Desk)
  BY <1>1, <1>3, DeskNow DEF JobOk, MetOk, StopOk, Over
<1>6. Heard
  BY <1>1, <1>3 DEF Heard
<1>7. Placed
  <2>1. rxq \in Seq(Hearing) /\ Len(rxq) <= RxLen
    BY <1>1, J2534Assumption
  <2>2. QED
    BY <1>1, <2>1 DEF Placed
<1>8. QED
  BY <1>2, <1>4, <1>5, <1>6, <1>7 DEF J2534Inv, DeskOk, Rest

\* Every step of the front-end, the worker and the bus keeps the invariant.
LEMMA StepKeeps == ASSUME J2534Inv, [Next]_vars PROVE J2534Inv'
<1>1. CASE Requests
  <2>1. CASE QueueRaw
    BY <2>1, QueueRawKeeps
  <2>2. CASE \E n \in IsoFrames : QueueIso(n)
    BY <2>2, QueueIsoKeeps
  <2>3. CASE ClearTxRaw
    BY <2>3, ClearTxRawKeeps DEF ClearTxRaw
  <2>4. CASE ClearTxIso
    BY <2>4, ClearTxIsoKeeps
  <2>5. CASE \E kind \in JobKinds : StartJob(kind)
    BY <2>5, StartJobKeeps
  <2>6. CASE StopJob
    BY <2>6, StopJobKeeps
  <2>7. CASE ClearRx \/ BusOn
    BY <2>7, RestKeeps
  <2>8. CASE \E duplex \in Duplex : Reconnect(duplex)
    BY <2>8, ReconnectKeeps
  <2>9. CASE Disconnect
    BY <2>9, DisconnectKeeps
  <2>10. QED
    BY <1>1, <2>1, <2>2, <2>3, <2>4, <2>5, <2>6, <2>7, <2>8, <2>9 DEF Requests
<1>2. CASE Poll
  BY <1>2, RecvKeeps, LeaveKeeps, ChooseKeeps, CollectKeeps DEF Poll
<1>3. CASE Worker
  BY <1>3, AdmitKeeps, FrameOutKeeps, ReportKeeps DEF Worker
<1>4. CASE Bus
  BY <1>4, HearKeeps, LoseKeeps, RestKeeps DEF Bus
<1>5. CASE UNCHANGED vars
  BY <1>5, RestKeeps
<1>6. QED
  BY <1>1, <1>2, <1>3, <1>4, <1>5 DEF Next

\* Whatever is queued, cleared, reconnected or timed out while service_bus() waits for
\* the worker: the frame with the worker is still its own message's or can no longer
\* be taken for one, and a scheduled message has been told what the bus showed.
THEOREM J2534Holds == Spec => []J2534Inv
<1>1. Init => J2534Inv
  BY InitJ2534
<1>2. J2534Inv /\ [Next]_vars => J2534Inv'
  BY StepKeeps
<1>3. QED
  BY <1>1, <1>2, PTL DEF Spec

\* finish_bus_tx() never answers a message with another one's frame: what the client
\* is told was sent went out.
THEOREM SentMeansSent == Spec => []AnswersAreTrue
<1>1. J2534Inv => AnswersAreTrue
  <2> SUFFICES ASSUME J2534Inv PROVE AnswersAreTrue
    OBVIOUS
  <2>1. DeskOk(Desk) /\ Desk \in DeskType /\ Placed
    BY DEF J2534Inv, DeskOk, Rest
  <2>2. ~untrue /\ (pend.kind = "none") = (worker = "none") /\ iso.next <= iso.size
    BY <2>1, DeskNow DEF DeskOk, Rest, RawOk, MailOk, IsoOk
  <2>3. /\ pend \in PendType /\ worker \in States /\ iso \in IsoType /\ job \in JobType
        /\ rx \in {"idle", "confirm", "cf"} /\ clock \in {"within", "due"}
    BY <2>1, DeskTypedNow
  <2>4. pend.kind \in Kinds /\ iso.st \in {"none", "queued", "confirm", "fc", "cf"}
        /\ job.kind \in JobKinds \cup {"none"}
    BY <2>3 DEF PendType, IsoType, JobType
  <2>5. QED
    BY <2>1, <2>2, <2>3, <2>4 DEF AnswersAreTrue, J2534TypeOK, Placed, Kinds, States
<1>2. QED
  BY <1>1, J2534Holds, PTL

\* isotp_rx_confirm() opens a wait for consecutive frames only with the flow control of
\* that very wait on the bus, also when an older one is confirmed late.
THEOREM FlowTheorem == Spec => []FlowControlIsOwn
<1>1. J2534Inv => FlowControlIsOwn
  BY DeskNow DEF J2534Inv, DeskOk, Rest, FlowOk, FlowControlIsOwn
<1>2. QED
  BY <1>1, J2534Holds, PTL

\* bus_tx_admit() lets no copy of a repeated message out that the bus, or its client,
\* has ended, whoever read what and when: BUS_TX_CHECK_RX and j2534_schedule_expire()
\* leave no gap between a reception and the copy it forbids.
THEOREM RepeatTheorem == Spec => RepeatStops
<1>1. J2534Inv /\ [Next]_vars =>
        [(Admit /\ worker' = "active" /\ Checks) =>
           pend.own /\ ~stop /\ (job.kind = "while" /\ job.sent => met)]_vars
  <2> SUFFICES ASSUME J2534Inv, Admit, worker' = "active", Checks
               PROVE  pend.own /\ ~stop /\ (job.kind = "while" /\ job.sent => met)
    OBVIOUS
  <2>1. DeskOk(Desk) /\ worker = "queued" /\ ~late /\ pend.kind = "job"
    BY DEF J2534Inv, Admit, Checks
  <2>2. QED
    BY <2>1, DeskNow DEF DeskOk, Rest, JobOk, MetOk, StopOk
<1>2. QED
  BY <1>1, J2534Holds, PTL DEF Spec, RepeatStops
===============================================================================
