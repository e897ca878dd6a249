--------------------------------- MODULE J2534 ---------------------------------
(***************************************************************************)
(* The J2534 front-end over CAN: j2534.c and j2534_scheduler.c, for one     *)
(* physical channel with one logical (ISO-TP) channel and one scheduled    *)
(* message on the physical one.                                            *)
(*                                                                         *)
(* One thread, the data link task, polls the channels and serves the       *)
(* client's requests between two polls.  It shares one transmit worker     *)
(* among queued messages, segmented messages, flow controls and scheduled  *)
(* messages, one frame at a time, and collects what became of the frame    *)
(* later: by then the message may be gone, the reception it answered over,  *)
(* the channel another one.  The worker is what BusTxWorker promises, its   *)
(* admission what CanBus does; the segmentation is IsoTp's, with its        *)
(* deadlines running out whenever they are looked at.                      *)
(*                                                                         *)
(* Time matters to a scheduled message by the interval that follows its    *)
(* newest frame, and a reception carries where in it it was stamped.       *)
(***************************************************************************)
EXTENDS Integers, Sequences, FiniteSets

CONSTANTS
  RxLen,       \* bound: receptions waiting in the driver
  IsoFrames,   \* the frames a segmented message may have
  JobKinds,    \* of "periodic", "until" and "while"
  Duplex,      \* what a logical channel may be
  Users        \* bound: messages, jobs and receptions in progress at a time

ASSUME J2534Assumption ==
  /\ RxLen \in Nat \ {0} /\ IsoFrames \subseteq Nat \ {0}
  /\ JobKinds \subseteq {"periodic", "until", "while"}
  /\ Duplex \subseteq BOOLEAN /\ Users \in Nat

VARIABLES
  pc,          \* where the poll is, "idle" between polls and requests
  work,        \* whom poll_rx() runs for
  pend,        \* the frame given to the worker (pending_tx_t)
  worker,      \* what the worker makes of it
  late,        \* something was received since it was, if that matters to it
  raw, rawOut, \* the physical channel holds a message; its frame went out
  iso,         \* the logical channel's message
  untrue,      \* a message was reported sent that did not go out
  cursor,      \* tx_cursor
  full,        \* LOGICAL_FULL_DUPLEX
  rx,          \* iso_rx
  asked,       \* the flow control of the present wait went out
  fcPending,   \* flow_control_pending
  job,         \* the scheduled message
  clock,       \* where in the interval after its newest frame the time is
  stop, met,   \* the bus has shown what ends it; what it needs to go on
  rxq,         \* receptions of the driver, and what it reports beside them
  lost, down,
  drained,     \* rx_drained, until it is used
  linkDown     \* link_down

txVars == <<raw, rawOut, iso, untrue, cursor, full>>
rxVars == <<rx, asked, fcPending>>
jobVars == <<job, clock, stop, met>>
busVars == <<rxq, lost, down>>
sent == <<pend, worker, late>>
vars == <<pc, work, sent, txVars, rxVars, jobVars, busVars, drained, linkDown>>

NoPend == [kind |-> "none", discard |-> FALSE, confirmed |-> FALSE, own |-> FALSE,
           current |-> FALSE, generation |-> FALSE]
NoIso == [st |-> "none", next |-> 0, size |-> 0, out |-> 0]
NoJob == [kind |-> "none", active |-> FALSE, pending |-> FALSE, ended |-> FALSE,
          sent |-> FALSE, matched |-> FALSE, match |-> "none", known |-> TRUE]
Fresh ==
  /\ pc = "idle" /\ work = "poll"
  /\ pend = NoPend /\ worker = "none" /\ late = FALSE
  /\ raw = FALSE /\ rawOut = FALSE /\ iso = NoIso /\ untrue = FALSE /\ cursor = "raw"
  /\ rx = "idle" /\ asked = FALSE /\ fcPending = FALSE
  /\ job = NoJob /\ clock = "due" /\ stop = FALSE /\ met = FALSE
  /\ rxq = <<>> /\ lost = FALSE /\ down = FALSE
  /\ drained = FALSE /\ linkDown = FALSE
Init == Fresh /\ full \in Duplex

-------------------------------------------------------------------------------
\* The worker and the bus.

Cancel == worker' = IF worker = "queued" THEN "cancelled" ELSE worker
Repeat == job.kind \in {"until", "while"}
Checks == pend.kind = "job" /\ Repeat
Unadmitted == Checks /\ worker = "queued"

\* bus_tx_admit(): BUS_TX_CHECK_RX refuses what is older than a reception.
Admit ==
  /\ worker = "queued"
  /\ worker' = (IF Checks /\ late THEN "refused" ELSE "active") /\ late' = FALSE
  /\ UNCHANGED <<pc, work, pend, txVars, rxVars, jobVars, busVars, drained, linkDown>>

Aged(when) == IF when \in {"within", "due"} THEN "before" ELSE when
FrameOut ==
  /\ worker = "active" /\ worker' = "ended"
  /\ LET own(kind) == pend.kind = kind /\ pend.own /\ pend.current IN
     /\ rawOut' = (rawOut \/ own("message"))
     /\ iso' = IF own("isotp") THEN [iso EXCEPT !.out = @ + 1] ELSE iso
     /\ asked' = (asked \/ own("fc"))
     /\ IF own("job")
        THEN /\ clock' = "within" /\ met' = FALSE
             /\ job' = [job EXCEPT !.match = Aged(@), !.known = FALSE]
             /\ rxq' = [i \in DOMAIN rxq |-> [rxq[i] EXCEPT !.when = Aged(@)]]
        ELSE UNCHANGED <<clock, met, job, rxq>>
  /\ UNCHANGED <<pc, work, pend, late, raw, untrue, cursor, full, rx, fcPending, stop, lost,
                 down, drained, linkDown>>
Report ==
  /\ \/ worker = "active" /\ worker' = "failed"
     \/ worker = "ended" /\ worker' \in {"ok", "failed"}
  /\ UNCHANGED <<pc, work, pend, late, txVars, rxVars, jobVars, busVars, drained, linkDown>>

Room ==
  Cardinality({u \in {"raw", "iso", "job", "rx", "sent"} :
    \/ u = "raw" /\ raw
    \/ u = "iso" /\ iso.st # "none"
    \/ u = "job" /\ job.kind # "none"
    \/ u = "rx" /\ rx # "idle"
    \/ u = "sent" /\ pend.kind # "none" /\ ~pend.current}) < Users

\* A reception, by what it means to the job and to the logical channel.
Ends(kind) == \/ job.kind = "until" /\ kind = "match"
              \/ job.kind = "while" /\ kind # "match"
\* What nobody waits for is a single frame to everybody.
Heeded(kind) ==
  \/ kind = "single"
  \/ kind = "match" /\ job.active
  \/ kind = "first" /\ (Room \/ rx # "idle")
  \/ kind = "next" /\ rx # "idle"
  \/ kind = "flow" /\ iso.st # "none"
Hear(kind) ==
  /\ ~linkDown /\ Len(rxq) < RxLen
  /\ Heeded(kind)
  /\ rxq' = Append(rxq, [kind |-> kind, when |-> IF Repeat /\ job.active THEN clock ELSE "old"])
  /\ late' = (late \/ Unadmitted)
  /\ stop' = (stop \/ (job.active /\ Ends(kind)))
  /\ met' = (met \/ (job.kind = "while" /\ kind = "match" /\ clock = "within"))
  /\ UNCHANGED <<pc, work, pend, worker, txVars, rxVars, job, clock, lost, down, drained,
                 linkDown>>
Lose ==
  /\ Len(rxq) = RxLen /\ ~lost /\ Repeat /\ job.active
  /\ lost' = TRUE /\ late' = (late \/ Unadmitted) /\ stop' = TRUE
  /\ UNCHANGED <<pc, work, pend, worker, txVars, rxVars, job, clock, met, rxq, down, drained,
                 linkDown>>
BusOff ==
  /\ ~down /\ ~linkDown /\ down' = TRUE
  /\ UNCHANGED <<pc, work, sent, txVars, rxVars, jobVars, rxq, lost, drained, linkDown>>
IntervalEnds ==
  /\ clock = "within" /\ job.active /\ clock' = "due"
  /\ UNCHANGED <<pc, work, sent, txVars, rxVars, job, stop, met, busVars, drained, linkDown>>

-------------------------------------------------------------------------------
\* What the calls of one step make of the channels, one after the other: each
\* operator takes them as a record and gives the records they may become.

Desk == [pend |-> pend, worker |-> worker, late |-> late, raw |-> raw, rawOut |-> rawOut,
         iso |-> iso, untrue |-> untrue, cursor |-> cursor, rx |-> rx, asked |-> asked,
         fcPending |-> fcPending, job |-> job, clock |-> clock, linkDown |-> linkDown]
\* A job that has ended is there to be stopped: nothing else of it is read.
Over(j) == ~j.active /\ ~j.pending
Becomes(s) ==
  /\ pend' = s.pend /\ worker' = s.worker /\ late' = s.late
  /\ raw' = s.raw /\ rawOut' = s.rawOut /\ iso' = s.iso
  /\ untrue' = s.untrue /\ cursor' = s.cursor
  /\ rx' = s.rx /\ asked' = (s.asked /\ s.rx # "idle") /\ fcPending' = s.fcPending
  /\ job' = IF Over(s.job) THEN [NoJob EXCEPT !.kind = s.job.kind] ELSE s.job
  /\ clock' = IF Over(s.job) THEN "due" ELSE s.clock
  /\ stop' = (stop /\ ~Over(s.job)) /\ met' = (met /\ ~Over(s.job))
  /\ linkDown' = s.linkDown

\* tx_done(): the buffer is free for the next message.
Orphan(s, kind) == IF s.pend.kind = kind THEN [s.pend EXCEPT !.current = FALSE] ELSE s.pend
RawDone(s, ok) ==
  [s EXCEPT !.raw = FALSE, !.rawOut = FALSE, !.pend = Orphan(s, "message"),
            !.untrue = @ \/ (ok /\ ~s.rawOut)]
IsoDone(s, ok) ==
  [s EXCEPT !.iso = NoIso, !.pend = Orphan(s, "isotp"),
            !.untrue = @ \/ (ok /\ s.iso.out # s.iso.size)]

\* isotp_tx_confirm(), and tx_done() at an end or an error.
IsoConfirm(s, ok) ==
  {IsoDone(s, FALSE)} \cup
  IF s.iso.st # "confirm" \/ ~ok THEN {}
  ELSE IF s.iso.next = s.iso.size THEN {IsoDone(s, TRUE)}
  ELSE {[s EXCEPT !.iso.st = to] : to \in IF s.iso.next = 1 THEN {"fc"} ELSE {"fc", "cf"}}

\* isotp_rx_confirm(), for the reception the flow control was built for.
\* Mutant: for whichever there is.
WhicheverReception(p) == p.own
ItsReception(p) == p.own /\ p.generation
FlowConfirm(s, p, ok) ==
  IF ~ItsReception(p) \/ s.rx # "confirm" THEN {s}
  ELSE {[s EXCEPT !.rx = "idle"]} \cup IF ok THEN {[s EXCEPT !.rx = "cf"]} ELSE {}

\* confirm_protocol_tx().
Confirm(s, p, ok) ==
  IF p.kind = "fc" THEN FlowConfirm(s, p, ok)
  ELSE IF p.kind = "isotp" THEN IsoConfirm(s, ok)
  ELSE {RawDone(s, ok)}

\* j2534_schedule_transmitted(): an answer may be known before the frame's end is.
\* Mutant: any answer known by then counts.
TransmittedAnyMatch(j) ==
  IF j.ended /\ j.known THEN j
  ELSE [j EXCEPT !.ended = TRUE, !.sent = TRUE, !.known = TRUE,
                 !.matched = (j.match # "none")]
Transmitted(j) ==
  IF j.ended /\ j.known THEN j
  ELSE [j EXCEPT !.ended = TRUE, !.sent = TRUE, !.known = TRUE,
                 !.matched = (j.match = "within")]

\* j2534_schedule_complete().
Complete(s, ok) ==
  LET j == [s.job EXCEPT !.pending = FALSE] IN
  IF ok THEN [s EXCEPT !.job = [Transmitted(j) EXCEPT !.ended = FALSE]]
  ELSE IF Repeat THEN [s EXCEPT !.job = [j EXCEPT !.active = FALSE]]
  ELSE [s EXCEPT !.job = [j EXCEPT !.ended = FALSE, !.sent = TRUE, !.known = TRUE],
                 !.clock = "within"]

\* finish_bus_tx(): a message taken back, an older answer, and a frame already
\* confirmed change nothing.
\* Mutant: a message taken back is answered.
SettlesAnyway(p) == p.own /\ ~p.confirmed
Settles(p) == p.own /\ ~p.discard /\ ~p.confirmed
Deferred(s) == s.worker = "refused" \/ (s.worker = "cancelled" /\ s.pend.discard)
Finish(s) ==
  LET p == s.pend
      t == [s EXCEPT !.pend = NoPend, !.worker = "none"]
  IN IF p.kind = "job"
     THEN {IF ~p.own THEN t
           ELSE IF Deferred(s) THEN [t EXCEPT !.job.pending = FALSE]
           ELSE Complete(t, s.worker = "ok")}
     ELSE IF Settles(p) THEN Confirm(t, p, s.worker = "ok") ELSE {t}

\* collect_bus_tx(): a result, or before it the end of the frame.
Collected(s) ==
  LET p == s.pend IN
  IF s.worker \in {"ok", "failed", "refused", "cancelled"} THEN Finish(s)
  ELSE IF s.worker # "ended" THEN {s}
  ELSE IF p.kind \in {"isotp", "fc"} /\ Settles(p)
    THEN {[t EXCEPT !.pend.confirmed = TRUE] : t \in Confirm(s, p, TRUE)}
  ELSE IF p.kind = "job" /\ p.own THEN {[s EXCEPT !.job = Transmitted(@)]}
  ELSE {s}

\* submit_bus_tx(): the worker takes the frame, or refuses at once, which the
\* pass collects like any failure.
Submitted(s, kind) ==
  {[s EXCEPT !.pend = [NoPend EXCEPT !.kind = kind, !.own = TRUE, !.current = TRUE,
                                     !.generation = (kind = "fc")],
             !.worker = w, !.late = Repeat /\ kind = "job" /\ w = "queued" /\ (rxq # <<>> \/ lost)] :
     w \in {"queued", "failed"}}

\* cancel_channel_tx(), for frames of the given kinds.
TakenBack(s, kinds) ==
  IF s.pend.kind \notin kinds \/ ~s.pend.own THEN s
  ELSE [s EXCEPT !.pend.discard = TRUE, !.pend.current = FALSE,
                 !.worker = IF @ = "queued" THEN "cancelled" ELSE @, !.late = FALSE]

-------------------------------------------------------------------------------
\* Receiving.

Waits(s, new) ==
  [s EXCEPT !.rx = "confirm", !.fcPending = TRUE, !.asked = FALSE,
            !.pend.current = @ /\ s.pend.kind # "fc",
            !.pend.generation = @ /\ ~new]

\* isotp_tx_flow_control(): the deadline may have passed, whatever the frame is.
TxHears(s, kind) ==
  IF s.iso.st \notin {"confirm", "fc", "cf"} THEN {s}
  ELSE (IF s.iso.st \in {"confirm", "fc"} THEN {IsoDone(s, FALSE)} ELSE {})
       \cup (IF kind = "flow" /\ s.iso.st = "fc"
             THEN {s, IsoDone(s, FALSE), [s EXCEPT !.iso.st = "cf"]} ELSE {s})

\* isotp_rx_feed() and isotp_rx_flow_control().
RxHears(s, kind) ==
  LET quiet == [s EXCEPT !.rx = "idle"] IN
  (IF s.rx # "idle" THEN {quiet} ELSE {}) \cup
  CASE kind = "first" -> {Waits(s, TRUE)}
    [] kind = "single" -> {[quiet EXCEPT !.pend.generation = FALSE]}
    [] kind = "next" /\ s.rx = "cf" -> {s, quiet, Waits(s, FALSE)}
    [] OTHER -> {s}
Logical(s, kind) ==
  IF s.iso.st \in {"confirm", "fc", "cf"} /\ ~full THEN TxHears(s, kind)
  ELSE UNION {RxHears(t, kind) : t \in TxHears(s, kind)}

\* j2534_schedule_receive().
Scheduled(j, m) ==
  IF ~j.active \/ m.when = "old" \/ j.kind \notin {"until", "while"} THEN j
  ELSE IF Ends(m.kind) THEN [j EXCEPT !.active = FALSE]
  ELSE IF m.kind # "match" THEN j
  ELSE [j EXCEPT !.match = m.when,
                 !.matched = @ \/ (j.sent /\ j.known /\ m.when = "within")]

\* j2534_schedule_receive_lost(), which spares a periodic message.
Unwatched(j) == IF j.kind = "periodic" THEN j ELSE [j EXCEPT !.active = FALSE]

Down(s) ==
  LET t == [TakenBack(s, {"message", "isotp", "fc", "job"}) EXCEPT
              !.linkDown = TRUE, !.job = Unwatched(@), !.rx = "idle"]
      u == IF t.raw THEN RawDone(t, FALSE) ELSE t
  IN [u EXCEPT !.iso = NoIso]

\* One turn of poll_rx(), with what the driver has first.
Recv ==
  /\ pc = "rx"
  /\ \E s \in Collected(Desk) :
     \/ down /\ down' = FALSE /\ Becomes(Down(s)) /\ UNCHANGED <<rxq, lost>>
     \/ /\ ~down /\ rxq # <<>> /\ rxq' = Tail(rxq)
        /\ \E t \in Logical(s, Head(rxq).kind) :
             Becomes([t EXCEPT !.job = Scheduled(@, Head(rxq))])
        /\ UNCHANGED <<lost, down>>
     \/ /\ ~down /\ rxq = <<>> /\ lost /\ lost' = FALSE
        /\ Becomes([s EXCEPT !.job = Unwatched(@)]) /\ UNCHANGED <<rxq, down>>
  /\ UNCHANGED <<pc, work, full, drained>>

\* poll_rx() ends with nothing left or with its burst; then whoever called it
\* goes on.
Ended(s) ==
  CASE work = "poll" -> s
    [] work = "clear" ->
         [s EXCEPT !.rx = "idle", !.fcPending = FALSE, !.pend.generation = FALSE]
    [] work = "bus_on" -> IF s.pend.kind = "none" THEN [s EXCEPT !.linkDown = FALSE] ELSE s
Leave ==
  /\ pc = "rx"
  /\ drained' \in {work = "poll" /\ ~down /\ rxq = <<>> /\ ~lost, FALSE}
  /\ pc' = IF work = "poll" THEN "choose" ELSE "idle"
  /\ work' = "poll"
  /\ Becomes(Ended(Desk))
  /\ UNCHANGED <<full, busVars>>

-------------------------------------------------------------------------------
\* Choosing what goes out: service_bus() after it polled.

\* isotp_rx_check_timeout() for the channel, then j2534_schedule_expire().
Expires(j) ==
  /\ drained /\ j.kind = "while" /\ j.sent
  /\ ~j.pending \/ j.ended
  /\ ~j.matched /\ j.known /\ clock = "due"
Aging(s) ==
  LET t == IF Expires(s.job) THEN [s EXCEPT !.job.active = FALSE] ELSE s
  IN {t} \cup IF t.rx = "idle" THEN {} ELSE {[t EXCEPT !.rx = "idle"]}

\* j2534_schedule_next(): a repeat only past an empty receive queue.
Due(j) == j.active /\ ~j.pending /\ clock = "due" /\ (drained \/ j.kind = "periodic")

\* The worker need not send for a job that has ended meanwhile.
Dropped(s) ==
  IF s.pend.kind = "job" /\ (~s.pend.own \/ ~s.job.active) /\ s.worker = "queued"
  THEN [s EXCEPT !.worker = "cancelled", !.late = FALSE] ELSE s

\* poll_tx() of the two channels.  A segmented message starts, goes on once its
\* separation is over, or finds that its deadline has passed.
NextFrame(s) == Submitted([s EXCEPT !.iso.st = "confirm", !.iso.next = @ + 1], "isotp")
PollTx(s, channel) ==
  IF channel = "raw"
  THEN IF s.raw THEN Submitted([s EXCEPT !.cursor = "iso"], "message") ELSE {s}
  ELSE LET t == [s EXCEPT !.cursor = "raw"] IN
       CASE s.iso.st = "queued" -> IF full \/ s.rx = "idle" THEN NextFrame(t) ELSE {s}
         [] s.iso.st = "cf" -> {s} \cup NextFrame(t)
         [] s.iso.st = "fc" -> {s, IsoDone(s, FALSE)}
         [] OTHER -> {s}

RoundRobin(s) ==
  LET second == IF s.cursor = "raw" THEN "iso" ELSE "raw"
  IN UNION {IF t.pend.kind # "none" THEN {t} ELSE PollTx(t, second) :
              t \in PollTx(s, s.cursor)}

\* Flow control has deadlines; scheduled data precedes queued data.
Chosen(s) ==
  IF s.fcPending THEN Submitted([s EXCEPT !.fcPending = FALSE], "fc")
  ELSE IF Due(s.job)
    THEN Submitted([s EXCEPT !.job.pending = TRUE, !.job.ended = FALSE], "job")
  ELSE RoundRobin(s)

Choose ==
  /\ pc = "choose"
  /\ \E s \in Aging(Desk) :
     LET t == Dropped(s) IN
     IF t.pend.kind # "none" \/ t.linkDown
     THEN Becomes(t) /\ pc' = "idle"
     ELSE (\E u \in Chosen(t) : Becomes(u)) /\ pc' = "collect"
  /\ drained' = FALSE
  /\ UNCHANGED <<work, full, busVars>>

Collect ==
  /\ pc \in {"idle", "collect"}
  /\ pc' = IF pc = "idle" THEN "rx" ELSE "idle"
  /\ \E s \in Collected(Desk) : Becomes(s)
  /\ UNCHANGED <<work, full, busVars, drained>>

-------------------------------------------------------------------------------
\* Requests, served between two polls.

Ask(s) == pc = "idle" /\ Becomes(s) /\ UNCHANGED <<pc, work, full, busVars, drained>>

QueueRaw == ~raw /\ Room /\ Ask([Desk EXCEPT !.raw = TRUE])
QueueIso(n) ==
  /\ iso.st = "none" /\ Room
  /\ Ask([Desk EXCEPT !.iso = [NoIso EXCEPT !.st = "queued", !.size = n]])

ClearTxRaw == Ask([TakenBack(Desk, {"message", "job"}) EXCEPT !.raw = FALSE, !.rawOut = FALSE])
ClearTxIso == Ask([TakenBack(Desk, {"isotp", "fc"}) EXCEPT !.iso = NoIso])

\* start_periodic() and j2534_core_repeat_start().  What is waiting in the driver
\* came before.
StartJob(kind) ==
  /\ pc = "idle" /\ job.kind = "none" /\ Room
  /\ Becomes([Desk EXCEPT !.job = [NoJob EXCEPT !.kind = kind, !.active = TRUE],
                          !.clock = "due"])
  /\ rxq' = [i \in DOMAIN rxq |-> [rxq[i] EXCEPT !.when = "old"]]
  /\ UNCHANGED <<pc, work, full, lost, down, drained>>

\* stop_scheduled(), and CLEAR_PERIODIC for a periodic message.
StopJob ==
  /\ job.kind # "none"
  /\ Ask([TakenBack(Desk, {"job"}) EXCEPT
            !.job = NoJob, !.clock = "due",
            !.pend.own = @ /\ pend.kind # "job"])

PollFor(request) ==
  /\ pc = "idle" /\ pc' = "rx" /\ work' = request
  /\ UNCHANGED <<sent, txVars, rxVars, jobVars, busVars, drained, linkDown>>
ClearRx == PollFor("clear")
BusOn == linkDown /\ PollFor("bus_on")

\* The logical channel is disconnected and another one takes its slot.
Reconnect(duplex) ==
  /\ pc = "idle" /\ full' = duplex
  /\ Becomes([TakenBack(Desk, {"isotp", "fc"}) EXCEPT
                !.iso = NoIso, !.rx = "idle", !.asked = FALSE, !.fcPending = FALSE,
                !.pend.own = @ /\ pend.kind \notin {"isotp", "fc"}])
  /\ UNCHANGED <<pc, work, busVars, drained>>

\* disconnect_channel() of the physical channel: the close joins the worker, and
\* what cannot be closed keeps its channel.
Disconnect ==
  /\ pc = "idle"
  /\ \/ /\ pend' = NoPend /\ worker' = "none" /\ late' = FALSE
        /\ raw' = FALSE /\ rawOut' = FALSE /\ iso' = NoIso /\ cursor' = "raw"
        /\ UNCHANGED untrue
        /\ rx' = "idle" /\ asked' = FALSE /\ fcPending' = FALSE
        /\ job' = NoJob /\ clock' = "due" /\ stop' = FALSE /\ met' = FALSE
        /\ rxq' = <<>> /\ lost' = FALSE /\ down' = FALSE
        /\ drained' = FALSE /\ linkDown' = FALSE
        /\ UNCHANGED <<pc, work, full>>
     \/ Ask(TakenBack(Desk, {"message", "job"}))

-------------------------------------------------------------------------------
Requests ==
  \/ QueueRaw \/ (\E n \in IsoFrames : QueueIso(n)) \/ ClearTxRaw \/ ClearTxIso
  \/ (\E kind \in JobKinds : StartJob(kind)) \/ StopJob
  \/ ClearRx \/ BusOn \/ (\E duplex \in Duplex : Reconnect(duplex)) \/ Disconnect
Poll == Recv \/ Leave \/ Choose \/ Collect
Worker == Admit \/ FrameOut \/ Report
Bus == (\E kind \in {"match", "single", "first", "next", "flow"} : Hear(kind))
       \/ Lose \/ BusOff \/ IntervalEnds
Next == Requests \/ Poll \/ Worker \/ Bus
Spec == Init /\ [][Next]_vars

J2534TypeOK ==
  /\ pc \in {"idle", "rx", "choose", "collect"}
  /\ work \in {"poll", "clear", "bus_on"}
  /\ pend.kind \in {"none", "message", "isotp", "fc", "job"}
  /\ worker \in {"none", "queued", "active", "ended", "ok", "failed", "refused", "cancelled"}
  /\ (pend.kind = "none") = (worker = "none")
  /\ iso.st \in {"none", "queued", "confirm", "fc", "cf"} /\ iso.next <= iso.size
  /\ rx \in {"idle", "confirm", "cf"} /\ job.kind \in JobKinds \cup {"none"}
  /\ clock \in {"within", "due"} /\ Len(rxq) <= RxLen

\* A client that is told a message was sent can rely on it: every frame of it
\* went out, whatever was queued, cleared, timed out or reconnected while an older
\* frame was still with the worker.
AnswersAreTrue == J2534TypeOK /\ ~untrue

\* Consecutive frames are waited for only once the flow control that asks for them
\* went out: never on the strength of one for an earlier reception or block.
FlowControlIsOwn == rx = "cf" => asked

\* A repeated message is not sent once more after the bus has carried what ends
\* it, or may have, also when nobody has read that yet; nor, if it goes on only
\* while it is answered, without an answer to its last copy; nor once stopped.
RepeatStops ==
  [][(Admit /\ worker' = "active" /\ Checks) =>
       pend.own /\ ~stop /\ (job.kind = "while" /\ job.sent => met)]_vars

\* A message nothing of which was given to the worker is dropped by its client or
\* with the link, and not by an older one's completion.
LateCompletionSparesNewData ==
  [][(iso.st = "queued" /\ iso'.st = "none") =>
       (pc = "idle" /\ pc' = "idle") \/ linkDown']_vars
===============================================================================
