----------------------------- MODULE J2534Wire -----------------------------
(***************************************************************************)
(* The J2534 wire between the driver on the PC (link.cpp, api.cpp) and the *)
(* adapter (j2534_wire.c): requests and answers in fragments, numbered and *)
(* checked, over a serial port that may lose or spoil what it carries.     *)
(*                                                                         *)
(* The PC opens the port, selects the grammar, probes the adapter, opens   *)
(* the device and makes calls; whatever goes wrong ends the session, and   *)
(* the adapter sees its client go.  The job a request asks for may take    *)
(* longer than the PC waits.  Offsets are counted in fragments.  A         *)
(* fragment and an answer carry, for checking, the call they are of.       *)
(***************************************************************************)
EXTENDS Naturals, Sequences, FiniteSets

CONSTANTS
  Sizes,     \* of an operation: the fragments of its request and of its answer
  Sessions,  \* bound: sessions are counted modulo this; a job does not outlast so many
  MaxSeq,    \* bound: a client makes no call above this number but the last
  MaxFaults  \* bound: fragments lost or spoilt, and jobs longer than the PC waits
Ops == {"probe", "open", "act", "close"}
ASSUME WireAssumption ==
  /\ DOMAIN Sizes = Ops /\ \A o \in Ops : Sizes[o] \in (Nat \ {0}) \X (Nat \ {0})
  /\ {Sessions, MaxSeq} \subseteq Nat \ {0} /\ MaxFaults \in Nat

NoId == <<Sessions, 0>>
VARIABLES
  door,       \* the PC's: "shut", "drain" (before it selects), "select", "idle" or "wait"
  stage,      \* of the session: "probe", "again" (the probe repeated), "open" or "up"
  session,
  call,       \* the call being made, or the last one
  toAdapter, toHost,
  front,      \* the grammar: "elm", "dirty" (with a line begun) or "wire"
  want,       \* the grammar the link is to get
  gone,       \* what is left of link_hand_back(): "mute", "switch", "unbind" or "no"
  muted,
  rx,         \* wire: a frame cut short, the request being assembled, the answer
  busy,       \* the request j2534_core_request() is at
  dev,        \* the session whose device is open in the adapter
  kept,       \* kept for checking: the call last run; what went wrong
  faults
wireState == <<door, stage, session, call, toAdapter, toHost, front, want, gone, muted, rx, busy,
               dev, kept, faults>>
host == <<door, stage, session, call>>
linkState == <<front, want, gone, muted>>
task == <<rx, busy, dev>>

NoSession == Sessions
Fresh == [cut |-> FALSE, on |-> FALSE, op |-> "none", seq |-> 0, len |-> 0, ids |-> {},
          ready |-> FALSE, status |-> "none"]
NoJob == [op |-> "none", ids |-> {}, long |-> FALSE]
WireInit ==
  /\ door = "shut" /\ stage = "probe" /\ session = 0
  /\ call = [op |-> "none", seq |-> 0, id |-> NoId, sent |-> 0, got |-> <<>>]
  /\ toAdapter = <<>> /\ toHost = <<>> /\ front \in {"elm", "wire"} /\ want = "none"
  /\ gone = "no" /\ muted = FALSE /\ rx = Fresh /\ busy = NoJob /\ dev = NoSession
  /\ kept = [last |-> NoId, wrong |-> {}] /\ faults = 0

Frame(k, o, n, off, more, ids) ==
  [kind |-> k, op |-> o, seq |-> n, off |-> off, more |-> more, ids |-> ids, status |-> "none"]
Spoilt == Frame("spoilt", "none", 0, 0, FALSE, {})
Select == Frame("AT VIF PASSTHRU", "none", 0, 0, FALSE, {})
Part(c, i) == Frame("part", c.op, c.seq, i, i + 1 < Sizes[c.op][1], {c.id})
Fetch(c, i) == Frame("fetch", c.op, c.seq, i, FALSE, {})
Faulty == faults < MaxFaults /\ faults' = faults + 1

-----------------------------------------------------------------------------
(* The PC *)

\* Stream::drain() waits for what an adapter in no long job does at once.
Settled == gone = "no" /\ (busy.long \/ (busy = NoJob /\ want = "none" /\ toAdapter = <<>>))
\* Stream::openCom(), with a new Link.  The adapter hears of the port in order and
\* binds the free link to it, which may be answered from then on whatever is
\* still at work for the last client.
OpensPort ==
  /\ door = "shut" /\ gone = "no" /\ door' = "drain" /\ stage' = "probe"
  /\ session' = (session + 1) % Sessions /\ \A i \in busy.ids : i[1] # session'
  /\ call' = [call EXCEPT !.op = "none", !.seq = 0] /\ muted' = FALSE
  /\ kept' = [kept EXCEPT !.last = IF @[1] = session' THEN NoId ELSE @]
  /\ toHost' = <<>> /\ UNCHANGED <<toAdapter, front, want, gone, task, faults>>
\* Link::selectFrontend(); repeated, it waits out what feed() keeps of a frame.
SelectFrontend ==
  /\ door = "drain" /\ Settled /\ door' = "select"
  /\ toHost' = <<>> /\ toAdapter' = Append(toAdapter, Select)
  /\ rx' = (IF stage = "again" /\ busy = NoJob THEN [rx EXCEPT !.cut = FALSE, !.on = FALSE] ELSE rx)
  /\ UNCHANGED <<stage, session, call, linkState, busy, dev, kept, faults>>
Selected ==
  /\ door = "select" /\ Settled /\ door' = "idle" /\ toHost' = <<>>
  /\ UNCHANGED <<stage, session, call, toAdapter, linkState, task, kept, faults>>

Calls == IF stage = "again" THEN {"probe"} ELSE IF stage # "up" THEN {stage}
         ELSE {"close"} \union IF call.seq < MaxSeq THEN {"act"} ELSE {}
\* Link::rpc(), up to its first fragment
Begins(o) ==
  /\ door = "idle" /\ o \in Calls /\ door' = "wait"
  /\ call' = [op |-> o, seq |-> call.seq + 1, id |-> <<session, call.seq + 1>>, sent |-> 1, got |-> <<>>]
  /\ toAdapter' = Append(toAdapter, Part(call', 0))
  /\ UNCHANGED <<stage, session, toHost, linkState, task, kept, faults>>

\* The Device is deleted, and its Link shuts the port.
Deleted == door' = "shut" /\ gone' = "mute"
Closes == Deleted /\ UNCHANGED <<stage, call, toAdapter>>
\* Mutant of Breaks: rpc() makes the call of a session again.
BreaksOnce ==
  \/ /\ stage = "up" /\ call.op = "act" /\ call.seq < MaxSeq
     /\ call' = [call EXCEPT !.seq = @ + 1, !.sent = 1, !.got = <<>>]
     /\ toAdapter' = Append(toAdapter, Part(call', 0)) /\ UNCHANGED <<door, stage, gone>>
  \/ /\ stage = "probe" /\ stage' = "again" /\ door' = "drain" /\ UNCHANGED <<call, gone, toAdapter>>
  \/ stage \notin {"probe", "up"} /\ Closes
\* What rpc() throws: compatible() repeats the probe once; any other call takes
\* the session with it.
Breaks ==
  \/ /\ stage = "probe" /\ stage' = "again" /\ door' = "drain" /\ UNCHANGED <<call, gone, toAdapter>>
  \/ stage # "probe" /\ Closes

\* The answer is whole: rpc() returns.  Kept for checking: whose answer it is.
Returns(status) ==
  /\ kept' = [kept EXCEPT !.wrong = @ \union (IF status = "in use" THEN {"refused"} ELSE {})
       \union IF call.op = "probe" \/ \A i \in DOMAIN call'.got : call'.got[i] = {call.id}
              THEN {} ELSE {"alien"}]
  /\ \/ call.op = "probe" /\ stage' = "open" /\ door' = "idle" /\ gone' = gone
     \/ call.op = "open" /\ status = "ok" /\ stage' = "up" /\ door' = "idle" /\ gone' = gone
     \/ call.op = "act" /\ status = "ok" /\ door' = "idle" /\ UNCHANGED <<stage, gone>>
     \/ call.op # "probe" /\ (call.op = "close" \/ status # "ok")
        /\ Deleted /\ stage' = stage
\* Link::receive() and the checks of rpc()
Expected(f) ==
  /\ f.op = call.op /\ f.seq = call.seq
  /\ IF call.sent < Sizes[call.op][1] THEN f.kind = "ack" /\ f.off = call.sent
     ELSE f.kind = "answer" /\ f.off = Len(call.got)
Receives ==
  /\ door = "wait" /\ toHost # <<>> /\ toHost' = Tail(toHost)
  /\ LET f == Head(toHost) IN
     \/ ~Expected(f) /\ Breaks /\ UNCHANGED kept
     \/ /\ Expected(f) /\ f.kind = "ack" /\ call' = [call EXCEPT !.sent = @ + 1]
        /\ toAdapter' = Append(toAdapter, Part(call, call.sent)) /\ UNCHANGED <<door, stage, gone, kept>>
     \/ /\ Expected(f) /\ f.kind = "answer" /\ f.more /\ call' = [call EXCEPT !.got = Append(@, f.ids)]
        /\ toAdapter' = Append(toAdapter, Fetch(call, Len(call.got) + 1))
        /\ UNCHANGED <<door, stage, gone, kept>>
     \/ /\ Expected(f) /\ f.kind = "answer" /\ ~f.more /\ call' = [call EXCEPT !.got = Append(@, f.ids)]
        /\ UNCHANGED toAdapter
        /\ Returns(f.status)
  /\ UNCHANGED <<session, front, want, muted, task, faults>>
\* The deadline of rpc(): nothing comes, or not before a long job ends
Expires ==
  /\ door = "wait" /\ toHost = <<>>
  /\ Settled /\ Breaks /\ UNCHANGED <<session, toHost, front, want, muted, task, kept, faults>>

-----------------------------------------------------------------------------
(* The adapter *)

\* Mutant of ClientGone: the grammar is left as the client used it.
ClientLeavesGrammar ==
  /\ \/ gone = "mute" /\ toAdapter' = <<>> /\ muted' = TRUE /\ gone' = "switch"
     \/ gone = "switch" /\ gone' = "unbind" /\ UNCHANGED <<toAdapter, muted>>
     \/ gone = "unbind" /\ gone' = "no" /\ UNCHANGED <<toAdapter, muted>>
  /\ UNCHANGED <<host, toHost, front, want, task, kept, faults>>
\* link_hand_back(), on the thread of the port: it flushes and mutes, asks for the
\* grammar a client starts with, and lets go of the port.
ClientGone ==
  /\ \/ gone = "mute" /\ toAdapter' = <<>> /\ muted' = TRUE /\ gone' = "switch" /\ want' = want
     \/ gone = "switch" /\ want' = "elm" /\ gone' = "unbind" /\ UNCHANGED <<toAdapter, muted>>
     \/ gone = "unbind" /\ gone' = "no" /\ UNCHANGED <<toAdapter, muted, want>>
  /\ UNCHANGED <<host, toHost, front, task, kept, faults>>
Bound == door # "shut" \/ gone # "no"
\* link_apply_frontend(): stop() and start() leave nothing of a session.  A port
\* that is bound may be answered on.
AppliesSwitch ==
  /\ want # "none" /\ busy = NoJob /\ front' = want /\ want' = "none"
  /\ muted' = (muted /\ ~Bound) /\ rx' = Fresh /\ dev' = NoSession
  /\ UNCHANGED <<host, toAdapter, toHost, gone, busy, kept, faults>>

\* comm_port_write(): nothing for a client that has gone.
Writes(f) == toHost' = IF muted \/ (door = "shut" /\ gone # "mute") THEN toHost ELSE Append(toHost, f)
\* The ELM327 grammar: the line that selects the other is answered, a frame is not a line.
ElmFeeds(f) ==
  /\ busy = NoJob /\ front # "wire" /\ UNCHANGED <<rx, busy, faults>>
  /\ \/ f = Select /\ front = "elm" /\ want' = "wire" /\ front' = front /\ Writes(Spoilt)
     \/ f = Select /\ front = "dirty" /\ want' = want /\ front' = "elm" /\ Writes(Spoilt)
     \/ f # Select /\ want' = want /\ front' \in {"elm", "dirty"} /\ (Writes(Spoilt) \/ toHost' = toHost)

\* send_response_fragment()
Answer(r, i) == [Frame("answer", r.op, r.seq, i, i + 1 < Sizes[r.op][2], r.ids) EXCEPT !.status = r.status]
\* process_frame(): the first fragment starts a request, the one that follows it
\* is taken, the last one is run; a fragment of an answer may be fetched.
Starts(f) ==
  IF f.off > 0 THEN [rx EXCEPT !.cut = FALSE]
  ELSE [Fresh EXCEPT !.on = TRUE, !.op = f.op, !.seq = f.seq]
Follows(f, r) == r.on /\ f.seq = r.seq /\ f.op = r.op /\ f.off = r.len
Runs(o, ids, l) ==
  busy' = [op |-> o, ids |-> ids, long |-> l] /\ IF l THEN o # "probe" /\ Faulty ELSE faults' = faults
ProcessFrame(f) ==
  LET r == Starts(f) IN
  \/ /\ f.kind = "fetch" /\ rx' = [rx EXCEPT !.cut = FALSE] /\ UNCHANGED <<busy, faults>>
     /\ IF rx.ready /\ f.seq = rx.seq /\ f.op = rx.op THEN Writes(Answer(rx, f.off)) ELSE toHost' = toHost
  \/ f.kind = "part" /\ ~Follows(f, r) /\ rx' = r /\ UNCHANGED <<busy, toHost, faults>>
  \/ /\ f.kind = "part" /\ Follows(f, r) /\ f.more /\ UNCHANGED <<busy, faults>>
     /\ rx' = [r EXCEPT !.len = @ + 1, !.ids = @ \union f.ids]
     /\ Writes(Frame("ack", f.op, f.seq, r.len + 1, FALSE, {}))
  \/ /\ f.kind = "part" /\ Follows(f, r) /\ ~f.more /\ toHost' = toHost
     /\ rx' = [r EXCEPT !.on = FALSE, !.ids = @ \union f.ids] /\ \E l \in BOOLEAN : Runs(f.op, rx'.ids, l)
\* feed(): a frame cut short takes what follows for its own, or the magic of the
\* next one gets it into step.  Another grammar asked for, the service pass comes
\* before the next read: only what a client sends at once can come before it.
WireFeeds(f) ==
  /\ busy = NoJob /\ front = "wire" /\ UNCHANGED <<front, want>>
  /\ \/ (f = Spoilt \/ rx.cut) /\ rx' \in {[rx EXCEPT !.cut = c] : c \in BOOLEAN}
        /\ UNCHANGED <<busy, toHost, faults>>
     \/ f = Select /\ ~rx.cut /\ UNCHANGED <<rx, busy, toHost, faults>>
     \/ want = "none" /\ ProcessFrame(f)
Feeds ==
  /\ toAdapter # <<>> /\ toAdapter' = Tail(toAdapter)
  /\ ElmFeeds(Head(toAdapter)) \/ WireFeeds(Head(toAdapter))
  /\ UNCHANGED <<host, gone, muted, dev, kept>>

\* dispatch_request(), and the answer that follows.  A device is of the session
\* that opened it.
Of(s) == \E n \in 1 .. MaxSeq + 2 : busy.ids = {<<s, n>>}
Status ==
  IF busy.op = "probe" THEN "ok"
  ELSE IF busy.op = "open" THEN IF dev = NoSession THEN "ok" ELSE "in use"
  ELSE IF dev = NoSession THEN "not open" ELSE IF Of(dev) THEN "ok" ELSE "other"
Finishes ==
  /\ busy # NoJob /\ busy' = NoJob
  /\ \/ /\ busy.op = "open" /\ Status = "ok" /\ kept' = kept
        /\ dev' \in {s \in 0 .. Sessions - 1 : Of(s)}
     \/ busy.op = "close" /\ Status = "ok" /\ dev' = NoSession /\ kept' = kept
     \/ /\ busy.op = "act" /\ Status = "ok" /\ dev' = dev
        /\ kept' = [last |-> CHOOSE i \in busy.ids : TRUE,
                    wrong |-> kept.wrong \union IF busy.ids = {kept.last} THEN {"twice"} ELSE {}]
     \/ (busy.op = "probe" \/ Status # "ok") /\ UNCHANGED <<dev, kept>>
  /\ rx' = [rx EXCEPT !.ready = TRUE, !.status = Status] /\ Writes(Answer(rx', 0))
  /\ UNCHANGED <<host, toAdapter, linkState, faults>>

-----------------------------------------------------------------------------
\* A fragment is spoilt or lost on its way.
Loses ==
  /\ UNCHANGED <<host, linkState, task, kept>>
  /\ \/ Faulty /\ toHost' = toHost
        /\ \E i \in DOMAIN toAdapter : toAdapter[i] # Spoilt /\ toAdapter' = [toAdapter EXCEPT ![i] = Spoilt]
     \/ Faulty /\ toAdapter' = toAdapter
        /\ \E i \in DOMAIN toHost : toHost[i] # Spoilt
             /\ toHost' \in {[toHost EXCEPT ![i] = Spoilt],
                             SubSeq(toHost, 1, i - 1) \o SubSeq(toHost, i + 1, Len(toHost))}

HostStep == OpensPort \/ SelectFrontend \/ Selected \/ (\E o \in Ops : Begins(o)) \/ Receives \/ Expires
TaskStep == AppliesSwitch \/ Feeds \/ Finishes
WireNext == HostStep \/ ClientGone \/ TaskStep \/ Loses
\* The PC opens the port whenever it is shut; every task of the adapter runs.
WireFairness == WF_wireState(HostStep) /\ WF_wireState(ClientGone) /\ WF_wireState(TaskStep)
WireSpec == WireInit /\ [][WireNext]_wireState
WireFairSpec == WireSpec /\ WireFairness

-----------------------------------------------------------------------------
(* Properties *)

\* A call that has an effect takes the answer computed for it, whole (the
\* numbers and offsets rpc() checks); none runs twice, a broken session is not
\* replayed (api.cpp, rpc()); and no session finds the device still open to an
\* earlier one (the grammar restarts when a client goes).
SessionsAreClean == kept.wrong = {}
\* Not so: an answer to an earlier session's call, whose job outlasted it, reaches
\* the session that opened the port since.  Its probe is what turns it away.
AnswersReachTheirSession ==
  door = "wait" => \A i \in DOMAIN toHost : \A id \in toHost[i].ids : id[1] = session
\* Faults being finitely many, an application that keeps opening comes to a
\* device it may call (compatible()'s second probe, vif_link_down()).
Up == door = "idle" /\ stage = "up"
ComesUp == []<>Up
-----------------------------------------------------------------------------
(* Why it is so: the invariant that every step keeps. *)

OpNames == Ops \union {"none"}
Ids == Nat \X Nat
Statuses == {"none", "ok", "in use", "not open", "other"}
FrameType ==
  [kind : {"part", "fetch", "ack", "answer", "spoilt", "AT VIF PASSTHRU"}, op : OpNames,
   seq : Nat, off : Nat, more : BOOLEAN, ids : SUBSET Ids, status : Statuses]
HostType ==
  /\ door \in {"shut", "drain", "select", "idle", "wait"} /\ stage \in {"probe", "again", "open", "up"}
  /\ session \in 0 .. Sessions - 1
  /\ call \in [op : OpNames, seq : Nat, id : Ids, sent : Nat, got : Seq(SUBSET Ids)]
LinkType ==
  /\ toAdapter \in Seq(FrameType) /\ toHost \in Seq(FrameType)
  /\ front \in {"elm", "dirty", "wire"} /\ want \in {"none", "elm", "wire"}
  /\ gone \in {"mute", "switch", "unbind", "no"} /\ muted \in BOOLEAN
TaskType ==
  /\ rx \in [cut : BOOLEAN, on : BOOLEAN, op : OpNames, seq : Nat, len : Nat, ids : SUBSET Ids,
             ready : BOOLEAN, status : Statuses]
  /\ busy \in [op : OpNames, ids : SUBSET Ids, long : BOOLEAN] /\ dev \in 0 .. Sessions
WireTypeOK ==
  /\ HostType /\ LinkType /\ TaskType /\ faults \in 0 .. MaxFaults
  /\ kept \in [last : Ids, wrong : SUBSET {"alien", "twice", "refused"}]

Probing == stage \in {"probe", "again"}
\* The adapter has this client, or has not yet heard that it went.
Served == door # "shut" \/ gone = "mute"
\* Where the PC is.
StageFits ==
  /\ gone # "no" => door = "shut"
  /\ door \in {"drain", "select"} => Probing
  /\ door = "wait" => /\ call.op \in Ops /\ call.seq # 0
                      /\ Probing <=> call.op = "probe"
                      /\ stage = "open" <=> call.op = "open"
  /\ door = "idle" /\ stage = "open" => call.op = "probe"
\* The adapter has yet to be given the grammar a client starts with: what it is at
\* may be of an earlier session, and be answered in this one.
Leftover == gone = "switch" \/ want = "elm"
Late(f) == Probing /\ f.kind = "answer" /\ f.op # "probe"
\* Whose the numbers are: those of this session are no higher than its last call's.
NumbersFit ==
  /\ call.op # "none" => call.id = <<session, call.seq>>
  /\ \A i \in DOMAIN call.got : call.got[i] = {call.id}
  /\ \A i \in DOMAIN toAdapter :
       /\ toAdapter[i].seq <= call.seq
       /\ toAdapter[i].kind = "part" => toAdapter[i].ids = {<<session, toAdapter[i].seq>>}
  /\ door \in {"idle", "wait"} =>
       \A i \in DOMAIN toHost :
         /\ toHost[i].status # "in use"
         /\ ~Late(toHost[i]) =>
              /\ toHost[i].seq <= call.seq
              /\ toHost[i].kind = "answer" => toHost[i].ids = {<<session, toHost[i].seq>>}
  /\ \A i \in busy.ids : i[1] < Sessions /\ (i[1] = session => i[2] <= call.seq)
  /\ kept.last[1] = session => kept.last[2] <= call.seq
\* What the adapter is at.  A long job alone outlasts the session that asked for it.
AdapterFits ==
  /\ busy # NoJob => busy.op \in Ops /\ busy.op = rx.op /\ busy.ids = rx.ids
  /\ busy.long => busy.op # "probe"
  /\ rx.status # "in use"
  /\ busy.op = "open" => dev = NoSession
  /\ busy.op = "act" => busy.ids # {kept.last}
  /\ ~Leftover => /\ rx.seq <= call.seq /\ rx.ids \subseteq {<<session, rx.seq>>}
                  /\ rx.ready \/ busy # NoJob => rx.ids = {<<session, rx.seq>>}
\* With the client gone, and with its grammar still there when the next one comes.
LinkFits ==
  /\ muted => ~Served
  /\ front # "wire" => rx = Fresh /\ busy = NoJob /\ dev = NoSession
  /\ ~Served => toAdapter = <<>> /\ (~Leftover => rx = Fresh /\ busy = NoJob /\ dev = NoSession)
  /\ Leftover /\ Served =>
       /\ Probing
       /\ door \notin {"shut", "drain"} => (busy # NoJob => busy.long)
       /\ door \in {"idle", "wait"} =>
            \A i \in DOMAIN toHost : toHost[i].kind = "spoilt" \/ Late(toHost[i])
       /\ \A i \in DOMAIN toAdapter :
            toAdapter[i].kind # "fetch" /\ (toAdapter[i].kind = "part" => toAdapter[i].off = 0)
\* While the adapter is probed nothing else is asked.  A probe may be answered
\* late, but what is of the probe waited for is the last of what is on its way.
ProbeFits ==
  /\ Served /\ Probing =>
       /\ \A i \in DOMAIN toAdapter : toAdapter[i].kind = "part" => toAdapter[i].op = "probe"
       /\ ~Leftover => dev = NoSession /\ busy.op \in {"none", "probe"}
  /\ Served /\ stage = "open" /\ call.op = "probe" => dev = NoSession
  /\ door = "wait" /\ Probing =>
       /\ \A i \in DOMAIN toHost :
            toHost[i].op = "probe" /\ toHost[i].seq = call.seq =>
              i = Len(toHost) /\ busy = NoJob /\ toAdapter = <<>>
       /\ ~Leftover /\ busy # NoJob /\ rx.seq = call.seq => toAdapter = <<>>
       /\ \A i \in DOMAIN toAdapter : toAdapter[i].seq = call.seq => i = Len(toAdapter)
\* From then on one thing is on its way, and what has been sent in part has not run.
NotRun == kept.last # call.id /\ (call.op = "open" => dev = NoSession)
CallFits ==
  Served /\ ~Probing =>
    /\ Len(toAdapter) + Len(toHost) + (IF busy = NoJob THEN 0 ELSE 1) <= (IF door = "idle" THEN 0 ELSE 1)
    /\ call.op \in Ops /\ (call.sent < Sizes[call.op][1] => NotRun)
    /\ \A i \in DOMAIN toAdapter :
         toAdapter[i].kind = "part" => call.sent # 0 /\ toAdapter[i] = Part(call, call.sent - 1) /\ NotRun
    /\ busy # NoJob =>
         rx.seq = call.seq /\ busy.op = call.op /\ ~(call.sent < Sizes[call.op][1]) /\ NotRun
WireInv ==
  /\ WireTypeOK /\ StageFits /\ NumbersFit /\ AdapterFits /\ LinkFits /\ ProbeFits /\ CallFits
  /\ SessionsAreClean
=============================================================================
