----------------------------- MODULE ElmCollect -----------------------------
(***************************************************************************)
(* One CAN request of the ELM327 grammar and the replies it collects       *)
(* (elm327_can_protocol_xfer(), elm327_at.c).                              *)
(*                                                                         *)
(* The modules of the vehicle talk in any order, asked or not: in one      *)
(* frame, with a notice that a reply will come, both as often as they      *)
(* like, or with a message in several frames of which all but the first    *)
(* wait for flow control (one such message to a request).  A module that   *)
(* falls silent takes no further step.  A stream is IsoTp's receiver, of   *)
(* which only the frames still to come are kept; which frames count as     *)
(* replies is ElmReplies.  Requests that are not formatted (AT CAF0) are   *)
(* left out.                                                               *)
(***************************************************************************)
EXTENDS Naturals, Sequences, FiniteSetsExt

CONSTANTS
  Ecus,
  Streams,    \* the receivers of a request
  Most,       \* bound: frames of a message after its first
  MaxRx,      \* bound: frames on their way
  Asked,      \* bound: the modules a client asks for one by one
  Counts,     \* bound: frames a client may say it expects; 0 is as many as come
  MaxUnsent   \* bound: flow controls that cannot be sent
ASSUME CollectAssumption ==
  /\ {Streams, Most, MaxRx} \subseteq Nat \ {0} /\ MaxUnsent \in Nat
  /\ 0 \in Counts /\ Counts \subseteq Nat /\ Asked \subseteq Ecus

Everyone == "everyone"
VARIABLES
  exchange,  \* "idle" or "waiting"
  asked,     \* the request: to whom, and num_frame
  pool,      \* streams: of which module, and how many frames are to come
  over,      \* the window has elapsed
  pended,    \* response_pending
  counter,   \* frame_counter, as far as num_frame
  ecu,       \* each module: "asked", "paused" after its first frame, "sending"
             \* the frames it has left, or "quiet": it begins no message
  arrived,   \* frames the controller has queued
  unsent
adapter == <<exchange, asked, pool, over, pended, counter>>
collectVars == <<adapter, ecu, arrived, unsent>>

FrameFrom(e, kind, n) == [from |-> e, kind |-> kind, more |-> n]
Quiet == [at |-> "quiet", left |-> 0]
Active == {s.of : s \in pool}
CollectInit ==
  /\ exchange = "idle" /\ asked = [to |-> Everyone, num |-> 0] /\ pool = {} /\ over = FALSE
  /\ pended = FALSE /\ counter = 0
  /\ ecu = [e \in Ecus |-> Quiet] /\ arrived = <<>> /\ unsent = 0

-----------------------------------------------------------------------------
(* The vehicle *)

Sends(e, frame, next) ==
  /\ exchange = "waiting" /\ Len(arrived) < MaxRx
  /\ arrived' = Append(arrived, frame) /\ ecu' = [ecu EXCEPT ![e] = next] /\ UNCHANGED <<adapter, unsent>>
\* Often, and also to a request that was somebody else's.
Speaks(e, kind) == ecu[e].at \in {"asked", "quiet"} /\ Sends(e, FrameFrom(e, kind, 0), ecu[e])
AnswersInOne(e) == Speaks(e, "single")
AnswersLater(e) == Speaks(e, "pending")
BeginsMessage(e) ==
  /\ ecu[e].at = "asked"
  /\ \E n \in 1 .. Most : Sends(e, FrameFrom(e, "first", n), [at |-> "paused", left |-> n])
Continues(e) ==
  /\ ecu[e].at = "sending"
  /\ Sends(e, FrameFrom(e, "next", 0), IF ecu[e].left = 1 THEN Quiet ELSE [ecu[e] EXCEPT !.left = @ - 1])

-----------------------------------------------------------------------------
(* The exchange *)

\* Up to the sending of the request.
Request(to, num) ==
  /\ exchange = "idle" /\ exchange' = "waiting" /\ asked' = [to |-> to, num |-> num]
  /\ pool' = {} /\ over' = FALSE /\ pended' = FALSE /\ counter' = 0 /\ UNCHANGED arrived
  /\ ecu' = [e \in Ecus |-> IF to \in {e, Everyone} THEN [at |-> "asked", left |-> 0]
                       ELSE IF ecu[e].at = "sending" THEN ecu[e] ELSE Quiet]
  /\ UNCHANGED unsent
\* What comes after the end is read and dropped before the next request.
Finish ==
  /\ exchange' = "idle" /\ pool' = {} /\ over' = FALSE /\ pended' = FALSE /\ counter' = 0
  /\ arrived' = <<>> /\ UNCHANGED asked

WindowElapses ==
  /\ exchange = "waiting" /\ ~over /\ over' = TRUE
  /\ UNCHANGED <<exchange, asked, pool, pended, counter, ecu, arrived, unsent>>
\* Mutant of StreamExpires: only the window is watched.
StreamOutlives == FALSE /\ UNCHANGED collectVars
\* isotp_rx_check_timeout(): one module that stops spoils the exchange.
StreamExpires == exchange = "waiting" /\ pool # {} /\ Finish /\ UNCHANGED <<ecu, unsent>>
\* With the window over and no message under way nothing more is read.
WindowEnds ==
  /\ exchange = "waiting" /\ over /\ pool = {}
  /\ Finish /\ UNCHANGED <<ecu, unsent>>

\* Mutant of StreamOf: whichever is under way.
AnyStream(e) == pool
StreamOf(e) == {s \in pool : s.of = e}
\* isotp_rx_feed(): a first frame opens a stream, the last one closes it.
Fed(frame) ==
  LET s == StreamOf(frame.from)
  IN  CASE frame.kind = "first" -> (pool \ s) \union {[of |-> frame.from, left |-> frame.more]}
        [] frame.kind \in {"single", "pending"} -> pool \ s
        [] OTHER -> (pool \ s) \union {[t EXCEPT !.left = @ - 1] : t \in {u \in s : u.left > 1}}
\* After a frame is shown: the frames the client counts, the one reply of one
\* module, or the window begins again.  The time a module asks for is not cut
\* short by what others say.
IsLast(frame) ==
  \/ asked.num > 0 /\ counter + 1 >= asked.num
  \/ asked.to # Everyone /\ \A s \in Fed(frame) : s.of # frame.from
FramesCounted == IF counter < asked.num THEN counter + 1 ELSE counter
Shown(frame) ==
  \/ /\ frame.kind = "pending" /\ pended' = TRUE /\ over' = FALSE /\ arrived' = Tail(arrived)
     /\ counter' = FramesCounted /\ pool' = Fed(frame) /\ UNCHANGED <<exchange, asked>>
  \/ frame.kind # "pending" /\ IsLast(frame) /\ Finish
  \/ /\ frame.kind # "pending" /\ ~IsLast(frame) /\ over' = (over /\ pended) /\ arrived' = Tail(arrived)
     /\ counter' = FramesCounted /\ pool' = Fed(frame) /\ UNCHANGED <<exchange, asked, pended>>
\* elm327_can_flow_control_id(): to the module whose first frame it was.
Invited(frame) ==
  ecu' = IF frame.kind = "first" /\ ecu[frame.from].at = "paused"
         THEN [ecu EXCEPT ![frame.from].at = "sending"] ELSE ecu
\* A frame of a module that was not asked, or of a message nobody has begun, is
\* passed over; one for which no stream is free ends the exchange.
TakesFrame ==
  LET frame == Head(arrived)
      ours == asked.to \in {Everyone, frame.from}
      known == StreamOf(frame.from) # {}
      room == known \/ Cardinality(pool) < Streams
  IN  /\ exchange = "waiting" /\ arrived # <<>> /\ ~(over /\ pool = {})
      /\ \/ /\ ~ours \/ (room /\ ~known /\ frame.kind = "next")
            /\ arrived' = Tail(arrived) /\ UNCHANGED <<adapter, ecu, unsent>>
         \/ ours /\ ~room /\ Finish /\ UNCHANGED <<ecu, unsent>>
         \/ ours /\ room /\ frame.kind = "first" /\ unsent < MaxUnsent /\ unsent' = unsent + 1
              /\ Finish /\ UNCHANGED ecu
         \/ ours /\ room /\ (known \/ frame.kind # "next")
              /\ Shown(frame) /\ Invited(frame) /\ UNCHANGED unsent

CollectStep == WindowElapses \/ StreamExpires \/ WindowEnds \/ TakesFrame
EcuStep(e) == AnswersInOne(e) \/ AnswersLater(e) \/ BeginsMessage(e) \/ Continues(e)
CollectNext ==
  \/ \E e \in Ecus : EcuStep(e)
  \/ \E to \in Asked \union {Everyone}, num \in Counts : Request(to, num)
  \/ CollectStep
CollectSpec == CollectInit /\ [][CollectNext]_collectVars

\* Time passes: the window runs out unless a reply starts it again, which after a
\* notice only another notice does, and a stream unless its next frame comes.
Reply ==
  /\ TakesFrame /\ asked.to \in {Everyone, Head(arrived).from}
  /\ Head(arrived).kind = "next" => StreamOf(Head(arrived).from) # {}
Restarts == Reply /\ (Head(arrived).kind = "pending" \/ ~pended)
WindowStep == WindowElapses \/ WindowEnds \/ Restarts
StreamStep == StreamExpires \/ (Reply /\ Head(arrived).kind \in {"first", "next"})
CollectFairSpec == CollectSpec /\ WF_collectVars(WindowStep) /\ WF_collectVars(StreamStep)

-----------------------------------------------------------------------------
(* Properties *)

\* Messages of several modules do not mix: a stream waits for exactly the frames
\* its module has still to send or has sent (isotp_rx_matches()).
OnTheWay(e) == Cardinality({i \in DOMAIN arrived : arrived[i].from = e /\ arrived[i].kind = "next"})
MessagesStayApart ==
  \A e \in Ecus : ecu[e].at = "sending" /\ e \in Active =>
    \A s \in pool : s.of = e => s.left = ecu[e].left + OnTheWay(e)
\* A request stays open for ever only while modules that were asked go on giving
\* replies or, once one has asked for time, notices.  Other traffic, frames of a
\* message that nobody has begun and modules that stop half-way do not hold it.
CollectionEnds == <>[](exchange = "waiting") => []<><<Restarts>>_collectVars
\* Not so: the timer starts again with every such frame.
CollectionAlwaysEnds == exchange = "waiting" ~> exchange = "idle"
=============================================================================
