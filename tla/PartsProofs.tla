----------------------------- MODULE PartsProofs -----------------------------
(***************************************************************************)
(* Proofs about the small parts: the port the clients are multiplexed on   *)
(* (CommPort), the SLCAN grammar (Slcan), what the ELM327 grammar takes    *)
(* for a reply, how it puts one together, how long it waits for one and    *)
(* how it takes commands (ElmReplies, ElmCollect, Elm327Timing, ElmLine),  *)
(* and who may pair over Bluetooth (BlePairing).  They share nothing but a *)
(* lemma on the lesser of two numbers.                                     *)
(***************************************************************************)
EXTENDS CommPort, Slcan, ElmReplies, ElmCollect, Elm327Timing, ElmLine, BlePairing,
        FiniteSetTheorems, SequenceTheorems, WellFoundedInduction, TLAPS

-------------------------------------------------------------------------------
(***************************************************************************)
(* CommPort, for any sizes of the rings and any interleaving of the        *)
(* writer, the reader and the client's leaving.                            *)
(***************************************************************************)

\* What MIN() of two numbers is.
LEMMA LesserOf ==
  ASSUME NEW a \in Nat, NEW b \in Nat
  PROVE  Min({a, b}) = IF a <= b THEN a ELSE b
<1>1. \A x \in {a, b} : (\A y \in {a, b} : x <= y) => x = IF a <= b THEN a ELSE b
  OBVIOUS
<1>2. \E x \in {a, b} : \A y \in {a, b} : x <= y
  <2>1. CASE a <= b
    BY <2>1
  <2>2. CASE b <= a
    BY <2>2
  <2>3. QED
    BY <2>1, <2>2
<1>3. Min({a, b}) \in {a, b} /\ \A y \in {a, b} : Min({a, b}) <= y
  BY <1>2 DEF Min
<1>4. QED
  BY <1>1, <1>3

\* What a port may hold, and how far a write has come.
PortTypeOK ==
  /\ ring \in 0 .. RxCap /\ pending \in Nat /\ held \in Nat
  /\ mute \in BOOLEAN /\ online \in BOOLEAN
  /\ queued \in 0 .. TxCap /\ sent \in Nat
  /\ writing \in [at : {"none", "rest", "done"}, size : Nat, ok : BOOLEAN]
WriteFits == writing.at = "rest" => ~writing.ok /\ sent <= writing.size
PortInv == PortTypeOK /\ WriteFits /\ PortIsTrue

LEMMA TakenFits ==
  ASSUME NEW n \in Nat, queued \in 0 .. TxCap
  PROVE  Taken(n) \in 0 .. n /\ queued + Taken(n) \in 0 .. TxCap
<1>1. TxCap \in Nat /\ TxCap - queued \in Nat
  BY PortAssumption DEF PortAssumption
<1>2. QED
  BY <1>1, LesserOf DEF Taken

LEMMA PortStep == PortInv /\ [PortNext]_portVars => PortInv'
<1> SUFFICES ASSUME PortInv, [PortNext]_portVars PROVE PortInv'
  OBVIOUS
<1>0. RxCap \in Nat /\ TxCap \in Nat /\ Chunk \in Nat
  BY PortAssumption DEF PortAssumption
<1> USE DEF PortInv, PortIsTrue
<1>a. ASSUME UNCHANGED <<queued, writing, sent>>, ring' \in 0 .. RxCap, pending' \in Nat, held' \in Nat,
             mute' \in BOOLEAN, online' \in BOOLEAN, BacklogIsThere'
      PROVE  PortInv'
  BY <1>a DEF PortTypeOK, WriteFits, WritesAreWhole
<1>b. ASSUME UNCHANGED <<ring, pending, held, mute, online>>, queued' \in 0 .. TxCap, sent' \in Nat,
             writing' \in [at : {"none", "rest", "done"}, size : Nat, ok : BOOLEAN],
             WriteFits', WritesAreWhole'
      PROVE  PortInv'
  BY <1>b DEF PortTypeOK, BacklogIsThere
<1>1. CASE \E n \in 1 .. Chunk : Deliver(n)
  BY <1>0, <1>1, <1>a DEF Deliver, PortTypeOK, BacklogIsThere, txVars
<1>2. CASE \E n \in 1 .. Chunk : Take(n)
  BY <1>0, <1>2, <1>a DEF Take, PortTypeOK, BacklogIsThere, txVars
<1>3. CASE \E n \in 1 .. Chunk : Write(n)
  <2>1. PICK n \in 1 .. Chunk : Write(n)
    BY <1>3
  <2>2. n \in Nat /\ Taken(n) \in 0 .. n /\ queued + Taken(n) \in 0 .. TxCap
    BY <1>0, <2>1, TakenFits DEF PortTypeOK
  <2>3. QED
    BY <2>1, <2>2, <1>b DEF Write, rxVars, WriteFits, WritesAreWhole
<1>4. CASE CountOff
  <2>1. pending \in Nat /\ held \in Nat /\ ring \in Nat /\ pending <= ring + held
    BY <1>0 DEF PortTypeOK, BacklogIsThere
  <2>2. Less(pending, held) = IF pending <= held THEN 0 ELSE pending - held
    BY <2>1, LesserOf DEF Less
  <2>3. Less(pending, held) \in Nat /\ Less(pending, held) <= ring
    BY <2>1, <2>2
  <2>4. QED
    BY <1>4, <2>1, <2>3, <1>a DEF CountOff, PortTypeOK, BacklogIsThere, txVars
<1>5. CASE ClientGone \/ ClientComes \/ ClientReady
  <2>1. UNCHANGED <<queued, writing, sent, held>> /\ mute' \in BOOLEAN /\ online' \in BOOLEAN
    BY <1>5 DEF ClientGone, ClientComes, ClientReady, PortTypeOK, txVars, rxVars
  <2>2. (ring' = 0 /\ pending' = 0) \/ UNCHANGED <<ring, pending>>
    BY <1>5 DEF ClientGone, ClientComes, ClientReady, rxVars
  <2>3. QED
    BY <1>0, <2>1, <2>2, <1>a DEF PortTypeOK, BacklogIsThere
<1>6. CASE FlushedRest
  <2>1. PICK q \in {0, queued} :
          LET more == Min({writing.size - sent, TxCap - q})
          IN  /\ queued' = q + more /\ sent' = sent + more
              /\ writing' = [writing EXCEPT !.at = "done", !.ok = (sent + more = writing.size)]
    BY <1>6 DEF FlushedRest
  <2> DEFINE more == Min({writing.size - sent, TxCap - q})
  <2>2. writing \in [at : {"none", "rest", "done"}, size : Nat, ok : BOOLEAN] /\ sent \in Nat
    BY DEF PortTypeOK
  <2>3. writing.size - sent \in Nat /\ TxCap - q \in Nat /\ q \in 0 .. TxCap
    BY <1>0, <1>6, <2>2 DEF FlushedRest, WriteFits, PortTypeOK
  <2>4. more \in Nat /\ q + more \in 0 .. TxCap
    BY <1>0, <2>3, LesserOf
  <2>5. queued' = q + more /\ sent' = sent + more
        /\ writing' = [writing EXCEPT !.at = "done", !.ok = (sent + more = writing.size)]
    BY <2>1
  <2> HIDE DEF more
  <2>6. writing' \in [at : {"none", "rest", "done"}, size : Nat, ok : BOOLEAN]
        /\ writing'.at = "done" /\ writing'.ok = (sent' = writing'.size)
    BY <2>2, <2>5
  <2>7. QED
    BY <1>6, <2>2, <2>4, <2>5, <2>6, <1>b DEF FlushedRest, rxVars, WriteFits, WritesAreWhole
<1>7. CASE Written
  BY <1>7, <1>b DEF Written, NoWrite, rxVars, PortTypeOK, WriteFits, WritesAreWhole
<1>8. CASE HostReads
  BY <1>0, <1>8, <1>b DEF HostReads, rxVars, PortTypeOK, WriteFits, WritesAreWhole
<1>9. CASE UNCHANGED portVars
  BY <1>9, <1>a DEF portVars, PortTypeOK, BacklogIsThere
<1>10. QED
  BY <1>1, <1>2, <1>3, <1>4, <1>5, <1>6, <1>7, <1>8, <1>9 DEF PortNext

\* The rings hold what they may, wherever the reader and the writer are.
THEOREM PortHolds == PortSpec => []PortInv
<1>1. ASSUME PortInit PROVE PortInv
  <2>1. RxCap \in Nat /\ TxCap \in Nat
    BY PortAssumption DEF PortAssumption
  <2>a. mute \in BOOLEAN /\ online \in BOOLEAN
    BY <1>1 DEF PortInit
  <2>b. writing \in [at : {"none", "rest", "done"}, size : Nat, ok : BOOLEAN]
    BY <1>1 DEF PortInit, NoWrite
  <2>2. PortTypeOK
    BY <1>1, <2>1, <2>a, <2>b DEF PortInit, PortTypeOK
  <2>3. WriteFits /\ WritesAreWhole /\ BacklogIsThere
    BY <1>1 DEF PortInit, WriteFits, WritesAreWhole, BacklogIsThere, NoWrite
  <2>4. QED
    BY <2>2, <2>3 DEF PortInv, PortIsTrue
<1>2. QED
  BY <1>1, PortStep, PTL DEF PortSpec

\* The backlog shown is there, whenever a client leaves while its bytes are being
\* read, and a write reported whole is whole (comm_port_read(),
\* comm_port_client_gone(), comm_port_write()).
THEOREM PortTheorem == PortSpec => []PortIsTrue
<1>1. PortInv => PortIsTrue
  BY DEF PortInv
<1>2. QED
  BY <1>1, PortHolds, PTL

-------------------------------------------------------------------------------
(***************************************************************************)
(* Slcan, for any set of words and rates and any length of a line.         *)
(***************************************************************************)

\* The rate that runs is the rate set, and the client counts on no other.
RateFits ==
  /\ told \in {rate, NoRate}
  /\ chan = "open" => speed = rate
\* What the grammar has of the client's line.
LineFits ==
  /\ typed \in (Words \cup {NoWord}) \X (0 .. CmdMax) /\ idx \in 0 .. CmdMax /\ discard \in BOOLEAN
  /\ typed[2] = 0 => typed = <<NoWord, 0>>
  /\ IF discard THEN typed[2] = CmdMax ELSE idx = typed[2] /\ idx < CmdMax
  /\ idx > 0 => word \in Words
SlcanInv == RateFits /\ LineFits

LEMMA RateStep == RateFits /\ [SlcanNext]_slcanVars => RateFits'
<1> SUFFICES ASSUME RateFits, [SlcanNext]_slcanVars PROVE RateFits'
  OBVIOUS
<1> USE DEF RateFits
<1>a. ASSUME UNCHANGED <<rate, told>>, UNCHANGED speed \/ speed' = rate, chan' = "open" => speed' = rate
      PROVE  RateFits'
  BY <1>a
<1>1. CASE \E w \in Words : Types(w)
  BY <1>1 DEF Types
<1>2. CASE EndsLine
  <2>1. CASE BusKept /\ UNCHANGED <<rate, told>>
    BY <2>1 DEF BusKept
  <2>2. CASE OpenBus
    BY <2>2 DEF OpenBus, BusKept, BusOpens, BusRefuses
  <2>3. CASE CloseBus
    BY <2>3 DEF CloseBus, BusKept
  <2>4. CASE \E w \in Rates : SetRate(w)
    BY <2>4 DEF SetRate, BusKept, BusOpens, BusRefuses
  <2>5. QED
    BY <1>2, <2>1, <2>2, <2>3, <2>4 DEF EndsLine, ParseCommand, SendFrame, Query
<1>3. CASE Poll \/ HearsFrame \/ ShellTakes \/ ShellReleases \/ GivenBack
  BY <1>3 DEF Poll, HearsFrame, ShellTakes, ShellReleases, GivenBack
<1>4. CASE UNCHANGED slcanVars
  BY <1>4 DEF slcanVars
<1>5. QED
  BY <1>1, <1>2, <1>3, <1>4 DEF SlcanNext

LEMMA LineStep == LineFits /\ [SlcanNext]_slcanVars => LineFits' /\ AnsweredOnce
<1> SUFFICES ASSUME LineFits, [SlcanNext]_slcanVars PROVE LineFits' /\ AnsweredOnce
  OBVIOUS
<1>0. CmdMax \in Nat /\ CmdMax > 0
  BY SlcanAssumption DEF SlcanAssumption
<1>1. CASE \E w \in Words : Types(w)
  <2>1. PICK w \in Words : Types(w)
    BY <1>1
  <2> DEFINE n == IF typed[2] = 0 THEN 1 ELSE Min({typed[2] + 1, CmdMax})
             w1 == IF typed[2] = 0 THEN w ELSE typed[1]
  <2>2. typed' = <<w1, n>>
    BY <2>1 DEF Types, TypedWith
  <2>3. typed[2] \in 0 .. CmdMax /\ typed[1] \in Words \cup {NoWord}
    BY DEF LineFits
  <2>4. n \in 1 .. CmdMax /\ n = (IF typed[2] = CmdMax THEN CmdMax ELSE typed[2] + 1)
    BY <1>0, <2>3, LesserOf
  <2>5. w1 \in Words \cup {NoWord}
    BY <2>3
  <2> HIDE DEF n, w1
  <2>6. typed' \in (Words \cup {NoWord}) \X (0 .. CmdMax) /\ typed'[2] = n /\ n # 0
    BY <1>0, <2>2, <2>4, <2>5
  <2>7. AnsweredOnce
    BY <2>2, <2>4 DEF AnsweredOnce
  <2>8. CASE discard
    <3>1. UNCHANGED <<word, idx, discard>> /\ typed[2] = CmdMax
      BY <2>1, <2>8 DEF Types, LineFits
    <3>2. QED
      BY <1>0, <2>4, <2>6, <2>7, <2>8, <3>1 DEF LineFits
  <2>9. CASE ~discard
    <3>1. /\ word' = (IF idx = 0 THEN w ELSE word)
          /\ idx' = (IF idx + 1 = CmdMax THEN 0 ELSE idx + 1) /\ discard' = (idx + 1 = CmdMax)
      BY <2>1, <2>9 DEF Types
    <3>2. idx = typed[2] /\ idx < CmdMax /\ idx \in 0 .. CmdMax /\ (idx > 0 => word \in Words)
      BY <2>9 DEF LineFits
    <3>3. n = idx + 1
      BY <1>0, <2>4, <3>2
    <3>4. word' \in Words
      BY <2>1, <3>1, <3>2
    <3>5. idx' \in 0 .. CmdMax /\ discard' \in BOOLEAN
      BY <1>0, <3>1, <3>2
    <3>6. IF discard' THEN n = CmdMax ELSE idx' = n /\ idx' < CmdMax
      <4>1. CASE idx + 1 = CmdMax
        BY <3>1, <3>3, <4>1
      <4>2. CASE idx + 1 # CmdMax
        <5>1. ~discard' /\ idx' = idx + 1
          BY <3>1, <4>2
        <5>2. QED
          BY <1>0, <3>2, <3>3, <4>2, <5>1
      <4>3. QED
        BY <4>1, <4>2
    <3>7. QED
      BY <2>6, <2>7, <3>4, <3>5, <3>6 DEF LineFits
  <2>10. QED
    BY <2>8, <2>9
<1>2. CASE EndsLine
  <2>1. LineFits'
    <3>1. typed' = <<NoWord, 0>> /\ idx' = 0
      BY <1>2 DEF EndsLine
    <3>2. discard' = FALSE
      BY <1>2 DEF EndsLine
    <3>3. typed' \in (Words \cup {NoWord}) \X (0 .. CmdMax) /\ typed'[2] = 0 /\ idx' \in 0 .. CmdMax
      BY <1>0, <3>1
    <3>4. discard' \in BOOLEAN /\ ~discard'
      BY <3>2
    <3>5. QED
      BY <1>0, <3>1, <3>3, <3>4 DEF LineFits
  <2>2. typed[2] # 0 /\ (typed[2] = CmdMax <=> discard) /\ (discard \/ idx > 0)
    BY <1>0, <1>2 DEF EndsLine, LineFits
  <2>3. CASE discard
    <3>1. answers' = <<"nack">>
      BY <1>2, <2>3 DEF EndsLine, Nack
    <3>2. QED
      BY <2>1, <3>1 DEF AnsweredOnce
  <2>4. CASE ~discard
    <3>1. ParseCommand(word)
      BY <1>2, <2>2, <2>4, <1>0 DEF EndsLine, LineFits
    <3>2. answers' = <<"ack">> \/ answers' = <<"nack">>
      <4>1. CASE OpenBus \/ CloseBus
        BY <4>1 DEF OpenBus, CloseBus, Ack, Nack
      <4>2. CASE SendFrame(word) \/ Query(word) \/ SetRate(word)
        BY <4>2 DEF SendFrame, Query, SetRate, Ack, Nack
      <4>3. QED
        BY <3>1, <4>1, <4>2 DEF ParseCommand
    <3>3. Len(answers') = 1
      BY <3>2
    <3>4. QED
      BY <2>1, <2>2, <2>4, <3>3 DEF AnsweredOnce
  <2>5. QED
    BY <2>3, <2>4
<1>3. CASE UNCHANGED lineVars
  BY <1>3 DEF lineVars, LineFits, AnsweredOnce
<1>4. QED
  BY <1>1, <1>2, <1>3 DEF SlcanNext, Poll, HearsFrame, ShellTakes, ShellReleases, GivenBack, slcanVars, lineVars

LEMMA SlcanBegins == SlcanInit => SlcanInv
<1> SUFFICES ASSUME SlcanInit PROVE SlcanInv
  OBVIOUS
<1>1. CmdMax \in Nat /\ CmdMax > 0
  BY SlcanAssumption DEF SlcanAssumption
<1>2. RateFits
  BY DEF SlcanInit, RateFits
<1>3. LineFits
  <2>1. typed = <<NoWord, 0>> /\ idx = 0
    BY DEF SlcanInit
  <2>2. discard \in BOOLEAN /\ ~discard
    BY DEF SlcanInit
  <2>3. typed \in (Words \cup {NoWord}) \X (0 .. CmdMax) /\ typed[2] = 0 /\ idx \in 0 .. CmdMax
    BY <1>1, <2>1
  <2>4. QED
    BY <1>1, <2>1, <2>2, <2>3 DEF LineFits
<1>4. QED
  BY <1>2, <1>3 DEF SlcanInv

\* Both parts of the invariant hold, whatever the client types and the bus does.
THEOREM SlcanHolds == SlcanSpec => []SlcanInv
<1>1. SlcanInv /\ [SlcanNext]_slcanVars => SlcanInv'
  BY RateStep, LineStep DEF SlcanInv
<1>2. QED
  BY SlcanBegins, <1>1, PTL DEF SlcanSpec

\* An open channel runs at the rate the client was last granted, however often the
\* bus is lost, refused or set again (slcan_parse_command()).
THEOREM SpeedTheorem == SlcanSpec => []SpeedIsAsTold
<1>1. SlcanInv => SpeedIsAsTold
  BY DEF SlcanInv, RateFits, SpeedIsAsTold
<1>2. QED
  BY <1>1, SlcanHolds, PTL

\* Every line is answered once, and one that is too long is refused whole
\* (slcan_fe_feed()).
THEOREM LinesTheorem == SlcanSpec => LineIsAnswered
<1>1. SlcanInv /\ [SlcanNext]_slcanVars => [AnsweredOnce]_slcanVars
  BY LineStep DEF SlcanInv
<1>2. QED
  BY <1>1, SlcanHolds, PTL DEF SlcanSpec, LineIsAnswered

-------------------------------------------------------------------------------
(***************************************************************************)
(* ElmReplies, for any modules in the vehicle.  A frame that is heard was  *)
(* said by a module that was asked, in the form the protocol gives it; the *)
(* rest is what can be told from the bytes of it.                          *)
(***************************************************************************)

\* What is heard was said by a module that was asked, to a request that was made.
AnswerFits(m) ==
  IF proto \in Can THEN frame.id = AnswerId(proto, frame.to, m)
  ELSE /\ frame.target = Answered(proto, frame.to, m).target
       /\ frame.mode \in {Answered(proto, frame.to, m).mode} \cup (IF proto \in Kwp THEN {"none"} ELSE {})
       /\ frame.headed = HeaderLen(proto, frame)
FrameFits ==
  frame # NoFrame =>
    /\ frame.to \in Headers(proto) /\ frame.of \in Requests /\ frame.data \in Says(frame.of)
    /\ \E m \in Responders(proto, frame.to) : AnswerFits(m)
RepliesInv ==
  proto \in Protocols /\ header \in Headers(proto) /\ request \in Requests /\ FrameFits

-------------------------------------------------------------------------------
(* What is said. *)

LEMMA RequestsAre ==
  \A r \in Requests : /\ r \in Seq(Nat) /\ Len(r) \in {2, 3} /\ r[1] \in {1, 2, 34}
                      /\ Len(r) = (IF r[1] = 1 THEN 2 ELSE 3)
<1> SUFFICES ASSUME NEW r \in Requests
             PROVE  /\ r \in Seq(Nat) /\ Len(r) \in {2, 3} /\ r[1] \in {1, 2, 34}
                    /\ Len(r) = (IF r[1] = 1 THEN 2 ELSE 3)
  OBVIOUS
<1>1. ASSUME NEW n \in Nat, r = <<1, n>> PROVE r \in Seq(Nat) /\ Len(r) = 2 /\ r[1] = 1
  BY <1>1
<1>2. ASSUME NEW s \in Nat, NEW n \in Nat, r = <<s, 0, n>> PROVE r \in Seq(Nat) /\ Len(r) = 3 /\ r[1] = s
  BY <1>2
<1>3. r \in {<<1, 0>>, <<1, 1>>} \/ r \in {<<2, 0, 0>>, <<34, 0, 1>>}  \/ r = <<34, 1, 1>>
  BY DEF Requests
<1>4. CASE r \in {<<1, 0>>, <<1, 1>>}
  BY <1>1, <1>4
<1>5. CASE r \in {<<2, 0, 0>>, <<34, 0, 1>>}
  BY <1>2, <1>5
<1>6. CASE r = <<34, 1, 1>>
  BY <1>6
<1>7. QED
  BY <1>3, <1>4, <1>5, <1>6

\* The reply to a request repeats the whole of it.
LEMMA EchoedIs == \A r \in Requests : Echoed(r[1]) + 1 = Len(r)
BY RequestsAre DEF Echoed

LEMMA SaidIs ==
  ASSUME NEW r \in Requests
  PROVE  LET d == <<r[1] + 64>> \o Tail(r) \o <<85>>
         IN  /\ d \in Seq(Nat) /\ Len(d) = Len(r) + 1 /\ d[1] = r[1] + 64
             /\ \A i \in 2 .. Len(r) : d[i] = r[i]
<1> DEFINE h == <<r[1] + 64>>
           t == Tail(r)
           d == (h \o t) \o <<85>>
<1>a. r \in Seq(Nat) /\ Len(r) \in {2, 3} /\ r[1] \in {1, 2, 34}
  BY RequestsAre
<1>b. Len(<<>>) = 0
  OBVIOUS
<1>1. r \in Seq(Nat) /\ r # <<>> /\ Len(r) \in Nat /\ Len(r) > 1 /\ r[1] \in Nat
  <2>1. r # <<>>
    BY <1>a, <1>b
  <2>2. Len(r) \in Nat /\ Len(r) > 1
    <3>1. Len(r) = 2 \/ Len(r) = 3
      BY <1>a
    <3>2. QED
      BY <3>1
  <2>3. r[1] \in Nat
    BY <1>a
  <2>4. QED
    BY <1>a, <2>1, <2>2, <2>3
<1>2. h \in Seq(Nat) /\ Len(h) = 1 /\ h[1] = r[1] + 64 /\ <<85>> \in Seq(Nat) /\ Len(<<85>>) = 1
  BY <1>1
<1>3. t \in Seq(Nat) /\ Len(t) = Len(r) - 1 /\ \A i \in 1 .. Len(t) : t[i] = r[i + 1]
  BY <1>1, HeadTailProperties
<1> HIDE DEF h, t
<1>c. h \o t \in Seq(Nat) /\ Len(h \o t) = Len(h) + Len(t)
      /\ \A i \in 1 .. Len(h) + Len(t) : (h \o t)[i] = IF i <= Len(h) THEN h[i] ELSE t[i - Len(h)]
  <2>1. h \in Seq(Nat) /\ t \in Seq(Nat)
    BY <1>2, <1>3
  <2>2. QED
    BY <2>1, ConcatProperties
<1>d. Len(h) + Len(t) = Len(r)
  BY <1>1, <1>2, <1>3
<1>4. h \o t \in Seq(Nat) /\ Len(h \o t) = Len(r)
      /\ \A i \in 1 .. Len(h) + Len(t) : (h \o t)[i] = IF i <= Len(h) THEN h[i] ELSE t[i - Len(h)]
  BY <1>c, <1>d
<1>5. (h \o t)[1] = r[1] + 64
  BY <1>1, <1>2, <1>3, <1>4
<1>6. ASSUME NEW i \in 2 .. Len(r) PROVE (h \o t)[i] = r[i]
  <2>1. i \in 1 .. Len(h) + Len(t) /\ ~(i <= Len(h)) /\ i - 1 \in 1 .. Len(t) /\ (i - 1) + 1 = i /\ i - Len(h) = i - 1
    BY <1>1, <1>2, <1>3
  <2>2. (h \o t)[i] = t[i - 1]
    BY <1>4, <2>1
  <2>3. t[i - 1] = r[i]
    BY <1>3, <2>1
  <2>4. QED
    BY <2>2, <2>3
<1>7. d \in Seq(Nat) /\ Len(d) = Len(r) + 1
      /\ \A i \in 1 .. Len(h \o t) + 1 : d[i] = IF i <= Len(h \o t) THEN (h \o t)[i] ELSE <<85>>[i - Len(h \o t)]
  BY <1>2, <1>4, ConcatProperties
<1>8. \A i \in 1 .. Len(r) : d[i] = (h \o t)[i]
  BY <1>1, <1>4, <1>7
<1> HIDE DEF d
<1>e. 1 \in 1 .. Len(r) /\ \A i \in 2 .. Len(r) : i \in 1 .. Len(r)
  BY <1>1
<1>9. d[1] = r[1] + 64 /\ \A i \in 2 .. Len(r) : d[i] = r[i]
  BY <1>5, <1>6, <1>8, <1>e
<1>10. QED
  BY <1>7, <1>9 DEF d, h, t

\* Of what a module says, the request it is for is known by its service and its identifier.
LEMMA DataIs ==
  ASSUME NEW r \in Requests, NEW d \in Says(r)
  PROVE  /\ Len(d) = 3 /\ d[1] = 127 => d[2] = r[1]
         /\ d[1] = 127 => Len(d) = 3
         /\ d[1] # 127 => /\ d[1] = r[1] + 64 /\ Len(d) = Len(r) + 1
                          /\ \A i \in 2 .. Len(r) : d[i] = r[i]
<1>1. r[1] \in Nat /\ r[1] + 64 # 127
  BY RequestsAre
<1>2. CASE d = <<r[1] + 64>> \o Tail(r) \o <<85>>
  <2>1. Len(d) = Len(r) + 1 /\ d[1] = r[1] + 64 /\ \A i \in 2 .. Len(r) : d[i] = r[i]
    BY <1>2, SaidIs
  <2>2. QED
    BY <1>1, <2>1
<1>3. CASE d = <<127, r[1], 17>> \/ d = <<127, r[1], 120>>
  <2>1. Len(d) = 3 /\ d[1] = 127 /\ d[2] = r[1]
    BY <1>3
  <2>2. QED
    BY <2>1
<1>4. QED
  BY <1>2, <1>3 DEF Says

\* A reply that is no refusal matches one request.
LEMMA MatchesOne ==
  ASSUME NEW r \in Requests, NEW q \in Requests, NEW d \in Says(r), d[1] # 127, Matches(d, q)
  PROVE  r = q
<1>1. d[1] = r[1] + 64 /\ Len(d) = Len(r) + 1 /\ \A i \in 2 .. Len(r) : d[i] = r[i]
  BY DataIs
<1>2. d[1] = q[1] + 64 /\ \A i \in 2 .. Echoed(q[1]) + 1 : d[i] = q[i]
  BY DEF Matches
<1>a. r[1] \in Nat /\ q[1] \in Nat
  BY RequestsAre
<1>3. r[1] = q[1]
  BY <1>1, <1>2, <1>a
<1>4. Len(r) = Len(q) /\ Len(r) \in Nat /\ Echoed(q[1]) + 1 = Len(q)
  BY <1>3, RequestsAre, EchoedIs
<1>5. \A i \in 2 .. Len(r) : r[i] = q[i]
  BY <1>1, <1>2, <1>4
<1>6. \A i \in 1 .. Len(r) : r[i] = q[i]
  BY <1>3, <1>4, <1>5
<1>7. r \in Seq(Nat) /\ q \in Seq(Nat)
  BY RequestsAre
<1>8. QED
  BY <1>4, <1>6, <1>7, SeqEqual

LEMMA MatchesOwn ==
  ASSUME NEW r \in Requests, NEW d \in Says(r)
  PROVE  Matches(d, r)
<1>1. Echoed(r[1]) + 1 = Len(r) /\ Len(r) \in Nat
  BY RequestsAre, EchoedIs
<1>2. CASE d[1] = 127
  BY <1>2, DataIs DEF Matches
<1>3. CASE d[1] # 127
  <2>1. d[1] = r[1] + 64 /\ Len(d) = Len(r) + 1 /\ \A i \in 2 .. Len(r) : d[i] = r[i]
    BY <1>3, DataIs
  <2>2. Len(d) > Echoed(r[1]) /\ \A i \in 2 .. Echoed(r[1]) + 1 : d[i] = r[i]
    <3>1. Echoed(r[1]) = Len(r) - 1
      BY <1>1, RequestsAre DEF Echoed
    <3>2. QED
      BY <1>1, <2>1, <3>1
  <2>3. QED
    BY <1>3, <2>1, <2>2 DEF Matches
<1>4. QED
  BY <1>2, <1>3

-------------------------------------------------------------------------------
(* Who is heard. *)

LEMMA HeadersAre == Headers("can11") = Headers11 /\ Headers("can29") = Headers29
<1>1. "can11" # "can29" /\ "can29" # "can11"
  OBVIOUS
<1>2. "can11" \notin J1850 /\ "can11" \notin Kwp /\ "can29" \notin J1850 /\ "can29" \notin Kwp
  BY DEF J1850, Kwp
<1>3. "can11" # "iso" /\ "can29" # "iso"
  OBVIOUS
<1>4. QED
  BY <1>1, <1>2, <1>3 DEF Headers

LEMMA Heard11 ==
  ASSUME NEW h \in Headers("can11"), NEW m \in Responders("can11", h), NEW id, id = AnswerId("can11", h, m)
  PROVE  CanAddressed("can11", h, id)
<1>1. id = Std(2024 + m) /\ id.n = 2024 + m /\ ~id.ext /\ ~id.rtr
  BY DEF AnswerId, Std
<1>2. Obd \subseteq 0 .. 7
  BY RepliesAssumption DEF RepliesAssumption
<1>a. h \in Headers11
  BY HeadersAre
<1>3. h = Std(Functional11) \/ \E n \in Obd : h = Std(2016 + n)
  BY <1>a DEF Headers11
<1>4. CASE h = Std(Functional11)
  <2>1. h.n = 2015
    BY <1>4 DEF Std, Functional11
  <2>2. Multicast("can11", h) /\ m \in 0 .. 7
    BY <1>2, <2>1 DEF Multicast, Responders, Functional11
  <2>3. (2024 + m) \div 8 = 253
    BY <2>2
  <2>4. QED
    BY <1>1, <2>2, <2>3 DEF CanAddressed, CanReplyIdOk
<1>5. CASE \E n \in Obd : h = Std(2016 + n)
  <2>1. PICK n \in Obd : h = Std(2016 + n)
    BY <1>5
  <2>2. h.n = 2016 + n /\ n \in 0 .. 7
    BY <1>2, <2>1 DEF Std
  <2>3. m = n
    BY <2>2 DEF Multicast, Responders, Functional11
  <2>4. (2024 + m) \div 8 = 253 /\ id.n - 8 = 2016 + n
    BY <1>1, <2>2, <2>3
  <2>5. FlowControlId("can11", id) = h
    BY <2>1, <2>4 DEF FlowControlId
  <2>6. QED
    BY <1>1, <2>4, <2>5 DEF CanAddressed, CanReplyIdOk
<1>6. QED
  BY <1>3, <1>4, <1>5

LEMMA Heard29 ==
  ASSUME NEW h \in Headers("can29"), NEW m \in Responders("can29", h), NEW id, id = AnswerId("can29", h, m)
  PROVE  CanAddressed("can29", h, id)
<1>1. id = Ext(6, 218, Tester, m) /\ id.ext /\ ~id.rtr /\ id.pf = 218 /\ id.target = Tester /\ id.source = m
  BY DEF AnswerId, Ext
<1>2. CanReplyIdOk("can29", id)
  BY <1>1 DEF CanReplyIdOk
<1>3. \A pri, pf, t, s : NoPriority(Ext(pri, pf, t, s)) = Ext(0, pf, t, s)
  BY DEF NoPriority, Ext
<1>a. h \in Headers29
  BY HeadersAre
<1>4. \/ \E pri \in {4, 6} : h = Ext(pri, 219, 51, Tester)
      \/ \E pri \in {4, 6}, n \in Modules : h = Ext(pri, 218, n, Tester)
  BY <1>a DEF Headers29
<1>5. CASE \E pri \in {4, 6} : h = Ext(pri, 219, 51, Tester)
  <2>1. Multicast("can29", h)
    BY <1>3, <1>5 DEF Multicast
  <2>2. QED
    BY <1>2, <2>1 DEF CanAddressed
<1>6. CASE \E pri \in {4, 6}, n \in Modules : h = Ext(pri, 218, n, Tester)
  <2>1. PICK pri \in {4, 6}, n \in Modules : h = Ext(pri, 218, n, Tester)
    BY <1>6
  <2>2. NoPriority(h) = Ext(0, 218, n, Tester) /\ h.target = n
    BY <1>3, <2>1 DEF Ext
  <2>3. Ext(0, 218, n, Tester) # Ext(0, 219, 51, Tester)
    BY DEF Ext
  <2>4. m = n
    BY <2>2, <2>3 DEF Multicast, Responders
  <2>5. NoPriority(FlowControlId("can29", id)) = NoPriority(h)
    BY <1>1, <1>3, <2>2, <2>4 DEF FlowControlId
  <2>6. QED
    BY <1>2, <2>5 DEF CanAddressed
<1>7. QED
  BY <1>4, <1>5, <1>6

LEMMA HeardBytes ==
  ASSUME NEW p \in J1850 \cup KLine, NEW h \in Headers(p), NEW m, NEW s, NEW f,
         s.autoReceive, ~s.filterTx, f.target = Answered(p, h, m).target,
         f.mode \in {Answered(p, h, m).mode} \cup (IF p \in Kwp THEN {"none"} ELSE {})
  PROVE  AddressedToUs(p, h, s, f)
<1> USE DEF J1850, KLine, Kwp
<1>1. CASE p \in J1850
  <2>1. Answered(p, h, m) = [mode |-> "three", source |-> m, target |-> IF h.target = 106 THEN 107 ELSE h.source]
    BY <1>1 DEF Answered
  <2>2. f.target = (IF h.target = 106 THEN 107 ELSE h.source)
    BY <2>1
  <2>3. h.target = 106 => OddOf(h.target) = 107
    BY DEF OddOf
  <2>4. f.target \in {h.source, s.tester, OddOf(h.target)}
    BY <2>2, <2>3
  <2>5. QED
    BY <2>4 DEF AddressedToUs
<1>2. CASE p = "iso"
  <2>1. Answered(p, h, m) = [mode |-> "carb", source |-> m, target |-> 107]
    BY <1>2 DEF Answered
  <2>2. f.target = 107 /\ f.mode = "carb"
    BY <1>2, <2>1
  <2>3. QED
    BY <1>2, <2>2 DEF AddressedToUs
<1>3. CASE p = "kwp"
  <2>1. Answered(p, h, m) = [mode |-> "physical", source |-> m, target |-> h.source]
    BY <1>3 DEF Answered
  <2>2. f.target = h.source
    BY <2>1
  <2>3. QED
    BY <2>2 DEF AddressedToUs
<1>4. QED
  BY <1>1, <1>2, <1>3

-------------------------------------------------------------------------------
(* The invariant. *)

LEMMA LenIs == \A p, f : HeaderLen(p, f) \in Nat
BY DEF HeaderLen

\* What was heard is cut where its header ends.
LEMMA PayloadIs ==
  ASSUME RepliesInv, frame # NoFrame
  PROVE  Payload(proto, frame) = frame.data
<1>1. CASE proto \in Can
  BY <1>1 DEF Payload
<1>2. CASE proto \notin Can
  <2>1. frame.headed = HeaderLen(proto, frame)
    BY <1>2 DEF RepliesInv, FrameFits, AnswerFits
  <2>2. HeaderLen(proto, frame) - frame.headed = 0
    BY <2>1, LenIs
  <2>3. QED
    BY <1>2, <2>2 DEF Payload
<1>3. QED
  BY <1>1, <1>2

LEMMA RepliesStart == RepliesInit => RepliesInv
BY DEF RepliesInit, RepliesInv, FrameFits

LEMMA ByteFrameFits ==
  ASSUME NEW p \in J1850 \cup KLine, NEW h, NEW m, NEW data, NEW f \in Frames(p, h, m, data)
  PROVE  /\ f.of = request /\ f.to = h /\ f.data = data
         /\ f.target = Answered(p, h, m).target
         /\ f.mode \in {Answered(p, h, m).mode} \cup (IF p \in Kwp THEN {"none"} ELSE {})
         /\ f.headed = HeaderLen(p, f)
<1> DEFINE a == Answered(p, h, m)
           Modes == {a.mode} \cup (IF p \in Kwp THEN {"none"} ELSE {})
<1>1. p \notin Can
  BY DEF J1850, KLine, Kwp, Can
<1>2. PICK low \in {0, 5}, mode \in Modes : f = ByteFrame(p, h, a, mode, low, data)
  BY <1>1 DEF Frames
<1>3. /\ f.of = request /\ f.to = h /\ f.data = data /\ f.target = a.target /\ f.mode = mode /\ f.low = low
      /\ f.headed = (IF mode \in {"one", "none"} THEN 1 ELSE 3) + (IF p \in Kwp /\ low = 0 THEN 1 ELSE 0)
  BY <1>2 DEF ByteFrame
<1>4. p \in J1850 => p \notin Kwp /\ mode = "three"
  <2>1. p \in J1850 => p \notin Kwp
    BY DEF J1850, Kwp
  <2>2. p \in J1850 => a.mode = "three"
    <3>1. p \in J1850 => a = [mode |-> "three", source |-> m, target |-> IF h.target = 106 THEN 107 ELSE h.source]
      BY DEF Answered, J1850, Kwp
    <3>2. QED
      BY <3>1
  <2>3. QED
    BY <2>1, <2>2
<1>5. p = "iso" => p \notin Kwp /\ p \notin J1850 /\ mode = "carb"
  <2>1. p = "iso" => p \notin Kwp /\ p \notin J1850
    BY DEF J1850, Kwp
  <2>2. p = "iso" => a.mode = "carb"
    BY <2>1 DEF Answered
  <2>3. QED
    BY <2>1, <2>2
<1>6. p \in Kwp => p \notin J1850 /\ mode \in {"physical", "none"}
  <2>1. p \in Kwp => p = "kwp" /\ p \notin J1850
    BY DEF J1850, Kwp
  <2>2. p \in Kwp => a.mode = "physical"
    BY <2>1 DEF Answered
  <2>3. QED
    BY <2>1, <2>2
<1>7. p \in J1850 \/ p = "iso" \/ p \in Kwp
  BY DEF KLine
<1>8. f.headed = HeaderLen(p, f)
  <2>1. CASE p \in J1850
    BY <1>3, <1>4, <2>1 DEF HeaderLen
  <2>2. CASE p = "iso"
    BY <1>3, <1>5, <2>2 DEF HeaderLen
  <2>3. CASE p \in Kwp
    BY <1>3, <1>6, <2>3 DEF HeaderLen
  <2>4. QED
    BY <1>7, <2>1, <2>2, <2>3
<1>9. QED
  BY <1>3, <1>8

LEMMA RepliesStep == RepliesInv /\ [RepliesNext]_repliesVars => RepliesInv'
<1> SUFFICES ASSUME RepliesInv, [RepliesNext]_repliesVars
             PROVE  RepliesInv'
  OBVIOUS
<1> USE DEF RepliesInv
<1>1. CASE Sets
  <2>1. proto' = proto /\ request' = request /\ frame' = frame /\ header' \in Headers(proto)
    BY <1>1 DEF Sets
  <2>2. FrameFits'
    BY <2>1 DEF FrameFits, AnswerFits
  <2>3. QED
    BY <2>1, <2>2
<1>2. CASE Asks
  <2>1. proto' = proto /\ header' = header /\ request' \in Requests /\ frame' = frame
    BY <1>2 DEF Asks
  <2>2. FrameFits'
    BY <2>1 DEF FrameFits, AnswerFits
  <2>3. QED
    BY <2>1, <2>2
<1>3. CASE Hears
  <2>1. proto' = proto /\ header' = header /\ request' = request
    BY <1>3 DEF Hears
  <2>2. PICK m \in Responders(proto, header), data \in Says(request) : frame' \in Frames(proto, header, m, data)
    BY <1>3 DEF Hears
  <2>3. frame'.of = request /\ frame'.to = header /\ frame'.data = data /\ AnswerFits(m)'
    <3>1. CASE proto \in Can
      <4>1. frame' = [of |-> request, to |-> header, data |-> data, id |-> AnswerId(proto, header, m)]
        BY <2>2, <3>1 DEF Frames
      <4>2. QED
        BY <2>1, <3>1, <4>1 DEF AnswerFits
    <3>2. CASE proto \notin Can
      <4>1. proto \in J1850 \cup KLine
        BY <3>2 DEF Protocols
      <4>2. /\ frame'.of = request /\ frame'.to = header /\ frame'.data = data
            /\ frame'.target = Answered(proto, header, m).target
            /\ frame'.mode \in {Answered(proto, header, m).mode} \cup (IF proto \in Kwp THEN {"none"} ELSE {})
            /\ frame'.headed = HeaderLen(proto, frame')
        BY <2>2, <4>1, ByteFrameFits
      <4>3. QED
        BY <2>1, <3>2, <4>2 DEF AnswerFits
    <3>3. QED
      BY <3>1, <3>2
  <2>4. FrameFits'
    <3>1. frame'.to \in Headers(proto)' /\ frame'.of \in Requests /\ frame'.data \in Says(frame'.of)
      BY <2>1, <2>2, <2>3
    <3>2. m \in Responders(proto', frame'.to)
      BY <2>1, <2>2, <2>3
    <3>3. QED
      BY <2>3, <3>1, <3>2, <2>1 DEF FrameFits
  <2>5. QED
    BY <2>1, <2>4
<1>4. CASE UNCHANGED repliesVars
  BY <1>4 DEF repliesVars, FrameFits, AnswerFits
<1>5. QED
  BY <1>1, <1>2, <1>3, <1>4 DEF RepliesNext

\* What was heard last was said by a module that was asked, in the form it has.
THEOREM RepliesHold == RepliesSpec => []RepliesInv
<1>1. RepliesInit => RepliesInv
  BY RepliesStart
<1>2. RepliesInv /\ [RepliesNext]_repliesVars => RepliesInv'
  BY RepliesStep
<1>3. QED
  BY <1>1, <1>2, PTL DEF RepliesSpec

LEMMA HeardOnes == RepliesInv => RepliesAreHeard
<1> SUFFICES ASSUME RepliesInv, frame # NoFrame, frame.to = header, filters.autoReceive, ~filters.filterTx
             PROVE  IsHeard(proto, header, filters, frame)
  BY DEF RepliesAreHeard
<1>1. header \in Headers(proto) /\ \E m \in Responders(proto, header) : AnswerFits(m)
  BY DEF RepliesInv, FrameFits
<1>2. PICK m \in Responders(proto, header) : AnswerFits(m)
  BY <1>1
<1>3. CASE proto \in Can
  <2>1. frame.id = AnswerId(proto, header, m)
    BY <1>2, <1>3 DEF AnswerFits
  <2>2. CASE proto = "can11"
    <3>1. CanAddressed("can11", header, frame.id)
      BY <1>1, <2>1, <2>2, Heard11
    <3>2. QED
      BY <1>3, <2>2, <3>1 DEF IsHeard
  <2>3. CASE proto = "can29"
    <3>1. CanAddressed("can29", header, frame.id)
      BY <1>1, <2>1, <2>3, Heard29
    <3>2. QED
      BY <1>3, <2>3, <3>1 DEF IsHeard
  <2>4. QED
    BY <1>3, <2>2, <2>3 DEF Can
<1>4. CASE proto \notin Can
  <2>1. proto \in J1850 \cup KLine
    BY <1>4 DEF RepliesInv, Protocols
  <2>2. /\ frame.target = Answered(proto, header, m).target
        /\ frame.mode \in {Answered(proto, header, m).mode} \cup (IF proto \in Kwp THEN {"none"} ELSE {})
    BY <1>2, <1>4 DEF AnswerFits
  <2>3. AddressedToUs(proto, header, filters, frame)
    BY <1>1, <2>1, <2>2, HeardBytes
  <2>4. QED
    BY <1>4, <2>3 DEF IsHeard
<1>5. QED
  BY <1>3, <1>4

LEMMA CurrentOnes == RepliesInv => LateIsCurrent
<1> SUFFICES ASSUME RepliesInv, frame # NoFrame, frame.data[1] # 127,
                    LateReplyKind(proto, header, filters, request, frame) # "none"
             PROVE  frame.of = request
  BY DEF LateIsCurrent
<1>1. Payload(proto, frame) = frame.data
  BY PayloadIs
<1>2. Matches(frame.data, request)
  BY <1>1 DEF LateReplyKind
<1>3. request \in Requests /\ frame.of \in Requests /\ frame.data \in Says(frame.of)
  BY DEF RepliesInv, FrameFits
<1>4. QED
  BY <1>2, <1>3, MatchesOne

LEMMA CompleteOnes == RepliesInv => LateIsComplete
<1> SUFFICES ASSUME RepliesInv, frame # NoFrame, frame.of = request, filters.autoFormat,
                    IsHeard(proto, header, filters, frame)
             PROVE  LateReplyKind(proto, header, filters, request, frame)
                      = (IF frame.data[1] = 127 /\ frame.data[3] = 120 THEN "pending" ELSE "normal")
  BY DEF LateIsComplete
<1>1. Payload(proto, frame) = frame.data
  BY PayloadIs
<1>2. request \in Requests /\ frame.data \in Says(request)
  BY DEF RepliesInv, FrameFits
<1>3. Matches(frame.data, request)
  BY <1>2, MatchesOwn
<1>4. QED
  BY <1>1, <1>3 DEF LateReplyKind

\* What a module of the vehicle says to a request is heard, and after the prompt
\* only an answer to the last request is taken for one: RepliesAreTold of every
\* reachable state (elm327_frame_is_addressed_to_us(), elm327_late_reply_kind()).
THEOREM RepliesTheorem == RepliesSpec => []RepliesAreTold
<1>1. RepliesInv => RepliesAreTold
  BY HeardOnes, CurrentOnes, CompleteOnes DEF RepliesAreTold
<1>2. QED
  BY <1>1, RepliesHold, PTL

-------------------------------------------------------------------------------
(***************************************************************************)
(* ElmCollect, for any number of modules, of frames and of streams.  The   *)
(* invariant follows each module from the request to its last frame:       *)
(* before it has begun it has nothing in the queue, and while its first    *)
(* frame is there it waits to be invited.                                  *)
(***************************************************************************)

Kinds == {"single", "pending", "first", "next"}
FrameType == [from : Ecus, kind : Kinds, more : Nat]
CollectTypeOK ==
  /\ exchange \in {"idle", "waiting"} /\ asked \in [to : Ecus \cup {Everyone}, num : Nat]
  /\ pool \subseteq [of : Ecus, left : Nat] /\ over \in BOOLEAN /\ pended \in BOOLEAN /\ counter \in Nat
  /\ ecu \in [Ecus -> [at : {"quiet", "asked", "paused", "sending"}, left : Nat]]
  /\ arrived \in Seq(FrameType) /\ unsent \in Nat

\* Where a queue has the frames of a module that come after its first, and the first.
Nexts(q, e) == {i \in DOMAIN q : q[i].from = e /\ q[i].kind = "next"}
First(q, e, i) == i \in DOMAIN q /\ q[i].from = e /\ q[i].kind = "first"
\* A module that has not begun has nothing in the queue that belongs to a message,
\* one that has begun and waits to be invited has its first frame there, if that.
ModuleFits(e) ==
  /\ ecu[e].at \in {"asked", "paused"} => Nexts(arrived, e) = {} /\ e \notin Active
  /\ ecu[e].at \in {"paused", "sending"} => ecu[e].left > 0
  /\ \A i : First(arrived, e, i) =>
       ecu[e].at = "paused" /\ arrived[i].more = ecu[e].left /\ \A j : First(arrived, e, j) => i = j
\* At most one stream for a module, and only for one that was asked.
StreamsFit ==
  /\ \A s, t \in pool : s.of = t.of => s = t
  /\ \A s \in pool : asked.to \in {s.of, Everyone}
CollectInv ==
  /\ CollectTypeOK /\ (exchange = "idle" => pool = {} /\ arrived = <<>>)
  /\ \A e \in Ecus : ModuleFits(e)
  /\ StreamsFit /\ MessagesStayApart

-------------------------------------------------------------------------------
(* The queue: it grows at one end and is read at the other. *)

LEMMA NextsFinite ==
  ASSUME NEW q \in Seq(FrameType), NEW e
  PROVE  IsFiniteSet(Nexts(q, e)) /\ Cardinality(Nexts(q, e)) \in Nat
<1>1. IsFiniteSet(1 .. Len(q)) /\ Nexts(q, e) \in SUBSET (1 .. Len(q))
  BY FS_Interval DEF Nexts
<1>2. IsFiniteSet(Nexts(q, e))
  BY <1>1, FS_Subset
<1>3. QED
  BY <1>2, FS_CardinalityType

LEMMA Grows ==
  ASSUME NEW q \in Seq(FrameType), NEW f \in FrameType, NEW e
  PROVE  /\ Append(q, f) \in Seq(FrameType)
         /\ f.from # e \/ f.kind # "next" => Nexts(Append(q, f), e) = Nexts(q, e)
         /\ f.from = e /\ f.kind = "next" =>
              Cardinality(Nexts(Append(q, f), e)) = Cardinality(Nexts(q, e)) + 1
         /\ \A i : First(Append(q, f), e, i) <=>
                First(q, e, i) \/ (i = Len(q) + 1 /\ f.from = e /\ f.kind = "first")
         /\ \A i \in DOMAIN q : Append(q, f)[i] = q[i]
         /\ Append(q, f)[Len(q) + 1] = f
<1>1. /\ Append(q, f) \in Seq(FrameType) /\ Len(Append(q, f)) = Len(q) + 1
      /\ \A i \in 1 .. Len(q) : Append(q, f)[i] = q[i]
      /\ Append(q, f)[Len(q) + 1] = f
  OBVIOUS
<1>2. Len(q) \in Nat /\ DOMAIN q = 1 .. Len(q) /\ DOMAIN Append(q, f) = 1 .. Len(q) + 1
  BY <1>1
<1>3. 1 .. Len(q) + 1 = (1 .. Len(q)) \cup {Len(q) + 1} /\ Len(q) + 1 \notin 1 .. Len(q)
  BY <1>2
<1>4. ASSUME f.from # e \/ f.kind # "next" PROVE Nexts(Append(q, f), e) = Nexts(q, e)
  BY <1>1, <1>2, <1>3, <1>4 DEF Nexts
<1>5. ASSUME f.from = e, f.kind = "next"
      PROVE  Cardinality(Nexts(Append(q, f), e)) = Cardinality(Nexts(q, e)) + 1
  <2>1. Nexts(Append(q, f), e) = Nexts(q, e) \cup {Len(q) + 1} /\ Len(q) + 1 \notin Nexts(q, e)
    BY <1>1, <1>2, <1>3, <1>5 DEF Nexts
  <2>2. QED
    BY <2>1, NextsFinite, FS_AddElement
<1>6. \A i : First(Append(q, f), e, i) <=>
         First(q, e, i) \/ (i = Len(q) + 1 /\ f.from = e /\ f.kind = "first")
  BY <1>1, <1>2, <1>3 DEF First
<1>7. QED
  BY <1>1, <1>2, <1>4, <1>5, <1>6

LEMMA IsRead ==
  ASSUME NEW q \in Seq(FrameType), q # <<>>, NEW e
  PROVE  /\ Head(q) \in FrameType /\ Tail(q) \in Seq(FrameType)
         /\ Nexts(q, e) = {} => Nexts(Tail(q), e) = {}
         /\ Head(q).from # e \/ Head(q).kind # "next" =>
              Cardinality(Nexts(Tail(q), e)) = Cardinality(Nexts(q, e))
         /\ Head(q).from = e /\ Head(q).kind = "next" =>
              Cardinality(Nexts(Tail(q), e)) = Cardinality(Nexts(q, e)) - 1
         /\ \A i : First(Tail(q), e, i) => i \in Nat /\ First(q, e, i + 1) /\ Tail(q)[i] = q[i + 1]
         /\ Head(q) = q[1] /\ 1 \in DOMAIN q
<1>1. /\ Tail(q) \in Seq(FrameType) /\ Len(Tail(q)) = Len(q) - 1 /\ Head(q) = q[1]
      /\ \A i \in 1 .. Len(q) - 1 : Tail(q)[i] = q[i + 1]
  OBVIOUS
<1>2. Len(q) \in Nat \ {0} /\ DOMAIN q = 1 .. Len(q) /\ DOMAIN Tail(q) = 1 .. Len(q) - 1
  BY <1>1
<1>3. \A i \in DOMAIN Tail(q) : i \in Nat /\ i + 1 \in DOMAIN q /\ i + 1 # 1 /\ Tail(q)[i] = q[i + 1]
  BY <1>1, <1>2
<1>4. \A j \in DOMAIN q : j # 1 => j - 1 \in DOMAIN Tail(q) /\ (j - 1) + 1 = j
  BY <1>2
<1>5. Cardinality(Nexts(Tail(q), e)) = Cardinality(Nexts(q, e) \ {1})
  <2> DEFINE S == Nexts(Tail(q), e)
             T == Nexts(q, e) \ {1}
             shift == [i \in S |-> i + 1]
  <2>1. shift \in [S -> T]
    BY <1>3 DEF Nexts
  <2>2. \A a, b \in S : shift[a] = shift[b] => a = b
    BY <1>3 DEF Nexts
  <2>3. \A t \in T : \E s \in S : shift[s] = t
    <3> SUFFICES ASSUME NEW t \in T PROVE \E s \in S : shift[s] = t
      OBVIOUS
    <3>1. t - 1 \in S
      BY <1>3, <1>4 DEF Nexts
    <3>2. shift[t - 1] = t
      BY <3>1, <1>4 DEF Nexts
    <3>3. QED
      BY <3>1, <3>2
  <2>4. shift \in Bijection(S, T)
    BY <2>1, <2>2, <2>3 DEF Bijection, Injection, Surjection, IsInjective
  <2>5. IsFiniteSet(S) /\ ExistsBijection(S, T)
    BY <1>1, <2>4, NextsFinite DEF ExistsBijection
  <2>6. QED
    BY <2>5, FS_Bijection
<1>6. 1 \in Nexts(q, e) <=> Head(q).from = e /\ Head(q).kind = "next"
  BY <1>1, <1>2 DEF Nexts
<1>7. ASSUME Nexts(q, e) = {} PROVE Nexts(Tail(q), e) = {}
  BY <1>3, <1>7 DEF Nexts
<1>8. \A i : First(Tail(q), e, i) => i \in Nat /\ First(q, e, i + 1) /\ Tail(q)[i] = q[i + 1]
  BY <1>3 DEF First
<1>9. Cardinality(Nexts(q, e) \ {1}) =
        IF 1 \in Nexts(q, e) THEN Cardinality(Nexts(q, e)) - 1 ELSE Cardinality(Nexts(q, e))
  BY NextsFinite, FS_RemoveElement
<1>10. Head(q) \in FrameType
  BY <1>1, <1>2
<1>11. Head(q).from # e \/ Head(q).kind # "next" =>
         Cardinality(Nexts(Tail(q), e)) = Cardinality(Nexts(q, e))
  BY <1>5, <1>6, <1>9
<1>12. Head(q).from = e /\ Head(q).kind = "next" =>
         Cardinality(Nexts(Tail(q), e)) = Cardinality(Nexts(q, e)) - 1
  BY <1>5, <1>6, <1>9
<1>13. Head(q) = q[1] /\ 1 \in DOMAIN q /\ Tail(q) \in Seq(FrameType)
  BY <1>1, <1>2
<1>14. QED
  BY <1>7, <1>8, <1>10, <1>11, <1>12, <1>13, Zenon

-------------------------------------------------------------------------------
(* The steps. *)

EcuType == [at : {"quiet", "asked", "paused", "sending"}, left : Nat]
HasMore(m) == m.at \in {"paused", "sending"} => m.left > 0

\* What may be said of a module that is left alone, of the queue and of its streams.
LEMMA ApartSame ==
  ASSUME CollectInv, NEW e \in Ecus, ecu[e].at = "sending", NEW s \in pool, s.of = e
  PROVE  s.left = ecu[e].left + Cardinality(Nexts(arrived, e))
BY DEF CollectInv, MessagesStayApart, Active, OnTheWay, Nexts

LEMMA ApartIs ==
  MessagesStayApart' <=>
    \A e \in Ecus : ecu'[e].at = "sending" =>
      \A s \in pool' : s.of = e => s.left = ecu'[e].left + Cardinality(Nexts(arrived', e))
BY DEF MessagesStayApart, Active, OnTheWay, Nexts

\* Where the exchange ends nothing is left of it.
LEMMA FinishKeeps ==
  ASSUME CollectInv, Finish, ecu' \in [Ecus -> EcuType], \A e \in Ecus : HasMore(ecu'[e]), unsent' \in Nat
  PROVE  CollectInv'
<1>1. /\ exchange' = "idle" /\ pool' = {} /\ over' = FALSE /\ pended' = FALSE /\ counter' = 0
      /\ arrived' = <<>> /\ asked' = asked
  BY DEF Finish
<1>2. CollectTypeOK'
  <2>1. over' \in BOOLEAN /\ pended' \in BOOLEAN
    BY <1>1
  <2>2. arrived' \in Seq(FrameType)
    BY <1>1
  <2>3. asked' \in [to : Ecus \cup {Everyone}, num : Nat]
    BY <1>1 DEF CollectInv, CollectTypeOK
  <2>4. QED
    BY <1>1, <2>1, <2>2, <2>3 DEF CollectTypeOK, EcuType
<1>3. \A e : Nexts(arrived', e) = {} /\ \A i : ~First(arrived', e, i)
  BY <1>1 DEF Nexts, First
<1>4. \A e \in Ecus : ModuleFits(e)'
  BY <1>1, <1>3 DEF ModuleFits, Active, HasMore
<1>5. StreamsFit' /\ MessagesStayApart'
  BY <1>1, ApartIs DEF StreamsFit
<1>6. QED
  BY <1>1, <1>2, <1>4, <1>5 DEF CollectInv

\* A module's frame goes to the end of the queue.
Sendable(e, f, m) ==
  /\ f.from = e /\ HasMore(m)
  /\ \/ /\ f.kind = "next" /\ ecu[e].at = "sending"
        /\ m.at = "quiet" \/ (m.at = "sending" /\ m.left = ecu[e].left - 1)
     \/ f.kind = "first" /\ ecu[e].at = "asked" /\ m.at = "paused" /\ f.more = m.left
     \/ f.kind \in {"single", "pending"} /\ ecu[e].at \in {"asked", "quiet"} /\ m = ecu[e]

LEMMA SendKeeps ==
  ASSUME CollectInv, NEW e \in Ecus, NEW f \in FrameType, NEW m \in EcuType, Sends(e, f, m), Sendable(e, f, m)
  PROVE  CollectInv'
<1>1. /\ exchange = "waiting" /\ arrived' = Append(arrived, f) /\ ecu' = [ecu EXCEPT ![e] = m]
      /\ UNCHANGED <<exchange, asked, pool, over, pended, counter, unsent>>
  BY DEF Sends, adapter
<1>2. /\ arrived \in Seq(FrameType) /\ ecu \in [Ecus -> EcuType] /\ pool \subseteq [of : Ecus, left : Nat]
      /\ \A x \in Ecus : ModuleFits(x)
  BY DEF CollectInv, CollectTypeOK, EcuType
<1>3. ecu' \in [Ecus -> EcuType] /\ ecu'[e] = m /\ \A x \in Ecus : x # e => ecu'[x] = ecu[x]
  BY <1>1, <1>2
<1>4. arrived' \in Seq(FrameType)
  BY <1>1, <1>2, Grows
<1>5. CollectTypeOK' /\ (exchange' = "idle" => pool' = {} /\ arrived' = <<>>) /\ StreamsFit' /\ Active' = Active
  BY <1>1, <1>3, <1>4 DEF CollectInv, CollectTypeOK, StreamsFit, EcuType, Active
<1>6. ASSUME NEW x \in Ecus, x # e
      PROVE  /\ ModuleFits(x)'
             /\ Nexts(arrived', x) = Nexts(arrived, x)
  <2>1. f.from # x
    BY <1>6 DEF Sendable
  <2>2. /\ Nexts(arrived', x) = Nexts(arrived, x)
        /\ \A i : First(arrived', x, i) <=> First(arrived, x, i)
        /\ \A i : First(arrived, x, i) => arrived'[i] = arrived[i]
    BY <1>1, <1>2, <2>1, Grows DEF First
  <2>3. QED
    BY <1>2, <1>3, <1>5, <1>6, <2>2 DEF ModuleFits
<1>7. ModuleFits(e)
  BY <1>2
<1>8. ASSUME NEW s \in pool', s.of = e, ecu'[e].at = "sending"
      PROVE  s.left = ecu'[e].left + Cardinality(Nexts(arrived', e))
  <2>1. f.kind = "next" /\ ecu[e].at = "sending" /\ m.left = ecu[e].left - 1
    BY <1>3, <1>8 DEF Sendable
  <2>2. Cardinality(Nexts(arrived', e)) = Cardinality(Nexts(arrived, e)) + 1
    BY <1>1, <1>2, <2>1, Grows DEF Sendable
  <2>3. s.left = ecu[e].left + Cardinality(Nexts(arrived, e))
    BY <1>1, <1>8, <2>1, ApartSame
  <2>4. ecu[e].left \in Nat /\ Cardinality(Nexts(arrived, e)) \in Nat
    BY <1>2, NextsFinite DEF EcuType
  <2>5. QED
    BY <1>3, <2>1, <2>2, <2>3, <2>4
<1>9. ModuleFits(e)'
  <2>1. CASE f.kind = "next"
    <3>1. ecu[e].at = "sending" /\ m.at \in {"quiet", "sending"}
      BY <2>1 DEF Sendable
    <3>2. \A i : ~First(arrived', e, i)
      BY <1>1, <1>2, <1>7, <2>1, <3>1, Grows DEF ModuleFits
    <3>3. QED
      BY <1>3, <3>1, <3>2 DEF ModuleFits, Sendable, HasMore
  <2>2. CASE f.kind = "first"
    <3>1. ecu[e].at = "asked" /\ m.at = "paused" /\ f.more = m.left
      BY <2>2 DEF Sendable
    <3>a. Nexts(arrived, e) = {} /\ e \notin Active' /\ \A i : ~First(arrived, e, i)
      BY <1>5, <1>7, <3>1 DEF ModuleFits
    <3>2. /\ Nexts(arrived', e) = {} /\ e \notin Active'
          /\ \A i : First(arrived', e, i) => i = Len(arrived) + 1 /\ arrived'[i] = f
      <4>1. Nexts(arrived', e) = Nexts(arrived, e)
        BY <1>1, <1>2, <2>2, Grows
      <4>2. \A i : First(arrived', e, i) => i = Len(arrived) + 1
        <5>1. \A i : First(Append(arrived, f), e, i) <=>
                 First(arrived, e, i) \/ (i = Len(arrived) + 1 /\ f.from = e /\ f.kind = "first")
          BY <1>2, Grows
        <5>2. QED
          BY <1>1, <3>a, <5>1, Zenon
      <4>3. arrived'[Len(arrived) + 1] = f
        BY <1>1, <1>2, Grows
      <4>4. QED
        BY <3>a, <4>1, <4>2, <4>3
    <3>3. QED
      BY <1>3, <3>1, <3>2 DEF ModuleFits, Sendable, HasMore
  <2>3. CASE f.kind \in {"single", "pending"}
    <3>1. ecu'[e] = ecu[e]
      BY <1>3, <2>3 DEF Sendable
    <3>2. Nexts(arrived', e) = Nexts(arrived, e)
      BY <1>1, <1>2, <2>3, Grows
    <3>3. \A i : First(arrived', e, i) <=> First(arrived, e, i)
      BY <1>1, <1>2, <2>3, Grows
    <3>4. \A i : First(arrived, e, i) => arrived'[i] = arrived[i]
      BY <1>1, <1>2, Grows DEF First
    <3>5. QED
      BY <1>5, <1>7, <3>1, <3>2, <3>3, <3>4 DEF ModuleFits
  <2>4. QED
    BY <2>1, <2>2, <2>3 DEF Sendable
<1>10. MessagesStayApart'
  <2> SUFFICES ASSUME NEW x \in Ecus, ecu'[x].at = "sending", NEW s \in pool', s.of = x
               PROVE  s.left = ecu'[x].left + Cardinality(Nexts(arrived', x))
    BY ApartIs
  <2>1. CASE x = e
    BY <1>8, <2>1
  <2>2. CASE x # e
    BY <1>1, <1>3, <1>6, <2>2, ApartSame
  <2>3. QED
    BY <2>1, <2>2
<1>11. QED
  BY <1>5, <1>6, <1>9, <1>10 DEF CollectInv

LEMMA EcuKeeps == ASSUME CollectInv, NEW e \in Ecus, EcuStep(e) PROVE CollectInv'
<1>0. Most \in Nat /\ ecu[e] \in EcuType /\ HasMore(ecu[e])
  BY CollectAssumption DEF CollectAssumption, CollectInv, CollectTypeOK, EcuType, ModuleFits, HasMore
<1>q. Quiet \in EcuType /\ Quiet.at = "quiet"
  BY DEF Quiet, EcuType
<1>f. \A kind \in Kinds, n \in Nat : /\ FrameFrom(e, kind, n) \in FrameType
                                     /\ FrameFrom(e, kind, n).from = e /\ FrameFrom(e, kind, n).kind = kind
                                     /\ FrameFrom(e, kind, n).more = n
  BY DEF FrameFrom, FrameType
<1>1. ASSUME NEW kind \in {"single", "pending"}, Speaks(e, kind) PROVE CollectInv'
  <2>1. Sendable(e, FrameFrom(e, kind, 0), ecu[e])
    BY <1>0, <1>1, <1>f DEF Speaks, Sendable, Kinds
  <2>2. QED
    BY <1>0, <1>1, <1>f, <2>1, SendKeeps DEF Speaks, Kinds
<1>2. CASE AnswersInOne(e) \/ AnswersLater(e)
  BY <1>1, <1>2 DEF AnswersInOne, AnswersLater
<1>3. CASE BeginsMessage(e)
  <2>1. PICK n \in 1 .. Most : Sends(e, FrameFrom(e, "first", n), [at |-> "paused", left |-> n])
    BY <1>3 DEF BeginsMessage
  <2> DEFINE m == [at |-> "paused", left |-> n]
  <2>2. n \in Nat /\ n > 0
    BY <1>0
  <2>3. m \in EcuType /\ m.at = "paused" /\ m.left = n
    BY <2>2 DEF EcuType
  <2>4. Sends(e, FrameFrom(e, "first", n), m) /\ ecu[e].at = "asked"
    BY <1>3, <2>1 DEF BeginsMessage
  <2> HIDE DEF m
  <2>5. Sendable(e, FrameFrom(e, "first", n), m)
    BY <1>f, <2>2, <2>3, <2>4 DEF Sendable, HasMore, Kinds
  <2>6. QED
    BY <1>f, <2>2, <2>3, <2>4, <2>5, SendKeeps DEF Kinds
<1>4. CASE Continues(e)
  <2> DEFINE m == IF ecu[e].left = 1 THEN Quiet ELSE [ecu[e] EXCEPT !.left = @ - 1]
  <2>1. Sends(e, FrameFrom(e, "next", 0), m) /\ ecu[e].at = "sending"
    BY <1>4 DEF Continues
  <2>2. ecu[e].left \in Nat /\ ecu[e].left > 0
    BY <1>0, <2>1 DEF EcuType, HasMore
  <2>3. CASE ecu[e].left = 1
    <3>1. m = Quiet
      BY <2>3
    <3>2. Sendable(e, FrameFrom(e, "next", 0), Quiet)
      BY <1>q, <1>f, <2>1 DEF Sendable, HasMore, Kinds
    <3>3. QED
      BY <1>q, <1>f, <2>1, <3>1, <3>2, SendKeeps DEF Kinds
  <2>4. CASE ecu[e].left # 1
    <3>1. m \in EcuType /\ m.at = "sending" /\ m.left = ecu[e].left - 1 /\ m.left > 0
      BY <1>0, <2>1, <2>2, <2>4 DEF EcuType
    <3> HIDE DEF m
    <3>2. Sendable(e, FrameFrom(e, "next", 0), m)
      BY <1>f, <2>1, <3>1 DEF Sendable, HasMore, Kinds
    <3>3. QED
      BY <1>f, <2>1, <3>1, <3>2, SendKeeps DEF Kinds
  <2>5. QED
    BY <2>3, <2>4
<1>5. QED
  BY <1>2, <1>3, <1>4 DEF EcuStep

LEMMA RequestKeeps ==
  ASSUME CollectInv, NEW to \in Asked \cup {Everyone}, NEW num \in Counts, Request(to, num)
  PROVE  CollectInv'
<1>1. /\ exchange' = "waiting" /\ asked' = [to |-> to, num |-> num]
      /\ pool' = {} /\ over' = FALSE /\ pended' = FALSE /\ counter' = 0 /\ arrived' = arrived /\ unsent' = unsent
      /\ ecu' = [e \in Ecus |-> IF to \in {e, Everyone} THEN [at |-> "asked", left |-> 0]
                                ELSE IF ecu[e].at = "sending" THEN ecu[e] ELSE Quiet]
  BY DEF Request
<1>2. exchange = "idle" /\ arrived = <<>> /\ ecu \in [Ecus -> EcuType] /\ \A e \in Ecus : HasMore(ecu[e])
  BY DEF Request, CollectInv, CollectTypeOK, EcuType, ModuleFits, HasMore
<1>3. [at |-> "asked", left |-> 0] \in EcuType /\ Quiet \in EcuType
  BY DEF EcuType, Quiet
<1>4. ecu' \in [Ecus -> EcuType]
  BY <1>1, <1>2, <1>3
<1>5. to \in Ecus \cup {Everyone} /\ num \in Nat
  BY CollectAssumption DEF CollectAssumption
<1>6. CollectTypeOK'
  <2>1. over' \in BOOLEAN /\ pended' \in BOOLEAN /\ asked' \in [to : Ecus \cup {Everyone}, num : Nat]
    BY <1>1, <1>5
  <2>2. arrived' \in Seq(FrameType) /\ unsent' \in Nat
    BY <1>1 DEF CollectInv, CollectTypeOK
  <2>3. QED
    BY <1>1, <1>4, <2>1, <2>2 DEF CollectTypeOK, EcuType
<1>7. \A e : Nexts(arrived', e) = {} /\ \A i : ~First(arrived', e, i)
  BY <1>1, <1>2 DEF Nexts, First
<1>8. \A e \in Ecus : HasMore(ecu'[e])
  BY <1>1, <1>2 DEF HasMore, Quiet
<1>9. \A e \in Ecus : ModuleFits(e)'
  BY <1>1, <1>7, <1>8 DEF ModuleFits, Active, HasMore
<1>10. StreamsFit' /\ MessagesStayApart'
  BY <1>1, ApartIs DEF StreamsFit
<1>11. QED
  BY <1>1, <1>6, <1>9, <1>10 DEF CollectInv

\* isotp_rx_feed() touches the stream of one module only.
LEMMA FedIs ==
  ASSUME CollectInv, NEW f \in FrameType
  PROVE  /\ Fed(f) \subseteq [of : Ecus, left : Nat]
         /\ \A s \in Fed(f) : s.of # f.from => s \in pool
         /\ \A s, t \in Fed(f) : s.of = t.of => s = t
         /\ \A s \in Fed(f) : s.of = f.from =>
              \/ f.kind = "first" /\ s.left = f.more
              \/ f.kind = "next" /\ \E u \in pool : u.of = f.from /\ s.left = u.left - 1
<1>1. pool \subseteq [of : Ecus, left : Nat] /\ \A s, t \in pool : s.of = t.of => s = t
  BY DEF CollectInv, CollectTypeOK, StreamsFit
<1>2. f.from \in Ecus /\ f.more \in Nat /\ f.kind \in Kinds
  BY DEF FrameType
<1> DEFINE others == pool \ StreamOf(f.from)
<1>3. \A s \in others : s \in pool /\ s.of # f.from
  BY DEF StreamOf
<1>4. CASE f.kind = "first"
  <2> DEFINE new == [of |-> f.from, left |-> f.more]
  <2>1. Fed(f) = others \cup {new}
    BY <1>4 DEF Fed
  <2>2. new \in [of : Ecus, left : Nat] /\ new.of = f.from /\ new.left = f.more
    BY <1>2
  <2> HIDE DEF new, others
  <2>3. QED
    BY <1>1, <1>3, <1>4, <2>1, <2>2
<1>5. CASE f.kind \in {"single", "pending"}
  <2>1. Fed(f) = others
    BY <1>5 DEF Fed
  <2> HIDE DEF others
  <2>2. QED
    BY <1>1, <1>3, <2>1
<1>6. CASE f.kind = "next"
  <2> DEFINE kept == {[t EXCEPT !.left = @ - 1] : t \in {u \in StreamOf(f.from) : u.left > 1}}
  <2>1. Fed(f) = others \cup kept
    BY <1>6 DEF Fed
  <2>2. \A s \in kept : \E u \in pool : /\ u.of = f.from /\ u.left > 1 /\ s = [u EXCEPT !.left = @ - 1]
    BY DEF StreamOf
  <2>3. \A u \in pool : u.left > 1 => [u EXCEPT !.left = @ - 1] \in [of : Ecus, left : Nat]
                                      /\ [u EXCEPT !.left = @ - 1].of = u.of
                                      /\ [u EXCEPT !.left = @ - 1].left = u.left - 1
    BY <1>1
  <2> HIDE DEF kept, others
  <2>4. \A s \in kept : /\ s \in [of : Ecus, left : Nat] /\ s.of = f.from
                        /\ \E u \in pool : u.of = f.from /\ s.left = u.left - 1
    BY <2>2, <2>3
  <2>5. \A s, t \in kept : s = t
    BY <1>1, <2>2
  <2>6. QED
    BY <1>1, <1>3, <1>6, <2>1, <2>4, <2>5
<1>7. QED
  BY <1>2, <1>4, <1>5, <1>6 DEF Kinds

\* What is left of the queue of a module's frames when one has been read.
LEMMA ReadModule ==
  ASSUME CollectInv, arrived # <<>>, arrived' = Tail(arrived), NEW e \in Ecus, ecu'[e] = ecu[e],
         e \in Active' => e \in Active
  PROVE  ModuleFits(e)'
<1>1. arrived \in Seq(FrameType) /\ ModuleFits(e)
  BY DEF CollectInv, CollectTypeOK
<1>2. /\ Nexts(arrived, e) = {} => Nexts(arrived', e) = {}
      /\ \A i : First(arrived', e, i) => i \in Nat /\ First(arrived, e, i + 1) /\ arrived'[i] = arrived[i + 1]
  BY <1>1, IsRead
<1>3. ASSUME NEW i, First(arrived', e, i)
      PROVE  /\ ecu'[e].at = "paused" /\ arrived'[i].more = ecu'[e].left
             /\ \A j : First(arrived', e, j) => i = j
  <2>1. ecu[e].at = "paused" /\ arrived[i + 1].more = ecu[e].left
    BY <1>1, <1>2, <1>3 DEF ModuleFits
  <2>2. ASSUME NEW j, First(arrived', e, j) PROVE i = j
    <3>1. i + 1 = j + 1 /\ i \in Nat /\ j \in Nat
      BY <1>1, <1>2, <1>3, <2>2 DEF ModuleFits
    <3>2. QED
      BY <3>1
  <2>3. QED
    BY <1>2, <1>3, <2>1, <2>2
<1>4. QED
  BY <1>1, <1>2, <1>3 DEF ModuleFits

\* A frame that is passed over.
LEMMA SkipKeeps ==
  ASSUME CollectInv, arrived # <<>>, arrived' = Tail(arrived), exchange = "waiting", UNCHANGED <<adapter, ecu, unsent>>,
         Head(arrived).kind = "next" => Head(arrived).from \notin Active
  PROVE  CollectInv'
<1>1. UNCHANGED <<exchange, asked, pool, over, pended, counter, ecu, unsent>> /\ Active' = Active
  BY DEF adapter, Active
<1>2. arrived \in Seq(FrameType) /\ arrived' \in Seq(FrameType)
  BY IsRead DEF CollectInv, CollectTypeOK
<1>3. CollectTypeOK' /\ StreamsFit' /\ exchange' = "waiting"
  BY <1>1, <1>2 DEF CollectInv, CollectTypeOK, StreamsFit
<1>4. \A e \in Ecus : ModuleFits(e)'
  BY <1>1, ReadModule
<1>5. MessagesStayApart'
  <2> SUFFICES ASSUME NEW e \in Ecus, ecu'[e].at = "sending", NEW s \in pool', s.of = e
               PROVE  s.left = ecu'[e].left + Cardinality(Nexts(arrived', e))
    BY ApartIs
  <2>1. e \in Active
    BY <1>1 DEF Active
  <2>2. Cardinality(Nexts(arrived', e)) = Cardinality(Nexts(arrived, e))
    BY <1>2, <2>1, IsRead
  <2>3. QED
    BY <1>1, <2>2, ApartSame
<1>6. QED
  BY <1>3, <1>4, <1>5 DEF CollectInv

\* A frame that is taken, the exchange going on.
LEMMA TakenKeeps ==
  ASSUME CollectInv, arrived # <<>>, arrived' = Tail(arrived), exchange = "waiting",
         UNCHANGED <<exchange, asked, unsent>>, over' \in BOOLEAN, pended' \in BOOLEAN, counter' \in Nat,
         NEW f, f = Head(arrived), asked.to \in {Everyone, f.from}, pool' = Fed(f), Invited(f),
         f.kind = "next" => f.from \in Active
  PROVE  CollectInv'
<1>1. arrived \in Seq(FrameType) /\ ecu \in [Ecus -> EcuType] /\ counter \in Nat
  BY DEF CollectInv, CollectTypeOK, EcuType
<1>2. f \in FrameType /\ f = arrived[1] /\ 1 \in DOMAIN arrived /\ arrived' \in Seq(FrameType)
  BY <1>1, IsRead
<1>3. f.from \in Ecus /\ f.kind \in Kinds
  BY <1>2 DEF FrameType
<1>4. ModuleFits(f.from) /\ (f.kind = "first" => First(arrived, f.from, 1))
  BY <1>2, <1>3 DEF CollectInv, First
<1>5. /\ ecu' \in [Ecus -> EcuType]
      /\ \A e \in Ecus : e # f.from \/ f.kind # "first" => ecu'[e] = ecu[e]
      /\ f.kind = "first" => /\ ecu[f.from].at = "paused" /\ f.more = ecu[f.from].left
                             /\ ecu'[f.from].at = "sending" /\ ecu'[f.from].left = ecu[f.from].left
  <2>1. CASE f.kind = "first"
    <3>1. ecu[f.from].at = "paused" /\ f.more = ecu[f.from].left
      BY <1>2, <1>4, <2>1 DEF ModuleFits
    <3>2. ecu' = [ecu EXCEPT ![f.from].at = "sending"]
      BY <2>1, <3>1 DEF Invited
    <3>3. [ecu[f.from] EXCEPT !.at = "sending"] \in EcuType
      BY <1>1, <1>3 DEF EcuType
    <3>4. ecu' \in [Ecus -> EcuType] /\ ecu'[f.from] = [ecu[f.from] EXCEPT !.at = "sending"]
          /\ \A e \in Ecus : e # f.from => ecu'[e] = ecu[e]
      BY <1>1, <1>3, <3>2, <3>3
    <3>5. ecu'[f.from].at = "sending" /\ ecu'[f.from].left = ecu[f.from].left
      BY <1>1, <1>3, <3>4 DEF EcuType
    <3>6. QED
      BY <2>1, <3>1, <3>4, <3>5
  <2>2. CASE f.kind # "first"
    BY <1>1, <2>2 DEF Invited
  <2>3. QED
    BY <2>1, <2>2
<1>6. CollectTypeOK'
  <2>1. pool' \subseteq [of : Ecus, left : Nat]
    BY <1>2, FedIs
  <2>2. QED
    BY <1>1, <1>2, <1>5, <2>1 DEF CollectInv, CollectTypeOK, EcuType
<1>7. StreamsFit'
  <2>1. \A s, t \in pool' : s.of = t.of => s = t
    BY <1>2, FedIs
  <2>2. \A s \in pool' : asked.to \in {s.of, Everyone}
    BY <1>2, FedIs DEF CollectInv, StreamsFit
  <2>3. QED
    BY <2>1, <2>2 DEF StreamsFit
<1>8. ASSUME NEW e \in Ecus PROVE ModuleFits(e)'
  <2>1. CASE e = f.from /\ f.kind = "first"
    <3>1. \A i : ~First(arrived', e, i)
      <4> SUFFICES ASSUME NEW i, First(arrived', e, i) PROVE FALSE
        OBVIOUS
      <4>1. i \in Nat /\ First(arrived, e, i + 1)
        BY <1>1, IsRead
      <4>2. i + 1 = 1 /\ i \in DOMAIN arrived'
        BY <1>4, <2>1, <4>1 DEF ModuleFits, First
      <4>3. i # 0
        BY <1>2, <4>2
      <4>4. QED
        BY <4>1, <4>2, <4>3
    <3>2. ecu'[e].at = "sending" /\ ecu'[e].left > 0
      BY <1>4, <1>5, <2>1 DEF ModuleFits
    <3>3. QED
      BY <3>1, <3>2 DEF ModuleFits
  <2>2. CASE e # f.from \/ f.kind # "first"
    <3>1. e \in Active' => e \in Active
      BY <1>2, <2>2, FedIs DEF Active
    <3>2. QED
      BY <1>5, <2>2, <3>1, ReadModule
  <2>3. QED
    BY <2>1, <2>2
<1>9. MessagesStayApart'
  <2> SUFFICES ASSUME NEW e \in Ecus, ecu'[e].at = "sending", NEW s \in pool', s.of = e
               PROVE  s.left = ecu'[e].left + Cardinality(Nexts(arrived', e))
    BY ApartIs
  <2>1. CASE e # f.from
    <3>1. s \in pool /\ ecu'[e] = ecu[e]
      BY <1>2, <1>5, <2>1, FedIs
    <3>2. Cardinality(Nexts(arrived', e)) = Cardinality(Nexts(arrived, e))
      BY <1>1, <2>1, IsRead
    <3>3. QED
      BY <3>1, <3>2, ApartSame
  <2>2. CASE e = f.from /\ f.kind = "first"
    <3>1. Nexts(arrived, e) = {}
      BY <1>4, <1>5, <2>2 DEF ModuleFits
    <3>2. Nexts(arrived', e) = {}
      BY <1>1, <3>1, IsRead
    <3>3. s.left = f.more /\ Cardinality(Nexts(arrived', e)) = 0
      BY <1>2, <2>2, <3>2, FedIs, FS_EmptySet
    <3>4. ecu'[e].left = f.more /\ f.more \in Nat
      BY <1>2, <1>5, <2>2 DEF FrameType
    <3>5. QED
      BY <3>3, <3>4
  <2>3. CASE e = f.from /\ f.kind # "first"
    <3>1. PICK u \in pool : u.of = e /\ s.left = u.left - 1 /\ f.kind = "next"
      BY <1>2, <2>3, FedIs
    <3>2. ecu[e].at = "sending" /\ ecu'[e].left = ecu[e].left /\ ecu[e].left \in Nat
      BY <1>1, <1>5, <2>3 DEF EcuType
    <3>3. u.left = ecu[e].left + Cardinality(Nexts(arrived, e))
      BY <3>1, <3>2, ApartSame
    <3>4. Cardinality(Nexts(arrived', e)) = Cardinality(Nexts(arrived, e)) - 1
          /\ Cardinality(Nexts(arrived, e)) \in Nat
      BY <1>1, <2>3, <3>1, IsRead, NextsFinite
    <3> DEFINE n == Cardinality(Nexts(arrived, e))
    <3>5. n \in Nat /\ s.left = u.left - 1 /\ u.left = ecu[e].left + n /\ ecu[e].left \in Nat
      BY <3>1, <3>2, <3>3, <3>4
    <3> HIDE DEF n
    <3>a. \A k, l \in Nat : \A a, b : a = b - 1 /\ b = l + k => a = l + (k - 1)
      OBVIOUS
    <3>6. s.left = ecu[e].left + (n - 1)
      BY <3>5, <3>a, Zenon
    <3>7. QED
      BY <3>2, <3>4, <3>6 DEF n
  <2>4. QED
    BY <2>1, <2>2, <2>3
<1>10. QED
  BY <1>6, <1>7, <1>8, <1>9 DEF CollectInv

LEMMA InvitedTyped ==
  ASSUME CollectInv, NEW f, Invited(f)
  PROVE  ecu' \in [Ecus -> EcuType] /\ \A e \in Ecus : HasMore(ecu'[e])
<1>1. ecu \in [Ecus -> EcuType] /\ \A e \in Ecus : HasMore(ecu[e])
  BY DEF CollectInv, CollectTypeOK, EcuType, ModuleFits, HasMore
<1>2. CASE f.kind = "first" /\ ecu[f.from].at = "paused"
  <2>1. ecu' = [ecu EXCEPT ![f.from].at = "sending"]
    BY <1>2 DEF Invited
  <2>2. \A e \in Ecus : /\ ecu'[e] \in {ecu[e], [ecu[e] EXCEPT !.at = "sending"]}
                        /\ e # f.from => ecu'[e] = ecu[e]
    BY <1>1, <2>1
  <2>3. \A m \in EcuType : /\ [m EXCEPT !.at = "sending"] \in EcuType
                           /\ [m EXCEPT !.at = "sending"].left = m.left
    BY DEF EcuType
  <2>4. ecu' \in [Ecus -> EcuType]
    BY <1>1, <2>1, <2>3
  <2>5. \A e \in Ecus : HasMore(ecu'[e])
    <3>1. TAKE e \in Ecus
    <3>2. CASE e # f.from
      BY <1>1, <2>2, <3>2
    <3>3. CASE e = f.from
      <4>1. ecu[e] \in EcuType /\ ecu[e].left > 0
        BY <1>1, <1>2, <3>3 DEF HasMore
      <4>2. ecu'[e].left = ecu[e].left
        BY <2>2, <2>3, <4>1
      <4>3. QED
        BY <4>1, <4>2 DEF HasMore
    <3>4. QED
      BY <3>2, <3>3
  <2>6. QED
    BY <2>4, <2>5
<1>3. CASE ~(f.kind = "first" /\ ecu[f.from].at = "paused")
  BY <1>1, <1>3 DEF Invited
<1>4. QED
  BY <1>2, <1>3

LEMMA FrameKeeps == ASSUME CollectInv, TakesFrame PROVE CollectInv'
<1> DEFINE f == Head(arrived)
           ours == asked.to \in {Everyone, f.from}
           streamed == StreamOf(f.from) # {}
           room == streamed \/ Cardinality(pool) < Streams
<1>1. /\ exchange = "waiting" /\ arrived # <<>>
      /\ \/ /\ ~ours \/ (room /\ ~streamed /\ f.kind = "next")
            /\ arrived' = Tail(arrived) /\ UNCHANGED <<adapter, ecu, unsent>>
         \/ Finish /\ UNCHANGED <<ecu, unsent>>
         \/ Finish /\ UNCHANGED ecu /\ unsent < MaxUnsent /\ unsent' = unsent + 1
         \/ ours /\ (streamed \/ f.kind # "next") /\ Shown(f) /\ Invited(f) /\ UNCHANGED unsent
  BY DEF TakesFrame
<1>2. streamed <=> f.from \in Active
  BY DEF StreamOf, Active
<1>3. f.from \in Active => ours
  BY DEF CollectInv, StreamsFit, Active
<1> HIDE DEF f, ours, streamed, room
<1>4. /\ ecu \in [Ecus -> EcuType] /\ \A e \in Ecus : HasMore(ecu[e])
      /\ unsent \in Nat /\ over \in BOOLEAN /\ pended \in BOOLEAN
  BY DEF CollectInv, CollectTypeOK, EcuType, ModuleFits, HasMore
<1>5. CASE /\ ~ours \/ (room /\ ~streamed /\ f.kind = "next")
           /\ arrived' = Tail(arrived) /\ UNCHANGED <<adapter, ecu, unsent>>
  <2>1. f.kind = "next" => f.from \notin Active
    BY <1>2, <1>3, <1>5
  <2>2. QED
    BY <1>1, <1>5, <2>1, SkipKeeps DEF f
<1>6. CASE Finish /\ UNCHANGED <<ecu, unsent>>
  BY <1>4, <1>6, FinishKeeps
<1>7. CASE Finish /\ UNCHANGED ecu /\ unsent < MaxUnsent /\ unsent' = unsent + 1
  BY <1>4, <1>7, FinishKeeps
<1>8. CASE ours /\ (streamed \/ f.kind # "next") /\ Shown(f) /\ Invited(f) /\ UNCHANGED unsent
  <2>1. CASE f.kind # "pending" /\ IsLast(f) /\ Finish
    BY <1>4, <1>8, <2>1, InvitedTyped, FinishKeeps
  <2>2. CASE ~(f.kind # "pending" /\ IsLast(f) /\ Finish)
    <3>1. /\ arrived' = Tail(arrived) /\ counter' = FramesCounted /\ pool' = Fed(f)
          /\ UNCHANGED <<exchange, asked>>
      BY <1>8, <2>2 DEF Shown
    <3>a. counter' \in Nat
      BY <3>1 DEF FramesCounted, CollectInv, CollectTypeOK
    <3>2. over' \in BOOLEAN
      BY <1>8, <2>2 DEF Shown
    <3>3. pended' \in BOOLEAN
      BY <1>4, <1>8, <2>2 DEF Shown
    <3>4. f.kind = "next" => f.from \in Active
      BY <1>2, <1>8
    <3>5. asked.to \in {Everyone, f.from}
      BY <1>8 DEF ours
    <3>6. QED
      BY <1>1, <1>8, <3>1, <3>a, <3>2, <3>3, <3>4, <3>5, TakenKeeps DEF f
  <2>3. QED
    BY <2>1, <2>2
<1>9. QED
  BY <1>1, <1>5, <1>6, <1>7, <1>8

LEMMA CollectKeeps == CollectInv /\ [CollectNext]_collectVars => CollectInv'
<1> SUFFICES ASSUME CollectInv, [CollectNext]_collectVars PROVE CollectInv'
  OBVIOUS
<1>0. ecu \in [Ecus -> EcuType] /\ (\A e \in Ecus : HasMore(ecu[e])) /\ unsent \in Nat
  BY DEF CollectInv, CollectTypeOK, EcuType, ModuleFits, HasMore
<1>1. CASE \E e \in Ecus : EcuStep(e)
  BY <1>1, EcuKeeps
<1>2. CASE \E to \in Asked \cup {Everyone}, num \in Counts : Request(to, num)
  BY <1>2, RequestKeeps
<1>3. CASE WindowElapses
  <2>1. UNCHANGED <<exchange, asked, pool, pended, counter, ecu, arrived, unsent>> /\ over' \in BOOLEAN
    BY <1>3 DEF WindowElapses
  <2>2. CollectTypeOK' /\ Active' = Active
    BY <2>1 DEF CollectInv, CollectTypeOK, Active
  <2>3. \A e \in Ecus : ModuleFits(e)'
    BY <2>1, <2>2 DEF CollectInv, ModuleFits, First, Nexts
  <2>4. StreamsFit' /\ MessagesStayApart'
    BY <2>1, <2>2 DEF CollectInv, StreamsFit, MessagesStayApart, OnTheWay
  <2>5. QED
    BY <2>1, <2>2, <2>3, <2>4 DEF CollectInv
<1>4. CASE StreamExpires \/ WindowEnds
  BY <1>0, <1>4, FinishKeeps DEF StreamExpires, WindowEnds
<1>5. CASE TakesFrame
  BY <1>5, FrameKeeps
<1>6. CASE UNCHANGED collectVars
  <2>1. UNCHANGED <<exchange, asked, pool, over, pended, counter, ecu, arrived, unsent>>
    BY <1>6 DEF collectVars, adapter
  <2>2. CollectTypeOK' /\ Active' = Active
    BY <2>1 DEF CollectInv, CollectTypeOK, Active
  <2>3. \A e \in Ecus : ModuleFits(e)'
    BY <2>1, <2>2 DEF CollectInv, ModuleFits, First, Nexts
  <2>4. StreamsFit' /\ MessagesStayApart'
    BY <2>1, <2>2 DEF CollectInv, StreamsFit, MessagesStayApart, OnTheWay
  <2>5. QED
    BY <2>1, <2>2, <2>3, <2>4 DEF CollectInv
<1>7. QED
  BY <1>1, <1>2, <1>3, <1>4, <1>5, <1>6 DEF CollectNext, CollectStep

LEMMA CollectBegins == CollectInit => CollectInv
<1> SUFFICES ASSUME CollectInit PROVE CollectInv
  OBVIOUS
<1>1. /\ exchange = "idle" /\ asked = [to |-> Everyone, num |-> 0] /\ pool = {} /\ counter = 0
      /\ ecu = [e \in Ecus |-> Quiet] /\ arrived = <<>> /\ unsent = 0
  BY DEF CollectInit
<1>2. over \in BOOLEAN /\ pended \in BOOLEAN
  BY DEF CollectInit
<1>3. Quiet \in EcuType /\ Quiet.at = "quiet"
  BY DEF Quiet, EcuType
<1>4. ecu \in [Ecus -> EcuType] /\ \A e \in Ecus : ecu[e].at = "quiet"
  BY <1>1, <1>3
<1>5. CollectTypeOK
  BY <1>1, <1>2, <1>4 DEF CollectTypeOK, EcuType
<1>6. \A e : Nexts(arrived, e) = {} /\ \A i : ~First(arrived, e, i)
  BY <1>1 DEF Nexts, First
<1>7. \A e \in Ecus : ModuleFits(e)
  BY <1>4, <1>6 DEF ModuleFits
<1>8. StreamsFit /\ MessagesStayApart
  BY <1>1 DEF StreamsFit, MessagesStayApart, Active
<1>9. QED
  BY <1>1, <1>5, <1>7, <1>8 DEF CollectInv

\* The modules, the queue and the streams stay as CollectInv relates them.
THEOREM CollectHolds == CollectSpec => []CollectInv
BY CollectBegins, CollectKeeps, PTL DEF CollectSpec

\* However the modules of a vehicle interleave, a message is put together of the frames
\* of the module it is of (isotp_rx_matches(), elm327_can_protocol_xfer()).
THEOREM MessagesTheorem == CollectSpec => []MessagesStayApart
<1>1. CollectInv => MessagesStayApart
  BY DEF CollectInv
<1>2. QED
  BY <1>1, CollectHolds, PTL

-------------------------------------------------------------------------------
(***************************************************************************)
(* BlePairing, for any phones.                                             *)
(***************************************************************************)

\* With nobody connected the bonds are counted as they are, or as none; while a phone
\* is connected nothing is on the air, whatever becomes of the bonds.
CountFits ==
  \/ known = [some |-> FALSE, all |-> FALSE]
  \/ known = [some |-> bonds # {}, all |-> bonds # {} /\ bonds \subseteq Irks]
BleInv ==
  /\ bonds \subseteq Phones /\ conn \in Phones \cup {NoPhone}
  /\ conn # NoPhone => air = "off"
  /\ conn = NoPhone => CountFits
  /\ OwnersAreListed

\* adv_apply() with the bonds counted: the list is theirs, and the filter is used only
\* where all of them can be recognised; or it is that of an old advertisement.
LEMMA AdvertisesRightly ==
  ASSUME NEW f, AdvApply(f), conn' = NoPhone, CountFits', OwnersAreListed, bonds' \subseteq bonds \/ air = "off",
         "stop" \in f => "stop" \in amiss'
  PROVE  OwnersAreListed'
<1> DEFINE locked == Policy(window', known') = "locked"
<1>1. locked => known'.some /\ known'.all
  BY DEF Policy
<1>2. ASSUME locked PROVE bonds' # {} /\ bonds' \subseteq Irks
  <2>1. known' = [some |-> bonds' # {}, all |-> bonds' # {} /\ bonds' \subseteq Irks]
    BY <1>1, <1>2 DEF CountFits
  <2>2. known'.all
    BY <1>1, <1>2
  <2>3. QED
    BY <2>1, <2>2
<1>3. CASE "stop" \notin f
  <2>1. air' = "listed" => locked /\ list' = bonds'
    BY <1>3 DEF AdvApply
  <2>2. QED
    BY <1>2, <2>1 DEF OwnersAreListed
<1>4. CASE "stop" \in f
  <2>1. air' = air /\ (air = "listed" => list' = list)
    BY <1>4 DEF AdvApply
  <2>2. QED
    BY <1>4, <2>1 DEF OwnersAreListed
<1>5. QED
  BY <1>3, <1>4

LEMMA BleStep == BleInv /\ [BleNext]_bleVars => BleInv'
<1> SUFFICES ASSUME BleInv, [BleNext]_bleVars PROVE BleInv'
  OBVIOUS
<1> USE DEF BleInv
<1>0. NoPhone \notin Phones
  BY BleAssumption DEF BleAssumption
<1>a. ASSUME UNCHANGED <<bonds, known, airVars, conn, amiss>> PROVE BleInv'
  BY <1>a DEF airVars, CountFits, OwnersAreListed
\* While a phone is connected, the bonds may change.
<1>b. ASSUME conn # NoPhone, UNCHANGED <<airVars, conn>>, bonds' \subseteq Phones PROVE BleInv'
  BY <1>b DEF airVars, OwnersAreListed
\* Where the advertisement is brought up to date.
<1>c. ASSUME NEW f, AdvApply(f), bonds' \subseteq bonds, conn' \in {conn, NoPhone}, conn' = NoPhone => CountFits',
             "stop" \in f => "stop" \in amiss'
      PROVE  BleInv'
  <2>1. CASE conn' = NoPhone
    BY <1>c, <2>1, AdvertisesRightly
  <2>2. CASE conn' # NoPhone
    BY <1>c, <2>2 DEF AdvApply, airVars, OwnersAreListed
  <2>3. QED
    BY <2>1, <2>2
<1>1. CASE OpenWindow \/ ForgetBonds \/ MinuteElapses \/ TimerStep \/ Watchdog \/ JobTaken
  BY <1>1, <1>a DEF OpenWindow, ForgetBonds, MinuteElapses, TimerStep, TimerFires, Expired, Watchdog,
     JobTaken, airVars, connVars, pairing, failVars
<1>2. CASE JobRun
  <2>1. PICK f : AdvApply(f) /\ Counted(f) /\ NotesAmiss(f) /\ UNCHANGED conn /\ bonds' \in {{}, bonds}
    BY <1>2 DEF JobRun, connVars
  <2>2. CountFits' /\ ("stop" \in f => "stop" \in amiss')
    BY <2>1 DEF Counted, CountFits, NotesAmiss
  <2>3. QED
    BY <2>1, <2>2, <1>c
<1>3. CASE StopsByItself
  <2>1. UNCHANGED <<bonds, known, conn>> /\ air' = "off"
    BY <1>3 DEF StopsByItself, connVars
  <2>2. QED
    BY <2>1 DEF CountFits, OwnersAreListed
<1>4. CASE AdvertisingEnds
  <2>1. PICK f \in Failing(AdvCalls) : AdvApply(f) /\ UNCHANGED <<bonds, known, conn>> /\ conn = NoPhone
    BY <1>4 DEF AdvertisingEnds, connVars
  <2>2. "stop" \notin f
    BY DEF Failing, AdvCalls
  <2>3. QED
    BY <2>1, <2>2, <1>c DEF CountFits
<1>5. CASE Disconnects
  <2>1. PICK f : AdvApply(f) /\ Counted(f) /\ NotesAmiss(f) /\ UNCHANGED bonds /\ conn' = NoPhone
    BY <1>5 DEF Disconnects, Ended
  <2>2. CountFits' /\ ("stop" \in f => "stop" \in amiss')
    BY <2>1 DEF Counted, CountFits, NotesAmiss
  <2>3. QED
    BY <2>1, <2>2, <1>c
<1>6. CASE Pairs
  <2>1. conn # NoPhone /\ UNCHANGED <<airVars, conn>> /\ bonds' \in {bonds \ {conn}, bonds \cup {conn}}
    BY <1>6 DEF Pairs
  <2>2. QED
    BY <2>1, <1>b
<1>7. CASE PairsAgain
  <2>1. conn \in bonds /\ UNCHANGED <<airVars, conn>> /\ bonds' = bonds \ {conn}
    BY <1>7 DEF PairsAgain
  <2>2. QED
    BY <1>0, <2>1, <1>b
<1>8. CASE \E p \in Phones : Connects(p)
  <2>1. PICK p \in Phones : Connects(p)
    BY <1>8
  <2>2. conn' = p /\ air' = "off" /\ UNCHANGED bonds
    BY <2>1 DEF Connects
  <2>3. QED
    BY <1>0, <2>2 DEF OwnersAreListed
<1>9. CASE UNCHANGED bleVars
  BY <1>9, <1>a DEF bleVars, airVars, connVars, failVars
<1>10. QED
  BY <1>1, <1>2, <1>3, <1>4, <1>5, <1>6, <1>7, <1>8, <1>9 DEF BleNext, BleHostStep

\* The bonds are counted, the list and the filter applied, as BleInv has it.
THEOREM BleHolds == BleSpec => []BleInv
<1>1. BleInit => BleInv
  BY DEF BleInit, BleInv, CountFits, OwnersAreListed
<1>2. QED
  BY <1>1, BleStep, PTL DEF BleSpec

\* A filtered advertisement lets in every phone that is bonded, whatever the stack
\* refuses, and nobody else unless an old one could not be stopped
\* (bond_state_refresh(), adv_apply()).
THEOREM OwnersTheorem == BleSpec => []OwnersAreListed
<1>1. BleInv => OwnersAreListed
  BY DEF BleInv
<1>2. QED
  BY <1>1, BleHolds, PTL

-------------------------------------------------------------------------------
(***************************************************************************)
(* Elm327Timing, for any answers of any vehicle, any AT ST and any size    *)
(* of the history.  What the code adds up is a recursive function; that it *)
(* has a value is shown by the least number it would have none for.        *)
(***************************************************************************)

Answers == Seq((Nat \ {0}) \X BOOLEAN)
TimingTypeOK ==
  /\ on_bus \in Buses /\ adaptive \in 0 .. 2 /\ limit \in Limits /\ steady \in BOOLEAN
  /\ estimate \in Nat /\ history \in [next : 1 .. Samples, s : Seq(Nat)] /\ Len(history.s) <= Samples
  /\ watch \in [active : BOOLEAN, latency : Nat, deadline : Nat, slot : 0 .. Samples]
  /\ window_ms \in Nat /\ until \in Nat /\ promised \in BOOLEAN /\ hint \in BOOLEAN /\ got \in Nat /\ coming \in Answers
  /\ due \in Nat /\ log \in Seq(Nat) /\ outlasted \in Nat

\* The slots are filled in turn, and an exchange's slot is the last one filled.
RingTurns ==
  /\ EvidenceIsHonest
  /\ Len(history.s) < Samples => history.next = Len(history.s) + 1
  /\ watch.slot # 0 => log # <<>> /\ history.next = After(watch.slot)

\* The estimate, once there is one, covers the evidence; there is none before.
Covers(ms) == ms >= Margin(0) /\ \A old \in Among(history.s) : ms >= Margin(old)
EstimateCovers ==
  /\ estimate = 0 => history.s = <<>>
  /\ adaptive # 0 /\ steady /\ estimate # 0 => Covers(estimate)
  /\ watch.active => adaptive # 0 /\ (NoWait => estimate # 0)

\* A wait is window_ms until the first answer.
FirstWait ==
  ~NoWait =>
    /\ window_ms <= limit /\ (adaptive = 0 => window_ms = limit) /\ (adaptive # 0 /\ steady => Covers(window_ms))
    /\ got = 0 => /\ until = window_ms /\ watch.latency = 0
                  /\ due # 0 => Len(coming) = 1 /\ coming[1][1] = due

\* What was outlasted is less than what the next wait is of.
WaitsDouble ==
  outlasted # 0 =>
    /\ outlasted < due
    /\ adaptive = 0 \/ estimate = 0 \/ estimate >= Least(due, 2 * outlasted)
    /\ ~NoWait => window_ms >= Least(limit, Least(due, 2 * outlasted))

TimingInv == TimingTypeOK /\ RingTurns /\ EstimateCovers /\ FirstWait /\ WaitsDouble

\* A sequence of one is not empty and begins with it.
LEMMA OnlyOne ==
  ASSUME NEW S, NEW s \in Seq(S), Len(s) = 1
  PROVE  s # <<>> /\ Head(s) = s[1]
<1>1. s # <<>>
  OBVIOUS
<1>2. QED
  BY <1>1

\* A set of numbers has a least one, which is how the proofs below go by induction.
LEMMA LeastOf ==
  ASSUME NEW B, B \subseteq Nat, B # {}
  PROVE  \E x \in B : \A y \in B : x <= y
<1>1. IsWellFoundedOn(OpToRel(<, Nat), Nat)
  BY NatLessThanWellFounded
<1>2. PICK x \in B : \A y \in B : ~ (<<y, x>> \in OpToRel(<, Nat))
  BY <1>1, WFMin
<1>3. \A y \in B : ~ (y < x)
  BY <1>2 DEF OpToRel
<1>4. QED
  BY <1>3

\* The running sums of a sequence are a function, and Total is the last of them.
LEMMA SumsExist ==
  ASSUME NEW s \in Seq(Nat)
  PROVE  \E f \in [0 .. Len(s) -> Nat] : f = [n \in 0 .. Len(s) |-> IF n = 0 THEN 0 ELSE f[n - 1] + s[n]]
<1> DEFINE L == Len(s)
           Good(k) == \E f \in [0 .. k -> Nat] : f = [n \in 0 .. k |-> IF n = 0 THEN 0 ELSE f[n - 1] + s[n]]
           B == {k \in 0 .. L : ~Good(k)}
<1>1. L \in Nat
  OBVIOUS
<1>2. SUFFICES ASSUME ~Good(L) PROVE FALSE
  OBVIOUS
<1>3. B \subseteq Nat /\ B # {}
  BY <1>1, <1>2
<1>4. PICK k \in B : \A j \in B : k <= j
  BY <1>3, LeastOf
<1>5. CASE k = 0
  <2> DEFINE f == [n \in 0 .. 0 |-> 0]
  <2>1. f \in [0 .. 0 -> Nat] /\ f = [n \in 0 .. 0 |-> IF n = 0 THEN 0 ELSE f[n - 1] + s[n]]
    OBVIOUS
  <2>2. QED
    BY <1>4, <1>5, <2>1
<1>6. CASE k # 0
  <2>1. k \in 1 .. L /\ k - 1 \in 0 .. L /\ k - 1 \in Nat /\ ~(k <= k - 1)
    BY <1>1, <1>4, <1>6
  <2>2. Good(k - 1)
    BY <1>4, <2>1
  <2>3. PICK f \in [0 .. k - 1 -> Nat] : f = [n \in 0 .. k - 1 |-> IF n = 0 THEN 0 ELSE f[n - 1] + s[n]]
    BY <2>2
  <2> DEFINE g == [n \in 0 .. k |-> IF n = k THEN f[k - 1] + s[k] ELSE f[n]]
  <2>4. f[k - 1] \in Nat /\ s[k] \in Nat
    BY <2>1
  <2>5. g \in [0 .. k -> Nat]
    BY <2>1, <2>4
  <2>6. ASSUME NEW n \in 0 .. k PROVE g[n] = IF n = 0 THEN 0 ELSE g[n - 1] + s[n]
    <3>1. CASE n = k
      BY <2>1, <3>1
    <3>2. CASE n # k
      <4>1. n \in 0 .. k - 1 /\ (n # 0 => n - 1 \in 0 .. k /\ n - 1 # k)
        BY <2>1, <3>2
      <4>2. f[n] = IF n = 0 THEN 0 ELSE f[n - 1] + s[n]
        BY <2>3, <4>1
      <4>3. QED
        BY <3>2, <4>1, <4>2
    <3>3. QED
      BY <3>1, <3>2
  <2>7. g = [n \in 0 .. k |-> IF n = 0 THEN 0 ELSE g[n - 1] + s[n]]
    BY <2>6
  <2>8. Good(k)
    BY <2>5, <2>7
  <2>9. QED
    BY <1>4, <2>8
<1>7. QED
  BY <1>5, <1>6

LEMMA SumsTyped ==
  ASSUME NEW s \in Seq(Nat), NEW f, f = [n \in 0 .. Len(s) |-> IF n = 0 THEN 0 ELSE f[n - 1] + s[n]]
  PROVE  f[Len(s)] \in Nat
<1> DEFINE B == {k \in 0 .. Len(s) : f[k] \notin Nat}
<1>1. Len(s) \in Nat
  OBVIOUS
<1>2. SUFFICES ASSUME f[Len(s)] \notin Nat PROVE FALSE
  OBVIOUS
<1>3. Len(s) \in B /\ B \subseteq Nat
  BY <1>1, <1>2
<1>4. PICK k \in B : \A j \in B : k <= j
  BY <1>3, LeastOf
<1>5. k \in 0 .. Len(s) /\ f[k] = IF k = 0 THEN 0 ELSE f[k - 1] + s[k]
  BY <1>1, <1>4
<1>6. CASE k = 0
  BY <1>4, <1>5, <1>6
<1>7. CASE k # 0
  <2>1. k \in 1 .. Len(s) /\ k - 1 \in 0 .. Len(s) /\ ~(k <= k - 1)
    BY <1>1, <1>5, <1>7
  <2>2. f[k - 1] \in Nat /\ s[k] \in Nat
    <3>1. k - 1 \notin B
      BY <1>4, <2>1
    <3>2. f[k - 1] \in Nat
      BY <2>1, <3>1
    <3>3. QED
      BY <2>1, <3>2
  <2>3. QED
    BY <1>4, <1>5, <1>7, <2>2
<1>8. QED
  BY <1>6, <1>7

LEMMA TotalTyped == ASSUME NEW s \in Seq(Nat) PROVE Total(s) \in Nat
<1> DEFINE f == CHOOSE f : f = [n \in 0 .. Len(s) |-> IF n = 0 THEN 0 ELSE f[n - 1] + s[n]]
<1>1. f = [n \in 0 .. Len(s) |-> IF n = 0 THEN 0 ELSE f[n - 1] + s[n]]
  BY SumsExist
<1>2. Total(s) = f[Len(s)]
  BY DEF Total
<1> HIDE DEF f
<1>3. f[Len(s)] \in Nat
  BY <1>1, SumsTyped
<1>4. QED
  BY <1>2, <1>3

\* A history has a greatest sample.
LEMMA PeakIs ==
  ASSUME NEW s \in Seq(Nat)
  PROVE  Peak(s) \in Nat /\ \A y \in Among(s) : y \in Nat /\ y <= Peak(s)
<1> DEFINE Early(k) == {s[i] : i \in 1 .. k}
           Good(k) == \E x \in Early(k) \union {0} : \A y \in Early(k) : y <= x
           B == {k \in 0 .. Len(s) : ~Good(k)}
<1>1. Len(s) \in Nat /\ Early(Len(s)) = Among(s) /\ Among(s) \subseteq Nat
  BY DEF Among
<1>2. Good(Len(s))
  <2>1. SUFFICES ASSUME ~Good(Len(s)) PROVE FALSE
    OBVIOUS
  <2>2. Len(s) \in B /\ B \subseteq Nat
    BY <1>1, <2>1
  <2>3. PICK k \in B : \A j \in B : k <= j
    BY <2>2, LeastOf
  <2>4. CASE k = 0
    BY <2>3, <2>4
  <2>5. CASE k # 0
    <3>1. k \in 1 .. Len(s) /\ k - 1 \in 0 .. Len(s) /\ ~(k <= k - 1)
      BY <1>1, <2>3, <2>5
    <3>2. Good(k - 1)
      BY <2>3, <3>1
    <3>3. PICK x \in Early(k - 1) \union {0} : \A y \in Early(k - 1) : y <= x
      BY <3>2
    <3>4. Early(k) = Early(k - 1) \union {s[k]} /\ s[k] \in Nat /\ Early(k - 1) \subseteq Nat
      BY <3>1, <1>1
    <3>5. x \in Nat
      BY <3>3, <3>4
    <3>6. CASE s[k] <= x
      <4>1. x \in Early(k) \union {0} /\ \A y \in Early(k) : y <= x
        BY <3>3, <3>4, <3>6
      <4>2. QED
        BY <4>1, <2>3
    <3>7. CASE ~(s[k] <= x)
      <4>1. s[k] \in Early(k) \union {0} /\ \A y \in Early(k) : y <= s[k]
        <5>1. \A y \in Early(k - 1) : y \in Nat /\ y <= x
          BY <3>3, <3>4
        <5>2. ASSUME NEW y \in Early(k - 1) PROVE y <= s[k]
          <6>1. y \in Nat /\ y <= x
            BY <5>1
          <6>2. s[k] \in Nat
            BY <3>4
          <6>3. QED
            BY <6>1, <6>2, <3>5, <3>7
        <5>3. s[k] <= s[k]
          BY <3>4
        <5>4. QED
          BY <5>2, <5>3, <3>4
      <4>2. QED
        BY <4>1, <2>3
    <3>8. QED
      BY <3>6, <3>7
  <2>6. QED
    BY <2>4, <2>5
<1>3. \E x \in Among(s) \union {0} : \A y \in Among(s) : y <= x
  BY <1>1, <1>2
<1> HIDE DEF Early, Good, B
<1>4. Peak(s) \in Among(s) \union {0} /\ \A y \in Among(s) : y <= Peak(s)
  BY <1>3 DEF Peak
<1>5. QED
  BY <1>1, <1>4

\* The average is a number; nothing below needs to know which.
LEMMA AverageTyped ==
  ASSUME NEW s \in Seq(Nat), s # <<>>, NEW w \in Nat
  PROVE  Average(s, w) \in Int
<1> DEFINE mean == Up(Total(s), Len(s))
           offs == [i \in DOMAIN s |-> IF s[i] > mean THEN s[i] - mean ELSE mean - s[i]]
           off == Up(Total(offs), Len(s))
<1>1. Len(s) \in Nat \ {0} /\ DOMAIN s = 1 .. Len(s)
  OBVIOUS
<1>2. \A x \in Int : Up(x, Len(s)) \in Int
  BY <1>1 DEF Up
<1>3. mean \in Int
  BY <1>2, TotalTyped
<1> HIDE DEF mean
<1>4. \A i \in DOMAIN s : s[i] \in Nat
  OBVIOUS
<1>5. \A i \in DOMAIN s : (IF s[i] > mean THEN s[i] - mean ELSE mean - s[i]) \in Nat
  BY <1>3, <1>4
<1>6. offs \in Seq(Nat)
  BY <1>1, <1>5
<1> HIDE DEF offs
<1>7. off \in Int
  BY <1>2, <1>6, TotalTyped
<1> HIDE DEF off
<1>8. off * w \in Int
  BY <1>7
<1>9. Average(s, w) = mean + 4 + off * w
  BY DEF Average, mean, offs, off
<1>10. QED
  BY <1>3, <1>8, <1>9

LEMMA LimitIs == TimingTypeOK => limit \in Nat \ {0} /\ Samples \in Nat \ {0}
  BY TimingAssumption DEF TimingAssumption, TimingTypeOK

\* A margin never exceeds AT ST, and grows with what it is the margin of.
LEMMA MarginIs ==
  ASSUME limit \in Nat \ {0}, adaptive \in 0 .. 2, NEW ms \in Nat
  PROVE  /\ Margin(ms) \in Nat /\ 0 < Margin(ms) /\ Margin(ms) <= limit
         /\ \A more \in Nat : ms <= more => Margin(ms) <= Margin(more)
<1>1. CASE adaptive = 2
  BY <1>1 DEF Margin, Floor, Least, Largest, Up
<1>2. CASE adaptive # 2
  BY <1>2 DEF Margin, Floor, Least, Largest, Up
<1>3. QED
  BY <1>1, <1>2

\* The target covers every sample with its margin.
LEMMA TargetIs ==
  ASSUME limit \in Nat \ {0}, adaptive \in 0 .. 2, NEW s \in Seq(Nat), s # <<>>
  PROVE  /\ Target(s) \in Nat /\ 0 < Target(s) /\ Target(s) >= Margin(0)
         /\ \A old \in Among(s) : Target(s) >= Margin(old)
<1> DEFINE w == IF adaptive = 2 THEN 2 ELSE 4
           a == Average(s, w)
           m == Margin(Peak(s))
<1>1. a \in Int
  BY AverageTyped
<1>2. Peak(s) \in Nat /\ \A y \in Among(s) : y \in Nat /\ y <= Peak(s)
  BY PeakIs
<1>3. m \in Nat /\ 0 < m /\ m <= limit
  BY <1>2, MarginIs
<1>4. Target(s) = Least(limit, Largest(a, m))
  BY DEF Target
<1> HIDE DEF a
<1>5. Margin(0) \in Nat /\ Margin(0) <= m
  <2>1. 0 \in Nat /\ 0 <= Peak(s)
    BY <1>2
  <2>2. QED
    BY <2>1, <1>2, MarginIs
<1>6. ASSUME NEW y \in Among(s) PROVE Margin(y) \in Nat /\ Margin(y) <= m
  BY <1>2, MarginIs
<1> HIDE DEF m
<1>7. Target(s) \in Nat /\ m <= Target(s)
  BY <1>1, <1>3, <1>4 DEF Least, Largest
<1>8. Target(s) >= Margin(0) /\ 0 < Target(s)
  BY <1>3, <1>5, <1>7
<1>9. ASSUME NEW y \in Among(s) PROVE Target(s) >= Margin(y)
  BY <1>6, <1>7, <1>3
<1>10. QED
  BY <1>7, <1>8, <1>9

LEMMA UpdatedIs ==
  ASSUME limit \in Nat \ {0}, adaptive \in 0 .. 2, estimate \in Nat, NEW s \in Seq(Nat), s # <<>>,
         NEW shrink \in BOOLEAN
  PROVE  /\ Updated(s, shrink) \in Nat /\ Updated(s, shrink) >= Target(s)
         /\ ~shrink => Updated(s, shrink) >= estimate
<1> DEFINE g == Target(s)
<1>1. g \in Nat
  BY TargetIs
<1>2. Updated(s, shrink) = IF estimate = 0 \/ g > estimate THEN g
                           ELSE IF shrink THEN estimate - (estimate - g + 7) \div 8 ELSE estimate
  BY DEF Updated
<1> HIDE DEF g
<1>3. g <= estimate => /\ (estimate - g + 7) \div 8 \in Nat
                       /\ (estimate - g + 7) \div 8 <= estimate - g
  BY <1>1
<1>4. CASE shrink
  BY <1>1, <1>2, <1>3, <1>4 DEF g
<1>5. CASE ~shrink
  BY <1>1, <1>2, <1>5 DEF g
<1>6. QED
  BY <1>4, <1>5

LEMMA BackedIs ==
  ASSUME limit \in Nat \ {0}, window_ms \in Nat, NEW ms \in Nat
  PROVE  BackedOff(ms) \in Nat /\ BackedOff(ms) >= ms /\ BackedOff(ms) >= Least(limit, 2 * window_ms)
  BY DEF BackedOff, Least, Largest

\* A wait is never shorter than the estimate allows, nor longer than AT ST.
LEMMA WindowIs ==
  ASSUME limit \in Nat \ {0}, estimate \in Nat, NEW idle \in {0, 3000, 5000}
  PROVE  /\ ReplyWindow(idle) \in Nat /\ ReplyWindow(idle) <= limit
         /\ adaptive = 0 \/ estimate = 0 => ReplyWindow(idle) = limit
         /\ ReplyWindow(idle) >= Least(estimate, limit)
<1>1. CASE idle = 0
  BY <1>1 DEF ReplyWindow, Least
<1>2. CASE idle = 3000
  BY <1>2 DEF ReplyWindow, Least
<1>3. CASE idle = 5000
  BY <1>3 DEF ReplyWindow, Least
<1>4. QED
  BY <1>1, <1>2, <1>3

\* The i-th slot from n on, in a full ring.
Turn(n, i) == IF n + i - 1 <= Samples THEN n + i - 1 ELSE n + i - 1 - Samples
LEMMA Turns ==
  ASSUME Samples \in Nat \ {0}, NEW n \in 1 .. Samples, NEW i \in 1 .. Samples
  PROVE  /\ After(n) \in 1 .. Samples /\ Turn(n, i) \in 1 .. Samples /\ Turn(After(n), Samples) = n
         /\ (Turn(After(n), i) = n <=> i = Samples)
         /\ i # Samples => i + 1 \in 1 .. Samples /\ Turn(After(n), i) = Turn(n, i + 1) /\ Turn(n, i + 1) # n
<1>1. CASE n = Samples
  BY <1>1 DEF Turn, After
<1>2. CASE n # Samples
  BY <1>2 DEF Turn, After
<1>3. QED
  BY <1>1, <1>2

\* Begun behind n, the ring comes to n last.
LEMMA TurnsBack ==
  ASSUME Samples \in Nat \ {0}, NEW n \in 1 .. Samples, NEW i \in 1 .. Samples
  PROVE  Turn(After(n), i) \in 1 .. Samples /\ (Turn(After(n), i) = n <=> i = Samples)
<1>1. After(n) \in 1 .. Samples
  BY Turns
<1>2. Turn(After(n), i) \in 1 .. Samples
  BY <1>1, Turns
<1>3. Turn(After(n), i) = n <=> i = Samples
  BY Turns
<1>4. QED
  BY <1>2, <1>3

\* A sample put into the ring: a new slot, the oldest one, or the exchange's own.
LEMMA RingPut ==
  ASSUME TimingTypeOK, RingTurns, NEW ms \in Nat, history' = Put(ms), Logged(ms), watch'.slot = Slot
  PROVE  /\ RingTurns' /\ log' \in Seq(Nat) /\ history' \in [next : 1 .. Samples, s : Seq(Nat)]
         /\ Len(history'.s) <= Samples /\ history'.s # <<>> /\ Slot \in 1 .. Samples
<1> DEFINE x == Least(ms, limit)
           L == Len(history.s)
<1>1. x \in Nat /\ Samples \in Nat \ {0}
  BY LimitIs DEF Least
<1> HIDE DEF x
<1>2. /\ history.s \in Seq(Nat) /\ history.next \in 1 .. Samples /\ watch.slot \in 0 .. Samples
      /\ log \in Seq(Nat) /\ L \in Nat /\ L <= Samples /\ Len(log) = L
  BY DEF TimingTypeOK, RingTurns, EvidenceIsHonest
<1>3. /\ \A i \in 1 .. L : history.s[Holds(i)] = log[i]
      /\ L < Samples => history.next = L + 1
      /\ watch.slot # 0 => log # <<>> /\ history.next = After(watch.slot)
  BY <1>2 DEF RingTurns, EvidenceIsHonest
<1>4. Slot \in 1 .. Samples
  BY <1>1, <1>2 DEF Slot
<1>5. CASE watch.slot = 0 /\ L < Samples
  <2>1. history'.s = Append(history.s, x) /\ history'.next = After(L + 1) /\ log' = Append(log, x)
    BY <1>2, <1>3, <1>5 DEF Put, Logged, Slot, Filled, x
  <2>2. /\ history'.s \in Seq(Nat) /\ Len(history'.s) = L + 1 /\ log' \in Seq(Nat) /\ Len(log') = L + 1
        /\ history'.next \in 1 .. Samples
    BY <1>1, <1>2, <1>5, <2>1 DEF After
  <2>3. ASSUME NEW i \in 1 .. L + 1 PROVE history'.s[Holds(i)'] = log'[i]
    <3>1. Holds(i)' = i
      BY <1>1, <1>2, <1>5, <2>1, <2>2 DEF Holds, After
    <3>2. i # L + 1 => Holds(i) = i /\ i \in 1 .. L
      BY <1>2, <1>5 DEF Holds
    <3>3. i # L + 1 => history'.s[i] = history.s[i] /\ log'[i] = log[i]
      BY <1>1, <1>2, <2>1, <3>2
    <3>4. i = L + 1 => history'.s[i] = x /\ log'[i] = x
      BY <1>1, <1>2, <2>1
    <3>5. QED
      BY <1>3, <3>1, <3>2, <3>3, <3>4
  <2>4. EvidenceIsHonest'
    BY <2>2, <2>3 DEF EvidenceIsHonest
  <2>5. (Len(history.s) < Samples => history.next = Len(history.s) + 1)'
    BY <1>1, <1>2, <2>1, <2>2 DEF After
  <2>6. (watch.slot # 0 => log # <<>> /\ history.next = After(watch.slot))'
    BY <1>3, <1>5, <2>1, <2>2 DEF Slot, After
  <2>7. history' \in [next : 1 .. Samples, s : Seq(Nat)]
    BY <2>2 DEF Put
  <2>8. QED
    BY <1>1, <1>2, <1>4, <1>5, <2>2, <2>4, <2>5, <2>6, <2>7 DEF RingTurns
<1>6. CASE watch.slot = 0 /\ L = Samples
  <2> DEFINE n == history.next
  <2>1. /\ history'.s = [history.s EXCEPT ![n] = x] /\ history'.next = After(n)
        /\ log' = Append(Tail(log), x)
    BY <1>2, <1>3, <1>6 DEF Put, Logged, Slot, Filled, x
  <2>2. /\ history'.s \in Seq(Nat) /\ Len(history'.s) = L
        /\ Tail(log) \in Seq(Nat) /\ Len(Tail(log)) = L - 1 /\ log' \in Seq(Nat) /\ Len(log') = L
        /\ history'.next \in 1 .. Samples
    <3>1. history'.s \in Seq(Nat) /\ Len(history'.s) = L
      BY <1>1, <1>2, <1>6, <2>1
    <3>2. log # <<>>
      BY <1>1, <1>2, <1>6
    <3>3. Tail(log) \in Seq(Nat) /\ Len(Tail(log)) = L - 1
      BY <1>2, <3>2
    <3>4. log' \in Seq(Nat) /\ Len(log') = L
      BY <1>1, <1>2, <2>1, <3>3
    <3>5. history'.next \in 1 .. Samples
      BY <1>1, <1>2, <2>1 DEF After
    <3>6. QED
      BY <3>1, <3>3, <3>4, <3>5
  <2>9. \A k \in 1 .. L : k # n => history'.s[k] = history.s[k]
    BY <1>2, <2>1
  <2>10. n \in 1 .. Samples
    BY <1>2
  <2> HIDE DEF n
  <2>3. ASSUME NEW i \in 1 .. L PROVE history'.s[Holds(i)'] = log'[i]
    <3> USE <1>1, <2>10
    <3>0. /\ i \in 1 .. Samples /\ n \in 1 .. Samples /\ Holds(i)' = Turn(After(n), i)
          /\ \A k : Holds(k) = Turn(n, k)
      BY <1>2, <1>6, <2>1, <2>2 DEF Holds, Turn, n
    <3>1. CASE i = L
      <4>1. Holds(i)' = n
        BY <1>6, <3>0, <3>1, Turns
      <4>2. history'.s[n] = x /\ log'[i] = x
        BY <1>1, <1>2, <1>6, <2>1, <2>2, <3>1 DEF n
      <4>3. QED
        BY <4>1, <4>2
    <3>2. CASE i # L
      <4>1. i + 1 \in 1 .. L /\ Holds(i)' = Holds(i + 1) /\ Holds(i + 1) # n /\ Holds(i + 1) \in 1 .. L
        <5>1. i + 1 \in 1 .. Samples /\ Turn(After(n), i) = Turn(n, i + 1) /\ Turn(n, i + 1) # n
          BY <1>6, <3>0, <3>2, Turns
        <5>2. Turn(n, i + 1) \in 1 .. Samples
          BY <3>0, <5>1, Turns
        <5>3. QED
          BY <1>6, <3>0, <5>1, <5>2
      <4>2. log'[i] = log[i + 1]
        BY <1>1, <1>2, <1>6, <2>1, <2>2, <3>2
      <4>3. history'.s[Holds(i + 1)] = history.s[Holds(i + 1)]
        BY <2>9, <4>1
      <4>4. QED
        BY <1>3, <4>1, <4>2, <4>3
    <3>3. QED
      BY <3>1, <3>2
  <2>4. EvidenceIsHonest'
    BY <2>2, <2>3 DEF EvidenceIsHonest
  <2>5. (watch.slot # 0 => log # <<>> /\ history.next = After(watch.slot))'
    BY <1>1, <1>2, <1>6, <2>1, <2>2 DEF Slot, After, n
  <2>6. history' \in [next : 1 .. Samples, s : Seq(Nat)]
    BY <2>2 DEF Put
  <2>7. QED
    BY <1>1, <1>2, <1>4, <1>6, <2>2, <2>4, <2>5, <2>6 DEF RingTurns
<1>7. CASE watch.slot # 0
  <2> DEFINE t == watch.slot
  <2>1. L > 0 /\ t \in 1 .. Samples /\ history.next = After(t)
    BY <1>2, <1>3, <1>7
  <2>2. t \in 1 .. L /\ (L < Samples => t = L)
    <3>1. L < Samples => After(t) = L + 1
      BY <1>3, <2>1
    <3>2. CASE t = Samples
      <4>1. ~(L < Samples)
        BY <1>2, <2>1, <3>1, <3>2 DEF After
      <4>2. QED
        BY <1>1, <1>2, <3>2, <4>1
    <3>3. CASE t # Samples
      <4>1. After(t) = t + 1
        BY <3>3 DEF After
      <4>2. L < Samples => t = L
        BY <1>2, <2>1, <3>1, <4>1
      <4>3. QED
        BY <1>1, <1>2, <2>1, <4>2
    <3>4. QED
      BY <3>2, <3>3
  <2>3. /\ history'.s = [history.s EXCEPT ![t] = x] /\ history'.next = history.next
        /\ log' = [log EXCEPT ![L] = x] /\ Slot = t
    BY <1>2, <1>7, <2>2 DEF Put, Logged, Slot, Filled, x
  <2>4. history'.s \in Seq(Nat) /\ Len(history'.s) = L /\ log' \in Seq(Nat) /\ Len(log') = L
    <3>1. history'.s \in Seq(Nat) /\ Len(history'.s) = L
      BY <1>1, <1>2, <2>2, <2>3
    <3>2. log' \in Seq(Nat) /\ Len(log') = L
      BY <1>1, <1>2, <2>1, <2>3
    <3>3. QED
      BY <3>1, <3>2
  <2>5. ASSUME NEW i \in 1 .. L PROVE history'.s[Holds(i)'] = log'[i]
    <3>1. Holds(i)' = Holds(i)
      BY <2>3, <2>4 DEF Holds
    <3>2. Holds(i) \in 1 .. L /\ (i = L <=> Holds(i) = t)
      <4>1. CASE L < Samples
        BY <1>2, <2>2, <4>1 DEF Holds
      <4>2. CASE ~(L < Samples)
        <5>1. L = Samples /\ i \in 1 .. Samples /\ t \in 1 .. Samples
          BY <1>1, <1>2, <2>1, <4>2
        <5>2. Holds(i) = Turn(After(t), i)
          BY <2>1, <4>2 DEF Holds, Turn
        <5>3. Samples \in Nat \ {0}
          BY <1>1
        <5>4. Turn(After(t), i) = t <=> i = Samples
          BY <5>1, <5>3, TurnsBack
        <5>5. Turn(After(t), i) \in 1 .. Samples
          BY <5>1, <5>3, TurnsBack
        <5>6. Holds(i) \in 1 .. L
          BY <5>1, <5>2, <5>5
        <5>7. i = L <=> Holds(i) = t
          BY <5>1, <5>2, <5>4
        <5>8. QED
          BY <5>6, <5>7
      <4>3. QED
        BY <4>1, <4>2
    <3>3. CASE i = L
      BY <1>2, <2>2, <2>3, <3>1, <3>2, <3>3
    <3>4. CASE i # L
      <4>1. history'.s[Holds(i)] = history.s[Holds(i)]
        <5>1. Holds(i) # t /\ Holds(i) \in DOMAIN history.s
          BY <1>2, <3>2, <3>4
        <5>2. QED
          BY <2>3, <5>1
      <4>2. log'[i] = log[i]
        BY <1>2, <2>3, <3>4
      <4>3. QED
        BY <1>3, <3>1, <4>1, <4>2
    <3>5. QED
      BY <3>3, <3>4
  <2>6. EvidenceIsHonest'
    BY <2>4, <2>5 DEF EvidenceIsHonest
  <2>7. (Len(history.s) < Samples => history.next = Len(history.s) + 1)'
    BY <1>3, <2>3, <2>4
  <2>8. (watch.slot # 0 => log # <<>> /\ history.next = After(watch.slot))'
    BY <2>1, <2>3, <2>4 DEF After
  <2>9. history' \in [next : 1 .. Samples, s : Seq(Nat)]
    BY <1>2, <2>3, <2>4 DEF Put
  <2>10. QED
    BY <1>2, <1>4, <2>1, <2>4, <2>6, <2>7, <2>8, <2>9 DEF RingTurns
<1>8. QED
  BY <1>1, <1>2, <1>5, <1>6, <1>7

\* What only a command changes.
Settled == UNCHANGED <<on_bus, adaptive, limit, steady>>

LEMMA FinishTypes ==
  ASSUME TimingInv, NEW w, w \in [active : BOOLEAN, latency : Nat, deadline : Nat, slot : 0 .. Samples],
         NEW incomplete \in BOOLEAN, Finishes(w, incomplete), Settled, w.slot = watch.slot
  PROVE  /\ RingTurns' /\ log' \in Seq(Nat) /\ history' \in [next : 1 .. Samples, s : Seq(Nat)]
         /\ Len(history'.s) <= Samples
         /\ watch' \in [active : BOOLEAN, latency : Nat, deadline : Nat, slot : 0 .. Samples]
         /\ watch'.active = w.active
         /\ adaptive # 0 /\ w.latency # 0 => history' = Put(w.latency) /\ history'.s # <<>>
         /\ ~(adaptive # 0 /\ w.latency # 0) => history' = history
<1> DEFINE Watches == [active : BOOLEAN, latency : Nat, deadline : Nat, slot : 0 .. Samples]
<1>1. TimingTypeOK /\ RingTurns
  BY DEF TimingInv
<1>2. CASE adaptive # 0 /\ w.latency # 0
  <2>1. history' = Put(w.latency) /\ watch' = [w EXCEPT !.slot = Slot] /\ Logged(w.latency)
    BY <1>2 DEF Finishes
  <2>2. w.latency \in Nat /\ watch'.slot = Slot /\ watch'.active = w.active
    BY <2>1
  <2>3. /\ RingTurns' /\ log' \in Seq(Nat) /\ history' \in [next : 1 .. Samples, s : Seq(Nat)]
        /\ Len(history'.s) <= Samples /\ history'.s # <<>> /\ Slot \in 1 .. Samples
    BY <1>1, <2>1, <2>2, RingPut
  <2>4. Slot \in 0 .. Samples
    BY <1>1, <2>3, LimitIs
  <2>5. watch' \in Watches
    BY <2>1, <2>4
  <2>6. QED
    BY <1>2, <2>1, <2>2, <2>3, <2>5
<1>3. CASE ~(adaptive # 0 /\ w.latency # 0)
  <2>1. history' = history /\ log' = log /\ watch' = w
    BY <1>3 DEF Finishes
  <2>2. RingTurns'
    BY <1>1, <2>1 DEF RingTurns, EvidenceIsHonest, Holds
  <2>3. QED
    BY <1>1, <1>3, <2>1, <2>2 DEF TimingTypeOK
<1>4. QED
  BY <1>2, <1>3

LEMMA MarginSame == Settled => \A ms : Margin(ms)' = Margin(ms)
  BY DEF Settled, Margin, Floor

\* After an exchange the estimate covers the history; silence doubles the wait.
LEMMA FinishCovers ==
  ASSUME TimingInv, ~NoWait, NEW w,
         w \in [active : BOOLEAN, latency : Nat, deadline : Nat, slot : 0 .. Samples],
         NEW incomplete \in BOOLEAN, Finishes(w, incomplete), Settled, w.slot = watch.slot,
         w.active = watch.active
  PROVE  /\ estimate' \in Nat /\ EstimateCovers'
         /\ adaptive # 0 /\ w.latency = 0 => estimate' >= Least(limit, 2 * window_ms)
<1> DEFINE now == Updated(Put(w.latency).s, TRUE)
           ms == IF adaptive # 0 /\ w.latency # 0 THEN now ELSE estimate
<1>1. /\ limit \in Nat \ {0} /\ adaptive \in 0 .. 2 /\ estimate \in Nat /\ window_ms \in Nat \ {0}
      /\ history \in [next : 1 .. Samples, s : Seq(Nat)] /\ w.latency \in Nat
  BY LimitIs DEF TimingInv, TimingTypeOK, NoWait
<1>2. Margin(0) \in Nat /\ 0 < Margin(0) /\ Margin(0) <= limit
  BY <1>1, MarginIs
<1>3. \A old : Margin(old)' = Margin(old)
  BY MarginSame
<1>4. estimate' = IF adaptive # 0 /\ (w.latency = 0 \/ incomplete) THEN BackedOff(ms) ELSE ms
  BY DEF Finishes
<1>5. \A x \in Nat : /\ BackedOff(x) \in Nat /\ BackedOff(x) >= x
                     /\ BackedOff(x) >= Least(limit, 2 * window_ms)
  BY <1>1, BackedIs
<1>6. watch'.active = w.active /\ (watch.active => adaptive # 0) /\ adaptive' = adaptive /\ steady' = steady
  BY FinishTypes DEF TimingInv, EstimateCovers, Settled
<1>7. CASE adaptive # 0 /\ w.latency # 0
  <2> DEFINE s == history'.s
  <2>1. s = Put(w.latency).s /\ s # <<>> /\ s \in Seq(Nat)
    BY <1>7, FinishTypes
  <2>2. Target(s) \in Nat /\ 0 < Target(s) /\ Target(s) >= Margin(0)
        /\ \A old \in Among(s) : Target(s) >= Margin(old)
    BY <1>1, <2>1, TargetIs
  <2>3. now \in Nat /\ now >= Target(s)
    BY <1>1, <2>1, UpdatedIs
  <2>4. estimate' \in Nat /\ estimate' >= Target(s)
    <3> HIDE DEF now, s
    <3>1. ms = now
      BY <1>7
    <3>2. QED
      BY <1>4, <1>5, <2>2, <2>3, <3>1
  <2>5. \A old \in Among(s) : Margin(old) \in Nat
    <3>1. Among(s) \subseteq Nat
      BY <2>1, PeakIs
    <3>2. QED
      BY <1>1, <3>1, MarginIs
  <2>6. estimate' >= Margin(0) /\ estimate' # 0
    BY <1>2, <2>2, <2>4
  <2>7. ASSUME NEW old \in Among(s) PROVE estimate' >= Margin(old)
    <3>1. Margin(old) \in Nat /\ Target(s) >= Margin(old)
      BY <2>2, <2>5
    <3>2. QED
      BY <2>2, <2>4, <3>1
  <2>8. Covers(estimate)'
    BY <1>3, <2>6, <2>7 DEF Covers, Among
  <2>9. QED
    BY <1>6, <1>7, <2>4, <2>6, <2>8 DEF EstimateCovers
<1>8. CASE adaptive # 0 /\ w.latency = 0
  <2>1. history' = history /\ estimate' = BackedOff(estimate)
    BY <1>4, <1>8, FinishTypes
  <2>2. estimate' \in Nat /\ estimate' >= estimate /\ estimate' >= Least(limit, 2 * window_ms)
    BY <1>1, <1>5, <2>1
  <2>3. estimate' # 0
    BY <1>1, <2>2 DEF Least
  <2>4. ASSUME steady PROVE Covers(estimate)'
    <3>1. CASE estimate = 0
      <4>1. Among(history.s) = {}
        BY <3>1 DEF TimingInv, EstimateCovers, Among
      <4>2. window_ms >= Margin(0)
        BY <1>8, <2>4 DEF TimingInv, FirstWait, Covers
      <4>3. estimate' >= Margin(0)
        BY <1>1, <1>2, <2>2, <4>2 DEF Least
      <4>4. QED
        BY <1>3, <2>1, <4>1, <4>3 DEF Covers, Among
    <3>2. CASE estimate # 0
      <4>1. estimate >= Margin(0) /\ \A old \in Among(history.s) : estimate >= Margin(old)
        BY <1>8, <2>4, <3>2 DEF TimingInv, EstimateCovers, Covers
      <4>2. Among(history.s) \subseteq Nat
        BY <1>1, PeakIs
      <4>3. \A old \in Among(history.s) : Margin(old) \in Nat
        BY <1>1, <4>2, MarginIs
      <4>4. estimate' >= Margin(0)
        BY <1>1, <1>2, <2>2, <4>1
      <4>5. \A old \in Among(history.s) : estimate' >= Margin(old)
        BY <1>1, <2>2, <4>1, <4>3
      <4>6. QED
        BY <1>3, <2>1, <4>4, <4>5 DEF Covers, Among
    <3>3. QED
      BY <3>1, <3>2
  <2>5. QED
    BY <1>6, <1>8, <2>2, <2>3, <2>4 DEF EstimateCovers
<1>9. CASE adaptive = 0
  <2>1. history' = history /\ estimate' = estimate
    BY <1>4, <1>9, FinishTypes
  <2>2. QED
    BY <1>1, <1>6, <1>9, <2>1 DEF EstimateCovers, TimingInv
<1>10. QED
  BY <1>7, <1>8, <1>9

LEMMA NotedIs ==
  ASSUME TimingTypeOK, NEW a \in (Nat \ {0}) \X BOOLEAN
  PROVE  /\ Noted(a) \in [active : BOOLEAN, latency : Nat, deadline : Nat, slot : 0 .. Samples]
         /\ Noted(a).slot = watch.slot /\ Noted(a).active = watch.active /\ Noted(a).latency # 0
<1> DEFINE slowest == Largest(watch.latency, a[1])
           wait == IF a[2] /\ on_bus = "can" THEN PendingWait ELSE limit
           last == Largest(watch.deadline, a[1] + wait)
<1>1. a[1] \in Nat \ {0} /\ limit \in Nat /\ watch.latency \in Nat /\ watch.deadline \in Nat
  BY LimitIs DEF TimingTypeOK
<1>2. slowest \in Nat \ {0}
  BY <1>1 DEF Largest
<1>3. wait \in Nat
  BY <1>1 DEF PendingWait
<1> HIDE DEF wait
<1>4. last \in Nat
  BY <1>1, <1>3 DEF Largest
<1>5. Noted(a) = [watch EXCEPT !.latency = slowest, !.deadline = last]
  BY DEF Noted, wait
<1> HIDE DEF slowest, last
<1>6. QED
  BY <1>2, <1>4, <1>5 DEF TimingTypeOK

LEMMA Empties == /\ <<>> \in Answers /\ <<>> \in Seq(Nat) /\ Len(<<>>) <= Samples
                 /\ [next |-> 1, s |-> <<>>] \in [next : 1 .. Samples, s : Seq(Nat)]
                 /\ NoWatch \in [active : BOOLEAN, latency : Nat, deadline : Nat, slot : 0 .. Samples]
  BY TimingAssumption DEF TimingAssumption, Answers, NoWatch

LEMMA ATKeeps == ASSUME TimingInv, NEW m \in 0 .. 2, AT(m) PROVE TimingInv'
<1>1. TimingTypeOK'
  BY Empties DEF TimingInv, TimingTypeOK, AT, Unlearned, AtRest
<1>2. RingTurns'
  BY LimitIs DEF TimingInv, AT, Unlearned, NoWatch, RingTurns, EvidenceIsHonest
<1>3. EstimateCovers' /\ FirstWait' /\ WaitsDouble'
  BY DEF TimingInv, AT, Unlearned, NoWatch, AtRest, EstimateCovers, FirstWait, WaitsDouble, NoWait
<1>4. QED
  BY <1>1, <1>2, <1>3 DEF TimingInv

LEMMA STKeeps == ASSUME TimingInv, NEW ms \in Limits, ST(ms) PROVE TimingInv'
<1>1. TimingTypeOK'
  BY Empties DEF TimingInv, TimingTypeOK, ST, AtRest
<1>2. RingTurns'
  BY DEF TimingInv, ST, NoWatch, RingTurns, EvidenceIsHonest, Holds
<1>3. EstimateCovers' /\ FirstWait' /\ WaitsDouble'
  BY DEF TimingInv, ST, NoWatch, AtRest, EstimateCovers, FirstWait, WaitsDouble, NoWait
<1>4. QED
  BY <1>1, <1>2, <1>3 DEF TimingInv

LEMMA BeginKeeps ==
  ASSUME TimingInv, NEW one \in BOOLEAN, NEW idle \in {0, 3000, 5000}, NEW replies \in Replies,
         BeginsExchange(one, idle, replies)
  PROVE  TimingInv'
<1>1. /\ limit \in Nat \ {0} /\ adaptive \in 0 .. 2 /\ estimate \in Nat /\ due \in Nat /\ outlasted \in Nat
      /\ history.s \in Seq(Nat)
  BY LimitIs DEF TimingInv, TimingTypeOK
<1>2. replies \in Answers
  BY TimingAssumption DEF TimingAssumption, Answers
<1>3. /\ window_ms' \in Nat /\ window_ms' <= limit
      /\ adaptive = 0 \/ estimate = 0 => window_ms' = limit
      /\ window_ms' >= Least(estimate, limit)
  BY <1>1, WindowIs DEF BeginsExchange
<1>4. UNCHANGED <<on_bus, adaptive, limit, steady, estimate, history, log>>
  BY DEF BeginsExchange
<1>5. due' \in Nat /\ (due' # 0 => Len(replies) = 1 /\ replies[1][1] = due')
  <2>1. CASE Len(replies) = 1
    <3>1. replies[1] \in (Nat \ {0}) \X BOOLEAN
      BY <1>2, <2>1 DEF Answers
    <3>2. QED
      BY <2>1, <3>1 DEF BeginsExchange
  <2>2. CASE Len(replies) # 1
    BY <2>2 DEF BeginsExchange
  <2>3. QED
    BY <2>1, <2>2
<1>6. coming' = replies /\ got' = 0 /\ until' = window_ms' /\ hint' = one /\ promised' = FALSE
  BY DEF BeginsExchange
<1>7. /\ watch' \in [active : BOOLEAN, latency : Nat, deadline : Nat, slot : 0 .. Samples]
      /\ watch'.latency = 0 /\ watch'.slot = 0 /\ (watch'.active <=> adaptive # 0)
  <2> DEFINE asks == adaptive # 0
  <2>1. watch' = [active |-> asks, latency |-> 0, deadline |-> limit, slot |-> 0]
    BY DEF BeginsExchange
  <2>2. asks \in BOOLEAN /\ (asks <=> adaptive # 0) /\ limit \in Nat /\ 0 \in 0 .. Samples
    BY <1>1, LimitIs DEF TimingInv
  <2> HIDE DEF asks
  <2>3. QED
    BY <2>1, <2>2
<1>8. outlasted' \in Nat /\ (outlasted' # 0 => due' = due /\ outlasted' = outlasted)
  BY <1>1 DEF BeginsExchange
<1>a. promised' \in BOOLEAN
  <2> DEFINE no == FALSE
  <2>1. no \in BOOLEAN /\ promised' = no
    BY DEF BeginsExchange
  <2> HIDE DEF no
  <2>2. QED
    BY <2>1
<1>9. TimingTypeOK'
  BY <1>2, <1>3, <1>4, <1>5, <1>6, <1>7, <1>8, <1>a DEF TimingInv, TimingTypeOK
<1>10. RingTurns'
  BY <1>4, <1>7 DEF TimingInv, RingTurns, EvidenceIsHonest, Holds
<1>11. \A ms : Margin(ms)' = Margin(ms)
  BY <1>4 DEF Margin, Floor
<1>12. adaptive # 0 /\ steady => Covers(window_ms)'
  <2>1. SUFFICES ASSUME adaptive # 0, steady PROVE Covers(window_ms)'
    OBVIOUS
  <2>2. ASSUME NEW old \in Nat, estimate # 0 => estimate >= Margin(old) PROVE window_ms' >= Margin(old)
    <3>1. Margin(old) \in Nat /\ Margin(old) <= limit
      <4>1. limit \in Nat \ {0} /\ adaptive \in 0 .. 2 /\ old \in Nat
        BY <1>1, <2>2
      <4>2. QED
        BY <4>1, MarginIs
    <3>2. CASE estimate = 0
      BY <1>1, <1>3, <3>1, <3>2
    <3>3. CASE estimate # 0
      BY <1>1, <1>3, <2>2, <3>1, <3>3 DEF Least
    <3>4. QED
      BY <3>2, <3>3
  <2>3. estimate # 0 => estimate >= Margin(0) /\ \A old \in Among(history.s) : estimate >= Margin(old)
    BY <2>1 DEF TimingInv, EstimateCovers, Covers
  <2>4. Among(history.s) \subseteq Nat
    BY <1>1, PeakIs
  <2>5. window_ms' >= Margin(0) /\ \A old \in Among(history.s) : window_ms' >= Margin(old)
    BY <2>2, <2>3, <2>4
  <2>6. QED
    BY <1>4, <1>11, <2>5 DEF Covers, Among
<1>13. EstimateCovers'
  <2>1. estimate = 0 => history.s = <<>>
    BY DEF TimingInv, EstimateCovers
  <2>2. adaptive # 0 /\ steady /\ estimate # 0 => Covers(estimate)'
    BY <1>4, <1>11 DEF TimingInv, EstimateCovers, Covers, Among
  <2>3. watch'.active => adaptive # 0 /\ (NoWait' => estimate # 0)
    BY <1>1, <1>3, <1>7 DEF NoWait
  <2>4. QED
    BY <1>4, <2>1, <2>2, <2>3 DEF EstimateCovers
<1>14. FirstWait'
  BY <1>3, <1>4, <1>5, <1>6, <1>7, <1>12 DEF FirstWait
<1>15. WaitsDouble'
  <2>1. SUFFICES ASSUME outlasted' # 0 PROVE WaitsDouble'
    BY DEF WaitsDouble
  <2>2. due' = due /\ outlasted' = outlasted
    BY <1>8, <2>1
  <2>3. outlasted < due /\ (adaptive = 0 \/ estimate = 0 \/ estimate >= Least(due, 2 * outlasted))
    BY <2>1, <2>2 DEF TimingInv, WaitsDouble
  <2>4. window_ms' >= Least(limit, Least(due, 2 * outlasted))
    BY <1>1, <1>3, <2>3 DEF Least
  <2>5. QED
    BY <1>4, <2>2, <2>3, <2>4 DEF WaitsDouble
<1>16. QED
  BY <1>9, <1>10, <1>13, <1>14, <1>15 DEF TimingInv

LEMMA AnswerKeeps == ASSUME TimingInv, Answer PROVE TimingInv'
<1> DEFINE a == Head(coming)
           promises == a[2] /\ on_bus = "can"
           w == Noted(a)
<1>1. TimingTypeOK /\ ~NoWait
  BY DEF TimingInv, Answer
<1>2. coming \in Answers /\ coming # <<>>
  BY <1>1 DEF TimingTypeOK, Answer, InTime
<1>3. a \in (Nat \ {0}) \X BOOLEAN /\ Tail(coming) \in Answers
  BY <1>2 DEF Answers
<1>4. /\ w \in [active : BOOLEAN, latency : Nat, deadline : Nat, slot : 0 .. Samples]
      /\ w.slot = watch.slot /\ w.active = watch.active /\ w.latency # 0
  BY <1>1, <1>3, NotedIs
<1>5. Settled /\ coming' = Tail(coming)
  BY DEF Answer, Settled
<1> HIDE DEF w
<1>6. CASE hint /\ ~promises
  <2>1. Finishes(w, FALSE) /\ outlasted' = 0
    BY <1>6 DEF Answer, w
  <2>2. window_ms' = 0 /\ until' = 0 /\ promised' = FALSE /\ hint' = FALSE /\ got' = 0 /\ due' = due
    BY <2>1 DEF Finishes
  <2>3. /\ RingTurns' /\ log' \in Seq(Nat) /\ history' \in [next : 1 .. Samples, s : Seq(Nat)]
        /\ Len(history'.s) <= Samples
        /\ watch' \in [active : BOOLEAN, latency : Nat, deadline : Nat, slot : 0 .. Samples]
    BY <1>4, <1>5, <2>1, FinishTypes
  <2>4. estimate' \in Nat /\ EstimateCovers'
    BY <1>1, <1>4, <1>5, <2>1, FinishCovers
  <2>5. TimingTypeOK'
    BY <1>1, <1>3, <1>5, <2>1, <2>2, <2>3, <2>4 DEF TimingTypeOK, Settled
  <2>6. FirstWait' /\ WaitsDouble'
    BY <2>1, <2>2 DEF FirstWait, WaitsDouble, NoWait
  <2>7. QED
    BY <2>3, <2>4, <2>5, <2>6 DEF TimingInv
<1>7. CASE ~(hint /\ ~promises)
  <2>1. /\ watch' = w /\ got' = got + 1
        /\ until' = (IF promises THEN a[1] + PendingWait
                     ELSE IF promised THEN until ELSE a[1] + CollectionWindow(w.latency))
        /\ UNCHANGED <<estimate, history, window_ms, hint, due, log, outlasted>>
    BY <1>7 DEF Answer, w
  <2>2. limit \in Nat \ {0} /\ adaptive \in 0 .. 2 /\ window_ms \in Nat /\ until \in Nat /\ a[1] \in Nat /\ got \in Nat
    BY <1>1, <1>3, LimitIs DEF TimingTypeOK
  <2>3. CollectionWindow(w.latency) \in Nat
    <3>1. Margin(w.latency) \in Nat
      BY <1>4, <2>2, MarginIs
    <3>2. QED
      BY <2>2, <3>1 DEF CollectionWindow, Largest
  <2>4. until' \in Nat
    <3>1. CASE promises
      BY <2>1, <2>2, <3>1 DEF PendingWait
    <3>2. CASE ~promises
      BY <2>1, <2>2, <2>3, <3>2
    <3>3. QED
      BY <3>1, <3>2
  <2>a. promised' \in BOOLEAN
    BY DEF Answer, Finishes
  <2>5. TimingTypeOK'
    BY <1>1, <1>3, <1>4, <1>5, <2>1, <2>2, <2>4, <2>a DEF TimingTypeOK, Settled
  <2>6. RingTurns'
    BY <1>4, <2>1 DEF TimingInv, RingTurns, EvidenceIsHonest, Holds
  <2>7. \A ms : Margin(ms)' = Margin(ms)
    BY <1>5, MarginSame
  <2>8. EstimateCovers'
    BY <1>4, <1>5, <2>1, <2>7 DEF TimingInv, EstimateCovers, Covers, Among, NoWait, Settled
  <2>9. FirstWait'
    BY <1>5, <2>1, <2>2, <2>7 DEF TimingInv, FirstWait, Covers, Among, NoWait, Settled
  <2>10. WaitsDouble'
    BY <1>5, <2>1 DEF TimingInv, WaitsDouble, NoWait, Settled
  <2>11. QED
    BY <2>5, <2>6, <2>8, <2>9, <2>10 DEF TimingInv
<1>8. QED
  BY <1>6, <1>7

LEMMA SilenceKeeps == ASSUME TimingInv, Silence PROVE TimingInv'
<1>1. /\ TimingTypeOK /\ ~NoWait /\ ~InTime /\ Settled /\ Finishes(watch, hint /\ got = 0)
      /\ outlasted' = (IF ~Missed THEN 0 ELSE IF outlasted = 0 THEN window_ms ELSE 2 * outlasted)
      /\ coming' = (IF watch.active THEN coming ELSE <<>>)
  BY DEF TimingInv, Silence, Settled
<1>2. watch \in [active : BOOLEAN, latency : Nat, deadline : Nat, slot : 0 .. Samples]
  BY <1>1 DEF TimingTypeOK
<1>3. /\ RingTurns' /\ log' \in Seq(Nat) /\ history' \in [next : 1 .. Samples, s : Seq(Nat)]
      /\ Len(history'.s) <= Samples
      /\ watch' \in [active : BOOLEAN, latency : Nat, deadline : Nat, slot : 0 .. Samples]
  BY <1>1, <1>2, FinishTypes
<1>4. /\ estimate' \in Nat /\ EstimateCovers'
      /\ adaptive # 0 /\ watch.latency = 0 => estimate' >= Least(limit, 2 * window_ms)
  BY <1>1, <1>2, FinishCovers
<1>5. window_ms' = 0 /\ until' = 0 /\ promised' = FALSE /\ hint' = FALSE /\ got' = 0 /\ due' = due
  BY <1>1 DEF Finishes
<1>6. coming' \in Answers
  BY <1>1 DEF TimingTypeOK, Answers
<1>7. limit \in Nat \ {0} /\ window_ms \in Nat \ {0} /\ outlasted \in Nat /\ due \in Nat
  BY <1>1, LimitIs DEF TimingTypeOK, NoWait
<1>8. outlasted' \in Nat
  BY <1>1, <1>7
<1>9. TimingTypeOK'
  BY <1>1, <1>3, <1>4, <1>5, <1>6, <1>8 DEF TimingTypeOK, Settled
<1>10. FirstWait'
  BY <1>5 DEF FirstWait, NoWait
<1>11. WaitsDouble'
  <2>1. CASE ~Missed
    BY <1>1, <2>1 DEF WaitsDouble
  <2>2. CASE Missed
    <3>1. due # 0 /\ due <= limit /\ got = 0
      BY <2>2 DEF Missed
    <3>2. /\ window_ms <= limit /\ (adaptive = 0 => window_ms = limit) /\ until = window_ms /\ watch.latency = 0
          /\ Len(coming) = 1 /\ coming[1][1] = due
      BY <1>1, <3>1 DEF TimingInv, FirstWait
    <3>3. window_ms < due
      <4>1. coming # <<>> /\ Head(coming) = coming[1]
        <5>1. coming \in Seq((Nat \ {0}) \X BOOLEAN)
          BY <1>1 DEF TimingTypeOK, Answers
        <5>2. Len(coming) = 1
          BY <3>2
        <5>3. QED
          BY <5>1, <5>2, OnlyOne
      <4>2. QED
        BY <1>1, <1>7, <3>2, <4>1 DEF InTime
    <3>4. adaptive # 0
      BY <1>7, <3>1, <3>2, <3>3
    <3>5. outlasted # 0 => 2 * outlasted <= window_ms
      <4>1. outlasted # 0 => window_ms >= Least(limit, Least(due, 2 * outlasted))
        BY <1>1 DEF TimingInv, WaitsDouble
      <4>2. QED
        BY <1>7, <3>1, <3>3, <4>1 DEF Least
    <3>6. outlasted' <= window_ms /\ outlasted' # 0
      BY <1>1, <1>7, <2>2, <3>5
    <3>7. estimate' >= Least(due, 2 * outlasted')
      <4>1. estimate' \in Nat /\ estimate' >= Least(limit, 2 * window_ms)
        BY <1>4, <3>2, <3>4
      <4>2. ASSUME NEW o \in Nat, o <= window_ms, NEW e \in Nat, e >= Least(limit, 2 * window_ms)
            PROVE  e >= Least(due, 2 * o)
        BY <1>7, <3>1, <4>2 DEF Least
      <4>3. QED
        BY <1>8, <3>6, <4>1, <4>2
    <3>8. outlasted' < due'
      BY <1>5, <1>7, <1>8, <3>3, <3>6
    <3>9. QED
      BY <1>5, <3>7, <3>8 DEF WaitsDouble, NoWait
  <2>3. QED
    BY <2>1, <2>2
<1>12. QED
  BY <1>3, <1>4, <1>9, <1>10, <1>11 DEF TimingInv

LEMMA LateKeeps == ASSUME TimingInv, Late PROVE TimingInv'
<1>1. /\ TimingTypeOK /\ NoWait /\ watch.active /\ coming # <<>> /\ coming' = Tail(coming)
      /\ UNCHANGED <<on_bus, adaptive, limit, steady, window_ms, until, promised, hint, got, due, outlasted>>
  BY DEF TimingInv, Late
<1>2. Head(coming) \in (Nat \ {0}) \X BOOLEAN /\ coming' \in Answers
  BY <1>1 DEF TimingTypeOK, Answers
<1>3. \A ms : Margin(ms)' = Margin(ms)
  BY <1>1, MarginSame DEF Settled
<1>4. adaptive # 0 /\ estimate # 0
  BY <1>1 DEF TimingInv, EstimateCovers
<1>5. FirstWait'
  BY <1>1 DEF FirstWait, NoWait
<1>6. CASE Head(coming)[1] > watch.deadline
  <2>1. UNCHANGED <<estimate, history, watch, log>>
    BY <1>6 DEF Late, learned
  <2>2. TimingTypeOK'
    BY <1>1, <1>2, <2>1 DEF TimingTypeOK
  <2>3. RingTurns'
    BY <2>1 DEF TimingInv, RingTurns, EvidenceIsHonest, Holds
  <2>4. EstimateCovers'
    BY <1>1, <1>3, <2>1 DEF TimingInv, EstimateCovers, Covers, Among, NoWait
  <2>5. WaitsDouble'
    BY <1>1, <2>1 DEF TimingInv, WaitsDouble, NoWait
  <2>6. QED
    BY <1>5, <2>2, <2>3, <2>4, <2>5 DEF TimingInv
<1>7. CASE ~(Head(coming)[1] > watch.deadline)
  <2> DEFINE w == Noted(Head(coming))
             s == history'.s
  <2>1. /\ watch' = [w EXCEPT !.slot = Slot] /\ history' = Put(w.latency)
        /\ estimate' = Updated(Put(w.latency).s, FALSE) /\ Logged(w.latency)
    BY <1>7 DEF Late
  <2>2. /\ w \in [active : BOOLEAN, latency : Nat, deadline : Nat, slot : 0 .. Samples]
        /\ w.slot = watch.slot /\ w.active = watch.active /\ w.latency # 0
    BY <1>1, <1>2, NotedIs
  <2> HIDE DEF w
  <2>3. w.latency \in Nat /\ watch'.slot = Slot /\ watch'.active
    BY <1>1, <2>1, <2>2
  <2>4. /\ RingTurns' /\ log' \in Seq(Nat) /\ history' \in [next : 1 .. Samples, s : Seq(Nat)]
        /\ Len(history'.s) <= Samples /\ history'.s # <<>> /\ Slot \in 1 .. Samples
    BY <2>1, <2>3, RingPut DEF TimingInv
  <2>5. Slot \in 0 .. Samples
    BY <1>1, <2>4, LimitIs
  <2>6. watch' \in [active : BOOLEAN, latency : Nat, deadline : Nat, slot : 0 .. Samples]
    BY <2>1, <2>2, <2>5
  <2>7. limit \in Nat \ {0} /\ adaptive \in 0 .. 2 /\ estimate \in Nat /\ due \in Nat /\ outlasted \in Nat
    BY <1>1, LimitIs DEF TimingTypeOK
  <2>8. s = Put(w.latency).s /\ s \in Seq(Nat) /\ s # <<>>
    BY <2>1, <2>4
  <2>9. /\ Target(s) \in Nat /\ 0 < Target(s) /\ Target(s) >= Margin(0)
        /\ \A old \in Among(s) : Target(s) >= Margin(old)
    BY <2>7, <2>8, TargetIs
  <2>10. estimate' \in Nat /\ estimate' >= Target(s) /\ estimate' >= estimate
    BY <2>1, <2>7, <2>8, UpdatedIs
  <2>11. \A old \in Among(s) : Margin(old) \in Nat
    <3>1. Among(s) \subseteq Nat
      BY <2>8, PeakIs
    <3>2. QED
      BY <2>7, <3>1, MarginIs
  <2>12. Margin(0) \in Nat
    BY <2>7, MarginIs
  <2>13. estimate' >= Margin(0) /\ estimate' # 0
    BY <2>9, <2>10, <2>12
  <2>14. ASSUME NEW old \in Among(s) PROVE estimate' >= Margin(old)
    <3>1. Margin(old) \in Nat /\ Target(s) >= Margin(old)
      BY <2>9, <2>11
    <3>2. QED
      BY <2>9, <2>10, <3>1
  <2>15. Covers(estimate)'
    BY <1>3, <2>13, <2>14 DEF Covers, Among
  <2>16. EstimateCovers'
    BY <1>1, <1>4, <2>13, <2>15 DEF EstimateCovers
  <2>17. TimingTypeOK'
    BY <1>1, <1>2, <2>4, <2>6, <2>10 DEF TimingTypeOK
  <2>18. WaitsDouble'
    <3>1. outlasted # 0 => outlasted < due /\ estimate >= Least(due, 2 * outlasted)
      BY <1>4 DEF TimingInv, WaitsDouble
    <3>2. outlasted # 0 => estimate' >= Least(due, 2 * outlasted)
      BY <2>7, <2>10, <3>1 DEF Least
    <3>3. QED
      BY <1>1, <3>1, <3>2 DEF WaitsDouble, NoWait
  <2>19. QED
    BY <1>5, <2>4, <2>16, <2>17, <2>18 DEF TimingInv
<1>8. QED
  BY <1>6, <1>7

LEMMA OverKeeps == ASSUME TimingInv, Over PROVE TimingInv'
<1>1. /\ TimingTypeOK /\ NoWait /\ watch' = NoWatch
      /\ UNCHANGED <<on_bus, adaptive, limit, steady, estimate, history, waiting, due, log, outlasted>>
  BY DEF TimingInv, Over
<1>2. TimingTypeOK'
  BY <1>1, LimitIs DEF TimingTypeOK, waiting, NoWatch
<1>3. RingTurns'
  BY <1>1 DEF TimingInv, RingTurns, EvidenceIsHonest, Holds, NoWatch
<1>4. \A ms : Margin(ms)' = Margin(ms)
  BY <1>1, MarginSame DEF Settled
<1>5. EstimateCovers'
  BY <1>1, <1>4 DEF TimingInv, EstimateCovers, Covers, Among, NoWatch
<1>6. FirstWait'
  BY <1>1 DEF FirstWait, NoWait, waiting
<1>7. WaitsDouble'
  BY <1>1 DEF TimingInv, WaitsDouble, NoWait, waiting
<1>8. QED
  BY <1>2, <1>3, <1>5, <1>6, <1>7 DEF TimingInv

LEMMA TimingStep == TimingInv /\ [TimingNext]_timingVars => TimingInv'
<1> SUFFICES ASSUME TimingInv, [TimingNext]_timingVars PROVE TimingInv'
  OBVIOUS
<1>1. CASE \E m \in 0 .. 2 : AT(m)
  BY <1>1, ATKeeps
<1>2. CASE \E ms \in Limits : ST(ms)
  BY <1>2, STKeeps
<1>3. CASE \E one \in BOOLEAN, idle \in {0, 3000, 5000}, replies \in Replies : BeginsExchange(one, idle, replies)
  BY <1>3, BeginKeeps
<1>4. CASE Answer
  BY <1>4, AnswerKeeps
<1>5. CASE Silence
  BY <1>5, SilenceKeeps
<1>6. CASE Late
  BY <1>6, LateKeeps
<1>7. CASE Over
  BY <1>7, OverKeeps
<1>8. CASE UNCHANGED timingVars
  <2>1. UNCHANGED <<on_bus, adaptive, limit, steady, learned, waiting, due, log, outlasted>>
    BY <1>8 DEF timingVars
  <2>2. \A ms : Margin(ms)' = Margin(ms)
    BY <2>1, MarginSame DEF Settled
  <2>3. TimingTypeOK' /\ RingTurns' /\ WaitsDouble'
    BY <2>1 DEF TimingInv, TimingTypeOK, RingTurns, EvidenceIsHonest, Holds, WaitsDouble, NoWait, learned, waiting
  <2>4. EstimateCovers' /\ FirstWait'
    BY <2>1, <2>2 DEF TimingInv, EstimateCovers, FirstWait, Covers, Among, NoWait, learned, waiting
  <2>5. QED
    BY <2>3, <2>4 DEF TimingInv
<1>9. QED
  BY <1>1, <1>2, <1>3, <1>4, <1>5, <1>6, <1>7, <1>8 DEF TimingNext, ClientAsks

LEMMA TimingBegins == TimingInit => TimingInv
<1> SUFFICES ASSUME TimingInit PROVE TimingInv
  OBVIOUS
<1>1. TimingTypeOK
  <2>1. /\ history = [next |-> 1, s |-> <<>>] /\ log = <<>> /\ coming = <<>> /\ watch = NoWatch
        /\ on_bus \in Buses /\ limit \in Limits /\ adaptive = 1 /\ steady = TRUE /\ promised = FALSE /\ hint = FALSE
    BY DEF TimingInit
  <2>2. estimate = 0 /\ window_ms = 0 /\ until = 0 /\ got = 0 /\ due = 0 /\ outlasted = 0
    BY DEF TimingInit
  <2>3. adaptive \in 0 .. 2 /\ history.s = <<>> /\ Len(history.s) <= Samples
    BY <2>1, Empties
  <2>4. QED
    BY <2>1, <2>2, <2>3, Empties DEF TimingTypeOK
<1>2. RingTurns
  BY TimingAssumption DEF TimingAssumption, TimingInit, RingTurns, EvidenceIsHonest, NoWatch
<1>3. EstimateCovers /\ FirstWait /\ WaitsDouble
  BY DEF TimingInit, EstimateCovers, FirstWait, WaitsDouble, NoWait, NoWatch
<1>4. QED
  BY <1>1, <1>2, <1>3 DEF TimingInv

\* The ring, the estimate, the wait and what was outlasted, for any answers.
THEOREM TimingHolds == TimingSpec => []TimingInv
  BY TimingBegins, TimingStep, PTL DEF TimingSpec

\* The history is true, a wait covers it, and a slow vehicle is heard
\* (elm327_timing_finish(), elm327_reply_window(), elm327_timing_backoff()).
THEOREM TimingTheorem == TimingSpec => []TimingIsHonest
<1>1. TimingInv => TimingIsHonest
  <2> SUFFICES ASSUME TimingInv PROVE TimingIsHonest
    OBVIOUS
  <2>1. EvidenceIsHonest
    BY DEF TimingInv, RingTurns
  <2>2. PeakIsCovered
    BY DEF TimingInv, FirstWait, Covers, PeakIsCovered
  <2>3. SlowIsHeard
    BY DEF TimingInv, WaitsDouble, SlowIsHeard
  <2>4. QED
    BY <2>1, <2>2, <2>3 DEF TimingIsHonest
<1>2. QED
  BY <1>1, TimingHolds, PTL

-------------------------------------------------------------------------------
(***************************************************************************)
(* ElmLine, for any commands and any length of a line.                     *)
(***************************************************************************)

\* A line that was read whole is in cmdbuf; one too long has begun it again.
LineTypeOK ==
  /\ cmdidx \in 0 .. LineMax - 1 /\ overflow \in BOOLEAN /\ dropping \in BOOLEAN
  /\ entered.len \in 0 .. LineMax /\ entered.cut \in BOOLEAN
LineIsRead ==
  /\ lastcmd = ran
  /\ dropping => cmdidx = 0 /\ ~overflow /\ (entered.cut \/ entered = NoLine)
  /\ ~entered.cut => /\ (overflow <=> entered.len = LineMax)
                     /\ ~overflow => cmdidx = entered.len /\ (cmdidx > 0 => cmdbuf = entered.cmd)
LineInv == LineTypeOK /\ LineIsRead

LEMMA LineGrowsRight ==
  ASSUME LineInv, NEW c, NEW lost \in BOOLEAN, LineGrows(c, lost)
  PROVE  /\ entered'.len \in 0 .. LineMax
         /\ entered'.len = (IF entered.len < LineMax THEN entered.len + 1 ELSE LineMax)
         /\ entered'.cut \in BOOLEAN /\ (entered'.cut <=> entered.cut \/ lost)
         /\ entered'.cmd = (IF entered.len = 0 THEN c ELSE entered.cmd)
<1> DEFINE cut == entered.cut \/ lost
           len == IF entered.len < LineMax THEN entered.len + 1 ELSE LineMax
<1>1. entered' = [cmd |-> IF entered.len = 0 THEN c ELSE entered.cmd, len |-> len, cut |-> cut]
  BY DEF LineGrows
<1>2. len \in 0 .. LineMax
  BY LineAssumption DEF LineAssumption, LineInv, LineTypeOK
<1>3. cut \in BOOLEAN
  OBVIOUS
<1> HIDE DEF len
<1>4. entered'.len = len /\ entered'.cut = cut /\ entered'.cmd = (IF entered.len = 0 THEN c ELSE entered.cmd)
  BY <1>1
<1>5. QED
  BY <1>2, <1>3, <1>4 DEF len

LEMMA EntersKeeps == ASSUME LineInv, NEW c, Enters(c) PROVE LineInv'
<1>1. /\ ~dropping /\ LineGrows(c, FALSE) /\ dropping' = dropping /\ lastcmd' = lastcmd /\ ran' = ran
      /\ cmdbuf' = (IF cmdidx = 0 THEN c ELSE cmdbuf)
      /\ cmdidx' = (IF cmdidx + 1 = LineMax THEN 0 ELSE cmdidx + 1)
      /\ overflow' = (overflow \/ cmdidx + 1 = LineMax)
  BY DEF Enters
<1>2. /\ entered'.len \in 0 .. LineMax
      /\ entered'.len = (IF entered.len < LineMax THEN entered.len + 1 ELSE LineMax)
      /\ entered'.cut \in BOOLEAN /\ (entered'.cut <=> entered.cut)
      /\ entered'.cmd = (IF entered.len = 0 THEN c ELSE entered.cmd)
  BY <1>1, LineGrowsRight
<1>3. /\ cmdidx \in 0 .. LineMax - 1 /\ overflow \in BOOLEAN /\ dropping \in BOOLEAN /\ LineMax \in Nat \ {0}
      /\ entered.len \in 0 .. LineMax
  BY LineAssumption DEF LineAssumption, LineInv, LineTypeOK
<1>4. overflow' <=> (overflow \/ cmdidx + 1 = LineMax)
  BY <1>1
<1>5. LineTypeOK'
  <2>1. cmdidx' \in 0 .. LineMax - 1
    BY <1>1, <1>3
  <2>2. overflow' \in BOOLEAN /\ dropping' \in BOOLEAN
    BY <1>1, <1>3
  <2>3. QED
    BY <1>2, <2>1, <2>2 DEF LineTypeOK
<1>6. ASSUME ~entered'.cut
      PROVE  /\ overflow' <=> entered'.len = LineMax
             /\ ~overflow' => cmdidx' = entered'.len /\ (cmdidx' > 0 => cmdbuf' = entered'.cmd)
  <2>1. /\ overflow <=> entered.len = LineMax
        /\ ~overflow => cmdidx = entered.len /\ (cmdidx > 0 => cmdbuf = entered.cmd)
    BY <1>2, <1>6 DEF LineInv, LineIsRead
  <2>2. CASE overflow
    BY <1>2, <1>3, <1>4, <2>1, <2>2
  <2>3. CASE ~overflow
    <3>1. cmdidx = entered.len /\ entered.len < LineMax /\ entered'.len = entered.len + 1
      BY <1>2, <1>3, <2>1, <2>3
    <3>2. overflow' <=> entered'.len = LineMax
      BY <1>4, <2>3, <3>1
    <3>3. ~overflow' => cmdidx' = entered'.len
      BY <1>1, <1>4, <3>1
    <3>4. cmdbuf' = entered'.cmd
      BY <1>1, <1>2, <1>3, <2>1, <2>3, <3>1
    <3>5. QED
      BY <3>2, <3>3, <3>4
  <2>4. QED
    BY <2>2, <2>3
<1>7. LineIsRead'
  BY <1>1, <1>6 DEF LineInv, LineIsRead
<1>8. QED
  BY <1>5, <1>7 DEF LineInv

LEMMA LineEndsKeeps == ASSUME LineInv, LineEnds PROVE LineInv' /\ LineAnsweredOnce
<1>1. /\ cmdbuf' = NoCommand /\ cmdidx' = 0 /\ overflow' = FALSE /\ entered' = NoLine /\ ~dropping
      /\ lastcmd' = (IF ~overflow /\ cmdidx > 0 THEN cmdbuf ELSE lastcmd)
      /\ ran' = (CASE entered.cut -> lastcmd'
                   [] ~entered.cut /\ entered.len \in {0, LineMax} -> ran [] OTHER -> entered.cmd)
  BY DEF LineEnds, Remembers
<1>2. \/ overflow /\ answered' = <<Unknown>> /\ dropping' = dropping
      \/ ~overflow /\ cmdidx = 0 /\ answered' = <<lastcmd>> /\ dropping' = (lastcmd \in Resets)
      \/ ~overflow /\ cmdidx > 0 /\ answered' = <<cmdbuf>> /\ dropping' = (cmdbuf \in Resets)
  BY DEF LineEnds, ParsesCommand
<1>3. /\ cmdidx \in 0 .. LineMax - 1 /\ overflow \in BOOLEAN /\ dropping \in BOOLEAN /\ LineMax \in Nat \ {0}
      /\ entered.len \in 0 .. LineMax /\ entered.cut \in BOOLEAN /\ lastcmd = ran
  BY LineAssumption DEF LineAssumption, LineInv, LineTypeOK, LineIsRead
<1>4. ~entered.cut => /\ overflow <=> entered.len = LineMax
                      /\ ~overflow => cmdidx = entered.len /\ (cmdidx > 0 => cmdbuf = entered.cmd)
  BY DEF LineInv, LineIsRead
<1>5. LineTypeOK'
  <2>1. dropping' \in BOOLEAN
    <3>1. \A c : (c \in Resets) \in BOOLEAN
      OBVIOUS
    <3>2. \/ dropping' = dropping
          \/ dropping' = (lastcmd \in Resets)
          \/ dropping' = (cmdbuf \in Resets)
      BY <1>2
    <3>3. QED
      BY <1>3, <3>1, <3>2
  <2>2. entered'.len = 0 /\ entered'.cut = FALSE
    BY <1>1 DEF NoLine
  <2>3. cmdidx' \in 0 .. LineMax - 1 /\ entered'.len \in 0 .. LineMax
    BY <1>1, <1>3, <2>2
  <2>4. overflow' \in BOOLEAN /\ entered'.cut \in BOOLEAN
    BY <1>1, <2>2
  <2>5. QED
    BY <2>1, <2>3, <2>4 DEF LineTypeOK
<1>6. lastcmd' = ran'
  <2>1. CASE entered.cut
    BY <1>1, <2>1
  <2>2. CASE ~entered.cut /\ entered.len \in {0, LineMax}
    <3>1. ran' = ran
      BY <1>1, <2>2
    <3>2. overflow \/ cmdidx = 0
      BY <1>4, <2>2
    <3>3. QED
      BY <1>1, <1>3, <3>1, <3>2
  <2>3. CASE ~entered.cut /\ entered.len \notin {0, LineMax}
    <3>1. ran' = entered.cmd
      BY <1>1, <2>3
    <3>2. ~overflow /\ cmdidx > 0 /\ cmdbuf = entered.cmd
      BY <1>3, <1>4, <2>3
    <3>3. QED
      BY <1>1, <3>1, <3>2
  <2>4. QED
    BY <2>1, <2>2, <2>3
<1>7. LineIsRead'
  BY <1>1, <1>3, <1>6 DEF LineIsRead, NoLine
<1>8. LineAnsweredOnce
  <2>1. SUFFICES ASSUME ~entered.cut PROVE answered' = <<DueAnswer>>
    BY DEF LineAnsweredOnce
  <2>2. CASE entered.len = LineMax
    BY <1>2, <1>3, <1>4, <2>1, <2>2 DEF DueAnswer
  <2>3. CASE entered.len = 0
    BY <1>2, <1>3, <1>4, <2>1, <2>3 DEF DueAnswer
  <2>4. CASE entered.len # LineMax /\ entered.len # 0
    BY <1>2, <1>3, <1>4, <2>1, <2>4 DEF DueAnswer
  <2>5. QED
    BY <2>2, <2>3, <2>4
<1>9. QED
  BY <1>5, <1>7, <1>8 DEF LineInv

LEMMA DropKeeps ==
  ASSUME LineInv, (\E c \in Commands : DropsByte(c)) \/ DropsLineEnd \/ ChunkEnds
  PROVE  LineInv'
<1>1. CASE \E c \in Commands : DropsByte(c)
  <2>1. PICK c \in Commands : DropsByte(c)
    BY <1>1
  <2>2. LineGrows(c, TRUE) /\ UNCHANGED <<lineBuffer, lastcmd, dropping, ran>>
    BY <2>1 DEF DropsByte
  <2>3. entered'.len \in 0 .. LineMax /\ entered'.cut
    BY <2>2, LineGrowsRight
  <2>4. QED
    BY <2>2, <2>3 DEF LineInv, LineTypeOK, LineIsRead, lineBuffer
<1>2. CASE DropsLineEnd
  <2>1. dropping /\ entered' = NoLine /\ UNCHANGED <<lineBuffer, lastcmd, dropping, ran>>
    BY <1>2 DEF DropsLineEnd
  <2>2. QED
    BY <2>1, LineAssumption DEF LineAssumption, LineInv, LineTypeOK, LineIsRead, NoLine, lineBuffer
<1>3. CASE ChunkEnds
  <2>1. dropping /\ dropping' = FALSE /\ UNCHANGED <<lineBuffer, lastcmd, entered, ran>>
    BY <1>3 DEF ChunkEnds
  <2>2. QED
    BY <2>1, LineAssumption DEF LineAssumption, LineInv, LineTypeOK, LineIsRead, NoLine, lineBuffer
<1>4. QED
  BY <1>1, <1>2, <1>3

LEMMA LineStepKeeps == LineInv /\ [ElmLineNext]_elmLineVars => LineInv' /\ [LineAnsweredOnce]_elmLineVars
<1> SUFFICES ASSUME LineInv, [ElmLineNext]_elmLineVars PROVE LineInv' /\ [LineAnsweredOnce]_elmLineVars
  OBVIOUS
<1>1. CASE \E c \in Commands : Enters(c)
  <2>1. LineInv'
    BY <1>1, EntersKeeps
  <2>2. ~LineEnds
    <3>1. PICK c \in Commands : Enters(c)
      BY <1>1
    <3>2. answered' = <<>>
      BY <3>1 DEF Enters
    <3>3. LineEnds => \E d : answered' = <<d>>
      BY DEF LineEnds, ParsesCommand
    <3>4. QED
      BY <3>2, <3>3
  <2>3. QED
    BY <2>1, <2>2 DEF LineAnsweredOnce
<1>2. CASE LineEnds
  BY <1>2, LineEndsKeeps
<1>3. CASE (\E c \in Commands : DropsByte(c)) \/ DropsLineEnd \/ ChunkEnds
  <2>1. LineInv'
    BY <1>3, DropKeeps
  <2>2. ~LineEnds
    <3>1. dropping
      BY <1>3 DEF DropsByte, DropsLineEnd, ChunkEnds
    <3>2. QED
      BY <3>1 DEF LineEnds
  <2>3. QED
    BY <2>1, <2>2 DEF LineAnsweredOnce
<1>4. CASE UNCHANGED elmLineVars
  BY <1>4 DEF LineInv, LineTypeOK, LineIsRead, elmLineVars, lineBuffer
<1>5. ElmLineNext <=> \/ \E c \in Commands : Enters(c)
                      \/ LineEnds
                      \/ (\E c \in Commands : DropsByte(c)) \/ DropsLineEnd \/ ChunkEnds
  BY ZenonT(30) DEF ElmLineNext
<1>6. QED
  BY <1>1, <1>2, <1>3, <1>4, <1>5

LEMMA LineBegins == ElmLineInit => LineInv
<1> SUFFICES ASSUME ElmLineInit PROVE LineInv
  OBVIOUS
<1>1. /\ cmdidx = 0 /\ overflow = FALSE /\ dropping = FALSE /\ entered.len = 0 /\ entered.cut = FALSE
      /\ lastcmd = ran
  BY DEF ElmLineInit, NoLine
<1>2. LineMax \in Nat \ {0}
  BY LineAssumption DEF LineAssumption
<1>3. cmdidx \in 0 .. LineMax - 1 /\ entered.len \in 0 .. LineMax
  BY <1>1, <1>2
<1>4. overflow \in BOOLEAN /\ dropping \in BOOLEAN /\ entered.cut \in BOOLEAN
  BY <1>1
<1>5. LineIsRead
  BY <1>1, <1>2 DEF LineIsRead
<1>6. QED
  BY <1>3, <1>4, <1>5 DEF LineInv, LineTypeOK

\* A line that was read whole is answered once, and by what was typed
\* (elm327_feed_byte(), elm327_parse_command()).
THEOREM CommandsTheorem == ElmLineSpec => CommandsAreAnswered
<1>1. ElmLineInit /\ [][ElmLineNext]_elmLineVars => [][LineAnsweredOnce]_elmLineVars
  BY LineBegins, LineStepKeeps, PTL
<1>2. QED
  BY <1>1 DEF ElmLineSpec, CommandsAreAnswered
===============================================================================
