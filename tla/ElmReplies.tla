----------------------------- MODULE ElmReplies -----------------------------
(***************************************************************************)
(* Which frames the ELM327 grammar takes for a reply (elm327_at.c): by     *)
(* identifier on CAN, by the header on J1850 and the K-Line, and, after    *)
(* the prompt, by what they say.                                           *)
(*                                                                         *)
(* A client selects a protocol, a header and its filters; then a module of *)
(* the vehicle answers, as the standard of that protocol has it, this      *)
(* request or an earlier one.  11-bit identifiers are numbers, the others  *)
(* and the headers are records of their fields.                            *)
(***************************************************************************)
EXTENDS Naturals, Sequences

CONSTANTS
  Modules,   \* addresses of the vehicle's modules
  Obd        \* addresses of those in the 11-bit scheme: 0 to 7
ASSUME RepliesAssumption ==
  /\ Modules \subseteq 0 .. 255 /\ Obd \subseteq 0 .. 7

Tester == 241          \* F1
OtherTester == 242
J1850 == {"pwm", "vpw"}
Kwp == {"kwp"}
KLine == {"iso"} \union Kwp
Can == {"can11", "can29"}
Protocols == J1850 \union KLine \union Can

\* What may be asked: a service and the identifiers that go with it.
Services == {1, 2, 34}
Requests == {<<1, 0>>, <<1, 1>>, <<2, 0, 0>>, <<34, 0, 1>>, <<34, 1, 1>>}

VARIABLES
  proto,     \* current_protocol
  header,    \* header_id
  filters,   \* can_auto_format, auto_receive, recv_address, filter_tx, tx_filter, tester_address
  request,   \* timing.watch.request
  frame      \* heard last; of: what it answers, to: how that was addressed
repliesVars == <<proto, header, filters, request, frame>>

-----------------------------------------------------------------------------
(* Headers a client sets *)

Functional11 == 2015   \* 7DF
Std(n) == [ext |-> FALSE, rtr |-> FALSE, n |-> n]
Ext(pri, pf, target, source) ==
  [ext |-> TRUE, rtr |-> FALSE, pri |-> pri, pf |-> pf, target |-> target, source |-> source]
Headers11 == {Std(Functional11)} \union {Std(2016 + n) : n \in Obd}
Headers29 == {Ext(pri, 219, 51, Tester) : pri \in {4, 6}}
               \union {Ext(pri, 218, m, Tester) : pri \in {4, 6}, m \in Modules}
Headers(p) ==
  CASE p = "can11" -> Headers11
    [] p = "can29" -> Headers29
    [] p \in J1850 -> {[mode |-> "three", target |-> t, source |-> Tester] : t \in {106} \union Modules}
    [] p = "iso" -> {[mode |-> "carb", target |-> t, source |-> Tester] : t \in {106} \union Modules}
    [] p \in Kwp -> {[mode |-> "functional", target |-> 51, source |-> Tester]}
                      \union {[mode |-> "physical", target |-> m, source |-> Tester] : m \in Modules}

-----------------------------------------------------------------------------
(* CAN *)

\* elm327_can_reply_id_ok(): n & 7F8 is 7E8, or the target is F1 whatever the priority.
CanReplyIdOk(p, id) ==
  /\ ~id.rtr
  /\ IF p = "can11" THEN ~id.ext /\ id.n \div 8 = 253
     ELSE id.ext /\ id.pf = 218 /\ id.target = Tester
\* elm327_can_flow_control_id()
FlowControlId(p, id) == IF p = "can11" THEN Std(id.n - 8) ELSE Ext(6, 218, id.source, Tester)
\* Normal-fixed priority is no part of an address.
NoPriority(id) == IF id.ext THEN [id EXCEPT !.pri = 0] ELSE id
Multicast(p, h) == IF p = "can11" THEN h.n = Functional11 ELSE NoPriority(h) = Ext(0, 219, 51, Tester)
\* Mutant of CanAddressed: the priority counts.
CanAddressedExactly(p, h, id) ==
  CanReplyIdOk(p, id) /\ (Multicast(p, h) \/ FlowControlId(p, id) = h)
CanAddressed(p, h, id) ==
  CanReplyIdOk(p, id) /\ (Multicast(p, h) \/ NoPriority(FlowControlId(p, id)) = NoPriority(h))

-----------------------------------------------------------------------------
(* J1850 and the K-Line *)

\* elm327_header_len()
HeaderLen(p, f) ==
  IF p \in J1850 THEN IF f.mode = "one" THEN 1 ELSE 3
  ELSE IF p \in Kwp THEN (IF f.mode = "none" THEN 1 ELSE 3) + (IF f.low = 0 THEN 1 ELSE 0)
  ELSE 3
\* elm327_frame_has_addresses()
HasAddresses(p, f) ==
  CASE p \in J1850 -> f.mode # "one"
    [] p \in Kwp -> f.mode \in {"physical", "functional"}
    [] OTHER -> TRUE
OddOf(a) == IF a % 2 = 0 THEN a + 1 ELSE a
\* Mutant of AddressedToUs: the reply address always comes of the request.
AddressedByRequest(p, h, s, f) ==
  ~HasAddresses(p, f) \/
    /\ s.filterTx => f.source = s.txFilter
    /\ IF ~s.autoReceive THEN f.target = s.recvAddress
       ELSE f.target \in {h.source, s.tester, OddOf(h.target)}
\* elm327_frame_is_addressed_to_us()
AddressedToUs(p, h, s, f) ==
  ~HasAddresses(p, f) \/
    /\ s.filterTx => f.source = s.txFilter
    /\ IF ~s.autoReceive THEN f.target = s.recvAddress
       ELSE \/ p \in KLine /\ f.mode = "carb" /\ f.target = 107
            \/ f.target \in {h.source, s.tester, OddOf(h.target)}

IsHeard(p, h, s, f) == IF p \in Can THEN CanAddressed(p, h, f.id) ELSE AddressedToUs(p, h, s, f)

-----------------------------------------------------------------------------
(* After the prompt *)

\* Mutant of Echoed: a service is told by its number alone.
EchoedService(service) == 0
\* How many bytes after the service a reply repeats.
Echoed(service) == CASE service \in {1, 9, 33} -> 1 [] service \in {2, 34} -> 2 [] OTHER -> 0
\* The bytes after what is taken for the header, without the checksum.
Payload(p, f) ==
  IF p \in Can THEN f.data
  ELSE LET gap == HeaderLen(p, f) - f.headed
       IN  IF gap = 0 THEN f.data ELSE IF gap = 1 THEN Tail(f.data) ELSE <<0>> \o f.data
Matches(data, r) ==
  IF Len(data) = 3 /\ data[1] = 127 THEN data[2] = r[1]
  ELSE /\ data[1] = r[1] + 64 /\ Len(data) > Echoed(r[1])
       /\ \A i \in 2 .. Echoed(r[1]) + 1 : data[i] = r[i]
\* elm327_late_reply_kind()
LateReplyKind(p, h, s, r, f) ==
  IF ~IsHeard(p, h, s, f) \/ (p \in Can /\ ~s.autoFormat) THEN "none"
  ELSE LET data == Payload(p, f)
       IN  IF ~Matches(data, r) THEN "none"
           ELSE IF data[1] = 127 /\ data[3] = 120 THEN "pending" ELSE "normal"

-----------------------------------------------------------------------------
(* The vehicle *)

\* What a module says to the request r.
Says(r) ==
  {<<r[1] + 64>> \o Tail(r) \o <<85>>, <<127, r[1], 17>>, <<127, r[1], 120>>}
\* How the module m answers a request that went out under h.
AnswerId(p, h, m) == IF p = "can11" THEN Std(2024 + m) ELSE Ext(6, 218, Tester, m)
Answered(p, h, m) ==
  CASE p \in J1850 -> [mode |-> "three", source |-> m,
                       target |-> IF h.target = 106 THEN 107 ELSE h.source]
    [] p = "iso" -> [mode |-> "carb", source |-> m, target |-> 107]
    [] p \in Kwp -> [mode |-> "physical", source |-> m, target |-> h.source]
Responders(p, h) ==
  CASE p = "can11" -> IF Multicast(p, h) THEN Obd ELSE {h.n - 2016}
    [] p = "can29" -> IF Multicast(p, h) THEN Modules ELSE {h.target}
    [] OTHER -> IF h.target \in {106, 51} THEN Modules ELSE {h.target}
ByteFrame(p, h, a, mode, low, data) ==
  [of |-> request, to |-> h, data |-> data, mode |-> mode, low |-> low,
   source |-> a.source, target |-> a.target,
   headed |-> (IF mode \in {"one", "none"} THEN 1 ELSE 3) + (IF p \in Kwp /\ low = 0 THEN 1 ELSE 0)]
\* KWP modules may leave the addresses out, or put the length in a byte of its own.
Frames(p, h, m, data) ==
  IF p \in Can THEN {[of |-> request, to |-> h, data |-> data, id |-> AnswerId(p, h, m)]}
  ELSE LET a == Answered(p, h, m)
       IN  {ByteFrame(p, h, a, mode, low, data) :
              low \in {0, 5}, mode \in {a.mode} \union (IF p \in Kwp THEN {"none"} ELSE {})}
NoFrame == [of |-> <<>>, to |-> <<>>]

-----------------------------------------------------------------------------
Plain == [autoFormat |-> TRUE, autoReceive |-> TRUE, recvAddress |-> Tester, filterTx |-> FALSE,
          txFilter |-> 0, tester |-> Tester]
Settings ==
  {Plain, [Plain EXCEPT !.autoFormat = FALSE], [Plain EXCEPT !.autoReceive = FALSE, !.recvAddress = OtherTester],
   [Plain EXCEPT !.tester = OtherTester]} \union {[Plain EXCEPT !.filterTx = TRUE, !.txFilter = m] : m \in Modules}
RepliesInit ==
  /\ proto \in Protocols /\ header \in Headers(proto) /\ filters = Plain
  /\ request \in Requests /\ frame = NoFrame
\* AT SH, AT CRA, AT RA, AT FT, AT TA, AT CAF
Sets ==
  /\ frame # NoFrame /\ filters' \in Settings /\ header' \in Headers(proto)
  /\ UNCHANGED <<proto, request, frame>>
Asks ==
  /\ frame # NoFrame /\ request' \in Requests /\ UNCHANGED <<proto, header, filters, frame>>
Hears ==
  /\ \E m \in Responders(proto, header), data \in Says(request) : frame' \in Frames(proto, header, m, data)
  /\ UNCHANGED <<proto, header, filters, request>>
RepliesNext == Sets \/ Asks \/ Hears
RepliesSpec == RepliesInit /\ [][RepliesNext]_repliesVars

-----------------------------------------------------------------------------
(* Properties *)

\* Nothing the vehicle says to a request is missed, whatever the protocol, the
\* priority and the address asked, unless the client narrowed what it listens to.
RepliesAreHeard ==
  frame # NoFrame /\ frame.to = header /\ filters.autoReceive /\ ~filters.filterTx
    => IsHeard(proto, header, filters, frame)
\* A reply is measured after the prompt only if it says something to the last
\* request: one to an earlier request is not (elm327_late_reply_kind()).
LateIsCurrent ==
  frame # NoFrame /\ frame.data[1] # 127 /\ LateReplyKind(proto, header, filters, request, frame) # "none"
    => frame.of = request
\* What is heard during the exchange and answers the request is known afterwards.
LateIsComplete ==
  frame # NoFrame /\ frame.of = request /\ filters.autoFormat /\ IsHeard(proto, header, filters, frame)
    => LateReplyKind(proto, header, filters, request, frame)
         = (IF frame.data[1] = 127 /\ frame.data[3] = 120 THEN "pending" ELSE "normal")
\* The three of them: what counts as a reply, during the exchange and after it.
RepliesAreTold == RepliesAreHeard /\ LateIsCurrent /\ LateIsComplete
=============================================================================
