-------------------------------- MODULE Elm327 ---------------------------------
(***************************************************************************)
(* The ELM327 front-end (elm327_at.c): which protocol the conversation is  *)
(* on, the search that finds it, the K-Line session a request needs, and   *)
(* the exchange itself.                                                    *)
(*                                                                         *)
(* One thread runs all of it, a line at a time; what may happen between    *)
(* its steps is on the wire: an answer comes late, a session lapses, and   *)
(* the driver refuses to open, to close or to send.  The vehicle speaks    *)
(* one protocol.  "odd" answers the 5 baud address with key bytes nobody   *)
(* knows, and a fast initialisation with KWP.                              *)
(***************************************************************************)
EXTENDS Integers, Sequences

CONSTANTS
  Vehicles,  \* what may be at the other end
  Asked    \* the protocols a client asks for with AT SP

\* The vehicles that answer without a session, and on which protocol.
Native == [pwm |-> 1, vpw |-> 2, can6 |-> 6, can7 |-> 7, can8 |-> 8, can9 |-> 9]
ASSUME Elm327Assumption ==
  /\ Vehicles \subseteq DOMAIN Native \union {"iso", "kwp", "fast", "odd", "none"}
  /\ Asked \subseteq 0 .. 12

VARIABLES
  veh,      \* the vehicle
  sess,     \* the session the vehicle believes in
  proto,    \* current_protocol; 0 is automatic
  hdr,      \* the protocol whose request header is in header_id
  bus,      \* what this client has open
  link,     \* the session the K-Line driver believes in
  set,      \* std_search_order, key_word_check, auto_search, auto_fallback
  first,    \* search_first
  at,       \* where the request is
  todo,     \* the protocols the search has still to try
  search,   \* in_search
  wants,    \* neither AT R0 nor a frame count of zero
  ret,      \* how the last request ended
  queue,    \* receptions not read: from before this request, or later
  late,     \* an answer that is still to come
  excuse    \* kept for checking: why this request may go without an answer

choice == <<proto, hdr, bus, link, first>>
wireVars == <<queue, late>>
vars == <<veh, sess, choice, set, at, todo, search, wants, ret, wireVars, excuse>>

\* elm327_bus_for_protocol()
Bus(p) == CASE p = 1 -> "pwm" [] p = 2 -> "vpw" [] p \in 3 .. 5 -> "kline"
            [] p \in 6 .. 9 -> "can" [] OTHER -> "none"
Kline == proto \in 3 .. 5
Fast == <<6, 7, 8, 9, 3, 5, 1, 2>>
Std == <<1, 2, 3, 5, 6, 7, 8, 9>>
\* Mutant of Order: the 11 bit protocols at 500 kbaud alone.
ShortOrder == SelectSeq(Fast, LAMBDA p : p \notin {7, 8, 9})
Order == IF set.std THEN Std ELSE Fast
Searched == {Order[i] : i \in DOMAIN Order}
Before(p, q) == \E i, j \in DOMAIN Order : i < j /\ Order[i] = p /\ Order[j] = q

Defaults == [std |-> FALSE, kw |-> TRUE, found |-> FALSE, fall |-> FALSE]
Init ==
  /\ veh \in Vehicles /\ sess = "none" /\ proto = 0 /\ hdr = 0 /\ bus = "none"
  /\ link = "none" /\ set = Defaults /\ first = 0 /\ at = "prompt" /\ todo = {}
  /\ search = FALSE /\ wants = TRUE /\ ret = "none" /\ queue = {} /\ late = FALSE /\ excuse = {}

-----------------------------------------------------------------------------
(* Selecting a protocol *)

\* vif_bus_release_all(), whether the drivers come down or not: nothing is open,
\* a KWP session has been ended and any other runs out.
Released == bus' = "none" /\ link' = "none" /\ sess' = "none" /\ queue' = {} /\ late' = FALSE
Kept == UNCHANGED <<bus, link, sess, queue, late>>
Already(p) == proto = p /\ (Bus(p) = "none" \/ bus = Bus(p))
Shared(p) == Bus(p) \notin {"can", "none"} /\ bus = Bus(p)

\* elm327_set_protocol(), given that it succeeds.
Selects(p) ==
  \/ Already(p) /\ Kept /\ UNCHANGED <<proto, hdr, first>>
  \/ ~Already(p) /\ p = 0 /\ first' = proto /\ proto' = 0 /\ hdr' = hdr /\ Kept
  \/ ~Already(p) /\ p # 0 /\ Bus(p) = "none" /\ first' = 0 /\ proto' = p /\ hdr' = hdr /\ Released
  \/ ~Already(p) /\ Shared(p) /\ proto' = p /\ hdr' = p /\ first' = first /\ Kept
  \/ /\ ~Already(p) /\ ~Shared(p) /\ Bus(p) # "none" /\ proto' = p /\ hdr' = p /\ first' = first
     /\ bus' = Bus(p) /\ link' = "none" /\ sess' = "none" /\ queue' = {} /\ late' = FALSE
\* What was open does not come down, or what is wanted does not come up.
SelectFails(p) ==
  /\ p # 0 /\ ~Already(p) /\ ~Shared(p) /\ Released /\ UNCHANGED <<hdr, first>>
  /\ \/ proto' = proto
     \/ Bus(p) # "none" /\ proto' = 0
\* What a search found is stale once automatic is left.
Settings(p) ==
  [set EXCEPT !.fall = @ /\ p # 0, !.found = @ /\ (Already(p) \/ proto # 0)]

-----------------------------------------------------------------------------
(* Commands that are no requests *)

Prompt == at = "prompt"
Idle == ret' = "none" /\ excuse' = {} /\ UNCHANGED <<veh, at, todo, search, wants>>

\* AT SP h and AT SP Ah; AT TP is the same.
SP(p, fallback) ==
  /\ Prompt /\ Idle
  /\ \/ Selects(p) /\ set' = [Settings(p) EXCEPT !.fall = fallback /\ p # 0]
     \/ SelectFails(p) /\ set' = Settings(p)
\* AT PC
PC ==
  /\ Prompt /\ Idle /\ Released /\ hdr' = hdr
  /\ \/ proto' = 0 /\ first' = 0 /\ set' = Settings(0)
     \/ UNCHANGED <<proto, first, set>>
\* AT Z, AT D, AT WS
Reset ==
  /\ Prompt /\ Idle /\ Released
  /\ \/ proto' = 0 /\ first' = 0 /\ hdr' = 0 /\ set' = Defaults
     \/ UNCHANGED <<proto, first, hdr, set>>
\* AT SS, AT KW
Sets ==
  /\ Prompt /\ Idle
  /\ set' \in {[set EXCEPT !.std = TRUE], [set EXCEPT !.kw = ~@]}
  /\ UNCHANGED <<choice, sess, wireVars>>

\* What an initialisation makes of the vehicle, over an open K-Line.
FiveBaud == CASE veh = "iso" -> "iso" [] veh = "kwp" -> "kwp" [] veh = "odd" -> "unknown" [] OTHER -> "none"
FastInit == IF veh \in {"kwp", "fast", "odd"} THEN "kwp" ELSE "none"
Can5 == IF bus = "kline" THEN FiveBaud ELSE "none"
CanFast == IF bus = "kline" THEN FastInit ELSE "none"
Could == IF proto = 5 THEN CanFast ELSE Can5
\* elm327_kline_init() with the outcome got, then elm327_kline_reconcile(): the
\* key bytes decide between protocols 3 and 4.
Refused(got) == got = "none" \/ (got = "unknown" /\ set.kw)
Initialises(got) ==
  /\ link' = got /\ sess' = got /\ UNCHANGED <<bus, first, queue, late>>
  /\ IF ~Refused(got) /\ proto # 5 /\ got # "unknown"
     THEN proto' = (IF got = "kwp" THEN 4 ELSE 3) /\ hdr' = (IF proto' = proto THEN hdr ELSE proto')
     ELSE UNCHANGED <<proto, hdr>>
\* AT SI, AT FI
StartsSession ==
  /\ Prompt /\ Kline /\ Idle /\ set' = set
  /\ \E got \in {Could, "none"} : Initialises(got)
\* AT BI: the driver is told of a session nobody negotiated.
BI ==
  /\ Prompt /\ Kline /\ Idle /\ bus = "kline"
  /\ link' = (IF proto = 3 THEN "iso" ELSE "kwp")
  /\ UNCHANGED <<sess, set, proto, hdr, bus, first, wireVars>>

-----------------------------------------------------------------------------
(* A request *)

Step == UNCHANGED veh
StartsSearch(skip) ==
  /\ search' = TRUE /\ at' = "next"
  /\ todo' = ({first'} \ {0}) \union (Searched \ {skip})
Direct == at' = (IF Kline THEN "ensure" ELSE "drain") /\ UNCHANGED <<search, todo>>
\* A protocol with no driver fails at once, and AT SP Ah searches for another.
NoDriver(w) ==
  IF set.fall
  THEN first' = 0 /\ set' = [set EXCEPT !.fall = FALSE] /\ StartsSearch(proto) /\ wants' = w /\ ret' = "none"
  ELSE ret' = "failed" /\ UNCHANGED <<at, search, todo, wants, first, set>>
Request(w) ==
  /\ Prompt /\ excuse' = {}
  /\ queue' = (IF queue = {} THEN {} ELSE {"old"})
  /\ UNCHANGED <<veh, sess, proto, hdr, bus, link, late>>
  /\ IF proto # 0 /\ Bus(proto) = "none" THEN NoDriver(w)
     ELSE /\ UNCHANGED <<first, set>> /\ wants' = w /\ ret' = "none"
          /\ IF proto = 0 THEN StartsSearch(0) ELSE Direct

Ends(rc) == at' = "prompt" /\ ret' = rc /\ search' = FALSE /\ todo' = {} /\ wants' = TRUE
\* An attempt is over.  A search goes on to the next protocol; AT SP Ah starts
\* one, but for an initialisation that failed.
Fallback(rc) == rc \in {"silent", "failed"} /\ set.fall
Attempted(rc) ==
  IF search
  THEN IF rc = "ok"
       THEN Ends("ok") /\ first' = 0 /\ set' = [set EXCEPT !.found = TRUE]
       ELSE at' = "next" /\ UNCHANGED <<todo, search, wants, ret, first, set>>
  ELSE IF Fallback(rc)
       THEN set' = [set EXCEPT !.fall = FALSE] /\ first' = 0 /\ StartsSearch(proto') /\ UNCHANGED <<ret, wants>>
       ELSE Ends(rc) /\ UNCHANGED <<first, set>>
Excused(why) == excuse' = excuse \union why

\* What the client was on goes first, the others in their order.
Turn(p) == IF first \in todo THEN p = first ELSE \A q \in todo \ {p} : Before(p, q)
\* What opens CAN is refused without a bit rate, which is how a protocol with no
\* driver ends.
Goes(p) ==
  at' = (CASE Bus(p) = "none" -> "next" [] Bus(p) = "kline" -> "ensure" [] OTHER -> "drain")
\* Mutant of Attempts: a protocol that was tried is not left behind.
AttemptsAgain(p) ==
  \/ /\ Selects(p) /\ excuse' = excuse /\ Goes(p)
     /\ todo' = (IF Bus(p) = "none" THEN todo \ {p} ELSE todo)
  \/ SelectFails(p) /\ Excused({"fault"}) /\ at' = at /\ todo' = todo \ {p}
\* elm327_search_attempt(), up to the exchange
Attempts(p) ==
  /\ todo' = todo \ {p}
  /\ \/ Selects(p) /\ excuse' = excuse /\ Goes(p)
     \/ SelectFails(p) /\ Excused({"fault"}) /\ at' = at
Tries ==
  /\ at = "next" /\ Step /\ UNCHANGED <<search, wants, ret>>
  /\ \E p \in todo : Turn(p) /\ set' = Settings(p) /\ Attempts(p)
\* Mutant of FindsNothing: what was tried last is tried first the next time.
RemembersLast ==
  /\ at = "next" /\ todo = {} /\ Step /\ Ends("not found") /\ excuse' = excuse
  /\ Released /\ proto' = 0 /\ first' = proto /\ hdr' = hdr
  /\ set' = [Settings(0) EXCEPT !.found = FALSE]
FindsNothing ==
  /\ at = "next" /\ todo = {} /\ Step /\ Ends("not found") /\ excuse' = excuse
  /\ Released /\ proto' = 0 /\ first' = 0 /\ hdr' = hdr
  /\ set' = [Settings(0) EXCEPT !.found = FALSE]

\* elm327_kline_ensure_link()
HasLink ==
  /\ at = "ensure" /\ link # "none" /\ at' = "drain" /\ Step
  /\ Excused((IF sess = "none" THEN {"lapsed"} ELSE {})
             \union (IF link = "unknown" THEN {"rejected"} ELSE {}))
  /\ UNCHANGED <<sess, choice, set, todo, search, wants, ret, wireVars>>
GetsLink ==
  /\ at = "ensure" /\ link = "none" /\ Step
  /\ \E got \in {Could, "none"} :
       /\ link' = got /\ sess' = got /\ UNCHANGED <<bus, wireVars>>
       /\ Excused((IF got # Could THEN {"asleep"} ELSE {})
                  \union (IF got = "unknown" THEN {"rejected"} ELSE {}))
       /\ IF Refused(got)
          THEN Attempted("no init") /\ UNCHANGED <<proto, hdr>>
          ELSE /\ at' = "drain" /\ UNCHANGED <<todo, search, wants, ret, first, set>>
               /\ IF proto = 5 \/ got = "unknown" THEN UNCHANGED <<proto, hdr>>
                  ELSE /\ proto' = (IF got = "kwp" THEN 4 ELSE 3)
                       /\ hdr' = IF proto' = proto THEN hdr ELSE proto'

\* What is left in the queue is not an answer to this request.  CAN is opened if
\* an earlier teardown left it closed.
\* Mutant of Drain: it is kept.
DrainsNothing ==
  /\ at = "drain" /\ Step /\ at' = "send"
  /\ bus' = (IF Bus(proto) = "can" THEN "can" ELSE bus)
  /\ UNCHANGED <<proto, hdr, first, link, queue, sess, set, todo, search, wants, ret, late, excuse>>
Drain ==
  /\ at = "drain" /\ Step /\ UNCHANGED <<proto, hdr, link, sess, late>>
  /\ queue' = IF Bus(proto) = "kline" THEN queue ELSE {}
  /\ \/ /\ at' = "send" /\ bus' = (IF Bus(proto) = "can" THEN "can" ELSE bus)
        /\ UNCHANGED <<first, set, todo, search, wants, ret, excuse>>
     \/ /\ Bus(proto) = "can" /\ bus = "none" /\ bus' = bus
        /\ Attempted("failed") /\ Excused({"fault"})
\* The K-Line driver clears its queue when the bus is its own.
Send ==
  /\ at = "send" /\ Step /\ UNCHANGED <<proto, hdr, bus, link, sess>>
  /\ \/ /\ bus = Bus(proto) /\ queue' = (IF bus = "kline" THEN {} ELSE queue)
        /\ IF wants THEN at' = "collect" /\ late' = late /\ UNCHANGED <<todo, search, wants, ret, first, set>>
           ELSE Attempted("ok") /\ late' \in BOOLEAN
        /\ excuse' = excuse
     \/ Attempted("failed") /\ Excused({"fault"}) /\ UNCHANGED wireVars

\* Does this vehicle answer what was sent?
Speaks ==
  \/ veh \in DOMAIN Native /\ Native[veh] = proto
  \/ sess = "iso" /\ hdr = 3
  \/ sess = "kwp" /\ hdr \in {4, 5}
  \/ sess = "unknown" /\ hdr = 3
Collecting == at \in {"collect", "heard", "more"}
\* A reply, or a notice that one is coming, starts the window again.
Hears ==
  /\ Collecting /\ Step /\ at' = (IF at = "heard" THEN "more" ELSE "heard")
  /\ UNCHANGED <<choice, sess, set, todo, search, wants, ret>>
  /\ \/ \E m \in queue : queue' = queue \ {m} /\ late' = late
                        /\ Excused(IF m = "old" THEN {"stale"} ELSE {"later"})
     \/ Speaks /\ late' \in BOOLEAN /\ UNCHANGED <<queue, excuse>>
\* The window is over, all that was asked for has come, or a CAN message breaks off.
CollectEnds ==
  /\ Collecting /\ Step /\ UNCHANGED <<proto, hdr, bus, link, sess, queue>>
  /\ \/ at # "collect" /\ Attempted("ok") /\ UNCHANGED <<late, excuse>>
     \/ /\ at = "collect" /\ queue = {} /\ Attempted("silent")
        /\ late' \in (IF Speaks THEN BOOLEAN ELSE {late})
        /\ Excused(IF Speaks THEN {"asleep"} ELSE {})
     \/ bus = "can" /\ Attempted("failed") /\ late' = late /\ Excused({"fault"})

-----------------------------------------------------------------------------
(* The wire, and the poll that listens between requests *)

Arrives ==
  /\ late /\ bus # "none" /\ late' = FALSE /\ queue' = queue \union {"late"}
  /\ UNCHANGED <<veh, sess, choice, set, at, todo, search, wants, ret, excuse>>
Observe ==
  /\ Prompt /\ queue # {} /\ queue' = {}
  /\ UNCHANGED <<veh, sess, choice, set, at, todo, search, wants, ret, late, excuse>>
Lapses ==
  /\ Prompt /\ sess # "none" /\ sess' = "none"
  /\ UNCHANGED <<veh, choice, set, at, todo, search, wants, ret, wireVars, excuse>>

-----------------------------------------------------------------------------
Command ==
  \/ \E p \in Asked, fallback \in BOOLEAN : SP(p, fallback)
  \/ PC \/ Reset \/ Sets \/ StartsSession \/ BI
  \/ \E w \in BOOLEAN : Request(w)
RequestStep == Tries \/ FindsNothing \/ HasLink \/ GetsLink \/ Drain \/ Send \/ Hears \/ CollectEnds
Next == Command \/ RequestStep \/ Arrives \/ Observe \/ Lapses
\* The link task runs, and every wait in a request ends or hears something.
Spec == Init /\ [][Next]_vars /\ WF_vars(RequestStep)

-----------------------------------------------------------------------------
Protocols == 0 .. 12
BusNames == {"none", "pwm", "vpw", "kline", "can"}
SessionNames == {"none", "iso", "kwp", "unknown"}
Outcomes == {"ok", "silent", "failed", "no init", "not found"}
SettingsType == [std : BOOLEAN, kw : BOOLEAN, found : BOOLEAN, fall : BOOLEAN]
ChoiceType ==
  /\ proto \in Protocols /\ hdr \in 0 .. 9 /\ first \in Protocols
  /\ bus \in BusNames /\ link \in SessionNames /\ sess \in SessionNames
PlaceType ==
  /\ at \in {"prompt", "next", "ensure", "drain", "send", "collect", "heard", "more"}
  /\ search \in BOOLEAN /\ wants \in BOOLEAN /\ ret \in Outcomes \union {"none"}
TypeOK ==
  /\ veh \in Vehicles /\ ChoiceType /\ PlaceType /\ set \in SettingsType
  /\ todo \subseteq Protocols \ {0} /\ queue \subseteq {"old", "late"} /\ late \in BOOLEAN
  /\ excuse \subseteq {"fault", "lapsed", "rejected", "asleep", "stale", "later"}

\* elm327_at.c:2820: a search that leaves one out cannot succeed.  What is said
\* not to answer has been asked in its own protocol, in a session it agreed to.
SearchIsComplete ==
  Prompt /\ ret = "not found" /\ excuse = {} => veh = "none"

\* elm327_at.c:2885: a search that found nothing holds nothing and prefers
\* nothing, and automatic keeps a bus only to confirm it.
RestIsHonest ==
  Prompt =>
    /\ ~search /\ todo = {}
    /\ proto # 0 /\ bus # "none" => bus = Bus(proto)
    /\ ret = "not found" => proto = 0 /\ bus = "none" /\ first = 0
    /\ proto = 0 /\ bus # "none" => first # 0 /\ bus = Bus(first)

\* elm327_at.c:2271: what was received before a request is not shown as its answer.
AnswersAreCurrent == "stale" \notin excuse

\* What the prompt says, and what is selected when it comes, is so.
PromptIsHonest == SearchIsComplete /\ RestIsHonest /\ AnswersAreCurrent

-----------------------------------------------------------------------------
(* Why it is so: the invariant that every step keeps. *)

Exchanging == at \notin {"prompt", "next"}
\* What is open belongs to the protocol, or to the one automatic is to confirm;
\* the header is that of the protocol.
BusFits ==
  /\ bus # "none" => bus = Bus(IF proto = 0 THEN first ELSE proto) /\ (proto = 0 => first # 0)
  /\ proto \in 1 .. 9 => hdr = proto
  /\ Exchanging => proto \in 1 .. 9
Agreed == CASE veh = "iso" -> {"iso"} [] veh \in {"kwp", "fast"} -> {"kwp"}
            [] veh = "odd" -> {"unknown", "kwp"} [] OTHER -> {}
\* A session is had over the K-Line, by a driver that knows of one, and is one
\* this vehicle agrees to.
SessionFits ==
  /\ link # "none" => bus = "kline"
  /\ sess # "none" => link # "none"
  /\ sess \in {"none"} \union Agreed
  /\ Exchanging /\ at # "ensure" /\ Kline /\ excuse = {} => sess # "none"
\* What is kept of a search and of its end, at the prompt and before it.
PromptFits ==
  /\ at = "prompt" => ~search /\ todo = {}
  /\ at = "next" => search
  /\ at # "prompt" => ret = "none"
  /\ at = "ensure" => Kline /\ (search => bus = "kline")
  /\ ret = "not found" => proto = 0 /\ bus = "none" /\ first = 0
\* What came before this request is gone once it is sent, or the bus is shut.
QueueFits ==
  /\ bus = "none" => queue = {}
  /\ at = "send" /\ bus # "kline" => "old" \notin queue
  /\ Collecting => "old" \notin queue
\* The protocols a search has not given up.
Left == todo \union IF Exchanging THEN {proto} ELSE {}
\* As long as nothing excuses a search, the protocol its vehicle answers on has
\* still to be tried, or is being tried.  The odd one lets the session it is in
\* decide: 5 does not end one of unknown key bytes, and 3 comes back for it.
SearchFits ==
  search /\ excuse = {} =>
    /\ veh \in DOMAIN Native => Native[veh] \in Left
    /\ veh = "iso" => 3 \in Left
    /\ veh \in {"kwp", "fast"} => 5 \in Left
    /\ veh = "odd" =>
         /\ sess = "unknown" => 3 \in Left
         /\ 5 \in Left \/ (3 \in Left /\ (sess = "unknown" \/ link = "none"))
ElmInv ==
  TypeOK /\ BusFits /\ SessionFits /\ PromptFits /\ QueueFits /\ SearchFits /\ PromptIsHonest

-----------------------------------------------------------------------------
\* elm327_at.c:3058: every line gets its prompt, unless the vehicle goes on giving
\* replies or notices for ever.
PromptComesBack == <>[]~Prompt => []<><<Hears>>_vars

\* Not so (README, findings).
\* elm327_at.c:1951: the window starts again with every one of those.
PromptAlwaysComesBack == ~Prompt ~> Prompt
\* elm327_at.c:2910: a search that found nothing arrived at nothing.
FoundMeansHeard == at = "send" /\ search => wants
\* elm327_at.c:2984: AT SP Ah searches when the protocol fails to initialise.
FallbackHappens == Prompt /\ ret = "no init" => ~set.fall
\* elm327_at.c:2482: unknown key bytes have not established anything.
RejectedLinkIsNotUsed == at = "send" /\ link = "unknown" => ~set.kw
\* elm327_at.c:2523: the protocol is the one the key bytes named.
HeaderFitsLink == at = "send" /\ Kline => (link = "iso" => hdr = 3) /\ (link = "kwp" => hdr # 3)
=============================================================================
