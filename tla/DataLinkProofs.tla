---------------------------- MODULE DataLinkProofs ----------------------------
(***************************************************************************)
(* Proofs about DataLink for any grammars, any number of clients on each   *)
(* transport, whichever of them talk and whatever the shell and a phone    *)
(* may ask of the link.                                                    *)
(***************************************************************************)
EXTENDS DataLink, FiniteSetTheorems, TLAPS

\* The places of a transport's thread once its client has gone.
Leaving == {"leave", "down", "restart", "detach", "offer"}

-------------------------------------------------------------------------------
(* The inductive invariant. *)

\* A thread binds a port, and a transport's own thread lets go of its own one
\* after its client has gone.
ThreadsKnow ==
  /\ client \in [Ports -> Nat]
  /\ \A p \in Ports :
       /\ connected[p] => client[p] # 0
       /\ calls[p].at \in Leaving =>
            ~connected[p] /\ client[p] # 0 /\ calls[p].held = p
  /\ \A c \in Callers : calls[c].at \in {"bind", "place", "unmute"} =>
       calls[c].to \in Ports
  /\ calls[Main].at \in {"down", "restart", "detach"} => calls[Main].held \in Ports

\* A client that is lost is one before the transport's latest, or has left; none
\* of its bytes are unread.
BytesAreKnown ==
  /\ \A p \in Ports : \A d \in rx[p] : d[1] = p /\ d \notin lost
  /\ \A d \in lost : /\ d[2] <= client[d[1]]
                     /\ connected[d[1]] => d[2] # client[d[1]]
  /\ link.at = "read" => link.port \in Ports

\* Where the newest request is on its way to the grammar that runs.
RequestTravels ==
  /\ switch => next = want
  /\ ~switch => IF link.at \in {"stop", "start"} THEN link.next = want
                                                 ELSE fe = want
  /\ link.at = "start" => ~claims

\* Until the grammar has been started again, its fresh start is on its way.
RestartTravels ==
  talk \cap lost # {} =>
    \/ \E c \in Callers : calls[c].at = "restart"
    \/ switch
    \/ link.at \in {"stop", "start"}

\* A transport that has a client and not the link is about to be asked.
OfferTravels ==
  port = NoPort =>
    \A p \in Ports : connected[p] /\ p \notin parked =>
      \E c \in Callers :
        \/ calls[c].at \in {"boot", "bind", "place"}
        \/ calls[c].at = "offer" /\ calls[c].held # p

\* A port that holds the link and is muted is about to be let go, or un-muted.
MuteTravels ==
  port # NoPort /\ muted[port] =>
    \E c \in Callers :
      \/ calls[c].at \in {"restart", "detach"}
      \/ calls[c].at = "unmute" /\ calls[c].to = port

LinkInv ==
  /\ TypeOK /\ ThreadsKnow /\ BytesAreKnown
  /\ RequestTravels /\ RestartTravels /\ OfferTravels /\ MuteTravels

-------------------------------------------------------------------------------
(* The constants, and the records TypeOK is about. *)

LinkType ==
  [at : {"service", "stop", "start", "look", "read", "feed", "poll"},
   next : Grammars \cup {NoGrammar}, port : Ports \cup {NoPort},
   work : Clients \cup {NoBody}]

CallType ==
  [at : {"idle", "boot", "bind", "place", "unmute", "leave", "down", "restart",
         "detach", "offer"},
   held : Ports \cup {NoPort}, to : Ports \cup {NoPort}]

LEMMA ThreeAtMost == \A a, b, c : Cardinality({a, b, c}) \in 0 .. 3
<1> TAKE a, b, c
<1>1. IsFiniteSet({}) /\ Cardinality({}) = 0
  BY FS_EmptySet
<1>2. IsFiniteSet({a}) /\ Cardinality({a}) = 1
  BY FS_Singleton
<1>3. {a, b} = {a} \cup {b} /\ {a, b, c} = {a, b} \cup {c}
  OBVIOUS
<1>4. IsFiniteSet({a, b}) /\ Cardinality({a, b}) \in {1, 2}
  BY <1>2, <1>3, FS_AddElement
<1>5. IsFiniteSet({a, b, c}) /\ Cardinality({a, b, c}) \in {1, 2, 3}
  BY <1>3, <1>4, FS_AddElement
<1>6. QED
  BY <1>5

\* The two transports, app_main's thread and "no port" are four.
LEMMA Apart ==
  /\ Usb # Ble /\ Usb # Main /\ Ble # Main
  /\ NoPort # Usb /\ NoPort # Ble /\ NoPort # Main
<1> DEFINE four == {Usb, Ble, Main, NoPort}
<1>1. Cardinality(four) = 4
  BY PortsAreApart
<1>2. Usb = Ble => four = {Usb, Main, NoPort}
  OBVIOUS
<1>3. Usb = Main \/ Ble = Main => four = {Usb, Ble, NoPort}
  OBVIOUS
<1>4. NoPort = Usb \/ NoPort = Ble \/ NoPort = Main => four = {Usb, Ble, Main}
  OBVIOUS
<1> HIDE DEF four
<1>5. \A a, b, c : four # {a, b, c}
  <2> SUFFICES ASSUME NEW a, NEW b, NEW c, four = {a, b, c} PROVE FALSE
    OBVIOUS
  <2>1. Cardinality(four) \in 0 .. 3
    BY ThreeAtMost, Zenon
  <2>2. QED
    BY <1>1, <2>1
<1>6. QED
  BY <1>2, <1>3, <1>4, <1>5, Zenon

\* Whoever is connected is one of the clients.
LEMMA ClientIsOne ==
  ASSUME TypeOK, ThreadsKnow, NEW p \in Ports, client[p] # 0
  PROVE  /\ Client(p) \in Clients
         /\ Client(p)[1] = p /\ Client(p)[2] = client[p]
<1>1. /\ MaxClients[Usb] \in Nat /\ MaxClients[Ble] \in Nat
      /\ MaxClients[p] \in {MaxClients[Usb], MaxClients[Ble]}
  BY ClientsAreBounded DEF Ports
<1>2. client[p] \in 1 .. MaxClients[p]
  BY <1>1 DEF TypeOK, ThreadsKnow
<1>3. client[p] \in 1 .. MaxClients[Usb] + MaxClients[Ble]
  BY <1>1, <1>2
<1>4. QED
  BY <1>2, <1>3 DEF Client, Clients

LEMMA TopTyped == Top \in LinkType
BY DEF Top, LinkType, NoBody

LEMMA IdleTyped == Idle \in CallType
BY DEF Idle, CallType

LEMMA InitLink == Init => LinkInv
<1> SUFFICES ASSUME Init PROVE LinkInv
  OBVIOUS
<1> USE Apart DEF Init
<1>1. TypeOK
  <2>1. \A p \in Ports : client[p] \in 0 .. MaxClients[p]
    BY ClientsAreBounded DEF Ports
  <2>2. calls \in [Callers -> CallType]
    BY IdleTyped DEF CallType
  <2>3. QED
    BY <2>1, <2>2, TopTyped, DefaultIsRegistered DEF TypeOK, LinkType, CallType
<1>2. ThreadsKnow
  BY DEF ThreadsKnow, Leaving, Idle, Callers, Ports
<1>3. BytesAreKnown
  BY DEF BytesAreKnown, Top
<1>4. RequestTravels /\ RestartTravels
  BY DEF RequestTravels, RestartTravels, Top
<1>5. OfferTravels
  <2>1. calls[Main].at = "boot" /\ Main \in Callers
    BY DEF Idle, Callers
  <2>2. QED
    BY <2>1 DEF OfferTravels
<1>6. MuteTravels
  BY DEF MuteTravels
<1>7. QED
  BY <1>1, <1>2, <1>3, <1>4, <1>5, <1>6 DEF LinkInv

-------------------------------------------------------------------------------
(* The threads' steps keep the types. *)

\* A thread's step that leaves the grammar and its memory alone.
LEMMA ThreadTyped ==
  ASSUME TypeOK, UNCHANGED <<fe, claims, talk, link>>,
         port' \in Ports \cup {NoPort},
         {next', want'} \subseteq Grammars \cup {NoGrammar}, switch' \in BOOLEAN,
         muted' \in [Ports -> BOOLEAN], connected' \in [Ports -> BOOLEAN],
         \A p \in Ports : client'[p] \in 0 .. MaxClients[p],
         rx' \in [Ports -> SUBSET Clients], lost' \subseteq Clients,
         parked' \subseteq Ports, calls' \in [Callers -> CallType]
  PROVE  TypeOK'
<1> USE DEF TypeOK
<1>1. calls' \in [Callers ->
                  [at : {"idle", "boot", "bind", "place", "unmute", "leave",
                         "down", "restart", "detach", "offer"},
                   held : Ports \cup {NoPort}, to : Ports \cup {NoPort}]]
  BY DEF CallType
<1>2. link' = link /\ claims' = claims /\ fe' = fe /\ talk' = talk
  OBVIOUS
<1> HIDE DEF CallType
<1>3. QED
  BY <1>1, <1>2

LEMMA CallsTyped ==
  ASSUME TypeOK, NEW c \in Callers
  PROVE  /\ calls \in [Callers -> CallType]
         /\ \A place \in {"place", "unmute", "down", "restart", "detach", "offer"} :
              Goto(c, place) => calls' \in [Callers -> CallType]
         /\ Done(c) => calls' \in [Callers -> CallType]
         /\ \A call \in CallType :
              calls' = [calls EXCEPT ![c] = call] => calls' \in [Callers -> CallType]
<1>1. calls \in [Callers -> CallType]
  BY DEF TypeOK, CallType
<1>2. ASSUME NEW place \in {"place", "unmute", "down", "restart", "detach", "offer"}
      PROVE  [calls EXCEPT ![c].at = place] \in [Callers -> CallType]
  <2>1. [calls[c] EXCEPT !.at = place] \in CallType
    BY <1>1 DEF CallType
  <2>2. QED
    BY <1>1, <2>1
<1>3. QED
  BY <1>1, <1>2, IdleTyped DEF Goto, Done

\* Where a thread is after Goto and Done, and that the others are where they were.
LEMMA Moves ==
  ASSUME TypeOK, NEW c \in Callers, NEW place
  PROVE  /\ Goto(c, place) => /\ calls'[c].at = place
                              /\ calls'[c].held = calls[c].held
                              /\ calls'[c].to = calls[c].to
         /\ Done(c) => calls'[c].at = "idle"
         /\ Goto(c, place) \/ Done(c) =>
              \A d \in Callers : d # c => calls'[d] = calls[d]
BY DEF Goto, Done, Idle, TypeOK

LEMMA TransportTyped ==
  ASSUME LinkInv, NEW p \in Ports, TransportStep(p) \/ Release(p)
  PROVE  TypeOK'
<1> USE Apart DEF LinkInv, comm, asked, ghosts
<1>0. p \in Callers
  BY DEF Callers
<1>1. CASE Connect(p)
  <2>1. [at |-> "bind", held |-> NoPort, to |-> p] \in CallType
    BY DEF CallType
  <2>2. calls' \in [Callers -> CallType]
    BY <1>0, <1>1, <2>1, CallsTyped DEF Connect
  <2>3. \A q \in Ports : client'[q] \in 0 .. MaxClients[q]
    BY <1>1, ClientsAreBounded DEF Connect, ThreadsKnow, TypeOK, Ports
  <2>4. connected' \in [Ports -> BOOLEAN]
    BY <1>1 DEF Connect, TypeOK
  <2>5. QED
    BY <1>1, <2>2, <2>3, <2>4, ThreadTyped DEF Connect, TypeOK
<1>2. CASE Disconnect(p)
  <2>1. [at |-> "leave", held |-> p, to |-> NoPort] \in CallType
    BY DEF CallType
  <2>2. calls' \in [Callers -> CallType]
    BY <1>0, <1>2, <2>1, CallsTyped DEF Disconnect
  <2>3. connected' \in [Ports -> BOOLEAN]
    BY <1>2 DEF Disconnect, TypeOK
  <2>4. QED
    BY <1>2, <2>2, <2>3, ThreadTyped DEF Disconnect, TypeOK
<1>3. CASE Send(p)
  <2>1. Client(p) \in Clients
    BY <1>3, ClientIsOne DEF Send, ThreadsKnow
  <2>2. rx' \in [Ports -> SUBSET Clients]
    BY <1>3, <2>1 DEF Send, TypeOK
  <2>3. calls \in [Callers -> CallType]
    BY <1>0, CallsTyped
  <2>4. QED
    BY <1>3, <2>2, <2>3, ThreadTyped DEF Send, TypeOK
<1>4. CASE Release(p)
  <2>1. calls' \in [Callers -> CallType]
    BY <1>0, <1>4, CallsTyped DEF Release
  <2>2. QED
    BY <1>4, <2>1, ThreadTyped DEF Release, TypeOK
<1>5. QED
  BY <1>1, <1>2, <1>3, <1>4 DEF TransportStep

LEMMA CallStepTyped ==
  ASSUME LinkInv, NEW c \in Callers, CallStep(c)
  PROVE  TypeOK'
<1> USE Apart DEF LinkInv, comm, asked, ghosts
<1>0. calls \in [Callers -> CallType]
  BY CallsTyped
<1>1. CASE TryBind(c)
  <2>1. calls' \in [Callers -> CallType]
    BY <1>1, CallsTyped DEF TryBind
  <2>2. QED
    BY <1>1, <2>1, ThreadTyped DEF TryBind, TypeOK
<1>2. CASE Place(c)
  <2>1. calls' \in [Callers -> CallType] /\ calls[c].to \in Ports
    BY <1>2, CallsTyped DEF Place, At, ThreadsKnow
  <2>2. QED
    BY <1>2, <2>1, ThreadTyped DEF Place, TypeOK
<1>3. CASE Unmute(c)
  <2>1. calls' \in [Callers -> CallType]
    BY <1>3, CallsTyped DEF Unmute
  <2>2. muted' \in [Ports -> BOOLEAN]
    BY <1>3 DEF Unmute, TypeOK
  <2>3. QED
    BY <1>3, <2>1, <2>2, ThreadTyped DEF Unmute, TypeOK
<1>4. CASE Down(c)
  <2>1. calls' \in [Callers -> CallType]
    BY <1>4, CallsTyped DEF Down
  <2>2. muted' \in [Ports -> BOOLEAN] /\ rx' \in [Ports -> SUBSET Clients]
    BY <1>4 DEF Down, TypeOK
  <2>3. lost' \subseteq Clients
    <3>1. CASE c = port /\ c \in Talkers
      <4>1. c \in Ports
        BY <3>1 DEF TypeOK, Callers
      <4>2. Client(c) \in Clients
        BY <1>4, <4>1, ClientIsOne DEF Down, At, ThreadsKnow, Leaving
      <4>3. QED
        BY <1>4, <4>2 DEF Down, TypeOK
    <3>2. QED
      BY <1>4, <3>1 DEF Down, TypeOK
  <2>4. QED
    BY <1>4, <2>1, <2>2, <2>3, ThreadTyped DEF Down, TypeOK
<1>5. CASE Restart(c)
  <2>1. calls' \in [Callers -> CallType]
    BY <1>5, CallsTyped DEF Restart
  <2>2. QED
    BY <1>5, <2>1, ThreadTyped, DefaultIsRegistered DEF Restart, SetFrontend, TypeOK
<1>6. CASE Detach(c)
  <2>1. calls' \in [Callers -> CallType]
    BY <1>6, CallsTyped DEF Detach
  <2>2. parked' \subseteq Ports
    BY <1>6 DEF Detach, At, ThreadsKnow, TypeOK
  <2>3. QED
    BY <1>6, <2>1, <2>2, ThreadTyped DEF Detach, TypeOK
<1>7. CASE Offer(c)
  <2>1. calls' \in [Callers -> CallType]
    <3>1. CASE \E q \in Ports \ {calls[c].held} : connected[q]
      <4> DEFINE q == CHOOSE q \in Ports \ {calls[c].held} : connected[q]
      <4>1. q \in Ports
        BY <3>1
      <4>2. [at |-> "bind", held |-> NoPort, to |-> q] \in CallType
        BY <4>1 DEF CallType
      <4>3. calls' = [calls EXCEPT ![c] = [at |-> "bind", held |-> NoPort, to |-> q]]
        BY <1>7, <3>1 DEF Offer
      <4> HIDE DEF q
      <4>4. QED
        BY <4>2, <4>3, CallsTyped
    <3>2. QED
      BY <1>7, <3>1, CallsTyped DEF Offer
  <2>2. QED
    BY <1>7, <2>1, ThreadTyped DEF Offer, TypeOK
<1>8. QED
  BY <1>1, <1>2, <1>3, <1>4, <1>5, <1>6, <1>7 DEF CallStep

\* What only app_main's thread does, and MODE.
MainStep ==
  \/ BootBind
  \/ \E t \in Manual : LinkSet(t)
  \/ \E f \in Modes : ModeSet(f)

LEMMA MainTyped == LinkInv /\ MainStep => TypeOK'
<1> SUFFICES ASSUME LinkInv, MainStep PROVE TypeOK'
  OBVIOUS
<1> USE Apart DEF LinkInv, comm, asked, ghosts
<1>0. Main \in Callers /\ calls \in [Callers -> CallType]
  BY CallsTyped DEF Callers
<1>1. CASE BootBind
  <2>1. \A q \in Ports : [at |-> "bind", held |-> NoPort, to |-> q] \in CallType
    BY DEF CallType
  <2>2. calls' \in [Callers -> CallType]
    BY <1>0, <1>1, <2>1, CallsTyped DEF BootBind, Ports
  <2>3. QED
    BY <1>1, <2>2, ThreadTyped DEF BootBind, TypeOK
<1>2. ASSUME NEW t \in Manual, LinkSet(t) PROVE TypeOK'
  <2>1. [at |-> IF port = NoPort THEN "place" ELSE "down",
         held |-> port, to |-> t] \in CallType
    BY InputsAreKnown DEF CallType, TypeOK, Ports
  <2>2. calls' \in [Callers -> CallType]
    BY <1>0, <1>2, <2>1, CallsTyped DEF LinkSet
  <2>3. QED
    BY <1>2, <2>2, ThreadTyped DEF LinkSet, TypeOK
<1>3. ASSUME NEW f \in Modes, ModeSet(f) PROVE TypeOK'
  BY <1>0, <1>3, ThreadTyped, InputsAreKnown DEF ModeSet, SetFrontend, TypeOK
<1>4. QED
  BY <1>1, <1>2, <1>3 DEF MainStep

-------------------------------------------------------------------------------
(* The link task's steps keep them. *)

LinkTask == LinkStep \/ \E f \in Modes : FedSelecting(f)

LEMMA LinkTaskTyped == LinkInv /\ LinkTask => TypeOK'
<1> SUFFICES ASSUME LinkInv, LinkTask PROVE TypeOK'
  OBVIOUS
<1> USE Apart DEF LinkInv, comm, asked, ghosts
<1>1. /\ link \in LinkType /\ Top \in LinkType /\ AtPort \in LinkType
      /\ [Top EXCEPT !.at = "poll"] \in LinkType
  BY TopTyped DEF TypeOK, LinkType, AtPort
<1>2. ASSUME link' \in LinkType, fe' \in Grammars \cup {NoGrammar},
             {next', want'} \subseteq Grammars \cup {NoGrammar},
             switch' \in BOOLEAN, claims' \in BOOLEAN,
             muted' \in [Ports -> BOOLEAN], rx' \in [Ports -> SUBSET Clients],
             talk' \subseteq Clients,
             UNCHANGED <<port, connected, client, calls, lost, parked>>
      PROVE  TypeOK'
  BY <1>2 DEF TypeOK, LinkType
<1>3. CASE NoSwitch \/ Polled
  BY <1>1, <1>2, <1>3 DEF NoSwitch, Polled, TypeOK
<1>4. CASE TakeSwitch
  <2>1. link' \in LinkType
    BY <1>1, <1>4 DEF TakeSwitch, TypeOK, LinkType
  <2>2. QED
    BY <1>2, <1>4, <2>1 DEF TakeSwitch, TypeOK
<1>5. CASE Released
  <2>1. link' \in LinkType
    BY <1>1, <1>5 DEF Released, LinkType
  <2>2. QED
    BY <1>2, <1>5, <2>1 DEF Released, TypeOK
<1>6. CASE ReleaseFails
  <2>1. link.next \in Grammars \cup {NoGrammar}
    BY DEF TypeOK
  <2>2. QED
    <3>1. {next', want'} \subseteq Grammars \cup {NoGrammar} /\ switch' \in BOOLEAN
      BY ZenonT(30), <1>6, <2>1 DEF ReleaseFails, TypeOK
    <3>2. UNCHANGED <<muted, rx, claims, talk>>
      BY <1>6 DEF ReleaseFails
    <3>3. QED
      BY <1>1, <1>2, <1>6, <3>1, <3>2 DEF ReleaseFails, TypeOK
<1>7. CASE Start
  <2>1. link.next \in Grammars \cup {NoGrammar}
    BY DEF TypeOK
  <2>2. muted' \in [Ports -> BOOLEAN]
    BY <1>7 DEF Start, TypeOK
  <2>3. QED
    BY <1>1, <1>2, <1>7, <2>1, <2>2 DEF Start, TypeOK
<1>8. CASE Look
  <2>1. [Top EXCEPT !.at = "read", !.port = port] \in LinkType
    BY <1>1 DEF TypeOK, LinkType
  <2>2. QED
    BY <1>1, <1>2, <1>8, <2>1 DEF Look, TypeOK
<1>9. ASSUME NEW c \in Clients, Read(c) PROVE TypeOK'
  <2>1. [Top EXCEPT !.at = "feed", !.work = c] \in LinkType
    BY <1>1 DEF LinkType
  <2>2. rx' \in [Ports -> SUBSET Clients]
    BY <1>9 DEF Read, LinkAt, BytesAreKnown, TypeOK
  <2>3. QED
    <3>1. claims' \in BOOLEAN /\ talk' \subseteq Clients
      BY <1>9 DEF Read, TypeOK
    <3>2. UNCHANGED <<fe, next, switch, want, muted>>
      BY <1>9 DEF Read
    <3>3. QED
      BY <1>2, <1>9, <2>1, <2>2, <3>1, <3>2 DEF Read, TypeOK
<1>10. CASE ReadNothing \/ Fed
  BY <1>1, <1>2, <1>10 DEF ReadNothing, Fed, AfterFeed, TypeOK
<1>11. ASSUME NEW f \in Modes, FedSelecting(f) PROVE TypeOK'
  BY <1>1, <1>2, <1>11, InputsAreKnown DEF FedSelecting, SetFrontend, TypeOK
<1>12. QED
  BY <1>3, <1>4, <1>5, <1>6, <1>7, <1>8, <1>9, <1>10, <1>11 DEF LinkTask, LinkStep

\* Where each step of the link task leaves it.
LEMMA LinkMoves ==
  ASSUME TypeOK
  PROVE  /\ NoSwitch \/ ReleaseFails \/ Start => link'.at = "look"
         /\ TakeSwitch => link'.at = "stop" /\ link'.next = next
         /\ Released => link'.at = "start" /\ link'.next = link.next
         /\ Look => \/ link'.at = "service"
                    \/ link'.at = "read" /\ link'.port = port /\ port \in Ports
         /\ \A c : Read(c) => link'.at = "feed"
         /\ ReadNothing \/ Fed => link'.at = IF switch THEN "service" ELSE "poll"
         /\ Polled => link'.at = "service"
         /\ \A f : FedSelecting(f) => link'.at = "service"
<1> USE DEF Top, AtPort
<1>0. port \in Ports \cup {NoPort} /\ DOMAIN link = {"at", "next", "port", "work"}
      /\ link = [at |-> link.at, next |-> link.next, port |-> link.port,
                 work |-> link.work]
  BY DEF TypeOK
<1>1. NoSwitch \/ ReleaseFails \/ Start => link'.at = "look"
  BY DEF NoSwitch, ReleaseFails, Start
<1>2. TakeSwitch => link'.at = "stop" /\ link'.next = next
  BY <1>0 DEF TakeSwitch
<1>3. Released => link'.at = "start" /\ link'.next = link.next
  BY <1>0 DEF Released
<1>4. Look => \/ link'.at = "service"
              \/ link'.at = "read" /\ link'.port = port /\ port \in Ports
  BY <1>0 DEF Look
<1>5. \A c : Read(c) => link'.at = "feed"
  BY DEF Read
<1>6. ReadNothing \/ Fed => link'.at = IF switch THEN "service" ELSE "poll"
  BY DEF ReadNothing, Fed, AfterFeed
<1>7. Polled => link'.at = "service"
  BY DEF Polled
<1>8. \A f : FedSelecting(f) => link'.at = "service"
  BY DEF FedSelecting
<1>9. QED
  BY <1>1, <1>2, <1>3, <1>4, <1>5, <1>6, <1>7, <1>8

-------------------------------------------------------------------------------
(* What the threads know, and whose bytes are where. *)

\* A step of one thread that connects nobody.
LEMMA OneThread ==
  ASSUME LinkInv, NEW c \in Callers, UNCHANGED <<connected, client>>,
         \A d \in Callers : d # c => calls'[d] = calls[d],
         c \in Ports /\ calls'[c].at \in Leaving =>
           /\ calls[c].at \in Leaving
           /\ calls'[c].held = calls[c].held,
         calls'[c].at \in {"bind", "place", "unmute"} => calls'[c].to \in Ports,
         c = Main /\ calls'[c].at \in {"down", "restart", "detach"} =>
           calls'[c].held \in Ports
  PROVE  ThreadsKnow'
<1> USE Apart DEF LinkInv, ThreadsKnow
<1>1. \A p \in Ports : calls'[p].at \in Leaving =>
        ~connected[p] /\ client[p] # 0 /\ calls'[p].held = p
  BY DEF Callers
<1>2. \A d \in Callers : calls'[d].at \in {"bind", "place", "unmute"} =>
        calls'[d].to \in Ports
  OBVIOUS
<1>3. calls'[Main].at \in {"down", "restart", "detach"} => calls'[Main].held \in Ports
  BY DEF Callers
<1>4. QED
  BY <1>1, <1>2, <1>3

LEMMA NextSplits ==
  Next => \/ \E p \in Ports : Connect(p) \/ Disconnect(p) \/ Send(p) \/ Release(p)
          \/ \E c \in Callers : CallStep(c)
          \/ MainStep
          \/ LinkTask
BY DEF Next, TransportStep, MainStep, LinkTask

LEMMA ThreadsKeepKnowing == LinkInv /\ Next => ThreadsKnow'
<1> SUFFICES ASSUME LinkInv, Next PROVE ThreadsKnow'
  OBVIOUS
<1> USE Apart DEF LinkInv, comm, asked, ghosts
<1>0. Main \in Callers /\ Main \notin Ports /\ Ports \subseteq Callers
      /\ calls \in [Callers -> CallType]
  BY CallsTyped DEF Callers, Ports
<1>1. ASSUME NEW p \in Ports, Connect(p) PROVE ThreadsKnow'
  <2>1. /\ client' \in [Ports -> Nat]
        /\ \A q \in Ports : connected'[q] => client'[q] # 0
    BY <1>1 DEF Connect, ThreadsKnow, TypeOK
  <2>2. /\ calls'[p].at = "bind" /\ calls'[p].to = p
        /\ \A d \in Callers : d # p => calls'[d] = calls[d]
    BY <1>0, <1>1 DEF Connect
  <2>3. \A q \in Ports : q # p => connected'[q] = connected[q] /\ client'[q] = client[q]
    BY <1>1 DEF Connect, ThreadsKnow, TypeOK
  <2>4. QED
    BY <1>0, <2>1, <2>2, <2>3 DEF ThreadsKnow, Leaving
<1>2. ASSUME NEW p \in Ports, Disconnect(p) PROVE ThreadsKnow'
  <2>1. /\ calls'[p].at = "leave" /\ calls'[p].held = p
        /\ \A d \in Callers : d # p => calls'[d] = calls[d]
    BY <1>0, <1>2 DEF Disconnect
  <2>2. /\ ~connected'[p] /\ client' = client /\ client[p] # 0
        /\ \A q \in Ports : q # p => connected'[q] = connected[q]
    BY <1>2 DEF Disconnect, ThreadsKnow, TypeOK
  <2>3. QED
    BY <1>0, <2>1, <2>2 DEF ThreadsKnow, Leaving
<1>3. ASSUME NEW p \in Ports, Send(p) PROVE ThreadsKnow'
  BY <1>3 DEF Send, ThreadsKnow
<1>4. ASSUME NEW p \in Ports, Release(p) PROVE ThreadsKnow'
  <2>1. /\ calls[p].at = "leave"
        /\ \/ calls'[p].at = "down" /\ calls'[p].held = calls[p].held
           \/ calls'[p].at = "idle"
        /\ \A d \in Callers : d # p => calls'[d] = calls[d]
    BY <1>0, <1>4, Moves DEF Release, At
  <2>2. QED
    BY <1>0, <1>4, <2>1, OneThread DEF Release, Leaving
<1>5. ASSUME NEW c \in Callers, CallStep(c) PROVE ThreadsKnow'
  <2>0. UNCHANGED <<connected, client>>
    BY <1>5 DEF CallStep, TryBind, Place, Unmute, Down, Restart, Detach, Offer
  <2>1. CASE TryBind(c) \/ Unmute(c)
    <3>1. /\ calls'[c].at \in {"place", "idle"}
          /\ calls'[c].at = "place" => calls[c].at = "bind" /\ calls'[c].to = calls[c].to
          /\ \A d \in Callers : d # c => calls'[d] = calls[d]
      BY <2>1, Moves DEF TryBind, Unmute, At
    <3>2. QED
      BY <2>0, <3>1, OneThread DEF ThreadsKnow, Leaving
  <2>2. CASE Place(c)
    <3>1. /\ calls[c].at = "place" /\ calls'[c].at = "unmute"
          /\ calls'[c].to = calls[c].to
          /\ \A d \in Callers : d # c => calls'[d] = calls[d]
      BY <2>2, Moves DEF Place, At
    <3>2. QED
      BY <2>0, <3>1, OneThread DEF ThreadsKnow, Leaving
  <2>3. CASE Down(c) \/ Restart(c)
    <3>1. /\ calls[c].at \in {"down", "restart"}
          /\ calls'[c].at \in {"restart", "detach"} /\ calls'[c].held = calls[c].held
          /\ \A d \in Callers : d # c => calls'[d] = calls[d]
      BY <2>3, Moves DEF Down, Restart, At
    <3>2. QED
      BY <2>0, <3>1, OneThread DEF ThreadsKnow, Leaving
  <2>4. CASE Detach(c)
    <3>1. /\ calls[c].at = "detach"
          /\ \/ calls'[c].at = "offer" /\ calls'[c].held = calls[c].held
             \/ calls'[c].at = "place" /\ calls'[c].to = calls[c].to
                /\ calls[c].to # NoPort
          /\ \A d \in Callers : d # c => calls'[d] = calls[d]
      BY <2>4, Moves DEF Detach, At
    <3>2. calls[c].to \in Ports \cup {NoPort}
      BY <1>0 DEF CallType
    <3>3. QED
      BY <2>0, <3>1, <3>2, OneThread DEF ThreadsKnow, Leaving
  <2>5. CASE Offer(c)
    <3>1. /\ \/ calls'[c].at = "bind" /\ calls'[c].to \in Ports
             \/ calls'[c].at = "idle"
          /\ \A d \in Callers : d # c => calls'[d] = calls[d]
      <4>1. CASE \E q \in Ports \ {calls[c].held} : connected[q]
        BY <1>0, <2>5, <4>1 DEF Offer
      <4>2. QED
        BY <1>0, <2>5, <4>1 DEF Offer, Done, Idle
    <3>2. QED
      BY <2>0, <3>1, OneThread DEF Leaving
  <2>6. QED
    BY <1>5, <2>1, <2>2, <2>3, <2>4, <2>5 DEF CallStep
<1>6. CASE MainStep
  <2>1. CASE BootBind
    <3>1. /\ \/ calls'[Main].at = "bind" /\ calls'[Main].to \in Ports
             \/ calls'[Main].at = "idle"
          /\ \A d \in Callers : d # Main => calls'[d] = calls[d]
      BY <1>0, <2>1 DEF BootBind, Done, Idle, Ports
    <3>2. QED
      BY <1>0, <2>1, <3>1, OneThread DEF BootBind, Leaving
  <2>2. ASSUME NEW t \in Manual, LinkSet(t) PROVE ThreadsKnow'
    <3>1. /\ port = NoPort =>
               calls'[Main].at = "place" /\ calls'[Main].to = t /\ t \in Ports
          /\ port # NoPort =>
               calls'[Main].at = "down" /\ calls'[Main].held = port /\ port \in Ports
          /\ \A d \in Callers : d # Main => calls'[d] = calls[d]
      BY <1>0, <2>2, InputsAreKnown DEF LinkSet, TypeOK, Ports
    <3>2. QED
      BY <1>0, <2>2, <3>1, OneThread DEF LinkSet, Leaving
  <2>3. ASSUME NEW f \in Modes, ModeSet(f) PROVE ThreadsKnow'
    BY <2>3 DEF ModeSet, ThreadsKnow
  <2>4. QED
    BY <1>6, <2>1, <2>2, <2>3 DEF MainStep
<1>7. CASE LinkTask
  <2>1. UNCHANGED <<connected, client, calls>>
    BY <1>7 DEF LinkTask, LinkStep, NoSwitch, TakeSwitch, Released, ReleaseFails,
                Start, Look, Read, ReadNothing, Fed, Polled, FedSelecting
  <2>2. QED
    BY <2>1 DEF ThreadsKnow
<1>8. QED
  BY <1>1, <1>2, <1>3, <1>4, <1>5, <1>6, <1>7, NextSplits

\* The steps that touch a port's bytes, or what is known to be lost.
LEMMA BytesKeepKnown == LinkInv /\ Next => BytesAreKnown'
<1> SUFFICES ASSUME LinkInv, Next PROVE BytesAreKnown'
  OBVIOUS
<1> USE Apart DEF LinkInv, comm, asked, ghosts
<1>0. /\ rx \in [Ports -> SUBSET Clients] /\ lost \subseteq Clients
      /\ connected \in [Ports -> BOOLEAN] /\ client \in [Ports -> Nat]
      /\ \A d \in Clients : d[1] \in Ports /\ d[2] \in Nat
  BY DEF TypeOK, ThreadsKnow, Clients
<1>1. ASSUME NEW p \in Ports, Connect(p) PROVE BytesAreKnown'
  <2>1. \A d \in lost : /\ d[2] <= client'[d[1]]
                        /\ connected'[d[1]] => d[2] # client'[d[1]]
    <3> TAKE d \in lost
    <3>1. d[1] \in Ports /\ d[2] \in Nat /\ d[2] <= client[d[1]]
      BY <1>0 DEF BytesAreKnown
    <3>2. CASE d[1] = p
      BY <1>0, <1>1, <3>1, <3>2 DEF Connect
    <3>3. CASE d[1] # p
      BY <1>0, <1>1, <3>1, <3>3 DEF Connect, BytesAreKnown
    <3>4. QED
      BY <3>2, <3>3
  <2>2. QED
    BY <1>1, <2>1 DEF Connect, BytesAreKnown
<1>2. ASSUME NEW p \in Ports, Disconnect(p) PROVE BytesAreKnown'
  <2>1. \A q \in Ports : connected'[q] => connected[q]
    BY <1>0, <1>2 DEF Disconnect
  <2>2. UNCHANGED <<rx, lost, client, link>>
    BY <1>2 DEF Disconnect
  <2>3. QED
    BY <1>0, <2>1, <2>2 DEF BytesAreKnown
<1>3. ASSUME NEW p \in Ports, Send(p) PROVE BytesAreKnown'
  <2>1. Client(p)[1] = p /\ Client(p) \notin lost
    BY <1>3 DEF Send, Client, BytesAreKnown
  <2>2. \A q \in Ports : \A d \in rx'[q] : d \in rx[q] \/ (q = p /\ d = Client(p))
    BY <1>0, <1>3 DEF Send
  <2>3. UNCHANGED <<lost, connected, client, link>>
    BY <1>3 DEF Send
  <2>4. QED
    BY <2>1, <2>2, <2>3 DEF BytesAreKnown
<1>4. ASSUME NEW p \in Ports, Release(p) PROVE BytesAreKnown'
  BY <1>4 DEF Release, BytesAreKnown
<1>5. ASSUME NEW c \in Callers, CallStep(c) PROVE BytesAreKnown'
  <2>1. CASE Down(c)
    <3>0. UNCHANGED <<connected, client, link>>
      BY <2>1 DEF Down
    <3>1. \A q \in Ports : /\ rx'[q] \subseteq rx[q]
                           /\ q = port => rx'[q] = {}
      BY <1>0, <2>1 DEF Down
    <3>2. \A d \in lost' : d \in lost \/ (c = port /\ d = Client(c))
      BY <2>1 DEF Down
    <3>3. CASE c = port
      <4>1. c \in Ports /\ ~connected[c]
        BY <2>1, <3>3 DEF Down, At, ThreadsKnow, TypeOK, Callers, Leaving
      <4>2. Client(c)[1] = c /\ Client(c)[2] = client[c]
        BY DEF Client
      <4>3. \A q \in Ports : \A d \in rx'[q] : d[1] = q /\ d \notin lost'
        BY <3>1, <3>2, <3>3, <4>2 DEF BytesAreKnown
      <4>4. \A d \in lost' : /\ d[2] <= client[d[1]]
                             /\ connected[d[1]] => d[2] # client[d[1]]
        BY <1>0, <3>2, <4>1, <4>2 DEF BytesAreKnown
      <4>5. QED
        BY <3>0, <4>3, <4>4 DEF BytesAreKnown
    <3>4. CASE c # port
      BY <3>0, <3>1, <3>2, <3>4 DEF BytesAreKnown
    <3>5. QED
      BY <3>3, <3>4
  <2>2. CASE ~Down(c)
    <3>1. UNCHANGED <<rx, lost, connected, client, link>>
      BY <1>5, <2>2 DEF CallStep, TryBind, Place, Unmute, Restart, Detach, Offer
    <3>2. QED
      BY <3>1 DEF BytesAreKnown
  <2>3. QED
    BY <2>1, <2>2
<1>6. CASE MainStep
  <2>1. UNCHANGED <<rx, lost, connected, client, link>>
    BY <1>6 DEF MainStep, BootBind, LinkSet, ModeSet
  <2>2. QED
    BY <2>1 DEF BytesAreKnown
<1>7. CASE LinkTask
  <2>1. UNCHANGED <<lost, connected, client>>
    BY <1>7 DEF LinkTask, LinkStep, NoSwitch, TakeSwitch, Released, ReleaseFails,
                Start, Look, Read, ReadNothing, Fed, Polled, FedSelecting
  <2>2. \A q \in Ports : rx'[q] \subseteq rx[q]
    <3>1. ASSUME NEW c \in Clients, Read(c) PROVE \A q \in Ports : rx'[q] \subseteq rx[q]
      BY <1>0, <3>1 DEF Read
    <3>2. CASE UNCHANGED rx
      BY <3>2
    <3>3. QED
      BY <1>7, <3>1, <3>2
      DEF LinkTask, LinkStep, NoSwitch, TakeSwitch, Released, ReleaseFails, Start,
          Look, ReadNothing, Fed, Polled, FedSelecting
  <2>3. link'.at = "read" => link'.port \in Ports
    BY <1>7, LinkMoves DEF LinkTask, LinkStep
  <2>4. QED
    BY <2>1, <2>2, <2>3 DEF BytesAreKnown
<1>8. QED
  BY <1>1, <1>2, <1>3, <1>4, <1>5, <1>6, <1>7, NextSplits

-------------------------------------------------------------------------------
(* The request for a grammar, and the fresh start. *)

\* What a step of the link task does to the request.
LEMMA RequestKeepsTravelling == LinkInv /\ Next => RequestTravels'
<1> SUFFICES ASSUME LinkInv, Next PROVE RequestTravels'
  OBVIOUS
<1> USE DEF LinkInv, comm, asked, ghosts
<1>1. ASSUME UNCHANGED <<next, switch, want, link, fe, claims>>
      PROVE  RequestTravels'
  BY <1>1 DEF RequestTravels
<1>2. ASSUME NEW f, SetFrontend(f), link'.at = "start" => ~claims' PROVE RequestTravels'
  BY <1>2 DEF RequestTravels, SetFrontend
<1>3. ASSUME NEW p \in Ports, Connect(p) \/ Disconnect(p) \/ Send(p) \/ Release(p)
      PROVE  RequestTravels'
  BY <1>1, <1>3 DEF Connect, Disconnect, Send, Release
<1>4. ASSUME NEW c \in Callers, CallStep(c) PROVE RequestTravels'
  <2>1. CASE Restart(c)
    BY <1>2, <2>1 DEF Restart, RequestTravels
  <2>2. CASE ~Restart(c)
    BY <1>1, <1>4, <2>2 DEF CallStep, TryBind, Place, Unmute, Down, Detach, Offer
  <2>3. QED
    BY <2>1, <2>2
<1>5. CASE MainStep
  <2>1. ASSUME NEW f \in Modes, ModeSet(f) PROVE RequestTravels'
    BY <1>2, <2>1 DEF ModeSet, RequestTravels
  <2>2. CASE BootBind \/ \E t \in Manual : LinkSet(t)
    BY <1>1, <2>2 DEF BootBind, LinkSet
  <2>3. QED
    BY <1>5, <2>1, <2>2 DEF MainStep
<1>6. CASE LinkTask
  <2> USE LinkMoves DEF RequestTravels, LinkAt
  <2>1. CASE NoSwitch \/ Polled
    BY <2>1 DEF NoSwitch, Polled
  <2>2. CASE TakeSwitch
    BY <2>2 DEF TakeSwitch
  <2>3. CASE Released
    BY <2>3 DEF Released
  <2>4. CASE ReleaseFails
    BY <2>4 DEF ReleaseFails
  <2>5. CASE Start
    BY <2>5 DEF Start
  <2>6. ASSUME NEW c \in Clients, Read(c) PROVE RequestTravels'
    BY <2>6 DEF Read
  <2>7. CASE ReadNothing \/ Fed \/ Look
    BY <2>7 DEF ReadNothing, Fed, Look
  <2>8. ASSUME NEW f \in Modes, FedSelecting(f) PROVE RequestTravels'
    BY <1>2, <2>8 DEF FedSelecting
  <2>9. QED
    BY <1>6, <2>1, <2>2, <2>3, <2>4, <2>5, <2>6, <2>7, <2>8 DEF LinkTask, LinkStep
<1>7. QED
  BY <1>3, <1>4, <1>5, <1>6, NextSplits

LEMMA RestartKeepsTravelling == LinkInv /\ Next => RestartTravels'
<1> SUFFICES ASSUME LinkInv, Next PROVE RestartTravels'
  OBVIOUS
<1> USE DEF LinkInv, comm, asked, ghosts
<1>0. Main \in Callers /\ Ports \subseteq Callers
  BY DEF Callers
<1>1. ASSUME NEW c \in Callers, calls[c].at # "restart",
             \A d \in Callers : d # c => calls'[d] = calls[d],
             UNCHANGED <<talk, lost, switch, link>>
      PROVE  RestartTravels'
  BY <1>1 DEF RestartTravels
<1>2. ASSUME NEW p \in Ports, Connect(p) \/ Disconnect(p) PROVE RestartTravels'
  <2>1. /\ calls[p].at # "restart"
        /\ \A d \in Callers : d # p => calls'[d] = calls[d]
    BY <1>0, <1>2, CallsTyped DEF Connect, Disconnect, At
  <2>2. QED
    BY <1>0, <1>1, <1>2, <2>1 DEF Connect, Disconnect
<1>3. ASSUME NEW p \in Ports, Send(p) PROVE RestartTravels'
  BY <1>3 DEF Send, RestartTravels
<1>4. ASSUME NEW p \in Ports, Release(p) PROVE RestartTravels'
  BY <1>0, <1>1, <1>4, Moves DEF Release, At
<1>5. ASSUME NEW c \in Callers, CallStep(c) PROVE RestartTravels'
  <2>1. CASE Down(c)
    <3>1. calls'[c].at = "restart"
      BY <2>1, Moves DEF Down
    <3>2. QED
      BY <3>1 DEF RestartTravels
  <2>2. CASE Restart(c)
    BY <2>2 DEF Restart, SetFrontend, RestartTravels
  <2>3. CASE TryBind(c) \/ Place(c) \/ Unmute(c) \/ Detach(c)
    BY <1>1, <2>3, Moves DEF TryBind, Place, Unmute, Detach, At
  <2>4. CASE Offer(c)
    <3>1. \A d \in Callers : d # c => calls'[d] = calls[d]
      <4>1. CASE \E q \in Ports \ {calls[c].held} : connected[q]
        BY <2>4, <4>1, CallsTyped DEF Offer
      <4>2. QED
        BY <2>4, <4>1, Moves DEF Offer
    <3>2. QED
      BY <1>1, <2>4, <3>1 DEF Offer, At
  <2>5. QED
    BY <1>5, <2>1, <2>2, <2>3, <2>4 DEF CallStep
<1>6. CASE MainStep
  <2>1. CASE BootBind \/ \E t \in Manual : LinkSet(t)
    <3>1. /\ calls[Main].at # "restart"
          /\ \A d \in Callers : d # Main => calls'[d] = calls[d]
      BY <1>0, <2>1, CallsTyped, Moves DEF BootBind, LinkSet, At
    <3>2. QED
      BY <1>0, <1>1, <2>1, <3>1 DEF BootBind, LinkSet
  <2>2. ASSUME NEW f \in Modes, ModeSet(f) PROVE RestartTravels'
    BY <2>2 DEF ModeSet, SetFrontend, RestartTravels
  <2>3. QED
    BY <1>6, <2>1, <2>2 DEF MainStep
<1>7. CASE LinkTask
  <2> USE LinkMoves DEF RestartTravels, LinkAt
  <2>1. CASE NoSwitch \/ Polled \/ Look \/ ReadNothing \/ Fed
    BY <2>1 DEF NoSwitch, Polled, Look, ReadNothing, Fed
  <2>2. CASE TakeSwitch \/ Released
    BY <2>2
  <2>3. CASE ReleaseFails
    BY <2>3 DEF ReleaseFails
  <2>4. CASE Start
    BY <2>4 DEF Start
  <2>5. ASSUME NEW c \in Clients, Read(c) PROVE RestartTravels'
    <3>1. c \notin lost
      BY <2>5 DEF Read, BytesAreKnown
    <3>2. QED
      BY <2>5, <3>1 DEF Read
  <2>6. ASSUME NEW f \in Modes, FedSelecting(f) PROVE RestartTravels'
    BY <2>6 DEF FedSelecting, SetFrontend
  <2>7. QED
    BY <1>7, <2>1, <2>2, <2>3, <2>4, <2>5, <2>6 DEF LinkTask, LinkStep
<1>8. QED
  BY <1>2, <1>3, <1>4, <1>5, <1>6, <1>7, NextSplits

-------------------------------------------------------------------------------
(* Whoever waits for the link, and the port that holds it. *)

\* The link task, the shell's MODE and a Send leave the threads and the link's
\* port alone.
LEMMA OthersStand ==
  ASSUME LinkInv,
         LinkTask \/ (\E f \in Modes : ModeSet(f)) \/ (\E p \in Ports : Send(p))
  PROVE  /\ UNCHANGED <<calls, port, connected, parked>>
         /\ \A p \in Ports : muted'[p] => muted[p]
<1> USE DEF comm, asked, ghosts
<1>1. UNCHANGED <<calls, port, connected, parked>>
  BY DEF LinkTask, LinkStep, NoSwitch, TakeSwitch, Released, ReleaseFails,
         Start, Look, Read, ReadNothing, Fed, Polled, FedSelecting, ModeSet, Send
<1>2. CASE Start
  BY <1>1, <1>2 DEF Start
<1>3. CASE ~Start
  <2>1. UNCHANGED muted
    BY <1>3 DEF LinkTask, LinkStep, NoSwitch, TakeSwitch, Released, ReleaseFails,
                Look, Read, ReadNothing, Fed, Polled, FedSelecting, ModeSet, Send
  <2>2. QED
    BY <1>1, <2>1
<1>4. QED
  BY <1>2, <1>3

LEMMA OfferKeepsTravelling == LinkInv /\ Next => OfferTravels'
<1> SUFFICES ASSUME LinkInv, Next PROVE OfferTravels'
  OBVIOUS
<1> USE Apart DEF LinkInv, comm, asked, ghosts
<1>0. Main \in Callers /\ Ports \subseteq Callers
  BY DEF Callers
<1>1. ASSUME NEW c \in Callers, calls[c].at \notin {"boot", "bind", "place", "offer"},
             \A d \in Callers : d # c => calls'[d] = calls[d],
             \A p \in Ports : connected'[p] => connected[p],
             UNCHANGED <<port, parked>>
      PROVE  OfferTravels'
  BY <1>1 DEF OfferTravels
<1>2. ASSUME NEW p \in Ports, Connect(p) PROVE OfferTravels'
  <2>1. calls'[p].at = "bind"
    BY <1>0, <1>2, CallsTyped DEF Connect
  <2>2. QED
    BY <1>0, <2>1 DEF OfferTravels
<1>3. ASSUME NEW p \in Ports, Disconnect(p) PROVE OfferTravels'
  <2>1. /\ calls[p].at = "idle"
        /\ \A d \in Callers : d # p => calls'[d] = calls[d]
    BY <1>0, <1>3, CallsTyped DEF Disconnect, At
  <2>2. \A q \in Ports : connected'[q] => connected[q]
    BY <1>3 DEF Disconnect, TypeOK
  <2>3. QED
    BY <1>0, <1>1, <1>3, <2>1, <2>2 DEF Disconnect
<1>4. ASSUME NEW p \in Ports, Release(p) PROVE OfferTravels'
  BY <1>0, <1>1, <1>4, Moves DEF Release, At
<1>5. ASSUME NEW c \in Callers, CallStep(c) PROVE OfferTravels'
  <2>1. CASE TryBind(c)
    BY <2>1, Moves DEF TryBind, OfferTravels
  <2>2. CASE Place(c)
    BY <2>2 DEF Place, At, ThreadsKnow, Ports, OfferTravels
  <2>3. CASE Unmute(c) \/ Down(c) \/ Restart(c)
    BY <1>1, <2>3, Moves DEF Unmute, Down, Restart, At
  <2>4. CASE Detach(c)
    <3>1. CASE calls[c].to = NoPort
      <4>1. calls'[c].at = "offer" /\ calls'[c].held = calls[c].held
        BY <2>4, <3>1, Moves DEF Detach
      <4>2. ASSUME NEW p \in Ports, connected'[p], p \notin parked'
            PROVE  calls[c].held # p
        BY <2>4, <3>1, <4>2 DEF Detach, At, ThreadsKnow, Leaving, Callers
      <4>3. QED
        BY <4>1, <4>2 DEF OfferTravels
    <3>2. CASE calls[c].to # NoPort
      <4>1. calls'[c].at = "place"
        BY <2>4, <3>2, Moves DEF Detach
      <4>2. QED
        BY <4>1 DEF OfferTravels
    <3>3. QED
      BY <3>1, <3>2
  <2>5. CASE Offer(c)
    <3>1. CASE \E q \in Ports \ {calls[c].held} : connected[q]
      <4>1. calls'[c].at = "bind"
        BY <2>5, <3>1, CallsTyped DEF Offer
      <4>2. QED
        BY <4>1 DEF OfferTravels
    <3>2. CASE ~ \E q \in Ports \ {calls[c].held} : connected[q]
      <4>1. /\ calls[c].at = "offer"
            /\ \A d \in Callers : d # c => calls'[d] = calls[d]
            /\ UNCHANGED <<port, connected, parked>>
        BY <2>5, <3>2, Moves DEF Offer, At
      <4>2. QED
        BY <3>2, <4>1 DEF OfferTravels
    <3>3. QED
      BY <3>1, <3>2
  <2>6. QED
    BY <1>5, <2>1, <2>2, <2>3, <2>4, <2>5 DEF CallStep
<1>6. CASE BootBind
  <2>1. CASE connected[Usb] \/ connected[Ble]
    <3>1. calls'[Main].at = "bind"
      BY <1>0, <1>6, <2>1, CallsTyped DEF BootBind
    <3>2. QED
      BY <1>0, <3>1 DEF OfferTravels
  <2>2. CASE ~(connected[Usb] \/ connected[Ble])
    BY <1>6, <2>2 DEF BootBind, OfferTravels, Ports
  <2>3. QED
    BY <2>1, <2>2
<1>7. ASSUME NEW t \in Manual, LinkSet(t) PROVE OfferTravels'
  <2>1. /\ calls[Main].at = "idle"
        /\ \A d \in Callers : d # Main => calls'[d] = calls[d]
    BY <1>0, <1>7, CallsTyped DEF LinkSet, At
  <2>2. QED
    BY <1>0, <1>1, <1>7, <2>1 DEF LinkSet
<1>8. CASE LinkTask \/ (\E f \in Modes : ModeSet(f)) \/ (\E p \in Ports : Send(p))
  BY <1>8, OthersStand DEF OfferTravels
<1>9. QED
  BY <1>2, <1>3, <1>4, <1>5, <1>6, <1>7, <1>8, NextSplits DEF MainStep

LEMMA MuteKeepsTravelling == LinkInv /\ Next => MuteTravels'
<1> SUFFICES ASSUME LinkInv, Next PROVE MuteTravels'
  OBVIOUS
<1> USE Apart DEF LinkInv, comm, asked, ghosts
<1>0. Main \in Callers /\ Ports \subseteq Callers /\ port \in Ports \cup {NoPort}
  BY DEF Callers, TypeOK
<1>1. ASSUME NEW c \in Callers, calls[c].at \notin {"restart", "detach", "unmute"},
             \A d \in Callers : d # c => calls'[d] = calls[d],
             UNCHANGED <<port, muted>>
      PROVE  MuteTravels'
  BY <1>1 DEF MuteTravels
<1>2. ASSUME NEW p \in Ports, Connect(p) \/ Disconnect(p) PROVE MuteTravels'
  <2>1. /\ calls[p].at = "idle"
        /\ \A d \in Callers : d # p => calls'[d] = calls[d]
    BY <1>0, <1>2, CallsTyped DEF Connect, Disconnect, At
  <2>2. QED
    BY <1>0, <1>1, <1>2, <2>1 DEF Connect, Disconnect
<1>3. ASSUME NEW p \in Ports, Release(p) PROVE MuteTravels'
  BY <1>0, <1>1, <1>3, Moves DEF Release, At
<1>4. ASSUME NEW c \in Callers, CallStep(c) PROVE MuteTravels'
  <2>1. CASE TryBind(c)
    BY <1>1, <2>1, Moves DEF TryBind, At
  <2>2. CASE Place(c)
    <3>1. calls'[c].at = "unmute" /\ calls'[c].to = port'
      BY <2>2, Moves DEF Place
    <3>2. QED
      BY <3>1 DEF MuteTravels
  <2>3. CASE Unmute(c)
    <3>1. CASE port = calls[c].to
      BY <1>0, <2>3, <3>1 DEF Unmute, MuteTravels, TypeOK
    <3>2. CASE port # calls[c].to
      <4>1. port # NoPort => muted'[port] = muted[port]
        BY <1>0, <2>3, <3>2 DEF Unmute, TypeOK
      <4>2. \A d \in Callers : d # c => calls'[d] = calls[d]
        BY <2>3, Moves DEF Unmute
      <4>3. QED
        BY <2>3, <3>2, <4>1, <4>2 DEF Unmute, At, MuteTravels
    <3>3. QED
      BY <3>1, <3>2
  <2>4. CASE Down(c) \/ Restart(c)
    <3>1. calls'[c].at \in {"restart", "detach"}
      BY <2>4, Moves DEF Down, Restart
    <3>2. QED
      BY <3>1 DEF MuteTravels
  <2>5. CASE Detach(c)
    BY <2>5 DEF Detach, MuteTravels
  <2>6. CASE Offer(c)
    <3>1. \A d \in Callers : d # c => calls'[d] = calls[d]
      <4>1. CASE \E q \in Ports \ {calls[c].held} : connected[q]
        BY <2>6, <4>1, CallsTyped DEF Offer
      <4>2. QED
        BY <2>6, <4>1, Moves DEF Offer
    <3>2. QED
      BY <1>1, <2>6, <3>1 DEF Offer, At
  <2>7. QED
    BY <1>4, <2>1, <2>2, <2>3, <2>4, <2>5, <2>6 DEF CallStep
<1>5. CASE BootBind \/ \E t \in Manual : LinkSet(t)
  <2>1. /\ calls[Main].at \in {"boot", "idle"}
        /\ \A d \in Callers : d # Main => calls'[d] = calls[d]
    BY <1>0, <1>5, CallsTyped, Moves DEF BootBind, LinkSet, At
  <2>2. QED
    BY <1>0, <1>1, <1>5, <2>1 DEF BootBind, LinkSet
<1>6. CASE LinkTask \/ (\E f \in Modes : ModeSet(f)) \/ (\E p \in Ports : Send(p))
  BY <1>0, <1>6, OthersStand DEF MuteTravels
<1>7. QED
  BY <1>2, <1>3, <1>4, <1>5, <1>6, NextSplits DEF MainStep

-------------------------------------------------------------------------------
(* The theorems. *)

LEMMA LinkKeeps == Spec => []LinkInv
<1>1. LinkInv /\ [Next]_vars => LinkInv'
  <2> SUFFICES ASSUME LinkInv, [Next]_vars PROVE LinkInv'
    OBVIOUS
  <2>1. CASE Next
    <3>1. TypeOK'
      BY <2>1, TransportTyped, CallStepTyped, MainTyped, LinkTaskTyped
      DEF Next, MainStep, LinkTask
    <3>2. QED
      BY <2>1, <3>1, ThreadsKeepKnowing, BytesKeepKnown, RequestKeepsTravelling,
         RestartKeepsTravelling, OfferKeepsTravelling, MuteKeepsTravelling
      DEF LinkInv
  <2>2. CASE UNCHANGED vars
    BY <2>2 DEF vars, asked, comm, ghosts, LinkInv, TypeOK, ThreadsKnow,
                BytesAreKnown, RequestTravels, RestartTravels, OfferTravels,
                MuteTravels
  <2>3. QED
    BY <2>1, <2>2
<1>2. QED
  BY <1>1, InitLink, PTL DEF Spec

\* Types of the link, the ports, the link task and the threads that move the
\* link (main.c, vif.c, comm_iface.c).
THEOREM LinkTyped == Spec => []TypeOK
BY LinkKeeps, PTL DEF LinkInv

\* What runs on the link once it has settled is what was asked for last, and it
\* remembers nothing of a client whose port was drained (vif_link_service(),
\* vif_link_down()).
THEOREM LinkCurrent == Spec => []LinkIsCurrent
<1>1. LinkInv => LinkIsCurrent
  BY DEF LinkInv, LinkIsCurrent, NewestGrammarWins, ConversationEnds, Settled,
         LinkAt, At, RequestTravels, RestartTravels
<1>2. QED
  BY <1>1, LinkKeeps, PTL

\* Nobody who connected while the link was taken is left waiting when it is
\* free, and the port that holds it is not left muted (link_offer_elsewhere()
\* against link_try_bind(), vif_link_set_port()).
THEOREM LinkOffered == Spec => []LinkIsOffered
<1>1. LinkInv => LinkIsOffered
  <2> SUFFICES ASSUME LinkInv PROVE TypeOK /\ NobodyLeftWaiting /\ HolderMayTalk
    BY DEF LinkIsOffered
  <2>1. AllIdle => \A c \in Callers : calls[c].at = "idle"
    BY DEF AllIdle, At
  <2>2. NobodyLeftWaiting
    BY <2>1 DEF LinkInv, OfferTravels, NobodyLeftWaiting
  <2>3. HolderMayTalk
    BY <2>1 DEF LinkInv, MuteTravels, HolderMayTalk
  <2>4. TypeOK
    BY DEF LinkInv
  <2>5. QED
    BY <2>2, <2>3, <2>4
<1>2. QED
  BY <1>1, LinkKeeps, PTL

\* No grammar is started while a bus that the one before it opened is up
\* (link_apply_frontend()).
THEOREM StartsAreFresh == Spec => FreshStart
<1>1. LinkInv /\ [Next]_vars => [fe' \notin {fe, NoGrammar} => ~claims]_vars
  <2> SUFFICES ASSUME LinkInv, Next, fe' \notin {fe, NoGrammar} PROVE ~claims
    OBVIOUS
  <2>1. Start
    BY DEF Next, TransportStep, Connect, Disconnect, Send, Release, CallStep, TryBind,
           Place, Unmute, Down, Restart, Detach, Offer, BootBind, LinkSet, ModeSet,
           LinkStep, NoSwitch, TakeSwitch, Released, ReleaseFails, Look, Read,
           ReadNothing, Fed, Polled, FedSelecting
  <2>2. QED
    BY <2>1 DEF Start, LinkAt, LinkInv, RequestTravels
<1>2. QED
  BY <1>1, LinkKeeps, PTL DEF Spec, FreshStart

===============================================================================
