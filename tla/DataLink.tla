------------------------------ MODULE DataLink ------------------------------
(***************************************************************************)
(* The one data link and who gets it.                                      *)
(*                                                                         *)
(* main.c binds the link to whichever transport connects first and hands   *)
(* it back when that client leaves; vif.c's link task reads the bound port *)
(* and feeds the installed grammar; comm_iface.c mutes and drains a port   *)
(* whose client has gone.  The link's port is written by the USB task, the *)
(* Bluetooth host task and app_main, which ends up as the shell.  None of  *)
(* them waits for another or for the link task, so every call below is a   *)
(* sequence of steps that the others may come between.                     *)
(*                                                                         *)
(* A client is a transport and the number of its connection.  What it      *)
(* sends is not modelled, only whose bytes are where: unread in a port, in *)
(* the chunk being fed, or in what the grammar keeps between chunks.       *)
(* vif_owner_service(), the first call of the service pass, is VifClaims.  *)
(***************************************************************************)
EXTENDS Naturals, FiniteSets

CONSTANTS Usb, Ble,       \* the two transports, and their threads
          Main,           \* app_main's thread, which becomes the shell
          NoPort,         \* COMM_INVALID_PORT_ID
          Grammars,       \* the registered front-ends
          Default,        \* the one vif_link_start() was given
          NoGrammar,      \* NULL
          MaxClients,     \* bound: connections per transport
          Manual,         \* what the shell may name to link_set()
          Modes,          \* what MODE or a command may select
          Talkers         \* bound: the transports whose clients send

ASSUME PortsAreApart == Cardinality({Usb, Ble, Main, NoPort}) = 4
ASSUME DefaultIsRegistered == Default \in Grammars /\ NoGrammar \notin Grammars
ASSUME InputsAreKnown == /\ Manual \subseteq {Usb, Ble, NoPort}
                         /\ Modes \subseteq Grammars
                         /\ Talkers \subseteq {Usb, Ble}
ASSUME ClientsAreBounded == MaxClients \in [{Usb, Ble} -> Nat \ {0}]

VARIABLES
    port,        \* g.link.port
    fe,          \* g.link.fe
    next,        \* g.link.fe_next
    switch,      \* g.link.fe_switch
    muted,       \* comm_iface: port_t.muted
    rx,          \* comm_iface: whose bytes each port's ring buffer holds
    connected,   \* line_status[0] and ble_uart's connected
    client,      \* the number of each transport's latest connection
    claims,      \* the link has a bus open
    talk,        \* the clients whose bytes the grammar's own state came from
    link,        \* the link task: its place and its locals
    calls,       \* what each other thread is in the middle of
    want,        \* history: the argument of the last vif_link_set_frontend()
    lost,        \* history: clients whose own thread has drained their port
    parked       \* history: transports "link none" has taken the link off

comm   == <<muted, rx, connected, client>>
asked  == <<next, switch, want>>
ghosts == <<lost, parked>>
vars == <<port, fe, asked, comm, claims, talk, link, calls, ghosts>>

Ports   == {Usb, Ble}
Callers == Ports \cup {Main}
Client(p) == <<p, client[p]>>
Clients   == {c \in Ports \X (1 .. MaxClients[Usb] + MaxClients[Ble]) :
                c[2] <= MaxClients[c[1]]}
Idle    == [at |-> "idle", held |-> NoPort, to |-> NoPort]
NoBody  == <<NoPort, 0>>
Top     == [at |-> "service", next |-> NoGrammar, port |-> NoPort,
            work |-> NoBody]
AtPort  == [Top EXCEPT !.at = "look"]

\* vif_link_start() has asked for the default grammar and made the task;
\* links_setup() is about to look at who is already there.
Init ==
    /\ port = NoPort /\ fe = NoGrammar
    /\ next = Default /\ switch = TRUE /\ want = Default
    /\ muted = [p \in Ports |-> FALSE] /\ rx = [p \in Ports |-> {}]
    /\ connected \in [Ports -> BOOLEAN]
    /\ client = [p \in Ports |-> IF connected[p] THEN 1 ELSE 0]
    /\ claims = FALSE /\ talk = {} /\ link = Top
    /\ calls = [c \in Callers |-> IF c = Main THEN [Idle EXCEPT !.at = "boot"]
                                              ELSE Idle]
    /\ lost = {} /\ parked = {}

At(c, place)   == calls[c].at = place
Goto(c, place) == calls' = [calls EXCEPT ![c].at = place]
Done(c)        == calls' = [calls EXCEPT ![c] = Idle]
SetFrontend(f) == next' = f /\ switch' = TRUE /\ want' = f

-----------------------------------------------------------------------------
(* The transports report their edges from their own thread, and deliver    *)
(* what a client sends from it too.                                        *)

\* The flag is set before the callback is called.
Connect(p) ==
    /\ At(p, "idle") /\ ~connected[p] /\ client[p] < MaxClients[p]
    /\ connected' = [connected EXCEPT ![p] = TRUE]
    /\ client' = [client EXCEPT ![p] = @ + 1]
    /\ parked' = parked \ {p}
    /\ calls' = [calls EXCEPT ![p] = [at |-> "bind", held |-> NoPort, to |-> p]]
    /\ UNCHANGED <<port, fe, asked, muted, rx, claims, talk, link, lost>>

Disconnect(p) ==
    /\ At(p, "idle") /\ connected[p]
    /\ connected' = [connected EXCEPT ![p] = FALSE]
    /\ calls' = [calls EXCEPT ![p] = [at |-> "leave", held |-> p, to |-> NoPort]]
    /\ UNCHANGED <<port, fe, asked, muted, rx, client, claims, talk, link,
                   ghosts>>

\* A full ring buffer drops the bytes instead, which is a Send that never was.
Send(p) ==
    /\ At(p, "idle") /\ connected[p]
    /\ rx' = [rx EXCEPT ![p] = @ \cup {Client(p)}]
    /\ UNCHANGED <<port, fe, asked, muted, connected, client, claims, talk,
                   link, calls, ghosts>>

-----------------------------------------------------------------------------
(* main.c                                                                  *)

\* A transport that connected before its callback was set reported no edge.
BootBind ==
    /\ At(Main, "boot")
    /\ IF connected[Usb] \/ connected[Ble]
       THEN calls' = [calls EXCEPT ![Main] =
                [at |-> "bind", held |-> NoPort,
                 to |-> IF connected[Usb] THEN Usb ELSE Ble]]
       ELSE Done(Main)
    /\ UNCHANGED <<port, fe, asked, comm, claims, talk, link, ghosts>>

\* The link is looked at here and taken two steps later, with no lock held.
TryBind(c) ==
    /\ At(c, "bind")
    /\ IF port = NoPort THEN Goto(c, "place") ELSE Done(c)
    /\ UNCHANGED <<port, fe, asked, comm, claims, talk, link, ghosts>>

\* Mutant: the thread's own port, whichever it was asked to bind.
PlaceOwn(c) ==
    /\ At(c, "place")
    /\ port' = c /\ Goto(c, "unmute")
    /\ parked' = parked \ {calls[c].to}
    /\ UNCHANGED <<fe, asked, comm, claims, talk, link, lost>>

\* vif_link_set_port() with a port: under the lock, then un-muted after it.
Place(c) ==
    /\ At(c, "place")
    /\ port' = calls[c].to /\ Goto(c, "unmute")
    /\ parked' = parked \ {calls[c].to}
    /\ UNCHANGED <<fe, asked, comm, claims, talk, link, lost>>

\* Mutant: vif_link_set_port() leaves the mute to frontend_start().
UnmuteLater(c) ==
    /\ At(c, "unmute") /\ Done(c)
    /\ UNCHANGED <<port, fe, asked, comm, claims, talk, link, ghosts>>

Unmute(c) ==
    /\ At(c, "unmute")
    /\ muted' = [muted EXCEPT ![calls[c].to] = FALSE] /\ Done(c)
    /\ UNCHANGED <<port, fe, asked, rx, connected, client, claims, talk, link,
                   ghosts>>

\* link_release(): a client that never held the link just goes.
Release(p) ==
    /\ At(p, "leave")
    /\ IF port = p THEN Goto(p, "down") ELSE Done(p)
    /\ UNCHANGED <<port, fe, asked, comm, claims, talk, link, ghosts>>

LinkSet(t) ==
    /\ At(Main, "idle") /\ t \in Manual /\ port # t
    /\ calls' = [calls EXCEPT ![Main] =
            [at |-> IF port = NoPort THEN "place" ELSE "down",
             held |-> port, to |-> t]]
    /\ UNCHANGED <<port, fe, asked, comm, claims, talk, link, ghosts>>

\* vif_link_down(): comm_port_client_gone() on the link's port as it is now,
\* which is nobody's if another thread has let go in between ...
Down(c) ==
    /\ At(c, "down")
    /\ IF port \in Ports
       THEN /\ muted' = [muted EXCEPT ![port] = TRUE]
            /\ rx' = [rx EXCEPT ![port] = {}]
       ELSE UNCHANGED <<muted, rx>>
    /\ lost' = IF c = port /\ c \in Talkers THEN lost \cup {Client(c)} ELSE lost
    /\ Goto(c, "restart")
    /\ UNCHANGED <<port, fe, asked, connected, client, claims, talk, link,
                   parked>>

\* Mutant: the default grammar is not reinstalled over itself.
RestartIfOther(c) ==
    /\ At(c, "restart")
    /\ IF fe = Default THEN UNCHANGED asked ELSE SetFrontend(Default)
    /\ Goto(c, "detach")
    /\ UNCHANGED <<port, fe, comm, claims, talk, link, ghosts>>

\* ... and then the default grammar, whatever is installed.
Restart(c) ==
    /\ At(c, "restart")
    /\ SetFrontend(Default) /\ Goto(c, "detach")
    /\ UNCHANGED <<port, fe, comm, claims, talk, link, ghosts>>

Detach(c) ==
    /\ At(c, "detach")
    /\ port' = NoPort
    /\ Goto(c, IF calls[c].to = NoPort THEN "offer" ELSE "place")
    /\ parked' = IF c = Main /\ calls[c].to = NoPort
                 THEN parked \cup {calls[c].held} ELSE parked
    /\ UNCHANGED <<fe, asked, comm, claims, talk, link, lost>>

\* Mutant: the link is only let go.
OfferNobody(c) ==
    /\ At(c, "offer") /\ Done(c)
    /\ UNCHANGED <<port, fe, asked, comm, claims, talk, link, ghosts>>

\* link_offer_elsewhere(): to the other transport, if it has a client now.
Offer(c) ==
    /\ At(c, "offer")
    /\ IF \E q \in Ports \ {calls[c].held} : connected[q]
       THEN calls' = [calls EXCEPT ![c] =
                [at |-> "bind", held |-> NoPort,
                 to |-> CHOOSE q \in Ports \ {calls[c].held} : connected[q]]]
       ELSE Done(c)
    /\ UNCHANGED <<port, fe, asked, comm, claims, talk, link, ghosts>>

\* MODE, from the shell or from a phone's control characteristic.
ModeSet(f) ==
    /\ \E c \in {Main, Ble} : At(c, "idle")
    /\ SetFrontend(f)
    /\ UNCHANGED <<port, fe, comm, claims, talk, link, calls, ghosts>>

-----------------------------------------------------------------------------
(* The link task.  Steps that touch only what no other thread reads (fe,    *)
(* claims, what the grammar keeps) are taken together with the next that   *)
(* does.                                                                   *)

LinkAt(place) == link.at = place

\* No switch is outstanding: on to the port.
NoSwitch ==
    /\ LinkAt("service") /\ ~switch
    /\ link' = AtPort
    /\ UNCHANGED <<port, fe, asked, comm, claims, talk, calls, ghosts>>

\* The request is taken under the lock and applied outside it; stop() is next.
TakeSwitch ==
    /\ LinkAt("service") /\ switch
    /\ switch' = FALSE
    /\ link' = [link EXCEPT !.at = "stop", !.next = next]
    /\ UNCHANGED <<port, fe, next, want, comm, claims, talk, calls, ghosts>>

\* stop() returns and everything the link had is released.
Released ==
    /\ LinkAt("stop")
    /\ fe' = NoGrammar /\ claims' = FALSE
    /\ link' = [link EXCEPT !.at = "start"]
    /\ UNCHANGED <<port, asked, comm, talk, calls, ghosts>>

\* Mutant: the retry overwrites a request that came during the teardown.
ReleaseFailsAndInsists ==
    /\ LinkAt("stop") /\ claims
    /\ fe' = NoGrammar
    /\ next' = link.next /\ switch' = TRUE
    /\ link' = AtPort
    /\ UNCHANGED <<port, want, comm, claims, talk, calls, ghosts>>

\* Mutant: the failure is ignored.
ReleaseFailsUnseen ==
    /\ LinkAt("stop") /\ claims
    /\ fe' = NoGrammar
    /\ link' = [link EXCEPT !.at = "start"]
    /\ UNCHANGED <<port, asked, comm, claims, talk, calls, ghosts>>

\* Mutant: nothing asks for the grammar again.
ReleaseFailsForGood ==
    /\ LinkAt("stop") /\ claims
    /\ fe' = NoGrammar
    /\ link' = AtPort
    /\ UNCHANGED <<port, asked, comm, claims, talk, calls, ghosts>>

\* The bus could not be closed.  The same grammar is asked for again, unless
\* somebody has asked since; the link is left with none.
ReleaseFails ==
    /\ LinkAt("stop") /\ claims
    /\ fe' = NoGrammar
    /\ IF switch THEN UNCHANGED <<next, switch>>
                 ELSE next' = link.next /\ switch' = TRUE
    /\ link' = AtPort
    /\ UNCHANGED <<port, want, comm, claims, talk, calls, ghosts>>

\* start() clears everything the grammar kept, and no front-end's refuses;
\* then comm_port_client_ready() on whichever port is the link's by now.
Start ==
    /\ LinkAt("start")
    /\ fe' = link.next /\ talk' = {}
    /\ muted' = [p \in Ports |-> muted[p] /\ p # port]
    /\ link' = AtPort
    /\ UNCHANGED <<port, asked, rx, connected, client, claims, calls, ghosts>>

\* Nothing to read or nobody to answer is a delay and another pass.
Look ==
    /\ LinkAt("look")
    /\ link' = IF fe = NoGrammar \/ port = NoPort THEN Top
               ELSE [Top EXCEPT !.at = "read", !.port = port]
    /\ UNCHANGED <<port, fe, asked, comm, claims, talk, calls, ghosts>>

\* A read returns the oldest bytes there are, and may leave some; they become
\* part of what the grammar keeps, and a command in them may open a bus.
\* (A chunk with two clients' bytes in it is two reads here, in a row.)
Read(c) ==
    /\ LinkAt("read") /\ c \in rx[link.port]
    /\ \A d \in rx[link.port] : c[2] <= d[2]
    /\ \E left \in {rx[link.port], rx[link.port] \ {c}} :
          rx' = [rx EXCEPT ![link.port] = left]
    /\ talk' = talk \cup {c}
    /\ claims' \in {claims, TRUE}
    /\ link' = [Top EXCEPT !.at = "feed", !.work = c]
    /\ UNCHANGED <<port, fe, asked, muted, connected, client, calls, ghosts>>

\* link_retry_pending() goes round again before poll().
AfterFeed == link' = IF switch THEN Top ELSE [Top EXCEPT !.at = "poll"]

ReadNothing ==
    /\ LinkAt("read") /\ rx[link.port] = {}
    /\ AfterFeed
    /\ UNCHANGED <<port, fe, asked, comm, claims, talk, calls, ghosts>>

Fed ==
    /\ LinkAt("feed")
    /\ AfterFeed
    /\ UNCHANGED <<port, fe, asked, comm, claims, talk, calls, ghosts>>

\* A command may select a grammar: the same request, from inside feed().
FedSelecting(f) ==
    /\ LinkAt("feed")
    /\ SetFrontend(f)
    /\ link' = Top
    /\ UNCHANGED <<port, fe, comm, claims, talk, calls, ghosts>>

Polled ==
    /\ LinkAt("poll")
    /\ link' = Top
    /\ UNCHANGED <<port, fe, asked, comm, claims, talk, calls, ghosts>>

\* Whoever the words the grammar may be writing are for: the client whose
\* bytes are being fed, or, in stop() and poll(), whoever left it something to
\* say.
Addressees == CASE LinkAt("feed") -> {link.work}
                [] LinkAt("poll") \/ (LinkAt("stop") /\ fe # NoGrammar) -> talk
                [] OTHER -> {}

\* vif_link_write() goes to the link's port as it is now, and
\* comm_port_write() drops what is for a muted or an unconnected one.
Heard == port # NoPort /\ ~muted[port] /\ connected[port]

-----------------------------------------------------------------------------
CallStep(c) == TryBind(c) \/ Place(c) \/ Unmute(c) \/ Down(c) \/ Restart(c)
                  \/ Detach(c) \/ Offer(c)

TransportStep(p) == Connect(p) \/ Disconnect(p) \/ (p \in Talkers /\ Send(p))

LinkStep == NoSwitch \/ TakeSwitch \/ Released \/ ReleaseFails \/ Start \/ Look
              \/ ReadNothing \/ Fed \/ Polled \/ \E c \in Clients : Read(c)

Next ==
    \/ \E p \in Ports : TransportStep(p) \/ Release(p)
    \/ \E c \in Callers : CallStep(c)
    \/ BootBind
    \/ \E t \in Manual : LinkSet(t)
    \/ \E f \in Modes : ModeSet(f) \/ FedSelecting(f)
    \/ LinkStep

Spec == Init /\ [][Next]_vars

\* The tasks are scheduled; a bus that is asked to close over and over does
\* close in the end, which VifClaims takes from its drivers in the same way.
FairSpec == Spec /\ WF_vars(LinkStep) /\ SF_vars(Released)

-----------------------------------------------------------------------------
TypeOK ==
    /\ port \in Ports \cup {NoPort}
    /\ {fe, next, want} \subseteq Grammars \cup {NoGrammar}
    /\ switch \in BOOLEAN /\ claims \in BOOLEAN
    /\ muted \in [Ports -> BOOLEAN] /\ connected \in [Ports -> BOOLEAN]
    /\ \A p \in Ports : client[p] \in 0 .. MaxClients[p]
    /\ rx \in [Ports -> SUBSET Clients]
    /\ talk \subseteq Clients /\ lost \subseteq Clients
    /\ parked \subseteq Ports
    /\ link \in [at : {"service", "stop", "start", "look", "read", "feed", "poll"},
                 next : Grammars \cup {NoGrammar}, port : Ports \cup {NoPort},
                 work : Clients \cup {NoBody}]
    /\ calls \in [Callers ->
                  [at : {"idle", "boot", "bind", "place", "unmute", "leave",
                         "down", "restart", "detach", "offer"},
                   held : Ports \cup {NoPort}, to : Ports \cup {NoPort}]]

AllIdle == \A c \in Callers : At(c, "idle")
Settled == LinkAt("look") /\ ~switch

\* Requests for a grammar come from four threads and from the retry of one
\* that could not be applied: when the link task is back at its port with
\* nothing outstanding, what runs is what was asked for last (the test in
\* vif_link_service()'s second critical section, and the order of the flag and
\* the pointer in the first).
NewestGrammarWins == Settled => fe = want

\* A grammar change is a fresh start: start() is never called while a bus the
\* previous grammar opened is still up (link_apply_frontend()).
FreshStart == [][fe' \notin {fe, NoGrammar} => ~claims]_vars

\* When every thread has gone quiet and the link is free, no transport has a
\* client that was turned away and not asked again, other than one the shell
\* took the link from by name (link_offer_elsewhere() against link_try_bind()).
NobodyLeftWaiting ==
    AllIdle /\ port = NoPort => \A p \in Ports \ parked : ~connected[p]

\* A port that was muted for a departed client is un-muted by the time nobody
\* moves the link any more, whichever of the two un-mutings came last and
\* wherever the link task is (vif_link_set_port(), frontend_start()).
HolderMayTalk == AllIdle /\ port # NoPort => ~muted[port]

\* A client that was turned away is asked again, and the one that holds the link
\* may be written to (vif.c, comm_iface.c).
LinkIsOffered == TypeOK /\ NobodyLeftWaiting /\ HolderMayTalk

\* Nothing a departed client said is in the grammar's state once its restart
\* has been applied: the drain, the switch and start() cover its bytes wherever
\* the link task had got to with them (vif_link_down()).
ConversationEnds ==
    Settled /\ (\A c \in Callers : ~At(c, "restart")) => talk \cap lost = {}

\* What runs on the link once it has settled is what was asked for last, for the
\* client that is there (vif_link_service()).
LinkIsCurrent == NewestGrammarWins /\ ConversationEnds

\* The link does not stay without a grammar (the re-request above, and the
\* idle wait that paces it).
GrammarComesUp == fe = NoGrammar ~> fe # NoGrammar
\* The two of a switch: it starts clean, and it gets there (vif.c, link_apply_frontend()).
SwitchIsSafe == FreshStart /\ GrammarComesUp

\* comm_iface.c, at the mute in comm_port_write(): "The client this was
\* composed for has gone ... the one who has connected since did not ask for
\* it".  What is written reaches only whom it was composed for.
AnswersStayWithTheirClient ==
    Heard /\ Addressees # {} => Client(port) \in Addressees

\* main.c, links_setup(): "The link binds to whichever transport connects first
\* and is handed back when that one leaves."  A quiet link is not held by a
\* transport without a client.
LinkIsHandedBack == AllIdle /\ port # NoPort => connected[port]

=============================================================================
