# OpenDIAG firmware: a verification project

TLA+ models of the OpenDIAG adapter's firmware (`src/main`) and of the PC's end
of its wire (`src/j2534_driver`), the TLC configurations that check them, and
proofs checked by TLAPS.  The firmware lets
a PC or a phone talk to a car: a client connects over USB or Bluetooth, a
*front-end* (ELM327, SLCAN or J2534) interprets what it sends, and bus drivers
(CAN, K-Line, J1850 PWM and VPW) put it on the vehicle's wires.  Nearly every
part is a FreeRTOS task or a callback on somebody else's task, most waits have a
timeout, and several parts share wires and pins that must not be driven twice.
That is what the project is about; message texts, bit timing and layout are not.

## The system

| Part | Source | State it keeps | Hard because | What makes it correct | Modules |
|---|---|---|---|---|---|
| Bus claims | `vif.c` | `g.claim[]`: bus, owner, open, worker per wiring group; release and recovery requests | two owners' threads; transfers run with the lock dropped; closes fail and time out | no driver torn down under a user; wiring follows the claim; requests are carried out | `VifClaims`, `GroupLease` |
| Pins, calibration | `vif.c`, `board.c` | one high-side and one low-side pin with owners, calibration flag | calibration drives outputs for minutes outside the lock; pin 15 is also the K-Line's L line | records match outputs; no short; nothing left energised | `VifPins` |
| Link task | `vif.c` | port, front-end, requested front-end | requests from four threads; `feed()` yields; teardown fails | newest request wins; a fresh start per grammar; no lost client state | `DataLink` |
| Link arbitration | `main.c` | none of its own: acts on the link's port | USB, Bluetooth and shell threads, no lock across check and act | first connected wins; handed back; nobody forgotten | `DataLink` |
| Port multiplexer | `comm_iface.c` | ring buffer, counters, mute per port | read blocks outside the lock | answers go to the client they are for; counters tell what is there | `DataLink`, `CommPort` |
| Transmit worker | `bus_tx_worker.c`, `bus_tx.c` | state word, control word, three binary semaphores | cancel races admission; binary wake-ups collapse; close gives up | at most one transmission per submission, true report, no lost wake-up | `BusTxWorker`, `TxPromise` |
| CAN driver | `can_bus.c` | transmit pool, completion counters, receive queue | interrupt against task; bounded waits | a slot is not reused while queued; completion belongs to its message; the bus comes back | `CanBus` |
| K-Line driver | `kline.c`, `kline_codec.c` | session, echo, assembler, command queue | a task behind an API lock, with commands that time out while running | one command at a time; session ends; echo and answer not confused | `KLine`, `VifPins` |
| J1850 drivers | `j1850_*.c` | RMT channels, timers, arbitration and IFR state | interrupt callbacks during teardown, staged deletion | no callback after teardown; arbitration loser stops | `J1850` |
| ISO-TP | `isotp.c` | a receiver's and a sender's state machine | timeouts on a wrapping clock, loss, reordering | what is delivered is what was sent | `IsoTp` |
| J2534 front-end, scheduler | `j2534.c`, `j2534_scheduler.c` | channels, queues, repeated messages, one pending frame | one thread serving many deadlines over one worker | answers are true; a repeat stops when it should | `J2534` |
| J2534 wire | `j2534_wire.c`, `link.cpp`, `api.cpp` | request being assembled, answer, session | loss, time-outs and reopenings against long jobs | calls and answers belong together | `J2534Wire` |
| ELM327 | `elm327_at.c` | settings, line buffer, protocol search, reply timing | search opens and closes buses; adaptive timeouts | the prompt comes back and is honest | `Elm327`, `Elm327Timing`, `ElmReplies`, `ElmCollect`, `ElmLine` |
| SLCAN | `slcan.c` | line buffer, rate, channel | lines in pieces; the bus taken away between calls | one answer per line; rate as granted | `Slcan` |
| Bluetooth | `ble_uart.c` | connection, bonds, pairing window, advertising | host events, timers and button on different threads | only an invited phone can bond; the adapter stays reachable | `BlePairing`, `DataLink` |
| USB, button, LED, timer, board, shell | their files | line state, debouncing, patterns | little concurrency of their own | appear where they act on the parts above | |

How they meet: a transport's thread tells `main.c` of a connection, which sets
the link's port; the link task reads that port and calls the front-end's
`feed()` and `poll()`; a front-end opens buses and pins through `vif.c`, which
calls the driver's `ops` on the owner's own thread or through a transmit worker;
the shell does the same on its thread.  Anything to be undone on an owner's
behalf is *asked for* and done by that owner's thread at the top of its loop.

The modules meet at the same places.  What a module takes from another it names
in its header: `VifClaims` sees the worker of `BusTxWorker` as one step and
allows one caller at a time into a driver, which `CanBus`, `KLine` and `J1850`
rely on; `J2534` and `Elm327` take the worker as `TxPromise` has it, and
segmentation as `IsoTp` does; `Slcan` and `J2534Wire` rely on `DataLink`'s fresh start of
a grammar.

## The modules

### GroupLease and VifClaims (`vif.c`: claims)

`GroupLease` is the promise: each wiring group is leased to one owner at a time,
users enter and leave only under the lease, and it is dropped only when nobody
is inside.  `VifClaims` is the code.  `claim[g]` is `g.claim[g]`; `driver[b]` is
what the bus driver has built, `partial` after a failure; `worker[g]` is the
transmit task behind `claim[g].tx_worker`; `at` and `job` are each owner's
program counter and locals.  A step is one critical section of the claim lock,
the start or the end of a driver call, or a worker step, so that the owners
interleave exactly where the code drops the lock: `Check` (`bus_owned_by()`)
and `EnterDriver` are two steps, and `vif_bus_open()` is up to seven
(`OpenBegin`, the teardown of what was held, `OpenClaim`, `StartOk` or
`StartFail` and its cleanup, `Opened`).  `AskRelease`, `AskRecover` and
`Service` are the requests and the pass that carries them out.

Left out: calls that are refused, which change nothing; `g.task[]`, bound once
at start; the grammar a recovery asks for (see DataLink).

### VifPins (`vif.c`, `board.c`, `kline.c`: pins)

`hs` and `ls` are the records; `high` and `low` are the outputs themselves, so
that the two can disagree.  A pin call is one critical section.  The calibration
takes a step per stretch outside the lock (`CalClaim`, `CalReset`, `CalDrive`,
`CalEnd`, `CalDrop`).  The K-Line claim, its driver and its task are here as far
as they touch pin 15: the reservation is taken before `set_param()` and
committed after it (`Reserve`, `SetOnly`, `Commit`); an initialisation is handed
to the task, which reads `k_line_only` and writes the pin in two steps
(`TaskRead`, `TaskWrite`), and may outlive its caller's wait (`InitTimeout`).

### TxPromise and BusTxWorker (`bus_tx_worker.c`, `bus_tx.c`)

`TxPromise` says what submitting a message promises: between acceptance and
completion it is sent at most as the owner allowed, never once a cancellation
has taken it back, never past an unread answer if the owner asked for that.
`BusTxWorker` takes one step per access to a shared word or semaphore: the
load and the compare-exchange of `bus_tx_admit()` are two (`Admit`,
`AdmitSwap`), and so are the store of a message's state and the give that wakes
the task (`Submit`, `SubmitWake`).  Of the drivers' four `send_controlled()`
functions it keeps what they share: admission before the first byte, an end
time, an echo or completion to check after it, and retries that find the message
already admitted.  It is the worker of `VifClaims` looked at from inside, where
one step there (`WorkerDone`) is many here.

### DataLink (`main.c`, `vif.c`, `comm_iface.c`: the link)

`calls[c]` is what each thread that moves the link is in the middle of: the USB
task and the Bluetooth host task (named by their ports) and `Main`, which runs
`links_setup()` and then the shell.  `TryBind` looks at the link, `Place` and
`Unmute` are the two halves of `vif_link_set_port()`; `Release`, `Down`,
`Restart`, `Detach` and `Offer` are `link_release()` to `link_offer_elsewhere()`
with `vif_link_down()` in the middle.  The link task is `NoSwitch` to `Polled`.
A client is a transport and the number of its connection; bytes are known only
by whose they are, through the ring buffer (`rx`), the chunk in hand
(`link.work`) and the grammar's memory (`talk`).  `want`, `lost` and `parked`
are history variables.

Left out: a repeated "disconnected" with no connection before it (it finds the
link not its own); a front-end whose `start()` refuses (no registered one does);
the gap between `comm_port_write()`'s look at the mute and its write; the
service pass, which is VifClaims.  Steps of the link task that touch only what
no other thread reads are taken together.

### IsoTp (`isotp.c`)

The sending machine `tx` of one node and the receiving machine `rx` of another,
over a bus (`fwd`, `back`) that loses frames.  Every function of `isotp.c` is
called by its owner with the time, so an action is one function: `TxCheck`
(the deadlines), `TxNext` (the next frame), `TxConfirm`, `TxFlow`, and `RxFeed`,
`RxConfirm`, `RxCheck`.  A frame a machine has returned is in its owner's worker
(`txOut`, `fcOut`) until that reports.  The clock is a wrapping counter, compared
as the code compares.  `crossed` marks the one case the protocol cannot tell: a
flow control so late that the sender is on another message.  Addressing and
padding are layout and left out.

### CanBus (`can_bus.c`, `bus_tx.c`: receive epoch)

The owner's calls (`owner`), the worker's controlled send (`send`),
`can_bus_task` (`task`) and the controller's interrupts (`isr`). A send is
admitted, fills the slot of the pool, waits for room, waits for its completion
and may give up: `GivesUp` is the second look at the completion and `AbortBegin`
the silencing of the controller, and a frame may go out between the two
(`raced`). A reception is counted, then placed or recorded as lost, in two.
`seen` and `epoch` are the wrapping sequences. A close takes its stages apart
(`stopping`, `releasing`, `retained`), so that one that fails half-way is tried
again from where it stands. The controller (`node`, `flight`) is external.

### KLine (`kline.c`, `kline_codec.c`)

The task `t` owns the UART; a caller hands it a `job` and waits, and may give up
(`late`, `stuck`).  The task's loop, the quiet wait before a request
(`wait_before_tx()`), each byte of a transmission with its echo (`tx_once()`),
the retries, the wait for the reply and the keepalive are steps of their own;
the interrupt fills a ring of bytes and a queue of events beside it, and either
may overflow.  `asm` is the framing of `kline_codec.c` over two-byte messages.
`ghost` holds what only the properties read.  The patterns of an initialisation
are one step that succeeds or fails; `VifPins` has what they do to pin 15.

### J1850 (`j1850_vpw.c`, `j1850_pwm.c`, `j1850_lifecycle.c`)

Both drivers in one module, `kind` says which.  The caller opens in stages
(`res` is what is built), sends (`prepare`, the wait for a free bus in `idle`,
`watch`, `await` with `drain` after a loss, then `echo` or `silence`), closes by
way of a list of what is still to be taken down (`todo`), and changes
parameters.  The receive interrupt and the watch are admitted through the
lifecycle's gate in the code's order: count in, look at the flag, work, count out.  In VPW
the watch compares the wire with what is driven and parks the pin; in PWM it
answers a frame in its slot if the policy read when the frame began is still the
policy.  A transmission may hang, be lost to another node, or be told late.

### J2534 (`j2534.c`, `j2534_scheduler.c`)

One physical CAN channel, one logical (ISO-TP) channel and one repeated message,
all over one worker that carries one frame at a time (`pend`, `worker`).  A
polling round is `rx` (read and dispatch), `choose` (what to send next) and
`collect` (what became of it), and a client's request is served between two
rounds.  Time matters to a repeated message by the interval that follows its
newest frame, and a reception carries where in it it was stamped.

### Elm327 (`elm327_at.c`: protocols and exchanges)

`proto`, `bus`, `link` and `hdr` are the protocol number, the bus held, the
session of the K-Line and the header in use.  The client's commands (`AT SP`,
`AT PC`, `AT Z`, initialisations, settings) are single steps taken at the prompt;
a request is a walk through `next` (which protocol the search takes next),
`ensure` (open the bus, start a session), `drain`, `send` and `collect`.  While it
collects, the vehicle may reply as often as it likes, and each reply starts the
wait again (`heard` and `more`, two places so that every reply is a step).
Protocols 10 to 12 have no driver: a request on one fails at once, or with
`AT SP Ah` searches (`NoDriver`), and a search that begins at one finds no bus
for it and goes on.  The vehicle `veh` speaks one protocol or none.  `excuse` records why a vehicle may
rightly have gone unheard (a driver that would not open, an answer that came
late), so that the completeness of a search is about everything else.

### The smaller modules

* `Elm327Timing`: the adaptive wait; the history ring (`history`), the estimate
  (`estimate`), the back-off after silence, and the measuring of answers that come
  after the prompt (`watch`).  `window_ms` and `until` are the wait of a request,
  `coming` what the vehicle has yet to answer it.  A reply starts the wait again;
  after a notice that the answer will be late (`promised`) only another notice
  does.  A search, which waits `AT ST` out, is not in it.
* `ElmReplies`: which frames count as replies on each protocol, during an
  exchange and after it.  Its state is one request and one frame; it is there to
  compare two definitions the code keeps apart (`Heard`, `LateReplyKind`).
* `ElmCollect`: one CAN request and the replies of several modules, with a pool
  of two streams and modules that fall silent.  Replies in one frame and notices
  that the answer will be late come as often as a module likes, also from one
  that was not asked; each restarts the window as it does in the code.
* `ElmLine`: the line buffer (`cmdbuf`, `cmdidx`, `overflow`), the repeat of the
  last line (`lastcmd`), the output buffer, and the bytes dropped behind a reset.
* `Slcan`: lines, rate, opening and closing, the forwarding of frames in bursts.
* `CommPort`: the ring buffer, the count of unread bytes, and the writer.
* `BlePairing`: who may connect, what is on the air, the pairing window, bonds
  and eviction.  An action of the host task is a whole event with its handler, as
  the stack runs them, and any call it makes of the stack may be refused
  (`Failing`): the stop of an advertisement, its start and its accept list, each
  reading of the bond store.  An advertisement that does not stop stays on the air
  with its list whatever is recorded; `amiss` remembers for the properties that
  this happened, or that the bonds could not be counted.  The jobs other threads
  post are read and cleared in two steps (`taken`).  The bond store is taken not to be full; an `ENC_CHANGE`
  before `CONNECT` and the restoring of keys change nothing here; the LED is left
  out; the `|=` that posts a job is one step.
* `J2534Wire`: both ends of the wire on the serial port.  The PC opens, selects
  the grammar, probes (twice if need be), opens the device, calls, closes; the
  wire may lose or spoil a frame; a broken session is left and the next one
  begins.  The adapter hands the link back in three steps (`ClientGone`: flush and
  mute, ask for the grammar a client starts with, unbind), and the next opening
  binds and un-mutes the port although the last client's job may still be at work
  and its grammar still in place: its answer then reaches the new session.  A
  grammar asked for is put in place before the next read, since the service pass
  comes first in the link task's loop, and un-mutes only a port that is bound.  It assumes what the PC's waits assume: that an adapter in no long job
  does at once what 50, 300 and 2100 ms are waited for; that the change of a
  line's state is told before the bytes that follow it; and that a long job does
  not last for `Sessions` openings.  A close that is refused is left out.

### MCParts and MCServed

Components that share no state are checked together: both modules extend their
components, `part` says whose behaviour it is, and a step is one of that
component's while the others stay as they began.  A behaviour belongs to one
component from its first state to its last, so nothing is multiplied, and one
fairness condition over the disjunction of one action of each component is, in a
behaviour, the condition on that component's action.  Nothing is claimed of the
components together that is not claimed of each: the invariants are the
components' own, and the theorems are about the components alone.  `MCServed` has
those that owe somebody something and carries the fairness; `VifClaims` is an
instance there (its variables are `x1` to `x7`), with one owner and two groups,
because groups meet only in an owner's release pass.  `RequestIsServed` is a
leads-to, from a request (`IsAsked`) to its being carried out (`IsServed`), for one
bus or for both (`whose`, chosen at the start); it is stated with a history
variable, `owed`, which is set by the one and cleared by the other, as
`[]<>~owed`.

## The runs

Several properties are conjunctions of named parts, each with its comment in the
module; the table names the parts where they are not plain from the name.

| Run | Instance | Properties and what they show |
|---|---|---|
| `vif_claims` | 2 owners, 2 buses sharing one group | type; `NobodyTornDown`, `WiringFollowsClaim`, `WorkerBelongsToClaim`, `SendersExclude`; `LeaseSpec`: claims are leases |
| `vif_pins` | 2 owners, 2 pins a side with one shared | `NothingLeftLive`, `NoShortThrough`, `LinesAreKept` (one user of the L line, reserved while used, records true outside a calibration) |
| `tx_worker` | one worker, fair | `AnswersAreTrue` (no lost submission, no lost wait, true reports), `PromiseSpec`, `StopEnds` |
| `link_talk` | 1 + 1 connections, USB sending, a second grammar, fair | `LinkIsCurrent` (newest request wins, a departed client's bytes are gone), `SwitchIsSafe` (fresh start, and it gets there) |
| `isotp` | 2 messages, loss, fair | `DeliveryIsTrue` (whole or nothing), `TransferKeepsTime` (separation kept, no transfer for ever) |
| `can_bus` | queues of 1, sequence modulo 8, fair | `TrafficIsTrue` (no slot or resource freed in use, nothing unseen sent past, true reports), `BusComesBack` |
| `j2534` | a repeat that goes on while answered | `AnswersAreTrue`, `FlowControlIsOwn`, `RepeatStops` |
| `kline` | one caller, every command but the plain one | `HandOver` (requests, results, resources, session), `WireIsHeard` (echoes judged, quiet time kept) |
| `j1850` | both drivers, one retry, fair | `DriverIsSafe` (lifecycle, wire), `CallsReturn` |
| `elm327` | 7 vehicles, 5 selections | `PromptIsHonest` (complete search, nothing left behind, no stale answer), `PromptComesBack` |
| `parts` | six components side by side | `LinkIsOffered`, `TimingIsHonest`, `RepliesAreTold`, `SpeedIsAsTold`, `PortIsTrue`, `LinesAreAnswered` |
| `served` | four components side by side, fair | `OwnersAreListed`, `AirIsKept`; `MessagesStayApart`, `CollectionEnds`; `SessionsAreClean`, `SessionsComeUp`; `RequestIsServed` |

The definitions whose comment begins "Mutant" are no part of the specification:
each is an operation with a bug it could have had, and put in place of the
operation it makes a property fail.  Every property has one, which `PROJECT.json`
names.

### Bounds

*Claims.*  Two owners are all the code has (`VIF_OWNER_COUNT`).  The safety run
gives them one group shared by two buses (the J1850 case), where they can hurt
each other; groups meet only in an owner's release pass, which `served` has with
two groups.  The theorems cover any number of all three.

*Pins.*  One of each kind: the shared one (pin 9), the L line, the
calibration's.  The theorems cover any set of pins.

*Worker.*  None: its state is finite.

*Link.*  A second connection of one transport is what "the next client" needs;
the other's one connection is enough to be turned away, offered and displaced.
Who holds the link does not depend on what is said, so the instance in `parts`
sends nothing and has one connection of each transport and the shell's override;
`link_talk` has the bytes and the grammars and leaves the override out.  The
theorems are for any number of connections.

*ISO-TP.*  The clock counts modulo 6, so that it wraps several times in a
transfer while every deadline stays below half of it, as in the code; frame
numbers modulo 3 wrap within the longest message.  Sizes 1, 4 and 5 are a single
frame, the receiver's whole buffer in two blocks, and one that does not fit.  Two
messages let the second interrupt the first.

*CAN.*  A queue of one is full at the first frame.  Sequences wrap modulo 8 and
`Lag` keeps the distance between two compared ones below half, which the code
takes for granted.

*J2534.*  Two frames of a segmented message make a first and a next one, with the flow
control between; two users in progress and one reception waiting are what a late
result needs to meet a successor.  The repeat in the run is the kind that
stops for lack of an answer; with `JobKinds = {"until", "while"}` the same properties
hold in three minutes.

*K-Line.*  Times are small numbers in the code's order (P1 and P2 below P3).  A
message is two bytes, so that a fault falls on the first, the last or between;
the ring and the event queue hold two and overflow at the third; one retry is
two attempts.  *J1850.*  One retry.

*ELM327.*  The seven vehicles cover each kind of session (none, 5 baud with known
and with unknown key bytes, fast) and, for the rest, a J1850 and a CAN protocol;
the selections asked for (0, 3, 4, 7, 11) cover automatic, the K-Line by 5 baud,
the other K-Line header, CAN, and a protocol with no driver; the rest is
reached by the search.

*Small ones.*  SLCAN and ELM lines of 3, which a line that is too long soon passes; a port of 4 bytes with a queue of 3; two phones, of which
one cannot be put on a list; three modules for two streams; one event of the
Bluetooth host task in which the stack refuses calls, any set of them
(`MaxRefusals`); sessions numbered
modulo 2, so that the next but one has the number of the first, message numbers
modulo 4 and two faults on the wire.  All of these are theorems for any numbers,
except what they owe.

Deadlock checking is off where the environment may simply stop (`link_talk`,
`isotp`, `parts`, `served`).  The liveness properties cover what must still
happen then.

### Fairness

* *VifClaims* (in `served`): a call in progress goes on (driver calls have timeouts), a
  worker's transmission ends, the service pass is not passed over for ever
  because the owner's loop starts with it, and a driver that release passes ask
  to close again and again does close in the end, which is the assumption the code
  itself makes by retrying; only the closing half of `RequestIsServed` needs it.
* *BusTxWorker*: calls return, the task runs, a driver stops retrying
  (`tx_retries` and its siblings).
* *DataLink*: the link task runs, and a release tried again and again succeeds.
* *IsoTp*: the clock runs, owners poll, drain their queues and confirm.  The wire
  and the other node may stay silent.
* *CanBus*: the task runs, and a recovery that was started ends: the controller
  counts an idle bus by itself.
* *J1850*: the caller's thread runs, interrupts are served, the transmitter ends
  or hangs (a hang is an end the caller sees), no other node talks for ever, and
  the core that takes edge interrupts also runs threads (the one strong
  condition, `SF_vars(Deletes)`: what takes the edges down runs between two of
  them).
* *Elm327*: a request in progress goes on; every wait in it has a time-out, so
  that it ends or hears something.  That the vehicle falls silent is not assumed:
  `PromptComesBack` says that a prompt which never comes means replies without end.
* *ElmCollect*: the window runs out unless a reply restarts it, and a stream
  expires unless its next frame comes.  Here too nothing is assumed of the
  modules, and `CollectionEnds` names the replies that alone can keep a request open.
* *BlePairing*, *J2534Wire*: their tasks and timers run; the PC opens
  again when a session has ended, and the adapter hears that the port was shut.

Nothing is assumed of clients, vehicles or phones, nor of the threads that
submit, ask or connect.

## Findings

Where the code disagrees with a comment or a test of its own, or with what a
formula here says it should do.  Those with a formula are stated in their module
and violated by the model; to see the trace, name the formula in the
configuration of the module's run in place of the properties there, or use the
configuration given.

* `LsBookkeepingIsTrue` (`MCVifPinsCalibrated.cfg`).  `vif_calibrate_hs()` releases its own pins under
  the lock and then lets `board_hs_ls_reset_state()` switch *everything* off
  without it.  The high side is claimed meanwhile; the low side is not.  A pin
  the link grounds in between is off with its record on.
* `ConstantsMoveWhenQuiet` (`MCVifPinsConstants.cfg`).  `vif_calibration_set()` looks under the lock and
  stores after it.
* `AnswersStayWithTheirClient` (`MCDataLinkTail.cfg`).  A client connects, sends, and leaves before
  it holds the link (it was turned away).  `link_release()` returns early,
  nothing drains the port, and the next client of that transport is answered for
  bytes it never sent.  Draining there would leave the other way:
  `vif_link_set_port()` un-mutes a port while the former client's `feed()` or
  `stop()` may still be writing, before the "point at which everything the
  previous one might still have emitted has been and gone" (`comm_iface.h`).
  `J2534Wire` has this second way (`AnswersReachTheirSession`): what a J2534
  session is given of an earlier one its probe turns away.
* `LinkIsHandedBack` (`MCDataLinkHanded.cfg`).  `links_setup()` and `link_offer_elsewhere()` look at
  a transport and then bind it.  A client that leaves in between finds that it
  does not hold the link; the binding then goes ahead, and nobody is left to
  hand it back until that transport is used again.
* `NothingUnseen` without `misled` (CanBus; `j2534.c:682`).  The report of a
  bus-off carries sequence zero and is compared like a reception; past half the
  range it sets the client's position back and its messages are refused.
* `LateCompletionSparesNewData` (`MCJ2534Late.cfg`).  A segmented message that was
  cleared while a frame was with the worker ends the next one with its result.
* `RepeatStops` with a wrapping clock (`j2534_scheduler.c:54`, no trace: the
  model's clock does not wrap).  A repeat older than 2^31 us ignores the
  reception that should end it.
* `QuietIsKept` counting the bytes of an overflow (KLine; `kline.c:784`).  A flush does
  not restart the quiet time.  Beside it, met while modelling: a client's answer
  within the window of a keepalive is thrown away (`kline.c:1656`), and an
  initialisation forgets a session that was up (`kline.c:1573`).
* `SuppressionOutlastsTheEcho`, `BreakIsServed` (J1850, PWM).  What is read
  before the wait for an idle bus is stale after it: the node's own frame is
  delivered to the client, and a break's longer separation is not kept.  And
  every echo counts as "heard", so PWM never retries (`j1850_pwm.c:675`).
* `FallbackHappens`, `RejectedLinkIsNotUsed`, `HeaderFitsLink`,
  `FoundMeansHeard` (Elm327).  `AT SP Ah` does not search after a failed
  initialisation; a session of unknown key bytes is used although it was
  refused; `AT SP 3` to `4` keeps a session the header does not fit; with `AT R0`
  a search takes the first bus that sends for found.
* `WindowLastsItsMinute`, `ForgetIsServed`, `AirComesBack` (BlePairing).  A timer that has begun
  shuts the window opened since; a job posted between the reading and the
  clearing of `g_pending_jobs` is lost; and a bond store that cannot be read once
  takes the adapter off the air, where the watchdog, which asks the same count,
  leaves it.
* Between a comment and the code only: a channel inherited from another grammar (`slcan.c:264`),
  which `link_apply_frontend()` rules out; and `vif.h`'s button that calls
  `vif_recover_all()`, which nothing in `src/main` does (`AskRecover` is kept
  because the function is public).

Smaller things that the modules state as "not so" and that no text of the
repository contradicts: the backlog of a port stays short after a client left in
the middle of a read (`BacklogIsExact`), and raising `AT ST` again uncovers what
the timing had learned before it was lowered (`PeakSurvivesST`); a CAN frame that
goes out between the second look at its completion and the silencing is reported as
aborted (`AbortedNeverWentOut`); a vehicle or a module that replies without end
keeps a request open without end (`PromptAlwaysComesBack`,
`CollectionAlwaysEnds`); an advertisement to everybody that does not stop is
recorded as the filtered one and stays (`DoorShuts`); and an owner that encrypts
its connection loses its bond if the bonds could not be numbered when it
connected, or if it was bonded meanwhile (`OwnersStay`).  Modelled as
the code has them: `AT SP h` from a found protocol leaves `auto_search` set, so `AT DPN`
still says `A`; an `S` that SLCAN refuses keeps its bit rate for the next `O`.

## What is proved

Each theorem holds for every value of the constants that satisfies the
assumptions at the head of its component's module.  Every inductive invariant
was checked by TLC before it was proved, as an invariant of the configuration of
its component's run (`SpacingFits`, which quantifies over numbers, with these
bounded): one that is not preserved shows there first.  The proofs are
in eight modules, with a lemma or a step per action: `BusProofs` (claims, CAN),
`KLineProofs` (the pins, of which one is the L line, and the driver),
`TransmitProofs` (the transmit worker, ISO-TP), `DataLinkProofs`, `J1850Proofs`,
`J2534Proofs`, `FrontEndProofs` (ELM327's protocols, the J2534 wire) and
`PartsProofs` (the smaller modules).  Every invariant that a run checks is a
theorem, and every action property or the action part of one.

**Claims** (any owners, buses, number of groups and assignment of buses to
groups):

* `ClaimsCorrect`: `Spec => []ClaimsInv`;
* `ClaimsTyped`, `NobodyIsTornDown`, `WiringIsClaimed`, `WorkersBelong` and
  `SendersAreExclusive`: the type invariant and the four safety invariants of
  `vif_claims`;
* `LeaseImplemented`: `Spec => LeaseSpec`, the refinement of `GroupLease`.

None of the four invariants is inductive: from "the claim says PWM" alone one
cannot conclude that a thread about to start VPW has already stopped PWM.
`ClaimsInv` adds what each place in an owner's code knows (inside a transfer the
claim is still mine, open and for this bus; past the join there is no worker;
past the close no driver; from `claim` on the whole group is down) and what a
group's records know of one another (an open claim's driver is up; a pending
worker's driver is up; a claim has a worker exactly when one exists).  The
argument is that every step of an owner changes only a group the owner holds, so
what the other owner knows about *its* groups is untouched.  The proof has a
step per action, grouped as `Next` is, over lemmas on how an update of one group
leaves the rest.

The refinement maps a step to `Take` (`OpenBegin` on a free group), `Enter` and
`Leave` (a thread or the worker into and out of a driver), `Drop` (`Erase`), or a
stutter (all the rest).  The hard one is `Drop`, which `GroupLease` allows only
when nobody is inside: `ClaimsInv` says that a thread at `erase` holds a claim
that is shut and has no worker, hence no owner's thread and no worker is in the
group.

**Pins** (any two owners and any sets of pins; the L line is on the low side
only, the calibration's pin on the high side only):

* `PinsCorrect`: `PinsSpec => []PinsInv`;
* `NoPinIsLeftLive`, `NoPinIsShorted`, `LinesStayKept`: the three invariants of
  `vif_pins`.

Again none is inductive.  `SidesHold` adds that the two records never name the
same pin and that a calibration has its own; `LineHolds`, that only a driver
told to use the L line and a task that saw it told drives it, and that a task
has a driver; `CallHolds`, what each place in a K-Line call knows.  The case that
needs most is a set that was refused: between `set` and `commit` the driver may
or may not have been told, and the reservation must stand if *either* the old or
the new setting uses the line.  A teardown likewise erases the reservation only
after the driver is gone and the line off.

**K-Line** (any timing, number of retries and sizes of the UART's queues):

* `KLineHolds`, `HandOverTheorem`: `Spec => []KLineInv` and `Spec => []HandOver`.

A caller and the task share one request slot, one flag for the answer and the
UART, and a caller may stop waiting for an answer, or for the task's end, while the
task goes on.  `Lives` says who may touch the UART: the task exists only while both
are up, a close frees them only after it saw the task gone, and a keepalive or a
session may outlive the wish to close but not the task.  `Works` says for whom: for
the keepalive, for the end of the session, or for the request that was taken, which
stays in the slot until it is answered.  `Owes` is the heart of it: a request that
is not answered, or an answer that is not taken, belongs to a caller who waits for
it, or the driver has been marked late (`command_blocked()`) or shut, and nobody is
let in; and nobody waits while it is marked.  So whoever is let in finds an
empty slot, no answer and a task that is not at work.  The invariant carries the
bytes of a transmission too (`Wired`), since whether it succeeded decides what is
handed back.

* `WireHolds`, `WireTheorem`: `Spec => [](KLineInv /\ Rested /\ Echoed)` and
  `Spec => []WireIsHeard`.

`Rested` is about time: the measured silence (`last_bus_us`) is never more than the
real one while the ring is empty or a transmission has the bus, because a byte that
waits unread will set it back and an overflow, which takes bytes unread, leaves it
alone.  `Echoed` is about bytes.  While one is sent (`Sending`), the echoes come
back in order (`Lined`) and the first byte once (`Once`: the second byte is driven
before the first came back only if nothing at all was heard, which is what makes
`Missing` final).  If nothing happened to them (`Clean`), what is pending and in the ring
begins with exactly the echoes not yet counted, and the queue with the notes not
yet announced, so `tx_read_echo()` never compares an echo with what follows it
and a fault behind the last echo finds all of it counted.  If one was damaged or
lost (`Doomed`), the transmission has failed, or a wrong byte stands where an echo
is looked for, or a note of the loss stands before the last echo can be announced:
either is reached before the task can decide.  Where a full queue drops a note, or
another node speaks between the bytes, no judgement is claimed.  Between
transmissions the two echoes of one message are never both left over (`Apart`), so
that the framer has no own message to deliver; a byte stuck in the UART is the
exception, and there what arrives is discarded.

**Transmit worker** (its state is finite and it has no constants, so the gain is
the argument, and the refinement step by step):

* `AnswersTheorem`: `Spec => []AnswersAreTrue`;
* `PromiseTheorem`: `Spec => PromiseSpec`, the refinement of `TxPromise`.

`WorkerInv` says what each thread knows between two accesses to what they share:
what the owner last read is still so unless a pending message is done by now
(`OwnerKnows`), a message is active only where the task has admitted it
(`TaskKnows`), a report is true from the moment it is written (`ReportStands`).
The compare-exchange of `bus_tx_admit()` maps to the promise's "start" when it
succeeds; that a cancelled message never starts follows from `control.state`
having one writer per value.

**Link** (any grammars, any number of clients on each transport, whichever talk):

* `LinkTyped`, `LinkCurrent`: types, and `LinkIsCurrent`, the invariant of
  `link_talk`;
* `LinkOffered`: `[]LinkIsOffered`, the invariant of `parts` about this component;
* `StartsAreFresh`: the action property `FreshStart`.

Nothing of this holds at one moment by itself; it is always *under way*.  So
`LinkInv` says for each promise who is carrying it: the newest request is in
`next`, in the link task's hands or running (`RequestTravels`); a grammar that
remembers a lost client has its restart in some thread, in the switch or in the
task (`RestartTravels`); a transport with a client and no link has a thread about
to ask (`OfferTravels`); a muted port that holds the link has a thread about to
un-mute it or let it go (`MuteTravels`).  The proof showed that the un-muting
does not depend on the link task having settled; `HolderMayTalk` says so now.

**ISO-TP** (any number and size of messages, time-outs, block size, separations
and clock):

* `DeliveryTheorem`: `Spec => []DeliveryIsTrue`.

A frame carries a unit, the i-th part of message m.  `StreamIsTrue` and
`GotIsOlder` say that what has been gathered, what is queued and what the
sender's worker holds are in one strictly increasing order; `PartsAreAsked`, that
a part after the first is under way only if the receiver has the first; and
`GotIsTrue`, that what has been gathered is of one message, begins with its first
part and skips nothing twice.  As many parts as the message has are then all of
them.  The queue loses and does not reorder, so this needs no sequence numbers:
they are what makes the *other* node notice a loss early.  `PartsAreAsked` and
`GotIsTrue` are claimed until a flow control has `crossed`, and so is
`WholeOrNothing`.  `DataAssumption` names a longest separation, which the code
has in the range of its `STmin` byte.

* `SpacingTheorem`: `WaitsFit => (IsoSpec => SpacingKept)`, the action property in
  `TransferKeepsTime`, with no assumption on where the clock stands or wraps.

The code keeps three times (`now`, the deadline of a flow control, the time of the
next frame) and compares them by the sign of a wrapped difference, which says
nothing of times more than half the clock apart.  `SpacingFits` therefore counts
all of them from the last consecutive frame on: while a flow control is awaited
the deadline is a bounded number of waits from there, and while a turn is awaited
the time of the next frame is at least the separation from there and less than
half the clock, with the owner's poll at most `Slack` behind.  `WaitsFit` is what
that needs: all the waits a receiver may ask for in a row take less than half the
clock (36 minutes).  The default settings, 255 waits of a second, satisfy it.  A
J2534 application that sets `N_BS_MAX` to a minute and leaves 255 waits
(`j2534.c:1049`, `1061`) does not: after 36 minutes of "wait" a frame may then be
held up for as long again.

**CAN** (any queue lengths, any modulus of the receive sequence):

* `CanHolds`, `TrafficTheorem`: `Spec => []CanInv` and `Spec => []TrafficIsTrue`.

`Lives` says what exists while what uses it runs, for every stage at which a
close may give up. `Ring` is the arithmetic of the transmit pool: the frames
held are in the slots before the next one, in their order, so that with two
slots more than the driver's queue the one to be filled is free. `Reports` says
at each place of a send what its report will be worth: that it went out, or
that, the controller silenced, it is gone and went out before only if it
`raced`. `Received` places every reception by its distance from the newest: what
waits to be seen, the queue's frames and the newest loss are all less than half
the circle behind, the queue is in order, and the newest is seen or waits in one
of four places; from that the wrapping comparison of `bus_rx_later()` orders any
two of them as they came. The proof found that `2 * (Lag + 1) < SeqMod` is not
enough: with an odd modulus the comparison, which uses `SeqMod \div 2`, is one
short, and TLC refutes `TrafficIsTrue` for 7 and 2. The assumption is now `Lag +
1 < SeqMod \div 2`, and the code's 2^32 is even.

**J1850** (both drivers, any number of retries):

* `J1850Holds`, `DriverTheorem`: `Spec => []J1850Inv` and `Spec => []DriverIsSafe`.

`Closes` says that what a close has still to take down is what is there, whichever
step a failed one stopped at; `Gates`, which interrupt can be at work for each
state of the gates that a close shuts before it joins them; `Drives`, what the
transmitter and the pin do where the caller and the watchdog are; and the parts
about the echo, that a frame of ours that is awaited is awaited with its timer
armed, unless the caller has given up on it and it is marked stale.  The theorem
is then about two interrupts and a caller that share no lock but the gates.

**J2534 over CAN** (any receive queue, any number of frames in a segmented
message, any of the scheduled kinds, any number of users):

* `J2534Holds`: `Spec => []J2534Inv`;
* `SentMeansSent`, `FlowTheorem`: the invariants `AnswersAreTrue` and
  `FlowControlIsOwn` of `j2534`;
* `RepeatTheorem`: its action property `RepeatStops`.

A step of `service_bus()` is a chain of calls, and the module has one operator per
call, from a record of the channels (`Desk`) to those it may become.  So the
invariant is a predicate of such a record, `Good`, there is one lemma per operator
that it leaves a good record good, and a step's proof follows the chain; only
`Becomes`, which writes the record back, and the worker's and the bus's own steps
are about variables.  `IsoOk` says what a segmented message counts: what it has
sent is behind what it has given away by exactly the frame with the worker.
`FlowOk` says that a flow control that would still be believed is the present
wait's.  `MailOk` and `RawOk` say whose the frame is.  Between two calls a record
need not satisfy all of them, so the message that counts its next frame before it
is submitted is carried by `Mine` alone.  For a repeat three parts
work together: `Heard`, that what ends it is still in the driver's queue if it
has not been read; `StopOk`, that its copy with the worker is then marked late;
and `MetOk`, that whatever the scheduler takes for an answer is one the bus gave
after the newest copy.  `LateCompletionSparesNewData` is not proved: the code
violates it, which is a finding above.

**ELM327** (any choice of the modelled vehicles and of the protocols asked for):

* `ElmHolds`, `PromptHolds`: `Spec => []ElmInv` and `Spec => []PromptIsHonest`.

That a search is complete is said only at its end; the invariant says why on the
way there.  `SearchFits`: as long as nothing excuses the search, the protocol this
vehicle answers on is still on the list or is the one being tried.  For most
vehicles that is one protocol; the vehicle whose key bytes are unknown lets the
session it is in decide, because trying protocol 5 does not end a session of
unknown key bytes and protocol 3 comes back for it, and an invariant that leaves
the session out is not preserved.  `SessionFits` says that the session the driver
has is one this vehicle agrees to; `BusFits`, that the bus, the protocol and the
header go together at every place, not only at the prompt; `QueueFits`, where the
answers to the request before can still be, so that draining the queue once, just
before sending, is enough; `PromptFits`, what is left of a search at the prompt.
A lemma of its own (`RequestGoes`) is about how a request begins, searching,
straight on, or from a protocol without a driver.
Sets of protocols stand for the code's array and its index, so that the proof
needs no induction along the list.

**J2534 wire** (any number of sessions and of messages, any sizes of requests and
answers in parts, any number of faults):

* `WireHolds`, `SessionsHold`: `WireSpec => []WireInv` and
  `WireSpec => []SessionsAreClean`.

Numbers of messages begin again with each session, so an answer of the session
before would be taken for one of this; what prevents it is not in the numbers.
`WireInv` says where such an answer can be. `NumbersFit`: what is on its way, in
either direction, carries numbers of this session up to the last call's. That
fails in one case, a job that outlasts its client: the next client is bound and
may be answered on the port while the job, and the grammar with its half-read
request, are still the last one's (`Leftover`). `AdapterFits` and `LinkFits`
confine it: then the new session has got no further than its probe, nothing of
it has run, and what reaches it is spoilt, or the answer to another operation
than a probe (`Late`), since a probe is no long job. `ProbeFits`: while the PC
probes, nothing else is asked, and of two probes only the last on its way, in
whichever place it is, may belong to the call waited for. `CallFits`: after that
one thing at a time is on its way, and a request sent in part has not run, which
is what makes it safe to send it again.

**The smaller modules** (for any values of their constants):

* `PortTheorem` (`CommPort`): `PortIsTrue` is nearly inductive; `PortInv` adds how
  far a write has come.
* `SpeedTheorem`, `LinesTheorem` (`Slcan`): the rate that runs is the rate set
  (`RateFits`), and the line buffer is the line the client typed or is being
  discarded (`LineFits`).
* `CommandsTheorem` (`ElmLine`): the same of the other line buffer, whose index
  begins again when it is full: `LineIsRead` ties index, overflow and text to
  the line, until some of a line was dropped behind a reset.
  With `LinesTheorem` this is `LinesAreAnswered`.
* `RepliesTheorem` (`ElmReplies`): `RepliesInv` says of what is under
  consideration only that some module of the vehicle may have sent it; the rest is
  the two definitions the code keeps apart, compared case by case for any module
  numbers.
* `CollectHolds`, `MessagesTheorem` (`ElmCollect`): a module that has not begun has
  nothing of a message in the queue, one that waits to be invited has at most its
  first frame there (`ModuleFits`), and a module has one stream (`StreamsFit`); so
  a stream lacks exactly what its module has not sent or the queue still holds.
* `OwnersTheorem` (`BlePairing`): `BleInv` adds that nothing is on the air while a
  phone is connected and that with nobody connected the bonds are counted as they
  are, or as none if they could not be read, which never leads to a filter; in
  between they are not, and need not be.  A filtered advertisement that could not
  be stopped keeps its list, which may name more than the bonds but never less,
  because no bond is made while nobody is connected.
* `TimingHolds`, `TimingTheorem` (`Elm327Timing`): `RingTurns` says which slot is
  next and which is this exchange's, also when the ring is full; `EstimateCovers`,
  that the estimate, once there is one, covers every answer of the history with
  its margin; `FirstWait`, that until the first answer the wait is `window_ms`;
  `WaitsDouble`, that after silence the estimate is at least twice what the silent
  wait was, or reaches the one answer that was due.  What the policy adds up is a
  recursive function.  That it has a value, that the value is a number, and that a
  finite history has a largest sample are shown by taking the least length for
  which it would fail (`LeastOf`, from the library's facts on well-founded
  relations) instead of by the induction theorem, which takes an operator.  The
  margin itself, the update by an eighth and the doubling are arithmetic.

Only model-checked: all liveness (`StopEnds`, `BusComesBack`, `CallsReturn`,
`PromptComesBack`, `AirIsKept`, `CollectionEnds`, `SessionsComeUp`,
`RequestIsServed`, and in `SwitchIsSafe` and `TransferKeepsTime` the parts
`GrammarComesUp` and `TransferEnds`), which with `ENABLED` is out of the prover's
reach.  The theorems are about a component's own specification; that `MCParts`
and `MCServed` take steps of one component only is plain from their next-state
relations and not proved.

## What comes next

1. Modelling: filters of `j2534.c` and `slcan.c`; the monitors of `elm327_at.c`;
   the choice between several repeated messages of one channel; notifications
   and their flow control in `ble_uart.c`.
2. Proofs: the same for those.  Of what is modelled, only liveness is left.

## Not modelled

Generated protobuf tables, the symbol timing of the codecs, ADC and PWM
arithmetic, the parsing of command arguments and the text of answers, printing
and statistics, the LED, the debouncing of the button and the shell's own
parsing: pure functions, layout or input and output with no state that another
part depends on.  The API of the PC's driver beyond its sessions (`api.cpp`'s
translations, the 04.04 layer, the TCP transport) runs on another machine and adds
no step to the wire.  `PROJECT.json` lists every part with its status, and every
known hazard with the properties that cover it or the reason none does.

## Running

    tlc -config MCVifClaims.cfg MCVifClaims        # and so on for each run
    tlc -config MCIsoTp.cfg IsoTp                  # CanBus, J2534, KLine, J1850, Elm327 likewise
    tlc -config MCDataLinkTalk.cfg MCDataLink
    tlapm BusProofs.tla                            # and so on for each *Proofs module
