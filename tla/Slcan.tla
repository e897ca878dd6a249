------------------------------- MODULE Slcan -------------------------------
(***************************************************************************)
(* The SLCAN grammar (slcan.c): the line assembler, the commands and the   *)
(* forwarding of frames.  It runs on the link task alone; the shell, which *)
(* may hold the bus, the controller, which hears frames, and a request to  *)
(* give the buses back come between its calls.                             *)
(*                                                                         *)
(* A line is the command its first character starts and its length.  A     *)
(* grammar starts with no bus: link_apply_frontend() has given all back.   *)
(***************************************************************************)
EXTENDS Naturals, Sequences, FiniteSetsExt

CONSTANTS
  Rates,      \* those the timing tables carry
  Usual,      \* the one slcan_fe_start() sets
  CmdMax,     \* SLCAN_CMD_MAX - 1
  Burst,      \* SLCAN_RX_BURST
  MaxHeard,   \* bound: frames in the driver's queue
  MaxFailures \* bound: drivers that do not start or do not stop
ASSUME SlcanAssumption ==
  Usual \in Rates /\ {CmdMax, Burst, MaxHeard} \subseteq Nat \ {0} /\ MaxFailures \in Nat

Talk == {"open", "close", "frame", "bad frame", "query", "bad"}
Words == Talk \union Rates
NoWord == "none"
NoRate == "none"
VARIABLES
  word, idx,  \* cmdbuf, cmdidx
  discard,
  typed,      \* kept for checking: the client's line as it typed it
  rate,       \* bitrate
  chan,       \* the claim of the CAN group: "none", "open", "stuck" or "shell"
  speed,      \* what the driver was started at
  heard,      \* frames in the driver's queue
  told,       \* kept for checking: the rate the client counts on
  answers,    \* kept for checking: to the line just ended
  failures
slcanVars == <<word, idx, discard, typed, rate, chan, speed, heard, told, answers, failures>>
lineVars == <<word, idx, discard, typed, answers>>

\* slcan_fe_start()
SlcanInit ==
  /\ word = NoWord /\ idx = 0 /\ discard = FALSE /\ typed = <<NoWord, 0>>
  /\ rate = Usual /\ chan \in {"none", "shell"} /\ speed = Usual /\ heard = 0
  /\ told = Usual /\ answers = <<>> /\ failures = 0

-----------------------------------------------------------------------------
(* Commands: each says what it answers *)

Fails == failures < MaxFailures /\ failures' = failures + 1
\* vif_bus_open() at the rate r: the driver held goes down, and comes up anew.
BusOpens(r) == chan # "shell" /\ chan' = "open" /\ speed' = r /\ heard' = 0 /\ failures' = failures
BusRefuses ==
  \/ chan = "shell" /\ UNCHANGED <<chan, speed, heard, failures>>
  \/ chan # "shell" /\ Fails /\ chan' \in {"none", "stuck"} /\ heard' = 0 /\ speed' = speed
Ack == answers' = <<"ack">>
Nack == answers' = <<"nack">>
BusKept == UNCHANGED <<chan, speed, heard, failures>>

OpenBus ==
  /\ UNCHANGED <<rate, told>>
  /\ \/ chan = "open" /\ Ack /\ BusKept
     \/ chan # "open" /\ BusOpens(rate) /\ Ack
     \/ chan # "open" /\ BusRefuses /\ Nack
CloseBus ==
  /\ UNCHANGED <<rate, told, speed>>
  /\ \/ chan \in {"none", "shell"} /\ Ack /\ BusKept
     \/ chan \in {"open", "stuck"} /\ chan' = "none" /\ heard' = 0 /\ failures' = failures /\ Ack
     \/ chan \in {"open", "stuck"} /\ chan' = "stuck" /\ heard' = 0 /\ Fails /\ Nack
\* Mutant of SetRate: an open channel keeps its driver.
SetRateLater(r) == rate' = r /\ told' = r /\ Ack /\ BusKept
\* A client that is refused a rate no longer knows which one it has.
SetRate(r) ==
  /\ rate' = r
  /\ \/ chan = "open" /\ BusOpens(r) /\ Ack /\ told' = r
     \/ chan = "open" /\ BusRefuses /\ Nack /\ told' = NoRate
     \/ chan # "open" /\ BusKept /\ Ack /\ told' = r
\* The queue of the driver may refuse a frame.
SendFrame(w) ==
  /\ UNCHANGED <<rate, told>> /\ BusKept
  /\ \/ chan = "open" /\ w = "frame" /\ Ack
     \/ Nack
Query(w) == UNCHANGED <<rate, told>> /\ BusKept /\ IF w = "query" THEN Ack ELSE Nack
ParseCommand(w) ==
  \/ w = "open" /\ OpenBus
  \/ w = "close" /\ CloseBus
  \/ w \in {"frame", "bad frame"} /\ SendFrame(w)
  \/ w \in {"query", "bad"} /\ Query(w)
  \/ w \in Rates /\ SetRate(w)

-----------------------------------------------------------------------------
(* The link task *)

\* A character that is not a carriage return; the buffer full, the rest of the
\* line is dropped.
TypedWith(w) == typed' = IF typed[2] = 0 THEN <<w, 1>> ELSE <<typed[1], Min({typed[2] + 1, CmdMax})>>
\* Mutant of Types: the buffer starts again.
TypesOver(w) ==
  /\ typed[2] = 0 \/ w = "bad"
  /\ TypedWith(w) /\ answers' = <<>>
  /\ word' = (IF idx = 0 THEN w ELSE word)
  /\ idx' = (IF idx + 1 = CmdMax THEN 0 ELSE idx + 1) /\ discard' = FALSE
  /\ UNCHANGED <<rate, chan, speed, heard, told, failures>>
Types(w) ==
  /\ typed[2] = 0 \/ w = "bad"
  /\ TypedWith(w) /\ answers' = <<>>
  /\ IF discard THEN UNCHANGED <<word, idx, discard>>
     ELSE /\ word' = (IF idx = 0 THEN w ELSE word)
          /\ idx' = (IF idx + 1 = CmdMax THEN 0 ELSE idx + 1) /\ discard' = (idx + 1 = CmdMax)
  /\ UNCHANGED <<rate, chan, speed, heard, told, failures>>
\* slcan_fe_feed() at a carriage return.  What it composes goes
\* out before it returns.
EndsLine ==
  /\ typed[2] # 0 /\ typed' = <<NoWord, 0>> /\ word' = NoWord /\ idx' = 0 /\ discard' = FALSE
  /\ \/ discard /\ Nack /\ BusKept /\ UNCHANGED <<rate, told>>
     \/ ~discard /\ idx > 0 /\ ParseCommand(word)
     \/ ~discard /\ idx = 0 /\ answers' = <<>> /\ BusKept /\ UNCHANGED <<rate, told>>
\* slcan_fe_poll()
Poll ==
  /\ chan = "open" /\ heard > 0 /\ heard' = heard - Min({Burst, heard})
  /\ UNCHANGED <<lineVars, rate, chan, speed, told, failures>>

HearsFrame ==
  /\ chan = "open" /\ heard < MaxHeard /\ heard' = heard + 1
  /\ UNCHANGED <<lineVars, rate, chan, speed, told, failures>>
ShellTakes ==
  /\ chan = "none" /\ chan' = "shell"
  /\ UNCHANGED <<lineVars, rate, speed, heard, told, failures>>
ShellReleases ==
  /\ chan = "shell" /\ chan' = "none"
  /\ UNCHANGED <<lineVars, rate, speed, heard, told, failures>>
\* vif_owner_service(): somebody has asked for the link's buses.
GivenBack ==
  /\ chan \in {"open", "stuck"} /\ chan' = "none" /\ heard' = 0
  /\ UNCHANGED <<lineVars, rate, speed, told, failures>>

SlcanNext ==
  \/ \E w \in Words : Types(w)
  \/ EndsLine \/ Poll \/ HearsFrame \/ ShellTakes \/ ShellReleases \/ GivenBack
SlcanSpec == SlcanInit /\ [][SlcanNext]_slcanVars

-----------------------------------------------------------------------------
(* Properties *)

\* An open channel runs at the rate the client was last granted, however often
\* it was closed, taken away or set again (the case 'S' of slcan_parse_command()).
SpeedIsAsTold == chan = "open" /\ told # NoRate => speed = told
\* A line is answered once, and only what the client typed is run: the tail of
\* one that is too long is no command of its own (slcan_fe_feed()).
AnsweredOnce ==
  typed # <<NoWord, 0>> /\ typed' = <<NoWord, 0>> =>
    Len(answers') = 1 /\ (typed[2] = CmdMax => answers' = <<"nack">>)
LineIsAnswered == [][AnsweredOnce]_slcanVars
=============================================================================
