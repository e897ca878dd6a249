------------------------------ MODULE ElmLine ------------------------------
(***************************************************************************)
(* How the ELM327 grammar puts command lines together and what it answers  *)
(* to each (elm327_at.c).  It all runs on the link task.                   *)
(*                                                                         *)
(* A line is the command its first character starts and its length; blanks *)
(* are left out, upper and lower case are one.  The bytes arrive in chunks *)
(* as the port hands them over, cut anywhere.                              *)
(***************************************************************************)
EXTENDS Naturals, Sequences

CONSTANTS
  Commands,   \* that are run and answered
  Resets,     \* of these, the ones that drop what the chunk still holds
  LineMax,    \* sizeof(cmdbuf) - 1
  OutMax      \* sizeof(tx_buf), in characters
ASSUME LineAssumption == Resets \subseteq Commands /\ {LineMax, OutMax} \subseteq Nat \ {0}

NoCommand == "none"
Unknown == "?"
VARIABLES
  cmdbuf, cmdidx,
  overflow,
  lastcmd,
  echo,       \* AT E1
  tx_fill,    \* tx_buf: how many characters it holds
  dropping,   \* reset_discard: the rest of this chunk is not read
  entered,    \* kept for checking: the line as the client typed it: the
              \* command, its length, and whether some of it was dropped
  ran,        \* kept for checking: the last line that was run
  answered    \* kept for checking: what the line just ended was answered
lineBuffer == <<cmdbuf, cmdidx, overflow>>
elmLineVars == <<lineBuffer, lastcmd, echo, tx_fill, dropping, entered, ran, answered>>

NoLine == [cmd |-> NoCommand, len |-> 0, cut |-> FALSE]
\* elm327_fe_start()
ElmLineInit ==
  /\ cmdbuf = NoCommand /\ cmdidx = 0 /\ overflow = FALSE /\ lastcmd = Unknown /\ echo = TRUE /\ tx_fill = 0
  /\ dropping = FALSE /\ entered = NoLine /\ ran = Unknown /\ answered = <<>>

-----------------------------------------------------------------------------
\* elm327_uart_send_bytes(): what does not fit goes out first.
Buffered(n) == IF tx_fill + n > OutMax THEN n ELSE tx_fill + n
EchoesByte == tx_fill' = IF echo THEN Buffered(1) ELSE tx_fill
\* The client's line grows, with the byte read or dropped.
LineGrows(c, lost) ==
  entered' = [cmd |-> IF entered.len = 0 THEN c ELSE entered.cmd,
              len |-> IF entered.len < LineMax THEN entered.len + 1 ELSE LineMax,
              cut |-> entered.cut \/ lost]
MayType(c) == entered.len = 0 \/ c = entered.cmd

\* Mutant of Enters: a full buffer is a line.
EntersOver(c) ==
  /\ ~dropping /\ MayType(c) /\ LineGrows(c, FALSE) /\ EchoesByte /\ answered' = <<>>
  /\ cmdbuf' = (IF cmdidx = 0 THEN c ELSE cmdbuf) /\ overflow' = overflow
  /\ cmdidx' = (IF cmdidx + 1 = LineMax THEN 0 ELSE cmdidx + 1)
  /\ UNCHANGED <<lastcmd, echo, dropping, ran>>
\* elm327_feed_byte(), not a carriage return.  A full buffer is begun again, and
\* the line is answered as one that means nothing.
Enters(c) ==
  /\ ~dropping /\ MayType(c) /\ LineGrows(c, FALSE) /\ EchoesByte /\ answered' = <<>>
  /\ cmdbuf' = (IF cmdidx = 0 THEN c ELSE cmdbuf)
  /\ cmdidx' = (IF cmdidx + 1 = LineMax THEN 0 ELSE cmdidx + 1)
  /\ overflow' = (overflow \/ cmdidx + 1 = LineMax)
  /\ UNCHANGED <<lastcmd, echo, dropping, ran>>

\* elm327_parse_command(): an answer and a prompt, pushed out.
ParsesCommand(c) ==
  /\ answered' = <<c>> /\ tx_fill' = 0 /\ dropping' = (c \in Resets)
  /\ echo' \in IF c \in Resets THEN {TRUE} ELSE BOOLEAN
\* Mutant of Remembers: the line is kept, whatever came of it.
RemembersAll == lastcmd' = IF cmdbuf = NoCommand THEN lastcmd ELSE cmdbuf
\* Only a line that was run is repeated.
Remembers == lastcmd' = IF ~overflow /\ cmdidx > 0 THEN cmdbuf ELSE lastcmd
\* elm327_feed_byte() at a carriage return: the command, the last one again if
\* there is none, or a question mark.
LineEnds ==
  /\ ~dropping /\ Remembers
  /\ \/ overflow /\ answered' = <<Unknown>> /\ tx_fill' = 0 /\ UNCHANGED <<dropping, echo>>
     \/ ~overflow /\ cmdidx = 0 /\ ParsesCommand(lastcmd)
     \/ ~overflow /\ cmdidx > 0 /\ ParsesCommand(cmdbuf)
  /\ cmdbuf' = NoCommand /\ cmdidx' = 0 /\ overflow' = FALSE /\ entered' = NoLine
  /\ ran' = (CASE entered.cut -> lastcmd' [] ~entered.cut /\ entered.len \in {0, LineMax} -> ran [] OTHER -> entered.cmd)
\* elm327_fe_feed() after a reset: the rest of the chunk is not looked at, and
\* the next chunk begins where the client happens to be.
DropsByte(c) ==
  /\ dropping /\ MayType(c) /\ LineGrows(c, TRUE) /\ answered' = <<>>
  /\ UNCHANGED <<lineBuffer, lastcmd, echo, tx_fill, dropping, ran>>
DropsLineEnd ==
  /\ dropping /\ entered' = NoLine /\ answered' = <<>>
  /\ UNCHANGED <<lineBuffer, lastcmd, echo, tx_fill, dropping, ran>>
ChunkEnds ==
  /\ dropping /\ dropping' = FALSE /\ answered' = <<>>
  /\ UNCHANGED <<lineBuffer, lastcmd, echo, tx_fill, entered, ran>>

ElmLineNext == (\E c \in Commands : Enters(c) \/ DropsByte(c)) \/ LineEnds \/ DropsLineEnd \/ ChunkEnds
ElmLineSpec == ElmLineInit /\ [][ElmLineNext]_elmLineVars

-----------------------------------------------------------------------------
(* Properties *)

\* A line that was read whole gets one answer, to what was typed; one too long
\* gets one that says so, and is no part of a later line; an empty one runs the
\* last whole line again, however many lines that meant nothing came between
\* (elm327_feed_byte(): "one prompt per line").
DueAnswer == CASE entered.len = LineMax -> Unknown [] entered.len = 0 -> ran [] OTHER -> entered.cmd
LineAnsweredOnce == LineEnds /\ ~entered.cut => answered' = <<DueAnswer>>
CommandsAreAnswered == [][LineAnsweredOnce]_elmLineVars
=============================================================================
