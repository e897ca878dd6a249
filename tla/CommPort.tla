------------------------------ MODULE CommPort ------------------------------
(***************************************************************************)
(* One port of comm_iface.c: the ring buffer a transport fills and the     *)
(* link task empties, its count of unread bytes, and the writing.          *)
(*                                                                         *)
(* The transport's thread delivers and reports that its client has gone;   *)
(* the link task reads outside the lock and lowers the count afterwards,   *)
(* and writes with the lock released.  Which client a byte is of is        *)
(* DataLink; here bytes are counted.  The transport's queue to the host is *)
(* external: it takes what fits, and a flush empties it if the host reads. *)
(***************************************************************************)
EXTENDS Naturals, FiniteSetsExt

CONSTANTS
  RxCap,      \* bytes of the ring buffer
  TxCap,      \* bytes of the transport's queue
  Chunk,      \* bound: bytes delivered, read or written at once
  Word        \* bound: how far an unsigned count goes before it wraps
ASSUME PortAssumption == {RxCap, TxCap, Chunk} \subseteq Nat \ {0} /\ Word \in Nat /\ Word > 2 * RxCap

VARIABLES
  ring,       \* bytes in rx_stream
  pending,    \* rx_pending
  held,       \* bytes the reader has taken and not yet counted off
  mute, online,
  queued,     \* bytes in the transport's queue
  writing,    \* "none", or what is left to write and whether it was flushed
  sent        \* kept for checking: bytes of the current write that were taken
portVars == <<ring, pending, held, mute, online, queued, writing, sent>>
rxVars == <<ring, pending, held>>
txVars == <<queued, writing, sent>>

NoWrite == [at |-> "none", size |-> 0, ok |-> FALSE]
PortInit ==
  /\ ring = 0 /\ pending = 0 /\ held = 0 /\ mute = FALSE /\ online = TRUE
  /\ queued = 0 /\ writing = NoWrite /\ sent = 0

-----------------------------------------------------------------------------
(* Receiving *)

\* comm_port_rx(): a chunk that does not fit is dropped whole.
Deliver(n) ==
  /\ online /\ ring + n <= RxCap /\ ring' = ring + n /\ pending' = pending + n
  /\ UNCHANGED <<held, mute, online, txVars>>
\* comm_port_read(), outside the lock: up to what is contiguous.
Take(n) ==
  /\ held = 0 /\ n <= ring /\ ring' = ring - n /\ held' = n
  /\ UNCHANGED <<pending, mute, online, txVars>>
\* Mutant of Less: the bytes are simply subtracted.
LessWrapped(count, n) == (count + Word - n) % Word
Less(count, n) == count - Min({count, n})
CountOff ==
  /\ held # 0 /\ pending' = Less(pending, held) /\ held' = 0
  /\ UNCHANGED <<ring, mute, online, txVars>>
\* comm_port_client_gone(): rx_stream_drain(), under the lock.
ClientGone ==
  /\ online /\ online' = FALSE /\ mute' = TRUE /\ ring' = 0 /\ pending' = 0
  /\ UNCHANGED <<held, txVars>>
ClientComes == ~online /\ online' = TRUE /\ UNCHANGED <<rxVars, mute, txVars>>
\* comm_port_client_ready(): a grammar has started.
ClientReady == mute /\ mute' = FALSE /\ UNCHANGED <<rxVars, online, txVars>>

-----------------------------------------------------------------------------
(* Writing *)

Taken(n) == Min({n, TxCap - queued})
\* comm_port_write(): refused, or what fits, then the rest once after a flush.
Write(n) ==
  /\ writing.at = "none" /\ ~mute /\ online
  /\ queued' = queued + Taken(n) /\ sent' = Taken(n)
  /\ writing' = (IF Taken(n) = 0 THEN [at |-> "done", size |-> n, ok |-> FALSE]
                 ELSE IF Taken(n) = n THEN [at |-> "done", size |-> n, ok |-> TRUE]
                 ELSE [at |-> "rest", size |-> n, ok |-> FALSE])
  /\ UNCHANGED <<rxVars, mute, online>>
\* The host may not have read anything by then.
FlushedRest ==
  /\ writing.at = "rest"
  /\ \E q \in {0, queued} :
       LET more == Min({writing.size - sent, TxCap - q})
       IN  /\ queued' = q + more /\ sent' = sent + more
           /\ writing' = [writing EXCEPT !.at = "done", !.ok = (sent + more = writing.size)]
  /\ UNCHANGED <<rxVars, mute, online>>
Written ==
  /\ writing.at = "done" /\ writing' = NoWrite /\ sent' = 0 /\ UNCHANGED <<rxVars, mute, online, queued>>
HostReads == queued > 0 /\ queued' = 0 /\ UNCHANGED <<rxVars, mute, online, writing, sent>>

PortNext ==
  \/ \E n \in 1 .. Chunk : Deliver(n) \/ Take(n) \/ Write(n)
  \/ CountOff \/ ClientGone \/ ClientComes \/ ClientReady
  \/ FlushedRest \/ Written \/ HostReads
PortSpec == PortInit /\ [][PortNext]_portVars

-----------------------------------------------------------------------------
(* Properties *)

\* The backlog the shell is shown never exceeds what is there, although the count
\* is lowered after the bytes were taken and a client may leave in between; and a
\* write that was reported complete is complete.
BacklogIsThere == pending <= ring + held
WritesAreWhole == writing.ok => sent = writing.size
PortIsTrue == BacklogIsThere /\ WritesAreWhole

\* Not so: bytes of the next client are counted off for those of the last, and the
\* backlog stays short until the ring is next drained.
BacklogIsExact == held = 0 => pending = ring
=============================================================================
