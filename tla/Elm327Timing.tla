------------------------------ MODULE Elm327Timing ------------------------------
(***************************************************************************)
(* The adaptive timing of the ELM327 front-end (elm327_at.c): how long a   *)
(* request waits for its answers, learned from the answers before it, the  *)
(* ones that came after the prompt included.  Times are milliseconds since *)
(* the request.  A search waits AT ST out and is not modelled here.        *)
(***************************************************************************)
EXTENDS Integers, Sequences

CONSTANTS
  Replies,  \* what a request may be answered with, as pairs <<time, pending>>
  Limits,   \* AT ST
  Buses,    \* "can" or "bytes"
  Samples   \* ELM327_TIMING_SAMPLES
ASSUME TimingAssumption ==
  /\ Limits \subseteq Nat \ {0} /\ Samples \in Nat \ {0} /\ Buses \subseteq {"can", "bytes"}
  /\ Replies \subseteq Seq((Nat \ {0}) \X BOOLEAN)

VARIABLES
  on_bus,   \* the bus of the protocol
  adaptive, \* adaptive_timing
  limit,    \* settings.timeout
  steady,   \* kept for checking: AT ST was not given since the last reset
  estimate, \* estimate_ms
  history,  \* samples, the first count of them, and the slot to fill next
  watch,    \* elm327_reply_watch_t
  window_ms, \* how long the wait is, 0 at the prompt
  until,    \* when the wait ends
  promised, \* response_pending
  hint,     \* the client gave a frame count of one
  got,      \* frame_counter
  coming,   \* answers still to arrive
  due,      \* kept for checking: when the one answer of this request comes
  log,      \* kept for checking: the slowest answer of each exchange
  outlasted \* kept for checking: 0, or a time that one is known to take, which
            \* doubles with every request in a row that did not wait for it
learned == <<estimate, history, watch>>
waiting == <<window_ms, until, promised, hint, got, coming>>
timingVars == <<on_bus, adaptive, limit, steady, learned, waiting, due, log, outlasted>>

PendingWait == 3000
Largest(x, y) == IF x > y THEN x ELSE y
Least(x, y) == IF x < y THEN x ELSE y
Up(x, y) == (x + y - 1) \div y

-----------------------------------------------------------------------------
(* The policy *)

\* elm327_latency_margin(): half again, or a quarter with AT AT2.
Floor == IF adaptive = 2 THEN 20 ELSE 30
Margin(ms) ==
  Least(limit, Largest(Floor, IF ms < limit THEN ms + Up(ms, IF adaptive = 2 THEN 4 ELSE 2) ELSE limit))
Total(s) == LET sum[n \in 0 .. Len(s)] == IF n = 0 THEN 0 ELSE sum[n - 1] + s[n]
            IN  sum[Len(s)]
Among(s) == {s[i] : i \in DOMAIN s}
Peak(s) == CHOOSE x \in Among(s) \union {0} : \A y \in Among(s) : y <= x
\* What the history averages to, each answer weighing w times its distance.
Average(s, w) ==
  LET mean == Up(Total(s), Len(s))
      off == Up(Total([i \in DOMAIN s |-> IF s[i] > mean THEN s[i] - mean ELSE mean - s[i]]), Len(s))
  IN  mean + 4 + off * w
\* Mutant of Target: the recent peak is not kept.
MeanTarget(s) == Least(limit, Average(s, 1))
\* elm327_timing_target()
Target(s) == Least(limit, Largest(Average(s, IF adaptive = 2 THEN 2 ELSE 4), Margin(Peak(s))))
\* elm327_timing_update(): at once upwards, by an eighth downwards.
Updated(s, shrink) ==
  IF estimate = 0 \/ Target(s) > estimate THEN Target(s)
  ELSE IF shrink THEN estimate - (estimate - Target(s) + 7) \div 8 ELSE estimate
\* Mutant of BackedOff: silence is waited for again just as long.
KeptOff(ms) == Largest(ms, Least(limit, window_ms))
\* elm327_timing_backoff()
BackedOff(ms) == Largest(ms, Least(limit, 2 * window_ms))
\* elm327_reply_window(): after a second without an exchange wider, after five
\* seconds AT ST.
ReplyWindow(idle) ==
  IF adaptive = 0 \/ estimate = 0 \/ idle >= 5000 THEN limit
  ELSE LET w == Least(estimate, limit)
       IN  IF idle > 1000 THEN w + ((limit - w) * (idle - 1000)) \div 4000 ELSE w
\* elm327_collection_window()
CollectionWindow(slowest) == IF adaptive = 0 THEN window_ms ELSE Largest(window_ms, Margin(slowest))

\* elm327_record_latency(): an exchange has one slot.
After(slot) == IF slot = Samples THEN 1 ELSE slot + 1
Slot == IF watch.slot # 0 THEN watch.slot ELSE history.next
Filled(slot, ms) ==
  IF slot > Len(history.s) THEN Append(history.s, ms) ELSE [history.s EXCEPT ![slot] = ms]
\* Mutant of Put: every answer has one.
PutAnother(ms) ==
  [next |-> After(history.next), s |-> Filled(history.next, Least(ms, limit))]
Put(ms) ==
  [next |-> IF watch.slot # 0 THEN history.next ELSE After(history.next),
   s |-> Filled(Slot, Least(ms, limit))]
Logged(ms) ==
  log' = IF watch.slot # 0 THEN [log EXCEPT ![Len(log)] = Least(ms, limit)]
         ELSE Append(IF Len(log) = Samples THEN Tail(log) ELSE log, Least(ms, limit))
\* elm327_timing_reply()
Noted(a) ==
  LET slowest == Largest(watch.latency, a[1])
      wait == IF a[2] /\ on_bus = "can" THEN PendingWait ELSE limit
  IN  [watch EXCEPT !.latency = slowest, !.deadline = Largest(@, a[1] + wait)]

-----------------------------------------------------------------------------
NoWatch == [active |-> FALSE, latency |-> 0, deadline |-> 0, slot |-> 0]
Unlearned == estimate' = 0 /\ history' = [next |-> 1, s |-> <<>>] /\ log' = <<>>
AtRest ==
  /\ until' = 0 /\ promised' = FALSE /\ hint' = FALSE /\ got' = 0 /\ coming' = <<>> /\ window_ms' = 0
  /\ UNCHANGED <<due, outlasted>>
TimingInit ==
  /\ on_bus \in Buses /\ adaptive = 1 /\ limit \in Limits /\ steady = TRUE
  /\ estimate = 0 /\ history = [next |-> 1, s |-> <<>>] /\ watch = NoWatch /\ window_ms = 0
  /\ until = 0 /\ promised = FALSE /\ hint = FALSE /\ got = 0 /\ coming = <<>> /\ due = 0 /\ log = <<>> /\ outlasted = 0

NoWait == window_ms = 0
\* A command ends the watch over the request before it.
AT(m) ==
  /\ NoWait /\ m # adaptive /\ adaptive' = m /\ Unlearned /\ watch' = NoWatch /\ steady' = TRUE
  /\ AtRest /\ UNCHANGED <<on_bus, limit>>
ST(ms) ==
  /\ NoWait /\ ms # limit /\ limit' = ms /\ steady' = (estimate = 0) /\ watch' = NoWatch
  /\ AtRest /\ UNCHANGED <<on_bus, adaptive, estimate, history, log>>

\* elm327_timing_begin(); the vehicle may be asleep.
BeginsExchange(one, idle, replies) ==
  /\ NoWait /\ coming' = replies /\ due' = (IF Len(replies) = 1 THEN replies[1][1] ELSE 0)
  /\ hint' = one /\ got' = 0 /\ promised' = FALSE /\ window_ms' = ReplyWindow(idle) /\ until' = window_ms'
  /\ watch' = [active |-> adaptive # 0, latency |-> 0, deadline |-> limit, slot |-> 0]
  /\ outlasted' = (IF due' = due THEN outlasted ELSE 0)
  /\ UNCHANGED <<on_bus, adaptive, limit, steady, estimate, history, log>>

\* elm327_timing_finish()
Finishes(w, incomplete) ==
  /\ LET ms == IF adaptive # 0 /\ w.latency # 0 THEN Updated(Put(w.latency).s, TRUE) ELSE estimate
     IN  estimate' = IF adaptive # 0 /\ (w.latency = 0 \/ incomplete) THEN BackedOff(ms) ELSE ms
  /\ IF adaptive # 0 /\ w.latency # 0
     THEN history' = Put(w.latency) /\ watch' = [w EXCEPT !.slot = Slot] /\ Logged(w.latency)
     ELSE UNCHANGED <<history, log>> /\ watch' = w
  /\ window_ms' = 0 /\ until' = 0 /\ promised' = FALSE /\ hint' = FALSE /\ got' = 0 /\ due' = due

InTime == coming # <<>> /\ Head(coming)[1] <= until
\* One answer within the wait.  ISO 15765-4 knows an answer that promises another,
\* after which only one more of the kind makes the wait longer.
Answer ==
  /\ ~NoWait /\ InTime /\ coming' = Tail(coming)
  /\ LET a == Head(coming)
         promises == a[2] /\ on_bus = "can"
         w == Noted(a)
     IN  IF hint /\ ~promises
         THEN Finishes(w, FALSE) /\ outlasted' = 0
         ELSE /\ watch' = w /\ got' = got + 1
              /\ promised' = (promised \/ promises)
              /\ until' = (IF promises THEN a[1] + PendingWait ELSE IF promised THEN until
                           ELSE a[1] + CollectionWindow(w.latency))
              /\ UNCHANGED <<estimate, history, window_ms, hint, due, log, outlasted>>
  /\ UNCHANGED <<on_bus, adaptive, limit, steady>>
\* What comes within AT ST and was not waited for.
Missed == due # 0 /\ due <= limit /\ got = 0
\* The wait ends.  What does not come while the watch lasts is not looked at.
Silence ==
  /\ ~NoWait /\ ~InTime
  /\ Finishes(watch, hint /\ got = 0)
  /\ outlasted' = (IF ~Missed THEN 0 ELSE IF outlasted = 0 THEN window_ms ELSE 2 * outlasted)
  /\ coming' = (IF watch.active THEN coming ELSE <<>>)
  /\ UNCHANGED <<on_bus, adaptive, limit, steady>>

\* elm327_observe_late_replies(): the poll, or the next command, finds an answer
\* that came after the prompt.
Late ==
  /\ NoWait /\ watch.active /\ coming # <<>> /\ coming' = Tail(coming)
  /\ IF Head(coming)[1] > watch.deadline THEN UNCHANGED <<learned, log>>
     ELSE LET w == Noted(Head(coming))
          IN  /\ watch' = [w EXCEPT !.slot = Slot] /\ history' = Put(w.latency)
              /\ estimate' = Updated(Put(w.latency).s, FALSE) /\ Logged(w.latency)
  /\ UNCHANGED <<on_bus, adaptive, limit, steady, window_ms, until, promised, hint, got, due, outlasted>>
\* The deadline passes.
Over ==
  /\ NoWait /\ watch # NoWatch /\ coming = <<>> /\ watch' = NoWatch
  /\ UNCHANGED <<on_bus, adaptive, limit, steady, estimate, history, waiting, due, log, outlasted>>

ClientAsks ==
  \/ \E m \in 0 .. 2 : AT(m)
  \/ \E ms \in Limits : ST(ms)
  \/ \E one \in BOOLEAN, idle \in {0, 3000, 5000}, replies \in Replies : BeginsExchange(one, idle, replies)
TimingNext == ClientAsks \/ Answer \/ Silence \/ Late \/ Over
TimingSpec == TimingInit /\ [][TimingNext]_timingVars

-----------------------------------------------------------------------------
\* Where the ring has the sample of the i-th of the last exchanges.
Holds(i) ==
  IF Len(history.s) < Samples THEN i
  ELSE IF history.next + i - 1 <= Samples THEN history.next + i - 1 ELSE history.next + i - 1 - Samples
\* elm327_at.c:1585, 1660: what the history holds is the slowest answer of each
\* of the last exchanges, an answer after the prompt included and silence not,
\* from the slot to be filled next on.
EvidenceIsHonest ==
  Len(history.s) = Len(log) /\ \A i \in 1 .. Len(log) : history.s[Holds(i)] = log[i]
\* A wait covers every one of them with its margin, unless AT ST moved since, and
\* is never longer than AT ST.
PeakIsCovered ==
  ~NoWait => /\ window_ms <= limit
             /\ adaptive # 0 /\ steady => window_ms >= Margin(0) /\ \A ms \in Among(history.s) : window_ms >= Margin(ms)
\* elm327_at.c:1685: a vehicle that answers within AT ST, however late the
\* estimate thinks that is, is heard after a few requests: each is waited for
\* twice as long as the one before.
SlowIsHeard == outlasted = 0 \/ outlasted < due

\* What the adaptive timing has learned is true and is used, and a slow vehicle
\* is heard (elm327_at.c, elm327_timing_*).
TimingIsHonest == EvidenceIsHonest /\ PeakIsCovered /\ SlowIsHeard

\* Not so: raising AT ST again uncovers what was learned before it was lowered.
PeakSurvivesST == ~NoWait /\ adaptive # 0 => window_ms >= Least(limit, Peak(history.s))
=============================================================================
