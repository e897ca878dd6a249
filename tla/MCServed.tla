-------------------------------- MODULE MCServed --------------------------------
(***************************************************************************)
(* Components that owe somebody something, checked together as in          *)
(* MCParts: a phone, a client of the ELM327 grammar, whoever asks for      *)
(* a bus, and a J2534 application.  VifClaims has the variables x1 to x7.  *)
(***************************************************************************)
EXTENDS J2534Wire, ElmCollect, BlePairing

VARIABLES
  part,   \* the component
  whose,  \* with the claims: the bus RequestIsServed is about, or "none" for both
  owed,   \* history: it was asked for, and not served since
  x1, x2, x3, x4, x5, x6, x7

MCGroupOf == [b \in {"can", "kline"} |-> IF b = "can" THEN 0 ELSE 1]
MCSizes ==
  [o \in {"probe", "open", "act", "close"} |-> IF o = "act" THEN <<2, 2>> ELSE <<1, 1>>]

V == INSTANCE VifClaims WITH
  Owners <- {"link"}, Link <- "link", Buses <- {"can", "kline"}, NoBus <- "none",
  NumGroups <- 2, GroupOf <- MCGroupOf,
  claim <- x1, driver <- x2, worker <- x3, release_req <- x4, recover_req <- x5,
  at <- x6, job <- x7

Xs == <<x1, x2, x3, x4, x5, x6, x7>>
Unused == x1 = 0 /\ x2 = 0 /\ x3 = 0 /\ x4 = 0 /\ x5 = 0 /\ x6 = 0 /\ x7 = 0
vars == <<part, whose, owed, wireState, collectVars, bleVars, Xs>>

-----------------------------------------------------------------------------
Bluetooth(A) == part = "ble" /\ A /\ UNCHANGED <<part, whose, owed, wireState, collectVars, Xs>>
Collect(A) == part = "collect" /\ A /\ UNCHANGED <<part, whose, owed, wireState, bleVars, Xs>>
Wire(A) == part = "wire" /\ A /\ UNCHANGED <<part, whose, owed, collectVars, bleVars, Xs>>
IsAsked == IF whose = "none" THEN V!AskedToRelease("link") ELSE V!AskedWhileUp("link", whose)
IsServed == IF whose = "none" THEN V!AllShut("link") ELSE V!Down(whose)
Claims(A) ==
  /\ part = "claims" /\ A /\ UNCHANGED <<part, whose, wireState, collectVars, bleVars>>
  /\ owed' = (~IsServed' /\ (owed \/ IsAsked'))
\* The beginning of a component that takes no part is one of those it may have.
Init ==
  /\ part \in {"ble", "collect", "wire", "claims"}
  /\ whose \in {"can", "kline", "none"} /\ (part # "claims" => whose = "none")
  /\ BleInit /\ CollectInit
  /\ WireInit /\ (part # "wire" => front = "elm")
  /\ owed = FALSE /\ IF part = "claims" THEN V!Init ELSE Unused
Next ==
  \/ Bluetooth(BleNext)
  \/ Collect(CollectNext)
  \/ Wire(WireNext)
  \/ Claims(V!Next)
Spec == Init /\ [][Next]_vars
\* That of the components: BlePairing, ElmCollect, J2534Wire and VifClaims say why.
\* A behavior is of one component, so one condition may stand for one of each.
Fairness ==
  /\ WF_vars(\/ Bluetooth(BleHostStep) \/ Collect(WindowStep) \/ Wire(HostStep)
             \/ Claims(V!Inside("link")))
  /\ WF_vars(Bluetooth(Watchdog) \/ Collect(StreamStep) \/ Wire(ClientGone) \/ Claims(V!WorkerStep(0)))
  /\ WF_vars(Bluetooth(TimerStep) \/ Wire(TaskStep) \/ Claims(V!WorkerStep(1)))
  /\ SF_vars(Claims(V!Service("link")))
  /\ \A b \in {"can", "kline"} : SF_vars(Claims(V!ReleaseCloses("link", b)))
FairSpec == Spec /\ Fairness

-----------------------------------------------------------------------------
(* Properties, besides those of the components extended *)

\* api.cpp, vif.c: an application that keeps opening comes to a device.
SessionsComeUp == []<>(part = "wire" => Up)
\* vif.c: a release asked for from another thread shuts the buses of the owner and
\* closes their drivers, each after it is asked for: IsAsked ~> IsServed.
RequestIsServed == []<>~owed
=============================================================================
