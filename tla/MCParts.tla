-------------------------------- MODULE MCParts --------------------------------
(***************************************************************************)
(* Components that share no state, checked together: a behaviour is one    *)
(* of one component, which part names; the others stay as they began.      *)
(***************************************************************************)
EXTENDS DataLink, CommPort, Slcan, ElmReplies, Elm327Timing, ElmLine

VARIABLES
  part    \* the component

MCReplies == {<<>>, <<<<90, FALSE>>>>, <<<<20, FALSE>>, <<90, FALSE>>>>,
              <<<<20, TRUE>>, <<400, FALSE>>>>}
\* The shell hands the link about; each client comes once.
MCMaxClients == [p \in {Usb, Ble} |-> 1]

partsVars == <<part, vars, portVars, slcanVars, repliesVars, timingVars, elmLineVars>>

-----------------------------------------------------------------------------
\* The beginning of a component that takes no part is one of those it may have.
PartsInit ==
  /\ part \in {"link", "port", "slcan", "replies", "timing", "line"}
  /\ Init /\ (part # "link" => ~connected[Usb] /\ ~connected[Ble])
  /\ PortInit
  /\ SlcanInit /\ (part # "slcan" => chan = "none")
  /\ RepliesInit /\ (part # "replies" => proto = "can11" /\ header = Std(Functional11) /\ request = <<1, 0>>)
  /\ TimingInit /\ (part # "timing" => on_bus = "can" /\ \A ms \in Limits : limit <= ms)
  /\ ElmLineInit
\* A step is one of the component, and the others wait.
OfLink(A) ==
  /\ part = "link" /\ A
  /\ UNCHANGED <<part, portVars, slcanVars, repliesVars, timingVars, elmLineVars>>
OfPort(A) ==
  /\ part = "port" /\ A
  /\ UNCHANGED <<part, vars, slcanVars, repliesVars, timingVars, elmLineVars>>
OfSlcan(A) ==
  /\ part = "slcan" /\ A
  /\ UNCHANGED <<part, vars, portVars, repliesVars, timingVars, elmLineVars>>
OfReplies(A) ==
  /\ part = "replies" /\ A
  /\ UNCHANGED <<part, vars, portVars, slcanVars, timingVars, elmLineVars>>
OfTiming(A) ==
  /\ part = "timing" /\ A
  /\ UNCHANGED <<part, vars, portVars, slcanVars, repliesVars, elmLineVars>>
OfLine(A) ==
  /\ part = "line" /\ A
  /\ UNCHANGED <<part, vars, portVars, slcanVars, repliesVars, timingVars>>
PartsNext ==
  \/ OfLink(Next)
  \/ OfPort(PortNext)
  \/ OfSlcan(SlcanNext)
  \/ OfReplies(RepliesNext)
  \/ OfTiming(TimingNext)
  \/ OfLine(ElmLineNext)
PartsSpec == PartsInit /\ [][PartsNext]_partsVars

-----------------------------------------------------------------------------
(* Properties, besides those of the components extended *)

\* slcan.c, elm327_at.c: each line is answered once, for what it is.
LinesAreAnswered == [][AnsweredOnce /\ LineAnsweredOnce]_partsVars
=============================================================================
