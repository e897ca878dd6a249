--------------------------- MODULE FrontEndProofs ---------------------------
(***************************************************************************)
(* Proofs about the two ends a request can come to the vehicle from: the   *)
(* protocol search and the session bookkeeping of the ELM327 grammar       *)
(* (Elm327), and the wire between a J2534 application and the adapter      *)
(* (J2534Wire).  They share nothing; each has a part of this module.       *)
(***************************************************************************)
EXTENDS Elm327, J2534Wire, SequenceTheorems, TLAPS

-------------------------------------------------------------------------------
(***************************************************************************)
(* Elm327: after a request the grammar says what it has of the vehicle,    *)
(* and it has it.  The invariant says of each place of the search what the *)
(* bus, the protocol and the session may be there.                         *)
(***************************************************************************)

\* elm327_bus_for_protocol(): the protocols of each bus.
LEMMA BusIs ==
  /\ \A p \in 0 .. 12 : Bus(p) \in BusNames
  /\ \A p \in 0 .. 12 : Bus(p) = "kline" <=> p \in 3 .. 5
  /\ \A p \in 0 .. 12 : Bus(p) = "can" <=> p \in 6 .. 9
  /\ \A p \in 0 .. 12 : Bus(p) = "pwm" <=> p = 1
  /\ \A p \in 0 .. 12 : Bus(p) = "vpw" <=> p = 2
  /\ \A p \in 0 .. 12 : Bus(p) = "none" <=> p \notin 1 .. 9
BY DEF Bus, BusNames

\* The order of a search, AT SS or not, has every protocol but 4.
LEMMA SearchedIs ==
  Searched = {1, 2, 3, 5, 6, 7, 8, 9} /\ Searched \subseteq Protocols \ {0}
<1>1. Searched = {1, 2, 3, 5, 6, 7, 8, 9}
  <2>1. CASE set.std
    BY <2>1 DEF Searched, Order, Std
  <2>2. CASE ~set.std
    BY <2>2 DEF Searched, Order, Fast
  <2>3. QED
    BY <2>1, <2>2
<1>2. {1, 2, 3, 5, 6, 7, 8, 9} \subseteq Protocols \ {0}
  BY DEF Protocols
<1>3. QED
  BY <1>1, <1>2

\* The vehicles without a session speak a protocol that a search tries, and none
\* of the K-Line.
LEMMA NativeIs ==
  /\ DOMAIN Native = {"pwm", "vpw", "can6", "can7", "can8", "can9"}
  /\ \A v \in DOMAIN Native : Native[v] \in {1, 2, 6, 7, 8, 9}
BY DEF Native

\* What selecting a protocol does to what is open, and to what is current.
LEMMA SelectsKeepsType ==
  ASSUME ChoiceType, NEW p \in Protocols, Selects(p) \/ SelectFails(p)
  PROVE  ChoiceType'
<1>0. Bus(p) \in BusNames /\ (Bus(p) # "none" => p \in 1 .. 9)
  BY BusIs DEF Protocols
<1> USE <1>0 DEF BusNames, SessionNames, Selects, SelectFails, Already, Shared, Kept, Released
<1>1. CASE Selects(p)
  BY <1>1 DEF ChoiceType, Protocols
<1>2. CASE SelectFails(p)
  BY <1>2 DEF ChoiceType, Protocols
<1>3. QED
  BY <1>1, <1>2

\* What remains unread, and what is still to come.
WireType == queue \subseteq {"old", "late"} /\ late \in BOOLEAN
LEMMA SelectsKeepsWire ==
  ASSUME WireType, NEW p \in Protocols, Selects(p) \/ SelectFails(p)
  PROVE  WireType'
BY DEF WireType, Selects, SelectFails, Kept, Released

LEMMA SettingsKeepType ==
  ASSUME set \in SettingsType, NEW p \in Protocols
  PROVE  Settings(p) \in SettingsType
BY DEF Settings, SettingsType

\* An attempt that ends keeps the types.
LEMMA AttemptedKeepsType ==
  ASSUME PlaceType, set \in SettingsType, todo \subseteq Protocols \ {0}, first \in Protocols, 
         0 \in Protocols, NEW rc \in Outcomes \ {"not found"}, Attempted(rc)
  PROVE  /\ PlaceType' /\ at' \in {"prompt", "next"} /\ todo' \subseteq Protocols \ {0}
         /\ first' \in Protocols /\ set' \in SettingsType
<1> USE DEF Outcomes
<1>1. CASE search
  <2>1. PlaceType' /\ at' \in {"prompt", "next"}
    BY <1>1 DEF PlaceType, Attempted, Ends
  <2>2. first' \in Protocols
    BY <1>1 DEF Attempted, Ends
  <2>5. todo' \subseteq Protocols \ {0}
    <3>1. todo' = {} \/ todo' = todo
      <4>1. CASE rc = "ok"
        BY <1>1, <4>1 DEF Attempted, Ends
      <4>2. CASE rc # "ok"
        BY <1>1, <4>2 DEF Attempted
      <4>3. QED
        BY <4>1, <4>2
    <3>2. QED
      BY <3>1, Zenon
  <2>3. set' \in SettingsType
    BY <1>1 DEF SettingsType, Attempted, Ends
  <2>4. QED
    BY <2>1, <2>2, <2>3, <2>5
<1>2. CASE ~search /\ Fallback(rc)
  <2>1. PlaceType' /\ at' \in {"prompt", "next"}
    BY <1>2 DEF PlaceType, Attempted, StartsSearch
  <2>2. first' = 0 /\ first' \in Protocols
    BY <1>2 DEF Attempted
  <2>0. todo' \subseteq Searched
    BY <1>2, <2>2 DEF Attempted, StartsSearch
  <2>5. todo' \subseteq Protocols \ {0}
    BY <2>0, SearchedIs, Zenon
  <2>3. set' \in SettingsType
    BY <1>2 DEF SettingsType, Attempted, Ends
  <2>4. QED
    BY <2>1, <2>2, <2>3, <2>5, Zenon
<1>3. CASE ~search /\ ~Fallback(rc)
  <2>1. PlaceType' /\ at' \in {"prompt", "next"}
    BY <1>3 DEF PlaceType, Attempted, Ends
  <2>2. first' \in Protocols
    BY <1>3 DEF Attempted, Ends
  <2>5. todo' \subseteq Protocols \ {0}
    BY <1>3 DEF Attempted, Ends
  <2>3. set' \in SettingsType
    BY <1>3 DEF SettingsType, Attempted, Ends
  <2>4. QED
    BY <2>1, <2>2, <2>3, <2>5
<1>4. QED
  BY <1>1, <1>2, <1>3

\* What a request begins, with a protocol, without one, and with one nothing drives.
LEMMA RequestGoes ==
  ASSUME NEW w, Request(w)
  PROVE  /\ Prompt /\ excuse' = {} /\ UNCHANGED <<veh, sess, proto, hdr, bus, link, late>>
         /\ queue' = (IF queue = {} THEN {} ELSE {"old"})
         /\ \/ proto = 0 /\ StartsSearch(0) /\ ret' = "none" /\ UNCHANGED <<first, set>> /\ wants' = w
            \/ /\ proto # 0 /\ Bus(proto) # "none" /\ Direct /\ ret' = "none" /\ UNCHANGED <<first, set>>
               /\ wants' = w
            \/ /\ proto # 0 /\ Bus(proto) = "none" /\ StartsSearch(proto) /\ ret' = "none" /\ first' = 0
               /\ set' = [set EXCEPT !.fall = FALSE] /\ wants' = w
            \/ proto # 0 /\ ret' = "failed" /\ UNCHANGED <<at, search, todo, wants, first, set>>
BY DEF Request, NoDriver

-------------------------------------------------------------------------------
(* Types. *)

LEMMA ProtocolsAre ==
  /\ {0, 1, 2, 3, 4, 5, 6, 7, 8, 9} \subseteq Protocols
  /\ Asked \subseteq Protocols
BY Elm327Assumption DEF Protocols

\* An initialisation keeps the types, whatever comes of it.
LEMMA InitialisesKeepsType ==
  ASSUME ChoiceType, WireType, NEW got \in SessionNames, Initialises(got)
  PROVE  ChoiceType' /\ WireType'
<1>1. ChoiceType'
  BY DEF ChoiceType, Protocols, Initialises
<1>2. WireType'
  BY DEF WireType, Initialises
<1>3. QED
  BY <1>1, <1>2

LEMMA CouldIs == Could \in SessionNames
BY DEF Could, Can5, CanFast, FiveBaud, FastInit, SessionNames

\* No step takes a variable out of its type.
LEMMA TypeStep == TypeOK /\ [Next]_vars => TypeOK'
<1> SUFFICES ASSUME TypeOK, [Next]_vars PROVE TypeOK'
  OBVIOUS
<1> DEFINE Reasons == {"fault", "lapsed", "rejected", "asleep", "stale", "later"}
<1>0. /\ veh \in Vehicles /\ ChoiceType /\ PlaceType /\ set \in SettingsType
      /\ todo \subseteq Protocols \ {0} /\ WireType /\ excuse \subseteq Reasons
  BY DEF TypeOK, WireType
<1>a. ASSUME veh' \in Vehicles, ChoiceType', PlaceType', set' \in SettingsType,
             todo' \subseteq Protocols \ {0}, WireType', excuse' \subseteq Reasons
      PROVE  TypeOK'
  BY <1>a DEF TypeOK, WireType
<1> HIDE DEF Reasons
<1>b. ASSUME Idle PROVE veh' \in Vehicles /\ PlaceType' /\ todo' \subseteq Protocols \ {0} /\ excuse' \subseteq Reasons
  BY <1>0, <1>b DEF Idle, PlaceType
<1>1. CASE \E p \in Asked, fallback \in BOOLEAN : SP(p, fallback)
  <2>1. PICK p \in Asked, fallback \in BOOLEAN : SP(p, fallback)
    BY <1>1
  <2>2. p \in Protocols
    BY ProtocolsAre
  <2>3. ChoiceType' /\ WireType'
    BY <1>0, <2>1, <2>2, SelectsKeepsType, SelectsKeepsWire DEF SP
  <2>4. set' \in SettingsType
    BY <1>0, <2>1, <2>2, SettingsKeepType DEF SP, SettingsType
  <2>5. QED
    BY <1>a, <1>b, <2>1, <2>3, <2>4 DEF SP
<1>2. CASE PC
  <2>1. ChoiceType'
    BY <1>0, <1>2 DEF PC, Released, ChoiceType, BusNames, SessionNames, Protocols
  <2>2. WireType'
    BY <1>2 DEF PC, Released, WireType
  <2>3. set' \in SettingsType
    BY <1>0, <1>2, SettingsKeepType, ProtocolsAre DEF PC
  <2>4. QED
    BY <1>a, <1>b, <1>2, <2>1, <2>2, <2>3 DEF PC
<1>3. CASE Reset
  <2>1. ChoiceType'
    BY <1>0, <1>3 DEF Reset, Released, ChoiceType, BusNames, SessionNames, Protocols
  <2>2. WireType'
    BY <1>3 DEF Reset, Released, WireType
  <2>3. set' \in SettingsType
    <3>1. Defaults \in SettingsType
      BY DEF Defaults, SettingsType
    <3>2. set' = Defaults \/ set' = set
      BY <1>3 DEF Reset
    <3>3. QED
      BY <1>0, <3>1, <3>2
  <2>4. QED
    BY <1>a, <1>b, <1>3, <2>1, <2>2, <2>3 DEF Reset
<1>4. CASE Sets
  <2>1. ChoiceType'
    BY <1>0, <1>4 DEF Sets, choice, ChoiceType
  <2>2. WireType'
    BY <1>0, <1>4 DEF Sets, wireVars, WireType
  <2>3. set' \in SettingsType
    BY <1>0, <1>4 DEF Sets, SettingsType
  <2>4. QED
    BY <1>a, <1>b, <1>4, <2>1, <2>2, <2>3 DEF Sets
<1>5. CASE StartsSession
  <2>1. PICK got \in {Could, "none"} : Initialises(got)
    BY <1>5 DEF StartsSession
  <2>2. ChoiceType' /\ WireType'
    BY <1>0, <2>1, CouldIs, InitialisesKeepsType DEF SessionNames
  <2>3. set' = set
    BY <1>5 DEF StartsSession
  <2>4. QED
    BY <1>0, <1>a, <1>b, <1>5, <2>2, <2>3 DEF StartsSession
<1>6. CASE BI
  <2>1. ChoiceType'
    BY <1>0, <1>6 DEF BI, ChoiceType, SessionNames
  <2>2. WireType' /\ set' = set
    BY <1>0, <1>6 DEF BI, wireVars, WireType
  <2>3. QED
    BY <1>0, <1>a, <1>b, <1>6, <2>1, <2>2 DEF BI
<1>7. CASE \E w \in BOOLEAN : Request(w)
  <2>1. PICK w \in BOOLEAN : Request(w)
    BY <1>7
  <2>2. ChoiceType'
    BY <1>0, <2>1, RequestGoes, ProtocolsAre DEF ChoiceType
  <2>3. WireType'
    BY <1>0, <2>1, RequestGoes DEF WireType
  <2>4. PlaceType'
    BY <1>0, <2>1, RequestGoes DEF StartsSearch, Direct, PlaceType, Outcomes
  <2>5. todo' \subseteq Protocols \ {0}
    <3>1. todo' = todo \/ todo' \subseteq ({first'} \ {0}) \union Searched
      BY <2>1, RequestGoes DEF StartsSearch, Direct
    <3>2. first' \in Protocols
      BY <2>2 DEF ChoiceType
    <3>3. QED
      BY <1>0, <3>1, <3>2, SearchedIs, Zenon
  <2>6. veh' \in Vehicles /\ set' \in SettingsType /\ excuse' \subseteq Reasons
    BY <1>0, <2>1, RequestGoes DEF SettingsType
  <2>7. QED
    BY <1>a, <2>2, <2>3, <2>4, <2>5, <2>6
<1>8. CASE Tries
  <2>1. PICK p \in todo : set' = Settings(p) /\ Attempts(p)
    BY <1>8 DEF Tries
  <2>2. p \in Protocols
    BY <1>0
  <2>3. ChoiceType' /\ WireType'
    BY <1>0, <2>1, <2>2, SelectsKeepsType, SelectsKeepsWire DEF Attempts
  <2>4. set' \in SettingsType
    BY <1>0, <2>1, <2>2, SettingsKeepType
  <2>5. PlaceType'
    BY <1>0, <1>8, <2>1 DEF PlaceType, Tries, Attempts, Goes
  <2>6. todo' \subseteq Protocols \ {0}
    BY <1>0, <2>1 DEF Attempts
  <2>7. veh' \in Vehicles /\ excuse' \subseteq Reasons
    BY <1>0, <1>8, <2>1 DEF Tries, Attempts, Step, Excused, Reasons
  <2>8. QED
    BY <1>a, <2>3, <2>4, <2>5, <2>6, <2>7
<1>9. CASE FindsNothing
  <2>1. ChoiceType'
    <3>1. proto' = 0 /\ first' = 0 /\ hdr' = hdr /\ Released
      BY <1>9 DEF FindsNothing
    <3>2. QED
      BY <1>0, <3>1 DEF Released, ChoiceType, BusNames, SessionNames, Protocols
  <2>2. WireType'
    BY <1>9 DEF FindsNothing, Released, WireType
  <2>3. set' \in SettingsType
    BY <1>0, <1>9, SettingsKeepType, ProtocolsAre DEF FindsNothing, SettingsType
  <2>4. PlaceType'
    BY <1>9 DEF FindsNothing, Ends, PlaceType, Outcomes
  <2>5. veh' \in Vehicles /\ excuse' \subseteq Reasons /\ todo' \subseteq Protocols \ {0}
    BY <1>0, <1>9 DEF FindsNothing, Step, Ends
  <2>6. QED
    BY <1>a, <2>1, <2>2, <2>3, <2>4, <2>5
<1>10. CASE HasLink
  <2>1. ChoiceType'
    BY <1>0, <1>10 DEF HasLink, choice, ChoiceType
  <2>2. WireType' /\ set' \in SettingsType /\ todo' \subseteq Protocols \ {0}
    BY <1>0, <1>10 DEF HasLink, wireVars, WireType
  <2>3. PlaceType'
    BY <1>0, <1>10 DEF HasLink, PlaceType
  <2>4. veh' \in Vehicles /\ excuse' \subseteq Reasons
    BY <1>0, <1>10 DEF HasLink, Step, Excused, Reasons
  <2>5. QED
    BY <1>a, <2>1, <2>2, <2>3, <2>4
<1>11. CASE GetsLink
  <2>1. PICK got \in {Could, "none"} :
          /\ link' = got /\ sess' = got /\ UNCHANGED <<bus, wireVars>>
          /\ Excused((IF got # Could THEN {"asleep"} ELSE {})
                     \union (IF got = "unknown" THEN {"rejected"} ELSE {}))
          /\ IF Refused(got)
             THEN Attempted("no init") /\ UNCHANGED <<proto, hdr>>
             ELSE /\ at' = "drain" /\ UNCHANGED <<todo, search, wants, ret, first, set>>
                  /\ IF proto = 5 \/ got = "unknown" THEN UNCHANGED <<proto, hdr>>
                     ELSE /\ proto' = (IF got = "kwp" THEN 4 ELSE 3)
                          /\ hdr' = IF proto' = proto THEN hdr ELSE proto'
    BY <1>11 DEF GetsLink
  <2>2. /\ PlaceType' /\ todo' \subseteq Protocols \ {0}
        /\ first' \in Protocols /\ set' \in SettingsType
    <3>1. CASE Refused(got)
      BY <1>0, <2>1, <3>1, ProtocolsAre, AttemptedKeepsType DEF ChoiceType, Outcomes
    <3>2. CASE ~Refused(got)
      BY <1>0, <2>1, <3>2 DEF ChoiceType, PlaceType
    <3>3. QED
      BY <3>1, <3>2
  <2>3. proto' \in Protocols /\ hdr' \in 0 .. 9
    <3>1. proto' = proto \/ proto' = 3 \/ proto' = 4
      BY <2>1
    <3>2. hdr' = hdr \/ (hdr' = proto' /\ (proto' = 3 \/ proto' = 4))
      BY <2>1
    <3>3. QED
      BY <1>0, <3>1, <3>2 DEF ChoiceType, Protocols
  <2>4. ChoiceType'
    BY <1>0, <2>1, <2>2, <2>3, CouldIs DEF ChoiceType, SessionNames
  <2>5. WireType'
    BY <1>0, <2>1 DEF wireVars, WireType
  <2>6. veh' \in Vehicles /\ excuse' \subseteq Reasons
    BY <1>0, <1>11, <2>1 DEF GetsLink, Step, Excused, Reasons
  <2>7. QED
    BY <1>a, <2>2, <2>4, <2>5, <2>6
<1>12. CASE Drain
  <2>1. /\ PlaceType' /\ todo' \subseteq Protocols \ {0}
        /\ first' \in Protocols /\ set' \in SettingsType
    <3>1. CASE Attempted("failed")
      BY <1>0, <3>1, ProtocolsAre, AttemptedKeepsType DEF ChoiceType, Outcomes
    <3>2. CASE ~Attempted("failed")
      BY <1>0, <1>12, <3>2 DEF Drain, ChoiceType, PlaceType
    <3>3. QED
      BY <3>1, <3>2
  <2>2. bus' \in BusNames
    BY <1>0, <1>12 DEF Drain, ChoiceType, BusNames
  <2>3. ChoiceType'
    BY <1>0, <1>12, <2>1, <2>2 DEF Drain, ChoiceType
  <2>4. WireType'
    BY <1>0, <1>12 DEF Drain, WireType
  <2>5. veh' \in Vehicles /\ excuse' \subseteq Reasons
    BY <1>0, <1>12 DEF Drain, Step, Excused, Reasons
  <2>6. QED
    BY <1>a, <2>1, <2>3, <2>4, <2>5
<1>13. CASE Send
  <2>1. /\ PlaceType' /\ todo' \subseteq Protocols \ {0}
        /\ first' \in Protocols /\ set' \in SettingsType
    <3>1. CASE Attempted("failed") \/ Attempted("ok")
      BY <1>0, <3>1, ProtocolsAre, AttemptedKeepsType DEF ChoiceType, Outcomes
    <3>2. CASE ~(Attempted("failed") \/ Attempted("ok"))
      BY <1>0, <1>13, <3>2 DEF Send, ChoiceType, PlaceType
    <3>3. QED
      BY <3>1, <3>2
  <2>2. ChoiceType'
    BY <1>0, <1>13, <2>1 DEF Send, ChoiceType
  <2>3. WireType'
    BY <1>0, <1>13 DEF Send, wireVars, WireType
  <2>4. veh' \in Vehicles /\ excuse' \subseteq Reasons
    BY <1>0, <1>13 DEF Send, Step, Excused, Reasons
  <2>5. QED
    BY <1>a, <2>1, <2>2, <2>3, <2>4
<1>14. CASE CollectEnds
  <2>1. Attempted("ok") \/ Attempted("silent") \/ Attempted("failed")
    BY <1>14 DEF CollectEnds
  <2>2. /\ PlaceType' /\ todo' \subseteq Protocols \ {0}
        /\ first' \in Protocols /\ set' \in SettingsType
    BY <1>0, <2>1, ProtocolsAre, AttemptedKeepsType DEF ChoiceType, Outcomes
  <2>3. ChoiceType'
    BY <1>0, <1>14, <2>2 DEF CollectEnds, ChoiceType
  <2>4. WireType'
    BY <1>0, <1>14 DEF CollectEnds, WireType
  <2>5. veh' \in Vehicles /\ excuse' \subseteq Reasons
    BY <1>0, <1>14 DEF CollectEnds, Step, Excused, Reasons
  <2>6. QED
    BY <1>a, <2>2, <2>3, <2>4, <2>5
<1>17. CASE Hears
  <2>1. ChoiceType' /\ set' \in SettingsType /\ todo' \subseteq Protocols \ {0}
    BY <1>0, <1>17 DEF Hears, choice, ChoiceType
  <2>2. WireType'
    BY <1>0, <1>17 DEF Hears, WireType
  <2>3. PlaceType'
    BY <1>0, <1>17 DEF Hears, PlaceType
  <2>4. veh' \in Vehicles /\ excuse' \subseteq Reasons
    BY <1>0, <1>17 DEF Hears, Step, Excused, Reasons
  <2>5. QED
    BY <1>a, <2>1, <2>2, <2>3, <2>4
<1>15. CASE Arrives \/ Observe \/ Lapses \/ UNCHANGED vars
  <2>1. ChoiceType'
    BY <1>0, <1>15 DEF Arrives, Observe, Lapses, vars, choice, ChoiceType, SessionNames
  <2>2. WireType'
    BY <1>0, <1>15 DEF Arrives, Observe, Lapses, vars, wireVars, WireType
  <2>3. PlaceType' /\ todo' \subseteq Protocols \ {0}
    BY <1>0, <1>15 DEF Arrives, Observe, Lapses, vars, PlaceType
  <2>4. veh' \in Vehicles /\ excuse' \subseteq Reasons /\ set' \in SettingsType
    BY <1>0, <1>15 DEF Arrives, Observe, Lapses, vars
  <2>5. QED
    BY <1>a, <2>1, <2>2, <2>3, <2>4
<1>16. QED
  BY <1>1, <1>2, <1>3, <1>4, <1>5, <1>6, <1>7, <1>8, <1>9, <1>10, <1>11, <1>12, <1>13,
     <1>14, <1>15, <1>17 DEF Next, Command, RequestStep

-------------------------------------------------------------------------------
(* What is open belongs to the protocol. *)

BusRight ==
  /\ bus # "none" => bus = Bus(IF proto = 0 THEN first ELSE proto) /\ (proto = 0 => first # 0)
  /\ proto \in 1 .. 9 => hdr = proto
LEMMA SelectsKeepsBus ==
  ASSUME ChoiceType, BusRight, NEW p \in Protocols, Selects(p) \/ SelectFails(p)
  PROVE  BusRight'
<1> USE DEF ChoiceType, BusRight, Protocols
<1>1. CASE Already(p) /\ Kept /\ UNCHANGED <<proto, hdr, first>>
  BY <1>1 DEF Kept
<1>2. CASE ~Already(p) /\ p = 0 /\ first' = proto /\ proto' = 0 /\ hdr' = hdr /\ Kept
  BY <1>2, BusIs DEF Already, Kept
<1>3. CASE ~Already(p) /\ p # 0 /\ Bus(p) = "none" /\ proto' = p /\ hdr' = hdr /\ Released
  BY <1>3, BusIs DEF Released
<1>4. CASE Shared(p) /\ proto' = p /\ hdr' = p /\ first' = first /\ Kept
  BY <1>4, BusIs DEF Shared, Kept
<1>5. CASE Bus(p) # "none" /\ proto' = p /\ hdr' = p /\ bus' = Bus(p)
  BY <1>5, BusIs
<1>6. CASE SelectFails(p)
  BY <1>6, BusIs DEF SelectFails, Released
<1>7. QED
  BY <1>1, <1>2, <1>3, <1>4, <1>5, <1>6 DEF Selects

\* An initialisation stays on the K-Line.
LEMMA KlineKeepsBus ==
  ASSUME ChoiceType, BusRight, Kline, UNCHANGED bus,
         \/ UNCHANGED <<proto, hdr>>
         \/ proto' \in {3, 4} /\ hdr' = (IF proto' = proto THEN hdr ELSE proto')
  PROVE  BusRight'
BY BusIs DEF ChoiceType, BusRight, Protocols, Kline

\* With a protocol, what an attempt does of what comes first does not count.
LEMMA SameKeepsBus ==
  ASSUME BusRight, UNCHANGED <<proto, hdr, bus>>, proto # 0 \/ UNCHANGED first
  PROVE  BusRight'
BY DEF BusRight

\* Where an attempt leads.
LEMMA AttemptedGoes ==
  ASSUME NEW rc, Attempted(rc)
  PROVE  /\ at' \in {"prompt", "next"}
         /\ at' = "prompt" => search' = FALSE /\ todo' = {}
         /\ at' = "next" => search' = TRUE \/ search' = search
         /\ at' = "next" => ret' = ret
         /\ at' = "prompt" => ret' = rc
BY DEF Attempted, Ends, StartsSearch

LEMMA BusStep == TypeOK /\ BusFits /\ PromptFits /\ [Next]_vars => BusFits'
<1> SUFFICES ASSUME TypeOK, BusFits, PromptFits, [Next]_vars PROVE BusFits'
  OBVIOUS
<1>0. ChoiceType /\ BusRight /\ (Exchanging => proto \in 1 .. 9) /\ todo \subseteq Protocols \ {0}
  BY DEF TypeOK, BusFits, BusRight
<1>a. ASSUME BusRight', Exchanging' => proto' \in 1 .. 9 PROVE BusFits'
  BY <1>a DEF BusFits, BusRight
<1>b. ASSUME Prompt, UNCHANGED at PROVE ~Exchanging'
  BY <1>b DEF Prompt, Exchanging
<1>c. ASSUME NEW rc, Attempted(rc) PROVE ~Exchanging'
  BY <1>c, AttemptedGoes DEF Exchanging
<1>d. Released => bus' = "none"
  BY DEF Released
<1>1. CASE \E p \in Asked, fallback \in BOOLEAN : SP(p, fallback)
  <2>1. PICK p \in Asked, fallback \in BOOLEAN : SP(p, fallback)
    BY <1>1
  <2>2. BusRight'
    BY <1>0, <2>1, ProtocolsAre, SelectsKeepsBus DEF SP
  <2>3. QED
    BY <1>a, <1>b, <2>1, <2>2 DEF SP, Idle
<1>2. CASE PC \/ Reset \/ FindsNothing
  <2>1. /\ Released /\ at' = "prompt"
        /\ (proto' = 0 \/ UNCHANGED <<proto, hdr>>)
    BY <1>2 DEF PC, Reset, FindsNothing, Idle, Prompt, Ends
  <2>2. BusRight'
    BY <1>0, <1>d, <2>1 DEF BusRight
  <2>3. QED
    BY <1>a, <2>1, <2>2 DEF Exchanging
<1>3. CASE Sets \/ Arrives \/ Observe \/ Lapses \/ UNCHANGED vars
  <2>1. UNCHANGED <<proto, hdr, bus, first, at>>
    BY <1>3 DEF Sets, Arrives, Observe, Lapses, vars, choice, Idle
  <2>2. BusRight'
    BY <1>0, <2>1, SameKeepsBus
  <2>3. QED
    BY <1>0, <1>a, <2>1, <2>2 DEF Exchanging
<1>4. CASE StartsSession
  <2>1. PICK got \in {Could, "none"} : Initialises(got)
    BY <1>4 DEF StartsSession
  <2>2. BusRight'
    BY <1>0, <1>4, <2>1, KlineKeepsBus DEF StartsSession, Initialises
  <2>3. QED
    BY <1>a, <1>b, <1>4, <2>2 DEF StartsSession, Idle
<1>5. CASE BI
  <2>1. BusRight'
    BY <1>0, <1>5, SameKeepsBus DEF BI
  <2>2. QED
    BY <1>a, <1>b, <1>5, <2>1 DEF BI, Idle
<1>6. CASE \E w \in BOOLEAN : Request(w)
  <2>1. PICK w \in BOOLEAN : Request(w)
    BY <1>6
  <2>2. BusRight'
    BY <1>0, <2>1, SameKeepsBus, RequestGoes DEF BusRight
  <2>3. Exchanging' => proto' \in 1 .. 9
    <3>1. Bus(proto) # "none" => proto \in 1 .. 9
      BY <1>0, BusIs DEF ChoiceType, Protocols
    <3>2. QED
      BY <2>1, <3>1, RequestGoes DEF StartsSearch, Prompt, Exchanging
  <2>4. QED
    BY <1>a, <2>2, <2>3
<1>7. CASE Tries
  <2>1. PICK p \in todo : Attempts(p)
    BY <1>7 DEF Tries
  <2>2. p \in Protocols /\ p # 0
    BY <1>0
  <2>3. BusRight'
    BY <1>0, <2>1, <2>2, SelectsKeepsBus DEF Attempts
  <2>4. Exchanging' => proto' \in 1 .. 9
    <3>1. CASE Selects(p) /\ Goes(p)
      <4>1. proto' = p
        BY <2>2, <3>1 DEF Selects, Already
      <4>2. Bus(p) # "none" => p \in 1 .. 9
        BY <2>2, BusIs DEF Protocols
      <4>3. Bus(p) = "none" => ~Exchanging'
        BY <3>1 DEF Goes, Exchanging
      <4>4. QED
        BY <4>1, <4>2, <4>3
    <3>2. CASE at' = at
      BY <1>7, <3>2 DEF Tries, Exchanging
    <3>3. QED
      BY <2>1, <3>1, <3>2 DEF Attempts
  <2>5. QED
    BY <1>a, <2>3, <2>4
<1>8. CASE HasLink
  <2>1. UNCHANGED <<proto, hdr, bus, first>> /\ proto \in 1 .. 9
    BY <1>0, <1>8 DEF HasLink, choice, Exchanging
  <2>2. BusRight'
    BY <1>0, <2>1, SameKeepsBus
  <2>3. QED
    BY <1>a, <2>1, <2>2
<1>9. CASE GetsLink
  <2>1. Kline
    BY <1>9 DEF GetsLink, PromptFits
  <2>2. PICK got \in {Could, "none"} :
          /\ UNCHANGED bus
          /\ \/ UNCHANGED <<proto, hdr>>
             \/ proto' \in {3, 4} /\ hdr' = (IF proto' = proto THEN hdr ELSE proto')
    BY <1>9 DEF GetsLink
  <2>3. BusRight'
    BY <1>0, <2>1, <2>2, KlineKeepsBus
  <2>4. proto' \in 1 .. 9
    <3>1. proto \in 1 .. 9
      BY <1>0, <1>9 DEF GetsLink, Exchanging
    <3>2. QED
      BY <2>2, <3>1
  <2>5. QED
    BY <1>a, <2>3, <2>4
<1>10. CASE Drain
  <2>1. proto \in 1 .. 9 /\ UNCHANGED <<proto, hdr>>
    BY <1>0, <1>10 DEF Drain, Exchanging
  <2>2. bus' = bus \/ bus' = Bus(proto)
    BY <1>10 DEF Drain
  <2>3. BusRight'
    BY <1>0, <2>1, <2>2 DEF BusRight
  <2>4. QED
    BY <1>a, <2>1, <2>3
<1>11. CASE Send \/ Hears \/ CollectEnds
  <2>1. proto \in 1 .. 9 /\ UNCHANGED <<proto, hdr, bus>>
    BY <1>0, <1>11 DEF Send, Hears, CollectEnds, Collecting, Exchanging, choice
  <2>2. BusRight'
    BY <1>0, <2>1, SameKeepsBus
  <2>3. QED
    BY <1>a, <2>1, <2>2
<1>12. QED
  BY <1>1, <1>2, <1>3, <1>4, <1>5, <1>6, <1>7, <1>8, <1>9, <1>10, <1>11
     DEF Next, Command, RequestStep

-------------------------------------------------------------------------------
(* What is kept at the prompt and before it. *)

LEMMA PromptStep == TypeOK /\ BusFits /\ PromptFits /\ [Next]_vars => PromptFits'
<1> SUFFICES ASSUME TypeOK, BusFits, PromptFits, [Next]_vars PROVE PromptFits'
  OBVIOUS
<1> DEFINE Nothing == ret = "not found" => proto = 0 /\ bus = "none" /\ first = 0
           Rest == /\ at = "prompt" => ~search /\ todo = {}
                   /\ at = "next" => search
                   /\ at # "prompt" => ret = "none"
           Ensured == at = "ensure" => Kline /\ (search => bus = "kline")
<1>0. ChoiceType /\ PlaceType /\ todo \subseteq Protocols \ {0} /\ Nothing /\ Rest /\ Ensured
  BY DEF TypeOK, PromptFits
<1>a. ASSUME Nothing', Rest', Ensured' PROVE PromptFits'
  BY <1>a DEF PromptFits
<1>b. ASSUME Prompt, Idle PROVE Nothing' /\ Rest' /\ Ensured'
  BY <1>0, <1>b DEF Prompt, Idle
<1>c. ASSUME NEW rc \in {"ok", "silent", "failed", "no init"}, Attempted(rc), at # "prompt"
      PROVE  Nothing' /\ Rest' /\ Ensured'
  <2>1. Rest' /\ (at' = "prompt" \/ at' = "next")
    BY <1>0, <1>c DEF Attempted, Ends, StartsSearch, PlaceType
  <2>2. ret' = rc \/ ret' = "none"
    BY <1>0, <1>c, AttemptedGoes
  <2>3. QED
    BY <2>1, <2>2
<1>1. CASE \/ \E p \in Asked, fallback \in BOOLEAN : SP(p, fallback)
           \/ PC \/ Reset \/ Sets \/ StartsSession \/ BI
  <2>1. Prompt /\ Idle
    BY <1>1 DEF SP, PC, Reset, Sets, StartsSession, BI
  <2>2. QED
    BY <1>a, <1>b, <2>1
<1>2. CASE \E w \in BOOLEAN : Request(w)
  <2>1. PICK w \in BOOLEAN : Request(w)
    BY <1>2
  <2>2. Nothing'
    BY <2>1, RequestGoes
  <2>3. Rest'
    BY <1>0, <2>1, RequestGoes DEF Prompt, StartsSearch, Direct
  <2>4. Ensured'
    BY <1>0, <2>1, RequestGoes DEF Prompt, StartsSearch, Direct, Kline
  <2>5. QED
    BY <1>a, <2>2, <2>3, <2>4
<1>3. CASE Tries
  <2>1. PICK p \in todo : Attempts(p)
    BY <1>3 DEF Tries
  <2>2. p \in Protocols /\ p # 0
    BY <1>0
  <2>3. at = "next" /\ UNCHANGED <<search, ret>>
    BY <1>3 DEF Tries
  <2>4. at' = "next" \/ at' = "ensure" \/ at' = "drain"
    BY <2>1, <2>3 DEF Attempts, Goes
  <2>5. Nothing' /\ Rest'
    BY <1>0, <2>3, <2>4
  <2>6. Ensured'
    <3>1. CASE SelectFails(p) /\ at' = at
      BY <2>3, <3>1
    <3>2. CASE at' # "ensure"
      BY <3>2
    <3>3. CASE Selects(p) /\ Goes(p) /\ at' = "ensure"
      <4>1. Bus(p) = "kline"
        BY <3>3 DEF Goes
      <4>2. proto' = p /\ bus' = Bus(p)
        BY <2>2, <3>3, <4>1 DEF Selects, Already, Shared, Kept
      <4>3. proto' \in 3 .. 5
        BY <2>2, <4>1, <4>2, BusIs DEF Protocols
      <4>4. QED
        BY <4>1, <4>2, <4>3 DEF Kline
    <3>4. QED
      BY <2>1, <3>1, <3>2, <3>3 DEF Attempts
  <2>7. QED
    BY <1>a, <2>5, <2>6
<1>4. CASE FindsNothing
  <2>1. proto' = 0 /\ bus' = "none" /\ first' = 0 /\ at' = "prompt" /\ search' = FALSE /\ todo' = {}
    BY <1>4 DEF FindsNothing, Released, Ends
  <2>2. QED
    BY <1>a, <2>1
<1>5. CASE HasLink
  <2>1. at = "ensure" /\ at' = "drain" /\ ret' = ret
    BY <1>5 DEF HasLink
  <2>2. QED
    BY <1>0, <1>a, <2>1
<1>6. CASE GetsLink
  <2>1. at = "ensure" /\ (Attempted("no init") \/ (at' = "drain" /\ ret' = ret))
    BY <1>6 DEF GetsLink
  <2>2. QED
    BY <1>0, <1>a, <1>c, <2>1
<1>7. CASE Drain
  <2>1. at = "drain" /\ (Attempted("failed") \/ (at' = "send" /\ ret' = ret))
    BY <1>7 DEF Drain
  <2>2. QED
    BY <1>0, <1>a, <1>c, <2>1
<1>8. CASE Send
  <2>1. at = "send" /\ (Attempted("failed") \/ Attempted("ok") \/ (at' = "collect" /\ ret' = ret))
    BY <1>8 DEF Send
  <2>2. QED
    BY <1>0, <1>a, <1>c, <2>1
<1>9. CASE CollectEnds
  <2>1. at # "prompt" /\ (Attempted("ok") \/ Attempted("silent") \/ Attempted("failed"))
    BY <1>9 DEF CollectEnds, Collecting
  <2>2. QED
    BY <1>0, <1>a, <1>c, <2>1
<1>12. CASE Hears
  <2>1. at # "prompt" /\ at' \in {"heard", "more"} /\ ret' = ret
    BY <1>12 DEF Hears, Collecting
  <2>2. QED
    BY <1>0, <1>a, <2>1
<1>10. CASE Arrives \/ Observe \/ Lapses \/ UNCHANGED vars
  <2>1. UNCHANGED <<proto, bus, first, at, search, todo, ret>>
    BY <1>10 DEF Arrives, Observe, Lapses, vars, choice
  <2>2. QED
    BY <1>0, <1>a, <2>1 DEF Kline
<1>11. QED
  BY <1>1, <1>2, <1>3, <1>4, <1>5, <1>6, <1>7, <1>8, <1>9, <1>10, <1>12
     DEF Next, Command, RequestStep

-------------------------------------------------------------------------------
(* Sessions. *)

LinkRight ==
  /\ link # "none" => bus = "kline"
  /\ sess # "none" => link # "none"
  /\ sess \in {"none"} \union Agreed

\* What an initialisation makes of the vehicle is what the vehicle agrees to.
LEMMA CouldBeAgreed ==
  ASSUME NEW got \in {Could, "none"}
  PROVE  got \in {"none"} \union Agreed /\ (got # "none" => bus = "kline")
<1>1. FiveBaud \in {"none"} \union Agreed
  BY DEF FiveBaud, Agreed
<1>2. FastInit \in {"none"} \union Agreed
  BY DEF FastInit, Agreed
<1>3. Could = FiveBaud \/ Could = FastInit \/ Could = "none"
  BY DEF Could, Can5, CanFast
<1>4. Could # "none" => bus = "kline"
  BY DEF Could, Can5, CanFast
<1>5. QED
  BY <1>1, <1>2, <1>3, <1>4

LEMMA SelectsKeepsLink ==
  ASSUME LinkRight, UNCHANGED veh, NEW p, Selects(p) \/ SelectFails(p)
  PROVE  LinkRight'
BY DEF LinkRight, Agreed, Selects, SelectFails, Kept, Released

LEMMA SessionStep ==
  TypeOK /\ BusFits /\ PromptFits /\ SessionFits /\ [Next]_vars => SessionFits'
<1> SUFFICES ASSUME TypeOK, BusFits, PromptFits, SessionFits, [Next]_vars PROVE SessionFits'
  OBVIOUS
<1> DEFINE Held == at \notin {"prompt", "next", "ensure"} /\ Kline /\ excuse = {} => sess # "none"
<1>0. LinkRight /\ Held /\ todo \subseteq Protocols \ {0}
  BY DEF TypeOK, SessionFits, LinkRight, Exchanging
<1>a. ASSUME LinkRight', Held' PROVE SessionFits'
  BY <1>a DEF SessionFits, LinkRight, Exchanging
<1>b. ASSUME Prompt, Idle PROVE veh' = veh /\ Held'
  BY <1>b DEF Prompt, Idle
<1>c. ASSUME NEW rc, Attempted(rc) PROVE Held'
  BY <1>c, AttemptedGoes
<1>d. ASSUME Released PROVE LinkRight'
  BY <1>d DEF Released, LinkRight
<1>e. ASSUME UNCHANGED <<link, sess, bus, veh>> PROVE LinkRight'
  BY <1>0, <1>e DEF LinkRight, Agreed
<1>1. CASE \E p \in Asked, fallback \in BOOLEAN : SP(p, fallback)
  <2>1. PICK p \in Asked, fallback \in BOOLEAN : SP(p, fallback)
    BY <1>1
  <2>2. LinkRight'
    BY <1>0, <1>b, <2>1, SelectsKeepsLink DEF SP
  <2>3. QED
    BY <1>a, <1>b, <2>1, <2>2 DEF SP
<1>2. CASE PC \/ Reset
  BY <1>a, <1>b, <1>d, <1>2 DEF PC, Reset
<1>3. CASE FindsNothing
  <2>1. Released /\ at' = "prompt"
    BY <1>3 DEF FindsNothing, Ends
  <2>2. QED
    BY <1>a, <1>d, <2>1
<1>4. CASE Sets
  BY <1>a, <1>b, <1>e, <1>4 DEF Sets, choice
<1>5. CASE StartsSession
  <2>1. PICK got \in {Could, "none"} : Initialises(got)
    BY <1>5 DEF StartsSession
  <2>2. veh' = veh
    BY <1>b, <1>5 DEF StartsSession
  <2>3. link' = got /\ sess' = got /\ bus' = bus
    BY <2>1 DEF Initialises
  <2>4. LinkRight'
    BY <2>2, <2>3, CouldBeAgreed DEF LinkRight, Agreed
  <2>5. QED
    BY <1>a, <1>b, <1>5, <2>4 DEF StartsSession
<1>6. CASE BI
  <2>1. bus = "kline" /\ UNCHANGED <<bus, sess>> /\ link' # "none"
    BY <1>6 DEF BI
  <2>2. LinkRight'
    BY <1>0, <1>b, <1>6, <2>1 DEF BI, LinkRight, Agreed
  <2>3. QED
    BY <1>a, <1>b, <1>6, <2>2 DEF BI
<1>7. CASE \E w \in BOOLEAN : Request(w)
  <2>1. PICK w \in BOOLEAN : Request(w)
    BY <1>7
  <2>2. LinkRight'
    BY <1>e, <2>1, RequestGoes
  <2>3. Held'
    BY <2>1, RequestGoes DEF Prompt, StartsSearch, Direct, Kline
  <2>4. QED
    BY <1>a, <2>2, <2>3
<1>8. CASE Tries
  <2>1. PICK p \in todo : Attempts(p)
    BY <1>8 DEF Tries
  <2>2. LinkRight'
    BY <1>0, <1>8, <2>1, SelectsKeepsLink DEF Tries, Step, Attempts
  <2>3. Held'
    <3>1. CASE at' = at
      BY <1>8, <3>1 DEF Tries
    <3>2. CASE at' \in {"next", "ensure"}
      BY <3>2
    <3>3. CASE Selects(p) /\ Goes(p) /\ at' = "drain"
      <4>1. proto' = p /\ p \in Protocols
        BY <1>0, <3>3 DEF Selects, Already
      <4>2. Bus(p) # "kline"
        BY <3>3 DEF Goes
      <4>3. proto' \notin 3 .. 5
        BY <4>1, <4>2, BusIs DEF Protocols
      <4>4. QED
        BY <4>3 DEF Kline
    <3>4. QED
      BY <2>1, <3>1, <3>2, <3>3 DEF Attempts, Goes
  <2>4. QED
    BY <1>a, <2>2, <2>3
<1>9. CASE HasLink
  <2>1. UNCHANGED <<link, sess, bus, veh>>
    BY <1>9 DEF HasLink, choice, Step
  <2>2. excuse' = {} => sess # "none"
    BY <1>9 DEF HasLink, Excused
  <2>3. QED
    BY <1>a, <1>e, <2>1, <2>2
<1>10. CASE GetsLink
  <2>1. PICK got \in {Could, "none"} :
          /\ link' = got /\ sess' = got /\ UNCHANGED bus
          /\ (Refused(got) => Attempted("no init"))
    BY <1>10 DEF GetsLink
  <2>2. LinkRight'
    BY <1>10, <2>1, CouldBeAgreed DEF GetsLink, Step, LinkRight, Agreed
  <2>3. Held'
    BY <1>c, <2>1 DEF Refused
  <2>4. QED
    BY <1>a, <2>2, <2>3
<1>11. CASE Drain
  <2>1. UNCHANGED <<link, sess, veh, proto>> /\ at = "drain"
    BY <1>11 DEF Drain, Step
  <2>0. bus' = bus \/ (bus' = "can" /\ Bus(proto) = "can")
    BY <1>11 DEF Drain
  <2>2. bus # "none" => bus = Bus(IF proto = 0 THEN first ELSE proto)
    BY DEF BusFits
  <2>3. proto # 0
    BY <2>1 DEF BusFits, Exchanging
  <2>4. LinkRight'
    <3>1. CASE bus' = bus
      BY <1>e, <2>1, <3>1
    <3>2. CASE bus' = "can" /\ Bus(proto) = "can"
      <4>1. link = "none"
        BY <1>0, <2>2, <2>3, <3>2 DEF LinkRight
      <4>2. QED
        BY <1>0, <2>1, <4>1 DEF LinkRight, Agreed
    <3>3. QED
      BY <2>0, <3>1, <3>2
  <2>5. Held'
    <3>1. CASE at' = "send" /\ UNCHANGED excuse
      BY <1>0, <2>1, <3>1 DEF Kline
    <3>2. CASE Attempted("failed")
      BY <1>c, <3>2
    <3>3. QED
      BY <1>11, <3>1, <3>2 DEF Drain
  <2>6. QED
    BY <1>a, <2>4, <2>5
<1>12. CASE Send
  <2>1. UNCHANGED <<link, sess, veh, proto, bus>> /\ at = "send"
    BY <1>12 DEF Send, Step
  <2>2. Held'
    <3>1. CASE at' = "collect" /\ UNCHANGED excuse
      BY <1>0, <2>1, <3>1 DEF Kline
    <3>2. CASE Attempted("failed") \/ Attempted("ok")
      BY <1>c, <3>2
    <3>3. QED
      BY <1>12, <3>1, <3>2 DEF Send
  <2>3. QED
    BY <1>a, <1>e, <2>1, <2>2
<1>13. CASE CollectEnds
  <2>1. UNCHANGED <<link, sess, veh, proto, bus>>
    BY <1>13 DEF CollectEnds, Step
  <2>2. Held'
    BY <1>c, <1>13 DEF CollectEnds
  <2>3. QED
    BY <1>a, <1>e, <2>1, <2>2
<1>17. CASE Hears
  <2>1. UNCHANGED <<link, sess, veh, proto, bus>>
    BY <1>17 DEF Hears, Step, choice
  <2>2. at \notin {"prompt", "next", "ensure"} /\ (excuse' = {} => excuse = {})
    BY <1>17 DEF Hears, Collecting, Excused
  <2>3. Held'
    BY <1>0, <2>1, <2>2 DEF Kline
  <2>4. QED
    BY <1>a, <1>e, <2>1, <2>3
<1>14. CASE Lapses
  <2>1. UNCHANGED <<veh, bus, link, at>> /\ sess' = "none" /\ at = "prompt"
    BY <1>14 DEF Lapses, choice, Prompt
  <2>2. QED
    BY <1>0, <1>a, <2>1 DEF LinkRight
<1>15. CASE Arrives \/ Observe \/ UNCHANGED vars
  <2>1. UNCHANGED <<link, sess, bus, veh, at, proto, excuse>>
    BY <1>15 DEF Arrives, Observe, vars, choice
  <2>2. QED
    BY <1>0, <1>a, <1>e, <2>1 DEF Kline
<1>16. QED
  BY <1>1, <1>2, <1>3, <1>4, <1>5, <1>6, <1>7, <1>8, <1>9, <1>10, <1>11, <1>12, <1>13,
     <1>14, <1>15, <1>17 DEF Next, Command, RequestStep

-------------------------------------------------------------------------------
(* Receptions. *)

LEMMA SelectsKeepsQueue ==
  ASSUME bus = "none" => queue = {}, NEW p, Selects(p) \/ SelectFails(p)
  PROVE  bus' = "none" => queue' = {}
BY DEF Selects, SelectFails, Kept, Released

LEMMA QueueStep == TypeOK /\ BusFits /\ QueueFits /\ [Next]_vars => QueueFits'
<1> SUFFICES ASSUME TypeOK, BusFits, QueueFits, [Next]_vars PROVE QueueFits'
  OBVIOUS
<1> DEFINE Shut == bus = "none" => queue = {}
           NoOld == /\ at = "send" /\ bus # "kline" => "old" \notin queue
                    /\ Collecting => "old" \notin queue
<1>0. Shut /\ NoOld /\ (bus # "none" => bus = Bus(IF proto = 0 THEN first ELSE proto))
  BY DEF QueueFits, BusFits
<1>a. ASSUME Shut', NoOld' PROVE QueueFits'
  BY <1>a DEF QueueFits
<1>b. ASSUME Prompt, Idle PROVE NoOld'
  BY <1>b DEF Prompt, Idle, Collecting
<1>c. ASSUME NEW rc, Attempted(rc) PROVE NoOld'
  BY <1>c, AttemptedGoes DEF Collecting
<1>d. ASSUME Released PROVE Shut'
  BY <1>d DEF Released
<1>e. ASSUME UNCHANGED <<bus, queue>> PROVE Shut'
  BY <1>0, <1>e
<1>1. CASE \E p \in Asked, fallback \in BOOLEAN : SP(p, fallback)
  <2>1. PICK p \in Asked, fallback \in BOOLEAN : SP(p, fallback)
    BY <1>1
  <2>2. Shut'
    BY <1>0, <2>1, SelectsKeepsQueue DEF SP
  <2>3. QED
    BY <1>a, <1>b, <2>1, <2>2 DEF SP
<1>2. CASE PC \/ Reset
  BY <1>a, <1>b, <1>d, <1>2 DEF PC, Reset
<1>3. CASE Sets \/ StartsSession \/ BI
  <2>1. Prompt /\ Idle /\ UNCHANGED <<bus, queue>>
    BY <1>3 DEF Sets, StartsSession, BI, Initialises, choice, wireVars
  <2>2. QED
    BY <1>a, <1>b, <1>e, <2>1
<1>4. CASE \E w \in BOOLEAN : Request(w)
  <2>1. PICK w \in BOOLEAN : Request(w)
    BY <1>4
  <2>2. Shut'
    BY <1>0, <2>1, RequestGoes
  <2>3. NoOld'
    BY <2>1, RequestGoes DEF Prompt, StartsSearch, Direct, Collecting
  <2>4. QED
    BY <1>a, <2>2, <2>3
<1>5. CASE Tries
  <2>1. PICK p \in todo : Attempts(p)
    BY <1>5 DEF Tries
  <2>2. Shut'
    BY <1>0, <2>1, SelectsKeepsQueue DEF Attempts
  <2>3. NoOld'
    BY <1>5, <2>1 DEF Tries, Attempts, Goes, Collecting
  <2>4. QED
    BY <1>a, <2>2, <2>3
<1>6. CASE FindsNothing
  <2>1. NoOld'
    BY <1>6 DEF FindsNothing, Ends, Collecting
  <2>2. QED
    BY <1>a, <1>d, <1>6, <2>1 DEF FindsNothing
<1>7. CASE HasLink
  <2>1. at' = "drain" /\ UNCHANGED <<bus, queue>>
    BY <1>7 DEF HasLink, choice, wireVars
  <2>2. QED
    BY <1>a, <1>e, <2>1 DEF Collecting
<1>8. CASE GetsLink
  <2>1. (at' = "drain" \/ Attempted("no init")) /\ UNCHANGED <<bus, queue>>
    BY <1>8 DEF GetsLink, wireVars
  <2>2. QED
    BY <1>a, <1>c, <1>e, <2>1 DEF Collecting
<1>9. CASE Drain
  <2>1. at = "drain" /\ UNCHANGED proto /\ queue' = (IF Bus(proto) = "kline" THEN queue ELSE {})
    BY <1>9 DEF Drain
  <2>2. bus' = bus \/ bus' = "can"
    BY <1>9 DEF Drain
  <2>3. Shut'
    BY <1>0, <2>1, <2>2
  <2>4. CASE at' = "send"
    <3>1. proto # 0
      BY <2>1 DEF BusFits, Exchanging
    <3>2. CASE queue' = {}
      BY <1>a, <2>3, <3>2
    <3>3. CASE Bus(proto) = "kline" /\ queue # {}
      <4>1. bus = "kline" /\ bus' = bus
        BY <1>0, <1>9, <2>4, <3>1, <3>3 DEF Drain
      <4>2. QED
        BY <1>a, <2>3, <2>4, <4>1 DEF Collecting
    <3>4. QED
      BY <2>1, <3>2, <3>3
  <2>5. CASE Attempted("failed")
    BY <1>a, <1>c, <2>3, <2>5
  <2>6. QED
    BY <1>9, <2>4, <2>5 DEF Drain
<1>10. CASE Send
  <2>1. at = "send" /\ bus' = bus
    BY <1>10 DEF Send
  <2>2. Shut'
    BY <1>0, <1>10, <2>1 DEF Send, wireVars
  <2>3. CASE at' = "collect" /\ queue' = (IF bus = "kline" THEN {} ELSE queue)
    BY <1>0, <1>a, <2>1, <2>2, <2>3 DEF Collecting
  <2>4. CASE Attempted("failed") \/ Attempted("ok")
    BY <1>a, <1>c, <2>2, <2>4
  <2>5. QED
    BY <1>10, <2>3, <2>4 DEF Send
<1>11. CASE CollectEnds
  <2>1. Shut'
    BY <1>0, <1>11 DEF CollectEnds
  <2>2. NoOld'
    BY <1>c, <1>11 DEF CollectEnds
  <2>3. QED
    BY <1>a, <2>1, <2>2
<1>16. CASE Hears
  <2>1. bus' = bus /\ queue' \subseteq queue /\ Collecting /\ at' # "send"
    BY <1>16 DEF Hears, choice
  <2>2. QED
    BY <1>0, <1>a, <2>1
<1>12. CASE Arrives
  <2>1. bus # "none" /\ UNCHANGED <<at, bus>> /\ queue' = queue \union {"late"}
    BY <1>12 DEF Arrives, choice
  <2>2. QED
    BY <1>0, <1>a, <2>1 DEF Collecting
<1>13. CASE Observe
  <2>1. queue' = {}
    BY <1>13 DEF Observe
  <2>2. QED
    BY <1>a, <2>1
<1>14. CASE Lapses \/ UNCHANGED vars
  <2>1. UNCHANGED <<at, bus, queue>>
    BY <1>14 DEF Lapses, vars, choice, wireVars
  <2>2. QED
    BY <1>0, <1>a, <2>1 DEF Collecting
<1>15. QED
  BY <1>1, <1>2, <1>3, <1>4, <1>5, <1>6, <1>7, <1>8, <1>9, <1>10, <1>11, <1>12, <1>13, <1>14, <1>16
     DEF Next, Command, RequestStep

-------------------------------------------------------------------------------
(* The search. *)

\* What each vehicle needs of the protocols L that are left.
Needs(v, s, k, L) ==
  /\ v \in DOMAIN Native => Native[v] \in L
  /\ v = "iso" => 3 \in L
  /\ v \in {"kwp", "fast"} => 5 \in L
  /\ v = "odd" =>
       /\ s = "unknown" => 3 \in L
       /\ 5 \in L \/ (3 \in L /\ (s = "unknown" \/ k = "none"))

\* More protocols left, and a session no more than ended, keep it.
LEMMA NeedsGrow ==
  ASSUME NEW v, NEW s, NEW k, NEW L, NEW s1, NEW k1, NEW L1, Needs(v, s, k, L), L \subseteq L1,
         (s1 = s /\ k1 = k) \/ (s1 = "none" /\ k1 = "none")
  PROVE  Needs(v, s1, k1, L1)
BY DEF Needs

\* A whole search has what any vehicle needs.
LEMMA SearchedSuffices ==
  ASSUME NEW v, NEW s, NEW k, NEW L, Searched \subseteq L
  PROVE  Needs(v, s, k, L)
<1>1. {1, 2, 3, 5, 6, 7, 8, 9} \subseteq L
  BY SearchedIs
<1>2. v \in DOMAIN Native => Native[v] \in L
  BY <1>1, NativeIs
<1>3. QED
  BY <1>1, <1>2 DEF Needs

\* What silence tells of the protocol that was tried.
LEMMA SilenceTells ==
  ASSUME BusFits, SessionFits, at = "collect", excuse = {}, ~Speaks
  PROVE  /\ veh \in DOMAIN Native => Native[veh] # proto
         /\ veh = "iso" => proto # 3
         /\ veh \in {"kwp", "fast"} => proto # 5
         /\ veh = "odd" =>
              /\ sess = "unknown" => proto # 3
              /\ proto = 5 => sess = "unknown"
              /\ proto \in {3, 5} => link # "none"
<1>1. proto \in {3, 5} => hdr = proto /\ Kline
  BY DEF BusFits, Kline
<1>2. proto \in {3, 5} => sess # "none" /\ link # "none"
  BY <1>1 DEF SessionFits, Exchanging
<1>3. sess \in {"none"} \union Agreed
  BY DEF SessionFits
<1>4. veh \in DOMAIN Native => Native[veh] # proto
  BY DEF Speaks
<1>5. veh = "iso" => proto # 3
  BY <1>1, <1>2, <1>3 DEF Speaks, Agreed
<1>6. veh \in {"kwp", "fast"} => proto # 5
  BY <1>1, <1>2, <1>3 DEF Speaks, Agreed
<1>7. veh = "odd" => /\ sess = "unknown" => proto # 3
                     /\ proto = 5 => sess = "unknown"
  BY <1>1, <1>2, <1>3 DEF Speaks, Agreed
<1>8. QED
  BY <1>2, <1>4, <1>5, <1>6, <1>7

LEMMA SilenceNeeds ==
  ASSUME BusFits, SessionFits, at = "collect", excuse = {}, ~Speaks,
         NEW L, Needs(veh, sess, link, L \union {proto})
  PROVE  Needs(veh, sess, link, L)
<1>1. veh \in DOMAIN Native => Native[veh] \in L
  BY SilenceTells DEF Needs
<1>2. veh = "iso" => 3 \in L
  BY SilenceTells DEF Needs
<1>3. veh \in {"kwp", "fast"} => 5 \in L
  BY SilenceTells DEF Needs
<1>4. ASSUME veh = "odd"
      PROVE  /\ sess = "unknown" => 3 \in L
             /\ 5 \in L \/ (3 \in L /\ (sess = "unknown" \/ link = "none"))
  BY <1>4, SilenceTells DEF Needs
<1>5. QED
  BY <1>1, <1>2, <1>3, <1>4 DEF Needs

\* An initialisation, if nothing excuses it, ends a K-Line protocol the vehicle
\* does not speak, or has it spoken.
LEMMA InitNeeds ==
  ASSUME Kline, bus = "kline", NEW L, Needs(veh, sess, link, L \union {proto}), Could # "unknown"
  PROVE  /\ Refused(Could) => Needs(veh, Could, Could, L)
         /\ ~Refused(Could) =>
              Needs(veh, Could, Could,
                    L \union {IF proto = 5 THEN proto ELSE IF Could = "kwp" THEN 4 ELSE 3})
<1>1. proto \in {3, 4, 5}
  BY DEF Kline
<1>2. veh \in DOMAIN Native => Native[veh] \in L
  <2>1. veh \in DOMAIN Native => Native[veh] # proto
    BY <1>1, NativeIs
  <2>2. QED
    BY <2>1 DEF Needs
<1>3. Could = (IF proto = 5 THEN FastInit ELSE FiveBaud)
  BY DEF Could, CanFast, Can5
<1>4. Refused(Could) <=> Could = "none"
  BY DEF Refused
<1>5. CASE veh = "iso"
  <2>1. Could = (IF proto = 5 THEN "none" ELSE "iso")
    BY <1>3, <1>5 DEF FastInit, FiveBaud
  <2>2. 3 \in L \union {proto}
    BY <1>5 DEF Needs
  <2>3. QED
    BY <1>2, <1>4, <1>5, <2>1, <2>2 DEF Needs
<1>6. CASE veh = "kwp"
  <2>1. Could = "kwp"
    BY <1>3, <1>6 DEF FastInit, FiveBaud
  <2>2. 5 \in L \union {proto}
    BY <1>6 DEF Needs
  <2>3. QED
    BY <1>2, <1>4, <1>6, <2>1, <2>2 DEF Needs
<1>7. CASE veh = "fast"
  <2>1. Could = (IF proto = 5 THEN "kwp" ELSE "none")
    BY <1>3, <1>7 DEF FastInit, FiveBaud
  <2>2. 5 \in L \union {proto}
    BY <1>7 DEF Needs
  <2>3. QED
    BY <1>2, <1>4, <1>7, <2>1, <2>2 DEF Needs
<1>8. CASE veh = "odd"
  <2>1. proto = 5 /\ Could = "kwp"
    BY <1>3, <1>8 DEF FastInit, FiveBaud
  <2>2. QED
    BY <1>2, <1>4, <1>8, <2>1 DEF Needs
<1>9. CASE veh \notin {"iso", "kwp", "fast", "odd"}
  BY <1>2, <1>9 DEF Needs
<1>10. QED
  BY <1>5, <1>6, <1>7, <1>8, <1>9

\* A step of a search keeps what it needs, unless something excuses it.
LEMMA SearchStep ==
  TypeOK /\ BusFits /\ SessionFits /\ PromptFits /\ SearchFits /\ [Next]_vars => SearchFits'
<1> SUFFICES ASSUME TypeOK, BusFits, SessionFits, PromptFits, SearchFits, [Next]_vars,
                    search', excuse' = {}
             PROVE  Needs(veh', sess', link', Left')
  BY DEF SearchFits, Needs
<1>0. /\ search /\ excuse = {} => Needs(veh, sess, link, Left)
      /\ todo \subseteq Protocols \ {0}
      /\ at = "prompt" => search = FALSE
      /\ at = "ensure" => Kline /\ (search => bus = "kline")
  <2>1. search /\ excuse = {} => Needs(veh, sess, link, Left)
    BY DEF SearchFits, Needs
  <2>2. at = "prompt" => search = FALSE
    BY DEF PromptFits, TypeOK, PlaceType
  <2>3. /\ todo \subseteq Protocols \ {0}
        /\ at = "ensure" => Kline /\ (search => bus = "kline")
    BY DEF TypeOK, PromptFits
  <2>4. QED
    BY <2>1, <2>2, <2>3
<1>a. ASSUME search, excuse = {}, Left \subseteq Left', veh' = veh,
             UNCHANGED <<sess, link>> \/ (sess' = "none" /\ link' = "none")
      PROVE  Needs(veh', sess', link', Left')
  BY <1>0, <1>a, NeedsGrow
<1>b. CASE Prompt /\ UNCHANGED search
  BY <1>0, <1>b DEF Prompt
<1>c. Idle => UNCHANGED search
  BY DEF Idle
<1>1. CASE \/ \E p \in Asked, fallback \in BOOLEAN : SP(p, fallback)
           \/ PC \/ Reset \/ Sets \/ StartsSession \/ BI
  BY <1>b, <1>c, <1>1 DEF SP, PC, Reset, Sets, StartsSession, BI
<1>2. CASE \E w \in BOOLEAN : Request(w)
  <2>1. PICK w \in BOOLEAN : Request(w)
    BY <1>2
  <2>2. CASE StartsSearch(0)
    <3>1. at' = "next" /\ Searched \ {0} \subseteq todo'
      BY <2>2 DEF StartsSearch
    <3>2. Searched \subseteq todo'
      BY <3>1, SearchedIs
    <3>3. Searched \subseteq Left'
      BY <3>2 DEF Left
    <3>4. QED
      BY <3>3, SearchedSuffices
  <2>3. CASE StartsSearch(proto) /\ Bus(proto) = "none"
    <3>1. proto \notin 1 .. 9
      BY <2>3, BusIs DEF TypeOK, ChoiceType, Protocols
    <3>2. at' = "next" /\ Searched \ {proto} \subseteq todo'
      BY <2>3 DEF StartsSearch
    <3>3. Searched \subseteq todo'
      BY <3>1, <3>2, SearchedIs
    <3>4. Searched \subseteq Left'
      BY <3>3 DEF Left
    <3>5. QED
      BY <3>4, SearchedSuffices
  <2>4. CASE UNCHANGED search
    BY <1>b, <2>1, <2>4, RequestGoes
  <2>5. QED
    BY <2>1, <2>2, <2>3, <2>4, RequestGoes DEF Direct
<1>3. CASE Tries
  <2>1. PICK p \in todo : Attempts(p)
    BY <1>3 DEF Tries
  <2>2. p \in Protocols /\ p # 0
    BY <1>0
  <2>3. at = "next" /\ UNCHANGED <<search, veh>>
    BY <1>3 DEF Tries, Step
  <2>5. Selects(p) /\ excuse' = excuse /\ Goes(p) /\ todo' = todo \ {p}
    BY <2>1 DEF Attempts, Excused
  <2>6. proto' = p
    BY <2>2, <2>5 DEF Selects, Already
  <2>7. UNCHANGED <<sess, link>> \/ (sess' = "none" /\ link' = "none")
    BY <2>2, <2>5 DEF Selects, Kept, Released
  <2>8. CASE Bus(p) # "none"
    <3>1. Left \subseteq Left'
      BY <2>3, <2>5, <2>6, <2>8 DEF Left, Exchanging, Goes
    <3>2. QED
      BY <1>a, <2>3, <2>5, <2>7, <3>1
  <2>9. CASE Bus(p) = "none"
    <3>1. p \notin 1 .. 9
      BY <2>2, <2>9, BusIs DEF Protocols
    <3>2. Left = todo /\ Left' = todo \ {p}
      BY <2>3, <2>5, <2>9 DEF Left, Exchanging, Goes
    <3>3. Needs(veh, sess, link, Left)
      BY <1>0, <2>3, <2>5
    <3>4. Needs(veh', sess', link', Left)
      BY <2>3, <2>7, <3>3, NeedsGrow
    <3>5. veh \in DOMAIN Native => Native[veh] \in 1 .. 9
      BY NativeIs
    <3>6. QED
      BY <2>3, <3>1, <3>2, <3>4, <3>5 DEF Needs
  <2>10. QED
    BY <2>8, <2>9
<1>4. CASE FindsNothing
  BY <1>4 DEF FindsNothing, Ends
<1>5. CASE HasLink
  <2>1. UNCHANGED <<search, veh, sess, link, todo, proto>> /\ at = "ensure" /\ at' = "drain"
    BY <1>5 DEF HasLink, Step, choice
  <2>2. excuse = {} /\ Left \subseteq Left'
    BY <1>5, <2>1 DEF HasLink, Excused, Left, Exchanging
  <2>3. QED
    BY <1>a, <2>1, <2>2
<1>6. CASE GetsLink
  <2>1. PICK got \in {Could, "none"} :
          /\ link' = got /\ sess' = got
          /\ Excused((IF got # Could THEN {"asleep"} ELSE {})
                     \union (IF got = "unknown" THEN {"rejected"} ELSE {}))
          /\ IF Refused(got)
             THEN Attempted("no init") /\ UNCHANGED <<proto, hdr>>
             ELSE /\ at' = "drain" /\ UNCHANGED <<todo, search, wants, ret, first, set>>
                  /\ IF proto = 5 \/ got = "unknown" THEN UNCHANGED <<proto, hdr>>
                     ELSE proto' = (IF got = "kwp" THEN 4 ELSE 3)
    BY <1>6 DEF GetsLink
  <2>2. excuse = {} /\ got = Could /\ Could # "unknown"
    BY <2>1 DEF Excused
  <2>3. at = "ensure" /\ Kline /\ veh' = veh
    BY <1>0, <1>6 DEF GetsLink, Step
  <2>4. Left = todo \union {proto}
    BY <2>3 DEF Left, Exchanging
  <2>5. CASE Refused(got)
    <3>1. search /\ at' = "next" /\ todo' = todo
      BY <2>1, <2>5 DEF Attempted, Fallback, Ends
    <3>2. Left' = todo
      BY <3>1 DEF Left, Exchanging
    <3>3. QED
      BY <1>0, <2>1, <2>2, <2>3, <2>4, <2>5, <3>1, <3>2, InitNeeds
  <2>6. CASE ~Refused(got)
    <3>1. search /\ at' = "drain" /\ todo' = todo
      BY <2>1, <2>6
    <3>2. proto' = (IF proto = 5 THEN proto ELSE IF Could = "kwp" THEN 4 ELSE 3)
      BY <2>1, <2>2, <2>6
    <3>3. Left' = todo \union {proto'}
      BY <3>1 DEF Left, Exchanging
    <3>4. QED
      BY <1>0, <2>1, <2>2, <2>3, <2>4, <2>6, <3>1, <3>2, <3>3, InitNeeds
  <2>7. QED
    BY <2>5, <2>6
<1>7. CASE Drain
  <2>1. at = "drain" /\ at' = "send" /\ UNCHANGED <<search, veh, sess, link, todo, proto, excuse>>
    BY <1>7 DEF Drain, Step, Excused
  <2>2. Left \subseteq Left'
    BY <2>1 DEF Left, Exchanging
  <2>3. QED
    BY <1>a, <2>1, <2>2
<1>8. CASE Send
  <2>1. ~(Attempted("ok"))
    BY DEF Attempted, Ends, Fallback
  <2>2. at = "send" /\ at' = "collect" /\ UNCHANGED <<search, veh, sess, link, todo, proto, excuse>>
    BY <1>8, <2>1 DEF Send, Step, Excused
  <2>3. Left \subseteq Left'
    BY <2>2 DEF Left, Exchanging
  <2>4. QED
    BY <1>a, <2>2, <2>3
<1>9. CASE CollectEnds
  <2>1. ~(Attempted("ok"))
    BY DEF Attempted, Ends, Fallback
  <2>2. UNCHANGED <<veh, proto, sess, link>>
    BY <1>9 DEF CollectEnds, Step
  <2>3. at = "collect" /\ Attempted("silent") /\ excuse = {} /\ ~Speaks
    BY <1>9, <2>1 DEF CollectEnds, Excused
  <2>4. CASE search
    <3>1. at' = "next" /\ todo' = todo
      BY <2>3, <2>4 DEF Attempted
    <3>2. Left = todo \union {proto} /\ Left' = todo
      BY <2>2, <2>3, <3>1 DEF Left, Exchanging
    <3>3. QED
      BY <1>0, <2>2, <2>3, <2>4, <3>2, SilenceNeeds
  <2>5. CASE ~search
    <3>1. at' = "next" /\ Searched \ {proto} \subseteq todo'
      BY <2>2, <2>3, <2>5 DEF Attempted, Ends, StartsSearch
    <3>2. Left' = todo'
      BY <3>1 DEF Left, Exchanging
    <3>3. Searched \subseteq todo' \union {proto}
      BY <3>1
    <3>4. Needs(veh, sess, link, todo' \union {proto})
      BY <3>3, SearchedSuffices
    <3>5. QED
      BY <2>2, <2>3, <3>2, <3>4, SilenceNeeds
  <2>6. QED
    BY <2>4, <2>5
<1>13. CASE Hears
  <2>1. UNCHANGED <<search, veh, sess, link, todo, proto>> /\ excuse = {} /\ Collecting /\ Collecting'
    BY <1>13 DEF Hears, Step, choice, Excused, Collecting
  <2>2. Left \subseteq Left'
    BY <2>1 DEF Left, Exchanging, Collecting
  <2>3. QED
    BY <1>a, <2>1, <2>2
<1>10. CASE Arrives \/ Observe \/ UNCHANGED vars
  <2>1. UNCHANGED <<search, veh, sess, link, todo, proto, excuse, at>>
    BY <1>10 DEF Arrives, Observe, vars, choice
  <2>2. Left \subseteq Left'
    BY <2>1 DEF Left, Exchanging
  <2>3. QED
    BY <1>a, <2>1, <2>2
<1>11. CASE Lapses
  BY <1>b, <1>11 DEF Lapses
<1>12. QED
  BY <1>1, <1>2, <1>3, <1>4, <1>5, <1>6, <1>7, <1>8, <1>9, <1>10, <1>11, <1>13
     DEF Next, Command, RequestStep

-------------------------------------------------------------------------------
(* What the prompt says. *)

\* What is at the other end of a search that left nothing out, and heard nothing.
LEMMA NobodyLeft ==
  ASSUME veh \in Vehicles, SearchFits, search, excuse = {}, at = "next", todo = {}
  PROVE  veh = "none"
<1>1. Left = {}
  BY DEF Left, Exchanging
<1>2. veh \in DOMAIN Native \union {"iso", "kwp", "fast", "odd", "none"}
  BY Elm327Assumption
<1>3. QED
  BY <1>1, <1>2 DEF SearchFits

LEMMA CompleteStep ==
  TypeOK /\ PromptFits /\ SearchFits /\ SearchIsComplete /\ [Next]_vars => SearchIsComplete'
<1> SUFFICES ASSUME TypeOK, PromptFits, SearchFits, SearchIsComplete, [Next]_vars,
                    Prompt', ret' = "not found", excuse' = {}
             PROVE  veh' = "none"
  BY DEF SearchIsComplete
<1>a. CASE UNCHANGED <<veh, at, ret, excuse>>
  BY <1>a DEF SearchIsComplete, Prompt
<1>b. CASE ret' \in {"none", "failed"}
  BY <1>b
<1>c. ASSUME NEW rc \in {"ok", "silent", "failed", "no init"}, Attempted(rc) PROVE FALSE
  <2>1. ret' = rc
    BY <1>c, AttemptedGoes DEF Prompt
  <2>2. QED
    BY <1>c, <2>1
<1>1. CASE \/ \E p \in Asked, fallback \in BOOLEAN : SP(p, fallback)
           \/ PC \/ Reset \/ Sets \/ StartsSession \/ BI \/ \E w \in BOOLEAN : Request(w)
  BY <1>b, <1>1 DEF SP, PC, Reset, Sets, StartsSession, BI, Idle, Request, NoDriver
<1>2. CASE Tries
  BY <1>2 DEF Tries, Attempts, Goes, Prompt
<1>3. CASE FindsNothing
  <2>1. at = "next" /\ todo = {} /\ veh' = veh /\ excuse = {}
    BY <1>3 DEF FindsNothing, Step
  <2>2. QED
    BY <2>1, NobodyLeft DEF TypeOK, PromptFits
<1>4. CASE HasLink
  BY <1>4 DEF HasLink, Prompt
<1>5. CASE GetsLink
  BY <1>c, <1>5 DEF GetsLink, Prompt
<1>6. CASE Drain
  BY <1>c, <1>6 DEF Drain, Prompt
<1>7. CASE Send
  BY <1>c, <1>7 DEF Send, Prompt
<1>8. CASE Hears \/ CollectEnds
  BY <1>c, <1>8 DEF Hears, CollectEnds, Prompt
<1>9. CASE Arrives \/ Observe \/ Lapses \/ UNCHANGED vars
  BY <1>a, <1>9 DEF Arrives, Observe, Lapses, vars
<1>10. QED
  BY <1>1, <1>2, <1>3, <1>4, <1>5, <1>6, <1>7, <1>8, <1>9 DEF Next, Command, RequestStep

\* An old reception is not told as an answer: it is gone before one is waited for.
LEMMA CurrentStep ==
  QueueFits /\ AnswersAreCurrent /\ [Next]_vars => AnswersAreCurrent'
<1> SUFFICES ASSUME QueueFits, AnswersAreCurrent, [Next]_vars PROVE AnswersAreCurrent'
  OBVIOUS
<1>a. CASE excuse' = {} \/ excuse' = excuse
  BY <1>a DEF AnswersAreCurrent
<1>b. ASSUME NEW why, Excused(why), "stale" \notin why PROVE AnswersAreCurrent'
  BY <1>b DEF Excused, AnswersAreCurrent
<1>1. CASE Command \/ FindsNothing \/ Arrives \/ Observe \/ Lapses \/ UNCHANGED vars
  BY <1>a, <1>1
     DEF Command, SP, PC, Reset, Sets, StartsSession, BI, Idle, Request, FindsNothing,
         Arrives, Observe, Lapses, vars
<1>2. CASE Tries
  BY <1>a, <1>b, <1>2 DEF Tries, Attempts
<1>3. CASE HasLink
  BY <1>b, <1>3 DEF HasLink
<1>4. CASE GetsLink
  BY <1>b, <1>4 DEF GetsLink
<1>5. CASE Drain \/ Send
  BY <1>a, <1>b, <1>5 DEF Drain, Send
<1>6. CASE Hears \/ CollectEnds
  <2>1. "old" \notin queue
    BY <1>6 DEF Hears, CollectEnds, QueueFits
  <2>2. QED
    BY <1>a, <1>b, <1>6, <2>1 DEF Hears, CollectEnds
<1>7. QED
  BY <1>1, <1>2, <1>3, <1>4, <1>5, <1>6 DEF Next, RequestStep

\* What is selected when the prompt comes is what the rest of the invariant says.
LEMMA RestFits == TypeOK /\ BusFits /\ PromptFits => RestIsHonest
<1> SUFFICES ASSUME TypeOK, BusFits, PromptFits, Prompt PROVE RestIsHonest
  BY DEF RestIsHonest
<1>1. ~search /\ todo = {}
  BY DEF PromptFits, Prompt
<1>2. proto # 0 /\ bus # "none" => bus = Bus(proto)
  BY DEF BusFits
<1>3. proto = 0 /\ bus # "none" => first # 0 /\ bus = Bus(first)
  BY DEF BusFits
<1>4. ret = "not found" => proto = 0 /\ bus = "none" /\ first = 0
  BY DEF PromptFits
<1>5. QED
  BY <1>1, <1>2, <1>3, <1>4 DEF RestIsHonest

LEMMA InitHolds == Init => ElmInv
<1> SUFFICES ASSUME Init PROVE ElmInv
  OBVIOUS
<1>1. TypeOK
  <2>1. veh \in Vehicles /\ ChoiceType
    BY ProtocolsAre DEF Init, ChoiceType, BusNames, SessionNames
  <2>2. PlaceType /\ set \in SettingsType
    BY DEF Init, PlaceType, Defaults, SettingsType, Outcomes
  <2>3. /\ todo \subseteq Protocols \ {0} /\ queue \subseteq {"old", "late"} /\ late \in BOOLEAN
        /\ excuse \subseteq {"fault", "lapsed", "rejected", "asleep", "stale", "later"}
    BY DEF Init
  <2>4. QED
    BY <2>1, <2>2, <2>3 DEF TypeOK
<1>2. BusFits /\ SessionFits
  BY DEF Init, BusFits, SessionFits, Exchanging
<1>3. PromptFits /\ QueueFits /\ SearchFits
  BY DEF Init, PromptFits, QueueFits, SearchFits, Collecting
<1>4. SearchIsComplete /\ AnswersAreCurrent
  BY DEF Init, SearchIsComplete, AnswersAreCurrent
<1>5. QED
  BY <1>1, <1>2, <1>3, <1>4, RestFits DEF ElmInv, PromptIsHonest

\* The invariant of a conversation: what is open, the session, the queue and the
\* search fit the protocol and the place the request is at (elm327_at.c).
THEOREM ElmHolds == Spec => []ElmInv
<1> DEFINE Invariant == /\ TypeOK /\ BusFits /\ PromptFits /\ SessionFits /\ QueueFits /\ SearchFits
                    /\ SearchIsComplete /\ AnswersAreCurrent
<1>1. Invariant /\ [Next]_vars => Invariant'
  <2> SUFFICES ASSUME Invariant, [Next]_vars PROVE Invariant'
    OBVIOUS
  <2>1. TypeOK' /\ BusFits' /\ PromptFits'
    BY TypeStep, BusStep, PromptStep
  <2>2. SessionFits' /\ QueueFits' /\ SearchFits'
    BY SessionStep, QueueStep, SearchStep
  <2>3. SearchIsComplete' /\ AnswersAreCurrent'
    BY CompleteStep, CurrentStep
  <2>4. QED
    BY <2>1, <2>2, <2>3
<1>2. Init => Invariant
  BY InitHolds DEF ElmInv, PromptIsHonest
<1>3. Invariant => ElmInv
  BY RestFits DEF ElmInv, PromptIsHonest
<1>4. QED
  BY <1>1, <1>2, <1>3, PTL DEF Spec

\* "UNABLE TO CONNECT" without an excuse means that nobody is there, an answer is
\* never one from before its request, and what is selected at the prompt is what
\* is open (elm327_at.c:2820, 2885, 2271).
THEOREM PromptHolds == Spec => []PromptIsHonest
<1>1. ElmInv => PromptIsHonest
  BY DEF ElmInv
<1>2. QED
  BY <1>1, ElmHolds, PTL

-------------------------------------------------------------------------------
(***************************************************************************)
(* J2534Wire, for any sizes of requests and answers, any number of         *)
(* sessions and of calls, and any number of faults.                        *)
(*                                                                         *)
(* Of an earlier session, a job and its late answer may reach the next one *)
(* while it probes: they are no answer to a probe, and the grammar, being  *)
(* given back before it reads on, leaves nothing else.  The one answer     *)
(* that ends the probing is the last of all; from then on one call is      *)
(* being made at a time and whatever is under way is of that call.         *)
(***************************************************************************)

-------------------------------------------------------------------------------
(* Queues of fragments. *)

\* What a queue is that grows by f.
LEMMA Grown ==
  ASSUME NEW T, NEW q \in Seq(T), NEW f \in T
  PROVE  /\ Append(q, f) \in Seq(T) /\ Len(Append(q, f)) = Len(q) + 1
         /\ \A i \in DOMAIN Append(q, f) :
              (i = Len(q) + 1 /\ Append(q, f)[i] = f) \/ (i \in DOMAIN q /\ Append(q, f)[i] = q[i])
BY AppendProperties, LenProperties

\* What is left of a queue whose head is taken.
LEMMA Shrunk ==
  ASSUME NEW T, NEW q \in Seq(T), q # <<>>
  PROVE  /\ Head(q) \in T /\ 1 \in DOMAIN q /\ Head(q) = q[1]
         /\ Tail(q) \in Seq(T) /\ Len(Tail(q)) = Len(q) - 1 /\ Len(q) > 0 
         /\ \A i \in DOMAIN Tail(q) : i + 1 \in DOMAIN q /\ Tail(q)[i] = q[i + 1]
BY HeadTailProperties, LenProperties, EmptySeq

\* What a queue is with one of its fragments gone.
LEMMA Cut ==
  ASSUME NEW T, NEW q \in Seq(T), NEW k \in DOMAIN q
  PROVE  LET r == SubSeq(q, 1, k - 1) \o SubSeq(q, k + 1, Len(q))
         IN  /\ r \in Seq(T) /\ Len(r) = Len(q) - 1
             /\ \A i \in DOMAIN r : \E j \in DOMAIN q :
                  r[i] = q[j] /\ (j = Len(q) => i = Len(r)) 
<1> DEFINE a == SubSeq(q, 1, k - 1)
           b == SubSeq(q, k + 1, Len(q))
<1>1. k \in 1 .. Len(q) /\ Len(q) \in Nat
  BY LenProperties
<1>2. a \in Seq(T) /\ Len(a) = k - 1 /\ \A i \in 1 .. k - 1 : a[i] = q[i]
  BY <1>1, SubSeqProperties
<1>3. b \in Seq(T) /\ Len(b) = Len(q) - k /\ \A i \in 1 .. Len(q) - k : b[i] = q[k + i]
  BY <1>1, SubSeqProperties
<1> HIDE DEF a, b
<1>4. a \o b \in Seq(T) /\ Len(a \o b) = Len(q) - 1
  BY <1>1, <1>2, <1>3, ConcatProperties
<1>5. ASSUME NEW i \in DOMAIN (a \o b)
      PROVE  \E j \in DOMAIN q : (a \o b)[i] = q[j] /\ (j = Len(q) => i = Len(a \o b))
  <2>0. i \in 1 .. Len(q) - 1
    BY <1>1, <1>4, <1>5, LenProperties
  <2>1. CASE i <= k - 1
    <3>1. (a \o b)[i] = q[i] /\ i \in DOMAIN q /\ i # Len(q)
      BY <1>1, <1>2, <1>3, <2>0, <2>1, ConcatProperties, LenProperties
    <3>2. QED
      BY <3>1
  <2>2. CASE i > k - 1
    <3>1. (a \o b)[i] = b[i - (k - 1)]
      BY <1>1, <1>2, <1>3, <2>0, <2>2, ConcatProperties
    <3>2. b[i - (k - 1)] = q[i + 1] /\ i + 1 \in DOMAIN q
      BY <1>1, <1>3, <2>0, <2>2, LenProperties
    <3>3. i + 1 = Len(q) => i = Len(a \o b)
      <4>1. Len(a \o b) = Len(q) - 1 /\ i \in Int /\ Len(q) \in Int
        BY <1>1, <1>4, <2>0
      <4>2. QED
        BY <4>1
    <3>4. QED
      BY <3>1, <3>2, <3>3
  <2>3. QED
    BY <1>1, <2>0, <2>1, <2>2
<1>6. QED
  BY <1>4, <1>5 DEF a, b

\* What a queue is with one of its fragments replaced.
LEMMA Replaced ==
  ASSUME NEW T, NEW q \in Seq(T), NEW k \in DOMAIN q, NEW f \in T
  PROVE  LET r == [q EXCEPT ![k] = f]
         IN  /\ r \in Seq(T) /\ Len(r) = Len(q) /\ DOMAIN r = DOMAIN q
             /\ \A i \in DOMAIN r : r[i] = q[i] \/ r[i] = f
<1>1. k \in 1 .. Len(q) /\ DOMAIN q = 1 .. Len(q)
  BY LenProperties
<1>2. [q EXCEPT ![k] = f] \in Seq(T) /\ Len([q EXCEPT ![k] = f]) = Len(q)
  BY <1>1, ExceptSeq
<1>3. \A i \in DOMAIN q : [q EXCEPT ![k] = f][i] = q[i] \/ [q EXCEPT ![k] = f][i] = f
  BY <1>1, ExceptSeq
<1>4. DOMAIN [q EXCEPT ![k] = f] = DOMAIN q
  BY <1>1, <1>2, LenProperties
<1>5. QED
  BY <1>2, <1>3, <1>4

-------------------------------------------------------------------------------
(* Fragments. *)

LEMMA PlainFrames ==
  /\ Select \in FrameType /\ Select.kind = "AT VIF PASSTHRU" /\ Select.seq = 0 /\ Select.status = "none"
  /\ Spoilt \in FrameType /\ Spoilt.kind = "spoilt" /\ Spoilt.seq = 0 /\ Spoilt.status = "none"
BY DEF Select, Spoilt, Frame, FrameType, OpNames, Statuses, Ids

LEMMA PartIs ==
  ASSUME NEW c \in [op : OpNames, seq : Nat, id : Ids, sent : Nat, got : Seq(SUBSET Ids)], NEW i \in Nat
  PROVE  /\ Part(c, i).kind = "part" /\ Part(c, i).op = c.op /\ Part(c, i).seq = c.seq /\ Part(c, i).off = i
         /\ Part(c, i).more = (i + 1 < Sizes[c.op][1]) /\ Part(c, i).ids = {c.id} /\ Part(c, i).status = "none"
         /\ Part(c, i) \in FrameType
<1>1. (i + 1 < Sizes[c.op][1]) \in BOOLEAN
  OBVIOUS
<1>2. QED
  BY <1>1 DEF Part, Frame, FrameType, Statuses

LEMMA FetchIs ==
  ASSUME NEW c \in [op : OpNames, seq : Nat, id : Ids, sent : Nat, got : Seq(SUBSET Ids)], NEW i \in Nat
  PROVE  /\ Fetch(c, i).kind = "fetch" /\ Fetch(c, i).seq = c.seq /\ Fetch(c, i).op = c.op
         /\ Fetch(c, i).status = "none" /\ Fetch(c, i) \in FrameType
BY DEF Fetch, Frame, FrameType, Statuses

RxType ==
  [cut : BOOLEAN, on : BOOLEAN, op : OpNames, seq : Nat, len : Nat, ids : SUBSET Ids,
   ready : BOOLEAN, status : Statuses]
LEMMA AnswerIs ==
  ASSUME NEW r \in RxType, NEW i \in Nat
  PROVE  /\ Answer(r, i).kind = "answer" /\ Answer(r, i).seq = r.seq /\ Answer(r, i).ids = r.ids
         /\ Answer(r, i).status = r.status /\ Answer(r, i).op = r.op /\ Answer(r, i) \in FrameType
<1>1. (i + 1 < Sizes[r.op][2]) \in BOOLEAN
  OBVIOUS
<1>2. QED
  BY <1>1 DEF Answer, Frame, FrameType, Statuses, RxType

LEMMA AckIs ==
  ASSUME NEW o \in OpNames, NEW n \in Nat, NEW i \in Nat
  PROVE  LET f == Frame("ack", o, n, i, FALSE, {}) 
         IN  f.kind = "ack" /\ f.seq = n /\ f.status = "none" /\ f \in FrameType
BY DEF Frame, FrameType, Statuses

-------------------------------------------------------------------------------
(* Types. *)

CallType == [op : OpNames, seq : Nat, id : Ids, sent : Nat, got : Seq(SUBSET Ids)]
KeptType == [last : Ids, wrong : SUBSET {"alien", "twice", "refused"}]
QueueType == toAdapter \in Seq(FrameType) /\ toHost \in Seq(FrameType)

LEMMA Constants ==
  /\ Sessions \in Nat /\ Sessions > 0 /\ NoSession \in 0 .. Sessions
  /\ \A s \in 0 .. Sessions - 1 : (s + 1) % Sessions \in 0 .. Sessions - 1
  /\ NoId \in Ids /\ NoJob \in [op : OpNames, ids : SUBSET Ids, long : BOOLEAN] /\ Fresh \in RxType
  /\ NoJob.op = "none" /\ NoJob.ids = {} /\ Fresh.seq = 0 /\ Fresh.ids = {} /\ Fresh.ready = FALSE
  /\ Fresh.op = "none" /\ Fresh.status = "none" /\ Fresh.len = 0 
<1>1. Sessions \in Nat /\ Sessions > 0 /\ NoSession \in 0 .. Sessions
  BY WireAssumption DEF WireAssumption, NoSession
<1>2. \A s \in 0 .. Sessions - 1 : (s + 1) % Sessions \in 0 .. Sessions - 1
  BY <1>1
<1>3. NoId \in Ids
  BY <1>1 DEF NoId, Ids
<1>4. NoJob \in [op : OpNames, ids : SUBSET Ids, long : BOOLEAN] /\ Fresh \in RxType
  BY DEF NoJob, Fresh, OpNames, Statuses, RxType
<1>5. QED
  BY <1>1, <1>2, <1>3, <1>4 DEF NoJob, Fresh

\* What may be written to the host.
LEMMA WritesKeeps ==
  ASSUME QueueType, NEW f \in FrameType, Writes(f)
  PROVE  toHost' \in Seq(FrameType)
BY DEF QueueType, Writes

\* What rpc() does when it gives up keeps the types.
LEMMA BreaksKeeps ==
  ASSUME HostType, QueueType, gone \in {"mute", "switch", "unbind", "no"}, Breaks
  PROVE  /\ door' \in {"shut", "drain", "select", "idle", "wait"}
         /\ stage' \in {"probe", "again", "open", "up"}
         /\ UNCHANGED <<call, toAdapter>> /\ gone' \in {"mute", "switch", "unbind", "no"}
BY DEF HostType, Breaks, Closes, Deleted

LEMMA CallsAre == \A o \in Ops : o \in OpNames
BY DEF OpNames

LEMMA HostTypeStep ==
  ASSUME WireTypeOK, OpensPort \/ SelectFrontend \/ Selected \/ (\E o \in Ops : Begins(o)) \/ Expires
  PROVE  WireTypeOK'
<1> USE DEF WireTypeOK, LinkType
<1>0. /\ HostType /\ QueueType /\ call \in CallType /\ rx \in RxType /\ kept \in KeptType
      /\ gone \in {"mute", "switch", "unbind", "no"}
  BY DEF HostType, QueueType, CallType, RxType, KeptType, TaskType
<1>e. <<>> \in Seq(FrameType)
  BY EmptySeq
<1>1. CASE OpensPort
  <2>1. session' \in 0 .. Sessions - 1 /\ door' = "drain" /\ stage' = "probe"
    BY <1>1, Constants DEF OpensPort, HostType
  <2>2. call' \in CallType
    BY <1>0, <1>1 DEF OpensPort, CallType, OpNames
  <2>3. kept' \in KeptType
    BY <1>0, <1>1, Constants DEF OpensPort, KeptType
  <2>4. QED
    BY <1>0, <1>1, <1>e, <2>1, <2>2, <2>3
       DEF OpensPort, HostType, TaskType, CallType, KeptType, linkState, task
<1>2. CASE SelectFrontend
  <2>1. toAdapter' \in Seq(FrameType)
    BY <1>0, <1>2, PlainFrames, Grown DEF SelectFrontend, QueueType
  <2>2. rx' \in RxType
    BY <1>0, <1>2 DEF SelectFrontend, RxType
  <2>3. QED
    BY <1>0, <1>2, <1>e, <2>1, <2>2 DEF SelectFrontend, HostType, TaskType, RxType, linkState
<1>3. CASE Selected
  BY <1>0, <1>3, <1>e DEF Selected, HostType, TaskType, linkState, task
<1>4. ASSUME NEW o \in Ops, Begins(o) PROVE WireTypeOK'
  <2>1. call' \in CallType
    <3>1. call.seq + 1 \in Nat /\ session \in Nat
      <4>1. session \in 0 .. Sessions - 1
        BY <1>0 DEF HostType
      <4>2. session \in Nat
        BY <4>1, Constants
      <4>3. call.seq \in Nat
        BY <1>0 DEF CallType
      <4>4. QED
        BY <4>2, <4>3
    <3>2. <<session, call.seq + 1>> \in Ids
      BY <3>1 DEF Ids
    <3>3. <<>> \in Seq(SUBSET Ids)
      BY EmptySeq
    <3>4. QED
      BY <1>4, <3>1, <3>2, <3>3, CallsAre DEF Begins, CallType
  <2>2. toAdapter' \in Seq(FrameType)
    BY <1>0, <1>4, <2>1, PartIs, Grown DEF Begins, QueueType, CallType
  <2>3. HostType'
    BY <1>0, <1>4, <2>1 DEF Begins, HostType, CallType
  <2>4. LinkType' /\ TaskType'
    BY <1>0, <1>4, <2>2 DEF Begins, TaskType, QueueType, linkState, task
  <2>5. QED
    BY <1>4, <2>3, <2>4 DEF Begins
<1>5. CASE Expires
  BY <1>0, <1>5, BreaksKeeps DEF Expires, HostType, QueueType, TaskType, task
<1>6. QED
  BY <1>1, <1>2, <1>3, <1>4, <1>5

\* What Receives makes of the fragment at the head, when it is the expected one.
GetsAck(f) ==
  /\ Expected(f) /\ f.kind = "ack" /\ call' = [call EXCEPT !.sent = @ + 1]
  /\ toAdapter' = Append(toAdapter, Part(call, call.sent)) /\ UNCHANGED <<door, stage, gone, kept>>
GetsMore(f) ==
  /\ Expected(f) /\ f.kind = "answer" /\ call' = [call EXCEPT !.got = Append(@, f.ids)]
  /\ toAdapter' = Append(toAdapter, Fetch(call, Len(call.got) + 1))
  /\ UNCHANGED <<door, stage, gone, kept>>
GetsLast(f) ==
  /\ Expected(f) /\ f.kind = "answer" /\ call' = [call EXCEPT !.got = Append(@, f.ids)]
  /\ UNCHANGED toAdapter /\ Returns(f.status)
LEMMA ReceivesIs ==
  ASSUME Receives
  PROVE  /\ door = "wait" /\ toHost # <<>> /\ toHost' = Tail(toHost)
         /\ UNCHANGED <<session, front, want, muted, rx, busy, dev, faults>>
         /\ \/ Breaks /\ UNCHANGED kept
            \/ GetsAck(Head(toHost)) \/ GetsMore(Head(toHost)) \/ GetsLast(Head(toHost))
BY DEF Receives, GetsAck, GetsMore, GetsLast, task

\* What Feeds makes of the fragment at the head: it is passed over, a fragment of
\* the answer goes out, a request begins, grows or is run.
Passes ==
  /\ rx' = rx \/ (\E c \in BOOLEAN : rx' = [rx EXCEPT !.cut = c])
  /\ busy' = busy /\ (toHost' = toHost \/ Writes(Spoilt))
Fetches(f) ==
  /\ f.kind = "fetch" /\ rx' = [rx EXCEPT !.cut = FALSE] /\ busy' = busy
  /\ toHost' = toHost \/ (rx.ready /\ f.seq = rx.seq /\ Writes(Answer(rx, f.off)))
BeginsOnly(f) == f.kind = "part" /\ rx' = Starts(f) /\ busy' = busy /\ toHost' = toHost
GrowsBy(f) ==
  /\ f.kind = "part" /\ Follows(f, Starts(f)) /\ f.more /\ busy' = busy
  /\ rx' = [Starts(f) EXCEPT !.len = @ + 1, !.ids = @ \union f.ids]
  /\ Writes(Frame("ack", f.op, f.seq, Starts(f).len + 1, FALSE, {}))
RunsWith(f) ==
  /\ f.kind = "part" /\ Follows(f, Starts(f)) /\ ~f.more /\ toHost' = toHost
  /\ rx' = [Starts(f) EXCEPT !.on = FALSE, !.ids = @ \union f.ids]
  /\ \E l \in BOOLEAN : busy' = [op |-> f.op, ids |-> rx'.ids, long |-> l] /\ (l => f.op # "probe")
\* What becomes of the grammar meanwhile: the line that selects the wire may ask for it.
Installs ==
  /\ front' = "wire" <=> front = "wire"
  /\ want' = want \/ want' = "wire"
  /\ front # "wire" => rx' = rx
  /\ front = "wire" => want' = want
LEMMA FeedsIs ==
  ASSUME Feeds
  PROVE  LET f == Head(toAdapter)
         IN  /\ toAdapter # <<>> /\ toAdapter' = Tail(toAdapter) /\ busy = NoJob
             /\ UNCHANGED <<door, stage, session, call, gone, muted, dev, kept>>
             /\ Passes \/ Fetches(f) \/ BeginsOnly(f) \/ GrowsBy(f) \/ RunsWith(f)
             /\ Installs /\ (Passes \/ (want = "none" /\ front = "wire"))
<1> DEFINE f == Head(toAdapter)
<1>1. /\ toAdapter # <<>> /\ toAdapter' = Tail(toAdapter) /\ (ElmFeeds(f) \/ WireFeeds(f))
      /\ UNCHANGED <<door, stage, session, call, gone, muted, dev, kept>>
  BY DEF Feeds, host
<1> HIDE DEF f
<1>2. busy = NoJob
  BY <1>1 DEF ElmFeeds, WireFeeds
<1>3. CASE ElmFeeds(f)
  <2>1. Passes /\ Installs
    BY <1>3 DEF ElmFeeds, Passes, Installs
  <2>2. QED
    BY <1>1, <1>2, <2>1 DEF f
<1>4. CASE WireFeeds(f) /\ want = "none" /\ ProcessFrame(f)
  <2>1. Fetches(f) \/ BeginsOnly(f) \/ GrowsBy(f) \/ RunsWith(f)
    <3>1. ProcessFrame(f)
      BY <1>4
    <3>2. QED
      BY <3>1 DEF ProcessFrame, Fetches, BeginsOnly, GrowsBy, RunsWith, Runs
  <2>3. Installs /\ want = "none" /\ front = "wire"
    BY <1>4 DEF WireFeeds, Installs
  <2>2. QED
    BY <1>1, <1>2, <2>1, <2>3 DEF f
<1>5. CASE WireFeeds(f) /\ ~(want = "none" /\ ProcessFrame(f))
  <2>1. Passes /\ Installs
    BY <1>5 DEF WireFeeds, Passes, Installs
  <2>2. QED
    BY <1>1, <1>2, <2>1 DEF f
<1>6. QED
  BY <1>1, <1>3, <1>4, <1>5

\* The request that a fragment starts, or goes on with.
LEMMA StartsIs ==
  ASSUME NEW f \in FrameType, rx \in RxType
  PROVE  /\ Starts(f) \in RxType
         /\ f.off > 0 => /\ Starts(f).ids = rx.ids /\ Starts(f).seq = rx.seq /\ Starts(f).op = rx.op
                         /\ Starts(f).ready = rx.ready /\ Starts(f).status = rx.status
         /\ ~(f.off > 0) => /\ Starts(f).ids = {} /\ Starts(f).seq = f.seq /\ Starts(f).op = f.op
                            /\ Starts(f).ready = FALSE /\ Starts(f).status = "none"
<1>1. CASE f.off > 0
  BY <1>1 DEF Starts, RxType
<1>2. CASE ~(f.off > 0)
  <2>1. f.op \in OpNames /\ f.seq \in Nat
    BY DEF FrameType
  <2>2. Fresh \in RxType
    BY Constants
  <2>3. Starts(f) = [Fresh EXCEPT !.on = TRUE, !.op = f.op, !.seq = f.seq]
    BY <1>2 DEF Starts
  <2>4. QED
    BY <1>2, <2>1, <2>2, <2>3 DEF RxType, Fresh
<1>3. QED
  BY <1>1, <1>2

LEMMA FeedsKeepsRx ==
  ASSUME QueueType, rx \in RxType, busy \in [op : OpNames, ids : SUBSET Ids, long : BOOLEAN], Feeds
  PROVE  /\ rx' \in RxType /\ busy' \in [op : OpNames, ids : SUBSET Ids, long : BOOLEAN]
         /\ toHost' \in Seq(FrameType) /\ toAdapter' \in Seq(FrameType)
<1> DEFINE f == Head(toAdapter)
<1>1. /\ toAdapter' = Tail(toAdapter) /\ f \in FrameType /\ toAdapter' \in Seq(FrameType)
      /\ Passes \/ Fetches(f) \/ BeginsOnly(f) \/ GrowsBy(f) \/ RunsWith(f)
  <2>1. /\ toAdapter # <<>> /\ toAdapter' = Tail(toAdapter)
        /\ Passes \/ Fetches(f) \/ BeginsOnly(f) \/ GrowsBy(f) \/ RunsWith(f)
    BY FeedsIs
  <2>2. toAdapter \in Seq(FrameType)
    BY DEF QueueType
  <2>3. f \in FrameType /\ Tail(toAdapter) \in Seq(FrameType)
    BY <2>1, <2>2, Shrunk
  <2>4. QED
    BY <2>1, <2>3
<1> HIDE DEF f
<1>2. Starts(f) \in RxType /\ f.op \in OpNames /\ f.seq \in Nat /\ f.off \in Nat /\ f.ids \subseteq Ids
  BY <1>1, StartsIs DEF FrameType
<1>3. toHost \in Seq(FrameType)
  BY DEF QueueType
<1>4. CASE Passes
  <2>1. rx' \in RxType
    BY <1>4 DEF Passes, RxType
  <2>2. toHost' \in Seq(FrameType)
    BY <1>3, <1>4, WritesKeeps, PlainFrames DEF Passes
  <2>3. QED
    BY <1>1, <1>4, <2>1, <2>2 DEF Passes
<1>5. CASE Fetches(f)
  <2>1. rx' \in RxType
    BY <1>5 DEF Fetches, RxType
  <2>2. Answer(rx, f.off) \in FrameType
    BY <1>2, AnswerIs
  <2>3. toHost' \in Seq(FrameType)
    BY <1>3, <1>5, <2>2, WritesKeeps DEF Fetches
  <2>4. QED
    BY <1>1, <1>5, <2>1, <2>3 DEF Fetches
<1>6. CASE BeginsOnly(f)
  BY <1>1, <1>2, <1>3, <1>6 DEF BeginsOnly
<1>7. CASE GrowsBy(f)
  <2>2. Starts(f).len + 1 \in Nat /\ Starts(f).ids \union f.ids \subseteq Ids
    BY <1>2 DEF RxType
  <2>1. rx' \in RxType
    BY <1>2, <1>7, <2>2 DEF GrowsBy, RxType
  <2>3. toHost' \in Seq(FrameType)
    BY <1>2, <1>3, <1>7, <2>2, WritesKeeps, AckIs DEF GrowsBy
  <2>4. QED
    BY <1>1, <1>7, <2>1, <2>3 DEF GrowsBy
<1>8. CASE RunsWith(f)
  <2>1. rx' \in RxType
    BY <1>2, <1>8 DEF RunsWith, RxType
  <2>2. rx'.ids \subseteq Ids
    BY <2>1 DEF RxType
  <2>3. QED
    BY <1>1, <1>2, <1>3, <1>8, <2>1, <2>2 DEF RunsWith
<1>9. QED
  BY <1>1, <1>4, <1>5, <1>6, <1>7, <1>8

LEMMA AdapterTypeStep ==
  ASSUME WireTypeOK, ClientGone \/ AppliesSwitch \/ Feeds \/ Finishes \/ Loses
  PROVE  WireTypeOK'
<1> USE DEF WireTypeOK, LinkType
<1>0. /\ HostType /\ QueueType /\ rx \in RxType /\ kept \in KeptType
      /\ busy \in [op : OpNames, ids : SUBSET Ids, long : BOOLEAN]
  BY DEF QueueType, RxType, KeptType, TaskType
<1>e. <<>> \in Seq(FrameType)
  BY EmptySeq
<1>h. UNCHANGED <<door, stage, session, call>> => HostType'
  BY <1>0 DEF HostType
<1>1. CASE ClientGone
  BY <1>0, <1>1, <1>e, <1>h DEF ClientGone, TaskType, host, task
<1>2. CASE AppliesSwitch
  <2>1. TaskType'
    BY <1>2, Constants DEF AppliesSwitch, TaskType, RxType
  <2>2. QED
    BY <1>0, <1>2, <1>h, <2>1 DEF AppliesSwitch, host
<1>3. CASE Feeds
  <2>1. TaskType' /\ QueueType'
    <3>1. dev' = dev
      BY <1>3 DEF Feeds
    <3>2. QED
      BY <1>0, <1>3, <3>1, FeedsKeepsRx DEF TaskType, RxType, QueueType
  <2>2. front' \in {"elm", "dirty", "wire"} /\ want' \in {"none", "elm", "wire"} /\ faults' \in 0 .. MaxFaults
    <3>1. MaxFaults \in Nat
      BY WireAssumption DEF WireAssumption
    <3>2. faults' = faults \/ (faults < MaxFaults /\ faults' = faults + 1)
      BY <1>3 DEF Feeds, ElmFeeds, WireFeeds, ProcessFrame, Runs, Faulty
    <3>3. faults' \in 0 .. MaxFaults
      BY <3>1, <3>2
    <3>4. front' \in {"elm", "dirty", "wire"} /\ want' \in {"none", "elm", "wire"}
      BY <1>3 DEF Feeds, ElmFeeds, WireFeeds
    <3>5. QED
      BY <3>3, <3>4
  <2>3. UNCHANGED <<door, stage, session, call, gone, muted, kept>>
    BY <1>3, FeedsIs
  <2>4. QED
    BY <1>h, <2>1, <2>2, <2>3 DEF QueueType
<1>4. CASE Finishes
  <2>1. Status \in Statuses
    BY DEF Status, Statuses
  <2>2. rx' \in RxType
    BY <1>0, <1>4, <2>1 DEF Finishes, RxType
  <2>3. toHost' \in Seq(FrameType)
    <3>1. Answer(rx', 0) \in FrameType
      BY <2>2, AnswerIs
    <3>2. QED
      BY <1>0, <1>4, <3>1, WritesKeeps DEF Finishes
  <2>4. dev' \in 0 .. Sessions
    BY <1>4, Constants DEF Finishes, TaskType
  <2>5. kept' \in KeptType
    <3>1. CASE kept' = kept
      BY <1>0, <3>1
    <3>2. CASE busy.op = "act" /\ Status = "ok" 
      <4> DEFINE l == CHOOSE i \in busy.ids : TRUE
                 w == kept.wrong \union IF busy.ids = {kept.last} THEN {"twice"} ELSE {}
      <4>1. PICK n \in 1 .. MaxSeq + 2 : busy.ids = {<<dev, n>>}
        BY <3>2 DEF Status, Of
      <4>2. l \in Ids
        BY <1>0, <4>1
      <4>3. kept' = kept \/ kept' = [last |-> l, wrong |-> w]
        BY <1>4 DEF Finishes
      <4>4. kept.wrong \subseteq {"alien", "twice", "refused"}
        BY <1>0 DEF KeptType
      <4>5. w \subseteq {"alien", "twice", "refused"}
        BY <4>4
      <4> HIDE DEF l, w
      <4>6. [last |-> l, wrong |-> w] \in KeptType
        BY <4>2, <4>5 DEF KeptType
      <4>7. QED
        BY <1>0, <4>3, <4>6
    <3>3. QED
      BY <1>4, <3>1, <3>2 DEF Finishes
  <2>6. busy' \in [op : OpNames, ids : SUBSET Ids, long : BOOLEAN]
    BY <1>4, Constants DEF Finishes
  <2>7. TaskType'
    BY <2>2, <2>4, <2>6 DEF TaskType, RxType
  <2>8. UNCHANGED <<door, stage, session, call, toAdapter, front, want, gone, muted, faults>>
    BY <1>4 DEF Finishes, host, linkState
  <2>9. QED
    BY <1>h, <2>3, <2>5, <2>7, <2>8 DEF KeptType
<1>5. CASE Loses
  <2>1. UNCHANGED <<door, stage, session, call, front, want, gone, muted, rx, busy, dev, kept>>
    BY <1>5 DEF Loses, host, linkState, task
  <2>2. faults' \in 0 .. MaxFaults
    <3>1. MaxFaults \in Nat /\ faults < MaxFaults /\ faults' = faults + 1
      BY <1>5, WireAssumption DEF Loses, Faulty, WireAssumption
    <3>2. QED
      BY <3>1
  <2>3. QueueType'
    <3>1. CASE toHost' = toHost /\ \E i \in DOMAIN toAdapter : toAdapter' = [toAdapter EXCEPT ![i] = Spoilt]
      <4>1. toHost \in Seq(FrameType) /\ toAdapter \in Seq(FrameType) /\ Spoilt \in FrameType
        BY <1>0, PlainFrames DEF QueueType
      <4>2. \A i \in DOMAIN toAdapter : [toAdapter EXCEPT ![i] = Spoilt] \in Seq(FrameType)
        BY <4>1, Replaced
      <4>3. QED
        BY <3>1, <4>1, <4>2 DEF QueueType
    <3>2. ASSUME toAdapter' = toAdapter, NEW i \in DOMAIN toHost,
                 toHost' \in {[toHost EXCEPT ![i] = Spoilt],
                              SubSeq(toHost, 1, i - 1) \o SubSeq(toHost, i + 1, Len(toHost))}
          PROVE  QueueType'
      <4>1. toHost \in Seq(FrameType) /\ toAdapter \in Seq(FrameType) /\ Spoilt \in FrameType
        BY <1>0, PlainFrames DEF QueueType
      <4>2. [toHost EXCEPT ![i] = Spoilt] \in Seq(FrameType)
        BY <3>2, <4>1, Replaced
      <4>3. SubSeq(toHost, 1, i - 1) \o SubSeq(toHost, i + 1, Len(toHost)) \in Seq(FrameType)
        BY <3>2, <4>1, Cut
      <4>4. QED
        BY <3>2, <4>1, <4>2, <4>3 DEF QueueType
    <3>3. QED
      BY <1>5, <3>1, <3>2 DEF Loses
  <2>4. QED
    BY <1>h, <2>1, <2>2, <2>3 DEF TaskType, QueueType
<1>6. QED
  BY <1>1, <1>2, <1>3, <1>4, <1>5

LEMMA ReceivesType ==
  ASSUME WireTypeOK, StageFits, Receives
  PROVE  WireTypeOK'
<1> DEFINE f == Head(toHost)
<1>0. /\ HostType /\ QueueType /\ call \in CallType /\ kept \in KeptType /\ gone \in {"mute", "switch", "unbind", "no"}
  BY DEF WireTypeOK, LinkType, HostType, QueueType, KeptType, CallType
<1>1. /\ toHost # <<>> /\ toHost' = Tail(toHost)
      /\ UNCHANGED <<session, front, want, muted, rx, busy, dev, faults>>
      /\ \/ Breaks /\ UNCHANGED kept
         \/ GetsAck(f) \/ GetsMore(f) \/ GetsLast(f)
  BY ReceivesIs
<1>2. toHost' \in Seq(FrameType) /\ f \in FrameType
  BY <1>0, <1>1, Shrunk DEF QueueType
<1> HIDE DEF f
<1>3. f.ids \subseteq Ids
  BY <1>2 DEF FrameType
<1>4. Append(call.got, f.ids) \in Seq(SUBSET Ids) /\ Len(call.got) + 1 \in Nat /\ call.sent \in Nat
  BY <1>0, <1>3, AppendProperties, LenProperties DEF CallType
<1>a. ASSUME door' \in {"shut", "drain", "select", "idle", "wait"}, stage' \in {"probe", "again", "open", "up"},
             call' \in CallType, toAdapter' \in Seq(FrameType), gone' \in {"mute", "switch", "unbind", "no"},
             kept' \in KeptType
      PROVE  WireTypeOK'
  <2>1. HostType'
    BY <1>0, <1>1, <1>a DEF HostType, CallType
  <2>2. LinkType'
    BY <1>1, <1>2, <1>a DEF WireTypeOK, LinkType
  <2>3. TaskType' /\ faults' \in 0 .. MaxFaults
    BY <1>1 DEF WireTypeOK, TaskType
  <2>4. QED
    BY <1>a, <2>1, <2>2, <2>3 DEF WireTypeOK, KeptType
<1>b. door \in {"shut", "drain", "select", "idle", "wait"} /\ stage \in {"probe", "again", "open", "up"}
  BY <1>0 DEF HostType
<1>5. CASE Breaks /\ UNCHANGED kept
  BY <1>0, <1>5, <1>a, BreaksKeeps DEF QueueType
<1>6. CASE GetsAck(f)
  <2>1. call' \in CallType
    <3>1. call.sent + 1 \in Nat /\ call' = [call EXCEPT !.sent = @ + 1]
      BY <1>4, <1>6 DEF GetsAck
    <3>2. QED
      BY <1>0, <3>1 DEF CallType
  <2>2. Part(call, call.sent) \in FrameType
    BY <1>0, <1>4, PartIs DEF CallType
  <2>3. toAdapter' \in Seq(FrameType)
    BY <1>0, <1>6, <2>2, Grown DEF GetsAck, QueueType
  <2>4. QED
    BY <1>0, <1>6, <1>a, <1>b, <2>1, <2>3 DEF GetsAck
<1>7. CASE GetsMore(f)
  <2>1. call' \in CallType
    BY <1>0, <1>4, <1>7 DEF GetsMore, CallType
  <2>2. Fetch(call, Len(call.got) + 1) \in FrameType
    BY <1>0, <1>4, FetchIs DEF CallType
  <2>3. toAdapter' \in Seq(FrameType)
    BY <1>0, <1>7, <2>2, Grown DEF GetsMore, QueueType
  <2>4. QED
    BY <1>0, <1>7, <1>a, <1>b, <2>1, <2>3 DEF GetsMore
<1>8. CASE GetsLast(f)
  <2>1. call' \in CallType
    BY <1>0, <1>4, <1>8 DEF GetsLast, CallType
  <2>2. kept' \in KeptType
    BY <1>0, <1>8 DEF GetsLast, Returns, KeptType
  <2>3. /\ door' \in {"shut", "drain", "select", "idle", "wait"}
        /\ stage' \in {"probe", "again", "open", "up"} /\ gone' \in {"mute", "switch", "unbind", "no"}
    BY <1>0, <1>8, <1>b DEF GetsLast, Returns, Deleted
  <2>4. QED
    BY <1>0, <1>8, <1>a, <2>1, <2>2, <2>3 DEF GetsLast, QueueType
<1>9. QED
  BY <1>1, <1>5, <1>6, <1>7, <1>8

-------------------------------------------------------------------------------
(* The steps keep the invariant. *)

\* The parts that say more than types.
WireParts ==
  /\ StageFits /\ NumbersFit /\ AdapterFits /\ LinkFits /\ ProbeFits /\ CallFits /\ SessionsAreClean

\* Bounds of the numbers that the parts compare.
LEMMA Numbers ==
  ASSUME WireTypeOK
  PROVE  /\ call.seq \in Nat /\ session \in Nat /\ session < Sessions /\ session # Sessions
         /\ call.sent \in Nat /\ rx.seq \in Nat
         /\ toAdapter \in Seq(FrameType) /\ toHost \in Seq(FrameType)
         /\ Len(toAdapter) \in Nat /\ Len(toHost) \in Nat
         /\ call \in CallType /\ rx \in RxType /\ kept \in KeptType
<1>1. session \in 0 .. Sessions - 1
  BY DEF WireTypeOK, HostType
<1>2. session \in Nat /\ session < Sessions /\ session # Sessions
  BY <1>1, Constants
<1>3. call \in CallType /\ rx \in RxType /\ kept \in KeptType
  BY DEF WireTypeOK, HostType, TaskType, CallType, RxType, KeptType
<1>4. call.seq \in Nat /\ call.sent \in Nat /\ rx.seq \in Nat
  BY <1>3 DEF CallType, RxType
<1>5. toAdapter \in Seq(FrameType) /\ toHost \in Seq(FrameType)
  BY DEF WireTypeOK, LinkType
<1>6. Len(toAdapter) \in Nat /\ Len(toHost) \in Nat
  BY <1>5, LenProperties
<1>7. QED
  BY <1>2, <1>3, <1>4, <1>5, <1>6

LEMMA OpensPortKeeps ==
  ASSUME WireTypeOK, WireParts, OpensPort
  PROVE  WireParts'
<1>0. /\ door = "shut" /\ gone = "no" /\ door' = "drain" /\ stage' = "probe" /\ gone' = "no"
      /\ toHost' = <<>> /\ ~Served /\ toAdapter' = toAdapter
      /\ UNCHANGED <<front, want, rx, busy, dev>> /\ kept'.wrong = kept.wrong /\ muted' = FALSE
      /\ (Leftover' <=> Leftover)
  BY Numbers DEF OpensPort, Served, task, KeptType, Leftover
<1>1. toAdapter = <<>> /\ (~Leftover => rx = Fresh /\ busy = NoJob /\ dev = NoSession)
  BY <1>0 DEF WireParts, LinkFits
<1>2. call'.op = "none" /\ call'.seq = 0 /\ call'.id = call.id /\ call'.got = call.got
  BY Numbers DEF OpensPort, CallType
<1>3. session' \in 0 .. Sessions - 1 /\ session' # Sessions
  BY Constants DEF OpensPort, WireTypeOK, HostType
<1>4. \A i \in busy.ids : i[1] < Sessions /\ i[1] # session'
  BY DEF OpensPort, WireParts, NumbersFit
<1>5. kept'.last = kept.last \/ kept'.last = NoId
  BY Numbers DEF OpensPort, KeptType
<1>6. kept'.last[1] # session'
  <2>1. CASE kept.last[1] = session'
    <3>1. kept'.last = NoId
      BY <2>1, Numbers DEF OpensPort, KeptType
    <3>2. QED
      BY <1>3, <3>1 DEF NoId
  <2>2. CASE kept.last[1] # session'
    <3>1. kept'.last = kept.last
      BY <2>2, Numbers DEF OpensPort, KeptType
    <3>2. QED
      BY <2>2, <3>1
  <2>3. QED
    BY <2>1, <2>2
<1>7. DOMAIN toAdapter' = {} /\ DOMAIN toHost' = {}
  BY <1>0, <1>1
<1>8. StageFits'
  BY <1>0, <1>2 DEF StageFits, Probing
<1>9. NumbersFit'
  <2>1. \A i \in DOMAIN call.got : call.got[i] = {call.id}
    BY DEF WireParts, NumbersFit
  <2>2. QED
    BY <1>0, <1>2, <1>4, <1>6, <1>7, <2>1 DEF NumbersFit
<1>10. AdapterFits'
  <2>1. busy.ids # {NoId}
    <3>1. NoId[1] = Sessions /\ ~(Sessions < Sessions)
      BY Constants DEF NoId
    <3>2. QED
      BY <1>4, <3>1
  <2>2. busy'.op = "act" => busy'.ids # {kept'.last}
    BY <1>0, <1>5, <2>1 DEF WireParts, AdapterFits
  <2>3. ~Leftover' => /\ rx'.seq <= call'.seq /\ rx'.ids = {} /\ ~rx'.ready /\ busy' = NoJob
    BY <1>0, <1>1, <1>2, Constants
  <2>4. /\ busy' # NoJob => busy'.op \in Ops /\ busy'.op = rx'.op /\ busy'.ids = rx'.ids
        /\ (busy'.long => busy'.op # "probe")
        /\ rx'.status # "in use" /\ (busy'.op = "open" => dev' = NoSession)
    BY <1>0 DEF WireParts, AdapterFits
  <2>5. QED
    BY <2>2, <2>3, <2>4 DEF AdapterFits
<1>11. LinkFits' /\ ProbeFits' /\ CallFits'
  <2>1. Served' /\ Probing'
    BY <1>0 DEF Served, Probing
  <2>2. LinkFits'
    <3>1. ~(door' \notin {"shut", "drain"}) /\ ~(door' \in {"idle", "wait"})
      BY <1>0
    <3>2. QED
      BY <1>0, <1>7, <2>1, <3>1 DEF LinkFits, WireParts
  <2>3. ProbeFits'
    BY <1>0, <1>1, <1>7, <2>1, Constants DEF ProbeFits
  <2>4. CallFits'
    BY <2>1 DEF CallFits
  <2>5. QED
    BY <2>2, <2>3, <2>4
<1>12. SessionsAreClean'
  BY <1>0 DEF WireParts, SessionsAreClean
<1>13. QED
  BY <1>8, <1>9, <1>10, <1>11, <1>12 DEF WireParts

LEMMA SelectFrontendKeeps ==
  ASSUME WireTypeOK, WireParts, SelectFrontend
  PROVE  WireParts'
<1>0. /\ door = "drain" /\ door' = "select" /\ toHost' = <<>> /\ toAdapter' = Append(toAdapter, Select)
      /\ UNCHANGED <<front, stage, session, call, gone, muted, busy, dev, kept>> /\ gone' = "no" /\ Probing
      /\ (Leftover' <=> Leftover) /\ (busy # NoJob => busy.long)
  BY DEF SelectFrontend, Settled, linkState, WireParts, StageFits, Leftover
<1>1. /\ rx'.seq = rx.seq /\ rx'.ids = rx.ids /\ rx'.ready = rx.ready /\ rx'.status = rx.status
      /\ rx'.op = rx.op
  BY Numbers DEF SelectFrontend, RxType
<1>a. rx = Fresh => rx' = Fresh
  <2>1. [Fresh EXCEPT !.cut = FALSE, !.on = FALSE] = Fresh
    <3>1. [Fresh EXCEPT !.cut = FALSE, !.on = FALSE] \in RxType /\ Fresh \in RxType
      BY Constants DEF RxType
    <3>2. /\ Fresh.cut = FALSE /\ Fresh.on = FALSE
      BY DEF Fresh
    <3>3. QED
      BY <3>1, <3>2 DEF RxType
  <2>2. QED
    BY <2>1 DEF SelectFrontend
<1>2. Served /\ Served' /\ Probing' /\ stage' # "open" /\ DOMAIN toHost' = {}
  BY <1>0 DEF Served, Probing
<1>3. \A i \in DOMAIN toAdapter' : toAdapter'[i] = Select \/ (i \in DOMAIN toAdapter /\ toAdapter'[i] = toAdapter[i])
  <2>1. toAdapter \in Seq(FrameType) /\ Select \in FrameType
    BY Numbers, PlainFrames
  <2>2. \A i \in DOMAIN Append(toAdapter, Select) :
          (i = Len(toAdapter) + 1 /\ Append(toAdapter, Select)[i] = Select)
          \/ (i \in DOMAIN toAdapter /\ Append(toAdapter, Select)[i] = toAdapter[i])
    BY <2>1, Grown
  <2>3. QED
    BY <1>0, <2>2
<1>4. StageFits'
  BY <1>0, <1>2 DEF StageFits
<1>5. NumbersFit'
  <2>1. ASSUME NEW i \in DOMAIN toAdapter'
        PROVE  /\ toAdapter'[i].seq <= call'.seq
               /\ toAdapter'[i].kind = "part" => toAdapter'[i].ids = {<<session', toAdapter'[i].seq>>}
    <3>1. CASE toAdapter'[i] = Select
      <4>1. toAdapter'[i].seq = 0 /\ toAdapter'[i].kind # "part"
        BY <3>1, PlainFrames
      <4>2. call'.seq \in Nat
        BY <1>0, Numbers
      <4>3. 0 <= call'.seq
        BY <4>2
      <4>4. QED
        BY <4>1, <4>3
    <3>2. CASE i \in DOMAIN toAdapter /\ toAdapter'[i] = toAdapter[i]
      BY <1>0, <3>2 DEF WireParts, NumbersFit
    <3>3. QED
      BY <1>3, <3>1, <3>2
  <2>2. QED
    BY <1>0, <1>2, <2>1 DEF WireParts, NumbersFit
<1>6. AdapterFits'
  BY <1>0, <1>1 DEF WireParts, AdapterFits
<1>7. LinkFits'
  BY <1>0, <1>2, <1>3, <1>a, PlainFrames DEF WireParts, LinkFits
<1>8. ProbeFits'
  BY <1>0, <1>2, <1>3, PlainFrames DEF WireParts, ProbeFits
<1>9. CallFits' /\ SessionsAreClean'
  BY <1>0, <1>2 DEF WireParts, CallFits, SessionsAreClean
<1>10. QED
  BY <1>4, <1>5, <1>6, <1>7, <1>8, <1>9 DEF WireParts

LEMMA SelectedKeeps ==
  ASSUME WireTypeOK, WireParts, Selected
  PROVE  WireParts'
<1>0. /\ door = "select" /\ door' = "idle" /\ toHost' = <<>> /\ gone' = "no" /\ Probing
      /\ UNCHANGED <<front, stage, session, call, toAdapter, gone, muted, rx, busy, dev, kept>>
      /\ (Leftover' <=> Leftover) /\ (busy # NoJob => busy.long)
  BY DEF Selected, Settled, linkState, task, WireParts, StageFits, Leftover
<1>2. Served /\ Served' /\ Probing' /\ stage' # "open" /\ DOMAIN toHost' = {}
  BY <1>0 DEF Served, Probing
<1>4. StageFits'
  BY <1>0, <1>2 DEF StageFits
<1>5. NumbersFit'
  BY <1>0, <1>2 DEF WireParts, NumbersFit
<1>6. AdapterFits'
  BY <1>0 DEF WireParts, AdapterFits
<1>7. LinkFits'
  BY <1>0, <1>2 DEF WireParts, LinkFits
<1>8. ProbeFits'
  BY <1>0, <1>2 DEF WireParts, ProbeFits
<1>9. CallFits' /\ SessionsAreClean'
  BY <1>0, <1>2 DEF WireParts, CallFits, SessionsAreClean
<1>10. QED
  BY <1>4, <1>5, <1>6, <1>7, <1>8, <1>9 DEF WireParts

\* What a queue to the adapter is that grows by f.
LEMMA AdapterGrown ==
  ASSUME WireTypeOK, NEW f \in FrameType
  PROVE  /\ Len(Append(toAdapter, f)) = Len(toAdapter) + 1
         /\ \A i \in DOMAIN Append(toAdapter, f) :
              (i = Len(toAdapter) + 1 /\ Append(toAdapter, f)[i] = f)
              \/ (i \in DOMAIN toAdapter /\ Append(toAdapter, f)[i] = toAdapter[i])
<1>1. toAdapter \in Seq(FrameType)
  BY Numbers
<1>2. QED
  BY <1>1, Grown

\* An empty queue, and one of a single fragment.
LEMMA Empty ==
  ASSUME NEW T, NEW q \in Seq(T)
  PROVE  /\ Len(q) \in Nat /\ DOMAIN q = 1 .. Len(q) /\ (Len(q) = 0 <=> q = <<>>)
         /\ (q = <<>> <=> DOMAIN q = {}) /\ (Len(q) <= 0 => q = <<>>)
BY LenProperties, EmptySeq

LEMMA BeginsKeeps ==
  ASSUME WireTypeOK, WireParts, NEW o \in Ops, Begins(o)
  PROVE  WireParts'
<1> DEFINE f == Part(call', 0)
<1>0. /\ door = "idle" /\ door' = "wait" /\ toAdapter' = Append(toAdapter, f) /\ o \in Calls
      /\ UNCHANGED <<front, stage, session, toHost, gone, muted, rx, busy, dev, kept>>
      /\ (Leftover' <=> Leftover)
  BY DEF Begins, linkState, task, Leftover
<1>1. call' = [op |-> o, seq |-> call.seq + 1, id |-> <<session, call.seq + 1>>, sent |-> 1, got |-> <<>>]
  BY DEF Begins
<1>2. /\ call'.op = o /\ call'.seq = call.seq + 1 /\ call'.id = <<session', call'.seq>> /\ call'.sent = 1
      /\ call'.got = <<>> /\ DOMAIN call'.got = {}
  BY <1>0, <1>1
<1>3. call' \in CallType
  <2>1. WireTypeOK'
    BY HostTypeStep
  <2>2. QED
    BY <2>1 DEF WireTypeOK, HostType, CallType
<1>4. /\ f.kind = "part" /\ f.op = o /\ f.seq = call'.seq /\ f.off = 0 /\ f.ids = {<<session', call'.seq>>}
      /\ f \in FrameType
  <2>1. call' \in [op : OpNames, seq : Nat, id : Ids, sent : Nat, got : Seq(SUBSET Ids)] /\ 0 \in Nat
    BY <1>3 DEF CallType
  <2>2. f \in FrameType
    BY <2>1, PartIs
  <2>4. f.kind = "part" /\ f.op = call'.op /\ f.seq = call'.seq /\ f.off = 0 /\ f.ids = {call'.id}
    BY DEF Part, Frame
  <2>5. QED
    BY <1>2, <2>2, <2>4
<1> HIDE DEF f
<1>5. /\ Len(toAdapter') = Len(toAdapter) + 1
      /\ \A i \in DOMAIN toAdapter' :
           (i = Len(toAdapter) + 1 /\ toAdapter'[i] = f)
           \/ (i \in DOMAIN toAdapter /\ toAdapter'[i] = toAdapter[i])
  BY <1>0, <1>4, AdapterGrown
<1>6. /\ Probing => o = "probe"
      /\ stage = "open" <=> o = "open"
      /\ ~Probing => o # "probe"
  BY <1>0 DEF Calls, Probing, Ops, WireTypeOK, HostType
<1>7. Served /\ Served' /\ (Probing' <=> Probing) /\ gone = "no"
  BY <1>0 DEF Served, Probing, WireParts, StageFits
<1>8. call.seq \in Nat /\ call'.seq \in Nat /\ call'.seq # 0 /\ call.seq < call'.seq
  BY <1>2, Numbers
<1>9. StageFits'
  BY <1>0, <1>2, <1>6, <1>7, <1>8 DEF StageFits
<1>10. \A i \in DOMAIN toAdapter : toAdapter[i].seq < call'.seq /\ toAdapter[i].seq <= call'.seq
  <2>1. ASSUME NEW i \in DOMAIN toAdapter PROVE toAdapter[i].seq \in Nat /\ toAdapter[i].seq <= call.seq
    <3>1. toAdapter[i] \in FrameType
      BY Numbers, LenProperties, ElementOfSeq
    <3>2. QED
      BY <3>1 DEF FrameType, WireParts, NumbersFit
  <2>2. QED
    BY <1>8, <2>1
<1>11. \A i \in DOMAIN toHost : ~Late(toHost[i]) => toHost[i].seq < call'.seq /\ toHost[i].seq <= call'.seq
  <2>1. ASSUME NEW i \in DOMAIN toHost, ~Late(toHost[i]) PROVE toHost[i].seq \in Nat /\ toHost[i].seq <= call.seq
    <3>1. toHost[i] \in FrameType
      BY Numbers, LenProperties, ElementOfSeq
    <3>2. QED
      BY <1>0, <2>1, <3>1 DEF FrameType, WireParts, NumbersFit
  <2>2. QED
    BY <1>8, <2>1
<1>12. \A i \in busy.ids : i[1] < Sessions /\ (i[1] = session => i[2] <= call'.seq)
  <2>1. ASSUME NEW i \in busy.ids PROVE i[1] < Sessions /\ (i[1] = session => i[2] <= call.seq) /\ i[2] \in Nat
    <3>1. i \in Ids
      BY DEF WireTypeOK, TaskType
    <3>2. QED
      BY <3>1 DEF Ids, WireParts, NumbersFit
  <2>2. QED
    BY <1>8, <2>1
<1>13. kept.last[1] = session => kept.last[2] < call'.seq /\ kept.last[2] <= call'.seq
  <2>1. kept.last[2] \in Nat
    BY Numbers DEF KeptType, Ids
  <2>2. kept.last[1] = session => kept.last[2] <= call.seq
    BY DEF WireParts, NumbersFit
  <2>3. QED
    BY <1>8, <2>1, <2>2
<1>14. NumbersFit'
  <2>1. ASSUME NEW i \in DOMAIN toAdapter'
        PROVE  /\ toAdapter'[i].seq <= call'.seq
               /\ toAdapter'[i].kind = "part" => toAdapter'[i].ids = {<<session', toAdapter'[i].seq>>}
    <3>1. CASE toAdapter'[i] = f
      BY <1>4, <1>8, <3>1
    <3>2. CASE i \in DOMAIN toAdapter /\ toAdapter'[i] = toAdapter[i]
      BY <1>0, <1>10, <3>2 DEF WireParts, NumbersFit
    <3>3. QED
      BY <1>5, <3>1, <3>2
  <2>2. ASSUME NEW i \in DOMAIN toHost'
        PROVE  /\ toHost'[i].status # "in use"
               /\ ~Late(toHost[i])' =>
                    /\ toHost'[i].seq <= call'.seq
                    /\ toHost'[i].kind = "answer" => toHost'[i].ids = {<<session', toHost'[i].seq>>}
    <3>1. (Late(toHost[i])' <=> Late(toHost[i])) /\ toHost'[i] = toHost[i] /\ i \in DOMAIN toHost
      BY <1>0, <1>7 DEF Late
    <3>2. QED
      BY <1>0, <1>11, <3>1 DEF WireParts, NumbersFit
  <2>3. \A i \in busy'.ids : i[1] < Sessions /\ (i[1] = session' => i[2] <= call'.seq)
    BY <1>0, <1>12
  <2>4. kept'.last[1] = session' => kept'.last[2] <= call'.seq
    BY <1>0, <1>13
  <2>5. QED
    BY <1>2, <2>1, <2>2, <2>3, <2>4 DEF NumbersFit
<1>15. AdapterFits'
  <2>1. ~Leftover => rx.seq <= call'.seq
    <3>1. ~Leftover => rx.seq <= call.seq
      BY DEF WireParts, AdapterFits
    <3>2. QED
      BY <1>8, <3>1, Numbers
  <2>2. QED
    BY <1>0, <2>1 DEF WireParts, AdapterFits
<1>16. LinkFits'
  <2>1. ASSUME Leftover, NEW i \in DOMAIN toAdapter'
        PROVE  toAdapter'[i].kind # "fetch" /\ (toAdapter'[i].kind = "part" => toAdapter'[i].off = 0)
    <3>1. CASE toAdapter'[i] = f
      BY <1>4, <3>1
    <3>2. CASE i \in DOMAIN toAdapter /\ toAdapter'[i] = toAdapter[i]
      BY <1>7, <2>1, <3>2 DEF WireParts, LinkFits
    <3>3. QED
      BY <1>5, <3>1, <3>2
  <2>2. Leftover => Probing /\ (busy # NoJob => busy.long)
    BY <1>0, <1>7 DEF WireParts, LinkFits
  <2>3. Leftover => \A i \in DOMAIN toHost : toHost[i].kind = "spoilt" \/ Late(toHost[i])
    BY <1>0, <1>7 DEF WireParts, LinkFits
  <2>4. \A i \in DOMAIN toHost' : toHost'[i] = toHost[i] /\ (Late(toHost[i])' <=> Late(toHost[i]))
    BY <1>0, <1>7 DEF Late
  <2>5. ~muted /\ (front # "wire" => rx = Fresh /\ busy = NoJob /\ dev = NoSession)
    BY <1>7 DEF WireParts, LinkFits
  <2>6. QED
    BY <1>0, <1>7, <2>1, <2>2, <2>3, <2>4, <2>5 DEF LinkFits
<1>17. ProbeFits'
  <2>1. ASSUME Probing, NEW i \in DOMAIN toAdapter', toAdapter'[i].kind = "part"
        PROVE  toAdapter'[i].op = "probe"
    <3>1. CASE toAdapter'[i] = f
      BY <1>4, <1>6, <2>1, <3>1
    <3>2. CASE i \in DOMAIN toAdapter /\ toAdapter'[i] = toAdapter[i]
      BY <1>7, <2>1, <3>2 DEF WireParts, ProbeFits
    <3>3. QED
      BY <1>5, <3>1, <3>2
  <2>2. Probing /\ ~Leftover => dev = NoSession /\ busy.op \in {"none", "probe"}
    BY <1>7 DEF WireParts, ProbeFits
  <2>3. ~(stage' = "open" /\ call'.op = "probe")
    BY <1>0, <1>2, <1>6
  <2>4. \A i \in DOMAIN toHost' : ~(toHost'[i].op = "probe" /\ toHost'[i].seq = call'.seq)
    <3>1. ASSUME NEW i \in DOMAIN toHost, toHost[i].op = "probe" PROVE toHost[i].seq # call'.seq
      <4>0. ~Late(toHost[i])
        BY <3>1 DEF Late
      <4>1. toHost[i] \in FrameType
        BY Numbers, LenProperties, ElementOfSeq
      <4>2. toHost[i].seq \in Nat
        BY <4>1 DEF FrameType
      <4>3. QED
        BY <1>8, <1>11, <4>0, <4>2
    <3>2. QED
      BY <1>0, <3>1
  <2>5. ~(~Leftover' /\ busy' # NoJob /\ rx'.seq = call'.seq)
    <3>1. ~Leftover => rx.seq <= call.seq
      BY DEF WireParts, AdapterFits
    <3>2. ~Leftover => rx.seq # call'.seq
      BY <1>8, <3>1, Numbers
    <3>3. QED
      BY <1>0, <3>2
  <2>6. ASSUME NEW i \in DOMAIN toAdapter', toAdapter'[i].seq = call'.seq PROVE i = Len(toAdapter')
    <3>1. CASE i = Len(toAdapter) + 1
      BY <1>5, <3>1
    <3>2. CASE i \in DOMAIN toAdapter /\ toAdapter'[i] = toAdapter[i]
      <4>1. toAdapter[i] \in FrameType
        BY <3>2, Numbers, LenProperties, ElementOfSeq
      <4>2. toAdapter[i].seq \in Nat /\ toAdapter[i].seq < call'.seq
        BY <1>10, <3>2, <4>1 DEF FrameType
      <4>3. QED
        BY <1>8, <2>6, <3>2, <4>2
    <3>3. QED
      BY <1>5, <3>1, <3>2
  <2>7. QED
    BY <1>0, <1>7, <2>1, <2>2, <2>3, <2>4, <2>5, <2>6 DEF ProbeFits
<1>18. CallFits'
  <2>1. ASSUME ~Probing PROVE toAdapter = <<>> /\ Len(toAdapter) = 0 /\ Len(toHost) = 0 /\ busy = NoJob
    <3>1. Len(toAdapter) + Len(toHost) + (IF busy = NoJob THEN 0 ELSE 1) <= 0
      BY <1>0, <1>7, <2>1 DEF WireParts, CallFits
    <3>2. QED
      BY <3>1, Numbers, Empty
  <2>2. NotRun'
    <3>1. kept'.last # call'.id
      <4>1. CASE kept.last[1] = session
        <5>1. kept.last[2] < call'.seq /\ kept.last[2] \in Nat
          BY <1>13, <4>1, Numbers DEF KeptType, Ids
        <5>2. kept.last[2] # call'.seq
          BY <1>8, <5>1
        <5>3. QED
          BY <1>0, <1>2, <5>2
      <4>2. CASE kept.last[1] # session
        BY <1>0, <1>2, <4>2
      <4>3. QED
        BY <4>1, <4>2
    <3>2. call'.op = "open" => dev' = NoSession
      BY <1>0, <1>2, <1>6, <1>7 DEF WireParts, StageFits, ProbeFits
    <3>3. QED
      BY <3>1, <3>2 DEF NotRun
  <2>3. ASSUME ~Probing, NEW i \in DOMAIN toAdapter'
        PROVE  toAdapter'[i] = Part(call, call.sent - 1)'
    <3>1. DOMAIN toAdapter = {}
      BY <2>1, <2>3
    <3>2. toAdapter'[i] = f
      BY <1>5, <3>1
    <3>3. call'.sent - 1 = 0
      BY <1>2
    <3>4. QED
      BY <3>2, <3>3 DEF f, Part, Frame
  <2>4. ~Probing => Len(toAdapter') + Len(toHost') + (IF busy' = NoJob THEN 0 ELSE 1) <= 1
    BY <1>0, <1>5, <2>1
  <2>5. ~Probing => busy' = NoJob
    BY <1>0, <2>1
  <2>6. QED
    BY <1>0, <1>2, <1>7, <2>2, <2>3, <2>4, <2>5 DEF CallFits
<1>19. SessionsAreClean'
  BY <1>0 DEF WireParts, SessionsAreClean
<1>20. QED
  BY <1>9, <1>14, <1>15, <1>16, <1>17, <1>18, <1>19 DEF WireParts

\* What rpc() does when it gives up: with its fragment taken, or with none there.
LEMMA BreaksKeepsParts ==
  ASSUME WireTypeOK, WireParts, door = "wait", Breaks,
         toHost' = toHost \/ (toHost # <<>> /\ toHost' = Tail(toHost)),
         toHost' = toHost => toHost = <<>>,
         UNCHANGED <<session, front, want, muted, rx, busy, dev, kept>>
  PROVE  WireParts'
<1>0. UNCHANGED <<call, toAdapter>>
  BY DEF Breaks, Closes
<1>1. /\ Len(toHost') <= Len(toHost) /\ Len(toHost') \in Nat
      /\ \A i \in DOMAIN toHost' : \E j \in DOMAIN toHost : toHost'[i] = toHost[j]
  <2>1. CASE toHost' = toHost
    BY <2>1, Numbers
  <2>2. CASE toHost # <<>> /\ toHost' = Tail(toHost)
    <3>1. /\ Len(toHost') = Len(toHost) - 1 /\ Len(toHost) > 0
          /\ \A i \in DOMAIN toHost' : i + 1 \in DOMAIN toHost /\ toHost'[i] = toHost[i + 1]
      BY <2>2, Numbers, Shrunk
    <3>2. Len(toHost) \in Nat
      BY Numbers
    <3>3. Len(toHost') <= Len(toHost) /\ Len(toHost') \in Nat
      BY <3>1, <3>2
    <3>4. QED
      BY <3>1, <3>3
  <2>3. QED
    BY <2>1, <2>2
<1>2. Served /\ gone = "no"
  BY DEF Served, WireParts, StageFits
<1>3. /\ ~muted /\ (Leftover => Probing) /\ door' \in {"shut", "drain"} /\ gone' \in {"no", "mute"}
      /\ (Leftover' <=> Leftover)
  BY <1>2 DEF WireParts, LinkFits, Breaks, Closes, Deleted, Leftover
<1>4. NumbersFit'
  <2>1. ~(door' \in {"idle", "wait"})
    BY <1>3
  <2>2. QED
    BY <1>0, <2>1 DEF WireParts, NumbersFit
<1>5. AdapterFits' /\ SessionsAreClean'
  BY <1>0, <1>3 DEF WireParts, AdapterFits, SessionsAreClean
<1>6. CASE stage = "probe" /\ stage' = "again" /\ door' = "drain" /\ gone' = gone
  <2>1. Probing /\ Probing' /\ Served' /\ stage' # "open"
    BY <1>6 DEF Probing, Served
  <2>2. StageFits'
    BY <1>2, <1>6, <2>1 DEF StageFits
  <2>3. LinkFits'
    BY <1>0, <1>2, <1>3, <2>1 DEF WireParts, LinkFits
  <2>4. ProbeFits'
    BY <1>0, <1>2, <1>3, <1>6, <2>1 DEF WireParts, ProbeFits
  <2>5. CallFits'
    BY <2>1 DEF CallFits
  <2>6. QED
    BY <1>4, <1>5, <2>2, <2>3, <2>4, <2>5 DEF WireParts
<1>7. CASE stage # "probe" /\ stage' = stage /\ door' = "shut" /\ gone' = "mute"
  <2>1. (Probing' <=> Probing) /\ Served'
    BY <1>7 DEF Probing, Served
  <2>2. StageFits'
    BY <1>7 DEF StageFits
  <2>3. LinkFits'
    BY <1>0, <1>2, <1>3, <1>7, <2>1 DEF WireParts, LinkFits
  <2>4. ProbeFits'
    BY <1>0, <1>2, <1>3, <1>7, <2>1 DEF WireParts, ProbeFits
  <2>5. CallFits'
    <3>1. ASSUME ~Probing
          PROVE  Len(toAdapter') + Len(toHost') + (IF busy' = NoJob THEN 0 ELSE 1) <= 1
      <4>1. Len(toAdapter) + Len(toHost) + (IF busy = NoJob THEN 0 ELSE 1) <= 1
        BY <1>2, <3>1 DEF WireParts, CallFits
      <4>2. Len(toAdapter) \in Nat /\ Len(toHost) \in Nat
        BY Numbers
      <4>3. QED
        BY <1>0, <1>1, <4>1, <4>2
    <3>2. NotRun <=> NotRun'
      BY <1>0 DEF NotRun
    <3>3. ASSUME NEW i \in DOMAIN toAdapter
          PROVE  Part(call, call.sent - 1) = Part(call, call.sent - 1)'
      BY <1>0 DEF Part, Frame
    <3>4. QED
      BY <1>0, <1>2, <1>7, <2>1, <3>1, <3>2, <3>3 DEF WireParts, CallFits
  <2>6. QED
    BY <1>4, <1>5, <2>2, <2>3, <2>4, <2>5 DEF WireParts
<1>8. QED
  BY <1>6, <1>7 DEF Breaks, Closes, Deleted

LEMMA ExpiresKeeps ==
  ASSUME WireTypeOK, WireParts, Expires
  PROVE  WireParts'
BY BreaksKeepsParts DEF Expires, task

LEMMA ClientGoneKeeps ==
  ASSUME WireTypeOK, WireParts, ClientGone
  PROVE  WireParts'
<1>0. UNCHANGED <<front, door, stage, session, call, toHost, rx, busy, dev, kept>>
  BY DEF ClientGone, host, task
<1>1. \/ gone = "mute" /\ toAdapter' = <<>> /\ muted' = TRUE /\ gone' = "switch"
      \/ gone = "switch" /\ gone' = "unbind" /\ want' = "elm" /\ toAdapter' = toAdapter
      \/ gone = "unbind" /\ gone' = "no" /\ want' = want /\ toAdapter' = toAdapter
  BY DEF ClientGone
<1>2. door = "shut" /\ ~Served'
  BY <1>0, <1>1 DEF Served, WireParts, StageFits
<1>3. CASE gone \in {"switch", "unbind"} /\ gone' \in {"unbind", "no"} /\ (Leftover' <=> Leftover)
           /\ toAdapter' = toAdapter
  <2>1. ~Served
    BY <1>2, <1>3 DEF Served
  <2>2. StageFits' /\ NumbersFit' /\ AdapterFits' /\ SessionsAreClean'
    BY <1>0, <1>2, <1>3 DEF WireParts, StageFits, NumbersFit, AdapterFits, SessionsAreClean
  <2>3. LinkFits'
    BY <1>0, <1>2, <1>3, <2>1 DEF WireParts, LinkFits
  <2>4. ProbeFits' /\ CallFits'
    BY <1>0, <1>2 DEF ProbeFits, CallFits
  <2>5. QED
    BY <2>2, <2>3, <2>4 DEF WireParts
<1>4. CASE gone = "mute" /\ toAdapter' = <<>> /\ gone' = "switch" /\ Leftover'
  <2>2. StageFits' /\ SessionsAreClean'
    BY <1>0, <1>2, <1>4 DEF WireParts, StageFits, SessionsAreClean
  <2>1. DOMAIN toAdapter' = {}
    BY <1>4
  <2>3. NumbersFit'
    <3>1. ~(door' \in {"idle", "wait"})
      BY <1>0, <1>2
    <3>2. QED
      BY <1>0, <2>1, <3>1 DEF WireParts, NumbersFit
  <2>4. AdapterFits'
    BY <1>0, <1>4 DEF WireParts, AdapterFits
  <2>5. LinkFits'
    BY <1>0, <1>2, <1>4 DEF WireParts, LinkFits
  <2>6. ProbeFits' /\ CallFits'
    BY <1>0, <1>2 DEF ProbeFits, CallFits
  <2>7. QED
    BY <2>2, <2>3, <2>4, <2>5, <2>6 DEF WireParts
<1>5. QED
  BY <1>1, <1>3, <1>4 DEF Leftover

LEMMA AppliesSwitchKeeps ==
  ASSUME WireTypeOK, WireParts, AppliesSwitch
  PROVE  WireParts'
<1>0. /\ UNCHANGED <<door, stage, session, call, toAdapter, toHost, gone, busy, kept>>
      /\ busy = NoJob /\ want' = "none" /\ rx' = Fresh /\ dev' = NoSession
  BY DEF AppliesSwitch, host
<1>1. (Served' <=> Served) /\ (Probing' <=> Probing) /\ (Leftover' <=> gone = "switch") 
      /\ (gone = "switch" => ~Served)
  BY <1>0 DEF Served, Probing, Leftover, WireParts, StageFits
<1>9. muted' => ~Served'
  <2>1. muted' => muted
    BY ZenonT(30) DEF AppliesSwitch
  <2>2. muted => ~Served
    BY DEF WireParts, LinkFits
  <2>3. QED
    BY <1>1, <2>1, <2>2
<1>2. StageFits' /\ SessionsAreClean'
  BY <1>0, <1>1 DEF WireParts, StageFits, SessionsAreClean
<1>3. NumbersFit'
  BY <1>0 DEF WireParts, NumbersFit, Late, Probing
<1>4. AdapterFits'
  <2>1. rx'.seq <= call'.seq
    BY <1>0, Constants, Numbers
  <2>2. rx'.ids = {} /\ rx'.ready = FALSE /\ rx'.status # "in use" /\ busy' = NoJob /\ busy'.op = "none"
        /\ busy'.long = FALSE
    BY <1>0, Constants DEF NoJob
  <2>3. QED
    BY <1>0, <2>1, <2>2 DEF AdapterFits
<1>5. LinkFits'
  BY <1>0, <1>1, <1>9 DEF WireParts, LinkFits
<1>6. ProbeFits'
  BY <1>0, <1>1, Constants DEF WireParts, ProbeFits
<1>7. CallFits'
  <2>1. NotRun => NotRun'
    BY <1>0 DEF NotRun
  <2>2. ASSUME NEW i \in DOMAIN toAdapter
        PROVE  Part(call, call.sent - 1) = Part(call, call.sent - 1)'
    BY <1>0 DEF Part, Frame
  <2>3. QED
    BY <1>0, <1>1, <2>1, <2>2 DEF WireParts, CallFits
<1>8. QED
  BY <1>2, <1>3, <1>4, <1>5, <1>6, <1>7 DEF WireParts

\* Where everything is when the fragment waited for comes: nothing else is on its way.
LEMMA WhenExpected ==
  ASSUME WireTypeOK, WireParts, door = "wait", toHost # <<>>, Expected(Head(toHost)), toHost' = Tail(toHost)
  PROVE  LET f == Head(toHost)
         IN  /\ Served /\ gone = "no" /\ ~Leftover /\ ~muted /\ busy = NoJob /\ toAdapter = <<>> /\ toHost' = <<>>
             /\ Len(toAdapter) = 0 /\ Len(toHost') = 0 /\ DOMAIN toAdapter = {} /\ DOMAIN toHost' = {}
             /\ call.op \in Ops /\ call.seq # 0 /\ call.id = <<session, call.seq>>
             /\ f.seq = call.seq /\ f.op = call.op /\ f \in FrameType /\ f.status # "in use"
             /\ f.kind = "answer" => f.ids = {call.id} /\ ~(call.sent < Sizes[call.op][1])
             /\ f.kind = "ack" => call.sent < Sizes[call.op][1]
             /\ ~Probing => NotRun \/ ~(call.sent < Sizes[call.op][1])
<1> DEFINE f == Head(toHost)
<1>1. f \in FrameType /\ 1 \in DOMAIN toHost /\ f = toHost[1] /\ Len(toHost') = Len(toHost) - 1 /\ Len(toHost) > 0
      /\ toHost' \in Seq(FrameType)
  BY Numbers, Shrunk
<1> HIDE DEF f
<1>2. Served /\ gone = "no"
  BY DEF Served, WireParts, StageFits
<1>3. ~muted
  BY <1>2 DEF WireParts, LinkFits
<1>a. ~Late(f) /\ f.kind # "spoilt"
  <2>1. Probing => call.op = "probe"
    BY DEF WireParts, StageFits
  <2>2. QED
    BY <2>1 DEF Late, Expected, f
<1>b. ~Leftover
  BY <1>1, <1>2, <1>a DEF WireParts, LinkFits
<1>4. call.op \in Ops /\ call.seq # 0 /\ call.id = <<session, call.seq>>
  <2>1. call.op \in Ops /\ call.seq # 0
    BY DEF WireParts, StageFits
  <2>2. call.op # "none"
    BY <2>1 DEF Ops
  <2>3. QED
    BY <2>1, <2>2 DEF WireParts, NumbersFit
<1>5. /\ f.seq = call.seq /\ f.op = call.op
      /\ f.kind = "answer" => ~(call.sent < Sizes[call.op][1])
      /\ f.kind = "ack" => call.sent < Sizes[call.op][1]
  BY DEF Expected, f
<1>6. f.status # "in use" /\ (f.kind = "answer" => f.ids = {call.id})
  BY <1>1, <1>4, <1>5, <1>a DEF WireParts, NumbersFit
<1>7. busy = NoJob /\ toAdapter = <<>> /\ Len(toHost') = 0
  <2>1. CASE Probing
    <3>0. call.op = "probe"
      BY <2>1 DEF WireParts, StageFits
    <3>1. 1 = Len(toHost) /\ busy = NoJob /\ toAdapter = <<>>
      BY <1>1, <1>5, <2>1, <3>0 DEF WireParts, ProbeFits
    <3>2. QED
      BY <1>1, <3>1
  <2>2. CASE ~Probing
    <3>1. Len(toAdapter) + Len(toHost) + (IF busy = NoJob THEN 0 ELSE 1) <= 1
      BY <1>2, <2>2 DEF WireParts, CallFits
    <3>2. Len(toAdapter) \in Nat /\ Len(toHost) \in Nat
      BY Numbers
    <3>3. busy = NoJob /\ Len(toAdapter) = 0 /\ Len(toHost) = 1
      BY <1>1, <3>1, <3>2
    <3>4. QED
      BY <1>1, <3>3, Numbers, Empty
  <2>3. QED
    BY <2>1, <2>2
<1>8. toHost' = <<>> /\ DOMAIN toHost' = {} /\ Len(toAdapter) = 0 /\ DOMAIN toAdapter = {}
  BY <1>1, <1>7, Numbers, Empty
<1>9. ~Probing => NotRun \/ ~(call.sent < Sizes[call.op][1])
  BY <1>2 DEF WireParts, CallFits
<1>10. QED
  BY <1>1, <1>2, <1>3, <1>b, <1>4, <1>5, <1>6, <1>7, <1>8, <1>9 DEF f

\* A queue of one fragment.
LEMMA One ==
  ASSUME NEW f \in FrameType
  PROVE  /\ Len(Append(<<>>, f)) = 1
         /\ \A i \in DOMAIN Append(<<>>, f) : i = 1 /\ Append(<<>>, f)[i] = f
<1>1. <<>> \in Seq(FrameType) /\ Len(<<>>) = 0 /\ DOMAIN <<>> = {}
  BY EmptySeq
<1>2. QED
  BY <1>1, Grown

LEMMA GetsAckKeeps ==
  ASSUME WireTypeOK, WireParts, Receives, GetsAck(Head(toHost))
  PROVE  WireParts'
<1> DEFINE p == Part(call, call.sent)
<1>0. /\ door = "wait" /\ door' = "wait" /\ toHost # <<>> /\ toHost' = Tail(toHost)
      /\ call' = [call EXCEPT !.sent = @ + 1] /\ toAdapter' = Append(toAdapter, p)
      /\ UNCHANGED <<front, stage, session, gone, want, muted, rx, busy, dev, kept>>
      /\ Expected(Head(toHost)) /\ Head(toHost).kind = "ack"
  BY ReceivesIs DEF GetsAck
<1>1. /\ call'.op = call.op /\ call'.seq = call.seq /\ call'.id = call.id /\ call'.got = call.got
      /\ call'.sent = call.sent + 1 /\ call'.sent # 0 /\ call'.sent - 1 = call.sent
  <2>1. call'.sent = call.sent + 1 /\ call.sent \in Nat
    BY <1>0, Numbers DEF CallType
  <2>2. QED
    BY <1>0, <2>1, Numbers DEF CallType
<1>2. /\ p.kind = "part" /\ p.op = call.op /\ p.seq = call.seq /\ p.ids = {call.id} /\ p \in FrameType
  <2>1. p \in FrameType
    BY Numbers, PartIs DEF CallType
  <2>2. QED
    BY <2>1 DEF Part, Frame
<1>3. p = Part(call, call.sent - 1)'
  BY <1>1 DEF Part, Frame
<1> HIDE DEF p
<1>4. /\ Served /\ ~muted /\ ~Leftover /\ busy = NoJob /\ toAdapter = <<>> /\ Len(toHost') = 0 /\ DOMAIN toHost' = {}
      /\ call.op \in Ops /\ call.seq # 0 /\ call.id = <<session, call.seq>>
      /\ call.sent < Sizes[call.op][1]
  BY <1>0, WhenExpected
<1>5. Len(toAdapter') = 1 /\ \A i \in DOMAIN toAdapter' : i = 1 /\ toAdapter'[i] = p
  BY <1>0, <1>2, <1>4, One
<1>6. (Served' <=> Served) /\ (Probing' <=> Probing) /\ (Leftover' <=> Leftover) /\ (NotRun' <=> NotRun)
  BY <1>0, <1>1 DEF Served, Probing, NotRun, Leftover
<1>7. StageFits' /\ SessionsAreClean'
  BY <1>0, <1>1, <1>6 DEF WireParts, StageFits, SessionsAreClean
<1>8. NumbersFit'
  <2>1. ASSUME NEW i \in DOMAIN toAdapter'
        PROVE  /\ toAdapter'[i].seq <= call'.seq
               /\ toAdapter'[i].kind = "part" => toAdapter'[i].ids = {<<session', toAdapter'[i].seq>>}
    <3>1. toAdapter'[i] = p /\ p.seq = call'.seq /\ p.ids = {<<session', p.seq>>}
      BY <1>0, <1>1, <1>2, <1>4, <1>5
    <3>2. call'.seq \in Nat
      BY <1>1, Numbers
    <3>3. QED
      BY <3>1, <3>2
  <2>2. /\ \A i \in DOMAIN call.got : call.got[i] = {call.id}
        /\ \A i \in busy.ids : i[1] < Sessions /\ (i[1] = session => i[2] <= call.seq)
        /\ kept.last[1] = session => kept.last[2] <= call.seq
    BY DEF WireParts, NumbersFit
  <2>3. DOMAIN toHost' = {} /\ call.id = <<session, call.seq>>
    BY <1>4
  <2>4. UNCHANGED <<session, busy, kept>>
    BY <1>0
  <2>5. QED
    BY <1>1, <2>1, <2>2, <2>3, <2>4 DEF NumbersFit
<1>9. AdapterFits'
  BY <1>0, <1>1, <1>6 DEF WireParts, AdapterFits
<1>10. LinkFits'
  BY <1>0, <1>4, <1>6 DEF WireParts, LinkFits
<1>11. ProbeFits'
  <2>1. Probing => call.op = "probe"
    BY <1>0 DEF WireParts, StageFits
  <2>2. ~(stage = "open" /\ call.op = "probe")
    BY <1>0 DEF WireParts, StageFits, Probing
  <2>3. Probing => dev = NoSession /\ busy.op \in {"none", "probe"}
    BY <1>4 DEF WireParts, ProbeFits
  <2>4. QED
    BY <1>0, <1>1, <1>2, <1>4, <1>5, <1>6, <2>1, <2>2, <2>3 DEF ProbeFits
<1>12. CallFits'
  <2>1. ~Probing => NotRun
    BY <1>0, <1>4, WhenExpected
  <2>2. Len(toAdapter') + Len(toHost') + (IF busy' = NoJob THEN 0 ELSE 1) <= 1
    BY <1>0, <1>4, <1>5
  <2>3. busy' = NoJob
    BY <1>0, <1>4
  <2>4. \A i \in DOMAIN toAdapter' : toAdapter'[i] = Part(call, call.sent - 1)'
    BY <1>3, <1>5
  <2>5. QED
    BY <1>0, <1>1, <1>4, <1>6, <2>1, <2>2, <2>3, <2>4 DEF CallFits
<1>13. QED
  BY <1>7, <1>8, <1>9, <1>10, <1>11, <1>12 DEF WireParts

\* What an answer received adds to the call.
LEMMA GotIs ==
  ASSUME WireTypeOK, WireParts, NEW x \in SUBSET Ids, x = {call.id}, call' = [call EXCEPT !.got = Append(@, x)]
  PROVE  /\ call'.op = call.op /\ call'.seq = call.seq /\ call'.id = call.id /\ call'.sent = call.sent
         /\ \A i \in DOMAIN call'.got : call'.got[i] = {call.id}
<1>1. call'.op = call.op /\ call'.seq = call.seq /\ call'.id = call.id /\ call'.sent = call.sent
      /\ call'.got = Append(call.got, x) /\ call.got \in Seq(SUBSET Ids)
  BY Numbers DEF CallType
<1>2. \A i \in DOMAIN call.got : call.got[i] = {call.id}
  BY DEF WireParts, NumbersFit
<1>3. \A i \in DOMAIN Append(call.got, x) :
        (i = Len(call.got) + 1 /\ Append(call.got, x)[i] = x)
        \/ (i \in DOMAIN call.got /\ Append(call.got, x)[i] = call.got[i])
  BY <1>1, Grown
<1>4. QED
  BY <1>1, <1>2, <1>3

LEMMA GetsMoreKeeps ==
  ASSUME WireTypeOK, WireParts, Receives, GetsMore(Head(toHost))
  PROVE  WireParts'
<1> DEFINE f == Head(toHost)
           p == Fetch(call, Len(call.got) + 1)
<1>0. /\ door = "wait" /\ door' = "wait" /\ toHost # <<>> /\ toHost' = Tail(toHost)
      /\ call' = [call EXCEPT !.got = Append(@, f.ids)] /\ toAdapter' = Append(toAdapter, p)
      /\ UNCHANGED <<front, stage, session, gone, want, muted, rx, busy, dev, kept>>
      /\ Expected(f) /\ f.kind = "answer"
  BY ReceivesIs DEF GetsMore
<1>2. /\ p.kind = "fetch" /\ p.op = call.op /\ p.seq = call.seq /\ p \in FrameType
  <2>1. Len(call.got) + 1 \in Nat
    BY Numbers, LenProperties DEF CallType
  <2>2. QED
    BY <2>1, Numbers, FetchIs DEF CallType
<1>4. /\ Served /\ ~muted /\ ~Leftover /\ busy = NoJob /\ toAdapter = <<>> /\ Len(toHost') = 0 /\ DOMAIN toHost' = {}
      /\ call.op \in Ops /\ call.seq # 0 /\ call.id = <<session, call.seq>>
      /\ ~(call.sent < Sizes[call.op][1]) /\ f.ids = {call.id} /\ f \in FrameType
  BY <1>0, WhenExpected
<1>1. /\ call'.op = call.op /\ call'.seq = call.seq /\ call'.id = call.id /\ call'.sent = call.sent
      /\ \A i \in DOMAIN call'.got : call'.got[i] = {call.id}
  <2>1. f.ids \in SUBSET Ids
    BY <1>4 DEF FrameType
  <2>2. QED
    BY <1>0, <1>4, <2>1, GotIs
<1> HIDE DEF f, p
<1>5. Len(toAdapter') = 1 /\ \A i \in DOMAIN toAdapter' : i = 1 /\ toAdapter'[i] = p
  BY <1>0, <1>2, <1>4, One
<1>6. (Served' <=> Served) /\ (Probing' <=> Probing) /\ (Leftover' <=> Leftover)
  BY <1>0 DEF Served, Probing, Leftover
<1>7. StageFits' /\ SessionsAreClean'
  BY <1>0, <1>1, <1>6 DEF WireParts, StageFits, SessionsAreClean
<1>8. NumbersFit'
  <2>1. ASSUME NEW i \in DOMAIN toAdapter'
        PROVE  toAdapter'[i].seq <= call'.seq /\ toAdapter'[i].kind # "part"
    <3>1. toAdapter'[i] = p /\ p.seq = call'.seq
      BY <1>1, <1>2, <1>5
    <3>2. call'.seq \in Nat
      BY <1>1, Numbers
    <3>3. QED
      BY <1>2, <3>1, <3>2
  <2>2. QED
    BY <1>0, <1>1, <1>4, <2>1 DEF WireParts, NumbersFit
<1>9. AdapterFits'
  BY <1>0, <1>1, <1>6 DEF WireParts, AdapterFits
<1>10. LinkFits'
  BY <1>0, <1>4, <1>6 DEF WireParts, LinkFits
<1>11. ProbeFits'
  <2>2. ~(stage = "open" /\ call.op = "probe")
    BY <1>0 DEF WireParts, StageFits, Probing
  <2>3. Probing => dev = NoSession /\ busy.op \in {"none", "probe"}
    BY <1>4 DEF WireParts, ProbeFits
  <2>4. \A i \in DOMAIN toAdapter' : i = Len(toAdapter') /\ toAdapter'[i].kind # "part"
    BY <1>2, <1>5
  <2>5. QED
    BY <1>0, <1>1, <1>4, <1>6, <2>2, <2>3, <2>4 DEF ProbeFits
<1>12. CallFits'
  <2>2. Len(toAdapter') + Len(toHost') + (IF busy' = NoJob THEN 0 ELSE 1) <= 1
    BY <1>0, <1>4, <1>5
  <2>3. busy' = NoJob
    BY <1>0, <1>4
  <2>4. \A i \in DOMAIN toAdapter' : toAdapter'[i].kind # "part"
    BY <1>2, <1>5
  <2>5. QED
    BY <1>0, <1>1, <1>4, <1>6, <2>2, <2>3, <2>4 DEF CallFits
<1>13. QED
  BY <1>7, <1>8, <1>9, <1>10, <1>11, <1>12 DEF WireParts

LEMMA GetsLastKeeps ==
  ASSUME WireTypeOK, WireParts, Receives, GetsLast(Head(toHost))
  PROVE  WireParts'
<1> DEFINE f == Head(toHost)
<1>0. /\ door = "wait" /\ toHost # <<>> /\ toHost' = Tail(toHost)
      /\ call' = [call EXCEPT !.got = Append(@, f.ids)] /\ toAdapter' = toAdapter
      /\ UNCHANGED <<session, front, want, muted, rx, busy, dev>>
      /\ Expected(f) /\ f.kind = "answer" /\ Returns(f.status)
  BY ReceivesIs DEF GetsLast
<1>4. /\ Served /\ gone = "no" /\ ~muted /\ ~Leftover /\ busy = NoJob /\ toAdapter = <<>> /\ Len(toHost') = 0
      /\ Len(toAdapter) = 0 /\ DOMAIN toHost' = {} /\ DOMAIN toAdapter = {}
      /\ call.op \in Ops /\ call.seq # 0 /\ call.id = <<session, call.seq>> /\ f.status # "in use"
      /\ ~(call.sent < Sizes[call.op][1]) /\ f.ids = {call.id} /\ f \in FrameType
  BY <1>0, WhenExpected
<1>1. /\ call'.op = call.op /\ call'.seq = call.seq /\ call'.id = call.id /\ call'.sent = call.sent
      /\ \A i \in DOMAIN call'.got : call'.got[i] = {call.id}
  <2>1. f.ids \in SUBSET Ids
    BY <1>4 DEF FrameType
  <2>2. QED
    BY <1>0, <1>4, <2>1, GotIs
<1> HIDE DEF f
<1>2. kept'.wrong = {} /\ kept'.last = kept.last
  <2>1. kept.wrong = {}
    BY DEF WireParts, SessionsAreClean
  <2>2. kept'.last = kept.last
    BY <1>0, Numbers DEF Returns, KeptType
  <2>3. kept'.wrong = kept.wrong
      \union (IF f.status = "in use" THEN {"refused"} ELSE {})
      \union IF call.op = "probe" \/ \A i \in DOMAIN call'.got : call'.got[i] = {call.id} THEN {} ELSE {"alien"}
    BY <1>0, Numbers DEF Returns, KeptType
  <2>4. QED
    BY <1>1, <1>4, <2>1, <2>2, <2>3
<1>3. /\ Probing <=> call.op = "probe"
      /\ stage = "open" <=> call.op = "open"
  BY <1>0 DEF WireParts, StageFits
<1>5. \/ call.op = "probe" /\ stage' = "open" /\ door' = "idle" /\ gone' = gone
      \/ call.op = "open" /\ stage' = "up" /\ door' = "idle" /\ gone' = gone
      \/ call.op = "act" /\ stage' = stage /\ door' = "idle" /\ gone' = gone
      \/ call.op # "probe" /\ door' = "shut" /\ gone' = "mute" /\ stage' = stage
  BY <1>0 DEF Returns, Deleted
<1>6. Served' /\ ~Probing' /\ ~Leftover'
  BY <1>0, <1>3, <1>4, <1>5 DEF Served, Probing, Leftover
<1>7. StageFits'
  BY <1>1, <1>3, <1>4, <1>5, <1>6 DEF StageFits
<1>8. NumbersFit'
  BY <1>0, <1>1, <1>2, <1>4 DEF WireParts, NumbersFit
<1>9. AdapterFits' /\ SessionsAreClean'
  BY <1>0, <1>1, <1>2, <1>4, <1>6 DEF WireParts, AdapterFits, SessionsAreClean
<1>10. LinkFits'
  BY <1>0, <1>4, <1>6 DEF WireParts, LinkFits
<1>11. ProbeFits'
  <2>1. stage' = "open" /\ call'.op = "probe" => dev' = NoSession
    BY <1>0, <1>1, <1>3, <1>4 DEF WireParts, ProbeFits
  <2>2. door' # "wait"
    BY <1>5
  <2>3. QED
    BY <1>6, <2>1, <2>2 DEF ProbeFits
<1>12. CallFits'
  <2>1. busy' = NoJob /\ DOMAIN toAdapter' = {} /\ Len(toAdapter') = 0 /\ Len(toHost') = 0
    <3>1. toAdapter' = toAdapter /\ busy' = busy
      BY <1>0
    <3>2. QED
      BY <1>4, <3>1
  <2>2. Len(toAdapter') + Len(toHost') + (IF busy' = NoJob THEN 0 ELSE 1) <= (IF door' = "idle" THEN 0 ELSE 1)
    BY <2>1
  <2>3. call'.op \in Ops /\ ~(call'.sent < Sizes[call'.op][1])
    BY <1>1, <1>4
  <2>5. QED
    BY <2>1, <2>2, <2>3 DEF CallFits
<1>13. QED
  BY <1>7, <1>8, <1>9, <1>10, <1>11, <1>12 DEF WireParts

LEMMA ReceivesKeeps ==
  ASSUME WireTypeOK, WireParts, Receives
  PROVE  WireParts'
<1>1. CASE Breaks /\ UNCHANGED kept
  <2>1. Tail(toHost) # toHost
    <3>1. Len(Tail(toHost)) = Len(toHost) - 1 /\ Len(toHost) \in Nat
      BY Numbers, ReceivesIs, Shrunk
    <3>2. QED
      BY <3>1
  <2>2. QED
    BY <1>1, <2>1, ReceivesIs, BreaksKeepsParts
<1>2. QED
  BY <1>1, ReceivesIs, GetsAckKeeps, GetsMoreKeeps, GetsLastKeeps

\* The fragments on their way when the adapter takes one and may answer with g.
FedFits ==
  /\ StageFits /\ LinkFits /\ SessionsAreClean
  /\ \A i \in DOMAIN toAdapter :
       /\ toAdapter[i].seq <= call.seq
       /\ toAdapter[i].kind = "part" => toAdapter[i].ids = {<<session, toAdapter[i].seq>>}
       /\ Probing /\ toAdapter[i].kind = "part" => toAdapter[i].op = "probe"
       /\ door = "wait" /\ Probing /\ toAdapter[i].seq = call.seq => i = Len(toAdapter)
  /\ door \in {"idle", "wait"} =>
       \A i \in DOMAIN toHost :
         /\ toHost[i].status # "in use"
         /\ ~Late(toHost[i]) =>
              /\ toHost[i].seq <= call.seq
              /\ toHost[i].kind = "answer" => toHost[i].ids = {<<session, toHost[i].seq>>}
  /\ door = "wait" /\ Probing =>
       \A i \in DOMAIN toHost :
         toHost[i].op = "probe" /\ toHost[i].seq = call.seq => i = Len(toHost) /\ toAdapter = <<>>
  /\ ~Probing => toAdapter = <<>> /\ Len(toAdapter) + Len(toHost) <= 1 /\ door # "idle"

\* What the adapter may answer with when it takes the fragment at the head.
MayAnswer(g) ==
  /\ g \in FrameType /\ g.seq <= call.seq /\ g.status # "in use"
  /\ g.kind = "answer" => g.ids = {<<session, g.seq>>}
  /\ g.seq # 0 /\ g.seq = call.seq => Head(toAdapter).seq = call.seq
  /\ Leftover => g.kind = "spoilt"
MayWrite(g) == toHost' = toHost \/ toHost' = Append(toHost, g)

LEMMA FedQueues ==
  ASSUME WireTypeOK, WireParts, Feeds, NEW g, MayAnswer(g), MayWrite(g)
  PROVE  /\ FedFits' /\ Served /\ Served'
         /\ (~Probing => Len(toHost) = 0 /\ Len(toAdapter) = 1)
         /\ (~Probing /\ toHost' = toHost => toHost' = <<>>)
         /\ (door = "wait" /\ Probing =>
               \A i \in DOMAIN toHost : ~(toHost[i].op = "probe" /\ toHost[i].seq = call.seq))
         /\ (Leftover' => Leftover /\ busy' = NoJob)
         /\ (door = "wait" /\ Probing /\ Head(toAdapter).seq = call.seq => toAdapter' = <<>>)
<1>0. /\ toAdapter # <<>> /\ toAdapter' = Tail(toAdapter) /\ busy = NoJob
      /\ UNCHANGED <<door, stage, session, call, gone, muted, dev, kept>>
      /\ Installs /\ (Passes \/ (want = "none" /\ front = "wire"))
  BY FeedsIs
<1>1. Served /\ Served' /\ (Probing' <=> Probing)
  BY <1>0 DEF Served, Probing, WireParts, LinkFits
<1>2. /\ Len(toAdapter') = Len(toAdapter) - 1 /\ Len(toAdapter) > 0 /\ 1 \in DOMAIN toAdapter
      /\ Head(toAdapter) = toAdapter[1] /\ toAdapter' \in Seq(FrameType)
      /\ \A i \in DOMAIN toAdapter' : i + 1 \in DOMAIN toAdapter /\ toAdapter'[i] = toAdapter[i + 1]
  BY <1>0, Numbers, Shrunk
<1>a. Len(toAdapter) \in Nat /\ Len(toHost) \in Nat /\ Len(toAdapter') = Len(toAdapter) - 1 /\ Len(toAdapter) > 0
  BY <1>2, Numbers
<1>3. \A i \in DOMAIN toHost' :
        (i = Len(toHost') /\ toHost'[i] = g /\ toHost' # toHost) \/ (i \in DOMAIN toHost /\ toHost'[i] = toHost[i])
  <2>1. CASE toHost' = toHost
    BY <2>1
  <2>2. CASE toHost' = Append(toHost, g) /\ toHost' # toHost
    <3>1. toHost \in Seq(FrameType) /\ g \in FrameType
      BY Numbers DEF MayAnswer
    <3>2. /\ Len(Append(toHost, g)) = Len(toHost) + 1
          /\ \A i \in DOMAIN Append(toHost, g) :
               (i = Len(toHost) + 1 /\ Append(toHost, g)[i] = g)
               \/ (i \in DOMAIN toHost /\ Append(toHost, g)[i] = toHost[i])
      BY <3>1, Grown
    <3>3. QED
      BY <2>2, <3>2
  <2>3. QED
    BY <2>1, <2>2 DEF MayWrite
<1>b. Leftover' => Leftover /\ Passes /\ busy' = NoJob
  <2>1. gone # "switch"
    BY <1>1 DEF Served, WireParts, StageFits
  <2>2. want' = want \/ want' = "wire"
    BY <1>0 DEF Installs
  <2>3. Passes => busy' = NoJob
    BY <1>0 DEF Passes
  <2>4. QED
    BY <1>0, <2>1, <2>2, <2>3 DEF Leftover
<1>c. front' # "wire" => front # "wire" /\ rx' = rx /\ busy' = NoJob
  BY <1>0 DEF Installs, Passes
<1>4. door = "wait" /\ Probing => \A i \in DOMAIN toHost : ~(toHost[i].op = "probe" /\ toHost[i].seq = call.seq)
  BY <1>0 DEF WireParts, ProbeFits
<1>5. door = "wait" => call.seq # 0
  BY DEF WireParts, StageFits
<1>6. door = "wait" /\ Probing /\ Head(toAdapter).seq = call.seq => toAdapter' = <<>>
  <2>1. ASSUME door = "wait", Probing, Head(toAdapter).seq = call.seq PROVE toAdapter' = <<>>
    <3>1. Len(toAdapter) = 1
      BY <1>2, <2>1 DEF WireParts, ProbeFits
    <3>2. Len(toAdapter') = 0
      BY <1>a, <3>1
    <3>3. QED
      BY <1>2, <3>2, Empty
  <2>2. QED
    BY <2>1
<1>7. ASSUME ~Probing
      PROVE  /\ Len(toHost) = 0 /\ Len(toAdapter) = 1 /\ toAdapter' = <<>> /\ toHost = <<>>
             /\ Len(toAdapter') + Len(toHost') <= 1 /\ door # "idle"
  <2>1. Len(toAdapter) + Len(toHost) + (IF busy = NoJob THEN 0 ELSE 1) <= (IF door = "idle" THEN 0 ELSE 1)
    BY <1>1, <1>7 DEF WireParts, CallFits
  <2>2. Len(toAdapter) \in Nat /\ Len(toHost) \in Nat
    BY Numbers
  <2>3. door # "idle"
    BY <1>0, <1>a, <2>1
  <2>4. Len(toAdapter) = 1 /\ Len(toHost) = 0 /\ Len(toAdapter') = 0
    <3>1. Len(toAdapter) + Len(toHost) <= 1
      BY <1>0, <1>a, <2>1, <2>3
    <3>2. QED
      BY <1>a, <3>1
  <2>5. toAdapter' = <<>> /\ toHost = <<>>
    BY <1>2, <2>4, Numbers, Empty
  <2>6. Len(toHost') = 0 \/ Len(toHost') = 1
    BY <2>5, <2>4, One DEF MayWrite, MayAnswer
  <2>7. Len(toAdapter') + Len(toHost') <= 1
    <3>1. Len(toAdapter') = 0
      BY <2>4
    <3>2. QED
      BY <2>6, <3>1
  <2>8. QED
    BY <2>3, <2>4, <2>5, <2>7
<1>8. StageFits' /\ SessionsAreClean'
  BY <1>0, <1>1 DEF WireParts, StageFits, SessionsAreClean
<1>9. LinkFits'
  <2>1. ~muted' /\ (front' # "wire" => rx' = Fresh /\ busy' = NoJob /\ dev' = NoSession)
    BY <1>0, <1>1, <1>c DEF WireParts, LinkFits
  <2>2. ASSUME Leftover', NEW i \in DOMAIN toHost', door' \in {"idle", "wait"}
        PROVE  toHost'[i].kind = "spoilt" \/ Late(toHost[i])'
    <3>1. CASE toHost'[i] = g
      BY <1>b, <2>2, <3>1 DEF MayAnswer
    <3>2. CASE i \in DOMAIN toHost /\ toHost'[i] = toHost[i]
      <4>1. toHost[i].kind = "spoilt" \/ Late(toHost[i])
        BY <1>0, <1>1, <1>b, <2>2, <3>2 DEF WireParts, LinkFits
      <4>2. QED
        BY <1>1, <3>2, <4>1 DEF Late
    <3>3. QED
      BY <1>3, <3>1, <3>2
  <2>3. ASSUME Leftover', NEW i \in DOMAIN toAdapter'
        PROVE  toAdapter'[i].kind # "fetch" /\ (toAdapter'[i].kind = "part" => toAdapter'[i].off = 0)
    BY <1>1, <1>2, <1>b, <2>3 DEF WireParts, LinkFits
  <2>4. Leftover' => Probing'
    BY <1>1, <1>b DEF WireParts, LinkFits
  <2>5. QED
    BY <1>1, <1>b, <2>1, <2>2, <2>3, <2>4 DEF LinkFits
<1>10. ASSUME NEW i \in DOMAIN toAdapter'
       PROVE  /\ toAdapter'[i].seq <= call'.seq
              /\ toAdapter'[i].kind = "part" => toAdapter'[i].ids = {<<session', toAdapter'[i].seq>>}
              /\ Probing' /\ toAdapter'[i].kind = "part" => toAdapter'[i].op = "probe"
              /\ door' = "wait" /\ Probing' /\ toAdapter'[i].seq = call'.seq => i = Len(toAdapter')
  <2>1. i + 1 \in DOMAIN toAdapter /\ toAdapter'[i] = toAdapter[i + 1]
    BY <1>2
  <2>2. /\ toAdapter'[i].seq <= call'.seq
        /\ toAdapter'[i].kind = "part" => toAdapter'[i].ids = {<<session', toAdapter'[i].seq>>}
    BY <1>0, <2>1 DEF WireParts, NumbersFit
  <2>3. Probing' /\ toAdapter'[i].kind = "part" => toAdapter'[i].op = "probe"
    BY <1>0, <1>1, <2>1 DEF WireParts, ProbeFits
  <2>4. door' = "wait" /\ Probing' /\ toAdapter'[i].seq = call'.seq => i + 1 = Len(toAdapter)
    BY <1>0, <1>1, <2>1 DEF WireParts, ProbeFits
  <2>5. i \in Int
    <3>1. DOMAIN toAdapter' = 1 .. Len(toAdapter')
      BY <1>2, Empty
    <3>2. QED
      BY <3>1
  <2>6. i + 1 = Len(toAdapter) => i = Len(toAdapter')
    BY <1>a, <2>5
  <2>7. QED
    BY <2>2, <2>3, <2>4, <2>6
<1>11. ASSUME NEW i \in DOMAIN toHost'
       PROVE  /\ door' \in {"idle", "wait"} =>
                   /\ toHost'[i].status # "in use"
                   /\ ~Late(toHost[i])' =>
                        /\ toHost'[i].seq <= call'.seq
                        /\ toHost'[i].kind = "answer" => toHost'[i].ids = {<<session', toHost'[i].seq>>}
              /\ door' = "wait" /\ Probing' /\ toHost'[i].op = "probe" /\ toHost'[i].seq = call'.seq =>
                   i = Len(toHost') /\ toAdapter' = <<>>
  <2>1. CASE i = Len(toHost') /\ toHost'[i] = g
    BY <1>0, <1>1, <1>5, <1>6, <2>1 DEF MayAnswer
  <2>2. CASE i \in DOMAIN toHost /\ toHost'[i] = toHost[i]
    <3>1. Late(toHost[i])' <=> Late(toHost[i])
      BY <1>1, <2>2 DEF Late
    <3>2. QED
      BY <1>0, <1>1, <1>4, <2>2, <3>1 DEF WireParts, NumbersFit
  <2>3. QED
    BY <1>3, <2>1, <2>2
<1>12. FedFits'
  BY <1>0, <1>1, <1>7, <1>8, <1>9, <1>10, <1>11 DEF FedFits
<1>13. QED
  BY <1>1, <1>4, <1>6, <1>7, <1>12, <1>b

\* The parts about what is not on its way, when the adapter has run nothing.
LEMMA FedIdle ==
  ASSUME WireTypeOK, WireParts, Feeds, NEW g, MayAnswer(g), MayWrite(g), busy' = NoJob, AdapterFits'
  PROVE  WireParts'
<1>0. /\ UNCHANGED <<door, stage, session, call, gone, muted, dev, kept>> /\ busy = NoJob
      /\ busy'.ids = {} /\ busy'.op = "none"
  BY FeedsIs, Constants
<1>1. /\ FedFits' /\ Served /\ Served' /\ (~Probing => Len(toHost) = 0 /\ Len(toAdapter) = 1)
      /\ (Leftover => Leftover' \/ dev = NoSession)
  <2>1. /\ FedFits' /\ Served /\ Served' /\ (~Probing => Len(toHost) = 0 /\ Len(toAdapter) = 1)
    BY FedQueues
  <2>2. Leftover => Leftover' \/ front # "wire"
    BY FeedsIs DEF Leftover, Installs
  <2>3. front # "wire" => dev = NoSession
    BY DEF WireParts, LinkFits
  <2>4. QED
    BY <2>1, <2>2, <2>3
<1>2. Probing' <=> Probing
  BY <1>0 DEF Probing
<1>3. NumbersFit'
  <2>1. /\ call.op # "none" => call.id = <<session, call.seq>>
        /\ \A i \in DOMAIN call.got : call.got[i] = {call.id}
        /\ kept.last[1] = session => kept.last[2] <= call.seq
    BY DEF WireParts, NumbersFit
  <2>2. QED
    BY <1>0, <1>1, <2>1 DEF NumbersFit, FedFits
<1>4. ProbeFits'
  <2>1. /\ Probing /\ ~Leftover' => dev = NoSession
        /\ stage = "open" /\ call.op = "probe" => dev = NoSession
    BY <1>1 DEF WireParts, ProbeFits
  <2>2. QED
    BY <1>0, <1>1, <1>2, <2>1 DEF ProbeFits, FedFits
<1>5. CallFits'
  <2>1. ~Probing => call.op \in Ops /\ (call.sent < Sizes[call.op][1] => NotRun)
    BY <1>1 DEF WireParts, CallFits
  <2>2. NotRun' <=> NotRun
    BY <1>0 DEF NotRun
  <2>3. ~Probing => Len(toAdapter') + Len(toHost') + (IF busy' = NoJob THEN 0 ELSE 1) <= (IF door' = "idle" THEN 0 ELSE 1)
    <3>1. ~Probing => Len(toAdapter') + Len(toHost') <= 1 /\ door' # "idle"
      BY <1>1, <1>2 DEF FedFits
    <3>2. Len(toAdapter') \in Nat /\ Len(toHost') \in Nat
      <4>1. WireTypeOK'
        BY AdapterTypeStep
      <4>2. toAdapter' \in Seq(FrameType) /\ toHost' \in Seq(FrameType)
        BY <4>1 DEF WireTypeOK, LinkType
      <4>3. QED
        BY <4>2, LenProperties
    <3>3. busy' = NoJob
      OBVIOUS
    <3>4. QED
      BY <3>1, <3>2, <3>3
  <2>4. ~Probing => DOMAIN toAdapter' = {}
    <3>1. ~Probing => toAdapter' = <<>>
      BY <1>1, <1>2 DEF FedFits
    <3>2. QED
      BY <3>1
  <2>5. QED
    BY <1>0, <1>2, <2>1, <2>2, <2>3, <2>4 DEF CallFits
<1>6. QED
  BY <1>1, <1>3, <1>4, <1>5 DEF WireParts, FedFits

\* What a request is before and after a fragment of it is taken.
LEMMA RequestIs ==
  ASSUME WireTypeOK, WireParts, Feeds, NEW f, f = Head(toAdapter), f.kind = "part"
  PROVE  /\ f \in FrameType /\ Served /\ f.seq <= call.seq /\ f.ids = {<<session, f.seq>>}
         /\ Starts(f) \in RxType /\ Starts(f).status # "in use"
         /\ ~Leftover => /\ Starts(f).seq <= call.seq /\ Starts(f).ids \subseteq {<<session, Starts(f).seq>>}
                         /\ Starts(f).ready => Starts(f).ids = {<<session, Starts(f).seq>>}
<1>0. toAdapter # <<>> /\ busy = NoJob
  BY FeedsIs
<1>1. f \in FrameType /\ 1 \in DOMAIN toAdapter /\ f = toAdapter[1]
  BY <1>0, Numbers, Shrunk
<1>2. Served /\ f.seq <= call.seq /\ f.ids = {<<session, f.seq>>}
  BY <1>0, <1>1 DEF WireParts, LinkFits, NumbersFit
<1>3. /\ Starts(f) \in RxType
      /\ f.off > 0 => /\ Starts(f).ids = rx.ids /\ Starts(f).seq = rx.seq
                      /\ Starts(f).ready = rx.ready /\ Starts(f).status = rx.status
      /\ ~(f.off > 0) => /\ Starts(f).ids = {} /\ Starts(f).seq = f.seq
                         /\ Starts(f).ready = FALSE /\ Starts(f).status = "none"
  BY <1>1, StartsIs, Numbers
<1>5. rx.status # "in use"
  BY DEF WireParts, AdapterFits
<1>6. ~Leftover => /\ rx.seq <= call.seq /\ rx.ids \subseteq {<<session, rx.seq>>}
                   /\ rx.ready => rx.ids = {<<session, rx.seq>>}
  BY DEF WireParts, AdapterFits
<1>7. CASE f.off > 0
  <2>1. Starts(f).status # "in use"
    BY <1>3, <1>5, <1>7
  <2>2. ~Leftover => /\ Starts(f).seq <= call.seq /\ Starts(f).ids \subseteq {<<session, Starts(f).seq>>}
                     /\ Starts(f).ready => Starts(f).ids = {<<session, Starts(f).seq>>}
    <3>1. Starts(f).ids = rx.ids /\ Starts(f).seq = rx.seq /\ Starts(f).ready = rx.ready
      BY <1>3, <1>7
    <3>2. ~Leftover => Starts(f).seq <= call.seq
      BY <1>6, <3>1
    <3>3. ~Leftover => Starts(f).ids \subseteq {<<session, Starts(f).seq>>}
      BY <1>6, <3>1
    <3>4. ASSUME ~Leftover, Starts(f).ready PROVE Starts(f).ids = {<<session, Starts(f).seq>>}
      <4>1. rx.ready
        BY <3>1, <3>4
      <4>2. rx.ids = {<<session, rx.seq>>}
        BY <1>6, <3>4, <4>1
      <4>3. QED
        BY <3>1, <4>2
    <3>5. QED
      BY <3>2, <3>3, <3>4
  <2>3. f \in FrameType /\ Served /\ f.seq <= call.seq /\ f.ids = {<<session, f.seq>>}
    BY <1>1, <1>2
  <2>4. Starts(f) \in RxType
    BY <1>3
  <2>5. QED
    BY <2>1, <2>2, <2>3, <2>4
<1>8. CASE ~(f.off > 0)
  BY <1>1, <1>2, <1>3, <1>8
<1>9. QED
  BY <1>7, <1>8

\* A fragment of the call being made, when nothing else can be.
LEMMA RunIs ==
  ASSUME WireTypeOK, WireParts, Feeds, NEW f, f = Head(toAdapter), f.kind = "part"
  PROVE  /\ Probing => f.op = "probe"
         /\ ~Probing => /\ f.op = call.op /\ f.seq = call.seq /\ f.ids = {call.id} /\ call.op \in Ops /\ NotRun
                        /\ ~f.more => ~(call.sent < Sizes[call.op][1])
<1>0. toAdapter # <<>> /\ 1 \in DOMAIN toAdapter /\ f = toAdapter[1] /\ Served
  BY FeedsIs, RequestIs, Numbers, Shrunk
<1>1. Probing => f.op = "probe"
  BY <1>0 DEF WireParts, ProbeFits
<1>2. ASSUME ~Probing
      PROVE  /\ f.op = call.op /\ f.seq = call.seq /\ f.ids = {call.id} /\ call.op \in Ops /\ NotRun
             /\ ~f.more => ~(call.sent < Sizes[call.op][1])
  <2>1. call.op \in Ops /\ call.sent # 0 /\ f = Part(call, call.sent - 1) /\ NotRun
    BY <1>0, <1>2 DEF WireParts, CallFits
  <2>2. (call.sent - 1) + 1 = call.sent
    BY Numbers
  <2>3. /\ f.op = call.op /\ f.seq = call.seq /\ f.ids = {call.id}
        /\ f.more = ((call.sent - 1) + 1 < Sizes[call.op][1])
    BY <2>1 DEF Part, Frame
  <2>4. QED
    BY <2>1, <2>2, <2>3
<1>3. QED
  BY <1>1, <1>2

\* What is written reaches the queue, or nothing does.
LEMMA WritesIs ==
  ASSUME NEW g, Writes(g)
  PROVE  MayWrite(g)
BY DEF Writes, MayWrite

LEMMA FeedsKeeps ==
  ASSUME WireTypeOK, WireParts, Feeds
  PROVE  WireParts'
<1> DEFINE f == Head(toAdapter)
<1>0. /\ toAdapter # <<>> /\ busy = NoJob /\ UNCHANGED <<call, session, gone, muted, dev, kept>>
      /\ Passes \/ Fetches(f) \/ BeginsOnly(f) \/ GrowsBy(f) \/ RunsWith(f)
      /\ Installs /\ (Passes \/ (want = "none" /\ front = "wire"))
  BY FeedsIs
<1>1. f \in FrameType /\ 1 \in DOMAIN toAdapter /\ f = toAdapter[1]
  BY <1>0, Numbers, Shrunk
<1>2. f.seq \in Nat /\ f.off \in Nat /\ f.op \in OpNames
  BY <1>1 DEF FrameType
<1>3. f.seq <= call.seq /\ Served
  BY <1>0, <1>1 DEF WireParts, NumbersFit, LinkFits
<1>4. MayAnswer(Spoilt)
  <2>1. 0 <= call.seq
    BY Numbers
  <2>2. QED
    BY <2>1, PlainFrames DEF MayAnswer
<1>5. f = Head(toAdapter)
  OBVIOUS
<1>a. Passes \/ (~Leftover /\ ~Leftover')
  <2>1. gone # "switch"
    BY <1>3 DEF Served, WireParts, StageFits
  <2>2. QED
    BY <1>0, <2>1 DEF Leftover, Installs
<1> HIDE DEF f
<1>6. rx.status # "in use" /\ busy.op = "none"
  BY <1>0, Constants DEF WireParts, AdapterFits
<1>7. CASE Passes
  <2>1. busy' = NoJob /\ MayWrite(Spoilt)
    BY <1>0, <1>7, WritesIs DEF Passes, MayWrite
  <2>2. /\ rx'.seq = rx.seq /\ rx'.ids = rx.ids /\ rx'.ready = rx.ready /\ rx'.status = rx.status
    BY <1>7, Numbers DEF Passes, RxType
  <2>5. /\ busy'.op = "none" /\ busy'.ids = {} /\ busy'.long = FALSE
    BY <2>1, Constants DEF NoJob
  <2>6. ~Leftover' => /\ rx.seq <= call.seq /\ rx.ids \subseteq {<<session, rx.seq>>}
                      /\ rx.ready => rx.ids = {<<session, rx.seq>>}
    <3>1. CASE Leftover /\ ~Leftover'
      <4>1. front # "wire"
        BY <1>0, <3>1 DEF Leftover, Installs
      <4>2. rx = Fresh
        BY <4>1 DEF WireParts, LinkFits
      <4>3. rx.seq = 0 /\ rx.ids = {} /\ rx.ready = FALSE /\ 0 <= call.seq
        BY <4>2, Constants, Numbers
      <4>4. QED
        BY <4>3
    <3>2. CASE ~Leftover
      BY <3>2 DEF WireParts, AdapterFits
    <3>3. QED
      BY <3>1, <3>2
  <2>3. AdapterFits'
    <3>1. ~Leftover' => (rx'.ready => rx'.ids = {<<session', rx'.seq>>})
      BY <1>0, <2>2, <2>6
    <3>2. ~Leftover' => rx'.seq <= call'.seq /\ rx'.ids \subseteq {<<session', rx'.seq>>}
      BY <1>0, <2>2, <2>6
    <3>3. rx'.status # "in use"
      BY <1>6, <2>2
    <3>4. QED
      BY <2>1, <2>5, <3>1, <3>2, <3>3 DEF AdapterFits
  <2>4. QED
    BY <1>4, <2>1, <2>3, FedIdle
<1>8. CASE Fetches(f) /\ ~Leftover /\ ~Leftover'
  <2>1. /\ rx'.seq = rx.seq /\ rx'.ids = rx.ids /\ rx'.ready = rx.ready /\ rx'.status = rx.status
        /\ busy' = NoJob /\ f.kind = "fetch"
    BY <1>0, <1>8, Numbers DEF Fetches, RxType
  <2>2. AdapterFits'
    BY <1>0, <1>8, <2>1 DEF WireParts, AdapterFits
  <2>3. CASE toHost' = toHost
    BY <1>4, <2>1, <2>2, <2>3, FedIdle DEF MayWrite
  <2>4. CASE rx.ready /\ f.seq = rx.seq /\ Writes(Answer(rx, f.off))
    <3>1. /\ Answer(rx, f.off).kind = "answer" /\ Answer(rx, f.off).seq = rx.seq
          /\ Answer(rx, f.off).ids = rx.ids /\ Answer(rx, f.off).status = rx.status
          /\ Answer(rx, f.off) \in FrameType
      BY <1>2, Numbers, AnswerIs
    <3>3. rx.seq <= call.seq /\ rx.ids = {<<session, rx.seq>>}
      BY <1>8, <2>4 DEF WireParts, AdapterFits
    <3>4. MayAnswer(Answer(rx, f.off))
      BY <1>5, <1>6, <1>8, <2>4, <3>1, <3>3 DEF MayAnswer
    <3>5. QED
      BY <2>1, <2>2, <2>4, <3>4, WritesIs, FedIdle
  <2>5. QED
    BY <1>8, <2>3, <2>4 DEF Fetches
<1>9. CASE BeginsOnly(f) /\ ~Leftover /\ ~Leftover'
  <2>1. busy' = NoJob /\ rx' = Starts(f) /\ f.kind = "part" /\ MayWrite(Spoilt)
    BY <1>0, <1>9 DEF BeginsOnly, MayWrite
  <2>2. /\ Starts(f).status # "in use"
        /\ Starts(f).seq <= call.seq /\ Starts(f).ids \subseteq {<<session, Starts(f).seq>>}
        /\ Starts(f).ready => Starts(f).ids = {<<session, Starts(f).seq>>}
    BY <1>5, <1>9, <2>1, RequestIs
  <2>3. AdapterFits'
    <3>1. busy'.op = "none" /\ busy'.ids = {} /\ busy'.long = FALSE
      BY <2>1, Constants DEF NoJob
    <3>2. QED
      BY <1>0, <2>1, <2>2, <3>1 DEF AdapterFits
  <2>4. QED
    BY <1>4, <2>1, <2>3, FedIdle
<1>10. CASE GrowsBy(f) /\ ~Leftover /\ ~Leftover'
  <2> DEFINE g == Frame("ack", f.op, f.seq, Starts(f).len + 1, FALSE, {})
  <2>1. /\ f.kind = "part" /\ busy' = NoJob /\ f.seq = Starts(f).seq /\ Writes(g)
        /\ rx' = [Starts(f) EXCEPT !.len = @ + 1, !.ids = @ \union f.ids]
    BY <1>0, <1>10 DEF GrowsBy, Follows
  <2>2. /\ f.ids = {<<session, f.seq>>} /\ Starts(f) \in RxType /\ Starts(f).status # "in use"
        /\ Starts(f).ids \subseteq {<<session, Starts(f).seq>>}
    BY <1>5, <1>10, <2>1, RequestIs
  <2>3. rx'.seq = f.seq /\ rx'.status # "in use" /\ rx'.ids = Starts(f).ids \union {<<session, f.seq>>}
    BY <2>1, <2>2 DEF RxType
  <2>4. rx'.ids = {<<session, rx'.seq>>}
    BY <2>1, <2>2, <2>3
  <2>5. AdapterFits'
    <3>1. busy'.op = "none" /\ busy'.ids = {} /\ busy'.long = FALSE
      BY <2>1, Constants DEF NoJob
    <3>2. QED
      BY <1>0, <1>3, <2>1, <2>3, <2>4, <3>1 DEF AdapterFits
  <2>6. g.kind = "ack" /\ g.seq = f.seq /\ g.status = "none" /\ g \in FrameType
    <3>1. Starts(f).len \in Nat
      BY <2>2 DEF RxType
    <3>2. Starts(f).len + 1 \in Nat
      BY <3>1
    <3>3. QED
      BY <1>2, <3>2, AckIs
  <2> HIDE DEF g
  <2>7. MayAnswer(g) /\ MayWrite(g)
    BY <1>3, <1>5, <1>10, <2>1, <2>6, WritesIs DEF MayAnswer
  <2>8. QED
    BY <2>1, <2>5, <2>7, FedIdle
<1>11. CASE RunsWith(f) /\ ~Leftover /\ ~Leftover'
  <2>0. PICK l \in BOOLEAN : busy' = [op |-> f.op, ids |-> rx'.ids, long |-> l] /\ (l => f.op # "probe")
    BY <1>11 DEF RunsWith
  <2>1. /\ f.kind = "part" /\ ~f.more /\ f.seq = Starts(f).seq /\ f.op = Starts(f).op /\ toHost' = toHost
        /\ rx' = [Starts(f) EXCEPT !.on = FALSE, !.ids = @ \union f.ids]
        /\ busy'.op = f.op /\ busy'.ids = rx'.ids /\ (busy'.long => busy'.op # "probe")
    BY <1>11, <2>0 DEF RunsWith, Follows
  <2>2. /\ f.ids = {<<session, f.seq>>} /\ Starts(f) \in RxType /\ Starts(f).status # "in use"
        /\ Starts(f).ids \subseteq {<<session, Starts(f).seq>>}
    BY <1>5, <1>11, <2>1, RequestIs
  <2>3. /\ rx'.seq = f.seq /\ rx'.op = f.op /\ rx'.status # "in use"
        /\ rx'.ids = Starts(f).ids \union {<<session, f.seq>>}
    BY <2>1, <2>2 DEF RxType
  <2>4. rx'.ids = {<<session, f.seq>>}
    BY <2>1, <2>2, <2>3
  <2>5. MayWrite(Spoilt)
    BY <2>1 DEF MayWrite
  <2>6. /\ FedFits' /\ Served' /\ (~Probing => toHost' = <<>>)
        /\ (door = "wait" /\ Probing =>
              \A i \in DOMAIN toHost : ~(toHost[i].op = "probe" /\ toHost[i].seq = call.seq))
        /\ (door = "wait" /\ Probing /\ f.seq = call.seq => toAdapter' = <<>>)
    BY <1>4, <1>5, <2>1, <2>5, FedQueues
  <2>7. /\ Probing => f.op = "probe"
        /\ ~Probing => /\ f.op = call.op /\ f.seq = call.seq /\ f.ids = {call.id} /\ call.op \in Ops /\ NotRun
                       /\ ~(call.sent < Sizes[call.op][1])
    BY <1>5, <2>1, RunIs
  <2>8. UNCHANGED <<door, stage, gone>> /\ (Probing' <=> Probing) /\ (NotRun' <=> NotRun)
    BY <1>0, FeedsIs DEF Probing, NotRun
  <2>9. NumbersFit'
    <3>1. \A i \in busy'.ids : i[1] < Sessions /\ (i[1] = session => i[2] <= call.seq)
      BY <1>3, <2>1, <2>4, Numbers
    <3>2. /\ call.op # "none" => call.id = <<session, call.seq>>
          /\ \A i \in DOMAIN call.got : call.got[i] = {call.id}
          /\ kept.last[1] = session => kept.last[2] <= call.seq
      BY DEF WireParts, NumbersFit
    <3>3. QED
      BY <1>0, <2>6, <3>1, <3>2 DEF NumbersFit, FedFits
  <2>10. AdapterFits'
    <3>1. f.op \in Ops
      BY <2>7 DEF Ops
    <3>2. f.op = "open" => dev = NoSession
      BY <2>7 DEF NotRun
    <3>3. f.op = "act" => busy'.ids # {kept.last}
      <4>1. f.op = "act" => f.ids = {call.id} /\ kept.last # call.id
        BY <2>7 DEF NotRun
      <4>2. QED
        BY <2>1, <2>2, <2>4, <4>1
    <3>4. QED
      BY <1>0, <1>3, <2>1, <2>3, <2>4, <3>1, <3>2, <3>3 DEF AdapterFits
  <2>11. ProbeFits'
    <3>1. /\ Probing => dev = NoSession
          /\ stage = "open" /\ call.op = "probe" => dev = NoSession
      BY <1>3, <1>11 DEF WireParts, ProbeFits
    <3>2. Probing => busy'.op = "probe"
      BY <2>1, <2>7
    <3>3. door' = "wait" /\ Probing' => \A i \in DOMAIN toHost' : ~(toHost'[i].op = "probe" /\ toHost'[i].seq = call'.seq)
      BY <1>0, <2>1, <2>6, <2>8
    <3>4. door' = "wait" /\ Probing' /\ rx'.seq = call'.seq => toAdapter' = <<>>
      BY <1>0, <2>3, <2>6, <2>8
    <3>5. \A i \in DOMAIN toAdapter' :
            /\ Probing' /\ toAdapter'[i].kind = "part" => toAdapter'[i].op = "probe"
            /\ door' = "wait" /\ Probing' /\ toAdapter'[i].seq = call'.seq => i = Len(toAdapter')
      BY <2>6 DEF FedFits
    <3>6. QED
      BY <1>0, <2>8, <3>1, <3>2, <3>3, <3>4, <3>5 DEF ProbeFits
  <2>12. CallFits'
    <3>1. ~Probing => toAdapter' = <<>> /\ toHost' = <<>> /\ door' # "idle"
      BY <2>6, <2>8 DEF FedFits
    <3>2. ~Probing => /\ Len(toAdapter') + Len(toHost') + (IF busy' = NoJob THEN 0 ELSE 1)
                           <= (IF door' = "idle" THEN 0 ELSE 1)
                      /\ DOMAIN toAdapter' = {}
      <4>1. Len(<<>>) = 0 /\ DOMAIN <<>> = {}
        BY EmptySeq
      <4>2. QED
        BY <3>1, <4>1
    <3>3. ~Probing => rx'.seq = call.seq /\ busy'.op = call.op
      BY <2>1, <2>3, <2>7
    <3>4. QED
      BY <1>0, <2>7, <2>8, <3>2, <3>3 DEF CallFits
  <2>13. QED
    BY <2>6, <2>9, <2>10, <2>11, <2>12 DEF WireParts, FedFits
<1>12. QED
  BY <1>0, <1>a, <1>7, <1>8, <1>9, <1>10, <1>11

LEMMA FinishesKeeps ==
  ASSUME WireTypeOK, WireParts, Finishes
  PROVE  WireParts'
<1> DEFINE g == Answer(rx', 0)
<1>0. /\ busy # NoJob /\ busy' = NoJob /\ busy'.op = "none" /\ busy'.ids = {} /\ Writes(g)
      /\ UNCHANGED <<door, stage, session, call, toAdapter, front, want, gone, muted>>
      /\ rx' = [rx EXCEPT !.ready = TRUE, !.status = Status] /\ busy'.long = FALSE
  BY Constants DEF Finishes, host, linkState, NoJob
<1>1. (Served' <=> Served) /\ (Probing' <=> Probing) /\ (Leftover' <=> Leftover)
  BY <1>0 DEF Served, Probing, Leftover
<1>2. /\ busy.op \in Ops /\ busy.ids = rx.ids /\ (busy.op = "open" => dev = NoSession)
      /\ busy.op = "act" => busy.ids # {kept.last}
      /\ busy.op = rx.op /\ (busy.long => busy.op # "probe")
      /\ ~Leftover => rx.seq <= call.seq /\ rx.ids = {<<session, rx.seq>>}
  BY <1>0 DEF WireParts, AdapterFits
<1>3. Status # "in use" /\ Status \in Statuses
  BY <1>2 DEF Status, Statuses
<1>4. /\ rx'.seq = rx.seq /\ rx'.op = rx.op /\ rx'.ids = rx.ids /\ rx'.status = Status /\ rx' \in RxType
  BY <1>0, <1>3, Numbers DEF RxType
<1>5. g.kind = "answer" /\ g.op = busy.op /\ g.seq = rx.seq /\ g.ids = rx.ids /\ g.status # "in use" /\ g \in FrameType
  BY <1>2, <1>3, <1>4, AnswerIs
<1>6. ~Served => toHost' = toHost
  BY <1>0 DEF Writes, Served
<1>7. toHost' = toHost \/ toHost' = Append(toHost, g)
  BY <1>0 DEF Writes
<1> HIDE DEF g
<1>8. \A i \in DOMAIN toHost' :
        (i = Len(toHost') /\ toHost'[i] = g) \/ (i \in DOMAIN toHost /\ toHost'[i] = toHost[i])
  <2>1. CASE toHost' = toHost
    BY <2>1
  <2>2. CASE toHost' = Append(toHost, g)
    <3>1. toHost \in Seq(FrameType) /\ g \in FrameType
      BY <1>5, Numbers
    <3>2. /\ Len(Append(toHost, g)) = Len(toHost) + 1
          /\ \A i \in DOMAIN Append(toHost, g) :
               (i = Len(toHost) + 1 /\ Append(toHost, g)[i] = g)
               \/ (i \in DOMAIN toHost /\ Append(toHost, g)[i] = toHost[i])
      BY <3>1, Grown
    <3>3. QED
      BY <2>2, <3>2
  <2>3. QED
    BY <1>7, <2>1, <2>2
<1>a. Leftover /\ door \in {"idle", "wait"} => Probing /\ busy.op # "probe"
  <2>1. door \in {"idle", "wait"} => Served
    BY DEF Served
  <2>2. QED
    BY <1>0, <1>2, <2>1 DEF WireParts, LinkFits
<1>9. /\ kept'.wrong = {}
      /\ kept'.last = kept.last \/ (kept'.last \in busy.ids /\ busy.op = "act")
      /\ dev' = dev \/ dev' = NoSession \/ busy.op = "open"
  <2>0. kept.wrong = {}
    BY DEF WireParts, SessionsAreClean
  <2>1. CASE kept' = kept /\ (dev' = dev \/ dev' = NoSession \/ busy.op = "open")
    BY <2>0, <2>1
  <2>2. CASE /\ busy.op = "act" /\ Status = "ok" /\ dev' = dev
             /\ kept' = [last |-> CHOOSE i \in busy.ids : TRUE,
                         wrong |-> kept.wrong \union IF busy.ids = {kept.last} THEN {"twice"} ELSE {}]
    <3>1. PICK n \in 1 .. MaxSeq + 2 : busy.ids = {<<dev, n>>}
      BY <2>2 DEF Status, Of
    <3>2. (CHOOSE i \in busy.ids : TRUE) \in busy.ids
      BY <3>1
    <3>3. kept'.last \in busy.ids
      BY <2>2, <3>2
    <3>4. kept'.wrong = {}
      BY <1>2, <2>0, <2>2
    <3>5. QED
      BY <2>2, <3>3, <3>4
  <2>3. QED
    BY <2>1, <2>2 DEF Finishes
<1>10. StageFits' /\ SessionsAreClean'
  BY <1>0, <1>1, <1>9 DEF WireParts, StageFits, SessionsAreClean
<1>11. NumbersFit'
  <2>1. ASSUME door \in {"idle", "wait"}, NEW i \in DOMAIN toHost'
        PROVE  /\ toHost'[i].status # "in use"
               /\ ~Late(toHost[i])' =>
                    /\ toHost'[i].seq <= call'.seq
                    /\ toHost'[i].kind = "answer" => toHost'[i].ids = {<<session', toHost'[i].seq>>}
    <3>1. CASE toHost'[i] = g
      <4>1. ~Late(toHost[i])' => ~Leftover
        BY <1>1, <1>5, <1>a, <2>1, <3>1 DEF Late
      <4>2. QED
        BY <1>0, <1>2, <1>5, <3>1, <4>1
    <3>2. CASE i \in DOMAIN toHost /\ toHost'[i] = toHost[i]
      <4>1. Late(toHost[i])' <=> Late(toHost[i])
        BY <1>1, <3>2 DEF Late
      <4>2. QED
        BY <1>0, <2>1, <3>2, <4>1 DEF WireParts, NumbersFit
    <3>3. QED
      BY <1>8, <3>1, <3>2
  <2>2. kept'.last[1] = session => kept'.last[2] <= call.seq
    BY <1>9 DEF WireParts, NumbersFit
  <2>3. QED
    BY <1>0, <2>1, <2>2 DEF WireParts, NumbersFit
<1>12. AdapterFits'
  <2>1. busy' = NoJob /\ ~busy'.long
    BY <1>0
  <2>2. rx'.status # "in use" /\ busy'.op \notin {"open", "act"}
    BY <1>0, <1>3, <1>4
  <2>3. ~Leftover' => /\ rx'.seq <= call'.seq /\ rx'.ids \subseteq {<<session', rx'.seq>>}
                      /\ rx'.ids = {<<session', rx'.seq>>}
    BY <1>0, <1>1, <1>2, <1>4
  <2>4. QED
    BY <2>1, <2>2, <2>3 DEF AdapterFits
<1>13. LinkFits'
  <2>1. ~Served => Leftover
    BY <1>0 DEF WireParts, LinkFits
  <2>2. front = "wire"
    BY <1>0 DEF WireParts, LinkFits
  <2>3. ASSUME Leftover, Served, door \in {"idle", "wait"}, NEW i \in DOMAIN toHost'
        PROVE  toHost'[i].kind = "spoilt" \/ Late(toHost[i])'
    <3>1. CASE toHost'[i] = g
      BY <1>1, <1>5, <1>a, <2>3, <3>1 DEF Late
    <3>2. CASE i \in DOMAIN toHost /\ toHost'[i] = toHost[i]
      <4>1. toHost[i].kind = "spoilt" \/ Late(toHost[i])
        BY <2>3, <3>2 DEF WireParts, LinkFits
      <4>2. QED
        BY <1>1, <3>2, <4>1 DEF Late
    <3>3. QED
      BY <1>8, <3>1, <3>2
  <2>4. QED
    BY <1>0, <1>1, <2>1, <2>2, <2>3 DEF WireParts, LinkFits
<1>14. ASSUME Served, ~Probing
       PROVE  /\ busy.op = call.op /\ ~(call.sent < Sizes[call.op][1]) /\ call.op \in Ops
              /\ Len(toAdapter) = 0 /\ Len(toHost) = 0 /\ DOMAIN toAdapter = {} /\ door # "idle"
  <2>1. Len(toAdapter) + Len(toHost) + 1 <= (IF door = "idle" THEN 0 ELSE 1)
    BY <1>0, <1>14 DEF WireParts, CallFits
  <2>2. Len(toAdapter) \in Nat /\ Len(toHost) \in Nat
    BY Numbers
  <2>3. Len(toAdapter) = 0 /\ Len(toHost) = 0 /\ door # "idle"
    BY <2>1, <2>2
  <2>4. DOMAIN toAdapter = {}
    BY <2>3, Numbers, Empty
  <2>5. busy.op = call.op /\ ~(call.sent < Sizes[call.op][1]) /\ call.op \in Ops
    BY <1>0, <1>14 DEF WireParts, CallFits
  <2>6. QED
    BY <2>3, <2>4, <2>5
<1>15. ProbeFits'
  <2>1. Served /\ Probing /\ ~Leftover => dev' = NoSession
    <3>1. Served /\ Probing /\ ~Leftover => dev = NoSession /\ busy.op # "open"
      BY <1>0 DEF WireParts, ProbeFits
    <3>2. QED
      BY <1>9, <3>1
  <2>2. Served /\ stage = "open" /\ call.op = "probe" => dev' = NoSession
    <3>1. Served /\ stage = "open" /\ call.op = "probe" => dev = NoSession /\ busy.op = "probe"
      BY <1>14 DEF WireParts, ProbeFits, Probing
    <3>2. QED
      BY <1>9, <3>1
  <2>3. ASSUME door = "wait", Probing, NEW i \in DOMAIN toHost', toHost'[i].op = "probe", toHost'[i].seq = call.seq
        PROVE  i = Len(toHost') /\ toAdapter = <<>>
    <3>1. CASE i = Len(toHost') /\ toHost'[i] = g
      BY <1>0, <1>5, <1>a, <2>3, <3>1 DEF WireParts, ProbeFits
    <3>2. CASE i \in DOMAIN toHost /\ toHost'[i] = toHost[i]
      BY <1>0, <2>3, <3>2 DEF WireParts, ProbeFits
    <3>3. QED
      BY <1>8, <3>1, <3>2
  <2>4. QED
    BY <1>0, <1>1, <2>1, <2>2, <2>3 DEF WireParts, ProbeFits
<1>16. CallFits'
  <2>1. Served /\ ~Probing => Len(toAdapter') + Len(toHost') + (IF busy' = NoJob THEN 0 ELSE 1)
                                 <= (IF door' = "idle" THEN 0 ELSE 1)
    <3>1. ASSUME Served, ~Probing PROVE Len(toAdapter') = 0 /\ (Len(toHost') = 0 \/ Len(toHost') = 1) /\ door' # "idle"
      <4>1. toHost = <<>>
        BY <1>14, <3>1, Numbers, Empty
      <4>2. Len(toHost') = 0 \/ Len(toHost') = 1
        BY <1>5, <1>7, <1>14, <3>1, <4>1, One
      <4>3. QED
        BY <1>0, <1>14, <3>1, <4>2
    <3>2. busy' = NoJob
      BY <1>0
    <3>3. ASSUME Served, ~Probing
          PROVE  Len(toAdapter') + Len(toHost') + (IF busy' = NoJob THEN 0 ELSE 1) <= (IF door' = "idle" THEN 0 ELSE 1)
      <4>1. Len(toAdapter') = 0 /\ (Len(toHost') = 0 \/ Len(toHost') = 1) /\ door' # "idle"
        BY <3>1, <3>3
      <4>2. CASE Len(toHost') = 0
        BY <3>2, <4>1, <4>2
      <4>3. CASE Len(toHost') = 1
        BY <3>2, <4>1, <4>3
      <4>4. QED
        BY <4>1, <4>2, <4>3
    <3>4. QED
      BY <3>3
  <2>2. QED
    BY <1>0, <1>1, <1>14, <2>1 DEF CallFits
<1>17. QED
  BY <1>10, <1>11, <1>12, <1>13, <1>15, <1>16 DEF WireParts

\* What is on its way after a loss: what was, in the same places, or spoilt fragments.
LEMMA LosesIs ==
  ASSUME WireTypeOK, Loses
  PROVE  /\ UNCHANGED <<door, stage, session, call, front, want, gone, muted, rx, busy, dev, kept>>
         /\ Len(toAdapter') = Len(toAdapter) /\ (toAdapter = <<>> => toAdapter' = <<>>)
         /\ Len(toHost') <= Len(toHost) /\ Len(toHost') \in Nat /\ (toHost = <<>> => toHost' = <<>>)
         /\ \A i \in DOMAIN toAdapter' :
              toAdapter'[i] = Spoilt \/ (i \in DOMAIN toAdapter /\ toAdapter'[i] = toAdapter[i])
         /\ \A i \in DOMAIN toHost' :
              toHost'[i] = Spoilt
              \/ \E j \in DOMAIN toHost : toHost'[i] = toHost[j] /\ (j = Len(toHost) => i = Len(toHost'))
<1>1. UNCHANGED <<door, stage, session, call, front, want, gone, muted, rx, busy, dev, kept>>
  BY DEF Loses, host, linkState, task
<1>2. /\ toAdapter \in Seq(FrameType) /\ toHost \in Seq(FrameType) /\ Spoilt \in FrameType
      /\ Len(toHost) \in Nat /\ Len(toAdapter) \in Nat
  BY Numbers, PlainFrames
<1>3. ASSUME NEW k \in DOMAIN toAdapter, toAdapter' = [toAdapter EXCEPT ![k] = Spoilt]
      PROVE  /\ Len(toAdapter') = Len(toAdapter) /\ toAdapter # <<>>
             /\ \A i \in DOMAIN toAdapter' :
                  toAdapter'[i] = Spoilt \/ (i \in DOMAIN toAdapter /\ toAdapter'[i] = toAdapter[i])
  BY <1>2, <1>3, Replaced
<1>4. ASSUME NEW k \in DOMAIN toHost, toHost' = [toHost EXCEPT ![k] = Spoilt]
      PROVE  /\ Len(toHost') = Len(toHost) /\ toHost # <<>>
             /\ \A i \in DOMAIN toHost' :
                  toHost'[i] = Spoilt \/ (i \in DOMAIN toHost /\ toHost'[i] = toHost[i])
  BY <1>2, <1>4, Replaced
<1>5. ASSUME NEW k \in DOMAIN toHost,
             toHost' = SubSeq(toHost, 1, k - 1) \o SubSeq(toHost, k + 1, Len(toHost))
      PROVE  /\ Len(toHost') = Len(toHost) - 1 /\ toHost # <<>> /\ toHost' \in Seq(FrameType)
             /\ \A i \in DOMAIN toHost' :
                  \E j \in DOMAIN toHost : toHost'[i] = toHost[j] /\ (j = Len(toHost) => i = Len(toHost'))
  <2> DEFINE r == SubSeq(toHost, 1, k - 1) \o SubSeq(toHost, k + 1, Len(toHost))
  <2>1. /\ r \in Seq(FrameType) /\ Len(r) = Len(toHost) - 1
        /\ \A i \in DOMAIN r : \E j \in DOMAIN toHost : r[i] = toHost[j] /\ (j = Len(toHost) => i = Len(r))
    BY <1>2, <1>5, Cut
  <2>2. toHost # <<>>
    <3>1. DOMAIN <<>> = {}
      BY EmptySeq
    <3>2. QED
      BY <1>5, <3>1
  <2>3. toHost' = r
    BY <1>5
  <2> HIDE DEF r
  <2>4. QED
    BY <2>1, <2>2, <2>3
<1>6. CASE toHost' = toHost /\ \E k \in DOMAIN toAdapter : toAdapter' = [toAdapter EXCEPT ![k] = Spoilt]
  <2>1. Len(toHost') <= Len(toHost) /\ Len(toHost') \in Nat
    BY <1>2, <1>6
  <2>2. QED
    BY <1>1, <1>3, <1>6, <2>1
<1>7. ASSUME toAdapter' = toAdapter, NEW k \in DOMAIN toHost,
             toHost' = [toHost EXCEPT ![k] = Spoilt]
             \/ toHost' = SubSeq(toHost, 1, k - 1) \o SubSeq(toHost, k + 1, Len(toHost))
      PROVE  /\ Len(toHost') <= Len(toHost) /\ Len(toHost') \in Nat /\ (toHost = <<>> => toHost' = <<>>)
             /\ \A i \in DOMAIN toHost' :
                  toHost'[i] = Spoilt
                  \/ \E j \in DOMAIN toHost : toHost'[i] = toHost[j] /\ (j = Len(toHost) => i = Len(toHost'))
  <2>1. CASE toHost' = [toHost EXCEPT ![k] = Spoilt]
    <3>1. Len(toHost') = Len(toHost)
      BY <1>4, <2>1
    <3>2. Len(toHost') <= Len(toHost) /\ Len(toHost') \in Nat
      BY <1>2, <3>1
    <3>3. QED
      BY <1>4, <2>1, <3>1, <3>2
  <2>2. CASE toHost' = SubSeq(toHost, 1, k - 1) \o SubSeq(toHost, k + 1, Len(toHost))
    <3>1. Len(toHost') = Len(toHost) - 1 /\ Len(toHost') \in Nat
      <4>1. toHost' \in Seq(FrameType) /\ Len(toHost') = Len(toHost) - 1
        BY <1>5, <2>2
      <4>2. QED
        BY <4>1, LenProperties
    <3>2. Len(toHost') <= Len(toHost)
      BY <1>2, <3>1
    <3>3. QED
      BY <1>5, <2>2, <3>1, <3>2
  <2>3. QED
    BY <1>7, <2>1, <2>2
<1>8. QED
  BY <1>1, <1>6, <1>7 DEF Loses

LEMMA LosesKeeps ==
  ASSUME WireTypeOK, WireParts, Loses
  PROVE  WireParts'
<1>0. /\ UNCHANGED <<door, stage, session, call, front, want, gone, muted, rx, busy, dev, kept>>
      /\ (toAdapter = <<>> => toAdapter' = <<>>) /\ (toHost = <<>> => toHost' = <<>>)
      /\ \A i \in DOMAIN toAdapter' :
           toAdapter'[i] = Spoilt \/ (i \in DOMAIN toAdapter /\ toAdapter'[i] = toAdapter[i])
      /\ \A i \in DOMAIN toHost' :
           toHost'[i] = Spoilt
           \/ \E j \in DOMAIN toHost : toHost'[i] = toHost[j] /\ (j = Len(toHost) => i = Len(toHost'))
  BY LosesIs
<1>1. (Served' <=> Served) /\ (Probing' <=> Probing) /\ (NotRun' <=> NotRun) /\ (Leftover' <=> Leftover)
  BY <1>0 DEF Served, Probing, NotRun, Leftover
<1>2. Spoilt.kind = "spoilt" /\ Spoilt.seq = 0 /\ Spoilt.status = "none" /\ 0 <= call.seq
  <2>1. call.seq \in Nat
    BY Numbers
  <2>2. 0 <= call.seq
    BY <2>1
  <2>3. QED
    BY <2>2, PlainFrames
<1>3. StageFits' /\ AdapterFits' /\ SessionsAreClean'
  BY <1>0, <1>1 DEF WireParts, StageFits, AdapterFits, SessionsAreClean
<1>4. NumbersFit'
  <2>1. ASSUME NEW i \in DOMAIN toAdapter'
        PROVE  /\ toAdapter'[i].seq <= call'.seq
               /\ toAdapter'[i].kind = "part" => toAdapter'[i].ids = {<<session', toAdapter'[i].seq>>}
    <3>1. CASE toAdapter'[i] = Spoilt
      BY <1>0, <1>2, <3>1
    <3>2. CASE i \in DOMAIN toAdapter /\ toAdapter'[i] = toAdapter[i]
      BY <1>0, <3>2 DEF WireParts, NumbersFit
    <3>3. QED
      BY <1>0, <3>1, <3>2
  <2>2. ASSUME door \in {"idle", "wait"}, NEW i \in DOMAIN toHost'
        PROVE  /\ toHost'[i].status # "in use"
               /\ ~Late(toHost[i])' =>
                    /\ toHost'[i].seq <= call'.seq
                    /\ toHost'[i].kind = "answer" => toHost'[i].ids = {<<session', toHost'[i].seq>>}
    <3>1. CASE toHost'[i] = Spoilt
      BY <1>0, <1>2, <3>1
    <3>2. ASSUME NEW j \in DOMAIN toHost, toHost'[i] = toHost[j]
          PROVE  /\ toHost'[i].status # "in use"
                 /\ ~Late(toHost[i])' =>
                      /\ toHost'[i].seq <= call'.seq
                      /\ toHost'[i].kind = "answer" => toHost'[i].ids = {<<session', toHost'[i].seq>>}
      <4>1. Late(toHost[i])' <=> Late(toHost[j])
        BY <1>1, <3>2 DEF Late
      <4>2. QED
        BY <1>0, <2>2, <3>2, <4>1 DEF WireParts, NumbersFit
    <3>3. QED
      BY <1>0, <3>1, <3>2
  <2>3. QED
    BY <1>0, <2>1, <2>2 DEF WireParts, NumbersFit
<1>5. LinkFits'
  <2>1. ASSUME Leftover, Served, door \in {"idle", "wait"}, NEW i \in DOMAIN toHost'
        PROVE  toHost'[i].kind = "spoilt" \/ Late(toHost[i])'
    <3>1. CASE toHost'[i] = Spoilt
      BY <1>2, <3>1
    <3>2. ASSUME NEW j \in DOMAIN toHost, toHost'[i] = toHost[j]
          PROVE  toHost'[i].kind = "spoilt" \/ Late(toHost[i])'
      <4>1. toHost[j].kind = "spoilt" \/ Late(toHost[j])
        BY <2>1 DEF WireParts, LinkFits
      <4>2. QED
        BY <1>1, <3>2, <4>1 DEF Late
    <3>3. QED
      BY <1>0, <3>1, <3>2
  <2>2. QED
    BY <1>0, <1>1, <1>2, <2>1 DEF WireParts, LinkFits
<1>6. ProbeFits'
  <2>1. ASSUME door = "wait", Probing, NEW i \in DOMAIN toHost', toHost'[i].op = "probe", toHost'[i].seq = call.seq
        PROVE  i = Len(toHost') /\ busy = NoJob /\ toAdapter' = <<>>
    <3>1. toHost'[i] # Spoilt
      BY <1>2, <2>1 DEF WireParts, StageFits
    <3>2. PICK j \in DOMAIN toHost : toHost'[i] = toHost[j] /\ (j = Len(toHost) => i = Len(toHost'))
      BY <1>0, <3>1
    <3>3. j = Len(toHost) /\ busy = NoJob /\ toAdapter = <<>>
      BY <2>1, <3>2 DEF WireParts, ProbeFits
    <3>4. QED
      BY <1>0, <3>2, <3>3
  <2>2. ASSUME NEW i \in DOMAIN toAdapter'
        PROVE  /\ Served /\ Probing /\ toAdapter'[i].kind = "part" => toAdapter'[i].op = "probe"
               /\ door = "wait" /\ Probing /\ toAdapter'[i].seq = call.seq => i = Len(toAdapter')
    <3>0. Len(toAdapter') = Len(toAdapter)
      BY LosesIs
    <3>1. CASE toAdapter'[i] = Spoilt
      BY <1>2, <3>1 DEF WireParts, StageFits
    <3>2. CASE i \in DOMAIN toAdapter /\ toAdapter'[i] = toAdapter[i]
      BY <3>0, <3>2 DEF WireParts, ProbeFits
    <3>3. QED
      BY <1>0, <3>1, <3>2
  <2>3. QED
    BY <1>0, <1>1, <2>1, <2>2 DEF WireParts, ProbeFits
<1>7. CallFits'
  <2>1. ASSUME Served, ~Probing
        PROVE  Len(toAdapter') + Len(toHost') + (IF busy' = NoJob THEN 0 ELSE 1) <= (IF door' = "idle" THEN 0 ELSE 1)
    <3>1. Len(toAdapter) + Len(toHost) + (IF busy = NoJob THEN 0 ELSE 1) <= (IF door = "idle" THEN 0 ELSE 1)
      BY <2>1 DEF WireParts, CallFits
    <3>2. /\ Len(toAdapter) \in Nat /\ Len(toHost) \in Nat
          /\ Len(toAdapter') = Len(toAdapter) /\ Len(toHost') <= Len(toHost) /\ Len(toHost') \in Nat
      BY Numbers, LosesIs
    <3>3. busy' = busy /\ door' = door
      BY <1>0
    <3>4. QED
      BY <3>1, <3>2, <3>3
  <2>2. ASSUME Served, ~Probing, NEW i \in DOMAIN toAdapter', toAdapter'[i].kind = "part"
        PROVE  call.sent # 0 /\ toAdapter'[i] = Part(call, call.sent - 1)' /\ NotRun
    <3>1. i \in DOMAIN toAdapter /\ toAdapter'[i] = toAdapter[i]
      BY <1>0, <1>2, <2>2
    <3>2. call.sent # 0 /\ toAdapter[i] = Part(call, call.sent - 1) /\ NotRun
      BY <2>2, <3>1 DEF WireParts, CallFits
    <3>3. Part(call, call.sent - 1) = Part(call, call.sent - 1)'
      BY <1>0 DEF Part, Frame
    <3>4. QED
      BY <3>1, <3>2, <3>3
  <2>3. QED
    BY <1>0, <1>1, <2>1, <2>2 DEF WireParts, CallFits
<1>8. QED
  BY <1>3, <1>4, <1>5, <1>6, <1>7 DEF WireParts

LEMMA WireInvInit ==
  ASSUME WireInit
  PROVE  WireInv
<1>1. /\ door = "shut" /\ stage = "probe" /\ session = 0 /\ toAdapter = <<>> /\ toHost = <<>>
      /\ call = [op |-> "none", seq |-> 0, id |-> NoId, sent |-> 0, got |-> <<>>]
      /\ front \in {"elm", "wire"} /\ want = "none" /\ gone = "no" /\ muted = FALSE /\ rx = Fresh
      /\ busy = NoJob /\ dev = NoSession /\ kept = [last |-> NoId, wrong |-> {}] /\ faults = 0
  BY DEF WireInit
<1>2. call.op = "none" /\ call.seq = 0 /\ call.got = <<>> /\ kept.last = NoId /\ kept.wrong = {}
  BY <1>1
<1>3. /\ <<>> \in Seq(FrameType) /\ <<>> \in Seq(SUBSET Ids)
      /\ DOMAIN toAdapter = {} /\ DOMAIN toHost = {} /\ DOMAIN call.got = {}
  BY <1>1, <1>2, EmptySeq
<1>4. WireTypeOK
  <2>1. call \in CallType
    BY <1>1, <1>3, Constants DEF CallType, OpNames
  <2>2. HostType
    BY <1>1, <2>1, Constants DEF HostType, CallType
  <2>3. LinkType
    BY <1>1, <1>3 DEF LinkType
  <2>4. TaskType
    BY <1>1, Constants DEF TaskType, RxType
  <2>5. faults \in 0 .. MaxFaults
    BY <1>1, WireAssumption DEF WireAssumption
  <2>6. kept \in KeptType
    BY <1>1, Constants DEF KeptType
  <2>7. QED
    BY <2>2, <2>3, <2>4, <2>5, <2>6 DEF WireTypeOK, KeptType
<1>5. ~Served
  BY <1>1 DEF Served
<1>6. StageFits /\ SessionsAreClean
  BY <1>1, <1>2 DEF StageFits, SessionsAreClean
<1>7. NumbersFit
  <2>1. NoId[1] # session /\ busy.ids = {}
    BY <1>1, Constants DEF NoId
  <2>2. QED
    BY <1>2, <1>3, <2>1 DEF NumbersFit
<1>8. AdapterFits
  BY <1>1, <1>2, Constants DEF AdapterFits
<1>9. LinkFits /\ ProbeFits /\ CallFits
  BY <1>1, <1>5 DEF LinkFits, ProbeFits, CallFits
<1>10. QED
  BY <1>4, <1>6, <1>7, <1>8, <1>9 DEF WireInv

LEMMA WireInvNext ==
  ASSUME WireInv, [WireNext]_wireState
  PROVE  WireInv'
<1>1. WireTypeOK /\ WireParts /\ StageFits
  BY DEF WireInv, WireParts
<1>2. ASSUME WireTypeOK', WireParts' PROVE WireInv'
  BY <1>2 DEF WireInv, WireParts
<1>3. CASE OpensPort
  BY <1>1, <1>2, <1>3, HostTypeStep, OpensPortKeeps
<1>4. CASE SelectFrontend
  BY <1>1, <1>2, <1>4, HostTypeStep, SelectFrontendKeeps
<1>5. CASE Selected
  BY <1>1, <1>2, <1>5, HostTypeStep, SelectedKeeps
<1>6. CASE \E o \in Ops : Begins(o)
  BY <1>1, <1>2, <1>6, HostTypeStep, BeginsKeeps
<1>7. CASE Receives
  BY <1>1, <1>2, <1>7, ReceivesType, ReceivesKeeps
<1>8. CASE Expires
  BY <1>1, <1>2, <1>8, HostTypeStep, ExpiresKeeps
<1>9. CASE ClientGone
  BY <1>1, <1>2, <1>9, AdapterTypeStep, ClientGoneKeeps
<1>10. CASE AppliesSwitch
  BY <1>1, <1>2, <1>10, AdapterTypeStep, AppliesSwitchKeeps
<1>11. CASE Feeds
  BY <1>1, <1>2, <1>11, AdapterTypeStep, FeedsKeeps
<1>12. CASE Finishes
  BY <1>1, <1>2, <1>12, AdapterTypeStep, FinishesKeeps
<1>13. CASE Loses
  BY <1>1, <1>2, <1>13, AdapterTypeStep, LosesKeeps
<1>14. CASE UNCHANGED wireState
  <2>1. UNCHANGED <<door, stage, session, call, toAdapter, toHost, front, want, gone, muted, rx, busy,
                    dev, kept, faults>>
    BY <1>14 DEF wireState
  <2>2. WireTypeOK'
    BY <1>1, <2>1 DEF WireTypeOK, HostType, LinkType, TaskType
  <2>3. NumbersFit'
    BY <1>1, <2>1 DEF WireParts, NumbersFit, Late, Probing
  <2>4. (Served' <=> Served) /\ (Probing' <=> Probing) /\ (NotRun' <=> NotRun) /\ (Leftover' <=> Leftover)
    BY <2>1 DEF Served, Probing, NotRun, Leftover
  <2>5. ProbeFits'
    BY <1>1, <2>1, <2>4 DEF WireParts, ProbeFits
  <2>6. CallFits'
    <3>1. Part(call, call.sent - 1) = Part(call, call.sent - 1)'
      BY <2>1 DEF Part, Frame
    <3>2. QED
      BY <1>1, <2>1, <2>4, <3>1 DEF WireParts, CallFits
  <2>7. StageFits' /\ SessionsAreClean'
    BY <1>1, <2>1, <2>4 DEF WireParts, StageFits, SessionsAreClean
  <2>8. AdapterFits'
    BY <1>1, <2>1, <2>4 DEF WireParts, AdapterFits
  <2>9. LinkFits'
    BY <1>1, <2>1, <2>4 DEF WireParts, LinkFits, Late
  <2>10. QED
    BY <1>2, <2>2, <2>3, <2>5, <2>6, <2>7, <2>8, <2>9 DEF WireParts
<1>15. QED
  BY <1>3, <1>4, <1>5, <1>6, <1>7, <1>8, <1>9, <1>10, <1>11, <1>12, <1>13, <1>14
     DEF WireNext, HostStep, TaskStep

\* The whole invariant holds of the wire, whatever is lost, spoilt or late.
THEOREM WireHolds == WireSpec => []WireInv
<1>1. WireInit => WireInv
  BY WireInvInit
<1>2. WireInv /\ [WireNext]_wireState => WireInv'
  BY WireInvNext
<1>3. QED
  BY <1>1, <1>2, PTL DEF WireSpec

\* A call that has an effect takes its own answer whole, none runs twice, and no
\* session finds the device still open to an earlier one (rpc() of api.cpp,
\* process_frame() of j2534_wire.c, vif_link_down()).
THEOREM SessionsHold == WireSpec => []SessionsAreClean
<1>1. WireInv => SessionsAreClean
  BY DEF WireInv
<1>2. QED
  BY <1>1, WireHolds, PTL
===============================================================================
