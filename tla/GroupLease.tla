------------------------------ MODULE GroupLease ------------------------------
(***************************************************************************)
(* What the vehicle interface promises its two owners about a bus group,   *)
(* with none of the machinery: a group of shared wiring is leased by at    *)
(* most one owner; threads run inside its drivers only while it is leased, *)
(* and the lease ends only when the last of them has come out.  VifClaims  *)
(* implements it.                                                          *)
(***************************************************************************)
CONSTANTS
  Owners,   \* vif_owner_t: the link and the shell
  Groups,   \* vif_res_t: the groups of wiring that cannot be shared
  NoOwner   \* not one of the owners

VARIABLES
  holder,   \* who leases each group, or NoOwner
  inside    \* the threads inside each group's driver: "worker" or an owner

leaseVars == <<holder, inside>>

LeaseInit ==
  /\ holder = [g \in Groups |-> NoOwner]
  /\ inside = [g \in Groups |-> {}]

Take(o, g) ==
  /\ holder[g] = NoOwner
  /\ holder' = [holder EXCEPT ![g] = o]
  /\ UNCHANGED inside

\* A thread goes into a driver: the owner itself, or the worker sending for it.
Enter(t, g) ==
  /\ holder[g] # NoOwner
  /\ t \in {holder[g], "worker"}
  /\ inside' = [inside EXCEPT ![g] = @ \cup {t}]
  /\ UNCHANGED holder

Leave(t, g) ==
  /\ t \in inside[g]
  /\ inside' = [inside EXCEPT ![g] = @ \ {t}]
  /\ UNCHANGED holder

Drop(g) ==
  /\ holder[g] # NoOwner
  /\ inside[g] = {}
  /\ holder' = [holder EXCEPT ![g] = NoOwner]
  /\ UNCHANGED inside

LeaseNext == \E g \in Groups:
  \/ \E o \in Owners: Take(o, g)
  \/ \E t \in Owners \cup {"worker"}: Enter(t, g) \/ Leave(t, g)
  \/ Drop(g)

LeaseSpec == LeaseInit /\ [][LeaseNext]_leaseVars
===============================================================================
