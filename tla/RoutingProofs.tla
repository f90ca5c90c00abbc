--------------------------- MODULE RoutingProofs ----------------------------
(***************************************************************************)
(* What follows from the contract in Routing, for any users and nodes.     *)
(***************************************************************************)
EXTENDS Routing, TLAPS

Typed == /\ route \in [Uids -> Nodes \cup {None}]
         /\ users \in [Nodes -> SUBSET Uids]

(* A step of the contract keeps the types and keeps every route counted.   *)
LEMMA NextKeepsCounted ==
  ASSUME RoutingAssumption, Typed, Counted, [Next]_vars PROVE Typed' /\ Counted'
<1> USE DEF RoutingAssumption, Typed, Counted
<1>1. CASE UNCHANGED vars BY <1>1 DEF vars
<1>2. ASSUME NEW u \in Uids, NEW n \in Nodes, Bind(u, n) PROVE Typed' /\ Counted'
  <2>1. Left(u) \in [Nodes -> SUBSET Uids] BY DEF Left
  <2>2. Typed' BY <1>2, <2>1 DEF Bind
  <2>3. ASSUME NEW v \in Uids, route'[v] # None PROVE v \in users'[route'[v]]
    <3>1. CASE v = u BY <1>2, <2>1, <3>1 DEF Bind
    <3>2. CASE v # u
      <4>1. route'[v] = route[v] /\ route[v] \in Nodes BY <1>2, <2>3, <3>2 DEF Bind
      <4>2. v \in Left(u)[route[v]] BY <2>3, <3>2, <4>1 DEF Left
      <4>3. users' = [Left(u) EXCEPT ![n] = @ \cup {u}] BY <1>2 DEF Bind
      <4>4. users'[route[v]] = IF route[v] = n THEN Left(u)[n] \cup {u}
                               ELSE Left(u)[route[v]]
        BY <2>1, <4>1, <4>3
      <4>5. QED BY <4>1, <4>2, <4>4
    <3>3. QED BY <3>1, <3>2
  <2>4. QED BY <2>2, <2>3
<1>3. ASSUME NEW u \in Uids, Unbind(u) PROVE Typed' /\ Counted'
  BY <1>3 DEF Unbind, Left
<1>4. ASSUME NEW n \in Nodes, Unregister(n) PROVE Typed' /\ Counted'
  BY <1>4 DEF Unregister
<1>5. CASE Expire BY <1>5 DEF Expire
<1>6. QED BY <1>1, <1>2, <1>3, <1>4, <1>5 DEF Next

(* Whoever keeps the contract has every route counted on the node it leads *)
(* to: unregisterNode, which reads the set, finds every user of the node.  *)
THEOREM RoutesAreCounted == RoutingAssumption /\ Spec => []Counted
<1> SUFFICES ASSUME RoutingAssumption PROVE Spec => []Counted OBVIOUS
<1>1. Init => Typed /\ Counted BY DEF Init, Typed, Counted
<1>2. Typed /\ Counted /\ [Next]_vars => Typed' /\ Counted' BY NextKeepsCounted
<1>3. QED BY <1>1, <1>2, PTL DEF Spec
=============================================================================
