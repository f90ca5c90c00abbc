------------------------------- MODULE Routing -------------------------------
(***************************************************************************)
(* What the registry promises about users and nodes, method by method: the *)
(* contract of NodeRegistry.h in which bindUser, unbindUser and            *)
(* unregisterNode are one step each.  A route ends by itself (its TTL) and *)
(* the user is still counted then; whatever a method does to a route, it   *)
(* does to the counts in the same step.                                    *)
(***************************************************************************)
CONSTANTS
  None,
  Uids,   \* users
  Nodes,  \* node names
  Mortal  \* do routes end by themselves?

VARIABLES
  route,  \* user -> the node it is bound to
  users   \* node -> the users that are counted on it

vars == <<route, users>>

(* What the theorems about this module rest on.                            *)
RoutingAssumption == None \notin Nodes /\ Mortal \in BOOLEAN

Init == /\ route = [u \in Uids |-> None]
        /\ users = [n \in Nodes |-> {}]

(* The counts after u has left the node that its route names.              *)
Left(u) == [n \in Nodes |-> IF route[u] = n THEN users[n] \ {u} ELSE users[n]]

Bind(u, n) == /\ route' = [route EXCEPT ![u] = n]
              /\ users' = [Left(u) EXCEPT ![n] = @ \cup {u}]
Unbind(u)  == /\ route' = [route EXCEPT ![u] = None]
              /\ users' = Left(u)

(* unregisterNode drops the routes of those it finds counted.              *)
Unregister(n) ==
  /\ route' = [u \in Uids |-> IF u \in users[n] THEN None ELSE route[u]]
  /\ users' = [users EXCEPT ![n] = {}]

(* TTLs end, of several routes in one second.                              *)
Expire == \E gone \in SUBSET Uids :
  /\ Mortal
  /\ route' = [u \in Uids |-> IF u \in gone THEN None ELSE route[u]]
  /\ UNCHANGED users

Next == \/ \E u \in Uids : Unbind(u) \/ \E n \in Nodes : Bind(u, n)
        \/ \E n \in Nodes : Unregister(n)
        \/ Expire
Spec == Init /\ [][Next]_vars

(* A route is always counted, so that unregisterNode finds it: none leads  *)
(* to a node that has been unregistered and not bound again.               *)
Counted == \A u \in Uids : route[u] # None => u \in users[route[u]]
=============================================================================
