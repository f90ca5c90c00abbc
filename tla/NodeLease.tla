----------------------------- MODULE NodeLease ------------------------------
(***************************************************************************)
(* What the node registry promises about a name: at most one instance owns *)
(* it at a time, its lease is only ever extended while it lasts, and it is *)
(* given up early only after a request to unregister it was accepted.      *)
(***************************************************************************)
EXTENDS Naturals

CONSTANTS None, Names, Instances, NodeTtl

VARIABLES lease,    \* name -> its owner and the time the lease has left
          leaving   \* the accepted requests to unregister: <<name, id given>>

TypeOK == /\ lease \in [Names -> {None} \cup
                                 [inst : Instances, left : 0 .. NodeTtl]]
          /\ leaving \subseteq Names \X Instances

Init == lease = [n \in Names |-> None] /\ leaving = {}

(* A free name is taken, or its owner extends its lease.                   *)
Grant(n, i, k) ==
  /\ \/ lease[n] = None
     \/ lease[n].inst = i /\ lease[n].left <= k
  /\ lease' = [lease EXCEPT ![n] = [inst |-> i, left |-> k]]
  /\ UNCHANGED leaving

(* A request to unregister is accepted: from the owner, or from an         *)
(* operator who names no instance.                                         *)
Leave(n, i) == /\ lease[n] # None /\ i \in {lease[n].inst, None}
               /\ leaving' = leaving \cup {<<n, i>>}
               /\ UNCHANGED lease

(* It is carried out, or given up before it is.                            *)
Release(n, i) == /\ <<n, i>> \in leaving
                 /\ lease' = [lease EXCEPT ![n] = None]
                 /\ leaving' = leaving \ {<<n, i>>}
Abandon == leaving' = {} /\ UNCHANGED lease
GiveUp(n, i) == leaving' = leaving \ {<<n, i>>} /\ UNCHANGED lease

Age == /\ lease' = [n \in Names |->
                     IF lease[n] = None \/ lease[n].left = 0 THEN None
                     ELSE [lease[n] EXCEPT !.left = @ - 1]]
       /\ UNCHANGED leaving

Next == \/ \E n \in Names, i \in Instances :
             \/ \E k \in 0 .. NodeTtl : Grant(n, i, k)
             \/ Leave(n, i) \/ Release(n, i) \/ GiveUp(n, i)
        \/ Abandon \/ Age

Spec == Init /\ [][Next]_<<lease, leaving>>
=============================================================================
