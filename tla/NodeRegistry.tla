---------------------------- MODULE NodeRegistry ----------------------------
(***************************************************************************)
(* The node registry and the user routes of StatusServer                   *)
(* (src/application/impl/RedisNodeRegistryImpl.cpp): gRPC threads run the  *)
(* registry's methods against three families of Redis keys.  A method is a *)
(* sequence of Redis commands, each one atomic; other threads, the clock,  *)
(* a crash of the server and a failing command may come between any two.   *)
(*                                                                         *)
(* Wall-clock instants are kept as the time that is left: a node record    *)
(* holds lease = expire_at - now (saturating at -1) and a route holds the  *)
(* TTL Redis has left for it, so Tick is the only action that sees time.   *)
(***************************************************************************)
EXTENDS RedisMgr, Integers

CONSTANTS
  Threads,        \* gRPC handler threads
  Names,          \* node names
  Instances,      \* instance ids; None may be one of them (the empty id)
  Uids,           \* users (the methods reject uid <= 0 before any command)
  Ops,            \* the operations that are called in this instance
  Endpoints,      \* do registrations carry all four endpoint fields?
  NodeTtl,        \* kNodeTtlSeconds, of a node's lease and of a route
  RefreshInTime,  \* do chat servers refresh each route before it expires?
  MayStop,        \* the nodes that may stop for good without unregistering
  MaxCrashes      \* bound: how often the server may crash

VARIABLES
  nodes,    \* registered_nodes: node name -> its record
  routes,   \* user_node_<uid>: the node a user is bound to, with a TTL
  members,  \* node_users_<name>: the users counted on a node
  up,       \* has the server finished starting?
  crashes,  \* how often it has crashed
  stopped,  \* nodes that stopped without unregistering
  pc,       \* per thread: the next command of its method
  req,      \* per thread: the request it serves
  rec,      \* per thread: the record it is about to store
  snap,     \* per thread: what is left to look at of cleanup's HGETALL
  todo,     \* per thread: the users whose route unregister still deletes
  old       \* per thread: the node the user was bound to (oldNode, nodeName)

redis  == <<nodes, routes, members>>
locals == <<req, rec, snap, todo, old>>
env    == <<up, crashes, stopped>>
vars   == <<redis, faults, env, pc, locals>>

AllOps == {"register", "heartbeat", "unregister", "bind", "unbind", "refresh"}

Record == [inst : Instances, lease : -1 .. NodeTtl, complete : BOOLEAN]
Route  == [val : Names, ttl : 1 .. NodeTtl]
Owner  == [inst : Instances, left : 0 .. NodeTtl]   \* of a name, as NodeLease has it

ASSUME RegistryAssumption ==
  /\ NodeTtl \in Nat \ {0}
  /\ Ops \subseteq AllOps
  /\ Endpoints \subseteq BOOLEAN
  /\ RefreshInTime \in BOOLEAN
  /\ MayStop \subseteq Names
  /\ MaxCrashes \in Nat
  /\ None \notin Names \cup Uids \cup Record \cup Route \cup Owner

Request == [op : AllOps \cup {"boot", "none"}, name : Names \cup {None},
            inst : Instances \cup {None}, uid : Uids \cup {None},
            complete : BOOLEAN]

Labels == {"idle", "scan", "clean", "check", "store", "hbGet",
           "unGet", "unMembers", "unRoutes", "unSet", "unNode",
           "bdNode", "bdOld", "bdRem", "bdSet", "bdAdd",
           "ubGet", "ubRem", "ubDel", "rfRoute"}

NoReq     == [op |-> "none", name |-> None, inst |-> None, uid |-> None,
              complete |-> TRUE]
EmptySnap == [n \in Names |-> None]

Idle(t)   == pc[t] = "idle"
AllIdle   == \A t \in Threads : Idle(t)
At(t, l)  == pc[t] = l
Go(t, l)  == pc' = [pc EXCEPT ![t] = l]

(* parseNode and isAlive: a record with an empty endpoint field does not   *)
(* parse; one with expire_at >= now is alive.                              *)
Parses(r) == r # None /\ r.complete
AliveForever(r) == Parses(r)   \* slip: expire_at is not looked at
Alive(r) == Parses(r) /\ r.lease >= 0

(* getNode: a failed HGET, a missing, an invalid and an expired record are *)
(* all nullopt.                                                            *)
GetNode(o, n) == LET r == HGet(o, nodes, n) IN IF Alive(r) THEN r ELSE None

RoutedTo(n) == {u \in Uids : routes[u] # None /\ routes[u].val = n}

(* Nothing has happened yet, whatever Redis holds.                         *)
Fresh == /\ faults = 0 /\ crashes = 0 /\ stopped = {}
         /\ pc = [t \in Threads |-> "idle"]
         /\ req = [t \in Threads |-> NoReq]
         /\ rec = [t \in Threads |-> None]
         /\ snap = [t \in Threads |-> EmptySnap]
         /\ todo = [t \in Threads |-> {}]
         /\ old = [t \in Threads |-> None]

Init == /\ nodes = [n \in Names |-> None]
        /\ routes = [u \in Uids |-> None]
        /\ members = [n \in Names |-> {}]
        /\ up = FALSE /\ Fresh

-----------------------------------------------------------------------------
(* The method returns: its locals are gone.                                *)
Return(t) == /\ Go(t, "idle")
             /\ req' = [req EXCEPT ![t] = NoReq]
             /\ rec' = [rec EXCEPT ![t] = None]
             /\ snap' = [snap EXCEPT ![t] = EmptySnap]
             /\ todo' = [todo EXCEPT ![t] = {}]
             /\ old' = [old EXCEPT ![t] = None]

(* The method goes on with its next command.                               *)
Continue(t, l) == Go(t, l) /\ UNCHANGED locals

Call(t, op, n, i, u, c, l) ==
  /\ up /\ Idle(t) /\ op \in Ops
  /\ Go(t, l)
  /\ req' = [req EXCEPT ![t] = [op |-> op, name |-> n, inst |-> i, uid |-> u,
                                complete |-> c]]
  /\ UNCHANGED <<redis, faults, env, rec, snap, todo, old>>

(* The requests that reach the server. A node that has stopped sends none. *)
RegisterNode(t) ==
  \E n \in Names \ stopped, i \in Instances, c \in Endpoints :
    Call(t, "register", n, i, None, c, "scan")
Heartbeat(t) ==
  \E n \in Names \ stopped, i \in Instances :
    Call(t, "heartbeat", n, i, None, TRUE, "hbGet")
UnregisterNode(t) ==
  \E n \in Names \ stopped, i \in Instances :
    Call(t, "unregister", n, i, None, TRUE, "unGet")
BindUser(t) ==
  \E n \in Names \ stopped, u \in Uids :
    Call(t, "bind", n, None, u, TRUE, "bdNode")
UnbindUser(t) ==
  \E u \in Uids : Call(t, "unbind", None, None, u, TRUE, "ubGet")
RefreshTokenTTL(t) ==
  \E u \in Uids : Call(t, "refresh", None, None, u, TRUE, "rfRoute")

(* The constructor of the service cleans up before the server listens.     *)
Boot(t) == /\ ~up /\ AllIdle
           /\ Go(t, "scan")
           /\ req' = [req EXCEPT ![t] = [NoReq EXCEPT !.op = "boot"]]
           /\ UNCHANGED <<redis, faults, env, rec, snap, todo, old>>

-----------------------------------------------------------------------------
(* cleanupExpiredNodes: one HGETALL, then an HDEL of each record of that   *)
(* snapshot that is invalid or, by the clock of that moment, expired.      *)
Scan(t) == \E o \in Outcomes("hGetAll") :
  /\ At(t, "scan") /\ Charge(o)
  /\ snap' = [snap EXCEPT ![t] = HGetAll(o, nodes)]
  /\ Go(t, "clean")
  /\ UNCHANGED <<redis, env, req, rec, todo, old>>

CleanSkip(t) == \E n \in Names :
  /\ At(t, "clean") /\ Alive(snap[t][n])
  /\ snap' = [snap EXCEPT ![t][n] = None]
  /\ UNCHANGED <<redis, faults, env, pc, req, rec, todo, old>>

CleanDelete(t) == \E n \in Names, o \in Outcomes("hDel") :
  /\ At(t, "clean") /\ snap[t][n] # None /\ ~Alive(snap[t][n]) /\ Charge(o)
  /\ nodes' = HDel(o, nodes, n)
  /\ snap' = [snap EXCEPT ![t][n] = None]
  /\ UNCHANGED <<routes, members, env, pc, req, rec, todo, old>>

CleanDone(t) ==
  /\ At(t, "clean") /\ snap[t] = EmptySnap
  /\ IF req[t].op = "boot" THEN up' = TRUE /\ Return(t)
                           ELSE up' = up /\ Continue(t, "check")
  /\ UNCHANGED <<redis, faults, crashes, stopped>>

(* registerNode after its cleanup.                                         *)
TakenNever(existing, i) == FALSE   \* slip: instance ids are not compared
Taken(existing, i) == existing # None /\ existing.inst # i

Check(t) == \E o \in Outcomes("hGet") :
  /\ At(t, "check") /\ Charge(o)
  /\ IF Taken(GetNode(o, req[t].name), req[t].inst)
     THEN Return(t)
     ELSE /\ rec' = [rec EXCEPT ![t] = [inst |-> req[t].inst, lease |-> NodeTtl,
                                        complete |-> req[t].complete]]
          /\ Go(t, "store")
          /\ UNCHANGED <<req, snap, todo, old>>
  /\ UNCHANGED <<redis, env>>

(* A slip of heartbeat: the TTL is added to the old expire_at.             *)
HbGetAdds(t) == \E o \in Outcomes("hGet") :
  /\ At(t, "hbGet") /\ Charge(o)
  /\ LET existing == GetNode(o, req[t].name) IN
     IF existing = None \/ Taken(existing, req[t].inst)
     THEN Return(t)
     ELSE /\ rec' = [rec EXCEPT ![t] = [existing EXCEPT !.lease = @ + NodeTtl]]
          /\ Go(t, "store")
          /\ UNCHANGED <<req, snap, todo, old>>
  /\ UNCHANGED <<redis, env>>

(* heartbeat: the record that was read is stored again, its lease renewed. *)
HbGet(t) == \E o \in Outcomes("hGet") :
  /\ At(t, "hbGet") /\ Charge(o)
  /\ LET existing == GetNode(o, req[t].name) IN
     IF existing = None \/ Taken(existing, req[t].inst)
     THEN Return(t)
     ELSE /\ rec' = [rec EXCEPT ![t] = [existing EXCEPT !.lease = NodeTtl]]
          /\ Go(t, "store")
          /\ UNCHANGED <<req, snap, todo, old>>
  /\ UNCHANGED <<redis, env>>

(* The last command of registerNode and of heartbeat.                      *)
Store(t) == \E o \in Outcomes("hSet") :
  /\ At(t, "store") /\ Charge(o)
  /\ nodes' = HSet(o, nodes, req[t].name, rec[t])
  /\ Return(t)
  /\ UNCHANGED <<routes, members, env>>

-----------------------------------------------------------------------------
(* unregisterNode: the empty instance id matches every record.             *)
UnGet(t) == \E o \in Outcomes("hGet") :
  /\ At(t, "unGet") /\ Charge(o)
  /\ LET existing == GetNode(o, req[t].name) IN
     IF \/ existing = None
        \/ req[t].inst # None /\ Taken(existing, req[t].inst)
     THEN Return(t) ELSE Continue(t, "unMembers")
  /\ UNCHANGED <<redis, env>>

UnMembers(t) == \E o \in Outcomes("sMembers") :
  /\ At(t, "unMembers") /\ Charge(o)
  /\ todo' = [todo EXCEPT ![t] = SMembers(o, members[req[t].name])]
  /\ Go(t, "unRoutes")
  /\ UNCHANGED <<redis, env, req, rec, snap, old>>

UnRoute(t) == \E u \in todo[t], o \in Outcomes("del") :
  /\ At(t, "unRoutes") /\ Charge(o)
  /\ routes' = Del(o, routes, u)
  /\ todo' = [todo EXCEPT ![t] = @ \ {u}]
  /\ UNCHANGED <<nodes, members, env, pc, req, rec, snap, old>>

(* A slip: the loop over the users is left early.                          *)
UnRoutesLeft(t) == /\ At(t, "unRoutes")
                   /\ Continue(t, "unSet")
                   /\ UNCHANGED <<redis, faults, env>>

UnRoutesDone(t) == /\ At(t, "unRoutes") /\ todo[t] = {}
                   /\ Continue(t, "unSet")
                   /\ UNCHANGED <<redis, faults, env>>

UnSet(t) == \E o \in Outcomes("del") :
  /\ At(t, "unSet") /\ Charge(o)
  /\ members' = DelSet(o, members, req[t].name)
  /\ Continue(t, "unNode")
  /\ UNCHANGED <<nodes, routes, env>>

UnNode(t) == \E o \in Outcomes("hDel") :
  /\ At(t, "unNode") /\ Charge(o)
  /\ nodes' = HDel(o, nodes, req[t].name)
  /\ Return(t)
  /\ UNCHANGED <<routes, members, env>>

-----------------------------------------------------------------------------
(* bindUser: the results of its writes are ignored.                        *)
BdNode(t) == \E o \in Outcomes("hGet") :
  /\ At(t, "bdNode") /\ Charge(o)
  /\ IF GetNode(o, req[t].name) = None THEN Return(t)
                                       ELSE Continue(t, "bdOld")
  /\ UNCHANGED <<redis, env>>

(* A slip: the old node is not looked at.                                  *)
BdOldIgnored(t) == \E o \in Outcomes("get") :
  /\ At(t, "bdOld") /\ Charge(o)
  /\ Continue(t, "bdSet")
  /\ UNCHANGED <<redis, env>>

BdOld(t) == \E o \in Outcomes("get") :
  /\ At(t, "bdOld") /\ Charge(o)
  /\ old' = [old EXCEPT ![t] = Get(o, routes, req[t].uid)]
  /\ Go(t, IF old'[t] \in {None, req[t].name} THEN "bdSet" ELSE "bdRem")
  /\ UNCHANGED <<redis, env, req, rec, snap, todo>>

BdRem(t) == \E o \in Outcomes("sRem") :
  /\ At(t, "bdRem") /\ Charge(o)
  /\ members' = SRem(o, members, old[t], req[t].uid)
  /\ Continue(t, "bdSet")
  /\ UNCHANGED <<nodes, routes, env>>

(* A slip: a user who was on this node already is not added again.         *)
BdSetSkips(t) == \E o \in Outcomes("setEx") :
  /\ At(t, "bdSet") /\ Charge(o)
  /\ routes' = SetEx(o, routes, req[t].uid, req[t].name, NodeTtl)
  /\ IF old[t] = req[t].name THEN Return(t) ELSE Continue(t, "bdAdd")
  /\ UNCHANGED <<nodes, members, env>>

BdSet(t) == \E o \in Outcomes("setEx") :
  /\ At(t, "bdSet") /\ Charge(o)
  /\ routes' = SetEx(o, routes, req[t].uid, req[t].name, NodeTtl)
  /\ Continue(t, "bdAdd")
  /\ UNCHANGED <<nodes, members, env>>

BdAdd(t) == \E o \in Outcomes("sAdd") :
  /\ At(t, "bdAdd") /\ Charge(o)
  /\ members' = SAdd(o, members, req[t].name, req[t].uid)
  /\ Return(t)
  /\ UNCHANGED <<nodes, routes, env>>

(* unbindUser.                                                             *)
UbGet(t) == \E o \in Outcomes("get") :
  /\ At(t, "ubGet") /\ Charge(o)
  /\ old' = [old EXCEPT ![t] = Get(o, routes, req[t].uid)]
  /\ Go(t, IF old'[t] = None THEN "ubDel" ELSE "ubRem")
  /\ UNCHANGED <<redis, env, req, rec, snap, todo>>

UbRem(t) == \E o \in Outcomes("sRem") :
  /\ At(t, "ubRem") /\ Charge(o)
  /\ members' = SRem(o, members, old[t], req[t].uid)
  /\ Continue(t, "ubDel")
  /\ UNCHANGED <<nodes, routes, env>>

UbDel(t) == \E o \in Outcomes("del") :
  /\ At(t, "ubDel") /\ Charge(o)
  /\ routes' = Del(o, routes, req[t].uid)
  /\ Return(t)
  /\ UNCHANGED <<nodes, members, env>>

(* refreshTokenTTL that found the user's token, which LoginTokens models:  *)
(* its third EXPIRE touches the route and does nothing to a key that is    *)
(* gone.                                                                   *)
RfRoute(t) == \E o \in Outcomes("expire") :
  /\ At(t, "rfRoute") /\ Charge(o)
  /\ LET r == routes[req[t].uid] IN
     routes' = IF r = None THEN routes
               ELSE SetEx(o, routes, req[t].uid, r.val, NodeTtl)
  /\ Return(t)
  /\ UNCHANGED <<nodes, members, env>>

-----------------------------------------------------------------------------
(* One second passes, for the records in Redis and for those in the hands  *)
(* of a thread.                                                            *)
AgeRecord(r) == IF r = None \/ r.lease = -1 THEN r
                ELSE [r EXCEPT !.lease = @ - 1]

Tick == /\ RefreshInTime => \A u \in Uids : routes[u] # None => routes[u].ttl > 1
        /\ nodes' = [n \in Names |-> AgeRecord(nodes[n])]
        /\ routes' = [u \in Uids |-> AgeKey(routes[u])]
        /\ rec' = [t \in Threads |-> AgeRecord(rec[t])]
        /\ snap' = [t \in Threads |-> [n \in Names |-> AgeRecord(snap[t][n])]]
        /\ UNCHANGED <<members, faults, env, pc, req, todo, old>>

(* The server process dies: every method in flight is cut short.           *)
Crash == /\ crashes < MaxCrashes
         /\ crashes' = crashes + 1 /\ up' = FALSE
         /\ pc' = [t \in Threads |-> "idle"]
         /\ req' = [t \in Threads |-> NoReq]
         /\ rec' = [t \in Threads |-> None]
         /\ snap' = [t \in Threads |-> EmptySnap]
         /\ todo' = [t \in Threads |-> {}]
         /\ old' = [t \in Threads |-> None]
         /\ UNCHANGED <<redis, faults, stopped>>

NodeStops == \E n \in MayStop \ stopped :
  stopped' = stopped \cup {n} /\ UNCHANGED <<redis, faults, up, crashes, pc, locals>>

Requests(t) == \/ RegisterNode(t) \/ Heartbeat(t) \/ UnregisterNode(t)
               \/ BindUser(t) \/ UnbindUser(t) \/ RefreshTokenTTL(t)

Steps(t) == \/ Scan(t) \/ CleanSkip(t) \/ CleanDelete(t) \/ CleanDone(t)
            \/ Check(t) \/ HbGet(t) \/ Store(t)
            \/ UnGet(t) \/ UnMembers(t) \/ UnRoute(t) \/ UnRoutesDone(t)
            \/ UnSet(t) \/ UnNode(t)
            \/ BdNode(t) \/ BdOld(t) \/ BdRem(t) \/ BdSet(t) \/ BdAdd(t)
            \/ UbGet(t) \/ UbRem(t) \/ UbDel(t) \/ RfRoute(t)

Next == \/ \E t \in Threads : Boot(t) \/ Requests(t) \/ Steps(t)
        \/ Tick \/ Crash \/ NodeStops

Spec == Init /\ [][Next]_vars

(* The process starts, a method that runs comes to its end and time        *)
(* passes; no request is ever promised.                                    *)
Fairness == /\ WF_vars(\E t \in Threads : Boot(t))
            /\ \A t \in Threads : WF_vars(Steps(t))
            /\ WF_vars(Tick)

FairSpec == Spec /\ Fairness

-----------------------------------------------------------------------------
SharedTypeOK == /\ nodes \in [Names -> Record \cup {None}]
                /\ routes \in [Uids -> Route \cup {None}]
                /\ members \in [Names -> SUBSET Uids]
                /\ faults \in 0 .. MaxFaults
EnvTypeOK    == /\ up \in BOOLEAN /\ crashes \in 0 .. MaxCrashes
                /\ stopped \subseteq Names
LocalTypeOK  == /\ pc \in [Threads -> Labels]
                /\ req \in [Threads -> Request]
                /\ rec \in [Threads -> Record \cup {None}]
                /\ snap \in [Threads -> [Names -> Record \cup {None}]]
                /\ todo \in [Threads -> SUBSET Uids]
                /\ old \in [Threads -> Names \cup {None}]

(* Every variable stays in its type.                                       *)
TypeOK == SharedTypeOK /\ EnvTypeOK /\ LocalTypeOK

(* bindUser writes the route before the set that indexes it, and           *)
(* unbindUser the set before the route, while other threads do the same.   *)
(* Still, a live route that unregisterNode could not find is always the    *)
(* business of a method in flight: a bind about to SADD it, or a bind or   *)
(* an unbind of that user about to replace or delete it.  So no order of   *)
(* concurrent binds, unbinds and refreshes, and no failed GET, SREM or     *)
(* EXPIRE, leaves a route that nobody will clear.                          *)
Minding(t, u) ==
  \/ At(t, "bdAdd") /\ req[t].uid = u /\ routes[u].val = req[t].name
  \/ pc[t] \in {"bdSet", "ubDel"} /\ req[t].uid = u
RouteIndexed ==
  \A u \in Uids : routes[u] # None =>
    u \in members[routes[u].val] \/ \E t \in Threads : Minding(t, u)

(* Between two calls, with routes refreshed in time, a node's set holds    *)
(* exactly the users routed to it: the load selectLeastLoadedNode reads    *)
(* off SCARD is the number of users a node serves.                         *)
LoadExact == AllIdle => \A n \in Names : members[n] = RoutedTo(n)

(* When unregisterNode comes to delete the record, after which it returns  *)
(* true, no user is routed to that node any more.                          *)
UnregisterLeavesNoRoute ==
  \A t \in Threads : At(t, "unNode") => RoutedTo(req[t].name) = {}

(* A node that stopped without unregistering is forgotten, whatever was in *)
(* flight for it, whatever failed and however often the server crashes:    *)
(* from some moment on its record is not alive, and nobody is routed to it *)
(* but a user for whom refreshes of that very route never stop coming.     *)
(* The EXPIRE of refreshTokenTTL renews a route whatever node it names: if *)
(* the SETEX of a move failed, the refreshes of the new node keep the user *)
(* on the dead one.                                                        *)
RouteRefreshed(u, n) ==
  u \in RoutedTo(n) /\ \E t \in Threads : At(t, "rfRoute") /\ req[t].uid = u
StoppedNodeForgotten == \A n \in Names :
  /\ (n \in stopped) ~> []~Alive(nodes[n])
  /\ \A u \in Uids : \/ []<>RouteRefreshed(u, n)
                     \/ (n \in stopped) ~> [](u \notin RoutedTo(n))

(* A live name changes hands only through its own expiry or unregister:    *)
(* registerNode refuses a name that is alive under another instance id     *)
(* (NodeRegistry.h:31).                                                    *)
NoTakeover ==
  [][\A n \in Names : Alive(nodes[n]) /\ Alive(nodes'[n])
                        => nodes'[n].inst = nodes[n].inst]_nodes

(* Between two calls a name without a record counts no logins:             *)
(* cleanupExpiredNodes removes the expired records and their login counts  *)
(* (NodeRegistry.h:67).                                                    *)
CleanupDropsLoad ==
  AllIdle => \A n \in Names : nodes[n] = None => members[n] = {}

(* The registry implements NodeLease: who owns a name, seen through        *)
(* getNode, obeys the promise.                                             *)
LeaseSeen ==
  [n \in Names |-> IF Alive(nodes[n])
                   THEN [inst |-> nodes[n].inst, left |-> nodes[n].lease] ELSE None]
LeavingSeen ==
  {<<req[t].name, req[t].inst>> : t \in
     {s \in Threads : pc[s] \in {"unMembers", "unRoutes", "unSet", "unNode"}}}

Lease == INSTANCE NodeLease WITH lease <- LeaseSeen, leaving <- LeavingSeen
LeaseSpec == Lease!Spec

(* With one method at a time, and no crash or failing command, the methods *)
(* are atomic (the contract in Routing): seen from between the commands,   *)
(* bindUser and unbindUser are done when they have read the old route, and *)
(* unregisterNode when it has read the set.                                *)
Binding(u)   == {t \in Threads : req[t].uid = u /\ pc[t] \in {"bdRem", "bdSet", "bdAdd"}}
Unbinding(u) == {t \in Threads : req[t].uid = u /\ pc[t] \in {"ubRem", "ubDel"}}
Leaving(n)   == {t \in Threads : req[t].name = n /\ pc[t] \in {"unRoutes", "unSet"}}

RouteSeen ==
  [u \in Uids |->
     IF \E t \in Threads : u \in todo[t] \/ t \in Unbinding(u) THEN None
     ELSE IF Binding(u) # {} THEN req[CHOOSE t \in Binding(u) : TRUE].name
     ELSE IF routes[u] = None THEN None ELSE routes[u].val]
UsersSeen ==
  [n \in Names |->
     IF Leaving(n) # {} THEN {}
     ELSE (members[n] \ {u \in Uids : \E t \in Binding(u) \cup Unbinding(u) :
                           old[t] = n})
          \cup {u \in Uids : \E t \in Binding(u) : req[t].name = n}]

Routes == INSTANCE Routing WITH
  Nodes <- Names, Mortal <- ~RefreshInTime, route <- RouteSeen, users <- UsersSeen
RoutingSpec == Routes!Spec
=============================================================================
