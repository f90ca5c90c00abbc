------------------------- MODULE NodeRegistryProofs -------------------------
(***************************************************************************)
(* What is proved of NodeRegistry for every number of threads, nodes,      *)
(* instances and users, every TTL and every mix of operations.             *)
(***************************************************************************)
EXTENDS NodeRegistry, TLAPS

(* What a thread's request holds while its method is at a label: the       *)
(* typing of the requests that the method's writes rely on.                *)
InRegister == {"scan", "clean", "check"}
InUnregister == {"unGet", "unMembers", "unRoutes", "unSet", "unNode"}
InBind == {"bdNode", "bdOld", "bdRem", "bdSet", "bdAdd"}
InUser == {"ubGet", "ubRem", "ubDel", "rfRoute"}

RequestOK(t) ==
  /\ pc[t] \in InRegister =>
       \/ req[t].op = "boot" /\ pc[t] # "check"
       \/ req[t].name \in Names /\ req[t].inst \in Instances
  /\ pc[t] = "hbGet" => req[t].name \in Names
  /\ pc[t] \in InUnregister => req[t].name \in Names /\ "unregister" \in Ops
  /\ pc[t] \in InBind => req[t].name \in Names /\ req[t].uid \in Uids
  /\ pc[t] \in InUser => req[t].uid \in Uids
RequestsOK == \A t \in Threads : RequestOK(t)

TypeInv == TypeOK /\ RequestsOK

-----------------------------------------------------------------------------
(* Counting a command's outcome keeps the number of faults within its      *)
(* bound: a command only throws below it.                                  *)
LEMMA ChargeOK ==
  ASSUME faults \in 0 .. MaxFaults, NEW cmd, NEW o \in Outcomes(cmd), Charge(o)
  PROVE  faults' \in 0 .. MaxFaults
BY RedisAssumption DEF Outcomes, Charge

(* A method that returns leaves its thread's locals well typed and idle.   *)
LEMMA ReturnOK ==
  ASSUME NEW t \in Threads, LocalTypeOK, RequestsOK, Return(t)
  PROVE  LocalTypeOK' /\ RequestsOK'
<1>1. NoReq \in Request /\ EmptySnap \in [Names -> Record \cup {None}]
  BY DEF NoReq, Request, EmptySnap
<1>2. LocalTypeOK'
  BY <1>1 DEF Return, Go, LocalTypeOK, Labels
<1>3. ASSUME NEW s \in Threads PROVE RequestOK(s)'
  BY DEF Return, Go, LocalTypeOK, RequestsOK, RequestOK, InRegister,
         InUnregister, InBind, InUser
<1>4. QED BY <1>2, <1>3 DEF RequestsOK

(* A call leaves its thread with a well typed request.                     *)
LEMMA CallOK ==
  ASSUME NEW t \in Threads, NEW op, NEW n \in Names \cup {None},
         NEW i \in Instances \cup {None}, NEW u \in Uids \cup {None},
         NEW c \in BOOLEAN, NEW l,
         TypeInv, Call(t, op, n, i, u, c, l),
         \/ l = "scan" /\ n \in Names /\ i \in Instances
         \/ l = "hbGet" /\ n \in Names
         \/ l = "unGet" /\ n \in Names /\ op = "unregister"
         \/ l = "bdNode" /\ n \in Names /\ u \in Uids
         \/ l \in {"ubGet", "rfRoute"} /\ u \in Uids
  PROVE  TypeInv'
<1> USE DEF TypeInv
<1> DEFINE r == [op |-> op, name |-> n, inst |-> i, uid |-> u, complete |-> c]
<1>1. r \in Request
  BY RegistryAssumption DEF Call, Request
<1>2. SharedTypeOK' /\ EnvTypeOK'
  BY DEF Call, TypeOK, SharedTypeOK, EnvTypeOK, redis, env
<1>3. /\ pc' = [pc EXCEPT ![t] = l] /\ req' = [req EXCEPT ![t] = r]
      /\ UNCHANGED <<rec, snap, todo, old>> /\ op \in Ops
  BY DEF Call, Go
<1>4. l \in Labels
  BY DEF Labels
<1> HIDE DEF r
<1>5. LocalTypeOK'
  BY <1>1, <1>3, <1>4 DEF TypeOK, LocalTypeOK
<1>6. ASSUME NEW s \in Threads PROVE RequestOK(s)'
  <2>1. CASE s = t
    <3>1. pc'[s] = l /\ req'[s] = r
      BY <1>3, <2>1 DEF TypeOK, LocalTypeOK
    <3>2. r.name = n /\ r.inst = i /\ r.uid = u /\ r.op = op
      BY DEF r
    <3>3. QED
      BY <1>3, <3>1, <3>2 DEF RequestOK, InRegister, InUnregister, InBind, InUser
  <2>2. CASE s # t
    BY <1>3, <2>2 DEF TypeOK, LocalTypeOK, RequestsOK, RequestOK
  <2>3. QED BY <2>1, <2>2
<1>7. QED BY <1>2, <1>5, <1>6 DEF TypeOK, RequestsOK

(* A method that goes on within its phase keeps its request well typed.    *)
LEMMA GoOK ==
  ASSUME NEW t \in Threads, NEW l, LocalTypeOK, RequestsOK, Go(t, l), req' = req,
         \/ pc[t] = "scan" /\ l = "clean"
         \/ pc[t] = "clean" /\ l = "check" /\ req[t].op # "boot"
         \/ l = "store"
         \/ pc[t] \in InUnregister /\ l \in InUnregister
         \/ pc[t] \in InBind /\ l \in InBind
         \/ pc[t] \in InUser /\ l \in InUser
  PROVE  pc' \in [Threads -> Labels] /\ RequestsOK'
<1>1. l \in Labels
  BY DEF Labels, InUnregister, InBind, InUser
<1>2. pc' = [pc EXCEPT ![t] = l] /\ pc' \in [Threads -> Labels]
  BY <1>1 DEF Go, LocalTypeOK
<1>3. ASSUME NEW s \in Threads PROVE RequestOK(s)'
  <2>1. CASE s = t
    BY <1>2, <2>1 DEF LocalTypeOK, RequestsOK, RequestOK, InRegister,
       InUnregister, InBind, InUser
  <2>2. CASE s # t
    BY <1>2, <2>2 DEF LocalTypeOK, RequestsOK, RequestOK
  <2>3. QED BY <2>1, <2>2
<1>4. QED BY <1>2, <1>3 DEF RequestsOK

(* One second later records and routes still have their type.              *)
LEMMA AgeOK ==
  /\ \A r \in Record \cup {None} : AgeRecord(r) \in Record \cup {None}
  /\ \A k \in Route \cup {None} : AgeKey(k) \in Route \cup {None}
<1>1. ASSUME NEW r \in Record, r.lease # -1
      PROVE  [r EXCEPT !.lease = @ - 1] \in Record
  BY <1>1, RegistryAssumption DEF Record
<1>2. ASSUME NEW k \in Route, k.ttl # 1
      PROVE  [k EXCEPT !.ttl = @ - 1] \in Route
  BY <1>2, RegistryAssumption DEF Route
<1>3. QED BY <1>1, <1>2 DEF AgeRecord, AgeKey

(* What getNode returns is None or a record.                               *)
LEMMA GetNodeOK ==
  ASSUME SharedTypeOK, NEW o, NEW n \in Names, GetNode(o, n) # None
  PROVE  GetNode(o, n) \in Record
BY DEF GetNode, HGet, SharedTypeOK, Alive, Parses

-----------------------------------------------------------------------------
(* Whatever Redis holds, before the first call all locals are well typed.  *)
LEMMA TypeFresh ==
  ASSUME Fresh, up \in BOOLEAN, nodes \in [Names -> Record \cup {None}],
         routes \in [Uids -> Route \cup {None}], members \in [Names -> SUBSET Uids]
  PROVE  TypeInv
<1>1. NoReq \in Request /\ EmptySnap \in [Names -> Record \cup {None}]
  BY DEF NoReq, Request, EmptySnap
<1>2. LocalTypeOK
  BY <1>1 DEF Fresh, LocalTypeOK, Labels
<1>3. SharedTypeOK
  BY RedisAssumption DEF Fresh, SharedTypeOK
<1>4. EnvTypeOK
  BY RegistryAssumption DEF Fresh, EnvTypeOK
<1>5. RequestsOK
  BY DEF Fresh, RequestsOK, RequestOK, InRegister, InUnregister, InBind, InUser
<1>6. QED BY <1>2, <1>3, <1>4, <1>5 DEF TypeInv, TypeOK

LEMMA TypeInit == Init => TypeInv
BY TypeFresh DEF Init

(* Requests and the boot: the thread gets a well typed request.            *)
LEMMA TypeRequests ==
  ASSUME TypeInv, NEW t \in Threads, Requests(t) \/ Boot(t)
  PROVE  TypeInv'
<1>1. CASE RegisterNode(t)
  BY <1>1, CallOK, RegistryAssumption DEF RegisterNode
<1>2. CASE Heartbeat(t)
  BY <1>2, CallOK DEF Heartbeat
<1>3. CASE UnregisterNode(t)
  BY <1>3, CallOK DEF UnregisterNode
<1>4. CASE BindUser(t)
  BY <1>4, CallOK DEF BindUser
<1>5. CASE UnbindUser(t)
  BY <1>5, CallOK DEF UnbindUser
<1>6. CASE RefreshTokenTTL(t)
  BY <1>6, CallOK DEF RefreshTokenTTL
<1>7. CASE Boot(t)
  <2>1. [NoReq EXCEPT !.op = "boot"] \in Request
    BY DEF NoReq, Request
  <2>2. SharedTypeOK' /\ EnvTypeOK'
    BY <1>7 DEF Boot, TypeInv, TypeOK, SharedTypeOK, EnvTypeOK, redis, env
  <2>3. LocalTypeOK'
    BY <1>7, <2>1 DEF Boot, Go, TypeInv, TypeOK, LocalTypeOK, Labels
  <2>4. ASSUME NEW s \in Threads PROVE RequestOK(s)'
    BY <1>7 DEF Boot, Go, TypeInv, TypeOK, LocalTypeOK, RequestsOK, RequestOK,
       NoReq, InRegister, InUnregister, InBind, InUser
  <2>5. QED BY <2>2, <2>3, <2>4 DEF TypeInv, TypeOK, RequestsOK
<1>8. QED
  BY <1>1, <1>2, <1>3, <1>4, <1>5, <1>6, <1>7 DEF Requests

(* cleanup, registerNode and heartbeat.                                    *)
LEMMA TypeLease ==
  ASSUME TypeInv, NEW t \in Threads,
         \/ Scan(t) \/ CleanSkip(t) \/ CleanDelete(t) \/ CleanDone(t)
         \/ Check(t) \/ HbGet(t) \/ Store(t)
  PROVE  TypeInv'
<1> USE DEF TypeInv, TypeOK, At
<1>1. CASE Scan(t)
  <2>1. PICK o \in Outcomes("hGetAll") : Scan(t)!(o)
    BY <1>1 DEF Scan
  <2>2. faults' \in 0 .. MaxFaults
    BY <2>1, ChargeOK DEF SharedTypeOK
  <2>3. pc' \in [Threads -> Labels] /\ RequestsOK'
    BY <2>1, GoOK
  <2>4. HGetAll(o, nodes) \in [Names -> Record \cup {None}]
    BY DEF HGetAll, SharedTypeOK
  <2>5. QED
    BY <2>1, <2>2, <2>3, <2>4 DEF SharedTypeOK, EnvTypeOK, LocalTypeOK, redis, env
<1>2. CASE CleanSkip(t)
  <2>1. RequestsOK'
    BY <1>2 DEF CleanSkip, RequestsOK, RequestOK
  <2>2. QED
    BY <1>2, <2>1 DEF CleanSkip, SharedTypeOK, EnvTypeOK, LocalTypeOK, redis, env
<1>3. CASE CleanDelete(t)
  <2>1. PICK n \in Names, o \in Outcomes("hDel") : CleanDelete(t)!(n, o)
    BY <1>3 DEF CleanDelete
  <2>2. faults' \in 0 .. MaxFaults
    BY <2>1, ChargeOK DEF SharedTypeOK
  <2>3. nodes' \in [Names -> Record \cup {None}]
    BY <2>1 DEF HDel, SharedTypeOK
  <2>4. RequestsOK'
    BY <2>1 DEF RequestsOK, RequestOK
  <2>5. QED
    BY <2>1, <2>2, <2>3, <2>4 DEF SharedTypeOK, EnvTypeOK, LocalTypeOK, redis, env
<1>4. CASE CleanDone(t)
  <2>1. SharedTypeOK' /\ EnvTypeOK'
    BY <1>4 DEF CleanDone, SharedTypeOK, EnvTypeOK, redis
  <2>2. CASE req[t].op = "boot"
    BY <1>4, <2>1, <2>2, ReturnOK DEF CleanDone
  <2>3. CASE req[t].op # "boot"
    BY <1>4, <2>1, <2>3, GoOK DEF CleanDone, Continue, locals, LocalTypeOK
  <2>4. QED BY <2>2, <2>3
<1>5. CASE Check(t)
  <2>1. PICK o \in Outcomes("hGet") : Check(t)!(o)
    BY <1>5 DEF Check
  <2>2. SharedTypeOK' /\ EnvTypeOK'
    BY <2>1, ChargeOK DEF SharedTypeOK, EnvTypeOK, redis, env
  <2>3. CASE Return(t)
    BY <2>2, <2>3, ReturnOK
  <2>4. CASE ~Return(t)
    <3>1. [inst |-> req[t].inst, lease |-> NodeTtl, complete |-> req[t].complete]
            \in Record
      BY <2>1, RegistryAssumption
         DEF RequestsOK, RequestOK, InRegister, LocalTypeOK, Request, Record
    <3>2. pc' \in [Threads -> Labels] /\ RequestsOK'
      BY <2>1, <2>4, GoOK
    <3>3. QED BY <2>1, <2>2, <2>4, <3>1, <3>2 DEF LocalTypeOK
  <2>5. QED BY <2>3, <2>4
<1>6. CASE HbGet(t)
  <2>1. PICK o \in Outcomes("hGet") : HbGet(t)!(o)
    BY <1>6 DEF HbGet
  <2>2. SharedTypeOK' /\ EnvTypeOK'
    BY <2>1, ChargeOK DEF SharedTypeOK, EnvTypeOK, redis, env
  <2>3. CASE Return(t)
    BY <2>2, <2>3, ReturnOK
  <2>4. CASE ~Return(t)
    <3> DEFINE e == GetNode(o, req[t].name)
    <3>1. e # None /\ rec' = [rec EXCEPT ![t] = [e EXCEPT !.lease = NodeTtl]]
      BY <2>1, <2>4
    <3>2. Go(t, "store") /\ UNCHANGED <<req, snap, todo, old>>
      BY <2>1, <2>4
    <3>3. e \in Record
      BY <2>1, <3>1, GetNodeOK DEF RequestsOK, RequestOK
    <3>4. [e EXCEPT !.lease = NodeTtl] \in Record
      BY <3>3, RegistryAssumption DEF Record
    <3>5. pc' \in [Threads -> Labels] /\ RequestsOK'
      BY <3>2, GoOK
    <3>6. QED BY <2>2, <3>1, <3>2, <3>4, <3>5 DEF LocalTypeOK
  <2>5. QED BY <2>3, <2>4
<1>7. CASE Store(t)
  <2>1. PICK o \in Outcomes("hSet") : Store(t)!(o)
    BY <1>7 DEF Store
  <2>2. nodes' \in [Names -> Record \cup {None}]
    BY <2>1 DEF HSet, SharedTypeOK, LocalTypeOK
  <2>3. SharedTypeOK' /\ EnvTypeOK'
    BY <2>1, <2>2, ChargeOK DEF SharedTypeOK, EnvTypeOK, env
  <2>4. QED BY <2>1, <2>3, ReturnOK
<1>8. QED BY <1>1, <1>2, <1>3, <1>4, <1>5, <1>6, <1>7

(* unregisterNode.                                                         *)
LEMMA TypeUnregister ==
  ASSUME TypeInv, NEW t \in Threads,
         \/ UnGet(t) \/ UnMembers(t) \/ UnRoute(t) \/ UnRoutesDone(t)
         \/ UnSet(t) \/ UnNode(t)
  PROVE  TypeInv'
<1> USE DEF TypeInv, TypeOK, At
<1>1. CASE UnGet(t)
  <2>1. PICK o \in Outcomes("hGet") : UnGet(t)!(o)
    BY <1>1 DEF UnGet
  <2>2. SharedTypeOK' /\ EnvTypeOK'
    BY <2>1, ChargeOK DEF SharedTypeOK, EnvTypeOK, redis, env
  <2>3. CASE Return(t)
    BY <2>2, <2>3, ReturnOK
  <2>4. CASE Continue(t, "unMembers")
    BY <2>1, <2>2, <2>4, GoOK DEF Continue, locals, LocalTypeOK, InUnregister
  <2>5. QED BY <2>1, <2>3, <2>4
<1>2. CASE UnMembers(t)
  <2>1. PICK o \in Outcomes("sMembers") : UnMembers(t)!(o)
    BY <1>2 DEF UnMembers
  <2>2. SharedTypeOK' /\ EnvTypeOK'
    BY <2>1, ChargeOK DEF SharedTypeOK, EnvTypeOK, redis, env
  <2>3. pc' \in [Threads -> Labels] /\ RequestsOK'
    BY <2>1, GoOK DEF InUnregister
  <2>4. SMembers(o, members[req[t].name]) \subseteq Uids
    BY <2>1 DEF SMembers, SharedTypeOK, RequestsOK, RequestOK, InUnregister
  <2>5. QED BY <2>1, <2>2, <2>3, <2>4 DEF LocalTypeOK
<1>3. CASE UnRoute(t)
  <2>1. PICK u \in todo[t], o \in Outcomes("del") : UnRoute(t)!(u, o)
    BY <1>3 DEF UnRoute
  <2>2. routes' \in [Uids -> Route \cup {None}]
    BY <2>1 DEF Del, SharedTypeOK
  <2>3. SharedTypeOK' /\ EnvTypeOK'
    BY <2>1, <2>2, ChargeOK DEF SharedTypeOK, EnvTypeOK, env
  <2>4. LocalTypeOK' /\ RequestsOK'
    BY <2>1 DEF LocalTypeOK, RequestsOK, RequestOK
  <2>5. QED BY <2>3, <2>4
<1>4. CASE UnRoutesDone(t)
  BY <1>4, GoOK DEF UnRoutesDone, Continue, locals, redis, env, SharedTypeOK,
     EnvTypeOK, LocalTypeOK, InUnregister
<1>5. CASE UnSet(t)
  <2>1. PICK o \in Outcomes("del") : UnSet(t)!(o)
    BY <1>5 DEF UnSet
  <2>2. members' \in [Names -> SUBSET Uids]
    BY <2>1 DEF DelSet, SharedTypeOK
  <2>3. SharedTypeOK' /\ EnvTypeOK'
    BY <2>1, <2>2, ChargeOK DEF SharedTypeOK, EnvTypeOK, env
  <2>4. QED
    BY <2>1, <2>3, GoOK DEF Continue, locals, LocalTypeOK, InUnregister
<1>6. CASE UnNode(t)
  <2>1. PICK o \in Outcomes("hDel") : UnNode(t)!(o)
    BY <1>6 DEF UnNode
  <2>2. nodes' \in [Names -> Record \cup {None}]
    BY <2>1 DEF HDel, SharedTypeOK
  <2>3. SharedTypeOK' /\ EnvTypeOK'
    BY <2>1, <2>2, ChargeOK DEF SharedTypeOK, EnvTypeOK, env
  <2>4. QED BY <2>1, <2>3, ReturnOK
<1>7. QED BY <1>1, <1>2, <1>3, <1>4, <1>5, <1>6

(* bindUser.                                                               *)
LEMMA TypeBind ==
  ASSUME TypeInv, NEW t \in Threads,
         BdNode(t) \/ BdOld(t) \/ BdRem(t) \/ BdSet(t) \/ BdAdd(t)
  PROVE  TypeInv'
<1> USE DEF TypeInv, TypeOK, At
<1>1. CASE BdNode(t)
  <2>1. PICK o \in Outcomes("hGet") : BdNode(t)!(o)
    BY <1>1 DEF BdNode
  <2>2. SharedTypeOK' /\ EnvTypeOK'
    BY <2>1, ChargeOK DEF SharedTypeOK, EnvTypeOK, redis, env
  <2>3. CASE Return(t)
    BY <2>2, <2>3, ReturnOK
  <2>4. CASE Continue(t, "bdOld")
    BY <2>1, <2>2, <2>4, GoOK DEF Continue, locals, LocalTypeOK, InBind
  <2>5. QED BY <2>1, <2>3, <2>4
<1>2. CASE BdOld(t)
  <2>1. PICK o \in Outcomes("get") : BdOld(t)!(o)
    BY <1>2 DEF BdOld
  <2>2. SharedTypeOK' /\ EnvTypeOK'
    BY <2>1, ChargeOK DEF SharedTypeOK, EnvTypeOK, redis, env
  <2>3. pc' \in [Threads -> Labels] /\ RequestsOK'
    BY <2>1, GoOK DEF InBind
  <2>4. Get(o, routes, req[t].uid) \in Names \cup {None}
    BY <2>1 DEF Get, Route, SharedTypeOK, RequestsOK, RequestOK, InBind
  <2>5. QED BY <2>1, <2>2, <2>3, <2>4 DEF LocalTypeOK
<1>3. CASE BdRem(t)
  <2>1. PICK o \in Outcomes("sRem") : BdRem(t)!(o)
    BY <1>3 DEF BdRem
  <2>2. members' \in [Names -> SUBSET Uids]
    BY <2>1 DEF SRem, SharedTypeOK
  <2>3. SharedTypeOK' /\ EnvTypeOK'
    BY <2>1, <2>2, ChargeOK DEF SharedTypeOK, EnvTypeOK, env
  <2>4. QED BY <2>1, <2>3, GoOK DEF Continue, locals, LocalTypeOK, InBind
<1>4. CASE BdSet(t)
  <2>1. PICK o \in Outcomes("setEx") : BdSet(t)!(o)
    BY <1>4 DEF BdSet
  <2>2. [val |-> req[t].name, ttl |-> NodeTtl] \in Route
    BY <2>1, RegistryAssumption DEF Route, RequestsOK, RequestOK, InBind
  <2>3. routes' \in [Uids -> Route \cup {None}]
    BY <2>1, <2>2 DEF SetEx, SharedTypeOK
  <2>4. SharedTypeOK' /\ EnvTypeOK'
    BY <2>1, <2>3, ChargeOK DEF SharedTypeOK, EnvTypeOK, env
  <2>5. QED BY <2>1, <2>4, GoOK DEF Continue, locals, LocalTypeOK, InBind
<1>5. CASE BdAdd(t)
  <2>1. PICK o \in Outcomes("sAdd") : BdAdd(t)!(o)
    BY <1>5 DEF BdAdd
  <2>2. members' \in [Names -> SUBSET Uids]
    BY <2>1 DEF SAdd, SharedTypeOK, RequestsOK, RequestOK, InBind
  <2>3. SharedTypeOK' /\ EnvTypeOK'
    BY <2>1, <2>2, ChargeOK DEF SharedTypeOK, EnvTypeOK, env
  <2>4. QED BY <2>1, <2>3, ReturnOK
<1>6. QED BY <1>1, <1>2, <1>3, <1>4, <1>5

(* unbindUser and the refresh of a route.                                  *)
LEMMA TypeUser ==
  ASSUME TypeInv, NEW t \in Threads,
         UbGet(t) \/ UbRem(t) \/ UbDel(t) \/ RfRoute(t)
  PROVE  TypeInv'
<1> USE DEF TypeInv, TypeOK, At
<1>1. CASE UbGet(t)
  <2>1. PICK o \in Outcomes("get") : UbGet(t)!(o)
    BY <1>1 DEF UbGet
  <2>2. SharedTypeOK' /\ EnvTypeOK'
    BY <2>1, ChargeOK DEF SharedTypeOK, EnvTypeOK, redis, env
  <2>3. pc' \in [Threads -> Labels] /\ RequestsOK'
    BY <2>1, GoOK DEF InUser
  <2>4. Get(o, routes, req[t].uid) \in Names \cup {None}
    BY <2>1 DEF Get, Route, SharedTypeOK, RequestsOK, RequestOK, InUser
  <2>5. QED BY <2>1, <2>2, <2>3, <2>4 DEF LocalTypeOK
<1>2. CASE UbRem(t)
  <2>1. PICK o \in Outcomes("sRem") : UbRem(t)!(o)
    BY <1>2 DEF UbRem
  <2>2. members' \in [Names -> SUBSET Uids]
    BY <2>1 DEF SRem, SharedTypeOK
  <2>3. SharedTypeOK' /\ EnvTypeOK'
    BY <2>1, <2>2, ChargeOK DEF SharedTypeOK, EnvTypeOK, env
  <2>4. QED BY <2>1, <2>3, GoOK DEF Continue, locals, LocalTypeOK, InUser
<1>3. CASE UbDel(t)
  <2>1. PICK o \in Outcomes("del") : UbDel(t)!(o)
    BY <1>3 DEF UbDel
  <2>2. routes' \in [Uids -> Route \cup {None}]
    BY <2>1 DEF Del, SharedTypeOK
  <2>3. SharedTypeOK' /\ EnvTypeOK'
    BY <2>1, <2>2, ChargeOK DEF SharedTypeOK, EnvTypeOK, env
  <2>4. QED BY <2>1, <2>3, ReturnOK
<1>4. CASE RfRoute(t)
  <2>1. PICK o \in Outcomes("expire") : RfRoute(t)!(o)
    BY <1>4 DEF RfRoute
  <2> DEFINE r == routes[req[t].uid]
  <2>2. r # None => [val |-> r.val, ttl |-> NodeTtl] \in Route
    BY <2>1, RegistryAssumption
       DEF Route, SharedTypeOK, RequestsOK, RequestOK, InUser
  <2>3. routes' \in [Uids -> Route \cup {None}]
    BY <2>1, <2>2 DEF SetEx, SharedTypeOK
  <2>4. SharedTypeOK' /\ EnvTypeOK'
    BY <2>1, <2>3, ChargeOK DEF SharedTypeOK, EnvTypeOK, env
  <2>5. QED BY <2>1, <2>4, ReturnOK
<1>5. QED BY <1>1, <1>2, <1>3, <1>4

(* The clock, a crash and a node that stops.                               *)
LEMMA TypeEnvironment ==
  ASSUME TypeInv, Tick \/ Crash \/ NodeStops
  PROVE  TypeInv'
<1> USE DEF TypeInv, TypeOK
<1>1. CASE Tick
  <2>1. SharedTypeOK' /\ EnvTypeOK'
    BY <1>1, AgeOK DEF Tick, SharedTypeOK, EnvTypeOK, env
  <2>2. LocalTypeOK' /\ RequestsOK'
    BY <1>1, AgeOK DEF Tick, LocalTypeOK, RequestsOK, RequestOK
  <2>3. QED BY <2>1, <2>2
<1>2. CASE Crash
  <2>1. NoReq \in Request /\ EmptySnap \in [Names -> Record \cup {None}]
    BY DEF NoReq, Request, EmptySnap
  <2>2. LocalTypeOK'
    BY <1>2, <2>1 DEF Crash, LocalTypeOK, Labels
  <2>3. RequestsOK'
    BY <1>2 DEF Crash, RequestsOK, RequestOK, InRegister, InUnregister, InBind,
       InUser
  <2>4. SharedTypeOK'
    BY <1>2 DEF Crash, SharedTypeOK, redis
  <2>5. crashes' \in 0 .. MaxCrashes
    BY <1>2, RegistryAssumption DEF Crash, EnvTypeOK
  <2>6. up' \in BOOLEAN /\ stopped' \subseteq Names
    BY <1>2 DEF Crash, EnvTypeOK
  <2>7. QED BY <2>2, <2>3, <2>4, <2>5, <2>6 DEF EnvTypeOK
<1>3. CASE NodeStops
  BY <1>3, RegistryAssumption DEF NodeStops, SharedTypeOK, EnvTypeOK, LocalTypeOK,
     RequestsOK, RequestOK, redis, locals
<1>4. QED BY <1>1, <1>2, <1>3

LEMMA TypeNext == TypeInv /\ [Next]_vars => TypeInv'
<1> SUFFICES ASSUME TypeInv, [Next]_vars PROVE TypeInv'
  OBVIOUS
<1>1. CASE UNCHANGED vars
  BY <1>1 DEF vars, redis, env, locals, TypeInv, TypeOK, SharedTypeOK, EnvTypeOK,
     LocalTypeOK, RequestsOK, RequestOK
<1>2. CASE \E t \in Threads : Boot(t) \/ Requests(t) \/ Steps(t)
  BY <1>2, TypeRequests, TypeLease, TypeUnregister, TypeBind, TypeUser DEF Steps
<1>3. CASE Tick \/ Crash \/ NodeStops
  BY <1>3, TypeEnvironment
<1>4. QED BY <1>1, <1>2, <1>3 DEF Next

(* Type correctness of the registry, and of every request in flight.       *)
THEOREM RegistryTypeCorrect == Spec => []TypeOK
<1>1. Spec => []TypeInv
  BY TypeInit, TypeNext, PTL DEF Spec
<1>2. TypeInv => TypeOK
  BY DEF TypeInv
<1>3. QED BY <1>1, <1>2, PTL

-----------------------------------------------------------------------------
(* The route index.  It is proved for a server that does not crash, whose  *)
(* writes to routes and sets and whose SMEMBERS are carried out, and where *)
(* unregisterNode runs alone: with other threads its SMEMBERS misses a     *)
(* bind in flight.                                                          *)
RoutesSafe == /\ MaxCrashes = 0
              /\ Fallible \cap {"setEx", "sAdd", "del", "sMembers"} = {}
              /\ "unregister" \notin Ops \/ \A s, t \in Threads : s = t

(* The strengthening: unregisterNode never forgets a route on its way.     *)
UnregisterClears ==
  \A t \in Threads :
    /\ pc[t] = "unRoutes" => RoutedTo(req[t].name) \subseteq todo[t]
    /\ pc[t] \in {"unSet", "unNode"} => RoutedTo(req[t].name) = {}

RouteInv == TypeInv /\ RouteIndexed /\ UnregisterClears

(* A command outside Fallible is executed and answered.                    *)
LEMMA SureOutcome ==
  ASSUME NEW cmd, cmd \notin Fallible, NEW o \in Outcomes(cmd)
  PROVE  o = "ok"
BY DEF Outcomes

(* A method outside unregisterNode's last phases has nothing to keep for   *)
(* it: if one is unregistering, no other thread takes a step.              *)
LEMMA ClearsElsewhere ==
  ASSUME RoutesSafe, TypeInv', NEW t \in Threads,
         pc'[t] \notin {"unRoutes", "unSet", "unNode"}
  PROVE  UnregisterClears'
<1>1. ASSUME NEW s \in Threads, pc'[s] \in {"unRoutes", "unSet", "unNode"}
      PROVE  FALSE
  <2>1. "unregister" \in Ops
    BY <1>1 DEF TypeInv, RequestsOK, RequestOK, InUnregister
  <2>2. s = t
    BY <2>1 DEF RoutesSafe
  <2>3. QED BY <1>1, <2>2
<1>2. QED BY <1>1 DEF UnregisterClears

(* A step of a thread that minds no route, and touches none, keeps all     *)
(* routes indexed.                                                         *)
LEMMA IndexElsewhere ==
  ASSUME RouteIndexed, NEW t \in Threads,
         pc[t] \notin {"bdSet", "bdAdd", "ubDel"},
         UNCHANGED <<routes, members>>,
         \A s \in Threads \ {t} : pc'[s] = pc[s] /\ req'[s] = req[s]
  PROVE  RouteIndexed'
<1> SUFFICES ASSUME NEW u \in Uids, routes[u] # None
             PROVE  \/ u \in members[routes[u].val]
                    \/ \E s \in Threads : Minding(s, u)'
  BY DEF RouteIndexed
<1>1. CASE u \in members[routes[u].val]
  BY <1>1
<1>2. CASE \E s \in Threads : Minding(s, u)
  <2>1. PICK s \in Threads : Minding(s, u)
    BY <1>2
  <2>2. s # t
    BY <2>1 DEF Minding, At
  <2>3. Minding(s, u)'
    BY <2>1, <2>2 DEF Minding, At
  <2>4. QED BY <2>3
<1>3. QED BY <1>1, <1>2 DEF RouteIndexed

(* While a thread unregisters, it is the only one, so every live route is  *)
(* indexed outright.                                                       *)
LEMMA IndexAlone ==
  ASSUME RoutesSafe, RouteInv, NEW t \in Threads, pc[t] \in InUnregister
  PROVE  /\ \A s \in Threads : s = t
         /\ \A u \in Uids : routes[u] # None => u \in members[routes[u].val]
<1>1. \A s \in Threads : s = t
  BY DEF RoutesSafe, RouteInv, TypeInv, RequestsOK, RequestOK
<1>2. ASSUME NEW u \in Uids, NEW s \in Threads PROVE ~Minding(s, u)
  BY <1>1 DEF Minding, At, InUnregister
<1>3. QED BY <1>1, <1>2 DEF RouteInv, RouteIndexed

LEMMA RouteQuiet ==
  ASSUME RoutesSafe, RouteInv, TypeInv', NEW t \in Threads,
         \/ Requests(t) \/ Boot(t)
         \/ Scan(t) \/ CleanSkip(t) \/ CleanDelete(t) \/ CleanDone(t)
         \/ Check(t) \/ HbGet(t) \/ Store(t)
         \/ UnGet(t) \/ UnNode(t) \/ BdNode(t) \/ BdOld(t) \/ UbGet(t)
  PROVE  RouteInv'
<1> DEFINE Quiet ==
      /\ pc[t] \notin {"bdSet", "bdAdd", "ubDel"}
      /\ pc'[t] \notin {"unRoutes", "unSet", "unNode"}
      /\ UNCHANGED <<routes, members>>
      /\ \A s \in Threads \ {t} : pc'[s] = pc[s] /\ req'[s] = req[s]
<1> USE DEF RouteInv, TypeInv, TypeOK, LocalTypeOK, Go, At, redis, locals,
            Return, Continue
<1>1. CASE Requests(t)
  <2>1. Idle(t) /\ UNCHANGED <<routes, members>>
    BY <1>1 DEF Requests, RegisterNode, Heartbeat, UnregisterNode, BindUser,
       UnbindUser, RefreshTokenTTL, Call
  <2>2. \A s \in Threads \ {t} : pc'[s] = pc[s] /\ req'[s] = req[s]
    BY <1>1 DEF Requests, RegisterNode, Heartbeat, UnregisterNode, BindUser,
       UnbindUser, RefreshTokenTTL, Call
  <2>3. pc'[t] \in {"scan", "hbGet", "unGet", "bdNode", "ubGet", "rfRoute"}
    BY <1>1 DEF Requests, RegisterNode, Heartbeat, UnregisterNode, BindUser,
       UnbindUser, RefreshTokenTTL, Call
  <2>4. QED BY <2>1, <2>2, <2>3, IndexElsewhere, ClearsElsewhere DEF Idle
<1>2. CASE Boot(t)
  <2>1. Quiet
    BY <1>2 DEF Boot, AllIdle, Idle
  <2>2. QED BY <2>1, IndexElsewhere, ClearsElsewhere
<1>3. CASE Scan(t) \/ CleanSkip(t) \/ CleanDelete(t)
  <2>1. Quiet
    BY <1>3 DEF Scan, CleanSkip, CleanDelete
  <2>2. QED BY <2>1, IndexElsewhere, ClearsElsewhere
<1>4. CASE CleanDone(t)
  <2>1. Quiet
    BY <1>4 DEF CleanDone
  <2>2. QED BY <2>1, IndexElsewhere, ClearsElsewhere
<1>5. CASE Check(t) \/ HbGet(t) \/ Store(t)
  <2>1. At(t, "check") \/ At(t, "hbGet") \/ At(t, "store")
    BY <1>5 DEF Check, HbGet, Store
  <2>2. (Go(t, "store") /\ req' = req) \/ Return(t)
    BY <1>5 DEF Check, HbGet, Store
  <2>3. UNCHANGED <<routes, members>>
    BY <1>5 DEF Check, HbGet, Store
  <2>4. Quiet
    BY <2>1, <2>2, <2>3
  <2>5. QED BY <2>4, IndexElsewhere, ClearsElsewhere
<1>6. CASE UnGet(t) \/ UnNode(t)
  <2>1. Quiet
    BY <1>6 DEF UnGet, UnNode
  <2>2. QED BY <2>1, IndexElsewhere, ClearsElsewhere
<1>7. CASE BdNode(t) \/ BdOld(t) \/ UbGet(t)
  <2>1. Quiet
    BY <1>7 DEF BdNode, BdOld, UbGet
  <2>2. QED BY <2>1, IndexElsewhere, ClearsElsewhere
<1>8. QED BY <1>1, <1>2, <1>3, <1>4, <1>5, <1>6, <1>7

(* unregisterNode, alone: what SMEMBERS returned covers every route to the *)
(* node, the loop deletes them all, and only then the set goes.            *)
LEMMA RouteUnregister ==
  ASSUME RoutesSafe, RouteInv, TypeInv', NEW t \in Threads,
         UnMembers(t) \/ UnRoute(t) \/ UnRoutesDone(t) \/ UnSet(t)
  PROVE  RouteInv'
<1> DEFINE n == req[t].name
<1> USE DEF RouteInv, TypeInv, TypeOK, LocalTypeOK, SharedTypeOK, At
<1>1. pc[t] \in InUnregister
  BY DEF UnMembers, UnRoute, UnRoutesDone, UnSet, InUnregister
<1>2. /\ \A s \in Threads : s = t
      /\ \A u \in Uids : routes[u] # None => u \in members[routes[u].val]
  BY <1>1, IndexAlone
<1>3. n \in Names
  BY <1>1 DEF RequestsOK, RequestOK
<1>4. req' = req
  BY DEF UnMembers, UnRoute, UnRoutesDone, UnSet, Continue, locals
<1>5. CASE UnMembers(t)
  <2>1. PICK o \in Outcomes("sMembers") : UnMembers(t)!(o)
    BY <1>5 DEF UnMembers
  <2>2. todo'[t] = members[n] /\ pc'[t] = "unRoutes"
    BY <2>1, SureOutcome DEF RoutesSafe, SMembers, Go
  <2>3. UNCHANGED <<routes, members>>
    BY <2>1 DEF redis
  <2>4. RouteIndexed'
    BY <1>2, <2>3 DEF RouteIndexed
  <2>5. UnregisterClears'
    BY <1>2, <1>4, <2>2, <2>3 DEF UnregisterClears, RoutedTo
  <2>6. QED BY <2>4, <2>5
<1>6. CASE UnRoute(t)
  <2>1. PICK u \in todo[t], o \in Outcomes("del") : UnRoute(t)!(u, o)
    BY <1>6 DEF UnRoute
  <2>2. routes' = [routes EXCEPT ![u] = None]
    BY <2>1, SureOutcome DEF RoutesSafe, Del, Executed
  <2>3. todo'[t] = todo[t] \ {u} /\ pc'[t] = "unRoutes" /\ members' = members
    BY <2>1
  <2>4. RouteIndexed'
    BY <1>2, <2>2, <2>3 DEF RouteIndexed
  <2>5. UnregisterClears'
    BY <1>2, <1>4, <2>1, <2>2, <2>3 DEF UnregisterClears, RoutedTo
  <2>6. QED BY <2>4, <2>5
<1>7. CASE UnRoutesDone(t)
  <2>1. /\ pc[t] = "unRoutes" /\ todo[t] = {} /\ pc'[t] = "unSet"
        /\ UNCHANGED <<routes, members>>
    BY <1>7 DEF UnRoutesDone, Continue, Go, redis
  <2>2. RouteIndexed'
    BY <1>2, <2>1 DEF RouteIndexed
  <2>3. UnregisterClears'
    BY <1>2, <1>4, <2>1 DEF UnregisterClears, RoutedTo
  <2>4. QED BY <2>2, <2>3
<1>8. CASE UnSet(t)
  <2>1. PICK o \in Outcomes("del") : UnSet(t)!(o)
    BY <1>8 DEF UnSet
  <2>2. members' = [members EXCEPT ![n] = {}] /\ routes' = routes
    BY <2>1, SureOutcome DEF RoutesSafe, DelSet, Executed
  <2>3. pc[t] = "unSet" /\ pc'[t] = "unNode"
    BY <2>1 DEF Continue, Go
  <2>4. RoutedTo(n) = {}
    BY <2>3 DEF UnregisterClears
  <2>5. ASSUME NEW u \in Uids, routes[u] # None
        PROVE  u \in members'[routes[u].val]
    BY <1>2, <2>2, <2>4, <2>5 DEF RoutedTo, Route
  <2>6. RouteIndexed'
    BY <2>2, <2>5 DEF RouteIndexed
  <2>7. UnregisterClears'
    BY <1>2, <1>4, <2>2, <2>3, <2>4 DEF UnregisterClears, RoutedTo
  <2>8. QED BY <2>6, <2>7
<1>9. QED BY <1>5, <1>6, <1>7, <1>8

(* bindUser and unbindUser: the thread that unhooks a route from its set   *)
(* minds it from that command to the one that replaces or deletes it, and  *)
(* the thread that writes a route minds it until it is in its set.         *)
LEMMA RouteBind ==
  ASSUME RoutesSafe, RouteInv, TypeInv', NEW t \in Threads,
         \/ BdRem(t) \/ BdSet(t) \/ BdAdd(t)
         \/ UbRem(t) \/ UbDel(t) \/ RfRoute(t)
  PROVE  RouteInv'
<1> DEFINE v == req[t].uid
<1> USE DEF RouteInv, TypeInv, TypeOK, LocalTypeOK, SharedTypeOK, At, Go, Continue
<1>1. v \in Uids
  BY DEF BdRem, BdSet, BdAdd, UbRem, UbDel, RfRoute, RequestsOK, RequestOK,
     InBind, InUser
<1>2. \A s \in Threads \ {t} : pc'[s] = pc[s] /\ req'[s] = req[s]
  BY DEF BdRem, BdSet, BdAdd, UbRem, UbDel, RfRoute, Return, locals
<1>3. UnregisterClears'
  <2>1. pc'[t] \in {"bdSet", "bdAdd", "ubDel", "idle"}
    BY DEF BdRem, BdSet, BdAdd, UbRem, UbDel, RfRoute, Return
  <2>2. QED BY <2>1, ClearsElsewhere
<1>4. CASE BdRem(t) \/ UbRem(t)
  <2>1. PICK o : members' = SRem(o, members, old[t], v)
    BY <1>4 DEF BdRem, UbRem
  <2>2. UNCHANGED <<routes, req>> /\ pc'[t] \in {"bdSet", "ubDel"}
        /\ pc[t] \in {"bdRem", "ubRem"}
    BY <1>4 DEF BdRem, UbRem, locals
  <2>3. ASSUME NEW u \in Uids, routes[u] # None
        PROVE  u \in members'[routes[u].val] \/ \E s \in Threads : Minding(s, u)'
    <3>1. CASE u = v
      BY <2>2, <3>1 DEF Minding
    <3>2. CASE u # v /\ u \in members[routes[u].val]
      BY <2>1, <2>3, <3>2 DEF SRem, Route
    <3>3. CASE \E s \in Threads : Minding(s, u)
      <4>1. PICK s \in Threads : Minding(s, u)
        BY <3>3
      <4>2. Minding(s, u)'
        BY <1>2, <2>2, <4>1 DEF Minding
      <4>3. QED BY <4>2
    <3>4. QED BY <2>3, <3>1, <3>2, <3>3 DEF RouteIndexed
  <2>4. QED BY <1>3, <2>2, <2>3 DEF RouteIndexed
<1>5. CASE BdSet(t)
  <2>1. PICK o \in Outcomes("setEx") : BdSet(t)!(o)
    BY <1>5 DEF BdSet
  <2> DEFINE k == [val |-> req[t].name, ttl |-> NodeTtl]
  <2>2. routes' = [routes EXCEPT ![v] = k] /\ UNCHANGED <<members, req>>
    BY <2>1, SureOutcome DEF RoutesSafe, SetEx, Executed, locals
  <2>3. pc[t] = "bdSet" /\ pc'[t] = "bdAdd"
    BY <2>1
  <2>4. ASSUME NEW u \in Uids, routes'[u] # None
        PROVE  u \in members'[routes'[u].val] \/ \E s \in Threads : Minding(s, u)'
    <3>1. CASE u = v
      BY <1>1, <2>2, <2>3, <3>1 DEF Minding
    <3>2. CASE u # v /\ u \in members[routes[u].val]
      BY <2>2, <3>2
    <3>3. CASE u # v /\ \E s \in Threads : Minding(s, u)
      <4>1. PICK s \in Threads : Minding(s, u)
        BY <3>3
      <4>2. s # t
        BY <2>3, <3>3, <4>1 DEF Minding
      <4>3. Minding(s, u)'
        BY <1>2, <2>2, <3>3, <4>1, <4>2 DEF Minding
      <4>4. QED BY <4>3
    <3>4. QED BY <2>2, <2>4, <3>1, <3>2, <3>3 DEF RouteIndexed
  <2>5. QED BY <1>3, <2>4 DEF RouteIndexed
<1>6. CASE BdAdd(t)
  <2>1. PICK o \in Outcomes("sAdd") : BdAdd(t)!(o)
    BY <1>6 DEF BdAdd
  <2>2. members' = [members EXCEPT ![req[t].name] = @ \cup {v}]
    BY <2>1, SureOutcome DEF RoutesSafe, SAdd, Executed
  <2>3. routes' = routes /\ pc[t] = "bdAdd" /\ req[t].name \in Names
    BY <2>1 DEF RequestsOK, RequestOK, InBind
  <2>4. ASSUME NEW u \in Uids, routes[u] # None
        PROVE  u \in members'[routes[u].val] \/ \E s \in Threads : Minding(s, u)'
    <3>1. CASE u \in members[routes[u].val]
      BY <2>2, <2>4, <3>1 DEF Route
    <3>2. CASE Minding(t, u)
      BY <2>2, <2>3, <3>2 DEF Minding
    <3>3. CASE \E s \in Threads \ {t} : Minding(s, u)
      <4>1. PICK s \in Threads \ {t} : Minding(s, u)
        BY <3>3
      <4>2. Minding(s, u)'
        BY <1>2, <2>3, <4>1 DEF Minding
      <4>3. QED BY <4>2
    <3>4. QED BY <2>4, <3>1, <3>2, <3>3 DEF RouteIndexed
  <2>5. QED BY <1>3, <2>3, <2>4 DEF RouteIndexed
<1>7. CASE UbDel(t)
  <2>1. PICK o \in Outcomes("del") : UbDel(t)!(o)
    BY <1>7 DEF UbDel
  <2>2. routes' = [routes EXCEPT ![v] = None] /\ members' = members
        /\ pc[t] = "ubDel"
    BY <2>1, SureOutcome DEF RoutesSafe, Del, Executed
  <2>3. ASSUME NEW u \in Uids, routes'[u] # None
        PROVE  u \in members'[routes'[u].val] \/ \E s \in Threads : Minding(s, u)'
    <3>1. u # v /\ routes'[u] = routes[u]
      BY <1>1, <2>2, <2>3
    <3>2. CASE u \in members[routes[u].val]
      BY <2>2, <3>1, <3>2
    <3>3. CASE \E s \in Threads : Minding(s, u)
      <4>1. PICK s \in Threads : Minding(s, u)
        BY <3>3
      <4>2. s # t
        BY <2>2, <3>1, <4>1 DEF Minding
      <4>3. Minding(s, u)'
        BY <1>2, <3>1, <4>1, <4>2 DEF Minding
      <4>4. QED BY <4>3
    <3>4. QED BY <2>3, <3>1, <3>2, <3>3 DEF RouteIndexed
  <2>4. QED BY <1>3, <2>3 DEF RouteIndexed
<1>8. CASE RfRoute(t)
  <2>1. PICK o \in Outcomes("expire") : RfRoute(t)!(o)
    BY <1>8 DEF RfRoute
  <2>2. members' = members /\ pc[t] = "rfRoute"
    BY <2>1
  <2>3. ASSUME NEW u \in Uids, routes'[u] # None
        PROVE  routes[u] # None /\ routes'[u].val = routes[u].val
    BY <1>1, <2>1, <2>3 DEF SetEx
  <2>4. ASSUME NEW u \in Uids, routes'[u] # None
        PROVE  u \in members'[routes'[u].val] \/ \E s \in Threads : Minding(s, u)'
    <3>1. CASE u \in members[routes[u].val]
      BY <2>2, <2>3, <2>4, <3>1
    <3>2. CASE \E s \in Threads : Minding(s, u)
      <4>1. PICK s \in Threads : Minding(s, u)
        BY <3>2
      <4>2. s # t
        BY <2>2, <4>1 DEF Minding
      <4>3. Minding(s, u)'
        BY <1>2, <2>3, <2>4, <4>1, <4>2 DEF Minding
      <4>4. QED BY <4>3
    <3>3. QED BY <2>3, <2>4, <3>1, <3>2 DEF RouteIndexed
  <2>5. QED BY <1>3, <2>4 DEF RouteIndexed
<1>9. QED BY <1>4, <1>5, <1>6, <1>7, <1>8

(* Time only takes routes away.                                            *)
LEMMA RouteEnvironment ==
  ASSUME RoutesSafe, RouteInv, TypeInv', Tick \/ Crash \/ NodeStops
  PROVE  RouteInv'
<1> USE DEF RouteInv, TypeInv, TypeOK
<1>1. ~Crash
  BY RegistryAssumption DEF Crash, RoutesSafe, EnvTypeOK
<1>2. CASE Tick
  <2>1. UNCHANGED <<members, pc, req, todo>>
    BY <1>2 DEF Tick
  <2>2. ASSUME NEW u \in Uids, routes'[u] # None
        PROVE  routes[u] # None /\ routes'[u].val = routes[u].val
    BY <1>2, <2>2 DEF Tick, AgeKey, SharedTypeOK, Route
  <2>3. RouteIndexed'
    BY <2>1, <2>2 DEF RouteIndexed, Minding, At
  <2>4. UnregisterClears'
    BY <2>1, <2>2 DEF UnregisterClears, RoutedTo
  <2>5. QED BY <2>3, <2>4
<1>3. CASE NodeStops
  BY <1>3 DEF NodeStops, redis, locals, RouteIndexed, Minding, At,
     UnregisterClears, RoutedTo
<1>4. QED BY <1>1, <1>2, <1>3

(* Before the first call, with every route indexed, there is nothing to    *)
(* keep.                                                                   *)
LEMMA RouteFresh ==
  ASSUME Fresh, TypeInv, \A u \in Uids : routes[u] # None => u \in members[routes[u].val]
  PROVE  RouteInv
BY DEF Fresh, RouteInv, RouteIndexed, UnregisterClears

LEMMA RouteInit == Init => RouteInv
BY TypeInit, RouteFresh DEF Init

LEMMA RouteNext == RoutesSafe /\ RouteInv /\ [Next]_vars => RouteInv'
<1> SUFFICES ASSUME RoutesSafe, RouteInv, [Next]_vars PROVE RouteInv'
  OBVIOUS
<1>1. TypeInv'
  BY TypeNext DEF RouteInv
<1>2. CASE UNCHANGED vars
  BY <1>1, <1>2 DEF RouteInv, vars, redis, locals, RouteIndexed, Minding, At,
     UnregisterClears, RoutedTo
<1>3. CASE \E t \in Threads : Boot(t) \/ Requests(t) \/ Steps(t)
  BY <1>1, <1>3, RouteQuiet, RouteUnregister, RouteBind DEF Steps
<1>4. CASE Tick \/ Crash \/ NodeStops
  BY <1>1, <1>4, RouteEnvironment
<1>5. QED BY <1>2, <1>3, <1>4 DEF Next

(* Whatever the order of the binds, unbinds and refreshes of any number of *)
(* threads, a live route is in its node's set or in the hands of a method  *)
(* that has not returned: bindUser, unbindUser, refreshTokenTTL.           *)
THEOREM RoutesStayIndexed == RoutesSafe /\ Spec => []RouteIndexed
<1> SUFFICES ASSUME RoutesSafe PROVE Spec => []RouteIndexed
  OBVIOUS
<1>1. RouteInv /\ [Next]_vars => RouteInv'
  BY RouteNext
<1>2. RouteInv => RouteIndexed
  BY DEF RouteInv
<1>3. QED BY <1>1, <1>2, RouteInit, PTL DEF Spec

(* unregisterNode, when nothing runs beside it, deletes the record only    *)
(* after every route to the node is gone.                                  *)
THEOREM UnregisterIsComplete == RoutesSafe /\ Spec => []UnregisterLeavesNoRoute
<1> SUFFICES ASSUME RoutesSafe PROVE Spec => []UnregisterLeavesNoRoute
  OBVIOUS
<1>1. RouteInv /\ [Next]_vars => RouteInv'
  BY RouteNext
<1>2. RouteInv => UnregisterLeavesNoRoute
  BY DEF RouteInv, UnregisterClears, UnregisterLeavesNoRoute, At
<1>3. QED BY <1>1, <1>2, RouteInit, PTL DEF Spec

-----------------------------------------------------------------------------
(* The contract of Routing.  With one method at a time the commands of     *)
(* bindUser, unbindUser and unregisterNode act as one step.  It is proved  *)
(* for a server that does not crash and whose commands on routes and sets  *)
(* are carried out and answered; those on node records may fail.           *)
OneAtATime ==
  /\ \A s, t \in Threads : s = t
  /\ MaxCrashes = 0
  /\ Fallible \cap {"get", "setEx", "sAdd", "sRem", "del", "sMembers"} = {}

(* What the method in flight knows between its commands: unregisterNode    *)
(* alone has a list, the old node that is left is another one and, once    *)
(* left, does not count the user, and the route bindUser has written is    *)
(* there until it ends by itself.                                          *)
HeldBy(t) ==
  /\ pc[t] # "unRoutes" => todo[t] = {}
  /\ pc[t] = "bdRem" => old[t] \in Names \ {req[t].name}
  /\ pc[t] = "ubRem" => old[t] \in Names
  /\ pc[t] \in {"bdSet", "bdAdd"} /\ old[t] \notin {None, req[t].name}
       => req[t].uid \notin members[old[t]]
  /\ pc[t] = "ubDel" /\ old[t] # None => req[t].uid \notin members[old[t]]
  /\ pc[t] = "bdAdd" => IF routes[req[t].uid] = None THEN ~RefreshInTime
                        ELSE routes[req[t].uid].val = req[t].name
Held == \A t \in Threads : HeldBy(t)

SerialInv == TypeInv /\ Held

(* What the contract sees of a single thread at label p with request q,    *)
(* list d and old node o, over the routes r and the sets m.                *)
RouteBy(p, q, d, r) ==
  [u \in Uids |->
     IF u \in d \/ (q.uid = u /\ p \in {"ubRem", "ubDel"}) THEN None
     ELSE IF q.uid = u /\ p \in {"bdRem", "bdSet", "bdAdd"} THEN q.name
     ELSE IF r[u] = None THEN None ELSE r[u].val]
UsersBy(p, q, o, m) ==
  [n \in Names |->
     IF q.name = n /\ p \in {"unRoutes", "unSet"} THEN {}
     ELSE (m[n] \ {u \in Uids : /\ q.uid = u /\ o = n
                                /\ p \in {"bdRem", "bdSet", "bdAdd", "ubRem", "ubDel"}})
          \cup {u \in Uids : /\ q.uid = u /\ q.name = n
                             /\ p \in {"bdRem", "bdSet", "bdAdd"}}]

LEMMA SeenBy ==
  ASSUME NEW t \in Threads, \A s \in Threads : s = t
  PROVE  /\ RouteSeen = RouteBy(pc[t], req[t], todo[t], routes)
         /\ UsersSeen = UsersBy(pc[t], req[t], old[t], members)
<1>1. ASSUME NEW u \in Uids, Binding(u) # {}
      PROVE  (CHOOSE s \in Binding(u) : TRUE) = t
  BY <1>1 DEF Binding
<1>2. \A u \in Uids : Binding(u) # {}
                        <=> (req[t].uid = u /\ pc[t] \in {"bdRem", "bdSet", "bdAdd"})
  BY DEF Binding
<1>3. \A u \in Uids : (\E s \in Threads : u \in todo[s] \/ s \in Unbinding(u))
        <=> (u \in todo[t] \/ (req[t].uid = u /\ pc[t] \in {"ubRem", "ubDel"}))
  BY DEF Unbinding
<1>4. RouteSeen = RouteBy(pc[t], req[t], todo[t], routes)
  <2>1. ASSUME NEW u \in Uids, Binding(u) # {}
        PROVE  req[CHOOSE s \in Binding(u) : TRUE].name = req[t].name
    BY <1>1, <2>1
  <2>2. QED BY <1>2, <1>3, <2>1, Zenon DEF RouteSeen, RouteBy
<1>5. \A n \in Names : Leaving(n) # {}
                         <=> (req[t].name = n /\ pc[t] \in {"unRoutes", "unSet"})
  BY DEF Leaving
<1>6. ASSUME NEW n \in Names
      PROVE  {u \in Uids : \E s \in Binding(u) \cup Unbinding(u) : old[s] = n}
               = {u \in Uids : /\ req[t].uid = u /\ old[t] = n
                               /\ pc[t] \in {"bdRem", "bdSet", "bdAdd", "ubRem", "ubDel"}}
  BY DEF Binding, Unbinding
<1>7. ASSUME NEW n \in Names
      PROVE  {u \in Uids : \E s \in Binding(u) : req[s].name = n}
               = {u \in Uids : /\ req[t].uid = u /\ req[t].name = n
                               /\ pc[t] \in {"bdRem", "bdSet", "bdAdd"}}
  BY DEF Binding
<1>8. UsersSeen = UsersBy(pc[t], req[t], old[t], members)
  BY <1>5, <1>6, <1>7 DEF UsersSeen, UsersBy
<1>9. QED BY <1>4, <1>8

(* The same of the next state.                                             *)
LEMMA SeenNextBy ==
  ASSUME NEW t \in Threads, \A s \in Threads : s = t
  PROVE  /\ RouteSeen' = RouteBy(pc'[t], req'[t], todo'[t], routes')
         /\ UsersSeen' = UsersBy(pc'[t], req'[t], old'[t], members')
<1>1. ASSUME NEW u \in Uids, Binding(u)' # {}
      PROVE  (CHOOSE s \in Binding(u)' : TRUE) = t
  BY <1>1 DEF Binding
<1>2. \A u \in Uids : Binding(u)' # {}
                        <=> (req'[t].uid = u /\ pc'[t] \in {"bdRem", "bdSet", "bdAdd"})
  BY DEF Binding
<1>3. \A u \in Uids : (\E s \in Threads : u \in todo'[s] \/ s \in Unbinding(u)')
        <=> (u \in todo'[t] \/ (req'[t].uid = u /\ pc'[t] \in {"ubRem", "ubDel"}))
  BY DEF Unbinding
<1>4. RouteSeen' = RouteBy(pc'[t], req'[t], todo'[t], routes')
  <2>1. ASSUME NEW u \in Uids, Binding(u)' # {}
        PROVE  req'[CHOOSE s \in Binding(u)' : TRUE].name = req'[t].name
    BY <1>1, <2>1
  <2>2. QED BY <1>2, <1>3, <2>1, Zenon DEF RouteSeen, RouteBy
<1>5. \A n \in Names : Leaving(n)' # {}
                         <=> (req'[t].name = n /\ pc'[t] \in {"unRoutes", "unSet"})
  BY DEF Leaving
<1>6. ASSUME NEW n \in Names
      PROVE  {u \in Uids : \E s \in Binding(u)' \cup Unbinding(u)' : old'[s] = n}
               = {u \in Uids : /\ req'[t].uid = u /\ old'[t] = n
                               /\ pc'[t] \in {"bdRem", "bdSet", "bdAdd", "ubRem", "ubDel"}}
  BY DEF Binding, Unbinding
<1>7. ASSUME NEW n \in Names
      PROVE  {u \in Uids : \E s \in Binding(u)' : req'[s].name = n}
               = {u \in Uids : /\ req'[t].uid = u /\ req'[t].name = n
                               /\ pc'[t] \in {"bdRem", "bdSet", "bdAdd"}}
  BY DEF Binding
<1>8. UsersSeen' = UsersBy(pc'[t], req'[t], old'[t], members')
  BY <1>5, <1>6, <1>7 DEF UsersSeen, UsersBy
<1>9. QED BY <1>4, <1>8

(* Steps outside the middle of a method that moves users: the contract     *)
(* sees Redis as it is, and nothing happens to it.                         *)
Moving == {"unRoutes", "unSet", "bdRem", "bdSet", "bdAdd", "ubRem", "ubDel"}

LEMMA SerialQuiet ==
  ASSUME OneAtATime, SerialInv, TypeInv', NEW t \in Threads,
         \/ Requests(t) \/ Boot(t)
         \/ Scan(t) \/ CleanSkip(t) \/ CleanDelete(t) \/ CleanDone(t)
         \/ Check(t) \/ HbGet(t) \/ Store(t)
         \/ UnGet(t) \/ UnNode(t) \/ BdNode(t) \/ RfRoute(t)
  PROVE  Held' /\ UNCHANGED <<RouteSeen, UsersSeen>>
<1> USE DEF SerialInv, TypeInv, TypeOK, LocalTypeOK, SharedTypeOK, Go, At, redis,
            locals, Return, Continue
<1> DEFINE Quiet ==
      /\ pc[t] \notin Moving /\ pc'[t] \notin Moving
      /\ todo'[t] \in {todo[t], {}}
      /\ members' = members
      /\ \A u \in Uids : /\ routes'[u] = None <=> routes[u] = None
                         /\ routes[u] # None => routes'[u].val = routes[u].val
<1>1. Quiet
  <2>1. CASE Requests(t)
    <3>1. Idle(t) /\ UNCHANGED <<routes, members, todo>>
      BY <2>1 DEF Requests, RegisterNode, Heartbeat, UnregisterNode, BindUser,
         UnbindUser, RefreshTokenTTL, Call
    <3>2. pc'[t] \in {"scan", "hbGet", "unGet", "bdNode", "ubGet", "rfRoute"}
      BY <2>1 DEF Requests, RegisterNode, Heartbeat, UnregisterNode, BindUser,
         UnbindUser, RefreshTokenTTL, Call
    <3>3. QED BY <3>1, <3>2 DEF Idle, Moving
  <2>2. CASE Boot(t)
    BY <2>2 DEF Boot, AllIdle, Idle, Moving
  <2>3. CASE Scan(t) \/ CleanSkip(t) \/ CleanDelete(t)
    BY <2>3 DEF Scan, CleanSkip, CleanDelete, Moving
  <2>4. CASE CleanDone(t)
    BY <2>4 DEF CleanDone, Moving
  <2>5. CASE Check(t) \/ HbGet(t) \/ Store(t)
    <3>1. At(t, "check") \/ At(t, "hbGet") \/ At(t, "store")
      BY <2>5 DEF Check, HbGet, Store
    <3>2. (Go(t, "store") /\ todo' = todo) \/ Return(t)
      BY <2>5 DEF Check, HbGet, Store
    <3>3. UNCHANGED <<routes, members>>
      BY <2>5 DEF Check, HbGet, Store
    <3>4. QED BY <3>1, <3>2, <3>3 DEF Moving
  <2>6. CASE UnGet(t) \/ UnNode(t)
    BY <2>6 DEF UnGet, UnNode, Moving
  <2>7. CASE BdNode(t)
    BY <2>7 DEF BdNode, Moving
  <2>8. CASE RfRoute(t)
    <3>1. PICK o \in Outcomes("expire") : RfRoute(t)!(o)
      BY <2>8 DEF RfRoute
    <3>2. /\ members' = members /\ pc[t] = "rfRoute" /\ pc'[t] = "idle"
          /\ todo'[t] = {} /\ req[t].uid \in Uids
      BY <3>1 DEF RequestsOK, RequestOK, InUser
    <3> DEFINE v == req[t].uid
    <3>3. CASE routes' = routes
      BY <3>2, <3>3 DEF Moving
    <3>4. CASE /\ routes[v] # None
               /\ routes' = [routes EXCEPT ![v] = [val |-> routes[v].val, ttl |-> NodeTtl]]
      <4>1. [val |-> routes[v].val, ttl |-> NodeTtl] # None
        BY <3>2, <3>4, RegistryAssumption DEF Route
      <4>2. QED BY <3>2, <3>4, <4>1 DEF Moving
    <3>5. QED BY <3>1, <3>3, <3>4 DEF SetEx
  <2>9. QED BY <2>1, <2>2, <2>3, <2>4, <2>5, <2>6, <2>7, <2>8
<1>2. \A s \in Threads : s = t
  BY DEF OneAtATime
<1>3. todo[t] = {} /\ todo'[t] = {}
  BY <1>1 DEF Held, HeldBy, Moving
<1> HIDE DEF Quiet
<1>4. Held'
  BY <1>1, <1>2, <1>3 DEF Held, HeldBy, Moving, Quiet
<1>5. RouteBy(pc[t], req[t], todo[t], routes)
         = RouteBy(pc'[t], req'[t], todo'[t], routes')
  BY <1>1, <1>3 DEF RouteBy, Moving, Quiet
<1>6. UsersBy(pc[t], req[t], old[t], members)
         = UsersBy(pc'[t], req'[t], old'[t], members')
  BY <1>1 DEF UsersBy, Moving, Quiet
<1>7. /\ RouteSeen = RouteBy(pc[t], req[t], todo[t], routes)
      /\ UsersSeen = UsersBy(pc[t], req[t], old[t], members)
  BY <1>2, SeenBy
<1>8. /\ RouteSeen' = RouteBy(pc'[t], req'[t], todo'[t], routes')
      /\ UsersSeen' = UsersBy(pc'[t], req'[t], old'[t], members')
  BY <1>2, SeenNextBy
<1>9. QED BY <1>4, <1>5, <1>6, <1>7, <1>8, Zenon

(* bindUser is done, as the contract sees it, when it has read the old     *)
(* node: the commands that follow only catch up.                           *)
LEMMA SerialBind ==
  ASSUME OneAtATime, SerialInv, TypeInv', NEW t \in Threads,
         BdOld(t) \/ BdRem(t) \/ BdSet(t) \/ BdAdd(t)
  PROVE  Held' /\ [Routes!Next]_(Routes!vars)
<1> DEFINE v == req[t].uid
           n == req[t].name
<1> USE DEF SerialInv, TypeInv, TypeOK, LocalTypeOK, SharedTypeOK, Go, At, locals,
            Continue
<1>1. \A s \in Threads : s = t
  BY DEF OneAtATime
<1>2. v \in Uids /\ n \in Names /\ n # None
  BY RegistryAssumption
     DEF BdOld, BdRem, BdSet, BdAdd, RequestsOK, RequestOK, InBind
<1>3. /\ RouteSeen = RouteBy(pc[t], req[t], todo[t], routes)
      /\ UsersSeen = UsersBy(pc[t], req[t], old[t], members)
  BY <1>1, SeenBy
<1>4. /\ RouteSeen' = RouteBy(pc'[t], req'[t], todo'[t], routes')
      /\ UsersSeen' = UsersBy(pc'[t], req'[t], old'[t], members')
  BY <1>1, SeenNextBy
<1>5. HeldBy(t) /\ todo[t] = {}
  BY DEF BdOld, BdRem, BdSet, BdAdd, Held, HeldBy
<1>6. CASE BdOld(t)
  <2>1. PICK o \in Outcomes("get") : BdOld(t)!(o)
    BY <1>6 DEF BdOld
  <2>2. /\ pc[t] = "bdOld" /\ UNCHANGED <<routes, members, req, todo>>
        /\ old'[t] = IF routes[v] # None THEN routes[v].val ELSE None
    BY <2>1, SureOutcome DEF OneAtATime, Get, redis
  <2>3. pc'[t] = IF old'[t] \in {None, n} THEN "bdSet" ELSE "bdRem"
    BY <2>1
  <2>4. Held'
    BY <1>1, <1>2, <1>5, <2>2, <2>3 DEF Held, HeldBy, Route
  <2>5. RouteSeen[v] = old'[t]
    BY <1>2, <1>3, <1>5, <2>2 DEF RouteBy
  <2>6. RouteSeen' = [RouteSeen EXCEPT ![v] = n]
    BY <1>2, <1>3, <1>4, <1>5, <2>2, <2>3 DEF RouteBy
  <2>7. \A x \in Names : UsersSeen[x] = members[x]
    BY <1>3, <2>2 DEF UsersBy
  <2>8. UsersSeen' = [Routes!Left(v) EXCEPT ![n] = @ \cup {v}]
    <3>1. ASSUME NEW x \in Names
          PROVE  /\ {u \in Uids : v = u /\ old'[t] = x} = IF old'[t] = x THEN {v} ELSE {}
                 /\ {u \in Uids : v = u /\ n = x} = IF n = x THEN {v} ELSE {}
      BY <1>2
    <3>2. UsersSeen' = [x \in Names |-> (members[x] \ {u \in Uids : v = u /\ old'[t] = x})
                                         \cup {u \in Uids : v = u /\ n = x}]
      BY <1>4, <2>2, <2>3 DEF UsersBy
    <3>3. UsersSeen' = [x \in Names |-> (members[x] \ IF old'[t] = x THEN {v} ELSE {})
                                         \cup IF n = x THEN {v} ELSE {}]
      BY <3>1, <3>2
    <3>4. Routes!Left(v)
            = [x \in Names |-> members[x] \ IF old'[t] = x THEN {v} ELSE {}]
      BY <2>5, <2>7 DEF Routes!Left
    <3>5. QED BY <1>2, <3>3, <3>4
  <2>9. Routes!Bind(v, n)
    BY <2>6, <2>8 DEF Routes!Bind
  <2>10. QED BY <1>2, <2>4, <2>9 DEF Routes!Next
<1>7. CASE BdRem(t)
  <2>1. PICK o \in Outcomes("sRem") : BdRem(t)!(o)
    BY <1>7 DEF BdRem
  <2>2. /\ pc[t] = "bdRem" /\ pc'[t] = "bdSet"
        /\ UNCHANGED <<routes, req, todo, old>>
    BY <2>1
  <2>3. members' = [members EXCEPT ![old[t]] = @ \ {v}]
    BY <2>1, SureOutcome DEF OneAtATime, SRem, Executed
  <2>4. Held'
    BY <1>1, <1>2, <1>5, <2>2, <2>3 DEF Held, HeldBy
  <2>5. RouteBy(pc[t], req[t], todo[t], routes)
          = RouteBy(pc'[t], req'[t], todo'[t], routes')
    BY <2>2 DEF RouteBy
  <2>6. UsersBy(pc[t], req[t], old[t], members)
          = UsersBy(pc'[t], req'[t], old'[t], members')
    BY <1>2, <1>5, <2>2, <2>3 DEF HeldBy, UsersBy
  <2>7. QED BY <1>3, <1>4, <2>4, <2>5, <2>6, Zenon DEF Routes!vars
<1>8. CASE BdSet(t)
  <2>1. PICK o \in Outcomes("setEx") : BdSet(t)!(o)
    BY <1>8 DEF BdSet
  <2> DEFINE k == [val |-> n, ttl |-> NodeTtl]
  <2>2. /\ pc[t] = "bdSet" /\ pc'[t] = "bdAdd"
        /\ UNCHANGED <<members, req, todo, old>>
    BY <2>1
  <2>3. routes' = [routes EXCEPT ![v] = k]
    BY <2>1, SureOutcome DEF OneAtATime, SetEx, Executed
  <2>4. k # None /\ k.val = n
    BY <1>2, RegistryAssumption DEF Route
  <2> HIDE DEF k
  <2>5. Held'
    BY <1>1, <1>2, <1>5, <2>2, <2>3, <2>4 DEF Held, HeldBy
  <2>6. RouteBy(pc[t], req[t], todo[t], routes)
          = RouteBy(pc'[t], req'[t], todo'[t], routes')
    BY <1>2, <2>2, <2>3 DEF RouteBy
  <2>7. UsersBy(pc[t], req[t], old[t], members)
          = UsersBy(pc'[t], req'[t], old'[t], members')
    BY <2>2 DEF UsersBy
  <2>8. QED BY <1>3, <1>4, <2>5, <2>6, <2>7, Zenon DEF Routes!vars
<1>9. CASE BdAdd(t)
  <2>1. PICK o \in Outcomes("sAdd") : BdAdd(t)!(o)
    BY <1>9 DEF BdAdd
  <2>2. /\ pc[t] = "bdAdd" /\ pc'[t] = "idle" /\ routes' = routes
        /\ todo'[t] = {}
    BY <2>1 DEF Return
  <2>3. members' = [members EXCEPT ![n] = @ \cup {v}]
    BY <2>1, SureOutcome DEF OneAtATime, SAdd, Executed
  <2>4. Held'
    BY <1>1, <2>2 DEF Held, HeldBy
  <2>5. UsersBy(pc[t], req[t], old[t], members)
          = UsersBy(pc'[t], req'[t], old'[t], members')
    <3>1. UsersBy(pc'[t], req'[t], old'[t], members') = [x \in Names |-> members'[x]]
      BY <2>2 DEF UsersBy
    <3>2. ASSUME NEW x \in Names
          PROVE  (members[x] \ {u \in Uids : v = u /\ old[t] = x})
                   \cup {u \in Uids : v = u /\ n = x} = members'[x]
      <4>1. CASE x = n
        BY <1>2, <2>3, <4>1
      <4>2. CASE x # n
        BY <1>2, <1>5, <2>2, <2>3, <4>2, RegistryAssumption DEF HeldBy
      <4>3. QED BY <4>1, <4>2
    <3>3. UsersBy(pc[t], req[t], old[t], members) = [x \in Names |-> members'[x]]
      BY <2>2, <3>2 DEF UsersBy
    <3>4. QED BY <3>1, <3>3
  <2>6. UsersSeen' = UsersSeen
    BY <1>3, <1>4, <2>5, Zenon
  <2>7. CASE routes[v] # None
    <3>1. RouteBy(pc[t], req[t], todo[t], routes)
            = RouteBy(pc'[t], req'[t], todo'[t], routes')
      BY <1>2, <1>5, <2>2, <2>7 DEF HeldBy, RouteBy
    <3>2. QED BY <1>3, <1>4, <2>4, <2>6, <3>1, Zenon DEF Routes!vars
  <2>8. CASE routes[v] = None
    <3>1. ~RefreshInTime
      BY <1>5, <2>2, <2>8 DEF HeldBy
    <3>2. RouteSeen' = [u \in Uids |-> IF u \in {v} THEN None ELSE RouteSeen[u]]
      BY <1>2, <1>3, <1>4, <1>5, <2>2, <2>8 DEF RouteBy
    <3>3. {v} \in SUBSET Uids
      BY <1>2
    <3>4. Routes!Expire
      BY <2>6, <3>1, <3>2, <3>3, Zenon DEF Routes!Expire
    <3>5. QED BY <2>4, <3>4 DEF Routes!Next
  <2>9. QED BY <2>7, <2>8
<1>10. QED BY <1>6, <1>7, <1>8, <1>9

(* unbindUser likewise.                                                    *)
LEMMA SerialUnbind ==
  ASSUME OneAtATime, SerialInv, TypeInv', NEW t \in Threads,
         UbGet(t) \/ UbRem(t) \/ UbDel(t)
  PROVE  Held' /\ [Routes!Next]_(Routes!vars)
<1> DEFINE v == req[t].uid
<1> USE DEF SerialInv, TypeInv, TypeOK, LocalTypeOK, SharedTypeOK, Go, At, locals,
            Continue
<1>1. \A s \in Threads : s = t
  BY DEF OneAtATime
<1>2. v \in Uids
  BY DEF UbGet, UbRem, UbDel, RequestsOK, RequestOK, InUser
<1>3. /\ RouteSeen = RouteBy(pc[t], req[t], todo[t], routes)
      /\ UsersSeen = UsersBy(pc[t], req[t], old[t], members)
  BY <1>1, SeenBy
<1>4. /\ RouteSeen' = RouteBy(pc'[t], req'[t], todo'[t], routes')
      /\ UsersSeen' = UsersBy(pc'[t], req'[t], old'[t], members')
  BY <1>1, SeenNextBy
<1>5. HeldBy(t) /\ todo[t] = {}
  BY DEF UbGet, UbRem, UbDel, Held, HeldBy
<1>6. CASE UbGet(t)
  <2>1. PICK o \in Outcomes("get") : UbGet(t)!(o)
    BY <1>6 DEF UbGet
  <2>2. /\ pc[t] = "ubGet" /\ UNCHANGED <<routes, members, req, todo>>
        /\ old'[t] = IF routes[v] # None THEN routes[v].val ELSE None
    BY <2>1, SureOutcome DEF OneAtATime, Get, redis
  <2>3. pc'[t] = IF old'[t] = None THEN "ubDel" ELSE "ubRem"
    BY <2>1
  <2>4. old'[t] # None => old'[t] \in Names
    BY <1>2, <2>2 DEF Route
  <2>5. Held'
    BY <1>1, <1>2, <1>5, <2>2, <2>3, <2>4 DEF Held, HeldBy
  <2>6. RouteSeen[v] = old'[t]
    BY <1>2, <1>3, <1>5, <2>2 DEF RouteBy
  <2>7. RouteSeen' = [RouteSeen EXCEPT ![v] = None]
    BY <1>2, <1>3, <1>4, <1>5, <2>2, <2>3 DEF RouteBy
  <2>8. \A x \in Names : UsersSeen[x] = members[x]
    BY <1>3, <2>2 DEF UsersBy
  <2>9. UsersSeen' = Routes!Left(v)
    <3>1. ASSUME NEW x \in Names
          PROVE  {u \in Uids : v = u /\ old'[t] = x} = IF old'[t] = x THEN {v} ELSE {}
      BY <1>2
    <3>2. UsersSeen' = [x \in Names |-> members[x] \ {u \in Uids : v = u /\ old'[t] = x}]
      BY <1>4, <2>2, <2>3 DEF UsersBy
    <3>3. UsersSeen' = [x \in Names |-> members[x] \ IF old'[t] = x THEN {v} ELSE {}]
      BY <3>1, <3>2
    <3>4. Routes!Left(v)
            = [x \in Names |-> members[x] \ IF old'[t] = x THEN {v} ELSE {}]
      BY <2>6, <2>8 DEF Routes!Left
    <3>5. QED BY <3>3, <3>4
  <2>10. Routes!Unbind(v)
    BY <2>7, <2>9 DEF Routes!Unbind
  <2>11. QED BY <1>2, <2>5, <2>10 DEF Routes!Next
<1>7. CASE UbRem(t)
  <2>1. PICK o \in Outcomes("sRem") : UbRem(t)!(o)
    BY <1>7 DEF UbRem
  <2>2. /\ pc[t] = "ubRem" /\ pc'[t] = "ubDel"
        /\ UNCHANGED <<routes, req, todo, old>>
    BY <2>1
  <2>3. members' = [members EXCEPT ![old[t]] = @ \ {v}]
    BY <2>1, SureOutcome DEF OneAtATime, SRem, Executed
  <2>4. Held'
    BY <1>1, <1>2, <1>5, <2>2, <2>3 DEF Held, HeldBy
  <2>5. RouteBy(pc[t], req[t], todo[t], routes)
          = RouteBy(pc'[t], req'[t], todo'[t], routes')
    BY <2>2 DEF RouteBy
  <2>6. UsersBy(pc[t], req[t], old[t], members)
          = UsersBy(pc'[t], req'[t], old'[t], members')
    BY <1>2, <1>5, <2>2, <2>3 DEF HeldBy, UsersBy
  <2>7. QED BY <1>3, <1>4, <2>4, <2>5, <2>6, Zenon DEF Routes!vars
<1>8. CASE UbDel(t)
  <2>1. PICK o \in Outcomes("del") : UbDel(t)!(o)
    BY <1>8 DEF UbDel
  <2>2. /\ pc[t] = "ubDel" /\ pc'[t] = "idle" /\ members' = members
        /\ todo'[t] = {}
    BY <2>1 DEF Return
  <2>3. routes' = [routes EXCEPT ![v] = None]
    BY <2>1, SureOutcome DEF OneAtATime, Del, Executed
  <2>4. Held'
    BY <1>1, <2>2 DEF Held, HeldBy
  <2>5. RouteBy(pc[t], req[t], todo[t], routes)
          = RouteBy(pc'[t], req'[t], todo'[t], routes')
    BY <1>2, <1>5, <2>2, <2>3 DEF RouteBy
  <2>6. UsersBy(pc[t], req[t], old[t], members)
          = UsersBy(pc'[t], req'[t], old'[t], members')
    <3>1. UsersBy(pc'[t], req'[t], old'[t], members') = [x \in Names |-> members[x]]
      BY <2>2 DEF UsersBy
    <3>2. ASSUME NEW x \in Names
          PROVE  members[x] \ {u \in Uids : v = u /\ old[t] = x} = members[x]
      BY <1>2, <1>5, <2>2, RegistryAssumption DEF HeldBy
    <3>3. UsersBy(pc[t], req[t], old[t], members) = [x \in Names |-> members[x]]
      BY <2>2, <3>2 DEF UsersBy
    <3>4. QED BY <3>1, <3>3
  <2>7. QED BY <1>3, <1>4, <2>4, <2>5, <2>6, Zenon DEF Routes!vars
<1>9. QED BY <1>6, <1>7, <1>8

(* unregisterNode is done, as the contract sees it, when it has read whom  *)
(* the node counts.                                                        *)
LEMMA SerialUnregister ==
  ASSUME OneAtATime, SerialInv, TypeInv', NEW t \in Threads,
         UnMembers(t) \/ UnRoute(t) \/ UnRoutesDone(t) \/ UnSet(t)
  PROVE  Held' /\ [Routes!Next]_(Routes!vars)
<1> DEFINE n == req[t].name
<1> USE DEF SerialInv, TypeInv, TypeOK, LocalTypeOK, SharedTypeOK, Go, At, locals,
            Continue
<1>1. \A s \in Threads : s = t
  BY DEF OneAtATime
<1>2. n \in Names /\ req' = req /\ old' = old
  BY DEF UnMembers, UnRoute, UnRoutesDone, UnSet, RequestsOK, RequestOK, InUnregister
<1>3. /\ RouteSeen = RouteBy(pc[t], req[t], todo[t], routes)
      /\ UsersSeen = UsersBy(pc[t], req[t], old[t], members)
  BY <1>1, SeenBy
<1>4. /\ RouteSeen' = RouteBy(pc'[t], req'[t], todo'[t], routes')
      /\ UsersSeen' = UsersBy(pc'[t], req'[t], old'[t], members')
  BY <1>1, SeenNextBy
<1>5. HeldBy(t)
  BY DEF Held
<1>6. CASE UnMembers(t)
  <2>1. PICK o \in Outcomes("sMembers") : UnMembers(t)!(o)
    BY <1>6 DEF UnMembers
  <2>2. /\ pc[t] = "unMembers" /\ pc'[t] = "unRoutes" /\ UNCHANGED <<routes, members>>
        /\ todo[t] = {} /\ todo'[t] = members[n]
    BY <1>5, <2>1, SureOutcome DEF OneAtATime, SMembers, redis, HeldBy
  <2>3. Held'
    BY <1>1, <2>2 DEF Held, HeldBy
  <2>4. UsersSeen = [x \in Names |-> members[x]]
    BY <1>3, <2>2 DEF UsersBy
  <2>5. UsersSeen' = [x \in Names |-> IF x = n THEN {} ELSE members[x]]
    BY <1>2, <1>4, <2>2 DEF UsersBy
  <2>6. RouteSeen' = [u \in Uids |-> IF u \in UsersSeen[n] THEN None ELSE RouteSeen[u]]
    BY <1>2, <1>3, <1>4, <2>2, <2>4 DEF RouteBy
  <2>7. Routes!Unregister(n)
    BY <1>2, <2>4, <2>5, <2>6 DEF Routes!Unregister
  <2>8. QED BY <1>2, <2>3, <2>7 DEF Routes!Next
<1>7. CASE UnRoute(t)
  <2>1. PICK u \in todo[t], o \in Outcomes("del") : UnRoute(t)!(u, o)
    BY <1>7 DEF UnRoute
  <2>2. /\ pc[t] = "unRoutes" /\ pc'[t] = "unRoutes" /\ members' = members
        /\ todo'[t] = todo[t] \ {u} /\ u \in Uids
    BY <2>1
  <2>3. routes' = [routes EXCEPT ![u] = None]
    BY <2>1, SureOutcome DEF OneAtATime, Del, Executed
  <2>4. Held'
    BY <1>1, <2>2 DEF Held, HeldBy
  <2>5. RouteBy(pc[t], req[t], todo[t], routes)
          = RouteBy(pc'[t], req'[t], todo'[t], routes')
    BY <1>2, <2>2, <2>3 DEF RouteBy
  <2>6. UsersBy(pc[t], req[t], old[t], members)
          = UsersBy(pc'[t], req'[t], old'[t], members')
    BY <1>2, <2>2 DEF UsersBy
  <2>7. QED BY <1>3, <1>4, <2>4, <2>5, <2>6, Zenon DEF Routes!vars
<1>8. CASE UnRoutesDone(t)
  <2>1. /\ pc[t] = "unRoutes" /\ pc'[t] = "unSet" /\ UNCHANGED <<routes, members>>
        /\ todo[t] = {} /\ todo'[t] = {}
    BY <1>8 DEF UnRoutesDone, redis
  <2>2. Held'
    BY <1>1, <2>1 DEF Held, HeldBy
  <2>3. RouteBy(pc[t], req[t], todo[t], routes)
          = RouteBy(pc'[t], req'[t], todo'[t], routes')
    BY <1>2, <2>1 DEF RouteBy
  <2>4. UsersBy(pc[t], req[t], old[t], members)
          = UsersBy(pc'[t], req'[t], old'[t], members')
    BY <1>2, <2>1 DEF UsersBy
  <2>5. QED BY <1>3, <1>4, <2>2, <2>3, <2>4, Zenon DEF Routes!vars
<1>9. CASE UnSet(t)
  <2>1. PICK o \in Outcomes("del") : UnSet(t)!(o)
    BY <1>9 DEF UnSet
  <2>2. /\ pc[t] = "unSet" /\ pc'[t] = "unNode" /\ routes' = routes
        /\ todo[t] = {} /\ todo'[t] = {}
    BY <1>5, <2>1 DEF HeldBy
  <2>3. members' = [members EXCEPT ![n] = {}]
    BY <2>1, SureOutcome DEF OneAtATime, DelSet, Executed
  <2>4. Held'
    BY <1>1, <2>2 DEF Held, HeldBy
  <2>5. RouteBy(pc[t], req[t], todo[t], routes)
          = RouteBy(pc'[t], req'[t], todo'[t], routes')
    BY <1>2, <2>2 DEF RouteBy
  <2>6. UsersBy(pc[t], req[t], old[t], members)
          = UsersBy(pc'[t], req'[t], old'[t], members')
    BY <1>2, <2>2, <2>3 DEF UsersBy
  <2>7. QED BY <1>3, <1>4, <2>4, <2>5, <2>6, Zenon DEF Routes!vars
<1>10. QED BY <1>6, <1>7, <1>8, <1>9

(* The clock ends routes, and only where nobody refreshes them in time.    *)
LEMMA SerialEnvironment ==
  ASSUME OneAtATime, SerialInv, TypeInv', Tick \/ Crash \/ NodeStops
  PROVE  Held' /\ [Routes!Next]_(Routes!vars)
<1> USE DEF SerialInv, TypeInv, TypeOK
<1>1. ~Crash
  BY RegistryAssumption DEF Crash, OneAtATime, EnvTypeOK
<1>2. CASE Tick
  <2>1. UNCHANGED <<members, pc, req, todo, old>>
    BY <1>2 DEF Tick
  <2>2. ASSUME NEW u \in Uids
        PROVE  \/ routes'[u] = None /\ (routes[u] = None \/ ~RefreshInTime)
               \/ /\ routes[u] # None /\ routes'[u] # None
                  /\ routes'[u].val = routes[u].val
    <3>1. routes'[u] = AgeKey(routes[u])
      BY <1>2 DEF Tick
    <3>2. CASE routes[u] = None
      BY <3>1, <3>2 DEF AgeKey
    <3>3. CASE routes[u] # None /\ routes[u].ttl = 1
      BY <1>2, <3>1, <3>3 DEF AgeKey, Tick
    <3>4. CASE routes[u] # None /\ routes[u].ttl # 1
      <4>1. routes[u] \in Route
        BY <3>4 DEF SharedTypeOK
      <4>2. routes'[u] = [val |-> routes[u].val, ttl |-> routes[u].ttl - 1]
        BY <3>1, <3>4, <4>1 DEF AgeKey, Route
      <4>3. routes'[u] \in Route /\ routes'[u].val = routes[u].val
        BY <3>4, <4>1, <4>2, RegistryAssumption DEF Route
      <4>4. QED BY <3>4, <4>3, RegistryAssumption
    <3>5. QED BY <3>2, <3>3, <3>4
  <2>3. Held'
    <3>1. ASSUME NEW s \in Threads, pc[s] = "bdAdd"
          PROVE  IF routes'[req[s].uid] = None THEN ~RefreshInTime
                 ELSE routes'[req[s].uid].val = req[s].name
      <4>1. req[s].uid \in Uids
        BY <3>1 DEF RequestsOK, RequestOK, InBind
      <4>2. IF routes[req[s].uid] = None THEN ~RefreshInTime
            ELSE routes[req[s].uid].val = req[s].name
        BY <3>1 DEF Held, HeldBy
      <4>3. QED BY <2>2, <4>1, <4>2
    <3>2. QED BY <2>1, <3>1 DEF Held, HeldBy
  <2>4. UsersSeen' = UsersSeen
    BY <2>1 DEF UsersSeen, Leaving, Binding, Unbinding
  <2> DEFINE gone == {u \in Uids : RouteSeen'[u] = None}
  <2>5. ASSUME NEW u \in Uids
        PROVE  RouteSeen'[u] = RouteSeen[u] \/ (RouteSeen'[u] = None /\ ~RefreshInTime)
    <3>1. CASE (\E t \in Threads : u \in todo[t] \/ t \in Unbinding(u)) \/ Binding(u) # {}
      BY <2>1, <3>1 DEF RouteSeen, Binding, Unbinding
    <3>2. CASE ~((\E t \in Threads : u \in todo[t] \/ t \in Unbinding(u)) \/ Binding(u) # {})
      <4>1. RouteSeen[u] = IF routes[u] = None THEN None ELSE routes[u].val
        BY <3>2 DEF RouteSeen
      <4>2. RouteSeen'[u] = IF routes'[u] = None THEN None ELSE routes'[u].val
        BY <2>1, <3>2 DEF RouteSeen, Binding, Unbinding
      <4>3. QED BY <2>2, <4>1, <4>2
    <3>3. QED BY <3>1, <3>2
  <2>6. /\ RouteSeen = [u \in Uids |-> RouteSeen[u]]
        /\ RouteSeen' = [u \in Uids |-> RouteSeen'[u]]
    BY DEF RouteSeen
  <2>7. CASE RefreshInTime
    <3>1. RouteSeen' = RouteSeen
      BY <2>5, <2>6, <2>7
    <3>2. QED BY <2>3, <2>4, <3>1 DEF Routes!vars
  <2>8. CASE ~RefreshInTime
    <3>1. gone \in SUBSET Uids
      OBVIOUS
    <3>2. RouteSeen' = [u \in Uids |-> IF u \in gone THEN None ELSE RouteSeen[u]]
      BY <2>5, <2>6
    <3>3. Routes!Expire
      BY <2>4, <2>8, <3>1, <3>2, Zenon DEF Routes!Expire
    <3>4. QED BY <2>3, <3>3 DEF Routes!Next
  <2>9. QED BY <2>7, <2>8
<1>3. CASE NodeStops
  BY <1>3 DEF NodeStops, redis, locals, Held, HeldBy, RouteSeen, UsersSeen, Leaving,
     Binding, Unbinding, Routes!vars
<1>4. QED BY <1>1, <1>2, <1>3

LEMMA SerialInit == Init => SerialInv /\ Routes!Init
<1> SUFFICES ASSUME Init PROVE SerialInv /\ Routes!Init
  OBVIOUS
<1>1. Held
  BY DEF Init, Fresh, Held, HeldBy
<1>2. RouteSeen = [u \in Uids |-> None]
  BY DEF Init, Fresh, RouteSeen, Binding, Unbinding
<1>3. UsersSeen = [n \in Names |-> {}]
  BY DEF Init, Fresh, UsersSeen, Binding, Unbinding, Leaving
<1>4. QED BY <1>1, <1>2, <1>3, TypeInit DEF SerialInv, Routes!Init

LEMMA SerialNext ==
  OneAtATime /\ SerialInv /\ [Next]_vars => SerialInv' /\ [Routes!Next]_(Routes!vars)
<1> SUFFICES ASSUME OneAtATime, SerialInv, [Next]_vars
             PROVE  SerialInv' /\ [Routes!Next]_(Routes!vars)
  OBVIOUS
<1>1. TypeInv'
  BY TypeNext DEF SerialInv
<1> SUFFICES Held' /\ [Routes!Next]_(Routes!vars)
  BY <1>1 DEF SerialInv
<1>2. CASE UNCHANGED vars
  BY <1>2 DEF SerialInv, vars, redis, locals, Held, HeldBy, RouteSeen, UsersSeen,
     Leaving, Binding, Unbinding, Routes!vars
<1>3. ASSUME NEW t \in Threads, Boot(t) \/ Requests(t) \/ Steps(t)
      PROVE  Held' /\ [Routes!Next]_(Routes!vars)
  <2>1. CASE \/ Requests(t) \/ Boot(t)
             \/ Scan(t) \/ CleanSkip(t) \/ CleanDelete(t) \/ CleanDone(t)
             \/ Check(t) \/ HbGet(t) \/ Store(t)
             \/ UnGet(t) \/ UnNode(t) \/ BdNode(t) \/ RfRoute(t)
    BY <1>1, <2>1, SerialQuiet DEF Routes!vars
  <2>2. CASE BdOld(t) \/ BdRem(t) \/ BdSet(t) \/ BdAdd(t)
    BY <1>1, <2>2, SerialBind
  <2>3. CASE UbGet(t) \/ UbRem(t) \/ UbDel(t)
    BY <1>1, <2>3, SerialUnbind
  <2>4. CASE UnMembers(t) \/ UnRoute(t) \/ UnRoutesDone(t) \/ UnSet(t)
    BY <1>1, <2>4, SerialUnregister
  <2>5. QED BY <1>3, <2>1, <2>2, <2>3, <2>4 DEF Steps
<1>4. CASE Tick \/ Crash \/ NodeStops
  BY <1>1, <1>4, SerialEnvironment
<1>5. QED BY <1>2, <1>3, <1>4 DEF Next

(* With one method at a time bindUser, unbindUser and unregisterNode keep  *)
(* the contract of NodeRegistry.h, each as one step, whatever becomes of   *)
(* the commands on node records and whenever routes expire.                *)
THEOREM RegistryKeepsContract == OneAtATime /\ Spec => RoutingSpec
<1> SUFFICES ASSUME OneAtATime PROVE Spec => RoutingSpec
  OBVIOUS
<1>1. SerialInv /\ [Next]_vars => SerialInv' /\ [Routes!Next]_(Routes!vars)
  BY SerialNext
<1>2. QED BY <1>1, SerialInit, PTL DEF Spec, RoutingSpec, Routes!Spec

(* A contract whose routes do not end by themselves counts each node's     *)
(* users exactly.                                                          *)
Exact == \A n \in Names : UsersSeen[n] = {u \in Uids : RouteSeen[u] = n}

LEMMA ContractExact ==
  ASSUME RefreshInTime, Exact, Routes!Next,
         RouteSeen \in [Uids -> Names \cup {None}],
         UsersSeen \in [Names -> SUBSET Uids]
  PROVE  Exact'
<1> USE RegistryAssumption
<1>1. ASSUME NEW u \in Uids, Routes!Unbind(u) PROVE Exact'
  <2>1. /\ RouteSeen' = [RouteSeen EXCEPT ![u] = None]
        /\ \A n \in Names : UsersSeen'[n] = IF RouteSeen[u] = n THEN UsersSeen[n] \ {u}
                                            ELSE UsersSeen[n]
    BY <1>1 DEF Routes!Unbind, Routes!Left
  <2>2. ASSUME NEW n \in Names
        PROVE  UsersSeen'[n] = {w \in Uids : RouteSeen'[w] = n}
    <3>1. CASE RouteSeen[u] = n
      BY <2>1, <3>1 DEF Exact
    <3>2. CASE RouteSeen[u] # n
      <4>1. \A w \in Uids : RouteSeen'[w] = n <=> RouteSeen[w] = n
        BY <2>1, <3>2
      <4>2. UsersSeen'[n] = UsersSeen[n]
        BY <2>1, <3>2
      <4>3. QED BY <4>1, <4>2 DEF Exact
    <3>3. QED BY <3>1, <3>2
  <2>3. QED BY <2>2 DEF Exact
<1>2. ASSUME NEW u \in Uids, NEW k \in Names, Routes!Bind(u, k) PROVE Exact'
  <2>1. RouteSeen' = [RouteSeen EXCEPT ![u] = k]
    BY <1>2 DEF Routes!Bind
  <2>2. \A n \in Names :
          UsersSeen'[n] = (IF RouteSeen[u] = n THEN UsersSeen[n] \ {u} ELSE UsersSeen[n])
                             \cup IF n = k THEN {u} ELSE {}
    BY <1>2 DEF Routes!Bind, Routes!Left
  <2>3. ASSUME NEW n \in Names
        PROVE  UsersSeen'[n] = {w \in Uids : RouteSeen'[w] = n}
    BY <2>1, <2>2 DEF Exact
  <2>4. QED BY <2>3 DEF Exact
<1>3. ASSUME NEW k \in Names, Routes!Unregister(k) PROVE Exact'
  BY <1>3 DEF Routes!Unregister, Exact
<1>4. ~Routes!Expire
  BY DEF Routes!Expire
<1>5. QED BY <1>1, <1>2, <1>3, <1>4 DEF Routes!Next

LEMMA SeenTyped ==
  ASSUME OneAtATime, SerialInv
  PROVE  /\ RouteSeen \in [Uids -> Names \cup {None}]
         /\ UsersSeen \in [Names -> SUBSET Uids]
<1> USE DEF SerialInv, TypeInv, TypeOK, SharedTypeOK
<1>1. ASSUME NEW u \in Uids PROVE RouteSeen[u] \in Names \cup {None}
  <2>1. CASE \E t \in Threads : u \in todo[t] \/ t \in Unbinding(u)
    BY <2>1 DEF RouteSeen
  <2>2. CASE Binding(u) # {}
    <3>1. (CHOOSE t \in Binding(u) : TRUE) \in Binding(u)
      BY <2>2
    <3>2. ASSUME NEW t \in Binding(u) PROVE req[t].name \in Names
      BY DEF Binding, RequestsOK, RequestOK, InBind
    <3>3. req[CHOOSE t \in Binding(u) : TRUE].name \in Names
      BY <3>1, <3>2
    <3>4. QED BY <2>2, <3>3, Zenon DEF RouteSeen
  <2>3. CASE /\ ~\E t \in Threads : u \in todo[t] \/ t \in Unbinding(u)
             /\ Binding(u) = {}
    <3>1. RouteSeen[u] = IF routes[u] = None THEN None ELSE routes[u].val
      BY <2>3 DEF RouteSeen
    <3>2. QED BY <3>1 DEF Route
  <2>4. QED BY <2>1, <2>2, <2>3
<1>2. RouteSeen = [u \in Uids |-> RouteSeen[u]]
  BY DEF RouteSeen
<1>3. UsersSeen \in [Names -> SUBSET Uids]
  BY DEF UsersSeen
<1>4. QED BY <1>1, <1>2, <1>3

(* Between two calls the contract sees Redis as it is.                     *)
LEMMA IdleIsExact == OneAtATime /\ SerialInv /\ Exact => LoadExact
<1> SUFFICES ASSUME OneAtATime, SerialInv, Exact, AllIdle, NEW n \in Names
             PROVE  members[n] = RoutedTo(n)
  BY DEF LoadExact
<1>1. \A t \in Threads : pc[t] = "idle" /\ todo[t] = {}
  BY DEF AllIdle, Idle, SerialInv, Held, HeldBy
<1>2. \A u \in Uids : Binding(u) = {} /\ Unbinding(u) = {}
  BY <1>1 DEF Binding, Unbinding
<1>3. Leaving(n) = {}
  BY <1>1 DEF Leaving
<1>4. UsersSeen[n] = members[n]
  BY <1>2, <1>3 DEF UsersSeen
<1>5. \A u \in Uids : RouteSeen[u] = IF routes[u] = None THEN None ELSE routes[u].val
  BY <1>1, <1>2 DEF RouteSeen
<1>6. n # None
  BY RegistryAssumption
<1>7. QED BY <1>4, <1>5, <1>6 DEF Exact, RoutedTo

(* With one method at a time and every route refreshed before it expires,  *)
(* the load that selectLeastLoadedNode reads off a node's set is, between  *)
(* two calls, the number of users routed to it: bindUser, unbindUser and   *)
(* unregisterNode move a route and its count together.                     *)
THEOREM LoadsAreExact == OneAtATime /\ RefreshInTime /\ Spec => []LoadExact
<1> SUFFICES ASSUME OneAtATime, RefreshInTime PROVE Spec => []LoadExact
  OBVIOUS
<1>1. Init => SerialInv /\ Exact
  <2> SUFFICES ASSUME Init PROVE SerialInv /\ Exact
    OBVIOUS
  <2>1. SerialInv /\ Routes!Init
    BY SerialInit
  <2>2. QED BY <2>1, RegistryAssumption DEF Routes!Init, Exact
<1>2. SerialInv /\ Exact /\ [Next]_vars => SerialInv' /\ Exact'
  <2> SUFFICES ASSUME SerialInv, Exact, [Next]_vars PROVE SerialInv' /\ Exact'
    OBVIOUS
  <2>1. SerialInv' /\ [Routes!Next]_(Routes!vars)
    BY SerialNext
  <2>2. CASE Routes!Next
    BY <2>1, <2>2, ContractExact, SeenTyped
  <2>3. CASE UNCHANGED Routes!vars
    BY <2>1, <2>3 DEF Routes!vars, Exact
  <2>4. QED BY <2>1, <2>2, <2>3
<1>3. SerialInv /\ Exact => LoadExact
  BY IdleIsExact
<1>4. QED BY <1>1, <1>2, <1>3, PTL DEF Spec

-----------------------------------------------------------------------------
(* Who owns a name.  While at most one method that looks at node records   *)
(* is in flight, beside any number of other methods, the registry obeys    *)
(* NodeLease.  It is proved for registrations that carry all endpoint      *)
(* fields (one that does not replaces the owner's record by one that no    *)
(* call can read) and for an HGET that is answered (registerNode takes one *)
(* that fails for a free name); every other command may fail, the server   *)
(* may crash at any moment and nodes may stop.                             *)
LeaseSafe == "hGet" \notin Fallible /\ Endpoints \subseteq {TRUE}

InLease == InRegister \cup {"store", "hbGet"} \cup InUnregister
OneInLease == \A s, t \in Threads : pc[s] \in InLease /\ pc[t] \in InLease => s = t

InLeave == {"unMembers", "unRoutes", "unSet", "unNode"}

(* What the method in flight knows between its commands: cleanup still     *)
(* sees the records as they are, and whoever is about to store a record    *)
(* extends the lease of the name's owner.                                  *)
OwnsBy(t) ==
  /\ pc[t] \in InUnregister => req[t].inst \in Instances
  /\ pc[t] = "clean" => \A n \in Names : snap[t][n] # None => nodes[n] = snap[t][n]
  /\ pc[t] \in InRegister => req[t].complete
  /\ pc[t] = "store" =>
       /\ req[t].name \in Names /\ rec[t] # None /\ rec[t].complete
       /\ Alive(nodes[req[t].name]) => /\ nodes[req[t].name].inst = rec[t].inst
                                       /\ nodes[req[t].name].lease <= rec[t].lease
Owns == \A t \in Threads : OwnsBy(t)

LeaseInv == TypeInv /\ Owns

LeaseVars == <<LeaseSeen, LeavingSeen>>

(* A step of one thread leaves the others where they are.                  *)
Others(t) == \A s \in Threads \ {t} :
  pc'[s] = pc[s] /\ req'[s] = req[s] /\ rec'[s] = rec[s] /\ snap'[s] = snap[s]

LEMMA OthersKeep ==
  ASSUME LocalTypeOK, NEW t \in Threads, Boot(t) \/ Requests(t) \/ Steps(t)
  PROVE  Others(t)
<1> USE DEF LocalTypeOK, Others, Go, Return, Continue, locals
<1>1. CASE Boot(t) \/ Requests(t)
  BY <1>1 DEF Boot, Requests, RegisterNode, Heartbeat, UnregisterNode, BindUser,
     UnbindUser, RefreshTokenTTL, Call
<1>2. CASE Scan(t) \/ CleanSkip(t) \/ CleanDelete(t) \/ CleanDone(t)
  BY <1>2 DEF Scan, CleanSkip, CleanDelete, CleanDone
<1>3. CASE Check(t) \/ HbGet(t) \/ Store(t)
  BY <1>3 DEF Check, HbGet, Store
<1>4. CASE UnGet(t) \/ UnMembers(t) \/ UnRoute(t) \/ UnRoutesDone(t) \/ UnSet(t) \/ UnNode(t)
  BY <1>4 DEF UnGet, UnMembers, UnRoute, UnRoutesDone, UnSet, UnNode
<1>5. CASE BdNode(t) \/ BdOld(t) \/ BdRem(t) \/ BdSet(t) \/ BdAdd(t)
  BY <1>5 DEF BdNode, BdOld, BdRem, BdSet, BdAdd
<1>6. CASE UbGet(t) \/ UbRem(t) \/ UbDel(t) \/ RfRoute(t)
  BY <1>6 DEF UbGet, UbRem, UbDel, RfRoute
<1>7. QED BY <1>1, <1>2, <1>3, <1>4, <1>5, <1>6 DEF Steps

(* What the other threads know holds after a step that stores no record,   *)
(* and after any step of the method that looks at records.                 *)
LEMMA OwnsOthers ==
  ASSUME Owns, OneInLease, NEW t \in Threads, Others(t), OwnsBy(t)',
         nodes' = nodes \/ pc[t] \in InLease
  PROVE  Owns'
<1> SUFFICES ASSUME NEW s \in Threads, s # t PROVE OwnsBy(s)'
  BY DEF Owns
<1>1. /\ pc'[s] = pc[s] /\ req'[s] = req[s] /\ rec'[s] = rec[s] /\ snap'[s] = snap[s]
      /\ OwnsBy(s)
  BY DEF Others, Owns
<1>2. CASE nodes' = nodes
  BY <1>1, <1>2 DEF OwnsBy
<1>3. CASE pc[t] \in InLease
  <2>1. pc[s] \notin InLease
    BY <1>3 DEF OneInLease
  <2>2. QED BY <1>1, <2>1 DEF OwnsBy, InLease, InRegister, InUnregister
<1>4. QED BY <1>2, <1>3

LEMMA LeavingQuiet ==
  ASSUME NEW t \in Threads, Others(t), pc[t] \notin InLeave, pc'[t] \notin InLeave
  PROVE  LeavingSeen' = LeavingSeen
<1>1. {s \in Threads : pc'[s] \in InLeave} = {s \in Threads : pc[s] \in InLeave}
  BY DEF Others
<1>2. \A s \in {s \in Threads : pc[s] \in InLeave} : req'[s] = req[s]
  BY DEF Others
<1>3. LeavingSeen' = {<<req'[s].name, req'[s].inst>> :
                        s \in {s \in Threads : pc'[s] \in InLeave}}
  BY DEF LeavingSeen, InLeave
<1>4. LeavingSeen = {<<req[s].name, req[s].inst>> :
                       s \in {s \in Threads : pc[s] \in InLeave}}
  BY DEF LeavingSeen, InLeave
<1>5. QED BY <1>1, <1>2, <1>3, <1>4

LEMMA LeavingBy ==
  ASSUME NEW t \in Threads, OneInLease, Others(t), pc[t] \in InLease
  PROVE  /\ pc[t] \notin InLeave => LeavingSeen = {}
         /\ pc[t] \in InLeave => LeavingSeen = {<<req[t].name, req[t].inst>>}
         /\ pc'[t] \notin InLeave => LeavingSeen' = {}
         /\ pc'[t] \in InLeave => LeavingSeen' = {<<req'[t].name, req'[t].inst>>}
<1>0. \A s \in Threads \ {t} : pc[s] \notin InLeave /\ pc'[s] \notin InLeave
  BY DEF OneInLease, Others, InLease, InLeave, InUnregister
<1>1. {s \in Threads : pc[s] \in InLeave} = IF pc[t] \in InLeave THEN {t} ELSE {}
  BY <1>0
<1>2. {s \in Threads : pc'[s] \in InLeave} = IF pc'[t] \in InLeave THEN {t} ELSE {}
  BY <1>0
<1>3. /\ LeavingSeen = {<<req[s].name, req[s].inst>> :
                          s \in {s \in Threads : pc[s] \in InLeave}}
      /\ LeavingSeen' = {<<req'[s].name, req'[s].inst>> :
                          s \in {s \in Threads : pc'[s] \in InLeave}}
  BY DEF LeavingSeen, InLeave
<1>4. QED BY <1>1, <1>2, <1>3

(* The lease of a name that is alive is one that NodeLease can hold.       *)
LEMMA LeaseSeenIs ==
  ASSUME SharedTypeOK, NEW n \in Names
  PROVE  /\ ~Alive(nodes[n]) => LeaseSeen[n] = None
         /\ Alive(nodes[n]) => /\ LeaseSeen[n] # None
                               /\ LeaseSeen[n].inst = nodes[n].inst
                               /\ LeaseSeen[n].left = nodes[n].lease
                               /\ nodes[n] \in Record /\ nodes[n].lease \in 0 .. NodeTtl
<1>1. CASE ~Alive(nodes[n])
  BY <1>1 DEF LeaseSeen
<1>2. CASE Alive(nodes[n])
  <2>1. nodes[n] \in Record /\ nodes[n].lease \in 0 .. NodeTtl
    BY <1>2, RegistryAssumption DEF Alive, Parses, SharedTypeOK, Record
  <2>2. LeaseSeen[n] = [inst |-> nodes[n].inst, left |-> nodes[n].lease]
    BY <1>2 DEF LeaseSeen
  <2>3. LeaseSeen[n] \in Owner
    BY <2>1, <2>2 DEF Owner, Record
  <2>4. QED BY <1>2, <2>1, <2>2, <2>3, RegistryAssumption
<1>3. QED BY <1>1, <1>2

(* Steps that touch no record and neither begin nor end an unregistration. *)
LEMMA LeaseQuiet ==
  ASSUME LeaseSafe, LeaseInv, OneInLease, TypeInv', NEW t \in Threads,
         \/ Requests(t) \/ Boot(t)
         \/ UnMembers(t) \/ UnRoute(t) \/ UnRoutesDone(t) \/ UnSet(t)
         \/ BdNode(t) \/ BdOld(t) \/ BdRem(t) \/ BdSet(t) \/ BdAdd(t)
         \/ UbGet(t) \/ UbRem(t) \/ UbDel(t) \/ RfRoute(t)
  PROVE  Owns' /\ UNCHANGED LeaseVars
<1> USE DEF LeaseInv, TypeInv, TypeOK, LocalTypeOK, Go, At, redis, locals,
            Return, Continue
<1>1. Others(t)
  BY OthersKeep DEF Steps
<1>2. nodes' = nodes
  BY DEF Requests, RegisterNode, Heartbeat, UnregisterNode, BindUser, UnbindUser,
     RefreshTokenTTL, Call, Boot, UnMembers, UnRoute, UnRoutesDone, UnSet, BdNode,
     BdOld, BdRem, BdSet, BdAdd, UbGet, UbRem, UbDel, RfRoute
<1>3. LeaseSeen' = LeaseSeen
  BY <1>2 DEF LeaseSeen
<1>4. CASE Requests(t) \/ Boot(t)
  <2>1. pc[t] = "idle" /\ pc'[t] \notin InLeave
    BY <1>4 DEF Requests, RegisterNode, Heartbeat, UnregisterNode, BindUser,
       UnbindUser, RefreshTokenTTL, Call, Boot, AllIdle, Idle, InLeave
  <2>2. OwnsBy(t)'
    <3>1. CASE RegisterNode(t)
      <4>1. PICK n \in Names \ stopped, i \in Instances, c \in Endpoints :
              Call(t, "register", n, i, None, c, "scan")
        BY <3>1 DEF RegisterNode
      <4>2. c = TRUE
        BY DEF LeaseSafe
      <4>3. pc'[t] = "scan" /\ req'[t].complete = c
        BY <4>1 DEF Call
      <4>4. QED BY <4>2, <4>3 DEF OwnsBy, InUnregister, InRegister
    <3>2. CASE Heartbeat(t) \/ BindUser(t) \/ UnbindUser(t) \/ RefreshTokenTTL(t)
      BY <3>2 DEF Heartbeat, BindUser, UnbindUser, RefreshTokenTTL, Call, OwnsBy,
         InUnregister, InRegister
    <3>3. CASE UnregisterNode(t)
      BY <3>3 DEF UnregisterNode, Call, OwnsBy, InUnregister, InRegister
    <3>4. CASE Boot(t)
      BY <3>4 DEF Boot, NoReq, OwnsBy, InUnregister, InRegister
    <3>5. QED BY <1>4, <3>1, <3>2, <3>3, <3>4 DEF Requests
  <2>3. LeavingSeen' = LeavingSeen
    BY <1>1, <2>1, LeavingQuiet DEF InLeave
  <2>4. QED BY <1>1, <1>2, <1>3, <2>2, <2>3, OwnsOthers DEF LeaseVars
<1>5. CASE UnMembers(t) \/ UnRoute(t) \/ UnRoutesDone(t) \/ UnSet(t)
  <2>1. pc[t] \in InLeave /\ pc'[t] \in InLeave /\ req' = req
    BY <1>5 DEF UnMembers, UnRoute, UnRoutesDone, UnSet, InLeave
  <2>2. LeavingSeen' = LeavingSeen
    BY <1>1, <2>1, LeavingBy DEF InLease, InLeave, InUnregister
  <2>3. OwnsBy(t)'
    BY <2>1 DEF Owns, OwnsBy, InLeave, InUnregister, InRegister
  <2>4. QED BY <1>1, <1>2, <1>3, <2>2, <2>3, OwnsOthers DEF LeaseVars
<1>6. CASE \/ BdNode(t) \/ BdOld(t) \/ BdRem(t) \/ BdSet(t) \/ BdAdd(t)
           \/ UbGet(t) \/ UbRem(t) \/ UbDel(t) \/ RfRoute(t)
  <2>1. pc[t] \in InBind \cup InUser
    BY <1>6 DEF BdNode, BdOld, BdRem, BdSet, BdAdd, UbGet, UbRem, UbDel, RfRoute,
       InBind, InUser
  <2>2. pc'[t] \in InBind \cup InUser \cup {"idle"}
    BY <1>6 DEF BdNode, BdOld, BdRem, BdSet, BdAdd, UbGet, UbRem, UbDel, RfRoute,
       InBind, InUser
  <2>3. LeavingSeen' = LeavingSeen
    BY <1>1, <2>1, <2>2, LeavingQuiet DEF InLeave, InBind, InUser
  <2>4. OwnsBy(t)'
    BY <2>2 DEF OwnsBy, InBind, InUser, InUnregister, InRegister
  <2>5. QED BY <1>1, <1>2, <1>3, <2>3, <2>4, OwnsOthers DEF LeaseVars
<1>7. QED BY <1>4, <1>5, <1>6

(* cleanupExpiredNodes only deletes records that nobody could see.         *)
LEMMA LeaseCleanup ==
  ASSUME LeaseSafe, LeaseInv, OneInLease, TypeInv', NEW t \in Threads,
         Scan(t) \/ CleanSkip(t) \/ CleanDelete(t) \/ CleanDone(t)
  PROVE  Owns' /\ UNCHANGED LeaseVars
<1> USE DEF LeaseInv, TypeInv, TypeOK, LocalTypeOK, SharedTypeOK, Go, At, redis,
            locals, Continue
<1>1. Others(t)
  BY OthersKeep DEF Steps
<1>0. pc[t] \in InLease
  BY DEF Scan, CleanSkip, CleanDelete, CleanDone, Check, HbGet, Store, UnGet, UnNode,
     InLease, InRegister, InUnregister
<1>2. OwnsBy(t)
  BY DEF Owns
<1>3. pc[t] \in {"scan", "clean"} /\ pc'[t] \in {"clean", "check", "idle"}
  BY DEF Scan, CleanSkip, CleanDelete, CleanDone, Return
<1>4. LeavingSeen' = LeavingSeen
  BY <1>1, <1>3, LeavingQuiet DEF InLeave
<1>5. CASE Scan(t)
  <2>1. PICK o \in Outcomes("hGetAll") : Scan(t)!(o)
    BY <1>5 DEF Scan
  <2>2. /\ pc[t] = "scan" /\ pc'[t] = "clean" /\ UNCHANGED <<nodes, req>>
        /\ snap'[t] = HGetAll(o, nodes)
    BY <2>1
  <2>3. \A n \in Names : snap'[t][n] # None => nodes'[n] = snap'[t][n]
    BY <2>2 DEF HGetAll
  <2>4. OwnsBy(t)'
    BY <1>2, <2>2, <2>3 DEF OwnsBy, InUnregister, InRegister
  <2>5. LeaseSeen' = LeaseSeen
    BY <2>2 DEF LeaseSeen
  <2>6. QED BY <1>0, <1>1, <1>4, <2>4, <2>5, OwnsOthers DEF LeaseVars
<1>6. CASE CleanSkip(t)
  <2>1. PICK n \in Names : CleanSkip(t)!(n)
    BY <1>6 DEF CleanSkip
  <2>2. /\ pc[t] = "clean" /\ pc'[t] = "clean" /\ UNCHANGED <<nodes, req>>
        /\ snap'[t] = [snap[t] EXCEPT ![n] = None]
    BY <2>1
  <2>3. \A x \in Names : snap'[t][x] # None => nodes'[x] = snap'[t][x]
    BY <1>2, <2>2 DEF OwnsBy
  <2>4. OwnsBy(t)'
    BY <1>2, <2>2, <2>3 DEF OwnsBy, InUnregister, InRegister
  <2>5. LeaseSeen' = LeaseSeen
    BY <2>2 DEF LeaseSeen
  <2>6. QED BY <1>0, <1>1, <1>4, <2>4, <2>5, OwnsOthers DEF LeaseVars
<1>7. CASE CleanDelete(t)
  <2>1. PICK n \in Names, o \in Outcomes("hDel") : CleanDelete(t)!(n, o)
    BY <1>7 DEF CleanDelete
  <2>2. /\ pc[t] = "clean" /\ pc'[t] = "clean" /\ req' = req
        /\ snap'[t] = [snap[t] EXCEPT ![n] = None]
        /\ snap[t][n] # None /\ ~Alive(snap[t][n])
    BY <2>1
  <2>3. nodes' = nodes \/ nodes' = [nodes EXCEPT ![n] = None]
    BY <2>1 DEF HDel
  <2>4. ~Alive(nodes[n]) /\ ~Alive(None)
    BY <1>2, <2>2 DEF OwnsBy, Alive, Parses
  <2>5. \A x \in Names : snap'[t][x] # None => nodes'[x] = snap'[t][x]
    BY <1>2, <2>2, <2>3 DEF OwnsBy
  <2>6. OwnsBy(t)'
    BY <1>2, <2>2, <2>5 DEF OwnsBy, InUnregister, InRegister
  <2>7. \A x \in Names : nodes'[x] = nodes[x] \/ (~Alive(nodes'[x]) /\ ~Alive(nodes[x]))
    BY <2>3, <2>4
  <2>8. LeaseSeen' = LeaseSeen
    BY <2>7 DEF LeaseSeen
  <2>9. QED BY <1>0, <1>1, <1>4, <2>6, <2>8, OwnsOthers DEF LeaseVars
<1>8. CASE CleanDone(t)
  <2>1. /\ pc[t] = "clean" /\ pc'[t] \in {"check", "idle"} /\ nodes' = nodes
        /\ pc'[t] = "check" => req' = req
    BY <1>8 DEF CleanDone, Return
  <2>2. OwnsBy(t)'
    BY <1>2, <2>1 DEF OwnsBy, InUnregister, InRegister
  <2>3. LeaseSeen' = LeaseSeen
    BY <2>1 DEF LeaseSeen
  <2>4. QED BY <1>0, <1>1, <1>4, <2>2, <2>3, OwnsOthers DEF LeaseVars
<1>9. QED BY <1>5, <1>6, <1>7, <1>8

LEMMA Renewed ==
  ASSUME NEW x \in Record, x.complete
  PROVE  LET r == [x EXCEPT !.lease = NodeTtl]
         IN  /\ r \in Record /\ r # None
             /\ r.inst = x.inst /\ r.complete /\ r.lease = NodeTtl
<1>1. [x EXCEPT !.lease = NodeTtl] \in Record
  BY RegistryAssumption DEF Record
<1>2. QED BY <1>1, RegistryAssumption DEF Record

(* registerNode and heartbeat: the record is stored by the owner of the    *)
(* name, or under a name that is free.                                     *)
LEMMA LeaseGrant ==
  ASSUME LeaseSafe, LeaseInv, OneInLease, TypeInv', NEW t \in Threads,
         Check(t) \/ HbGet(t) \/ Store(t)
  PROVE  Owns' /\ [Lease!Next]_LeaseVars
<1> DEFINE n == req[t].name
<1> USE DEF LeaseInv, TypeInv, TypeOK, LocalTypeOK, SharedTypeOK, Go, At, redis
<1>1. Others(t)
  BY OthersKeep DEF Steps
<1>0. pc[t] \in InLease
  BY DEF Scan, CleanSkip, CleanDelete, CleanDone, Check, HbGet, Store, UnGet, UnNode,
     InLease, InRegister, InUnregister
<1>2. OwnsBy(t)
  BY DEF Owns
<1>3. pc[t] \in {"check", "hbGet", "store"} /\ pc'[t] \in {"store", "idle"}
  BY DEF Check, HbGet, Store, Return
<1>4. LeavingSeen' = LeavingSeen
  BY <1>1, <1>3, LeavingQuiet DEF InLeave
<1>5. CASE pc'[t] = "idle" /\ nodes' = nodes
  <2>1. OwnsBy(t)'
    BY <1>5 DEF OwnsBy, InUnregister, InRegister
  <2>2. LeaseSeen' = LeaseSeen
    BY <1>5 DEF LeaseSeen
  <2>3. QED BY <1>0, <1>1, <1>4, <2>1, <2>2, OwnsOthers DEF LeaseVars
<1>6. CASE Check(t) /\ pc'[t] # "idle"
  <2>1. PICK o \in Outcomes("hGet") : Check(t)!(o)
    BY <1>6 DEF Check
  <2>2. ~Return(t) /\ nodes' = nodes
    BY <1>6, <2>1 DEF Return
  <2> DEFINE r == [inst |-> req[t].inst, lease |-> NodeTtl, complete |-> req[t].complete]
  <2>3. /\ ~Taken(GetNode(o, n), req[t].inst)
        /\ rec'[t] = r /\ pc'[t] = "store" /\ req' = req /\ pc[t] = "check"
    BY <2>1, <2>2
  <2>4. n \in Names /\ req[t].complete /\ r \in Record
    BY <1>2, <2>3, RegistryAssumption
       DEF RequestsOK, RequestOK, OwnsBy, InRegister, Request, Record
  <2>5. r # None /\ r.complete /\ r.inst = req[t].inst /\ r.lease = NodeTtl
    BY <2>4, RegistryAssumption
  <2>6. GetNode(o, n) = IF Alive(nodes[n]) THEN nodes[n] ELSE None
    BY SureOutcome DEF LeaseSafe, GetNode, HGet
  <2>7. Alive(nodes[n]) => nodes[n].inst = req[t].inst /\ nodes[n].lease <= NodeTtl
    BY <2>3, <2>4, <2>6, LeaseSeenIs, RegistryAssumption DEF Taken
  <2> HIDE DEF r
  <2>8. OwnsBy(t)'
    BY <2>2, <2>3, <2>4, <2>5, <2>7 DEF OwnsBy, InUnregister, InRegister
  <2>9. LeaseSeen' = LeaseSeen
    BY <2>2 DEF LeaseSeen
  <2>10. QED BY <1>0, <1>1, <1>4, <2>8, <2>9, OwnsOthers DEF LeaseVars
<1>7. CASE HbGet(t) /\ pc'[t] # "idle"
  <2>1. PICK o \in Outcomes("hGet") : HbGet(t)!(o)
    BY <1>7 DEF HbGet
  <2>2. ~Return(t) /\ nodes' = nodes
    BY <1>7, <2>1 DEF Return
  <2> DEFINE e == GetNode(o, n)
             r == [e EXCEPT !.lease = NodeTtl]
  <2>3. /\ e # None /\ ~Taken(e, req[t].inst)
        /\ rec'[t] = r /\ pc'[t] = "store" /\ req' = req /\ pc[t] = "hbGet"
    BY <2>1, <2>2
  <2>4. n \in Names
    BY <2>3 DEF RequestsOK, RequestOK
  <2>5. e = nodes[n] /\ Alive(nodes[n])
    BY <2>3 DEF GetNode, HGet, Alive, Parses
  <2>6. e \in Record /\ e.complete
    BY <2>4, <2>5, LeaseSeenIs DEF Alive, Parses
  <2> HIDE DEF e
  <2>7. r.inst = e.inst /\ r.complete /\ r.lease = NodeTtl /\ r # None
    BY <2>6, Renewed
  <2>8. nodes[n].lease <= NodeTtl
    <3>1. nodes[n].lease \in 0 .. NodeTtl
      BY <2>4, <2>5, LeaseSeenIs
    <3>2. QED BY <3>1, RegistryAssumption
  <2> HIDE DEF r
  <2>9. OwnsBy(t)'
    BY <2>2, <2>3, <2>4, <2>5, <2>7, <2>8 DEF OwnsBy, InUnregister, InRegister
  <2>10. LeaseSeen' = LeaseSeen
    BY <2>2 DEF LeaseSeen
  <2>11. QED BY <1>0, <1>1, <1>4, <2>9, <2>10, OwnsOthers DEF LeaseVars
<1>8. CASE Store(t) /\ nodes' # nodes
  <2>1. PICK o \in Outcomes("hSet") : Store(t)!(o)
    BY <1>8 DEF Store
  <2>2. /\ nodes' = [nodes EXCEPT ![n] = rec[t]] /\ pc[t] = "store"
        /\ pc'[t] = "idle"
    BY <1>8, <2>1 DEF HSet, Return
  <2>3. OwnsBy(t)'
    BY <2>2 DEF OwnsBy, InUnregister, InRegister
  <2>4. /\ n \in Names /\ rec[t] \in Record /\ rec[t].complete /\ rec[t] # None
        /\ Alive(nodes[n]) => /\ nodes[n].inst = rec[t].inst
                              /\ nodes[n].lease <= rec[t].lease
    BY <1>2, <2>2 DEF OwnsBy
  <2>5. nodes'[n] = rec[t] /\ \A x \in Names \ {n} : nodes'[x] = nodes[x]
    BY <2>2, <2>4
  <2>6. CASE rec[t].lease >= 0
    <3> DEFINE w == [inst |-> rec[t].inst, left |-> rec[t].lease]
    <3>1. Alive(nodes'[n])
      BY <2>4, <2>5, <2>6 DEF Alive, Parses
    <3>2. LeaseSeen' = [LeaseSeen EXCEPT ![n] = w]
      BY <2>4, <2>5, <3>1 DEF LeaseSeen
    <3>3. rec[t].inst \in Instances /\ rec[t].lease \in 0 .. NodeTtl
      BY <2>4, <2>6, RegistryAssumption DEF Record
    <3>4. \/ LeaseSeen[n] = None
          \/ LeaseSeen[n].inst = rec[t].inst /\ LeaseSeen[n].left <= rec[t].lease
      BY <2>4, LeaseSeenIs
    <3>5. Lease!Grant(n, rec[t].inst, rec[t].lease)
      BY <1>4, <3>2, <3>4 DEF Lease!Grant
    <3>6. QED BY <1>0, <1>1, <2>3, <2>4, <3>3, <3>5, OwnsOthers DEF Lease!Next
  <2>7. CASE ~(rec[t].lease >= 0)
    <3>1. ~Alive(nodes'[n])
      BY <2>5, <2>7 DEF Alive
    <3>2. ~Alive(nodes[n])
      BY <2>4, <2>7, LeaseSeenIs, RegistryAssumption DEF Record
    <3>3. LeaseSeen' = LeaseSeen
      BY <2>5, <3>1, <3>2 DEF LeaseSeen
    <3>4. QED BY <1>0, <1>1, <1>4, <2>3, <3>3, OwnsOthers DEF LeaseVars
  <2>8. QED BY <2>6, <2>7
<1>9. nodes' # nodes => Store(t)
  BY DEF Check, HbGet, Store
<1>10. Store(t) => pc'[t] = "idle"
  BY DEF Store, Return
<1>11. QED BY <1>3, <1>5, <1>6, <1>7, <1>8, <1>9, <1>10

(* unregisterNode: accepted from the owner or from one who names no        *)
(* instance, carried out by the HDEL at its end.                           *)
LEMMA LeaseRelease ==
  ASSUME LeaseSafe, LeaseInv, OneInLease, TypeInv', NEW t \in Threads,
         UnGet(t) \/ UnNode(t)
  PROVE  Owns' /\ [Lease!Next]_LeaseVars
<1> DEFINE n == req[t].name
           i == req[t].inst
<1> USE DEF LeaseInv, TypeInv, TypeOK, LocalTypeOK, SharedTypeOK, Go, At, redis,
            locals, Continue
<1>1. Others(t)
  BY OthersKeep DEF Steps
<1>0. pc[t] \in InLease
  BY DEF Scan, CleanSkip, CleanDelete, CleanDone, Check, HbGet, Store, UnGet, UnNode,
     InLease, InRegister, InUnregister
<1>2. OwnsBy(t)
  BY DEF Owns
<1>3. n \in Names /\ i \in Instances
  BY <1>2 DEF UnGet, UnNode, OwnsBy, RequestsOK, RequestOK, InUnregister
<1>4. CASE UnGet(t)
  <2>1. PICK o \in Outcomes("hGet") : UnGet(t)!(o)
    BY <1>4 DEF UnGet
  <2>2. pc[t] = "unGet" /\ nodes' = nodes /\ pc'[t] \in {"idle", "unMembers"}
    BY <2>1 DEF Return
  <2>3. LeaseSeen' = LeaseSeen
    BY <2>2 DEF LeaseSeen
  <2>4. LeavingSeen = {}
    BY <1>0, <1>1, <2>2, LeavingBy DEF InLeave
  <2>5. CASE pc'[t] = "idle"
    <3>1. OwnsBy(t)'
      BY <2>5 DEF OwnsBy, InUnregister, InRegister
    <3>2. LeavingSeen' = {}
      BY <1>0, <1>1, <2>5, LeavingBy DEF InLeave
    <3>3. QED BY <1>0, <1>1, <2>3, <2>4, <3>1, <3>2, OwnsOthers DEF LeaseVars
  <2>6. CASE pc'[t] = "unMembers"
    <3>1. ~Return(t)
      BY <2>6 DEF Return
    <3>2. /\ req' = req /\ GetNode(o, n) # None
          /\ i = None \/ GetNode(o, n).inst = i
      BY <2>1, <3>1 DEF Taken
    <3>3. GetNode(o, n) = nodes[n] /\ Alive(nodes[n])
      BY <3>2 DEF GetNode, HGet, Alive, Parses
    <3>4. LeaseSeen[n] # None /\ i \in {LeaseSeen[n].inst, None}
      BY <1>3, <3>2, <3>3, LeaseSeenIs
    <3>5. LeavingSeen' = {<<n, i>>}
      BY <1>0, <1>1, <2>6, <3>2, LeavingBy DEF InLeave
    <3>6. Lease!Leave(n, i)
      BY <2>3, <2>4, <3>4, <3>5 DEF Lease!Leave
    <3>7. OwnsBy(t)'
      BY <1>3, <2>6, <3>2 DEF OwnsBy, InUnregister, InRegister
    <3>8. QED BY <1>0, <1>1, <1>3, <3>6, <3>7, OwnsOthers DEF Lease!Next
  <2>7. QED BY <2>2, <2>5, <2>6
<1>5. CASE UnNode(t)
  <2>1. PICK o \in Outcomes("hDel") : UnNode(t)!(o)
    BY <1>5 DEF UnNode
  <2>2. pc[t] = "unNode" /\ pc'[t] = "idle"
    BY <2>1 DEF Return
  <2>3. LeavingSeen = {<<n, i>>} /\ LeavingSeen' = {}
    BY <1>0, <1>1, <2>2, LeavingBy DEF InLeave
  <2>4. OwnsBy(t)'
    BY <2>2 DEF OwnsBy, InUnregister, InRegister
  <2>5. CASE nodes' = nodes
    <3>1. LeaseSeen' = LeaseSeen
      BY <2>5 DEF LeaseSeen
    <3>2. Lease!GiveUp(n, i)
      BY <2>3, <3>1 DEF Lease!GiveUp
    <3>3. QED BY <1>0, <1>1, <1>3, <2>4, <3>2, OwnsOthers DEF Lease!Next
  <2>6. CASE nodes' = [nodes EXCEPT ![n] = None]
    <3>1. LeaseSeen' = [LeaseSeen EXCEPT ![n] = None]
      BY <1>3, <2>6 DEF LeaseSeen, Alive, Parses
    <3>2. Lease!Release(n, i)
      BY <2>3, <3>1 DEF Lease!Release
    <3>3. QED BY <1>0, <1>1, <1>3, <2>4, <3>2, OwnsOthers DEF Lease!Next
  <2>7. QED BY <2>1, <2>5, <2>6 DEF HDel
<1>6. QED BY <1>4, <1>5

(* A second for one record.                                                *)
LEMMA Aged ==
  ASSUME NEW x \in Record
  PROVE  /\ AgeRecord(x) \in Record /\ AgeRecord(x) # None
         /\ AgeRecord(x).inst = x.inst /\ AgeRecord(x).complete = x.complete
         /\ AgeRecord(x).lease = IF x.lease = -1 THEN -1 ELSE x.lease - 1
<1>1. CASE x.lease = -1
  BY <1>1, RegistryAssumption DEF AgeRecord
<1>2. CASE x.lease # -1
  <2>1. AgeRecord(x) = [x EXCEPT !.lease = @ - 1]
    BY <1>2, RegistryAssumption DEF AgeRecord
  <2>2. AgeRecord(x) \in Record
    BY <1>2, <2>1, RegistryAssumption DEF Record
  <2>3. QED BY <1>2, <2>1, <2>2, RegistryAssumption DEF Record
<1>3. QED BY <1>1, <1>2

(* The clock, a crash and a node that stops.                               *)
LEMMA LeaseEnvironment ==
  ASSUME LeaseSafe, LeaseInv, TypeInv', Tick \/ Crash \/ NodeStops
  PROVE  Owns' /\ [Lease!Next]_LeaseVars
<1> USE DEF LeaseInv, TypeInv, TypeOK, LocalTypeOK, SharedTypeOK
<1>1. CASE Tick
  <2>1. /\ UNCHANGED <<pc, req>>
        /\ \A n \in Names : nodes'[n] = AgeRecord(nodes[n])
        /\ \A t \in Threads : /\ rec'[t] = AgeRecord(rec[t])
                              /\ \A n \in Names : snap'[t][n] = AgeRecord(snap[t][n])
    BY <1>1 DEF Tick
  <2>2. AgeRecord(None) = None
    BY DEF AgeRecord
  <2>3. LeavingSeen' = LeavingSeen
    BY <2>1 DEF LeavingSeen
  <2>4. ASSUME NEW n \in Names
        PROVE  LeaseSeen'[n] = IF LeaseSeen[n] = None \/ LeaseSeen[n].left = 0 THEN None
                               ELSE [LeaseSeen[n] EXCEPT !.left = @ - 1]
    <3>1. LeaseSeen'[n] = IF Alive(nodes'[n])
                          THEN [inst |-> nodes'[n].inst, left |-> nodes'[n].lease] ELSE None
      BY DEF LeaseSeen
    <3>2. CASE nodes[n] = None
      BY <2>1, <2>2, <3>1, <3>2 DEF LeaseSeen, Alive, Parses
    <3>3. CASE nodes[n] \in Record
      <4> DEFINE x == nodes[n]
      <4>1. /\ nodes'[n] # None /\ nodes'[n].inst = x.inst
            /\ nodes'[n].complete = x.complete
            /\ nodes'[n].lease = IF x.lease = -1 THEN -1 ELSE x.lease - 1
            /\ x.lease \in -1 .. NodeTtl /\ x # None
        BY <2>1, <3>3, Aged, RegistryAssumption DEF Record
      <4>2. CASE ~Alive(x)
        <5>1. ~Alive(nodes'[n])
          BY <4>1, <4>2, RegistryAssumption DEF Alive, Parses
        <5>2. QED BY <3>1, <4>2, <5>1, LeaseSeenIs
      <4>3. CASE Alive(x) /\ x.lease = 0
        <5>1. ~Alive(nodes'[n])
          BY <4>1, <4>3 DEF Alive
        <5>2. LeaseSeen[n].left = 0
          BY <4>3, LeaseSeenIs
        <5>3. QED BY <3>1, <5>1, <5>2
      <4>4. CASE Alive(x) /\ x.lease # 0
        <5>1. x.lease \in 1 .. NodeTtl
          BY <4>1, <4>4, RegistryAssumption DEF Alive
        <5>2. Alive(nodes'[n])
          BY <4>1, <4>4, <5>1, RegistryAssumption DEF Alive, Parses
        <5>3. LeaseSeen[n] = [inst |-> x.inst, left |-> x.lease]
          BY <4>4 DEF LeaseSeen
        <5>4. LeaseSeen'[n] = [inst |-> x.inst, left |-> x.lease - 1]
          BY <3>1, <4>1, <5>1, <5>2, RegistryAssumption
        <5>5. LeaseSeen[n] # None /\ LeaseSeen[n].left # 0
          BY <4>4, LeaseSeenIs
        <5>6. QED BY <5>3, <5>4, <5>5
      <4>5. QED BY <4>2, <4>3, <4>4
    <3>4. QED BY <3>2, <3>3
  <2>5. LeaseSeen' = [n \in Names |-> LeaseSeen'[n]]
    BY DEF LeaseSeen
  <2>6. Lease!Age
    BY <2>3, <2>4, <2>5 DEF Lease!Age
  <2>7. ASSUME NEW t \in Threads PROVE OwnsBy(t)'
    <3>1. OwnsBy(t)
      BY DEF Owns
    <3>2. ASSUME pc[t] = "clean", NEW n \in Names, snap'[t][n] # None
          PROVE  nodes'[n] = snap'[t][n]
      BY <2>1, <2>2, <3>1, <3>2 DEF OwnsBy
    <3>3. ASSUME pc[t] = "store"
          PROVE  /\ req[t].name \in Names /\ rec'[t] # None /\ rec'[t].complete
                 /\ Alive(nodes'[req[t].name]) =>
                      /\ nodes'[req[t].name].inst = rec'[t].inst
                      /\ nodes'[req[t].name].lease <= rec'[t].lease
      <4> DEFINE n == req[t].name
                 x == nodes[n]
                 y == rec[t]
      <4>1. /\ n \in Names /\ y \in Record /\ y.complete
            /\ Alive(x) => x.inst = y.inst /\ x.lease <= y.lease
        BY <3>1, <3>3 DEF OwnsBy
      <4>2. /\ rec'[t] # None /\ rec'[t].complete = y.complete /\ rec'[t].inst = y.inst
            /\ rec'[t].lease = IF y.lease = -1 THEN -1 ELSE y.lease - 1
            /\ y.lease \in -1 .. NodeTtl
        <5>1. rec'[t] = AgeRecord(y) /\ y.lease \in -1 .. NodeTtl
          BY <2>1, <4>1 DEF Record
        <5>2. QED BY <4>1, <5>1, Aged
      <4>3. ASSUME Alive(nodes'[n])
            PROVE  nodes'[n].inst = rec'[t].inst /\ nodes'[n].lease <= rec'[t].lease
        <5>1. x \in Record
          BY <2>1, <2>2, <4>1, <4>3 DEF Alive, Parses
        <5>2. /\ nodes'[n].inst = x.inst /\ nodes'[n].complete = x.complete
              /\ nodes'[n].lease = IF x.lease = -1 THEN -1 ELSE x.lease - 1
              /\ x.lease \in -1 .. NodeTtl /\ x # None
          BY <2>1, <4>1, <5>1, Aged, RegistryAssumption DEF Record
        <5>3. x.lease \in 1 .. NodeTtl /\ Alive(x)
          BY <4>3, <5>2, RegistryAssumption DEF Alive, Parses
        <5>4. x.inst = y.inst /\ x.lease <= y.lease
          BY <4>1, <5>3
        <5>5. QED BY <4>2, <5>2, <5>3, <5>4, RegistryAssumption
      <4>4. QED BY <4>1, <4>2, <4>3
    <3>4. QED BY <2>1, <3>1, <3>2, <3>3 DEF OwnsBy
  <2>8. QED BY <2>6, <2>7 DEF Owns, Lease!Next
<1>2. CASE Crash
  <2>1. nodes' = nodes /\ \A t \in Threads : pc'[t] = "idle"
    BY <1>2 DEF Crash, redis
  <2>2. Owns'
    BY <2>1 DEF Owns, OwnsBy, InUnregister, InRegister
  <2>3. LeaseSeen' = LeaseSeen /\ LeavingSeen' = {}
    BY <2>1 DEF LeaseSeen, LeavingSeen
  <2>4. Lease!Abandon
    BY <2>3 DEF Lease!Abandon
  <2>5. QED BY <2>2, <2>4 DEF Lease!Next
<1>3. CASE NodeStops
  BY <1>3 DEF NodeStops, redis, locals, Owns, OwnsBy, LeaseSeen, LeavingSeen, LeaseVars
<1>4. QED BY <1>1, <1>2, <1>3

LEMMA LeaseInit == Init => LeaseInv /\ Lease!Init
<1> SUFFICES ASSUME Init PROVE LeaseInv /\ Lease!Init
  OBVIOUS
<1>1. Owns
  BY DEF Init, Fresh, Owns, OwnsBy, InUnregister, InRegister
<1>2. LeaseSeen = [n \in Names |-> None]
  BY DEF Init, Fresh, LeaseSeen, Alive, Parses
<1>3. LeavingSeen = {}
  BY DEF Init, Fresh, LeavingSeen
<1>4. QED BY <1>1, <1>2, <1>3, TypeInit DEF LeaseInv, Lease!Init

LEMMA LeaseNext ==
  LeaseSafe /\ LeaseInv /\ OneInLease /\ [Next]_vars
    => LeaseInv' /\ [Lease!Next]_LeaseVars
<1> SUFFICES ASSUME LeaseSafe, LeaseInv, OneInLease, [Next]_vars
             PROVE  LeaseInv' /\ [Lease!Next]_LeaseVars
  OBVIOUS
<1>1. TypeInv'
  BY TypeNext DEF LeaseInv
<1> SUFFICES Owns' /\ [Lease!Next]_LeaseVars
  BY <1>1 DEF LeaseInv
<1>2. CASE UNCHANGED vars
  BY <1>2 DEF LeaseInv, vars, redis, locals, Owns, OwnsBy, LeaseSeen, LeavingSeen,
     LeaseVars
<1>3. ASSUME NEW t \in Threads, Boot(t) \/ Requests(t) \/ Steps(t)
      PROVE  Owns' /\ [Lease!Next]_LeaseVars
  <2>1. CASE \/ Requests(t) \/ Boot(t)
             \/ UnMembers(t) \/ UnRoute(t) \/ UnRoutesDone(t) \/ UnSet(t)
             \/ BdNode(t) \/ BdOld(t) \/ BdRem(t) \/ BdSet(t) \/ BdAdd(t)
             \/ UbGet(t) \/ UbRem(t) \/ UbDel(t) \/ RfRoute(t)
    BY <1>1, <2>1, LeaseQuiet
  <2>2. CASE Scan(t) \/ CleanSkip(t) \/ CleanDelete(t) \/ CleanDone(t)
    BY <1>1, <2>2, LeaseCleanup
  <2>3. CASE Check(t) \/ HbGet(t) \/ Store(t)
    BY <1>1, <2>3, LeaseGrant
  <2>4. CASE UnGet(t) \/ UnNode(t)
    BY <1>1, <2>4, LeaseRelease
  <2>5. QED BY <1>3, <2>1, <2>2, <2>3, <2>4 DEF Steps
<1>4. CASE Tick \/ Crash \/ NodeStops
  BY <1>1, <1>4, LeaseEnvironment
<1>5. QED BY <1>2, <1>3, <1>4 DEF Next

(* If registerNode, heartbeat and unregisterNode, whose HGETs are answered *)
(* and whose records are complete, never overlap each other, then a name   *)
(* has one owner at a time, whose lease is only ever extended while it     *)
(* lasts, and it is given up early only by an accepted request to          *)
(* unregister: beside any number of binds, unbinds and refreshes, and      *)
(* through crashes, other failing commands and the clock.                  *)
THEOREM NamesAreLeased == LeaseSafe /\ Spec /\ []OneInLease => LeaseSpec
<1> SUFFICES ASSUME LeaseSafe PROVE Spec /\ []OneInLease => LeaseSpec
  OBVIOUS
<1>1. LeaseInv /\ OneInLease /\ [Next]_vars => LeaseInv' /\ [Lease!Next]_LeaseVars
  BY LeaseNext
<1>2. QED BY <1>1, LeaseInit, PTL DEF Spec, LeaseSpec, Lease!Spec, LeaseVars

(* Under the same hypotheses no registration takes a live name from        *)
(* another instance, as NodeRegistry.h:31 claims without them: two         *)
(* registrations at a time, or one HGET that fails, and registerNode       *)
(* stores over a live name (and an incomplete record of the owner itself   *)
(* ends its lease, so that the name passes on at once).                    *)
THEOREM NoTakeoverAlone == LeaseSafe /\ Spec /\ []OneInLease => NoTakeover
<1> SUFFICES ASSUME LeaseSafe PROVE Spec /\ []OneInLease => NoTakeover
  OBVIOUS
<1> DEFINE Keeps == \A n \in Names : Alive(nodes[n]) /\ Alive(nodes'[n])
                                       => nodes'[n].inst = nodes[n].inst
<1>1. LeaseInv /\ OneInLease /\ [Next]_vars => LeaseInv' /\ [Keeps]_nodes
  <2> SUFFICES ASSUME LeaseInv, OneInLease, [Next]_vars PROVE LeaseInv' /\ Keeps
    OBVIOUS
  <2>1. LeaseInv' /\ [Lease!Next]_LeaseVars
    BY LeaseNext
  <2>2. ASSUME NEW n \in Names, Alive(nodes[n]), Alive(nodes'[n])
        PROVE  nodes'[n].inst = nodes[n].inst
    <3>1. LeaseSeen[n] # None /\ LeaseSeen[n].inst = nodes[n].inst
      BY <2>2, LeaseSeenIs DEF LeaseInv, TypeInv, TypeOK
    <3>2. LeaseSeen'[n] # None /\ LeaseSeen'[n].inst = nodes'[n].inst
      <4>1. nodes'[n] \in Record /\ nodes'[n].lease \in 0 .. NodeTtl
        BY <2>1, <2>2, RegistryAssumption
           DEF LeaseInv, TypeInv, TypeOK, SharedTypeOK, Alive, Parses, Record
      <4>2. LeaseSeen'[n] = [inst |-> nodes'[n].inst, left |-> nodes'[n].lease]
        BY <2>2 DEF LeaseSeen
      <4>3. LeaseSeen'[n] \in Owner
        BY <4>1, <4>2 DEF Owner, Record
      <4>4. QED BY <4>2, <4>3, RegistryAssumption
    <3>3. DOMAIN LeaseSeen = Names
      BY DEF LeaseSeen
    <3>4. CASE UNCHANGED LeaseSeen
      BY <3>1, <3>2, <3>4
    <3>5. ASSUME NEW k \in Names, NEW i \in Instances, NEW l, Lease!Grant(k, i, l)
          PROVE  LeaseSeen'[n].inst = LeaseSeen[n].inst
      <4>1. LeaseSeen' = [LeaseSeen EXCEPT ![k] = [inst |-> i, left |-> l]]
        BY <3>5 DEF Lease!Grant
      <4>2. CASE k = n
        BY <3>1, <3>3, <3>5, <4>1, <4>2 DEF Lease!Grant
      <4>3. CASE k # n
        BY <3>3, <4>1, <4>3
      <4>4. QED BY <4>2, <4>3
    <3>6. ASSUME NEW k \in Names, NEW i \in Instances, Lease!Release(k, i)
          PROVE  LeaseSeen'[n].inst = LeaseSeen[n].inst
      BY <3>2, <3>3, <3>6 DEF Lease!Release
    <3>7. CASE Lease!Age
      <4>1. LeaseSeen[n] = [inst |-> nodes[n].inst, left |-> nodes[n].lease]
        BY <2>2 DEF LeaseSeen
      <4>2. LeaseSeen'[n] = IF LeaseSeen[n] = None \/ LeaseSeen[n].left = 0 THEN None
                            ELSE [LeaseSeen[n] EXCEPT !.left = @ - 1]
        BY <3>7 DEF Lease!Age
      <4>3. QED BY <3>2, <4>1, <4>2
    <3>8. CASE \E k \in Names, i \in Instances : Lease!Leave(k, i) \/ Lease!GiveUp(k, i)
      BY <3>4, <3>8 DEF Lease!Leave, Lease!GiveUp
    <3>9. CASE Lease!Abandon
      BY <3>4, <3>9 DEF Lease!Abandon
    <3>10. QED
      BY <2>1, <3>1, <3>2, <3>4, <3>5, <3>6, <3>7, <3>8, <3>9 DEF Lease!Next, LeaseVars
  <2>3. QED BY <2>1, <2>2
<1>2. QED BY <1>1, LeaseInit, PTL DEF Spec, NoTakeover
=============================================================================
