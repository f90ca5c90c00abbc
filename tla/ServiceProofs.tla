---------------------------- MODULE ServiceProofs ----------------------------
(***************************************************************************)
(* What is proved of StatusService for any users, nodes, threads, workers  *)
(* and calls: its types, that concurrent handlers leave no route behind,   *)
(* and that the selection of a node is as fresh as its reads.              *)
(***************************************************************************)
EXTENDS StatusService, NodeRegistryProofs, FiniteSetTheorems

-----------------------------------------------------------------------------
(* What a step of the handlers is to the registry: a step of its own, or   *)
(* at most a failed command of another part.                               *)
OnlyFaults == faults' \in 0 .. MaxFaults /\ UNCHANGED <<redis, env, pc, locals>>

LEMMA FaultsOK ==
  ASSUME TypeOK, NEW cmd, NEW o \in Outcomes(cmd), Charge(o),
         UNCHANGED <<redis, env, pc, locals>>
  PROVE  OnlyFaults
BY ChargeOK DEF OnlyFaults, TypeOK, SharedTypeOK

LEMMA HandlerFaults ==
  ASSUME TypeOK, NEW t \in Threads,
         \/ OldRoute(t) \/ OldNode(t) \/ FindToken(t) \/ DropToken(t)
         \/ List(t) \/ Count(t) \/ SaveHash(t) \/ SaveIndex(t)
  PROVE  OnlyFaults
<1>1. CASE OldRoute(t) BY <1>1, FaultsOK DEF OldRoute
<1>2. CASE OldNode(t) BY <1>2, FaultsOK DEF OldNode
<1>3. CASE FindToken(t) BY <1>3, FaultsOK DEF FindToken
<1>4. CASE DropToken(t) BY <1>4, FaultsOK DEF DropToken
<1>5. CASE List(t) BY <1>5, FaultsOK DEF List
<1>6. CASE Count(t) BY <1>6, FaultsOK DEF Count
<1>7. CASE SaveHash(t) BY <1>7, FaultsOK DEF SaveHash
<1>8. CASE SaveIndex(t) BY <1>8, FaultsOK DEF SaveIndex
<1>9. QED BY <1>1, <1>2, <1>3, <1>4, <1>5, <1>6, <1>7, <1>8

LEMMA RegistryStep ==
  ASSUME TypeOK, ServeTypeOK, [ServiceNext]_allvars
  PROVE  [Next]_vars \/ OnlyFaults
<1>1. CASE UNCHANGED allvars BY <1>1 DEF allvars
<1>2. ASSUME NEW t \in Threads, RegistryCall(t) \/ BindUserToNode(t) PROVE Next
  BY <1>2 DEF RegistryCall, BindUserToNode, Next, Requests
<1>3. ASSUME NEW t \in Threads,
             GetChatServer(t) \/ Logout(t) \/ UnbindUserCall(t) \/ NotifyUserOnline(t)
      PROVE  UNCHANGED vars
  BY <1>3 DEF GetChatServer, Logout, UnbindUserCall, NotifyUserOnline, Handler
<1>4. ASSUME NEW t \in Threads, MethodStep(t) PROVE Next
  BY <1>4 DEF MethodStep, Next
<1>5. ASSUME NEW t \in Threads, Clear(t) PROVE Next
  <2>1. serve[t].uid \in Uids BY <1>5 DEF Clear, Stage, ServeTypeOK
  <2>2. UnbindUser(t) BY <1>5, <2>1 DEF Clear, UnbindUser
  <2>3. QED BY <2>2 DEF Next, Requests
<1>6. ASSUME NEW t \in Threads, HandlerStep(t) PROVE Next \/ UNCHANGED vars \/ OnlyFaults
  BY <1>5, <1>6, HandlerFaults DEF HandlerStep, Kick, Tell
<1>7. ASSUME NEW w \in Workers, Take(w) \/ Notify(w) PROVE UNCHANGED vars
  BY <1>7 DEF Take, Notify
<1>8. CASE Tick /\ UNCHANGED svars BY <1>8 DEF Next
<1>9. QED BY <1>1, <1>2, <1>3, <1>4, <1>6, <1>7, <1>8 DEF ServiceNext

-----------------------------------------------------------------------------
(* A set of users, and what changes in the sets at once, can be counted.   *)
LEMMA LoadOK ==
  ASSUME SharedTypeOK, NEW n \in Names
  PROVE  Load(n) \in 0 .. Cardinality(Uids)
<1>1. members[n] \in SUBSET Uids BY DEF SharedTypeOK
<1>2. IsFiniteSet(Uids) BY ServiceAssumption
<1>3. IsFiniteSet(members[n]) /\ Cardinality(members[n]) <= Cardinality(Uids)
  BY <1>1, <1>2, FS_Subset
<1>4. QED BY <1>2, <1>3, FS_CardinalityType DEF Load

LEMMA MovesOK == Moves \in Nat
<1> DEFINE M == {m \in Names \X Uids : (m[2] \in members[m[1]]) # (m[2] \in members'[m[1]])}
<1>1. IsFiniteSet(Names \X Uids) BY ServiceAssumption, FS_Product
<1>2. M \in SUBSET (Names \X Uids) OBVIOUS
<1>3. IsFiniteSet(M) BY <1>1, <1>2, FS_Subset
<1>4. QED BY <1>3, FS_CardinalityType DEF Moves

LEMMA NoSelectionOK == NoSelection \in Selection
<1>1. Cardinality(Uids) \in Nat BY ServiceAssumption, FS_CardinalityType
<1>2. QED BY <1>1 DEF NoSelection, Selection

(* A selection that drifts stays a selection.                              *)
LEMMA DriftOK ==
  ASSUME NEW s \in Selection, NEW d \in Nat PROVE Drift(s, d) \in Selection
<1>1. Cardinality(Uids) \in Nat BY ServiceAssumption, FS_CardinalityType
<1>2. Least(s.drift + d, Cardinality(Uids)) \in 0 .. Cardinality(Uids)
  BY <1>1 DEF Selection, Least
<1>3. QED BY <1>2 DEF Drift, Selection

LEMMA ShiftOK ==
  ASSUME ServeTypeOK, Shift
  PROVE  /\ sel' \in [Threads -> Selection]
         /\ \A t \in Threads : serve[t].at = "count" \/ sel'[t] = sel[t]
<1>1. ASSUME NEW t \in Threads PROVE Drift(sel[t], Moves) \in Selection
  BY MovesOK, DriftOK DEF ServeTypeOK
<1>2. QED BY <1>1 DEF Shift, ServeTypeOK

-----------------------------------------------------------------------------
(* What a thread serves is replaced, and selections drift.                 *)
LEMMA ServeStep ==
  ASSUME ServeTypeOK, NEW t \in Threads, NEW x \in Serving,
         serve' = [serve EXCEPT ![t] = x],
         x.at # "idle" => x.uid \in Uids,
         x.at \notin {"idle", "bind"} => x.call \in Calls,
         x.at = "oldNode" => x.node \in Names,
         sel' \in [Threads -> Selection],
         \A r \in Threads \ {t} : sel'[r] = sel[r] \/ serve[r].at = "count",
         sel'[t] = NoSelection \/ x.at = "count"
  PROVE  ServeTypeOK'
<1>1. serve' \in [Threads -> Serving] BY DEF ServeTypeOK
<1>2. ASSUME NEW r \in Threads
      PROVE  /\ serve'[r].at # "idle" => serve'[r].uid \in Uids
             /\ serve'[r].at \notin {"idle", "bind"} => serve'[r].call \in Calls
             /\ serve'[r].at = "oldNode" => serve'[r].node \in Names
             /\ sel'[r] = NoSelection \/ serve'[r].at = "count"
  <2>1. CASE r = t BY <2>1 DEF ServeTypeOK
  <2>2. CASE r # t BY <2>2 DEF ServeTypeOK
  <2>3. QED BY <2>1, <2>2
<1>3. QED BY <1>1, <1>2 DEF ServeTypeOK

LEMMA StagedOK ==
  ASSUME NEW x \in Serving, NEW l \in Stages
  PROVE  LET y == [x EXCEPT !.at = l] IN
         /\ y \in Serving /\ y.at = l
         /\ y.uid = x.uid /\ y.call = x.call /\ y.node = x.node /\ y.op = x.op
BY DEF Serving

LEMMA NothingOK == Nothing \in Serving /\ Nothing.at = "idle"
BY ServiceAssumption DEF Nothing, Serving, Stages

(* A handler goes on to another stage, or is done.                         *)
LEMMA ProceedOK ==
  ASSUME ServeTypeOK, NEW t \in Threads, NEW l \in Stages, Proceed(t, l),
         l \notin {"idle", "bind", "oldNode"}, serve[t].at \notin {"idle", "bind"},
         sel' \in [Threads -> Selection],
         \A r \in Threads \ {t} : sel'[r] = sel[r] \/ serve[r].at = "count",
         sel'[t] = NoSelection \/ l = "count"
  PROVE  ServeTypeOK'
<1> DEFINE y == [serve[t] EXCEPT !.at = l]
<1>1. serve[t] \in Serving BY DEF ServeTypeOK
<1>2. y \in Serving /\ y.at = l /\ y.uid = serve[t].uid /\ y.call = serve[t].call
  BY <1>1, StagedOK
<1>3. serve' = [serve EXCEPT ![t] = y] BY DEF Proceed
<1>4. y.uid \in Uids /\ y.call \in Calls BY <1>2 DEF ServeTypeOK
<1> HIDE DEF y
<1>5. QED BY <1>2, <1>3, <1>4, ServeStep

LEMMA DoneOK ==
  ASSUME ServeTypeOK, NEW t \in Threads, Done(t),
         sel' \in [Threads -> Selection],
         \A r \in Threads \ {t} : sel'[r] = sel[r] \/ serve[r].at = "count",
         sel'[t] = NoSelection
  PROVE  ServeTypeOK'
BY NothingOK, ServeStep DEF Done

(* A stage that neither begins nor ends a selection.                       *)
LEMMA QuietServe ==
  ASSUME ServeTypeOK, NEW t \in Threads, sel' = sel,
         serve[t].at \notin {"idle", "bind", "count"},
         \/ Done(t)
         \/ \E l \in Stages \ {"idle", "bind", "oldNode", "count"} : Proceed(t, l)
  PROVE  ServeTypeOK'
<1>1. /\ sel' \in [Threads -> Selection] /\ sel'[t] = NoSelection
      /\ \A r \in Threads \ {t} : sel'[r] = sel[r]
  BY DEF ServeTypeOK
<1>2. QED BY <1>1, ProceedOK, DoneOK

(* A call that arrives.                                                    *)
LEMMA CallsOK ==
  ASSUME PoolTypeOK, NEW t \in Threads, Arrive(t), UNCHANGED pool
  PROVE  PoolTypeOK' /\ calls' \in Calls /\ calls' \in 0 .. MaxCalls
BY ServiceAssumption DEF PoolTypeOK, Arrive, Calls, pool

LEMMA HandlerOK ==
  ASSUME ServeTypeOK, PoolTypeOK, HistoryOK, NEW t \in Threads, NEW op \in AllHandlers,
         NEW l \in {"old", "clear", "tell"}, Handler(t, op, l)
  PROVE  ServeTypeOK' /\ PoolTypeOK' /\ HistoryOK'
<1>1. PICK u \in Uids :
        serve' = [serve EXCEPT ![t] = [at |-> l, op |-> op, uid |-> u,
                                       call |-> calls', node |-> None]]
  BY DEF Handler
<1>2. PoolTypeOK' /\ calls' \in Calls /\ calls' \in 0 .. MaxCalls
  BY CallsOK DEF Handler
<1> DEFINE x == [at |-> l, op |-> op, uid |-> u, call |-> calls', node |-> None]
<1>3. /\ x \in Serving /\ x.at \notin {"idle", "bind", "oldNode"}
      /\ x.uid \in Uids /\ x.call \in Calls
  BY <1>2 DEF Serving, Stages
<1>4. sel' = sel /\ sel[t] = NoSelection /\ HistoryOK'
  BY DEF Handler, ServeTypeOK, Arrive, Free, Stage, history, HistoryOK
<1> HIDE DEF x
<1>5. sel' \in [Threads -> Selection] BY <1>4 DEF ServeTypeOK
<1>6. serve' = [serve EXCEPT ![t] = x] BY <1>1 DEF x
<1>7. ServeTypeOK' BY <1>3, <1>4, <1>5, <1>6, ServeStep
<1>8. QED BY <1>2, <1>4, <1>7

LEMMA BindOK ==
  ASSUME ServeTypeOK, PoolTypeOK, HistoryOK, LocalTypeOK, NEW t \in Threads, BindUserToNode(t)
  PROVE  ServeTypeOK' /\ PoolTypeOK' /\ HistoryOK'
<1>1. req'[t].uid \in Uids
  BY DEF BindUserToNode, BindUser, Call, LocalTypeOK
<1>2. PICK k \in given[req'[t].uid] \cup {0} :
        serve' = [serve EXCEPT ![t] = [at |-> "bind", op |-> "bind",
                                       uid |-> req'[t].uid, call |-> k, node |-> None]]
  BY DEF BindUserToNode
<1>3. k \in 0 .. MaxCalls
  BY <1>1, ServiceAssumption DEF HistoryOK, Calls
<1> DEFINE x == [at |-> "bind", op |-> "bind", uid |-> req'[t].uid, call |-> k, node |-> None]
<1>4. x \in Serving /\ x.at = "bind" /\ x.uid \in Uids
  BY <1>1, <1>3 DEF Serving, Stages
<1>5. PoolTypeOK' /\ HistoryOK' /\ sel' = sel /\ sel[t] = NoSelection
  BY CallsOK DEF BindUserToNode, ServeTypeOK, Arrive, Free, Stage, history, HistoryOK
<1> HIDE DEF x
<1>6. sel' \in [Threads -> Selection] BY <1>5 DEF ServeTypeOK
<1>7. serve' = [serve EXCEPT ![t] = x] BY <1>2 DEF x
<1>8. ServeTypeOK' BY <1>4, <1>5, <1>6, <1>7, ServeStep
<1>9. QED BY <1>5, <1>8

LEMMA RegistryCallOK ==
  ASSUME ServeTypeOK, PoolTypeOK, HistoryOK, NEW t \in Threads, RegistryCall(t)
  PROVE  ServeTypeOK' /\ PoolTypeOK' /\ HistoryOK'
<1>1. PoolTypeOK' BY CallsOK DEF RegistryCall
<1>2. QED BY <1>1 DEF RegistryCall, ServeTypeOK, HistoryOK, history

(* A step of a method, by which the selections of others drift.            *)
LEMMA MethodOK ==
  ASSUME TypeInv, ServeTypeOK, PoolTypeOK, HistoryOK, NEW t \in Threads, MethodStep(t)
  PROVE  ServeTypeOK' /\ PoolTypeOK' /\ HistoryOK'
<1>1. /\ sel' \in [Threads -> Selection]
      /\ \A r \in Threads : serve[r].at = "count" \/ sel'[r] = sel[r]
  BY ShiftOK DEF MethodStep
<1>2. PoolTypeOK' BY DEF MethodStep, PoolTypeOK, pool
<1>3. HistoryOK'
  <2>1. given' = given BY DEF MethodStep
  <2>2. CASE session' = session BY <2>1, <2>2 DEF HistoryOK
  <2>3. CASE At(t, "bdSet") /\ session' = [session EXCEPT ![req[t].uid] = serve[t].call]
    <3>1. serve[t].call \in 0 .. MaxCalls BY DEF ServeTypeOK, Serving
    <3>2. QED BY <2>1, <2>3, <3>1 DEF HistoryOK
  <2>4. QED BY <2>2, <2>3 DEF MethodStep
<1>4. CASE serve' = serve
  <2>1. \A r \in Threads : sel'[r] = NoSelection \/ serve'[r].at = "count"
    BY <1>1, <1>4 DEF ServeTypeOK
  <2>2. ServeTypeOK' BY <1>1, <1>4, <2>1 DEF ServeTypeOK
  <2>3. QED BY <1>2, <1>3, <2>2
<1>5. CASE serve[t].at = "bind" /\ Done(t)
  <2>1. sel'[t] = NoSelection BY <1>1, <1>5 DEF ServeTypeOK
  <2>2. QED BY <1>1, <1>2, <1>3, <1>5, <2>1, DoneOK
<1>6. QED BY <1>2, <1>3, <1>4, <1>5 DEF MethodStep

(* What a notification says of its call.                                   *)
LEMMA NoteOK ==
  ASSUME NEW s \in Serving, s.uid \in Uids, s.call \in Calls PROVE NoteOf(s) \in Note
BY ServiceAssumption DEF Serving, NoteOf, Note, Calls

(* Each step of a handler.                                                 *)
LEMMA HandlerStepOK ==
  ASSUME TypeInv, ServeTypeOK, PoolTypeOK, HistoryOK, NEW t \in Threads, HandlerStep(t)
  PROVE  ServeTypeOK' /\ PoolTypeOK' /\ HistoryOK'
<1> USE DEF Stage
<1>s. serve[t] \in Serving BY DEF ServeTypeOK
<1>p. \/ UNCHANGED <<pool, calls, history>>
      \/ SaveIndex(t) /\ UNCHANGED <<pool, calls, session>>
      \/ Tell(t) /\ UNCHANGED <<work, calls, history>>
  BY DEF HandlerStep, OldRoute, OldNode, Kick, Clear, FindToken, DropToken, Tell, List,
     Count, SaveHash, SaveIndex
<1>q. UNCHANGED <<pool, calls, history>> => PoolTypeOK' /\ HistoryOK'
  BY DEF PoolTypeOK, HistoryOK, pool, history
<1>1. CASE OldRoute(t)
  <2>1. PICK o \in Outcomes("get") : OldRoute(t)!(o) BY <1>1 DEF OldRoute
  <2> DEFINE n == Get(o, routes, serve[t].uid)
  <2>2. n = None \/ n \in Names
    BY <2>1 DEF Get, ServeTypeOK, TypeInv, TypeOK, SharedTypeOK, Route
  <2>3. serve' = [serve EXCEPT ![t].node = n,
                               ![t].at = IF n = None THEN "clear" ELSE "oldNode"]
    BY <2>1
  <2> DEFINE x == [serve[t] EXCEPT !.node = n, !.at = IF n = None THEN "clear" ELSE "oldNode"]
  <2>4. serve' = [serve EXCEPT ![t] = x] BY <2>3 DEF ServeTypeOK
  <2> HIDE DEF n
  <2>5. /\ x \in Serving /\ x.at \in {"clear", "oldNode"} /\ x.uid = serve[t].uid
        /\ x.call = serve[t].call
        /\ x.at = "oldNode" => x.node \in Names
    BY <1>s, <2>2 DEF Serving, Stages
  <2> HIDE DEF x
  <2>6. serve[t].uid \in Uids /\ serve[t].call \in Calls /\ sel[t] = NoSelection /\ sel' = sel
    BY <2>1 DEF ServeTypeOK
  <2>7. sel' \in [Threads -> Selection] BY <2>6 DEF ServeTypeOK
  <2>8. ServeTypeOK' BY <2>4, <2>5, <2>6, <2>7, ServeStep
  <2>9. QED BY <1>1, <1>q, <2>8 DEF OldRoute
<1>2. CASE OldNode(t)
  <2>1. ServeTypeOK' BY <1>2, QuietServe DEF OldNode, Stages
  <2>2. QED BY <1>2, <1>q, <2>1 DEF OldNode
<1>3. CASE Kick(t)
  <2>1. ServeTypeOK' BY <1>3, QuietServe DEF Kick, Stages
  <2>2. QED BY <1>3, <1>q, <2>1 DEF Kick
<1>4. CASE Clear(t)
  <2>1. ServeTypeOK' BY <1>4, QuietServe DEF Clear, Stages
  <2>2. QED BY <1>4, <1>q, <2>1 DEF Clear
<1>5. CASE FindToken(t) \/ DropToken(t)
  <2>1. ServeTypeOK' BY <1>5, QuietServe DEF FindToken, DropToken, Cleared, Stages
  <2>2. QED BY <1>5, <1>q, <2>1 DEF FindToken, DropToken
<1>6. CASE Tell(t)
  <2>1. ServeTypeOK' BY <1>6, QuietServe DEF Tell, Stages
  <2>2. serve[t].uid \in Uids /\ serve[t].call \in Calls BY <1>6 DEF Tell, ServeTypeOK
  <2>3. NoteOf(serve[t]) \in Note BY <1>s, <2>2, NoteOK
  <2>4. PoolTypeOK' BY <1>6, <2>3 DEF Tell, PoolTypeOK
  <2>5. HistoryOK' BY <1>6 DEF Tell, HistoryOK, history
  <2>6. QED BY <2>1, <2>4, <2>5
<1>7. CASE List(t)
  <2>1. PICK o \in Outcomes("hGetAll") : List(t)!(o) BY <1>7 DEF List
  <2> DEFINE listed == {n \in ChatNodes : Alive(HGetAll(o, nodes)[n])}
  <2>2. \/ Done(t) /\ UNCHANGED sel
        \/ /\ Proceed(t, "count")
           /\ sel' = [sel EXCEPT ![t].listed = listed, ![t].left = listed]
    BY <2>1
  <2>3. listed \in SUBSET ChatNodes OBVIOUS
  <2> HIDE DEF listed
  <2>4. serve[t].at = "list" BY <2>1
  <2>5. CASE Done(t) /\ UNCHANGED sel
    <3>1. ServeTypeOK' BY <2>4, <2>5, QuietServe
    <3>2. QED BY <1>7, <1>q, <3>1 DEF List
  <2>6. CASE /\ Proceed(t, "count")
             /\ sel' = [sel EXCEPT ![t].listed = listed, ![t].left = listed]
    <3>1. sel' \in [Threads -> Selection] BY <2>3, <2>6 DEF ServeTypeOK, Selection
    <3>2. \A r \in Threads \ {t} : sel'[r] = sel[r] BY <2>6 DEF ServeTypeOK
    <3>3. ServeTypeOK' BY <2>4, <2>6, <3>1, <3>2, ProceedOK DEF Stages
    <3>4. QED BY <1>7, <1>q, <3>3 DEF List
  <2>7. QED BY <2>2, <2>5, <2>6
<1>8. CASE Count(t)
  <2>1. PICK n \in sel[t].left, o \in Outcomes("sCard") : Count(t)!(n, o) BY <1>8 DEF Count
  <2> DEFINE c    == SCard(o, members[n])
             read == Drift(Better(sel[t], n, c), Load(n) - c)
  <2>2. /\ sel' = [sel EXCEPT ![t] = [read EXCEPT !.left = sel[t].left \ {n}]]
        /\ serve' = serve /\ serve[t].at = "count"
    BY <2>1
  <2>3. sel[t] \in Selection /\ n \in Names BY ServiceAssumption DEF ServeTypeOK, Selection
  <2>4. Load(n) \in 0 .. Cardinality(Uids) /\ Cardinality(Uids) \in Nat
    BY <2>3, LoadOK, ServiceAssumption, FS_CardinalityType DEF TypeInv, TypeOK
  <2>5. c \in {Load(n), 0} BY DEF SCard, Load
  <2> HIDE DEF c
  <2>6. c \in 0 .. Cardinality(Uids) /\ Load(n) - c \in Nat BY <2>4, <2>5
  <2>7. Better(sel[t], n, c) \in Selection BY <2>3, <2>6 DEF Better, Selection
  <2>8. read \in Selection BY <2>6, <2>7, DriftOK
  <2> HIDE DEF read
  <2>9. [read EXCEPT !.left = sel[t].left \ {n}] \in Selection
    BY <2>3, <2>8 DEF Selection
  <2>10. ServeTypeOK' BY <2>2, <2>9 DEF ServeTypeOK
  <2>11. QED BY <1>8, <1>q, <2>10 DEF Count
<1>9. CASE SaveHash(t)
  <2>1. serve[t].at = "count" /\ sel' = [sel EXCEPT ![t] = NoSelection]
    BY <1>9 DEF SaveHash
  <2>2. /\ sel' \in [Threads -> Selection] /\ sel'[t] = NoSelection
        /\ \A r \in Threads \ {t} : sel'[r] = sel[r]
    BY <2>1, NoSelectionOK DEF ServeTypeOK
  <2>3. Proceed(t, "index") \/ Done(t) BY <1>9 DEF SaveHash
  <2>4. ServeTypeOK' BY <2>1, <2>2, <2>3, ProceedOK, DoneOK DEF Stages
  <2>5. QED BY <1>9, <1>q, <2>4 DEF SaveHash
<1>10. CASE SaveIndex(t)
  <2>1. serve[t].at = "index" /\ sel' = sel /\ Done(t) /\ UNCHANGED <<pool, calls, session>>
    BY <1>10 DEF SaveIndex
  <2>2. ServeTypeOK' BY <2>1, QuietServe
  <2>3. PoolTypeOK' BY <2>1 DEF PoolTypeOK, pool
  <2>4. serve[t].uid \in Uids /\ serve[t].call \in Calls BY <2>1 DEF ServeTypeOK
  <2>5. HistoryOK' BY <1>10, <2>1, <2>4 DEF SaveIndex, HistoryOK
  <2>6. QED BY <2>2, <2>3, <2>5
<1>11. QED
  BY <1>1, <1>2, <1>3, <1>4, <1>5, <1>6, <1>7, <1>8, <1>9, <1>10 DEF HandlerStep

(* The pool.                                                               *)
LEMMA PoolStepOK ==
  ASSUME ServeTypeOK, PoolTypeOK, HistoryOK, NEW w \in Workers, Take(w) \/ Notify(w)
  PROVE  ServeTypeOK' /\ PoolTypeOK' /\ HistoryOK'
<1>1. ServeTypeOK' /\ HistoryOK'
  BY DEF Take, Notify, ServeTypeOK, HistoryOK, history
<1>2. CASE Take(w)
  <2>1. Head(queue) \in Note /\ Tail(queue) \in Seq(Note)
    BY <1>2 DEF Take, PoolTypeOK
  <2>2. PoolTypeOK' BY <1>2, <2>1 DEF Take, PoolTypeOK
  <2>3. QED BY <1>1, <2>2
<1>3. CASE Notify(w)
  <2>1. PoolTypeOK' BY <1>3 DEF Notify, PoolTypeOK
  <2>2. QED BY <1>1, <2>1
<1>4. QED BY <1>2, <1>3

-----------------------------------------------------------------------------
ServiceInv == TypeInv /\ ServeTypeOK /\ PoolTypeOK /\ HistoryOK

LEMMA ServiceFresh ==
  ASSUME ServiceInit
  PROVE  ServiceInv /\ (\A u \in Uids : routes[u] # None => u \in members[routes[u].val])
<1>1. nodes \in [Names -> Record \cup {None}]
  <2>1. ASSUME NEW r \in [inst : Instances, lease : {NodeTtl}, complete : {TRUE}]
        PROVE  r \in Record
    <3>1. /\ r = [inst |-> r.inst, lease |-> r.lease, complete |-> r.complete]
          /\ r.inst \in Instances /\ r.lease = NodeTtl /\ r.complete \in BOOLEAN
      OBVIOUS
    <3>2. r.lease \in -1 .. NodeTtl BY <3>1, RegistryAssumption
    <3>3. QED BY <3>1, <3>2 DEF Record
  <2>2. QED BY <2>1 DEF ServiceInit
<1>2. PICK home \in [Uids -> Names] :
        /\ routes = [u \in Uids |-> [val |-> home[u], ttl |-> NodeTtl]]
        /\ members = [n \in Names |-> {u \in Uids : home[u] = n}]
  BY DEF ServiceInit
<1>3. routes \in [Uids -> Route \cup {None}]
  <2>1. \A n \in Names : [val |-> n, ttl |-> NodeTtl] \in Route
    BY RegistryAssumption DEF Route
  <2>2. QED BY <1>2, <2>1
<1>4. members \in [Names -> SUBSET Uids] BY <1>2
<1>5. TypeInv BY <1>1, <1>3, <1>4, TypeFresh DEF ServiceInit
<1>6. ServeTypeOK
  BY NothingOK, NoSelectionOK DEF ServiceInit, ServeTypeOK
<1>7. PoolTypeOK /\ HistoryOK
  BY ServiceAssumption DEF ServiceInit, PoolTypeOK, HistoryOK
<1>8. QED BY <1>2, <1>5, <1>6, <1>7 DEF ServiceInv

LEMMA FaultsKeepTypes == ASSUME TypeInv, OnlyFaults PROVE TypeInv'
BY DEF TypeInv, TypeOK, SharedTypeOK, EnvTypeOK, LocalTypeOK, RequestsOK, RequestOK,
   OnlyFaults, redis, env, locals

LEMMA ServiceStepOK == ServiceInv /\ [ServiceNext]_allvars => ServiceInv'
<1> SUFFICES ASSUME ServiceInv, [ServiceNext]_allvars PROVE ServiceInv'
  OBVIOUS
<1> USE DEF ServiceInv
<1>1. TypeInv'
  <2>1. [Next]_vars \/ OnlyFaults BY RegistryStep DEF TypeInv
  <2>2. QED BY <2>1, TypeNext, FaultsKeepTypes
<1> SUFFICES ServeTypeOK' /\ PoolTypeOK' /\ HistoryOK'
  BY <1>1
<1>2. CASE UNCHANGED svars
  BY <1>2 DEF svars, pool, history, ServeTypeOK, PoolTypeOK, HistoryOK
<1>3. ASSUME NEW t \in Threads, RegistryCall(t) \/ BindUserToNode(t)
      PROVE  ServeTypeOK' /\ PoolTypeOK' /\ HistoryOK'
  BY <1>3, RegistryCallOK, BindOK DEF TypeInv, TypeOK
<1>4. ASSUME NEW t \in Threads,
             GetChatServer(t) \/ Logout(t) \/ UnbindUserCall(t) \/ NotifyUserOnline(t)
      PROVE  ServeTypeOK' /\ PoolTypeOK' /\ HistoryOK'
  BY <1>4, HandlerOK
  DEF GetChatServer, Logout, UnbindUserCall, NotifyUserOnline, AllHandlers
<1>5. ASSUME NEW t \in Threads, MethodStep(t) \/ HandlerStep(t)
      PROVE  ServeTypeOK' /\ PoolTypeOK' /\ HistoryOK'
  BY <1>5, MethodOK, HandlerStepOK
<1>6. ASSUME NEW w \in Workers, Take(w) \/ Notify(w)
      PROVE  ServeTypeOK' /\ PoolTypeOK' /\ HistoryOK'
  BY <1>6, PoolStepOK
<1>7. QED BY <1>2, <1>3, <1>4, <1>5, <1>6 DEF ServiceNext, allvars

(* The handlers and the registry under them keep their types: in           *)
(* particular a thread that serves a call serves it for a user > 0, and a  *)
(* count never exceeds the users.                                          *)
THEOREM ServiceTypeCorrect == ServiceSpec => []ServiceTypeOK
<1>1. ServiceInit => ServiceInv BY ServiceFresh
<1>2. ServiceInv => ServiceTypeOK BY DEF ServiceInv, TypeInv, ServiceTypeOK
<1>3. QED BY <1>1, <1>2, ServiceStepOK, PTL DEF ServiceSpec

-----------------------------------------------------------------------------
(* The methods of NodeRegistry keep the routes indexed also as parts of    *)
(* the handlers, whatever else these do between them.                      *)
LEMMA FaultsKeepRoutes == ASSUME RouteInv, OnlyFaults PROVE RouteInv'
<1>1. TypeInv' BY FaultsKeepTypes DEF RouteInv
<1>2. UNCHANGED <<routes, members, pc, req, todo>> BY DEF OnlyFaults, redis, locals
<1>3. RouteIndexed' /\ UnregisterClears'
  BY <1>2 DEF RouteInv, RouteIndexed, Minding, At, UnregisterClears, RoutedTo
<1>4. QED BY <1>1, <1>3 DEF RouteInv

(* However many threads run logins, logouts, unbinds, binds and refreshes  *)
(* at once, a live route stays in the set that unregisterNode goes by, or  *)
(* in the hands of a method that has yet to put it there or delete it: if  *)
(* SETEX, SADD, DEL and SMEMBERS are carried out, and an unregisterNode    *)
(* (where there is one) has the server for itself.                         *)
THEOREM HandlersKeepRoutes == RoutesSafe /\ ServiceSpec => []RouteIndexed
<1> SUFFICES ASSUME RoutesSafe PROVE ServiceSpec => []RouteIndexed
  OBVIOUS
<1>1. ServiceInit => ServiceInv /\ RouteInv
  <2> SUFFICES ASSUME ServiceInit PROVE ServiceInv /\ RouteInv
    OBVIOUS
  <2>1. /\ ServiceInv /\ Fresh
        /\ \A u \in Uids : routes[u] # None => u \in members[routes[u].val]
    BY ServiceFresh DEF ServiceInit
  <2>2. QED BY <2>1, RouteFresh DEF ServiceInv
<1>2. ServiceInv /\ RouteInv /\ [ServiceNext]_allvars => ServiceInv' /\ RouteInv'
  <2> SUFFICES ASSUME ServiceInv, RouteInv, [ServiceNext]_allvars
               PROVE  ServiceInv' /\ RouteInv'
    OBVIOUS
  <2>1. [Next]_vars \/ OnlyFaults BY RegistryStep DEF ServiceInv, TypeInv
  <2>2. QED BY <2>1, ServiceStepOK, RouteNext, FaultsKeepRoutes
<1>3. RouteInv => RouteIndexed BY DEF RouteInv
<1>4. QED BY <1>1, <1>2, <1>3, PTL DEF ServiceSpec
-----------------------------------------------------------------------------
(* What grows is bounded by what comes in.                                 *)
LEMMA Grown ==
  ASSUME NEW S, NEW T, IsFiniteSet(S), IsFiniteSet(T)
  PROVE  Cardinality(T) <= Cardinality(S) + Cardinality(T \ S)
<1> DEFINE D == T \ S
<1>1. IsFiniteSet(D) BY FS_Subset
<1>2. S \cap D = {} OBVIOUS
<1>3. IsFiniteSet(S \cup D) /\ Cardinality(S \cup D) =
        Cardinality(S) + Cardinality(D) - Cardinality(S \cap D)
  BY <1>1, FS_Union
<1>4. Cardinality(T) <= Cardinality(S \cup D)
  <2>1. T \in SUBSET (S \cup D) OBVIOUS
  <2>2. QED BY <1>3, <2>1, FS_Subset
<1>5. /\ Cardinality(S) \in Nat /\ Cardinality(T) \in Nat /\ Cardinality(D) \in Nat
      /\ Cardinality(S \cap D) = 0
  BY <1>1, <1>2, FS_CardinalityType, FS_EmptySet
<1>6. QED BY <1>3, <1>4, <1>5

LEMMA Paired ==
  ASSUME NEW n, NEW S, IsFiniteSet(S)
  PROVE  IsFiniteSet({n} \X S) /\ Cardinality({n} \X S) = Cardinality(S)
<1>1. IsFiniteSet({n}) /\ Cardinality({n}) = 1 BY FS_Singleton
<1>2. Cardinality(S) \in Nat BY FS_CardinalityType
<1>3. QED BY <1>1, <1>2, FS_Product

LEMMA LoadAfter ==
  ASSUME SharedTypeOK', NEW n \in Names
  PROVE  Load(n)' \in 0 .. Cardinality(Uids)
<1>1. members'[n] \in SUBSET Uids BY DEF SharedTypeOK
<1>2. IsFiniteSet(members'[n]) /\ Cardinality(members'[n]) <= Cardinality(Uids)
  BY <1>1, ServiceAssumption, FS_Subset
<1>3. QED BY <1>2, ServiceAssumption, FS_CardinalityType DEF Load

(* The users that enter b and those that leave n are moves, and different  *)
(* ones: together they bound what the two loads have drifted apart.        *)
LEMMA MovesBound ==
  ASSUME SharedTypeOK, SharedTypeOK', NEW b \in Names, NEW n \in Names
  PROVE  /\ Load(b)' <= Load(b) + Moves
         /\ Load(n) <= Load(n)' + Moves
         /\ b # n => Load(b)' - Load(b) + (Load(n) - Load(n)') <= Moves
<1> DEFINE M  == {m \in Names \X Uids : (m[2] \in members[m[1]]) # (m[2] \in members'[m[1]])}
           In  == members'[b] \ members[b]
           Out == members[n] \ members'[n]
           P   == {b} \X In
           Q   == {n} \X Out
<1>1. \A m \in Names : /\ members[m] \subseteq Uids /\ members'[m] \subseteq Uids
                       /\ IsFiniteSet(members[m]) /\ IsFiniteSet(members'[m])
  BY ServiceAssumption, FS_Subset DEF SharedTypeOK
<1>2. IsFiniteSet(In) /\ IsFiniteSet(Out) BY <1>1, FS_Subset
<1>3. IsFiniteSet(M)
  <2>1. IsFiniteSet(Names \X Uids) BY ServiceAssumption, FS_Product
  <2>2. M \in SUBSET (Names \X Uids) OBVIOUS
  <2>3. QED BY <2>1, <2>2, FS_Subset
<1>4. P \subseteq M /\ Q \subseteq M BY <1>1
<1>5. /\ IsFiniteSet(P) /\ Cardinality(P) = Cardinality(In)
      /\ IsFiniteSet(Q) /\ Cardinality(Q) = Cardinality(Out)
  BY <1>2, Paired
<1>6. b # n => P \cap Q = {} OBVIOUS
<1> HIDE DEF M, In, Out, P, Q
<1>7. Cardinality(P) <= Cardinality(M) /\ Cardinality(Q) <= Cardinality(M)
  BY <1>3, <1>4, FS_Subset
<1>8. b # n => Cardinality(P) + Cardinality(Q) <= Cardinality(M)
  <2> SUFFICES ASSUME b # n PROVE Cardinality(P) + Cardinality(Q) <= Cardinality(M)
    OBVIOUS
  <2>1. Cardinality(P \cup Q) = Cardinality(P) + Cardinality(Q) - Cardinality(P \cap Q)
    BY <1>5, FS_Union
  <2>2. Cardinality(P \cap Q) = 0 BY <1>6, FS_EmptySet
  <2>3. P \cup Q \in SUBSET M BY <1>4
  <2>4. Cardinality(P \cup Q) <= Cardinality(M) BY <1>3, <2>3, FS_Subset
  <2>5. Cardinality(P) \in Nat /\ Cardinality(Q) \in Nat BY <1>5, FS_CardinalityType
  <2>6. QED BY <2>1, <2>2, <2>4, <2>5
<1>9. /\ Load(b)' <= Load(b) + Cardinality(In)
      /\ Load(n) <= Load(n)' + Cardinality(Out)
  BY <1>1, Grown DEF Load, In, Out
<1>10. /\ Load(b) \in Nat /\ Load(b)' \in Nat /\ Load(n) \in Nat /\ Load(n)' \in Nat
       /\ Cardinality(In) \in Nat /\ Cardinality(Out) \in Nat /\ Cardinality(M) \in Nat
  BY <1>1, <1>2, <1>3, FS_CardinalityType DEF Load
<1>11. Moves = Cardinality(M) BY DEF Moves, M
<1>12. QED BY <1>5, <1>7, <1>8, <1>9, <1>10, <1>11
(* What a scan knows of its best node: its count, and its load now, are no *)
(* greater than the load of any node it has counted, nor that load than    *)
(* the count, but for the drift.                                           *)
Counted(s) == s.listed \ s.left
Chosen(t) == LET s == sel[t] IN
  /\ s.left \subseteq s.listed
  /\ Counted(s) = {} => s.best = None
  /\ Counted(s) # {} => s.best \in Names /\ Load(s.best) <= s.count + s.drift
  /\ \A n \in Counted(s) : /\ s.count <= Load(n) + s.drift
                           /\ Load(s.best) <= Load(n) + s.drift

SelectionInv == ServiceInv /\ \A t \in Threads : Chosen(t)

LEMMA NothingChosen == ASSUME NEW t \in Threads, sel[t] = NoSelection PROVE Chosen(t)
BY DEF Chosen, Counted, NoSelection

(* While the others move users, a scan that counts drifts by the moves.    *)
LEMMA ChosenShifts ==
  ASSUME SelectionInv, SharedTypeOK', Shift, NEW t \in Threads
  PROVE  Chosen(t)'
<1>1. CASE sel[t] = NoSelection /\ serve[t].at # "count"
  <2>1. sel'[t] = NoSelection BY <1>1 DEF Shift
  <2>2. QED BY <2>1 DEF Chosen, Counted, NoSelection
<1>2. CASE serve[t].at = "count"
  <2> DEFINE s == sel[t]
             U == Cardinality(Uids)
  <2>1. s \in Selection /\ U \in Nat /\ Moves \in Nat
    BY MovesOK, ServiceAssumption, FS_CardinalityType DEF SelectionInv, ServiceInv, ServeTypeOK
  <2>2. sel'[t] = Drift(s, Moves) BY <1>2 DEF Shift
  <2>3. /\ sel'[t].listed = s.listed /\ sel'[t].left = s.left
        /\ sel'[t].best = s.best /\ sel'[t].count = s.count
        /\ sel'[t].drift = Least(s.drift + Moves, U)
    BY <2>1, <2>2 DEF Drift, Selection
  <2>4. s.drift \in Nat /\ s.count \in 0 .. U BY <2>1 DEF Selection
  <2>5. ASSUME NEW n \in Counted(s)
        PROVE  /\ s.count <= Load(n)' + sel'[t].drift
               /\ Load(s.best)' <= s.count + sel'[t].drift
               /\ Load(s.best)' <= Load(n)' + sel'[t].drift
    <3>1. n \in Names /\ s.best \in Names
      BY <2>1, <2>5, ServiceAssumption DEF SelectionInv, Chosen, Counted, Selection
    <3>2. PICK b \in Names : b = s.best BY <3>1
    <3>3. /\ Load(n) \in Nat /\ Load(b) \in Nat /\ Load(n)' \in Nat /\ Load(b)' \in 0 .. U
      BY <2>1, <3>1, <3>2, LoadOK, LoadAfter DEF SelectionInv, ServiceInv, TypeInv, TypeOK
    <3>4. /\ s.count <= Load(n) + s.drift /\ Load(b) <= s.count + s.drift
          /\ Load(b) <= Load(n) + s.drift
      BY <2>5, <3>2 DEF SelectionInv, Chosen
    <3>5. /\ Load(b)' <= Load(b) + Moves /\ Load(n) <= Load(n)' + Moves
          /\ b # n => Load(b)' - Load(b) + (Load(n) - Load(n)') <= Moves
      BY <3>1, MovesBound DEF SelectionInv, ServiceInv, TypeInv, TypeOK
    <3>6. Load(s.best)' = Load(b)' BY <2>3, <3>2 DEF Load
    <3>7. CASE s.drift + Moves < U
      BY <2>1, <2>3, <2>4, <3>3, <3>4, <3>5, <3>6, <3>7 DEF Least
    <3>8. CASE ~(s.drift + Moves < U)
      BY <2>1, <2>3, <2>4, <3>3, <3>4, <3>5, <3>6, <3>8 DEF Least
    <3>9. QED BY <3>7, <3>8
  <2>6. QED
    BY <2>3, <2>5 DEF SelectionInv, Chosen, Counted, Load
<1>3. QED BY <1>1, <1>2 DEF SelectionInv, ServiceInv, ServeTypeOK
(* A scan counts one node more: the least by name of those left.           *)
LEMMA ChosenCounts ==
  ASSUME SelectionInv, NEW t \in Threads, Count(t)
  PROVE  Chosen(t)'
<1> DEFINE s == sel[t]
           U == Cardinality(Uids)
<1>0. PICK n \in s.left, o \in Outcomes("sCard") : Count(t)!(n, o)
  BY DEF Count
<1>1. PICK c \in {Load(n), 0} :
        /\ sel' = [sel EXCEPT ![t] =
                     [Drift(Better(s, n, c), Load(n) - c) EXCEPT !.left = s.left \ {n}]]
        /\ members' = members
  BY <1>0 DEF SCard, Load, redis
<1>2. s \in Selection /\ U \in Nat /\ s.drift \in Nat /\ s.count \in 0 .. U
  BY ServiceAssumption, FS_CardinalityType
  DEF SelectionInv, ServiceInv, ServeTypeOK, Selection
<1>3. n \in Names /\ Load(n) \in 0 .. U /\ c \in 0 .. U /\ c <= Load(n)
  <2>1. n \in Names BY <1>2, ServiceAssumption DEF Selection
  <2>2. Load(n) \in 0 .. U BY <2>1, LoadOK DEF SelectionInv, ServiceInv, TypeInv, TypeOK
  <2>3. QED BY <1>2, <2>1, <2>2
<1>4. PICK d \in Nat : d = Least(s.drift + (Load(n) - c), U)
  BY <1>2, <1>3 DEF Least
<1>5. PICK b, e : /\ b = IF s.best = None \/ c < s.count THEN n ELSE s.best
                  /\ e = IF s.best = None \/ c < s.count THEN c ELSE s.count
  OBVIOUS
<1>6. /\ sel'[t].listed = s.listed /\ sel'[t].left = s.left \ {n}
      /\ sel'[t].best = b /\ sel'[t].count = e /\ sel'[t].drift = d
  <2>1. sel'[t] = [Drift(Better(s, n, c), Load(n) - c) EXCEPT !.left = s.left \ {n}]
    BY <1>1 DEF SelectionInv, ServiceInv, ServeTypeOK
  <2>2. Better(s, n, c) = [s EXCEPT !.best = b, !.count = e]
    BY <1>2, <1>5 DEF Better, Selection
  <2>3. QED BY <1>2, <1>4, <2>1, <2>2 DEF Drift, Selection
<1>7. /\ s.left \subseteq s.listed
      /\ s.best # None => s.best \in Names /\ Load(s.best) <= s.count + s.drift
  BY DEF SelectionInv, Chosen
<1>8. b \in Names
  BY <1>2, <1>3, <1>5, ServiceAssumption DEF Selection
<1>9. ASSUME NEW m \in Counted(s) \cup {n}
      PROVE  e <= Load(m) + d /\ Load(b) <= e + d /\ Load(b) <= Load(m) + d
  <2>1. m \in Names
    BY <1>2, <1>3, <1>9, ServiceAssumption DEF Counted, Selection
  <2>2. Load(m) \in 0 .. U /\ Load(b) \in 0 .. U
    BY <1>8, <2>1, LoadOK DEF SelectionInv, ServiceInv, TypeInv, TypeOK
  <2>3. e \in 0 .. U BY <1>2, <1>3, <1>5
  <2>4. CASE d = U BY <1>2, <2>2, <2>3, <2>4
  <2>5. CASE d = s.drift + (Load(n) - c)
    <3>1. m # n => /\ s.best # None /\ s.count <= Load(m) + s.drift
                   /\ Load(s.best) <= Load(m) + s.drift
      BY <1>9, RegistryAssumption DEF SelectionInv, Chosen
    <3>2. CASE s.best = None \/ c < s.count
      BY <1>2, <1>3, <1>5, <2>2, <2>5, <3>1, <3>2
    <3>3. CASE ~(s.best = None \/ c < s.count)
      BY <1>2, <1>3, <1>5, <1>7, <2>2, <2>5, <3>1, <3>3
    <3>4. QED BY <3>2, <3>3
  <2>6. QED BY <1>2, <1>3, <1>4, <2>4, <2>5 DEF Least
<1>10. Counted(sel'[t]) = Counted(s) \cup {n} /\ sel'[t].left \subseteq sel'[t].listed
  BY <1>6, <1>7 DEF Counted
<1>11. \A m \in Names : Load(m)' = Load(m) BY <1>1 DEF Load
<1>12. PICK q : q = sel'[t] OBVIOUS
<1>13. /\ q.left \subseteq q.listed /\ Counted(q) = Counted(s) \cup {n}
       /\ q.best = b /\ q.count = e /\ q.drift = d
  BY <1>6, <1>10, <1>12
<1>14. /\ Counted(q) # {} /\ q.best \in Names /\ Load(q.best)' <= q.count + q.drift
       /\ \A m \in Counted(q) : /\ q.count <= Load(m)' + q.drift
                                /\ Load(q.best)' <= Load(m)' + q.drift
  <2>1. Load(q.best)' = Load(b) BY <1>8, <1>11, <1>13 DEF Load
  <2>2. \A m \in Counted(s) \cup {n} : m \in Names
    BY <1>2, <1>3, ServiceAssumption DEF Counted, Selection
  <2>3. QED BY <1>8, <1>9, <1>11, <1>13, <2>1, <2>2
<1>15. QED BY <1>12, <1>13, <1>14 DEF Chosen, Counted, Load

(* The other steps change one scan only, by beginning or by ending it, and *)
(* no load, unless they shift the scans.                                   *)
LEMMA ChosenStep ==
  ASSUME SelectionInv, [ServiceNext]_allvars PROVE SelectionInv'
<1> USE DEF SelectionInv
<1>1. ServiceInv' /\ SharedTypeOK'
  BY ServiceStepOK DEF ServiceInv, TypeInv, TypeOK
<1>2. ASSUME NEW t \in Threads, sel'[t] = sel[t], members' = members PROVE Chosen(t)'
  BY <1>2 DEF Chosen, Counted, Load
<1>3. ASSUME NEW t \in Threads, sel'[t] = NoSelection PROVE Chosen(t)'
  BY <1>3 DEF Chosen, Counted, NoSelection
<1>4. ASSUME members' = members, sel' = sel PROVE SelectionInv'
  BY <1>1, <1>2, <1>4
<1>5. ASSUME Shift PROVE SelectionInv'
  BY <1>1, <1>5, ChosenShifts
<1>6. ASSUME NEW t \in Threads, List(t) \/ Count(t) \/ SaveHash(t) PROVE SelectionInv'
  <2>1. members' = members BY <1>6 DEF List, Count, SaveHash, redis
  <2>2. \A r \in Threads \ {t} : sel'[r] = sel[r]
    BY <1>6 DEF List, Count, SaveHash, ServiceInv, ServeTypeOK
  <2>3. Chosen(t)'
    <3>1. CASE List(t)
      <4>1. sel[t] = NoSelection BY <3>1 DEF List, Stage, ServiceInv, ServeTypeOK
      <4>2. CASE sel' = sel BY <1>2, <2>1, <4>2
      <4>3. CASE sel' # sel
        <5>1. PICK listed : sel' = [sel EXCEPT ![t].listed = listed, ![t].left = listed]
          BY <3>1, <4>3 DEF List
        <5>2. sel'[t].listed = listed /\ sel'[t].left = listed /\ sel'[t].best = None
          BY <4>1, <5>1 DEF ServiceInv, ServeTypeOK, NoSelection
        <5>3. QED BY <5>2 DEF Chosen, Counted
      <4>4. QED BY <4>2, <4>3
    <3>2. CASE Count(t) BY <3>2, ChosenCounts
    <3>3. CASE SaveHash(t) BY <1>3, <3>3 DEF SaveHash, ServiceInv, ServeTypeOK
    <3>4. QED BY <1>6, <3>1, <3>2, <3>3
  <2>4. QED BY <1>1, <1>2, <2>1, <2>2, <2>3
<1>7. ASSUME NEW t \in Threads, HandlerStep(t) PROVE SelectionInv'
  BY <1>4, <1>6, <1>7
  DEF HandlerStep, OldRoute, OldNode, Kick, Clear, Call, FindToken, DropToken, Tell,
      SaveIndex, redis, vars
<1>8. ASSUME NEW t \in Threads,
             \/ RegistryCall(t) \/ BindUserToNode(t)
             \/ GetChatServer(t) \/ Logout(t) \/ UnbindUserCall(t) \/ NotifyUserOnline(t)
      PROVE  SelectionInv'
  BY <1>4, <1>8
  DEF RegistryCall, BindUserToNode, GetChatServer, Logout, UnbindUserCall,
      NotifyUserOnline, Handler, RegisterNode, Heartbeat, UnregisterNode, BindUser,
      RefreshTokenTTL, Call, redis, vars
<1>9. ASSUME NEW w \in Workers, Take(w) \/ Notify(w) PROVE SelectionInv'
  BY <1>4, <1>9 DEF Take, Notify, redis, vars
<1>10. CASE Tick /\ UNCHANGED svars
  BY <1>4, <1>10 DEF Tick, svars
<1>11. CASE UNCHANGED allvars BY <1>4, <1>11 DEF allvars, svars, vars, redis
<1>12. ASSUME NEW t \in Threads, MethodStep(t) PROVE SelectionInv'
  BY <1>5, <1>12 DEF MethodStep
<1>13. QED BY <1>7, <1>8, <1>9, <1>10, <1>11, <1>12 DEF ServiceNext

(* However the loads change while selectLeastLoadedNode reads them one by  *)
(* one, whichever reads fail, and whatever the other threads do, the node  *)
(* chosen so far is off by no more than that, for any number of nodes,     *)
(* users and threads: nothing but the best count need be kept of a scan.   *)
THEOREM SelectionStaysFresh == ServiceSpec => []SelectionFresh
<1>1. ServiceInit => SelectionInv
  <2> SUFFICES ASSUME ServiceInit PROVE SelectionInv
    OBVIOUS
  <2>1. ServiceInv BY ServiceFresh
  <2>2. \A t \in Threads : sel[t] = NoSelection BY DEF ServiceInit
  <2>3. QED BY <2>1, <2>2, NothingChosen DEF SelectionInv
<1>2. SelectionInv => SelectionFresh
  BY DEF SelectionInv, Chosen, Counted, SelectionFresh
<1>3. QED BY <1>1, <1>2, ChosenStep, PTL DEF ServiceSpec
=============================================================================
