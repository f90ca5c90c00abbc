--------------------------- MODULE StatusService ----------------------------
(***************************************************************************)
(* The handlers of StatusServiceImpl.cpp on the registry they call.  The   *)
(* threads are those of NodeRegistry: a call either is one method of the   *)
(* registry, or a handler that combines several parts.  A login looks for  *)
(* the old node and kicks the user there, clears the old login, tells the  *)
(* gate, selects a node and saves a token; logout, unbind and the online   *)
(* message share these steps.  Each step is one Redis command, and the     *)
(* commands of unbindUser, bindUser and the other methods are the steps of *)
(* NodeRegistry, so that everything interleaves.  What a read of a login   *)
(* token's keys finds is left open, as LoginTokens models them.            *)
(* Notifications are tasks of the pool that ThreadPool models: they are    *)
(* started in order, and each worker is busy with one of them at a time.   *)
(***************************************************************************)
EXTENDS NodeRegistry, Sequences, FiniteSets

CONSTANTS
  Workers,    \* the workers of the gRPC client pool
  ChatNodes,  \* the names that begin with "Node-"; std::map orders names as numbers
  Handlers,   \* the handlers that are called in this instance
  MaxCalls    \* bound: how many calls come; they are numbered

VARIABLES
  serve,    \* per thread: the handler it runs, and its next step
  sel,      \* per thread: where its selection of a node has got to
  queue,    \* the notifications no worker has taken yet
  work,     \* per worker: the notification it is sending
  calls,    \* how many calls have come
  given,    \* history: user -> the logins that were answered with a token
  session   \* history: user -> the login whose client was bound last

pool    == <<queue, work>>
history == <<given, session>>
svars   == <<serve, sel, pool, calls, history>>
allvars == <<vars, svars>>

AllHandlers == {"login", "logout", "unbind", "online"}
Stages == {"idle", "bind", "old", "oldNode", "kick", "clear", "token", "drop",
           "tell", "list", "count", "index"}

ASSUME ServiceAssumption ==
  /\ Names \subseteq Nat /\ ChatNodes \subseteq Names
  /\ Handlers \subseteq AllHandlers
  /\ MaxCalls \in Nat
  /\ IsFiniteSet(Uids) /\ IsFiniteSet(Names)

Calls   == 1 .. MaxCalls
Serving == [at : Stages, op : AllHandlers \cup {"bind", "none"},
            uid : Uids \cup {None}, call : 0 .. MaxCalls, node : Names \cup {None}]
Nothing == [at |-> "idle", op |-> "none", uid |-> None, call |-> 0, node |-> None]
(* A notification; "ends" is the last login it is meant to end.            *)
Note == [kind : {"offline", "online"}, uid : Uids, ends : 0 .. MaxCalls]
ASSUME NoteAssumption == None \notin Note

(* A selection: the nodes it listed, those it has yet to count, the best   *)
(* so far with its count; and, which the code does not know, by how much   *)
(* the counts may be wrong by now (up to the number of users).             *)
Selection == [listed : SUBSET ChatNodes, left : SUBSET ChatNodes,
              best : Names \cup {None}, count : 0 .. Cardinality(Uids),
              drift : 0 .. Cardinality(Uids)]
NoSelection == [listed |-> {}, left |-> {}, best |-> None,
                count |-> 0, drift |-> 0]

Load(n)     == Cardinality(members[n])
Stage(t, l) == Idle(t) /\ serve[t].at = l
Free(t)     == Stage(t, "idle")

(* The server has started, the nodes have registered, and each user has    *)
(* been bound to one of them.                                              *)
ServiceInit ==
  /\ Fresh /\ up = TRUE
  /\ nodes \in [Names -> [inst : Instances, lease : {NodeTtl}, complete : {TRUE}]]
  /\ \E home \in [Uids -> Names] :
       /\ routes = [u \in Uids |-> [val |-> home[u], ttl |-> NodeTtl]]
       /\ members = [n \in Names |-> {u \in Uids : home[u] = n}]
  /\ queue = <<>> /\ work = [w \in Workers |-> None]
  /\ calls = 0
  /\ serve = [t \in Threads |-> Nothing]
  /\ sel = [t \in Threads |-> NoSelection]
  /\ given = [u \in Uids |-> {}] /\ session = [u \in Uids |-> 0]

-----------------------------------------------------------------------------
Proceed(t, l) == serve' = [serve EXCEPT ![t].at = l]
Done(t)       == serve' = [serve EXCEPT ![t] = Nothing]

(* A call arrives.  Uids <= 0 are refused before anything is done.         *)
Arrive(t) == up /\ Free(t) /\ calls < MaxCalls /\ calls' = calls + 1

(* A slip: uids are not checked.                                           *)
HandlerAnyUid(t, op, l) == \E u \in Uids \cup {None} :
  /\ op \in Handlers /\ Arrive(t)
  /\ serve' = [serve EXCEPT ![t] = [at |-> l, op |-> op, uid |-> u,
                                    call |-> calls', node |-> None]]
  /\ UNCHANGED <<vars, sel, pool, history>>

(* A handler that combines several parts.                                  *)
Handler(t, op, l) == \E u \in Uids :
  /\ op \in Handlers /\ Arrive(t)
  /\ serve' = [serve EXCEPT ![t] = [at |-> l, op |-> op, uid |-> u,
                                    call |-> calls', node |-> None]]
  /\ UNCHANGED <<vars, sel, pool, history>>

GetChatServer(t)    == Handler(t, "login", "old")
Logout(t)           == Handler(t, "logout", "clear")
UnbindUserCall(t)   == Handler(t, "unbind", "clear")
NotifyUserOnline(t) == Handler(t, "online", "tell")

(* The handlers that are one method of the registry.                       *)
RegistryCall(t) ==
  /\ Arrive(t)
  /\ \/ RegisterNode(t) \/ Heartbeat(t) \/ UnregisterNode(t)
     \/ RefreshTokenTTL(t)
  /\ UNCHANGED <<serve, sel, pool, history>>

(* A chat server binds a client that has shown it the token of a login     *)
(* (0: one it has from before).  bindUser asks for no token.               *)
BindUserToNode(t) ==
  /\ Arrive(t) /\ BindUser(t)
  /\ \E k \in given[req'[t].uid] \cup {0} :
       serve' = [serve EXCEPT ![t] = [at |-> "bind", op |-> "bind",
                   uid |-> req'[t].uid, call |-> k, node |-> None]]
  /\ UNCHANGED <<sel, pool, history>>

(* The sets change: every selection that is counting drifts by as much.    *)
Least(a, b) == IF a < b THEN a ELSE b
Moves == Cardinality({m \in Names \X Uids :
                        (m[2] \in members[m[1]]) # (m[2] \in members'[m[1]])})
Drift(s, d) == [s EXCEPT !.drift = Least(@ + d, Cardinality(Uids))]
Shift == sel' = [t \in Threads |-> IF serve[t].at = "count"
                                   THEN Drift(sel[t], Moves) ELSE sel[t]]

(* A method of the registry goes on, and other threads' counts drift.      *)
MethodStep(t) ==
  /\ Steps(t) /\ Shift
  /\ IF serve[t].at = "bind" /\ pc'[t] = "idle" THEN Done(t) ELSE UNCHANGED serve
  /\ session' = IF /\ At(t, "bdSet")
                   /\ routes'[req[t].uid] = [val |-> req[t].name, ttl |-> NodeTtl]
                THEN [session EXCEPT ![req[t].uid] = serve[t].call] ELSE session
  /\ UNCHANGED <<pool, calls, given>>

-----------------------------------------------------------------------------
(* getNodeForUser: the route, then the record of the node it names.        *)
OldRoute(t) == \E o \in Outcomes("get") :
  LET n == Get(o, routes, serve[t].uid) IN
  /\ Stage(t, "old") /\ Charge(o)
  /\ serve' = [serve EXCEPT ![t].node = n,
                            ![t].at = IF n = None THEN "clear" ELSE "oldNode"]
  /\ UNCHANGED <<redis, env, pc, locals, sel, pool, calls, history>>

OldNode(t) == \E o \in Outcomes("hGet") :
  /\ Stage(t, "oldNode") /\ Charge(o)
  /\ Proceed(t, IF GetNode(o, serve[t].node) = None THEN "clear" ELSE "kick")
  /\ UNCHANGED <<redis, env, pc, locals, sel, pool, calls, history>>

(* notifyKickUser: over after 2 s at the latest, and its result ignored.   *)
Kick(t) == /\ Stage(t, "kick") /\ Proceed(t, "clear")
           /\ UNCHANGED <<vars, sel, pool, calls, history>>

(* clearUserLoginData: unbindUser, which answers true, then deleteToken.   *)
Clear(t) == /\ Stage(t, "clear")
            /\ Call(t, "unbind", None, None, serve[t].uid, TRUE, "ubGet")
            /\ Proceed(t, "token")
            /\ UNCHANGED <<sel, pool, calls, history>>

(* UnbindUser returns at once when clearUserLoginData has failed; Logout   *)
(* and GetChatServer go on.                                                *)
Cleared(t, ok) == IF serve[t].op = "unbind" /\ ~ok THEN Done(t) ELSE Proceed(t, "tell")

(* deleteToken: false without an index, and if its DEL removes nothing.    *)
FindToken(t) == \E o \in Outcomes("get"), found \in BOOLEAN :
  /\ Stage(t, "token") /\ Charge(o)
  /\ IF o = "ok" /\ found THEN Proceed(t, "drop") ELSE Cleared(t, FALSE)
  /\ UNCHANGED <<redis, env, pc, locals, sel, pool, calls, history>>

DropToken(t) == \E o \in Outcomes("del"), there \in BOOLEAN :
  /\ Stage(t, "drop") /\ Charge(o)
  /\ Cleared(t, o = "ok" /\ there)
  /\ UNCHANGED <<redis, env, pc, locals, sel, pool, calls, history>>

(* notifyGateUserOffline and notifyGateUserOnline: enqueue, never wait.    *)
NoteOf(s) == [kind |-> IF s.op = "online" THEN "online" ELSE "offline",
              uid  |-> s.uid,
              ends |-> IF s.op = "login" THEN s.call - 1 ELSE s.call]
(* A slip: the queue has a bound, and enqueue waits for room.              *)
TellIfRoom(t) == /\ Stage(t, "tell") /\ Len(queue) < Cardinality(Workers)
                 /\ queue' = Append(queue, NoteOf(serve[t]))
                 /\ IF serve[t].op = "login" THEN Proceed(t, "list") ELSE Done(t)
                 /\ UNCHANGED <<vars, sel, work, calls, history>>
Tell(t) == /\ Stage(t, "tell")
           /\ queue' = Append(queue, NoteOf(serve[t]))
           /\ IF serve[t].op = "login" THEN Proceed(t, "list") ELSE Done(t)
           /\ UNCHANGED <<vars, sel, work, calls, history>>

(* listNodes and the filter on names; a failed HGETALL lists nothing.      *)
List(t) == \E o \in Outcomes("hGetAll") :
  LET listed == {n \in ChatNodes : Alive(HGetAll(o, nodes)[n])} IN
  /\ Stage(t, "list") /\ Charge(o)
  /\ IF listed = {}
     THEN Done(t) /\ UNCHANGED sel
     ELSE /\ Proceed(t, "count")
          /\ sel' = [sel EXCEPT ![t].listed = listed, ![t].left = listed]
  /\ UNCHANGED <<redis, env, pc, locals, pool, calls, history>>

(* A slip: the best count is not kept.                                     *)
BetterLast(s, n, c) == IF s.best = None \/ c < s.count
                       THEN [s EXCEPT !.best = n] ELSE s
(* One SCARD of the scan: the first node of least count wins.              *)
Better(s, n, c) == IF s.best = None \/ c < s.count
                   THEN [s EXCEPT !.best = n, !.count = c] ELSE s
(* A failed SCARD reads as 0, which is wrong by the whole load.            *)
Count(t) == \E n \in sel[t].left, o \in Outcomes("sCard") :
  LET c    == SCard(o, members[n])
      read == Drift(Better(sel[t], n, c), Load(n) - c) IN
  /\ Stage(t, "count") /\ Charge(o)
  /\ \A m \in sel[t].left : n <= m
  /\ sel' = [sel EXCEPT ![t] = [read EXCEPT !.left = sel[t].left \ {n}]]
  /\ UNCHANGED <<redis, env, pc, locals, serve, pool, calls, history>>

(* saveToken with a fresh token: the writes of its hash, one of which may  *)
(* fail and end it, then its index; the login is answered only if both are *)
(* done.                                                                   *)
SaveHash(t) == \E o \in Outcomes("hSet") :
  /\ Stage(t, "count") /\ sel[t].left = {} /\ Charge(o)
  /\ IF o = "ok" THEN Proceed(t, "index") ELSE Done(t)
  /\ sel' = [sel EXCEPT ![t] = NoSelection]
  /\ UNCHANGED <<redis, env, pc, locals, pool, calls, history>>

SaveIndex(t) == \E o \in Outcomes("setEx") :
  LET u == serve[t].uid IN
  /\ Stage(t, "index") /\ Charge(o)
  /\ given' = IF o = "ok" THEN [given EXCEPT ![u] = @ \cup {serve[t].call}] ELSE given
  /\ Done(t)
  /\ UNCHANGED <<redis, env, pc, locals, sel, pool, calls, session>>

HandlerStep(t) ==
  \/ OldRoute(t) \/ OldNode(t) \/ Kick(t) \/ Clear(t) \/ FindToken(t)
  \/ DropToken(t) \/ Tell(t) \/ List(t) \/ Count(t) \/ SaveHash(t) \/ SaveIndex(t)

-----------------------------------------------------------------------------
(* The pool and the gate.  A call to the gate ends when it likes, as it    *)
(* has no deadline; a failure is logged and the notification forgotten.    *)
Take(w) == /\ work[w] = None /\ queue # <<>>
           /\ work' = [work EXCEPT ![w] = Head(queue)]
           /\ queue' = Tail(queue)
           /\ UNCHANGED <<vars, serve, sel, calls, history>>
Notify(w) == /\ work[w] # None
             /\ work' = [work EXCEPT ![w] = None]
             /\ UNCHANGED <<vars, serve, sel, queue, calls, history>>

ServiceNext ==
  \/ \E t \in Threads :
       \/ RegistryCall(t) \/ BindUserToNode(t)
       \/ GetChatServer(t) \/ Logout(t) \/ UnbindUserCall(t) \/ NotifyUserOnline(t)
       \/ MethodStep(t) \/ HandlerStep(t)
  \/ \E w \in Workers : Take(w) \/ Notify(w)
  \/ Tick /\ UNCHANGED svars

ServiceSpec == ServiceInit /\ [][ServiceNext]_allvars

-----------------------------------------------------------------------------
ServeTypeOK == /\ serve \in [Threads -> Serving]
               /\ sel \in [Threads -> Selection]
               /\ \A t \in Threads :
                    /\ serve[t].at # "idle" => serve[t].uid \in Uids
                    /\ serve[t].at \notin {"idle", "bind"} => serve[t].call \in Calls
                    /\ serve[t].at = "oldNode" => serve[t].node \in Names
                    /\ sel[t] = NoSelection \/ serve[t].at = "count"
PoolTypeOK  == /\ queue \in Seq(Note)
               /\ work \in [Workers -> Note \cup {None}]
               /\ calls \in 0 .. MaxCalls
HistoryOK   == /\ given \in [Uids -> SUBSET Calls]
               /\ session \in [Uids -> 0 .. MaxCalls]

(* Types, those of the registry included; a thread serves a user > 0, and  *)
(* has counted nothing before it starts to count.                          *)
ServiceTypeOK == TypeOK /\ ServeTypeOK /\ PoolTypeOK /\ HistoryOK

(* Stale loads: selectLeastLoadedNode reads them one by one while users    *)
(* move, and a read that fails counts as none.  The node it has chosen so  *)
(* far has no more users now than any other it has counted, but for what   *)
(* has moved since it listed the nodes and what it failed to read.         *)
SelectionFresh ==
  \A t \in Threads : \A n \in sel[t].listed \ sel[t].left :
    Load(sel[t].best) <= Load(n) + sel[t].drift

(* No call waits for another one, for a worker or for the gate, whose      *)
(* calls have no deadline: whatever the others are in the middle of, a     *)
(* thread that serves a call can take its next step, also when each worker *)
(* hangs for ever; notifying the gate only enqueues.                       *)
NoCallWaits == \A t \in Threads :
  Free(t) \/ IF Idle(t) THEN ENABLED HandlerStep(t) ELSE ENABLED Steps(t)

(* "Tell the gate to clean up the old session" (GetChatServer): an offline *)
(* that is on its way to the gate is never about a user whom the client of *)
(* a login later than those it is meant to end has bound already.          *)
OfflineEndsOldOnly == \A w \in Workers :
  LET note == work[w] IN
  note # None /\ note.kind = "offline"
    => routes[note.uid] = None \/ session[note.uid] <= note.ends
=============================================================================
