------------------------------ MODULE StubCache ------------------------------
(***************************************************************************)
(* The stubs by which a login tells a chat server to kick a user           *)
(* (src/application/impl/ChatNotifyClientImpl.cpp).  getOrCreateStub looks *)
(* the endpoint up in one critical section, connects outside, and stores   *)
(* its stub in a second one, without looking again.  A stub is named by    *)
(* the thread that made it, or by None.                                    *)
(***************************************************************************)
CONSTANTS
  None,
  Handlers,   \* the handler threads, which notify
  Endpoints   \* host and port of the chat servers

VARIABLES
  stubs,    \* _stubs: endpoint -> its cached stub
  makers,   \* endpoint -> the threads that have connected to it so far
  at,       \* per thread: where its notification is
  ep,       \* per thread: the endpoint to notify; None if host or port is empty
  stub      \* per thread: the stub it has got

cache == <<stubs, makers, at, ep, stub>>

ASSUME StubAssumption == None \notin Handlers \cup Endpoints

CacheInit == /\ stubs = [e \in Endpoints |-> None]
             /\ makers = [e \in Endpoints |-> {}]
             /\ at = [t \in Handlers |-> "idle"]
             /\ ep = [t \in Handlers |-> None]
             /\ stub = [t \in Handlers |-> None]

Moves(t, from, to) == at[t] = from /\ at' = [at EXCEPT ![t] = to]

-----------------------------------------------------------------------------
(* notifyKickUser is called; it gives up without an endpoint.              *)
NotifyKickUser(t) == \E e \in Endpoints \cup {None} :
  /\ Moves(t, "idle", IF e = None THEN "done" ELSE "look")
  /\ ep' = [ep EXCEPT ![t] = e]
  /\ UNCHANGED <<stubs, makers, stub>>

(* The first critical section.                                             *)
Look(t) ==
  /\ Moves(t, "look", IF stubs[ep[t]] = None THEN "connect" ELSE "call")
  /\ stub' = [stub EXCEPT ![t] = stubs[ep[t]]]
  /\ UNCHANGED <<stubs, makers, ep>>

(* CreateChannel and NewStub, outside the lock.                            *)
Connect(t) == /\ Moves(t, "connect", "keep")
              /\ makers' = [makers EXCEPT ![ep[t]] = @ \cup {t}]
              /\ stub' = [stub EXCEPT ![t] = t]
              /\ UNCHANGED <<stubs, ep>>

(* A slip: the stub is not cached.                                         *)
KeepNot(t) == Moves(t, "keep", "call") /\ UNCHANGED <<stubs, makers, ep, stub>>

(* The second critical section: a stub that is there by now is replaced.   *)
Keep(t) == /\ Moves(t, "keep", "call")
           /\ stubs' = [stubs EXCEPT ![ep[t]] = stub[t]]
           /\ UNCHANGED <<makers, ep, stub>>

(* KickUser answers, or 2 s have passed; its result is only logged.        *)
KickUser(t) == Moves(t, "call", "done") /\ UNCHANGED <<stubs, makers, ep, stub>>

Return(t) == /\ Moves(t, "done", "idle")
             /\ ep' = [ep EXCEPT ![t] = None] /\ stub' = [stub EXCEPT ![t] = None]
             /\ UNCHANGED <<stubs, makers>>

CacheNext == \E t \in Handlers : \/ NotifyKickUser(t) \/ Look(t) \/ Connect(t)
                                \/ Keep(t) \/ KickUser(t) \/ Return(t)
CacheSpec == CacheInit /\ [][CacheNext]_cache

-----------------------------------------------------------------------------
(* Every variable stays in its type; who calls has a stub, and who does    *)
(* more than wait or give up has an endpoint.                              *)
CacheTypeOK ==
  /\ stubs \in [Endpoints -> Handlers \cup {None}]
  /\ makers \in [Endpoints -> SUBSET Handlers]
  /\ at \in [Handlers -> {"idle", "look", "connect", "keep", "call", "done"}]
  /\ ep \in [Handlers -> Endpoints \cup {None}]
  /\ stub \in [Handlers -> Handlers \cup {None}]
  /\ \A t \in Handlers : /\ at[t] \in {"look", "connect", "keep", "call"} => ep[t] # None
                         /\ at[t] = "keep" => stub[t] = t
                         /\ at[t] = "call" => stub[t] # None

(* Two lookups may both miss, and the loser's stub replaces the winner's   *)
(* (ChatNotifyClientImpl.cpp:43), but the cache does its work: no thread   *)
(* connects to the same chat server twice, so an endpoint costs at most    *)
(* one channel per handler thread, however many logins it is notified of.  *)
ConnectsOnce ==
  \A t \in Handlers : at[t] = "connect" => t \notin makers[ep[t]]
=============================================================================
