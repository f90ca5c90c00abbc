--------------------------- MODULE StubCacheProofs ---------------------------
(***************************************************************************)
(* Proofs about StubCache, for any threads and endpoints.                  *)
(***************************************************************************)
EXTENDS StubCache, TLAPS

(* Whoever has connected to an endpoint finds a stub of it in the cache,   *)
(* or is about to put its own there: nothing ever empties an entry.        *)
MakersCached == \A e \in Endpoints : \A t \in makers[e] :
  stubs[e] # None \/ (at[t] = "keep" /\ ep[t] = e)

CacheInv == CacheTypeOK /\ MakersCached /\ ConnectsOnce

LEMMA InitCache == CacheInit => CacheInv
<1> SUFFICES ASSUME CacheInit PROVE CacheInv
  OBVIOUS
<1>1. CacheTypeOK
  BY DEF CacheInit, CacheTypeOK
<1>2. MakersCached /\ ConnectsOnce
  BY DEF CacheInit, MakersCached, ConnectsOnce
<1> QED
  BY <1>1, <1>2 DEF CacheInv

(* Each step keeps the types.                                              *)
LEMMA TypesKept == CacheInv /\ [CacheNext]_cache => CacheTypeOK'
<1> SUFFICES ASSUME CacheTypeOK, [CacheNext]_cache PROVE CacheTypeOK'
  BY DEF CacheInv
<1> USE StubAssumption DEF CacheTypeOK, Moves
<1>1. ASSUME NEW t \in Handlers, NotifyKickUser(t) PROVE CacheTypeOK'
  BY <1>1 DEF NotifyKickUser
<1>2. ASSUME NEW t \in Handlers, Look(t) PROVE CacheTypeOK'
  BY <1>2 DEF Look
<1>3. ASSUME NEW t \in Handlers, Connect(t) PROVE CacheTypeOK'
  BY <1>3 DEF Connect
<1>4. ASSUME NEW t \in Handlers, Keep(t) PROVE CacheTypeOK'
  BY <1>4 DEF Keep
<1>5. ASSUME NEW t \in Handlers, KickUser(t) PROVE CacheTypeOK'
  BY <1>5 DEF KickUser
<1>6. ASSUME NEW t \in Handlers, Return(t) PROVE CacheTypeOK'
  BY <1>6 DEF Return
<1>7. CASE UNCHANGED cache
  BY <1>7 DEF cache
<1> QED
  BY <1>1, <1>2, <1>3, <1>4, <1>5, <1>6, <1>7 DEF CacheNext

(* Each step keeps the cache filled, and what is filled keeps a thread     *)
(* that has connected from connecting again.                               *)
LEMMA CacheKept == CacheInv /\ [CacheNext]_cache => MakersCached' /\ ConnectsOnce'
<1> SUFFICES ASSUME CacheInv, [CacheNext]_cache PROVE MakersCached' /\ ConnectsOnce'
  OBVIOUS
<1> USE StubAssumption DEF CacheInv, CacheTypeOK, MakersCached, ConnectsOnce, Moves
<1>1. ASSUME NEW t \in Handlers, NotifyKickUser(t)
      PROVE  MakersCached' /\ ConnectsOnce'
  BY <1>1 DEF NotifyKickUser
<1>2. ASSUME NEW t \in Handlers, Look(t) PROVE MakersCached' /\ ConnectsOnce'
  <2>1. MakersCached'
    BY <1>2 DEF Look
  <2>2. ASSUME stubs[ep[t]] = None PROVE t \notin makers[ep[t]]
    BY <1>2, <2>2 DEF Look
  <2>3. ConnectsOnce'
    BY <1>2, <2>2 DEF Look
  <2> QED
    BY <2>1, <2>3
<1>3. ASSUME NEW t \in Handlers, Connect(t)
      PROVE  MakersCached' /\ ConnectsOnce'
  BY <1>3 DEF Connect
<1>4. ASSUME NEW t \in Handlers, Keep(t) PROVE MakersCached' /\ ConnectsOnce'
  BY <1>4 DEF Keep
<1>5. ASSUME NEW t \in Handlers, KickUser(t)
      PROVE  MakersCached' /\ ConnectsOnce'
  BY <1>5 DEF KickUser
<1>6. ASSUME NEW t \in Handlers, Return(t)
      PROVE  MakersCached' /\ ConnectsOnce'
  BY <1>6 DEF Return
<1>7. CASE UNCHANGED cache
  BY <1>7 DEF cache
<1> QED
  BY <1>1, <1>2, <1>3, <1>4, <1>5, <1>6, <1>7 DEF CacheNext

LEMMA CacheInductive == CacheSpec => []CacheInv
<1>1. CacheInv /\ [CacheNext]_cache => CacheInv'
  BY TypesKept, CacheKept DEF CacheInv
<1> QED
  BY InitCache, <1>1, PTL DEF CacheSpec

(* No handler thread ever connects twice to the same chat server: the race *)
(* of two lookups that both miss (getOrCreateStub) costs a channel per     *)
(* thread at most, with any number of threads and servers.                 *)
THEOREM ConnectsAtMostOnce == CacheSpec => [](CacheTypeOK /\ ConnectsOnce)
<1>1. CacheInv => CacheTypeOK /\ ConnectsOnce
  BY DEF CacheInv
<1> QED
  BY CacheInductive, <1>1, PTL
=============================================================================
