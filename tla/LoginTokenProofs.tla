-------------------------- MODULE LoginTokenProofs --------------------------
(***************************************************************************)
(* Proofs about LoginTokens, for any threads, users, tokens and TTLs.      *)
(***************************************************************************)
EXTENDS LoginTokens, FiniteSetTheorems, TLAPS

(* The labels at which a thread has a token in its hands, and those among  *)
(* them at which nobody else knows it yet: saveToken has not indexed it.   *)
Holding == {"dtIndex", "dtToken", "svUid", "svToken", "svExpire", "svIndex",
            "svUndo", "rtToken", "rtIndex"}
Fresh   == {"svUid", "svToken", "svExpire", "svIndex"}

Holds(t) == /\ pc[t] # "idle" => req[t].uid \in Uids
            /\ pc[t] \in Holding => tok[t] \in Tokens

StoreOK == /\ tokens \in [Tokens -> Hash \cup {None}]
           /\ index \in [Uids -> Index \cup {None}]
           /\ files \in [Uids -> File \cup {None}]

CountersOK == faults \in 0 .. MaxFaults /\ issued \subseteq Tokens
              /\ crashes \in 0 .. MaxCrashes

LocalOK == /\ pc \in [Threads -> Labels]
           /\ req \in [Threads -> Request]
           /\ tok \in [Threads -> Tokens \cup {None}]
           /\ \A t \in Threads : Holds(t)

(* What is stored, indexed or held has been generated.                     *)
Issued == /\ \A k \in Tokens : tokens[k] # None => k \in issued
          /\ \A u \in Uids : index[u] # None => index[u].val \in issued
          /\ \A t \in Threads : tok[t] # None => tok[t] \in issued

(* A fresh token is in no index and in no other thread's hands.            *)
Owned == \A t \in Threads : pc[t] \in Fresh =>
  /\ \A u \in Uids : index[u] # None => index[u].val # tok[t]
  /\ \A s \in Threads \ {t} : tok[s] # tok[t]

(* The hash whose second field is still to come is there, without a TTL.   *)
Written == \A t \in Threads : pc[t] = "svToken" =>
  tokens[tok[t]] \in Hash /\ tokens[tok[t]].ttl = Forever

TokenInv == StoreOK /\ CountersOK /\ LocalOK /\ Issued /\ Owned /\ Written

-----------------------------------------------------------------------------
(* What a step of the thread t may do to be a calm one: it returns, or     *)
(* goes on with the token it has, and it does not begin to write one.      *)
Proceeds(t, l) == /\ Continue(t, l) /\ pc[t] # "idle" /\ l # "svToken"
                  /\ l \in Holding => pc[t] \in Holding
                  /\ l \in Fresh => pc[t] \in Fresh
Calm(t) == Return(t) \/ \E l \in Labels : Proceeds(t, l)

(* No key comes to be, and of the hashes only that of t's token changes.   *)
NothingNew(t) ==
  /\ \A k \in Tokens : tokens'[k] # None => tokens[k] # None
  /\ \A k \in Tokens : k # tok[t] => tokens'[k] = tokens[k]
  /\ \A u \in Uids : index'[u] # None =>
       index[u] # None /\ index'[u].val = index[u].val
  /\ issued \subseteq issued'

(* Counting a command's outcome keeps the faults within their bound.       *)
LEMMA ChargeOK ==
  ASSUME CountersOK, NEW cmd, NEW o \in Outcomes(cmd), Charge(o)
  PROVE  /\ faults' \in 0 .. MaxFaults /\ faults <= faults'
         /\ o # "ok" => faults' = faults + 1 /\ faults < MaxFaults
BY RedisAssumption DEF Outcomes, Charge, CountersOK

LEMMA ReturnOK ==
  ASSUME NEW t \in Threads, LocalOK, Return(t)
  PROVE  LocalOK'
<1>1. NoReq \in Request /\ "idle" \in Labels /\ "idle" \notin Holding
  BY DEF NoReq, Request, AllOps, Labels, Holding
<1>2. /\ pc' = [pc EXCEPT ![t] = "idle"] /\ req' = [req EXCEPT ![t] = NoReq]
      /\ tok' = [tok EXCEPT ![t] = None]
  BY DEF Return, Go
<1> HIDE DEF NoReq, Request, Labels, Holding
<1> QED
  BY <1>1, <1>2 DEF LocalOK, Holds

LEMMA MoveOK ==
  ASSUME NEW t \in Threads, NEW l \in Labels, LocalOK, Continue(t, l),
         pc[t] # "idle", l \in Holding => pc[t] \in Holding
  PROVE  LocalOK'
<1>1. pc' = [pc EXCEPT ![t] = l] /\ req' = req /\ tok' = tok
  BY DEF Continue, Go
<1> QED
  BY <1>1 DEF LocalOK, Holds

(* A calm step in which nothing new comes to be keeps what the invariant   *)
(* says of the threads.                                                    *)
LEMMA CalmOK ==
  ASSUME NEW t \in Threads, TokenInv, Calm(t), NothingNew(t)
  PROVE  LocalOK' /\ Issued' /\ Owned' /\ Written'
<1> USE TokenAssumption DEF TokenInv
<1>1. LocalOK'
  BY ReturnOK, MoveOK DEF Calm, Proceeds
<1>2. /\ \A s \in Threads \ {t} : pc'[s] = pc[s] /\ tok'[s] = tok[s]
      /\ tok'[t] \in {tok[t], None} /\ pc'[t] # "svToken"
      /\ pc'[t] \in Fresh => pc[t] \in Fresh /\ tok'[t] = tok[t]
      /\ pc'[t] = "idle" \/ tok'[t] = tok[t]
  <2>1. CASE Return(t)
    BY <2>1 DEF Return, Go, LocalOK, Fresh
  <2>2. ASSUME NEW l \in Labels, Proceeds(t, l)
        PROVE  /\ pc' = [pc EXCEPT ![t] = l] /\ tok' = tok /\ l # "svToken"
               /\ l \in Fresh => pc[t] \in Fresh
    BY <2>2 DEF Proceeds, Continue, Go
  <2> QED
    BY <2>1, <2>2 DEF Calm, LocalOK
<1>3. Issued'
  <2>1. \A k \in Tokens : tokens'[k] # None => k \in issued'
    BY DEF Issued, NothingNew
  <2>2. \A u \in Uids : index'[u] # None => index'[u].val \in issued'
    BY DEF Issued, NothingNew
  <2>3. \A s \in Threads : tok'[s] # None => tok'[s] \in issued'
    BY <1>2 DEF Issued, NothingNew
  <2> QED
    BY <2>1, <2>2, <2>3 DEF Issued
<1>4. Owned'
  <2> SUFFICES ASSUME NEW s \in Threads, pc'[s] \in Fresh
               PROVE  /\ \A u \in Uids : index'[u] # None => index'[u].val # tok'[s]
                      /\ \A r \in Threads \ {s} : tok'[r] # tok'[s]
    BY DEF Owned
  <2>1. pc[s] \in Fresh /\ tok'[s] = tok[s] /\ tok[s] \in Tokens
    BY <1>2 DEF LocalOK, Holds, Fresh, Holding
  <2>2. \A u \in Uids : index'[u] # None => index'[u].val # tok'[s]
    BY <2>1 DEF Owned, NothingNew
  <2>3. \A r \in Threads \ {s} : tok'[r] # tok'[s]
    BY <2>1, <1>2 DEF Owned
  <2> QED
    BY <2>2, <2>3
<1>5. Written'
  <2> SUFFICES ASSUME NEW s \in Threads, pc'[s] = "svToken"
               PROVE  tokens'[tok'[s]] \in Hash /\ tokens'[tok'[s]].ttl = Forever
    BY DEF Written, Hash
  <2>1. s # t /\ pc[s] = "svToken" /\ tok'[s] = tok[s]
    BY <1>2
  <2>2. tok[s] \in Tokens /\ tok[s] # tok[t]
    BY <2>1 DEF LocalOK, Holds, Holding, Owned, Fresh
  <2>3. tokens'[tok[s]] = tokens[tok[s]]
    BY <2>2 DEF NothingNew
  <2> QED
    BY <2>1, <2>3 DEF Written
<1> QED
  BY <1>1, <1>3, <1>4, <1>5

-----------------------------------------------------------------------------
LEMMA InitOK == Init => TokenInv
<1> SUFFICES ASSUME Init PROVE TokenInv
  OBVIOUS
<1>1. NoReq \in Request /\ "idle" \in Labels \ (Holding \cup Fresh \cup {"svToken"})
  BY DEF NoReq, Request, AllOps, Labels, Holding, Fresh
<1>2. StoreOK /\ CountersOK
  BY TokenAssumption, RedisAssumption DEF Init, StoreOK, CountersOK
<1>3. LocalOK
  BY <1>1 DEF Init, LocalOK, Holds
<1>4. Issued /\ Owned /\ Written
  BY <1>1 DEF Init, Issued, Owned, Written
<1> QED
  BY <1>2, <1>3, <1>4 DEF TokenInv

LEMMA RequestOK ==
  ASSUME NEW t \in Threads, TokenInv, Requests(t)
  PROVE  TokenInv'
<1> USE DEF TokenInv
<1> DEFINE Calls(op, l) == Call(t, op, l) /\ op \in AllOps
             /\ l \in Labels \ (Holding \cup Fresh \cup {"svToken"})
<1>1. PICK op, l : Calls(op, l)
  BY DEF Requests, GetChatServer, ClearLogin, RefreshTokenTTL, GetFileServer,
         DeleteFileToken, AllOps, Labels, Holding, Fresh
<1>2. PICK u \in Uids : /\ pc' = [pc EXCEPT ![t] = l]
                        /\ req' = [req EXCEPT ![t] = [op |-> op, uid |-> u]]
                        /\ UNCHANGED <<redis, faults, issued, crashes, tok>>
  BY <1>1 DEF Call, Go
<1>3. StoreOK' /\ CountersOK'
  BY <1>2 DEF StoreOK, CountersOK, redis
<1>4. [op |-> op, uid |-> u] \in Request
  BY <1>1 DEF Request
<1>5. LocalOK'
  BY <1>1, <1>2, <1>4 DEF LocalOK, Holds
<1>6. Issued' /\ Owned' /\ Written'
  BY <1>1, <1>2 DEF Issued, Owned, Written, LocalOK, redis
<1> QED
  BY <1>3, <1>5, <1>6

-----------------------------------------------------------------------------
(* The steps of deleteToken, and of refreshTokenTTL, which begins as it    *)
(* does: with a token that is indexed, so that it is nobody's fresh one.   *)
LEMMA GetOK ==
  ASSUME NEW t \in Threads, TokenInv, DtGet(t) \/ RtGet(t)
  PROVE  TokenInv' /\ NothingNew(t)
<1> USE DEF TokenInv
<1>1. PICK o \in Outcomes("get") :
        /\ Charge(o) /\ pc[t] \in {"dtGet", "rtGet"}
        /\ UNCHANGED <<redis, issued, crashes>>
        /\ LET k == Get(o, index, req[t].uid) IN
           IF k = None THEN Return(t) \/ AfterDelete(t)
           ELSE /\ tok' = [tok EXCEPT ![t] = k] /\ req' = req
                /\ Go(t, "dtIndex") \/ Go(t, "rtToken")
  BY DEF DtGet, RtGet, At
<1>2. StoreOK' /\ CountersOK'
  BY <1>1, ChargeOK DEF StoreOK, CountersOK, redis
<1>3. NothingNew(t)
  BY <1>1 DEF NothingNew, redis
<1>4. PICK k : k = Get(o, index, req[t].uid)
  OBVIOUS
<1>5. CASE k = None
  <2>1. Calm(t)
    BY <1>1, <1>4, <1>5 DEF AfterDelete, Calm, Proceeds, Labels, Holding, Fresh
  <2> QED
    BY <2>1, <1>2, <1>3, CalmOK
<1>6. CASE k # None
  <2>1. /\ tok' = [tok EXCEPT ![t] = k] /\ req' = req
        /\ pc' = [pc EXCEPT ![t] = "dtIndex"] \/ pc' = [pc EXCEPT ![t] = "rtToken"]
    BY <1>1, <1>4, <1>6 DEF Go
  <2>2. PICK u \in Uids : index[u] # None /\ k = index[u].val
    BY <1>1, <1>4, <1>6 DEF Get, LocalOK, Holds
  <2>3. k \in Tokens /\ k \in issued
    BY <2>2 DEF StoreOK, Index, Issued
  <2>4. LocalOK'
    BY <1>1, <2>1, <2>3 DEF LocalOK, Holds, Labels
  <2>5. Issued'
    BY <1>1, <2>1, <2>3 DEF Issued, LocalOK, redis
  <2>6. Owned'
    BY <1>1, <2>1, <2>2 DEF Owned, LocalOK, Fresh, redis
  <2>7. Written'
    BY <1>1, <2>1 DEF Written, LocalOK, redis
  <2> QED
    BY <1>2, <1>3, <2>4, <2>5, <2>6, <2>7
<1> QED
  BY <1>5, <1>6

(* DEL, and EXPIRE: they make nothing new.                                 *)
LEMMA DelOK ==
  ASSUME NEW K, NEW T, NEW key \in [K -> T \cup {None}], NEW i, NEW o
  PROVE  /\ Del(o, key, i) \in [K -> T \cup {None}]
         /\ \A j \in K : j # i => Del(o, key, i)[j] = key[j]
         /\ \A j \in K : Del(o, key, i)[j] \in {key[j], None}
BY DEF Del

LEMMA ExpireHashOK ==
  ASSUME TokenInv, NEW i \in Tokens, NEW o,
         tokens' = Expire(o, tokens, i, TokenTtl)
  PROVE  /\ tokens' \in [Tokens -> Hash \cup {None}]
         /\ \A j \in Tokens : j # i => tokens'[j] = tokens[j]
         /\ \A j \in Tokens : tokens'[j] # None => tokens[j] # None
BY TokenAssumption DEF Expire, TokenInv, StoreOK, Hash, Forever

LEMMA ExpireIndexOK ==
  ASSUME TokenInv, NEW i \in Uids, NEW o,
         index' = Expire(o, index, i, TokenTtl)
  PROVE  /\ index' \in [Uids -> Index \cup {None}]
         /\ \A u \in Uids : index'[u] # None =>
              index[u] # None /\ index'[u].val = index[u].val
BY TokenAssumption DEF Expire, TokenInv, StoreOK, Index

(* The steps that write no new key: deleteToken after its GET, the EXPIREs *)
(* and the DEL of saveToken, the EXPIREs of refreshTokenTTL, file tokens.  *)
LEMMA WriteOK ==
  ASSUME NEW t \in Threads, TokenInv,
         \/ DtIndex(t) \/ DtToken(t) \/ SvExpire(t) \/ SvUndo(t)
         \/ RtToken(t) \/ RtIndex(t) \/ FiSet(t) \/ FiDel(t) \/ FiNone(t)
  PROVE  TokenInv' /\ NothingNew(t)
<1> USE DEF TokenInv
<1>q. StoreOK' /\ CountersOK' /\ NothingNew(t) /\ Calm(t)
      => TokenInv' /\ NothingNew(t)
  BY CalmOK
<1> USE DEF At, Calm, Proceeds, Labels, Holding, Fresh, NothingNew, redis
<1>1. CASE DtIndex(t)
  <2>1. PICK o \in Outcomes("del") :
          /\ pc[t] = "dtIndex" /\ Charge(o) /\ index' = Del(o, index, req[t].uid)
          /\ Continue(t, "dtToken") /\ UNCHANGED <<tokens, files, issued, crashes>>
    BY <1>1 DEF DtIndex
  <2>2. StoreOK' /\ CountersOK'
    BY <2>1, DelOK, ChargeOK DEF StoreOK, CountersOK
  <2>3. \A u \in Uids : index'[u] \in {index[u], None}
    BY <2>1, DelOK DEF StoreOK
  <2>4. NothingNew(t)
    BY <2>1, <2>3
  <2>5. Calm(t)
    BY <2>1
  <2> QED
    BY <1>q, <2>2, <2>4, <2>5
<1>2. CASE DtToken(t)
  <2>1. PICK o \in Outcomes("del") :
          /\ pc[t] = "dtToken" /\ Charge(o) /\ tokens' = Del(o, tokens, tok[t])
          /\ AfterDelete(t) /\ UNCHANGED <<index, files, issued, crashes>>
    BY <1>2 DEF DtToken
  <2>2. StoreOK' /\ CountersOK'
    BY <2>1, DelOK, ChargeOK DEF StoreOK, CountersOK
  <2>3. NothingNew(t)
    BY <2>1, DelOK DEF StoreOK
  <2>4. Calm(t)
    BY <2>1 DEF AfterDelete
  <2> QED
    BY <1>q, <2>2, <2>3, <2>4
<1>3. CASE SvExpire(t)
  <2>1. PICK o \in Outcomes("expire") :
          /\ pc[t] = "svExpire" /\ Charge(o)
          /\ tokens' = Expire(o, tokens, tok[t], TokenTtl)
          /\ Continue(t, "svIndex") \/ Continue(t, "svUndo")
          /\ UNCHANGED <<index, files, issued, crashes>>
    BY <1>3 DEF SvExpire, OrUndo
  <2>2. tok[t] \in Tokens
    BY <2>1 DEF LocalOK, Holds
  <2>3. StoreOK' /\ CountersOK'
    BY <2>1, <2>2, ExpireHashOK, ChargeOK DEF StoreOK, CountersOK
  <2>4. NothingNew(t)
    BY <2>1, <2>2, ExpireHashOK
  <2>5. Calm(t)
    BY <2>1
  <2> QED
    BY <1>q, <2>3, <2>4, <2>5
<1>4. CASE SvUndo(t)
  <2>1. PICK o \in Outcomes("del") :
          /\ pc[t] = "svUndo" /\ Charge(o) /\ tokens' = Del(o, tokens, tok[t])
          /\ Return(t) /\ UNCHANGED <<index, files, issued, crashes>>
    BY <1>4 DEF SvUndo
  <2>2. StoreOK' /\ CountersOK'
    BY <2>1, DelOK, ChargeOK DEF StoreOK, CountersOK
  <2>3. NothingNew(t)
    BY <2>1, DelOK DEF StoreOK
  <2> QED
    BY <1>q, <2>1, <2>2, <2>3
<1>5. CASE RtToken(t)
  <2>1. PICK o \in Outcomes("expire") :
          /\ pc[t] = "rtToken" /\ Charge(o)
          /\ tokens' = Expire(o, tokens, tok[t], TokenTtl)
          /\ Continue(t, "rtIndex") /\ UNCHANGED <<index, files, issued, crashes>>
    BY <1>5 DEF RtToken
  <2>2. tok[t] \in Tokens
    BY <2>1 DEF LocalOK, Holds
  <2>3. StoreOK' /\ CountersOK'
    BY <2>1, <2>2, ExpireHashOK, ChargeOK DEF StoreOK, CountersOK
  <2>4. NothingNew(t)
    BY <2>1, <2>2, ExpireHashOK
  <2>5. Calm(t)
    BY <2>1
  <2> QED
    BY <1>q, <2>3, <2>4, <2>5
<1>6. CASE RtIndex(t)
  <2>1. PICK o \in Outcomes("expire") :
          /\ pc[t] = "rtIndex" /\ Charge(o)
          /\ index' = Expire(o, index, req[t].uid, TokenTtl)
          /\ Return(t) /\ UNCHANGED <<tokens, files, issued, crashes>>
    BY <1>6 DEF RtIndex
  <2>2. req[t].uid \in Uids
    BY <2>1 DEF LocalOK, Holds
  <2>3. StoreOK' /\ CountersOK'
    BY <2>1, <2>2, ExpireIndexOK, ChargeOK DEF StoreOK, CountersOK
  <2>4. NothingNew(t)
    BY <2>1, <2>2, ExpireIndexOK
  <2> QED
    BY <1>q, <2>1, <2>3, <2>4
<1>7. CASE FiSet(t)
  <2>1. PICK o \in Outcomes("setEx"), k \in Tokens :
          /\ Charge(o) /\ issued' = issued \cup {k}
          /\ files' = SetEx(o, files, req[t].uid, k, FileTtl)
          /\ pc[t] = "fiSet" /\ Return(t) /\ UNCHANGED <<tokens, index, crashes>>
    BY <1>7 DEF FiSet, Generate
  <2>2. [val |-> k, ttl |-> FileTtl] \in File
    BY TokenAssumption DEF File
  <2>3. StoreOK' /\ CountersOK'
    BY <2>1, <2>2, ChargeOK DEF StoreOK, CountersOK, SetEx
  <2>4. NothingNew(t)
    BY <2>1
  <2> QED
    BY <1>q, <2>1, <2>3, <2>4
<1>8. CASE FiDel(t)
  <2>1. PICK o \in Outcomes("del") :
          /\ Charge(o) /\ files' = Del(o, files, req[t].uid)
          /\ Return(t) /\ UNCHANGED <<tokens, index, issued, crashes>>
    BY <1>8 DEF FiDel
  <2>2. StoreOK' /\ CountersOK'
    BY <2>1, DelOK, ChargeOK DEF StoreOK, CountersOK
  <2>3. NothingNew(t)
    BY <2>1
  <2> QED
    BY <1>q, <2>1, <2>2, <2>3
<1>9. CASE FiNone(t)
  BY <1>q, <1>9 DEF FiNone, StoreOK, CountersOK
<1> QED
  BY <1>1, <1>2, <1>3, <1>4, <1>5, <1>6, <1>7, <1>8, <1>9

(* A node may be missing; else the token picked is new to everybody.       *)
LEMMA PickOK ==
  ASSUME NEW t \in Threads, TokenInv, Pick(t)
  PROVE  TokenInv'
<1> USE TokenAssumption DEF TokenInv
<1>1. pc[t] = "pick" /\ UNCHANGED <<tokens, index, files, faults, crashes>>
  BY DEF Pick, At, redis
<1>2. CASE Return(t) /\ UNCHANGED issued
  <2>1. NothingNew(t) /\ Calm(t)
    BY <1>1, <1>2 DEF NothingNew, Calm
  <2> QED
    BY <1>1, <1>2, <2>1, CalmOK DEF StoreOK, CountersOK
<1>3. CASE \E k \in Tokens : Generate(k) /\ Go(t, "svUid") /\ req' = req
                             /\ tok' = [tok EXCEPT ![t] = k]
  <2>1. PICK k \in Tokens \ issued :
          /\ issued' = issued \cup {k} /\ pc' = [pc EXCEPT ![t] = "svUid"]
          /\ req' = req /\ tok' = [tok EXCEPT ![t] = k]
    BY <1>3 DEF Generate, Go
  <2>2. StoreOK' /\ CountersOK'
    BY <1>1, <2>1 DEF StoreOK, CountersOK
  <2>3. LocalOK'
    BY <1>1, <2>1 DEF LocalOK, Holds, Labels
  <2>4. Issued'
    BY <1>1, <2>1 DEF Issued, LocalOK
  <2>5. Owned'
    <3> SUFFICES ASSUME NEW s \in Threads, pc'[s] \in Fresh
                 PROVE  /\ \A u \in Uids : index'[u] # None => index'[u].val # tok'[s]
                        /\ \A r \in Threads \ {s} : tok'[r] # tok'[s]
      BY DEF Owned
    <3>1. CASE s = t
      BY <1>1, <2>1, <3>1 DEF Issued, LocalOK
    <3>2. CASE s # t
      <4>1. pc[s] \in Fresh /\ tok'[s] = tok[s] /\ tok[s] # None
        BY <2>1, <3>2 DEF LocalOK, Holds, Fresh, Holding
      <4> QED
        BY <1>1, <2>1, <3>2, <4>1 DEF Owned, Issued, LocalOK
    <3> QED
      BY <3>1, <3>2
  <2>6. Written'
    BY <1>1, <2>1 DEF Written, LocalOK
  <2> QED
    BY <2>2, <2>3, <2>4, <2>5, <2>6
<1> QED
  BY <1>2, <1>3 DEF Pick

(* A step that writes the hash of the fresh token in t's hands.            *)
LEMMA HashOK ==
  ASSUME NEW t \in Threads, TokenInv, pc[t] \in {"svUid", "svToken"},
         NEW l \in {"svToken", "svExpire", "svUndo"}, Continue(t, l),
         NEW h \in Hash \cup {None}, tokens' = [tokens EXCEPT ![tok[t]] = h],
         l = "svToken" => h \in Hash /\ h.ttl = Forever,
         UNCHANGED <<index, files, issued, crashes>>, faults' \in 0 .. MaxFaults
  PROVE  TokenInv'
<1> USE TokenAssumption DEF TokenInv
<1>1. /\ tok[t] \in Tokens /\ pc' = [pc EXCEPT ![t] = l]
      /\ req' = req /\ tok' = tok
  BY DEF LocalOK, Holds, Holding, Continue, Go
<1>2. StoreOK' /\ CountersOK'
  BY <1>1 DEF StoreOK, CountersOK
<1>3. LocalOK'
  BY <1>1, MoveOK DEF Labels, Holding
<1>4. Issued'
  BY <1>1 DEF Issued, StoreOK
<1>5. Owned'
  BY <1>1 DEF Owned, LocalOK, Fresh
<1>6. Written'
  BY <1>1 DEF Written, Owned, Fresh, LocalOK, Holds, Holding, StoreOK
<1> QED
  BY <1>2, <1>3, <1>4, <1>5, <1>6

LEMMA SvUidOK ==
  ASSUME NEW t \in Threads, TokenInv, SvUid(t)
  PROVE  TokenInv'
<1> USE DEF TokenInv
<1> DEFINE h == [uid |-> req[t].uid, token |-> FALSE, ttl |-> Forever]
<1>1. PICK o \in Outcomes("hSet") :
        /\ pc[t] = "svUid" /\ Charge(o) /\ tokens' = HSet(o, tokens, tok[t], h)
        /\ Continue(t, IF o = "ok" THEN "svToken" ELSE "svUndo")
        /\ UNCHANGED <<index, files, issued, crashes>>
  BY DEF SvUid, At, OrUndo
<1>2. tok[t] \in Tokens /\ req[t].uid \in Uids
  BY <1>1 DEF LocalOK, Holds, Holding
<1>3. h \in Hash /\ h.ttl = Forever
  BY <1>2, TokenAssumption DEF Hash, Forever
<1> HIDE DEF h
<1>4. CASE Executed(o)
  BY <1>1, <1>3, <1>4, ChargeOK, HashOK DEF HSet
<1>5. CASE ~Executed(o)
  <2>1. tokens' = [tokens EXCEPT ![tok[t]] = tokens[tok[t]]]
    BY <1>1, <1>5 DEF HSet, StoreOK
  <2>2. Continue(t, "svUndo") /\ tokens[tok[t]] \in Hash \cup {None}
    BY <1>1, <1>2, <1>5 DEF Executed, StoreOK
  <2> QED
    BY <1>1, <2>1, <2>2, ChargeOK, HashOK
<1> QED
  BY <1>4, <1>5

LEMMA SvTokenOK ==
  ASSUME NEW t \in Threads, TokenInv, SvToken(t)
  PROVE  TokenInv'
<1> USE DEF TokenInv
<1>1. PICK o \in Outcomes("hSet") :
        /\ pc[t] = "svToken" /\ Charge(o)
        /\ tokens' = IF Executed(o) THEN [tokens EXCEPT ![tok[t]].token = TRUE]
                                    ELSE tokens
        /\ Continue(t, IF o = "ok" THEN "svExpire" ELSE "svUndo")
        /\ UNCHANGED <<index, files, issued, crashes>>
  BY DEF SvToken, At, OrUndo
<1>2. tok[t] \in Tokens /\ tokens[tok[t]] \in Hash
  BY <1>1 DEF LocalOK, Holds, Holding, Written
<1>3. [tokens[tok[t]] EXCEPT !.token = TRUE] \in Hash
  BY <1>2 DEF Hash
<1>4. PICK h \in Hash : tokens' = [tokens EXCEPT ![tok[t]] = h]
  <2>1. CASE Executed(o)
    BY <1>1, <1>3, <2>1
  <2>2. CASE ~Executed(o)
    BY <1>1, <1>2, <2>2 DEF StoreOK
  <2> QED
    BY <2>1, <2>2
<1>5. PICK l \in {"svExpire", "svUndo"} : Continue(t, l)
  BY <1>1
<1> QED
  BY <1>1, <1>4, <1>5, ChargeOK, HashOK

(* saveToken writes the index; its token is fresh no longer.               *)
LEMMA SvIndexOK ==
  ASSUME NEW t \in Threads, TokenInv, SvIndex(t)
  PROVE  TokenInv'
<1> USE TokenAssumption DEF TokenInv
<1>1. PICK o \in Outcomes("setEx") :
        /\ pc[t] = "svIndex" /\ Charge(o)
        /\ index' = SetEx(o, index, req[t].uid, tok[t], TokenTtl)
        /\ Return(t) \/ Continue(t, "svUndo")
        /\ UNCHANGED <<tokens, files, issued, crashes>>
  BY DEF SvIndex, At
<1>2. tok[t] \in Tokens /\ req[t].uid \in Uids
  BY <1>1 DEF LocalOK, Holds, Holding
<1>3. [val |-> tok[t], ttl |-> TokenTtl] \in Index
  BY <1>2 DEF Index
<1>4. StoreOK' /\ CountersOK'
  BY <1>1, <1>3, ChargeOK DEF StoreOK, CountersOK, SetEx
<1>5. LocalOK'
  BY <1>1, ReturnOK, MoveOK DEF Labels, Holding
<1>6. /\ \A s \in Threads \ {t} : pc'[s] = pc[s] /\ tok'[s] = tok[s]
      /\ pc'[t] \notin Fresh /\ tok'[t] \in {tok[t], None}
  BY <1>1 DEF Return, Continue, Go, LocalOK, Fresh
<1>7. \A u \in Uids : index'[u] # None =>
        \/ index[u] # None /\ index'[u].val = index[u].val
        \/ index'[u].val = tok[t]
  BY <1>1 DEF SetEx, StoreOK
<1>8. Issued'
  BY <1>1, <1>2, <1>6, <1>7 DEF Issued
<1>9. Owned'
  BY <1>6, <1>7 DEF Owned, LocalOK, Holds, Holding, Fresh
<1>10. Written'
  BY <1>1, <1>6 DEF Written, Fresh
<1> QED
  BY <1>4, <1>5, <1>8, <1>9, <1>10

-----------------------------------------------------------------------------
(* One second later a hash that had no TTL still has none.                 *)
LEMMA AgeOK ==
  /\ \A h \in Hash \cup {None} : /\ AgeHash(h) \in Hash \cup {None}
                                 /\ h.ttl = Forever => AgeHash(h) = h
                                 /\ AgeHash(h) = None \/ h = None \/ h.ttl = Forever
                                    \/ AgeHash(h).ttl # Forever
  /\ \A k \in Index \cup {None} : AgeKey(k) \in Index \cup {None}
  /\ \A k \in Index \cup {None} : AgeKey(k) = None \/ (k # None /\ AgeKey(k).val = k.val)
  /\ \A k \in File \cup {None} : AgeKey(k) \in File \cup {None}
  /\ AgeHash(None) = None /\ AgeKey(None) = None
<1>1. ASSUME NEW h \in Hash, h.ttl # Forever, h.ttl # 1
      PROVE  [h EXCEPT !.ttl = @ - 1] \in Hash /\ h.ttl - 1 # Forever
  BY <1>1, TokenAssumption DEF Hash, Forever
<1>2. ASSUME NEW k \in Index, k.ttl # 1 PROVE [k EXCEPT !.ttl = @ - 1] \in Index
  BY <1>2, TokenAssumption DEF Index
<1>3. ASSUME NEW k \in File, k.ttl # 1 PROVE [k EXCEPT !.ttl = @ - 1] \in File
  BY <1>3, TokenAssumption DEF File
<1>4. AgeHash(None) = None /\ AgeKey(None) = None
  BY DEF AgeHash, AgeKey
<1>5. ASSUME NEW h \in Hash, h # None
      PROVE  /\ AgeHash(h) \in Hash \cup {None}
             /\ h.ttl = Forever => AgeHash(h) = h
             /\ AgeHash(h) = None \/ h.ttl = Forever \/ AgeHash(h).ttl # Forever
  BY <1>1, <1>5 DEF AgeHash, AgeKey, Hash
<1>6. ASSUME NEW k \in Index, k # None
      PROVE  /\ AgeKey(k) \in Index \cup {None}
             /\ AgeKey(k) = None \/ AgeKey(k).val = k.val
  BY <1>2, <1>6 DEF AgeKey, Index
<1>7. ASSUME NEW k \in File, k # None PROVE AgeKey(k) \in File \cup {None}
  BY <1>3, <1>7 DEF AgeKey
<1> QED
  BY <1>4, <1>5, <1>6, <1>7

LEMMA TickOK == ASSUME TokenInv, Tick PROVE TokenInv'
<1> USE DEF TokenInv
<1>1. /\ tokens' = [k \in Tokens |-> AgeHash(tokens[k])]
      /\ index' = [u \in Uids |-> AgeKey(index[u])]
      /\ files' = [u \in Uids |-> AgeKey(files[u])]
      /\ UNCHANGED <<faults, issued, crashes, pc, req, tok>>
  BY DEF Tick
<1>2. StoreOK' /\ CountersOK' /\ LocalOK'
  BY <1>1, AgeOK DEF StoreOK, CountersOK, LocalOK, Holds
<1>3. Issued'
  BY <1>1, AgeOK DEF Issued, StoreOK
<1>4. Owned'
  BY <1>1, AgeOK DEF Owned, StoreOK
<1>5. Written'
  BY <1>1, AgeOK DEF Written, StoreOK, LocalOK, Holds, Holding
<1> QED
  BY <1>2, <1>3, <1>4, <1>5

LEMMA CrashOK == ASSUME TokenInv, Crash PROVE TokenInv'
<1> USE DEF TokenInv
<1>1. NoReq \in Request /\ "idle" \in Labels \ (Holding \cup Fresh \cup {"svToken"})
  BY DEF NoReq, Request, AllOps, Labels, Holding, Fresh
<1>2. /\ pc' = [t \in Threads |-> "idle"] /\ req' = [t \in Threads |-> NoReq]
      /\ tok' = [t \in Threads |-> None]
      /\ UNCHANGED <<tokens, index, files, faults, issued>>
      /\ crashes < MaxCrashes /\ crashes' = crashes + 1
  BY DEF Crash, redis
<1>3. StoreOK' /\ CountersOK'
  BY <1>2, TokenAssumption DEF StoreOK, CountersOK
<1>4. LocalOK'
  BY <1>1, <1>2 DEF LocalOK, Holds
<1>5. Issued' /\ Owned' /\ Written'
  BY <1>1, <1>2 DEF Issued, Owned, Written
<1> QED
  BY <1>3, <1>4, <1>5

LEMMA TokenStep == TokenInv /\ [Next]_vars => TokenInv'
<1> SUFFICES ASSUME TokenInv, [Next]_vars PROVE TokenInv'
  OBVIOUS
<1>1. ASSUME NEW t \in Threads, Steps(t) PROVE TokenInv'
  BY <1>1, GetOK, WriteOK, PickOK, SvUidOK, SvTokenOK, SvIndexOK DEF Steps
<1>2. CASE UNCHANGED vars
  BY <1>2 DEF vars, redis, TokenInv, StoreOK, CountersOK, LocalOK, Holds, Issued,
     Owned, Written
<1> QED
  BY <1>1, <1>2, RequestOK, TickOK, CrashOK DEF Next

LEMMA TokenInductive == Spec => []TokenInv
BY InitOK, TokenStep, PTL DEF Spec

(* A token goes adrift in the hands of a thread, hence is one.             *)
LEMMA AdriftStep ==
  ASSUME TokenInv, [Next]_vars
  PROVE  adrift' = adrift \/ (Tick /\ adrift' \ adrift \subseteq Tokens)
<1>1. ASSUME NEW t \in Threads, Requests(t) PROVE adrift' = adrift
  BY <1>1 DEF Requests, GetChatServer, ClearLogin, RefreshTokenTTL, GetFileServer,
     DeleteFileToken, Call
<1>2. ASSUME NEW t \in Threads, Steps(t) PROVE adrift' = adrift
  BY <1>2 DEF Steps, DtGet, DtIndex, DtToken, Pick, SvUid, SvToken, SvExpire,
     SvIndex, SvUndo, RtGet, RtToken, RtIndex, FiSet, FiDel, FiNone
<1>3. CASE Tick
  <2>1. \A t \in Threads : Lapsing(t) => tok[t] \in Tokens
    BY DEF Lapsing, At, TokenInv, LocalOK, Holds, Holding
  <2> QED
    BY <1>3, <2>1 DEF Tick
<1>4. CASE Crash \/ UNCHANGED vars
  BY <1>4 DEF Crash, vars
<1> QED
  BY <1>1, <1>2, <1>3, <1>4 DEF Next

(* Types hold in every reachable state, for any number of faults and       *)
(* crashes: in particular saveToken writes its second field to a hash that *)
(* is still there, and no TTL exceeds the one the code sets.               *)
THEOREM TokenTypeCorrect == Spec => []TypeOK
<1> DEFINE Inv == TokenInv /\ adrift \subseteq Tokens
<1>1. Init => Inv
  BY InitOK DEF Init
<1>2. Inv /\ [Next]_vars => Inv'
  BY TokenStep, AdriftStep
<1>3. Inv => TypeOK
  BY DEF TokenInv, StoreOK, CountersOK, LocalOK, TypeOK
<1> QED
  BY <1>1, <1>2, <1>3, PTL DEF Spec

-----------------------------------------------------------------------------
(* A missing hash stays missing in every step but those of its saver.      *)
LEMMA GoneStaysGone ==
  ASSUME TokenInv, [Next]_vars, NEW k \in Tokens, tokens[k] = None,
         \A t \in Threads : ~Saving(t, k)
  PROVE  tokens'[k] = None
<1> USE DEF TokenInv
<1>1. ASSUME NEW t \in Threads, SvUid(t) \/ SvToken(t) PROVE tokens'[k] = None
  <2>1. tok[t] # k
    BY <1>1 DEF SvUid, SvToken, At, Saving
  <2> QED
    BY <1>1, <2>1 DEF SvUid, SvToken, HSet, StoreOK
<1>2. ASSUME NEW t \in Threads, Steps(t) PROVE tokens'[k] = None
  <2>1. CASE Pick(t) \/ SvIndex(t)
    BY <2>1 DEF Pick, SvIndex, redis
  <2>2. CASE ~(Pick(t) \/ SvIndex(t) \/ SvUid(t) \/ SvToken(t))
    <3>1. NothingNew(t)
      BY <1>2, <2>2, GetOK, WriteOK DEF Steps
    <3> QED
      BY <3>1 DEF NothingNew
  <2> QED
    BY <1>1, <2>1, <2>2
<1>3. ASSUME NEW t \in Threads, Requests(t) PROVE tokens'[k] = None
  BY <1>3 DEF Requests, GetChatServer, ClearLogin, RefreshTokenTTL, GetFileServer,
     DeleteFileToken, Call, redis
<1>4. CASE Tick
  BY <1>4, AgeOK DEF Tick
<1>5. CASE Crash \/ UNCHANGED vars
  BY <1>5 DEF Crash, vars, redis
<1> QED
  BY <1>2, <1>3, <1>4, <1>5 DEF Next

(* A login token that expired, was revoked or was rolled back never comes  *)
(* back: neither a refresh nor a second login nor a crash revives it, with *)
(* any number of threads, failures and crashes (refreshTokenTTL only sends *)
(* EXPIREs, and saveToken's token is nobody else's until it is indexed).   *)
THEOREM RevokedIsRevoked == Spec => NoRevival
<1>1. TokenInv /\ [Next]_vars =>
        [\A k \in issued : tokens[k] = None /\ (\A t \in Threads : ~Saving(t, k))
                           => tokens'[k] = None]_vars
  BY GoneStaysGone DEF TokenInv, CountersOK
<1> QED
  BY TokenInductive, <1>1, PTL DEF Spec, NoRevival

-----------------------------------------------------------------------------
(* What the rollback needs: at most one command that fails, so that its    *)
(* own DEL works.                                                          *)
OneFault == MaxFaults <= 1

(* A failed saveToken undoes its hash: it is gone, or a command has failed *)
(* and no other will.                                                      *)
UndoFailed == \A t \in Threads : pc[t] = "svUndo" =>
  faults >= 1 \/ tokens[tok[t]] = None

Immortal(k) == tokens[k] # None /\ tokens[k].ttl = Forever

MortalInv == TokenInv /\ TokensMortal /\ UndoFailed

(* A step of t keeps this if it takes from t no token without a TTL, makes *)
(* none that t does not save, and rolls back only after a failure.         *)
LEMMA MortalKept ==
  ASSUME NEW t \in Threads, MortalInv, TokenInv',
         faults <= faults', faults' \in Nat, faults \in Nat,
         \A s \in Threads \ {t} : pc'[s] = pc[s] /\ tok'[s] = tok[s],
         \A k \in Tokens : k # tok[t] => tokens'[k] = tokens[k],
         \/ pc[t] \in Fresh
         \/ \A k \in Tokens : tokens[k] = None => tokens'[k] = None,
         \A k \in Tokens : k = tok[t] /\ Immortal(k)' =>
           Saving(t, k)' \/ (Immortal(k) /\ ~Saving(t, k)),
         pc'[t] = "svUndo" => faults' >= 1 \/ tokens'[tok'[t]] = None
  PROVE  (TokensMortal /\ UndoFailed)'
<1> USE DEF MortalInv, TokenInv
<1>1. TokensMortal'
  <2> SUFFICES ASSUME NEW k \in Tokens, Immortal(k)'
               PROVE  \E s \in Threads : Saving(s, k)'
    BY DEF TokensMortal, Immortal
  <2>1. CASE Immortal(k) /\ ~Saving(t, k)
    <3>1. PICK s \in Threads : Saving(s, k)
      BY <2>1 DEF TokensMortal, Immortal
    <3> QED
      BY <2>1, <3>1 DEF Saving
  <2>2. CASE Immortal(k) /\ Saving(t, k)
    BY <2>2 DEF Saving
  <2>3. CASE ~Immortal(k)
    BY <2>3 DEF Immortal
  <2> QED
    BY <2>1, <2>2, <2>3
<1>2. UndoFailed'
  <2> SUFFICES ASSUME NEW s \in Threads, pc'[s] = "svUndo"
               PROVE  faults' >= 1 \/ tokens'[tok'[s]] = None
    BY DEF UndoFailed
  <2>1. CASE s = t
    BY <2>1
  <2>2. CASE s # t
    <3>1. pc[s] = "svUndo" /\ tok'[s] = tok[s] /\ tok[s] \in Tokens
      BY <2>2 DEF LocalOK, Holds, Holding
    <3>2. CASE faults >= 1
      BY <3>2
    <3>3. CASE tokens[tok[s]] = None
      BY <2>2, <3>1, <3>3 DEF Owned
    <3> QED
      BY <3>1, <3>2, <3>3 DEF UndoFailed
  <2> QED
    BY <2>1, <2>2
<1> QED
  BY <1>1, <1>2

(* The steps by which a thread that saves a token goes on to save it.      *)
LEMMA MortalWhileSaving ==
  ASSUME NEW t \in Threads, MortalInv, TokenInv',
         SvUid(t) \/ SvToken(t) \/ SvExpire(t) \/ SvIndex(t)
  PROVE  (TokensMortal /\ UndoFailed)'
<1> USE TokenAssumption DEF MortalInv, TokenInv, At, Labels, Fresh, OrUndo, Continue, Go
<1>0. faults \in Nat /\ faults' \in Nat
  BY RedisAssumption DEF CountersOK
<1>1. CASE SvUid(t) \/ SvToken(t)
  <2>1. PICK o \in Outcomes("hSet"), l \in {"svToken", "svExpire"} :
          /\ pc[t] \in {"svUid", "svToken"} /\ Charge(o)
          /\ pc' = [pc EXCEPT ![t] = IF o = "ok" THEN l ELSE "svUndo"] /\ tok' = tok
    BY <1>1 DEF SvUid, SvToken
  <2>2. \A k \in Tokens : k # tok[t] => tokens'[k] = tokens[k]
    BY <1>1 DEF SvUid, SvToken, HSet, StoreOK
  <2>3. faults <= faults' /\ (o # "ok" => faults' >= 1)
    BY <1>0, <2>1, ChargeOK
  <2>4. \A s \in Threads \ {t} : pc'[s] = pc[s] /\ tok'[s] = tok[s]
    BY <2>1 DEF LocalOK
  <2>5. pc'[t] = IF o = "ok" THEN l ELSE "svUndo"
    BY <2>1 DEF LocalOK
  <2>6. \A k \in Tokens : k = tok[t] => Saving(t, k)'
    BY <2>1, <2>5 DEF Saving
  <2> QED
    BY <1>0, <2>1, <2>2, <2>3, <2>4, <2>5, <2>6, MortalKept
<1>2. CASE SvExpire(t)
  <2>1. PICK o \in Outcomes("expire") :
          /\ pc[t] = "svExpire" /\ Charge(o)
          /\ tokens' = Expire(o, tokens, tok[t], TokenTtl)
          /\ pc' = [pc EXCEPT ![t] = IF o = "ok" /\ tokens[tok[t]] # None
                                     THEN "svIndex" ELSE "svUndo"] /\ tok' = tok
    BY <1>2 DEF SvExpire
  <2>2. tok[t] \in Tokens
    BY <2>1 DEF LocalOK, Holds, Holding
  <2>3. \A k \in Tokens : k # tok[t] => tokens'[k] = tokens[k]
    BY <2>1, <2>2, ExpireHashOK
  <2>4. faults <= faults' /\ (o # "ok" => faults' >= 1)
    BY <1>0, <2>1, ChargeOK
  <2>5. \A s \in Threads \ {t} : pc'[s] = pc[s] /\ tok'[s] = tok[s]
    BY <2>1 DEF LocalOK
  <2>6. CASE o = "ok" /\ tokens[tok[t]] # None
    <3>1. pc'[t] = "svIndex" /\ ~Immortal(tok[t])'
      BY <2>1, <2>2, <2>6 DEF Expire, Executed, LocalOK, StoreOK, Hash, Immortal, Forever
    <3> QED
      BY <1>0, <2>1, <2>3, <2>4, <2>5, <3>1, MortalKept
  <2>7. CASE ~(o = "ok" /\ tokens[tok[t]] # None)
    <3>1. pc'[t] = "svUndo" /\ tok'[t] = tok[t]
      BY <2>1, <2>7 DEF LocalOK
    <3>2. o = "ok" => tokens'[tok[t]] = None
      BY <2>1, <2>2, <2>7 DEF Expire
    <3>3. \A k \in Tokens : k = tok[t] => Saving(t, k)'
      BY <3>1 DEF Saving
    <3> QED
      BY <1>0, <2>1, <2>3, <2>4, <2>5, <3>1, <3>2, <3>3, MortalKept
  <2> QED
    BY <2>6, <2>7
<1>3. CASE SvIndex(t)
  <2>1. PICK o \in Outcomes("setEx") :
          /\ pc[t] = "svIndex" /\ Charge(o) /\ tokens' = tokens
          /\ IF o = "ok" THEN Return(t) ELSE Continue(t, "svUndo")
    BY <1>3 DEF SvIndex
  <2>2. faults <= faults' /\ (o # "ok" => faults' >= 1)
    BY <1>0, <2>1, ChargeOK
  <2>3. \A s \in Threads \ {t} : pc'[s] = pc[s] /\ tok'[s] = tok[s]
    BY <2>1 DEF LocalOK, Return
  <2>4. pc'[t] = "svUndo" => o # "ok"
    BY <2>1 DEF LocalOK, Return
  <2>5. \A k \in Tokens : Immortal(k)' => Immortal(k) /\ ~Saving(t, k)
    BY <2>1 DEF Immortal, Saving
  <2> QED
    BY <1>0, <2>1, <2>2, <2>3, <2>4, <2>5, MortalKept
<1> QED
  BY <1>1, <1>2, <1>3

(* All other steps but the roll-back: their thread saves nothing.          *)
LEMMA MortalElsewhere ==
  ASSUME NEW t \in Threads, MortalInv, TokenInv',
         \/ Requests(t) \/ DtGet(t) \/ DtIndex(t) \/ DtToken(t) \/ Pick(t)
         \/ RtGet(t) \/ RtToken(t) \/ RtIndex(t) \/ FiSet(t) \/ FiDel(t) \/ FiNone(t)
  PROVE  (TokensMortal /\ UndoFailed)'
<1> USE TokenAssumption DEF MortalInv, TokenInv, At, Labels, Fresh, Continue, Go, redis
<1>1. /\ faults \in Nat /\ faults' \in Nat
      /\ faults' = faults \/ \E cmd : \E o \in Outcomes(cmd) : Charge(o)
  BY RedisAssumption DEF CountersOK, Requests, GetChatServer, ClearLogin,
     RefreshTokenTTL, GetFileServer, DeleteFileToken, Call, DtGet, DtIndex, DtToken,
     Pick, RtGet, RtToken, RtIndex, FiSet, FiDel, FiNone
<1>2. faults <= faults'
  BY <1>1, ChargeOK
<1>3. /\ pc[t] \notin {"svUid", "svToken", "svExpire", "svUndo"}
      /\ pc'[t] # "svUndo"
      /\ \A s \in Threads \ {t} : pc'[s] = pc[s] /\ tok'[s] = tok[s]
  BY DEF Requests, GetChatServer, ClearLogin, RefreshTokenTTL, GetFileServer,
     DeleteFileToken, Call, DtGet, DtIndex, DtToken, AfterDelete, Return, Idle,
     Pick, RtGet, RtToken, RtIndex, FiSet, FiDel, FiNone, LocalOK
<1>4. \A k \in Tokens : tokens'[k] = tokens[k] \/ (k = tok[t] /\ ~Immortal(k)')
  <2>1. CASE DtToken(t)
    BY <2>1 DEF DtToken, Del, StoreOK, Immortal
  <2>2. CASE RtToken(t)
    BY <2>2 DEF RtToken, Expire, StoreOK, Hash, Immortal, Forever
  <2>3. CASE ~(DtToken(t) \/ RtToken(t))
    BY <2>3 DEF Requests, GetChatServer, ClearLogin, RefreshTokenTTL, GetFileServer,
       DeleteFileToken, Call, DtGet, DtIndex, Pick, RtGet, RtIndex, FiSet, FiDel, FiNone
  <2> QED
    BY <2>1, <2>2, <2>3
<1>5. \A k \in Tokens : tokens[k] = None => tokens'[k] = None
  <2>1. CASE DtToken(t)
    BY <2>1 DEF DtToken, Del, StoreOK
  <2>2. CASE RtToken(t)
    BY <2>2 DEF RtToken, Expire, StoreOK
  <2>3. CASE ~(DtToken(t) \/ RtToken(t))
    BY <2>3 DEF Requests, GetChatServer, ClearLogin, RefreshTokenTTL, GetFileServer,
       DeleteFileToken, Call, DtGet, DtIndex, Pick, RtGet, RtIndex, FiSet, FiDel, FiNone
  <2> QED
    BY <2>1, <2>2, <2>3
<1>6. \A k \in Tokens : Immortal(k)' => Immortal(k) /\ ~Saving(t, k)
  BY <1>3, <1>4 DEF Immortal, Saving
<1> QED
  BY <1>1, <1>2, <1>3, <1>4, <1>5, <1>6, MortalKept

(* The roll-back does not fail once the one fault has happened.            *)
LEMMA UndoWorks ==
  ASSUME NEW t \in Threads, OneFault, MortalInv, SvUndo(t)
  PROVE  tokens'[tok[t]] = None
<1> USE DEF MortalInv, TokenInv
<1>1. PICK o \in Outcomes("del") :
        pc[t] = "svUndo" /\ Charge(o) /\ tokens' = Del(o, tokens, tok[t])
  BY DEF SvUndo, At
<1>2. faults \in Nat
  BY RedisAssumption DEF CountersOK
<1>3. tok[t] \in Tokens
  BY <1>1 DEF LocalOK, Holds, Holding
<1>4. CASE faults >= 1
  <2>1. o = "ok"
    BY <1>4, <1>2, RedisAssumption DEF OneFault, Outcomes
  <2> QED
    BY <1>1, <1>3, <2>1 DEF Del, Executed, StoreOK
<1>5. CASE tokens[tok[t]] = None
  BY <1>1, <1>3, <1>5 DEF Del, StoreOK
<1> QED
  BY <1>1, <1>4, <1>5 DEF UndoFailed

LEMMA MortalUndone ==
  ASSUME NEW t \in Threads, OneFault, MortalInv, TokenInv', SvUndo(t)
  PROVE  (TokensMortal /\ UndoFailed)'
<1> USE DEF MortalInv, TokenInv
<1>1. PICK o \in Outcomes("del") :
        /\ pc[t] = "svUndo" /\ Charge(o) /\ tokens' = Del(o, tokens, tok[t])
        /\ Return(t)
  BY DEF SvUndo, At
<1>2. faults \in Nat /\ faults' \in Nat /\ faults <= faults'
  BY <1>1, ChargeOK, RedisAssumption DEF CountersOK
<1>3. /\ \A k \in Tokens : k # tok[t] => tokens'[k] = tokens[k]
      /\ \A k \in Tokens : tokens[k] = None => tokens'[k] = None
  BY <1>1 DEF Del, StoreOK
<1>4. /\ \A s \in Threads \ {t} : pc'[s] = pc[s] /\ tok'[s] = tok[s]
      /\ pc'[t] # "svUndo"
  BY <1>1 DEF Return, Go, LocalOK
<1>5. \A k \in Tokens : k = tok[t] => ~Immortal(k)'
  BY UndoWorks DEF Immortal
<1> QED
  BY <1>2, <1>3, <1>4, <1>5, MortalKept

LEMMA MortalInit == Init => MortalInv
<1>1. Init => TokensMortal /\ UndoFailed
  BY DEF Init, TokensMortal, UndoFailed
<1> QED
  BY <1>1, InitOK DEF MortalInv

LEMMA MortalStep ==
  ASSUME OneFault, MortalInv, [Next]_vars, ~Crash
  PROVE  MortalInv'
<1>1. TokenInv'
  BY TokenStep DEF MortalInv
<1>2. ASSUME NEW t \in Threads, Requests(t) \/ Steps(t)
      PROVE  (TokensMortal /\ UndoFailed)'
  BY <1>1, <1>2, MortalWhileSaving, MortalElsewhere, MortalUndone DEF Steps
<1>3. CASE Tick
  <2>1. /\ \A k \in Tokens : tokens'[k] = AgeHash(tokens[k])
        /\ UNCHANGED <<faults, pc, tok>>
    BY <1>3 DEF Tick
  <2>2. \A k \in Tokens : /\ Immortal(k)' => Immortal(k)
                          /\ tokens[k] = None => tokens'[k] = None
    BY <2>1, AgeOK DEF Immortal, MortalInv, TokenInv, StoreOK
  <2>3. TokensMortal'
    BY <2>1, <2>2 DEF MortalInv, TokensMortal, Immortal, Saving
  <2>4. UndoFailed'
    BY <2>1, <2>2 DEF MortalInv, UndoFailed, TokenInv, LocalOK, Holds, Holding
  <2> QED
    BY <1>1, <2>3, <2>4 DEF MortalInv
<1>5. CASE UNCHANGED vars
  BY <1>1, <1>5 DEF MortalInv, TokensMortal, UndoFailed, Saving, vars, redis
<1> QED
  BY <1>1, <1>2, <1>3, <1>5 DEF Next, MortalInv

(* Only a crash counts as one, and none is forgotten.                      *)
LEMMA CrashesCounted ==
  ASSUME TokenInv, [Next]_vars
  PROVE  crashes \in Nat /\ ((crashes' = crashes /\ ~Crash) \/ crashes' = crashes + 1)
<1>1. crashes \in Nat
  BY TokenAssumption DEF TokenInv, CountersOK
<1>2. ASSUME NEW t \in Threads, Requests(t) PROVE crashes' = crashes
  BY <1>2 DEF Requests, GetChatServer, ClearLogin, RefreshTokenTTL, GetFileServer,
     DeleteFileToken, Call
<1>3. ASSUME NEW t \in Threads, Steps(t) PROVE crashes' = crashes
  BY <1>3 DEF Steps, DtGet, DtIndex, DtToken, Pick, SvUid, SvToken, SvExpire,
     SvIndex, SvUndo, RtGet, RtToken, RtIndex, FiSet, FiDel, FiNone
<1>4. Tick \/ UNCHANGED vars => crashes' = crashes
  BY DEF Tick, vars
<1>5. Crash => crashes' = crashes + 1
  BY DEF Crash
<1>6. crashes' = crashes \/ crashes' = crashes + 1
  BY <1>2, <1>3, <1>4, <1>5 DEF Next
<1> QED
  BY <1>1, <1>6 DEF Crash

(* No login token is left behind without a TTL (saveToken stores tokens    *)
(* with a short one), whichever single command fails, for any number of    *)
(* threads that log in, out and refresh, as long as the server lives.      *)
THEOREM TokensAreMortal == OneFault /\ Spec => []MortalUntilCrash
<1> SUFFICES ASSUME OneFault PROVE Spec => []MortalUntilCrash
  OBVIOUS
<1> DEFINE Inv == TokenInv /\ (crashes = 0 => MortalInv)
<1>1. Init => Inv
  BY MortalInit DEF MortalInv
<1>2. Inv /\ [Next]_vars => Inv'
  <2> SUFFICES ASSUME Inv, [Next]_vars PROVE Inv'
    OBVIOUS
  <2>1. TokenInv'
    BY TokenStep
  <2>2. ASSUME crashes' = 0 PROVE MortalInv'
    BY <2>2, CrashesCounted, MortalStep
  <2> QED
    BY <2>1, <2>2
<1>3. Inv => MortalUntilCrash
  BY DEF MortalInv, MortalUntilCrash
<1> QED
  BY <1>1, <1>2, <1>3, PTL DEF Spec
-----------------------------------------------------------------------------
(* One thread: what its method has in its hands, and whose other tokens it *)
(* is about to cut off from the index.                                     *)
OneThread == \E t : Threads = {t}

(* A refresh has its token in hand from the EXPIRE of the hash to that of  *)
(* the index, as long as the index is there.                               *)
InHand(t)  == IF \/ pc[t] \in Holding \ {"rtToken", "rtIndex"}
                 \/ pc[t] = "rtIndex" /\ index[req[t].uid] # None
              THEN {tok[t]} ELSE {}
Leaving(t) == pc[t] \in {"dtIndex", "dtToken", "pick", "svUid", "svToken",
                         "svExpire", "svIndex", "svUndo"}

(* The tokens that are orphans, or will be when the method of t goes on as *)
(* it should, apart from the one in its hands and those adrift.            *)
Doomed(t) == {k \in Tokens \ (InHand(t) \cup adrift) :
  /\ tokens[k] # None
  /\ k \in Orphans \/ (Leaving(t) /\ tokens[k].uid = req[t].uid)}

(* Every failed command and every crash has paid for one of them.          *)
Paid(t) == IsFiniteSet(Doomed(t)) /\ Cardinality(Doomed(t)) <= faults + crashes

(* What an index names is a token of its user, with a TTL.                 *)
IndexOwn == \A u \in Uids : index[u] # None =>
  LET h == tokens[index[u].val] IN h = None \/ (h.uid = u /\ h.ttl # Forever)

(* The token in the hands of t: what saveToken has written of it, and what *)
(* refreshTokenTTL has read, is its user's; as long as the user's index    *)
(* has not run out, a refresh finds in it the token it has read.           *)
InHandOwn(t) ==
  /\ pc[t] \in {"svToken", "svExpire", "svIndex", "rtToken"} /\ tokens[tok[t]] # None =>
       tokens[tok[t]].uid = req[t].uid
  /\ pc[t] = "svIndex" /\ tokens[tok[t]] # None => tokens[tok[t]].ttl # Forever
  /\ pc[t] \in {"rtToken", "rtIndex"} /\ index[req[t].uid] # None =>
       index[req[t].uid].val = tok[t]

OwnInv(t)    == TokenInv /\ IndexOwn /\ InHandOwn(t)
SerialInv(t) == OwnInv(t) /\ Paid(t)

(* What a step of t may do to the doomed: it adds none, or one that a      *)
(* failure or a crash pays for.                                            *)
Pays(t) == \/ Doomed(t)' \subseteq Doomed(t) /\ faults + crashes <= faults' + crashes'
           \/ \E k : /\ Doomed(t)' \subseteq Doomed(t) \cup {k}
                     /\ faults + crashes + 1 <= faults' + crashes'

LEMMA Sums ==
  ASSUME NEW f \in Nat, NEW g \in Nat, NEW c \in Nat
  PROVE  /\ f + c \in Nat
         /\ f <= g => f + c <= g + c
         /\ g = f + 1 => f + c + 1 <= g + c
         /\ f + c + 1 <= f + (c + 1)
OBVIOUS

LEMMA OneMore ==
  ASSUME NEW S, NEW T, NEW k, IsFiniteSet(S), T \subseteq S \cup {k}
  PROVE  IsFiniteSet(T) /\ Cardinality(T) <= Cardinality(S) + 1
<1>1. IsFiniteSet(S \cup {k}) /\ Cardinality(S) \in Nat
  BY FS_AddElement, FS_CardinalityType
<1>2. Cardinality(S \cup {k}) <= Cardinality(S) + 1
  <2>1. CASE k \in S
    <3>1. S \cup {k} = S
      BY <2>1
    <3> QED
      BY <1>1, <3>1
  <2>2. CASE k \notin S
    BY <1>1, <2>2, FS_AddElement
  <2> QED
    BY <2>1, <2>2
<1>3. IsFiniteSet(T) /\ Cardinality(T) <= Cardinality(S \cup {k})
  BY <1>1, FS_Subset
<1>4. Cardinality(T) \in Nat /\ Cardinality(S \cup {k}) \in Nat
  BY <1>1, <1>3, FS_CardinalityType
<1> QED
  BY <1>1, <1>2, <1>3, <1>4

LEMMA PaidKept ==
  ASSUME NEW t \in Threads, CountersOK, CountersOK', Paid(t), Pays(t)
  PROVE  Paid(t)'
<1> DEFINE S == Doomed(t)
           T == Doomed(t)'
           F == faults + crashes
           G == faults' + crashes'
<1>a. MaxFaults \in Nat /\ MaxCrashes \in Nat
  BY RedisAssumption, TokenAssumption
<1>b. faults \in Nat /\ crashes \in Nat /\ faults' \in Nat /\ crashes' \in Nat
  BY <1>a DEF CountersOK
<1>c. F \in Nat /\ G \in Nat
  BY <1>b, Sums
<1>0. F \in Nat /\ G \in Nat /\ IsFiniteSet(S) /\ Cardinality(S) <= F
  BY <1>c DEF Paid
<1>1. IsFiniteSet(T) /\ Cardinality(T) <= G
  <2>1. (T \subseteq S /\ F <= G) \/ \E k : T \subseteq S \cup {k} /\ F + 1 <= G
    BY DEF Pays
  <2> HIDE DEF S, T, F, G
  <2>2. CASE T \subseteq S /\ F <= G
    <3>1. IsFiniteSet(T) /\ Cardinality(T) <= Cardinality(S)
      BY <1>0, <2>2, FS_Subset
    <3>2. Cardinality(T) \in Nat /\ Cardinality(S) \in Nat
      BY <1>0, <3>1, FS_CardinalityType
    <3> QED
      BY <1>0, <2>2, <3>1, <3>2
  <2>3. CASE \E k : T \subseteq S \cup {k} /\ F + 1 <= G
    <3>1. IsFiniteSet(T) /\ Cardinality(T) <= Cardinality(S) + 1 /\ F + 1 <= G
      BY <1>0, <2>3, OneMore
    <3>2. Cardinality(T) \in Nat /\ Cardinality(S) \in Nat
      BY <1>0, <3>1, FS_CardinalityType
    <3> QED
      BY <1>0, <3>1, <3>2
  <2> QED
    BY <2>1, <2>2, <2>3
<1> QED
  BY <1>1 DEF Paid

(* What the counters may do in a command.                                  *)
LEMMA Charged ==
  ASSUME CountersOK, CountersOK', NEW cmd, NEW o \in Outcomes(cmd), Charge(o),
         crashes' = crashes
  PROVE  /\ faults + crashes <= faults' + crashes'
         /\ o # "ok" => faults + crashes + 1 <= faults' + crashes'
<1>a. MaxFaults \in Nat /\ MaxCrashes \in Nat
  BY RedisAssumption, TokenAssumption
<1>1. faults \in Nat /\ faults' \in Nat /\ crashes \in Nat
  BY <1>a DEF CountersOK
<1>2. faults <= faults' /\ (o # "ok" => faults' = faults + 1)
  BY ChargeOK
<1> QED
  BY <1>1, <1>2, Sums

LEMMA SerialDelete ==
  ASSUME NEW t \in Threads, Threads = {t}, OwnInv(t), TokenInv',
         DtGet(t) \/ DtIndex(t) \/ DtToken(t)
  PROVE  IndexOwn' /\ InHandOwn(t)' /\ Pays(t)
<1> USE DEF OwnInv, TokenInv, At, Go, Continue, Return, redis
<1>0. /\ pc[t] # "idle" => req[t].uid \in Uids
      /\ pc[t] \in Holding => tok[t] \in Tokens
      /\ pc \in [Threads -> Labels] /\ tok \in [Threads -> Tokens \cup {None}]
      /\ req \in [Threads -> Request]
      /\ tokens \in [Tokens -> Hash \cup {None}] /\ index \in [Uids -> Index \cup {None}]
  BY DEF LocalOK, Holds, StoreOK
<1>1. CASE DtGet(t)
  <2>1. PICK o \in Outcomes("get") :
          /\ pc[t] = "dtGet" /\ Charge(o) /\ UNCHANGED <<redis, issued, crashes, adrift>>
          /\ LET k == Get(o, index, req[t].uid) IN
             IF k = None THEN AfterDelete(t)
             ELSE tok' = [tok EXCEPT ![t] = k] /\ Go(t, "dtIndex") /\ req' = req
    BY <1>1 DEF DtGet
  <2>2. PICK u \in Uids : u = req[t].uid
    BY <1>0, <2>1
  <2>3. PICK k : k = Get(o, index, u)
    OBVIOUS
  <2>4. Doomed(t) = Orphans \ adrift
    BY <2>1 DEF Doomed, InHand, Leaving, Holding, Orphans
  <2>5. IndexOwn'
    BY <2>1 DEF IndexOwn
  <2>6. CASE k # None
    <3>1. o = "ok" /\ index[u] # None /\ index[u].val = k
      BY <2>3, <2>6 DEF Get
    <3>2. /\ tok'[t] = k /\ pc'[t] = "dtIndex" /\ req'[t] = req[t]
      BY <1>0, <2>1, <2>2, <2>3, <2>6
    <3>3. InHandOwn(t)'
      BY <2>1, <2>2, <3>1, <3>2 DEF InHandOwn
    <3>4. Doomed(t)' \subseteq Doomed(t)
      <4> SUFFICES ASSUME NEW j \in Tokens, j \in Doomed(t)' PROVE j \in Orphans
        BY <2>1, <2>4 DEF Doomed
      <4>1. /\ j # k /\ tokens[j] # None
            /\ j \in Orphans \/ tokens[j].uid = u
        BY <2>1, <2>2, <3>2 DEF Doomed, InHand, Holding, Orphans
      <4> QED
        BY <3>1, <4>1 DEF Orphans
    <3> QED
      BY <2>1, <2>5, <3>3, <3>4, Charged DEF Pays
  <2>7. CASE k = None
    <3>1. /\ pc'[t] \in {"idle", "pick"}
          /\ pc'[t] = "pick" => req'[t] = req[t]
      BY <1>0, <2>1, <2>2, <2>3, <2>7 DEF AfterDelete
    <3>2. InHandOwn(t)'
      BY <3>1 DEF InHandOwn
    <3>3. ASSUME NEW j \in Tokens, j \in Doomed(t)'
          PROVE  tokens[j] # None /\ (j \in Orphans \/ tokens[j].uid = u)
      BY <2>1, <2>2, <3>1, <3>3 DEF Doomed, InHand, Holding, Leaving, Orphans
    <3>4. CASE o = "ok"
      <4>1. index[u] = None
        BY <1>0, <2>3, <2>7, <3>4, TokenAssumption DEF Get, Index
      <4>2. Doomed(t)' \subseteq Doomed(t)
        BY <2>1, <2>4, <3>3, <4>1 DEF Doomed, Orphans
      <4> QED
        BY <2>1, <2>5, <3>2, <4>2, Charged DEF Pays
    <3>5. CASE o # "ok"
      <4>1. Doomed(t)' \subseteq Doomed(t) \cup {index[u].val}
        BY <2>1, <2>4, <3>3 DEF Doomed, Orphans
      <4> QED
        BY <2>1, <2>5, <3>2, <3>5, <4>1, Charged DEF Pays
    <3> QED
      BY <3>4, <3>5
  <2> QED
    BY <2>6, <2>7
<1>2. CASE DtIndex(t)
  <2>1. PICK o \in Outcomes("del") :
          /\ pc[t] = "dtIndex" /\ Charge(o) /\ index' = Del(o, index, req[t].uid)
          /\ pc' = [pc EXCEPT ![t] = "dtToken"] /\ UNCHANGED <<req, tok>>
          /\ UNCHANGED <<tokens, files, issued, crashes, adrift>>
    BY <1>2 DEF DtIndex
  <2>2. PICK u \in Uids : u = req[t].uid
    BY <1>0, <2>1
  <2>3. /\ \A v \in Uids : index'[v] = index[v] \/ (v = u /\ index'[v] = None)
        /\ pc'[t] = "dtToken"
    BY <1>0, <2>1, <2>2 DEF Del
  <2>4. IndexOwn' /\ InHandOwn(t)'
    BY <2>1, <2>3 DEF IndexOwn, InHandOwn
  <2>5. Doomed(t)' \subseteq Doomed(t)
    <3> SUFFICES ASSUME NEW j \in Tokens, j \in Doomed(t)' PROVE j \in Doomed(t)
      BY DEF Doomed
    <3>1. j # tok[t] /\ tokens[j] # None /\ tokens[j] \in Hash
      BY <1>0, <2>1, <2>3 DEF Doomed, InHand, Holding
    <3>2. CASE tokens[j].uid = u
      BY <2>1, <2>2, <3>1, <3>2 DEF Doomed, InHand, Leaving
    <3>3. CASE tokens[j].uid # u
      <4>1. j \in Orphans' /\ tokens[j].uid \in Uids
        BY <2>1, <2>2, <3>1, <3>3 DEF Doomed, Hash
      <4>2. j \in Orphans
        BY <2>1, <2>3, <3>3, <4>1 DEF Orphans
      <4> QED
        BY <2>1, <3>1, <4>2 DEF Doomed, InHand
    <3> QED
      BY <3>2, <3>3
  <2> QED
    BY <2>1, <2>4, <2>5, Charged DEF Pays
<1>3. CASE DtToken(t)
  <2>1. PICK o \in Outcomes("del") :
          /\ pc[t] = "dtToken" /\ Charge(o) /\ tokens' = Del(o, tokens, tok[t])
          /\ AfterDelete(t) /\ UNCHANGED <<index, files, issued, crashes, adrift>>
    BY <1>3 DEF DtToken
  <2>2. /\ pc'[t] \in {"idle", "pick"}
        /\ pc'[t] = "pick" => req'[t] = req[t]
    BY <1>0, <2>1 DEF AfterDelete
  <2>3. /\ \A j \in Tokens : j # tok[t] => tokens'[j] = tokens[j]
        /\ \A j \in Tokens : tokens'[j] \in {tokens[j], None}
        /\ Executed(o) => tokens'[tok[t]] = None
    BY <1>0, <2>1 DEF Del, Holding
  <2>4. IndexOwn'
    BY <1>0, <2>1, <2>3 DEF IndexOwn, Index
  <2>5. InHandOwn(t)'
    BY <2>2 DEF InHandOwn
  <2>6. ASSUME NEW j \in Tokens, j \in Doomed(t)', j # tok[t] PROVE j \in Doomed(t)
    BY <2>1, <2>2, <2>3, <2>6 DEF Doomed, InHand, Holding, Leaving, Orphans
  <2>7. CASE Executed(o)
    <3>1. tok[t] \notin Doomed(t)'
      BY <2>3, <2>7 DEF Doomed
    <3>2. Doomed(t)' \subseteq Doomed(t)
      BY <2>6, <3>1 DEF Doomed
    <3> QED
      BY <2>1, <2>4, <2>5, <3>2, Charged DEF Pays
  <2>8. CASE ~Executed(o)
    <3>1. Doomed(t)' \subseteq Doomed(t) \cup {tok[t]}
      BY <2>6 DEF Doomed
    <3> QED
      BY <2>1, <2>4, <2>5, <2>8, <3>1, Charged DEF Pays, Executed
  <2> QED
    BY <2>7, <2>8
<1> QED
  BY <1>1, <1>2, <1>3

(* While it is saved, a token stays in the hands of its thread: writing it *)
(* dooms no other.                                                         *)
LEMMA SerialWrite ==
  ASSUME NEW t \in Threads, Threads = {t}, OwnInv(t), TokenInv',
         SvUid(t) \/ SvToken(t) \/ SvExpire(t)
  PROVE  IndexOwn' /\ InHandOwn(t)' /\ Pays(t)
<1> USE DEF OwnInv, TokenInv, At, Go, Continue, OrUndo
<1>0. /\ tok[t] \in Tokens /\ req[t].uid \in Uids
      /\ pc \in [Threads -> Labels]
      /\ tokens \in [Tokens -> Hash \cup {None}] /\ index \in [Uids -> Index \cup {None}]
  BY DEF LocalOK, Holds, StoreOK, Holding, SvUid, SvToken, SvExpire
<1> DEFINE k == tok[t]
           u == req[t].uid
<1>1. \E cmd, l : \E o \in Outcomes(cmd) :
        /\ Charge(o) /\ pc' = [pc EXCEPT ![t] = l]
        /\ l \in {"svToken", "svExpire", "svIndex", "svUndo"}
        /\ UNCHANGED <<req, tok, index, files, issued, crashes, adrift>>
  BY DEF SvUid, SvToken, SvExpire
<1>2. PICK cmd, l : \E o \in Outcomes(cmd) :
        /\ Charge(o) /\ pc' = [pc EXCEPT ![t] = l]
        /\ l \in {"svToken", "svExpire", "svIndex", "svUndo"}
        /\ UNCHANGED <<req, tok, index, files, issued, crashes, adrift>>
  BY <1>1
<1>3. /\ pc[t] \in {"svUid", "svToken", "svExpire"} /\ pc'[t] = l
      /\ UNCHANGED <<req, tok, index, crashes, adrift>>
      /\ faults + crashes <= faults' + crashes'
  BY <1>0, <1>2, Charged DEF SvUid, SvToken, SvExpire
<1>4. /\ \A j \in Tokens : j # k => tokens'[j] = tokens[j]
      /\ tokens'[k] # None /\ l \in {"svToken", "svExpire", "svIndex"} => tokens'[k].uid = u
      /\ tokens'[k] # None /\ l = "svIndex" => tokens'[k].ttl # Forever
  <2>1. CASE SvUid(t)
    <3>1. PICK o \in Outcomes("hSet") :
            /\ tokens' = HSet(o, tokens, k, [uid |-> u, token |-> FALSE, ttl |-> Forever])
            /\ pc' = [pc EXCEPT ![t] = IF o = "ok" THEN "svToken" ELSE "svUndo"]
      BY <2>1 DEF SvUid
    <3>2. pc'[t] = IF o = "ok" THEN "svToken" ELSE "svUndo"
      BY <1>0, <3>1
    <3>3. \A j \in Tokens : j # k => tokens'[j] = tokens[j]
      BY <1>0, <3>1 DEF HSet
    <3>4. o = "ok" => tokens'[k] = [uid |-> u, token |-> FALSE, ttl |-> Forever]
      BY <1>0, <3>1 DEF HSet, Executed
    <3> QED
      BY <1>3, <3>2, <3>3, <3>4
  <2>2. CASE SvToken(t)
    <3>1. PICK o \in Outcomes("hSet") :
            /\ tokens' = IF Executed(o) THEN [tokens EXCEPT ![k].token = TRUE] ELSE tokens
            /\ pc[t] = "svToken"
            /\ pc' = [pc EXCEPT ![t] = IF o = "ok" THEN "svExpire" ELSE "svUndo"]
      BY <2>2 DEF SvToken
    <3>2. pc'[t] = IF o = "ok" THEN "svExpire" ELSE "svUndo"
      BY <1>0, <3>1
    <3>3. tokens[k] \in Hash /\ (tokens[k] # None => tokens[k].uid = u)
      BY <1>0, <3>1 DEF InHandOwn, Written
    <3>4. \A j \in Tokens : j # k => tokens'[j] = tokens[j]
      BY <1>0, <3>1
    <3>5. tokens[k] # None => tokens'[k].uid = tokens[k].uid
      BY <1>0, <3>1, <3>3 DEF Hash
    <3>6. tokens[k] # None
      BY <3>3, TokenAssumption
    <3> QED
      BY <1>3, <3>2, <3>3, <3>4, <3>5, <3>6
  <2>3. CASE SvExpire(t)
    <3>1. PICK o \in Outcomes("expire") :
            /\ tokens' = Expire(o, tokens, k, TokenTtl) /\ pc[t] = "svExpire"
            /\ pc' = [pc EXCEPT ![t] = IF o = "ok" /\ tokens[k] # None
                                       THEN "svIndex" ELSE "svUndo"]
      BY <2>3 DEF SvExpire
    <3>2. pc'[t] = IF o = "ok" /\ tokens[k] # None THEN "svIndex" ELSE "svUndo"
      BY <1>0, <3>1
    <3>3. \A j \in Tokens : j # k => tokens'[j] = tokens[j]
      BY <1>0, <3>1 DEF Expire
    <3>4. tokens[k] # None => tokens[k].uid = u
      BY <3>1 DEF InHandOwn
    <3>5. o = "ok" /\ tokens[k] # None =>
            tokens'[k].uid = tokens[k].uid /\ tokens'[k].ttl = TokenTtl
      BY <1>0, <3>1 DEF Expire, Executed, Hash
    <3> QED
      BY <1>3, <3>2, <3>3, <3>4, <3>5, TokenAssumption DEF Forever
  <2> QED
    BY <2>1, <2>2, <2>3
<1>5. \A v \in Uids : index[v] # None => index[v].val # k /\ index[v].val \in Tokens
  BY <1>0, <1>3, TokenAssumption DEF Owned, Fresh, Index
<1>6. IndexOwn'
  BY <1>3, <1>4, <1>5 DEF IndexOwn
<1>7. InHandOwn(t)'
  BY <1>2, <1>3, <1>4 DEF InHandOwn
<1>8. Doomed(t)' \subseteq Doomed(t)
  <2> SUFFICES ASSUME NEW j \in Tokens, j \in Doomed(t)' PROVE j \in Doomed(t)
    BY DEF Doomed
  <2>1. j # k /\ tokens'[j] = tokens[j]
    BY <1>2, <1>3, <1>4 DEF Doomed, InHand, Holding
  <2> QED
    BY <1>3, <2>1 DEF Doomed, InHand, Leaving, Orphans
<1> QED
  BY <1>3, <1>6, <1>7, <1>8 DEF Pays

(* A token is indexed at last: now the index names it, and no other token  *)
(* of its user.  Or it is rolled back.                                     *)
LEMMA SerialIndex ==
  ASSUME NEW t \in Threads, Threads = {t}, OwnInv(t), TokenInv',
         SvIndex(t) \/ SvUndo(t)
  PROVE  IndexOwn' /\ InHandOwn(t)' /\ Pays(t)
<1> USE DEF OwnInv, TokenInv, At, Go, Continue, Return
<1>0. /\ tok[t] \in Tokens /\ req[t].uid \in Uids
      /\ pc \in [Threads -> Labels]
      /\ tokens \in [Tokens -> Hash \cup {None}] /\ index \in [Uids -> Index \cup {None}]
  BY DEF LocalOK, Holds, StoreOK, Holding, SvIndex, SvUndo
<1> DEFINE k == tok[t]
           u == req[t].uid
<1>1. CASE SvIndex(t)
  <2>1. PICK o \in Outcomes("setEx") :
          /\ pc[t] = "svIndex" /\ Charge(o)
          /\ index' = SetEx(o, index, u, k, TokenTtl)
          /\ IF o = "ok" THEN Return(t) ELSE Continue(t, "svUndo")
          /\ UNCHANGED <<tokens, files, issued, crashes, adrift>>
    BY <1>1 DEF SvIndex
  <2>2. /\ o = "ok" => pc'[t] = "idle"
        /\ o # "ok" => pc'[t] = "svUndo" /\ tok'[t] = k /\ req'[t] = req[t]
    BY <1>0, <2>1
  <2>3. /\ \A v \in Uids : v # u => index'[v] = index[v]
        /\ index'[u] = index[u] \/ index'[u] = [val |-> k, ttl |-> TokenTtl]
        /\ o = "ok" => index'[u] = [val |-> k, ttl |-> TokenTtl]
    BY <1>0, <2>1 DEF SetEx, Executed
  <2>4. tokens[k] # None => /\ tokens[k].uid = u
                            /\ tokens[k].ttl \in 1 .. TokenTtl
    <3>1. tokens[k] # None => tokens[k].uid = u /\ tokens[k].ttl # Forever
      BY <2>1 DEF InHandOwn
    <3>2. tokens[k] # None => tokens[k].ttl \in Forever .. TokenTtl
      BY <1>0 DEF Hash
    <3> QED
      BY <3>1, <3>2, TokenAssumption DEF Forever
  <2>5. IndexOwn'
    BY <1>0, <2>1, <2>3, <2>4, TokenAssumption DEF IndexOwn, Forever
  <2>6. InHandOwn(t)'
    BY <2>2 DEF InHandOwn
  <2>7. Doomed(t)' \subseteq Doomed(t)
    <3> SUFFICES ASSUME NEW j \in Tokens, j \in Doomed(t)' PROVE j \in Doomed(t)
      BY DEF Doomed
    <3>1. tokens[j] # None /\ tokens[j].uid \in Uids
      BY <1>0, <2>1 DEF Doomed, Hash
    <3>2. j # k
      <4>1. CASE o = "ok"
        <5>1. j = k => j \in Orphans'
          BY <2>2, <4>1 DEF Doomed, InHand, Leaving, Holding
        <5>2. j = k => j \notin Orphans'
          <6>1. index'[u].val = k /\ index'[u].ttl = TokenTtl /\ index'[u] # None
            BY <1>0, <2>3, <4>1, TokenAssumption DEF Index
          <6> QED
            BY <2>1, <2>4, <3>1, <6>1 DEF Orphans
        <5> QED
          BY <5>1, <5>2
      <4>2. CASE o # "ok"
        BY <2>2, <4>2 DEF Doomed, InHand, Holding
      <4> QED
        BY <4>1, <4>2
    <3>3. CASE tokens[j].uid = u
      BY <2>1, <3>1, <3>2, <3>3 DEF Doomed, InHand, Leaving
    <3>4. CASE tokens[j].uid # u
      <4>1. j \in Orphans'
        BY <2>1, <2>2, <3>1, <3>4 DEF Doomed, Leaving
      <4>2. j \in Orphans
        BY <2>1, <2>3, <3>1, <3>4, <4>1 DEF Orphans
      <4> QED
        BY <2>1, <3>1, <3>2, <4>2 DEF Doomed, InHand
    <3> QED
      BY <3>3, <3>4
  <2> QED
    BY <2>1, <2>5, <2>6, <2>7, Charged DEF Pays
<1>2. CASE SvUndo(t)
  <2>1. PICK o \in Outcomes("del") :
          /\ pc[t] = "svUndo" /\ Charge(o) /\ tokens' = Del(o, tokens, k)
          /\ Return(t) /\ UNCHANGED <<index, files, issued, crashes, adrift>>
    BY <1>2 DEF SvUndo
  <2>2. pc'[t] = "idle"
    BY <1>0, <2>1
  <2>3. /\ \A j \in Tokens : j # k => tokens'[j] = tokens[j]
        /\ \A j \in Tokens : tokens'[j] \in {tokens[j], None}
        /\ Executed(o) => tokens'[k] = None
    BY <1>0, <2>1 DEF Del
  <2>4. IndexOwn'
    BY <1>0, <2>1, <2>3 DEF IndexOwn, Index
  <2>5. InHandOwn(t)'
    BY <2>2 DEF InHandOwn
  <2>6. ASSUME NEW j \in Tokens, j \in Doomed(t)', j # k PROVE j \in Doomed(t)
    BY <2>1, <2>2, <2>3, <2>6 DEF Doomed, InHand, Holding, Leaving, Orphans
  <2>7. CASE Executed(o)
    <3>1. k \notin Doomed(t)'
      BY <2>3, <2>7 DEF Doomed
    <3>2. Doomed(t)' \subseteq Doomed(t)
      BY <2>6, <3>1 DEF Doomed
    <3> QED
      BY <2>1, <2>4, <2>5, <3>2, Charged DEF Pays
  <2>8. CASE ~Executed(o)
    <3>1. Doomed(t)' \subseteq Doomed(t) \cup {k}
      BY <2>6 DEF Doomed
    <3> QED
      BY <2>1, <2>4, <2>5, <2>8, <3>1, Charged DEF Pays, Executed
  <2> QED
    BY <2>7, <2>8
<1> QED
  BY <1>1, <1>2

(* Refreshing: both TTLs are set anew, or a command has failed.            *)
LEMMA SerialRefresh ==
  ASSUME NEW t \in Threads, Threads = {t}, OwnInv(t), TokenInv',
         RtGet(t) \/ RtToken(t) \/ RtIndex(t)
  PROVE  IndexOwn' /\ InHandOwn(t)' /\ Pays(t)
<1> USE DEF OwnInv, TokenInv, At, Go, Continue, Return, redis
<1>0. /\ req[t].uid \in Uids
      /\ pc[t] \in Holding => tok[t] \in Tokens
      /\ pc \in [Threads -> Labels] /\ tok \in [Threads -> Tokens \cup {None}]
      /\ tokens \in [Tokens -> Hash \cup {None}] /\ index \in [Uids -> Index \cup {None}]
  BY DEF LocalOK, Holds, StoreOK, RtGet, RtToken, RtIndex
<1> DEFINE u == req[t].uid
<1>1. CASE RtGet(t)
  <2>1. PICK o \in Outcomes("get") :
          /\ pc[t] = "rtGet" /\ Charge(o) /\ UNCHANGED <<redis, issued, crashes, adrift>>
          /\ LET k == Get(o, index, u) IN
             IF k = None THEN Return(t)
             ELSE tok' = [tok EXCEPT ![t] = k] /\ Go(t, "rtToken") /\ req' = req
    BY <1>1 DEF RtGet
  <2>2. PICK k : k = Get(o, index, u)
    OBVIOUS
  <2>3. \/ pc'[t] = "idle"
        \/ /\ pc'[t] = "rtToken" /\ tok'[t] = k /\ req'[t] = req[t]
           /\ index[u] # None /\ index[u].val = k
    BY <1>0, <2>1, <2>2 DEF Get
  <2>a. index[u] # None /\ index[u].val = k =>
          tokens[k] = None \/ tokens[k].uid = u
    BY <1>0 DEF IndexOwn
  <2>4. IndexOwn' /\ InHandOwn(t)'
    BY <2>1, <2>3, <2>a DEF IndexOwn, InHandOwn
  <2>5. Doomed(t)' \subseteq Doomed(t)
    BY <2>1, <2>3 DEF Doomed, InHand, Holding, Leaving, Orphans
  <2> QED
    BY <2>1, <2>4, <2>5, Charged DEF Pays
<1>2. CASE RtToken(t)
  <2>1. PICK o \in Outcomes("expire") :
          /\ pc[t] = "rtToken" /\ Charge(o) /\ tokens' = Expire(o, tokens, tok[t], TokenTtl)
          /\ pc' = [pc EXCEPT ![t] = "rtIndex"] /\ UNCHANGED <<req, tok>>
          /\ UNCHANGED <<index, files, issued, crashes, adrift>>
    BY <1>2 DEF RtToken
  <2>2. /\ \A j \in Tokens : j # tok[t] => tokens'[j] = tokens[j]
        /\ \A j \in Tokens : tokens'[j] # None => tokens[j] # None
        /\ \A j \in Tokens : tokens'[j] # None => /\ tokens'[j].uid = tokens[j].uid
                                                  /\ tokens'[j].ttl \in {tokens[j].ttl, TokenTtl}
    BY <1>0, <2>1 DEF Expire, Hash
  <2>3. IndexOwn'
    BY <1>0, <2>1, <2>2, TokenAssumption DEF IndexOwn, Index, Forever
  <2>4. InHandOwn(t)'
    BY <1>0, <2>1 DEF InHandOwn
  <2>5. Doomed(t)' \subseteq Doomed(t)
    <3> SUFFICES ASSUME NEW j \in Tokens, j \in Doomed(t)' PROVE j \in Doomed(t)
      BY DEF Doomed
    <3>1. /\ pc'[t] = "rtIndex" /\ InHand(t) = {}
          /\ j \notin InHand(t)' /\ j \notin adrift /\ tokens'[j] # None
      BY <1>0, <2>1 DEF Doomed, InHand, Holding
    <3>2. j \in Orphans' /\ tokens[j] # None /\ tokens[j] \in Hash
      BY <1>0, <2>2, <3>1 DEF Doomed, Leaving
    <3>3. CASE j # tok[t]
      BY <2>1, <2>2, <3>1, <3>2, <3>3 DEF Doomed, Orphans
    <3>4. CASE j = tok[t]
      <4>1. index[u] = None
        BY <2>1, <3>1, <3>4 DEF InHand
      <4>2. tokens[j].uid = u
        BY <2>1, <3>2, <3>4 DEF InHandOwn
      <4> QED
        BY <3>1, <3>2, <4>1, <4>2 DEF Doomed, Orphans
    <3> QED
      BY <3>3, <3>4
  <2> QED
    BY <2>1, <2>3, <2>4, <2>5, Charged DEF Pays
<1>3. CASE RtIndex(t)
  <2>1. PICK o \in Outcomes("expire") :
          /\ pc[t] = "rtIndex" /\ Charge(o) /\ index' = Expire(o, index, u, TokenTtl)
          /\ Return(t) /\ UNCHANGED <<tokens, files, issued, crashes, adrift>>
    BY <1>3 DEF RtIndex
  <2> DEFINE k == tok[t]
  <2>0. ASSUME index[u] = None
        PROVE  IndexOwn' /\ InHandOwn(t)' /\ Pays(t)
    <3>1. pc'[t] = "idle" /\ index' = index
      BY <1>0, <2>0, <2>1 DEF Expire
    <3>2. IndexOwn' /\ InHandOwn(t)'
      BY <2>1, <3>1 DEF IndexOwn, InHandOwn
    <3>3. Doomed(t)' \subseteq Doomed(t)
      <4>1. InHand(t) = {}
        BY <2>0, <2>1 DEF InHand
      <4> QED
        BY <2>1, <3>1, <4>1 DEF Doomed, Leaving, Orphans
    <3> QED
      BY <2>1, <3>2, <3>3, Charged DEF Pays
  <2> SUFFICES ASSUME index[u] # None PROVE IndexOwn' /\ InHandOwn(t)' /\ Pays(t)
    BY <2>0
  <2>2. /\ pc'[t] = "idle" /\ k \in Tokens /\ index[u] # None /\ index[u].val = k
    BY <1>0, <2>1 DEF InHandOwn, Holding
  <2>3. /\ \A v \in Uids : v # u => index'[v] = index[v]
        /\ index'[u] # None /\ index'[u].val = k
        /\ Executed(o) => index'[u].ttl = TokenTtl
    <3>1. CASE Executed(o)
      <4>1. index' = [index EXCEPT ![u].ttl = TokenTtl]
        BY <2>1, <2>2, <3>1 DEF Expire
      <4>2. index[u] \in Index
        BY <1>0, <2>2
      <4>3. index'[u] = [index[u] EXCEPT !.ttl = TokenTtl]
        BY <1>0, <4>1
      <4>4. index'[u].val = k /\ index'[u].ttl = TokenTtl /\ index'[u] \in Index
        BY <2>2, <4>2, <4>3, TokenAssumption DEF Index
      <4> QED
        BY <1>0, <4>1, <4>4, TokenAssumption
    <3>2. CASE ~Executed(o)
      BY <2>1, <2>2, <3>2 DEF Expire
    <3> QED
      BY <3>1, <3>2
  <2>4. \A v \in Uids : index'[v] # None => index[v] # None /\ index'[v].val = index[v].val
    BY <2>2, <2>3
  <2>5. IndexOwn'
    BY <2>1, <2>4 DEF IndexOwn
  <2>6. InHandOwn(t)'
    BY <2>2 DEF InHandOwn
  <2>7. ASSUME NEW j \in Tokens, j \in Doomed(t)', j # k PROVE j \in Doomed(t)
    <3>1. tokens[j] # None /\ tokens[j].uid \in Uids /\ j \in Orphans'
      BY <1>0, <2>1, <2>2, <2>7 DEF Doomed, Hash, Leaving
    <3>2. j \in Orphans
      BY <2>1, <2>2, <2>3, <2>7, <3>1 DEF Orphans
    <3> QED
      BY <2>1, <2>7, <3>1, <3>2 DEF Doomed, InHand
  <2>8. CASE Executed(o)
    <3>1. k \notin Orphans'
      <4>1. tokens[k] # None => tokens[k].uid = u /\ tokens[k].ttl # Forever
        BY <1>0, <2>2 DEF IndexOwn
      <4>2. tokens[k] # None => tokens[k].ttl \in Forever .. TokenTtl
        BY <1>0, <2>2 DEF Hash
      <4> QED
        BY <2>1, <2>3, <2>8, <4>1, <4>2, TokenAssumption DEF Orphans, Forever
    <3>2. k \notin Doomed(t)'
      BY <2>2, <3>1 DEF Doomed, Leaving
    <3>3. Doomed(t)' \subseteq Doomed(t)
      BY <2>7, <3>2 DEF Doomed
    <3> QED
      BY <2>1, <2>5, <2>6, <3>3, Charged DEF Pays
  <2>9. CASE ~Executed(o)
    <3>1. Doomed(t)' \subseteq Doomed(t) \cup {k}
      BY <2>7 DEF Doomed
    <3> QED
      BY <2>1, <2>5, <2>6, <2>9, <3>1, Charged DEF Pays, Executed
  <2> QED
    BY <2>8, <2>9
<1> QED
  BY <1>1, <1>2, <1>3

(* The other steps change neither a login token nor an index: a call that  *)
(* comes, the choice of a node and a token, and file tokens.               *)
LEMMA SerialElsewhere ==
  ASSUME NEW t \in Threads, Threads = {t}, OwnInv(t), TokenInv',
         Requests(t) \/ Pick(t) \/ FiSet(t) \/ FiDel(t) \/ FiNone(t)
  PROVE  IndexOwn' /\ InHandOwn(t)' /\ Pays(t)
<1> USE DEF OwnInv, TokenInv, At, Idle, Go, Continue, Return, redis
<1>1. /\ UNCHANGED <<tokens, index, crashes, adrift>> /\ pc[t] \notin Holding
      /\ \/ pc'[t] \in {"idle", "dtGet", "rtGet", "fiSet", "fiDel"}
         \/ pc[t] = "pick" /\ pc'[t] = "svUid" /\ req'[t] = req[t]
  BY DEF Requests, GetChatServer, ClearLogin, RefreshTokenTTL, GetFileServer,
     DeleteFileToken, Call, Pick, FiSet, FiDel, FiNone, LocalOK, Holding
<1>2. faults' = faults \/ \E cmd : \E o \in Outcomes(cmd) : Charge(o)
  BY DEF Requests, GetChatServer, ClearLogin, RefreshTokenTTL, GetFileServer,
     DeleteFileToken, Call, Pick, FiSet, FiDel, FiNone
<1>3. faults + crashes <= faults' + crashes'
  <2>1. CASE faults' = faults
    <3>1. MaxFaults \in Nat /\ MaxCrashes \in Nat
      BY RedisAssumption, TokenAssumption
    <3>2. faults \in Nat /\ crashes \in Nat /\ faults' = faults /\ crashes' = crashes
      BY <1>1, <2>1, <3>1 DEF CountersOK
    <3> QED
      BY <3>2, Sums
  <2>2. CASE \E cmd : \E o \in Outcomes(cmd) : Charge(o)
    BY <1>1, <2>2, Charged
  <2> QED
    BY <1>2, <2>1, <2>2
<1>4. IndexOwn' /\ InHandOwn(t)'
  BY <1>1 DEF IndexOwn, InHandOwn
<1>5. Doomed(t)' \subseteq Doomed(t)
  <2> SUFFICES ASSUME NEW j \in Tokens, j \in Doomed(t)' PROVE j \in Doomed(t)
    BY DEF Doomed
  <2> QED
    BY <1>1 DEF Doomed, InHand, Holding, Leaving, Orphans
<1> QED
  BY <1>3, <1>4, <1>5 DEF Pays

(* Time passes: a token that is found, and has no more time left than the  *)
(* index, is found then or gone; the one whose index lapses between the    *)
(* two EXPIREs of a refresh goes adrift.                                   *)
LEMMA SerialTick ==
  ASSUME NEW t \in Threads, OwnInv(t), Tick
  PROVE  IndexOwn' /\ InHandOwn(t)' /\ Pays(t)
<1> USE DEF OwnInv, TokenInv
<1>1. /\ UNCHANGED <<faults, crashes, pc, req, tok>>
      /\ \A j \in Tokens : tokens'[j] = AgeHash(tokens[j])
      /\ \A v \in Uids : index'[v] = AgeKey(index[v])
      /\ adrift \subseteq adrift' /\ (Lapsing(t) => tok[t] \in adrift')
  BY DEF Tick
<1>2. /\ tokens \in [Tokens -> Hash \cup {None}] /\ index \in [Uids -> Index \cup {None}]
      /\ pc[t] # "idle" => req[t].uid \in Uids
      /\ pc[t] \in Holding => tok[t] \in Tokens
  BY DEF StoreOK, LocalOK, Holds
<1>a. \A v \in Uids : index'[v] # None => index[v] # None /\ index'[v].val = index[v].val
  BY <1>1, <1>2, AgeOK DEF Index
<1>b. ASSUME NEW j \in Tokens, tokens'[j] # None
      PROVE  /\ tokens[j] # None /\ tokens[j] \in Hash /\ tokens'[j].uid = tokens[j].uid
             /\ tokens[j].ttl # Forever => tokens'[j].ttl # Forever
  <2>1. tokens[j] # None /\ tokens[j] \in Hash /\ tokens'[j] = AgeHash(tokens[j])
    BY <1>1, <1>2, <1>b, AgeOK
  <2>2. tokens'[j].uid = tokens[j].uid
    BY <1>b, <2>1 DEF AgeHash, AgeKey, Hash
  <2>3. tokens[j].ttl # Forever => tokens'[j].ttl # Forever
    BY <1>b, <2>1, AgeOK
  <2> QED
    BY <2>1, <2>2, <2>3
<1>3. IndexOwn'
  <2> SUFFICES ASSUME NEW v \in Uids, index'[v] # None, tokens'[index'[v].val] # None
               PROVE  LET h == tokens'[index'[v].val] IN h.uid = v /\ h.ttl # Forever
    BY DEF IndexOwn
  <2>1. index[v] # None /\ index'[v].val = index[v].val /\ index[v].val \in Tokens
    BY <1>2, <1>a DEF Index
  <2>2. PICK k \in Tokens : k = index[v].val
    BY <2>1
  <2>3. tokens[k] # None /\ tokens'[k].uid = tokens[k].uid
        /\ (tokens[k].ttl # Forever => tokens'[k].ttl # Forever)
    BY <1>b, <2>1, <2>2
  <2>4. tokens[k].uid = v /\ tokens[k].ttl # Forever
    BY <2>1, <2>2, <2>3 DEF IndexOwn
  <2> QED
    BY <2>1, <2>2, <2>3, <2>4
<1>4. InHandOwn(t)'
  <2>1. ASSUME pc[t] \in {"svToken", "svExpire", "svIndex", "rtToken"}, tokens'[tok[t]] # None
        PROVE  /\ tokens'[tok[t]].uid = req[t].uid
               /\ pc[t] = "svIndex" => tokens'[tok[t]].ttl # Forever
    <3>1. tok[t] \in Tokens
      BY <1>2, <2>1 DEF Holding
    <3> QED
      BY <1>b, <2>1, <3>1 DEF InHandOwn
  <2>2. ASSUME pc[t] \in {"rtToken", "rtIndex"}, index'[req[t].uid] # None
        PROVE  index'[req[t].uid].val = tok[t]
    BY <1>2, <1>a, <2>2 DEF InHandOwn
  <2> QED
    BY <1>1, <2>1, <2>2 DEF InHandOwn
<1>5. ASSUME NEW j \in Tokens, j \in Orphans', tokens'[j] # None
      PROVE  j \in Orphans
  <2>1. tokens[j] # None /\ tokens[j] \in Hash /\ tokens'[j] = AgeHash(tokens[j])
    BY <1>1, <1>2, <1>5, AgeOK
  <2>2. PICK v \in Uids : v = tokens[j].uid /\ tokens'[j].uid = v
    BY <1>5, <2>1 DEF AgeHash, AgeKey, Hash
  <2>3. CASE tokens[j].ttl = Forever
    BY <2>1, <2>3 DEF Orphans, Forever
  <2>4. CASE tokens[j].ttl # Forever
    <3>1. /\ tokens[j].ttl # 1 /\ tokens[j].ttl \in Nat \ {0}
          /\ tokens'[j].ttl = tokens[j].ttl - 1
      BY <1>5, <2>1, <2>4 DEF AgeHash, AgeKey, Hash, Forever
    <3>2. ASSUME index[v] # None, index[v].val = j, tokens[j].ttl \in 1 .. index[v].ttl
          PROVE  FALSE
      <4>1. index[v] \in Index /\ index[v].ttl # 1
        BY <1>2, <3>1, <3>2 DEF Index
      <4>2. /\ index'[v].val = j /\ index'[v].ttl = index[v].ttl - 1
            /\ index'[v] \in Index
        <5>1. index'[v] = [index[v] EXCEPT !.ttl = @ - 1]
          BY <1>1, <3>2, <4>1 DEF AgeKey
        <5> QED
          BY <3>2, <4>1, <5>1, TokenAssumption DEF Index
      <4>3. index'[v] # None
        BY <4>2, TokenAssumption
      <4>4. tokens'[j].ttl \in 1 .. index'[v].ttl
        BY <3>1, <3>2, <4>1, <4>2 DEF Index
      <4> QED
        BY <1>5, <2>2, <4>2, <4>3, <4>4 DEF Orphans
    <3> QED
      BY <2>1, <2>2, <3>2 DEF Orphans
  <2> QED
    BY <2>3, <2>4
<1>7. Doomed(t)' \subseteq Doomed(t)
  <2> SUFFICES ASSUME NEW j \in Tokens, j \in Doomed(t)' PROVE j \in Doomed(t)
    BY DEF Doomed
  <2>1. j \notin InHand(t)' /\ j \notin adrift' /\ tokens'[j] # None
    BY DEF Doomed
  <2>2. tokens[j] # None /\ tokens'[j].uid = tokens[j].uid /\ j \notin adrift
    BY <1>1, <1>b, <2>1
  <2>3. j \in Orphans \/ (Leaving(t) /\ tokens[j].uid = req[t].uid)
    BY <1>1, <1>5, <2>1, <2>2 DEF Doomed, Leaving
  <2>4. j \notin InHand(t)
    <3>1. CASE pc[t] = "rtIndex" /\ index[req[t].uid] # None
      <4>1. CASE index'[req[t].uid] = None
        BY <1>1, <1>2, <2>1, <3>1, <4>1 DEF InHand, Lapsing, At
      <4>2. CASE index'[req[t].uid] # None
        BY <1>1, <2>1, <3>1, <4>2 DEF InHand
      <4> QED
        BY <4>1, <4>2
    <3>2. CASE ~(pc[t] = "rtIndex" /\ index[req[t].uid] # None)
      BY <1>1, <2>1, <3>2 DEF InHand
    <3> QED
      BY <3>1, <3>2
  <2> QED
    BY <2>2, <2>3, <2>4 DEF Doomed
<1>6. faults + crashes <= faults' + crashes'
  <2>1. MaxFaults \in Nat /\ MaxCrashes \in Nat
    BY RedisAssumption, TokenAssumption
  <2>2. faults \in Nat /\ crashes \in Nat /\ faults' = faults /\ crashes' = crashes
    BY <1>1, <2>1 DEF CountersOK
  <2> QED
    BY <2>2, Sums
<1> QED
  BY <1>3, <1>4, <1>6, <1>7 DEF Pays

(* A crash leaves what the thread has in its hands behind.                 *)
LEMMA SerialCrash ==
  ASSUME NEW t \in Threads, OwnInv(t), Crash
  PROVE  IndexOwn' /\ InHandOwn(t)' /\ Pays(t)
<1> USE DEF OwnInv, TokenInv
<1>1. /\ UNCHANGED <<tokens, index, faults, adrift>> /\ crashes' = crashes + 1
      /\ pc'[t] = "idle"
  BY DEF Crash, redis
<1>2. IndexOwn' /\ InHandOwn(t)'
  BY <1>1 DEF IndexOwn, InHandOwn
<1>3. Doomed(t)' \subseteq Doomed(t) \cup {tok[t]}
  BY <1>1 DEF Doomed, InHand, Holding, Leaving, Orphans
<1>4. faults + crashes + 1 <= faults' + crashes'
  <2>1. MaxFaults \in Nat /\ MaxCrashes \in Nat
    BY RedisAssumption, TokenAssumption
  <2>2. faults \in Nat /\ crashes \in Nat
    BY <2>1 DEF CountersOK
  <2> QED
    BY <1>1, <2>2, Sums
<1> QED
  BY <1>2, <1>3, <1>4 DEF Pays

LEMMA SerialStep ==
  ASSUME NEW t \in Threads, Threads = {t}, SerialInv(t), [Next]_vars
  PROVE  SerialInv(t)'
<1>1. TokenInv'
  BY TokenStep DEF SerialInv, OwnInv
<1>2. CASE UNCHANGED vars
  <2>1. UNCHANGED <<tokens, index, faults, crashes, pc, req, tok, adrift>>
    BY <1>2 DEF vars, redis
  <2>2. IndexOwn' /\ InHandOwn(t)'
    BY <2>1 DEF SerialInv, OwnInv, IndexOwn, InHandOwn
  <2>3. Doomed(t)' = Doomed(t)
    BY <2>1 DEF Doomed, InHand, Leaving, Orphans
  <2>4. Cardinality(Doomed(t))' = Cardinality(Doomed(t))
    BY <2>3
  <2>5. Paid(t)'
    BY <2>1, <2>3, <2>4 DEF SerialInv, Paid
  <2> QED
    BY <1>1, <2>2, <2>5 DEF SerialInv, OwnInv
<1>3. CASE Next
  <2>1. ASSUME NEW s \in Threads, Requests(s) \/ Steps(s)
        PROVE  IndexOwn' /\ InHandOwn(t)' /\ Pays(t)
    <3>1. Requests(t) \/ Steps(t)
      BY <2>1
    <3> QED
      BY <1>1, <3>1, SerialDelete, SerialWrite, SerialIndex, SerialRefresh, SerialElsewhere
         DEF SerialInv, Steps
  <2>2. IndexOwn' /\ InHandOwn(t)' /\ Pays(t)
    BY <1>3, <2>1, SerialTick, SerialCrash DEF Next, SerialInv
  <2>3. Paid(t)'
    BY <1>1, <2>2, PaidKept DEF SerialInv, OwnInv, TokenInv
  <2> QED
    BY <1>1, <2>2, <2>3 DEF SerialInv, OwnInv
<1> QED
  BY <1>2, <1>3

LEMMA SerialInit ==
  ASSUME NEW t \in Threads, Init PROVE SerialInv(t)
<1>1. TokenInv
  BY InitOK
<1>2. /\ \A k \in Tokens : tokens[k] = None
      /\ \A u \in Uids : index[u] = None
      /\ pc[t] = "idle" /\ faults = 0 /\ crashes = 0
  BY DEF Init
<1>3. IndexOwn /\ InHandOwn(t)
  BY <1>2 DEF IndexOwn, InHandOwn
<1>4. Doomed(t) = {}
  BY <1>2 DEF Doomed
<1>5. IsFiniteSet(Doomed(t)) /\ Cardinality(Doomed(t)) = 0
  BY <1>4, FS_EmptySet
<1>6. Paid(t)
  BY <1>2, <1>5 DEF Paid
<1> QED
  BY <1>1, <1>3, <1>6 DEF SerialInv, OwnInv

LEMMA PaidIsIndexed ==
  ASSUME NEW t \in Threads, SerialInv(t) PROVE TokenIndexed
<1> SUFFICES ASSUME AllIdle PROVE Cardinality(Orphans \ adrift) <= faults + crashes
  BY DEF TokenIndexed
<1>1. pc[t] = "idle"
  BY DEF AllIdle, Idle
<1>2. Doomed(t) = Orphans \ adrift
  BY <1>1 DEF Doomed, InHand, Holding, Leaving, Orphans
<1> QED
  BY <1>2 DEF SerialInv, Paid

(* Between two calls a user has one login token and its index finds it:    *)
(* every token that is cut off from its index (saveToken, deleteToken,     *)
(* refreshTokenTTL) is the price of one failed command or one crash, for   *)
(* any number of failures, crashes, users and tokens and however slow the  *)
(* calls are, when one thread serves them; but for the tokens whose index  *)
(* runs out while refreshTokenTTL is between its two EXPIREs.              *)
THEOREM TokensAreIndexed == OneThread /\ Spec => []TokenIndexed
<1> SUFFICES ASSUME NEW CONSTANT t, Threads = {t} PROVE Spec => []TokenIndexed
  BY DEF OneThread
<1>0. t \in Threads
  OBVIOUS
<1>1. SerialInv(t) /\ [Next]_vars => SerialInv(t)'
  BY <1>0, SerialStep
<1>2. Init => SerialInv(t)
  BY <1>0, SerialInit
<1>3. SerialInv(t) => TokenIndexed
  BY <1>0, PaidIsIndexed
<1> QED
  BY <1>1, <1>2, <1>3, PTL DEF Spec
=============================================================================
