-------------------------- MODULE TokenQueryProofs ---------------------------
(***************************************************************************)
(* Proofs about TokenQueries, for any askers beside any threads: what      *)
(* ValidateToken and ResolveToken answer.                                  *)
(***************************************************************************)
EXTENDS TokenQueries, LoginTokenProofs

-----------------------------------------------------------------------------
(* Queries change nothing that the threads see but the count of failures.  *)
FaultOnly == Quiet /\ faults <= faults' /\ faults' \in 0 .. MaxFaults

LEMMA QueriesQuiet ==
  ASSUME CountersOK, NEW a \in Askers, Queries(a)
  PROVE  FaultOnly
<1>1. faults \in Nat /\ faults \in 0 .. MaxFaults
  BY RedisAssumption DEF CountersOK
<1>2. CASE Asks(a) \/ Answered(a)
  BY <1>1, <1>2 DEF Asks, Answered, FaultOnly
<1>3. CASE VtHash(a) \/ VtFile(a) \/ RsUid(a)
  <2>1. Quiet /\ \E cmd : \E o \in Outcomes(cmd) : Charge(o)
    BY <1>3 DEF VtHash, VtFile, RsUid
  <2> QED
    BY <2>1, ChargeOK DEF FaultOnly
<1> QED
  BY <1>2, <1>3 DEF Queries

LEMMA AskIsQuiet ==
  ASSUME CountersOK, [QNext]_qvars
  PROVE  [Next]_vars \/ FaultOnly
<1>1. CASE Meanwhile
  BY <1>1 DEF Meanwhile, Next
<1>2. CASE CrashAll
  BY <1>2 DEF CrashAll, Next
<1>3. CASE UNCHANGED qvars
  BY <1>3 DEF qvars
<1> QED
  BY <1>1, <1>2, <1>3, QueriesQuiet DEF QNext

LEMMA FaultKeepsTokens == ASSUME TokenInv, FaultOnly PROVE TokenInv'
BY DEF FaultOnly, Quiet, redis, TokenInv, StoreOK, CountersOK, LocalOK, Holds, Issued,
       Owned, Written

LEMMA TokenInvAsked == TokenInv /\ [QNext]_qvars => TokenInv'
BY AskIsQuiet, TokenStep, FaultKeepsTokens DEF TokenInv

LEMMA TokensWithQueries == QSpec => []TokenInv
<1>1. QInit => TokenInv
  BY InitOK DEF QInit
<1> QED
  BY <1>1, TokenInvAsked, PTL DEF QSpec

(* Queries orphan no token: what TokensAreIndexed says holds beside them.  *)
THEOREM TokensIndexedBesideQueries == OneThread /\ QSpec => []TokenIndexed
<1> SUFFICES ASSUME NEW CONSTANT t, Threads = {t} PROVE QSpec => []TokenIndexed
  BY DEF OneThread
<1>0. t \in Threads
  OBVIOUS
<1>1. SerialInv(t) /\ FaultOnly => SerialInv(t)'
  <2> SUFFICES ASSUME SerialInv(t), FaultOnly PROVE SerialInv(t)'
    OBVIOUS
  <2>1. UNCHANGED <<tokens, index, crashes, pc, req, tok, adrift>>
    BY DEF FaultOnly, Quiet, redis
  <2>2. TokenInv'
    BY FaultKeepsTokens DEF SerialInv, OwnInv
  <2>3. IndexOwn' /\ InHandOwn(t)'
    BY <2>1 DEF SerialInv, OwnInv, IndexOwn, InHandOwn
  <2>4. Doomed(t)' = Doomed(t)
    BY <2>1 DEF Doomed, InHand, Leaving, Orphans
  <2>5. faults + crashes <= faults' + crashes'
    <3>1. MaxFaults \in Nat /\ MaxCrashes \in Nat
      BY RedisAssumption, TokenAssumption
    <3>2. faults \in Nat /\ faults' \in Nat /\ crashes \in Nat /\ faults <= faults'
      BY <3>1 DEF SerialInv, OwnInv, TokenInv, CountersOK, FaultOnly
    <3> QED
      BY <2>1, <3>2, Sums
  <2>6. Paid(t)'
    BY <1>0, <2>2, <2>4, <2>5, PaidKept DEF Pays, SerialInv, OwnInv, TokenInv
  <2> QED
    BY <2>2, <2>3, <2>6 DEF SerialInv, OwnInv
<1>2. SerialInv(t) /\ [QNext]_qvars => SerialInv(t)'
  BY <1>0, <1>1, AskIsQuiet, SerialStep DEF SerialInv, OwnInv, TokenInv
<1>3. QInit => SerialInv(t)
  BY <1>0, SerialInit DEF QInit
<1>4. SerialInv(t) => TokenIndexed
  BY <1>0, PaidIsIndexed
<1> QED
  BY <1>2, <1>3, <1>4, PTL DEF QSpec

-----------------------------------------------------------------------------
(* A hash of which saveToken has written one field only is being saved or  *)
(* rolled back; from its EXPIRE on, a token has both.                      *)
Half(k)   == tokens[k] # None /\ ~tokens[k].token
HalfSaved == \A k \in Tokens : Half(k) => \E t \in Threads : Saving(t, k)
Complete  == \A t \in Threads : pc[t] \in {"svExpire", "svIndex"} => ~Half(tok[t])

HalfInv == MortalInv /\ HalfSaved /\ Complete

LEMMA HalfKept ==
  ASSUME NEW t \in Threads, HalfInv,
         \A s \in Threads \ {t} : pc'[s] = pc[s] /\ tok'[s] = tok[s],
         \A k \in Tokens : k # tok[t] => tokens'[k] = tokens[k],
         \A k \in Tokens : k = tok[t] /\ Half(k)' =>
           Saving(t, k)' \/ (Half(k) /\ ~Saving(t, k)),
         pc'[t] \in {"svExpire", "svIndex"} => ~Half(tok[t])'
  PROVE  (HalfSaved /\ Complete)'
<1> USE DEF HalfInv, MortalInv, TokenInv
<1>1. HalfSaved'
  <2> SUFFICES ASSUME NEW k \in Tokens, Half(k)'
               PROVE  \E s \in Threads : Saving(s, k)'
    BY DEF HalfSaved
  <2>1. CASE Half(k) /\ ~Saving(t, k)
    <3>1. PICK s \in Threads : Saving(s, k)
      BY <2>1 DEF HalfSaved
    <3> QED
      BY <2>1, <3>1 DEF Saving
  <2>2. CASE Half(k) /\ Saving(t, k)
    BY <2>2 DEF Saving
  <2>3. CASE ~Half(k)
    BY <2>3 DEF Half
  <2> QED
    BY <2>1, <2>2, <2>3
<1>2. Complete'
  <2> SUFFICES ASSUME NEW s \in Threads, pc'[s] \in {"svExpire", "svIndex"}, s # t
               PROVE  ~Half(tok[s])'
    BY DEF Complete
  <2>1. pc[s] = pc'[s] /\ tok'[s] = tok[s] /\ tok[s] \in Tokens
    BY DEF LocalOK, Holds, Holding
  <2>2. tok[s] # tok[t] /\ ~Half(tok[s])
    BY <2>1 DEF Owned, Fresh, Complete
  <2> QED
    BY <2>1, <2>2 DEF Half
<1> QED
  BY <1>1, <1>2

(* The steps of saveToken.                                                 *)
LEMMA HalfWhileSaving ==
  ASSUME NEW t \in Threads, OneFault, HalfInv,
         SvUid(t) \/ SvToken(t) \/ SvExpire(t) \/ SvIndex(t) \/ SvUndo(t)
  PROVE  (HalfSaved /\ Complete)'
<1> USE DEF HalfInv, MortalInv, TokenInv, At, Go, Continue, OrUndo, Return
<1>0. /\ tok[t] \in Tokens /\ pc \in [Threads -> Labels]
      /\ tok \in [Threads -> Tokens \cup {None}]
      /\ tokens \in [Tokens -> Hash \cup {None}]
  BY DEF LocalOK, Holds, StoreOK, Holding, SvUid, SvToken, SvExpire, SvIndex, SvUndo
<1>1. CASE SvUid(t)
  <2>1. /\ pc'[t] \in {"svToken", "svUndo"} /\ tok' = tok
        /\ \A s \in Threads \ {t} : pc'[s] = pc[s]
    BY <1>0, <1>1 DEF SvUid
  <2>2. \A k \in Tokens : k # tok[t] => tokens'[k] = tokens[k]
    BY <1>0, <1>1 DEF SvUid, HSet
  <2> QED
    BY <2>1, <2>2, HalfKept DEF Saving
<1>2. CASE SvToken(t)
  <2>1. PICK o \in Outcomes("hSet") :
          /\ pc[t] = "svToken"
          /\ pc' = [pc EXCEPT ![t] = IF o = "ok" THEN "svExpire" ELSE "svUndo"]
          /\ tok' = tok
          /\ tokens' = IF Executed(o) THEN [tokens EXCEPT ![tok[t]].token = TRUE] ELSE tokens
    BY <1>2 DEF SvToken
  <2>2. /\ pc'[t] = (IF o = "ok" THEN "svExpire" ELSE "svUndo")
        /\ \A s \in Threads \ {t} : pc'[s] = pc[s]
    BY <1>0, <2>1
  <2>3. \A k \in Tokens : k # tok[t] => tokens'[k] = tokens[k]
    BY <1>0, <2>1
  <2>4. o = "ok" => tokens'[tok[t]].token
    <3>1. tokens[tok[t]] \in Hash
      BY <2>1 DEF Written
    <3>2. o = "ok" => tokens'[tok[t]] = [tokens[tok[t]] EXCEPT !.token = TRUE]
      BY <1>0, <2>1 DEF Executed
    <3> QED
      BY <3>1, <3>2 DEF Hash
  <2> QED
    BY <2>1, <2>2, <2>3, <2>4, HalfKept DEF Saving, Half
<1>3. CASE SvExpire(t)
  <2>1. PICK o \in Outcomes("expire") :
          /\ pc[t] = "svExpire" /\ tok' = tok /\ tokens' = Expire(o, tokens, tok[t], TokenTtl)
          /\ pc' = [pc EXCEPT ![t] = IF o = "ok" /\ tokens[tok[t]] # None
                                     THEN "svIndex" ELSE "svUndo"]
    BY <1>3 DEF SvExpire
  <2>2. /\ pc'[t] \in {"svIndex", "svUndo"}
        /\ \A s \in Threads \ {t} : pc'[s] = pc[s]
    BY <1>0, <2>1
  <2>3. \A k \in Tokens : k # tok[t] => tokens'[k] = tokens[k]
    BY <1>0, <2>1 DEF Expire
  <2>4. \A k \in Tokens : k = tok[t] => ~Half(k)'
    BY <1>0, <2>1 DEF Complete, Half, Expire, Hash
  <2>5. ~Half(tok[t])'
    BY <1>0, <2>1, <2>4 DEF Half
  <2> QED
    BY <2>1, <2>2, <2>3, <2>4, <2>5, HalfKept
<1>4. CASE SvIndex(t)
  <2>1. /\ pc[t] = "svIndex" /\ tokens' = tokens
        /\ pc'[t] \in {"idle", "svUndo"}
        /\ \A s \in Threads \ {t} : pc'[s] = pc[s] /\ tok'[s] = tok[s]
    BY <1>0, <1>4 DEF SvIndex
  <2>2. \A k \in Tokens : k = tok[t] => ~Half(k)'
    BY <2>1 DEF Complete, Half
  <2> QED
    BY <2>1, <2>2, HalfKept
<1>5. CASE SvUndo(t)
  <2>1. /\ pc'[t] = "idle" /\ tokens'[tok[t]] = None
        /\ \A s \in Threads \ {t} : pc'[s] = pc[s] /\ tok'[s] = tok[s]
    BY <1>0, <1>5, UndoWorks DEF SvUndo
  <2>2. \A k \in Tokens : k # tok[t] => tokens'[k] = tokens[k]
    BY <1>0, <1>5 DEF SvUndo, Del
  <2> QED
    BY <2>1, <2>2, HalfKept DEF Half
<1> QED
  BY <1>1, <1>2, <1>3, <1>4, <1>5

(* The other steps write no field.                                         *)
LEMMA HalfElsewhere ==
  ASSUME NEW t \in Threads, HalfInv,
         \/ Requests(t) \/ DtGet(t) \/ DtIndex(t) \/ DtToken(t) \/ Pick(t)
         \/ RtGet(t) \/ RtToken(t) \/ RtIndex(t) \/ FiSet(t) \/ FiDel(t) \/ FiNone(t)
  PROVE  (HalfSaved /\ Complete)'
<1> USE DEF HalfInv, MortalInv, TokenInv, At, Go, Continue, redis
<1>1. /\ pc[t] \notin {"svUid", "svToken", "svExpire", "svUndo"}
      /\ pc'[t] \notin {"svExpire", "svIndex"}
      /\ \A s \in Threads \ {t} : pc'[s] = pc[s] /\ tok'[s] = tok[s]
  BY DEF Requests, GetChatServer, ClearLogin, RefreshTokenTTL, GetFileServer,
     DeleteFileToken, Call, DtGet, DtIndex, DtToken, AfterDelete, Return, Idle,
     Pick, RtGet, RtToken, RtIndex, FiSet, FiDel, FiNone, LocalOK
<1>2. /\ \A k \in Tokens : k # tok[t] => tokens'[k] = tokens[k]
      /\ \A k \in Tokens : Half(k)' => Half(k)
  <2>1. CASE DtToken(t)
    BY <2>1 DEF DtToken, Del, StoreOK, Half
  <2>2. CASE RtToken(t)
    <3>1. PICK o \in Outcomes("expire") : tokens' = Expire(o, tokens, tok[t], TokenTtl)
      BY <2>2 DEF RtToken
    <3> QED
      BY <3>1 DEF Expire, StoreOK, Hash, Half
  <2>3. CASE ~(DtToken(t) \/ RtToken(t))
    <3>1. tokens' = tokens
      BY <2>3 DEF Requests, GetChatServer, ClearLogin, RefreshTokenTTL, GetFileServer,
         DeleteFileToken, Call, DtGet, DtIndex, Pick, RtGet, RtIndex, FiSet, FiDel, FiNone
    <3> QED
      BY <3>1 DEF Half
  <2> QED
    BY <2>1, <2>2, <2>3
<1>3. \A k \in Tokens : Half(k)' => Half(k) /\ ~Saving(t, k)
  BY <1>1, <1>2 DEF Saving
<1> QED
  BY <1>1, <1>2, <1>3, HalfKept

LEMMA HalfTick == ASSUME HalfInv, Tick PROVE (HalfSaved /\ Complete)'
<1>1. /\ \A k \in Tokens : tokens'[k] = AgeHash(tokens[k])
      /\ UNCHANGED <<pc, tok>>
  BY DEF Tick
<1>2. \A k \in Tokens : Half(k)' => Half(k)
  <2> SUFFICES ASSUME NEW k \in Tokens, Half(k)' PROVE Half(k)
    OBVIOUS
  <2>1. tokens[k] # None /\ tokens[k] \in Hash
    BY <1>1, AgeOK DEF Half, HalfInv, MortalInv, TokenInv, StoreOK
  <2>2. AgeHash(tokens[k]) # None => AgeHash(tokens[k]).token = tokens[k].token
    BY <2>1 DEF AgeHash, AgeKey, Hash
  <2> QED
    BY <1>1, <2>1, <2>2 DEF Half
<1>3. HalfSaved'
  BY <1>1, <1>2 DEF HalfInv, HalfSaved, Saving
<1>4. Complete'
  BY <1>1, <1>2 DEF HalfInv, MortalInv, TokenInv, Complete, LocalOK, Holds, Holding
<1> QED
  BY <1>3, <1>4

LEMMA HalfStep ==
  ASSUME OneFault, HalfInv, [Next]_vars \/ FaultOnly, ~Crash
  PROVE  HalfInv'
<1>1. CASE UNCHANGED vars \/ FaultOnly
  <2>1. UNCHANGED <<redis, issued, crashes, pc, req, tok>>
    BY <1>1 DEF vars, FaultOnly, Quiet
  <2>2. TokenInv' /\ faults' >= faults /\ faults \in Nat /\ faults' \in Nat
    <3>1. faults \in Nat
      BY RedisAssumption DEF HalfInv, MortalInv, TokenInv, CountersOK
    <3>2. CASE UNCHANGED vars
      BY <3>1, <3>2, TokenStep DEF vars, HalfInv, MortalInv
    <3>3. CASE FaultOnly
      BY <3>1, <3>3, FaultKeepsTokens, RedisAssumption DEF FaultOnly, HalfInv, MortalInv
    <3> QED
      BY <1>1, <3>2, <3>3
  <2>3. TokensMortal' /\ UndoFailed'
    BY <2>1, <2>2 DEF HalfInv, MortalInv, TokensMortal, UndoFailed, Saving, redis
  <2>4. HalfSaved' /\ Complete'
    BY <2>1 DEF HalfInv, HalfSaved, Complete, Half, Saving, redis
  <2> QED
    BY <2>2, <2>3, <2>4 DEF HalfInv, MortalInv
<1>2. CASE Next
  <2>1. MortalInv'
    BY <1>2, MortalStep DEF HalfInv
  <2>2. ASSUME NEW t \in Threads, Requests(t) \/ Steps(t) PROVE (HalfSaved /\ Complete)'
    BY <2>2, HalfWhileSaving, HalfElsewhere DEF Steps
  <2> QED
    BY <1>2, <2>1, <2>2, HalfTick DEF Next, HalfInv
<1> QED
  BY <1>1, <1>2

(* A token that ResolveToken knows, and that nobody is saving or rolling   *)
(* back, ValidateToken accepts for the user it names, whichever single     *)
(* command fails, with any number of threads, until the first crash: the   *)
(* two fields of a token (saveToken) appear and go together.               *)
THEOREM QueriesAlwaysAgree == OneFault /\ QSpec => []QueriesAgree
<1> SUFFICES ASSUME OneFault PROVE QSpec => []QueriesAgree
  OBVIOUS
<1> DEFINE Inv == TokenInv /\ (crashes = 0 => HalfInv)
<1>1. QInit => Inv
  <2>1. Init => HalfSaved /\ Complete
    BY DEF Init, HalfSaved, Half, Complete
  <2> QED
    BY <2>1, MortalInit DEF QInit, HalfInv, MortalInv
<1>2. Inv /\ [QNext]_qvars => Inv'
  <2> SUFFICES ASSUME Inv, [QNext]_qvars PROVE Inv'
    OBVIOUS
  <2>1. TokenInv' /\ ([Next]_vars \/ FaultOnly)
    BY TokenInvAsked, AskIsQuiet DEF TokenInv
  <2>2. ASSUME crashes' = 0 PROVE HalfInv'
    <3>1. CASE [Next]_vars
      BY <2>2, <3>1, CrashesCounted, HalfStep
    <3>2. CASE FaultOnly
      <4>1. crashes = 0 /\ crashes' # crashes + 1
        BY <2>2, <3>2 DEF FaultOnly, Quiet
      <4> QED
        BY <3>2, <4>1, HalfStep DEF Crash
    <3> QED
      BY <2>1, <3>1, <3>2
  <2> QED
    BY <2>1, <2>2
<1>3. Inv => QueriesAgree
  BY DEF HalfInv, HalfSaved, Half, QueriesAgree, Resolve, Valid
<1> QED
  BY <1>1, <1>2, <1>3, PTL DEF QSpec
-----------------------------------------------------------------------------
(* A token that is the login token of nobody, and of which no thread has a *)
(* hold, stays so; the file tokens are all of this kind.                   *)
NoLogin(k) == /\ k \in issued /\ tokens[k] = None
              /\ \A u \in Uids : index[u] # None => index[u].val # k
              /\ \A t \in Threads : tok[t] # k
FileOnly   == \A u \in Uids : files[u] # None => NoLogin(files[u].val)

LEMMA NoLoginKept ==
  ASSUME TokenInv, [Next]_vars \/ FaultOnly, NEW k, NoLogin(k)
  PROVE  NoLogin(k)'
<1> USE DEF TokenInv
<1>0. k \in Tokens /\ k # None /\ \A t \in Threads : ~Saving(t, k)
  BY TokenAssumption DEF NoLogin, CountersOK, Saving
<1>1. CASE FaultOnly \/ UNCHANGED vars
  BY <1>1 DEF FaultOnly, Quiet, vars, redis, NoLogin
<1>2. ASSUME NEW t \in Threads, Steps(t) PROVE NoLogin(k)'
  <2>1. tokens'[k] = None
    BY <1>0, <1>2, GoneStaysGone DEF NoLogin, Next
  <2>2. /\ issued \subseteq issued'
        /\ \A u \in Uids : index'[u] # None =>
             \/ index[u] # None /\ index'[u].val = index[u].val
             \/ index'[u].val = tok[t]
    <3>1. CASE SvIndex(t)
      BY <3>1 DEF SvIndex, SetEx, StoreOK
    <3>2. CASE Pick(t) \/ SvUid(t) \/ SvToken(t)
      BY <3>2 DEF Pick, Return, Generate, SvUid, SvToken, redis
    <3>3. CASE ~(SvIndex(t) \/ Pick(t) \/ SvUid(t) \/ SvToken(t))
      BY <1>2, <3>3, GetOK, WriteOK DEF Steps, NothingNew
    <3> QED
      BY <3>1, <3>2, <3>3
  <2>3. \A s \in Threads : tok'[s] # k
    <3>1. CASE DtGet(t) \/ RtGet(t)
      <4>1. PICK o, j :
              /\ j = Get(o, index, req[t].uid) /\ pc[t] # "idle"
              /\ j = None => Return(t) \/ AfterDelete(t)
              /\ j # None => tok' = [tok EXCEPT ![t] = j]
        BY <3>1 DEF DtGet, RtGet, At
      <4>2. CASE j = None
        BY <1>0, <4>1, <4>2 DEF AfterDelete, Continue, Return, NoLogin, LocalOK
      <4>3. CASE j # None
        <5>1. req[t].uid \in Uids
          BY <4>1 DEF LocalOK, Holds
        <5>2. j # k
          BY <4>1, <4>3, <5>1 DEF Get, NoLogin
        <5> QED
          BY <4>1, <4>3, <5>2 DEF NoLogin, LocalOK
      <4> QED
        BY <4>2, <4>3
    <3>2. CASE Pick(t)
      BY <1>0, <3>2 DEF Pick, Return, Generate, NoLogin, LocalOK
    <3>3. CASE ~(DtGet(t) \/ RtGet(t) \/ Pick(t))
      <4>1. Return(t) \/ tok' = tok
        BY <1>2, <3>3 DEF Steps, DtIndex, DtToken, AfterDelete, SvUid, SvToken, SvExpire,
           SvIndex, SvUndo, RtToken, RtIndex, FiSet, FiDel, FiNone, OrUndo, Continue
      <4> QED
        BY <1>0, <4>1 DEF Return, NoLogin, LocalOK
    <3> QED
      BY <3>1, <3>2, <3>3
  <2> QED
    BY <2>1, <2>2, <2>3 DEF NoLogin
<1>3. ASSUME NEW t \in Threads, Requests(t) PROVE NoLogin(k)'
  BY <1>3 DEF Requests, GetChatServer, ClearLogin, RefreshTokenTTL, GetFileServer,
     DeleteFileToken, Call, redis, NoLogin
<1>4. CASE Tick
  BY <1>4, AgeOK DEF Tick, NoLogin, StoreOK, CountersOK
<1>5. CASE Crash
  BY <1>0, <1>5 DEF Crash, NoLogin, redis
<1> QED
  BY <1>1, <1>2, <1>3, <1>4, <1>5 DEF Next

(* A file token is fresh when it is stored.                                *)
LEMMA FileOnlyKept ==
  ASSUME TokenInv, FileOnly, [Next]_vars \/ FaultOnly
  PROVE  FileOnly'
<1> USE DEF TokenInv
<1>0. (\A u \in Uids : files'[u] # None =>
         \/ files[u] # None /\ files'[u].val = files[u].val
         \/ \E k \in Tokens : files'[u].val = k /\ NoLogin(k)') => FileOnly'
  <2>1. \A u \in Uids : files[u] # None =>
          \A k : files[u].val = k => NoLogin(k)'
    BY NoLoginKept DEF FileOnly
  <2> QED
    BY <2>1 DEF FileOnly, NoLogin
<1>1. CASE FaultOnly \/ UNCHANGED vars
  BY <1>0, <1>1 DEF FaultOnly, Quiet, vars, redis
<1>2. ASSUME NEW t \in Threads, FiSet(t) PROVE FileOnly'
  <2>1. PICK o \in Outcomes("setEx"), k \in Tokens \ issued :
          /\ files' = SetEx(o, files, req[t].uid, k, FileTtl)
          /\ issued' = issued \cup {k} /\ Return(t)
          /\ UNCHANGED <<tokens, index, crashes>>
    BY <1>2 DEF FiSet, Generate
  <2>2. NoLogin(k)'
    BY <2>1, TokenAssumption DEF NoLogin, Issued, Return, LocalOK
  <2>3. \A u \in Uids : files'[u] # None =>
          files'[u] = files[u] \/ files'[u].val = k
    BY <2>1 DEF SetEx, StoreOK
  <2> QED
    BY <1>0, <2>2, <2>3
<1>3. ASSUME NEW t \in Threads, FiDel(t) PROVE FileOnly'
  BY <1>0, <1>3 DEF FiDel, Del, StoreOK
<1>4. ASSUME NEW t \in Threads, Requests(t) \/ Steps(t), ~(FiSet(t) \/ FiDel(t))
      PROVE  FileOnly'
  <2>1. files' = files
    BY <1>4 DEF Requests, GetChatServer, ClearLogin, RefreshTokenTTL, GetFileServer,
       DeleteFileToken, Call, Steps, DtGet, DtIndex, DtToken, Pick, SvUid, SvToken,
       SvExpire, SvIndex, SvUndo, RtGet, RtToken, RtIndex, FiNone, redis
  <2> QED
    BY <1>0, <2>1
<1>5. CASE Tick
  <2>1. \A u \in Uids : files'[u] # None => files[u] # None /\ files'[u].val = files[u].val
    BY <1>5 DEF Tick, AgeKey, StoreOK, File
  <2> QED
    BY <1>0, <2>1
<1>6. CASE Crash
  BY <1>0, <1>6 DEF Crash, redis
<1> QED
  BY <1>1, <1>2, <1>3, <1>4, <1>5, <1>6 DEF Next

-----------------------------------------------------------------------------
(* What is known of a query under way: the right answers of its moments,   *)
(* the present one included, are in truth; one that has gone on to the     *)
(* file token has failed, or has seen the token refused, or the token is   *)
(* nobody's login token.                                                   *)
Query == [op : {"validate", "resolve"}, uid : Uids, token : Tokens,
          at : {"hash", "file", "answer"}, said : BOOLEAN \cup Uids \cup {None},
          failed : BOOLEAN]

Asked(a) == ask[a] # None =>
  /\ ask[a].token \in issued
  /\ Right[ask[a].op][ask[a].uid][ask[a].token] \in truth[a]
  /\ ask[a].at = "file" =>
       /\ ask[a].op = "validate"
       /\ ask[a].failed \/ FALSE \in truth[a] \/ NoLogin(ask[a].token)
  /\ ask[a].at = "answer" =>
       ask[a].said \in truth[a] \/ (ask[a].said \in {FALSE, None} /\ ask[a].failed)

AskInv == /\ TokenInv /\ FileOnly
          /\ ask \in [Askers -> Query \cup {None}]
          /\ \A a \in Askers : Asked(a)

LEMMA RightIs ==
  ASSUME NEW u \in Uids, NEW k \in Tokens
  PROVE  /\ Valid(u, k) => Right["validate"][u][k] = TRUE
         /\ ~Valid(u, k) => Right["validate"][u][k] = FALSE
         /\ Right["resolve"][u][k] = Resolve(k)
<1> DEFINE V == [v \in Uids |-> [j \in Tokens |-> Valid(v, j)]]
           R == [v \in Uids |-> [j \in Tokens |-> Resolve(j)]]
<1>1. Right["validate"] = V /\ Right["resolve"] = R
  BY DEF Right
<1>2. V[u][k] = Valid(u, k)
  OBVIOUS
<1>3. R[u][k] = Resolve(k)
  OBVIOUS
<1>4. Valid(u, k) \in BOOLEAN
  BY DEF Valid
<1> HIDE DEF V, R
<1>5. Right["validate"][u][k] = Valid(u, k) /\ Right["resolve"][u][k] = Resolve(k)
  BY <1>1, <1>2, <1>3
<1> QED
  BY <1>4, <1>5

(* The present answer is always one of those collected.                    *)
LEMMA Observed ==
  ASSUME NEW a \in Askers, Observe, ask'[a] # None
  PROVE  /\ Right'[ask'[a].op][ask'[a].uid][ask'[a].token] \in truth'[a]
         /\ truth[a] \subseteq truth'[a]
<1>1. truth'[a] = truth[a] \cup {Right'[ask'[a].op][ask'[a].uid][ask'[a].token]}
  BY DEF Observe
<1> QED
  BY <1>1

LEMMA MovesOK ==
  ASSUME ask \in [Askers -> Query \cup {None}], NEW a \in Askers, ask[a] # None,
         NEW l \in {"file", "answer"}, NEW said \in BOOLEAN \cup Uids \cup {None},
         NEW o, Moves(a, l, said, o)
  PROVE  /\ ask' \in [Askers -> Query \cup {None}]
         /\ \A b \in Askers \ {a} : ask'[b] = ask[b]
         /\ ask'[a].op = ask[a].op /\ ask'[a].uid = ask[a].uid
         /\ ask'[a].token = ask[a].token
         /\ ask'[a].at = l /\ ask'[a].said = said
         /\ ask[a].failed \/ o # "ok" => ask'[a].failed
<1> DEFINE q == ask[a]
<1>1. q \in Query
  OBVIOUS
<1>2. PICK f \in BOOLEAN : f = (q.failed \/ o # "ok")
  OBVIOUS
<1> DEFINE r == [op |-> q.op, uid |-> q.uid, token |-> q.token, at |-> l,
                 said |-> said, failed |-> f]
<1>3. r \in Query
  BY <1>1 DEF Query
<1>4. [[[q EXCEPT !.at = l] EXCEPT !.said = said] EXCEPT !.failed = f] = r
  <2> HIDE DEF q
  <2>1. PICK op, uid, token, at, x, y :
          q = [op |-> op, uid |-> uid, token |-> token, at |-> at, said |-> x, failed |-> y]
    BY <1>1 DEF Query
  <2>2. r = [op |-> op, uid |-> uid, token |-> token, at |-> l, said |-> said, failed |-> f]
    BY <2>1
  <2> HIDE DEF r
  <2>3. PICK q1 : q1 = [q EXCEPT !.at = l]
    OBVIOUS
  <2>4. PICK q2 : q2 = [q1 EXCEPT !.said = said]
    OBVIOUS
  <2>5. q1 = [op |-> op, uid |-> uid, token |-> token, at |-> l, said |-> x, failed |-> y]
    BY <2>1, <2>3
  <2>6. q2 = [op |-> op, uid |-> uid, token |-> token, at |-> l, said |-> said, failed |-> y]
    BY <2>4, <2>5
  <2>7. [q2 EXCEPT !.failed = f] = r
    BY <2>2, <2>6
  <2> QED
    BY <2>3, <2>4, <2>7
<1>5. ask' = [ask EXCEPT ![a] = r]
  BY <1>2, <1>4 DEF Moves
<1> QED
  BY <1>2, <1>3, <1>5
LEMMA IssuedGrows ==
  ASSUME TokenInv, NEW t \in Threads, Requests(t) \/ Steps(t)
  PROVE  issued \subseteq issued'
<1>1. CASE Requests(t) \/ SvUid(t) \/ SvToken(t) \/ SvIndex(t) \/ Pick(t)
  BY <1>1 DEF Requests, GetChatServer, ClearLogin, RefreshTokenTTL, GetFileServer,
     DeleteFileToken, Call, SvUid, SvToken, SvIndex, Pick, Generate
<1> QED
  BY <1>1, GetOK, WriteOK DEF Steps, NothingNew

(* A query that does not move keeps what is known of it.                   *)
LEMMA AskedKept ==
  ASSUME AskInv, [Next]_vars \/ FaultOnly, issued \subseteq issued', Observe,
         NEW a \in Askers, ask'[a] = ask[a]
  PROVE  Asked(a)'
<1> SUFFICES ASSUME ask[a] # None PROVE Asked(a)'
  BY DEF Asked
<1> DEFINE q == ask[a]
<1>1. /\ Right'[q.op][q.uid][q.token] \in truth'[a] /\ truth[a] \subseteq truth'[a]
      /\ q.token \in issued'
  BY Observed DEF AskInv, Asked
<1>2. \A k : NoLogin(k) => NoLogin(k)'
  BY NoLoginKept DEF AskInv
<1>3. q.at = "file" =>
        /\ q.op = "validate"
        /\ q.failed \/ FALSE \in truth'[a] \/ NoLogin(ask[a].token)'
  BY <1>1, <1>2 DEF AskInv, Asked
<1>4. q.at = "answer" =>
        q.said \in truth'[a] \/ (q.said \in {FALSE, None} /\ q.failed)
  BY <1>1 DEF AskInv, Asked
<1> QED
  BY <1>1, <1>3, <1>4 DEF Asked, NoLogin
(* A query that comes to its answer with what is or was right, or refuses  *)
(* after a failure.                                                        *)
LEMMA AnswerOK ==
  ASSUME AskInv, Observe, issued' = issued, NEW a \in Askers, ask[a] # None,
         NEW said \in BOOLEAN \cup Uids \cup {None}, NEW o,
         Moves(a, "answer", said, o),
         \/ said \in truth[a]
         \/ said = Right'[ask[a].op][ask[a].uid][ask[a].token]
         \/ said \in {FALSE, None} /\ (ask[a].failed \/ o # "ok")
  PROVE  /\ ask' \in [Askers -> Query \cup {None}]
         /\ \A b \in Askers \ {a} : ask'[b] = ask[b]
         /\ Asked(a)'
<1>1. /\ ask' \in [Askers -> Query \cup {None}]
      /\ \A b \in Askers \ {a} : ask'[b] = ask[b]
      /\ ask'[a].op = ask[a].op /\ ask'[a].uid = ask[a].uid
      /\ ask'[a].token = ask[a].token /\ ask'[a].at = "answer"
      /\ ask'[a].said = said
  BY MovesOK DEF AskInv
<1>2. ask[a].failed \/ o # "ok" => ask'[a].failed
  BY MovesOK DEF AskInv
<1>3. ASSUME ask'[a] # None
      PROVE  /\ ask'[a].token \in issued'
             /\ Right'[ask'[a].op][ask'[a].uid][ask'[a].token] \in truth'[a]
             /\ truth[a] \subseteq truth'[a]
             /\ Right'[ask[a].op][ask[a].uid][ask[a].token] \in truth'[a]
  BY <1>1, <1>3, Observed DEF AskInv, Asked
<1>4. ASSUME ask'[a] # None
      PROVE  ask'[a].said \in truth'[a] \/ (ask'[a].said \in {FALSE, None} /\ ask'[a].failed)
  <2>1. CASE said \in truth[a]
    <3>1. ask'[a].said \in truth'[a]
      BY <1>1, <1>3, <1>4, <2>1
    <3> QED
      BY <3>1
  <2>2. CASE said = Right'[ask[a].op][ask[a].uid][ask[a].token]
    <3>1. PICK x : x = Right'[ask[a].op][ask[a].uid][ask[a].token]
      OBVIOUS
    <3>2. said = x
      BY <2>2, <3>1, Zenon
    <3>3. x \in truth'[a]
      BY <1>3, <1>4, <3>1
    <3>4. ask'[a].said \in truth'[a]
      BY <1>1, <3>2, <3>3
    <3> QED
      BY <3>4
  <2>3. CASE said \in {FALSE, None} /\ (ask[a].failed \/ o # "ok")
    BY <1>2, <1>1, <2>3
  <2> QED
    BY <2>1, <2>2, <2>3
<1>5. Asked(a)'
  BY <1>1, <1>3, <1>4 DEF Asked
<1> QED
  BY <1>1, <1>5

(* The steps of a query.                                                   *)
LEMMA QueryOK ==
  ASSUME AskInv, FaultOnly, NEW a \in Askers, Queries(a)
  PROVE  /\ ask' \in [Askers -> Query \cup {None}]
         /\ \A b \in Askers \ {a} : ask'[b] = ask[b]
         /\ Asked(a)'
<1> USE DEF AskInv, TokenInv
<1>0. UNCHANGED <<tokens, index, files, issued, tok>> /\ Observe
  BY DEF Queries, FaultOnly, Quiet, redis
<1>1. \A k : NoLogin(k) => NoLogin(k)'
  BY NoLoginKept
<1>2. \A u \in Uids, k \in Tokens :
        /\ Valid(u, k) => Right'["validate"][u][k] = TRUE
        /\ ~Valid(u, k) => Right'["validate"][u][k] = FALSE
        /\ Right'["resolve"][u][k] = Resolve(k)
  <2>1. Right' = Right
    BY <1>0 DEF Right, Valid, Resolve
  <2> QED
    BY <2>1, RightIs
<1>3. CASE Asks(a)
  <2>1. PICK op \in {"validate", "resolve"}, u \in Uids, k \in issued :
          ask' = [ask EXCEPT ![a] = [op |-> op, uid |-> u, token |-> k, at |-> "hash",
                                     said |-> None, failed |-> FALSE]]
    BY <1>3 DEF Asks
  <2>2. [op |-> op, uid |-> u, token |-> k, at |-> "hash",
         said |-> None, failed |-> FALSE] \in Query
    BY DEF Query, CountersOK
  <2>3. /\ ask' \in [Askers -> Query \cup {None}]
        /\ \A b \in Askers \ {a} : ask'[b] = ask[b]
        /\ ask'[a].token \in issued /\ ask'[a].at = "hash"
    BY <2>1, <2>2
  <2> QED
    BY <1>0, <2>3, Observed DEF Asked
<1>4. CASE Answered(a)
  BY <1>4 DEF Answered, Asked
<1>5. CASE VtHash(a) \/ VtFile(a) \/ RsUid(a)
  <2>0. ask[a] \in Query /\ ask[a] # None
    BY <1>5 DEF VtHash, VtFile, RsUid
  <2>1. PICK u \in Uids, k \in Tokens : u = ask[a].uid /\ k = ask[a].token
    BY <2>0 DEF Query
  <2>2. CASE VtHash(a)
    <3>1. PICK o \in Outcomes("hGetAll") :
            /\ ask[a].op = "validate"
            /\ IF Matches(HGet(o, tokens, k), u)
               THEN Moves(a, "answer", TRUE, o) ELSE Moves(a, "file", None, o)
      BY <2>1, <2>2 DEF VtHash
    <3>2. CASE Matches(HGet(o, tokens, k), u)
      <4>1. Valid(u, k)
        BY <2>1, <3>2 DEF Matches, HGet, Valid
      <4>2. Right'[ask[a].op][u][k] = TRUE /\ Moves(a, "answer", TRUE, o)
        BY <1>2, <2>1, <3>1, <3>2, <4>1
      <4> QED
        BY <1>0, <2>0, <2>1, <4>2, AnswerOK
    <3>3. CASE ~Matches(HGet(o, tokens, k), u)
      <4>1. o # "ok" \/ NoLogin(k) \/ ~Valid(u, k)
        BY <2>1, <3>3 DEF Matches, HGet, Valid, FileOnly
      <4>2. o # "ok" \/ NoLogin(k)' \/ Right'["validate"][u][k] = FALSE
        BY <1>1, <1>2, <2>1, <4>1
      <4>3. Moves(a, "file", None, o)
        BY <3>1, <3>3
      <4>4. /\ ask' \in [Askers -> Query \cup {None}]
            /\ \A b \in Askers \ {a} : ask'[b] = ask[b]
            /\ ask'[a].op = "validate" /\ ask'[a].uid = u /\ ask'[a].token = k
            /\ ask'[a].at = "file" /\ (o # "ok" => ask'[a].failed)
        <5>1. None \in BOOLEAN \cup Uids \cup {None} /\ "file" \in {"file", "answer"}
          OBVIOUS
        <5>2. /\ ask' \in [Askers -> Query \cup {None}]
              /\ \A b \in Askers \ {a} : ask'[b] = ask[b]
              /\ ask'[a].op = ask[a].op /\ ask'[a].uid = ask[a].uid
              /\ ask'[a].token = ask[a].token /\ ask'[a].at = "file"
              /\ ask[a].failed \/ o # "ok" => ask'[a].failed
          BY <2>0, <4>3, <5>1, MovesOK
        <5> QED
          BY <2>1, <3>1, <5>2
      <4>5. ask'[a] # None => Right'["validate"][u][k] \in truth'[a]
        BY <1>0, <4>4, Observed
      <4>6. k \in issued'
        BY <1>0, <2>0, <2>1 DEF Asked
      <4> QED
        BY <4>2, <4>4, <4>5, <4>6 DEF Asked, NoLogin
    <3> QED
      BY <3>2, <3>3
  <2>3. CASE VtFile(a)
    <3>1. PICK o \in Outcomes("get") :
            ask[a].at = "file" /\ Moves(a, "answer", Get(o, files, u) = k, o)
      BY <2>1, <2>3 DEF VtFile
    <3>2. ask[a].op = "validate"
      BY <2>0, <2>1, <3>1 DEF Asked
    <3>3. CASE Get(o, files, u) = k
      <4>1. Valid(u, k)
        BY <2>1, <3>3, TokenAssumption DEF Get, Valid
      <4>2. Right'[ask[a].op][u][k] = TRUE /\ Moves(a, "answer", TRUE, o)
        BY <1>2, <2>1, <3>1, <3>2, <3>3, <4>1
      <4> QED
        BY <1>0, <2>0, <2>1, <4>2, AnswerOK
    <3>4. CASE Get(o, files, u) # k
      <4>1. o # "ok" \/ ask[a].failed \/ FALSE \in truth[a] \/ ~Valid(u, k)
        BY <2>0, <2>1, <3>1, <3>4 DEF Asked, Get, Valid, NoLogin
      <4>2. \/ o # "ok" \/ ask[a].failed \/ FALSE \in truth[a]
            \/ Right'[ask[a].op][u][k] = FALSE
        <5>1. ~Valid(u, k) => Right'["validate"][u][k] = FALSE
          BY <1>2
        <5> QED
          BY <3>2, <4>1, <5>1
      <4>3. Moves(a, "answer", FALSE, o)
        BY <3>1, <3>4
      <4> QED
        BY <1>0, <2>0, <2>1, <4>2, <4>3, AnswerOK
    <3> QED
      BY <3>3, <3>4
  <2>4. CASE RsUid(a)
    <3>1. PICK o \in Outcomes("hGet") :
            /\ ask[a].op = "resolve"
            /\ Moves(a, "answer", IF o = "ok" THEN Resolve(k) ELSE None, o)
      BY <2>1, <2>4 DEF RsUid
    <3>2. Resolve(k) \in Uids \cup {None} /\ Right'[ask[a].op][u][k] = Resolve(k)
      BY <1>2, <2>0, <2>1, <3>1 DEF Resolve, StoreOK, Hash
    <3>3. CASE o = "ok"
      BY <1>0, <2>0, <2>1, <3>1, <3>2, <3>3, AnswerOK
    <3>4. CASE o # "ok"
      BY <1>0, <2>0, <2>1, <3>1, <3>4, AnswerOK
    <3> QED
      BY <3>3, <3>4
  <2> QED
    BY <1>5, <2>2, <2>3, <2>4
<1> QED
  BY <1>3, <1>4, <1>5 DEF Queries

LEMMA AskedSame ==
  ASSUME Right' = Right, UNCHANGED <<ask, truth, issued>>,
         \A k : NoLogin(k) => NoLogin(k)',
         NEW a \in Askers, Asked(a)
  PROVE  Asked(a)'
BY DEF Asked, NoLogin

LEMMA AskStep == AskInv /\ [QNext]_qvars => AskInv'
<1> SUFFICES ASSUME AskInv, [QNext]_qvars PROVE AskInv'
  OBVIOUS
<1>1. (TokenInv /\ FileOnly)' /\ ([Next]_vars \/ FaultOnly)
  BY TokenInvAsked, AskIsQuiet, FileOnlyKept DEF AskInv, TokenInv
<1>2. CASE Meanwhile
  <2>1. issued \subseteq issued'
    BY <1>2, IssuedGrows DEF Meanwhile, AskInv, Tick
  <2> QED
    BY <1>1, <1>2, <2>1, AskedKept DEF Meanwhile, AskInv
<1>3. CASE CrashAll
  BY <1>1, <1>3 DEF CrashAll, AskInv, Asked
<1>4. ASSUME NEW a \in Askers, Queries(a) PROVE AskInv'
  <2>1. FaultOnly /\ issued' = issued
    BY <1>4, QueriesQuiet DEF AskInv, TokenInv, FaultOnly, Quiet
  <2>2. Observe
    BY <1>4 DEF Queries
  <2> QED
    BY <1>1, <1>4, <2>1, <2>2, QueryOK, AskedKept DEF AskInv
<1>5. CASE UNCHANGED qvars
  <2>1. /\ Right' = Right /\ UNCHANGED <<ask, truth, issued>>
        /\ \A k : NoLogin(k) => NoLogin(k)'
    BY <1>5 DEF qvars, vars, redis, Right, Valid, Resolve, NoLogin
  <2> QED
    BY <1>1, <2>1, AskedSame DEF AskInv
<1> QED
  BY <1>2, <1>3, <1>4, <1>5 DEF QNext

(* What ValidateToken and ResolveToken answer was true at some moment of   *)
(* their call, although the one reads two keys one after the other and the *)
(* threads issue, refresh and revoke meanwhile: any askers, any threads,   *)
(* any commands that fail and any crashes.  A refusal that was never true  *)
(* comes of a read that failed.                                            *)
THEOREM AnswersAreTrue == QSpec => []AnswersTrue
<1>1. QInit => AskInv
  BY InitOK DEF QInit, Init, FileOnly, AskInv, Asked
<1>2. AskInv => AnswersTrue
  BY DEF AskInv, Asked, AnswersTrue
<1> QED
  BY <1>1, <1>2, AskStep, PTL DEF QSpec
=============================================================================
