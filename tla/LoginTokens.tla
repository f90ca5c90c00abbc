---------------------------- MODULE LoginTokens -----------------------------
(***************************************************************************)
(* The tokens StatusServer issues: the login tokens of                     *)
(* RedisNodeRegistryImpl.cpp (a hash utoken:<token> with the fields uid    *)
(* and token, and the index utoken_<uid> that finds it) and the file       *)
(* tokens of RedisFileTokenRepositoryImpl.cpp, driven by the handlers of   *)
(* StatusServiceImpl.cpp that issue, refresh and delete them.  As in       *)
(* NodeRegistry a step is one Redis command and a TTL counts down.         *)
(***************************************************************************)
EXTENDS RedisMgr, FiniteSets

CONSTANTS
  Threads,     \* gRPC handler threads
  Uids,        \* users (the handlers reject uid <= 0 before any command)
  Tokens,      \* the uuids that can be generated; bound: each at most once
  Ops,         \* the operations that are called in this instance
  TokenTtl,    \* kTokenTtlSeconds
  FileTtl,     \* the 60 s of GetFileServer
  MaxCrashes   \* bound: how often the server may crash

VARIABLES
  tokens,   \* utoken:<token>: its hash, with a TTL that 0 says is not set yet
  index,    \* utoken_<uid>: the login token of a user, with a TTL
  files,    \* the file token of a user, with a TTL
  issued,   \* the tokens generated so far
  crashes,  \* how often the server has crashed
  pc,       \* per thread: the next command of its method
  req,      \* per thread: operation and user it serves
  tok,      \* per thread: the token in its hands
  adrift    \* history: tokens whose index ran out in the middle of a refresh

redis == <<tokens, index, files>>
vars  == <<redis, faults, issued, crashes, pc, req, tok, adrift>>

AllOps == {"login", "clear", "refresh", "file", "unfile"}

Forever == 0

Hash    == [uid : Uids, token : BOOLEAN, ttl : Forever .. TokenTtl]
Index   == [val : Tokens, ttl : 1 .. TokenTtl]
File    == [val : Tokens, ttl : 1 .. FileTtl]

ASSUME TokenAssumption ==
  /\ TokenTtl \in Nat \ {0} /\ FileTtl \in Nat \ {0}
  /\ Ops \subseteq AllOps
  /\ MaxCrashes \in Nat
  /\ None \notin Tokens \cup Uids \cup Hash \cup Index \cup File

Request == [op : AllOps \cup {"none"}, uid : Uids \cup {None}]
NoReq   == [op |-> "none", uid |-> None]

Labels == {"idle", "dtGet", "dtIndex", "dtToken", "pick",
           "svUid", "svToken", "svExpire", "svIndex", "svUndo",
           "rtGet", "rtToken", "rtIndex", "fiSet", "fiDel"}

Idle(t)  == pc[t] = "idle"
AllIdle  == \A t \in Threads : Idle(t)
At(t, l) == pc[t] = l
Go(t, l) == pc' = [pc EXCEPT ![t] = l]

(* validateToken: a login token whose hash names the user, or the user's   *)
(* file token.                                                             *)
Valid(u, k) == \/ tokens[k] # None /\ tokens[k].uid = u /\ tokens[k].token
               \/ files[u] # None /\ files[u].val = k

(* resolveToken: only the uid field of the hash is read.                   *)
Resolve(k) == IF tokens[k] = None THEN None ELSE tokens[k].uid

Init == /\ tokens = [k \in Tokens |-> None]
        /\ index = [u \in Uids |-> None]
        /\ files = [u \in Uids |-> None]
        /\ faults = 0 /\ issued = {} /\ crashes = 0
        /\ pc = [t \in Threads |-> "idle"]
        /\ req = [t \in Threads |-> NoReq]
        /\ tok = [t \in Threads |-> None]
        /\ adrift = {}

-----------------------------------------------------------------------------
Return(t) == /\ Go(t, "idle")
             /\ req' = [req EXCEPT ![t] = NoReq]
             /\ tok' = [tok EXCEPT ![t] = None]

Continue(t, l) == Go(t, l) /\ UNCHANGED <<req, tok>>

Call(t, op, l) == \E u \in Uids :
  /\ Idle(t) /\ op \in Ops
  /\ Go(t, l)
  /\ req' = [req EXCEPT ![t] = [op |-> op, uid |-> u]]
  /\ UNCHANGED <<redis, faults, issued, crashes, tok, adrift>>

(* GetChatServer deletes the user's old token first; Logout and UnbindUser *)
(* delete it through clearUserLoginData.                                   *)
GetChatServer(t)   == Call(t, "login", "dtGet")
ClearLogin(t)      == Call(t, "clear", "dtGet")
RefreshTokenTTL(t) == Call(t, "refresh", "rtGet")
GetFileServer(t)   == Call(t, "file", "fiSet")
DeleteFileToken(t) == Call(t, "unfile", "fiDel")

(* A fresh uuid.                                                           *)
Generate(k) == k \in Tokens \ issued /\ issued' = issued \cup {k}

(* deleteToken: a failed GET and a missing index are the same to it.       *)
AfterDelete(t) == IF req[t].op = "login" THEN Continue(t, "pick") ELSE Return(t)

DtGet(t) == \E o \in Outcomes("get") :
  /\ At(t, "dtGet") /\ Charge(o)
  /\ LET k == Get(o, index, req[t].uid) IN
     IF k = None THEN AfterDelete(t)
     ELSE tok' = [tok EXCEPT ![t] = k] /\ Go(t, "dtIndex") /\ req' = req
  /\ UNCHANGED <<redis, issued, crashes, adrift>>

DtIndex(t) == \E o \in Outcomes("del") :
  /\ At(t, "dtIndex") /\ Charge(o)
  /\ index' = Del(o, index, req[t].uid)
  /\ Continue(t, "dtToken")
  /\ UNCHANGED <<tokens, files, issued, crashes, adrift>>

DtToken(t) == \E o \in Outcomes("del") :
  /\ At(t, "dtToken") /\ Charge(o)
  /\ tokens' = Del(o, tokens, tok[t])
  /\ AfterDelete(t)
  /\ UNCHANGED <<index, files, issued, crashes, adrift>>

(* selectLeastLoadedNode may find no node; else a token is generated.      *)
Pick(t) == /\ At(t, "pick")
           /\ \/ Return(t) /\ UNCHANGED issued
              \/ \E k \in Tokens : Generate(k) /\ Go(t, "svUid") /\ req' = req
                                   /\ tok' = [tok EXCEPT ![t] = k]
           /\ UNCHANGED <<redis, faults, crashes, adrift>>

-----------------------------------------------------------------------------
(* saveToken: HSET uid, HSET token, EXPIRE, then the index; whatever fails *)
(* sends it to the DEL that rolls the hash back.                           *)
OrUndo(t, ok, l) == Continue(t, IF ok THEN l ELSE "svUndo")

SvUid(t) == \E o \in Outcomes("hSet") :
  /\ At(t, "svUid") /\ Charge(o)
  /\ tokens' = HSet(o, tokens, tok[t],
                    [uid |-> req[t].uid, token |-> FALSE, ttl |-> Forever])
  /\ OrUndo(t, o = "ok", "svToken")
  /\ UNCHANGED <<index, files, issued, crashes, adrift>>

(* A slip: a failed HSET of the second field is not rolled back.           *)
SvTokenNoUndo(t) == \E o \in Outcomes("hSet") :
  /\ At(t, "svToken") /\ Charge(o)
  /\ tokens' = IF Executed(o) THEN [tokens EXCEPT ![tok[t]].token = TRUE]
                              ELSE tokens
  /\ IF o = "ok" THEN Continue(t, "svExpire") ELSE Return(t)
  /\ UNCHANGED <<index, files, issued, crashes, adrift>>
SvToken(t) == \E o \in Outcomes("hSet") :
  /\ At(t, "svToken") /\ Charge(o)
  /\ tokens' = IF Executed(o) THEN [tokens EXCEPT ![tok[t]].token = TRUE]
                              ELSE tokens
  /\ OrUndo(t, o = "ok", "svExpire")
  /\ UNCHANGED <<index, files, issued, crashes, adrift>>

(* EXPIRE gives a key that exists a new TTL and does nothing to another.   *)
Expire(o, key, i, ttl) == IF Executed(o) /\ key[i] # None
                          THEN [key EXCEPT ![i].ttl = ttl] ELSE key

(* Slips: a failed EXPIRE is not rolled back; EXPIRE is forgotten.         *)
SvExpireNoUndo(t) == \E o \in Outcomes("expire") :
  /\ At(t, "svExpire") /\ Charge(o)
  /\ tokens' = Expire(o, tokens, tok[t], TokenTtl)
  /\ IF o = "ok" THEN Continue(t, "svIndex") ELSE Return(t)
  /\ UNCHANGED <<index, files, issued, crashes, adrift>>
SvExpireForgotten(t) ==
  /\ At(t, "svExpire") /\ Continue(t, "svIndex")
  /\ UNCHANGED <<redis, faults, issued, crashes, adrift>>

SvExpire(t) == \E o \in Outcomes("expire") :
  /\ At(t, "svExpire") /\ Charge(o)
  /\ tokens' = Expire(o, tokens, tok[t], TokenTtl)
  /\ OrUndo(t, o = "ok" /\ tokens[tok[t]] # None, "svIndex")
  /\ UNCHANGED <<index, files, issued, crashes, adrift>>

SvIndex(t) == \E o \in Outcomes("setEx") :
  /\ At(t, "svIndex") /\ Charge(o)
  /\ index' = SetEx(o, index, req[t].uid, tok[t], TokenTtl)
  /\ IF o = "ok" THEN Return(t) ELSE Continue(t, "svUndo")
  /\ UNCHANGED <<tokens, files, issued, crashes, adrift>>

SvUndo(t) == \E o \in Outcomes("del") :
  /\ At(t, "svUndo") /\ Charge(o)
  /\ tokens' = Del(o, tokens, tok[t])
  /\ Return(t)
  /\ UNCHANGED <<index, files, issued, crashes, adrift>>

-----------------------------------------------------------------------------
(* refreshTokenTTL; its third EXPIRE, of the user's route, is in           *)
(* NodeRegistry.                                                           *)
RtGet(t) == \E o \in Outcomes("get") :
  /\ At(t, "rtGet") /\ Charge(o)
  /\ LET k == Get(o, index, req[t].uid) IN
     IF k = None THEN Return(t)
     ELSE tok' = [tok EXCEPT ![t] = k] /\ Go(t, "rtToken") /\ req' = req
  /\ UNCHANGED <<redis, issued, crashes, adrift>>

(* Slips: the index is not refreshed; the hash is written anew.            *)
RtTokenOnly(t) == \E o \in Outcomes("expire") :
  /\ At(t, "rtToken") /\ Charge(o)
  /\ tokens' = Expire(o, tokens, tok[t], TokenTtl)
  /\ Return(t)
  /\ UNCHANGED <<index, files, issued, crashes, adrift>>
RtTokenRewrites(t) == \E o \in Outcomes("expire") :
  /\ At(t, "rtToken") /\ Charge(o)
  /\ tokens' = HSet(o, tokens, tok[t],
                    [uid |-> req[t].uid, token |-> TRUE, ttl |-> TokenTtl])
  /\ Continue(t, "rtIndex")
  /\ UNCHANGED <<index, files, issued, crashes, adrift>>

RtToken(t) == \E o \in Outcomes("expire") :
  /\ At(t, "rtToken") /\ Charge(o)
  /\ tokens' = Expire(o, tokens, tok[t], TokenTtl)
  /\ Continue(t, "rtIndex")
  /\ UNCHANGED <<index, files, issued, crashes, adrift>>

RtIndex(t) == \E o \in Outcomes("expire") :
  /\ At(t, "rtIndex") /\ Charge(o)
  /\ index' = Expire(o, index, req[t].uid, TokenTtl)
  /\ Return(t)
  /\ UNCHANGED <<tokens, files, issued, crashes, adrift>>

(* A slip: a file token gets the TTL of a login token.                     *)
FiSetLong(t) == \E o \in Outcomes("setEx"), k \in Tokens :
  /\ At(t, "fiSet") /\ Charge(o)
  /\ Generate(k)
  /\ files' = SetEx(o, files, req[t].uid, k, TokenTtl)
  /\ Return(t)
  /\ UNCHANGED <<tokens, index, crashes, adrift>>

(* saveFileToken with a fresh token, and deleteFileToken.                  *)
FiSet(t) == \E o \in Outcomes("setEx"), k \in Tokens :
  /\ At(t, "fiSet") /\ Charge(o)
  /\ Generate(k)
  /\ files' = SetEx(o, files, req[t].uid, k, FileTtl)
  /\ Return(t)
  /\ UNCHANGED <<tokens, index, crashes, adrift>>

FiDel(t) == \E o \in Outcomes("del") :
  /\ At(t, "fiDel") /\ Charge(o)
  /\ files' = Del(o, files, req[t].uid)
  /\ Return(t)
  /\ UNCHANGED <<tokens, index, issued, crashes, adrift>>

(* The FileServer may be gone, or this instance out of tokens.             *)
FiNone(t) == /\ At(t, "fiSet") /\ Return(t)
             /\ UNCHANGED <<redis, faults, issued, crashes, adrift>>

-----------------------------------------------------------------------------
AgeHash(h) == IF h = None \/ h.ttl = Forever THEN h ELSE AgeKey(h)

(* A token is adrift when its index runs out between the two EXPIREs of a  *)
(* refresh: the hash has its new TTL, the index will not get one.          *)
Lapsing(t) == /\ At(t, "rtIndex") /\ index[req[t].uid] # None
              /\ AgeKey(index[req[t].uid]) = None

Tick == /\ tokens' = [k \in Tokens |-> AgeHash(tokens[k])]
        /\ index' = [u \in Uids |-> AgeKey(index[u])]
        /\ files' = [u \in Uids |-> AgeKey(files[u])]
        /\ adrift' = adrift \cup {tok[t] : t \in {s \in Threads : Lapsing(s)}}
        /\ UNCHANGED <<faults, issued, crashes, pc, req, tok>>

Crash == /\ crashes < MaxCrashes /\ crashes' = crashes + 1
         /\ pc' = [t \in Threads |-> "idle"]
         /\ req' = [t \in Threads |-> NoReq]
         /\ tok' = [t \in Threads |-> None]
         /\ UNCHANGED <<redis, faults, issued, adrift>>

Requests(t) == \/ GetChatServer(t) \/ ClearLogin(t) \/ RefreshTokenTTL(t)
               \/ GetFileServer(t) \/ DeleteFileToken(t)

Steps(t) == \/ DtGet(t) \/ DtIndex(t) \/ DtToken(t) \/ Pick(t)
            \/ SvUid(t) \/ SvToken(t) \/ SvExpire(t) \/ SvIndex(t) \/ SvUndo(t)
            \/ RtGet(t) \/ RtToken(t) \/ RtIndex(t)
            \/ FiSet(t) \/ FiDel(t) \/ FiNone(t)

Next == \/ \E t \in Threads : Requests(t) \/ Steps(t)
        \/ Tick \/ Crash

Spec == Init /\ [][Next]_vars

(* A method that runs comes to its end and time passes.                    *)
FairSpec == Spec /\ WF_vars(Tick) /\ \A t \in Threads : WF_vars(Steps(t))

-----------------------------------------------------------------------------
(* Every variable stays in its type.                                       *)
TypeOK == /\ tokens \in [Tokens -> Hash \cup {None}]
          /\ index \in [Uids -> Index \cup {None}]
          /\ files \in [Uids -> File \cup {None}]
          /\ faults \in 0 .. MaxFaults /\ issued \subseteq Tokens
          /\ crashes \in 0 .. MaxCrashes
          /\ pc \in [Threads -> Labels]
          /\ req \in [Threads -> Request]
          /\ tok \in [Threads -> Tokens \cup {None}]
          /\ adrift \subseteq Tokens

(* A login token that is not the one its user's index names, or that       *)
(* outlives the index: a logout will not find it.                          *)
Orphans == {k \in Tokens :
  /\ tokens[k] # None
  /\ LET i == index[tokens[k].uid] IN
     ~(i # None /\ i.val = k /\ tokens[k].ttl \in 1 .. i.ttl)}

(* Between two calls a user has one login token, and a logout finds it     *)
(* (saveToken, deleteToken, refreshTokenTTL); a command that fails, or a   *)
(* crash, whenever it comes, costs no more than one orphan.  Time costs    *)
(* one too, in a single place: refreshTokenTTL renews the hash before the  *)
(* index, which may run out in between (line 499 of                        *)
(* RedisNodeRegistryImpl.cpp); of the other calls none loses a token to    *)
(* the clock, whenever TTLs end.                                           *)
TokenIndexed ==
  AllIdle => Cardinality(Orphans \ adrift) <= faults + crashes

(* A token without a TTL is still being saved, or rolled back: saveToken   *)
(* stores tokens with a short TTL (RedisNodeRegistryImpl.cpp:64).          *)
Saving(t, k) == tok[t] = k /\ pc[t] \in {"svUid", "svToken", "svExpire", "svUndo"}
TokensMortal ==
  \A k \in Tokens : tokens[k] # None /\ tokens[k].ttl = Forever =>
    \E t \in Threads : Saving(t, k)

(* What saveToken does give: as long as the server does not die between    *)
(* two commands, its rollback leaves no token without a TTL behind.        *)
MortalUntilCrash == crashes = 0 => TokensMortal

(* A login token that was saved and then expired, was revoked or rolled    *)
(* back never comes back, whoever refreshes it late.                       *)
NoRevival ==
  [][\A k \in issued : tokens[k] = None /\ (\A t \in Threads : ~Saving(t, k))
                       => tokens'[k] = None]_vars

(* Every token ends: a login token of a user whom nobody refreshes for     *)
(* ever, and any file token, is one day refused for good, unless a crash   *)
(* has left it without a TTL.                                              *)
TokensExpire ==
  \A u \in Uids, k \in Tokens :
    \/ []<>(\E t \in Threads : At(t, "rtToken") /\ tok[t] = k)
    \/ <>[]~Valid(u, k)
    \/ <>[](crashes > 0 /\ tokens[k] # None /\ tokens[k].ttl = Forever)
=============================================================================
