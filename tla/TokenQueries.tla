---------------------------- MODULE TokenQueries -----------------------------
(***************************************************************************)
(* validateToken and resolveToken (RedisNodeRegistryImpl.cpp), asked while *)
(* the threads of LoginTokens issue, refresh and revoke.  validateToken    *)
(* reads two keys one after the other, so that what it answers puts two    *)
(* moments together.                                                       *)
(***************************************************************************)
EXTENDS LoginTokens

CONSTANT Askers   \* the threads that serve ValidateToken and ResolveToken

VARIABLES
  ask,    \* per asker: its query, None between two
  truth   \* per asker, not in the code: the right answers of all its moments

qvars == <<vars, ask, truth>>

QInit == /\ Init
         /\ ask = [a \in Askers |-> None]
         /\ truth = [a \in Askers |-> {}]

-----------------------------------------------------------------------------
(* What is true of the tokens at this moment.                              *)
Right == [validate |-> [u \in Uids |-> [k \in Tokens |-> Valid(u, k)]],
          resolve  |-> [u \in Uids |-> [k \in Tokens |-> Resolve(k)]]]
Observe ==
  truth' = [a \in Askers |->
    LET q == ask'[a] IN
    IF q = None THEN {} ELSE truth[a] \cup {Right'[q.op][q.uid][q.token]}]

Quiet == UNCHANGED <<redis, issued, crashes, pc, req, tok, adrift>>

(* ValidateToken and ResolveToken with a uid > 0 and a token.              *)
Asks(a) == \E op \in {"validate", "resolve"}, u \in Uids, k \in issued :
  /\ ask[a] = None
  /\ ask' = [ask EXCEPT ![a] = [op |-> op, uid |-> u, token |-> k, at |-> "hash",
                                said |-> None, failed |-> FALSE]]
  /\ Quiet /\ UNCHANGED faults

Moves(a, l, said, o) ==
  ask' = [ask EXCEPT ![a].at = l, ![a].said = said, ![a].failed = @ \/ o # "ok"]

(* A slip: the token field of the hash is not compared.                    *)
MatchesUid(h, u) == h # None /\ h.uid = u
(* Both fields are there and are those of the query.                       *)
Matches(h, u) == h # None /\ h.uid = u /\ h.token

(* HGETALL of the login token; unless it matches, the file token is next.  *)
VtHash(a) == \E o \in Outcomes("hGetAll") :
  /\ ask[a] # None /\ ask[a].op = "validate" /\ ask[a].at = "hash" /\ Charge(o)
  /\ IF Matches(HGet(o, tokens, ask[a].token), ask[a].uid)
     THEN Moves(a, "answer", TRUE, o) ELSE Moves(a, "file", None, o)
  /\ Quiet

(* GET of the file token.                                                  *)
VtFile(a) == \E o \in Outcomes("get") :
  /\ ask[a] # None /\ ask[a].at = "file" /\ Charge(o)
  /\ Moves(a, "answer", Get(o, files, ask[a].uid) = ask[a].token, o)
  /\ Quiet

(* resolveToken: HGET of the uid field.                                    *)
RsUid(a) == \E o \in Outcomes("hGet") :
  /\ ask[a] # None /\ ask[a].op = "resolve" /\ ask[a].at = "hash" /\ Charge(o)
  /\ Moves(a, "answer", IF o = "ok" THEN Resolve(ask[a].token) ELSE None, o)
  /\ Quiet

Answered(a) == /\ ask[a] # None /\ ask[a].at = "answer"
               /\ ask' = [ask EXCEPT ![a] = None]
               /\ Quiet /\ UNCHANGED faults

(* What the threads do meanwhile; a crash ends the queries too.            *)
Meanwhile  == /\ Tick \/ \E t \in Threads : Requests(t) \/ Steps(t)
              /\ UNCHANGED ask /\ Observe
CrashAll   == Crash /\ ask' = [a \in Askers |-> None] /\ Observe
Queries(a) == (Asks(a) \/ VtHash(a) \/ VtFile(a) \/ RsUid(a) \/ Answered(a)) /\ Observe

QNext == Meanwhile \/ CrashAll \/ \E a \in Askers : Queries(a)
QSpec == QInit /\ [][QNext]_qvars

-----------------------------------------------------------------------------
(* What ValidateToken and ResolveToken answer was true at some moment of   *)
(* their call: they accept no token that was not valid, and refuse none    *)
(* that was valid all the while, login token or file token, unless a read  *)
(* failed.                                                                 *)
AnswersTrue ==
  \A a \in Askers : ask[a] # None /\ ask[a].at = "answer" =>
    \/ ask[a].said \in truth[a]
    \/ ask[a].said \in {FALSE, None} /\ ask[a].failed

(* The two queries agree: a token that ResolveToken knows, and that nobody *)
(* is saving or rolling back, ValidateToken accepts for the user it names. *)
(* resolveToken reads one field of the hash, validateToken both, and they  *)
(* are written by two commands; one of these may fail, but a crash between *)
(* them leaves a token that only ResolveToken knows.                       *)
QueriesAgree ==
  \A k \in Tokens :
    crashes = 0 /\ Resolve(k) # None /\ (\A t \in Threads : ~Saving(t, k))
      => Valid(Resolve(k), k)
=============================================================================
