------------------------------ MODULE RedisMgr ------------------------------
(***************************************************************************)
(* The Redis client wrapper (src/infra/redis/RedisMgr.cpp) as its callers  *)
(* see it.  Redis executes one command at a time, so a command is one      *)
(* atomic step; between two commands of one caller any other caller may    *)
(* run.  The wrapper turns every sw::redis::Error into a plain result      *)
(* (false, "", 0), so a caller cannot tell a failure from a miss.  A       *)
(* failed write may still have been executed: the client gives up after    *)
(* socket_timeout (3 s) whatever the server did with the command.          *)
(***************************************************************************)
EXTENDS Naturals, FiniteSets

CONSTANTS
  None,       \* the empty answer: a missing key, field or string
  Fallible,   \* the commands that may throw in this instance
  MaxFaults   \* bound: how many commands may throw in one behaviour

VARIABLE faults   \* number of commands that have thrown so far

Commands == {"get", "setEx", "del", "expire", "hSet", "hGet", "hDel",
             "hGetAll", "sAdd", "sRem", "sMembers", "sCard"}

ASSUME RedisAssumption == /\ Fallible \subseteq Commands
                          /\ MaxFaults \in Nat

(* What may become of a command: executed and answered, thrown without     *)
(* being executed, or executed with its answer lost.                       *)
Outcomes(cmd) ==
  {"ok"} \cup (IF cmd \in Fallible /\ faults < MaxFaults
               THEN {"refused", "lost"} ELSE {})

Charge(o) == faults' = IF o = "ok" THEN faults ELSE faults + 1

Executed(o) == o # "refused"

(* Reads. A throw reads as a miss.                                         *)
Get(o, key, i)   == IF o = "ok" /\ key[i] # None THEN key[i].val ELSE None
HGet(o, hash, f) == IF o = "ok" THEN hash[f] ELSE None
HGetAll(o, hash) == IF o = "ok" THEN hash ELSE [f \in DOMAIN hash |-> None]
SMembers(o, set) == IF o = "ok" THEN set ELSE {}
SCard(o, set)    == IF o = "ok" THEN Cardinality(set) ELSE 0

(* Writes: the key family after the command.                               *)
SetEx(o, key, i, v, ttl) ==
  IF Executed(o) THEN [key EXCEPT ![i] = [val |-> v, ttl |-> ttl]] ELSE key
Del(o, key, i)    == IF Executed(o) THEN [key EXCEPT ![i] = None] ELSE key
HSet(o, hash, f, v) == IF Executed(o) THEN [hash EXCEPT ![f] = v] ELSE hash
HDel(o, hash, f)  == IF Executed(o) THEN [hash EXCEPT ![f] = None] ELSE hash
SAdd(o, sets, s, m) ==
  IF Executed(o) THEN [sets EXCEPT ![s] = @ \cup {m}] ELSE sets
SRem(o, sets, s, m) ==
  IF Executed(o) THEN [sets EXCEPT ![s] = @ \ {m}] ELSE sets
DelSet(o, sets, s) == IF Executed(o) THEN [sets EXCEPT ![s] = {}] ELSE sets

(* A key with a time to live, one second later: Redis drops it when its    *)
(* time is up.                                                             *)
AgeKey(k) == IF k = None \/ k.ttl = 1 THEN None ELSE [k EXCEPT !.ttl = @ - 1]
=============================================================================
