---------------------------- MODULE ProcessProofs ----------------------------
(***************************************************************************)
(* Proofs about Log and Process, for any handlers, workers, modules, chat  *)
(* servers and calls, whatever fails at start and whenever the signal      *)
(* comes.                                                                  *)
(***************************************************************************)
EXTENDS Process, StubCacheProofs, FiniteSetTheorems

LogCall == [at : {"out", "find", "create", "write"},
            mod : Modules \cup {Fallback}, ref : Nat]

(* The log, by itself.                                                     *)
LogOK ==
  /\ inited \in BOOLEAN /\ written \in [Modules -> BOOLEAN]
  /\ loggers \in [Modules -> Nat] /\ made \in [Modules -> Nat]
  /\ call \in [Threads -> LogCall]
  /\ \A t \in Threads : call[t].at # "out" => call[t].mod \in Modules

(* Until the log is shut down, what has lines has a logger.                *)
LinesHaveLogger == \A m \in Modules : written[m] => loggers[m] # 0

(* The labels at which the loggers are there for all to use.               *)
Open == {"pool", "build", "poll", "stop", "wait", "logoff"}
Busy == \E h \in Handlers : handler[h] # "idle"
Carrying == {w \in Workers : worker[w] \in {"call", "log", "report"}}

ProcessOK ==
  /\ main \in Labels /\ stop \in BOOLEAN
  /\ server \in {"none", "up", "null", "closing"}
  /\ handler \in [Handlers -> {"idle", "call", "kick", "clear", "reply"}]
  /\ worker \in [Workers -> {"none", "idle", "call", "log", "report", "done"}]
  /\ queued \in Nat /\ enqueued \in Nat /\ carried \in Nat

(* A call is served by a server that was built, and the main thread waits. *)
Served ==
  /\ Busy => server \in {"up", "closing"} /\ main \in {"poll", "stop", "wait"}
  /\ server = "up" => main \in {"poll", "stop"}
  /\ main \in Early \cup {"wire", "pool", "build"} => server = "none"

(* The pool is made before the server and stopped after it.                *)
Pooled ==
  /\ main \in Early \cup {"wire", "pool", "catch"} =>
       \A w \in Workers : worker[w] = "none"
  /\ main = "build" \/ server # "none" => \A w \in Workers : worker[w] # "none"
  /\ stop => main \in {"join", "over", "crashed"}
  /\ queued > 0 => server \in {"up", "closing"}
  /\ \A w \in Workers : worker[w] = "done" => stop /\ queued = 0
  /\ main = "over" => \A w \in Workers : worker[w] \in {"none", "done"}

(* Who is in a log call; only the main thread ever makes a logger.         *)
Callers ==
  /\ \A t \in Threads : call[t].at = "create" => t = MainThread
  /\ main # "wire" => Out(MainThread)
  /\ \A h \in Handlers : handler[h] = "idle" => Out(h)
  /\ \A w \in Workers : worker[w] = "none" => Out(w)

(* Whoever logs while the log is open finds a logger that stays.           *)
Logged ==
  /\ main \in Early \cup {"wire"} => LinesHaveLogger
  /\ main \in Open => \A m \in Modules : loggers[m] # 0
  /\ main \in Open \cup {"wire"} => \A t \in Threads :
       call[t].at = "write" => ~Destroyed(call[t].mod, call[t].ref)
  /\ inited => main \notin {"config", "init", "return", "unwind", "exit", "join", "over"}

(* What was accepted waits, is being carried out, or was carried out.      *)
Accounted == carried + Cardinality(Carrying) + queued = enqueued

ProcessInv == LogOK /\ ProcessOK /\ Served /\ Pooled /\ Callers /\ Logged

-----------------------------------------------------------------------------
(* The log.  At first nobody logs and no file has lines.                   *)
LEMMA LogInitOK == LogInit => LogOK /\ LinesHaveLogger /\ \A t \in Threads : Out(t)
<1> SUFFICES ASSUME LogInit
             PROVE  LogOK /\ LinesHaveLogger /\ \A t \in Threads : Out(t)
  OBVIOUS
<1>1. NoCall \in LogCall /\ NoCall.at = "out"
  BY DEF NoCall, LogCall, Fallback
<1>2. call = [t \in Threads |-> NoCall]
  BY DEF LogInit
<1>3. /\ call \in [Threads -> LogCall] /\ \A t \in Threads : Out(t)
      /\ \A t \in Threads : call[t].at # "out" => call[t].mod \in Modules
  BY <1>1, <1>2 DEF Out
<1>4. QED BY <1>3 DEF LogInit, LogOK, LinesHaveLogger

(* A call that begins is about to look for its logger.           *)
LEMMA StartOK ==
  ASSUME LogOK, NEW t \in Threads, NEW m \in Modules, Start(t, m)
  PROVE  /\ LogOK' /\ Out(t) /\ call'[t].at = "find"
         /\ \A s \in Threads \ {t} : call'[s] = call[s]
         /\ UNCHANGED <<inited, loggers, made, written>>
BY DEF Start, Moved, Out, LogOK, LogCall, Fallback

(* What a step within a log call does to the call, and to nobody else's.   *)
Looked(t) ==
  /\ call[t].at # "out"
  /\ \A s \in Threads \ {t} : call'[s] = call[s]
  /\ call'[t].at = "create" => inited /\ loggers[call[t].mod] = 0
  /\ call'[t].at = "write" => ~Destroyed(call[t].mod, call[t].ref)'
  /\ inited' = inited
  /\ \A m \in Modules : loggers[m] # 0 => loggers'[m] = loggers[m]
  /\ call[t].at # "create" => loggers' = loggers

(* A step within a log call keeps the log and its lines: a logger is only  *)
(* made for a module that has none, whose file holds nothing yet.          *)
LEMMA LogStepOK ==
  ASSUME LogOK, NEW t \in Threads, LogStep(t)
  PROVE  /\ LogOK' /\ Looked(t)
         /\ LinesHaveLogger => LinesHaveLogger' /\ \A m \in Modules : written[m] => written'[m]
         /\ call[t].at # "create" => \A m \in Modules : written[m] => written'[m]
<1> DEFINE c == call[t]
           Goal == /\ LogOK' /\ Looked(t)
                   /\ LinesHaveLogger => LinesHaveLogger' /\ \A m \in Modules : written[m] => written'[m]
                   /\ c.at # "create" => \A m \in Modules : written[m] => written'[m]
<1>1. ASSUME NEW l \in Nat, call' = [call EXCEPT ![t] = [at |-> "write", mod |-> c.mod, ref |-> l]], c.at # "out"
      PROVE  /\ call'[t].at = "write" /\ call'[t].mod = c.mod /\ call'[t].ref = l
             /\ \A s \in Threads \ {t} : call'[s] = call[s]
             /\ call' \in [Threads -> LogCall]
             /\ \A s \in Threads : call'[s].at # "out" => call'[s].mod \in Modules
  <2>1. [at |-> "write", mod |-> c.mod, ref |-> l] \in LogCall /\ c.mod \in Modules
    BY <1>1 DEF LogOK, LogCall
  <2>2. QED BY <1>1, <2>1 DEF LogOK
<1>2. CASE Find(t)
  <2>1. CASE ~inited
    <3>1. call' = [call EXCEPT ![t] = [at |-> "write", mod |-> c.mod, ref |-> Fallback]]
      BY <1>2, <2>1 DEF Find, Refer, Moved
    <3>2. c.at = "find" /\ UNCHANGED <<inited, loggers, made, written>>
      BY <1>2 DEF Find
    <3>3. QED BY <3>1, <3>2, <1>1 DEF LogOK, Looked, LinesHaveLogger, Destroyed, Fallback
  <2>2. CASE inited /\ loggers[c.mod] # 0
    <3>1. call' = [call EXCEPT ![t] = [at |-> "write", mod |-> c.mod, ref |-> loggers[c.mod]]]
      BY <1>2, <2>2 DEF Find, Refer, Moved
    <3>2. c.at = "find" /\ UNCHANGED <<inited, loggers, made, written>>
      BY <1>2 DEF Find
    <3>3. QED BY <3>1, <3>2, <1>1 DEF LogOK, Looked, LinesHaveLogger, Destroyed
  <2>3. CASE inited /\ loggers[c.mod] = 0
    <3>1. call' = [call EXCEPT ![t] = [at |-> "create", mod |-> c.mod, ref |-> Fallback]]
      BY <1>2, <2>3 DEF Find, Moved
    <3>2. c.at = "find" /\ UNCHANGED <<inited, loggers, made, written>>
      BY <1>2 DEF Find
    <3>3. LogOK'
      BY <3>1, <3>2 DEF LogOK, LogCall, Fallback
    <3>4. Looked(t)
      BY <2>3, <3>1, <3>2 DEF LogOK, Looked
    <3>5. QED BY <3>2, <3>3, <3>4 DEF LinesHaveLogger
  <2>4. QED BY <2>1, <2>2, <2>3
<1>3. CASE Create(t)
  <2>0. c.at = "create" /\ c.mod \in Modules /\ inited' = inited
    BY <1>3 DEF Create, LogOK
  <2>1. CASE loggers[c.mod] # 0
    <3>1. /\ call' = [call EXCEPT ![t] = [at |-> "write", mod |-> c.mod, ref |-> loggers[c.mod]]]
          /\ UNCHANGED <<loggers, made, written>>
      BY <1>3, <2>1 DEF Create, Refer, Moved
    <3>2. QED BY <3>1, <2>0, <1>1 DEF LogOK, Looked, LinesHaveLogger, Destroyed
  <2>2. CASE loggers[c.mod] = 0
    <3>1. /\ call' = [call EXCEPT ![t] = [at |-> "write", mod |-> c.mod, ref |-> made'[c.mod]]]
          /\ made' = [made EXCEPT ![c.mod] = @ + 1]
          /\ loggers' = [loggers EXCEPT ![c.mod] = made'[c.mod]]
          /\ written' = [written EXCEPT ![c.mod] = FALSE]
      BY <1>3, <2>2 DEF Create, Refer, Moved, Make
    <3>2. made'[c.mod] \in Nat /\ made'[c.mod] # 0 /\ made' \in [Modules -> Nat]
      BY <3>1, <2>0 DEF LogOK
    <3>3. loggers' \in [Modules -> Nat] /\ loggers'[c.mod] = made'[c.mod]
          /\ \A m \in Modules \ {c.mod} : loggers'[m] = loggers[m]
      BY <3>1, <3>2, <2>0 DEF LogOK
    <3>4. written' \in [Modules -> BOOLEAN] /\ ~written'[c.mod]
          /\ \A m \in Modules \ {c.mod} : written'[m] = written[m]
      BY <3>1, <2>0 DEF LogOK
    <3>5. LogOK'
      BY <3>1, <3>2, <3>3, <3>4, <2>0, <1>1 DEF LogOK
    <3>6. Looked(t)
      BY <3>1, <3>3, <2>0, <2>2, <1>1 DEF Looked, Destroyed
    <3>7. LinesHaveLogger => LinesHaveLogger' /\ \A m \in Modules : written[m] => written'[m]
      BY <3>2, <3>3, <3>4, <2>2 DEF LinesHaveLogger
    <3>8. QED BY <3>5, <3>6, <3>7, <2>0
  <2>3. QED BY <2>1, <2>2
<1>4. CASE Write(t)
  <2>1. /\ c.at = "write" /\ c.mod \in Modules
        /\ call' = [call EXCEPT ![t] = NoCall]
        /\ UNCHANGED <<inited, loggers, made>>
    BY <1>4 DEF Write, LogOK
  <2>2. written' = IF c.ref = Fallback \/ Destroyed(c.mod, c.ref) THEN written
                   ELSE [written EXCEPT ![c.mod] = TRUE]
    BY <1>4 DEF Write
  <2>3. call'[t].at = "out" /\ \A s \in Threads \ {t} : call'[s] = call[s]
    BY <2>1 DEF LogOK, LogCall, NoCall, Fallback
  <2>4. LogOK'
    BY <2>1, <2>2 DEF LogOK, LogCall, NoCall, Fallback
  <2>5. Looked(t)
    BY <2>1, <2>3 DEF Looked
  <2>6. \A m \in Modules : written[m] => written'[m]
    BY <2>1, <2>2 DEF LogOK
  <2>7. LinesHaveLogger => LinesHaveLogger'
    BY <2>1, <2>2 DEF LinesHaveLogger, LogOK, Destroyed, Fallback
  <2>8. QED BY <2>4, <2>5, <2>6, <2>7
<1>5. QED BY <1>2, <1>3, <1>4 DEF LogStep

(* Threads that log, from the start on, never make a second logger of a    *)
(* module, which would erase the lines of the first (the second lookup of  *)
(* Log::logger).                                                           *)
THEOREM LinesStay == LogSpec => LinesKept
<1>1. LogInit => LogOK /\ LinesHaveLogger
  BY LogInitOK
<1>2. ASSUME LogOK, LinesHaveLogger, [LogNext]_logging
      PROVE  LogOK' /\ LinesHaveLogger' /\ \A m \in Modules : written[m] => written'[m]
  <2>1. CASE Initialise
    BY <1>2, <2>1 DEF Initialise, LogOK, LinesHaveLogger
  <2>2. ASSUME NEW t \in Threads, LogStep(t)
        PROVE  LogOK' /\ LinesHaveLogger' /\ \A m \in Modules : written[m] => written'[m]
    BY <1>2, <2>2, LogStepOK
  <2>3. ASSUME NEW t \in Threads, NEW m \in Modules, Start(t, m)
        PROVE  LogOK' /\ LinesHaveLogger' /\ \A n \in Modules : written[n] => written'[n]
    BY <1>2, <2>3, StartOK DEF LinesHaveLogger
  <2>4. CASE UNCHANGED logging
    BY <1>2, <2>4 DEF logging, LogOK, LinesHaveLogger
  <2>5. QED BY <1>2, <2>1, <2>2, <2>3, <2>4 DEF LogNext
<1>3. LogOK /\ LinesHaveLogger /\ [LogNext]_logging =>
        [\A m \in Modules : written[m] => written'[m]]_written
  BY <1>2
<1>4. QED BY <1>1, <1>2, <1>3, PTL DEF LogSpec, LinesKept

LEMMA ShutdownOK ==
  ASSUME LogOK, Shutdown
  PROVE  LogOK' /\ ~inited' /\ UNCHANGED <<written, call>>
<1>1. inited' = FALSE /\ UNCHANGED <<made, written, call>>
  BY DEF Shutdown, LogOK
<1>2. loggers' = [m \in Modules |-> 0] \/ loggers' = loggers
  BY DEF Shutdown
<1>3. loggers' \in [Modules -> Nat]
  BY <1>2 DEF LogOK
<1>4. QED BY <1>1, <1>3 DEF LogOK

-----------------------------------------------------------------------------
(* The process.                                                            *)
LEMMA InitProcess == Init => ProcessInv
<1> SUFFICES ASSUME Init PROVE ProcessInv
  OBVIOUS
<1>1. LogOK /\ LinesHaveLogger /\ (\A t \in Threads : Out(t)) /\ ~inited
  BY LogInitOK DEF Init, LogInit
<1>2. ProcessOK
  BY DEF Init, ProcessOK, Labels, Early
<1>2a. (\A h \in Handlers : handler[h] = "idle") /\ \A w \in Workers : worker[w] = "none"
  BY DEF Init
<1>2b. Served /\ Pooled
  BY <1>2a DEF Init, Served, Pooled, Busy, Early
<1>3. Callers /\ Logged
  BY <1>1, ProcessAssumption DEF Init, Callers, Logged, Out, Open, Early
<1>4. QED BY <1>1, <1>2, <1>2b, <1>3 DEF ProcessInv

LEMMA MainOK ==
  ASSUME ProcessInv, MainMoves \/ Signal
  PROVE  ProcessInv' /\ \A m \in Modules : written[m] => written'[m]
<1> USE DEF ProcessInv, ProcessOK, Served, Pooled, Callers, Logged,
        LinesHaveLogger, Busy, Out, Destroyed, Open, Early, Ended, Labels,
        Main, Running, rest, service, serving, pool, others, logging
<1>1. CASE LoadConfig
  BY <1>1 DEF LoadConfig, LogOK
<1>2. CASE InitLog
  <2>1. CASE main' = "trap"
    BY <1>2, <2>1 DEF InitLog, Initialise, LogOK
  <2>2. CASE main' = "return"
    BY <1>2, <2>2 DEF InitLog, LogOK
  <2>3. QED BY <1>2, <2>1, <2>2 DEF InitLog
<1>3. CASE Trap
  <2>1. \A t \in Threads : Out(t)
    BY <1>3, ProcessAssumption DEF Trap
  <2>2. QED BY <1>3, <2>1 DEF Trap, LogOK
<1>4. CASE WireLogs
  BY <1>4, StartOK, ProcessAssumption DEF WireLogs
<1>5. CASE Wire
  BY <1>5 DEF Wire, LogOK
<1>6. CASE StartPool
  BY <1>6 DEF StartPool, LogOK
<1>7. CASE Build
  <2>1. server' \in {"up", "null"}
    BY <1>7 DEF Build
  <2>2. main = "build" /\ main' = "poll" /\ UNCHANGED <<serving, pool, others>>
    BY <1>7 DEF Build
  <2>3. QED BY <2>1, <2>2 DEF LogOK
<1>8. CASE Poll
  BY <1>8 DEF Poll, LogOK
<1>9. CASE ShutdownServer
  BY <1>9 DEF ShutdownServer, LogOK
<1>10. CASE Wait
  BY <1>10 DEF Wait, LogOK
<1>11. CASE LogOff
  BY <1>11, ShutdownOK DEF LogOff
<1>12. CASE Unwind
  BY <1>12 DEF Unwind, LogOK
<1>13. CASE Catch
  BY <1>13, ShutdownOK DEF Catch
<1>14. CASE Exit
  BY <1>14 DEF Exit, LogOK
<1>15. CASE Join
  BY <1>15 DEF Join, LogOK
<1>16. CASE Signal
  BY <1>16 DEF Signal, LogOK
<1>17. CASE GiveUp
  BY <1>17 DEF GiveUp, LogOK
<1> QED
  BY <1>1, <1>2, <1>3, <1>4, <1>5, <1>6, <1>7, <1>8, <1>9, <1>10, <1>11, <1>12,
     <1>13, <1>14, <1>15, <1>16, <1>17 DEF MainMoves

(* A log call of any thread.  Only the main thread makes loggers, while it *)
(* wires the service; the others find theirs.                              *)
LEMMA LogsOK ==
  ASSUME ProcessInv, Running, NEW t \in Threads, Logs(t)
  PROVE  ProcessInv' /\ \A m \in Modules : written[m] => written'[m]
<1>1. t \in Workers \/ t \in Handlers \/ t = MainThread
  BY ProcessAssumption
<1>2. call[t].at # "out" => main \notin Early \cup {"pool", "catch", "killed", "crashed"}
  BY <1>1 DEF ProcessInv, Served, Pooled, Callers, Busy, Out, Running, Ended, Early
<1>3. CASE LogStep(t) /\ UNCHANGED <<main, service, serving, pool, cache>>
  <2>1. LogOK' /\ Looked(t)
    BY <1>3, LogStepOK DEF ProcessInv
  <2>2. call[t].at = "create" => main \in {"wire"}
    BY <2>1 DEF Looked, ProcessInv, Callers, Out
  <2>3. /\ LinesHaveLogger => LinesHaveLogger'
        /\ \A m \in Modules : written[m] => written'[m]
    BY <1>3, <2>2, LogStepOK DEF ProcessInv, Logged
  <2>4. ProcessOK' /\ Served' /\ Pooled'
    BY <1>3 DEF ProcessInv, ProcessOK, Served, Pooled, Busy, service, serving, pool
  <2>5. Callers'
    <3>1. call'[t].at = "create" => main = "wire"
      BY <1>2, <2>1 DEF Looked, ProcessInv, ProcessOK, Logged, LogOK, Labels, Open,
         Early, Ended
    <3>2. main = "wire" => t = MainThread
      BY <1>1, <2>1 DEF Looked, ProcessInv, Served, Pooled, Callers, Busy, Out
    <3>3. QED
      BY <1>3, <2>1, <3>1, <3>2, ProcessAssumption DEF ProcessInv, Callers, Looked,
         Out, serving, pool
  <2>6. Logged'
    <3>1. ASSUME main \in Open \cup {"wire"}, NEW s \in Threads, call'[s].at = "write"
          PROVE  ~Destroyed(call[s].mod, call[s].ref)'
      BY <2>1, <3>1 DEF ProcessInv, Logged, Looked, LogOK, Destroyed, Fallback
    <3>2. QED
      BY <1>3, <2>1, <2>3, <3>1 DEF ProcessInv, Logged, Looked
  <2>7. QED BY <2>1, <2>3, <2>4, <2>5, <2>6 DEF ProcessInv
<1>4. CASE /\ call[t].at = "write" /\ Destroyed(call[t].mod, call[t].ref)
           /\ main' = "crashed" /\ UNCHANGED rest
  <2>1. main \notin Open \cup {"wire"}
    BY <1>4 DEF ProcessInv, Logged
  <2>2. LogOK' /\ UNCHANGED <<written, call>>
    BY <1>4 DEF ProcessInv, LogOK, rest, others, logging
  <2>3. QED
    BY <1>4, <2>1, <2>2 DEF ProcessInv, rest, others, logging, service, serving, pool,
       ProcessOK, Served, Pooled, Callers, Logged, Busy, Out, Open, Labels, Ended,
       Early, LinesHaveLogger
<1>5. QED BY <1>3, <1>4 DEF Logs

LEMMA HandlerOK ==
  ASSUME ProcessInv, Running, NEW h \in Handlers,
         Accept(h) \/ Kick(h) \/ Kicks(h) \/ Kicked(h) \/ Serve(h) \/ Reply(h)
  PROVE  ProcessInv' /\ UNCHANGED written
<1> /\ h \in Threads /\ h \notin Workers /\ h # MainThread
    /\ MainThread \in Threads /\ Workers \subseteq Threads /\ Handlers \subseteq Threads
  BY ProcessAssumption
<1> USE DEF ProcessInv, ProcessOK, Served, Pooled, Callers, Logged,
        LinesHaveLogger, Busy, Out, Destroyed, Open, Early, Ended, Labels,
        Serves, service, serving, pool, others, logging
<1>1. CASE Accept(h)
  <2>1. PICK m \in Modules : Start(h, m)
    BY <1>1 DEF Accept
  <2>2. LogOK' /\ Out(h) /\ call'[h].at = "find" /\ UNCHANGED <<inited, loggers, written>>
        /\ \A s \in Threads \ {h} : call'[s] = call[s]
    BY <2>1, StartOK
  <2>3. /\ server = "up" /\ handler[h] = "idle"
        /\ handler' = [handler EXCEPT ![h] = "call"]
        /\ UNCHANGED <<main, service, pool>>
    BY <1>1 DEF Accept
  <2>4. QED BY <2>2, <2>3
<1>2. CASE Kick(h)
  BY <1>2 DEF Kick, LogOK
<1>3. CASE Kicks(h)
  BY <1>3, StartOK, ProcessAssumption DEF Kicks, LogOK
<1>4. CASE Kicked(h)
  BY <1>4 DEF Kicked, LogOK
<1>5. CASE Serve(h)
  BY <1>5 DEF Serve, LogOK
<1>6. CASE Reply(h)
  BY <1>6 DEF Reply, LogOK
<1> QED
  BY <1>1, <1>2, <1>3, <1>4, <1>5, <1>6

LEMMA WorkerOK ==
  ASSUME ProcessInv, Running, NEW w \in Workers,
         Take(w) \/ GateAnswers(w) \/ Report(w) \/ Finish(w) \/ Quit(w)
  PROVE  ProcessInv' /\ UNCHANGED written
<1> /\ w \in Threads /\ w \notin Handlers /\ w # MainThread
    /\ Grpc \in Modules /\ MainThread \in Threads
    /\ Workers \subseteq Threads /\ Handlers \subseteq Threads
  BY ProcessAssumption
<1> USE DEF ProcessInv, ProcessOK, Served, Pooled, Callers, Logged,
        LinesHaveLogger, Busy, Out, Destroyed, Open, Early, Ended, Labels,
        Works, service, serving, pool, others, logging
<1>1. CASE Take(w)
  BY <1>1 DEF Take, LogOK
<1>2. CASE GateAnswers(w)
  <2>1. LogOK' /\ Out(w) /\ call'[w].at = "find" /\ UNCHANGED <<inited, loggers, written>>
        /\ \A s \in Threads \ {w} : call'[s] = call[s]
    BY <1>2, StartOK DEF GateAnswers
  <2>2. /\ worker[w] = "call" /\ worker' = [worker EXCEPT ![w] = "log"]
        /\ UNCHANGED <<main, service, serving, stop, queued, enqueued, carried>>
    BY <1>2 DEF GateAnswers
  <2>3. QED BY <2>1, <2>2
<1>3. CASE Finish(w)
  BY <1>3 DEF Finish, LogOK
<1>4. CASE Quit(w)
  BY <1>4 DEF Quit, LogOK
<1>5. CASE Report(w)
  <2>1. LogOK' /\ Out(w) /\ call'[w].at = "find" /\ UNCHANGED <<inited, loggers, written>>
        /\ \A s \in Threads \ {w} : call'[s] = call[s]
    BY <1>5, StartOK DEF Report
  <2>2. /\ worker[w] = "log" /\ worker' = [worker EXCEPT ![w] = "report"]
        /\ UNCHANGED <<main, service, serving, stop, queued, enqueued, carried>>
    BY <1>5 DEF Report
  <2>3. QED BY <2>1, <2>2
<1> QED
  BY <1>1, <1>2, <1>3, <1>4, <1>5

LEMMA StepProcess ==
  ASSUME ProcessInv, [Next]_vars
  PROVE  ProcessInv' /\ \A m \in Modules : written[m] => written'[m]
<1>1. ASSUME NEW t \in Threads, Running, Logs(t)
      PROVE  ProcessInv' /\ \A m \in Modules : written[m] => written'[m]
  BY <1>1, LogsOK
<1>2. CASE MainStep \/ Signal
  BY <1>1, <1>2, MainOK, ProcessAssumption DEF MainStep
<1>3. ASSUME NEW h \in Handlers, (Running /\ Accept(h)) \/ HandlerStep(h)
      PROVE  ProcessInv' /\ \A m \in Modules : written[m] => written'[m]
  BY <1>1, <1>3, HandlerOK, ProcessAssumption DEF HandlerStep
<1>4. ASSUME NEW w \in Workers, WorkerStep(w) \/ Answer(w)
      PROVE  ProcessInv' /\ \A m \in Modules : written[m] => written'[m]
  BY <1>1, <1>4, WorkerOK, ProcessAssumption DEF WorkerStep, Answer
<1>5. CASE UNCHANGED vars
  BY <1>5 DEF vars, rest, service, serving, pool, others, logging, ProcessInv, LogOK,
     ProcessOK, Served, Pooled, Callers, Logged, Busy, Out, LinesHaveLogger, Destroyed
<1> QED
  BY <1>2, <1>3, <1>4, <1>5 DEF Next

LEMMA ProcessInductive == Spec => []ProcessInv
<1>1. ProcessInv /\ [Next]_vars => ProcessInv'
  BY StepProcess
<1> QED
  BY InitProcess, <1>1, PTL DEF Spec

(* In the whole process, from the wiring to the crash or the end, a log    *)
(* file never loses a line of this process: when the log opens for the     *)
(* handlers and the workers, every logger they use has been made (runServer*)
(* and the cleanup log first), and after the shutdown none is made.        *)
THEOREM ProcessLinesStay == Spec => LinesKept
<1>1. ProcessInv /\ [Next]_vars => [\A m \in Modules : written[m] => written'[m]]_written
  BY StepProcess
<1> QED
  BY ProcessInductive, <1>1, PTL DEF Spec, LinesKept

-----------------------------------------------------------------------------
(* The accounts of the pool: a step that does not take or finish a task    *)
(* carries as many as before.                                              *)
LEMMA CarryingFinite == IsFiniteSet(Carrying) /\ Cardinality(Carrying) \in Nat
<1>1. Carrying \subseteq Workers
  BY DEF Carrying
<1>2. IsFiniteSet(Carrying)
  BY <1>1, FS_Subset, ProcessAssumption
<1>3. QED BY <1>2, FS_CardinalityType

LEMMA AccountWorker ==
  ASSUME ProcessInv, Accounted, NEW w \in Workers,
         Take(w) \/ GateAnswers(w) \/ Report(w) \/ Finish(w) \/ Quit(w)
  PROVE  Accounted'
<1> USE DEF ProcessInv, ProcessOK, Works
<1>1. CASE Take(w)
  <2>1. Carrying' = Carrying \cup {w} /\ w \notin Carrying
    BY <1>1 DEF Take, Carrying
  <2>2. Cardinality(Carrying') = Cardinality(Carrying) + 1
    BY <2>1, CarryingFinite, FS_AddElement
  <2>3. QED
    BY <1>1, <2>2, CarryingFinite DEF Take, Accounted
<1>2. CASE GateAnswers(w) \/ Report(w)
  <2>1. Carrying' = Carrying
    BY <1>2 DEF GateAnswers, Report, Carrying
  <2>2. QED BY <1>2, <2>1 DEF GateAnswers, Report, Accounted
<1>3. CASE Finish(w)
  <2>1. Carrying' = Carrying \ {w} /\ w \in Carrying
    BY <1>3 DEF Finish, Carrying
  <2>2. Cardinality(Carrying') = Cardinality(Carrying) - 1
    BY <2>1, CarryingFinite, FS_RemoveElement
  <2>3. QED
    BY <1>3, <2>2, CarryingFinite DEF Finish, Accounted
<1>4. CASE Quit(w)
  <2>1. Carrying' = Carrying
    BY <1>4 DEF Quit, Carrying
  <2>2. QED BY <1>4, <2>1 DEF Quit, Accounted
<1> QED
  BY <1>1, <1>2, <1>3, <1>4

LEMMA AccountKept ==
  ASSUME ProcessInv, Accounted, [Next]_vars
  PROVE  Accounted'
<1> USE DEF rest, service, serving, pool, others, Main
<1>1. ASSUME UNCHANGED pool PROVE Accounted'
  BY <1>1 DEF Accounted, Carrying
<1>2. CASE StartPool
  <2>1. Carrying' = Carrying
    BY <1>2 DEF StartPool, Carrying, ProcessInv, Pooled
  <2>2. QED BY <1>2, <2>1 DEF StartPool, Accounted
<1>3. CASE Exit
  BY <1>3 DEF Exit, Accounted, Carrying
<1>4. ASSUME NEW h \in Handlers, Serve(h) PROVE Accounted'
  <2>1. Carrying' = Carrying /\ carried' = carried
    BY <1>4 DEF Serve, Carrying
  <2>2. PICK n \in {0, 1} : queued' = queued + n /\ enqueued' = enqueued + n
    <3>1. CASE "GateServer" \in cfg
      BY <1>4, <3>1 DEF Serve
    <3>2. CASE "GateServer" \notin cfg
      BY <1>4, <3>2 DEF Serve
    <3>3. QED BY <3>1, <3>2
  <2>3. Cardinality(Carrying)' = Cardinality(Carrying) /\ Cardinality(Carrying) \in Nat
    BY <2>1, CarryingFinite
  <2>4. carried \in Nat /\ queued \in Nat /\ enqueued \in Nat
    BY DEF ProcessInv, ProcessOK
  <2>5. QED
    BY <2>1, <2>2, <2>3, <2>4 DEF Accounted
<1>5. CASE LoadConfig \/ InitLog \/ GiveUp \/ Trap \/ WireLogs \/ Wire \/ Build \/ Signal
  BY <1>1, <1>5 DEF LoadConfig, InitLog, GiveUp, Trap, WireLogs, Wire, Build, Signal
<1>6. CASE Poll \/ ShutdownServer \/ Wait \/ LogOff \/ Unwind \/ Catch \/ Join
  BY <1>1, <1>6 DEF Poll, ShutdownServer, Wait, LogOff, Unwind, Catch, Join
<1>7. ASSUME NEW t \in Threads, Logs(t) PROVE Accounted'
  BY <1>1, <1>7 DEF Logs
<1>8. ASSUME NEW h \in Handlers, Accept(h) \/ Kick(h) \/ Kicks(h) \/ Kicked(h) \/ Reply(h)
      PROVE  Accounted'
  BY <1>1, <1>8 DEF Accept, Kick, Kicks, Kicked, Reply
<1>9. CASE MainStep \/ Signal
  BY <1>2, <1>3, <1>5, <1>6, <1>7, <1>9, ProcessAssumption DEF MainStep, MainMoves
<1>10. ASSUME NEW h \in Handlers, (Running /\ Accept(h)) \/ HandlerStep(h)
       PROVE  Accounted'
  BY <1>4, <1>7, <1>8, <1>10, ProcessAssumption DEF HandlerStep
<1>11. ASSUME NEW w \in Workers, WorkerStep(w) \/ Answer(w) PROVE Accounted'
  BY <1>7, <1>11, AccountWorker, ProcessAssumption DEF WorkerStep, Answer
<1>12. CASE UNCHANGED vars
  BY <1>1, <1>12 DEF vars
<1> QED
  BY <1>9, <1>10, <1>11, <1>12 DEF Next

LEMMA InitAccount == Init => Accounted
<1> SUFFICES ASSUME Init PROVE Accounted
  OBVIOUS
<1>1. Carrying = {}
  BY DEF Init, Carrying
<1>2. QED BY <1>1, FS_EmptySet DEF Init, Accounted

(* The service outlives the calls of its handlers (Wait): none runs before *)
(* the service is built or after runServer has left its scope.             *)
THEOREM ServiceOutlives == Spec => []ServiceOutlivesCalls
<1>1. ProcessInv => ServiceOutlivesCalls
  BY DEF ProcessInv, Served, Busy, ServiceOutlivesCalls
<1> QED
  BY ProcessInductive, <1>1, PTL

(* A graceful shutdown loses nothing: every notification that was accepted *)
(* has been carried out when the process is over, however many workers and *)
(* calls there are and whenever the signal comes (~ThreadPool).            *)
THEOREM ShutdownIsGraceful == Spec => []NothingDropped
<1>1. ProcessInv /\ Accounted => NothingDropped
  <2> SUFFICES ASSUME ProcessInv, Accounted, main = "over" PROVE carried = enqueued
    BY DEF NothingDropped
  <2>1. \A w \in Workers : worker[w] \in {"none", "done"}
    BY DEF ProcessInv, Pooled
  <2>2. Carrying = {} /\ Cardinality(Carrying) = 0
    BY <2>1, FS_EmptySet DEF Carrying
  <2>3. queued = 0
    <3>1. PICK w \in Workers : worker[w] \in {"none", "done"}
      BY <2>1, ProcessAssumption
    <3>2. CASE worker[w] = "done"
      BY <3>2 DEF ProcessInv, Pooled
    <3>3. CASE worker[w] = "none"
      BY <3>1, <3>3 DEF ProcessInv, ProcessOK, Pooled
    <3>4. QED BY <3>1, <3>2, <3>3
  <2>4. QED BY <2>2, <2>3 DEF Accounted, ProcessInv, ProcessOK
<1>2. Accounted /\ ProcessInv /\ [Next]_vars => Accounted'
  BY AccountKept
<1> QED
  BY ProcessInductive, InitAccount, <1>1, <1>2, PTL DEF Spec

(* The cache, in the process: its steps are those of the cache by itself.  *)
LEMMA CacheInProcess == Spec => []CacheInv
<1>1. Init => CacheInit
  BY DEF Init
<1>2. [Next]_vars => [CacheNext]_cache
  <2> SUFFICES ASSUME [Next]_vars PROVE [CacheNext]_cache
    OBVIOUS
  <2> USE DEF rest, others
  <2>1. ASSUME NEW h \in Handlers, Kick(h) \/ Kicks(h) \/ Kicked(h) PROVE CacheNext
    BY <2>1 DEF Kick, Kicks, Kicked, CacheNext
  <2>2. ASSUME NEW t \in Threads, Logs(t) PROVE UNCHANGED cache
    BY <2>2 DEF Logs
  <2>3. ASSUME NEW h \in Handlers, (Running /\ Accept(h)) \/ HandlerStep(h)
        PROVE  [CacheNext]_cache
    BY <2>1, <2>2, <2>3, ProcessAssumption DEF HandlerStep, Accept, Serve, Reply
  <2>4. ASSUME NEW w \in Workers, WorkerStep(w) \/ Answer(w) PROVE UNCHANGED cache
    BY <2>2, <2>4, ProcessAssumption DEF WorkerStep, Answer, Take, Report, Finish, Quit, GateAnswers
  <2>5. CASE LoadConfig \/ InitLog \/ GiveUp \/ Trap \/ WireLogs \/ Wire \/ StartPool
             \/ Build \/ Signal
    BY <2>5 DEF LoadConfig, InitLog, GiveUp, Trap, WireLogs, Wire, StartPool, Build, Signal
  <2>6. CASE Poll \/ ShutdownServer \/ Wait \/ LogOff \/ Unwind \/ Catch \/ Exit \/ Join
    BY <2>6 DEF Poll, ShutdownServer, Wait, LogOff, Unwind, Catch, Exit, Join
  <2>7. CASE MainStep \/ Signal
    BY <2>2, <2>5, <2>6, <2>7, ProcessAssumption DEF MainStep, MainMoves
  <2> QED
    BY <2>3, <2>4, <2>7 DEF Next, vars
<1>3. CacheInv /\ [Next]_vars => CacheInv'
  BY <1>2, TypesKept, CacheKept DEF CacheInv
<1> QED
  BY <1>1, <1>3, InitCache, PTL DEF Spec

(* So a handler thread connects to each chat server at most once.          *)
THEOREM ProcessConnectsOnce == Spec => []ConnectsOnce
<1>1. CacheInv => ConnectsOnce
  BY DEF CacheInv
<1> QED
  BY CacheInProcess, <1>1, PTL

-----------------------------------------------------------------------------
(* Every call that has not been served yet may still enqueue one           *)
(* notification: what was enqueued is within the calls that came.          *)
Unserved == {h \in Handlers : handler[h] \in {"call", "kick", "clear"}}
CallsOK  == /\ cfg \subseteq Sections /\ quit \in BOOLEAN
            /\ calls \in 0 .. MaxCalls
Owed     == IsFiniteSet(Unserved) /\ enqueued + Cardinality(Unserved) <= calls

LEMMA InitOwed == Init => CallsOK /\ Owed
<1> SUFFICES ASSUME Init PROVE CallsOK /\ Owed
  OBVIOUS
<1>1. Unserved = {}
  BY DEF Init, Unserved
<1>2. CallsOK
  <2>1. cfg \subseteq Sections /\ quit \in BOOLEAN /\ calls = 0
    BY DEF Init
  <2>2. MaxCalls \in Nat
    BY ProcessAssumption
  <2>3. QED BY <2>1, <2>2 DEF CallsOK
<1>3. Cardinality(Unserved) = 0 /\ IsFiniteSet(Unserved)
  BY <1>1, FS_EmptySet
<1>4. QED BY <1>2, <1>3 DEF Init, Owed

(* A handler's step: a call that comes owes one, a call served owes none.  *)
LEMMA HandlerOwes ==
  ASSUME ProcessInv, CallsOK, Owed, NEW h \in Handlers,
         Accept(h) \/ Kick(h) \/ Kicks(h) \/ Kicked(h) \/ Serve(h) \/ Reply(h)
  PROVE  CallsOK' /\ Owed'
<1> USE DEF Serves, service, serving, pool
<1>0. /\ handler \in [Handlers -> {"idle", "call", "kick", "clear", "reply"}]
      /\ enqueued \in Nat /\ calls \in Nat /\ MaxCalls \in Nat
      /\ IsFiniteSet(Unserved) /\ Cardinality(Unserved) \in Nat
      /\ enqueued + Cardinality(Unserved) <= calls
  BY FS_CardinalityType, ProcessAssumption DEF ProcessInv, ProcessOK, CallsOK, Owed
<1>1. CASE Accept(h)
  <2>1. /\ handler[h] = "idle" /\ handler' = [handler EXCEPT ![h] = "call"]
        /\ calls < MaxCalls /\ calls' = calls + 1
        /\ UNCHANGED <<service, pool>>
    BY <1>1 DEF Accept
  <2>2. Unserved' = Unserved \cup {h} /\ h \notin Unserved
    BY <1>0, <2>1 DEF Unserved
  <2>3. IsFiniteSet(Unserved') /\ Cardinality(Unserved') = Cardinality(Unserved) + 1
    BY <1>0, <2>2, FS_AddElement
  <2>4. QED BY <1>0, <2>1, <2>3 DEF CallsOK, Owed
<1>2. CASE Serve(h)
  <2>1. /\ handler[h] \in {"call", "clear"} /\ handler' = [handler EXCEPT ![h] = "reply"]
        /\ UNCHANGED <<service, calls>>
    BY <1>2 DEF Serve
  <2>2. PICK n \in {0, 1} : enqueued' = enqueued + n
    <3>1. CASE "GateServer" \in cfg
      BY <1>2, <3>1 DEF Serve
    <3>2. CASE "GateServer" \notin cfg
      BY <1>2, <3>2 DEF Serve
    <3>3. QED BY <3>1, <3>2
  <2>3. Unserved' = Unserved \ {h} /\ h \in Unserved
    BY <1>0, <2>1 DEF Unserved
  <2>4. IsFiniteSet(Unserved') /\ Cardinality(Unserved') = Cardinality(Unserved) - 1
    BY <1>0, <2>3, FS_RemoveElement
  <2>5. QED BY <1>0, <2>1, <2>2, <2>4 DEF CallsOK, Owed
<1>3. CASE Kick(h) \/ Kicks(h) \/ Kicked(h) \/ Reply(h)
  <2>1. UNCHANGED <<service, calls, enqueued>>
    BY <1>3 DEF Kick, Kicks, Kicked, Reply
  <2>2. Unserved' = Unserved
    BY <1>0, <1>3 DEF Kick, Kicks, Kicked, Reply, Unserved
  <2>3. Cardinality(Unserved)' = Cardinality(Unserved)
    BY <2>2
  <2>4. QED BY <1>0, <2>1, <2>2, <2>3 DEF CallsOK, Owed
<1> QED
  BY <1>1, <1>2, <1>3

LEMMA OwedKept ==
  ASSUME ProcessInv, CallsOK, Owed, [Next]_vars
  PROVE  CallsOK' /\ Owed'
<1> USE DEF rest, service, serving, pool, others, Main
<1>1. ASSUME UNCHANGED <<handler, calls, enqueued>> PROVE Owed'
  BY <1>1 DEF Owed, Unserved
<1>2. ASSUME UNCHANGED <<service, calls>> PROVE CallsOK'
  BY <1>2 DEF CallsOK
<1>3. CASE LoadConfig
  BY <1>1, <1>3 DEF LoadConfig, CallsOK
<1>4. CASE Signal
  BY <1>1, <1>4 DEF Signal, CallsOK
<1>5. CASE Build \/ ShutdownServer
  BY <1>1, <1>5 DEF Build, ShutdownServer, CallsOK
<1>6. CASE InitLog \/ GiveUp \/ Trap \/ WireLogs \/ Wire \/ StartPool
  BY <1>1, <1>2, <1>6 DEF InitLog, GiveUp, Trap, WireLogs, Wire, StartPool
<1>7. CASE Poll \/ Wait \/ LogOff \/ Unwind \/ Catch \/ Exit \/ Join
  BY <1>1, <1>2, <1>7 DEF Poll, Wait, LogOff, Unwind, Catch, Exit, Join
<1>8. ASSUME NEW t \in Threads, Logs(t) PROVE CallsOK' /\ Owed'
  BY <1>1, <1>2, <1>8 DEF Logs
<1>9. CASE MainStep \/ Signal
  BY <1>3, <1>4, <1>5, <1>6, <1>7, <1>8, <1>9, ProcessAssumption DEF MainStep, MainMoves
<1>10. ASSUME NEW h \in Handlers, (Running /\ Accept(h)) \/ HandlerStep(h)
       PROVE  CallsOK' /\ Owed'
  BY <1>8, <1>10, HandlerOwes, ProcessAssumption DEF HandlerStep
<1>11. ASSUME NEW w \in Workers, WorkerStep(w) \/ Answer(w) PROVE CallsOK' /\ Owed'
  BY <1>1, <1>2, <1>8, <1>11, ProcessAssumption
     DEF WorkerStep, Answer, Take, Report, Finish, Quit, GateAnswers
<1>12. CASE UNCHANGED vars
  BY <1>1, <1>2, <1>12 DEF vars
<1> QED
  BY <1>9, <1>10, <1>11, <1>12 DEF Next

(* Every variable of the process has its type; no more notifications are   *)
(* enqueued than calls came, and none is carried out twice.                *)
THEOREM ProcessTypeCorrect == Spec => []TypeOK
<1>1. ProcessInv /\ Accounted /\ CallsOK /\ Owed /\ CacheInv => TypeOK
  <2> SUFFICES ASSUME ProcessInv, Accounted, CallsOK, Owed, CacheInv PROVE TypeOK
    OBVIOUS
  <2>1. Cardinality(Unserved) \in Nat /\ Cardinality(Carrying) \in Nat
    BY FS_CardinalityType, CarryingFinite DEF Owed
  <2>2. enqueued \in 0 .. calls
    BY <2>1 DEF Owed, CallsOK, ProcessInv, ProcessOK
  <2>3. queued \in 0 .. enqueued /\ carried \in 0 .. enqueued - queued
    BY <2>1 DEF Accounted, ProcessInv, ProcessOK
  <2>4. CacheTypeOK
    BY DEF CacheInv
  <2> QED
    BY <2>2, <2>3, <2>4 DEF TypeOK, CallsOK, ProcessInv, ProcessOK, LogOK
<1>2. Accounted /\ ProcessInv /\ [Next]_vars => Accounted'
  BY AccountKept
<1>3. CallsOK /\ Owed /\ ProcessInv /\ [Next]_vars => CallsOK' /\ Owed'
  BY OwedKept
<1> QED
  BY ProcessInductive, CacheInProcess, InitAccount, InitOwed, <1>1, <1>2, <1>3, PTL DEF Spec
=============================================================================
