------------------------------ MODULE Process -------------------------------
(***************************************************************************)
(* The life of the server process (src/app/StatusServer.cpp): the main     *)
(* thread reads the configuration, opens the log, wires the service, and   *)
(* serves until a signal; gRPC's handler threads, which notify chat servers*)
(* through the cache of StubCache, and the workers of the client pool run  *)
(* beside it, and all of them log (Log).  When main returns, the process   *)
(* still destroys its singletons, the pool last made first.                *)
(***************************************************************************)
EXTENDS Log, StubCache, FiniteSets

CONSTANTS
  Workers,   \* the workers of the gRPC client pool
  MayLack,   \* the sections that config.json may lack
  MayFail,   \* what else may fail at start: "dir", "port"
  MayHang,   \* workers whose call to the gate may never return
  MaxCalls   \* bound: how many calls come

VARIABLES
  main,      \* where the main thread is
  cfg,       \* the sections that ConfigMgr found
  quit,      \* g_quit
  server,    \* g_server
  handler,   \* per handler: where its call is
  calls,     \* how many calls came
  worker,    \* per worker
  stop,      \* _stop of the pool
  queued,    \* how many tasks wait in the pool
  enqueued,  \* how many were ever accepted
  carried    \* how many were carried out

service == <<cfg, quit, server>>
serving == <<handler, calls>>
pool    == <<worker, stop, queued, enqueued, carried>>
others  == <<logging, cache>>
rest    == <<service, serving, pool, others>>
vars    == <<main, rest>>

Sections == {"Log", "Redis", "StatusServer", "GateServer"}
Grpc == "grpc"
MainThread == "main"

ASSUME ProcessAssumption ==
  /\ Threads = Handlers \cup Workers \cup {MainThread}
  /\ Handlers \cap Workers = {} /\ MainThread \notin Handlers \cup Workers
  /\ IsFiniteSet(Workers) /\ Workers # {}
  /\ Grpc \in Modules
  /\ MayLack \subseteq Sections /\ MayFail \subseteq {"dir", "port"}
  /\ MayHang \subseteq Workers /\ MaxCalls \in Nat

(* Labels of the main thread: those at which its signal handlers are not   *)
(* installed, and those at which the process is no more.                   *)
Early  == {"config", "init", "return", "trap"}
Ended  == {"over", "killed", "crashed"}
Labels == Early \cup Ended \cup
  {"wire", "pool", "build", "poll", "stop", "wait", "logoff", "unwind",
   "catch", "exit", "join"}

Running == main \notin Ended
Main(from, to) == main = from /\ main' = to

Init == /\ LogInit /\ CacheInit
        /\ main = "config" /\ cfg = {} /\ quit = FALSE /\ server = "none"
        /\ handler = [h \in Handlers |-> "idle"] /\ calls = 0
        /\ worker = [w \in Workers |-> "none"]
        /\ stop = FALSE /\ queued = 0 /\ enqueued = 0 /\ carried = 0

-----------------------------------------------------------------------------
(* Starting.  The ConfigMgr of a file that is missing or does not parse    *)
(* has no section at all; a key that is not there reads as "".             *)
LoadConfig == /\ Main("config", "init")
              /\ cfg' \in {Sections \ lack : lack \in SUBSET MayLack}
              /\ UNCHANGED <<quit, server, serving, pool, others>>

(* Log::init; without a directory for it runServer returns, before there   *)
(* are signal handlers or a pool.                                          *)
InitLog == \/ /\ Main("init", "trap") /\ Initialise
              /\ UNCHANGED <<service, serving, pool, cache>>
           \/ /\ "dir" \in MayFail
              /\ Main("init", "return") /\ UNCHANGED rest
GiveUp == Main("return", "over") /\ UNCHANGED rest

Trap == Main("trap", "wire") /\ UNCHANGED rest

(* While it wires the service and its constructor cleans up, the main      *)
(* thread logs for every module that a handler or a worker logs for.       *)
WireLogs == \E m \in Modules :
  /\ main = "wire" /\ loggers[m] = 0 /\ Start(MainThread, m)
  /\ UNCHANGED <<main, service, serving, pool, cache>>
(* A slip: the cleanup is put off, and nothing is logged at start.         *)
WireQuietly == Main("wire", "pool") /\ UNCHANGED rest
(* RedisMgr is made for the cleanup: std::stoi throws without a port.      *)
Wire == /\ Out(MainThread) /\ \A m \in Modules : loggers[m] # 0
        /\ Main("wire", IF "Redis" \in cfg THEN "pool" ELSE "catch")
        /\ UNCHANGED rest

StartPool == /\ Main("pool", "build")
             /\ worker' = [w \in Workers |-> "idle"]
             /\ UNCHANGED <<service, serving, stop, queued, enqueued, carried, others>>

(* BuildAndStart: no server without an address, or if the port is taken.   *)
Build == /\ Main("build", "poll")
         /\ server' \in (IF "StatusServer" \in cfg THEN {"up"} ELSE {"null"})
                          \cup (IF "port" \in MayFail THEN {"null"} ELSE {})
         /\ UNCHANGED <<cfg, quit, serving, pool, others>>

(* SIGINT or SIGTERM; without the handler it is fatal.                     *)
Signal == /\ Running
          /\ IF main \in Early THEN main' = "killed" /\ UNCHANGED quit
             ELSE ~quit /\ quit' = TRUE /\ UNCHANGED main
          /\ UNCHANGED <<cfg, server, serving, pool, others>>

-----------------------------------------------------------------------------
(* Stopping.  Shutdown is called on a server only, Wait also on nullptr.   *)
Poll == quit /\ Main("poll", "stop") /\ UNCHANGED rest

ShutdownServer == /\ Main("stop", "wait")
                  /\ server' = IF server = "up" THEN "closing" ELSE server
                  /\ UNCHANGED <<cfg, quit, serving, pool, others>>

(* A slip: nobody waits for the calls in flight.                           *)
WaitNot == /\ Main("wait", IF server = "null" THEN "crashed" ELSE "logoff")
           /\ UNCHANGED rest
Wait == /\ server # "null" => \A h \in Handlers : handler[h] = "idle"
        /\ Main("wait", IF server = "null" THEN "crashed" ELSE "logoff")
        /\ UNCHANGED rest

LogOff == /\ Main("logoff", "unwind") /\ Shutdown
          /\ UNCHANGED <<service, serving, pool, cache>>
Unwind == Main("unwind", "exit") /\ UNCHANGED rest

(* main's handler of exceptions.                                           *)
Catch == /\ Main("catch", "exit") /\ Shutdown
         /\ UNCHANGED <<service, serving, pool, cache>>

(* The singletons are destroyed: ~ThreadPool sets _stop and joins.         *)
(* A slip: _stop is not set.                                               *)
ExitNoStop == Main("exit", "join") /\ UNCHANGED rest
Exit == /\ Main("exit", "join") /\ stop' = TRUE
        /\ UNCHANGED <<service, serving, worker, queued, enqueued, carried, others>>
Join == /\ \A w \in Workers : worker[w] \in {"none", "done"}
        /\ Main("join", "over") /\ UNCHANGED rest

MainMoves == \/ LoadConfig \/ InitLog \/ GiveUp \/ Trap \/ WireLogs \/ Wire \/ StartPool
             \/ Build \/ Poll \/ ShutdownServer \/ Wait \/ LogOff \/ Unwind
             \/ Catch \/ Exit \/ Join

-----------------------------------------------------------------------------
(* What a thread does within a log call; to write through a reference to a *)
(* logger that is destroyed may be the end of the process.                 *)
Logs(t) ==
  \/ LogStep(t) /\ UNCHANGED <<main, service, serving, pool, cache>>
  \/ /\ call[t].at = "write" /\ Destroyed(call[t].mod, call[t].ref)
     /\ main' = "crashed" /\ UNCHANGED rest

(* A call: it logs, kicks an old session of its user if there is one, and  *)
(* enqueues a notification if there is a client for it.                    *)
Serves(h, from, to) ==
  /\ handler[h] = from /\ Out(h) /\ handler' = [handler EXCEPT ![h] = to]
Accept(h) == \E m \in Modules :
  /\ server = "up" /\ calls < MaxCalls /\ calls' = calls + 1
  /\ Serves(h, "idle", "call") /\ Start(h, m)
  /\ UNCHANGED <<main, service, pool, cache>>
Kick(h) == /\ Serves(h, "call", "kick") /\ NotifyKickUser(h)
           /\ UNCHANGED <<main, service, calls, pool, logging>>
Kicks(h) ==
  /\ handler[h] = "kick" /\ Out(h)
  /\ \/ (Look(h) \/ Connect(h)) /\ UNCHANGED logging
     \/ (Keep(h) \/ KickUser(h)) /\ Start(h, Grpc)
  /\ UNCHANGED <<main, service, serving, pool>>
Kicked(h) == /\ Serves(h, "kick", "clear") /\ Return(h)
             /\ UNCHANGED <<main, service, calls, pool, logging>>
Serve(h) ==
  /\ Serves(h, "call", "reply") \/ Serves(h, "clear", "reply")
  /\ \E n \in IF "GateServer" \in cfg THEN {0, 1} ELSE {0} :
       queued' = queued + n /\ enqueued' = enqueued + n
  /\ UNCHANGED <<main, service, calls, worker, stop, carried, others>>
Reply(h) == /\ Serves(h, "reply", "idle")
            /\ UNCHANGED <<main, service, calls, pool, others>>

(* A task: it calls the gate; the client logs how that went, then the      *)
(* task does.                                                              *)
Works(w, from, to) == worker[w] = from /\ worker' = [worker EXCEPT ![w] = to]
(* A slip: the task that is taken stays in the queue.                      *)
TakeCopy(w) ==
  /\ queued > 0 /\ Works(w, "idle", "call")
  /\ UNCHANGED <<main, service, serving, stop, queued, enqueued, carried, others>>
Take(w) ==
  /\ queued > 0 /\ queued' = queued - 1
  /\ Works(w, "idle", "call")
  /\ UNCHANGED <<main, service, serving, stop, enqueued, carried, others>>
GateAnswers(w) ==
  /\ Works(w, "call", "log") /\ Start(w, Grpc)
  /\ UNCHANGED <<main, service, serving, stop, queued, enqueued, carried, cache>>
Report(w) ==
  /\ Out(w) /\ Works(w, "log", "report") /\ Start(w, Grpc)
  /\ UNCHANGED <<main, service, serving, stop, queued, enqueued, carried, cache>>
Finish(w) ==
  /\ Out(w) /\ Works(w, "report", "idle") /\ carried' = carried + 1
  /\ UNCHANGED <<main, service, serving, stop, queued, enqueued, others>>

(* A slip: a worker that sees _stop quits at once.                         *)
QuitAtOnce(w) ==
  /\ stop /\ Works(w, "idle", "done")
  /\ UNCHANGED <<main, service, serving, stop, queued, enqueued, carried, others>>
Quit(w) ==
  /\ stop /\ queued = 0 /\ Works(w, "idle", "done")
  /\ UNCHANGED <<main, service, serving, stop, queued, enqueued, carried, others>>

MainStep       == MainMoves \/ (Running /\ Logs(MainThread))
HandlerStep(h) == Running /\ (Kick(h) \/ Kicks(h) \/ Kicked(h) \/ Serve(h) \/ Reply(h) \/ Logs(h))
WorkerStep(w)  == Running /\ (Take(w) \/ Report(w) \/ Finish(w) \/ Quit(w) \/ Logs(w))
Answer(w)      == Running /\ GateAnswers(w)

Next == \/ MainStep \/ Signal
        \/ \E h \in Handlers : (Running /\ Accept(h)) \/ HandlerStep(h)
        \/ \E w \in Workers : WorkerStep(w) \/ Answer(w)

(* Threads that can run do; nobody is promised a signal, a call, or an     *)
(* answer of the gate to a worker that may hang.                           *)
Spec == /\ Init /\ [][Next]_vars
        /\ WF_vars(MainStep)
        /\ \A h \in Handlers : WF_vars(HandlerStep(h))
        /\ \A w \in Workers : WF_vars(WorkerStep(w))
        /\ \A w \in Workers \ MayHang : WF_vars(Answer(w))

-----------------------------------------------------------------------------
(* Every variable stays in its type.                                       *)
TypeOK == /\ CacheTypeOK
          /\ main \in Labels /\ cfg \subseteq Sections
          /\ quit \in BOOLEAN /\ stop \in BOOLEAN /\ inited \in BOOLEAN
          /\ server \in {"none", "up", "null", "closing"}
          /\ handler \in [Handlers -> {"idle", "call", "kick", "clear", "reply"}]
          /\ worker \in [Workers -> {"none", "idle", "call", "log", "report", "done"}]
          /\ calls \in 0 .. MaxCalls /\ enqueued \in 0 .. calls
          /\ queued \in 0 .. enqueued /\ carried \in 0 .. enqueued - queued

(* The handlers run on the service object of runServer's stack: none is in *)
(* a call before it is built or after it is gone.                          *)
ServiceOutlivesCalls ==
  (\E h \in Handlers : handler[h] # "idle") => main \in {"poll", "stop", "wait"}

(* A notification that was accepted is not dropped by the shutdown: when   *)
(* the process has ended by itself, each was carried out.                  *)
NothingDropped == main = "over" => carried = enqueued

(* After the signal the process ends, though handlers and workers are busy *)
(* then, unless a call to the gate never returns.                          *)
SignalEnds == \/ quit ~> main \in Ended
              \/ \E w \in Workers : <>[](worker[w] = "call")

(* "Clean up the resources gracefully" (StatusServer.cpp:94): the process  *)
(* does not crash on its way out, neither in a worker that writes through  *)
(* a logger that is gone, nor in Wait on a server that never started.      *)
EndsCleanly == main # "crashed"
=============================================================================
