-------------------------------- MODULE Log ---------------------------------
(***************************************************************************)
(* src/infra/log/Log.cpp: one logger per module, made when it is first     *)
(* used.  A log call first finds its logger, in one critical section of    *)
(* _mutex or in two, and then writes through a bare reference, outside.    *)
(* Making a logger opens its file anew and erases what was in it.          *)
(***************************************************************************)
EXTENDS Naturals

CONSTANTS
  Threads,  \* who logs
  Modules   \* what they log for: LogModule

VARIABLES
  inited,   \* _inited
  loggers,  \* _loggers: module -> the number of its logger, 0 if none
  made,     \* module -> how many loggers were made for it
  written,  \* module -> does its file hold lines of this process?
  call      \* per thread: its log call

logging == <<inited, loggers, made, written, call>>

(* The logger that writes nowhere (log_not_initialized) has number 0.      *)
Fallback == 0

NoCall  == [at |-> "out", mod |-> Fallback, ref |-> Fallback]
LogInit == /\ inited = FALSE
           /\ loggers = [m \in Modules |-> 0]
           /\ made = [m \in Modules |-> 0]
           /\ written = [m \in Modules |-> FALSE]
           /\ call = [t \in Threads |-> NoCall]

Out(t)     == call[t].at = "out"
Destroyed(m, l) == l # Fallback /\ loggers[m] # l

-----------------------------------------------------------------------------
(* Log::init with a directory that can be made.                            *)
Initialise == inited' = TRUE /\ UNCHANGED <<loggers, made, written, call>>

(* Log::shutdown: the loggers are destroyed, whoever refers to them.       *)
Shutdown ==
  /\ IF inited THEN /\ inited' = FALSE
                    /\ loggers' = [m \in Modules |-> 0]
               ELSE UNCHANGED <<inited, loggers>>
  /\ UNCHANGED <<made, written, call>>

Moved(t, to, m, l) == call' = [call EXCEPT ![t] = [at |-> to, mod |-> m, ref |-> l]]

(* Log::info and its like begin.                                           *)
Start(t, m) == /\ Out(t) /\ Moved(t, "find", m, Fallback)
               /\ UNCHANGED <<inited, loggers, made, written>>

Refer(t, l) == Moved(t, "write", call[t].mod, l)

(* logger(): the first critical section.                                   *)
Find(t) ==
  LET l == loggers[call[t].mod] IN
  /\ call[t].at = "find"
  /\ IF ~inited THEN Refer(t, Fallback)
     ELSE IF l # 0 THEN Refer(t, l)
     ELSE Moved(t, "create", call[t].mod, Fallback)
  /\ UNCHANGED <<inited, loggers, made, written>>

(* createModuleLogger: basic_file_sink_mt with truncate = true.            *)
Make(m) == /\ made' = [made EXCEPT ![m] = @ + 1]
           /\ loggers' = [loggers EXCEPT ![m] = made'[m]]
           /\ written' = [written EXCEPT ![m] = FALSE]

(* The second critical section looks again, but not at _inited.            *)
Create(t) ==
  LET m == call[t].mod IN
  /\ call[t].at = "create"
  /\ IF loggers[m] # 0
     THEN Refer(t, loggers[m]) /\ UNCHANGED <<loggers, made, written>>
     ELSE Make(m) /\ Refer(t, made'[m])
  /\ UNCHANGED inited

(* The line goes to the file of the logger, unless that is the fallback or *)
(* destroyed by now: then the behaviour is undefined, and at best the line *)
(* is lost.                                                                *)
Write(t) ==
  LET m == call[t].mod l == call[t].ref IN
  /\ call[t].at = "write"
  /\ written' = IF l = Fallback \/ Destroyed(m, l) THEN written
                ELSE [written EXCEPT ![m] = TRUE]
  /\ call' = [call EXCEPT ![t] = NoCall]
  /\ UNCHANGED <<inited, loggers, made>>

LogStep(t) == Find(t) \/ Create(t) \/ Write(t)

(* Threads that log while the log is open.                                 *)
LogNext == Initialise \/ \E t \in Threads :
             LogStep(t) \/ \E m \in Modules : Start(t, m)
LogSpec == LogInit /\ [][LogNext]_logging

-----------------------------------------------------------------------------
(* No line of this process is erased from a file again: two threads that   *)
(* both miss the logger of a module do not both make one.                  *)
LinesKept == [][\A m \in Modules : written[m] => written'[m]]_written
=============================================================================
