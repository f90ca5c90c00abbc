----------------------------- MODULE ThreadPool -----------------------------
(***************************************************************************)
(* src/infra/base/ThreadPool.cpp: workers that wait on one condition       *)
(* variable for a queue of tasks.  Everything done under _mutex is one     *)
(* step, and so is the atomic release of it in wait; a notification is a   *)
(* step of its own, after the unlock.                                      *)
(***************************************************************************)
EXTENDS Naturals, Sequences, FiniteSets

CONSTANTS
  None,
  Workers,   \* the threads of the pool
  Clients,   \* the threads that enqueue: gRPC handlers
  MaxTasks,  \* bound: how many tasks are enqueued; a task is its number
  MayHang    \* the tasks that may never return: GateNotifyClientImpl's
             \* calls have no deadline

ASSUME PoolAssumption == /\ MaxTasks \in Nat /\ MayHang \subseteq 1 .. MaxTasks
                         /\ IsFiniteSet(Workers) /\ Workers # {}

VARIABLES
  tasks,      \* _tasks
  stop,       \* _stop
  worker,     \* per worker: where it is in its loop
  task,       \* per worker: the task it runs
  client,     \* per client: idle, or between its push and its notify_one
  destroyer,  \* the destructor: idle, notify, join or done
  submitted,  \* how many tasks were enqueued
  finished    \* the tasks that returned

vars == <<tasks, stop, worker, task, client, destroyer, submitted, finished>>

Waiting == {w \in Workers : worker[w] = "wait"}

Init == /\ tasks = <<>> /\ stop = FALSE
        /\ worker = [w \in Workers |-> "loop"]
        /\ task = [w \in Workers |-> None]
        /\ client = [c \in Clients |-> "idle"]
        /\ destroyer = "idle"
        /\ submitted = 0 /\ finished = {}

WorkerGoes(w, from, to) == worker[w] = from /\ worker' = [worker EXCEPT ![w] = to]

-----------------------------------------------------------------------------
(* The worker's loop.                                                      *)
Wait(w) == /\ ~stop /\ tasks = <<>>
           /\ WorkerGoes(w, "loop", "wait")
           /\ UNCHANGED <<tasks, stop, task, client, destroyer, submitted, finished>>

(* wait may return for no reason; the predicate is evaluated again.        *)
Spurious(w) == /\ WorkerGoes(w, "wait", "loop")
               /\ UNCHANGED <<tasks, stop, task, client, destroyer, submitted, finished>>

(* A slip: the task is not popped.                                         *)
TakeNoPop(w) ==
  /\ tasks # <<>> /\ WorkerGoes(w, "loop", "run")
  /\ task' = [task EXCEPT ![w] = Head(tasks)]
  /\ UNCHANGED <<tasks, stop, client, destroyer, submitted, finished>>

Take(w) ==
  /\ tasks # <<>> /\ WorkerGoes(w, "loop", "run")
  /\ task' = [task EXCEPT ![w] = Head(tasks)]
  /\ tasks' = Tail(tasks)
  /\ UNCHANGED <<stop, client, destroyer, submitted, finished>>

Run(w) ==
  /\ WorkerGoes(w, "run", "loop")
  /\ finished' = finished \cup {task[w]}
  /\ task' = [task EXCEPT ![w] = None]
  /\ UNCHANGED <<tasks, stop, client, destroyer, submitted>>

Quit(w) == /\ stop /\ tasks = <<>>
           /\ WorkerGoes(w, "loop", "done")
           /\ UNCHANGED <<tasks, stop, task, client, destroyer, submitted, finished>>

-----------------------------------------------------------------------------
(* enqueue.  Nobody enqueues once the destructor runs: the process gets    *)
(* there after g_server->Wait() (StatusServer.cpp:103).                    *)
Push(c) == /\ client[c] = "idle" /\ destroyer = "idle" /\ submitted < MaxTasks
           /\ submitted' = submitted + 1
           /\ tasks' = Append(tasks, submitted')
           /\ client' = [client EXCEPT ![c] = "notify"]
           /\ UNCHANGED <<stop, worker, task, destroyer, finished>>

(* A slip: waiting workers are only told of a task that finds others       *)
(* queued before it.                                                       *)
NotifyOneIfMany(c) ==
  /\ client[c] = "notify" /\ client' = [client EXCEPT ![c] = "idle"]
  /\ IF Waiting = {} \/ Len(tasks) < 2 THEN UNCHANGED worker
     ELSE \E w \in Waiting : WorkerGoes(w, "wait", "loop")
  /\ UNCHANGED <<tasks, stop, task, destroyer, submitted, finished>>

NotifyOne(c) ==
  /\ client[c] = "notify" /\ client' = [client EXCEPT ![c] = "idle"]
  /\ IF Waiting = {} THEN UNCHANGED worker
     ELSE \E w \in Waiting : WorkerGoes(w, "wait", "loop")
  /\ UNCHANGED <<tasks, stop, task, destroyer, submitted, finished>>

-----------------------------------------------------------------------------
(* The destructor.                                                         *)
Stop == /\ destroyer = "idle" /\ \A c \in Clients : client[c] = "idle"
        /\ stop' = TRUE /\ destroyer' = "notify"
        /\ UNCHANGED <<tasks, worker, task, client, submitted, finished>>

(* A slip: notify_one.                                                     *)
NotifyOnlyOne == /\ destroyer = "notify" /\ destroyer' = "join"
                 /\ IF Waiting = {} THEN UNCHANGED worker
                    ELSE \E w \in Waiting : WorkerGoes(w, "wait", "loop")
                 /\ UNCHANGED <<tasks, stop, task, client, submitted, finished>>

NotifyAll == /\ destroyer = "notify" /\ destroyer' = "join"
             /\ worker' = [w \in Workers |-> IF w \in Waiting THEN "loop"
                                                              ELSE worker[w]]
             /\ UNCHANGED <<tasks, stop, task, client, submitted, finished>>

Join == /\ destroyer = "join" /\ \A w \in Workers : worker[w] = "done"
        /\ destroyer' = "done"
        /\ UNCHANGED <<tasks, stop, worker, task, client, submitted, finished>>

Steps(w) == Wait(w) \/ Take(w) \/ Run(w) \/ Quit(w)

Next == \/ \E w \in Workers : Steps(w) \/ Spurious(w)
        \/ \E c \in Clients : Push(c) \/ NotifyOne(c)
        \/ Stop \/ NotifyAll \/ Join

(* Every thread that can run does so in the end, in a task that may hang   *)
(* excepted; nothing makes anybody enqueue, destroy the pool or wake a     *)
(* worker without a notification.                                          *)
Spec == /\ Init /\ [][Next]_vars
        /\ \A w \in Workers : WF_vars(task[w] \notin MayHang /\ Steps(w))
        /\ \A c \in Clients : WF_vars(NotifyOne(c))
        /\ WF_vars(NotifyAll) /\ WF_vars(Join)

-----------------------------------------------------------------------------
(* The pool is a task queue: every task enqueued starts once, in order, on *)
(* one of the workers, and the destructor returns only when all are over.  *)
Queue == INSTANCE TaskQueue WITH
  Width   <- Cardinality(Workers),
  started <- submitted - Len(tasks),
  closed  <- destroyer = "done"
QueueSpec == Queue!Spec

(* What keeps a task from being forgotten although enqueue notifies after  *)
(* it unlocks: as long as a worker sleeps, each queued task has a notify   *)
(* still to come or an awake worker of its own, and once the destructor    *)
(* joins nobody sleeps.                                                    *)
Notifying == {c \in Clients : client[c] = "notify"}
Looping   == {w \in Workers : worker[w] = "loop"}
WakeUpsSuffice ==
  /\ Waiting # {} => Len(tasks) <= Cardinality(Notifying) + Cardinality(Looping)
  /\ destroyer \in {"join", "done"} => Waiting = {}

(* No wake-up is lost: as long as one worker is not stuck, every task that *)
(* returns at all comes to its end.                                        *)
EveryTaskEnds ==
  \A i \in (1 .. MaxTasks) \ MayHang : i <= submitted ~> i \in finished

(* The destructor returns unless a task never does.                        *)
DestructorReturns ==
  \/ stop ~> destroyer = "done"
  \/ \E w \in Workers : <>[](worker[w] = "run")
=============================================================================
