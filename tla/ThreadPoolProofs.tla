-------------------------- MODULE ThreadPoolProofs --------------------------
(***************************************************************************)
(* That a pool of any number of workers, fed by any number of clients, is  *)
(* the TaskQueue.                                                          *)
(***************************************************************************)
EXTENDS ThreadPool, FiniteSetTheorems, SequenceTheorems, TLAPS

Started == submitted - Len(tasks)
Running == {w \in Workers : worker[w] = "run"}

PoolTypeOK ==
  /\ tasks \in Seq(Nat) /\ stop \in BOOLEAN /\ submitted \in 0 .. MaxTasks
  /\ worker \in [Workers -> {"loop", "wait", "run", "done"}]
  /\ task \in [Workers -> Nat \cup {None}]
  /\ client \in [Clients -> {"idle", "notify"}]
  /\ destroyer \in {"idle", "notify", "join", "done"}

(* The queue holds the last tasks that were submitted, in their order.     *)
QueueInOrder == /\ Len(tasks) <= submitted
                /\ \A i \in 1 .. Len(tasks) : tasks[i] = Started + i

(* A task that was started is finished or run by exactly one worker.       *)
EachOnce ==
  /\ finished \subseteq 1 .. Started
  /\ \A w \in Running : task[w] \in (1 .. Started) \ finished
  /\ \A v, w \in Running : task[v] = task[w] => v = w
  /\ \A i \in (1 .. Started) \ finished : \E w \in Running : task[w] = i

(* A worker quits only after the stop, and with nothing queued.            *)
Drained == /\ stop <=> destroyer # "idle"
           /\ \A w \in Workers : worker[w] = "done" => stop /\ tasks = <<>>

PoolInv == PoolTypeOK /\ QueueInOrder /\ EachOnce /\ Drained

-----------------------------------------------------------------------------
(* What the steps that start no task and end none leave alone.             *)
Bystands == /\ UNCHANGED <<tasks, task, submitted, finished>>
            /\ \A w \in Workers : worker'[w] = "run" <=> worker[w] = "run"

LEMMA BystandsOK ==
  ASSUME PoolInv, Bystands PROVE QueueInOrder' /\ EachOnce'
<1>1. Started' = Started /\ Running' = Running
  BY DEF Bystands, Started, Running
<1> QED
  BY <1>1 DEF PoolInv, QueueInOrder, EachOnce, Bystands

LEMMA InitOK == Init => PoolInv
<1> SUFFICES ASSUME Init PROVE PoolInv
  OBVIOUS
<1>1. tasks \in Seq(Nat) /\ Len(tasks) = 0 /\ submitted = 0
  BY EmptySeq DEF Init
<1>2. /\ stop \in BOOLEAN /\ worker = [w \in Workers |-> "loop"]
      /\ task = [w \in Workers |-> None] /\ client = [c \in Clients |-> "idle"]
      /\ destroyer = "idle" /\ finished = {}
  BY DEF Init
<1>3. PoolTypeOK
  BY <1>1, <1>2, PoolAssumption DEF PoolTypeOK
<1>4. Drained
  <2>1. stop <=> destroyer # "idle"
    BY DEF Init
  <2>2. \A w \in Workers : worker[w] # "done"
    BY <1>2
  <2> QED
    BY <2>1, <2>2 DEF Drained
<1>5. Started = 0 /\ Running = {}
  BY <1>1, <1>2 DEF Started, Running
<1>6. QueueInOrder /\ EachOnce
  BY <1>1, <1>2, <1>5 DEF QueueInOrder, EachOnce
<1> QED
  BY <1>3, <1>4, <1>6 DEF PoolInv

LEMMA TakeOK ==
  ASSUME PoolInv, NEW w \in Workers, Take(w)
  PROVE  /\ PoolInv' /\ Started' = Started + 1 /\ Started < submitted
         /\ UNCHANGED <<submitted, finished, destroyer>>
<1> USE PoolAssumption DEF PoolInv, PoolTypeOK
<1>1. /\ tasks # <<>> /\ worker[w] = "loop"
      /\ worker' = [worker EXCEPT ![w] = "run"]
      /\ task' = [task EXCEPT ![w] = Head(tasks)] /\ tasks' = Tail(tasks)
      /\ UNCHANGED <<stop, client, destroyer, submitted, finished>>
  BY DEF Take, WorkerGoes
<1>2. /\ Len(tasks) \in Nat \ {0} /\ Len(tasks') = Len(tasks) - 1
      /\ Head(tasks) = tasks[1] /\ tasks[1] = Started + 1
      /\ \A i \in 1 .. Len(tasks') : tasks'[i] = tasks[i + 1]
  BY <1>1 DEF QueueInOrder
<1>3. Started \in Nat /\ Started' = Started + 1 /\ Started < submitted
  BY <1>1, <1>2 DEF Started, QueueInOrder
<1>4. PoolTypeOK'
  BY <1>1, <1>2, <1>3
<1>5. QueueInOrder'
  <2>1. ASSUME NEW i \in 1 .. Len(tasks') PROVE tasks'[i] = Started' + i
    <3>1. i + 1 \in 1 .. Len(tasks)
      BY <1>2
    <3> QED
      BY <1>2, <1>3, <3>1 DEF QueueInOrder
  <2> QED
    BY <1>1, <1>2, <2>1 DEF QueueInOrder
<1>6. Running' = Running \cup {w} /\ w \notin Running /\ task'[w] = Started + 1
      /\ \A v \in Running : task'[v] = task[v]
  BY <1>1, <1>2 DEF Running
<1>7. EachOnce'
  <2>1. finished' \subseteq 1 .. Started'
    BY <1>1, <1>3 DEF EachOnce
  <2>2. \A v \in Running' : task'[v] \in (1 .. Started') \ finished'
    BY <1>1, <1>3, <1>6 DEF EachOnce
  <2>3. \A v, x \in Running' : task'[v] = task'[x] => v = x
    BY <1>3, <1>6 DEF EachOnce
  <2>4. ASSUME NEW i \in (1 .. Started') \ finished'
        PROVE  \E v \in Running' : task'[v] = i
    <3>1. CASE i = Started + 1
      BY <1>6, <3>1
    <3>2. CASE i # Started + 1
      <4>1. i \in (1 .. Started) \ finished
        BY <1>1, <1>3, <3>2
      <4>2. PICK v \in Running : task[v] = i
        BY <4>1 DEF EachOnce
      <4> QED
        BY <1>6, <4>2
    <3> QED
      BY <3>1, <3>2
  <2> QED
    BY <2>1, <2>2, <2>3, <2>4 DEF EachOnce
<1>8. Drained'
  BY <1>1 DEF Drained
<1> QED
  BY <1>1, <1>3, <1>4, <1>5, <1>7, <1>8

LEMMA RunOK ==
  ASSUME PoolInv, NEW w \in Workers, Run(w)
  PROVE  /\ PoolInv' /\ task[w] \in (1 .. Started) \ finished
         /\ finished' = finished \cup {task[w]}
         /\ UNCHANGED <<submitted, tasks, destroyer>>
<1> USE PoolAssumption DEF PoolInv, PoolTypeOK
<1>1. /\ worker[w] = "run" /\ worker' = [worker EXCEPT ![w] = "loop"]
      /\ finished' = finished \cup {task[w]} /\ task' = [task EXCEPT ![w] = None]
      /\ UNCHANGED <<tasks, stop, client, destroyer, submitted>>
  BY DEF Run, WorkerGoes
<1>2. /\ Running' = Running \ {w} /\ w \in Running /\ Started' = Started
      /\ \A v \in Running' : task'[v] = task[v]
  BY <1>1 DEF Running, Started
<1>3. task[w] \in (1 .. Started) \ finished
  BY <1>2 DEF EachOnce
<1>4. PoolTypeOK' /\ QueueInOrder' /\ Drained'
  BY <1>1, <1>2 DEF QueueInOrder, Drained
<1>5. EachOnce'
  <2>1. finished' \subseteq 1 .. Started'
    BY <1>1, <1>2, <1>3 DEF EachOnce
  <2>2. \A v \in Running' : task'[v] \in (1 .. Started') \ finished'
    BY <1>1, <1>2 DEF EachOnce
  <2>3. \A v, x \in Running' : task'[v] = task'[x] => v = x
    BY <1>2 DEF EachOnce
  <2>4. ASSUME NEW i \in (1 .. Started') \ finished'
        PROVE  \E v \in Running' : task'[v] = i
    <3>1. PICK v \in Running : task[v] = i
      BY <1>1, <1>2 DEF EachOnce
    <3> QED
      BY <1>1, <1>2, <3>1
  <2> QED
    BY <2>1, <2>2, <2>3, <2>4 DEF EachOnce
<1> QED
  BY <1>1, <1>3, <1>4, <1>5

LEMMA PushOK ==
  ASSUME PoolInv, NEW c \in Clients, Push(c)
  PROVE  /\ PoolInv' /\ submitted < MaxTasks /\ submitted' = submitted + 1
         /\ destroyer = "idle" /\ Started' = Started
         /\ UNCHANGED <<finished, destroyer>>
<1> USE PoolAssumption DEF PoolInv, PoolTypeOK
<1>1. /\ destroyer = "idle" /\ submitted < MaxTasks /\ submitted' = submitted + 1
      /\ tasks' = Append(tasks, submitted + 1)
      /\ client' = [client EXCEPT ![c] = "notify"]
      /\ UNCHANGED <<stop, worker, task, destroyer, finished>>
  BY DEF Push
<1>2. /\ Len(tasks') = Len(tasks) + 1 /\ tasks' \in Seq(Nat)
      /\ \A i \in 1 .. Len(tasks) : tasks'[i] = tasks[i]
      /\ tasks'[Len(tasks) + 1] = submitted + 1
  BY <1>1
<1>3. Started' = Started /\ Running' = Running /\ Started \in Nat
  BY <1>1, <1>2 DEF Started, Running, QueueInOrder
<1>4. PoolTypeOK' /\ Drained'
  BY <1>1, <1>2 DEF Drained
<1>5. QueueInOrder'
  <2>1. ASSUME NEW i \in 1 .. Len(tasks') PROVE tasks'[i] = Started' + i
    <3>1. CASE i \in 1 .. Len(tasks)
      BY <1>2, <1>3, <3>1 DEF QueueInOrder
    <3>2. CASE i = Len(tasks) + 1
      BY <1>2, <1>3, <3>2 DEF Started
    <3> QED
      BY <1>2, <3>1, <3>2
  <2> QED
    BY <1>1, <1>2, <2>1 DEF QueueInOrder
<1>6. EachOnce'
  BY <1>1, <1>3 DEF EachOnce
<1> QED
  BY <1>1, <1>3, <1>4, <1>5, <1>6

LEMMA OthersOK ==
  ASSUME PoolInv,
         \/ \E w \in Workers : Wait(w) \/ Spurious(w) \/ Quit(w)
         \/ \E c \in Clients : NotifyOne(c)
         \/ Stop \/ NotifyAll \/ Join \/ UNCHANGED vars
  PROVE  PoolInv' /\ UNCHANGED <<tasks, submitted, finished>>
<1> USE DEF PoolInv, PoolTypeOK
<1>1. Bystands
  BY DEF Bystands, Wait, Spurious, Quit, NotifyOne, Stop, NotifyAll, Join, vars,
         WorkerGoes, Waiting
<1>2. PoolTypeOK'
  BY DEF Wait, Spurious, Quit, NotifyOne, Stop, NotifyAll, Join, vars, WorkerGoes,
         Waiting
<1>3. Drained'
  BY DEF Drained, Wait, Spurious, Quit, NotifyOne, Stop, NotifyAll, Join, vars,
         WorkerGoes, Waiting
<1> QED
  BY <1>1, <1>2, <1>3, BystandsOK DEF Bystands

LEMMA PoolInductive == Spec => []PoolInv
<1>1. PoolInv /\ [Next]_vars => PoolInv'
  BY TakeOK, RunOK, PushOK, OthersOK DEF Next, Steps
<1> QED
  BY InitOK, <1>1, PTL DEF Spec

-----------------------------------------------------------------------------
(* As long as a worker is free, fewer tasks run than there are workers.    *)
LEMMA RoomLeft ==
  ASSUME PoolInv, NEW w \in Workers, worker[w] # "run"
  PROVE  Cardinality((1 .. Started) \ finished) < Cardinality(Workers)
<1> DEFINE tasksRun == (1 .. Started) \ finished
           f == [v \in Running |-> task[v]]
<1>1. Running \in SUBSET (Workers \ {w})
  BY DEF Running
<1>2. /\ IsFiniteSet(Workers \ {w})
      /\ Cardinality(Workers \ {w}) = Cardinality(Workers) - 1
  BY PoolAssumption, FS_RemoveElement
<1>3. IsFiniteSet(Running) /\ Cardinality(Running) <= Cardinality(Workers \ {w})
  BY <1>1, <1>2, FS_Subset
<1>4. f \in Surjection(Running, tasksRun)
  BY DEF Surjection, PoolInv, EachOnce
<1>5. IsFiniteSet(tasksRun) /\ Cardinality(tasksRun) <= Cardinality(Running)
  BY <1>3, <1>4, FS_Surjection
<1>6. /\ Cardinality(Workers) \in Nat /\ Cardinality(Running) \in Nat
      /\ Cardinality(tasksRun) \in Nat
  BY <1>3, <1>5, PoolAssumption, FS_CardinalityType
<1> HIDE DEF tasksRun
<1>7. Cardinality(tasksRun) < Cardinality(Workers)
  BY <1>2, <1>3, <1>5, <1>6
<1> QED
  BY <1>7 DEF tasksRun

LEMMA StepQueues ==
  ASSUME PoolInv, [Next]_vars
  PROVE  [Queue!Next]_<<submitted, Started, finished, destroyer = "done">>
<1>1. ASSUME NEW w \in Workers, Take(w) PROVE Queue!Start
  <2>1. worker[w] # "run"
    BY <1>1 DEF Take, WorkerGoes
  <2>2. Cardinality((1 .. Started) \ finished) < Cardinality(Workers)
    BY <2>1, RoomLeft
  <2>3. /\ Started < submitted /\ Started' = Started + 1
        /\ UNCHANGED <<submitted, finished, destroyer>>
    BY <1>1, TakeOK
  <2>4. (destroyer = "done")' = (destroyer = "done")
    BY <2>3
  <2>5. Cardinality((1 .. Started) \ finished) = Queue!Cardinality(Queue!Running)
    BY DEF Queue!Cardinality, Cardinality, Queue!Running, Started
  <2> QED
    BY <2>2, <2>3, <2>4, <2>5 DEF Queue!Start, Started
<1>2. ASSUME NEW w \in Workers, Run(w) PROVE Queue!Finish
  BY <1>2, RunOK DEF Queue!Finish, Queue!Running, Started
<1>3. ASSUME NEW c \in Clients, Push(c) PROVE Queue!Submit
  BY <1>3, PushOK DEF Queue!Submit, Started
<1>4. ASSUME Join PROVE Queue!Close
  <2>1. tasks = <<>> /\ Running = {}
    BY <1>4, PoolAssumption DEF Join, PoolInv, Drained, Running
  <2>2. Started = submitted
    BY <2>1, EmptySeq DEF PoolInv, PoolTypeOK, Started
  <2>3. finished = 1 .. submitted
    BY <2>1, <2>2 DEF PoolInv, EachOnce
  <2>4. (destroyer = "done")' = TRUE
    BY <1>4 DEF Join
  <2>5. UNCHANGED <<submitted, submitted - Len(tasks), finished>>
    BY <1>4 DEF Join
  <2> QED
    BY <2>3, <2>4, <2>5 DEF Queue!Close
<1>5. CASE \/ \E w \in Workers : Wait(w) \/ Spurious(w) \/ Quit(w)
           \/ \E c \in Clients : NotifyOne(c)
           \/ Stop \/ NotifyAll \/ UNCHANGED vars
  <2>1. UNCHANGED <<submitted, tasks, finished>>
    BY <1>5, OthersOK
  <2>2. (destroyer = "done")' = (destroyer = "done")
    BY <1>5 DEF Wait, Spurious, Quit, NotifyOne, Stop, NotifyAll, vars
  <2> QED
    BY <2>1, <2>2 DEF Started
<1> QED
  BY <1>1, <1>2, <1>3, <1>4, <1>5 DEF Next, Steps, Queue!Next

(* The pool implements TaskQueue, for any number of workers, clients and   *)
(* tasks, with spurious wake-ups and tasks that never return: tasks start  *)
(* once, in order, at most one per worker, and the destructor returns only *)
(* when every accepted task is over (ThreadPool.cpp).                      *)
THEOREM PoolIsQueue == Spec => QueueSpec
<1>1. Init => Queue!Init
  <2> SUFFICES ASSUME Init PROVE Queue!Init
    OBVIOUS
  <2>1. submitted = 0 /\ finished = {} /\ Len(tasks) = 0
    BY EmptySeq DEF Init
  <2>2. (destroyer = "done") = FALSE
    BY DEF Init
  <2>3. submitted - Len(tasks) = 0
    BY <2>1
  <2> QED
    BY <2>1, <2>2, <2>3 DEF Queue!Init
<1>2. PoolInv /\ [Next]_vars =>
        [Queue!Next]_<<submitted, submitted - Len(tasks), finished, destroyer = "done">>
  BY StepQueues DEF Started
<1> QED
  BY <1>1, <1>2, PoolInductive, PTL DEF Spec, QueueSpec, Queue!Spec

-----------------------------------------------------------------------------
(* No wake-up is lost.  What a step may do to the numbers of the wake-ups  *)
(* that are on their way.                                                  *)
Counts == IsFiniteSet(Notifying)
WakeInv == PoolInv /\ Counts /\ WakeUpsSuffice

LEMMA Joins ==
  ASSUME NEW S, IsFiniteSet(S), NEW x, x \notin S
  PROVE  /\ IsFiniteSet(S \cup {x}) /\ Cardinality(S) \in Nat
         /\ Cardinality(S \cup {x}) = Cardinality(S) + 1
BY FS_AddElement, FS_CardinalityType

LEMMA Parts ==
  ASSUME NEW S, IsFiniteSet(S), NEW x \in S
  PROVE  /\ IsFiniteSet(S \ {x}) /\ Cardinality(S) \in Nat \ {0}
         /\ Cardinality(S \ {x}) = Cardinality(S) - 1
<1>1. IsFiniteSet(S \ {x}) /\ Cardinality(S \ {x}) = Cardinality(S) - 1
  BY FS_RemoveElement
<1>2. Cardinality(S) \in Nat /\ Cardinality(S \ {x}) \in Nat
  BY <1>1, FS_CardinalityType
<1>3. QED BY <1>1, <1>2

LEMMA WakeStep == WakeInv /\ [Next]_vars => Counts' /\ WakeUpsSuffice'
<1> SUFFICES ASSUME WakeInv, [Next]_vars PROVE Counts' /\ WakeUpsSuffice'
  OBVIOUS
<1> DEFINE N == Cardinality(Notifying)
           L == Cardinality(Looping)
           T == Len(tasks)
<1> USE DEF WakeInv, PoolInv, PoolTypeOK, WorkerGoes
<1>1. IsFiniteSet(Looping) /\ IsFiniteSet(Notifying)
  BY PoolAssumption, FS_Subset DEF Looping, Counts
<1>2. N \in Nat /\ L \in Nat /\ T \in Nat
  BY <1>1, FS_CardinalityType
<1>3. Waiting # {} => T <= N + L
  BY DEF WakeUpsSuffice
<1>4. destroyer \in {"join", "done"} => Waiting = {}
  BY DEF WakeUpsSuffice
<1> HIDE DEF N, L, T
<1>5. ASSUME NEW w \in Workers, Wait(w) PROVE Counts' /\ WakeUpsSuffice'
  <2>1. tasks' = <<>> /\ Notifying' = Notifying /\ Looping' \subseteq Looping
    BY <1>5 DEF Wait, Notifying, Looping
  <2>2. Len(tasks') = 0 /\ IsFiniteSet(Looping')
    BY <1>1, <2>1, FS_Subset, EmptySeq
  <2>3. Cardinality(Looping') \in Nat /\ Cardinality(Notifying') \in Nat
    BY <1>1, <2>1, <2>2, FS_CardinalityType
  <2>4. destroyer' \notin {"join", "done"}
    BY <1>5 DEF Wait, Drained
  <2>5. QED BY <1>1, <2>1, <2>2, <2>3, <2>4 DEF Counts, WakeUpsSuffice
<1>6. ASSUME NEW w \in Workers, Spurious(w) PROVE Counts' /\ WakeUpsSuffice'
  <2>1. /\ Notifying' = Notifying /\ Looping' = Looping \cup {w} /\ w \notin Looping
        /\ Waiting' \subseteq Waiting /\ UNCHANGED <<tasks, destroyer>>
    BY <1>6 DEF Spurious, Notifying, Looping, Waiting
  <2>2. Cardinality(Looping') = L + 1
    BY <1>1, <2>1, Joins DEF L
  <2>3. Waiting' # {} => Len(tasks') <= Cardinality(Notifying') + Cardinality(Looping')
    BY <1>2, <1>3, <2>1, <2>2 DEF N, T
  <2>4. QED BY <1>1, <1>4, <2>1, <2>3 DEF Counts, WakeUpsSuffice
<1>7. ASSUME NEW w \in Workers, Take(w) PROVE Counts' /\ WakeUpsSuffice'
  <2>1. /\ Notifying' = Notifying /\ Looping' = Looping \ {w} /\ w \in Looping
        /\ Waiting' = Waiting /\ destroyer' = destroyer /\ tasks # <<>>
        /\ tasks' = Tail(tasks)
    BY <1>7 DEF Take, Notifying, Looping, Waiting
  <2>2. Cardinality(Looping') = L - 1
    BY <1>1, <2>1, Parts DEF L
  <2>3. Len(tasks') = T - 1
    BY <2>1 DEF T
  <2> DEFINE N2 == Cardinality(Notifying')
             L2 == Cardinality(Looping')
             T2 == Len(tasks')
  <2>4. N2 = N /\ L2 = L - 1 /\ T2 = T - 1 /\ (Waiting' # {} => T <= N + L)
    BY <1>3, <2>1, <2>2, <2>3 DEF N
  <2> HIDE DEF N2, L2, T2
  <2>5. Waiting' # {} => T2 <= N2 + L2
    BY <1>2, <2>4
  <2>6. QED BY <1>1, <1>4, <2>1, <2>5 DEF Counts, WakeUpsSuffice, N2, L2, T2
<1>8. ASSUME NEW w \in Workers, Run(w) PROVE Counts' /\ WakeUpsSuffice'
  <2>1. /\ Notifying' = Notifying /\ Looping' = Looping \cup {w} /\ w \notin Looping
        /\ Waiting' = Waiting /\ UNCHANGED <<tasks, destroyer>>
    BY <1>8 DEF Run, Notifying, Looping, Waiting
  <2>2. Cardinality(Looping') = L + 1
    BY <1>1, <2>1, Joins DEF L
  <2>3. Waiting' # {} => Len(tasks') <= Cardinality(Notifying') + Cardinality(Looping')
    BY <1>2, <1>3, <2>1, <2>2 DEF N, T
  <2>4. QED BY <1>1, <1>4, <2>1, <2>3 DEF Counts, WakeUpsSuffice
<1>9. ASSUME NEW w \in Workers, Quit(w) PROVE Counts' /\ WakeUpsSuffice'
  <2>1. /\ tasks' = <<>> /\ Notifying' = Notifying /\ Looping' \subseteq Looping
        /\ Waiting' = Waiting /\ destroyer' = destroyer
    BY <1>9 DEF Quit, Notifying, Looping, Waiting
  <2>2. Len(tasks') = 0 /\ IsFiniteSet(Looping')
    BY <1>1, <2>1, FS_Subset, EmptySeq
  <2>3. Cardinality(Looping') \in Nat /\ Cardinality(Notifying') \in Nat
    BY <1>1, <2>1, <2>2, FS_CardinalityType
  <2>4. QED BY <1>1, <1>4, <2>1, <2>2, <2>3 DEF Counts, WakeUpsSuffice
<1>10. ASSUME NEW c \in Clients, Push(c) PROVE Counts' /\ WakeUpsSuffice'
  <2>1. /\ Notifying' = Notifying \cup {c} /\ c \notin Notifying
        /\ Looping' = Looping /\ Waiting' = Waiting /\ destroyer' = destroyer
        /\ tasks' = Append(tasks, submitted + 1)
    BY <1>10 DEF Push, Notifying, Looping, Waiting
  <2>2. Cardinality(Notifying') = N + 1 /\ IsFiniteSet(Notifying')
    BY <1>1, <2>1, Joins DEF N
  <2>3. Len(tasks') = T + 1
    BY <2>1 DEF T
  <2>4. Waiting' # {} => Len(tasks') <= Cardinality(Notifying') + Cardinality(Looping')
    BY <1>2, <1>3, <2>1, <2>2, <2>3 DEF L
  <2>5. QED BY <1>4, <2>1, <2>2, <2>4 DEF Counts, WakeUpsSuffice
<1>11. ASSUME NEW c \in Clients, NotifyOne(c) PROVE Counts' /\ WakeUpsSuffice'
  <2>1. /\ Notifying' = Notifying \ {c} /\ c \in Notifying
        /\ UNCHANGED <<tasks, destroyer>>
    BY <1>11 DEF NotifyOne, Notifying
  <2>2. Cardinality(Notifying') = N - 1 /\ IsFiniteSet(Notifying')
    BY <1>1, <2>1, Parts DEF N
  <2>3. CASE Waiting = {}
    <3>1. Waiting' = {}
      BY <1>11, <2>3 DEF NotifyOne, Waiting
    <3>2. QED BY <2>2, <3>1 DEF Counts, WakeUpsSuffice
  <2>4. CASE Waiting # {}
    <3>1. PICK w \in Waiting : worker' = [worker EXCEPT ![w] = "loop"]
      BY <1>11, <2>4 DEF NotifyOne
    <3>2. /\ Looping' = Looping \cup {w} /\ w \notin Looping
          /\ Waiting' \subseteq Waiting
      BY <3>1 DEF Looping, Waiting
    <3>3. Cardinality(Looping') = L + 1
      BY <1>1, <3>2, Joins DEF L
    <3>4. Len(tasks') <= Cardinality(Notifying') + Cardinality(Looping')
      BY <1>2, <1>3, <2>1, <2>2, <2>4, <3>3 DEF T
    <3>5. QED BY <1>4, <2>1, <2>2, <3>2, <3>4 DEF Counts, WakeUpsSuffice
  <2>5. QED BY <2>3, <2>4
<1>12. CASE NotifyAll
  <2>1. Notifying' = Notifying /\ Waiting' = {}
    BY <1>12 DEF NotifyAll, Notifying, Waiting
  <2>2. QED BY <1>1, <2>1 DEF Counts, WakeUpsSuffice
<1>13. CASE Stop \/ Join \/ UNCHANGED vars
  <2>1. /\ Notifying' = Notifying /\ Looping' = Looping /\ Waiting' = Waiting
        /\ tasks' = tasks
    BY <1>13 DEF Stop, Join, vars, Notifying, Looping, Waiting
  <2>2. destroyer' \in {"join", "done"} => Waiting = {}
    BY <1>4, <1>13 DEF Stop, Join, vars
  <2>3. QED BY <1>1, <1>2, <1>3, <2>1, <2>2 DEF Counts, WakeUpsSuffice, N, L, T
<1>14. QED
  BY <1>5, <1>6, <1>7, <1>8, <1>9, <1>10, <1>11, <1>12, <1>13 DEF Next, Steps

(* However many workers and clients there are and however their steps      *)
(* interleave, with wake-ups for no reason, the notifications that follow  *)
(* the unlock in enqueue, and the notify_all of the destructor, are enough *)
(* for every queued task and every sleeping worker.                        *)
THEOREM NoLostWakeUp == Spec => []WakeUpsSuffice
<1>1. Init => Counts /\ WakeUpsSuffice
  <2> SUFFICES ASSUME Init PROVE Counts /\ WakeUpsSuffice
    OBVIOUS
  <2>1. Notifying = {} /\ Waiting = {}
    BY DEF Init, Notifying, Waiting
  <2>2. QED BY <2>1, FS_EmptySet DEF Counts, WakeUpsSuffice
<1>2. PoolInv /\ Counts /\ WakeUpsSuffice /\ [Next]_vars => Counts' /\ WakeUpsSuffice'
  BY WakeStep DEF WakeInv
<1>3. QED BY <1>1, <1>2, PoolInductive, PTL DEF Spec
=============================================================================
