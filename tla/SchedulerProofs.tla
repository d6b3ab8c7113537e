-------------------------- MODULE SchedulerProofs --------------------------
(***************************************************************************)
(* Proofs about the two schedulers and about the task layer over them, for *)
(* every number of tasks and CPUs, every slice and every bound.            *)
(*                                                                         *)
(* Both schedulers implement BaseScheduler: that needs a task to be in the *)
(* queue once, and not while a CPU has it.  A round robin queue keeps its  *)
(* order but for what is put at its ends; the map of CFS is sorted, and    *)
(* unless remove_task is used min_vruntime stays below the vruntimes of    *)
(* all that was added, on a CPU or not, because a vruntime never shrinks.  *)
(*                                                                         *)
(* The inductive invariant of TaskSched is the conjunction of the four     *)
(* properties TLC checks: where a task is (Ownership) decides what its     *)
(* reference count is (RefCount), and both need the type invariant.        *)
(***************************************************************************)
EXTENDS TaskSched, Integers, Sequences, FiniteSets, TLAPS

\* Every leaf goes to Zenon, with time to spare, unless it names another prover.
USE ZenonT(60)

CONSTANTS
  Cpus, MAX_TIME_SLICE, Preempts, MaxOverrun, Nice, Removes, MaxVruntime

VARIABLES
  ready_queue, held,
  preempts, time_slice,
  removes, min_vruntime, init_vruntime, delta, nice

RR == INSTANCE RoundRobin

Cfs == INSTANCE CFS

RemoveAt(q, k) == SubSeq(q, 1, k - 1) \o SubSeq(q, k + 1, Len(q))

InsertAt(q, k, e) == SubSeq(q, 1, k - 1) \o <<e>> \o SubSeq(q, k, Len(q))

\* What \o does.
LEMMA Concatenated ==
  ASSUME NEW S, NEW a \in Seq(S), NEW b \in Seq(S)
  PROVE  /\ a \o b \in Seq(S) /\ Len(a \o b) = Len(a) + Len(b)
         /\ \A i \in 1..(Len(a) + Len(b)) :
              (a \o b)[i] = IF i <= Len(a) THEN a[i] ELSE b[i - Len(a)]
  BY SMTT(60)

\* Removing one entry moves those behind it forward by one.
LEMMA Removed ==
  ASSUME NEW S, NEW q \in Seq(S), NEW k \in DOMAIN q
  PROVE  LET r == RemoveAt(q, k) IN
         /\ r \in Seq(S) /\ Len(r) = Len(q) - 1
         /\ \A i \in 1..Len(r) : r[i] = IF i < k THEN q[i] ELSE q[i + 1]
  <1> DEFINE a == SubSeq(q, 1, k - 1)
             b == SubSeq(q, k + 1, Len(q))
  <1>1. a \in Seq(S) /\ Len(a) = k - 1 /\ \A i \in 1..(k - 1) : a[i] = q[i]
    BY SMTT(60)
  <1>2. b \in Seq(S) /\ Len(b) = Len(q) - k /\ \A i \in 1..(Len(q) - k) : b[i] = q[k + i]
    BY SMTT(60)
  <1>3. RemoveAt(q, k) = a \o b
    BY DEF RemoveAt
  <1> HIDE DEF a, b
  <1>4. /\ a \o b \in Seq(S) /\ Len(a \o b) = Len(a) + Len(b)
        /\ \A i \in 1..(Len(a) + Len(b)) :
             (a \o b)[i] = IF i <= Len(a) THEN a[i] ELSE b[i - Len(a)]
    BY <1>1, <1>2, Concatenated
  <1> DEFINE r == a \o b
  <1>5. r \in Seq(S) /\ Len(r) = Len(q) - 1
    BY SMTT(60), <1>1, <1>2, <1>4
  <1>6. ASSUME NEW i \in 1..Len(r) PROVE r[i] = IF i < k THEN q[i] ELSE q[i + 1]
    <2>1. CASE i < k
      BY SMTT(60), <1>1, <1>2, <1>4, <1>5, <2>1
    <2>2. CASE ~(i < k)
      <3>1. i - (k - 1) \in 1..(Len(q) - k) /\ k + (i - (k - 1)) = i + 1
        BY SMTT(60), <1>5, <2>2
      <3>2. r[i] = b[i - (k - 1)]
        BY SMTT(60), <1>1, <1>2, <1>4, <1>5, <2>2
      <3>3. b[i - (k - 1)] = q[k + (i - (k - 1))]
        BY <1>2, <3>1
      <3> QED
        BY <2>2, <3>1, <3>2, <3>3
    <2> QED
      BY <2>1, <2>2
  <1> QED
    BY <1>3, <1>5, <1>6

\* Putting an entry in front moves all others back by one.
LEMMA Pushed ==
  ASSUME NEW S, NEW q \in Seq(S), NEW e \in S
  PROVE  LET r == <<e>> \o q IN
         /\ r \in Seq(S) /\ Len(r) = Len(q) + 1
         /\ \A i \in 1..Len(r) : r[i] = IF i = 1 THEN e ELSE q[i - 1]
  <1>1. <<e>> \in Seq(S) /\ Len(<<e>>) = 1 /\ <<e>>[1] = e
    BY SMTT(60)
  <1>2. /\ <<e>> \o q \in Seq(S) /\ Len(<<e>> \o q) = 1 + Len(q)
        /\ \A i \in 1..(1 + Len(q)) : (<<e>> \o q)[i] = IF i <= 1 THEN <<e>>[i] ELSE q[i - 1]
    BY SMTT(60), <1>1
  <1> QED
    BY SMTT(60), <1>1, <1>2

----------------------------------------------------------------------------
(* Round robin.                                                            *)

\* A task is in the queue once, and not while a CPU has it.
RRInv ==
  /\ preempts \in SUBSET BOOLEAN
  /\ ready_queue \in Seq(Task)
  /\ held \subseteq Task
  /\ \A i, j \in DOMAIN ready_queue : ready_queue[i] = ready_queue[j] => i = j
  /\ \A i \in DOMAIN ready_queue : ready_queue[i] \notin held

\* Entry i of the new queue is entry f[i] of the old one, for the entries that were queued: if f
\* keeps the order, nobody has been overtaken.
LEMMA OrderKept ==
  ASSUME NEW f,
         \A i \in DOMAIN ready_queue' :
           f[i] \in DOMAIN ready_queue => ready_queue'[i] = ready_queue[f[i]],
         \A i, j \in DOMAIN ready_queue' :
           i < j /\ ready_queue'[j] \in RR!Queued =>
             \/ f[i] \in DOMAIN ready_queue /\ f[j] \in DOMAIN ready_queue /\ f[i] < f[j]
             \/ ready_queue'[i] \in held /\ time_slice[ready_queue'[i]] > 0 /\ TRUE \in preempts
  PROVE  RR!InTurn
  <1> SUFFICES ASSUME NEW s \in Task, NEW u \in Task, s \in RR!Queued, RR!Before(u, s)'
               PROVE  RR!Before(u, s) \/ (u \in held /\ time_slice[u] > 0 /\ TRUE \in preempts)
    BY DEF RR!InTurn
  <1>1. PICK i \in DOMAIN ready_queue', j \in DOMAIN ready_queue' :
          i < j /\ ready_queue'[i] = u /\ ready_queue'[j] = s
    BY DEF RR!Before
  <1>2. CASE f[i] \in DOMAIN ready_queue /\ f[j] \in DOMAIN ready_queue /\ f[i] < f[j]
    <2>1. ready_queue[f[i]] = u /\ ready_queue[f[j]] = s
      BY <1>1, <1>2
    <2> QED
      BY <1>2, <2>1 DEF RR!Before
  <1> QED
    BY <1>1, <1>2

\* Appending a task, as add_task and put_prev_task do.
LEMMA RRAppended ==
  ASSUME RRInv, NEW t \in Task, \A i \in DOMAIN ready_queue : ready_queue[i] # t,
         ready_queue' \in Seq(Task), Len(ready_queue') = Len(ready_queue) + 1,
         \A i \in 1..Len(ready_queue) : ready_queue'[i] = ready_queue[i],
         ready_queue'[Len(ready_queue) + 1] = t
  PROVE  RR!InTurn
  <1> DEFINE f == [i \in DOMAIN ready_queue' |-> i]
  <1>d. DOMAIN ready_queue = 1..Len(ready_queue) /\ DOMAIN ready_queue' = 1..Len(ready_queue')
    BY SMTT(60) DEF RRInv
  <1>1. \A i \in DOMAIN ready_queue' :
          ready_queue'[i] \in RR!Queued => i \in DOMAIN ready_queue
    BY <1>d, SMTT(60) DEF RRInv, RR!Queued
  <1>2. \A i, j \in DOMAIN ready_queue' : i < j /\ j \in DOMAIN ready_queue => i \in DOMAIN ready_queue
    BY <1>d, SMTT(60) DEF RRInv
  <1>3. \A i \in DOMAIN ready_queue' :
          f[i] \in DOMAIN ready_queue => ready_queue'[i] = ready_queue[f[i]]
    BY <1>d DEF RRInv
  <1>4. \A i, j \in DOMAIN ready_queue' :
          i < j /\ ready_queue'[j] \in RR!Queued =>
            f[i] \in DOMAIN ready_queue /\ f[j] \in DOMAIN ready_queue /\ f[i] < f[j]
    BY <1>1, <1>2
  <1> HIDE DEF f
  <1> QED
    BY <1>3, <1>4, OrderKept

\* add_task: push_back of a task that the scheduler does not have.
LEMMA RRAdd ==
  ASSUME RRInv, NEW t \in Task, RR!add_task(t), UNCHANGED preempts
  PROVE  RRInv' /\ RR!Base!add_task(t) /\ RR!InTurn
  <1>1. /\ ready_queue' \in Seq(Task) /\ Len(ready_queue') = Len(ready_queue) + 1
        /\ \A i \in 1..Len(ready_queue) : ready_queue'[i] = ready_queue[i]
        /\ ready_queue'[Len(ready_queue) + 1] = t
    BY SMTT(60) DEF RRInv, RR!add_task
  <1>2. \A i \in DOMAIN ready_queue : ready_queue[i] # t
    BY DEF RR!add_task, RR!Queued
  <1>3. RRInv'
    BY <1>1, <1>2, SMTT(60) DEF RRInv, RR!add_task
  <1>4. RR!Queued' = RR!Queued \cup {t}
    BY <1>1, SMTT(60) DEF RRInv, RR!Queued
  <1>5. RR!InTurn
    BY <1>1, <1>2, RRAppended
  <1> QED
    BY <1>3, <1>4, <1>5 DEF RR!add_task, RR!Base!add_task

\* Removing entry k, as remove_task and pick_next_task do.
LEMMA RRRemoved ==
  ASSUME RRInv, NEW k \in DOMAIN ready_queue,
         ready_queue' \in Seq(Task), Len(ready_queue') = Len(ready_queue) - 1,
         \A i \in 1..Len(ready_queue') :
           ready_queue'[i] = IF i < k THEN ready_queue[i] ELSE ready_queue[i + 1]
  PROVE  /\ \A i, j \in DOMAIN ready_queue' : ready_queue'[i] = ready_queue'[j] => i = j
         /\ RR!Queued' = RR!Queued \ {ready_queue[k]}
         /\ RR!InTurn
  <1> DEFINE f == [i \in DOMAIN ready_queue' |-> IF i < k THEN i ELSE i + 1]
  <1>d. DOMAIN ready_queue = 1..Len(ready_queue) /\ DOMAIN ready_queue' = 1..Len(ready_queue')
    BY SMTT(60) DEF RRInv
  <1>1. \A i \in DOMAIN ready_queue' :
          /\ f[i] \in DOMAIN ready_queue /\ f[i] # k
          /\ ready_queue'[i] = ready_queue[f[i]]
    BY <1>d, SMTT(60) DEF RRInv
  <1>2. \A i, j \in DOMAIN ready_queue' : i < j => f[i] < f[j]
    BY <1>d, SMTT(60) DEF RRInv
  <1>3. \A i \in DOMAIN ready_queue : i # k => \E j \in DOMAIN ready_queue' : f[j] = i
    <2> SUFFICES ASSUME NEW i \in DOMAIN ready_queue, i # k
                 PROVE  \E j \in DOMAIN ready_queue' : f[j] = i
      OBVIOUS
    <2>1. CASE i < k
      <3>1. i \in DOMAIN ready_queue' /\ f[i] = i
        BY <1>d, <2>1, SMTT(60) DEF RRInv
      <3> QED
        BY <3>1
    <2>2. CASE k < i
      <3>1. i - 1 \in DOMAIN ready_queue' /\ f[i - 1] = i
        BY <1>d, <2>2, SMTT(60) DEF RRInv
      <3> QED
        BY <3>1
    <2> QED
      BY <1>d, <2>1, <2>2, SMTT(60) DEF RRInv
  <1>4. \A i, j \in DOMAIN ready_queue' : f[i] = f[j] => i = j
    BY <1>d, <1>2, <1>1, SMTT(60) DEF RRInv
  <1> HIDE DEF f
  <1>5. \A i, j \in DOMAIN ready_queue' : ready_queue'[i] = ready_queue'[j] => i = j
    BY <1>1, <1>4, SMTT(60) DEF RRInv
  <1>6. RR!Queued' = RR!Queued \ {ready_queue[k]}
    <2>1. \A i \in DOMAIN ready_queue' :
            ready_queue'[i] \in RR!Queued /\ ready_queue'[i] # ready_queue[k]
      BY <1>1, SMTT(60) DEF RRInv, RR!Queued
    <2>2. \A i \in DOMAIN ready_queue : i # k => ready_queue[i] \in RR!Queued'
      BY <1>1, <1>3, SMTT(60) DEF RR!Queued
    <2> QED
      BY <2>1, <2>2 DEF RR!Queued
  <1>7. RR!InTurn
    BY <1>1, <1>2, OrderKept
  <1> QED
    BY <1>5, <1>6, <1>7

\* remove_task takes the task out of the queue; the others stay in their order.
LEMMA RRRemove ==
  ASSUME RRInv, NEW t \in Task, RR!remove_task(t), UNCHANGED preempts
  PROVE  RRInv' /\ RR!Base!remove_task(t) /\ RR!InTurn
  <1>1. PICK k \in DOMAIN ready_queue :
          ready_queue[k] = t /\ ready_queue' = RemoveAt(ready_queue, k)
    BY DEF RR!remove_task, RemoveAt
  <1>2. /\ ready_queue' \in Seq(Task) /\ Len(ready_queue') = Len(ready_queue) - 1
        /\ \A i \in 1..Len(ready_queue') :
             ready_queue'[i] = IF i < k THEN ready_queue[i] ELSE ready_queue[i + 1]
    BY <1>1, Removed DEF RRInv
  <1>3. /\ \A i, j \in DOMAIN ready_queue' : ready_queue'[i] = ready_queue'[j] => i = j
        /\ RR!Queued' = RR!Queued \ {t}
        /\ RR!InTurn
    BY <1>1, <1>2, RRRemoved
  <1>4. t \in RR!Queued
    BY <1>1 DEF RR!Queued
  <1>5. held' = held
    BY DEF RR!remove_task
  <1>6. RRInv'
    <2>1. \A i \in DOMAIN ready_queue' : ready_queue'[i] \in RR!Queued
      BY <1>3 DEF RR!Queued
    <2> QED
      BY <1>2, <1>3, <1>5, <2>1 DEF RRInv, RR!Queued
  <1> QED
    BY <1>3, <1>4, <1>5, <1>6 DEF RR!Base!remove_task

\* pick_next_task: pop_front.
LEMMA RRPick ==
  ASSUME RRInv, NEW t \in Task, RR!pick_next_task(t), UNCHANGED preempts
  PROVE  RRInv' /\ RR!Base!pick_next_task(t) /\ RR!InTurn
  <1>1. /\ ready_queue' \in Seq(Task) /\ Len(ready_queue') = Len(ready_queue) - 1
        /\ \A i \in 1..Len(ready_queue') : ready_queue'[i] = ready_queue[i + 1]
        /\ 1 \in DOMAIN ready_queue /\ ready_queue[1] = t
    BY SMTT(60) DEF RRInv, RR!pick_next_task
  <1>2. \A i \in 1..Len(ready_queue') :
          ready_queue'[i] = IF i < 1 THEN ready_queue[i] ELSE ready_queue[i + 1]
    BY SMTT(60), <1>1
  <1>3. /\ \A i, j \in DOMAIN ready_queue' : ready_queue'[i] = ready_queue'[j] => i = j
        /\ RR!Queued' = RR!Queued \ {t}
        /\ RR!InTurn
    BY <1>1, <1>2, RRRemoved
  <1>4. t \in RR!Queued
    BY <1>1 DEF RR!Queued
  <1>5. held' = held \cup {t}
    BY DEF RR!pick_next_task
  <1>6. RRInv'
    <2>1. \A i \in DOMAIN ready_queue' : ready_queue'[i] \in RR!Queued /\ ready_queue'[i] # t
      BY <1>3 DEF RR!Queued
    <2> QED
      BY <1>1, <1>3, <1>5, <2>1, SMTT(60) DEF RRInv, RR!Queued
  <1>7. RR!Base!Cardinality(held) < Cpus
    <2>1. RR!Base!Cardinality(held) = RR!Cardinality(held)
      BY DEF RR!Base!Cardinality, RR!Cardinality
    <2> QED
      BY <2>1 DEF RR!pick_next_task
  <1> QED
    BY <1>3, <1>4, <1>5, <1>6, <1>7 DEF RR!Base!pick_next_task

\* put_prev_task: push_front if the task was preempted in its slice, push_back otherwise.
LEMMA RRPut ==
  ASSUME RRInv, NEW t \in Task, NEW preempt \in preempts, RR!put_prev_task(t, preempt),
         UNCHANGED preempts
  PROVE  RRInv' /\ RR!Base!put_prev_task(t) /\ RR!InTurn
  <1>1. (\A i \in DOMAIN ready_queue : ready_queue[i] # t) /\ t \in held /\ held' = held \ {t}
    BY DEF RRInv, RR!put_prev_task
  <1>2. CASE time_slice[t] > 0 /\ preempt
    <2>1. /\ ready_queue' \in Seq(Task) /\ Len(ready_queue') = Len(ready_queue) + 1
          /\ \A i \in 1..Len(ready_queue') :
               ready_queue'[i] = IF i = 1 THEN t ELSE ready_queue[i - 1]
      <3>1. ready_queue' = <<t>> \o ready_queue
        BY <1>2 DEF RR!put_prev_task
      <3> QED
        BY <3>1, Pushed, SMTT(60) DEF RRInv
    <2> DEFINE f == [i \in DOMAIN ready_queue' |-> i - 1]
    <2>d. DOMAIN ready_queue = 1..Len(ready_queue) /\ DOMAIN ready_queue' = 1..Len(ready_queue')
      BY <2>1, SMTT(60) DEF RRInv
    <2>2. \A i \in DOMAIN ready_queue' :
            IF i = 1 THEN ready_queue'[i] = t /\ f[i] = 0
                     ELSE f[i] \in DOMAIN ready_queue /\ ready_queue'[i] = ready_queue[f[i]]
      BY <2>1, <2>d, SMTT(60) DEF RRInv
    <2>3. \A i \in DOMAIN ready_queue : i + 1 \in DOMAIN ready_queue' /\ f[i + 1] = i /\ i + 1 # 1
      BY <2>1, <2>d, SMTT(60) DEF RRInv
    <2>4. \A i, j \in DOMAIN ready_queue' : (f[i] = f[j] => i = j) /\ (i < j => f[i] < f[j] /\ j # 1)
      BY <2>1, <2>d, SMTT(60) DEF RRInv
    <2>5. 1 \in DOMAIN ready_queue' /\ 0 \notin DOMAIN ready_queue
      BY <2>1, <2>d, SMTT(60) DEF RRInv
    <2> HIDE DEF f
    <2>6. RRInv'
      <3>1. \A i, j \in DOMAIN ready_queue' : ready_queue'[i] = ready_queue'[j] => i = j
        BY <1>1, <2>2, <2>4, SMTT(60) DEF RRInv
      <3>2. \A i \in DOMAIN ready_queue' : ready_queue'[i] \notin held'
        BY <1>1, <2>2 DEF RRInv
      <3> QED
        BY <1>1, <2>1, <3>1, <3>2 DEF RRInv
    <2>7. RR!Queued' = RR!Queued \cup {t}
      <3>1. \A i \in DOMAIN ready_queue' : ready_queue'[i] \in RR!Queued \cup {t}
        BY <2>2 DEF RR!Queued
      <3>2. \A i \in DOMAIN ready_queue : ready_queue[i] \in RR!Queued'
        BY <2>2, <2>3, SMTT(60) DEF RR!Queued
      <3>3. t \in RR!Queued'
        BY <2>2, <2>5 DEF RR!Queued
      <3> QED
        BY <3>1, <3>2, <3>3 DEF RR!Queued
    <2>8. TRUE \in preempts
      BY <1>2 DEF RRInv
    <2>9. RR!InTurn
      <3>1. \A i \in DOMAIN ready_queue' :
              f[i] \in DOMAIN ready_queue => ready_queue'[i] = ready_queue[f[i]]
        BY <2>2, <2>5
      <3>2. \A i, j \in DOMAIN ready_queue' :
              i < j =>
                \/ f[i] \in DOMAIN ready_queue /\ f[j] \in DOMAIN ready_queue /\ f[i] < f[j]
                \/ ready_queue'[i] \in held /\ time_slice[ready_queue'[i]] > 0 /\ TRUE \in preempts
        BY <1>1, <1>2, <2>2, <2>4, <2>8
      <3> QED
        BY <3>1, <3>2, OrderKept
    <2> QED
      BY <1>1, <2>6, <2>7, <2>9 DEF RR!Base!put_prev_task
  <1>3. CASE ~(time_slice[t] > 0 /\ preempt)
    <2>1. /\ ready_queue' \in Seq(Task) /\ Len(ready_queue') = Len(ready_queue) + 1
          /\ \A i \in 1..Len(ready_queue) : ready_queue'[i] = ready_queue[i]
          /\ ready_queue'[Len(ready_queue) + 1] = t
      <3>1. ready_queue' = Append(ready_queue, t)
        BY <1>3 DEF RR!put_prev_task
      <3> QED
        BY <3>1, SMTT(60) DEF RRInv
    <2>2. RRInv'
      BY <1>1, <2>1, SMTT(60) DEF RRInv
    <2>3. RR!Queued' = RR!Queued \cup {t}
      BY <2>1, SMTT(60) DEF RRInv, RR!Queued
    <2>4. RR!InTurn
      BY <1>1, <2>1, RRAppended
    <2> QED
      BY <1>1, <2>2, <2>3, <2>4 DEF RR!Base!put_prev_task
  <1> QED
    BY <1>2, <1>3

\* A step that keeps the queue lets nobody overtake.
LEMMA RRQueueKept ==
  ASSUME UNCHANGED ready_queue PROVE UNCHANGED RR!Queued /\ RR!InTurn
  BY DEF RR!Queued, RR!InTurn, RR!Before

\* A task that blocks or exits is not put back.
LEMMA RRLeave ==
  ASSUME RRInv, NEW t \in Task, RR!Leave(t), UNCHANGED preempts
  PROVE  RRInv' /\ RR!Base!Leave(t) /\ RR!InTurn
  BY RRQueueKept DEF RRInv, RR!Leave, RR!Base!Leave

\* Every step keeps the invariant, is a step of BaseScheduler, and overtakes only as InTurn allows.
LEMMA RRStep ==
  ASSUME RRInv, [RR!Next]_RR!vars
  PROVE  RRInv' /\ [RR!Base!Next]_RR!Base!vars /\ [RR!InTurn]_RR!vars
  <1>1. CASE UNCHANGED RR!vars
    <2>1. UNCHANGED RR!Base!vars
      BY <1>1, RRQueueKept DEF RR!vars, RR!Base!vars
    <2> QED
      BY <1>1, <2>1 DEF RRInv, RR!vars
  <1>2. ASSUME NEW t \in Task, RR!task_tick(t), UNCHANGED preempts
        PROVE  RRInv' /\ UNCHANGED RR!Base!vars /\ RR!InTurn
    BY <1>2, RRQueueKept DEF RRInv, RR!task_tick, RR!Base!vars
  <1>3. CASE RR!Next
    <2>1. PICK t \in Task :
            RR!add_task(t) \/ RR!remove_task(t) \/ RR!pick_next_task(t) \/ RR!task_tick(t)
            \/ RR!GiveUp(t)
      BY <1>3 DEF RR!Next
    <2>2. UNCHANGED preempts
      BY <1>3 DEF RR!Next
    <2>3. CASE RR!add_task(t)
      BY <2>2, <2>3, RRAdd DEF RR!Base!Next
    <2>4. CASE RR!remove_task(t)
      BY <2>2, <2>4, RRRemove DEF RR!Base!Next
    <2>5. CASE RR!pick_next_task(t)
      BY <2>2, <2>5, RRPick DEF RR!Base!Next
    <2>6. CASE RR!task_tick(t)
      BY <1>2, <2>2, <2>6
    <2>7. CASE RR!Leave(t)
      BY <2>2, <2>7, RRLeave DEF RR!Base!Next
    <2>8. ASSUME NEW preempt \in preempts, RR!put_prev_task(t, preempt)
          PROVE  RRInv' /\ RR!Base!Next /\ RR!InTurn
      BY <2>2, <2>8, RRPut DEF RR!Base!Next
    <2> QED
      BY <2>1, <2>3, <2>4, <2>5, <2>6, <2>7, <2>8 DEF RR!GiveUp
  <1> QED
    BY <1>1, <1>3

\* The queue is empty at first.
LEMMA RRInit ==
  ASSUME Preempts \subseteq SUBSET BOOLEAN, RR!Init PROVE RRInv /\ RR!Base!Init
  BY SMTT(60) DEF RR!Init, RRInv, RR!Base!Init, RR!Queued

\* RRScheduler is a BaseScheduler: it gives out the tasks that add_task and put_prev_task
\* brought to it, each to one CPU.
THEOREM RoundRobinImplements ==
  ASSUME Preempts \subseteq SUBSET BOOLEAN
  PROVE  RR!Spec => RR!ImplementsBase
  <1>1. RR!Init => RRInv /\ RR!Base!Init
    BY RRInit
  <1>2. RRInv /\ [RR!Next]_RR!vars => RRInv' /\ [RR!Base!Next]_RR!Base!vars
    BY RRStep
  <1> QED
    BY <1>1, <1>2, PTL DEF RR!Spec, RR!ImplementsBase, RR!Base!Spec

\* Nobody gets ahead of a queued task except one that was preempted before its slice ended.
THEOREM RoundRobinInTurn ==
  ASSUME Preempts \subseteq SUBSET BOOLEAN
  PROVE  RR!Spec => RR!NoOvertaking
  <1>1. RR!Init => RRInv
    BY RRInit
  <1>2. RRInv /\ [RR!Next]_RR!vars => RRInv' /\ [RR!InTurn]_RR!vars
    BY RRStep
  <1> QED
    BY <1>1, <1>2, PTL DEF RR!Spec, RR!NoOvertaking

----------------------------------------------------------------------------
(* CFS.                                                                    *)

Entry == [task : Task, vruntime : Nat]

\* Inserting one entry moves those behind it back by one.
LEMMA Inserted ==
  ASSUME NEW q \in Seq(Entry), NEW k \in 1..(Len(q) + 1), NEW e \in Entry
  PROVE  /\ InsertAt(q, k, e) \in Seq(Entry)
         /\ Len(InsertAt(q, k, e)) = Len(q) + 1
         /\ \A i \in 1..(k - 1) : InsertAt(q, k, e)[i] = q[i]
         /\ InsertAt(q, k, e)[k] = e
         /\ \A i \in (k + 1)..(Len(q) + 1) : InsertAt(q, k, e)[i] = q[i - 1]
  <1> DEFINE a == SubSeq(q, 1, k - 1)
             b == SubSeq(q, k, Len(q))
             c == a \o <<e>>
             r == c \o b
  <1>1. a \in Seq(Entry) /\ Len(a) = k - 1 /\ \A i \in 1..(k - 1) : a[i] = q[i]
    BY SMTT(60)
  <1>2. b \in Seq(Entry) /\ Len(b) = Len(q) - k + 1 /\ \A i \in 1..Len(b) : b[i] = q[k + i - 1]
    BY SMTT(60)
  <1>3. InsertAt(q, k, e) = r
    BY DEF InsertAt
  <1> HIDE DEF a, b
  <1>4. c \in Seq(Entry) /\ Len(c) = k /\ c[k] = e /\ \A i \in 1..(k - 1) : c[i] = q[i]
    <2>1. <<e>> \in Seq(Entry) /\ Len(<<e>>) = 1 /\ <<e>>[1] = e
      BY SMTT(60)
    <2>2. /\ c \in Seq(Entry) /\ Len(c) = Len(a) + Len(<<e>>)
          /\ \A i \in 1..(Len(a) + Len(<<e>>)) :
               c[i] = IF i <= Len(a) THEN a[i] ELSE <<e>>[i - Len(a)]
      BY <1>1, <2>1, Concatenated
    <2> HIDE DEF c
    <2>3. Len(c) = k
      BY SMTT(60), <1>1, <2>1, <2>2
    <2>4. c[k] = e
      BY SMTT(60), <1>1, <2>1, <2>2
    <2>5. ASSUME NEW i \in 1..(k - 1) PROVE c[i] = q[i]
      BY SMTT(60), <1>1, <2>1, <2>2
    <2> QED
      BY <2>2, <2>3, <2>4, <2>5
  <1> HIDE DEF c
  <1>5. /\ r \in Seq(Entry) /\ Len(r) = Len(c) + Len(b)
        /\ \A i \in 1..(Len(c) + Len(b)) :
             r[i] = IF i <= Len(c) THEN c[i] ELSE b[i - Len(c)]
    BY <1>2, <1>4, Concatenated
  <1> HIDE DEF r
  <1>6. r[k] = e
    BY SMTT(60), <1>2, <1>4, <1>5
  <1>7. ASSUME NEW i \in 1..(k - 1) PROVE r[i] = q[i]
    BY SMTT(60), <1>2, <1>4, <1>5
  <1>8. ASSUME NEW i \in (k + 1)..(Len(q) + 1) PROVE r[i] = q[i - 1]
    <2>1. i - k \in 1..Len(b) /\ k + (i - k) - 1 = i - 1
      BY SMTT(60), <1>2
    <2>2. r[i] = b[i - k]
      BY SMTT(60), <1>2, <1>4, <1>5
    <2>3. b[i - k] = q[k + (i - k) - 1]
      BY <1>2, <2>1
    <2> QED
      BY <2>1, <2>2, <2>3
  <1>9. Len(r) = Len(q) + 1
    BY SMTT(60), <1>2, <1>4, <1>5
  <1> QED
    BY <1>3, <1>5, <1>6, <1>7, <1>8, <1>9

CfsTypeOK ==
  /\ ready_queue \in Seq(Entry)
  /\ held \subseteq Task
  /\ min_vruntime \in Nat \cup {None}
  /\ init_vruntime \in [Task -> Nat]
  /\ delta \in [Task -> Nat]
  /\ nice \in [Task -> -20..19]

\* A task is in the queue once, and not while a CPU has it.
CfsPlaces ==
  /\ \A i, j \in DOMAIN ready_queue : ready_queue[i].task = ready_queue[j].task => i = j
  /\ \A i \in DOMAIN ready_queue : ready_queue[i].task \notin held

\* The vruntime of a queued task is at least the one it is queued under: add_task keeps its delta.
CfsEntries ==
  \A i \in DOMAIN ready_queue : \A t \in Task :
    ready_queue[i].task = t => ready_queue[i].vruntime <= Cfs!get_vruntime(t)

\* As long as nothing is removed, there is a min_vruntime once there was a task.
CfsStarted == ~removes /\ min_vruntime = None => ready_queue = <<>> /\ held = {}

CfsInv == CfsTypeOK /\ CfsPlaces /\ CfsEntries /\ CfsStarted /\ Cfs!MinIsLower

\* get_weight reads an entry of one of the two tables, which is positive.
LEMMA Weight ==
  ASSUME NEW n \in -20..19 PROVE Cfs!get_weight(n) \in Nat \ {0}
  <1>1. CASE n >= 0
    <2>1. n + 1 \in 1..20 /\ Cfs!get_weight(n) = Cfs!NICE2WEIGHT_POS[n + 1]
      BY <1>1, SMTT(60) DEF Cfs!get_weight
    <2>2. \A k \in 1..20 : Cfs!NICE2WEIGHT_POS[k] \in Nat \ {0}
      BY SMTT(60) DEF Cfs!NICE2WEIGHT_POS
    <2> QED
      BY <2>1, <2>2
  <1>2. CASE n < 0
    <2>1. 1 - n \in 1..21 /\ Cfs!get_weight(n) = Cfs!NICE2WEIGHT_NEG[1 - n]
      BY <1>2, SMTT(60) DEF Cfs!get_weight
    <2>2. \A k \in 1..21 : Cfs!NICE2WEIGHT_NEG[k] \in Nat \ {0}
      BY SMTT(60) DEF Cfs!NICE2WEIGHT_NEG
    <2> QED
      BY <2>1, <2>2
  <1> QED
    BY SMTT(60), <1>1, <1>2

\* What is divided by the weight keeps its order.
LEMMA DivMonotone ==
  ASSUME NEW a \in Nat, NEW b \in Nat, a <= b, NEW w \in Nat \ {0}
  PROVE  a \div w \in Nat /\ a \div w <= b \div w
  BY SMTT(60)

\* A task that has not run has its initial vruntime.
LEMMA DivZero == ASSUME NEW w \in Nat \ {0} PROVE 0 \div w = 0
  BY SMTT(60)

\* get_vruntime is a number, never below the vruntime that the task started from.
LEMMA Vruntime ==
  CfsTypeOK =>
    \A t \in Task : Cfs!get_vruntime(t) \in Nat /\ init_vruntime[t] <= Cfs!get_vruntime(t)
  <1> SUFFICES ASSUME CfsTypeOK, NEW t \in Task
               PROVE  Cfs!get_vruntime(t) \in Nat /\ init_vruntime[t] <= Cfs!get_vruntime(t)
    OBVIOUS
  <1>1. Cfs!get_weight(nice[t]) \in Nat \ {0} /\ delta[t] * 1024 \in Nat
    <2>1. nice[t] \in -20..19 /\ delta[t] \in Nat
      BY DEF CfsTypeOK
    <2> QED
      BY SMTT(60), <2>1, Weight
  <1>2. (delta[t] * 1024) \div Cfs!get_weight(nice[t]) \in Nat
    BY SMTT(60), <1>1, DivMonotone
  <1> QED
    BY <1>2, SMTT(60) DEF CfsTypeOK, Cfs!get_vruntime

\* The same after a step.
LEMMA VruntimeNext ==
  CfsTypeOK' =>
    \A t \in Task : Cfs!get_vruntime(t)' \in Nat /\ init_vruntime'[t] <= Cfs!get_vruntime(t)'
  <1>1. (CfsTypeOK =>
           \A t \in Task : Cfs!get_vruntime(t) \in Nat /\ init_vruntime[t] <= Cfs!get_vruntime(t))'
    BY Vruntime, PTL
  <1> QED
    BY <1>1

\* A tick never takes vruntime back.
LEMMA TickGrows ==
  ASSUME CfsTypeOK, NEW t \in Task, Cfs!task_tick(t)
  PROVE  /\ \A u \in Task : u # t => Cfs!get_vruntime(u)' = Cfs!get_vruntime(u)
         /\ Cfs!get_vruntime(t) <= Cfs!get_vruntime(t)'
  <1>1. /\ init_vruntime' = init_vruntime /\ nice' = nice
        /\ delta' = [delta EXCEPT ![t] = delta[t] + 1]
    BY DEF Cfs!task_tick
  <1>2. \A u \in Task : u # t => Cfs!get_vruntime(u)' = Cfs!get_vruntime(u)
    BY <1>1, SMTT(60) DEF CfsTypeOK, Cfs!get_vruntime
  <1>3. Cfs!get_weight(nice[t]) \in Nat \ {0} /\ delta[t] * 1024 \in Nat
        /\ delta'[t] * 1024 \in Nat /\ delta[t] * 1024 <= delta'[t] * 1024
    <2>1. nice[t] \in -20..19 /\ delta[t] \in Nat /\ delta'[t] = delta[t] + 1
      BY <1>1 DEF CfsTypeOK
    <2>2. Cfs!get_weight(nice[t]) \in Nat \ {0}
      BY <2>1, Weight
    <2> QED
      BY SMTT(60), <2>1, <2>2
  <1>4. /\ (delta[t] * 1024) \div Cfs!get_weight(nice[t]) \in Nat
        /\ (delta'[t] * 1024) \div Cfs!get_weight(nice[t]) \in Nat
        /\ (delta[t] * 1024) \div Cfs!get_weight(nice[t])
             <= (delta'[t] * 1024) \div Cfs!get_weight(nice[t])
    BY SMTT(60), <1>3, DivMonotone
  <1>5. Cfs!get_weight(nice[t])' = Cfs!get_weight(nice[t])
    BY <1>1
  <1> QED
    BY <1>1, <1>2, <1>4, <1>5, SMTT(60) DEF CfsTypeOK, Cfs!get_vruntime

\* set_priority keeps the vruntime the task has reached.
LEMMA PriorityKeeps ==
  ASSUME CfsTypeOK, NEW t \in Task, NEW n \in -20..19, Cfs!set_priority(t, n)
  PROVE  CfsTypeOK' /\ \A u \in Task : Cfs!get_vruntime(u)' = Cfs!get_vruntime(u)
  <1>1. /\ init_vruntime' = [init_vruntime EXCEPT ![t] = Cfs!get_vruntime(t)]
        /\ delta' = [delta EXCEPT ![t] = 0]
        /\ nice' = [nice EXCEPT ![t] = n]
        /\ UNCHANGED <<ready_queue, min_vruntime, held>>
    BY DEF Cfs!set_priority
  <1>2. CfsTypeOK'
    BY <1>1, Vruntime DEF CfsTypeOK
  <1>3. \A u \in Task : u # t => Cfs!get_vruntime(u)' = Cfs!get_vruntime(u)
    BY <1>1, SMTT(60) DEF CfsTypeOK, Cfs!get_vruntime
  <1>4. init_vruntime'[t] = Cfs!get_vruntime(t) /\ delta'[t] = 0 /\ nice'[t] = n
    BY <1>1 DEF CfsTypeOK
  <1>5. (delta'[t] * 1024) \div Cfs!get_weight(nice'[t]) = 0
    BY SMTT(60), <1>4, Weight, DivZero
  <1>6. Cfs!get_vruntime(t)' = Cfs!get_vruntime(t)
    BY <1>4, <1>5, Vruntime, SMTT(60) DEF Cfs!get_vruntime
  <1> QED
    BY <1>2, <1>3, <1>6

\* What BTreeMap::insert does to the places of the tasks.
LEMMA CfsInserted ==
  ASSUME CfsTypeOK, CfsPlaces, NEW t \in Task, NEW v \in Nat, Cfs!Insert(t, v), t \notin Cfs!Queued
  PROVE  /\ ready_queue' \in Seq(Entry)
         /\ \A i, j \in DOMAIN ready_queue' : ready_queue'[i].task = ready_queue'[j].task => i = j
         /\ Cfs!Queued' = Cfs!Queued \cup {t}
         /\ \A i \in DOMAIN ready_queue' :
              \/ ready_queue'[i].task = t /\ ready_queue'[i].vruntime = v
              \/ \E j \in DOMAIN ready_queue : ready_queue'[i] = ready_queue[j]
         /\ ready_queue' # <<>>
         /\ \/ ready_queue'[1].vruntime = v
            \/ \E j \in DOMAIN ready_queue : ready_queue'[1] = ready_queue[j] /\ ready_queue[j].vruntime <= v
  <1> DEFINE e == [task |-> t, vruntime |-> v]
  <1>1. PICK n \in 0..Len(ready_queue) :
          /\ \A i \in DOMAIN ready_queue : ready_queue[i].vruntime <= v <=> i <= n
          /\ ready_queue' = InsertAt(ready_queue, n + 1, e)
    <2>1. PICK n \in 0..Len(ready_queue) :
            /\ \A i \in DOMAIN ready_queue : ready_queue[i].vruntime <= v <=> i <= n
            /\ ready_queue' = SubSeq(ready_queue, 1, n) \o <<e>> \o SubSeq(ready_queue, n + 1, Len(ready_queue))
      BY DEF Cfs!Insert
    <2>2. n = (n + 1) - 1
      BY SMTT(60) DEF CfsTypeOK
    <2> QED
      BY <2>1, <2>2 DEF InsertAt
  <1>e. e \in Entry /\ e.task = t /\ e.vruntime = v
    BY DEF Entry
  <1> HIDE DEF e
  <1>2. /\ ready_queue' \in Seq(Entry) /\ Len(ready_queue') = Len(ready_queue) + 1
        /\ \A i \in 1..n : ready_queue'[i] = ready_queue[i]
        /\ ready_queue'[n + 1] = e
        /\ \A i \in (n + 2)..(Len(ready_queue) + 1) : ready_queue'[i] = ready_queue[i - 1]
    <2> DEFINE k == n + 1
    <2>1. k \in 1..(Len(ready_queue) + 1) /\ ready_queue \in Seq(Entry)
      BY SMTT(60) DEF CfsTypeOK
    <2>2. ready_queue' = InsertAt(ready_queue, k, e)
      BY <1>1
    <2>3. k - 1 = n /\ k + 1 = n + 2
      BY SMTT(60)
    <2> HIDE DEF k
    <2>4. /\ ready_queue' \in Seq(Entry) /\ Len(ready_queue') = Len(ready_queue) + 1
          /\ \A i \in 1..(k - 1) : ready_queue'[i] = ready_queue[i]
          /\ ready_queue'[k] = e
          /\ \A i \in (k + 1)..(Len(ready_queue) + 1) : ready_queue'[i] = ready_queue[i - 1]
      <3>1. e \in Entry
        BY <1>e
      <3>2. /\ InsertAt(ready_queue, k, e) \in Seq(Entry)
            /\ Len(InsertAt(ready_queue, k, e)) = Len(ready_queue) + 1
            /\ \A i \in 1..(k - 1) : InsertAt(ready_queue, k, e)[i] = ready_queue[i]
            /\ InsertAt(ready_queue, k, e)[k] = e
            /\ \A i \in (k + 1)..(Len(ready_queue) + 1) :
                 InsertAt(ready_queue, k, e)[i] = ready_queue[i - 1]
        BY <2>1, <3>1, Inserted
      <3> QED
        BY <2>2, <3>2
    <2> QED
      BY <2>3, <2>4 DEF k
  <1>d. DOMAIN ready_queue = 1..Len(ready_queue) /\ DOMAIN ready_queue' = 1..Len(ready_queue')
        /\ Len(ready_queue) \in Nat
    BY <1>2, SMTT(60) DEF CfsTypeOK
  <1> DEFINE f == [i \in DOMAIN ready_queue' |-> IF i < n + 1 THEN i ELSE i - 1]
  <1>3. /\ n + 1 \in DOMAIN ready_queue' /\ ready_queue'[n + 1] = e
        /\ \A i \in DOMAIN ready_queue' :
             i # n + 1 => f[i] \in DOMAIN ready_queue /\ ready_queue'[i] = ready_queue[f[i]]
    BY SMTT(60), <1>2, <1>d
  <1>4. \A i, j \in DOMAIN ready_queue' : i # n + 1 /\ j # n + 1 /\ f[i] = f[j] => i = j
    BY SMTT(60), <1>2, <1>d
  <1>5. \A i \in DOMAIN ready_queue : \E j \in DOMAIN ready_queue' : j # n + 1 /\ f[j] = i
    <2> SUFFICES ASSUME NEW i \in DOMAIN ready_queue
                 PROVE  \E j \in DOMAIN ready_queue' : j # n + 1 /\ f[j] = i
      OBVIOUS
    <2>1. CASE i <= n
      <3>1. i \in DOMAIN ready_queue' /\ i # n + 1 /\ f[i] = i
        BY SMTT(60), <1>2, <1>d, <2>1
      <3> QED
        BY <3>1
    <2>2. CASE n < i
      <3>1. i + 1 \in DOMAIN ready_queue' /\ i + 1 # n + 1 /\ f[i + 1] = i
        BY SMTT(60), <1>2, <1>d, <2>2
      <3> QED
        BY <3>1
    <2> QED
      BY SMTT(60), <1>d, <2>1, <2>2
  <1>6. 1 \in DOMAIN ready_queue' /\ (n + 1 = 1 \/ (1 \in DOMAIN ready_queue /\ f[1] = 1 /\ 1 <= n))
    BY SMTT(60), <1>2, <1>d
  <1> HIDE DEF f
  <1>q. \A i \in DOMAIN ready_queue : ready_queue[i].task \in Cfs!Queued /\ ready_queue[i].task # t
    BY DEF Cfs!Queued
  <1>7. \A i, j \in DOMAIN ready_queue' : ready_queue'[i].task = ready_queue'[j].task => i = j
    BY <1>e, <1>3, <1>4, <1>q, SMTT(60) DEF CfsPlaces
  <1>8. Cfs!Queued' = Cfs!Queued \cup {t}
    <2>1. \A i \in DOMAIN ready_queue' : ready_queue'[i].task \in Cfs!Queued \cup {t}
      BY <1>e, <1>3, <1>q
    <2>2. \A i \in DOMAIN ready_queue : ready_queue[i].task \in Cfs!Queued'
      BY <1>3, <1>5, SMTT(60) DEF Cfs!Queued
    <2>3. t \in Cfs!Queued'
      BY <1>e, <1>3 DEF Cfs!Queued
    <2> QED
      BY <2>1, <2>2, <2>3 DEF Cfs!Queued
  <1>9. \A i \in DOMAIN ready_queue' :
          \/ ready_queue'[i].task = t /\ ready_queue'[i].vruntime = v
          \/ \E j \in DOMAIN ready_queue : ready_queue'[i] = ready_queue[j]
    BY <1>e, <1>3
  <1>10. \/ ready_queue'[1].vruntime = v
         \/ \E j \in DOMAIN ready_queue : ready_queue'[1] = ready_queue[j] /\ ready_queue[j].vruntime <= v
    <2>1. CASE n + 1 = 1
      BY <1>e, <1>3, <2>1
    <2>2. CASE 1 \in DOMAIN ready_queue /\ f[1] = 1 /\ 1 <= n
      <3>1. ready_queue'[1] = ready_queue[1] /\ ready_queue[1].vruntime <= v
        <4>1. 1 # n + 1
          BY SMTT(60), <2>2
        <4> QED
          BY <1>1, <1>3, <1>6, <2>2, <4>1
      <3> QED
        BY <2>2, <3>1
    <2> QED
      BY <1>6, <2>1, <2>2
  <1>11. ready_queue' # <<>>
    BY SMTT(60), <1>2, <1>d
  <1> QED
    BY <1>2, <1>7, <1>8, <1>9, <1>10, <1>11

\* What taking out entry k does to the places of the tasks.
LEMMA CfsRemoved ==
  ASSUME CfsTypeOK, CfsPlaces, NEW k \in DOMAIN ready_queue,
         ready_queue' \in Seq(Entry), Len(ready_queue') = Len(ready_queue) - 1,
         \A i \in 1..Len(ready_queue') :
           ready_queue'[i] = IF i < k THEN ready_queue[i] ELSE ready_queue[i + 1]
  PROVE  /\ \A i, j \in DOMAIN ready_queue' : ready_queue'[i].task = ready_queue'[j].task => i = j
         /\ Cfs!Queued' = Cfs!Queued \ {ready_queue[k].task}
         /\ \A i \in DOMAIN ready_queue' : \E j \in DOMAIN ready_queue : ready_queue'[i] = ready_queue[j]
  <1> DEFINE f == [i \in DOMAIN ready_queue' |-> IF i < k THEN i ELSE i + 1]
  <1>d. DOMAIN ready_queue = 1..Len(ready_queue) /\ DOMAIN ready_queue' = 1..Len(ready_queue')
        /\ Len(ready_queue) \in Nat
    BY SMTT(60) DEF CfsTypeOK
  <1>1. \A i \in DOMAIN ready_queue' :
          /\ f[i] \in DOMAIN ready_queue /\ f[i] # k
          /\ ready_queue'[i] = ready_queue[f[i]]
    BY SMTT(60), <1>d
  <1>2. \A i, j \in DOMAIN ready_queue' : f[i] = f[j] => i = j
    BY SMTT(60), <1>d
  <1>3. \A i \in DOMAIN ready_queue : i # k => \E j \in DOMAIN ready_queue' : f[j] = i
    <2> SUFFICES ASSUME NEW i \in DOMAIN ready_queue, i # k
                 PROVE  \E j \in DOMAIN ready_queue' : f[j] = i
      OBVIOUS
    <2>1. CASE i < k
      <3>1. i \in DOMAIN ready_queue' /\ f[i] = i
        BY SMTT(60), <1>d, <2>1
      <3> QED
        BY <3>1
    <2>2. CASE k < i
      <3>1. i - 1 \in DOMAIN ready_queue' /\ f[i - 1] = i
        BY SMTT(60), <1>d, <2>2
      <3> QED
        BY <3>1
    <2> QED
      BY SMTT(60), <1>d, <2>1, <2>2
  <1> HIDE DEF f
  <1>4. \A i, j \in DOMAIN ready_queue' : ready_queue'[i].task = ready_queue'[j].task => i = j
    BY <1>1, <1>2, SMTT(60) DEF CfsPlaces
  <1>5. Cfs!Queued' = Cfs!Queued \ {ready_queue[k].task}
    <2>1. \A i \in DOMAIN ready_queue' :
            ready_queue'[i].task \in Cfs!Queued /\ ready_queue'[i].task # ready_queue[k].task
      BY <1>1, SMTT(60) DEF CfsPlaces, Cfs!Queued
    <2>2. \A i \in DOMAIN ready_queue : i # k => ready_queue[i].task \in Cfs!Queued'
      BY <1>1, <1>3, SMTT(60) DEF Cfs!Queued
    <2> QED
      BY <2>1, <2>2 DEF Cfs!Queued
  <1> QED
    BY <1>1, <1>4, <1>5

\* The queue and the tasks on the CPUs as MinIsLower sees them.
LEMMA CfsLower ==
  ASSUME CfsInv, ~removes, min_vruntime # None
  PROVE  /\ \A i \in DOMAIN ready_queue : min_vruntime <= ready_queue[i].vruntime
         /\ \A t \in held : min_vruntime <= Cfs!get_vruntime(t)
  BY DEF CfsInv, Cfs!MinIsLower

\* An entry of the map is a task under a vruntime.
LEMMA CfsEntry ==
  ASSUME CfsTypeOK, NEW i \in DOMAIN ready_queue
  PROVE  ready_queue[i].task \in Task /\ ready_queue[i].vruntime \in Nat
  <1>1. ready_queue[i] \in Entry
    BY SMTT(60) DEF CfsTypeOK
  <1> QED
    BY <1>1 DEF Entry

\* The new task is put at min_vruntime, before nobody; what is first then is not above it.
LEMMA CfsAdd ==
  ASSUME CfsInv, None \notin Int, NEW t \in Task, Cfs!add_task(t), UNCHANGED removes
  PROVE  CfsInv' /\ Cfs!Base!add_task(t)
  <1> DEFINE v == IF min_vruntime = None THEN 0 ELSE min_vruntime
  <1>i. CfsTypeOK /\ CfsPlaces
    BY DEF CfsInv
  <1>1. /\ t \notin Cfs!Queued /\ t \notin held
        /\ init_vruntime' = [init_vruntime EXCEPT ![t] = v]
        /\ Cfs!Insert(t, v)
        /\ min_vruntime' = Cfs!First(ready_queue')
        /\ delta' = delta /\ nice' = nice /\ held' = held
    BY DEF Cfs!add_task
  <1>v. v \in Nat
    BY <1>i DEF CfsTypeOK
  <1>2. /\ ready_queue' \in Seq(Entry)
        /\ \A i, j \in DOMAIN ready_queue' : ready_queue'[i].task = ready_queue'[j].task => i = j
        /\ Cfs!Queued' = Cfs!Queued \cup {t}
        /\ \A i \in DOMAIN ready_queue' :
             \/ ready_queue'[i].task = t /\ ready_queue'[i].vruntime = v
             \/ \E j \in DOMAIN ready_queue : ready_queue'[i] = ready_queue[j]
        /\ ready_queue' # <<>>
        /\ \/ ready_queue'[1].vruntime = v
           \/ \E j \in DOMAIN ready_queue : ready_queue'[1] = ready_queue[j] /\ ready_queue[j].vruntime <= v
    BY <1>i, <1>1, <1>v, CfsInserted
  <1>3. min_vruntime' = ready_queue'[1].vruntime /\ min_vruntime' \in Nat
    <2>1. min_vruntime' = ready_queue'[1].vruntime
      BY <1>1, <1>2 DEF Cfs!First
    <2>2. ready_queue'[1] \in Entry
      BY SMTT(60), <1>2
    <2> QED
      BY <2>1, <2>2 DEF Entry
  <1>4. CfsTypeOK'
    BY <1>i, <1>1, <1>2, <1>3, <1>v DEF CfsTypeOK
  <1>5. CfsPlaces'
    <2>1. \A i \in DOMAIN ready_queue' : ready_queue'[i].task \in Cfs!Queued \cup {t}
      BY <1>2 DEF Cfs!Queued
    <2>2. \A u \in Cfs!Queued : u \notin held
      BY <1>i DEF CfsPlaces, Cfs!Queued
    <2> QED
      BY <1>1, <1>2, <2>1, <2>2 DEF CfsPlaces
  <1>k. \A u \in Task : u # t => Cfs!get_vruntime(u)' = Cfs!get_vruntime(u)
    BY <1>i, <1>1, SMTT(60) DEF CfsTypeOK, Cfs!get_vruntime
  <1>e. CfsEntries'
    <2> SUFFICES ASSUME NEW i \in DOMAIN ready_queue', NEW u \in Task, ready_queue'[i].task = u
                 PROVE  ready_queue'[i].vruntime <= Cfs!get_vruntime(u)'
      BY DEF CfsEntries
    <2>1. CASE ready_queue'[i].task = t /\ ready_queue'[i].vruntime = v
      <3>1. init_vruntime'[t] <= Cfs!get_vruntime(t)'
        BY <1>4, VruntimeNext
      <3>2. init_vruntime'[t] = v
        BY <1>i, <1>1 DEF CfsTypeOK
      <3> QED
        BY <2>1, <3>1, <3>2
    <2>2. ASSUME NEW j \in DOMAIN ready_queue, ready_queue'[i] = ready_queue[j]
          PROVE  ready_queue'[i].vruntime <= Cfs!get_vruntime(u)'
      <3>1. ready_queue[j].task = u /\ u # t
        BY <1>1, <2>2 DEF Cfs!Queued
      <3>2. ready_queue[j].vruntime <= Cfs!get_vruntime(u)
        BY <3>1 DEF CfsInv, CfsEntries
      <3> QED
        BY <1>k, <2>2, <3>1, <3>2
    <2> QED
      BY <1>2, <2>1, <2>2
  <1>6. CfsStarted'
    BY <1>3, SMTT(60) DEF CfsStarted
  <1>7. Cfs!MinIsLower'
    <2> SUFFICES ASSUME ~removes
                 PROVE  /\ \A i \in DOMAIN ready_queue' : min_vruntime' <= ready_queue'[i].vruntime
                        /\ \A u \in held' : min_vruntime' <= Cfs!get_vruntime(u)'
      BY DEF Cfs!MinIsLower
    <2>1. \A j \in DOMAIN ready_queue : v <= ready_queue[j].vruntime /\ ready_queue[j].vruntime \in Nat
      <3>1. CASE min_vruntime = None
        BY <3>1, <1>i, CfsEntry, SMTT(60) DEF CfsInv, CfsStarted
      <3>2. CASE min_vruntime # None
        BY <3>2, <1>i, CfsEntry, CfsLower
      <3> QED
        BY <3>1, <3>2
    <2>2. \A u \in held : v <= Cfs!get_vruntime(u)
      <3>1. CASE min_vruntime = None
        BY <3>1 DEF CfsInv, CfsStarted
      <3>2. CASE min_vruntime # None
        BY <3>2, CfsLower
      <3> QED
        BY <3>1, <3>2
    <2>3. \A u \in held : Cfs!get_vruntime(u)' = Cfs!get_vruntime(u)
      <3> SUFFICES ASSUME NEW u \in held PROVE Cfs!get_vruntime(u)' = Cfs!get_vruntime(u)
        OBVIOUS
      <3>1. u \in Task /\ u # t
        BY <1>i, <1>1 DEF CfsTypeOK
      <3> QED
        BY <1>k, <3>1
    <2> HIDE DEF v
    <2>4. min_vruntime' = v
      BY SMTT(60), <1>2, <1>3, <1>v, <2>1
    <2>5. \A i \in DOMAIN ready_queue' : v <= ready_queue'[i].vruntime
      BY SMTT(60), <1>2, <1>v, <2>1
    <2> QED
      BY <1>1, <2>2, <2>3, <2>4, <2>5
  <1> QED
    BY <1>1, <1>2, <1>4, <1>5, <1>e, <1>6, <1>7 DEF CfsInv, Cfs!Base!add_task

\* The vruntimes depend on the entities only.
LEMMA CfsVruntimesKept ==
  ASSUME UNCHANGED <<init_vruntime, delta, nice>>
  PROVE  \A t : Cfs!get_vruntime(t)' = Cfs!get_vruntime(t)
  BY SMTT(60) DEF Cfs!get_vruntime

\* remove_task takes out the entry at the vruntime of the task.
LEMMA CfsRemove ==
  ASSUME CfsInv, None \notin Int, NEW t \in Task, Cfs!remove_task(t), UNCHANGED removes
  PROVE  CfsInv' /\ Cfs!Base!remove_task(t)
  <1>i. CfsTypeOK /\ CfsPlaces
    BY DEF CfsInv
  <1>1. PICK k \in DOMAIN ready_queue :
          /\ ready_queue[k] = [task |-> t, vruntime |-> Cfs!get_vruntime(t)]
          /\ ready_queue' = RemoveAt(ready_queue, k)
    BY DEF Cfs!remove_task, RemoveAt
  <1>2. /\ min_vruntime' = Cfs!First(ready_queue')
        /\ init_vruntime' = init_vruntime /\ delta' = delta /\ nice' = nice /\ held' = held
    BY DEF Cfs!remove_task, Cfs!entityVars
  <1>r. removes
    BY DEF Cfs!remove_task
  <1>3. /\ ready_queue' \in Seq(Entry) /\ Len(ready_queue') = Len(ready_queue) - 1
        /\ \A i \in 1..Len(ready_queue') :
             ready_queue'[i] = IF i < k THEN ready_queue[i] ELSE ready_queue[i + 1]
    BY <1>i, <1>1, Removed DEF CfsTypeOK
  <1>4. /\ \A i, j \in DOMAIN ready_queue' : ready_queue'[i].task = ready_queue'[j].task => i = j
        /\ Cfs!Queued' = Cfs!Queued \ {ready_queue[k].task}
        /\ \A i \in DOMAIN ready_queue' : \E j \in DOMAIN ready_queue : ready_queue'[i] = ready_queue[j]
    BY <1>i, <1>3, CfsRemoved
  <1>5. ready_queue[k].task = t
    BY SMTT(60), <1>1
  <1>6. min_vruntime' \in Nat \cup {None}
    <2>1. CASE ready_queue' = <<>>
      BY <1>2, <2>1 DEF Cfs!First
    <2>2. CASE ready_queue' # <<>>
      <3>1. ready_queue'[1] \in Entry
        BY SMTT(60), <1>3, <2>2
      <3> QED
        BY <1>2, <2>2, <3>1 DEF Cfs!First, Entry
    <2> QED
      BY <2>1, <2>2
  <1>7. CfsTypeOK'
    BY <1>i, <1>2, <1>3, <1>6 DEF CfsTypeOK
  <1>8. CfsPlaces'
    <2>1. \A i \in DOMAIN ready_queue' : ready_queue'[i].task \in Cfs!Queued
      BY <1>4 DEF Cfs!Queued
    <2>2. \A u \in Cfs!Queued : u \notin held
      BY <1>i DEF CfsPlaces, Cfs!Queued
    <2> QED
      BY <1>2, <1>4, <2>1, <2>2 DEF CfsPlaces
  <1>e. CfsEntries'
    BY <1>2, <1>4, CfsVruntimesKept, SMTT(60) DEF CfsInv, CfsEntries
  <1>9. CfsStarted' /\ Cfs!MinIsLower'
    BY <1>r DEF CfsStarted, Cfs!MinIsLower
  <1>10. t \in Cfs!Queued
    BY <1>5 DEF Cfs!Queued
  <1> QED
    BY <1>2, <1>4, <1>5, <1>7, <1>8, <1>e, <1>9, <1>10 DEF CfsInv, Cfs!Base!remove_task

\* pick_next_task: the first entry of the map.
LEMMA CfsPick ==
  ASSUME CfsInv, None \notin Int, NEW t \in Task, Cfs!pick_next_task(t), UNCHANGED removes
  PROVE  CfsInv' /\ Cfs!Base!pick_next_task(t)
  <1>i. CfsTypeOK /\ CfsPlaces
    BY DEF CfsInv
  <1>1. /\ ready_queue # <<>> /\ t = Head(ready_queue).task
        /\ ready_queue' = Tail(ready_queue)
        /\ held' = held \cup {t} /\ min_vruntime' = min_vruntime
        /\ init_vruntime' = init_vruntime /\ delta' = delta /\ nice' = nice
    BY DEF Cfs!pick_next_task, Cfs!entityVars
  <1>2. /\ 1 \in DOMAIN ready_queue /\ ready_queue[1].task = t
        /\ ready_queue' \in Seq(Entry) /\ Len(ready_queue') = Len(ready_queue) - 1
        /\ \A i \in 1..Len(ready_queue') :
             ready_queue'[i] = IF i < 1 THEN ready_queue[i] ELSE ready_queue[i + 1]
    BY <1>i, <1>1, SMTT(60) DEF CfsTypeOK
  <1>3. /\ \A i, j \in DOMAIN ready_queue' : ready_queue'[i].task = ready_queue'[j].task => i = j
        /\ Cfs!Queued' = Cfs!Queued \ {t}
        /\ \A i \in DOMAIN ready_queue' : \E j \in DOMAIN ready_queue : ready_queue'[i] = ready_queue[j]
    BY <1>i, <1>2, CfsRemoved
  <1>4. t \in Cfs!Queued
    BY <1>2 DEF Cfs!Queued
  <1>5. CfsTypeOK'
    BY <1>i, <1>1, <1>2 DEF CfsTypeOK
  <1>6. CfsPlaces'
    <2>1. \A i \in DOMAIN ready_queue' : ready_queue'[i].task \in Cfs!Queued \ {t}
      BY <1>3 DEF Cfs!Queued
    <2>2. \A u \in Cfs!Queued : u \notin held
      BY <1>i DEF CfsPlaces, Cfs!Queued
    <2> QED
      BY <1>1, <1>3, <2>1, <2>2 DEF CfsPlaces
  <1>7. CfsEntries'
    BY <1>1, <1>3, CfsVruntimesKept, SMTT(60) DEF CfsInv, CfsEntries
  <1>8. CfsStarted'
    BY <1>1 DEF CfsInv, CfsStarted
  <1>9. Cfs!MinIsLower'
    <2> SUFFICES ASSUME ~removes, min_vruntime # None
                 PROVE  /\ \A i \in DOMAIN ready_queue' : min_vruntime <= ready_queue'[i].vruntime
                        /\ \A u \in held \cup {t} : min_vruntime <= Cfs!get_vruntime(u)
      BY <1>1, CfsVruntimesKept DEF Cfs!MinIsLower
    <2>1. min_vruntime <= ready_queue[1].vruntime /\ ready_queue[1].vruntime <= Cfs!get_vruntime(t)
      BY <1>2, CfsLower DEF CfsInv, CfsEntries
    <2>2. min_vruntime \in Nat /\ ready_queue[1].vruntime \in Nat /\ Cfs!get_vruntime(t) \in Nat
      BY <1>i, <1>2, CfsEntry, Vruntime DEF CfsTypeOK
    <2>3. min_vruntime <= Cfs!get_vruntime(t)
      BY SMTT(60), <2>1, <2>2
    <2> QED
      BY <1>3, <2>3, CfsLower
  <1>10. Cfs!Base!Cardinality(held) < Cpus
    <2>1. Cfs!Base!Cardinality(held) = Cfs!Cardinality(held)
      BY DEF Cfs!Base!Cardinality, Cfs!Cardinality
    <2> QED
      BY <2>1 DEF Cfs!pick_next_task
  <1> QED
    BY <1>1, <1>3, <1>4, <1>5, <1>6, <1>7, <1>8, <1>9, <1>10 DEF CfsInv, Cfs!Base!pick_next_task

\* put_prev_task: the task goes back under its vruntime, which is not below min_vruntime.
LEMMA CfsPut ==
  ASSUME CfsInv, None \notin Int, NEW t \in Task, Cfs!put_prev_task(t), UNCHANGED removes
  PROVE  CfsInv' /\ Cfs!Base!put_prev_task(t)
  <1> DEFINE v == Cfs!get_vruntime(t)
  <1>i. CfsTypeOK /\ CfsPlaces
    BY DEF CfsInv
  <1>1. /\ t \in held /\ held' = held \ {t} /\ Cfs!Insert(t, v) /\ min_vruntime' = min_vruntime
        /\ init_vruntime' = init_vruntime /\ delta' = delta /\ nice' = nice
    BY DEF Cfs!put_prev_task, Cfs!entityVars
  <1>v. v \in Nat
    BY <1>i, Vruntime
  <1>k. \A u : Cfs!get_vruntime(u)' = Cfs!get_vruntime(u)
    BY <1>1, CfsVruntimesKept
  <1>q. t \notin Cfs!Queued
    BY <1>i, <1>1 DEF CfsPlaces, Cfs!Queued
  <1>2. /\ ready_queue' \in Seq(Entry)
        /\ \A i, j \in DOMAIN ready_queue' : ready_queue'[i].task = ready_queue'[j].task => i = j
        /\ Cfs!Queued' = Cfs!Queued \cup {t}
        /\ \A i \in DOMAIN ready_queue' :
             \/ ready_queue'[i].task = t /\ ready_queue'[i].vruntime = v
             \/ \E j \in DOMAIN ready_queue : ready_queue'[i] = ready_queue[j]
    BY <1>i, <1>1, <1>v, <1>q, CfsInserted
  <1>3. CfsTypeOK'
    BY <1>i, <1>1, <1>2 DEF CfsTypeOK
  <1>4. CfsPlaces'
    <2>1. \A i \in DOMAIN ready_queue' : ready_queue'[i].task \in Cfs!Queued \cup {t}
      BY <1>2 DEF Cfs!Queued
    <2>2. \A u \in Cfs!Queued : u \notin held
      BY <1>i DEF CfsPlaces, Cfs!Queued
    <2> QED
      BY <1>1, <1>2, <2>1, <2>2 DEF CfsPlaces
  <1>5. CfsEntries'
    <2>1. v <= v
      BY SMTT(60), <1>v
    <2> QED
      BY <1>2, <1>k, <2>1 DEF CfsInv, CfsEntries
  <1>6. CfsStarted'
    BY <1>1 DEF CfsInv, CfsStarted
  <1>7. Cfs!MinIsLower'
    <2> SUFFICES ASSUME ~removes, min_vruntime # None
                 PROVE  /\ \A i \in DOMAIN ready_queue' : min_vruntime <= ready_queue'[i].vruntime
                        /\ \A u \in held \ {t} : min_vruntime <= Cfs!get_vruntime(u)
      BY <1>1, <1>k DEF Cfs!MinIsLower
    <2> QED
      BY <1>1, <1>2, CfsLower
  <1> QED
    BY <1>1, <1>2, <1>3, <1>4, <1>5, <1>6, <1>7 DEF CfsInv, Cfs!Base!put_prev_task

\* Only the vruntime of a task on a CPU grows, and none gets smaller.
LEMMA CfsHeldSteps ==
  ASSUME CfsInv, NEW t \in held, t \in Task, UNCHANGED <<ready_queue, min_vruntime, removes>>,
         CfsTypeOK', held' \subseteq held, held' = held \/ held' = held \ {t},
         \A u \in Task : u # t => Cfs!get_vruntime(u)' = Cfs!get_vruntime(u),
         Cfs!get_vruntime(t) <= Cfs!get_vruntime(t)'
  PROVE  CfsInv' /\ UNCHANGED Cfs!Queued
  <1>i. CfsTypeOK /\ CfsPlaces
    BY DEF CfsInv
  <1>1. CfsPlaces'
    BY <1>i DEF CfsPlaces
  <1>2. CfsEntries'
    <2>1. \A i \in DOMAIN ready_queue : ready_queue[i].task \in Task /\ ready_queue[i].task # t
      BY <1>i, CfsEntry DEF CfsPlaces
    <2> QED
      BY <2>1 DEF CfsInv, CfsEntries
  <1>3. CfsStarted'
    BY DEF CfsInv, CfsStarted
  <1>4. Cfs!MinIsLower'
    <2> SUFFICES ASSUME ~removes, min_vruntime # None, NEW u \in held'
                 PROVE  min_vruntime <= Cfs!get_vruntime(u)'
      BY CfsLower DEF Cfs!MinIsLower
    <2>1. u \in Task /\ u \in held
      BY <1>i DEF CfsTypeOK
    <2>2. min_vruntime \in Nat /\ Cfs!get_vruntime(u) \in Nat /\ Cfs!get_vruntime(u)' \in Nat
      <3>1. Cfs!get_vruntime(u)' \in Nat
        BY <2>1, VruntimeNext
      <3> QED
        BY <1>i, <2>1, <3>1, Vruntime DEF CfsTypeOK
    <2>3. min_vruntime <= Cfs!get_vruntime(u) /\ Cfs!get_vruntime(u) <= Cfs!get_vruntime(u)'
      BY SMTT(60), <2>1, <2>2, CfsLower
    <2> QED
      BY SMTT(60), <2>2, <2>3
  <1>5. UNCHANGED Cfs!Queued
    BY DEF Cfs!Queued
  <1> QED
    BY <1>1, <1>2, <1>3, <1>4, <1>5 DEF CfsInv

\* task_tick only raises the vruntime of a task on a CPU.
LEMMA CfsTick ==
  ASSUME CfsInv, NEW t \in Task, Cfs!task_tick(t), UNCHANGED removes
  PROVE  CfsInv' /\ UNCHANGED Cfs!Base!vars
  <1>1. CfsTypeOK /\ t \in held /\ UNCHANGED <<ready_queue, min_vruntime, held>>
    BY DEF CfsInv, Cfs!task_tick
  <1>2. CfsTypeOK'
    BY <1>1, SMTT(60) DEF CfsTypeOK, Cfs!task_tick
  <1>3. CfsInv' /\ UNCHANGED Cfs!Queued
    BY <1>1, <1>2, TickGrows, CfsHeldSteps
  <1> QED
    BY <1>1, <1>3 DEF Cfs!Base!vars

\* set_priority moves the run time of a task into its initial vruntime: get_vruntime stays.
LEMMA CfsPriority ==
  ASSUME CfsInv, NEW t \in Task, NEW n \in -20..19, Cfs!set_priority(t, n), UNCHANGED removes
  PROVE  CfsInv' /\ UNCHANGED Cfs!Base!vars
  <1>1. CfsTypeOK /\ t \in held /\ UNCHANGED <<ready_queue, min_vruntime, held>>
    BY DEF CfsInv, Cfs!set_priority
  <1>2. CfsTypeOK' /\ \A u \in Task : Cfs!get_vruntime(u)' = Cfs!get_vruntime(u)
    BY <1>1, PriorityKeeps
  <1>3. Cfs!get_vruntime(t) <= Cfs!get_vruntime(t)'
    BY SMTT(60), <1>1, <1>2, Vruntime
  <1>4. CfsInv' /\ UNCHANGED Cfs!Queued
    BY <1>1, <1>2, <1>3, CfsHeldSteps
  <1> QED
    BY <1>1, <1>4 DEF Cfs!Base!vars

\* A task that blocks or exits is not put back.
LEMMA CfsLeave ==
  ASSUME CfsInv, NEW t \in Task, Cfs!Leave(t), UNCHANGED removes
  PROVE  CfsInv' /\ Cfs!Base!Leave(t)
  <1>1. /\ CfsTypeOK /\ t \in held /\ held' = held \ {t}
        /\ UNCHANGED <<ready_queue, min_vruntime>> /\ UNCHANGED <<init_vruntime, delta, nice>>
    BY DEF CfsInv, Cfs!Leave, Cfs!entityVars
  <1>2. CfsTypeOK'
    BY <1>1 DEF CfsTypeOK
  <1>3. \A u : Cfs!get_vruntime(u)' = Cfs!get_vruntime(u)
    BY <1>1, CfsVruntimesKept
  <1>4. Cfs!get_vruntime(t) <= Cfs!get_vruntime(t)'
    BY SMTT(60), <1>1, <1>3, Vruntime
  <1>5. CfsInv' /\ UNCHANGED Cfs!Queued
    BY <1>1, <1>2, <1>3, <1>4, CfsHeldSteps
  <1> QED
    BY <1>1, <1>5 DEF Cfs!Base!Leave

\* Every step keeps the invariant, and is a step of BaseScheduler or leaves it alone.
LEMMA CfsStep ==
  ASSUME CfsInv, None \notin Int, Nice \subseteq -20..19, [Cfs!Next]_Cfs!vars
  PROVE  CfsInv' /\ [Cfs!Base!Next]_Cfs!Base!vars
  <1>1. CASE UNCHANGED Cfs!vars
    <2>1. UNCHANGED <<removes, ready_queue, min_vruntime, held>> /\ UNCHANGED <<init_vruntime, delta, nice>>
      BY <1>1 DEF Cfs!vars, Cfs!entityVars
    <2>2. UNCHANGED Cfs!Base!vars
      BY <2>1 DEF Cfs!Base!vars, Cfs!Queued
    <2>3. \A u : Cfs!get_vruntime(u)' = Cfs!get_vruntime(u)
      BY <2>1, CfsVruntimesKept
    <2>4. CfsInv'
      BY <2>1, <2>3 DEF CfsInv, CfsTypeOK, CfsPlaces, CfsEntries, CfsStarted, Cfs!MinIsLower
    <2> QED
      BY <2>2, <2>4
  <1>2. CASE Cfs!Next
    <2>1. PICK t \in Task :
            \/ Cfs!add_task(t) \/ Cfs!remove_task(t) \/ Cfs!pick_next_task(t) \/ Cfs!put_prev_task(t)
            \/ Cfs!task_tick(t) \/ Cfs!Leave(t) \/ \E n \in Nice : Cfs!set_priority(t, n)
      BY <1>2 DEF Cfs!Next
    <2>2. UNCHANGED removes
      BY <1>2 DEF Cfs!Next
    <2>3. CASE Cfs!add_task(t)
      BY <2>2, <2>3, CfsAdd DEF Cfs!Base!Next
    <2>4. CASE Cfs!remove_task(t)
      BY <2>2, <2>4, CfsRemove DEF Cfs!Base!Next
    <2>5. CASE Cfs!pick_next_task(t)
      BY <2>2, <2>5, CfsPick DEF Cfs!Base!Next
    <2>6. CASE Cfs!put_prev_task(t)
      BY <2>2, <2>6, CfsPut DEF Cfs!Base!Next
    <2>7. CASE Cfs!task_tick(t)
      BY <2>2, <2>7, CfsTick
    <2>8. CASE Cfs!Leave(t)
      BY <2>2, <2>8, CfsLeave DEF Cfs!Base!Next
    <2>9. ASSUME NEW n \in Nice, Cfs!set_priority(t, n)
          PROVE  CfsInv' /\ UNCHANGED Cfs!Base!vars
      <3>1. n \in -20..19
        OBVIOUS
      <3> QED
        BY <2>2, <2>9, <3>1, CfsPriority
    <2> QED
      BY <2>1, <2>3, <2>4, <2>5, <2>6, <2>7, <2>8, <2>9
  <1> QED
    BY <1>1, <1>2

\* The map is empty at first.
LEMMA CfsInit ==
  ASSUME None \notin Int, Cfs!Init PROVE CfsInv /\ Cfs!Base!Init
  <1>1. /\ ready_queue = <<>> /\ held = {} /\ min_vruntime = None
        /\ init_vruntime = [t \in Task |-> 0] /\ delta = [t \in Task |-> 0] /\ nice = [t \in Task |-> 0]
    BY DEF Cfs!Init
  <1>2. CfsTypeOK
    BY <1>1, SMTT(60) DEF CfsTypeOK
  <1> QED
    BY <1>1, <1>2, SMTT(60) DEF CfsInv, CfsPlaces, CfsEntries, CfsStarted, Cfs!MinIsLower, Cfs!Base!Init, Cfs!Queued

\* CFScheduler is a BaseScheduler, with all priorities that Linux knows and also if tasks are
\* removed: it gives out the tasks that add_task and put_prev_task brought to it, each to one CPU.
THEOREM CfsImplements ==
  ASSUME None \notin Int, Nice \subseteq -20..19
  PROVE  Cfs!Spec => Cfs!ImplementsBase
  <1>1. Cfs!Init => CfsInv /\ Cfs!Base!Init
    BY CfsInit
  <1>2. CfsInv /\ [Cfs!Next]_Cfs!vars => CfsInv' /\ [Cfs!Base!Next]_Cfs!Base!vars
    BY CfsStep
  <1> QED
    BY <1>1, <1>2, PTL DEF Cfs!Spec, Cfs!ImplementsBase, Cfs!Base!Spec

\* Unless tasks are removed, min_vruntime, from which add_task starts a task, never passes the
\* vruntime of a task in the queue or on a CPU.
THEOREM CfsMinIsLower ==
  ASSUME None \notin Int, Nice \subseteq -20..19
  PROVE  Cfs!Spec => Cfs!NoOvertaking
  <1>1. Cfs!Init => CfsInv
    BY CfsInit
  <1>2. CfsInv /\ [Cfs!Next]_Cfs!vars => CfsInv'
    BY CfsStep
  <1>3. CfsInv' => [Cfs!MinIsLower']_Cfs!vars
    BY DEF CfsInv
  <1> QED
    BY <1>1, <1>2, <1>3, PTL DEF Cfs!Spec, Cfs!NoOvertaking

----------------------------------------------------------------------------
(* The task layer.                                                         *)

LayerInv == TypeOK /\ Ownership /\ RefCount /\ BlockedHasWaker

\* The initial state: nothing created, nothing queued, every CPU idle.
LEMMA LayerInitInv == Init => LayerInv
  <1> SUFFICES ASSUME Init PROVE LayerInv
    OBVIOUS
  <1>1. TypeOK
    BY Zenon DEF Init, TypeOK
  <1>2. Ownership /\ RefCount /\ BlockedHasWaker
    BY SMTT(60), NoneAssumption DEF Init, Ownership, RefCount, BlockedHasWaker, Held, OnCpu
  <1> QED
    BY SMTT(60), <1>1, <1>2 DEF LayerInv

\* Creating a task puts its only reference in the ready queue.
LEMMA LayerSpawnInv ==
  ASSUME LayerInv, NEW t \in Task, Spawn(t), UNCHANGED wakers PROVE LayerInv'
  BY SMTT(60), NoneAssumption
  DEF Spawn, SetState, LayerInv, TypeOK, Ownership, RefCount, BlockedHasWaker, Held, TaskState, OnCpu

\* Dispatch moves the queue's reference to a CPU that had no current task.
LEMMA LayerPickNextInv ==
  ASSUME LayerInv, NEW c \in Cpu, NEW t \in Task, PickNext(c, t), UNCHANGED wakers PROVE LayerInv'
  BY SMTT(60), NoneAssumption
  DEF PickNext, SetState, LayerInv, TypeOK, Ownership, RefCount, BlockedHasWaker, Held, TaskState, OnCpu

\* Registering a waker and being Blocking happen together.
LEMMA LayerRegisterInv ==
  ASSUME LayerInv, NEW c \in Cpu, NEW n \in Node, Register(c, n) PROVE LayerInv'
  BY SMTT(60), NoneAssumption
  DEF Register, SetBlocking, SetState, LayerInv, TypeOK, Ownership, RefCount, BlockedHasWaker, Held,
      TaskState, OnCpu

\* A Running task may leave a list: it is not about to block.
LEMMA LayerDeregisterInv ==
  ASSUME LayerInv, NEW c \in Cpu, NEW n \in Node, Deregister(c, n) PROVE LayerInv'
  BY SMTT(60), NoneAssumption
  DEF Deregister, taskVars, LayerInv, TypeOK, Ownership, RefCount, BlockedHasWaker, Held,
      TaskState, OnCpu

\* A wakeup queues the task only if it was Blocked, so never twice.
LEMMA LayerWakeInv ==
  ASSUME LayerInv, NEW t \in Task, NEW n \in Node, Wake(t, n) PROVE LayerInv'
  <1> USE NoneAssumption
      DEF Wake, wakeup_task, SetState, LayerInv, TypeOK, Ownership, RefCount, BlockedHasWaker, Held
  <1>1. CASE state[t] \in {"Running", "Runable"}
    BY SMTT(60), <1>1
  <1>2. CASE state[t] = "Blocking"
    BY SMTT(60), <1>2 DEF TaskState, OnCpu
  <1>3. CASE state[t] = "Blocked"
    BY SMTT(60), <1>3 DEF TaskState, OnCpu
  <1>4. CASE state[t] \in {"Waked", "Exited"}
    <2>1. panicked' = TRUE /\ UNCHANGED <<state, ready, current, strong>>
      BY SMTT(60), <1>4
    <2> QED
      BY SMTT(60), <1>4, <2>1
  <1> QED
    BY SMTT(60), <1>1, <1>2, <1>3, <1>4

\* The four arms of run_task after Poll::Pending.
LEMMA LayerPollPendingInv ==
  ASSUME LayerInv, NEW c \in Cpu, PollPending(c), UNCHANGED wakers PROVE LayerInv'
  <1> current[c] \in Task
    BY SMTT(60) DEF PollPending, LayerInv, TypeOK
  <1>1. CASE PendingRunning(c)
    BY SMTT(60), <1>1, NoneAssumption
    DEF PendingRunning, SetState, LayerInv, TypeOK, Ownership, RefCount, BlockedHasWaker, Held,
        TaskState, OnCpu
  <1>2. CASE PendingBlocking(c)
    BY SMTT(60), <1>2, NoneAssumption
    DEF PendingBlocking, SetState, LayerInv, TypeOK, Ownership, RefCount, BlockedHasWaker, Held,
        TaskState, OnCpu
  <1>3. CASE PendingWaked(c)
    BY SMTT(60), <1>3, NoneAssumption
    DEF PendingWaked, SetState, LayerInv, TypeOK, Ownership, RefCount, BlockedHasWaker, Held,
        TaskState, OnCpu
  <1>4. CASE PendingPanic(c)
    BY SMTT(60), <1>4, NoneAssumption
    DEF PendingPanic, LayerInv, TypeOK, Ownership, RefCount, BlockedHasWaker, Held
  <1> QED
    BY SMTT(60), <1>1, <1>2, <1>3, <1>4 DEF PollPending

\* Exit: Exited while still current, then the CPU's reference is dropped.
LEMMA LayerExitInv ==
  ASSUME LayerInv, NEW c \in Cpu, SetExited(c) \/ ExitClean(c), UNCHANGED wakers PROVE LayerInv'
  <1> current[c] \in Task
    BY SMTT(60) DEF SetExited, ExitClean, LayerInv, TypeOK
  <1>1. CASE SetExited(c)
    BY SMTT(60), <1>1, NoneAssumption
    DEF SetExited, SetState, LayerInv, TypeOK, Ownership, RefCount, BlockedHasWaker, Held,
        TaskState, OnCpu
  <1>2. CASE ExitClean(c)
    BY SMTT(60), <1>2, NoneAssumption
    DEF ExitClean, LayerInv, TypeOK, Ownership, RefCount, BlockedHasWaker, Held,
        TaskState, OnCpu
  <1> QED
    BY SMTT(60), <1>1, <1>2

\* Every step keeps the inductive invariant.
LEMMA LayerNextInv == LayerInv /\ [Next]_vars => LayerInv'
  <1> SUFFICES ASSUME LayerInv, [Next]_vars PROVE LayerInv'
    OBVIOUS
  <1>1. CASE UNCHANGED vars
    BY SMTT(60), <1>1 DEF vars, LayerInv, TypeOK, Ownership, RefCount, BlockedHasWaker, Held
  <1>2. ASSUME NEW t \in Task, Spawn(t), UNCHANGED wakers PROVE LayerInv'
    BY SMTT(60), <1>2, LayerSpawnInv
  <1>3. ASSUME NEW t \in Task, NEW n \in Node, Wake(t, n) PROVE LayerInv'
    BY SMTT(60), <1>3, LayerWakeInv
  <1>4. ASSUME NEW c \in Cpu, Step(c) PROVE LayerInv'
    BY SMTT(60), <1>4, LayerPickNextInv, LayerRegisterInv, LayerDeregisterInv, LayerPollPendingInv, LayerExitInv DEF Step
  <1> QED
    BY SMTT(60), <1>1, <1>2, <1>3, <1>4 DEF Next

\* The inductive invariant holds of every behaviour.
LEMMA TaskLayerSafe == Spec => []LayerInv
  BY LayerInitInv, LayerNextInv, PTL DEF Spec

\* No interleaving of spawning, dispatching, blocking, waking and exiting loses a task, queues it
\* twice or lets two CPUs run it.
THEOREM TaskLayerOwnership == Spec => []Ownership
  BY TaskLayerSafe, PTL DEF LayerInv

\* The scheduler's side holds one reference to a task for as long as it can be run again, and none
\* once it is gone.
THEOREM TaskLayerRefCount == Spec => []RefCount
  BY TaskLayerSafe, PTL DEF LayerInv

\* A task that is Blocked, or about to be, is on a list that can wake it.
THEOREM TaskLayerWakeable == Spec => []BlockedHasWaker
  BY TaskLayerSafe, PTL DEF LayerInv
=============================================================================
