-------------------------- MODULE TrampolineProofs --------------------------
(***************************************************************************)
(* Proofs about the scheduling loop, for every set of tasks and CPUs: its  *)
(* inductive invariant, that every step preserves it, the safety           *)
(* properties that follow, and that every step of the loop is one          *)
(* operation of the task layer or none.                                    *)
(***************************************************************************)
EXTENDS Trampoline, TLAPS

\* Every leaf goes to Zenon, with time to spare, unless it names another prover.
USE ZenonT(60)

HoldsLock(c, t) == (pc[c] \in Locked /\ curr[c] = t) \/ (adding[c] /\ waking[c][1] = t)

\* Who holds which state lock.
LockInv ==
  /\ \A t \in Task, c \in Cpu : slock[t] = c <=> HoldsLock(c, t)
  /\ \A c \in Cpu : waking[c] # None => pc[c] \notin Locked
  /\ \A c \in Cpu : adding[c] => waking[c] # None

\* What each point of the loop knows of the CPU's own variables and of curr's state.
PcInvAt(c) ==
  /\ pc[c] \in {"loop", "user"} => curr[c] = None
  /\ pc[c] \notin {"loop", "user"} => curr[c] \in Task
  /\ pc[c] \in {"poll", "exit", "pend", "clean", "forget"} => current[c] = curr[c]
  /\ pc[c] \in {"init", "unlock"} => current[c] = None
  /\ pc[c] = "user" => current[c] # None
  /\ pc[c] \in {"loop", "user"} /\ current[c] # None => state[current[c]] = "Running"
  /\ pc[c] \in {"poll", "pend"} => state[curr[c]] \in OnCpu \cup {"Exited"}
  /\ pc[c] \in {"clean", "init"} => state[curr[c]] = "Runable"
  /\ pc[c] = "forget" => state[curr[c]] = "Blocked"
  /\ pc[c] = "unlock" => state[curr[c]] \in {"Runable", "Blocked"}
  /\ pc[c] = "exit" => state[curr[c]] = "Exited"
  /\ adding[c] => waking[c][1] \in Task /\ state[waking[c][1]] = "Runable"

PcInv == \A c \in Cpu : PcInvAt(c)

\* A Runable task is in the queue or in one CPU's hands.
PlaceInv ==
  /\ QueueDistinct
  /\ \A t \in Task : state[t] = "Runable" => InQueue(t) \/ \E c \in Cpu : InHand(c, t)
  /\ \A t \in Task : InQueue(t) => state[t] = "Runable"
  /\ \A t \in Task, c, d \in Cpu : InHand(c, t) /\ InHand(d, t) => c = d
  /\ \A c \in Cpu : ~(pc[c] = "init" /\ adding[c] /\ waking[c][1] = curr[c])

\* A task on a CPU is on one.
CpuInv ==
  /\ \A t \in Task : state[t] \in OnCpu => \E c \in Cpu : currentOf(c) = t
  /\ \A c, d \in Cpu : currentOf(c) # None /\ currentOf(c) = currentOf(d) => c = d

Gone(t) == state[t] = "New" \/ (state[t] = "Exited" /\ \A c \in Cpu : currentOf(c) # t)
Cleaning(t) == \E c \in Cpu : pc[c] = "clean" /\ curr[c] = t

\* One reference, and a second one between put_prev_task and clean_current.
StrongInv ==
  \A t \in Task : strong[t] = (IF Gone(t) THEN 0 ELSE 1) + (IF Cleaning(t) THEN 1 ELSE 0)

IInv == TypeOK /\ LockInv /\ PcInv /\ PlaceInv /\ CpuInv /\ StrongInv

----------------------------------------------------------------------------
(* The queue.                                                              *)

\* add_task adds t at the end and nothing else.
LEMMA EnqueueFacts ==
  ASSUME queue \in Seq(Task), NEW t \in Task, Enqueue(t)
  PROVE  /\ queue' \in Seq(Task)
         /\ \A u \in Task : InQueue(u)' <=> InQueue(u) \/ u = t
         /\ (/\ ~InQueue(t)
             /\ \A i, j \in DOMAIN queue : queue[i] = queue[j] => i = j)
            => \A i, j \in DOMAIN queue' : queue'[i] = queue'[j] => i = j
  <1>1. /\ queue' \in Seq(Task)
        /\ DOMAIN queue = 1 .. Len(queue)
        /\ DOMAIN queue' = 1 .. Len(queue) + 1
        /\ Len(queue) \in Nat
        /\ \A i \in 1 .. Len(queue) : queue'[i] = queue[i]
        /\ queue'[Len(queue) + 1] = t
    BY SMTT(60) DEF Enqueue
  <1>2. ASSUME NEW u \in Task PROVE InQueue(u)' <=> InQueue(u) \/ u = t
    BY <1>1, SMTT(60) DEF InQueue
  <1>3. ASSUME ~InQueue(t), \A i, j \in DOMAIN queue : queue[i] = queue[j] => i = j
        PROVE  \A i, j \in DOMAIN queue' : queue'[i] = queue'[j] => i = j
    BY <1>1, <1>3, SMTT(60) DEF InQueue
  <1> QED
    BY <1>1, <1>2, <1>3

\* pick_next_task takes one task out.
LEMMA DequeueFacts ==
  ASSUME queue \in Seq(Task), NEW t \in Task, Dequeue(t),
         \A i, j \in DOMAIN queue : queue[i] = queue[j] => i = j
  PROVE  /\ queue' \in Seq(Task)
         /\ InQueue(t)
         /\ \A u \in Task : InQueue(u)' <=> InQueue(u) /\ u # t
         /\ \A i, j \in DOMAIN queue' : queue'[i] = queue'[j] => i = j
  <1>1. /\ queue' \in Seq(Task)
        /\ DOMAIN queue = 1 .. Len(queue)
        /\ Len(queue) \in Nat \ {0}
        /\ DOMAIN queue' = 1 .. Len(queue) - 1
        /\ \A i \in 1 .. Len(queue) - 1 : queue'[i] = queue[i + 1]
        /\ t = queue[1]
    BY SMTT(60) DEF Dequeue
  <1>2. InQueue(t)
    BY <1>1, SMTT(60) DEF InQueue
  <1>3. ASSUME NEW u \in Task, InQueue(u)' PROVE InQueue(u) /\ u # t
    BY <1>1, <1>3, SMTT(60) DEF InQueue
  <1>4. ASSUME NEW u \in Task, InQueue(u), u # t PROVE InQueue(u)'
    <2>1. PICK i \in 1 .. Len(queue) : queue[i] = u
      BY <1>1, <1>4 DEF InQueue
    <2>2. i - 1 \in 1 .. Len(queue) - 1 /\ queue'[i - 1] = u
      BY SMTT(60), <1>1, <1>4, <2>1
    <2> QED
      BY <1>1, <2>2 DEF InQueue
  <1>5. ASSUME NEW i \in DOMAIN queue', NEW j \in DOMAIN queue', queue'[i] = queue'[j] PROVE i = j
    <2>1. i + 1 \in DOMAIN queue /\ j + 1 \in DOMAIN queue /\ queue[i + 1] = queue[j + 1]
      BY SMTT(60), <1>1, <1>5
    <2>2. i + 1 = j + 1
      BY <2>1
    <2> QED
      BY SMTT(60), <1>1, <2>2
  <1> QED
    BY <1>1, <1>2, <1>3, <1>4, <1>5

----------------------------------------------------------------------------
(* The inductive invariant.                                                *)

\* Initially every CPU is idle and nothing is created.
LEMMA InitIInv == Init => IInv
  <1> SUFFICES ASSUME Init PROVE IInv
    OBVIOUS
  <1> USE NoneAssumption DEF Init
  <1>1. TypeOK
    <2>1. queue \in Seq(Task)
      BY SMTT(60)
    <2>2. adding \in [Cpu -> BOOLEAN] /\ panicked \in BOOLEAN
      OBVIOUS
    <2> QED
      BY <2>1, <2>2 DEF TypeOK, Locked
  <1>2. LockInv /\ PcInv
    BY DEF LockInv, PcInv, PcInvAt, HoldsLock, Locked
  <1>3. PlaceInv
    BY SMTT(60) DEF PlaceInv, QueueDistinct, InQueue, InHand
  <1>4. CpuInv /\ StrongInv
    BY SMTT(60) DEF CpuInv, StrongInv, Gone, Cleaning, currentOf, OnCpu
  <1> QED
    BY <1>1, <1>2, <1>3, <1>4 DEF IInv

\* A step that moves no task between the queue, the CPUs' hands and their CurrentTask,
\* and changes the state of no task but a current one, keeps the counting invariants.
LEMMA Frame ==
  ASSUME IInv, TypeOK', LockInv', PcInv',
         UNCHANGED <<queue, strong>>,
         \A d \in Cpu, u \in Task : InHand(d, u)' <=> InHand(d, u),
         \A d \in Cpu : ~(pc'[d] = "init" /\ adding'[d] /\ waking'[d][1] = curr'[d]),
         \A d \in Cpu : currentOf(d)' = currentOf(d),
         \A u \in Task : Cleaning(u)' <=> Cleaning(u),
         \A u \in Task : \/ state'[u] = state[u]
                         \/ /\ \E d \in Cpu : currentOf(d) = u
                            /\ {state[u], state'[u]} \subseteq OnCpu \cup {"Exited"}
  PROVE  IInv'
  <1>i. PlaceInv /\ CpuInv /\ StrongInv
    BY DEF IInv
  <1>1. PlaceInv'
    <2>1. \A u \in Task : InQueue(u)' <=> InQueue(u)
      BY DEF InQueue
    <2>2. \A u \in Task : state'[u] = "Runable" <=> state[u] = "Runable"
      BY DEF OnCpu
    <2> QED
      BY <1>i, <2>1, <2>2 DEF PlaceInv, QueueDistinct
  <1>2. CpuInv'
    BY <1>i, SMTT(60) DEF CpuInv
  <1>3. StrongInv'
    <2>1. \A u \in Task : Gone(u)' <=> Gone(u)
      BY DEF Gone, OnCpu
    <2> QED
      BY <1>i, <2>1 DEF StrongInv
  <1> QED
    BY <1>1, <1>2, <1>3 DEF IInv

----------------------------------------------------------------------------
(* The polled task and its CPU.                                            *)

\* While c polls a task, or decides what to do with it, no other CPU has the task and
\* it is not in the queue.
LEMMA Exclusive ==
  ASSUME IInv, NEW c \in Cpu, pc[c] \in {"poll", "exit", "pend"}
  PROVE  /\ curr[c] \in Task
         /\ current[c] = curr[c]
         /\ currentOf(c) = curr[c]
         /\ state[curr[c]] \in OnCpu \cup {"Exited"}
         /\ slock[curr[c]] = IF pc[c] = "pend" THEN c ELSE None
         /\ ~InQueue(curr[c])
         /\ \A d \in Cpu : ~InHand(d, curr[c])
         /\ \A d \in Cpu : d # c => currentOf(d) # curr[c] /\ curr[d] # curr[c]
  <1> USE NoneAssumption
  <1>i. TypeOK /\ LockInv /\ PcInv /\ PlaceInv /\ CpuInv
    BY DEF IInv
  <1>1. curr[c] \in Task /\ current[c] = curr[c] /\ state[curr[c]] \in OnCpu \cup {"Exited"}
    BY <1>i DEF PcInv, PcInvAt
  <1>2. currentOf(c) = curr[c]
    BY <1>1 DEF currentOf
  <1>3. ~InQueue(curr[c])
    BY <1>i, <1>1 DEF PlaceInv, OnCpu
  <1>4. ASSUME NEW d \in Cpu, InHand(d, curr[c]) PROVE FALSE
    BY <1>i, <1>1, <1>4 DEF InHand, PcInv, PcInvAt, OnCpu
  <1>5. ASSUME NEW d \in Cpu, d # c PROVE currentOf(d) # curr[c]
    BY <1>i, <1>1, <1>2, <1>5 DEF CpuInv
  <1>6. ASSUME NEW d \in Cpu, d # c, curr[d] = curr[c] PROVE FALSE
    <2>1. pc[d] \notin {"init", "clean", "forget", "unlock", "loop", "user"}
      BY <1>i, <1>1, <1>6, SMTT(60) DEF PcInv, PcInvAt, OnCpu
    <2>2. currentOf(d) = curr[d]
      BY <1>i, <2>1, SMTT(60) DEF TypeOK, Locked, PcInv, PcInvAt, currentOf
    <2> QED
      BY <1>5, <1>6, <2>2
  <1>7. slock[curr[c]] = IF pc[c] = "pend" THEN c ELSE None
    <2>1. \A d \in Cpu : HoldsLock(d, curr[c]) => d = c
      BY <1>4, <1>6 DEF HoldsLock, InHand
    <2>2. HoldsLock(c, curr[c]) <=> pc[c] = "pend"
      BY <1>4 DEF HoldsLock, InHand, Locked
    <2> QED
      BY <1>i, <1>1, <2>1, <2>2, SMTT(60) DEF LockInv, TypeOK
  <1> QED
    BY <1>1, <1>2, <1>3, <1>4, <1>5, <1>6, <1>7

\* What the polled task does to itself, and its CPU around it: the task's own state
\* becomes s and the CPU goes on at k.
PolledStep(c, s, k) ==
  /\ pc[c] \in {"poll", "pend"}
  /\ waking[c] = None
  /\ s \in OnCpu \cup {"Exited"}
  /\ k \in {"poll", "pend", "exit", "loop", "user"}
  /\ k = "exit" => s = "Exited"
  /\ k \in {"loop", "user"} => s = "Running"
  /\ state' = [state EXCEPT ![curr[c]] = s]
  /\ slock' = [slock EXCEPT ![curr[c]] = IF k = "pend" THEN c ELSE None]
  /\ curr' = [curr EXCEPT ![c] = IF k \in {"loop", "user"} THEN None ELSE @]
  /\ pc' = [pc EXCEPT ![c] = k]
  /\ wakers' \in [Task -> SUBSET Node]
  /\ panicked' \in BOOLEAN
  /\ UNCHANGED <<queue, current, strong, waking, adding>>

\* The task stays on its CPU, whatever it does.
LEMMA PolledIInv ==
  ASSUME IInv, NEW c \in Cpu, NEW s, NEW k, PolledStep(c, s, k) PROVE IInv'
  <1> USE NoneAssumption
  <1>i. TypeOK /\ LockInv /\ PcInv /\ PlaceInv
    BY DEF IInv
  <1>t. /\ curr[c] \in Task
        /\ current[c] = curr[c]
        /\ currentOf(c) = curr[c]
        /\ state[curr[c]] \in OnCpu \cup {"Exited"}
        /\ \A d \in Cpu : ~InHand(d, curr[c])
        /\ \A d \in Cpu : d # c => currentOf(d) # curr[c] /\ curr[d] # curr[c]
    BY Exclusive DEF PolledStep
  <1>s. /\ state'[curr[c]] \in OnCpu \cup {"Exited"}
        /\ \A u \in Task : u # curr[c] => state'[u] = state[u]
        /\ pc[c] \in {"poll", "pend"}
        /\ pc'[c] \notin {"init", "clean", "forget", "unlock"}
        /\ \A d \in Cpu : d # c => pc'[d] = pc[d] /\ curr'[d] = curr[d]
    BY <1>i, <1>t DEF PolledStep, TypeOK
  <1>v. UNCHANGED <<queue, current, strong, waking, adding>>
    BY DEF PolledStep
  <1>1. TypeOK'
    BY <1>i, <1>t DEF PolledStep, TypeOK, OnCpu, Locked
  <1>2. LockInv'
    BY <1>i, <1>t, SMTT(60) DEF PolledStep, LockInv, HoldsLock, Locked, TypeOK, InHand
  <1>3. PcInv'
    <2> SUFFICES ASSUME NEW d \in Cpu PROVE PcInvAt(d)'
      BY DEF PcInv
    <2>1. CASE d = c
      BY <1>i, <1>t, <2>1, SMTT(60) DEF PolledStep, PcInv, PcInvAt, OnCpu, TypeOK
    <2>2. CASE d # c
      BY <1>i, <1>t, <1>s, <1>v, <2>2, SMTT(60) DEF PcInv, PcInvAt, currentOf, OnCpu, TypeOK, InHand
    <2> QED
      BY <2>1, <2>2
  <1>4. \A d \in Cpu, u \in Task : InHand(d, u)' <=> InHand(d, u)
    BY <1>s, <1>v DEF InHand
  <1>5. \A d \in Cpu : ~(pc'[d] = "init" /\ adding'[d] /\ waking'[d][1] = curr'[d])
    BY <1>i, <1>s, <1>v, SMTT(60) DEF PlaceInv
  <1>6. \A d \in Cpu : currentOf(d)' = currentOf(d)
    BY <1>s, <1>v DEF currentOf
  <1>7. \A u \in Task : Cleaning(u)' <=> Cleaning(u)
    BY <1>s DEF Cleaning
  <1> QED
    BY SMTT(60), <1>t, <1>s, <1>v, <1>1, <1>2, <1>3, <1>4, <1>5, <1>6, <1>7, Frame

\* Registering, leaving a list, exiting, and the arms of run_task that keep the task.
LEMMA PolledSteps ==
  ASSUME IInv, NEW c \in Cpu,
         \/ \E n \in Node : Register(c, n) \/ Deregister(c, n)
         \/ SetExited(c) \/ Ready(c) \/ PendLock(c)
         \/ PendUserReturn(c) \/ PendWaked(c) \/ PendPanic(c)
  PROVE  IInv'
  <1> USE NoneAssumption
  <1>i. /\ state \in [Task -> OnCpu \cup {"New", "Runable", "Blocked", "Exited"}]
        /\ slock \in [Task -> Cpu \cup {None}]
        /\ pc \in [Cpu -> Locked \cup {"loop", "init", "poll", "exit", "user"}]
        /\ curr \in [Cpu -> Task \cup {None}]
        /\ wakers \in [Task -> SUBSET Node]
        /\ panicked \in BOOLEAN
    BY DEF IInv, TypeOK
  <1>t. /\ pc[c] \in {"poll", "pend"}
        /\ waking[c] = None
        /\ curr[c] \in Task
        /\ state[curr[c]] \in OnCpu \cup {"Exited"}
        /\ slock[curr[c]] = IF pc[c] = "pend" THEN c ELSE None
    <2>1. pc[c] \in {"poll", "pend"} /\ waking[c] = None
      BY DEF Register, Deregister, SetExited, Ready, PendLock, PendUserReturn, PendWaked,
             PendPanic, Main
    <2> QED
      BY <2>1, Exclusive
  <1>1. ASSUME NEW n \in Node, Register(c, n) PROVE PolledStep(c, "Blocking", "poll")
    BY <1>i, <1>t, <1>1
    DEF Register, Main, SetState, cpuVars, wakeVars, PolledStep, OnCpu
  <1>2. ASSUME NEW n \in Node, Deregister(c, n) PROVE PolledStep(c, "Running", "poll")
    BY <1>i, <1>t, <1>2
    DEF Deregister, Main, cpuVars, wakeVars, PolledStep, OnCpu
  <1>3. ASSUME SetExited(c) PROVE PolledStep(c, "Exited", "poll")
    BY <1>i, <1>t, <1>3 DEF SetExited, Main, SetState, cpuVars, wakeVars, PolledStep
  <1>4. ASSUME Ready(c) PROVE PolledStep(c, "Exited", "exit")
    BY <1>i, <1>t, <1>4 DEF Ready, Main, SetState, Goto, wakeVars, PolledStep
  <1>5. ASSUME PendLock(c) PROVE PolledStep(c, state[curr[c]], "pend")
    BY <1>i, <1>t, <1>5 DEF PendLock, Main, Lock, Goto, wakeVars, PolledStep
  <1>6. ASSUME PendUserReturn(c) PROVE PolledStep(c, "Running", "user")
    BY <1>i, <1>t, <1>6
    DEF PendUserReturn, Main, Unlock, Goto, wakeVars, PolledStep, OnCpu
  <1>7. ASSUME PendWaked(c) PROVE PolledStep(c, "Running", "loop")
    BY <1>i, <1>t, <1>7
    DEF PendWaked, Main, SetState, Unlock, Goto, wakeVars, PolledStep, OnCpu
  <1>8. ASSUME PendPanic(c) PROVE PolledStep(c, state[curr[c]], "pend")
    <2>1. panicked' \in BOOLEAN
      BY <1>8 DEF PendPanic
    <2> QED
      BY <1>i, <1>t, <1>8, <2>1 DEF PendPanic, Main, cpuVars, wakeVars, PolledStep
  <1> QED
    BY <1>1, <1>2, <1>3, <1>4, <1>5, <1>6, <1>7, <1>8, PolledIInv

----------------------------------------------------------------------------
(* The steps by which a CPU gives up the task it ran.                      *)

\* The points of the loop between two tasks: no task changes.
MoveStep(c, k) ==
  /\ waking[c] = None
  /\ \/ pc[c] = "loop" /\ k = "poll" /\ current[c] # None
     \/ pc[c] \in {"user", "unlock"} /\ k = "loop"
  /\ pc' = [pc EXCEPT ![c] = k]
  /\ curr' = [curr EXCEPT ![c] = IF k = "poll" THEN current[c] ELSE None]
  /\ slock' = IF pc[c] = "unlock" THEN [slock EXCEPT ![curr[c]] = None] ELSE slock
  /\ UNCHANGED <<state, queue, current, strong, wakers, panicked, waking, adding>>

\* The loop finds a current task, a user task traps, run_task drops the lock.
LEMMA MoveSteps ==
  ASSUME IInv, NEW c \in Cpu, RunCurrent(c) \/ UserTrap(c) \/ PendUnlock(c)
  PROVE  IInv'
  <1> USE NoneAssumption
  <1>i. TypeOK /\ LockInv /\ PcInv /\ PlaceInv
    BY DEF IInv
  <1>p. PcInvAt(c)
    BY <1>i DEF PcInv
  <1>k. PICK k \in {"poll", "loop"} : MoveStep(c, k)
    <2>1. CASE RunCurrent(c)
      <3>1. MoveStep(c, "poll")
        BY <1>i, <2>1 DEF RunCurrent, Main, Goto, wakeVars, MoveStep, TypeOK
      <3> QED
        BY <3>1
    <2>2. CASE UserTrap(c)
      <3>1. curr[c] = None
        BY <1>p, <2>2 DEF UserTrap, Main, PcInvAt
      <3>2. MoveStep(c, "loop")
        BY <1>i, <2>2, <3>1 DEF UserTrap, Main, Goto, wakeVars, MoveStep, TypeOK
      <3> QED
        BY <3>2
    <2>3. CASE PendUnlock(c)
      <3>1. MoveStep(c, "loop")
        BY <1>i, <2>3 DEF PendUnlock, Main, Unlock, Goto, wakeVars, MoveStep, TypeOK
      <3> QED
        BY <3>1
    <2> QED
      BY <2>1, <2>2, <2>3
  <1>s. /\ pc[c] \notin {"init", "clean", "forget"}
        /\ pc'[c] \in {"poll", "loop"}
        /\ \A d \in Cpu : d # c => pc'[d] = pc[d] /\ curr'[d] = curr[d]
    BY <1>i, <1>k DEF MoveStep, TypeOK
  <1>v. UNCHANGED <<state, queue, current, strong, waking, adding>>
    BY <1>k DEF MoveStep
  <1>1. TypeOK'
    BY <1>i, <1>p, <1>k DEF MoveStep, TypeOK, PcInvAt, Locked
  <1>2. LockInv'
    BY <1>i, <1>p, <1>k, SMTT(60) DEF MoveStep, LockInv, HoldsLock, Locked, TypeOK, PcInvAt
  <1>3. PcInv'
    <2> SUFFICES ASSUME NEW d \in Cpu PROVE PcInvAt(d)'
      BY DEF PcInv
    <2>1. CASE d = c
      BY <1>i, <1>k, <1>p, <2>1 DEF MoveStep, PcInvAt, OnCpu, TypeOK
    <2>2. CASE d # c
      BY <1>i, <1>s, <1>v, <2>2, SMTT(60) DEF PcInv, PcInvAt
    <2> QED
      BY <2>1, <2>2
  <1>4. \A d \in Cpu, u \in Task : InHand(d, u)' <=> InHand(d, u)
    BY <1>s, <1>v DEF InHand
  <1>5. \A d \in Cpu : ~(pc'[d] = "init" /\ adding'[d] /\ waking'[d][1] = curr'[d])
    BY <1>i, <1>s, <1>v DEF PlaceInv
  <1>6. \A d \in Cpu : currentOf(d)' = currentOf(d)
    BY <1>s, <1>v DEF currentOf
  <1>7. \A u \in Task : Cleaning(u)' <=> Cleaning(u)
    BY <1>s DEF Cleaning
  <1> QED
    BY <1>v, <1>1, <1>2, <1>3, <1>4, <1>5, <1>6, <1>7, Frame

\* clean_current and clean_current_without_drop: under the lock, and nobody else has
\* the task as its current one.
LEMMA CleanSteps ==
  ASSUME IInv, NEW c \in Cpu, Clean(c) \/ Forget(c)
  PROVE  IInv'
  <1> USE NoneAssumption
  <1>i. TypeOK /\ LockInv /\ PcInv /\ PlaceInv /\ CpuInv /\ StrongInv
    BY DEF IInv
  <1>t. /\ curr[c] \in Task
        /\ pc[c] \in {"clean", "forget"}
        /\ pc[c] = "clean" <=> state[curr[c]] = "Runable"
        /\ pc[c] = "forget" <=> state[curr[c]] = "Blocked"
        /\ current[c] = curr[c]
        /\ \A d \in Cpu : d # c => ~HoldsLock(d, curr[c])
    BY <1>i, SMTT(60) DEF Clean, Forget, Main, PcInv, PcInvAt, LockInv, HoldsLock, Locked
  <1>s. /\ pc' = [pc EXCEPT ![c] = "unlock"]
        /\ current' = [current EXCEPT ![c] = None]
        /\ strong' = IF pc[c] = "clean" THEN [strong EXCEPT ![curr[c]] = @ - 1] ELSE strong
        /\ UNCHANGED <<state, slock, queue, wakers, panicked, curr, waking, adding>>
    BY DEF Clean, Forget, Main, Goto, CleanCurrent, wakeVars
  <1>p. /\ pc'[c] = "unlock" /\ current'[c] = None
        /\ \A d \in Cpu : d # c => pc'[d] = pc[d] /\ current'[d] = current[d]
        /\ \A u \in Task : u # curr[c] => strong'[u] = strong[u]
    BY <1>i, <1>t, <1>s DEF TypeOK
  <1>g. Cleaning(curr[c]) <=> pc[c] = "clean"
    BY <1>t DEF Cleaning, HoldsLock, Locked
  <1>1. TypeOK'
    <2>1. pc[c] = "clean" => strong[curr[c]] - 1 \in Nat
      BY <1>i, <1>t, <1>g, SMTT(60) DEF StrongInv
    <2> QED
      BY <1>i, <1>t, <1>s, <2>1 DEF TypeOK, Locked
  <1>2. LockInv'
    BY <1>i, <1>t, <1>s, <1>p, SMTT(60) DEF LockInv, HoldsLock, Locked
  <1>3. PcInv'
    <2> SUFFICES ASSUME NEW d \in Cpu PROVE PcInvAt(d)'
      BY DEF PcInv
    <2>1. CASE d = c
      BY <1>i, <1>t, <1>s, <1>p, <2>1 DEF PcInv, PcInvAt
    <2>2. CASE d # c
      BY <1>i, <1>s, <1>p, <2>2, SMTT(60) DEF PcInv, PcInvAt
    <2> QED
      BY <2>1, <2>2
  <1>4. PlaceInv'
    <2>1. \A u \in Task : InQueue(u)' <=> InQueue(u)
      BY <1>s DEF InQueue
    <2>2. \A d \in Cpu, u \in Task : InHand(d, u)' <=> InHand(d, u)
      BY <1>t, <1>s, <1>p DEF InHand
    <2>3. \A d \in Cpu : pc'[d] = "init" => pc[d] = "init"
      BY <1>p
    <2> QED
      BY <1>i, <1>s, <2>1, <2>2, <2>3 DEF PlaceInv, QueueDistinct
  <1>5. \A d \in Cpu : currentOf(d)' = currentOf(d)
    BY <1>t, <1>p DEF currentOf
  <1>6. CpuInv'
    BY <1>i, <1>s, <1>5, SMTT(60) DEF CpuInv
  <1>7. StrongInv'
    <2>1. \A u \in Task : Gone(u)' <=> Gone(u)
      BY <1>s, <1>5 DEF Gone
    <2>2. \A u \in Task : Cleaning(u)' <=> Cleaning(u) /\ u # curr[c]
      BY <1>t, <1>s, <1>p DEF Cleaning, HoldsLock, Locked
    <2>3. strong'[curr[c]] = IF Cleaning(curr[c]) THEN strong[curr[c]] - 1 ELSE strong[curr[c]]
      BY <1>i, <1>t, <1>s, <1>g DEF TypeOK
    <2> QED
      BY <1>i, <1>t, <1>p, <2>1, <2>2, <2>3, SMTT(60) DEF StrongInv
  <1> QED
    BY <1>1, <1>2, <1>3, <1>4, <1>6, <1>7 DEF IInv

\* Poll::Pending gives the task up: queued if it was Running, with a second reference
\* until clean_current, and Blocked if it was Blocking.
LEMMA LeaveSteps ==
  ASSUME IInv, NEW c \in Cpu, PendRunning(c) \/ PendBlocking(c)
  PROVE  IInv'
  <1> USE NoneAssumption
  <1>i. TypeOK /\ LockInv /\ PcInv /\ PlaceInv /\ CpuInv /\ StrongInv
    BY DEF IInv
  <1>m. pc[c] = "pend" /\ waking[c] = None /\ state[curr[c]] \in {"Running", "Blocking"}
    BY DEF PendRunning, PendBlocking, Main
  <1>t. /\ curr[c] \in Task
        /\ current[c] = curr[c]
        /\ currentOf(c) = curr[c]
        /\ ~InQueue(curr[c])
        /\ \A d \in Cpu : ~InHand(d, curr[c])
        /\ \A d \in Cpu : d # c => currentOf(d) # curr[c] /\ curr[d] # curr[c]
    BY <1>m, Exclusive
  <1>s. /\ state' = [state EXCEPT ![curr[c]] = IF @ = "Running" THEN "Runable" ELSE "Blocked"]
        /\ pc' = [pc EXCEPT ![c] = IF state[curr[c]] = "Running" THEN "clean" ELSE "forget"]
        /\ strong' = IF state[curr[c]] = "Running"
                     THEN [strong EXCEPT ![curr[c]] = @ + 1] ELSE strong
        /\ IF state[curr[c]] = "Running" THEN Enqueue(curr[c]) ELSE queue' = queue
        /\ UNCHANGED <<slock, current, wakers, panicked, curr, waking, adding>>
    BY <1>i, <1>t DEF PendRunning, PendBlocking, Main, SetState, Goto, wakeVars, TypeOK
  <1>v. UNCHANGED <<slock, current, wakers, panicked, curr, waking, adding>>
    BY <1>s
  <1>p. /\ state'[curr[c]] = IF state[curr[c]] = "Running" THEN "Runable" ELSE "Blocked"
        /\ pc'[c] = IF state[curr[c]] = "Running" THEN "clean" ELSE "forget"
        /\ \A u \in Task : u # curr[c] => state'[u] = state[u] /\ strong'[u] = strong[u]
        /\ \A d \in Cpu : d # c => pc'[d] = pc[d]
    BY <1>i, <1>t, <1>s DEF TypeOK
  <1>q. /\ queue' \in Seq(Task)
        /\ \A u \in Task : InQueue(u)' <=>
             InQueue(u) \/ (u = curr[c] /\ state[curr[c]] = "Running")
        /\ \A i, j \in DOMAIN queue' : queue'[i] = queue'[j] => i = j
    <2>1. /\ queue \in Seq(Task)
          /\ \A i, j \in DOMAIN queue : queue[i] = queue[j] => i = j
      BY <1>i DEF TypeOK, PlaceInv, QueueDistinct
    <2>2. CASE state[curr[c]] = "Running"
      BY <1>t, <1>s, <2>1, <2>2, EnqueueFacts
    <2>3. CASE state[curr[c]] # "Running"
      BY <1>s, <2>1, <2>3 DEF InQueue
    <2> QED
      BY <2>2, <2>3
  <1>1. TypeOK'
    BY <1>i, <1>t, <1>s, <1>q, SMTT(60) DEF TypeOK, Locked
  <1>2. LockInv'
    BY <1>i, <1>m, <1>v, <1>p, SMTT(60) DEF LockInv, HoldsLock, Locked
  <1>3. PcInv'
    <2> SUFFICES ASSUME NEW d \in Cpu PROVE PcInvAt(d)'
      BY DEF PcInv
    <2>1. CASE d = c
      <3>1. ~adding[c]
        BY <1>i, <1>m DEF LockInv
      <3> QED
        BY <1>m, <1>t, <1>v, <1>p, <2>1, <3>1 DEF PcInvAt
    <2>2. CASE d # c
      <3>1. PcInvAt(d) /\ current[d] \in Task \cup {None} /\ curr[d] \in Task \cup {None}
        BY <1>i DEF PcInv, TypeOK
      <3>2. curr[d] # curr[c] /\ currentOf(d) # curr[c] /\ ~InHand(d, curr[c])
        BY <1>t, <2>2
      <3> QED
        BY <1>v, <1>p, <2>2, <3>1, <3>2 DEF PcInvAt, currentOf, InHand
    <2> QED
      BY <2>1, <2>2
  <1>4. PlaceInv'
    <2>1. \A d \in Cpu, u \in Task : InHand(d, u)' <=> InHand(d, u)
      BY <1>m, <1>v, <1>p DEF InHand
    <2>2. \A u \in Task : state'[u] = "Runable" <=>
            state[u] = "Runable" \/ (u = curr[c] /\ state[curr[c]] = "Running")
      BY <1>m, <1>p
    <2>3. QueueDistinct'
      BY <1>i, <1>t, <1>q, <2>1, SMTT(60) DEF PlaceInv, QueueDistinct
    <2>4. \A d \in Cpu : pc'[d] = "init" => pc[d] = "init"
      BY <1>p
    <2> QED
      BY <1>i, <1>s, <1>q, <2>1, <2>2, <2>3, <2>4 DEF PlaceInv
  <1>5. \A d \in Cpu : currentOf(d)' = IF d = c THEN None ELSE currentOf(d)
    BY <1>v, <1>p DEF currentOf
  <1>6. CpuInv'
    BY <1>i, <1>t, <1>p, <1>5, SMTT(60) DEF CpuInv, OnCpu
  <1>7. StrongInv'
    <2>1. \A u \in Task : Gone(u)' <=> Gone(u)
      BY <1>m, <1>t, <1>p, <1>5 DEF Gone
    <2>2. \A u \in Task : Cleaning(u)' <=>
            Cleaning(u) \/ (u = curr[c] /\ state[curr[c]] = "Running")
      BY <1>m, <1>v, <1>p DEF Cleaning
    <2>3. ~Cleaning(curr[c])
      BY <1>m, <1>t DEF Cleaning
    <2>4. strong'[curr[c]] = strong[curr[c]] + (IF state[curr[c]] = "Running" THEN 1 ELSE 0)
      BY <1>i, <1>t, <1>s, SMTT(60) DEF TypeOK
    <2> QED
      BY <1>i, <1>t, <1>p, <2>1, <2>2, <2>3, <2>4, SMTT(60) DEF StrongInv
  <1> QED
    BY <1>1, <1>2, <1>3, <1>4, <1>6, <1>7 DEF IInv

\* The last reference goes.
LEMMA ExitCleanIInv ==
  ASSUME IInv, NEW c \in Cpu, ExitClean(c) PROVE IInv'
  <1> USE NoneAssumption
  <1>i. TypeOK /\ LockInv /\ PcInv /\ PlaceInv /\ CpuInv /\ StrongInv
    BY DEF IInv
  <1>m. pc[c] = "exit" /\ waking[c] = None /\ state[curr[c]] = "Exited"
    BY <1>i DEF ExitClean, Main, PcInv, PcInvAt
  <1>t. /\ curr[c] \in Task
        /\ currentOf(c) = curr[c]
        /\ \A d \in Cpu : d # c => currentOf(d) # curr[c] /\ curr[d] # curr[c]
    BY <1>m, Exclusive
  <1>s. /\ pc' = [pc EXCEPT ![c] = "loop"]
        /\ curr' = [curr EXCEPT ![c] = None]
        /\ current' = [current EXCEPT ![c] = None]
        /\ strong' = [strong EXCEPT ![curr[c]] = @ - 1]
        /\ UNCHANGED <<state, slock, queue, wakers, panicked, waking, adding>>
    BY DEF ExitClean, Goto, CleanCurrent, wakeVars
  <1>p. /\ pc'[c] = "loop" /\ curr'[c] = None /\ current'[c] = None
        /\ strong'[curr[c]] = strong[curr[c]] - 1
        /\ \A u \in Task : u # curr[c] => strong'[u] = strong[u]
        /\ \A d \in Cpu : d # c => pc'[d] = pc[d] /\ curr'[d] = curr[d] /\ current'[d] = current[d]
    BY <1>i, <1>t, <1>s DEF TypeOK
  <1>g. ~Cleaning(curr[c]) /\ ~Gone(curr[c])
    BY <1>m, <1>t DEF Cleaning, Gone
  <1>1. TypeOK'
    <2>1. strong[curr[c]] - 1 \in Nat
      BY <1>i, <1>t, <1>g, SMTT(60) DEF StrongInv
    <2> QED
      BY <1>i, <1>t, <1>s, <2>1 DEF TypeOK, Locked
  <1>2. LockInv'
    BY <1>i, <1>m, <1>s, <1>p, SMTT(60) DEF LockInv, HoldsLock, Locked
  <1>3. PcInv'
    <2> SUFFICES ASSUME NEW d \in Cpu PROVE PcInvAt(d)'
      BY DEF PcInv
    <2>1. CASE d = c
      <3>1. ~adding[c]
        BY <1>i, <1>m DEF LockInv
      <3> QED
        BY <1>m, <1>s, <1>p, <2>1, <3>1 DEF PcInvAt
    <2>2. CASE d # c
      <3>1. PcInvAt(d)
        BY <1>i DEF PcInv
      <3> QED
        BY <1>s, <1>p, <2>2, <3>1 DEF PcInvAt
    <2> QED
      BY <2>1, <2>2
  <1>4. PlaceInv'
    <2>1. \A u \in Task : InQueue(u)' <=> InQueue(u)
      BY <1>s DEF InQueue
    <2>2. \A d \in Cpu, u \in Task : InHand(d, u)' <=> InHand(d, u)
      BY <1>m, <1>s, <1>p DEF InHand
    <2>3. \A d \in Cpu : pc'[d] = "init" => pc[d] = "init" /\ curr'[d] = curr[d]
      BY <1>p
    <2> QED
      BY <1>i, <1>s, <2>1, <2>2, <2>3 DEF PlaceInv, QueueDistinct
  <1>5. \A d \in Cpu : currentOf(d)' = IF d = c THEN None ELSE currentOf(d)
    BY <1>p DEF currentOf
  <1>6. CpuInv'
    BY <1>i, <1>m, <1>t, <1>s, <1>5, SMTT(60) DEF CpuInv, OnCpu
  <1>7. StrongInv'
    <2>1. \A u \in Task : Gone(u)' <=> Gone(u) \/ u = curr[c]
      BY <1>m, <1>t, <1>s, <1>5 DEF Gone
    <2>2. \A u \in Task : Cleaning(u)' <=> Cleaning(u)
      BY <1>m, <1>p DEF Cleaning
    <2> QED
      BY <1>i, <1>t, <1>p, <1>g, <2>1, <2>2, SMTT(60) DEF StrongInv
  <1> QED
    BY <1>1, <1>2, <1>3, <1>4, <1>6, <1>7 DEF IInv

----------------------------------------------------------------------------
(* A waker, from taking it off its list to putting the task in the queue.  *)

\* The waker moves off its list, or the wakeup ends; at most a Blocking task becomes
\* Waked.
LEMMA WakerSteps ==
  ASSUME IInv, NEW c \in Cpu,
         WakeMatch(c) \/ \E t \in Task, n \in Node : WakeStart(c, t, n)
  PROVE  IInv'
  <1> USE NoneAssumption
  <1>i. TypeOK /\ LockInv /\ PcInv /\ PlaceInv /\ CpuInv
    BY DEF IInv
  <1>v. UNCHANGED <<slock, queue, current, strong, pc, curr, adding>>
    BY DEF WakeMatch, WakeStart, cpuVars
  <1>a. ~adding[c]
    <2>1. CASE WakeMatch(c)
      BY <1>i, <2>1, SMTT(60) DEF WakeMatch, LockInv, HoldsLock, TypeOK
    <2>2. CASE \E t \in Task, n \in Node : WakeStart(c, t, n)
      BY <1>i, <2>2 DEF WakeStart, LockInv
    <2> QED
      BY <2>1, <2>2
  <1>w. /\ waking' \in [Cpu -> (Task \X Node) \cup {None}]
        /\ wakers' \in [Task -> SUBSET Node]
        /\ \A d \in Cpu : d # c => waking'[d] = waking[d]
        /\ waking'[c] # None => pc[c] \notin Locked
    <2>1. CASE WakeMatch(c)
      BY <1>i, <2>1 DEF WakeMatch, TypeOK
    <2>2. CASE \E t \in Task, n \in Node : WakeStart(c, t, n)
      BY <1>i, <2>2, SMTT(60) DEF WakeStart, TypeOK
    <2> QED
      BY <2>1, <2>2
  <1>u. /\ state' \in [Task -> OnCpu \cup {"New", "Runable", "Blocked", "Exited"}]
        /\ \A u \in Task : state'[u] = state[u] \/ (state[u] = "Blocking" /\ state'[u] = "Waked")
    <2>1. CASE WakeMatch(c)
      <3>0. waking[c] \in Task \X Node
        BY <1>i, <2>1 DEF WakeMatch, TypeOK
      <3>1. waking[c][1] \in Task
        BY <3>0
      <3>2. \/ state' = state
            \/ /\ state[waking[c][1]] = "Blocking"
               /\ state' = [state EXCEPT ![waking[c][1]] = "Waked"]
        BY <2>1 DEF WakeMatch, SetState
      <3> QED
        BY <1>i, <3>1, <3>2 DEF TypeOK, OnCpu
    <2>2. CASE \E t \in Task, n \in Node : WakeStart(c, t, n)
      BY <1>i, <2>2 DEF WakeStart, TypeOK
    <2> QED
      BY <2>1, <2>2
  <1>b. panicked' \in BOOLEAN
    <2>1. panicked \in BOOLEAN
      BY <1>i DEF TypeOK
    <2> QED
      BY <2>1 DEF WakeMatch, WakeStart
  <1>1. TypeOK'
    BY <1>i, <1>v, <1>w, <1>u, <1>b DEF TypeOK
  <1>2. LockInv'
    BY <1>i, <1>v, <1>a, <1>w, SMTT(60) DEF LockInv, HoldsLock
  <1>3. PcInv'
    <2> SUFFICES ASSUME NEW d \in Cpu PROVE PcInvAt(d)'
      BY DEF PcInv
    <2>1. /\ PcInvAt(d) /\ pc[d] \in Locked \cup {"loop", "init", "poll", "exit", "user"}
          /\ current[d] \in Task \cup {None} /\ curr[d] \in Task \cup {None}
      BY <1>i DEF PcInv, TypeOK
    <2>2. adding[d] => waking'[d] = waking[d]
      BY <1>a, <1>w
    <2> QED
      BY <1>v, <1>u, <2>1, <2>2 DEF PcInvAt, OnCpu, Locked
  <1>4. \A d \in Cpu, u \in Task : InHand(d, u)' <=> InHand(d, u)
    BY <1>v, <1>a, <1>w DEF InHand
  <1>5. \A d \in Cpu : ~(pc'[d] = "init" /\ adding'[d] /\ waking'[d][1] = curr'[d])
    BY <1>i, <1>v, <1>a, <1>w DEF PlaceInv
  <1>6. \A d \in Cpu : currentOf(d)' = currentOf(d)
    BY <1>v DEF currentOf
  <1>7. \A u \in Task : Cleaning(u)' <=> Cleaning(u)
    BY <1>v DEF Cleaning
  <1>8. ASSUME NEW u \in Task, state'[u] # state[u]
        PROVE  /\ \E d \in Cpu : currentOf(d) = u
               /\ {state[u], state'[u]} \subseteq OnCpu \cup {"Exited"}
    BY <1>i, <1>u, <1>8 DEF CpuInv, OnCpu
  <1> QED
    BY <1>v, <1>1, <1>2, <1>3, <1>4, <1>5, <1>6, <1>7, <1>8, Frame

\* The waker takes the reference of the Blocked task, under the lock.
LEMMA WakeBlockedIInv ==
  ASSUME IInv, NEW c \in Cpu, WakeBlocked(c) PROVE IInv'
  <1> USE NoneAssumption
  <1>i. TypeOK /\ LockInv /\ PcInv /\ PlaceInv /\ CpuInv /\ StrongInv
    BY DEF IInv
  <1> DEFINE t == waking[c][1]
  <1>s. /\ waking[c] # None /\ ~adding[c] /\ state[t] = "Blocked" /\ slock[t] = None
        /\ slock' = [slock EXCEPT ![t] = c]
        /\ state' = [state EXCEPT ![t] = "Runable"]
        /\ adding' = [adding EXCEPT ![c] = TRUE]
        /\ UNCHANGED <<queue, current, strong, wakers, panicked, pc, curr, waking>>
    BY DEF WakeBlocked, Lock, SetState, cpuVars
  <1>t. /\ t \in Task
        /\ pc[c] \notin Locked
        /\ ~InQueue(t)
        /\ \A d \in Cpu : ~HoldsLock(d, t)
    BY <1>i, <1>s, SMTT(60) DEF TypeOK, LockInv, PlaceInv
  <1>p. /\ slock'[t] = c /\ state'[t] = "Runable"
        /\ \A u \in Task : u # t => slock'[u] = slock[u] /\ state'[u] = state[u]
    BY <1>i, <1>s, <1>t DEF TypeOK
  <1>a. /\ adding' \in [Cpu -> BOOLEAN]
        /\ \A d \in Cpu : adding'[d] <=> (adding[d] \/ d = c)
    <2>1. adding \in [Cpu -> BOOLEAN]
      BY <1>i DEF TypeOK
    <2> QED
      BY <1>s, <2>1
  <1> HIDE DEF t
  <1>q. ASSUME NEW d \in Cpu
        PROVE  ~InHand(d, t) /\ curr[d] # t /\ current[d] # t /\ currentOf(d) # t
    <2>1. PcInvAt(d) /\ pc[d] \in Locked \cup {"loop", "init", "poll", "exit", "user"}
      BY <1>i DEF PcInv, TypeOK
    <2>2. ~InHand(d, t) /\ curr[d] # t
      BY <1>s, <1>t, <2>1 DEF PcInvAt, InHand, HoldsLock, OnCpu, Locked
    <2>3. current[d] # t
      BY <1>s, <1>t, <2>1, <2>2 DEF PcInvAt, OnCpu, Locked
    <2> QED
      BY <1>t, <2>2, <2>3 DEF currentOf
  <1>1. TypeOK'
    BY <1>i, <1>s, <1>t, <1>a DEF TypeOK
  <1>2. LockInv'
    <2>1. ASSUME NEW u \in Task, NEW d \in Cpu PROVE slock'[u] = d <=> HoldsLock(d, u)'
      <3>1. CASE u = t
        BY <1>s, <1>t, <1>p, <1>a, <3>1, SMTT(60) DEF HoldsLock, t
      <3>2. CASE u # t
        BY <1>i, <1>s, <1>p, <1>a, <3>2, SMTT(60) DEF LockInv, HoldsLock, t
      <3> QED
        BY <3>1, <3>2
    <2> QED
      BY <1>i, <1>s, <1>a, <2>1 DEF LockInv
  <1>3. PcInv'
    <2> SUFFICES ASSUME NEW d \in Cpu PROVE PcInvAt(d)'
      BY DEF PcInv
    <2>1. PcInvAt(d) /\ current[d] \in Task \cup {None} /\ curr[d] \in Task \cup {None}
      BY <1>i DEF PcInv, TypeOK
    <2>2. adding'[d] => waking[d][1] \in Task /\ state'[waking[d][1]] = "Runable"
      BY <1>t, <1>p, <1>a, <2>1 DEF PcInvAt, t
    <2> QED
      BY <1>s, <1>p, <1>q, <2>1, <2>2 DEF PcInvAt
  <1>4. \A d \in Cpu, u \in Task : InHand(d, u)' <=> InHand(d, u) \/ (d = c /\ u = t)
    BY <1>s, <1>a DEF InHand, t
  <1>5. PlaceInv'
    <2>1. \A u \in Task : InQueue(u)' <=> InQueue(u)
      BY <1>s DEF InQueue
    <2>2. \A u \in Task : state'[u] = "Runable" <=> state[u] = "Runable" \/ u = t
      BY <1>p
    <2>3. QueueDistinct'
      BY <1>i, <1>s, <1>t, <1>4, <2>1 DEF PlaceInv, QueueDistinct
    <2>4. ASSUME NEW u \in Task, state'[u] = "Runable" PROVE InQueue(u)' \/ \E d \in Cpu : InHand(d, u)'
      BY <1>i, <1>4, <2>1, <2>2, <2>4 DEF PlaceInv
    <2>5. ASSUME NEW u \in Task, InQueue(u)' PROVE state'[u] = "Runable"
      BY <1>i, <2>1, <2>2, <2>5 DEF PlaceInv
    <2>6. ASSUME NEW u \in Task, NEW d \in Cpu, NEW e \in Cpu, InHand(d, u)', InHand(e, u)' PROVE d = e
      <3>1. CASE u = t
        BY <1>q, <1>4, <2>6, <3>1
      <3>2. CASE u # t
        BY <1>i, <1>4, <2>6, <3>2 DEF PlaceInv
      <3> QED
        BY <3>1, <3>2
    <2>7. ASSUME NEW d \in Cpu PROVE ~(pc'[d] = "init" /\ adding'[d] /\ waking'[d][1] = curr'[d])
      <3>1. CASE d = c
        BY <1>s, <1>q, <3>1 DEF t
      <3>2. CASE d # c
        BY <1>i, <1>s, <1>a, <3>2 DEF PlaceInv
      <3> QED
        BY <3>1, <3>2
    <2> QED
      BY <2>3, <2>4, <2>5, <2>6, <2>7 DEF PlaceInv
  <1>6. \A d \in Cpu : currentOf(d)' = currentOf(d)
    BY <1>s DEF currentOf
  <1>7. CpuInv'
    BY <1>i, <1>p, <1>6, SMTT(60) DEF CpuInv, OnCpu
  <1>8. StrongInv'
    <2>1. \A u \in Task : Gone(u)' <=> Gone(u)
      BY <1>s, <1>p, <1>6 DEF Gone
    <2>2. \A u \in Task : Cleaning(u)' <=> Cleaning(u)
      BY <1>s DEF Cleaning
    <2> QED
      BY <1>i, <1>s, <2>1, <2>2 DEF StrongInv
  <1> QED
    BY <1>1, <1>2, <1>3, <1>5, <1>7, <1>8 DEF IInv

\* The task passes from the waker to the queue.
LEMMA WakeAddIInv ==
  ASSUME IInv, NEW c \in Cpu, WakeAdd(c) PROVE IInv'
  <1> USE NoneAssumption
  <1>i. TypeOK /\ LockInv /\ PcInv /\ PlaceInv /\ CpuInv /\ StrongInv
    BY DEF IInv
  <1> DEFINE t == waking[c][1]
  <1>s. /\ adding[c]
        /\ Enqueue(t)
        /\ slock' = [slock EXCEPT ![t] = None]
        /\ waking' = [waking EXCEPT ![c] = None]
        /\ adding' = [adding EXCEPT ![c] = FALSE]
        /\ UNCHANGED <<state, current, strong, wakers, panicked, pc, curr>>
    BY DEF WakeAdd, Unlock, cpuVars
  <1>t. /\ t \in Task
        /\ state[t] = "Runable"
        /\ InHand(c, t)
        /\ \A d \in Cpu : HoldsLock(d, t) <=> d = c
    <2>1. HoldsLock(c, t) /\ t \in Task /\ state[t] = "Runable"
      BY <1>i, <1>s DEF HoldsLock, PcInv, PcInvAt
    <2> QED
      BY <1>i, <1>s, <2>1, SMTT(60) DEF LockInv, InHand
  <1>h. /\ ~InQueue(t)
        /\ \A d \in Cpu : InHand(d, t) => d = c
        /\ ~(pc[c] = "init" /\ curr[c] = t)
    BY <1>i, <1>s, <1>t DEF PlaceInv, QueueDistinct
  <1>q. /\ queue' \in Seq(Task)
        /\ \A u \in Task : InQueue(u)' <=> InQueue(u) \/ u = t
        /\ \A i, j \in DOMAIN queue' : queue'[i] = queue'[j] => i = j
    <2>1. /\ queue \in Seq(Task)
          /\ \A i, j \in DOMAIN queue : queue[i] = queue[j] => i = j
      BY <1>i DEF TypeOK, PlaceInv, QueueDistinct
    <2> HIDE DEF t
    <2> QED
      BY <1>s, <1>t, <1>h, <2>1, EnqueueFacts
  <1>p. /\ slock'[t] = None /\ waking'[c] = None
        /\ \A u \in Task : u # t => slock'[u] = slock[u]
        /\ \A d \in Cpu : d # c => waking'[d] = waking[d]
    BY <1>i, <1>s, <1>t DEF TypeOK
  <1>a. /\ adding' \in [Cpu -> BOOLEAN]
        /\ \A d \in Cpu : adding'[d] <=> (adding[d] /\ d # c)
    <2>1. adding \in [Cpu -> BOOLEAN]
      BY <1>i DEF TypeOK
    <2> QED
      BY <1>s, <2>1
  <1>1. TypeOK'
    BY <1>i, <1>s, <1>t, <1>q, <1>a DEF TypeOK
  <1>2. LockInv'
    <2>0. pc[c] \notin Locked
      BY <1>i, <1>s DEF LockInv
    <2>a. \A d \in Cpu, u \in Task : HoldsLock(d, u)' <=> HoldsLock(d, u) /\ d # c
      BY <1>s, <1>p, <1>a, <2>0 DEF HoldsLock
    <2>b. \A u \in Task : HoldsLock(c, u) => u = t
      BY <2>0 DEF HoldsLock
    <2>1. ASSUME NEW u \in Task, NEW d \in Cpu PROVE slock'[u] = d <=> HoldsLock(d, u)'
      <3>1. slock[u] = d <=> HoldsLock(d, u)
        BY <1>i DEF LockInv
      <3> HIDE DEF t
      <3> QED
        BY SMTT(60), <1>t, <1>p, <2>a, <2>b, <3>1
    <2>2. ASSUME NEW d \in Cpu PROVE (waking'[d] # None => pc'[d] \notin Locked) /\ (adding'[d] => waking'[d] # None)
      BY <1>i, <1>s, <1>p, <1>a DEF LockInv
    <2> QED
      BY <2>1, <2>2 DEF LockInv
  <1>3. PcInv'
    <2> SUFFICES ASSUME NEW d \in Cpu PROVE PcInvAt(d)'
      BY DEF PcInv
    <2>1. PcInvAt(d)
      BY <1>i DEF PcInv
    <2>2. adding'[d] => adding[d] /\ waking'[d] = waking[d]
      BY <1>p, <1>a
    <2> QED
      BY <1>s, <2>1, <2>2 DEF PcInvAt
  <1>4. \A d \in Cpu, u \in Task : InHand(d, u)' <=> InHand(d, u) /\ u # t
    BY <1>s, <1>t, <1>h, <1>p, <1>a, SMTT(60) DEF InHand
  <1> HIDE DEF t
  <1>5. PlaceInv'
    <2>1. QueueDistinct'
      BY <1>i, <1>q, <1>4 DEF PlaceInv, QueueDistinct
    <2>2. ASSUME NEW u \in Task, state'[u] = "Runable" PROVE InQueue(u)' \/ \E d \in Cpu : InHand(d, u)'
      BY <1>i, <1>s, <1>q, <1>4, <2>2 DEF PlaceInv
    <2>3. ASSUME NEW u \in Task, InQueue(u)' PROVE state'[u] = "Runable"
      BY <1>i, <1>s, <1>t, <1>q, <2>3 DEF PlaceInv
    <2>4. ASSUME NEW d \in Cpu PROVE ~(pc'[d] = "init" /\ adding'[d] /\ waking'[d][1] = curr'[d])
      BY <1>i, <1>s, <1>p, <1>a, SMTT(60) DEF PlaceInv
    <2> QED
      BY <1>i, <1>4, <2>1, <2>2, <2>3, <2>4 DEF PlaceInv
  <1>6. \A d \in Cpu : currentOf(d)' = currentOf(d)
    BY <1>s DEF currentOf
  <1>7. CpuInv'
    BY <1>i, <1>s, <1>6, SMTT(60) DEF CpuInv
  <1>8. StrongInv'
    <2>1. \A u \in Task : Gone(u)' <=> Gone(u)
      BY <1>s, <1>6 DEF Gone
    <2>2. \A u \in Task : Cleaning(u)' <=> Cleaning(u)
      BY <1>s DEF Cleaning
    <2> QED
      BY <1>i, <1>s, <2>1, <2>2 DEF StrongInv
  <1> QED
    BY <1>1, <1>2, <1>3, <1>5, <1>7, <1>8 DEF IInv

----------------------------------------------------------------------------
(* Creating a task and handing it to a CPU; the theorems.                  *)

\* The new task is in the queue and nowhere else.
LEMMA SpawnIInv ==
  ASSUME IInv, NEW t \in Task, Spawn(t) PROVE IInv'
  <1> USE NoneAssumption
  <1>i. TypeOK /\ LockInv /\ PcInv /\ PlaceInv /\ CpuInv /\ StrongInv
    BY DEF IInv
  <1>s. /\ state[t] = "New"
        /\ state' = [state EXCEPT ![t] = "Runable"]
        /\ strong' = [strong EXCEPT ![t] = 1]
        /\ Enqueue(t)
        /\ UNCHANGED <<slock, current, wakers, panicked, pc, curr, waking, adding>>
    BY DEF Spawn, SetState, cpuVars, wakeVars
  <1>p. /\ state'[t] = "Runable" /\ strong'[t] = 1
        /\ \A u \in Task : u # t => state'[u] = state[u] /\ strong'[u] = strong[u]
    BY <1>i, <1>s DEF TypeOK
  <1>t. ASSUME NEW d \in Cpu
        PROVE  curr[d] # t /\ current[d] # t /\ currentOf(d) # t /\ ~InHand(d, t)
    <2>1. PcInvAt(d) /\ pc[d] \in Locked \cup {"loop", "init", "poll", "exit", "user"}
      BY <1>i DEF PcInv, TypeOK
    <2>2. curr[d] # t /\ current[d] # t
      BY <1>s, <2>1 DEF PcInvAt, OnCpu, Locked
    <2>3. ~InHand(d, t)
      BY <1>s, <2>1, <2>2 DEF PcInvAt, InHand
    <2> QED
      BY <2>2, <2>3 DEF currentOf
  <1>q. /\ ~InQueue(t)
        /\ queue' \in Seq(Task)
        /\ \A u \in Task : InQueue(u)' <=> InQueue(u) \/ u = t
        /\ \A i, j \in DOMAIN queue' : queue'[i] = queue'[j] => i = j
    <2>1. /\ queue \in Seq(Task)
          /\ ~InQueue(t)
          /\ \A i, j \in DOMAIN queue : queue[i] = queue[j] => i = j
      BY <1>i, <1>s DEF TypeOK, PlaceInv, QueueDistinct
    <2> QED
      BY <1>s, <2>1, EnqueueFacts
  <1>1. TypeOK'
    BY <1>i, <1>s, <1>q DEF TypeOK
  <1>2. LockInv'
    BY <1>i, <1>s DEF LockInv, HoldsLock
  <1>3. PcInv'
    <2> SUFFICES ASSUME NEW d \in Cpu PROVE PcInvAt(d)'
      BY DEF PcInv
    <2>1. PcInvAt(d) /\ current[d] \in Task \cup {None} /\ curr[d] \in Task \cup {None}
      BY <1>i DEF PcInv, TypeOK
    <2> QED
      BY <1>s, <1>p, <1>t, <2>1, SMTT(60) DEF PcInvAt, InHand
  <1>4. \A d \in Cpu, u \in Task : InHand(d, u)' <=> InHand(d, u)
    BY <1>s DEF InHand
  <1>5. PlaceInv'
    <2>1. \A u \in Task : state'[u] = "Runable" <=> state[u] = "Runable" \/ u = t
      BY <1>p
    <2>2. QueueDistinct'
      BY <1>i, <1>t, <1>q, <1>4, SMTT(60) DEF PlaceInv, QueueDistinct
    <2> QED
      BY <1>i, <1>s, <1>q, <1>4, <2>1, <2>2 DEF PlaceInv
  <1>6. \A d \in Cpu : currentOf(d)' = currentOf(d)
    BY <1>s DEF currentOf
  <1>7. CpuInv'
    BY <1>i, <1>p, <1>6, SMTT(60) DEF CpuInv, OnCpu
  <1>8. StrongInv'
    <2>1. \A u \in Task : Gone(u)' <=> Gone(u) /\ u # t
      BY <1>p, <1>6 DEF Gone
    <2>2. \A u \in Task : Cleaning(u)' <=> Cleaning(u)
      BY <1>s DEF Cleaning
    <2>3. ~Cleaning(t)
      BY <1>t DEF Cleaning
    <2> QED
      BY <1>i, <1>p, <2>1, <2>2, <2>3, SMTT(60) DEF StrongInv
  <1> QED
    BY <1>1, <1>2, <1>3, <1>5, <1>7, <1>8 DEF IInv

\* The task passes from the queue to the CPU's hands.
LEMMA PickNextIInv ==
  ASSUME IInv, NEW c \in Cpu, NEW t \in Task, PickNext(c, t) PROVE IInv'
  <1> USE NoneAssumption
  <1>i. TypeOK /\ LockInv /\ PcInv /\ PlaceInv /\ CpuInv /\ StrongInv
    BY DEF IInv
  <1>s. /\ pc[c] = "loop" /\ waking[c] = None /\ current[c] = None
        /\ Dequeue(t)
        /\ curr' = [curr EXCEPT ![c] = t]
        /\ pc' = [pc EXCEPT ![c] = "init"]
        /\ UNCHANGED <<state, slock, current, strong, wakers, panicked, waking, adding>>
    BY DEF PickNext, Main, Goto, wakeVars
  <1>p. /\ pc'[c] = "init" /\ curr'[c] = t
        /\ \A d \in Cpu : d # c => pc'[d] = pc[d] /\ curr'[d] = curr[d]
    BY <1>i, <1>s DEF TypeOK
  <1>q. /\ queue' \in Seq(Task)
        /\ InQueue(t)
        /\ \A u \in Task : InQueue(u)' <=> InQueue(u) /\ u # t
        /\ \A i, j \in DOMAIN queue' : queue'[i] = queue'[j] => i = j
    <2>1. /\ queue \in Seq(Task)
          /\ \A i, j \in DOMAIN queue : queue[i] = queue[j] => i = j
      BY <1>i DEF TypeOK, PlaceInv, QueueDistinct
    <2> QED
      BY <1>s, <2>1, DequeueFacts
  <1>t. /\ state[t] = "Runable"
        /\ \A d \in Cpu : ~InHand(d, t)
        /\ ~adding[c]
    BY <1>i, <1>s, <1>q DEF PlaceInv, QueueDistinct, LockInv
  <1>1. TypeOK'
    BY <1>i, <1>s, <1>q DEF TypeOK
  <1>2. LockInv'
    BY <1>i, <1>s, <1>p, <1>t, SMTT(60) DEF LockInv, HoldsLock, Locked
  <1>3. PcInv'
    <2> SUFFICES ASSUME NEW d \in Cpu PROVE PcInvAt(d)'
      BY DEF PcInv
    <2>1. CASE d = c
      BY <1>s, <1>p, <1>t, <2>1 DEF PcInvAt
    <2>2. CASE d # c
      BY <1>i, <1>s, <1>p, <2>2, SMTT(60) DEF PcInv, PcInvAt
    <2> QED
      BY <2>1, <2>2
  <1>4. \A d \in Cpu, u \in Task : InHand(d, u)' <=> InHand(d, u) \/ (d = c /\ u = t)
    BY <1>s, <1>p, <1>t DEF InHand
  <1>5. PlaceInv'
    <2>1. QueueDistinct'
      BY <1>i, <1>q, <1>4 DEF PlaceInv, QueueDistinct
    <2>2. ASSUME NEW u \in Task, state'[u] = "Runable" PROVE InQueue(u)' \/ \E d \in Cpu : InHand(d, u)'
      BY <1>i, <1>s, <1>q, <1>4, <2>2 DEF PlaceInv
    <2>3. ASSUME NEW u \in Task, InQueue(u)' PROVE state'[u] = "Runable"
      BY <1>i, <1>s, <1>q, <2>3 DEF PlaceInv
    <2>4. ASSUME NEW u \in Task, NEW d \in Cpu, NEW e \in Cpu, InHand(d, u)', InHand(e, u)' PROVE d = e
      BY <1>i, <1>t, <1>4, <2>4, SMTT(60) DEF PlaceInv
    <2>5. ASSUME NEW d \in Cpu PROVE ~(pc'[d] = "init" /\ adding'[d] /\ waking'[d][1] = curr'[d])
      BY <1>i, <1>s, <1>p, <1>t, SMTT(60) DEF PlaceInv
    <2> QED
      BY <2>1, <2>2, <2>3, <2>4, <2>5 DEF PlaceInv
  <1>6. \A d \in Cpu : currentOf(d)' = currentOf(d)
    BY <1>s, <1>p DEF currentOf
  <1>7. CpuInv'
    BY <1>i, <1>s, <1>6, SMTT(60) DEF CpuInv
  <1>8. StrongInv'
    <2>1. \A u \in Task : Gone(u)' <=> Gone(u)
      BY <1>s, <1>6 DEF Gone
    <2>2. \A u \in Task : Cleaning(u)' <=> Cleaning(u)
      BY <1>s, <1>p DEF Cleaning
    <2> QED
      BY <1>i, <1>s, <2>1, <2>2 DEF StrongInv
  <1> QED
    BY <1>1, <1>2, <1>3, <1>5, <1>7, <1>8 DEF IInv

\* The CPU that took the task is the only one that has it.
LEMMA InitCurrentIInv ==
  ASSUME IInv, NEW c \in Cpu, InitCurrent(c) PROVE IInv'
  <1> USE NoneAssumption
  <1>i. TypeOK /\ LockInv /\ PcInv /\ PlaceInv /\ CpuInv /\ StrongInv
    BY DEF IInv
  <1>s. /\ pc[c] = "init" /\ waking[c] = None /\ slock[curr[c]] = None
        /\ state' = [state EXCEPT ![curr[c]] = "Running"]
        /\ current' = [current EXCEPT ![c] = curr[c]]
        /\ pc' = [pc EXCEPT ![c] = "poll"]
        /\ UNCHANGED <<slock, queue, strong, wakers, panicked, curr, waking, adding>>
    BY DEF InitCurrent, Main, SetState, Goto, wakeVars
  <1>t. /\ curr[c] \in Task
        /\ state[curr[c]] = "Runable"
        /\ current[c] = None
        /\ InHand(c, curr[c])
        /\ ~adding[c]
    BY <1>i, <1>s DEF PcInv, PcInvAt, LockInv, InHand
  <1>p. /\ state'[curr[c]] = "Running" /\ current'[c] = curr[c] /\ pc'[c] = "poll"
        /\ \A u \in Task : u # curr[c] => state'[u] = state[u]
        /\ \A d \in Cpu : d # c => pc'[d] = pc[d] /\ current'[d] = current[d]
    BY <1>i, <1>s, <1>t DEF TypeOK
  <1>q. /\ ~InQueue(curr[c])
        /\ \A d \in Cpu : InHand(d, curr[c]) => d = c
        /\ \A d \in Cpu : ~HoldsLock(d, curr[c])
    BY <1>i, <1>s, <1>t, SMTT(60) DEF PlaceInv, QueueDistinct, LockInv
  <1>x. ASSUME NEW d \in Cpu
        PROVE  /\ d # c => curr[d] # curr[c]
               /\ current[d] # curr[c]
               /\ currentOf(d) # curr[c]
    <2>1. PcInvAt(d) /\ pc[d] \in Locked \cup {"loop", "init", "poll", "exit", "user"}
      BY <1>i DEF PcInv, TypeOK
    <2>2. d # c => curr[d] # curr[c]
      BY <1>t, <1>q, <2>1 DEF PcInvAt, InHand, HoldsLock, OnCpu, Locked
    <2>3. current[d] # curr[c]
      BY <1>t, <2>1, <2>2 DEF PcInvAt, OnCpu, Locked
    <2> QED
      BY <1>t, <2>2, <2>3 DEF currentOf
  <1>1. TypeOK'
    BY <1>i, <1>s, <1>t DEF TypeOK, OnCpu
  <1>2. LockInv'
    BY <1>i, <1>s, <1>p, SMTT(60) DEF LockInv, HoldsLock, Locked
  <1>3. PcInv'
    <2> SUFFICES ASSUME NEW d \in Cpu PROVE PcInvAt(d)'
      BY DEF PcInv
    <2>1. CASE d = c
      BY <1>s, <1>p, <1>t, <2>1 DEF PcInvAt, OnCpu
    <2>2. CASE d # c
      <3>1. PcInvAt(d) /\ current[d] \in Task \cup {None} /\ curr[d] \in Task \cup {None}
        BY <1>i DEF PcInv, TypeOK
      <3>2. adding[d] => waking[d][1] # curr[c]
        BY <1>q DEF HoldsLock
      <3> QED
        BY <1>s, <1>p, <1>x, <2>2, <3>1, <3>2, SMTT(60) DEF PcInvAt
    <2> QED
      BY <2>1, <2>2
  <1>4. \A d \in Cpu, u \in Task : InHand(d, u)' <=> InHand(d, u) /\ u # curr[c]
    BY <1>s, <1>p, <1>t, <1>q, SMTT(60) DEF InHand
  <1>5. PlaceInv'
    <2>1. \A u \in Task : InQueue(u)' <=> InQueue(u)
      BY <1>s DEF InQueue
    <2>2. \A u \in Task : state'[u] = "Runable" <=> state[u] = "Runable" /\ u # curr[c]
      BY <1>p
    <2>3. QueueDistinct'
      BY <1>i, <1>s, <1>4, <2>1 DEF PlaceInv, QueueDistinct
    <2>4. ASSUME NEW u \in Task, state'[u] = "Runable" PROVE InQueue(u)' \/ \E d \in Cpu : InHand(d, u)'
      BY <1>i, <1>4, <2>1, <2>2, <2>4 DEF PlaceInv
    <2>5. ASSUME NEW u \in Task, InQueue(u)' PROVE state'[u] = "Runable"
      BY <1>i, <1>q, <2>1, <2>2, <2>5 DEF PlaceInv
    <2>6. ASSUME NEW d \in Cpu PROVE ~(pc'[d] = "init" /\ adding'[d] /\ waking'[d][1] = curr'[d])
      <3>1. ~(pc[d] = "init" /\ adding[d] /\ waking[d][1] = curr[d])
        BY <1>i DEF PlaceInv
      <3>2. pc'[d] = "init" => pc[d] = "init"
        BY <1>p
      <3> QED
        BY <1>s, <3>1, <3>2
    <2> QED
      BY <1>i, <1>4, <2>3, <2>4, <2>5, <2>6 DEF PlaceInv
  <1>6. \A d \in Cpu : currentOf(d)' = IF d = c THEN curr[c] ELSE currentOf(d)
    BY <1>p DEF currentOf
  <1>7. CpuInv'
    <2>1. ASSUME NEW u \in Task, state'[u] \in OnCpu PROVE \E d \in Cpu : currentOf(d)' = u
      <3>1. CASE u = curr[c]
        BY <1>6, <3>1
      <3>2. CASE u # curr[c]
        <4>1. PICK d \in Cpu : currentOf(d) = u
          BY <1>i, <1>p, <2>1, <3>2 DEF CpuInv
        <4>2. d # c
          BY <1>s, <1>t, <4>1 DEF currentOf
        <4> QED
          BY <1>6, <4>1, <4>2
      <3> QED
        BY <3>1, <3>2
    <2>2. ASSUME NEW d \in Cpu, NEW e \in Cpu, currentOf(d)' # None, currentOf(d)' = currentOf(e)' PROVE d = e
      BY <1>i, <1>6, <1>x, <2>2, SMTT(60) DEF CpuInv
    <2> QED
      BY <2>1, <2>2 DEF CpuInv
  <1>8. StrongInv'
    <2>1. ASSUME NEW u \in Task PROVE Gone(u)' <=> Gone(u)
      <3>1. CASE u = curr[c]
        BY <1>t, <1>p, <3>1 DEF Gone
      <3>2. CASE u # curr[c]
        <4>1. \A d \in Cpu : currentOf(d)' = u <=> currentOf(d) = u
          BY <1>s, <1>t, <1>6, <3>2 DEF currentOf
        <4> QED
          BY <1>p, <3>2, <4>1 DEF Gone
      <3> QED
        BY <3>1, <3>2
    <2>2. \A u \in Task : Cleaning(u)' <=> Cleaning(u)
      BY <1>s, <1>p DEF Cleaning
    <2> QED
      BY <1>i, <1>s, <2>1, <2>2 DEF StrongInv
  <1> QED
    BY <1>1, <1>2, <1>3, <1>5, <1>7, <1>8 DEF IInv

\* Every step of the loop, of a waker and of the tasks preserves the invariant.
LEMMA NextIInv ==
  ASSUME IInv, [Next]_vars PROVE IInv'
  <1>1. ASSUME NEW t \in Task, Spawn(t) PROVE IInv'
    BY <1>1, SpawnIInv
  <1>2. ASSUME NEW c \in Cpu, NEW n \in Node, Register(c, n) \/ Deregister(c, n) PROVE IInv'
    BY <1>2, PolledSteps
  <1>3. ASSUME NEW c \in Cpu, SetExited(c) PROVE IInv'
    BY <1>3, PolledSteps
  <1>4. ASSUME NEW c \in Cpu, NEW t \in Task, NEW n \in Node, WakeStart(c, t, n) PROVE IInv'
    BY <1>4, WakerSteps
  <1>5. ASSUME NEW c \in Cpu, CpuStep(c) PROVE IInv'
    <2>1. CASE RunCurrent(c) \/ UserTrap(c) \/ PendUnlock(c)
      BY <2>1, MoveSteps
    <2>2. ASSUME NEW t \in Task, PickNext(c, t) PROVE IInv'
      BY <2>2, PickNextIInv
    <2>3. CASE InitCurrent(c)
      BY <2>3, InitCurrentIInv
    <2>4. CASE Ready(c) \/ PendLock(c) \/ PendUserReturn(c) \/ PendWaked(c) \/ PendPanic(c)
      BY <2>4, PolledSteps
    <2>5. CASE PendRunning(c) \/ PendBlocking(c)
      BY <2>5, LeaveSteps
    <2>6. CASE Clean(c) \/ Forget(c)
      BY <2>6, CleanSteps
    <2>7. CASE ExitClean(c)
      BY <2>7, ExitCleanIInv
    <2> QED
      BY <1>5, <2>1, <2>2, <2>3, <2>4, <2>5, <2>6, <2>7 DEF CpuStep
  <1>6. ASSUME NEW c \in Cpu, WakeStep(c) PROVE IInv'
    BY <1>6, WakerSteps, WakeBlockedIInv, WakeAddIInv DEF WakeStep
  <1>7. CASE UNCHANGED vars
    <2>0. UNCHANGED <<state, slock, queue, current, strong, wakers, panicked, pc, curr, waking, adding>>
      BY <1>7 DEF vars
    <2>i. TypeOK /\ LockInv /\ PcInv /\ PlaceInv
      BY DEF IInv
    <2>1. TypeOK' /\ LockInv'
      BY <2>0, <2>i, SMTT(60) DEF TypeOK, LockInv, HoldsLock
    <2>2. PcInv'
      BY <2>0, <2>i DEF PcInv, PcInvAt
    <2>3. \A d \in Cpu, u \in Task : InHand(d, u)' <=> InHand(d, u)
      BY <2>0 DEF InHand
    <2>4. \A d \in Cpu : ~(pc'[d] = "init" /\ adding'[d] /\ waking'[d][1] = curr'[d])
      BY <2>0, <2>i DEF PlaceInv
    <2>5. \A d \in Cpu : currentOf(d)' = currentOf(d)
      BY <2>0 DEF currentOf
    <2>6. \A u \in Task : Cleaning(u)' <=> Cleaning(u)
      BY <2>0 DEF Cleaning
    <2> QED
      BY <2>0, <2>1, <2>2, <2>3, <2>4, <2>5, <2>6, Frame
  <1> QED
    BY <1>1, <1>2, <1>3, <1>4, <1>5, <1>6, <1>7 DEF Next, Environment

----------------------------------------------------------------------------
(* What the invariant says.                                                *)

\* Between put_prev_task and clean_current the lock keeps every other CPU away.
LEMMA IInvSafe == IInv => TypeOK /\ CurrentExclusive /\ CurrAlive /\ QueueDistinct
  <1> SUFFICES ASSUME IInv PROVE CurrentExclusive /\ CurrAlive
    BY DEF IInv, PlaceInv
  <1> USE NoneAssumption DEF IInv, TypeOK
  <1>1. CurrentExclusive
    <2> SUFFICES ASSUME NEW c \in Cpu, NEW d \in Cpu, c # d, current[c] # None, current[c] = current[d]
                 PROVE  FALSE
      BY DEF CurrentExclusive
    <2>1. PcInvAt(c) /\ PcInvAt(d)
      BY DEF PcInv
    <2>2. pc[c] \in {"clean", "forget"} <=> pc[d] \in {"clean", "forget"}
      BY <2>1 DEF PcInvAt, OnCpu, Locked
    <2>3. CASE pc[c] \in {"clean", "forget"}
      <3>1. HoldsLock(c, current[c]) /\ HoldsLock(d, current[c])
        BY <2>1, <2>2, <2>3 DEF HoldsLock, PcInvAt, Locked
      <3> QED
        BY <3>1, SMTT(60) DEF LockInv
    <2>4. CASE pc[c] \notin {"clean", "forget"}
      BY <2>2, <2>4 DEF CpuInv, currentOf
    <2> QED
      BY <2>3, <2>4
  <1>2. CurrAlive
    <2> SUFFICES ASSUME NEW c \in Cpu, curr[c] # None PROVE strong[curr[c]] > 0
      BY DEF CurrAlive
    <2>1. PcInvAt(c)
      BY DEF PcInv
    <2>2. state[curr[c]] = "Exited" => currentOf(c) = curr[c]
      BY <2>1 DEF PcInvAt, currentOf, Locked
    <2>3. ~Gone(curr[c])
      BY <2>1, <2>2 DEF PcInvAt, Gone, OnCpu, Locked
    <2>4. curr[c] \in Task
      OBVIOUS
    <2>5. strong[curr[c]] = 1 + (IF Cleaning(curr[c]) THEN 1 ELSE 0)
      BY <2>3, <2>4 DEF StrongInv
    <2> QED
      BY SMTT(60), <2>5
  <1> QED
    BY <1>1, <1>2

\* The inductive invariant, and what follows from it, hold of every behaviour.
LEMMA LoopSafe == Spec => [](TypeOK /\ CurrentExclusive /\ CurrAlive /\ QueueDistinct)
  <1>1. IInv /\ [Next]_vars => IInv'
    BY NextIInv
  <1> QED
    BY <1>1, InitIInv, IInvSafe, PTL DEF Spec

\* For any tasks and CPUs, however run_task and wakers interleave lock by lock, two CPUs never have
\* the same current task.
THEOREM LoopExclusive == Spec => []CurrentExclusive
  BY LoopSafe, PTL

\* The task that run_task still has in hand is not freed, although clean_current may drop the last
\* reference that the scheduler's side holds.
THEOREM LoopAlive == Spec => []CurrAlive
  BY LoopSafe, PTL

----------------------------------------------------------------------------
(* What the abstract variables are under the invariant.                    *)

ReadyFact == \A t \in Task : readyOf(t) = IF state[t] = "Runable" THEN 1 ELSE 0
StrongFact == \A t \in Task : strongOf(t) = IF Gone(t) THEN 0 ELSE 1

\* Queued means Runable, and counted once.
LEMMA ReadyOf == IInv => ReadyFact
  <1> SUFFICES ASSUME IInv, NEW t \in Task
               PROVE  (InQueue(t) \/ \E c \in Cpu : InHand(c, t)) <=> state[t] = "Runable"
    BY DEF readyOf, ReadyFact
  <1>1. ASSUME NEW c \in Cpu, InHand(c, t) PROVE state[t] = "Runable"
    BY <1>1, SMTT(60) DEF IInv, PcInv, PcInvAt, InHand
  <1> QED
    BY <1>1 DEF IInv, PlaceInv

\* One reference while the task exists.
LEMMA StrongOf == IInv => StrongFact
  <1> SUFFICES ASSUME IInv, NEW t \in Task PROVE strongOf(t) = IF Gone(t) THEN 0 ELSE 1
    BY DEF StrongFact
  <1>1. strong[t] = (IF Gone(t) THEN 0 ELSE 1) + (IF Cleaning(t) THEN 1 ELSE 0)
    BY DEF IInv, StrongInv
  <1>2. strongOf(t) = IF Cleaning(t) THEN strong[t] - 1 ELSE strong[t]
    BY DEF strongOf, Cleaning
  <1> QED
    BY SMTT(60), <1>1, <1>2

\* Extensionality, for sets given by operators.
LEMMA SetEq ==
  ASSUME NEW A, NEW B, \A x : x \in A <=> x \in B PROVE A = B
  OBVIOUS

\* The lists, and the wakers in use that have not yet taken effect.
LEMMA WakersOf ==
  \A t \in Task : \A n : n \in wakersOf(t) <=>
    n \in wakers[t] \/ (n \in Node /\ \E c \in Cpu : waking[c] = <<t, n>> /\ ~adding[c])
  BY DEF wakersOf

\* No step of a waker: the abstract wakers are those of the lists, before and after.
LEMMA WakersFrame ==
  ASSUME UNCHANGED wakeVars
  PROVE  \A t \in Task : (wakers'[t] = wakers[t] => wakersOf(t)' = wakersOf(t))
  BY DEF wakersOf, wakeVars

\* The same before and after a step.
LEMMA Facts ==
  ASSUME IInv, IInv' PROVE ReadyFact /\ ReadyFact' /\ StrongFact /\ StrongFact'
  BY ReadyOf, StrongOf, PTL

\* A step that changes none of state, panicked, the current tasks and the wakers.
LEMMA StutterStep ==
  ASSUME IInv, IInv', UNCHANGED <<state, panicked>>,
         \A d \in Cpu : currentOf(d)' = currentOf(d),
         \A t \in Task : wakersOf(t)' = wakersOf(t)
  PROVE  UNCHANGED TaskLayer!vars
  <1>1. \A t \in Task : readyOf(t)' = readyOf(t)
    BY Facts DEF ReadyFact
  <1>2. \A t \in Task : strongOf(t)' = strongOf(t)
    <2>1. \A t \in Task : Gone(t)' <=> Gone(t)
      BY DEF Gone
    <2> QED
      BY <2>1, Facts DEF StrongFact
  <1> QED
    BY <1>1, <1>2 DEF TaskLayer!vars

----------------------------------------------------------------------------
(* Every step is a step of the task layer, or none.                        *)

TaskStep == [TaskLayer!Next]_(TaskLayer!vars)

\* The points of the loop between two operations on the state.
LEMMA LoopStutters ==
  ASSUME IInv, IInv', NEW c \in Cpu,
         \/ RunCurrent(c) \/ \E t \in Task : PickNext(c, t)
         \/ PendLock(c) \/ PendUserReturn(c) \/ UserTrap(c)
         \/ Clean(c) \/ Forget(c) \/ PendUnlock(c)
  PROVE  UNCHANGED TaskLayer!vars
  <1> USE NoneAssumption
  <1>i. TypeOK /\ PcInv
    BY DEF IInv
  <1>1. UNCHANGED <<state, panicked, wakers, wakeVars>>
    BY DEF RunCurrent, PickNext, PendLock, PendUserReturn, UserTrap, Clean, Forget, PendUnlock
  <1>2. PcInvAt(c)
    BY <1>i DEF PcInv
  <1>3. \A d \in Cpu : d # c => pc'[d] = pc[d] /\ current'[d] = current[d]
    BY <1>i DEF TypeOK, RunCurrent, PickNext, PendLock, PendUserReturn, UserTrap, Clean,
           Forget, PendUnlock, Goto, CleanCurrent
  <1>4. currentOf(c)' = currentOf(c)
    BY <1>i, <1>2 DEF TypeOK, RunCurrent, PickNext, PendLock, PendUserReturn, UserTrap, Clean, Forget,
           PendUnlock, Main, Goto, CleanCurrent, PcInvAt, currentOf
  <1>5. \A d \in Cpu : currentOf(d)' = currentOf(d)
    BY <1>3, <1>4 DEF currentOf
  <1>6. \A t \in Task : wakersOf(t)' = wakersOf(t)
    BY <1>1, WakersFrame
  <1> QED
    BY <1>1, <1>5, <1>6, StutterStep

\* Taking a waker off its list, and the end of a wakeup that has queued the task.
LEMMA WakeStutters ==
  ASSUME IInv, IInv', NEW c \in Cpu,
         WakeAdd(c) \/ \E t \in Task, n \in Node : WakeStart(c, t, n)
  PROVE  UNCHANGED TaskLayer!vars
  <1> USE NoneAssumption, NotWaking
  <1>i. TypeOK /\ LockInv /\ PcInv
    BY DEF IInv
  <1>1. UNCHANGED <<state, panicked, pc, current>>
    BY DEF WakeAdd, WakeStart, cpuVars
  <1>2. \A d \in Cpu : currentOf(d)' = currentOf(d)
    BY <1>1 DEF currentOf
  <1>3. CASE WakeAdd(c)
    <2>1. adding[c] /\ ~adding'[c] /\ waking'[c] = None /\ wakers' = wakers
      BY <1>i, <1>3 DEF TypeOK, WakeAdd
    <2>2. \A d \in Cpu : d # c => waking'[d] = waking[d] /\ adding'[d] = adding[d]
      BY <1>3, SMTT(60) DEF WakeAdd
    <2>3. \A t \in Task, n \in Node : None # <<t, n>>
      BY SMTT(60)
    <2> HIDE NotWaking
    <2>4. ASSUME NEW t \in Task, NEW n \in Node, NEW d \in Cpu
          PROVE  (waking'[d] = <<t, n>> /\ ~adding'[d]) <=> (waking[d] = <<t, n>> /\ ~adding[d])
      BY <2>1, <2>2, <2>3
    <2>5. ASSUME NEW t \in Task PROVE wakersOf(t)' = wakersOf(t)
      <3>1. {n \in Node : \E d \in Cpu : waking'[d] = <<t, n>> /\ ~adding'[d]}
              = {n \in Node : \E d \in Cpu : waking[d] = <<t, n>> /\ ~adding[d]}
        BY <2>4
      <3> QED
        BY <2>1, <3>1 DEF wakersOf
    <2> QED
      BY <1>1, <1>2, <2>5, StutterStep
  <1>4. ASSUME NEW t \in Task, NEW n \in Node, WakeStart(c, t, n)
        PROVE  UNCHANGED TaskLayer!vars
    <2>1. ~adding[c] /\ adding' = adding /\ waking[c] = None /\ n \in wakers[t]
      BY <1>i, <1>4 DEF TypeOK, WakeStart, LockInv
    <2>2. \A d \in Cpu : waking'[d] = IF d = c THEN <<t, n>> ELSE waking[d]
      BY <1>i, <1>4 DEF TypeOK, WakeStart
    <2>3. \A u \in Task : wakers'[u] = IF u = t THEN wakers[t] \ {n} ELSE wakers[u]
      BY <1>i, <1>4 DEF TypeOK, WakeStart
    <2>4. \A u \in Task, m \in Node : None # <<u, m>>
      BY SMTT(60)
    <2> HIDE NotWaking
    <2>5. ASSUME NEW u \in Task, NEW m PROVE m \in wakersOf(u)' <=> m \in wakersOf(u)
      <3>1. m \in wakersOf(u)' <=>
              m \in wakers'[u] \/ (m \in Node /\ \E d \in Cpu : waking'[d] = <<u, m>> /\ ~adding'[d])
        BY DEF wakersOf
      <3>2. CASE u = t /\ m = n
        BY <2>1, <2>2, <2>3, <3>1, <3>2, WakersOf
      <3>3. CASE ~(u = t /\ m = n)
        <4>1. m \in wakers'[u] <=> m \in wakers[u]
          BY <2>3, <3>3
        <4>2. ASSUME NEW d \in Cpu, m \in Node PROVE waking'[d] = <<u, m>> <=> waking[d] = <<u, m>>
          <5>1. <<u, m>> # <<t, n>> /\ <<u, m>> # None
            BY <2>4, <3>3, <4>2
          <5> QED
            BY <2>1, <2>2, <5>1
        <4> QED
          BY <2>1, <3>1, <4>1, <4>2, WakersOf
      <3> QED
        BY <3>2, <3>3
    <2>6. \A u \in Task : wakersOf(u)' = wakersOf(u)
      BY <2>5, SetEq
    <2> QED
      BY <1>1, <1>2, <2>6, StutterStep
  <1> QED
    BY <1>3, <1>4

\* add_task.
LEMMA SpawnMaps ==
  ASSUME IInv, IInv', ~panicked, NEW t \in Task, Spawn(t) PROVE TaskLayer!Next
  <1> USE NoneAssumption, NotWaking
  <1>i. TypeOK /\ LockInv /\ PcInv
    BY DEF IInv
  <1>t. /\ state[t] = "New"
        /\ \A d \in Cpu : currentOf(d) # t
    <2>1. state[t] = "New"
      BY DEF Spawn
    <2>2. ASSUME NEW d \in Cpu PROVE currentOf(d) # t
      <3>1. PcInvAt(d)
        BY <1>i DEF TypeOK, PcInv
      <3> QED
        BY <1>i, <2>1, <3>1 DEF TypeOK, PcInvAt, currentOf, OnCpu, Locked
    <2> QED
      BY <2>1, <2>2
  <1>s. \A u \in Task : state'[u] = IF u = t THEN "Runable" ELSE state[u]
    BY <1>i, <1>t DEF TypeOK, Spawn, SetState
  <1>1. \A u \in Task : readyOf(u)' = IF u = t THEN 1 ELSE readyOf(u)
    <2>1. ReadyFact /\ ReadyFact'
      BY Facts
    <2> QED
      BY <1>t, <1>s, <2>1 DEF ReadyFact, OnCpu
  <1>2. \A d \in Cpu : currentOf(d)' = currentOf(d)
    BY <1>t DEF Spawn, Main, Goto, CleanCurrent, cpuVars, currentOf
  <1>3. \A u \in Task : strongOf(u)' = IF u = t THEN 1 ELSE strongOf(u)
    <2>1. ASSUME NEW u \in Task PROVE Gone(u)' <=> Gone(u) /\ u # t
      <3>1. CASE u = t
        BY <1>t, <1>s, <1>2, <3>1 DEF Gone, OnCpu
      <3>2. CASE u # t
        <4>1. \A d \in Cpu : currentOf(d)' = u <=> currentOf(d) = u
          BY <1>t, <1>2, <3>2
        <4> QED
          BY <1>s, <3>2, <4>1 DEF Gone
      <3> QED
        BY <3>1, <3>2
    <2>2. Gone(t)
      BY <1>t DEF Gone, OnCpu
    <2> QED
      BY <1>t, <2>1, <2>2, Facts DEF StrongFact
  <1>4. \A u \in Task : wakersOf(u)' = wakersOf(u)
    BY WakersFrame DEF Spawn
  <1>0. readyOf(t) = 0
    BY <1>t, Facts DEF ReadyFact
  <1>a. [u \in Task |-> readyOf(u)]' = [[u \in Task |-> readyOf(u)] EXCEPT ![t] = @ + 1]
    <2>1. [u \in Task |-> readyOf(u)][t] + 1 = 1
      BY SMTT(60), <1>t, <1>0
    <2>2. [u \in Task |-> readyOf(u)]' = [[u \in Task |-> readyOf(u)] EXCEPT ![t] = 1]
      BY <1>t, <1>0, <1>1
    <2> QED
      BY <2>1, <2>2
  <1>b. [u \in Task |-> strongOf(u)]' = [[u \in Task |-> strongOf(u)] EXCEPT ![t] = 1]
    BY <1>t, <1>0, <1>3
  <1>c. [d \in Cpu |-> currentOf(d)]' = [d \in Cpu |-> currentOf(d)]
    BY <1>t, <1>2
  <1>e. [u \in Task |-> readyOf(u)][t] = readyOf(t)
    BY <1>t
  <1>5. TaskLayer!Spawn(t)
    BY <1>t, <1>0, <1>a, <1>b, <1>c, <1>e DEF Spawn, SetState, TaskLayer!Spawn, TaskLayer!SetState, TaskLayer!OnCpu, OnCpu
  <1>6. UNCHANGED [u \in Task |-> wakersOf(u)]
    BY <1>4
  <1> QED
    BY <1>5, <1>6 DEF TaskLayer!Next, TaskLayer!Step

\* init_current ends what pick_next_task began.
LEMMA InitCurrentMaps ==
  ASSUME IInv, IInv', ~panicked, NEW c \in Cpu, InitCurrent(c) PROVE TaskLayer!Next
  <1> USE NoneAssumption, NotWaking
  <1>i. TypeOK /\ LockInv /\ PcInv
    BY DEF IInv
  <1>t. /\ curr[c] \in Task
        /\ state[curr[c]] = "Runable"
        /\ currentOf(c) = None
        /\ \A d \in Cpu : currentOf(d) # curr[c]
    <2>1. /\ curr[c] \in Task
          /\ state[curr[c]] = "Runable"
          /\ currentOf(c) = None
      BY <1>i DEF TypeOK, InitCurrent, Main, PcInv, PcInvAt, currentOf
    <2>2. ASSUME NEW d \in Cpu PROVE currentOf(d) # curr[c]
      <3>1. PcInvAt(d)
        BY <1>i DEF TypeOK, PcInv
      <3> QED
        BY <1>i, <2>1, <3>1 DEF TypeOK, PcInvAt, currentOf, OnCpu, Locked
    <2> QED
      BY <2>1, <2>2
  <1>s. \A u \in Task : state'[u] = IF u = curr[c] THEN "Running" ELSE state[u]
    BY <1>i, <1>t DEF TypeOK, InitCurrent, SetState
  <1>1. \A u \in Task : readyOf(u)' = IF u = curr[c] THEN 0 ELSE readyOf(u)
    <2>1. ReadyFact /\ ReadyFact'
      BY Facts
    <2> QED
      BY <1>t, <1>s, <2>1 DEF ReadyFact, OnCpu
  <1>2. \A d \in Cpu : currentOf(d)' = IF d = c THEN curr[c] ELSE currentOf(d)
    BY <1>i, <1>t DEF TypeOK, InitCurrent, Main, Goto, CleanCurrent, cpuVars, currentOf
  <1>3. \A u \in Task : strongOf(u)' = strongOf(u)
    <2>1. ASSUME NEW u \in Task PROVE Gone(u)' <=> Gone(u)
      <3>1. CASE u = curr[c]
        BY <1>t, <1>s, <1>2, <3>1 DEF Gone, OnCpu
      <3>2. CASE u # curr[c]
        <4>1. \A d \in Cpu : currentOf(d)' = u <=> currentOf(d) = u
          BY <1>t, <1>2, <3>2
        <4> QED
          BY <1>s, <3>2, <4>1 DEF Gone
      <3> QED
        BY <3>1, <3>2
    <2>2. ~Gone(curr[c])
      BY <1>t DEF Gone, OnCpu
    <2> QED
      BY <1>t, <2>1, <2>2, Facts DEF StrongFact
  <1>4. \A u \in Task : wakersOf(u)' = wakersOf(u)
    BY WakersFrame DEF InitCurrent
  <1>0. readyOf(curr[c]) = 1
    BY <1>t, Facts DEF ReadyFact
  <1>a. [u \in Task |-> readyOf(u)]' = [[u \in Task |-> readyOf(u)] EXCEPT ![curr[c]] = @ - 1]
    <2>1. [u \in Task |-> readyOf(u)][curr[c]] - 1 = 0
      BY SMTT(60), <1>t, <1>0
    <2>2. [u \in Task |-> readyOf(u)]' = [[u \in Task |-> readyOf(u)] EXCEPT ![curr[c]] = 0]
      BY <1>t, <1>0, <1>1
    <2> QED
      BY <2>1, <2>2
  <1>b. [u \in Task |-> strongOf(u)]' = [u \in Task |-> strongOf(u)]
    BY <1>t, <1>0, <1>3
  <1>c. [d \in Cpu |-> currentOf(d)]' = [[d \in Cpu |-> currentOf(d)] EXCEPT ![c] = curr[c]]
    BY <1>t, <1>2
  <1>d. [d \in Cpu |-> currentOf(d)][c] = currentOf(c)
    OBVIOUS
  <1>e. [u \in Task |-> readyOf(u)][curr[c]] = readyOf(curr[c])
    BY <1>t
  <1>5. TaskLayer!PickNext(c, curr[c])
    BY <1>t, <1>0, <1>a, <1>b, <1>c, <1>d, <1>e, SMTT(60) DEF InitCurrent, SetState, TaskLayer!PickNext, TaskLayer!SetState, TaskLayer!OnCpu, OnCpu
  <1>6. UNCHANGED [u \in Task |-> wakersOf(u)]
    BY <1>4
  <1> QED
    BY <1>t, <1>5, <1>6 DEF TaskLayer!Next, TaskLayer!Step

\* set_state(Exited).
LEMMA SetExitedMaps ==
  ASSUME IInv, IInv', ~panicked, NEW c \in Cpu, SetExited(c) PROVE TaskLayer!Next
  <1> USE NoneAssumption, NotWaking
  <1>i. TypeOK /\ LockInv /\ PcInv
    BY DEF IInv
  <1>t. /\ curr[c] \in Task
        /\ currentOf(c) = curr[c]
        /\ state[curr[c]] \in OnCpu \cup {"Exited"}
        /\ \A d \in Cpu : d # c => currentOf(d) # curr[c]
    BY Exclusive DEF SetExited, Main
  <1>s. \A u \in Task : state'[u] = IF u = curr[c] THEN "Exited" ELSE state[u]
    BY <1>i, <1>t DEF TypeOK, SetExited, SetState
  <1>1. \A u \in Task : readyOf(u)' = IF u = curr[c] THEN 0 ELSE readyOf(u)
    <2>1. ReadyFact /\ ReadyFact'
      BY Facts
    <2> QED
      BY <1>t, <1>s, <2>1 DEF ReadyFact, OnCpu
  <1>2. \A d \in Cpu : currentOf(d)' = currentOf(d)
    BY <1>t DEF SetExited, Main, Goto, CleanCurrent, cpuVars, currentOf
  <1>3. \A u \in Task : strongOf(u)' = strongOf(u)
    <2>1. ASSUME NEW u \in Task PROVE Gone(u)' <=> Gone(u)
      <3>1. CASE u = curr[c]
        BY <1>t, <1>s, <1>2, <3>1 DEF Gone, OnCpu
      <3>2. CASE u # curr[c]
        <4>1. \A d \in Cpu : currentOf(d)' = u <=> currentOf(d) = u
          BY <1>t, <1>2, <3>2
        <4> QED
          BY <1>s, <3>2, <4>1 DEF Gone
      <3> QED
        BY <3>1, <3>2
    <2>2. ~Gone(curr[c])
      BY <1>t DEF Gone, OnCpu
    <2> QED
      BY <1>t, <2>1, <2>2, Facts DEF StrongFact
  <1>4. \A u \in Task : wakersOf(u)' = wakersOf(u)
    BY WakersFrame DEF SetExited
  <1>0. readyOf(curr[c]) = 0 /\ strongOf(curr[c]) = 1
    <2>1. ~Gone(curr[c])
      BY <1>t DEF Gone, OnCpu
    <2> QED
      BY <1>t, <2>1, Facts DEF ReadyFact, StrongFact, OnCpu
  <1>a. [u \in Task |-> readyOf(u)]' = [u \in Task |-> readyOf(u)]
    BY <1>t, <1>0, <1>1
  <1>b. [u \in Task |-> strongOf(u)]' = [u \in Task |-> strongOf(u)]
    BY <1>t, <1>0, <1>3
  <1>c. [d \in Cpu |-> currentOf(d)]' = [d \in Cpu |-> currentOf(d)]
    BY <1>t, <1>2
  <1>d. [d \in Cpu |-> currentOf(d)][c] = currentOf(c)
    OBVIOUS
  <1>e. [u \in Task |-> readyOf(u)][curr[c]] = readyOf(curr[c])
    BY <1>t
  <1>5. TaskLayer!SetExited(c)
    BY <1>t, <1>0, <1>a, <1>b, <1>c, <1>d, <1>e DEF SetExited, SetState, TaskLayer!SetExited, TaskLayer!SetState, TaskLayer!OnCpu, OnCpu
  <1>6. UNCHANGED [u \in Task |-> wakersOf(u)]
    BY <1>4
  <1> QED
    BY <1>5, <1>6 DEF TaskLayer!Next, TaskLayer!Step

\* set_state(Exited).
LEMMA ReadyMaps ==
  ASSUME IInv, IInv', ~panicked, NEW c \in Cpu, Ready(c) PROVE TaskLayer!Next
  <1> USE NoneAssumption, NotWaking
  <1>i. TypeOK /\ LockInv /\ PcInv
    BY DEF IInv
  <1>t. /\ curr[c] \in Task
        /\ currentOf(c) = curr[c]
        /\ state[curr[c]] \in OnCpu \cup {"Exited"}
        /\ \A d \in Cpu : d # c => currentOf(d) # curr[c]
    BY Exclusive DEF Ready, Main
  <1>s. \A u \in Task : state'[u] = IF u = curr[c] THEN "Exited" ELSE state[u]
    BY <1>i, <1>t DEF TypeOK, Ready, SetState
  <1>1. \A u \in Task : readyOf(u)' = IF u = curr[c] THEN 0 ELSE readyOf(u)
    <2>1. ReadyFact /\ ReadyFact'
      BY Facts
    <2> QED
      BY <1>t, <1>s, <2>1 DEF ReadyFact, OnCpu
  <1>2. \A d \in Cpu : currentOf(d)' = currentOf(d)
    BY <1>t, SMTT(60) DEF Ready, Main, Goto, CleanCurrent, cpuVars, currentOf
  <1>3. \A u \in Task : strongOf(u)' = strongOf(u)
    <2>1. ASSUME NEW u \in Task PROVE Gone(u)' <=> Gone(u)
      <3>1. CASE u = curr[c]
        BY <1>t, <1>s, <1>2, <3>1 DEF Gone, OnCpu
      <3>2. CASE u # curr[c]
        <4>1. \A d \in Cpu : currentOf(d)' = u <=> currentOf(d) = u
          BY <1>t, <1>2, <3>2
        <4> QED
          BY <1>s, <3>2, <4>1 DEF Gone
      <3> QED
        BY <3>1, <3>2
    <2>2. ~Gone(curr[c])
      BY <1>t DEF Gone, OnCpu
    <2> QED
      BY <1>t, <2>1, <2>2, Facts DEF StrongFact
  <1>4. \A u \in Task : wakersOf(u)' = wakersOf(u)
    BY WakersFrame DEF Ready
  <1>0. readyOf(curr[c]) = 0 /\ strongOf(curr[c]) = 1
    <2>1. ~Gone(curr[c])
      BY <1>t DEF Gone, OnCpu
    <2> QED
      BY <1>t, <2>1, Facts DEF ReadyFact, StrongFact, OnCpu
  <1>a. [u \in Task |-> readyOf(u)]' = [u \in Task |-> readyOf(u)]
    BY <1>t, <1>0, <1>1
  <1>b. [u \in Task |-> strongOf(u)]' = [u \in Task |-> strongOf(u)]
    BY <1>t, <1>0, <1>3
  <1>c. [d \in Cpu |-> currentOf(d)]' = [d \in Cpu |-> currentOf(d)]
    BY <1>t, <1>2
  <1>d. [d \in Cpu |-> currentOf(d)][c] = currentOf(c)
    OBVIOUS
  <1>e. [u \in Task |-> readyOf(u)][curr[c]] = readyOf(curr[c])
    BY <1>t
  <1>5. TaskLayer!SetExited(c)
    BY <1>t, <1>0, <1>a, <1>b, <1>c, <1>d, <1>e DEF Ready, SetState, TaskLayer!SetExited, TaskLayer!SetState, TaskLayer!OnCpu, OnCpu
  <1>6. UNCHANGED [u \in Task |-> wakersOf(u)]
    BY <1>4
  <1> QED
    BY <1>5, <1>6 DEF TaskLayer!Next, TaskLayer!Step

----------------------------------------------------------------------------
(* The steps that put away the task a CPU ran.                             *)

\* put_prev_task and clean_current.
LEMMA PendRunningMaps ==
  ASSUME IInv, IInv', ~panicked, NEW c \in Cpu, PendRunning(c) PROVE TaskLayer!Next
  <1> USE NoneAssumption, NotWaking
  <1>i. TypeOK /\ LockInv /\ PcInv
    BY DEF IInv
  <1>t. /\ curr[c] \in Task
        /\ currentOf(c) = curr[c]
        /\ state[curr[c]] \in OnCpu \cup {"Exited"}
        /\ \A d \in Cpu : d # c => currentOf(d) # curr[c]
    BY Exclusive DEF PendRunning, Main
  <1>s. \A u \in Task : state'[u] = IF u = curr[c] THEN "Runable" ELSE state[u]
    BY <1>i, <1>t DEF TypeOK, PendRunning, SetState
  <1>1. \A u \in Task : readyOf(u)' = IF u = curr[c] THEN 1 ELSE readyOf(u)
    <2>1. ReadyFact /\ ReadyFact'
      BY Facts
    <2> QED
      BY <1>t, <1>s, <2>1 DEF ReadyFact, OnCpu
  <1>2. \A d \in Cpu : currentOf(d)' = IF d = c THEN None ELSE currentOf(d)
    BY <1>i, <1>t DEF TypeOK, PendRunning, Main, Goto, CleanCurrent, cpuVars, currentOf
  <1>3. \A u \in Task : strongOf(u)' = strongOf(u)
    <2>1. ASSUME NEW u \in Task PROVE Gone(u)' <=> Gone(u)
      <3>1. CASE u = curr[c]
        BY <1>t, <1>s, <1>2, <3>1 DEF Gone, OnCpu
      <3>2. CASE u # curr[c]
        <4>1. \A d \in Cpu : currentOf(d)' = u <=> currentOf(d) = u
          BY <1>t, <1>2, <3>2
        <4> QED
          BY <1>s, <3>2, <4>1 DEF Gone
      <3> QED
        BY <3>1, <3>2
    <2>2. ~Gone(curr[c])
      BY <1>t DEF Gone, OnCpu
    <2> QED
      BY <1>t, <2>1, <2>2, Facts DEF StrongFact
  <1>4. \A u \in Task : wakersOf(u)' = wakersOf(u)
    BY WakersFrame DEF PendRunning
  <1>0. readyOf(curr[c]) = 0 /\ strongOf(curr[c]) = 1
    <2>1. ~Gone(curr[c])
      BY <1>t DEF Gone, OnCpu
    <2> QED
      BY <1>t, <2>1, Facts DEF ReadyFact, StrongFact, OnCpu
  <1>a. [u \in Task |-> readyOf(u)]' = [[u \in Task |-> readyOf(u)] EXCEPT ![curr[c]] = @ + 1]
    <2>1. [u \in Task |-> readyOf(u)][curr[c]] + 1 = 1
      BY SMTT(60), <1>t, <1>0
    <2>2. [u \in Task |-> readyOf(u)]' = [[u \in Task |-> readyOf(u)] EXCEPT ![curr[c]] = 1]
      BY <1>t, <1>0, <1>1
    <2> QED
      BY <2>1, <2>2
  <1>b. [u \in Task |-> strongOf(u)]' = [[u \in Task |-> strongOf(u)] EXCEPT ![curr[c]] = (@ + 1) - 1]
    <2>1. ([u \in Task |-> strongOf(u)][curr[c]] + 1) - 1 = 1
      BY SMTT(60), <1>t, <1>0
    <2>2. [u \in Task |-> strongOf(u)]' = [[u \in Task |-> strongOf(u)] EXCEPT ![curr[c]] = 1]
      BY <1>t, <1>0, <1>3
    <2> QED
      BY <2>1, <2>2
  <1>c. [d \in Cpu |-> currentOf(d)]' = [[d \in Cpu |-> currentOf(d)] EXCEPT ![c] = None]
    BY <1>t, <1>2
  <1>d. [d \in Cpu |-> currentOf(d)][c] = currentOf(c)
    OBVIOUS
  <1>e. [u \in Task |-> readyOf(u)][curr[c]] = readyOf(curr[c])
    BY <1>t
  <1>5. TaskLayer!PendingRunning(c)
    BY <1>t, <1>0, <1>a, <1>b, <1>c, <1>d, <1>e DEF PendRunning, SetState, TaskLayer!PendingRunning, TaskLayer!SetState, TaskLayer!OnCpu, OnCpu
  <1>6. UNCHANGED [u \in Task |-> wakersOf(u)]
    BY <1>4
  <1>7. TaskLayer!PollPending(c)
    BY <1>t, <1>d, <1>5 DEF TaskLayer!PollPending
  <1> QED
    BY <1>6, <1>7 DEF TaskLayer!Next, TaskLayer!Step

\* clean_current_without_drop.
LEMMA PendBlockingMaps ==
  ASSUME IInv, IInv', ~panicked, NEW c \in Cpu, PendBlocking(c) PROVE TaskLayer!Next
  <1> USE NoneAssumption, NotWaking
  <1>i. TypeOK /\ LockInv /\ PcInv
    BY DEF IInv
  <1>t. /\ curr[c] \in Task
        /\ currentOf(c) = curr[c]
        /\ state[curr[c]] \in OnCpu \cup {"Exited"}
        /\ \A d \in Cpu : d # c => currentOf(d) # curr[c]
    BY Exclusive DEF PendBlocking, Main
  <1>s. \A u \in Task : state'[u] = IF u = curr[c] THEN "Blocked" ELSE state[u]
    BY <1>i, <1>t DEF TypeOK, PendBlocking, SetState
  <1>1. \A u \in Task : readyOf(u)' = IF u = curr[c] THEN 0 ELSE readyOf(u)
    <2>1. ReadyFact /\ ReadyFact'
      BY Facts
    <2> QED
      BY <1>t, <1>s, <2>1 DEF ReadyFact, OnCpu
  <1>2. \A d \in Cpu : currentOf(d)' = IF d = c THEN None ELSE currentOf(d)
    BY <1>i, <1>t DEF TypeOK, PendBlocking, Main, Goto, CleanCurrent, cpuVars, currentOf
  <1>3. \A u \in Task : strongOf(u)' = strongOf(u)
    <2>1. ASSUME NEW u \in Task PROVE Gone(u)' <=> Gone(u)
      <3>1. CASE u = curr[c]
        BY <1>t, <1>s, <1>2, <3>1 DEF Gone, OnCpu
      <3>2. CASE u # curr[c]
        <4>1. \A d \in Cpu : currentOf(d)' = u <=> currentOf(d) = u
          BY <1>t, <1>2, <3>2
        <4> QED
          BY <1>s, <3>2, <4>1 DEF Gone
      <3> QED
        BY <3>1, <3>2
    <2>2. ~Gone(curr[c])
      BY <1>t DEF Gone, OnCpu
    <2> QED
      BY <1>t, <2>1, <2>2, Facts DEF StrongFact
  <1>4. \A u \in Task : wakersOf(u)' = wakersOf(u)
    BY WakersFrame DEF PendBlocking
  <1>0. readyOf(curr[c]) = 0 /\ strongOf(curr[c]) = 1
    <2>1. ~Gone(curr[c])
      BY <1>t DEF Gone, OnCpu
    <2> QED
      BY <1>t, <2>1, Facts DEF ReadyFact, StrongFact, OnCpu
  <1>a. [u \in Task |-> readyOf(u)]' = [u \in Task |-> readyOf(u)]
    BY <1>t, <1>0, <1>1
  <1>b. [u \in Task |-> strongOf(u)]' = [u \in Task |-> strongOf(u)]
    BY <1>t, <1>0, <1>3
  <1>c. [d \in Cpu |-> currentOf(d)]' = [[d \in Cpu |-> currentOf(d)] EXCEPT ![c] = None]
    BY <1>t, <1>2
  <1>d. [d \in Cpu |-> currentOf(d)][c] = currentOf(c)
    OBVIOUS
  <1>e. [u \in Task |-> readyOf(u)][curr[c]] = readyOf(curr[c])
    BY <1>t
  <1>5. TaskLayer!PendingBlocking(c)
    BY <1>t, <1>0, <1>a, <1>b, <1>c, <1>d, <1>e DEF PendBlocking, SetState, TaskLayer!PendingBlocking, TaskLayer!SetState, TaskLayer!OnCpu, OnCpu
  <1>6. UNCHANGED [u \in Task |-> wakersOf(u)]
    BY <1>4
  <1>7. TaskLayer!PollPending(c)
    BY <1>t, <1>d, <1>5 DEF TaskLayer!PollPending
  <1> QED
    BY <1>6, <1>7 DEF TaskLayer!Next, TaskLayer!Step

\* The task stays on its CPU.
LEMMA PendWakedMaps ==
  ASSUME IInv, IInv', ~panicked, NEW c \in Cpu, PendWaked(c) PROVE TaskLayer!Next
  <1> USE NoneAssumption, NotWaking
  <1>i. TypeOK /\ LockInv /\ PcInv
    BY DEF IInv
  <1>t. /\ curr[c] \in Task
        /\ currentOf(c) = curr[c]
        /\ state[curr[c]] \in OnCpu \cup {"Exited"}
        /\ \A d \in Cpu : d # c => currentOf(d) # curr[c]
    BY Exclusive DEF PendWaked, Main
  <1>s. \A u \in Task : state'[u] = IF u = curr[c] THEN "Running" ELSE state[u]
    BY <1>i, <1>t DEF TypeOK, PendWaked, SetState
  <1>1. \A u \in Task : readyOf(u)' = IF u = curr[c] THEN 0 ELSE readyOf(u)
    <2>1. ReadyFact /\ ReadyFact'
      BY Facts
    <2> QED
      BY <1>t, <1>s, <2>1 DEF ReadyFact, OnCpu
  <1>2. \A d \in Cpu : currentOf(d)' = currentOf(d)
    BY <1>t, SMTT(60) DEF PendWaked, Main, Goto, CleanCurrent, cpuVars, currentOf
  <1>3. \A u \in Task : strongOf(u)' = strongOf(u)
    <2>1. ASSUME NEW u \in Task PROVE Gone(u)' <=> Gone(u)
      <3>1. CASE u = curr[c]
        BY <1>t, <1>s, <1>2, <3>1 DEF Gone, OnCpu
      <3>2. CASE u # curr[c]
        <4>1. \A d \in Cpu : currentOf(d)' = u <=> currentOf(d) = u
          BY <1>t, <1>2, <3>2
        <4> QED
          BY <1>s, <3>2, <4>1 DEF Gone
      <3> QED
        BY <3>1, <3>2
    <2>2. ~Gone(curr[c])
      BY <1>t DEF Gone, OnCpu
    <2> QED
      BY <1>t, <2>1, <2>2, Facts DEF StrongFact
  <1>4. \A u \in Task : wakersOf(u)' = wakersOf(u)
    BY WakersFrame DEF PendWaked
  <1>0. readyOf(curr[c]) = 0 /\ strongOf(curr[c]) = 1
    <2>1. ~Gone(curr[c])
      BY <1>t DEF Gone, OnCpu
    <2> QED
      BY <1>t, <2>1, Facts DEF ReadyFact, StrongFact, OnCpu
  <1>a. [u \in Task |-> readyOf(u)]' = [u \in Task |-> readyOf(u)]
    BY <1>t, <1>0, <1>1
  <1>b. [u \in Task |-> strongOf(u)]' = [u \in Task |-> strongOf(u)]
    BY <1>t, <1>0, <1>3
  <1>c. [d \in Cpu |-> currentOf(d)]' = [d \in Cpu |-> currentOf(d)]
    BY <1>t, <1>2
  <1>d. [d \in Cpu |-> currentOf(d)][c] = currentOf(c)
    OBVIOUS
  <1>e. [u \in Task |-> readyOf(u)][curr[c]] = readyOf(curr[c])
    BY <1>t
  <1>5. TaskLayer!PendingWaked(c)
    BY <1>t, <1>0, <1>a, <1>b, <1>c, <1>d, <1>e DEF PendWaked, SetState, TaskLayer!PendingWaked, TaskLayer!SetState, TaskLayer!OnCpu, OnCpu
  <1>6. UNCHANGED [u \in Task |-> wakersOf(u)]
    BY <1>4
  <1>7. TaskLayer!PollPending(c)
    BY <1>t, <1>d, <1>5 DEF TaskLayer!PollPending
  <1> QED
    BY <1>6, <1>7 DEF TaskLayer!Next, TaskLayer!Step

\* The panics of run_task.
LEMMA PendPanicMaps ==
  ASSUME IInv, IInv', ~panicked, NEW c \in Cpu, PendPanic(c) PROVE TaskLayer!Next
  <1> USE NoneAssumption, NotWaking
  <1>i. TypeOK /\ LockInv /\ PcInv
    BY DEF IInv
  <1>t. /\ curr[c] \in Task
        /\ currentOf(c) = curr[c]
        /\ state[curr[c]] \in OnCpu \cup {"Exited"}
        /\ \A d \in Cpu : d # c => currentOf(d) # curr[c]
    BY Exclusive DEF PendPanic, Main
  <1>s. \A u \in Task : state'[u] = IF u = curr[c] THEN state[curr[c]] ELSE state[u]
    BY DEF PendPanic
  <1>1. \A u \in Task : readyOf(u)' = readyOf(u)
    <2>1. ReadyFact /\ ReadyFact'
      BY Facts
    <2> QED
      BY <1>t, <1>s, <2>1 DEF ReadyFact, OnCpu
  <1>2. \A d \in Cpu : currentOf(d)' = currentOf(d)
    BY <1>t DEF PendPanic, Main, Goto, CleanCurrent, cpuVars, currentOf
  <1>3. \A u \in Task : strongOf(u)' = strongOf(u)
    <2>1. ASSUME NEW u \in Task PROVE Gone(u)' <=> Gone(u)
      <3>1. CASE u = curr[c]
        BY <1>t, <1>s, <1>2, <3>1 DEF Gone, OnCpu
      <3>2. CASE u # curr[c]
        <4>1. \A d \in Cpu : currentOf(d)' = u <=> currentOf(d) = u
          BY <1>t, <1>2, <3>2
        <4> QED
          BY <1>s, <3>2, <4>1 DEF Gone
      <3> QED
        BY <3>1, <3>2
    <2>2. ~Gone(curr[c])
      BY <1>t DEF Gone, OnCpu
    <2> QED
      BY <1>t, <2>1, <2>2, Facts DEF StrongFact
  <1>4. \A u \in Task : wakersOf(u)' = wakersOf(u)
    BY WakersFrame DEF PendPanic
  <1>0. readyOf(curr[c]) = 0 /\ strongOf(curr[c]) = 1
    <2>1. ~Gone(curr[c])
      BY <1>t DEF Gone, OnCpu
    <2> QED
      BY <1>t, <2>1, Facts DEF ReadyFact, StrongFact, OnCpu
  <1>a. [u \in Task |-> readyOf(u)]' = [u \in Task |-> readyOf(u)]
    BY <1>t, <1>0, <1>1
  <1>b. [u \in Task |-> strongOf(u)]' = [u \in Task |-> strongOf(u)]
    BY <1>t, <1>0, <1>3
  <1>c. [d \in Cpu |-> currentOf(d)]' = [d \in Cpu |-> currentOf(d)]
    BY <1>t, <1>2
  <1>d. [d \in Cpu |-> currentOf(d)][c] = currentOf(c)
    OBVIOUS
  <1>e. [u \in Task |-> readyOf(u)][curr[c]] = readyOf(curr[c])
    BY <1>t
  <1>5. TaskLayer!PendingPanic(c)
    BY <1>t, <1>0, <1>a, <1>b, <1>c, <1>d, <1>e DEF PendPanic, SetState, TaskLayer!PendingPanic, TaskLayer!SetState, TaskLayer!OnCpu, OnCpu
  <1>6. UNCHANGED [u \in Task |-> wakersOf(u)]
    BY <1>4
  <1>7. TaskLayer!PollPending(c)
    BY <1>t, <1>d, <1>5 DEF TaskLayer!PollPending
  <1> QED
    BY <1>6, <1>7 DEF TaskLayer!Next, TaskLayer!Step

\* clean_current of an exited task.
LEMMA ExitCleanMaps ==
  ASSUME IInv, IInv', ~panicked, NEW c \in Cpu, ExitClean(c) PROVE TaskLayer!Next
  <1> USE NoneAssumption, NotWaking
  <1>i. TypeOK /\ LockInv /\ PcInv
    BY DEF IInv
  <1>t. /\ curr[c] \in Task
        /\ currentOf(c) = curr[c]
        /\ state[curr[c]] = "Exited"
        /\ \A d \in Cpu : d # c => currentOf(d) # curr[c]
    <2>1. state[curr[c]] = "Exited" /\ pc[c] = "exit"
      BY <1>i DEF TypeOK, ExitClean, Main, PcInv, PcInvAt
    <2> QED
      BY <2>1, Exclusive
  <1>s. \A u \in Task : state'[u] = IF u = curr[c] THEN "Exited" ELSE state[u]
    BY <1>t DEF ExitClean, SetState
  <1>1. \A u \in Task : readyOf(u)' = IF u = curr[c] THEN 0 ELSE readyOf(u)
    <2>1. ReadyFact /\ ReadyFact'
      BY Facts
    <2> QED
      BY <1>t, <1>s, <2>1 DEF ReadyFact, OnCpu
  <1>2. \A d \in Cpu : currentOf(d)' = IF d = c THEN None ELSE currentOf(d)
    BY <1>i, <1>t DEF TypeOK, ExitClean, Main, Goto, CleanCurrent, cpuVars, currentOf
  <1>3. \A u \in Task : strongOf(u)' = IF u = curr[c] THEN 0 ELSE strongOf(u)
    <2>1. ASSUME NEW u \in Task PROVE Gone(u)' <=> Gone(u) \/ u = curr[c]
      <3>1. CASE u = curr[c]
        <4>1. state'[u] = "Exited"
          BY <1>s, <3>1
        <4>2. ASSUME NEW d \in Cpu PROVE currentOf(d)' # u
          <5>1. CASE d = c
            BY <1>t, <1>2, <3>1, <5>1
          <5>2. CASE d # c
            BY <1>t, <1>2, <3>1, <5>2
          <5> QED
            BY <5>1, <5>2
        <4> QED
          BY <3>1, <4>1, <4>2 DEF Gone
      <3>2. CASE u # curr[c]
        <4>1. \A d \in Cpu : currentOf(d)' = u <=> currentOf(d) = u
          BY <1>t, <1>2, <3>2
        <4> QED
          BY <1>s, <3>2, <4>1 DEF Gone
      <3> QED
        BY <3>1, <3>2
    <2>2. ~Gone(curr[c])
      BY <1>t DEF Gone, OnCpu
    <2> QED
      BY <1>t, <2>1, <2>2, Facts DEF StrongFact
  <1>4. \A u \in Task : wakersOf(u)' = wakersOf(u)
    BY WakersFrame DEF ExitClean
  <1>0. readyOf(curr[c]) = 0 /\ strongOf(curr[c]) = 1
    <2>1. ~Gone(curr[c])
      BY <1>t DEF Gone, OnCpu
    <2> QED
      BY <1>t, <2>1, Facts DEF ReadyFact, StrongFact, OnCpu
  <1>a. [u \in Task |-> readyOf(u)]' = [u \in Task |-> readyOf(u)]
    BY <1>t, <1>0, <1>1
  <1>b. [u \in Task |-> strongOf(u)]' = [[u \in Task |-> strongOf(u)] EXCEPT ![curr[c]] = @ - 1]
    <2>1. [u \in Task |-> strongOf(u)][curr[c]] - 1 = 0
      BY SMTT(60), <1>t, <1>0
    <2>2. [u \in Task |-> strongOf(u)]' = [[u \in Task |-> strongOf(u)] EXCEPT ![curr[c]] = 0]
      BY <1>t, <1>0, <1>3
    <2> QED
      BY <2>1, <2>2
  <1>c. [d \in Cpu |-> currentOf(d)]' = [[d \in Cpu |-> currentOf(d)] EXCEPT ![c] = None]
    BY <1>t, <1>2
  <1>d. [d \in Cpu |-> currentOf(d)][c] = currentOf(c)
    OBVIOUS
  <1>e. [u \in Task |-> readyOf(u)][curr[c]] = readyOf(curr[c])
    BY <1>t
  <1>5. TaskLayer!ExitClean(c)
    BY <1>t, <1>0, <1>a, <1>b, <1>c, <1>d, <1>e DEF ExitClean, SetState, TaskLayer!ExitClean, TaskLayer!SetState, TaskLayer!OnCpu, OnCpu
  <1>6. UNCHANGED [u \in Task |-> wakersOf(u)]
    BY <1>4
  <1> QED
    BY <1>t, <1>5, <1>6 DEF TaskLayer!Next, TaskLayer!Step

----------------------------------------------------------------------------
(* The wakers, and the theorem.                                            *)

\* A waker that a CPU is using is on no list, and only that CPU has it.
TokenInv ==
  /\ \A c \in Cpu, t \in Task, n \in Node : waking[c] = <<t, n>> => n \notin wakers[t]
  /\ \A c, d \in Cpu : waking[c] # None /\ waking[c] = waking[d] => c = d

\* A waker is taken off its list before it is used and registered anew only after.
LEMMA NextTokenInv ==
  ASSUME IInv, TokenInv, [Next]_vars PROVE TokenInv'
  <1> USE NoneAssumption, NotWaking
  <1>i. TypeOK /\ LockInv /\ PcInv
    BY DEF IInv
  <1>1. ASSUME NEW c \in Cpu, NEW n \in Node, Register(c, n) PROVE TokenInv'
    <2>1. curr[c] \in Task
      BY <1>i, <1>1 DEF TypeOK, Register, Main, PcInv, PcInvAt
    <2> QED
      BY <1>1, <2>1, SMTT(60) DEF Register, wakeVars, TokenInv
  <1>2. ASSUME NEW c \in Cpu, NEW n \in Node, Deregister(c, n) PROVE TokenInv'
    BY <1>2, SMTT(60) DEF Deregister, wakeVars, TokenInv
  <1>3. ASSUME NEW c \in Cpu, NEW t \in Task, NEW n \in Node, WakeStart(c, t, n) PROVE TokenInv'
    <2>1. \A d \in Cpu : waking[d] # <<t, n>>
      BY <1>3 DEF WakeStart, TokenInv
    <2>2. /\ \A u \in Task, m \in Node : m \in wakers'[u] <=> m \in wakers[u] /\ <<u, m>> # <<t, n>>
          /\ \A d \in Cpu : waking'[d] = IF d = c THEN <<t, n>> ELSE waking[d]
      BY <1>i, <1>3 DEF TypeOK, WakeStart
    <2> QED
      BY <2>1, <2>2 DEF TokenInv
  <1>4. ASSUME NEW c \in Cpu, UNCHANGED wakers, waking' = [waking EXCEPT ![c] = None] PROVE TokenInv'
    <2>1. \A d \in Cpu : waking'[d] = IF d = c THEN None ELSE waking[d]
      BY <1>i, <1>4 DEF TypeOK
    <2>2. \A t \in Task, n \in Node : None # <<t, n>>
      BY SMTT(60)
    <2>3. \A d \in Cpu, t \in Task, n \in Node : waking'[d] = <<t, n>> => n \notin wakers[t]
      BY <2>1, <2>2 DEF TokenInv
    <2>4. \A d, e \in Cpu : waking'[d] # None /\ waking'[d] = waking'[e] => d = e
      BY <2>1 DEF TokenInv
    <2> QED
      BY <1>4, <2>3, <2>4 DEF TokenInv
  <1>5. ASSUME NEW c \in Cpu, WakeMatch(c) \/ WakeAdd(c) PROVE TokenInv'
    BY <1>4, <1>5 DEF WakeMatch, WakeAdd
  <1>6. CASE UNCHANGED <<wakers, waking>>
    BY <1>6 DEF TokenInv
  <1>7. ASSUME NEW t \in Task, Spawn(t) PROVE UNCHANGED <<wakers, waking>>
    BY <1>7 DEF Spawn, wakeVars
  <1>8. ASSUME NEW c \in Cpu, SetExited(c) \/ CpuStep(c) \/ WakeBlocked(c)
        PROVE  UNCHANGED <<wakers, waking>>
    <2>1. CASE SetExited(c) \/ WakeBlocked(c)
      BY <2>1 DEF SetExited, WakeBlocked, wakeVars
    <2>2. CASE CpuStep(c)
      BY <2>2 DEF CpuStep, RunCurrent, PickNext, InitCurrent, PendLock, PendRunning,
                  PendBlocking, PendWaked, PendPanic, PendUserReturn, UserTrap, Clean,
                  Forget, PendUnlock, Ready, ExitClean, wakeVars
    <2> QED
      BY <1>8, <2>1, <2>2
  <1>9. CASE UNCHANGED vars
    BY <1>6, <1>9 DEF vars
  <1> QED
    BY <1>1, <1>2, <1>3, <1>5, <1>6, <1>7, <1>8, <1>9 DEF Next, Environment, WakeStep

\* A waker is used up: the abstract list loses it.
LEMMA WakerUsed ==
  ASSUME TokenInv, wakers \in [Task -> SUBSET Node], NEW c \in Cpu, NEW t \in Task, NEW n \in Node,
         waking[c] = <<t, n>>, ~adding[c], wakers' = wakers,
         \A d \in Cpu : d # c => waking'[d] = waking[d] /\ (adding'[d] <=> adding[d]),
         waking'[c] = None \/ adding'[c]
  PROVE  /\ n \in wakersOf(t)
         /\ [u \in Task |-> wakersOf(u)]' = [[u \in Task |-> wakersOf(u)] EXCEPT ![t] = @ \ {n}]
  <1> USE NotWaking
  <1>1. n \in wakersOf(t)
    BY DEF wakersOf
  <1>2. n \notin wakers[t] /\ \A d \in Cpu : d # c => waking[d] # <<t, n>>
    <2>1. <<t, n>> # None
      BY SMTT(60)
    <2> QED
      BY <2>1 DEF TokenInv
  <1>3. ASSUME NEW u \in Task, NEW m PROVE m \in wakersOf(u)' <=> m \in wakersOf(u) /\ ~(u = t /\ m = n)
    <2>1. m \in wakersOf(u)' <=>
            m \in wakers[u] \/ (m \in Node /\ \E d \in Cpu : waking'[d] = <<u, m>> /\ ~adding'[d])
      BY DEF wakersOf
    <2>2. CASE u = t /\ m = n
      <3>0. <<t, n>> # None
        BY SMTT(60)
      <3>1. ~(waking'[c] = <<t, n>> /\ ~adding'[c])
        BY <3>0
      <3>2. \A d \in Cpu : ~(waking'[d] = <<t, n>> /\ ~adding'[d])
        BY <1>2, <3>1
      <3> QED
        BY <1>2, <2>1, <2>2, <3>2
    <2>3. CASE ~(u = t /\ m = n)
      <3>1. ASSUME NEW d \in Cpu, m \in Node
            PROVE  (waking'[d] = <<u, m>> /\ ~adding'[d]) <=> (waking[d] = <<u, m>> /\ ~adding[d])
        <4>1. <<u, m>> # <<t, n>> /\ <<u, m>> # None
          BY SMTT(60), <2>3, <3>1
        <4> QED
          BY <4>1
      <3> QED
        BY <2>1, <2>3, <3>1, WakersOf
    <2> QED
      BY <2>2, <2>3
  <1>4. ASSUME NEW u \in Task PROVE wakersOf(u)' = IF u = t THEN wakersOf(t) \ {n} ELSE wakersOf(u)
    <2>1. CASE u = t
      <3>1. \A m : m \in wakersOf(u)' <=> m \in wakersOf(t) \ {n}
        BY <1>3, <2>1
      <3> QED
        BY <2>1, <3>1, SetEq
    <2>2. CASE u # t
      <3>1. \A m : m \in wakersOf(u)' <=> m \in wakersOf(u)
        BY <1>3, <2>2
      <3> QED
        BY <2>2, <3>1, SetEq
    <2> QED
      BY <2>1, <2>2
  <1> QED
    BY <1>1, <1>4

\* prepare_to_wait.
LEMMA RegisterMaps ==
  ASSUME IInv, IInv', ~panicked, NEW c \in Cpu, NEW n \in Node, Register(c, n) PROVE TaskLayer!Next
  <1> USE NoneAssumption, NotWaking
  <1>i. TypeOK /\ LockInv /\ PcInv
    BY DEF IInv
  <1>t. /\ curr[c] \in Task
        /\ currentOf(c) = curr[c]
        /\ state[curr[c]] \in OnCpu \cup {"Exited"}
        /\ \A d \in Cpu : d # c => currentOf(d) # curr[c]
    BY Exclusive DEF Register, Main
  <1>w. \A d \in Cpu : waking[d] # <<curr[c], n>>
    BY <1>t DEF Register, TokenInv
  <1>s. \A u \in Task : state'[u] = IF u = curr[c] THEN "Blocking" ELSE state[u]
    BY <1>i, <1>t DEF TypeOK, Register, SetState
  <1>1. \A u \in Task : readyOf(u)' = IF u = curr[c] THEN 0 ELSE readyOf(u)
    <2>1. ReadyFact /\ ReadyFact'
      BY Facts
    <2> QED
      BY <1>t, <1>s, <2>1 DEF ReadyFact, OnCpu
  <1>2. \A d \in Cpu : currentOf(d)' = currentOf(d)
    BY <1>t DEF Register, Main, Goto, CleanCurrent, cpuVars, currentOf
  <1>3. \A u \in Task : strongOf(u)' = strongOf(u)
    <2>1. ASSUME NEW u \in Task PROVE Gone(u)' <=> Gone(u)
      <3>1. CASE u = curr[c]
        BY <1>t, <1>s, <1>2, <3>1 DEF Gone, OnCpu
      <3>2. CASE u # curr[c]
        <4>1. \A d \in Cpu : currentOf(d)' = u <=> currentOf(d) = u
          BY <1>t, <1>2, <3>2
        <4> QED
          BY <1>s, <3>2, <4>1 DEF Gone
      <3> QED
        BY <3>1, <3>2
    <2>2. ~Gone(curr[c])
      BY <1>t DEF Gone, OnCpu
    <2> QED
      BY <1>t, <2>1, <2>2, Facts DEF StrongFact
  <1>4. [u \in Task |-> wakersOf(u)]' = [[u \in Task |-> wakersOf(u)] EXCEPT ![curr[c]] = @ \cup {n}]
    <2>1. \A u \in Task : u # curr[c] => wakersOf(u)' = wakersOf(u)
      BY <1>t, WakersFrame, SMTT(60) DEF Register
    <2>2. wakersOf(curr[c])' = wakersOf(curr[c]) \cup {n}
      <3>1. wakers'[curr[c]] = wakers[curr[c]] \cup {n} /\ UNCHANGED wakeVars
        BY <1>t DEF Register, IInv, TypeOK
      <3> DEFINE q == curr[c]
      <3>4. q \in Task /\ q' = q
        BY <1>t DEF Register, cpuVars
      <3>2. ASSUME NEW m
            PROVE  m \in wakersOf(curr[c])' <=>
                     m \in wakers'[curr[c]] \/ (m \in Node /\ \E d \in Cpu : waking[d] = <<curr[c], m>> /\ ~adding[d])
        BY <3>1, <3>4 DEF wakersOf, wakeVars
      <3>3. \A m : m \in wakersOf(curr[c])' <=> m \in wakersOf(curr[c]) \cup {n}
        BY <1>t, <1>w, <3>1, <3>2, WakersOf
      <3> QED
        BY <3>3, SetEq
    <2>3. \A u \in Task : wakersOf(u)' = IF u = curr[c] THEN wakersOf(curr[c]) \cup {n} ELSE wakersOf(u)
      <3>1. curr' = curr
        BY DEF Register, cpuVars
      <3> QED
        BY <2>1, <2>2, <3>1
    <2> QED
      BY <1>t, <2>3
  <1>0. readyOf(curr[c]) = 0 /\ strongOf(curr[c]) = 1
    <2>1. ~Gone(curr[c])
      BY <1>t DEF Gone, OnCpu
    <2> QED
      BY <1>t, <2>1, Facts DEF ReadyFact, StrongFact, OnCpu
  <1>a. [u \in Task |-> readyOf(u)]' = [u \in Task |-> readyOf(u)]
    BY <1>t, <1>0, <1>1
  <1>b. [u \in Task |-> strongOf(u)]' = [u \in Task |-> strongOf(u)]
    BY <1>t, <1>0, <1>3
  <1>c. [d \in Cpu |-> currentOf(d)]' = [d \in Cpu |-> currentOf(d)]
    BY <1>t, <1>2
  <1>d. [d \in Cpu |-> currentOf(d)][c] = currentOf(c)
    OBVIOUS
  <1>e. [u \in Task |-> readyOf(u)][curr[c]] = readyOf(curr[c])
    BY <1>t
  <1>5. TaskLayer!SetBlocking(curr[c])
    BY <1>t, <1>0, <1>a, <1>b, <1>c, <1>d, <1>e DEF Register, SetState, TaskLayer!SetBlocking, TaskLayer!SetState, TaskLayer!OnCpu, OnCpu
  <1>7. n \notin wakersOf(curr[c]) /\ [u \in Task |-> wakersOf(u)][curr[c]] = wakersOf(curr[c])
    BY <1>t, <1>w DEF Register, wakersOf
  <1>8. TaskLayer!Register(c, n)
    BY <1>t, <1>4, <1>5, <1>7, <1>d DEF Register, TaskLayer!Register, TaskLayer!OnCpu, OnCpu
  <1> QED
    BY <1>8 DEF TaskLayer!Next, TaskLayer!Step

\* remove and cancel_alarm.
LEMMA DeregisterMaps ==
  ASSUME IInv, IInv', TokenInv, ~panicked, NEW c \in Cpu, NEW n \in Node, Deregister(c, n) PROVE TaskLayer!Next
  <1> USE NoneAssumption, NotWaking
  <1>i. TypeOK /\ LockInv /\ PcInv
    BY DEF IInv
  <1>t. /\ curr[c] \in Task
        /\ currentOf(c) = curr[c]
        /\ state[curr[c]] \in OnCpu \cup {"Exited"}
        /\ \A d \in Cpu : d # c => currentOf(d) # curr[c]
    BY Exclusive DEF Deregister, Main
  <1>w. \A d \in Cpu : waking[d] # <<curr[c], n>>
    BY <1>t DEF Deregister, TokenInv
  <1>s. \A u \in Task : state'[u] = IF u = curr[c] THEN state[curr[c]] ELSE state[u]
    BY DEF Deregister
  <1>1. \A u \in Task : readyOf(u)' = readyOf(u)
    <2>1. ReadyFact /\ ReadyFact'
      BY Facts
    <2> QED
      BY <1>t, <1>s, <2>1 DEF ReadyFact, OnCpu
  <1>2. \A d \in Cpu : currentOf(d)' = currentOf(d)
    BY <1>t DEF Deregister, Main, Goto, CleanCurrent, cpuVars, currentOf
  <1>3. \A u \in Task : strongOf(u)' = strongOf(u)
    <2>1. ASSUME NEW u \in Task PROVE Gone(u)' <=> Gone(u)
      <3>1. CASE u = curr[c]
        BY <1>t, <1>s, <1>2, <3>1 DEF Gone, OnCpu
      <3>2. CASE u # curr[c]
        <4>1. \A d \in Cpu : currentOf(d)' = u <=> currentOf(d) = u
          BY <1>t, <1>2, <3>2
        <4> QED
          BY <1>s, <3>2, <4>1 DEF Gone
      <3> QED
        BY <3>1, <3>2
    <2>2. ~Gone(curr[c])
      BY <1>t DEF Gone, OnCpu
    <2> QED
      BY <1>t, <2>1, <2>2, Facts DEF StrongFact
  <1>4. [u \in Task |-> wakersOf(u)]' = [[u \in Task |-> wakersOf(u)] EXCEPT ![curr[c]] = @ \ {n}]
    <2>1. \A u \in Task : u # curr[c] => wakersOf(u)' = wakersOf(u)
      BY <1>t, WakersFrame, SMTT(60) DEF Deregister
    <2>2. wakersOf(curr[c])' = wakersOf(curr[c]) \ {n}
      <3>1. wakers'[curr[c]] = wakers[curr[c]] \ {n} /\ UNCHANGED wakeVars
        BY <1>t DEF Deregister, IInv, TypeOK
      <3> DEFINE q == curr[c]
      <3>4. q \in Task /\ q' = q
        BY <1>t DEF Deregister, cpuVars
      <3>2. ASSUME NEW m
            PROVE  m \in wakersOf(curr[c])' <=>
                     m \in wakers'[curr[c]] \/ (m \in Node /\ \E d \in Cpu : waking[d] = <<curr[c], m>> /\ ~adding[d])
        BY <3>1, <3>4 DEF wakersOf, wakeVars
      <3>3. \A m : m \in wakersOf(curr[c])' <=> m \in wakersOf(curr[c]) \ {n}
        BY <1>t, <1>w, <3>1, <3>2, WakersOf
      <3> QED
        BY <3>3, SetEq
    <2>3. \A u \in Task : wakersOf(u)' = IF u = curr[c] THEN wakersOf(curr[c]) \ {n} ELSE wakersOf(u)
      <3>1. curr' = curr
        BY DEF Deregister, cpuVars
      <3> QED
        BY <2>1, <2>2, <3>1
    <2> QED
      BY <1>t, <2>3
  <1>a. UNCHANGED <<state, panicked, [u \in Task |-> readyOf(u)], [u \in Task |-> strongOf(u)], [d \in Cpu |-> currentOf(d)]>>
    BY <1>1, <1>2, <1>3 DEF Deregister
  <1>d. [d \in Cpu |-> currentOf(d)][c] = currentOf(c)
    OBVIOUS
  <1>7. n \in wakersOf(curr[c]) /\ [u \in Task |-> wakersOf(u)][curr[c]] = wakersOf(curr[c])
    BY <1>t DEF Deregister, wakersOf
  <1>5. [d \in Cpu |-> currentOf(d)][c] = curr[c] /\ curr[c] # None
    BY <1>t, <1>d
  <1>6. state[curr[c]] = "Running"
    BY DEF Deregister
  <1> HIDE DEF readyOf, strongOf, currentOf, wakersOf
  <1>8. TaskLayer!Deregister(c, n)
    BY <1>4, <1>5, <1>6, <1>7, <1>a DEF TaskLayer!Deregister, TaskLayer!taskVars
  <1> QED
    BY <1>8 DEF TaskLayer!Next, TaskLayer!Step

\* The arms of wakeup_task that need the lock for one assignment.
LEMMA WakeMatchMaps ==
  ASSUME IInv, IInv', TokenInv, ~panicked, NEW c \in Cpu, WakeMatch(c) PROVE TaskLayer!Next
  <1> USE NoneAssumption, NotWaking
  <1>i. TypeOK /\ LockInv /\ PcInv
    BY DEF IInv
  <1>n. PICK t \in Task, n \in Node : waking[c] = <<t, n>>
    BY <1>i, SMTT(60) DEF TypeOK, WakeMatch
  <1>t. waking[c][1] = t /\ ~adding[c]
    <2>1. waking[c][1] = t
      BY SMTT(60), <1>n
    <2>2. slock[t] # c
      BY <2>1 DEF WakeMatch
    <2> QED
      BY <1>i, <2>1, <2>2, SMTT(60) DEF LockInv, HoldsLock
  <1>w. /\ n \in wakersOf(t)
        /\ [u \in Task |-> wakersOf(u)]' = [[u \in Task |-> wakersOf(u)] EXCEPT ![t] = @ \ {n}]
    <2>1. /\ wakers' = wakers
          /\ \A d \in Cpu : d # c => waking'[d] = waking[d] /\ (adding'[d] <=> adding[d])
          /\ waking'[c] = None \/ adding'[c]
      <3>1. /\ waking' = [waking EXCEPT ![c] = None]
            /\ UNCHANGED <<wakers, adding>>
        BY DEF WakeMatch
      <3> QED
        BY <1>i, <3>1 DEF TypeOK
    <2>2. wakers \in [Task -> SUBSET Node]
      BY <1>i DEF TypeOK
    <2> QED
      BY SMTT(60), <1>n, <1>t, <2>1, <2>2, WakerUsed
  <1>2. \A d \in Cpu : currentOf(d)' = currentOf(d)
    BY DEF WakeMatch, cpuVars, currentOf
  <1>s. \/ UNCHANGED <<state, panicked>> /\ state[t] \in {"Running", "Runable"}
        \/ state[t] = "Blocking" /\ state' = [state EXCEPT ![t] = "Waked"] /\ panicked' = panicked
        \/ UNCHANGED state /\ panicked' = TRUE /\ state[t] \in {"Waked", "Exited"}
    BY <1>t DEF WakeMatch, SetState
  <1>u. \A u \in Task : state'[u] = state[u] \/ (state[u] = "Blocking" /\ state'[u] = "Waked")
    BY <1>i, <1>s DEF TypeOK
  <1>1. \A u \in Task : readyOf(u)' = readyOf(u)
    <2>1. ReadyFact /\ ReadyFact'
      BY Facts
    <2> QED
      BY <1>u, <2>1 DEF ReadyFact
  <1>3. \A u \in Task : strongOf(u)' = strongOf(u)
    <2>1. \A u \in Task : Gone(u)' <=> Gone(u)
      BY <1>u, <1>2 DEF Gone
    <2> QED
      BY <2>1, Facts DEF StrongFact
  <1>4. UNCHANGED <<[u \in Task |-> readyOf(u)], [u \in Task |-> strongOf(u)], [d \in Cpu |-> currentOf(d)]>>
    BY <1>1, <1>2, <1>3
  <1>5. TaskLayer!wakeup_task(t)
    BY <1>s, <1>4 DEF TaskLayer!wakeup_task, TaskLayer!SetState
  <1>6. TaskLayer!Wake(t, n)
    BY <1>5, <1>w DEF TaskLayer!Wake
  <1> QED
    BY <1>6 DEF TaskLayer!Next

\* The Blocked arm takes effect when the lock is taken.
LEMMA WakeBlockedMaps ==
  ASSUME IInv, IInv', TokenInv, ~panicked, NEW c \in Cpu, WakeBlocked(c) PROVE TaskLayer!Next
  <1> USE NoneAssumption, NotWaking
  <1>i. TypeOK /\ LockInv /\ PcInv
    BY DEF IInv
  <1>n. PICK t \in Task, n \in Node : waking[c] = <<t, n>>
    BY <1>i, SMTT(60) DEF TypeOK, WakeBlocked
  <1>t. waking[c][1] = t /\ ~adding[c]
    BY <1>n, SMTT(60) DEF WakeBlocked, LockInv, HoldsLock
  <1>w. /\ n \in wakersOf(t)
        /\ [u \in Task |-> wakersOf(u)]' = [[u \in Task |-> wakersOf(u)] EXCEPT ![t] = @ \ {n}]
    <2>1. /\ wakers' = wakers
          /\ \A d \in Cpu : d # c => waking'[d] = waking[d] /\ (adding'[d] <=> adding[d])
          /\ waking'[c] = None \/ adding'[c]
      BY <1>i, <1>t DEF TypeOK, WakeBlocked
    <2>2. wakers \in [Task -> SUBSET Node]
      BY <1>i DEF TypeOK
    <2> QED
      BY SMTT(60), <1>n, <1>t, <2>1, <2>2, WakerUsed
  <1>2. \A d \in Cpu : currentOf(d)' = currentOf(d)
    BY DEF WakeBlocked, cpuVars, currentOf
  <1>s. state[t] = "Blocked" /\ state' = [state EXCEPT ![t] = "Runable"] /\ panicked' = panicked
    BY <1>t DEF WakeBlocked, SetState
  <1>0. readyOf(t) = 0
    BY <1>s, Facts DEF ReadyFact
  <1>1. \A u \in Task : readyOf(u)' = IF u = t THEN 1 ELSE readyOf(u)
    <2>1. ReadyFact /\ ReadyFact'
      BY Facts
    <2>2. \A u \in Task : state'[u] = IF u = t THEN "Runable" ELSE state[u]
      BY <1>i, <1>s DEF TypeOK
    <2> QED
      BY <2>1, <2>2 DEF ReadyFact
  <1>3. \A u \in Task : strongOf(u)' = strongOf(u)
    <2>1. \A u \in Task : Gone(u)' <=> Gone(u)
      BY <1>s, <1>2, SMTT(60) DEF Gone
    <2> QED
      BY <2>1, Facts DEF StrongFact
  <1>a. [u \in Task |-> readyOf(u)]' = [[u \in Task |-> readyOf(u)] EXCEPT ![t] = @ + 1]
    <2>1. [u \in Task |-> readyOf(u)][t] + 1 = 1
      BY SMTT(60), <1>0
    <2>2. [u \in Task |-> readyOf(u)]' = [[u \in Task |-> readyOf(u)] EXCEPT ![t] = 1]
      BY <1>1
    <2> QED
      BY <2>1, <2>2
  <1>4. UNCHANGED <<[u \in Task |-> strongOf(u)], [d \in Cpu |-> currentOf(d)]>>
    BY <1>2, <1>3
  <1>5. TaskLayer!wakeup_task(t)
    BY <1>s, <1>a, <1>4 DEF TaskLayer!wakeup_task, TaskLayer!SetState
  <1>6. TaskLayer!Wake(t, n)
    BY <1>5, <1>w DEF TaskLayer!Wake
  <1> QED
    BY <1>6 DEF TaskLayer!Next

----------------------------------------------------------------------------
\* The empty machine is the empty task layer.
LEMMA InitMaps == Init => TaskLayer!Init /\ TokenInv
  <1> SUFFICES ASSUME Init PROVE TaskLayer!Init /\ TokenInv
    OBVIOUS
  <1> USE NoneAssumption, NotWaking DEF Init
  <1>1. \A t \in Task : readyOf(t) = 0 /\ strongOf(t) = 0 /\ wakersOf(t) = {}
    <2>1. \A t \in Task, n \in Node : None # <<t, n>>
      BY SMTT(60)
    <2>2. \A t \in Task : ~InQueue(t) /\ \A c \in Cpu : ~InHand(c, t)
      <3>1. DOMAIN queue = {}
        BY SMTT(60)
      <3>2. \A c \in Cpu : pc[c] = "loop" /\ ~adding[c]
        OBVIOUS
      <3> QED
        BY <3>1, <3>2 DEF InQueue, InHand
    <2>3. \A t \in Task : strongOf(t) = 0
      BY DEF strongOf
    <2>4. ASSUME NEW t \in Task PROVE wakersOf(t) = {}
      BY <2>1 DEF wakersOf
    <2> QED
      BY <2>2, <2>3, <2>4 DEF readyOf
  <1>2. \A c \in Cpu : currentOf(c) = None
    BY DEF currentOf
  <1>3. TokenInv
    <2>1. \A t \in Task, n \in Node : None # <<t, n>>
      BY SMTT(60)
    <2> QED
      BY <2>1 DEF TokenInv
  <1> QED
    BY <1>1, <1>2, <1>3 DEF TaskLayer!Init

\* One operation of the task layer, or a stutter.
LEMMA NextMaps ==
  ASSUME IInv, IInv', TokenInv, [Next]_vars PROVE TaskStep
  <1>1. ASSUME ~panicked, NEW t \in Task, Spawn(t) PROVE TaskStep
    BY <1>1, SpawnMaps DEF TaskStep
  <1>2. ASSUME ~panicked, NEW c \in Cpu, NEW n \in Node, Register(c, n) PROVE TaskStep
    BY <1>2, RegisterMaps DEF TaskStep
  <1>3. ASSUME ~panicked, NEW c \in Cpu, NEW n \in Node, Deregister(c, n) PROVE TaskStep
    BY <1>3, DeregisterMaps DEF TaskStep
  <1>4. ASSUME ~panicked, NEW c \in Cpu, SetExited(c) PROVE TaskStep
    BY <1>4, SetExitedMaps DEF TaskStep
  <1>5. ASSUME ~panicked, NEW c \in Cpu, InitCurrent(c) PROVE TaskStep
    BY <1>5, InitCurrentMaps DEF TaskStep
  <1>6. ASSUME ~panicked, NEW c \in Cpu, PendRunning(c) PROVE TaskStep
    BY <1>6, PendRunningMaps DEF TaskStep
  <1>7. ASSUME ~panicked, NEW c \in Cpu, PendBlocking(c) PROVE TaskStep
    BY <1>7, PendBlockingMaps DEF TaskStep
  <1>8. ASSUME ~panicked, NEW c \in Cpu, PendWaked(c) PROVE TaskStep
    BY <1>8, PendWakedMaps DEF TaskStep
  <1>9. ASSUME ~panicked, NEW c \in Cpu, PendPanic(c) PROVE TaskStep
    BY <1>9, PendPanicMaps DEF TaskStep
  <1>10. ASSUME ~panicked, NEW c \in Cpu, Ready(c) PROVE TaskStep
    BY <1>10, ReadyMaps DEF TaskStep
  <1>11. ASSUME ~panicked, NEW c \in Cpu, ExitClean(c) PROVE TaskStep
    BY <1>11, ExitCleanMaps DEF TaskStep
  <1>12. ASSUME ~panicked, NEW c \in Cpu, WakeMatch(c) PROVE TaskStep
    BY <1>12, WakeMatchMaps DEF TaskStep
  <1>13. ASSUME ~panicked, NEW c \in Cpu, WakeBlocked(c) PROVE TaskStep
    BY <1>13, WakeBlockedMaps DEF TaskStep
  <1>14. ASSUME NEW c \in Cpu,
              \/ RunCurrent(c) \/ \E t \in Task : PickNext(c, t)
              \/ PendLock(c) \/ PendUserReturn(c) \/ UserTrap(c)
              \/ Clean(c) \/ Forget(c) \/ PendUnlock(c)
       PROVE  TaskStep
    BY <1>14, LoopStutters DEF TaskStep
  <1>15. ASSUME NEW c \in Cpu, WakeAdd(c) \/ \E t \in Task, n \in Node : WakeStart(c, t, n)
       PROVE  TaskStep
    BY <1>15, WakeStutters DEF TaskStep
  <1>16. CASE UNCHANGED vars
    <2>1. \A d \in Cpu : currentOf(d)' = currentOf(d)
      BY <1>16 DEF vars, currentOf
    <2>2. \A t \in Task : wakersOf(t)' = wakersOf(t)
      BY <1>16 DEF vars, wakersOf
    <2> QED
      BY <1>16, <2>1, <2>2, StutterStep DEF vars, TaskStep
  <1> QED
    BY <1>1, <1>2, <1>3, <1>4, <1>5, <1>6, <1>7, <1>8, <1>9, <1>10, <1>11, <1>12, <1>13, <1>14, <1>15, <1>16
    DEF Next, Environment, CpuStep, WakeStep

\* The scheduling loop, lock by lock, implements the task layer: whatever TaskSched
\* promises of its operations holds of run_task, wakeup_task and the ready queue.
THEOREM LoopImplements == Spec => ImplementsTaskLayer
  <1>1. IInv /\ [Next]_vars => IInv'
    BY NextIInv
  <1>2. IInv /\ TokenInv /\ [Next]_vars => TokenInv'
    BY NextTokenInv
  <1>3. IInv /\ IInv' /\ TokenInv /\ [Next]_vars => [TaskLayer!Next]_(TaskLayer!vars)
    BY NextMaps DEF TaskStep
  <1> QED
    BY <1>1, <1>2, <1>3, InitIInv, InitMaps, PTL DEF Spec, ImplementsTaskLayer, TaskLayer!Spec
=============================================================================
