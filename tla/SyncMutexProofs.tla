-------------------------- MODULE SyncMutexProofs --------------------------
(***************************************************************************)
(* Proofs about SyncMutex, for every set of tasks and CPUs.  Mutual        *)
(* exclusion needs that no assertion fails, hence that the task at the     *)
(* head of the queue may be woken: it has to be known where a task is in   *)
(* its code when it blocks, and that it is in the queue exactly while it   *)
(* does (Waiting).                                                         *)
(***************************************************************************)
EXTENDS SyncMutex, TLAPS

\* Every leaf goes to Zenon, with time to spare, unless it names another prover.
USE ZenonT(60)

Place == {"idle", "cas", "check", "wait", "pending", "held", "notify"}

TypeOK ==
  /\ state \in [Task -> TL!TaskState \cup {"New"}]
  /\ current \in [Cpu -> Task \cup {None}]
  /\ cpus \subseteq Cpu
  /\ owner \in Task \cup {None}
  /\ wq \in Seq(Task)
  /\ at \in [Task -> Place]
  /\ panicked \in BOOLEAN

OnceInWq == \A i, j \in DOMAIN wq : wq[i] = wq[j] => i = j

\* The queue holds the tasks that block, each of them once; a task is at its Poll::Pending exactly
\* while it is Blocking or Waked, and starts from the top after it was Blocked.
Waiting ==
  /\ \A t \in Task : InWq(t) <=> state[t] \in {"Blocking", "Blocked"}
  /\ \A t \in Task : at[t] = "pending" <=> state[t] \in {"Blocking", "Waked"}
  /\ \A t \in Task : state[t] = "Blocked" => at[t] = "cas"
  /\ OnceInWq

\* The ready queue holds the Runable tasks, once: a task that is dispatched was not waiting.
Queued == ready = [t \in Task |-> IF state[t] = "Runable" THEN 1 ELSE 0]

IInv == TypeOK /\ MutualExclusion /\ Waiting /\ Queued

----------------------------------------------------------------------------
(* The wait queue.                                                         *)

\* push_back of a task that is not in the queue.
LEMMA AppendWq ==
  ASSUME wq \in Seq(Task), NEW t \in Task, ~InWq(t), OnceInWq, wq' = Append(wq, t)
  PROVE  /\ wq' \in Seq(Task)
         /\ \A u \in Task : InWq(u)' <=> InWq(u) \/ u = t
         /\ OnceInWq'
  <1>1. /\ wq' \in Seq(Task)
        /\ DOMAIN wq = 1 .. Len(wq) /\ DOMAIN wq' = 1 .. Len(wq) + 1
        /\ \A i \in 1 .. Len(wq) : wq'[i] = wq[i]
        /\ wq'[Len(wq) + 1] = t
        /\ Len(wq) \in Nat
    BY SMTT(60)
  <1> QED
    BY <1>1, SMTT(60) DEF InWq, OnceInWq

\* pop_front.
LEMMA TailWq ==
  ASSUME wq \in Seq(Task), wq # <<>>, OnceInWq, wq' = Tail(wq)
  PROVE  /\ wq' \in Seq(Task)
         /\ Head(wq) \in Task /\ InWq(Head(wq))
         /\ \A u \in Task : InWq(u)' <=> InWq(u) /\ u # Head(wq)
         /\ OnceInWq'
  <1>1. /\ wq' \in Seq(Task)
        /\ Len(wq) \in Nat /\ Len(wq) >= 1
        /\ DOMAIN wq = 1 .. Len(wq) /\ DOMAIN wq' = 1 .. Len(wq) - 1
        /\ \A i \in 1 .. Len(wq) - 1 : wq'[i] = wq[i + 1]
        /\ Head(wq) \in Task /\ Head(wq) = wq[1]
    BY SMTT(60)
  <1>2. \A u \in Task : InWq(u) /\ u # Head(wq) => InWq(u)'
    <2> SUFFICES ASSUME NEW i \in 1 .. Len(wq), i # 1 PROVE \E j \in 1 .. Len(wq) - 1 : wq'[j] = wq[i]
      BY <1>1 DEF InWq
    <2>1. i - 1 \in 1 .. Len(wq) - 1 /\ wq'[i - 1] = wq[i]
      BY SMTT(60), <1>1
    <2> QED
      BY <2>1
  <1> QED
    BY <1>1, <1>2, SMTT(60) DEF InWq, OnceInWq

----------------------------------------------------------------------------
(* The invariant.                                                          *)

\* It holds at first: the mutex is free and its queue empty.
LEMMA InitIInv == Init => IInv
  <1> SUFFICES ASSUME Init PROVE IInv
    OBVIOUS
  <1>1. TypeOK
    <2>1. panicked \in BOOLEAN
      BY DEF Init
    <2> QED
      BY <2>1, MachinesAssumption, SMTT(60) DEF Init, TypeOK, Place
  <1>2. MutualExclusion /\ Waiting
    BY OwnerAssumption, SMTT(60) DEF Init, MutualExclusion, Waiting, OnceInWq, InWq
  <1>3. Queued
    BY DEF Init, Queued
  <1> QED
    BY <1>1, <1>2, <1>3 DEF IInv

\* A step that leaves the queue alone leaves its members alone.
LEMMA SameWq == UNCHANGED wq => OnceInWq' = OnceInWq /\ \A t \in Task : InWq(t)' = InWq(t)
  BY DEF OnceInWq, InWq

\* The steps of a task in its own code, between the operations of the task layer.
LEMMA CodeIInv ==
  ASSUME IInv, NEW c \in Cpu, NEW t \in Task, UNCHANGED cpus,
         \/ Lock(c, t) \/ TryLock(c, t) \/ CasOk(c, t) \/ CasErr(c, t)
         \/ WaitReady(c, t) \/ WaitNotReady(c, t) \/ Unlock(c, t)
  PROVE  IInv'
  <1> USE DEF Lock, TryLock, CasOk, CasErr, WaitReady, WaitNotReady, Unlock, On, Goto, taskVars, IInv
  <1>1. TypeOK'
    <2>1. panicked' \in BOOLEAN
      BY DEF TypeOK
    <2> QED
      BY <2>1 DEF TypeOK, Place
  <1>2. MutualExclusion'
    <2>1. at[t] # "held" => owner # t
      BY DEF MutualExclusion
    <2>2. at[t] = "held" => owner = t
      BY DEF MutualExclusion
    <2>3. ~panicked'
      BY <2>1, <2>2 DEF MutualExclusion
    <2>4. \A u \in Task : at'[u] = "held" <=> owner' = u
      BY OwnerAssumption DEF MutualExclusion, TypeOK
    <2> QED
      BY <2>3, <2>4 DEF MutualExclusion
  <1>3. Waiting'
    BY SameWq DEF Waiting, TypeOK, TL!OnCpu
  <1>4. Queued'
    BY DEF Queued
  <1> QED
    BY <1>1, <1>2, <1>3, <1>4

\* Creating, dispatching and ending a task, none of which is in the queue then.
LEMMA SpawnIInv ==
  ASSUME IInv, NEW t \in Task, UNCHANGED cpus, Spawn(t)
  PROVE  IInv'
  <1> USE DEF IInv, Spawn, TL!Spawn, TL!SetState
  <1>1. TypeOK'
    BY DEF TypeOK, TL!TaskState
  <1>2. MutualExclusion'
    BY DEF MutualExclusion
  <1>3. Waiting'
    BY SameWq DEF Waiting, TypeOK
  <1>4. Queued'
    BY SMTT(60) DEF Queued, TypeOK
  <1> QED
    BY <1>1, <1>2, <1>3, <1>4

\* A task that is dispatched is Runable, hence not in the queue.
LEMMA PickNextIInv ==
  ASSUME IInv, NEW c \in Cpu, NEW t \in Task, UNCHANGED cpus, PickNext(c, t)
  PROVE  IInv'
  BY SMTT(60), SameWq
  DEF IInv, TypeOK, MutualExclusion, Waiting, Queued, PickNext, TL!PickNext, TL!SetState, TL!TaskState

\* A task exits when it is Running, hence not in the queue.
LEMMA ExitIInv ==
  ASSUME IInv, NEW c \in Cpu, NEW t \in Task, UNCHANGED cpus, Exit(c, t)
  PROVE  IInv'
  BY SameWq
  DEF IInv, TypeOK, MutualExclusion, Waiting, Queued, Exit, On, TL!SetExited, TL!SetState,
      TL!TaskState, TL!OnCpu

\* The CPU of an exited task gets free.
LEMMA CleanIInv ==
  ASSUME IInv, NEW c \in Cpu, UNCHANGED cpus, Clean(c)
  PROVE  IInv'
  BY SameWq DEF IInv, TypeOK, MutualExclusion, Waiting, Queued, Clean, TL!ExitClean

\* prepare_to_wait: the task is Running, hence not yet in the queue.
LEMMA PrepareIInv ==
  ASSUME IInv, NEW c \in Cpu, NEW t \in Task, UNCHANGED cpus, PrepareToWait(c, t)
  PROVE  IInv' /\ ~InWq(t) /\ \A u \in Task : InWq(u)' <=> InWq(u) \/ u = t
  <1> USE DEF PrepareToWait, On, TL!SetBlocking, TL!SetState, Goto, IInv
  <1>1. ~InWq(t) /\ OnceInWq /\ wq \in Seq(Task)
    BY DEF Waiting, TL!OnCpu, TypeOK
  <1>2. /\ wq' \in Seq(Task)
        /\ \A u \in Task : InWq(u)' <=> InWq(u) \/ u = t
        /\ OnceInWq'
    BY <1>1, AppendWq
  <1>3. TypeOK'
    BY <1>2 DEF TypeOK, Place, TL!TaskState
  <1>4. MutualExclusion'
    BY DEF MutualExclusion, TypeOK
  <1>5. Waiting'
    BY <1>2 DEF Waiting, TypeOK
  <1>6. Queued'
    BY DEF Queued, TypeOK, Waiting, TL!OnCpu
  <1> QED
    BY <1>1, <1>2, <1>3, <1>4, <1>5, <1>6

\* Poll::Pending after prepare_to_wait, and a yield.
LEMMA PendingIInv ==
  ASSUME IInv, NEW c \in Cpu, NEW t \in Task, UNCHANGED cpus, Pending(c, t) \/ Yield(c, t)
  PROVE  IInv'
  <1> USE DEF Pending, Yield, On, Goto, IInv
  <1>1. current[c] = t /\ state[t] \in TL!OnCpu /\ TL!PollPending(c) /\ UNCHANGED wq
    OBVIOUS
  <1>2. ~TL!PendingPanic(c)
    BY <1>1 DEF TL!PendingPanic, TL!OnCpu
  <1>3. CASE TL!PendingRunning(c)
    <2> USE <1>1, <1>3 DEF TL!PendingRunning, TL!SetState, TypeOK
    <2>1. TypeOK'
      BY DEF Place, TL!TaskState
    <2>2. MutualExclusion'
      BY DEF MutualExclusion
    <2>3. Waiting'
      BY SameWq DEF Waiting
    <2>4. Queued'
      BY SMTT(60) DEF Queued
    <2> QED
      BY <2>1, <2>2, <2>3, <2>4
  <1>4. CASE TL!PendingBlocking(c)
    BY SMTT(60), <1>1, <1>4, SameWq
    DEF TL!PendingBlocking, TL!SetState, TypeOK, MutualExclusion, Waiting, Queued, Place, TL!TaskState
  <1>5. CASE TL!PendingWaked(c)
    BY SMTT(60), <1>1, <1>5, SameWq
    DEF TL!PendingWaked, TL!SetState, TypeOK, MutualExclusion, Waiting, Queued, Place, TL!TaskState
  <1> QED
    BY <1>1, <1>2, <1>3, <1>4, <1>5 DEF TL!PollPending

\* notify_one: the task at the head of the queue is Blocking or Blocked, so that wakeup_task takes it.
LEMMA NotifyIInv ==
  ASSUME IInv, NEW c \in Cpu, NEW t \in Task, UNCHANGED cpus, Notify(c, t)
  PROVE  /\ IInv'
         /\ wq # <<>> => /\ Head(wq) \in Task /\ InWq(Head(wq))
                         /\ \A u \in Task : InWq(u)' <=> InWq(u) /\ u # Head(wq)
  <1> USE DEF Notify, On, Goto, IInv
  <1>1. CASE wq = <<>>
    BY <1>1, SameWq, SMTT(60) DEF taskVars, TypeOK, MutualExclusion, Waiting, Queued, Place, TL!OnCpu
  <1>2. CASE wq # <<>>
    <2> DEFINE w == Head(wq)
    <2>1. wq \in Seq(Task) /\ OnceInWq /\ wq' = Tail(wq) /\ TL!wakeup_task(w)
      BY <1>2 DEF TypeOK, Waiting
    <2>2. /\ wq' \in Seq(Task)
          /\ w \in Task /\ InWq(w)
          /\ \A u \in Task : InWq(u)' <=> InWq(u) /\ u # w
          /\ OnceInWq'
      BY <1>2, <2>1, TailWq
    <2> HIDE DEF w
    <2>3. state[w] \in {"Blocking", "Blocked"} /\ w # t
      BY <2>2 DEF Waiting, TL!OnCpu, TypeOK
    <2>4. /\ state' = [state EXCEPT ![w] = IF state[w] = "Blocking" THEN "Waked" ELSE "Runable"]
          /\ ready' = IF state[w] = "Blocking" THEN ready ELSE [ready EXCEPT ![w] = @ + 1]
          /\ UNCHANGED <<current, panicked>>
      BY <2>1, <2>3 DEF TL!wakeup_task, TL!SetState
    <2>5. TypeOK'
      BY <2>2, <2>4 DEF TypeOK, Place, TL!TaskState
    <2>6. MutualExclusion'
      BY <2>4 DEF TypeOK, MutualExclusion
    <2>7. Waiting'
      BY <2>2, <2>3, <2>4 DEF TypeOK, Waiting, TL!OnCpu
    <2>8. Queued'
      BY <2>2, <2>3, <2>4, SMTT(60) DEF TypeOK, Queued
    <2> QED
      BY <2>2, <2>5, <2>6, <2>7, <2>8 DEF w
  <1> QED
    BY <1>1, <1>2

\* Every step keeps the invariant.
LEMMA NextIInv == IInv /\ [Next]_vars => IInv'
  <1> SUFFICES ASSUME IInv, [Next]_vars PROVE IInv'
    OBVIOUS
  <1>1. CASE UNCHANGED vars
    BY <1>1, SameWq DEF vars, IInv, TypeOK, MutualExclusion, Waiting, Queued
  <1>2. ASSUME Next PROVE IInv'
    <2> USE <1>2 DEF Next
    <2>1. UNCHANGED cpus /\ cpus \subseteq Cpu
      BY DEF IInv, TypeOK
    <2>2. ASSUME NEW t \in Task, Spawn(t) PROVE IInv'
      BY <2>1, <2>2, SpawnIInv
    <2>3. ASSUME NEW c \in cpus, Clean(c) PROVE IInv'
      BY <2>1, <2>3, CleanIInv
    <2>4. ASSUME NEW c \in cpus, NEW t \in Task,
                 \/ PickNext(c, t)
                 \/ Lock(c, t) \/ TryLock(c, t) \/ Proceed(c, t) \/ CasErr(c, t)
                 \/ Yield(c, t) \/ Exit(c, t)
          PROVE  IInv'
      BY <2>1, <2>4, PickNextIInv, CodeIInv, PrepareIInv, PendingIInv, NotifyIInv, ExitIInv DEF Proceed
    <2> QED
      BY <2>2, <2>3, <2>4
  <1> QED
    BY <1>1, <1>2

\* However many tasks use the mutex on however many CPUs, at most one has its data, the owner
\* word names it, and no assertion of the mutex or of wakeup_task fails.
THEOREM MutexExcludes == Spec => []MutualExclusion
  BY InitIInv, NextIInv, PTL DEF Spec, IInv

----------------------------------------------------------------------------
(* The mutex implements the task layer.                                    *)

\* The wakers of the task layer, before and after a step.
LEMMA WakersSame == ASSUME UNCHANGED wq PROVE [t \in Task |-> wakersOf(t)]' = [t \in Task |-> wakersOf(t)]
  BY SameWq DEF wakersOf

\* The initial states are initial states of the task layer.
LEMMA InitRefines == Init => TL!Init
  BY SMTT(60) DEF Init, TL!Init, wakersOf, InWq

\* Every step is a step of the task layer or leaves it alone.
LEMMA NextRefines == IInv /\ IInv' /\ [Next]_vars => [TL!Next]_(TL!vars)
  <1> SUFFICES ASSUME IInv, IInv', [Next]_vars PROVE [TL!Next]_(TL!vars)
    OBVIOUS
  <1>1. CASE UNCHANGED vars
    BY <1>1, WakersSame DEF vars, TL!vars
  <1>2. ASSUME Next PROVE [TL!Next]_(TL!vars)
    <2> USE <1>2 DEF Next
    <2> DEFINE w == [t \in Task |-> wakersOf(t)]
    <2>1. UNCHANGED cpus /\ cpus \subseteq Cpu /\ ~panicked /\ ~panicked'
      BY DEF IInv, TypeOK, MutualExclusion
    <2>2. ASSUME NEW t \in Task, Spawn(t) PROVE TL!Next
      BY <2>1, <2>2, WakersSame DEF Spawn, TL!Next
    <2>3. ASSUME NEW c \in cpus, Clean(c) PROVE TL!Next
      BY <2>1, <2>3, WakersSame DEF Clean, TL!Next, TL!Step
    <2>4. ASSUME NEW c \in cpus, NEW t \in Task, PickNext(c, t) PROVE TL!Next
      BY <2>1, <2>4, WakersSame DEF PickNext, TL!Next, TL!Step
    <2>5. ASSUME NEW c \in cpus, NEW t \in Task, Exit(c, t) PROVE TL!Next
      BY <2>1, <2>5, WakersSame DEF Exit, TL!Next, TL!Step
    <2>6. ASSUME NEW c \in cpus, NEW t \in Task, Pending(c, t) \/ Yield(c, t) PROVE TL!Next
      BY <2>1, <2>6, WakersSame DEF Pending, Yield, TL!Next, TL!Step
    <2>7. ASSUME NEW c \in cpus, NEW t \in Task,
                 \/ Lock(c, t) \/ TryLock(c, t) \/ CasOk(c, t) \/ CasErr(c, t)
                 \/ WaitReady(c, t) \/ WaitNotReady(c, t) \/ Unlock(c, t)
          PROVE  UNCHANGED TL!vars
      <3>1. UNCHANGED <<state, ready, current, strong, wq>>
        BY <2>7 DEF Lock, TryLock, CasOk, CasErr, WaitReady, WaitNotReady, Unlock, taskVars
      <3>2. UNCHANGED panicked
        BY <2>1 DEF IInv, TypeOK
      <3> QED
        BY <3>1, <3>2, WakersSame DEF TL!vars
    <2>8. ASSUME NEW c \in cpus, NEW t \in Task, PrepareToWait(c, t) PROVE TL!Next
      <3>1. ~InWq(t) /\ \A u \in Task : InWq(u)' <=> InWq(u) \/ u = t
        BY <2>1, <2>8, PrepareIInv
      <3>2. "wq" \notin w[t] /\ w' = [w EXCEPT ![t] = @ \cup {"wq"}]
        BY <3>1 DEF wakersOf
      <3>3. TL!Register(c, "wq")
        BY <2>8, <3>2, OwnerAssumption DEF PrepareToWait, On, TL!Register
      <3> QED
        BY <2>1, <3>3 DEF TL!Next, TL!Step
    <2>9. ASSUME NEW c \in cpus, NEW t \in Task, Notify(c, t), wq = <<>> PROVE UNCHANGED TL!vars
      BY <2>9, WakersSame DEF Notify, taskVars, TL!vars
    <2>10. ASSUME NEW c \in cpus, NEW t \in Task, Notify(c, t), wq # <<>> PROVE TL!Next
      <3> DEFINE h == Head(wq)
      <3>1. h \in Task /\ InWq(h) /\ \A u \in Task : InWq(u)' <=> InWq(u) /\ u # h
        BY <2>1, <2>10, NotifyIInv
      <3>2. TL!wakeup_task(h)
        BY <2>10 DEF Notify
      <3> HIDE DEF h
      <3>3. "wq" \in w[h] /\ w' = [w EXCEPT ![h] = @ \ {"wq"}]
        BY <3>1 DEF wakersOf
      <3>4. TL!Wake(h, "wq")
        BY <3>2, <3>3 DEF TL!Wake
      <3> QED
        BY <2>1, <3>1, <3>4 DEF TL!Next
    <2> QED
      BY <2>2, <2>3, <2>4, <2>5, <2>6, <2>7, <2>8, <2>9, <2>10 DEF Proceed
  <1> QED
    BY <1>1, <1>2

\* Every behaviour of tasks that use the mutex is one of the task layer: a task is queued at most
\* once, while it is on a CPU, and is woken by being taken off, so what holds of TaskSched holds here.
THEOREM MutexUsesTaskLayer == Spec => UsesTaskLayer
  BY InitIInv, NextIInv, InitRefines, NextRefines, PTL DEF Spec, UsesTaskLayer, TL!Spec
=============================================================================
