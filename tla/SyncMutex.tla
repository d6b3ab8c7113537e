----------------------------- MODULE SyncMutex -----------------------------
(***************************************************************************)
(* sync::Mutex over sync::WaitQueue, in the asynchronous build: the guard  *)
(* is a future that tries to take the lock each time it is polled, and     *)
(* otherwise waits on the queue until the mutex is not locked.  The tasks  *)
(* run on the task layer; the owner word and the wait queue are accessed   *)
(* one at a time, by whichever tasks are on a CPU.  No interrupt handler   *)
(* uses a mutex, so the interrupt state that YieldFuture saves is not kept *)
(* (it is in TimedWait).                                                   *)
(***************************************************************************)
EXTENDS Naturals, Sequences, FiniteSets

CONSTANTS
  Task, Cpu, None,
  Machines   \* the sets of CPUs that the kernel is started on

ASSUME OwnerAssumption == None \notin Task
ASSUME MachinesAssumption == Machines \subseteq SUBSET Cpu

VARIABLES
  state, ready, current, strong, panicked,  \* the task layer
  cpus,      \* the CPUs that were started (SMP)
  owner,     \* Mutex::owner_task
  wq,        \* Mutex::wq, the tasks whose wakers are in the list
  at         \* where each task is in its use of the mutex

taskVars == <<state, ready, current, strong, panicked>>
vars == <<state, ready, current, strong, panicked, cpus, owner, wq, at>>

\* A waker of t is in the queue.
InWq(t) == \E i \in DOMAIN wq : wq[i] = t

\* TaskSched knows it as the node "wq".
wakersOf(t) == IF InWq(t) THEN {"wq"} ELSE {}

TL == INSTANCE TaskSched WITH Node <- {"wq"}, wakers <- [t \in Task |-> wakersOf(t)]

Goto(t, l) == at' = [at EXCEPT ![t] = l]

Init ==
  /\ state = [t \in Task |-> "New"]
  /\ ready = [t \in Task |-> 0]
  /\ current = [c \in Cpu |-> None]
  /\ strong = [t \in Task |-> 0]
  /\ panicked = FALSE
  /\ cpus \in Machines
  /\ owner = None
  /\ wq = <<>>
  /\ at = [t \in Task |-> "idle"]

\* c is executing t, whose code is at l.
On(c, t, l) == current[c] = t /\ state[t] \in TL!OnCpu /\ at[t] = l

----------------------------------------------------------------------------
(* MutexGuard as a future.                                                 *)

Spawn(t) == TL!Spawn(t) /\ UNCHANGED <<owner, wq, at>>

PickNext(c, t) == TL!PickNext(c, t) /\ UNCHANGED <<owner, wq, at>>

\* mutex.lock().await: the guard is created without the data and polled.
Lock(c, t) ==
  /\ On(c, t, "idle")
  /\ Goto(t, "cas")
  /\ UNCHANGED <<taskVars, owner, wq>>

\* compare_exchange_weak succeeds.
CasOk(c, t) ==
  /\ On(c, t, "cas")
  /\ owner = None
  /\ owner' = t
  /\ Goto(t, "held")
  /\ UNCHANGED <<taskVars, wq>>

\* compare_exchange_weak fails (it may do so although the mutex is free), and the
\* owner it read is not the task itself.
CasErr(c, t) ==
  /\ On(c, t, "cas")
  /\ Goto(t, "check")
  /\ panicked' = (owner = t)
  /\ UNCHANGED <<state, ready, current, strong, owner, wq>>

\* WaitUntilFuture::poll finds the condition true: the node it removes is a new one,
\* on no list, and the guard tries again.
WaitReady(c, t) ==
  /\ On(c, t, "check")
  /\ owner = None
  /\ Goto(t, "cas")
  /\ UNCHANGED <<taskVars, owner, wq>>

\* It finds it false, and goes on to lock the queue.
WaitNotReady(c, t) ==
  /\ On(c, t, "check")
  /\ owner # None
  /\ Goto(t, "wait")
  /\ UNCHANGED <<taskVars, owner, wq>>

\* Mutant: the task is Blocking only after it has let go of the queue.
PrepareWithoutBlocking(c, t) ==
  /\ On(c, t, "wait")
  /\ wq' = Append(wq, t)
  /\ Goto(t, "pending")
  /\ UNCHANGED <<taskVars, owner>>

\* prepare_to_wait, under the lock of the queue.
PrepareToWait(c, t) ==
  /\ On(c, t, "wait")
  /\ TL!SetBlocking(t)
  /\ wq' = Append(wq, t)
  /\ Goto(t, "pending")
  /\ UNCHANGED owner

\* Poll::Pending: when the task is polled again, the guard starts from the top.
Pending(c, t) ==
  /\ On(c, t, "pending")
  /\ TL!PollPending(c)
  /\ Goto(t, "cas")
  /\ UNCHANGED <<owner, wq>>

\* Mutant: try_lock stores the owner without comparing.
TryLockSwap(c, t) ==
  /\ On(c, t, "idle")
  /\ owner' = t
  /\ Goto(t, "held")
  /\ UNCHANGED <<taskVars, wq>>

\* Mutex::try_lock.
TryLock(c, t) ==
  /\ On(c, t, "idle")
  /\ owner = None
  /\ owner' = t
  /\ Goto(t, "held")
  /\ UNCHANGED <<taskVars, wq>>

\* The guard is dropped: force_unlock first frees the mutex ...
Unlock(c, t) ==
  /\ On(c, t, "held")
  /\ owner' = None
  /\ Goto(t, "notify")
  /\ panicked' = (owner # t)
  /\ UNCHANGED <<state, ready, current, strong, wq>>

\* Mutant: nobody is woken.
NotifyNobody(c, t) ==
  /\ On(c, t, "notify")
  /\ Goto(t, "idle")
  /\ UNCHANGED <<taskVars, wq, owner>>

\* ... then notify_one takes the first waker off the queue and wakes its task.
Notify(c, t) ==
  /\ On(c, t, "notify")
  /\ IF wq = <<>> THEN UNCHANGED <<taskVars, wq>>
                  ELSE wq' = Tail(wq) /\ TL!wakeup_task(Head(wq))
  /\ Goto(t, "idle")
  /\ UNCHANGED owner

\* The task yields, whether it holds the mutex or not.
Yield(c, t) ==
  /\ On(c, t, "idle") \/ On(c, t, "held")
  /\ TL!PollPending(c)
  /\ UNCHANGED <<owner, wq, at>>

\* The task returns.
Exit(c, t) ==
  /\ On(c, t, "idle")
  /\ TL!SetExited(c)
  /\ UNCHANGED <<owner, wq, at>>

Clean(c) == TL!ExitClean(c) /\ UNCHANGED <<owner, wq, at>>

----------------------------------------------------------------------------
\* The steps of t that follow from its code once it has called lock, and the
\* release of the mutex.
Proceed(c, t) ==
  \/ CasOk(c, t) \/ WaitReady(c, t) \/ WaitNotReady(c, t)
  \/ PrepareToWait(c, t) \/ Pending(c, t)
  \/ Unlock(c, t) \/ Notify(c, t)
  \/ owner # None /\ CasErr(c, t)

Next ==
  /\ ~panicked
  /\ UNCHANGED cpus
  /\ \/ \E t \in Task : Spawn(t)
     \/ \E c \in cpus : Clean(c)
     \/ \E c \in cpus, t \in Task :
          \/ PickNext(c, t)
          \/ Lock(c, t) \/ TryLock(c, t) \/ Proceed(c, t) \/ CasErr(c, t)
          \/ Yield(c, t) \/ Exit(c, t)

Spec == Init /\ [][Next]_vars

\* A cooperative task yields, the scheduler gives every queued task a CPU (Trampoline's
\* Dispatched), a task that is run goes on with its own code and drops its guards, and
\* compare_exchange_weak does not fail on a free mutex for ever.
Fairness ==
  \A t \in Task :
    /\ SF_vars(\E c \in cpus : UNCHANGED cpus /\ PickNext(c, t))
    /\ SF_vars(\E c \in cpus : UNCHANGED cpus /\ Proceed(c, t))
    /\ SF_vars(\E c \in cpus : UNCHANGED cpus /\ CasOk(c, t))
    /\ SF_vars(\E c \in cpus : UNCHANGED cpus /\ Yield(c, t) /\ at[t] = "idle")
    /\ WF_vars(\E c \in cpus : UNCHANGED cpus /\ current[c] = t /\ Clean(c))

FairSpec == Spec /\ Fairness

----------------------------------------------------------------------------
(* Properties.                                                             *)

\* The data is only ever accessible to one task, and to one that the owner word names, however
\* compare_exchange_weak, unlocking and waking interleave; and the mutex never breaks an
\* assertion of its own or wakes a task in a state that wakeup_task refuses (Waked or Exited).
MutualExclusion == ~panicked /\ \A t \in Task : at[t] = "held" <=> owner = t

\* t is on its way to the compare_exchange_weak, or to waking a waiter.
Active(t) ==
  \/ at[t] = "notify"
  \/ at[t] \in {"cas", "check"} /\ state[t] \notin {"Blocking", "Blocked"}

\* Whenever the mutex is free and a task waits for it, some task that is awake will
\* take the mutex or wake a waiter: a free mutex never strands its waiters.
HandOver == owner = None /\ wq # <<>> => \E t \in Task : Active(t)

\* On one CPU every waker in the queue is eventually taken off it, by the unlock that
\* wakes it.
WaiterWoken == \A t \in Task : Cardinality(cpus) = 1 /\ InWq(t) ~> ~InWq(t)

\* The mutex uses the task layer as TaskSched allows: a task is in the queue at most
\* once, is put there while it is on a CPU, and is woken when it is taken off.
UsesTaskLayer == TL!Spec
=============================================================================
