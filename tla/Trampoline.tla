----------------------------- MODULE Trampoline -----------------------------
(***************************************************************************)
(* The scheduling loop of each CPU, lock by lock: trampoline, run_task,    *)
(* set_task_tf and wakeup_task with the `state` spin lock of a task and    *)
(* the FIFO ready queue as separate critical sections.  A waker can run in *)
(* the polled future or in an interrupt handler; either way the rest of    *)
(* the CPU stands still until wakeup_task returns, and the spin locks keep *)
(* interrupts off while they are held.                                     *)
(***************************************************************************)
EXTENDS Naturals, Sequences

CONSTANTS
  Task, Cpu, None, Node,  \* as in TaskSched
  User                    \* the tasks with a user trap frame

ASSUME NoneAssumption == None \notin Task /\ None \notin Cpu

ASSUME NotWaking == None \notin Task \X Node

VARIABLES
  state,     \* TaskInner::state
  slock,     \* the CPU that holds the spin lock of a task's state
  queue,     \* FifoScheduler::ready_queue
  current,   \* CurrentTask of each CPU
  strong,    \* Arc::strong_count: scheduler-side references to each task
  wakers,    \* places that still hold a waker of each task
  panicked,
  pc,        \* where the CPU is in trampoline and run_task
  curr,      \* the task the CPU has in a local variable (task, curr)
  waking,    \* the <<task, node>> the CPU is in wakeup_task for, or None
  adding     \* that wakeup has found the task Blocked and holds its lock

cpuVars == <<pc, curr>>
wakeVars == <<waking, adding>>
vars == <<state, slock, queue, current, strong, wakers, panicked, pc, curr, waking, adding>>

OnCpu == {"Running", "Blocking", "Waked"}

\* Points of the loop at which the CPU holds the state lock of curr.
Locked == {"pend", "clean", "forget", "unlock"}

Goto(c, l) == pc' = [pc EXCEPT ![c] = l]
SetState(t, s) == state' = [state EXCEPT ![t] = s]
Lock(c, t) == slock[t] = None /\ slock' = [slock EXCEPT ![t] = c]
Unlock(t) == slock' = [slock EXCEPT ![t] = None]
CleanCurrent(c) == current' = [current EXCEPT ![c] = None]

\* The main flow of c can move: no interrupt handler or waker is running on it.
Main(c, l) == pc[c] = l /\ waking[c] = None

Init ==
  /\ state = [t \in Task |-> "New"]
  /\ slock = [t \in Task |-> None]
  /\ queue = <<>>
  /\ current = [c \in Cpu |-> None]
  /\ strong = [t \in Task |-> 0]
  /\ wakers = [t \in Task |-> {}]
  /\ panicked = FALSE
  /\ pc = [c \in Cpu |-> "loop"]
  /\ curr = [c \in Cpu |-> None]
  /\ waking = [c \in Cpu |-> None]
  /\ adding = [c \in Cpu |-> FALSE]

----------------------------------------------------------------------------
(* FifoScheduler.                                                          *)


\* add_task and put_prev_task push at the back ...
Enqueue(t) == queue' = Append(queue, t)

\* ... and pick_next_task takes the front.
Dequeue(t) == queue # <<>> /\ t = Head(queue) /\ queue' = Tail(queue)

\* TaskInner::new and add_task.
Spawn(t) ==
  /\ state[t] = "New"
  /\ SetState(t, "Runable")
  /\ strong' = [strong EXCEPT ![t] = 1]
  /\ Enqueue(t)
  /\ UNCHANGED <<slock, current, wakers, panicked, cpuVars, wakeVars>>

----------------------------------------------------------------------------
(* trampoline and run_task.                                                *)

\* The loop runs the current task if there is one ...
RunCurrent(c) ==
  /\ Main(c, "loop")
  /\ current[c] # None
  /\ curr' = [curr EXCEPT ![c] = current[c]]
  /\ Goto(c, "poll")
  /\ UNCHANGED <<state, slock, queue, current, strong, wakers, panicked, wakeVars>>

\* ... and otherwise takes one from the ready queue.
PickNext(c, t) ==
  /\ Main(c, "loop")
  /\ current[c] = None
  /\ Dequeue(t)
  /\ curr' = [curr EXCEPT ![c] = t]
  /\ Goto(c, "init")
  /\ UNCHANGED <<state, slock, current, strong, wakers, panicked, wakeVars>>

\* init_current: set_state takes the lock for one assignment.
InitCurrent(c) ==
  /\ Main(c, "init")
  /\ slock[curr[c]] = None
  /\ SetState(curr[c], "Running")
  /\ current' = [current EXCEPT ![c] = curr[c]]
  /\ Goto(c, "poll")
  /\ UNCHANGED <<slock, queue, strong, wakers, panicked, curr, wakeVars>>

\* The polled future registers its waker on a list (Blocking first, under the list's lock).
Register(c, n) ==
  LET t == curr[c] IN
  /\ Main(c, "poll")
  /\ slock[t] = None
  /\ state[t] \in OnCpu
  /\ n \notin wakers[t]
  /\ \A d \in Cpu : waking[d] # <<t, n>>
  /\ SetState(t, "Blocking")
  /\ wakers' = [wakers EXCEPT ![t] = @ \cup {n}]
  /\ UNCHANGED <<slock, queue, current, strong, panicked, cpuVars, wakeVars>>

\* The polled future leaves a list by itself.
Deregister(c, n) ==
  /\ Main(c, "poll")
  /\ state[curr[c]] = "Running"
  /\ n \in wakers[curr[c]]
  /\ wakers' = [wakers EXCEPT ![curr[c]] = @ \ {n}]
  /\ UNCHANGED <<state, slock, queue, current, strong, panicked, cpuVars, wakeVars>>

\* exit and exit_current: Exited while the future is still being polled.
SetExited(c) ==
  /\ Main(c, "poll")
  /\ slock[curr[c]] = None
  /\ SetState(curr[c], "Exited")
  /\ UNCHANGED <<slock, queue, current, strong, wakers, panicked, cpuVars, wakeVars>>

\* Poll::Pending (or set_task_tf): state_lock_manual.
PendLock(c) ==
  /\ Main(c, "poll")
  /\ Lock(c, curr[c])
  /\ Goto(c, "pend")
  /\ UNCHANGED <<state, queue, current, strong, wakers, panicked, curr, wakeVars>>

\* Mutant: the lock is released as soon as the task is queued.
PendRunningUnlocks(c) ==
  /\ Main(c, "pend")
  /\ state[curr[c]] = "Running"
  /\ SetState(curr[c], "Runable")
  /\ strong' = [strong EXCEPT ![curr[c]] = @ + 1]
  /\ Enqueue(curr[c])
  /\ Unlock(curr[c])
  /\ Goto(c, "clean")
  /\ UNCHANGED <<current, wakers, panicked, curr, wakeVars>>

\* Running, and no user context to return to: back to the ready queue as a clone.
PendRunning(c) ==
  /\ Main(c, "pend")
  /\ state[curr[c]] = "Running"
  /\ SetState(curr[c], "Runable")
  /\ strong' = [strong EXCEPT ![curr[c]] = @ + 1]
  /\ Enqueue(curr[c])
  /\ Goto(c, "clean")
  /\ UNCHANGED <<slock, current, wakers, panicked, curr, wakeVars>>

\* Running, and the trap of a user task is done: unlock and return to user mode.
PendUserReturn(c) ==
  /\ Main(c, "pend")
  /\ curr[c] \in User
  /\ state[curr[c]] = "Running"
  /\ Unlock(curr[c])
  /\ curr' = [curr EXCEPT ![c] = None]
  /\ Goto(c, "user")
  /\ UNCHANGED <<state, queue, current, strong, wakers, panicked, wakeVars>>

\* The next trap from user mode enters the loop with the same current task.
UserTrap(c) ==
  /\ Main(c, "user")
  /\ Goto(c, "loop")
  /\ UNCHANGED <<state, slock, queue, current, strong, wakers, panicked, curr, wakeVars>>

PendBlocking(c) ==
  /\ Main(c, "pend")
  /\ state[curr[c]] = "Blocking"
  /\ SetState(curr[c], "Blocked")
  /\ Goto(c, "forget")
  /\ UNCHANGED <<slock, queue, current, strong, wakers, panicked, curr, wakeVars>>

PendWaked(c) ==
  /\ Main(c, "pend")
  /\ state[curr[c]] = "Waked"
  /\ SetState(curr[c], "Running")
  /\ Unlock(curr[c])
  /\ curr' = [curr EXCEPT ![c] = None]
  /\ Goto(c, "loop")
  /\ UNCHANGED <<queue, current, strong, wakers, panicked, wakeVars>>

PendPanic(c) ==
  /\ Main(c, "pend")
  /\ state[curr[c]] \in {"Runable", "Blocked", "Exited"}
  /\ panicked' = TRUE
  /\ UNCHANGED <<state, slock, queue, current, strong, wakers, cpuVars, wakeVars>>

\* Mutant: the reference of the current task is dropped twice.
CleanTwice(c) ==
  /\ Main(c, "clean")
  /\ strong' = [strong EXCEPT ![curr[c]] = @ - 2]
  /\ CleanCurrent(c)
  /\ Goto(c, "unlock")
  /\ UNCHANGED <<state, slock, queue, wakers, panicked, curr, wakeVars>>

\* clean_current, after put_prev_task and before the lock is released.
Clean(c) ==
  /\ Main(c, "clean")
  /\ strong' = [strong EXCEPT ![curr[c]] = @ - 1]
  /\ CleanCurrent(c)
  /\ Goto(c, "unlock")
  /\ UNCHANGED <<state, slock, queue, wakers, panicked, curr, wakeVars>>

\* clean_current_without_drop.
Forget(c) ==
  /\ Main(c, "forget")
  /\ CleanCurrent(c)
  /\ Goto(c, "unlock")
  /\ UNCHANGED <<state, slock, queue, strong, wakers, panicked, curr, wakeVars>>


\* drop(state).
PendUnlock(c) ==
  /\ Main(c, "unlock")
  /\ Unlock(curr[c])
  /\ curr' = [curr EXCEPT ![c] = None]
  /\ Goto(c, "loop")
  /\ UNCHANGED <<state, queue, current, strong, wakers, panicked, wakeVars>>

\* Poll::Ready: set_state(Exited), then the joiners are woken ...
Ready(c) ==
  /\ Main(c, "poll")
  /\ slock[curr[c]] = None
  /\ SetState(curr[c], "Exited")
  /\ Goto(c, "exit")
  /\ UNCHANGED <<slock, queue, current, strong, wakers, panicked, curr, wakeVars>>

\* ... and clean_current drops the reference.
ExitClean(c) ==
  /\ Main(c, "exit")
  /\ strong' = [strong EXCEPT ![curr[c]] = @ - 1]
  /\ CleanCurrent(c)
  /\ curr' = [curr EXCEPT ![c] = None]
  /\ Goto(c, "loop")
  /\ UNCHANGED <<state, slock, queue, wakers, panicked, wakeVars>>

----------------------------------------------------------------------------
(* wakeup_task, on c, from the polled future or from an interrupt handler. *)

\* A list gives up the waker; c now spins on the lock of t.
WakeStart(c, t, n) ==
  /\ waking[c] = None
  /\ pc[c] \notin Locked
  /\ n \in wakers[t]
  /\ wakers' = [wakers EXCEPT ![t] = @ \ {n}]
  /\ waking' = [waking EXCEPT ![c] = <<t, n>>]
  /\ UNCHANGED <<state, slock, queue, current, strong, panicked, cpuVars, adding>>

\* Every arm but Blocked needs the lock for one assignment only.
WakeMatch(c) ==
  LET t == waking[c][1] IN
  /\ waking[c] # None
  /\ slock[t] = None
  /\ \/ /\ state[t] \in {"Running", "Runable"}
        /\ UNCHANGED <<state, panicked>>
     \/ /\ state[t] = "Blocking"
        /\ SetState(t, "Waked")
        /\ UNCHANGED panicked
     \/ /\ state[t] \in {"Waked", "Exited"}
        /\ panicked' = TRUE
        /\ UNCHANGED state
  /\ waking' = [waking EXCEPT ![c] = None]
  /\ UNCHANGED <<slock, queue, current, strong, wakers, cpuVars, adding>>

\* Blocked: Runable under the lock ...
WakeBlocked(c) ==
  LET t == waking[c][1] IN
  /\ waking[c] # None
  /\ ~adding[c]
  /\ state[t] = "Blocked"
  /\ Lock(c, t)
  /\ SetState(t, "Runable")
  /\ adding' = [adding EXCEPT ![c] = TRUE]
  /\ UNCHANGED <<queue, current, strong, wakers, panicked, cpuVars, waking>>

\* ... which is held over add_task.
WakeAdd(c) ==
  /\ adding[c]
  /\ Enqueue(waking[c][1])
  /\ Unlock(waking[c][1])
  /\ waking' = [waking EXCEPT ![c] = None]
  /\ adding' = [adding EXCEPT ![c] = FALSE]
  /\ UNCHANGED <<state, current, strong, wakers, panicked, cpuVars>>

----------------------------------------------------------------------------
\* What the CPU does by itself, a polled future that returns included.
CpuStep(c) ==
  \/ RunCurrent(c)
  \/ \E t \in Task : PickNext(c, t)
  \/ InitCurrent(c)
  \/ PendLock(c) \/ PendRunning(c) \/ PendBlocking(c) \/ PendWaked(c) \/ PendPanic(c)
  \/ PendUserReturn(c) \/ UserTrap(c)
  \/ Clean(c) \/ Forget(c) \/ PendUnlock(c)
  \/ Ready(c) \/ ExitClean(c)

WakeStep(c) == WakeMatch(c) \/ WakeBlocked(c) \/ WakeAdd(c)

\* What the futures and the devices may do.
Environment ==
  \/ \E t \in Task : Spawn(t)
  \/ \E c \in Cpu, n \in Node : Register(c, n) \/ Deregister(c, n)
  \/ \E c \in Cpu : SetExited(c)
  \/ \E c \in Cpu, t \in Task, n \in Node : WakeStart(c, t, n)

Next ==
  /\ ~panicked
  /\ \/ Environment
     \/ \E c \in Cpu : CpuStep(c) \/ WakeStep(c)

Spec == Init /\ [][Next]_vars

\* Poll::Pending of a task that no wakeup has reached since it registered.
PendUnwoken(c) == PendLock(c) /\ state[curr[c]] = "Blocking"

(* A CPU keeps executing: an interrupt handler comes to its end, and the   *)
(* interrupts leave the interrupted flow time to go on.  A Waked task      *)
(* keeps its CPU, so a task that is woken inside this window every time it *)
(* is polled would keep it for ever: the third conjunct says it is not.    *)
Fairness ==
  \A c \in Cpu : SF_vars(CpuStep(c)) /\ WF_vars(WakeStep(c)) /\ SF_vars(PendUnwoken(c))

FairSpec == Spec /\ Fairness

----------------------------------------------------------------------------
(* Properties.                                                             *)

TypeOK ==
  /\ state \in [Task -> OnCpu \cup {"New", "Runable", "Blocked", "Exited"}]
  /\ slock \in [Task -> Cpu \cup {None}]
  /\ queue \in Seq(Task)
  /\ current \in [Cpu -> Task \cup {None}]
  /\ strong \in [Task -> Nat]
  /\ wakers \in [Task -> SUBSET Node]
  /\ panicked \in BOOLEAN
  /\ pc \in [Cpu -> Locked \cup {"loop", "init", "poll", "exit", "user"}]
  /\ curr \in [Cpu -> Task \cup {None}]
  /\ waking \in [Cpu -> (Task \X Node) \cup {None}]
  /\ adding \in [Cpu -> BOOLEAN]

InQueue(t) == \E i \in DOMAIN queue : queue[i] = t

\* c has the reference of a Runable task in hand: taken from the queue and not yet
\* running, or on its way back to the queue.
InHand(c, t) == (pc[c] = "init" /\ curr[c] = t) \/ (adding[c] /\ waking[c][1] = t)

\* Two CPUs never have the same current task, not even while run_task has queued
\* the task but not yet cleaned CurrentTask: the state lock is held across both.
CurrentExclusive ==
  \A c, d \in Cpu : c # d /\ current[c] # None => current[c] # current[d]

\* A task that a CPU still has in run_task's `curr` is not freed: the state lock is
\* released after clean_current dropped a reference, through a pointer
\* that only the ready queue or the blocked task's own reference keeps valid.
CurrAlive == \A c \in Cpu : curr[c] # None => strong[curr[c]] > 0

\* The ready queue holds no task twice, and none that a CPU has in hand.
QueueDistinct ==
  /\ \A i, j \in DOMAIN queue : queue[i] = queue[j] => i = j
  /\ \A t \in Task, c \in Cpu : InHand(c, t) => ~InQueue(t)



(* The task layer: a step that holds a state lock takes effect at once.    *)
readyOf(t) == IF InQueue(t) \/ \E c \in Cpu : InHand(c, t) THEN 1 ELSE 0

currentOf(c) == IF pc[c] \in {"clean", "forget"} THEN None ELSE current[c]

strongOf(t) ==
  IF \E c \in Cpu : pc[c] = "clean" /\ curr[c] = t THEN strong[t] - 1 ELSE strong[t]

wakersOf(t) == wakers[t] \cup {n \in Node : \E c \in Cpu : waking[c] = <<t, n>> /\ ~adding[c]}

TaskLayer == INSTANCE TaskSched WITH
  ready   <- [t \in Task |-> readyOf(t)],
  current <- [c \in Cpu |-> currentOf(c)],
  strong  <- [t \in Task |-> strongOf(t)],
  wakers  <- [t \in Task |-> wakersOf(t)]

\* The lock-by-lock loop implements the task layer: every step of it is one
\* operation of TaskSched or none.
ImplementsTaskLayer == TaskLayer!Spec
=============================================================================
