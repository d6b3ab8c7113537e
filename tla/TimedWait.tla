----------------------------- MODULE TimedWait -----------------------------
(***************************************************************************)
(* Tasks that wait for time or for an event: SleepFuture, the futures of   *)
(* WaitQueue with a deadline, the timer list of task_api and the timer     *)
(* interrupt that walks it.  A CPU takes interrupts only while its own are *)
(* enabled; a task that sleeps or yields turns them off on the CPU where   *)
(* it does so and puts them back on the CPU that polls it again.           *)
(***************************************************************************)
EXTENDS Naturals, Sequences

CONSTANTS
  Task, Cpu, None,
  Programs,  \* the sets of calls that the tasks of a system may make
  MaxTime,   \* bound: the clock stops, no deadline is later and no call is made then
  MaxNodes   \* bound: nodes in the wait queue, events of a task at a deadline

\* The calls with a deadline on the wait queue.
Timed == {"wait_timeout", "wait_timeout_until", "wait_queue_wait"}

ASSUME ProgramsAssumption ==
  \A p \in Programs : p \subseteq Timed \cup {"sleep", "notify", "yield"}
ASSUME BoundAssumption == MaxTime \in Nat /\ MaxNodes \in Nat
ASSUME TaskAssumption == None \notin Task

VARIABLES
  state, ready, current, strong, panicked,  \* the task layer
  ops,       \* the calls that the tasks of this system make
  now,       \* current_time()
  irq,       \* whether interrupts are enabled on each CPU
  alarms,    \* TIMER_LIST: the number of events for each task and deadline
  wq,        \* WaitQueue::queue, the tasks whose wakers are in the list
  cond,      \* the condition the waiters wait for
  at,        \* where each task is in the call it makes
  kind,      \* which of the calls in Timed it is
  due,       \* the time the caller asked for
  deadline,  \* the deadline its future has
  saved      \* _irq_state of SleepFuture and YieldFuture

taskVars == <<state, ready, current, strong, panicked>>
callVars == <<kind, due, deadline, saved>>
localVars == <<now, irq, alarms, wq, cond, at, callVars>>
vars == <<taskVars, ops, localVars>>

Time == 0..MaxTime

InWq(t) == \E i \in DOMAIN wq : wq[i] = t

HasAlarm(t) == \E d \in Time : alarms[t][d] > 0

\* The lists that hold a waker of t; set_alarm_wakeup is about to add one.
wakersOf(t) ==
  {n \in {"wq", "alarm"} : \/ n = "wq" /\ InWq(t)
                           \/ n = "alarm" /\ (HasAlarm(t) \/ at[t] \in {"sleep_set", "alarm_set"})}

TL == INSTANCE TaskSched
        WITH Node <- {"wq", "alarm"}, wakers <- [t \in Task |-> wakersOf(t)]

Goto(t, l) == at' = [at EXCEPT ![t] = l]

\* The call returns, and its future is dropped.
Return(t) ==
  /\ Goto(t, "idle")
  /\ kind' = [kind EXCEPT ![t] = None]
  /\ due' = [due EXCEPT ![t] = 0]
  /\ deadline' = [deadline EXCEPT ![t] = 0]
  /\ saved' = [saved EXCEPT ![t] = TRUE]

\* c is executing t, whose code is at l.
On(c, t, l) == current[c] = t /\ state[t] \in TL!OnCpu /\ at[t] = l

Init ==
  /\ state = [t \in Task |-> "New"]
  /\ ready = [t \in Task |-> 0]
  /\ current = [c \in Cpu |-> None]
  /\ strong = [t \in Task |-> 0]
  /\ panicked = FALSE
  /\ ops \in Programs
  /\ now = 0
  /\ irq = [c \in Cpu |-> TRUE]
  /\ alarms = [t \in Task |-> [d \in Time |-> 0]]
  /\ wq = <<>>
  /\ cond = FALSE
  /\ at = [t \in Task |-> "idle"]
  /\ kind = [t \in Task |-> None]
  /\ due = [t \in Task |-> 0]
  /\ deadline = [t \in Task |-> 0]
  /\ saved = [t \in Task |-> TRUE]

----------------------------------------------------------------------------
(* The CPUs and the clock.                                                 *)

Spawn(t) == TL!Spawn(t) /\ UNCHANGED localVars

PickNext(c, t) == TL!PickNext(c, t) /\ UNCHANGED localVars

\* Mutant: it waits with the interrupts as they are.
IdleIrqOff(c) ==
  /\ current[c] = None
  /\ \A t \in Task : ready[t] = 0
  /\ ~irq[c]
  /\ UNCHANGED vars

\* trampoline finds no task: it enables interrupts and waits for one.
Idle(c) ==
  /\ current[c] = None
  /\ \A t \in Task : ready[t] = 0
  /\ ~irq[c]
  /\ irq' = [irq EXCEPT ![c] = TRUE]
  /\ UNCHANGED <<taskVars, now, alarms, wq, cond, at, callVars>>

Tick ==
  /\ now < MaxTime
  /\ now' = now + 1
  /\ UNCHANGED <<taskVars, irq, alarms, wq, cond, at, callVars>>

\* The first event of the timer list.
First(t, d) ==
  /\ alarms[t][d] > 0
  /\ \A u \in Task, e \in Time : alarms[u][e] > 0 => d <= e

\* Mutant: an expired event stays in the list.
ExpireKeeps(c, t, d) ==
  /\ irq[c]
  /\ First(t, d)
  /\ d <= now
  /\ TL!wakeup_task(t)
  /\ UNCHANGED localVars

\* Mutant: an event expires a tick too early.
ExpireEarly(c, t, d) ==
  /\ irq[c]
  /\ First(t, d)
  /\ d <= now + 1
  /\ alarms' = [alarms EXCEPT ![t][d] = @ - 1]
  /\ TL!wakeup_task(t)
  /\ UNCHANGED <<now, irq, wq, cond, at, callVars>>

\* Mutant: the event is dropped without its callback.
ExpireSilently(c, t, d) ==
  /\ irq[c]
  /\ First(t, d)
  /\ d <= now
  /\ alarms' = [alarms EXCEPT ![t][d] = @ - 1]
  /\ UNCHANGED <<taskVars, now, irq, wq, cond, at, callVars>>

\* check_events on a timer interrupt of c: one expired event is taken off the list and
\* its callback wakes the task.
Expire(c, t, d) ==
  /\ irq[c]
  /\ First(t, d)
  /\ d <= now
  /\ alarms' = [alarms EXCEPT ![t][d] = @ - 1]
  /\ TL!wakeup_task(t)
  /\ UNCHANGED <<now, irq, wq, cond, at, callVars>>

----------------------------------------------------------------------------
(* SleepFuture.                                                            *)

\* sleep(dur): NoPreemptIrqSave::acquire as the future is created.
Sleep(c, t, d) ==
  /\ "sleep" \in ops
  /\ On(c, t, "idle")
  /\ now < MaxTime /\ d >= now
  /\ deadline' = [deadline EXCEPT ![t] = d]
  /\ saved' = [saved EXCEPT ![t] = irq[c]]
  /\ irq' = [irq EXCEPT ![c] = FALSE]
  /\ Goto(t, "sleep")
  /\ UNCHANGED <<taskVars, now, alarms, wq, cond, kind, due>>

\* set_alarm_wakeup: the task is Blocking ...
AlarmBlocking(c, t, from, to) ==
  /\ On(c, t, from)
  /\ TL!SetBlocking(t)
  /\ Goto(t, to)
  /\ UNCHANGED <<now, irq, alarms, wq, cond, callVars>>

\* ... and then, under the lock of the timer list, its event is added.
AlarmSet(c, t, from, to) ==
  /\ On(c, t, from)
  /\ alarms[t][deadline[t]] < MaxNodes
  /\ alarms' = [alarms EXCEPT ![t][deadline[t]] = @ + 1]
  /\ Goto(t, to)
  /\ UNCHANGED <<taskVars, now, irq, wq, cond, callVars>>

SleepBlocking(c, t) == AlarmBlocking(c, t, "sleep", "sleep_set")

\* Mutant: the event is added with the clock's time in place of the deadline.
SleepSetNow(c, t) ==
  /\ On(c, t, "sleep_set")
  /\ alarms' = [alarms EXCEPT ![t][now] = @ + 1]
  /\ Goto(t, "sleep_pending")
  /\ UNCHANGED <<taskVars, now, irq, wq, cond, callVars>>

SleepSet(c, t) == AlarmSet(c, t, "sleep_set", "sleep_pending")

\* cancel_alarm removes every event that would wake t.
cancel_alarm(t) == alarms' = [alarms EXCEPT ![t] = [d \in Time |-> 0]]

\* The second poll: cancel_alarm, then local_irq_restore sets the enable bit if it was
\* set when the sleep began (it never clears it).
SleepReady(c, t) ==
  /\ On(c, t, "sleep_done")
  /\ cancel_alarm(t)
  /\ irq' = [irq EXCEPT ![c] = @ \/ saved[t]]
  /\ Return(t)
  /\ UNCHANGED <<taskVars, now, wq, cond>>

----------------------------------------------------------------------------
(* The calls with a deadline on the wait queue.                            *)

\* The future is created with the deadline; wait_queue_wait has a duration instead, of
\* one tick here, and makes a future each time it is polled.
WaitTimed(c, t, k, d) ==
  /\ k \in ops
  /\ On(c, t, "idle")
  /\ now < MaxTime /\ d >= now
  /\ k = "wait_queue_wait" => d = now + 1
  /\ kind' = [kind EXCEPT ![t] = k]
  /\ due' = [due EXCEPT ![t] = d]
  /\ deadline' = [deadline EXCEPT ![t] = d]
  /\ Goto(t, "poll")
  /\ UNCHANGED <<taskVars, now, irq, alarms, wq, cond, saved>>

\* wait_queue_wait is polled again: the deadline counts from now.
PollAgain(c, t) ==
  /\ On(c, t, "again")
  /\ now < MaxTime
  /\ deadline' = [deadline EXCEPT ![t] = now + 1]
  /\ Goto(t, "poll")
  /\ UNCHANGED <<taskVars, now, irq, alarms, wq, cond, kind, due, saved>>

\* poll finds the condition true (WaitTimeoutFuture has none, and never finds its _flag
\* set).  The node it removes is a new one, on no list; a node of an earlier poll stays,
\* and so does the alarm.
PollCond(c, t) ==
  /\ On(c, t, "poll")
  /\ kind[t] # "wait_timeout"
  /\ cond
  /\ Return(t)
  /\ UNCHANGED <<taskVars, now, irq, alarms, wq, cond>>

\* The condition is false and the deadline has passed: cancel_alarm.
PollOver(c, t) ==
  /\ On(c, t, "poll")
  /\ kind[t] # "wait_timeout"
  /\ ~cond
  /\ now >= deadline[t]
  /\ cancel_alarm(t)
  /\ Return(t)
  /\ UNCHANGED <<taskVars, now, irq, wq, cond>>

\* Otherwise the task goes on to register.
PollNotYet(c, t) ==
  /\ On(c, t, "poll")
  /\ kind[t] # "wait_timeout" => ~cond /\ now < deadline[t]
  /\ Goto(t, "prepare")
  /\ UNCHANGED <<taskVars, now, irq, alarms, wq, cond, callVars>>

\* prepare_to_wait, under the lock of the queue.
PrepareToWait(c, t) ==
  /\ On(c, t, "prepare")
  /\ Len(wq) < MaxNodes
  /\ TL!SetBlocking(t)
  /\ wq' = Append(wq, t)
  /\ Goto(t, "alarm")
  /\ UNCHANGED <<now, irq, alarms, cond, callVars>>

WaitBlocking(c, t) == AlarmBlocking(c, t, "alarm", "alarm_set")

\* Mutant: the event is not added.
WaitSetForgotten(c, t) ==
  /\ On(c, t, "alarm_set")
  /\ Goto(t, "pending")
  /\ UNCHANGED <<taskVars, now, irq, alarms, wq, cond, callVars>>

WaitSet(c, t) == AlarmSet(c, t, "alarm_set", "pending")

\* A task makes the condition true or false ...
SetCond(c, t, b) ==
  /\ "notify" \in ops
  /\ On(c, t, "idle")
  /\ cond' = b
  /\ Goto(t, "notify")
  /\ UNCHANGED <<taskVars, now, irq, alarms, wq, callVars>>

\* ... and calls notify_one.
NotifyOne(c, t) ==
  /\ On(c, t, "notify")
  /\ IF wq = <<>> THEN UNCHANGED <<taskVars, wq>>
                  ELSE wq' = Tail(wq) /\ TL!wakeup_task(Head(wq))
  /\ Goto(t, "idle")
  /\ UNCHANGED <<now, irq, alarms, cond, callVars>>

----------------------------------------------------------------------------
(* Leaving the CPU.                                                        *)

\* The future returned Pending; polled again, the task is in the second poll of the
\* sleep, or at the top of the poll of its wait.
Pending(c, t) ==
  /\ \/ On(c, t, "sleep_pending") /\ Goto(t, "sleep_done")
     \/ /\ On(c, t, "pending")
        /\ Goto(t, IF kind[t] = "wait_queue_wait" THEN "again" ELSE "poll")
  /\ TL!PollPending(c)
  /\ UNCHANGED <<now, irq, alarms, wq, cond, callVars>>

\* yield_now().await saves the interrupt state and turns interrupts off in the same way ...
Yield(c, t) ==
  /\ "yield" \in ops
  /\ On(c, t, "idle")
  /\ saved' = [saved EXCEPT ![t] = irq[c]]
  /\ irq' = [irq EXCEPT ![c] = FALSE]
  /\ TL!PollPending(c)
  /\ Goto(t, "yielded")
  /\ UNCHANGED <<now, alarms, wq, cond, kind, due, deadline>>

\* ... until its second poll.
YieldReady(c, t) ==
  /\ On(c, t, "yielded")
  /\ irq' = [irq EXCEPT ![c] = @ \/ saved[t]]
  /\ Return(t)
  /\ UNCHANGED <<taskVars, now, alarms, wq, cond>>

Exit(c, t) ==
  /\ On(c, t, "idle")
  /\ TL!SetExited(c)
  /\ UNCHANGED localVars

Clean(c) == TL!ExitClean(c) /\ UNCHANGED localVars

----------------------------------------------------------------------------
\* The steps of a call that t is making.
Proceed(c, t) ==
  \/ SleepBlocking(c, t) \/ SleepSet(c, t) \/ SleepReady(c, t)
  \/ PollAgain(c, t) \/ PollCond(c, t) \/ PollOver(c, t) \/ PollNotYet(c, t)
  \/ PrepareToWait(c, t) \/ WaitBlocking(c, t) \/ WaitSet(c, t)
  \/ NotifyOne(c, t) \/ Pending(c, t) \/ YieldReady(c, t)

\* The calls of t, and its end.
Call(c, t) ==
  \/ \E d \in Time : Sleep(c, t, d) \/ \E k \in Timed : WaitTimed(c, t, k, d)
  \/ \E b \in BOOLEAN : SetCond(c, t, b)
  \/ Yield(c, t)
  \/ Exit(c, t)

Next ==
  /\ ~panicked
  /\ UNCHANGED ops
  /\ \/ Tick
     \/ \E t \in Task : Spawn(t)
     \/ \E c \in Cpu : Idle(c) \/ Clean(c)
     \/ \E c \in Cpu, t \in Task :
          \/ PickNext(c, t)
          \/ Proceed(c, t)
          \/ Call(c, t)
          \/ \E d \in Time : Expire(c, t, d)

Spec == Init /\ [][Next]_vars

\* The clock runs, a pending timer interrupt is taken when a CPU enables its interrupts,
\* the scheduler gives every queued task a CPU, and a task goes on with its code.
Fairness ==
  /\ WF_vars(Tick /\ UNCHANGED ops)
  /\ \A c \in Cpu :
       /\ SF_vars((\E t \in Task, d \in Time : Expire(c, t, d)) /\ UNCHANGED ops)
       /\ SF_vars(Idle(c) /\ UNCHANGED ops)
       /\ WF_vars(Clean(c) /\ UNCHANGED ops)
  /\ \A t \in Task :
       /\ SF_vars((\E c \in Cpu : PickNext(c, t)) /\ UNCHANGED ops)
       /\ WF_vars((\E c \in Cpu : Proceed(c, t)) /\ UNCHANGED ops)
       /\ WF_vars((\E c \in Cpu : Call(c, t)) /\ UNCHANGED ops)

FairSpec == Spec /\ Fairness

----------------------------------------------------------------------------
(* Properties.                                                             *)

\* A task that sleeps has exactly one event in the timer list, at its deadline, for as
\* long as it is Blocked; unless a condition ended its wait, a task that is in no call
\* has none.  As long as the clock is the only one to wake tasks, none is woken in a state that
\* wakeup_task refuses.
OneAlarm ==
  /\ "notify" \notin ops => ~panicked
  /\ \A t \in Task :
       /\ at[t] = "sleep_done" /\ state[t] = "Blocked" =>
            \A d \in Time : alarms[t][d] = IF d = deadline[t] THEN 1 ELSE 0
       /\ at[t] = "idle" /\ "notify" \notin ops => ~HasAlarm(t)

\* sleep does not return before its deadline.
SleepsEnough == [][\A c \in Cpu, t \in Task : SleepReady(c, t) => now >= deadline[t]]_vars

\* When no task yields, every call of sleep returns, although the CPU it was made on no
\* longer takes timer interrupts until it is idle or another task puts them back; and every
\* wait_timeout_until returns, when nobody makes its condition true.
SleepEnds ==
  \A t \in Task :
    \/ "yield" \notin ops /\ at[t] = "sleep"
    \/ ops = {"wait_timeout_until"} /\ at[t] = "poll"
    ~> at[t] = "idle"

\* Sleeping tasks use the task layer as TaskSched allows: a task is Blocking when its waker
\* goes on a list, at most once on each, and is woken when it is taken off.
UsesTaskLayer ==
  [][ops \subseteq {"sleep", "yield"} => TL!Next \/ UNCHANGED TL!vars]_vars

\* Whatever mixture of calls the tasks make, a task that has left its CPU is on a list
\* that can still wake it.
Wakeable == TL!BlockedHasWaker

\* The step wakes t.
Wakes(t) ==
  \/ \E c \in Cpu, d \in Time : Expire(c, t, d)
  \/ wq # <<>> /\ Head(wq) = t /\ \E c \in Cpu, u \in Task : NotifyOne(c, u)

\* An exited task is not woken.
ExitedNotWoken == [][\A t \in Task : Wakes(t) => state[t] # "Exited"]_vars
=============================================================================
