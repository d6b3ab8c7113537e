-------------------------- MODULE TimedWaitProofs --------------------------
(***************************************************************************)
(* Proofs about TimedWait, for every number of tasks and CPUs, every bound *)
(* and every mixture of calls.  A task that blocks is on a list whatever   *)
(* the calls are (Inv).  That the timer list holds what it should, and     *)
(* that sleeps are long enough, is so as long as the clock is the only     *)
(* waker (Alarmed): a task whose wait was ended by a condition keeps its   *)
(* event, which may end a later sleep of the same task.                    *)
(***************************************************************************)
EXTENDS TimedWait, TLAPS

\* Every leaf goes to Zenon, with time to spare, unless it names another prover.
USE ZenonT(60)

SleepPlace == {"sleep", "sleep_set", "sleep_pending", "sleep_done"}
WaitPlace == {"poll", "again", "prepare", "alarm", "alarm_set", "pending"}
Place == {"idle", "yielded", "notify"} \cup SleepPlace \cup WaitPlace

\* Where a task is Blocking, or was woken before it left its CPU.
Registering == {"sleep_set", "sleep_pending", "alarm", "alarm_set", "pending"}

TypeOK ==
  /\ state \in [Task -> TL!TaskState \cup {"New"}]
  /\ ready \in [Task -> Nat]
  /\ current \in [Cpu -> Task \cup {None}]
  /\ panicked \in BOOLEAN
  /\ now \in Time
  /\ alarms \in [Task -> [Time -> Nat]]
  /\ wq \in Seq(Task)
  /\ cond \in BOOLEAN
  /\ at \in [Task -> Place]
  /\ deadline \in [Task -> Time]

\* The ready queue holds the Runable tasks, once.
Queued == \A t \in Task : ready[t] = IF state[t] = "Runable" THEN 1 ELSE 0

Blocks ==
  \A t \in Task : /\ state[t] \in {"Blocking", "Waked"} => at[t] \in Registering
                  /\ at[t] \in Registering => state[t] \in {"Blocking", "Waked"}
                  /\ state[t] = "Blocked" => at[t] \in {"sleep_done", "poll", "again"}

\* Holds of every mixture of calls.
Inv == TypeOK /\ Queued /\ Blocks /\ Wakeable

\* The task has its event in the timer list.
Armed(t) == state[t] = "Blocked" \/ (state[t] = "Blocking" /\ at[t] \in {"sleep_pending", "pending"})

\* Holds when the clock is the only waker: a task has its event exactly while it blocks, and a sleep
\* that is over has lasted.
Alarmed ==
  /\ ~panicked /\ ~cond
  /\ \A t \in Task :
       /\ \A d \in Time : alarms[t][d] = IF Armed(t) /\ d = deadline[t] THEN 1 ELSE 0
       /\ at[t] \in {"sleep_set", "alarm", "alarm_set"} => state[t] = "Blocking"
       /\ \/ at[t] = "sleep_done" /\ state[t] # "Blocked"
          \/ at[t] = "sleep_pending" /\ state[t] # "Blocking"
          => now >= deadline[t]

\* Where a task can be follows from the calls that are made.
Called ==
  /\ "sleep" \notin ops => \A t \in Task : at[t] \notin SleepPlace
  /\ "notify" \notin ops => \A t \in Task : at[t] # "notify"
  /\ ops \subseteq {"sleep", "yield"} => wq = <<>> /\ \A t \in Task : at[t] \in {"idle", "yielded"} \cup SleepPlace

IInv == Inv /\ Called /\ ("notify" \notin ops => Alarmed)

----------------------------------------------------------------------------
(* The lists.                                                              *)

\* push_back adds a task to those in the queue.
LEMMA AppendWq ==
  ASSUME wq \in Seq(Task), NEW t \in Task, wq' = Append(wq, t)
  PROVE  wq' \in Seq(Task) /\ \A u \in Task : InWq(u)' <=> InWq(u) \/ u = t
  <1>1. /\ wq' \in Seq(Task)
        /\ DOMAIN wq = 1 .. Len(wq) /\ DOMAIN wq' = 1 .. Len(wq) + 1
        /\ \A i \in 1 .. Len(wq) : wq'[i] = wq[i]
        /\ wq'[Len(wq) + 1] = t
        /\ Len(wq) \in Nat
    BY SMTT(60)
  <1> QED
    BY <1>1, SMTT(60) DEF InWq

\* pop_front takes off the first task, and no other.
LEMMA TailWq ==
  ASSUME wq \in Seq(Task), wq # <<>>, wq' = Tail(wq)
  PROVE  /\ wq' \in Seq(Task) /\ Head(wq) \in Task
         /\ \A u \in Task : u # Head(wq) => (InWq(u) => InWq(u)')
  <1>1. /\ wq' \in Seq(Task)
        /\ Len(wq) \in Nat /\ Len(wq) >= 1
        /\ DOMAIN wq = 1 .. Len(wq) /\ DOMAIN wq' = 1 .. Len(wq) - 1
        /\ \A i \in 1 .. Len(wq) - 1 : wq'[i] = wq[i + 1]
        /\ Head(wq) \in Task /\ Head(wq) = wq[1]
    BY SMTT(60)
  <1>2. ASSUME NEW u \in Task, u # Head(wq), InWq(u) PROVE InWq(u)'
    <2>1. PICK i \in 1 .. Len(wq) : wq[i] = u
      BY <1>1, <1>2 DEF InWq
    <2>2. i - 1 \in 1 .. Len(wq) - 1 /\ wq'[i - 1] = u
      BY SMTT(60), <1>1, <1>2, <2>1
    <2> QED
      BY <1>1, <2>2 DEF InWq
  <1> QED
    BY <1>1, <1>2

\* A step that keeps the queue keeps who is in it.
LEMMA SameWq == UNCHANGED wq => \A t \in Task : InWq(t)' = InWq(t)
  BY DEF InWq

\* A step that keeps the events of a task keeps whether it has one.
LEMMA SameAlarm ==
  ASSUME NEW t \in Task, \A d \in Time : alarms'[t][d] = alarms[t][d] PROVE HasAlarm(t)' = HasAlarm(t)
  BY DEF HasAlarm

\* What Wakeable says of a task.
OnList(t) == InWq(t) \/ HasAlarm(t) \/ at[t] \in {"sleep_set", "alarm_set"}

\* Wakeable, spelled out: a task that blocks is on one of the lists, or about to be.
LEMMA WakeableIs ==
  /\ Wakeable <=> \A t \in Task : state[t] \in {"Blocking", "Blocked"} => OnList(t)
  /\ Wakeable' <=> \A t \in Task : state'[t] \in {"Blocking", "Blocked"} => OnList(t)'
  <1>1. \A t \in Task : wakersOf(t) # {} <=> OnList(t)
    BY DEF wakersOf, OnList
  <1>2. \A t \in Task : wakersOf(t)' # {} <=> OnList(t)'
    BY DEF wakersOf, OnList
  <1> QED
    BY <1>1, <1>2 DEF Wakeable, TL!BlockedHasWaker

----------------------------------------------------------------------------
(* A task in its own code: it is Running, and goes on to a place where it  *)
(* still is.                                                               *)

\* The task that is current outside of the code that blocks is Running.
LEMMA RunningAt ==
  ASSUME Inv, NEW c \in Cpu, NEW t \in Task, NEW l \in Place \ Registering, On(c, t, l)
  PROVE  state[t] = "Running" /\ at[t] = l
  BY DEF Inv, Blocks, On, TL!OnCpu

\* t goes to l, and changes at most its own deadline and its own events.
Move(t, l) ==
  /\ l \in Place \ (Registering \cup {"sleep_done"})
  /\ state[t] = "Running"
  /\ at' = [at EXCEPT ![t] = l]
  /\ UNCHANGED <<state, ready, current, panicked, wq>>
  /\ now' \in Time /\ now' >= now
  /\ cond' \in BOOLEAN
  /\ deadline' \in [Task -> Time] /\ \A s \in Task : s # t => deadline'[s] = deadline[s]
  /\ UNCHANGED alarms \/ cancel_alarm(t)

\* Such a move takes away events of t at most.
LEMMA MoveAlarms ==
  ASSUME Inv, NEW t \in Task, NEW l, Move(t, l)
  PROVE  /\ alarms' \in [Task -> [Time -> Nat]]
         /\ \A s \in Task, d \in Time : alarms'[s][d] = alarms[s][d] \/ (s = t /\ alarms'[s][d] = 0)
  <1>1. CASE UNCHANGED alarms
    BY <1>1 DEF Inv, TypeOK
  <1>2. CASE cancel_alarm(t)
    BY <1>2 DEF cancel_alarm, Inv, TypeOK
  <1> QED
    BY <1>1, <1>2 DEF Move

\* It keeps what holds of every mixture of calls,
LEMMA MoveInv == ASSUME Inv, NEW t \in Task, NEW l, Move(t, l) PROVE Inv'
  <1>1. TypeOK'
    BY MoveAlarms DEF Inv, TypeOK, Move
  <1>2. Queued'
    BY DEF Inv, Queued, Move
  <1>3. Blocks'
    BY DEF Inv, Blocks, TypeOK, Move
  <1>4. Wakeable'
    <2> SUFFICES ASSUME NEW s \in Task, state[s] \in {"Blocking", "Blocked"} PROVE OnList(s)'
      BY WakeableIs DEF Move
    <2>1. s # t /\ OnList(s)
      BY WakeableIs DEF Inv, Move
    <2>2. HasAlarm(s)' = HasAlarm(s) /\ InWq(s)' = InWq(s) /\ at'[s] = at[s]
      BY <2>1, MoveAlarms, SameAlarm, SameWq DEF Move, Inv, TypeOK
    <2> QED
      BY <2>1, <2>2 DEF OnList
  <1> QED
    BY <1>1, <1>2, <1>3, <1>4 DEF Inv

\* and what holds when the clock is the only waker.
LEMMA MoveAlarmed ==
  ASSUME Inv, Alarmed, NEW t \in Task, NEW l, Move(t, l), ~cond' PROVE Alarmed'
  <1>1. /\ \A s \in Task : state'[s] = state[s] /\ at'[s] = IF s = t THEN l ELSE at[s]
        /\ \A s \in Task : deadline[s] \in Time /\ deadline'[s] \in Time
        /\ \A s \in Task : s # t => deadline'[s] = deadline[s]
        /\ now' >= now /\ now' \in Nat /\ now \in Nat
        /\ UNCHANGED panicked
    BY BoundAssumption, SMTT(60) DEF Move, Inv, TypeOK, Time
  <1>2. \A s \in Task, d \in Time : alarms'[s][d] = alarms[s][d] \/ (s = t /\ alarms'[s][d] = 0)
    BY MoveAlarms
  <1>3. state[t] = "Running" /\ l \notin Registering /\ l # "sleep_done"
    BY DEF Move
  <1>4. ~Armed(t) /\ ~Armed(t)' /\ \A s \in Task : s # t => Armed(s)' = Armed(s)
    BY <1>1, <1>3 DEF Armed
  <1>5. \A s \in Task, d \in Time : alarms'[s][d] = IF Armed(s)' /\ d = deadline'[s] THEN 1 ELSE 0
    BY <1>1, <1>2, <1>4, SMTT(60) DEF Alarmed
  <1>6. \A s \in Task : /\ at'[s] \in {"sleep_set", "alarm", "alarm_set"} => state'[s] = "Blocking"
                        /\ \/ at'[s] = "sleep_done" /\ state'[s] # "Blocked"
                           \/ at'[s] = "sleep_pending" /\ state'[s] # "Blocking"
                           => now' >= deadline'[s]
    <2> TAKE s \in Task
    <2>1. CASE s = t
      BY <1>1, <1>3, <2>1 DEF Registering
    <2>2. CASE s # t
      BY <1>1, <2>2, BoundAssumption, SMTT(60) DEF Alarmed, Time
    <2> QED
      BY <2>1, <2>2
  <1> QED
    BY <1>1, <1>5, <1>6 DEF Alarmed

\* The clock shows a number.
LEMMA NowNat == TypeOK => now \in Nat /\ MaxTime \in Nat /\ 0 \in Time
  BY BoundAssumption, SMTT(60) DEF TypeOK, Time

\* A task goes to l, which its calls allow.
LEMMA CalledStep ==
  ASSUME TypeOK, Called, UNCHANGED ops, NEW t \in Task, NEW l \in Place, at' = [at EXCEPT ![t] = l],
         l \in SleepPlace => "sleep" \in ops \/ at[t] \in SleepPlace,
         l = "notify" => "notify" \in ops,
         ops \subseteq {"sleep", "yield"} => wq' = wq /\ (l \in WaitPlace \cup {"notify"} => at[t] \in WaitPlace)
  PROVE  Called'
  <1>1. \A s \in Task : at'[s] = IF s = t THEN l ELSE at[s]
    BY DEF TypeOK
  <1>2. ops \subseteq {"sleep", "yield"} => l \in {"idle", "yielded"} \cup SleepPlace
    BY DEF Called, Place, SleepPlace, WaitPlace
  <1> QED
    BY <1>1, <1>2 DEF Called

\* No task moves.
LEMMA CalledSame == ASSUME Called, UNCHANGED <<ops, at, wq>> PROVE Called'
  BY DEF Called

\* The steps of the futures before they register and after they are polled again.
LEMMA CodeStep ==
  ASSUME IInv, NEW c \in Cpu, NEW t \in Task, UNCHANGED ops,
         \/ \E d \in Time : Sleep(c, t, d) \/ \E k \in Timed : WaitTimed(c, t, k, d)
         \/ \E b \in BOOLEAN : SetCond(c, t, b)
         \/ SleepReady(c, t) \/ PollAgain(c, t) \/ PollCond(c, t) \/ PollOver(c, t) \/ PollNotYet(c, t)
         \/ YieldReady(c, t) \/ (NotifyOne(c, t) /\ wq = <<>>)
  PROVE  /\ \E l \in Place : Move(t, l)
         /\ "notify" \notin ops => ~cond'
         /\ Called'
  <1> USE DEF IInv, Goto, Return, taskVars, callVars
  <1>0. TypeOK /\ now \in Nat /\ MaxTime \in Nat /\ 0 \in Time
    BY NowNat DEF Inv
  <1>1. ASSUME NEW d \in Time, Sleep(c, t, d) PROVE Move(t, "sleep") /\ cond' = cond /\ Called'
    <2>1. state[t] = "Running"
      BY <1>1, RunningAt DEF Sleep, Place, Registering
    <2>2. Move(t, "sleep")
      BY <1>0, <1>1, <2>1, SMTT(60) DEF Sleep, Move, Place, SleepPlace, Registering, TypeOK
    <2> QED
      BY <1>0, <1>1, <2>2, CalledStep DEF Sleep, Place, SleepPlace, WaitPlace
  <1>2. ASSUME NEW d \in Time, NEW k \in Timed, WaitTimed(c, t, k, d)
        PROVE  Move(t, "poll") /\ cond' = cond /\ Called'
    <2>1. state[t] = "Running"
      BY <1>2, RunningAt DEF WaitTimed, Place, Registering
    <2>2. Move(t, "poll")
      BY <1>0, <1>2, <2>1, SMTT(60) DEF WaitTimed, Move, Place, WaitPlace, Registering, TypeOK
    <2>3. ~(ops \subseteq {"sleep", "yield"})
      BY <1>2 DEF WaitTimed, Timed
    <2> QED
      BY <1>0, <1>2, <2>2, <2>3, CalledStep DEF WaitTimed, Place, SleepPlace, WaitPlace
  <1>3. ASSUME NEW b \in BOOLEAN, SetCond(c, t, b) PROVE Move(t, "notify") /\ "notify" \in ops /\ Called'
    <2>1. state[t] = "Running"
      BY <1>3, RunningAt DEF SetCond, Place, Registering
    <2>2. Move(t, "notify")
      BY <1>0, <1>3, <2>1, SMTT(60) DEF SetCond, Move, Place, Registering, TypeOK
    <2> QED
      BY <1>0, <1>3, <2>2, CalledStep DEF SetCond, Place, SleepPlace, WaitPlace
  <1>4. CASE SleepReady(c, t) \/ PollCond(c, t) \/ PollOver(c, t) \/ YieldReady(c, t)
             \/ (NotifyOne(c, t) /\ wq = <<>>)
    <2>1. state[t] = "Running"
      BY <1>4, RunningAt
      DEF SleepReady, PollCond, PollOver, YieldReady, NotifyOne, Place, SleepPlace, WaitPlace, Registering
    <2>2. /\ at' = [at EXCEPT ![t] = "idle"] /\ UNCHANGED <<state, ready, current, panicked, wq, now, cond>>
          /\ deadline' = deadline \/ deadline' = [deadline EXCEPT ![t] = 0]
          /\ UNCHANGED alarms \/ cancel_alarm(t)
      <3>1. CASE SleepReady(c, t)
        BY <3>1 DEF SleepReady
      <3>2. CASE PollCond(c, t)
        BY <3>2 DEF PollCond
      <3>3. CASE PollOver(c, t)
        BY <3>3 DEF PollOver
      <3>4. CASE YieldReady(c, t)
        BY <3>4 DEF YieldReady
      <3>5. CASE NotifyOne(c, t) /\ wq = <<>>
        BY <3>5 DEF NotifyOne
      <3> QED
        BY <1>4, <3>1, <3>2, <3>3, <3>4, <3>5
    <2>3. Move(t, "idle")
      <3>1. deadline' \in [Task -> Time] /\ \A s \in Task : s # t => deadline'[s] = deadline[s]
        BY <1>0, <2>2 DEF TypeOK
      <3>2. now' \in Time /\ now' >= now /\ cond' \in BOOLEAN
        BY <1>0, <2>2, SMTT(60) DEF TypeOK
      <3>3. "idle" \in Place \ (Registering \cup {"sleep_done"})
        BY DEF Place, Registering
      <3> QED
        BY <2>1, <2>2, <3>1, <3>2, <3>3 DEF Move
    <2>4. Called'
      BY <1>0, <2>2, CalledStep DEF Place, SleepPlace, WaitPlace
    <2> QED
      BY <2>2, <2>3, <2>4 DEF Alarmed, Place
  <1>5. CASE PollAgain(c, t)
    <2> USE <1>5 DEF PollAgain
    <2>1. state[t] = "Running" /\ at[t] = "again"
      BY RunningAt DEF Place, WaitPlace, Registering
    <2>2. Move(t, "poll")
      BY <1>0, <2>1, SMTT(60) DEF Move, Place, WaitPlace, Registering, TypeOK, Time
    <2>3. Called'
      BY <1>0, <2>1, CalledStep DEF Place, SleepPlace, WaitPlace
    <2> QED
      BY <2>2, <2>3 DEF Alarmed, Place, WaitPlace
  <1>6. CASE PollNotYet(c, t)
    <2> USE <1>6 DEF PollNotYet
    <2>1. state[t] = "Running" /\ at[t] = "poll"
      BY RunningAt DEF Place, WaitPlace, Registering
    <2>2. Move(t, "prepare")
      BY <1>0, <2>1, SMTT(60) DEF Move, Place, WaitPlace, Registering, TypeOK, Time
    <2>3. Called'
      BY <1>0, <2>1, CalledStep DEF Place, SleepPlace, WaitPlace
    <2> QED
      BY <2>2, <2>3 DEF Alarmed, Place, WaitPlace
  <1> QED
    BY <1>1, <1>2, <1>3, <1>4, <1>5, <1>6 DEF Alarmed, Place, SleepPlace, WaitPlace

\* The invariant is kept by a move.
LEMMA CodeIInv ==
  ASSUME IInv, UNCHANGED ops, NEW t \in Task, NEW l, Move(t, l), "notify" \notin ops => ~cond', Called'
  PROVE  IInv'
  BY MoveInv, MoveAlarmed DEF IInv

----------------------------------------------------------------------------
(* The CPUs and the clock: only tasks that do not block change their state *)
(* or their place.                                                         *)

Free == {"New", "Runable", "Running", "Exited"}

Dispatch ==
  /\ TypeOK' /\ Queued'
  /\ now' >= now
  /\ UNCHANGED <<panicked, cond, alarms, wq, deadline>>
  /\ \A s \in Task : \/ state'[s] = state[s] /\ at'[s] = at[s]
                     \/ /\ state[s] \in Free /\ state'[s] \in Free
                        /\ at'[s] = at[s] \/ (at[s] = "idle" /\ at'[s] = "yielded")

\* A free CPU picks a Runable task.
LEMMA DispatchIInv == ASSUME IInv, UNCHANGED ops, Dispatch, Called' PROVE IInv'
  <1> USE DEF Dispatch, Free
  <1>1. Blocks'
    BY DEF IInv, Inv, Blocks, Registering
  <1>2. Wakeable'
    <2> SUFFICES ASSUME NEW s \in Task, state'[s] \in {"Blocking", "Blocked"} PROVE OnList(s)'
      BY WakeableIs
    <2>1. OnList(s) /\ at'[s] = at[s]
      BY WakeableIs DEF IInv, Inv
    <2>2. HasAlarm(s)' = HasAlarm(s) /\ InWq(s)' = InWq(s)
      BY SameAlarm, SameWq
    <2> QED
      BY <2>1, <2>2 DEF OnList
  <1>3. ASSUME Alarmed PROVE Alarmed'
    <2>1. \A s \in Task : Armed(s)' = Armed(s)
      BY DEF Armed
    <2>2. \A s \in Task, d \in Time : alarms'[s][d] = IF Armed(s)' /\ d = deadline'[s] THEN 1 ELSE 0
      BY <1>3, <2>1 DEF Alarmed
    <2>3. \A s \in Task : /\ at'[s] \in {"sleep_set", "alarm", "alarm_set"} => state'[s] = "Blocking"
                          /\ \/ at'[s] = "sleep_done" /\ state'[s] # "Blocked"
                             \/ at'[s] = "sleep_pending" /\ state'[s] # "Blocking"
                             => now >= deadline[s]
      BY <1>3 DEF Alarmed
    <2>4. now \in Nat /\ now' \in Nat /\ \A s \in Task : deadline[s] \in Nat
      BY BoundAssumption, SMTT(60) DEF IInv, Inv, TypeOK, Time
    <2> QED
      BY <1>3, <2>2, <2>3, <2>4, SMTT(60) DEF Alarmed
  <1> QED
    BY <1>1, <1>2, <1>3 DEF IInv, Inv

\* Time passes: a sleep that is over stays over.
LEMMA TickIInv == ASSUME IInv, UNCHANGED ops, Tick \/ \E c \in Cpu : Idle(c) PROVE IInv'
  <1> USE DEF IInv, Inv, taskVars, callVars
  <1>1. UNCHANGED <<taskVars, alarms, wq, cond, at, deadline>>
    BY DEF Tick, Idle
  <1>2. now' \in Time /\ now' >= now
    BY NowNat, SMTT(60) DEF Tick, Idle, TypeOK, Time
  <1>3. TypeOK' /\ Queued'
    BY <1>1, <1>2 DEF TypeOK, Queued
  <1>4. Called'
    BY <1>1, CalledSame
  <1> QED
    BY <1>1, <1>2, <1>3, <1>4, DispatchIInv DEF Dispatch

\* Spawn, pick_next_task and exit concern tasks that do not block.
LEMMA SchedIInv ==
  ASSUME IInv, UNCHANGED ops,
         \/ \E t \in Task : Spawn(t)
         \/ \E c \in Cpu : Clean(c) \/ \E t \in Task : PickNext(c, t) \/ Exit(c, t)
  PROVE  IInv'
  <1> USE DEF IInv, Inv, localVars, callVars
  <1>1. UNCHANGED localVars /\ now \in Nat
    BY NowNat DEF Spawn, Clean, PickNext, Exit
  <1>2. Called'
    BY <1>1, CalledSame
  <1>3. ASSUME NEW t \in Task, Spawn(t) PROVE Dispatch
    <2> USE <1>3 DEF Spawn, TL!Spawn, TL!SetState
    <2>1. TypeOK'
      BY <1>1, SMTT(60) DEF TypeOK, TL!TaskState
    <2>2. Queued'
      BY SMTT(60) DEF Queued, TypeOK
    <2> QED
      BY <1>1, <2>1, <2>2, SMTT(60) DEF Dispatch, Free, TypeOK
  <1>4. ASSUME NEW c \in Cpu, Clean(c) PROVE Dispatch
    <2> USE <1>4 DEF Clean, TL!ExitClean
    <2>1. TypeOK'
      BY <1>1 DEF TypeOK
    <2>2. Queued'
      BY DEF Queued, TypeOK
    <2> QED
      BY <1>1, <2>1, <2>2, SMTT(60) DEF Dispatch, Free, TypeOK
  <1>5. ASSUME NEW c \in Cpu, NEW t \in Task, PickNext(c, t) PROVE Dispatch
    <2> USE <1>5 DEF PickNext, TL!PickNext, TL!SetState
    <2>0. state[t] = "Runable"
      BY SMTT(60) DEF Queued
    <2>1. TypeOK'
      BY <1>1, SMTT(60) DEF TypeOK, TL!TaskState
    <2>2. Queued'
      BY SMTT(60) DEF Queued, TypeOK
    <2> QED
      BY <1>1, <2>0, <2>1, <2>2, SMTT(60) DEF Dispatch, Free, TypeOK
  <1>6. ASSUME NEW c \in Cpu, NEW t \in Task, Exit(c, t) PROVE Dispatch
    <2> USE <1>6 DEF Exit, TL!SetExited, TL!SetState
    <2>0. state[t] = "Running" /\ current[c] = t
      BY RunningAt DEF Place, Registering, On
    <2>1. TypeOK'
      BY <1>1, <2>0 DEF TypeOK, TL!TaskState
    <2>2. Queued'
      BY <2>0 DEF Queued, TypeOK
    <2> QED
      BY <1>1, <2>0, <2>1, <2>2, SMTT(60) DEF Dispatch, Free, TypeOK
  <1> QED
    BY <1>2, <1>3, <1>4, <1>5, <1>6, DispatchIInv

\* A task that yields goes back to the ready queue.
LEMMA YieldIInv ==
  ASSUME IInv, UNCHANGED ops, NEW c \in Cpu, NEW t \in Task, Yield(c, t)
  PROVE  IInv'
  <1> USE DEF IInv, Inv
  <1>1. /\ state[t] = "Running" /\ current[c] = t /\ at[t] = "idle" /\ TL!PollPending(c)
        /\ at' = [at EXCEPT ![t] = "yielded"] /\ UNCHANGED <<now, alarms, wq, cond, deadline>>
    BY RunningAt DEF Yield, Place, Registering, On, Goto
  <1>2. /\ state' = [state EXCEPT ![t] = "Runable"]
        /\ ready' = [ready EXCEPT ![t] = @ + 1]
        /\ current' = [current EXCEPT ![c] = None]
        /\ UNCHANGED panicked
    BY <1>1 DEF TL!PollPending, TL!PendingRunning, TL!PendingBlocking, TL!PendingWaked, TL!PendingPanic,
                TL!SetState
  <1>3. TypeOK'
    <2>1. /\ state' \in [Task -> TL!TaskState \cup {"New"}] /\ current' \in [Cpu -> Task \cup {None}]
          /\ ready' \in [Task -> Nat]
      BY <1>2, SMTT(60) DEF TypeOK, TL!TaskState
    <2>2. at' \in [Task -> Place]
      BY <1>1 DEF TypeOK, Place
    <2> QED
      BY <1>1, <1>2, <2>1, <2>2 DEF TypeOK
  <1>4. Queued'
    BY <1>1, <1>2, SMTT(60) DEF TypeOK, Queued
  <1>5. Dispatch
    <2>1. \A s \in Task : s # t => state'[s] = state[s] /\ at'[s] = at[s]
      BY <1>1, <1>2 DEF TypeOK
    <2>2. state'[t] = "Runable" /\ at'[t] = "yielded"
      BY <1>1, <1>2 DEF TypeOK
    <2>3. now' >= now
      BY SMTT(60), <1>1, NowNat
    <2> QED
      BY <1>1, <1>2, <1>3, <1>4, <2>1, <2>2, <2>3 DEF Dispatch, Free
  <1>6. Called'
    BY <1>1, CalledStep DEF Place, SleepPlace, WaitPlace
  <1> QED
    BY <1>5, <1>6, DispatchIInv

----------------------------------------------------------------------------
(* Registering.                                                            *)

\* set_alarm_wakeup and prepare_to_wait make the task Blocking.
LEMMA BlockingIInv ==
  ASSUME IInv, UNCHANGED ops, NEW c \in Cpu, NEW t \in Task,
         SleepBlocking(c, t) \/ WaitBlocking(c, t) \/ PrepareToWait(c, t)
  PROVE  IInv'
  <1> USE DEF IInv, Inv
  <1>1. PICK l \in {"sleep_set", "alarm_set", "alarm"} :
          /\ at' = [at EXCEPT ![t] = l]
          /\ \/ l = "sleep_set" /\ at[t] = "sleep" /\ UNCHANGED wq
             \/ l = "alarm_set" /\ at[t] = "alarm" /\ UNCHANGED wq
             \/ l = "alarm" /\ at[t] = "prepare" /\ wq' = Append(wq, t)
    BY DEF SleepBlocking, WaitBlocking, PrepareToWait, AlarmBlocking, Goto, On
  <1>2. /\ state[t] \in TL!OnCpu /\ state' = [state EXCEPT ![t] = "Blocking"]
        /\ UNCHANGED <<ready, current, panicked, now, alarms, cond, deadline>>
    BY DEF SleepBlocking, WaitBlocking, PrepareToWait, AlarmBlocking, On, TL!SetBlocking, TL!SetState, callVars
  <1>3. /\ wq' \in Seq(Task) /\ \A s \in Task : InWq(s) => InWq(s)'
        /\ l = "alarm" => InWq(t)'
    BY <1>1, AppendWq, SameWq DEF TypeOK
  <1>4. /\ \A s \in Task : s # t => state'[s] = state[s] /\ at'[s] = at[s]
        /\ state'[t] = "Blocking" /\ at'[t] = l
    BY <1>1, <1>2 DEF TypeOK
  <1>5. TypeOK'
    BY <1>1, <1>2, <1>3 DEF TypeOK, TL!TaskState, Place, SleepPlace, WaitPlace
  <1>6. Queued'
    BY <1>2, <1>4 DEF Queued, TL!OnCpu
  <1>7. Blocks'
    BY <1>4 DEF Blocks, Registering
  <1>8. Wakeable'
    <2> SUFFICES ASSUME NEW s \in Task, state'[s] \in {"Blocking", "Blocked"} PROVE OnList(s)'
      BY WakeableIs
    <2>1. CASE s = t
      BY <1>3, <1>4, <2>1 DEF OnList
    <2>2. CASE s # t
      <3>1. OnList(s)
        BY <1>4, <2>2, WakeableIs
      <3>2. HasAlarm(s)' = HasAlarm(s)
        BY <1>2, SameAlarm
      <3> QED
        BY <1>3, <1>4, <2>2, <3>1, <3>2 DEF OnList
    <2> QED
      BY <2>1, <2>2
  <1>9. Called'
    <2>1. l \in Place /\ (l \in SleepPlace => at[t] \in SleepPlace) /\ l # "notify"
      BY <1>1 DEF Place, SleepPlace, WaitPlace
    <2>2. ops \subseteq {"sleep", "yield"} => wq' = wq /\ (l \in WaitPlace \cup {"notify"} => at[t] \in WaitPlace)
      BY <1>1 DEF Called, SleepPlace, WaitPlace
    <2> QED
      BY <1>1, <2>1, <2>2, CalledStep
  <1>10. ASSUME Alarmed PROVE Alarmed'
    <2>1. ~Armed(t) /\ ~Armed(t)'
      BY <1>1, <1>2, <1>4 DEF Armed, TL!OnCpu
    <2>2. \A s \in Task : Armed(s)' = Armed(s)
      BY <1>4, <2>1 DEF Armed
    <2>3. \A s \in Task, d \in Time : alarms'[s][d] = IF Armed(s)' /\ d = deadline'[s] THEN 1 ELSE 0
      BY <1>2, <1>10, <2>2 DEF Alarmed
    <2>4. \A s \in Task : /\ at'[s] \in {"sleep_set", "alarm", "alarm_set"} => state'[s] = "Blocking"
                          /\ \/ at'[s] = "sleep_done" /\ state'[s] # "Blocked"
                             \/ at'[s] = "sleep_pending" /\ state'[s] # "Blocking"
                             => now' >= deadline'[s]
      BY <1>1, <1>2, <1>4, <1>10 DEF Alarmed
    <2> QED
      BY <1>2, <1>10, <2>3, <2>4 DEF Alarmed
  <1> QED
    BY <1>5, <1>6, <1>7, <1>8, <1>9, <1>10

\* set_alarm_wakeup adds the event.
LEMMA SetFact ==
  ASSUME Inv, NEW c \in Cpu, NEW t \in Task, NEW from, NEW to, AlarmSet(c, t, from, to)
  PROVE  /\ alarms' \in [Task -> [Time -> Nat]]
         /\ \A s \in Task, d \in Time :
              alarms'[s][d] = IF s = t /\ d = deadline[t] THEN alarms[s][d] + 1 ELSE alarms[s][d]
         /\ \A s \in Task : s = t \/ HasAlarm(s) => HasAlarm(s)'
  <1>1. alarms \in [Task -> [Time -> Nat]] /\ deadline[t] \in Time
    BY DEF Inv, TypeOK
  <1>2. alarms' = [alarms EXCEPT ![t][deadline[t]] = @ + 1]
    BY DEF AlarmSet
  <1>3. /\ alarms' \in [Task -> [Time -> Nat]]
        /\ \A s \in Task, d \in Time :
             alarms'[s][d] = IF s = t /\ d = deadline[t] THEN alarms[s][d] + 1 ELSE alarms[s][d]
    BY SMTT(60), <1>1, <1>2
  <1>4. \A s \in Task : s = t \/ HasAlarm(s) => HasAlarm(s)'
    BY <1>1, <1>3, SMTT(60) DEF HasAlarm
  <1> QED
    BY <1>3, <1>4

\* set_alarm_wakeup puts the event into the list, before the task leaves its CPU.
LEMMA SetIInv ==
  ASSUME IInv, UNCHANGED ops, NEW c \in Cpu, NEW t \in Task, SleepSet(c, t) \/ WaitSet(c, t)
  PROVE  IInv'
  <1> USE DEF IInv, Inv
  <1>1. PICK from \in {"sleep_set", "alarm_set"}, to \in {"sleep_pending", "pending"} :
          /\ AlarmSet(c, t, from, to)
          /\ from = "sleep_set" <=> to = "sleep_pending"
    BY DEF SleepSet, WaitSet
  <1>2. /\ at[t] = from /\ at' = [at EXCEPT ![t] = to]
        /\ UNCHANGED <<state, ready, current, panicked, now, wq, cond, deadline>>
    BY <1>1 DEF AlarmSet, On, Goto, taskVars, callVars
  <1>3. \A s \in Task : at'[s] = IF s = t THEN to ELSE at[s]
    BY <1>2 DEF TypeOK
  <1>4. /\ alarms' \in [Task -> [Time -> Nat]]
        /\ \A s \in Task, d \in Time :
             alarms'[s][d] = IF s = t /\ d = deadline[t] THEN alarms[s][d] + 1 ELSE alarms[s][d]
        /\ \A s \in Task : s = t \/ HasAlarm(s) => HasAlarm(s)'
    BY <1>1, SetFact
  <1>5. TypeOK'
    BY <1>2, <1>4 DEF TypeOK, Place, SleepPlace, WaitPlace
  <1>6. Queued'
    BY <1>2 DEF Queued
  <1>7. Blocks'
    BY <1>2, <1>3 DEF Blocks, Registering
  <1>8. Wakeable'
    <2> SUFFICES ASSUME NEW s \in Task, state[s] \in {"Blocking", "Blocked"} PROVE OnList(s)'
      BY <1>2, WakeableIs
    <2>1. CASE s = t
      BY <1>4, <2>1 DEF OnList
    <2>2. CASE s # t
      <3>1. OnList(s)
        BY <2>2, WakeableIs
      <3> QED
        BY <1>2, <1>3, <1>4, <2>2, <3>1, SameWq DEF OnList
    <2> QED
      BY <2>1, <2>2
  <1>9. Called'
    BY <1>1, <1>2, CalledStep DEF Place, SleepPlace, WaitPlace
  <1>10. ASSUME Alarmed PROVE Alarmed'
    <2>1. ~Armed(t) /\ Armed(t)' /\ \A s \in Task : s # t => Armed(s)' = Armed(s)
      BY <1>2, <1>3, <1>10 DEF Armed, Alarmed
    <2>2. \A s \in Task, d \in Time : alarms'[s][d] = IF Armed(s)' /\ d = deadline'[s] THEN 1 ELSE 0
      BY <1>2, <1>4, <1>10, <2>1, SMTT(60) DEF Alarmed
    <2>3. \A s \in Task : /\ at'[s] \in {"sleep_set", "alarm", "alarm_set"} => state'[s] = "Blocking"
                          /\ \/ at'[s] = "sleep_done" /\ state'[s] # "Blocked"
                             \/ at'[s] = "sleep_pending" /\ state'[s] # "Blocking"
                             => now' >= deadline'[s]
      BY <1>2, <1>3, <1>10, SMTT(60) DEF Alarmed
    <2> QED
      BY <1>2, <1>10, <2>2, <2>3 DEF Alarmed
  <1> QED
    BY <1>5, <1>6, <1>7, <1>8, <1>9, <1>10

----------------------------------------------------------------------------
(* Leaving the CPU.                                                        *)

\* Poll::Pending: a Blocking task gets Blocked, a Waked one goes back to the ready queue.
LEMMA PendingIInv ==
  ASSUME IInv, UNCHANGED ops, NEW c \in Cpu, NEW t \in Task, Pending(c, t)
  PROVE  IInv'
  <1> USE DEF IInv, Inv
  <1>1. PICK from \in {"sleep_pending", "pending"}, to \in {"sleep_done", "poll", "again"} :
          /\ at[t] = from /\ at' = [at EXCEPT ![t] = to]
          /\ from = "sleep_pending" <=> to = "sleep_done"
    BY DEF Pending, On, Goto
  <1>2. /\ current[c] = t /\ state[t] \in {"Blocking", "Waked"} /\ TL!PollPending(c)
        /\ UNCHANGED <<now, alarms, wq, cond, deadline>>
    BY <1>1 DEF Pending, On, Blocks, Registering, callVars
  <1>3. /\ state' = [state EXCEPT ![t] = IF state[t] = "Blocking" THEN "Blocked" ELSE "Running"]
        /\ UNCHANGED <<ready, panicked>>
        /\ current' \in [Cpu -> Task \cup {None}]
    <2> USE <1>2 DEF TL!PollPending, TL!PendingRunning, TL!PendingBlocking, TL!PendingWaked,
                     TL!PendingPanic, TL!SetState
    <2>1. CASE state[t] = "Blocking"
      BY <2>1 DEF TypeOK
    <2>2. CASE state[t] = "Waked"
      BY <2>2 DEF TypeOK
    <2> QED
      BY <2>1, <2>2
  <1>4. /\ \A s \in Task : s # t => state'[s] = state[s] /\ at'[s] = at[s]
        /\ at'[t] = to
        /\ \/ state[t] = "Blocking" /\ state'[t] = "Blocked"
           \/ state[t] = "Waked" /\ state'[t] = "Running"
    BY <1>1, <1>2, <1>3 DEF TypeOK
  <1>5. TypeOK'
    <2>1. state' \in [Task -> TL!TaskState \cup {"New"}]
      BY <1>3 DEF TypeOK, TL!TaskState
    <2>2. at' \in [Task -> Place]
      BY <1>1 DEF TypeOK, Place, SleepPlace, WaitPlace
    <2> QED
      BY <1>2, <1>3, <2>1, <2>2 DEF TypeOK
  <1>6. Queued'
    BY <1>3, <1>4 DEF Queued
  <1>7. Blocks'
    BY <1>4 DEF Blocks, Registering
  <1>8. Wakeable'
    <2> SUFFICES ASSUME NEW s \in Task, state'[s] \in {"Blocking", "Blocked"} PROVE OnList(s)'
      BY WakeableIs
    <2>1. OnList(s)
      BY <1>4, WakeableIs
    <2>2. HasAlarm(s)' = HasAlarm(s) /\ InWq(s)' = InWq(s)
      BY <1>2, SameAlarm, SameWq
    <2> QED
      BY <1>1, <1>4, <2>1, <2>2 DEF OnList
  <1>9. Called'
    BY <1>1, <1>2, CalledStep DEF Place, SleepPlace, WaitPlace
  <1>10. ASSUME Alarmed PROVE Alarmed'
    <2>1. \A s \in Task : Armed(s)' = Armed(s)
      BY <1>1, <1>4 DEF Armed
    <2>2. \A s \in Task, d \in Time : alarms'[s][d] = IF Armed(s)' /\ d = deadline'[s] THEN 1 ELSE 0
      BY <1>2, <1>10, <2>1, SMTT(60) DEF Alarmed
    <2>3. \A s \in Task : /\ at'[s] \in {"sleep_set", "alarm", "alarm_set"} => state'[s] = "Blocking"
                          /\ \/ at'[s] = "sleep_done" /\ state'[s] # "Blocked"
                             \/ at'[s] = "sleep_pending" /\ state'[s] # "Blocking"
                             => now' >= deadline'[s]
      BY <1>1, <1>2, <1>4, <1>10, SMTT(60) DEF Alarmed
    <2> QED
      BY <1>2, <1>3, <1>10, <2>2, <2>3 DEF Alarmed
  <1> QED
    BY <1>5, <1>6, <1>7, <1>8, <1>9, <1>10

----------------------------------------------------------------------------
(* Waking.                                                                 *)

\* wakeup_task(h), with h taken off a list: the other tasks stay on theirs.
LEMMA WakeInv ==
  ASSUME Inv, NEW h \in Task, TL!wakeup_task(h), TypeOK',
         \A s \in Task : at'[s] = at[s] \/ (at[s] = "notify" /\ at'[s] = "idle"),
         \A s \in Task : s # h => (InWq(s) => InWq(s)') /\ (HasAlarm(s) => HasAlarm(s)')
  PROVE  Inv'
  <1> USE DEF Inv
  <1>1. \/ UNCHANGED <<state, ready>> /\ state[h] \notin {"Blocking", "Blocked"}
        \/ state[h] = "Blocking" /\ state' = [state EXCEPT ![h] = "Waked"] /\ UNCHANGED ready
        \/ /\ state[h] = "Blocked" /\ state' = [state EXCEPT ![h] = "Runable"]
           /\ ready' = [ready EXCEPT ![h] = @ + 1]
    BY DEF TL!wakeup_task, TL!SetState
  <1>2. /\ \A s \in Task : s # h => state'[s] = state[s] /\ ready'[s] = ready[s]
        /\ \/ state'[h] = state[h] /\ state[h] \notin {"Blocking", "Blocked"} /\ ready'[h] = ready[h]
           \/ state[h] = "Blocking" /\ state'[h] = "Waked" /\ ready'[h] = ready[h]
           \/ state[h] = "Blocked" /\ state'[h] = "Runable" /\ ready'[h] = ready[h] + 1
    BY <1>1 DEF TypeOK
  <1>3. Queued'
    BY <1>2, SMTT(60) DEF Queued
  <1>4. Blocks'
    BY <1>2 DEF Blocks, Registering
  <1>5. Wakeable'
    <2> SUFFICES ASSUME NEW s \in Task, state'[s] \in {"Blocking", "Blocked"} PROVE OnList(s)'
      BY WakeableIs
    <2>1. s # h /\ OnList(s)
      BY <1>2, WakeableIs
    <2> QED
      BY <2>1 DEF OnList
  <1> QED
    BY <1>3, <1>4, <1>5

\* wakeup_task changes the state and the ready queue only.
LEMMA WakeType ==
  ASSUME TypeOK, NEW h \in Task, TL!wakeup_task(h)
  PROVE  /\ state' \in [Task -> TL!TaskState \cup {"New"}]
         /\ ready' \in [Task -> Nat]
         /\ current' \in [Cpu -> Task \cup {None}]
         /\ panicked' \in BOOLEAN
  <1>1. state' \in [Task -> TL!TaskState \cup {"New"}] /\ ready' \in [Task -> Nat]
        /\ current' \in [Cpu -> Task \cup {None}]
    <2>1. UNCHANGED current /\ (UNCHANGED ready \/ ready' = [ready EXCEPT ![h] = @ + 1])
      BY DEF TL!wakeup_task
    <2>2. UNCHANGED state \/ (\E v \in TL!TaskState : state' = [state EXCEPT ![h] = v])
      BY DEF TL!wakeup_task, TL!SetState, TL!TaskState
    <2>3. state' \in [Task -> TL!TaskState \cup {"New"}]
      BY <2>2 DEF TypeOK
    <2>4. ready' \in [Task -> Nat]
      <3>1. ready \in [Task -> Nat]
        BY DEF TypeOK
      <3> QED
        BY SMTT(60), <2>1, <3>1
    <2> QED
      BY <2>1, <2>3, <2>4 DEF TypeOK
  <1>2. panicked' \in BOOLEAN
    BY DEF TypeOK, TL!wakeup_task
  <1> QED
    BY <1>1, <1>2

\* notify_one wakes the first task of the wait queue.
LEMMA NotifyIInv ==
  ASSUME IInv, UNCHANGED ops, NEW c \in Cpu, NEW t \in Task, NotifyOne(c, t), wq # <<>>
  PROVE  IInv'
  <1> USE DEF IInv
  <1>1. TypeOK /\ at[t] = "notify" /\ "notify" \in ops
    BY DEF Inv, NotifyOne, On, Called
  <1>2. /\ wq' = Tail(wq) /\ TL!wakeup_task(Head(wq))
        /\ at' = [at EXCEPT ![t] = "idle"]
        /\ UNCHANGED <<now, alarms, cond, deadline>>
    BY DEF NotifyOne, Goto, callVars
  <1>3. /\ wq' \in Seq(Task) /\ Head(wq) \in Task
        /\ \A u \in Task : u # Head(wq) => (InWq(u) => InWq(u)')
    BY <1>1, <1>2, TailWq DEF TypeOK
  <1>4. TypeOK'
    <2>1. at' \in [Task -> Place]
      BY <1>1, <1>2 DEF TypeOK, Place
    <2> QED
      BY <1>1, <1>2, <1>3, <2>1, WakeType DEF TypeOK
  <1>5. \A s \in Task : HasAlarm(s)' = HasAlarm(s)
    BY <1>2, SameAlarm
  <1>6. \A s \in Task : at'[s] = at[s] \/ (at[s] = "notify" /\ at'[s] = "idle")
    BY <1>1, <1>2 DEF TypeOK
  <1>7. Inv'
    BY <1>2, <1>3, <1>4, <1>5, <1>6, WakeInv
  <1>8. Called'
    <2>1. ~(ops \subseteq {"sleep", "yield"})
      BY <1>1
    <2> QED
      BY <1>1, <1>2, <2>1, CalledStep DEF Place, SleepPlace, WaitPlace
  <1> QED
    BY <1>1, <1>7, <1>8

\* check_events: the event is that of a task that blocks, at its deadline, and its only one.
LEMMA ExpireFact ==
  ASSUME Inv, NEW c \in Cpu, NEW t \in Task, NEW d \in Time, Expire(c, t, d)
  PROVE  /\ alarms' \in [Task -> [Time -> Nat]]
         /\ \A s \in Task, e \in Time :
              alarms'[s][e] = IF s = t /\ e = d THEN alarms[s][e] - 1 ELSE alarms[s][e]
         /\ \A s \in Task : s # t => HasAlarm(s)' = HasAlarm(s)
         /\ alarms[t][d] > 0 /\ alarms[t][d] \in Nat
  <1>1. alarms \in [Task -> [Time -> Nat]] /\ alarms[t][d] > 0 /\ alarms[t][d] \in Nat
    BY DEF Inv, TypeOK, Expire, First
  <1>2. alarms' = [alarms EXCEPT ![t][d] = @ - 1]
    BY DEF Expire
  <1>3. /\ alarms' \in [Task -> [Time -> Nat]]
        /\ \A s \in Task, e \in Time :
             alarms'[s][e] = IF s = t /\ e = d THEN alarms[s][e] - 1 ELSE alarms[s][e]
    BY SMTT(60), <1>1, <1>2
  <1>4. \A s \in Task : s # t => HasAlarm(s)' = HasAlarm(s)
    BY <1>3, SameAlarm
  <1> QED
    BY <1>1, <1>3, <1>4

\* The timer interrupt takes an event that is due off the list and wakes its task.
LEMMA ExpireIInv ==
  ASSUME IInv, UNCHANGED ops, NEW c \in Cpu, NEW t \in Task, NEW d \in Time, Expire(c, t, d)
  PROVE  IInv'
  <1> USE DEF IInv
  <1>1. /\ TypeOK /\ d <= now /\ TL!wakeup_task(t)
        /\ UNCHANGED <<now, wq, cond, at, deadline>>
    BY DEF Inv, Expire, callVars
  <1>2. /\ alarms' \in [Task -> [Time -> Nat]]
        /\ \A s \in Task, e \in Time :
             alarms'[s][e] = IF s = t /\ e = d THEN alarms[s][e] - 1 ELSE alarms[s][e]
        /\ \A s \in Task : s # t => HasAlarm(s)' = HasAlarm(s)
        /\ alarms[t][d] > 0 /\ alarms[t][d] \in Nat
    BY ExpireFact
  <1>3. TypeOK'
    BY <1>1, <1>2, WakeType DEF TypeOK
  <1>4. Inv'
    BY <1>1, <1>2, <1>3, WakeInv, SameWq
  <1>5. Called'
    BY <1>1, CalledSame
  <1>6. ASSUME Alarmed PROVE Alarmed'
    <2>1. Armed(t) /\ d = deadline[t] /\ alarms[t][d] = 1
      BY <1>2, <1>6, SMTT(60) DEF Alarmed
    <2>2. /\ \A s \in Task : s # t => state'[s] = state[s]
          /\ \/ state[t] = "Blocking" /\ state'[t] = "Waked"
             \/ state[t] = "Blocked" /\ state'[t] = "Runable"
          /\ UNCHANGED panicked
      BY <1>1, <2>1 DEF Armed, TL!wakeup_task, TL!SetState, TypeOK
    <2>3. ~Armed(t)' /\ \A s \in Task : s # t => Armed(s)' = Armed(s)
      BY <1>1, <2>2 DEF Armed
    <2>4. \A s \in Task, e \in Time : alarms'[s][e] = IF Armed(s)' /\ e = deadline'[s] THEN 1 ELSE 0
      BY <1>1, <1>2, <1>6, <2>1, <2>3, SMTT(60) DEF Alarmed
    <2>5. \A s \in Task : /\ at'[s] \in {"sleep_set", "alarm", "alarm_set"} => state'[s] = "Blocking"
                          /\ \/ at'[s] = "sleep_done" /\ state'[s] # "Blocked"
                             \/ at'[s] = "sleep_pending" /\ state'[s] # "Blocking"
                             => now' >= deadline'[s]
      <3> TAKE s \in Task
      <3>1. CASE s = t
        <4>1. now >= deadline[t]
          BY <1>1, <2>1, BoundAssumption DEF TypeOK, Time
        <4>2. at[t] \notin {"sleep_set", "alarm", "alarm_set"}
          BY <2>1 DEF Armed, Inv, Blocks
        <4> QED
          BY <1>1, <3>1, <4>1, <4>2
      <3>2. CASE s # t
        BY <1>1, <1>6, <2>2, <3>2 DEF Alarmed
      <3> QED
        BY <3>1, <3>2
    <2> QED
      BY <1>1, <1>6, <2>2, <2>4, <2>5 DEF Alarmed
  <1> QED
    BY <1>4, <1>5, <1>6

----------------------------------------------------------------------------
(* The invariant, and what it implies.                                     *)

\* The invariant holds at first: nothing is in a list.
LEMMA InitIInv == Init => IInv
  <1> SUFFICES ASSUME Init PROVE IInv
    OBVIOUS
  <1> USE DEF Init
  <1>1. TypeOK
    <2>1. panicked \in BOOLEAN /\ cond \in BOOLEAN
      OBVIOUS
    <2>2. 0 \in Time
      BY BoundAssumption, SMTT(60) DEF Time
    <2>3. wq \in Seq(Task)
      BY SMTT(60)
    <2>4. alarms \in [Task -> [Time -> Nat]]
      OBVIOUS
    <2> QED
      BY <2>1, <2>2, <2>3, <2>4 DEF TypeOK, Place
  <1>2. Queued /\ Blocks /\ Called
    BY DEF Queued, Blocks, Called, Registering, SleepPlace
  <1>3. Wakeable
    BY WakeableIs
  <1>4. Alarmed
    BY DEF Alarmed, Armed
  <1> QED
    BY <1>1, <1>2, <1>3, <1>4 DEF IInv, Inv

\* It holds while nothing happens.
LEMMA SameIInv == ASSUME IInv, UNCHANGED vars PROVE IInv'
  <1>1. UNCHANGED <<ops, at, wq>>
    BY DEF vars, localVars
  <1>2. Called'
    BY <1>1, CalledSame DEF IInv
  <1>3. TypeOK' /\ Queued'
    BY DEF vars, taskVars, localVars, callVars, IInv, Inv, TypeOK, Queued
  <1>4. Dispatch
    BY <1>3, NowNat, SMTT(60) DEF vars, taskVars, localVars, callVars, Dispatch, IInv, Inv
  <1> QED
    BY <1>1, <1>2, <1>4, DispatchIInv

\* Every step keeps the invariant.
LEMMA NextIInv == IInv /\ [Next]_vars => IInv'
  <1> SUFFICES ASSUME IInv, [Next]_vars PROVE IInv'
    OBVIOUS
  <1>1. CASE UNCHANGED vars
    BY <1>1, SameIInv
  <1>2. CASE UNCHANGED ops /\ (Tick \/ \E c \in Cpu : Idle(c))
    BY <1>2, TickIInv
  <1>3. CASE /\ UNCHANGED ops
             /\ \/ \E t \in Task : Spawn(t)
                \/ \E c \in Cpu : Clean(c) \/ \E t \in Task : PickNext(c, t) \/ Exit(c, t)
    BY <1>3, SchedIInv
  <1>4. ASSUME NEW c \in Cpu, NEW t \in Task, UNCHANGED ops, Proceed(c, t) PROVE IInv'
    <2>1. CASE SleepBlocking(c, t) \/ WaitBlocking(c, t) \/ PrepareToWait(c, t)
      BY <1>4, <2>1, BlockingIInv
    <2>2. CASE SleepSet(c, t) \/ WaitSet(c, t)
      BY <1>4, <2>2, SetIInv
    <2>3. CASE Pending(c, t)
      BY <1>4, <2>3, PendingIInv
    <2>4. CASE NotifyOne(c, t) /\ wq # <<>>
      BY <1>4, <2>4, NotifyIInv
    <2>5. CASE \/ SleepReady(c, t) \/ PollAgain(c, t) \/ PollCond(c, t) \/ PollOver(c, t)
               \/ PollNotYet(c, t) \/ YieldReady(c, t) \/ (NotifyOne(c, t) /\ wq = <<>>)
      BY <1>4, <2>5, CodeStep, CodeIInv
    <2> QED
      BY <1>4, <2>1, <2>2, <2>3, <2>4, <2>5 DEF Proceed
  <1>5. ASSUME NEW c \in Cpu, NEW t \in Task, UNCHANGED ops, Call(c, t) PROVE IInv'
    <2>1. CASE Yield(c, t)
      BY <1>5, <2>1, YieldIInv
    <2>2. CASE Exit(c, t)
      BY <1>5, <2>2, SchedIInv
    <2>3. CASE \/ \E d \in Time : Sleep(c, t, d) \/ \E k \in Timed : WaitTimed(c, t, k, d)
               \/ \E b \in BOOLEAN : SetCond(c, t, b)
      BY <1>5, <2>3, CodeStep, CodeIInv
    <2> QED
      BY <1>5, <2>1, <2>2, <2>3 DEF Call
  <1>6. ASSUME NEW c \in Cpu, NEW t \in Task, NEW d \in Time, UNCHANGED ops, Expire(c, t, d) PROVE IInv'
    BY <1>6, ExpireIInv
  <1> QED
    BY <1>1, <1>2, <1>3, <1>4, <1>5, <1>6 DEF Next

\* Whatever calls the tasks make, however the clock, notifications and the task's own registering
\* interleave, a task that has left its CPU is on a list that can still wake it.
THEOREM TimedWakeable == Spec => []Wakeable
  BY InitIInv, NextIInv, PTL DEF Spec, IInv, Inv

\* No program both sleeps and has its waits ended by a condition.
Apart == \A p \in Programs : ~({"sleep", "notify"} \subseteq p)

ApartOps == ~({"sleep", "notify"} \subseteq ops)

\* The invariant gives OneAlarm unless a program both sleeps and notifies.
LEMMA InvOneAlarm == IInv /\ ApartOps => OneAlarm
  <1> SUFFICES ASSUME IInv, ApartOps PROVE OneAlarm
    OBVIOUS
  <1>1. CASE "notify" \notin ops
    <2>1. Alarmed /\ Blocks
      BY <1>1 DEF IInv, Inv
    <2>2. ASSUME NEW t \in Task, at[t] = "idle" PROVE ~HasAlarm(t)
      <3>1. ~Armed(t)
        BY <2>1, <2>2 DEF Armed, Blocks, Registering
      <3> QED
        BY <2>1, <3>1, SMTT(60) DEF Alarmed, HasAlarm
    <2> QED
      BY <2>1, <2>2 DEF OneAlarm, Alarmed, Armed
  <1>2. CASE "notify" \in ops
    <2>1. \A t \in Task : at[t] \notin SleepPlace
      BY <1>2 DEF ApartOps, IInv, Called
    <2> QED
      BY <1>2, <2>1 DEF OneAlarm, SleepPlace
  <1> QED
    BY <1>1, <1>2

\* The calls that are made are those of one program,
LEMMA InitApart == ASSUME Apart PROVE Init => ApartOps
  BY DEF Apart, Init, ApartOps

\* and stay those.
LEMMA NextApart == ApartOps /\ [Next]_vars => ApartOps'
  BY DEF ApartOps, Next, vars

\* When the clock alone wakes the tasks that sleep, a task that sleeps has exactly one event in the timer
\* list, at its deadline, and the timer interrupt never wakes a task that wakeup_task refuses.
THEOREM SleepersHaveOneAlarm == ASSUME Apart PROVE Spec => []OneAlarm
  BY InitIInv, NextIInv, InvOneAlarm, InitApart, NextApart, PTL DEF Spec

\* A sleep returns only at its deadline or later.
LEMMA StepSleepsEnough ==
  ASSUME IInv, ApartOps, [Next]_vars
  PROVE  [\A c \in Cpu, t \in Task : SleepReady(c, t) => now >= deadline[t]]_vars
  <1> SUFFICES ASSUME NEW c \in Cpu, NEW t \in Task, SleepReady(c, t) PROVE now >= deadline[t]
    OBVIOUS
  <1>1. at[t] = "sleep_done" /\ state[t] # "Blocked"
    BY DEF SleepReady, On, TL!OnCpu
  <1>2. "notify" \notin ops
    BY <1>1 DEF ApartOps, IInv, Called, SleepPlace
  <1> QED
    BY <1>1, <1>2 DEF IInv, Alarmed

\* Under the same condition sleep never returns before its deadline, on whichever CPU it was called and
\* whichever CPU took the timer interrupt.
THEOREM SleepLasts == ASSUME Apart PROVE Spec => SleepsEnough
  BY InitIInv, NextIInv, InitApart, NextApart, StepSleepsEnough, PTL DEF Spec, SleepsEnough

----------------------------------------------------------------------------
(* Sleeping implements the task layer.                                     *)

OnlySleep == ops \subseteq {"sleep", "yield"}

\* The wakers of the task layer when the wait queue is not used.
LEMMA SleepWakers ==
  ASSUME IInv, IInv', OnlySleep, UNCHANGED ops
  PROVE  \A s \in Task :
           /\ wakersOf(s) = IF HasAlarm(s) \/ at[s] = "sleep_set" THEN {"alarm"} ELSE {}
           /\ wakersOf(s)' = IF HasAlarm(s)' \/ at'[s] = "sleep_set" THEN {"alarm"} ELSE {}
           /\ at[s] \in {"idle", "yielded"} \cup SleepPlace
           /\ HasAlarm(s) <=> Armed(s)
           /\ HasAlarm(s)' <=> Armed(s)'
  <1>1. /\ wq = <<>> /\ \A s \in Task : at[s] \in {"idle", "yielded"} \cup SleepPlace
        /\ wq' = <<>> /\ \A s \in Task : at'[s] \in {"idle", "yielded"} \cup SleepPlace
    BY DEF OnlySleep, IInv, Called
  <1>2. \A s \in Task : ~InWq(s) /\ ~InWq(s)'
    BY <1>1, SMTT(60) DEF InWq
  <1>3. Alarmed /\ Alarmed' /\ TypeOK /\ TypeOK'
    BY DEF OnlySleep, IInv, Inv
  <1>4. \A s \in Task : (HasAlarm(s) <=> Armed(s)) /\ (HasAlarm(s)' <=> Armed(s)')
    <2>1. \A s \in Task : HasAlarm(s) <=> Armed(s)
      BY <1>3, SMTT(60) DEF Alarmed, HasAlarm, TypeOK
    <2>2. \A s \in Task : HasAlarm(s)' <=> Armed(s)'
      BY <1>3, SMTT(60) DEF Alarmed, HasAlarm, TypeOK
    <2> QED
      BY <2>1, <2>2
  <1>5. \A s \in Task : wakersOf(s) = IF HasAlarm(s) \/ at[s] = "sleep_set" THEN {"alarm"} ELSE {}
    BY <1>1, <1>2 DEF wakersOf, SleepPlace
  <1>6. \A s \in Task : wakersOf(s)' = IF HasAlarm(s)' \/ at'[s] = "sleep_set" THEN {"alarm"} ELSE {}
    BY <1>1, <1>2 DEF wakersOf, SleepPlace
  <1> QED
    BY <1>1, <1>4, <1>5, <1>6

\* Steps that change neither the task layer nor a task's place at the alarm.
LEMMA SleepCode ==
  ASSUME IInv, IInv', OnlySleep, UNCHANGED ops, UNCHANGED taskVars,
         \A s \in Task : \/ at'[s] = at[s]
                         \/ {at[s], at'[s]} \cap {"sleep_set", "sleep_pending", "pending"} = {}
                         \/ at[s] = "sleep_set" /\ at'[s] = "sleep_pending"
  PROVE  UNCHANGED TL!vars
  <1>1. \A s \in Task : wakersOf(s)' = wakersOf(s)
    <2> TAKE s \in Task
    <2>1. /\ at[s] = "sleep_set" => state[s] = "Blocking"
          /\ UNCHANGED state
      BY DEF IInv, OnlySleep, Alarmed, taskVars
    <2> QED
      BY <2>1, SleepWakers DEF Armed
  <1>2. UNCHANGED [s \in Task |-> wakersOf(s)]
    BY <1>1
  <1> QED
    BY <1>2 DEF TL!vars, taskVars

\* Operations of the task layer that register nothing.
LEMMA SleepTask ==
  ASSUME IInv, IInv', OnlySleep, UNCHANGED ops, ~panicked,
         \/ \E t \in Task : Spawn(t)
         \/ \E c \in Cpu : \/ Clean(c)
                           \/ \E t \in Task : \/ PickNext(c, t) \/ Exit(c, t) \/ Yield(c, t)
                                              \/ Pending(c, t)
  PROVE  TL!Next
  <1>1. UNCHANGED alarms
    BY DEF Spawn, Clean, PickNext, Exit, Yield, Pending, localVars
  <1>2. \A s \in Task : HasAlarm(s)' = HasAlarm(s)
    BY <1>1, SameAlarm
  <1>3. \A s \in Task : at[s] = "sleep_set" <=> at'[s] = "sleep_set"
    <2>1. TypeOK
      BY DEF IInv, Inv
    <2> QED
      BY <2>1, SMTT(60) DEF Spawn, Clean, PickNext, Exit, Yield, Pending, localVars, On, Goto, TypeOK
  <1>4. \A s \in Task : wakersOf(s)' = wakersOf(s)
    BY <1>2, <1>3, SleepWakers
  <1>5. UNCHANGED [s \in Task |-> wakersOf(s)]
    BY <1>4
  <1> QED
    BY <1>5 DEF Spawn, Clean, PickNext, Exit, Yield, Pending, TL!Next, TL!Step

\* To become Blocking and to enter the timer list is Register of the task layer.
LEMMA SleepRegister ==
  ASSUME IInv, IInv', OnlySleep, UNCHANGED ops, ~panicked, NEW c \in Cpu, NEW t \in Task, SleepBlocking(c, t)
  PROVE  TL!Next
  <1> DEFINE w == [s \in Task |-> wakersOf(s)]
  <1>1. /\ at[t] = "sleep" /\ at' = [at EXCEPT ![t] = "sleep_set"] /\ current[c] = t
        /\ state[t] \in TL!OnCpu /\ TL!SetBlocking(t) /\ UNCHANGED alarms
    BY DEF SleepBlocking, AlarmBlocking, On, Goto
  <1>2. state[t] = "Running"
    BY <1>1, RunningAt DEF On, Place, SleepPlace, Registering, IInv
  <1>3. \A s \in Task : HasAlarm(s)' = HasAlarm(s)
    BY <1>1, SameAlarm
  <1>4. \A s \in Task : s # t => wakersOf(s)' = wakersOf(s)
    BY <1>1, <1>3, SleepWakers DEF IInv, Inv, TypeOK
  <1>5. wakersOf(t) = {} /\ wakersOf(t)' = {"alarm"}
    BY <1>1, <1>2, SleepWakers DEF Armed, IInv, Inv, TypeOK
  <1>6. "alarm" \notin w[t] /\ w' = [w EXCEPT ![t] = @ \cup {"alarm"}]
    BY <1>4, <1>5
  <1>7. TL!Register(c, "alarm")
    BY <1>1, <1>6, TaskAssumption DEF TL!Register
  <1> QED
    BY <1>7 DEF TL!Next, TL!Step

\* The timer interrupt is Wake of the task layer.
LEMMA SleepWake ==
  ASSUME IInv, IInv', OnlySleep, UNCHANGED ops, ~panicked,
         NEW c \in Cpu, NEW t \in Task, NEW d \in Time, Expire(c, t, d)
  PROVE  TL!Next
  <1> DEFINE w == [s \in Task |-> wakersOf(s)]
  <1>1. TL!wakeup_task(t) /\ UNCHANGED at
    BY DEF Expire
  <1>2. /\ \A s \in Task : s # t => HasAlarm(s)' = HasAlarm(s)
        /\ HasAlarm(t)
    BY ExpireFact, SMTT(60) DEF IInv, HasAlarm
  <1>3. Armed(t) /\ at[t] # "sleep_set"
    BY <1>2, SleepWakers DEF Armed, IInv, Inv, Blocks
  <1>4. ~Armed(t)'
    BY <1>1, <1>3 DEF Armed, TL!wakeup_task, TL!SetState, IInv, Inv, TypeOK
  <1>5. \A s \in Task : s # t => wakersOf(s)' = wakersOf(s)
    BY <1>1, <1>2, SleepWakers
  <1>6. wakersOf(t) = {"alarm"} /\ wakersOf(t)' = {}
    BY <1>1, <1>2, <1>3, <1>4, SleepWakers
  <1>7. "alarm" \in w[t] /\ w' = [w EXCEPT ![t] = @ \ {"alarm"}]
    BY <1>5, <1>6
  <1>8. TL!Wake(t, "alarm")
    BY <1>1, <1>7 DEF TL!Wake
  <1> QED
    BY <1>8 DEF TL!Next

\* While only sleep and yield are called, every step is a step of the task layer or leaves it alone.
LEMMA StepUses ==
  ASSUME IInv, IInv', [Next]_vars
  PROVE  [OnlySleep => TL!Next \/ UNCHANGED TL!vars]_vars
  <1> SUFFICES ASSUME Next, OnlySleep PROVE TL!Next \/ UNCHANGED TL!vars
    OBVIOUS
  <1>0. UNCHANGED ops /\ ~panicked /\ TypeOK /\ \A s \in Task : at[s] \in {"idle", "yielded"} \cup SleepPlace
    BY SleepWakers DEF Next, IInv, Inv
  <1>1. CASE Tick \/ \E c \in Cpu : Idle(c)
    BY <1>0, <1>1, SleepCode DEF Tick, Idle
  <1>2. CASE \/ \E t \in Task : Spawn(t)
             \/ \E c \in Cpu : Clean(c) \/ \E t \in Task : PickNext(c, t)
    BY <1>0, <1>2, SleepTask
  <1>3. ASSUME NEW c \in Cpu, NEW t \in Task, Proceed(c, t) PROVE TL!Next \/ UNCHANGED TL!vars
    <2>1. ~(\/ PollAgain(c, t) \/ PollCond(c, t) \/ PollOver(c, t) \/ PollNotYet(c, t)
            \/ PrepareToWait(c, t) \/ WaitBlocking(c, t) \/ WaitSet(c, t) \/ NotifyOne(c, t))
      BY <1>0 DEF PollAgain, PollCond, PollOver, PollNotYet, PrepareToWait, WaitBlocking, WaitSet, NotifyOne,
                  AlarmBlocking, AlarmSet, On, SleepPlace
    <2>2. CASE SleepBlocking(c, t)
      BY <1>0, <2>2, SleepRegister
    <2>3. CASE SleepSet(c, t)
      <3>1. UNCHANGED taskVars /\ at[t] = "sleep_set" /\ at' = [at EXCEPT ![t] = "sleep_pending"]
        BY <2>3 DEF SleepSet, AlarmSet, On, Goto
      <3>2. \A s \in Task : at'[s] = at[s] \/ (at[s] = "sleep_set" /\ at'[s] = "sleep_pending")
        BY <1>0, <3>1 DEF TypeOK
      <3> QED
        BY <1>0, <3>1, <3>2, SleepCode
    <2>4. CASE SleepReady(c, t) \/ YieldReady(c, t)
      <3>1. /\ UNCHANGED taskVars /\ at[t] \in {"sleep_done", "yielded"}
            /\ at' = [at EXCEPT ![t] = "idle"]
        BY <2>4 DEF SleepReady, YieldReady, On, Return, Goto
      <3>2. \A s \in Task : \/ at'[s] = at[s]
                            \/ {at[s], at'[s]} \cap {"sleep_set", "sleep_pending", "pending"} = {}
        BY <1>0, <3>1 DEF TypeOK
      <3> QED
        BY <1>0, <3>1, <3>2, SleepCode
    <2>5. CASE Pending(c, t)
      BY <1>0, <2>5, SleepTask
    <2> QED
      BY <1>3, <2>1, <2>2, <2>3, <2>4, <2>5 DEF Proceed
  <1>4. ASSUME NEW c \in Cpu, NEW t \in Task, Call(c, t) PROVE TL!Next \/ UNCHANGED TL!vars
    <2>1. ~((\E d \in Time, k \in Timed : WaitTimed(c, t, k, d)) \/ \E b \in BOOLEAN : SetCond(c, t, b))
      BY DEF WaitTimed, SetCond, OnlySleep, Timed
    <2>2. ASSUME NEW d \in Time, Sleep(c, t, d) PROVE UNCHANGED TL!vars
      <3>1. UNCHANGED taskVars /\ at[t] = "idle" /\ at' = [at EXCEPT ![t] = "sleep"]
        BY <2>2 DEF Sleep, On, Goto
      <3>2. \A s \in Task : \/ at'[s] = at[s]
                            \/ {at[s], at'[s]} \cap {"sleep_set", "sleep_pending", "pending"} = {}
        BY <1>0, <3>1 DEF TypeOK
      <3> QED
        BY <1>0, <3>1, <3>2, SleepCode
    <2>3. CASE Yield(c, t) \/ Exit(c, t)
      BY <1>0, <2>3, SleepTask
    <2> QED
      BY <1>4, <2>1, <2>2, <2>3 DEF Call
  <1>5. ASSUME NEW c \in Cpu, NEW t \in Task, NEW d \in Time, Expire(c, t, d) PROVE TL!Next
    BY <1>0, <1>5, SleepWake
  <1> QED
    BY <1>1, <1>2, <1>3, <1>4, <1>5 DEF Next

\* Tasks that sleep and yield use the task layer as TaskSched allows, with the timer list as the only list.
THEOREM SleepUsesTaskLayer == Spec => UsesTaskLayer
  BY InitIInv, NextIInv, StepUses, PTL DEF Spec, UsesTaskLayer, OnlySleep
=============================================================================
