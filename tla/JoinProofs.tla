----------------------------- MODULE JoinProofs -----------------------------
(***************************************************************************)
(* Proofs about Join, for every number of tasks and CPUs.  That a join     *)
(* returns the code its task exited with needs one CPU: while a task is    *)
(* between Exited and set_exit_code it is the current task of that CPU, so *)
(* no other task polls.  That the end of a task wakes only tasks that may  *)
(* be woken needs to know where a task is while its waker is on a list.    *)
(***************************************************************************)
EXTENDS Join, FiniteSetTheorems, TLAPS

\* Every leaf goes to Zenon, with time to spare, unless it names another prover.
USE ZenonT(60)

Calling == {"poll", "read", "join", "push", "pending"}
EndOf == {"set_code", "notify", "gone"}

TypeOK ==
  /\ state \in [Task -> TL!TaskState \cup {"New"}]
  /\ ready \in [Task -> Nat]
  /\ current \in [Cpu -> Task \cup {None}]
  /\ panicked \in BOOLEAN
  /\ cpus \subseteq Cpu /\ IsFiniteSet(cpus)
  /\ wait_wakers \in [Task -> Seq(Task)]
  /\ exit_code \in [Task -> Nat]
  /\ at \in [Task -> {"idle"} \cup Calling \cup EndOf]
  /\ target \in [Task -> Task \cup {None}]
  /\ result \in [Task -> {None} \cup Task \X Nat]

Once(q) == \A i, j \in DOMAIN q : q[i] = q[j] => i = j

\* A waker is on the list of the task its owner waits for, once, and only while the owner blocks.
Waiting ==
  \A t \in Task :
    /\ at[t] \in Calling => target[t] \in Task
    /\ \A u \in Task : Waits(t, u) => /\ target[t] = u
                                      /\ state[t] \in {"Blocking", "Blocked"}
                                      /\ at[t] # "push"
    /\ at[t] = "push" => state[t] = "Blocking"
    /\ at[t] = "pending" <=> state[t] \in {"Blocking", "Waked"} /\ at[t] # "push"
    /\ state[t] = "Blocked" => at[t] = "poll"
    /\ Once(wait_wakers[t])

\* The ready queue holds the Runable tasks, once: a task that is dispatched was not waiting.
Queued == \A t \in Task : ready[t] = IF state[t] = "Runable" THEN 1 ELSE 0

\* An exited task is current until its code is stored.
Ended ==
  \A t \in Task :
    /\ at[t] \in EndOf <=> state[t] = "Exited"
    /\ at[t] = "set_code" => \E c \in cpus : current[c] = t
    /\ at[t] \in {"notify", "gone"} => exit_code[t] = Code(t)
    /\ at[t] = "read" => state[target[t]] = "Exited" /\ (Uniprocessor => at[target[t]] # "set_code")

IInv == TypeOK /\ Waiting /\ Queued /\ Ended /\ JoinCode

----------------------------------------------------------------------------
(* The lists of wakers.                                                    *)

In(q, x) == \E i \in DOMAIN q : q[i] = x

\* push_back, of an element that is not there.
LEMMA PushOnce ==
  ASSUME NEW S, NEW q \in Seq(S), NEW x \in S, ~In(q, x), Once(q), NEW r, r = Append(q, x)
  PROVE  /\ r \in Seq(S)
         /\ \A y : In(r, y) <=> In(q, y) \/ y = x
         /\ Once(r)
  <1>1. /\ r \in Seq(S)
        /\ DOMAIN q = 1 .. Len(q) /\ DOMAIN r = 1 .. Len(q) + 1
        /\ \A i \in 1 .. Len(q) : r[i] = q[i]
        /\ r[Len(q) + 1] = x
        /\ Len(q) \in Nat
    BY SMTT(60)
  <1> QED
    BY <1>1, SMTT(60) DEF In, Once

\* pop_front.
LEMMA PopOnce ==
  ASSUME NEW S, NEW q \in Seq(S), q # <<>>, Once(q), NEW r, r = Tail(q)
  PROVE  /\ r \in Seq(S)
         /\ Head(q) \in S /\ In(q, Head(q))
         /\ \A y : In(r, y) <=> In(q, y) /\ y # Head(q)
         /\ Once(r)
  <1> DEFINE h == Head(q)
  <1>1. /\ r \in Seq(S)
        /\ Len(q) \in Nat /\ Len(q) >= 1
        /\ DOMAIN q = 1 .. Len(q) /\ DOMAIN r = 1 .. Len(q) - 1
        /\ \A i \in 1 .. Len(q) - 1 : r[i] = q[i + 1]
        /\ h \in S /\ h = q[1]
    BY SMTT(60)
  <1> HIDE DEF h
  <1>2. ASSUME NEW y, In(q, y), y # h PROVE In(r, y)
    <2>1. PICK i \in 1 .. Len(q) : q[i] = y
      BY <1>1, <1>2 DEF In
    <2>2. i - 1 \in 1 .. Len(q) - 1 /\ r[i - 1] = y
      BY SMTT(60), <1>1, <1>2, <2>1
    <2> QED
      BY <1>1, <2>2 DEF In
  <1>3. ASSUME NEW y, In(r, y) PROVE In(q, y) /\ y # h
    BY <1>1, <1>3, SMTT(60) DEF In, Once
  <1>4. Once(r) /\ In(q, h)
    BY <1>1, SMTT(60) DEF Once, In
  <1> QED
    BY <1>1, <1>2, <1>3, <1>4 DEF h

\* A task waits for u if it is on the list of u.
LEMMA WaitsIn ==
  \A t, u \in Task : (Waits(t, u) <=> In(wait_wakers[u], t)) /\ (Waits(t, u)' <=> In(wait_wakers'[u], t))
  BY DEF Waits, In

\* Both, on the list of the task v.
LEMMA PushWaits ==
  ASSUME wait_wakers \in [Task -> Seq(Task)], NEW t \in Task, NEW v \in Task,
         ~Waits(t, v), \A u \in Task : Once(wait_wakers[u]),
         wait_wakers' = [wait_wakers EXCEPT ![v] = Append(@, t)]
  PROVE  /\ wait_wakers' \in [Task -> Seq(Task)]
         /\ \A s, u \in Task : Waits(s, u)' <=> Waits(s, u) \/ (s = t /\ u = v)
         /\ \A u \in Task : Once(wait_wakers'[u])
  <1>1. ~In(wait_wakers[v], t) /\ wait_wakers[v] \in Seq(Task) /\ wait_wakers'[v] = Append(wait_wakers[v], t)
    BY DEF Waits, In
  <1>2. /\ wait_wakers'[v] \in Seq(Task)
        /\ \A y : In(wait_wakers'[v], y) <=> In(wait_wakers[v], y) \/ y = t
        /\ Once(wait_wakers'[v])
    BY <1>1, PushOnce
  <1>3. \A u \in Task : u # v => wait_wakers'[u] = wait_wakers[u]
    OBVIOUS
  <1>4. wait_wakers' \in [Task -> Seq(Task)]
    BY <1>2
  <1> QED
    BY <1>2, <1>3, <1>4, WaitsIn

\* The first task of the list of v is taken off it.
LEMMA PopWaits ==
  ASSUME wait_wakers \in [Task -> Seq(Task)], NEW v \in Task, wait_wakers[v] # <<>>,
         \A u \in Task : Once(wait_wakers[u]),
         wait_wakers' = [wait_wakers EXCEPT ![v] = Tail(@)]
  PROVE  /\ wait_wakers' \in [Task -> Seq(Task)]
         /\ Head(wait_wakers[v]) \in Task /\ Waits(Head(wait_wakers[v]), v)
         /\ \A s, u \in Task : Waits(s, u)' <=> Waits(s, u) /\ ~(s = Head(wait_wakers[v]) /\ u = v)
         /\ \A u \in Task : Once(wait_wakers'[u])
  <1>1. /\ wait_wakers[v] \in Seq(Task) /\ Once(wait_wakers[v])
        /\ wait_wakers'[v] = Tail(wait_wakers[v])
    OBVIOUS
  <1>2. /\ wait_wakers'[v] \in Seq(Task)
        /\ Head(wait_wakers[v]) \in Task /\ In(wait_wakers[v], Head(wait_wakers[v]))
        /\ \A y : In(wait_wakers'[v], y) <=> In(wait_wakers[v], y) /\ y # Head(wait_wakers[v])
        /\ Once(wait_wakers'[v])
    BY <1>1, PopOnce
  <1>3. \A u \in Task : u # v => wait_wakers'[u] = wait_wakers[u]
    OBVIOUS
  <1>4. wait_wakers' \in [Task -> Seq(Task)]
    BY <1>2
  <1> QED
    BY <1>2, <1>3, <1>4, WaitsIn

\* A step that keeps the lists keeps who waits.
LEMMA SameWaits ==
  UNCHANGED wait_wakers => /\ \A t, u \in Task : Waits(t, u)' = Waits(t, u)
                           /\ \A t \in Task : Once(wait_wakers'[t]) = Once(wait_wakers[t])
  BY DEF Waits

----------------------------------------------------------------------------
(* The invariant.                                                          *)

\* It holds at first: no task has exited, and the lists are empty.
LEMMA InitIInv == Init => IInv
  <1> SUFFICES ASSUME Init PROVE IInv
    OBVIOUS
  <1>1. TypeOK
    <2>1. panicked \in BOOLEAN
      BY DEF Init
    <2> QED
      BY <2>1, MachinesAssumption, SMTT(60) DEF Init, TypeOK
  <1>2. Waiting /\ Queued /\ Ended
    BY SMTT(60) DEF Init, Waiting, Queued, Ended, Once, Waits, Calling, EndOf
  <1>3. JoinCode
    BY DEF Init, JoinCode
  <1> QED
    BY <1>1, <1>2, <1>3 DEF IInv

\* One CPU: a task that is executed is the only one that is.
LEMMA OneCpu ==
  ASSUME TypeOK, Uniprocessor, NEW c \in cpus, NEW d \in cpus PROVE c = d
  BY FS_Singleton, SMTT(60) DEF TypeOK, Uniprocessor

\* The steps of a task in its own code, up to the registration.
LEMMA JoinIInv ==
  ASSUME IInv, NEW c \in cpus, NEW t \in Task, NEW u \in Task, UNCHANGED cpus, Join(c, t, u)
  PROVE  IInv'
  <1> USE DEF Join, On, Goto, taskVars, IInv
  <1>1. TypeOK'
    BY DEF TypeOK, Calling
  <1>2. Waiting'
    BY SameWaits, SMTT(60) DEF Waiting, TypeOK, Calling, TL!OnCpu
  <1>3. Queued'
    BY DEF Queued, TypeOK
  <1>4. Ended'
    BY SMTT(60) DEF Ended, TypeOK, Calling, EndOf, TL!OnCpu, Uniprocessor, Waiting
  <1>5. JoinCode'
    BY DEF JoinCode, Uniprocessor
  <1> QED
    BY <1>1, <1>2, <1>3, <1>4, <1>5

\* Join::poll looks at the state of the target.
LEMMA PollIInv ==
  ASSUME IInv, NEW c \in cpus, NEW t \in Task, UNCHANGED cpus, PollExited(c, t) \/ PollNotExited(c, t)
  PROVE  IInv'
  <1> USE DEF PollExited, PollNotExited, On, Goto, taskVars, IInv
  <1>1. TypeOK'
    BY DEF TypeOK, Calling
  <1>2. Waiting'
    BY SameWaits, SMTT(60) DEF Waiting, TypeOK, Calling, TL!OnCpu
  <1>3. Queued'
    BY DEF Queued, TypeOK
  <1>4. Ended'
    <2>1. PollExited(c, t) /\ Uniprocessor => at[target[t]] # "set_code"
      <3> SUFFICES ASSUME PollExited(c, t), Uniprocessor, at[target[t]] = "set_code" PROVE FALSE
        OBVIOUS
      <3>1. target[t] \in Task /\ current[c] = t /\ at[t] = "poll"
        BY DEF Waiting, Calling
      <3>2. PICK d \in cpus : current[d] = target[t]
        BY <3>1 DEF Ended
      <3>3. c = d
        BY OneCpu
      <3> QED
        BY <3>1, <3>2, <3>3
    <2> QED
      BY <2>1, SMTT(60) DEF Ended, TypeOK, Calling, EndOf, TL!OnCpu, Uniprocessor, Waiting
  <1>5. JoinCode'
    BY SMTT(60) DEF JoinCode, Uniprocessor
  <1> QED
    BY <1>1, <1>2, <1>3, <1>4, <1>5

\* The code is read when the target has stored it: on one CPU the state implies that.
LEMMA ReturnIInv ==
  ASSUME IInv, NEW c \in cpus, NEW t \in Task, UNCHANGED cpus, Return(c, t)
  PROVE  IInv'
  <1> USE DEF Return, On, Goto, taskVars, IInv
  <1>1. TypeOK'
    BY DEF TypeOK, Waiting, Calling
  <1>2. Waiting'
    BY SameWaits, SMTT(60) DEF Waiting, TypeOK, Calling, TL!OnCpu
  <1>3. Queued'
    BY DEF Queued, TypeOK
  <1>4. Ended'
    BY SMTT(60) DEF Ended, TypeOK, Calling, EndOf, TL!OnCpu, Uniprocessor, Waiting
  <1>5. JoinCode'
    BY SMTT(60) DEF JoinCode, Uniprocessor, Ended, Waiting, TypeOK, Calling, EndOf
  <1> QED
    BY <1>1, <1>2, <1>3, <1>4, <1>5

\* TaskInner::join: the caller is Running, hence on no list.
LEMMA BlockingIInv ==
  ASSUME IInv, NEW c \in cpus, NEW t \in Task, UNCHANGED cpus, JoinBlocking(c, t)
  PROVE  IInv'
  <1> USE DEF JoinBlocking, On, Goto, TL!SetBlocking, TL!SetState, IInv
  <1>1. TypeOK'
    BY DEF TypeOK, Calling, TL!TaskState
  <1>2. Waiting'
    BY SameWaits, SMTT(60) DEF Waiting, TypeOK, Calling, TL!OnCpu
  <1>3. Queued'
    BY DEF Queued, TypeOK, Waiting, TL!OnCpu
  <1>4. Ended'
    BY SMTT(60) DEF Ended, TypeOK, Calling, EndOf, TL!OnCpu, Uniprocessor, Waiting
  <1>5. JoinCode'
    BY DEF JoinCode, Uniprocessor
  <1> QED
    BY <1>1, <1>2, <1>3, <1>4, <1>5

\* A task that joins is not yet on the list of its target.
LEMMA PushFact ==
  ASSUME IInv, NEW c \in cpus, NEW t \in Task, JoinPush(c, t)
  PROVE  /\ wait_wakers' \in [Task -> Seq(Task)]
         /\ \A s, u \in Task : Waits(s, u)' <=> Waits(s, u) \/ (s = t /\ u = target[t])
         /\ \A u \in Task : Once(wait_wakers'[u])
  <1>1. target[t] \in Task /\ ~Waits(t, target[t])
    BY DEF IInv, Waiting, JoinPush, On, Calling
  <1>2. wait_wakers \in [Task -> Seq(Task)] /\ \A u \in Task : Once(wait_wakers[u])
    BY DEF IInv, TypeOK, Waiting
  <1>3. wait_wakers' = [wait_wakers EXCEPT ![target[t]] = Append(@, t)]
    BY DEF JoinPush
  <1> QED
    BY <1>1, <1>2, <1>3, PushWaits

\* Join::poll puts the waker on the list of the target.
LEMMA PushIInv ==
  ASSUME IInv, NEW c \in cpus, NEW t \in Task, UNCHANGED cpus, JoinPush(c, t)
  PROVE  IInv'
  <1> USE DEF JoinPush, On, Goto, taskVars, IInv
  <1>1. TypeOK'
    BY PushFact DEF TypeOK, Calling
  <1>2. Waiting'
    <2>1. /\ \A s \in Task : at'[s] = IF s = t THEN "pending" ELSE at[s]
          /\ state[t] = "Blocking" /\ target[t] \in Task
          /\ UNCHANGED <<state, target>>
      BY DEF Waiting, TypeOK, Calling
    <2>2. /\ \A s, u \in Task : Waits(s, u)' <=> Waits(s, u) \/ (s = t /\ u = target[t])
          /\ \A u \in Task : Once(wait_wakers'[u])
      BY PushFact
    <2> SUFFICES ASSUME NEW s \in Task
                 PROVE  /\ at'[s] \in Calling => target[s] \in Task
                        /\ \A u \in Task : Waits(s, u)' => /\ target[s] = u
                                                           /\ state[s] \in {"Blocking", "Blocked"}
                                                           /\ at'[s] # "push"
                        /\ at'[s] = "push" => state[s] = "Blocking"
                        /\ at'[s] = "pending" <=> state[s] \in {"Blocking", "Waked"} /\ at'[s] # "push"
                        /\ state[s] = "Blocked" => at'[s] = "poll"
      BY <2>1, <2>2, SMTT(60) DEF Waiting
    <2>3. CASE s = t
      BY <2>1, <2>2, <2>3, SMTT(60) DEF Waiting, Calling
    <2>4. CASE s # t
      BY <2>1, <2>2, <2>4, SMTT(60) DEF Waiting
    <2> QED
      BY <2>3, <2>4
  <1>3. Queued'
    BY DEF Queued, TypeOK
  <1>4. Ended'
    BY SMTT(60) DEF Ended, TypeOK, Calling, EndOf, TL!OnCpu, Uniprocessor, Waiting
  <1>5. JoinCode'
    BY DEF JoinCode, Uniprocessor
  <1> QED
    BY <1>1, <1>2, <1>3, <1>4, <1>5

\* Creating and dispatching a task.
LEMMA SpawnIInv ==
  ASSUME IInv, NEW t \in Task, UNCHANGED cpus, Spawn(t)
  PROVE  IInv'
  <1> USE DEF Spawn, TL!Spawn, TL!SetState, joinVars, IInv
  <1>1. TypeOK'
    BY SMTT(60) DEF TypeOK, TL!TaskState
  <1>2. Waiting'
    BY SameWaits, SMTT(60) DEF Waiting, TypeOK, Calling, TL!OnCpu
  <1>3. Queued'
    BY SMTT(60) DEF Queued, TypeOK
  <1>4. Ended'
    BY SMTT(60) DEF Ended, TypeOK, Calling, EndOf, TL!OnCpu, Uniprocessor, Waiting
  <1>5. JoinCode'
    BY DEF JoinCode, Uniprocessor
  <1> QED
    BY <1>1, <1>2, <1>3, <1>4, <1>5

\* A task that is dispatched is Runable, hence neither waits nor has exited.
LEMMA PickNextIInv ==
  ASSUME IInv, NEW c \in cpus, NEW t \in Task, UNCHANGED cpus, PickNext(c, t)
  PROVE  IInv'
  <1> USE DEF PickNext, TL!PickNext, TL!SetState, joinVars, IInv
  <1>1. TypeOK'
    BY SMTT(60) DEF TypeOK, TL!TaskState
  <1>2. Waiting'
    <2>1. state[t] = "Runable" /\ \A s \in Task : state'[s] = IF s = t THEN "Running" ELSE state[s]
      BY SMTT(60) DEF Queued, TypeOK
    <2> QED
      BY <2>1, SameWaits, SMTT(60) DEF Waiting
  <1>3. Queued'
    BY SMTT(60) DEF Queued, TypeOK
  <1>4. Ended'
    BY TaskAssumption, SMTT(60) DEF Ended, TypeOK, Calling, EndOf, Uniprocessor, Waiting, Queued
  <1>5. JoinCode'
    BY DEF JoinCode, Uniprocessor
  <1> QED
    BY <1>1, <1>2, <1>3, <1>4, <1>5

\* The end of a task.
LEMMA ExitIInv ==
  ASSUME IInv, NEW c \in cpus, NEW t \in Task, UNCHANGED cpus, Exit(c, t)
  PROVE  IInv'
  <1> USE DEF Exit, On, Goto, TL!SetExited, TL!SetState, IInv
  <1>1. TypeOK'
    BY DEF TypeOK, TL!TaskState, EndOf
  <1>2. Waiting'
    BY SameWaits, SMTT(60) DEF Waiting, TypeOK, Calling, TL!OnCpu, EndOf
  <1>3. Queued'
    BY DEF Queued, TypeOK, TL!OnCpu
  <1>4. Ended'
    BY SMTT(60) DEF Ended, TypeOK, Calling, EndOf, TL!OnCpu, Uniprocessor, Waiting
  <1>5. JoinCode'
    BY DEF JoinCode, Uniprocessor
  <1> QED
    BY <1>1, <1>2, <1>3, <1>4, <1>5

\* exit stores the code; the task stays current until then.
LEMMA SetCodeIInv ==
  ASSUME IInv, NEW c \in cpus, NEW t \in Task, UNCHANGED cpus, SetCode(c, t)
  PROVE  IInv'
  <1> USE DEF SetCode, Ending, Goto, taskVars, Code, IInv
  <1>1. TypeOK'
    BY TaskAssumption DEF TypeOK, EndOf
  <1>2. Waiting'
    BY SameWaits, SMTT(60) DEF Waiting, TypeOK, Calling, TL!OnCpu, EndOf
  <1>3. Queued'
    BY DEF Queued, TypeOK
  <1>4. Ended'
    BY SMTT(60) DEF Ended, TypeOK, Calling, EndOf, Uniprocessor, Waiting
  <1>5. JoinCode'
    BY DEF JoinCode, Uniprocessor
  <1> QED
    BY <1>1, <1>2, <1>3, <1>4, <1>5

\* exit is done when the list is empty.
LEMMA NotifyDoneIInv ==
  ASSUME IInv, NEW c \in cpus, NEW t \in Task, UNCHANGED cpus, NotifyDone(c, t)
  PROVE  IInv'
  <1> USE DEF NotifyDone, Ending, Goto, taskVars, IInv
  <1>1. TypeOK'
    BY DEF TypeOK, EndOf
  <1>2. Waiting'
    BY SameWaits, SMTT(60) DEF Waiting, TypeOK, Calling, TL!OnCpu, EndOf
  <1>3. Queued'
    BY DEF Queued, TypeOK
  <1>4. Ended'
    BY TaskAssumption, SMTT(60) DEF Ended, TypeOK, Calling, EndOf, Uniprocessor, Waiting
  <1>5. JoinCode'
    BY DEF JoinCode, Uniprocessor
  <1> QED
    BY <1>1, <1>2, <1>3, <1>4, <1>5

\* The CPU of an exited task gets free after the code is stored.
LEMMA CleanIInv ==
  ASSUME IInv, NEW c \in cpus, NEW t \in Task, UNCHANGED cpus, Clean(c, t)
  PROVE  IInv'
  <1> USE DEF Clean, Ending, joinVars, TL!ExitClean, IInv
  <1>1. TypeOK'
    BY DEF TypeOK
  <1>2. Waiting'
    BY SameWaits, SMTT(60) DEF Waiting, TypeOK, Calling, TL!OnCpu, EndOf
  <1>3. Queued'
    BY DEF Queued, TypeOK
  <1>4. Ended'
    BY TaskAssumption, SMTT(60) DEF Ended, TypeOK, Calling, EndOf, Uniprocessor, Waiting
  <1>5. JoinCode'
    BY DEF JoinCode, Uniprocessor
  <1> QED
    BY <1>1, <1>2, <1>3, <1>4, <1>5

\* Poll::Pending: the task is Blocking, or was woken meanwhile.
LEMMA PendingIInv ==
  ASSUME IInv, NEW c \in cpus, NEW t \in Task, UNCHANGED cpus, Pending(c, t)
  PROVE  IInv'
  <1> USE DEF Pending, On, Goto, IInv
  <1>1. current[c] = t /\ state[t] \in {"Blocking", "Waked"} /\ at[t] = "pending"
    BY DEF Waiting, TypeOK
  <1>2. /\ \A s \in Task : state'[s] = IF s # t THEN state[s]
                                       ELSE IF state[t] = "Blocking" THEN "Blocked" ELSE "Running"
        /\ state' \in [Task -> TL!TaskState \cup {"New"}]
        /\ current' \in [Cpu -> Task \cup {None}]
        /\ \A d \in Cpu : current'[d] = current[d] \/ (current[d] = t /\ current'[d] = None)
        /\ UNCHANGED <<ready, panicked>>
    <2> USE <1>1 DEF TL!PollPending, TL!PendingRunning, TL!PendingBlocking, TL!PendingWaked,
                     TL!PendingPanic, TL!SetState
    <2>1. CASE state[t] = "Blocking"
      <3>1. /\ state' = [state EXCEPT ![t] = "Blocked"]
            /\ current' = [current EXCEPT ![c] = None]
            /\ UNCHANGED <<ready, panicked>>
        BY <2>1
      <3> QED
        BY <2>1, <3>1 DEF TypeOK, TL!TaskState
    <2>2. CASE state[t] = "Waked"
      <3>1. state' = [state EXCEPT ![t] = "Running"] /\ UNCHANGED <<current, ready, panicked>>
        BY <2>2
      <3> QED
        BY <2>2, <3>1 DEF TypeOK, TL!TaskState
    <2> QED
      BY <2>1, <2>2
  <1>3. \A s \in Task : at'[s] = IF s = t THEN "poll" ELSE at[s]
    BY DEF TypeOK
  <1>4. TypeOK'
    BY <1>2 DEF TypeOK, Calling
  <1>5. Waiting'
    <2>1. \A s \in Task : s # t => at'[s] = at[s] /\ state'[s] = state[s]
      BY <1>2, <1>3
    <2>2. at'[t] = "poll" /\ state'[t] \in {"Blocked", "Running"}
      BY <1>1, <1>2, <1>3
    <2>3. \A u \in Task : Waits(t, u) => target[t] = u /\ (state[t] = "Blocking")
      BY <1>1 DEF Waiting
    <2>4. state[t] = "Blocking" => state'[t] = "Blocked"
      BY <1>2
    <2>5. target[t] \in Task /\ UNCHANGED target
      BY <1>1 DEF Waiting, Calling
    <2> QED
      BY <2>1, <2>2, <2>3, <2>4, <2>5, SameWaits, SMTT(60) DEF Waiting
  <1>6. Queued'
    BY <1>1, <1>2 DEF Queued
  <1>7. Ended'
    BY <1>1, <1>2, <1>3, SMTT(60) DEF Ended, EndOf, Calling, TypeOK, Waiting, Uniprocessor
  <1>8. JoinCode'
    BY <1>2 DEF JoinCode, Uniprocessor
  <1> QED
    BY <1>4, <1>5, <1>6, <1>7, <1>8

\* A task that yields calls nothing.
LEMMA YieldIInv ==
  ASSUME IInv, NEW c \in cpus, NEW t \in Task, UNCHANGED cpus, Yield(c, t)
  PROVE  IInv'
  <1> USE DEF Yield, On, joinVars, IInv
  <1>1. current[c] = t /\ state[t] = "Running" /\ at[t] = "idle"
    BY DEF Waiting, TypeOK, TL!OnCpu
  <1>2. /\ state' = [state EXCEPT ![t] = "Runable"]
        /\ ready' = [ready EXCEPT ![t] = @ + 1]
        /\ current' = [current EXCEPT ![c] = None]
        /\ UNCHANGED panicked
    BY <1>1 DEF TL!PollPending, TL!PendingRunning, TL!PendingBlocking, TL!PendingWaked, TL!PendingPanic,
                TL!SetState
  <1>3. TypeOK'
    BY <1>2, SMTT(60) DEF TypeOK, TL!TaskState
  <1>4. Waiting'
    BY <1>1, <1>2, SameWaits, SMTT(60) DEF Waiting, TypeOK
  <1>5. Queued'
    BY <1>1, <1>2, SMTT(60) DEF Queued, TypeOK
  <1>6. Ended'
    <2>1. /\ \A s \in Task : state'[s] = IF s = t THEN "Runable" ELSE state[s]
          /\ \A d \in cpus : current[d] # t => current'[d] = current[d]
      BY <1>1, <1>2 DEF TypeOK
    <2> QED
      BY <1>1, <2>1, SMTT(60) DEF Ended, EndOf, Waiting, Uniprocessor, Calling
  <1>7. JoinCode'
    BY <1>2 DEF JoinCode, Uniprocessor
  <1> QED
    BY <1>3, <1>4, <1>5, <1>6, <1>7

\* notify_waker_for_exit: the first waker is that of a task that is Blocking or Blocked.
LEMMA NotifyFact ==
  ASSUME IInv, NEW c \in cpus, NEW t \in Task, Notify(c, t), NEW h \in Task, h = Head(wait_wakers[t])
  PROVE  /\ wait_wakers' \in [Task -> Seq(Task)]
         /\ Waits(h, t) /\ h # t
         /\ \A s, u \in Task : Waits(s, u)' <=> Waits(s, u) /\ ~(s = h /\ u = t)
         /\ \A u \in Task : Once(wait_wakers'[u])
         /\ state[h] \in {"Blocking", "Blocked"} /\ target[h] = t /\ at[h] # "push"
         /\ state' = [state EXCEPT ![h] = IF state[h] = "Blocking" THEN "Waked" ELSE "Runable"]
         /\ ready' = IF state[h] = "Blocking" THEN ready ELSE [ready EXCEPT ![h] = @ + 1]
         /\ UNCHANGED <<current, panicked>>
  <1>1. /\ wait_wakers' \in [Task -> Seq(Task)]
        /\ Waits(h, t)
        /\ \A s, u \in Task : Waits(s, u)' <=> Waits(s, u) /\ ~(s = h /\ u = t)
        /\ \A u \in Task : Once(wait_wakers'[u])
    <2>1. wait_wakers \in [Task -> Seq(Task)] /\ \A u \in Task : Once(wait_wakers[u])
      BY DEF IInv, TypeOK, Waiting
    <2>2. wait_wakers[t] # <<>> /\ wait_wakers' = [wait_wakers EXCEPT ![t] = Tail(@)]
      BY DEF Notify
    <2> QED
      BY <2>1, <2>2, PopWaits
  <1>2. state[h] \in {"Blocking", "Blocked"} /\ target[h] = t /\ at[h] # "push" /\ h # t
    BY <1>1 DEF IInv, Waiting, Notify, Ending
  <1>3. TL!wakeup_task(h)
    BY DEF Notify
  <1> QED
    BY <1>1, <1>2, <1>3 DEF TL!wakeup_task, TL!SetState

\* The first element of a list is a task.
LEMMA HeadTask ==
  ASSUME IInv, NEW c \in cpus, NEW t \in Task, Notify(c, t) PROVE Head(wait_wakers[t]) \in Task
  BY SMTT(60) DEF IInv, TypeOK, Notify

\* exit wakes the first task of the list, which blocks or is about to.
LEMMA NotifyIInv ==
  ASSUME IInv, NEW c \in cpus, NEW t \in Task, UNCHANGED cpus, Notify(c, t)
  PROVE  IInv'
  <1> USE DEF IInv
  <1>1. PICK h \in Task : h = Head(wait_wakers[t])
    BY HeadTask
  <1>2. /\ wait_wakers' \in [Task -> Seq(Task)]
        /\ h # t
        /\ \A s, u \in Task : Waits(s, u)' <=> Waits(s, u) /\ ~(s = h /\ u = t)
        /\ \A u \in Task : Once(wait_wakers'[u])
        /\ state[h] \in {"Blocking", "Blocked"} /\ target[h] = t /\ at[h] # "push"
        /\ state' = [state EXCEPT ![h] = IF state[h] = "Blocking" THEN "Waked" ELSE "Runable"]
        /\ ready' = IF state[h] = "Blocking" THEN ready ELSE [ready EXCEPT ![h] = @ + 1]
        /\ UNCHANGED <<current, panicked>>
    BY SMTT(60), <1>1, NotifyFact
  <1>3. UNCHANGED <<exit_code, at, target, result>> /\ at[t] = "notify" /\ state[t] = "Exited"
    BY DEF Notify, Ending
  <1>4. TypeOK'
    BY <1>2, <1>3, SMTT(60) DEF TypeOK, TL!TaskState
  <1>5. Waiting'
    <2>1. \A u \in Task : ~Waits(h, u)'
      BY <1>2 DEF Waiting
    <2>2. \A s, u \in Task : s # h => (Waits(s, u)' <=> Waits(s, u)) /\ state'[s] = state[s]
      BY <1>2 DEF TypeOK
    <2>3. \/ state[h] = "Blocking" /\ state'[h] = "Waked"
          \/ state[h] = "Blocked" /\ state'[h] = "Runable"
      BY <1>2 DEF TypeOK
    <2> QED
      BY <1>2, <1>3, <2>1, <2>2, <2>3, SMTT(60) DEF Waiting
  <1>6. Queued'
    BY <1>2, SMTT(60) DEF Queued, TypeOK
  <1>7. Ended'
    BY <1>2, <1>3, SMTT(60) DEF Ended, EndOf, TypeOK, Waiting, Uniprocessor, Calling
  <1>8. JoinCode'
    BY <1>2, <1>3 DEF JoinCode, Uniprocessor
  <1> QED
    BY <1>4, <1>5, <1>6, <1>7, <1>8

\* Every step keeps the invariant.
LEMMA NextIInv == IInv /\ [Next]_vars => IInv'
  <1> SUFFICES ASSUME IInv, [Next]_vars PROVE IInv'
    OBVIOUS
  <1>1. CASE UNCHANGED vars
    <2> USE <1>1 DEF vars, taskVars, joinVars, IInv
    <2>1. TypeOK' /\ Queued'
      BY DEF TypeOK, Queued
    <2>2. Waiting'
      BY SameWaits DEF Waiting
    <2>3. Ended'
      BY DEF Ended, Uniprocessor
    <2>4. JoinCode'
      BY DEF JoinCode, Uniprocessor
    <2> QED
      BY <2>1, <2>2, <2>3, <2>4
  <1>2. ASSUME NEW t \in Task, Spawn(t), UNCHANGED cpus PROVE IInv'
    BY <1>2, SpawnIInv
  <1>3. ASSUME NEW c \in cpus, NEW t \in Task, UNCHANGED cpus,
               \/ PickNext(c, t) \/ \E u \in Task : Join(c, t, u)
               \/ Proceed(c, t) \/ Yield(c, t) \/ Exit(c, t)
        PROVE  IInv'
    BY <1>3, PickNextIInv, JoinIInv, PollIInv, ReturnIInv, BlockingIInv, PushIInv, PendingIInv,
       SetCodeIInv, NotifyIInv, NotifyDoneIInv, CleanIInv, YieldIInv, ExitIInv
    DEF Proceed
  <1> QED
    BY <1>1, <1>2, <1>3 DEF Next

\* However many tasks wait for each other, on one CPU a join returns the code that its task exited
\* with, and on any number the end of a task wakes only tasks that wakeup_task accepts.
THEOREM JoinReturnsCode == Spec => []JoinCode
  BY InitIInv, NextIInv, PTL DEF Spec, IInv

----------------------------------------------------------------------------
(* Joining implements the task layer.                                      *)

\* A step that changes no list, and no task at or from the push.
LEMMA WakersSame ==
  ASSUME UNCHANGED wait_wakers,
         \A t \in Task : (at[t] = "push" <=> at'[t] = "push") /\ (at[t] = "push" => target'[t] = target[t])
  PROVE  [t \in Task |-> wakersOf(t)]' = [t \in Task |-> wakersOf(t)]
  <1>1. \A t, u \in Task : Waits(t, u)' = Waits(t, u)
    BY SameWaits
  <1>2. \A t \in Task : wakersOf(t)' = wakersOf(t)
    BY <1>1 DEF wakersOf
  <1> QED
    BY <1>2

\* The initial states are initial states of the task layer.
LEMMA InitRefines == Init => TL!Init
  BY SMTT(60) DEF Init, TL!Init, wakersOf, Waits

\* The steps that are operations of the task layer and register nothing.
LEMMA TaskStep ==
  ASSUME IInv, ~panicked, NEW c \in cpus, NEW t \in Task,
         PickNext(c, t) \/ Pending(c, t) \/ Yield(c, t) \/ Exit(c, t) \/ Clean(c, t)
  PROVE  TL!Next
  <1>1. UNCHANGED <<wait_wakers, target>>
    BY DEF PickNext, Pending, Yield, Exit, Clean, joinVars
  <1>2. \A s \in Task : at[s] = "push" <=> at'[s] = "push"
    BY DEF PickNext, Pending, Yield, Exit, Clean, joinVars, On, Goto, IInv, TypeOK
  <1>3. UNCHANGED [s \in Task |-> wakersOf(s)]
    BY <1>1, <1>2, WakersSame
  <1>4. c \in Cpu
    BY DEF IInv, TypeOK
  <1> QED
    BY <1>3, <1>4 DEF PickNext, Pending, Yield, Exit, Clean, TL!Next, TL!Step

\* The steps that the task layer does not see.
LEMMA CodeStep ==
  ASSUME IInv, NEW c \in cpus, NEW t \in Task,
         \/ PollExited(c, t) \/ PollNotExited(c, t) \/ Return(c, t) \/ SetCode(c, t) \/ NotifyDone(c, t)
         \/ \E u \in Task : Join(c, t, u)
  PROVE  UNCHANGED TL!vars
  <1> USE DEF PollExited, PollNotExited, Return, SetCode, NotifyDone, Join, On, Ending, Goto
  <1>1. UNCHANGED <<taskVars, wait_wakers>>
    OBVIOUS
  <1>2. at[t] # "push" /\ \A s \in Task : s # t => UNCHANGED <<at[s], target[s]>>
    BY DEF IInv, TypeOK
  <1>3. at'[t] # "push"
    BY DEF IInv, TypeOK
  <1>4. UNCHANGED [s \in Task |-> wakersOf(s)]
    BY <1>1, <1>2, <1>3, WakersSame
  <1> QED
    BY <1>1, <1>4 DEF TL!vars, taskVars

\* The node is registered when the task is made Blocking ...
LEMMA BlockingStep ==
  ASSUME IInv, ~panicked, NEW c \in cpus, NEW t \in Task, JoinBlocking(c, t)
  PROVE  TL!Next
  <1> DEFINE w == [s \in Task |-> wakersOf(s)]
             n == target[t]
  <1> USE DEF JoinBlocking, On, Goto
  <1>1. n \in Task /\ \A u \in Task : ~Waits(t, u)
    BY DEF IInv, Waiting, Calling, TL!OnCpu
  <1>2. at' = [at EXCEPT ![t] = "push"] /\ at[t] = "join" /\ UNCHANGED <<target, wait_wakers>>
    OBVIOUS
  <1>3. \A s, u \in Task : Waits(s, u)' = Waits(s, u)
    BY <1>2, SameWaits
  <1>4. \A s \in Task : s # t => wakersOf(s)' = wakersOf(s)
    BY <1>2, <1>3, SMTT(60) DEF wakersOf, IInv, TypeOK
  <1>5. wakersOf(t) = {}
    BY <1>1, <1>2 DEF wakersOf
  <1>6. wakersOf(t)' = {n}
    BY <1>1, <1>2, <1>3 DEF wakersOf, IInv, TypeOK
  <1>7. n \notin w[t] /\ w' = [w EXCEPT ![t] = @ \cup {n}]
    BY <1>4, <1>5, <1>6
  <1>8. TL!Register(c, n)
    BY <1>7, TaskAssumption DEF TL!Register
  <1>9. c \in Cpu
    BY DEF IInv, TypeOK
  <1> QED
    BY <1>1, <1>8, <1>9 DEF TL!Next, TL!Step

\* ... and stays registered when its waker is pushed.
LEMMA PushStep ==
  ASSUME IInv, NEW c \in cpus, NEW t \in Task, JoinPush(c, t)
  PROVE  UNCHANGED TL!vars
  <1> USE DEF JoinPush, On, Goto
  <1>1. \A s, u \in Task : Waits(s, u)' <=> Waits(s, u) \/ (s = t /\ u = target[t])
    BY PushFact
  <1>2. at' = [at EXCEPT ![t] = "pending"] /\ at[t] = "push" /\ UNCHANGED <<target, taskVars>>
    OBVIOUS
  <1>3. \A s \in Task : wakersOf(s)' = wakersOf(s)
    BY <1>1, <1>2, SMTT(60) DEF wakersOf, IInv, TypeOK
  <1>4. UNCHANGED [s \in Task |-> wakersOf(s)]
    BY <1>3
  <1> QED
    BY <1>2, <1>4 DEF TL!vars, taskVars

\* The end of a task takes a node off and wakes its task.
LEMMA NotifyStep ==
  ASSUME IInv, ~panicked, NEW c \in cpus, NEW t \in Task, Notify(c, t)
  PROVE  TL!Next
  <1> DEFINE w == [s \in Task |-> wakersOf(s)]
  <1>1. PICK h \in Task : h = Head(wait_wakers[t])
    BY HeadTask
  <1>2. /\ Waits(h, t) /\ at[h] # "push"
        /\ \A s, u \in Task : Waits(s, u)' <=> Waits(s, u) /\ ~(s = h /\ u = t)
    BY SMTT(60), <1>1, NotifyFact
  <1>3. UNCHANGED <<at, target>> /\ TL!wakeup_task(h)
    BY <1>1 DEF Notify
  <1>4. \A s \in Task : s # h => wakersOf(s)' = wakersOf(s)
    BY <1>2, <1>3 DEF wakersOf
  <1>5. t \in wakersOf(h) /\ wakersOf(h)' = wakersOf(h) \ {t}
    BY <1>2, <1>3 DEF wakersOf
  <1>6. t \in w[h] /\ w' = [w EXCEPT ![h] = @ \ {t}]
    BY <1>4, <1>5
  <1>7. TL!Wake(h, t)
    BY <1>3, <1>6 DEF TL!Wake
  <1> QED
    BY <1>7 DEF TL!Next

\* Every step is a step of the task layer or leaves it alone.
LEMMA NextRefines == IInv /\ [Next]_vars => [TL!Next]_(TL!vars)
  <1> SUFFICES ASSUME IInv, [Next]_vars PROVE [TL!Next]_(TL!vars)
    OBVIOUS
  <1>1. CASE UNCHANGED vars
    <2>1. UNCHANGED [s \in Task |-> wakersOf(s)]
      BY <1>1, WakersSame DEF vars, joinVars
    <2> QED
      BY <1>1, <2>1 DEF vars, taskVars, TL!vars
  <1>2. ASSUME NEW t \in Task, Spawn(t), ~panicked PROVE TL!Next
    <2>1. UNCHANGED [s \in Task |-> wakersOf(s)]
      BY <1>2, WakersSame DEF Spawn, joinVars
    <2> QED
      BY <1>2, <2>1 DEF Spawn, TL!Next
  <1>3. ASSUME NEW c \in cpus, NEW t \in Task, ~panicked,
               \/ PickNext(c, t) \/ \E u \in Task : Join(c, t, u)
               \/ Proceed(c, t) \/ Yield(c, t) \/ Exit(c, t)
        PROVE  [TL!Next]_(TL!vars)
    BY <1>3, TaskStep, CodeStep, BlockingStep, PushStep, NotifyStep DEF Proceed
  <1> QED
    BY <1>1, <1>2, <1>3 DEF Next

\* Every behaviour of tasks that join each other is one of the task layer: the window between Blocking
\* and the push of the waker is not visible to it, and what holds of TaskSched holds here.
THEOREM JoinUsesTaskLayer == Spec => UsesTaskLayer
  BY InitIInv, NextIInv, InitRefines, NextRefines, PTL DEF Spec, UsesTaskLayer, TL!Spec
=============================================================================
