-------------------------------- MODULE CFS --------------------------------
(***************************************************************************)
(* CFScheduler, with the CPUs that use it.  Every operation runs under the *)
(* lock of the scheduler.  The ready queue is a map from (vruntime, id) to *)
(* tasks; a new entry has an id greater than all others, so the map is the *)
(* sequence of its entries in order of vruntime, new ones last.  The       *)
(* answer of task_tick only asks for a preemption and is not kept.         *)
(***************************************************************************)
EXTENDS Integers, Sequences, FiniteSets

CONSTANTS
  Task, Cpus, None,
  Nice,      \* the priorities that set_priority is called with
  Removes,   \* whether remove_task may be called (the kernel does not call it)
  MaxVruntime \* bound: of the vruntime at which a task is still ticked, and of min_vruntime

VARIABLES
  removes,       \* whether this kernel calls remove_task
  ready_queue,   \* the entries, [task, vruntime], in the order of the map
  min_vruntime,
  init_vruntime, delta, nice,  \* of each task
  held           \* the tasks a CPU has picked

entityVars == <<init_vruntime, delta, nice>>
vars == <<removes, ready_queue, min_vruntime, entityVars, held>>

NICE2WEIGHT_POS ==
  <<1024, 820, 655, 526, 423, 335, 272, 215, 172, 137, 110, 87, 70, 56, 45, 36, 29, 23, 18, 15>>

NICE2WEIGHT_NEG ==
  <<1024, 1277, 1586, 1991, 2501, 3121, 3906, 4904, 6100, 7620, 9548, 11916, 14949, 18705,
    23254, 29154, 36291, 46273, 56483, 71755, 88761>>

get_weight(n) == IF n >= 0 THEN NICE2WEIGHT_POS[n + 1] ELSE NICE2WEIGHT_NEG[1 - n]

get_vruntime(t) ==
  IF nice[t] = 0 THEN init_vruntime[t] + delta[t]
                 ELSE init_vruntime[t] + (delta[t] * 1024) \div get_weight(nice[t])

\* The tasks in the ready queue.
Queued == {ready_queue[i].task : i \in DOMAIN ready_queue}

\* BTreeMap::insert of a new id: after the entries that are not above v.
Insert(t, v) ==
  \E n \in 0..Len(ready_queue) :
    /\ \A i \in DOMAIN ready_queue : ready_queue[i].vruntime <= v <=> i <= n
    /\ ready_queue' = SubSeq(ready_queue, 1, n) \o <<[task |-> t, vruntime |-> v]>>
                        \o SubSeq(ready_queue, n + 1, Len(ready_queue))

\* The vruntime of the first entry.
First(q) == IF q = <<>> THEN None ELSE q[1].vruntime

Init ==
  /\ removes \in Removes
  /\ ready_queue = <<>>
  /\ min_vruntime = None
  /\ init_vruntime = [t \in Task |-> 0]
  /\ delta = [t \in Task |-> 0]
  /\ nice = [t \in Task |-> 0]
  /\ held = {}

----------------------------------------------------------------------------
\* Mutant: the task keeps the vruntime it had.
AddKeepsVruntime(t) ==
  /\ t \notin Queued \cup held
  /\ Insert(t, get_vruntime(t))
  /\ min_vruntime' = get_vruntime(t)
  /\ UNCHANGED <<entityVars, held>>

\* A task that is new or was woken starts at min_vruntime; its delta stays.
add_task(t) ==
  LET v == IF min_vruntime = None THEN 0 ELSE min_vruntime
  IN
  /\ t \notin Queued \cup held
  /\ init_vruntime' = [init_vruntime EXCEPT ![t] = v]
  /\ Insert(t, v)
  /\ min_vruntime' = First(ready_queue')
  /\ UNCHANGED <<delta, nice, held>>

\* remove_entry looks under the vruntime the task has now; nothing happens to a task that is
\* not found.
remove_task(t) ==
  \E i \in DOMAIN ready_queue :
    /\ removes
    /\ ready_queue[i] = [task |-> t, vruntime |-> get_vruntime(t)]
    /\ ready_queue' = SubSeq(ready_queue, 1, i - 1) \o SubSeq(ready_queue, i + 1, Len(ready_queue))
    /\ min_vruntime' = First(ready_queue')
    /\ min_vruntime' # None => min_vruntime' <= MaxVruntime
    /\ UNCHANGED <<entityVars, held>>

\* Mutant: the task is looked at and stays in the queue.
PickKeeps(t) ==
  /\ ready_queue # <<>>
  /\ Cardinality(held) < Cpus
  /\ t = Head(ready_queue).task
  /\ held' = held \cup {t}
  /\ UNCHANGED <<ready_queue, min_vruntime, entityVars>>

\* pop_first; min_vruntime stays.
pick_next_task(t) ==
  /\ ready_queue # <<>>
  /\ Cardinality(held) < Cpus
  /\ t = Head(ready_queue).task
  /\ ready_queue' = Tail(ready_queue)
  /\ held' = held \cup {t}
  /\ UNCHANGED <<min_vruntime, entityVars>>

put_prev_task(t) ==
  /\ t \in held
  /\ held' = held \ {t}
  /\ Insert(t, get_vruntime(t))
  /\ UNCHANGED <<min_vruntime, entityVars>>

task_tick(t) ==
  /\ t \in held
  /\ get_vruntime(t) < MaxVruntime
  /\ delta' = [delta EXCEPT ![t] = @ + 1]
  /\ UNCHANGED <<ready_queue, min_vruntime, init_vruntime, nice, held>>

\* set_priority of the current task.
set_priority(t, n) ==
  /\ t \in held
  /\ init_vruntime' = [init_vruntime EXCEPT ![t] = get_vruntime(t)]
  /\ delta' = [delta EXCEPT ![t] = 0]
  /\ nice' = [nice EXCEPT ![t] = n]
  /\ UNCHANGED <<ready_queue, min_vruntime, held>>

\* The CPU drops the task: it is Blocked or Exited.
Leave(t) ==
  /\ t \in held
  /\ held' = held \ {t}
  /\ UNCHANGED <<ready_queue, min_vruntime, entityVars>>

Next ==
  /\ UNCHANGED removes
  /\ \E t \in Task :
       \/ add_task(t) \/ remove_task(t) \/ pick_next_task(t) \/ put_prev_task(t)
       \/ task_tick(t) \/ Leave(t)
       \/ \E n \in Nice : set_priority(t, n)

Spec == Init /\ [][Next]_vars

----------------------------------------------------------------------------
(* Properties.                                                             *)

\* Unless tasks are removed, min_vruntime is a lower bound of the queue and of the tasks
\* on the CPUs: no task that comes back can be before one that is added.
MinIsLower ==
  ~removes /\ min_vruntime # None =>
    /\ \A i \in DOMAIN ready_queue : min_vruntime <= ready_queue[i].vruntime
    /\ \A t \in held : min_vruntime <= get_vruntime(t)

NoOvertaking == [][MinIsLower']_vars

Base == INSTANCE BaseScheduler WITH queued <- Queued

\* CFScheduler is a BaseScheduler: it gives out the tasks that were added to it, each to
\* one CPU.
ImplementsBase == Base!Spec
=============================================================================
