---------------------------- MODULE ProcessState ----------------------------
(***************************************************************************)
(* The state of Process: executors, threads, signal modules and the tables *)
(* that list them, with the names that its actions, its properties and the *)
(* proofs about them share.                                                *)
(***************************************************************************)
EXTENDS Integers, Sequences, FiniteSets, Functions

CONSTANTS
  None,
  Pid, Tid,   \* what TaskId::new gives out: numbers from 1
  Machines,   \* pairs: a number of CPUs, and the set of calls that the programs make
  Code        \* exit codes

Kernel == 0   \* KERNEL_EXECUTOR_ID

SIGKILL == 9
SIGUSR1 == 10
SIGSEGV == 11
SIGCHLD == 17
SignalNo == {SIGKILL, SIGUSR1, SIGSEGV, SIGCHLD}

VARIABLES
  cpus, calls,
  on,        \* the threads that are on a CPU
  pid2pc,    \* the keys of PID2PC
  locked,    \* the thread that holds PID2PC across steps
  tid2task,  \* the keys of TID2TASK
  proc,      \* the executors, created or not
  task,      \* the threads, created or not
  handlers,  \* the SignalHandler tables, named by the thread they were made for
  at, loc,   \* where each thread is, and its local variables
  panicked,
  ended,     \* history: the code with which the leader of a process called exit
  reaped     \* history: what wait4 reported

tables == <<pid2pc, locked, tid2task>>
history == <<ended, reaped>>
vars == <<cpus, calls, on, tables, proc, task, handlers, at, loc, panicked, history>>

----------------------------------------------------------------------------
(* Executors, threads and signal modules.                                  *)

Executor(parent) ==
  [parent |-> parent, children |-> <<>>, tasks |-> {}, main_task |-> None, zombie |-> FALSE,
   exit_code |-> 0, vfork |-> FALSE, modules |-> [t \in Tid |-> None]]

init_signal(table, exit_signal) ==
  [pending |-> {}, mask |-> {}, frame |-> FALSE, handler |-> table, exit_signal |-> exit_signal]

Defaults == [s \in SignalNo |-> "dfl"]

Module ==
  [pending : SUBSET SignalNo, mask : SUBSET SignalNo, frame : BOOLEAN, handler : Tid, exit_signal : SignalNo \cup {None}]

ASSUME ConstantsAssumption ==
  /\ Pid \subseteq Nat \ {Kernel} /\ 1 \in Pid
  /\ Tid \subseteq Nat \ {0} /\ 1 \in Tid
  /\ Code \subseteq Int
  /\ None \notin Pid \cup Tid \cup Module

P(t) == task[t].pid
MyModule(t) == proc[P(t)].modules[t]
Leader(t) == task[t].leader

\* The kinds of clone: a thread, a child, a vfork child, or a child of the own parent.
CloneKind == {"thread", "fork", "vfork", "parent"}

\* The local variables of a call, all of them unused.
NoLoc == [kind |-> None, tid |-> None, pid |-> None, parent |-> None, sig |-> None, after |-> None,
          must |-> FALSE, code |-> 0]

Init ==
  /\ \E m \in Machines : cpus = m[1] /\ calls = m[2]
  /\ on = {}
  /\ pid2pc = {Kernel, 1}
  /\ locked = None
  /\ tid2task = {1}
  /\ proc = [p \in Pid \cup {Kernel} |->
       IF p = Kernel THEN [Executor(Kernel) EXCEPT !.children = <<1>>]
       ELSE IF p = 1
       THEN [Executor(Kernel) EXCEPT !.tasks = {1}, !.main_task = 1, !.modules[1] = init_signal(1, None)]
       ELSE Executor(Kernel)]
  /\ task = [t \in Tid |-> [pid |-> 1, leader |-> t = 1, exited |-> FALSE]]
  /\ handlers = [t \in Tid |-> Defaults]
  /\ at = [t \in Tid |-> IF t = 1 THEN "user" ELSE "unborn"]
  /\ loc = [t \in Tid |-> NoLoc]
  /\ panicked = None
  /\ ended = [p \in Pid |-> None]
  /\ reaped = <<>>

\* wait4 has reported p.
Reaped(p) == \E i \in DOMAIN reaped : reaped[i].pid = p

\* A thread of p has been started.
Created(p) == \E t \in Tid : at[t] \notin {"unborn", "made"} /\ P(t) = p
=============================================================================
