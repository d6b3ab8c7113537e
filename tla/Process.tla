------------------------------ MODULE Process ------------------------------
(***************************************************************************)
(* The processes of modules/executor: the tables of processes and threads, *)
(* clone, exec, exit and wait, and the signals that run between them.      *)
(*                                                                         *)
(* A step is what one thread does under one lock.  A thread that is on a   *)
(* CPU keeps it until it yields or returns to user mode, so that on one    *)
(* CPU the kernel part of a call is only interrupted where it yields; with *)
(* two CPUs the steps of two threads interleave at every lock.             *)
(*                                                                         *)
(* The user program is any sequence of the calls in `calls`.  Memory, open *)
(* files, clear_child_tid, the interval timers and signal stacks are left  *)
(* out.  Blocked threads are too: every wait of this code is a loop that   *)
(* yields, and the wakeup of a blocked thread is that of TaskSched.        *)
(***************************************************************************)
EXTENDS ProcessState

\* SignalSet::find_signal: the lowest pending signal that is not masked; SIGKILL cannot be.
Deliverable(m) == {s \in m.pending : s \notin m.mask \/ s = SIGKILL}
find_signal(m) ==
  IF Deliverable(m) = {} THEN None
  ELSE CHOOSE s \in Deliverable(m) : \A o \in Deliverable(m) : s <= o

\* SignalDefault::get_action, for the signals of the model.
Ignored(s) == s = SIGCHLD

\* t is on a CPU and its code is at a.
At(t, a) == t \in on /\ at[t] = a
Goto(t, a) == at' = [at EXCEPT ![t] = a]

\* The thread gives up its CPU and stays where it is.
YieldNow(t) == on' = on \ {t} /\ UNCHANGED at

\* The call is over; signals are handled before the return to user mode.
Return(t) == Goto(t, "signals") /\ loc' = [loc EXCEPT ![t] = NoLoc]

Panic(why) ==
  /\ panicked' = why
  /\ UNCHANGED <<on, tables, proc, task, handlers, at, loc, history>>

Schedule(t) ==
  /\ t \notin on
  /\ at[t] \notin {"unborn", "made", "gone"}
  /\ Cardinality(on) < cpus
  /\ on' = on \cup {t}
  /\ UNCHANGED <<tables, proc, task, handlers, at, loc, panicked, history>>

\* An interrupt in user mode; when the slice of the thread is over, another one gets the CPU.
Trap(t, over) ==
  /\ At(t, "user")
  /\ Goto(t, "signals")
  /\ on' = IF over THEN on \ {t} ELSE on
  /\ UNCHANGED <<tables, proc, task, handlers, loc, panicked, history>>

\* The call that t makes from user mode.
Call(t, name) == At(t, "user") /\ name \in calls

----------------------------------------------------------------------------
(* clone: a thread, a child, a vfork child, or a child of the own parent.  *)

FreshTid == {t \in Tid : at[t] = "unborn" /\ \A u \in Tid : u < t => at[u] /= "unborn"}
UsedPid == {task[t].pid : t \in {u \in Tid : at[u] /= "unborn"}}
FreshPid == {p \in Pid \ UsedPid : \A q \in Pid : q < p => q \in UsedPid}

CloneTask(t, kind) ==
  /\ Call(t, kind)
  /\ \E n \in FreshTid, q \in IF kind = "thread" THEN {P(t)} ELSE FreshPid :
       /\ tid2task' = tid2task \cup {n}
       /\ task' = [task EXCEPT ![n] = [pid |-> q, leader |-> FALSE, exited |-> FALSE]]
       /\ handlers' = [handlers EXCEPT ![n] = handlers[MyModule(t).handler]]
       /\ at' = [at EXCEPT ![t] = "clone", ![n] = "made"]
       /\ loc' = [loc EXCEPT ![t] = [NoLoc EXCEPT !.kind = kind, !.tid = n, !.pid = q,
                                       !.parent = IF kind = "parent" THEN proc[P(t)].parent ELSE P(t)]]
  /\ UNCHANGED <<on, pid2pc, locked, proc, panicked, history>>

\* The address for the tid is not mapped: the call fails after TID2TASK was changed.
CloneBadAddress(t) ==
  /\ Call(t, "badtid")
  /\ \E n \in FreshTid :
       /\ tid2task' = tid2task \cup {n}
       /\ at' = [at EXCEPT ![t] = "signals", ![n] = "made"]
       /\ \E q \in FreshPid : task' = [task EXCEPT ![n] = [@ EXCEPT !.pid = q, !.leader = FALSE]]
  /\ UNCHANGED <<on, pid2pc, locked, proc, handlers, loc, panicked, history>>

CloneThread(t) ==
  /\ At(t, "clone") /\ loc[t].kind = "thread"
  /\ proc' = [proc EXCEPT ![P(t)].tasks = @ \cup {loc[t].tid}]
  /\ Goto(t, "clone_module")
  /\ UNCHANGED <<on, tables, task, handlers, loc, panicked, history>>

CloneProcess(t) ==
  LET n == loc[t].tid  q == loc[t].pid IN
  /\ At(t, "clone") /\ loc[t].kind /= "thread"
  /\ locked = None
  /\ pid2pc' = pid2pc \cup {q}
  /\ task' = [task EXCEPT ![n].leader = TRUE]
  /\ proc' = [proc EXCEPT ![q] = [Executor(loc[t].parent) EXCEPT !.main_task = n, !.tasks = {n}]]
  /\ Goto(t, "clone_module")
  /\ UNCHANGED <<on, locked, tid2task, handlers, loc, panicked, history>>

\* A thread shares the handlers of its creator (CLONE_SIGHAND) and has no exit signal.
CloneModule(t) ==
  LET n == loc[t].tid IN
  /\ At(t, "clone_module")
  /\ proc' = [proc EXCEPT ![loc[t].pid].modules[n] =
       IF loc[t].kind = "thread" THEN init_signal(MyModule(t).handler, None) ELSE init_signal(n, SIGCHLD)]
  /\ Goto(t, IF loc[t].kind = "thread" THEN "clone_run" ELSE "clone_child")
  /\ UNCHANGED <<on, tables, task, handlers, loc, panicked, history>>

CloneChild(t) ==
  /\ At(t, "clone_child") /\ locked = None
  /\ \/ /\ loc[t].parent \in pid2pc
        /\ proc' = [proc EXCEPT ![loc[t].parent].children = Append(@, loc[t].pid)]
        /\ Goto(t, "clone_run")
        /\ UNCHANGED <<on, tables, task, handlers, loc, panicked, history>>
     \/ loc[t].parent \notin pid2pc /\ Panic("clone_task: the parent is gone")

CloneRun(t) ==
  /\ At(t, "clone_run")
  /\ at' = [at EXCEPT ![loc[t].tid] = "user", ![t] = IF loc[t].kind = "vfork" THEN "vfork" ELSE "signals"]
  /\ loc' = [loc EXCEPT ![t] = NoLoc]
  /\ UNCHANGED <<on, tables, proc, task, handlers, panicked, history>>

VforkBlock(t) ==
  /\ At(t, "vfork")
  /\ proc' = [proc EXCEPT ![P(t)].vfork = TRUE]
  /\ Goto(t, "vfork_wait")
  /\ UNCHANGED <<on, tables, task, handlers, loc, panicked, history>>

VforkWait(t) ==
  /\ At(t, "vfork_wait")
  /\ \/ proc[P(t)].vfork /\ YieldNow(t) /\ UNCHANGED loc
     \/ ~proc[P(t)].vfork /\ Return(t) /\ UNCHANGED on
  /\ UNCHANGED <<tables, proc, task, handlers, panicked, history>>

----------------------------------------------------------------------------
(* exec                                                                    *)

\* The only thread becomes the leader.  Loading the program may fail: then the process exits.
Exec(t) ==
  /\ Call(t, "exec")
  /\ \/ /\ proc[P(t)].tasks = {t}
        /\ task' = [task EXCEPT ![t].leader = TRUE]
        /\ proc' = [proc EXCEPT ![P(t)].main_task = t]
        /\ \E next \in {"exec", "exit"} : Goto(t, next)
        /\ UNCHANGED <<on, tables, handlers, loc, panicked, history>>
     \/ proc[P(t)].tasks /= {t} /\ Panic("exec: another task")

ExecReset(t) ==
  /\ At(t, "exec")
  /\ proc' = [proc EXCEPT ![P(t)].modules = [u \in Tid |-> IF u = t THEN init_signal(t, None) ELSE None]]
  /\ handlers' = [handlers EXCEPT ![t] = Defaults]
  /\ Goto(t, "exec_release")
  /\ UNCHANGED <<on, tables, task, loc, panicked, history>>

ExecRelease(t) ==
  LET parent == proc[P(t)].parent IN
  /\ At(t, "exec_release") /\ locked = None
  /\ \/ /\ parent \in pid2pc
        /\ proc' = [proc EXCEPT ![parent].vfork = FALSE]
        /\ Return(t)
        /\ UNCHANGED <<on, tables, task, handlers, panicked, history>>
     \/ parent \notin pid2pc /\ Panic("exec: the parent is gone")

----------------------------------------------------------------------------
(* exit                                                                    *)

Exit(t, code) ==
  /\ Call(t, "exit")
  /\ Goto(t, "exit")
  /\ loc' = [loc EXCEPT ![t].code = code]
  /\ UNCHANGED <<on, tables, proc, task, handlers, panicked, history>>

\* The parent hears of it: the signal must be deliverable.
ExitSignal(t) ==
  LET signal == MyModule(t).exit_signal  parent == proc[P(t)].parent IN
  /\ At(t, "exit")
  /\ \/ MyModule(t) = None /\ Panic("exit: no module")
     \/ /\ MyModule(t) /= None
        /\ ended' = IF Leader(t) THEN [ended EXCEPT ![P(t)] = loc[t].code] ELSE ended
        /\ \/ /\ (signal /= None \/ Leader(t)) /\ parent /= Kernel
              /\ loc' = [loc EXCEPT ![t] = [@ EXCEPT !.pid = parent, !.must = TRUE, !.after = "exit_tasks",
                                              !.sig = IF signal = None THEN SIGCHLD ELSE signal]]
              /\ Goto(t, "send")
           \/ /\ (signal = None /\ ~Leader(t)) \/ parent = Kernel
              /\ Goto(t, "exit_tasks")
              /\ UNCHANGED loc
        /\ UNCHANGED <<on, tables, proc, task, handlers, panicked, reaped>>

\* send_signal_to_thread finds the thread, its process and its module.
Reachable(u) == u \in tid2task /\ P(u) \in pid2pc /\ MyModule(u) /= None
Pend(ps, us, s) ==
  LET get(m) == [m EXCEPT !.pending = m.pending \cup {s}] IN
  [ps EXCEPT !.modules = [u \in Tid |-> IF u \in us THEN get(ps.modules[u]) ELSE ps.modules[u]]]


\* The leader kills the threads that are left, until none is.
ExitTasks(t) ==
  LET left == {u \in proc[P(t)].tasks : ~Leader(u) /\ ~task[u].exited} IN
  /\ At(t, "exit_tasks") /\ Leader(t)
  /\ \/ /\ left = {}
        /\ Goto(t, "exit_main")
        /\ UNCHANGED <<on, tables, proc, task, handlers, loc, panicked, history>>
     \/ /\ left /= {} /\ locked = None
        /\ \A u \in left : Reachable(u)
        /\ proc' = [proc EXCEPT ![P(t)] = Pend(@, left, SIGKILL)]
        /\ YieldNow(t)
        /\ UNCHANGED <<tables, task, handlers, loc, panicked, history>>
     \/ /\ locked = None
        /\ \E u \in left : ~Reachable(u)
        /\ Panic("exit: a thread is gone")

\* Mutant of ExitLeave: the thread leaves the list of its process first.
ExitLeaveUnlinks(t) ==
  /\ At(t, "exit_tasks") /\ ~Leader(t)
  /\ tid2task' = tid2task \ {t}
  /\ proc' = [proc EXCEPT ![P(t)].tasks = @ \ {t}]
  /\ Goto(t, "exit_unlink")
  /\ UNCHANGED <<on, pid2pc, locked, task, handlers, loc, panicked, history>>

\* A thread that is not the leader takes itself out of the tables.
ExitLeave(t) ==
  /\ At(t, "exit_tasks") /\ ~Leader(t)
  /\ tid2task' = tid2task \ {t}
  /\ Goto(t, "exit_unlink")
  /\ UNCHANGED <<on, pid2pc, locked, proc, task, handlers, loc, panicked, history>>

ExitUnlink(t) ==
  /\ At(t, "exit_unlink")
  /\ proc' = [proc EXCEPT ![P(t)].tasks = @ \ {t}, ![P(t)].modules[t] = None]
  /\ Goto(t, "exit_done")
  /\ UNCHANGED <<on, tables, task, handlers, loc, panicked, history>>

ExitMain(t) ==
  /\ At(t, "exit_main")
  /\ tid2task' = tid2task \ {t}
  /\ proc' = [proc EXCEPT ![P(t)].main_task = None]
  /\ Goto(t, "exit_clear")
  /\ UNCHANGED <<on, pid2pc, locked, task, handlers, loc, panicked, history>>

\* Two lists with a lock each: nothing uses the tasks once the leader is past its loop.
ExitClear(t) ==
  /\ At(t, "exit_clear")
  /\ proc' = [proc EXCEPT ![P(t)].tasks = {}, ![P(t)].modules = [u \in Tid |-> None]]
  /\ Goto(t, "exit_table")
  /\ UNCHANGED <<on, tables, task, handlers, loc, panicked, history>>

\* Mutant of ExitTable: the children keep their parent.
ExitTableOrphans(t) ==
  /\ At(t, "exit_table") /\ locked = None
  /\ proc' = [proc EXCEPT ![proc[P(t)].parent].vfork = FALSE]
  /\ pid2pc' = pid2pc \ {P(t)}
  /\ Goto(t, "exit_code")
  /\ UNCHANGED <<on, locked, tid2task, task, handlers, loc, panicked, history>>

\* Under PID2PC: the children go to the kernel, the parent's vfork ends, the process leaves the table.
ExitTable(t) ==
  LET orphans == proc[P(t)].children IN
  /\ At(t, "exit_table") /\ locked = None
  /\ proc' = [p \in DOMAIN proc |->
       [proc[p] EXCEPT
          !.parent = IF p \in Range(orphans) THEN Kernel ELSE @,
          !.children = IF p = Kernel THEN @ \o orphans ELSE @,
          !.vfork = @ /\ p /= proc[P(t)].parent]]
  /\ pid2pc' = pid2pc \ {P(t)}
  /\ Goto(t, "exit_code")
  /\ UNCHANGED <<on, locked, tid2task, task, handlers, loc, panicked, history>>

\* Mutant of ExitCode: the code is not stored.
ExitCodeForgotten(t) ==
  /\ At(t, "exit_code")
  /\ Goto(t, "exit_zombie")
  /\ UNCHANGED <<on, tables, proc, task, handlers, loc, panicked, history>>

ExitCode(t) ==
  /\ At(t, "exit_code")
  /\ proc' = [proc EXCEPT ![P(t)].exit_code = loc[t].code]
  /\ Goto(t, "exit_zombie")
  /\ UNCHANGED <<on, tables, task, handlers, loc, panicked, history>>

ExitZombie(t) ==
  /\ At(t, "exit_zombie")
  /\ proc' = [proc EXCEPT ![P(t)].zombie = TRUE]
  /\ Goto(t, "exit_done")
  /\ UNCHANGED <<on, tables, task, handlers, loc, panicked, history>>

\* The state is Exited; the thread does not come back from its trap.
ExitDone(t) ==
  /\ At(t, "exit_done")
  /\ task' = [task EXCEPT ![t].exited = TRUE]
  /\ Goto(t, "gone")
  /\ on' = on \ {t}
  /\ loc' = [loc EXCEPT ![t] = NoLoc]
  /\ UNCHANGED <<tables, proc, handlers, panicked, history>>

----------------------------------------------------------------------------
(* wait4: pid None stands for -1, any child.                               *)

Wait4(t, pid, nohang) ==
  /\ Call(t, "wait")
  /\ Goto(t, "wait")
  /\ loc' = [loc EXCEPT ![t] = [@ EXCEPT !.pid = pid, !.must = nohang]]
  /\ UNCHANGED <<on, tables, proc, task, handlers, panicked, history>>

\* The children that wait_pid looks at, and those that are zombies; it takes the first one.
Wanted(t) ==
  LET kids == proc[P(t)].children IN {i \in DOMAIN kids : loc[t].pid \in {None, kids[i]}}
Zombies(t) == {i \in Wanted(t) : proc[proc[P(t)].children[i]].zombie}

WaitScan(t) ==
  LET kids == proc[P(t)].children IN
  /\ At(t, "wait")
  /\ \/ \E i \in Zombies(t) :
          /\ \A j \in Zombies(t) : i <= j
          /\ loc' = [loc EXCEPT ![t] = [@ EXCEPT !.tid = i, !.pid = kids[i], !.code = proc[kids[i]].exit_code]]
          /\ Goto(t, "wait_remove") /\ UNCHANGED on
     \* ECHILD, or 0 with WNOHANG, or EINTR and ERESTART
     \/ /\ Wanted(t) = {} \/ (Zombies(t) = {} /\ (loc[t].must \/ find_signal(MyModule(t)) /= None))
        /\ Return(t) /\ UNCHANGED on
     \/ /\ Wanted(t) /= {} /\ Zombies(t) = {} /\ ~loc[t].must /\ find_signal(MyModule(t)) = None
        /\ YieldNow(t) /\ UNCHANGED loc
  /\ UNCHANGED <<tables, proc, task, handlers, panicked, history>>

\* The lock was released: the child is removed by its place.
WaitRemove(t) ==
  LET kids == proc[P(t)].children  i == loc[t].tid IN
  /\ At(t, "wait_remove")
  /\ \/ /\ i \in DOMAIN kids
        /\ proc' = [proc EXCEPT ![P(t)].children = SubSeq(@, 1, i - 1) \o SubSeq(@, i + 1, Len(@))]
        /\ reaped' = Append(reaped, [by |-> P(t), pid |-> loc[t].pid, code |-> loc[t].code])
        /\ Return(t)
        /\ UNCHANGED <<on, tables, task, handlers, panicked, ended>>
     \/ i \notin DOMAIN kids /\ Panic("wait_pid: no such child")

----------------------------------------------------------------------------
(* Signals                                                                 *)

\* send_signal_to_process holds PID2PC while it looks up the main task and its module.
SendFind(t) ==
  LET main == proc[loc[t].pid].main_task IN
  /\ At(t, "send") /\ locked = None
  /\ \/ loc[t].pid \notin pid2pc /\ loc[t].must /\ Panic("exit: the parent is gone")
     \/ /\ (loc[t].pid \notin pid2pc /\ ~loc[t].must) \/ (loc[t].pid \in pid2pc /\ main = None)
        /\ Goto(t, loc[t].after)
        /\ UNCHANGED <<on, tables, proc, task, handlers, loc, panicked, history>>
     \/ /\ loc[t].pid \in pid2pc /\ main /= None
        /\ locked' = t
        /\ loc' = [loc EXCEPT ![t].tid = main]
        /\ Goto(t, "send_put")
        /\ UNCHANGED <<on, pid2pc, tid2task, proc, task, handlers, panicked, history>>

SendPut(t) ==
  LET p == loc[t].pid  u == loc[t].tid IN
  /\ At(t, "send_put")
  /\ \/ /\ proc[p].modules[u] /= None
        /\ proc' = [proc EXCEPT ![p] = Pend(@, {u}, loc[t].sig)]
        /\ locked' = None
        /\ Goto(t, loc[t].after)
        /\ loc' = [loc EXCEPT ![t] = [NoLoc EXCEPT !.code = loc[t].code]]
        /\ UNCHANGED <<on, pid2pc, tid2task, task, handlers, panicked, history>>
     \/ proc[p].modules[u] = None /\ Panic("send_signal_to_process: no module")

Kill(t, pid, s) ==
  /\ Call(t, "kill")
  /\ Goto(t, "send")
  /\ loc' = [loc EXCEPT ![t] = [@ EXCEPT !.pid = pid, !.sig = s, !.after = "signals"]]
  /\ UNCHANGED <<on, tables, proc, task, handlers, panicked, history>>

\* tkill, and with u = t the SIGSEGV of a page fault that cannot be served.
Tkill(t, u, s) ==
  /\ Call(t, "tkill") \/ (Call(t, "fault") /\ u = t /\ s = SIGSEGV)
  /\ locked = None
  /\ proc' = IF Reachable(u) THEN [proc EXCEPT ![P(u)] = Pend(@, {u}, s)] ELSE proc
  /\ Return(t)
  /\ UNCHANGED <<on, tables, task, handlers, panicked, history>>

Sigaction(t, s, action) ==
  /\ Call(t, "sigaction")
  /\ s /= SIGKILL
  /\ handlers' = [handlers EXCEPT ![MyModule(t).handler][s] = action]
  /\ Return(t)
  /\ UNCHANGED <<on, tables, proc, task, panicked, history>>

Sigprocmask(t, how, set) ==
  /\ Call(t, "sigprocmask")
  /\ proc' = [proc EXCEPT ![P(t)].modules[t].mask =
       CASE how = "block" -> @ \cup set [] how = "unblock" -> @ \ set [] how = "setmask" -> set]
  /\ Return(t)
  /\ UNCHANGED <<on, tables, task, handlers, panicked, history>>

\* load_trap_for_signal: the saved trap frame comes back, if there is one.
Sigreturn(t) ==
  /\ Call(t, "sigreturn")
  /\ proc' = [proc EXCEPT ![P(t)].modules[t].frame = FALSE]
  /\ Return(t)
  /\ UNCHANGED <<on, tables, task, handlers, panicked, history>>

Sigsuspend(t, set) ==
  /\ Call(t, "sigsuspend")
  /\ \/ MyModule(t).frame /\ Return(t) /\ UNCHANGED proc
     \/ /\ ~MyModule(t).frame
        /\ proc' = [proc EXCEPT ![P(t)].modules[t].mask = set]
        /\ Goto(t, "suspend") /\ UNCHANGED loc
  /\ UNCHANGED <<on, tables, task, handlers, panicked, history>>

SuspendLoop(t) ==
  /\ At(t, "suspend")
  /\ \/ find_signal(MyModule(t)) = None /\ YieldNow(t) /\ UNCHANGED loc
     \/ find_signal(MyModule(t)) /= None /\ Return(t) /\ UNCHANGED on
  /\ UNCHANGED <<tables, proc, task, handlers, panicked, history>>

\* The module after a signal was taken and the trap frame was saved for its handler.
Taken(m, s, frame) == [m EXCEPT !.pending = @ \ {s}, !.frame = frame]
SetMine(t, m) == proc' = [proc EXCEPT ![P(t)].modules[t] = m]

\* terminate_process: another thread than the leader passes the signal on to it.
Terminate(t, s) ==
  IF Leader(t)
  THEN Goto(t, "exit") /\ loc' = [loc EXCEPT ![t].code = s]
  ELSE /\ Goto(t, "send")
       /\ loc' = [loc EXCEPT ![t] = [@ EXCEPT !.pid = P(t), !.sig = s, !.must = TRUE, !.after = "exit",
                                       !.code = -1]]

HandleSignals(t) ==
  LET m == MyModule(t)  s == find_signal(m)  action == handlers[m.handler][s] IN
  /\ At(t, "signals")
  /\ \/ (m = None \/ proc[P(t)].zombie) /\ Panic("handle_signals: the process is gone")
     \/ /\ m /= None /\ ~proc[P(t)].zombie
        /\ \/ s = None /\ UNCHANGED <<proc, loc>> /\ Goto(t, "user")
           \* a handler is running: the signal is taken and dropped
           \/ /\ s /= None /\ m.frame
              /\ SetMine(t, Taken(m, s, TRUE))
              /\ IF s = SIGSEGV THEN Goto(t, "exit") /\ loc' = [loc EXCEPT ![t].code = -1]
                 ELSE Goto(t, "user") /\ UNCHANGED loc
           \/ /\ s /= None /\ ~m.frame /\ action = "dfl"
              /\ SetMine(t, Taken(m, s, ~Ignored(s)))
              /\ IF Ignored(s) THEN Goto(t, "user") /\ UNCHANGED loc ELSE Terminate(t, s)
           \/ /\ s /= None /\ ~m.frame /\ action /= "dfl"
              /\ SetMine(t, Taken(m, s, TRUE))
              /\ Goto(t, "user") /\ UNCHANGED loc
        /\ UNCHANGED <<on, tables, task, handlers, panicked, history>>

----------------------------------------------------------------------------
UserCall(t) ==
  \/ \E kind \in CloneKind : CloneTask(t, kind)
  \/ CloneBadAddress(t)
  \/ Exec(t)
  \/ \E code \in Code : Exit(t, code)
  \/ \E pid \in Pid \cup {None}, nohang \in BOOLEAN : Wait4(t, pid, nohang)
  \/ \E pid \in Pid, s \in {SIGKILL, SIGUSR1} : Kill(t, pid, s)
  \/ \E u \in Tid, s \in {SIGKILL, SIGUSR1, SIGSEGV} : Tkill(t, u, s)
  \/ \E action \in {"dfl", "ign", "fn"} : Sigaction(t, SIGUSR1, action)
  \/ \E how \in {"block", "unblock", "setmask"}, set \in {{SIGUSR1}, {SIGKILL}} : Sigprocmask(t, how, set)
  \/ Sigreturn(t)
  \/ \E set \in {{}, {SIGUSR1}} : Sigsuspend(t, set)

KernelStep(t) ==
  \/ CloneThread(t) \/ CloneProcess(t) \/ CloneModule(t) \/ CloneChild(t) \/ CloneRun(t)
  \/ VforkBlock(t) \/ VforkWait(t) \/ ExecReset(t) \/ ExecRelease(t)
  \/ ExitSignal(t) \/ ExitTasks(t) \/ ExitLeave(t) \/ ExitUnlink(t) \/ ExitMain(t) \/ ExitClear(t)
  \/ ExitTable(t) \/ ExitCode(t) \/ ExitZombie(t) \/ ExitDone(t)
  \/ WaitScan(t) \/ WaitRemove(t) \/ SendFind(t) \/ SendPut(t) \/ SuspendLoop(t) \/ HandleSignals(t)

\* Nothing runs after a panic.
Alive == panicked = None /\ UNCHANGED <<cpus, calls>>

Next == Alive /\ \E t \in Tid : Schedule(t) \/ (\E over \in BOOLEAN : Trap(t, over)) \/ UserCall(t) \/ KernelStep(t)

Spec == Init /\ [][Next]_vars

\* A CPU executes the thread it has; no thread waits for a CPU for ever, and none keeps its CPU for
\* ever in user mode: its slice ends.
FairSpec ==
  /\ Spec
  /\ \A t \in Tid : /\ WF_vars(Alive /\ KernelStep(t))
                    /\ SF_vars(Alive /\ (Schedule(t) \/ Trap(t, TRUE)))

----------------------------------------------------------------------------
(* Properties                                                              *)

\* wait4 reports the code with which the leader of that child called exit, and in processes of one
\* thread it reports no child twice, although wait_pid looks for it under one lock and removes it under
\* another.
WaitReports ==
  /\ \A i \in DOMAIN reaped : reaped[i].code = ended[reaped[i].pid]
  /\ "thread" \notin calls => \A i, j \in DOMAIN reaped : reaped[i].pid = reaped[j].pid => i = j

\* p is being created: clone has not yet made it a child of its parent.
Cloning(p) == \E t \in Tid : at[t] \in {"clone", "clone_module", "clone_child"} /\ loc[t].pid = p

\* A process that was not waited for has a parent that is in PID2PC and lists it among its children:
\* exit hands its own children, alive or not, to the kernel.  So on one CPU no unwrap of exit,
\* wait_pid, clone_task and the signal code fails, although threads exit, are killed and lose their
\* parents in between.  exec refuses a process with a second thread by a panic of its own.
Kin ==
  /\ \A p \in Pid : Created(p) /\ ~Cloning(p) /\ ~Reaped(p) =>
       /\ proc[p].parent \in pid2pc
       /\ p \in Range(proc[proc[p].parent].children)
  /\ cpus = 1 => panicked \in {None, "exec: another task"}

\* When a process is a zombie none of its threads will run again.
ThreadsGone ==
  \A t \in Tid : proc[P(t)].zombie => at[t] \in {"unborn", "made", "gone", "exit_done"}

=============================================================================
