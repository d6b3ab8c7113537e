-------------------------- MODULE ProcessInvariant --------------------------
(***************************************************************************)
(* The inductive invariant of Process, for every set of processes, threads *)
(* and machines.                                                           *)
(*                                                                         *)
(* Most steps are quiet: they move one thread between places where it does *)
(* the same to the lists of threads and children, and leave those alone.   *)
(* Each of the others has a predicate of its own, named after its action:  *)
(* what it changes and what it keeps, field by field.  Here the invariants *)
(* are proved from these predicates; that every step is one of them is     *)
(* proved in ProcessProofs, from the actions.                              *)
(***************************************************************************)
EXTENDS ProcessState, TLAPS

\* Every leaf goes to Zenon, with time to spare, unless it names another prover.
USE ZenonT(60)

----------------------------------------------------------------------------
(* Where a thread is.                                                      *)

\* In user mode, or in a call that leaves the lists of threads alone.
Plain == {"user", "signals", "vfork", "vfork_wait", "exec_release", "exit", "exit_tasks", "wait", "wait_remove",
          "suspend", "send", "send_put"}

Clone == {"clone", "clone_module", "clone_child", "clone_run"}

\* No other thread of the process is left.
Alone == {"exec", "exit_main", "exit_clear", "exit_table", "exit_code", "exit_zombie"}

Live == Plain \cup Clone \cup Alone \cup {"exit_unlink"}

Place == Live \cup {"unborn", "made", "exit_done", "gone"}

\* The list of threads and the table of modules are empty.
Cleared == {"exit_table", "exit_code", "exit_zombie"}

\* The executors: those of processes and of the kernel.
Procs == Pid \cup {Kernel}

ExecutorType ==
  [parent : Procs, children : Seq(Pid), tasks : SUBSET Tid, main_task : Tid \cup {None}, zombie : BOOLEAN,
   exit_code : Int, vfork : BOOLEAN, modules : [Tid -> Module \cup {None}]]

LocType ==
  [kind : CloneKind \cup {None}, tid : Nat \cup {None}, pid : Procs \cup {None}, parent : Procs \cup {None},
   sig : SignalNo \cup {None}, after : {None, "exit_tasks", "signals", "exit"}, must : BOOLEAN, code : Int]

\* The local variables l that a thread reads at place a.
Local(a, l) ==
  /\ a \in {"user", "signals", "unborn", "made"} => ~l.must
  /\ a \in Clone => /\ l.kind \in CloneKind /\ l.tid \in Tid /\ l.pid \in Pid /\ l.parent \in Procs
                    /\ l.kind = "thread" => "thread" \in calls
  /\ a \in {"send", "send_put"} => /\ l.pid \in Procs /\ l.sig \in SignalNo
                                   /\ l.after \in {"exit_tasks", "signals", "exit"}
                                   /\ l.after = "signals" => ~l.must
  /\ a = "send_put" => l.tid \in Tid
  /\ a \in {"wait", "wait_remove"} => "wait" \in calls
  /\ a = "wait_remove" => l.tid \in Nat /\ l.pid \in Pid

TypeOK ==
  /\ on \subseteq Tid
  /\ pid2pc \subseteq Procs /\ Kernel \in pid2pc
  /\ tid2task \subseteq Tid
  /\ proc \in [Procs -> ExecutorType]
  /\ task \in [Tid -> [pid : Pid, leader : BOOLEAN, exited : BOOLEAN]]
  /\ at \in [Tid -> Place]
  /\ loc \in [Tid -> LocType]
  /\ ended \in [Pid -> Int \cup {None}]
  /\ reaped \in Seq([by : Pid, pid : Pid, code : Int])
  /\ \A t \in Tid : Local(at[t], loc[t])

----------------------------------------------------------------------------
(* Threads and the lists of their processes.                               *)

\* The call is one that creates a thread.
Thread(t) == loc[t].kind = "thread"

\* The thread that t is about to start is in no one else's hands; a new process has no other one.
Starting(t) ==
  at[t] \in Clone =>
    LET n == loc[t].tid  q == loc[t].pid IN
    /\ at[n] = "made" /\ P(n) = q
    /\ \A u \in Tid : at[u] \in Clone /\ loc[u].tid = n => u = t
    /\ Thread(t) => q = P(t) /\ ~Leader(n)
    /\ ~Thread(t) => ~proc[q].zombie /\ \A u \in Tid : at[u] /= "unborn" /\ P(u) = q => u = n
    /\ at[t] /= "clone" => n \in proc[q].tasks
    /\ at[t] \in {"clone_child", "clone_run"} => proc[q].modules[n] \in Module

\* A thread is on the list of its process, with a module, until it takes itself off.
Listed(t) ==
  /\ at[t] \in Live \ Cleared => t \in proc[P(t)].tasks /\ MyModule(t) \in Module
  /\ at[t] \in Live => ~proc[P(t)].zombie
  /\ at[t] = "exit_unlink" => ~Leader(t)
  /\ task[t].exited <=> at[t] = "gone"

\* Only the leader gets past its loop, and it is then the last thread.
LastThread(t, u) ==
  /\ at[t] \in Alone => Leader(t) /\ (at[u] \in Live /\ P(u) = P(t) => u = t)
  /\ at[t] \in Live /\ at[u] \in Live /\ Leader(t) /\ Leader(u) /\ P(u) = P(t) => u = t

\* A thread has p.
Used(p) == \E u \in Tid : at[u] /= "unborn" /\ P(u) = p

Threads ==
  /\ \A t \in Tid : Starting(t) /\ Listed(t) /\ \A u \in Tid : LastThread(t, u)
  /\ \A p \in Pid : proc[p].zombie => Used(p)
  /\ \A p \in Procs : \A u \in proc[p].tasks : at[u] /= "unborn" /\ P(u) = p

\* A thread at a, with l, has told what its code is and has not stored it.
Told(a, l) ==
  \/ a \in {"exit_tasks", "exit_main", "exit_clear", "exit_table", "exit_code"}
  \/ a \in {"send", "send_put"} /\ l.after = "exit_tasks"

----------------------------------------------------------------------------
(* What the steps change.                                                  *)

HasModule(p, u) == proc[p].modules[u] \in Module

\* Modules may be written and are not removed.
KeepModules(p) == \A u \in Tid : HasModule(p, u) => proc'[p].modules[u] \in Module

SameLists(p) == proc'[p].tasks = proc[p].tasks /\ KeepModules(p)

SameKin(p) == proc'[p].parent = proc[p].parent /\ proc'[p].children = proc[p].children

SameMain(p) == proc'[p].main_task = proc[p].main_task

SameEnd(p) == proc'[p].zombie = proc[p].zombie /\ proc'[p].exit_code = proc[p].exit_code

SameRest(p) == SameKin(p) /\ SameMain(p) /\ SameEnd(p)

QuietProc == proc' \in [Procs -> ExecutorType] /\ \A p \in Procs : SameLists(p) /\ SameRest(p)

\* The thread t gets to b with the local variables l.
Moves(t, b, l) == at' = [at EXCEPT ![t] = b] /\ loc' = [loc EXCEPT ![t] = l]

QuietTo(t, b, l) ==
  /\ l \in LocType /\ Local(b, l)
  /\ \/ b = at[t] /\ l = loc[t]
     \/ /\ at[t] \in Plain /\ b \in Plain \ {"wait_remove"}
        /\ Told(b, l) => Told(at[t], loc[t]) /\ l.code = loc[t].code

Quiet(t) ==
  /\ \E b, l : Moves(t, b, l) /\ QuietTo(t, b, l)
  /\ QuietProc
  /\ on' \subseteq Tid
  /\ UNCHANGED <<cpus, calls, pid2pc, tid2task, task, ended, reaped>>

\* Only t moves.
Others(t) == \A u \in Tid : u /= t => at'[u] = at[u] /\ loc'[u] = loc[u]

\* Steps of t from a to b that touch no local variable and no other thread.
Passes(t, a, b) ==
  /\ at[t] = a /\ at'[t] = b /\ loc' = loc /\ \A u \in Tid : u /= t => at'[u] = at[u]
  /\ UNCHANGED <<cpus, calls>>

\* A new thread n, in no process or in that of its creator.
Born(n, q) ==
  /\ n \in Tid /\ q \in Pid /\ at[n] = "unborn" /\ at'[n] = "made"
  /\ P(n)' = q /\ ~Leader(n)' /\ ~task'[n].exited
  /\ \A u \in Tid : u /= n => P(u)' = P(u) /\ Leader(u)' = Leader(u) /\ task'[u].exited = task[u].exited
  /\ tid2task' = tid2task \cup {n}
  /\ UNCHANGED <<cpus, calls, pid2pc, proc, ended, reaped>>

CloneTaskDoes(t, n, q) ==
  /\ Born(n, q) /\ at[t] = "user" /\ at'[t] = "clone"
  /\ \A u \in Tid : (u /= t /\ u /= n => at'[u] = at[u]) /\ (u /= t => loc'[u] = loc[u])
  /\ loc'[t].tid = n /\ loc'[t].pid = q
  /\ Thread(t)' => q = P(t)
  /\ ~Thread(t)' => ~Used(q)
  /\ loc'[t].parent \in {P(t), proc[P(t)].parent}

CloneBadDoes(t, n, q) ==
  /\ Born(n, q) /\ ~Used(q) /\ at[t] = "user" /\ at'[t] = "signals" /\ loc' = loc
  /\ \A u \in Tid : u /= t /\ u /= n => at'[u] = at[u]

CloneThreadDoes(t) ==
  /\ Passes(t, "clone", "clone_module") /\ Thread(t)
  /\ proc'[P(t)].tasks = proc[P(t)].tasks \cup {loc[t].tid}
  /\ \A p \in Procs : KeepModules(p) /\ SameRest(p) /\ (p /= P(t) => SameLists(p))
  /\ UNCHANGED <<task, pid2pc, tid2task, ended, reaped>>

CloneProcessDoes(t) ==
  LET n == loc[t].tid  q == loc[t].pid IN
  /\ Passes(t, "clone", "clone_module") /\ ~Thread(t)
  /\ Leader(n)' /\ \A u \in Tid : P(u)' = P(u) /\ task'[u].exited = task[u].exited /\ (u /= n => Leader(u)' = Leader(u))
  /\ proc'[q].tasks = {n} /\ proc'[q].main_task = n /\ ~proc'[q].zombie
  /\ proc'[q].parent = loc[t].parent /\ proc'[q].children = <<>>
  /\ \A p \in Procs : p /= q => SameLists(p) /\ SameRest(p)
  /\ pid2pc' = pid2pc \cup {q}
  /\ UNCHANGED <<tid2task, ended, reaped>>

CloneModuleDoes(t) ==
  /\ Passes(t, "clone_module", IF Thread(t) THEN "clone_run" ELSE "clone_child")
  /\ proc'[loc[t].pid].modules[loc[t].tid] \in Module
  /\ \A p \in Procs : SameLists(p) /\ SameRest(p)
  /\ UNCHANGED <<task, pid2pc, tid2task, ended, reaped>>

CloneChildDoes(t) ==
  /\ Passes(t, "clone_child", "clone_run")
  /\ loc[t].parent \in pid2pc
  /\ proc'[loc[t].parent].children = Append(proc[loc[t].parent].children, loc[t].pid)
  /\ proc'[loc[t].parent].parent = proc[loc[t].parent].parent
  /\ \A p \in Procs : SameLists(p) /\ SameMain(p) /\ SameEnd(p) /\ (p /= loc[t].parent => SameKin(p))
  /\ UNCHANGED <<task, pid2pc, tid2task, ended, reaped>>

CloneRunDoes(t) ==
  LET n == loc[t].tid IN
  /\ at[t] = "clone_run" /\ at'[t] \in {"vfork", "signals"} /\ loc'[t] = NoLoc
  /\ n \in Tid /\ at'[n] = "user" /\ \A u \in Tid \ {t} : (u /= n => at'[u] = at[u]) /\ loc'[u] = loc[u]
  /\ UNCHANGED <<cpus, calls, proc, task, pid2pc, tid2task, ended, reaped>>

ExecDoes(t) ==
  /\ \E b \in {"exec", "exit"} : Passes(t, "user", b)
  /\ proc[P(t)].tasks = {t} /\ proc'[P(t)].main_task = t
  /\ \A p \in Procs : SameLists(p) /\ SameKin(p) /\ SameEnd(p) /\ (p /= P(t) => SameMain(p))
  /\ task' = [task EXCEPT ![t].leader = TRUE]
  /\ UNCHANGED <<pid2pc, tid2task, ended, reaped>>

ExecResetDoes(t) ==
  /\ Passes(t, "exec", "exec_release")
  /\ proc'[P(t)].modules[t] \in Module
  /\ \A p \in Procs : proc'[p].tasks = proc[p].tasks /\ SameRest(p) /\ (p /= P(t) => SameLists(p))
  /\ UNCHANGED <<task, pid2pc, tid2task, ended, reaped>>

ExitSignalDoes(t) ==
  /\ at[t] = "exit" /\ Others(t)
  /\ \/ at'[t] = "exit_tasks" /\ loc'[t] = loc[t]
     \/ /\ at'[t] = "send" /\ loc'[t].pid = proc[P(t)].parent
        /\ loc'[t].code = loc[t].code /\ loc'[t].after = "exit_tasks"
  /\ ended' = IF Leader(t) THEN [ended EXCEPT ![P(t)] = loc[t].code] ELSE ended
  /\ UNCHANGED <<cpus, calls, proc, task, pid2pc, tid2task, reaped>>

ExitTasksDoes(t) ==
  /\ Passes(t, "exit_tasks", "exit_main")
  /\ Leader(t) /\ \A u \in proc[P(t)].tasks : Leader(u) \/ task[u].exited
  /\ UNCHANGED <<proc, task, pid2pc, tid2task, ended, reaped>>

ExitLeaveDoes(t) ==
  /\ Passes(t, "exit_tasks", "exit_unlink")
  /\ ~Leader(t)
  /\ tid2task' = tid2task \ {t}
  /\ UNCHANGED <<proc, task, pid2pc, ended, reaped>>

ExitUnlinkDoes(t) ==
  /\ Passes(t, "exit_unlink", "exit_done")
  /\ proc'[P(t)].tasks = proc[P(t)].tasks \ {t}
  /\ \A u \in Tid : u /= t /\ HasModule(P(t), u) => proc'[P(t)].modules[u] \in Module
  /\ \A p \in Procs : SameRest(p) /\ (p /= P(t) => SameLists(p))
  /\ UNCHANGED <<task, pid2pc, tid2task, ended, reaped>>

ExitMainDoes(t) ==
  /\ Passes(t, "exit_main", "exit_clear")
  /\ proc'[P(t)].main_task = None
  /\ \A p \in Procs : SameLists(p) /\ SameKin(p) /\ SameEnd(p) /\ (p /= P(t) => SameMain(p))
  /\ tid2task' = tid2task \ {t}
  /\ UNCHANGED <<task, pid2pc, ended, reaped>>

ExitClearDoes(t) ==
  /\ Passes(t, "exit_clear", "exit_table")
  /\ proc'[P(t)].tasks = {}
  /\ \A p \in Procs : SameRest(p) /\ (p /= P(t) => SameLists(p))
  /\ UNCHANGED <<task, pid2pc, tid2task, ended, reaped>>

ExitTableDoes(t) ==
  LET orphans == proc[P(t)].children IN
  /\ Passes(t, "exit_table", "exit_code")
  /\ \A p \in Procs : /\ SameLists(p) /\ SameMain(p) /\ SameEnd(p)
                      /\ proc'[p].parent = IF p \in Range(orphans) THEN Kernel ELSE proc[p].parent
                      /\ proc'[p].children = IF p = Kernel THEN proc[p].children \o orphans ELSE proc[p].children
  /\ pid2pc' = pid2pc \ {P(t)}
  /\ UNCHANGED <<task, tid2task, ended, reaped>>

ExitCodeDoes(t) ==
  /\ Passes(t, "exit_code", "exit_zombie")
  /\ proc'[P(t)].exit_code = loc[t].code /\ proc'[P(t)].zombie = proc[P(t)].zombie
  /\ \A p \in Procs : SameLists(p) /\ SameKin(p) /\ SameMain(p) /\ (p /= P(t) => SameEnd(p))
  /\ UNCHANGED <<task, pid2pc, tid2task, ended, reaped>>

ExitZombieDoes(t) ==
  /\ Passes(t, "exit_zombie", "exit_done")
  /\ proc'[P(t)].zombie /\ proc'[P(t)].exit_code = proc[P(t)].exit_code
  /\ \A p \in Procs : SameLists(p) /\ SameKin(p) /\ SameMain(p) /\ (p /= P(t) => SameEnd(p))
  /\ UNCHANGED <<task, pid2pc, tid2task, ended, reaped>>

ExitDoneDoes(t) ==
  /\ at[t] = "exit_done" /\ at'[t] = "gone" /\ loc'[t] = NoLoc /\ Others(t)
  /\ task' = [task EXCEPT ![t].exited = TRUE]
  /\ UNCHANGED <<cpus, calls, proc, pid2pc, tid2task, ended, reaped>>

WaitScanDoes(t) ==
  LET kids == proc[P(t)].children IN
  /\ at[t] = "wait" /\ at'[t] = "wait_remove" /\ Others(t)
  /\ \E i \in DOMAIN kids : /\ loc'[t].tid = i /\ loc'[t].pid = kids[i] /\ loc'[t].code = proc[kids[i]].exit_code
                            /\ kids[i] \in Pid /\ proc[kids[i]].zombie
  /\ UNCHANGED <<cpus, calls, proc, task, pid2pc, tid2task, ended, reaped>>

WaitRemoveDoes(t) ==
  LET kids == proc[P(t)].children  i == loc[t].tid IN
  /\ at[t] = "wait_remove" /\ at'[t] = "signals" /\ loc'[t] = NoLoc /\ Others(t)
  /\ i \in DOMAIN kids /\ loc[t].pid \in Pid
  /\ proc'[P(t)].children = SubSeq(kids, 1, i - 1) \o SubSeq(kids, i + 1, Len(kids))
  /\ proc'[P(t)].parent = proc[P(t)].parent
  /\ \A p \in Procs : SameLists(p) /\ SameMain(p) /\ SameEnd(p) /\ (p /= P(t) => SameKin(p))
  /\ reaped' = Append(reaped, [by |-> P(t), pid |-> loc[t].pid, code |-> loc[t].code])
  /\ UNCHANGED <<cpus, calls, task, pid2pc, tid2task, ended>>

\* Every step of a thread is one of these.
CloneDoes(t) ==
  \/ \E n \in Tid, q \in Pid : CloneTaskDoes(t, n, q) \/ CloneBadDoes(t, n, q)
  \/ CloneThreadDoes(t) \/ CloneProcessDoes(t) \/ CloneModuleDoes(t) \/ CloneChildDoes(t) \/ CloneRunDoes(t)

LeaveDoes(t) ==
  ExecDoes(t) \/ ExecResetDoes(t) \/ ExitSignalDoes(t) \/ ExitTasksDoes(t) \/ ExitLeaveDoes(t) \/ ExitUnlinkDoes(t)

ExitDoes(t) ==
  ExitMainDoes(t) \/ ExitClearDoes(t) \/ ExitTableDoes(t) \/ ExitCodeDoes(t) \/ ExitZombieDoes(t) \/ ExitDoneDoes(t)

WaitDoes(t) == WaitScanDoes(t) \/ WaitRemoveDoes(t)

Does(t) == Quiet(t) \/ CloneDoes(t) \/ LeaveDoes(t) \/ ExitDoes(t) \/ WaitDoes(t)

----------------------------------------------------------------------------
(* Lemmas about executors, local variables and places.                     *)

\* The fields of an executor.
LEMMA FieldTypes ==
  ASSUME NEW r \in ExecutorType
  PROVE  /\ r.parent \in Procs /\ r.children \in Seq(Pid) /\ r.tasks \in SUBSET Tid /\ r.main_task \in Tid \cup {None}
         /\ r.zombie \in BOOLEAN /\ r.exit_code \in Int /\ r.vfork \in BOOLEAN
         /\ r.modules \in [Tid -> Module \cup {None}]
  BY DEF ExecutorType

\* proc changes at p, to r.
Becomes(p, r) == proc' \in [Procs -> ExecutorType] /\ proc'[p] = r /\ \A q \in Procs : q /= p => proc'[q] = proc[q]

\* EXCEPT, as the value at p and the values elsewhere.
LEMMA Change ==
  ASSUME proc \in [Procs -> ExecutorType], NEW p \in Procs, NEW r \in ExecutorType, proc' = [proc EXCEPT ![p] = r]
  PROVE  Becomes(p, r)
  BY DEF Becomes

\* Calls that change proc at one executor only.
LEMMA OneExecutor ==
  ASSUME TypeOK, NEW p \in Procs, NEW r \in ExecutorType, proc' = [proc EXCEPT ![p] = r]
  PROVE  /\ proc' \in [Procs -> ExecutorType] /\ proc'[p] = r
         /\ \A q \in Procs : q /= p => proc'[q] = proc[q] /\ SameLists(q) /\ SameRest(q)
  BY Change DEF TypeOK, Becomes, SameLists, KeepModules, SameRest, SameKin, SameMain, SameEnd, HasModule

\* A step that leaves proc alone is quiet.
LEMMA QuietSame ==
  ASSUME TypeOK, proc' = proc
  PROVE  QuietProc
  BY DEF TypeOK, QuietProc, SameLists, KeepModules, SameRest, SameKin, SameMain, SameEnd, HasModule

\* So is one that writes the vfork flag of an executor,
LEMMA QuietVfork ==
  ASSUME TypeOK, NEW p \in Procs, NEW v \in BOOLEAN, proc' = [proc EXCEPT ![p].vfork = v]
  PROVE  QuietProc
  <1>1. proc \in [Procs -> ExecutorType] /\ proc[p] \in ExecutorType
    BY DEF TypeOK
  <1> DEFINE r == [proc[p] EXCEPT !.vfork = v]
  <1>r. r = [proc[p] EXCEPT !.vfork = v] /\ proc' = [proc EXCEPT ![p] = r]
    OBVIOUS
  <1> HIDE DEF r
  <1>2. /\ r \in ExecutorType /\ r.tasks = proc[p].tasks /\ r.modules = proc[p].modules
        /\ r.parent = proc[p].parent /\ r.children = proc[p].children /\ r.main_task = proc[p].main_task
        /\ r.zombie = proc[p].zombie /\ r.exit_code = proc[p].exit_code
    BY <1>1, <1>r DEF ExecutorType
  <1>3. Becomes(p, r)
    BY <1>1, <1>2, <1>r, Change
  <1> QED
    BY <1>2, <1>3 DEF Becomes, QuietProc, SameLists, KeepModules, SameRest, SameKin, SameMain, SameEnd,
       HasModule

\* or its modules, if none of them is removed,
LEMMA QuietModules ==
  ASSUME TypeOK, NEW p \in Procs, NEW ms \in [Tid -> Module \cup {None}], proc' = [proc EXCEPT ![p].modules = ms],
         \A u \in Tid : HasModule(p, u) => ms[u] \in Module
  PROVE  QuietProc
  <1>1. proc \in [Procs -> ExecutorType] /\ proc[p] \in ExecutorType
    BY DEF TypeOK
  <1> DEFINE r == [proc[p] EXCEPT !.modules = ms]
  <1>r. r = [proc[p] EXCEPT !.modules = ms] /\ proc' = [proc EXCEPT ![p] = r]
    OBVIOUS
  <1> HIDE DEF r
  <1>2. /\ r \in ExecutorType /\ r.tasks = proc[p].tasks /\ r.modules = ms
        /\ r.parent = proc[p].parent /\ r.children = proc[p].children /\ r.main_task = proc[p].main_task
        /\ r.zombie = proc[p].zombie /\ r.exit_code = proc[p].exit_code
    BY <1>1, <1>r DEF ExecutorType
  <1>3. Becomes(p, r)
    BY <1>1, <1>2, <1>r, Change
  <1> QED
    BY <1>2, <1>3 DEF Becomes, QuietProc, SameLists, KeepModules, SameRest, SameKin, SameMain, SameEnd,
       HasModule

\* or one module.
LEMMA QuietModule ==
  ASSUME TypeOK, NEW p \in Procs, NEW u \in Tid, NEW m \in Module, proc' = [proc EXCEPT ![p].modules[u] = m]
  PROVE  QuietProc
  <1> DEFINE ms == [proc[p].modules EXCEPT ![u] = m]
  <1>1. proc[p].modules \in [Tid -> Module \cup {None}]
    BY FieldTypes DEF TypeOK
  <1>2. ms \in [Tid -> Module \cup {None}] /\ \A v \in Tid : HasModule(p, v) => ms[v] \in Module
    BY <1>1 DEF HasModule
  <1>3. proc' = [proc EXCEPT ![p].modules = ms]
    OBVIOUS
  <1> HIDE DEF ms
  <1> QED
    BY <1>2, <1>3, QuietModules

\* The fields of a call's local variables.
LEMMA LocFields ==
  ASSUME NEW l \in LocType
  PROVE  /\ l.kind \in CloneKind \cup {None} /\ l.tid \in Nat \cup {None} /\ l.pid \in Procs \cup {None}
         /\ l.parent \in Procs \cup {None} /\ l.sig \in SignalNo \cup {None}
         /\ l.after \in {None, "exit_tasks", "signals", "exit"} /\ l.must \in BOOLEAN /\ l.code \in Int
  BY DEF LocType

\* The local variables of a thread that makes no call, and those of one that exits.
LEMMA NoLocType == NoLoc \in LocType /\ ~NoLoc.must /\ \A c \in Int : [NoLoc EXCEPT !.code = c] \in LocType
  <1>1. 0 \in Int
    BY SMTT(60)
  <1> QED
    BY <1>1 DEF NoLoc, LocType

\* What the type invariant says of one thread.
LEMMA Mine ==
  ASSUME TypeOK, NEW t \in Tid
  PROVE  /\ P(t) \in Pid /\ P(t) \in Procs /\ proc[P(t)] \in ExecutorType /\ Leader(t) \in BOOLEAN
         /\ loc[t] \in LocType /\ Local(at[t], loc[t]) /\ at[t] \in Place
  BY DEF TypeOK, P, Leader, Procs

\* A thread in user mode, or in a call that leaves the lists alone, has its module.
LEMMA MyModuleType ==
  ASSUME TypeOK, Threads, NEW t \in Tid, at[t] \in Plain
  PROVE  MyModule(t) \in Module /\ HasModule(P(t), t)
  BY DEF Threads, Listed, Live, Plain, Cleared, MyModule, HasModule

\* A thread that gets to a place with the local variables it reads there keeps the types.
LEMMA MovesType ==
  ASSUME TypeOK, NEW t \in Tid, NEW b \in Place, NEW l \in LocType, Moves(t, b, l), Local(b, l), UNCHANGED calls
  PROVE  /\ at' \in [Tid -> Place] /\ loc' \in [Tid -> LocType] /\ \A u \in Tid : Local(at[u], loc[u])'
         /\ at'[t] = b /\ loc'[t] = l /\ Others(t)
  <1>1. /\ at' \in [Tid -> Place] /\ loc' \in [Tid -> LocType]
        /\ at'[t] = b /\ loc'[t] = l /\ Others(t)
    BY DEF TypeOK, Moves, Others
  <1>2. Local(b, l)' /\ \A u \in Tid : Local(at[u], loc[u])
    BY DEF Local, TypeOK
  <1>3. ASSUME NEW u \in Tid PROVE Local(at[u], loc[u])'
    <2>1. CASE u = t
      BY <1>1, <1>2, <2>1 DEF Local
    <2>2. CASE u /= t
      <3>1. at'[u] = at[u] /\ loc'[u] = loc[u] /\ Local(at[u], loc[u])
        BY <1>1, <1>2, <2>2 DEF Others
      <3> QED
        BY <3>1 DEF Local
    <2> QED
      BY <2>1, <2>2
  <1> QED
    BY <1>1, <1>3

\* A thread stays, or goes on in the calls that leave the lists alone.
Near(u) == (at'[u] = at[u] /\ loc'[u] = loc[u]) \/ (at[u] \in Plain /\ at'[u] \in Plain)

\* A quiet step keeps the types, begins no removal by wait_pid, and tells no new exit code.
LEMMA QuietEffect ==
  ASSUME TypeOK, NEW t \in Tid, Quiet(t)
  PROVE  /\ TypeOK' /\ Others(t) /\ \A u \in Tid : Near(u)
         /\ at'[t] = "wait_remove" => at[t] = "wait_remove" /\ loc'[t] = loc[t]
         /\ Told(at'[t], loc'[t]) => Told(at[t], loc[t]) /\ loc'[t].code = loc[t].code
  <1>1. PICK b, l : Moves(t, b, l) /\ QuietTo(t, b, l)
    BY DEF Quiet
  <1>2. b \in Place /\ l \in LocType /\ Local(b, l)
    BY <1>1 DEF QuietTo, Place, Live, TypeOK
  <1>3. UNCHANGED calls
    BY DEF Quiet
  <1>4. /\ at' \in [Tid -> Place] /\ loc' \in [Tid -> LocType] /\ \A u \in Tid : Local(at[u], loc[u])'
        /\ at'[t] = b /\ loc'[t] = l /\ Others(t)
    BY <1>1, <1>2, <1>3, MovesType
  <1>5. TypeOK'
    BY <1>4 DEF TypeOK, Quiet, QuietProc
  <1>6. \A u \in Tid : Near(u)
    BY <1>1, <1>4 DEF Near, Others, QuietTo
  <1> QED
    BY <1>1, <1>4, <1>5, <1>6 DEF QuietTo

\* The steps of clone read the same local variables.
LEMMA LocalClone ==
  ASSUME NEW a \in Clone, NEW b \in Clone, NEW l
  PROVE  Local(a, l) => Local(b, l)
  BY DEF Local, Clone

\* Places where no local variable is restricted.
Free == Alone \cup {"exit", "exec_release", "exit_tasks", "exit_unlink", "exit_done", "gone", "vfork"}

\* No local variable is restricted at the places of Free.
LEMMA LocalFree ==
  ASSUME NEW b \in Free, NEW l
  PROVE  Local(b, l)
  BY DEF Free, Alone, Local, Clone

----------------------------------------------------------------------------
(* Threads is preserved.                                                   *)

\* Plain places are not those of clone, nor of an exit after its loop.
LEMMA PlainPlace ==
  \A a \in Plain : /\ a \in Live /\ a \notin Clone /\ a \notin Alone /\ a \notin Cleared
                   /\ a \notin {"unborn", "made", "gone", "exit_done", "exit_unlink"}
  BY DEF Plain, Clone, Alone, Live, Cleared

\* What the places that threads may go between have in common.
LEMMA NearPlace ==
  ASSUME NEW u \in Tid, Near(u)
  PROVE  /\ at'[u] \in Live <=> at[u] \in Live
         /\ at'[u] \in Live \ Cleared <=> at[u] \in Live \ Cleared
         /\ at'[u] \in Clone <=> at[u] \in Clone
         /\ at'[u] \in Alone <=> at[u] \in Alone
         /\ at'[u] \in Clone => at'[u] = at[u] /\ loc'[u] = loc[u]
         /\ \A a \in {"unborn", "made", "gone", "exit_done", "exit_unlink"} : at'[u] = a <=> at[u] = a
  BY PlainPlace DEF Near

\* Threads holds after a step that changes no list and moves threads between plain places.
LEMMA NearThreads ==
  ASSUME TypeOK, Threads, \A u \in Tid : Near(u), task' = task,
         \A p \in Procs : SameLists(p) /\ proc'[p].zombie = proc[p].zombie
  PROVE  Threads'
  <1>1. \A u \in Tid : P(u)' = P(u) /\ Leader(u)' = Leader(u) /\ P(u) \in Procs
    BY Mine DEF P, Leader
  <1>2. ASSUME NEW t \in Tid, at'[t] \in Clone PROVE Starting(t)'
    <2>1. at'[t] = at[t] /\ loc'[t] = loc[t] /\ at[t] \in Clone /\ Starting(t)
      BY <1>2, NearPlace DEF Threads
    <2> DEFINE n == loc[t].tid
               q == loc[t].pid
    <2>2. n \in Tid /\ q \in Procs
      BY <2>1, Mine DEF Local, Procs
    <2>3. at'[n] = "made" /\ P(n)' = q
      BY <1>1, <2>1, <2>2, NearPlace DEF Starting
    <2>4. \A u \in Tid : at'[u] \in Clone /\ loc'[u].tid = n => u = t
      BY <2>1, NearPlace DEF Starting
    <2>5. Thread(t)' <=> Thread(t)
      BY <2>1 DEF Thread
    <2>6. Thread(t) => q = P(t)' /\ ~Leader(n)'
      BY <1>1, <2>1, <2>2 DEF Starting
    <2>7. ~Thread(t) => ~proc'[q].zombie
      BY <2>1, <2>2 DEF Starting
    <2>9. ASSUME ~Thread(t), NEW u \in Tid, at'[u] /= "unborn", P(u)' = q PROVE u = n
      <3>1. at[u] /= "unborn" /\ P(u) = q
        BY <1>1, <2>9, NearPlace
      <3> QED
        BY <2>1, <2>9, <3>1 DEF Starting
    <2>8. /\ at'[t] /= "clone" => n \in proc'[q].tasks
          /\ at'[t] \in {"clone_child", "clone_run"} => proc'[q].modules[n] \in Module
      BY <2>1, <2>2 DEF Starting, SameLists, KeepModules, HasModule
    <2> QED
      BY <2>1, <2>3, <2>4, <2>5, <2>6, <2>7, <2>8, <2>9 DEF Starting
  <1>3. ASSUME NEW t \in Tid PROVE Listed(t)'
    <2>1. Listed(t) /\ P(t) \in Procs
      BY Mine DEF Threads
    <2>2. at'[t] \in Live \ Cleared => t \in proc'[P(t)].tasks /\ proc'[P(t)].modules[t] \in Module
      BY <2>1, NearPlace DEF Listed, SameLists, KeepModules, HasModule, MyModule
    <2>3. at'[t] \in Live => ~proc'[P(t)].zombie
      BY <2>1, NearPlace DEF Listed
    <2>4. /\ at'[t] = "exit_unlink" => ~Leader(t)
          /\ task'[t].exited <=> at'[t] = "gone"
      BY <2>1, NearPlace DEF Listed
    <2> QED
      BY <1>1, <2>2, <2>3, <2>4 DEF Listed, MyModule
  <1>4. ASSUME NEW t \in Tid, NEW u \in Tid PROVE LastThread(t, u)'
    <2>1. LastThread(t, u)
      BY DEF Threads
    <2>2. /\ at'[t] \in Alone <=> at[t] \in Alone
          /\ at'[t] \in Live <=> at[t] \in Live
          /\ at'[u] \in Live <=> at[u] \in Live
      BY NearPlace
    <2>3. P(t)' = P(t) /\ P(u)' = P(u) /\ Leader(t)' = Leader(t) /\ Leader(u)' = Leader(u)
      BY <1>1
    <2> QED
      BY <2>1, <2>2, <2>3 DEF LastThread
  <1>5. ASSUME NEW p \in Pid, proc'[p].zombie PROVE Used(p)'
    <2>1. PICK u \in Tid : at[u] /= "unborn" /\ P(u) = p
      BY <1>5 DEF Threads, Used, Procs
    <2> QED
      BY <1>1, <2>1, NearPlace DEF Used
  <1>6. ASSUME NEW p \in Procs, NEW u \in proc'[p].tasks PROVE at'[u] /= "unborn" /\ P(u)' = p
    <2>1. u \in proc[p].tasks /\ u \in Tid
      BY <1>6, FieldTypes DEF SameLists, TypeOK
    <2> QED
      BY <1>1, <2>1, NearPlace DEF Threads
  <1>7. \A t \in Tid : Starting(t)'
    BY <1>2 DEF Starting
  <1> QED
    BY <1>3, <1>4, <1>5, <1>6, <1>7 DEF Threads

\* No other thread of the process of t can run.
Lone(t) == \A u \in Tid : at[u] \in Live /\ P(u) = P(t) => u = t

\* A thread that is past its loop, or in exec, is the last of its process.
LEMMA AloneIsLone ==
  ASSUME Threads, NEW t \in Tid, at[t] \in Alone
  PROVE  Lone(t) /\ Leader(t)
  BY DEF Threads, LastThread, Lone

\* No thread is being started in the process of a thread that is alone.
LEMMA LoneStartsNone ==
  ASSUME TypeOK, Threads, NEW t \in Tid, at[t] \notin {"unborn", "made"}, Lone(t), NEW u \in Tid, u /= t, at[u] \in Clone
  PROVE  loc[u].pid /= P(t)
  <1>1. Starting(u) /\ at[u] \in Live
    BY DEF Threads, Live
  <1>2. CASE Thread(u)
    BY <1>1, <1>2 DEF Starting, Lone
  <1>3. CASE ~Thread(u)
    BY <1>1, <1>3 DEF Starting
  <1> QED
    BY <1>2, <1>3

\* t goes on from a to b, outside clone: at most its own entries and, when it is alone, its process
\* change.
PassesOn(t, a, b) ==
  /\ at[t] = a /\ at'[t] = b /\ Others(t)
  /\ {a, b} \cap (Clone \cup {"unborn", "made"}) = {} /\ a /= "gone"
  /\ b \in Live => a \in Live
  /\ \A u \in Tid : P(u)' = P(u) /\ (u /= t => Leader(u)' = Leader(u) /\ task'[u].exited = task[u].exited)
  /\ task'[t].exited <=> b = "gone"
  /\ Leader(t)' => Leader(t) \/ Lone(t)
  /\ \A p \in Procs : /\ p /= P(t) => SameLists(p) /\ proc'[p].zombie = proc[p].zombie
                      /\ proc'[p].tasks \subseteq proc[p].tasks
  /\ Lone(t) \/ /\ proc'[P(t)].zombie = proc[P(t)].zombie
                /\ \A u \in Tid \ {t} : /\ u \in proc[P(t)].tasks => u \in proc'[P(t)].tasks
                                        /\ HasModule(P(t), u) => proc'[P(t)].modules[u] \in Module
  /\ b \in Live \ Cleared => t \in proc'[P(t)].tasks /\ proc'[P(t)].modules[t] \in Module
  /\ b \in Live => ~proc'[P(t)].zombie
  /\ b = "exit_unlink" => ~Leader(t)'
  /\ b \in Alone => Leader(t)' /\ Lone(t)

\* Threads holds after such a step.
LEMMA PassesOnThreads ==
  ASSUME TypeOK, TypeOK', Threads, NEW t \in Tid, NEW a, NEW b, PassesOn(t, a, b)
  PROVE  Threads'
  <1>1. /\ at[t] = a /\ at'[t] = b /\ a \notin Clone /\ b \notin Clone
        /\ a /= "unborn" /\ a /= "made" /\ a /= "gone" /\ b /= "unborn" /\ b /= "made"
        /\ \A u \in Tid : u /= t => at'[u] = at[u] /\ loc'[u] = loc[u]
    BY DEF PassesOn, Others
  <1>2. \A u \in Tid : P(u)' = P(u) /\ P(u) \in Procs /\ (u /= t => Leader(u)' = Leader(u))
    BY Mine DEF PassesOn
  <1>3. \A u \in Tid : (at'[u] = "unborn" <=> at[u] = "unborn") /\ (at'[u] \in Live => at[u] \in Live)
    BY <1>1 DEF PassesOn
  <1>4. ASSUME NEW u \in Tid, at'[u] \in Clone PROVE Starting(u)'
    <2> DEFINE n == loc[u].tid
               q == loc[u].pid
    <2>1. u /= t /\ at'[u] = at[u] /\ loc'[u] = loc[u] /\ at[u] \in Clone /\ Starting(u)
      BY <1>1, <1>4 DEF Threads
    <2>2. n \in Tid /\ q \in Procs /\ n /= t
      BY <1>1, <2>1, Mine DEF Local, Procs, Starting
    <2>3. at'[n] = "made" /\ P(n)' = q
      BY <1>1, <1>2, <2>1, <2>2 DEF Starting
    <2>4. \A v \in Tid : at'[v] \in Clone /\ loc'[v].tid = n => v = u
      BY <1>1, <2>1 DEF Starting
    <2>5. Thread(u)' <=> Thread(u)
      BY <2>1 DEF Thread
    <2>6. Thread(u) => q = P(u)' /\ ~Leader(n)'
      BY <1>2, <2>1, <2>2 DEF Starting
    <2>7. ASSUME ~Thread(u), NEW v \in Tid, at'[v] /= "unborn", P(v)' = q PROVE v = n
      BY <1>2, <1>3, <2>1, <2>7 DEF Starting
    <2>8. \/ q /= P(t)
          \/ /\ proc'[q].zombie = proc[q].zombie
             /\ n \in proc[q].tasks => n \in proc'[q].tasks
             /\ HasModule(q, n) => proc'[q].modules[n] \in Module
      BY <1>1, <2>1, <2>2, LoneStartsNone DEF PassesOn
    <2>9. /\ proc'[q].zombie = proc[q].zombie
          /\ n \in proc[q].tasks => n \in proc'[q].tasks
          /\ HasModule(q, n) => proc'[q].modules[n] \in Module
      BY <2>2, <2>8 DEF PassesOn, SameLists, KeepModules
    <2> QED
      BY <2>1, <2>3, <2>4, <2>5, <2>6, <2>7, <2>9 DEF Starting, HasModule
  <1>5. ASSUME NEW u \in Tid PROVE Listed(u)'
    <2>1. CASE u = t
      BY <1>1, <1>2, <2>1 DEF PassesOn, Listed, MyModule
    <2>2. CASE u /= t
      <3>1. at'[u] = at[u] /\ Listed(u) /\ P(u)' = P(u) /\ P(u) \in Procs /\ Leader(u)' = Leader(u)
        BY <1>1, <1>2, <2>2 DEF Threads
      <3>2. task'[u].exited = task[u].exited
        BY <2>2 DEF PassesOn
      <3>3. at[u] \in Live => /\ proc'[P(u)].zombie = proc[P(u)].zombie
                              /\ u \in proc[P(u)].tasks => u \in proc'[P(u)].tasks
                              /\ HasModule(P(u), u) => proc'[P(u)].modules[u] \in Module
        BY <2>2, <3>1 DEF PassesOn, Lone, SameLists, KeepModules
      <3> QED
        BY <3>1, <3>2, <3>3 DEF Listed, MyModule, HasModule
    <2> QED
      BY <2>1, <2>2
  <1>6. ASSUME NEW u \in Tid, NEW v \in Tid PROVE LastThread(u, v)'
    <2>1. LastThread(u, v) /\ LastThread(v, u) /\ P(u)' = P(u) /\ P(v)' = P(v)
      BY <1>2 DEF Threads
    <2>2. ASSUME at'[u] \in Alone PROVE Leader(u)' /\ (at'[v] \in Live /\ P(v) = P(u) => v = u)
      <3>1. CASE u = t
        BY <1>1, <1>3, <2>2, <3>1 DEF PassesOn, Lone
      <3>2. CASE u /= t
        BY <1>1, <1>2, <1>3, <2>1, <2>2, <3>2 DEF LastThread
      <3> QED
        BY <3>1, <3>2
    <2>3. ASSUME at'[u] \in Live, at'[v] \in Live, Leader(u)', Leader(v)', P(v) = P(u) PROVE v = u
      <3>1. at[u] \in Live /\ at[v] \in Live
        BY <1>3, <2>3
      <3>2. CASE Lone(t) /\ (u = t \/ v = t)
        BY <2>3, <3>1, <3>2 DEF Lone
      <3>3. CASE Leader(u) /\ Leader(v)
        BY <2>1, <2>3, <3>1, <3>3 DEF LastThread
      <3>4. Leader(t)' => Leader(t) \/ Lone(t)
        BY DEF PassesOn
      <3> QED
        BY <1>2, <2>3, <3>2, <3>3, <3>4
    <2> QED
      BY <2>1, <2>2, <2>3 DEF LastThread
  <1>7. ASSUME NEW p \in Pid, proc'[p].zombie PROVE Used(p)'
    <2>1. CASE p = P(t)
      BY <1>1, <1>2, <2>1 DEF Used
    <2>2. CASE p /= P(t)
      <3>1. proc[p].zombie
        BY <1>7, <2>2 DEF PassesOn, Procs
      <3>2. PICK u \in Tid : at[u] /= "unborn" /\ P(u) = p
        BY <3>1 DEF Threads, Used
      <3> QED
        BY <1>2, <1>3, <3>2 DEF Used
    <2> QED
      BY <2>1, <2>2
  <1>8. ASSUME NEW p \in Procs, NEW u \in proc'[p].tasks PROVE at'[u] /= "unborn" /\ P(u)' = p
    <2>1. u \in proc[p].tasks /\ u \in Tid
      BY <1>8, FieldTypes DEF PassesOn, TypeOK
    <2> QED
      BY <1>2, <1>3, <2>1 DEF Threads
  <1>9. \A u \in Tid : Starting(u)'
    BY <1>4 DEF Starting
  <1> QED
    BY <1>5, <1>6, <1>7, <1>8, <1>9 DEF Threads

\* t goes on inside clone, which makes its thread n known to the process q.
ClonesOn(t, a, b) ==
  LET n == loc[t].tid  q == loc[t].pid IN
  /\ Passes(t, a, b) /\ a \in Clone /\ b \in Clone /\ b /= "clone"
  /\ \A u \in Tid : P(u)' = P(u) /\ task'[u].exited = task[u].exited /\ (u /= n \/ Thread(t) => Leader(u)' = Leader(u))
  /\ \A p \in Procs : p /= q \/ Thread(t) =>
       KeepModules(p) /\ proc'[p].zombie = proc[p].zombie /\ proc[p].tasks \subseteq proc'[p].tasks
  /\ \A p \in Procs : proc'[p].tasks \subseteq proc[p].tasks \cup {u \in {n} : p = q}
  /\ n \in proc'[q].tasks
  /\ b \in {"clone_child", "clone_run"} => proc'[q].modules[n] \in Module
  /\ ~Thread(t) => ~proc'[q].zombie

\* Threads holds after such a step of clone.
LEMMA ClonesOnThreads ==
  ASSUME TypeOK, TypeOK', Threads, NEW t \in Tid, NEW a, NEW b, ClonesOn(t, a, b)
  PROVE  Threads'
  <1> DEFINE n == loc[t].tid
             q == loc[t].pid
  <1>1. /\ at[t] \in Clone /\ at'[t] = b /\ b \in Clone /\ b /= "clone" /\ loc' = loc
        /\ \A u \in Tid : u /= t => at'[u] = at[u]
    BY DEF ClonesOn, Passes
  <1>2. n \in Tid /\ q \in Procs /\ Starting(t) /\ at[n] = "made" /\ P(n) = q /\ n /= t
    <2>1. n \in Tid /\ q \in Procs /\ Starting(t) /\ "made" \notin Clone
      BY <1>1, Mine DEF Threads, Local, Procs, Clone
    <2> QED
      BY <1>1, <2>1 DEF Starting
  <1>3. \A u \in Tid : P(u)' = P(u) /\ P(u) \in Procs /\ (u /= n \/ Thread(t) => Leader(u)' = Leader(u))
    BY Mine DEF ClonesOn
  <1>4. \A u \in Tid : /\ at'[u] = "unborn" <=> at[u] = "unborn"
                       /\ at'[u] \in Clone <=> at[u] \in Clone
                       /\ at'[u] \in Live <=> at[u] \in Live
                       /\ at'[u] \in Live \ Cleared <=> at[u] \in Live \ Cleared
                       /\ at'[u] \in Alone <=> at[u] \in Alone
                       /\ at'[u] \in {"made", "exit_unlink", "gone"} => at'[u] = at[u]
                       /\ at[u] \in {"made", "exit_unlink", "gone"} => at'[u] = at[u]
    BY <1>1 DEF Clone, Live, Cleared, Alone
  <1>5. ASSUME NEW u \in Tid, at[u] \in Live, P(u) = q PROVE Thread(t)
    <2>1. at[u] \notin {"made", "unborn"}
      BY <1>5 DEF Live, Plain, Clone, Alone
    <2> QED
      BY <1>1, <1>2, <1>5, <2>1 DEF Starting
  <1>6. ASSUME NEW u \in Tid, at'[u] \in Clone PROVE Starting(u)'
    <2> DEFINE m == loc[u].tid
               r == loc[u].pid
    <2>1. loc'[u] = loc[u] /\ at[u] \in Clone /\ Starting(u) /\ at[u] \in Live
      BY <1>1, <1>4, <1>6 DEF Threads, Live
    <2>2. m \in Tid /\ r \in Procs
      BY <2>1, Mine DEF Local, Procs
    <2>3. at'[m] = "made" /\ P(m)' = r
      BY <1>3, <1>4, <2>1, <2>2 DEF Starting
    <2>4. \A v \in Tid : at'[v] \in Clone /\ loc'[v].tid = m => v = u
      BY <1>1, <1>4, <2>1 DEF Starting
    <2>5. Thread(u)' <=> Thread(u)
      BY <2>1 DEF Thread
    <2>6. ASSUME Thread(u) PROVE r = P(u)' /\ ~Leader(m)'
      <3>1. m /= n \/ Thread(t)
        BY <1>1, <2>1, <2>6 DEF Starting
      <3> QED
        BY <1>3, <2>1, <2>2, <2>6, <3>1 DEF Starting
    <2>7. ASSUME ~Thread(u), NEW v \in Tid, at'[v] /= "unborn", P(v)' = r PROVE v = m
      BY <1>3, <1>4, <2>1, <2>7 DEF Starting
    <2>8. CASE u = t
      <3>1. ~Thread(u) => ~proc'[r].zombie
        BY <2>8 DEF ClonesOn
      <3>2. m \in proc'[r].tasks /\ (at'[u] \in {"clone_child", "clone_run"} => proc'[r].modules[m] \in Module)
        BY <1>1, <2>8 DEF ClonesOn
      <3> QED
        BY <2>1, <2>3, <2>4, <2>5, <2>6, <2>7, <3>1, <3>2 DEF Starting
    <2>9. CASE u /= t
      <3>1. r /= q \/ Thread(t)
        <4>1. CASE Thread(u)
          BY <1>5, <2>1, <4>1 DEF Starting
        <4>2. CASE ~Thread(u) /\ r = q
          <5>1. m = n
            BY <1>2, <2>1, <4>2 DEF Starting
          <5> QED
            BY <1>1, <2>1, <2>9, <5>1 DEF Starting
        <4> QED
          BY <4>1, <4>2
      <3>2. KeepModules(r) /\ proc'[r].zombie = proc[r].zombie /\ proc[r].tasks \subseteq proc'[r].tasks
        BY <2>2, <3>1 DEF ClonesOn
      <3>3. at'[u] = at[u]
        BY <1>1, <2>9
      <3> QED
        BY <2>1, <2>2, <2>3, <2>4, <2>5, <2>6, <2>7, <3>2, <3>3 DEF Starting, KeepModules, HasModule
    <2> QED
      BY <2>8, <2>9
  <1>7. ASSUME NEW u \in Tid PROVE Listed(u)'
    <2>1. Listed(u) /\ P(u)' = P(u) /\ P(u) \in Procs /\ task'[u].exited = task[u].exited
      BY <1>3 DEF Threads, ClonesOn
    <2>2. at[u] \in Live => /\ KeepModules(P(u)) /\ proc'[P(u)].zombie = proc[P(u)].zombie
                            /\ proc[P(u)].tasks \subseteq proc'[P(u)].tasks
      BY <1>5, <2>1 DEF ClonesOn
    <2>3. at[u] = "exit_unlink" => Leader(u)' = Leader(u)
      BY <1>2, <1>3
    <2> QED
      BY <1>4, <2>1, <2>2, <2>3 DEF Listed, MyModule, KeepModules, HasModule
  <1>8. ASSUME NEW u \in Tid, NEW v \in Tid PROVE LastThread(u, v)'
    <2>1. LastThread(u, v) /\ P(u)' = P(u) /\ P(v)' = P(v)
      BY <1>3 DEF Threads
    <2>2. at[n] \notin Live /\ at[n] \notin Alone
      BY <1>2 DEF Live, Plain, Clone, Alone
    <2> QED
      BY <1>3, <1>4, <2>1, <2>2 DEF LastThread
  <1>9. ASSUME NEW p \in Pid, proc'[p].zombie PROVE Used(p)'
    <2>1. p /= q \/ Thread(t)
      BY <1>9 DEF ClonesOn
    <2>2. proc[p].zombie
      BY <1>9, <2>1 DEF ClonesOn, Procs
    <2>3. PICK u \in Tid : at[u] /= "unborn" /\ P(u) = p
      BY <2>2 DEF Threads, Used
    <2> QED
      BY <1>3, <1>4, <2>3 DEF Used
  <1>10. ASSUME NEW p \in Procs, NEW u \in proc'[p].tasks PROVE at'[u] /= "unborn" /\ P(u)' = p
    <2>1. CASE u \in proc[p].tasks
      <3>1. u \in Tid
        BY <2>1, FieldTypes DEF TypeOK
      <3> QED
        BY <1>3, <1>4, <2>1, <3>1 DEF Threads
    <2>2. CASE u = n /\ p = q
      BY <1>2, <1>3, <1>4, <2>2
    <2> QED
      BY <1>10, <2>1, <2>2 DEF ClonesOn
  <1>11. \A u \in Tid : Starting(u)'
    BY <1>6 DEF Starting
  <1> QED
    BY <1>7, <1>8, <1>9, <1>10, <1>11 DEF Threads

\* Threads holds when the new thread is started.
LEMMA CloneRunThreads ==
  ASSUME TypeOK, TypeOK', Threads, NEW t \in Tid, CloneRunDoes(t)
  PROVE  Threads'
  <1> DEFINE n == loc[t].tid
             q == loc[t].pid
  <1>1. /\ at[t] = "clone_run" /\ at[t] \in Clone /\ at[t] \in Live /\ at'[t] \in {"vfork", "signals"}
        /\ n \in Tid /\ at'[n] = "user" /\ proc' = proc /\ task' = task
        /\ \A u \in Tid : u /= t => (u /= n => at'[u] = at[u]) /\ loc'[u] = loc[u]
    BY DEF CloneRunDoes, Clone, Live
  <1>2. Starting(t) /\ at[n] = "made" /\ P(n) = q /\ n /= t
    BY <1>1 DEF Threads, Starting
  <1>3. \A u \in Tid : P(u)' = P(u) /\ P(u) \in Procs /\ Leader(u)' = Leader(u) /\ MyModule(u)' = MyModule(u)
    BY <1>1, Mine DEF P, Leader, MyModule
  <1>4. \A u \in Tid : /\ at'[u] = "unborn" <=> at[u] = "unborn"
                       /\ at'[u] = "gone" <=> at[u] = "gone"
                       /\ at'[u] \in Alone => at'[u] = at[u]
                       /\ at'[u] = "exit_unlink" => at'[u] = at[u]
                       /\ at'[u] \in Live \ Cleared => at[u] \in Live \ Cleared \/ u = n
                       /\ at'[u] \in Live => at[u] \in Live \/ u = n
                       /\ at'[u] \in Clone => at'[u] = at[u] /\ loc'[u] = loc[u]
    BY <1>1, <1>2 DEF Clone, Live, Cleared, Alone, Plain
  <1>5. ~proc[q].zombie
    <2>1. Listed(t)
      BY DEF Threads
    <2> QED
      BY <1>1, <1>2, <2>1 DEF Starting, Listed
  <1>6. ASSUME NEW u \in Tid, at'[u] \in Clone PROVE Starting(u)'
    <2> DEFINE m == loc[u].tid
               r == loc[u].pid
    <2>1. u /= t /\ at'[u] = at[u] /\ loc'[u] = loc[u] /\ at[u] \in Clone /\ Starting(u)
      BY <1>1, <1>4, <1>6 DEF Threads, Clone
    <2>2. m \in Tid /\ r \in Procs /\ m /= n /\ m /= t
      BY <1>1, <1>2, <2>1, Mine DEF Local, Procs, Starting
    <2>3. at'[m] = "made" /\ P(m)' = r
      BY <1>1, <1>3, <2>1, <2>2 DEF Starting
    <2>4. \A v \in Tid : at'[v] \in Clone /\ loc'[v].tid = m => v = u
      BY <1>4, <2>1 DEF Starting
    <2>5. Thread(u)' <=> Thread(u)
      BY <2>1 DEF Thread
    <2>6. Thread(u) => r = P(u)' /\ ~Leader(m)'
      BY <1>3, <2>1, <2>2 DEF Starting
    <2>7. ASSUME ~Thread(u), NEW v \in Tid, at'[v] /= "unborn", P(v)' = r PROVE v = m
      BY <1>3, <1>4, <2>1, <2>7 DEF Starting
    <2> QED
      BY <1>1, <2>1, <2>3, <2>4, <2>5, <2>6, <2>7 DEF Starting
  <1>7. ASSUME NEW u \in Tid PROVE Listed(u)'
    <2>1. Listed(u) /\ P(u)' = P(u) /\ Leader(u)' = Leader(u) /\ MyModule(u)' = MyModule(u)
      BY <1>3 DEF Threads
    <2>2. u = n => u \in proc[P(u)].tasks /\ MyModule(u) \in Module /\ ~proc[P(u)].zombie
      BY <1>1, <1>2, <1>5 DEF Starting, MyModule
    <2> QED
      BY <1>1, <1>4, <2>1, <2>2 DEF Listed
  <1>8. ASSUME NEW u \in Tid, NEW v \in Tid PROVE LastThread(u, v)'
    <2>1. /\ LastThread(u, v) /\ LastThread(u, t) /\ P(u)' = P(u) /\ P(v)' = P(v)
          /\ Leader(u)' = Leader(u) /\ Leader(v)' = Leader(v)
      BY <1>3 DEF Threads
    <2>2. ASSUME at'[u] \in Alone PROVE Leader(u) /\ (at'[v] \in Live /\ P(v) = P(u) => v = u)
      <3>1. at[u] \in Alone /\ at[u] \notin {"clone_run", "made", "unborn"}
        BY <1>4, <2>2 DEF Alone
      <3>2. ASSUME v = n, P(v) = P(u) PROVE FALSE
        <4>1. CASE Thread(t)
          BY <1>1, <1>2, <2>1, <3>1, <3>2, <4>1 DEF Starting, LastThread
        <4>2. CASE ~Thread(t)
          BY <1>1, <1>2, <3>1, <3>2, <4>2 DEF Starting
        <4> QED
          BY <4>1, <4>2
      <3> QED
        BY <1>4, <2>1, <3>1, <3>2 DEF LastThread
    <2>3. ASSUME at'[u] \in Live, at'[v] \in Live, Leader(u), Leader(v), P(v) = P(u) PROVE v = u
      <3>1. CASE u = n \/ v = n
        <4>1. ~Thread(t)
          BY <1>1, <1>2, <2>3, <3>1 DEF Starting
        <4>2. at[u] /= "unborn" /\ at[v] /= "unborn"
          BY <1>4, <2>3 DEF Live, Plain, Clone, Alone
        <4> QED
          BY <1>1, <1>2, <2>3, <3>1, <4>1, <4>2 DEF Starting
      <3>2. CASE u /= n /\ v /= n
        BY <1>4, <2>1, <2>3, <3>2 DEF LastThread
      <3> QED
        BY <3>1, <3>2
    <2> QED
      BY <2>1, <2>2, <2>3 DEF LastThread
  <1>9. ASSUME NEW p \in Pid, proc'[p].zombie PROVE Used(p)'
    <2>1. PICK u \in Tid : at[u] /= "unborn" /\ P(u) = p
      BY <1>1, <1>9 DEF Threads, Used
    <2> QED
      BY <1>3, <1>4, <2>1 DEF Used
  <1>10. ASSUME NEW p \in Procs, NEW u \in proc'[p].tasks PROVE at'[u] /= "unborn" /\ P(u)' = p
    <2>1. u \in proc[p].tasks /\ u \in Tid
      BY <1>1, <1>10, FieldTypes DEF TypeOK
    <2> QED
      BY <1>3, <1>4, <2>1 DEF Threads
  <1>11. \A u \in Tid : Starting(u)'
    BY <1>6 DEF Starting
  <1> QED
    BY <1>7, <1>8, <1>9, <1>10, <1>11 DEF Threads

\* t makes the thread n, for the process q, and goes on to start it or not.
Makes(t, n, q) ==
  /\ Born(n, q) /\ at[t] = "user" /\ at'[t] \in {"clone", "signals"}
  /\ \A u \in Tid : (u /= t /\ u /= n => at'[u] = at[u]) /\ (u /= t => loc'[u] = loc[u])
  /\ at'[t] = "clone" => loc'[t].tid = n /\ loc'[t].pid = q /\ (Thread(t)' => q = P(t)) /\ (~Thread(t)' => ~Used(q))
  /\ ~Used(q) \/ q = P(t)

\* Threads holds when a thread is made.
LEMMA MakesThreads ==
  ASSUME TypeOK, TypeOK', Threads, NEW t \in Tid, NEW n \in Tid, NEW q \in Pid, Makes(t, n, q)
  PROVE  Threads'
  <1>1. /\ at[t] = "user" /\ at'[t] \in {"clone", "signals"} /\ at[n] = "unborn" /\ at'[n] = "made" /\ n /= t
        /\ \A u \in Tid : (u /= t /\ u /= n => at'[u] = at[u]) /\ (u /= t => loc'[u] = loc[u])
    BY DEF Makes, Born
  <1>2. /\ P(n)' = q /\ ~Leader(n)' /\ ~task'[n].exited /\ proc' = proc /\ q \in Procs
        /\ \A u \in Tid : u /= n => P(u)' = P(u) /\ Leader(u)' = Leader(u) /\ task'[u].exited = task[u].exited
    BY DEF Makes, Born, Procs
  <1>3. \A u \in Tid : /\ at'[u] = "unborn" <=> at[u] = "unborn" /\ u /= n
                       /\ at'[u] = "gone" <=> at[u] = "gone"
                       /\ at'[u] \in Alone => at'[u] = at[u] /\ u /= n
                       /\ at'[u] = "exit_unlink" => at'[u] = at[u] /\ u /= n
                       /\ at'[u] \in Live \ Cleared => at[u] \in Live \ Cleared /\ u /= n
                       /\ at'[u] \in Live => at[u] \in Live /\ u /= n
                       /\ u /= t /\ at'[u] \in Clone => at'[u] = at[u] /\ loc'[u] = loc[u]
    BY <1>1 DEF Clone, Live, Cleared, Alone, Plain
  <1>4. \A u \in Tid : at[u] \in Clone => at[loc[u].tid] = "made" /\ loc[u].tid /= n
    BY <1>1 DEF Threads, Starting
  <1>5. ASSUME NEW u \in Tid, u /= t, at'[u] \in Clone PROVE Starting(u)'
    <2> DEFINE m == loc[u].tid
               r == loc[u].pid
    <2>1. at'[u] = at[u] /\ loc'[u] = loc[u] /\ at[u] \in Clone /\ Starting(u) /\ u /= n
      BY <1>1, <1>3, <1>5 DEF Threads, Clone
    <2>2. m \in Tid /\ r \in Procs /\ m /= n /\ m /= t
      BY <1>1, <1>4, <2>1, Mine DEF Local, Procs
    <2>3. at'[m] = "made" /\ P(m)' = r
      BY <1>1, <1>2, <2>1, <2>2 DEF Starting
    <2>4. ASSUME NEW v \in Tid, at'[v] \in Clone, loc'[v].tid = m PROVE v = u
      <3>1. CASE v = t
        BY <1>1, <2>2, <2>4, <3>1 DEF Makes, Clone
      <3>2. CASE v /= t
        BY <1>3, <2>1, <2>4, <3>2 DEF Starting
      <3> QED
        BY <3>1, <3>2
    <2>5. Thread(u)' <=> Thread(u)
      BY <2>1 DEF Thread
    <2>6. Thread(u) => r = P(u)' /\ ~Leader(m)'
      BY <1>2, <2>1, <2>2 DEF Starting
    <2>7. ASSUME ~Thread(u), NEW v \in Tid, at'[v] /= "unborn", P(v)' = r PROVE v = m
      <3>1. CASE v = n
        <4>1. q = r /\ at[m] = "made" /\ P(m) = r
          BY <1>2, <2>1, <2>7, <3>1 DEF Starting
        <4>2. Used(q)
          BY <2>2, <4>1 DEF Used
        <4>3. q = P(t)
          BY <4>2 DEF Makes
        <4> QED
          BY <1>1, <2>1, <2>2, <2>7, <4>1, <4>3 DEF Starting
      <3>2. CASE v /= n
        BY <1>2, <1>3, <2>1, <2>7, <3>2 DEF Starting
      <3> QED
        BY <3>1, <3>2
    <2> QED
      BY <1>2, <2>1, <2>3, <2>4, <2>5, <2>6, <2>7 DEF Starting
  <1>6. ASSUME at'[t] \in Clone PROVE Starting(t)'
    <2>1. /\ at'[t] = "clone" /\ loc'[t].tid = n /\ loc'[t].pid = q
          /\ (Thread(t)' => q = P(t)) /\ (~Thread(t)' => ~Used(q))
      BY <1>1, <1>6 DEF Makes, Clone
    <2>2. \A u \in Tid : at'[u] \in Clone /\ loc'[u].tid = n => u = t
      BY <1>3, <1>4
    <2>3. Thread(t)' => q = P(t)' /\ ~Leader(n)'
      BY <1>1, <1>2, <2>1
    <2>4. ASSUME ~Thread(t)' PROVE ~proc'[q].zombie /\ \A u \in Tid : at'[u] /= "unborn" /\ P(u)' = q => u = n
      <3>1. ~Used(q) /\ ~proc[q].zombie
        BY <2>1, <2>4 DEF Threads
      <3> QED
        BY <1>2, <1>3, <3>1 DEF Used
    <2> QED
      BY <1>1, <1>2, <2>1, <2>2, <2>3, <2>4 DEF Starting
  <1>7. ASSUME NEW u \in Tid PROVE Listed(u)'
    <2>1. CASE u = n
      BY <1>1, <1>2, <1>3, <2>1 DEF Listed
    <2>2. CASE u /= n
      <3>1. /\ Listed(u) /\ P(u)' = P(u) /\ Leader(u)' = Leader(u) /\ MyModule(u)' = MyModule(u)
            /\ task'[u].exited = task[u].exited
        BY <1>2, <2>2 DEF Threads, MyModule
      <3> QED
        BY <1>2, <1>3, <3>1 DEF Listed
    <2> QED
      BY <2>1, <2>2
  <1>8. ASSUME NEW u \in Tid, NEW v \in Tid PROVE LastThread(u, v)'
    <2>1. LastThread(u, v)
      BY DEF Threads
    <2>2. \A w \in Tid : w /= n => P(w)' = P(w) /\ Leader(w)' = Leader(w)
      BY <1>2
    <2>3. at'[u] \in Alone => at[u] \in Alone /\ u /= n /\ at'[u] \in Live
      BY <1>3 DEF Live
    <2> QED
      BY <1>3, <2>1, <2>2, <2>3 DEF LastThread
  <1>9. ASSUME NEW p \in Pid, proc'[p].zombie PROVE Used(p)'
    <2>1. PICK u \in Tid : at[u] /= "unborn" /\ P(u) = p
      BY <1>2, <1>9 DEF Threads, Used
    <2> QED
      BY <1>1, <1>2, <1>3, <2>1 DEF Used
  <1>10. ASSUME NEW p \in Procs, NEW u \in proc'[p].tasks PROVE at'[u] /= "unborn" /\ P(u)' = p
    <2>1. u \in proc[p].tasks /\ u \in Tid
      BY <1>2, <1>10, FieldTypes DEF TypeOK
    <2>2. at[u] /= "unborn" /\ P(u) = p
      BY <2>1 DEF Threads
    <2> QED
      BY <1>1, <1>2, <1>3, <2>1, <2>2
  <1>11. \A u \in Tid : Starting(u)'
    BY <1>5, <1>6 DEF Starting
  <1> QED
    BY <1>7, <1>8, <1>9, <1>10, <1>11 DEF Threads

\* Quiet steps keep Threads,
LEMMA QuietThreads ==
  ASSUME TypeOK, Threads, NEW t \in Tid, Quiet(t)
  PROVE  Threads'
  BY QuietEffect, NearThreads DEF Quiet, QuietProc, SameRest, SameEnd

\* and so do the steps of clone,
LEMMA CloneThreads ==
  ASSUME TypeOK, TypeOK', Threads, NEW t \in Tid, CloneDoes(t)
  PROVE  Threads'
  <1>1. CASE \E n \in Tid, q \in Pid : CloneTaskDoes(t, n, q)
    <2>1. PICK n \in Tid, q \in Pid : CloneTaskDoes(t, n, q)
      BY <1>1
    <2>2. Makes(t, n, q)
      BY <2>1 DEF CloneTaskDoes, Makes
    <2> QED
      BY <2>2, MakesThreads
  <1>2. CASE \E n \in Tid, q \in Pid : CloneBadDoes(t, n, q)
    <2>1. PICK n \in Tid, q \in Pid : CloneBadDoes(t, n, q)
      BY <1>2
    <2>2. Makes(t, n, q)
      BY <2>1 DEF CloneBadDoes, Makes
    <2> QED
      BY <2>2, MakesThreads
  <1>3. ASSUME at[t] \in Clone
        PROVE  /\ loc[t].pid \in Procs /\ Starting(t)
               /\ Thread(t) => loc[t].pid = P(t)
               /\ at[t] /= "clone" => loc[t].tid \in proc[loc[t].pid].tasks
               /\ at[t] = "clone_child" => HasModule(loc[t].pid, loc[t].tid)
    BY <1>3, Mine DEF Threads, Starting, Local, Procs, HasModule
  <1>4. {"clone", "clone_module", "clone_child", "clone_run"} \subseteq Clone
    BY DEF Clone
  <1>5. CASE CloneThreadDoes(t)
    <2>1. at[t] = "clone" /\ P(t) \in Procs
      BY <1>5, Mine DEF CloneThreadDoes, Passes
    <2>2. ClonesOn(t, "clone", "clone_module")
      BY <1>3, <1>4, <1>5, <2>1 DEF CloneThreadDoes, ClonesOn, SameRest, SameEnd, SameLists, P, Leader
    <2> QED
      BY <2>2, ClonesOnThreads
  <1>6. CASE CloneProcessDoes(t)
    <2>1. at[t] = "clone" /\ ~Thread(t)
      BY <1>6 DEF CloneProcessDoes, Passes
    <2>2. ClonesOn(t, "clone", "clone_module")
      BY <1>3, <1>4, <1>6, <2>1 DEF CloneProcessDoes, ClonesOn, SameRest, SameEnd, SameLists
    <2> QED
      BY <2>2, ClonesOnThreads
  <1>7. CASE CloneModuleDoes(t)
    <2> DEFINE b == IF Thread(t) THEN "clone_run" ELSE "clone_child"
    <2>1. at[t] = "clone_module" /\ b \in {"clone_run", "clone_child"}
      BY <1>7 DEF CloneModuleDoes, Passes
    <2>2. Passes(t, "clone_module", b) /\ task' = task /\ \A p \in Procs : SameLists(p) /\ proc'[p].zombie = proc[p].zombie
      BY <1>7 DEF CloneModuleDoes, SameRest, SameEnd
    <2> HIDE DEF b
    <2>3. ~Thread(t) => ~proc[loc[t].pid].zombie
      BY <1>3, <1>4, <2>1 DEF Starting
    <2>4. ClonesOn(t, "clone_module", b)
      BY <1>3, <1>4, <1>7, <2>1, <2>2, <2>3 DEF CloneModuleDoes, ClonesOn, SameLists, P, Leader
    <2> QED
      BY <2>4, ClonesOnThreads
  <1>8. CASE CloneChildDoes(t)
    <2>1. at[t] = "clone_child"
      BY <1>8 DEF CloneChildDoes, Passes
    <2>2. Passes(t, "clone_child", "clone_run") /\ task' = task /\ \A p \in Procs : SameLists(p) /\ proc'[p].zombie = proc[p].zombie
      BY <1>8 DEF CloneChildDoes, SameEnd
    <2>3. /\ ~Thread(t) => ~proc[loc[t].pid].zombie
          /\ loc[t].tid \in Tid /\ HasModule(loc[t].pid, loc[t].tid)
      BY <1>3, <1>4, <2>1, Mine DEF Starting, Local
    <2>4. proc'[loc[t].pid].modules[loc[t].tid] \in Module
      BY <1>3, <1>4, <2>1, <2>2, <2>3 DEF SameLists, KeepModules
    <2>5. ClonesOn(t, "clone_child", "clone_run")
      BY <1>3, <1>4, <2>1, <2>2, <2>3, <2>4 DEF ClonesOn, SameLists, P, Leader
    <2> QED
      BY <2>5, ClonesOnThreads
  <1> QED
    BY <1>1, <1>2, <1>5, <1>6, <1>7, <1>8, CloneRunThreads DEF CloneDoes

\* those of exec and of an exit up to the end of its loop,
LEMMA LeaveThreads ==
  ASSUME TypeOK, TypeOK', Threads, NEW t \in Tid, LeaveDoes(t)
  PROVE  Threads'
  <1>1. /\ Listed(t) /\ P(t) \in Procs
        /\ at[t] \in Plain \cup {"exec", "exit_unlink"} =>
             t \in proc[P(t)].tasks /\ HasModule(P(t), t) /\ ~proc[P(t)].zombie /\ ~task[t].exited
    BY Mine DEF Threads, Listed, MyModule, HasModule, Live, Plain, Alone, Cleared
  <1>2. /\ \A a \in {"user", "exec", "exec_release", "exit", "exit_tasks", "exit_main", "exit_unlink"} : a \in Live
        /\ \A a \in {"user", "exec", "exec_release", "exit", "exit_tasks", "exit_main", "exit_unlink", "exit_done"} :
             a \notin Clone /\ a \notin Cleared
        /\ \A a \in {"user", "exec_release", "exit", "exit_tasks", "exit_unlink", "exit_done"} : a \notin Alone
        /\ {"user", "exit_tasks"} \subseteq Plain /\ "exec" \in Alone /\ "exit_done" \notin Live
    BY DEF Live, Plain, Clone, Alone, Cleared
  <1>3. CASE ExecDoes(t)
    <2>1. PICK b \in {"exec", "exit"} : Passes(t, "user", b)
      BY <1>3 DEF ExecDoes
    <2>2. Lone(t)
      <3>1. ASSUME NEW u \in Tid, at[u] \in Live, P(u) = P(t), u /= t PROVE FALSE
        <4>1. at[u] \in Cleared
          BY <1>3, <3>1 DEF ExecDoes, Threads, Listed
        <4>2. at[t] \in Live /\ at[u] \in Alone
          BY <1>2, <2>1, <4>1 DEF Passes, Cleared, Alone
        <4> QED
          BY <3>1, <4>2, AloneIsLone DEF Lone
      <3> QED
        BY <3>1 DEF Lone
    <2>3. /\ at[t] = "user" /\ at'[t] = b /\ Others(t)
          /\ \A p \in Procs : SameLists(p) /\ proc'[p].zombie = proc[p].zombie
      BY <1>3, <2>1 DEF ExecDoes, Passes, Others, SameEnd
    <2>4. /\ Leader(t)' /\ task'[t].exited = task[t].exited
          /\ \A u \in Tid : P(u)' = P(u) /\ (u /= t => Leader(u)' = Leader(u) /\ task'[u].exited = task[u].exited)
      <3>1. task \in [Tid -> [pid : Pid, leader : BOOLEAN, exited : BOOLEAN]] /\ task' = [task EXCEPT ![t].leader = TRUE]
        BY <1>3 DEF ExecDoes, TypeOK
      <3>2. \A u \in Tid : u /= t => task'[u] = task[u]
        BY <3>1
      <3>3. task'[t] = [task[t] EXCEPT !.leader = TRUE] /\ task[t] \in [pid : Pid, leader : BOOLEAN, exited : BOOLEAN]
        BY <3>1
      <3>4. task'[t].leader /\ task'[t].pid = task[t].pid /\ task'[t].exited = task[t].exited
        BY <3>3
      <3> QED
        BY <3>2, <3>4 DEF P, Leader
    <2>5. PassesOn(t, "user", b)
      BY <1>1, <1>2, <2>2, <2>3, <2>4 DEF PassesOn, SameLists, KeepModules
    <2> QED
      BY <2>5, PassesOnThreads
  <1>4. CASE ExecResetDoes(t)
    <2>1. at[t] = "exec" /\ at'[t] = "exec_release" /\ Others(t) /\ task' = task
      BY <1>4 DEF ExecResetDoes, Passes, Others
    <2>2. /\ proc'[P(t)].modules[t] \in Module
          /\ \A p \in Procs : /\ proc'[p].tasks = proc[p].tasks /\ proc'[p].zombie = proc[p].zombie
                              /\ p /= P(t) => SameLists(p)
      BY <1>4 DEF ExecResetDoes, SameRest, SameEnd
    <2>3. Lone(t)
      BY <1>2, <2>1, AloneIsLone
    <2>4. PassesOn(t, "exec", "exec_release")
      BY <1>1, <1>2, <2>1, <2>2, <2>3 DEF PassesOn, P, Leader
    <2> QED
      BY <2>4, PassesOnThreads
  <1>5. CASE ExitSignalDoes(t)
    <2>1. /\ task' = task /\ \A p \in Procs : SameLists(p) /\ proc'[p].zombie = proc[p].zombie
      BY <1>5 DEF ExitSignalDoes, SameLists, KeepModules, HasModule
    <2>2. \A u \in Tid : Near(u)
      BY <1>5 DEF ExitSignalDoes, Others, Near, Plain
    <2> QED
      BY <2>1, <2>2, NearThreads
  <1>6. CASE ExitTasksDoes(t)
    <2>1. /\ at[t] = "exit_tasks" /\ at'[t] = "exit_main" /\ Others(t) /\ task' = task /\ proc' = proc /\ Leader(t)
          /\ \A u \in proc[P(t)].tasks : Leader(u) \/ task[u].exited
      BY <1>6 DEF ExitTasksDoes, Passes, Others
    <2>2. Lone(t)
      <3>1. ASSUME NEW u \in Tid, at[u] \in Live, P(u) = P(t), u /= t PROVE FALSE
        <4>1. at[t] \in Live /\ at[u] \notin Alone
          BY <1>2, <2>1, <3>1, AloneIsLone DEF Lone
        <4>2. u \in proc[P(t)].tasks /\ ~task[u].exited
          BY <3>1, <4>1 DEF Threads, Listed, Live, Plain, Clone, Alone, Cleared
        <4>3. Leader(u)
          BY <2>1, <4>2
        <4> QED
          BY <2>1, <3>1, <4>1, <4>3 DEF Threads, LastThread
      <3> QED
        BY <3>1 DEF Lone
    <2>3. \A p \in Procs : SameLists(p)
      BY <2>1 DEF SameLists, KeepModules, HasModule
    <2>4. PassesOn(t, "exit_tasks", "exit_main")
      BY <1>1, <1>2, <2>1, <2>2, <2>3 DEF PassesOn, P, Leader, HasModule
    <2> QED
      BY <2>4, PassesOnThreads
  <1>7. CASE ExitLeaveDoes(t)
    <2>1. /\ at[t] = "exit_tasks" /\ at'[t] = "exit_unlink" /\ Others(t) /\ task' = task /\ proc' = proc /\ ~Leader(t)
      BY <1>7 DEF ExitLeaveDoes, Passes, Others
    <2>2. \A p \in Procs : SameLists(p)
      BY <2>1 DEF SameLists, KeepModules, HasModule
    <2>3. PassesOn(t, "exit_tasks", "exit_unlink")
      BY <1>1, <1>2, <2>1, <2>2 DEF PassesOn, P, Leader, HasModule
    <2> QED
      BY <2>3, PassesOnThreads
  <1>8. CASE ExitUnlinkDoes(t)
    <2>1. /\ at[t] = "exit_unlink" /\ at'[t] = "exit_done" /\ Others(t) /\ task' = task
          /\ proc'[P(t)].tasks = proc[P(t)].tasks \ {t}
          /\ \A u \in Tid : u /= t /\ HasModule(P(t), u) => proc'[P(t)].modules[u] \in Module
          /\ \A p \in Procs : proc'[p].zombie = proc[p].zombie /\ (p /= P(t) => SameLists(p))
      BY <1>8 DEF ExitUnlinkDoes, Passes, Others, SameRest, SameEnd
    <2>2. \A p \in Procs : proc'[p].tasks \subseteq proc[p].tasks
      BY <2>1 DEF SameLists
    <2>3. PassesOn(t, "exit_unlink", "exit_done")
      BY <1>1, <1>2, <2>1, <2>2 DEF PassesOn, P, Leader
    <2> QED
      BY <2>3, PassesOnThreads
  <1> QED
    BY <1>3, <1>4, <1>5, <1>6, <1>7, <1>8 DEF LeaveDoes

\* those of the leader's exit after it,
LEMMA ExitThreads ==
  ASSUME TypeOK, TypeOK', Threads, NEW t \in Tid, ExitDoes(t)
  PROVE  Threads'
  <1>1. /\ P(t) \in Procs
        /\ at[t] \in {"exit_main", "exit_clear"} => t \in proc[P(t)].tasks /\ HasModule(P(t), t)
        /\ at[t] \in Alone => Leader(t) /\ Lone(t) /\ ~proc[P(t)].zombie /\ ~task[t].exited
    BY AloneIsLone, Mine DEF Threads, Listed, MyModule, HasModule, Live, Alone, Cleared
  <1>2. /\ \A a \in {"exit_main", "exit_clear", "exit_table", "exit_code", "exit_zombie"} : a \in Live /\ a \in Alone /\ a \notin Clone
        /\ \A a \in {"exit_table", "exit_code", "exit_zombie"} : a \in Cleared
        /\ \A a \in {"exit_done", "gone"} : a \notin Live /\ a \notin Alone /\ a \notin Clone
    BY DEF Live, Plain, Clone, Alone, Cleared
  <1>3. CASE ExitMainDoes(t)
    <2>1. /\ at[t] = "exit_main" /\ at'[t] = "exit_clear" /\ Others(t) /\ task' = task
          /\ \A p \in Procs : SameLists(p) /\ proc'[p].zombie = proc[p].zombie
      BY <1>3 DEF ExitMainDoes, Passes, Others, SameEnd
    <2>2. PassesOn(t, "exit_main", "exit_clear")
      BY <1>1, <1>2, <2>1 DEF PassesOn, P, Leader, SameLists, KeepModules
    <2> QED
      BY <2>2, PassesOnThreads
  <1>4. CASE ExitClearDoes(t)
    <2>1. /\ at[t] = "exit_clear" /\ at'[t] = "exit_table" /\ Others(t) /\ task' = task
          /\ proc'[P(t)].tasks = {}
          /\ \A p \in Procs : proc'[p].zombie = proc[p].zombie /\ (p /= P(t) => SameLists(p))
      BY <1>4 DEF ExitClearDoes, Passes, Others, SameRest, SameEnd
    <2>2. \A p \in Procs : proc'[p].tasks \subseteq proc[p].tasks
      BY <2>1 DEF SameLists
    <2>3. PassesOn(t, "exit_clear", "exit_table")
      BY <1>1, <1>2, <2>1, <2>2 DEF PassesOn, P, Leader
    <2> QED
      BY <2>3, PassesOnThreads
  <1>5. CASE ExitTableDoes(t)
    <2>1. /\ at[t] = "exit_table" /\ at'[t] = "exit_code" /\ Others(t) /\ task' = task
          /\ \A p \in Procs : SameLists(p) /\ proc'[p].zombie = proc[p].zombie
      BY <1>5 DEF ExitTableDoes, Passes, Others, SameEnd
    <2>2. PassesOn(t, "exit_table", "exit_code")
      BY <1>1, <1>2, <2>1 DEF PassesOn, P, Leader, SameLists, KeepModules
    <2> QED
      BY <2>2, PassesOnThreads
  <1>6. CASE ExitCodeDoes(t)
    <2>1. /\ at[t] = "exit_code" /\ at'[t] = "exit_zombie" /\ Others(t) /\ task' = task
          /\ \A p \in Procs : SameLists(p) /\ proc'[p].zombie = proc[p].zombie
      BY <1>6 DEF ExitCodeDoes, Passes, Others, SameEnd
    <2>2. PassesOn(t, "exit_code", "exit_zombie")
      BY <1>1, <1>2, <2>1 DEF PassesOn, P, Leader, SameLists, KeepModules
    <2> QED
      BY <2>2, PassesOnThreads
  <1>7. CASE ExitZombieDoes(t)
    <2>1. /\ at[t] = "exit_zombie" /\ at'[t] = "exit_done" /\ Others(t) /\ task' = task
          /\ \A p \in Procs : SameLists(p) /\ (p /= P(t) => proc'[p].zombie = proc[p].zombie)
      BY <1>7 DEF ExitZombieDoes, Passes, Others, SameEnd
    <2>2. PassesOn(t, "exit_zombie", "exit_done")
      BY <1>1, <1>2, <2>1 DEF PassesOn, P, Leader, SameLists
    <2> QED
      BY <2>2, PassesOnThreads
  <1>8. CASE ExitDoneDoes(t)
    <2>1. at[t] = "exit_done" /\ at'[t] = "gone" /\ Others(t) /\ proc' = proc
      BY <1>8 DEF ExitDoneDoes
    <2>2. /\ \A u \in Tid : P(u)' = P(u) /\ Leader(u)' = Leader(u)
          /\ \A u \in Tid : u /= t => task'[u].exited = task[u].exited
          /\ task'[t].exited = TRUE
      <3>1. task \in [Tid -> [pid : Pid, leader : BOOLEAN, exited : BOOLEAN]] /\ task' = [task EXCEPT ![t].exited = TRUE]
        BY <1>8 DEF ExitDoneDoes, TypeOK
      <3>2. \A u \in Tid : u /= t => task'[u] = task[u]
        BY <3>1
      <3>3. task'[t] = [task[t] EXCEPT !.exited = TRUE] /\ task[t] \in [pid : Pid, leader : BOOLEAN, exited : BOOLEAN]
        BY <3>1
      <3>4. task'[t].leader = task[t].leader /\ task'[t].pid = task[t].pid /\ task'[t].exited = TRUE
        BY <3>3
      <3> QED
        BY <3>2, <3>4 DEF P, Leader
    <2>3. \A p \in Procs : SameLists(p)
      BY <2>1 DEF SameLists, KeepModules, HasModule
    <2>4. PassesOn(t, "exit_done", "gone")
      BY <1>1, <1>2, <2>1, <2>2, <2>3 DEF PassesOn, HasModule
    <2> QED
      BY <2>4, PassesOnThreads
  <1> QED
    BY <1>3, <1>4, <1>5, <1>6, <1>7, <1>8 DEF ExitDoes

\* and those of wait_pid.
LEMMA WaitThreads ==
  ASSUME TypeOK, TypeOK', Threads, NEW t \in Tid, WaitDoes(t)
  PROVE  Threads'
  <1>1. task' = task /\ \A p \in Procs : SameLists(p) /\ proc'[p].zombie = proc[p].zombie
    BY DEF WaitDoes, WaitScanDoes, WaitRemoveDoes, SameEnd, SameLists, KeepModules, HasModule
  <1>2. \A u \in Tid : Near(u)
    BY DEF WaitDoes, WaitScanDoes, WaitRemoveDoes, Others, Near, Plain
  <1> QED
    BY <1>1, <1>2, NearThreads

\* Every effect keeps Threads.
LEMMA DoesThreads ==
  ASSUME TypeOK, TypeOK', Threads, NEW t \in Tid, Does(t)
  PROVE  Threads'
  BY QuietThreads, CloneThreads, LeaveThreads, ExitThreads, WaitThreads DEF Does

----------------------------------------------------------------------------
(* Exit codes.                                                             *)

\* The leader's code is ended once it is told, in its executor once it is stored, and what wait4 reports
\* is the code of a zombie.
Codes ==
  /\ \A t \in Tid :
       /\ Told(at[t], loc[t]) /\ Leader(t) => ended[P(t)] = loc[t].code
       /\ at[t] = "exit_zombie" => proc[P(t)].exit_code = ended[P(t)]
       /\ at[t] = "wait_remove" => proc[loc[t].pid].zombie /\ loc[t].code = ended[loc[t].pid]
  /\ \A p \in Pid : proc[p].zombie => proc[p].exit_code = ended[p]
  /\ \A i \in DOMAIN reaped : proc[reaped[i].pid].zombie /\ reaped[i].code = ended[reaped[i].pid]

----------------------------------------------------------------------------
(* Codes is preserved.                                                     *)

\* The step leaves alone what Codes says of u.
SameCode(u) ==
  /\ Told(at'[u], loc'[u]) /\ Leader(u)' =>
       Told(at[u], loc[u]) /\ Leader(u) /\ loc'[u].code = loc[u].code /\ P(u)' = P(u)
  /\ at'[u] = "exit_zombie" => at[u] = "exit_zombie" /\ P(u)' = P(u) /\ proc'[P(u)].exit_code = proc[P(u)].exit_code
  /\ at'[u] = "wait_remove" => at[u] = "wait_remove" /\ loc'[u] = loc[u]

SameZombie(p) == (proc'[p].zombie <=> proc[p].zombie) /\ (proc[p].zombie => proc'[p].exit_code = proc[p].exit_code)

\* The fields of a report of wait4.
LEMMA ReapedType ==
  ASSUME TypeOK, NEW i \in DOMAIN reaped
  PROVE  reaped[i].by \in Pid /\ reaped[i].pid \in Pid /\ reaped[i].code \in Int
  <1> DEFINE R == [by : Pid, pid : Pid, code : Int]
  <1>1. reaped \in Seq(R)
    BY DEF TypeOK
  <1> HIDE DEF R
  <1>2. reaped[i] \in R
    BY <1>1, SMTT(60)
  <1> QED
    BY <1>2 DEF R

\* An entry of an appended sequence is the new one or an old one.
LEMMA LastOrBefore ==
  ASSUME NEW S, NEW q \in Seq(S), NEW e, NEW i \in DOMAIN Append(q, e)
  PROVE  (i \in DOMAIN q /\ Append(q, e)[i] = q[i]) \/ Append(q, e)[i] = e
  BY SMTT(60)

\* Codes holds after a step that tells, stores and reports no code.
LEMMA SameCodes ==
  ASSUME TypeOK, Codes, ended' = ended, reaped' = reaped, \A u \in Tid : SameCode(u), \A p \in Pid : SameZombie(p)
  PROVE  Codes'
  <1>1. ASSUME NEW u \in Tid
        PROVE  /\ Told(at'[u], loc'[u]) /\ Leader(u)' => ended'[P(u)'] = loc'[u].code
               /\ at'[u] = "exit_zombie" => proc'[P(u)'].exit_code = ended'[P(u)']
               /\ at'[u] = "wait_remove" => proc'[loc'[u].pid].zombie /\ loc'[u].code = ended'[loc'[u].pid]
    <2>1. /\ Told(at[u], loc[u]) /\ Leader(u) => ended[P(u)] = loc[u].code
          /\ at[u] = "exit_zombie" => proc[P(u)].exit_code = ended[P(u)]
          /\ at[u] = "wait_remove" => proc[loc[u].pid].zombie /\ loc[u].code = ended[loc[u].pid] /\ loc[u].pid \in Pid
      BY Mine DEF Codes, Local
    <2>2. SameCode(u)
      OBVIOUS
    <2> QED
      BY <2>1, <2>2 DEF SameCode, SameZombie
  <1>2. \A p \in Pid : proc'[p].zombie => proc'[p].exit_code = ended'[p]
    BY DEF Codes, SameZombie
  <1>3. ASSUME NEW i \in DOMAIN reaped PROVE proc'[reaped[i].pid].zombie /\ reaped[i].code = ended[reaped[i].pid]
    BY ReapedType DEF Codes, SameZombie
  <1> QED
    BY <1>1, <1>2, <1>3 DEF Codes, Told

\* The places where Codes says something.
LEMMA ToldPlace ==
  ASSUME NEW a, NEW l
  PROVE  /\ Told(a, l) => a \in Live /\ a \notin Clone /\ a \notin {"user", "signals", "vfork", "exit", "wait_remove", "exit_unlink"}
         /\ a \in Alone /\ a \notin {"exec", "exit_zombie"} => Told(a, l)
  BY DEF Told, Live, Plain, Clone, Alone

\* Quiet steps keep Codes,
LEMMA QuietCodes ==
  ASSUME TypeOK, Codes, NEW t \in Tid, Quiet(t)
  PROVE  Codes'
  <1>1. /\ Others(t) /\ (at'[t] = "wait_remove" => at[t] = "wait_remove" /\ loc'[t] = loc[t])
        /\ Told(at'[t], loc'[t]) => Told(at[t], loc[t]) /\ loc'[t].code = loc[t].code
        /\ Near(t)
    BY QuietEffect
  <1>2. ended' = ended /\ reaped' = reaped /\ task' = task /\ \A p \in Procs : SameEnd(p)
    BY DEF Quiet, QuietProc, SameRest
  <1>3. ASSUME NEW u \in Tid PROVE SameCode(u)
    <2>1. P(u)' = P(u) /\ Leader(u)' = Leader(u) /\ P(u) \in Procs
      BY <1>2, Mine DEF P, Leader
    <2>2. at'[u] = "exit_zombie" => at[u] = "exit_zombie"
      BY <1>1 DEF Others, Near, Plain
    <2> QED
      BY <1>1, <1>2, <2>1, <2>2 DEF SameCode, SameEnd, Others
  <1>4. \A p \in Pid : SameZombie(p)
    BY <1>2 DEF SameZombie, SameEnd, Procs
  <1> QED
    BY <1>2, <1>3, <1>4, SameCodes

\* and so do the steps of clone, as an executor that was used is not used for a new process,
LEMMA CloneCodes ==
  ASSUME TypeOK, Threads, Codes, NEW t \in Tid, CloneDoes(t)
  PROVE  Codes'
  <1>1. ended' = ended /\ reaped' = reaped
    BY DEF CloneDoes, CloneTaskDoes, CloneBadDoes, Born, CloneThreadDoes, CloneProcessDoes, CloneModuleDoes,
       CloneChildDoes,
           CloneRunDoes
  <1>2. ASSUME NEW u \in Tid
        PROVE  \/ at'[u] = at[u] /\ loc'[u] = loc[u] /\ P(u)' = P(u) /\ (Leader(u)' = Leader(u) \/ at[u] = "made")
               \/ at'[u] \in Clone \cup {"made", "user", "signals", "vfork"}
    <2>1. CASE \E n \in Tid, q \in Pid : CloneTaskDoes(t, n, q) \/ CloneBadDoes(t, n, q)
      BY <2>1 DEF CloneTaskDoes, CloneBadDoes, Born, Clone
    <2>2. CASE CloneThreadDoes(t) \/ CloneModuleDoes(t) \/ CloneChildDoes(t)
      BY <2>2 DEF CloneThreadDoes, CloneModuleDoes, CloneChildDoes, Passes, Clone, P, Leader
    <2>3. CASE CloneProcessDoes(t)
      <3>1. at[t] = "clone" /\ at[t] \in Clone
        BY <2>3 DEF CloneProcessDoes, Passes, Clone
      <3>2. at[loc[t].tid] = "made"
        BY <3>1 DEF Threads, Starting
      <3> QED
        BY <2>3, <3>2 DEF CloneProcessDoes, Passes, Clone
    <2>4. CASE CloneRunDoes(t)
      BY <2>4 DEF CloneRunDoes, P, Leader
    <2> QED
      BY <2>1, <2>2, <2>3, <2>4 DEF CloneDoes
  <1>3. \A p \in Procs : SameEnd(p) \/ (~proc[p].zombie /\ ~proc'[p].zombie /\ \A u \in Tid : at[u] = "exit_zombie" => P(u) /= p)
    <2>1. CASE CloneProcessDoes(t)
      <3> DEFINE q == loc[t].pid
      <3>1. at[t] = "clone" /\ at[t] \in Clone /\ ~Thread(t) /\ Starting(t)
        BY <2>1 DEF CloneProcessDoes, Passes, Clone, Threads
      <3>2. ~proc[q].zombie /\ \A u \in Tid : at[u] = "exit_zombie" => P(u) /= q
        BY <3>1 DEF Starting
      <3> QED
        BY <2>1, <3>2 DEF CloneProcessDoes, SameRest
    <2>2. CASE (\E n \in Tid, q \in Pid : CloneTaskDoes(t, n, q) \/ CloneBadDoes(t, n, q)) \/ CloneRunDoes(t)
      <3>1. proc' = proc
        BY <2>2 DEF CloneTaskDoes, CloneBadDoes, Born, CloneRunDoes
      <3> QED
        BY <3>1 DEF SameEnd
    <2>3. CASE CloneThreadDoes(t) \/ CloneModuleDoes(t) \/ CloneChildDoes(t)
      BY <2>3 DEF CloneThreadDoes, CloneModuleDoes, CloneChildDoes, SameRest
    <2> QED
      BY <2>1, <2>2, <2>3 DEF CloneDoes
  <1>4. ASSUME NEW u \in Tid PROVE SameCode(u)
    <2>1. CASE at'[u] \in Clone \cup {"made", "user", "signals", "vfork"}
      <3>1. at'[u] \notin {"exit_zombie", "wait_remove"} /\ ~Told(at'[u], loc'[u])
        BY <2>1 DEF Clone, Told
      <3> QED
        BY <3>1 DEF SameCode
    <2>2. CASE at'[u] = at[u] /\ loc'[u] = loc[u] /\ P(u)' = P(u) /\ (Leader(u)' = Leader(u) \/ at[u] = "made")
      <3>1. at[u] = "exit_zombie" => proc'[P(u)].exit_code = proc[P(u)].exit_code
        BY <1>3, Mine DEF SameEnd
      <3>2. at[u] = "made" => ~Told(at[u], loc[u])
        BY DEF Told
      <3> QED
        BY <2>2, <3>1, <3>2 DEF SameCode
    <2> QED
      BY <1>2, <2>1, <2>2
  <1>5. \A p \in Pid : SameZombie(p)
    BY <1>3 DEF SameZombie, SameEnd, Procs
  <1> QED
    BY <1>1, <1>4, <1>5, SameCodes

\* Steps of exec and exit that neither tell nor store a code.
LEMMA PassCodes ==
  ASSUME TypeOK, Threads, Codes, NEW t \in Tid, NEW a, NEW b, Passes(t, a, b), UNCHANGED <<ended, reaped>>,
         \A u \in Tid : P(u)' = P(u) /\ (u /= t => Leader(u)' = Leader(u)), \A p \in Procs : SameEnd(p),
         b \notin {"exit_zombie", "wait_remove"},
         Told(b, loc[t]) => Told(a, loc[t]) /\ Leader(t)' = Leader(t)
  PROVE  Codes'
  <1>1. ASSUME NEW u \in Tid PROVE SameCode(u)
    <2>1. CASE u = t
      BY <2>1 DEF SameCode, Passes
    <2>2. CASE u /= t
      BY <2>2, Mine DEF SameCode, Passes, SameEnd
    <2> QED
      BY <2>1, <2>2
  <1>2. \A p \in Pid : SameZombie(p)
    BY DEF SameZombie, SameEnd, Procs
  <1> QED
    BY <1>1, <1>2, SameCodes

\* the step that tells the code, as no other leader of the process can have told one,
LEMMA ExitSignalCodes ==
  ASSUME TypeOK, Threads, Codes, NEW t \in Tid, ExitSignalDoes(t)
  PROVE  Codes'
  <1>1. /\ at[t] = "exit" /\ at[t] \in Live /\ Others(t) /\ at'[t] \in {"send", "exit_tasks"} /\ loc'[t].code = loc[t].code
        /\ proc' = proc /\ task' = task /\ reaped' = reaped
    BY DEF ExitSignalDoes, Live, Plain
  <1>2. /\ P(t) \in Pid /\ ~proc[P(t)].zombie
        /\ \A p \in Pid : (p = P(t) /\ Leader(t) => ended'[p] = loc[t].code) /\ (p /= P(t) \/ ~Leader(t) => ended'[p] = ended[p])
    BY <1>1, Mine DEF ExitSignalDoes, Threads, Listed, TypeOK
  <1>3. \A u \in Tid : P(u)' = P(u) /\ Leader(u)' = Leader(u) /\ P(u) \in Pid
    BY <1>1, Mine DEF P, Leader
  <1>4. ASSUME NEW u \in Tid
        PROVE  /\ Told(at'[u], loc'[u]) /\ Leader(u)' => ended'[P(u)'] = loc'[u].code
               /\ at'[u] = "exit_zombie" => proc'[P(u)'].exit_code = ended'[P(u)']
               /\ at'[u] = "wait_remove" => proc'[loc'[u].pid].zombie /\ loc'[u].code = ended'[loc'[u].pid]
    <2>1. CASE u = t
      BY <1>1, <1>2, <1>3, <2>1
    <2>2. CASE u /= t
      <3>1. at'[u] = at[u] /\ loc'[u] = loc[u] /\ P(u)' = P(u) /\ Leader(u)' = Leader(u) /\ P(u) \in Pid
        BY <1>1, <1>3, <2>2 DEF Others
      <3>2. ASSUME Told(at[u], loc[u]), Leader(u) PROVE ended'[P(u)] = loc[u].code
        <4>1. P(u) = P(t) => ~Leader(t)
          BY <1>1, <2>2, <3>2, ToldPlace DEF Threads, LastThread
        <4> QED
          BY <1>2, <3>1, <3>2, <4>1 DEF Codes
      <3>3. ASSUME at[u] = "exit_zombie" PROVE proc'[P(u)].exit_code = ended'[P(u)]
        <4>1. P(u) /= P(t)
          BY <1>1, <2>2, <3>3, AloneIsLone DEF Lone, Alone
        <4> QED
          BY <1>1, <1>2, <3>1, <3>3, <4>1 DEF Codes
      <3>4. ASSUME at[u] = "wait_remove" PROVE proc'[loc[u].pid].zombie /\ loc[u].code = ended'[loc[u].pid]
        <4>1. loc[u].pid \in Pid /\ proc[loc[u].pid].zombie /\ loc[u].code = ended[loc[u].pid]
          BY <3>4, Mine DEF Codes, Local
        <4> QED
          BY <1>1, <1>2, <4>1
      <3> QED
        BY <3>1, <3>2, <3>3, <3>4
    <2> QED
      BY <2>1, <2>2
  <1>5. \A p \in Pid : proc[p].zombie => ended'[p] = ended[p]
    BY <1>2
  <1>6. \A p \in Pid : proc'[p].zombie => proc'[p].exit_code = ended'[p]
    BY <1>1, <1>5 DEF Codes
  <1>7. \A i \in DOMAIN reaped : proc'[reaped[i].pid].zombie /\ reaped[i].code = ended'[reaped[i].pid]
    BY <1>1, <1>5, ReapedType DEF Codes
  <1> QED
    BY <1>1, <1>4, <1>6, <1>7 DEF Codes, Told

\* the steps of exec and of an exit up to the end of its loop,
LEMMA LeaveCodes ==
  ASSUME TypeOK, Threads, Codes, NEW t \in Tid, LeaveDoes(t)
  PROVE  Codes'
  <1>1. CASE ExecDoes(t)
    <2>1. PICK b \in {"exec", "exit"} : Passes(t, "user", b)
      BY <1>1 DEF ExecDoes
    <2>2. \A u \in Tid : P(u)' = P(u) /\ (u /= t => Leader(u)' = Leader(u))
      <3>1. task \in [Tid -> [pid : Pid, leader : BOOLEAN, exited : BOOLEAN]] /\ task' = [task EXCEPT ![t].leader = TRUE]
        BY <1>1 DEF ExecDoes, TypeOK
      <3> QED
        BY <3>1 DEF P, Leader
    <2>3. ~Told(b, loc[t]) /\ b \notin {"exit_zombie", "wait_remove"}
      BY DEF Told
    <2> QED
      BY <1>1, <2>1, <2>2, <2>3, PassCodes DEF ExecDoes
  <1>2. CASE ExecResetDoes(t)
    <2>1. ~Told("exec_release", loc[t])
      BY DEF Told
    <2> QED
      BY <1>2, <2>1, PassCodes DEF ExecResetDoes, SameRest, P, Leader
  <1>3. CASE ExitTasksDoes(t)
    <2>1. Told("exit_tasks", loc[t]) /\ \A p \in Procs : SameEnd(p)
      BY <1>3 DEF ExitTasksDoes, Told, SameEnd
    <2> QED
      BY <1>3, <2>1, PassCodes DEF ExitTasksDoes, P, Leader
  <1>4. CASE ExitLeaveDoes(t)
    <2>1. ~Told("exit_unlink", loc[t]) /\ \A p \in Procs : SameEnd(p)
      BY <1>4 DEF ExitLeaveDoes, Told, SameEnd
    <2> QED
      BY <1>4, <2>1, PassCodes DEF ExitLeaveDoes, P, Leader
  <1>5. CASE ExitUnlinkDoes(t)
    <2>1. ~Told("exit_done", loc[t])
      BY DEF Told
    <2> QED
      BY <1>5, <2>1, PassCodes DEF ExitUnlinkDoes, SameRest, P, Leader
  <1> QED
    BY <1>1, <1>2, <1>3, <1>4, <1>5, ExitSignalCodes DEF LeaveDoes

\* The process of t stores the code that t told, and becomes a zombie with it.
LEMMA StoreCodes ==
  ASSUME TypeOK, Threads, Codes, NEW t \in Tid, ExitCodeDoes(t) \/ ExitZombieDoes(t)
  PROVE  Codes'
  <1>1. /\ at[t] \in Alone /\ at[t] \in {"exit_code", "exit_zombie"} /\ loc' = loc
        /\ at'[t] \in {"exit_zombie", "exit_done"} /\ \A u \in Tid : u /= t => at'[u] = at[u]
        /\ task' = task /\ ended' = ended /\ reaped' = reaped
    BY DEF ExitCodeDoes, ExitZombieDoes, Passes, Alone
  <1>2. Lone(t) /\ Leader(t) /\ P(t) \in Pid /\ ~proc[P(t)].zombie
    BY <1>1, AloneIsLone, Mine DEF Threads, Listed, Live
  <1>3. \A p \in Pid : p /= P(t) => proc'[p].zombie = proc[p].zombie /\ proc'[p].exit_code = proc[p].exit_code
    BY DEF ExitCodeDoes, ExitZombieDoes, SameEnd, Procs
  <1>4. proc'[P(t)].exit_code = ended[P(t)] /\ (at'[t] = "exit_zombie" => ~proc'[P(t)].zombie)
    <2>1. CASE ExitCodeDoes(t)
      <3>1. Told(at[t], loc[t])
        BY <2>1 DEF ExitCodeDoes, Passes, Told
      <3> QED
        BY <1>2, <2>1, <3>1 DEF ExitCodeDoes, Codes
    <2>2. CASE ExitZombieDoes(t)
      BY <2>2 DEF ExitZombieDoes, Passes, Codes
    <2> QED
      BY <2>1, <2>2
  <1>5. \A u \in Tid : P(u)' = P(u) /\ Leader(u)' = Leader(u) /\ P(u) \in Pid
    BY <1>1, Mine DEF P, Leader
  <1>6. ASSUME NEW u \in Tid
        PROVE  /\ Told(at'[u], loc'[u]) /\ Leader(u)' => ended'[P(u)'] = loc'[u].code
               /\ at'[u] = "exit_zombie" => proc'[P(u)'].exit_code = ended'[P(u)']
               /\ at'[u] = "wait_remove" => proc'[loc'[u].pid].zombie /\ loc'[u].code = ended'[loc'[u].pid]
    <2>1. CASE u = t
      <3>1. ~Told(at'[t], loc[t]) /\ at'[t] /= "wait_remove"
        BY <1>1 DEF Told
      <3> QED
        BY <1>1, <1>4, <1>5, <2>1, <3>1
    <2>2. CASE u /= t
      <3>1. at'[u] = at[u] /\ loc'[u] = loc[u] /\ P(u)' = P(u) /\ Leader(u)' = Leader(u) /\ P(u) \in Pid
        BY <1>1, <1>5, <2>2
      <3>2. at[u] = "exit_zombie" => P(u) /= P(t)
        BY <1>2, <2>2 DEF Lone, Live, Alone
      <3>3. at[u] = "wait_remove" => loc[u].pid \in Pid /\ proc[loc[u].pid].zombie /\ loc[u].code = ended[loc[u].pid]
        BY Mine DEF Codes, Local
      <3>4. at[u] = "wait_remove" => proc'[loc[u].pid].zombie
        BY <1>2, <1>3, <3>3
      <3>5. /\ Told(at[u], loc[u]) /\ Leader(u) => ended[P(u)] = loc[u].code
            /\ at[u] = "exit_zombie" => proc[P(u)].exit_code = ended[P(u)]
            /\ at[u] = "wait_remove" => proc[loc[u].pid].zombie /\ loc[u].code = ended[loc[u].pid]
        BY DEF Codes
      <3> QED
        BY <1>1, <1>3, <3>1, <3>2, <3>3, <3>4, <3>5
    <2> QED
      BY <2>1, <2>2
  <1>7. \A p \in Pid : proc'[p].zombie => proc'[p].exit_code = ended'[p]
    BY <1>1, <1>3, <1>4 DEF Codes
  <1>8. \A i \in DOMAIN reaped : proc'[reaped[i].pid].zombie /\ reaped[i].code = ended'[reaped[i].pid]
    BY <1>1, <1>2, <1>3, ReapedType DEF Codes
  <1> QED
    BY <1>1, <1>6, <1>7, <1>8 DEF Codes, Told

\* those of the leader's exit after it,
LEMMA ExitCodes ==
  ASSUME TypeOK, Threads, Codes, NEW t \in Tid, ExitDoes(t)
  PROVE  Codes'
  <1>1. CASE ExitMainDoes(t) \/ ExitClearDoes(t) \/ ExitTableDoes(t)
    <2>1. PICK a \in {"exit_main", "exit_clear", "exit_table"}, b \in {"exit_clear", "exit_table", "exit_code"} : Passes(t, a, b)
      BY <1>1 DEF ExitMainDoes, ExitClearDoes, ExitTableDoes
    <2>2. Told(a, loc[t]) /\ b \notin {"exit_zombie", "wait_remove"}
      BY DEF Told
    <2>3. task' = task /\ ended' = ended /\ reaped' = reaped /\ \A p \in Procs : SameEnd(p)
      BY <1>1 DEF ExitMainDoes, ExitClearDoes, ExitTableDoes, SameRest
    <2> QED
      BY <2>1, <2>2, <2>3, PassCodes DEF P, Leader
  <1>2. CASE ExitDoneDoes(t)
    <2>1. \A u \in Tid : P(u)' = P(u) /\ Leader(u)' = Leader(u)
      <3>1. task \in [Tid -> [pid : Pid, leader : BOOLEAN, exited : BOOLEAN]] /\ task' = [task EXCEPT ![t].exited = TRUE]
        BY <1>2 DEF ExitDoneDoes, TypeOK
      <3> QED
        BY <3>1 DEF P, Leader
    <2>2. at'[t] = "gone" /\ Others(t) /\ proc' = proc /\ ended' = ended /\ reaped' = reaped
      BY <1>2 DEF ExitDoneDoes
    <2>3. \A u \in Tid : SameCode(u)
      BY <2>1, <2>2 DEF SameCode, Others, Told
    <2>4. \A p \in Pid : SameZombie(p)
      BY <2>2 DEF SameZombie
    <2> QED
      BY <2>2, <2>3, <2>4, SameCodes
  <1> QED
    BY <1>1, <1>2, StoreCodes DEF ExitDoes

\* and those of wait_pid: what was copied under the first lock is still right under the second.
LEMMA WaitCodes ==
  ASSUME TypeOK, Threads, Codes, NEW t \in Tid, WaitDoes(t)
  PROVE  Codes'
  <1>1. /\ Others(t) /\ task' = task /\ ended' = ended
        /\ \A p \in Pid : proc'[p].zombie = proc[p].zombie /\ proc'[p].exit_code = proc[p].exit_code
    BY DEF WaitDoes, WaitScanDoes, WaitRemoveDoes, SameEnd, Procs
  <1>2. at'[t] \in {"wait_remove", "signals"}
    BY DEF WaitDoes, WaitScanDoes, WaitRemoveDoes
  <1>3. at'[t] = "wait_remove" => loc'[t].pid \in Pid /\ proc[loc'[t].pid].zombie /\ loc'[t].code = ended[loc'[t].pid]
    <2>1. CASE WaitScanDoes(t)
      BY <2>1 DEF WaitScanDoes, Codes
    <2>2. CASE WaitRemoveDoes(t)
      BY <2>2 DEF WaitRemoveDoes
    <2> QED
      BY <2>1, <2>2 DEF WaitDoes
  <1>4. \A u \in Tid : P(u)' = P(u) /\ Leader(u)' = Leader(u) /\ P(u) \in Pid
    BY <1>1, Mine DEF P, Leader
  <1>5. ASSUME NEW u \in Tid
        PROVE  /\ Told(at'[u], loc'[u]) /\ Leader(u)' => ended'[P(u)'] = loc'[u].code
               /\ at'[u] = "exit_zombie" => proc'[P(u)'].exit_code = ended'[P(u)']
               /\ at'[u] = "wait_remove" => proc'[loc'[u].pid].zombie /\ loc'[u].code = ended'[loc'[u].pid]
    <2>1. CASE u = t
      <3>1. ~Told(at'[t], loc'[t]) /\ at'[t] /= "exit_zombie"
        BY <1>2 DEF Told
      <3> QED
        BY <1>1, <1>3, <2>1, <3>1
    <2>2. CASE u /= t
      <3>1. at'[u] = at[u] /\ loc'[u] = loc[u] /\ P(u)' = P(u) /\ Leader(u)' = Leader(u) /\ P(u) \in Pid
        BY <1>1, <1>4, <2>2 DEF Others
      <3>2. at[u] = "wait_remove" => loc[u].pid \in Pid
        BY Mine DEF Local
      <3>3. /\ Told(at[u], loc[u]) /\ Leader(u) => ended[P(u)] = loc[u].code
            /\ at[u] = "exit_zombie" => proc[P(u)].exit_code = ended[P(u)]
            /\ at[u] = "wait_remove" => proc[loc[u].pid].zombie /\ loc[u].code = ended[loc[u].pid]
        BY DEF Codes
      <3> QED
        BY <1>1, <3>1, <3>2, <3>3
    <2> QED
      BY <2>1, <2>2
  <1>6. \A p \in Pid : proc'[p].zombie => proc'[p].exit_code = ended'[p]
    BY <1>1 DEF Codes
  <1>7. \A i \in DOMAIN reaped' : proc'[reaped'[i].pid].zombie /\ reaped'[i].code = ended'[reaped'[i].pid]
    <2>1. \A i \in DOMAIN reaped : proc'[reaped[i].pid].zombie /\ reaped[i].code = ended'[reaped[i].pid]
      BY <1>1, ReapedType DEF Codes
    <2>2. CASE WaitScanDoes(t)
      BY <2>1, <2>2 DEF WaitScanDoes
    <2>3. CASE WaitRemoveDoes(t)
      <3> DEFINE report == [by |-> P(t), pid |-> loc[t].pid, code |-> loc[t].code]
      <3>1. proc'[loc[t].pid].zombie /\ loc[t].code = ended'[loc[t].pid]
        BY <1>1, <2>3 DEF WaitRemoveDoes, Codes
      <3>2. reaped' = Append(reaped, report) /\ report.pid = loc[t].pid /\ report.code = loc[t].code
        BY <2>3 DEF WaitRemoveDoes
      <3> HIDE DEF report
      <3>3. ASSUME NEW i \in DOMAIN reaped'
            PROVE  (i \in DOMAIN reaped /\ reaped'[i] = reaped[i]) \/ reaped'[i] = report
        <4>1. PICK R : reaped \in Seq(R)
          BY DEF TypeOK
        <4> QED
          BY <3>2, <4>1, LastOrBefore, SMTT(60)
      <3> QED
        BY <2>1, <3>1, <3>2, <3>3
    <2> QED
      BY <2>2, <2>3 DEF WaitDoes
  <1> QED
    BY <1>5, <1>6, <1>7 DEF Codes, Told

\* Every effect keeps Codes.
LEMMA DoesCodes ==
  ASSUME TypeOK, Threads, Codes, NEW t \in Tid, Does(t)
  PROVE  Codes'
  BY QuietCodes, CloneCodes, LeaveCodes, ExitCodes, WaitCodes DEF Does

----------------------------------------------------------------------------
(* Parents and children.                                                   *)

\* No two threads of a process can be in wait4 at the same time: there are none, or they do not wait.
NoRace == "thread" \notin calls \/ "wait" \notin calls

\* Without threads a process has one thread, from its creation on.
OneThread ==
  "thread" \notin calls => \A t, u \in Tid : at[t] /= "unborn" /\ at[u] /= "unborn" /\ P(t) = P(u) => t = u

\* A process is in the table until its last thread is past exit_table, and from when clone puts it there.
Tabled(t) ==
  /\ at[t] \in Live \ {"exit_code", "exit_zombie"} => P(t) \in pid2pc
  /\ at[t] = "clone" /\ ~Thread(t) => loc[t].pid \notin pid2pc
  /\ at[t] \in Clone \ {"clone"} => loc[t].pid \in pid2pc
  /\ at[t] = "clone_child" => ~Thread(t)

\* PID2PC has no identifier that was not given out.
InTable == (\A t \in Tid : Tabled(t)) /\ \A p \in Pid : p \in pid2pc => Used(p)

\* clone has made p a child of its parent.
Known(p) == Created(p) \/ \E t \in Tid : at[t] = "clone_run" /\ ~Thread(t) /\ loc[t].pid = p

\* The entries of a list are distinct.
Distinct(q) == \A i, j \in DOMAIN q : q[i] = q[j] => i = j

\* e is in the list.
Has(q, e) == \E i \in DOMAIN q : q[i] = e

\* p is on the list of r.
Child(r, p) == Has(proc[r].children, p)

\* The entry that wait_pid has found is still at its place; clone still has the parent it chose.
Finds(t) ==
  /\ at[t] \in {"clone_module", "clone_child"} /\ ~Thread(t) => proc[loc[t].pid].parent = loc[t].parent
  /\ at[t] = "wait_remove" => LET kids == proc[P(t)].children IN
                              loc[t].tid \in DOMAIN kids /\ kids[loc[t].tid] = loc[t].pid

\* The parent of a process that was entered and not reported is in PID2PC and has it on its list, once;
\* no other executor in PID2PC has.  No process is reported twice.
Family ==
  /\ \A r \in pid2pc : Distinct(proc[r].children)
  /\ \A r \in pid2pc, p \in Pid : Child(r, p) => proc[p].parent = r /\ Known(p) /\ ~Reaped(p)
  /\ \A p \in Pid : Known(p) /\ ~Reaped(p) => proc[p].parent \in pid2pc /\ Child(proc[p].parent, p)
  /\ \A t \in Tid : Finds(t)
  /\ \A i, j \in DOMAIN reaped : reaped[i].pid = reaped[j].pid => i = j

----------------------------------------------------------------------------
(* OneThread and InTable are preserved.                                    *)

\* Only t moves, and no thread is made or started.
OneMoves(t) ==
  /\ Others(t) /\ calls' = calls /\ \A u \in Tid : P(u)' = P(u)
  /\ \/ at'[t] = at[t] /\ loc'[t] = loc[t]
     \/ at[t] \notin {"unborn", "made"} /\ at'[t] \notin {"unborn", "made"}

\* A new thread is made.
NewThread(t) == \E n \in Tid, q \in Pid : CloneTaskDoes(t, n, q) \/ CloneBadDoes(t, n, q)

\* A step from one place to the next moves one thread,
LEMMA PassMoves ==
  ASSUME NEW t \in Tid, NEW a, NEW b, Passes(t, a, b), \A u \in Tid : P(u)' = P(u),
         a \notin {"unborn", "made"}, b \notin {"unborn", "made"}
  PROVE  OneMoves(t)
  BY DEF Passes, OneMoves, Others

\* a step of clone between the creation and the start of the new thread does,
LEMMA CloneMoves ==
  ASSUME TypeOK, NEW t \in Tid, CloneThreadDoes(t) \/ CloneModuleDoes(t) \/ CloneChildDoes(t) \/ CloneProcessDoes(t)
  PROVE  OneMoves(t) /\ loc' = loc
  <1>1. \A u \in Tid : P(u)' = P(u)
    BY DEF CloneThreadDoes, CloneModuleDoes, CloneChildDoes, CloneProcessDoes, P
  <1>2. PICK a \in Clone, b \in Clone : Passes(t, a, b)
    BY DEF CloneThreadDoes, CloneModuleDoes, CloneChildDoes, CloneProcessDoes, Clone
  <1>3. a \notin {"unborn", "made"} /\ b \notin {"unborn", "made"}
    BY DEF Clone
  <1>4. loc' = loc
    BY <1>2 DEF Passes
  <1> QED
    BY <1>1, <1>2, <1>3, <1>4, PassMoves

\* and a step of exec or exit.
LEMMA LeaveMoves ==
  ASSUME TypeOK, NEW t \in Tid, LeaveDoes(t) \/ ExitDoes(t)
  PROVE  OneMoves(t)
  <1>1. CASE ExecDoes(t) \/ ExitDoneDoes(t)
    <2>1. \A u \in Tid : P(u)' = P(u)
      <3>1. task \in [Tid -> [pid : Pid, leader : BOOLEAN, exited : BOOLEAN]]
        BY DEF TypeOK
      <3>2. CASE task' = [task EXCEPT ![t].leader = TRUE]
        BY <3>1, <3>2 DEF P
      <3>3. CASE task' = [task EXCEPT ![t].exited = TRUE]
        BY <3>1, <3>3 DEF P
      <3> QED
        BY <1>1, <3>2, <3>3 DEF ExecDoes, ExitDoneDoes
    <2>2. Others(t) /\ calls' = calls /\ at[t] \in {"user", "exit_done"} /\ at'[t] \in {"exec", "exit", "gone"}
      BY <1>1 DEF ExecDoes, ExitDoneDoes, Passes, Others
    <2> QED
      BY <2>1, <2>2 DEF OneMoves
  <1>2. CASE ExitSignalDoes(t)
    BY <1>2 DEF ExitSignalDoes, OneMoves, P
  <1>3. CASE ExecResetDoes(t) \/ ExitTasksDoes(t) \/ ExitLeaveDoes(t) \/ ExitUnlinkDoes(t)
    BY <1>3, PassMoves DEF ExecResetDoes, ExitTasksDoes, ExitLeaveDoes, ExitUnlinkDoes, P
  <1>4. CASE ExitMainDoes(t) \/ ExitClearDoes(t) \/ ExitTableDoes(t) \/ ExitCodeDoes(t) \/ ExitZombieDoes(t)
    BY <1>4, PassMoves DEF ExitMainDoes, ExitClearDoes, ExitTableDoes, ExitCodeDoes, ExitZombieDoes, P
  <1> QED
    BY <1>1, <1>2, <1>3, <1>4 DEF LeaveDoes, ExitDoes

\* Every effect moves one thread, makes one or starts one.
LEMMA OneMove ==
  ASSUME TypeOK, NEW t \in Tid, Does(t)
  PROVE  OneMoves(t) \/ NewThread(t) \/ CloneRunDoes(t)
  <1>1. CASE Quiet(t)
    <2>1. Others(t) /\ Near(t) /\ calls' = calls /\ task' = task
      BY <1>1, QuietEffect DEF Quiet
    <2> QED
      BY <2>1 DEF OneMoves, Near, Plain, P
  <1>2. CASE WaitDoes(t)
    BY <1>2 DEF WaitDoes, WaitScanDoes, WaitRemoveDoes, OneMoves, P
  <1> QED
    BY <1>1, <1>2, CloneMoves, LeaveMoves DEF Does, CloneDoes, NewThread

\* Without clone of threads a process has one thread for ever.
LEMMA DoesOneThread ==
  ASSUME TypeOK, TypeOK', Threads, OneThread, NEW t \in Tid, Does(t)
  PROVE  OneThread'
  <1>1. CASE OneMoves(t)
    <2>1. calls' = calls /\ \A u \in Tid : P(u)' = P(u) /\ (at'[u] = "unborn" <=> at[u] = "unborn")
      BY <1>1 DEF OneMoves, Others
    <2> QED
      BY <2>1 DEF OneThread
  <1>2. CASE CloneRunDoes(t)
    <2>1. at[loc[t].tid] = "made" /\ loc[t].tid \in Tid
      BY <1>2 DEF CloneRunDoes, Threads, Starting, Clone
    <2>2. calls' = calls /\ \A u \in Tid : P(u)' = P(u) /\ (at'[u] /= "unborn" => at[u] /= "unborn")
      BY <1>2, <2>1 DEF CloneRunDoes, P
    <2> QED
      BY <2>2 DEF OneThread
  <1>3. CASE NewThread(t)
    <2>1. PICK n \in Tid, q \in Pid : CloneTaskDoes(t, n, q) \/ CloneBadDoes(t, n, q)
      BY <1>3 DEF NewThread
    <2>2. /\ calls' = calls /\ P(n)' = q
          /\ \A w \in Tid : w /= n /\ at'[w] /= "unborn" => at[w] /= "unborn" /\ P(w)' = P(w)
      BY <2>1 DEF CloneTaskDoes, CloneBadDoes, Born
    <2>3. ASSUME "thread" \notin calls PROVE ~Used(q)
      <3>1. at'[t] = "clone" => ~Thread(t)'
        <4>1. Local(at[t], loc[t])'
          BY DEF TypeOK
        <4> QED
          BY <2>2, <2>3, <4>1 DEF Local, Thread, Clone
      <3> QED
        BY <2>1, <3>1 DEF CloneTaskDoes, CloneBadDoes
    <2> QED
      BY <2>2, <2>3 DEF OneThread, Used
  <1> QED
    BY <1>1, <1>2, <1>3, OneMove

\* A process identifier that was given out stays so.
LEMMA UsedStays ==
  ASSUME TypeOK, NEW t \in Tid, Does(t), NEW p, Used(p)
  PROVE  Used(p)'
  <1>1. PICK u \in Tid : at[u] /= "unborn" /\ P(u) = p
    BY DEF Used
  <1>2. at'[u] /= "unborn" /\ P(u)' = P(u)
    <2>1. CASE OneMoves(t)
      BY <1>1, <2>1 DEF OneMoves, Others
    <2>2. CASE CloneRunDoes(t)
      BY <1>1, <2>2 DEF CloneRunDoes, P
    <2>3. CASE NewThread(t)
      BY <1>1, <2>3 DEF NewThread, CloneTaskDoes, CloneBadDoes, Born
    <2> QED
      BY <2>1, <2>2, <2>3, OneMove
  <1> QED
    BY <1>1, <1>2 DEF Used

\* t keeps to where Tabled says the same of it.
LEMMA SameTable ==
  ASSUME TypeOK, InTable, NEW t \in Tid, Does(t), OneMoves(t), pid2pc' = pid2pc, Tabled(t)'
  PROVE  InTable'
  <1>1. ASSUME NEW u \in Tid PROVE Tabled(u)'
    <2>1. CASE u /= t
      <3>1. at'[u] = at[u] /\ loc'[u] = loc[u] /\ P(u)' = P(u) /\ Tabled(u)
        BY <2>1 DEF OneMoves, Others, InTable
      <3> QED
        BY <3>1 DEF Tabled, Thread
    <2> QED
      BY <2>1
  <1>2. ASSUME NEW p \in Pid, p \in pid2pc' PROVE Used(p)'
    BY <1>2, UsedStays DEF InTable
  <1> QED
    BY <1>1, <1>2 DEF InTable

\* Most steps stay outside clone and before exit_table, or after it.
LEMMA OutsideClone ==
  ASSUME TypeOK, InTable, NEW t \in Tid, OneMoves(t), pid2pc' = pid2pc,
         at'[t] \notin Clone, at'[t] \in Live \ {"exit_code", "exit_zombie"} => at[t] \in Live \ {"exit_code", "exit_zombie"}
  PROVE  Tabled(t)'
  <1>1. P(t)' = P(t) /\ Tabled(t)
    BY DEF OneMoves, InTable
  <1>2. at'[t] \notin Clone /\ at'[t] /= "clone" /\ at'[t] /= "clone_child"
    BY DEF Clone
  <1> QED
    BY <1>1, <1>2 DEF Tabled

\* Quiet steps keep InTable,
LEMMA QuietTable ==
  ASSUME TypeOK, InTable, NEW t \in Tid, Quiet(t)
  PROVE  InTable'
  <1>1. Does(t) /\ Near(t) /\ pid2pc' = pid2pc
    BY QuietEffect DEF Does, Quiet
  <1>2. OneMoves(t)
    BY QuietEffect DEF OneMoves, Near, Plain, P, Quiet
  <1>3. Tabled(t)'
    <2>1. CASE at'[t] = at[t] /\ loc'[t] = loc[t]
      BY <1>1, <1>2, <2>1 DEF OneMoves, InTable, Tabled, Thread
    <2>2. CASE at[t] \in Plain /\ at'[t] \in Plain
      <3>1. at'[t] \notin Clone /\ at[t] \in Live \ {"exit_code", "exit_zombie"}
        BY <2>2 DEF Plain, Clone, Live
      <3> QED
        BY <1>1, <1>2, <3>1, OutsideClone
    <2> QED
      BY <1>1, <2>1, <2>2 DEF Near
  <1> QED
    BY <1>1, <1>2, <1>3, SameTable

\* and so do the steps of clone that leave PID2PC alone,
LEMMA CloneTable ==
  ASSUME TypeOK, Threads, InTable, NEW t \in Tid, CloneThreadDoes(t) \/ CloneModuleDoes(t) \/ CloneChildDoes(t)
  PROVE  InTable'
  <1>1. Does(t) /\ OneMoves(t) /\ loc' = loc /\ pid2pc' = pid2pc
    BY CloneMoves DEF Does, CloneDoes, CloneThreadDoes, CloneModuleDoes, CloneChildDoes
  <1>2. at[t] \in Clone /\ at[t] \in Live \ {"exit_code", "exit_zombie"} /\ at'[t] \in Clone \ {"clone"}
    BY DEF CloneThreadDoes, CloneModuleDoes, CloneChildDoes, Passes, Clone, Live
  <1>3. at'[t] = "clone_child" => ~Thread(t)
    BY DEF CloneThreadDoes, CloneModuleDoes, CloneChildDoes, Passes
  <1>4. P(t)' = P(t) /\ P(t) \in pid2pc
    BY <1>1, <1>2 DEF OneMoves, InTable, Tabled
  <1>5. loc[t].pid \in pid2pc
    <2>1. CASE CloneThreadDoes(t)
      BY <1>2, <1>4, <2>1 DEF CloneThreadDoes, Threads, Starting
    <2>2. CASE CloneModuleDoes(t) \/ CloneChildDoes(t)
      <3>1. at[t] \in Clone \ {"clone"}
        BY <2>2 DEF CloneModuleDoes, CloneChildDoes, Passes, Clone
      <3> QED
        BY <3>1 DEF InTable, Tabled
    <2> QED
      BY <2>1, <2>2
  <1>6. Tabled(t)'
    BY <1>1, <1>2, <1>3, <1>4, <1>5 DEF Tabled, Thread
  <1> QED
    BY <1>1, <1>6, SameTable

\* A process that is being created: its thread is not started, and one thread creates it.
LEMMA Creating ==
  ASSUME TypeOK, Threads, NEW t \in Tid, at[t] \in Clone, ~Thread(t)
  PROVE  /\ loc[t].pid \in Pid /\ ~proc[loc[t].pid].zombie /\ ~Created(loc[t].pid)
         /\ \A u \in Tid : at[u] \in Clone /\ ~Thread(u) /\ loc[u].pid = loc[t].pid => u = t
         /\ \A u \in Tid : at[u] \in Live => P(u) /= loc[t].pid
  <1> DEFINE n == loc[t].tid
             q == loc[t].pid
  <1>1. q \in Pid /\ n \in Tid /\ Starting(t)
    BY Mine DEF Local, Threads
  <1>2. at[n] = "made" /\ ~proc[q].zombie /\ \A u \in Tid : at[u] /= "unborn" /\ P(u) = q => u = n
    BY <1>1 DEF Starting
  <1>3. ASSUME NEW u \in Tid, at[u] \in Clone, ~Thread(u), loc[u].pid = q PROVE u = t
    <2>1. loc[u].tid \in Tid /\ at[loc[u].tid] = "made" /\ P(loc[u].tid) = q
      BY <1>3, Mine DEF Local, Threads, Starting
    <2>2. loc[u].tid = n
      BY <1>2, <2>1
    <2> QED
      BY <1>1, <1>3, <2>2 DEF Starting
  <1>4. \A u \in Tid : at[u] \in Live => at[u] \notin {"unborn", "made"}
    BY DEF Live, Plain, Clone, Alone
  <1>5. ~Created(q)
    BY <1>2 DEF Created
  <1> QED
    BY <1>1, <1>2, <1>3, <1>4, <1>5

\* the one that enters the new process, which nobody else is about to enter,
LEMMA CloneProcessTable ==
  ASSUME TypeOK, Threads, InTable, NEW t \in Tid, CloneProcessDoes(t)
  PROVE  InTable'
  <1> DEFINE q == loc[t].pid
  <1>1. /\ Does(t) /\ OneMoves(t) /\ loc' = loc /\ pid2pc' = pid2pc \cup {q}
        /\ at[t] = "clone" /\ at'[t] = "clone_module" /\ ~Thread(t)
    BY CloneMoves DEF Does, CloneDoes, CloneProcessDoes, Passes
  <1>2. at[t] \in Clone /\ at[t] \in Live \ {"exit_code", "exit_zombie"}
    BY <1>1 DEF Clone, Live
  <1>3. ASSUME NEW u \in Tid PROVE Tabled(u)'
    <2>1. P(u)' = P(u) /\ Tabled(u)
      BY <1>1 DEF OneMoves, InTable
    <2>2. CASE u = t
      BY <1>1, <1>2, <2>1, <2>2 DEF Tabled
    <2>3. CASE u /= t
      <3>1. at'[u] = at[u]
        BY <1>1, <2>3 DEF OneMoves, Others
      <3>2. at[u] = "clone" /\ ~Thread(u) => loc[u].pid /= q
        BY <1>1, <1>2, <2>3, Creating DEF Clone
      <3> QED
        BY <1>1, <2>1, <3>1, <3>2 DEF Tabled, Thread
    <2> QED
      BY <2>2, <2>3
  <1>4. Used(q)
    <2>1. loc[t].tid \in Tid /\ at[loc[t].tid] = "made" /\ P(loc[t].tid) = q
      BY <1>2, Mine DEF Local, Threads, Starting
    <2> QED
      BY <2>1 DEF Used
  <1>5. ASSUME NEW p \in Pid, p \in pid2pc' PROVE Used(p)'
    BY <1>1, <1>4, <1>5, UsedStays DEF InTable
  <1> QED
    BY <1>3, <1>5 DEF InTable

\* The process of t leaves the table, and no other thread can miss it.
LEMMA ExitTableTable ==
  ASSUME TypeOK, Threads, InTable, NEW t \in Tid, ExitTableDoes(t)
  PROVE  InTable'
  <1>1. /\ Does(t) /\ OneMoves(t) /\ loc' = loc /\ pid2pc' = pid2pc \ {P(t)}
        /\ at[t] = "exit_table" /\ at'[t] = "exit_code"
    BY LeaveMoves DEF Does, ExitDoes, ExitTableDoes, Passes
  <1>2. at[t] \in Alone /\ at[t] \in Live /\ at'[t] \notin Clone
    BY <1>1 DEF Alone, Live, Clone
  <1>3. ASSUME NEW u \in Tid PROVE Tabled(u)'
    <2>1. P(u)' = P(u) /\ Tabled(u)
      BY <1>1 DEF OneMoves, InTable
    <2>2. CASE u = t
      BY <1>1, <1>2, <2>2 DEF Tabled, Clone
    <2>3. CASE u /= t
      <3>1. at'[u] = at[u]
        BY <1>1, <2>3 DEF OneMoves, Others
      <3>2. at[u] \in Live => P(u) /= P(t)
        BY <1>2, <2>3, AloneIsLone DEF Lone
      <3>3. at[u] \in Clone => loc[u].pid /= P(t)
        <4>1. CASE Thread(u)
          <5>1. at[u] \in Clone => at[u] \in Live /\ loc[u].pid = P(u)
            BY <4>1 DEF Live, Threads, Starting
          <5> QED
            BY <3>2, <5>1
        <4>2. CASE ~Thread(u)
          BY <1>2, <4>2, Creating
        <4> QED
          BY <4>1, <4>2
      <3> QED
        BY <1>1, <2>1, <3>1, <3>2, <3>3 DEF Tabled, Thread
    <2> QED
      BY <2>2, <2>3
  <1>4. ASSUME NEW p \in Pid, p \in pid2pc' PROVE Used(p)'
    BY <1>1, <1>4, UsedStays DEF InTable
  <1> QED
    BY <1>3, <1>4 DEF InTable

\* the creation and the start of a thread,
LEMMA MakeTable ==
  ASSUME TypeOK, Threads, InTable, NEW t \in Tid, NewThread(t) \/ CloneRunDoes(t)
  PROVE  InTable'
  <1>1. pid2pc' = pid2pc /\ Does(t)
    BY DEF NewThread, CloneTaskDoes, CloneBadDoes, Born, CloneRunDoes, Does, CloneDoes
  <1>2. ASSUME NEW u \in Tid PROVE Tabled(u)'
    <2>t. Tabled(u) /\ Tabled(t)
      BY DEF InTable
    <2>1. CASE NewThread(t)
      <3>1. PICK n \in Tid, q \in Pid : CloneTaskDoes(t, n, q) \/ CloneBadDoes(t, n, q)
        BY <2>1 DEF NewThread
      <3>2. at[t] = "user" /\ at[n] = "unborn" /\ at'[n] = "made" /\ at'[t] \in {"clone", "signals"}
        BY <3>1 DEF CloneTaskDoes, CloneBadDoes, Born
      <3>3. CASE u = t
        <4>1. P(t)' = P(t) /\ P(t) \in pid2pc
          BY <3>1, <3>2, <2>t DEF CloneTaskDoes, CloneBadDoes, Born, Tabled, Live, Plain
        <4>2. at'[t] = "clone" /\ ~Thread(t)' => loc'[t].pid \notin pid2pc
          BY <3>1 DEF CloneTaskDoes, CloneBadDoes, InTable
        <4> QED
          BY <1>1, <3>2, <3>3, <4>1, <4>2 DEF Tabled, Clone
      <3>4. CASE u = n
        <4>1. at'[u] \notin Live /\ at'[u] \notin Clone /\ at'[u] /= "clone" /\ at'[u] /= "clone_child"
          BY <3>2, <3>4 DEF Live, Plain, Clone, Alone
        <4> QED
          BY <4>1 DEF Tabled
      <3>5. CASE u /= t /\ u /= n
        <4>1. at'[u] = at[u] /\ loc'[u] = loc[u] /\ P(u)' = P(u)
          BY <3>1, <3>5 DEF CloneTaskDoes, CloneBadDoes, Born
        <4> QED
          BY <1>1, <2>t, <4>1 DEF Tabled, Thread
      <3> QED
        BY <3>3, <3>4, <3>5
    <2>2. CASE CloneRunDoes(t)
      <3> DEFINE n == loc[t].tid
      <3>1. /\ at[t] = "clone_run" /\ at[t] \in Live \ {"exit_code", "exit_zombie"} /\ at[t] \in Clone \ {"clone"}
            /\ n \in Tid /\ at'[t] \in {"vfork", "signals"} /\ at'[n] = "user"
        BY <2>2 DEF CloneRunDoes, Live, Clone
      <3>2. P(t) \in pid2pc /\ P(n) \in pid2pc
        BY <2>t, <3>1 DEF Tabled, Threads, Starting
      <3>3. P(u)' = P(u)
        BY <2>2 DEF CloneRunDoes, P
      <3>4. CASE u \in {t, n}
        <4>1. at'[u] \notin Clone /\ at'[u] /= "clone" /\ at'[u] /= "clone_child"
          BY <3>1, <3>4 DEF Clone
        <4> QED
          BY <1>1, <3>2, <3>3, <3>4, <4>1 DEF Tabled
      <3>5. CASE u \notin {t, n}
        <4>1. at'[u] = at[u] /\ loc'[u] = loc[u]
          BY <2>2, <3>5 DEF CloneRunDoes
        <4> QED
          BY <1>1, <2>t, <3>3, <4>1 DEF Tabled, Thread
      <3> QED
        BY <3>4, <3>5
    <2> QED
      BY <2>1, <2>2
  <1>3. ASSUME NEW p \in Pid, p \in pid2pc' PROVE Used(p)'
    BY <1>1, <1>3, UsedStays DEF InTable
  <1> QED
    BY <1>2, <1>3 DEF InTable

\* and the steps of exec, exit and wait_pid that leave PID2PC alone.
LEMMA LeaveTable ==
  ASSUME TypeOK, InTable, NEW t \in Tid, LeaveDoes(t) \/ ExitDoes(t) \/ WaitDoes(t), ~ExitTableDoes(t)
  PROVE  InTable'
  <1>1. Does(t) /\ OneMoves(t)
    BY LeaveMoves DEF Does, WaitDoes, WaitScanDoes, WaitRemoveDoes, OneMoves, P
  <1>2. pid2pc' = pid2pc
    BY DEF LeaveDoes, ExitDoes, WaitDoes, ExecDoes, ExecResetDoes, ExitSignalDoes, ExitTasksDoes, ExitLeaveDoes,
           ExitUnlinkDoes, ExitMainDoes, ExitClearDoes, ExitCodeDoes, ExitZombieDoes, ExitDoneDoes,
           WaitScanDoes, WaitRemoveDoes
  <1> DEFINE Early == {"user", "exec", "exit", "exit_tasks", "exit_unlink", "exit_main", "exit_clear", "wait", "wait_remove"}
             On == {"exec", "exit", "exec_release", "send", "exit_tasks", "exit_main", "exit_unlink", "exit_clear", "exit_table",
                    "wait_remove", "signals"}
             Late == {"exit_zombie", "exit_done", "gone"}
  <1>3. (at[t] \in Early /\ at'[t] \in On) \/ at'[t] \in Late
    <2>1. CASE LeaveDoes(t)
      BY <2>1 DEF LeaveDoes, ExecDoes, ExecResetDoes, ExitSignalDoes, ExitTasksDoes, ExitLeaveDoes,
         ExitUnlinkDoes, Passes
    <2>2. CASE ExitDoes(t)
      BY <2>2 DEF ExitDoes, ExitMainDoes, ExitClearDoes, ExitCodeDoes, ExitZombieDoes, ExitDoneDoes, Passes
    <2>3. CASE WaitDoes(t)
      BY <2>3 DEF WaitDoes, WaitScanDoes, WaitRemoveDoes
    <2> QED
      BY <2>1, <2>2, <2>3
  <1>4. /\ at'[t] \notin Clone
        /\ at'[t] \in Live \ {"exit_code", "exit_zombie"} => at[t] \in Live \ {"exit_code", "exit_zombie"}
    BY <1>3 DEF Clone, Live, Plain, Alone
  <1> QED
    BY <1>1, <1>2, <1>4, OutsideClone, SameTable

\* Every effect keeps InTable.
LEMMA DoesTable ==
  ASSUME TypeOK, Threads, InTable, NEW t \in Tid, Does(t)
  PROVE  InTable'
  BY QuietTable, CloneTable, CloneProcessTable, MakeTable, LeaveTable, ExitTableTable DEF Does, CloneDoes,
     NewThread

----------------------------------------------------------------------------
(* Lists of children.                                                      *)

\* What push does to a list of children,
LEMMA Appended ==
  ASSUME NEW S, NEW q \in Seq(S), NEW e \in S
  PROVE  LET r == Append(q, e) IN
         /\ \A i \in DOMAIN q : i \in DOMAIN r /\ r[i] = q[i]
         /\ \A x : Has(r, x) <=> Has(q, x) \/ x = e
         /\ Distinct(q) /\ ~Has(q, e) => Distinct(r)
  <1> DEFINE r == Append(q, e)
  <1>1. /\ \A i \in DOMAIN q : i \in DOMAIN r /\ r[i] = q[i]
        /\ Len(q) + 1 \in DOMAIN r /\ r[Len(q) + 1] = e
        /\ \A i \in DOMAIN r : i \in DOMAIN q \/ i = Len(q) + 1
    BY SMTT(60)
  <1> HIDE DEF r
  <1> QED
    BY <1>1 DEF Has, Distinct, r

\* append,
LEMMA Joined ==
  ASSUME NEW S, NEW q \in Seq(S), NEW s \in Seq(S)
  PROVE  LET r == q \o s IN
         /\ \A x : Has(r, x) <=> Has(q, x) \/ Has(s, x)
         /\ Distinct(q) /\ Distinct(s) /\ (\A x : ~(Has(q, x) /\ Has(s, x))) => Distinct(r)
  <1> DEFINE r == q \o s
             at2(j) == Len(q) + j
  <1>1. /\ \A i \in DOMAIN q : i \in DOMAIN r /\ r[i] = q[i]
        /\ \A j \in DOMAIN s : at2(j) \in DOMAIN r /\ r[at2(j)] = s[j]
    BY SMTT(60)
  <1>2. ASSUME NEW i \in DOMAIN r, i \notin DOMAIN q PROVE \E j \in DOMAIN s : i = at2(j)
    <2>1. i - Len(q) \in DOMAIN s /\ i = at2(i - Len(q))
      BY <1>2, SMTT(60)
    <2> QED
      BY <2>1
  <1> HIDE DEF r, at2
  <1>3. \A x : Has(r, x) <=> Has(q, x) \/ Has(s, x)
    BY <1>1, <1>2 DEF Has
  <1>4. ASSUME Distinct(q), Distinct(s), \A x : ~(Has(q, x) /\ Has(s, x)), NEW i \in DOMAIN r, NEW j \in DOMAIN r, r[i] = r[j]
        PROVE  i = j
    <2>1. CASE i \in DOMAIN q /\ j \in DOMAIN q
      BY <1>1, <1>4, <2>1 DEF Distinct
    <2>2. CASE i \notin DOMAIN q /\ j \notin DOMAIN q
      <3>1. PICK k \in DOMAIN s, l \in DOMAIN s : i = at2(k) /\ j = at2(l)
        BY <1>2, <2>2
      <3> QED
        BY <1>1, <1>4, <3>1 DEF Distinct
    <2>3. ASSUME NEW k \in DOMAIN q, NEW l \in DOMAIN r, l \notin DOMAIN q, r[k] = r[l] PROVE FALSE
      <3>1. PICK m \in DOMAIN s : l = at2(m)
        BY <1>2, <2>3
      <3>2. Has(q, r[k]) /\ Has(s, r[k])
        BY <1>1, <2>3, <3>1 DEF Has
      <3> QED
        BY <1>4, <3>2
    <2> QED
      BY <1>4, <2>1, <2>2, <2>3
  <1> QED
    BY <1>3, <1>4 DEF Distinct, r

\* and remove.
LEMMA Removed ==
  ASSUME NEW S, NEW q \in Seq(S), NEW k \in DOMAIN q, Distinct(q)
  PROVE  LET r == SubSeq(q, 1, k - 1) \o SubSeq(q, k + 1, Len(q)) IN
         Distinct(r) /\ \A x : Has(r, x) <=> Has(q, x) /\ x /= q[k]
  <1> DEFINE a == SubSeq(q, 1, k - 1)
             b == SubSeq(q, k + 1, Len(q))
             r == a \o b
             old(i) == IF i < k THEN i ELSE i + 1
             new(j) == IF j < k THEN j ELSE j - 1
  <1>1. a \in Seq(S) /\ Len(a) = k - 1 /\ \A i \in 1..(k - 1) : a[i] = q[i]
    BY SMTT(60)
  <1>2. b \in Seq(S) /\ Len(b) = Len(q) - k /\ \A i \in 1..(Len(q) - k) : b[i] = q[k + i]
    BY SMTT(60)
  <1> HIDE DEF a, b
  <1>c. /\ r \in Seq(S) /\ Len(r) = Len(a) + Len(b)
        /\ \A i \in 1..(Len(a) + Len(b)) : r[i] = IF i <= Len(a) THEN a[i] ELSE b[i - Len(a)]
    BY <1>1, <1>2, SMTT(60)
  <1> HIDE DEF r
  <1>3. DOMAIN r = 1..(Len(q) - 1) /\ DOMAIN q = 1..Len(q) /\ Len(q) \in Nat /\ k \in 1..Len(q)
    BY <1>1, <1>2, <1>c, SMTT(60)
  <1>4. ASSUME NEW i \in DOMAIN r PROVE r[i] = q[old(i)]
    <2>1. CASE i < k
      <3>1. i \in 1..(k - 1) /\ r[i] = a[i]
        BY <1>1, <1>2, <1>3, <1>c, <2>1, SMTT(60)
      <3> QED
        BY <1>1, <2>1, <3>1
    <2>2. CASE ~(i < k)
      <3>1. i - (k - 1) \in 1..(Len(q) - k) /\ k + (i - (k - 1)) = i + 1
        BY <1>3, <2>2, SMTT(60)
      <3>2. r[i] = b[i - (k - 1)]
        BY <1>1, <1>2, <1>3, <1>c, <2>2, SMTT(60)
      <3>3. b[i - (k - 1)] = q[i + 1]
        BY <1>2, <3>1
      <3> QED
        BY <2>2, <3>2, <3>3
    <2> QED
      BY <2>1, <2>2
  <1>5. \A i \in DOMAIN r : old(i) \in DOMAIN q /\ old(i) /= k /\ new(old(i)) = i
    BY <1>3, SMTT(60)
  <1>6. \A j \in DOMAIN q : j /= k => new(j) \in DOMAIN r /\ old(new(j)) = j
    BY <1>3, SMTT(60)
  <1> HIDE DEF old, new
  <1>7. Distinct(r)
    BY <1>4, <1>5 DEF Distinct
  <1>8. \A x : Has(r, x) <=> Has(q, x) /\ x /= q[k]
    BY <1>4, <1>5, <1>6 DEF Has, Distinct
  <1> QED
    BY <1>7, <1>8 DEF r, a, b

----------------------------------------------------------------------------
(* Family is preserved.                                                    *)

\* Steps that touch no list of children.
LEMMA SameFamily ==
  ASSUME TypeOK, Family, pid2pc' = pid2pc, reaped' = reaped, \A p \in Procs : SameKin(p),
         \A p \in Pid : Known(p)' <=> Known(p), \A u \in Tid : Finds(u)'
  PROVE  Family'
  <1>1. \A p \in Procs : proc'[p].parent = proc[p].parent /\ proc'[p].children = proc[p].children
    BY DEF SameKin
  <1>2. \A p \in Pid : Reaped(p)' <=> Reaped(p)
    BY DEF Reaped
  <1>3. pid2pc \subseteq Procs /\ Pid \subseteq Procs
    BY DEF TypeOK, Procs
  <1>4. \A r \in pid2pc' : Distinct(proc'[r].children)
    BY <1>1, <1>3 DEF Family
  <1>5. ASSUME NEW r \in pid2pc', NEW p \in Pid, Child(r, p)' PROVE proc'[p].parent = r /\ Known(p)' /\ ~Reaped(p)'
    <2>1. Child(r, p)
      BY <1>1, <1>3, <1>5 DEF Child
    <2> QED
      BY <1>1, <1>2, <1>3, <2>1 DEF Family
  <1>6. ASSUME NEW p \in Pid, Known(p)', ~Reaped(p)' PROVE proc'[p].parent \in pid2pc' /\ Child(proc[p].parent, p)'
    <2>1. proc[p].parent \in pid2pc /\ Child(proc[p].parent, p) /\ proc'[p].parent = proc[p].parent
      BY <1>1, <1>2, <1>3, <1>6 DEF Family
    <2> QED
      BY <1>1, <1>3, <2>1 DEF Child
  <1>7. \A i, j \in DOMAIN reaped' : reaped'[i].pid = reaped'[j].pid => i = j
    BY DEF Family
  <1> QED
    BY <1>4, <1>5, <1>6, <1>7 DEF Family

\* A step that enters no child keeps what is known of p.
LEMMA KnownStays ==
  ASSUME NEW t \in Tid, OneMoves(t), NEW p,
         at'[t] = "clone_run" /\ ~Thread(t)' <=> at[t] = "clone_run" /\ ~Thread(t),
         at'[t] = "clone_run" => loc'[t] = loc[t]
  PROVE  Known(p)' <=> Known(p)
  <1>1. Created(p)' <=> Created(p)
    <2>1. \A u \in Tid : P(u)' = P(u) /\ (at'[u] \in {"unborn", "made"} <=> at[u] \in {"unborn", "made"})
      BY DEF OneMoves, Others
    <2> QED
      BY <2>1 DEF Created
  <1>2. \A u \in Tid : at'[u] = "clone_run" /\ ~Thread(u)' /\ loc'[u].pid = p <=> at[u] = "clone_run" /\ ~Thread(u) /\ loc[u].pid = p
    <2>1. ASSUME NEW u \in Tid, u /= t PROVE at'[u] = at[u] /\ loc'[u] = loc[u]
      BY <2>1 DEF OneMoves, Others
    <2> QED
      BY <2>1 DEF Thread
  <1> QED
    BY <1>1, <1>2 DEF Known

\* The threads that do not move find what they found if the lists are the same.
LEMMA FindsStays ==
  ASSUME TypeOK, NEW u \in Tid, at'[u] = at[u], loc'[u] = loc[u], P(u)' = P(u), Finds(u), \A p \in Procs : SameKin(p)
  PROVE  Finds(u)'
  <1>1. at[u] = "wait_remove" => P(u) \in Procs
    BY Mine
  <1>2. at[u] \in {"clone_module", "clone_child"} => loc[u].pid \in Procs
    BY Mine DEF Local, Clone, Procs
  <1>3. \A p \in Procs : proc'[p].parent = proc[p].parent /\ proc'[p].children = proc[p].children
    BY DEF SameKin
  <1> QED
    BY <1>1, <1>2, <1>3 DEF Finds, Thread

\* A thread at another place does not look for anything.
LEMMA FindsNothing ==
  ASSUME NEW u, at[u]' \notin {"clone_module", "clone_child", "wait_remove"}
  PROVE  Finds(u)'
  BY DEF Finds

\* Steps of t that leave it outside the places where it looks for something.
LEMMA FarFamily ==
  ASSUME TypeOK, Family, NEW t \in Tid, OneMoves(t), pid2pc' = pid2pc, reaped' = reaped, \A p \in Procs : SameKin(p),
         at[t] /= "clone_run", at'[t] \notin {"clone_run", "clone_module", "clone_child", "wait_remove"}
  PROVE  Family'
  <1>1. \A p \in Pid : Known(p)' <=> Known(p)
    BY KnownStays
  <1>2. ASSUME NEW u \in Tid PROVE Finds(u)'
    <2>1. CASE u = t
      BY <2>1, FindsNothing
    <2>2. CASE u /= t
      BY <2>2, FindsStays DEF OneMoves, Others, Family
    <2> QED
      BY <2>1, <2>2
  <1> QED
    BY <1>1, <1>2, SameFamily

\* Quiet steps keep Family,
LEMMA QuietFamily ==
  ASSUME TypeOK, Family, NEW t \in Tid, Quiet(t)
  PROVE  Family'
  <1>1. /\ Near(t) /\ pid2pc' = pid2pc /\ reaped' = reaped /\ \A p \in Procs : SameKin(p)
        /\ at'[t] = "wait_remove" => at[t] = "wait_remove" /\ loc'[t] = loc[t]
    BY QuietEffect DEF Quiet, QuietProc, SameRest
  <1>2. OneMoves(t)
    BY QuietEffect DEF OneMoves, Near, Plain, P, Quiet
  <1>3. CASE at'[t] = at[t] /\ loc'[t] = loc[t]
    <2>1. \A p \in Pid : Known(p)' <=> Known(p)
      BY <1>2, <1>3, KnownStays DEF Thread
    <2>2. \A u \in Tid : at'[u] = at[u] /\ loc'[u] = loc[u] /\ P(u)' = P(u) /\ Finds(u)
      BY <1>2, <1>3 DEF OneMoves, Others, Family
    <2>3. \A u \in Tid : Finds(u)'
      BY <1>1, <2>2, FindsStays
    <2> QED
      BY <1>1, <2>1, <2>3, SameFamily
  <1>4. CASE at[t] \in Plain /\ at'[t] \in Plain /\ at'[t] /= "wait_remove"
    BY <1>1, <1>2, <1>4, FarFamily DEF Plain
  <1> QED
    BY <1>1, <1>3, <1>4 DEF Near

\* and so do those of exec and exit that leave the children alone,
LEMMA LeaveFamily ==
  ASSUME TypeOK, Family, NEW t \in Tid, LeaveDoes(t) \/ ExitDoes(t), ~ExitTableDoes(t)
  PROVE  Family'
  <1>1. OneMoves(t)
    BY LeaveMoves
  <1>2. pid2pc' = pid2pc /\ reaped' = reaped
    BY DEF LeaveDoes, ExitDoes, ExecDoes, ExecResetDoes, ExitSignalDoes, ExitTasksDoes, ExitLeaveDoes,
           ExitUnlinkDoes, ExitMainDoes, ExitClearDoes, ExitCodeDoes, ExitZombieDoes, ExitDoneDoes
  <1>3. \A p \in Procs : SameKin(p)
    <2>1. CASE ExitSignalDoes(t) \/ ExitTasksDoes(t) \/ ExitLeaveDoes(t) \/ ExitDoneDoes(t)
      BY <2>1 DEF ExitSignalDoes, ExitTasksDoes, ExitLeaveDoes, ExitDoneDoes, SameKin
    <2>2. CASE ExecDoes(t) \/ ExecResetDoes(t) \/ ExitUnlinkDoes(t)
      BY <2>2 DEF ExecDoes, ExecResetDoes, ExitUnlinkDoes, SameRest
    <2>3. CASE ExitMainDoes(t) \/ ExitClearDoes(t) \/ ExitCodeDoes(t) \/ ExitZombieDoes(t)
      BY <2>3 DEF ExitMainDoes, ExitClearDoes, ExitCodeDoes, ExitZombieDoes, SameRest
    <2> QED
      BY <2>1, <2>2, <2>3 DEF LeaveDoes, ExitDoes
  <1>4. at[t] /= "clone_run" /\ at'[t] \notin {"clone_run", "clone_module", "clone_child", "wait_remove"}
    <2>1. CASE LeaveDoes(t)
      BY <2>1 DEF LeaveDoes, ExecDoes, ExecResetDoes, ExitSignalDoes, ExitTasksDoes, ExitLeaveDoes,
         ExitUnlinkDoes, Passes
    <2>2. CASE ExitDoes(t)
      BY <2>2 DEF ExitDoes, ExitMainDoes, ExitClearDoes, ExitCodeDoes, ExitZombieDoes, ExitDoneDoes, Passes
    <2> QED
      BY <2>1, <2>2
  <1> QED
    BY <1>1, <1>2, <1>3, <1>4, FarFamily

\* the creation and the start of a thread,
LEMMA MakeFamily ==
  ASSUME TypeOK, Threads, Family, NEW t \in Tid, NewThread(t) \/ CloneRunDoes(t)
  PROVE  Family'
  <1>1. pid2pc' = pid2pc /\ reaped' = reaped /\ proc' = proc /\ \A p \in Procs : SameKin(p)
    BY DEF NewThread, CloneTaskDoes, CloneBadDoes, Born, CloneRunDoes, SameKin
  <1>2. CASE NewThread(t)
    <2>1. PICK n \in Tid, q \in Pid : CloneTaskDoes(t, n, q) \/ CloneBadDoes(t, n, q)
      BY <1>2 DEF NewThread
    <2>2. /\ at[t] = "user" /\ at[n] = "unborn" /\ at'[n] = "made" /\ at'[t] \in {"clone", "signals"} /\ t /= n
          /\ \A u \in Tid : (u /= t /\ u /= n => at'[u] = at[u]) /\ (u /= t => loc'[u] = loc[u]) /\ (u /= n => P(u)' = P(u))
      BY <2>1 DEF CloneTaskDoes, CloneBadDoes, Born
    <2>3. ASSUME NEW p \in Pid PROVE Known(p)' <=> Known(p)
      <3>1. Created(p)' <=> Created(p)
        <4>1. \A u \in Tid : at'[u] \notin {"unborn", "made"} <=> at[u] \notin {"unborn", "made"}
          BY <2>2
        <4>2. \A u \in Tid : at[u] \notin {"unborn", "made"} => P(u)' = P(u)
          BY <2>2
        <4> QED
          BY <4>1, <4>2 DEF Created
      <3>2. \A u \in Tid : at'[u] = "clone_run" /\ ~Thread(u)' /\ loc'[u].pid = p
                           <=> at[u] = "clone_run" /\ ~Thread(u) /\ loc[u].pid = p
        BY <2>2 DEF Thread
      <3> QED
        BY <3>1, <3>2 DEF Known
    <2>4. ASSUME NEW u \in Tid PROVE Finds(u)'
      <3>1. CASE u \in {t, n}
        BY <2>2, <3>1, FindsNothing
      <3>2. CASE u \notin {t, n}
        BY <1>1, <2>2, <3>2, FindsStays DEF Family
      <3> QED
        BY <3>1, <3>2
    <2> QED
      BY <1>1, <2>3, <2>4, SameFamily
  <1>3. CASE CloneRunDoes(t)
    <2> DEFINE n == loc[t].tid
    <2>1. /\ at[t] = "clone_run" /\ at'[t] \in {"vfork", "signals"} /\ n \in Tid /\ at'[n] = "user"
          /\ \A u \in Tid \ {t} : (u /= n => at'[u] = at[u]) /\ loc'[u] = loc[u]
          /\ \A u \in Tid : P(u)' = P(u)
      BY <1>3 DEF CloneRunDoes, P
    <2>2. at[n] = "made" /\ P(n) = loc[t].pid /\ (Thread(t) => loc[t].pid = P(t))
      BY <2>1 DEF Threads, Starting, Clone
    <2>3. ASSUME NEW p \in Pid PROVE Known(p)' <=> Known(p)
      <3>1. Created(p)' <=> Created(p) \/ p = loc[t].pid
        BY <2>1, <2>2 DEF Created
      <3>2. \A u \in Tid : u /= t => (at'[u] = "clone_run" /\ ~Thread(u)' /\ loc'[u].pid = p
                                      <=> at[u] = "clone_run" /\ ~Thread(u) /\ loc[u].pid = p)
        BY <2>1, <2>2 DEF Thread
      <3>3. Thread(t) /\ p = loc[t].pid => Created(p)
        BY <2>1, <2>2 DEF Created
      <3> QED
        BY <2>1, <3>1, <3>2, <3>3 DEF Known
    <2>4. ASSUME NEW u \in Tid PROVE Finds(u)'
      <3>1. CASE u \in {t, n}
        BY <2>1, <3>1, FindsNothing
      <3>2. CASE u \notin {t, n}
        BY <1>1, <2>1, <3>2, FindsStays DEF Family
      <3> QED
        BY <3>1, <3>2
    <2> QED
      BY <1>1, <2>3, <2>4, SameFamily
  <1> QED
    BY <1>2, <1>3

\* and the steps of clone that leave parents and children alone.
LEMMA CloneFamily ==
  ASSUME TypeOK, Family, NEW t \in Tid, CloneThreadDoes(t) \/ CloneModuleDoes(t)
  PROVE  Family'
  <1>1. /\ OneMoves(t) /\ loc' = loc /\ pid2pc' = pid2pc /\ reaped' = reaped /\ \A p \in Procs : SameKin(p)
    BY CloneMoves DEF CloneThreadDoes, CloneModuleDoes, SameRest
  <1>2. /\ at[t] \in {"clone", "clone_module"} /\ at'[t] \in {"clone_module", "clone_run", "clone_child"}
        /\ at[t] = "clone" => Thread(t)
        /\ at'[t] = "clone_run" => Thread(t)
    BY DEF CloneThreadDoes, CloneModuleDoes, Passes
  <1>3. \A p \in Pid : Known(p)' <=> Known(p)
    BY <1>1, <1>2, KnownStays DEF Thread
  <1>4. ASSUME NEW u \in Tid PROVE Finds(u)'
    <2>1. Finds(u)
      BY DEF Family
    <2>2. CASE u = t
      <3>1. at[t] = "clone_module" => loc[t].pid \in Procs
        BY Mine DEF Local, Clone, Procs
      <3> QED
        BY <1>1, <1>2, <2>1, <2>2, <3>1 DEF Finds, Thread, SameKin
    <2>3. CASE u /= t
      BY <1>1, <2>1, <2>3, FindsStays DEF OneMoves, Others
    <2> QED
      BY <2>2, <2>3
  <1> QED
    BY <1>1, <1>3, <1>4, SameFamily

\* A process that is being created is on no list and was not waited for.
LEMMA Unknown ==
  ASSUME TypeOK, Threads, Codes, NEW t \in Tid, at[t] \in {"clone", "clone_module", "clone_child"}, ~Thread(t)
  PROVE  ~Known(loc[t].pid) /\ ~Reaped(loc[t].pid)
  <1>1. at[t] \in Clone /\ at[t] /= "clone_run" /\ "clone_run" \in Clone
    BY DEF Clone
  <1>2. ~Known(loc[t].pid)
    BY <1>1, Creating DEF Known
  <1>3. ~Reaped(loc[t].pid)
    BY <1>1, Creating DEF Reaped, Codes
  <1> QED
    BY <1>2, <1>3

\* The new executor was never used: it is nobody's child and was not reported.
LEMMA CloneProcessFamily ==
  ASSUME TypeOK, Threads, Codes, InTable, Family, NEW t \in Tid, CloneProcessDoes(t)
  PROVE  Family'
  <1> DEFINE q == loc[t].pid
  <1>1. /\ OneMoves(t) /\ loc' = loc /\ reaped' = reaped /\ pid2pc' = pid2pc \cup {q}
        /\ at[t] = "clone" /\ at'[t] = "clone_module" /\ ~Thread(t)
        /\ proc'[q].parent = loc[t].parent /\ proc'[q].children = <<>>
        /\ \A p \in Procs : p /= q => SameKin(p)
    BY CloneMoves DEF CloneProcessDoes, Passes, SameRest
  <1>2. q \in Pid /\ q \notin pid2pc /\ ~Known(q) /\ ~Reaped(q) /\ at[t] \in Clone
        /\ \A u \in Tid : at[u] \in Live => P(u) /= q
    BY <1>1, Unknown, Creating DEF InTable, Tabled, Clone
  <1>3. \A p \in Procs : p /= q => proc'[p].parent = proc[p].parent /\ proc'[p].children = proc[p].children
    BY <1>1 DEF SameKin
  <1>4. \A p \in Pid : (Known(p)' <=> Known(p)) /\ (Reaped(p)' <=> Reaped(p))
    BY <1>1, KnownStays DEF Reaped
  <1>5. pid2pc \subseteq Procs /\ Pid \subseteq Procs
    BY DEF TypeOK, Procs
  <1>6. DOMAIN <<>> = {}
    BY SMTT(60)
  <1>7. ASSUME NEW r \in pid2pc' PROVE Distinct(proc'[r].children)
    <2>1. CASE r = q
      BY <1>1, <1>6, <2>1 DEF Distinct
    <2>2. CASE r /= q
      BY <1>1, <1>3, <1>5, <2>2 DEF Family
    <2> QED
      BY <2>1, <2>2
  <1>8. ASSUME NEW r \in pid2pc', NEW p \in Pid, Child(r, p)' PROVE proc'[p].parent = r /\ Known(p)' /\ ~Reaped(p)'
    <2>1. r /= q
      BY <1>1, <1>6, <1>8 DEF Child, Has
    <2>2. r \in pid2pc /\ Child(r, p)
      BY <1>1, <1>3, <1>5, <1>8, <2>1 DEF Child
    <2>3. proc[p].parent = r /\ Known(p) /\ ~Reaped(p)
      BY <2>2 DEF Family
    <2> QED
      BY <1>2, <1>3, <1>4, <1>5, <2>3
  <1>9. ASSUME NEW p \in Pid, Known(p)', ~Reaped(p)' PROVE proc'[p].parent \in pid2pc' /\ Child(proc[p].parent, p)'
    <2>1. proc[p].parent \in pid2pc /\ Child(proc[p].parent, p) /\ p /= q
      BY <1>2, <1>4, <1>9 DEF Family
    <2>2. proc'[p].parent = proc[p].parent /\ proc[p].parent \in Procs /\ proc[p].parent /= q
      BY <1>2, <1>3, <1>5, <2>1
    <2> QED
      BY <1>1, <1>3, <2>1, <2>2 DEF Child
  <1>10. ASSUME NEW u \in Tid PROVE Finds(u)'
    <2>1. Finds(u)
      BY DEF Family
    <2>2. CASE u = t
      BY <1>1, <2>2 DEF Finds
    <2>3. CASE u /= t
      <3>1. at'[u] = at[u] /\ P(u)' = P(u)
        BY <1>1, <2>3 DEF OneMoves, Others
      <3>2. at[u] \in {"clone_module", "clone_child"} /\ ~Thread(u) => loc[u].pid \in Procs /\ loc[u].pid /= q
        <4>1. at[u] \in {"clone_module", "clone_child"} => at[u] \in Clone
          BY DEF Clone
        <4> QED
          BY <1>1, <1>2, <2>3, <4>1, Creating, Mine DEF Local, Procs
      <3>3. at[u] = "wait_remove" => P(u) \in Procs /\ P(u) /= q
        BY <1>2, Mine DEF Live, Plain
      <3> QED
        BY <1>1, <1>3, <2>1, <3>1, <3>2, <3>3 DEF Finds, Thread
    <2> QED
      BY <2>2, <2>3
  <1>11. \A i, j \in DOMAIN reaped' : reaped'[i].pid = reaped'[j].pid => i = j
    BY <1>1 DEF Family
  <1> QED
    BY <1>7, <1>8, <1>9, <1>10, <1>11 DEF Family

\* The types of an executor's kin.
LEMMA ChildrenType ==
  ASSUME TypeOK, NEW p \in Procs
  PROVE  proc[p].children \in Seq(Pid) /\ proc[p].parent \in Procs
  BY FieldTypes DEF TypeOK

\* The new process is a child of the parent that clone chose.
LEMMA CloneChildFamily ==
  ASSUME TypeOK, Threads, Codes, InTable, Family, NEW t \in Tid, CloneChildDoes(t)
  PROVE  Family'
  <1> DEFINE q == loc[t].pid
             r == loc[t].parent
  <1>1. /\ OneMoves(t) /\ loc' = loc /\ reaped' = reaped /\ pid2pc' = pid2pc
        /\ at[t] = "clone_child" /\ at'[t] = "clone_run" /\ r \in pid2pc
        /\ proc'[r].children = Append(proc[r].children, q) /\ proc'[r].parent = proc[r].parent
        /\ \A p \in Procs : p /= r => SameKin(p)
    BY CloneMoves DEF CloneChildDoes, Passes
  <1>2. ~Thread(t) /\ q \in Pid /\ r \in Procs /\ ~Known(q) /\ ~Reaped(q) /\ proc[q].parent = r
    <2>1. ~Thread(t) /\ at[t] \in Clone
      BY <1>1 DEF InTable, Tabled, Clone
    <2>2. proc[q].parent = r
      BY <1>1, <2>1 DEF Family, Finds
    <2> QED
      BY <1>1, <2>1, <2>2, Unknown, Mine DEF Local
  <1>3. /\ \A p \in Procs : proc'[p].parent = proc[p].parent
        /\ \A p \in Procs : p /= r => proc'[p].children = proc[p].children
    BY <1>1 DEF SameKin
  <1>4. /\ \A i \in DOMAIN proc[r].children : i \in DOMAIN proc'[r].children /\ proc'[r].children[i] = proc[r].children[i]
        /\ \A x : Has(proc'[r].children, x) <=> Has(proc[r].children, x) \/ x = q
        /\ Distinct(proc[r].children) /\ ~Has(proc[r].children, q) => Distinct(proc'[r].children)
    <2> DEFINE kids == proc[r].children
               more == Append(kids, q)
    <2>1. kids \in Seq(Pid) /\ q \in Pid /\ proc'[r].children = more
      BY <1>1, <1>2, ChildrenType
    <2> HIDE DEF kids, q
    <2>2. /\ \A i \in DOMAIN kids : i \in DOMAIN more /\ more[i] = kids[i]
          /\ \A x : Has(more, x) <=> Has(kids, x) \/ x = q
          /\ Distinct(kids) /\ ~Has(kids, q) => Distinct(more)
      BY <2>1, Appended
    <2> HIDE DEF more
    <2>3. /\ \A i \in DOMAIN kids : i \in DOMAIN proc'[r].children /\ proc'[r].children[i] = kids[i]
          /\ \A x : Has(proc'[r].children, x) <=> Has(kids, x) \/ x = q
          /\ Distinct(kids) /\ ~Has(kids, q) => Distinct(proc'[r].children)
      BY <2>1, <2>2
    <2> QED
      BY <2>3 DEF kids
  <1>5. ASSUME NEW p \in Pid PROVE Known(p)' <=> Known(p) \/ p = q
    <2>1. Created(p)' <=> Created(p)
      <3>1. \A u \in Tid : P(u)' = P(u) /\ (at'[u] \in {"unborn", "made"} <=> at[u] \in {"unborn", "made"})
        BY <1>1 DEF OneMoves, Others
      <3> QED
        BY <3>1 DEF Created
    <2>2. \A u \in Tid : at'[u] = "clone_run" /\ ~Thread(u)' /\ loc'[u].pid = p
                         <=> (at[u] = "clone_run" /\ ~Thread(u) /\ loc[u].pid = p) \/ (u = t /\ p = q)
      <3>1. ASSUME NEW u \in Tid, u /= t PROVE at'[u] = at[u]
        BY <1>1, <3>1 DEF OneMoves, Others
      <3>2. \A u \in Tid : Thread(u)' <=> Thread(u)
        BY <1>1 DEF Thread
      <3> QED
        BY <1>1, <1>2, <3>1, <3>2
    <2> QED
      BY <2>1, <2>2 DEF Known
  <1>6. \A p \in Pid : Reaped(p)' <=> Reaped(p)
    BY <1>1 DEF Reaped
  <1>7. pid2pc \subseteq Procs /\ Pid \subseteq Procs
    BY DEF TypeOK, Procs
  <1>8. ~Child(r, q)
    BY <1>1, <1>2 DEF Family
  <1>9. ASSUME NEW s \in pid2pc' PROVE Distinct(proc'[s].children)
    <2>1. Distinct(proc[s].children) /\ ~Has(proc[r].children, q) /\ s \in Procs
      BY <1>1, <1>7, <1>8 DEF Family, Child
    <2> QED
      BY <1>3, <1>4, <2>1
  <1>10. ASSUME NEW s \in Procs, NEW p \in Pid PROVE Child(s, p)' <=> Child(s, p) \/ (s = r /\ p = q)
    BY <1>3, <1>4 DEF Child
  <1>11. ASSUME NEW s \in pid2pc', NEW p \in Pid, Child(s, p)'
         PROVE  proc'[p].parent = s /\ Known(p)' /\ ~Reaped(p)'
    <2>1. s \in pid2pc /\ s \in Procs /\ p \in Procs /\ proc'[p].parent = proc[p].parent
      BY <1>1, <1>3, <1>7
    <2>2. CASE Child(s, p)
      <3>1. proc[p].parent = s /\ Known(p) /\ ~Reaped(p)
        BY <2>1, <2>2 DEF Family
      <3> QED
        BY <1>5, <1>6, <2>1, <3>1
    <2>3. CASE s = r /\ p = q
      BY <1>2, <1>5, <1>6, <2>1, <2>3
    <2> QED
      BY <1>10, <1>11, <2>1, <2>2, <2>3
  <1>12. ASSUME NEW p \in Pid, Known(p)', ~Reaped(p)'
         PROVE  proc'[p].parent \in pid2pc' /\ Child(proc[p].parent, p)'
    <2>1. proc[p].parent \in pid2pc /\ (Child(proc[p].parent, p) \/ (proc[p].parent = r /\ p = q))
      BY <1>1, <1>2, <1>5, <1>6, <1>12 DEF Family
    <2>2. proc'[p].parent = proc[p].parent
      BY <1>3, <1>7
    <2>3. Has(proc'[proc[p].parent].children, p)
      BY <1>3, <1>4, <1>7, <2>1 DEF Child
    <2> QED
      BY <1>1, <2>1, <2>2, <2>3 DEF Child
  <1>13. ASSUME NEW u \in Tid PROVE Finds(u)'
    <2>1. Finds(u)
      BY DEF Family
    <2>2. CASE u = t
      BY <1>1, <2>2, FindsNothing
    <2>3. CASE u /= t
      <3>1. at'[u] = at[u] /\ P(u)' = P(u) /\ P(u) \in Procs
        BY <1>1, <2>3, Mine DEF OneMoves, Others
      <3>2. at[u] \in {"clone_module", "clone_child"} => loc[u].pid \in Procs
        BY Mine DEF Local, Clone, Procs
      <3>3. \A i \in DOMAIN proc[P(u)].children :
              i \in DOMAIN proc'[P(u)].children /\ proc'[P(u)].children[i] = proc[P(u)].children[i]
        BY <1>3, <1>4, <3>1
      <3> QED
        BY <1>1, <1>3, <2>1, <3>1, <3>2, <3>3 DEF Finds, Thread
    <2> QED
      BY <2>2, <2>3
  <1>14. \A i, j \in DOMAIN reaped' : reaped'[i].pid = reaped'[j].pid => i = j
    BY <1>1 DEF Family
  <1> QED
    BY <1>9, <1>11, <1>12, <1>13, <1>14 DEF Family

\* The children of a process that ends are handed to the kernel.
LEMMA ExitTableFamily ==
  ASSUME TypeOK, Threads, Codes, InTable, Family, NEW t \in Tid, ExitTableDoes(t)
  PROVE  Family'
  <1> DEFINE e == P(t)
             orphans == proc[e].children
             all == proc[Kernel].children \o orphans
  <1>1. /\ OneMoves(t) /\ loc' = loc /\ reaped' = reaped /\ pid2pc' = pid2pc \ {e}
        /\ at[t] = "exit_table" /\ at'[t] = "exit_code"
        /\ \A p \in Procs :
             /\ proc'[p].parent = IF p \in Range(orphans) THEN Kernel ELSE proc[p].parent
             /\ proc'[p].children = IF p = Kernel THEN all ELSE proc[p].children
    BY LeaveMoves DEF ExitDoes, ExitTableDoes, Passes
  <1>2. e \in Pid /\ e \in pid2pc /\ e /= Kernel /\ e \in Procs /\ Kernel \in pid2pc /\ Kernel \in Procs
    <2>1. at[t] \in Live \ {"exit_code", "exit_zombie"}
      BY <1>1 DEF Live, Alone
    <2>2. Kernel \notin Pid
      BY ConstantsAssumption
    <2> QED
      BY <2>1, <2>2, Mine DEF InTable, Tabled, TypeOK, Procs
  <1>3. pid2pc \subseteq Procs /\ Pid \subseteq Procs
    BY DEF TypeOK, Procs
  <1>4. \A p : p \in Range(orphans) <=> Child(e, p)
    BY DEF Range, Child, Has
  <1> HIDE DEF e, orphans, all
  <1>5. \A p \in Procs : (Child(e, p) => proc'[p].parent = Kernel) /\ (~Child(e, p) => proc'[p].parent = proc[p].parent)
    BY <1>1, <1>4
  <1>6. (\A p \in Procs : p /= Kernel => proc'[p].children = proc[p].children) /\ proc'[Kernel].children = all
    BY <1>1, <1>2
  <1>7. ASSUME NEW p \in Pid, Child(Kernel, p), Child(e, p) PROVE FALSE
    <2>1. proc[p].parent = Kernel
      BY <1>2, <1>7 DEF Family
    <2>2. proc[p].parent = e
      BY <1>2, <1>7 DEF Family
    <2> QED
      BY <1>2, <2>1, <2>2
  <1>8. (\A x : Has(all, x) <=> Child(Kernel, x) \/ Child(e, x)) /\ Distinct(all)
    <2> DEFINE kids == proc[Kernel].children
    <2>1. kids \in Seq(Pid) /\ orphans \in Seq(Pid)
      BY <1>2, ChildrenType DEF orphans
    <2>2. Distinct(kids) /\ Distinct(orphans)
      BY <1>2 DEF Family, orphans
    <2>3. \A x : (Child(Kernel, x) <=> Has(kids, x)) /\ (Child(e, x) <=> Has(orphans, x))
      BY DEF Child, orphans
    <2> HIDE DEF kids
    <2>4. \A x : Has(orphans, x) => x \in Pid
      <3>1. \A i \in DOMAIN orphans : orphans[i] \in Pid
        BY <2>1, SMTT(60)
      <3> QED
        BY <3>1 DEF Has
    <2>5. \A x : ~(Has(kids, x) /\ Has(orphans, x))
      BY <1>7, <2>3, <2>4
    <2> DEFINE both == kids \o orphans
    <2>6. (\A x : Has(both, x) <=> Has(kids, x) \/ Has(orphans, x)) /\ Distinct(both)
      BY <2>1, <2>2, <2>5, Joined
    <2>7. all = both
      BY DEF kids, all
    <2> HIDE DEF both
    <2> QED
      BY <2>3, <2>6, <2>7
  <1>9. \A p \in Pid : (Known(p)' <=> Known(p)) /\ (Reaped(p)' <=> Reaped(p))
    BY <1>1, KnownStays DEF Reaped
  <1>10. ASSUME NEW r \in pid2pc' PROVE Distinct(proc'[r].children)
    BY <1>1, <1>3, <1>6, <1>8 DEF Family
  <1>11. \A r \in Procs : \A p \in Pid : Child(r, p)' <=> Child(r, p) \/ (r = Kernel /\ Child(e, p))
    BY <1>6, <1>8 DEF Child
  <1>12. ASSUME NEW r \in pid2pc', NEW p \in Pid, Child(r, p)'
         PROVE  proc'[p].parent = r /\ Known(p)' /\ ~Reaped(p)'
    <2>1. r \in pid2pc /\ r \in Procs /\ p \in Procs /\ r /= e
      BY <1>1, <1>3
    <2>2. CASE Child(r, p)
      <3>1. proc[p].parent = r /\ Known(p) /\ ~Reaped(p)
        BY <2>1, <2>2 DEF Family
      <3>2. ~Child(e, p)
        BY <1>2, <2>1, <3>1 DEF Family
      <3> QED
        BY <1>5, <1>9, <2>1, <3>1, <3>2
    <2>3. CASE r = Kernel /\ Child(e, p)
      <3>1. Known(p) /\ ~Reaped(p)
        BY <1>2, <2>3 DEF Family
      <3> QED
        BY <1>5, <1>9, <2>1, <2>3, <3>1
    <2> QED
      BY <1>11, <1>12, <2>1, <2>2, <2>3
  <1>13. ASSUME NEW p \in Pid, Known(p)', ~Reaped(p)'
         PROVE  proc'[p].parent \in pid2pc' /\ Child(proc[p].parent, p)'
    <2> DEFINE r == proc[p].parent
    <2>1. r \in pid2pc /\ Child(r, p) /\ r \in Procs /\ p \in Procs
      BY <1>3, <1>9, <1>13 DEF Family
    <2>2. CASE r = e
      <3>1. proc'[p].parent = Kernel /\ Has(proc'[Kernel].children, p)
        BY <1>5, <1>6, <1>8, <2>1, <2>2
      <3> QED
        BY <1>1, <1>2, <3>1 DEF Child
    <2>3. CASE r /= e
      <3>1. ~Child(e, p)
        BY <1>2, <2>3 DEF Family
      <3>2. proc'[p].parent = r
        BY <1>5, <2>1, <3>1
      <3>3. Has(proc'[r].children, p)
        BY <1>6, <1>8, <2>1 DEF Child
      <3> QED
        BY <1>1, <2>1, <2>3, <3>2, <3>3 DEF Child
    <2> QED
      BY <2>2, <2>3
  <1>14. ASSUME NEW u \in Tid PROVE Finds(u)'
    <2>1. Finds(u)
      BY DEF Family
    <2>2. CASE u = t
      BY <1>1, <2>2, FindsNothing
    <2>3. CASE u /= t
      <3>1. at'[u] = at[u] /\ P(u)' = P(u) /\ P(u) \in Pid /\ P(u) \in Procs /\ P(u) /= Kernel
        BY <1>1, <2>3, Mine, ConstantsAssumption DEF OneMoves, Others
      <3>2. ASSUME at[u] \in {"clone_module", "clone_child"}, ~Thread(u)
            PROVE  proc'[loc[u].pid].parent = proc[loc[u].pid].parent
        <4>1. loc[u].pid \in Procs /\ loc[u].pid \in Pid
          BY <3>2, Mine DEF Local, Clone, Procs
        <4>2. ~Child(e, loc[u].pid)
          BY <1>2, <3>2, <4>1, Unknown DEF Family
        <4> QED
          BY <1>5, <4>1, <4>2
      <3>3. proc'[P(u)].children = proc[P(u)].children
        BY <1>6, <3>1
      <3> QED
        BY <1>1, <2>1, <3>1, <3>2, <3>3 DEF Finds, Thread
    <2> QED
      BY <2>2, <2>3
  <1>15. \A i, j \in DOMAIN reaped' : reaped'[i].pid = reaped'[j].pid => i = j
    BY <1>1 DEF Family
  <1> QED
    BY <1>10, <1>12, <1>13, <1>14, <1>15 DEF Family

\* The first half of wait_pid finds the child that its second half removes.
LEMMA WaitScanFamily ==
  ASSUME TypeOK, Family, NEW t \in Tid, WaitScanDoes(t)
  PROVE  Family'
  <1>1. /\ OneMoves(t) /\ pid2pc' = pid2pc /\ reaped' = reaped /\ proc' = proc
        /\ at[t] = "wait" /\ at'[t] = "wait_remove" /\ \A p \in Procs : SameKin(p)
    BY DEF WaitScanDoes, OneMoves, P, SameKin
  <1>2. \A p \in Pid : Known(p)' <=> Known(p)
    BY <1>1, KnownStays
  <1>3. ASSUME NEW u \in Tid PROVE Finds(u)'
    <2>1. CASE u = t
      <3>1. P(t)' = P(t) /\ loc'[t].tid \in DOMAIN proc[P(t)].children /\ proc[P(t)].children[loc'[t].tid] = loc'[t].pid
        BY <1>1 DEF WaitScanDoes, OneMoves
      <3> QED
        BY <1>1, <2>1, <3>1 DEF Finds
    <2>2. CASE u /= t
      BY <1>1, <2>2, FindsStays DEF OneMoves, Others, Family
    <2> QED
      BY <2>1, <2>2
  <1> QED
    BY <1>1, <1>2, <1>3, SameFamily

\* What was found is removed: no other thread of the process has removed an entry since.
LEMMA WaitRemoveFamily ==
  ASSUME TypeOK, InTable, OneThread, "thread" \notin calls, Family, NEW t \in Tid, WaitRemoveDoes(t)
  PROVE  Family'
  <1> DEFINE e == P(t)
             q == loc[t].pid
             k == loc[t].tid
             kids == proc[e].children
             less == SubSeq(kids, 1, k - 1) \o SubSeq(kids, k + 1, Len(kids))
             report == [by |-> e, pid |-> q, code |-> loc[t].code]
  <1>1. /\ OneMoves(t) /\ pid2pc' = pid2pc /\ at[t] = "wait_remove" /\ at'[t] = "signals"
        /\ k \in DOMAIN kids /\ q \in Pid /\ e \in Procs /\ e \in Pid
        /\ proc'[e].children = less /\ proc'[e].parent = proc[e].parent
        /\ \A p \in Procs : p /= e => SameKin(p)
        /\ reaped' = Append(reaped, report) /\ report.pid = q
    BY Mine DEF WaitRemoveDoes, OneMoves, P
  <1>2. e \in pid2pc /\ kids[k] = q /\ Distinct(kids) /\ kids \in Seq(Pid)
    <2>1. at[t] \in Live \ {"exit_code", "exit_zombie"}
      BY <1>1 DEF Live, Plain
    <2>2. e \in pid2pc
      BY <2>1 DEF InTable, Tabled
    <2> QED
      BY <1>1, <2>2, ChildrenType DEF Family, Finds
  <1>3. \A x : Child(e, x) <=> Has(kids, x)
    BY DEF Child
  <1>4. /\ \A p \in Procs : proc'[p].parent = proc[p].parent
        /\ \A p \in Procs : p /= e => proc'[p].children = proc[p].children
    BY <1>1 DEF SameKin
  <1> HIDE DEF e, q, k, kids
  <1>5. Distinct(less) /\ \A x : Has(less, x) <=> Has(kids, x) /\ x /= q
    BY <1>1, <1>2, Removed
  <1> HIDE DEF less, report
  <1>6. Child(e, q) /\ ~Reaped(q) /\ proc[q].parent = e
    BY <1>1, <1>2, <1>3 DEF Family, Has
  <1>7. /\ \A i \in DOMAIN reaped : i \in DOMAIN reaped' /\ reaped'[i] = reaped[i]
        /\ \E i \in DOMAIN reaped' : reaped'[i] = report
        /\ \A i, j \in DOMAIN reaped' : i \notin DOMAIN reaped /\ j \notin DOMAIN reaped => i = j
        /\ \A i \in DOMAIN reaped' : i \in DOMAIN reaped \/ reaped'[i] = report
    <2>1. PICK R : reaped \in Seq(R)
      BY DEF TypeOK
    <2>2. Len(reaped) + 1 \in DOMAIN reaped' /\ reaped'[Len(reaped) + 1] = report
      BY <1>1, <2>1, SMTT(60)
    <2>3. /\ \A i \in DOMAIN reaped : i \in DOMAIN reaped' /\ reaped'[i] = reaped[i]
          /\ \A i \in DOMAIN reaped' : i \in DOMAIN reaped \/ i = Len(reaped) + 1
      BY <1>1, <2>1, SMTT(60)
    <2> QED
      BY <2>2, <2>3
  <1>8. \A p \in Pid : (Reaped(p)' <=> Reaped(p) \/ p = q) /\ (Known(p)' <=> Known(p))
    <2>1. \A p \in Pid : Known(p)' <=> Known(p)
      BY <1>1, KnownStays
    <2>2. \A p \in Pid : Reaped(p)' <=> Reaped(p) \/ p = q
      BY <1>1, <1>7 DEF Reaped
    <2> QED
      BY <2>1, <2>2
  <1>9. pid2pc \subseteq Procs /\ Pid \subseteq Procs
    BY DEF TypeOK, Procs
  <1>10. ASSUME NEW r \in pid2pc' PROVE Distinct(proc'[r].children)
    BY <1>1, <1>4, <1>5, <1>9 DEF Family
  <1>11. \A r \in Procs : \A p \in Pid : Child(r, p)' <=> Child(r, p) /\ (r = e => p /= q)
    BY <1>1, <1>3, <1>4, <1>5 DEF Child
  <1>12. ASSUME NEW r \in pid2pc', NEW p \in Pid, Child(r, p)'
         PROVE  proc'[p].parent = r /\ Known(p)' /\ ~Reaped(p)'
    <2>1. r \in pid2pc /\ r \in Procs /\ p \in Procs /\ Child(r, p) /\ (r = e => p /= q)
      BY <1>1, <1>9, <1>11, <1>12
    <2>2. proc[p].parent = r /\ Known(p) /\ ~Reaped(p)
      BY <2>1 DEF Family
    <2> QED
      BY <1>4, <1>6, <1>8, <2>1, <2>2
  <1>13. ASSUME NEW p \in Pid, Known(p)', ~Reaped(p)'
         PROVE  proc'[p].parent \in pid2pc' /\ Child(proc[p].parent, p)'
    <2> DEFINE r == proc[p].parent
    <2>1. r \in pid2pc /\ Child(r, p) /\ r \in Procs /\ p \in Procs /\ p /= q
      BY <1>8, <1>9, <1>13 DEF Family
    <2>2. proc'[p].parent = r
      BY <1>4, <2>1
    <2>3. Has(proc'[r].children, p)
      BY <1>1, <1>3, <1>4, <1>5, <2>1 DEF Child
    <2> QED
      BY <1>1, <2>1, <2>2, <2>3 DEF Child
  <1>14. ASSUME NEW u \in Tid PROVE Finds(u)'
    <2>1. Finds(u)
      BY DEF Family
    <2>2. CASE u = t
      BY <1>1, <2>2, FindsNothing
    <2>3. CASE u /= t
      <3>1. at'[u] = at[u] /\ loc'[u] = loc[u] /\ P(u)' = P(u) /\ P(u) \in Procs
        BY <1>1, <2>3, Mine DEF OneMoves, Others
      <3>2. at[u] = "wait_remove" => P(u) /= e
        BY <1>1, <2>3 DEF OneThread, e
      <3>3. at[u] \in {"clone_module", "clone_child"} => loc[u].pid \in Procs
        BY Mine DEF Local, Clone, Procs
      <3> QED
        BY <1>4, <2>1, <3>1, <3>2, <3>3 DEF Finds, Thread
    <2> QED
      BY <2>2, <2>3
  <1>15. ASSUME NEW i \in DOMAIN reaped', NEW j \in DOMAIN reaped', reaped'[i].pid = reaped'[j].pid PROVE i = j
    <2>1. CASE i \in DOMAIN reaped /\ j \in DOMAIN reaped
      BY <1>7, <1>15, <2>1 DEF Family
    <2>2. ASSUME NEW l \in DOMAIN reaped PROVE reaped'[l].pid /= q
      BY <1>6, <1>7 DEF Reaped
    <2> QED
      BY <1>1, <1>7, <1>15, <2>1, <2>2
  <1> QED
    BY <1>10, <1>12, <1>13, <1>14, <1>15 DEF Family

\* Every effect keeps Family, where no two threads of a process can be in wait4.
LEMMA DoesFamily ==
  ASSUME TypeOK, Threads, Codes, OneThread, InTable, NoRace => Family, NEW t \in Tid, Does(t)
  PROVE  (NoRace => Family)'
  <1>1. calls' = calls
    BY OneMove DEF OneMoves, NewThread, CloneTaskDoes, CloneBadDoes, Born, CloneRunDoes
  <1>2. WaitRemoveDoes(t) /\ NoRace => "thread" \notin calls
    BY Mine DEF WaitRemoveDoes, Local, NoRace
  <1>3. NoRace' => NoRace
    BY <1>1 DEF NoRace
  <1>4. ASSUME Family, NoRace PROVE Family'
    BY <1>2, <1>4, QuietFamily, LeaveFamily, MakeFamily, CloneFamily, CloneProcessFamily, CloneChildFamily,
       ExitTableFamily, WaitScanFamily, WaitRemoveFamily
       DEF Does, CloneDoes, NewThread, WaitDoes
  <1> QED
    BY <1>3, <1>4

----------------------------------------------------------------------------
(* The inductive invariant.                                                *)

\* The inductive invariant.
IInv == TypeOK /\ Threads /\ Codes /\ OneThread /\ InTable /\ (NoRace => Family)

\* Every effect keeps the inductive invariant.
LEMMA DoesIInv ==
  ASSUME IInv, TypeOK', NEW t \in Tid, Does(t)
  PROVE  IInv'
  <1>1. Threads' /\ Codes' /\ OneThread' /\ InTable'
    BY DoesThreads, DoesCodes, DoesOneThread, DoesTable DEF IInv
  <1>2. (NoRace => Family)'
    BY DoesFamily DEF IInv
  <1> QED
    BY <1>1, <1>2 DEF IInv

----------------------------------------------------------------------------
(* The initial states.                                                     *)

\* The executors of the kernel, of the first process and of those to come.
LEMMA InitTypes ==
  ASSUME Init
  PROVE  /\ TypeOK
         /\ \A p \in Procs : /\ proc[p].parent = Kernel /\ ~proc[p].zombie
                             /\ proc[p].children = IF p = Kernel THEN <<1>> ELSE <<>>
                             /\ proc[p].tasks = IF p = 1 THEN {1} ELSE {}
         /\ proc[1].modules[1] \in Module
  <1> DEFINE none == [t \in Tid |-> None]
             first == [none EXCEPT ![1] = init_signal(1, None)]
  <1>1. 1 \in Tid /\ 1 \in Pid /\ Kernel \notin Pid /\ Kernel /= 1
    BY ConstantsAssumption
  <1>2. init_signal(1, None) \in Module
    BY <1>1 DEF init_signal, Module
  <1>3. none \in [Tid -> Module \cup {None}] /\ first \in [Tid -> Module \cup {None}] /\ first[1] \in Module
    BY <1>1, <1>2
  <1>4. <<>> \in Seq(Pid) /\ <<1>> \in Seq(Pid) /\ 0 \in Int
    BY <1>1, SMTT(60)
  <1> DEFINE other == Executor(Kernel)
             kernel == [other EXCEPT !.children = <<1>>]
             begun == [other EXCEPT !.tasks = {1}, !.main_task = 1]
             init == [begun EXCEPT !.modules[1] = init_signal(1, None)]
  <1>5. /\ other \in ExecutorType /\ other.modules = none
        /\ other.parent = Kernel /\ ~other.zombie /\ other.children = <<>> /\ other.tasks = {}
    BY <1>3, <1>4 DEF Executor, ExecutorType, Procs
  <1>6. proc = [p \in Procs |-> IF p = Kernel THEN kernel ELSE IF p = 1 THEN init ELSE other]
    BY DEF Init, Procs
  <1> HIDE DEF none, first, other
  <1>7. /\ kernel \in ExecutorType
        /\ kernel.parent = Kernel /\ ~kernel.zombie /\ kernel.children = <<1>> /\ kernel.tasks = {}
    BY <1>4, <1>5 DEF ExecutorType
  <1>8. /\ begun \in ExecutorType /\ begun.modules = none
        /\ begun.parent = Kernel /\ ~begun.zombie /\ begun.children = <<>> /\ begun.tasks = {1}
    BY <1>1, <1>5 DEF ExecutorType
  <1> HIDE DEF kernel, begun
  <1>9. init = [begun EXCEPT !.modules = first]
    BY <1>8 DEF first
  <1> HIDE DEF init
  <1>i. /\ init \in ExecutorType /\ init.modules = first
        /\ init.parent = Kernel /\ ~init.zombie /\ init.children = <<>> /\ init.tasks = {1}
    BY <1>3, <1>8, <1>9 DEF ExecutorType
  <1>11. /\ proc \in [Procs -> ExecutorType] /\ proc[Kernel] = kernel /\ proc[1] = init
         /\ \A p \in Procs : p /= Kernel /\ p /= 1 => proc[p] = other
    BY <1>1, <1>5, <1>6, <1>7, <1>i DEF Procs
  <1>12. /\ \A p \in Procs : /\ proc[p].parent = Kernel /\ ~proc[p].zombie
                             /\ proc[p].children = IF p = Kernel THEN <<1>> ELSE <<>>
                             /\ proc[p].tasks = IF p = 1 THEN {1} ELSE {}
         /\ proc[1].modules[1] \in Module
    BY <1>1, <1>3, <1>5, <1>7, <1>11, <1>i
  <1>13. TypeOK
    <2>1. on \subseteq Tid /\ pid2pc \subseteq Procs /\ Kernel \in pid2pc /\ tid2task \subseteq Tid
      BY <1>1 DEF Init, Procs
    <2>2. task \in [Tid -> [pid : Pid, leader : BOOLEAN, exited : BOOLEAN]]
      BY <1>1 DEF Init
    <2>3. at \in [Tid -> Place] /\ \A t \in Tid : at[t] \in {"user", "unborn"}
      BY DEF Init, Place, Live, Plain
    <2>4. loc \in [Tid -> LocType] /\ \A t \in Tid : loc[t] = NoLoc
      BY NoLocType DEF Init
    <2>5. ended \in [Pid -> Int \cup {None}]
      BY DEF Init
    <2>6. reaped \in Seq([by : Pid, pid : Pid, code : Int])
      BY SMTT(60) DEF Init
    <2>7. \A t \in Tid : Local(at[t], loc[t])
      BY <2>3, <2>4, NoLocType DEF Local, Clone
    <2> QED
      BY <1>11, <2>1, <2>2, <2>3, <2>4, <2>5, <2>6, <2>7 DEF TypeOK
  <1> QED
    BY <1>12, <1>13

\* The initial state: the kernel, and the first process with one thread in user mode.
LEMMA InitIInv ==
  ASSUME Init
  PROVE  TypeOK /\ Threads /\ Codes /\ OneThread /\ InTable /\ Family
  <1>1. 1 \in Tid /\ 1 \in Pid /\ Kernel \notin Pid /\ Kernel /= 1
    BY ConstantsAssumption
  <1>2. /\ TypeOK
        /\ \A p \in Procs : /\ proc[p].parent = Kernel /\ ~proc[p].zombie
                            /\ proc[p].children = IF p = Kernel THEN <<1>> ELSE <<>>
                            /\ proc[p].tasks = IF p = 1 THEN {1} ELSE {}
        /\ proc[1].modules[1] \in Module
    BY InitTypes
  <1>p. /\ 1 \in Procs /\ Kernel \in Procs /\ proc[1].tasks = {1} /\ ~proc[1].zombie /\ proc[Kernel].children = <<1>>
        /\ \A p \in Procs : (p /= 1 => proc[p].tasks = {}) /\ (p /= Kernel => proc[p].children = <<>>)
    BY <1>1, <1>2 DEF Procs
  <1>3. /\ at[1] = "user" /\ \A t \in Tid : t /= 1 => at[t] = "unborn"
        /\ \A t \in Tid : P(t) = 1 /\ (Leader(t) <=> t = 1) /\ ~task[t].exited
        /\ pid2pc = {Kernel, 1} /\ reaped = <<>>
    BY <1>1 DEF Init, P, Leader
  <1>4. \A t \in Tid : at[t] \in {"user", "unborn"}
    BY <1>3
  <1>5. \A t \in Tid : at[t] \notin Clone /\ at[t] \notin Alone /\ at[t] \notin {"exit_unlink", "gone"} /\ (at[t] \in Live => t = 1)
    BY <1>3, <1>4 DEF Clone, Alone, Live, Plain
  <1>6. Used(1) /\ Created(1) /\ \A p : Known(p) => p = 1
    BY <1>1, <1>3, <1>4 DEF Used, Created, Known
  <1>7. DOMAIN reaped = {} /\ DOMAIN <<>> = {} /\ DOMAIN <<1>> = {1} /\ <<1>>[1] = 1
    BY <1>3, SMTT(60)
  <1>8. Threads
    <2>1. \A t \in Tid : Starting(t)
      BY <1>5 DEF Starting
    <2>2. \A t \in Tid : Listed(t)
      BY <1>2, <1>3, <1>5, <1>p DEF Listed, MyModule
    <2>3. \A t, u \in Tid : LastThread(t, u)
      BY <1>5 DEF LastThread
    <2>4. \A p \in Pid : ~proc[p].zombie
      BY <1>2 DEF Procs
    <2>5. ASSUME NEW p \in Procs, NEW u \in proc[p].tasks PROVE at[u] /= "unborn" /\ P(u) = p
      <3>1. p = 1 /\ u = 1
        BY <1>p
      <3> QED
        BY <1>1, <1>3, <3>1
    <2> QED
      BY <2>1, <2>2, <2>3, <2>4, <2>5 DEF Threads
  <1>9. Codes
    <2>1. \A t \in Tid : ~Told(at[t], loc[t]) /\ at[t] /= "exit_zombie" /\ at[t] /= "wait_remove"
      BY <1>4 DEF Told
    <2>2. \A p \in Pid : ~proc[p].zombie
      BY <1>2 DEF Procs
    <2> QED
      BY <1>7, <2>1, <2>2 DEF Codes
  <1>10. OneThread
    BY <1>3 DEF OneThread
  <1>11. InTable
    <2>1. \A t \in Tid : Tabled(t)
      BY <1>3, <1>4, <1>5 DEF Tabled
    <2> QED
      BY <1>1, <1>3, <1>6, <2>1 DEF InTable
  <1>12. Family
    <2>1. /\ \A r \in Procs, p \in Pid : Child(r, p) <=> r = Kernel /\ p = 1
      BY <1>2, <1>7 DEF Child, Has
    <2>2. ASSUME NEW r \in pid2pc PROVE Distinct(proc[r].children)
      <3>1. DOMAIN proc[r].children = {} \/ DOMAIN proc[r].children = {1}
        BY <1>1, <1>3, <1>7, <1>p
      <3> QED
        BY <3>1 DEF Distinct
    <2>3. \A p : ~Reaped(p)
      BY <1>7 DEF Reaped
    <2>4. pid2pc \subseteq Procs /\ Pid \subseteq Procs
      BY <1>2 DEF TypeOK, Procs
    <2>5. \A t \in Tid : Finds(t)
      BY <1>4 DEF Finds
    <2>6. \A r \in pid2pc, p \in Pid : Child(r, p) => proc[p].parent = r /\ Known(p) /\ ~Reaped(p)
      BY <1>2, <1>6, <2>1, <2>3, <2>4 DEF Known
    <2>7. \A p \in Pid : Known(p) /\ ~Reaped(p) => proc[p].parent \in pid2pc /\ Child(proc[p].parent, p)
      BY <1>1, <1>2, <1>3, <1>6, <2>1, <2>4
    <2> QED
      BY <1>7, <2>2, <2>5, <2>6, <2>7 DEF Family
  <1> QED
    BY <1>2, <1>8, <1>9, <1>10, <1>11, <1>12

----------------------------------------------------------------------------
(* The theorems.                                                           *)
=============================================================================
