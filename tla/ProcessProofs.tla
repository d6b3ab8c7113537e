--------------------------- MODULE ProcessProofs ---------------------------
(***************************************************************************)
(* What is proved of Process, for every set of processes, threads and      *)
(* machines.  StepDoes shows that every step of an action keeps the type   *)
(* invariant and has one of the effects of ProcessInvariant, whose lemmas  *)
(* then keep the inductive invariant; the theorems follow from it.         *)
(***************************************************************************)
EXTENDS Process, ProcessInvariant

\* Every leaf goes to Zenon, with time to spare, unless it names another prover.
USE ZenonT(60)

----------------------------------------------------------------------------
(* Lemmas about executors, local variables and places.                     *)

\* A signal that is put into modules of an executor is a quiet change,
LEMMA QuietPend ==
  ASSUME TypeOK, NEW p \in Procs, NEW us \in SUBSET Tid, NEW s \in SignalNo,
         \A u \in us : HasModule(p, u), proc' = [proc EXCEPT ![p] = Pend(@, us, s)]
  PROVE  QuietProc
  <1> DEFINE new(m) == [m EXCEPT !.pending = m.pending \cup {s}]
             ms == [u \in Tid |-> IF u \in us THEN new(proc[p].modules[u]) ELSE proc[p].modules[u]]
  <1>1. proc[p].modules \in [Tid -> Module \cup {None}]
    BY FieldTypes DEF TypeOK
  <1>2. \A m \in Module : new(m) \in Module
    BY DEF Module
  <1>3. Pend(proc[p], us, s) = [proc[p] EXCEPT !.modules = ms]
    BY DEF Pend
  <1> HIDE DEF ms
  <1>4. proc' = [proc EXCEPT ![p].modules = ms]
    BY <1>3
  <1> USE DEF ms
  <1> HIDE DEF new
  <1>5. ms \in [Tid -> Module \cup {None}] /\ \A u \in Tid : HasModule(p, u) => ms[u] \in Module
    BY <1>1, <1>2 DEF HasModule
  <1> HIDE DEF ms
  <1> QED
    BY <1>4, <1>5, QuietModules

\* and a thread that stays where it is a quiet move,
LEMMA Stays ==
  ASSUME TypeOK, NEW t \in Tid, UNCHANGED <<at, loc>>
  PROVE  \E b, l : Moves(t, b, l) /\ QuietTo(t, b, l)
  <1>1. Moves(t, at[t], loc[t]) /\ QuietTo(t, at[t], loc[t])
    BY DEF TypeOK, Moves, QuietTo
  <1> QED
    BY <1>1

\* or that returns from its call,
LEMMA Returns ==
  ASSUME TypeOK, NEW t \in Tid, at[t] \in Plain, Return(t)
  PROVE  \E b, l : Moves(t, b, l) /\ QuietTo(t, b, l)
  <1>1. Moves(t, "signals", NoLoc)
    BY DEF Return, Goto, Moves
  <1>2. QuietTo(t, "signals", NoLoc)
    BY NoLocType DEF QuietTo, Local, Told, Plain, Clone
  <1> QED
    BY <1>1, <1>2

\* or that goes on to a place of another call.
LEMMA Gets ==
  ASSUME TypeOK, NEW t \in Tid, at[t] \in Plain, NEW b \in Plain \ {"wait_remove"}, Goto(t, b),
         NEW l \in LocType, loc' = [loc EXCEPT ![t] = l], Local(b, l), ~Told(b, l)
  PROVE  \E c, k : Moves(t, c, k) /\ QuietTo(t, c, k)
  <1>1. Moves(t, b, l) /\ QuietTo(t, b, l)
    BY DEF Goto, Moves, QuietTo
  <1> QED
    BY <1>1

\* SignalSet::find_signal gives a signal.
LEMMA FindSignal ==
  ASSUME NEW m \in Module
  PROVE  find_signal(m) \in SignalNo \cup {None}
  <1> DEFINE D == Deliverable(m)
  <1>1. D \subseteq SignalNo
    BY DEF Deliverable, Module
  <1> HIDE DEF D
  <1>2. ASSUME D /= {} PROVE \E s \in D : \A o \in D : s <= o
    <2>1. CASE SIGKILL \in D
      BY <1>1, <2>1, SMTT(60) DEF SignalNo, SIGKILL, SIGUSR1, SIGSEGV, SIGCHLD
    <2>2. CASE SIGKILL \notin D /\ SIGUSR1 \in D
      BY <1>1, <2>2, SMTT(60) DEF SignalNo, SIGKILL, SIGUSR1, SIGSEGV, SIGCHLD
    <2>3. CASE SIGKILL \notin D /\ SIGUSR1 \notin D /\ SIGSEGV \in D
      BY <1>1, <2>3, SMTT(60) DEF SignalNo, SIGKILL, SIGUSR1, SIGSEGV, SIGCHLD
    <2>4. CASE SIGKILL \notin D /\ SIGUSR1 \notin D /\ SIGSEGV \notin D
      <3>1. D = {SIGCHLD}
        BY <1>1, <1>2, <2>4 DEF SignalNo
      <3> QED
        BY <3>1, SMTT(60) DEF SIGCHLD
    <2> QED
      BY <2>1, <2>2, <2>3, <2>4
  <1> QED
    BY <1>1, <1>2 DEF find_signal, D

\* A call that writes the module of its thread.
LEMMA OwnModule ==
  ASSUME TypeOK, Threads, NEW t \in Tid, at[t] \in Plain, NEW m \in Module, SetMine(t, m)
  PROVE  QuietProc
  BY Mine, QuietModule DEF SetMine

\* A panic changes nothing else.
LEMMA PanicQuiet ==
  ASSUME TypeOK, NEW t \in Tid, UNCHANGED <<cpus, calls>>, NEW why, Panic(why)
  PROVE  Quiet(t)
  <1>1. on' \subseteq Tid
    BY DEF Panic, TypeOK
  <1> QED
    BY <1>1, Stays, QuietSame DEF Quiet, Panic, tables, history

\* A step to another place, with the same local variables.
LEMMA PassesType ==
  ASSUME TypeOK, NEW t \in Tid, NEW a, NEW b \in Place, at[t] = a, Goto(t, b), UNCHANGED <<cpus, calls, loc>>,
         Local(a, loc[t]) => Local(b, loc[t])
  PROVE  /\ Passes(t, a, b)
         /\ at' \in [Tid -> Place] /\ loc' \in [Tid -> LocType] /\ \A u \in Tid : Local(at[u], loc[u])'
  <1>1. Moves(t, b, loc[t]) /\ loc[t] \in LocType /\ Local(b, loc[t])
    BY Mine DEF Moves, Goto, TypeOK
  <1>2. /\ at' \in [Tid -> Place] /\ loc' \in [Tid -> LocType] /\ \A u \in Tid : Local(at[u], loc[u])'
        /\ at'[t] = b /\ loc'[t] = loc[t] /\ Others(t)
    BY <1>1, MovesType
  <1> QED
    BY <1>2 DEF Passes, Others

\* What TaskId::new gives to a process no thread has.
LEMMA FreshIsUnused ==
  ASSUME NEW q \in FreshPid
  PROVE  q \in Pid /\ ~Used(q)
  BY DEF FreshPid, UsedPid, Used, P

----------------------------------------------------------------------------
(* The steps.                                                              *)

\* The calls from user mode.
LEMMA UserCallDoes ==
  ASSUME TypeOK, Threads, NEW t \in Tid, UNCHANGED <<cpus, calls>>, UserCall(t)
  PROVE  TypeOK' /\ Does(t)
  <1>1. ASSUME NEW kind \in CloneKind, CloneTask(t, kind)
        PROVE  TypeOK' /\ \E n \in Tid, q \in Pid : CloneTaskDoes(t, n, q)
    <2> USE <1>1
    <2>1. PICK n \in FreshTid, q \in IF kind = "thread" THEN {P(t)} ELSE FreshPid :
               /\ tid2task' = tid2task \cup {n}
               /\ task' = [task EXCEPT ![n] = [pid |-> q, leader |-> FALSE, exited |-> FALSE]]
               /\ at' = [at EXCEPT ![t] = "clone", ![n] = "made"]
               /\ loc' = [loc EXCEPT ![t] = [NoLoc EXCEPT !.kind = kind, !.tid = n, !.pid = q,
                                               !.parent = IF kind = "parent" THEN proc[P(t)].parent ELSE P(t)]]
      BY DEF CloneTask
    <2> DEFINE l == [NoLoc EXCEPT !.kind = kind, !.tid = n, !.pid = q,
                                  !.parent = IF kind = "parent" THEN proc[P(t)].parent ELSE P(t)]
    <2>2. n \in Tid /\ at[n] = "unborn" /\ at[t] = "user" /\ n /= t /\ kind \in calls
      BY DEF FreshTid, CloneTask, Call, At
    <2>3. q \in Pid /\ (kind = "thread" => q = P(t)) /\ (kind /= "thread" => ~Used(q))
      BY Mine, FreshIsUnused
    <2>4. Tid \subseteq Nat /\ 0 \in Int /\ Pid \subseteq Procs
      BY ConstantsAssumption, SMTT(60) DEF Procs
    <2>5. /\ l \in LocType /\ l.kind = kind /\ l.tid = n /\ l.pid = q /\ l.parent \in {P(t), proc[P(t)].parent}
          /\ l.parent \in Procs
      BY <2>2, <2>3, <2>4, Mine, FieldTypes DEF LocType, NoLoc
    <2>6. loc' = [loc EXCEPT ![t] = l]
      BY <2>1
    <2> HIDE DEF l
    <2>7. /\ at' \in [Tid -> Place] /\ at'[t] = "clone" /\ at'[n] = "made"
          /\ \A u \in Tid : u /= t /\ u /= n => at'[u] = at[u]
      BY <2>1, <2>2 DEF TypeOK, Place, Live, Clone
    <2>8. loc' \in [Tid -> LocType] /\ loc'[t] = l /\ \A u \in Tid : u /= t => loc'[u] = loc[u]
      BY <2>5, <2>6 DEF TypeOK
    <2>9. /\ task' \in [Tid -> [pid : Pid, leader : BOOLEAN, exited : BOOLEAN]]
          /\ task'[n] = [pid |-> q, leader |-> FALSE, exited |-> FALSE]
          /\ \A u \in Tid : u /= n => task'[u] = task[u]
      BY <2>1, <2>2, <2>3 DEF TypeOK
    <2>10. ASSUME NEW u \in Tid PROVE Local(at[u], loc[u])'
      <3>1. CASE u = t
        BY <2>2, <2>3, <2>5, <2>7, <2>8, <3>1 DEF Local, Clone
      <3>2. CASE u /= t
        <4>1. Local(at[u], loc[u])
          BY Mine
        <4>2. loc'[u] = loc[u] /\ (at'[u] = at[u] \/ (at[u] = "unborn" /\ at'[u] = "made"))
          BY <2>2, <2>7, <2>8, <3>2
        <4> QED
          BY <4>1, <4>2 DEF Local, Clone
      <3> QED
        BY <3>1, <3>2
    <2>11. TypeOK'
      BY <2>1, <2>2, <2>7, <2>8, <2>9, <2>10 DEF TypeOK, CloneTask, history
    <2>12. CloneTaskDoes(t, n, q)
      BY <2>1, <2>2, <2>3, <2>5, <2>7, <2>8, <2>9 DEF CloneTaskDoes, Born, CloneTask, history, P, Leader, Thread
    <2> QED
      BY <2>2, <2>3, <2>11, <2>12
  <1>2. ASSUME CloneBadAddress(t) PROVE TypeOK' /\ \E n \in Tid, q \in Pid : CloneBadDoes(t, n, q)
    <2> USE <1>2
    <2>1. PICK n \in FreshTid :
               /\ tid2task' = tid2task \cup {n}
               /\ at' = [at EXCEPT ![t] = "signals", ![n] = "made"]
               /\ \E q \in FreshPid : task' = [task EXCEPT ![n] = [@ EXCEPT !.pid = q, !.leader = FALSE]]
      BY DEF CloneBadAddress
    <2>2. PICK q \in FreshPid : task' = [task EXCEPT ![n] = [@ EXCEPT !.pid = q, !.leader = FALSE]]
      BY <2>1
    <2>3. n \in Tid /\ at[n] = "unborn" /\ at[t] = "user" /\ n /= t /\ q \in Pid /\ ~Used(q)
      BY FreshIsUnused DEF FreshTid, CloneBadAddress, Call, At
    <2>4. /\ at' \in [Tid -> Place] /\ at'[t] = "signals" /\ at'[n] = "made"
          /\ \A u \in Tid : u /= t /\ u /= n => at'[u] = at[u]
      BY <2>1, <2>3 DEF TypeOK, Place, Live, Plain
    <2>5. loc' = loc /\ loc' \in [Tid -> LocType]
      BY DEF TypeOK, CloneBadAddress
    <2>6. /\ task' \in [Tid -> [pid : Pid, leader : BOOLEAN, exited : BOOLEAN]]
          /\ task'[n].pid = q /\ task'[n].leader = FALSE /\ task'[n].exited = task[n].exited
          /\ \A u \in Tid : u /= n => task'[u] = task[u]
      BY <2>2, <2>3 DEF TypeOK
    <2>7. ~task[n].exited
      BY <2>3 DEF Threads, Listed
    <2>8. ASSUME NEW u \in Tid PROVE Local(at[u], loc[u])'
      <3>1. Local(at[u], loc[u]) /\ loc'[u] = loc[u]
        BY <2>5, Mine
      <3>2. \/ at'[u] = at[u]
            \/ at[u] = "unborn" /\ at'[u] = "made"
            \/ at[u] = "user" /\ at'[u] = "signals"
        BY <2>3, <2>4
      <3> QED
        BY <3>1, <3>2 DEF Local, Clone
    <2>9. TypeOK'
      BY <2>1, <2>3, <2>4, <2>5, <2>6, <2>8 DEF TypeOK, CloneBadAddress, history
    <2>10. CloneBadDoes(t, n, q)
      BY <2>1, <2>3, <2>4, <2>5, <2>6, <2>7 DEF CloneBadDoes, Born, CloneBadAddress, history, P, Leader
    <2> QED
      BY <2>3, <2>9, <2>10
  <1>3. ASSUME Exec(t) PROVE (TypeOK' /\ ExecDoes(t)) \/ Quiet(t)
    <2> USE <1>3
    <2> DEFINE p == P(t)
               r == [proc[p] EXCEPT !.main_task = t]
    <2>1. CASE Panic("exec: another task")
      BY <2>1, PanicQuiet
    <2>2. CASE /\ proc[p].tasks = {t}
               /\ task' = [task EXCEPT ![t].leader = TRUE]
               /\ proc' = [proc EXCEPT ![p].main_task = t]
               /\ \E next \in {"exec", "exit"} : Goto(t, next)
               /\ UNCHANGED <<on, tables, handlers, loc, panicked, history>>
      <3>1. at[t] = "user"
        BY DEF Exec, Call, At
      <3>2. PICK b \in {"exec", "exit"} : Goto(t, b)
        BY <2>2
      <3>3. b \in Place /\ Local(b, loc[t])
        BY LocalFree DEF Free, Place, Live, Alone, Plain
      <3>4. /\ Passes(t, "user", b)
            /\ at' \in [Tid -> Place] /\ loc' \in [Tid -> LocType] /\ \A u \in Tid : Local(at[u], loc[u])'
        BY <2>2, <3>1, <3>2, <3>3, PassesType
      <3>5. p \in Procs /\ proc[p] \in ExecutorType
        BY Mine
      <3>r. r = [proc[p] EXCEPT !.main_task = t] /\ proc' = [proc EXCEPT ![p] = r]
        BY <2>2
      <3> HIDE DEF r
      <3>6. /\ r \in ExecutorType /\ r.tasks = proc[p].tasks /\ r.modules = proc[p].modules
            /\ r.parent = proc[p].parent /\ r.children = proc[p].children /\ r.main_task = t
            /\ r.zombie = proc[p].zombie /\ r.exit_code = proc[p].exit_code
        BY <3>r, <3>5 DEF ExecutorType
      <3>7. /\ proc' \in [Procs -> ExecutorType] /\ proc'[p] = r
            /\ \A q \in Procs : q /= p => proc'[q] = proc[q] /\ SameLists(q) /\ SameRest(q)
        BY <3>r, <3>5, <3>6, OneExecutor
      <3> HIDE DEF p
      <3>8. SameLists(p) /\ SameKin(p) /\ SameEnd(p)
        BY <3>6, <3>7 DEF SameLists, KeepModules, HasModule, SameKin, SameEnd
      <3>9. \A q \in Procs : SameLists(q) /\ SameKin(q) /\ SameEnd(q) /\ (q /= p => SameMain(q))
        BY <3>7, <3>8 DEF SameRest
      <3>10. task' \in [Tid -> [pid : Pid, leader : BOOLEAN, exited : BOOLEAN]]
        BY <2>2 DEF TypeOK
      <3>11. TypeOK'
        BY <2>2, <3>4, <3>7, <3>10 DEF TypeOK, tables, history
      <3> QED
        BY <2>2, <3>4, <3>6, <3>7, <3>9, <3>11 DEF ExecDoes, tables, history, p
    <2> QED
      BY <2>1, <2>2 DEF Exec
  <1>4. ASSUME \/ \E code \in Code : Exit(t, code)
               \/ \E pid \in Pid \cup {None}, nohang \in BOOLEAN : Wait4(t, pid, nohang)
               \/ \E pid \in Pid, s \in {SIGKILL, SIGUSR1} : Kill(t, pid, s)
        PROVE  Quiet(t)
    <2> USE <1>4
    <2> DEFINE l == loc[t]
    <2>1. l \in LocType /\ Local(at[t], l) /\ Code \subseteq Int
      BY Mine, ConstantsAssumption
    <2>2. CASE \E code \in Code : Exit(t, code)
      <3>1. PICK code \in Code : Exit(t, code)
        BY <2>2
      <3> DEFINE k == [l EXCEPT !.code = code]
      <3>2. k \in LocType
        BY <2>1 DEF LocType
      <3>3. Local("exit", k) /\ ~Told("exit", k) /\ "exit" \in Plain \ {"wait_remove"} /\ at[t] \in Plain
        BY <3>1 DEF Local, Told, Plain, Clone, Exit, Call, At
      <3>4. Goto(t, "exit") /\ loc' = [loc EXCEPT ![t] = k] /\ on' \subseteq Tid
        BY <3>1 DEF Exit, TypeOK
      <3> HIDE DEF k
      <3> QED
        BY <3>1, <3>2, <3>3, <3>4, Gets, QuietSame DEF Quiet, Exit, tables, history
    <2>3. CASE \E pid \in Pid \cup {None}, nohang \in BOOLEAN : Wait4(t, pid, nohang)
      <3>1. PICK pid \in Pid \cup {None}, nohang \in BOOLEAN : Wait4(t, pid, nohang)
        BY <2>3
      <3> DEFINE k == [l EXCEPT !.pid = pid, !.must = nohang]
      <3>2. k \in LocType
        BY <2>1 DEF LocType, Procs
      <3>3. Local("wait", k) /\ ~Told("wait", k) /\ "wait" \in Plain \ {"wait_remove"} /\ at[t] \in Plain
        BY <3>1 DEF Local, Told, Plain, Clone, Wait4, Call, At
      <3>4. Goto(t, "wait") /\ loc' = [loc EXCEPT ![t] = k] /\ on' \subseteq Tid
        BY <3>1 DEF Wait4, TypeOK
      <3> HIDE DEF k
      <3> QED
        BY <3>1, <3>2, <3>3, <3>4, Gets, QuietSame DEF Quiet, Wait4, tables, history
    <2>4. CASE \E pid \in Pid, s \in {SIGKILL, SIGUSR1} : Kill(t, pid, s)
      <3>1. PICK pid \in Pid, s \in {SIGKILL, SIGUSR1} : Kill(t, pid, s)
        BY <2>4
      <3> DEFINE k == [l EXCEPT !.pid = pid, !.sig = s, !.after = "signals"]
      <3>2. /\ k \in LocType /\ k.pid \in Procs /\ k.sig \in SignalNo /\ k.after = "signals" /\ k.must = l.must
        BY <2>1 DEF LocType, Procs, SignalNo
      <3>3. Goto(t, "send") /\ loc' = [loc EXCEPT ![t] = k] /\ on' \subseteq Tid
        BY <3>1 DEF Kill, TypeOK
      <3> HIDE DEF k
      <3>4. at[t] = "user" /\ ~l.must
        BY <2>1, <3>1 DEF Local, Kill, Call, At
      <3>5. Local("send", k) /\ ~Told("send", k) /\ "send" \in Plain \ {"wait_remove"} /\ at[t] \in Plain
        BY <3>2, <3>4 DEF Local, Told, Plain, Clone
      <3> QED
        BY <3>1, <3>2, <3>3, <3>5, Gets, QuietSame DEF Quiet, Kill, tables, history
    <2> QED
      BY <2>2, <2>3, <2>4
  <1>5. ASSUME NEW u \in Tid, NEW s \in {SIGKILL, SIGUSR1, SIGSEGV}, Tkill(t, u, s) PROVE Quiet(t)
    <2> USE <1>5
    <2>1. at[t] \in Plain /\ Return(t) /\ on' \subseteq Tid
      BY DEF Tkill, Call, At, Plain, TypeOK
    <2>2. QuietProc
      <3>1. CASE Reachable(u)
        <4>1. P(u) \in Procs /\ s \in SignalNo /\ {u} \in SUBSET Tid
          BY Mine DEF SignalNo
        <4>2. HasModule(P(u), u)
          BY <3>1, Mine, FieldTypes DEF Reachable, HasModule, MyModule
        <4> QED
          BY <3>1, <4>1, <4>2, QuietPend DEF Tkill
      <3>2. CASE ~Reachable(u)
        BY <3>2, QuietSame DEF Tkill
      <3> QED
        BY <3>1, <3>2
    <2> QED
      BY <2>1, <2>2, Returns DEF Quiet, Tkill, tables, history
  <1>6. ASSUME NEW s, NEW action, Sigaction(t, s, action) PROVE Quiet(t)
    <2> USE <1>6
    <2>1. at[t] \in Plain /\ Return(t) /\ on' \subseteq Tid
      BY DEF Sigaction, Call, At, Plain, TypeOK
    <2> QED
      BY <2>1, QuietSame, Returns DEF Quiet, Sigaction, tables, history
  <1>7. ASSUME NEW how \in {"block", "unblock", "setmask"}, NEW set \in SUBSET SignalNo, Sigprocmask(t, how, set)
        PROVE  Quiet(t)
    <2> USE <1>7
    <2>1. at[t] \in Plain /\ Return(t) /\ on' \subseteq Tid
      BY DEF Sigprocmask, Call, At, Plain, TypeOK
    <2> DEFINE mask == CASE how = "block" -> MyModule(t).mask \cup set
                         [] how = "unblock" -> MyModule(t).mask \ set
                         [] how = "setmask" -> set
               m == [MyModule(t) EXCEPT !.mask = mask]
    <2>2. MyModule(t) \in Module /\ MyModule(t).mask \in SUBSET SignalNo
      BY <2>1, MyModuleType DEF Module
    <2>3. mask \in SUBSET SignalNo
      BY <2>2, SMTT(60)
    <2>4. SetMine(t, m)
      BY DEF SetMine, Sigprocmask, MyModule
    <2> HIDE DEF mask
    <2>5. m \in Module
      BY <2>2, <2>3 DEF Module
    <2> HIDE DEF m
    <2>6. QuietProc
      BY <2>1, <2>4, <2>5, OwnModule
    <2> QED
      BY <2>1, <2>6, Returns DEF Quiet, Sigprocmask, tables, history
  <1>8. ASSUME Sigreturn(t) PROVE Quiet(t)
    <2> USE <1>8
    <2>1. at[t] \in Plain /\ Return(t) /\ on' \subseteq Tid
      BY DEF Sigreturn, Call, At, Plain, TypeOK
    <2> DEFINE m == [MyModule(t) EXCEPT !.frame = FALSE]
    <2>2. SetMine(t, m)
      BY DEF SetMine, Sigreturn, MyModule
    <2>3. m \in Module
      BY <2>1, MyModuleType DEF Module
    <2> HIDE DEF m
    <2>4. QuietProc
      BY <2>1, <2>2, <2>3, OwnModule
    <2> QED
      BY <2>1, <2>4, Returns DEF Quiet, Sigreturn, tables, history
  <1>9. ASSUME NEW set \in SUBSET SignalNo, Sigsuspend(t, set) PROVE Quiet(t)
    <2> USE <1>9
    <2>1. at[t] \in Plain /\ on' \subseteq Tid /\ loc[t] \in LocType
      BY Mine DEF Sigsuspend, Call, At, Plain, TypeOK
    <2>2. CASE Return(t) /\ UNCHANGED proc
      BY <2>1, <2>2, Returns, QuietSame DEF Quiet, Sigsuspend, tables, history
    <2>3. CASE proc' = [proc EXCEPT ![P(t)].modules[t].mask = set] /\ Goto(t, "suspend") /\ UNCHANGED loc
      <3> DEFINE m == [MyModule(t) EXCEPT !.mask = set]
      <3>1. SetMine(t, m)
        BY <2>3 DEF SetMine, MyModule
      <3>2. m \in Module
        BY <2>1, MyModuleType DEF Module
      <3> HIDE DEF m
      <3>3. QuietProc
        BY <2>1, <3>1, <3>2, OwnModule
      <3>4. Local("suspend", loc[t]) /\ ~Told("suspend", loc[t]) /\ "suspend" \in Plain \ {"wait_remove"}
        BY DEF Local, Told, Plain, Clone
      <3>5. loc' = [loc EXCEPT ![t] = loc[t]]
        BY <2>3 DEF TypeOK
      <3> QED
        BY <2>1, <2>3, <3>3, <3>4, <3>5, Gets DEF Quiet, Sigsuspend, tables, history
    <2> QED
      BY <2>2, <2>3 DEF Sigsuspend
  <1>sets. {{SIGUSR1}, {SIGKILL}} \subseteq SUBSET SignalNo /\ {{}, {SIGUSR1}} \subseteq SUBSET SignalNo
    BY DEF SignalNo
  <1>clone. CASE (\E kind \in CloneKind : CloneTask(t, kind)) \/ CloneBadAddress(t) \/ Exec(t)
    BY <1>clone, <1>1, <1>2, <1>3, QuietEffect DEF Does, CloneDoes, LeaveDoes
  <1>quiet. ASSUME UserCall(t), ~(\E kind \in CloneKind : CloneTask(t, kind)), ~CloneBadAddress(t), ~Exec(t)
            PROVE  Quiet(t)
    BY <1>sets, <1>quiet, <1>4, <1>5, <1>6, <1>7, <1>8, <1>9 DEF UserCall
  <1> QED
    BY <1>clone, <1>quiet, QuietEffect DEF Does

\* The rest of clone_task, and the wait for a vfork child.
LEMMA CloneStepDoes ==
  ASSUME TypeOK, Threads, NEW t \in Tid, UNCHANGED <<cpus, calls>>, CloneThread(t) \/ CloneProcess(t) \/
         CloneModule(t) \/ CloneChild(t) \/ CloneRun(t) \/ VforkBlock(t) \/ VforkWait(t)
  PROVE  TypeOK' /\ Does(t)
  <1>1. ASSUME CloneThread(t) PROVE TypeOK' /\ CloneThreadDoes(t)
    <2> USE <1>1
    <2>1. at[t] = "clone" /\ at[t] \in Clone /\ "clone" \in Clone /\ "clone_module" \in Clone /\ "clone_module" \in Place
      BY DEF CloneThread, At, Clone, Place, Live
    <2>2. loc[t].tid \in Tid /\ P(t) \in Procs
      BY <2>1, Mine DEF Local
    <2>3. /\ Passes(t, "clone", "clone_module")
          /\ at' \in [Tid -> Place] /\ loc' \in [Tid -> LocType] /\ \A u \in Tid : Local(at[u], loc[u])'
      BY <2>1, LocalClone, PassesType DEF CloneThread
    <2> DEFINE r == [proc[P(t)] EXCEPT !.tasks = proc[P(t)].tasks \cup {loc[t].tid}]
    <2>r. r = [proc[P(t)] EXCEPT !.tasks = proc[P(t)].tasks \cup {loc[t].tid}] /\ proc' = [proc EXCEPT ![P(t)] = r]
      BY DEF CloneThread
    <2> HIDE DEF r
    <2>4. proc[P(t)] \in ExecutorType /\ proc[P(t)].tasks \cup {loc[t].tid} \in SUBSET Tid
      BY <2>2, Mine, FieldTypes
    <2>5. /\ r \in ExecutorType /\ r.tasks = proc[P(t)].tasks \cup {loc[t].tid} /\ r.modules = proc[P(t)].modules
          /\ r.parent = proc[P(t)].parent /\ r.children = proc[P(t)].children /\ r.main_task = proc[P(t)].main_task
          /\ r.zombie = proc[P(t)].zombie /\ r.exit_code = proc[P(t)].exit_code
      BY <2>r, <2>4 DEF ExecutorType
    <2>6. /\ proc' \in [Procs -> ExecutorType] /\ proc'[P(t)] = r
          /\ \A q \in Procs : q /= P(t) => proc'[q] = proc[q] /\ SameLists(q) /\ SameRest(q)
      BY <2>r, <2>2, <2>5, OneExecutor
    <2>7. KeepModules(P(t)) /\ SameRest(P(t)) /\ proc'[P(t)].tasks = proc[P(t)].tasks \cup {loc[t].tid}
      BY <2>5, <2>6 DEF KeepModules, HasModule, SameRest, SameKin, SameMain, SameEnd
    <2>8. TypeOK'
      BY <2>3, <2>6 DEF TypeOK, CloneThread, tables, history
    <2>9. \A p \in Procs : KeepModules(p) /\ SameRest(p) /\ (p /= P(t) => SameLists(p))
      BY <2>6, <2>7 DEF SameLists
    <2> QED
      BY <2>3, <2>7, <2>8, <2>9 DEF CloneThreadDoes, CloneThread, Thread, tables, history
  <1>2. ASSUME CloneProcess(t) PROVE TypeOK' /\ CloneProcessDoes(t)
    <2> USE <1>2
    <2> DEFINE n == loc[t].tid
               q == loc[t].pid
               r == [Executor(loc[t].parent) EXCEPT !.main_task = n, !.tasks = {n}]
    <2>1. at[t] = "clone" /\ "clone" \in Clone /\ "clone_module" \in Clone /\ "clone_module" \in Place
      BY DEF CloneProcess, At, Clone, Place, Live
    <2>2. n \in Tid /\ q \in Pid /\ q \in Procs /\ loc[t].parent \in Procs
      BY <2>1, Mine DEF Local, Procs
    <2>3. /\ Passes(t, "clone", "clone_module")
          /\ at' \in [Tid -> Place] /\ loc' \in [Tid -> LocType] /\ \A u \in Tid : Local(at[u], loc[u])'
      BY <2>1, LocalClone, PassesType DEF CloneProcess
    <2>4. 0 \in Int /\ <<>> \in Seq(Pid)
      BY SMTT(60)
    <2>5. /\ r \in ExecutorType /\ r.tasks = {n} /\ r.main_task = n /\ r.zombie = FALSE /\ r.parent = loc[t].parent
          /\ r.children = <<>>
      BY <2>2, <2>4 DEF Executor, ExecutorType
    <2>r. proc' = [proc EXCEPT ![q] = r]
      BY DEF CloneProcess
    <2>t. task' = [task EXCEPT ![n].leader = TRUE]
      BY DEF CloneProcess
    <2> HIDE DEF r, n, q
    <2>6. /\ proc' \in [Procs -> ExecutorType] /\ proc'[q] = r
          /\ \A p \in Procs : p /= q => proc'[p] = proc[p] /\ SameLists(p) /\ SameRest(p)
      BY <2>2, <2>5, <2>r, OneExecutor
    <2>7. /\ task' \in [Tid -> [pid : Pid, leader : BOOLEAN, exited : BOOLEAN]]
          /\ task'[n].leader /\ \A u \in Tid : /\ task'[u].pid = task[u].pid /\ task'[u].exited = task[u].exited
                                               /\ u /= n => task'[u].leader = task[u].leader
      BY <2>2, <2>t DEF TypeOK
    <2>8. TypeOK'
      BY <2>2, <2>3, <2>6, <2>7 DEF TypeOK, CloneProcess, history, q
    <2> QED
      BY <2>2, <2>3, <2>5, <2>6, <2>7, <2>8 DEF CloneProcessDoes, CloneProcess, history, P, Leader, Thread, n, q
  <1>3. ASSUME CloneModule(t) PROVE TypeOK' /\ CloneModuleDoes(t)
    <2> USE <1>3
    <2> DEFINE n == loc[t].tid
               q == loc[t].pid
               b == IF Thread(t) THEN "clone_run" ELSE "clone_child"
               m == IF Thread(t) THEN init_signal(MyModule(t).handler, None) ELSE init_signal(n, SIGCHLD)
    <2>1. at[t] = "clone_module" /\ "clone_module" \in Clone /\ b \in Clone /\ b \in Place
      BY DEF CloneModule, At, Clone, Place, Live
    <2>2. n \in Tid /\ q \in Pid /\ q \in Procs
      BY <2>1, Mine DEF Local, Procs
    <2>3. /\ Passes(t, "clone_module", b)
          /\ at' \in [Tid -> Place] /\ loc' \in [Tid -> LocType] /\ \A u \in Tid : Local(at[u], loc[u])'
      BY <2>1, LocalClone, PassesType DEF CloneModule, Thread
    <2>4. MyModule(t) \in Module
      BY <2>1 DEF Threads, Listed, Live, Clone, Cleared
    <2>5. m \in Module
      BY <2>2, <2>4 DEF Module, init_signal, SignalNo
    <2>6. proc' = [proc EXCEPT ![q].modules[n] = m]
      BY DEF CloneModule, Thread
    <2> HIDE DEF m, n, q, b
    <2>7. QuietProc
      BY <2>2, <2>5, <2>6, QuietModule
    <2>8. proc'[q].modules[n] = m
      <3>1. proc[q] \in ExecutorType /\ proc[q].modules \in [Tid -> Module \cup {None}] /\ proc \in [Procs -> ExecutorType]
        BY <2>2, FieldTypes DEF TypeOK
      <3>2. proc'[q] = [proc[q] EXCEPT !.modules[n] = m]
        BY <2>2, <2>6, <3>1
      <3>3. proc'[q].modules = [proc[q].modules EXCEPT ![n] = m]
        BY <3>1, <3>2 DEF ExecutorType
      <3> QED
        BY <2>2, <3>1, <3>3
    <2>9. TypeOK'
      BY <2>3, <2>7 DEF TypeOK, CloneModule, tables, history, QuietProc
    <2> QED
      BY <2>3, <2>5, <2>7, <2>8, <2>9 DEF CloneModuleDoes, CloneModule, tables, history, QuietProc, n, q, b
  <1>4. ASSUME CloneChild(t) PROVE (TypeOK' /\ CloneChildDoes(t)) \/ Quiet(t)
    <2> USE <1>4
    <2> DEFINE p == loc[t].parent
               kids == Append(proc[p].children, loc[t].pid)
               r == [proc[p] EXCEPT !.children = kids]
    <2>1. at[t] = "clone_child" /\ "clone_child" \in Clone /\ "clone_run" \in Clone /\ "clone_run" \in Place
      BY DEF CloneChild, At, Clone, Place, Live
    <2>2. CASE \E why : Panic(why)
      BY <2>2, PanicQuiet
    <2>3. CASE /\ p \in pid2pc /\ proc' = [proc EXCEPT ![p].children = kids] /\ Goto(t, "clone_run")
               /\ UNCHANGED <<on, tables, task, handlers, loc, panicked, history>>
      <3>1. p \in Procs /\ loc[t].pid \in Pid /\ proc[p] \in ExecutorType /\ proc[p].children \in Seq(Pid)
        BY <2>1, Mine, FieldTypes DEF Local, TypeOK
      <3>2. kids \in Seq(Pid)
        BY <3>1, SMTT(60)
      <3>3. /\ Passes(t, "clone_child", "clone_run")
            /\ at' \in [Tid -> Place] /\ loc' \in [Tid -> LocType] /\ \A u \in Tid : Local(at[u], loc[u])'
        BY <2>1, <2>3, LocalClone, PassesType
      <3>r. r = [proc[p] EXCEPT !.children = kids] /\ proc' = [proc EXCEPT ![p] = r]
        BY <2>3
      <3> HIDE DEF r, kids
      <3>4. /\ r \in ExecutorType /\ r.tasks = proc[p].tasks /\ r.modules = proc[p].modules
            /\ r.parent = proc[p].parent /\ r.children = kids /\ r.main_task = proc[p].main_task
            /\ r.zombie = proc[p].zombie /\ r.exit_code = proc[p].exit_code
        BY <3>r, <3>1, <3>2 DEF ExecutorType
      <3>5. /\ proc' \in [Procs -> ExecutorType] /\ proc'[p] = r
            /\ \A q \in Procs : q /= p => proc'[q] = proc[q] /\ SameLists(q) /\ SameRest(q)
        BY <3>r, <3>1, <3>4, OneExecutor
      <3> HIDE DEF p
      <3>6. SameLists(p) /\ SameMain(p) /\ SameEnd(p)
        BY <3>4, <3>5 DEF SameLists, KeepModules, HasModule, SameMain, SameEnd
      <3>7. \A q \in Procs : SameLists(q) /\ SameMain(q) /\ SameEnd(q) /\ (q /= p => SameKin(q))
        BY <3>5, <3>6 DEF SameRest
      <3>8. TypeOK'
        BY <2>3, <3>3, <3>5 DEF TypeOK, tables, history
      <3> QED
        BY <2>3, <3>3, <3>4, <3>5, <3>7, <3>8 DEF CloneChildDoes, tables, history, p, kids
    <2> QED
      BY <2>2, <2>3 DEF CloneChild
  <1>5. ASSUME CloneRun(t) PROVE TypeOK' /\ CloneRunDoes(t)
    <2> USE <1>5
    <2> DEFINE n == loc[t].tid
               b == IF loc[t].kind = "vfork" THEN "vfork" ELSE "signals"
    <2>1. at[t] = "clone_run" /\ at[t] \in Clone
      BY DEF CloneRun, At, Clone
    <2>2. n \in Tid /\ at[n] = "made" /\ n /= t
      BY <2>1, Mine DEF Local, Threads, Starting
    <2>3. b \in {"vfork", "signals"} /\ {"vfork", "signals", "user"} \subseteq Place
      BY DEF Place, Live, Plain
    <2>4. at' = [at EXCEPT ![n] = "user", ![t] = b] /\ loc' = [loc EXCEPT ![t] = NoLoc]
      BY DEF CloneRun
    <2> HIDE DEF n, b
    <2>5. /\ at' \in [Tid -> Place] /\ loc' \in [Tid -> LocType] /\ at'[t] = b /\ at'[n] = "user" /\ loc'[t] = NoLoc
          /\ \A u \in Tid \ {t} : (u /= n => at'[u] = at[u]) /\ loc'[u] = loc[u]
      BY <2>2, <2>3, <2>4, NoLocType DEF TypeOK
    <2>6. ASSUME NEW u \in Tid PROVE Local(at[u], loc[u])'
      <3>1. Local(at[u], loc[u]) /\ (at[u] = "made" => ~loc[u].must)
        BY Mine DEF Local
      <3>2. CASE u = t
        BY <2>3, <2>5, <3>2, NoLocType DEF Local, Clone
      <3>3. CASE u = n
        BY <2>2, <2>5, <3>1, <3>3 DEF Local, Clone
      <3>4. CASE u /= t /\ u /= n
        BY <2>5, <3>1, <3>4 DEF Local
      <3> QED
        BY <3>2, <3>3, <3>4
    <2>7. TypeOK'
      BY <2>5, <2>6 DEF TypeOK, CloneRun, tables, history
    <2> QED
      BY <2>1, <2>2, <2>3, <2>5, <2>7 DEF CloneRunDoes, CloneRun, tables, history, n
  <1>6. ASSUME VforkBlock(t) \/ VforkWait(t) PROVE Quiet(t)
    <2> USE <1>6
    <2>1. at[t] \in Plain /\ on' \subseteq Tid /\ loc[t] \in LocType /\ P(t) \in Procs
      BY Mine DEF VforkBlock, VforkWait, YieldNow, At, Plain, TypeOK
    <2>2. CASE VforkBlock(t)
      <3>1. QuietProc
        BY <2>1, <2>2, QuietVfork DEF VforkBlock
      <3>2. Local("vfork_wait", loc[t]) /\ ~Told("vfork_wait", loc[t]) /\ "vfork_wait" \in Plain \ {"wait_remove"}
        BY DEF Local, Told, Plain, Clone
      <3>3. loc' = [loc EXCEPT ![t] = loc[t]] /\ Goto(t, "vfork_wait")
        BY <2>2 DEF VforkBlock, TypeOK
      <3> QED
        BY <2>1, <2>2, <3>1, <3>2, <3>3, Gets DEF Quiet, VforkBlock, tables, history
    <2>3. CASE VforkWait(t)
      <3>1. \E b, l : Moves(t, b, l) /\ QuietTo(t, b, l)
        BY <2>1, <2>3, Stays, Returns DEF VforkWait, YieldNow
      <3> QED
        BY <2>1, <2>3, <3>1, QuietSame DEF Quiet, VforkWait, tables, history
    <2> QED
      BY <2>2, <2>3
  <1> QED
    BY <1>1, <1>2, <1>3, <1>4, <1>5, <1>6, QuietEffect
       DEF Does, CloneDoes

\* The rest of exec, and exit until a thread is off the lists.
LEMMA LeaveStepDoes ==
  ASSUME TypeOK, Threads, NEW t \in Tid, UNCHANGED <<cpus, calls>>, ExecReset(t) \/ ExecRelease(t) \/
         ExitSignal(t) \/ ExitTasks(t) \/ ExitLeave(t) \/ ExitUnlink(t)
  PROVE  TypeOK' /\ Does(t)
  <1>1. ASSUME ExecReset(t) PROVE TypeOK' /\ ExecResetDoes(t)
    <2> USE <1>1
    <2> DEFINE p == P(t)
               r == [proc[p] EXCEPT !.modules = [u \in Tid |-> IF u = t THEN init_signal(t, None) ELSE None]]
    <2>1. at[t] = "exec" /\ "exec_release" \in Place /\ Local("exec_release", loc[t])
      BY LocalFree DEF ExecReset, At, Free, Place, Live, Alone, Plain
    <2>2. p \in Procs /\ proc[p] \in ExecutorType /\ loc[t] \in LocType
      BY Mine
    <2>3. /\ Passes(t, "exec", "exec_release")
          /\ at' \in [Tid -> Place] /\ loc' \in [Tid -> LocType] /\ \A u \in Tid : Local(at[u], loc[u])'
      BY <2>1, PassesType DEF ExecReset
    <2>r. r = [proc[p] EXCEPT !.modules = [u \in Tid |-> IF u = t THEN init_signal(t, None) ELSE None]] /\ proc' = [proc EXCEPT ![p] = r]
      BY DEF ExecReset
    <2>4. [u \in Tid |-> IF u = t THEN init_signal(t, None) ELSE None] \in [Tid -> Module \cup {None}]
         /\ init_signal(t, None) \in Module
      BY DEF init_signal, Module
    <2> HIDE DEF r, p
    <2>5. /\ r \in ExecutorType
          /\ r.tasks = proc[p].tasks
          /\ r.modules = [u \in Tid |-> IF u = t THEN init_signal(t, None) ELSE None]
          /\ r.parent = proc[p].parent /\ r.children = proc[p].children
          /\ r.main_task = proc[p].main_task /\ r.zombie = proc[p].zombie
          /\ r.exit_code = proc[p].exit_code
      BY <2>r, <2>2, <2>4 DEF ExecutorType
    <2>6. /\ proc' \in [Procs -> ExecutorType] /\ proc'[p] = r
          /\ \A q \in Procs : q /= p => proc'[q] = proc[q] /\ SameLists(q) /\ SameRest(q)
      BY <2>r, <2>2, <2>5, OneExecutor
    <2>7. proc'[p].tasks = proc[p].tasks /\ SameRest(p) /\ proc'[p].modules[t] \in Module
      BY <2>2, <2>4, <2>5, <2>6 DEF SameLists, KeepModules, HasModule, SameRest, SameKin, SameMain, SameEnd
    <2>8. \A q \in Procs : proc'[q].tasks = proc[q].tasks /\ SameRest(q) /\ (q /= p => SameLists(q))
      BY <2>6, <2>7 DEF SameLists, SameRest
    <2>9. TypeOK'
      BY <2>3, <2>6 DEF TypeOK, ExecReset, tables, history
    <2> QED
      BY <2>3, <2>7, <2>8, <2>9 DEF ExecResetDoes, ExecReset, tables, history, p
  <1>2. ASSUME ExecRelease(t) PROVE Quiet(t)
    <2> USE <1>2
    <2> DEFINE parent == proc[P(t)].parent
    <2>1. at[t] \in Plain /\ parent \in Procs
      BY Mine, FieldTypes DEF ExecRelease, At, Plain
    <2>2. CASE Panic("exec: the parent is gone")
      BY <2>2, PanicQuiet
    <2>3. CASE /\ proc' = [proc EXCEPT ![parent].vfork = FALSE] /\ Return(t)
               /\ UNCHANGED <<on, tables, task, handlers, panicked, history>>
      <3>1. QuietProc
        BY <2>1, <2>3, QuietVfork
      <3>2. on' \subseteq Tid
        BY <2>3 DEF TypeOK
      <3> QED
        BY <2>1, <2>3, <3>1, <3>2, Returns DEF Quiet, tables, history
    <2> QED
      BY <2>2, <2>3 DEF ExecRelease
  <1>3. ASSUME ExitSignal(t) PROVE (TypeOK' /\ ExitSignalDoes(t)) \/ Quiet(t)
    <2> USE <1>3
    <2> DEFINE signal == MyModule(t).exit_signal
               parent == proc[P(t)].parent
               sig == IF signal = None THEN SIGCHLD ELSE signal
               l == [loc[t] EXCEPT !.pid = parent, !.must = TRUE, !.after = "exit_tasks", !.sig = sig]
    <2>1. at[t] = "exit" /\ loc[t] \in LocType /\ loc[t].code \in Int
      BY Mine, LocFields DEF ExitSignal, At
    <2>2. CASE Panic("exit: no module")
      BY <2>2, PanicQuiet
    <2>3. CASE /\ MyModule(t) /= None
               /\ ended' = IF Leader(t) THEN [ended EXCEPT ![P(t)] = loc[t].code] ELSE ended
               /\ \/ loc' = [loc EXCEPT ![t] = l] /\ Goto(t, "send")
                  \/ Goto(t, "exit_tasks") /\ UNCHANGED loc
               /\ UNCHANGED <<on, tables, proc, task, handlers, panicked, reaped>>
      <3>1. sig \in SignalNo
        <4>1. proc[P(t)].modules \in [Tid -> Module \cup {None}]
          BY Mine, FieldTypes
        <4>2. MyModule(t) \in Module
          BY <2>3, <4>1 DEF MyModule
        <4> QED
          BY <4>2 DEF Module, SignalNo
      <3>2. parent \in Procs
        BY Mine, FieldTypes
      <3> HIDE DEF sig, parent
      <3>3. l \in LocType /\ l.pid = parent /\ l.code = loc[t].code /\ l.after = "exit_tasks" /\ l.sig = sig
        BY <2>1, <3>1, <3>2 DEF LocType
      <3>l. loc' = [loc EXCEPT ![t] = l] \/ UNCHANGED loc
        BY <2>3
      <3> HIDE DEF l
      <3>4. Local("send", l) /\ Local("exit_tasks", loc[t]) /\ "send" \in Place /\ "exit_tasks" \in Place
        BY <3>1, <3>2, <3>3, LocalFree DEF Local, Clone, Free, Place, Live, Plain
      <3>5. ended' \in [Pid -> Int \cup {None}]
        BY <2>1, <2>3, Mine DEF TypeOK
      <3>6. Moves(t, "send", l) \/ Moves(t, "exit_tasks", loc[t])
        BY <2>1, <2>3 DEF Moves, Goto, TypeOK
      <3>7. /\ at' \in [Tid -> Place] /\ loc' \in [Tid -> LocType] /\ \A u \in Tid : Local(at[u], loc[u])'
            /\ (at'[t] = "send" /\ loc'[t] = l) \/ (at'[t] = "exit_tasks" /\ loc'[t] = loc[t])
            /\ Others(t)
        BY <2>1, <3>3, <3>4, <3>6, MovesType
      <3>8. TypeOK'
        BY <2>3, <3>5, <3>7 DEF TypeOK, tables
      <3>9. ExitSignalDoes(t)
        BY <2>1, <2>3, <3>3, <3>7 DEF ExitSignalDoes, tables, parent
      <3> QED
        BY <3>8, <3>9
    <2> QED
      BY <2>2, <2>3 DEF ExitSignal
  \* The leader sends SIGKILL again, or panics.
  <1>4. ASSUME ExitTasks(t), at'[t] /= "exit_main" PROVE Quiet(t)
    <2> USE <1>4
    <2> DEFINE left == {u \in proc[P(t)].tasks : ~Leader(u) /\ ~task[u].exited}
    <2>1. P(t) \in Procs /\ left \in SUBSET Tid
      BY Mine, FieldTypes
    <2>2. CASE /\ \A u \in left : Reachable(u)
               /\ proc' = [proc EXCEPT ![P(t)] = Pend(@, left, SIGKILL)]
               /\ YieldNow(t)
               /\ UNCHANGED <<tables, task, handlers, loc, panicked, history>>
      <3>1. ASSUME NEW u \in left PROVE HasModule(P(t), u)
        <4>1. u \in Tid /\ P(u) = P(t)
          BY <2>1, <3>1 DEF Threads
        <4>2. proc[P(t)].modules[u] /= None /\ proc[P(t)].modules[u] \in Module \cup {None}
          BY <2>2, <3>1, <4>1, Mine, FieldTypes DEF Reachable, MyModule
        <4> QED
          BY <4>2 DEF HasModule
      <3> HIDE DEF left
      <3>2. QuietProc
        BY <2>1, <2>2, <3>1, QuietPend DEF SignalNo
      <3>3. on' \subseteq Tid /\ UNCHANGED <<at, loc>>
        BY <2>2 DEF YieldNow, TypeOK
      <3> QED
        BY <2>2, <3>2, <3>3, Stays DEF Quiet, tables, history
    <2>3. CASE Panic("exit: a thread is gone")
      BY <2>3, PanicQuiet
    <2>4. CASE Goto(t, "exit_main")
      BY <2>4 DEF Goto, TypeOK
    <2> QED
      BY <2>2, <2>3, <2>4 DEF ExitTasks
  <1>5. ASSUME ExitTasks(t), at'[t] = "exit_main" PROVE TypeOK' /\ ExitTasksDoes(t)
    <2> USE <1>5
    <2>1. at[t] = "exit_tasks" /\ "exit_main" \in Place /\ Local("exit_main", loc[t]) /\ at \in [Tid -> Place]
      BY LocalFree DEF ExitTasks, At, Free, Place, Live, Alone, TypeOK
    <2>2. /\ Goto(t, "exit_main") /\ UNCHANGED <<on, tables, proc, task, handlers, loc, panicked, history>>
          /\ \A u \in proc[P(t)].tasks : Leader(u) \/ task[u].exited
      BY <2>1 DEF ExitTasks, YieldNow, Panic
    <2>3. /\ Passes(t, "exit_tasks", "exit_main")
          /\ at' \in [Tid -> Place] /\ loc' \in [Tid -> LocType] /\ \A u \in Tid : Local(at[u], loc[u])'
      BY <2>1, <2>2, PassesType
    <2>4. TypeOK'
      BY <2>2, <2>3 DEF TypeOK, tables, history
    <2> QED
      BY <2>2, <2>3, <2>4 DEF ExitTasksDoes, ExitTasks, tables, history
  <1>6. ASSUME ExitLeave(t) PROVE TypeOK' /\ ExitLeaveDoes(t)
    <2> USE <1>6
    <2>1. at[t] = "exit_tasks" /\ "exit_unlink" \in Place /\ Local("exit_unlink", loc[t])
      BY LocalFree DEF ExitLeave, At, Free, Place, Live
    <2>2. /\ Passes(t, "exit_tasks", "exit_unlink")
          /\ at' \in [Tid -> Place] /\ loc' \in [Tid -> LocType] /\ \A u \in Tid : Local(at[u], loc[u])'
      BY <2>1, PassesType DEF ExitLeave
    <2>3. TypeOK'
      BY <2>2 DEF TypeOK, ExitLeave, history
    <2> QED
      BY <2>2, <2>3 DEF ExitLeaveDoes, ExitLeave, history
  <1>7. ASSUME ExitUnlink(t) PROVE TypeOK' /\ ExitUnlinkDoes(t)
    <2> USE <1>7
    <2> DEFINE p == P(t)
               r == [proc[p] EXCEPT !.tasks = proc[p].tasks \ {t}, !.modules[t] = None]
    <2>1. at[t] = "exit_unlink" /\ "exit_done" \in Place /\ Local("exit_done", loc[t])
      BY LocalFree DEF ExitUnlink, At, Free, Place, Live, Alone, Plain
    <2>2. p \in Procs /\ proc[p] \in ExecutorType /\ loc[t] \in LocType
      BY Mine
    <2>3. /\ Passes(t, "exit_unlink", "exit_done")
          /\ at' \in [Tid -> Place] /\ loc' \in [Tid -> LocType] /\ \A u \in Tid : Local(at[u], loc[u])'
      BY <2>1, PassesType DEF ExitUnlink
    <2>r. r = [proc[p] EXCEPT !.tasks = proc[p].tasks \ {t}, !.modules[t] = None] /\ proc' = [proc EXCEPT ![p] = r]
      BY DEF ExitUnlink
    <2>4. proc[p].tasks \ {t} \in SUBSET Tid /\ proc[p].modules \in [Tid -> Module \cup {None}]
         /\ [proc[p].modules EXCEPT ![t] = None] \in [Tid -> Module \cup {None}]
      BY <2>2, FieldTypes
    <2> HIDE DEF r, p
    <2>5. /\ r \in ExecutorType
          /\ r.tasks = proc[p].tasks \ {t} /\ r.modules = [proc[p].modules EXCEPT ![t] = None]
          /\ r.parent = proc[p].parent /\ r.children = proc[p].children
          /\ r.main_task = proc[p].main_task /\ r.zombie = proc[p].zombie
          /\ r.exit_code = proc[p].exit_code
      BY <2>r, <2>2, <2>4 DEF ExecutorType
    <2>6. /\ proc' \in [Procs -> ExecutorType] /\ proc'[p] = r
          /\ \A q \in Procs : q /= p => proc'[q] = proc[q] /\ SameLists(q) /\ SameRest(q)
      BY <2>r, <2>2, <2>5, OneExecutor
    <2>7. proc'[p].tasks = proc[p].tasks \ {t} /\ SameRest(p) /\ \A u \in Tid : u /= t /\ HasModule(p, u) => proc'[p].modules[u] \in Module
      BY <2>2, <2>4, <2>5, <2>6 DEF SameLists, KeepModules, HasModule, SameRest, SameKin, SameMain, SameEnd
    <2>8. \A q \in Procs : SameRest(q) /\ (q /= p => SameLists(q))
      BY <2>6, <2>7 DEF SameLists, SameRest
    <2>9. TypeOK'
      BY <2>3, <2>6 DEF TypeOK, ExitUnlink, tables, history
    <2> QED
      BY <2>3, <2>7, <2>8, <2>9 DEF ExitUnlinkDoes, ExitUnlink, tables, history, p
  <1> QED
    BY <1>1, <1>2, <1>3, <1>4, <1>5, <1>6,
       <1>7, QuietEffect
       DEF Does, LeaveDoes

\* What the leader does when it is the last thread of its process.
LEMMA ExitStepDoes ==
  ASSUME TypeOK, Threads, NEW t \in Tid, UNCHANGED <<cpus, calls>>, ExitMain(t) \/ ExitClear(t) \/
         ExitTable(t) \/ ExitCode(t) \/ ExitZombie(t) \/ ExitDone(t)
  PROVE  TypeOK' /\ Does(t)
  <1>1. ASSUME ExitMain(t) PROVE TypeOK' /\ ExitMainDoes(t)
    <2> USE <1>1
    <2> DEFINE p == P(t)
               r == [proc[p] EXCEPT !.main_task = None]
    <2>1. at[t] = "exit_main" /\ "exit_clear" \in Place /\ Local("exit_clear", loc[t])
      BY LocalFree DEF ExitMain, At, Free, Place, Live, Alone, Plain
    <2>2. p \in Procs /\ proc[p] \in ExecutorType /\ loc[t] \in LocType
      BY Mine
    <2>3. /\ Passes(t, "exit_main", "exit_clear")
          /\ at' \in [Tid -> Place] /\ loc' \in [Tid -> LocType] /\ \A u \in Tid : Local(at[u], loc[u])'
      BY <2>1, PassesType DEF ExitMain
    <2>r. r = [proc[p] EXCEPT !.main_task = None] /\ proc' = [proc EXCEPT ![p] = r]
      BY DEF ExitMain
    <2>4. None \in Tid \cup {None}
      BY DEF P
    <2> HIDE DEF r, p
    <2>5. /\ r \in ExecutorType
          /\ r.tasks = proc[p].tasks /\ r.modules = proc[p].modules /\ r.parent = proc[p].parent
          /\ r.children = proc[p].children /\ r.main_task = None /\ r.zombie = proc[p].zombie
          /\ r.exit_code = proc[p].exit_code
      BY <2>r, <2>2, <2>4 DEF ExecutorType
    <2>6. /\ proc' \in [Procs -> ExecutorType] /\ proc'[p] = r
          /\ \A q \in Procs : q /= p => proc'[q] = proc[q] /\ SameLists(q) /\ SameRest(q)
      BY <2>r, <2>2, <2>5, OneExecutor
    <2>7. proc'[p].main_task = None /\ SameLists(p) /\ SameKin(p) /\ SameEnd(p)
      BY <2>2, <2>4, <2>5, <2>6 DEF SameLists, KeepModules, HasModule, SameRest, SameKin, SameMain, SameEnd
    <2>8. \A q \in Procs : SameLists(q) /\ SameKin(q) /\ SameEnd(q) /\ (q /= p => SameMain(q))
      BY <2>6, <2>7 DEF SameLists, SameRest
    <2>9. TypeOK'
      BY <2>3, <2>6 DEF TypeOK, ExitMain, tables, history
    <2> QED
      BY <2>3, <2>7, <2>8, <2>9 DEF ExitMainDoes, ExitMain, tables, history, p
  <1>2. ASSUME ExitClear(t) PROVE TypeOK' /\ ExitClearDoes(t)
    <2> USE <1>2
    <2> DEFINE p == P(t)
               r == [proc[p] EXCEPT !.tasks = {}, !.modules = [u \in Tid |-> None]]
    <2>1. at[t] = "exit_clear" /\ "exit_table" \in Place /\ Local("exit_table", loc[t])
      BY LocalFree DEF ExitClear, At, Free, Place, Live, Alone, Plain
    <2>2. p \in Procs /\ proc[p] \in ExecutorType /\ loc[t] \in LocType
      BY Mine
    <2>3. /\ Passes(t, "exit_clear", "exit_table")
          /\ at' \in [Tid -> Place] /\ loc' \in [Tid -> LocType] /\ \A u \in Tid : Local(at[u], loc[u])'
      BY <2>1, PassesType DEF ExitClear
    <2>r. r = [proc[p] EXCEPT !.tasks = {}, !.modules = [u \in Tid |-> None]] /\ proc' = [proc EXCEPT ![p] = r]
      BY DEF ExitClear
    <2>4. {} \in SUBSET Tid /\ [u \in Tid |-> None] \in [Tid -> Module \cup {None}]
      BY DEF P
    <2> HIDE DEF r, p
    <2>5. /\ r \in ExecutorType
          /\ r.tasks = {} /\ r.modules = [u \in Tid |-> None] /\ r.parent = proc[p].parent
          /\ r.children = proc[p].children /\ r.main_task = proc[p].main_task
          /\ r.zombie = proc[p].zombie /\ r.exit_code = proc[p].exit_code
      BY <2>r, <2>2, <2>4 DEF ExecutorType
    <2>6. /\ proc' \in [Procs -> ExecutorType] /\ proc'[p] = r
          /\ \A q \in Procs : q /= p => proc'[q] = proc[q] /\ SameLists(q) /\ SameRest(q)
      BY <2>r, <2>2, <2>5, OneExecutor
    <2>7. proc'[p].tasks = {} /\ SameRest(p)
      BY <2>2, <2>4, <2>5, <2>6 DEF SameLists, KeepModules, HasModule, SameRest, SameKin, SameMain, SameEnd
    <2>8. \A q \in Procs : SameRest(q) /\ (q /= p => SameLists(q))
      BY <2>6, <2>7 DEF SameLists, SameRest
    <2>9. TypeOK'
      BY <2>3, <2>6 DEF TypeOK, ExitClear, tables, history
    <2> QED
      BY <2>3, <2>7, <2>8, <2>9 DEF ExitClearDoes, ExitClear, tables, history, p
  <1>3. ASSUME ExitTable(t) PROVE TypeOK' /\ ExitTableDoes(t)
    <2> USE <1>3
    <2> DEFINE orphans == proc[P(t)].children
               parent(p) == IF p \in Range(orphans) THEN Kernel ELSE proc[p].parent
               children(p) == IF p = Kernel THEN proc[p].children \o orphans ELSE proc[p].children
               vfork(p) == proc[p].vfork /\ p /= proc[P(t)].parent
               r(p) == [proc[p] EXCEPT !.parent = parent(p), !.children = children(p), !.vfork = vfork(p)]
    <2>1. at[t] = "exit_table" /\ "exit_code" \in Place /\ Local("exit_code", loc[t])
      BY LocalFree DEF ExitTable, At, Free, Place, Live, Alone
    <2>2. /\ Passes(t, "exit_table", "exit_code")
          /\ at' \in [Tid -> Place] /\ loc' \in [Tid -> LocType] /\ \A u \in Tid : Local(at[u], loc[u])'
      BY <2>1, PassesType DEF ExitTable
    <2>3. proc' = [p \in Procs |-> r(p)]
      BY DEF ExitTable, TypeOK
    <2>4. ASSUME NEW p \in Procs
          PROVE  /\ r(p) \in ExecutorType /\ r(p).tasks = proc[p].tasks /\ r(p).modules = proc[p].modules
                 /\ r(p).parent = parent(p) /\ r(p).children = children(p) /\ r(p).main_task = proc[p].main_task
                 /\ r(p).zombie = proc[p].zombie /\ r(p).exit_code = proc[p].exit_code
      <3>1. proc[p] \in ExecutorType /\ Kernel \in Procs /\ orphans \in Seq(Pid) /\ proc[p].children \in Seq(Pid)
        BY Mine, FieldTypes DEF TypeOK, Procs
      <3>2. proc[p].children \o orphans \in Seq(Pid)
        BY <3>1, SMTT(60)
      <3>3. parent(p) \in Procs /\ children(p) \in Seq(Pid) /\ vfork(p) \in BOOLEAN
        BY <3>1, <3>2, FieldTypes
      <3> HIDE DEF parent, children, vfork
      <3> QED
        BY <3>1, <3>3 DEF ExecutorType
    <2> HIDE DEF r
    <2>5. proc' \in [Procs -> ExecutorType] /\ \A p \in Procs : proc'[p] = r(p)
      BY <2>3, <2>4
    <2>6. ASSUME NEW p \in Procs
          PROVE  SameLists(p) /\ SameMain(p) /\ SameEnd(p) /\ proc'[p].parent = parent(p) /\ proc'[p].children = children(p)
      <3> HIDE DEF parent, children
      <3> QED
        BY <2>4, <2>5 DEF SameLists, KeepModules, HasModule, SameMain, SameEnd
    <2>7. pid2pc' \subseteq Procs /\ Kernel \in pid2pc'
      BY Mine, ConstantsAssumption DEF TypeOK, ExitTable
    <2>8. TypeOK'
      BY <2>2, <2>5, <2>7 DEF TypeOK, ExitTable, history
    <2> QED
      BY <2>2, <2>6, <2>8 DEF ExitTableDoes, ExitTable, history
  <1>4. ASSUME ExitCode(t) PROVE TypeOK' /\ ExitCodeDoes(t)
    <2> USE <1>4
    <2> DEFINE p == P(t)
               r == [proc[p] EXCEPT !.exit_code = loc[t].code]
    <2>1. at[t] = "exit_code" /\ "exit_zombie" \in Place /\ Local("exit_zombie", loc[t])
      BY LocalFree DEF ExitCode, At, Free, Place, Live, Alone, Plain
    <2>2. p \in Procs /\ proc[p] \in ExecutorType /\ loc[t] \in LocType
      BY Mine
    <2>3. /\ Passes(t, "exit_code", "exit_zombie")
          /\ at' \in [Tid -> Place] /\ loc' \in [Tid -> LocType] /\ \A u \in Tid : Local(at[u], loc[u])'
      BY <2>1, PassesType DEF ExitCode
    <2>r. r = [proc[p] EXCEPT !.exit_code = loc[t].code] /\ proc' = [proc EXCEPT ![p] = r]
      BY DEF ExitCode
    <2>4. loc[t].code \in Int
      BY <2>2, LocFields
    <2> HIDE DEF r, p
    <2>5. /\ r \in ExecutorType
          /\ r.tasks = proc[p].tasks /\ r.modules = proc[p].modules /\ r.parent = proc[p].parent
          /\ r.children = proc[p].children /\ r.main_task = proc[p].main_task
          /\ r.zombie = proc[p].zombie /\ r.exit_code = loc[t].code
      BY <2>r, <2>2, <2>4 DEF ExecutorType
    <2>6. /\ proc' \in [Procs -> ExecutorType] /\ proc'[p] = r
          /\ \A q \in Procs : q /= p => proc'[q] = proc[q] /\ SameLists(q) /\ SameRest(q)
      BY <2>r, <2>2, <2>5, OneExecutor
    <2>7. proc'[p].exit_code = loc[t].code /\ proc'[p].zombie = proc[p].zombie /\ SameLists(p) /\ SameKin(p) /\ SameMain(p)
      BY <2>2, <2>4, <2>5, <2>6 DEF SameLists, KeepModules, HasModule, SameRest, SameKin, SameMain, SameEnd
    <2>8. \A q \in Procs : SameLists(q) /\ SameKin(q) /\ SameMain(q) /\ (q /= p => SameEnd(q))
      BY <2>6, <2>7 DEF SameLists, SameRest
    <2>9. TypeOK'
      BY <2>3, <2>6 DEF TypeOK, ExitCode, tables, history
    <2> QED
      BY <2>3, <2>7, <2>8, <2>9 DEF ExitCodeDoes, ExitCode, tables, history, p
  <1>5. ASSUME ExitZombie(t) PROVE TypeOK' /\ ExitZombieDoes(t)
    <2> USE <1>5
    <2> DEFINE p == P(t)
               r == [proc[p] EXCEPT !.zombie = TRUE]
    <2>1. at[t] = "exit_zombie" /\ "exit_done" \in Place /\ Local("exit_done", loc[t])
      BY LocalFree DEF ExitZombie, At, Free, Place, Live, Alone, Plain
    <2>2. p \in Procs /\ proc[p] \in ExecutorType /\ loc[t] \in LocType
      BY Mine
    <2>3. /\ Passes(t, "exit_zombie", "exit_done")
          /\ at' \in [Tid -> Place] /\ loc' \in [Tid -> LocType] /\ \A u \in Tid : Local(at[u], loc[u])'
      BY <2>1, PassesType DEF ExitZombie
    <2>r. r = [proc[p] EXCEPT !.zombie = TRUE] /\ proc' = [proc EXCEPT ![p] = r]
      BY DEF ExitZombie
    <2>4. TRUE \in BOOLEAN
      BY DEF P
    <2> HIDE DEF r, p
    <2>5. /\ r \in ExecutorType
          /\ r.tasks = proc[p].tasks /\ r.modules = proc[p].modules /\ r.parent = proc[p].parent
          /\ r.children = proc[p].children /\ r.main_task = proc[p].main_task /\ r.zombie = TRUE
          /\ r.exit_code = proc[p].exit_code
      BY <2>r, <2>2, <2>4 DEF ExecutorType
    <2>6. /\ proc' \in [Procs -> ExecutorType] /\ proc'[p] = r
          /\ \A q \in Procs : q /= p => proc'[q] = proc[q] /\ SameLists(q) /\ SameRest(q)
      BY <2>r, <2>2, <2>5, OneExecutor
    <2>7. proc'[p].zombie /\ proc'[p].exit_code = proc[p].exit_code /\ SameLists(p) /\ SameKin(p) /\ SameMain(p)
      BY <2>2, <2>4, <2>5, <2>6 DEF SameLists, KeepModules, HasModule, SameRest, SameKin, SameMain, SameEnd
    <2>8. \A q \in Procs : SameLists(q) /\ SameKin(q) /\ SameMain(q) /\ (q /= p => SameEnd(q))
      BY <2>6, <2>7 DEF SameLists, SameRest
    <2>9. TypeOK'
      BY <2>3, <2>6 DEF TypeOK, ExitZombie, tables, history
    <2> QED
      BY <2>3, <2>7, <2>8, <2>9 DEF ExitZombieDoes, ExitZombie, tables, history, p
  <1>6. ASSUME ExitDone(t) PROVE TypeOK' /\ ExitDoneDoes(t)
    <2> USE <1>6
    <2>1. at[t] = "exit_done" /\ "gone" \in Place /\ Local("gone", NoLoc) /\ NoLoc \in LocType
      BY LocalFree, NoLocType DEF ExitDone, At, Free, Place
    <2>2. Moves(t, "gone", NoLoc)
      BY DEF ExitDone, Moves, Goto
    <2>3. /\ at' \in [Tid -> Place] /\ loc' \in [Tid -> LocType] /\ \A u \in Tid : Local(at[u], loc[u])'
          /\ at'[t] = "gone" /\ loc'[t] = NoLoc /\ Others(t)
      BY <2>1, <2>2, MovesType
    <2>4. on' \subseteq Tid /\ task' \in [Tid -> [pid : Pid, leader : BOOLEAN, exited : BOOLEAN]]
      BY DEF ExitDone, TypeOK
    <2>5. TypeOK'
      BY <2>3, <2>4 DEF TypeOK, ExitDone, tables, history
    <2> QED
      BY <2>1, <2>3, <2>5 DEF ExitDoneDoes, ExitDone, tables, history
  <1> QED
    BY <1>1, <1>2, <1>3, <1>4, <1>5, <1>6
       DEF Does, ExitDoes

\* wait_pid
LEMMA WaitStepDoes ==
  ASSUME TypeOK, Threads, NEW t \in Tid, UNCHANGED <<cpus, calls>>, WaitScan(t) \/ WaitRemove(t)
  PROVE  TypeOK' /\ Does(t)
  <1>1. ASSUME WaitScan(t), at'[t] /= "wait_remove" PROVE Quiet(t)
    <2> USE <1>1
    <2>1. at[t] \in Plain /\ on' \subseteq Tid
      BY DEF WaitScan, YieldNow, At, Plain, TypeOK
    <2>2. CASE Goto(t, "wait_remove")
      BY <2>2 DEF Goto, TypeOK
    <2>3. CASE Return(t) \/ (YieldNow(t) /\ UNCHANGED loc)
      <3>1. \E b, l : Moves(t, b, l) /\ QuietTo(t, b, l)
        BY <2>1, <2>3, Stays, Returns DEF YieldNow
      <3> QED
        BY <2>1, <3>1, QuietSame DEF Quiet, WaitScan, tables, history
    <2> QED
      BY <2>2, <2>3 DEF WaitScan
  <1>2. ASSUME WaitScan(t), at'[t] = "wait_remove" PROVE TypeOK' /\ WaitScanDoes(t)
    <2> USE <1>2
    <2> DEFINE kids == proc[P(t)].children
    <2>1. at[t] = "wait" /\ loc[t] \in LocType /\ Local(at[t], loc[t]) /\ at \in [Tid -> Place]
      BY Mine DEF WaitScan, At, TypeOK
    <2>2. PICK i \in Zombies(t) :
            /\ loc' = [loc EXCEPT ![t] = [@ EXCEPT !.tid = i, !.pid = kids[i], !.code = proc[kids[i]].exit_code]]
            /\ Goto(t, "wait_remove") /\ UNCHANGED on
      BY <2>1 DEF WaitScan, Return, Goto, YieldNow
    <2> DEFINE l == [loc[t] EXCEPT !.tid = i, !.pid = kids[i], !.code = proc[kids[i]].exit_code]
    <2>3. i \in DOMAIN kids /\ proc[kids[i]].zombie /\ kids \in Seq(Pid)
      BY <2>2, Mine, FieldTypes DEF Zombies, Wanted
    <2>4. i \in Nat /\ kids[i] \in Pid
      BY <2>3, SMTT(60)
    <2>5. kids[i] \in Procs /\ proc[kids[i]].exit_code \in Int
      BY <2>4, FieldTypes DEF Procs, TypeOK
    <2> HIDE DEF kids
    <2>6. l \in LocType /\ l.tid = i /\ l.pid = kids[i] /\ l.code = proc[kids[i]].exit_code
      BY <2>1, <2>4, <2>5 DEF LocType
    <2>7. loc' = [loc EXCEPT ![t] = l]
      BY <2>2
    <2> HIDE DEF l
    <2>8. Moves(t, "wait_remove", l) /\ "wait_remove" \in Place /\ Local("wait_remove", l)
      BY <2>1, <2>2, <2>4, <2>6, <2>7 DEF Moves, Goto, Place, Live, Plain, Local, Clone
    <2>9. /\ at' \in [Tid -> Place] /\ loc' \in [Tid -> LocType] /\ \A u \in Tid : Local(at[u], loc[u])'
          /\ loc'[t] = l /\ Others(t)
      BY <2>6, <2>8, MovesType
    <2>10. TypeOK'
      BY <2>2, <2>9 DEF TypeOK, WaitScan, tables, history
    <2> QED
      BY <2>1, <2>3, <2>4, <2>6, <2>9, <2>10 DEF WaitScanDoes, WaitScan, tables, history, kids
  <1>3. ASSUME WaitRemove(t) PROVE (TypeOK' /\ WaitRemoveDoes(t)) \/ Quiet(t)
    <2> USE <1>3
    <2> DEFINE p == P(t)
               i == loc[t].tid
               kids == proc[p].children
               rest == SubSeq(kids, 1, i - 1) \o SubSeq(kids, i + 1, Len(kids))
               report == [by |-> p, pid |-> loc[t].pid, code |-> loc[t].code]
               r == [proc[p] EXCEPT !.children = rest]
    <2>1. CASE Panic("wait_pid: no such child")
      BY <2>1, PanicQuiet
    <2>2. CASE /\ i \in DOMAIN kids
               /\ proc' = [proc EXCEPT ![p].children = rest]
               /\ reaped' = Append(reaped, report)
               /\ Return(t)
               /\ UNCHANGED <<on, tables, task, handlers, panicked, ended>>
      <3>1. at[t] = "wait_remove" /\ loc[t].pid \in Pid /\ loc[t].code \in Int
        BY Mine, LocFields DEF WaitRemove, At, Local
      <3>2. p \in Pid /\ p \in Procs /\ proc[p] \in ExecutorType /\ kids \in Seq(Pid)
        BY Mine, FieldTypes
      <3>3. rest \in Seq(Pid)
        <4> HIDE DEF kids, i
        <4> QED
          BY <2>2, <3>2, SMTT(60)
      <3>r. r = [proc[p] EXCEPT !.children = rest] /\ proc' = [proc EXCEPT ![p] = r]
        BY <2>2
      <3> HIDE DEF r, rest
      <3>4. /\ r \in ExecutorType /\ r.tasks = proc[p].tasks /\ r.modules = proc[p].modules
            /\ r.parent = proc[p].parent /\ r.children = rest /\ r.main_task = proc[p].main_task
            /\ r.zombie = proc[p].zombie /\ r.exit_code = proc[p].exit_code
        BY <3>r, <3>2, <3>3 DEF ExecutorType
      <3>5. /\ proc' \in [Procs -> ExecutorType] /\ proc'[p] = r
            /\ \A q \in Procs : q /= p => proc'[q] = proc[q] /\ SameLists(q) /\ SameRest(q)
        BY <3>r, <3>2, <3>4, OneExecutor
      <3> HIDE DEF p
      <3>6. SameLists(p) /\ SameMain(p) /\ SameEnd(p)
        BY <3>4, <3>5 DEF SameLists, KeepModules, HasModule, SameMain, SameEnd
      <3>7. \A q \in Procs : SameLists(q) /\ SameMain(q) /\ SameEnd(q) /\ (q /= p => SameKin(q))
        BY <3>5, <3>6 DEF SameRest
      <3>8. reaped' \in Seq([by : Pid, pid : Pid, code : Int])
        <4>1. report \in [by : Pid, pid : Pid, code : Int]
          BY <3>1, <3>2
        <4> HIDE DEF report
        <4> QED
          BY <2>2, <4>1, SMTT(60) DEF TypeOK
      <3>9. Moves(t, "signals", NoLoc) /\ "signals" \in Place /\ Local("signals", NoLoc)
        BY <2>2, NoLocType DEF Return, Moves, Goto, Place, Live, Plain, Local, Clone
      <3>10. /\ at' \in [Tid -> Place] /\ loc' \in [Tid -> LocType] /\ \A u \in Tid : Local(at[u], loc[u])'
             /\ at'[t] = "signals" /\ loc'[t] = NoLoc /\ Others(t)
        BY <3>9, NoLocType, MovesType
      <3>11. TypeOK'
        BY <2>2, <3>5, <3>8, <3>10 DEF TypeOK, tables
      <3> QED
        BY <2>2, <3>1, <3>4, <3>5, <3>7, <3>10, <3>11 DEF WaitRemoveDoes, tables, p, rest
    <2> QED
      BY <2>1, <2>2 DEF WaitRemove
  <1> QED
    BY <1>1, <1>2, <1>3, QuietEffect DEF Does, WaitDoes

\* The signal code.
LEMMA SignalStepDoes ==
  ASSUME TypeOK, Threads, NEW t \in Tid, UNCHANGED <<cpus, calls>>, SendFind(t) \/ SendPut(t) \/ SuspendLoop(t) \/ HandleSignals(t)
  PROVE  TypeOK' /\ Does(t)
  <1>1. ASSUME SendFind(t) \/ SendPut(t) PROVE Quiet(t)
    <2> USE <1>1
    <2> DEFINE l == loc[t]
    <2>1. /\ l \in LocType /\ at[t] \in {"send", "send_put"} /\ at[t] \in Plain /\ Local(at[t], l)
          /\ l.pid \in Procs /\ proc[l.pid] \in ExecutorType
      BY Mine DEF SendFind, SendPut, At, Plain, Local, TypeOK
    <2>2. /\ l.after \in Plain \ {"wait_remove"} /\ (l.after = "signals" => ~l.must) /\ l.sig \in SignalNo
          /\ Told(l.after, l) => Told(at[t], l)
      BY <2>1 DEF Local, Plain, Told
    <2>3. Local(l.after, l)
      BY <2>1, <2>2 DEF Local, Plain, Clone
    <2>4. CASE Goto(t, l.after) /\ UNCHANGED <<on, tables, proc, task, handlers, loc, panicked, history>>
      <3>1. Moves(t, l.after, l) /\ on' \subseteq Tid
        BY <2>4 DEF Moves, Goto, TypeOK
      <3>2. QuietTo(t, l.after, l)
        BY <2>1, <2>2, <2>3 DEF QuietTo
      <3> QED
        BY <2>4, <3>1, <3>2, QuietSame DEF Quiet, tables, history
    <2>5. CASE \E why : Panic(why)
      BY <2>5, PanicQuiet
    <2>6. CASE /\ at[t] = "send" /\ proc[l.pid].main_task /= None
               /\ loc' = [loc EXCEPT ![t].tid = proc[l.pid].main_task] /\ Goto(t, "send_put")
               /\ UNCHANGED <<on, pid2pc, tid2task, proc, task, handlers, panicked, history>>
      <3> DEFINE k == [l EXCEPT !.tid = proc[l.pid].main_task]
      <3>1. proc[l.pid].main_task \in Tid /\ Tid \subseteq Nat
        BY <2>1, <2>6, FieldTypes, ConstantsAssumption
      <3>2. k \in LocType /\ k.pid = l.pid /\ k.sig = l.sig /\ k.after = l.after /\ k.must = l.must /\ k.tid \in Tid
            /\ k.code = l.code
        BY <2>1, <3>1 DEF LocType
      <3>3. Moves(t, "send_put", k) /\ on' \subseteq Tid
        BY <2>6 DEF Moves, Goto, TypeOK
      <3> HIDE DEF k
      <3>4. Local("send_put", k) /\ (Told("send_put", k) => Told(at[t], l))
        BY <2>1, <3>2 DEF Local, Plain, Clone, Told
      <3>5. QuietTo(t, "send_put", k)
        BY <2>1, <3>2, <3>4 DEF QuietTo, Plain
      <3> QED
        BY <2>6, <3>3, <3>5, QuietSame DEF Quiet, history
    <2>7. CASE /\ at[t] = "send_put" /\ proc[l.pid].modules[l.tid] /= None
               /\ proc' = [proc EXCEPT ![l.pid] = Pend(@, {l.tid}, l.sig)]
               /\ Goto(t, l.after) /\ loc' = [loc EXCEPT ![t] = [NoLoc EXCEPT !.code = l.code]]
               /\ UNCHANGED <<on, pid2pc, tid2task, task, handlers, panicked, history>>
      <3> DEFINE k == [NoLoc EXCEPT !.code = l.code]
      <3>1. l.tid \in Tid /\ l.code \in Int
        BY <2>1, <2>7, LocFields DEF Local
      <3>2. k \in LocType /\ ~k.must /\ k.code = l.code
        BY <3>1, NoLocType DEF NoLoc
      <3>3. HasModule(l.pid, l.tid)
        BY <2>1, <2>7, <3>1, FieldTypes DEF HasModule
      <3>4. QuietProc
        <4>1. {l.tid} \in SUBSET Tid /\ \A u \in {l.tid} : HasModule(l.pid, u)
          BY <3>1, <3>3
        <4> QED
          BY <2>1, <2>2, <2>7, <4>1, QuietPend
      <3>5. Moves(t, l.after, k) /\ on' \subseteq Tid
        BY <2>7 DEF Moves, Goto, TypeOK
      <3> HIDE DEF k
      <3>6. l.after \in {"exit_tasks", "signals", "exit"}
        BY <2>1 DEF Local
      <3>7. Local(l.after, k) /\ (Told(l.after, k) => Told(at[t], l))
        BY <2>1, <3>2, <3>6 DEF Local, Plain, Clone, Told
      <3>8. QuietTo(t, l.after, k)
        BY <2>1, <2>2, <3>2, <3>7 DEF QuietTo
      <3> QED
        BY <2>7, <3>4, <3>5, <3>8 DEF Quiet, history
    <2> HIDE DEF l
    <2> QED
      BY <2>4, <2>5, <2>6, <2>7 DEF SendFind, SendPut, At, l
  <1>2. ASSUME SuspendLoop(t) PROVE Quiet(t)
    <2> USE <1>2
    <2>1. at[t] \in Plain /\ on' \subseteq Tid
      BY DEF SuspendLoop, YieldNow, At, Plain, TypeOK
    <2>2. \E b, l : Moves(t, b, l) /\ QuietTo(t, b, l)
      BY <2>1, Stays, Returns DEF SuspendLoop, YieldNow
    <2> QED
      BY <2>1, <2>2, QuietSame DEF Quiet, SuspendLoop, tables, history
  <1>3. ASSUME HandleSignals(t) PROVE Quiet(t)
    <2> USE <1>3
    <2> DEFINE m == MyModule(t)
               s == find_signal(m)
               l == loc[t]
    <2>1. at[t] = "signals" /\ at[t] \in Plain /\ l \in LocType /\ ~l.must /\ P(t) \in Procs
      BY Mine DEF HandleSignals, At, Plain, Local
    <2>2. m \in Module /\ s \in SignalNo \cup {None}
      BY <2>1, MyModuleType, FindSignal
    <2>3. \A f \in BOOLEAN : Taken(m, s, f) \in Module
      BY <2>2 DEF Taken, Module
    <2>4. CASE \E why : Panic(why)
      BY <2>4, PanicQuiet
    <2>5. ASSUME UNCHANGED proc \/ \E f \in BOOLEAN : SetMine(t, Taken(m, s, f)) PROVE QuietProc
      BY <2>1, <2>3, <2>5, QuietSame, OwnModule
    <2>6. -1 \in Int /\ SignalNo \subseteq Int /\ "signals" \in Plain
      BY SMTT(60) DEF SignalNo, SIGKILL, SIGUSR1, SIGSEGV, SIGCHLD, Plain
    <2>7. ASSUME Goto(t, "user") /\ UNCHANGED loc PROVE \E b, k : Moves(t, b, k) /\ QuietTo(t, b, k)
      <3>1. Local("user", l) /\ ~Told("user", l) /\ "user" \in Plain \ {"wait_remove"}
        BY <2>1 DEF Local, Told, Plain, Clone
      <3>2. loc' = [loc EXCEPT ![t] = l]
        BY <2>7 DEF TypeOK
      <3> QED
        BY <2>1, <2>7, <3>1, <3>2, Gets
    <2>8. ASSUME NEW c \in Int, Goto(t, "exit"), loc' = [loc EXCEPT ![t].code = c]
          PROVE  \E b, k : Moves(t, b, k) /\ QuietTo(t, b, k)
      <3> DEFINE k == [l EXCEPT !.code = c]
      <3>1. k \in LocType
        BY <2>1 DEF LocType
      <3>2. loc' = [loc EXCEPT ![t] = k]
        BY <2>8
      <3> HIDE DEF k
      <3>3. Local("exit", k) /\ ~Told("exit", k) /\ "exit" \in Plain \ {"wait_remove"}
        BY DEF Local, Told, Plain, Clone
      <3> QED
        BY <2>1, <2>8, <3>1, <3>2, <3>3, Gets
    <2>9. ASSUME s /= None, Goto(t, "send"),
                 loc' = [loc EXCEPT ![t] = [@ EXCEPT !.pid = P(t), !.sig = s, !.must = TRUE, !.after = "exit", !.code = -1]]
          PROVE  \E b, k : Moves(t, b, k) /\ QuietTo(t, b, k)
      <3> HIDE DEF s
      <3> DEFINE k == [l EXCEPT !.pid = P(t), !.sig = s, !.must = TRUE, !.after = "exit", !.code = -1]
      <3>1. k \in LocType /\ k.pid \in Procs /\ k.sig \in SignalNo /\ k.after = "exit"
        BY <2>1, <2>2, <2>6, <2>9 DEF LocType
      <3>2. loc' = [loc EXCEPT ![t] = k]
        BY <2>9
      <3> HIDE DEF k
      <3>3. Local("send", k) /\ ~Told("send", k) /\ "send" \in Plain \ {"wait_remove"}
        BY <3>1 DEF Local, Told, Plain, Clone
      <3> QED
        BY <2>1, <2>9, <3>1, <3>2, <3>3, Gets
    <2>10. CASE /\ UNCHANGED proc \/ \E f \in BOOLEAN : SetMine(t, Taken(m, s, f))
                /\ \E b, k : Moves(t, b, k) /\ QuietTo(t, b, k)
                /\ UNCHANGED <<on, tables, task, handlers, panicked, history>>
      <3>1. on' \subseteq Tid
        BY <2>10 DEF TypeOK
      <3> QED
        BY <2>5, <2>10, <3>1 DEF Quiet, tables, history
    <2>11. ASSUME s /= None, Terminate(t, s) PROVE \E b, k : Moves(t, b, k) /\ QuietTo(t, b, k)
      <3> HIDE DEF s
      <3> QED
        BY <2>2, <2>6, <2>8, <2>9, <2>11 DEF Terminate
    <2> HIDE DEF m, s, l
    <2> QED
      BY <2>4, <2>6, <2>7, <2>8, <2>10, <2>11 DEF HandleSignals, m, s
  <1> QED
    BY <1>1, <1>2, <1>3, QuietEffect DEF Does

Step(t) == Schedule(t) \/ (\E over \in BOOLEAN : Trap(t, over)) \/ UserCall(t) \/ KernelStep(t)

\* Every step keeps the type invariant and does what its predicate says.
LEMMA StepDoes ==
  ASSUME TypeOK, Threads, NEW t \in Tid, UNCHANGED <<cpus, calls>>, Step(t)
  PROVE  TypeOK' /\ Does(t)
  <1>1. ASSUME Schedule(t) PROVE Quiet(t)
    <2> USE <1>1
    <2>1. on' \subseteq Tid
      BY DEF Schedule, TypeOK
    <2> QED
      BY <2>1, Stays, QuietSame DEF Quiet, Schedule, tables, history
  <1>2. ASSUME NEW over \in BOOLEAN, Trap(t, over) PROVE Quiet(t)
    <2> USE <1>2
    <2>1. at[t] = "user" /\ at[t] \in Plain /\ loc[t] \in LocType /\ ~loc[t].must
      BY Mine DEF Trap, At, Plain, Local
    <2>2. Local("signals", loc[t]) /\ ~Told("signals", loc[t]) /\ "signals" \in Plain \ {"wait_remove"}
      BY <2>1 DEF Local, Told, Plain, Clone
    <2>3. Goto(t, "signals") /\ loc' = [loc EXCEPT ![t] = loc[t]]
      BY DEF Trap, TypeOK
    <2>4. on' \subseteq Tid
      BY DEF Trap, TypeOK
    <2> QED
      BY <2>1, <2>2, <2>3, <2>4, Gets, QuietSame DEF Quiet, Trap, tables, history
  <1>kernel. CASE KernelStep(t)
    BY <1>kernel, CloneStepDoes, LeaveStepDoes, ExitStepDoes, WaitStepDoes, SignalStepDoes DEF KernelStep
  <1> QED
    BY <1>1, <1>2, <1>kernel, UserCallDoes, QuietEffect DEF Step, Does

\* Every step keeps the inductive invariant.
LEMMA NextIInv == IInv /\ [Next]_vars => IInv'
  <1> SUFFICES ASSUME IInv, [Next]_vars PROVE IInv'
    OBVIOUS
  <1>1. CASE UNCHANGED vars
    <2>1. 1 \in Tid
      BY ConstantsAssumption
    <2>2. Quiet(1)
      <3>1. on' \subseteq Tid /\ UNCHANGED <<cpus, calls, pid2pc, tid2task, task, ended, reaped>>
        BY <1>1 DEF vars, tables, history, IInv, TypeOK
      <3>2. QuietProc /\ \E b, l : Moves(1, b, l) /\ QuietTo(1, b, l)
        BY <1>1, <2>1, Stays, QuietSame DEF vars, IInv
      <3> QED
        BY <3>1, <3>2 DEF Quiet
    <2> QED
      BY <2>1, <2>2, QuietEffect, DoesIInv DEF Does, IInv
  <1>2. CASE Next
    <2>1. PICK t \in Tid : Step(t)
      BY <1>2 DEF Next, Step
    <2>2. UNCHANGED <<cpus, calls>>
      BY <1>2 DEF Next, Alive
    <2> QED
      BY <2>1, <2>2, StepDoes, DoesIInv DEF IInv
  <1> QED
    BY <1>1, <1>2

\* The inductive invariant holds of every behaviour.
LEMMA ProcessSafe == Spec => []IInv
  <1>1. Init => IInv
    BY InitIInv DEF IInv
  <1> QED
    BY <1>1, NextIInv, PTL DEF Spec

\* exit: once a process is a zombie none of its threads runs again, whatever the number of CPUs,
\* because the leader waits for the others and no thread is started in a process that has only it.
THEOREM ZombieIsDead == Spec => []ThreadsGone
  <1>1. IInv => ThreadsGone
    <2> SUFFICES ASSUME IInv, NEW t \in Tid, proc[P(t)].zombie
                 PROVE  at[t] \in {"unborn", "made", "gone", "exit_done"}
      BY DEF ThreadsGone
    <2>1. at[t] \in Place /\ at[t] \notin Live
      BY Mine DEF IInv, Threads, Listed
    <2> QED
      BY <2>1 DEF Place
  <1> QED
    BY <1>1, ProcessSafe, PTL

\* wait4: every report is the code with which the leader of that child called exit, and without
\* threads no child is reported twice, although wait_pid gives up the lock between its two looks
\* at the list of children.
THEOREM WaitIsRight == Spec => []WaitReports
  <1>1. IInv => WaitReports
    <2>1. IInv => \A i \in DOMAIN reaped : reaped[i].code = ended[reaped[i].pid]
      BY DEF IInv, Codes
    <2>2. IInv => ("thread" \notin calls => \A i, j \in DOMAIN reaped : reaped[i].pid = reaped[j].pid => i = j)
      BY DEF IInv, NoRace, Family
    <2> QED
      BY <2>1, <2>2 DEF WaitReports
  <1> QED
    BY <1>1, ProcessSafe, PTL

\* A process that was not waited for is a child of a process that is in PID2PC, its parent.
HasParent ==
  \A p \in Pid : Created(p) /\ ~Reaped(p) =>
    /\ proc[p].parent \in pid2pc
    /\ p \in Range(proc[proc[p].parent].children)

\* clone, exit and wait4 keep parents and children in step: no orphan is lost, unless two threads of
\* one process may be in wait4 at the same time.
THEOREM NoLostOrphan == Spec => [](NoRace => HasParent)
  <1>1. IInv => (NoRace => HasParent)
    <2> SUFFICES ASSUME IInv, NoRace, NEW p \in Pid, Created(p), ~Reaped(p)
                 PROVE  proc[p].parent \in pid2pc /\ p \in Range(proc[proc[p].parent].children)
      BY DEF HasParent
    <2>1. proc[p].parent \in pid2pc /\ Child(proc[p].parent, p)
      BY DEF IInv, Family, Known
    <2> QED
      BY <2>1 DEF Child, Has, Range
  <1> QED
    BY <1>1, ProcessSafe, PTL
=============================================================================
