------------------------------ MODULE MCFiles ------------------------------
(***************************************************************************)
(* Instances of the calls on descriptors and of the calls on names.  A     *)
(* behaviour runs one of them, `part`; the other stays as it was           *)
(* initialised.                                                            *)
(***************************************************************************)
EXTENDS Files

CONSTANTS Parts

VARIABLES
  part,
  tree, mounts, link_path, link_count, inodes, MOUNTED, cwd, fds, name_call, name_todo, name_ret, panicked

nameVars == <<tree, mounts, link_path, link_count, inodes, MOUNTED, cwd, fds, name_call, name_todo, name_ret, panicked>>

----------------------------------------------------------------------------
(* Programs on descriptors. *)

rd(fd, k) == [op |-> "read", fd |-> fd, n |-> k]
wr(fd, bytes) == [op |-> "write", fd |-> fd, bytes |-> bytes]
cl(fd) == [op |-> "close", fd |-> fd]
pipe(flags) == [op |-> "pipe2", flags |-> flags]
forks(program) == [op |-> "fork", child |-> 2, program |-> program]
poll(op, xs, ev, flags) == [op |-> op, fds |-> xs, events |-> ev, flags |-> flags]
event(k, flags) == [op |-> "eventfd", n |-> k, flags |-> flags]
ctl(op, fd, ev) == [op |-> "epoll_ctl", epfd |-> 4, ctl |-> op, fd |-> fd, events |-> ev]
wait(flags) == [op |-> "epoll_wait", epfd |-> 4, flags |-> flags]
fd(op, x, flags) == [op |-> op, fd |-> x, flags |-> flags]
dup_to(x, y, flags) == [op |-> "dup3", fd |-> x, fd2 |-> y, flags |-> flags]
at(op, x, k, o, bytes) == [op |-> op, fd |-> x, n |-> k, off |-> o, bytes |-> bytes]
copy(op, x, y, k, o, flags) == [op |-> op, fd |-> x, fd2 |-> y, n |-> k, off |-> o, flags |-> flags]
seek(x, k, w) == [op |-> "lseek", fd |-> x, n |-> k, whence |-> w]
trunc(x, k) == [op |-> "ftruncate64", fd |-> x, n |-> k]

\* A pipe has the descriptors 2 and 3.  The parent writes, or reads.
Writer == {
  <<wr(3, <<1, 2, 3>>), wr(3, <<4>>), wr(3, <<5>>)>>,
  <<wr(3, <<1>>), [op |-> "writev", fd |-> 3, bytes |-> <<2, 3>>], cl(3)>>,
  <<wr(3, <<1>>), copy("sendfile64", 1, 3, 2, 1, {"offset"})>> }

Reader == {
  <<rd(2, 2), rd(2, 1), rd(2, 3)>>,
  <<poll("ppoll", <<2>>, {"in"}, {}), rd(2, 1), poll("pselect6", <<2>>, {"in"}, {"timeout"}), rd(2, 2)>>,
  <<[op |-> "readv", fd |-> 2, n |-> 2], cl(2)>>,
  <<[op |-> "epoll_create1"], ctl("add", 2, {"in"}), wait({}), rd(2, 2), wait({"timeout"})>> }

Between(flags, parent, child, shut, keep) == <<pipe(flags), forks(<<cl(keep)>> \o child), cl(shut)>> \o parent

Pipes ==
  {Between(flags, w, r, 2, 3) : flags \in {{}, {"nonblock"}}, w \in Writer, r \in Reader}
  \cup {Between({}, r, w, 3, 2) : w \in Writer, r \in Reader}

Counters == {
  <<event(1, {"nonblock"}), forks(<<wr(2, <<1>>), rd(2, 8), wr(2, <<2>>)>>), wr(2, <<2>>), rd(2, 8), wr(2, <<3>>)>>,
  <<event(0, {"nonblock"}), forks(<<poll("ppoll", <<2>>, {"in", "out"}, {}), rd(2, 8)>>), wr(2, <<1>>), wr(2, <<1>>)>>,
  <<event(2, {"semaphore", "nonblock"}), forks(<<rd(2, 8)>>), rd(2, 8), wr(2, <<1>>)>> }

\* The table of one process, and its regular file.
Tables == {
  <<pipe({}), fd("dup", 2, {"cloexec"}), fd("dup", 1, {}), fd("dup", 1, {}), cl(2), pipe({}), fd("exec", 0, {}), rd(4, 1)>>,
  <<pipe({}), dup_to(3, 1, {"cloexec"}), dup_to(3, 3, {}), dup_to(3, 9, {}), dup_to(9, 1, {}), wr(1, <<1>>), fd("setfd", 1, {}),
    fd("exec", 0, {}), rd(2, 1)>>,
  <<pipe({}), fd("fionbio", 3, {}), fd("setfl", 3, {}), fd("setfd", 8, {"cloexec"}), wr(3, <<1, 2, 3>>), wr(3, <<4>>),
    ctl("add", 2, {}), [op |-> "epoll_create1"], ctl("del", 2, {}), ctl("add", 2, {"in"}), ctl("mod", 2, {"out"}),
    wait({"timeout"}), ctl("del", 2, {}), cl(2), ctl("add", 2, {}), wait({"timeout"})>>,
  <<at("pwrite64", 1, 0, 3, <<5>>), at("pread64", 1, 2, 2, <<>>), rd(1, 1), seek(1, 1, "end"), wr(1, <<9>>), trunc(1, 1),
    seek(1, -9, "cur"), seek(1, 0, "set"), rd(1, 2)>>,
  <<forks(<<rd(1, 1), rd(1, 1)>>), rd(1, 1), seek(1, 0, "set"), wr(1, <<3>>)>>,
  <<pipe({}), seek(2, 0, "set"), trunc(2, 0), rd(3, 1), wr(2, <<1>>), cl(7), fd("dup", 7, {}), poll("pselect6", <<7>>, {"in"}, {}),
    copy("copyfilerange", 1, 1, 1, 1, {}), copy("sendfile64", 1, 3, 1, 0, {}), event(0, {}), event(0, {})>> }

MCAll == {[t \in Tasks |-> IF t = 1 THEN p ELSE <<>>] : p \in Pipes \cup Counters \cup Tables}
MCProcessOf == [t \in Tasks |-> IF t = 2 THEN 2 ELSE 1]

----------------------------------------------------------------------------
(* Programs on names. *)

NameTasks == {1, 2}
Empty == <<"">>
AT_FDCWD == 0

a == <<"", "a">>
b == <<"", "b">>
d == <<"", "d", "">>
x == <<"", "tmp", "x">>
e == <<"", "tmp", "e", "">>

Call(op, path, flags) == [op |-> op, dir_fd |-> AT_FDCWD, path |-> path, path2 |-> Empty, flags |-> flags]
CallAt(op, dir, path, flags) == [Call(op, path, flags) EXCEPT !.dir_fd = dir]
Call2(op, path, path2, flags) == [Call(op, path, flags) EXCEPT !.path2 = path2]

make == {"create"}

\* Files, links and their counts.
Linking == {
  <<Call("openat", a, make), Call2("linkat", a, b, {}), Call("unlinkat", a, {})>>,
  <<Call("openat", b, make), Call2("linkat", b, a, {}), Call("fstatat", b, {})>>,
  <<Call("openat", b, make), Call("readlinkat", a, {}), Call("unlinkat", b, {})>>,
  <<Call("openat", a, {"create", "excl"}), Call("utimensat", a, {})>> }

\* Directories, of fatfs and of ramfs.
Directories == {
  <<Call("openat", e, {}), CallAt("openat", 1, <<"f">>, make), Call("unlinkat", <<"", "tmp", "e">>, {"removedir"})>>,
  <<Call("openat", e, {}), Call("unlinkat", e, {"removedir"}), CallAt("fstatat", 1, Empty, {})>>,
  <<Call("mkdirat", <<"", "tmp", "e">>, {}), Call("fstatat", e, {}), Call("unlinkat", e, {"removedir"})>>,
  <<Call("openat", e, {}), CallAt("getdents64", 1, Empty, {}), Call("unlinkat", e, {"removedir"})>>,
  <<Call("chdir", <<"", "d", "..", ".">>, {}), Call("openat", <<"a">>, make), Call("faccessat", <<".", "a">>, {})>>,
  <<Call2("mount", <<"", "dev", "sda">>, <<"", "tmp", "e">>, {"vfat"}), Call("umount", e, {})>> }

\* Renaming and mounting.
Renaming == {
  <<Call("openat", d, {}), Call("chdir", <<"", "d">>, {}), Call("openat", <<"a">>, make)>>,
  <<Call("openat", a, make), Call2("renameat2", a, b, {})>>,
  <<Call("openat", b, make), Call2("renameat2", a, b, {})>>,
  <<Call("openat", d, {}), Call2("renameat2", d, <<"", "g", "">>, {"noreplace"})>>,
  <<Call("openat", d, {}), Call2("renameat2", a, <<"", "d", "a">>, {}), Call("unlinkat", d, {"removedir"})>>,
  <<Call2("mount", <<"", "dev", "sda">>, <<"", "d">>, {"vfat"}), Call("umount", d, {})>> }

NamePrograms == [NameTasks -> Linking] \cup [NameTasks -> Directories] \cup [NameTasks -> Renaming]

FN ==
  INSTANCE FileNames
  WITH Tasks <- NameTasks, Programs <- NamePrograms, call <- name_call, todo <- name_todo, ret <- name_ret

----------------------------------------------------------------------------
MCInit ==
  /\ part \in Parts
  /\ IF part = "files" THEN Init ELSE Start([t \in Tasks |-> <<>>])
  /\ IF part = "names" THEN FN!Init ELSE FN!Start([t \in NameTasks |-> <<>>])

MCNext ==
  \/ part = "files" /\ Next /\ UNCHANGED <<part, nameVars>>
  \/ part = "names" /\ FN!Next /\ UNCHANGED <<part, vars>>

MCFairness ==
  /\ \A t \in Tasks : WF_vars(part = "files" /\ Step(t))
  /\ \A p \in Processes : WF_vars(part = "files" /\ Exit(p))

MCSpec == MCInit /\ [][MCNext]_<<part, vars, nameVars>> /\ MCFairness

----------------------------------------------------------------------------
(* Properties. *)

\* No file is taken for unused while a name leads to it, and the assertions of link.rs and mount.rs hold.
LinksCounted == FN!LinksCounted

============================================================================
