----------------------------- MODULE FileNames -----------------------------
(***************************************************************************)
(* The system calls on names of modules/syscall/src/syscall_fs, on the     *)
(* links of modules/executor/src/link.rs and the tree of Vfs, made by      *)
(* several processes at once.                                              *)
(*                                                                         *)
(* A call is a sequence of steps, one for each lock that it takes or each  *)
(* look at the tree: what it has found out at one step may no longer hold  *)
(* at the next.  ramfs keeps the directories above locked while it makes   *)
(* or removes a name, so a walk and what is done at its end are one step,  *)
(* but create_node looks for the name and puts it in under two locks.      *)
(*                                                                         *)
(* Paths are as in Vfs.  A name never ends with a dot, and none is under   *)
(* the two directories of gcc that real_path renames.                      *)
(***************************************************************************)
EXTENDS Vfs

CONSTANTS
  Tasks,      \* the processes
  Programs    \* what they do: functions from Tasks to sequences of calls

VARIABLES
  tree,        \* the nodes of all file systems
  mounts,      \* where they are mounted: ROOT_DIR
  link_path,   \* LINK_PATH_MAP
  link_count,  \* LINK_COUNT_MAP
  inodes,      \* INODE_NAME_MAP: the path of the i-th inode
  MOUNTED,     \* the file systems mounted by mount
  cwd, fds,    \* per process: working directory, open files
  call,        \* per process: the call that is being served
  todo,        \* per process: the calls to come
  ret,         \* per process: what the last call returned
  panicked     \* where the kernel panicked, "" if it did not

vars == <<tree, mounts, link_path, link_count, inodes, MOUNTED, cwd, fds, call, todo, ret, panicked>>

AT_FDCWD == 0
Empty == <<"">>
Root == <<"", "">>
NoCall == [op |-> "none", pc |-> "none", p |-> Empty, q |-> Empty, flags |-> {}]
None == [x \in {} |-> x]

Start(program) ==
  /\ \E root \in {init_rootfs} : tree = root.tree /\ mounts = root.mounts
  /\ link_path = None /\ link_count = None
  /\ inodes = <<>> /\ MOUNTED = <<>>
  /\ cwd = [t \in Tasks |-> Root]
  /\ fds = [t \in Tasks |-> <<>>]
  /\ call = [t \in Tasks |-> NoCall]
  /\ todo = program
  /\ ret = [t \in Tasks |-> "none"]
  /\ panicked = ""

Init == \E program \in Programs : Start(program)

----------------------------------------------------------------------------
(* Paths. *)

real_path(p) == IF p \in DOMAIN link_path THEN link_path[p] ELSE p

FilePath(p) == real_path(IF EndsWithSlash(p) THEN WithSlash(canonicalize(p)) ELSE canonicalize(p))

\* format!("{}{}", a, b) where a ends with a slash.
Join(a, b) == Front(a) \o b

\* A path relative to a descriptor; the path of a directory's descriptor ends with a slash.
RelativeTo(t, d, p) ==
  IF d > Len(fds[t]) THEN Err("EBADF")
  ELSE IF p # Empty /\ fds[t][d].kind # "dir" THEN Err("ENOTDIR")
  ELSE Ok(IF p = Empty THEN fds[t][d].path ELSE Join(fds[t][d].path, p))

AsDir(p, force_dir) == IF force_dir \/ Last(p) \in {".", ".."} THEN WithSlash(p) ELSE p

Absolute(t, r, force_dir) ==
  CASE r.err # "" -> r
    [] r.err = "" /\ StartsWithSlash(r.val) -> Ok(FilePath(AsDir(r.val, force_dir)))
    [] OTHER -> IF EndsWithSlash(cwd[t]) THEN Ok(FilePath(AsDir(Join(cwd[t], r.val), force_dir)))
                ELSE Err("panic")

deal_with_path(t, d, p, force_dir) ==
  Absolute(t, CASE p = Empty /\ d = AT_FDCWD -> Ok(<<".">>)
                [] d # AT_FDCWD /\ ~StartsWithSlash(p) -> RelativeTo(t, d, p)
                [] OTHER -> Ok(p), force_dir)

is_dir(p) == EndsWithSlash(p)
is_file(p) == ~EndsWithSlash(p)
InProc(p) == Len(p) > 1 /\ p[2] = "proc"

\* What a look at a path finds, and whether path_exists says that it is there.
Look(p) == lookup(tree, mounts, p)
Exists(r) == r.err = ""
KindOf(r) == IF IsDir(tree, r.val) THEN "dir" ELSE "file"

----------------------------------------------------------------------------
(* How a step ends: at another step, with the answer of the call, or in a panic. *)

To(pc) == [is |-> "to", v |-> pc]
Ret(v) == [is |-> "ret", v |-> v]
Panic(where) == [is |-> "panic", v |-> where]

End(t, o) ==
  /\ call' = CASE o.is = "to" -> [call EXCEPT ![t].pc = o.v]
               [] o.is = "ret" -> [call EXCEPT ![t] = NoCall]
               [] o.is = "panic" -> call
  /\ ret' = IF o.is = "ret" THEN [ret EXCEPT ![t] = o.v] ELSE ret
  /\ panicked' = IF o.is = "panic" THEN o.v ELSE panicked
  /\ UNCHANGED <<todo, mounts>>

\* Nothing runs after a panic.
Serving(t, op) == panicked = "" /\ call[t].op = op

At(t, op, pc) == Serving(t, op) /\ call[t].pc = pc

\* The steps that only look.
Looks(t, o) ==
  End(t, o) /\ UNCHANGED <<tree, link_path, link_count, inodes, MOUNTED, cwd, fds>>

ForceDir(c) == c.op \in {"mkdirat", "chdir", "umount", "getdents64"} \/ (c.op = "openat" /\ "dir" \in c.flags)

TwoPaths == {"linkat", "renameat2", "mount"}

\* The call is made: solve_path of its path.
solve_path(t, c, r) ==
  /\ call' = [call EXCEPT ![t] = IF r.err = "" THEN c @@ ("pc" :> IF c.op \in TwoPaths THEN "solve" ELSE "start")
                                                        @@ ("p" :> r.val) @@ NoCall ELSE NoCall]
  /\ ret' = IF r.err \in {"", "panic"} THEN ret ELSE [ret EXCEPT ![t] = r.err]
  /\ panicked' = IF r.err = "panic" THEN "cwd" ELSE panicked

Begin(t) ==
  /\ panicked = "" /\ call[t] = NoCall /\ todo[t] # <<>>
  /\ \E c \in {Head(todo[t])} :
       solve_path(t, c, deal_with_path(t, c.dir_fd, c.path, ForceDir(c)))
  /\ todo' = [todo EXCEPT ![t] = Tail(@)]
  /\ UNCHANGED <<tree, mounts, link_path, link_count, inodes, MOUNTED, cwd, fds>>

\* solve_path of the second path, which mount takes for a directory.
Second(t) ==
  /\ panicked = "" /\ call[t].op \in TwoPaths /\ call[t].pc = "solve"
  /\ \E r \in {deal_with_path(t, AT_FDCWD, call[t].path2, call[t].op = "mount")} :
       /\ call' = [call EXCEPT ![t] = IF r.err = "" THEN [@ EXCEPT !.pc = IF call[t].op = "linkat" THEN "link" ELSE "start",
                                                                      !.q = r.val] ELSE NoCall]
       /\ ret' = IF r.err \in {"", "panic"} THEN ret ELSE [ret EXCEPT ![t] = r.err]
       /\ panicked' = IF r.err = "panic" THEN "cwd" ELSE panicked
  /\ UNCHANGED <<tree, link_path, link_count, inodes, MOUNTED, cwd, fds, todo, mounts>>

----------------------------------------------------------------------------
(* The tree: create and remove as steps of a call. *)

\* Whether another call is making a name further down and so keeps the directory of a name locked.
MakingAt(u) == IF call[u].op = "mount" THEN call[u].q ELSE call[u].p

Locked(t, p) ==
  \E u \in Tasks \ {t} :
    /\ call[u].pc = "insert"
    /\ IsStrictPrefix(Front(canonicalize(p)), Front(canonicalize(MakingAt(u))))
    /\ Mounted(mounts, p).root = Mounted(mounts, MakingAt(u)).root

\* fatfs looks for the name and makes it at once; ramfs drops its lock in between.
CreateNode(t, p, kind, next, failed) ==
  \/ /\ call[t].pc = "create"
     /\ \E e \in {create_check(tree, mounts, p)} :
          CASE e = "new" /\ FsOf(tree, Mounted(mounts, p)) = "ram" -> End(t, To("insert")) /\ UNCHANGED tree
            [] e = "new" /\ FsOf(tree, Mounted(mounts, p)) # "ram" -> End(t, next) /\ tree' = create(tree, mounts, p, kind)
            [] e = "" -> End(t, next) /\ UNCHANGED tree
            [] OTHER -> End(t, failed) /\ UNCHANGED tree
  \/ /\ call[t].pc = "insert" /\ ~Locked(t, p)
     /\ tree' = create(tree, mounts, p, kind)
     /\ End(t, next)

RemoveNodeStep(t, p, next, failed) ==
  /\ ~Locked(t, p)
  /\ IF remove_check(tree, mounts, p) = "" THEN tree' = remove(tree, mounts, p) /\ End(t, next)
     ELSE UNCHANGED tree /\ End(t, failed)

\* What remove_dir and remove_file find before they remove.
RemoveDirLooks(p, r, next, failed) ==
  IF canonicalize(p) \in {Root} \cup {<<"">> \o m.path : m \in Range(mounts)} \/ ~Exists(r) \/ KindOf(r) # "dir"
  THEN failed ELSE next

RemoveFileLooks(r, next, failed) == IF ~Exists(r) \/ KindOf(r) = "dir" THEN failed ELSE next

----------------------------------------------------------------------------
(* Links. *)

\* The file whose count is down to zero stays: the future of remove_file is dropped before it is polled.
remove_link(p) ==
  /\ link_path' = [x \in DOMAIN link_path \ {p} |-> link_path[x]]
  /\ link_count' = [link_count EXCEPT ![link_path[p]] = @ - 1]

CountOf(d) == IF d \in DOMAIN link_count THEN link_count[d] ELSE 0

RemoveLinkPanics(p) == p \in DOMAIN link_path /\ CountOf(link_path[p]) = 0

\* An InsertLink that counts the wrong end.
InsertLinkOfSource(src, dst) ==
  /\ link_path' = (src :> dst) @@ link_path
  /\ link_count' = (src :> CountOf(src) + 1) @@ link_count

InsertLink(src, dst) ==
  /\ link_path' = (src :> dst) @@ link_path
  /\ link_count' = (dst :> CountOf(dst) + 1) @@ link_count

\* create_link, which linkat and openat end with.
create_link(t, src, dst, true, false) ==
  \/ /\ call[t].pc = "link"
     /\ Looks(t, IF is_file(src) /\ is_file(dst) /\ Exists(Look(dst)) THEN To("link_map") ELSE false)
  \/ /\ call[t].pc = "link_map"
     /\ CASE src \notin DOMAIN link_path -> InsertLink(src, dst) /\ End(t, true)
          [] src \in DOMAIN link_path /\ link_path[src] = dst -> UNCHANGED <<link_path, link_count>> /\ End(t, true)
          [] OTHER -> UNCHANGED <<link_path, link_count>> /\ End(t, To("link_remove"))
     /\ UNCHANGED <<tree, inodes, MOUNTED, cwd, fds>>
  \/ /\ call[t].pc = "link_remove"
     /\ IF src \in DOMAIN link_path /\ ~RemoveLinkPanics(src) THEN remove_link(src)
        ELSE UNCHANGED <<link_path, link_count>>
     /\ End(t, IF RemoveLinkPanics(src) THEN Panic("link count") ELSE To("link_insert"))
     /\ UNCHANGED <<tree, inodes, MOUNTED, cwd, fds>>
  \/ /\ call[t].pc = "link_insert"
     /\ InsertLink(src, dst)
     /\ End(t, true)
     /\ UNCHANGED <<tree, inodes, MOUNTED, cwd, fds>>

linkat(t) ==
  /\ Serving(t, "linkat") /\ call[t].pc \in {"link", "link_map", "link_remove", "link_insert"}
  /\ create_link(t, call[t].p, call[t].q, Ret("0"), Ret("EINVAL"))

----------------------------------------------------------------------------
(* openat. *)

new_inode(p) == inodes' = IF p \in Range(inodes) THEN inodes ELSE Append(inodes, p)

NewFd(t, kind, p, n) ==
  fds' = [fds EXCEPT ![t] = Append(@, [kind |-> kind, path |-> p, node |-> n, flags |-> call[t].flags])]

\* File::_open_at when the name is there.
OpenNode(t, p, n) ==
  IF "excl" \in call[t].flags \/ (IsDir(tree, n) /\ call[t].flags # {})
  THEN End(t, Ret("ENOENT")) /\ UNCHANGED fds
  ELSE NewFd(t, "file", p, n) /\ End(t, To("link"))

openat(t) ==
  /\ Serving(t, "openat")
  /\ \E p \in {call[t].p} : \E r \in {Look(p)} :
     \/ /\ call[t].pc = "start"
        /\ new_inode(p)
        /\ End(t, To(IF is_dir(p) THEN "dir_exists" ELSE "lookup"))
        /\ UNCHANGED <<tree, link_path, link_count, MOUNTED, cwd, fds>>
     \/ /\ call[t].pc = "dir_exists"
        /\ IF Exists(r) THEN NewFd(t, "dir", p, r.val) /\ End(t, Ret("0"))
           ELSE UNCHANGED fds /\ End(t, To("dir_lookup"))
        /\ UNCHANGED <<tree, link_path, link_count, inodes, MOUNTED, cwd>>
     \/ /\ call[t].pc = "dir_lookup"
        /\ Looks(t, IF r.err = "NotFound" THEN To("create") ELSE Ret("ENOENT"))
     \/ /\ call[t].pc = "lookup"
        /\ CASE r.err = "" -> OpenNode(t, p, r.val)
             [] r.err = "NotFound" /\ "create" \in call[t].flags -> End(t, To("create")) /\ UNCHANGED fds
             [] OTHER -> End(t, Ret("ENOENT")) /\ UNCHANGED fds
        /\ UNCHANGED <<tree, link_path, link_count, inodes, MOUNTED, cwd>>
     \/ /\ call[t].pc \in {"create", "insert"}
        /\ CreateNode(t, p, IF is_dir(p) THEN "dir" ELSE "file", To("relookup"), Ret("ENOENT"))
        /\ UNCHANGED <<link_path, link_count, inodes, MOUNTED, cwd, fds>>
     \/ /\ call[t].pc = "relookup"
        /\ IF is_dir(p) THEN NewFd(t, "dir", p, 0) /\ End(t, Ret("0"))
           ELSE IF Exists(r) THEN NewFd(t, "file", p, r.val) /\ End(t, To("link"))
           ELSE UNCHANGED fds /\ End(t, Ret("ENOENT"))
        /\ UNCHANGED <<tree, link_path, link_count, inodes, MOUNTED, cwd>>
     \/ create_link(t, p, p, Ret("0"), Ret("0"))

----------------------------------------------------------------------------
(* unlinkat, mkdirat, chdir. *)

unlinkat(t) ==
  /\ Serving(t, "unlinkat")
  /\ \E p \in {call[t].p} : \E r \in {Look(p)} :
     \/ /\ call[t].pc = "start"
        /\ Looks(t, CASE InProc(p) -> Ret("-1")
                      [] ~InProc(p) /\ "removedir" \in call[t].flags -> RemoveDirLooks(p, r, To("remove"), Ret("EINVAL"))
                      [] OTHER -> CASE ~Exists(r) -> Panic("unlinkat")
                                    [] Exists(r) /\ KindOf(r) = "dir" -> Ret("EISDIR")
                                    [] OTHER -> To("remove_link"))
     \/ /\ call[t].pc = "remove"
        /\ RemoveNodeStep(t, p, Ret("0"), Ret("EINVAL"))
        /\ UNCHANGED <<link_path, link_count, inodes, MOUNTED, cwd, fds>>
     \/ /\ call[t].pc = "remove_link"
        /\ IF p \in DOMAIN link_path /\ ~RemoveLinkPanics(p) THEN remove_link(p) ELSE UNCHANGED <<link_path, link_count>>
        /\ End(t, CASE p \notin DOMAIN link_path -> Ret("EINVAL")
                    [] p \in DOMAIN link_path /\ RemoveLinkPanics(p) -> Panic("link count")
                    [] OTHER -> Ret("0"))
        /\ UNCHANGED <<tree, inodes, MOUNTED, cwd, fds>>

\* The future of create_dir is dropped before it is polled.
mkdirat(t) ==
  \/ At(t, "mkdirat", "start") /\ Looks(t, IF Exists(Look(call[t].p)) THEN Ret("EEXIST") ELSE To("again"))
  \/ At(t, "mkdirat", "again") /\ Looks(t, IF Exists(Look(call[t].p)) THEN Ret("0") ELSE Ret("EPERM"))

chdir(t) ==
  /\ At(t, "chdir", "start")
  /\ cwd' = [cwd EXCEPT ![t] = call[t].p]
  /\ End(t, Ret("0"))
  /\ UNCHANGED <<tree, link_path, link_count, inodes, MOUNTED, fds>>

----------------------------------------------------------------------------
(* renameat2, without RENAME_EXCHANGE, which it does not do. *)

RenameLooks(c, pc, old, new) ==
  CASE pc = "start" ->
         IF InProc(c.p) \/ InProc(c.q) THEN Ret("EPERM")
         ELSE IF "noreplace" \in c.flags /\ Exists(new) THEN Ret("EEXIST") ELSE To("new")
    [] pc = "new" -> IF Exists(new) THEN To("types") ELSE To("old")
    [] pc = "types" -> IF ~Exists(old) \/ ~Exists(new) THEN Panic("renameat2")
                       ELSE IF KindOf(old) = KindOf(new) THEN To("old")
                       ELSE IF KindOf(old) = "dir" THEN Ret("ENOTDIR") ELSE Ret("EISDIR")
    [] pc = "old" -> IF ~Exists(old) THEN Ret("ENOENT") ELSE IF c.p = c.q THEN Ret("0") ELSE To("new2")
    [] pc = "new2" -> IF Exists(new) THEN To("type2") ELSE To("replace")
    [] pc = "type2" -> CASE ~Exists(new) -> Panic("renameat2")
                         [] Exists(new) /\ KindOf(new) = "dir" -> RemoveDirLooks(c.q, new, To("remove"), Ret("EPERM"))
                         [] OTHER -> RemoveFileLooks(new, To("remove"), Ret("EPERM"))
    [] pc = "replace" -> IF Exists(new) THEN RemoveFileLooks(new, To("remove2"), Ret("EPERM")) ELSE To("rename")

renameat2(t) ==
  /\ Serving(t, "renameat2")
  /\ \E c \in {call[t]} :
     \/ /\ c.pc \in {"start", "new", "types", "old", "new2", "type2", "replace"}
        /\ Looks(t, RenameLooks(c, c.pc, Look(c.p), Look(c.q)))
     \/ /\ c.pc \in {"remove", "remove2"}
        /\ RemoveNodeStep(t, c.q, To(IF c.pc = "remove" THEN "replace" ELSE "rename"), Ret("EPERM"))
        /\ UNCHANGED <<link_path, link_count, inodes, MOUNTED, cwd, fds>>
     \/ /\ c.pc = "rename"
        /\ IF rename_check(tree, mounts, c.p, c.q) = ""
           THEN tree' = rename(tree, mounts, c.p, c.q) /\ End(t, Ret("0"))
           ELSE UNCHANGED tree /\ End(t, Ret("EPERM"))
        /\ UNCHANGED <<link_path, link_count, inodes, MOUNTED, cwd, fds>>

----------------------------------------------------------------------------
(* mount and umount. *)

check_mounted(p) == \E i \in DOMAIN MOUNTED : IsPrefix(Front(MOUNTED[i].mnt_dir), p)

mount_syscall(t) ==
  /\ Serving(t, "mount")
  /\ \E device \in {call[t].p}, dir \in {call[t].q} : \E r \in {Look(dir)} :
     \/ /\ call[t].pc = "start"
        /\ Looks(t, IF is_dir(device) THEN Ret("EPERM")
                    ELSE IF Exists(r) THEN To("mounted") ELSE To("dir_lookup"))
     \/ /\ call[t].pc = "dir_lookup"
        /\ Looks(t, IF r.err = "NotFound" THEN To("create") ELSE Ret("EPERM"))
     \/ /\ call[t].pc \in {"create", "insert"}
        /\ CreateNode(t, dir, "dir", To("mounted"), Ret("EPERM"))
        /\ UNCHANGED <<link_path, link_count, inodes, MOUNTED, cwd, fds>>
     \/ /\ call[t].pc = "mounted"
        /\ Looks(t, IF "vfat" \notin call[t].flags \/ ~Exists(r) \/ check_mounted(dir) THEN Ret("EPERM") ELSE To("push"))
     \/ /\ call[t].pc = "push"
        /\ IF Exists(r)
           THEN /\ MOUNTED' = Append(MOUNTED, [device |-> device, mnt_dir |-> dir])
                /\ End(t, IF is_file(device) /\ is_dir(dir) THEN Ret("0") ELSE Panic("mount"))
           ELSE UNCHANGED MOUNTED /\ End(t, Ret("EPERM"))
        /\ UNCHANGED <<tree, link_path, link_count, inodes, cwd, fds>>

umount(t) ==
  \/ At(t, "umount", "start") /\ Looks(t, IF Exists(Look(call[t].p)) THEN To("remove") ELSE Ret("EPERM"))
  \/ /\ At(t, "umount", "remove")
     /\ \E at \in {{i \in DOMAIN MOUNTED : MOUNTED[i].mnt_dir = call[t].p}} :
          IF at = {} THEN UNCHANGED MOUNTED /\ End(t, Ret("EPERM"))
          ELSE MOUNTED' = RemoveAt(MOUNTED, CHOOSE i \in at : \A j \in at : i <= j) /\ End(t, Ret("0"))
     /\ UNCHANGED <<tree, link_path, link_count, inodes, cwd, fds>>

----------------------------------------------------------------------------
(* The calls that ask. *)

\* get_link_count unwraps the count of the file that is linked to.
GetLinkCountPanics(p) == p \in DOMAIN link_path /\ link_path[p] \notin DOMAIN link_count

\* fstatat: path_exists, metadata, then a descriptor, whose get_stat may number the file; the
\* descriptor of a directory makes it if it is gone.
fstatat(t) ==
  /\ Serving(t, "fstatat")
  /\ \E p \in {call[t].p} : \E r \in {Look(p)} :
     \/ call[t].pc = "start" /\ Looks(t, IF Exists(r) THEN To("metadata") ELSE Ret("ENOENT"))
     \/ /\ call[t].pc = "metadata"
        /\ Looks(t, IF ~Exists(r) THEN Panic("fstatat") ELSE IF KindOf(r) = "dir" THEN To("dir") ELSE To("stat"))
     \/ call[t].pc = "dir" /\ Looks(t, IF Exists(r) THEN Ret("0") ELSE To("dir_lookup"))
     \/ /\ call[t].pc = "dir_lookup"
        /\ Looks(t, IF r.err = "NotFound" THEN To("create") ELSE Ret("ENOENT"))
     \/ /\ call[t].pc \in {"create", "insert"}
        /\ CreateNode(t, p, "dir", Ret("0"), Ret("ENOENT"))
        /\ UNCHANGED <<link_path, link_count, inodes, MOUNTED, cwd, fds>>
     \/ /\ call[t].pc = "stat"
        /\ IF Exists(r) THEN new_inode(p) ELSE UNCHANGED inodes
        /\ End(t, IF ~Exists(r) THEN Ret("ENOENT") ELSE IF GetLinkCountPanics(p) THEN Panic("link count") ELSE Ret("0"))
        /\ UNCHANGED <<tree, link_path, link_count, MOUNTED, cwd, fds>>

\* faccessat, fchmodat (whose permissions go to a copy) and statx.
faccessat(t) ==
  At(t, "faccessat", "start") /\ Looks(t, Ret(IF Exists(Look(call[t].p)) THEN "0" ELSE "ENOENT"))

\* utimensat sets the times of a descriptor of its own.
utimensat(t) ==
  /\ Serving(t, "utimensat")
  /\ \E p \in {call[t].p} : \E r \in {Look(p)} :
     \/ call[t].pc = "start" /\ Looks(t, IF Exists(r) THEN To("open") ELSE To("missing"))
     \/ /\ call[t].pc = "missing"
        /\ Looks(t, Ret(IF Exists(Look(WithSlash(Front(TrimEnd(p))))) THEN "ENOENT" ELSE "ENOTDIR"))
     \/ call[t].pc = "open" /\ Looks(t, IF Exists(r) THEN Ret("0") ELSE Panic("utimensat"))

\* getdents64 of a directory that was opened: read_dir goes by its name again.
getdents64(t) ==
  /\ At(t, "getdents64", "start")
  /\ \E r \in {Look(call[t].p)} :
       Looks(t, IF Exists(r) /\ KindOf(r) = "dir" THEN Ret("0") ELSE Panic("getdents64"))

\* readlinkat: solve_path has followed the link already.
readlinkat(t) ==
  At(t, "readlinkat", "start") /\ Looks(t, Ret(IF real_path(call[t].p) # call[t].p THEN "0" ELSE "EINVAL"))

----------------------------------------------------------------------------
Step(t) ==
  \/ Begin(t) \/ Second(t)
  \/ openat(t) \/ linkat(t) \/ unlinkat(t) \/ mkdirat(t) \/ chdir(t) \/ renameat2(t)
  \/ mount_syscall(t) \/ umount(t)
  \/ fstatat(t) \/ faccessat(t) \/ utimensat(t) \/ getdents64(t) \/ readlinkat(t)

Next == \E t \in Tasks : Step(t)

Spec == Init /\ [][Next]_vars

----------------------------------------------------------------------------
(* Properties. *)

\* No count of links is below the number of names that lead to the file, so that a file is not taken
\* for unused while a name leads to it, although create_link gives its lock up to remove the old link;
\* and the assertions of link.rs and mount.rs hold, that the working directory ends with a slash among
\* them, whatever links chdir has followed.
LinksCounted ==
  /\ \A d \in {link_path[x] : x \in DOMAIN link_path} :
       CountOf(d) >= Cardinality({x \in DOMAIN link_path : link_path[x] = d})
  /\ panicked \notin {"cwd", "link count", "mount"}

----------------------------------------------------------------------------
(* What the tree means to its users. *)

\* The names below a node, each with the node it leads to.
RECURSIVE Below(_, _, _)
Below(t, n, prefix) ==
  UNION {{[name |-> Append(prefix, x), node |-> t[n].children[x]]} \cup
         (IF IsDir(t, t[n].children[x]) THEN Below(t, t[n].children[x], Append(prefix, x)) ELSE {})
         : x \in DOMAIN t[n].children}

\* The names that can be looked up: those of a file system are hidden where another is mounted.
Hidden(m, name) == \E k \in Range(mounts) : Len(k.path) > Len(m.path) /\ IsPrefix(k.path, name)

Visible ==
  UNION {{e \in Below(tree, m.root, m.path) : ~Hidden(m, e.name)} : m \in Range(mounts) \cup {NoMount}}
  \cup {[name |-> m.path, node |-> m.root] : m \in Range(mounts)}

KindsOf(entries) ==
  [name \in {e.name : e \in entries} |->
     IF IsDir(tree, (CHOOSE e \in entries : e.name = name).node) THEN "dir" ELSE "file"]

NamespaceOf == KindsOf(Visible)

Abstract == INSTANCE Namespace WITH names <- NamespaceOf


============================================================================
