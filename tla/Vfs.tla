-------------------------------- MODULE Vfs --------------------------------
(***************************************************************************)
(* The tree of nodes behind async_vfs, with the file systems axfs_ramfs,   *)
(* axfs_devfs and fatfs (the last one from how async_fs uses it), the      *)
(* mount table of async_fs::root, and the path functions.                  *)
(*                                                                         *)
(* A path is the sequence of the parts between its slashes: "/a//b/" is    *)
(* <<"", "a", "", "b", "">>.  A tree is a sequence of nodes, and a node    *)
(* is known by its index: a node stays in the tree when its name is gone,  *)
(* as it stays in memory for those who have it open.                       *)
(***************************************************************************)
EXTENDS Integers, Sequences, SequencesExt, FiniteSets, TLC

Ok(v) == [err |-> "", val |-> v]
Err(e) == [err |-> e, val |-> 0]

----------------------------------------------------------------------------
(* Paths. *)

StartsWithSlash(p) == Len(p) > 1 /\ Head(p) = ""

EndsWithSlash(p) == Len(p) > 1 /\ Last(p) = ""

WithSlash(p) == IF EndsWithSlash(p) THEN p ELSE Append(p, "")

\* trim_start_matches('/') and trim_matches('/').
RECURSIVE TrimStart(_)
TrimStart(p) == IF StartsWithSlash(p) THEN TrimStart(Tail(p)) ELSE p

RECURSIVE TrimEnd(_)
TrimEnd(p) == IF EndsWithSlash(p) THEN TrimEnd(Front(p)) ELSE p

Trim(p) == TrimEnd(TrimStart(p))

\* The names that are left in the buffer after the parts of a path.
RECURSIVE Names(_, _)
Names(buf, parts) ==
  IF parts = <<>> THEN buf
  ELSE Names(CASE Head(parts) \in {"", "."} -> buf
               [] Head(parts) = ".." -> IF buf = <<>> THEN buf ELSE Front(buf)
               [] OTHER -> Append(buf, Head(parts)), Tail(parts))

OfNames(names, absolute) ==
  IF absolute THEN IF names = <<>> THEN <<"", "">> ELSE <<"">> \o names
  ELSE IF names = <<>> THEN <<"">> ELSE names

canonicalize(p) == OfNames(Names(<<>>, p), StartsWithSlash(p))

----------------------------------------------------------------------------
(* Nodes. *)

Dir(fs, parent) == [kind |-> "dir", fs |-> fs, parent |-> parent, children |-> <<>>]

File(kind) == [kind |-> kind, fs |-> "none", parent |-> 0, children |-> <<>>]

IsDir(t, n) == t[n].kind = "dir"

\* The node that a directory gives for one part of a path.
Child(t, n, name) ==
  IF ~IsDir(t, n) THEN Err("NotADirectory")
  ELSE CASE name \in {"", "."} -> Ok(n)
         [] name = ".." -> IF t[n].parent = 0 THEN Err("NotFound") ELSE Ok(t[n].parent)
         [] OTHER -> IF name \in DOMAIN t[n].children THEN Ok(t[n].children[name]) ELSE Err("NotFound")

\* lookup of a directory: by its first part, and on with the rest.
RECURSIVE Walk(_, _, _)
Walk(t, n, p) ==
  IF StartsWithSlash(p) THEN Walk(t, n, Tail(p))
  ELSE IF Len(p) = 1 \/ Child(t, n, Head(p)).err # "" THEN Child(t, n, Head(p))
  ELSE Walk(t, Child(t, n, Head(p)).val, Tail(p))

\* The directory in which create and remove look for the last part of a path, and that part.
OnlyDir(t, d) == IF d.err = "" /\ ~IsDir(t, d.val) THEN Err("NotADirectory") ELSE d

ParentIn(t, n, q) == OnlyDir(t, IF Len(q) = 1 THEN Ok(n) ELSE Walk(t, n, Front(q)))

DirOf(t, n, p) == ParentIn(t, n, TrimStart(p))

LastPart(p) == Last(TrimStart(p))

WithChild(t, d, name, n) == [t EXCEPT ![d].children = (name :> n) @@ @]

\* The answer of create before it makes the node: "new" if there is one to make.
CreateIn(t, d, name) ==
  CASE d.err # "" -> d.err
    [] d.err = "" /\ name \in {"", ".", ".."} -> ""
    [] OTHER -> CASE t[d.val].fs = "dev" -> "PermissionDenied"
                  [] t[d.val].fs # "dev" /\ name \notin DOMAIN t[d.val].children -> "new"
                  [] OTHER -> IF t[d.val].fs = "ram" THEN "AlreadyExists" ELSE ""

CreateCheck(t, n, p) == CreateIn(t, DirOf(t, n, p), LastPart(p))

\* create makes the node and gives it the name, whether or not the name is still free.
InsertIn(t, d, name, kind) ==
  WithChild(Append(t, CASE kind = "dir" -> Dir(t[d].fs, d)
                        [] kind = "file" /\ name = "interrupts" /\ t[d].fs = "ram" -> File("interrupts")
                        [] OTHER -> File("file")), d, name, Len(t) + 1)

InsertNode(t, n, p, kind) == InsertIn(t, DirOf(t, n, p).val, LastPart(p), kind)


NotEmpty(t, n) == IsDir(t, n) /\ DOMAIN t[n].children # {}

RemoveFrom(t, d, name) ==
  CASE d.err # "" -> d.err
    [] d.err = "" /\ t[d.val].fs = "dev" -> "PermissionDenied"
    [] d.err = "" /\ name \in {"", ".", ".."} -> "InvalidInput"
    [] OTHER -> IF name \notin DOMAIN t[d.val].children THEN "NotFound"
                ELSE IF NotEmpty(t, t[d.val].children[name]) THEN "DirectoryNotEmpty" ELSE ""

RemoveCheck(t, n, p) == RemoveFrom(t, DirOf(t, n, p), LastPart(p))


WithoutChild(t, d, name) ==
  [t EXCEPT ![d].children = [x \in DOMAIN @ \ {name} |-> @[x]]]

RemoveNode(t, n, p) == WithoutChild(t, DirOf(t, n, p).val, LastPart(p))

\* rename, which only fatfs has: the name moves, and the node takes its new parent.
RenameIn(t, s, name, d, to) ==
  CASE s.err # "" -> s.err
    [] s.err = "" /\ d.err # "" -> d.err
    [] OTHER -> IF name \notin DOMAIN t[s.val].children THEN "NotFound"
                ELSE IF to \in DOMAIN t[d.val].children THEN "AlreadyExists" ELSE ""

RenameCheck(t, n, src, dst) ==
  IF t[n].fs # "fat" THEN "Unsupported"
  ELSE RenameIn(t, DirOf(t, n, src), LastPart(src), DirOf(t, n, Trim(dst)), LastPart(Trim(dst)))

NewParent(t, c, d) == IF IsDir(t, c) THEN [t EXCEPT ![c].parent = d] ELSE t

MoveNode(t, s, name, d, to) ==
  NewParent(WithChild(WithoutChild(t, s, name), d, to, t[s].children[name]), t[s].children[name], d)

RenameNode(t, n, src, dst) ==
  MoveNode(t, DirOf(t, n, src).val, LastPart(src), DirOf(t, n, Trim(dst)).val, LastPart(Trim(dst)))

----------------------------------------------------------------------------
(* The root directory: the main file system and the mounted ones. *)

MainRoot == 1

\* lookup_mounted_fs: the root of the file system with the longest matching path, and the rest.
Longer(best, mp, p) == IF IsPrefix(mp.path, p) /\ Len(mp.path) > Len(best.path) THEN mp ELSE best

Within(mp, p) == [root |-> mp.root, rest |-> IF mp.path = p THEN <<"">> ELSE SubSeq(p, Len(mp.path) + 1, Len(p))]

NoMount == [path |-> <<>>, root |-> MainRoot]

MountedAt(mounts, p) == Within(FoldLeft(LAMBDA best, mp : Longer(best, mp, p), NoMount, mounts), p)

\* trim_start_matches of "./".
RECURSIVE TrimDots(_)
TrimDots(p) == IF Len(p) > 1 /\ Head(p) = "." THEN TrimDots(Tail(p)) ELSE p

Mounted(mounts, path) == MountedAt(mounts, TrimDots(Trim(path)))

\* lookup of async_fs::root for an absolute path.
Found(t, path, n) ==
  IF path = <<"">> THEN Err("NotFound")
  ELSE IF n.err = "" /\ EndsWithSlash(path) /\ ~IsDir(t, n.val) THEN Err("NotADirectory") ELSE n

LookupIn(t, m, path) == Found(t, path, Walk(t, m.root, m.rest))

lookup(t, mounts, path) == LookupIn(t, Mounted(mounts, path), path)

CreateCheckIn(t, m) == IF m.rest = <<"">> THEN "" ELSE CreateCheck(t, m.root, m.rest)

create_check(t, mounts, path) == CreateCheckIn(t, Mounted(mounts, path))

\* The file system in which create makes a node.
FsOf(t, m) == t[DirOf(t, m.root, m.rest).val].fs

CreateMounted(t, m, kind) == InsertNode(t, m.root, m.rest, kind)

create(t, mounts, path, kind) == CreateMounted(t, Mounted(mounts, path), kind)

RemoveCheckIn(t, m) == IF m.rest = <<"">> THEN "PermissionDenied" ELSE RemoveCheck(t, m.root, m.rest)

remove_check(t, mounts, path) == RemoveCheckIn(t, Mounted(mounts, path))

RemoveMounted(t, m) == RemoveNode(t, m.root, m.rest)

remove(t, mounts, path) == RemoveMounted(t, Mounted(mounts, path))

\* The destination of rename is not looked up among the mounts.
RenameCheckIn(t, m, new) == IF m.rest = <<"">> THEN "PermissionDenied" ELSE RenameCheck(t, m.root, m.rest, new)

rename_check(t, mounts, old, new) == RenameCheckIn(t, Mounted(mounts, old), new)

RenameMounted(t, m, new) == RenameNode(t, m.root, m.rest, new)

rename(t, mounts, old, new) == RenameMounted(t, Mounted(mounts, old), new)

\* mount makes the mount point in the main file system, and the root's parent that of the point.
PointMade(t, path) ==
  IF CreateCheck(t, MainRoot, path) = "new" THEN InsertNode(t, MainRoot, path, "dir") ELSE t

MountOn(t, mounts, path, fs) ==
  [tree |-> Append(t, Dir(fs, t[Walk(t, MainRoot, path).val].parent)),
   mounts |-> Append(mounts, [path |-> path, root |-> Len(t) + 1])]

mount(st, path, fs) == MountOn(PointMade(st.tree, path), st.mounts, path, fs)

\* devfs and procfs come with nodes of their own.
AddTo(st, d, name, kind) ==
  [st EXCEPT !.tree = WithChild(Append(@, IF kind = "dir" THEN Dir(@[d].fs, d) ELSE File(kind)), d, name, Len(@) + 1)]

NodeIn(t, m) == Walk(t, m.root, m.rest).val

AddNode(st, path, name, kind) == AddTo(st, NodeIn(st.tree, Mounted(st.mounts, path)), name, kind)

WithDev(st) ==
  AddNode(AddNode(AddNode(mount(st, <<"dev">>, "dev"), <<"dev">>, "foo", "dir"), <<"dev">>, "null", "null"),
          <<"dev">>, "zero", "zero")

WithProc(st) == AddNode(mount(st, <<"proc">>, "ram"), <<"proc">>, "interrupts", "interrupts")

init_rootfs ==
  WithProc(mount(mount(WithDev([tree |-> <<Dir("fat", 0)>>, mounts |-> <<>>]), <<"dev", "shm">>, "ram"), <<"tmp">>, "ram"))

============================================================================
