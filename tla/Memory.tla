------------------------------- MODULE Memory -------------------------------
(***************************************************************************)
(* The memory of processes: areas, page tables and shared memory, and the  *)
(* calls that change them.  Each call holds the lock of the memory set     *)
(* from its start to its end, so it is one step.  Addresses and sizes are  *)
(* in pages, and a page holds one value.  One file is mapped.              *)
(***************************************************************************)
EXTENDS Integers, Sequences, FiniteSets, SequencesExt, TLC

CONSTANTS
  Process,      \* the processes, numbered; the first is there from the start
  UserStart,    \* USER_MEMORY_START
  App,          \* the areas of a program that is loaded: the values of their pages and their flags
  FileSize,     \* the pages of the file
  LQ_NUM,       \* the local queues of the interrupt controller
  Programs      \* what processes do: at each step one of a set of calls

VARIABLES
  sets,         \* the memory sets, numbered: MemorySet
  set_of,       \* Executor::memory_set of each process; 0 when it is not there
  token,        \* the page table of each process: the generation of the one in its set
  frames,       \* what the allocated physical pages hold; devices have negative numbers
  file,
  shms,         \* the pages of each SharedMem, by shmid
  SHARED_MEMS, KEY_TO_SHMID, SHMID,
  todo,         \* what each process still does
  last,         \* the last call and its result
  panicked

vars == <<sets, set_of, token, frames, file, shms, SHARED_MEMS, KEY_TO_SHMID, SHMID, todo, last, panicked>>
shmVars == <<shms, SHARED_MEMS, KEY_TO_SHMID, SHMID>>
procVars == <<set_of, token>>

NoFile == -1

----------------------------------------------------------------------------
(* MapArea: the pages, 0 for one that is not loaded, the flags, and where  *)
(* in the file the first page is.  An area is known by its first address.  *)

Area(pages, flags, shared, backend) == [pages |-> pages, flags |-> flags, shared |-> shared, backend |-> backend]

end_va(s, a) == s + Len(a.pages)

overlap_with(s, a, start, end) == (s <= start /\ start < end_va(s, a)) \/ (start <= s /\ s < end)
contained_in(s, a, start, end) == start <= s /\ end_va(s, a) <= end
strict_contain(s, a, start, end) == s < start /\ end < end_va(s, a)

\* The first n pages, and those after them: the offset in the file moves along.
Left(a, n) == [a EXCEPT !.pages = SubSeq(@, 1, n)]


Right(a, n) ==
  [a EXCEPT !.pages = SubSeq(@, n + 1, Len(@)), !.backend = IF @ = NoFile THEN @ ELSE @ + n]

\* What the page table has for an area: a page that is not loaded is a fault entry.
EntriesOf(s, a) ==
  [v \in s..(end_va(s, a) - 1) |-> [frame |-> a.pages[v - s + 1], flags |-> a.flags]]

----------------------------------------------------------------------------
(* Operations on a set m with the frames fr; ok is FALSE once one panics.  *)

W(m, fr) == [m |-> m, fr |-> fr, ok |-> TRUE]

\* map_region and map_fault_region refuse a page that is mapped.
Map(w, entries) ==
  [w EXCEPT !.ok = @ /\ DOMAIN entries \cap DOMAIN w.m.pt = {}, !.m.pt = entries @@ @]

\* unmap_region refuses one that is not.
Unmap(w, pages) ==
  [w EXCEPT !.ok = @ /\ pages \subseteq DOMAIN w.m.pt, !.m.pt = [v \in DOMAIN @ \ pages |-> @[v]]]

Insert(w, s, a) == [w EXCEPT !.ok = @ /\ s \notin DOMAIN w.m.owned, !.m.owned = (s :> a) @@ @]

Fresh(fr) == CHOOSE f \in 1..(Cardinality(DOMAIN fr) + 1) : f \notin DOMAIN fr /\ 1..(f - 1) \subseteq DOMAIN fr

AllocPages(fr, values) ==
  FoldLeft(LAMBDA acc, v : [fr |-> acc.fr @@ (Fresh(acc.fr) :> v), pages |-> Append(acc.pages, Fresh(acc.fr))],
           [fr |-> fr, pages |-> <<>>], values)

NewAlloc(w, s, flags, got) ==
  Insert(Map([w EXCEPT !.fr = got.fr], EntriesOf(s, Area(got.pages, flags, FALSE, NoFile))),
         s, Area(got.pages, flags, FALSE, NoFile))

NewLazy(w, s, a) == Insert(Map(w, EntriesOf(s, a)), s, a)

\* Without data the pages are loaded when they are used.
new_region(w, s, n, shared, flags, values, backend) ==
  IF values # <<>> THEN NewAlloc(w, s, flags, AllocPages(w.fr, values))
  ELSE NewLazy(w, s, Area([i \in 1..n |-> 0], flags, shared, backend))

\* The area at s that v is in.
AreaAt(m, v) == {s \in DOMAIN m.owned : s <= v /\ v < end_va(s, m.owned[s])}

\* What a page that is loaded holds at first.
Content(a, i) == IF a.backend = NoFile THEN 0 ELSE file[a.backend + i - 1]

LoadInto(w, s, i, f) ==
  [w EXCEPT !.m.owned[s].pages[i] = f,
            !.m.pt[s + i - 1] = [frame |-> f, flags |-> w.m.owned[s].flags],
            !.fr = @ @@ (f :> Content(w.m.owned[s], i))]

\* MapArea::handle_page_fault on the page i of the area at s, whose flags allow it.
LoadPage(w, s, i) == IF w.m.owned[s].pages[i] # 0 THEN w ELSE LoadInto(w, s, i, Fresh(w.fr))

----------------------------------------------------------------------------
(* split_for_area takes [start, end) out of every area that meets it.      *)


Cut(s, a, start, end) ==
  CASE contained_in(s, a, start, end) -> s..(end_va(s, a) - 1)
    [] strict_contain(s, a, start, end) -> start..(end - 1)
    [] start <= s /\ s < end /\ ~contained_in(s, a, start, end) -> s..(end - 1)
    [] OTHER -> start..(end_va(s, a) - 1)

Kept(s, a, start, end) ==
  CASE contained_in(s, a, start, end) -> <<>>
    [] strict_contain(s, a, start, end) -> (s :> Left(a, start - s)) @@ (end :> Right(a, end - s))
    [] start <= s /\ s < end /\ ~contained_in(s, a, start, end) -> end :> Right(a, end - s)
    [] OTHER -> s :> Left(a, start - s)

Overlapped(m, start, end) == {s \in DOMAIN m.owned : overlap_with(s, m.owned[s], start, end)}

Merge(fs) == FoldLeft(LAMBDA f, g : g @@ f, <<>>, SetToSeq(fs))

SplitOver(w, over, start, end) ==
  Unmap([w EXCEPT !.m.owned = Merge({Kept(s, @[s], start, end) : s \in over} \cup {[s \in DOMAIN @ \ over |-> @[s]]})],
        UNION {Cut(s, w.m.owned[s], start, end) : s \in over})

split_for_area(w, start, size) == SplitOver(w, Overlapped(w.m, start, start + size), start, start + size)

----------------------------------------------------------------------------
(* find_free_area looks at the gaps between areas, from the hint on.       *)

Segments(m) ==
  SetToSortSeq({<<s, end_va(s, m.owned[s])>> : s \in DOMAIN m.owned}
                 \cup {<<x.at, x.at + Len(shms[x.shmid])>> : x \in ToSet(m.attached)},
               LAMBDA x, y : x[1] < y[1])

LastEnd(segs, i, hint) == IF i = 1 THEN (IF hint > UserStart THEN hint ELSE UserStart) ELSE segs[i - 1][2]

FirstFit(segs, hint, n) == SelectInSeq([i \in DOMAIN segs |-> LastEnd(segs, i, hint) + n <= segs[i][1]], LAMBDA fits : fits)

FreeAt(segs, i, hint) == IF i = 0 THEN 0 ELSE LastEnd(segs, i, hint)

FreeIn(segs, hint, n) == FreeAt(segs, FirstFit(segs, hint, n), hint)

\* The address, or 0.
find_free_area(m, hint, n) == FreeIn(Segments(m), hint, n)

----------------------------------------------------------------------------
(* Processes and their calls.                                              *)

NewSet == [owned |-> <<>>, pt |-> <<>>, private |-> {}, attached |-> <<>>, gen |-> 0]

\* load_app: every area of the program, with its data.
load_app(w) ==
  FoldLeft(LAMBDA x, s : NewAlloc(x, s, App[s].flags, AllocPages(x.fr, App[s].values)),
           w, SetToSortSeq(DOMAIN App, <))

First == CHOOSE p \in Process : \A q \in Process : p <= q

Nothing == [op |-> "none"]

Start(program) ==
  /\ \E w \in {load_app(W(NewSet, <<>>))} : sets = (First :> w.m) /\ frames = w.fr
  /\ set_of = [p \in Process |-> IF p = First THEN First ELSE 0]
  /\ token = [p \in Process |-> 0]
  /\ file = [i \in 0..(FileSize - 1) |-> 10 + i]
  /\ shms = <<>> /\ SHARED_MEMS = {} /\ KEY_TO_SHMID = <<>> /\ SHMID = 1
  /\ todo = [p \in Process |-> IF p = First THEN program ELSE <<>>]
  /\ last = Nothing
  /\ panicked = FALSE

Init == \E program \in Programs : Start(program)

Holders(so, k) == {p \in Process : so[p] = k}

\* The frames that a set or a shared memory still has, and the devices.
Used(ss) ==
  UNION {UNION {ToSet(ss[k].owned[s].pages) : s \in DOMAIN ss[k].owned} : k \in DOMAIN ss}

LiveShms(ss, global) == global \cup UNION {ss[k].private : k \in DOMAIN ss}

Kept4(ss, global, all, fr) ==
  {f \in DOMAIN fr : f < 0 \/ f \in Used(ss) \/ \E x \in LiveShms(ss, global) : f \in ToSet(all[x])}

\* The sets, frames and shared memories after a call: what nobody has is freed.
Freed(ss, global, all, fr, fresh) ==
  /\ sets' = ss
  /\ frames' = [f \in fresh |-> fr[f]]
  /\ shms' = [x \in LiveShms(ss, global) |-> all[x]]
  /\ SHARED_MEMS' = global

CommitAll(ss, global, all, fr, ok) == Freed(ss, global, all, fr, Kept4(ss, global, all, fr)) /\ panicked' = ~ok

Commit(k, w) ==
  CommitAll([sets EXCEPT ![k] = w.m], SHARED_MEMS, shms, w.fr, w.ok) /\ UNCHANGED <<KEY_TO_SHMID, SHMID>>

Calls(p, op) == {c \in IF todo[p] = <<>> \/ set_of[p] = 0 \/ panicked THEN {} ELSE Head(todo[p]) : c.op = op}

Next1(p) == todo' = [todo EXCEPT ![p] = Tail(@)]

\* A call that answers, changed nothing and goes on.
Fails(p) == Next1(p) /\ last' = Nothing /\ UNCHANGED <<sets, procVars, frames, file, shmVars, panicked>>

K(p) == set_of[p]
M(p) == sets[set_of[p]]

MapAt(p, w, s, c) ==
  /\ Commit(K(p), new_region(w, s, c.n, c.shared, c.flags, <<>>, c.backend))
  /\ last' = [op |-> "map", id |-> K(p), at |-> s, n |-> c.n, flags |-> c.flags, shared |-> c.shared, backend |-> c.backend]

mmap(p) ==
  \E c \in Calls(p, "mmap") :
    \/ c.fixed /\ MapAt(p, split_for_area(W(M(p), frames), c.at, c.n), c.at, c) /\ Next1(p) /\ UNCHANGED <<procVars, file>>
    \/ ~c.fixed
       /\ \E s \in {find_free_area(M(p), c.at, c.n)} :
            \/ s # 0 /\ MapAt(p, W(M(p), frames), s, c) /\ Next1(p) /\ UNCHANGED <<procVars, file>>
            \/ s = 0 /\ Fails(p)   \* NoMemory

Unmaps(p, at, n) ==
  /\ Commit(K(p), split_for_area(W(M(p), frames), at, n))
  /\ last' = [op |-> "unmap", id |-> K(p), at |-> at, n |-> n]
  /\ Next1(p) /\ UNCHANGED <<procVars, file>>

munmap(p) == \E c \in Calls(p, "munmap") : Unmaps(p, c.at, c.n)

Flag(a, flags) == [a EXCEPT !.flags = flags]

\* The parts of an area that mprotect makes; the assertions on the insertions hold when the size is not 0.
Protected(s, a, start, end, flags) ==
  CASE contained_in(s, a, start, end) -> s :> Flag(a, flags)
    [] strict_contain(s, a, start, end) ->
         (s :> Left(a, start - s)) @@ (start :> Flag(Left(Right(a, start - s), end - start), flags)) @@ (end :> Right(a, end - s))
    [] start <= s /\ s < end /\ ~contained_in(s, a, start, end) -> (s :> Flag(Left(a, end - s), flags)) @@ (end :> Right(a, end - s))
    [] OTHER -> (s :> Left(a, start - s)) @@ (start :> Flag(Right(a, start - s), flags))

ProtectOver(m, over, start, end, flags) ==
  [m EXCEPT !.owned = Merge({Protected(s, @[s], start, end, flags) : s \in over} \cup {[s \in DOMAIN @ \ over |-> @[s]]}),
            !.pt = [v \in DOMAIN @ |->
                      IF v \in start..(end - 1) /\ \E s \in over : s <= v /\ v < end_va(s, m.owned[s])
                      THEN [@[v] EXCEPT !.flags = flags] ELSE @[v]]]

mprotect(p) ==
  \E c \in Calls(p, "mprotect") :
    /\ Commit(K(p), W(ProtectOver(M(p), Overlapped(M(p), c.at, c.at + c.n), c.at, c.at + c.n, c.flags), frames))
    /\ last' = [op |-> "protect", id |-> K(p), at |-> c.at, n |-> c.n, flags |-> c.flags]
    /\ Next1(p) /\ UNCHANGED <<procVars, file>>

\* The pages that msync writes: those of an area with a file that are loaded and in the range.
Synced(m, start, end) ==
  {<<s, i>> \in UNION {{s} \X (DOMAIN m.owned[s].pages) : s \in DOMAIN m.owned} :
     /\ m.owned[s].backend # NoFile /\ m.owned[s].pages[i] # 0
     /\ s + i - 1 \in start..(end - 1)}

\* sync_page_with_backend writes the page with index i - 1 in its area there in the file,
\* wherever the area begins in it.  Areas are visited in order, so the last one stays.
WrittenTo(m, at, i) == {x \in Synced(m, at[1], at[2]) : x[2] - 1 = i}

Latest(xs) == CHOOSE x \in xs : \A y \in xs : y[1] <= x[1]

msync(p) ==
  \E c \in Calls(p, "msync") :
    /\ file' = [i \in DOMAIN file |->
                  IF WrittenTo(M(p), <<c.at, c.at + c.n>>, i) = {} THEN file[i]
                  ELSE frames[M(p).owned[Latest(WrittenTo(M(p), <<c.at, c.at + c.n>>, i))[1]].pages[i + 1]]]
    /\ last' = [op |-> "sync", id |-> K(p), at |-> c.at, n |-> c.n]
    /\ Next1(p) /\ UNCHANGED <<sets, procVars, frames, shmVars, panicked>>

\* A loaded page is copied to the page of the new area that stands for it.
CopyPage(w, from, to, v) ==
  IF v \notin DOMAIN w.m.pt \/ w.m.pt[v].frame = 0 THEN w
  ELSE [LoadPage(w, to, v - from + 1) EXCEPT
          !.fr[LoadPage(w, to, v - from + 1).m.owned[to].pages[v - from + 1]] = w.fr[w.m.pt[v].frame]]

Moved(w, c, to) ==
  split_for_area(
    FoldLeft(LAMBDA x, v : CopyPage(x, c.at, to, v),
             new_region(w, to, c.size, FALSE, {"r", "w"}, <<>>, NoFile),
             [i \in 1..c.n |-> c.at + i - 1]),
    c.at, c.n)

\* A smaller size cuts the end off; another one moves the area.
mremap(p) ==
  \E c \in Calls(p, "mremap") :
    \/ c.n > c.size /\ Unmaps(p, c.at + c.size, c.n - c.size)
    \/ c.n <= c.size
       /\ \E to \in {find_free_area(M(p), c.at, c.size)} :
            \/ to = 0 /\ Fails(p)
            \/ to # 0
               /\ Commit(K(p), Moved(W(M(p), frames), c, to))
               /\ last' = [op |-> "move", id |-> K(p), at |-> c.at, n |-> c.n, to |-> to, size |-> c.size]
               /\ Next1(p) /\ UNCHANGED <<procVars, file>>

----------------------------------------------------------------------------
(* Access to memory. *)

Allowed(p, c) == c.at \in DOMAIN M(p).pt /\ M(p).pt[c.at].frame # 0 /\ c.kind \in M(p).pt[c.at].flags

\* A process that runs with a page table of its set reads or writes a page ...
Access(p) ==
  \E c \in Calls(p, "access") :
    /\ token[p] = M(p).gen /\ Allowed(p, c)
    /\ frames' = IF c.kind = "w" THEN [frames EXCEPT ![M(p).pt[c.at].frame] = c.v] ELSE frames
    /\ last' = IF c.kind = "w" THEN [op |-> "store", id |-> K(p), at |-> c.at, v |-> c.v] ELSE Nothing
    /\ Next1(p) /\ UNCHANGED <<sets, procVars, file, shmVars, panicked>>

Load(p, v) ==
  \E s \in AreaAt(M(p), v) :
    /\ Commit(K(p), LoadPage(W(M(p), frames), s, v - s + 1))
    /\ last' = [op |-> "load", id |-> K(p), at |-> v]
    /\ UNCHANGED <<procVars, file>>

\* ... or faults: the page is loaded and the access tried again, or the process is sent SIGSEGV.
handle_page_fault(p) ==
  \E c \in Calls(p, "access") :
    /\ token[p] = M(p).gen /\ ~Allowed(p, c)
    /\ \/ \E s \in AreaAt(M(p), c.at) : c.kind \in M(p).owned[s].flags /\ Load(p, c.at) /\ UNCHANGED todo
       \/ ~(\E s \in AreaAt(M(p), c.at) : c.kind \in M(p).owned[s].flags) /\ Fails(p)

\* The kernel loads the page of a buffer before it uses it.
manual_alloc_for_lazy(p) ==
  \E c \in Calls(p, "buffer") :
    \/ AreaAt(M(p), c.at) = {} /\ Fails(p)
    \/ AreaAt(M(p), c.at) # {} /\ M(p).pt[c.at].frame # 0 /\ Fails(p)
    \/ AreaAt(M(p), c.at) # {} /\ M(p).pt[c.at].frame = 0 /\ Load(p, c.at) /\ Next1(p)

----------------------------------------------------------------------------
(* clone, exec and exit. *)

\* One page of a private area: its copy, or a fault entry.
ClonePage(x, s, i, f) ==
  IF f = 0 THEN x
  ELSE [x EXCEPT !.child.owned[s].pages[i] = Fresh(x.fr), !.fr = @ @@ (Fresh(x.fr) :> x.fr[f])]

ClonePrivate(x, s) ==
  FoldLeft(LAMBDA y, i : ClonePage(y, s, i, y.m.owned[s].pages[i]),
           [x EXCEPT !.child.owned = (s :> [x.m.owned[s] EXCEPT !.pages = [i \in DOMAIN @ |-> 0]]) @@ @],
           [i \in DOMAIN x.m.owned[s].pages |-> i])

\* The pages of a shared area are loaded in the parent, and are the child's too.
CloneShared(x, w, s) == [x EXCEPT !.m = w.m, !.fr = w.fr, !.child.owned = (s :> w.m.owned[s]) @@ @]

CloneArea(x, s) ==
  IF x.m.owned[s].shared
  THEN CloneShared(x, FoldLeft(LAMBDA w, i : LoadPage(w, s, i), W(x.m, x.fr), [i \in DOMAIN x.m.owned[s].pages |-> i]), s)
  ELSE ClonePrivate(x, s)

\* The table of the child has its areas and the shared memory that the parent attached.
WithTable(x) ==
  [x EXCEPT !.child.pt =
     Merge({EntriesOf(s, x.child.owned[s]) : s \in DOMAIN x.child.owned}
             \cup {[v \in y.at..(y.at + Len(shms[y.shmid]) - 1) |->
                      [frame |-> shms[y.shmid][v - y.at + 1], flags |-> y.flags]] : y \in ToSet(x.m.attached)})]

clone_or_err(m, fr) ==
  WithTable(FoldLeft(CloneArea, [m |-> m, fr |-> fr, child |-> [NewSet EXCEPT !.private = m.private, !.attached = m.attached]],
                     SetToSortSeq(DOMAIN m.owned, <)))

\* The child goes on with what the parent has still to do.
Born(p, q, k) ==
  /\ set_of' = [set_of EXCEPT ![q] = k]
  /\ todo' = [todo EXCEPT ![p] = Tail(@), ![q] = Tail(todo[p])]

Unborn(p) == {q \in Process : q > p /\ \A r \in Process : r >= q => set_of[r] = 0 /\ todo[r] = <<>>}

clone_task(p) ==
  \E c \in Calls(p, "clone"), q \in Unborn(p) :
    \/ /\ c.vm   \* CLONE_VM
       /\ Born(p, q, K(p)) /\ token' = [token EXCEPT ![q] = token[p]]
       /\ last' = Nothing
       /\ UNCHANGED <<sets, frames, file, shmVars, panicked>>
    \/ /\ ~c.vm
       /\ \E x \in {clone_or_err(M(p), frames)} :
            CommitAll((q :> x.child) @@ [sets EXCEPT ![K(p)] = x.m], SHARED_MEMS, shms, x.fr, TRUE)
       /\ Born(p, q, q) /\ token' = [token EXCEPT ![q] = 0]
       /\ last' = [op |-> "fork", id |-> K(p), child |-> q]
       /\ UNCHANGED <<file, KEY_TO_SHMID, SHMID>>

\* unmap_user_areas leaves what was attached.
unmap_user_areas(w) ==
  [Unmap(w, UNION {s..(end_va(s, w.m.owned[s]) - 1) : s \in DOMAIN w.m.owned}) EXCEPT !.m.owned = <<>>]

\* A set that others have too is replaced, for them as well, by its clone; only this process
\* learns of the new page table.
OwnSet(p) ==
  IF Holders(set_of, K(p)) = {p} THEN W(M(p), frames)
  ELSE W([clone_or_err(M(p), frames).child EXCEPT !.gen = M(p).gen + 1], clone_or_err(M(p), frames).fr)

\* A program that does not exist is missed when the areas are gone.
exec(p) ==
  \E c \in Calls(p, "exec") :
    /\ \E w \in {unmap_user_areas(OwnSet(p))} :
         /\ Commit(K(p), IF c.found THEN load_app(w) ELSE w)
         /\ token' = [token EXCEPT ![p] = w.m.gen]
    /\ last' = [op |-> "exec", id |-> K(p), found |-> c.found]
    /\ Next1(p) /\ UNCHANGED <<set_of, file>>

\* The last process that has a set drops it.
exit(p) ==
  \E c \in Calls(p, "exit") :
    /\ set_of' = [set_of EXCEPT ![p] = 0]
    /\ todo' = [todo EXCEPT ![p] = <<{}>>]
    /\ \/ Holders(set_of', K(p)) # {} /\ last' = Nothing /\ UNCHANGED <<sets, frames, shmVars, panicked>>
       \/ /\ Holders(set_of', K(p)) = {}
          /\ \E w \in {unmap_user_areas(W(M(p), frames))} :
               CommitAll([k \in DOMAIN sets \ {K(p)} |-> sets[k]], SHARED_MEMS, shms, frames, w.ok)
          /\ last' = [op |-> "drop", id |-> K(p)]
          /\ UNCHANGED <<KEY_TO_SHMID, SHMID>>
    /\ UNCHANGED <<token, file>>

----------------------------------------------------------------------------
(* Shared memory, and the pages of the asynchronous calls. *)

IPC_PRIVATE == 0

Shm(p, c, global, private) ==
  /\ \E got \in {AllocPages(frames, [i \in 1..c.n |-> 0])} :
       CommitAll([sets EXCEPT ![K(p)].private = @ \cup private], SHARED_MEMS \cup global, shms @@ (SHMID :> got.pages), got.fr, TRUE)
  /\ KEY_TO_SHMID' = (c.key :> SHMID) @@ KEY_TO_SHMID /\ SHMID' = SHMID + 1
  /\ last' = [op |-> "share", shmid |-> SHMID, n |-> c.n, holders |-> IF global = {} THEN {K(p)} ELSE {0}]
  /\ Next1(p) /\ UNCHANGED <<procVars, file>>

\* Without smp the second lock of KEY_TO_SHMID is not noticed.
shmget(p) ==
  \E c \in Calls(p, "shmget") :
    \/ c.key = IPC_PRIVATE /\ Shm(p, c, {}, {SHMID})
    \/ c.key # IPC_PRIVATE /\ c.key \in DOMAIN KEY_TO_SHMID /\ Fails(p)
    \/ c.key # IPC_PRIVATE /\ c.key \notin DOMAIN KEY_TO_SHMID /\ c.creat /\ Shm(p, c, {SHMID}, {})
    \/ c.key # IPC_PRIVATE /\ c.key \notin DOMAIN KEY_TO_SHMID /\ ~c.creat /\ Fails(p)

\* The id of the memory a process means by a key: what shmget answered.
attach_shared_mem(w, id, at, flags) ==
  [Map(w, [v \in at..(at + Len(shms[id]) - 1) |-> [frame |-> shms[id][v - at + 1], flags |-> flags]])
     EXCEPT !.m.attached = Append(@, [at |-> at, flags |-> flags, shmid |-> id])]

Attach(p, c, w, at) ==
  /\ Commit(K(p), attach_shared_mem(w, c.shmid, at, c.flags))
  /\ last' = [op |-> "attach", id |-> K(p), at |-> at, shmid |-> c.shmid, flags |-> c.flags, n |-> Len(shms[c.shmid])]
  /\ Next1(p) /\ UNCHANGED <<procVars, file>>

\* At an address of the caller it takes the place of what is there (SHM_REMAP).
shmat(p) ==
  \E c \in Calls(p, "shmat") :
    \/ c.shmid \notin M(p).private \cup SHARED_MEMS /\ Fails(p)
    \/ /\ c.shmid \in M(p).private \cup SHARED_MEMS
       /\ \/ c.at # 0 /\ Attach(p, c, split_for_area(W(M(p), frames), c.at, Len(shms[c.shmid])), c.at)
          \/ /\ c.at = 0
             /\ \E s \in {find_free_area(M(p), 0, Len(shms[c.shmid]))} :
                  \/ s = 0 /\ Fails(p)
                  \/ s # 0 /\ Attach(p, c, W(M(p), frames), s)

Devices == {f \in DOMAIN frames : f < 0}

\* map_attach_page_without_alloc: an area whose page is the device's.
DevicePage(w, s, f) ==
  Insert(Map([w EXCEPT !.fr = @ @@ (f :> 0)], s :> [frame |-> f, flags |-> {"r", "w"}]), s, Area(<<0>>, {"r", "w"}, FALSE, NoFile))

syscall_get_taic(p) ==
  \E c \in Calls(p, "taic") :
    \/ Cardinality(Devices) >= LQ_NUM /\ Fails(p)
    \/ /\ Cardinality(Devices) < LQ_NUM
       /\ \E s \in {find_free_area(M(p), 0, 1)} :
            /\ Commit(K(p), DevicePage(W(M(p), frames), s, -(Cardinality(Devices) + 1)))
            /\ last' = [op |-> "device", id |-> K(p), at |-> s]
       /\ Next1(p) /\ UNCHANGED <<procVars, file>>

ZeroPage(w) == new_region(w, find_free_area(w.m, 0, 1), 1, FALSE, {"r", "w"}, <<0>>, NoFile)

\* The pages for the two queues of asynchronous calls.
syscall_init_async_batch(p) ==
  \E c \in Calls(p, "batch") :
    /\ \E w \in {ZeroPage(ZeroPage(W(M(p), frames)))} :
         /\ Commit(K(p), w)
         /\ last' = [op |-> "pages", id |-> K(p), at |-> DOMAIN w.m.owned \ DOMAIN M(p).owned]
    /\ Next1(p) /\ UNCHANGED <<procVars, file>>

----------------------------------------------------------------------------
Next ==
  \E p \in Process :
    \/ mmap(p) \/ munmap(p) \/ mprotect(p) \/ msync(p) \/ mremap(p)
    \/ Access(p) \/ handle_page_fault(p) \/ manual_alloc_for_lazy(p)
    \/ clone_task(p) \/ exec(p) \/ exit(p)
    \/ shmget(p) \/ shmat(p) \/ syscall_get_taic(p) \/ syscall_init_async_batch(p)

Spec == Init /\ [][Next]_vars

----------------------------------------------------------------------------
(* Properties.                                                             *)


\* The pages as AddressSpace has them.
Backed(m, v, s) == IF m.owned[s].backend = NoFile THEN NoFile ELSE m.owned[s].backend + v - s

SourceOf(m, v) ==
  IF m.pt[v].frame > 0 THEN -2 ELSE IF m.pt[v].frame < 0 THEN -3 ELSE Backed(m, v, CHOOSE s \in AreaAt(m, v) : TRUE)

PageOf(m, v) ==
  [flags |-> m.pt[v].flags, shared |-> \A s \in AreaAt(m, v) : m.owned[s].shared, source |-> SourceOf(m, v)]

SlotsOf(f) ==
  UNION {{<<k, v>> : v \in {u \in DOMAIN sets[k].pt : sets[k].pt[u].frame = f}} : k \in DOMAIN sets}
    \cup UNION {{<<-x, i>> : i \in {j \in DOMAIN shms[x] : shms[x][j] = f}} : x \in DOMAIN shms}

CellsOf(slots) == [C \in {slots[f] : f \in DOMAIN slots} |-> frames[CHOOSE f \in DOMAIN slots : slots[f] = C]]

AS == INSTANCE AddressSpace WITH
  space <- [k \in DOMAIN sets |-> [v \in DOMAIN sets[k].pt |-> PageOf(sets[k], v)]],
  cells <- CellsOf([f \in {g \in DOMAIN frames : g > 0} |-> SlotsOf(f)]),
  holders <- [x \in DOMAIN shms |-> IF x \in SHARED_MEMS THEN {0} ELSE {k \in DOMAIN sets : x \in sets[k].private}]

=============================================================================
