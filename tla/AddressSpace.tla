---------------------------- MODULE AddressSpace ----------------------------
(***************************************************************************)
(* What the memory calls promise, page by page.  A page has flags; until   *)
(* it is loaded it stands for zeros or for a page of the file, after that  *)
(* for a cell, which several pages may share.  A cell is named by the set  *)
(* of the pages that are it, and those of a shared memory are named with   *)
(* the negative of its number.  There are no areas and no page tables.     *)
(***************************************************************************)
EXTENDS Integers, Sequences, FiniteSets, TLC

CONSTANTS App, NoFile

VARIABLES
  space,    \* the pages of each address space: [flags, shared, source]
  cells,    \* what each cell holds
  file,
  holders,  \* the shared memories, and the address spaces that may attach them
  last      \* the call that was made last

Loaded == -2
Device == -3   \* a page of a device, whose contents are its own

Range2(at, n) == at..(at + n - 1)

Page(flags, shared, source) == [flags |-> flags, shared |-> shared, source |-> source]

\* The cells without some pages.
Without(cs, S) ==
  [C \in {D \ S : D \in DOMAIN cs} \ {{}} |-> cs[CHOOSE D \in DOMAIN cs : D \ S = C]]

CellOf(cs, x) == CHOOSE C \in DOMAIN cs : x \in C

\* Pages become the cells of others.
Joined(cs, f) ==
  [C \in {D \cup {x \in DOMAIN f : f[x] \in D} : D \in DOMAIN cs} |-> cs[CHOOSE D \in DOMAIN cs : D \subseteq C]]

Pages(id, ns) == {<<id, v>> : v \in ns}

Value(cs, x, source) == IF source = Loaded THEN cs[CellOf(cs, x)] ELSE IF source = NoFile THEN 0 ELSE file[source]

Fresh(cs, f) == [C \in {{x} : x \in DOMAIN f} |-> f[CHOOSE x \in DOMAIN f : C = {x}]] @@ cs

AppPages == UNION {Range2(s, Len(App[s].values)) : s \in DOMAIN App}
AppAt(v) == CHOOSE s \in DOMAIN App : v \in Range2(s, Len(App[s].values))

\* The pages of memory that is attached stay when the areas go.
Attached(cs, id, v) == \E C \in DOMAIN cs : <<id, v>> \in C /\ \E x \in C : x[1] < 0

----------------------------------------------------------------------------
Mapped(sp, cs, c, ns) ==
  /\ space' = [sp EXCEPT ![c.id] = [v \in ns |-> Page(c.flags, c.shared, IF c.backend = NoFile THEN NoFile ELSE c.backend + v - c.at)] @@ @]
  /\ cells' = Without(cs, Pages(c.id, ns))

Unmapped(sp, cs, id, ns) ==
  /\ space' = [sp EXCEPT ![id] = [v \in DOMAIN @ \ ns |-> @[v]]]
  /\ cells' = Without(cs, Pages(id, ns))

ProtectedPages(sp, c, ns) ==
  space' = [sp EXCEPT ![c.id] = [v \in DOMAIN @ |-> IF v \in ns THEN [@[v] EXCEPT !.flags = c.flags] ELSE @[v]]]

\* Only pages of the file that the range has loaded change, and they get what is loaded.
SyncedFile(sp, cs, c) ==
  \A i \in DOMAIN file :
    file'[i] = file[i]
      \/ \E v \in Range2(c.at, c.n) \cap DOMAIN sp[c.id] :
           sp[c.id][v].source = Loaded /\ file'[i] = cs[CellOf(cs, <<c.id, v>>)]

\* The new pages are private.  A page that was not loaded is not: it is zero in its new place.
MovedPages(sp, cs, c, from) ==
  /\ space' = [sp EXCEPT ![c.id] =
       [v \in Range2(c.to, c.size) |->
          Page({"r", "w"}, FALSE, IF v - c.to + c.at \in from THEN Loaded ELSE NoFile)]
         @@ [v \in DOMAIN @ \ Range2(c.at, c.n) |-> @[v]]]
  /\ cells' = Without(Fresh(cs, [x \in Pages(c.id, {v - c.at + c.to : v \in from}) |-> cs[CellOf(cs, <<c.id, x[2] - c.to + c.at>>)]]),
                      Pages(c.id, Range2(c.at, c.n)))

LoadedPage(sp, cs, c) ==
  /\ space' = [sp EXCEPT ![c.id][c.at].source = Loaded]
  /\ cells' = ({<<c.id, c.at>>} :> Value(cs, <<c.id, c.at>>, sp[c.id][c.at].source)) @@ cs

Stored(sp, cs, c) ==
  /\ "w" \in sp[c.id][c.at].flags
  /\ \/ sp[c.id][c.at].source = Loaded /\ cells' = [cs EXCEPT ![CellOf(cs, <<c.id, c.at>>)] = c.v]
     \/ sp[c.id][c.at].source = Device /\ cells' = cs

\* Shared pages are loaded and become one; the others are copied, and go on from the same source;
\* in the place of a device the child has ordinary memory.
ChildPage(page, all) == [page EXCEPT !.source = IF all THEN Loaded ELSE IF @ = Device THEN NoFile ELSE @]

Forked(sp, cs, c, all, own) ==
  /\ space' = (c.child :> [v \in DOMAIN sp[c.id] |-> ChildPage(sp[c.id][v], v \in all)])
                @@ [sp EXCEPT ![c.id] = [v \in DOMAIN @ |-> IF v \in all THEN [@[v] EXCEPT !.source = Loaded] ELSE @[v]]]
  /\ cells' = Joined(Fresh(cs,
                 [x \in Pages(c.id, {v \in all : sp[c.id][v].source # Loaded}) |-> Value(cs, x, sp[c.id][x[2]].source)]
                   @@ [x \in Pages(c.child, {v \in own : sp[c.id][v].source = Loaded}) |-> cs[CellOf(cs, <<c.id, x[2]>>)]]),
               [x \in Pages(c.child, all) |-> <<c.id, x[2]>>])

AppLoaded(sp, cs, c, stay) ==
  /\ space' = [sp EXCEPT ![c.id] =
       IF c.found THEN [v \in AppPages |-> Page(App[AppAt(v)].flags, FALSE, Loaded)] @@ [v \in stay |-> @[v]]
       ELSE [v \in stay |-> @[v]]]
  /\ cells' = Fresh(Without(cs, Pages(c.id, DOMAIN sp[c.id] \ stay)),
                    IF c.found THEN [x \in Pages(c.id, AppPages) |-> App[AppAt(x[2])].values[x[2] - AppAt(x[2]) + 1]] ELSE <<>>)

\* A shared memory that nobody may attach any more goes too.
DroppedSpace(sp, cs, hs, id) ==
  /\ space' = [k \in DOMAIN sp \ {id} |-> sp[k]]
  /\ holders' = [x \in {y \in DOMAIN hs : hs[y] # {id}} |-> hs[x] \ {id}]
  /\ cells' = Without(cs, UNION {{x \in C : x[1] = id \/ (x[1] < 0 /\ hs[-x[1]] = {id})} : C \in DOMAIN cs})

AttachedPages(sp, cs, c, ns) ==
  /\ space' = [sp EXCEPT ![c.id] = [v \in ns |-> Page(c.flags, TRUE, Loaded)] @@ @]
  /\ cells' = Joined(Without(cs, Pages(c.id, ns)), [x \in Pages(c.id, ns) |-> <<-c.shmid, x[2] - c.at + 1>>])

Init == holders = <<>>

Step(sp, cs, hs, c) ==
  \/ c.op = "none" /\ space' = sp /\ cells' = cs /\ UNCHANGED <<file, holders>>
  \/ c.op = "map" /\ Mapped(sp, cs, c, Range2(c.at, c.n)) /\ UNCHANGED <<file, holders>>
  \/ c.op = "unmap" /\ Unmapped(sp, cs, c.id, {v \in Range2(c.at, c.n) : ~Attached(cs, c.id, v)}) /\ UNCHANGED <<file, holders>>
  \/ c.op = "protect" /\ ProtectedPages(sp, c, {v \in Range2(c.at, c.n) : ~Attached(cs, c.id, v)}) /\ cells' = cs /\ UNCHANGED <<file, holders>>
  \/ c.op = "sync" /\ SyncedFile(sp, cs, c) /\ space' = sp /\ cells' = cs /\ UNCHANGED holders
  \/ c.op = "move" /\ MovedPages(sp, cs, c, {v \in Range2(c.at, c.n) \cap DOMAIN sp[c.id] : sp[c.id][v].source = Loaded})
       /\ UNCHANGED <<file, holders>>
  \/ c.op = "load" /\ LoadedPage(sp, cs, c) /\ UNCHANGED <<file, holders>>
  \/ c.op = "store" /\ Stored(sp, cs, c) /\ space' = sp /\ UNCHANGED <<file, holders>>
  \/ c.op = "fork" /\ Forked(sp, cs, c, {v \in DOMAIN sp[c.id] : sp[c.id][v].shared}, {v \in DOMAIN sp[c.id] : ~sp[c.id][v].shared})
       /\ holders' = [x \in DOMAIN hs |-> IF c.id \in hs[x] THEN hs[x] \cup {c.child} ELSE hs[x]] /\ UNCHANGED file
  \/ c.op = "exec" /\ AppLoaded(sp, cs, c, {v \in DOMAIN sp[c.id] : Attached(cs, c.id, v)}) /\ UNCHANGED <<file, holders>>
  \/ c.op = "drop" /\ DroppedSpace(sp, cs, hs, c.id) /\ UNCHANGED file
  \/ c.op = "share" /\ holders' = (c.shmid :> c.holders) @@ hs /\ space' = sp
       /\ cells' = Fresh(cs, [x \in Pages(-c.shmid, 1..c.n) |-> 0]) /\ UNCHANGED file
  \/ c.op = "attach" /\ AttachedPages(sp, cs, c, Range2(c.at, c.n)) /\ UNCHANGED <<file, holders>>
  \/ c.op = "device" /\ space' = [sp EXCEPT ![c.id] = (c.at :> Page({"r", "w"}, FALSE, Device)) @@ @] /\ cells' = cs /\ UNCHANGED <<file, holders>>
  \/ c.op = "pages" /\ space' = [sp EXCEPT ![c.id] = [v \in c.at |-> Page({"r", "w"}, FALSE, Loaded)] @@ @]
       /\ cells' = Fresh(cs, [x \in Pages(c.id, c.at) |-> 0]) /\ UNCHANGED <<file, holders>>

Next == \E sp \in {space}, cs \in {cells}, hs \in {holders} : Step(sp, cs, hs, last')

Spec == Init /\ [][Next]_<<space, cells, file, holders, last>>
=============================================================================
