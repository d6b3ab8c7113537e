------------------------------- MODULE MCJoin -------------------------------
(***************************************************************************)
(* Instances of joining and of the memory of processes.  A behaviour runs  *)
(* one of them, `part`; the other stays as it was initialised.             *)
(***************************************************************************)
EXTENDS Join, Integers, TLC

CONSTANTS
  c1, c2,
  Process, UserStart, FileSize, LQ_NUM

OneOrTwo == {{c1}, {c1, c2}}

----------------------------------------------------------------------------
(* The calls on memory, each a set of alternatives.                        *)

U == UserStart

\* A program with a page of code and, six pages further on, one of data.
App == (U :> [values |-> <<7>>, flags |-> {"r", "x"}]) @@ ((U + 7) :> [values |-> <<8>>, flags |-> {"r", "w"}])

rw == {"r", "w"}
anonymous == -1
map(start, n, flags, shared, fixed, backend) ==
  [op |-> "mmap", at |-> start, n |-> n, flags |-> flags, shared |-> shared, fixed |-> fixed, backend |-> backend]
unmap(start, n) == [op |-> "munmap", at |-> start, n |-> n]
protect(start, n, flags) == [op |-> "mprotect", at |-> start, n |-> n, flags |-> flags]
sync(start, n) == [op |-> "msync", at |-> start, n |-> n]
remap(start, n, size) == [op |-> "mremap", at |-> start, n |-> n, size |-> size]
write(page, v) == [op |-> "access", at |-> page, kind |-> "w", v |-> v]
read(page) == [op |-> "access", at |-> page, kind |-> "r", v |-> 0]
buffer(page) == [op |-> "buffer", at |-> page]
clone(vm) == [op |-> "clone", vm |-> vm]
run(found) == [op |-> "exec", found |-> found]
leave == [op |-> "exit"]
get(key, n, creat) == [op |-> "shmget", key |-> key, n |-> n, creat |-> creat]
attach(shmid, start, flags) == [op |-> "shmat", shmid |-> shmid, at |-> start, flags |-> flags]
taic == [op |-> "taic"]
batch == [op |-> "batch"]

\* All ranges of the pages that are mapped at U + 1.
Ranges == {<<a, n>> \in ((U + 1)..(U + 4)) \X (1..3) : a + n <= U + 5}

Areas == {map(U + 1, 3, rw, FALSE, TRUE, 1), map(U + 2, 3, {"r"}, TRUE, FALSE, anonymous)}
Maps == {map(U + 3, 2, rw, TRUE, TRUE, 0), map(0, 3, rw, FALSE, FALSE, anonymous), map(0, 6, rw, FALSE, FALSE, anonymous)}
Unmaps == {unmap(r[1], r[2]) : r \in Ranges}
Protects == {protect(r[1], r[2], {"r"}) : r \in Ranges}
Writes == {write(U + 1, 1), write(U + 3, 1)}

MemPrograms == {
  <<Areas, Writes, Unmaps \cup Protects, {unmap(U + 2, 1), protect(U + 1, 2, rw)}, Writes, {sync(U + 1, 3)}>>,
  <<Areas, Maps, {read(U + 3)}, {clone(FALSE)}, {write(U + 3, 2), buffer(U + 2), sync(U + 1, 4), buffer(U + 6)}, {unmap(U + 2, 2), leave, run(TRUE), run(FALSE)}>>,
  <<Areas, Writes, {remap(U + 1, 2, 2), remap(U + 1, 3, 1), remap(U + 2, 1, 2), remap(U + 2, 2, 5)}, Writes, {unmap(U + 4, 2)}>>,
  <<{get(0, 1, TRUE), get(5, 2, TRUE), get(5, 2, FALSE)}, {attach(1, 0, rw), attach(1, U + 3, rw)}, {clone(FALSE), clone(TRUE)},
    {get(5, 2, TRUE), write(U + 3, 2), attach(2, 0, {"r"})}, {write(U + 1, 2), leave}, {leave}>>,
  <<{get(0, 1, TRUE)}, {attach(1, 0, rw)}, {run(TRUE)}, {write(U + 1, 2)}, {get(5, 8, TRUE)}, {attach(2, 0, rw), leave}>>,
  <<{taic}, {batch}, {write(U + 1, 1)}, {clone(FALSE)}, {taic, write(U + 1, 2)}, {taic, unmap(U + 1, 2)}>>}

----------------------------------------------------------------------------
VARIABLES
  part,
  sets, set_of, token, frames, file, shms, SHARED_MEMS, KEY_TO_SHMID, SHMID, todo, last, mem_panicked

Mem == INSTANCE Memory WITH Programs <- MemPrograms, panicked <- mem_panicked

memVars == <<sets, set_of, token, frames, file, shms, SHARED_MEMS, KEY_TO_SHMID, SHMID, todo, last, mem_panicked>>
allVars == <<part, vars, memVars>>

MCInit ==
  /\ part \in {"join", "memory"}
  /\ Init /\ (part = "memory" => cpus = {c1})
  /\ \E program \in IF part = "memory" THEN MemPrograms ELSE {<<>>} : Mem!Start(program)

MCNext ==
  /\ UNCHANGED part
  /\ \/ part = "join" /\ Next /\ UNCHANGED memVars
     \/ part = "memory" /\ Mem!Next /\ UNCHANGED vars

\* The fairness of Join, where it runs.
Others == UNCHANGED <<part, cpus, memVars>>
JoinFairness ==
  \A t \in Task :
    /\ SF_allVars(part = "join" /\ Others /\ \E c \in cpus : PickNext(c, t))
    /\ WF_allVars(part = "join" /\ Others /\ \E c \in cpus : Proceed(c, t))
    /\ SF_allVars(part = "join" /\ Others /\ \E c \in cpus : Exit(c, t))

MCSpec == MCInit /\ [][MCNext]_allVars /\ JoinFairness

----------------------------------------------------------------------------
(* Properties of the memory.                                               *)


=============================================================================
