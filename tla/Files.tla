------------------------------- MODULE Files -------------------------------
(***************************************************************************)
(* The system calls on descriptors of modules/syscall/src/syscall_fs: the  *)
(* descriptor table of a process, regular files, pipes, event counters and *)
(* epoll files, and the calls that wait for them.                          *)
(*                                                                         *)
(* A call is a sequence of steps, one for each lock region.  The table of  *)
(* a process is locked by fd_lock where a call keeps it locked while it    *)
(* waits for something else; the other regions are single steps that need  *)
(* the lock free.  A call that yields looks again at its next step.        *)
(*                                                                         *)
(* Buffers are mapped, and the calls that index the table without a check  *)
(* are made with descriptors that are in it.                               *)
(***************************************************************************)
EXTENDS Integers, Sequences, SequencesExt, FiniteSets, TLC

CONSTANTS
  Tasks,             \* the tasks, each with a sequence of calls to make
  ProcessOf,         \* the process of each task
  FirstProcess,      \* the one that is not forked from another
  Programs,          \* the functions from Tasks to sequences of calls
  RING_BUFFER_SIZE,  \* bytes of a pipe
  FdLimit,           \* descriptors of a process
  MaxValue,          \* u64::MAX
  MaxLooks,          \* how often a call with a timeout may look
  SignalsTo          \* the tasks that signals may come for

VARIABLES
  files,      \* the open files: what an Arc<dyn FileIO> points to
  pipes,      \* the ring buffers, with what has been put in and taken out
  data,       \* the bytes of the regular file
  fd_table,   \* per process: an open file, or 0, for each descriptor
  fd_lock,    \* per process: the task that keeps the table locked, or 0
  call,       \* per task: the call that is being served
  todo,       \* per task: the calls to come
  ret,        \* per task: the call before and its answer
  signals     \* the tasks with a signal pending

vars == <<files, pipes, data, fd_table, fd_lock, call, todo, ret, signals>>

Processes == {ProcessOf[t] : t \in Tasks}
NoCall == [op |-> "none", plan |-> <<>>, f |-> 0, g |-> 0]
NoAnswer == [op |-> "none", val |-> 0, err |-> "", f |-> 0]

\* An open file.  at: its pipe; value: of an event counter, with all that
\* came in and went out; monitor: the descriptors and events of an epoll file, and lock: who has its inner data.
FileRec(kind, flags) ==
  [kind |-> kind, flags |-> flags, pos |-> 0, at |-> 0, value |-> 0, in |-> 0, out |-> 0, monitor |-> <<>>, lock |-> 0]

\* The processes that do not wait for a fork have the regular file open as descriptor 1.
Start(program) ==
  /\ files = <<FileRec("file", {})>>
  /\ pipes = <<>>
  /\ data = <<7, 8>>
  /\ fd_table = [p \in Processes |-> IF p = FirstProcess THEN <<1>> ELSE <<>>]
  /\ fd_lock = [p \in Processes |-> 0]
  /\ call = [t \in Tasks |-> NoCall]
  /\ todo = program
  /\ ret = [t \in Tasks |-> NoAnswer]
  /\ signals = {}

Init == \E program \in Programs : Start(program)

----------------------------------------------------------------------------
(* Pipes. *)

NewRing == [arr |-> [i \in 0..(RING_BUFFER_SIZE - 1) |-> 0], head |-> 0, tail |-> 0, status |-> "empty",
            sent |-> <<>>, got |-> <<>>]

available_read(r) ==
  CASE r.status = "empty" -> 0
    [] r.status # "empty" /\ r.tail > r.head -> r.tail - r.head
    [] OTHER -> r.tail + RING_BUFFER_SIZE - r.head

available_write(r) == IF r.status = "full" THEN 0 ELSE RING_BUFFER_SIZE - available_read(r)

write_byte(r, b) ==
  [r EXCEPT !.status = IF (r.tail + 1) % RING_BUFFER_SIZE = r.head THEN "full" ELSE "normal",
            !.arr[r.tail] = b, !.tail = (@ + 1) % RING_BUFFER_SIZE, !.sent = Append(@, b)]

\* A read_byte that does not see the buffer run empty.
read_byte_never_empty(r) ==
  [r EXCEPT !.status = "normal", !.head = (@ + 1) % RING_BUFFER_SIZE, !.got = Append(@, r.arr[r.head])]

read_byte(r) ==
  [r EXCEPT !.status = IF (r.head + 1) % RING_BUFFER_SIZE = r.tail THEN "empty" ELSE "normal",
            !.head = (@ + 1) % RING_BUFFER_SIZE, !.got = Append(@, r.arr[r.head])]

RECURSIVE WriteBytes(_, _)
WriteBytes(r, bytes) == IF bytes = <<>> THEN r ELSE WriteBytes(write_byte(r, Head(bytes)), Tail(bytes))

RECURSIVE ReadBytes(_, _)
ReadBytes(r, n) == IF n = 0 THEN r ELSE ReadBytes(read_byte(r), n - 1)

LeastOf(a, b) == IF a < b THEN a ELSE b

\* An open file lives as long as a descriptor or a call has it: the ends of a pipe are counted so.
Alive(f) ==
  \/ \E p \in Processes : f \in Range(fd_table[p])
  \/ \E t \in Tasks : f \in {call[t].f, call[t].g}

End(f, kind) == {g \in DOMAIN files : files[g].kind = kind /\ files[g].at = files[f].at}

all_write_ends_closed(f) == \A g \in End(f, "pipe_w") : ~Alive(g)

\* A write end that does not see that nobody will read.
ReadEndOpen(f) == FALSE

ReadEndClosed(f) == \A g \in End(f, "pipe_r") : ~Alive(g)

Nonblocking(f) == "nonblock" \in files[f].flags

----------------------------------------------------------------------------
(* What the files answer to those that wait. *)

readable(f) == files[f].kind \in {"file", "pipe_r", "eventfd"}
writable(f) == files[f].kind \in {"file", "pipe_w", "eventfd"}

Ring(f) == pipes[files[f].at]

\* A ready_to_read of a pipe that looks at the room instead.
ready_to_read_room(f) ==
  CASE files[f].kind = "pipe_r" -> available_write(Ring(f)) # 0
    [] files[f].kind = "eventfd" -> files[f].value > 0
    [] OTHER -> FALSE

\* A regular file that is readable says that it is not ready.
ready_to_read(f) ==
  CASE files[f].kind = "pipe_r" -> available_read(Ring(f)) # 0
    [] files[f].kind = "eventfd" -> files[f].value > 0
    [] OTHER -> FALSE

ready_to_write(f) ==
  CASE files[f].kind = "pipe_w" -> available_write(Ring(f)) # 0
    [] files[f].kind = "eventfd" -> files[f].value < MaxValue - 1
    [] OTHER -> FALSE

is_hang_up(f) ==
  CASE files[f].kind = "pipe_r" -> available_read(Ring(f)) = 0 /\ all_write_ends_closed(f)
    [] files[f].kind = "pipe_w" -> ReadEndClosed(f)
    [] OTHER -> FALSE

\* The events of a file among those asked for; a descriptor without a file has an error.
EventsOf(f, asked) ==
  IF f = 0 THEN {"err"}
  ELSE {e \in asked \cup {"hup"} : CASE e = "in" -> ready_to_read(f) [] e = "out" -> ready_to_write(f)
                                     [] e = "hup" -> is_hang_up(f)}

----------------------------------------------------------------------------
(* Calls. *)

P(t) == ProcessOf[t]
Table(t) == fd_table[P(t)]
FileAt(t, fd) == IF fd \in DOMAIN Table(t) THEN Table(t)[fd] ELSE 0
Free(t) == fd_lock[P(t)] = 0

At(t, step) == call[t].plan # <<>> /\ Head(call[t].plan) = step

\* The steps of a call after it has its files; readv and writev look their descriptor up for each buffer.
Plan(c) ==
  CASE c.op = "read" -> <<"read">>
    [] c.op = "write" -> <<"write">>
    [] c.op = "readv" -> <<"read", "take", "read">>
    [] c.op = "writev" -> <<"write", "take", "write">>
    [] c.op = "pread64" -> <<"tell", "seek", "read", "restore">>
    [] c.op = "pwrite64" -> <<"tell", "seek", "write", "restore">>
    [] c.op = "sendfile64" -> IF "offset" \in c.flags THEN <<"tell", "seek", "read", "restore", "send">>
                              ELSE <<"tell", "read", "send">>
    [] c.op = "copyfilerange" -> <<"tell", "seek", "read", "send", "restore", "unlock">>
    [] OTHER -> <<>>

Begin(t) ==
  /\ call[t].op = "none" /\ todo[t] # <<>>
  /\ call' = [call EXCEPT ![t] = Head(todo[t]) @@ [plan |-> <<"start">>, got |-> <<>>, old |-> 0, n |-> 0, sum |-> 0,
                                                   i |-> 1, ready |-> {}, looks |-> 0] @@ NoCall]
  /\ todo' = [todo EXCEPT ![t] = Tail(@)]
  /\ UNCHANGED <<files, pipes, data, fd_table, fd_lock, ret, signals>>

\* What comes after the step, or the answer of the call after its last one.
Return(t, val, err) ==
  /\ call' = [call EXCEPT ![t] = NoCall]
  /\ ret' = [ret EXCEPT ![t] = [op |-> call[t].op, val |-> val, err |-> err, f |-> call[t].f]]
  /\ UNCHANGED <<todo, signals>>

Go(t, c) ==
  /\ call' = [call EXCEPT ![t] = c]
  /\ UNCHANGED <<todo, ret, signals>>

Done(t, c, val) == IF Tail(c.plan) = <<>> THEN Return(t, val, "") ELSE Go(t, [c EXCEPT !.plan = Tail(@)])

Stay(t) == Go(t, call[t])

\* Descriptors.
alloc_fd(t) ==
  LET free == {i \in DOMAIN Table(t) : Table(t)[i] = 0}
  IN  IF free # {} THEN CHOOSE i \in free : \A j \in free : i <= j
      ELSE IF Len(Table(t)) >= FdLimit THEN 0 ELSE Len(Table(t)) + 1

With(table, fd, f) == [i \in 1..(IF fd > Len(table) THEN fd ELSE Len(table)) |->
                         IF i = fd THEN f ELSE IF i > Len(table) THEN 0 ELSE table[i]]

SetFd(t, fd, f) == fd_table' = [fd_table EXCEPT ![P(t)] = With(@, fd, f)]

\* A new file gets a descriptor, or the call fails with what it fails with.
Install(t, rec, full) ==
  \E fd \in {alloc_fd(t)} :
    IF fd = 0 THEN Return(t, 0, full) /\ UNCHANGED <<files, fd_table>>
    ELSE files' = Append(files, rec) /\ SetFd(t, fd, Len(files) + 1) /\ Return(t, fd, "")

eventfd(t) ==
  /\ call[t].op = "eventfd" /\ Free(t)
  /\ Install(t, [FileRec("eventfd", call[t].flags) EXCEPT !.value = call[t].n, !.in = call[t].n], "EPERM")
  /\ UNCHANGED <<pipes, data, fd_lock>>

epoll_create1(t) ==
  /\ call[t].op = "epoll_create1" /\ Free(t)
  /\ Install(t, FileRec("epoll", {}), "EMFILE")
  /\ UNCHANGED <<pipes, data, fd_lock>>

\* pipe2: the table keeps the read end if there is no descriptor for the write end.
pipe2(t) ==
  /\ call[t].op = "pipe2" /\ Free(t)
  /\ \E r \in {[FileRec("pipe_r", call[t].flags) EXCEPT !.at = Len(pipes) + 1]},
        w \in {[FileRec("pipe_w", call[t].flags) EXCEPT !.at = Len(pipes) + 1]},
        fd \in {alloc_fd(t)} :
       IF fd = 0 THEN Return(t, 0, "EPERM") /\ UNCHANGED <<files, pipes, fd_table>>
       ELSE \E table \in {With(Table(t), fd, Len(files) + 1)} :
            /\ pipes' = Append(pipes, NewRing)
            /\ files' = files \o <<r, w>>
            /\ \E free \in {{i \in DOMAIN table : table[i] = 0}} :
                 \E fd2 \in {IF free # {} THEN CHOOSE i \in free : \A j \in free : i <= j
                             ELSE IF Len(table) >= FdLimit THEN 0 ELSE Len(table) + 1} :
                   IF fd2 = 0 THEN fd_table' = [fd_table EXCEPT ![P(t)] = table] /\ Return(t, 0, "EPERM")
                   ELSE /\ fd_table' = [fd_table EXCEPT ![P(t)] = With(table, fd2, Len(files) + 2)]
                        /\ Return(t, fd, "")
  /\ UNCHANGED <<data, fd_lock>>

close(t) ==
  /\ call[t].op = "close" /\ Free(t)
  /\ IF FileAt(t, call[t].fd) = 0 THEN Return(t, 0, "EPERM") /\ UNCHANGED fd_table
     ELSE SetFd(t, call[t].fd, 0) /\ Return(t, 0, "")
  /\ UNCHANGED <<files, pipes, data, fd_lock>>

\* dup, and fcntl64 with F_DUPFD or F_DUPFD_CLOEXEC: the flag goes to the file, which both descriptors have.
dup(t) ==
  /\ call[t].op = "dup" /\ Free(t)
  /\ \E f \in {FileAt(t, call[t].fd)}, fd \in {alloc_fd(t)} :
       IF f = 0 \/ fd = 0 THEN Return(t, 0, IF f = 0 THEN "EBADF" ELSE "EMFILE") /\ UNCHANGED <<files, fd_table>>
       ELSE /\ SetFd(t, fd, f)
            /\ files' = IF "cloexec" \in call[t].flags THEN [files EXCEPT ![f].flags = @ \cup {"cloexec"}] ELSE files
            /\ Return(t, fd, "")
  /\ UNCHANGED <<pipes, data, fd_lock>>

dup3(t) ==
  /\ call[t].op = "dup3" /\ Free(t)
  /\ \E f \in {FileAt(t, call[t].fd)}, fd \in {call[t].fd2} :
       CASE f = 0 -> Return(t, 0, "EPERM") /\ UNCHANGED <<files, fd_table>>
         [] f # 0 /\ fd = call[t].fd -> Return(t, 0, "EINVAL") /\ UNCHANGED <<files, fd_table>>
         [] OTHER -> IF fd > Len(Table(t)) /\ fd > FdLimit THEN Return(t, 0, "EBADF") /\ UNCHANGED <<files, fd_table>>
                     ELSE /\ SetFd(t, fd, f)
                          /\ files' = IF "cloexec" \in call[t].flags THEN [files EXCEPT ![f].flags = @ \cup {"cloexec"}]
                                      ELSE files
                          /\ Return(t, fd, "")
  /\ UNCHANGED <<pipes, data, fd_lock>>

\* fcntl64 with F_SETFD, and with F_SETFL, whose set_status is never polled; ioctl with FIONBIO.
SetFlags(t) ==
  /\ call[t].op \in {"setfd", "setfl", "fionbio"} /\ Free(t)
  /\ \E f \in {FileAt(t, call[t].fd)} :
       /\ files' = CASE f = 0 \/ call[t].op = "setfl" -> files
                     [] f # 0 /\ call[t].op = "setfd" -> [files EXCEPT ![f].flags = (@ \ {"cloexec"}) \cup call[t].flags]
                     [] f # 0 /\ call[t].op = "fionbio" -> [files EXCEPT ![f].flags = @ \cup {"nonblock"}]
       /\ Return(t, 0, IF f = 0 THEN "EBADF" ELSE "")
  /\ UNCHANGED <<pipes, data, fd_table, fd_lock>>

\* exec: close_on_exec; descriptors 1 and 2 stand for those that it opens again, and are not closed here.
exec(t) ==
  /\ call[t].op = "exec" /\ Free(t)
  /\ fd_table' = [fd_table EXCEPT ![P(t)] =
       [i \in DOMAIN @ |-> IF @[i] # 0 /\ "cloexec" \in files[@[i]].flags THEN 0 ELSE @[i]]]
  /\ Return(t, 0, "")
  /\ UNCHANGED <<files, pipes, data, fd_lock>>

\* fork: the child's table has the same files, and its task what the program gives it to do.
fork(t) ==
  /\ call[t].op = "fork" /\ Free(t)
  /\ fd_table' = [fd_table EXCEPT ![P(call[t].child)] = Table(t)]
  /\ todo' = [todo EXCEPT ![call[t].child] = call[t].program]
  /\ call' = [call EXCEPT ![t] = NoCall]
  /\ ret' = [ret EXCEPT ![t] = NoAnswer]
  /\ UNCHANGED signals
  /\ UNCHANGED <<files, pipes, data, fd_lock>>

\* lseek and ftruncate64 do all they do with the table locked.
lseek(t) ==
  /\ call[t].op = "lseek" /\ Free(t)
  /\ \E f \in {FileAt(t, call[t].fd)} :
       IF f = 0 \/ files[f].kind # "file" THEN Return(t, 0, IF f = 0 THEN "EBADF" ELSE "EINVAL") /\ UNCHANGED files
       ELSE \E to \in {CASE call[t].whence = "set" -> call[t].n
                         [] call[t].whence = "cur" -> files[f].pos + call[t].n
                         [] call[t].whence = "end" -> Len(data) + call[t].n} :
              IF to < 0 THEN Return(t, 0, "EINVAL") /\ UNCHANGED files
              ELSE files' = [files EXCEPT ![f].pos = to] /\ Return(t, to, "")
  /\ UNCHANGED <<pipes, data, fd_table, fd_lock>>

Padded(bytes, n) == bytes \o [i \in 1..(IF n > Len(bytes) THEN n - Len(bytes) ELSE 0) |-> 0]

ftruncate64(t) ==
  /\ call[t].op = "ftruncate64" /\ Free(t)
  /\ \E f \in {FileAt(t, call[t].fd)} :
       IF f = 0 \/ files[f].kind # "file" THEN Return(t, 0, "EINVAL") /\ UNCHANGED data
       ELSE data' = SubSeq(Padded(data, call[t].n), 1, call[t].n) /\ Return(t, 0, "")
  /\ UNCHANGED <<files, pipes, fd_table, fd_lock>>

----------------------------------------------------------------------------
(* Reading and writing. *)

IoOps == {"read", "write", "readv", "writev", "pread64", "pwrite64", "sendfile64", "copyfilerange"}
Reading == {"read", "readv"}
Writing == {"write", "writev"}

\* The file of the descriptor, and the second one; copyfilerange keeps the table locked.
Take(t) ==
  /\ call[t].op \in IoOps /\ (At(t, "start") \/ At(t, "take")) /\ Free(t)
  /\ \E f \in {FileAt(t, call[t].fd)} :
       IF f = 0 \/ (call[t].op \in Reading /\ ~readable(f)) \/ (call[t].op \in Writing /\ ~writable(f))
       THEN Return(t, 0, "EBADF") /\ UNCHANGED fd_lock
       ELSE /\ Go(t, [call[t] EXCEPT !.f = f, !.g = IF "fd2" \in DOMAIN call[t] THEN FileAt(t, call[t].fd2) ELSE f,
                                     !.plan = IF At(t, "start") THEN Plan(call[t]) ELSE Tail(@)])
            /\ fd_lock' = IF call[t].op = "copyfilerange" THEN [fd_lock EXCEPT ![P(t)] = t] ELSE fd_lock
  /\ UNCHANGED <<files, pipes, data, fd_table>>

Tell(t) ==
  /\ At(t, "tell")
  /\ Done(t, [call[t] EXCEPT !.old = files[call[t].f].pos], 0)
  /\ UNCHANGED <<files, pipes, data, fd_table, fd_lock>>

Seek(t) ==
  \E c \in {call[t]} :
  /\ At(t, "seek") \/ At(t, "restore")
  /\ files' = [files EXCEPT ![c.f].pos = IF At(t, "seek") THEN c.off ELSE c.old]
  /\ Done(t, c, c.sum)
  /\ UNCHANGED <<pipes, data, fd_table, fd_lock>>

Unlock(t) ==
  /\ At(t, "unlock")
  /\ fd_lock' = [fd_lock EXCEPT ![P(t)] = 0]
  /\ Done(t, call[t], call[t].sum)
  /\ UNCHANGED <<files, pipes, data, fd_table>>

\* read of the file of a call: as many bytes as there are, and as many as are wanted.
ReadDone(t, got) == Done(t, [call[t] EXCEPT !.got = got, !.sum = @ + Len(got)], call[t].sum + Len(got))

ReadFile(t) ==
  \E f \in {call[t].f} :
  /\ At(t, "read") /\ files[f].kind = "file"
  /\ \E got \in {SubSeq(data, files[f].pos + 1, LeastOf(files[f].pos + call[t].n, Len(data)))} :
       /\ files' = [files EXCEPT ![f].pos = @ + Len(got)]
       /\ ReadDone(t, got)
  /\ UNCHANGED <<pipes, data, fd_table, fd_lock>>

\* A pipe without a byte: interrupted by a signal, at its end, or later.  A reader that does not want to
\* block yields before it says so, is polled again from the start, and so goes on as one that does.
ReadPipeEmpty(t) ==
  \E f \in {call[t].f} :
  /\ At(t, "read") /\ files[f].kind = "pipe_r" /\ available_read(Ring(f)) = 0
  /\ CASE t \in signals -> Return(t, 0, "EPERM")
       [] t \notin signals /\ all_write_ends_closed(f) -> ReadDone(t, <<>>)
       [] OTHER -> Stay(t)
  /\ UNCHANGED <<files, pipes, data, fd_table, fd_lock>>

ReadPipe(t) ==
  \E f \in {call[t].f} :
  /\ At(t, "read") /\ files[f].kind = "pipe_r" /\ available_read(Ring(f)) > 0
  /\ \E after \in {ReadBytes(Ring(f), LeastOf(available_read(Ring(f)), call[t].n))} :
       /\ pipes' = [pipes EXCEPT ![files[f].at] = after]
       /\ ReadDone(t, SubSeq(after.got, Len(Ring(f).got) + 1, Len(after.got)))
  /\ UNCHANGED <<files, data, fd_table, fd_lock>>

\* An event counter of zero: the task is pending and nobody is to wake it.
ReadEvent(t) ==
  \E f \in {call[t].f} :
  /\ At(t, "read") /\ files[f].kind = "eventfd"
  /\ files[f].value = 0 => Nonblocking(f)
  /\ IF files[f].value = 0 THEN Return(t, 0, "EAGAIN") /\ UNCHANGED files
     ELSE /\ files' = IF "semaphore" \in files[f].flags THEN files ELSE [files EXCEPT ![f].value = 0, ![f].out = @ + files[f].value]
          /\ Return(t, IF "semaphore" \in files[f].flags THEN 1 ELSE files[f].value, "")
  /\ UNCHANGED <<pipes, data, fd_table, fd_lock>>

\* write, of the bytes of the call or of those that it has read.
Bytes(t) == IF At(t, "send") THEN call[t].got ELSE call[t].bytes
Target(t) == IF At(t, "send") THEN call[t].g ELSE call[t].f
IsWriting(t) == At(t, "write") \/ At(t, "send")
WriteDone(t, n) == Done(t, [call[t] EXCEPT !.sum = IF At(t, "send") THEN n ELSE @ + n],
                        IF At(t, "send") THEN n ELSE call[t].sum + n)

\* A regular file is filled up with zeros first if the position is past its end.
PutAt(bytes, pos, new) ==
  [i \in 1..(IF pos + Len(new) > Len(bytes) THEN pos + Len(new) ELSE Len(bytes)) |->
     IF i > pos /\ i <= pos + Len(new) THEN new[i - pos] ELSE bytes[i]]

WriteFile(t) ==
  \E f \in {Target(t)} :
  /\ IsWriting(t) /\ files[f].kind = "file"
  /\ data' = PutAt(Padded(data, files[f].pos), files[f].pos, Bytes(t))
  /\ files' = [files EXCEPT ![f].pos = @ + Len(Bytes(t))]
  /\ WriteDone(t, Len(Bytes(t)))
  /\ UNCHANGED <<pipes, fd_table, fd_lock>>

\* A full pipe: nobody to read it, a writer that does not want to block, or later.
WritePipeFull(t) ==
  \E f \in {Target(t)} :
  /\ IsWriting(t) /\ files[f].kind = "pipe_w" /\ available_write(Ring(f)) = 0
  /\ IF ReadEndClosed(f) \/ Nonblocking(f) THEN WriteDone(t, 0) ELSE Stay(t)
  /\ UNCHANGED <<files, pipes, data, fd_table, fd_lock>>

WritePipe(t) ==
  \E f \in {Target(t)} :
  /\ IsWriting(t) /\ files[f].kind = "pipe_w" /\ available_write(Ring(f)) > 0
  /\ \E n \in {LeastOf(available_write(Ring(f)), Len(Bytes(t)))} :
       /\ pipes' = [pipes EXCEPT ![files[f].at] = WriteBytes(@, SubSeq(Bytes(t), 1, n))]
       /\ WriteDone(t, n)
  /\ UNCHANGED <<files, data, fd_table, fd_lock>>

EventFits(value, v) == value + v + 1 <= MaxValue

\* The counter takes what keeps it below the largest value; otherwise as for a counter of zero.
WriteEvent(t) ==
  \E f \in {Target(t)} :
  /\ IsWriting(t) /\ files[f].kind = "eventfd"
  /\ \E v \in {call[t].bytes[1]} :
       CASE v = MaxValue -> Return(t, 0, "EINVAL") /\ UNCHANGED files
         [] v # MaxValue /\ EventFits(files[f].value, v) ->
              files' = [files EXCEPT ![f].value = @ + v, ![f].in = @ + v] /\ Return(t, v, "")
         [] OTHER -> Nonblocking(f) /\ Return(t, 0, "EAGAIN") /\ UNCHANGED files
  /\ UNCHANGED <<pipes, data, fd_table, fd_lock>>

----------------------------------------------------------------------------
(* ppoll and pselect6: one look at each file, then again. *)

\* ppoll asks by descriptor each time; pselect6 keeps the files that it found first.
StartPoll(t) ==
  /\ call[t].op \in {"ppoll", "pselect6"} /\ At(t, "start") /\ Free(t)
  /\ IF call[t].op = "pselect6" /\ \E k \in DOMAIN call[t].fds : FileAt(t, call[t].fds[k]) = 0
     THEN Return(t, 0, "EBADF")
     ELSE Go(t, [call[t] EXCEPT !.plan = <<"poll">>, !.got = [k \in DOMAIN call[t].fds |-> FileAt(t, call[t].fds[k])]])
  /\ UNCHANGED <<files, pipes, data, fd_table, fd_lock>>

Poll(t) ==
  \E c \in {call[t]} :
  /\ c.op \in {"ppoll", "pselect6"} /\ At(t, "poll") /\ c.i <= Len(c.fds)
  /\ c.op = "ppoll" => Free(t)
  /\ \E ev \in {EventsOf(IF c.op = "ppoll" THEN FileAt(t, c.fds[c.i]) ELSE c.got[c.i], c.events)} :
       Go(t, [c EXCEPT !.i = @ + 1,
                       !.ready = IF ev \ (IF c.op = "ppoll" THEN {} ELSE {"hup"}) = {} THEN @ ELSE @ \cup {<<c.fds[c.i], ev>>}])
  /\ UNCHANGED <<files, pipes, data, fd_table, fd_lock>>

\* The time that a call may wait is over after at most MaxLooks looks, or it waits without a limit.
Waits(c) == "timeout" \in c.flags => c.looks < MaxLooks

Later(c) == IF "timeout" \in c.flags THEN c.looks + 1 ELSE 0

\* After a look at all: ready, timed out, or again, if no signal came meanwhile.
EndPoll(t) ==
  \E c \in {call[t]} :
  /\ c.op \in {"ppoll", "pselect6"} /\ At(t, "poll") /\ c.i > Len(c.fds)
  /\ \/ c.ready # {} /\ Return(t, c.ready, "")
     \/ c.ready = {} /\ "timeout" \in c.flags /\ Return(t, {}, "")
     \/ c.ready = {} /\ Waits(c) /\ IF t \in signals THEN Return(t, {}, IF c.op = "ppoll" THEN "" ELSE "EINTR")
                                    ELSE Go(t, [c EXCEPT !.i = 1, !.looks = Later(c)])
  /\ UNCHANGED <<files, pipes, data, fd_table, fd_lock>>

----------------------------------------------------------------------------
(* epoll. *)

\* epoll_ctl locks the table and then the epoll file.
epoll_ctl_table(t) ==
  \E c \in {call[t]} :
  /\ c.op = "epoll_ctl" /\ At(t, "start") /\ Free(t)
  /\ \E ep \in {FileAt(t, c.epfd)} :
       IF FileAt(t, c.fd) = 0 \/ ep = 0 THEN Return(t, 0, "EBADF") /\ UNCHANGED fd_lock
       ELSE IF files[ep].kind # "epoll" THEN Return(t, 0, "EBADF") /\ UNCHANGED fd_lock
       ELSE /\ Go(t, [c EXCEPT !.plan = <<"ctl">>, !.f = ep])
            /\ fd_lock' = [fd_lock EXCEPT ![P(t)] = t]
  /\ UNCHANGED <<files, pipes, data, fd_table>>

Monitors(ep, fd) == \E k \in DOMAIN files[ep].monitor : files[ep].monitor[k].fd = fd
Others(ep, fd) == SelectSeq(files[ep].monitor, LAMBDA m : m.fd # fd)

epoll_ctl(t) ==
  \E c \in {call[t]} :
  /\ c.op = "epoll_ctl" /\ At(t, "ctl") /\ files[c.f].lock = 0
  /\ IF c.ctl # "add" /\ ~Monitors(c.f, c.fd) THEN Return(t, 0, "ENOENT") /\ UNCHANGED files
     ELSE /\ files' = [files EXCEPT ![c.f].monitor =
                         IF c.ctl = "del" THEN Others(c.f, c.fd)
                         ELSE Append(Others(c.f, c.fd), [fd |-> c.fd, events |-> c.events])]
          /\ Return(t, 0, "")
  /\ fd_lock' = [fd_lock EXCEPT ![P(t)] = 0]
  /\ UNCHANGED <<pipes, data, fd_table>>

StartWait(t) ==
  \E c \in {call[t]} :
  /\ c.op = "epoll_wait" /\ At(t, "start") /\ Free(t)
  /\ \E ep \in {FileAt(t, c.epfd)} :
       IF ep = 0 THEN Return(t, 0, "EBADF")
       ELSE IF files[ep].kind # "epoll" THEN Return(t, 0, "EBADF")
       ELSE Go(t, [c EXCEPT !.plan = <<"wait">>, !.f = ep])
  /\ UNCHANGED <<files, pipes, data, fd_table, fd_lock>>

\* epoll_wait locks the epoll file, and then the table for each descriptor.
LockEpoll(t) ==
  /\ call[t].op = "epoll_wait" /\ At(t, "wait") /\ files[call[t].f].lock = 0
  /\ files' = [files EXCEPT ![call[t].f].lock = t]
  /\ Go(t, [call[t] EXCEPT !.plan = <<"look">>, !.i = 1])
  /\ UNCHANGED <<pipes, data, fd_table, fd_lock>>

LookEpoll(t) ==
  \E c \in {call[t]} :
  /\ c.op = "epoll_wait" /\ At(t, "look") /\ c.i <= Len(files[c.f].monitor) /\ Free(t)
  /\ \E m \in {files[c.f].monitor[c.i]} :
       \E ev \in {EventsOf(FileAt(t, m.fd), m.events)} :
         Go(t, [c EXCEPT !.i = @ + 1, !.ready = IF ev = {} THEN @ ELSE @ \cup {<<m.fd, ev>>}])
  /\ UNCHANGED <<files, pipes, data, fd_table, fd_lock>>

\* The answer is cut to the number of events that the caller has room for; it is one if there is any.
EndWait(t) ==
  \E c \in {call[t]} :
  /\ c.op = "epoll_wait" /\ At(t, "look") /\ c.i > Len(files[c.f].monitor)
  /\ files' = [files EXCEPT ![c.f].lock = 0]
  /\ \/ c.ready # {} /\ Return(t, c.ready, "")
     \/ c.ready = {} /\ "timeout" \in c.flags /\ Return(t, {}, "")
     \/ c.ready = {} /\ Waits(c) /\ IF t \in signals THEN Return(t, {}, "EINTR")
                                    ELSE Go(t, [c EXCEPT !.plan = <<"wait">>, !.looks = Later(c)])
  /\ UNCHANGED <<pipes, data, fd_table, fd_lock>>

----------------------------------------------------------------------------
\* A process whose tasks have made all their calls exits, and its table goes.
Exit(p) ==
  /\ \A t \in Tasks : ProcessOf[t] = p => call[t].op = "none" /\ todo[t] = <<>>
  /\ fd_table[p] # <<>>
  /\ fd_table' = [fd_table EXCEPT ![p] = <<>>]
  /\ UNCHANGED <<files, pipes, data, fd_lock, call, todo, ret, signals>>

Signal(t) ==
  /\ t \notin signals
  /\ signals' = signals \cup {t}
  /\ UNCHANGED <<files, pipes, data, fd_table, fd_lock, call, todo, ret>>

Step(t) ==
  \/ Begin(t)
  \/ eventfd(t) \/ epoll_create1(t) \/ pipe2(t) \/ close(t) \/ dup(t) \/ dup3(t) \/ SetFlags(t) \/ exec(t) \/ fork(t)
  \/ lseek(t) \/ ftruncate64(t)
  \/ Take(t) \/ Tell(t) \/ Seek(t) \/ Unlock(t)
  \/ ReadFile(t) \/ ReadPipeEmpty(t) \/ ReadPipe(t) \/ ReadEvent(t)
  \/ WriteFile(t) \/ WritePipeFull(t) \/ WritePipe(t) \/ WriteEvent(t)
  \/ StartPoll(t) \/ Poll(t) \/ EndPoll(t)
  \/ epoll_ctl_table(t) \/ epoll_ctl(t) \/ StartWait(t) \/ LockEpoll(t) \/ LookEpoll(t) \/ EndWait(t)

Next ==
  \/ \E t \in Tasks : Step(t)
  \/ \E p \in Processes : Exit(p)
  \/ \E t \in SignalsTo : Signal(t)

\* Every task that can run is polled again and again; no signal need come.
Fairness == (\A t \in Tasks : WF_vars(Step(t))) /\ (\A p \in Processes : WF_vars(Exit(p)))

Spec == Init /\ [][Next]_vars /\ Fairness

----------------------------------------------------------------------------
(* Properties. *)

InPipe(r) == [i \in 1..available_read(r) |-> r.arr[(r.head + i - 1) % RING_BUFFER_SIZE]]

EndSeen(t) == ret[t].op = "read" /\ ret[t].err = "" /\ ret[t].val = 0 /\ files[ret[t].f].kind = "pipe_r"

PollOps == {"ppoll", "pselect6", "epoll_wait"}

SharedWith(t, f) == \E u \in Tasks \ {t} : f \in Range(Table(u)) \cup {call[u].f}

\* A pipe gives the bytes that were put in, in order, none twice and none lost, however full it gets and
\* wherever its ring wraps around; a reader is told of the end only when every byte has been read and no
\* descriptor is left to write another.  An event counter without EFD_SEMAPHORE holds what was written to
\* it and not yet read, and stays below the largest value of its type.
PipesInOrder ==
  /\ \A k \in DOMAIN pipes : pipes[k].got \o InPipe(pipes[k]) = pipes[k].sent
  /\ \A t \in Tasks : EndSeen(t) => Ring(ret[t].f).got = Ring(ret[t].f).sent /\ all_write_ends_closed(ret[t].f)
  /\ \A f \in DOMAIN files : files[f].kind = "eventfd" /\ "semaphore" \notin files[f].flags =>
       files[f].value = files[f].in - files[f].out /\ files[f].value < MaxValue

\* What ppoll, pselect6 and epoll_wait have said of the read end of a pipe still holds when the task goes
\* on, if no other has that end, whatever was written or closed since: there is a byte, or nothing will come.
ReadyStays ==
  \A t \in Tasks : call[t].op = "none" /\ ret[t].op \in PollOps /\ ret[t].err = "" =>
    \A r \in ret[t].val : \A f \in {FileAt(t, r[1])} :
      f # 0 /\ files[f].kind = "pipe_r" /\ ~SharedWith(t, f) =>
        /\ "in" \in r[2] => available_read(Ring(f)) > 0
        /\ "hup" \in r[2] => available_read(Ring(f)) = 0 /\ all_write_ends_closed(f)

\* What pipes give, and what polling says of them.
PipesCorrect == PipesInOrder /\ ReadyStays

\* A call on pipes ends once there is a byte, room, or nobody at the other end: a reader or a writer that
\* yields and looks again does not do so for ever when the other process goes on or exits.
CallsEnd == \A t \in Tasks : call[t].op # "none" ~> call[t].op = "none"

============================================================================
