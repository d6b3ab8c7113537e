---------------------------- MODULE BufferedFile ---------------------------
(***************************************************************************)
(* BufReader, BufWriter and Cursor of modules/async_io/src over a file     *)
(* that can seek, and write_all and write_fmt on top of the writer.  The   *)
(* file reads and writes as many bytes as it likes, answers Pending and    *)
(* gives errors.                                                           *)
(*                                                                         *)
(* A step is one poll of the file and what the buffer does with its        *)
(* answer.  A Pending is a step that changes nothing: all that these       *)
(* functions need is in the buffer and in the future, which is polled      *)
(* again.                                                                  *)
(***************************************************************************)
EXTENDS Readers

CONSTANTS
  Contents,   \* the bytes that the file may have at first
  Chunk,      \* what is written
  Cap,        \* the capacity of the buffer
  Low,        \* the least i64
  Calls       \* how many calls are made

VARIABLES
  kind,       \* what is used: "reader", "writer" or "cursor"
  data, pos,  \* the file
  rd,         \* the BufReader
  buf, written,  \* the BufWriter
  call,       \* the call of the reader or writer that is being served
  future,     \* what is left of the bytes of write_all or write_fmt
  ret,        \* the last return value
  made        \* history: how many calls were made

vars == <<kind, data, pos, rd, buf, written, call, future, ret, made>>

NoCall == [op |-> "none"]
NoFuture == [op |-> "none", rest |-> Nothing]
Unread == IF rd.op = "buf_reader" THEN rd.data ELSE Nothing
Rest == Drop(buf, written)   \* what the writer still has to write

\* A file with the bytes d is opened for k.
Start(k, d) ==
  /\ kind = k
  /\ data = d
  /\ pos = 0
  /\ rd = IF k = "reader" THEN buf_reader(Cap, device(1)) ELSE cursor(Nothing)
  /\ buf = Nothing /\ written = 0
  /\ call = NoCall /\ future = NoFuture
  /\ ret = <<"none">> /\ made = 0

Init == \E k \in {"reader", "writer", "cursor"}, d \in Contents : Start(k, d)

----------------------------------------------------------------------------
(* Calls                                                                   *)

SeekCall == [op : {"seek"}, whence : {"start"}, n : 0..2] \cup [op : {"seek"}, whence : {"current", "end"}, n : Low..1]

ReaderCall == [op : {"read", "fill"}, n : 0..(Cap + 1)] \cup SeekCall
WriterCall == [op : {"write"}, bytes : Chunk] \cup [op : {"flush"}] \cup SeekCall
CursorCall == [op : {"read"}, n : 0..2] \cup [op : {"write"}, bytes : Chunk] \cup SeekCall

Call ==
  /\ call = NoCall /\ made < Calls
  /\ made' = made + 1
  /\ call' \in CASE kind = "reader" -> ReaderCall [] kind = "writer" -> WriterCall [] kind = "cursor" -> CursorCall
  /\ future' = NoFuture
  /\ UNCHANGED <<kind, data, pos, rd, buf, written, ret>>

\* write_all and write_fmt pass all that is left to write.
StartFuture(op, bytes) ==
  /\ kind = "writer" /\ call = NoCall /\ made < Calls
  /\ made' = made + 1
  /\ future' = [op |-> op, all |-> bytes, at |-> pos + Len(Rest), rest |-> bytes]
  /\ call' = [op |-> "write", bytes |-> bytes]
  /\ UNCHANGED <<kind, data, pos, rd, buf, written, ret>>

\* The call is over; a future that still has bytes makes the next one, and write_fmt flushes at its end.
Return(r) ==
  /\ ret' = r
  /\ LET rest == IF r[1] = "wrote" THEN Drop(future.rest, Least(r[2], Len(future.rest))) ELSE future.rest IN
     CASE future.op \notin {"write_all", "write_fmt"} -> call' = NoCall /\ UNCHANGED future
       [] r[1] = "error" \/ r = <<"wrote", 0>> -> call' = NoCall /\ future' = NoFuture
       [] r[1] = "flushed" \/ (rest = Nothing /\ future.op = "write_all") ->
            call' = NoCall /\ future' = [future EXCEPT !.op = IF r[1] = "flushed" THEN "flushed" ELSE "written"]
       [] OTHER ->
            /\ future' = [future EXCEPT !.rest = rest]
            /\ call' = IF rest = Nothing THEN [op |-> "flush"] ELSE [op |-> "write", bytes |-> rest]

\* Cursor::seek, and that of the file: the target, or None when it is negative.
SeekTarget(whence, n) ==
  LET t == CASE whence = "start" -> n [] whence = "current" -> pos + n [] whence = "end" -> Len(data) + n IN
  IF t >= 0 THEN <<t>> ELSE Nothing

----------------------------------------------------------------------------
(* Cursor                                                                  *)

TheCursor == [op |-> "cursor", inner |-> data, pos |-> pos]

CursorReads ==
  /\ kind = "cursor" /\ call.op = "read"
  /\ LET g == CursorRead(TheCursor, <<call.n>>) IN pos' = g.s.pos /\ Return(<<"bytes", g.o.v>>)
  /\ UNCHANGED <<kind, data, rd, buf, written, made>>

\* slice_write does not go past the end of the bytes.
slice_write ==
  /\ kind = "cursor" /\ call.op = "write"
  /\ LET p == Least(pos, Len(data))  n == Least(Len(call.bytes), Len(data) - p) IN
     /\ data' = Put(data, p, First(call.bytes, n))
     /\ pos' = pos + n
     /\ Return(<<"wrote", n>>)
  /\ UNCHANGED <<kind, rd, buf, written, made>>

CursorSeek ==
  /\ kind = "cursor" /\ call.op = "seek"
  /\ LET t == SeekTarget(call.whence, call.n) IN
     IF t = Nothing THEN Return(<<"error">>) /\ UNCHANGED pos ELSE pos' = t[1] /\ Return(<<"at", t[1]>>)
  /\ UNCHANGED <<kind, data, rd, buf, written, made>>

----------------------------------------------------------------------------
(* BufReader                                                               *)

\* The reader after the call, given the answer of the file; "fill" is fill_buf, then consume.
Consumed(g) ==
  IF g.o.is = "ask" THEN g
  ELSE LET n == Least(call.n, Len(g.o.v)) IN Give(Consume(g.s, n), Got(First(g.o.v, n)))

Polled(x) ==
  IF call.op = "read" THEN Read(rd, <<call.n>>, x)
  ELSE Consumed(Fill(rd, x))

BufReaderReads ==
  /\ kind = "reader" /\ call.op \in {"read", "fill"}
  /\ \E g \in {Polled(NoAnswer)} :
     \/ g.o.is = "got" /\ rd' = g.s /\ Return(<<"bytes", g.o.v>>) /\ UNCHANGED pos
     \/ /\ g.o.is = "ask"
        /\ LET most == Least(g.o.n, Len(data) - Least(pos, Len(data))) IN
           \E n \in IF most = 0 THEN {0} ELSE 1..most :
             \E h \in {Polled(SubSeq(data, pos + 1, pos + n))} :
             pos' = pos + n /\ rd' = h.s /\ Return(<<"bytes", h.o.v>>)
  /\ UNCHANGED <<kind, data, buf, written, made>>

discard_buffer == rd' = [rd EXCEPT !.data = Nothing]

\* Mutant of BufReaderSeek: the bytes that were read ahead are forgotten.
BufReaderSeekAhead ==
  LET t == SeekTarget(call.whence, call.n) IN
  /\ kind = "reader" /\ call.op = "seek"
  /\ IF t = Nothing THEN Return(<<"error">>) /\ UNCHANGED <<pos, rd>>
     ELSE pos' = t[1] /\ discard_buffer /\ Return(<<"at", t[1]>>)
  /\ UNCHANGED <<kind, data, buf, written, made>>

\* The file is ahead of the reader by what is in the buffer.  When n less that is no i64, the file goes
\* back first; then the buffer is empty and the seek is polled again.
BufReaderSeek ==
  LET ahead == IF call.whence = "current" THEN Len(Unread) ELSE 0
      t == SeekTarget(call.whence, call.n - ahead)
  IN
  /\ kind = "reader" /\ call.op = "seek"
  /\ CASE call.n - ahead < Low -> pos' = pos - ahead /\ discard_buffer /\ UNCHANGED <<call, future, ret>>
       [] call.n - ahead >= Low /\ t = Nothing -> Return(<<"error">>) /\ UNCHANGED <<pos, rd>>
       [] call.n - ahead >= Low /\ t /= Nothing -> pos' = t[1] /\ discard_buffer /\ Return(<<"at", t[1]>>)
  /\ UNCHANGED <<kind, data, buf, written, made>>

----------------------------------------------------------------------------
(* BufWriter                                                               *)

\* Mutant of MustFlush: a write does not flush.
MustFlushLate == buf /= Nothing /\ call.op /= "write"

\* poll_flush_buf comes first: always, but for a write that fits into the buffer.
MustFlush == buf /= Nothing /\ (call.op = "write" => Len(buf) + Len(call.bytes) > Cap)

\* One write of its loop.  The bytes that were written leave the buffer when the loop ends, also by an
\* error or a write of nothing, and not when the file answers Pending.
poll_flush_buf ==
  /\ kind = "writer" /\ call /= NoCall /\ MustFlush
  /\ \E n \in 0..Len(Rest) :
       /\ data' = Put(data, pos, First(Rest, n))
       /\ pos' = pos + n
       /\ \/ n > 0 /\ written + n < Len(buf) /\ written' = written + n /\ UNCHANGED <<buf, call, future, ret>>
          \/ n = Len(Rest) /\ buf' = Nothing /\ written' = 0 /\ UNCHANGED <<call, future, ret>>
          \/ n = 0 /\ buf' = Rest /\ written' = 0 /\ Return(<<"error">>)
  /\ UNCHANGED <<kind, rd, made>>

\* A write as large as the buffer goes to the file, the others into the buffer.
BufWriterWrite ==
  /\ kind = "writer" /\ call.op = "write" /\ ~MustFlush
  /\ \/ /\ Len(call.bytes) >= Cap
        /\ \E n \in 0..Len(call.bytes) :
             data' = Put(data, pos, First(call.bytes, n)) /\ pos' = pos + n /\ Return(<<"wrote", n>>)
        /\ UNCHANGED buf
     \/ /\ Len(call.bytes) < Cap
        /\ buf' = buf \o call.bytes
        /\ Return(<<"wrote", Len(call.bytes)>>)
        /\ UNCHANGED <<data, pos>>
  /\ UNCHANGED <<kind, rd, written, made>>

\* flush and close, and into_inner, which flushes: the file is flushed, or closed, in turn.
BufWriterFlush ==
  /\ kind = "writer" /\ call.op = "flush" /\ ~MustFlush
  /\ Return(<<"flushed">>)
  /\ UNCHANGED <<kind, data, pos, rd, buf, written, made>>

BufWriterSeek ==
  /\ kind = "writer" /\ call.op = "seek" /\ ~MustFlush
  /\ LET t == SeekTarget(call.whence, call.n) IN
     IF t = Nothing THEN Return(<<"error">>) /\ UNCHANGED pos ELSE pos' = t[1] /\ Return(<<"at", t[1]>>)
  /\ UNCHANGED <<kind, data, rd, buf, written, made>>

\* An error of the file in any call but that of poll_flush_buf.
FileError ==
  /\ call /= NoCall /\ kind /= "cursor" /\ (kind = "writer" => ~MustFlush)
  /\ Return(<<"error">>)
  /\ UNCHANGED <<kind, data, pos, rd, buf, written, made>>

----------------------------------------------------------------------------
Next ==
  \/ Call \/ \E op \in {"write_all", "write_fmt"}, bytes \in Chunk \ {Nothing} : StartFuture(op, bytes)
  \/ CursorReads \/ slice_write \/ CursorSeek
  \/ BufReaderReads \/ BufReaderSeek
  \/ poll_flush_buf \/ BufWriterWrite \/ BufWriterFlush \/ BufWriterSeek
  \/ FileError

Spec == Init /\ [][Next]_vars

----------------------------------------------------------------------------
(* Properties                                                              *)

Logical == Put(data, pos, Rest)

\* With a buffer the file behaves as without: every read, write and seek takes effect at the position
\* that the calls before it have left, and a call that fails changes nothing, although bytes were read
\* ahead, are not written yet, or were written in part when an error came.
PF == INSTANCE PlainFile WITH pos <- pos + Len(Rest) - Len(Unread), data <- Logical
ImplementsFile == PF!Spec

\* When write_all or write_fmt has succeeded all its bytes are there, each once; write_fmt has flushed them.
AllWritten ==
  future.op \in {"written", "flushed"} =>
    LET d == IF future.op = "flushed" THEN data ELSE Logical IN
    SubSeq(d, future.at + 1, future.at + Len(future.all)) = future.all
=============================================================================
