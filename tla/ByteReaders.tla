---------------------------- MODULE ByteReaders ----------------------------
(***************************************************************************)
(* modules/async_io/src, the reading half: readers made of readers         *)
(* (BufReader, Take, Chain, Cursor) and the futures and streams that take  *)
(* bytes out of one (read, read_exact, read_to_end, lines, split, ...).    *)
(*                                                                         *)
(* One step is one poll of one device, followed by all that the readers    *)
(* and the future do with its answer until a device is polled again or the *)
(* future returns.  A device answers with as many bytes as it likes, with  *)
(* Pending, or with an error.  What it reads for is kept in `whole`, so    *)
(* that the bytes can be accounted for.                                    *)
(***************************************************************************)
EXTENDS Readers

CONSTANTS
  Programs,   \* what is run: records [bytes, rd, fut], bytes being those of the two devices
  Errors,     \* the errors of the devices: "Interrupted" is one of its own
  Faults      \* how many errors a device gives at most

NL == 10
CR == 13
Bad == 255         \* a byte that is not UTF-8
Probe == 2         \* the probe of read_to_end_internal, 32 bytes in the code

VARIABLES
  prog,       \* the program, as it was started
  src,        \* what the devices still have
  rd, fut,    \* the reader and the future
  task,       \* queued, polling, blocked or done
  ask,        \* the device that is polled next, and for how many bytes
  faults,     \* how many errors the devices have given
  broken,     \* a debug_assert of the code failed
  eaten,      \* history: the bytes that the reader gave to the future
  result

vars == <<prog, src, rd, fut, task, ask, faults, broken, eaten, result>>

----------------------------------------------------------------------------
(* The futures, and the streams, which the client polls until they end or  *)
(* give an error.  v is what the reader has answered.                      *)

read(ks) == [op |-> "read", ks |-> ks]
read_exact(n) == [op |-> "read_exact", need |-> n, got |-> Nothing]
read_to_end(old) == [op |-> "read_to_end", bytes |-> old, start_len |-> Len(old)]
read_to_string(old) == [op |-> "read_to_string", bytes |-> old, buf |-> Nothing, start_len |-> Len(old)]
bytes == [op |-> "bytes", items |-> Nothing]
read_until(byte, old) == [op |-> "read_until", byte |-> byte, bytes |-> old, read |-> 0]
read_line(old) == [op |-> "read_line", byte |-> NL, bytes |-> old, buf |-> Nothing, read |-> 0]
lines == [op |-> "lines", byte |-> NL, bytes |-> Nothing, buf |-> Nothing, read |-> 0, items |-> Nothing]
split(byte) == [op |-> "split", byte |-> byte, bytes |-> Nothing, read |-> 0, items |-> Nothing]

\* What a future has done with an answer: it took `used` bytes, and goes on or is done.
Again == [is |-> "again"]
Done(v) == [is |-> "done", v |-> v]
Ok(n, v) == [err |-> "none", n |-> n, v |-> v]
Err(e, v) == [err |-> e, n |-> 0, v |-> v]
Took(f, used, o) == [s |-> f, used |-> used, o |-> o, broken |-> FALSE]

Utf8(s) == Bad \notin ToSet(s)
EndsWith(s, b) == s /= Nothing /\ Last(s) = b
Pop(s, b) == IF EndsWith(s, b) THEN Front(s) ELSE s

ReadPoll(f, v) == Took(f, Len(v), Done(Ok(Len(v), v)))

ReadExactPoll(f, v) ==
  LET g == [f EXCEPT !.need = @ - Len(v), !.got = @ \o v] IN
  Took(g, Len(v), IF v = Nothing THEN Done(Err("UnexpectedEof", f.got))
                  ELSE IF g.need = 0 THEN Done(Ok(0, g.got)) ELSE Again)

read_to_end_internal(f, v, end) ==
  IF v = Nothing THEN [end EXCEPT !.used = 0] ELSE Took([f EXCEPT !.bytes = @ \o v], Len(v), Again)
ReadToEndPoll(f, v) ==
  read_to_end_internal(f, v, Took(f, 0, Done(Ok(Len(f.bytes) - f.start_len, f.bytes))))

\* The buffer of the caller gets the bytes back when they are UTF-8.
ReadToStringPoll(f, v) ==
  read_to_end_internal(f, v,
    IF Utf8(f.bytes) THEN Took([f EXCEPT !.buf = f.bytes], 0, Done(Ok(Len(f.bytes) - f.start_len, f.bytes)))
    ELSE Took(f, 0, Done(Err("InvalidData", f.buf))))

BytesNext(f, v) ==
  IF v = Nothing THEN Took(f, 0, Done(Ok(0, f.items))) ELSE Took([f EXCEPT !.items = @ \o v], 1, Again)

\* One round of the loop: the bytes up to the delimiter, or all that the reader has.
\* end says what is done when the loop is over, f.read being what it returns.
read_until_internal(f, v, End(_)) ==
  LET found == f.byte \in ToSet(v)
      used == IF found THEN SelectInSeq(v, LAMBDA b : b = f.byte) ELSE Len(v)
      g == [f EXCEPT !.bytes = @ \o First(v, used), !.read = @ + used]
  IN IF found \/ used = 0 THEN [End(g) EXCEPT !.used = used] ELSE Took(g, used, Again)

ReadUntilPoll(f, v) ==
  read_until_internal(f, v, LAMBDA g : Took([g EXCEPT !.read = 0], 0, Done(Ok(g.read, g.bytes))))

ReadLinePoll(f, v) ==
  read_until_internal(f, v, LAMBDA g :
    IF Utf8(g.bytes) THEN Took([g EXCEPT !.read = 0, !.buf = g.bytes, !.bytes = Nothing], 0, Done(Ok(g.read, g.bytes)))
    ELSE Took([g EXCEPT !.read = 0], 0, Done(Err("InvalidData", g.buf))))


LinesNext(f, v) ==
  read_until_internal(f, v, LAMBDA g :
    IF ~Utf8(g.bytes) THEN Took([g EXCEPT !.read = 0], 0, Done(Err("InvalidData", g.items)))
    ELSE IF g.read = 0 /\ g.bytes = Nothing THEN Took(g, 0, Done(Ok(0, g.items)))
    ELSE Took([g EXCEPT !.read = 0, !.bytes = Nothing,
                 !.items = Append(@, IF EndsWith(g.bytes, NL) THEN Pop(Pop(g.bytes, NL), CR) ELSE g.bytes)],
              0, Again))

SplitNext(f, v) ==
  read_until_internal(f, v, LAMBDA g :
    IF g.read = 0 /\ g.bytes = Nothing THEN Took(g, 0, Done(Ok(0, g.items)))
    ELSE Took([g EXCEPT !.read = 0, !.bytes = Nothing, !.items = Append(@, Pop(g.bytes, f.byte))], 0, Again))

ByLine(f) == f.op \in {"read_until", "read_line", "lines", "split"}

FutureGot(f, v) ==
  CASE f.op = "read" -> ReadPoll(f, v)
    [] f.op = "read_exact" -> ReadExactPoll(f, v)
    [] f.op = "read_to_end" -> ReadToEndPoll(f, v)
    [] f.op = "read_to_string" -> ReadToStringPoll(f, v)
    [] f.op = "bytes" -> BytesNext(f, v)
    [] f.op = "read_until" -> ReadUntilPoll(f, v)
    [] f.op = "read_line" -> ReadLinePoll(f, v)
    [] f.op = "lines" -> LinesNext(f, v)
    [] f.op = "split" -> SplitNext(f, v)

\* The reader gave an error.  The ones that make a string swap their bytes into it all the same,
\* and assert that the count of read_until_internal is back at zero.
FutureErr(f, e) ==
  CASE f.op \in {"read_to_string", "read_line", "lines"} /\ Utf8(f.bytes) ->
         [Took([f EXCEPT !.buf = f.bytes, !.bytes = f.buf], 0, Done(Err(e, f.bytes)))
            EXCEPT !.broken = f.op /= "read_to_string" /\ f.read /= 0]
    [] f.op \in {"read_to_string", "read_line", "lines"} /\ ~Utf8(f.bytes) -> Took(f, 0, Done(Err(e, f.buf)))
    [] f.op \in {"read_to_end", "read_until", "split"} -> Took(f, 0, Done(Err(e, f.bytes)))
    [] OTHER -> Took(f, 0, Done(Err(e, Nothing)))

\* The buffers that the future passes to read.
Lengths(f) ==
  CASE f.op = "read" -> f.ks
    [] f.op = "read_exact" -> <<f.need>>
    [] f.op \in {"read_to_end", "read_to_string"} -> <<Probe>>
    [] f.op = "bytes" -> <<1>>

\* The future goes on with the answer x of the device until it needs another one or is done.
RECURSIVE Run(_, _, _, _)
Run(f, r, x, taken) ==
  IF f.op = "read_exact" /\ f.need = 0 /\ f.got = Nothing
  THEN [f |-> f, r |-> r, o |-> Done(Ok(0, Nothing)), eaten |-> taken]
  ELSE LET g == IF ByLine(f) THEN Fill(r, x) ELSE Read(r, Lengths(f), x) IN
       IF g.o.is = "ask" THEN [f |-> f, r |-> g.s, o |-> g.o, eaten |-> taken]
       ELSE LET h == FutureGot(f, g.o.v)
                r2 == IF ByLine(f) THEN Consume(g.s, h.used) ELSE g.s
                t2 == taken \o First(g.o.v, h.used)
            IN IF h.o = Again THEN Run(h.s, r2, NoAnswer, t2) ELSE [f |-> h.s, r |-> r2, o |-> h.o, eaten |-> t2]

----------------------------------------------------------------------------
(* The task that runs the future.                                          *)

NoAsk == [is |-> "idle"]

\* The future p.fut is polled over the reader p.rd.
Start(p) ==
  /\ prog = p
  /\ src = p.bytes
  /\ rd = p.rd /\ fut = p.fut
  /\ task = "queued" /\ ask = NoAsk
  /\ faults = 0 /\ broken = FALSE
  /\ eaten = Nothing
  /\ result = Nothing

Init == \E p \in Programs : Start(p)

Advance(p) ==
  /\ fut' = p.f /\ rd' = p.r /\ eaten' = p.eaten
  /\ ask' = IF p.o.is = "ask" THEN p.o ELSE NoAsk
  /\ task' = IF p.o.is = "ask" THEN "polling" ELSE "done"
  /\ result' = IF p.o.is = "ask" THEN result ELSE <<p.o.v>>

RunTask ==
  /\ task = "queued"
  /\ Advance(Run(fut, rd, NoAnswer, eaten))
  /\ UNCHANGED <<prog, src, faults, broken>>

\* The device gives some of the bytes that it is asked for, none only at its end.
DeviceReady ==
  /\ task = "polling"
  /\ LET left == src[ask.d]  most == Least(ask.n, Len(left)) IN
     \E n \in IF most = 0 THEN {0} ELSE 1..most :
       /\ src' = [src EXCEPT ![ask.d] = Drop(@, n)]
       /\ Advance(Run(fut, rd, First(left, n), eaten))
  /\ UNCHANGED <<prog, faults, broken>>

\* The device keeps the waker of the task.
DevicePending ==
  /\ task = "polling"
  /\ task' = "blocked" /\ ask' = NoAsk
  /\ UNCHANGED <<prog, src, rd, fut, faults, broken, eaten, result>>

DeviceWakes ==
  /\ task = "blocked"
  /\ task' = "queued"
  /\ UNCHANGED <<prog, src, rd, fut, ask, faults, broken, eaten, result>>

\* An error ends every future.  Only Bytes takes Interrupted for Pending: nobody has its waker,
\* but the task is Running and queued again.
DeviceError(e) ==
  /\ task = "polling" /\ faults < Faults
  /\ faults' = faults + 1
  /\ ask' = NoAsk
  /\ IF fut.op = "bytes" /\ e = "Interrupted"
     THEN task' = "queued" /\ UNCHANGED <<fut, broken, result>>
     ELSE LET h == FutureErr(fut, e) IN
          /\ fut' = h.s /\ broken' = h.broken
          /\ task' = "done" /\ result' = <<h.o.v>>
  /\ UNCHANGED <<prog, src, rd, eaten>>

Next == RunTask \/ DeviceReady \/ DevicePending \/ DeviceWakes \/ \E e \in Errors : DeviceError(e)

Spec == Init /\ [][Next]_vars

----------------------------------------------------------------------------
(* What the futures should give, on the whole sequence of bytes.           *)

\* The bytes that a reader still has when the devices have s.
RECURSIVE Left(_, _)
Left(r, s) ==
  CASE r.op = "device" -> s[r.d]
    [] r.op = "cursor" -> remaining_slice(r)
    [] r.op = "buf_reader" -> r.data \o Left(r.inner, s)
    [] r.op = "take" -> LET t == Left(r.inner, s) IN First(t, Least(Len(t), r.limit))
    [] r.op = "chain" -> (IF r.done_first THEN Nothing ELSE Left(r.first, s)) \o Left(r.second, s)

Whole == Left(prog.rd, prog.bytes)

\* Up to and with the first b, or all.
UpTo(s, b) == IF b \in ToSet(s) THEN First(s, SelectInSeq(s, LAMBDA v : v = b)) ELSE s
RECURSIVE Pieces(_, _)
Pieces(s, b) == IF s = Nothing THEN Nothing ELSE <<UpTo(s, b)>> \o Pieces(Drop(s, Len(UpTo(s, b))), b)
Line(s) == IF EndsWith(s, NL) THEN Pop(Pop(s, NL), CR) ELSE s

Text(old, s) == IF Utf8(old \o s) THEN Ok(Len(s), old \o s) ELSE Err("InvalidData", Nothing)

Expected ==
  LET f == prog.fut  w == Whole IN
  CASE f.op = "read_exact" ->
         IF f.need <= Len(w) THEN Ok(0, First(w, f.need)) ELSE Err("UnexpectedEof", w)
    [] f.op = "read_to_end" -> Ok(Len(w), f.bytes \o w)
    [] f.op = "read_to_string" -> Text(f.bytes, w)
    [] f.op = "bytes" -> Ok(0, w)
    [] f.op = "read_until" -> LET u == UpTo(w, f.byte) IN Ok(Len(u), f.bytes \o u)
    [] f.op = "read_line" -> Text(f.bytes, UpTo(w, NL))
    [] f.op = "split" -> Ok(0, [i \in DOMAIN Pieces(w, f.byte) |-> Pop(Pieces(w, f.byte)[i], f.byte)])
    [] f.op = "lines" -> Ok(0, [i \in DOMAIN Pieces(w, NL) |-> Line(Pieces(w, NL)[i])])

----------------------------------------------------------------------------
(* Properties                                                              *)

\* No byte is lost, repeated or put out of order between the devices and the future, also by an
\* error or a Pending in the middle: what it was given and what is left are the whole.
NothingLost == eaten \o Left(rd, src) = Whole


=============================================================================
