------------------------------ MODULE Readers ------------------------------
(***************************************************************************)
(* The readers of modules/async_io/src that are made of other readers:     *)
(* BufReader, Take, Chain and Cursor.  A reader is a record, a poll of it  *)
(* an operator that gives the reader after it and its answer.              *)
(***************************************************************************)
EXTENDS Integers, Sequences, SequencesExt

Nothing == <<>>
First(s, n) == SubSeq(s, 1, n)
Drop(s, n) == SubSeq(s, n + 1, Len(s))
Total(ks) == FoldLeft(LAMBDA a, k : a + k, 0, ks)
Least(a, b) == IF a < b THEN a ELSE b

\* The bytes d after s was written at position p; a gap is filled with zeros.
Put(d, p, s) ==
  IF s = <<>> THEN d
  ELSE [i \in 1..(IF Len(d) > p + Len(s) THEN Len(d) ELSE p + Len(s)) |->
         IF i > p /\ i <= p + Len(s) THEN s[i - p] ELSE IF i <= Len(d) THEN d[i] ELSE 0]

\* What a poll of a reader answers: bytes, or the device that has to be polled first for at most n bytes.
Got(v) == [is |-> "got", v |-> v]
Ask(d, n) == [is |-> "ask", d |-> d, n |-> n]
Give(s, o) == [s |-> s, o |-> o]
NoAnswer == <<-1>>

----------------------------------------------------------------------------
(* Readers.  x is what the device that was asked has answered, or          *)
(* NoAnswer; ks are the lengths of the buffers, one except in              *)
(* read_vectored.                                                          *)

device(d) == [op |-> "device", d |-> d]
cursor(bytes) == [op |-> "cursor", inner |-> bytes, pos |-> 0]
buf_reader(cap, r) == [op |-> "buf_reader", cap |-> cap, data |-> Nothing, inner |-> r]
take(limit, r) == [op |-> "take", limit |-> limit, inner |-> r]
chain(r, s) == [op |-> "chain", first |-> r, second |-> s, done_first |-> FALSE]

\* The default read_vectored fills the first buffer that is not empty.
FirstBuffer(ks) == IF \E i \in DOMAIN ks : ks[i] > 0 THEN ks[SelectInSeq(ks, LAMBDA k : k > 0)] ELSE 0

remaining_slice(r) == Drop(r.inner, Least(r.pos, Len(r.inner)))

RECURSIVE Consume(_, _)
Consume(r, n) ==
  CASE r.op = "cursor" -> [r EXCEPT !.pos = @ + n]
    [] r.op = "buf_reader" -> [r EXCEPT !.data = Drop(@, Least(n, Len(@)))]
    [] r.op = "take" -> LET m == Least(n, r.limit) IN [r EXCEPT !.limit = @ - m, !.inner = Consume(@, m)]
    [] r.op = "chain" -> IF r.done_first THEN [r EXCEPT !.second = Consume(@, n)]
                         ELSE [r EXCEPT !.first = Consume(@, n)]

\* A read that is as large as the buffer does not go through it when it is empty.  direct and filled
\* are what reading from the inner reader, and fill_buf, would give.
BufReaderRead(r, ks, direct, filled) ==
  IF r.data = Nothing /\ Total(ks) >= r.cap THEN Give([r EXCEPT !.inner = direct.s], direct.o)
  ELSE IF filled.o.is = "ask" THEN filled
  ELSE LET n == Least(Total(ks), Len(filled.o.v)) IN Give(Consume(filled.s, n), Got(First(filled.o.v, n)))

RECURSIVE Fill(_, _), Read(_, _, _)

\* BufReader::fill_buf polls its reader when all that it holds has been consumed.
BufReaderFilled(r, g) == Give([r EXCEPT !.inner = g.s, !.data = IF g.o.is = "got" THEN g.o.v ELSE @], g.o)

BufReaderFill(r, x) ==
  IF r.data /= Nothing THEN Give(r, Got(r.data)) ELSE BufReaderFilled(r, Read(r.inner, <<r.cap>>, x))

TakeFilled(r, g) ==
  Give([r EXCEPT !.inner = g.s],
       IF g.o.is = "got" THEN Got(First(g.o.v, Least(Len(g.o.v), r.limit))) ELSE g.o)

TakeFill(r, x) == IF r.limit = 0 THEN Give(r, Got(Nothing)) ELSE TakeFilled(r, Fill(r.inner, x))

\* g is what the reader that is polled gave: the second one, or the first if that goes on.
ChainGave(r, g) == Give(IF r.done_first THEN [r EXCEPT !.second = g.s] ELSE [r EXCEPT !.first = g.s], g.o)

ChainFilled(r, g) ==
  IF ~r.done_first /\ g.o = Got(Nothing) THEN Fill([r EXCEPT !.first = g.s, !.done_first = TRUE], NoAnswer)
  ELSE ChainGave(r, g)

ChainFill(r, x) == ChainFilled(r, Fill(IF r.done_first THEN r.second ELSE r.first, x))

Fill(r, x) ==
  CASE r.op = "cursor" -> Give(r, Got(remaining_slice(r)))
    [] r.op = "buf_reader" -> BufReaderFill(r, x)
    [] r.op = "take" -> TakeFill(r, x)
    [] r.op = "chain" -> ChainFill(r, x)

DeviceRead(r, ks, x) == Give(r, IF x = NoAnswer THEN Ask(r.d, FirstBuffer(ks)) ELSE Got(x))

CursorRead(r, ks) ==
  LET n == Least(Total(ks), Len(remaining_slice(r))) IN
  Give([r EXCEPT !.pos = @ + n], Got(First(remaining_slice(r), n)))

\* Mutant of TakeTook: the limit is charged with what was asked for.
TakeCharged(r, ks, g) ==
  Give([r EXCEPT !.inner = g.s, !.limit = IF g.o.is = "got" THEN @ - Least(FirstBuffer(ks), @) ELSE @], g.o)

TakeTook(r, ks, g) ==
  Give([r EXCEPT !.inner = g.s, !.limit = IF g.o.is = "got" THEN @ - Len(g.o.v) ELSE @], g.o)

TakeRead(r, ks, x) ==
  IF r.limit = 0 THEN Give(r, Got(Nothing))
  ELSE TakeTook(r, ks, Read(r.inner, <<Least(FirstBuffer(ks), r.limit)>>, x))

\* The end of the first reader: the second is read in the same poll.
ChainTook(r, ks, g) ==
  IF ~r.done_first /\ g.o = Got(Nothing) /\ (Len(ks) > 1 \/ Total(ks) > 0)
  THEN Read([r EXCEPT !.first = g.s, !.done_first = TRUE], ks, NoAnswer)
  ELSE ChainGave(r, g)

ChainRead(r, ks, x) == ChainTook(r, ks, Read(IF r.done_first THEN r.second ELSE r.first, ks, x))

Read(r, ks, x) ==
  CASE r.op = "device" -> DeviceRead(r, ks, x)
    [] r.op = "cursor" -> CursorRead(r, ks)
    [] r.op = "buf_reader" -> BufReaderRead(r, ks, Read(r.inner, ks, x), BufReaderFill(r, x))
    [] r.op = "take" -> TakeRead(r, ks, x)
    [] r.op = "chain" -> ChainRead(r, ks, x)
=============================================================================
