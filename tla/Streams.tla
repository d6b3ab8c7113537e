------------------------------ MODULE Streams ------------------------------
(***************************************************************************)
(* modules/async_io/src/stream: the adapters that make a stream from       *)
(* streams, and the futures that consume one.                              *)
(*                                                                         *)
(* A pipeline is a consumer over an adapter over one or two sources.  One  *)
(* step is one poll of one source, followed by all that the adapter and    *)
(* the consumer do with the answer until they poll a source again or       *)
(* return.  A source that has nothing yet answers Pending and wakes the    *)
(* task later.  Many adapters answer Pending themselves without arranging  *)
(* a wakeup: they rely on run_task, which queues a task again that         *)
(* returned Pending and is still Running.                                  *)
(*                                                                         *)
(* Closures are abstract: `chosen` is the set of items that the predicate  *)
(* of the pipeline accepts, the other functions are fixed below.           *)
(***************************************************************************)
EXTENDS Integers, Sequences, SequencesExt

CONSTANTS
  Item,       \* the items, numbers from 1
  Programs,   \* what is run: records [left, right, ad, co]
  Chosen      \* what the predicates may accept

VARIABLES
  prog,       \* the program, as it was started
  chosen,     \* the items that its predicate accepts
  left, right,  \* the two sources
  ad, co,     \* the adapter and the consumer
  ready,      \* the source that is polled next has an answer
  task,       \* polling, queued, blocked or done
  ended,      \* history: the sources that answered None
  late,       \* history: a source was polled again after it answered None
  result

vars == <<prog, chosen, left, right, ad, co, ready, task, ended, late, result>>

Nil == <<>>   \* an Option is a sequence of at most one element

\* What a poll answers.  "again" stays inside: a loop polls its source once more.
Some(v) == [is |-> "some", v |-> v]
None == [is |-> "none"]
Pending == [is |-> "pending"]
Again == [is |-> "again"]
Done(v) == [is |-> "done", v |-> v]
Opt(x) == IF x = None THEN Nil ELSE <<x.v>>

\* The state after a poll and its answer.
Give(s, o) == [s |-> s, o |-> o]
\* Only an item is looked at: None is passed on.
Pass(s, x, g) == IF x = None THEN Give(s, None) ELSE g

P(v) == v \in chosen
F(v) == v + 1
Key(v) == -v
Burst(v) == [i \in 1..(v - 1) |-> v]   \* the stream that an item stands for

----------------------------------------------------------------------------
(* Sources                                                                 *)

from_iter(s) == [op |-> "iter", rest |-> s]
once(v) == [op |-> "once", rest |-> <<v>>]
empty == [op |-> "empty", rest |-> Nil]
repeat(v) == [op |-> "repeat", item |-> v]
repeat_with == [op |-> "repeat_with", n |-> 0]
from_fn == [op |-> "from_fn", n |-> 0]
successors(first) == [op |-> "successors", slot |-> first]

\* FromIter and Once give up the items of a sequence one by one, from either end.
FromIterNext(s) == IF s.rest = Nil THEN Give(s, None) ELSE Give([s EXCEPT !.rest = Tail(@)], Some(Head(s.rest)))
FromIterNextBack(s) == IF s.rest = Nil THEN Give(s, None) ELSE Give([s EXCEPT !.rest = Front(@)], Some(Last(s.rest)))
OnceNext(s) == IF s.rest = Nil THEN Give(s, None) ELSE Give([s EXCEPT !.rest = Nil], Some(Head(s.rest)))
EmptyNext(s) == Give(s, None)
RepeatNext(s) == Give(s, Some(s.item))

\* The closures count their calls; that of from_fn ends the stream at the third.
RepeatWithNext(s) == Give([s EXCEPT !.n = @ + 1], Some(s.n + 1))
FromFnNext(s) == Give([s EXCEPT !.n = @ + 1], IF s.n < 2 THEN Some(s.n + 1) ELSE None)

\* The slot holds the item to be given; succ makes the next one, up to the largest item.
SuccessorsNext(s) ==
  IF s.slot = Nil THEN Give(s, None)
  ELSE Give([s EXCEPT !.slot = IF F(s.slot[1]) \in Item THEN <<F(s.slot[1])>> ELSE Nil], Some(s.slot[1]))

PollNext(s) ==
  CASE s.op = "iter" -> FromIterNext(s)
    [] s.op = "once" -> OnceNext(s)
    [] s.op = "empty" -> EmptyNext(s)
    [] s.op = "repeat" -> RepeatNext(s)
    [] s.op = "repeat_with" -> RepeatWithNext(s)
    [] s.op = "from_fn" -> FromFnNext(s)
    [] s.op = "successors" -> SuccessorsNext(s)

----------------------------------------------------------------------------
(* Adapters of one source.  x is what the source answered, never Pending.  *)

whole == [op |-> "whole"]   \* no adapter
map == [op |-> "map"]
cloned == [op |-> "cloned"]
copied == [op |-> "copied"]
inspect == [op |-> "inspect", seen |-> Nil]
filter == [op |-> "filter"]
filter_map == [op |-> "filter_map"]
enumerate == [op |-> "enumerate", i |-> 0]
fuse == [op |-> "fuse", done |-> FALSE]
skip(n) == [op |-> "skip", n |-> n]
skip_while == [op |-> "skip_while", predicate |-> TRUE]
step_by(step) == [op |-> "step_by", step |-> step - 1, i |-> 0]
take(n) == [op |-> "take", remaining |-> n]
take_while == [op |-> "take_while"]
scan == [op |-> "scan", state |-> 0]
cycle == [op |-> "cycle", fresh |-> FALSE]
flatten == [op |-> "flatten", inner |-> Nil]
flat_map == [op |-> "flat_map", inner |-> Nil]

MapNext(a, x) == Pass(a, x, Give(a, Some(F(x.v))))
ClonedNext(a, x) == Give(a, x)
CopiedNext(a, x) == Give(a, x)
InspectNext(a, x) == Pass(a, x, Give([a EXCEPT !.seen = Append(@, x.v)], x))
FilterNext(a, x) == Pass(a, x, Give(a, IF P(x.v) THEN x ELSE Pending))
FilterMapNext(a, x) == Pass(a, x, Give(a, IF P(x.v) THEN Some(F(x.v)) ELSE Pending))
EnumerateNext(a, x) == Pass(a, x, Give([a EXCEPT !.i = @ + 1], Some(<<a.i, x.v>>)))
FuseNext(a, x) == Give([a EXCEPT !.done = x = None], x)

\* Mutant of SkipNext: the count is kept.
SkipKeepsCount(a, x) == Pass(a, x, IF a.n = 0 THEN Give(a, x) ELSE Give(a, Again))

SkipNext(a, x) == Pass(a, x, IF a.n = 0 THEN Give(a, x) ELSE Give([a EXCEPT !.n = @ - 1], Again))
SkipWhileNext(a, x) ==
  Pass(a, x, IF a.predicate /\ P(x.v) THEN Give(a, Again) ELSE Give([a EXCEPT !.predicate = FALSE], x))
StepByNext(a, x) ==
  Pass(a, x, IF a.i = 0 THEN Give([a EXCEPT !.i = a.step], x) ELSE Give([a EXCEPT !.i = @ - 1], Again))
TakeNext(a, x) == Give([a EXCEPT !.remaining = IF x = None THEN 0 ELSE @ - 1], x)
TakeWhileNext(a, x) == Pass(a, x, Give(a, IF P(x.v) THEN x ELSE None))
ScanNext(a, x) ==
  Pass(a, x, LET st == a.state + x.v IN Give([a EXCEPT !.state = st], IF P(x.v) THEN Some(st) ELSE None))

\* The source is replaced by the original when it ends, and polled once more in the same poll.
CycleNext(a, x) ==
  IF x = None /\ ~a.fresh THEN Give([a EXCEPT !.fresh = TRUE], Again) ELSE Give([a EXCEPT !.fresh = FALSE], x)

\* inner is the stream that is being flattened.
FlattenWith(a, x, into) ==
  IF a.inner /= Nil
  THEN IF x = None THEN Give([a EXCEPT !.inner = Nil], Again) ELSE Give(a, x)
  ELSE Pass(a, x, Give([a EXCEPT !.inner = <<from_iter(into)>>], Again))
FlattenNext(a, x) == FlattenWith(a, x, Burst(x.v))
FlatMapNext(a, x) == FlattenWith(a, x, Burst(F(x.v)))

(* Adapters of two sources.                                                *)

chain == [op |-> "chain", first |-> FALSE, second |-> FALSE]   \* which of them is done
zip == [op |-> "zip", slot |-> Nil]

ChainNext(a, x) ==
  IF ~a.first THEN IF x = None THEN Give([a EXCEPT !.first = TRUE], Again) ELSE Give(a, x)
  ELSE IF x = None THEN Give([a EXCEPT !.second = TRUE], None) ELSE Give(a, x)

\* The item of the first source waits in the slot until the second one answers.
ZipNext(a, x) ==
  IF a.slot = Nil THEN Pass(a, x, Give([a EXCEPT !.slot = <<x.v>>], Again))
  ELSE Give([a EXCEPT !.slot = Nil], IF x = None THEN None ELSE Some(<<a.slot[1], x.v>>))

AdapterNext(a, x) ==
  CASE a.op = "whole" -> Give(a, x)
    [] a.op = "map" -> MapNext(a, x)
    [] a.op = "cloned" -> ClonedNext(a, x)
    [] a.op = "copied" -> CopiedNext(a, x)
    [] a.op = "inspect" -> InspectNext(a, x)
    [] a.op = "filter" -> FilterNext(a, x)
    [] a.op = "filter_map" -> FilterMapNext(a, x)
    [] a.op = "enumerate" -> EnumerateNext(a, x)
    [] a.op = "fuse" -> FuseNext(a, x)
    [] a.op = "skip" -> SkipNext(a, x)
    [] a.op = "skip_while" -> SkipWhileNext(a, x)
    [] a.op = "step_by" -> StepByNext(a, x)
    [] a.op = "take" -> TakeNext(a, x)
    [] a.op = "take_while" -> TakeWhileNext(a, x)
    [] a.op = "scan" -> ScanNext(a, x)
    [] a.op = "cycle" -> CycleNext(a, x)
    [] a.op = "flatten" -> FlattenNext(a, x)
    [] a.op = "flat_map" -> FlatMapNext(a, x)
    [] a.op = "chain" -> ChainNext(a, x)
    [] a.op = "zip" -> ZipNext(a, x)

\* The adapter answers None by itself.
Exhausted(a) ==
  \/ a.op = "take" /\ a.remaining = 0
  \/ a.op = "fuse" /\ a.done
  \/ a.op = "chain" /\ a.first /\ a.second

\* The source that the adapter polls next.
Wants(a) ==
  CASE a.op = "zip" -> IF a.slot = Nil THEN "left" ELSE "right"
    [] a.op = "chain" -> IF a.first THEN "right" ELSE "left"
    [] a.op \in {"flatten", "flat_map"} -> IF a.inner = Nil THEN "left" ELSE "inner"
    [] OTHER -> "left"

----------------------------------------------------------------------------
(* Consumers of one stream.                                                *)

next == [op |-> "next"]
all == [op |-> "all"]
any == [op |-> "any"]
count == [op |-> "count", count |-> 0]
find == [op |-> "find"]
find_map == [op |-> "find_map"]
position == [op |-> "position", index |-> 0]
nth(n) == [op |-> "nth", n |-> n]
last == [op |-> "last", last |-> Nil]
max == [op |-> "max", best |-> Nil]
min == [op |-> "min", best |-> Nil]
max_by == [op |-> "max_by", best |-> Nil]
min_by == [op |-> "min_by", best |-> Nil]
max_by_key == [op |-> "max_by_key", best |-> Nil]
min_by_key == [op |-> "min_by_key", best |-> Nil]
fold(init) == [op |-> "fold", acc |-> init]
sum == [op |-> "sum", acc |-> 0]
product == [op |-> "product", acc |-> 1]
for_each == [op |-> "for_each", seen |-> Nil]
try_fold(init) == [op |-> "try_fold", acc |-> init]
try_for_each == [op |-> "try_for_each", seen |-> Nil]
partition == [op |-> "partition", res |-> <<Nil, Nil>>]
unzip == [op |-> "unzip", res |-> <<Nil, Nil>>]
next_back == [op |-> "next_back"]
nth_back(n) == [op |-> "nth_back", n |-> n]
rfind == [op |-> "rfind"]
rfold(init) == [op |-> "rfold", acc |-> init]
try_rfold(init) == [op |-> "try_rfold", acc |-> init]

\* At the end of the stream the consumer answers `end`, before it acts on the item.
Until(c, x, end, g) == IF x = None THEN Give(c, Done(end)) ELSE g

NextPoll(c, x) == Give(c, Done(Opt(x)))
AllPoll(c, x) == Until(c, x, TRUE, Give(c, IF P(x.v) THEN Pending ELSE Done(FALSE)))
AnyPoll(c, x) == Until(c, x, FALSE, Give(c, IF P(x.v) THEN Done(TRUE) ELSE Pending))
CountPoll(c, x) == Until(c, x, c.count, Give([c EXCEPT !.count = @ + 1], Pending))
FindPoll(c, x) == Until(c, x, Nil, Give(c, IF P(x.v) THEN Done(<<x.v>>) ELSE Pending))
FindMapPoll(c, x) == Until(c, x, Nil, Give(c, IF P(x.v) THEN Done(<<F(x.v)>>) ELSE Pending))
PositionPoll(c, x) ==
  Until(c, x, Nil, IF P(x.v) THEN Give(c, Done(<<c.index>>)) ELSE Give([c EXCEPT !.index = @ + 1], Pending))
NthPoll(c, x) ==
  Until(c, x, Nil, IF c.n = 0 THEN Give(c, Done(<<x.v>>)) ELSE Give([c EXCEPT !.n = @ - 1], Pending))
LastPoll(c, x) == Until(c, x, c.last, Give([c EXCEPT !.last = <<x.v>>], Pending))

\* The best item so far is replaced only by one that is strictly better.
BestPoll(c, x, Better(_, _)) ==
  Until(c, x, c.best,
        Give([c EXCEPT !.best = IF @ = Nil \/ Better(x.v, @[1]) THEN <<x.v>> ELSE @], Pending))
MaxPoll(c, x) == BestPoll(c, x, LAMBDA new, old : new > old)
MinPoll(c, x) == BestPoll(c, x, LAMBDA new, old : new < old)
MaxByPoll(c, x) == BestPoll(c, x, LAMBDA new, old : new % 2 > old % 2)
MinByPoll(c, x) == BestPoll(c, x, LAMBDA new, old : new % 2 < old % 2)
MaxByKeyPoll(c, x) == BestPoll(c, x, LAMBDA new, old : Key(new) > Key(old))
MinByKeyPoll(c, x) == BestPoll(c, x, LAMBDA new, old : Key(new) < Key(old))

FoldPoll(c, x) == Until(c, x, c.acc, Give([c EXCEPT !.acc = 2 * @ + x.v], Again))
SumPoll(c, x) == Until(c, x, c.acc, Give([c EXCEPT !.acc = @ + x.v], Again))
ProductPoll(c, x) == Until(c, x, c.acc, Give([c EXCEPT !.acc = @ * x.v], Again))
ForEachPoll(c, x) == Until(c, x, c.seen, Give([c EXCEPT !.seen = Append(@, x.v)], Again))
TryFoldPoll(c, x) ==
  Until(c, x, <<"ok", c.acc>>,
        IF P(x.v) THEN Give([c EXCEPT !.acc = 2 * @ + x.v], Again) ELSE Give(c, Done(<<"err", x.v>>)))
TryForEachPoll(c, x) ==
  Until(c, x, <<"ok", c.seen>>,
        IF P(x.v) THEN Give([c EXCEPT !.seen = Append(@, x.v)], Again) ELSE Give(c, Done(<<"err", c.seen>>)))
PartitionPoll(c, x) ==
  Until(c, x, c.res, Give([c EXCEPT !.res[IF P(x.v) THEN 1 ELSE 2] = Append(@, x.v)], Again))
UnzipPoll(c, x) ==
  Until(c, x, c.res, Give([c EXCEPT !.res[1] = Append(@, x.v[1]), !.res[2] = Append(@, x.v[2])], Again))

\* The same from the back.
NextBackPoll(c, x) == Give(c, Done(Opt(x)))
NthBackPoll(c, x) == NthPoll(c, x)
RFindPoll(c, x) == FindPoll(c, x)
RFoldPoll(c, x) == FoldPoll(c, x)
TryRFoldPoll(c, x) == TryFoldPoll(c, x)
Backwards(c) == c.op \in {"next_back", "nth_back", "rfind", "rfold", "try_rfold"}

----------------------------------------------------------------------------
(* Consumers of two streams, both fused.  l and r: which of them is done.  *)

Comparison(op) == [op |-> op, l |-> FALSE, r |-> FALSE, l_cache |-> Nil, r_cache |-> Nil]
cmp == Comparison("cmp")
partial_cmp == Comparison("partial_cmp")
lt == Comparison("lt")
le == Comparison("le")
gt == Comparison("gt")
ge == Comparison("ge")
Equality(op) == [op |-> op, l |-> FALSE, r |-> FALSE, l_val |-> Nil]
eq == Equality("eq")
ne == Equality("ne")
Ordered(c) == c.op \in {"cmp", "partial_cmp", "lt", "le", "gt", "ge"}
TwoStreams(c) == Ordered(c) \/ c.op \in {"eq", "ne"}

Ordering(a, b) == IF a < b THEN "less" ELSE IF a > b THEN "greater" ELSE "equal"

\* The test at the head of the loop.
Complete(c) ==
  LET lc == c.l /\ c.l_cache = Nil  rc == c.r /\ c.r_cache = Nil IN
  IF lc /\ rc THEN <<"equal">> ELSE IF lc THEN <<"less">> ELSE IF rc THEN <<"greater">> ELSE Nil

\* What lt, le, gt and ge make of the ordering.
LtAnswer(o) == o = "less"
LeAnswer(o) == o \in {"less", "equal"}
GtAnswer(o) == o = "greater"
GeAnswer(o) == o \in {"greater", "equal"}
Answer(c, o) ==
  CASE c.op = "lt" -> LtAnswer(o) [] c.op = "le" -> LeAnswer(o)
    [] c.op = "gt" -> GtAnswer(o) [] c.op = "ge" -> GeAnswer(o)
    [] OTHER -> o

\* Both caches full: compare them; then the head of the loop.
CmpLoop(c) ==
  IF c.l_cache /= Nil /\ c.r_cache /= Nil /\ c.l_cache /= c.r_cache
  THEN Give(c, Done(Answer(c, Ordering(c.l_cache[1], c.r_cache[1]))))
  ELSE LET d == IF c.l_cache /= Nil /\ c.r_cache /= Nil THEN [c EXCEPT !.l_cache = Nil, !.r_cache = Nil] ELSE c
       IN Give(d, IF Complete(d) = Nil THEN Again ELSE Done(Answer(d, Complete(d)[1])))

\* The left stream is polled before the right one, each only if it has nothing in its cache.
CmpPoll(c, x, side) ==
  LET d == IF side = "left"
           THEN [c EXCEPT !.l = x = None, !.l_cache = Opt(x)]
           ELSE [c EXCEPT !.r = x = None, !.r_cache = Opt(x)]
  IN IF side = "left" /\ ~d.r /\ d.r_cache = Nil THEN Give(d, Again) ELSE CmpLoop(d)

\* Eq and Ne keep the left item only within one poll: l_val is <<item>>, or <<>> while it is wanted.
EqPoll(c, x, side) ==
  LET d == IF side = "left"
           THEN [c EXCEPT !.l = x = None, !.l_val = <<Opt(x)>>]
           ELSE [c EXCEPT !.r = x = None]
      l_val == IF d.l_val = Nil THEN Nil ELSE d.l_val[1]
      r_val == IF side = "right" THEN Opt(x) ELSE Nil
      over == [d EXCEPT !.l_val = Nil]
  IN IF side = "left" /\ ~d.r THEN Give(d, Again)
     ELSE IF c.op = "eq"
     THEN Give(over, IF d.l /\ d.r THEN Done(TRUE)
                     ELSE IF l_val /= Nil /\ r_val /= Nil /\ l_val /= r_val THEN Done(FALSE) ELSE Again)
     ELSE Give(over, IF d.l \/ d.r THEN Done(FALSE)
                     ELSE IF l_val = r_val THEN Again ELSE Done(TRUE))

ConsumerPoll(c, x, side) ==
  CASE c.op = "next" -> NextPoll(c, x)
    [] c.op = "all" -> AllPoll(c, x)
    [] c.op = "any" -> AnyPoll(c, x)
    [] c.op = "count" -> CountPoll(c, x)
    [] c.op = "find" -> FindPoll(c, x)
    [] c.op = "find_map" -> FindMapPoll(c, x)
    [] c.op = "position" -> PositionPoll(c, x)
    [] c.op = "nth" -> NthPoll(c, x)
    [] c.op = "last" -> LastPoll(c, x)
    [] c.op = "max" -> MaxPoll(c, x)
    [] c.op = "min" -> MinPoll(c, x)
    [] c.op = "max_by" -> MaxByPoll(c, x)
    [] c.op = "min_by" -> MinByPoll(c, x)
    [] c.op = "max_by_key" -> MaxByKeyPoll(c, x)
    [] c.op = "min_by_key" -> MinByKeyPoll(c, x)
    [] c.op = "fold" -> FoldPoll(c, x)
    [] c.op = "sum" -> SumPoll(c, x)
    [] c.op = "product" -> ProductPoll(c, x)
    [] c.op = "for_each" -> ForEachPoll(c, x)
    [] c.op = "try_fold" -> TryFoldPoll(c, x)
    [] c.op = "try_for_each" -> TryForEachPoll(c, x)
    [] c.op = "partition" -> PartitionPoll(c, x)
    [] c.op = "unzip" -> UnzipPoll(c, x)
    [] c.op = "next_back" -> NextBackPoll(c, x)
    [] c.op = "nth_back" -> NthBackPoll(c, x)
    [] c.op = "rfind" -> RFindPoll(c, x)
    [] c.op = "rfold" -> RFoldPoll(c, x)
    [] c.op = "try_rfold" -> TryRFoldPoll(c, x)
    [] Ordered(c) -> CmpPoll(c, x, side)
    [] OTHER -> EqPoll(c, x, side)

\* The stream that a consumer of two polls next.
WantsRight(c) ==
  \/ Ordered(c) /\ (c.l \/ c.l_cache /= Nil)
  \/ c.op \in {"eq", "ne"} /\ (c.l \/ c.l_val /= Nil)

\* What is left of a poll that returned Pending: local variables are gone.
Repoll(s) ==
  CASE s.op = "cycle" -> [s EXCEPT !.fresh = FALSE]
    [] s.op \in {"eq", "ne"} -> [s EXCEPT !.l_val = Nil]
    [] OTHER -> s

----------------------------------------------------------------------------
(* The task that runs the pipeline.                                        *)

\* The pipeline p is started with a predicate that accepts the items in ch.
Start(p, ch, r) ==
  /\ prog = p
  /\ chosen = ch
  /\ left = p.left /\ right = p.right
  /\ ad = p.ad /\ co = p.co
  /\ ready = r
  /\ task = "queued"
  /\ ended = {} /\ late = FALSE
  /\ result = Nil

Init == \E p \in Programs, ch \in Chosen, r \in BOOLEAN : Start(p, ch, r)

\* Mutant of Requeued: the task is taken for blocked.
RequeuedBlocked == "blocked"

\* A task that returned Pending and is still Running.
Requeued == "queued"

\* What becomes of the task when the adapter a and the consumer c have answered o.
Finish(a, c, o) ==
  /\ ad' = IF o = Pending THEN Repoll(a) ELSE a
  /\ co' = IF o = Pending THEN Repoll(c) ELSE c
  /\ task' = CASE o = Again -> "polling" [] o = Pending -> Requeued [] OTHER -> "done"
  /\ result' = IF o.is = "done" THEN <<o.v>> ELSE Nil

\* A poll of the consumer begins; the comparisons look first whether a stream is complete.
RunTask ==
  /\ task = "queued"
  /\ LET complete == IF Ordered(co) THEN Complete(co) ELSE Nil IN
     Finish(ad, co, IF complete = Nil THEN Again ELSE Done(Answer(co, complete[1])))
  /\ UNCHANGED <<prog, chosen, left, right, ready, ended, late>>

\* x reaches the adapter, and the consumer if the adapter has an answer.
Feed(a, c, x, side) ==
  LET g == IF TwoStreams(c) /\ side = "right" THEN Give(a, x) ELSE AdapterNext(a, x) IN
  IF g.o \in {Again, Pending} THEN Finish(g.s, c, g.o)
  ELSE LET h == ConsumerPoll(c, g.o, side) IN Finish(g.s, h.s, h.o)

\* The adapter is polled and needs no source for its answer.
Idle == Exhausted(ad) /\ ~WantsRight(co)
PollIdle ==
  /\ task = "polling" /\ Idle
  /\ LET h == ConsumerPoll(co, None, "left") IN Finish(ad, h.s, h.o)
  /\ UNCHANGED <<prog, chosen, left, right, ready, ended, late>>

\* The source that is polled next, and its answer.
Source == IF WantsRight(co) THEN "right" ELSE Wants(ad)
Polled(s) ==
  CASE s = "left" -> IF Backwards(co) THEN FromIterNextBack(left) ELSE PollNext(left)
    [] s = "right" -> PollNext(right)
    [] s = "inner" -> PollNext(ad.inner[1])

\* The source answers; whether the one that is polled after it has an answer too is open.
PollReady ==
  LET s == Source  p == Polled(s)
      a == IF s = "inner" THEN [ad EXCEPT !.inner = <<p.s>>] ELSE ad
      renewed == ad.op = "cycle" /\ p.o = None /\ ~ad.fresh
  IN
  /\ task = "polling" /\ ~Idle /\ ready
  /\ Feed(a, co, p.o, s)
  /\ left' = IF renewed THEN prog.left ELSE IF s = "left" THEN p.s ELSE left
  /\ right' = IF s = "right" THEN p.s ELSE right
  /\ late' = (late \/ s \in ended)
  /\ ended' = CASE renewed -> ended \ {s}
                [] p.o = None /\ s /= "inner" -> ended \cup {s}
                [] OTHER -> ended
  /\ ready' \in BOOLEAN
  /\ UNCHANGED <<prog, chosen>>

\* The source has no answer: it keeps the waker, and the task blocks.
PollPending ==
  /\ task = "polling" /\ ~Idle /\ ~ready
  /\ task' = "blocked"
  /\ ad' = Repoll(ad) /\ co' = Repoll(co)
  /\ UNCHANGED <<prog, chosen, left, right, ready, ended, late, result>>

\* The source has an answer now and wakes the task that waits for it.
Arrive ==
  /\ task = "blocked" /\ ~ready
  /\ ready' = TRUE
  /\ task' = "queued"
  /\ UNCHANGED <<prog, chosen, left, right, ad, co, ended, late, result>>

Next == RunTask \/ PollIdle \/ PollReady \/ PollPending \/ Arrive

Spec == Init /\ [][Next]_vars

\* The CPU polls the task, and a source that is waited for has its answer at some time.
Fairness == WF_vars(RunTask) /\ WF_vars(PollIdle \/ PollReady \/ PollPending) /\ WF_vars(Arrive)

FairSpec == Spec /\ Fairness

----------------------------------------------------------------------------
(* What the pipelines should compute, on sequences.                        *)

\* The longest prefix of s whose items are all accepted.
Accepted(s) == SubSeq(s, 1, Max({k \in 0..Len(s) : \A i \in 1..k : P(s[i])}))
Drop(s, n) == SubSeq(s, n + 1, Len(s))
Each(s, Op(_)) == [i \in DOMAIN s |-> Op(s[i])]
FirstOf(s) == IF s = Nil THEN Nil ELSE <<s[1]>>
LastOf(s) == IF s = Nil THEN Nil ELSE <<s[Len(s)]>>
Weigh(init, s) == FoldLeft(LAMBDA acc, v : 2 * acc + v, init, s)
Total(s) == FoldLeft(LAMBDA acc, v : acc + v, 0, s)
\* The first of the items of s with the largest weight.
FirstBest(s, Weight(_)) == FirstOf(SelectSeq(s, LAMBDA v : \A w \in ToSet(s) : Weight(w) <= Weight(v)))

\* The items of a source; four of them stand for the endless ones.
ItemsOf(src) ==
  CASE src.op \in {"iter", "once", "empty"} -> src.rest
    [] src.op = "repeat" -> [i \in 1..4 |-> src.item]
    [] src.op = "repeat_with" -> [i \in 1..4 |-> i]
    [] src.op = "from_fn" -> <<1, 2>>
    [] src.op = "successors" ->
         IF src.slot = Nil THEN Nil ELSE [i \in 1..(Max(Item) - src.slot[1] + 1) |-> src.slot[1] + i - 1]

Adapted(a, s, other) ==
  CASE a.op \in {"whole", "cloned", "copied", "inspect", "fuse"} -> s
    [] a.op = "map" -> Each(s, F)
    [] a.op = "filter" -> SelectSeq(s, P)
    [] a.op = "filter_map" -> Each(SelectSeq(s, P), F)
    [] a.op = "enumerate" -> [i \in DOMAIN s |-> <<i - 1, s[i]>>]
    [] a.op = "skip" -> Drop(s, a.n)
    [] a.op = "skip_while" -> Drop(s, Len(Accepted(s)))
    [] a.op = "step_by" -> [i \in 1..((Len(s) + a.step) \div (a.step + 1)) |-> s[(i - 1) * (a.step + 1) + 1]]
    [] a.op = "take" -> SubSeq(s, 1, Min({a.remaining, Len(s)}))
    [] a.op = "take_while" -> Accepted(s)
    [] a.op = "scan" -> [i \in DOMAIN Accepted(s) |-> Total(SubSeq(s, 1, i))]
    [] a.op = "cycle" -> IF s = Nil THEN Nil ELSE [i \in 1..4 |-> s[((i - 1) % Len(s)) + 1]]
    [] a.op = "flatten" -> FlattenSeq(Each(s, Burst))
    [] a.op = "flat_map" -> FlattenSeq(Each(Each(s, F), Burst))
    [] a.op = "chain" -> s \o other
    [] a.op = "zip" -> [i \in 1..Min({Len(s), Len(other)}) |-> <<s[i], other[i]>>]

Lexical(s, t) ==
  LET n == Max({k \in 0..Min({Len(s), Len(t)}) : SubSeq(s, 1, k) = SubSeq(t, 1, k)}) IN
  IF n < Len(s) /\ n < Len(t) THEN Ordering(s[n + 1], t[n + 1]) ELSE Ordering(Len(s), Len(t))

Consumed(c, s, other) ==
  CASE c.op = "next" -> FirstOf(s)
    [] c.op = "all" -> \A v \in ToSet(s) : P(v)
    [] c.op = "any" -> \E v \in ToSet(s) : P(v)
    [] c.op = "count" -> Len(s)
    [] c.op = "find" -> FirstOf(SelectSeq(s, P))
    [] c.op = "find_map" -> Each(FirstOf(SelectSeq(s, P)), F)
    [] c.op = "position" -> IF \E v \in ToSet(s) : P(v) THEN <<SelectInSeq(s, P) - 1>> ELSE Nil
    [] c.op = "nth" -> FirstOf(Drop(s, c.n))
    [] c.op = "last" -> LastOf(s)
    [] c.op \in {"max", "min_by_key"} -> FirstBest(s, LAMBDA v : v)
    [] c.op \in {"min", "max_by_key"} -> FirstBest(s, LAMBDA v : -v)
    [] c.op = "max_by" -> FirstBest(s, LAMBDA v : v % 2)
    [] c.op = "min_by" -> FirstBest(s, LAMBDA v : -(v % 2))
    [] c.op = "fold" -> Weigh(c.acc, s)
    [] c.op = "sum" -> Total(s)
    [] c.op = "product" -> FoldLeft(LAMBDA acc, v : acc * v, 1, s)
    [] c.op = "for_each" -> s
    [] c.op = "try_fold" ->
         IF Accepted(s) = s THEN <<"ok", Weigh(c.acc, s)>> ELSE <<"err", s[Len(Accepted(s)) + 1]>>
    [] c.op = "try_for_each" -> <<IF Accepted(s) = s THEN "ok" ELSE "err", Accepted(s)>>
    [] c.op = "partition" -> <<SelectSeq(s, P), SelectSeq(s, LAMBDA v : ~P(v))>>
    [] c.op = "unzip" -> <<Each(s, LAMBDA v : v[1]), Each(s, LAMBDA v : v[2])>>
    [] c.op = "cmp" \/ c.op = "partial_cmp" -> Lexical(s, other)
    [] c.op = "lt" -> Lexical(s, other) = "less"
    [] c.op = "le" -> Lexical(s, other) /= "greater"
    [] c.op = "gt" -> Lexical(s, other) = "greater"
    [] c.op = "ge" -> Lexical(s, other) /= "less"
    [] c.op = "eq" -> s = other
    [] c.op = "ne" -> s /= other

\* Those that start at the end of the stream compute the same on the reversed sequence.
Forwards(c) ==
  CASE c.op = "next_back" -> next [] c.op = "nth_back" -> nth(c.n) [] c.op = "rfind" -> find
    [] c.op = "rfold" -> fold(c.acc) [] c.op = "try_rfold" -> try_fold(c.acc) [] OTHER -> c

Expected ==
  LET s == Adapted(prog.ad, ItemsOf(prog.left), ItemsOf(prog.right)) IN
  Consumed(Forwards(prog.co), IF Backwards(prog.co) THEN Reverse(s) ELSE s, ItemsOf(prog.right))

----------------------------------------------------------------------------
(* Properties                                                              *)

\* A pipeline computes what it would on sequences, wherever its sources answer Pending: what the
\* adapter or the consumer holds (the slot of Zip, the caches of CmpFuture, counters) survives it.
\* The comparisons may take a right stream that is late for a longer one: they look whether the
\* left one is complete again before they have polled the right one.  inspect shows its closure
\* each item once and in order.
Correct ==
  task = "done" /\ co.op \notin {"eq", "ne"} =>
    \/ result = <<Expected>> /\ (ad.op = "inspect" /\ co.op = "for_each" => ad.seen = Expected)
    \/ Ordered(co) /\ Expected = Answer(co, "equal") /\ result = <<Answer(co, "less")>>

\* No source is polled after it answered None, which poll_next of AsyncStream does not allow.
NotPolledAfterEnd == ~late

\* Every pipeline over sources that end or are cut off is done at some time.  Only the cycle of an
\* empty stream may go on: it ends when the fresh copy, too, answers in the same poll.
Ends == <>(task = "done" \/ (prog.ad.op = "cycle" /\ ItemsOf(prog.left) = Nil))
=============================================================================
