------------------------------- MODULE Futex -------------------------------
(***************************************************************************)
(* The futex calls of the executor.  A waiter is queued in the bucket its  *)
(* key hashes to, yields, and then looks whether it is still queued: if it *)
(* is, it takes itself off and starts over.  A waker only takes waiters    *)
(* off the queue.  The bucket locks are sync::Mutex.  futex_requeue awaits *)
(* a second one while it holds the first; a waiter only awaits the answer  *)
(* whether a signal is pending.  Every use of a bucket but that of         *)
(* futex_requeue is thus one step that needs the bucket to be free.        *)
(***************************************************************************)
EXTENDS Naturals, Sequences, FiniteSets

CONSTANTS
  Waiter,    \* the threads that call futex_wait
  Waker,     \* the threads that call the others
  Key,       \* FutexKey: the futex words that are waited for, numbered
  Size,      \* FUTEX_HASH_SIZE
  Bits,      \* the bits of a bitset
  Requeues,  \* the sets of pairs of keys that futex_requeue may be called with
  MaxQueue,  \* bound: it is called only while the second bucket is shorter
  None

Callers == Waiter \cup Waker

VARIABLES
  requeues,  \* the pairs that it is called with in this system
  val,       \* the word in user memory
  buckets,   \* FUTEXQUEUES.buckets: the FutexQs in each
  lock,      \* the task that holds a bucket across an await
  at,        \* where each task is
  arg,       \* the arguments of its call
  timeout,   \* futex_wait's is_timeout
  ret,       \* what its last futex_wait returned
  woken,     \* the count that a waker returns includes the task, since it called it
  panicked

vars == <<requeues, val, buckets, lock, at, arg, timeout, ret, woken, panicked>>
queueVars == <<buckets, lock>>
callVars == <<arg, timeout, woken>>

Bucket == 0..(Size - 1)

\* jhash2 of the key, reduced to the number of buckets: keys may collide.
futex_hash(k) == k % Size

FutexQ == [key : Key, task : Callers, bitset : SUBSET Bits]

Goto(t, l) == at' = [at EXCEPT ![t] = l]

\* The call is over, and its arguments with it.
Leave(t) ==
  /\ Goto(t, "idle")
  /\ arg' = [arg EXCEPT ![t] = None]
  /\ timeout' = [timeout EXCEPT ![t] = FALSE]

Return(t, r) == Leave(t) /\ ret' = [ret EXCEPT ![t] = r]

\* The bucket lock can be had.
Free(k) == lock[futex_hash(k)] = None

SetBucket(k, q) == buckets' = [buckets EXCEPT ![futex_hash(k)] = q]

\* The bucket loses the entries at the indices I; the others stay, in their order.
Retain(k, I) ==
  LET q == buckets[futex_hash(k)]
      J == DOMAIN q \ I
  IN
  \E n \in 0..Len(q) : \E f \in [1..n -> J] :
    /\ \A i, j \in 1..n : i < j => f[i] < f[j]
    /\ \A i \in J : \E j \in 1..n : f[j] = i
    /\ SetBucket(k, [j \in 1..n |-> q[f[j]]])

Init ==
  /\ requeues \in Requeues
  /\ val \in [Key -> {0}]
  /\ buckets = [b \in Bucket |-> <<>>]
  /\ lock = [b \in Bucket |-> None]
  /\ at = [t \in Callers |-> "idle"]
  /\ arg = [t \in Callers |-> None]
  /\ timeout = [t \in Callers |-> FALSE]
  /\ ret = [t \in Callers |-> None]
  /\ woken = [t \in Callers |-> FALSE]
  /\ panicked = FALSE

----------------------------------------------------------------------------
(* futex_wait.                                                             *)

FutexWait(t, k, v, bs) ==
  /\ at[t] = "idle"
  /\ arg' = [arg EXCEPT ![t] = [key |-> k, val |-> v, bitset |-> bs]]
  /\ woken' = [woken EXCEPT ![t] = FALSE]
  /\ ret' = [ret EXCEPT ![t] = None]
  /\ Goto(t, "compare")
  /\ UNCHANGED <<val, queueVars, timeout, panicked>>

\* The word is not the expected one: EAGAIN.
CompareDiffers(t) ==
  /\ at[t] = "compare"
  /\ val[arg[t].key] # arg[t].val
  /\ Return(t, "EAGAIN")
  /\ UNCHANGED <<val, queueVars, woken, panicked>>

CompareEqual(t) ==
  /\ at[t] = "compare"
  /\ val[arg[t].key] = arg[t].val
  /\ Goto(t, "push")
  /\ UNCHANGED <<val, queueVars, callVars, ret, panicked>>

\* The waiter is queued.
Push(t) ==
  LET k == arg[t].key IN
  /\ at[t] = "push"
  /\ Free(k)
  /\ SetBucket(k, Append(buckets[futex_hash(k)],
                         [key |-> k, task |-> t, bitset |-> arg[t].bitset]))
  /\ Goto(t, "yield")
  /\ UNCHANGED <<val, lock, callVars, ret, panicked>>

\* It looks at the clock and yields if its deadline is not over (b); a waiter without a
\* deadline is one for which it never is.
Yield(t, b) ==
  /\ at[t] = "yield"
  /\ timeout' = [timeout EXCEPT ![t] = b]
  /\ Goto(t, "look")
  /\ UNCHANGED <<val, queueVars, arg, woken, ret, panicked>>

\* The places of t in a bucket, whatever the key.
Places(t, q) == {i \in DOMAIN q : q[i].task = t}

\* Mutant: it leaves its place in the queue behind.
LookFoundStays(t, signal) ==
  LET k == arg[t].key
      q == buckets[futex_hash(k)]
  IN
  /\ at[t] = "look"
  /\ Free(k)
  /\ Places(t, q) # {}
  /\ IF timeout[t] THEN Return(t, "ETIMEDOUT")
     ELSE IF signal THEN Return(t, "EINTR")
     ELSE Goto(t, "compare") /\ UNCHANGED <<arg, timeout, ret>>
  /\ UNCHANGED <<val, queueVars, woken, panicked>>

\* It is still queued, and takes itself off: the time is over, a signal is pending, or
\* it starts over.
LookFound(t, signal) ==
  LET k == arg[t].key
      found == Places(t, buckets[futex_hash(k)])
  IN
  /\ at[t] = "look"
  /\ Free(k)
  /\ \E idx \in found : (\A j \in found : idx <= j) /\ Retain(k, {idx})
  /\ IF timeout[t] THEN Return(t, "ETIMEDOUT")
     ELSE IF signal THEN Return(t, "EINTR")
     ELSE Goto(t, "compare") /\ UNCHANGED <<arg, timeout, ret>>
  /\ UNCHANGED <<val, lock, woken, panicked>>

\* It is no longer queued: woken, and nothing else is looked at.
LookGone(t) ==
  LET k == arg[t].key IN
  /\ at[t] = "look"
  /\ Free(k)
  /\ Places(t, buckets[futex_hash(k)]) = {}
  /\ Return(t, "OK")
  /\ UNCHANGED <<val, queueVars, woken, panicked>>

----------------------------------------------------------------------------
(* futex_wake, futex_wake_bitset and futex_requeue.                        *)

\* The waiters of a bucket for the key.
OfKey(q, k) == {i \in DOMAIN q : q[i].key = k}

\* The first n of them.
FirstOf(S, n) == {i \in S : Cardinality({j \in S : j <= i}) <= n}

Woken(q, I) == woken' = [u \in Callers |-> woken[u] \/ \E i \in I : q[i].task = u]

\* The waiters at the indices I of the bucket of k are taken off it, and counted.
TakeOff(k, I) ==
  LET q == buckets[futex_hash(k)] IN
  /\ Retain(k, I)
  /\ Woken(q, I)
  /\ UNCHANGED <<val, lock, at, arg, timeout, ret, panicked>>

\* Mutant: the waiters that are taken off are the first ones, whatever their key.
WakeFirst(t, k, n) ==
  LET q == buckets[futex_hash(k)]
      I == FirstOf(OfKey(q, k), n)
  IN
  /\ at[t] = "idle"
  /\ Free(k)
  /\ SetBucket(k, SubSeq(q, Cardinality(I) + 1, Len(q)))
  /\ Woken(q, I)
  /\ UNCHANGED <<val, lock, at, arg, timeout, ret, panicked>>

\* futex_wake: at most n waiters are taken off.
Wake(t, k, n) ==
  /\ at[t] = "idle"
  /\ Free(k)
  /\ TakeOff(k, FirstOf(OfKey(buckets[futex_hash(k)], k), n))

\* futex_wake_bitset: only waiters with a bit of bs.
WakeBitset(t, k, n, bs) ==
  LET q == buckets[futex_hash(k)] IN
  /\ at[t] = "idle"
  /\ bs # {}
  /\ Free(k)
  /\ TakeOff(k, FirstOf({i \in OfKey(q, k) : q[i].bitset \cap bs # {}}, n))

\* futex_requeue pops waiters until it has counted n of the key: this many.  It never
\* has if n is 0.
Popped(q, k, n) ==
  LET S == OfKey(q, k) IN
  IF n = 0 \/ Cardinality(S) < n
  THEN Len(q)
  ELSE CHOOSE i \in S : Cardinality({j \in S : j <= i}) = n

\* futex_requeue, up to the lock of the second bucket.  What it pops is not queued any
\* more, although only the waiters of the key are counted.
Requeue(t, k, n, k2, m) ==
  LET q == buckets[futex_hash(k)]
      p == Popped(q, k, n)
  IN
  /\ at[t] = "idle"
  /\ k # k2
  /\ Len(buckets[futex_hash(k2)]) < MaxQueue
  /\ Free(k)
  /\ SetBucket(k, SubSeq(q, p + 1, Len(q)))
  /\ Woken(q, OfKey(q, k) \cap 1..p)
  /\ IF p = Len(q)
     THEN UNCHANGED <<lock, at, arg>>
     ELSE /\ lock' = [lock EXCEPT ![futex_hash(k)] = t]
          /\ arg' = [arg EXCEPT ![t] = [key |-> k, key2 |-> k2, requeue |-> m]]
          /\ Goto(t, "requeue")
  /\ UNCHANGED <<val, timeout, ret, panicked>>


\* With both locks, the first m of the rest (all of them if m is 0) are moved, as they
\* are, and the first bucket is unlocked.  A task that asks for a mutex it already owns
\* panics.
RequeueMove(t) ==
  LET k  == arg[t].key
      k2 == arg[t].key2
      q  == buckets[futex_hash(k)]
      m  == IF arg[t].requeue = 0 \/ arg[t].requeue > Len(q) THEN Len(q) ELSE arg[t].requeue
  IN
  /\ at[t] = "requeue"
  /\ lock[futex_hash(k2)] \in {None, t}
  /\ buckets' = [buckets EXCEPT ![futex_hash(k)] = SubSeq(q, m + 1, Len(q)),
                                ![futex_hash(k2)] = @ \o SubSeq(q, 1, m)]
  /\ lock' = [lock EXCEPT ![futex_hash(k)] = None]
  /\ Leave(t)
  /\ panicked' = (lock[futex_hash(k2)] = t)
  /\ UNCHANGED <<val, woken, ret>>

----------------------------------------------------------------------------
\* User code stores a new value.
Store(k, v) ==
  /\ val[k] # v
  /\ val' = [val EXCEPT ![k] = v]
  /\ UNCHANGED <<queueVars, at, callVars, ret, panicked>>

Proceed(t) ==
  \/ CompareDiffers(t) \/ CompareEqual(t) \/ Push(t)
  \/ \E b \in BOOLEAN : Yield(t, b) \/ LookFound(t, b)
  \/ LookGone(t)
  \/ RequeueMove(t)

Call(t) ==
  \E k \in Key :
    \/ /\ t \in Waiter
       /\ \E bs \in SUBSET Bits : FutexWait(t, k, 0, bs)
    \/ /\ t \in Waker
       /\ \/ \E n \in 0..2 : Wake(t, k, n)
          \/ \E n \in 0..2, bs \in SUBSET Bits : WakeBitset(t, k, n, bs)
          \/ \E k2 \in {r[2] : r \in requeues}, n \in 0..1, m \in 0..1 :
               <<k, k2>> \in requeues /\ Requeue(t, k, n, k2, m)

Next ==
  /\ ~panicked
  /\ UNCHANGED requeues
  /\ \/ \E k \in Key, v \in {0, 1} : Store(k, v)
     \/ \E t \in Callers : Proceed(t) \/ Call(t)

Spec == Init /\ [][Next]_vars

\* A task that waits for the lock of its second bucket gets it although others want it too.
Fairness == \A t \in Callers : SF_vars(RequeueMove(t) /\ UNCHANGED requeues)

FairSpec == Spec /\ Fairness

----------------------------------------------------------------------------
(* Properties.                                                             *)

Queued(t) == \E b \in Bucket : Places(t, buckets[b]) # {}

\* Unless futex_requeue is used, futex_wait succeeds exactly for the waiters that a waker has
\* counted: a wakeup is neither made up, nor lost to a timeout, to a signal or to another try
\* that happens at the same time.
OkIffWoken ==
  requeues = {} => \A t \in Callers : at[t] = "idle" => (ret[t] = "OK" <=> woken[t])

\* Nor is a reference to a task left in a bucket when it returns: it is queued once at
\* most, and only while it waits.
QueuedWhileWaiting ==
  requeues = {} =>
    \A t \in Callers :
      /\ Queued(t) => at[t] \in {"yield", "look"}
      /\ \A b \in Bucket : Cardinality(Places(t, buckets[b])) <= 1


\* No two tasks wait for the buckets that the other one holds.
NoDeadlock ==
  \A t, u \in Callers :
    ~ /\ t # u
      /\ at[t] = "requeue" /\ lock[futex_hash(arg[t].key2)] = u
      /\ at[u] = "requeue" /\ lock[futex_hash(arg[u].key2)] = t
=============================================================================
