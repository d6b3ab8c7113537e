---------------------------- MODULE FutexProofs ----------------------------
(***************************************************************************)
(* What Futex promises for any number of tasks, keys and buckets.  Without *)
(* futex_requeue, a waiter that has yielded is in the bucket of its key,   *)
(* once, until a waker counts it: that makes its absence from the bucket a *)
(* proof of a wakeup.  With it, the locks are taken in one order if every  *)
(* call goes to a lower bucket.                                            *)
(***************************************************************************)
EXTENDS Futex, FiniteSetTheorems, TLAPS

\* Every leaf goes to Zenon, with time to spare, unless it names another prover.
USE ZenonT(60)

Place == {"idle", "compare", "push", "yield", "look", "requeue"}

Wait == [key : Key, val : {0}, bitset : SUBSET Bits]

Types ==
  /\ buckets \in [Bucket -> Seq(FutexQ)]
  /\ at \in [Callers -> Place \ {"requeue"}]
  /\ woken \in [Callers -> BOOLEAN]
  /\ ret \in [Callers -> {None, "OK", "EAGAIN", "ETIMEDOUT", "EINTR"}]
  /\ DOMAIN arg = Callers
  /\ \A t \in Callers : at[t] # "idle" => arg[t] \in Wait

Waits(t) == at[t] \in {"yield", "look"}

\* A waiter that nobody has counted is in the bucket that it will look into.
Kept ==
  \A t \in Callers :
    Waits(t) /\ ~woken[t] =>
      \E i \in DOMAIN buckets[futex_hash(arg[t].key)] :
        buckets[futex_hash(arg[t].key)][i].task = t

\* What is in a bucket is such a waiter,
Entries ==
  \A b \in Bucket : \A i \in DOMAIN buckets[b] : \A t \in Callers :
    buckets[b][i].task = t => Waits(t) /\ ~woken[t] /\ b = futex_hash(arg[t].key)

\* once.
Once ==
  \A b \in Bucket : \A i, j \in DOMAIN buckets[b] :
    buckets[b][i].task = buckets[b][j].task => i = j

\* Before it is queued it has not been counted.
Fresh == \A t \in Callers : at[t] \in {"compare", "push"} => ~woken[t]

Answer == \A t \in Callers : at[t] = "idle" => (ret[t] = "OK" <=> woken[t])

Inv == Types /\ Kept /\ Entries /\ Once /\ Fresh /\ Answer

IInv == requeues = {} => Inv

Numbers == Key \subseteq Nat /\ Size \in Nat \ {0} /\ None # "OK"

----------------------------------------------------------------------------
(* The buckets.                                                            *)

\* futex_hash is the number of a bucket.
LEMMA Hash ==
  ASSUME Numbers, NEW k \in Key
  PROVE  futex_hash(k) \in Bucket
<1>1. k \in Nat /\ Size \in Nat /\ Size > 0
  BY SMTT(60) DEF Numbers
<1>2. k % Size \in 0..(Size - 1)
  BY SMTT(60), <1>1
<1>3. QED
  BY <1>2 DEF futex_hash, Bucket

\* The buckets hold tasks.
LEMMA TaskOf ==
  ASSUME buckets \in [Bucket -> Seq(FutexQ)], NEW b \in Bucket, NEW i \in DOMAIN buckets[b]
  PROVE  buckets[b][i].task \in Callers
<1>1. buckets[b] \in Seq(FutexQ)
  OBVIOUS
<1>2. buckets[b][i] \in FutexQ
  BY SMTT(60), <1>1
<1>3. QED
  BY <1>2 DEF FutexQ

\* The new bucket is the old one without the entries at I.
Remains(b, I) ==
  \E f \in [DOMAIN buckets'[b] -> DOMAIN buckets[b] \ I] :
    /\ \A i, j \in DOMAIN buckets'[b] : f[i] = f[j] => i = j
    /\ \A i \in DOMAIN buckets[b] \ I : \E j \in DOMAIN buckets'[b] : f[j] = i
    /\ \A j \in DOMAIN buckets'[b] : buckets'[b][j] = buckets[b][f[j]]

\* What Retain leaves: the entries that are not at I, each of them once.
LEMMA Retained ==
  ASSUME Numbers, NEW k \in Key, NEW b, b = futex_hash(k), NEW I,
         buckets \in [Bucket -> Seq(FutexQ)], Retain(k, I)
  PROVE  /\ buckets' \in [Bucket -> Seq(FutexQ)]
         /\ \A c \in Bucket \ {b} : buckets'[c] = buckets[c]
         /\ Remains(b, I)
<1> DEFINE q == buckets[b]
           J == DOMAIN q \ I
<1>b. b \in Bucket
  BY Hash
<1>q. q \in Seq(FutexQ) /\ Len(q) \in Nat /\ DOMAIN q = 1..Len(q)
  BY SMTT(60), <1>b
<1>0. PICK n \in 0..Len(q) : \E f \in [1..n -> J] :
        /\ \A i, j \in 1..n : i < j => f[i] < f[j]
        /\ \A i \in J : \E j \in 1..n : f[j] = i
        /\ SetBucket(k, [j \in 1..n |-> q[f[j]]])
  BY DEF Retain
<1>1. PICK f \in [1..n -> J] :
        /\ \A i, j \in 1..n : i < j => f[i] < f[j]
        /\ \A i \in J : \E j \in 1..n : f[j] = i
        /\ SetBucket(k, [j \in 1..n |-> q[f[j]]])
  BY <1>0
<1> DEFINE r == [j \in 1..n |-> q[f[j]]]
<1>2. n \in Nat
  BY SMTT(60), <1>q
<1>3. r \in Seq(FutexQ) /\ DOMAIN r = 1..n
  <2>1. \A j \in 1..n : q[f[j]] \in FutexQ
    BY SMTT(60), <1>q
  <2>2. QED
    BY SMTT(60), <2>1, <1>2
<1>4. buckets' = [buckets EXCEPT ![b] = r]
  BY <1>1 DEF SetBucket
<1> HIDE DEF r
<1>5. buckets' \in [Bucket -> Seq(FutexQ)] /\ buckets'[b] = r
      /\ \A c \in Bucket \ {b} : buckets'[c] = buckets[c]
  BY <1>4, <1>3, <1>b
<1>6. \A i, j \in 1..n : f[i] = f[j] => i = j
  <2> SUFFICES ASSUME NEW i \in 1..n, NEW j \in 1..n, f[i] = f[j], i # j
               PROVE  FALSE
    OBVIOUS
  <2>1. f[i] \in Int /\ f[j] \in Int
    BY SMTT(60), <1>q
  <2>2. i < j \/ j < i
    BY SMTT(60), <1>2
  <2>3. QED
    BY SMTT(60), <2>1, <2>2, <1>1
<1>7. \A j \in 1..n : r[j] = q[f[j]]
  BY DEF r
<1>8. f \in [DOMAIN buckets'[b] -> DOMAIN buckets[b] \ I]
  BY <1>3, <1>5
<1>9. /\ \A i, j \in DOMAIN buckets'[b] : f[i] = f[j] => i = j
      /\ \A i \in DOMAIN buckets[b] \ I : \E j \in DOMAIN buckets'[b] : f[j] = i
      /\ \A j \in DOMAIN buckets'[b] : buckets'[b][j] = buckets[b][f[j]]
  BY <1>1, <1>3, <1>5, <1>6, <1>7
<1>10. QED
  BY <1>5, <1>8, <1>9 DEF Remains

\* FirstOf picks among the waiters of the key.
LEMMA OfKeyBounds ==
  ASSUME NEW q, NEW k, NEW S \in SUBSET OfKey(q, k), NEW n
  PROVE  FirstOf(S, n) \subseteq DOMAIN q
BY DEF FirstOf, OfKey

----------------------------------------------------------------------------
(* Each step keeps the invariant.  Steps of futex_wait come first.         *)

\* A step that keeps the buckets and what was counted, and moves a task that is not queued and
\* will not be looked for.
LEMMA OwnStep ==
  ASSUME Inv, NEW t \in Callers,
         Types', UNCHANGED buckets,
         \A u \in Callers \ {t} : woken'[u] = woken[u] /\ at'[u] = at[u] /\ arg'[u] = arg[u]
                                  /\ ret'[u] = ret[u],
         \A b \in Bucket : \A i \in DOMAIN buckets[b] : buckets[b][i].task # t,
         ~Waits(t)',
         at'[t] \in {"compare", "push"} => ~woken'[t],
         at'[t] = "idle" => (ret'[t] = "OK" <=> woken'[t])
  PROVE  Inv'
<1>t. \A b \in Bucket : \A i \in DOMAIN buckets[b] : buckets[b][i].task \in Callers
  BY TaskOf DEF Inv, Types
<1>1. Kept'
  BY SMTT(60) DEF Inv, Kept, Waits
<1>2. Entries'
  BY <1>t, SMTT(60) DEF Inv, Entries, Waits
<1>3. Once'
  BY DEF Inv, Once
<1>4. Fresh'
  BY DEF Inv, Fresh
<1>5. Answer'
  BY DEF Inv, Answer
<1>6. QED
  BY <1>1, <1>2, <1>3, <1>4, <1>5 DEF Inv

\* A task that is not waiting is in no bucket.
LEMMA NotQueued ==
  ASSUME Inv, NEW t \in Callers, ~Waits(t)
  PROVE  \A b \in Bucket : \A i \in DOMAIN buckets[b] : buckets[b][i].task # t
BY DEF Inv, Entries

\* A new call: the task was not waiting, hence in no bucket.
LEMMA WaitStep ==
  ASSUME Numbers, Inv, NEW t \in Callers, NEW k \in Key, NEW bs \in SUBSET Bits, FutexWait(t, k, 0, bs)
  PROVE  Inv'
<1>1. at' = [at EXCEPT ![t] = "compare"] /\ arg' = [arg EXCEPT ![t] = [key |-> k, val |-> 0, bitset |-> bs]]
      /\ woken' = [woken EXCEPT ![t] = FALSE] /\ ret' = [ret EXCEPT ![t] = None] /\ buckets' = buckets
      /\ at[t] = "idle"
  BY DEF FutexWait, Goto, queueVars
<1>2. Types'
  BY <1>1 DEF Inv, Types, Wait, Place
<1>3. \A b \in Bucket : \A i \in DOMAIN buckets[b] : buckets[b][i].task # t
  BY NotQueued, <1>1 DEF Waits
<1>4. QED
  BY OwnStep, <1>1, <1>2, <1>3 DEF Inv, Types, Waits

\* The comparison: the call ends with EAGAIN, or goes on to queue the task.
LEMMA CompareStep ==
  ASSUME Numbers, Inv, NEW t \in Callers, CompareDiffers(t) \/ CompareEqual(t)
  PROVE  Inv'
<1>1. at[t] = "compare" /\ buckets' = buckets /\ woken' = woken
  BY DEF CompareDiffers, CompareEqual, queueVars, callVars
<1>2. ~woken[t]
  BY <1>1 DEF Inv, Fresh
<1>3. \A b \in Bucket : \A i \in DOMAIN buckets[b] : buckets[b][i].task # t
  BY NotQueued, <1>1 DEF Waits
<1>4. CASE CompareDiffers(t)
  <2>1. at' = [at EXCEPT ![t] = "idle"] /\ arg' = [arg EXCEPT ![t] = None]
        /\ ret' = [ret EXCEPT ![t] = "EAGAIN"]
    BY <1>4 DEF CompareDiffers, Return, Leave, Goto
  <2>2. Types'
    BY <2>1, <1>1 DEF Inv, Types, Place
  <2>3. QED
    BY OwnStep, <2>1, <2>2, <1>1, <1>2, <1>3 DEF Inv, Types, Waits
<1>5. CASE CompareEqual(t)
  <2>1. at' = [at EXCEPT ![t] = "push"] /\ arg' = arg /\ ret' = ret
    BY <1>5 DEF CompareEqual, Goto, callVars
  <2>2. Types'
    BY <2>1, <1>1 DEF Inv, Types, Place
  <2>3. QED
    BY OwnStep, <2>1, <2>2, <1>1, <1>2, <1>3 DEF Inv, Types, Waits
<1>6. QED
  BY <1>4, <1>5

\* push_back: the task is queued in the bucket of its key, where it was not.
LEMMA PushStep ==
  ASSUME Numbers, Inv, NEW t \in Callers, Push(t)
  PROVE  Inv'
<1> DEFINE k == arg[t].key
           b == futex_hash(k)
           e == [key |-> k, task |-> t, bitset |-> arg[t].bitset]
<1>1. at[t] = "push" /\ buckets' = [buckets EXCEPT ![b] = Append(buckets[b], e)]
      /\ at' = [at EXCEPT ![t] = "yield"] /\ arg' = arg /\ woken' = woken /\ ret' = ret
  BY DEF Push, SetBucket, Goto, callVars
<1>2. arg[t] \in Wait /\ ~woken[t]
  BY <1>1 DEF Inv, Types, Fresh
<1>3. k \in Key /\ b \in Bucket /\ e \in FutexQ /\ e.task = t
  BY <1>2, Hash DEF Wait, FutexQ
<1>4. \A c \in Bucket : \A i \in DOMAIN buckets[c] : buckets[c][i].task # t /\ buckets[c][i].task \in Callers
  BY NotQueued, TaskOf, <1>1 DEF Waits, Inv, Types
<1>b. b = futex_hash(arg[t].key)
  OBVIOUS
<1> HIDE DEF b, e
<1>q. buckets[b] \in Seq(FutexQ) /\ Len(buckets[b]) \in Nat
  BY <1>3, SMTT(60) DEF Inv, Types
<1>5. /\ buckets' \in [Bucket -> Seq(FutexQ)]
      /\ \A c \in Bucket \ {b} : buckets'[c] = buckets[c]
      /\ buckets'[b] = Append(buckets[b], e)
  BY <1>1, <1>3, <1>q, SMTT(60) DEF Inv, Types
<1>6. /\ DOMAIN buckets'[b] = 1..(Len(buckets[b]) + 1)
      /\ DOMAIN buckets[b] = 1..Len(buckets[b])
      /\ \A i \in DOMAIN buckets[b] : i \in DOMAIN buckets'[b] /\ buckets'[b][i] = buckets[b][i]
      /\ buckets'[b][Len(buckets[b]) + 1] = e
  BY SMTT(60), <1>5, <1>q, <1>3
<1>7. \A i \in DOMAIN buckets'[b] : i \in DOMAIN buckets[b] \/ i = Len(buckets[b]) + 1
  BY SMTT(60), <1>6, <1>q
<1>8. Types'
  BY <1>1, <1>2, <1>5 DEF Inv, Types, Place
<1>a. \A u \in Callers : u # t => at'[u] = at[u]
  BY SMTT(60), <1>1
<1>y. at'[t] = "yield"
  BY <1>1 DEF Inv, Types
<1>9. Kept'
  <2> SUFFICES ASSUME NEW u \in Callers, Waits(u)', ~woken'[u]
               PROVE  \E i \in DOMAIN buckets'[futex_hash(arg[u].key)] :
                        buckets'[futex_hash(arg[u].key)][i].task = u
    BY <1>1 DEF Kept
  <2>1. CASE u = t
    <3>1. Len(buckets[b]) + 1 \in DOMAIN buckets'[b]
      BY SMTT(60), <1>6, <1>q
    <3>2. QED
      BY <2>1, <3>1, <1>6, <1>3, <1>b
  <2>2. CASE u # t
    <3>1. Waits(u) /\ ~woken[u]
      BY <2>2, <1>a, <1>1 DEF Waits
    <3>2. PICK i \in DOMAIN buckets[futex_hash(arg[u].key)] :
            buckets[futex_hash(arg[u].key)][i].task = u
      BY <3>1 DEF Inv, Kept
    <3>3. futex_hash(arg[u].key) \in Bucket
      BY <3>1, Hash DEF Inv, Types, Wait, Waits
    <3>4. QED
      BY <3>2, <3>3, <1>5, <1>6
  <2>3. QED
    BY <2>1, <2>2
<1>10. Entries'
  <2> SUFFICES ASSUME NEW c \in Bucket, NEW i \in DOMAIN buckets'[c], NEW u \in Callers,
                      buckets'[c][i].task = u
               PROVE  Waits(u)' /\ ~woken[u] /\ c = futex_hash(arg[u].key)
    BY <1>1 DEF Entries
  <2>1. CASE i \in DOMAIN buckets[c] /\ buckets'[c][i] = buckets[c][i]
    <3>1. u # t /\ Waits(u) /\ ~woken[u] /\ c = futex_hash(arg[u].key)
      BY <2>1, <1>4 DEF Inv, Entries
    <3>2. QED
      BY <3>1, <1>a DEF Waits
  <2>2. CASE c = b /\ i = Len(buckets[b]) + 1
    <3>1. u = t
      BY <2>2, <1>6, <1>3
    <3>2. QED
      BY <3>1, <2>2, <1>y, <1>2, <1>b DEF Waits
  <2>3. QED
    BY <2>1, <2>2, <1>5, <1>6, <1>7
<1>11. Once'
  <2> SUFFICES ASSUME NEW c \in Bucket, NEW i \in DOMAIN buckets'[c], NEW j \in DOMAIN buckets'[c],
                      buckets'[c][i].task = buckets'[c][j].task
               PROVE  i = j
    BY DEF Once
  <2>1. CASE c # b
    BY <2>1, <1>5 DEF Inv, Once
  <2>2. CASE c = b
    <3>1. \A m \in DOMAIN buckets[b] : buckets'[b][m].task # t
      BY <1>3, <1>4, <1>6
    <3>2. buckets'[b][Len(buckets[b]) + 1].task = t
      BY <1>3, <1>6
    <3>3. CASE i \in DOMAIN buckets[b] /\ j \in DOMAIN buckets[b]
      BY <2>2, <3>3, <1>3, <1>6 DEF Inv, Once
    <3>4. QED
      BY <2>2, <3>1, <3>2, <3>3, <1>7
  <2>3. QED
    BY <2>1, <2>2
<1>12. Fresh'
  BY <1>1, <1>2 DEF Inv, Fresh, Types
<1>13. Answer'
  BY <1>1, <1>2 DEF Inv, Answer, Types
<1>14. QED
  BY <1>8, <1>9, <1>10, <1>11, <1>12, <1>13 DEF Inv

\* The look at the clock and the yield change nothing that others see.
LEMMA YieldStep ==
  ASSUME Inv, NEW t \in Callers, NEW late \in BOOLEAN, Yield(t, late)
  PROVE  Inv'
<1>1. at[t] = "yield" /\ at' = [at EXCEPT ![t] = "look"] /\ arg' = arg /\ woken' = woken /\ ret' = ret
      /\ buckets' = buckets
  BY DEF Yield, Goto, queueVars
<1>2. Types'
  BY <1>1 DEF Inv, Types, Place
<1>3. \A u \in Callers : /\ Waits(u)' <=> Waits(u)
                         /\ at'[u] \in {"compare", "push", "idle"} => at'[u] = at[u]
  BY <1>1 DEF Inv, Types, Waits
<1>4. Kept'
  BY <1>1, <1>3 DEF Inv, Kept
<1>5. Entries'
  BY <1>1, <1>3 DEF Inv, Entries
<1>6. Once' /\ Fresh' /\ Answer'
  BY <1>1, <1>3 DEF Inv, Once, Fresh, Answer
<1>7. QED
  BY <1>2, <1>4, <1>5, <1>6 DEF Inv

\* A waiter that finds itself in its bucket has not been counted, and is in none after that.
LEMMA LookFoundStep ==
  ASSUME Numbers, Inv, NEW t \in Callers, NEW signal \in BOOLEAN, LookFound(t, signal)
  PROVE  Inv'
<1> DEFINE k == arg[t].key
           b == futex_hash(k)
<1>1. PICK idx \in Places(t, buckets[b]) : Retain(k, {idx})
  BY DEF LookFound
<1>2. at[t] = "look" /\ woken' = woken
  BY DEF LookFound
<1>3. arg[t] \in Wait /\ k \in Key
  BY <1>2 DEF Inv, Types, Wait
<1>4. b \in Bucket
  BY <1>3, Hash
<1>t. b = futex_hash(arg[t].key) /\ b = futex_hash(k)
  OBVIOUS
<1>5. idx \in DOMAIN buckets[b] /\ buckets[b][idx].task = t
  BY <1>1 DEF Places
<1>6. ~woken[t]
  BY <1>4, <1>5 DEF Inv, Entries
<1> HIDE DEF b, k
<1>7. /\ buckets' \in [Bucket -> Seq(FutexQ)]
      /\ \A c \in Bucket \ {b} : buckets'[c] = buckets[c]
      /\ Remains(b, {idx})
  <2>1. buckets \in [Bucket -> Seq(FutexQ)]
    BY DEF Inv, Types
  <2>2. QED
    BY <2>1, <1>1, <1>3, <1>t, Retained
<1>8. PICK f \in [DOMAIN buckets'[b] -> DOMAIN buckets[b] \ {idx}] :
        /\ \A i, j \in DOMAIN buckets'[b] : f[i] = f[j] => i = j
        /\ \A i \in DOMAIN buckets[b] \ {idx} : \E j \in DOMAIN buckets'[b] : f[j] = i
        /\ \A j \in DOMAIN buckets'[b] : buckets'[b][j] = buckets[b][f[j]]
  BY <1>7 DEF Remains
\* The task goes back to compare or to its caller, with no success.
<1>9. /\ at' \in [Callers -> Place \ {"requeue"}]
      /\ at'[t] \in {"idle", "compare"}
      /\ ret' \in [Callers -> {None, "OK", "EAGAIN", "ETIMEDOUT", "EINTR"}]
      /\ at'[t] = "idle" => ret'[t] # "OK"
      /\ DOMAIN arg' = Callers
      /\ at'[t] = "compare" => arg'[t] = arg[t]
      /\ \A u \in Callers \ {t} : at'[u] = at[u] /\ arg'[u] = arg[u] /\ ret'[u] = ret[u]
  <2>1. CASE timeout[t]
    BY <2>1 DEF LookFound, Return, Leave, Goto, Inv, Types, Place
  <2>2. CASE ~timeout[t] /\ signal
    BY <2>2 DEF LookFound, Return, Leave, Goto, Inv, Types, Place
  <2>3. CASE ~timeout[t] /\ ~signal
    BY <2>3 DEF LookFound, Goto, Inv, Types, Place
  <2>4. QED
    BY <2>1, <2>2, <2>3
<1>10. Types'
  BY <1>2, <1>3, <1>7, <1>9 DEF Inv, Types
<1>11. \A c \in Bucket : \A i \in DOMAIN buckets'[c] :
         buckets'[c][i].task # t /\ \E j \in DOMAIN buckets[c] : buckets'[c][i] = buckets[c][j]
  <2> SUFFICES ASSUME NEW c \in Bucket, NEW i \in DOMAIN buckets'[c]
               PROVE  buckets'[c][i].task # t
                      /\ \E j \in DOMAIN buckets[c] : buckets'[c][i] = buckets[c][j]
    OBVIOUS
  <2>1. CASE c # b
    <3>1. buckets'[c] = buckets[c]
      BY <2>1, <1>7
    <3>2. i \in DOMAIN buckets[c] /\ (buckets[c][i].task = t => c = futex_hash(arg[t].key))
      BY <3>1 DEF Inv, Entries
    <3>3. QED
      BY <2>1, <3>1, <3>2, <1>t
  <2>2. CASE c = b
    <3>1. f[i] \in DOMAIN buckets[b] /\ f[i] # idx /\ buckets'[b][i] = buckets[b][f[i]]
      BY <2>2, <1>8
    <3>2. buckets[b][f[i]].task # buckets[b][idx].task
      BY <3>1, <1>4, <1>5 DEF Inv, Once
    <3>3. QED
      BY <2>2, <3>1, <3>2, <1>5
  <2>3. QED
    BY <2>1, <2>2
<1>12. Kept'
  <2> SUFFICES ASSUME NEW u \in Callers, Waits(u)', ~woken[u]
               PROVE  \E i \in DOMAIN buckets'[futex_hash(arg'[u].key)] :
                        buckets'[futex_hash(arg'[u].key)][i].task = u
    BY <1>2 DEF Kept
  <2>1. u # t /\ Waits(u) /\ arg'[u] = arg[u]
    BY <1>9 DEF Waits
  <2>2. PICK i \in DOMAIN buckets[futex_hash(arg[u].key)] :
          buckets[futex_hash(arg[u].key)][i].task = u
    BY <2>1 DEF Inv, Kept
  <2>3. futex_hash(arg[u].key) \in Bucket
    BY <2>1, Hash DEF Inv, Types, Wait, Waits
  <2>4. CASE futex_hash(arg[u].key) # b
    BY <2>1, <2>2, <2>3, <2>4, <1>7
  <2>5. CASE futex_hash(arg[u].key) = b
    <3>1. i \in DOMAIN buckets[b] \ {idx}
      BY <2>1, <2>2, <2>5, <1>5
    <3>2. PICK j \in DOMAIN buckets'[b] : f[j] = i
      BY <3>1, <1>8
    <3>3. buckets'[b][j].task = u
      BY <3>2, <1>8, <2>2, <2>5
    <3>4. QED
      BY <2>1, <2>5, <3>3
  <2>6. QED
    BY <2>4, <2>5
<1>13. Entries'
  <2> SUFFICES ASSUME NEW c \in Bucket, NEW i \in DOMAIN buckets'[c], NEW u \in Callers,
                      buckets'[c][i].task = u
               PROVE  Waits(u)' /\ ~woken[u] /\ c = futex_hash(arg'[u].key)
    BY <1>2 DEF Entries
  <2>1. u # t
    BY <1>11
  <2>2. Waits(u) /\ ~woken[u] /\ c = futex_hash(arg[u].key)
    BY <1>11, SMTT(60) DEF Inv, Entries
  <2>3. QED
    BY <2>1, <2>2, <1>9 DEF Waits
<1>14. Once'
  <2> SUFFICES ASSUME NEW c \in Bucket, NEW i \in DOMAIN buckets'[c], NEW j \in DOMAIN buckets'[c],
                      buckets'[c][i].task = buckets'[c][j].task
               PROVE  i = j
    BY DEF Once
  <2>1. CASE c # b
    BY <2>1, <1>7 DEF Inv, Once
  <2>2. CASE c = b
    <3>1. f[i] \in DOMAIN buckets[b] /\ f[j] \in DOMAIN buckets[b]
          /\ buckets[b][f[i]].task = buckets[b][f[j]].task
      BY <2>2, <1>8
    <3>2. f[i] = f[j]
      BY <3>1, <1>4 DEF Inv, Once
    <3>3. QED
      BY <3>2, <2>2, <1>8
  <2>3. QED
    BY <2>1, <2>2
<1>15. Fresh'
  BY <1>2, <1>6, <1>9 DEF Inv, Fresh
<1>16. Answer'
  BY <1>2, <1>6, <1>9 DEF Inv, Answer
<1>17. QED
  BY <1>10, <1>12, <1>13, <1>14, <1>15, <1>16 DEF Inv

\* One that does not find itself has been counted.
LEMMA LookGoneStep ==
  ASSUME Numbers, Inv, NEW t \in Callers, LookGone(t)
  PROVE  Inv'
<1>1. at[t] = "look" /\ at' = [at EXCEPT ![t] = "idle"] /\ arg' = [arg EXCEPT ![t] = None]
      /\ ret' = [ret EXCEPT ![t] = "OK"] /\ woken' = woken /\ buckets' = buckets
      /\ Places(t, buckets[futex_hash(arg[t].key)]) = {}
  BY DEF LookGone, Return, Leave, Goto, queueVars
<1>2. woken[t]
  BY <1>1 DEF Inv, Kept, Places, Waits
<1>3. Types'
  BY <1>1 DEF Inv, Types, Place
<1>4. \A b \in Bucket : \A i \in DOMAIN buckets[b] : buckets[b][i].task # t
  BY <1>2 DEF Inv, Entries
<1>5. QED
  BY OwnStep, <1>1, <1>2, <1>3, <1>4 DEF Inv, Types, Waits

----------------------------------------------------------------------------
(* Steps of the wakers.                                                    *)

\* The waiters that are taken off are counted at the same time.
LEMMA TakeOffStep ==
  ASSUME Numbers, Inv, NEW k \in Key, NEW I \in SUBSET DOMAIN buckets[futex_hash(k)], TakeOff(k, I)
  PROVE  Inv'
<1> DEFINE b == futex_hash(k)
<1>1. b \in Bucket /\ b = futex_hash(k) /\ I \subseteq DOMAIN buckets[b]
  BY Hash
<1>2. /\ Retain(k, I) /\ at' = at /\ arg' = arg /\ ret' = ret
      /\ woken' = [u \in Callers |-> woken[u] \/ \E i \in I : buckets[b][i].task = u]
  BY DEF TakeOff, Woken
<1> HIDE DEF b
<1>3. /\ buckets' \in [Bucket -> Seq(FutexQ)]
      /\ \A c \in Bucket \ {b} : buckets'[c] = buckets[c]
      /\ Remains(b, I)
  <2>1. buckets \in [Bucket -> Seq(FutexQ)]
    BY DEF Inv, Types
  <2>2. QED
    BY <2>1, <1>1, <1>2, Retained
<1>4. PICK f \in [DOMAIN buckets'[b] -> DOMAIN buckets[b] \ I] :
        /\ \A i, j \in DOMAIN buckets'[b] : f[i] = f[j] => i = j
        /\ \A i \in DOMAIN buckets[b] \ I : \E j \in DOMAIN buckets'[b] : f[j] = i
        /\ \A j \in DOMAIN buckets'[b] : buckets'[b][j] = buckets[b][f[j]]
  BY <1>3 DEF Remains
\* What is counted now was waiting.
<1>5. \A u \in Callers : \/ (woken'[u] <=> woken[u]) /\ \A i \in I : buckets[b][i].task # u
                         \/ /\ woken'[u] /\ Waits(u) /\ \E i \in I : buckets[b][i].task = u
  <2> SUFFICES ASSUME NEW u \in Callers
               PROVE  \/ (woken'[u] <=> woken[u]) /\ \A i \in I : buckets[b][i].task # u
                      \/ /\ woken'[u] /\ Waits(u) /\ \E i \in I : buckets[b][i].task = u
    OBVIOUS
  <2>1. CASE \E i \in I : buckets[b][i].task = u
    <3>1. Waits(u)
      BY <2>1, <1>1 DEF Inv, Entries
    <3>2. QED
      BY <3>1, <2>1, <1>2
  <2>2. CASE ~ \E i \in I : buckets[b][i].task = u
    <3>1. woken'[u] <=> woken[u]
      BY <2>2, <1>2
    <3>2. QED
      BY <2>2, <3>1
  <2>3. QED
    BY <2>1, <2>2
<1>6. Types'
  <2>1. woken' \in [Callers -> BOOLEAN]
    BY <1>2
  <2>2. QED
    BY <1>2, <1>3, <2>1 DEF Inv, Types
<1>7. Kept'
  <2> SUFFICES ASSUME NEW u \in Callers, Waits(u), ~woken'[u]
               PROVE  \E i \in DOMAIN buckets'[futex_hash(arg[u].key)] :
                        buckets'[futex_hash(arg[u].key)][i].task = u
    BY <1>2 DEF Kept, Waits
  <2>1. ~woken[u] /\ \A i \in I : buckets[b][i].task # u
    BY <1>5
  <2>2. PICK i \in DOMAIN buckets[futex_hash(arg[u].key)] :
          buckets[futex_hash(arg[u].key)][i].task = u
    BY <2>1 DEF Inv, Kept
  <2>3. futex_hash(arg[u].key) \in Bucket
    BY Hash DEF Inv, Types, Wait, Waits
  <2>4. CASE futex_hash(arg[u].key) # b
    BY <2>2, <2>3, <2>4, <1>3
  <2>5. CASE futex_hash(arg[u].key) = b
    <3>1. i \in DOMAIN buckets[b] \ I
      BY <2>1, <2>2, <2>5
    <3>2. PICK j \in DOMAIN buckets'[b] : f[j] = i
      BY <3>1, <1>4
    <3>3. buckets'[b][j].task = u
      BY <3>2, <1>4, <2>2, <2>5
    <3>4. QED
      BY <2>5, <3>3
  <2>6. QED
    BY <2>4, <2>5
<1>8. Entries'
  <2> SUFFICES ASSUME NEW c \in Bucket, NEW i \in DOMAIN buckets'[c], NEW u \in Callers,
                      buckets'[c][i].task = u
               PROVE  Waits(u) /\ ~woken'[u] /\ c = futex_hash(arg[u].key)
    BY <1>2 DEF Entries, Waits
  <2>1. PICK j \in DOMAIN buckets[c] : buckets'[c][i] = buckets[c][j] /\ (c = b => j \notin I)
    <3>1. CASE c # b
      BY <3>1, <1>3
    <3>2. CASE c = b
      BY <3>2, <1>4
    <3>3. QED
      BY <3>1, <3>2
  <2>2. Waits(u) /\ ~woken[u] /\ c = futex_hash(arg[u].key)
    BY <2>1 DEF Inv, Entries
  <2>3. \A m \in I : buckets[b][m].task # u
    <3> SUFFICES ASSUME NEW m \in I, buckets[b][m].task = u
                 PROVE  FALSE
      OBVIOUS
    <3>1. c = b
      BY <1>1, <2>2 DEF Inv, Entries
    <3>2. j = m
      BY <3>1, <2>1, <1>1 DEF Inv, Once
    <3>3. QED
      BY <3>1, <3>2, <2>1
  <2>4. QED
    BY <2>2, <2>3, <1>5
<1>9. Once'
  <2> SUFFICES ASSUME NEW c \in Bucket, NEW i \in DOMAIN buckets'[c], NEW j \in DOMAIN buckets'[c],
                      buckets'[c][i].task = buckets'[c][j].task
               PROVE  i = j
    BY DEF Once
  <2>1. CASE c # b
    BY <2>1, <1>3 DEF Inv, Once
  <2>2. CASE c = b
    <3>1. f[i] \in DOMAIN buckets[b] /\ f[j] \in DOMAIN buckets[b]
          /\ buckets[b][f[i]].task = buckets[b][f[j]].task
      BY <2>2, <1>4
    <3>2. f[i] = f[j]
      BY <3>1, <1>1 DEF Inv, Once
    <3>3. QED
      BY <3>2, <2>2, <1>4
  <2>3. QED
    BY <2>1, <2>2
<1>10. Fresh'
  BY <1>2, <1>5 DEF Inv, Fresh, Waits
<1>11. Answer'
  <2> SUFFICES ASSUME NEW u \in Callers, at[u] = "idle"
               PROVE  ret[u] = "OK" <=> woken'[u]
    BY <1>2 DEF Answer
  <2>1. woken'[u] <=> woken[u]
    BY <1>5 DEF Waits
  <2>2. ret[u] = "OK" <=> woken[u]
    BY DEF Inv, Answer
  <2>3. QED
    BY <2>1, <2>2
<1>12. QED
  BY <1>6, <1>7, <1>8, <1>9, <1>10, <1>11 DEF Inv

\* futex_wake and futex_wake_bitset take off waiters of the key.
LEMMA WakeStep ==
  ASSUME Numbers, Inv, NEW t \in Callers, NEW k \in Key, NEW n,
         Wake(t, k, n) \/ \E bs \in SUBSET Bits : WakeBitset(t, k, n, bs)
  PROVE  Inv'
<1> DEFINE q == buckets[futex_hash(k)]
<1>1. CASE Wake(t, k, n)
  BY <1>1, OfKeyBounds, TakeOffStep DEF Wake
<1>2. CASE \E bs \in SUBSET Bits : WakeBitset(t, k, n, bs)
  <2>1. PICK bs \in SUBSET Bits : WakeBitset(t, k, n, bs)
    BY <1>2
  <2> DEFINE S == {i \in OfKey(q, k) : q[i].bitset \cap bs # {}}
  <2>2. TakeOff(k, FirstOf(S, n))
    BY <2>1 DEF WakeBitset
  <2>3. S \in SUBSET OfKey(q, k)
    OBVIOUS
  <2> HIDE DEF S
  <2>4. FirstOf(S, n) \in SUBSET DOMAIN q
    BY <2>3, OfKeyBounds
  <2>5. QED
    BY <2>2, <2>4, TakeOffStep
<1>3. QED
  BY <1>1, <1>2

----------------------------------------------------------------------------
(* The theorems.                                                           *)

\* The buckets are empty at first, and nobody waits.
LEMMA WaitersInit ==
  ASSUME Numbers, Init
  PROVE  Inv
<1>1. \A b \in Bucket : buckets[b] = <<>> /\ DOMAIN buckets[b] = {}
  BY SMTT(60) DEF Init
<1>2. Types
  BY SMTT(60) DEF Init, Types, Place
<1>3. Kept /\ Fresh
  BY DEF Init, Kept, Fresh, Waits
<1>4. Entries /\ Once
  BY <1>1 DEF Entries, Once
<1>5. Answer
  BY DEF Init, Answer, Numbers
<1>6. QED
  BY <1>2, <1>3, <1>4, <1>5 DEF Inv

\* With no pair to call futex_requeue with, a step is one of the above.
LEMMA WaitersStep ==
  ASSUME Numbers, Inv, requeues = {}, [Next]_vars
  PROVE  Inv'
<1>1. CASE UNCHANGED <<buckets, at, arg, ret, woken>>
  BY <1>1, SMTT(60) DEF Inv, Types, Kept, Entries, Once, Fresh, Answer, Waits
<1>2. CASE UNCHANGED vars
  BY <1>1, <1>2 DEF vars
<1>3. CASE \E k \in Key, v \in {0, 1} : Store(k, v)
  BY <1>1, <1>3 DEF Store, queueVars, callVars
<1>4. ASSUME NEW t \in Callers, Proceed(t)
      PROVE  Inv'
  <2>1. ~RequeueMove(t)
    BY DEF RequeueMove, Inv, Types
  <2>2. QED
    BY <1>4, <2>1, CompareStep, PushStep, YieldStep, LookFoundStep, LookGoneStep DEF Proceed
<1>5. ASSUME NEW t \in Callers, Call(t)
      PROVE  Inv'
  <2>1. PICK k \in Key :
          \/ \E bs \in SUBSET Bits : FutexWait(t, k, 0, bs)
          \/ \E n \in 0..2 : Wake(t, k, n)
          \/ \E n \in 0..2, bs \in SUBSET Bits : WakeBitset(t, k, n, bs)
    BY <1>5 DEF Call
  <2>2. QED
    BY <2>1, WaitStep, WakeStep
<1>6. QED
  BY <1>2, <1>3, <1>4, <1>5 DEF Next

\* The inductive invariant, for the systems that do not use futex_requeue.
LEMMA WaitersSafe == Numbers /\ Spec => []IInv
<1> SUFFICES ASSUME Numbers
             PROVE  Spec => []IInv
  OBVIOUS
<1>1. Init => IInv
  BY WaitersInit DEF IInv
<1>2. IInv /\ [Next]_vars => IInv'
  <2> SUFFICES ASSUME IInv, [Next]_vars, requeues' = {}
               PROVE  Inv'
    BY DEF IInv
  <2>1. requeues = {}
    BY DEF Next, vars
  <2>2. QED
    BY <2>1, WaitersStep DEF IInv
<1>3. QED
  BY <1>1, <1>2, PTL DEF Spec

\* futex_wait answers 0 exactly to the waiters that futex_wake or futex_wake_bitset counted,
\* however the calls, the deadlines and the signals interleave and the keys collide.
THEOREM FutexOkIffWoken ==
  ASSUME Numbers
  PROVE  Spec => []OkIffWoken
<1>1. IInv => OkIffWoken
  BY DEF IInv, Inv, Answer, OkIffWoken
<1>2. QED
  BY <1>1, WaitersSafe, PTL

\* A task is in a bucket once at most, and only while it waits: futex_wait leaves nothing behind.
THEOREM FutexQueuedWhileWaiting ==
  ASSUME Numbers
  PROVE  Spec => []QueuedWhileWaiting
<1>1. IInv => QueuedWhileWaiting
  <2> SUFFICES ASSUME Inv, NEW t \in Callers
               PROVE  /\ Queued(t) => at[t] \in {"yield", "look"}
                      /\ \A b \in Bucket : Cardinality(Places(t, buckets[b])) <= 1
    BY DEF IInv, QueuedWhileWaiting
  <2>1. Queued(t) => at[t] \in {"yield", "look"}
    BY DEF Queued, Places, Inv, Entries, Waits
  <2>2. ASSUME NEW b \in Bucket
        PROVE  Cardinality(Places(t, buckets[b])) <= 1
    <3>1. \A i, j \in Places(t, buckets[b]) : i = j
      BY DEF Places, Inv, Once
    <3>2. CASE Places(t, buckets[b]) = {}
      BY SMTT(60), <3>2, FS_EmptySet
    <3>3. CASE \E i \in Places(t, buckets[b]) : TRUE
      <4>1. PICK i \in Places(t, buckets[b]) : Places(t, buckets[b]) = {i}
        BY <3>1, <3>3
      <4>2. QED
        BY SMTT(60), <4>1, FS_Singleton
    <3>4. QED
      BY <3>2, <3>3
  <2>3. QED
    BY <2>1, <2>2
<1>2. QED
  BY <1>1, WaitersSafe, PTL

----------------------------------------------------------------------------
(* The locks of futex_requeue.                                             *)

\* Every call goes to a lower bucket.
Downward == \A r \in requeues : futex_hash(r[2]) < futex_hash(r[1])

\* A lock that is held over an await is that of the first bucket of a call of futex_requeue.
Locks ==
  /\ requeues \in SUBSET (Key \X Key)
  /\ lock \in [Bucket -> Callers \cup {None}]
  /\ at \in [Callers -> Place]
  /\ DOMAIN arg = Callers
  /\ \A t \in Callers : at[t] = "requeue" => <<arg[t].key, arg[t].key2>> \in requeues
  /\ \A t \in Callers, b \in Bucket :
       lock[b] = t => at[t] = "requeue" /\ b = futex_hash(arg[t].key)

Pairs == Requeues \subseteq SUBSET (Key \X Key) /\ None \notin Callers

\* A step of a task that holds no lock, and takes none.
LEMMA LocksKept ==
  ASSUME Locks, NEW t \in Callers, at[t] # "requeue", at'[t] # "requeue",
         UNCHANGED <<requeues, lock>>, at' \in [Callers -> Place], DOMAIN arg' = Callers,
         \A u \in Callers \ {t} : at'[u] = at[u] /\ arg'[u] = arg[u]
  PROVE  Locks'
<1>1. \A u \in Callers : at'[u] = "requeue" => <<arg'[u].key, arg'[u].key2>> \in requeues
  BY DEF Locks
<1>2. \A u \in Callers, b \in Bucket :
        lock[b] = u => at'[u] = "requeue" /\ b = futex_hash(arg'[u].key)
  BY DEF Locks
<1>3. QED
  BY <1>1, <1>2 DEF Locks

\* futex_requeue takes the lock of its first bucket if it waits for that of the second.
LEMMA RequeueLocks ==
  ASSUME Numbers, Pairs, Locks, UNCHANGED requeues, NEW t \in Callers, NEW k \in Key, NEW k2, NEW n, NEW m,
         <<k, k2>> \in requeues, Requeue(t, k, n, k2, m)
  PROVE  Locks'
<1> DEFINE b == futex_hash(k)
<1>1. b \in Bucket /\ b = futex_hash(k)
  BY Hash
<1>2. at[t] = "idle"
  BY DEF Requeue
<1>3. \/ UNCHANGED <<lock, at, arg>>
      \/ /\ lock' = [lock EXCEPT ![b] = t]
         /\ arg' = [arg EXCEPT ![t] = [key |-> k, key2 |-> k2, requeue |-> m]]
         /\ at' = [at EXCEPT ![t] = "requeue"]
  BY DEF Requeue, Goto
<1> HIDE DEF b
<1>4. CASE UNCHANGED <<lock, at, arg>>
  BY <1>4 DEF Locks
<1>5. CASE /\ lock' = [lock EXCEPT ![b] = t]
           /\ arg' = [arg EXCEPT ![t] = [key |-> k, key2 |-> k2, requeue |-> m]]
           /\ at' = [at EXCEPT ![t] = "requeue"]
  <2>1. lock' \in [Bucket -> Callers \cup {None}] /\ at' \in [Callers -> Place] /\ DOMAIN arg' = Callers
    BY <1>5, <1>1 DEF Locks, Place
  <2>2. arg'[t].key = k /\ arg'[t].key2 = k2 /\ at'[t] = "requeue"
    BY <1>5 DEF Locks
  <2>3. \A u \in Callers \ {t} : at'[u] = at[u] /\ arg'[u] = arg[u]
    BY <1>5 DEF Locks
  <2>4. \A u \in Callers : at'[u] = "requeue" => <<arg'[u].key, arg'[u].key2>> \in requeues
    BY <2>2, <2>3 DEF Locks
  <2>5. ASSUME NEW u \in Callers, NEW c \in Bucket, lock'[c] = u
        PROVE  at'[u] = "requeue" /\ c = futex_hash(arg'[u].key)
    <3>1. CASE c = b
      BY <3>1, <2>5, <1>1, <1>5, <2>2 DEF Locks
    <3>2. CASE c # b
      <4>1. lock[c] = u
        BY <3>2, <2>5, <1>5 DEF Locks
      <4>2. u # t /\ at[u] = "requeue" /\ c = futex_hash(arg[u].key)
        BY <4>1, <1>2 DEF Locks
      <4>3. QED
        BY <4>2, <2>3
    <3>3. QED
      BY <3>1, <3>2
  <2>6. QED
    BY <2>1, <2>4, <2>5 DEF Locks
<1>6. QED
  BY <1>3, <1>4, <1>5

\* It unlocks what it has locked.
LEMMA MoveLocks ==
  ASSUME Numbers, Pairs, Locks, UNCHANGED requeues, NEW t \in Callers, RequeueMove(t)
  PROVE  Locks'
<1> DEFINE b == futex_hash(arg[t].key)
<1>1. /\ at[t] = "requeue" /\ lock' = [lock EXCEPT ![b] = None]
      /\ at' = [at EXCEPT ![t] = "idle"] /\ arg' = [arg EXCEPT ![t] = None]
  BY DEF RequeueMove, Leave, Goto
<1>2. b \in Bucket /\ b = futex_hash(arg[t].key)
  BY <1>1, Hash DEF Locks
<1> HIDE DEF b
<1>3. lock' \in [Bucket -> Callers \cup {None}] /\ at' \in [Callers -> Place] /\ DOMAIN arg' = Callers
  BY <1>1, <1>2 DEF Locks, Place
<1>4. \A u \in Callers \ {t} : at'[u] = at[u] /\ arg'[u] = arg[u]
  BY <1>1 DEF Locks
<1>5. at'[t] = "idle"
  BY <1>1 DEF Locks
<1>6. ASSUME NEW u \in Callers, NEW c \in Bucket, lock'[c] = u
      PROVE  at'[u] = "requeue" /\ c = futex_hash(arg'[u].key)
  <2>1. c # b /\ lock[c] = u
    BY <1>6, <1>1, <1>2 DEF Locks, Pairs
  <2>2. u # t /\ at[u] = "requeue" /\ c = futex_hash(arg[u].key)
    BY <2>1, <1>2 DEF Locks
  <2>3. QED
    BY <2>2, <1>4
<1>7. \A u \in Callers : at'[u] = "requeue" => <<arg'[u].key, arg'[u].key2>> \in requeues
  BY <1>4, <1>5 DEF Locks
<1>8. QED
  BY <1>3, <1>6, <1>7 DEF Locks

\* The other calls hold no lock between two steps.
LEMMA LocksStep ==
  ASSUME Numbers, Pairs, Locks, [Next]_vars
  PROVE  Locks'
<1>1. CASE UNCHANGED <<requeues, lock, at, arg>>
  BY <1>1 DEF Locks
<1>2. CASE UNCHANGED vars
  BY <1>1, <1>2 DEF vars
<1>3. CASE UNCHANGED requeues /\ \E k \in Key, v \in {0, 1} : Store(k, v)
  BY <1>1, <1>3 DEF Store, queueVars, callVars
<1>4. ASSUME NEW t \in Callers, UNCHANGED requeues, Proceed(t)
      PROVE  Locks'
  <2>1. CASE RequeueMove(t)
    BY <2>1, <1>4, MoveLocks
  <2>2. ASSUME \/ CompareDiffers(t) \/ CompareEqual(t) \/ Push(t) \/ LookGone(t)
               \/ \E b \in BOOLEAN : Yield(t, b) \/ LookFound(t, b)
        PROVE  Locks'
    <3>1. at[t] \notin {"requeue"} /\ lock' = lock
      BY <2>2 DEF CompareDiffers, CompareEqual, Push, LookGone, Yield, LookFound, queueVars
    <3>2. PICK l \in Place \ {"requeue"} :
            at' = [at EXCEPT ![t] = l] /\ (arg' = arg \/ arg' = [arg EXCEPT ![t] = None])
      BY <2>2 DEF CompareDiffers, CompareEqual, Push, LookGone, Yield, LookFound, callVars,
                  Return, Leave, Goto, Place
    <3>3. /\ at' \in [Callers -> Place] /\ DOMAIN arg' = Callers /\ at'[t] # "requeue"
          /\ \A u \in Callers \ {t} : at'[u] = at[u] /\ arg'[u] = arg[u]
      BY <3>2 DEF Locks
    <3>4. QED
      BY <3>1, <3>3, <1>4, LocksKept
  <2>3. QED
    BY <1>4, <2>1, <2>2 DEF Proceed
<1>5. ASSUME NEW t \in Callers, UNCHANGED requeues, Call(t)
      PROVE  Locks'
  <2>1. PICK k \in Key :
          \/ \E bs \in SUBSET Bits : FutexWait(t, k, 0, bs)
          \/ \E n \in 0..2 : Wake(t, k, n)
          \/ \E n \in 0..2, bs \in SUBSET Bits : WakeBitset(t, k, n, bs)
          \/ \E k2 \in {r[2] : r \in requeues}, n \in 0..1, m \in 0..1 :
               <<k, k2>> \in requeues /\ Requeue(t, k, n, k2, m)
    BY <1>5 DEF Call
  <2>2. CASE \E bs \in SUBSET Bits : FutexWait(t, k, 0, bs)
    <3>1. PICK bs \in SUBSET Bits : FutexWait(t, k, 0, bs)
      BY <2>2
    <3>2. /\ at[t] = "idle" /\ at' = [at EXCEPT ![t] = "compare"] /\ lock' = lock
          /\ arg' = [arg EXCEPT ![t] = [key |-> k, val |-> 0, bitset |-> bs]]
      BY <3>1 DEF FutexWait, Goto, queueVars
    <3>3. /\ at' \in [Callers -> Place] /\ DOMAIN arg' = Callers /\ at'[t] # "requeue"
          /\ \A u \in Callers \ {t} : at'[u] = at[u] /\ arg'[u] = arg[u]
      BY <3>2 DEF Locks, Place
    <3>4. QED
      BY <3>2, <3>3, <1>5, LocksKept
  <2>3. CASE \/ \E n \in 0..2 : Wake(t, k, n)
             \/ \E n \in 0..2, bs \in SUBSET Bits : WakeBitset(t, k, n, bs)
    BY <2>3, <1>1, <1>5 DEF Wake, WakeBitset, TakeOff
  <2>4. CASE \E k2 \in {r[2] : r \in requeues}, n \in 0..1, m \in 0..1 :
               <<k, k2>> \in requeues /\ Requeue(t, k, n, k2, m)
    BY <2>4, <1>5, RequeueLocks
  <2>5. QED
    BY <2>1, <2>2, <2>3, <2>4
<1>6. QED
  BY <1>2, <1>3, <1>4, <1>5 DEF Next

\* The deadlock of two calls of futex_requeue needs calls in both directions: if all of them go
\* to a lower bucket, no two wait for each other.
THEOREM FutexOrdered ==
  ASSUME Numbers, Pairs
  PROVE  Spec => [](Downward => NoDeadlock)
<1>1. Init => Locks
  <2> SUFFICES ASSUME Init
               PROVE  Locks
    OBVIOUS
  <2>1. \A t \in Callers, b \in Bucket : lock[b] # t
    BY DEF Init, Pairs
  <2>2. QED
    BY <2>1 DEF Init, Locks, Pairs, Place
<1>2. Locks /\ [Next]_vars => Locks'
  BY LocksStep
<1>3. Locks => (Downward => NoDeadlock)
  <2> SUFFICES ASSUME Locks, Downward, NEW t \in Callers, NEW u \in Callers,
                      at[t] = "requeue", lock[futex_hash(arg[t].key2)] = u,
                      at[u] = "requeue", lock[futex_hash(arg[u].key2)] = t
               PROVE  FALSE
    BY DEF NoDeadlock
  <2>1. /\ <<arg[t].key, arg[t].key2>> \in requeues
        /\ <<arg[u].key, arg[u].key2>> \in requeues
    BY DEF Locks
  <2>2. /\ arg[t].key \in Key /\ arg[t].key2 \in Key
        /\ arg[u].key \in Key /\ arg[u].key2 \in Key
    BY <2>1 DEF Locks
  <2>3. /\ futex_hash(arg[t].key2) \in Bucket /\ futex_hash(arg[u].key2) \in Bucket
        /\ futex_hash(arg[t].key) \in Bucket /\ futex_hash(arg[u].key) \in Bucket
    BY <2>2, Hash
  <2>4. /\ futex_hash(arg[t].key2) = futex_hash(arg[u].key)
        /\ futex_hash(arg[u].key2) = futex_hash(arg[t].key)
    BY <2>3 DEF Locks
  <2>5. /\ futex_hash(arg[t].key2) < futex_hash(arg[t].key)
        /\ futex_hash(arg[u].key2) < futex_hash(arg[u].key)
    BY <2>1 DEF Downward
  <2>6. \A x, y \in Bucket : ~(x < y /\ y < x)
    BY SMTT(60) DEF Numbers, Bucket
  <2>7. QED
    BY <2>3, <2>4, <2>5, <2>6
<1>4. QED
  BY <1>1, <1>2, <1>3, PTL DEF Spec
=============================================================================
