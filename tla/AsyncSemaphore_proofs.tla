------------------------ MODULE AsyncSemaphore_proofs ------------------------
(***************************************************************************)
(* What each operation of the semaphore does to who holds and who waits,   *)
(* and that none loses a permit or a wake-up, for every number of tasks    *)
(* and permits.                                                            *)
(***************************************************************************)
EXTENDS AsyncSemaphore, FiniteSetTheorems, SequenceTheorems, TLAPS

(* A task waits once, and nobody waits who holds a permit.                   *)
WaitOnce(m) ==
  /\ IsInjective(m.queue)
  /\ m.woken \cap ToSet(m.queue) = {}
  /\ m.held \cap Waiters(m) = {}

(* What holds in the middle of an operation, and what holds between two.     *)
Kept(m, tasks, n) == m \in Semaphores(tasks, n) /\ WaitOnce(m) /\ Conserved(m, n)
Orderly(m, tasks, n) == Kept(m, tasks, n) /\ NoLostWakeup(m)

-----------------------------------------------------------------------------
(* Queues without repetition.                                                *)
LEMMA InQueue ==
  ASSUME NEW T, NEW q \in Seq(T)
  PROVE  \A x : x \in ToSet(q) <=> \E i \in 1 .. Len(q) : q[i] = x
BY LenProperties DEF ToSet

LEMMA AppendedQueue ==
  ASSUME NEW T, NEW q \in Seq(T), NEW t \in T, IsInjective(q), t \notin ToSet(q)
  PROVE  /\ Append(q, t) \in Seq(T) /\ IsInjective(Append(q, t))
         /\ ToSet(Append(q, t)) = ToSet(q) \cup {t} /\ Append(q, t) # <<>>
<1> DEFINE p == Append(q, t)
<1>1. Len(q) \in Nat /\ DOMAIN q = 1 .. Len(q)
  BY LenProperties
<1>2. /\ p \in Seq(T) /\ p # <<>> /\ Len(p) = Len(q) + 1 /\ DOMAIN p = 1 .. Len(p)
      /\ \A i \in 1 .. Len(q) : p[i] = q[i]
      /\ p[Len(q) + 1] = t
  BY AppendProperties
<1>3. \A i \in 1 .. Len(q) : q[i] # t
  BY <1>1 DEF ToSet
<1> HIDE DEF p
<1>4. IsInjective(p)
  BY <1>1, <1>2, <1>3 DEF IsInjective
<1>5. ToSet(p) = ToSet(q) \cup {t}
  BY <1>1, <1>2 DEF ToSet
<1> QED BY <1>2, <1>4, <1>5 DEF p

LEMMA TailOfQueue ==
  ASSUME NEW T, NEW q \in Seq(T), q # <<>>, IsInjective(q)
  PROVE  /\ Tail(q) \in Seq(T) /\ IsInjective(Tail(q))
         /\ Head(q) \in T /\ Head(q) \in ToSet(q)
         /\ ToSet(Tail(q)) = ToSet(q) \ {Head(q)}
<1> DEFINE p == Tail(q)
<1>1. Len(q) \in Nat \ {0} /\ DOMAIN q = 1 .. Len(q) /\ Head(q) = q[1]
  BY LenProperties, EmptySeq
<1>2. /\ p \in Seq(T) /\ Head(q) \in T /\ Len(p) = Len(q) - 1 /\ DOMAIN p = 1 .. Len(p)
      /\ \A i \in 1 .. Len(p) : p[i] = q[i + 1]
  BY HeadTailProperties, LenProperties
<1> HIDE DEF p
<1>3. IsInjective(p)
  BY <1>1, <1>2 DEF IsInjective
<1>4. \A i \in 2 .. Len(q) : i - 1 \in 1 .. Len(p) /\ q[i] = p[i - 1] /\ q[i] # q[1]
  BY <1>1, <1>2 DEF IsInjective
<1>5. ToSet(p) = ToSet(q) \ {Head(q)}
  <2>1. \A x \in ToSet(p) : x \in ToSet(q) /\ x # q[1]
    <3>1. \A i \in 1 .. Len(p) : i + 1 \in 1 .. Len(q) /\ q[i + 1] # q[1]
      BY <1>1, <1>2 DEF IsInjective
    <3> QED BY <1>2, <3>1, InQueue
  <2>2. \A x \in ToSet(q) : x # q[1] => x \in ToSet(p)
    <3> SUFFICES ASSUME NEW i \in 1 .. Len(q), q[i] # q[1] PROVE q[i] \in ToSet(p)
      BY InQueue
    <3>1. i - 1 \in 1 .. Len(p) /\ q[i] = p[i - 1]
      BY <1>1, <1>4
    <3> QED BY <1>2, <3>1, InQueue
  <2> QED BY <1>1, <2>1, <2>2
<1>6. Head(q) \in ToSet(q)
  BY <1>1, InQueue
<1> QED BY <1>2, <1>3, <1>5, <1>6 DEF p

(* Where the i-th of the others was before the k-th was removed.             *)
WasAt(k, i) == IF i < k THEN i ELSE i + 1

LEMMA OneRemoved ==
  ASSUME NEW T, NEW q \in Seq(T), NEW k \in 1 .. Len(q)
  PROVE  LET p == RemoveAt(q, k)
         IN  /\ p \in Seq(T) /\ Len(p) = Len(q) - 1 /\ DOMAIN p = 1 .. Len(p)
             /\ \A i \in 1 .. Len(p) :
                  p[i] = q[WasAt(k, i)] /\ WasAt(k, i) \in 1 .. Len(q) \ {k}
<1> DEFINE a == SubSeq(q, 1, k - 1)
           b == SubSeq(q, k + 1, Len(q))
           p == RemoveAt(q, k)
<1>1. Len(q) \in Nat /\ DOMAIN q = 1 .. Len(q) /\ \A i \in 1 .. Len(q) : q[i] \in T
  BY LenProperties
<1>2. /\ a \in Seq(T) /\ Len(a) = k - 1 /\ \A i \in 1 .. k - 1 : a[i] = q[i]
      /\ b \in Seq(T) /\ Len(b) = Len(q) - k /\ \A i \in 1 .. Len(q) - k : b[i] = q[k + i]
  <2>1. k - 1 \in Int /\ k + 1 \in Int /\ Len(q) \in Int
    BY <1>1
  <2>2. /\ a \in Seq(T) /\ Len(a) = IF 1 <= k - 1 THEN k - 1 - 1 + 1 ELSE 0
        /\ \A i \in 1 .. k - 1 - 1 + 1 : a[i] = q[1 + i - 1]
    <3>1. \A i \in 1 .. k - 1 : q[i] \in T
      BY <1>1
    <3> QED BY <2>1, <3>1, SubSeqProperties
  <2>3. /\ b \in Seq(T) /\ Len(b) = IF k + 1 <= Len(q) THEN Len(q) - (k + 1) + 1 ELSE 0
        /\ \A i \in 1 .. Len(q) - (k + 1) + 1 : b[i] = q[(k + 1) + i - 1]
    <3>1. \A i \in k + 1 .. Len(q) : q[i] \in T
      BY <1>1
    <3> QED BY <2>1, <3>1, SubSeqProperties
  <2> HIDE DEF a, b
  <2>4. Len(a) = k - 1 /\ \A i \in 1 .. k - 1 : a[i] = q[i]
    <3>1. k - 1 - 1 + 1 = k - 1 /\ \A i \in 1 .. k - 1 : 1 + i - 1 = i
      OBVIOUS
    <3> QED BY <2>2, <3>1
  <2>5. Len(b) = Len(q) - k /\ \A i \in 1 .. Len(q) - k : b[i] = q[k + i]
    <3>1. /\ Len(q) - (k + 1) + 1 = Len(q) - k
          /\ \A i \in 1 .. Len(q) - k : (k + 1) + i - 1 = k + i
      BY <1>1
    <3>2. Len(b) = Len(q) - k
      <4>1. Len(b) = IF k + 1 <= Len(q) THEN Len(q) - k ELSE 0
        BY <2>3, <3>1
      <4>2. k \in Nat /\ Len(q) \in Nat /\ k <= Len(q)
        BY <1>1
      <4> HIDE DEF p
      <4> QED BY <4>1, <4>2
    <3>3. \A i \in 1 .. Len(q) - k : b[i] = q[(k + 1) + i - 1]
      BY <2>3, <3>1
    <3> QED BY <3>1, <3>2, <3>3
  <2> QED BY <2>2, <2>3, <2>4, <2>5
<1>3. p = a \o b
  BY DEF RemoveAt
<1> HIDE DEF a, b, p
<1>4. /\ p \in Seq(T) /\ Len(p) = Len(q) - 1 /\ DOMAIN p = 1 .. Len(p)
      /\ \A i \in 1 .. Len(p) : p[i] = q[WasAt(k, i)] /\ WasAt(k, i) \in 1 .. Len(q) \ {k}
  <2>1. /\ p \in Seq(T) /\ Len(p) = Len(a) + Len(b)
        /\ \A i \in 1 .. Len(a) + Len(b) : p[i] = IF i <= Len(a) THEN a[i] ELSE b[i - Len(a)]
    BY <1>2, <1>3, ConcatProperties
  <2>2. DOMAIN p = 1 .. Len(p)
    BY <2>1, LenProperties
  <2>3. Len(p) = Len(q) - 1
    BY <1>1, <1>2, <2>1
  <2>4. ASSUME NEW i \in 1 .. Len(p)
        PROVE  p[i] = q[WasAt(k, i)] /\ WasAt(k, i) \in 1 .. Len(q) \ {k}
    <3>1. i \in 1 .. Len(a) + Len(b) /\ p[i] = IF i <= Len(a) THEN a[i] ELSE b[i - Len(a)]
      BY <2>1
    <3>2. CASE i < k
      BY <1>1, <1>2, <2>3, <3>1, <3>2 DEF WasAt
    <3>3. CASE i >= k
      <4>1. i - (k - 1) \in 1 .. Len(q) - k /\ k + (i - (k - 1)) = i + 1 /\ ~(i <= k - 1)
        BY <1>1, <2>3, <3>3
      <4> QED BY <1>1, <1>2, <2>3, <3>1, <3>3, <4>1 DEF WasAt
    <3> QED BY <1>1, <2>3, <3>2, <3>3
  <2> QED BY <2>1, <2>2, <2>3, <2>4
<1> QED BY <1>4 DEF p

LEMMA RemovedFromQueue ==
  ASSUME NEW T, NEW q \in Seq(T), IsInjective(q), NEW k \in 1 .. Len(q)
  PROVE  /\ RemoveAt(q, k) \in Seq(T) /\ IsInjective(RemoveAt(q, k))
         /\ ToSet(RemoveAt(q, k)) = ToSet(q) \ {q[k]}
<1> DEFINE p == RemoveAt(q, k)
<1>1. Len(q) \in Nat /\ DOMAIN q = 1 .. Len(q)
  BY LenProperties
<1>2. /\ p \in Seq(T) /\ Len(p) = Len(q) - 1 /\ DOMAIN p = 1 .. Len(p)
      /\ \A i \in 1 .. Len(p) :
           p[i] = q[WasAt(k, i)] /\ WasAt(k, i) \in 1 .. Len(q) \ {k}
  BY OneRemoved
<1> HIDE DEF p
<1>3. IsInjective(p)
  <2>1. \A i, j \in 1 .. Len(q) : q[i] = q[j] => i = j
    BY <1>1 DEF IsInjective
  <2>2. \A i, j \in 1 .. Len(p) : WasAt(k, i) = WasAt(k, j) => i = j
    BY <1>1, <1>2 DEF WasAt
  <2>3. \A i, j \in 1 .. Len(p) : p[i] = p[j] => i = j
    BY <1>2, <2>1, <2>2
  <2> QED BY <1>2, <2>3 DEF IsInjective
<1>4. \A j \in 1 .. Len(q) \ {k} :
        \E i \in 1 .. Len(p) : p[i] = q[j]
  <2> SUFFICES ASSUME NEW j \in 1 .. Len(q) \ {k}
               PROVE  \E i \in 1 .. Len(p) : p[i] = q[j]
    OBVIOUS
  <2>1. CASE j < k
    BY <1>1, <1>2, <2>1 DEF WasAt
  <2>2. CASE j > k
    <3>1. j - 1 \in 1 .. Len(p) /\ WasAt(k, j - 1) = j
      BY <1>1, <1>2, <2>2 DEF WasAt
    <3> QED BY <1>2, <3>1
  <2> QED BY <1>1, <2>1, <2>2
<1>5. \A j \in 1 .. Len(q) \ {k} : q[j] # q[k]
  BY <1>1 DEF IsInjective
<1>6. ToSet(p) = ToSet(q) \ {q[k]}
  <2>1. \A x \in ToSet(p) : x \in ToSet(q) /\ x # q[k]
    BY <1>2, <1>5, InQueue
  <2>2. \A x \in ToSet(q) : x # q[k] => x \in ToSet(p)
    <3> SUFFICES ASSUME NEW j \in 1 .. Len(q), q[j] # q[k] PROVE q[j] \in ToSet(p)
      BY InQueue
    <3>1. \E i \in 1 .. Len(p) : p[i] = q[j]
      BY <1>4
    <3> QED BY <1>2, <3>1, InQueue
  <2> QED BY <2>1, <2>2
<1> QED BY <1>2, <1>3, <1>6 DEF p

-----------------------------------------------------------------------------
(* Permits.                                                                  *)
LEMMA SemaphoreOrderly ==
  ASSUME NEW tasks, NEW n \in Nat
  PROVE  /\ Orderly(Semaphore(n), tasks, n)
         /\ Semaphore(n).held = {} /\ Waiters(Semaphore(n)) = {}
<1>1. Cardinality({}) = 0
  BY FS_EmptySet
<1>2. <<>> \in Seq(tasks) /\ DOMAIN <<>> = {}
  BY EmptySeq, LenProperties
<1>3. ToSet(<<>>) = {} /\ IsInjective(<<>>)
  BY <1>2 DEF ToSet, IsInjective
<1> QED BY <1>1, <1>2, <1>3
        DEF Orderly, Kept, Semaphore, Semaphores, WaitOnce, Waiters, Conserved, NoLostWakeup

LEMMA PermitsAreCounted ==
  ASSUME NEW tasks, IsFiniteSet(tasks), NEW n \in Nat, NEW m, Kept(m, tasks, n)
  PROVE  /\ m.value \in Nat /\ Cardinality(m.woken) \in Nat /\ Cardinality(m.held) \in Nat
         /\ \A t \in tasks :
              /\ Cardinality(m.woken \cup {t}) =
                   IF t \in m.woken THEN Cardinality(m.woken) ELSE Cardinality(m.woken) + 1
              /\ Cardinality(m.held \cup {t}) =
                   IF t \in m.held THEN Cardinality(m.held) ELSE Cardinality(m.held) + 1
              /\ Cardinality(m.woken \ {t}) =
                   IF t \in m.woken THEN Cardinality(m.woken) - 1 ELSE Cardinality(m.woken)
              /\ Cardinality(m.held \ {t}) =
                   IF t \in m.held THEN Cardinality(m.held) - 1 ELSE Cardinality(m.held)
<1>1. m.woken \in SUBSET tasks /\ m.held \in SUBSET tasks /\ m.value \in Nat
  BY DEF Kept, Semaphores
<1>2. IsFiniteSet(m.woken) /\ IsFiniteSet(m.held)
  BY <1>1, FS_Subset
<1> QED BY <1>1, <1>2, FS_CardinalityType, FS_AddElement, FS_RemoveElement

LEMMA WakeNextKeeps ==
  ASSUME NEW tasks, IsFiniteSet(tasks), NEW n \in Nat, NEW m, Kept(m, tasks, n)
  PROVE  /\ Orderly(WakeNext(m), tasks, n)
         /\ WakeNext(m).held = m.held /\ Waiters(WakeNext(m)) = Waiters(m)
<1>1. CASE ~(m.value > 0 /\ m.queue # <<>>)
  BY <1>1 DEF WakeNext, Orderly, NoLostWakeup
<1>2. CASE m.value > 0 /\ m.queue # <<>>
  <2> DEFINE h == Head(m.queue)
  <2>1. /\ m.queue \in Seq(tasks) /\ m.woken \subseteq tasks /\ m.held \subseteq tasks
        /\ m.value \in 0 .. n /\ IsInjective(m.queue)
    BY DEF Kept, Semaphores, WaitOnce
  <2>2. /\ Tail(m.queue) \in Seq(tasks) /\ IsInjective(Tail(m.queue))
        /\ h \in tasks /\ h \in ToSet(m.queue) /\ ToSet(Tail(m.queue)) = ToSet(m.queue) \ {h}
    BY <1>2, <2>1, TailOfQueue
  <2> HIDE DEF h
  <2>3. WakeNext(m) = [value |-> m.value - 1, queue |-> Tail(m.queue),
                       woken |-> m.woken \cup {h}, held |-> m.held]
    BY <1>2 DEF WakeNext, Kept, Semaphores, h
  <2>4. h \notin m.woken
    BY <2>2 DEF Kept, WaitOnce
  <2>5. Cardinality(m.woken \cup {h}) = Cardinality(m.woken) + 1
        /\ m.value \in Nat /\ Cardinality(m.woken) \in Nat /\ Cardinality(m.held) \in Nat
    <3>1. h \in tasks
      BY <2>2
    <3> QED BY <2>4, <3>1, PermitsAreCounted
  <2>6. WakeNext(m) \in Semaphores(tasks, n)
    BY <1>2, <2>1, <2>2, <2>3 DEF Semaphores
  <2>7. Conserved(WakeNext(m), n)
    <3>1. m.value + Cardinality(m.woken) + Cardinality(m.held) = n
      BY DEF Conserved, Kept
    <3>2. /\ WakeNext(m).value = m.value - 1 /\ WakeNext(m).woken = m.woken \cup {h}
          /\ WakeNext(m).held = m.held
      BY <2>3
    <3> QED BY <2>5, <3>1, <3>2 DEF Conserved
  <2>8. Waiters(WakeNext(m)) = Waiters(m)
    BY <2>2, <2>3 DEF Waiters
  <2>9. WaitOnce(WakeNext(m))
    BY <2>2, <2>3, <2>8 DEF WaitOnce, Kept
  <2>10. NoLostWakeup(WakeNext(m))
    BY <2>3 DEF NoLostWakeup
  <2> QED BY <2>3, <2>6, <2>7, <2>8, <2>9, <2>10 DEF Orderly, Kept
<1> QED BY <1>1, <1>2

-----------------------------------------------------------------------------
(* The operations.                                                           *)

(* acquire(): who comes while nobody waits and a permit is free holds it at once, and
   everybody else waits.                                                     *)
THEOREM AcquireCorrect ==
  ASSUME NEW tasks, IsFiniteSet(tasks), NEW n \in Nat, NEW m, Orderly(m, tasks, n),
         NEW t \in tasks, t \notin m.held, t \notin Waiters(m)
  PROVE  /\ Orderly(Acquire(m, t), tasks, n)
         /\ Acquire(m, t).held = IF Locked(m) THEN m.held ELSE m.held \cup {t}
         /\ Waiters(Acquire(m, t)) = IF Locked(m) THEN Waiters(m) \cup {t} ELSE Waiters(m)
<1>1. /\ m.queue \in Seq(tasks) /\ m.woken \subseteq tasks /\ m.held \subseteq tasks
      /\ m.value \in 0 .. n /\ IsInjective(m.queue)
  BY DEF Orderly, Kept, Semaphores, WaitOnce
<1>2. CASE Locked(m)
  <2>1. t \notin ToSet(m.queue)
    BY DEF Waiters
  <2>2. /\ Append(m.queue, t) \in Seq(tasks) /\ IsInjective(Append(m.queue, t))
        /\ ToSet(Append(m.queue, t)) = ToSet(m.queue) \cup {t}
    BY <1>1, <2>1, AppendedQueue
  <2>3. Acquire(m, t) = [value |-> m.value, queue |-> Append(m.queue, t),
                         woken |-> m.woken, held |-> m.held]
    BY <1>2 DEF Acquire, Orderly, Kept, Semaphores
  <2>4. Waiters(Acquire(m, t)) = Waiters(m) \cup {t}
    BY <2>2, <2>3 DEF Waiters
  <2>5. Kept(Acquire(m, t), tasks, n)
    BY <1>1, <2>2, <2>3, <2>4 DEF Orderly, Kept, WaitOnce, Waiters, Conserved, Semaphores
  <2>6. NoLostWakeup(Acquire(m, t))
    <3>1. m.value > 0 => m.woken # {}
      BY <1>1, <1>2 DEF NoLostWakeup, Locked, Orderly
    <3> QED BY <2>3, <3>1 DEF NoLostWakeup
  <2>7. Acquire(m, t).held = m.held
    BY <2>3
  <2> QED BY <1>2, <2>4, <2>5, <2>6, <2>7 DEF Orderly
<1>3. CASE ~Locked(m)
  <2>1. Acquire(m, t) = [value |-> m.value - 1, queue |-> m.queue,
                         woken |-> m.woken, held |-> m.held \cup {t}]
    BY <1>3 DEF Acquire, Orderly, Kept, Semaphores
  <2>2. /\ Cardinality(m.held \cup {t}) = Cardinality(m.held) + 1
        /\ m.value \in Nat /\ Cardinality(m.woken) \in Nat /\ Cardinality(m.held) \in Nat
    BY PermitsAreCounted DEF Orderly
  <2>3. Acquire(m, t) \in Semaphores(tasks, n)
    BY <1>1, <1>3, <2>1 DEF Semaphores, Locked
  <2>4. Conserved(Acquire(m, t), n)
    BY <2>1, <2>2 DEF Orderly, Kept, Conserved
  <2>5. WaitOnce(Acquire(m, t)) /\ Waiters(Acquire(m, t)) = Waiters(m)
    BY <2>1 DEF Orderly, Kept, WaitOnce, Waiters
  <2> QED BY <1>3, <2>1, <2>3, <2>4, <2>5 DEF Orderly, Kept, NoLostWakeup, Locked
<1> QED BY <1>2, <1>3

(* A woken task runs: it no longer waits, and holds its permit.              *)
THEOREM ResumedCorrect ==
  ASSUME NEW tasks, IsFiniteSet(tasks), NEW n \in Nat, NEW m, Orderly(m, tasks, n),
         NEW t \in m.woken
  PROVE  /\ Orderly(Resumed(m, t), tasks, n)
         /\ Resumed(m, t).held = m.held \cup {t} /\ Waiters(Resumed(m, t)) = Waiters(m) \ {t}
<1> DEFINE r == [value |-> m.value, queue |-> m.queue, woken |-> m.woken \ {t},
                 held |-> m.held \cup {t}]
<1>1. /\ m.queue \in Seq(tasks) /\ m.woken \subseteq tasks /\ m.held \subseteq tasks
      /\ m.value \in 0 .. n /\ t \in tasks /\ t \notin ToSet(m.queue) /\ t \notin m.held
  BY DEF Orderly, Kept, Semaphores, WaitOnce, Waiters
<1>2. /\ [m EXCEPT !.woken = @ \ {t}, !.held = @ \cup {t}] = r
      /\ r.value = m.value /\ r.queue = m.queue
      /\ r.woken = m.woken \ {t} /\ r.held = m.held \cup {t}
  <2>1. m \in [value: 0 .. n, queue: Seq(tasks), woken: SUBSET tasks, held: SUBSET tasks]
    BY DEF Orderly, Kept, Semaphores
  <2>2. \A a, b : [m EXCEPT !.woken = a, !.held = b] =
                 [value |-> m.value, queue |-> m.queue, woken |-> a, held |-> b]
    <3> SUFFICES ASSUME NEW a, NEW b
                 PROVE  [m EXCEPT !.woken = a, !.held = b] =
                          [value |-> m.value, queue |-> m.queue, woken |-> a, held |-> b]
      OBVIOUS
    <3> DEFINE k == [m EXCEPT !.woken = a]
    <3>1. k = [value |-> m.value, queue |-> m.queue, woken |-> a, held |-> m.held]
      BY <2>1
    <3>2. [m EXCEPT !.woken = a, !.held = b] = [k EXCEPT !.held = b]
      OBVIOUS
    <3> HIDE DEF k
    <3>3. k \in [value: 0 .. n, queue: Seq(tasks), woken: {a}, held: SUBSET tasks]
      BY <2>1, <3>1
    <3>4. [k EXCEPT !.held = b] =
            [value |-> k.value, queue |-> k.queue, woken |-> k.woken, held |-> b]
      BY <3>3
    <3> QED BY <3>1, <3>2, <3>4
  <2>3. [m EXCEPT !.woken = m.woken \ {t}, !.held = m.held \cup {t}] = r
    BY <2>2
  <2>4. /\ r.value = m.value /\ r.queue = m.queue
        /\ r.woken = m.woken \ {t} /\ r.held = m.held \cup {t}
    OBVIOUS
  <2> HIDE DEF r
  <2> QED BY <2>3, <2>4
<1>3. /\ Cardinality(m.held \cup {t}) = Cardinality(m.held) + 1
      /\ Cardinality(m.woken \ {t}) = Cardinality(m.woken) - 1
      /\ m.value \in Nat /\ Cardinality(m.woken) \in Nat /\ Cardinality(m.held) \in Nat
  BY <1>1, PermitsAreCounted DEF Orderly
<1>4. r \in Semaphores(tasks, n) /\ Waiters(r) = Waiters(m) \ {t} /\ r.held = m.held \cup {t}
  BY <1>1 DEF Semaphores, Waiters
<1> HIDE DEF r
<1>5. Conserved(r, n)
  BY <1>2, <1>3 DEF Orderly, Kept, Conserved
<1>6. WaitOnce(r)
  BY <1>1, <1>2, <1>4 DEF Orderly, Kept, WaitOnce, Waiters
<1>7. Kept(r, tasks, n)
  BY <1>4, <1>5, <1>6 DEF Kept
<1>8. /\ Orderly(WakeNext(r), tasks, n)
      /\ WakeNext(r).held = r.held /\ Waiters(WakeNext(r)) = Waiters(r)
  BY <1>7, WakeNextKeeps
<1> QED BY <1>2, <1>4, <1>8 DEF Resumed

(* release(): the permit is free, or that of the next in the queue.          *)
THEOREM ReleaseCorrect ==
  ASSUME NEW tasks, IsFiniteSet(tasks), NEW n \in Nat, NEW m, Orderly(m, tasks, n),
         NEW t \in m.held
  PROVE  /\ Orderly(Release(m, t), tasks, n)
         /\ Release(m, t).held = m.held \ {t} /\ Waiters(Release(m, t)) = Waiters(m)
<1> DEFINE r == [value |-> m.value + 1, queue |-> m.queue, woken |-> m.woken,
                 held |-> m.held \ {t}]
<1>1. /\ m.queue \in Seq(tasks) /\ m.woken \subseteq tasks /\ m.held \subseteq tasks
      /\ m.value \in 0 .. n /\ t \in tasks
  BY DEF Orderly, Kept, Semaphores
<1>2. /\ [m EXCEPT !.value = @ + 1, !.held = @ \ {t}] = r
      /\ r.value = m.value + 1 /\ r.queue = m.queue
      /\ r.woken = m.woken /\ r.held = m.held \ {t}
  <2>1. m \in [value: 0 .. n, queue: Seq(tasks), woken: SUBSET tasks, held: SUBSET tasks]
    BY DEF Orderly, Kept, Semaphores
  <2>2. \A a, b : [m EXCEPT !.value = a, !.held = b] =
                 [value |-> a, queue |-> m.queue, woken |-> m.woken, held |-> b]
    <3> SUFFICES ASSUME NEW a, NEW b
                 PROVE  [m EXCEPT !.value = a, !.held = b] =
                          [value |-> a, queue |-> m.queue, woken |-> m.woken, held |-> b]
      OBVIOUS
    <3> DEFINE k == [m EXCEPT !.value = a]
    <3>1. k = [value |-> a, queue |-> m.queue, woken |-> m.woken, held |-> m.held]
      BY <2>1
    <3>2. [m EXCEPT !.value = a, !.held = b] = [k EXCEPT !.held = b]
      OBVIOUS
    <3> HIDE DEF k
    <3>3. k \in [value: {a}, queue: Seq(tasks), woken: SUBSET tasks, held: SUBSET tasks]
      BY <2>1, <3>1
    <3>4. [k EXCEPT !.held = b] =
            [value |-> k.value, queue |-> k.queue, woken |-> k.woken, held |-> b]
      BY <3>3
    <3> QED BY <3>1, <3>2, <3>4
  <2>3. [m EXCEPT !.value = m.value + 1, !.held = m.held \ {t}] = r
    BY <2>2
  <2>4. /\ r.value = m.value + 1 /\ r.queue = m.queue
        /\ r.woken = m.woken /\ r.held = m.held \ {t}
    OBVIOUS
  <2> HIDE DEF r
  <2> QED BY <2>3, <2>4
<1>3. /\ Cardinality(m.held \ {t}) = Cardinality(m.held) - 1
      /\ m.value \in Nat /\ Cardinality(m.woken) \in Nat /\ Cardinality(m.held) \in Nat
      /\ Cardinality(m.held \ {t}) \in Nat
  <2>1. Cardinality(m.held \ {t}) \in Nat
    <3>1. m.held \ {t} \in SUBSET tasks
      BY <1>1
    <3> QED BY <3>1, FS_Subset, FS_CardinalityType
  <2> QED BY <1>1, <2>1, PermitsAreCounted DEF Orderly
<1>4. Conserved(r, n)
  BY <1>2, <1>3 DEF Orderly, Kept, Conserved
<1>5. r \in Semaphores(tasks, n) /\ Waiters(r) = Waiters(m) /\ r.held = m.held \ {t}
  <2>1. m.value + 1 \in 0 .. n
    BY <1>2, <1>3, <1>4 DEF Conserved
  <2> QED BY <1>1, <2>1 DEF Semaphores, Waiters
<1> HIDE DEF r
<1>6. WaitOnce(r)
  BY <1>2, <1>5 DEF Orderly, Kept, WaitOnce
<1>7. Kept(r, tasks, n)
  BY <1>4, <1>5, <1>6 DEF Kept
<1>8. /\ Orderly(WakeNext(r), tasks, n)
      /\ WakeNext(r).held = r.held /\ Waiters(WakeNext(r)) = Waiters(r)
  BY <1>7, WakeNextKeeps
<1> QED BY <1>2, <1>5, <1>8 DEF Release

(* The cancellation of a waiter: a permit that it was given is passed on.    *)
THEOREM AbandonCorrect ==
  ASSUME NEW tasks, IsFiniteSet(tasks), NEW n \in Nat, NEW m, Orderly(m, tasks, n),
         NEW t \in Waiters(m)
  PROVE  /\ Orderly(Abandon(m, t), tasks, n)
         /\ Abandon(m, t).held = m.held /\ Waiters(Abandon(m, t)) = Waiters(m) \ {t}
<1>1. /\ m.queue \in Seq(tasks) /\ m.woken \subseteq tasks /\ m.held \subseteq tasks
      /\ m.value \in 0 .. n /\ IsInjective(m.queue)
  BY DEF Orderly, Kept, Semaphores, WaitOnce
<1>2. CASE t \in m.woken
  <2> DEFINE r == [value |-> m.value + 1, queue |-> m.queue, woken |-> m.woken \ {t},
                   held |-> m.held]
  <2>1. /\ [m EXCEPT !.value = @ + 1, !.woken = @ \ {t}] = r
        /\ r.value = m.value + 1 /\ r.queue = m.queue
        /\ r.woken = m.woken \ {t} /\ r.held = m.held
    <3>1. m \in [value: 0 .. n, queue: Seq(tasks), woken: SUBSET tasks, held: SUBSET tasks]
      BY DEF Orderly, Kept, Semaphores
    <3>2. \A a, b : [m EXCEPT !.value = a, !.woken = b] =
                   [value |-> a, queue |-> m.queue, woken |-> b, held |-> m.held]
      <4> SUFFICES ASSUME NEW a, NEW b
                   PROVE  [m EXCEPT !.value = a, !.woken = b] =
                            [value |-> a, queue |-> m.queue, woken |-> b, held |-> m.held]
        OBVIOUS
      <4> DEFINE k == [m EXCEPT !.value = a]
      <4>1. k = [value |-> a, queue |-> m.queue, woken |-> m.woken, held |-> m.held]
        BY <3>1
      <4>2. [m EXCEPT !.value = a, !.woken = b] = [k EXCEPT !.woken = b]
        OBVIOUS
      <4> HIDE DEF k
      <4>3. k \in [value: {a}, queue: Seq(tasks), woken: SUBSET tasks, held: SUBSET tasks]
        BY <3>1, <4>1
      <4>4. [k EXCEPT !.woken = b] =
              [value |-> k.value, queue |-> k.queue, woken |-> b, held |-> k.held]
        BY <4>3
      <4> QED BY <4>1, <4>2, <4>4
    <3>3. [m EXCEPT !.value = m.value + 1, !.woken = m.woken \ {t}] = r
      BY <3>2
    <3>4. /\ r.value = m.value + 1 /\ r.queue = m.queue
          /\ r.woken = m.woken \ {t} /\ r.held = m.held
      OBVIOUS
    <3> HIDE DEF r
    <3> QED BY <3>3, <3>4
  <2>2. t \in tasks /\ t \notin ToSet(m.queue)
    BY <1>1, <1>2 DEF Orderly, Kept, WaitOnce
  <2>3. /\ Cardinality(m.woken \ {t}) = Cardinality(m.woken) - 1
        /\ m.value \in Nat /\ Cardinality(m.woken) \in Nat /\ Cardinality(m.held) \in Nat
        /\ Cardinality(m.woken \ {t}) \in Nat
    <3>1. Cardinality(m.woken \ {t}) \in Nat
      <4>1. m.woken \ {t} \in SUBSET tasks
        BY <1>1
      <4> QED BY <4>1, FS_Subset, FS_CardinalityType
    <3> QED BY <1>2, <2>2, <3>1, PermitsAreCounted DEF Orderly
  <2>4. Conserved(r, n)
    BY <2>1, <2>3 DEF Orderly, Kept, Conserved
  <2>5. r \in Semaphores(tasks, n) /\ Waiters(r) = Waiters(m) \ {t} /\ r.held = m.held
    <3>1. m.value + 1 \in 0 .. n
      BY <2>1, <2>3, <2>4 DEF Conserved
    <3> QED BY <1>1, <2>2, <3>1 DEF Semaphores, Waiters
  <2> HIDE DEF r
  <2>6. WaitOnce(r)
    BY <2>1, <2>5 DEF Orderly, Kept, WaitOnce
  <2>7. Kept(r, tasks, n)
    BY <2>4, <2>5, <2>6 DEF Kept
  <2>8. /\ Orderly(WakeNext(r), tasks, n)
        /\ WakeNext(r).held = r.held /\ Waiters(WakeNext(r)) = Waiters(r)
    BY <2>7, WakeNextKeeps
  <2> QED BY <1>2, <2>1, <2>5, <2>8 DEF Abandon
<1>3. CASE t \notin m.woken
  <2> DEFINE k == PlaceInQueue(m, t)
             q == RemoveAt(m.queue, k)
  <2>1. k \in 1 .. Len(m.queue) /\ m.queue[k] = t
    <3>1. \E i \in DOMAIN m.queue : m.queue[i] = t
      BY <1>3 DEF Waiters, ToSet
    <3>2. DOMAIN m.queue = 1 .. Len(m.queue)
      BY <1>1, LenProperties
    <3> QED BY <3>1, <3>2 DEF PlaceInQueue
  <2> HIDE DEF k
  <2>2. q \in Seq(tasks) /\ IsInjective(q) /\ ToSet(q) = ToSet(m.queue) \ {t}
    BY <1>1, <2>1, RemovedFromQueue
  <2> HIDE DEF q
  <2>3. Abandon(m, t) = [value |-> m.value, queue |-> q, woken |-> m.woken, held |-> m.held]
    BY <1>3 DEF Abandon, Orderly, Kept, Semaphores, q, k
  <2>4. /\ Abandon(m, t) \in Semaphores(tasks, n) /\ Conserved(Abandon(m, t), n)
        /\ Waiters(Abandon(m, t)) = Waiters(m) \ {t} /\ Abandon(m, t).held = m.held
    BY <1>1, <1>3, <2>2, <2>3 DEF Orderly, Kept, Semaphores, Conserved, Waiters
  <2>5. WaitOnce(Abandon(m, t))
    BY <2>2, <2>3, <2>4 DEF Orderly, Kept, WaitOnce
  <2>6. m.value > 0 /\ q # <<>> => m.woken # {}
    <3>1. m.queue # <<>>
      BY <1>1, <2>1
    <3> QED BY <3>1 DEF Orderly, NoLostWakeup
  <2>7. NoLostWakeup(Abandon(m, t))
    BY <2>3, <2>6 DEF NoLostWakeup
  <2> QED BY <2>4, <2>5, <2>7 DEF Orderly, Kept
<1> QED BY <1>2, <1>3
=============================================================================
