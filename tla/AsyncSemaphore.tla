--------------------------- MODULE AsyncSemaphore ---------------------------
(***************************************************************************)
(* asyncio.Semaphore of Python 3.11 as operators on a record. A waiter     *)
(* that release() has chosen is "woken": the permit is its own, but it has *)
(* not run yet. Only then, or when it is cancelled, does it leave the list *)
(* of waiters, and until it has, nobody else acquires without waiting.     *)
(***************************************************************************)
EXTENDS Integers, Sequences, FiniteSets, SequencesExt

Semaphore(n) == [value |-> n, queue |-> <<>>, woken |-> {}, held |-> {}]

Semaphores(tasks, n) ==
  [value: 0 .. n, queue: Seq(tasks), woken: SUBSET tasks, held: SUBSET tasks]

Locked(m) == m.value = 0 \/ m.queue # <<>> \/ m.woken # {}

(* _wake_up_next                                                             *)
WakeNext(m) ==
  IF m.value > 0 /\ m.queue # <<>>
  THEN [m EXCEPT !.value = @ - 1, !.queue = Tail(@), !.woken = @ \cup {Head(m.queue)}]
  ELSE m

(* acquire() up to its first await.                                          *)
Acquire(m, t) ==
  IF Locked(m) THEN [m EXCEPT !.queue = Append(@, t)]
               ELSE [m EXCEPT !.value = @ - 1, !.held = @ \cup {t}]

(* A woken task runs.                                                        *)
Resumed(m, t) == WakeNext([m EXCEPT !.woken = @ \ {t}, !.held = @ \cup {t}])

Release(m, t) == WakeNext([m EXCEPT !.value = @ + 1, !.held = @ \ {t}])

PlaceInQueue(m, t) == CHOOSE i \in DOMAIN m.queue : m.queue[i] = t

(* A waiter is cancelled: one that has been woken gives its permit back.     *)
Abandon(m, t) ==
  IF t \in m.woken
  THEN WakeNext([m EXCEPT !.value = @ + 1, !.woken = @ \ {t}])
  ELSE [m EXCEPT !.queue = RemoveAt(@, PlaceInQueue(m, t))]

Waiters(m) == m.woken \cup ToSet(m.queue)

(* All n permits are free or somebody's.                                     *)
Conserved(m, n) == m.value + Cardinality(m.woken) + Cardinality(m.held) = n

(* Nobody waits behind a free permit that nobody is about to pass on.        *)
NoLostWakeup(m) == m.value > 0 /\ m.queue # <<>> => m.woken # {}
=============================================================================
