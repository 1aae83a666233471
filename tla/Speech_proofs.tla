---------------------------- MODULE Speech_proofs ----------------------------
(***************************************************************************)
(* What the registry of streams and the local runtime promise, for any     *)
(* streams, keys and limit, and for any callers, workers and capacity: the *)
(* registry keeps its keys, its limit and what a shutdown promises; the    *)
(* runtime its queue, its workers and the promises of its shutdown. The    *)
(* lemmas about queues are those of AsyncSemaphore_proofs.                 *)
(***************************************************************************)
EXTENDS SpeechRuntime, StreamRegistry, RealtimePreview, AsyncSemaphore_proofs,
        WellFoundedInduction

-----------------------------------------------------------------------------
(* The registry of streams. *)

(* A stream is new as long as it has no handler, and open only while its handler
   serves it; whatever was opened has a key.                                 *)
StreamLife ==
  \A s \in Streams :
    /\ context[s] = "new" <=> handler[s] = "none"
    /\ context[s] = "open" => handler[s] = "serving"
    /\ context[s] # "new" => key[s] \in Keys

(* An entry is a stream that was opened with that key and not yet released.  *)
EntriesAreTheirs ==
  \A k \in Keys :
    registered[k] # None =>
      key[registered[k]] = k /\ handler[registered[k]] \in {"serving", "releasing"}

(* The shutdown has every open stream still before it.                       *)
ShutdownReachesAll ==
  /\ phase = "closing" => Open \subseteq leftToClose
  /\ phase = "closed" => Open = {} /\ Entries = {}

LimitInv == Cardinality(Entries) <= MaxActive

RegistryInv ==
  /\ TypeOK /\ StreamLife /\ EntriesAreTheirs /\ OpenIsRegistered
  /\ ShutdownReachesAll /\ LimitInv

-----------------------------------------------------------------------------
(* What the invariant says of the streams alone is enough for StreamsInv.    *)
LEMMA OpenFitsEntries ==
  ASSUME RegistryAssumption, TypeOK, StreamLife, OpenIsRegistered
  PROVE  Cardinality(Open) <= Cardinality(Entries)
<1> DEFINE f == [s \in Open |-> key[s]]
<1>1. Entries \in SUBSET Keys /\ IsFiniteSet(Keys)
  BY DEF Entries, RegistryAssumption
<1>2. IsFiniteSet(Entries)
  BY <1>1, FS_Subset
<1>3. \A s \in Open : s \in Streams /\ s # None /\ key[s] \in Keys /\ registered[key[s]] = s
  BY DEF Open, StreamLife, OpenIsRegistered, RegistryAssumption
<1>4. f \in [Open -> Entries]
  BY <1>3 DEF Entries
<1>5. \A s, t \in Open : f[s] = f[t] => s = t
  BY <1>3
<1>6. f \in Injection(Open, Entries)
  BY <1>4, <1>5 DEF Injection, IsInjective
<1> QED BY <1>2, <1>6, FS_Injection

LEMMA InvariantImplies ==
  ASSUME RegistryAssumption, RegistryInv
  PROVE  StreamsInv
<1>1. Cardinality(Open) <= Cardinality(Entries)
  BY OpenFitsEntries DEF RegistryInv
<1>2. GoneIsGone
  <2> SUFFICES ASSUME NEW s \in Streams, handler[s] = "gone"
               PROVE  Closed(s) /\ \A k \in Keys : registered[k] # s
    BY DEF GoneIsGone
  <2>1. Closed(s)
    BY DEF RegistryInv, TypeOK, StreamLife, Closed
  <2>2. s # None
    BY DEF RegistryAssumption
  <2> QED BY <2>1, <2>2 DEF RegistryInv, EntriesAreTheirs
<1> QED BY <1>1, <1>2 DEF StreamsInv, RegistryInv, WithinLimit, LimitInv,
        ShutdownReachesAll, ShutdownLeavesNone

-----------------------------------------------------------------------------
LEMMA InitialRegistry ==
  ASSUME RegistryAssumption, Init
  PROVE  RegistryInv
<1>1. Open = {} /\ Entries = {}
  BY DEF Init, Open, Entries
<1>2. Cardinality(Entries) = 0
  BY <1>1, FS_EmptySet
<1> QED BY <1>1, <1>2 DEF RegistryAssumption, Init, RegistryInv, TypeOK, StreamLife,
        EntriesAreTheirs, OpenIsRegistered, ShutdownReachesAll, LimitInv, Entries

(* No step but an opening adds an entry.                                     *)
LEMMA FewerEntries ==
  ASSUME RegistryAssumption, LimitInv, Entries' \subseteq Entries
  PROVE  LimitInv'
<1>1. IsFiniteSet(Entries) /\ Entries' \in SUBSET Entries
  <2>1. Entries \in SUBSET Keys
    BY DEF Entries
  <2> QED BY <2>1, FS_Subset DEF RegistryAssumption
<1>2. IsFiniteSet(Entries') /\ Cardinality(Entries') <= Cardinality(Entries)
  BY <1>1, FS_Subset
<1>3. Cardinality(Entries) \in Nat /\ Cardinality(Entries') \in Nat
  BY <1>1, <1>2, FS_CardinalityType
<1> QED BY <1>2, <1>3 DEF LimitInv, RegistryAssumption

LEMMA OpenStreamStep ==
  ASSUME RegistryAssumption, RegistryInv, NEW s \in Streams, NEW k \in Keys, OpenStream(s, k)
  PROVE  RegistryInv'
<1> USE DEF RegistryInv
<1>1. TypeOK'
  BY DEF OpenStream, TypeOK
<1>2. StreamLife'
  BY DEF OpenStream, TypeOK, StreamLife
<1>3. EntriesAreTheirs'
  BY DEF OpenStream, TypeOK, EntriesAreTheirs, StreamLife, RegistryAssumption
<1>4. OpenIsRegistered'
  <2> SUFFICES ASSUME NEW t \in Streams, context'[t] = "open"
               PROVE  registered'[key'[t]] = t
    BY DEF OpenIsRegistered, Open
  <2>1. CASE t = s
    BY <2>1 DEF OpenStream, TypeOK
  <2>2. CASE t # s
    <3>1. context[t] = "open" /\ registered[key[t]] = t /\ key[t] \in Keys
      BY <2>2 DEF OpenStream, TypeOK, OpenIsRegistered, Open, StreamLife
    <3>2. key[t] # k
      BY <3>1 DEF OpenStream, MayOpen, Closed, RegistryAssumption
    <3> QED BY <2>2, <3>1, <3>2 DEF OpenStream, TypeOK
  <2> QED BY <2>1, <2>2
<1>5. ShutdownReachesAll'
  BY DEF OpenStream, Accepting, ShutdownReachesAll
<1>6. LimitInv'
  <2>1. IsFiniteSet(Entries)
    <3>1. Entries \in SUBSET Keys
      BY DEF Entries
    <3> QED BY <3>1, FS_Subset DEF RegistryAssumption
  <2>2. Entries' = Entries \cup {k}
    BY DEF OpenStream, Entries, TypeOK, RegistryAssumption
  <2>3. Cardinality(Entries) \in Nat
    BY <2>1, FS_CardinalityType
  <2>4. Cardinality(Entries') = IF k \in Entries THEN Cardinality(Entries) ELSE Cardinality(Entries) + 1
    BY <2>1, <2>2, FS_AddElement
  <2>5. k \notin Entries => Cardinality(Entries) < MaxActive
    BY DEF OpenStream, MayOpen, Entries
  <2> QED BY <2>3, <2>4, <2>5 DEF LimitInv, RegistryAssumption
<1> QED BY <1>1, <1>2, <1>3, <1>4, <1>5, <1>6

(* Streams close, by themselves or by an abort, and their handlers leave.    *)
LEMMA CloseStep ==
  ASSUME RegistryAssumption, RegistryInv, NEW s \in Streams,
         Closes(s) \/ AbortEnds(s) \/ HandlerLeaves(s) \/ GraceEnds(s)
  PROVE  RegistryInv'
<1> USE DEF RegistryInv
<1> USE DEF Closes, AbortEnds, HandlerLeaves, Leaves, GraceEnds, ShutdownAborts, StartAbort, Closed
<1>1. TypeOK'
  BY DEF TypeOK
<1>2. StreamLife'
  BY DEF TypeOK, StreamLife
<1>3. /\ registered' = registered /\ key' = key /\ phase' = phase /\ leftToClose' = leftToClose
      /\ Open' \subseteq Open
  BY DEF TypeOK, Open
<1>4. EntriesAreTheirs'
  BY <1>3 DEF TypeOK, EntriesAreTheirs
<1>5. OpenIsRegistered'
  BY <1>3 DEF OpenIsRegistered
<1>6. Entries' = Entries
  BY <1>3 DEF Entries
<1>7. ShutdownReachesAll'
  BY <1>3, <1>6 DEF ShutdownReachesAll
<1> QED BY <1>1, <1>2, <1>4, <1>5, <1>6, <1>7, FewerEntries

LEMMA ReleaseStep ==
  ASSUME RegistryAssumption, RegistryInv, NEW s \in Streams, ReleaseStream(s)
  PROVE  RegistryInv'
<1> USE DEF RegistryInv
<1>1. TypeOK'
  BY DEF ReleaseStream, Without, TypeOK
<1>2. StreamLife'
  BY DEF ReleaseStream, TypeOK, StreamLife
<1>3. EntriesAreTheirs'
  BY DEF ReleaseStream, Without, TypeOK, EntriesAreTheirs
<1>4. Open' = Open /\ s \notin Open
  BY DEF ReleaseStream, Open, StreamLife
<1>5. OpenIsRegistered'
  BY <1>4 DEF ReleaseStream, Without, OpenIsRegistered, TypeOK, StreamLife, Open
<1>6. Entries' \subseteq Entries
  BY DEF ReleaseStream, Without, Entries
<1>7. ShutdownReachesAll'
  BY <1>4, <1>6 DEF ReleaseStream, ShutdownReachesAll
<1> QED BY <1>1, <1>2, <1>3, <1>5, <1>6, <1>7, FewerEntries

(* The shutdown takes all that are registered, so all that are open, and has ended
   when none of them is left.                                                *)
LEMMA ShutdownStep ==
  ASSUME RegistryAssumption, RegistryInv,
         Shutdown \/ ShutdownEnds \/ \E s \in Streams : ShutdownClosed(s)
  PROVE  RegistryInv'
<1> USE DEF RegistryInv
<1>1. TypeOK'
  BY DEF Shutdown, Snapshot, Entries, ShutdownEnds, ShutdownClosed, TypeOK
<1>2. StreamLife'
  BY DEF Shutdown, ShutdownEnds, ShutdownClosed, StreamLife
<1>3. EntriesAreTheirs'
  BY DEF Shutdown, ShutdownEnds, ShutdownClosed, EntriesAreTheirs
<1>4. Open' = Open
  BY DEF Shutdown, ShutdownEnds, ShutdownClosed, Open
<1>5. OpenIsRegistered'
  BY <1>4 DEF Shutdown, ShutdownEnds, ShutdownClosed, OpenIsRegistered, ShutdownReachesAll
<1>6. Entries' \subseteq Entries
  BY DEF Shutdown, ShutdownEnds, ShutdownClosed, Entries
<1>7. ShutdownReachesAll'
  <2>1. CASE Shutdown
    <3>1. Open \subseteq Snapshot
      BY DEF Open, Snapshot, Entries, OpenIsRegistered, StreamLife, RegistryAssumption
    <3> QED BY <1>4, <2>1, <3>1 DEF Shutdown, ShutdownReachesAll
  <2>2. CASE ShutdownEnds
    BY <1>4, <2>2 DEF ShutdownEnds, ShutdownReachesAll, Entries
  <2>3. ASSUME NEW s \in Streams, ShutdownClosed(s) PROVE ShutdownReachesAll'
    BY <1>4, <1>6, <2>3 DEF ShutdownClosed, ShutdownReachesAll, Open, Closed
  <2> QED BY <2>1, <2>2, <2>3
<1> QED BY <1>1, <1>2, <1>3, <1>5, <1>6, <1>7, FewerEntries

-----------------------------------------------------------------------------
(* Whatever opens, fails, is released or shut down in whatever order: every open stream
   is the one registered under its key, the limit holds, whose connection is gone
   leaves nothing behind, and after the shutdown no stream is open (StreamsInv). *)
THEOREM RegistryCorrect ==
  ASSUME RegistryAssumption
  PROVE  Spec => []StreamsInv
<1>1. Init => RegistryInv
  BY InitialRegistry
<1>2. RegistryInv /\ [Next]_vars => RegistryInv'
  <2> SUFFICES ASSUME RegistryInv, [Next]_vars PROVE RegistryInv'
    OBVIOUS
  <2>1. ASSUME NEW s \in Streams, NEW k \in Keys, OpenStream(s, k) PROVE RegistryInv'
    BY <2>1, OpenStreamStep
  <2>2. ASSUME NEW s \in Streams, Closes(s) \/ AbortEnds(s) \/ HandlerLeaves(s) \/ GraceEnds(s)
        PROVE  RegistryInv'
    BY <2>2, CloseStep
  <2>3. ASSUME NEW s \in Streams, ReleaseStream(s) PROVE RegistryInv'
    BY <2>3, ReleaseStep
  <2>4. ASSUME Shutdown \/ ShutdownEnds \/ \E s \in Streams : ShutdownClosed(s)
        PROVE  RegistryInv'
    BY <2>4, ShutdownStep
  <2>5. CASE UNCHANGED vars
    BY <2>5 DEF vars, RegistryInv, TypeOK, StreamLife, EntriesAreTheirs, OpenIsRegistered,
                ShutdownReachesAll, LimitInv, Open, Entries
  <2> QED BY <2>1, <2>2, <2>3, <2>4, <2>5 DEF Next, Rests
<1>3. RegistryInv => StreamsInv
  BY InvariantImplies
<1> QED BY <1>1, <1>2, <1>3, PTL DEF Spec

-----------------------------------------------------------------------------
(* The local runtime. *)

Types ==
  /\ future \in [Requests -> Futures] /\ priority \in [Requests -> Priorities]
  /\ queue \in Seq(Requests)
  /\ job \in [Workers -> Requests \cup {NoRequest}] /\ gone \subseteq Workers
  /\ native \subseteq Requests
  /\ cooling \in BOOLEAN /\ overdue \in BOOLEAN
  /\ runtime \in {"open", "joining", "stopping", "closed"}

(* A request is in one place, and has not been answered there; who still waits for an
   answer has a request in some place.                                       *)
InOnePlace ==
  /\ IsInjective(queue)
  /\ \A r \in ToSet(queue) : future[r] \in {"pending", "cancelled"}
  /\ \A w \in Busy : job[w] \notin ToSet(queue) /\ future[job[w]] \in {"pending", "cancelled"}
  /\ \A v, w \in Busy : job[v] = job[w] => v = w
  /\ \A r \in Requests :
       future[r] = "pending" => r \in ToSet(queue) \/ \E w \in Busy : job[w] = r

(* Workers end in the shutdown only, and before it is over; nobody hears of it earlier. *)
Ending ==
  /\ gone \cap Busy = {}
  /\ runtime \in {"open", "joining"} =>
       gone = {} /\ \A r \in Requests : future[r] \notin {"stopped", "closed"}
  /\ runtime = "closed" => gone = Workers /\ queue = <<>>

Room == Len(queue) <= QueueCapacity /\ QueueKeepsRoom

Accounts == active \in Nat /\ unfinished \in Nat /\ WorkersAccountedFor

IInv == Types /\ InOnePlace /\ Ending /\ Room /\ Accounts /\ ShutdownAnswers

-----------------------------------------------------------------------------
(* A queue that is not empty has a first: of the lowest rank, the lowest place. *)

LEMMA LeastOf ==
  ASSUME NEW n \in Nat, NEW T, T \subseteq 1 .. n, T # {}
  PROVE  \E x \in T : \A y \in T : x <= y
<1>1. T \subseteq Nat
  OBVIOUS
<1>2. PICK x \in T : \A y \in T : ~(<<y, x>> \in OpToRel(<, Nat))
  BY <1>1, NatLessThanWellFounded, WFMin, Zenon
<1>3. \A y \in T : ~(y < x)
  BY <1>1, <1>2 DEF OpToRel
<1> QED BY <1>1, <1>3

LEMMA NextIsThere ==
  ASSUME Types, queue # <<>>
  PROVE  NextIndex \in 1 .. Len(queue)
<1>1. /\ Len(queue) \in Nat \ {0} /\ DOMAIN queue = 1 .. Len(queue)
      /\ \A i \in 1 .. Len(queue) : queue[i] \in Requests
  BY LenProperties, EmptySeq DEF Types
<1> DEFINE rank(i) == Rank[priority[queue[i]]]
           with(k) == { i \in 1 .. Len(queue) : rank(i) = k }
<1>2. \A i \in 1 .. Len(queue) : rank(i) \in {0, 5, 10}
  BY <1>1 DEF Types, Priorities, Rank
<1> HIDE DEF rank
<1>3. \E i \in 1 .. Len(queue) : \A j \in 1 .. Len(queue) :
        rank(i) < rank(j) \/ (rank(i) = rank(j) /\ i <= j)
  <2>1. ASSUME NEW k \in {0, 5, 10}, with(k) # {}, \A j \in 1 .. Len(queue) : rank(j) >= k
        PROVE  \E i \in 1 .. Len(queue) : \A j \in 1 .. Len(queue) :
                 rank(i) < rank(j) \/ (rank(i) = rank(j) /\ i <= j)
    <3>1. with(k) \in SUBSET (1 .. Len(queue)) /\ Len(queue) \in Nat
      BY <1>1
    <3>2. PICK i \in with(k) : \A j \in with(k) : i <= j
      BY <2>1, <3>1, LeastOf
    <3>3. \A j \in 1 .. Len(queue) : rank(i) < rank(j) \/ (rank(i) = rank(j) /\ i <= j)
      BY <1>2, <2>1, <3>2
    <3> QED BY <3>2, <3>3
  <2>2. CASE with(0) # {}
    <3>1. \A j \in 1 .. Len(queue) : rank(j) >= 0
      BY <1>2
    <3> QED BY <2>1, <2>2, <3>1
  <2>3. CASE with(0) = {} /\ with(5) # {}
    <3>1. \A j \in 1 .. Len(queue) : rank(j) >= 5
      BY <1>2, <2>3
    <3> QED BY <2>1, <2>3, <3>1
  <2>4. CASE with(0) = {} /\ with(5) = {}
    <3>1. \A j \in 1 .. Len(queue) : rank(j) = 10
      BY <1>2, <2>4
    <3>2. 1 \in with(10) /\ \A j \in 1 .. Len(queue) : rank(j) >= 10
      BY <1>1, <3>1
    <3> QED BY <2>1, <3>2
  <2> QED BY <2>2, <2>3, <2>4
<1> QED BY <1>1, <1>3 DEF NextIndex, rank

-----------------------------------------------------------------------------
(* Where those of some priorities wait in a queue.                           *)
Places(q, pr, k) == { i \in DOMAIN q : pr[q[i]] \in k }

LEMMA PlacesBounded ==
  ASSUME NEW T, NEW q \in Seq(T), NEW pr, NEW k
  PROVE  /\ IsFiniteSet(Places(q, pr, k)) /\ Cardinality(Places(q, pr, k)) \in Nat
         /\ Cardinality(Places(q, pr, k)) <= Len(q)
<1>1. Len(q) \in Nat /\ DOMAIN q = 1 .. Len(q) /\ 1 \in Int /\ Len(q) \in Int
  BY LenProperties
<1>2. IsFiniteSet(1 .. Len(q)) /\ Cardinality(1 .. Len(q)) = Len(q)
  <2>1. Cardinality(1 .. Len(q)) = IF 1 > Len(q) THEN 0 ELSE Len(q) - 1 + 1
    BY <1>1, FS_Interval
  <2> QED BY <1>1, <2>1, FS_Interval
<1>3. Places(q, pr, k) \in SUBSET (1 .. Len(q))
  BY <1>1 DEF Places
<1>4. IsFiniteSet(Places(q, pr, k)) /\ Cardinality(Places(q, pr, k)) <= Cardinality(1 .. Len(q))
  BY <1>2, <1>3, FS_Subset
<1> QED BY <1>2, <1>4, FS_CardinalityType

LEMMA PlacesOfAppended ==
  ASSUME NEW T, NEW q \in Seq(T), NEW t \in T, NEW pr, NEW new, NEW k,
         \A i \in 1 .. Len(q) : new[q[i]] = pr[q[i]], new[t] \notin k
  PROVE  Places(Append(q, t), new, k) = Places(q, pr, k)
<1> DEFINE p == Append(q, t)
<1>1. Len(q) \in Nat /\ DOMAIN q = 1 .. Len(q)
  BY LenProperties
<1>2. /\ p \in Seq(T) /\ Len(p) = Len(q) + 1 /\ p[Len(q) + 1] = t
      /\ \A i \in 1 .. Len(q) : p[i] = q[i]
  BY <1>1, AppendProperties
<1>3. DOMAIN p = 1 .. Len(q) + 1
  BY <1>2, LenProperties
<1> HIDE DEF p
<1>4. \A i \in 1 .. Len(q) + 1 : i \in 1 .. Len(q) \/ i = Len(q) + 1
  BY <1>1
<1>5. \A i : i \in 1 .. Len(q) => i \in 1 .. Len(q) + 1
  BY <1>1
<1>6. Places(p, new, k) = Places(q, pr, k)
  BY <1>1, <1>2, <1>3, <1>4, <1>5 DEF Places
<1> QED BY <1>6 DEF p

LEMMA PlacesOfTheOthers ==
  ASSUME NEW T, NEW q \in Seq(T), NEW n \in 1 .. Len(q), NEW pr, NEW k
  PROVE  Cardinality(Places(RemoveAt(q, n), pr, k)) <= Cardinality(Places(q, pr, k))
<1> DEFINE p == RemoveAt(q, n)
           A == Places(p, pr, k)
           B == Places(q, pr, k)
           f == [i \in A |-> WasAt(n, i)]
<1>1. Len(q) \in Nat /\ DOMAIN q = 1 .. Len(q)
  BY LenProperties
<1>2. /\ p \in Seq(T) /\ Len(p) = Len(q) - 1 /\ DOMAIN p = 1 .. Len(p)
      /\ \A i \in 1 .. Len(p) : p[i] = q[WasAt(n, i)] /\ WasAt(n, i) \in 1 .. Len(q) \ {n}
  BY OneRemoved
<1>3. IsFiniteSet(B)
  BY PlacesBounded
<1> HIDE DEF p
<1>4. A \subseteq 1 .. Len(p) /\ \A i \in A : WasAt(n, i) \in B
  BY <1>1, <1>2 DEF Places
<1>5. \A i, j \in A : WasAt(n, i) = WasAt(n, j) => i = j
  <2> SUFFICES ASSUME NEW i \in A, NEW j \in A, WasAt(n, i) = WasAt(n, j) PROVE i = j
    OBVIOUS
  <2>1. i \in Int /\ j \in Int /\ n \in Int
    BY <1>4
  <2> HIDE DEF A
  <2> QED BY <2>1 DEF WasAt
<1>6. f \in Injection(A, B)
  <2> HIDE DEF A, B
  <2> QED BY <1>4, <1>5 DEF Injection, IsInjective
<1> HIDE DEF A, B, f
<1>7. Cardinality(A) <= Cardinality(B)
  BY <1>3, <1>6, FS_Injection
<1> QED BY <1>7 DEF A, B, p

LEMMA WaitingIsPlaces == \A k : Waiting(k) = Places(queue, priority, k)
BY DEF Waiting, Places

LEMMA BusyCounted ==
  ASSUME RuntimeAssumption
  PROVE  /\ Busy \subseteq Workers /\ IsFiniteSet(Busy) /\ Cardinality(Busy) \in Nat
         /\ Cardinality(Workers) \in Nat /\ Cardinality(Busy) <= Cardinality(Workers)
         /\ \A w : /\ Cardinality(Busy \cup {w}) =
                      IF w \in Busy THEN Cardinality(Busy) ELSE Cardinality(Busy) + 1
                   /\ Cardinality(Busy \ {w}) =
                      IF w \in Busy THEN Cardinality(Busy) - 1 ELSE Cardinality(Busy)
<1>1. Busy \in SUBSET Workers /\ IsFiniteSet(Workers)
  BY DEF Busy, RuntimeAssumption
<1> HIDE DEF Busy
<1>2. IsFiniteSet(Busy) /\ Cardinality(Busy) <= Cardinality(Workers)
  BY <1>1, FS_Subset
<1> QED BY <1>1, <1>2, FS_CardinalityType, FS_AddElement, FS_RemoveElement

(* The requests of the workers that are busy are no more than the workers.   *)
LEMMA JobsAreFew ==
  ASSUME NEW W, IsFiniteSet(W), NEW B, B \subseteq W, NEW g
  PROVE  Cardinality({ g[w] : w \in B }) <= Cardinality(W)
<1> DEFINE J == { g[w] : w \in B }
           f == [w \in B |-> g[w]]
<1>1. B \in SUBSET W
  OBVIOUS
<1>2. IsFiniteSet(B) /\ Cardinality(B) <= Cardinality(W)
  BY <1>1, FS_Subset
<1>3. f \in Surjection(B, J)
  BY DEF Surjection
<1> HIDE DEF f, J
<1>4. IsFiniteSet(J) /\ Cardinality(J) <= Cardinality(B)
  BY <1>2, <1>3, FS_Surjection
<1>5. Cardinality(J) \in Nat /\ Cardinality(B) \in Nat /\ Cardinality(W) \in Nat
  BY <1>2, <1>4, FS_CardinalityType
<1>6. Cardinality(J) <= Cardinality(W)
  BY <1>2, <1>4, <1>5
<1> QED BY <1>6 DEF J

-----------------------------------------------------------------------------
LEMMA Initially == ASSUME RuntimeAssumption, RuntimeInit PROVE IInv
<1>1. Types
  BY EmptySeq DEF RuntimeInit, Types, Futures, Priorities
<1>2. Busy = {} /\ ToSet(queue) = {} /\ IsInjective(queue) /\ DOMAIN queue = {} /\ Len(queue) = 0
  BY EmptySeq, LenProperties DEF RuntimeInit, Busy, ToSet, IsInjective
<1>3. Cardinality({}) = 0
  BY FS_EmptySet
<1>4. InOnePlace /\ Ending /\ ShutdownAnswers
  BY <1>2 DEF RuntimeInit, InOnePlace, Ending, ShutdownAnswers
<1>5. Room
  <2>1. Waiting(NotFinal) = {} /\ Waiting({"PARTIAL"}) = {}
    BY <1>2 DEF Waiting
  <2>2. 0 <= 1 /\ 0 < QueueCapacity /\ 0 <= QueueCapacity
    BY DEF RuntimeAssumption
  <2> QED BY <1>2, <1>3, <2>1, <2>2 DEF Room, QueueKeepsRoom, FinalHasRoom, PartialsDoNotPile
<1>6. Accounts
  <2>1. Cardinality(Workers) \in Nat
    BY FS_CardinalityType DEF RuntimeAssumption
  <2> QED BY <1>2, <1>3, <2>1 DEF RuntimeInit, Accounts, WorkersAccountedFor, SlotsAreNative, JoinCountsRequests
<1> QED BY <1>1, <1>4, <1>5, <1>6 DEF IInv

-----------------------------------------------------------------------------
(* What a step leaves alone.                                                 *)

LEMMA SameRoom ==
  ASSUME Room, UNCHANGED <<queue, priority>>
  PROVE  Room'
<1>1. Waiting(NotFinal)' = Waiting(NotFinal) /\ Waiting({"PARTIAL"})' = Waiting({"PARTIAL"})
  BY DEF Waiting, NotFinal, Priorities
<1> QED BY <1>1 DEF Room, QueueKeepsRoom, FinalHasRoom, PartialsDoNotPile

LEMMA SameAccounts ==
  ASSUME Accounts, UNCHANGED <<queue, unfinished, job, native, active>>,
         runtime' \in {"open", "joining"} => runtime \in {"open", "joining"}
  PROVE  Accounts'
<1>1. Busy' = Busy
  BY DEF Busy
<1>2. { job[w] : w \in Busy }' = { job[w] : w \in Busy }
  BY <1>1
<1> QED BY <1>1, <1>2 DEF Accounts, WorkersAccountedFor, SlotsAreNative, JoinCountsRequests

LEMMA SamePlaces ==
  ASSUME InOnePlace, UNCHANGED <<queue, job>>, Types, Types',
         \A r \in Requests : /\ future'[r] = "pending" => future[r] = "pending"
                             /\ future[r] \in {"pending", "cancelled"}
                                  => future'[r] \in {"pending", "cancelled"}
  PROVE  InOnePlace'
<1>1. Busy' = Busy /\ ToSet(queue)' = ToSet(queue)
  BY DEF Busy
<1>2. \A r \in ToSet(queue) : r \in Requests
  BY InQueue DEF Types
<1>3. \A w \in Busy : job[w] \in Requests
  BY DEF Types, Busy
<1> QED BY <1>1, <1>2, <1>3 DEF InOnePlace

-----------------------------------------------------------------------------
(* The steps, one lemma for those that disturb the same parts.               *)

LEMMA ClockAndShutdownKeep ==
  ASSUME RuntimeAssumption, IInv, Cooled \/ ShutdownBegins \/ JoinEnds \/ UNCHANGED speechVars
  PROVE  IInv'
<1>1. UNCHANGED <<future, priority, queue, unfinished, job, gone, native, active>>
  BY DEF Cooled, ShutdownBegins, JoinEnds, speechVars, workerVars, queueVars, endVars
<1>2. Types'
  BY <1>1 DEF IInv, Types, Cooled, ShutdownBegins, JoinEnds, JoinOver, speechVars, workerVars, endVars
<1>3. InOnePlace' /\ Room'
  BY <1>1, <1>2, SamePlaces, SameRoom DEF IInv
<1>4. runtime' \in {"open", "joining"} => runtime \in {"open", "joining"}
  BY DEF Cooled, ShutdownBegins, JoinEnds, JoinOver, speechVars, endVars
<1>5. Accounts'
  BY <1>1, <1>4, SameAccounts DEF IInv
<1>6. Ending'
  <2>1. Busy' = Busy
    BY <1>1 DEF Busy
  <2> QED BY <1>1, <1>4, <2>1 DEF IInv, Ending, Cooled, ShutdownBegins, JoinEnds, JoinOver, speechVars, endVars
<1>7. ShutdownAnswers'
  <2>1. CASE JoinEnds
    <3>1. CASE unfinished = 0
      <4>1. Len(queue) = 0 /\ Cardinality(Busy) = 0
        <5>1. Len(queue) \in Nat /\ Cardinality(Busy) \in Nat
          BY BusyCounted, LenProperties DEF IInv, Types
        <5>2. Len(queue) + Cardinality(Busy) = 0
          BY <3>1 DEF IInv, Accounts, WorkersAccountedFor, JoinCountsRequests
        <5> QED BY <5>1, <5>2
      <4>2. Busy = {} /\ ToSet(queue) = {}
        <5>1. Busy = {}
          BY <4>1, BusyCounted, FS_EmptySet
        <5>2. queue \in Seq(Requests) /\ 1 .. Len(queue) = {}
          BY <4>1 DEF IInv, Types
        <5>3. ToSet(queue) = {}
          BY <5>2, InQueue
        <5> QED BY <5>1, <5>3
      <4>3. \A r \in Requests : future[r] \notin {"pending", "stopped", "closed"}
        BY <2>1, <4>2 DEF IInv, InOnePlace, Ending, JoinEnds, JoinOver
      <4> QED BY <1>1, <2>1, <4>3 DEF ShutdownAnswers, JoinEnds
    <3>2. CASE unfinished # 0
      BY <1>1, <2>1, <3>2 DEF ShutdownAnswers, JoinEnds, JoinOver
    <3> QED BY <3>1, <3>2
  <2>2. CASE ~JoinEnds
    BY <1>1, <2>2 DEF IInv, ShutdownAnswers, Cooled, ShutdownBegins, speechVars, endVars
  <2> QED BY <2>1, <2>2
<1> QED BY <1>2, <1>3, <1>5, <1>6, <1>7 DEF IInv

LEMMA CallerLeavesKeeps ==
  ASSUME RuntimeAssumption, IInv, NEW r \in Requests, CallerLeaves(r)
  PROVE  IInv'
<1>1. UNCHANGED <<priority, queue, unfinished, job, gone, native, active, cooling, runtime, overdue>>
  BY DEF CallerLeaves, SlotKept, queueVars, workerVars, endVars
<1>2. /\ future[r] = "pending" /\ future'[r] = "cancelled"
      /\ \A x \in Requests \ {r} : future'[x] = future[x]
  BY DEF CallerLeaves, IInv, Types
<1>3. Types'
  BY <1>1 DEF CallerLeaves, IInv, Types, Futures
<1>4. InOnePlace'
  BY <1>1, <1>2, <1>3, SamePlaces DEF IInv
<1>5. Room' /\ Accounts'
  BY <1>1, SameRoom, SameAccounts DEF IInv
<1>6. Ending'
  <2>1. Busy' = Busy
    BY <1>1 DEF Busy
  <2> QED BY <1>1, <1>2, <2>1 DEF IInv, Ending
<1>7. ShutdownAnswers'
  BY <1>1, <1>2 DEF IInv, ShutdownAnswers
<1> QED BY <1>3, <1>4, <1>5, <1>6, <1>7 DEF IInv

LEMMA AbandonedEndsKeeps ==
  ASSUME RuntimeAssumption, IInv, AbandonedEnds
  PROVE  IInv'
<1>1. UNCHANGED <<future, priority, queue, unfinished, job, gone, active, cooling, runtime, overdue>>
  BY DEF AbandonedEnds, queueVars, endVars
<1>2. PICK r \in native : r \notin { job[w] : w \in Busy } /\ native' = native \ {r}
  BY DEF AbandonedEnds
<1>3. Types'
  BY <1>1, <1>2 DEF IInv, Types
<1>4. InOnePlace' /\ Room'
  BY <1>1, <1>3, SamePlaces, SameRoom DEF IInv
<1>5. Busy' = Busy /\ { job[w] : w \in Busy }' = { job[w] : w \in Busy }
  BY <1>1 DEF Busy
<1>6. Ending' /\ ShutdownAnswers'
  BY <1>1, <1>5 DEF IInv, Ending, ShutdownAnswers
<1>7. Cardinality(native') <= Cardinality(Workers)
  <2>1. IsFiniteSet(Requests) /\ native \in SUBSET Requests /\ IsFiniteSet(Workers)
    BY DEF RuntimeAssumption, IInv, Types
  <2>2. IsFiniteSet(native)
    BY <2>1, FS_Subset
  <2>3. native' \in SUBSET native
    BY <1>2
  <2>4. Cardinality(native') <= Cardinality(native) /\ IsFiniteSet(native')
    BY <2>2, <2>3, FS_Subset
  <2>5. Cardinality(native) <= Cardinality(Workers)
    BY DEF IInv, Accounts, WorkersAccountedFor, SlotsAreNative
  <2>6. Cardinality(native) \in Nat /\ Cardinality(native') \in Nat /\ Cardinality(Workers) \in Nat
    BY <2>1, <2>2, <2>4, FS_CardinalityType
  <2> QED BY <2>4, <2>5, <2>6
<1>8. Accounts'
  BY <1>1, <1>2, <1>5, <1>7 DEF IInv, Accounts, WorkersAccountedFor, SlotsAreNative, JoinCountsRequests
<1> QED BY <1>3, <1>4, <1>6, <1>8 DEF IInv

(* A request is accepted: only if it is final may it take the last place, and only the
   first place if it is a partial.                                           *)
LEMMA TranscribeKeeps ==
  ASSUME RuntimeAssumption, IInv, NEW r \in Requests, Transcribe(r)
  PROVE  IInv'
<1>1. /\ UNCHANGED <<job, gone, native, active, cooling, runtime, overdue>>
      /\ runtime = "open" /\ future[r] = "none" /\ queue' = Append(queue, r)
      /\ unfinished' = unfinished + 1 /\ future' = [future EXCEPT ![r] = "pending"]
  BY DEF Transcribe, workerVars, endVars
<1>2. PICK p \in Priorities : /\ p = "PARTIAL" => PartialAvailable
                             /\ Len(queue) < Limit(p)
                             /\ priority' = [priority EXCEPT ![r] = p]
  BY DEF Transcribe
<1>3. /\ queue \in Seq(Requests) /\ Len(queue) \in Nat
      /\ future \in [Requests -> Futures] /\ priority \in [Requests -> Priorities]
      /\ \A i \in 1 .. Len(queue) : queue[i] \in ToSet(queue) /\ queue[i] \in Requests
      /\ QueueCapacity \in Nat
  BY LenProperties, InQueue DEF IInv, Types, RuntimeAssumption
<1>4. r \notin ToSet(queue) /\ \A w \in Busy : job[w] # r /\ job[w] \in Requests
  BY <1>1 DEF IInv, InOnePlace, Types, Busy
<1>5. /\ queue' \in Seq(Requests) /\ IsInjective(queue')
      /\ ToSet(queue') = ToSet(queue) \cup {r}
  BY <1>1, <1>3, <1>4, AppendedQueue DEF IInv, InOnePlace
<1>6. Len(queue') = Len(queue) + 1
  BY <1>1, <1>3, AppendProperties
<1>7. Types'
  BY <1>1, <1>2, <1>5 DEF IInv, Types, Futures
<1>8. Busy' = Busy /\ { job[w] : w \in Busy }' = { job[w] : w \in Busy }
  BY <1>1 DEF Busy
<1>9. /\ future'[r] = "pending" /\ priority'[r] = p
      /\ \A x \in Requests \ {r} : future'[x] = future[x] /\ priority'[x] = priority[x]
  BY <1>1, <1>2, <1>3
<1>10. InOnePlace'
  <2>1. \A x \in ToSet(queue') : future'[x] \in {"pending", "cancelled"}
    <3>1. \A x \in ToSet(queue) : x \in Requests \ {r} /\ future[x] \in {"pending", "cancelled"}
      BY <1>3, <1>4, InQueue DEF IInv, InOnePlace
    <3> QED BY <1>5, <1>9, <3>1
  <2>2. \A w \in Busy : job'[w] \notin ToSet(queue') /\ future'[job'[w]] \in {"pending", "cancelled"}
    BY <1>1, <1>4, <1>5, <1>9 DEF IInv, InOnePlace
  <2>3. \A x \in Requests : future'[x] = "pending" => x \in ToSet(queue') \/ \E w \in Busy : job'[w] = x
    BY <1>1, <1>5, <1>9 DEF IInv, InOnePlace
  <2>4. \A v, w \in Busy : job'[v] = job'[w] => v = w
    BY <1>1 DEF IInv, InOnePlace
  <2> QED BY <1>5, <1>8, <2>1, <2>2, <2>3, <2>4 DEF InOnePlace
<1>11. Ending' /\ ShutdownAnswers'
  BY <1>1, <1>8, <1>9 DEF IInv, Ending, ShutdownAnswers
<1>12. Accounts'
  <2>1. Cardinality(Busy) \in Nat /\ unfinished \in Nat
    BY BusyCounted DEF IInv, Accounts
  <2>2. JoinCountsRequests'
    <3>1. unfinished = Len(queue) + Cardinality(Busy)
      BY DEF IInv, Accounts, WorkersAccountedFor, JoinCountsRequests
    <3>2. Cardinality(Busy') = Cardinality(Busy)
      BY <1>8
    <3> QED BY <1>1, <1>3, <1>6, <2>1, <3>1, <3>2 DEF JoinCountsRequests
  <2>3. SlotsAreNative'
    BY <1>1, <1>8 DEF IInv, Accounts, WorkersAccountedFor, SlotsAreNative
  <2> QED BY <1>1, <2>1, <2>2, <2>3 DEF IInv, Accounts, WorkersAccountedFor
<1>13. Room'
  <2>1. Len(queue') <= QueueCapacity /\ (p # "FINAL" => Len(queue') < QueueCapacity)
    BY <1>2, <1>3, <1>6 DEF Limit
  <2>2. \A k : Cardinality(Places(queue', priority', k)) \in Nat
               /\ Cardinality(Places(queue', priority', k)) <= Len(queue')
    BY <1>5, PlacesBounded
  <2>3. \A k : p \notin k => Places(queue', priority', k) = Places(queue, priority, k)
    <3> SUFFICES ASSUME NEW k, p \notin k
                 PROVE  Places(queue', priority', k) = Places(queue, priority, k)
      OBVIOUS
    <3>1. \A i \in 1 .. Len(queue) : priority'[queue[i]] = priority[queue[i]]
      BY <1>3, <1>4, <1>9
    <3>2. queue \in Seq(Requests) /\ priority'[r] \notin k /\ r \in Requests
      BY <1>3, <1>9
    <3>3. Places(Append(queue, r), priority', k) = Places(queue, priority, k)
      BY ONLY <3>1, <3>2, PlacesOfAppended
    <3> QED BY <1>1, <3>3
  <2>4. Cardinality(Places(queue', priority', NotFinal)) < QueueCapacity
    <3>1. CASE p = "FINAL"
      <4>1. p \notin NotFinal
        BY <3>1 DEF NotFinal
      <4>3. Places(queue', priority', NotFinal) = Places(queue, priority, NotFinal)
        BY ONLY <2>3, <4>1
      <4>2. Cardinality(Places(queue, priority, NotFinal)) < QueueCapacity
        BY WaitingIsPlaces DEF IInv, Room, QueueKeepsRoom, FinalHasRoom
      <4> QED BY <4>2, <4>3
    <3>2. CASE p # "FINAL"
      <4>1. Cardinality(Places(queue', priority', NotFinal)) \in Nat
            /\ Cardinality(Places(queue', priority', NotFinal)) <= Len(queue')
        BY <2>2
      <4> QED BY <1>3, <1>6, <2>1, <3>2, <4>1
    <3> QED BY <3>1, <3>2
  <2>5. Cardinality(Places(queue', priority', {"PARTIAL"})) <= 1
    <3>1. CASE p = "PARTIAL"
      <4>1. Len(queue') = 1
        BY <1>2, <1>6, <3>1, EmptySeq DEF PartialAvailable
      <4>2. Cardinality(Places(queue', priority', {"PARTIAL"})) <= Len(queue')
        BY <2>2
      <4> QED BY <4>1, <4>2
    <3>2. CASE p # "PARTIAL"
      <4>1. p \notin {"PARTIAL"}
        BY <3>2
      <4>3. Places(queue', priority', {"PARTIAL"}) = Places(queue, priority, {"PARTIAL"})
        BY ONLY <2>3, <4>1
      <4>2. Cardinality(Places(queue, priority, {"PARTIAL"})) <= 1
        BY WaitingIsPlaces DEF IInv, Room, QueueKeepsRoom, PartialsDoNotPile
      <4> QED BY <4>2, <4>3
    <3> QED BY <3>1, <3>2
  <2>6. /\ Waiting(NotFinal)' = Places(queue', priority', NotFinal)
        /\ Waiting({"PARTIAL"})' = Places(queue', priority', {"PARTIAL"})
    BY DEF Waiting, Places, NotFinal, Priorities
  <2> QED BY <2>1, <2>4, <2>5, <2>6 DEF Room, QueueKeepsRoom, FinalHasRoom, PartialsDoNotPile
<1> QED BY <1>7, <1>10, <1>11, <1>12, <1>13 DEF IInv

(* A worker takes the next request: no more wait of any kind than before.    *)
LEMMA TakeKeeps ==
  ASSUME RuntimeAssumption, IInv, NEW w \in Workers, Take(w)
  PROVE  IInv'
<1> DEFINE r == queue[NextIndex]
<1>1. /\ UNCHANGED <<future, priority, gone, cooling, runtime, overdue>>
      /\ runtime \in {"open", "joining"} /\ w \notin gone /\ job[w] = NoRequest /\ queue # <<>>
      /\ queue' = RemoveAt(queue, NextIndex)
  BY DEF Take, endVars
<1>2. \/ /\ future[r] = "cancelled" /\ unfinished' = unfinished - 1
         /\ UNCHANGED <<job, native, active>>
      \/ /\ future[r] # "cancelled" /\ job' = [job EXCEPT ![w] = r]
         /\ native' = native \cup {r} /\ active' = active + 1 /\ UNCHANGED unfinished
  BY DEF Take, TaskDone
<1>3. /\ queue \in Seq(Requests) /\ Len(queue) \in Nat /\ NextIndex \in 1 .. Len(queue)
      /\ job \in [Workers -> Requests \cup {NoRequest}] /\ IsInjective(queue)
      /\ \A v \in Busy : v \in Workers /\ job[v] \in Requests
  BY <1>1, LenProperties, NextIsThere DEF IInv, Types, InOnePlace, Busy
<1>4. r \in Requests /\ r \in ToSet(queue) /\ r # NoRequest
  BY <1>3, InQueue DEF RuntimeAssumption
<1>5. /\ queue' \in Seq(Requests) /\ Len(queue') = Len(queue) - 1 /\ IsInjective(queue')
      /\ ToSet(queue') = ToSet(queue) \ {r}
  BY <1>1, <1>3, OneRemoved, RemovedFromQueue
<1> HIDE DEF r
<1>6. w \notin Busy /\ \A v \in Busy : job[v] # r
  BY <1>1, <1>4 DEF Busy, IInv, InOnePlace
<1>7. Types'
  BY <1>1, <1>2, <1>3, <1>4, <1>5 DEF IInv, Types
<1>8. \/ future[r] = "cancelled" /\ Busy' = Busy /\ job' = job
      \/ /\ future[r] = "pending" /\ Busy' = Busy \cup {w} /\ job'[w] = r
         /\ \A v \in Busy : job'[v] = job[v]
  <2>1. future[r] \in {"pending", "cancelled"}
    BY <1>4 DEF IInv, InOnePlace
  <2> QED BY <1>1, <1>2, <1>3, <1>4, <1>6, <2>1 DEF Busy
<1>9. InOnePlace'
  <2>1. \A x \in ToSet(queue') : future'[x] \in {"pending", "cancelled"}
    BY <1>1, <1>5 DEF IInv, InOnePlace
  <2>2. \A v \in Busy' : /\ job'[v] \notin ToSet(queue')
                         /\ future'[job'[v]] \in {"pending", "cancelled"}
    BY <1>1, <1>4, <1>5, <1>8 DEF IInv, InOnePlace
  <2>3. \A u, v \in Busy' : job'[u] = job'[v] => u = v
    BY <1>6, <1>8 DEF IInv, InOnePlace
  <2>4. \A x \in Requests : future'[x] = "pending" =>
          x \in ToSet(queue') \/ \E v \in Busy' : job'[v] = x
    BY <1>1, <1>5, <1>8 DEF IInv, InOnePlace
  <2> QED BY <1>5, <2>1, <2>2, <2>3, <2>4 DEF InOnePlace
<1>10. Ending' /\ ShutdownAnswers'
  BY <1>1, <1>8 DEF IInv, Ending, ShutdownAnswers
<1>11. Accounts'
  <2>1. /\ Cardinality(Busy) \in Nat /\ Cardinality(Busy \cup {w}) = Cardinality(Busy) + 1
        /\ active \in Nat /\ unfinished \in Nat /\ unfinished = Len(queue) + Cardinality(Busy)
        /\ active = Cardinality(Busy) /\ native = { job[v] : v \in Busy }
    BY <1>1, <1>6, BusyCounted
       DEF IInv, Accounts, WorkersAccountedFor, SlotsAreNative, JoinCountsRequests
  <2>2. Len(queue') \in Nat
    BY <1>5, LenProperties
  <2>3. CASE future[r] = "cancelled"
    <3>1. /\ Busy' = Busy /\ { job[v] : v \in Busy }' = { job[v] : v \in Busy }
          /\ unfinished' = unfinished - 1 /\ UNCHANGED <<native, active>>
      BY <1>2, <1>8, <2>3
    <3>2. JoinCountsRequests' /\ unfinished' \in Nat
      <4>1. Cardinality(Busy)' = Cardinality(Busy)
        BY <3>1
      <4>2. Len(queue') = Len(queue) - 1
        BY <1>5
      <4>3. unfinished' = Len(queue') + Cardinality(Busy)
        BY <1>3, <2>1, <3>1, <4>2
      <4>4. unfinished' \in Nat
        BY <2>1, <2>2, <4>3
      <4> QED BY <4>1, <4>3, <4>4 DEF JoinCountsRequests
    <3>3. SlotsAreNative' /\ active' \in Nat
      BY <1>1, <2>1, <3>1 DEF IInv, Accounts, WorkersAccountedFor, SlotsAreNative
    <3> QED BY <3>2, <3>3 DEF Accounts, WorkersAccountedFor
  <2>4. CASE future[r] # "cancelled"
    <3>1. /\ Busy' = Busy \cup {w} /\ job'[w] = r /\ \A v \in Busy : job'[v] = job[v]
          /\ native' = native \cup {r} /\ active' = active + 1 /\ unfinished' = unfinished
      BY <1>2, <1>8, <2>4
    <3>2. native' = { job'[v] : v \in Busy' }
      BY <2>1, <3>1
    <3>3. Cardinality(native') <= Cardinality(Workers)
      <4>1. IsFiniteSet(Workers) /\ Busy' \subseteq Workers
        BY DEF RuntimeAssumption, Busy
      <4>2. Cardinality({ job'[v] : v \in Busy' }) <= Cardinality(Workers)
        BY <4>1, JobsAreFew
      <4> QED BY <3>2, <4>2
    <3>4. Cardinality(Busy)' = Cardinality(Busy) + 1
      BY <2>1, <3>1
    <3>5. JoinCountsRequests' /\ unfinished' \in Nat
      BY <1>3, <1>5, <2>1, <2>2, <3>1, <3>4 DEF JoinCountsRequests
    <3>6. SlotsAreNative' /\ active' \in Nat
      BY <2>1, <3>1, <3>2, <3>3, <3>4 DEF SlotsAreNative
    <3> QED BY <3>5, <3>6 DEF Accounts, WorkersAccountedFor
  <2> QED BY <2>3, <2>4
<1>12. Room'
  <2>1. \A k : Cardinality(Places(queue', priority, k)) <= Cardinality(Places(queue, priority, k))
    BY <1>1, <1>3, PlacesOfTheOthers
  <2>2. /\ Cardinality(Places(queue', priority, NotFinal)) \in Nat
        /\ Cardinality(Places(queue', priority, {"PARTIAL"})) \in Nat
        /\ Cardinality(Places(queue, priority, NotFinal)) \in Nat
        /\ Cardinality(Places(queue, priority, {"PARTIAL"})) \in Nat
    BY <1>3, <1>5, PlacesBounded
  <2>3. /\ Cardinality(Places(queue, priority, NotFinal)) < QueueCapacity
        /\ Cardinality(Places(queue, priority, {"PARTIAL"})) <= 1 /\ Len(queue) <= QueueCapacity
    BY WaitingIsPlaces DEF IInv, Room, QueueKeepsRoom, FinalHasRoom, PartialsDoNotPile
  <2>4. /\ Waiting(NotFinal)' = Places(queue', priority, NotFinal)
        /\ Waiting({"PARTIAL"})' = Places(queue', priority, {"PARTIAL"})
    BY <1>1 DEF Waiting, Places, NotFinal, Priorities
  <2>5. /\ Cardinality(Places(queue', priority, NotFinal)) < QueueCapacity
        /\ Cardinality(Places(queue', priority, {"PARTIAL"})) <= 1
    <3>1. /\ Cardinality(Places(queue', priority, NotFinal)) <= Cardinality(Places(queue, priority, NotFinal))
          /\ Cardinality(Places(queue', priority, {"PARTIAL"})) <= Cardinality(Places(queue, priority, {"PARTIAL"}))
          /\ QueueCapacity \in Nat
      BY <2>1 DEF RuntimeAssumption
    <3> QED BY <2>2, <2>3, <3>1
  <2>6. Len(queue') <= QueueCapacity
    BY <1>3, <1>5, <2>3 DEF RuntimeAssumption
  <2> QED BY <2>4, <2>5, <2>6 DEF Room, QueueKeepsRoom, FinalHasRoom, PartialsDoNotPile
<1> QED BY <1>7, <1>9, <1>10, <1>11, <1>12 DEF IInv

(* An inference ends: its request leaves its worker, and gets an answer if anybody waits. *)
LEMMA FinishKeeps ==
  ASSUME RuntimeAssumption, IInv, NEW w \in Workers, Finish(w)
  PROVE  IInv'
<1> DEFINE r == job[w]
<1>1. /\ UNCHANGED <<priority, queue, gone, runtime, overdue>>
      /\ runtime \in {"open", "joining"} /\ w \in Busy
      /\ native' = native \ {r} /\ job' = [job EXCEPT ![w] = NoRequest]
      /\ active' = active - 1 /\ unfinished' = unfinished - 1
  BY DEF Finish, endVars
<1>2. PICK result \in {"answered", "failed"} :
        future' = [future EXCEPT ![r] = IF @ = "pending" THEN result ELSE @]
  BY DEF Finish
<1>3. /\ queue \in Seq(Requests) /\ Len(queue) \in Nat
      /\ job \in [Workers -> Requests \cup {NoRequest}] /\ future \in [Requests -> Futures]
      /\ r \in Requests /\ r \notin ToSet(queue) /\ r # NoRequest
      /\ \A x \in ToSet(queue) : x \in Requests
  BY <1>1, LenProperties, InQueue DEF IInv, Types, InOnePlace, Busy, RuntimeAssumption
<1> HIDE DEF r
<1>4. Busy' = Busy \ {w} /\ \A v \in Busy \ {w} : job'[v] = job[v] /\ job[v] # r /\ job[v] \in Requests
  <2>1. \A v \in Workers : job'[v] = IF v = w THEN NoRequest ELSE job[v]
    BY <1>1, <1>3
  <2>2. \A v \in Busy : job[v] \in Requests /\ (job[v] = r => v = w)
    BY <1>1, <1>3 DEF IInv, InOnePlace, Busy, r
  <2> QED BY <2>1, <2>2 DEF Busy
<1>5. /\ future'[r] \in {"answered", "failed", "cancelled"}
      /\ \A x \in Requests \ {r} : future'[x] = future[x]
  <2>1. future[r] \in {"pending", "cancelled"}
    BY <1>1 DEF IInv, InOnePlace, r
  <2> QED BY <1>2, <1>3, <2>1
<1>6. Types'
  <2>1. future' \in [Requests -> Futures]
    BY <1>2, <1>3 DEF Futures
  <2>2. cooling' \in BOOLEAN
    BY DEF Finish, Record, IInv, Types
  <2>3. job' \in [Workers -> Requests \cup {NoRequest}]
    BY <1>1, <1>3
  <2> QED BY <1>1, <2>1, <2>2, <2>3 DEF IInv, Types
<1>7. InOnePlace'
  <2>1. \A x \in ToSet(queue) : future'[x] \in {"pending", "cancelled"}
    BY <1>3, <1>5 DEF IInv, InOnePlace
  <2>2. \A v \in Busy' : /\ job'[v] \notin ToSet(queue)
                         /\ future'[job'[v]] \in {"pending", "cancelled"}
    BY <1>4, <1>5 DEF IInv, InOnePlace
  <2>3. \A u, v \in Busy' : job'[u] = job'[v] => u = v
    BY <1>4 DEF IInv, InOnePlace
  <2>4. \A x \in Requests : future'[x] = "pending" =>
          x \in ToSet(queue) \/ \E v \in Busy' : job'[v] = x
    <3> SUFFICES ASSUME NEW x \in Requests, future'[x] = "pending", x \notin ToSet(queue)
                 PROVE  \E v \in Busy' : job'[v] = x
      OBVIOUS
    <3>1. x # r /\ future[x] = "pending"
      BY <1>5
    <3>2. PICK v \in Busy : job[v] = x
      BY <3>1 DEF IInv, InOnePlace
    <3>3. v # w
      BY <3>1, <3>2 DEF r
    <3> QED BY <1>4, <3>2, <3>3
  <2> QED BY <1>1, <2>1, <2>2, <2>3, <2>4 DEF IInv, InOnePlace
<1>8. Ending' /\ ShutdownAnswers'
  BY <1>1, <1>4, <1>5 DEF IInv, Ending, ShutdownAnswers
<1>9. Accounts'
  <2>1. /\ Cardinality(Busy) \in Nat /\ Cardinality(Busy \ {w}) = Cardinality(Busy) - 1
        /\ unfinished = Len(queue) + Cardinality(Busy)
        /\ active = Cardinality(Busy) /\ native = { job[v] : v \in Busy }
    BY <1>1, BusyCounted
       DEF IInv, Accounts, WorkersAccountedFor, SlotsAreNative, JoinCountsRequests
  <2>2. Cardinality(Busy)' = Cardinality(Busy) - 1 /\ Cardinality(Busy)' \in Nat
    <3>1. Cardinality(Busy)' = Cardinality(Busy) - 1
      BY <1>4, <2>1
    <3>2. IsFiniteSet(Busy')
      <4>1. IsFiniteSet(Busy) /\ Busy' \in SUBSET Busy
        BY <1>4, BusyCounted
      <4> QED BY <4>1, FS_Subset
    <3> QED BY <3>1, <3>2, FS_CardinalityType
  <2>3. native' = { job'[v] : v \in Busy' }
    <3>1. \A v \in Busy : job[v] = r => v = w
      BY <1>4
    <3>2. r = job[w]
      BY DEF r
    <3> QED BY <1>1, <1>4, <2>1, <3>1, <3>2
  <2>4. Cardinality(native') <= Cardinality(Workers)
    <3>1. IsFiniteSet(Workers) /\ Busy' \subseteq Workers
      BY DEF RuntimeAssumption, Busy
    <3>2. Cardinality({ job'[v] : v \in Busy' }) <= Cardinality(Workers)
      BY <3>1, JobsAreFew
    <3> QED BY <2>3, <3>2
  <2>5. unfinished' = Len(queue') + Cardinality(Busy)' /\ unfinished' \in Nat
    <3>1. unfinished' = Len(queue) + Cardinality(Busy)'
      BY <1>1, <1>3, <2>1, <2>2
    <3> QED BY <1>1, <1>3, <2>2, <3>1
  <2>6. active' = Cardinality(Busy)' /\ active' \in Nat
    BY <1>1, <2>1, <2>2
  <2> QED BY <2>3, <2>4, <2>5, <2>6
          DEF Accounts, WorkersAccountedFor, SlotsAreNative, JoinCountsRequests
<1>10. Room'
  BY <1>1, SameRoom DEF IInv
<1> QED BY <1>6, <1>7, <1>8, <1>9, <1>10 DEF IInv

(* A worker ends, and what it has taken is answered; its inference runs on.  *)
LEMMA WorkerStopsKeeps ==
  ASSUME RuntimeAssumption, IInv, NEW w \in Workers, WorkerStops(w)
  PROVE  IInv'
<1> DEFINE r == job[w]
<1>1. /\ UNCHANGED <<priority, queue, native, cooling, runtime, overdue>>
      /\ runtime = "stopping" /\ w \notin gone /\ gone' = gone \cup {w}
      /\ job' = [job EXCEPT ![w] = NoRequest]
      /\ IF w \in Busy THEN active' = active - 1 /\ unfinished' = unfinished - 1
                       ELSE UNCHANGED <<active, unfinished>>
      /\ future' = IF r = NoRequest THEN future
                   ELSE [future EXCEPT ![r] = IF @ = "pending" THEN "stopped" ELSE @]
  BY DEF WorkerStops, Drop, endVars
<1>2. /\ queue \in Seq(Requests) /\ Len(queue) \in Nat
      /\ job \in [Workers -> Requests \cup {NoRequest}] /\ future \in [Requests -> Futures]
      /\ \A x \in ToSet(queue) : x \in Requests
      /\ \A v \in Busy : job[v] \in Requests /\ job[v] \notin ToSet(queue)
  BY LenProperties, InQueue DEF IInv, Types, InOnePlace, Busy
<1>3. /\ Busy' = Busy \ {w} /\ \A v \in Busy \ {w} : job'[v] = job[v] /\ job[v] # r
      /\ r # NoRequest <=> w \in Busy
  <2>1. \A v \in Workers : job'[v] = IF v = w THEN NoRequest ELSE job[v]
    BY <1>1, <1>2
  <2>2. \A v \in Busy : job[v] # NoRequest /\ (job[v] = r => v = w)
    BY DEF IInv, InOnePlace, Busy, r
  <2> QED BY <2>1, <2>2 DEF Busy
<1>4. /\ \A x \in Requests \ {r} : future'[x] = future[x]
      /\ w \in Busy => r \in Requests /\ future'[r] \in {"stopped", "cancelled"}
      /\ w \in Busy => r \notin ToSet(queue)
  <2>1. w \in Busy => future[r] \in {"pending", "cancelled"} /\ r \in Requests /\ r \notin ToSet(queue)
    BY <1>2 DEF IInv, InOnePlace
  <2>2. CASE w \in Busy
    <3>1. future' = [future EXCEPT ![r] = IF @ = "pending" THEN "stopped" ELSE @]
      BY <1>1, <1>3, <2>2
    <3> HIDE DEF r
    <3> QED BY <1>2, <2>1, <2>2, <3>1
  <2>3. CASE w \notin Busy
    BY <1>1, <1>3, <2>3
  <2> QED BY <2>2, <2>3
<1>5. Types'
  <2>1. future' \in [Requests -> Futures]
    <3> HIDE DEF r
    <3> QED BY <1>1, <1>2 DEF Futures
  <2>2. job' \in [Workers -> Requests \cup {NoRequest}]
    BY <1>1, <1>2
  <2> QED BY <1>1, <2>1, <2>2 DEF IInv, Types
<1>6. \A x \in Requests : future'[x] = "pending" => future[x] = "pending" /\ (w \in Busy => x # r)
  BY <1>1, <1>3, <1>4
<1>7. InOnePlace'
  <2>1. \A x \in ToSet(queue) : future'[x] \in {"pending", "cancelled"}
    <3>1. \A x \in ToSet(queue) : future'[x] = future[x]
      BY <1>1, <1>2, <1>3, <1>4
    <3> QED BY <3>1 DEF IInv, InOnePlace
  <2>2. \A v \in Busy' : /\ job'[v] \notin ToSet(queue)
                         /\ future'[job'[v]] \in {"pending", "cancelled"}
    <3>1. \A v \in Busy' : v \in Busy /\ job'[v] = job[v] /\ job[v] \in Requests \ {r}
      BY <1>2, <1>3
    <3> HIDE DEF r
    <3> QED BY <1>2, <1>4, <3>1 DEF IInv, InOnePlace
  <2>3. \A u, v \in Busy' : job'[u] = job'[v] => u = v
    BY <1>3 DEF IInv, InOnePlace
  <2>4. \A x \in Requests : future'[x] = "pending" =>
          x \in ToSet(queue) \/ \E v \in Busy' : job'[v] = x
    <3> SUFFICES ASSUME NEW x \in Requests, future'[x] = "pending", x \notin ToSet(queue)
                 PROVE  \E v \in Busy' : job'[v] = x
      OBVIOUS
    <3>1. PICK v \in Busy : job[v] = x
      BY <1>6 DEF IInv, InOnePlace
    <3>2. v # w
      BY <1>6, <3>1
    <3> QED BY <1>3, <3>1, <3>2
  <2> QED BY <1>1, <2>1, <2>2, <2>3, <2>4 DEF IInv, InOnePlace
<1>8. Ending'
  <2>1. gone' \cap Busy' = {}
    BY <1>1, <1>3 DEF IInv, Ending
  <2> QED BY <1>1, <2>1 DEF Ending
<1>9. ShutdownAnswers'
  <2>1. ~overdue => \A x \in Requests : future'[x] = future[x]
    <3>1. ~overdue => \A x \in Requests : future[x] # "pending"
      BY <1>1 DEF IInv, ShutdownAnswers
    <3>2. \A x \in Requests : future[x] # "pending" => future'[x] = future[x]
      BY <1>1, <1>2
    <3> QED BY <3>1, <3>2
  <2> QED BY <1>1, <2>1 DEF IInv, ShutdownAnswers
<1>10. Accounts'
  <2>1. /\ Cardinality(Busy) \in Nat
        /\ Cardinality(Busy \ {w}) = IF w \in Busy THEN Cardinality(Busy) - 1 ELSE Cardinality(Busy)
        /\ unfinished = Len(queue) + Cardinality(Busy)
        /\ active = Cardinality(Busy) /\ Cardinality(native) <= Cardinality(Workers)
    BY BusyCounted
       DEF IInv, Accounts, WorkersAccountedFor, SlotsAreNative, JoinCountsRequests
  <2>2. Cardinality(Busy)' = Cardinality(Busy \ {w}) /\ Cardinality(Busy)' \in Nat
    <3>1. Cardinality(Busy)' = Cardinality(Busy \ {w})
      BY <1>3
    <3>2. IsFiniteSet(Busy')
      <4>1. IsFiniteSet(Busy) /\ Busy' \in SUBSET Busy
        BY <1>3, BusyCounted
      <4> QED BY <4>1, FS_Subset
    <3> QED BY <3>1, <3>2, FS_CardinalityType
  <2>3. unfinished' = Len(queue') + Cardinality(Busy)' /\ unfinished' \in Nat
    <3>1. unfinished' = Len(queue) + Cardinality(Busy)'
      BY <1>1, <1>2, <2>1, <2>2
    <3> QED BY <1>1, <1>2, <2>2, <3>1
  <2>4. active' = Cardinality(Busy)' /\ active' \in Nat
    BY <1>1, <2>1, <2>2
  <2> QED BY <1>1, <2>1, <2>3, <2>4
          DEF Accounts, WorkersAccountedFor, SlotsAreNative, JoinCountsRequests
<1>11. Room'
  BY <1>1, SameRoom DEF IInv
<1> QED BY <1>5, <1>7, <1>8, <1>9, <1>10, <1>11 DEF IInv

(* The workers gone, what is still queued is answered: no request is anywhere else.  *)
LEMMA ShutdownCompletesKeeps ==
  ASSUME RuntimeAssumption, IInv, ShutdownCompletes
  PROVE  IInv'
<1>1. /\ UNCHANGED <<priority, job, gone, native, active, cooling, overdue>>
      /\ runtime = "stopping" /\ runtime' = "closed" /\ gone = Workers
      /\ future' = [r \in Requests |->
                      IF r \in FailQueued /\ future[r] = "pending" THEN "closed" ELSE future[r]]
      /\ queue' = <<>> /\ unfinished' = unfinished - Len(queue)
  BY DEF ShutdownCompletes, workerVars
<1>2. Busy = {} /\ Busy' = {}
  <2>1. Busy = {}
    BY <1>1 DEF Busy, IInv, Ending
  <2> QED BY <1>1, <2>1 DEF Busy
<1>3. /\ queue \in Seq(Requests) /\ Len(queue) \in Nat /\ FailQueued = ToSet(queue)
      /\ future \in [Requests -> Futures]
  BY LenProperties DEF IInv, Types, FailQueued, ToSet
<1>4. queue' \in Seq(Requests) /\ Len(queue') = 0 /\ ToSet(queue') = {} /\ IsInjective(queue')
      /\ DOMAIN queue' = {}
  BY <1>1, EmptySeq, LenProperties DEF ToSet, IsInjective
<1>5. \A r \in Requests : future'[r] # "pending"
  BY <1>1, <1>2, <1>3 DEF IInv, InOnePlace
<1>6. Types'
  <2>1. future' \in [Requests -> Futures]
    BY <1>1, <1>3 DEF Futures
  <2> QED BY <1>1, <1>4, <2>1 DEF IInv, Types
<1>7. InOnePlace'
  BY <1>2, <1>4, <1>5 DEF InOnePlace
<1>8. Ending'
  BY <1>1, <1>2 DEF Ending
<1>9. ShutdownAnswers'
  <2>1. ~overdue => \A r \in Requests : future'[r] = future[r]
    BY <1>1 DEF IInv, ShutdownAnswers
  <2> QED BY <1>1, <1>5, <2>1 DEF IInv, ShutdownAnswers
<1>10. Accounts'
  <2>1. Cardinality(Busy) = 0 /\ Cardinality(Busy)' = 0
    BY <1>2, FS_EmptySet
  <2>2. unfinished = Len(queue) /\ active = 0 /\ Cardinality(native) <= Cardinality(Workers)
    BY <1>3, <2>1 DEF IInv, Accounts, WorkersAccountedFor, SlotsAreNative, JoinCountsRequests
  <2>3. unfinished' = 0
    BY <1>1, <1>3, <2>2
  <2> QED BY <1>1, <1>4, <2>1, <2>2, <2>3
          DEF Accounts, WorkersAccountedFor, SlotsAreNative, JoinCountsRequests
<1>11. Room'
  <2>1. Waiting(NotFinal)' = {} /\ Waiting({"PARTIAL"})' = {}
    BY <1>4 DEF Waiting
  <2>2. Cardinality({}) = 0 /\ 0 <= 1 /\ 0 < QueueCapacity /\ 0 <= QueueCapacity
    BY FS_EmptySet DEF RuntimeAssumption
  <2> QED BY <1>4, <2>1, <2>2 DEF Room, QueueKeepsRoom, FinalHasRoom, PartialsDoNotPile
<1> QED BY <1>6, <1>7, <1>8, <1>9, <1>10, <1>11 DEF IInv

-----------------------------------------------------------------------------
LEMMA StepsKeep ==
  ASSUME RuntimeAssumption, IInv, [RuntimeNext]_speechVars
  PROVE  IInv'
<1>1. CASE \E r \in Requests : Transcribe(r) \/ CallerLeaves(r)
  BY <1>1, TranscribeKeeps, CallerLeavesKeeps
<1>2. CASE \E w \in Workers : Take(w) \/ Finish(w) \/ WorkerStops(w)
  BY <1>2, TakeKeeps, FinishKeeps, WorkerStopsKeeps
<1>3. CASE Cooled \/ ShutdownBegins \/ JoinEnds \/ RuntimeRests \/ UNCHANGED speechVars
  BY <1>3, ClockAndShutdownKeep DEF RuntimeRests
<1>4. CASE AbandonedEnds \/ ShutdownCompletes
  BY <1>4, AbandonedEndsKeeps, ShutdownCompletesKeeps
<1> QED BY <1>1, <1>2, <1>3, <1>4 DEF RuntimeNext

(* The runtime is as RuntimeInv says between any two steps of its tasks: a place is
   kept for a final request, partials do not wait behind one another, the slots and
   join() count exactly the inferences and the requests there are, and a shutdown
   leaves nobody without an answer (_worker, transcribe, shutdown).          *)
THEOREM RuntimeCorrect ==
  ASSUME RuntimeAssumption
  PROVE  RuntimeSpec => []RuntimeInv
<1>1. RuntimeInit => IInv
  BY Initially
<1>2. IInv /\ [RuntimeNext]_speechVars => IInv'
  BY StepsKeep
<1>3. IInv => RuntimeInv
  BY DEF IInv, Types, Room, Accounts, RuntimeInv, RuntimeTypes
<1> QED BY <1>1, <1>2, <1>3, PTL DEF RuntimeSpec

-----------------------------------------------------------------------------
(* The preview of an utterance. *)

Parts == {"word", "stop"}

LEMMA TextsAre ==
  ASSUME BoundAssumption
  PROVE  /\ <<>> \in Texts
         /\ \A t \in Texts : t \in Seq(Parts) /\ Len(t) \in Nat /\ Len(t) <= MaxText
         /\ \A t \in Seq(Parts) : Len(t) <= MaxText => t \in Texts
<1>1. Texts = UNION { [1 .. m -> Parts] : m \in 0 .. MaxText } /\ MaxText \in Nat
  BY DEF Texts, BoundedSeq, SeqOf, Parts, BoundAssumption
<1>2. \A t \in Seq(Parts) : Len(t) <= MaxText => t \in Texts
  <2> SUFFICES ASSUME NEW t \in Seq(Parts), Len(t) <= MaxText
               PROVE  t \in Texts
    OBVIOUS
  <2>1. t \in [1 .. Len(t) -> Parts] /\ Len(t) \in 0 .. MaxText
    BY <1>1
  <2> QED BY <1>1, <2>1
<1>3. ASSUME NEW t \in Texts
      PROVE  t \in Seq(Parts) /\ Len(t) \in Nat /\ Len(t) <= MaxText
  <2>1. PICK m \in 0 .. MaxText : t \in [1 .. m -> Parts]
    BY <1>1
  <2> QED BY <1>1, <2>1
<1>4. <<>> \in Seq(Parts) /\ Len(<<>>) <= MaxText
  BY <1>1
<1> QED BY <1>2, <1>3, <1>4

LEMMA TextIsPrefix ==
  ASSUME NEW t \in Seq(Parts)
  PROVE  IsPrefix(<<>>, t) /\ IsPrefix(t, t)
<1>1. Len(t) \in Nat /\ SubSeq(t, 1, 0) = <<>> /\ SubSeq(<<>>, 1, 0) = <<>> /\ Len(<<>>) = 0
  OBVIOUS
<1> QED BY <1>1 DEF IsPrefix

LEMMA LastStop ==
  ASSUME NEW n \in Nat, NEW T, T \subseteq 1 .. n, T # {}
  PROVE  \E i \in T : \A j \in T : j <= i
<1> DEFINE U == { n + 1 - i : i \in T }
<1>1. U \subseteq Nat /\ U # {}
  <2>1. PICK i \in T : TRUE
    OBVIOUS
  <2>2. n + 1 - i \in U
    BY <2>1
  <2>3. \A k \in T : n + 1 - k \in Nat
    OBVIOUS
  <2> QED BY <2>2, <2>3
<1>2. PICK u \in U : \A y \in U : ~(<<y, u>> \in OpToRel(<, Nat))
  BY <1>1, NatLessThanWellFounded, WFMin, Zenon
<1>3. \A y \in U : ~(y < u)
  BY <1>1, <1>2 DEF OpToRel
<1>4. PICK x \in T : u = n + 1 - x
  OBVIOUS
<1>5. \A j \in T : j <= x
  <2> TAKE j \in T
  <2>1. n + 1 - j \in U
    OBVIOUS
  <2>2. ~(n + 1 - j < n + 1 - x)
    BY <1>3, <1>4, <2>1
  <2> QED BY <2>2
<1> QED BY <1>5

(* What may be translated is a text, and the whole one in the end.           *)
LEMMA PrefixIsText ==
  ASSUME BoundAssumption, NEW text \in Texts, NEW final \in BOOLEAN
  PROVE  TranslationPrefix(text, final) \in Texts /\ (final => TranslationPrefix(text, final) = text)
<1>1. CASE final
  BY <1>1 DEF TranslationPrefix
<1>2. CASE ~final
  <2> DEFINE stops == { i \in DOMAIN text : text[i] = "stop" }
             k == IF stops = {} THEN 0 ELSE CHOOSE i \in stops : \A j \in stops : j <= i
  <2>1. text \in Seq(Parts) /\ Len(text) \in Nat /\ Len(text) <= MaxText /\ MaxText \in Nat
    BY TextsAre DEF BoundAssumption
  <2>2. stops \subseteq 1 .. Len(text)
    BY <2>1
  <2>3. TranslationPrefix(text, final) = SubSeq(text, 1, k)
    BY <1>2 DEF TranslationPrefix
  <2> HIDE DEF stops
  <2>4. k \in 0 .. Len(text)
    <3>1. CASE stops = {}
      BY <2>1, <3>1
    <3>2. CASE stops # {}
      <4>1. \E i \in stops : \A j \in stops : j <= i
        BY <2>1, <2>2, <3>2, LastStop
      <4>2. k \in stops
        BY <3>2, <4>1
      <4>3. \A i \in stops : i \in 0 .. Len(text)
        BY <2>1, <2>2
      <4> QED BY <4>2, <4>3
    <3> QED BY <3>1, <3>2
  <2> HIDE DEF k
  <2>5. SubSeq(text, 1, k) \in Seq(Parts) /\ Len(SubSeq(text, 1, k)) = k
    BY <2>1, <2>4
  <2>6. k <= MaxText
    BY <2>1, <2>4
  <2> QED BY <1>2, <2>3, <2>5, <2>6, TextsAre
<1> QED BY <1>1, <1>2

-----------------------------------------------------------------------------
(* The invariant of the preview. *)

(* While the job is active, what was published last is the text there is.    *)
PublishedKept ==
  /\ previewing /\ language # "none" /\ latest # <<>> =>
       lastEmitted = Paired(latest, language, translated)
  /\ shown = "outcome" => closed \/ ~current

(* Where its tasks may be while it runs.                                     *)
TasksKept ==
  /\ main \in {"new", "checking", "running"} => how = "none" /\ (previewing \/ cancelled)
  /\ main \in {"new", "checking"} => language = "none" /\ ~streamFinished /\ calls = 0
  /\ main \in {"aborting", "ended"} => lpc = "done" /\ tpc = "done"
  /\ main = "aborting" => how \in {"failed", "cancelled"}
  /\ main # "running" => spc \in {"done", "aborting"}
  /\ main \in {"new", "checking", "ended"} => lpc = "done" /\ spc = "done" /\ tpc = "done"
  /\ main = "running" =>
       /\ lpc = "done" <=> language # "none"
       /\ streamFinished <=> spc \in {"done", "raised"}

(* The translator stops before its second call only if there is nothing left for it. *)
TranslatorKept ==
  main = "running" =>
    /\ tpc \in {"waiting", "sleeping"} => calls < 2
    /\ tpc = "calling" => language = "foreign"
    /\ tpc = "done" /\ previewing =>
         \/ calls = 2
         \/ language = "target"
         \/ language # "none" /\ streamFinished /\ (latest = <<>> \/ latest = lastSource)

PreviewIInv ==
  /\ PreviewTypeOK /\ TranslationFits /\ Complete
  /\ PublishedKept /\ TasksKept /\ TranslatorKept

LEMMA PreviewInitially ==
  ASSUME BoundAssumption, PreviewInit
  PROVE  PreviewIInv
<1>1. <<>> \in Texts /\ 1 \in 1 .. MaxAudio /\ 1 \in 0 .. MaxAudio /\ 0 \in 0 .. MaxAudio
  BY TextsAre DEF BoundAssumption
<1>2. PreviewTypeOK
  <2>1. {latest, lastSource, translated} \subseteq Texts /\ lastEmitted \in Texts \X Texts
    BY <1>1 DEF PreviewInit
  <2>2. /\ previewing \in BOOLEAN /\ cancelled \in BOOLEAN /\ finished \in BOOLEAN /\ changed \in BOOLEAN
        /\ streamFinished \in BOOLEAN /\ current \in BOOLEAN /\ closed \in BOOLEAN
    BY DEF PreviewInit
  <2>3. calls \in 0 .. 2
    BY DEF PreviewInit
  <2> QED BY <1>1, <2>1, <2>2, <2>3 DEF PreviewInit, PreviewTypeOK
<1>3. TranslationFits
  <2>1. IsPrefix(<<>>, <<>>)
    BY <1>1, TextsAre, TextIsPrefix
  <2> QED BY <2>1 DEF PreviewInit, TranslationFits
<1> QED BY <1>2, <1>3
        DEF PreviewIInv, PreviewInit, Complete, PublishedKept, TasksKept, TranslatorKept

LEMMA Published ==
  ASSUME BoundAssumption, NEW text \in Texts, NEW lang \in {"none", "target", "foreign"}, NEW t \in Texts,
         PreviewIInv, Publish(text, lang, t)
  PROVE  /\ lastEmitted' \in Texts \X Texts /\ TranslationFits'
         /\ previewing /\ lang # "none" /\ text # <<>> => lastEmitted' = Paired(text, lang, t)
         /\ shown' \in {"none", "preview", "outcome"} /\ OutcomeStays
         /\ shown' = "outcome" => closed \/ ~current
<1>1. Paired(text, lang, t) \in Texts \X Texts /\ Paired(text, lang, t)[1] = text
      /\ IsPrefix(Paired(text, lang, t)[2], Paired(text, lang, t)[1])
  <2>1. text \in Seq(Parts) /\ <<>> \in Texts
    BY TextsAre
  <2>2. IsPrefix(text, text) /\ IsPrefix(<<>>, text)
    BY <2>1, TextIsPrefix
  <2>3. CASE lang = "target"
    BY <2>2, <2>3 DEF Paired
  <2>4. CASE lang # "target" /\ IsPrefix(t, text)
    BY <2>4 DEF Paired
  <2>5. CASE lang # "target" /\ ~IsPrefix(t, text)
    BY <2>1, <2>2, <2>5 DEF Paired
  <2> QED BY <2>3, <2>4, <2>5
<1>2. /\ lastEmitted \in Texts \X Texts /\ TranslationFits /\ shown \in {"none", "preview", "outcome"}
      /\ shown = "outcome" => closed \/ ~current
  BY DEF PreviewIInv, PreviewTypeOK, PublishedKept
<1>3. CASE previewing /\ lang # "none" /\ text # <<>> /\ Paired(text, lang, t) # lastEmitted
  <2>1. lastEmitted' = Paired(text, lang, t) /\ Show
    BY <1>3 DEF Publish
  <2> QED BY <1>1, <1>2, <2>1 DEF Show, TranslationFits, OutcomeStays
<1>4. CASE ~(previewing /\ lang # "none" /\ text # <<>> /\ Paired(text, lang, t) # lastEmitted)
  <2>1. lastEmitted' = lastEmitted /\ shown' = shown
    BY <1>4 DEF Publish
  <2> QED BY <1>2, <1>4, <2>1 DEF TranslationFits, OutcomeStays
<1> QED BY <1>3, <1>4

-----------------------------------------------------------------------------
(* What the stream does. *)

LEMMA OfferKeeps ==
  ASSUME BoundAssumption, PreviewIInv, Offer \/ OfferFinal
  PROVE  PreviewIInv' /\ OutcomeStays
<1>1. /\ queued' \in 1 .. MaxAudio /\ offered' \in 1 .. MaxAudio /\ finished' \in BOOLEAN
      /\ UNCHANGED <<main, how, sent, lpc, spc, tpc, language, textVars, translateVars, lastEmitted, ownerVars, shown>>
  <2>1. offered \in 1 .. MaxAudio /\ finished \in BOOLEAN /\ MaxAudio \in Nat
    BY DEF PreviewIInv, PreviewTypeOK, BoundAssumption
  <2>2. CASE Offer
    <3>1. PICK n \in (offered + 1) .. MaxAudio : offered' = n /\ queued' = n
      BY <2>2 DEF Offer
    <3>2. n \in 1 .. MaxAudio
      BY <2>1
    <3> QED BY <2>1, <2>2, <3>1, <3>2 DEF Offer
  <2>3. CASE OfferFinal
    BY <2>1, <2>3 DEF OfferFinal
  <2> QED BY <2>2, <2>3
<1>2. PreviewTypeOK'
  BY <1>1 DEF PreviewIInv, PreviewTypeOK, textVars, translateVars, ownerVars
<1>3. /\ TranslationFits' /\ Complete' /\ PublishedKept' /\ TasksKept' /\ TranslatorKept' /\ OutcomeStays
  BY <1>1 DEF PreviewIInv, TranslationFits, Complete, PublishedKept, TasksKept, TranslatorKept, OutcomeStays,
              textVars, translateVars, ownerVars
<1> QED BY <1>2, <1>3 DEF PreviewIInv

LEMMA DisownKeeps ==
  ASSUME BoundAssumption, PreviewIInv, Outcome \/ CancelBackground
  PROVE  PreviewIInv' /\ OutcomeStays
<1>1. /\ ~current' /\ ~previewing' /\ cancelled' = (main # "ended") /\ shown' \in {"outcome", shown}
      /\ current' \in BOOLEAN /\ previewing' \in BOOLEAN /\ cancelled' \in BOOLEAN
      /\ UNCHANGED <<main, how, audioVars, lpc, spc, tpc, language, textVars, translateVars, lastEmitted, closed>>
  BY DEF Outcome, CancelBackground, Disown
<1>2. PreviewTypeOK'
  BY <1>1 DEF PreviewIInv, PreviewTypeOK, audioVars, textVars, translateVars
<1>3. TranslationFits' /\ Complete' /\ PublishedKept' /\ TasksKept' /\ TranslatorKept' /\ OutcomeStays
  BY <1>1 DEF PreviewIInv, TranslationFits, Complete, PublishedKept, TasksKept, TranslatorKept, OutcomeStays,
              audioVars, textVars, translateVars
<1> QED BY <1>2, <1>3 DEF PreviewIInv

LEMMA StreamClosesKeeps ==
  ASSUME BoundAssumption, PreviewIInv, StreamCloses
  PROVE  PreviewIInv' /\ OutcomeStays
<1>1. PreviewTypeOK'
  BY DEF StreamCloses, PreviewIInv, PreviewTypeOK, audioVars, textVars, translateVars
<1>2. TranslationFits' /\ Complete' /\ PublishedKept' /\ TasksKept' /\ TranslatorKept' /\ OutcomeStays
  BY DEF StreamCloses, PreviewIInv, TranslationFits, Complete, PublishedKept, TasksKept, TranslatorKept, OutcomeStays,
         audioVars, textVars, translateVars
<1> QED BY <1>1, <1>2 DEF PreviewIInv

-----------------------------------------------------------------------------
(* What the job itself does. *)

LEMMA StartKeeps ==
  ASSUME BoundAssumption, PreviewIInv, CancelledUnstarted \/ NoSlot \/ Begin \/ CheckEnds \/ HasSpeech
  PROVE  PreviewIInv' /\ OutcomeStays
<1>0. 0 \in 0 .. MaxAudio
  BY DEF BoundAssumption
<1>1. CASE CancelledUnstarted
  <2>0. cancelled' \in BOOLEAN
    BY <1>1 DEF CancelledUnstarted
  <2>1. PreviewTypeOK'
    BY <1>1, <1>0, <2>0 DEF CancelledUnstarted, PreviewIInv, PreviewTypeOK, audioVars, textVars, translateVars, ownerVars
  <2>2. TranslationFits' /\ Complete' /\ PublishedKept' /\ OutcomeStays
    BY <1>1 DEF CancelledUnstarted, PreviewIInv, TranslationFits, Complete, PublishedKept, TasksKept, OutcomeStays,
                audioVars, textVars, translateVars, ownerVars
  <2>3. TasksKept' /\ TranslatorKept'
    BY <1>1 DEF CancelledUnstarted, PreviewIInv, TasksKept, TranslatorKept, audioVars, textVars, translateVars, ownerVars
  <2> QED BY <2>1, <2>2, <2>3 DEF PreviewIInv
<1>2. CASE NoSlot
  <2>0. previewing' \in BOOLEAN /\ cancelled' \in BOOLEAN
    BY <1>2 DEF NoSlot, End
  <2>1. PreviewTypeOK'
    BY <1>2, <1>0, <2>0 DEF NoSlot, End, PreviewIInv, PreviewTypeOK, audioVars, textVars, translateVars, ownerVars
  <2>2. TranslationFits' /\ Complete' /\ PublishedKept' /\ OutcomeStays
    BY <1>2 DEF NoSlot, End, PreviewIInv, TranslationFits, Complete, PublishedKept, TasksKept, OutcomeStays,
                audioVars, textVars, translateVars, ownerVars
  <2>3. TasksKept' /\ TranslatorKept'
    BY <1>2 DEF NoSlot, End, PreviewIInv, TasksKept, TranslatorKept, audioVars, textVars, translateVars, ownerVars
  <2> QED BY <2>1, <2>2, <2>3 DEF PreviewIInv
<1>3. CASE Begin
  <2>1. PreviewTypeOK'
    BY <1>3 DEF Begin, PreviewIInv, PreviewTypeOK, audioVars, textVars, translateVars, ownerVars
  <2>2. TranslationFits' /\ Complete' /\ PublishedKept' /\ OutcomeStays
    BY <1>3 DEF Begin, PreviewIInv, TranslationFits, Complete, PublishedKept, TasksKept, OutcomeStays,
                audioVars, textVars, translateVars, ownerVars
  <2>3. TasksKept' /\ TranslatorKept'
    BY <1>3 DEF Begin, PreviewIInv, TasksKept, TranslatorKept, audioVars, textVars, translateVars, ownerVars
  <2> QED BY <2>1, <2>2, <2>3 DEF PreviewIInv
<1>4. CASE CheckEnds
  <2>0. previewing' \in BOOLEAN /\ cancelled' \in BOOLEAN
    BY <1>4 DEF CheckEnds, End
  <2>1. PreviewTypeOK'
    BY <1>4, <1>0, <2>0 DEF CheckEnds, End, PreviewIInv, PreviewTypeOK, audioVars, textVars, translateVars, ownerVars
  <2>2. TranslationFits' /\ Complete' /\ PublishedKept' /\ OutcomeStays
    BY <1>4 DEF CheckEnds, End, PreviewIInv, TranslationFits, Complete, PublishedKept, TasksKept, OutcomeStays,
                audioVars, textVars, translateVars, ownerVars
  <2>3. TasksKept' /\ TranslatorKept'
    BY <1>4 DEF CheckEnds, End, PreviewIInv, TasksKept, TranslatorKept, audioVars, textVars, translateVars, ownerVars
  <2> QED BY <2>1, <2>2, <2>3 DEF PreviewIInv
<1>5. CASE HasSpeech
  <2>0. tpc' = "waiting" /\ calls < 2
    BY <1>5 DEF HasSpeech, Loop, PreviewIInv, TasksKept
  <2>1. PreviewTypeOK'
    BY <1>5, <2>0 DEF HasSpeech, PreviewIInv, PreviewTypeOK, audioVars, textVars, translateVars, ownerVars
  <2>2. TranslationFits' /\ Complete' /\ PublishedKept' /\ OutcomeStays
    BY <1>5 DEF HasSpeech, PreviewIInv, TranslationFits, Complete, PublishedKept, TasksKept, OutcomeStays,
                audioVars, textVars, translateVars, ownerVars
  <2>3. TasksKept' /\ TranslatorKept'
    BY <1>5, <2>0 DEF HasSpeech, PreviewIInv, TasksKept, TranslatorKept, audioVars, textVars, translateVars, ownerVars
  <2> QED BY <2>1, <2>2, <2>3 DEF PreviewIInv
<1> QED BY <1>1, <1>2, <1>3, <1>4, <1>5

LEMMA AbortKeeps ==
  ASSUME BoundAssumption, PreviewIInv, AbortFailed \/ AbortCancelled \/ AbortTimeout
  PROVE  PreviewIInv' /\ OutcomeStays
<1>1. Abort("failed") \/ Abort("cancelled")
  BY DEF AbortFailed, AbortCancelled, AbortTimeout
<1>2. PreviewTypeOK'
  BY <1>1 DEF Abort, PreviewIInv, PreviewTypeOK, audioVars, textVars, translateVars
<1>3. TranslationFits' /\ Complete' /\ PublishedKept' /\ TasksKept' /\ TranslatorKept' /\ OutcomeStays
  BY <1>1 DEF Abort, PreviewIInv, TranslationFits, Complete, PublishedKept, TasksKept, TranslatorKept, OutcomeStays,
              audioVars, textVars, translateVars
<1> QED BY <1>2, <1>3 DEF PreviewIInv

(* A job that ends by itself has done all there was to do.                   *)
LEMMA GroupEndsKeeps ==
  ASSUME BoundAssumption, PreviewIInv, GroupEnds
  PROVE  PreviewIInv' /\ OutcomeStays
<1>1. /\ main' = "ended" /\ ~previewing' /\ ~cancelled' /\ queued' = 0
      /\ how' = IF main = "aborting" THEN how ELSE IF cancelled THEN "cancelled" ELSE "done"
      /\ UNCHANGED <<finished, offered, sent, lpc, spc, tpc, language, textVars, translateVars, lastEmitted, current, closed, shown>>
      /\ lpc = "done" /\ spc = "done" /\ tpc = "done" /\ main \in {"running", "aborting"}
  BY DEF GroupEnds, End, AllDone
<1>2. PreviewTypeOK'
  <2>1. previewing' \in BOOLEAN /\ cancelled' \in BOOLEAN
    BY DEF GroupEnds, End
  <2> QED BY <1>1, <2>1 DEF PreviewIInv, PreviewTypeOK, textVars, translateVars, BoundAssumption
<1>3. TranslationFits' /\ PublishedKept' /\ TasksKept' /\ TranslatorKept' /\ OutcomeStays
  BY <1>1 DEF PreviewIInv, TranslationFits, PublishedKept, TasksKept, TranslatorKept, OutcomeStays, textVars, translateVars
<1>4. Complete'
  <2> SUFFICES ASSUME how' = "done", latest' # <<>>
               PROVE  /\ lastEmitted'[1] = latest'
                      /\ language' = "foreign" => lastSource' = latest' \/ calls' = 2
    BY DEF Complete
  <2>1. main = "running" /\ ~cancelled /\ previewing /\ language # "none"
    BY <1>1 DEF PreviewIInv, TasksKept
  <2>2. lastEmitted = Paired(latest, language, translated)
    BY <1>1, <2>1 DEF PreviewIInv, PublishedKept, textVars
  <2>3. language = "foreign" => lastSource = latest \/ calls = 2
    BY <1>1, <2>1 DEF PreviewIInv, TranslatorKept, textVars
  <2>4. lastEmitted[1] = latest
    BY <2>2 DEF Paired
  <2> QED BY <1>1, <2>3, <2>4 DEF textVars, translateVars
<1> QED BY <1>2, <1>3, <1>4 DEF PreviewIInv
-----------------------------------------------------------------------------
(* What the tasks of the job do. *)

LEMMA LanguageKeeps ==
  ASSUME BoundAssumption, PreviewIInv, LanguageKnown \/ LanguageRefused
  PROVE  PreviewIInv' /\ OutcomeStays
<1>1. main = "running" /\ how = "none" /\ how' = "none" /\ language = "none"
  BY DEF LanguageKnown, LanguageRefused, PreviewIInv, PreviewTypeOK, TasksKept
<1>2. Complete'
  BY <1>1 DEF Complete
<1>3. CASE LanguageKnown
  <2>1. PICK lang \in {"target", "foreign"} : language' = lang /\ Publish(latest, lang, translated)
    BY <1>3 DEF LanguageKnown
  <2>2. latest \in Texts /\ translated \in Texts
    BY DEF PreviewIInv, PreviewTypeOK
  <2>3. /\ lastEmitted' \in Texts \X Texts /\ TranslationFits'
        /\ previewing /\ lang # "none" /\ latest # <<>> => lastEmitted' = Paired(latest, lang, translated)
        /\ shown' \in {"none", "preview", "outcome"} /\ OutcomeStays
        /\ shown' = "outcome" => closed \/ ~current
    BY <2>1, <2>2, Published
  <2>4. /\ lpc' = "done" /\ changed' \in BOOLEAN
        /\ UNCHANGED <<main, how, audioVars, spc, tpc, latest, streamFinished, translateVars, ownerVars>>
    BY <1>3 DEF LanguageKnown
  <2>5. PreviewTypeOK'
    BY <2>1, <2>3, <2>4 DEF PreviewIInv, PreviewTypeOK, audioVars, translateVars, ownerVars
  <2>6. PublishedKept'
    BY <2>1, <2>3, <2>4 DEF PublishedKept, translateVars, ownerVars
  <2>7. TasksKept' /\ TranslatorKept'
    BY <1>1, <2>1, <2>4 DEF PreviewIInv, TasksKept, TranslatorKept, translateVars, ownerVars
  <2> QED BY <1>2, <2>3, <2>5, <2>6, <2>7 DEF PreviewIInv
<1>4. CASE LanguageRefused
  <2>1. PreviewTypeOK'
    BY <1>4 DEF LanguageRefused, PreviewIInv, PreviewTypeOK, audioVars, textVars, translateVars, ownerVars
  <2>2. TranslationFits' /\ PublishedKept' /\ OutcomeStays
    BY <1>4 DEF LanguageRefused, PreviewIInv, TranslationFits, PublishedKept, OutcomeStays, textVars, translateVars, ownerVars
  <2>3. TasksKept' /\ TranslatorKept'
    BY <1>1, <1>4 DEF LanguageRefused, PreviewIInv, TasksKept, TranslatorKept, textVars, translateVars, ownerVars
  <2> QED BY <1>2, <2>1, <2>2, <2>3 DEF PreviewIInv
<1> QED BY <1>3, <1>4

LEMMA SendAudioKeeps ==
  ASSUME BoundAssumption, PreviewIInv, SendAudio
  PROVE  PreviewIInv' /\ OutcomeStays
<1>1. /\ queued' = 0 /\ sent' \in {queued, sent} /\ spc = "streaming" /\ spc' \in {"streaming", "committed"}
      /\ UNCHANGED <<main, how, finished, offered, lpc, tpc, language, textVars, translateVars, lastEmitted, ownerVars, shown>>
  BY DEF SendAudio
<1>2. PreviewTypeOK'
  BY <1>1 DEF PreviewIInv, PreviewTypeOK, textVars, translateVars, ownerVars, BoundAssumption
<1>3. TranslationFits' /\ Complete' /\ PublishedKept' /\ TasksKept' /\ TranslatorKept' /\ OutcomeStays
  BY <1>1 DEF PreviewIInv, TranslationFits, Complete, PublishedKept, TasksKept, TranslatorKept, OutcomeStays,
              textVars, translateVars, ownerVars
<1> QED BY <1>2, <1>3 DEF PreviewIInv

(* A transcript is not received after the job has ended, nor after its stream. *)
LEMMA ReceiveKeeps ==
  ASSUME BoundAssumption, PreviewIInv, NEW text \in Texts, Receive(text),
         spc \in {"streaming", "committed", "aborting"}, spc' \in {spc, "complete"},
         spc' = "complete" => spc = "committed"
  PROVE  PreviewIInv' /\ OutcomeStays
<1>1. /\ latest' = text /\ changed' \in BOOLEAN
      /\ UNCHANGED <<main, how, audioVars, lpc, tpc, language, streamFinished, translateVars, ownerVars>>
      /\ Publish(text, language, translated)
  BY DEF Receive
<1>2. translated \in Texts /\ language \in {"none", "target", "foreign"}
  BY DEF PreviewIInv, PreviewTypeOK
<1>3. /\ lastEmitted' \in Texts \X Texts /\ TranslationFits'
      /\ previewing /\ language # "none" /\ text # <<>> => lastEmitted' = Paired(text, language, translated)
      /\ shown' \in {"none", "preview", "outcome"} /\ OutcomeStays
      /\ shown' = "outcome" => closed \/ ~current
  BY <1>1, <1>2, Published
<1>4. PreviewTypeOK'
  BY <1>1, <1>3 DEF PreviewIInv, PreviewTypeOK, audioVars, translateVars, ownerVars
<1>5. Complete'
  <2>1. how # "done"
    BY DEF PreviewIInv, PreviewTypeOK, TasksKept
  <2> QED BY <1>1, <2>1 DEF Complete
<1>6. PublishedKept'
  BY <1>1, <1>3 DEF PublishedKept, translateVars, ownerVars
<1>7. TasksKept'
  BY <1>1 DEF PreviewIInv, TasksKept, ownerVars
<1>8. TranslatorKept'
  <2>1. main = "running" => ~streamFinished
    BY DEF PreviewIInv, TasksKept
  <2> QED BY <1>1, <2>1 DEF PreviewIInv, TranslatorKept, ownerVars, translateVars
<1> QED BY <1>3, <1>4, <1>5, <1>6, <1>7, <1>8 DEF PreviewIInv

LEMMA TranscriptKeeps ==
  ASSUME BoundAssumption, PreviewIInv, Delta \/ Completed
  PROVE  PreviewIInv' /\ OutcomeStays
<1>1. CASE Delta
  <2>1. PICK part \in Parts : Receive(Append(latest, part))
    BY <1>1 DEF Delta, Parts
  <2>2. latest \in Seq(Parts) /\ Len(latest) \in Nat /\ Len(latest) < MaxText
    BY <1>1, TextsAre DEF Delta, PreviewIInv, PreviewTypeOK
  <2>3. Append(latest, part) \in Seq(Parts) /\ Len(Append(latest, part)) <= MaxText
    BY <2>2 DEF BoundAssumption
  <2>4. Append(latest, part) \in Texts
    BY <2>3, TextsAre
  <2>5. spc \in {"streaming", "committed", "aborting"} /\ spc' = spc
    BY <1>1 DEF Delta
  <2> QED BY <2>1, <2>4, <2>5, ReceiveKeeps
<1>2. CASE Completed
  <2>1. PICK text \in Texts : Receive(text)
    BY <1>2 DEF Completed
  <2> QED BY <1>2, <2>1, ReceiveKeeps DEF Completed
<1> QED BY <1>1, <1>2

LEMMA StreamOverKeeps ==
  ASSUME BoundAssumption, PreviewIInv, StreamEnds \/ StreamFails \/ StreamAborted
  PROVE  PreviewIInv' /\ OutcomeStays
<1>1. /\ spc # "done" /\ spc # "raised" /\ spc' \in {"done", "raised"} /\ streamFinished'
      /\ streamFinished' \in BOOLEAN /\ changed' \in BOOLEAN
      /\ UNCHANGED <<main, how, audioVars, lpc, tpc, language, latest, translateVars, lastEmitted, ownerVars, shown>>
  BY DEF StreamEnds, StreamFails, StreamAborted, StreamOver
<1>2. PreviewTypeOK'
  BY <1>1 DEF PreviewIInv, PreviewTypeOK, audioVars, translateVars, ownerVars
<1>3. TranslationFits' /\ Complete' /\ PublishedKept' /\ OutcomeStays
  BY <1>1 DEF PreviewIInv, TranslationFits, Complete, PublishedKept, OutcomeStays, translateVars, ownerVars
<1>4. TasksKept'
  <2>1. main # "running" => spc' = "done"
    BY DEF StreamEnds, StreamFails, StreamAborted, StreamOver, PreviewIInv, TasksKept, PreviewTypeOK
  <2> QED BY <1>1, <2>1 DEF PreviewIInv, PreviewTypeOK, TasksKept, ownerVars
<1>5. TranslatorKept'
  BY <1>1 DEF PreviewIInv, TasksKept, TranslatorKept, translateVars, ownerVars
<1> QED BY <1>2, <1>3, <1>4, <1>5 DEF PreviewIInv

(* A translation is asked for twice at most, and comes for the text there is. *)
LEMMA AskingKeeps ==
  ASSUME BoundAssumption, PreviewIInv, Wake \/ TooSoon \/ NothingNew \/ NotNeeded \/ Translate
  PROVE  PreviewIInv' /\ OutcomeStays
<1>1. /\ main = "running" /\ how = "none" /\ calls \in 0 .. 2 /\ calls < 2
      /\ tpc \in {"waiting", "sleeping"} /\ previewing \in BOOLEAN
      /\ language \in {"none", "target", "foreign"} /\ latest \in Texts /\ lastSource \in Texts
      /\ streamFinished \in BOOLEAN /\ changed \in BOOLEAN
  BY DEF Wake, TooSoon, NothingNew, NotNeeded, Translate, PreviewIInv, PreviewTypeOK, TasksKept, TranslatorKept
<1>2. /\ UNCHANGED <<translateIdle, translated, lastEmitted, shown>> /\ changed' \in BOOLEAN
  BY <1>1 DEF Wake, TooSoon, NothingNew, NotNeeded, Translate, translateVars
<1>3. Source \in Texts /\ (streamFinished => Source = latest)
  BY <1>1, PrefixIsText DEF Source
<1>4. /\ calls' \in 0 .. 2 /\ lastSource' \in Texts /\ tpc' \in {"waiting", "sleeping", "calling", "done"}
      /\ tpc' \in {"waiting", "sleeping"} => calls' < 2
      /\ tpc' = "calling" => language = "foreign"
      /\ tpc' = "done" /\ previewing =>
           \/ language = "target"
           \/ language # "none" /\ streamFinished /\ (latest = <<>> \/ latest = lastSource')
  <2>1. CASE Wake
    BY <1>1, <2>1 DEF Wake, translateVars
  <2>2. CASE TooSoon
    BY <1>1, <2>2 DEF TooSoon, translateVars, Loop
  <2>3. CASE NothingNew
    <3>1. CASE streamFinished /\ language # "none"
      BY <1>1, <1>3, <2>3, <3>1 DEF NothingNew, Pointless, translateVars
    <3>2. CASE ~(streamFinished /\ language # "none")
      BY <1>1, <2>3, <3>2 DEF NothingNew, Loop, translateVars
    <3> QED BY <3>1, <3>2
  <2>4. CASE NotNeeded
    <3>1. language = "target" /\ tpc' = "done" /\ calls' = calls /\ lastSource' = lastSource
      BY <2>4 DEF NotNeeded, translateVars
    <3> QED BY <1>1, <3>1
  <2>5. CASE Translate
    <3>1. calls + 1 \in 0 .. 2
      BY <1>1
    <3> QED BY <1>1, <1>3, <2>5, <3>1 DEF Translate
  <2> QED BY <2>1, <2>2, <2>3, <2>4, <2>5
<1>5. PreviewTypeOK'
  BY <1>2, <1>4 DEF PreviewIInv, PreviewTypeOK, translateIdle, audioVars, ownerVars
<1>6. TranslationFits' /\ PublishedKept' /\ OutcomeStays
  BY <1>2 DEF PreviewIInv, TranslationFits, PublishedKept, OutcomeStays, translateIdle, ownerVars
<1>7. Complete'
  BY <1>1, <1>2 DEF Complete, translateIdle
<1>8. TasksKept' /\ TranslatorKept'
  BY <1>1, <1>2, <1>4 DEF PreviewIInv, TasksKept, TranslatorKept, translateIdle, ownerVars
<1> QED BY <1>5, <1>6, <1>7, <1>8 DEF PreviewIInv

LEMMA AnswerKeeps ==
  ASSUME BoundAssumption, PreviewIInv, TranslationComes \/ TranslationFails
  PROVE  PreviewIInv' /\ OutcomeStays
<1>1. /\ main = "running" /\ how = "none" /\ calls \in 0 .. 2 /\ language = "foreign" /\ tpc = "calling"
      /\ previewing \in BOOLEAN /\ latest \in Texts /\ lastSource \in Texts /\ translated \in Texts
      /\ streamFinished \in BOOLEAN
  BY DEF TranslationComes, TranslationFails, PreviewIInv, PreviewTypeOK, TasksKept, TranslatorKept
<1>2. UNCHANGED <<translateIdle, changed, calls, lastSource>> /\ tpc' = Answered
  BY DEF TranslationComes, TranslationFails, translateVars
<1>3. /\ tpc' \in {"waiting", "done"} /\ (tpc' = "waiting" => calls < 2)
      /\ tpc' = "done" /\ previewing => calls = 2 \/ (streamFinished /\ latest = lastSource)
  <2>1. CASE streamFinished /\ latest = lastSource
    BY <1>2, <2>1 DEF Answered
  <2>2. CASE ~(streamFinished /\ latest = lastSource)
    <3>1. tpc' = IF previewing /\ calls < 2 THEN "waiting" ELSE "done"
      BY <1>2, <2>2 DEF Answered, Loop
    <3>2. calls < 2 \/ calls = 2
      BY <1>1
    <3> QED BY <3>1, <3>2
  <2> QED BY <2>1, <2>2
<1>4. /\ translated' \in Texts /\ lastEmitted' \in Texts \X Texts /\ TranslationFits'
      /\ shown' \in {"none", "preview", "outcome"} /\ OutcomeStays
      /\ shown' = "outcome" => closed \/ ~current
      /\ previewing /\ latest # <<>> => lastEmitted' = Paired(latest, language, translated')
  <2>1. CASE TranslationComes /\ IsPrefix(lastSource, latest)
    <3>1. translated' = lastSource /\ Publish(latest, language, lastSource)
      BY <2>1 DEF TranslationComes
    <3>2. /\ lastEmitted' \in Texts \X Texts /\ TranslationFits'
          /\ previewing /\ language # "none" /\ latest # <<>> => lastEmitted' = Paired(latest, language, lastSource)
          /\ shown' \in {"none", "preview", "outcome"} /\ OutcomeStays
          /\ shown' = "outcome" => closed \/ ~current
      BY <1>1, <3>1, Published
    <3> QED BY <1>1, <3>1, <3>2
  <2>2. CASE ~(TranslationComes /\ IsPrefix(lastSource, latest))
    <3>1. UNCHANGED <<translated, lastEmitted, shown>>
      BY <2>2 DEF TranslationComes, TranslationFails, translateVars
    <3> QED BY <1>1, <3>1 DEF PreviewIInv, PreviewTypeOK, TranslationFits, PublishedKept, OutcomeStays
  <2> QED BY <2>1, <2>2
<1>5. PreviewTypeOK'
  BY <1>2, <1>3, <1>4 DEF PreviewIInv, PreviewTypeOK, translateIdle, audioVars, ownerVars
<1>6. PublishedKept'
  BY <1>2, <1>4 DEF PublishedKept, translateIdle, ownerVars
<1>7. Complete'
  BY <1>1, <1>2 DEF Complete, translateIdle
<1>8. TasksKept' /\ TranslatorKept'
  BY <1>1, <1>2, <1>3 DEF PreviewIInv, TasksKept, TranslatorKept, translateIdle, ownerVars
<1> QED BY <1>4, <1>5, <1>6, <1>7, <1>8 DEF PreviewIInv

-----------------------------------------------------------------------------
LEMMA PreviewStep ==
  ASSUME BoundAssumption, PreviewIInv, PreviewNext \/ UNCHANGED previewVars
  PROVE  PreviewIInv' /\ OutcomeStays
<1>1. CASE StreamNext
  BY <1>1, OfferKeeps, DisownKeeps, StreamClosesKeeps DEF StreamNext
<1>2. CASE MainNext \/ AbortTimeout
  BY <1>2, StartKeeps, AbortKeeps, GroupEndsKeeps DEF MainNext
<1>3. CASE LanguageNext
  BY <1>3, LanguageKeeps DEF LanguageNext
<1>4. CASE AudioNext \/ Delta \/ StreamFails
  BY <1>4, SendAudioKeeps, TranscriptKeeps, StreamOverKeeps DEF AudioNext
<1>5. CASE TranslateNext
  BY <1>5, AskingKeeps, AnswerKeeps DEF TranslateNext
<1>6. CASE UNCHANGED previewVars
  <2>1. UNCHANGED <<main, how, queued, finished, offered, sent, lpc, spc, tpc, language>>
        /\ UNCHANGED <<latest, changed, streamFinished, calls, lastSource, translated>>
        /\ UNCHANGED <<lastEmitted, previewing, cancelled, current, closed, shown>>
    BY <1>6 DEF previewVars, audioVars, textVars, translateVars, ownerVars
  <2>2. PreviewTypeOK'
    BY <2>1 DEF PreviewIInv, PreviewTypeOK
  <2>3. TranslationFits' /\ Complete' /\ PublishedKept' /\ TasksKept' /\ TranslatorKept' /\ OutcomeStays
    BY <2>1 DEF PreviewIInv, TranslationFits, Complete, PublishedKept, TasksKept, TranslatorKept, OutcomeStays
  <2> QED BY <2>2, <2>3 DEF PreviewIInv
<1> QED BY <1>1, <1>2, <1>3, <1>4, <1>5, <1>6 DEF PreviewNext

(* What a client sees of the preview of an utterance is a text with a translation of
   its beginning, a job that ends by itself has published the whole transcript and
   asked for its translation, and nothing is shown after the outcome of the utterance:
   for a transcript and an audio of any length (realtime_preview.py, stream.py
   _emit and _offer_realtime_preview).                                       *)
THEOREM PreviewCorrect ==
  ASSUME BoundAssumption
  PROVE  PreviewSpec => PreviewShows
<1>1. PreviewInit => PreviewIInv
  BY PreviewInitially
<1>2. PreviewIInv /\ [PreviewNext]_previewVars => PreviewIInv' /\ [PreviewInv' /\ OutcomeStays]_previewVars
  <2> SUFFICES ASSUME PreviewIInv, PreviewNext \/ UNCHANGED previewVars
               PROVE  PreviewIInv' /\ PreviewInv' /\ OutcomeStays
    OBVIOUS
  <2> QED BY PreviewStep DEF PreviewIInv, PreviewInv
<1> QED BY <1>1, <1>2, PTL DEF PreviewSpec, PreviewShows
=============================================================================
