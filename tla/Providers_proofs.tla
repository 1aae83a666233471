--------------------------- MODULE Providers_proofs ---------------------------
(***************************************************************************)
(* What calls a provider, for every number of calls and every configured   *)
(* limit: an inductive invariant of each of the five parts, from what the  *)
(* operations of the semaphore do, and then their theorems.                *)
(***************************************************************************)
EXTENDS Providers, AsyncSemaphore_proofs

(***************************************************************************)
(* The gate of the profile executions.                                     *)
(***************************************************************************)
Stages == {"new", "returned", "racing", "streaming", "cleaning", "done"}
Works == {"none", "created", "queued", "yielding", "provider", "closing",
          "reporting", "finishing", "ended"}
Parts == {"field", "result", "error", "end"}

Types ==
  /\ stage \in [Requests -> Stages] /\ work \in [Requests -> Works]
  /\ kind \in [Requests -> {"plain", "stream"}]
  /\ cancelled \subseteq Requests /\ gone \subseteq Requests /\ observed \subseteq gone
  /\ items \in [Requests -> Seq(Parts)]
  /\ \A c \in Requests : Len(items[c]) <= StreamQueue

(* Where a request is says whether its task exists; only one that is being cleaned up
   has been cancelled, and only a plain one is watched.                      *)
Course ==
  \A c \in Requests :
    /\ stage[c] \in {"new", "returned"} => work[c] = "none"
    /\ stage[c] \in {"racing", "streaming", "cleaning"} => work[c] # "none"
    /\ stage[c] = "racing" => kind[c] = "plain"
    /\ c \in observed => kind[c] = "plain" /\ stage[c] # "new"
    /\ c \in cancelled => stage[c] = "cleaning" /\ work[c] \notin {"none", "ended"}

(* Who holds a slot and who waits for one.                                   *)
TasksHolding == { c \in Requests : work[c] \in {"yielding", "provider", "closing"} }
Queued == { c \in Requests : work[c] = "queued" }
SlotsOfTasks ==
  /\ Orderly(slots, Requests, Concurrency)
  /\ slots.held = TasksHolding /\ Waiters(slots) = Queued

Admission ==
  /\ admitted \in 0 .. Concurrency + MaxQueue
  /\ AdmittedCovers

IInv == Types /\ Course /\ SlotsOfTasks /\ Admission

-----------------------------------------------------------------------------
LEMMA Initially == ASSUME GateAssumption, Init PROVE IInv
<1>1. Types /\ Course
  <2>1. <<>> \in Seq(Parts) /\ Len(<<>>) = 0
    BY EmptySeq, LenProperties
  <2> QED BY <2>1 DEF Init, Types, Course, Stages, Works, GateAssumption
<1>2. SlotsOfTasks
  BY SemaphoreOrderly DEF Init, SlotsOfTasks, TasksHolding, Queued, GateAssumption
<1>3. Admission
  <2>1. UnderWay = {}
    BY DEF Init, UnderWay
  <2> QED BY <2>1, FS_EmptySet DEF Init, Admission, AdmittedCovers, GateAssumption
<1> QED BY <1>1, <1>2, <1>3 DEF IInv

(* The queue of a stream grows by one place, or gives up its first.          *)
LEMMA PutType ==
  ASSUME Types, GateAssumption, NEW c \in Requests, HasRoom(c), NEW i \in Parts, Put(c, i)
  PROVE  /\ items' \in [Requests -> Seq(Parts)]
         /\ \A d \in Requests : Len(items'[d]) <= StreamQueue
<1>1. items[c] \in Seq(Parts) /\ Len(items[c]) \in Nat
  BY LenProperties DEF Types
<1>2. Append(items[c], i) \in Seq(Parts) /\ Len(Append(items[c], i)) = Len(items[c]) + 1
  BY <1>1, AppendProperties
<1>3. Len(items[c]) + 1 <= StreamQueue
  BY <1>1 DEF HasRoom, GateAssumption
<1>4. items' = [items EXCEPT ![c] = Append(items[c], i)]
  BY DEF Put
<1> QED BY <1>2, <1>3, <1>4 DEF Types

LEMMA TakeType ==
  ASSUME Types, GateAssumption, NEW c \in Requests, items[c] # <<>>,
         items' = [items EXCEPT ![c] = Tail(@)]
  PROVE  /\ items' \in [Requests -> Seq(Parts)]
         /\ \A d \in Requests : Len(items'[d]) <= StreamQueue
<1>1. items[c] \in Seq(Parts) /\ Len(items[c]) \in Nat /\ Len(items[c]) <= StreamQueue
  BY LenProperties DEF Types
<1>2. Tail(items[c]) \in Seq(Parts) /\ Len(Tail(items[c])) = Len(items[c]) - 1
  BY <1>1, HeadTailProperties
<1>3. Len(Tail(items[c])) <= StreamQueue
  BY <1>1, <1>2 DEF GateAssumption
<1> QED BY <1>2, <1>3 DEF Types

LEMMA TypesKept ==
  ASSUME Types, GateAssumption, [Next]_vars
  PROVE  Types'
<1>1. ASSUME NEW c \in Requests, Steps(c)
      PROVE  /\ stage' \in [Requests -> Stages] /\ work' \in [Requests -> Works]
             /\ kind' \in [Requests -> {"plain", "stream"}]
             /\ cancelled' \subseteq Requests
             /\ gone' \subseteq Requests /\ observed' \subseteq gone'
  <2> USE <1>1 DEF Types, Stages, Works, To, clientVars
  <2>1. CASE Admit(c) \/ Begin(c) \/ Disconnect(c)
    BY <2>1 DEF Admit, Begin, Disconnect, UnderWay
  <2>2. CASE Ask(c) \/ Granted(c) \/ Execute(c) \/ ExecutionEnds(c)
    BY <2>2 DEF Ask, Granted, Execute, ExecutionEnds, Settled
  <2>3. CASE Produce(c) \/ ProducerLeaves(c) \/ Report(c) \/ Finish(c)
    BY <2>3 DEF Produce, ProducerLeaves, Report, Finish
  <2>4. CASE WorkCancelled(c) \/ Watch(c)
    BY <2>4 DEF WorkCancelled, Watch
  <2>5. CASE RaceEnds(c) \/ DeadlinePasses(c) \/ ResponseCancelled(c)
    BY <2>5 DEF RaceEnds, DeadlinePasses, ResponseCancelled, Cleanup
  <2>6. CASE Send(c)
    BY <2>6 DEF Send, Cleanup
  <2>7. CASE Cleaned(c) \/ CleanupCancelled(c)
    BY <2>7 DEF Cleaned, CleanupCancelled
  <2> QED BY <2>1, <2>2, <2>3, <2>4, <2>5, <2>6, <2>7 DEF Steps
<1>2. ASSUME NEW c \in Requests, Steps(c)
      PROVE  /\ items' \in [Requests -> Seq(Parts)]
             /\ \A d \in Requests : Len(items'[d]) <= StreamQueue
  <2>1. CASE UNCHANGED items
    BY <2>1 DEF Types
  <2>2. CASE \E i \in Parts : HasRoom(c) /\ Put(c, i)
    BY <2>2, PutType
  <2>3. CASE items[c] # <<>> /\ items' = [items EXCEPT ![c] = Tail(@)]
    BY <2>3, TakeType
  <2>4. CASE Send(c)
    BY <2>3, <2>4 DEF Send
  <2>5. CASE Produce(c) \/ Report(c) \/ Finish(c)
    BY <2>2, <2>5 DEF Produce, Report, Finish, Parts
  <2>6. CASE \/ Admit(c) \/ Begin(c) \/ Disconnect(c)
             \/ Ask(c) \/ Granted(c) \/ Execute(c) \/ ExecutionEnds(c)
             \/ ProducerLeaves(c) \/ WorkCancelled(c)
             \/ Watch(c) \/ RaceEnds(c) \/ DeadlinePasses(c)
             \/ ResponseCancelled(c) \/ Cleaned(c) \/ CleanupCancelled(c)
    BY <2>1, <2>6 DEF Admit, Begin, Disconnect, Ask, Granted, Execute, ExecutionEnds,
       ProducerLeaves, WorkCancelled, Watch, RaceEnds, DeadlinePasses, ResponseCancelled,
       Cleaned, CleanupCancelled
  <2> QED BY <1>2, <2>4, <2>5, <2>6 DEF Steps
<1>3. CASE UNCHANGED vars
  BY <1>3 DEF vars, clientVars, Types
<1> QED BY <1>1, <1>2, <1>3 DEF Next, Rests, Types

LEMMA CourseKept ==
  ASSUME Types, Course, [Next]_vars
  PROVE  Course'
<1>1. ASSUME NEW c \in Requests, Steps(c) PROVE Course'
  <2> USE <1>1 DEF Types, Course, To, clientVars
  <2>1. CASE Admit(c) \/ Begin(c) \/ Disconnect(c)
    BY <2>1 DEF Admit, Begin, Disconnect, UnderWay
  <2>2. CASE Ask(c) \/ Granted(c) \/ Execute(c) \/ ExecutionEnds(c)
    BY <2>2 DEF Ask, Granted, Execute, ExecutionEnds, Settled, Runs
  <2>3. CASE Produce(c) \/ ProducerLeaves(c) \/ Report(c) \/ Finish(c)
    BY <2>3 DEF Produce, ProducerLeaves, Report, Finish, Runs
  <2>4. CASE WorkCancelled(c) \/ Watch(c)
    BY <2>4 DEF WorkCancelled, Watch
  <2>5. CASE RaceEnds(c) \/ DeadlinePasses(c) \/ ResponseCancelled(c)
    BY <2>5 DEF RaceEnds, DeadlinePasses, ResponseCancelled, Cleanup
  <2>6. CASE Send(c)
    BY <2>6 DEF Send, Cleanup
  <2>7. CASE Cleaned(c) \/ CleanupCancelled(c)
    BY <2>7 DEF Cleaned, CleanupCancelled, CountedOut
  <2> QED BY <2>1, <2>2, <2>3, <2>4, <2>5, <2>6, <2>7 DEF Steps
<1>2. CASE UNCHANGED vars
  BY <1>2 DEF vars, clientVars, Course
<1> QED BY <1>1, <1>2 DEF Next, Rests

-----------------------------------------------------------------------------
(* A task asks for a slot.                                                   *)
LEMMA AskKeeps ==
  ASSUME GateAssumption, Types, SlotsOfTasks, NEW c \in Requests, Ask(c)
  PROVE  SlotsOfTasks'
<1>1. /\ Orderly(slots', Requests, Concurrency)
      /\ slots'.held = IF Locked(slots) THEN slots.held ELSE slots.held \cup {c}
      /\ Waiters(slots') = IF Locked(slots) THEN Waiters(slots) \cup {c} ELSE Waiters(slots)
  <2>1. c \notin slots.held /\ c \notin Waiters(slots)
    BY DEF Ask, SlotsOfTasks, TasksHolding, Queued
  <2>2. slots' = Acquire(slots, c) /\ Orderly(slots, Requests, Concurrency)
    BY DEF Ask, SlotsOfTasks
  <2>3. IsFiniteSet(Requests) /\ Concurrency \in Nat
    BY DEF GateAssumption
  <2> QED BY <2>1, <2>2, <2>3, AcquireCorrect
<1>2. TasksHolding' = IF Locked(slots) THEN TasksHolding ELSE TasksHolding \cup {c}
  BY DEF Ask, Settled, TasksHolding, Types, Works, To
<1>3. Queued' = IF Locked(slots) THEN Queued \cup {c} ELSE Queued
  BY DEF Ask, Settled, Queued, Types, Works, To
<1> QED BY <1>1, <1>2, <1>3 DEF SlotsOfTasks

(* A waiting task has been given one.                                        *)
LEMMA GrantedKeeps ==
  ASSUME GateAssumption, Types, SlotsOfTasks, NEW c \in Requests, Granted(c)
  PROVE  SlotsOfTasks'
<1>1. /\ Orderly(slots', Requests, Concurrency)
      /\ slots'.held = slots.held \cup {c} /\ Waiters(slots') = Waiters(slots) \ {c}
  <2>1. c \in slots.woken /\ slots' = Resumed(slots, c)
        /\ Orderly(slots, Requests, Concurrency)
    BY DEF Granted, SlotsOfTasks
  <2>2. IsFiniteSet(Requests) /\ Concurrency \in Nat
    BY DEF GateAssumption
  <2> QED BY <2>1, <2>2, ResumedCorrect
<1>2. TasksHolding' = TasksHolding \cup {c} /\ Queued' = Queued \ {c}
  BY DEF Granted, Settled, TasksHolding, Queued, Types, Works, To
<1> QED BY <1>1, <1>2 DEF SlotsOfTasks

(* A task leaves its slot.                                                   *)
LEMMA ReleaseKeeps ==
  ASSUME GateAssumption, Types, SlotsOfTasks, NEW c \in Requests,
         c \in TasksHolding, slots' = Release(slots, c),
         NEW w \in Works \ {"yielding", "provider", "closing", "queued"},
         work' = To(work, c, w)
  PROVE  SlotsOfTasks'
<1>1. /\ Orderly(slots', Requests, Concurrency)
      /\ slots'.held = slots.held \ {c} /\ Waiters(slots') = Waiters(slots)
  <2>1. c \in slots.held /\ Orderly(slots, Requests, Concurrency)
    BY DEF SlotsOfTasks
  <2>2. IsFiniteSet(Requests) /\ Concurrency \in Nat
    BY DEF GateAssumption
  <2> QED BY <2>1, <2>2, ReleaseCorrect
<1>2. TasksHolding' = TasksHolding \ {c} /\ Queued' = Queued
  BY DEF TasksHolding, Queued, Types, Works, To
<1> QED BY <1>1, <1>2 DEF SlotsOfTasks

(* A cancelled task leaves its slot, or its place in the queue.              *)
LEMMA WorkCancelledKeeps ==
  ASSUME GateAssumption, Types, SlotsOfTasks, NEW c \in Requests, WorkCancelled(c)
  PROVE  SlotsOfTasks'
<1>1. work' = To(work, c, "ended") /\ slots' = Unwound(c) /\ "ended" \in Works
  BY DEF WorkCancelled, Works
<1>2. CASE work[c] = "queued"
  <2>1. c \in Waiters(slots) /\ slots' = Abandon(slots, c)
        /\ Orderly(slots, Requests, Concurrency)
    BY <1>1, <1>2 DEF SlotsOfTasks, Queued, Unwound
  <2>2. IsFiniteSet(Requests) /\ Concurrency \in Nat
    BY DEF GateAssumption
  <2>3. /\ Orderly(slots', Requests, Concurrency)
        /\ slots'.held = slots.held /\ Waiters(slots') = Waiters(slots) \ {c}
    BY <2>1, <2>2, AbandonCorrect
  <2>4. TasksHolding' = TasksHolding /\ Queued' = Queued \ {c}
    BY <1>1, <1>2 DEF TasksHolding, Queued, Types, Works, To
  <2> QED BY <2>3, <2>4 DEF SlotsOfTasks
<1>3. CASE work[c] # "queued" /\ c \in slots.held
  <2>1. c \in TasksHolding /\ slots' = Release(slots, c)
    BY <1>1, <1>3 DEF SlotsOfTasks, Unwound
  <2> QED BY <1>1, <2>1, ReleaseKeeps
<1>4. CASE work[c] # "queued" /\ c \notin slots.held
  <2>1. slots' = slots /\ c \notin TasksHolding
    BY <1>1, <1>4 DEF SlotsOfTasks, Unwound
  <2>2. TasksHolding' = TasksHolding /\ Queued' = Queued
    BY <1>1, <1>4, <2>1 DEF TasksHolding, Queued, Types, Works, To
  <2> QED BY <2>1, <2>2 DEF SlotsOfTasks
<1> QED BY <1>2, <1>3, <1>4

LEMMA SlotsKept ==
  ASSUME GateAssumption, Types, Course, SlotsOfTasks, [Next]_vars
  PROVE  SlotsOfTasks'
<1>1. ASSUME NEW c \in Requests, Steps(c) PROVE SlotsOfTasks'
  <2>1. CASE UNCHANGED slots /\ TasksHolding' = TasksHolding /\ Queued' = Queued
    BY <2>1 DEF SlotsOfTasks
  <2>2. CASE \/ Admit(c) \/ Begin(c) \/ Disconnect(c) \/ Watch(c) \/ RaceEnds(c)
             \/ DeadlinePasses(c) \/ Send(c) \/ ResponseCancelled(c)
             \/ Cleaned(c) \/ CleanupCancelled(c)
    <3>1. CASE Admit(c) \/ Begin(c)
      BY <2>1, <3>1 DEF Admit, Begin, TasksHolding, Queued, Types, Works, Course, To
    <3>2. CASE UNCHANGED <<work, slots>>
      BY <2>1, <3>2 DEF TasksHolding, Queued
    <3> QED BY <2>2, <3>1, <3>2
            DEF Disconnect, Watch, RaceEnds, DeadlinePasses, Send, ResponseCancelled,
                Cleaned, CleanupCancelled
  <2>3. CASE Ask(c)
    BY <2>3, AskKeeps
  <2>4. CASE Granted(c)
    BY <2>4, GrantedKeeps
  <2>5. CASE Execute(c)
    <3>1. CASE work' = To(work, c, "provider") /\ UNCHANGED slots
      BY <2>1, <2>5, <3>1 DEF Execute, TasksHolding, Queued, Types, Works, To
    <3>2. CASE work' = To(work, c, "ended") /\ slots' = Release(slots, c)
      BY <2>5, <3>2, ReleaseKeeps DEF Execute, TasksHolding, Works
    <3> QED BY <2>5, <3>1, <3>2 DEF Execute
  <2>6. CASE ExecutionEnds(c)
    BY <2>6, ReleaseKeeps DEF ExecutionEnds, TasksHolding, Works
  <2>7. CASE Produce(c)
    BY <2>1, <2>7 DEF Produce, TasksHolding, Queued, Types, Works, To
  <2>8. CASE ProducerLeaves(c)
    <3>1. c \in TasksHolding /\ slots' = Release(slots, c)
          /\ \E w \in {"finishing", "reporting"} : work' = To(work, c, w)
      BY <2>8 DEF ProducerLeaves, LeaveSlot, TasksHolding
    <3> QED BY <3>1, ReleaseKeeps DEF Works
  <2>9. CASE Report(c) \/ Finish(c)
    BY <2>1, <2>9 DEF Report, Finish, TasksHolding, Queued, Types, Works, To
  <2>10. CASE WorkCancelled(c)
    BY <2>10, WorkCancelledKeeps
  <2> QED BY <1>1, <2>2, <2>3, <2>4, <2>5, <2>6, <2>7, <2>8, <2>9, <2>10 DEF Steps
<1>2. CASE UNCHANGED vars
  BY <1>2 DEF vars, SlotsOfTasks, TasksHolding, Queued
<1> QED BY <1>1, <1>2 DEF Next, Rests

-----------------------------------------------------------------------------
(* Admission.                                                                *)

(* A request that is counted in or out changes the number under way by one.  *)
LEMMA OneMoreOrLess ==
  ASSUME GateAssumption, NEW S \in SUBSET Requests, NEW c \in Requests
  PROVE  /\ Cardinality(S) \in Nat /\ Cardinality(S \cup {c}) \in Nat
         /\ Cardinality(S \cup {c}) <= Cardinality(S) + 1
         /\ c \in S => Cardinality(S \ {c}) = Cardinality(S) - 1 /\ Cardinality(S) > 0
<1>1. IsFiniteSet(S) /\ Cardinality(S) \in Nat
  BY FS_Subset, FS_CardinalityType DEF GateAssumption
<1>2. Cardinality(S \cup {c}) = IF c \in S THEN Cardinality(S) ELSE Cardinality(S) + 1
  BY <1>1, FS_AddElement
<1>3. c \in S => Cardinality(S \ {c}) = Cardinality(S) - 1
  BY <1>1, FS_RemoveElement
<1>4. c \in S => Cardinality(S \ {c}) \in Nat
  <2>1. S \ {c} \in SUBSET Requests
    OBVIOUS
  <2> QED BY <2>1, FS_Subset, FS_CardinalityType DEF GateAssumption
<1> QED BY <1>1, <1>2, <1>3, <1>4

LEMMA AdmissionKept ==
  ASSUME GateAssumption, Types, Course, Admission, [Next]_vars
  PROVE  Admission'
<1>1. /\ admitted \in Int /\ 0 <= admitted /\ admitted <= Concurrency + MaxQueue
      /\ Concurrency \in Int /\ MaxQueue \in Int /\ UnderWay \in SUBSET Requests
      /\ Cardinality(UnderWay) <= admitted
  BY DEF Admission, AdmittedCovers, GateAssumption, UnderWay
<1>2. ASSUME NEW c \in Requests, Steps(c) PROVE Admission'
  <2>1. ASSUME \A d \in Requests : work'[d] \notin {"none", "ended"} => d \in UnderWay',
               admitted' \in 0 .. Concurrency + MaxQueue, Cardinality(UnderWay') <= admitted'
        PROVE  Admission'
    BY <2>1 DEF Admission, AdmittedCovers
  <2>2. \A d \in Requests : work'[d] \notin {"none", "ended"} => d \in UnderWay'
    <3> USE <1>2 DEF Types, Course, Admission, AdmittedCovers, UnderWay, To, clientVars
    <3>1. CASE Admit(c) \/ Begin(c) \/ Disconnect(c)
      BY <3>1 DEF Admit, Begin, Disconnect
    <3>2. CASE Ask(c) \/ Granted(c) \/ Execute(c) \/ ExecutionEnds(c)
      BY <3>2 DEF Ask, Granted, Execute, ExecutionEnds, Settled
    <3>3. CASE Produce(c) \/ ProducerLeaves(c) \/ Report(c) \/ Finish(c)
      BY <3>3 DEF Produce, ProducerLeaves, Report, Finish
    <3>4. CASE WorkCancelled(c) \/ Watch(c)
      BY <3>4 DEF WorkCancelled, Watch
    <3>5. CASE RaceEnds(c) \/ DeadlinePasses(c) \/ ResponseCancelled(c) \/ Send(c)
      BY <3>5 DEF RaceEnds, DeadlinePasses, ResponseCancelled, Send, Cleanup
    <3>6. CASE Cleaned(c) \/ CleanupCancelled(c)
      BY <3>6 DEF Cleaned, CleanupCancelled, CountedOut
    <3> QED BY <3>1, <3>2, <3>3, <3>4, <3>5, <3>6 DEF Steps
  <2>3. CASE Admit(c)
    <3>1. UnderWay' = UnderWay \cup {c} /\ admitted' = admitted + 1
          /\ admitted < Concurrency + MaxQueue
      <4>1. /\ \E s \in {"racing", "returned"} : stage' = To(stage, c, s)
            /\ admitted' = admitted + 1 /\ admitted < Concurrency + MaxQueue
        BY <2>3 DEF Admit, MayEnter
      <4>2. UnderWay' = UnderWay \cup {c}
        BY <4>1 DEF UnderWay, Types, Stages, To
      <4> QED BY <4>1, <4>2
    <3>2. Cardinality(UnderWay') <= admitted + 1
      <4>1. /\ Cardinality(UnderWay) \in Nat /\ Cardinality(UnderWay \cup {c}) \in Nat
            /\ Cardinality(UnderWay \cup {c}) <= Cardinality(UnderWay) + 1
        BY <1>1, OneMoreOrLess
      <4> QED BY <1>1, <3>1, <4>1
    <3> QED BY <1>1, <2>1, <2>2, <3>1, <3>2
  <2>4. CASE Cleaned(c)
    <3>1. UnderWay' = UnderWay \ {c} /\ admitted' = admitted - 1 /\ c \in UnderWay
      BY <2>4 DEF Cleaned, UnderWay, Types, Stages, To
    <3>2. Cardinality(UnderWay') = Cardinality(UnderWay) - 1 /\ Cardinality(UnderWay) > 0
          /\ Cardinality(UnderWay) \in Nat
      BY <1>1, <3>1, OneMoreOrLess
    <3> QED BY <1>1, <2>1, <2>2, <3>1, <3>2
  <2>5. CASE CleanupCancelled(c)
    <3>1. UnderWay' = UnderWay \ {c} /\ admitted' = admitted /\ c \in UnderWay
      BY <2>5 DEF CleanupCancelled, UnderWay, Types, Stages, To
    <3>2. Cardinality(UnderWay') = Cardinality(UnderWay) - 1
          /\ Cardinality(UnderWay) \in Nat
      BY <1>1, <3>1, OneMoreOrLess
    <3> QED BY <1>1, <2>1, <2>2, <3>1, <3>2
  <2>6. CASE UnderWay' = UnderWay /\ admitted' = admitted
    BY <1>1, <2>1, <2>2, <2>6
  <2>7. CASE \/ Begin(c) \/ RaceEnds(c) \/ DeadlinePasses(c) \/ Send(c) \/ ResponseCancelled(c)
    <3>1. UnderWay' = UnderWay /\ admitted' = admitted
      BY <2>7 DEF Begin, RaceEnds, DeadlinePasses, Send, ResponseCancelled, Cleanup,
                  UnderWay, Types, Stages, To
    <3> QED BY <2>6, <3>1
  <2>8. CASE \/ Disconnect(c) \/ Ask(c) \/ Granted(c) \/ Execute(c) \/ ExecutionEnds(c)
             \/ Produce(c) \/ ProducerLeaves(c) \/ Report(c) \/ Finish(c)
             \/ WorkCancelled(c) \/ Watch(c)
    <3>1. UNCHANGED <<stage, admitted>>
      BY <2>8 DEF Disconnect, Ask, Granted, Execute, ExecutionEnds, Produce, ProducerLeaves,
                  Report, Finish, WorkCancelled, Watch
    <3> QED BY <2>6, <3>1 DEF UnderWay
  <2> QED BY <1>2, <2>3, <2>4, <2>5, <2>7, <2>8 DEF Steps
<1>3. CASE UNCHANGED vars
  BY <1>3 DEF vars, Admission, AdmittedCovers, UnderWay
<1> QED BY <1>2, <1>3 DEF Next, Rests

-----------------------------------------------------------------------------
LEMMA Inductive == ASSUME GateAssumption PROVE Spec => []IInv
<1>1. Init => IInv
  BY Initially
<1>2. IInv /\ [Next]_vars => IInv'
  BY TypesKept, CourseKept, SlotsKept, AdmissionKept DEF IInv
<1> QED BY <1>1, <1>2, PTL DEF Spec

-----------------------------------------------------------------------------
(***************************************************************************)
(* The pool of the providers.                                              *)
(***************************************************************************)
Here(place, s) == { c \in In(place) : Slot(c) = s }

(* A call has a plan of providers that serve it, and while it waits or is calling, a first. *)
PoolShape ==
  /\ at \in [PoolCalls -> {"new", "sleeping", "waiting", "calling"} \cup PoolEnds]
  /\ plan \in [PoolCalls -> Seq(Slots)]
  /\ \A c \in PoolCalls : plan[c] \in Seq(Serves[c])
  /\ \A c \in PoolCalls : at[c] \in {"waiting", "calling"} => plan[c] # <<>>
  /\ tried \subseteq PoolCalls /\ cooling \subseteq Slots /\ due \subseteq In("sleeping")

(* The semaphores m as they are when c has no place and waits for none.      *)
Without(m, c) ==
  /\ m = [s \in Slots |-> m[s]]
  /\ \A s \in Slots :
       /\ Orderly(m[s], PoolCalls, SlotConcurrency[s])
       /\ m[s].held = Here("calling", s) \ {c} /\ Waiters(m[s]) = Here("waiting", s) \ {c}

PlacesKept ==
  /\ sem = [s \in Slots |-> sem[s]]
  /\ \A s \in Slots :
       /\ Orderly(sem[s], PoolCalls, SlotConcurrency[s])
       /\ sem[s].held = Here("calling", s) /\ Waiters(sem[s]) = Here("waiting", s)

Counted ==
  /\ active = [s \in Slots |-> active[s]]
  /\ \A s \in Slots : active[s] = Cardinality(Here("calling", s))

PoolIInv == PoolShape /\ PlacesKept /\ Counted

-----------------------------------------------------------------------------
LEMMA SlotsAreFinite == ASSUME PoolAssumption PROVE IsFiniteSet(Slots)
<1>1. Len(Docked) \in Nat /\ DOMAIN Docked = 1 .. Len(Docked)
  BY LenProperties DEF PoolAssumption
<1>2. IsFiniteSet(1 .. Len(Docked))
  BY <1>1, FS_Interval
<1>3. Docked \in Surjection(1 .. Len(Docked), Slots)
  BY <1>1 DEF PoolAssumption, Slots, ToSet, Surjection
<1> QED BY <1>2, <1>3, FS_Surjection

(* What is sorted are providers that serve the call.                         *)
LEMMA CandidatesServe ==
  ASSUME PoolAssumption, NEW c \in PoolCalls, NEW p \in Candidates(c)
  PROVE  p \in Seq(Serves[c])
<1>1. Serves[c] \subseteq Slots
  BY DEF PoolAssumption
<1>2. IsFiniteSet(Serves[c] \ cooling)
  BY <1>1, SlotsAreFinite, FS_Subset
<1>3. Cardinality(Serves[c] \ cooling) \in Nat
  BY <1>2, FS_CardinalityType
<1>4. p \in [1 .. Cardinality(Serves[c] \ cooling) -> Serves[c]]
  BY DEF Candidates, Sorted
<1> QED BY <1>3, <1>4, SeqDef

LEMMA HereIsFinite ==
  ASSUME PoolAssumption, NEW place, NEW s
  PROVE  IsFiniteSet(Here(place, s)) /\ Cardinality(Here(place, s)) \in Nat
<1>1. Here(place, s) \in SUBSET PoolCalls
  BY DEF Here, In
<1> QED BY <1>1, FS_Subset, FS_CardinalityType DEF PoolAssumption

(* A plan from its k-th provider on.                                         *)
LEMMA RestOfPlan ==
  ASSUME NEW T, NEW p \in Seq(T), NEW k \in 1 .. Len(p) + 1
  PROVE  /\ SubSeq(p, k, Len(p)) \in Seq(T)
         /\ k <= Len(p) => /\ SubSeq(p, k, Len(p)) # <<>>
                           /\ Head(SubSeq(p, k, Len(p))) = p[k] /\ p[k] \in T
<1> DEFINE n == Len(p)
           rest == SubSeq(p, k, n)
<1>1. n \in Nat /\ \A i \in 1 .. n : p[i] \in T
  BY LenProperties
<1> HIDE DEF n
<1>2. k \in 1 .. n + 1
  BY DEF n
<1>3. \A i \in k .. n : p[i] \in T
  BY <1>1, <1>2
<1>4. /\ rest \in Seq(T) /\ Len(rest) = IF k <= n THEN n - k + 1 ELSE 0
      /\ \A i \in 1 .. n - k + 1 : rest[i] = p[k + i - 1]
  <2>1. k \in Int /\ n \in Int
    BY <1>1, <1>2
  <2> QED BY <1>3, <2>1, SubSeqProperties
<1> HIDE DEF rest
<1>5. ASSUME k <= n PROVE rest # <<>> /\ Head(rest) = p[k] /\ p[k] \in T
  <2>1. 1 \in 1 .. n - k + 1 /\ k + 1 - 1 = k
    BY <1>1, <1>2, <1>5
  <2>2. rest[1] = p[k + 1 - 1]
    BY <1>4, <2>1
  <2>3. Len(rest) # 0
    BY <1>1, <1>2, <1>4, <1>5
  <2>4. rest # <<>>
    BY <2>3, EmptySeq
  <2>5. Head(rest) = rest[1]
    BY <1>4, <2>4, HeadTailProperties
  <2>6. k \in 1 .. n
    BY <1>1, <1>2, <1>5
  <2> QED BY <1>1, <2>1, <2>2, <2>4, <2>5, <2>6
<1> QED BY <1>4, <1>5 DEF rest, n

(* The loop, up to its next await, does what it did for the others: c gets the place it enters,
   waits for the one it does not, and has none if there is no further provider. *)
LEMMA WalksOn ==
  ASSUME PoolAssumption, PoolShape, NEW c \in PoolCalls, NEW m, Without(m, c),
         NEW p \in Seq(Serves[c]), WalkOn(c, m, p), tried' \subseteq PoolCalls
  PROVE  /\ at' \in [PoolCalls -> {"new", "sleeping", "waiting", "calling"} \cup PoolEnds]
         /\ \A d \in PoolCalls \ {c} : at'[d] = at[d] /\ plan'[d] = plan[d]
         /\ at'[c] \in {"waiting", "calling", "failed", "unavailable"}
         /\ plan' \in [PoolCalls -> Seq(Slots)] /\ plan'[c] \in Seq(Serves[c])
         /\ at'[c] \in {"waiting", "calling"} => plan'[c] # <<>>
         /\ PlacesKept'
         /\ at'[c] = "calling" => Slot(c)' \notin cooling'
         /\ active' = [u \in Slots |-> active[u]
              + (IF at'[c] = "calling" /\ Slot(c)' = u THEN 1 ELSE 0)
              - (IF at[c] = "calling" /\ Slot(c) = u THEN 1 ELSE 0)]
<1>0. Serves[c] \subseteq Slots
  BY DEF PoolAssumption
<1>1. Len(p) \in Nat /\ p \in Seq(Slots) /\ \A i \in 1 .. Len(p) : p[i] \in Serves[c]
  <2>1. Len(p) \in Nat /\ DOMAIN p = 1 .. Len(p) /\ \A i \in 1 .. Len(p) : p[i] \in Serves[c]
    BY LenProperties
  <2> QED BY <1>0, <2>1, SeqDef
<1>2. PICK k \in 1 .. Len(p) + 1 :
        LET s == p[k]
            enters == k <= Len(p) /\ ~Locked(m[s])
        IN /\ k <= Len(p) => ~Skip(m, p, k)
           /\ plan' = [plan EXCEPT ![c] = SubSeq(p, k, Len(p))]
           /\ sem' = IF k <= Len(p) THEN [m EXCEPT ![s] = Acquire(@, c)] ELSE m
           /\ at' = [at EXCEPT ![c] = IF enters THEN "calling"
                                      ELSE IF k <= Len(p) THEN "waiting"
                                      ELSE IF c \in tried' THEN "failed" ELSE "unavailable"]
           /\ active' = [u \in Slots |-> active[u]
                           + (IF enters /\ u = s THEN 1 ELSE 0)
                           - (IF at[c] = "calling" /\ u = Slot(c) THEN 1 ELSE 0)]
  BY DEF WalkOn
<1> DEFINE rest == SubSeq(p, k, Len(p))
<1>3. /\ rest \in Seq(Serves[c]) /\ rest \in Seq(Slots)
      /\ k <= Len(p) => rest # <<>> /\ Head(rest) = p[k] /\ p[k] \in Slots
  BY <1>1, RestOfPlan
<1> HIDE DEF rest
<1>4. plan' = [plan EXCEPT ![c] = rest] /\ plan'[c] = rest
  BY <1>2 DEF rest, PoolShape
<1> DEFINE enters == k <= Len(p) /\ ~Locked(m[p[k]])
<1>5. /\ at' \in [PoolCalls -> {"new", "sleeping", "waiting", "calling"} \cup PoolEnds]
      /\ \A d \in PoolCalls \ {c} : at'[d] = at[d] /\ plan'[d] = plan[d]
      /\ at'[c] = IF enters THEN "calling" ELSE IF k <= Len(p) THEN "waiting"
                  ELSE IF c \in tried' THEN "failed" ELSE "unavailable"
  BY <1>2, <1>4 DEF PoolShape, PoolEnds
<1>6. /\ plan' \in [PoolCalls -> Seq(Slots)] /\ plan'[c] \in Seq(Serves[c])
      /\ at'[c] \in {"waiting", "calling"} => plan'[c] # <<>> /\ Slot(c)' = p[k] /\ k <= Len(p)
  BY <1>3, <1>4, <1>5 DEF PoolShape, Slot
<1>7. \A s \in Slots :
        /\ Here("calling", s)' = (Here("calling", s) \ {c}) \cup (IF enters /\ s = p[k] THEN {c} ELSE {})
        /\ Here("waiting", s)' = (Here("waiting", s) \ {c})
             \cup (IF k <= Len(p) /\ ~enters /\ s = p[k] THEN {c} ELSE {})
  BY <1>5, <1>6 DEF Here, In, Slot
<1>8. PlacesKept'
  <2>1. sem' = [s \in Slots |-> sem'[s]] /\ \A s \in Slots :
          sem'[s] = IF k <= Len(p) /\ s = p[k] THEN Acquire(m[s], c) ELSE m[s]
    BY <1>2, <1>3 DEF Without
  <2>2. ASSUME NEW s \in Slots
        PROVE  /\ Orderly(sem'[s], PoolCalls, SlotConcurrency[s])
               /\ sem'[s].held = Here("calling", s)' /\ Waiters(sem'[s]) = Here("waiting", s)'
    <3>1. /\ Orderly(m[s], PoolCalls, SlotConcurrency[s]) /\ SlotConcurrency[s] \in Nat
          /\ m[s].held = Here("calling", s) \ {c} /\ Waiters(m[s]) = Here("waiting", s) \ {c}
      BY DEF Without, PoolAssumption
    <3> DEFINE n == SlotConcurrency[s]
               was == m[s]
    <3> HIDE DEF n, was
    <3>2. CASE k <= Len(p) /\ s = p[k]
      <4>1. c \notin was.held /\ c \notin Waiters(was) /\ Orderly(was, PoolCalls, n) /\ n \in Nat
        BY <3>1 DEF was, n
      <4>2. /\ Orderly(Acquire(was, c), PoolCalls, n)
            /\ Acquire(was, c).held = IF Locked(was) THEN was.held ELSE was.held \cup {c}
            /\ Waiters(Acquire(was, c)) = IF Locked(was) THEN Waiters(was) \cup {c} ELSE Waiters(was)
        BY <4>1, AcquireCorrect DEF PoolAssumption
      <4> QED BY <1>7, <2>1, <3>1, <3>2, <4>2 DEF was, n
    <3>3. CASE ~(k <= Len(p) /\ s = p[k])
      <4>1. Here("calling", s)' = Here("calling", s) \ {c} /\ Here("waiting", s)' = Here("waiting", s) \ {c}
        <5>1. ~(enters /\ s = p[k])
          BY <3>3
        <5> HIDE DEF enters
        <5> QED BY <1>7, <3>3, <5>1
      <4>2. sem'[s] = m[s]
        BY <2>1, <3>3
      <4> QED BY <3>1, <4>1, <4>2
    <3> QED BY <3>2, <3>3
  <2> QED BY <2>1, <2>2 DEF PlacesKept
<1>9. at'[c] = "calling" => Slot(c)' \notin cooling'
  <2>1. at'[c] = "calling" => enters
    BY <1>5
  <2>2. k <= Len(p) => ~Skip(m, p, k)
    BY <1>2
  <2> QED BY <1>6, <2>1, <2>2 DEF Skip
<1>10. active' = [u \in Slots |-> active[u]
         + (IF at'[c] = "calling" /\ Slot(c)' = u THEN 1 ELSE 0)
         - (IF at[c] = "calling" /\ Slot(c) = u THEN 1 ELSE 0)]
  <2>1. \A u \in Slots : (at'[c] = "calling" /\ Slot(c)' = u) <=> (enters /\ u = p[k])
    BY <1>5, <1>6
  <2>2. active' = [u \in Slots |-> active[u]
                     + (IF enters /\ u = p[k] THEN 1 ELSE 0)
                     - (IF at[c] = "calling" /\ u = Slot(c) THEN 1 ELSE 0)]
    BY <1>2
  <2> HIDE DEF enters
  <2> QED BY <2>1, <2>2
<1> QED BY <1>5, <1>6, <1>8, <1>9, <1>10

-----------------------------------------------------------------------------
(* Everybody but c is where it was.                                          *)
OthersStay(c) ==
  /\ at' \in [PoolCalls -> {"new", "sleeping", "waiting", "calling"} \cup PoolEnds]
  /\ plan' \in [PoolCalls -> Seq(Slots)] /\ plan'[c] \in Seq(Serves[c])
  /\ \A d \in PoolCalls \ {c} : at'[d] = at[d] /\ plan'[d] = plan[d]

(* active_calls goes up where a call begins and down where it ends.          *)
LEMMA CountGoesOn ==
  ASSUME PoolAssumption, PoolShape, Counted, NEW c \in PoolCalls, OthersStay(c),
         active' = [u \in Slots |-> active[u]
           + (IF at'[c] = "calling" /\ Slot(c)' = u THEN 1 ELSE 0)
           - (IF at[c] = "calling" /\ Slot(c) = u THEN 1 ELSE 0)]
  PROVE  Counted'
<1> SUFFICES ASSUME NEW u \in Slots PROVE active'[u] = Cardinality(Here("calling", u)')
  BY DEF Counted
<1> DEFINE was == Here("calling", u)
           is == Here("calling", u)'
<1>1. /\ c \in was <=> at[c] = "calling" /\ Slot(c) = u
      /\ c \in is <=> at'[c] = "calling" /\ Slot(c)' = u
  BY DEF Here, In
<1>2. is = IF c \in is THEN was \cup {c} ELSE was \ {c}
  BY DEF OthersStay, Here, In, Slot
<1>3. active[u] = Cardinality(was) /\ IsFiniteSet(was) /\ Cardinality(was) \in Nat
  BY HereIsFinite DEF Counted
<1>4. active'[u] = active[u] + (IF c \in is THEN 1 ELSE 0) - (IF c \in was THEN 1 ELSE 0)
  BY <1>1
<1> HIDE DEF was, is
<1>5. /\ Cardinality(was \cup {c}) = IF c \in was THEN Cardinality(was) ELSE Cardinality(was) + 1
      /\ Cardinality(was \ {c}) = IF c \in was THEN Cardinality(was) - 1 ELSE Cardinality(was)
  BY <1>3, FS_AddElement, FS_RemoveElement
<1>6. active'[u] = Cardinality(is)
  <2>1. CASE c \in is
    <3>1. is = was \cup {c} /\ active'[u] = active[u] + 1 - (IF c \in was THEN 1 ELSE 0)
      BY <1>2, <1>4, <2>1
    <3> QED BY <1>3, <1>5, <3>1
  <2>2. CASE c \notin is
    <3>1. is = was \ {c} /\ active'[u] = active[u] + 0 - (IF c \in was THEN 1 ELSE 0)
      BY <1>2, <1>4, <2>2
    <3> QED BY <1>3, <1>5, <3>1
  <2> QED BY <2>1, <2>2
<1> QED BY <1>6 DEF is

(* A call that has no place and waits for none leaves the others theirs.     *)
LEMMA PlacesGoOn ==
  ASSUME PoolShape, NEW c \in PoolCalls, OthersStay(c), Without(sem', c),
         at'[c] \notin {"waiting", "calling"}
  PROVE  PlacesKept'
<1>1. \A s \in Slots : /\ Here("calling", s)' = Here("calling", s) \ {c}
                       /\ Here("waiting", s)' = Here("waiting", s) \ {c}
  BY DEF OthersStay, Here, In, Slot
<1>2. /\ sem' = [s \in Slots |-> sem'[s]]
      /\ \A s \in Slots :
           /\ Orderly(sem'[s], PoolCalls, SlotConcurrency[s])
           /\ sem'[s].held = Here("calling", s) \ {c} /\ Waiters(sem'[s]) = Here("waiting", s) \ {c}
  BY DEF Without
<1>3. \A s \in Slots :
        /\ sem'[s].held = Here("calling", s)' /\ Waiters(sem'[s]) = Here("waiting", s)'
  BY <1>1, <1>2
<1> QED BY <1>2, <1>3 DEF PlacesKept

(* What c gives back at its slot, whichever way, leaves the others theirs.   *)
LEMMA GivenBackAt ==
  ASSUME PoolShape, PlacesKept, NEW c \in PoolCalls, at[c] \in {"waiting", "calling"},
         NEW m, Orderly(m, PoolCalls, SlotConcurrency[Slot(c)]),
         m.held = sem[Slot(c)].held \ {c}, Waiters(m) = Waiters(sem[Slot(c)]) \ {c}
  PROVE  Without([sem EXCEPT ![Slot(c)] = m], c)
<1>1. \A s \in Slots \ {Slot(c)} : c \notin Here("calling", s) /\ c \notin Here("waiting", s)
  BY DEF Here
<1>2. sem = [s \in Slots |-> sem[s]]
  BY DEF PlacesKept
<1>3. \A s \in Slots :
        [sem EXCEPT ![Slot(c)] = m][s] = IF s = Slot(c) THEN m ELSE sem[s]
  BY <1>2
<1> QED BY <1>1, <1>2, <1>3 DEF Without, PlacesKept

LEMMA HasSlot ==
  ASSUME PoolAssumption, PoolShape, PlacesKept, NEW c \in PoolCalls,
         at[c] \in {"waiting", "calling"}
  PROVE  /\ Slot(c) \in Slots /\ Slot(c) \in Serves[c]
         /\ SlotConcurrency[Slot(c)] \in Nat /\ IsFiniteSet(PoolCalls)
         /\ Orderly(sem[Slot(c)], PoolCalls, SlotConcurrency[Slot(c)])
         /\ at[c] = "calling" => c \in sem[Slot(c)].held /\ c \notin Waiters(sem[Slot(c)])
         /\ at[c] = "waiting" => c \in Waiters(sem[Slot(c)]) /\ c \notin sem[Slot(c)].held
         /\ Tail(plan[c]) \in Seq(Serves[c])
<1>1. plan[c] \in Seq(Serves[c]) /\ plan[c] # <<>> /\ Serves[c] \subseteq Slots
  BY DEF PoolShape, PoolAssumption
<1>2. Slot(c) \in Serves[c] /\ Tail(plan[c]) \in Seq(Serves[c])
  BY <1>1, HeadTailProperties DEF Slot
<1>3. Slot(c) \in Slots
  BY <1>1, <1>2
<1>4. /\ Orderly(sem[Slot(c)], PoolCalls, SlotConcurrency[Slot(c)])
      /\ sem[Slot(c)].held = Here("calling", Slot(c))
      /\ Waiters(sem[Slot(c)]) = Here("waiting", Slot(c))
  BY <1>3 DEF PlacesKept
<1>5. /\ at[c] = "calling" => c \in Here("calling", Slot(c)) /\ c \notin Here("waiting", Slot(c))
      /\ at[c] = "waiting" => c \in Here("waiting", Slot(c)) /\ c \notin Here("calling", Slot(c))
  BY DEF Here, In
<1> QED BY <1>2, <1>3, <1>4, <1>5 DEF PoolAssumption

LEMMA NoneYet ==
  ASSUME PoolShape, PlacesKept, NEW c \in PoolCalls, at[c] \notin {"waiting", "calling"}
  PROVE  Without(sem, c)
<1>1. \A s \in Slots : c \notin Here("calling", s) /\ c \notin Here("waiting", s)
  BY DEF Here, In
<1> QED BY <1>1 DEF Without, PlacesKept

LEMMA Released ==
  ASSUME PoolAssumption, PoolShape, PlacesKept, NEW c \in PoolCalls, at[c] = "calling"
  PROVE  Without([sem EXCEPT ![Slot(c)] = Release(@, c)], c)
<1> DEFINE n == SlotConcurrency[Slot(c)]
           m == sem[Slot(c)]
<1>1. n \in Nat /\ IsFiniteSet(PoolCalls) /\ Orderly(m, PoolCalls, n) /\ c \in m.held
      /\ c \notin Waiters(m)
  BY HasSlot
<1> HIDE DEF n, m
<1>2. /\ Orderly(Release(m, c), PoolCalls, n)
      /\ Release(m, c).held = m.held \ {c} /\ Waiters(Release(m, c)) = Waiters(m)
  BY <1>1, ReleaseCorrect
<1>3. Waiters(Release(m, c)) = Waiters(m) \ {c}
  BY <1>1, <1>2
<1> QED BY <1>2, <1>3, GivenBackAt DEF m, n

LEMMA Abandoned ==
  ASSUME PoolAssumption, PoolShape, PlacesKept, NEW c \in PoolCalls, at[c] = "waiting"
  PROVE  Without([sem EXCEPT ![Slot(c)] = Abandon(@, c)], c)
<1> DEFINE n == SlotConcurrency[Slot(c)]
           m == sem[Slot(c)]
<1>1. n \in Nat /\ IsFiniteSet(PoolCalls) /\ Orderly(m, PoolCalls, n) /\ c \notin m.held
      /\ c \in Waiters(m)
  BY HasSlot
<1> HIDE DEF n, m
<1>2. /\ Orderly(Abandon(m, c), PoolCalls, n)
      /\ Abandon(m, c).held = m.held /\ Waiters(Abandon(m, c)) = Waiters(m) \ {c}
  BY <1>1, AbandonCorrect
<1>3. Abandon(m, c).held = m.held \ {c}
  BY <1>1, <1>2
<1> QED BY <1>2, <1>3, GivenBackAt DEF m, n

LEMMA PassedOn ==
  ASSUME PoolAssumption, PoolShape, PlacesKept, NEW c \in PoolCalls, at[c] = "waiting",
         c \in sem[Slot(c)].woken
  PROVE  Without([sem EXCEPT ![Slot(c)] = Release(Resumed(@, c), c)], c)
<1> DEFINE n == SlotConcurrency[Slot(c)]
           m == sem[Slot(c)]
<1>1. n \in Nat /\ IsFiniteSet(PoolCalls) /\ Orderly(m, PoolCalls, n) /\ c \notin m.held
      /\ c \in m.woken
  BY HasSlot
<1> HIDE DEF n, m
<1>2. /\ Orderly(Resumed(m, c), PoolCalls, n)
      /\ Resumed(m, c).held = m.held \cup {c} /\ Waiters(Resumed(m, c)) = Waiters(m) \ {c}
  BY <1>1, ResumedCorrect
<1> DEFINE r == Resumed(m, c)
<1> HIDE DEF r
<1>3. /\ Orderly(Release(r, c), PoolCalls, n)
      /\ Release(r, c).held = r.held \ {c} /\ Waiters(Release(r, c)) = Waiters(r)
  <2>1. Orderly(r, PoolCalls, n) /\ c \in r.held
    BY <1>2 DEF r
  <2> QED BY <1>1, <2>1, ReleaseCorrect
<1>4. Release(r, c).held = m.held \ {c} /\ Waiters(Release(r, c)) = Waiters(m) \ {c}
  BY <1>1, <1>2, <1>3 DEF r
<1> QED BY <1>3, <1>4, GivenBackAt DEF r, m, n

-----------------------------------------------------------------------------
(* The steps of a call.                                                      *)
PoolSteps(c) ==
  \/ Invoke(c) \/ Awake(c) \/ Start(c) \/ PassOver(c)
  \/ Conclude(c) \/ TransientFailure(c) \/ Leave(c)

(* What a step of c does to it and to the places.                            *)
StepDone(c) ==
  /\ OthersStay(c)
  /\ at'[c] \in {"waiting", "calling"} => plan'[c] # <<>>
  /\ PlacesKept'
  /\ active' = [u \in Slots |-> active[u]
       + (IF at'[c] = "calling" /\ Slot(c)' = u THEN 1 ELSE 0)
       - (IF at[c] = "calling" /\ Slot(c) = u THEN 1 ELSE 0)]
  /\ at[c] # "calling" /\ at'[c] = "calling" => Slot(c)' \notin cooling

LEMMA StepOfWalk ==
  ASSUME PoolAssumption, PoolIInv, NEW c \in PoolCalls, NEW m, Without(m, c),
         NEW p \in Seq(Serves[c]), WalkOn(c, m, p), tried' \subseteq PoolCalls,
         at[c] = "calling" \/ cooling' = cooling
  PROVE  StepDone(c) /\ at'[c] \in {"waiting", "calling", "failed", "unavailable"}
<1>1. PoolShape
  BY DEF PoolIInv
<1> QED BY <1>1, WalksOn DEF StepDone, OthersStay

LEMMA StepOfCall ==
  ASSUME PoolAssumption, PoolIInv, NEW c \in PoolCalls, PoolSteps(c)
  PROVE  /\ StepDone(c)
         /\ tried' \subseteq PoolCalls /\ cooling' \subseteq Slots
         /\ \A d \in due' : d \in In("sleeping") /\ d # c
<1>0. /\ PoolShape /\ PlacesKept /\ Counted /\ tried \subseteq PoolCalls /\ cooling \subseteq Slots
      /\ \A d \in due : d \in PoolCalls /\ at[d] = "sleeping"
  BY DEF PoolIInv, PoolShape, In
<1>1. CASE Invoke(c)
  <2>1. PICK p \in Candidates(c) :
          \/ p = <<>> /\ at' = [at EXCEPT ![c] = "sleeping"] /\ UNCHANGED <<plan, sem, active>>
          \/ p # <<>> /\ WalkOn(c, sem, p)
    BY <1>1 DEF Invoke
  <2>2. p \in Seq(Serves[c]) /\ Without(sem, c)
    BY <1>0, <1>1, CandidatesServe, NoneYet DEF Invoke
  <2>3. at[c] = "new" /\ UNCHANGED <<tried, cooling, due>>
    BY <1>1 DEF Invoke
  <2>4. CASE p = <<>> /\ at' = [at EXCEPT ![c] = "sleeping"] /\ UNCHANGED <<plan, sem, active>>
    <3>1. OthersStay(c) /\ at'[c] = "sleeping"
      BY <1>0, <2>4 DEF OthersStay, PoolShape
    <3>2. PlacesKept'
      <4>1. Without(sem', c)
        BY <2>2, <2>4
      <4> QED BY <1>0, <3>1, <4>1, PlacesGoOn
    <3>3. active' = [u \in Slots |-> active[u] + 0 - 0]
      BY <1>0, <2>4, HereIsFinite DEF Counted
    <3> QED BY <1>0, <2>3, <3>1, <3>2, <3>3 DEF StepDone, In
  <2>5. CASE p # <<>> /\ WalkOn(c, sem, p)
    <3>1. StepDone(c)
      BY <1>0, <2>2, <2>3, <2>5, StepOfWalk
    <3> QED BY <1>0, <2>3, <3>1 DEF In
  <2> QED BY <2>1, <2>4, <2>5
<1>2. CASE Awake(c)
  <2>1. PICK p \in Candidates(c) : WalkOn(c, sem, p)
    BY <1>2 DEF Awake
  <2>2. p \in Seq(Serves[c]) /\ Without(sem, c)
    BY <1>0, <1>2, CandidatesServe, NoneYet DEF Awake
  <2>3. UNCHANGED <<tried, cooling>> /\ due' = due \ {c}
    BY <1>2 DEF Awake
  <2>4. StepDone(c)
    BY <1>0, <2>1, <2>2, <2>3, StepOfWalk
  <2> QED BY <1>0, <2>3, <2>4 DEF In
<1>3. CASE Start(c)
  <2>1. /\ at[c] = "waiting" /\ c \in sem[Slot(c)].woken /\ Slot(c) \notin cooling
        /\ sem' = [sem EXCEPT ![Slot(c)] = Resumed(@, c)]
        /\ at' = [at EXCEPT ![c] = "calling"]
        /\ active' = [active EXCEPT ![Slot(c)] = @ + 1]
        /\ UNCHANGED <<plan, tried, cooling, due>>
    BY <1>3 DEF Start
  <2> DEFINE s == Slot(c)
  <2>2. OthersStay(c) /\ at'[c] = "calling" /\ plan'[c] # <<>> /\ Slot(c)' = Slot(c)
    BY <1>0, <2>1 DEF OthersStay, PoolShape, Slot
  <2>3. \A u \in Slots :
          /\ Here("calling", u)' = Here("calling", u) \cup (IF u = s THEN {c} ELSE {})
          /\ Here("waiting", u)' = Here("waiting", u) \ (IF u = s THEN {c} ELSE {})
    BY <1>0, <2>1, <2>2 DEF Here, In, Slot, PoolShape
  <2>4. PlacesKept'
    <3> DEFINE n == SlotConcurrency[s]
               m == sem[s]
    <3>1. n \in Nat /\ IsFiniteSet(PoolCalls) /\ Orderly(m, PoolCalls, n) /\ c \in m.woken /\ s \in Slots
      BY <1>0, <2>1, HasSlot
    <3>2. sem' = [u \in Slots |-> sem'[u]]
          /\ \A u \in Slots : sem'[u] = IF u = s THEN Resumed(m, c) ELSE sem[u]
      BY <1>0, <2>1, <3>1 DEF PlacesKept
    <3>3. m.held = Here("calling", s) /\ Waiters(m) = Here("waiting", s)
      BY <1>0, <3>1 DEF PlacesKept
    <3> HIDE DEF n, m
    <3>4. /\ Orderly(Resumed(m, c), PoolCalls, n)
          /\ Resumed(m, c).held = m.held \cup {c} /\ Waiters(Resumed(m, c)) = Waiters(m) \ {c}
      BY <3>1, ResumedCorrect
    <3>5. ASSUME NEW u \in Slots
          PROVE  /\ Orderly(sem'[u], PoolCalls, SlotConcurrency[u])
                 /\ sem'[u].held = Here("calling", u)' /\ Waiters(sem'[u]) = Here("waiting", u)'
      <4>1. CASE u = s
        BY <2>3, <3>1, <3>2, <3>3, <3>4, <4>1 DEF n
      <4>2. CASE u # s
        <5>1. Here("calling", u)' = Here("calling", u) /\ Here("waiting", u)' = Here("waiting", u)
          BY <2>3, <4>2
        <5> QED BY <1>0, <3>2, <4>2, <5>1 DEF PlacesKept
      <4> QED BY <4>1, <4>2
    <3> QED BY <3>2, <3>5 DEF PlacesKept
  <2>5. active' = [u \in Slots |-> active[u] + (IF Slot(c)' = u THEN 1 ELSE 0) - 0]
    <3>1. active' = [u \in Slots |-> IF u = s THEN active[u] + 1 ELSE active[u]]
      BY <1>0, <2>1 DEF Counted
    <3>2. \A u \in Slots : active[u] \in Nat
      BY <1>0, HereIsFinite DEF Counted
    <3> QED BY <2>2, <3>1, <3>2
  <2> QED BY <1>0, <2>1, <2>2, <2>4, <2>5 DEF StepDone, In
<1>4. CASE PassOver(c)
  <2>1. /\ at[c] = "waiting" /\ c \in sem[Slot(c)].woken /\ UNCHANGED <<tried, cooling, due>>
        /\ WalkOn(c, [sem EXCEPT ![Slot(c)] = Release(Resumed(@, c), c)], Tail(plan[c]))
    BY <1>4 DEF PassOver
  <2>2. Without([sem EXCEPT ![Slot(c)] = Release(Resumed(@, c), c)], c)
        /\ Tail(plan[c]) \in Seq(Serves[c])
    BY <1>0, <2>1, PassedOn, HasSlot
  <2>3. StepDone(c)
    BY <1>0, <2>1, <2>2, StepOfWalk
  <2> QED BY <1>0, <2>1, <2>3 DEF In
<1>5. CASE TransientFailure(c)
  <2>1. /\ at[c] = "calling" /\ ActivateCooldown(Slot(c)) /\ tried' = tried \cup {c}
        /\ WalkOn(c, [sem EXCEPT ![Slot(c)] = Release(@, c)], Tail(plan[c]))
    BY <1>5 DEF TransientFailure, FallThrough
  <2>2. Without([sem EXCEPT ![Slot(c)] = Release(@, c)], c)
        /\ Tail(plan[c]) \in Seq(Serves[c]) /\ Slot(c) \in Slots
    BY <1>0, <2>1, Released, HasSlot
  <2>3. StepDone(c)
    BY <1>0, <2>1, <2>2, StepOfWalk
  <2> QED BY <1>0, <2>1, <2>2, <2>3 DEF In, ActivateCooldown, Sleepers
<1>6. CASE Conclude(c) \/ Leave(c)
  <2>1. PICK end \in PoolEnds : at' = [at EXCEPT ![c] = end]
    BY <1>6 DEF Conclude, Leave, PoolEnds
  <2>2. /\ plan' = [plan EXCEPT ![c] = <<>>] /\ UNCHANGED <<tried, cooling>>
        /\ due' = due \/ due' = due \ {c}
        /\ at[c] \in {"sleeping", "waiting", "calling"}
        /\ due' = due => at[c] = "calling" \/ c \notin due
    BY <1>6 DEF Conclude, Leave
  <2>3. OthersStay(c) /\ at'[c] \in PoolEnds
    <3>1. <<>> \in Seq(Slots) /\ <<>> \in Seq(Serves[c])
      BY EmptySeq
    <3> QED BY <1>0, <2>1, <2>2, <3>1 DEF OthersStay, PoolShape
  <2>4. Without(sem', c)
    <3>1. CASE at[c] = "calling"
      <4>1. sem' = [sem EXCEPT ![Slot(c)] = Release(@, c)]
        BY <1>6, <3>1 DEF Conclude, Leave, Concluded
      <4> QED BY <1>0, <3>1, <4>1, Released
    <3>2. CASE at[c] = "waiting"
      <4>1. sem' = [sem EXCEPT ![Slot(c)] = Abandon(@, c)]
        BY <1>6, <3>2 DEF Conclude, Leave
      <4> QED BY <1>0, <3>2, <4>1, Abandoned
    <3>3. CASE at[c] = "sleeping"
      <4>1. sem' = sem
        BY <1>6, <3>3 DEF Conclude, Leave
      <4> QED BY <1>0, <3>3, <4>1, NoneYet
    <3> QED BY <2>2, <3>1, <3>2, <3>3
  <2>5. PlacesKept'
    BY <1>0, <2>3, <2>4, PlacesGoOn DEF PoolEnds
  <2>6. active' = [u \in Slots |-> active[u] + 0 - (IF at[c] = "calling" /\ Slot(c) = u THEN 1 ELSE 0)]
    <3>1. active' = IF at[c] = "calling" THEN [active EXCEPT ![Slot(c)] = @ - 1] ELSE active
      BY <1>6 DEF Conclude, Leave
    <3>2. active' = [u \in Slots |-> IF at[c] = "calling" /\ Slot(c) = u THEN active[u] - 1 ELSE active[u]]
      BY <1>0, <3>1 DEF Counted
    <3>3. \A u \in Slots : active[u] \in Nat
      BY <1>0, HereIsFinite DEF Counted
    <3> QED BY <3>2, <3>3
  <2> QED BY <1>0, <2>2, <2>3, <2>5, <2>6 DEF StepDone, In, PoolEnds
<1> QED BY <1>1, <1>2, <1>3, <1>4, <1>5, <1>6 DEF PoolSteps

-----------------------------------------------------------------------------
LEMMA PoolInitially == ASSUME PoolAssumption, PoolInit PROVE PoolIInv
<1>1. PoolShape
  <2>1. <<>> \in Seq(Slots) /\ \A c \in PoolCalls : <<>> \in Seq(Serves[c])
    BY EmptySeq
  <2> QED BY <2>1 DEF PoolInit, PoolShape
<1>2. \A s \in Slots : Here("calling", s) = {} /\ Here("waiting", s) = {}
  BY DEF PoolInit, Here, In
<1>3. PlacesKept
  <2>1. \A s \in Slots : SlotConcurrency[s] \in Nat /\ sem[s] = Semaphore(SlotConcurrency[s])
    BY DEF PoolInit, PoolAssumption
  <2>2. ASSUME NEW s \in Slots
        PROVE  /\ Orderly(sem[s], PoolCalls, SlotConcurrency[s])
               /\ sem[s].held = {} /\ Waiters(sem[s]) = {}
    <3> DEFINE n == SlotConcurrency[s]
    <3>1. n \in Nat /\ sem[s] = Semaphore(n)
      BY <2>1
    <3> HIDE DEF n
    <3>2. /\ Orderly(Semaphore(n), PoolCalls, n)
          /\ Semaphore(n).held = {} /\ Waiters(Semaphore(n)) = {}
      BY <3>1, SemaphoreOrderly
    <3> QED BY <3>1, <3>2 DEF n
  <2>3. sem = [s \in Slots |-> sem[s]]
    BY DEF PoolInit
  <2> QED BY <1>2, <2>2, <2>3 DEF PlacesKept
<1>4. Counted
  BY <1>2, FS_EmptySet DEF PoolInit, Counted
<1> QED BY <1>1, <1>3, <1>4 DEF PoolIInv

LEMMA PoolKept ==
  ASSUME PoolAssumption, PoolIInv, [PoolNext]_poolVars
  PROVE  PoolIInv' /\ CoolingIsLeftAlone
<1>0. /\ PoolShape /\ PlacesKept /\ Counted
  BY DEF PoolIInv
<1>1. ASSUME NEW c \in PoolCalls, PoolSteps(c) PROVE PoolIInv' /\ CoolingIsLeftAlone
  <2>1. /\ StepDone(c) /\ tried' \subseteq PoolCalls /\ cooling' \subseteq Slots
        /\ \A d \in due' : d \in In("sleeping") /\ d # c
    BY <1>1, StepOfCall
  <2>2. PoolShape'
    <3>1. due' \subseteq In("sleeping")'
      BY <2>1 DEF StepDone, OthersStay, In
    <3> QED BY <1>0, <2>1, <3>1 DEF StepDone, OthersStay, PoolShape
  <2>3. Counted'
    BY <1>0, <2>1, CountGoesOn DEF StepDone
  <2>4. CoolingIsLeftAlone
    BY <1>0, <2>1 DEF StepDone, OthersStay, CoolingIsLeftAlone
  <2> QED BY <2>1, <2>2, <2>3, <2>4 DEF StepDone, PoolIInv
<1>2. ASSUME NEW s \in Slots, CoolsOff(s) PROVE PoolIInv' /\ CoolingIsLeftAlone
  <2>1. UNCHANGED <<at, plan, tried, sem, active>> /\ cooling' \subseteq Slots
    BY <1>0, <1>2 DEF CoolsOff, PoolShape
  <2>2. due' \subseteq In("sleeping")'
    BY <1>0, <1>2, <2>1 DEF CoolsOff, PoolShape, Sleepers, In
  <2> QED BY <1>0, <2>1, <2>2
          DEF PoolIInv, PoolShape, PlacesKept, Counted, Here, In, Slot, CoolingIsLeftAlone
<1>3. ASSUME UNCHANGED poolVars PROVE PoolIInv' /\ CoolingIsLeftAlone
  BY <1>0, <1>3 DEF poolVars, PoolIInv, PoolShape, PlacesKept, Counted, Here, In, Slot,
                    CoolingIsLeftAlone
<1> QED BY <1>1, <1>2, <1>3 DEF PoolNext, PoolSteps, PoolRests

LEMMA PoolInvFollows == ASSUME PoolAssumption, PoolIInv PROVE PoolInv
<1>1. PoolTypes
  <2>1. \A s \in Slots : sem[s] \in Semaphores(PoolCalls, SlotConcurrency[s])
    BY DEF PoolIInv, PlacesKept, Orderly, Kept
  <2>2. DOMAIN sem = Slots
    BY DEF PoolIInv, PlacesKept
  <2>3. active \in [Slots -> Nat]
    <3>1. \A s \in Slots : active[s] \in Nat
      BY HereIsFinite DEF PoolIInv, Counted
    <3> QED BY <3>1 DEF PoolIInv, Counted
  <2> QED BY <2>1, <2>2, <2>3 DEF PoolIInv, PoolShape, PoolTypes
<1>2. PlacesAreCalls
  BY DEF PoolIInv, PlacesKept, Counted, Orderly, Kept, Here, PlacesAreCalls
<1> QED BY <1>1, <1>2 DEF PoolInv

-----------------------------------------------------------------------------
(***************************************************************************)
(* The store of the retried translations.                                  *)
(***************************************************************************)
Answered == { c \in Retries : retryAt[c] = "answered" }
EntriesOf(A) == { e \in [key: Keys, value: A] : Key[e.value] = e.key }
KeptOnce(s) == \A i, j \in 1 .. Len(s) : s[i].key = s[j].key => i = j
(* What is stored is an answer to a call with the key it is stored under.    *)
StoreKept(s) == s \in Seq(EntriesOf(Answered)) /\ KeptOnce(s) /\ Len(s) <= MaxEntries

StoreShape ==
  /\ retryAt \in [Retries -> {"new", "waiting", "translating"} \cup RetryEnds]
  /\ lock \in [Retries -> Retries \cup {NoCall}] /\ locks \in [Keys -> Retries \cup {NoCall}]
  /\ result \in [Retries -> Retries \cup {NoCall}]

With(state, l) == { c \in Retries : retryAt[c] = state /\ lock[c] = l }
(* The calls of one key that are under way share one lock, and it knows them. *)
LocksKept ==
  /\ lockSem = [l \in Retries |-> lockSem[l]]
  /\ \A c \in Retrying : lock[c] \in Retries /\ locks[Key[c]] = lock[c]
  /\ \A l \in Retries :
       /\ Orderly(lockSem[l], Retries, 1)
       /\ lockSem[l].held = With("translating", l) /\ Waiters(lockSem[l]) = With("waiting", l)

StoreIInv == StoreShape /\ StoreKept(entries) /\ LocksKept /\ AnswersFit

-----------------------------------------------------------------------------
(* The store: what is left without a key, and with it put last.              *)
LEMMA OthersKept ==
  ASSUME StoreKept(entries), MaxEntries \in Nat, NEW k
  PROVE  /\ Others(k) \in Seq(EntriesOf(Answered)) /\ KeptOnce(Others(k))
         /\ Len(Others(k)) <= MaxEntries
         /\ \A i \in 1 .. Len(Others(k)) : Others(k)[i].key # k
         /\ Known(k) => /\ Stored(k) \in Answered /\ Key[Stored(k)] = k /\ k \in Keys
                        /\ Len(Others(k)) < MaxEntries
<1> DEFINE T == EntriesOf(Answered)
<1>1. /\ entries \in Seq(T) /\ Len(entries) \in Nat /\ Len(entries) <= MaxEntries
      /\ DOMAIN entries = 1 .. Len(entries) /\ KeptOnce(entries)
      /\ \A i \in 1 .. Len(entries) : entries[i] \in T
  BY LenProperties DEF StoreKept
<1>2. CASE ~Known(k)
  BY <1>1, <1>2 DEF Others, Known
<1>3. CASE Known(k)
  <2> DEFINE n == PlaceOf(k)
             p == RemoveAt(entries, n)
  <2>1. n \in 1 .. Len(entries) /\ entries[n].key = k
    BY <1>1, <1>3 DEF Known, PlaceOf
  <2>2. entries[n] \in T /\ Stored(k) = entries[n].value
    BY <1>1, <2>1 DEF Stored
  <2>3. Stored(k) \in Answered /\ Key[Stored(k)] = k /\ k \in Keys
    BY <2>1, <2>2 DEF EntriesOf
  <2> HIDE DEF n, T
  <2>4. /\ p \in Seq(T) /\ Len(p) = Len(entries) - 1 /\ DOMAIN p = 1 .. Len(p)
        /\ \A i \in 1 .. Len(p) :
             p[i] = entries[WasAt(n, i)] /\ WasAt(n, i) \in 1 .. Len(entries) \ {n}
    BY <1>1, <2>1, OneRemoved
  <2>5. Others(k) = p
    BY <1>3 DEF Others, n
  <2> HIDE DEF p
  <2>6. \A i, j \in 1 .. Len(p) : WasAt(n, i) = WasAt(n, j) => i = j
    BY <1>1, <2>1, <2>4 DEF WasAt
  <2>7. KeptOnce(p)
    BY <1>1, <2>4, <2>6 DEF KeptOnce
  <2>8. \A i \in 1 .. Len(p) : p[i].key # k
    BY <1>1, <2>1, <2>4 DEF KeptOnce
  <2>9. Len(p) < MaxEntries
    BY <1>1, <2>4
  <2> QED BY <1>1, <2>3, <2>4, <2>5, <2>7, <2>8, <2>9 DEF T
<1> QED BY <1>2, <1>3

LEMMA AppendedEntry ==
  ASSUME NEW T, NEW s \in Seq(T), KeptOnce(s), NEW e \in T,
         \A i \in 1 .. Len(s) : s[i].key # e.key
  PROVE  Append(s, e) \in Seq(T) /\ KeptOnce(Append(s, e)) /\ Len(Append(s, e)) = Len(s) + 1
<1> DEFINE p == Append(s, e)
<1>1. Len(s) \in Nat
  BY LenProperties
<1>2. /\ p \in Seq(T) /\ Len(p) = Len(s) + 1
      /\ \A i \in 1 .. Len(s) : p[i] = s[i]
      /\ p[Len(s) + 1] = e
  BY AppendProperties
<1> HIDE DEF p
<1>3. KeptOnce(p)
  <2> SUFFICES ASSUME NEW i \in 1 .. Len(p), NEW j \in 1 .. Len(p), p[i].key = p[j].key, i # j
               PROVE  FALSE
    BY DEF KeptOnce
  <2>1. CASE i \in 1 .. Len(s) /\ j \in 1 .. Len(s)
    BY <1>2, <2>1 DEF KeptOnce
  <2>2. CASE i = Len(s) + 1 /\ j \in 1 .. Len(s)
    BY <1>2, <2>2
  <2>3. CASE j = Len(s) + 1 /\ i \in 1 .. Len(s)
    BY <1>2, <2>3
  <2> QED BY <1>1, <1>2, <2>1, <2>2, <2>3
<1> QED BY <1>2, <1>3 DEF p

(* The least recently used make room.                                        *)
LEMMA Shortened ==
  ASSUME NEW T, NEW s \in Seq(T), KeptOnce(s), MaxEntries \in Nat \ {0}
  PROVE  /\ WithinCapacity(s) \in Seq(T) /\ KeptOnce(WithinCapacity(s))
         /\ Len(WithinCapacity(s)) <= MaxEntries
<1>1. Len(s) \in Nat /\ \A i \in 1 .. Len(s) : s[i] \in T
  BY LenProperties
<1>2. CASE ~(Len(s) > MaxEntries)
  BY <1>1, <1>2 DEF WithinCapacity
<1>3. CASE Len(s) > MaxEntries
  <2> DEFINE n == Len(s)
             first == 1 + n - MaxEntries
             p == SubSeq(s, first, n)
  <2> HIDE DEF n
  <2>1. n \in Nat /\ n > MaxEntries /\ first \in Int /\ first \in 1 .. n
    BY <1>1, <1>3 DEF n
  <2>2. \A i \in first .. n : s[i] \in T
    BY <1>1, <2>1 DEF n
  <2> HIDE DEF first
  <2>3. /\ p \in Seq(T) /\ Len(p) = IF first <= n THEN n - first + 1 ELSE 0
        /\ \A i \in 1 .. n - first + 1 : p[i] = s[first + i - 1]
    BY <2>1, <2>2, SubSeqProperties
  <2> HIDE DEF p
  <2>4. n - first + 1 = MaxEntries /\ Len(p) = MaxEntries
    BY <2>1, <2>3 DEF first
  <2>5. \A i \in 1 .. MaxEntries : p[i] = s[first + i - 1] /\ first + i - 1 \in 1 .. n
    BY <2>1, <2>3, <2>4
  <2>6. KeptOnce(p)
    <3>1. \A i, j \in 1 .. MaxEntries : first + i - 1 = first + j - 1 => i = j
      BY <2>1
    <3>2. \A i, j \in 1 .. n : s[i].key = s[j].key => i = j
      BY DEF KeptOnce, n
    <3>3. \A i, j \in 1 .. MaxEntries : p[i].key = p[j].key => i = j
      BY <2>5, <3>1, <3>2
    <3> QED BY <2>4, <3>3 DEF KeptOnce
  <2>7. WithinCapacity(s) = p
    BY <1>3 DEF WithinCapacity, p, first, n
  <2> QED BY <2>3, <2>4, <2>6, <2>7
<1> QED BY <1>2, <1>3

LEMMA TouchedKept ==
  ASSUME StoreAssumption, StoreKept(entries), NEW k, Known(k)
  PROVE  StoreKept(Touched(k)) /\ Stored(k) \in Answered /\ Key[Stored(k)] = k
<1> DEFINE T == EntriesOf(Answered)
           e == [key |-> k, value |-> Stored(k)]
<1>1. /\ Others(k) \in Seq(T) /\ KeptOnce(Others(k)) /\ Len(Others(k)) < MaxEntries
      /\ \A i \in 1 .. Len(Others(k)) : Others(k)[i].key # k
      /\ Stored(k) \in Answered /\ Key[Stored(k)] = k /\ k \in Keys
  BY OthersKept DEF StoreAssumption
<1>2. e \in T /\ e.key = k
  BY <1>1 DEF EntriesOf
<1> HIDE DEF e, T
<1>3. /\ Append(Others(k), e) \in Seq(T) /\ KeptOnce(Append(Others(k), e))
      /\ Len(Append(Others(k), e)) = Len(Others(k)) + 1
  BY <1>1, <1>2, AppendedEntry
<1>4. Len(Others(k)) \in Nat
  BY <1>1, LenProperties
<1>5. Touched(k) = Append(Others(k), e)
  BY DEF Touched, e
<1> QED BY <1>1, <1>3, <1>4, <1>5 DEF StoreKept, StoreAssumption, T

LEMMA MoreAnswers ==
  ASSUME NEW A, NEW B, A \subseteq B, NEW s \in Seq(EntriesOf(A))
  PROVE  s \in Seq(EntriesOf(B))
<1>1. Len(s) \in Nat /\ DOMAIN s = 1 .. Len(s) /\ \A i \in 1 .. Len(s) : s[i] \in EntriesOf(A)
  BY LenProperties
<1>2. EntriesOf(A) \subseteq EntriesOf(B)
  BY DEF EntriesOf
<1>3. s \in [1 .. Len(s) -> EntriesOf(B)]
  BY <1>1, <1>2
<1> QED BY <1>1, <1>3, SeqDef

LEMMA ResultKept ==
  ASSUME StoreAssumption, StoreKept(entries), NEW c \in Retries
  PROVE  /\ WithResult(c) \in Seq(EntriesOf(Answered \cup {c})) /\ KeptOnce(WithResult(c))
         /\ Len(WithResult(c)) <= MaxEntries
<1> DEFINE k == Key[c]
           T == EntriesOf(Answered \cup {c})
           e == [key |-> k, value |-> c]
<1>1. /\ Others(k) \in Seq(EntriesOf(Answered)) /\ KeptOnce(Others(k))
      /\ \A i \in 1 .. Len(Others(k)) : Others(k)[i].key # k
  BY OthersKept DEF StoreAssumption
<1>2. Others(k) \in Seq(T)
  BY <1>1, MoreAnswers
<1>3. e \in T /\ e.key = k
  BY DEF EntriesOf, StoreAssumption
<1> HIDE DEF T, e, k
<1>4. Append(Others(k), e) \in Seq(T) /\ KeptOnce(Append(Others(k), e))
  BY <1>1, <1>2, <1>3, AppendedEntry
<1> DEFINE a == Append(Others(k), e)
<1> HIDE DEF a
<1>5. /\ WithinCapacity(a) \in Seq(T) /\ KeptOnce(WithinCapacity(a))
      /\ Len(WithinCapacity(a)) <= MaxEntries
  BY <1>4, Shortened DEF a, StoreAssumption
<1>6. WithResult(c) = WithinCapacity(a)
  BY DEF WithResult, a, e, k
<1> QED BY <1>5, <1>6 DEF T

-----------------------------------------------------------------------------
(* The locks.                                                                *)
LEMMA OwnLock ==
  ASSUME StoreAssumption, StoreShape, LocksKept, NEW c \in Retrying
  PROVE  /\ lock[c] \in Retries /\ c \in Retries /\ IsFiniteSet(Retries)
         /\ Orderly(lockSem[lock[c]], Retries, 1)
         /\ retryAt[c] = "translating" =>
              c \in lockSem[lock[c]].held /\ c \notin Waiters(lockSem[lock[c]])
         /\ retryAt[c] = "waiting" =>
              c \in Waiters(lockSem[lock[c]]) /\ c \notin lockSem[lock[c]].held
BY DEF StoreAssumption, LocksKept, Retrying, With

(* Who is done gives the lock back, and takes it away with the last reference only. *)
LEMMA LockGivenBack ==
  ASSUME StoreAssumption, StoreShape, LocksKept, NEW c \in Retrying,
         NEW end \in RetryEnds, RetryEnded(c, end),
         NEW m, Orderly(m, Retries, 1), lockSem' = [lockSem EXCEPT ![lock[c]] = m],
         m.held = lockSem[lock[c]].held \ {c}, Waiters(m) = Waiters(lockSem[lock[c]]) \ {c}
  PROVE  /\ LocksKept'
         /\ retryAt' \in [Retries -> {"new", "waiting", "translating"} \cup RetryEnds]
         /\ lock' \in [Retries -> Retries \cup {NoCall}]
         /\ locks' \in [Keys -> Retries \cup {NoCall}]
<1>1. /\ c \in Retries /\ lock[c] \in Retries /\ end \notin {"waiting", "translating"}
      /\ Key[c] \in Keys
  BY DEF LocksKept, Retrying, RetryEnds, Keys
<1>2. /\ retryAt' = [retryAt EXCEPT ![c] = end] /\ lock' = [lock EXCEPT ![c] = NoCall]
      /\ locks' = Drop(c)
  BY DEF RetryEnded
<1>3. /\ retryAt' \in [Retries -> {"new", "waiting", "translating"} \cup RetryEnds]
      /\ lock' \in [Retries -> Retries \cup {NoCall}]
      /\ locks' \in [Keys -> Retries \cup {NoCall}]
  BY <1>1, <1>2 DEF StoreShape, Drop
<1>4. /\ retryAt'[c] = end
      /\ \A d \in Retries \ {c} : retryAt'[d] = retryAt[d] /\ lock'[d] = lock[d]
  BY <1>1, <1>2 DEF StoreShape
<1>5. \A d \in Retrying' : d \in Retrying \ {c}
  BY <1>1, <1>4 DEF Retrying
<1>6. ASSUME NEW d \in Retrying' PROVE lock'[d] \in Retries /\ locks'[Key[d]] = lock'[d]
  <2>1. /\ d \in Retrying \ {c} /\ lock'[d] = lock[d] /\ lock[d] \in Retries
        /\ locks[Key[d]] = lock[d] /\ Key[d] \in Keys
    BY <1>4, <1>5 DEF LocksKept, Retrying, Keys
  <2>2. locks'[Key[d]] = locks[Key[d]]
    <3>1. CASE Key[d] = Key[c]
      BY <1>2, <2>1, <3>1 DEF Drop
    <3>2. CASE Key[d] # Key[c]
      BY <1>2, <2>1, <3>2 DEF Drop, StoreShape
    <3> QED BY <3>1, <3>2
  <2> QED BY <2>1, <2>2
<1>7. ASSUME NEW l \in Retries
      PROVE  /\ Orderly(lockSem'[l], Retries, 1)
             /\ lockSem'[l].held = With("translating", l)'
             /\ Waiters(lockSem'[l]) = With("waiting", l)'
  <2>1. /\ With("translating", l)' = With("translating", l) \ {c}
        /\ With("waiting", l)' = With("waiting", l) \ {c}
    BY <1>1, <1>4 DEF With
  <2>2. lockSem'[l] = IF l = lock[c] THEN m ELSE lockSem[l]
    BY <1>1 DEF LocksKept
  <2>3. l # lock[c] => c \notin With("translating", l) /\ c \notin With("waiting", l)
    BY DEF With
  <2>4. /\ Orderly(lockSem[l], Retries, 1)
        /\ lockSem[l].held = With("translating", l) /\ Waiters(lockSem[l]) = With("waiting", l)
    BY DEF LocksKept
  <2>5. CASE l = lock[c]
    BY <2>1, <2>2, <2>4, <2>5
  <2>6. CASE l # lock[c]
    BY <2>1, <2>2, <2>3, <2>4, <2>6
  <2> QED BY <2>5, <2>6
<1>8. lockSem' = [l \in Retries |-> lockSem'[l]]
  BY DEF LocksKept
<1> QED BY <1>3, <1>6, <1>7, <1>8 DEF LocksKept

-----------------------------------------------------------------------------
(* The steps of a call.                                                      *)
RetrySteps(c) == Retry(c) \/ Entered(c) \/ Translated(c) \/ NotTranslated(c) \/ Leaves(c)

(* What c has been given fits it, and the others keep what they have.        *)
Fits(c) ==
  /\ \A d \in Retries \ {c} : retryAt'[d] = retryAt[d] /\ result'[d] = result[d]
  /\ retryAt'[c] = "answered" =>
       /\ result'[c] \in Answered \cup {c}
       /\ Key[result'[c]] = Key[c] /\ Payload[result'[c]] = Payload[c]

LEMMA AnswersGoOn ==
  ASSUME StoreShape, AnswersFit, NEW c \in Retries, retryAt[c] # "answered", Fits(c)
  PROVE  AnswersFit' /\ Answered \subseteq Answered'
<1>1. \A d \in Answered : retryAt'[d] = "answered" /\ d # c /\ d \in Retries
  BY DEF Answered, Fits
<1>2. ASSUME NEW d \in Retries, retryAt'[d] = "answered"
      PROVE  /\ result'[d] \in Retries /\ retryAt'[result'[d]] = "answered"
             /\ Key[result'[d]] = Key[d] /\ Payload[result'[d]] = Payload[d]
  <2>1. CASE d = c
    BY <1>1, <1>2, <2>1 DEF Fits
  <2>2. CASE d # c
    <3>1. retryAt[d] = "answered" /\ result'[d] = result[d]
      BY <1>2, <2>2 DEF Fits
    <3>2. result[d] \in Answered /\ Key[result[d]] = Key[d] /\ Payload[result[d]] = Payload[d]
      BY <3>1 DEF AnswersFit, Answered
    <3> QED BY <1>1, <3>1, <3>2
  <2> QED BY <2>1, <2>2
<1>3. Answered \subseteq Answered'
  BY <1>1 DEF Answered
<1> QED BY <1>2, <1>3 DEF AnswersFit

LEMMA RetryKeeps ==
  ASSUME StoreAssumption, StoreIInv, NEW c \in Retries, Retry(c)
  PROVE  StoreIInv'
<1>0. /\ StoreShape /\ StoreKept(entries) /\ LocksKept /\ AnswersFit /\ retryAt[c] = "new"
      /\ Key[c] \in Keys
  BY DEF StoreIInv, Retry, Keys
<1>1. CASE Known(Key[c])
  <2> DEFINE v == Stored(Key[c])
             a == AnswerTo(c, v)
  <2>1. /\ StoreKept(Touched(Key[c])) /\ v \in Answered /\ Key[v] = Key[c]
    BY <1>0, <1>1, TouchedKept
  <2>2. a \in RetryEnds /\ (a = "answered" => Payload[v] = Payload[c])
    BY DEF AnswerTo, Acceptable, RetryEnds
  <2>3. /\ entries' = Touched(Key[c]) /\ retryAt' = [retryAt EXCEPT ![c] = a]
        /\ result' = [result EXCEPT ![c] = v] /\ UNCHANGED <<lock, locks, lockSem>>
    BY <1>1 DEF Retry
  <2> HIDE DEF a, v
  <2>4. v \in Retries
    BY <2>1 DEF Answered
  <2>5. StoreShape' /\ retryAt'[c] = a /\ result'[c] = v
    BY <1>0, <2>2, <2>3, <2>4 DEF StoreShape
  <2>6. Fits(c)
    BY <1>0, <2>1, <2>2, <2>3, <2>5 DEF Fits, StoreShape
  <2>7. AnswersFit' /\ Answered \subseteq Answered'
    BY <1>0, <2>6, AnswersGoOn
  <2>8. StoreKept(entries)'
    BY <2>1, <2>3, <2>7, MoreAnswers DEF StoreKept
  <2>9. LocksKept'
    <3>1. a \notin {"waiting", "translating"}
      BY <2>2 DEF RetryEnds
    <3>2. Retrying' = Retrying
      BY <1>0, <2>3, <3>1 DEF Retrying, StoreShape
    <3>3. \A l \in Retries : /\ With("waiting", l)' = With("waiting", l)
                             /\ With("translating", l)' = With("translating", l)
      BY <1>0, <2>3, <3>1 DEF With, StoreShape
    <3> QED BY <1>0, <2>3, <3>2, <3>3 DEF LocksKept
  <2> QED BY <2>5, <2>7, <2>8, <2>9 DEF StoreIInv
<1>2. CASE ~Known(Key[c])
  <2> DEFINE l == LockFor(c)
             state == IF Locked(lockSem[l]) THEN "waiting" ELSE "translating"
  <2>1. /\ lock' = [lock EXCEPT ![c] = l] /\ locks' = [locks EXCEPT ![Key[c]] = l]
        /\ retryAt' = [retryAt EXCEPT ![c] = state]
        /\ lockSem' = [lockSem EXCEPT ![l] = Acquire(@, c)]
        /\ UNCHANGED <<entries, result>>
    BY <1>2 DEF Retry
  <2>2. l \in Retries
    BY <1>0 DEF LockFor, StoreShape
  <2>3. state \in {"waiting", "translating"} /\ (state = "waiting" <=> Locked(lockSem[l]))
    OBVIOUS
  <2>4. \A d \in Retrying : Key[d] = Key[c] => lock[d] = l
    BY <1>0 DEF LockFor, LocksKept, StoreAssumption
  <2> HIDE DEF l, state
  <2>5. /\ StoreShape' /\ retryAt'[c] = state /\ lock'[c] = l
        /\ \A d \in Retries \ {c} : retryAt'[d] = retryAt[d] /\ lock'[d] = lock[d]
    BY <1>0, <2>1, <2>2, <2>3 DEF StoreShape
  <2>6. AnswersFit' /\ Answered \subseteq Answered'
    <3>1. Fits(c)
      BY <2>1, <2>3, <2>5 DEF Fits
    <3> QED BY <1>0, <3>1, AnswersGoOn
  <2>7. StoreKept(entries)'
    BY <1>0, <2>1, <2>6, MoreAnswers DEF StoreKept
  <2>8. LocksKept'
    <3>1. Retrying' = Retrying \cup {c}
      BY <2>3, <2>5 DEF Retrying
    <3>2. ASSUME NEW d \in Retrying' PROVE lock'[d] \in Retries /\ locks'[Key[d]] = lock'[d]
      <4>1. CASE d = c
        BY <1>0, <2>1, <2>2, <2>5, <4>1 DEF StoreShape
      <4>2. CASE d # c
        <5>1. d \in Retrying /\ lock'[d] = lock[d] /\ lock[d] \in Retries /\ locks[Key[d]] = lock[d]
          BY <1>0, <2>5, <3>1, <4>2 DEF LocksKept, Retrying
        <5>2. locks'[Key[d]] = IF Key[d] = Key[c] THEN l ELSE locks[Key[d]]
          BY <1>0, <2>1, <5>1 DEF StoreShape, Keys, Retrying
        <5> QED BY <2>4, <5>1, <5>2
      <4> QED BY <4>1, <4>2
    <3>3. ASSUME NEW x \in Retries
          PROVE  /\ Orderly(lockSem'[x], Retries, 1)
                 /\ lockSem'[x].held = With("translating", x)'
                 /\ Waiters(lockSem'[x]) = With("waiting", x)'
      <4>1. /\ Orderly(lockSem[x], Retries, 1) /\ IsFiniteSet(Retries)
            /\ lockSem[x].held = With("translating", x) /\ Waiters(lockSem[x]) = With("waiting", x)
            /\ c \notin With("translating", x) /\ c \notin With("waiting", x)
        BY <1>0 DEF LocksKept, With, StoreAssumption
      <4>2. lockSem'[x] = IF x = l THEN Acquire(lockSem[x], c) ELSE lockSem[x]
        BY <1>0, <2>1, <2>2 DEF LocksKept
      <4>3. /\ With("translating", x)' = With("translating", x)
                  \cup (IF x = l /\ state = "translating" THEN {c} ELSE {})
            /\ With("waiting", x)' = With("waiting", x)
                  \cup (IF x = l /\ state = "waiting" THEN {c} ELSE {})
        BY <1>0, <2>5 DEF With
      <4> DEFINE m == lockSem[x]
      <4> HIDE DEF m
      <4>4. CASE x = l
        <5>1. c \notin m.held /\ c \notin Waiters(m) /\ Orderly(m, Retries, 1)
              /\ (state = "waiting" <=> Locked(m))
          BY <2>3, <4>1, <4>4 DEF m
        <5>2. /\ Orderly(Acquire(m, c), Retries, 1)
              /\ Acquire(m, c).held = IF Locked(m) THEN m.held ELSE m.held \cup {c}
              /\ Waiters(Acquire(m, c)) = IF Locked(m) THEN Waiters(m) \cup {c} ELSE Waiters(m)
          BY <4>1, <5>1, AcquireCorrect
        <5> QED BY <2>3, <4>1, <4>2, <4>3, <4>4, <5>1, <5>2 DEF m
      <4>5. CASE x # l
        BY <4>1, <4>2, <4>3, <4>5
      <4> QED BY <4>4, <4>5
    <3>4. lockSem' = [x \in Retries |-> lockSem'[x]]
      BY <1>0, <2>1 DEF LocksKept
    <3> QED BY <3>2, <3>3, <3>4 DEF LocksKept
  <2> QED BY <2>5, <2>6, <2>7, <2>8 DEF StoreIInv
<1> QED BY <1>1, <1>2

(* A call that is done, with or without a result.                            *)
LEMMA EndKeeps ==
  ASSUME StoreAssumption, StoreIInv, NEW c \in Retrying, NEW end \in RetryEnds, RetryEnded(c, end),
         NEW m, Orderly(m, Retries, 1), lockSem' = [lockSem EXCEPT ![lock[c]] = m],
         m.held = lockSem[lock[c]].held \ {c}, Waiters(m) = Waiters(lockSem[lock[c]]) \ {c},
         result' \in [Retries -> Retries \cup {NoCall}], Fits(c),
         Answered \subseteq Answered' => StoreKept(entries)'
  PROVE  StoreIInv'
<1>1. StoreShape /\ LocksKept /\ AnswersFit /\ c \in Retries /\ retryAt[c] # "answered"
  BY DEF StoreIInv, Retrying
<1>2. /\ LocksKept'
      /\ retryAt' \in [Retries -> {"new", "waiting", "translating"} \cup RetryEnds]
      /\ lock' \in [Retries -> Retries \cup {NoCall}]
      /\ locks' \in [Keys -> Retries \cup {NoCall}]
  BY <1>1, LockGivenBack
<1>3. AnswersFit' /\ Answered \subseteq Answered'
  BY <1>1, AnswersGoOn
<1> QED BY <1>2, <1>3 DEF StoreIInv, StoreShape

LEMMA EnteredKeeps ==
  ASSUME StoreAssumption, StoreIInv, NEW c \in Retries, Entered(c)
  PROVE  StoreIInv'
<1> DEFINE m == lockSem[lock[c]]
           r == Resumed(m, c)
<1>0. /\ StoreShape /\ StoreKept(entries) /\ LocksKept /\ AnswersFit /\ Key[c] \in Keys
      /\ retryAt[c] = "waiting" /\ c \in m.woken /\ c \in Retrying
  BY DEF StoreIInv, Entered, Retrying, Keys
<1>1. /\ lock[c] \in Retries /\ IsFiniteSet(Retries) /\ Orderly(m, Retries, 1)
      /\ c \notin m.held
  BY <1>0, OwnLock
<1> HIDE DEF m
<1>2. Orderly(r, Retries, 1) /\ r.held = m.held \cup {c} /\ Waiters(r) = Waiters(m) \ {c}
  BY <1>0, <1>1, ResumedCorrect
<1> HIDE DEF r
<1>3. CASE Known(Key[c])
  <2> DEFINE v == Stored(Key[c])
             a == AnswerTo(c, v)
  <2>1. /\ StoreKept(Touched(Key[c])) /\ v \in Answered /\ Key[v] = Key[c] /\ v \in Retries
    BY <1>0, <1>3, TouchedKept DEF Answered
  <2>2. a \in RetryEnds /\ (a = "answered" => Payload[v] = Payload[c])
    BY DEF AnswerTo, Acceptable, RetryEnds
  <2>3. /\ entries' = Touched(Key[c]) /\ RetryEnded(c, a)
        /\ result' = [result EXCEPT ![c] = v]
        /\ lockSem' = [lockSem EXCEPT ![lock[c]] = Release(r, c)]
    BY <1>3 DEF Entered, Found, r, m
  <2>4. /\ Orderly(Release(r, c), Retries, 1)
        /\ Release(r, c).held = m.held \ {c} /\ Waiters(Release(r, c)) = Waiters(m) \ {c}
    <3>1. c \in r.held
      BY <1>2
    <3>2. /\ Orderly(Release(r, c), Retries, 1)
          /\ Release(r, c).held = r.held \ {c} /\ Waiters(Release(r, c)) = Waiters(r)
      BY <1>1, <1>2, <3>1, ReleaseCorrect
    <3> QED BY <1>1, <1>2, <3>2
  <2> HIDE DEF a, v
  <2>5. Fits(c) /\ result' \in [Retries -> Retries \cup {NoCall}]
    BY <1>0, <2>1, <2>2, <2>3 DEF Fits, StoreShape, RetryEnded
  <2>6. Answered \subseteq Answered' => StoreKept(entries)'
    BY <2>1, <2>3, MoreAnswers DEF StoreKept
  <2> QED BY <1>0, <2>2, <2>3, <2>4, <2>5, <2>6, EndKeeps DEF m
<1>4. CASE ~Known(Key[c])
  <2>1. /\ retryAt' = [retryAt EXCEPT ![c] = "translating"]
        /\ lockSem' = [lockSem EXCEPT ![lock[c]] = r]
        /\ UNCHANGED <<lock, locks, entries, result>>
    BY <1>4 DEF Entered, Found, r, m
  <2>2. /\ StoreShape' /\ retryAt'[c] = "translating"
        /\ \A d \in Retries \ {c} : retryAt'[d] = retryAt[d]
    BY <1>0, <2>1 DEF StoreShape
  <2>3. AnswersFit' /\ Answered \subseteq Answered'
    <3>1. Fits(c)
      BY <2>1, <2>2 DEF Fits
    <3> QED BY <1>0, <3>1, AnswersGoOn
  <2>4. StoreKept(entries)'
    BY <1>0, <2>1, <2>3, MoreAnswers DEF StoreKept
  <2>5. LocksKept'
    <3>1. Retrying' = Retrying
      BY <1>0, <2>2 DEF Retrying
    <3>2. ASSUME NEW x \in Retries
          PROVE  /\ Orderly(lockSem'[x], Retries, 1)
                 /\ lockSem'[x].held = With("translating", x)'
                 /\ Waiters(lockSem'[x]) = With("waiting", x)'
      <4>1. /\ Orderly(lockSem[x], Retries, 1)
            /\ lockSem[x].held = With("translating", x) /\ Waiters(lockSem[x]) = With("waiting", x)
        BY <1>0 DEF LocksKept
      <4>2. lockSem'[x] = IF x = lock[c] THEN r ELSE lockSem[x]
        BY <1>0, <1>1, <2>1 DEF LocksKept
      <4>3. /\ With("translating", x)' = With("translating", x) \cup (IF x = lock[c] THEN {c} ELSE {})
            /\ With("waiting", x)' = With("waiting", x) \ (IF x = lock[c] THEN {c} ELSE {})
        BY <1>0, <2>1, <2>2 DEF With
      <4>4. CASE x = lock[c]
        BY <1>2, <4>1, <4>2, <4>3, <4>4 DEF m
      <4>5. CASE x # lock[c]
        BY <4>1, <4>2, <4>3, <4>5
      <4> QED BY <4>4, <4>5
    <3>3. lockSem' = [x \in Retries |-> lockSem'[x]]
      BY <1>0, <2>1 DEF LocksKept
    <3> QED BY <1>0, <2>1, <3>1, <3>2, <3>3 DEF LocksKept
  <2> QED BY <2>2, <2>3, <2>4, <2>5 DEF StoreIInv
<1> QED BY <1>3, <1>4

LEMMA TranslatedKeeps ==
  ASSUME StoreAssumption, StoreIInv, NEW c \in Retries, Translated(c) \/ NotTranslated(c) \/ Leaves(c)
  PROVE  StoreIInv'
<1> DEFINE m == lockSem[lock[c]]
<1>0. /\ StoreShape /\ StoreKept(entries) /\ LocksKept /\ AnswersFit /\ c \in Retrying
  BY DEF StoreIInv, Translated, NotTranslated, Leaves, Retrying
<1>1. /\ lock[c] \in Retries /\ IsFiniteSet(Retries) /\ Orderly(m, Retries, 1)
      /\ retryAt[c] = "translating" => c \in m.held /\ c \notin Waiters(m)
      /\ retryAt[c] = "waiting" => c \in Waiters(m) /\ c \notin m.held
  BY <1>0, OwnLock
<1> HIDE DEF m
<1>2. CASE Translated(c) \/ NotTranslated(c)
  <2>1. c \in m.held /\ c \notin Waiters(m) /\ lockSem' = [lockSem EXCEPT ![lock[c]] = Release(m, c)]
    BY <1>1, <1>2 DEF Translated, NotTranslated, HandOn, m
  <2>2. /\ Orderly(Release(m, c), Retries, 1)
        /\ Release(m, c).held = m.held \ {c} /\ Waiters(Release(m, c)) = Waiters(m)
    BY <1>1, <2>1, ReleaseCorrect
  <2>3. Waiters(Release(m, c)) = Waiters(m) \ {c}
    BY <2>1, <2>2
  <2>4. CASE Translated(c)
    <3>1. entries' = WithResult(c) /\ RetryEnded(c, "answered") /\ result' = [result EXCEPT ![c] = c]
      BY <2>4 DEF Translated
    <3>2. Fits(c) /\ result' \in [Retries -> Retries \cup {NoCall}]
      BY <1>0, <3>1 DEF Fits, StoreShape, RetryEnded
    <3>3. Answered \subseteq Answered' => StoreKept(entries)'
      <4>1. c \in Answered'
        BY <1>0, <3>1 DEF Answered, RetryEnded, StoreShape
      <4>2. /\ entries' \in Seq(EntriesOf(Answered \cup {c})) /\ KeptOnce(entries')
            /\ Len(entries') <= MaxEntries
        BY <1>0, <3>1, ResultKept
      <4> SUFFICES ASSUME Answered \subseteq Answered' PROVE StoreKept(entries)'
        OBVIOUS
      <4>3. Answered \cup {c} \subseteq Answered'
        BY <4>1
      <4>4. entries' \in Seq(EntriesOf(Answered'))
        BY <4>2, <4>3, MoreAnswers
      <4> QED BY <4>2, <4>4 DEF StoreKept
    <3> QED BY <1>0, <2>1, <2>2, <2>3, <3>1, <3>2, <3>3, EndKeeps DEF RetryEnds, m
  <2>5. CASE NotTranslated(c)
    <3>1. PICK end \in {"failed", "left"} : RetryEnded(c, end)
      BY <2>5 DEF NotTranslated
    <3>2. UNCHANGED <<entries, result>> /\ end \in RetryEnds /\ end # "answered"
      BY <2>5 DEF NotTranslated, RetryEnds
    <3>3. Fits(c) /\ result' \in [Retries -> Retries \cup {NoCall}]
      BY <1>0, <3>1, <3>2 DEF Fits, StoreShape, RetryEnded
    <3>4. Answered \subseteq Answered' => StoreKept(entries)'
      BY <1>0, <3>2, MoreAnswers DEF StoreKept
    <3> QED BY <1>0, <2>1, <2>2, <2>3, <3>1, <3>2, <3>3, <3>4, EndKeeps DEF m
  <2> QED BY <1>2, <2>4, <2>5
<1>3. CASE Leaves(c)
  <2>1. /\ c \in Waiters(m) /\ c \notin m.held /\ RetryEnded(c, "left")
        /\ lockSem' = [lockSem EXCEPT ![lock[c]] = Abandon(m, c)] /\ UNCHANGED <<entries, result>>
    BY <1>1, <1>3 DEF Leaves, m
  <2>2. /\ Orderly(Abandon(m, c), Retries, 1)
        /\ Abandon(m, c).held = m.held /\ Waiters(Abandon(m, c)) = Waiters(m) \ {c}
    BY <1>1, <2>1, AbandonCorrect
  <2>3. Abandon(m, c).held = m.held \ {c}
    BY <2>1, <2>2
  <2>4. Fits(c) /\ result' \in [Retries -> Retries \cup {NoCall}]
    BY <1>0, <2>1 DEF Fits, StoreShape, RetryEnded
  <2>5. Answered \subseteq Answered' => StoreKept(entries)'
    BY <1>0, <2>1, MoreAnswers DEF StoreKept
  <2> QED BY <1>0, <2>1, <2>2, <2>3, <2>4, <2>5, EndKeeps DEF RetryEnds, m
<1> QED BY <1>2, <1>3

-----------------------------------------------------------------------------
LEMMA StoreInitially == ASSUME StoreAssumption, StoreInit PROVE StoreIInv
<1>1. StoreKept(entries)
  <2>1. <<>> \in Seq(EntriesOf(Answered)) /\ Len(<<>>) = 0
    BY EmptySeq
  <2> QED BY <2>1 DEF StoreInit, StoreKept, KeptOnce, StoreAssumption
<1>2. LocksKept
  <2>1. /\ Orderly(Semaphore(1), Retries, 1)
        /\ Semaphore(1).held = {} /\ Waiters(Semaphore(1)) = {}
    BY SemaphoreOrderly
  <2>2. Retrying = {} /\ \A l \in Retries : With("waiting", l) = {} /\ With("translating", l) = {}
    BY DEF StoreInit, Retrying, With
  <2> QED BY <2>1, <2>2 DEF StoreInit, LocksKept
<1> QED BY <1>1, <1>2 DEF StoreInit, StoreIInv, StoreShape, AnswersFit

LEMMA StoreStepKept ==
  ASSUME StoreAssumption, StoreIInv, [StoreNext]_storeVars
  PROVE  StoreIInv'
<1>1. ASSUME NEW c \in Retries, RetrySteps(c) PROVE StoreIInv'
  BY <1>1, RetryKeeps, EnteredKeeps, TranslatedKeeps DEF RetrySteps
<1>2. ASSUME NEW k \in Keys, Expires(k) PROVE StoreIInv'
  <2>1. entries' = Others(k) /\ UNCHANGED <<retryAt, lock, locks, lockSem, result>>
    BY <1>2 DEF Expires
  <2>2. /\ Others(k) \in Seq(EntriesOf(Answered)) /\ KeptOnce(Others(k)) /\ Len(Others(k)) <= MaxEntries
    BY OthersKept DEF StoreIInv, StoreAssumption
  <2>3. StoreKept(entries)'
    BY <2>1, <2>2 DEF StoreKept, Answered
  <2> QED BY <2>1, <2>3 DEF StoreIInv, StoreShape, LocksKept, With, Retrying, AnswersFit
<1>3. ASSUME UNCHANGED storeVars PROVE StoreIInv'
  BY <1>3 DEF storeVars, StoreIInv, StoreKept, Answered, StoreShape, LocksKept, With, Retrying,
              AnswersFit
<1> QED BY <1>1, <1>2, <1>3 DEF StoreNext, RetrySteps, StoreRests

LEMMA StoreNotTwice ==
  ASSUME StoreAssumption, StoreIInv, [StoreNext]_storeVars
  PROVE  NotTwice
<1>1. StoreShape
  BY DEF StoreIInv
<1>2. ASSUME NEW c \in Retries, RetrySteps(c) PROVE NotTwice
  <2>1. CASE Retry(c)
    BY <1>1, <2>1 DEF Retry, NotTwice, StoreShape, AnswerTo
  <2>2. CASE Entered(c)
    BY <1>1, <2>2 DEF Entered, Found, NotTwice, StoreShape, AnswerTo, RetryEnded
  <2>3. CASE Translated(c) \/ NotTranslated(c) \/ Leaves(c)
    BY <1>1, <2>3 DEF Translated, NotTranslated, Leaves, NotTwice, StoreShape, RetryEnded
  <2> QED BY <1>2, <2>1, <2>2, <2>3 DEF RetrySteps
<1>3. ASSUME NEW k \in Keys, Expires(k) PROVE NotTwice
  BY <1>3 DEF Expires, NotTwice
<1>4. ASSUME UNCHANGED storeVars PROVE NotTwice
  BY <1>4 DEF storeVars, NotTwice
<1> QED BY <1>2, <1>3, <1>4 DEF StoreNext, RetrySteps, StoreRests

LEMMA StoreInvFollows == ASSUME StoreAssumption, StoreIInv PROVE StoreInv
<1>1. StoreTypes
  <2>1. lockSem \in [Retries -> Semaphores(Retries, 1)]
    BY DEF StoreIInv, LocksKept, Orderly, Kept
  <2>2. entries \in Seq([key: Keys, value: Retries])
    <3>1. Len(entries) \in Nat /\ DOMAIN entries = 1 .. Len(entries)
          /\ \A i \in 1 .. Len(entries) : entries[i] \in EntriesOf(Answered)
      BY LenProperties DEF StoreIInv, StoreKept
    <3>2. EntriesOf(Answered) \subseteq [key: Keys, value: Retries]
      BY DEF EntriesOf, Answered
    <3>3. entries \in Seq(EntriesOf(Answered))
      BY DEF StoreIInv, StoreKept
    <3>4. entries \in [1 .. Len(entries) -> [key: Keys, value: Retries]]
      BY <3>1, <3>2, <3>3
    <3> QED BY <3>1, <3>4, SeqDef
  <2>3. \A i, j \in DOMAIN entries : entries[i].key = entries[j].key => i = j
    <3>1. DOMAIN entries = 1 .. Len(entries)
      BY <2>2, LenProperties
    <3> QED BY <3>1 DEF StoreIInv, StoreKept, KeptOnce
  <2> QED BY <2>1, <2>2, <2>3 DEF StoreIInv, StoreShape, StoreKept, StoreTypes
<1>2. SingleFlight
  <2> SUFFICES ASSUME NEW c \in Retries, NEW d \in Retries, Key[c] = Key[d],
                      retryAt[c] = "translating", retryAt[d] = "translating"
               PROVE  c = d
    BY DEF SingleFlight
  <2> DEFINE m == lockSem[lock[c]]
  <2>1. c \in m.held /\ d \in m.held /\ Orderly(m, Retries, 1)
    BY DEF StoreIInv, LocksKept, Retrying, With
  <2> HIDE DEF m
  <2>2. /\ m.held \in SUBSET Retries /\ m.woken \in SUBSET Retries /\ m.value \in Nat
        /\ m.value + Cardinality(m.woken) + Cardinality(m.held) = 1
    BY <2>1 DEF Orderly, Kept, Semaphores, Conserved
  <2>3. /\ IsFiniteSet(m.held) /\ Cardinality(m.held) \in Nat /\ Cardinality(m.woken) \in Nat
    BY <2>2, FS_Subset, FS_CardinalityType DEF StoreAssumption
  <2>4. Cardinality(m.held) <= 1
    BY <2>2, <2>3
  <2>5. Cardinality({c, d}) <= Cardinality(m.held)
    <3>1. {c, d} \in SUBSET m.held
      BY <2>1
    <3> QED BY <2>3, <3>1, FS_Subset
  <2>6. c # d => Cardinality({c, d}) = 2
    <3>1. Cardinality({c}) = 1 /\ IsFiniteSet({c})
      BY FS_Singleton
    <3>2. c # d => Cardinality({c} \cup {d}) = 2
      BY <3>1, FS_AddElement
    <3>3. {c} \cup {d} = {c, d}
      OBVIOUS
    <3> QED BY <3>2, <3>3
  <2> QED BY <2>3, <2>4, <2>5, <2>6
<1> QED BY <1>1, <1>2 DEF StoreIInv, StoreInv

-----------------------------------------------------------------------------
(***************************************************************************)
(* The translation of utterances.                                          *)
(***************************************************************************)
CallPlaces == {"new", "waits", "calling", "pausing"} \cup CallEnded
Tries == TranslationErrors \cup {CutShort, OwnWait} \cup Answers
WorthRepeating(e) == e \in TranslationErrors /\ ~e.permanent /\ (Timeout(e) \/ Passing(e))
InHand(c) == callAt[c] \notin CallEnded

CallShape ==
  /\ callAt \in [Sentences -> CallPlaces] /\ tries \in [Sentences -> Seq(Tries)]
  /\ outcome = [c \in Sentences |-> outcome[c]]

CallSlotsKept ==
  /\ Orderly(callSlots, Sentences, MaxConcurrency)
  /\ callSlots.held = Holding /\ Waiters(callSlots) = { c \in Sentences : callAt[c] = "waits" }

(* All attempts of a call that goes on, and all but the last of one that has ended, were worth
   repeating.                                                                *)
TriesKept(c) ==
  LET n == Len(tries[c])
  IN /\ n <= MaxRetries + 1 /\ (InHand(c) => n <= MaxRetries)
     /\ \A i \in 1 .. (IF InHand(c) THEN n ELSE n - 1) : WorthRepeating(tries[c][i])
     /\ callAt[c] = "translated" =>
          LET a == tries[c][n]
          IN a \in Answers /\ a.text = "plain" /\ outcome[c] = Readings(a)

TranslationIInv == CallShape /\ CallSlotsKept /\ \A c \in Sentences : TriesKept(c)

-----------------------------------------------------------------------------
LEMMA Attempted ==
  ASSUME CallShape, NEW c \in Sentences, NEW how \in Tries, Tried(c, how)
  PROVE  /\ tries' \in [Sentences -> Seq(Tries)]
         /\ Len(tries[c]) \in Nat /\ Len(tries'[c]) = Len(tries[c]) + 1
         /\ \A i \in 1 .. Len(tries[c]) : tries'[c][i] = tries[c][i]
         /\ tries'[c][Len(tries[c]) + 1] = how
         /\ \A d \in Sentences \ {c} : tries'[d] = tries[d]
<1>1. tries[c] \in Seq(Tries) /\ Len(tries[c]) \in Nat
  BY LenProperties DEF CallShape
<1>2. /\ Append(tries[c], how) \in Seq(Tries) /\ Len(Append(tries[c], how)) = Len(tries[c]) + 1
      /\ \A i \in 1 .. Len(tries[c]) : Append(tries[c], how)[i] = tries[c][i]
      /\ Append(tries[c], how)[Len(tries[c]) + 1] = how
  BY <1>1, AppendProperties
<1>3. tries' = [tries EXCEPT ![c] = Append(tries[c], how)]
  BY DEF Tried
<1>4. tries'[c] = Append(tries[c], how)
  BY <1>3 DEF CallShape
<1> QED BY <1>1, <1>2, <1>3, <1>4 DEF CallShape

(* What a step of c leaves as it was.                                        *)
OthersWait(c) ==
  /\ callAt' \in [Sentences -> CallPlaces] /\ tries' \in [Sentences -> Seq(Tries)]
  /\ outcome' = [d \in Sentences |-> outcome'[d]]
  /\ \A d \in Sentences \ {c} : callAt'[d] = callAt[d] /\ tries'[d] = tries[d] /\ outcome'[d] = outcome[d]

LEMMA CallStepKept ==
  ASSUME TranslationIInv, NEW c \in Sentences, OthersWait(c), CallSlotsKept', TriesKept(c)'
  PROVE  TranslationIInv'
<1>1. \A d \in Sentences \ {c} : TriesKept(d)'
  BY DEF OthersWait, TranslationIInv, TriesKept, InHand
<1> QED BY <1>1 DEF TranslationIInv, CallShape, OthersWait

(* Who had a slot has given it back.                                         *)
LEMMA SlotGivenBack ==
  ASSUME TranslationAssumption, TranslationIInv, NEW c \in Sentences, OthersWait(c),
         callAt[c] \in {"waits", "calling", "pausing"}, callAt'[c] \in CallEnded,
         callSlots' = CallGivesBack(c)
  PROVE  CallSlotsKept'
<1>1. /\ IsFiniteSet(Sentences) /\ MaxConcurrency \in Nat
      /\ Orderly(callSlots, Sentences, MaxConcurrency)
      /\ callSlots.held = Holding /\ Waiters(callSlots) = { d \in Sentences : callAt[d] = "waits" }
  BY DEF TranslationAssumption, TranslationIInv, CallSlotsKept
<1>2. /\ Holding' = Holding \ {c}
      /\ { d \in Sentences : callAt[d] = "waits" }' = { d \in Sentences : callAt[d] = "waits" } \ {c}
  BY DEF OthersWait, Holding, CallEnded
<1>3. CASE c \in Holding
  <2>1. /\ Orderly(Release(callSlots, c), Sentences, MaxConcurrency)
        /\ Release(callSlots, c).held = callSlots.held \ {c}
        /\ Waiters(Release(callSlots, c)) = Waiters(callSlots)
    BY <1>1, <1>3, ReleaseCorrect
  <2>2. callSlots' = Release(callSlots, c) /\ callAt[c] # "waits"
    BY <1>3 DEF CallGivesBack, Holding
  <2> QED BY <1>1, <1>2, <2>1, <2>2 DEF CallSlotsKept
<1>4. CASE c \notin Holding
  <2>1. c \in Waiters(callSlots)
    BY <1>1, <1>4 DEF Holding
  <2>2. /\ Orderly(Abandon(callSlots, c), Sentences, MaxConcurrency)
        /\ Abandon(callSlots, c).held = callSlots.held
        /\ Waiters(Abandon(callSlots, c)) = Waiters(callSlots) \ {c}
    BY <1>1, <2>1, AbandonCorrect
  <2>3. callSlots' = Abandon(callSlots, c)
    BY <1>4 DEF CallGivesBack
  <2> QED BY <1>1, <1>2, <1>4, <2>2, <2>3 DEF CallSlotsKept
<1> QED BY <1>3, <1>4

-----------------------------------------------------------------------------
(* Coming, with a slot at once or not, and being let in.                     *)
LEMMA EnterKeeps ==
  ASSUME TranslationAssumption, TranslationIInv, NEW c \in Sentences,
         CallSkipped(c) \/ Enter(c) \/ CallAdmitted(c) \/ Again(c)
  PROVE  TranslationIInv'
<1>0. /\ CallShape /\ IsFiniteSet(Sentences) /\ MaxConcurrency \in Nat
      /\ Orderly(callSlots, Sentences, MaxConcurrency)
      /\ callSlots.held = Holding /\ Waiters(callSlots) = { d \in Sentences : callAt[d] = "waits" }
      /\ TriesKept(c) /\ Len(tries[c]) \in Nat
  BY LenProperties DEF TranslationAssumption, TranslationIInv, CallSlotsKept, CallShape
<1>1. PICK state \in {"skipped", "waits", "calling"} : callAt' = [callAt EXCEPT ![c] = state]
  BY DEF CallSkipped, Enter, CallAdmitted, Again, CallEnds, CallBecomes
<1>2. /\ UNCHANGED tries /\ outcome' = [outcome EXCEPT ![c] = outcome'[c]]
  BY <1>0 DEF CallSkipped, Enter, CallAdmitted, Again, CallEnds, CallShape
<1>3. OthersWait(c) /\ callAt'[c] = state
  BY <1>0, <1>1, <1>2 DEF CallShape, OthersWait, CallPlaces, CallEnded
<1>4. CallSlotsKept'
  <2>1. CASE CallSkipped(c)
    <3>1. Holding' = Holding /\ callSlots' = callSlots
          /\ { d \in Sentences : callAt[d] = "waits" }' = { d \in Sentences : callAt[d] = "waits" }
      BY <1>3, <2>1 DEF CallSkipped, CallEnds, CallBecomes, OthersWait, Holding, CallPlaces
    <3> QED BY <1>0, <3>1 DEF CallSlotsKept
  <2>2. CASE Again(c)
    <3>1. Holding' = Holding /\ callSlots' = callSlots
          /\ { d \in Sentences : callAt[d] = "waits" }' = { d \in Sentences : callAt[d] = "waits" }
      BY <1>0, <1>3, <2>2 DEF Again, CallBecomes, OthersWait, Holding, CallShape
    <3> QED BY <1>0, <3>1 DEF CallSlotsKept
  <2>3. CASE Enter(c)
    <3>1. /\ c \notin callSlots.held /\ c \notin Waiters(callSlots)
          /\ IsFiniteSet(Sentences) /\ MaxConcurrency \in Nat
          /\ Orderly(callSlots, Sentences, MaxConcurrency)
      BY <1>0, <2>3 DEF Enter, Holding
    <3>2. /\ Orderly(Acquire(callSlots, c), Sentences, MaxConcurrency)
          /\ Acquire(callSlots, c).held =
               IF Locked(callSlots) THEN callSlots.held ELSE callSlots.held \cup {c}
          /\ Waiters(Acquire(callSlots, c)) =
               IF Locked(callSlots) THEN Waiters(callSlots) \cup {c} ELSE Waiters(callSlots)
      BY <3>1, AcquireCorrect
    <3>3. callSlots' = Acquire(callSlots, c)
          /\ callAt'[c] = IF Locked(callSlots) THEN "waits" ELSE "calling"
      BY <1>0, <2>3 DEF Enter, CallBecomes, CallShape
    <3>4. /\ Holding' = IF Locked(callSlots) THEN Holding ELSE Holding \cup {c}
          /\ { d \in Sentences : callAt[d] = "waits" }' =
               IF Locked(callSlots) THEN { d \in Sentences : callAt[d] = "waits" } \cup {c}
               ELSE { d \in Sentences : callAt[d] = "waits" }
      <4>1. callAt[c] = "new"
        BY <2>3 DEF Enter
      <4>2. CASE Locked(callSlots)
        BY <1>3, <3>3, <4>1, <4>2 DEF OthersWait, Holding
      <4>3. CASE ~Locked(callSlots)
        BY <1>3, <3>3, <4>1, <4>3 DEF OthersWait, Holding
      <4> QED BY <4>2, <4>3
    <3> QED BY <1>0, <3>2, <3>3, <3>4 DEF CallSlotsKept
  <2>4. CASE CallAdmitted(c)
    <3>1. /\ Orderly(Resumed(callSlots, c), Sentences, MaxConcurrency)
          /\ Resumed(callSlots, c).held = callSlots.held \cup {c}
          /\ Waiters(Resumed(callSlots, c)) = Waiters(callSlots) \ {c}
      BY <1>0, <2>4, ResumedCorrect DEF CallAdmitted
    <3>2. /\ Holding' = Holding \cup {c} /\ callSlots' = Resumed(callSlots, c)
          /\ { d \in Sentences : callAt[d] = "waits" }' = { d \in Sentences : callAt[d] = "waits" } \ {c}
      BY <1>0, <1>3, <2>4 DEF CallAdmitted, CallBecomes, OthersWait, Holding, CallShape
    <3> QED BY <1>0, <3>1, <3>2 DEF CallSlotsKept
  <2> QED BY <2>1, <2>2, <2>3, <2>4
<1>5. TriesKept(c)'
  <2>1. tries'[c] = tries[c] /\ callAt'[c] # "translated" /\ InHand(c)
    BY <1>2, <1>3 DEF InHand, CallEnded, CallSkipped, Enter, CallAdmitted, Again
  <2> QED BY <1>0, <2>1 DEF TriesKept, InHand, TranslationAssumption
<1> QED BY <1>3, <1>4, <1>5, CallStepKept

(* An attempt that is repeated keeps the slot; every other end gives it back. *)
LEMMA AttemptKeeps ==
  ASSUME TranslationAssumption, TranslationIInv, NEW c \in Sentences, callAt[c] = "calling",
         NEW how \in Tries, Tried(c, how),
         \/ /\ WorthRepeating(how) /\ Len(tries[c]) < MaxRetries
            /\ CallBecomes(c, "pausing") /\ UNCHANGED <<callSlots, outcome>>
         \/ /\ callSlots' = Release(callSlots, c)
            /\ \E what : \/ CallEnds(c, "failed", what)
                         \/ /\ CallEnds(c, "translated", what)
                            /\ how \in Answers /\ how.text = "plain" /\ what = Readings(how)
  PROVE  TranslationIInv'
<1>0. CallShape /\ CallSlotsKept /\ TriesKept(c) /\ MaxRetries \in Nat
  BY DEF TranslationIInv, TranslationAssumption
<1> DEFINE n == Len(tries[c])
<1>1. /\ tries' \in [Sentences -> Seq(Tries)]
      /\ n \in Nat /\ Len(tries'[c]) = n + 1
      /\ \A i \in 1 .. n : tries'[c][i] = tries[c][i]
      /\ tries'[c][n + 1] = how
      /\ \A d \in Sentences \ {c} : tries'[d] = tries[d]
  BY <1>0, Attempted
<1>2. InHand(c) /\ n <= MaxRetries /\ \A i \in 1 .. n : WorthRepeating(tries[c][i])
  BY <1>0 DEF TriesKept, InHand, CallEnded
<1> HIDE DEF n
<1>3. CASE /\ WorthRepeating(how) /\ n < MaxRetries
           /\ CallBecomes(c, "pausing") /\ UNCHANGED <<callSlots, outcome>>
  <2>1. OthersWait(c) /\ callAt'[c] = "pausing"
    BY <1>0, <1>1, <1>3 DEF CallBecomes, CallShape, OthersWait, CallPlaces
  <2>2. /\ Holding' = Holding
        /\ { d \in Sentences : callAt[d] = "waits" }' = { d \in Sentences : callAt[d] = "waits" }
    BY <2>1 DEF OthersWait, Holding
  <2>3. CallSlotsKept'
    BY <1>0, <1>3, <2>2 DEF CallSlotsKept
  <2>4. \A i \in 1 .. n + 1 : WorthRepeating(tries'[c][i])
    BY <1>1, <1>2, <1>3
  <2>5. TriesKept(c)'
    BY <1>0, <1>1, <1>3, <2>1, <2>4 DEF TriesKept, InHand, CallEnded, WorthRepeating, Timeout, Passing
  <2> QED BY <2>1, <2>3, <2>5, CallStepKept
<1>4. ASSUME callSlots' = Release(callSlots, c), NEW what,
             \/ CallEnds(c, "failed", what)
             \/ /\ CallEnds(c, "translated", what)
                /\ how \in Answers /\ how.text = "plain" /\ what = Readings(how)
      PROVE  TranslationIInv'
  <2>1. /\ OthersWait(c) /\ callAt'[c] \in {"failed", "translated"} /\ outcome'[c] = what
        /\ callAt'[c] = "translated" => how \in Answers /\ how.text = "plain" /\ what = Readings(how)
    BY <1>0, <1>1, <1>4 DEF CallEnds, CallBecomes, CallShape, OthersWait, CallPlaces, CallEnded
  <2>2. CallSlotsKept'
    <3>1. callSlots' = CallGivesBack(c) /\ callAt'[c] \in CallEnded
      BY <1>4, <2>1 DEF CallGivesBack, Holding, CallEnded
    <3> QED BY <2>1, <3>1, SlotGivenBack
  <2>3. \A i \in 1 .. n : WorthRepeating(tries'[c][i])
    BY <1>1, <1>2
  <2>4. n + 1 - 1 = n /\ n + 1 <= MaxRetries + 1 /\ ~(callAt'[c] \notin CallEnded)
    BY <1>0, <1>1, <1>2, <2>1 DEF CallEnded
  <2>5. TriesKept(c)'
    BY <1>1, <2>1, <2>3, <2>4 DEF TriesKept, InHand, WorthRepeating, Timeout, Passing, Readings
  <2> QED BY <2>1, <2>2, <2>5, CallStepKept
<1> QED BY <1>3, <1>4 DEF n

LEMMA StopKeeps ==
  ASSUME TranslationAssumption, TranslationIInv, NEW c \in Sentences, CallStops(c)
  PROVE  TranslationIInv'
<1>0. CallShape /\ TriesKept(c) /\ MaxRetries \in Nat /\ Len(tries[c]) \in Nat
  BY LenProperties DEF TranslationIInv, TranslationAssumption, CallShape
<1>1. /\ OthersWait(c) /\ callAt'[c] \in {"failed", "left"} /\ tries'[c] = tries[c]
      /\ callAt[c] \in {"waits", "calling", "pausing"} /\ callSlots' = CallGivesBack(c)
  BY <1>0 DEF CallStops, CallEnds, CallBecomes, CallShape, OthersWait, CallPlaces, CallEnded
<1>2. CallSlotsKept'
  BY <1>1, SlotGivenBack DEF CallEnded
<1>3. InHand(c) /\ ~(callAt'[c] \notin CallEnded) /\ callAt'[c] # "translated"
  BY <1>1 DEF InHand, CallEnded
<1>4. TriesKept(c)'
  BY <1>0, <1>1, <1>3 DEF TriesKept, InHand, WorthRepeating, Timeout, Passing
<1> QED BY <1>1, <1>2, <1>4, CallStepKept

-----------------------------------------------------------------------------
LEMMA TranslationInitially == ASSUME TranslationAssumption, TranslationInit PROVE TranslationIInv
<1>1. <<>> \in Seq(Tries) /\ Len(<<>>) = 0
  BY EmptySeq
<1>2. CallShape
  BY <1>1 DEF TranslationInit, CallShape, CallPlaces
<1>3. CallSlotsKept
  BY SemaphoreOrderly DEF TranslationInit, CallSlotsKept, Holding, TranslationAssumption
<1>4. \A c \in Sentences : TriesKept(c)
  BY <1>1 DEF TranslationInit, TriesKept, InHand, CallEnded, TranslationAssumption
<1> QED BY <1>2, <1>3, <1>4 DEF TranslationIInv

LEMMA TranslationKept ==
  ASSUME TranslationAssumption, TranslationIInv, [TranslationNext]_callVars
  PROVE  TranslationIInv'
<1>1. ASSUME NEW c \in Sentences, AttemptTimesOut(c) PROVE TranslationIInv'
  BY <1>1, AttemptKeeps DEF AttemptTimesOut, GivesUp, Tries
<1>2. ASSUME NEW c \in Sentences, NEW e \in TranslationErrors \cup {CutShort}, CallRaises(c, e)
      PROVE  TranslationIInv'
  <2>1. callAt[c] = "calling" /\ Tried(c, e) /\ e \in Tries
    BY <1>2 DEF CallRaises, Tries
  <2>2. CASE MayTryAgain(c, e)
    <3>1. WorthRepeating(e) /\ Len(tries[c]) < MaxRetries
      <4>1. Mapped(e).retryable <=> ~e.permanent /\ (Timeout(e) \/ Passing(e))
        BY DEF Mapped
      <4>2. ~e.permanent /\ (Timeout(e) \/ Passing(e)) /\ Len(tries[c]) < MaxRetries
        BY <2>2, <4>1 DEF MayTryAgain
      <4>3. CutShort.permanent
        BY DEF CutShort
      <4>4. e \in TranslationErrors
        BY <4>2, <4>3
      <4> QED BY <4>2, <4>4 DEF WorthRepeating
    <3>2. CallBecomes(c, "pausing") /\ UNCHANGED <<callSlots, outcome>>
      BY <1>2, <2>2 DEF CallRaises
    <3> QED BY <2>1, <3>1, <3>2, AttemptKeeps
  <2>3. CASE ~MayTryAgain(c, e)
    <3>1. CallEnds(c, "failed", CallFailure(Mapped(e).code)) /\ callSlots' = Release(callSlots, c)
      BY <1>2, <2>3 DEF CallRaises
    <3> QED BY <2>1, <3>1, AttemptKeeps
  <2> QED BY <2>2, <2>3
<1>3. ASSUME NEW c \in Sentences, NEW a \in Answers, CallAnswers(c, a) PROVE TranslationIInv'
  <2>1. callAt[c] = "calling" /\ Tried(c, a) /\ a \in Tries /\ callSlots' = Release(callSlots, c)
    BY <1>3 DEF CallAnswers, Tries
  <2>2. CASE Plain(a)
    <3>1. CallEnds(c, "translated", Readings(a)) /\ a.text = "plain"
      BY <1>3, <2>2 DEF CallAnswers, Plain
    <3> QED BY <2>1, <3>1, AttemptKeeps
  <2>3. CASE ~Plain(a)
    <3>1. CallEnds(c, "failed", CallFailure("TRANSLATION_FAILED"))
      BY <1>3, <2>3 DEF CallAnswers
    <3> QED BY <2>1, <3>1, AttemptKeeps
  <2> QED BY <2>2, <2>3
<1>4. ASSUME UNCHANGED callVars PROVE TranslationIInv'
  BY <1>4 DEF callVars, TranslationIInv, CallShape, CallSlotsKept, Holding, TriesKept, InHand,
              WorthRepeating, Timeout, Passing, Readings
<1> QED BY <1>1, <1>2, <1>3, <1>4, EnterKeeps, StopKeeps DEF TranslationNext, Work

LEMMA TranslationInvFollows == ASSUME TranslationAssumption, TranslationIInv PROVE TranslationInv
<1>1. SlotsAreKept
  BY DEF TranslationIInv, CallSlotsKept, Orderly, Kept, SlotsAreKept
<1>2. RetriesAreWorthIt
  <2> SUFFICES ASSUME NEW c \in Sentences
      PROVE  /\ Len(tries[c]) <= MaxRetries + 1
             /\ \A i \in 1 .. (IF callAt[c] \in {"calling", "pausing"} THEN Len(tries[c])
                               ELSE Len(tries[c]) - 1) : WorthRepeating(tries[c][i])
    BY DEF RetriesAreWorthIt, WorthRepeating
  <2>1. TriesKept(c) /\ Len(tries[c]) \in Nat
    BY LenProperties DEF TranslationIInv, CallShape
  <2>2. CASE InHand(c)
    BY <2>1, <2>2 DEF TriesKept
  <2>3. CASE ~InHand(c)
    BY <2>1, <2>3 DEF TriesKept, InHand, CallEnded
  <2> QED BY <2>2, <2>3
<1>3. TextIsSound
  <2> SUFFICES ASSUME NEW c \in Sentences, callAt[c] = "translated"
      PROVE  LET a == tries[c][Len(tries[c])]
             IN /\ a \in Answers /\ a.text = "plain"
                /\ outcome[c].readings => a.language = "ja" /\ a.readings = "fit"
    BY DEF TextIsSound
  <2> DEFINE a == tries[c][Len(tries[c])]
  <2>1. a \in Answers /\ a.text = "plain" /\ outcome[c] = Readings(a)
    BY DEF TranslationIInv, TriesKept
  <2> HIDE DEF a
  <2>2. Readings(a).readings => a.language = "ja" /\ a.readings = "fit"
    <3>1. CASE a.language # "ja"
      <4>1. Readings(a) = [readings |-> FALSE, warned |-> FALSE]
        BY <3>1 DEF Readings
      <4> QED BY <4>1
    <3>2. CASE a.language = "ja"
      <4>1. ASSUME a.readings # "fit" PROVE ~Readings(a).readings
        <5>1. (a.readings = "fit") = FALSE /\ (a.readings # "fit") = TRUE
          BY <4>1
        <5>2. Readings(a) = [readings |-> FALSE, warned |-> TRUE]
          BY <3>2, <5>1 DEF Readings
        <5> QED BY <5>2
      <4> QED BY <3>2, <4>1
    <3> QED BY <3>1, <3>2
  <2> QED BY <2>1, <2>2 DEF a
<1> QED BY <1>1, <1>2, <1>3 DEF TranslationInv

-----------------------------------------------------------------------------
(***************************************************************************)
(* The transcription of utterances by OpenAI.                              *)
(***************************************************************************)
RequestShape ==
  /\ requestAt \in [Utterances -> {"new", "waits", "calling"} \cup RequestEnded]
  /\ use \in [Utterances -> {"final", "preview"}]
  /\ heard = [c \in Utterances |-> heard[c]] /\ transcript = [c \in Utterances |-> transcript[c]]

(* What a returned request returns is what it read from the service, or nothing. *)
ReadRight(c) ==
  requestAt[c] = "returned" =>
    \/ heard[c] = None /\ transcript[c] = Nothing
    \/ /\ heard[c] \in Transcripts /\ Readable(heard[c]) /\ transcript[c] = Read(heard[c])
       /\ provider = "whisper" => Len(heard[c].named) = 1

RequestSlotsKept ==
  /\ Orderly(final, Utterances, FinalSlots) /\ Orderly(preview, Utterances, PreviewSlots)
  /\ final.held = Of("final", {"calling"}) /\ Waiters(final) = Of("final", {"waits"})
  /\ preview.held = Of("preview", {"calling"}) /\ Waiters(preview) = Of("preview", {"waits"})

HeardAfterCall == \A c \in Utterances : requestAt[c] \notin RequestEnded => heard[c] = None
HostedIInv ==
  /\ RequestShape /\ RequestSlotsKept /\ NoCallAfterShutdown /\ HeardAfterCall
  /\ \A c \in Utterances : ReadRight(c)

-----------------------------------------------------------------------------
(* The language that is trusted.                                             *)
LEMMA DetectedIsFinite ==
  ASSUME NEW codes \in Seq(STRING)
  PROVE  IsFiniteSet(Detected(codes))
<1> DEFINE all == { Canonical(codes[i]) : i \in 1 .. Len(codes) }
           f == [i \in 1 .. Len(codes) |-> Canonical(codes[i])]
<1>1. Len(codes) \in Nat /\ DOMAIN codes = 1 .. Len(codes)
  BY LenProperties
<1>2. IsFiniteSet(1 .. Len(codes))
  BY <1>1, FS_Interval
<1>3. IsFiniteSet(all)
  <2>1. f \in [1 .. Len(codes) -> all]
    OBVIOUS
  <2>2. \A x \in all : \E i \in 1 .. Len(codes) : f[i] = x
    OBVIOUS
  <2> HIDE DEF f, all
  <2>3. f \in Surjection(1 .. Len(codes), all)
    BY <2>1, <2>2 DEF Surjection
  <2> QED BY <1>2, <2>3, FS_Surjection
<1>4. Detected(codes) \in SUBSET all
  BY <1>1 DEF Detected
<1> QED BY <1>3, <1>4, FS_Subset

(* Aliases never lead to a name, nor to "und".                               *)
LEMMA CanonicalCodes ==
  ASSUME NEW n
  PROVE  Canonical(n) = "und" => n = "und"
BY DEF Canonical, Aliases

LEMMA LanguageEarned ==
  ASSUME HostedAssumption, NEW codes \in Seq(STRING), Language(codes) \in Supported,
         NEW i \in DOMAIN codes, codes[i] # "und"
  PROVE  Canonical(codes[i]) = Language(codes)
<1> DEFINE D == Detected(codes)
<1>1. Canonical(codes[i]) \in D
  BY CanonicalCodes DEF Detected
<1>2. IsFiniteSet(D)
  BY DetectedIsFinite
<1>3. None \notin Supported
  BY DEF HostedAssumption
<1> HIDE DEF D
<1>4. CASE D \ Supported # {}
  <2>1. Language(codes) = CHOOSE l \in D \ Supported : TRUE
    BY <1>4 DEF Language, D
  <2>2. Language(codes) \in D \ Supported
    BY <1>4, <2>1
  <2> QED BY <2>2
<1>5. CASE D \ Supported = {}
  <2>1. Language(codes) = IF Cardinality(D) = 1 THEN CHOOSE l \in D : TRUE ELSE None
    BY <1>5 DEF Language, D
  <2>2. Cardinality(D) = 1
    BY <1>3, <2>1
  <2>3. PICK x : D = {x}
    BY <1>2, <2>2, FS_Singleton
  <2> QED BY <1>1, <2>1, <2>2, <2>3
<1> QED BY <1>4, <1>5

LEMMA NameEarned ==
  ASSUME HostedAssumption, NEW name, Normalized(name) \in Supported
  PROVE  Canonical(name) = Normalized(name) \/ (name \in DOMAIN Names /\ Names[name] = Normalized(name))
<1>1. None \notin Supported /\ "unsupported" \notin Supported /\ Supported \cap DOMAIN Aliases = {}
  BY DEF HostedAssumption
<1>2. CASE name \in DOMAIN Names
  <2>1. name \notin Unnamed
    BY <1>1 DEF Normalized
  <2> QED BY <1>2, <2>1 DEF Normalized
<1>3. CASE name \notin DOMAIN Names
  <2>1. Normalized(name) = name
    BY <1>1, <1>3 DEF Normalized
  <2>2. name \notin DOMAIN Aliases
    BY <1>1, <2>1
  <2> QED BY <2>1, <2>2 DEF Canonical
<1> QED BY <1>2, <1>3

LEMMA ReadEarnsTrust ==
  ASSUME HostedAssumption, NEW t \in Transcripts, provider = "whisper" => Len(t.named) = 1,
         Read(t).language \in Supported,
         NEW n \in { t.named[i] : i \in DOMAIN t.named } \ {"und"}
  PROVE  \/ Canonical(n) = Read(t).language
         \/ n \in DOMAIN Names /\ Names[n] = Read(t).language
<1>1. t.named \in Seq(STRING)
  BY DEF HostedAssumption
<1>2. PICK i \in DOMAIN t.named : n = t.named[i]
  OBVIOUS
<1>3. Len(t.named) \in Nat /\ DOMAIN t.named = 1 .. Len(t.named)
  BY <1>1, LenProperties
<1>4. CASE provider = "whisper"
  <2>1. Read(t).language = Normalized(t.named[1])
    BY <1>4 DEF Read, Result
  <2>2. n = t.named[1]
    BY <1>2, <1>3, <1>4
  <2> QED BY <2>1, <2>2, NameEarned
<1>5. CASE provider # "whisper"
  <2>1. Read(t).language = Language(t.named)
    BY <1>5 DEF Read, Result
  <2> QED BY <1>1, <1>2, <2>1, LanguageEarned
<1> QED BY <1>4, <1>5

LEMMA TrustOfResult ==
  ASSUME NEW text, NEW language
  PROVE  /\ Result(text, language).text = text /\ Result(text, language).language = language
         /\ Result(text, language).trusted = Trusts(text, language)
BY DEF Result

LEMMA TrustOfRead ==
  ASSUME NEW t
  PROVE  /\ Read(t).text = Words(t)
         /\ Read(t).trusted = (Words(t) # "" /\ Read(t).language \in Supported)
<1> DEFINE l == IF provider = "whisper" THEN Normalized(t.named[1]) ELSE Language(t.named)
<1>1. Read(t) = Result(Words(t), l)
  BY DEF Read
<1> HIDE DEF l
<1>2. Trusts(Words(t), l) = (Words(t) # "" /\ l \in Supported)
  BY DEF Trusts
<1>3. Read(t).language = l /\ Read(t).text = Words(t)
  BY <1>1, TrustOfResult
<1>4. Read(t).trusted = Trusts(Words(t), l)
  BY <1>1, TrustOfResult
<1> QED BY <1>2, <1>3, <1>4, Zenon

LEMMA HostedInvFollows == ASSUME HostedAssumption, HostedIInv PROVE HostedInv
<1>1. FinalsWaitForFinals
  BY DEF HostedIInv, RequestSlotsKept, Orderly, Kept, FinalsWaitForFinals
<1>2. ASSUME NEW c \in Utterances, requestAt[c] = "returned"
      PROVE  \/ heard[c] = None /\ transcript[c] = Nothing
             \/ /\ heard[c] \in Transcripts /\ transcript[c] = Read(heard[c])
                /\ provider = "whisper" => Len(heard[c].named) = 1
  BY <1>2 DEF HostedIInv, ReadRight
<1>3. TrustIsEarned
  <2> SUFFICES ASSUME NEW c \in Utterances, requestAt[c] = "returned", heard[c] # None,
                      transcript[c].language \in Supported
      PROVE  /\ \A n \in { heard[c].named[i] : i \in DOMAIN heard[c].named } \ {"und"} :
                  \/ Canonical(n) = transcript[c].language
                  \/ n \in DOMAIN Names /\ Names[n] = transcript[c].language
             /\ transcript[c].trusted = (transcript[c].text # "")
    BY DEF TrustIsEarned
  <2> DEFINE t == heard[c]
  <2>1. /\ t \in Transcripts /\ transcript[c] = Read(t)
        /\ provider = "whisper" => Len(t.named) = 1
    BY <1>2
  <2> HIDE DEF t
  <2>2. Read(t).trusted = (Read(t).text # "")
    <3>1. Read(t).language \in Supported
      BY <2>1 DEF t
    <3>2. (Words(t) # "" /\ Read(t).language \in Supported) = (Words(t) # "")
      BY <3>1
    <3> QED BY <3>2, TrustOfRead
  <2>3. \A n \in { t.named[i] : i \in DOMAIN t.named } \ {"und"} :
          \/ Canonical(n) = Read(t).language
          \/ n \in DOMAIN Names /\ Names[n] = Read(t).language
    BY <2>1, ReadEarnsTrust
  <2> QED BY <2>1, <2>2, <2>3 DEF t
<1>4. TrustNeedsWords
  <2> SUFFICES ASSUME NEW c \in Utterances, requestAt[c] = "returned", transcript[c].trusted
      PROVE  /\ heard[c] # None /\ heard[c].text # "" /\ transcript[c].language \in Supported
             /\ ~(provider = "whisper" /\ heard[c].silent)
    BY DEF TrustNeedsWords
  <2>1. ~Nothing.trusted
    BY TrustOfResult DEF Nothing, Trusts
  <2> DEFINE t == heard[c]
  <2>2. t \in Transcripts /\ transcript[c] = Read(t)
    BY <1>2, <2>1
  <2>3. t # None
    BY <2>2 DEF HostedAssumption
  <2> HIDE DEF t
  <2>4. Words(t) # "" /\ Read(t).language \in Supported
    <3>1. Read(t).trusted
      BY <2>2 DEF t
    <3> QED BY <3>1, TrustOfRead
  <2>5. t.text # "" /\ ~(provider = "whisper" /\ t.silent)
    BY <2>4 DEF Words
  <2> QED BY <2>2, <2>3, <2>4, <2>5 DEF t
<1> QED BY <1>1, <1>3, <1>4 DEF HostedInv, HostedIInv

-----------------------------------------------------------------------------
(* What a step of c leaves as it was.                                        *)
OthersAsk(c) ==
  /\ requestAt' \in [Utterances -> {"new", "waits", "calling"} \cup RequestEnded]
  /\ use' \in [Utterances -> {"final", "preview"}]
  /\ heard' = [d \in Utterances |-> heard'[d]] /\ transcript' = [d \in Utterances |-> transcript'[d]]
  /\ UNCHANGED Settings
  /\ \A d \in Utterances \ {c} :
       /\ requestAt'[d] = requestAt[d] /\ use'[d] = use[d]
       /\ heard'[d] = heard[d] /\ transcript'[d] = transcript[d]

LEMMA RequestStepKept ==
  ASSUME HostedIInv, NEW c \in Utterances, OthersAsk(c), RequestSlotsKept', NoCallAfterShutdown',
         requestAt'[c] \notin RequestEnded => heard'[c] = None, ReadRight(c)'
  PROVE  HostedIInv'
<1>1. ASSUME NEW d \in Utterances \ {c} PROVE ReadRight(d)'
  <2>1. /\ requestAt'[d] = requestAt[d] /\ heard'[d] = heard[d] /\ transcript'[d] = transcript[d]
        /\ provider' = provider /\ ReadRight(d)
    BY DEF OthersAsk, HostedIInv, Settings
  <2>2. Readable(heard[d])' = Readable(heard[d]) /\ Read(heard[d])' = Read(heard[d])
    BY <2>1 DEF Readable, Read, Words
  <2> QED BY <2>1, <2>2 DEF ReadRight
<1>2. HeardAfterCall'
  BY DEF OthersAsk, HostedIInv, HeardAfterCall
<1> QED BY <1>1, <1>2 DEF HostedIInv, RequestShape, OthersAsk

(* The slots of c's use change by what c does; the others stay as they are. *)
SlotsMove(c, m, holds, waits) ==
  /\ SlotsBecome(c, m)
  /\ requestAt'[c] = "calling" <=> holds
  /\ requestAt'[c] = "waits" <=> waits
  /\ Orderly(m, Utterances, IF UsesFinal(c) THEN FinalSlots ELSE PreviewSlots)
  /\ m.held = (SlotsOf(c).held \ {c}) \cup (IF holds THEN {c} ELSE {})
  /\ Waiters(m) = (Waiters(SlotsOf(c)) \ {c}) \cup (IF waits THEN {c} ELSE {})

LEMMA SlotsMoved ==
  ASSUME HostedIInv, NEW c \in Utterances, OthersAsk(c),
         requestAt[c] = "new" \/ use'[c] = use[c],
         NEW m, NEW holds \in BOOLEAN, NEW waits \in BOOLEAN, SlotsMove(c, m, holds, waits)
  PROVE  RequestSlotsKept'
<1> DEFINE mine == use'[c]
           Held(how) == Of(how, {"calling"})
           Waits(how) == Of(how, {"waits"})
<1>1. mine \in {"final", "preview"}
  BY DEF OthersAsk
<1>2. ASSUME NEW how \in {"final", "preview"}
      PROVE  /\ how = mine => /\ Held(how)' = (Held(how) \ {c}) \cup (IF holds THEN {c} ELSE {})
                              /\ Waits(how)' = (Waits(how) \ {c}) \cup (IF waits THEN {c} ELSE {})
             /\ how # mine => Held(how)' = Held(how) /\ Waits(how)' = Waits(how)
  BY DEF Of, OthersAsk, SlotsMove
<1>3. CASE mine = "final"
  <2>1. /\ final' = m /\ preview' = preview /\ Orderly(m, Utterances, FinalSlots)
        /\ m.held = (final.held \ {c}) \cup (IF holds THEN {c} ELSE {})
        /\ Waiters(m) = (Waiters(final) \ {c}) \cup (IF waits THEN {c} ELSE {})
    BY <1>3 DEF SlotsMove, SlotsBecome, UsesFinal, SlotsOf
  <2>2. /\ Of("final", {"calling"})' = (Of("final", {"calling"}) \ {c}) \cup (IF holds THEN {c} ELSE {})
        /\ Of("final", {"waits"})' = (Of("final", {"waits"}) \ {c}) \cup (IF waits THEN {c} ELSE {})
        /\ Of("preview", {"calling"})' = Of("preview", {"calling"})
        /\ Of("preview", {"waits"})' = Of("preview", {"waits"})
    BY <1>2, <1>3
  <2> QED BY <2>1, <2>2 DEF HostedIInv, RequestSlotsKept
<1>4. CASE mine = "preview"
  <2>1. /\ final' = final /\ preview' = m /\ Orderly(m, Utterances, PreviewSlots)
        /\ m.held = (preview.held \ {c}) \cup (IF holds THEN {c} ELSE {})
        /\ Waiters(m) = (Waiters(preview) \ {c}) \cup (IF waits THEN {c} ELSE {})
    BY <1>4 DEF SlotsMove, SlotsBecome, UsesFinal, SlotsOf
  <2>2. /\ Of("preview", {"calling"})' = (Of("preview", {"calling"}) \ {c}) \cup (IF holds THEN {c} ELSE {})
        /\ Of("preview", {"waits"})' = (Of("preview", {"waits"}) \ {c}) \cup (IF waits THEN {c} ELSE {})
        /\ Of("final", {"calling"})' = Of("final", {"calling"})
        /\ Of("final", {"waits"})' = Of("final", {"waits"})
    BY <1>2, <1>4
  <2> QED BY <2>1, <2>2 DEF HostedIInv, RequestSlotsKept
<1> QED BY <1>1, <1>3, <1>4

(* The slots c uses, and that c is in them if it holds one or waits for one. *)
LEMMA SlotsOfUse ==
  ASSUME HostedAssumption, HostedIInv, NEW c \in Utterances, use'[c] \in {"final", "preview"},
         requestAt[c] = "new" \/ use'[c] = use[c]
  PROVE  /\ IsFiniteSet(Utterances) /\ (IF UsesFinal(c) THEN FinalSlots ELSE PreviewSlots) \in Nat
         /\ Orderly(SlotsOf(c), Utterances, IF UsesFinal(c) THEN FinalSlots ELSE PreviewSlots)
         /\ c \in SlotsOf(c).held <=> requestAt[c] = "calling"
         /\ c \in Waiters(SlotsOf(c)) <=> requestAt[c] = "waits"
<1>1. IsFiniteSet(Utterances) /\ FinalSlots \in Nat /\ PreviewSlots \in Nat
  BY DEF HostedAssumption
<1>2. RequestSlotsKept
  BY DEF HostedIInv
<1>3. CASE use'[c] = "final"
  BY <1>1, <1>2, <1>3 DEF RequestSlotsKept, SlotsOf, UsesFinal, Of
<1>4. CASE use'[c] = "preview"
  BY <1>1, <1>2, <1>4 DEF RequestSlotsKept, SlotsOf, UsesFinal, Of
<1> QED BY <1>3, <1>4

-----------------------------------------------------------------------------
LEMMA AskedKeeps ==
  ASSUME HostedAssumption, HostedIInv, NEW c \in Utterances,
         NEW how \in {"final", "preview"}, NEW pcm, Asked(c, how, pcm)
  PROVE  HostedIInv'
<1>0. RequestShape /\ RequestSlotsKept /\ requestAt[c] = "new" /\ heard[c] = None
  BY DEF HostedIInv, HeardAfterCall, Asked, RequestEnded
<1>1. PICK state \in {"returned", "failed", "waits", "calling"} :
        requestAt' = [requestAt EXCEPT ![c] = state]
  BY DEF Asked, RequestEnds, RequestBecomes
<1>2. /\ use' = [use EXCEPT ![c] = how] /\ UNCHANGED <<Settings, closed, heard, late>>
      /\ transcript' = [transcript EXCEPT ![c] = transcript'[c]]
  BY <1>0 DEF Asked, RequestEnds, RequestShape
<1>3. OthersAsk(c) /\ requestAt'[c] = state /\ use'[c] = how /\ heard'[c] = None
  BY <1>0, <1>1, <1>2 DEF OthersAsk, RequestShape, RequestEnded
<1>4. ReadRight(c)'
  <2>1. state = "returned" => transcript'[c] = Nothing
    BY <1>0, <1>3 DEF Asked, RequestEnds, RequestBecomes, RequestShape
  <2> QED BY <1>3, <2>1 DEF ReadRight, Nothing, Result, Trusts
<1>5. RequestSlotsKept'
  <2>1. CASE KeepsSlots /\ state \in {"returned", "failed"}
    <3>1. \A x \in {"final", "preview"} :
            Of(x, {"calling"})' = Of(x, {"calling"}) /\ Of(x, {"waits"})' = Of(x, {"waits"})
      BY <1>0, <1>3, <2>1 DEF Of, OthersAsk
    <3> QED BY <1>0, <2>1, <3>1 DEF KeepsSlots, RequestSlotsKept
  <2>2. CASE /\ SlotsBecome(c, Acquire(SlotsOf(c), c))
             /\ RequestBecomes(c, IF Locked(SlotsOf(c)) THEN "waits" ELSE "calling")
    <3> DEFINE m == SlotsOf(c)
               n == IF UsesFinal(c) THEN FinalSlots ELSE PreviewSlots
    <3>1. /\ IsFiniteSet(Utterances) /\ n \in Nat /\ Orderly(m, Utterances, n)
          /\ c \notin m.held /\ c \notin Waiters(m)
      BY <1>0, <1>3, SlotsOfUse
    <3>2. state = IF Locked(m) THEN "waits" ELSE "calling"
      BY <1>0, <1>3, <2>2 DEF RequestBecomes, RequestShape
    <3> HIDE DEF m, n
    <3>3. /\ Orderly(Acquire(m, c), Utterances, n)
          /\ Acquire(m, c).held = IF Locked(m) THEN m.held ELSE m.held \cup {c}
          /\ Waiters(Acquire(m, c)) = IF Locked(m) THEN Waiters(m) \cup {c} ELSE Waiters(m)
      BY <3>1, AcquireCorrect
    <3>4. SlotsMove(c, Acquire(m, c), state = "calling", state = "waits")
      <4>1. /\ Acquire(m, c).held = (m.held \ {c}) \cup (IF state = "calling" THEN {c} ELSE {})
            /\ Waiters(Acquire(m, c)) = (Waiters(m) \ {c}) \cup (IF state = "waits" THEN {c} ELSE {})
        <5>1. CASE Locked(m)
          BY <3>1, <3>2, <3>3, <5>1
        <5>2. CASE ~Locked(m)
          BY <3>1, <3>2, <3>3, <5>2
        <5> QED BY <5>1, <5>2
      <4> QED BY <1>3, <2>2, <3>3, <4>1 DEF SlotsMove, m, n
    <3> QED BY <1>0, <1>3, <3>4, SlotsMoved
  <2> QED BY <1>0, <1>3, <2>1, <2>2 DEF Asked, RequestEnds, RequestBecomes, RequestShape
<1>6. NoCallAfterShutdown'
  BY <1>2 DEF HostedIInv, NoCallAfterShutdown, Settings
<1> QED BY <1>3, <1>4, <1>5, <1>6, RequestStepKept

LEMMA AdmittedKeeps ==
  ASSUME HostedAssumption, HostedIInv, NEW c \in Utterances, Admitted(c)
  PROVE  HostedIInv'
<1> DEFINE m == SlotsOf(c)
           n == IF UsesFinal(c) THEN FinalSlots ELSE PreviewSlots
           r == Resumed(m, c)
<1>0. /\ RequestShape /\ RequestSlotsKept /\ requestAt[c] = "waits" /\ heard[c] = None
      /\ use' = use /\ c \in m.woken
  BY DEF HostedIInv, HeardAfterCall, Admitted, RequestEnded
<1>1. /\ IsFiniteSet(Utterances) /\ n \in Nat /\ Orderly(m, Utterances, n)
      /\ c \notin m.held /\ c \in Waiters(m) /\ use'[c] = use[c]
  BY <1>0, SlotsOfUse DEF RequestShape
<1>2. IF Refused
      THEN /\ requestAt' = [requestAt EXCEPT ![c] = "failed"]
           /\ transcript' = [transcript EXCEPT ![c] = NotReady]
           /\ SlotsBecome(c, Release(r, c)) /\ UNCHANGED late
      ELSE /\ requestAt' = [requestAt EXCEPT ![c] = "calling"] /\ SlotsBecome(c, r)
           /\ UNCHANGED transcript
           /\ late' = IF closed THEN late \cup {c} ELSE late
  BY DEF Admitted, RequestEnds, RequestBecomes
<1>3. UNCHANGED <<Settings, closed, heard>>
  BY DEF Admitted
<1> HIDE DEF m, n
<1>4. Orderly(r, Utterances, n) /\ r.held = m.held \cup {c} /\ Waiters(r) = Waiters(m) \ {c}
  BY <1>0, <1>1, ResumedCorrect
<1> HIDE DEF r
<1>5. CASE Refused
  <2>1. OthersAsk(c) /\ requestAt'[c] = "failed" /\ SlotsBecome(c, Release(r, c)) /\ UNCHANGED late
    BY <1>0, <1>2, <1>3, <1>5 DEF OthersAsk, RequestShape, RequestEnded
  <2>2. /\ Orderly(Release(r, c), Utterances, n)
        /\ Release(r, c).held = r.held \ {c} /\ Waiters(Release(r, c)) = Waiters(r)
    <3>1. c \in r.held
      BY <1>4
    <3> QED BY <1>1, <1>4, <3>1, ReleaseCorrect
  <2>3. /\ Release(r, c).held = (m.held \ {c}) \cup {}
        /\ Waiters(Release(r, c)) = (Waiters(m) \ {c}) \cup {}
    BY <1>1, <1>4, <2>2
  <2>4. SlotsMove(c, Release(r, c), FALSE, FALSE)
    BY <2>1, <2>2, <2>3 DEF SlotsMove, m, n
  <2>5. RequestSlotsKept'
    BY <1>1, <2>1, <2>4, SlotsMoved
  <2>6. NoCallAfterShutdown' /\ ReadRight(c)'
    BY <1>3, <2>1 DEF HostedIInv, NoCallAfterShutdown, ReadRight, Settings
  <2>7. requestAt'[c] \in RequestEnded
    BY <2>1 DEF RequestEnded
  <2> QED BY <2>1, <2>5, <2>6, <2>7, RequestStepKept
<1>6. CASE ~Refused
  <2>1. OthersAsk(c) /\ requestAt'[c] = "calling" /\ SlotsBecome(c, r) /\ heard'[c] = None
        /\ late' = IF closed THEN late \cup {c} ELSE late
    BY <1>0, <1>2, <1>3, <1>6 DEF OthersAsk, RequestShape
  <2>2. /\ r.held = (m.held \ {c}) \cup {c} /\ Waiters(r) = (Waiters(m) \ {c}) \cup {}
    BY <1>1, <1>4
  <2>3. SlotsMove(c, r, TRUE, FALSE)
    BY <1>4, <2>1, <2>2 DEF SlotsMove, m, n
  <2>4. RequestSlotsKept'
    BY <1>1, <2>1, <2>3, SlotsMoved
  <2>5. NoCallAfterShutdown' /\ ReadRight(c)'
    BY <1>3, <1>6, <2>1 DEF HostedIInv, NoCallAfterShutdown, ReadRight, Settings, Refused
  <2> QED BY <2>1, <2>4, <2>5, RequestStepKept
<1> QED BY <1>5, <1>6

(* A request that ends gives back what it held or waited for.                *)
LEMMA RequestOver ==
  ASSUME HostedAssumption, HostedIInv, NEW c \in Utterances, requestAt[c] \in {"waits", "calling"},
         use' = use, SlotsBecome(c, GivesBack(c)), UNCHANGED <<Settings, late>>,
         OthersAsk(c), requestAt'[c] \in RequestEnded, ReadRight(c)'
  PROVE  HostedIInv'
<1> DEFINE m == SlotsOf(c)
           n == IF UsesFinal(c) THEN FinalSlots ELSE PreviewSlots
           r == GivesBack(c)
<1>1. /\ IsFiniteSet(Utterances) /\ n \in Nat /\ Orderly(m, Utterances, n)
      /\ c \in m.held <=> requestAt[c] = "calling"
      /\ c \in Waiters(m) <=> requestAt[c] = "waits"
  BY SlotsOfUse DEF HostedIInv, RequestShape
<1>2. r = IF requestAt[c] = "calling" THEN Release(m, c) ELSE Abandon(m, c)
  BY DEF GivesBack
<1> HIDE DEF m, n, r
<1>3. Orderly(r, Utterances, n) /\ r.held = (m.held \ {c}) \cup {} /\ Waiters(r) = (Waiters(m) \ {c}) \cup {}
  <2>1. CASE requestAt[c] = "calling"
    <3>1. c \in m.held /\ c \notin Waiters(m)
      BY <1>1, <2>1
    <3>2. /\ Orderly(Release(m, c), Utterances, n)
          /\ Release(m, c).held = m.held \ {c} /\ Waiters(Release(m, c)) = Waiters(m)
      BY <1>1, <3>1, ReleaseCorrect
    <3> QED BY <1>2, <2>1, <3>1, <3>2
  <2>2. CASE requestAt[c] = "waits"
    <3>1. c \notin m.held /\ c \in Waiters(m)
      BY <1>1, <2>2
    <3>2. /\ Orderly(Abandon(m, c), Utterances, n)
          /\ Abandon(m, c).held = m.held /\ Waiters(Abandon(m, c)) = Waiters(m) \ {c}
      BY <1>1, <3>1, AbandonCorrect
    <3> QED BY <1>2, <2>2, <3>1, <3>2
  <2> QED BY <2>1, <2>2
<1>4. requestAt'[c] \notin {"calling", "waits"}
  BY DEF RequestEnded
<1>5. SlotsMove(c, r, FALSE, FALSE)
  BY <1>3, <1>4 DEF SlotsMove, m, n, r
<1>6. RequestSlotsKept'
  BY <1>5, SlotsMoved
<1>7. NoCallAfterShutdown'
  BY DEF HostedIInv, NoCallAfterShutdown, Settings
<1> QED BY <1>6, <1>7, RequestStepKept

LEMMA AnswersKeeps ==
  ASSUME HostedAssumption, HostedIInv, NEW c \in Utterances, NEW t \in Transcripts,
         ServiceAnswers(c, t), provider = "whisper" => Len(t.named) = 1
  PROVE  HostedIInv'
<1>1. /\ requestAt[c] = "calling" /\ use' = use /\ SlotsBecome(c, Release(SlotsOf(c), c))
      /\ UNCHANGED <<Settings, closed, late>> /\ heard' = [heard EXCEPT ![c] = t]
  BY DEF ServiceAnswers, Returns
<1>2. RequestShape
  BY DEF HostedIInv
<1>3. ASSUME NEW state \in {"returned", "failed"}, NEW what, RequestEnds(c, state, what),
             state = "returned" => Readable(t) /\ what = Read(t)
      PROVE  HostedIInv'
  <2>1. /\ OthersAsk(c) /\ requestAt'[c] = state /\ heard'[c] = t /\ transcript'[c] = what
        /\ provider' = provider
    BY <1>1, <1>2, <1>3 DEF OthersAsk, RequestShape, RequestEnded, Settings, RequestEnds, RequestBecomes
  <2>2. Readable(t)' = Readable(t) /\ Read(t)' = Read(t)
    BY <2>1 DEF Readable, Read, Words
  <2>3. ReadRight(c)'
    BY <1>3, <2>1, <2>2 DEF ReadRight
  <2>4. SlotsBecome(c, GivesBack(c))
    BY <1>1 DEF GivesBack
  <2>5. requestAt[c] \in {"waits", "calling"} /\ requestAt'[c] \in RequestEnded
    BY <1>1, <2>1 DEF RequestEnded
  <2>6. UNCHANGED <<Settings, late>>
    BY <1>1
  <2> QED BY <1>1, <2>1, <2>3, <2>4, <2>5, <2>6, RequestOver
<1>4. CASE Readable(t)
  BY <1>3, <1>4 DEF ServiceAnswers
<1>5. CASE ~Readable(t)
  BY <1>3, <1>5 DEF ServiceAnswers
<1> QED BY <1>4, <1>5

LEMMA RequestStops ==
  ASSUME HostedAssumption, HostedIInv, NEW c \in Utterances, NEW state \in {"failed", "left"}, NEW what,
         requestAt[c] \in {"waits", "calling"}, use' = use, SlotsBecome(c, GivesBack(c)),
         RequestEnds(c, state, what), UNCHANGED <<Settings, closed, heard, late>>
  PROVE  HostedIInv'
<1>1. OthersAsk(c) /\ requestAt'[c] = state
  BY DEF HostedIInv, OthersAsk, RequestShape, RequestEnded, RequestEnds, RequestBecomes
<1>2. ReadRight(c)'
  BY <1>1 DEF ReadRight
<1>3. requestAt'[c] \in RequestEnded
  BY <1>1 DEF RequestEnded
<1> QED BY <1>1, <1>2, <1>3, RequestOver

LEMMA EndingKeeps ==
  ASSUME HostedAssumption, HostedIInv, NEW c \in Utterances, ServiceEnds(c) \/ Deadline(c) \/ Cancelled(c)
  PROVE  HostedIInv'
<1>1. ASSUME NEW e \in ServiceErrors, ServiceRaises(c, e) PROVE HostedIInv'
  <2>1. /\ requestAt[c] \in {"waits", "calling"} /\ use' = use /\ SlotsBecome(c, GivesBack(c))
        /\ UNCHANGED <<Settings, closed, heard, late>>
    BY <1>1 DEF ServiceRaises, Returns, GivesBack
  <2>2. PICK what : RequestEnds(c, "failed", what)
    BY <1>1 DEF ServiceRaises
  <2> QED BY <2>1, <2>2, RequestStops
<1>2. CASE Deadline(c)
  <2>1. PICK what : Stops(c, "failed", what)
    BY <1>2 DEF Deadline
  <2>2. /\ requestAt[c] \in {"waits", "calling"} /\ use' = use /\ SlotsBecome(c, GivesBack(c))
        /\ RequestEnds(c, "failed", what) /\ UNCHANGED <<Settings, closed, heard, late>>
    BY <2>1 DEF Stops
  <2> QED BY <2>2, RequestStops
<1>3. CASE Cancelled(c)
  <2>1. PICK what : Stops(c, "left", what)
    BY <1>3 DEF Cancelled
  <2>2. /\ requestAt[c] \in {"waits", "calling"} /\ use' = use /\ SlotsBecome(c, GivesBack(c))
        /\ RequestEnds(c, "left", what) /\ UNCHANGED <<Settings, closed, heard, late>>
    BY <2>1 DEF Stops
  <2> QED BY <2>2, RequestStops
<1>4. CASE ServiceEnds(c)
  <2>1. CASE \E t \in Transcripts :
               (provider = "whisper" => Len(t.named) = 1) /\ ServiceAnswers(c, t)
    BY <2>1, AnswersKeeps
  <2> QED BY <1>1, <1>4, <2>1 DEF ServiceEnds
<1> QED BY <1>2, <1>3, <1>4

-----------------------------------------------------------------------------
LEMMA HostedInitially == ASSUME HostedAssumption, HostedInit PROVE HostedIInv
<1>1. RequestSlotsKept
  <2>1. /\ Orderly(Semaphore(FinalSlots), Utterances, FinalSlots)
        /\ Semaphore(FinalSlots).held = {} /\ Waiters(Semaphore(FinalSlots)) = {}
    BY SemaphoreOrderly DEF HostedAssumption
  <2>2. /\ Orderly(Semaphore(PreviewSlots), Utterances, PreviewSlots)
        /\ Semaphore(PreviewSlots).held = {} /\ Waiters(Semaphore(PreviewSlots)) = {}
    BY SemaphoreOrderly DEF HostedAssumption
  <2>3. \A how : Of(how, {"calling"}) = {} /\ Of(how, {"waits"}) = {}
    BY DEF HostedInit, Of
  <2> QED BY <2>1, <2>2, <2>3 DEF HostedInit, RequestSlotsKept
<1> QED BY <1>1 DEF HostedInit, HostedIInv, RequestShape, NoCallAfterShutdown, HeardAfterCall, ReadRight

LEMMA HostedKept ==
  ASSUME HostedAssumption, HostedIInv, [HostedNext]_requestVars
  PROVE  HostedIInv'
<1>1. CASE Shutdown \/ UNCHANGED requestVars
  <2>1. UNCHANGED <<Settings, use, requestAt, final, preview, heard, late, transcript>>
    BY <1>1 DEF Shutdown, requestVars, Settings
  <2>2. RequestShape' /\ RequestSlotsKept' /\ NoCallAfterShutdown' /\ HeardAfterCall'
    BY <2>1 DEF HostedIInv, RequestShape, RequestSlotsKept, NoCallAfterShutdown, HeardAfterCall, Of, Settings
  <2>3. ASSUME NEW c \in Utterances PROVE ReadRight(c)'
    <3>1. Readable(heard[c])' = Readable(heard[c]) /\ Read(heard[c])' = Read(heard[c])
      BY <2>1 DEF Readable, Read, Words, Settings
    <3> QED BY <2>1, <3>1 DEF HostedIInv, ReadRight, Settings
  <2> QED BY <2>2, <2>3 DEF HostedIInv
<1>2. ASSUME NEW c \in Utterances, Admitted(c) \/ ServiceEnds(c) \/ Deadline(c) \/ Cancelled(c)
      PROVE  HostedIInv'
  BY <1>2, AdmittedKeeps, EndingKeeps
<1>3. ASSUME NEW c \in Utterances, NEW how \in {"final", "preview"}, NEW pcm, Asked(c, how, pcm)
      PROVE  HostedIInv'
  BY <1>3, AskedKeeps
<1> QED BY <1>1, <1>2, <1>3 DEF HostedNext

-----------------------------------------------------------------------------
(* The accounts of the gate are right at every moment, however many requests come, go,
   are refused, time out or are cancelled: nobody is admitted beyond the limit, every
   request under way is counted until its task has ended, and the slots are exactly those
   of the tasks that use or await one (execute_profile 145-184, execute 84-96, produce
   227-249).                                                                 *)
THEOREM GateCorrect == ASSUME GateAssumption PROVE Spec => []GateInv
<1>1. IInv => GateInv
  BY DEF IInv, Types, SlotsOfTasks, Admission, GateInv, TypeOK, SlotsAreTasks, Orderly, Kept,
         Stages, Works, Parts, TasksHolding, Queued
<1> QED BY <1>1, Inductive, PTL

(* Never are more requests at the provider, or on their way to it with a slot, than
   NOVEL_MODEL_PROFILE_MAX_CONCURRENCY allows (gate.slots, 62-66).           *)
THEOREM ProviderLimit ==
  ASSUME GateAssumption PROVE Spec => [](Cardinality(AtProvider) <= Concurrency)
<1>1. IInv => Cardinality(AtProvider) <= Concurrency
  <2> SUFFICES ASSUME IInv PROVE Cardinality(AtProvider) <= Concurrency
    OBVIOUS
  <2>1. /\ slots.held \in SUBSET Requests /\ AtProvider \in SUBSET slots.held
        /\ slots.value \in Nat /\ slots.woken \in SUBSET Requests
        /\ slots.value + Cardinality(slots.woken) + Cardinality(slots.held) = Concurrency
    BY DEF IInv, SlotsOfTasks, Orderly, Kept, Semaphores, Conserved, TasksHolding, AtProvider
  <2>2. IsFiniteSet(slots.held) /\ IsFiniteSet(slots.woken)
    BY <2>1, FS_Subset DEF GateAssumption
  <2>3. Cardinality(AtProvider) <= Cardinality(slots.held)
    BY <2>1, <2>2, FS_Subset
  <2>4. /\ Cardinality(slots.held) \in Nat /\ Cardinality(slots.woken) \in Nat
        /\ Cardinality(AtProvider) \in Nat
    BY <2>1, <2>2, FS_Subset, FS_CardinalityType
  <2> QED BY <2>1, <2>3, <2>4
<1> QED BY <1>1, Inductive, PTL

(* "A waiting request whose client is gone starts no paid execution when a slot becomes
   free": once its disconnect has been seen, no request goes to the provider, though its
   execution may hold a slot already (execute 84-88).                        *)
THEOREM DisconnectAlwaysWins == ASSUME GateAssumption PROVE Spec => DisconnectWins
<1>1. ASSUME Types, Course, [Next]_vars, NEW c \in Requests,
             work[c] # "provider", work'[c] = "provider"
      PROVE  c \notin observed
  <2>1. CASE UNCHANGED vars
    BY <1>1, <2>1 DEF vars
  <2>2. ASSUME NEW d \in Requests, Steps(d) PROVE c \notin observed
    <3>1. CASE Ask(d) \/ Granted(d)
      BY <1>1, <3>1 DEF Ask, Granted, Settled, Types, Course, To
    <3>2. CASE Execute(d)
      BY <1>1, <3>2 DEF Execute, MayExecute, Types, To
    <3>3. CASE \/ Admit(d) \/ Begin(d) \/ ExecutionEnds(d) \/ Produce(d) \/ ProducerLeaves(d)
               \/ Report(d) \/ Finish(d) \/ WorkCancelled(d)
      BY <1>1, <3>3 DEF Admit, Begin, ExecutionEnds, Produce, ProducerLeaves, Report, Finish,
                        WorkCancelled, Types, To
    <3>4. CASE \/ Disconnect(d) \/ Watch(d) \/ RaceEnds(d) \/ DeadlinePasses(d) \/ Send(d)
               \/ ResponseCancelled(d) \/ Cleaned(d) \/ CleanupCancelled(d)
      BY <1>1, <3>4 DEF Disconnect, Watch, RaceEnds, DeadlinePasses, Send,
                        ResponseCancelled, Cleaned, CleanupCancelled
    <3> QED BY <2>2, <3>1, <3>2, <3>3, <3>4 DEF Steps
  <2> QED BY <1>1, <2>1, <2>2 DEF Next, Rests
<1>2. IInv /\ [Next]_vars =>
        [ \A c \in Requests :
            work[c] # "provider" /\ work'[c] = "provider" => c \notin observed ]_vars
  BY <1>1 DEF IInv
<1> QED BY <1>2, Inductive, PTL DEF Spec, DisconnectWins

(* The pool and the store are right at every moment: a place at a provider is held exactly by
   the calls under way there, and active_calls counts them, however calls fall through, wait,
   fail or are cancelled (_invoke 196-234); the store has one entry for a request id and no
   more than it may, retries of one request id never translate at the same time, and an
   answer is a translation of the payload that was sent (execute 47-67, retry 268-285). *)
THEOREM CallsCorrect ==
  ASSUME PoolAssumption, StoreAssumption PROVE PoolSpec /\ StoreSpec => []CallsInv
<1>1. PoolSpec => []PoolIInv
  <2>1. PoolInit => PoolIInv
    BY PoolInitially
  <2>2. PoolIInv /\ [PoolNext]_poolVars => PoolIInv'
    BY PoolKept
  <2> QED BY <2>1, <2>2, PTL DEF PoolSpec
<1>2. StoreSpec => []StoreIInv
  <2>1. StoreInit => StoreIInv
    BY StoreInitially
  <2>2. StoreIInv /\ [StoreNext]_storeVars => StoreIInv'
    BY StoreStepKept
  <2> QED BY <2>1, <2>2, PTL DEF StoreSpec
<1>3. PoolIInv /\ StoreIInv => CallsInv
  BY PoolInvFollows, StoreInvFollows DEF CallsInv
<1> QED BY <1>1, <1>2, <1>3, PTL

(* No step begins a call in vain: none at a provider that cools down, also for calls that
   chose it or queued for it before its failure (_invoke 213-214), and none for a retry whose
   answer is stored, also after it has waited for its lock (execute 62-64).  *)
THEOREM NoCallEverInVain ==
  ASSUME PoolAssumption, StoreAssumption PROVE PoolSpec /\ StoreSpec => NoCallInVain
<1>1. PoolInit => PoolIInv
  BY PoolInitially
<1>2. StoreInit => StoreIInv
  BY StoreInitially
<1>3. PoolIInv /\ [PoolNext]_poolVars => PoolIInv' /\ CoolingIsLeftAlone
  BY PoolKept
<1>4. StoreIInv /\ [StoreNext]_storeVars => StoreIInv' /\ NotTwice
  BY StoreStepKept, StoreNotTwice
<1>5. PoolIInv /\ StoreIInv /\ [PoolNext]_poolVars /\ [StoreNext]_storeVars
        => [CoolingIsLeftAlone /\ NotTwice]_<<poolVars, storeVars>>
  BY <1>3, <1>4
<1>6. PoolIInv /\ [PoolNext]_poolVars => PoolIInv'
  BY <1>3
<1>7. StoreIInv /\ [StoreNext]_storeVars => StoreIInv'
  BY <1>4
<1> QED BY <1>1, <1>2, <1>5, <1>6, <1>7, PTL DEF PoolSpec, StoreSpec, NoCallInVain

(* What a call for an utterance holds, asks and returns is right at every moment: the slots
   are those of the calls that have one, an attempt is followed by another only where that
   may help and not too often, and a translation returned is the last attempt's
   (translate 105-181, _translate_with_retries 192-235); a final recognition waits for final
   ones alone, no call of transcribe begins after shutdown, and a language is trusted only
   with words and if the service named that one and no other (transcribe_pcm). *)
THEOREM UtterancesCorrect ==
  ASSUME TranslationAssumption, HostedAssumption
  PROVE  TranslationSpec /\ HostedSpec => []UtteranceInv
<1>1. TranslationSpec => []TranslationIInv
  <2>1. TranslationInit => TranslationIInv
    BY TranslationInitially
  <2>2. TranslationIInv /\ [TranslationNext]_callVars => TranslationIInv'
    BY TranslationKept
  <2> QED BY <2>1, <2>2, PTL DEF TranslationSpec
<1>2. HostedSpec => []HostedIInv
  <2>1. HostedInit => HostedIInv
    BY HostedInitially
  <2>2. HostedIInv /\ [HostedNext]_requestVars => HostedIInv'
    BY HostedKept
  <2> QED BY <2>1, <2>2, PTL DEF HostedSpec
<1>3. TranslationIInv /\ HostedIInv => UtteranceInv
  BY TranslationInvFollows, HostedInvFollows DEF UtteranceInv
<1> QED BY <1>1, <1>2, <1>3, PTL
=============================================================================
