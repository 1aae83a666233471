-------------------------- MODULE VoiceStream_proofs --------------------------
(***************************************************************************)
(* What holds of a voice stream for every number of utterances, every      *)
(* queue capacity and every mode.                                          *)
(*                                                                         *)
(* First its types, the capacity of its event queue and the balance of the *)
(* final queue's join counter: the building blocks, each with what it does *)
(* to the part of the invariant it touches, then one step per action.      *)
(*                                                                         *)
(* Then its safety: the outcomes of its utterances, the limits and the     *)
(* order of its final queue, the one recognition at a time, and what is    *)
(* quiet once the stream has closed. That invariant has two halves. The    *)
(* first is about control: who terminates the stream, and when the worker  *)
(* can no longer accept speech. The second is about the jobs: who owns     *)
(* them, in which order they wait and which of them have their outcome.    *)
(* Each part of it is a definition with the lemma that every step keeps    *)
(* it, given the parts before it.                                          *)
(***************************************************************************)
EXTENDS VoiceStream, FiniteSetTheorems, SequenceTheorems, WellFoundedInduction, TLAPS

(* The finalizer has a job in its hands exactly while it works on it.        *)
HandsInv == active = NoUtterance <=> fpc \in {"get", "stopped", "dead"}

(* The part of the invariant about accepted jobs.                            *)
JobInv == JobTypes /\ FinalizerTypes /\ HandsInv /\ JoinCountsJobs

Inv == TypeOK /\ HandsInv /\ JoinCountsJobs

-----------------------------------------------------------------------------
(* Numbers and sets of utterances. *)

LEMMA LeastNumber ==
  ASSUME NEW S, S \subseteq Nat, S # {}
  PROVE  \E x \in S : \A y \in S : x <= y
<1>1. PICK x \in S : \A y \in S : ~(<<y, x>> \in OpToRel(<, Nat))
  BY NatLessThanWellFounded, WFMin, Zenon
<1>2. \A y \in S : ~(y < x)
  BY <1>1 DEF OpToRel
<1> QED BY <1>2

LEMMA MinIsLeast ==
  ASSUME NEW S, S \subseteq Utterances, S # {}
  PROVE  Min(S) \in S /\ \A y \in S : Min(S) <= y
<1>1. S \subseteq Nat
  BY CapacityAssumption DEF Utterances
<1> QED BY <1>1, LeastNumber DEF Min

LEMMA MaxIsGreatest ==
  ASSUME NEW S, S \subseteq Utterances, S # {}
  PROVE  Max(S) \in S /\ \A y \in S : y <= Max(S)
<1> DEFINE mirrored == { MaxUtterances - u : u \in S }
<1>1. \A u \in S : MaxUtterances - u \in Nat
  BY CapacityAssumption DEF Utterances
<1>2. mirrored \subseteq Nat /\ mirrored # {}
  BY <1>1
<1>3. PICK x \in mirrored : \A y \in mirrored : x <= y
  <2> HIDE DEF mirrored
  <2> QED BY <1>2, LeastNumber
<1>4. PICK m \in S : x = MaxUtterances - m
  OBVIOUS
<1>5. \A y \in S : MaxUtterances - y \in mirrored
  OBVIOUS
<1>6. \A y \in S : y <= m
  BY <1>3, <1>4, <1>5, CapacityAssumption DEF Utterances
<1> QED BY <1>6 DEF Max

LEMMA UtteranceSets ==
  ASSUME NEW S, S \subseteq Utterances
  PROVE  IsFiniteSet(S) /\ Cardinality(S) \in Nat
<1>1. IsFiniteSet(Utterances)
  BY CapacityAssumption, FS_Interval DEF Utterances
<1> QED BY <1>1, FS_Subset, FS_CardinalityType

LEMMA UtteranceNumbers ==
  /\ Utterances \subseteq Nat \ {0} /\ Utterances \subseteq Identities
  /\ NoUtterance \in Identities /\ NoUtterance \notin Utterances
BY CapacityAssumption DEF Utterances, Identities, NoUtterance

-----------------------------------------------------------------------------
(* Events. *)

LEMMA EmitRowTypes ==
  ASSUME EmitTypes, NEW kinds \in Seq(EventKinds), NEW u \in Identities,
         EmitRow(kinds, u)
  PROVE  EmitTypes'
<1> DEFINE n == IF Fits(Len(kinds)) THEN Len(kinds) ELSE Space
           row == [i \in 1 .. n |-> Waiting(kinds[i])]
<1>1. Space \in Nat /\ Len(events) \in Nat /\ Len(kinds) \in Nat
  BY CapacityAssumption DEF EmitTypes, Space
<1>2. n \in Nat /\ n <= Len(kinds) /\ n <= Space
  BY <1>1 DEF Fits
<1>3. /\ events' = events \o row
      /\ last' = IF n = 0 THEN last ELSE [kind |-> kinds[n], utterance |-> u]
      /\ terminals' = IF u # NoUtterance /\ n # 0 /\ kinds[n] \in Outcomes
                      THEN [terminals EXCEPT ![u] = @ + 1] ELSE terminals
      /\ overflowed' = (overflowed \/ n < Len(kinds))
  BY DEF EmitRow
<1> HIDE DEF n
<1>4. row \in Seq({"EVENT", "STREAM_CLOSED"}) /\ Len(row) = n
  <2>1. \A i \in 1 .. n : Waiting(kinds[i]) \in {"EVENT", "STREAM_CLOSED"}
    BY DEF Waiting
  <2> QED BY <1>2, <2>1
<1>5. events' \in Seq({"EVENT", "STREAM_CLOSED"}) /\ Len(events') <= EventCapacity
  <2> HIDE DEF row
  <2> QED BY <1>1, <1>2, <1>3, <1>4, CapacityAssumption DEF EmitTypes, Space
<1>6. last' \in [kind : EventKinds, utterance : Identities]
  BY <1>2, <1>3 DEF EmitTypes
<1>7. terminals' \in [Utterances -> Nat] /\ overflowed' \in BOOLEAN
  <2>1. terminals' \in [Utterances -> Nat]
    <3>1. terminals \in [Utterances -> Nat]
      BY DEF EmitTypes
    <3>2. CASE u = NoUtterance
      BY <1>3, <3>1, <3>2
    <3>3. CASE u \in Utterances
      <4>1. [terminals EXCEPT ![u] = @ + 1] \in [Utterances -> Nat]
        BY <3>1, <3>3
      <4> QED BY <1>3, <3>1, <4>1
    <3> QED BY <3>2, <3>3 DEF Identities
  <2>2. overflowed' \in BOOLEAN
    BY <1>3, Zenon
  <2> QED BY <2>1, <2>2
<1> QED BY <1>5, <1>6, <1>7 DEF EmitTypes

LEMMA EmitFailuresTypes ==
  ASSUME EmitTypes, NEW jobs, jobs \subseteq Utterances, EmitFailures(jobs)
  PROVE  EmitTypes'
<1> DEFINE told == Announced(jobs)
           n == Cardinality(told)
           row == [i \in 1 .. n |-> "EVENT"]
<1>1. Space \in Nat /\ Len(events) \in Nat
  BY CapacityAssumption DEF EmitTypes, Space
<1>2. told \subseteq jobs /\ n \in Nat
  BY UtteranceSets DEF Announced
<1>3. n <= Space
  <2>1. CASE told = {}
    BY <1>1, <2>1, FS_EmptySet
  <2>2. CASE told # {}
    <3> DEFINE m == Max(told)
               upto == { v \in jobs : v <= m }
    <3>1. m \in told /\ \A v \in told : v <= m
      BY <1>2, <2>2, MaxIsGreatest
    <3>2. Cardinality(upto) <= Space
      BY <3>1 DEF Announced
    <3>3. told \subseteq upto /\ upto \subseteq Utterances
      BY <1>2, <3>1
    <3>4. Cardinality(told) <= Cardinality(upto)
      BY <3>3, UtteranceSets, FS_Subset
    <3> QED BY <1>1, <1>2, <3>2, <3>3, <3>4, UtteranceSets
  <2> QED BY <2>1, <2>2
<1>4. /\ events' = events \o row
      /\ last' = IF told = {} THEN last ELSE [kind |-> "FAILED", utterance |-> Max(told)]
      /\ terminals' = [u \in Utterances |-> IF u \in told THEN terminals[u] + 1 ELSE terminals[u]]
      /\ overflowed' = (overflowed \/ told # jobs)
  BY DEF EmitFailures
<1> HIDE DEF told, n
<1>5. row \in Seq({"EVENT", "STREAM_CLOSED"}) /\ Len(row) = n
  BY <1>2
<1>6. events' \in Seq({"EVENT", "STREAM_CLOSED"}) /\ Len(events') <= EventCapacity
  <2> HIDE DEF row
  <2> QED BY <1>1, <1>2, <1>3, <1>4, <1>5, CapacityAssumption DEF EmitTypes, Space
<1>7. last' \in [kind : EventKinds, utterance : Identities]
  <2>1. told # {} => Max(told) \in Identities
    BY <1>2, MaxIsGreatest, UtteranceNumbers
  <2>2. "FAILED" \in EventKinds
    BY DEF EventKinds, Outcomes
  <2> QED BY <1>4, <2>1, <2>2 DEF EmitTypes
<1>8. terminals' \in [Utterances -> Nat] /\ overflowed' \in BOOLEAN
  <2>1. terminals' \in [Utterances -> Nat]
    BY <1>4 DEF EmitTypes
  <2>2. overflowed' \in BOOLEAN
    BY <1>4, Zenon
  <2> QED BY <2>1, <2>2
<1> QED BY <1>6, <1>7, <1>8 DEF EmitTypes

LEMMA EmitTypesStay == EmitTypes /\ UNCHANGED emitVars => EmitTypes'
BY DEF EmitTypes, emitVars

(* The rows the code emits.                                                  *)
LEMMA Rows ==
  /\ \A k \in EventKinds, j \in EventKinds : <<k>> \in Seq(EventKinds) /\ <<k, j>> \in Seq(EventKinds)
  /\ \A r \in Seq(EventKinds) : r \o Announcement \in Seq(EventKinds)
<1>1. Announcement \in Seq(EventKinds)
  BY DEF Announcement, EventKinds, Outcomes
<1> QED BY <1>1

LEMMA KindsOfEvents ==
  /\ {"COMPLETED", "FAILED", "NO_SPEECH", "STREAM_READY", "SPEECH_STARTED",
      "TRANSCRIPT_PARTIAL", "TRANSCRIPT_FINAL", "BACKPRESSURE", "STREAM_CLOSED"} = EventKinds
BY DEF EventKinds, Outcomes

-----------------------------------------------------------------------------
(* Jobs. *)

PrepStates == {"none", "running", "text", "silence", "error", "expired", "cancelled"}

LEMMA JobInvStays == JobInv /\ UNCHANGED <<jobVars, finalVars>> => JobInv'
BY DEF JobInv, JobTypes, FinalizerTypes, HandsInv, JoinCountsJobs, jobVars, finalVars

LEMMA DisownKeepsJobs == JobInv /\ DisownJobs => JobInv'
<1> SUFFICES ASSUME JobInv, DisownJobs PROVE JobInv'
  OBVIOUS
<1>1. fcancel' \in BOOLEAN
  BY DEF DisownJobs
<1>2. prep' \in [Utterances -> PrepStates]
  BY DEF DisownJobs, JobInv, JobTypes, PrepStates
<1> QED BY <1>1, <1>2, UtteranceNumbers
    DEF DisownJobs, JobInv, JobTypes, FinalizerTypes, HandsInv, JoinCountsJobs, PrepStates

LEMMA EmptyKeepsJobs == JobInv /\ EmptyFinalQueue => JobInv'
<1> SUFFICES ASSUME JobInv, EmptyFinalQueue PROVE JobInv'
  OBVIOUS
<1>1. finalQ' = <<>> /\ Len(finalQ') = 0 /\ finalQ' \in Seq(Utterances)
  BY DEF EmptyFinalQueue
<1>2. Len(finalQ) \in Nat /\ unfinished = Len(finalQ) + (IF active = NoUtterance THEN 0 ELSE 1)
  BY DEF JobInv, JobTypes, JoinCountsJobs
<1>3. unfinished' = unfinished - Len(finalQ) /\ active' = active
  BY DEF EmptyFinalQueue
<1>4. unfinished' = Len(finalQ') + (IF active' = NoUtterance THEN 0 ELSE 1) /\ unfinished' \in Nat
  BY <1>1, <1>2, <1>3
<1> QED BY <1>1, <1>4 DEF EmptyFinalQueue, JobInv, JobTypes, FinalizerTypes, HandsInv,
                          JoinCountsJobs, finalVars

LEMMA PrefetchTypes ==
  ASSUME prefetched \in Identities, prep \in [Utterances -> PrepStates],
         NEW a, NEW jobs, jobs \subseteq Utterances, NEW translating,
         SchedulePrefetch(a, translating, jobs)
  PROVE  prefetched' \in Identities /\ prep' \in [Utterances -> PrepStates]
<1>1. CASE UNCHANGED <<prefetched, prep>>
  BY <1>1
<1>2. CASE /\ Following(a, jobs) # {}
           /\ prefetched' = Min(Following(a, jobs))
           /\ prep' = [prep EXCEPT ![Min(Following(a, jobs))] = "running"]
  <2>1. Following(a, jobs) \subseteq Utterances
    BY DEF Following
  <2>2. Min(Following(a, jobs)) \in Utterances
    BY <1>2, <2>1, MinIsLeast
  <2> QED BY <1>2, <2>2, UtteranceNumbers DEF PrepStates
<1> QED BY <1>1, <1>2 DEF SchedulePrefetch

(* A job is concluded from the finalizer's hands, or straight from the queue. *)
LEMMA ConcludeKeepsJobs ==
  ASSUME JobTypes, EmitTypes, NEW u \in Utterances, NEW kinds \in Seq(EventKinds),
         Conclude(u, kinds),
         finalQ' \in Seq(Utterances), prefetched' \in Identities,
         unfinished = Len(finalQ') + 1, fcancel \in BOOLEAN
  PROVE  EmitTypes' /\ JobInv'
<1>1. EmitTypes'
  BY EmitRowTypes, UtteranceNumbers DEF Conclude
<1>2. /\ pending' = pending \ {u} /\ active' = NoUtterance /\ unfinished' = unfinished - 1
      /\ pendingAudio' = pendingAudio - (IF Owned(u) THEN audio[u] ELSE 0)
      /\ prep' = [prep EXCEPT ![u] = "none"] /\ audio' = audio /\ accepted' = accepted
      /\ fpc' \in {"get", "dead"} /\ fcancel' = fcancel
  BY DEF Conclude, Settle
<1>3. pendingAudio' \in Int
  BY <1>2 DEF JobTypes
<1>4. unfinished' = Len(finalQ') /\ unfinished' \in Nat
  BY <1>2
<1>5. JobTypes'
  BY <1>2, <1>3, <1>4, UtteranceNumbers DEF JobTypes
<1> QED BY <1>1, <1>2, <1>4, <1>5 DEF JobInv, FinalizerTypes, HandsInv, JoinCountsJobs

-----------------------------------------------------------------------------
(* Failure and termination. *)

LEMMA CancelWorkerTypes ==
  CancelWorker => wcancel' \in {"none", "pending", "late"}
BY DEF CancelWorker

LEMMA TakeTerminationTypes ==
  ASSUME TermTypes, pending \subseteq Utterances, wcancel \in {"none", "pending", "late"},
         NEW p \in {"worker", "receiver", "task"}, TakeTermination(p)
  PROVE  /\ holder' \in {"none", "worker", "receiver", "task"}
         /\ tpc' \in {"none", "awaitWorker", "sleepFinal", "sleepBg"}
         /\ tdoomed' \subseteq Utterances
         /\ wcancel' \in {"none", "pending", "late"}
BY CancelWorkerTypes DEF TermTypes, TakeTermination

LEMMA StartTerminatorTypes == TermTypes /\ StartTerminator => TermTypes'
BY DEF TermTypes, StartTerminator

(* fail_and_close of the worker or of the receiver.                          *)
LEMMA FailAndCloseTypes ==
  ASSUME FlagTypes, TermTypes, pending \subseteq Utterances,
         wcancel \in {"none", "pending", "late"},
         NEW p \in {"worker", "receiver"}, FailAndClose(p)
  PROVE  /\ accepting' \in BOOLEAN /\ flushed' \in BOOLEAN
         /\ closed' \in BOOLEAN /\ failEmitted' \in BOOLEAN
         /\ TermTypes' /\ wcancel' \in {"none", "pending", "late"}
<1>1. failEmitted' \in BOOLEAN
  BY Zenon DEF FailAndClose
<1>2. accepting' = FALSE /\ UNCHANGED <<flushed, closed, termTask>> /\ TakeTermination(p)
  BY DEF FailAndClose
<1> QED BY <1>1, <1>2, TakeTerminationTypes DEF FlagTypes, TermTypes

Commands == {"none", "audio", "flush", "close"}

LEMMA WorkerRaisesTypes ==
  ASSUME FlagTypes, TermTypes, pending \subseteq Utterances,
         wcancel \in {"none", "pending", "late"},
         NEW cmd, WorkerRaises(cmd)
  PROVE  FlagTypes' /\ WorkerTypes' /\ TermTypes'
<1>1. FailAndClose("worker")
  BY DEF WorkerRaises
<1>2. /\ flushFut' = IF cmd = "flush" THEN Failed(flushFut) ELSE flushFut
      /\ closeFut' = IF cmd = "close" THEN Failed(closeFut) ELSE closeFut
      /\ wpc' = "terminate" /\ wcmd' = "none" /\ wdoomed' = {}
  BY DEF WorkerRaises
<1>3. flushFut' \in Futures /\ closeFut' \in Futures
  BY <1>2 DEF FlagTypes, Failed, Futures
<1> QED BY <1>1, <1>2, <1>3, FailAndCloseTypes DEF FlagTypes, WorkerTypes

LEMMA CommandFailsTypes ==
  ASSUME TypeOK, JobInv, NEW cmd, NEW kinds \in Seq(EventKinds), CommandFails(cmd, kinds)
  PROVE  EmitTypes' /\ JobInv' /\ FlagTypes' /\ WorkerTypes' /\ TermTypes'
<1>1. EmitTypes'
  <2>1. kinds \o Announcement \in Seq(EventKinds)
    BY Rows
  <2> QED BY <2>1, EmitRowTypes DEF CommandFails, TypeOK, SpeechTypes
<1>2. JobInv'
  BY DisownKeepsJobs, JobInvStays DEF CommandFails
<1>3. FlagTypes' /\ WorkerTypes' /\ TermTypes'
  BY WorkerRaisesTypes DEF CommandFails, TypeOK, JobTypes, WorkerTypes
<1> QED BY <1>1, <1>2, <1>3

-----------------------------------------------------------------------------
(* The worker's actions. *)

(* TypeOK and the rest of the invariant, in the pieces the actions touch.     *)
LEMMA InvPieces ==
  Inv <=> /\ inputQ \in Seq({"audio", "flush", "close"})
          /\ EmitTypes /\ JobInv /\ SpeechTypes /\ FlagTypes /\ WorkerTypes
          /\ partialTask \in Identities /\ partials \subseteq Utterances
          /\ TermTypes /\ ClientTypes
BY DEF Inv, TypeOK, JobInv

LEMMA PiecesMakeInv ==
  /\ inputQ' \in Seq({"audio", "flush", "close"})
  /\ EmitTypes' /\ JobInv' /\ SpeechTypes' /\ FlagTypes' /\ WorkerTypes'
  /\ partialTask' \in Identities /\ partials' \subseteq Utterances
  /\ TermTypes' /\ ClientTypes'
  => Inv'
BY DEF Inv, TypeOK, JobInv

LEMMA FlagTypesStay == FlagTypes /\ UNCHANGED <<flagVars, futVars>> => FlagTypes'
BY DEF FlagTypes, flagVars, futVars
LEMMA TermTypesStay == TermTypes /\ UNCHANGED termVars => TermTypes'
BY DEF TermTypes, termVars
LEMMA WorkerTypesStay == WorkerTypes /\ UNCHANGED workerVars => WorkerTypes'
BY DEF WorkerTypes, workerVars
LEMMA ClientTypesStay == ClientTypes /\ UNCHANGED <<apc, clientVars>> => ClientTypes'
BY DEF ClientTypes, clientVars
LEMMA SpeechTypesStay == SpeechTypes /\ UNCHANGED speechVars => SpeechTypes'
BY DEF SpeechTypes, speechVars

(* What one command of the worker may leave behind.                          *)
Heard ==
  /\ EmitTypes /\ JobInv /\ SpeechTypes /\ FlagTypes /\ WorkerTypes
  /\ partialTask \in Identities /\ partials \subseteq Utterances /\ TermTypes

LEMMA ContinueTypes ==
  ASSUME WorkerTypes, NEW cmd \in {"audio", "flush", "close"}, Continue(cmd)
  PROVE  WorkerTypes'
BY DEF WorkerTypes, Continue

LEMMA NothingHeardTypes ==
  ASSUME Heard, NEW cmd \in {"audio", "flush", "close"}, NothingHeard(cmd)
  PROVE  Heard'
<1>1. WorkerTypes'
  BY ContinueTypes DEF Heard, NothingHeard
<1> QED BY <1>1, EmitTypesStay, JobInvStays, SpeechTypesStay, FlagTypesStay, TermTypesStay
    DEF Heard, NothingHeard, partVars

LEMMA QueueFinalizationTypes ==
  ASSUME TypeOK, Heard, NEW cmd \in {"audio", "flush", "close"}, QueueFinalization(cmd)
  PROVE  Heard'
<1>1. current \in Utterances
  BY DEF Heard, SpeechTypes, Identities, QueueFinalization
<1>2. PICK n \in Lengths :
       IF HasRoom(n)
       THEN /\ finalized' = finalized \cup {current}
            /\ partialTask' = NoUtterance
            /\ pending' = pending \cup {current}
            /\ pendingAudio' = pendingAudio + n
            /\ audio' = [audio EXCEPT ![current] = n]
            /\ finalQ' = Append(finalQ, current)
            /\ unfinished' = unfinished + 1
            /\ accepted' = accepted \cup {current}
            /\ current' = NoUtterance
            /\ SchedulePrefetch(active, fpc = "translate", pending \cup {current})
            /\ Continue(cmd)
            /\ UNCHANGED <<sequence, active, partials, emitVars, finalVars,
                           flagVars, futVars, termVars>>
       ELSE CommandFails(cmd, <<>>) /\ UNCHANGED <<speechVars, partVars>>
  BY DEF QueueFinalization
<1>3. CASE HasRoom(n)
  <2>1. n \in Nat
    BY CapacityAssumption
  <2>2. prefetched' \in Identities /\ prep' \in [Utterances -> PrepStates]
    <3>1. pending \cup {current} \subseteq Utterances
      BY <1>1 DEF Heard, JobInv, JobTypes
    <3> QED BY <1>2, <1>3, <3>1, PrefetchTypes DEF Heard, JobInv, JobTypes, PrepStates
  <2>3. /\ finalQ' \in Seq(Utterances) /\ Len(finalQ') = Len(finalQ) + 1
        /\ unfinished' = unfinished + 1 /\ unfinished' \in Nat
    BY <1>1, <1>2, <1>3 DEF Heard, JobInv, JobTypes
  <2>4. JobTypes'
    <3>1. /\ pending \subseteq Utterances /\ pendingAudio \in Int
          /\ audio \in [Utterances -> Nat] /\ accepted \subseteq Utterances
          /\ active \in Identities
      BY DEF Heard, JobInv, JobTypes
    <3>2. /\ pending' = pending \cup {current} /\ pendingAudio' = pendingAudio + n
          /\ audio' = [audio EXCEPT ![current] = n]
          /\ accepted' = accepted \cup {current} /\ active' = active
      BY <1>2, <1>3
    <3>3. audio' \in [Utterances -> Nat]
      BY <1>1, <2>1, <3>1, <3>2
    <3>4. pending' \subseteq Utterances /\ pendingAudio' \in Int /\ accepted' \subseteq Utterances
      BY <1>1, <2>1, <3>1, <3>2
    <3> QED BY <2>2, <2>3, <3>1, <3>2, <3>3, <3>4 DEF JobTypes, PrepStates
  <2>5. JobInv'
    <3>1. unfinished = Len(finalQ) + (IF active = NoUtterance THEN 0 ELSE 1)
      BY DEF Heard, JobInv, JoinCountsJobs
    <3>2. active' = active /\ fpc' = fpc /\ fcancel' = fcancel
      BY <1>2, <1>3 DEF finalVars
    <3>3. Len(finalQ) \in Nat
      BY DEF Heard, JobInv, JobTypes
    <3>4. JoinCountsJobs'
      BY <2>3, <3>1, <3>2, <3>3 DEF JoinCountsJobs
    <3> QED BY <2>4, <3>2, <3>4 DEF Heard, JobInv, FinalizerTypes, HandsInv
  <2>6. SpeechTypes'
    BY <1>1, <1>2, <1>3, UtteranceNumbers DEF Heard, SpeechTypes
  <2> QED BY <1>2, <1>3, <2>5, <2>6, ContinueTypes, EmitTypesStay, FlagTypesStay, TermTypesStay,
             UtteranceNumbers DEF Heard
<1>4. CASE ~HasRoom(n)
  <2>1. <<>> \in Seq(EventKinds)
    OBVIOUS
  <2> QED BY <1>2, <1>4, <2>1, CommandFailsTypes, SpeechTypesStay DEF Heard, partVars
<1> QED BY <1>3, <1>4

LEMMA EmitNoSpeechTypes ==
  ASSUME TypeOK, Heard, NEW cmd \in {"audio", "flush", "close"}, EmitNoSpeech(cmd)
  PROVE  Heard'
<1>1. finalized' \subseteq Utterances /\ sequence' = sequence /\ UNCHANGED partVars
  BY DEF EmitNoSpeech, Heard, SpeechTypes, Identities, NoUtterance
<1>2. <<"NO_SPEECH">> \in Seq(EventKinds)
  BY KindsOfEvents, Rows
<1>3. CASE Fits(1)
  <2>1. /\ Emit("NO_SPEECH", current) /\ current' = NoUtterance /\ Continue(cmd)
        /\ UNCHANGED <<jobVars, finalVars, flagVars, futVars, termVars>>
    BY <1>3 DEF EmitNoSpeech
  <2>2. EmitTypes'
    BY <1>2, <2>1, EmitRowTypes DEF Emit, Heard, SpeechTypes
  <2> QED BY <1>1, <2>1, <2>2, JobInvStays, FlagTypesStay, TermTypesStay, ContinueTypes,
             UtteranceNumbers DEF Heard, SpeechTypes, partVars
<1>4. CASE ~Fits(1)
  <2>1. CommandFails(cmd, <<"NO_SPEECH">>) /\ current' = current
    BY <1>4 DEF EmitNoSpeech
  <2> QED BY <1>1, <1>2, <2>1, CommandFailsTypes DEF Heard, SpeechTypes, partVars
<1> QED BY <1>3, <1>4

LEMMA StartUtteranceTypes == TypeOK /\ Heard /\ StartUtterance => Heard'
<1> SUFFICES ASSUME TypeOK, Heard, StartUtterance PROVE Heard'
  OBVIOUS
<1>1. SpeechTypes' /\ sequence + 1 \in Identities
  BY CapacityAssumption
  DEF StartUtterance, Heard, SpeechTypes, Identities, NoUtterance, Utterances
<1>2. <<"SPEECH_STARTED">> \in Seq(EventKinds) /\ UNCHANGED partVars
  BY KindsOfEvents, Rows DEF StartUtterance
<1>3. CASE Fits(1)
  <2>1. /\ Emit("SPEECH_STARTED", sequence + 1)
        /\ UNCHANGED <<jobVars, finalVars, flagVars, futVars, workerVars, termVars>>
    BY <1>3 DEF StartUtterance
  <2>2. EmitTypes'
    BY <1>1, <1>2, <2>1, EmitRowTypes DEF Emit, Heard
  <2> QED BY <1>1, <1>2, <2>1, <2>2, JobInvStays, FlagTypesStay, TermTypesStay, WorkerTypesStay
      DEF Heard, partVars
<1>4. CASE ~Fits(1)
  <2>1. CommandFails("audio", <<"SPEECH_STARTED">>)
    BY <1>4 DEF StartUtterance
  <2> QED BY <1>1, <1>2, <2>1, CommandFailsTypes DEF Heard, partVars
<1> QED BY <1>3, <1>4

LEMMA SchedulePartialTypes == Heard /\ SchedulePartial => Heard'
<1> SUFFICES ASSUME Heard, SchedulePartial PROVE Heard'
  OBVIOUS
<1>1. /\ partialTask' \in Identities /\ partials' \subseteq Utterances
  BY DEF SchedulePartial, Heard, SpeechTypes, Identities
<1> QED BY <1>1, EmitTypesStay, JobInvStays, SpeechTypesStay, FlagTypesStay, TermTypesStay,
           WorkerTypesStay DEF Heard, SchedulePartial

LEMMA TakeCommandTypes ==
  ASSUME NEW cmd, TakeCommand(cmd), inputQ \in Seq({"audio", "flush", "close"})
  PROVE  inputQ' \in Seq({"audio", "flush", "close"})
BY DEF TakeCommand

LEMMA HeardIsEnough ==
  ASSUME Inv, Heard', inputQ' \in Seq({"audio", "flush", "close"}), UNCHANGED <<apc, clientVars>>
  PROVE  Inv'
<1>1. ClientTypes'
  BY InvPieces, ClientTypesStay
<1> QED BY <1>1 DEF Inv, TypeOK, JobInv, Heard

LEMMA CommandsKeepInv ==
  ASSUME Inv, ProcessAudio \/ ProcessFlush \/ ProcessClose
  PROVE  Inv'
<1>1. TypeOK /\ Heard /\ inputQ \in Seq({"audio", "flush", "close"})
  BY InvPieces DEF Heard, Inv
<1>2. CASE ProcessAudio
  <2>1. NothingHeard("audio") => Heard'
    BY <1>1, NothingHeardTypes
  <2>2. QueueFinalization("audio") => Heard'
    BY <1>1, QueueFinalizationTypes
  <2>3. EmitNoSpeech("audio") => Heard'
    BY <1>1, EmitNoSpeechTypes
  <2>4. Heard' /\ TakeCommand("audio") /\ UNCHANGED <<apc, clientVars>>
    BY <1>1, <1>2, <2>1, <2>2, <2>3, StartUtteranceTypes, SchedulePartialTypes DEF ProcessAudio
  <2> QED BY <1>1, <2>4, TakeCommandTypes, HeardIsEnough
<1>3. ASSUME NEW cmd \in {"flush", "close"}, FlushVad(cmd) \/ NothingHeard(cmd) PROVE Heard'
  BY <1>1, <1>3, QueueFinalizationTypes, EmitNoSpeechTypes, NothingHeardTypes DEF FlushVad
<1>4. CASE ProcessFlush
  BY <1>1, <1>3, <1>4, TakeCommandTypes, HeardIsEnough DEF ProcessFlush
<1>5. CASE ProcessClose
  BY <1>1, <1>3, <1>5, TakeCommandTypes, HeardIsEnough DEF ProcessClose
<1> QED BY <1>2, <1>4, <1>5

(* The ends of a drain and of a close.                                       *)
LEMMA AfterDrainTypes ==
  ASSUME FlagTypes, wcmd \in {"none", "flush", "close"}, partialTask \in Identities,
         partials \subseteq Utterances, AfterDrain
  PROVE  /\ FlagTypes' /\ wpc' \in {"get", "closeFinal", "closeBg"}
         /\ wcmd' \in {"none", "flush", "close"}
         /\ partialTask' \in Identities /\ partials' \subseteq Utterances
<1>1. /\ UNCHANGED <<flushed, closed, failEmitted>>
      /\ flushFut' \in {flushFut, Resolved(flushFut)} /\ UNCHANGED closeFut
      /\ accepting' \in {accepting, FALSE}
  BY DEF AfterDrain, futVars
<1> QED BY <1>1, UtteranceNumbers
    DEF AfterDrain, FlagTypes, Futures, Resolved, DropPartials, partVars, futVars

LEMMA DrainsKeepInv ==
  ASSUME Inv, DrainJoined \/ DrainTimeout \/ DrainCancelled \/ CloseCancelsJobs
  PROVE  Inv'
<1>1. /\ TypeOK /\ JobInv /\ EmitTypes /\ FlagTypes /\ WorkerTypes /\ SpeechTypes
      /\ TermTypes /\ ClientTypes /\ partialTask \in Identities /\ partials \subseteq Utterances
      /\ pending \subseteq Utterances /\ inputQ \in Seq({"audio", "flush", "close"})
  BY InvPieces DEF Inv, JobInv, JobTypes
<1>2. CASE DrainJoined
  <2>1. JobInv'
    BY <1>1, <1>2, DisownKeepsJobs, JobInvStays DEF DrainJoined
  <2>2. AfterDrain /\ wcancel' = "none" /\ wdoomed' = wdoomed
    BY <1>2 DEF DrainJoined
  <2>3. FlagTypes' /\ WorkerTypes' /\ partialTask' \in Identities /\ partials' \subseteq Utterances
    BY <1>1, <2>2, AfterDrainTypes DEF WorkerTypes
  <2>4. UNCHANGED <<inputQ, emitVars, speechVars, termVars, apc, clientVars>>
    BY <1>2 DEF DrainJoined
  <2> QED BY <1>1, <2>1, <2>3, <2>4, PiecesMakeInv, EmitTypesStay, SpeechTypesStay, TermTypesStay,
             ClientTypesStay
<1>3. CASE DrainTimeout \/ CloseCancelsJobs
  <2>1. JobInv'
    BY <1>1, <1>3, DisownKeepsJobs DEF DrainTimeout, CloseCancelsJobs
  <2>2. WorkerTypes'
    BY <1>1, <1>3 DEF DrainTimeout, CloseCancelsJobs, WorkerTypes
  <2>3. UNCHANGED <<inputQ, emitVars, speechVars, flagVars, futVars, partVars, termVars, apc,
                    clientVars>>
    BY <1>3 DEF DrainTimeout, CloseCancelsJobs
  <2> QED BY <1>1, <2>1, <2>2, <2>3, PiecesMakeInv, EmitTypesStay, SpeechTypesStay, FlagTypesStay,
             TermTypesStay, ClientTypesStay DEF partVars
<1>4. CASE DrainCancelled
  <2>1. JobInv'
    BY <1>1, <1>4, EmptyKeepsJobs DEF DrainCancelled
  <2>2. EmitTypes'
    BY <1>1, <1>4, EmitFailuresTypes DEF DrainCancelled, WorkerTypes
  <2>3. UNCHANGED <<inputQ, speechVars, apc, clientVars>>
    BY <1>4 DEF DrainCancelled
  <2>4. CASE Announced(wdoomed) = wdoomed
    <3>1. AfterDrain /\ wdoomed' = {} /\ UNCHANGED <<wcancel, termVars>>
      BY <1>4, <2>4 DEF DrainCancelled
    <3>2. /\ FlagTypes' /\ WorkerTypes' /\ partialTask' \in Identities
          /\ partials' \subseteq Utterances
      BY <1>1, <3>1, AfterDrainTypes DEF WorkerTypes
    <3> QED BY <1>1, <2>1, <2>2, <2>3, <3>1, <3>2, PiecesMakeInv, SpeechTypesStay, TermTypesStay,
               ClientTypesStay
  <2>5. CASE Announced(wdoomed) # wdoomed
    <3>1. WorkerRaises(wcmd) /\ UNCHANGED partVars
      BY <1>4, <2>5 DEF DrainCancelled
    <3>2. FlagTypes' /\ WorkerTypes' /\ TermTypes'
      BY <1>1, <3>1, WorkerRaisesTypes DEF WorkerTypes
    <3> QED BY <1>1, <2>1, <2>2, <2>3, <3>1, <3>2, PiecesMakeInv, SpeechTypesStay, ClientTypesStay
        DEF partVars
  <2> QED BY <2>4, <2>5
<1> QED BY <1>2, <1>3, <1>4

LEMMA FinishCloseKeepsInv == Inv /\ FinishClose => Inv'
<1> SUFFICES ASSUME Inv, FinishClose PROVE Inv'
  OBVIOUS
<1>1. /\ JobInv /\ EmitTypes /\ FlagTypes /\ WorkerTypes /\ SpeechTypes
      /\ TermTypes /\ ClientTypes /\ partialTask \in Identities /\ partials \subseteq Utterances
      /\ pending \subseteq Utterances /\ inputQ \in Seq({"audio", "flush", "close"})
  BY InvPieces DEF JobInv, JobTypes
<1>2. JobInv'
  BY <1>1, EmptyKeepsJobs DEF FinishClose
<1>3. UNCHANGED <<inputQ, speechVars, partVars, apc, clientVars>>
  BY DEF FinishClose
<1>4. <<"STREAM_CLOSED">> \in Seq(EventKinds)
  BY KindsOfEvents, Rows
<1>5. CASE Fits(1)
  <2>1. /\ Emit("STREAM_CLOSED", NoUtterance)
        /\ closed' = TRUE /\ closeFut' = Resolved(closeFut)
        /\ wpc' = "done" /\ wcmd' = "none"
        /\ UNCHANGED <<accepting, flushed, failEmitted, flushFut, wcancel, wdoomed, termVars>>
    BY <1>5 DEF FinishClose
  <2>2. EmitTypes'
    BY <1>1, <1>4, <2>1, EmitRowTypes, UtteranceNumbers DEF Emit
  <2>3. FlagTypes' /\ WorkerTypes'
    BY <1>1, <2>1 DEF FlagTypes, WorkerTypes, Futures, Resolved
  <2> QED BY <1>1, <1>2, <1>3, <2>1, <2>2, <2>3, PiecesMakeInv, SpeechTypesStay, TermTypesStay,
             ClientTypesStay DEF partVars
<1>6. CASE ~Fits(1)
  <2>1. EmitRow(<<"STREAM_CLOSED">> \o Announcement, current) /\ WorkerRaises("close")
    BY <1>6 DEF FinishClose
  <2>2. EmitTypes'
    BY <1>1, <1>4, <2>1, EmitRowTypes, Rows DEF SpeechTypes
  <2>3. FlagTypes' /\ WorkerTypes' /\ TermTypes'
    BY <1>1, <2>1, WorkerRaisesTypes DEF WorkerTypes
  <2> QED BY <1>1, <1>2, <1>3, <2>2, <2>3, PiecesMakeInv, SpeechTypesStay, ClientTypesStay
      DEF partVars
<1> QED BY <1>5, <1>6

LEMMA WorkerCancelledKeepsInv == Inv /\ WorkerCancelled => Inv'
<1> SUFFICES ASSUME Inv, WorkerCancelled PROVE Inv'
  OBVIOUS
<1>1. /\ JobInv /\ EmitTypes /\ FlagTypes /\ WorkerTypes /\ SpeechTypes
      /\ TermTypes /\ ClientTypes /\ partialTask \in Identities /\ partials \subseteq Utterances
      /\ inputQ \in Seq({"audio", "flush", "close"})
  BY InvPieces
<1>2. FlagTypes' /\ WorkerTypes' /\ TermTypes'
  BY <1>1 DEF WorkerCancelled, FlagTypes, WorkerTypes, TermTypes, futVars
<1>3. UNCHANGED <<inputQ, emitVars, jobVars, finalVars, speechVars, partVars, apc, clientVars>>
  BY DEF WorkerCancelled
<1> QED BY <1>1, <1>2, <1>3, PiecesMakeInv, EmitTypesStay, JobInvStays, SpeechTypesStay,
           ClientTypesStay DEF partVars

LEMMA WorkerKeepsInv == Inv /\ Worker => Inv'
BY CommandsKeepInv, DrainsKeepInv, FinishCloseKeepsInv, WorkerCancelledKeepsInv DEF Worker

-----------------------------------------------------------------------------
(* The finalizer's actions. *)

LEMMA ConcludeAccepting ==
  ASSUME FlagTypes, TermTypes, NEW u, NEW kinds, Conclude(u, kinds),
         UNCHANGED <<flushed, closed, failEmitted, futVars>>
  PROVE  FlagTypes' /\ TermTypes'
<1>1. accepting' \in {accepting, FALSE} /\ (UNCHANGED termVars \/ StartTerminator)
  BY DEF Conclude
<1> QED BY <1>1, TermTypesStay, StartTerminatorTypes DEF FlagTypes, futVars

(* What the finalizer leaves alone, together with what it may change.        *)
LEMMA FinalizerPieces ==
  ASSUME Inv, EmitTypes', JobInv', FlagTypes', TermTypes', UNCHANGED untouchedByFinalizer
  PROVE  Inv'
<1>1. UNCHANGED <<inputQ, speechVars, workerVars, partVars, apc, clientVars>>
  BY DEF untouchedByFinalizer
<1> QED BY <1>1, InvPieces, PiecesMakeInv, SpeechTypesStay, WorkerTypesStay, ClientTypesStay
    DEF partVars

(* A conclusion of the job in hand, with nothing taken from the queue.       *)
LEMMA ConcludeActiveKeepsInv ==
  ASSUME Inv, Owned(active), NEW kinds \in Seq(EventKinds), Conclude(active, kinds),
         UNCHANGED <<finalQ, prefetched>>, UNCHANGED untouchedByFinalizer
  PROVE  Inv'
<1>1. EmitTypes /\ JobInv /\ FlagTypes /\ TermTypes
  BY InvPieces
<1>2. active \in Utterances /\ active # NoUtterance
  BY <1>1, UtteranceNumbers DEF JobInv, JobTypes, Owned
<1>3. unfinished = Len(finalQ') + 1 /\ finalQ' \in Seq(Utterances) /\ prefetched' \in Identities
  BY <1>1, <1>2 DEF JobInv, JobTypes, JoinCountsJobs
<1>4. EmitTypes' /\ JobInv'
  BY <1>1, <1>2, <1>3, ConcludeKeepsJobs DEF JobInv, FinalizerTypes
<1>5. FlagTypes' /\ TermTypes'
  BY <1>1, ConcludeAccepting DEF untouchedByFinalizer
<1> QED BY <1>4, <1>5, FinalizerPieces

LEMMA TakeJobKeepsInv == Inv /\ TakeJob => Inv'
<1> SUFFICES ASSUME Inv, TakeJob PROVE Inv'
  OBVIOUS
<1>1. EmitTypes /\ JobInv /\ FlagTypes /\ TermTypes
  BY InvPieces
<1> DEFINE u == Head(finalQ)
<1>2. /\ fpc = "get" /\ finalQ # <<>> /\ finalQ' = Tail(finalQ)
      /\ prefetched' = IF prefetched = u THEN NoUtterance ELSE prefetched
      /\ UNCHANGED untouchedByFinalizer
  BY DEF TakeJob
<1>3. /\ u \in Utterances /\ finalQ' \in Seq(Utterances) /\ Len(finalQ') = Len(finalQ) - 1
      /\ prefetched' \in Identities /\ Len(finalQ) \in Nat
  BY <1>1, <1>2, UtteranceNumbers DEF JobInv, JobTypes
<1>4. active = NoUtterance /\ unfinished = Len(finalQ') + 1
  BY <1>1, <1>2, <1>3 DEF JobInv, HandsInv, JoinCountsJobs
<1>5. CASE /\ active' = u
           /\ fpc' = IF prep[u] = "none" THEN "prepare" ELSE "await"
           /\ UNCHANGED <<unfinished, pending, pendingAudio, audio, prep, accepted,
                          fcancel, emitVars, accepting, termVars>>
  <2>1. u # NoUtterance /\ u \in Identities
    BY <1>3, UtteranceNumbers
  <2>2. fpc' \in {"prepare", "await"} /\ active' = u /\ unfinished' = unfinished
        /\ fcancel' = fcancel
    BY <1>5
  <2>3. JobTypes'
    BY <1>1, <1>3, <1>5, <2>1 DEF JobInv, JobTypes
  <2>4. JobInv'
    BY <1>1, <1>3, <1>4, <2>1, <2>2, <2>3 DEF JobInv, FinalizerTypes, HandsInv, JoinCountsJobs
  <2>5. FlagTypes'
    BY <1>1, <1>2, <1>5 DEF FlagTypes, untouchedByFinalizer, futVars
  <2> QED BY <1>1, <1>2, <1>5, <2>4, <2>5, EmitTypesStay, TermTypesStay, FinalizerPieces
<1>6. CASE Conclude(u, <<"FAILED">>)
  <2>1. <<"FAILED">> \in Seq(EventKinds)
    BY KindsOfEvents, Rows
  <2>2. EmitTypes' /\ JobInv'
    <3> HIDE DEF u
    <3> QED BY <1>1, <1>3, <1>4, <1>6, <2>1, ConcludeKeepsJobs DEF JobInv, FinalizerTypes
  <2>3. FlagTypes' /\ TermTypes'
    BY <1>1, <1>2, <1>6, ConcludeAccepting DEF untouchedByFinalizer
  <2> QED BY <1>2, <2>2, <2>3, FinalizerPieces
<1> QED BY <1>5, <1>6 DEF TakeJob

LEMMA PreparedKeepsInv ==
  ASSUME Inv, PreparedOutcome \/ PreparedText \/ Translated \/ FinalTimeout
  PROVE  Inv'
<1>1. EmitTypes /\ JobInv /\ FlagTypes /\ TermTypes /\ pending \subseteq Utterances
  BY InvPieces DEF JobInv, JobTypes
<1>2. /\ {<<"NO_SPEECH">>, <<"FAILED">>, <<"COMPLETED">>, <<"TRANSCRIPT_FINAL">>,
          <<"TRANSCRIPT_FINAL", "FAILED">>} \subseteq Seq(EventKinds)
  BY KindsOfEvents, Rows
<1>3. CASE PreparedOutcome \/ Translated \/ FinalTimeout
  <2>1. Owned(active) /\ UNCHANGED <<finalQ, prefetched>> /\ UNCHANGED untouchedByFinalizer
    BY <1>3 DEF PreparedOutcome, Translated, FinalTimeout, Brings
  <2>2. \E kinds \in Seq(EventKinds) : Conclude(active, kinds)
    BY <1>2, <1>3 DEF PreparedOutcome, Translated, FinalTimeout
  <2> QED BY <2>1, <2>2, ConcludeActiveKeepsInv
<1>4. CASE PreparedText
  <2>1. Owned(active) /\ finalQ' = finalQ /\ UNCHANGED untouchedByFinalizer
    BY <1>4 DEF PreparedText, Brings
  <2>2. CASE Fits(1)
    <3>1. /\ Emit("TRANSCRIPT_FINAL", active) /\ fpc' = "translate"
          /\ SchedulePrefetch(active, TRUE, pending)
          /\ UNCHANGED <<unfinished, pending, pendingAudio, audio, active, accepted,
                         fcancel, accepting, termVars>>
      BY <1>4, <2>2 DEF PreparedText
    <3>2. active \in Utterances /\ active # NoUtterance /\ active \in Identities
      BY <1>1, <2>1, UtteranceNumbers DEF Owned
    <3>3. EmitTypes'
      BY <1>1, <1>2, <3>1, <3>2, EmitRowTypes DEF Emit
    <3>4. prefetched' \in Identities /\ prep' \in [Utterances -> PrepStates]
      BY <1>1, <3>1, PrefetchTypes DEF JobInv, JobTypes, PrepStates
    <3>5. JobTypes'
      BY <1>1, <2>1, <3>1, <3>4 DEF JobInv, JobTypes, PrepStates
    <3>6. JobInv'
      BY <1>1, <2>1, <3>1, <3>2, <3>5 DEF JobInv, FinalizerTypes, HandsInv, JoinCountsJobs
    <3>7. FlagTypes' /\ TermTypes'
      BY <1>1, <2>1, <3>1, TermTypesStay DEF FlagTypes, untouchedByFinalizer, futVars
    <3> QED BY <2>1, <3>3, <3>6, <3>7, FinalizerPieces
  <2>3. CASE ~Fits(1)
    <3>1. Conclude(active, <<"TRANSCRIPT_FINAL">>) /\ prefetched' = prefetched
      BY <1>4, <2>3 DEF PreparedText
    <3> QED BY <1>2, <2>1, <3>1, ConcludeActiveKeepsInv
  <2> QED BY <2>2, <2>3
<1> QED BY <1>3, <1>4

LEMMA FinalizerCancelledKeepsInv == Inv /\ FinalizerCancelled => Inv'
<1> SUFFICES ASSUME Inv, FinalizerCancelled PROVE Inv'
  OBVIOUS
<1>1. EmitTypes /\ JobInv /\ FlagTypes /\ TermTypes
  BY InvPieces
<1>2. /\ fpc' = "stopped" /\ fcancel' = FALSE
      /\ UNCHANGED <<emitVars, finalQ, prefetched, accepting, termVars>>
      /\ UNCHANGED untouchedByFinalizer
  BY DEF FinalizerCancelled
<1>3. JobInv'
  <2>1. CASE active = NoUtterance
    BY <1>1, <1>2, <2>1
    DEF FinalizerCancelled, JobInv, JobTypes, FinalizerTypes, HandsInv, JoinCountsJobs
  <2>2. CASE active # NoUtterance
    <3>1. Settle(active) /\ active \in Utterances
      BY <1>1, <2>2 DEF FinalizerCancelled, JobInv, JobTypes, Identities
    <3>2. /\ pending' = pending \ {active} /\ active' = NoUtterance
          /\ unfinished' = unfinished - 1
          /\ pendingAudio' = pendingAudio - (IF Owned(active) THEN audio[active] ELSE 0)
          /\ prep' = [prep EXCEPT ![active] = "none"] /\ audio' = audio /\ accepted' = accepted
      BY <3>1 DEF Settle
    <3>3. unfinished = Len(finalQ) + 1 /\ Len(finalQ) \in Nat
      BY <1>1, <2>2 DEF JobInv, JobTypes, JoinCountsJobs
    <3>4. pendingAudio' \in Int
      BY <1>1, <3>1, <3>2 DEF JobInv, JobTypes
    <3>5. /\ finalQ' = finalQ /\ prefetched' = prefetched
          /\ unfinished' = Len(finalQ') /\ unfinished' \in Nat
      BY <1>2, <3>2, <3>3
    <3>6. JobTypes'
      BY <1>1, <3>2, <3>4, <3>5, UtteranceNumbers DEF JobInv, JobTypes
    <3>7. FinalizerTypes'
      BY <1>2 DEF FinalizerTypes
    <3>8. HandsInv'
      BY <1>2, <3>2 DEF HandsInv
    <3>9. JoinCountsJobs'
      <4>1. active' = NoUtterance /\ unfinished' = Len(finalQ') /\ Len(finalQ') \in Nat
        BY <3>2, <3>3, <3>5
      <4> QED BY <4>1 DEF JoinCountsJobs
    <3> QED BY <3>6, <3>7, <3>8, <3>9 DEF JobInv
  <2> QED BY <2>1, <2>2
<1>4. FlagTypes'
  BY <1>1, <1>2 DEF FlagTypes, untouchedByFinalizer, futVars
<1> QED BY <1>1, <1>2, <1>3, <1>4, EmitTypesStay, TermTypesStay, FinalizerPieces

LEMMA FinalizerKeepsInv == Inv /\ Finalizer => Inv'
BY TakeJobKeepsInv, PreparedKeepsInv, FinalizerCancelledKeepsInv DEF Finalizer

-----------------------------------------------------------------------------
(* The prefetching task and the partials. *)

LEMMA PrefetchEndsKeepsInv == Inv /\ PrefetchEnds => Inv'
<1> SUFFICES ASSUME Inv, PrefetchEnds PROVE Inv'
  OBVIOUS
<1>1. /\ TypeOK /\ JobInv /\ EmitTypes /\ FlagTypes /\ WorkerTypes /\ SpeechTypes
      /\ TermTypes /\ ClientTypes /\ partialTask \in Identities /\ partials \subseteq Utterances
      /\ pending \subseteq Utterances /\ inputQ \in Seq({"audio", "flush", "close"})
  BY InvPieces DEF Inv, JobInv, JobTypes
<1>2. prep' \in [Utterances -> PrepStates]
  <2>1. prep \in [Utterances -> PrepStates] /\ Preparations \cup {"expired"} \subseteq PrepStates
    BY <1>1 DEF JobInv, JobTypes, PrepStates, Preparations
  <2> QED BY <2>1 DEF PrefetchEnds
<1>3. JobInv'
  BY <1>1, <1>2 DEF PrefetchEnds, JobInv, JobTypes, FinalizerTypes, HandsInv, JoinCountsJobs,
                    PrepStates, finalVars
<1>4. UNCHANGED <<inputQ, emitVars, speechVars, flagVars, futVars, workerVars, partVars,
                  termVars, apc, clientVars>>
  BY DEF PrefetchEnds
<1> QED BY <1>1, <1>3, <1>4, PiecesMakeInv, EmitTypesStay, SpeechTypesStay, FlagTypesStay,
           WorkerTypesStay, TermTypesStay, ClientTypesStay DEF partVars

LEMMA PartialKeepsInv == Inv /\ Partial => Inv'
<1> SUFFICES ASSUME Inv, Partial PROVE Inv'
  OBVIOUS
<1>1. /\ TypeOK /\ JobInv /\ EmitTypes /\ FlagTypes /\ WorkerTypes /\ SpeechTypes
      /\ TermTypes /\ ClientTypes /\ partialTask \in Identities /\ partials \subseteq Utterances
      /\ pending \subseteq Utterances /\ inputQ \in Seq({"audio", "flush", "close"})
  BY InvPieces DEF Inv, JobInv, JobTypes
<1>2. PICK u \in Utterances : PartialEnds(u) /\ (PartialShown => Emit("TRANSCRIPT_PARTIAL", u))
  BY DEF Partial, PartialSkipped, PartialShown
<1>3. partialTask' \in Identities /\ partials' \subseteq Utterances
  BY <1>1, <1>2, UtteranceNumbers DEF PartialEnds
<1>4. UNCHANGED <<inputQ, jobVars, finalVars, speechVars, futVars, workerVars, apc, clientVars>>
  BY DEF Partial, PartialSkipped, PartialShown
<1>5. EmitTypes'
  <2>1. <<"TRANSCRIPT_PARTIAL">> \in Seq(EventKinds) /\ u \in Identities
    BY KindsOfEvents, Rows, UtteranceNumbers
  <2>2. Emit("TRANSCRIPT_PARTIAL", u) => EmitTypes'
    BY <1>1, <2>1, EmitRowTypes DEF Emit
  <2>3. PartialSkipped => UNCHANGED emitVars
    BY DEF PartialSkipped
  <2> QED BY <1>1, <1>2, <2>2, <2>3, EmitTypesStay DEF Partial
<1>6. FlagTypes' /\ TermTypes'
  <2>1. /\ accepting' \in {accepting, FALSE} /\ UNCHANGED <<flushed, closed, failEmitted, futVars>>
        /\ UNCHANGED termVars \/ StartTerminator
    BY DEF Partial, PartialSkipped, PartialShown, flagVars
  <2> QED BY <1>1, <2>1, TermTypesStay, StartTerminatorTypes DEF FlagTypes, futVars
<1> QED BY <1>1, <1>3, <1>4, <1>5, <1>6, PiecesMakeInv, JobInvStays, SpeechTypesStay,
           WorkerTypesStay, ClientTypesStay

-----------------------------------------------------------------------------
(* The terminator's and abort's actions. *)

LEMMA DropPartialsTypes ==
  partials \subseteq Utterances /\ DropPartials
    => partialTask' \in Identities /\ partials' \subseteq Utterances
BY UtteranceNumbers DEF DropPartials

LEMMA DrainInputTypes ==
  FlagTypes /\ DrainInputQueue
    => /\ inputQ' \in Seq({"audio", "flush", "close"})
       /\ flushFut' \in Futures /\ closeFut' \in Futures
BY DEF DrainInputQueue, FlagTypes, Futures, Resolved

LEMMA TerminatorKeepsInv == Inv /\ Terminator => Inv'
<1> SUFFICES ASSUME Inv, Terminator PROVE Inv'
  OBVIOUS
<1>1. /\ TypeOK /\ JobInv /\ EmitTypes /\ FlagTypes /\ WorkerTypes /\ SpeechTypes
      /\ TermTypes /\ ClientTypes /\ partialTask \in Identities /\ partials \subseteq Utterances
      /\ pending \subseteq Utterances /\ inputQ \in Seq({"audio", "flush", "close"})
  BY InvPieces DEF Inv, JobInv, JobTypes
<1>2. CASE TerminationEntered
  <2>1. PICK p \in {"worker", "receiver", "task"} :
          TakeTermination(p) /\ (IF p = "worker" THEN DisownJobs ELSE UNCHANGED <<jobVars, finalVars>>)
    BY <1>2 DEF TerminationEntered
  <2>2. /\ accepting' = FALSE
        /\ UNCHANGED <<inputQ, emitVars, speechVars, flushed, closed, failEmitted, futVars,
                       wpc, wcmd, wdoomed, partVars, termTask, apc, clientVars>>
    BY <1>2 DEF TerminationEntered
  <2>3. JobInv'
    BY <1>1, <2>1, DisownKeepsJobs, JobInvStays
  <2>4. TermTypes' /\ WorkerTypes'
    BY <1>1, <2>1, <2>2, TakeTerminationTypes DEF TermTypes, WorkerTypes
  <2>5. FlagTypes'
    BY <1>1, <2>2 DEF FlagTypes, futVars
  <2> QED BY <1>1, <2>2, <2>3, <2>4, <2>5, PiecesMakeInv, EmitTypesStay, SpeechTypesStay,
             ClientTypesStay DEF partVars
<1>3. CASE TerminationSkipped
  <2>1. PICK p \in {"worker", "receiver", "task"} : Resume(p)
    BY <1>3 DEF TerminationSkipped
  <2>2. UNCHANGED <<inputQ, emitVars, jobVars, finalVars, speechVars, flagVars, futVars,
                    wcmd, wcancel, wdoomed, partVars, holder, tpc, tdoomed, apc, spc, sender>>
    BY <1>3 DEF TerminationSkipped
  <2>3. TermTypes' /\ WorkerTypes' /\ ClientTypes'
    BY <1>1, <2>1, <2>2 DEF Resume, TermTypes, WorkerTypes, ClientTypes
  <2> QED BY <1>1, <2>2, <2>3, PiecesMakeInv, EmitTypesStay, JobInvStays, SpeechTypesStay,
             FlagTypesStay DEF partVars
<1>4. CASE TerminationDisowns
  <2>1. JobInv' /\ TermTypes'
    BY <1>1, <1>4, DisownKeepsJobs DEF TerminationDisowns, TermTypes
  <2>2. UNCHANGED <<inputQ, emitVars, speechVars, flagVars, futVars, workerVars, partVars, apc,
                    clientVars>>
    BY <1>4 DEF TerminationDisowns
  <2> QED BY <1>1, <2>1, <2>2, PiecesMakeInv, EmitTypesStay, SpeechTypesStay, FlagTypesStay,
             WorkerTypesStay, ClientTypesStay DEF partVars
<1>5. CASE TerminationFailsJobs
  <2>1. JobInv' /\ EmitTypes'
    BY <1>1, <1>5, EmptyKeepsJobs, EmitFailuresTypes DEF TerminationFailsJobs, TermTypes
  <2>2. TermTypes' /\ partialTask' \in Identities /\ partials' \subseteq Utterances
    BY <1>1, <1>5, DropPartialsTypes DEF TerminationFailsJobs, TermTypes
  <2>3. UNCHANGED <<inputQ, speechVars, flagVars, futVars, workerVars, apc, clientVars>>
    BY <1>5 DEF TerminationFailsJobs
  <2> QED BY <1>1, <2>1, <2>2, <2>3, PiecesMakeInv, SpeechTypesStay, FlagTypesStay,
             WorkerTypesStay, ClientTypesStay
<1>6. CASE TerminationEnds
  <2>1. /\ DrainInputQueue /\ Emit("STREAM_CLOSED", NoUtterance)
        /\ accepting' = FALSE /\ closed' = TRUE
        /\ holder' = "none" /\ tpc' = "none" /\ tdoomed' = {} /\ Resume(holder)
        /\ UNCHANGED <<jobVars, finalVars, speechVars, flushed, failEmitted, wcmd, wcancel,
                       wdoomed, partVars, apc, spc, sender>>
    BY <1>6 DEF TerminationEnds
  <2>2. <<"STREAM_CLOSED">> \in Seq(EventKinds)
    BY KindsOfEvents, Rows
  <2>3. EmitTypes'
    BY <1>1, <2>1, <2>2, EmitRowTypes, UtteranceNumbers DEF Emit
  <2>4. inputQ' \in Seq({"audio", "flush", "close"}) /\ FlagTypes'
    BY <1>1, <2>1, DrainInputTypes DEF FlagTypes
  <2>5. TermTypes' /\ WorkerTypes' /\ ClientTypes'
    BY <1>1, <2>1 DEF Resume, TermTypes, WorkerTypes, ClientTypes
  <2> QED BY <1>1, <2>1, <2>3, <2>4, <2>5, PiecesMakeInv, JobInvStays, SpeechTypesStay DEF partVars
<1> QED BY <1>2, <1>3, <1>4, <1>5, <1>6 DEF Terminator

LEMMA AbortKeepsInv == Inv /\ Abort => Inv'
<1> SUFFICES ASSUME Inv, Abort PROVE Inv'
  OBVIOUS
<1>1. /\ TypeOK /\ JobInv /\ EmitTypes /\ FlagTypes /\ WorkerTypes /\ SpeechTypes
      /\ TermTypes /\ ClientTypes /\ partialTask \in Identities /\ partials \subseteq Utterances
      /\ pending \subseteq Utterances /\ inputQ \in Seq({"audio", "flush", "close"})
  BY InvPieces DEF Inv, JobInv, JobTypes
<1>2. CASE AbortDropsPartials
  <2>1. JobInv'
    BY <1>1, <1>2, DisownKeepsJobs, JobInvStays DEF AbortDropsPartials
  <2>2. partialTask' \in Identities /\ partials' \subseteq Utterances
    BY <1>1, <1>2, DropPartialsTypes DEF AbortDropsPartials
  <2>3. /\ apc' \in {"sleepFinal", "sleepBg"}
        /\ UNCHANGED <<inputQ, emitVars, speechVars, flagVars, futVars, workerVars, termVars,
                       clientVars>>
    BY <1>2 DEF AbortDropsPartials
  <2>4. ClientTypes'
    BY <1>1, <2>3 DEF ClientTypes, clientVars
  <2> QED BY <1>1, <2>1, <2>2, <2>3, <2>4, PiecesMakeInv, EmitTypesStay, SpeechTypesStay,
             FlagTypesStay, WorkerTypesStay, TermTypesStay
<1>3. CASE AbortDisowns
  <2>1. JobInv'
    BY <1>1, <1>3, DisownKeepsJobs DEF AbortDisowns
  <2>2. ClientTypes'
    BY <1>1, <1>3 DEF AbortDisowns, ClientTypes, clientVars
  <2>3. UNCHANGED <<inputQ, emitVars, speechVars, flagVars, futVars, workerVars, partVars, termVars>>
    BY <1>3 DEF AbortDisowns
  <2> QED BY <1>1, <2>1, <2>2, <2>3, PiecesMakeInv, EmitTypesStay, SpeechTypesStay,
             FlagTypesStay, WorkerTypesStay, TermTypesStay DEF partVars
<1>4. CASE AbortEnds
  <2>1. JobInv'
    BY <1>1, <1>4, EmptyKeepsJobs DEF AbortEnds
  <2>2. UNCHANGED <<emitVars, speechVars, flagVars, workerVars, partVars, termVars, clientVars>>
    BY <1>4 DEF AbortEnds
  <2>3. inputQ' \in Seq({"audio", "flush", "close"}) /\ FlagTypes'
    BY <1>1, <1>4, <2>2, DrainInputTypes DEF AbortEnds, FlagTypes, flagVars
  <2>4. ClientTypes'
    BY <1>1, <1>4 DEF AbortEnds, ClientTypes, clientVars
  <2> QED BY <1>1, <2>1, <2>2, <2>3, <2>4, PiecesMakeInv, EmitTypesStay, SpeechTypesStay,
             WorkerTypesStay, TermTypesStay DEF partVars
<1> QED BY <1>2, <1>3, <1>4 DEF Abort

-----------------------------------------------------------------------------
(* The receiver, the sender and the shutdown. *)

LEMMA StartAbortTypes ==
  StartAbort => /\ accepting' = FALSE /\ closed' = TRUE /\ apc' = "awaitWorker"
                /\ wcancel' \in {"none", "pending", "late"}
BY CancelWorkerTypes DEF StartAbort

LEMMA PutOrWaitTypes ==
  ASSUME inputQ \in Seq({"audio", "flush", "close"}),
         NEW cmd \in {"audio", "flush", "close"}, PutOrWait(cmd)
  PROVE  inputQ' \in Seq({"audio", "flush", "close"})
BY DEF PutOrWait

LEMMA ReceiverFailsKeepsInv ==
  ASSUME Inv, NEW kinds \in Seq(EventKinds), ReceiverFails(kinds), UNCHANGED inputQ
  PROVE  Inv'
<1>1. /\ TypeOK /\ JobInv /\ EmitTypes /\ FlagTypes /\ WorkerTypes /\ SpeechTypes
      /\ TermTypes /\ ClientTypes /\ partialTask \in Identities /\ partials \subseteq Utterances
      /\ pending \subseteq Utterances /\ inputQ \in Seq({"audio", "flush", "close"})
  BY InvPieces DEF Inv, JobInv, JobTypes
<1>2. /\ EmitRow(kinds \o Announcement, current) /\ FailAndClose("receiver") /\ rpc' = "terminate"
      /\ UNCHANGED <<jobVars, finalVars, speechVars, futVars, wpc, wcmd, wdoomed, partVars,
                     apc, spc, sender>>
  BY DEF ReceiverFails
<1>3. EmitTypes'
  <2>1. kinds \o Announcement \in Seq(EventKinds)
    BY Rows
  <2> QED BY <1>1, <1>2, <2>1, EmitRowTypes DEF SpeechTypes
<1>4. /\ accepting' \in BOOLEAN /\ flushed' \in BOOLEAN
      /\ closed' \in BOOLEAN /\ failEmitted' \in BOOLEAN
      /\ TermTypes' /\ wcancel' \in {"none", "pending", "late"}
  BY <1>1, <1>2, FailAndCloseTypes DEF WorkerTypes
<1>5. FlagTypes' /\ WorkerTypes' /\ ClientTypes'
  BY <1>1, <1>2, <1>4 DEF FlagTypes, WorkerTypes, ClientTypes, futVars
<1> QED BY <1>1, <1>2, <1>3, <1>4, <1>5, PiecesMakeInv, JobInvStays, SpeechTypesStay DEF partVars

LEMMA ClientKeepsInv == Inv /\ Client => Inv'
<1> SUFFICES ASSUME Inv, Client PROVE Inv'
  OBVIOUS
<1>1. /\ TypeOK /\ JobInv /\ EmitTypes /\ FlagTypes /\ WorkerTypes /\ SpeechTypes
      /\ TermTypes /\ ClientTypes /\ partialTask \in Identities /\ partials \subseteq Utterances
      /\ pending \subseteq Utterances /\ inputQ \in Seq({"audio", "flush", "close"})
  BY InvPieces DEF Inv, JobInv, JobTypes
<1>2. <<>> \in Seq(EventKinds) /\ <<"BACKPRESSURE">> \in Seq(EventKinds)
  BY KindsOfEvents, Rows
<1>3. CASE FeedAudio
  <2>1. CASE HasInputRoom
    <3>1. /\ inputQ' = Append(inputQ, "audio")
          /\ UNCHANGED <<emitVars, streamVars, flagVars, futVars, clientVars>>
      BY <1>3, <2>1 DEF FeedAudio
    <3> QED BY <1>1, <3>1, PiecesMakeInv, EmitTypesStay, JobInvStays, SpeechTypesStay,
               FlagTypesStay, WorkerTypesStay, TermTypesStay, ClientTypesStay
        DEF streamVars, partVars
  <2>2. CASE ~HasInputRoom
    BY <1>2, <1>3, <2>2, ReceiverFailsKeepsInv DEF FeedAudio
  <2> QED BY <2>1, <2>2
<1>4. CASE ProtocolError
  BY <1>2, <1>4, ReceiverFailsKeepsInv DEF ProtocolError
<1>5. CASE Flush
  <2>1. UNCHANGED <<emitVars, streamVars, closed, failEmitted, closeFut, spc, sender>>
    BY <1>5 DEF Flush
  <2>2. /\ inputQ' \in Seq({"audio", "flush", "close"})
        /\ accepting' \in {FALSE, accepting} /\ flushed' \in {TRUE, flushed}
        /\ flushFut' \in {"pending", flushFut}
        /\ rpc' \in {"waitFlush", "putFlush", "recv"}
    BY <1>1, <1>5, PutOrWaitTypes DEF Flush
  <2>3. FlagTypes'
    BY <1>1, <2>1, <2>2 DEF FlagTypes, Futures
  <2>4. ClientTypes'
    BY <1>1, <2>1, <2>2 DEF ClientTypes, streamVars
  <2> QED BY <1>1, <2>1, <2>2, <2>3, <2>4, PiecesMakeInv, EmitTypesStay, JobInvStays,
             SpeechTypesStay, WorkerTypesStay, TermTypesStay DEF streamVars, partVars
<1>6. CASE Close
  <2>1. UNCHANGED <<emitVars, streamVars, flushed, closed, failEmitted, flushFut, spc, sender>>
    BY <1>6 DEF Close
  <2>2. /\ inputQ' \in Seq({"audio", "flush", "close"})
        /\ accepting' \in {FALSE, accepting} /\ closeFut' \in {"pending", closeFut}
        /\ rpc' \in {"waitClose", "putClose", "waitSender"}
    BY <1>1, <1>6, PutOrWaitTypes DEF Close
  <2>3. FlagTypes'
    BY <1>1, <2>1, <2>2 DEF FlagTypes, Futures
  <2>4. ClientTypes'
    BY <1>1, <2>1, <2>2 DEF ClientTypes, streamVars
  <2> QED BY <1>1, <2>1, <2>2, <2>3, <2>4, PiecesMakeInv, EmitTypesStay, JobInvStays,
             SpeechTypesStay, WorkerTypesStay, TermTypesStay DEF streamVars, partVars
<1>7. CASE Disconnect
  <2>1. /\ rpc' = "release"
        /\ UNCHANGED <<inputQ, emitVars, streamVars, flagVars, futVars, spc, sender>>
    BY <1>7 DEF Disconnect
  <2>2. ClientTypes'
    BY <1>1, <2>1 DEF ClientTypes, streamVars
  <2> QED BY <1>1, <2>1, <2>2, PiecesMakeInv, EmitTypesStay, JobInvStays, SpeechTypesStay,
             FlagTypesStay, WorkerTypesStay, TermTypesStay DEF streamVars, partVars
<1> QED BY <1>3, <1>4, <1>5, <1>6, <1>7 DEF Client

LEMMA ReceiverKeepsInv == Inv /\ Receiver => Inv'
<1> SUFFICES ASSUME Inv, Receiver PROVE Inv'
  OBVIOUS
<1>1. /\ TypeOK /\ JobInv /\ EmitTypes /\ FlagTypes /\ WorkerTypes /\ SpeechTypes
      /\ TermTypes /\ ClientTypes /\ partialTask \in Identities /\ partials \subseteq Utterances
      /\ pending \subseteq Utterances /\ inputQ \in Seq({"audio", "flush", "close"})
  BY InvPieces DEF Inv, JobInv, JobTypes
<1>2. CASE PutControl
  <2>1. /\ UNCHANGED <<emitVars, streamVars, flagVars, futVars, spc, sender>>
        /\ inputQ' \in Seq({"audio", "flush", "close"}) /\ rpc' \in {"waitFlush", "waitClose"}
    BY <1>1, <1>2, PutOrWaitTypes DEF PutControl
  <2>2. ClientTypes'
    BY <1>1, <2>1 DEF ClientTypes, streamVars
  <2> QED BY <1>1, <2>1, <2>2, PiecesMakeInv, EmitTypesStay, JobInvStays, SpeechTypesStay,
             FlagTypesStay, WorkerTypesStay, TermTypesStay DEF streamVars, partVars
<1>3. CASE ControlReturns \/ SenderObserved \/ SenderTimeout
  <2>1. /\ UNCHANGED <<inputQ, emitVars, streamVars, flagVars, futVars, spc>>
        /\ rpc' \in {"recv", "waitSender", "release"} /\ sender' \in {sender, "dead"}
    BY <1>3 DEF ControlReturns, SenderObserved, SenderTimeout
  <2>2. ClientTypes'
    BY <1>1, <2>1 DEF ClientTypes, streamVars
  <2> QED BY <1>1, <2>1, <2>2, PiecesMakeInv, EmitTypesStay, JobInvStays, SpeechTypesStay,
             FlagTypesStay, WorkerTypesStay, TermTypesStay DEF streamVars, partVars
<1>4. CASE ControlRaises
  <2>1. <<>> \in Seq(EventKinds)
    OBVIOUS
  <2> QED BY <1>4, <2>1, ReceiverFailsKeepsInv DEF ControlRaises
<1>5. CASE Release
  <2>1. UNCHANGED <<inputQ, emitVars, jobVars, finalVars, speechVars, flushed, failEmitted,
                    futVars, wpc, wcmd, wdoomed, partVars, termVars, spc>>
    BY <1>5 DEF Release
  <2>2. /\ accepting' \in {FALSE, accepting} /\ closed' \in {TRUE, closed}
        /\ wcancel' \in {"none", "pending", "late"} /\ apc' \in {"awaitWorker", apc}
        /\ rpc' \in {"aborting", "done"} /\ sender' \in {sender, "dead"}
    BY <1>1, <1>5, StartAbortTypes DEF Release, SenderStopped, WorkerTypes
  <2>3. FlagTypes'
    BY <1>1, <2>1, <2>2 DEF FlagTypes, futVars
  <2>4. WorkerTypes'
    BY <1>1, <2>1, <2>2 DEF WorkerTypes
  <2>5. ClientTypes'
    BY <1>1, <2>1, <2>2 DEF ClientTypes
  <2> QED BY <1>1, <2>1, <2>3, <2>4, <2>5, PiecesMakeInv, EmitTypesStay, JobInvStays,
             SpeechTypesStay, TermTypesStay DEF partVars
<1> QED BY <1>2, <1>3, <1>4, <1>5 DEF Receiver

LEMMA SenderKeepsInv == Inv /\ Sender => Inv'
<1> SUFFICES ASSUME Inv, Sender PROVE Inv'
  OBVIOUS
<1>1. /\ TypeOK /\ JobInv /\ EmitTypes /\ FlagTypes /\ WorkerTypes /\ SpeechTypes
      /\ TermTypes /\ ClientTypes /\ partialTask \in Identities /\ partials \subseteq Utterances
      /\ pending \subseteq Utterances /\ inputQ \in Seq({"audio", "flush", "close"})
  BY InvPieces DEF Inv, JobInv, JobTypes
<1>2. /\ UNCHANGED inputQ /\ UNCHANGED sentVars
      /\ sender' \in {"ready", "blocked", "done", "dead"}
      /\ events' = events \/ (events # <<>> /\ events' = Tail(events))
  BY DEF Sender, Send, SenderFails
<1>3. EmitTypes'
  <2>1. events \in Seq({"EVENT", "STREAM_CLOSED"}) /\ Len(events) <= EventCapacity
    BY <1>1 DEF EmitTypes
  <2>2. CASE events' = events
    BY <1>1, <1>2, <2>1, <2>2 DEF EmitTypes, sentVars
  <2>3. CASE events # <<>> /\ events' = Tail(events)
    <3>1. /\ Tail(events) \in Seq({"EVENT", "STREAM_CLOSED"})
          /\ Len(Tail(events)) = Len(events) - 1 /\ Len(events) \in Nat
      BY <2>1, <2>3
    <3>2. Len(events') <= EventCapacity
      BY <2>1, <2>3, <3>1, CapacityAssumption
    <3> QED BY <1>1, <1>2, <2>3, <3>1, <3>2 DEF EmitTypes, sentVars
  <2> QED BY <1>2, <2>2, <2>3
<1>4. ClientTypes'
  BY <1>1, <1>2 DEF ClientTypes, sentVars, streamVars
<1> QED BY <1>1, <1>2, <1>3, <1>4, PiecesMakeInv, JobInvStays, SpeechTypesStay, FlagTypesStay,
           WorkerTypesStay, TermTypesStay DEF sentVars, streamVars, partVars

LEMMA ShutdownKeepsInv == Inv /\ (ShutdownCloses \/ ServerShutdown) => Inv'
<1> SUFFICES ASSUME Inv, ShutdownCloses \/ ServerShutdown PROVE Inv'
  OBVIOUS
<1>1. /\ TypeOK /\ JobInv /\ EmitTypes /\ FlagTypes /\ WorkerTypes /\ SpeechTypes
      /\ TermTypes /\ ClientTypes /\ partialTask \in Identities /\ partials \subseteq Utterances
      /\ pending \subseteq Utterances /\ inputQ \in Seq({"audio", "flush", "close"})
  BY InvPieces DEF Inv, JobInv, JobTypes
<1>2. /\ UNCHANGED untouchedByShutdown
      /\ inputQ' \in Seq({"audio", "flush", "close"})
      /\ accepting' \in {FALSE, accepting} /\ closed' \in {TRUE, closed}
      /\ closeFut' \in {"pending", closeFut}
      /\ wcancel' \in {"none", "pending", "late"} /\ apc' \in {"awaitWorker", apc}
      /\ spc' \in {"put", "wait", "aborting", "done"}
  BY <1>1, PutOrWaitTypes, StartAbortTypes
  DEF ShutdownCloses, ServerShutdown, ShutdownPuts, ShutdownDone, ShutdownAborts,
      ShutdownAborted, WorkerTypes
<1>3. FlagTypes'
  BY <1>1, <1>2 DEF FlagTypes, Futures, untouchedByShutdown
<1>4. WorkerTypes'
  BY <1>1, <1>2 DEF WorkerTypes, untouchedByShutdown
<1>5. ClientTypes'
  BY <1>1, <1>2 DEF ClientTypes, untouchedByShutdown
<1> QED BY <1>1, <1>2, <1>3, <1>4, <1>5, PiecesMakeInv, EmitTypesStay, JobInvStays, SpeechTypesStay,
           TermTypesStay DEF untouchedByShutdown, partVars

-----------------------------------------------------------------------------
LEMMA InitInv == Init => Inv
<1> SUFFICES ASSUME Init PROVE Inv
  OBVIOUS
<1> NoUtterance \in Identities /\ NoUtterance = 0 /\ 0 \in Identities
  BY DEF Identities, NoUtterance
<1>1. EmitTypes
  <2>1. events \in Seq({"EVENT", "STREAM_CLOSED"}) /\ Len(events) = 1
    BY DEF Init
  <2>2. Len(events) <= EventCapacity
    BY <2>1, CapacityAssumption
  <2>3. last \in [kind : EventKinds, utterance : Identities]
    BY DEF Init, EventKinds
  <2>4. terminals \in [Utterances -> Nat] /\ overflowed \in BOOLEAN
    BY DEF Init
  <2> QED BY <2>1, <2>2, <2>3, <2>4 DEF EmitTypes
<1>2. JobInv
  <2>1. finalQ = <<>> /\ Len(finalQ) = 0 /\ unfinished = 0 /\ active = NoUtterance
    BY DEF Init
  <2>2. JobTypes
    BY <2>1 DEF Init, JobTypes
  <2>3. JoinCountsJobs
    BY <2>1 DEF JoinCountsJobs
  <2>4. FinalizerTypes /\ HandsInv
    BY DEF Init, FinalizerTypes, HandsInv
  <2> QED BY <2>2, <2>3, <2>4 DEF JobInv
<1>3. SpeechTypes /\ FlagTypes /\ WorkerTypes /\ TermTypes /\ ClientTypes
  <2>1. SpeechTypes
    BY DEF Init, SpeechTypes
  <2>2. FlagTypes
    BY DEF Init, FlagTypes, Futures
  <2>3. WorkerTypes
    BY DEF Init, WorkerTypes
  <2>4. TermTypes /\ ClientTypes
    BY DEF Init, TermTypes, ClientTypes
  <2> QED BY <2>1, <2>2, <2>3, <2>4
<1>4. /\ inputQ \in Seq({"audio", "flush", "close"})
      /\ partialTask \in Identities /\ partials \subseteq Utterances
  BY DEF Init
<1> QED BY <1>1, <1>2, <1>3, <1>4, InvPieces

LEMMA StutterKeepsInv == Inv /\ UNCHANGED vars => Inv'
BY InvPieces, PiecesMakeInv, EmitTypesStay, JobInvStays, SpeechTypesStay, FlagTypesStay,
   WorkerTypesStay, TermTypesStay, ClientTypesStay DEF vars, partVars

LEMMA StepKeepsInv == Inv /\ [Next]_vars => Inv'
BY WorkerKeepsInv, FinalizerKeepsInv, PrefetchEndsKeepsInv, PartialKeepsInv, TerminatorKeepsInv,
   AbortKeepsInv, ClientKeepsInv, ReceiverKeepsInv, SenderKeepsInv, ShutdownKeepsInv,
   StutterKeepsInv DEF Next, Finished

THEOREM InvAlways == Spec => []Inv
BY InitInv, StepKeepsInv, PTL DEF Spec

(* Every variable of a stream keeps its type and the event queue its capacity,
   whichever tasks emit into it (_emit, put_nowait).                         *)
THEOREM TypeCorrect == Spec => []TypeOK
BY InvAlways, PTL DEF Inv

(* What _final_queue.join() waits for is exactly what is queued or in the
   finalizer's hands, so a drain can end and task_done is never called once too
   often (_run_finalizations 815-855, _cancel_final_jobs 891-894).           *)
THEOREM JoinAlwaysCounts == Spec => []JoinCountsJobs
BY InvAlways, PTL DEF Inv

-----------------------------------------------------------------------------
(* Control: the parts of the invariant. *)

(* No audio is queued behind a flush or a close, and none is fed any more once one
   of them has been called (feed_audio 259-260, flush 311-323, close 325-336). *)
OnlyControls == \A i \in DOMAIN inputQ : inputQ[i] # "audio"
OrderInv ==
  /\ \A i, j \in DOMAIN inputQ : i < j /\ inputQ[j] = "audio" => inputQ[i] = "audio"
  /\ accepting => \A i \in DOMAIN inputQ : inputQ[i] = "audio"
  /\ rpc \in {"putFlush", "putClose"} \/ spc = "put" => ~accepting

(* Whoever holds the lock terminates the stream, and a task that does so goes on
   once the worker is gone; an aborted stream is closed from the first moment.     *)
TerminationInv ==
  /\ holder = "none" <=> tpc = "none"
  /\ tpc = "awaitWorker" => holder # "worker"
  /\ holder = "worker" => wpc = "terminate"
  /\ tpc \in {"sleepFinal", "sleepBg"} /\ holder # "worker" => wpc = "done"
  /\ apc \in {"sleepBg", "sleepFinal", "finished"} => wpc = "done"
  /\ apc # "none" => closed

(* Behind a flush or a close the worker hears no speech any more: the utterance
   being spoken has been finished, unless the close found the stream flushed. *)
SpeechOver == ~accepting /\ OnlyControls /\ (current = NoUtterance \/ wcmd = "close")
CommandInv ==
  /\ wcmd = "none" <=> wpc \in {"get", "terminate", "done"}
  /\ wpc \in {"closeBg", "closeFinal"} => wcmd = "close"
  /\ wcmd # "none" => SpeechOver

(* From its failure, termination or abort on, the worker decides the fate of no
   utterance: it is gone, on its way out, or hears none any more. That is so even if
   its cancellation is lost while it drains the final queue.                 *)
Silenced == wpc \in {"terminate", "done"} \/ wcancel = "pending" \/ SpeechOver
SilenceInv == failEmitted \/ holder # "none" \/ closed => Silenced

ControlInv == OrderInv /\ TerminationInv /\ CommandInv /\ SilenceInv

-----------------------------------------------------------------------------
(* What the steps of the tasks do to the control state. *)

LEMMA WaitsMeans ==
  /\ Waits("worker") <=> holder # "worker" /\ wpc = "terminate" /\ wcancel = "none"
  /\ Waits("receiver") <=> holder # "receiver" /\ rpc = "terminate"
  /\ Waits("task") <=> holder # "task" /\ termTask = "waiting"
BY DEF Waits

(* The commands of the worker: the utterance is left alone, finished, begun or given
   up; or the command fails.                                                 *)
Hears(cmd) ==
  /\ TakeCommand(cmd)
  /\ UNCHANGED <<apc, clientVars>>
  /\ \/ NothingHeard(cmd) /\ (cmd = "flush" => current = NoUtterance)
     \/ QueueFinalization(cmd)
     \/ EmitNoSpeech(cmd)
     \/ cmd = "audio" /\ (StartUtterance \/ SchedulePartial)

LEMMA CommandsHear ==
  ProcessAudio \/ ProcessFlush \/ ProcessClose => \E cmd \in {"audio", "flush", "close"} : Hears(cmd)
<1>1. ProcessAudio => Hears("audio")
  BY DEF ProcessAudio, Hears
<1>2. ProcessFlush => Hears("flush")
  BY DEF ProcessFlush, FlushVad, Hears
<1>3. ProcessClose => Hears("close")
  BY DEF ProcessClose, FlushVad, Hears
<1> QED BY <1>1, <1>2, <1>3

LEMMA HearsMoves ==
  ASSUME NEW cmd \in {"audio", "flush", "close"}, Hears(cmd)
  PROVE  /\ wpc = "get" /\ wcancel = "none"
         /\ inputQ # <<>> /\ Head(inputQ) = cmd /\ inputQ' = Tail(inputQ)
         /\ UNCHANGED <<flushed, closed, termTask, apc, clientVars>>
         /\ \/ /\ Continue(cmd)
               /\ UNCHANGED <<accepting, failEmitted, futVars, termVars, finalVars>>
               /\ cmd = "flush" => current' = NoUtterance
            \/ /\ WorkerRaises(cmd)
               /\ IF LockFree THEN DisownJobs ELSE UNCHANGED <<jobVars, finalVars>>
<1>1. /\ TakeCommand(cmd) /\ UNCHANGED <<apc, clientVars>>
  BY DEF Hears
<1>2. CASE NothingHeard(cmd) /\ (cmd = "flush" => current = NoUtterance)
  BY <1>1, <1>2 DEF TakeCommand, NothingHeard, flagVars, termVars, speechVars
<1>3. CASE QueueFinalization(cmd)
  BY <1>1, <1>3 DEF TakeCommand, QueueFinalization, CommandFails, WorkerRaises, FailAndClose, flagVars, termVars
<1>4. CASE EmitNoSpeech(cmd)
  BY <1>1, <1>4 DEF TakeCommand, EmitNoSpeech, CommandFails, WorkerRaises, FailAndClose, flagVars, termVars
<1>5. CASE cmd = "audio" /\ StartUtterance
  BY <1>1, <1>5 DEF TakeCommand, StartUtterance, CommandFails, WorkerRaises, FailAndClose, Continue,
    flagVars, termVars, workerVars
<1>6. CASE cmd = "audio" /\ SchedulePartial
  BY <1>1, <1>6 DEF TakeCommand, SchedulePartial, Continue, flagVars, termVars, workerVars
<1> QED BY <1>2, <1>3, <1>4, <1>5, <1>6 DEF Hears

(* fail_and_close of the worker.                                             *)
LEMMA WorkerRaisesMeans ==
  ASSUME NEW cmd, WorkerRaises(cmd)
  PROVE  /\ ~accepting' /\ wpc' = "terminate" /\ wcmd' = "none" /\ wdoomed' = {}
         /\ failEmitted' = (failEmitted \/ ~closed)
         /\ UNCHANGED <<flushed, closed, termTask>>
         /\ IF LockFree
            THEN /\ holder' = "worker" /\ tpc' = "sleepFinal" /\ tdoomed' = pending
                 /\ UNCHANGED wcancel
            ELSE UNCHANGED <<holder, tpc, tdoomed, wcancel>>
BY DEF WorkerRaises, FailAndClose, TakeTermination

(* The finalizer, a preparation or a partial may only end the intake of audio and
   wake the terminator.                                                      *)
ControlAlone ==
  /\ UNCHANGED <<inputQ, wpc, wcmd, wcancel, holder, tpc, closed, failEmitted, flushed,
                 futVars, current, apc, clientVars>>
  /\ accepting' = accepting \/ accepting' = FALSE

LEMMA ConcludeLeavesControl ==
  ASSUME NEW u, NEW kinds, Conclude(u, kinds)
  PROVE  /\ UNCHANGED <<holder, tpc, tdoomed>>
         /\ accepting' = accepting \/ accepting' = FALSE
BY DEF Conclude, StartTerminator, termVars

LEMMA FinalizerLeavesControl == Finalizer \/ PrefetchEnds \/ Partial => ControlAlone
<1> USE DEF ControlAlone, untouchedByFinalizer, workerVars, speechVars, termVars, flagVars
<1>1. TakeJob => ControlAlone
  BY ConcludeLeavesControl DEF TakeJob
<1>2. PreparedOutcome => ControlAlone
  BY ConcludeLeavesControl DEF PreparedOutcome
<1>3. PreparedText => ControlAlone
  <2>1. ASSUME Conclude(active, <<"TRANSCRIPT_FINAL">>) PROVE UNCHANGED <<holder, tpc>> /\ (accepting' = accepting \/ accepting' = FALSE)
    BY <2>1, ConcludeLeavesControl
  <2>2. ASSUME PreparedText PROVE UNCHANGED untouchedByFinalizer
    BY <2>2 DEF PreparedText
  <2>3. ASSUME PreparedText PROVE Conclude(active, <<"TRANSCRIPT_FINAL">>) \/ UNCHANGED <<accepting, termVars>>
    BY <2>3 DEF PreparedText
  <2> QED BY <2>1, <2>2, <2>3
<1>4. Translated => ControlAlone
  BY ConcludeLeavesControl DEF Translated
<1>5. FinalTimeout => ControlAlone
  BY ConcludeLeavesControl DEF FinalTimeout
<1>6. FinalizerCancelled => ControlAlone
  BY DEF FinalizerCancelled
<1>7. PrefetchEnds => ControlAlone
  BY DEF PrefetchEnds
<1>8. Partial => ControlAlone
  BY DEF Partial, PartialSkipped, PartialShown, StartTerminator
<1> QED BY <1>1, <1>2, <1>3, <1>4, <1>5, <1>6, <1>7, <1>8 DEF Finalizer

(* The receiver: a frame is queued or the stream fails.                      *)
LEMMA ReceiverFailsMeans ==
  ASSUME NEW kinds, ReceiverFails(kinds)
  PROVE  /\ ~accepting' /\ rpc' = "terminate"
         /\ failEmitted' = (failEmitted \/ ~closed)
         /\ UNCHANGED <<flushed, closed, termTask, current, wpc, wcmd, wdoomed, apc, spc>>
         /\ UNCHANGED <<jobVars, finalVars, speechVars, futVars>>
         /\ IF LockFree
            THEN /\ holder' = "receiver" /\ tpc' = "awaitWorker" /\ tdoomed' = {} /\ CancelWorker
            ELSE UNCHANGED <<holder, tpc, tdoomed, wcancel>>
BY DEF ReceiverFails, FailAndClose, TakeTermination, speechVars

Fails == UNCHANGED inputQ /\ \E kinds \in {<<>>, <<"BACKPRESSURE">>} : ReceiverFails(kinds)

LEMMA FailuresFail ==
  /\ ProtocolError \/ ControlRaises => Fails
  /\ FeedAudio =>
       \/ Fails
       \/ /\ rpc = "recv" /\ accepting /\ ~closed /\ inputQ' = Append(inputQ, "audio")
          /\ UNCHANGED <<emitVars, streamVars, flagVars, futVars, clientVars>>
<1>1. ProtocolError \/ ControlRaises => Fails
  BY DEF ProtocolError, ControlRaises, Fails
<1>2. ReceiverFails(<<"BACKPRESSURE">>) /\ UNCHANGED inputQ => Fails
  BY DEF Fails
<1> QED BY <1>1, <1>2 DEF FeedAudio

LEMMA CancelWorkerMeans ==
  CancelWorker => \/ wpc = "done" /\ wcancel' = "none"
                  \/ wpc # "done" /\ wcancel' = "pending"
                  \/ wpc = "drain" /\ wcancel' = "late"
BY DEF CancelWorker

-----------------------------------------------------------------------------
(* The steps keep the control state. *)

LEMMA OrderStep ==
  ASSUME inputQ \in Seq({"audio", "flush", "close"}), OrderInv, [Next]_vars
  PROVE  OrderInv'
<1> USE DEF OrderInv
<1>1. ASSUME NEW cmd \in {"audio", "flush", "close"}, Hears(cmd) PROVE OrderInv'
  <2>1. inputQ # <<>> /\ inputQ' = Tail(inputQ) /\ UNCHANGED clientVars /\ (accepting' => accepting)
    BY <1>1, HearsMoves, WorkerRaisesMeans
  <2>2. \A i \in DOMAIN inputQ' : i + 1 \in DOMAIN inputQ /\ inputQ'[i] = inputQ[i + 1]
    BY <2>1
  <2>3. \A i \in DOMAIN inputQ' : i \in Nat
    BY <2>1
  <2> QED BY <2>1, <2>2, <2>3 DEF clientVars
<1>2. CASE DrainJoined \/ DrainTimeout \/ DrainCancelled \/ CloseCancelsJobs \/ FinishClose \/ WorkerCancelled
  BY <1>2 DEF DrainJoined, DrainTimeout, DrainCancelled, CloseCancelsJobs, FinishClose, WorkerCancelled,
    AfterDrain, WorkerRaises, FailAndClose, flagVars, clientVars
<1>3. CASE Finalizer \/ PrefetchEnds \/ Partial
  BY <1>3, FinalizerLeavesControl DEF ControlAlone, clientVars
<1>4. CASE Terminator
  BY <1>4 DEF Terminator, TerminationEntered, TerminationSkipped, TerminationDisowns, TerminationFailsJobs,
    TerminationEnds, Resume, DrainInputQueue, flagVars, clientVars
<1>5. CASE Abort
  BY <1>5 DEF Abort, AbortDropsPartials, AbortDisowns, AbortEnds, DrainInputQueue, flagVars, clientVars
<1>6. CASE Fails
  BY <1>6, ReceiverFailsMeans DEF Fails
<1>7. CASE rpc = "recv" /\ accepting /\ inputQ' = Append(inputQ, "audio") /\ UNCHANGED <<flagVars, clientVars>>
  BY <1>7 DEF flagVars, clientVars
<1>8. CASE Flush \/ Close \/ PutControl \/ ShutdownCloses \/ ShutdownPuts
  BY <1>8 DEF Flush, Close, PutControl, ShutdownCloses, ShutdownPuts, PutOrWait, HasInputRoom, flagVars,
    untouchedByShutdown
<1>9. CASE \/ Disconnect \/ ControlReturns \/ SenderObserved \/ SenderTimeout \/ Release \/ Sender
           \/ ShutdownDone \/ ShutdownAborts \/ ShutdownAborted \/ UNCHANGED vars
  BY <1>9 DEF Disconnect, ControlReturns, SenderObserved, SenderTimeout, Release, Sender, Send, SenderFails,
    ShutdownDone, ShutdownAborts, ShutdownAborted, StartAbort, untouchedByShutdown, sentVars, flagVars,
    clientVars, vars
<1> QED BY <1>1, <1>2, <1>3, <1>4, <1>5, <1>6, <1>7, <1>8, <1>9, CommandsHear, FailuresFail
  DEF Next, Worker, Client, Receiver, ServerShutdown, Finished

LEMMA TerminationStep ==
  ASSUME TypeOK, TerminationInv, [Next]_vars
  PROVE  TerminationInv'
<1> USE DEF TerminationInv
<1>1. ASSUME NEW cmd \in {"audio", "flush", "close"}, Hears(cmd) PROVE TerminationInv'
  BY <1>1, HearsMoves, WorkerRaisesMeans DEF Continue, LockFree, termVars
<1>2. CASE DrainJoined \/ DrainTimeout \/ CloseCancelsJobs \/ WorkerCancelled
  BY <1>2 DEF DrainJoined, DrainTimeout, CloseCancelsJobs, WorkerCancelled, AfterDrain, flagVars, termVars
<1>3. CASE DrainCancelled \/ FinishClose
  BY <1>3, WorkerRaisesMeans DEF DrainCancelled, FinishClose, AfterDrain, LockFree, termVars
<1>4. CASE Finalizer \/ PrefetchEnds \/ Partial
  BY <1>4, FinalizerLeavesControl DEF ControlAlone
<1>5. CASE TerminationEntered
  BY <1>5, WaitsMeans DEF TerminationEntered, TakeTermination, LockFree
<1>6. CASE TerminationSkipped \/ TerminationDisowns \/ TerminationFailsJobs
  BY <1>6, WaitsMeans DEF TerminationSkipped, TerminationDisowns, TerminationFailsJobs, Resume, flagVars, workerVars
<1>7. CASE TerminationEnds
  BY <1>7 DEF TerminationEnds, Resume, TypeOK, TermTypes
<1>8. CASE Abort
  BY <1>8 DEF Abort, AbortDropsPartials, AbortDisowns, AbortEnds, flagVars, workerVars, termVars
<1>9. CASE Fails
  BY <1>9, ReceiverFailsMeans DEF Fails, LockFree
<1>10. CASE UNCHANGED <<streamVars, closed>>
  BY <1>10 DEF streamVars, workerVars, termVars
<1>11. CASE Release \/ ShutdownAborts
  BY <1>11 DEF Release, ShutdownAborts, StartAbort, untouchedByShutdown, termVars
<1>12. CASE ShutdownCloses \/ ShutdownPuts \/ ShutdownDone \/ ShutdownAborted
  BY <1>12 DEF ShutdownCloses, ShutdownPuts, ShutdownDone, ShutdownAborted, untouchedByShutdown, termVars
<1>13. CASE \/ Flush \/ Close \/ PutControl \/ Disconnect \/ ControlReturns \/ SenderObserved \/ SenderTimeout
            \/ Sender \/ UNCHANGED vars
  BY <1>10, <1>13 DEF Flush, Close, PutControl, Disconnect, ControlReturns, SenderObserved, SenderTimeout,
    Sender, Send, SenderFails, sentVars, flagVars, streamVars, workerVars, termVars, vars
<1> QED BY <1>1, <1>2, <1>3, <1>4, <1>5, <1>6, <1>7, <1>8, <1>9, <1>10, <1>11, <1>12, <1>13,
           CommandsHear, FailuresFail
  DEF Next, Worker, Terminator, Client, Receiver, ServerShutdown, Finished, flagVars

(* Once speech is over it stays so: no step brings audio or an utterance back. *)
LEMMA SpeechStaysOver ==
  ASSUME inputQ \in Seq({"audio", "flush", "close"}), ~accepting, OnlyControls, [Next]_vars
  PROVE  ~accepting' /\ OnlyControls' /\ (current = NoUtterance => current' = NoUtterance)
<1> USE DEF OnlyControls
<1>1. ASSUME NEW cmd \in {"audio", "flush", "close"}, Hears(cmd)
      PROVE  ~accepting' /\ OnlyControls' /\ (current = NoUtterance => current' = NoUtterance)
  <2>1. inputQ # <<>> /\ inputQ' = Tail(inputQ) /\ Head(inputQ) = cmd /\ ~accepting'
    BY <1>1, HearsMoves, WorkerRaisesMeans
  <2>2. \A i \in DOMAIN inputQ' : i + 1 \in DOMAIN inputQ /\ inputQ'[i] = inputQ[i + 1]
    BY <2>1
  <2>3. cmd # "audio"
    BY <2>1
  <2>4. current = NoUtterance => current' = NoUtterance
    BY <1>1, <2>3 DEF Hears, NothingHeard, QueueFinalization, EmitNoSpeech, speechVars
  <2> QED BY <2>1, <2>2, <2>4
<1>2. CASE DrainJoined \/ DrainTimeout \/ DrainCancelled \/ CloseCancelsJobs \/ FinishClose \/ WorkerCancelled
  BY <1>2 DEF DrainJoined, DrainTimeout, DrainCancelled, CloseCancelsJobs, FinishClose, WorkerCancelled,
    AfterDrain, WorkerRaises, FailAndClose, flagVars, speechVars
<1>3. CASE Finalizer \/ PrefetchEnds \/ Partial
  BY <1>3, FinalizerLeavesControl DEF ControlAlone
<1>4. CASE Terminator
  BY <1>4 DEF Terminator, TerminationEntered, TerminationSkipped, TerminationDisowns, TerminationFailsJobs,
    TerminationEnds, DrainInputQueue, flagVars, speechVars
<1>5. CASE Abort
  BY <1>5 DEF Abort, AbortDropsPartials, AbortDisowns, AbortEnds, DrainInputQueue, flagVars, speechVars
<1>6. CASE Fails
  BY <1>6, ReceiverFailsMeans DEF Fails
<1>7. CASE Flush \/ Close \/ PutControl \/ ShutdownCloses \/ ShutdownPuts
  BY <1>7 DEF Flush, Close, PutControl, ShutdownCloses, ShutdownPuts, PutOrWait, HasInputRoom, flagVars,
    untouchedByShutdown, streamVars, speechVars
<1>8. CASE \/ Disconnect \/ ControlReturns \/ SenderObserved \/ SenderTimeout \/ Release \/ Sender
           \/ ShutdownDone \/ ShutdownAborts \/ ShutdownAborted \/ UNCHANGED vars
  BY <1>8 DEF Disconnect, ControlReturns, SenderObserved, SenderTimeout, Release, Sender, Send, SenderFails,
    ShutdownDone, ShutdownAborts, ShutdownAborted, StartAbort, untouchedByShutdown, sentVars, streamVars,
    speechVars, flagVars, vars
<1> QED BY <1>1, <1>2, <1>3, <1>4, <1>5, <1>6, <1>7, <1>8, CommandsHear, FailuresFail
  DEF Next, Worker, Client, Receiver, ServerShutdown, Finished

(* What the other tasks may do to the worker: cancel it, or let it go on from a
   termination.                                                              *)
OthersAlone ==
  /\ UNCHANGED <<wpc, wcmd>> \/ (wpc = "terminate" /\ wpc' = "done" /\ UNCHANGED wcmd)
  /\ wcancel' = wcancel \/ CancelWorker

LEMMA OthersLeaveWorker ==
  ASSUME TypeOK, TerminationInv, [Next]_vars, ~Worker
  PROVE  OthersAlone
<1> USE DEF OthersAlone
<1>1. CASE Finalizer \/ PrefetchEnds \/ Partial
  BY <1>1, FinalizerLeavesControl DEF ControlAlone
<1>2. CASE TerminationEntered
  BY <1>2 DEF TerminationEntered, TakeTermination
<1>3. CASE TerminationSkipped
  BY <1>3, WaitsMeans DEF TerminationSkipped, Resume
<1>4. CASE TerminationDisowns \/ TerminationFailsJobs
  BY <1>4 DEF TerminationDisowns, TerminationFailsJobs, workerVars
<1>5. CASE TerminationEnds
  BY <1>5 DEF TerminationEnds, Resume, TerminationInv
<1>6. CASE Abort
  BY <1>6 DEF Abort, AbortDropsPartials, AbortDisowns, AbortEnds, workerVars
<1>7. CASE Fails
  BY <1>7, ReceiverFailsMeans DEF Fails
<1>8. CASE Release \/ ShutdownAborts
  BY <1>8 DEF Release, ShutdownAborts, StartAbort, untouchedByShutdown
<1>9. CASE UNCHANGED workerVars
  BY <1>9 DEF workerVars
<1>10. CASE \/ Flush \/ Close \/ PutControl \/ Disconnect \/ ControlReturns \/ SenderObserved \/ SenderTimeout
            \/ Sender \/ UNCHANGED vars
  BY <1>9, <1>10 DEF Flush, Close, PutControl, Disconnect, ControlReturns, SenderObserved, SenderTimeout,
    Sender, Send, SenderFails, sentVars, streamVars, vars
<1>11. CASE ShutdownCloses \/ ShutdownPuts \/ ShutdownDone \/ ShutdownAborted
  BY <1>11 DEF ShutdownCloses, ShutdownPuts, ShutdownDone, ShutdownAborted, untouchedByShutdown
<1>12. FeedAudio => Fails \/ UNCHANGED workerVars
  BY FailuresFail DEF streamVars
<1> QED BY <1>1, <1>2, <1>3, <1>4, <1>5, <1>6, <1>7, <1>8, <1>9, <1>10, <1>11, <1>12, FailuresFail
  DEF Next, Terminator, Client, Receiver, ServerShutdown, Finished

LEMMA CommandStep ==
  ASSUME TypeOK, OrderInv, TerminationInv, CommandInv, [Next]_vars
  PROVE  CommandInv'
<1> USE DEF CommandInv
<1>1. inputQ \in Seq({"audio", "flush", "close"})
  BY DEF TypeOK
<1>2. SpeechOver => ~accepting' /\ OnlyControls' /\ (current = NoUtterance => current' = NoUtterance)
  BY <1>1, SpeechStaysOver DEF SpeechOver
<1>3. ASSUME NEW cmd \in {"audio", "flush", "close"}, Hears(cmd) PROVE CommandInv'
  <2>1. /\ inputQ # <<>> /\ Head(inputQ) = cmd /\ inputQ' = Tail(inputQ) /\ wpc = "get"
        /\ \/ Continue(cmd) /\ UNCHANGED accepting /\ (cmd = "flush" => current' = NoUtterance)
           \/ WorkerRaises(cmd)
    BY <1>3, HearsMoves
  <2>2. CASE WorkerRaises(cmd)
    BY <2>2, WorkerRaisesMeans
  <2>3. CASE Continue(cmd) /\ cmd = "audio"
    BY <2>1, <2>3 DEF Continue
  <2>4. CASE Continue(cmd) /\ UNCHANGED accepting /\ cmd # "audio" /\ (cmd = "flush" => current' = NoUtterance)
    <3>1. 1 \in DOMAIN inputQ /\ inputQ[1] # "audio"
      BY <1>1, <2>1, <2>4
    <3>2. ~accepting
      BY <3>1 DEF OrderInv
    <3>3. OnlyControls'
      <4>1. \A i \in DOMAIN inputQ' : i + 1 \in DOMAIN inputQ /\ inputQ'[i] = inputQ[i + 1] /\ 1 < i + 1
        BY <1>1, <2>1
      <4> QED BY <3>1, <4>1 DEF OnlyControls, OrderInv
    <3> QED BY <2>4, <3>2, <3>3 DEF Continue, SpeechOver
  <2> QED BY <2>1, <2>2, <2>3, <2>4
<1>4. CASE DrainJoined \/ DrainTimeout \/ CloseCancelsJobs \/ WorkerCancelled
  BY <1>2, <1>4 DEF DrainJoined, DrainTimeout, CloseCancelsJobs, WorkerCancelled, AfterDrain, SpeechOver, TypeOK, WorkerTypes
<1>5. CASE DrainCancelled \/ FinishClose
  BY <1>2, <1>5, WorkerRaisesMeans DEF DrainCancelled, FinishClose, AfterDrain, SpeechOver, TypeOK, WorkerTypes
<1>6. CASE ~Worker
  BY <1>2, <1>6, OthersLeaveWorker DEF OthersAlone, SpeechOver
<1> QED BY <1>3, <1>4, <1>5, <1>6, CommandsHear DEF Worker

(* Whoever is silenced stays so.                                             *)
LEMMA SilencedStays ==
  ASSUME TypeOK, OrderInv, TerminationInv, CommandInv, Silenced, [Next]_vars
  PROVE  Silenced'
<1> USE DEF Silenced
<1>1. inputQ \in Seq({"audio", "flush", "close"})
  BY DEF TypeOK
<1>2. SpeechOver => ~accepting' /\ OnlyControls' /\ (current = NoUtterance => current' = NoUtterance)
  BY <1>1, SpeechStaysOver DEF SpeechOver
<1>3. ASSUME NEW cmd \in {"audio", "flush", "close"}, Hears(cmd) PROVE Silenced'
  <2>1. wpc = "get" /\ wcmd = "none" /\ SpeechOver
    BY <1>3, HearsMoves DEF CommandInv
  <2> QED BY <1>2, <2>1 DEF SpeechOver
<1>4. CASE DrainJoined \/ DrainTimeout \/ CloseCancelsJobs \/ WorkerCancelled
  BY <1>2, <1>4 DEF DrainJoined, DrainTimeout, CloseCancelsJobs, WorkerCancelled, AfterDrain, SpeechOver,
    CommandInv, TypeOK, WorkerTypes
<1>5. CASE DrainCancelled \/ FinishClose
  BY <1>2, <1>5, WorkerRaisesMeans DEF DrainCancelled, FinishClose, AfterDrain, SpeechOver, CommandInv,
    TypeOK, WorkerTypes
<1>6. CASE ~Worker
  BY <1>2, <1>6, OthersLeaveWorker, CancelWorkerMeans DEF OthersAlone, SpeechOver, CommandInv
<1> QED BY <1>3, <1>4, <1>5, <1>6, CommandsHear DEF Worker

(* The stream fails, is terminated or closes only by a step that silences the worker. *)
LEMMA OthersSilence ==
  ASSUME TypeOK, TerminationInv, [Next]_vars, ~Worker, failEmitted' \/ holder' # "none" \/ closed'
  PROVE  \/ failEmitted \/ holder # "none" \/ closed
         \/ wpc = "terminate"
         \/ UNCHANGED wpc /\ CancelWorker
<1>1. CASE Finalizer \/ PrefetchEnds \/ Partial
  BY <1>1, FinalizerLeavesControl DEF ControlAlone
<1>2. CASE TerminationEntered
  BY <1>2, WaitsMeans DEF TerminationEntered, TakeTermination
<1>3. CASE TerminationSkipped \/ TerminationDisowns \/ TerminationFailsJobs \/ TerminationEnds
  BY <1>3 DEF TerminationSkipped, TerminationDisowns, TerminationFailsJobs, TerminationEnds, TerminationInv, flagVars
<1>4. CASE Abort
  BY <1>4 DEF Abort, AbortDropsPartials, AbortDisowns, AbortEnds, TerminationInv
<1>5. CASE Fails
  BY <1>5, ReceiverFailsMeans DEF Fails, LockFree
<1>6. CASE Release \/ ShutdownAborts
  BY <1>6 DEF Release, ShutdownAborts, StartAbort, untouchedByShutdown, termVars
<1>7. CASE \/ Flush \/ Close \/ PutControl \/ Disconnect \/ ControlReturns \/ SenderObserved \/ SenderTimeout
           \/ Sender \/ UNCHANGED vars
  BY <1>7 DEF Flush, Close, PutControl, Disconnect, ControlReturns, SenderObserved, SenderTimeout,
    Sender, Send, SenderFails, sentVars, streamVars, flagVars, termVars, vars
<1>8. CASE ShutdownCloses \/ ShutdownPuts \/ ShutdownDone \/ ShutdownAborted
  BY <1>8 DEF ShutdownCloses, ShutdownPuts, ShutdownDone, ShutdownAborted, untouchedByShutdown, termVars
<1>9. FeedAudio => Fails \/ UNCHANGED <<streamVars, flagVars>>
  BY FailuresFail
<1>10. UNCHANGED <<streamVars, flagVars>> => failEmitted \/ holder # "none" \/ closed
  BY DEF streamVars, flagVars, termVars
<1> QED BY <1>1, <1>2, <1>3, <1>4, <1>5, <1>6, <1>7, <1>8, <1>9, <1>10, FailuresFail
  DEF Next, Terminator, Client, Receiver, ServerShutdown, Finished

LEMMA SilenceStep ==
  ASSUME TypeOK, OrderInv, TerminationInv, CommandInv, SilenceInv, [Next]_vars
  PROVE  SilenceInv'
<1> SUFFICES ASSUME failEmitted' \/ holder' # "none" \/ closed' PROVE Silenced'
  BY DEF SilenceInv
<1>1. CASE failEmitted \/ holder # "none" \/ closed
  BY <1>1, SilencedStays DEF SilenceInv
<1>2. CASE ~(failEmitted \/ holder # "none" \/ closed)
  <2>1. ASSUME NEW cmd \in {"audio", "flush", "close"}, Hears(cmd) PROVE Silenced'
    BY <1>2, <2>1, HearsMoves, WorkerRaisesMeans DEF Silenced, termVars
  <2>2. CASE Worker /\ ~\E cmd \in {"audio", "flush", "close"} : Hears(cmd)
    <3>1. CASE DrainJoined \/ DrainTimeout \/ CloseCancelsJobs \/ WorkerCancelled
      BY <1>2, <3>1 DEF DrainJoined, DrainTimeout, CloseCancelsJobs, WorkerCancelled, AfterDrain, Silenced,
        flagVars, termVars
    <3>2. CASE DrainCancelled \/ FinishClose
      BY <1>2, <3>2, WorkerRaisesMeans DEF DrainCancelled, FinishClose, AfterDrain, Silenced, termVars
    <3> QED BY <2>2, <3>1, <3>2, CommandsHear DEF Worker
  <2>3. CASE ~Worker /\ (wpc = "terminate" \/ (UNCHANGED wpc /\ CancelWorker))
    <3>1. CASE wpc = "terminate"
      BY <3>1, SilencedStays DEF Silenced
    <3>2. CASE UNCHANGED wpc /\ CancelWorker /\ wpc = "drain"
      BY <3>2, SilencedStays DEF Silenced, CommandInv
    <3>3. CASE UNCHANGED wpc /\ CancelWorker /\ wpc # "drain"
      BY <3>3, CancelWorkerMeans DEF Silenced
    <3> QED BY <2>3, <3>1, <3>2, <3>3
  <2> QED BY <1>2, <2>1, <2>2, <2>3, OthersSilence
<1> QED BY <1>1, <1>2

LEMMA ControlStep ==
  ASSUME TypeOK, ControlInv, [Next]_vars
  PROVE  ControlInv'
<1>1. inputQ \in Seq({"audio", "flush", "close"})
  BY DEF TypeOK
<1> QED BY <1>1, OrderStep, TerminationStep, CommandStep, SilenceStep DEF ControlInv

LEMMA ControlInit == Init => ControlInv
BY DEF Init, ControlInv, OrderInv, TerminationInv, CommandInv, SilenceInv

-----------------------------------------------------------------------------
(* Jobs: the parts of the invariant. *)

(* Ownership is given up for good: no job is pending, none prefetched, and the
   finalizer is gone or about to notice.                                     *)
Disowned ==
  pending = {} /\ prefetched = NoUtterance /\ (fcancel \/ fpc \in {"stopped", "dead"})

(* Behind each _cancel_final_jobs nobody owns a job any more (874-894), and the queue
   that a termination leaves is empty.                                       *)
DisownInv ==
  /\ wpc \in {"cancelDrain", "closeFinal"} => Disowned
  /\ tpc \in {"sleepFinal", "sleepBg"} => Disowned
  /\ apc \in {"sleepFinal", "finished"} => Disowned
  /\ tpc = "sleepBg" => finalQ = <<>>
  /\ fcancel \/ fpc = "stopped" => Disowned /\ Silenced

Queued == { finalQ[i] : i \in DOMAIN finalQ }
InHands == {active} \ {NoUtterance}
Full == pending = Queued \cup InHands

(* While the worker may accept utterances, what is owned is queued or in the
   finalizer's hands.                                                        *)
Working == {"get", "drain", "closeBg"}

(* Utterances are accepted in the order of speech, and wait in it; what is owned is
   queued or in the finalizer's hands until it is disowned.                  *)
QueueInv ==
  /\ \A i, j \in DOMAIN finalQ : i < j => finalQ[i] < finalQ[j]
  /\ active # NoUtterance => \A i \in DOMAIN finalQ : active < finalQ[i]
  /\ Queued \cup InHands \cup pending \subseteq accepted
  /\ accepted \subseteq 1 .. sequence
  /\ current # NoUtterance => current = sequence /\ current \notin accepted
  /\ Full \/ pending = {}
  /\ fpc \notin {"stopped", "dead"} /\ ~fcancel => Full
  /\ wpc \in Working => Queued \subseteq pending

(* What is recognised belongs to an owned job: the one in the finalizer's hands, or
   the next in line while nothing else is recognised.                        *)
RecognitionInv ==
  /\ fpc \in {"prepare", "await"} => prefetched = NoUtterance
  /\ \A u \in Utterances : prep[u] = "running" =>
       u \in pending /\ (u = prefetched \/ (u = active /\ fpc = "await"))
  /\ prefetched # NoUtterance => finalQ # <<>> /\ prefetched = Head(finalQ)

-----------------------------------------------------------------------------
(* What the steps do to the jobs. *)

(* The utterance being spoken is accepted with length n.                     *)
Accepts(n) ==
  /\ current # NoUtterance /\ HasRoom(n) /\ ~Silenced /\ wpc = "get"
  /\ pending' = pending \cup {current}
  /\ pendingAudio' = pendingAudio + n
  /\ audio' = [audio EXCEPT ![current] = n]
  /\ finalQ' = Append(finalQ, current)
  /\ accepted' = accepted \cup {current}
  /\ current' = NoUtterance
  /\ SchedulePrefetch(active, fpc = "translate", pending \cup {current})
  /\ UNCHANGED <<sequence, active, finalVars, emitVars, closed, failEmitted>>

(* The utterance being spoken is begun or given up, or another goes on.      *)
SpeechMoves ==
  \/ UNCHANGED sequence /\ current' \in {current, NoUtterance}
  \/ /\ current = NoUtterance /\ sequence < MaxUtterances
     /\ sequence' = sequence + 1 /\ current' = sequence'
     /\ ~Silenced

JobsStay == UNCHANGED <<jobVars, finalVars>> /\ SpeechMoves /\ (wpc' \in Working => wpc \in Working)
JobsDisowned == DisownJobs /\ SpeechMoves /\ Silenced' /\ wpc' \notin Working
QueueEmptied == EmptyFinalQueue /\ Disowned /\ UNCHANGED speechVars

LEMMA HearsJobs ==
  ASSUME TypeOK, ControlInv, NEW cmd \in {"audio", "flush", "close"}, Hears(cmd)
  PROVE  JobsStay \/ (JobsDisowned /\ wpc' = "terminate") \/ \E n \in Lengths : Accepts(n)
<1>1. wpc = "get" /\ (Silenced => current = NoUtterance /\ cmd # "audio")
  <2>1. wpc = "get" /\ wcancel = "none" /\ inputQ # <<>> /\ Head(inputQ) = cmd /\ wcmd = "none"
    BY HearsMoves DEF ControlInv, CommandInv
  <2>2. 1 \in DOMAIN inputQ /\ inputQ[1] = cmd
    BY <2>1 DEF TypeOK
  <2> QED BY <2>1, <2>2 DEF Silenced, SpeechOver, OnlyControls
<1>2. ASSUME NEW kinds, CommandFails(cmd, kinds), SpeechMoves
      PROVE  JobsStay \/ (JobsDisowned /\ wpc' = "terminate")
  BY <1>1, <1>2, WorkerRaisesMeans DEF CommandFails, JobsStay, JobsDisowned, Silenced, Working
<1>3. CASE UNCHANGED <<jobVars, finalVars>> /\ SpeechMoves
  BY <1>1, <1>3 DEF JobsStay, Working
<1>4. CASE NothingHeard(cmd)
  BY <1>3, <1>4 DEF NothingHeard, SpeechMoves, speechVars
<1>5. CASE QueueFinalization(cmd)
  <2>1. ASSUME NEW n \in Lengths, ~HasRoom(n), CommandFails(cmd, <<>>) /\ UNCHANGED speechVars
        PROVE  JobsStay \/ (JobsDisowned /\ wpc' = "terminate")
    BY <1>2, <2>1 DEF SpeechMoves, speechVars
  <2>2. current # NoUtterance /\ ~Silenced
    BY <1>1, <1>5 DEF QueueFinalization
  <2> QED BY <1>1, <1>5, <2>1, <2>2 DEF QueueFinalization, Accepts, flagVars
<1>6. CASE EmitNoSpeech(cmd)
  <2>1. SpeechMoves
    BY <1>6 DEF EmitNoSpeech, SpeechMoves
  <2> QED BY <1>2, <1>3, <1>6, <2>1 DEF EmitNoSpeech
<1>7. CASE cmd = "audio" /\ StartUtterance
  <2>1. SpeechMoves
    BY <1>1, <1>7 DEF StartUtterance, SpeechMoves
  <2> QED BY <1>2, <1>3, <1>7, <2>1 DEF StartUtterance
<1>8. CASE SchedulePartial
  BY <1>3, <1>8 DEF SchedulePartial, SpeechMoves, speechVars
<1> QED BY <1>4, <1>5, <1>6, <1>7, <1>8 DEF Hears

(* Every other step leaves the jobs alone, disowns them, empties the queue of jobs
   that nobody owns, or is the finalizer's.                                  *)
LEMMA JobMoves ==
  ASSUME TypeOK, ControlInv, DisownInv, [Next]_vars, ~Finalizer, ~PrefetchEnds
  PROVE  JobsStay \/ JobsDisowned \/ QueueEmptied \/ \E n \in Lengths : Accepts(n)
<1> DEFINE Stays == UNCHANGED <<jobVars, finalVars, speechVars>>
<1>1. Stays /\ (wpc' \in Working => wpc \in Working) => JobsStay
  BY DEF JobsStay, SpeechMoves, speechVars
<1>2. DisownJobs /\ UNCHANGED speechVars /\ wpc' \in {"cancelDrain", "closeFinal", "terminate", "done"} /\ Silenced'
        => JobsDisowned
  BY DEF JobsDisowned, SpeechMoves, speechVars, Working
<1>3. EmptyFinalQueue /\ Disowned /\ UNCHANGED speechVars => QueueEmptied
  BY DEF QueueEmptied
<1>4. Silenced => Silenced'
  BY SilencedStays DEF ControlInv
<1>5. ASSUME NEW cmd \in {"audio", "flush", "close"}, Hears(cmd)
      PROVE  JobsStay \/ JobsDisowned \/ \E n \in Lengths : Accepts(n)
  BY <1>5, HearsJobs
<1>6. CASE DrainJoined \/ DrainTimeout \/ CloseCancelsJobs
  <2>1. Silenced
    BY <1>6 DEF DrainJoined, DrainTimeout, CloseCancelsJobs, ControlInv, CommandInv, Silenced
  <2> QED BY <1>1, <1>2, <1>4, <1>6, <2>1 DEF DrainJoined, DrainTimeout, CloseCancelsJobs, Working
<1>7. CASE DrainCancelled \/ FinishClose
  BY <1>3, <1>7 DEF DrainCancelled, FinishClose, DisownInv
<1>8. CASE WorkerCancelled
  BY <1>1, <1>8 DEF WorkerCancelled, Working
<1>9. CASE Partial
  BY <1>1, <1>9 DEF Partial, PartialSkipped, PartialShown, workerVars
<1>10. CASE TerminationEntered
  BY <1>1, <1>2, <1>4, <1>10, WaitsMeans DEF TerminationEntered, Silenced
<1>11. CASE TerminationDisowns
  BY <1>2, <1>4, <1>11 DEF TerminationDisowns, Silenced, workerVars
<1>12. CASE TerminationFailsJobs
  BY <1>3, <1>12 DEF TerminationFailsJobs, DisownInv
<1>13. CASE TerminationSkipped \/ TerminationEnds
  BY <1>1, <1>13 DEF TerminationSkipped, TerminationEnds, Resume, Working
<1>14. CASE AbortDropsPartials \/ AbortDisowns
  BY <1>1, <1>2, <1>4, <1>14 DEF AbortDropsPartials, AbortDisowns, Silenced, ControlInv, TerminationInv, workerVars
<1>15. CASE AbortEnds
  BY <1>3, <1>15 DEF AbortEnds, DisownInv
<1>16. CASE Fails
  BY <1>1, <1>16, ReceiverFailsMeans DEF Fails
<1>17. CASE UNCHANGED streamVars
  BY <1>1, <1>17 DEF streamVars, workerVars
<1>18. CASE \/ Flush \/ Close \/ PutControl \/ Disconnect \/ ControlReturns \/ SenderObserved \/ SenderTimeout
            \/ Sender \/ UNCHANGED vars
  BY <1>17, <1>18 DEF Flush, Close, PutControl, Disconnect, ControlReturns, SenderObserved, SenderTimeout,
    Sender, Send, SenderFails, sentVars, streamVars, vars
<1>19. CASE Release
  BY <1>1, <1>19 DEF Release
<1>20. CASE ShutdownCloses \/ ServerShutdown
  BY <1>1, <1>20 DEF ShutdownCloses, ServerShutdown, ShutdownPuts, ShutdownDone, ShutdownAborts,
    ShutdownAborted, untouchedByShutdown
<1>21. FeedAudio => Fails \/ UNCHANGED streamVars
  BY FailuresFail
<1> QED BY <1>5, <1>6, <1>7, <1>8, <1>9, <1>10, <1>11, <1>12, <1>13, <1>14, <1>15, <1>16, <1>17, <1>18,
           <1>19, <1>20, <1>21, CommandsHear, FailuresFail
  DEF Next, Worker, Terminator, Abort, Client, Receiver, Finished

(* The finalizer takes the next job, or finds its deadline passed.           *)
TakesJob ==
  /\ fpc = "get" /\ ~fcancel /\ finalQ # <<>> /\ finalQ' = Tail(finalQ)
  /\ prefetched' = IF prefetched = Head(finalQ) THEN NoUtterance ELSE prefetched
  /\ \/ /\ active' = Head(finalQ)
        /\ fpc' = IF prep[Head(finalQ)] = "none" THEN "prepare" ELSE "await"
        /\ UNCHANGED <<unfinished, pending, pendingAudio, audio, prep, accepted, fcancel, emitVars>>
     \/ Conclude(Head(finalQ), <<"FAILED">>)

(* The rows of events that end a job.                                        *)
LastRows ==
  {<<"NO_SPEECH">>, <<"FAILED">>, <<"COMPLETED">>, <<"TRANSCRIPT_FINAL", "FAILED">>,
   <<"TRANSCRIPT_FINAL">>}

(* ... gives its job an outcome, or dies of the attempt,                     *)
EndsJob ==
  /\ fpc \in {"prepare", "await", "translate"} /\ ~fcancel /\ Owned(active)
  /\ \E kinds \in LastRows :
       Conclude(active, kinds) /\ (kinds = <<"TRANSCRIPT_FINAL">> => ~Fits(1))
  /\ UNCHANGED <<finalQ, prefetched>>

(* ... or has its text translated while the next job is prepared.            *)
Translates ==
  /\ ~fcancel /\ Owned(active)
  /\ fpc = "prepare" \/ (fpc = "await" /\ prep[active] = "text")
  /\ Emit("TRANSCRIPT_FINAL", active)
  /\ fpc' = "translate"
  /\ SchedulePrefetch(active, TRUE, pending)
  /\ UNCHANGED <<finalQ, unfinished, pending, pendingAudio, audio, active, accepted, fcancel>>

LEMMA FinalizerMoves ==
  /\ Finalizer => TakesJob \/ EndsJob \/ Translates \/ FinalizerCancelled
  /\ Finalizer => UNCHANGED untouchedByFinalizer
<1>1. TakeJob => TakesJob
  BY DEF TakeJob, TakesJob
<1>2. PreparedOutcome \/ Translated \/ FinalTimeout => EndsJob
  BY DEF PreparedOutcome, Translated, FinalTimeout, EndsJob, Brings, LastRows
<1>3. PreparedText => EndsJob \/ Translates
  BY DEF PreparedText, Translates, EndsJob, Brings, LastRows
<1>4. Finalizer => UNCHANGED untouchedByFinalizer
  BY DEF Finalizer, TakeJob, PreparedOutcome, PreparedText, Translated, FinalTimeout, FinalizerCancelled
<1> QED BY <1>1, <1>2, <1>3, <1>4 DEF Finalizer

-----------------------------------------------------------------------------
(* The steps keep the jobs. *)

(* What has been disowned while the worker is silenced stays disowned.       *)
LEMMA DisownedStays ==
  ASSUME TypeOK, ControlInv, DisownInv, Disowned, Silenced, [Next]_vars
  PROVE  Disowned' /\ (finalQ = <<>> => finalQ' = <<>>)
<1>1. CASE Finalizer
  <2>1. FinalizerCancelled
    BY <1>1, FinalizerMoves DEF Disowned, TakesJob, EndsJob, Translates
  <2> QED BY <2>1 DEF FinalizerCancelled, Disowned, Settle
<1>2. CASE PrefetchEnds
  BY <1>2 DEF PrefetchEnds, Disowned, finalVars
<1>3. CASE JobsStay \/ JobsDisowned \/ QueueEmptied
  BY <1>3 DEF JobsStay, JobsDisowned, QueueEmptied, EmptyFinalQueue, DisownJobs, Disowned, jobVars, finalVars
<1>4. ~\E n \in Lengths : Accepts(n)
  BY DEF Accepts
<1> QED BY <1>1, <1>2, <1>3, <1>4, JobMoves

(* A task goes behind its _cancel_final_jobs by disowning the jobs.          *)
LEMMA DisownsOnEntry ==
  ASSUME TypeOK, ControlInv, [Next]_vars
  PROVE  /\ wpc' \in {"cancelDrain", "closeFinal"} => wpc \in {"cancelDrain", "closeFinal"} \/ DisownJobs
         /\ tpc' = "sleepFinal" => tpc' = tpc \/ DisownJobs \/ wpc \in {"cancelDrain", "closeFinal"}
         /\ tpc' = "sleepBg" => tpc' = tpc \/ (tpc = "sleepFinal" /\ EmptyFinalQueue)
         /\ apc' = "sleepFinal" => apc' = apc \/ DisownJobs
         /\ apc' = "finished" => apc' = apc \/ apc = "sleepFinal"
<1> DEFINE Behind ==
         /\ wpc' \in {"cancelDrain", "closeFinal"} => wpc \in {"cancelDrain", "closeFinal"} \/ DisownJobs
         /\ tpc' = "sleepFinal" => tpc' = tpc \/ DisownJobs \/ wpc \in {"cancelDrain", "closeFinal"}
         /\ tpc' = "sleepBg" => tpc' = tpc \/ (tpc = "sleepFinal" /\ EmptyFinalQueue)
         /\ apc' = "sleepFinal" => apc' = apc \/ DisownJobs
         /\ apc' = "finished" => apc' = apc \/ apc = "sleepFinal"
<1>1. ASSUME NEW cmd \in {"audio", "flush", "close"}, Hears(cmd) PROVE Behind
  BY <1>1, HearsMoves, WorkerRaisesMeans DEF Continue, termVars, LockFree
<1>2. CASE DrainJoined \/ DrainTimeout \/ CloseCancelsJobs
  BY <1>2 DEF DrainJoined, DrainTimeout, CloseCancelsJobs, AfterDrain, termVars
<1>3. CASE DrainCancelled
  BY <1>3, WorkerRaisesMeans DEF DrainCancelled, AfterDrain, ControlInv, CommandInv, LockFree, termVars
<1>4. CASE FinishClose \/ WorkerCancelled
  BY <1>4, WorkerRaisesMeans DEF FinishClose, WorkerCancelled, LockFree, termVars
<1>5. CASE Finalizer \/ PrefetchEnds \/ Partial
  BY <1>5, FinalizerLeavesControl DEF ControlAlone
<1>6. CASE TerminationEntered
  BY <1>6, WaitsMeans DEF TerminationEntered, TakeTermination
<1>7. CASE TerminationSkipped \/ TerminationDisowns \/ TerminationFailsJobs \/ TerminationEnds
  BY <1>7 DEF TerminationSkipped, TerminationDisowns, TerminationFailsJobs, TerminationEnds, Resume, workerVars
<1>8. CASE Abort
  BY <1>8 DEF Abort, AbortDropsPartials, AbortDisowns, AbortEnds, workerVars, termVars
<1>9. CASE Fails
  BY <1>9, ReceiverFailsMeans DEF Fails, LockFree
<1>10. CASE Release \/ ShutdownAborts
  BY <1>10 DEF Release, ShutdownAborts, StartAbort, untouchedByShutdown, termVars
<1>11. CASE UNCHANGED streamVars
  BY <1>11 DEF streamVars, workerVars, termVars
<1>12. CASE \/ Flush \/ Close \/ PutControl \/ Disconnect \/ ControlReturns \/ SenderObserved \/ SenderTimeout
            \/ Sender \/ UNCHANGED vars
  BY <1>11, <1>12 DEF Flush, Close, PutControl, Disconnect, ControlReturns, SenderObserved, SenderTimeout,
    Sender, Send, SenderFails, sentVars, streamVars, vars
<1>13. CASE ShutdownCloses \/ ShutdownPuts \/ ShutdownDone \/ ShutdownAborted
  BY <1>13 DEF ShutdownCloses, ShutdownPuts, ShutdownDone, ShutdownAborted, untouchedByShutdown, termVars
<1>14. FeedAudio => Fails \/ UNCHANGED streamVars
  BY FailuresFail
<1> QED BY <1>1, <1>2, <1>3, <1>4, <1>5, <1>6, <1>7, <1>8, <1>9, <1>10, <1>11, <1>12, <1>13, <1>14,
           CommandsHear, FailuresFail
  DEF Next, Worker, Terminator, Client, Receiver, ServerShutdown, Finished

LEMMA DisownStep ==
  ASSUME TypeOK, ControlInv, DisownInv, [Next]_vars
  PROVE  DisownInv'
<1>1. DisownJobs => Disowned'
  BY DEF DisownJobs, Disowned
<1>2. Silenced => Silenced'
  BY SilencedStays DEF ControlInv
<1>3. wpc \in {"cancelDrain", "closeFinal"} \/ tpc \in {"sleepFinal", "sleepBg"} \/ apc # "none" => Silenced
  BY DEF ControlInv, CommandInv, SilenceInv, TerminationInv, Silenced
<1>4. wpc' \in {"cancelDrain", "closeFinal"} => Disowned'
  BY <1>1, <1>3, DisownsOnEntry, DisownedStays DEF DisownInv
<1>5. tpc' \in {"sleepFinal", "sleepBg"} => Disowned'
  BY <1>1, <1>3, DisownsOnEntry, DisownedStays DEF DisownInv
<1>6. apc' \in {"sleepFinal", "finished"} => Disowned'
  BY <1>1, <1>3, DisownsOnEntry, DisownedStays DEF DisownInv
<1>7. tpc' = "sleepBg" => finalQ' = <<>>
  BY <1>3, DisownsOnEntry, DisownedStays DEF DisownInv, EmptyFinalQueue
<1>8. fcancel' \/ fpc' = "stopped" => Disowned' /\ Silenced'
  <2>1. CASE fcancel \/ fpc = "stopped"
    BY <1>2, <2>1, DisownedStays DEF DisownInv
  <2>2. CASE ~fcancel /\ fpc # "stopped"
    <3>1. CASE Finalizer
      BY <2>2, <3>1, FinalizerMoves DEF TakesJob, EndsJob, Translates, FinalizerCancelled, Conclude
    <3>2. CASE PrefetchEnds
      BY <2>2, <3>2 DEF PrefetchEnds, finalVars
    <3>3. CASE JobsStay \/ QueueEmptied \/ \E n \in Lengths : Accepts(n)
      BY <2>2, <3>3 DEF JobsStay, QueueEmptied, Accepts, EmptyFinalQueue, finalVars
    <3>4. CASE JobsDisowned
      BY <1>1, <3>4 DEF JobsDisowned
    <3> QED BY <3>1, <3>2, <3>3, <3>4, JobMoves
  <2> QED BY <2>1, <2>2
<1> QED BY <1>4, <1>5, <1>6, <1>7, <1>8 DEF DisownInv

(* The next job is at the head of the queue, and no two wait under one name. *)
LEMMA QueueTail ==
  ASSUME finalQ \in Seq(Utterances), finalQ # <<>>, finalQ' = Tail(finalQ)
  PROVE  /\ \A i \in DOMAIN finalQ' : i + 1 \in DOMAIN finalQ /\ finalQ'[i] = finalQ[i + 1] /\ i \in Nat /\ 1 <= i
         /\ \A i \in DOMAIN finalQ : i = 1 \/ (i - 1 \in DOMAIN finalQ' /\ finalQ[i] = finalQ'[i - 1])
         /\ 1 \in DOMAIN finalQ /\ Head(finalQ) = finalQ[1] /\ Head(finalQ) \in Utterances
         /\ DOMAIN finalQ \subseteq Nat \ {0} /\ DOMAIN finalQ' \subseteq Nat \ {0}
OBVIOUS

LEMMA QueueAfterTail ==
  ASSUME finalQ \in Seq(Utterances), finalQ # <<>>, finalQ' = Tail(finalQ), QueueInv
  PROVE  /\ Queued = Queued' \cup {Head(finalQ)} /\ Head(finalQ) \notin Queued'
         /\ \A i, j \in DOMAIN finalQ' : i < j => finalQ'[i] < finalQ'[j]
         /\ \A i \in DOMAIN finalQ' : Head(finalQ) < finalQ'[i]
         /\ active # NoUtterance => \A i \in DOMAIN finalQ' : active < finalQ'[i]
         /\ Head(finalQ) \in Utterances
<1>1. Queued = Queued' \cup {Head(finalQ)}
  <2>1. \A u \in Queued : u \in Queued' \cup {Head(finalQ)}
    BY QueueTail DEF Queued
  <2>2. \A u \in Queued' \cup {Head(finalQ)} : u \in Queued
    BY QueueTail DEF Queued
  <2> QED BY <2>1, <2>2
<1>2. \A i, j \in DOMAIN finalQ' : i < j => finalQ'[i] < finalQ'[j]
  BY QueueTail DEF QueueInv
<1>3. \A i \in DOMAIN finalQ' : Head(finalQ) < finalQ'[i]
  BY QueueTail DEF QueueInv
<1>4. active # NoUtterance => \A i \in DOMAIN finalQ' : active < finalQ'[i]
  BY QueueTail DEF QueueInv
<1>5. Head(finalQ) \notin Queued'
  <2>1. Head(finalQ) \in Int
    BY QueueTail DEF Utterances
  <2> QED BY <1>3, <2>1 DEF Queued
<1> QED BY <1>1, <1>2, <1>3, <1>4, <1>5, QueueTail

(* While the worker accepts utterances all that is owned and only that waits. *)
LEMMA WorkingMeansFull ==
  ASSUME JobInv, QueueInv, DisownInv, wpc \in Working, ~Silenced
  PROVE  Full
BY DEF JobInv, QueueInv, DisownInv, HandsInv, Full, InHands

LEMMA QueueStep ==
  ASSUME TypeOK, JobInv, ControlInv, DisownInv, QueueInv, [Next]_vars
  PROVE  QueueInv'
<1>0. /\ finalQ \in Seq(Utterances) /\ active \in Identities /\ current \in Identities /\ sequence \in Identities
      /\ pending \subseteq Utterances
  BY DEF TypeOK, JobTypes, SpeechTypes
<1>1. CASE Finalizer
  <2>0. UNCHANGED <<sequence, current, wpc>>
    BY <1>1, FinalizerMoves DEF untouchedByFinalizer, speechVars, workerVars
  <2>1. CASE TakesJob
    <3>1. fpc = "get" /\ Full /\ active = NoUtterance
      BY <2>1 DEF TakesJob, QueueInv, JobInv, HandsInv
    <3>2. CASE active' = Head(finalQ) /\ UNCHANGED <<pending, accepted>>
      BY <1>0, <2>0, <2>1, <3>1, <3>2, QueueAfterTail, UtteranceNumbers
        DEF TakesJob, QueueInv, Full, InHands
    <3>3. CASE Conclude(Head(finalQ), <<"FAILED">>)
      BY <1>0, <2>0, <2>1, <3>1, <3>3, QueueAfterTail, UtteranceNumbers
        DEF TakesJob, Conclude, Settle, QueueInv, Full, InHands
    <3> QED BY <2>1, <3>2, <3>3 DEF TakesJob
  <2>2. CASE EndsJob
    <3>1. Full /\ active # NoUtterance /\ active' = NoUtterance /\ pending' = pending \ {active} /\ UNCHANGED <<finalQ, accepted>>
      BY <2>2 DEF EndsJob, QueueInv, JobInv, HandsInv, Conclude, Settle
    <3>2. active \notin Queued
      BY <1>0, <3>1, UtteranceNumbers DEF QueueInv, Queued, Identities, Utterances
    <3>3. Queued' = Queued
      BY <3>1 DEF Queued
    <3> QED BY <1>0, <2>0, <3>1, <3>2, <3>3 DEF QueueInv, Full, InHands
  <2>3. CASE Translates
    <3>1. fpc \notin {"stopped", "dead"} /\ UNCHANGED <<finalQ, active, pending, accepted, fcancel>>
      BY <2>3 DEF Translates
    <3> QED BY <2>0, <2>3, <3>1 DEF QueueInv, Full, InHands, Queued, Translates
  <2>4. CASE FinalizerCancelled
    <3>1. Disowned /\ fpc' = "stopped" /\ UNCHANGED <<finalQ, accepted>> /\ active' \in {active, NoUtterance} /\ pending' \subseteq pending
      BY <2>4 DEF FinalizerCancelled, DisownInv, Settle
    <3> QED BY <2>0, <3>1 DEF QueueInv, Full, InHands, Queued, Disowned
  <2> QED BY <1>1, <2>1, <2>2, <2>3, <2>4, FinalizerMoves
<1>2. CASE PrefetchEnds
  BY <1>2 DEF PrefetchEnds, QueueInv, Full, InHands, Queued, finalVars, speechVars, workerVars
<1>3. CASE JobsStay
  BY <1>0, <1>3, UtteranceNumbers DEF JobsStay, SpeechMoves, QueueInv, Full, InHands, Queued, jobVars, finalVars, Identities, Utterances
<1>4. CASE JobsDisowned
  <2>1. /\ pending' = {} /\ wpc' \notin Working /\ UNCHANGED <<finalQ, active, accepted, fpc>>
        /\ fcancel' = (fpc \notin {"dead", "stopped"})
    BY <1>4 DEF JobsDisowned, DisownJobs
  <2>2. /\ accepted' \subseteq 1 .. sequence'
        /\ current' # NoUtterance => current' = sequence' /\ current' \notin accepted'
    BY <1>0, <1>4, <2>1 DEF JobsDisowned, SpeechMoves, QueueInv, Identities, Utterances
  <2> QED BY <2>1, <2>2 DEF QueueInv, Full, InHands, Queued
<1>5. CASE QueueEmptied
  BY <1>5 DEF QueueEmptied, EmptyFinalQueue, Disowned, QueueInv, Full, InHands, Queued, finalVars, speechVars
<1>6. ASSUME NEW n \in Lengths, Accepts(n) PROVE QueueInv'
  <2>1. Full
    BY <1>6, WorkingMeansFull DEF Accepts, Working
  <2>2. current \in Utterances /\ current = sequence /\ current \notin accepted
    BY <1>0, <1>6 DEF Accepts, QueueInv, Identities
  <2>3. finalQ' = Append(finalQ, current)
    BY <1>6 DEF Accepts
  <2>a. \A u \in accepted : u < current
    <3>1. accepted \subseteq 1 .. sequence /\ sequence \in Int
      BY <2>2 DEF QueueInv, Utterances
    <3>2. \A u \in accepted : u \in Int /\ u <= sequence /\ u # sequence
      BY <2>2, <3>1
    <3> QED BY <2>2, <3>1, <3>2
  <2>4. \A i \in DOMAIN finalQ : finalQ[i] < current /\ i \in Nat
    <3>1. \A i \in DOMAIN finalQ : finalQ[i] \in accepted /\ i \in Nat
      BY <1>0 DEF QueueInv, Queued
    <3> QED BY <2>a, <3>1
  <2>5. active # NoUtterance => active < current
    <3>1. active # NoUtterance => active \in accepted
      BY DEF QueueInv, InHands
    <3> QED BY <2>a, <3>1
  <2>6. /\ DOMAIN finalQ' = DOMAIN finalQ \cup {Len(finalQ) + 1}
        /\ \A i \in DOMAIN finalQ : finalQ'[i] = finalQ[i] /\ i < Len(finalQ) + 1
        /\ finalQ'[Len(finalQ) + 1] = current
    BY <1>0, <2>2, <2>3
  <2>7. \A i, j \in DOMAIN finalQ' : i < j => finalQ'[i] < finalQ'[j]
    BY <2>4, <2>6 DEF QueueInv
  <2>8. Queued' = Queued \cup {current}
    BY <2>6 DEF Queued
  <2>9. UNCHANGED <<sequence, active>> /\ pending' = pending \cup {current} /\ accepted' = accepted \cup {current} /\ current' = NoUtterance
    BY <1>6 DEF Accepts
  <2>10. active # NoUtterance => \A i \in DOMAIN finalQ' : active' < finalQ'[i]
    BY <2>5, <2>6, <2>9 DEF QueueInv
  <2>11. Full'
    BY <2>1, <2>8, <2>9 DEF Full, InHands
  <2>12. (Queued \cup InHands \cup pending \subseteq accepted)' /\ (accepted \subseteq 1 .. sequence)'
    BY <2>2, <2>8, <2>9 DEF QueueInv, InHands, Utterances
  <2> QED BY <2>7, <2>8, <2>9, <2>10, <2>11, <2>12 DEF QueueInv, Full
<1> QED BY <1>1, <1>2, <1>3, <1>4, <1>5, <1>6, JobMoves

(* What follows the active job is what waits, the next in line first.        *)
LEMMA NextInLine ==
  ASSUME NEW s \in Seq(Utterances), NEW a \in Utterances, NEW jobs, jobs \subseteq Utterances,
         jobs = { s[i] : i \in DOMAIN s } \cup {a},
         \A i \in DOMAIN s : a < s[i],
         \A i, j \in DOMAIN s : i < j => s[i] < s[j],
         Following(a, jobs) # {}
  PROVE  s # <<>> /\ Min(Following(a, jobs)) = Head(s)
<1>1. DOMAIN s \subseteq Nat \ {0} /\ DOMAIN s = 1 .. Len(s) /\ Len(s) \in Nat /\ \A i \in DOMAIN s : s[i] \in Utterances
  OBVIOUS
<1>2. Utterances \subseteq Int
  BY DEF Utterances
<1>3. Following(a, jobs) \subseteq Utterances
  BY DEF Following
<1>4. Min(Following(a, jobs)) \in Following(a, jobs) /\ \A u \in Following(a, jobs) : Min(Following(a, jobs)) <= u
  BY <1>3, MinIsLeast
<1>5. PICK i \in DOMAIN s : Min(Following(a, jobs)) = s[i]
  BY <1>2, <1>4 DEF Following
<1>6. 1 \in DOMAIN s /\ Head(s) = s[1] /\ s # <<>>
  BY <1>1, <1>5
<1>7. s[1] \in Following(a, jobs)
  BY <1>6 DEF Following
<1>8. i = 1 \/ s[1] < s[i]
  BY <1>1, <1>6
<1>9. s[i] <= s[1] /\ s[i] \in Int /\ s[1] \in Int
  BY <1>1, <1>2, <1>4, <1>5, <1>6, <1>7
<1> QED BY <1>5, <1>6, <1>8, <1>9

LEMMA PrefetchMeans ==
  ASSUME NEW a, NEW translating, NEW jobs, SchedulePrefetch(a, translating, jobs)
  PROVE  \/ UNCHANGED <<prefetched, prep>>
         \/ /\ prefetched = NoUtterance /\ Following(a, jobs) # {} /\ translating
            /\ prefetched' = Min(Following(a, jobs))
            /\ prep' = [prep EXCEPT ![Min(Following(a, jobs))] = "running"]
BY DEF SchedulePrefetch

LEMMA RecognitionStep ==
  ASSUME TypeOK, JobInv, ControlInv, DisownInv, QueueInv, RecognitionInv, [Next]_vars
  PROVE  RecognitionInv'
<1>0. /\ finalQ \in Seq(Utterances) /\ active \in Identities /\ current \in Identities
      /\ pending \subseteq Utterances /\ prefetched \in Identities /\ prep \in [Utterances -> PrepStates]
  BY DEF TypeOK, JobTypes, SpeechTypes, PrepStates
<1>1. CASE Finalizer
  <2>1. CASE TakesJob
    <3>1. fpc = "get" /\ prefetched' = NoUtterance /\ Head(finalQ) \in Utterances /\ finalQ # <<>>
      BY <1>0, <2>1, QueueTail DEF TakesJob, RecognitionInv
    <3>2. \A u \in Utterances : prep[u] = "running" => u = Head(finalQ) /\ u \in pending
      BY <3>1, UtteranceNumbers DEF RecognitionInv
    <3>3. CASE /\ active' = Head(finalQ) /\ UNCHANGED <<pending, prep>>
               /\ fpc' = IF prep[Head(finalQ)] = "none" THEN "prepare" ELSE "await"
      BY <3>1, <3>2, <3>3 DEF RecognitionInv
    <3>4. CASE Conclude(Head(finalQ), <<"FAILED">>)
      <4>1. prep' = [prep EXCEPT ![Head(finalQ)] = "none"] /\ fpc' \in {"get", "dead"}
        BY <3>4 DEF Conclude, Settle
      <4> QED BY <1>0, <3>1, <3>2, <4>1 DEF RecognitionInv
    <3> QED BY <2>1, <3>3, <3>4 DEF TakesJob
  <2>2. CASE EndsJob
    <3>1. /\ active \in Utterances /\ pending' = pending \ {active} /\ prep' = [prep EXCEPT ![active] = "none"]
          /\ fpc' \in {"get", "dead"} /\ UNCHANGED <<finalQ, prefetched>>
      BY <1>0, <2>2 DEF EndsJob, Conclude, Settle, Owned
    <3> QED BY <1>0, <3>1 DEF RecognitionInv
  <2>3. CASE Translates
    <3>1. /\ fpc' = "translate" /\ UNCHANGED <<finalQ, active, pending>> /\ Full /\ active \in pending
          /\ SchedulePrefetch(active, TRUE, pending)
      BY <2>3 DEF Translates, QueueInv, Owned
    <3>2. prefetched = NoUtterance /\ \A u \in Utterances : prep[u] # "running"
      BY <2>3, UtteranceNumbers DEF Translates, RecognitionInv
    <3>3. CASE UNCHANGED <<prefetched, prep>>
      BY <3>1, <3>2, <3>3 DEF RecognitionInv
    <3>4. CASE /\ Following(active, pending) # {} /\ prefetched' = Min(Following(active, pending))
               /\ prep' = [prep EXCEPT ![Min(Following(active, pending))] = "running"]
      <4>1. active \in Utterances /\ pending = { finalQ[i] : i \in DOMAIN finalQ } \cup {active}
        BY <1>0, <3>1, UtteranceNumbers DEF Full, Queued, InHands
      <4>2. \A i \in DOMAIN finalQ : active < finalQ[i]
        BY <4>1, UtteranceNumbers DEF QueueInv
      <4>3. finalQ # <<>> /\ Min(Following(active, pending)) = Head(finalQ)
        BY <1>0, <3>4, <4>1, <4>2, NextInLine DEF QueueInv
      <4>4. Head(finalQ) \in pending
        BY <1>0, <4>1, <4>3
      <4> QED BY <1>0, <3>1, <3>2, <3>4, <4>3, <4>4 DEF RecognitionInv
    <3> QED BY <3>1, <3>3, <3>4, PrefetchMeans
  <2>4. CASE FinalizerCancelled
    <3>1. Disowned /\ fpc' = "stopped" /\ UNCHANGED prefetched
      BY <2>4 DEF FinalizerCancelled, DisownInv
    <3>2. \A u \in Utterances : prep[u] # "running"
      BY <3>1 DEF Disowned, RecognitionInv
    <3>3. UNCHANGED prep \/ prep' = [prep EXCEPT ![active] = "none"]
      BY <2>4 DEF FinalizerCancelled, Settle
    <3> QED BY <1>0, <3>1, <3>2, <3>3 DEF RecognitionInv, Disowned
  <2> QED BY <1>1, <2>1, <2>2, <2>3, <2>4, FinalizerMoves
<1>2. CASE PrefetchEnds
  <2>1. PICK v \in Utterances, result \in Preparations \cup {"expired"} : prep' = [prep EXCEPT ![v] = result]
    BY <1>2 DEF PrefetchEnds
  <2> QED BY <1>0, <1>2, <2>1 DEF PrefetchEnds, RecognitionInv, finalVars, Preparations
<1>3. CASE JobsStay
  BY <1>3 DEF JobsStay, RecognitionInv, jobVars, finalVars
<1>4. CASE JobsDisowned
  <2>1. \A u \in Utterances : prep'[u] # "running"
    BY <1>4 DEF JobsDisowned, DisownJobs, RecognitionInv, Owned
  <2> QED BY <1>4, <2>1 DEF JobsDisowned, DisownJobs, RecognitionInv
<1>5. CASE QueueEmptied
  BY <1>5 DEF QueueEmptied, EmptyFinalQueue, Disowned, RecognitionInv, finalVars
<1>6. ASSUME NEW n \in Lengths, Accepts(n) PROVE RecognitionInv'
  <2>1. Full
    BY <1>6, WorkingMeansFull DEF Accepts, Working
  <2>2. current \in Utterances
    BY <1>0, <1>6 DEF Accepts, Identities
  <2>3. /\ finalQ' = Append(finalQ, current) /\ UNCHANGED <<active, fpc>> /\ pending' = pending \cup {current}
        /\ SchedulePrefetch(active, fpc = "translate", pending \cup {current})
    BY <1>6 DEF Accepts, finalVars
  <2>4. finalQ # <<>> => finalQ' # <<>> /\ Head(finalQ') = Head(finalQ)
    BY <1>0, <2>2, <2>3
  <2>5. CASE UNCHANGED <<prefetched, prep>>
    BY <2>3, <2>4, <2>5 DEF RecognitionInv
  <2>6. CASE /\ prefetched = NoUtterance /\ Following(active, pending') # {} /\ fpc = "translate"
             /\ prefetched' = Min(Following(active, pending'))
             /\ prep' = [prep EXCEPT ![Min(Following(active, pending'))] = "running"]
    <3>1. active \in Utterances
      BY <1>0, <2>6 DEF JobInv, HandsInv, Identities
    <3>2. QueueInv'
      BY QueueStep
    <3>3. finalQ' \in Seq(Utterances) /\ pending' \subseteq Utterances
      BY <1>0, <2>2, <2>3
    <3>4. { finalQ'[i] : i \in DOMAIN finalQ' } = { finalQ[i] : i \in DOMAIN finalQ } \cup {current}
      <4>1. /\ DOMAIN finalQ' = DOMAIN finalQ \cup {Len(finalQ) + 1}
            /\ \A i \in DOMAIN finalQ : finalQ'[i] = finalQ[i]
            /\ finalQ'[Len(finalQ) + 1] = current
        BY <1>0, <2>2, <2>3
      <4> QED BY <4>1
    <3>5. pending' = { finalQ'[i] : i \in DOMAIN finalQ' } \cup {active}
      BY <2>1, <2>3, <3>1, <3>4, UtteranceNumbers DEF Full, Queued, InHands
    <3>6. /\ \A i \in DOMAIN finalQ' : active < finalQ'[i]
          /\ \A i, j \in DOMAIN finalQ' : i < j => finalQ'[i] < finalQ'[j]
      BY <2>3, <3>1, <3>2, UtteranceNumbers DEF QueueInv
    <3>7. finalQ' # <<>> /\ Min(Following(active, pending')) = Head(finalQ')
      BY <2>6, <3>1, <3>3, <3>5, <3>6, NextInLine
    <3>8. Head(finalQ') \in pending' /\ \A u \in Utterances : prep[u] # "running"
      <4>1. Head(finalQ') = finalQ'[1] /\ 1 \in DOMAIN finalQ'
        BY <3>3, <3>7
      <4> QED BY <2>6, <3>5, <4>1, UtteranceNumbers DEF RecognitionInv
    <3>9. \A u \in Utterances : prep'[u] = "running" => u = Head(finalQ')
      BY <1>0, <2>6, <3>7, <3>8
    <3>10. prefetched' = Head(finalQ') /\ fpc' = "translate"
      BY <2>3, <2>6, <3>7
    <3> QED BY <3>7, <3>8, <3>9, <3>10 DEF RecognitionInv
  <2>7. SchedulePrefetch(active, fpc = "translate", pending')
    BY <2>3
  <2>8. UNCHANGED <<prefetched, prep>> \/ (/\ prefetched = NoUtterance /\ Following(active, pending') # {} /\ fpc = "translate"
             /\ prefetched' = Min(Following(active, pending'))
             /\ prep' = [prep EXCEPT ![Min(Following(active, pending'))] = "running"])
    BY <2>7 DEF SchedulePrefetch
  <2> QED BY <2>5, <2>6, <2>8
<1> QED BY <1>1, <1>2, <1>3, <1>4, <1>5, <1>6, JobMoves

(* The buffered audio is that of the owned jobs, within the limits; the queue is no
   longer than they are many.                                                *)
SizeInv ==
  /\ IsFiniteSet(Buffered) /\ pendingAudio = Cardinality(Buffered)
  /\ pendingAudio <= MaxPendingAudio
  /\ Cardinality(pending) <= FinalCapacity
  /\ Len(finalQ) <= FinalCapacity

LEMMA FramesOfOne ==
  ASSUME NEW u, NEW n \in Nat
  PROVE  IsFiniteSet({u} \X (1 .. n)) /\ Cardinality({u} \X (1 .. n)) = n
<1> DEFINE f == [i \in 1 .. n |-> <<u, i>>]
<1>1. f \in Bijection(1 .. n, {u} \X (1 .. n))
  <2>1. f \in [1 .. n -> {u} \X (1 .. n)]
    OBVIOUS
  <2>2. \A i, j \in 1 .. n : f[i] = f[j] => i = j
    OBVIOUS
  <2>3. \A t \in {u} \X (1 .. n) : \E i \in 1 .. n : f[i] = t
    <3>1. \A t \in {u} \X (1 .. n) : t[2] \in 1 .. n /\ t = <<u, t[2]>>
      OBVIOUS
    <3> QED BY <3>1
  <2> HIDE DEF f
  <2> QED BY <2>1, <2>2, <2>3 DEF Bijection, Injection, Surjection, IsInjective
<1>2. ExistsBijection(1 .. n, {u} \X (1 .. n))
  BY <1>1 DEF ExistsBijection
<1>3. IsFiniteSet(1 .. n) /\ Cardinality(1 .. n) = n
  BY FS_Interval
<1> QED BY <1>2, <1>3, FS_Bijection

LEMMA FramesWithout ==
  ASSUME NEW jobs, NEW lengths, NEW u \in jobs, lengths[u] \in Nat, IsFiniteSet(Frames(jobs, lengths))
  PROVE  /\ IsFiniteSet(Frames(jobs \ {u}, lengths))
         /\ Cardinality(Frames(jobs, lengths)) = Cardinality(Frames(jobs \ {u}, lengths)) + lengths[u]
         /\ Cardinality(Frames(jobs \ {u}, lengths)) \in Nat
<1> DEFINE rest == Frames(jobs \ {u}, lengths)
           own == {u} \X (1 .. lengths[u])
<1>1. Frames(jobs, lengths) = rest \cup own
  BY DEF Frames
<1>2. rest \cap own = {}
  <2>1. \A t \in rest : t[1] # u
    BY DEF Frames
  <2>2. \A t \in own : t[1] = u
    OBVIOUS
  <2> QED BY <2>1, <2>2
<1>3. rest \in SUBSET Frames(jobs, lengths)
  BY <1>1
<1>4. IsFiniteSet(own) /\ Cardinality(own) = lengths[u]
  BY FramesOfOne
<1> HIDE DEF own, rest
<1>5. IsFiniteSet(rest)
  BY <1>3, FS_Subset
<1>6. Cardinality(rest) \in Nat
  BY <1>5, FS_CardinalityType
<1>7. Cardinality(rest \cap own) = 0
  BY <1>2, FS_EmptySet
<1>8. Cardinality(rest \cup own) = Cardinality(rest) + Cardinality(own) - Cardinality(rest \cap own)
  BY <1>4, <1>5, FS_Union
<1>9. Cardinality(Frames(jobs, lengths)) = Cardinality(rest) + lengths[u]
  BY <1>1, <1>4, <1>6, <1>7, <1>8
<1> QED BY <1>5, <1>6, <1>9 DEF rest

LEMMA SettleSizes ==
  ASSUME TypeOK, SizeInv, NEW u \in pending, Settle(u)
  PROVE  (IsFiniteSet(Buffered) /\ pendingAudio = Cardinality(Buffered))' /\ pendingAudio' <= MaxPendingAudio
         /\ Cardinality(pending') <= FinalCapacity
<1>1. /\ pending \subseteq Utterances /\ audio[u] \in Nat /\ pending' = pending \ {u} /\ audio' = audio
      /\ pendingAudio' = pendingAudio - audio[u] /\ pendingAudio \in Int /\ MaxPendingAudio \in Nat
  BY CapacityAssumption DEF TypeOK, JobTypes, Settle, Owned
<1>2. Buffered' = Frames(pending \ {u}, audio)
  BY <1>1 DEF Buffered
<1>3. /\ IsFiniteSet(Frames(pending \ {u}, audio)) /\ Cardinality(Frames(pending \ {u}, audio)) \in Nat
      /\ pendingAudio = Cardinality(Frames(pending \ {u}, audio)) + audio[u]
  BY <1>1, FramesWithout DEF SizeInv, Buffered
<1>4. Cardinality(pending \ {u}) = Cardinality(pending) - 1 /\ Cardinality(pending) \in Nat
  BY <1>1, UtteranceSets, FS_RemoveElement
<1> QED BY <1>1, <1>2, <1>3, <1>4, CapacityAssumption DEF SizeInv

LEMMA NothingBuffered ==
  ASSUME pending = {}
  PROVE  Buffered = {} /\ IsFiniteSet(Buffered) /\ Cardinality(Buffered) = 0 /\ Cardinality(pending) = 0
<1>1. Buffered = {}
  BY DEF Buffered, Frames
<1> QED BY <1>1, FS_EmptySet

(* Jobs wait under different names, so what waits is no more than what is owned. *)
LEMMA QueueLength ==
  ASSUME NEW s \in Seq(Utterances), NEW jobs, jobs \subseteq Utterances,
         \A i \in DOMAIN s : s[i] \in jobs,
         \A i, j \in DOMAIN s : i < j => s[i] < s[j]
  PROVE  Len(s) <= Cardinality(jobs)
<1>1. Len(s) \in Nat /\ DOMAIN s = 1 .. Len(s)
  OBVIOUS
<1>2. s \in Injection(1 .. Len(s), jobs)
  <2>1. s \in [1 .. Len(s) -> jobs]
    BY <1>1
  <2>2. \A i, j \in 1 .. Len(s) : s[i] = s[j] => i = j
    <3>1. \A i \in 1 .. Len(s) : s[i] \in Int
      <4>1. \A u \in Utterances : u \in Int
        BY DEF Utterances
      <4>2. \A i \in 1 .. Len(s) : s[i] \in Utterances
        OBVIOUS
      <4> QED BY <4>1, <4>2
    <3>2. \A i, j \in 1 .. Len(s) : i < j => s[i] < s[j]
      BY <1>1
    <3> QED BY <1>1, <3>1, <3>2
  <2> QED BY <2>1, <2>2 DEF Injection, IsInjective
<1>3. IsFiniteSet(jobs)
  BY UtteranceSets
<1>4. Cardinality(1 .. Len(s)) = Len(s)
  <2>1. \A n \in Nat : Cardinality(1 .. n) = n
    BY FS_Interval
  <2> QED BY <1>1, <2>1
<1> QED BY <1>2, <1>3, <1>4, FS_Injection

LEMMA SizeStep ==
  ASSUME TypeOK, JobInv, ControlInv, DisownInv, QueueInv, SizeInv, [Next]_vars
  PROVE  SizeInv'
<1>0. /\ finalQ \in Seq(Utterances) /\ active \in Identities /\ current \in Identities
      /\ pending \subseteq Utterances /\ audio \in [Utterances -> Nat] /\ pendingAudio \in Int
      /\ MaxPendingAudio \in Nat /\ FinalCapacity \in Nat \ {0}
  BY CapacityAssumption DEF TypeOK, JobTypes, SpeechTypes
<1>1. UNCHANGED <<pending, pendingAudio, audio>> /\ Len(finalQ') <= Len(finalQ) /\ finalQ' \in Seq(Utterances) => SizeInv'
  BY <1>0 DEF SizeInv, Buffered
<1>2. pending' = {} /\ pendingAudio' = 0 /\ finalQ' \in {finalQ, <<>>} => SizeInv'
  <2>1. pending' = {} => (Buffered = {} /\ IsFiniteSet(Buffered) /\ Cardinality(Buffered) = 0)' /\ Cardinality(pending') = 0
    BY FS_EmptySet DEF Buffered, Frames
  <2>2. Len(<<>>) = 0
    OBVIOUS
  <2> QED BY <1>0, <2>1, <2>2 DEF SizeInv
<1>3. finalQ # <<>> /\ finalQ' = Tail(finalQ) => Len(finalQ') <= Len(finalQ) /\ finalQ' \in Seq(Utterances)
  BY <1>0
<1>4. CASE Finalizer
  <2>1. CASE TakesJob
    <3>1. fpc = "get" /\ Full /\ finalQ # <<>> /\ finalQ' = Tail(finalQ)
      BY <2>1 DEF TakesJob, QueueInv
    <3>2. Head(finalQ) \in pending
      BY <1>0, <3>1, QueueAfterTail DEF Full
    <3>3. CASE UNCHANGED <<pending, pendingAudio, audio>>
      BY <1>1, <1>3, <3>1, <3>3
    <3>4. CASE Conclude(Head(finalQ), <<"FAILED">>)
      BY <1>0, <1>3, <3>1, <3>2, <3>4, SettleSizes DEF Conclude, SizeInv
    <3> QED BY <2>1, <3>3, <3>4 DEF TakesJob
  <2>2. CASE EndsJob
    BY <2>2, SettleSizes DEF EndsJob, Conclude, Owned, SizeInv
  <2>3. CASE Translates
    BY <1>0, <1>1, <2>3 DEF Translates
  <2>4. CASE FinalizerCancelled
    <3>1. Disowned /\ UNCHANGED finalQ /\ pending' = {} /\ pendingAudio' = pendingAudio
      BY <1>0, <2>4 DEF FinalizerCancelled, DisownInv, Settle, Owned, Disowned
    <3>2. pendingAudio = 0
      BY <3>1, NothingBuffered DEF Disowned, SizeInv
    <3> QED BY <1>2, <3>1, <3>2
  <2> QED BY <1>4, <2>1, <2>2, <2>3, <2>4, FinalizerMoves
<1>5. CASE PrefetchEnds \/ JobsStay
  BY <1>0, <1>1, <1>5 DEF PrefetchEnds, JobsStay, jobVars
<1>6. CASE JobsDisowned
  BY <1>2, <1>6 DEF JobsDisowned, DisownJobs
<1>7. CASE QueueEmptied
  <2>1. pendingAudio = 0 /\ pending = {}
    BY <1>7, NothingBuffered DEF QueueEmptied, Disowned, SizeInv
  <2> QED BY <1>2, <1>7, <2>1 DEF QueueEmptied, EmptyFinalQueue
<1>8. ASSUME NEW n \in Lengths, Accepts(n) PROVE SizeInv'
  <2>1. current \in Utterances /\ current \notin pending /\ n \in Nat
    BY <1>0, <1>8, CapacityAssumption DEF Accepts, QueueInv, Identities
  <2>2. /\ finalQ' = Append(finalQ, current) /\ pending' = pending \cup {current} /\ active' = active
        /\ pendingAudio' = pendingAudio + n /\ audio' = [audio EXCEPT ![current] = n]
        /\ Cardinality(pending) < FinalCapacity /\ pendingAudio + n <= MaxPendingAudio
    BY <1>8 DEF Accepts, HasRoom
  <2>3. (IsFiniteSet(Buffered) /\ pendingAudio = Cardinality(Buffered))'
    <3>1. Buffered' = Buffered \cup ({current} \X (1 .. n))
      <4>1. audio'[current] = n /\ \A u \in pending : audio'[u] = audio[u]
        BY <1>0, <2>1, <2>2
      <4> QED BY <2>2, <4>1 DEF Buffered, Frames
    <3>2. \A t \in Buffered : t[1] \in pending
      BY DEF Buffered, Frames
    <3>3. Buffered \cap ({current} \X (1 .. n)) = {}
      BY <2>1, <3>2
    <3>4. IsFiniteSet({current} \X (1 .. n)) /\ Cardinality({current} \X (1 .. n)) = n
      BY <2>1, FramesOfOne
    <3>5. Cardinality(Buffered \cap ({current} \X (1 .. n))) = 0
      BY <3>3, FS_EmptySet
    <3>6. /\ IsFiniteSet(Buffered \cup ({current} \X (1 .. n)))
          /\ Cardinality(Buffered \cup ({current} \X (1 .. n)))
               = Cardinality(Buffered) + Cardinality({current} \X (1 .. n))
                 - Cardinality(Buffered \cap ({current} \X (1 .. n)))
      BY <3>4, FS_Union DEF SizeInv
    <3> QED BY <1>0, <2>1, <2>2, <3>1, <3>4, <3>5, <3>6 DEF SizeInv
  <2>4. Cardinality(pending') <= FinalCapacity
    <3>1. IsFiniteSet(pending) /\ Cardinality(pending) \in Nat
      BY <1>0, UtteranceSets
    <3>2. Cardinality(pending \cup {current}) = Cardinality(pending) + 1
      BY <2>1, <3>1, FS_AddElement
    <3> QED BY <1>0, <2>2, <3>1, <3>2
  <2>5. Full
    BY <1>8, WorkingMeansFull DEF Accepts, Working
  <2>6. QueueInv'
    BY QueueStep
  <2>7. finalQ' \in Seq(Utterances) /\ pending' \subseteq Utterances
    BY <1>0, <2>1, <2>2
  <2>8. \A i \in DOMAIN finalQ' : finalQ'[i] \in pending'
    <3>1. /\ DOMAIN finalQ' = DOMAIN finalQ \cup {Len(finalQ) + 1}
          /\ \A i \in DOMAIN finalQ : finalQ'[i] = finalQ[i]
          /\ finalQ'[Len(finalQ) + 1] = current
      BY <1>0, <2>1, <2>2
    <3> QED BY <2>2, <2>5, <3>1 DEF Full, Queued
  <2>9. Len(finalQ') <= Cardinality(pending')
    <3>1. \A i, j \in DOMAIN finalQ' : i < j => finalQ'[i] < finalQ'[j]
      BY <2>6 DEF QueueInv
    <3> QED BY <2>7, <2>8, <3>1, QueueLength
  <2>10. Len(finalQ') <= FinalCapacity
    BY <1>0, <2>4, <2>7, <2>9, UtteranceSets
  <2> QED BY <2>2, <2>3, <2>4, <2>10 DEF SizeInv
<1> QED BY <1>4, <1>5, <1>6, <1>7, <1>8, JobMoves

-----------------------------------------------------------------------------
(* Outcomes: the parts of the invariant. *)

(* The disowned jobs that a drain or a termination has still to fail.        *)
Doomed == wdoomed \cup (IF tpc = "sleepFinal" THEN tdoomed ELSE {})
DoomInv ==
  /\ Doomed \subseteq accepted
  /\ wdoomed # {} => wpc = "cancelDrain"

(* Nothing that is owned or about to be failed has an outcome, nor has the utterance
   being spoken as long as the stream has announced no failure.              *)
OutcomeInv ==
  /\ \A u \in Utterances : terminals[u] <= 1
  /\ \A u \in Utterances : u > sequence => terminals[u] = 0
  /\ \A u \in pending \cup Doomed : terminals[u] = 0
  /\ current # NoUtterance /\ ~failEmitted => terminals[current] = 0

LEMMA AcceptedOnly ==
  ASSUME TypeOK, ControlInv, DisownInv, [Next]_vars
  PROVE  \/ accepted' = accepted /\ pending' \subseteq pending
         \/ \E n \in Lengths : Accepts(n)
<1>1. CASE Finalizer
  BY <1>1, FinalizerMoves DEF TakesJob, EndsJob, Translates, FinalizerCancelled, Conclude, Settle
<1>2. CASE PrefetchEnds
  BY <1>2 DEF PrefetchEnds
<1>3. CASE JobsStay \/ JobsDisowned \/ QueueEmptied
  BY <1>3 DEF JobsStay, JobsDisowned, QueueEmptied, DisownJobs, EmptyFinalQueue, jobVars
<1> QED BY <1>1, <1>2, <1>3, JobMoves

LEMMA DoomedOnly ==
  ASSUME TypeOK, ControlInv, DoomInv, [Next]_vars
  PROVE  /\ Doomed' \subseteq pending \cup Doomed
         /\ wdoomed' # {} => wpc' = "cancelDrain"
         /\ (\E n \in Lengths : Accepts(n)) => Doomed' \subseteq Doomed
<1> DEFINE Goal == /\ Doomed' \subseteq pending \cup Doomed
                   /\ wdoomed' # {} => wpc' = "cancelDrain"
                   /\ (\E n \in Lengths : Accepts(n)) => Doomed' \subseteq Doomed
<1>1. ASSUME NEW cmd \in {"audio", "flush", "close"}, Hears(cmd) PROVE Goal
  <2>1. wpc = "get" /\ wdoomed = {}
    BY <1>1, HearsMoves DEF DoomInv
  <2>2. CASE Continue(cmd) /\ UNCHANGED termVars
    BY <2>1, <2>2 DEF Continue, Doomed, termVars
  <2>3. CASE WorkerRaises(cmd) /\ (IF LockFree THEN DisownJobs ELSE UNCHANGED <<jobVars, finalVars>>)
    <3>1. ~\E n \in Lengths : Accepts(n)
      BY <2>3, WorkerRaisesMeans DEF Accepts, Silenced, DisownJobs, jobVars, WorkerRaises, FailAndClose
    <3> QED BY <2>1, <2>3, <3>1, WorkerRaisesMeans DEF Doomed
  <2> QED BY <1>1, <2>2, <2>3, HearsMoves
<1>2. CASE DrainJoined \/ CloseCancelsJobs \/ FinishClose \/ WorkerCancelled
  BY <1>2, WorkerRaisesMeans DEF DrainJoined, CloseCancelsJobs, FinishClose, WorkerCancelled, Doomed, DoomInv, termVars,
    Accepts, LockFree
<1>3. CASE DrainTimeout \/ DrainCancelled
  BY <1>3, WorkerRaisesMeans DEF DrainTimeout, DrainCancelled, Doomed, DoomInv, termVars, Accepts, LockFree
<1>4. CASE Finalizer \/ PrefetchEnds \/ Partial
  <2>1. UNCHANGED <<wdoomed, wpc, tpc, tdoomed>>
    BY <1>4, FinalizerMoves, FinalizerLeavesControl, ConcludeLeavesControl
      DEF untouchedByFinalizer, workerVars, PrefetchEnds, Partial, PartialSkipped, PartialShown, StartTerminator,
      termVars, Finalizer, TakeJob, PreparedOutcome, PreparedText, Translated, FinalTimeout, FinalizerCancelled
  <2> QED BY <2>1 DEF Doomed, DoomInv
<1>5. CASE Terminator
  <2>1. UNCHANGED wdoomed /\ (wpc = "cancelDrain" => wpc' = wpc)
    BY <1>5, WaitsMeans DEF Terminator, TerminationEntered, TerminationSkipped, TerminationDisowns,
      TerminationFailsJobs, TerminationEnds, Resume, workerVars, ControlInv, TerminationInv
  <2>2. (IF tpc' = "sleepFinal" THEN tdoomed' ELSE {}) \subseteq pending \cup Doomed
    BY <1>5 DEF Terminator, TerminationEntered, TerminationSkipped, TerminationDisowns, TakeTermination,
      TerminationFailsJobs, TerminationEnds, Doomed
  <2>3. ~\E n \in Lengths : Accepts(n)
    BY <1>5 DEF Accepts, Terminator, TerminationEntered, TerminationSkipped, TerminationDisowns,
      TerminationFailsJobs, TerminationEnds, speechVars
  <2> QED BY <2>1, <2>2, <2>3 DEF Doomed, DoomInv
<1>6. CASE Abort
  BY <1>6 DEF Abort, AbortDropsPartials, AbortDisowns, AbortEnds, workerVars, termVars, Doomed, DoomInv
<1>7. CASE Fails
  <2>1. ~\E n \in Lengths : Accepts(n)
    BY <1>7, ReceiverFailsMeans DEF Fails, Accepts, speechVars
  <2> QED BY <1>7, <2>1, ReceiverFailsMeans DEF Fails, Doomed, DoomInv, LockFree
<1>8. CASE Release \/ ShutdownAborts
  BY <1>8 DEF Release, ShutdownAborts, StartAbort, untouchedByShutdown, termVars, Doomed, DoomInv
<1>9. CASE UNCHANGED streamVars
  BY <1>9 DEF streamVars, workerVars, termVars, Doomed, DoomInv
<1>10. CASE \/ Flush \/ Close \/ PutControl \/ Disconnect \/ ControlReturns \/ SenderObserved \/ SenderTimeout
            \/ Sender \/ UNCHANGED vars
  BY <1>9, <1>10 DEF Flush, Close, PutControl, Disconnect, ControlReturns, SenderObserved, SenderTimeout,
    Sender, Send, SenderFails, sentVars, streamVars, vars
<1>11. CASE ShutdownCloses \/ ShutdownPuts \/ ShutdownDone \/ ShutdownAborted
  BY <1>11 DEF ShutdownCloses, ShutdownPuts, ShutdownDone, ShutdownAborted, untouchedByShutdown, termVars, Doomed, DoomInv
<1>12. FeedAudio => Fails \/ UNCHANGED streamVars
  BY FailuresFail
<1> QED BY <1>1, <1>2, <1>3, <1>4, <1>5, <1>6, <1>7, <1>8, <1>9, <1>10, <1>11, <1>12, CommandsHear, FailuresFail
  DEF Next, Worker, Client, Receiver, ServerShutdown, Finished

LEMMA DoomStep ==
  ASSUME TypeOK, ControlInv, DisownInv, QueueInv, DoomInv, [Next]_vars
  PROVE  DoomInv'
<1>1. accepted \subseteq accepted'
  BY AcceptedOnly DEF Accepts
<1> QED BY <1>1, DoomedOnly DEF DoomInv, QueueInv

(* Whoever doomed jobs has disowned them first.                              *)
LEMMA DoomedMeansDisowned ==
  ASSUME TypeOK, DisownInv, DoomInv
  PROVE  Doomed # {} => Disowned
BY DEF DoomInv, DisownInv, Doomed

-----------------------------------------------------------------------------
(* What the steps emit. *)

(* k is the event of utterance u emitted last.                               *)
Tells(k, u) ==
  /\ last' = [kind |-> k, utterance |-> u]
  /\ terminals' = IF u # NoUtterance /\ k \in Outcomes THEN [terminals EXCEPT ![u] = @ + 1] ELSE terminals

Silent == UNCHANGED <<last, terminals>>

LEMMA RowMeans ==
  ASSUME EmitTypes, NEW u, NEW k, NEW j
  PROVE  /\ EmitRow(<<>>, u) => Silent /\ UNCHANGED overflowed
         /\ EmitRow(<<k>>, u) =>
              IF Fits(1) THEN Tells(k, u) /\ UNCHANGED overflowed ELSE Silent /\ overflowed'
         /\ EmitRow(<<k, j>>, u) =>
              IF Fits(2) THEN Tells(j, u) /\ UNCHANGED overflowed
              ELSE (IF Fits(1) THEN Tells(k, u) ELSE Silent) /\ overflowed'
<1>1. Space \in Nat
  BY CapacityAssumption DEF EmitTypes, Space
<1>2. Len(<<>>) = 0 /\ Len(<<k>>) = 1 /\ Len(<<k, j>>) = 2
  OBVIOUS
<1>3. <<k>>[1] = k /\ <<k, j>>[1] = k /\ <<k, j>>[2] = j
  OBVIOUS
<1>4. EmitRow(<<>>, u) => Silent /\ UNCHANGED overflowed
  <2>1. SUFFICES ASSUME EmitRow(<<>>, u) PROVE Silent /\ UNCHANGED overflowed
    OBVIOUS
  <2>2. Fits(0)
    BY <1>1 DEF Fits
  <2>3. /\ last' = IF 0 = 0 THEN last ELSE [kind |-> <<>>[0], utterance |-> u]
        /\ terminals' = IF u # NoUtterance /\ 0 # 0 /\ <<>>[0] \in Outcomes THEN [terminals EXCEPT ![u] = @ + 1] ELSE terminals
        /\ overflowed' = (overflowed \/ 0 < 0)
    BY <1>2, <2>1, <2>2, Zenon DEF EmitRow
  <2>4. ~(0 < 0)
    OBVIOUS
  <2>5. overflowed' = overflowed
    BY <2>3, <2>4, Zenon DEF EmitTypes
  <2> QED BY <2>3, <2>5 DEF Silent
<1>5. EmitRow(<<k>>, u) => IF Fits(1) THEN Tells(k, u) /\ UNCHANGED overflowed ELSE Silent /\ overflowed'
  <2>1. SUFFICES ASSUME EmitRow(<<k>>, u)
                 PROVE IF Fits(1) THEN Tells(k, u) /\ UNCHANGED overflowed ELSE Silent /\ overflowed'
    OBVIOUS
  <2>2. CASE Fits(1)
    <3>1. last' = [kind |-> k, utterance |-> u] /\ overflowed' = (overflowed \/ 1 < 1)
      BY <1>2, <1>3, <2>1, <2>2 DEF EmitRow
    <3>2. terminals' = IF u # NoUtterance /\ k \in Outcomes THEN [terminals EXCEPT ![u] = @ + 1] ELSE terminals
      BY <1>2, <1>3, <2>1, <2>2 DEF EmitRow
    <3>3. ~(1 < 1)
      OBVIOUS
    <3>4. overflowed' = overflowed
      BY <3>1, <3>3, Zenon DEF EmitTypes
    <3> QED BY <2>2, <3>1, <3>2, <3>4 DEF Tells
  <2>3. CASE ~Fits(1)
    <3>1. Space = 0
      BY <1>1, <2>3 DEF Fits
    <3>2. last' = last /\ terminals' = terminals
      BY <1>2, <2>1, <2>3, <3>1 DEF EmitRow
    <3>3. overflowed' = (overflowed \/ 0 < 1)
      BY <1>2, <2>1, <2>3, <3>1 DEF EmitRow
    <3>4. 0 < 1
      OBVIOUS
    <3>5. overflowed'
      BY <3>3, <3>4, Zenon
    <3> QED BY <2>3, <3>2, <3>5 DEF Silent
  <2> QED BY <2>2, <2>3
<1>6. EmitRow(<<k, j>>, u) =>
        IF Fits(2) THEN Tells(j, u) /\ UNCHANGED overflowed
        ELSE (IF Fits(1) THEN Tells(k, u) ELSE Silent) /\ overflowed'
  <2>1. SUFFICES ASSUME EmitRow(<<k, j>>, u)
                 PROVE IF Fits(2) THEN Tells(j, u) /\ UNCHANGED overflowed
                       ELSE (IF Fits(1) THEN Tells(k, u) ELSE Silent) /\ overflowed'
    OBVIOUS
  <2>2. CASE Fits(2)
    <3>1. last' = [kind |-> j, utterance |-> u] /\ overflowed' = (overflowed \/ 2 < 2)
      BY <1>2, <1>3, <2>1, <2>2 DEF EmitRow
    <3>2. terminals' = IF u # NoUtterance /\ j \in Outcomes THEN [terminals EXCEPT ![u] = @ + 1] ELSE terminals
      BY <1>2, <1>3, <2>1, <2>2 DEF EmitRow
    <3>3. ~(2 < 2)
      OBVIOUS
    <3>4. overflowed' = overflowed
      BY <3>1, <3>3, Zenon DEF EmitTypes
    <3> QED BY <2>2, <3>1, <3>2, <3>4 DEF Tells
  <2>3. CASE ~Fits(2) /\ Fits(1)
    <3>1. Space = 1
      BY <1>1, <2>3 DEF Fits
    <3>2. last' = [kind |-> k, utterance |-> u]
      BY <1>2, <1>3, <2>1, <2>3, <3>1 DEF EmitRow
    <3>3. terminals' = IF u # NoUtterance /\ k \in Outcomes THEN [terminals EXCEPT ![u] = @ + 1] ELSE terminals
      BY <1>2, <1>3, <2>1, <2>3, <3>1 DEF EmitRow
    <3>4. overflowed' = (overflowed \/ 1 < 2)
      BY <1>2, <2>1, <2>3, <3>1 DEF EmitRow
    <3>5. 1 < 2
      OBVIOUS
    <3>6. overflowed'
      BY <3>4, <3>5, Zenon
    <3> QED BY <2>3, <3>2, <3>3, <3>6 DEF Tells
  <2>4. CASE ~Fits(1)
    <3>1. Space = 0 /\ ~Fits(2)
      BY <1>1, <2>4 DEF Fits
    <3>2. last' = last /\ terminals' = terminals
      BY <1>2, <2>1, <2>4, <3>1 DEF EmitRow
    <3>3. overflowed' = (overflowed \/ 0 < 2)
      BY <1>2, <2>1, <2>4, <3>1 DEF EmitRow
    <3>4. 0 < 2
      OBVIOUS
    <3>5. overflowed'
      BY <3>3, <3>4, Zenon
    <3> QED BY <2>4, <3>1, <3>2, <3>5 DEF Silent
  <2> QED BY <2>2, <2>3, <2>4
<1> QED BY <1>4, <1>5, <1>6

LEMMA TwoInARow ==
  ASSUME NEW S, NEW k \in S, NEW j \in S
  PROVE  <<k>> \o <<j>> = <<k, j>>
<1>1. <<k>> \o <<j>> \in Seq(S) /\ Len(<<k>> \o <<j>>) = 2
  OBVIOUS
<1>2. (<<k>> \o <<j>>)[1] = k /\ (<<k>> \o <<j>>)[2] = j
  OBVIOUS
<1>3. <<k, j>> \in Seq(S) /\ Len(<<k, j>>) = 2
  OBVIOUS
<1>4. \A i \in 1 .. 2 : (<<k>> \o <<j>>)[i] = <<k, j>>[i]
  BY <1>2
<1> QED BY <1>1, <1>3, <1>4, SeqEqual

(* A failing command or receiver tells of the failure, of what came before it, or of
   nothing.                                                                  *)
LEMMA FailureRow ==
  ASSUME EmitTypes, NEW u, NEW k \in EventKinds, NEW kinds \in {<<>>, <<k>>},
         EmitRow(kinds \o Announcement, u)
  PROVE  \/ Silent
         \/ kinds = <<k>> /\ Fits(1) /\ Tells(k, u)
         \/ ~failEmitted /\ ~closed /\ Tells("FAILED", u)
<1>1. Announcement = IF failEmitted \/ closed THEN <<>> ELSE <<"FAILED">>
  BY DEF Announcement
<1>2. <<>> \o <<>> = <<>> /\ <<>> \o <<"FAILED">> = <<"FAILED">> /\ <<k>> \o <<>> = <<k>> /\ <<k>> \o <<"FAILED">> = <<k, "FAILED">>
  <2>1. "FAILED" \in EventKinds
    BY DEF EventKinds, Outcomes
  <2>2. <<k>> \o <<"FAILED">> = <<k, "FAILED">>
    BY <2>1, TwoInARow
  <2> QED BY <2>2
<1>3. Fits(2) => Fits(1)
  <2>1. EventCapacity - Len(events) \in Int
    BY CapacityAssumption DEF EmitTypes
  <2> QED BY <2>1 DEF Fits, Space
<1>4. CASE kinds = <<>>
  <2>1. CASE failEmitted \/ closed
    BY <1>1, <1>2, <1>4, <2>1, RowMeans
  <2>2. CASE ~(failEmitted \/ closed)
    <3>1. EmitRow(<<"FAILED">>, u)
      BY <1>1, <1>2, <1>4, <2>2
    <3> QED BY <2>2, <3>1, RowMeans
  <2> QED BY <2>1, <2>2
<1>5. CASE kinds = <<k>>
  <2>1. CASE failEmitted \/ closed
    <3>1. EmitRow(<<k>>, u)
      BY <1>1, <1>2, <1>5, <2>1
    <3> QED BY <1>5, <3>1, RowMeans
  <2>2. CASE ~(failEmitted \/ closed)
    <3>1. EmitRow(<<k, "FAILED">>, u)
      BY <1>1, <1>2, <1>5, <2>2
    <3> QED BY <1>3, <1>5, <2>2, <3>1, RowMeans
  <2> QED BY <2>1, <2>2
<1> QED BY <1>4, <1>5

(* The steps that emit something, by the task and by what entitles it.       *)
BeginsSpeech == wpc = "get" /\ ~Silenced /\ sequence < MaxUtterances /\ Tells("SPEECH_STARTED", sequence + 1)
DismissesSpeech ==
  wpc = "get" /\ (Silenced => current = NoUtterance) /\ current' = NoUtterance /\ Tells("NO_SPEECH", current)
AnnouncesFailure == ~failEmitted /\ ~closed /\ failEmitted' /\ current' = current /\ Tells("FAILED", current)
ComplainsOfPressure == ~closed /\ Tells("BACKPRESSURE", current)
ShowsPartial == ~closed /\ current # NoUtterance /\ Tells("TRANSCRIPT_PARTIAL", current)
ConcludesJob ==
  /\ fpc \in {"get", "prepare", "await", "translate"} /\ ~fcancel
  /\ \E u \in pending :
       \/ Tells("TRANSCRIPT_FINAL", u)
       \/ /\ \A v \in pending : u <= v
          /\ pending' = pending \ {u} /\ Doomed' = Doomed
          /\ \E k \in Outcomes : Tells(k, u)
DrainFailsJobs == wpc = "cancelDrain" /\ EmitFailures(wdoomed) /\ Doomed' = {} /\ pending' = {}
TerminationFails == tpc = "sleepFinal" /\ EmitFailures(tdoomed) /\ Doomed' = {} /\ pending' = {}
TellsClosed ==
  /\ Tells("STREAM_CLOSED", NoUtterance)
  /\ closed' /\ wpc' = "done" /\ Disowned /\ Silenced /\ tpc' # "sleepFinal"

SomethingShown ==
  \/ Silent \/ BeginsSpeech \/ DismissesSpeech \/ AnnouncesFailure \/ ComplainsOfPressure
  \/ ShowsPartial \/ ConcludesJob \/ DrainFailsJobs \/ TerminationFails \/ TellsClosed

LEMMA CommandFailsShows ==
  ASSUME EmitTypes, failEmitted \in BOOLEAN, closed \in BOOLEAN,
         NEW cmd, NEW k \in EventKinds, NEW kinds \in {<<>>, <<k>>}, CommandFails(cmd, kinds),
         kinds = <<k>> => ~Fits(1), current' = current \/ (current = NoUtterance /\ ~Fits(1))
  PROVE  Silent \/ AnnouncesFailure
<1>1. EmitRow(kinds \o Announcement, current) /\ failEmitted' = (failEmitted \/ ~closed)
  BY WorkerRaisesMeans DEF CommandFails
<1>2. \/ Silent
      \/ kinds = <<k>> /\ Fits(1) /\ Tells(k, current)
      \/ ~failEmitted /\ ~closed /\ Tells("FAILED", current)
  BY <1>1, FailureRow
<1>3. ASSUME ~Fits(1) PROVE Silent
  <2>1. Space = 0
    BY <1>3, CapacityAssumption DEF EmitTypes, Space, Fits
  <2>2. CASE kinds \o Announcement = <<>>
    BY <1>1, <2>2, RowMeans
  <2>3. CASE kinds \o Announcement # <<>>
    <3>1. kinds \o Announcement \in Seq(EventKinds)
      <4>1. <<k>> \in Seq(EventKinds) /\ <<>> \in Seq(EventKinds)
        OBVIOUS
      <4> QED BY <4>1, Rows
    <3>2. Len(kinds \o Announcement) \in Nat /\ Len(kinds \o Announcement) # 0
      BY <2>3, <3>1
    <3>3. ~Fits(Len(kinds \o Announcement))
      BY <2>1, <3>2 DEF Fits
    <3>4. last' = last /\ terminals' = terminals
      BY <1>1, <2>1, <3>3 DEF EmitRow
    <3> QED BY <3>4 DEF Silent
  <2> QED BY <2>2, <2>3
<1> QED BY <1>1, <1>2, <1>3 DEF AnnouncesFailure

LEMMA HearsShows ==
  ASSUME TypeOK, ControlInv, NEW cmd \in {"audio", "flush", "close"}, Hears(cmd)
  PROVE  SomethingShown
<1>0. EmitTypes /\ failEmitted \in BOOLEAN /\ closed \in BOOLEAN
  BY DEF TypeOK, FlagTypes
<1>1. wpc = "get" /\ (Silenced => current = NoUtterance /\ cmd # "audio")
  <2>1. wpc = "get" /\ wcancel = "none" /\ inputQ # <<>> /\ Head(inputQ) = cmd /\ wcmd = "none"
    BY HearsMoves DEF ControlInv, CommandInv
  <2>2. 1 \in DOMAIN inputQ /\ inputQ[1] = cmd
    BY <2>1 DEF TypeOK
  <2> QED BY <2>1, <2>2 DEF Silenced, SpeechOver, OnlyControls
<1>2. {"SPEECH_STARTED", "NO_SPEECH", "FAILED"} \subseteq EventKinds
  BY KindsOfEvents
<1>3. CASE NothingHeard(cmd) \/ SchedulePartial
  BY <1>3 DEF NothingHeard, SchedulePartial, emitVars, SomethingShown, Silent
<1>4. CASE QueueFinalization(cmd)
  <2>1. ASSUME CommandFails(cmd, <<>>), UNCHANGED speechVars PROVE Silent \/ AnnouncesFailure
    <3>1. <<>> # <<"FAILED">>
      OBVIOUS
    <3> QED BY <1>0, <1>2, <2>1, <3>1, CommandFailsShows DEF speechVars
  <2> QED BY <1>4, <2>1 DEF QueueFinalization, emitVars, SomethingShown, Silent
<1>5. CASE EmitNoSpeech(cmd)
  <2>1. CASE Fits(1)
    <3>1. EmitRow(<<"NO_SPEECH">>, current) /\ current' = NoUtterance
      BY <1>5, <2>1 DEF EmitNoSpeech, Emit
    <3> QED BY <1>0, <1>1, <2>1, <3>1, RowMeans DEF SomethingShown, DismissesSpeech
  <2>2. CASE ~Fits(1)
    <3>1. CommandFails(cmd, <<"NO_SPEECH">>) /\ current' = current
      BY <1>5, <2>2 DEF EmitNoSpeech
    <3> QED BY <1>0, <1>2, <2>2, <3>1, CommandFailsShows DEF SomethingShown
  <2> QED BY <2>1, <2>2
<1>6. CASE cmd = "audio" /\ StartUtterance
  <2>1. CASE Fits(1)
    <3>1. EmitRow(<<"SPEECH_STARTED">>, sequence + 1) /\ sequence < MaxUtterances
      BY <1>6, <2>1 DEF StartUtterance, Emit
    <3> QED BY <1>0, <1>1, <1>6, <2>1, <3>1, RowMeans DEF SomethingShown, BeginsSpeech
  <2>2. CASE ~Fits(1)
    <3>1. CommandFails("audio", <<"SPEECH_STARTED">>) /\ current = NoUtterance
      BY <1>6, <2>2 DEF StartUtterance
    <3> QED BY <1>0, <1>2, <2>2, <3>1, CommandFailsShows DEF SomethingShown
  <2> QED BY <2>1, <2>2
<1> QED BY <1>3, <1>4, <1>5, <1>6 DEF Hears

LEMMA ConcludeShows ==
  ASSUME EmitTypes, NEW u \in pending, \A v \in pending : u <= v, NEW kinds \in LastRows,
         kinds = <<"TRANSCRIPT_FINAL">> => ~Fits(1),
         fpc \in {"get", "prepare", "await", "translate"}, ~fcancel, Conclude(u, kinds),
         UNCHANGED wdoomed
  PROVE  Silent \/ ConcludesJob
<1>1. EmitRow(kinds, u) /\ pending' = pending \ {u}
  BY DEF Conclude, Settle
<1>2. {"NO_SPEECH", "FAILED", "COMPLETED"} \subseteq Outcomes
  BY DEF Outcomes
<1>6. Doomed' = Doomed
  BY ConcludeLeavesControl DEF Doomed
<1>3. CASE \E k \in {"NO_SPEECH", "FAILED", "COMPLETED"} : kinds = <<k>>
  BY <1>1, <1>2, <1>3, <1>6, RowMeans DEF ConcludesJob
<1>4. CASE kinds = <<"TRANSCRIPT_FINAL">>
  BY <1>1, <1>4, RowMeans
<1>5. CASE kinds = <<"TRANSCRIPT_FINAL", "FAILED">>
  BY <1>1, <1>2, <1>5, <1>6, RowMeans DEF ConcludesJob
<1> QED BY <1>3, <1>4, <1>5 DEF LastRows

LEMMA FinalizerShows ==
  ASSUME TypeOK, HandsInv, QueueInv, Finalizer
  PROVE  SomethingShown
<1>0. EmitTypes /\ finalQ \in Seq(Utterances) /\ UNCHANGED wdoomed
  BY FinalizerMoves DEF TypeOK, JobTypes, untouchedByFinalizer, workerVars
<1>1. CASE TakesJob
  <2>1. CASE Conclude(Head(finalQ), <<"FAILED">>)
    <3>1. fpc = "get" /\ ~fcancel /\ finalQ # <<>> /\ Full /\ finalQ' = Tail(finalQ)
      BY <1>1 DEF TakesJob, QueueInv
    <3>2. Head(finalQ) \in pending /\ \A v \in pending : Head(finalQ) <= v
      <4>1. pending = Queued' \cup {Head(finalQ)} /\ Head(finalQ) \in Nat
        BY <1>0, <3>1, QueueAfterTail, UtteranceNumbers DEF Full, InHands, HandsInv
      <4>2. \A v \in Queued' : Head(finalQ) < v
        BY <1>0, <3>1, QueueAfterTail DEF Queued
      <4>3. pending \subseteq Nat
        BY UtteranceNumbers DEF TypeOK, JobTypes
      <4> QED BY <4>1, <4>2, <4>3
    <3>3. <<"FAILED">> \in LastRows /\ <<"FAILED">> # <<"TRANSCRIPT_FINAL">>
      BY DEF LastRows
    <3> QED BY <1>0, <2>1, <3>1, <3>2, <3>3, ConcludeShows DEF SomethingShown
  <2> QED BY <1>1, <2>1 DEF TakesJob, emitVars, SomethingShown, Silent
<1>2. CASE EndsJob
  <2>1. active \in pending /\ ~fcancel /\ fpc \in {"prepare", "await", "translate"} /\ active \in Nat
    BY <1>2, UtteranceNumbers DEF EndsJob, Owned, TypeOK, JobTypes
  <2>2. \A v \in pending : active <= v
    <3>1. Full /\ active # NoUtterance
      BY <2>1 DEF QueueInv, HandsInv
    <3> QED BY <2>1, <3>1 DEF QueueInv, Full, Queued, InHands
  <2> QED BY <1>0, <1>2, <2>1, <2>2, ConcludeShows DEF EndsJob, SomethingShown
<1>3. CASE Translates
  <2>1. Emit("TRANSCRIPT_FINAL", active) /\ active \in pending /\ fpc \in {"prepare", "await"} /\ ~fcancel
    BY <1>3 DEF Translates, Owned
  <2> QED BY <1>0, <2>1, RowMeans DEF Emit, SomethingShown, ConcludesJob
<1>4. CASE FinalizerCancelled
  BY <1>4 DEF FinalizerCancelled, emitVars, SomethingShown, Silent
<1> QED BY <1>1, <1>2, <1>3, <1>4, FinalizerMoves

LEMMA StepShows ==
  ASSUME TypeOK, HandsInv, ControlInv, DisownInv, QueueInv, DoomInv, [Next]_vars
  PROVE  SomethingShown
<1>0. EmitTypes /\ failEmitted \in BOOLEAN /\ closed \in BOOLEAN /\ current \in Identities
  BY DEF TypeOK, FlagTypes, SpeechTypes
<1>1. ASSUME NEW cmd \in {"audio", "flush", "close"}, Hears(cmd) PROVE SomethingShown
  BY <1>1, HearsShows
<1>2. CASE DrainJoined \/ DrainTimeout \/ CloseCancelsJobs \/ WorkerCancelled
  BY <1>2 DEF DrainJoined, DrainTimeout, CloseCancelsJobs, WorkerCancelled, emitVars, SomethingShown, Silent
<1>3. CASE DrainCancelled
  <2>1. wpc = "cancelDrain" /\ EmitFailures(wdoomed) /\ wdoomed' = {}
    BY <1>3, WorkerRaisesMeans DEF DrainCancelled
  <2>2. pending = {} /\ pending' = {} /\ tpc # "sleepFinal"
    BY <1>3, <2>1 DEF DisownInv, Disowned, ControlInv, TerminationInv, DrainCancelled, EmptyFinalQueue
  <2>3. tpc' = "sleepFinal" => tdoomed' = {}
    BY <1>3, <2>2, WorkerRaisesMeans DEF DrainCancelled, LockFree, termVars
  <2> QED BY <2>1, <2>2, <2>3 DEF SomethingShown, DrainFailsJobs, Doomed
<1>4. CASE FinishClose
  <2>1. CASE Fits(1)
    <3>1. EmitRow(<<"STREAM_CLOSED">>, NoUtterance)
      BY <1>4, <2>1 DEF FinishClose, Emit
    <3>2. closed' /\ wpc' = "done" /\ Disowned /\ Silenced /\ tpc' # "sleepFinal"
      BY <1>4, <2>1 DEF FinishClose, termVars, DisownInv, ControlInv, CommandInv, TerminationInv, Silenced
    <3> QED BY <1>0, <2>1, <3>1, <3>2, RowMeans DEF SomethingShown, TellsClosed
  <2>2. CASE ~Fits(1)
    <3>1. EmitRow(<<"STREAM_CLOSED">> \o Announcement, current) /\ WorkerRaises("close") /\ current' = current
      BY <1>4, <2>2 DEF FinishClose, speechVars
    <3>2. "STREAM_CLOSED" \in EventKinds
      BY KindsOfEvents
    <3>3. \/ Silent
          \/ Fits(1)
          \/ ~failEmitted /\ ~closed /\ Tells("FAILED", current)
      BY <1>0, <3>1, <3>2, FailureRow
    <3> QED BY <2>2, <3>1, <3>3, WorkerRaisesMeans DEF SomethingShown, AnnouncesFailure
  <2> QED BY <2>1, <2>2
<1>5. CASE Finalizer
  BY <1>5, FinalizerShows
<1>6. CASE PrefetchEnds \/ PartialSkipped
  BY <1>6 DEF PrefetchEnds, PartialSkipped, emitVars, SomethingShown, Silent
<1>7. CASE PartialShown
  <2>1. PICK u \in Utterances : MayShowPartial(u) /\ EmitRow(<<"TRANSCRIPT_PARTIAL">>, u)
    BY <1>7 DEF PartialShown, Emit
  <2>2. current = u /\ ~closed /\ u # NoUtterance
    BY <2>1, UtteranceNumbers DEF MayShowPartial
  <2> QED BY <1>0, <2>1, <2>2, RowMeans DEF SomethingShown, ShowsPartial
<1>8. CASE TerminationEntered \/ TerminationSkipped \/ TerminationDisowns
  BY <1>8 DEF TerminationEntered, TerminationSkipped, TerminationDisowns, emitVars, SomethingShown, Silent
<1>9. CASE TerminationFailsJobs
  <2>1. tpc = "sleepFinal" /\ EmitFailures(tdoomed) /\ tpc' = "sleepBg" /\ UNCHANGED <<pending, wdoomed>>
    BY <1>9 DEF TerminationFailsJobs, EmptyFinalQueue, workerVars
  <2>2. wdoomed = {} /\ pending = {}
    BY <2>1 DEF DoomInv, DisownInv, Disowned, ControlInv, TerminationInv
  <2> QED BY <2>1, <2>2 DEF SomethingShown, TerminationFails, Doomed
<1>10. CASE TerminationEnds
  <2>1. EmitRow(<<"STREAM_CLOSED">>, NoUtterance)
    BY <1>10 DEF TerminationEnds, Emit
  <2>2. closed' /\ wpc' = "done" /\ Disowned /\ Silenced /\ tpc' # "sleepFinal"
    BY <1>10 DEF TerminationEnds, Resume, DisownInv, ControlInv, TerminationInv, SilenceInv
  <2> QED BY <1>0, <2>1, <2>2, RowMeans DEF SomethingShown, TellsClosed
<1>11. CASE Abort
  BY <1>11 DEF Abort, AbortDropsPartials, AbortDisowns, AbortEnds, emitVars, SomethingShown, Silent
<1>12. CASE ProtocolError \/ ControlRaises \/ (FeedAudio /\ ~HasInputRoom)
  <2>1. PICK kinds \in {<<>>, <<"BACKPRESSURE">>} : ReceiverFails(kinds) /\ (kinds = <<"BACKPRESSURE">> => ~closed)
    <3>1. <<>> # <<"BACKPRESSURE">>
      OBVIOUS
    <3> QED BY <1>12, <3>1 DEF ProtocolError, ControlRaises, FeedAudio
  <2>2. "BACKPRESSURE" \in EventKinds
    BY KindsOfEvents
  <2>3. EmitRow(kinds \o Announcement, current) /\ failEmitted' = (failEmitted \/ ~closed) /\ current' = current
    BY <2>1, ReceiverFailsMeans DEF ReceiverFails
  <2>4. \/ Silent
        \/ kinds = <<"BACKPRESSURE">> /\ Fits(1) /\ Tells("BACKPRESSURE", current)
        \/ ~failEmitted /\ ~closed /\ Tells("FAILED", current)
    BY <1>0, <2>1, <2>2, <2>3, FailureRow
  <2> QED BY <2>1, <2>3, <2>4 DEF SomethingShown, AnnouncesFailure, ComplainsOfPressure
<1>13. CASE (FeedAudio /\ HasInputRoom) \/ Flush \/ Close \/ PutControl
  BY <1>13 DEF FeedAudio, Flush, Close, PutControl, emitVars, SomethingShown, Silent
<1>14. CASE \/ Disconnect \/ ControlReturns \/ SenderObserved \/ SenderTimeout \/ Release \/ Sender
            \/ ShutdownCloses \/ ServerShutdown \/ UNCHANGED vars
  BY <1>14 DEF Disconnect, ControlReturns, SenderObserved, SenderTimeout, Release, Sender, Send, SenderFails,
    ShutdownCloses, ServerShutdown, ShutdownPuts, ShutdownDone, ShutdownAborts, ShutdownAborted,
    untouchedByShutdown, sentVars, emitVars, vars, SomethingShown, Silent
<1> QED BY <1>1, <1>2, <1>3, <1>4, <1>5, <1>6, <1>7, <1>8, <1>9, <1>10, <1>11, <1>12, <1>13, <1>14, CommandsHear
  DEF Next, Worker, Partial, Terminator, Client, Receiver, Finished

(* Utterances are numbered as they begin, and the stream fails once.         *)
LEMMA SpeechOnly ==
  ASSUME TypeOK, ControlInv, DisownInv, [Next]_vars
  PROVE  \/ sequence' = sequence /\ current' \in {current, NoUtterance}
         \/ sequence' = sequence + 1 /\ current' = sequence' /\ sequence < MaxUtterances /\ current = NoUtterance
<1>1. CASE Finalizer
  BY <1>1, FinalizerMoves DEF untouchedByFinalizer, speechVars
<1>2. CASE PrefetchEnds
  BY <1>2 DEF PrefetchEnds, speechVars
<1>3. CASE JobsStay \/ JobsDisowned \/ QueueEmptied \/ \E n \in Lengths : Accepts(n)
  BY <1>3 DEF JobsStay, JobsDisowned, QueueEmptied, Accepts, SpeechMoves, speechVars
<1> QED BY <1>1, <1>2, <1>3, JobMoves

LEMMA FailureStays ==
  ASSUME failEmitted, [Next]_vars
  PROVE  failEmitted'
<1>1. ASSUME NEW cmd \in {"audio", "flush", "close"}, Hears(cmd) PROVE failEmitted'
  BY <1>1, HearsMoves, WorkerRaisesMeans
<1>2. CASE DrainJoined \/ DrainTimeout \/ DrainCancelled \/ CloseCancelsJobs \/ FinishClose \/ WorkerCancelled
  BY <1>2, WorkerRaisesMeans DEF DrainJoined, DrainTimeout, DrainCancelled, CloseCancelsJobs, FinishClose,
    WorkerCancelled, AfterDrain, flagVars
<1>3. CASE Finalizer \/ PrefetchEnds \/ Partial
  BY <1>3, FinalizerLeavesControl DEF ControlAlone
<1>4. CASE Terminator \/ Abort
  BY <1>4 DEF Terminator, TerminationEntered, TerminationSkipped, TerminationDisowns, TerminationFailsJobs,
    TerminationEnds, Abort, AbortDropsPartials, AbortDisowns, AbortEnds, flagVars
<1>5. CASE Fails
  BY <1>5, ReceiverFailsMeans DEF Fails
<1>6. CASE UNCHANGED flagVars
  BY <1>6 DEF flagVars
<1>7. CASE \/ Flush \/ Close \/ PutControl \/ Disconnect \/ ControlReturns \/ SenderObserved \/ SenderTimeout
           \/ Sender \/ UNCHANGED vars \/ Release \/ ShutdownCloses \/ ServerShutdown
  BY <1>6, <1>7 DEF Flush, Close, PutControl, Disconnect, ControlReturns, SenderObserved, SenderTimeout,
    Sender, Send, SenderFails, sentVars, Release, ShutdownCloses, ServerShutdown, ShutdownPuts, ShutdownDone,
    ShutdownAborts, ShutdownAborted, untouchedByShutdown, flagVars, vars
<1> QED BY <1>1, <1>2, <1>3, <1>4, <1>5, <1>6, <1>7, CommandsHear, FailuresFail
  DEF Next, Worker, Client, Receiver, Finished

LEMMA OutcomeStep ==
  ASSUME TypeOK, HandsInv, ControlInv, DisownInv, QueueInv, DoomInv, OutcomeInv, [Next]_vars
  PROVE  OutcomeInv'
<1>0. /\ terminals \in [Utterances -> Nat] /\ current \in Identities /\ sequence \in Identities
      /\ pending \subseteq Utterances /\ failEmitted \in BOOLEAN
  BY DEF TypeOK, EmitTypes, SpeechTypes, JobTypes, FlagTypes
<1>1. pending \cup Doomed \subseteq accepted /\ accepted \subseteq 1 .. sequence /\ accepted \subseteq Utterances
  BY DEF QueueInv, DoomInv, TypeOK, JobTypes
<1>2. current # NoUtterance => current \in Utterances /\ current = sequence /\ current \notin pending \cup Doomed
  BY <1>0, <1>1 DEF QueueInv, Identities
<1>3. \/ sequence' = sequence /\ current' \in {current, NoUtterance}
      \/ sequence' = sequence + 1 /\ current' = sequence'
  BY SpeechOnly
<1>4. sequence \in Nat /\ sequence' \in Nat /\ sequence <= sequence' /\ sequence + 1 \in Nat
  BY <1>0, <1>3 DEF Identities, NoUtterance, Utterances
<1>5. \A u \in Utterances : u > sequence' => u > sequence
  BY <1>4 DEF Utterances
<1>6. ~Silenced => ~failEmitted
  BY DEF ControlInv, SilenceInv
<1>7. ~failEmitted' => ~failEmitted
  BY FailureStays
<1>8. current' # NoUtterance => current' \notin accepted /\ current' \in Utterances /\ (current' = current \/ current' > sequence)
  <2>1. CASE sequence' = sequence /\ current' \in {current, NoUtterance}
    BY <1>2, <2>1 DEF QueueInv
  <2>2. CASE sequence' = sequence + 1 /\ current' = sequence'
    <3>1. current' = sequence + 1 /\ sequence < MaxUtterances
      BY <1>4, <2>2, SpeechOnly
    <3> QED BY <1>1, <1>4, <3>1, CapacityAssumption DEF Utterances
  <2> QED BY <1>3, <2>1, <2>2
<1>9. CASE terminals' = terminals
  <2>1. \A u \in pending' \cup Doomed' : terminals[u] = 0
    <3>1. CASE accepted' = accepted /\ pending' \subseteq pending
      BY <3>1, DoomedOnly DEF OutcomeInv
    <3>2. ASSUME NEW n \in Lengths, Accepts(n) PROVE \A u \in pending' \cup Doomed' : terminals[u] = 0
      <4>1. pending' = pending \cup {current} /\ Doomed' \subseteq Doomed /\ current # NoUtterance /\ ~Silenced
        BY <3>2, DoomedOnly DEF Accepts
      <4> QED BY <1>6, <4>1 DEF OutcomeInv
    <3> QED BY <3>1, <3>2, AcceptedOnly
  <2>2. \A u \in Utterances : u > sequence' => terminals[u] = 0
    BY <1>5 DEF OutcomeInv
  <2>3. current' # NoUtterance /\ ~failEmitted' => terminals[current'] = 0
    BY <1>7, <1>8 DEF OutcomeInv
  <2> QED BY <1>9, <2>1, <2>2, <2>3 DEF OutcomeInv
<1>10. CASE /\ terminals' # terminals /\ current # NoUtterance /\ ~failEmitted
            /\ terminals' = [terminals EXCEPT ![current] = @ + 1]
            /\ current' = NoUtterance \/ failEmitted'
  <2>1. terminals[current] = 0
    BY <1>10 DEF OutcomeInv
  <2>2. terminals'[current] = 1 /\ \A u \in Utterances : u # current => terminals'[u] = terminals[u]
    BY <1>0, <1>2, <1>10, <2>1
  <2>3. pending' \cup Doomed' \subseteq pending \cup Doomed
    BY <1>10, AcceptedOnly, DoomedOnly DEF Accepts, emitVars
  <2>4. \A u \in pending' \cup Doomed' : terminals'[u] = 0
    BY <1>1, <1>2, <1>10, <2>2, <2>3 DEF OutcomeInv
  <2>5. \A u \in Utterances : u > sequence' => u # current
    BY <1>2, <1>4, <1>5, <1>10
  <2> QED BY <1>5, <1>10, <2>2, <2>4, <2>5 DEF OutcomeInv
<1>11. ASSUME NEW u \in pending, terminals' = [terminals EXCEPT ![u] = @ + 1], terminals' # terminals,
              ConcludesJob, pending' = pending \ {u}, Doomed' = Doomed
       PROVE OutcomeInv'
  <2>1. Doomed = {}
    BY <1>11, DoomedMeansDisowned DEF ConcludesJob, Disowned
  <2>2. terminals[u] = 0 /\ u \in Utterances /\ u \in accepted
    BY <1>0, <1>1 DEF OutcomeInv
  <2>3. terminals'[u] = 1 /\ \A v \in Utterances : v # u => terminals'[v] = terminals[v]
    BY <1>0, <1>11, <2>2
  <2>4. \A v \in pending' \cup Doomed' : terminals'[v] = 0
    BY <1>0, <1>11, <2>1, <2>3 DEF OutcomeInv
  <2>5. \A v \in Utterances : v > sequence' => v # u
    BY <1>1, <1>4, <1>5, <2>2
  <2>6. current' # NoUtterance /\ ~failEmitted' => terminals'[current'] = 0
    BY <1>7, <1>8, <2>2, <2>3 DEF OutcomeInv
  <2> QED BY <1>5, <2>3, <2>4, <2>5, <2>6 DEF OutcomeInv
<1>12. ASSUME NEW jobs, jobs \subseteq Doomed, EmitFailures(jobs), pending' = {}, Doomed' = {}
       PROVE OutcomeInv'
  <2>1. PICK told : told \subseteq jobs /\ terminals' = [u \in Utterances |-> IF u \in told THEN terminals[u] + 1 ELSE terminals[u]]
    BY <1>12 DEF EmitFailures, Announced
  <2>2. \A u \in told : terminals[u] = 0 /\ u \in accepted
    BY <1>1, <1>12, <2>1 DEF OutcomeInv
  <2>3. \A u \in Utterances : IF u \in told THEN terminals'[u] = 1 ELSE terminals'[u] = terminals[u]
    BY <1>0, <2>1, <2>2
  <2>4. \A v \in Utterances : v > sequence' => v \notin told
    BY <1>1, <1>4, <1>5, <2>2
  <2>5. current' # NoUtterance /\ ~failEmitted' => terminals'[current'] = 0
    BY <1>7, <1>8, <2>2, <2>3 DEF OutcomeInv
  <2> QED BY <1>5, <1>12, <2>3, <2>4, <2>5 DEF OutcomeInv
<1>13. ASSUME NEW k, NEW u, Tells(k, u), terminals' # terminals
       PROVE  u # NoUtterance /\ terminals' = [terminals EXCEPT ![u] = @ + 1] /\ k \in Outcomes
  BY <1>13 DEF Tells
<1>14. {"SPEECH_STARTED", "BACKPRESSURE", "TRANSCRIPT_PARTIAL", "STREAM_CLOSED", "TRANSCRIPT_FINAL"} \cap Outcomes = {}
  BY DEF Outcomes
<1>15. CASE terminals' # terminals
  <2>1. SomethingShown
    BY StepShows
  <2>2. CASE Silent \/ BeginsSpeech \/ ComplainsOfPressure \/ ShowsPartial \/ TellsClosed
    BY <1>13, <1>14, <1>15, <2>2 DEF Silent, BeginsSpeech, ComplainsOfPressure, ShowsPartial, TellsClosed
  <2>3. CASE DismissesSpeech
    BY <1>6, <1>10, <1>13, <1>15, <2>3 DEF DismissesSpeech
  <2>4. CASE AnnouncesFailure
    BY <1>10, <1>13, <1>15, <2>4 DEF AnnouncesFailure
  <2>5. CASE ConcludesJob
    BY <1>11, <1>13, <1>14, <1>15, <2>5 DEF ConcludesJob
  <2>6. CASE DrainFailsJobs
    BY <1>12, <2>6 DEF DrainFailsJobs, Doomed
  <2>7. CASE TerminationFails
    BY <1>12, <2>7 DEF TerminationFails, Doomed
  <2> QED BY <2>1, <2>2, <2>3, <2>4, <2>5, <2>6, <2>7 DEF SomethingShown
<1> QED BY <1>9, <1>15

-----------------------------------------------------------------------------
(* The end of the stream. *)

(* Once STREAM_CLOSED has been emitted, or close() is about to return, there is
   nobody left to emit for the stream.                                       *)
ClosedInv ==
  /\ last.kind = "STREAM_CLOSED" =>
       /\ last.utterance = NoUtterance /\ closed /\ wpc = "done" /\ Disowned
       /\ tpc = "sleepFinal" => tdoomed = {}
  /\ closeFut = "done" => closed /\ wpc = "done" /\ Disowned /\ finalQ = <<>>

LEMMA ClosedForever ==
  ASSUME closed, [Next]_vars
  PROVE  closed'
<1>1. ASSUME NEW cmd \in {"audio", "flush", "close"}, Hears(cmd) PROVE closed'
  BY <1>1, HearsMoves, WorkerRaisesMeans
<1>2. CASE DrainJoined \/ DrainTimeout \/ DrainCancelled \/ CloseCancelsJobs \/ FinishClose \/ WorkerCancelled
  BY <1>2, WorkerRaisesMeans DEF DrainJoined, DrainTimeout, DrainCancelled, CloseCancelsJobs, FinishClose,
    WorkerCancelled, AfterDrain, flagVars
<1>3. CASE Finalizer \/ PrefetchEnds \/ Partial
  BY <1>3, FinalizerLeavesControl DEF ControlAlone
<1>4. CASE Terminator \/ Abort
  BY <1>4 DEF Terminator, TerminationEntered, TerminationSkipped, TerminationDisowns, TerminationFailsJobs,
    TerminationEnds, Abort, AbortDropsPartials, AbortDisowns, AbortEnds, flagVars
<1>5. CASE Fails
  BY <1>5, ReceiverFailsMeans DEF Fails
<1>6. CASE UNCHANGED flagVars
  BY <1>6 DEF flagVars
<1>7. CASE \/ Flush \/ Close \/ PutControl \/ Disconnect \/ ControlReturns \/ SenderObserved \/ SenderTimeout
           \/ Sender \/ UNCHANGED vars \/ Release \/ ShutdownCloses \/ ServerShutdown
  BY <1>6, <1>7 DEF Flush, Close, PutControl, Disconnect, ControlReturns, SenderObserved, SenderTimeout,
    Sender, Send, SenderFails, sentVars, Release, ShutdownCloses, ServerShutdown, ShutdownPuts, ShutdownDone,
    ShutdownAborts, ShutdownAborted, StartAbort, untouchedByShutdown, flagVars, vars
<1> QED BY <1>1, <1>2, <1>3, <1>4, <1>5, <1>6, <1>7, CommandsHear, FailuresFail
  DEF Next, Worker, Client, Receiver, Finished

LEMMA DoneForever ==
  ASSUME TypeOK, TerminationInv, wpc = "done", [Next]_vars
  PROVE  wpc' = "done"
<1>1. Worker => WorkerCancelled
  BY DEF Worker, ProcessAudio, ProcessFlush, ProcessClose, TakeCommand, DrainJoined, DrainTimeout, DrainCancelled,
    CloseCancelsJobs, FinishClose
<1> QED BY <1>1, OthersLeaveWorker DEF WorkerCancelled, OthersAlone

(* Only a close, a termination or an abort that is over lets the caller of close()
   go on.                                                                    *)
LEMMA CloseResolved ==
  ASSUME TypeOK, ControlInv, DisownInv, [Next]_vars, closeFut' = "done", closeFut # "done"
  PROVE  closed' /\ wpc' = "done" /\ Disowned /\ Silenced /\ finalQ' = <<>>
<1> DEFINE Over == closed' /\ wpc' = "done" /\ Disowned /\ Silenced /\ finalQ' = <<>>
<1>1. ASSUME NEW cmd \in {"audio", "flush", "close"}, Hears(cmd) PROVE Over
  BY <1>1, HearsMoves DEF WorkerRaises, Failed, futVars
<1>2. CASE DrainJoined \/ DrainTimeout \/ DrainCancelled \/ CloseCancelsJobs \/ WorkerCancelled
  BY <1>2 DEF DrainJoined, DrainTimeout, DrainCancelled, CloseCancelsJobs, WorkerCancelled, AfterDrain, WorkerRaises,
    Failed, futVars
<1>3. CASE FinishClose
  BY <1>3 DEF FinishClose, WorkerRaises, Failed, EmptyFinalQueue, DisownInv, ControlInv, CommandInv, Silenced
<1>4. CASE Finalizer \/ PrefetchEnds \/ Partial
  BY <1>4, FinalizerLeavesControl DEF ControlAlone, futVars
<1>5. CASE TerminationEntered \/ TerminationSkipped \/ TerminationDisowns \/ TerminationFailsJobs
  BY <1>5 DEF TerminationEntered, TerminationSkipped, TerminationDisowns, TerminationFailsJobs, futVars
<1>6. CASE TerminationEnds
  BY <1>6 DEF TerminationEnds, Resume, DisownInv, ControlInv, TerminationInv, SilenceInv, jobVars
<1>7. CASE AbortDropsPartials \/ AbortDisowns
  BY <1>7 DEF AbortDropsPartials, AbortDisowns, futVars
<1>8. CASE AbortEnds
  BY <1>8 DEF AbortEnds, EmptyFinalQueue, DisownInv, ControlInv, TerminationInv, SilenceInv, flagVars, workerVars
<1>9. CASE Fails
  BY <1>9, ReceiverFailsMeans DEF Fails, futVars
<1>10. CASE FeedAudio /\ ~Fails
  BY <1>10, FailuresFail DEF futVars
<1>11. CASE \/ Flush \/ Close \/ PutControl \/ Disconnect \/ ControlReturns \/ SenderObserved \/ SenderTimeout
            \/ Sender \/ UNCHANGED vars \/ Release \/ ShutdownCloses \/ ServerShutdown
  BY <1>11 DEF Flush, Close, PutControl, Disconnect, ControlReturns, SenderObserved, SenderTimeout,
    Sender, Send, SenderFails, sentVars, Release, ShutdownCloses, ServerShutdown, ShutdownPuts, ShutdownDone,
    ShutdownAborts, ShutdownAborted, untouchedByShutdown, futVars, vars
<1> QED BY <1>1, <1>2, <1>3, <1>4, <1>5, <1>6, <1>7, <1>8, <1>9, <1>10, <1>11, CommandsHear, FailuresFail
  DEF Next, Worker, Terminator, Abort, Client, Receiver, Finished

(* A closed stream shows nothing but its end, however often.                 *)
LEMMA ClosedShows ==
  ASSUME TypeOK, HandsInv, ControlInv, DisownInv, QueueInv, DoomInv, ClosedInv, [Next]_vars,
         last.kind = "STREAM_CLOSED"
  PROVE  last' = last /\ terminals' = terminals
<1>1. SomethingShown
  BY StepShows
<1>2. closed /\ wpc = "done" /\ Disowned /\ last.utterance = NoUtterance
  BY DEF ClosedInv
<1>3. CASE Silent
  BY <1>3 DEF Silent
<1>4. CASE BeginsSpeech \/ DismissesSpeech \/ AnnouncesFailure \/ ComplainsOfPressure \/ ShowsPartial \/ DrainFailsJobs
  BY <1>2, <1>4 DEF BeginsSpeech, DismissesSpeech, AnnouncesFailure, ComplainsOfPressure, ShowsPartial, DrainFailsJobs
<1>5. CASE ConcludesJob
  BY <1>2, <1>5 DEF ConcludesJob, Disowned
<1>6. CASE TerminationFails
  <2>1. tdoomed = {} /\ EmitFailures({})
    BY <1>6 DEF TerminationFails, ClosedInv
  <2>2. Announced({}) = {}
    BY DEF Announced
  <2>3. last' = last /\ terminals' = [u \in Utterances |-> terminals[u]]
    BY <2>1, <2>2 DEF EmitFailures
  <2> QED BY <2>3 DEF TypeOK, EmitTypes
<1>7. CASE TellsClosed
  <2>1. last' = [kind |-> "STREAM_CLOSED", utterance |-> NoUtterance] /\ terminals' = terminals
    BY <1>7 DEF TellsClosed, Tells
  <2>2. last = [kind |-> "STREAM_CLOSED", utterance |-> NoUtterance]
    BY <1>2 DEF TypeOK, EmitTypes
  <2> QED BY <2>1, <2>2
<1> QED BY <1>1, <1>3, <1>4, <1>5, <1>6, <1>7 DEF SomethingShown

LEMMA TerminatorAfterClose ==
  ASSUME TypeOK, ControlInv, DoomInv, [Next]_vars, closed, wpc = "done", pending = {},
         tpc = "sleepFinal" => tdoomed = {}
  PROVE  tpc' = "sleepFinal" => tdoomed' = {}
<1>1. Doomed = {} /\ wdoomed' \subseteq Doomed'
  BY DEF Doomed, DoomInv
<1>2. Doomed' = {}
  BY <1>1, DoomedOnly
<1> QED BY <1>2 DEF Doomed

LEMMA ClosedStep ==
  ASSUME TypeOK, HandsInv, ControlInv, DisownInv, QueueInv, DoomInv, ClosedInv, [Next]_vars
  PROVE  ClosedInv'
<1>1. ASSUME closed, wpc = "done", Disowned
      PROVE  closed' /\ wpc' = "done" /\ Disowned' /\ (finalQ = <<>> => finalQ' = <<>>)
  BY <1>1, ClosedForever, DoneForever, DisownedStays DEF ControlInv, Silenced
<1>2. ASSUME closeFut' = "done" PROVE closed' /\ wpc' = "done" /\ Disowned' /\ finalQ' = <<>>
  BY <1>1, <1>2, CloseResolved, DisownedStays DEF ClosedInv
<1>3. ASSUME last'.kind = "STREAM_CLOSED"
      PROVE  /\ last'.utterance = NoUtterance /\ closed' /\ wpc' = "done" /\ Disowned'
             /\ tpc' = "sleepFinal" => tdoomed' = {}
  <2>1. CASE last.kind = "STREAM_CLOSED"
    <3>1. last' = last
      BY <2>1, ClosedShows
    <3> QED BY <1>1, <2>1, <3>1, TerminatorAfterClose DEF ClosedInv, Disowned
  <2>2. CASE last.kind # "STREAM_CLOSED"
    <3>1. TellsClosed
      <4>1. \A k, u : Tells(k, u) => last'.kind = k
        BY DEF Tells
      <4>2. last' # last
        BY <1>3, <2>2
      <4>3. ~Silent /\ ~BeginsSpeech /\ ~DismissesSpeech /\ ~AnnouncesFailure /\ ~ComplainsOfPressure /\ ~ShowsPartial
        BY <1>3, <4>1, <4>2 DEF Silent, BeginsSpeech, DismissesSpeech, AnnouncesFailure, ComplainsOfPressure, ShowsPartial
      <4>4. ~ConcludesJob
        BY <1>3, <4>1 DEF ConcludesJob, Outcomes
      <4>5. ASSUME NEW jobs, EmitFailures(jobs) PROVE FALSE
        BY <1>3, <4>2, <4>5 DEF EmitFailures
      <4> QED BY <4>3, <4>4, <4>5, StepShows DEF SomethingShown, DrainFailsJobs, TerminationFails
    <3>2. last' = [kind |-> "STREAM_CLOSED", utterance |-> NoUtterance]
      BY <3>1 DEF TellsClosed, Tells
    <3>3. Disowned'
      BY <3>1, DisownedStays DEF TellsClosed
    <3> QED BY <3>1, <3>2, <3>3 DEF TellsClosed
  <2> QED BY <2>1, <2>2
<1> QED BY <1>2, <1>3 DEF ClosedInv

-----------------------------------------------------------------------------
(* The inductive invariant as a whole. *)

JobsInv ==
  /\ DisownInv /\ QueueInv /\ RecognitionInv /\ SizeInv
  /\ DoomInv /\ OutcomeInv /\ ClosedInv

SafeInv == Inv /\ ControlInv /\ JobsInv

LEMMA JobsInit == Init => JobsInv
<1> SUFFICES ASSUME Init PROVE JobsInv
  OBVIOUS
<1> NoUtterance \notin Utterances
  BY DEF Utterances, NoUtterance
<1>1. DisownInv
  BY DEF Init, DisownInv
<1>2. finalQ = <<>> /\ DOMAIN finalQ = {} /\ Queued = {} /\ InHands = {}
  BY DEF Init, Queued, InHands
<1>3. QueueInv
  BY <1>2 DEF Init, QueueInv, Full
<1>4. RecognitionInv
  BY DEF Init, RecognitionInv
<1>5. SizeInv
  <2>1. Buffered = {}
    BY NothingBuffered DEF Init, Buffered, Frames
  <2>2. Cardinality({}) = 0 /\ IsFiniteSet({}) /\ Len(<<>>) = 0
    BY FS_EmptySet
  <2> QED BY <2>1, <2>2, CapacityAssumption DEF Init, SizeInv
<1>6. DoomInv
  BY DEF Init, DoomInv, Doomed
<1>7. OutcomeInv
  BY DEF Init, OutcomeInv, Doomed
<1>8. ClosedInv
  BY DEF Init, ClosedInv
<1> QED BY <1>1, <1>3, <1>4, <1>5, <1>6, <1>7, <1>8 DEF JobsInv

LEMMA SafeStep == SafeInv /\ [Next]_vars => SafeInv'
<1> SUFFICES ASSUME SafeInv, [Next]_vars PROVE SafeInv'
  OBVIOUS
<1>1. TypeOK /\ JobInv /\ HandsInv
  BY DEF SafeInv, Inv, JobInv, TypeOK
<1>2. ControlInv /\ DisownInv /\ QueueInv /\ RecognitionInv /\ SizeInv /\ DoomInv /\ OutcomeInv /\ ClosedInv
  BY DEF SafeInv, JobsInv
<1>3. Inv' /\ ControlInv'
  BY <1>1, <1>2, StepKeepsInv, ControlStep DEF SafeInv
<1>4. DisownInv' /\ QueueInv' /\ RecognitionInv' /\ SizeInv'
  BY <1>1, <1>2, DisownStep, QueueStep, RecognitionStep, SizeStep
<1>5. DoomInv' /\ OutcomeInv' /\ ClosedInv'
  BY <1>1, <1>2, DoomStep, OutcomeStep, ClosedStep
<1> QED BY <1>3, <1>4, <1>5 DEF SafeInv, JobsInv

THEOREM SafeAlways == Spec => []SafeInv
<1>1. Init => SafeInv
  BY InitInv, ControlInit, JobsInit DEF SafeInv
<1> QED BY <1>1, SafeStep, PTL DEF Spec

-----------------------------------------------------------------------------
(* What it shows. *)

LEMMA OneAtATime ==
  ASSUME TypeOK, JobInv, RecognitionInv
  PROVE  OneRecognition
<1> DEFINE running == { u \in Utterances : prep[u] = "running" }
<1>1. running \subseteq {prefetched} \/ running \subseteq {active}
  BY DEF RecognitionInv, Utterances, NoUtterance
<1>2. IsFiniteSet(running) /\ Cardinality(running) <= 1
  <2>1. \A x : IsFiniteSet({x}) /\ Cardinality({x}) = 1
    BY FS_Singleton
  <2>2. \A S, T : IsFiniteSet(T) /\ S \subseteq T => IsFiniteSet(S) /\ Cardinality(S) <= Cardinality(T)
    BY FS_Subset
  <2>3. \A x : running \subseteq {x} => IsFiniteSet(running) /\ Cardinality(running) <= 1
    BY <2>1, <2>2
  <2> QED BY <1>1, <2>3
<1>3. fpc = "prepare" => running = {}
  BY DEF RecognitionInv, TypeOK, JobTypes, Utterances, NoUtterance
<1>4. \A u \in running : u = active \/ (u = prefetched /\ u = Head(finalQ))
  BY DEF RecognitionInv, Utterances, NoUtterance
<1> QED BY <1>2, <1>3, <1>4 DEF OneRecognition

(* However many utterances a client speaks, and whichever of the finalizer, the
   prefetch, the drain deadline, the termination and the abort gets to one first:
   what is buffered is counted and limited (_queue_finalization 733-775), a channel
   recognises one utterance at a time, the next in line (_schedule_stt_prefetch
   777-802), and none has two outcomes (_run_finalizations 815-855).  *)
THEOREM FinalizationCorrect == Spec => []FinalizationInv
<1>1. SafeInv => FinalizationInv
  <2> SUFFICES ASSUME SafeInv PROVE FinalizationInv
    OBVIOUS
  <2>1. TypeOK /\ JobInv /\ RecognitionInv /\ SizeInv /\ OutcomeInv
    BY DEF SafeInv, JobsInv, Inv, JobInv, TypeOK
  <2>2. PendingAccounting
    BY <2>1 DEF SizeInv, PendingAccounting
  <2>3. AtMostOneOutcome
    BY <2>1 DEF OutcomeInv, AtMostOneOutcome
  <2> QED BY <2>1, <2>2, <2>3, OneAtATime DEF FinalizationInv
<1> QED BY <1>1, SafeAlways, PTL

(* When the caller of close() goes on, the worker has ended, no job is owned, the
   final queue is empty and the finalizer is cancelled or gone, whether the worker,
   a termination or an abort let the caller go (_finish_close, _terminate_stream
   441-473, abort 340-351).                                                  *)
THEOREM CloseIsQuiet == Spec => []CloseDoneMeansQuiet
<1>1. SafeInv => CloseDoneMeansQuiet
  BY DEF SafeInv, JobsInv, ClosedInv, Disowned, CloseDoneMeansQuiet
<1> QED BY <1>1, SafeAlways, PTL

(* Whatever a task still does when its result comes late, it shows no partial of an
   accepted or decided utterance (_run_partial 667-672) and nothing behind
   STREAM_CLOSED (_emit 1391).                                                 *)
THEOREM LateResultsAreDropped == Spec => NothingTooLate
<1> DEFINE Partial1 == last' # last /\ last'.kind = "TRANSCRIPT_PARTIAL"
                       => failEmitted \/ (/\ last'.utterance \notin accepted
                                          /\ terminals[last'.utterance] = 0)
           Closed1 == last.kind = "STREAM_CLOSED" => last' = last /\ terminals' = terminals
<1>1. SafeInv /\ [Next]_vars => Closed1
  BY ClosedShows DEF SafeInv, JobsInv, Inv
<1>2. SafeInv /\ [Next]_vars => Partial1
  <2> SUFFICES ASSUME SafeInv, [Next]_vars, last' # last, last'.kind = "TRANSCRIPT_PARTIAL", ~failEmitted
               PROVE  last'.utterance \notin accepted /\ terminals[last'.utterance] = 0
    OBVIOUS
  <2>1. TypeOK /\ HandsInv /\ ControlInv /\ DisownInv /\ QueueInv /\ DoomInv /\ OutcomeInv
    BY DEF SafeInv, JobsInv, Inv
  <2>2. \A k, u : Tells(k, u) => last'.kind = k /\ last'.utterance = u
    BY DEF Tells
  <2>3. ASSUME NEW jobs, EmitFailures(jobs) PROVE FALSE
    BY <2>3 DEF EmitFailures
  <2>4. ShowsPartial
    BY <2>1, <2>2, <2>3, StepShows DEF SomethingShown, Silent, BeginsSpeech, DismissesSpeech, AnnouncesFailure,
      ComplainsOfPressure, ConcludesJob, DrainFailsJobs, TerminationFails, TellsClosed, Outcomes
  <2>5. last'.utterance = current /\ current # NoUtterance
    BY <2>2, <2>4 DEF ShowsPartial
  <2> QED BY <2>1, <2>5 DEF QueueInv, OutcomeInv
<1>3. Spec => [][Partial1]_vars /\ [][Closed1]_vars
  BY <1>1, <1>2, SafeAlways, PTL DEF Spec
<1> QED BY <1>3 DEF NothingTooLate, NoPartialAfterFinal, NothingAfterClosed

-----------------------------------------------------------------------------
(***************************************************************************)
(* A voice stream implements its contract, for every number of utterances, *)
(* every queue capacity and every mode, as long as the server does not     *)
(* shut down while the stream is open. A shutdown queues a CLOSE of its    *)
(* own: it can overtake the client's flush, and then the utterance being   *)
(* spoken is left without an outcome (_process_command 482-500).           *)
(*                                                                         *)
(* Beside the safety invariant the proof needs who may ask the worker for  *)
(* what, who terminates the stream and why, and where every utterance is   *)
(* that has begun and has no outcome yet.                                  *)
(***************************************************************************)

-----------------------------------------------------------------------------
(* The parts of the invariant. *)

(* One client asks for one thing at a time: a flush or a close is the last command in
   the queue, or the worker's, and the receiver waits for its future.        *)
Commanded(cmd) == wcmd = cmd \/ \E i \in DOMAIN inputQ : inputQ[i] = cmd
ClientInv ==
  /\ spc = "idle"
  /\ flushFut = "pending" => rpc \in {"putFlush", "waitFlush"}
  /\ closeFut = "pending" => rpc \in {"putClose", "waitClose"}
  /\ wpc # "done" =>
       /\ \A i \in DOMAIN inputQ : inputQ[i] # "audio" => i = Len(inputQ) /\ wcmd = "none"
       /\ Commanded("flush") => flushFut = "pending" /\ rpc = "waitFlush"
       /\ Commanded("close") => closeFut = "pending" /\ rpc = "waitClose"
       /\ rpc = "putFlush" => flushFut = "pending"
       /\ rpc = "putClose" => closeFut = "pending"

-----------------------------------------------------------------------------
(* The client and its commands. *)

LEMMA QueueAfterCommand ==
  ASSUME inputQ \in Seq({"audio", "flush", "close"}), inputQ # <<>>, inputQ' = Tail(inputQ),
         \A i \in DOMAIN inputQ : inputQ[i] # "audio" => i = Len(inputQ)
  PROVE  /\ \A i \in DOMAIN inputQ' : /\ i + 1 \in DOMAIN inputQ /\ inputQ'[i] = inputQ[i + 1]
                                      /\ inputQ'[i] # "audio" => i = Len(inputQ')
         /\ \A cmd \in {"flush", "close"} :
              (\E i \in DOMAIN inputQ' : inputQ'[i] = cmd) => \E i \in DOMAIN inputQ : inputQ[i] = cmd
         /\ \E i \in DOMAIN inputQ : inputQ[i] = Head(inputQ)
         /\ Head(inputQ) # "audio" => DOMAIN inputQ' = {}
<1>1. Len(inputQ') = Len(inputQ) - 1 /\ Len(inputQ) \in Nat \ {0} /\ DOMAIN inputQ = 1 .. Len(inputQ)
      /\ DOMAIN inputQ' = 1 .. Len(inputQ')
  OBVIOUS
<1>2. \A i \in DOMAIN inputQ' : i \in Nat /\ i + 1 \in DOMAIN inputQ /\ inputQ'[i] = inputQ[i + 1]
  OBVIOUS
<1>3. \A i \in DOMAIN inputQ' : inputQ'[i] # "audio" => i = Len(inputQ')
  BY <1>1, <1>2
<1>4. 1 \in DOMAIN inputQ /\ inputQ[1] = Head(inputQ)
  OBVIOUS
<1>5. Head(inputQ) # "audio" => DOMAIN inputQ' = {}
  BY <1>1, <1>4
<1> QED BY <1>2, <1>3, <1>4, <1>5

LEMMA QueueWithCommand ==
  ASSUME inputQ \in Seq({"audio", "flush", "close"}), NEW cmd, inputQ' = Append(inputQ, cmd),
         \A i \in DOMAIN inputQ : inputQ[i] = "audio"
  PROVE  \A i \in DOMAIN inputQ' :
           inputQ'[i] \in {"audio", cmd} /\ (inputQ'[i] # "audio" => i = Len(inputQ'))
<1>1. Len(inputQ') = Len(inputQ) + 1 /\ DOMAIN inputQ = 1 .. Len(inputQ) /\ Len(inputQ) \in Nat
      /\ DOMAIN inputQ' = 1 .. Len(inputQ')
  OBVIOUS
<1>2. \A i \in DOMAIN inputQ' : IF i = Len(inputQ') THEN inputQ'[i] = cmd ELSE i \in DOMAIN inputQ /\ inputQ'[i] = inputQ[i]
  BY <1>1
<1> QED BY <1>2

LEMMA ClientInit == Init => ClientInv
<1>1. Init => DOMAIN inputQ = {}
  BY DEF Init
<1> QED BY <1>1 DEF Init, ClientInv, Commanded

LEMMA ClientStep ==
  ASSUME TypeOK, ControlInv, ClientInv, Shutdown = FALSE, [Next]_vars
  PROVE  ClientInv'
<1> DEFINE Calm == \A i \in DOMAIN inputQ : inputQ[i] = "audio"
<1>0. /\ inputQ \in Seq({"audio", "flush", "close"}) /\ wcmd \in {"none", "flush", "close"}
      /\ \A i \in DOMAIN inputQ : inputQ[i] \in {"audio", "flush", "close"}
  BY DEF TypeOK, WorkerTypes
<1>a. wpc # "done" /\ rpc \notin {"waitFlush", "waitClose"} => Calm /\ wcmd = "none"
  BY <1>0 DEF ClientInv, Commanded
<1> HIDE DEF Calm
<1>1. ASSUME NEW cmd \in {"audio", "flush", "close"}, Hears(cmd) PROVE ClientInv'
  <2>1. /\ wpc = "get" /\ wcmd = "none" /\ inputQ # <<>> /\ Head(inputQ) = cmd /\ inputQ' = Tail(inputQ)
        /\ UNCHANGED <<rpc, spc>>
    BY <1>1, HearsMoves DEF ControlInv, CommandInv, clientVars
  <2>2. \A i \in DOMAIN inputQ : inputQ[i] # "audio" => i = Len(inputQ)
    BY <2>1 DEF ClientInv
  <2>3. /\ \A i \in DOMAIN inputQ' : inputQ'[i] # "audio" => i = Len(inputQ')
        /\ \A c \in {"flush", "close"} :
             (\E i \in DOMAIN inputQ' : inputQ'[i] = c) => \E i \in DOMAIN inputQ : inputQ[i] = c
        /\ \E i \in DOMAIN inputQ : inputQ[i] = cmd
        /\ cmd # "audio" => DOMAIN inputQ' = {}
    BY <1>0, <2>1, <2>2, QueueAfterCommand
  <2>4. CASE Continue(cmd) /\ UNCHANGED futVars
    BY <2>1, <2>3, <2>4 DEF Continue, futVars, ClientInv, Commanded
  <2>5. CASE WorkerRaises(cmd)
    BY <2>1, <2>3, <2>5 DEF WorkerRaises, Failed, ClientInv, Commanded
  <2> QED BY <1>1, <2>4, <2>5, HearsMoves
<1>2. CASE DrainJoined \/ DrainTimeout \/ CloseCancelsJobs \/ WorkerCancelled
  BY <1>2 DEF DrainJoined, DrainTimeout, CloseCancelsJobs, WorkerCancelled, AfterDrain, Resolved, futVars, clientVars,
    ClientInv, Commanded, ControlInv, CommandInv
<1>3. CASE DrainCancelled \/ FinishClose
  BY <1>3 DEF DrainCancelled, FinishClose, AfterDrain, WorkerRaises, Failed, Resolved, futVars, clientVars,
    ClientInv, Commanded, ControlInv, CommandInv
<1>4. CASE Finalizer \/ PrefetchEnds \/ Partial
  BY <1>4, FinalizerLeavesControl DEF ControlAlone, futVars, clientVars, ClientInv, Commanded
<1>5. CASE TerminationEntered \/ TerminationSkipped \/ TerminationDisowns \/ TerminationFailsJobs
  BY <1>5, WaitsMeans DEF TerminationEntered, TerminationSkipped, TerminationDisowns, TerminationFailsJobs, Resume,
    futVars, workerVars, clientVars, ClientInv, Commanded
<1>6. CASE TerminationEnds
  BY <1>6 DEF TerminationEnds, DrainInputQueue, Resolved, Resume, ClientInv, ControlInv, TerminationInv
<1>7. CASE Abort
  BY <1>7 DEF Abort, AbortDropsPartials, AbortDisowns, AbortEnds, DrainInputQueue, Resolved, futVars, workerVars,
    clientVars, ClientInv, Commanded, ControlInv, TerminationInv
<1>8. CASE ProtocolError \/ ControlRaises \/ (FeedAudio /\ ~HasInputRoom)
  BY <1>8 DEF ProtocolError, ControlRaises, FeedAudio, ReceiverFails, futVars, ClientInv, Commanded
<1>9. CASE FeedAudio /\ HasInputRoom
  <2>1. rpc = "recv" /\ inputQ' = Append(inputQ, "audio") /\ UNCHANGED <<workerVars, futVars, clientVars>>
    BY <1>9 DEF FeedAudio, streamVars
  <2>2. wpc # "done" => \A i \in DOMAIN inputQ' : inputQ'[i] = "audio"
    BY <1>0, <1>a, <2>1, QueueWithCommand DEF Calm
  <2> QED BY <1>a, <2>1, <2>2 DEF workerVars, futVars, clientVars, ClientInv, Commanded
<1>10. CASE Flush \/ Close \/ PutControl
  <2>1. UNCHANGED <<wpc, wcmd, spc>> /\ rpc \in {"recv", "putFlush", "putClose"}
    BY <1>10 DEF Flush, Close, PutControl, streamVars, workerVars
  <2>2. ASSUME NEW cmd \in {"flush", "close"}, inputQ' = Append(inputQ, cmd)
        PROVE  wpc # "done" => /\ \A i \in DOMAIN inputQ' : inputQ'[i] # "audio" => i = Len(inputQ')
                               /\ \A c \in {"flush", "close"} : (\E i \in DOMAIN inputQ' : inputQ'[i] = c) => c = cmd
    BY <1>0, <1>a, <2>1, <2>2, QueueWithCommand DEF Calm
  <2>3. CASE inputQ' = inputQ
    BY <1>a, <1>10, <2>1, <2>3 DEF Calm, Flush, Close, PutControl, PutOrWait, futVars, ClientInv, Commanded
  <2>4. CASE inputQ' = Append(inputQ, "flush") /\ rpc' = "waitFlush" /\ flushFut' \in {"pending", flushFut}
             /\ UNCHANGED closeFut /\ (rpc = "recv" => flushFut' = "pending")
             /\ rpc \in {"recv", "putFlush"}
    BY <1>a, <2>1, <2>2, <2>4 DEF ClientInv, Commanded
  <2>5. CASE inputQ' = Append(inputQ, "close") /\ rpc' = "waitClose" /\ closeFut' \in {"pending", closeFut}
             /\ UNCHANGED flushFut /\ (rpc = "recv" => closeFut' = "pending")
             /\ rpc \in {"recv", "putClose"}
    BY <1>a, <2>1, <2>2, <2>5 DEF ClientInv, Commanded
  <2> QED BY <1>10, <2>3, <2>4, <2>5 DEF Flush, Close, PutControl, PutOrWait, futVars
<1>11. CASE Disconnect \/ ControlReturns \/ SenderObserved \/ SenderTimeout \/ Release
  BY <1>11 DEF Disconnect, ControlReturns, SenderObserved, SenderTimeout, Release, streamVars, workerVars, futVars,
    ClientInv, Commanded
<1>12. CASE Sender \/ UNCHANGED vars
  BY <1>12 DEF Sender, Send, SenderFails, sentVars, streamVars, vars, workerVars, futVars, clientVars,
    ClientInv, Commanded
<1>13. ~ShutdownCloses /\ ~ServerShutdown
  BY DEF ShutdownCloses, ServerShutdown, ShutdownPuts, ShutdownDone, ShutdownAborts, ShutdownAborted, ClientInv
<1> QED BY <1>1, <1>2, <1>3, <1>4, <1>5, <1>6, <1>7, <1>8, <1>9, <1>10, <1>11, <1>12, <1>13, CommandsHear
  DEF Next, Worker, Terminator, Client, Receiver, Finished

-----------------------------------------------------------------------------
(* What is emitted stays emitted. *)

Broken == overflowed \/ apc # "none"
Settled == { u \in Utterances : terminals[u] # 0 }

Emits ==
  \/ UNCHANGED <<last, terminals, overflowed>>
  \/ \E kinds, u : EmitRow(kinds, u)
  \/ \E jobs : EmitFailures(jobs)

LEMMA StepEmits ==
  ASSUME [Next]_vars
  PROVE  Emits
<1> USE DEF Emits
<1>1. ASSUME NEW cmd \in {"audio", "flush", "close"}, Hears(cmd) PROVE Emits
  BY <1>1 DEF Hears, NothingHeard, QueueFinalization, EmitNoSpeech, StartUtterance, SchedulePartial, CommandFails,
    Emit, emitVars
<1>2. CASE DrainJoined \/ DrainTimeout \/ CloseCancelsJobs \/ WorkerCancelled
  BY <1>2 DEF DrainJoined, DrainTimeout, CloseCancelsJobs, WorkerCancelled, emitVars
<1>3. CASE DrainCancelled \/ FinishClose
  BY <1>3 DEF DrainCancelled, FinishClose, Emit
<1>4. CASE Finalizer
  <2>1. CASE TakesJob
    BY <2>1 DEF TakesJob, Conclude, emitVars
  <2>2. CASE EndsJob \/ Translates \/ FinalizerCancelled
    BY <2>2 DEF EndsJob, Translates, FinalizerCancelled, Conclude, Emit, emitVars
  <2> QED BY <1>4, <2>1, <2>2, FinalizerMoves
<1>5. CASE PrefetchEnds \/ Partial
  BY <1>5 DEF PrefetchEnds, Partial, PartialSkipped, PartialShown, Emit, emitVars
<1>6. CASE TerminationEntered \/ TerminationSkipped \/ TerminationDisowns
  BY <1>6 DEF TerminationEntered, TerminationSkipped, TerminationDisowns, emitVars
<1>7. CASE TerminationFailsJobs \/ TerminationEnds
  BY <1>7 DEF TerminationFailsJobs, TerminationEnds, Emit
<1>8. CASE Abort
  BY <1>8 DEF Abort, AbortDropsPartials, AbortDisowns, AbortEnds, emitVars
<1>9. CASE ProtocolError \/ ControlRaises \/ FeedAudio
  BY <1>9 DEF ProtocolError, ControlRaises, FeedAudio, ReceiverFails, emitVars
<1>10. CASE \/ Flush \/ Close \/ PutControl \/ Disconnect \/ ControlReturns \/ SenderObserved \/ SenderTimeout
            \/ Release \/ Sender \/ ShutdownCloses \/ ServerShutdown \/ UNCHANGED vars
  BY <1>10 DEF Flush, Close, PutControl, Disconnect, ControlReturns, SenderObserved, SenderTimeout, Release, Sender,
    Send, SenderFails, sentVars, ShutdownCloses, ServerShutdown, ShutdownPuts, ShutdownDone, ShutdownAborts,
    ShutdownAborted, untouchedByShutdown, emitVars, vars
<1> QED BY <1>1, <1>2, <1>3, <1>4, <1>5, <1>6, <1>7, <1>8, <1>9, <1>10, CommandsHear
  DEF Next, Worker, Terminator, Client, Receiver, Finished

LEMMA SettledStays ==
  ASSUME TypeOK, [Next]_vars
  PROVE  /\ overflowed => overflowed'
         /\ \A u \in Utterances : terminals[u] # 0 => terminals'[u] # 0
         /\ Settled \subseteq Settled'
<1> DEFINE Goal == /\ overflowed => overflowed'
                   /\ \A u \in Utterances : terminals[u] # 0 => terminals'[u] # 0
<1>1. terminals \in [Utterances -> Nat]
  BY DEF TypeOK, EmitTypes
<1>2. ASSUME UNCHANGED <<last, terminals, overflowed>> PROVE Goal
  BY <1>2
<1>3. ASSUME NEW kinds, NEW u, EmitRow(kinds, u) PROVE Goal
  <2>1. \E n : overflowed' = (overflowed \/ n < Len(kinds))
    BY <1>3, Zenon DEF EmitRow
  <2>2. overflowed => overflowed'
    BY <2>1, Zenon
  <2>3. terminals' = terminals \/ terminals' = [terminals EXCEPT ![u] = @ + 1]
    BY <1>3 DEF EmitRow
  <2> QED BY <1>1, <2>2, <2>3
<1>4. ASSUME NEW jobs, EmitFailures(jobs) PROVE Goal
  <2>1. overflowed' = (overflowed \/ Announced(jobs) # jobs)
    BY <1>4, Zenon DEF EmitFailures
  <2>2. overflowed => overflowed'
    BY <2>1, Zenon
  <2>3. terminals' = [u \in Utterances |-> IF u \in Announced(jobs) THEN terminals[u] + 1 ELSE terminals[u]]
    BY <1>4 DEF EmitFailures
  <2> QED BY <1>1, <2>2, <2>3
<1>5. Goal
  BY <1>2, <1>3, <1>4, StepEmits DEF Emits
<1> QED BY <1>5 DEF Settled

LEMMA AbortStays ==
  ASSUME [Next]_vars, apc # "none"
  PROVE  apc' # "none"
<1>1. ASSUME NEW cmd \in {"audio", "flush", "close"}, Hears(cmd) PROVE apc' = apc
  BY <1>1, HearsMoves
<1>2. CASE DrainJoined \/ DrainTimeout \/ DrainCancelled \/ CloseCancelsJobs \/ FinishClose \/ WorkerCancelled
  BY <1>2 DEF DrainJoined, DrainTimeout, DrainCancelled, CloseCancelsJobs, FinishClose, WorkerCancelled
<1>3. CASE Finalizer \/ PrefetchEnds \/ Partial
  BY <1>3, FinalizerLeavesControl DEF ControlAlone
<1>4. CASE Terminator \/ Abort
  BY <1>4 DEF Terminator, TerminationEntered, TerminationSkipped, TerminationDisowns, TerminationFailsJobs,
    TerminationEnds, Abort, AbortDropsPartials, AbortDisowns, AbortEnds
<1>5. CASE Fails
  BY <1>5, ReceiverFailsMeans DEF Fails
<1>6. FeedAudio => Fails \/ apc' = apc
  BY FailuresFail DEF streamVars
<1>7. CASE \/ Flush \/ Close \/ PutControl \/ Disconnect \/ ControlReturns \/ SenderObserved \/ SenderTimeout
           \/ Sender \/ UNCHANGED vars \/ Release \/ ShutdownCloses \/ ServerShutdown
  BY <1>7 DEF Flush, Close, PutControl, Disconnect, ControlReturns, SenderObserved, SenderTimeout,
    Sender, Send, SenderFails, sentVars, Release, ShutdownCloses, ServerShutdown, ShutdownPuts, ShutdownDone,
    ShutdownAborts, ShutdownAborted, StartAbort, untouchedByShutdown, streamVars, vars
<1> QED BY <1>1, <1>2, <1>3, <1>4, <1>5, <1>6, <1>7, CommandsHear, FailuresFail
  DEF Next, Worker, Client, Receiver, Finished

LEMMA BrokenStays ==
  ASSUME TypeOK, [Next]_vars, Broken
  PROVE  Broken'
BY SettledStays, AbortStays DEF Broken

-----------------------------------------------------------------------------
(* Who terminates the stream, and why. *)

(* A termination has a reason that the client hears of, or could not be told because
   an event was refused; and nothing but a termination or an abort cancels the
   worker.                                                                   *)
FailureInv ==
  /\ holder = "receiver" => rpc = "terminate"
  /\ holder = "task" => termTask = "waiting"
  /\ termTask = "waiting" => overflowed
  /\ wpc = "terminate" \/ rpc = "terminate" => failEmitted \/ closed
  /\ holder # "none" => failEmitted \/ overflowed
  /\ wcancel # "none" => wpc # "done" /\ (apc # "none" \/ holder \in {"receiver", "task"})

(* A flush that is over has ended the utterance being spoken, and so has a close that
   the worker has taken.                                                     *)
FlushInv ==
  /\ flushed /\ flushFut # "pending" =>
       \/ ~accepting /\ OnlyControls /\ current = NoUtterance
       \/ wpc \in {"terminate", "done"}
  /\ wcmd = "close" => current = NoUtterance

LEMMA TerminatorsStart ==
  ASSUME TypeOK, Finalizer \/ PrefetchEnds \/ Partial
  PROVE  UNCHANGED termVars \/ (overflowed' /\ StartTerminator)
<1>1. EmitTypes
  BY DEF TypeOK
<1>2. ASSUME NEW u, NEW k, Conclude(u, <<k>>)
      PROVE  UNCHANGED termVars \/ (overflowed' /\ StartTerminator)
  BY <1>1, <1>2, RowMeans DEF Conclude
<1>3. ASSUME NEW u, NEW k, NEW j, Conclude(u, <<k, j>>)
      PROVE  UNCHANGED termVars \/ (overflowed' /\ StartTerminator)
  BY <1>1, <1>3, RowMeans DEF Conclude
<1>4. CASE TakeJob \/ PreparedOutcome \/ PreparedText \/ Translated \/ FinalTimeout
  BY <1>2, <1>3, <1>4 DEF TakeJob, PreparedOutcome, PreparedText, Translated, FinalTimeout
<1>5. CASE FinalizerCancelled \/ PrefetchEnds \/ PartialSkipped
  BY <1>5 DEF FinalizerCancelled, PrefetchEnds, PartialSkipped
<1>6. CASE PartialShown
  BY <1>1, <1>6, RowMeans DEF PartialShown, Emit
<1> QED BY <1>4, <1>5, <1>6 DEF Finalizer, Partial

LEMMA FailureInit == Init => FailureInv /\ FlushInv
BY DEF Init, FailureInv, FlushInv

LEMMA FailureStep ==
  ASSUME TypeOK, ControlInv, ClientInv, FailureInv, [Next]_vars
  PROVE  FailureInv'
<1>0. overflowed => overflowed'
  BY SettledStays
<1>a. (failEmitted => failEmitted') /\ (closed => closed') /\ (apc # "none" => apc' # "none")
  BY FailureStays, ClosedForever, AbortStays
<1>b. TerminationInv
  BY DEF ControlInv
<1>1. ASSUME NEW cmd \in {"audio", "flush", "close"}, Hears(cmd) PROVE FailureInv'
  BY <1>0, <1>a, <1>1, HearsMoves, WorkerRaisesMeans DEF Continue, LockFree, termVars, clientVars, FailureInv
<1>2. CASE DrainJoined \/ DrainTimeout \/ CloseCancelsJobs \/ WorkerCancelled
  BY <1>0, <1>a, <1>b, <1>2 DEF DrainJoined, DrainTimeout, CloseCancelsJobs, WorkerCancelled, AfterDrain, termVars, flagVars,
    clientVars, emitVars, FailureInv
<1>3. CASE DrainCancelled \/ FinishClose
  BY <1>0, <1>a, <1>3, WorkerRaisesMeans DEF DrainCancelled, FinishClose, AfterDrain, LockFree, termVars, clientVars, FailureInv
<1>4. CASE Finalizer \/ PrefetchEnds \/ Partial
  BY <1>0, <1>a, <1>4, FinalizerLeavesControl, TerminatorsStart DEF ControlAlone, StartTerminator, termVars, clientVars, FailureInv
<1>5. CASE TerminationEntered
  BY <1>0, <1>a, <1>5, WaitsMeans, CancelWorkerMeans DEF TerminationEntered, TakeTermination, LockFree, clientVars, emitVars,
    FailureInv
<1>6. CASE TerminationSkipped \/ TerminationDisowns \/ TerminationFailsJobs
  BY <1>0, <1>a, <1>6, WaitsMeans DEF TerminationSkipped, TerminationDisowns, TerminationFailsJobs, Resume, flagVars,
    workerVars, clientVars, FailureInv
<1>7. CASE TerminationEnds
  BY <1>0, <1>a, <1>b, <1>7 DEF TerminationEnds, TerminatorRuns, Resume, TypeOK, TermTypes, TerminationInv, FailureInv
<1>8. CASE Abort
  BY <1>0, <1>a, <1>8 DEF Abort, AbortDropsPartials, AbortDisowns, AbortEnds, flagVars, workerVars, termVars, clientVars, FailureInv
<1>9. CASE Fails
  BY <1>0, <1>a, <1>9, ReceiverFailsMeans, CancelWorkerMeans DEF Fails, LockFree, FailureInv
<1>10. CASE UNCHANGED <<workerVars, termVars, apc, rpc>>
  BY <1>0, <1>a, <1>10 DEF workerVars, termVars, FailureInv
<1>11. FeedAudio => Fails \/ UNCHANGED <<workerVars, termVars, apc, rpc>>
  BY FailuresFail DEF streamVars, clientVars
<1>12. CASE Release \/ ShutdownAborts
  BY <1>0, <1>a, <1>12, CancelWorkerMeans DEF Release, ShutdownAborts, StartAbort, untouchedByShutdown, termVars, FailureInv
<1>13. CASE \/ Flush \/ Close \/ PutControl \/ Disconnect \/ ControlReturns \/ SenderObserved \/ SenderTimeout
            \/ Sender \/ UNCHANGED vars
  BY <1>0, <1>a, <1>13 DEF Flush, Close, PutControl, Disconnect, ControlReturns, SenderObserved, SenderTimeout, Sender, Send,
    SenderFails, sentVars, streamVars, workerVars, termVars, clientVars, vars, FailureInv
<1>14. CASE ShutdownCloses \/ ShutdownPuts \/ ShutdownDone \/ ShutdownAborted
  BY <1>0, <1>a, <1>14 DEF ShutdownCloses, ShutdownPuts, ShutdownDone, ShutdownAborted, untouchedByShutdown, termVars, FailureInv
<1> QED BY <1>1, <1>2, <1>3, <1>4, <1>5, <1>6, <1>7, <1>8, <1>9, <1>10, <1>11, <1>12, <1>13, <1>14, CommandsHear, FailuresFail
  DEF Next, Worker, Terminator, Client, Receiver, ServerShutdown, Finished

LEMMA FlushStep ==
  ASSUME TypeOK, ControlInv, ClientInv, FlushInv, Shutdown = FALSE, [Next]_vars
  PROVE  FlushInv'
<1> DEFINE Over == ~accepting /\ OnlyControls /\ current = NoUtterance
           Going == wpc \in {"terminate", "done"}
<1>1. Over => Over'
  BY SpeechStaysOver DEF TypeOK
<1>2. Going => Going'
  <2>1. CASE Worker
    BY <2>1, CommandsHear, HearsMoves DEF Worker, DrainJoined, DrainTimeout, DrainCancelled, CloseCancelsJobs, FinishClose,
      WorkerCancelled
  <2>2. CASE ~Worker
    BY <2>2, OthersLeaveWorker DEF OthersAlone, ControlInv
  <2> QED BY <2>1, <2>2
<1>3. wcmd = "flush" => Over
  BY DEF ControlInv, CommandInv, SpeechOver
<1>4. wcmd = "close" => Over
  BY DEF ControlInv, CommandInv, SpeechOver, FlushInv
<1>5. (flushed => flushed') /\ (flushed' /\ ~flushed => flushFut' = "pending")
  <2>1. ASSUME NEW cmd \in {"audio", "flush", "close"}, Hears(cmd) PROVE flushed' = flushed
    BY <2>1, HearsMoves
  <2>2. CASE DrainJoined \/ DrainTimeout \/ DrainCancelled \/ CloseCancelsJobs \/ FinishClose \/ WorkerCancelled
    BY <2>2, WorkerRaisesMeans DEF DrainJoined, DrainTimeout, DrainCancelled, CloseCancelsJobs, FinishClose,
      WorkerCancelled, AfterDrain, flagVars
  <2>3. CASE Finalizer \/ PrefetchEnds \/ Partial
    BY <2>3, FinalizerLeavesControl DEF ControlAlone
  <2>4. CASE Terminator \/ Abort
    BY <2>4 DEF Terminator, TerminationEntered, TerminationSkipped, TerminationDisowns, TerminationFailsJobs,
      TerminationEnds, Abort, AbortDropsPartials, AbortDisowns, AbortEnds, flagVars
  <2>5. CASE Fails
    BY <2>5, ReceiverFailsMeans DEF Fails
  <2>6. FeedAudio => Fails \/ flushed' = flushed
    BY FailuresFail DEF flagVars
  <2>7. CASE \/ Flush \/ Close \/ PutControl \/ Disconnect \/ ControlReturns \/ SenderObserved \/ SenderTimeout
             \/ Sender \/ UNCHANGED vars \/ Release \/ ShutdownCloses \/ ServerShutdown
    BY <2>7 DEF Flush, Close, PutControl, Disconnect, ControlReturns, SenderObserved, SenderTimeout,
      Sender, Send, SenderFails, sentVars, Release, ShutdownCloses, ServerShutdown, ShutdownPuts, ShutdownDone,
      ShutdownAborts, ShutdownAborted, StartAbort, untouchedByShutdown, flagVars, vars
  <2> QED BY <2>1, <2>2, <2>3, <2>4, <2>5, <2>6, <2>7, CommandsHear, FailuresFail
    DEF Next, Worker, Client, Receiver, Finished
<1>6. flushFut = "pending" /\ flushFut' # "pending" => Over' \/ Going'
  <2> SUFFICES ASSUME flushFut = "pending", flushFut' # "pending" PROVE Over' \/ Going'
    OBVIOUS
  <2>1. ASSUME NEW cmd \in {"audio", "flush", "close"}, Hears(cmd) PROVE Over' \/ Going'
    BY <2>1, HearsMoves DEF futVars, WorkerRaises
  <2>2. CASE DrainJoined \/ DrainTimeout \/ CloseCancelsJobs \/ WorkerCancelled
    BY <1>1, <1>3, <2>2 DEF DrainJoined, DrainTimeout, CloseCancelsJobs, WorkerCancelled, AfterDrain, futVars
  <2>3. CASE DrainCancelled \/ FinishClose
    BY <1>1, <1>3, <2>3 DEF DrainCancelled, FinishClose, AfterDrain, WorkerRaises, futVars
  <2>4. CASE Finalizer \/ PrefetchEnds \/ Partial
    BY <2>4, FinalizerLeavesControl DEF ControlAlone, futVars
  <2>5. CASE Terminator \/ Abort
    BY <1>2, <2>5 DEF Terminator, TerminationEntered, TerminationSkipped, TerminationDisowns, TerminationFailsJobs,
      TerminationEnds, Resume, Abort, AbortDropsPartials, AbortDisowns, AbortEnds, futVars, ControlInv, TerminationInv
  <2>6. CASE Fails
    BY <2>6, ReceiverFailsMeans DEF Fails, futVars
  <2>7. FeedAudio => Fails \/ flushFut' = flushFut
    BY FailuresFail DEF futVars
  <2>8. CASE \/ Flush \/ Close \/ PutControl \/ Disconnect \/ ControlReturns \/ SenderObserved \/ SenderTimeout
             \/ Sender \/ UNCHANGED vars \/ Release \/ ShutdownCloses \/ ServerShutdown
    BY <2>8 DEF Flush, Close, PutControl, Disconnect, ControlReturns, SenderObserved, SenderTimeout,
      Sender, Send, SenderFails, sentVars, Release, ShutdownCloses, ServerShutdown, ShutdownPuts, ShutdownDone,
      ShutdownAborts, ShutdownAborted, untouchedByShutdown, futVars, vars
  <2> QED BY <2>1, <2>2, <2>3, <2>4, <2>5, <2>6, <2>7, <2>8, CommandsHear, FailuresFail
    DEF Next, Worker, Client, Receiver, Finished
<1>7. wcmd' = "close" => current' = NoUtterance
  <2>1. CASE wcmd = "close"
    BY <1>1, <1>4, <2>1
  <2>2. CASE wcmd # "close" /\ wcmd' = "close"
    <3>1. CASE ProcessClose
      <4>1. wpc = "get" /\ (\E i \in DOMAIN inputQ : inputQ[i] = "close")
        <5>1. wpc = "get" /\ inputQ # <<>> /\ Head(inputQ) = "close"
          BY <3>1 DEF ProcessClose, TakeCommand
        <5>2. 1 \in DOMAIN inputQ /\ inputQ[1] = "close"
          BY <5>1 DEF TypeOK
        <5> QED BY <5>1, <5>2
      <4>2. flushed => current = NoUtterance
        BY <4>1 DEF ClientInv, Commanded, FlushInv
      <4>3. WorkerRaises("close") => wcmd' = "none"
        BY WorkerRaisesMeans
      <4> QED BY <2>2, <3>1, <4>2, <4>3 DEF ProcessClose, FlushVad, NothingHeard, QueueFinalization, EmitNoSpeech,
                CommandFails, speechVars
    <3>2. CASE ProcessAudio \/ ProcessFlush
      <4>1. ASSUME NEW cmd \in {"audio", "flush"}, Hears(cmd) PROVE FALSE
        BY <2>2, <4>1, HearsMoves, WorkerRaisesMeans DEF Continue
      <4>2. Hears("audio") \/ Hears("flush")
        BY <3>2 DEF ProcessAudio, ProcessFlush, FlushVad, Hears
      <4> QED BY <4>1, <4>2
    <3>3. CASE DrainJoined \/ DrainTimeout \/ DrainCancelled \/ CloseCancelsJobs \/ FinishClose \/ WorkerCancelled
      BY <2>2, <3>3, WorkerRaisesMeans DEF DrainJoined, DrainTimeout, DrainCancelled, CloseCancelsJobs, FinishClose,
        WorkerCancelled, AfterDrain
    <3>4. CASE ~Worker
      BY <2>2, <3>4, OthersLeaveWorker DEF OthersAlone, ControlInv
    <3> QED BY <3>1, <3>2, <3>3, <3>4 DEF Worker
  <2> QED BY <2>1, <2>2
<1>8. flushed' /\ flushFut' # "pending" => Over' \/ Going'
  BY <1>1, <1>2, <1>5, <1>6 DEF FlushInv
<1> QED BY <1>7, <1>8 DEF FlushInv

-----------------------------------------------------------------------------
(* Where every utterance is. *)

(* An utterance that has begun is spoken, accepted or settled; an accepted one that
   is not settled is owned or about to be failed, unless an event was lost or the
   stream was aborted; the utterance in whose name the stream failed is settled; and
   a closed stream has nobody left to settle anything.                       *)
FateInv ==
  /\ \A u \in 1 .. sequence : u # current => u \in accepted \/ u \in Settled
  /\ wpc \in {"closeBg", "closeFinal"} => pending = {}
  /\ ~Broken =>
       /\ accepted \subseteq Settled \cup pending \cup Doomed
       /\ failEmitted /\ current # NoUtterance => current \in Settled
       /\ closed => wpc = "done" /\ Disowned /\ holder = "none"

(* What a step may do to the utterance being spoken.                         *)
GoesOn == UNCHANGED <<current, sequence>>
Queues ==
  /\ ~Silenced /\ current # NoUtterance /\ current' = NoUtterance /\ UNCHANGED sequence
  /\ accepted' = accepted \cup {current} /\ UNCHANGED <<emitVars, failEmitted, closed>>
Dismisses ==
  /\ ~Silenced /\ current # NoUtterance /\ current' = NoUtterance /\ UNCHANGED sequence
  /\ Tells("NO_SPEECH", current) /\ UNCHANGED <<jobVars, overflowed, failEmitted, closed>>
Begins ==
  /\ ~Silenced /\ current = NoUtterance /\ sequence < MaxUtterances
  /\ sequence' = sequence + 1 /\ current' = sequence + 1
  /\ UNCHANGED <<accepted, terminals, closed>> /\ (overflowed' \/ UNCHANGED failEmitted)

(* A stream that fails tells so in the name of the utterance being spoken, or has lost
   an event; and an event that finds the queue full takes the failure with it. *)
LEMMA FailureRows ==
  ASSUME NEW k \in EventKinds, NEW kinds \in {<<>>, <<k>>}
  PROVE  \/ Announcement = <<>> /\ kinds \o Announcement = kinds
         \/ Announcement = <<"FAILED">> /\ kinds \o Announcement \in {<<"FAILED">>, <<k, "FAILED">>}
            /\ ~failEmitted /\ ~closed /\ (kinds = <<k>> => kinds \o Announcement = <<k, "FAILED">>)
<1>1. <<>> \o <<>> = <<>> /\ <<>> \o <<"FAILED">> = <<"FAILED">> /\ <<k>> \o <<>> = <<k>>
  OBVIOUS
<1>2. <<k>> \o <<"FAILED">> = <<k, "FAILED">>
  <2>1. "FAILED" \in EventKinds
    BY DEF EventKinds, Outcomes
  <2> QED BY <2>1, TwoInARow
<1>3. <<>> # <<k>>
  OBVIOUS
<1>4. CASE failEmitted \/ closed
  <2>1. Announcement = <<>>
    BY <1>4 DEF Announcement
  <2> QED BY <1>1, <2>1
<1>5. CASE ~(failEmitted \/ closed)
  <2>1. Announcement = <<"FAILED">>
    BY <1>5 DEF Announcement
  <2> QED BY <1>1, <1>2, <1>3, <1>5, <2>1
<1> QED BY <1>4, <1>5

LEMMA LostRow ==
  ASSUME EmitTypes, NEW u, NEW k \in EventKinds, EmitRow(<<k>> \o Announcement, u), ~Fits(1)
  PROVE  overflowed' /\ Silent
<1>1. ~Fits(2)
  <2>1. EventCapacity - Len(events) \in Int
    BY CapacityAssumption DEF EmitTypes
  <2> QED BY <2>1 DEF Fits, Space
<1>2. EmitRow(<<k>>, u) \/ EmitRow(<<k, "FAILED">>, u)
  BY FailureRows
<1> QED BY <1>1, <1>2, RowMeans

LEMMA FailureTold ==
  ASSUME EmitTypes, NEW u, NEW k \in EventKinds, NEW kinds \in {<<>>, <<k>>},
         EmitRow(kinds \o Announcement, u), ~failEmitted, ~closed
  PROVE  overflowed' \/ Tells("FAILED", u)
<1>1. Announcement = <<"FAILED">> /\ <<"FAILED">> # <<>>
  BY DEF Announcement
<1>2. EmitRow(<<"FAILED">>, u) \/ EmitRow(<<k, "FAILED">>, u)
  BY <1>1, FailureRows
<1> QED BY <1>2, RowMeans

LEMMA OnlyCommandsSpeak ==
  ASSUME [Next]_vars, ~\E cmd \in {"audio", "flush", "close"} : Hears(cmd)
  PROVE  GoesOn
<1>1. CASE DrainJoined \/ DrainTimeout \/ DrainCancelled \/ CloseCancelsJobs \/ FinishClose \/ WorkerCancelled
  BY <1>1 DEF DrainJoined, DrainTimeout, DrainCancelled, CloseCancelsJobs, FinishClose, WorkerCancelled, speechVars, GoesOn
<1>2. CASE Finalizer
  BY <1>2, FinalizerMoves DEF untouchedByFinalizer, speechVars, GoesOn
<1>3. CASE PrefetchEnds \/ Partial
  BY <1>3 DEF PrefetchEnds, Partial, PartialSkipped, PartialShown, speechVars, GoesOn
<1>4. CASE Terminator \/ Abort
  BY <1>4 DEF Terminator, TerminationEntered, TerminationSkipped, TerminationDisowns, TerminationFailsJobs,
    TerminationEnds, Abort, AbortDropsPartials, AbortDisowns, AbortEnds, speechVars, GoesOn
<1>5. CASE Fails
  BY <1>5, ReceiverFailsMeans DEF Fails, speechVars, GoesOn
<1>6. FeedAudio => Fails \/ GoesOn
  BY FailuresFail DEF streamVars, speechVars, GoesOn
<1>7. CASE \/ Flush \/ Close \/ PutControl \/ Disconnect \/ ControlReturns \/ SenderObserved \/ SenderTimeout
           \/ Sender \/ UNCHANGED vars \/ Release \/ ShutdownCloses \/ ServerShutdown
  BY <1>7 DEF Flush, Close, PutControl, Disconnect, ControlReturns, SenderObserved, SenderTimeout,
    Sender, Send, SenderFails, sentVars, Release, ShutdownCloses, ServerShutdown, ShutdownPuts, ShutdownDone,
    ShutdownAborts, ShutdownAborted, untouchedByShutdown, streamVars, speechVars, vars, GoesOn
<1> QED BY <1>1, <1>2, <1>3, <1>4, <1>5, <1>6, <1>7, CommandsHear, FailuresFail
  DEF Next, Worker, Client, Receiver, Finished

LEMMA SpeechGoes ==
  ASSUME TypeOK, ControlInv, [Next]_vars
  PROVE  GoesOn \/ Queues \/ Dismisses \/ Begins
<1>0. EmitTypes
  BY DEF TypeOK
<1>1. ASSUME NEW cmd \in {"audio", "flush", "close"}, Hears(cmd) PROVE GoesOn \/ Queues \/ Dismisses \/ Begins
  <2>0. Silenced => current = NoUtterance /\ cmd # "audio"
    <3>1. wpc = "get" /\ wcancel = "none" /\ inputQ # <<>> /\ Head(inputQ) = cmd /\ wcmd = "none"
      BY <1>1, HearsMoves DEF ControlInv, CommandInv
    <3>2. 1 \in DOMAIN inputQ /\ inputQ[1] = cmd
      BY <3>1 DEF TypeOK
    <3> QED BY <3>1, <3>2 DEF Silenced, SpeechOver, OnlyControls
  <2>1. CASE NothingHeard(cmd) \/ SchedulePartial
    BY <2>1 DEF NothingHeard, SchedulePartial, speechVars, GoesOn
  <2>2. CASE QueueFinalization(cmd)
    BY <2>0, <2>2 DEF QueueFinalization, speechVars, flagVars, GoesOn, Queues
  <2>3. CASE EmitNoSpeech(cmd)
    <3>1. CASE Fits(1) /\ current # NoUtterance
      BY <1>0, <2>0, <2>3, <3>1, RowMeans DEF EmitNoSpeech, Emit, flagVars, Dismisses
    <3>2. CASE ~Fits(1) \/ current = NoUtterance
      BY <2>3, <3>2 DEF EmitNoSpeech, GoesOn
    <3> QED BY <3>1, <3>2
  <2>4. CASE cmd = "audio" /\ StartUtterance
    <3>1. CASE Fits(1)
      <4>1. Tells("SPEECH_STARTED", sequence + 1)
        BY <1>0, <2>4, <3>1, RowMeans DEF StartUtterance, Emit
      <4>2. terminals' = terminals
        BY <4>1 DEF Tells, Outcomes
      <4> QED BY <2>0, <2>4, <3>1, <4>2 DEF StartUtterance, jobVars, flagVars, Begins
    <3>2. CASE ~Fits(1)
      <4>1. CommandFails("audio", <<"SPEECH_STARTED">>) /\ current = NoUtterance
        BY <2>4, <3>2 DEF StartUtterance
      <4>2. EmitRow(<<"SPEECH_STARTED">> \o Announcement, current) /\ "SPEECH_STARTED" \in EventKinds
        BY <4>1, KindsOfEvents DEF CommandFails
      <4>3. overflowed' /\ terminals' = terminals
        BY <1>0, <3>2, <4>2, LostRow DEF Silent
      <4>5. UNCHANGED <<accepted, closed>>
        BY <4>1, WorkerRaisesMeans DEF CommandFails, DisownJobs, jobVars
      <4> QED BY <2>0, <2>4, <4>3, <4>5 DEF StartUtterance, Begins
    <3> QED BY <3>1, <3>2
  <2> QED BY <1>1, <2>1, <2>2, <2>3, <2>4 DEF Hears
<1> QED BY <1>1, OnlyCommandsSpeak

LEMMA BegunStep ==
  ASSUME TypeOK, ControlInv, DisownInv, FateInv, [Next]_vars
  PROVE  \A u \in 1 .. sequence' : u # current' => u \in accepted' \/ u \in Settled'
<1>1. Settled \subseteq Settled' /\ accepted \subseteq accepted'
  BY SettledStays, AcceptedOnly DEF Accepts
<1>2. sequence \in Nat /\ sequence \in Identities /\ current \in Identities /\ terminals \in [Utterances -> Nat]
  BY DEF TypeOK, EmitTypes, SpeechTypes, Identities, Utterances, NoUtterance
<1>3. CASE GoesOn
  BY <1>1, <1>3 DEF GoesOn, FateInv
<1>4. CASE Queues
  BY <1>1, <1>4 DEF Queues, FateInv
<1>5. CASE Dismisses
  <2>1. current \in Utterances /\ terminals' = [terminals EXCEPT ![current] = @ + 1]
    BY <1>2, <1>5 DEF Dismisses, Tells, Outcomes, Identities
  <2>2. current \in Settled'
    BY <1>2, <2>1 DEF Settled
  <2> QED BY <1>1, <1>5, <2>2 DEF Dismisses, FateInv
<1>6. CASE Begins
  <2>1. \A u \in 1 .. sequence' : u # current' => u \in 1 .. sequence /\ u # current
    BY <1>2, <1>6 DEF Begins, NoUtterance
  <2> QED BY <1>1, <1>6, <2>1 DEF Begins, FateInv
<1> QED BY <1>3, <1>4, <1>5, <1>6, SpeechGoes

(* Whoever ends a job settles its utterance, or has lost an event.           *)
LEMMA ConcludeSettles ==
  ASSUME EmitTypes, NEW u \in Utterances, NEW kinds \in LastRows, Conclude(u, kinds),
         kinds = <<"TRANSCRIPT_FINAL">> => ~Fits(1)
  PROVE  pending' = pending \ {u} /\ (overflowed' \/ u \in Settled')
<1>1. EmitRow(kinds, u) /\ pending' = pending \ {u}
  BY DEF Conclude, Settle
<1>2. u # NoUtterance
  BY UtteranceNumbers
<1>3. \A k \in Outcomes : Tells(k, u) => u \in Settled'
  <2>1. \A k \in Outcomes : Tells(k, u) => terminals' = [terminals EXCEPT ![u] = @ + 1]
    BY <1>2 DEF Tells
  <2>2. terminals \in [Utterances -> Nat]
    BY DEF EmitTypes
  <2> QED BY <2>1, <2>2 DEF Settled
<1>4. {"NO_SPEECH", "FAILED", "COMPLETED"} \subseteq Outcomes
  BY DEF Outcomes
<1>5. CASE \E k \in {"NO_SPEECH", "FAILED", "COMPLETED"} : kinds = <<k>>
  BY <1>1, <1>3, <1>4, <1>5, RowMeans
<1>6. CASE kinds = <<"TRANSCRIPT_FINAL">>
  BY <1>1, <1>6, RowMeans
<1>7. CASE kinds = <<"TRANSCRIPT_FINAL", "FAILED">>
  BY <1>1, <1>3, <1>4, <1>7, RowMeans
<1> QED BY <1>5, <1>6, <1>7 DEF LastRows

(* ... and so does whoever fails disowned jobs.                              *)
LEMMA FailuresSettle ==
  ASSUME EmitTypes, NEW jobs, jobs \subseteq Utterances, EmitFailures(jobs)
  PROVE  overflowed' \/ (Announced(jobs) = jobs /\ jobs \subseteq Settled')
<1>1. overflowed' = (overflowed \/ Announced(jobs) # jobs)
  BY Zenon DEF EmitFailures
<1>2. Announced(jobs) # jobs => overflowed'
  BY <1>1, Zenon
<1>3. Announced(jobs) = jobs => jobs \subseteq Settled'
  BY DEF EmitFailures, EmitTypes, Settled
<1> QED BY <1>2, <1>3

(* A drain that has been joined has left nothing to own.                     *)
LEMMA JoinedMeansDone ==
  ASSUME TypeOK, JoinCountsJobs, QueueInv, unfinished = 0
  PROVE  pending = {}
<1>1. finalQ \in Seq(Utterances) /\ Len(finalQ) \in Nat
  BY DEF TypeOK, JobTypes
<1>2. Len(finalQ) = 0 /\ active = NoUtterance
  BY <1>1 DEF JoinCountsJobs
<1>3. finalQ = <<>> /\ DOMAIN finalQ = {}
  BY <1>1, <1>2
<1> QED BY <1>2, <1>3 DEF QueueInv, Full, Queued, InHands

(* No termination cancels a worker that obeys a command, but for an event that was
   lost.                                                                     *)
LEMMA CommandedUncancelled ==
  ASSUME TypeOK, ControlInv, ClientInv, FailureInv, ~Broken, wcmd # "none"
  PROVE  holder = "none" /\ tpc = "none" /\ wcancel = "none"
<1>1. wpc \notin {"get", "terminate", "done"}
  BY DEF ControlInv, CommandInv
<1>2. rpc \in {"waitFlush", "waitClose"}
  BY <1>1 DEF ClientInv, Commanded, TypeOK, WorkerTypes
<1>3. holder \notin {"worker", "receiver", "task"}
  BY <1>1, <1>2 DEF FailureInv, ControlInv, TerminationInv, Broken
<1> QED BY <1>3 DEF FailureInv, ControlInv, TerminationInv, Broken, TypeOK, TermTypes

(* Ownership is passed on: whoever owned or doomed an utterance has settled it, or
   somebody else has still to do so.                                         *)
LEMMA JobsGoOn ==
  ASSUME TypeOK, JoinCountsJobs, ControlInv, ClientInv, FailureInv, DisownInv, QueueInv, DoomInv, FateInv,
         [Next]_vars, ~Broken'
  PROVE  pending \cup Doomed \subseteq pending' \cup Doomed' \cup Settled'
<1> DEFINE Goal == pending \cup Doomed \subseteq pending' \cup Doomed' \cup Settled'
<1>0. EmitTypes /\ pending \subseteq Utterances /\ active \in Identities /\ finalQ \in Seq(Utterances)
      /\ wdoomed \subseteq Utterances /\ tdoomed \subseteq Utterances
  BY DEF TypeOK, JobTypes, WorkerTypes, TermTypes
<1>a. ~Broken /\ ~overflowed' /\ apc' = "none" /\ apc = "none"
  BY BrokenStays DEF Broken
<1>b. holder = "none" => tpc = "none"
  BY DEF ControlInv, TerminationInv
<1>c. wpc # "cancelDrain" => wdoomed = {}
  BY DEF DoomInv
<1>d. LockFree => tpc = "none"
  BY <1>b DEF LockFree
<1>1. ASSUME NEW cmd \in {"audio", "flush", "close"}, Hears(cmd) PROVE Goal
  <2>1. wpc = "get" /\ wdoomed = {}
    BY <1>1, HearsMoves DEF DoomInv
  <2>2. CASE Continue(cmd) /\ UNCHANGED termVars
    <3>1. Doomed' = Doomed
      BY <2>2 DEF Continue, Doomed, termVars
    <3>2. pending \subseteq pending'
      BY <1>1, <2>1, <2>2, HearsJobs DEF Accepts, JobsStay, Continue, jobVars
    <3> QED BY <3>1, <3>2
  <2>3. CASE WorkerRaises(cmd) /\ (IF LockFree THEN DisownJobs ELSE UNCHANGED <<jobVars, finalVars>>)
    BY <1>d, <2>1, <2>3, WorkerRaisesMeans DEF Doomed, jobVars
  <2> QED BY <1>1, <2>2, <2>3, HearsMoves
<1>2. CASE DrainJoined
  <2>1. pending = {}
    BY <1>2, JoinedMeansDone DEF DrainJoined
  <2> QED BY <1>2, <2>1 DEF DrainJoined, Doomed, termVars
<1>3. CASE DrainTimeout
  BY <1>3, <1>c DEF DrainTimeout, Doomed, termVars
<1>4. CASE DrainCancelled
  <2>1. pending = {} /\ EmitFailures(wdoomed) /\ tpc = "none"
    BY <1>4, <1>a, CommandedUncancelled DEF DrainCancelled, DisownInv, Disowned, ControlInv, CommandInv
  <2>2. wdoomed \subseteq Settled'
    BY <1>0, <1>a, <2>1, FailuresSettle
  <2> QED BY <2>1, <2>2 DEF Doomed
<1>5. CASE CloseCancelsJobs
  BY <1>5 DEF CloseCancelsJobs, Doomed, termVars, FateInv
<1>6. CASE FinishClose
  <2>1. pending = {} /\ wdoomed = {} /\ tpc = "none"
    BY <1>6, <1>a, <1>c, CommandedUncancelled DEF FinishClose, DisownInv, Disowned, ControlInv, CommandInv
  <2> QED BY <2>1 DEF Doomed
<1>7. CASE WorkerCancelled
  <2>1. wcmd = "none" /\ holder # "worker"
    BY <1>7, <1>a, CommandedUncancelled DEF WorkerCancelled, FailureInv, Broken
  <2>2. wdoomed = {} /\ wdoomed' = {}
    BY <1>7, <1>c, <2>1 DEF ControlInv, CommandInv, WorkerCancelled
  <2> QED BY <1>7, <2>1, <2>2 DEF WorkerCancelled, Doomed, jobVars
<1>8. CASE Finalizer
  <2>1. Doomed' = Doomed
    <3>1. UNCHANGED wdoomed
      BY <1>8, FinalizerMoves DEF untouchedByFinalizer, workerVars
    <3>2. UNCHANGED <<tpc, tdoomed>>
      BY <1>8, TerminatorsStart DEF StartTerminator, termVars
    <3> QED BY <3>1, <3>2 DEF Doomed
  <2>2. ASSUME NEW u \in Utterances, NEW kinds \in LastRows, Conclude(u, kinds),
               kinds = <<"TRANSCRIPT_FINAL">> => ~Fits(1)
        PROVE  pending \subseteq pending' \cup Settled'
    BY <1>0, <1>a, <2>2, ConcludeSettles
  <2>3. CASE TakesJob
    <3>1. Head(finalQ) \in Utterances /\ <<"FAILED">> \in LastRows /\ <<"FAILED">> # <<"TRANSCRIPT_FINAL">>
      BY <1>0, <2>3 DEF TakesJob, LastRows
    <3>2. pending' = pending \/ Conclude(Head(finalQ), <<"FAILED">>)
      BY <2>3 DEF TakesJob
    <3> QED BY <2>1, <2>2, <3>1, <3>2
  <2>4. CASE EndsJob
    <3>1. active \in Utterances
      BY <1>0, <2>4 DEF EndsJob, Owned
    <3> QED BY <2>1, <2>2, <2>4, <3>1 DEF EndsJob
  <2>5. CASE Translates
    BY <2>1, <2>5 DEF Translates
  <2>6. CASE FinalizerCancelled
    BY <2>1, <2>6 DEF FinalizerCancelled, DisownInv, Disowned
  <2> QED BY <1>8, <2>3, <2>4, <2>5, <2>6, FinalizerMoves
<1>9. CASE PrefetchEnds \/ Partial
  BY <1>9 DEF PrefetchEnds, Partial, PartialSkipped, PartialShown, StartTerminator, jobVars, workerVars, termVars, Doomed
<1>10. CASE TerminationEntered
  BY <1>10, <1>d DEF TerminationEntered, TakeTermination, Doomed, jobVars
<1>11. CASE TerminationSkipped \/ TerminationEnds
  BY <1>11 DEF TerminationSkipped, TerminationEnds, Doomed, jobVars
<1>12. CASE TerminationDisowns
  BY <1>12 DEF TerminationDisowns, Doomed, workerVars
<1>13. CASE TerminationFailsJobs
  <2>1. tdoomed \subseteq Settled'
    BY <1>0, <1>13, <1>a, FailuresSettle DEF TerminationFailsJobs
  <2> QED BY <1>13, <2>1 DEF TerminationFailsJobs, EmptyFinalQueue, workerVars, Doomed
<1>14. CASE Fails
  BY <1>14, <1>d, ReceiverFailsMeans DEF Fails, Doomed, jobVars
<1>15. CASE UNCHANGED <<pending, wdoomed, tpc, tdoomed>>
  BY <1>15 DEF Doomed
<1>16. FeedAudio => Fails \/ UNCHANGED <<pending, wdoomed, tpc, tdoomed>>
  BY FailuresFail DEF streamVars, jobVars, workerVars, termVars
<1>17. CASE \/ Flush \/ Close \/ PutControl \/ Disconnect \/ ControlReturns \/ SenderObserved \/ SenderTimeout
            \/ Sender \/ UNCHANGED vars \/ Release \/ ShutdownCloses \/ ServerShutdown
  BY <1>15, <1>17 DEF Flush, Close, PutControl, Disconnect, ControlReturns, SenderObserved, SenderTimeout,
    Sender, Send, SenderFails, sentVars, Release, ShutdownCloses, ServerShutdown, ShutdownPuts, ShutdownDone,
    ShutdownAborts, ShutdownAborted, untouchedByShutdown, streamVars, jobVars, workerVars, termVars, vars
<1>18. ~Abort
  BY <1>a DEF Abort, AbortDropsPartials, AbortDisowns, AbortEnds
<1> QED BY <1>1, <1>2, <1>3, <1>4, <1>5, <1>6, <1>7, <1>8, <1>9, <1>10, <1>11, <1>12, <1>13, <1>14, <1>15,
           <1>16, <1>17, <1>18, CommandsHear, FailuresFail
  DEF Next, Worker, Terminator, Client, Receiver, Finished

(* The one failure that a stream announces names the utterance being spoken, or an
   event was lost.                                                           *)
LEMMA FailsOnce ==
  ASSUME TypeOK, [Next]_vars, ~failEmitted, failEmitted'
  PROVE  overflowed' \/ (current' = current /\ Tells("FAILED", current))
<1> DEFINE Told == overflowed' \/ (current' = current /\ Tells("FAILED", current))
<1>0. EmitTypes /\ {"SPEECH_STARTED", "NO_SPEECH", "STREAM_CLOSED", "BACKPRESSURE"} \subseteq EventKinds
  BY KindsOfEvents DEF TypeOK
<1>1. ASSUME NEW cmd \in {"audio", "flush", "close"}, Hears(cmd) PROVE Told
  <2>1. CASE QueueFinalization(cmd) /\ UNCHANGED <<current, sequence>>
    <3>1. EmitRow(<<>> \o Announcement, current) /\ ~closed
      BY <2>1, WorkerRaisesMeans DEF QueueFinalization, CommandFails, flagVars
    <3> QED BY <1>0, <2>1, <3>1, FailureTold
  <2>2. CASE QueueFinalization(cmd) /\ ~UNCHANGED <<current, sequence>>
    BY <2>2 DEF QueueFinalization, speechVars, flagVars
  <2>3. CASE EmitNoSpeech(cmd)
    <3>1. ~Fits(1) /\ EmitRow(<<"NO_SPEECH">> \o Announcement, current)
      BY <2>3 DEF EmitNoSpeech, CommandFails, flagVars
    <3> QED BY <1>0, <3>1, LostRow
  <2>4. CASE cmd = "audio" /\ StartUtterance
    <3>1. ~Fits(1) /\ EmitRow(<<"SPEECH_STARTED">> \o Announcement, current)
      BY <2>4 DEF StartUtterance, CommandFails, flagVars
    <3> QED BY <1>0, <3>1, LostRow
  <2>5. CASE NothingHeard(cmd) \/ SchedulePartial
    BY <2>5 DEF NothingHeard, SchedulePartial, flagVars
  <2> QED BY <1>1, <2>1, <2>2, <2>3, <2>4, <2>5 DEF Hears
<1>2. CASE DrainJoined \/ DrainTimeout \/ CloseCancelsJobs \/ WorkerCancelled
  BY <1>2 DEF DrainJoined, DrainTimeout, CloseCancelsJobs, WorkerCancelled, AfterDrain, flagVars
<1>3. CASE DrainCancelled
  <2>1. EmitFailures(wdoomed) /\ wdoomed \subseteq Utterances /\ Announced(wdoomed) # wdoomed
    BY <1>3 DEF DrainCancelled, AfterDrain, TypeOK, WorkerTypes
  <2> QED BY <1>0, <2>1, FailuresSettle
<1>4. CASE FinishClose
  <2>1. ~Fits(1) /\ EmitRow(<<"STREAM_CLOSED">> \o Announcement, current)
    BY <1>4 DEF FinishClose
  <2> QED BY <1>0, <2>1, LostRow
<1>5. CASE Finalizer \/ PrefetchEnds \/ Partial
  BY <1>5, FinalizerLeavesControl DEF ControlAlone
<1>6. CASE Terminator \/ Abort
  BY <1>6 DEF Terminator, TerminationEntered, TerminationSkipped, TerminationDisowns, TerminationFailsJobs,
    TerminationEnds, Abort, AbortDropsPartials, AbortDisowns, AbortEnds, flagVars
<1>7. CASE Fails
  <2>1. PICK kinds \in {<<>>, <<"BACKPRESSURE">>} : ReceiverFails(kinds)
    BY <1>7 DEF Fails
  <2>2. EmitRow(kinds \o Announcement, current) /\ current' = current /\ ~closed
    BY <1>7, <2>1, ReceiverFailsMeans DEF ReceiverFails, speechVars
  <2> QED BY <1>0, <2>2, FailureTold
<1>8. FeedAudio => Fails \/ failEmitted' = failEmitted
  BY FailuresFail DEF flagVars
<1>9. CASE \/ Flush \/ Close \/ PutControl \/ Disconnect \/ ControlReturns \/ SenderObserved \/ SenderTimeout
           \/ Sender \/ UNCHANGED vars \/ Release \/ ShutdownCloses \/ ServerShutdown
  BY <1>9 DEF Flush, Close, PutControl, Disconnect, ControlReturns, SenderObserved, SenderTimeout,
    Sender, Send, SenderFails, sentVars, Release, ShutdownCloses, ServerShutdown, ShutdownPuts, ShutdownDone,
    ShutdownAborts, ShutdownAborted, StartAbort, untouchedByShutdown, flagVars, vars
<1> QED BY <1>1, <1>2, <1>3, <1>4, <1>5, <1>6, <1>7, <1>8, <1>9, CommandsHear, FailuresFail
  DEF Next, Worker, Client, Receiver, Finished

(* A stream that is not broken closes when nothing is left to do, with the utterance
   being spoken finished or failed.                                          *)
LEMMA ClosesMeans ==
  ASSUME TypeOK, ControlInv, ClientInv, FailureInv, FlushInv, DisownInv, DoomInv, [Next]_vars,
         ~closed, closed', ~Broken'
  PROVE  /\ Disowned /\ Doomed = {} /\ Silenced /\ holder' = "none" /\ wpc' = "done"
         /\ UNCHANGED <<speechVars, accepted, terminals>>
         /\ current = NoUtterance \/ failEmitted
<1> DEFINE Goal == /\ Disowned /\ Doomed = {} /\ Silenced /\ holder' = "none" /\ wpc' = "done"
                   /\ UNCHANGED <<speechVars, accepted, terminals>>
                   /\ current = NoUtterance \/ failEmitted
<1>0. EmitTypes
  BY DEF TypeOK
<1>a. ~Broken /\ ~overflowed' /\ apc' = "none"
  BY BrokenStays DEF Broken
<1>b. "STREAM_CLOSED" \notin Outcomes
  BY DEF Outcomes
<1>1. ASSUME NEW cmd \in {"audio", "flush", "close"}, Hears(cmd) PROVE FALSE
  BY <1>1, HearsMoves
<1>2. CASE DrainJoined \/ DrainTimeout \/ DrainCancelled \/ CloseCancelsJobs
  BY <1>2, WorkerRaisesMeans DEF DrainJoined, DrainTimeout, DrainCancelled, CloseCancelsJobs, AfterDrain, flagVars
<1>3. CASE FinishClose
  <2>1. wpc = "closeFinal" /\ wcmd = "close" /\ Disowned /\ wdoomed = {} /\ Silenced /\ current = NoUtterance
    BY <1>3 DEF FinishClose, ControlInv, CommandInv, DisownInv, DoomInv, Silenced, FlushInv
  <2>2. holder = "none" /\ tpc = "none"
    BY <1>a, <2>1, CommandedUncancelled
  <2>3. Fits(1) /\ EmitRow(<<"STREAM_CLOSED">>, NoUtterance)
    BY <1>3, WorkerRaisesMeans DEF FinishClose, Emit
  <2>4. terminals' = terminals
    BY <1>0, <2>3, RowMeans DEF Tells
  <2> QED BY <1>3, <2>1, <2>2, <2>3, <2>4 DEF FinishClose, EmptyFinalQueue, termVars, Doomed
<1>4. CASE WorkerCancelled
  BY <1>4, <1>a DEF WorkerCancelled, FailureInv, Broken
<1>5. CASE Finalizer \/ PrefetchEnds \/ Partial
  BY <1>5, FinalizerLeavesControl DEF ControlAlone
<1>6. CASE TerminationEntered \/ TerminationSkipped \/ TerminationDisowns \/ TerminationFailsJobs \/ Abort
  BY <1>6 DEF TerminationEntered, TerminationSkipped, TerminationDisowns, TerminationFailsJobs,
    Abort, AbortDropsPartials, AbortDisowns, AbortEnds, flagVars
<1>7. CASE TerminationEnds
  <2>1. tpc = "sleepBg" /\ holder # "none" /\ wpc # "cancelDrain" /\ wpc' = "done" /\ Silenced
    BY <1>7 DEF TerminationEnds, Resume, ControlInv, TerminationInv, Silenced
  <2>2. Disowned /\ wdoomed = {}
    BY <2>1 DEF DisownInv, DoomInv
  <2>3. failEmitted
    BY <1>a, <2>1 DEF FailureInv, Broken
  <2>4. EmitRow(<<"STREAM_CLOSED">>, NoUtterance)
    BY <1>7 DEF TerminationEnds, Emit
  <2>5. terminals' = terminals
    BY <1>0, <1>a, <2>4, RowMeans DEF Tells
  <2> QED BY <1>7, <2>1, <2>2, <2>3, <2>5 DEF TerminationEnds, Doomed, jobVars
<1>8. CASE Fails
  BY <1>8, ReceiverFailsMeans DEF Fails
<1>9. FeedAudio => Fails \/ closed' = closed
  BY FailuresFail DEF flagVars
<1>10. CASE Release \/ ShutdownAborts
  BY <1>10, <1>a DEF Release, ShutdownAborts, StartAbort
<1>11. CASE \/ Flush \/ Close \/ PutControl \/ Disconnect \/ ControlReturns \/ SenderObserved \/ SenderTimeout
            \/ Sender \/ UNCHANGED vars \/ ShutdownCloses \/ ShutdownPuts \/ ShutdownDone \/ ShutdownAborted
  BY <1>11 DEF Flush, Close, PutControl, Disconnect, ControlReturns, SenderObserved, SenderTimeout,
    Sender, Send, SenderFails, sentVars, ShutdownCloses, ShutdownPuts, ShutdownDone, ShutdownAborted,
    untouchedByShutdown, flagVars, vars
<1> QED BY <1>1, <1>2, <1>3, <1>4, <1>5, <1>6, <1>7, <1>8, <1>9, <1>10, <1>11, CommandsHear, FailuresFail
  DEF Next, Worker, Terminator, Client, Receiver, ServerShutdown, Finished

(* ... and nobody takes the lock of a closed stream.                         *)
LEMMA LockStaysFree ==
  ASSUME TypeOK, ControlInv, [Next]_vars, closed, holder = "none"
  PROVE  holder' = "none"
<1>1. ~LockFree /\ tpc = "none"
  BY DEF LockFree, ControlInv, TerminationInv
<1>2. ASSUME NEW cmd \in {"audio", "flush", "close"}, Hears(cmd) PROVE holder' = "none"
  BY <1>1, <1>2, HearsMoves, WorkerRaisesMeans DEF termVars
<1>3. CASE DrainJoined \/ DrainTimeout \/ DrainCancelled \/ CloseCancelsJobs \/ FinishClose \/ WorkerCancelled
  BY <1>1, <1>3, WorkerRaisesMeans DEF DrainJoined, DrainTimeout, DrainCancelled, CloseCancelsJobs, FinishClose,
    WorkerCancelled, termVars
<1>4. CASE Finalizer \/ PrefetchEnds \/ Partial
  BY <1>4, FinalizerLeavesControl DEF ControlAlone
<1>5. CASE Terminator
  BY <1>1, <1>5 DEF Terminator, TerminationEntered, TerminationSkipped, TerminationDisowns, TerminationFailsJobs,
    TerminationEnds
<1>6. CASE Fails
  BY <1>1, <1>6, ReceiverFailsMeans DEF Fails
<1>7. FeedAudio => Fails \/ holder' = holder
  BY FailuresFail DEF streamVars, termVars
<1>8. CASE \/ Flush \/ Close \/ PutControl \/ Disconnect \/ ControlReturns \/ SenderObserved \/ SenderTimeout
           \/ Sender \/ UNCHANGED vars \/ Release \/ ShutdownCloses \/ ServerShutdown \/ Abort
  BY <1>8 DEF Flush, Close, PutControl, Disconnect, ControlReturns, SenderObserved, SenderTimeout,
    Sender, Send, SenderFails, sentVars, Release, ShutdownCloses, ServerShutdown, ShutdownPuts, ShutdownDone,
    ShutdownAborts, ShutdownAborted, untouchedByShutdown, Abort, AbortDropsPartials, AbortDisowns, AbortEnds,
    streamVars, termVars, vars
<1> QED BY <1>1, <1>2, <1>3, <1>4, <1>5, <1>6, <1>7, <1>8, CommandsHear, FailuresFail
  DEF Next, Worker, Client, Receiver, Finished

(* A closing worker has drained its jobs.                                    *)
LEMMA DrainedStep ==
  ASSUME TypeOK, JoinCountsJobs, ControlInv, DisownInv, QueueInv, FateInv, [Next]_vars,
         wpc' \in {"closeBg", "closeFinal"}
  PROVE  pending' = {}
<1>1. CASE wpc' = "closeFinal"
  BY <1>1, DisownStep DEF DisownInv, Disowned
<1>2. CASE wpc' = "closeBg" /\ wpc = "closeBg"
  BY <1>2, AcceptedOnly DEF Accepts, FateInv
<1>3. CASE wpc' = "closeBg" /\ wpc # "closeBg"
  <2>1. ASSUME NEW cmd \in {"audio", "flush", "close"}, Hears(cmd) PROVE FALSE
    BY <1>3, <2>1, HearsMoves, WorkerRaisesMeans DEF Continue
  <2>2. CASE DrainJoined
    BY <1>3, <2>2, JoinedMeansDone DEF DrainJoined, jobVars
  <2>3. CASE DrainCancelled
    BY <2>3 DEF DrainCancelled, EmptyFinalQueue, DisownInv, Disowned
  <2>4. CASE DrainTimeout \/ CloseCancelsJobs \/ FinishClose \/ WorkerCancelled
    BY <1>3, <2>4, WorkerRaisesMeans DEF DrainTimeout, CloseCancelsJobs, FinishClose, WorkerCancelled
  <2>5. CASE ~Worker
    BY <1>3, <2>5, OthersLeaveWorker DEF OthersAlone, ControlInv
  <2> QED BY <2>1, <2>2, <2>3, <2>4, <2>5, CommandsHear DEF Worker
<1> QED BY <1>1, <1>2, <1>3

LEMMA FateInit == Init => FateInv
BY DEF Init, FateInv, Broken

LEMMA FateStep ==
  ASSUME TypeOK, JoinCountsJobs, ControlInv, ClientInv, FailureInv, FlushInv, DisownInv, QueueInv, DoomInv,
         OutcomeInv, FateInv, [Next]_vars
  PROVE  FateInv'
<1>0. current \in Identities /\ terminals \in [Utterances -> Nat]
  BY DEF TypeOK, SpeechTypes, EmitTypes
<1>1. \A u \in 1 .. sequence' : u # current' => u \in accepted' \/ u \in Settled'
  BY BegunStep
<1>2. wpc' \in {"closeBg", "closeFinal"} => pending' = {}
  BY DrainedStep
<1>3. ASSUME ~Broken' PROVE accepted' \subseteq Settled' \cup pending' \cup Doomed'
  <2>1. accepted \subseteq Settled' \cup pending' \cup Doomed'
    BY <1>3, BrokenStays, SettledStays, JobsGoOn DEF FateInv
  <2>2. accepted' \subseteq accepted \cup pending'
    BY AcceptedOnly DEF Accepts
  <2> QED BY <2>1, <2>2
<1>4. ASSUME ~Broken', failEmitted', current' # NoUtterance PROVE current' \in Settled'
  <2>1. CASE failEmitted
    <3>1. current' = current
      BY <1>4, <2>1, SpeechGoes DEF GoesOn, Queues, Dismisses, Begins, ControlInv, SilenceInv
    <3> QED BY <1>4, <2>1, <3>1, BrokenStays, SettledStays DEF FateInv
  <2>2. CASE ~failEmitted
    <3>1. current' = current /\ current \in Utterances /\ Tells("FAILED", current)
      BY <1>0, <1>4, <2>2, FailsOnce DEF Broken, Identities
    <3>2. terminals' = [terminals EXCEPT ![current] = @ + 1]
      BY <1>4, <3>1 DEF Tells, Outcomes
    <3> QED BY <1>0, <3>1, <3>2 DEF Settled
  <2> QED BY <2>1, <2>2
<1>5. ASSUME ~Broken', closed' PROVE wpc' = "done" /\ Disowned' /\ holder' = "none"
  <2>1. CASE closed
    <3>1. wpc = "done" /\ Disowned /\ holder = "none"
      BY <1>5, <2>1, BrokenStays DEF FateInv
    <3> QED BY <2>1, <3>1, DoneForever, DisownedStays, LockStaysFree DEF ControlInv, Silenced
  <2>2. CASE ~closed
    BY <1>5, <2>2, ClosesMeans, DisownedStays
  <2> QED BY <2>1, <2>2
<1> QED BY <1>1, <1>2, <1>3, <1>4, <1>5 DEF FateInv

-----------------------------------------------------------------------------
(* The refinement, step by step. *)

(* A closed stream that is not broken is at rest.                            *)
LEMMA ClosedRest ==
  ASSUME TypeOK, ControlInv, FailureInv, DisownInv, FateInv, [Next]_vars, closed, ~Broken
  PROVE  ~Broken' /\ closed' /\ UNCHANGED <<sequence, accepted, terminals>>
<1> SUFFICES UNCHANGED <<sequence, accepted, terminals, overflowed, apc>>
  BY ClosedForever DEF Broken
<1>0. EmitTypes
  BY DEF TypeOK
<1>1. /\ wpc = "done" /\ Disowned /\ holder = "none" /\ tpc = "none" /\ wcancel = "none" /\ apc = "none"
      /\ ~LockFree
  BY DEF FateInv, FailureInv, Broken, ControlInv, TerminationInv, LockFree
<1>2. ASSUME NEW cmd \in {"audio", "flush", "close"}, Hears(cmd) PROVE FALSE
  BY <1>1, <1>2, HearsMoves
<1>3. ~(DrainJoined \/ DrainTimeout \/ DrainCancelled \/ CloseCancelsJobs \/ FinishClose \/ WorkerCancelled)
  BY <1>1 DEF DrainJoined, DrainTimeout, DrainCancelled, CloseCancelsJobs, FinishClose, WorkerCancelled
<1>4. CASE Finalizer
  <2>1. FinalizerCancelled
    BY <1>1, <1>4, FinalizerMoves DEF Disowned, TakesJob, EndsJob, Translates
  <2> QED BY <2>1 DEF FinalizerCancelled, Settle, untouchedByFinalizer, emitVars, speechVars
<1>5. CASE PrefetchEnds \/ PartialSkipped
  BY <1>5 DEF PrefetchEnds, PartialSkipped, emitVars, speechVars, jobVars
<1>6. ~PartialShown
  BY DEF PartialShown, MayShowPartial
<1>7. CASE TerminationSkipped
  BY <1>7 DEF TerminationSkipped, emitVars, speechVars, jobVars
<1>8. ~(TerminationEntered \/ TerminationDisowns \/ TerminationFailsJobs \/ TerminationEnds \/ Abort)
  BY <1>1 DEF TerminationEntered, TerminationDisowns, TerminationFailsJobs, TerminationEnds,
    Abort, AbortDropsPartials, AbortDisowns, AbortEnds
<1>9. CASE ProtocolError \/ ControlRaises
  <2>1. ReceiverFails(<<>>)
    BY <1>9 DEF ProtocolError, ControlRaises
  <2>2. Announcement = <<>> /\ <<>> \o <<>> = <<>>
    BY DEF Announcement
  <2>3. EmitRow(<<>>, current)
    BY <2>1, <2>2 DEF ReceiverFails
  <2> QED BY <1>0, <2>1, <2>3, RowMeans DEF ReceiverFails, Silent, speechVars, jobVars
<1>10. ~FeedAudio
  BY DEF FeedAudio
<1>11. CASE Release \/ ShutdownAborts
  BY <1>11 DEF Release, ShutdownAborts, untouchedByShutdown, emitVars, speechVars, jobVars
<1>12. CASE \/ Flush \/ Close \/ PutControl \/ Disconnect \/ ControlReturns \/ SenderObserved \/ SenderTimeout
            \/ Sender \/ UNCHANGED vars \/ ShutdownCloses \/ ShutdownPuts \/ ShutdownDone \/ ShutdownAborted
  BY <1>12 DEF Flush, Close, PutControl, Disconnect, ControlReturns, SenderObserved, SenderTimeout,
    Sender, Send, SenderFails, sentVars, ShutdownCloses, ShutdownPuts, ShutdownDone, ShutdownAborted,
    untouchedByShutdown, streamVars, emitVars, speechVars, jobVars, vars
<1> QED BY <1>2, <1>3, <1>4, <1>5, <1>6, <1>7, <1>8, <1>9, <1>10, <1>11, <1>12, CommandsHear
  DEF Next, Worker, Partial, Terminator, Client, Receiver, ServerShutdown, Finished

(* The failures that fit into the event queue are those of the oldest jobs.  *)
LEMMA OldestFirst ==
  ASSUME TypeOK, NEW jobs, jobs \subseteq Utterances,
         NEW u \in Announced(jobs), NEW v \in jobs, v < u
  PROVE  v \in Announced(jobs)
<1> DEFINE upto(n) == { w \in jobs : w <= n }
<1>1. jobs \subseteq Nat /\ u \in jobs /\ u \in Nat /\ v \in Nat
  BY UtteranceNumbers DEF Announced
<1>2. upto(v) \subseteq upto(u) /\ upto(v) \subseteq Utterances /\ upto(u) \subseteq Utterances
  <2>1. \A w \in jobs : w <= v => w <= u
    BY <1>1
  <2> QED BY <2>1
<1>3. IsFiniteSet(upto(u)) /\ Cardinality(upto(u)) \in Nat /\ Cardinality(upto(v)) \in Nat
  <2> HIDE DEF upto
  <2> QED BY <1>2, UtteranceSets
<1>4. Cardinality(upto(v)) <= Cardinality(upto(u))
  <2> HIDE DEF upto
  <2> QED BY <1>2, <1>3, FS_Subset
<1>5. Cardinality(upto(u)) <= Space /\ Space \in Int
  BY CapacityAssumption DEF Announced, Space, TypeOK, EmitTypes
<1> QED BY <1>3, <1>4, <1>5 DEF Announced

(* What a step settles: the utterance being spoken, or jobs that are due, the oldest
   first as long as nothing is lost.                                         *)
Accountable == accepted \ Settled
SettlesJobs ==
  \E told \in SUBSET Accountable :
    /\ ~Broken => \A u \in told, v \in Accountable : v < u => v \in told
    /\ Settled' = Settled \cup told
SettlesSpeech == current # NoUtterance /\ ~failEmitted /\ Settled' = Settled \cup {current}

LEMMA SettledBy ==
  ASSUME terminals \in [Utterances -> Nat], NEW told \in SUBSET Utterances,
         terminals' = [u \in Utterances |-> IF u \in told THEN terminals[u] + 1 ELSE terminals[u]]
  PROVE  Settled' = Settled \cup told
BY DEF Settled

LEMMA StepSettles ==
  ASSUME TypeOK, HandsInv, ControlInv, DisownInv, QueueInv, DoomInv, OutcomeInv, FateInv, [Next]_vars
  PROVE  SettlesJobs \/ SettlesSpeech
<1>0. /\ terminals \in [Utterances -> Nat] /\ current \in Identities /\ accepted \subseteq Nat
      /\ accepted \subseteq Utterances /\ pending \subseteq Utterances
  BY UtteranceNumbers DEF TypeOK, EmitTypes, SpeechTypes, JobTypes
<1>1. CASE terminals' = terminals
  <2>1. Settled' = Settled \cup {}
    BY <1>1 DEF Settled
  <2> QED BY <2>1 DEF SettlesJobs
<1>2. ASSUME current # NoUtterance, ~failEmitted, terminals' = [terminals EXCEPT ![current] = @ + 1]
      PROVE  SettlesSpeech
  <2>1. current \in Utterances
    BY <1>0, <1>2 DEF Identities
  <2>2. Settled' = Settled \cup {current}
    BY <1>0, <1>2, <2>1 DEF Settled
  <2> QED BY <1>2, <2>2 DEF SettlesSpeech
<1>3. ASSUME NEW u \in pending, \A v \in pending : u <= v, terminals' = [terminals EXCEPT ![u] = @ + 1]
      PROVE  SettlesJobs
  <2>1. Doomed = {}
    BY <1>3, DoomedMeansDisowned DEF Disowned
  <2>2. u \in Accountable
    BY <1>0, <1>3 DEF QueueInv, OutcomeInv, Accountable, Settled
  <2>3. Settled' = Settled \cup {u}
    BY <1>0, <1>3 DEF Settled
  <2>4. ~Broken => \A v \in Accountable : ~(v < u)
    <3>1. ~Broken => Accountable \subseteq pending
      BY <2>1 DEF FateInv, Accountable
    <3> QED BY <1>0, <1>3, <2>2, <3>1 DEF Accountable
  <2> QED BY <2>2, <2>3, <2>4 DEF SettlesJobs
<1>4. ASSUME NEW jobs, jobs = Doomed, EmitFailures(jobs)
      PROVE  SettlesJobs
  <2>1. jobs \subseteq Accountable /\ jobs \subseteq Utterances
    BY <1>0, <1>4 DEF DoomInv, OutcomeInv, Accountable, Settled
  <2>2. Announced(jobs) \subseteq jobs
    BY DEF Announced
  <2>3. Settled' = Settled \cup Announced(jobs)
    BY <1>0, <1>4, <2>1, <2>2, SettledBy DEF EmitFailures
  <2>4. ~Broken /\ jobs # {} => Accountable \subseteq jobs
    BY <1>4, DoomedMeansDisowned DEF Disowned, FateInv, Accountable
  <2>5. ~Broken => \A u \in Announced(jobs), v \in Accountable : v < u => v \in Announced(jobs)
    BY <2>1, <2>2, <2>4, OldestFirst
  <2> QED BY <2>1, <2>2, <2>3, <2>5 DEF SettlesJobs
<1>5. ASSUME NEW k, NEW u, Tells(k, u), terminals' # terminals
      PROVE  u # NoUtterance /\ terminals' = [terminals EXCEPT ![u] = @ + 1] /\ k \in Outcomes
  BY <1>5 DEF Tells
<1>6. {"SPEECH_STARTED", "BACKPRESSURE", "TRANSCRIPT_PARTIAL", "STREAM_CLOSED", "TRANSCRIPT_FINAL"} \cap Outcomes = {}
  BY DEF Outcomes
<1>7. CASE terminals' # terminals
  <2>1. CASE Silent \/ BeginsSpeech \/ ComplainsOfPressure \/ ShowsPartial \/ TellsClosed
    BY <1>5, <1>6, <1>7, <2>1 DEF Silent, BeginsSpeech, ComplainsOfPressure, ShowsPartial, TellsClosed
  <2>2. CASE DismissesSpeech
    BY <1>2, <1>5, <1>7, <2>2 DEF DismissesSpeech, ControlInv, SilenceInv
  <2>3. CASE AnnouncesFailure
    BY <1>2, <1>5, <1>7, <2>3 DEF AnnouncesFailure
  <2>4. CASE ConcludesJob
    BY <1>3, <1>5, <1>6, <1>7, <2>4 DEF ConcludesJob
  <2>5. CASE DrainFailsJobs
    BY <1>4, <2>5 DEF DrainFailsJobs, Doomed, ControlInv, TerminationInv
  <2>6. CASE TerminationFails
    BY <1>4, <2>6 DEF TerminationFails, Doomed, DoomInv, ControlInv, TerminationInv
  <2> QED BY <2>1, <2>2, <2>3, <2>4, <2>5, <2>6, StepShows DEF SomethingShown
<1> QED BY <1>1, <1>7

(* The utterance being spoken is the only one that is undecided.             *)
Open == (1 .. sequence) \ (accepted \cup Settled)

LEMMA OpenIsSpoken ==
  ASSUME TypeOK, QueueInv, OutcomeInv, FateInv
  PROVE  /\ Open \subseteq {current} \ {NoUtterance}
         /\ current # NoUtterance /\ ~failEmitted => Open = {current}
         /\ Settled \subseteq 1 .. sequence
<1>1. sequence \in Nat /\ current \in Identities /\ Utterances \subseteq Nat \ {0} /\ terminals \in [Utterances -> Nat]
      /\ sequence \in Identities
  BY UtteranceNumbers DEF TypeOK, SpeechTypes, EmitTypes, Identities, NoUtterance
<1>2. Open \subseteq {current} \ {NoUtterance}
  BY <1>1 DEF Open, FateInv, NoUtterance
<1>3. ASSUME current # NoUtterance, ~failEmitted PROVE current \in Open
  <2>1. current = sequence /\ current \notin accepted /\ terminals[current] = 0
    BY <1>3 DEF QueueInv, OutcomeInv
  <2>2. current \in 1 .. sequence
    BY <1>1, <1>3, <2>1 DEF NoUtterance
  <2> QED BY <2>1, <2>2 DEF Open, Settled
<1>4. ASSUME NEW u \in Settled PROVE u \in 1 .. sequence
  <2>1. u \in Utterances /\ ~(u > sequence)
    BY <1>4 DEF Settled, OutcomeInv
  <2> QED BY <1>1, <2>1
<1> QED BY <1>2, <1>3, <1>4

(* A stream that closes has settled every utterance.                         *)
LEMMA ClosedIsSettled ==
  ASSUME TypeOK, ControlInv, ClientInv, FailureInv, FlushInv, DisownInv, QueueInv, DoomInv, OutcomeInv, FateInv,
         [Next]_vars, ~closed, closed', ~Broken'
  PROVE  ~Broken /\ Settled = 1 .. sequence /\ UNCHANGED <<sequence, accepted, terminals>>
<1>1. /\ Disowned /\ Doomed = {} /\ UNCHANGED <<speechVars, accepted, terminals>>
      /\ current = NoUtterance \/ failEmitted
  BY ClosesMeans
<1>2. ~Broken
  BY BrokenStays
<1>3. accepted \subseteq Settled
  BY <1>1, <1>2 DEF FateInv, Disowned
<1>4. \A u \in 1 .. sequence : u \in Settled
  <2>1. current # NoUtterance => current \in Settled
    BY <1>1, <1>2 DEF FateInv
  <2>2. \A u \in 1 .. sequence : u # NoUtterance
    BY DEF NoUtterance
  <2> QED BY <1>3, <2>1, <2>2 DEF FateInv
<1>5. Settled \subseteq 1 .. sequence
  BY OpenIsSpoken
<1> QED BY <1>1, <1>2, <1>4, <1>5 DEF speechVars

(* Every step is one of the contract, or leaves what it speaks of alone.     *)
LEMMA FateMoves ==
  ASSUME TypeOK, ControlInv, FailureInv, DisownInv, FateInv, [Next]_vars
  PROVE  \/ Fate = "closed" /\ Fate' = "closed" /\ UNCHANGED <<sequence, accepted, terminals>>
         \/ Fate = "open" /\ Fate' = "closed" /\ ~closed /\ closed' /\ ~Broken'
         \/ Fate # "closed" /\ (Fate' = Fate \/ Fate' = "broken")
<1>0. Fate = (IF Broken THEN "broken" ELSE IF closed THEN "closed" ELSE "open")
  BY DEF Fate, Broken
<1>1. Fate' = (IF Broken' THEN "broken" ELSE IF closed' THEN "closed" ELSE "open")
  BY DEF Fate, Broken
<1>2. CASE Broken
  <2>1. Broken'
    BY <1>2, BrokenStays
  <2> QED BY <1>0, <1>1, <1>2, <2>1
<1>3. CASE ~Broken /\ closed
  <2>1. ~Broken' /\ closed' /\ UNCHANGED <<sequence, accepted, terminals>>
    BY <1>3, ClosedRest
  <2> QED BY <1>0, <1>1, <1>3, <2>1
<1>4. CASE ~Broken /\ ~closed
  BY <1>0, <1>1, <1>4
<1> QED BY <1>2, <1>3, <1>4

LEMMA ContractMoves ==
  ASSUME TypeOK, HandsInv, ControlInv, DisownInv, QueueInv, DoomInv, OutcomeInv, FateInv, [Next]_vars
  PROVE  \/ /\ Open = {} /\ sequence < MaxUtterances /\ sequence' = sequence + 1
            /\ accepted' = accepted /\ Settled' = Settled
         \/ /\ Open # {} /\ accepted' = accepted \cup Open
            /\ sequence' = sequence /\ Settled' = Settled
         \/ /\ Open # {} /\ Settled' = Settled \cup Open
            /\ sequence' = sequence /\ accepted' = accepted
         \/ SettlesJobs /\ sequence' = sequence /\ accepted' = accepted
<1>1. /\ Open \subseteq {current} \ {NoUtterance}
      /\ current # NoUtterance /\ ~failEmitted => Open = {current}
  BY OpenIsSpoken
<1>2. ~Silenced => ~failEmitted
  BY DEF ControlInv, SilenceInv
<1>3. terminals' = terminals => Settled' = Settled
  BY DEF Settled
<1>4. CASE GoesOn
  <2>1. sequence' = sequence /\ accepted' = accepted
    BY <1>4, AcceptedOnly DEF GoesOn, Accepts
  <2> QED BY <1>1, <2>1, StepSettles DEF SettlesSpeech
<1>5. CASE Queues
  BY <1>1, <1>2, <1>3, <1>5 DEF Queues, emitVars
<1>6. CASE Dismisses
  <2>1. terminals' = [terminals EXCEPT ![current] = @ + 1] /\ current \in Utterances
    BY <1>6 DEF Dismisses, Tells, Outcomes, TypeOK, SpeechTypes, Identities
  <2>2. Settled' = Settled \cup {current}
    BY <2>1 DEF Settled, TypeOK, EmitTypes
  <2> QED BY <1>1, <1>2, <1>6, <2>2 DEF Dismisses, jobVars
<1>7. CASE Begins
  BY <1>1, <1>3, <1>7 DEF Begins
<1> QED BY <1>4, <1>5, <1>6, <1>7, SpeechGoes

-----------------------------------------------------------------------------
(* The invariant as a whole, and what it shows. *)

ContractInv == SafeInv /\ ClientInv /\ FailureInv /\ FlushInv /\ FateInv

LEMMA ContractInvStep ==
  ASSUME Shutdown = FALSE, ContractInv, [Next]_vars
  PROVE  ContractInv'
<1>1. TypeOK /\ JoinCountsJobs /\ ControlInv /\ DisownInv /\ QueueInv /\ DoomInv /\ OutcomeInv
  BY DEF ContractInv, SafeInv, JobsInv, Inv
<1>2. SafeInv' /\ ClientInv' /\ FailureInv'
  BY <1>1, SafeStep, ClientStep, FailureStep DEF ContractInv
<1>3. FlushInv' /\ FateInv'
  BY <1>1, FlushStep, FateStep DEF ContractInv
<1> QED BY <1>2, <1>3 DEF ContractInv

LEMMA ContractStep ==
  ASSUME ContractInv, [Next]_vars
  PROVE  [Contract!Next]_Contract!contractVars
<1>1. /\ TypeOK /\ HandsInv /\ ControlInv /\ DisownInv /\ QueueInv /\ DoomInv /\ OutcomeInv
      /\ ClientInv /\ FailureInv /\ FlushInv /\ FateInv
  BY DEF ContractInv, SafeInv, JobsInv, Inv
<1>2. terminals' = terminals => Settled' = Settled
  BY DEF Settled
<1>3. CASE Fate = "closed" /\ Fate' = "closed" /\ UNCHANGED <<sequence, accepted, terminals>>
  BY <1>2, <1>3 DEF Settled, Contract!contractVars
<1>4. CASE Fate = "open" /\ Fate' = "closed" /\ ~closed /\ closed' /\ ~Broken'
  <2>1. Settled = 1 .. sequence /\ UNCHANGED <<sequence, accepted, terminals>>
    BY <1>1, <1>4, ClosedIsSettled
  <2> QED BY <1>2, <1>4, <2>1 DEF Settled, Contract!Next, Contract!Close
<1>5. CASE Fate # "closed" /\ (Fate' = Fate \/ Fate' = "broken")
  <2>1. Contract!Stay \/ Contract!Break
    BY <1>5 DEF Contract!Stay, Contract!Break
  <2>2. Fate = "open" => ~Broken
    BY DEF Fate, Broken
  <2>3. Contract!Undecided = Open /\ Contract!Due = Accountable
    BY DEF Contract!Undecided, Contract!Due, Open, Accountable, Settled
  <2>4. CASE /\ Open = {} /\ sequence < MaxUtterances /\ sequence' = sequence + 1
             /\ accepted' = accepted /\ Settled' = Settled
    BY <1>5, <2>1, <2>3, <2>4 DEF Contract!Next, Contract!Begin, Settled
  <2>5. CASE /\ Open # {} /\ accepted' = accepted \cup Open
             /\ sequence' = sequence /\ Settled' = Settled
    BY <1>5, <2>1, <2>3, <2>5 DEF Contract!Next, Contract!Accept, Settled
  <2>6. CASE /\ Open # {} /\ Settled' = Settled \cup Open
             /\ sequence' = sequence /\ accepted' = accepted
    BY <1>5, <2>1, <2>3, <2>6 DEF Contract!Next, Contract!Dismiss, Settled
  <2>7. CASE SettlesJobs /\ sequence' = sequence /\ accepted' = accepted
    BY <1>5, <2>1, <2>2, <2>3, <2>7 DEF Contract!Next, Contract!Settle, SettlesJobs, Settled
  <2> QED BY <1>1, <2>4, <2>5, <2>6, <2>7, ContractMoves
<1> QED BY <1>1, <1>3, <1>4, <1>5, FateMoves

(* As long as the server does not shut down, a voice stream is to its client what the
   contract says, for every number of utterances and every capacity: one utterance
   after the other, at most one outcome for each, outcomes in the order of speech,
   and no utterance left behind by a stream that closes by itself (_start_utterance,
   _queue_finalization, _finalize_utterance, _finish_close, _terminate_stream).
   A shutdown breaks it: its CLOSE can overtake the client's flush.           *)
THEOREM StreamImplementsContract ==
  ASSUME Shutdown = FALSE
  PROVE  Spec => ImplementsContract
<1>1. Init => ContractInv
  BY InitInv, ControlInit, JobsInit, ClientInit, FailureInit, FateInit DEF ContractInv, SafeInv
<1>2. Init => Contract!Init
  BY DEF Init, Contract!Init, Fate
<1>3. Spec => []ContractInv
  BY <1>1, ContractInvStep, PTL DEF Spec
<1>4. Spec => Contract!Init /\ [][Contract!Next]_Contract!contractVars
  BY <1>2, <1>3, ContractStep, PTL DEF Spec
<1> QED BY <1>4 DEF ImplementsContract, Contract!Spec
=============================================================================
