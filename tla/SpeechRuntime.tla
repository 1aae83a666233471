---------------------------- MODULE SpeechRuntime ----------------------------
(***************************************************************************)
(* FasterWhisperRuntime of app/features/speech_to_text/runtime.py: one warm *)
(* speech-to-text model behind a bounded priority queue and a few worker    *)
(* tasks, each of which waits for a native inference in a thread. Starts    *)
(* behind warm_up; ends with shutdown. The server shuts the runtime down    *)
(* when no request is left that could warm it up again, so the two do not   *)
(* overlap here.                                                            *)
(*                                                                          *)
(* A native inference cannot be interrupted: a caller that is cancelled or  *)
(* timed out leaves its inference, and the worker, running. A call that is  *)
(* refused changes nothing and is not an action.                            *)
(***************************************************************************)
EXTENDS Integers, Sequences, FiniteSets, SequencesExt

CONSTANTS
  Requests,       (* bound: the calls of transcribe                          *)
  Workers,        (* the worker tasks: AI_VOICE_STT_MAX_CONCURRENCY of them  *)
  QueueCapacity,  (* AI_VOICE_STT_QUEUE_CAPACITY                             *)
  NoRequest

(* config.py:154-156: the capacity is at least 2.                            *)
RuntimeAssumption ==
  /\ IsFiniteSet(Requests) /\ IsFiniteSet(Workers) /\ Workers # {}
  /\ QueueCapacity \in Nat \ {0, 1}
  /\ NoRequest \notin Requests

Priorities == {"FINAL", "STANDARD", "PARTIAL"}
Rank == [FINAL |-> 0, STANDARD |-> 5, PARTIAL |-> 10]

VARIABLES
  future,      (* what has become of each call's future                      *)
  priority,    (* the priority it was made with                              *)
  queue,       (* _queue, in the order of arrival                            *)
  unfinished,  (* its unfinished-task counter, which join() waits on         *)
  job,         (* the request each worker waits for                          *)
  gone,        (* workers that have ended                                    *)
  native,      (* requests whose inference runs in a thread                  *)
  active,      (* _active_inferences                                         *)
  cooling,     (* the clock is short of _partial_not_before                  *)
  runtime,     (* open, or how far its shutdown is                           *)
  overdue      (* the grace period of the shutdown has passed                *)

queueVars == <<queue, unfinished>>
workerVars == <<job, gone, native, active, cooling>>
endVars == <<runtime, overdue>>
speechVars == <<future, priority, queueVars, workerVars, endVars>>

Busy == { w \in Workers : job[w] # NoRequest }
Waiting(k) == { i \in DOMAIN queue : priority[queue[i]] \in k }
NotFinal == Priorities \ {"FINAL"}

-----------------------------------------------------------------------------
(* transcribe *)

PartialAvailableBehind == (* mutant: the queue is not looked at *)
  active < Cardinality(Workers) /\ ~cooling
PartialAvailable ==
  active < Cardinality(Workers) /\ queue = <<>> /\ ~cooling

(* The last place in the queue is kept for what is final.                    *)
LimitShared(p) == QueueCapacity (* mutant: no place reserved *)
LimitOneMore(p) == QueueCapacity + 1 (* mutant: off by one *)
Limit(p) == IF p = "FINAL" THEN QueueCapacity ELSE QueueCapacity - 1

Transcribe(r) ==
  /\ runtime = "open" /\ future[r] = "none"
  /\ \E p \in Priorities :
       /\ p = "PARTIAL" => PartialAvailable
       /\ Len(queue) < Limit(p)
       /\ priority' = [priority EXCEPT ![r] = p]
  /\ future' = [future EXCEPT ![r] = "pending"]
  /\ queue' = Append(queue, r)
  /\ unfinished' = unfinished + 1
  /\ UNCHANGED <<workerVars, endVars>>

(* The caller is cancelled or timed out; its request stays where it is.      *)
SlotFreed(r) == (* mutant: the slot follows the caller *)
  /\ active' = active - Cardinality({r} \cap native)
  /\ UNCHANGED <<job, gone, native, cooling>>
SlotKept(r) == UNCHANGED workerVars
CallerLeaves(r) ==
  /\ future[r] = "pending"
  /\ future' = [future EXCEPT ![r] = "cancelled"]
  /\ SlotKept(r)
  /\ UNCHANGED <<priority, queueVars, endVars>>

(* Partials may be inferred again.                                           *)
Cooled ==
  /\ cooling /\ cooling' = FALSE
  /\ UNCHANGED <<future, priority, queueVars, job, gone, native, active, endVars>>

-----------------------------------------------------------------------------
(* _worker *)

(* The most urgent request, and of those the oldest.                         *)
NextIndex ==
  CHOOSE i \in DOMAIN queue : \A j \in DOMAIN queue :
    \/ Rank[priority[queue[i]]] < Rank[priority[queue[j]]]
    \/ Rank[priority[queue[i]]] = Rank[priority[queue[j]]] /\ i <= j

TaskDoneForgotten == UNCHANGED unfinished (* mutant: continue skips task_done *)
TaskDone == unfinished' = unfinished - 1

(* A cancelled request is passed over; any other starts its inference.       *)
Take(w) ==
  /\ w \notin gone /\ job[w] = NoRequest /\ queue # <<>>
  /\ runtime \in {"open", "joining"}
  /\ queue' = RemoveAt(queue, NextIndex)
  /\ LET r == queue[NextIndex]
     IN IF future[r] = "cancelled"
        THEN TaskDone /\ UNCHANGED <<job, native, active>>
        ELSE /\ job' = [job EXCEPT ![w] = r]
             /\ native' = native \cup {r}
             /\ active' = active + 1
             /\ UNCHANGED unfinished
  /\ UNCHANGED <<future, priority, gone, cooling, endVars>>

(* _record_inference: a slow partial, or one nobody waits for any more, keeps
   partials away for a while.                                                *)
Record(r) ==
  cooling' \in IF priority[r] # "PARTIAL" THEN {cooling}
               ELSE IF future[r] = "cancelled" THEN {TRUE} ELSE {cooling, TRUE}

(* The inference returns or raises.                                          *)
Finish(w) ==
  /\ w \in Busy /\ runtime \in {"open", "joining"}
  /\ LET r == job[w]
     IN /\ future' \in { [future EXCEPT ![r] = IF @ = "pending" THEN result ELSE @] :
                           result \in {"answered", "failed"} }
        /\ native' = native \ {r}
        /\ Record(r)
  /\ job' = [job EXCEPT ![w] = NoRequest]
  /\ active' = active - 1
  /\ unfinished' = unfinished - 1
  /\ UNCHANGED <<priority, queue, gone, endVars>>

(* The inference of a worker that has ended returns to nobody.               *)
AbandonedEnds ==
  /\ \E r \in native \ { job[w] : w \in Busy } : native' = native \ {r}
  /\ UNCHANGED <<future, priority, queueVars, job, gone, active, cooling, endVars>>

-----------------------------------------------------------------------------
(* shutdown *)

ShutdownBegins ==
  /\ runtime = "open" /\ runtime' = "joining"
  /\ UNCHANGED <<future, priority, queueVars, workerVars, overdue>>

(* Everything queued has been inferred, or the grace period is over.         *)
JoinOverOnly == runtime = "joining" /\ unfinished = 0 (* mutant: no timeout *)
JoinOver == runtime = "joining"
JoinEnds ==
  /\ JoinOver /\ runtime' = "stopping"
  /\ \/ unfinished = 0 /\ UNCHANGED overdue
     \/ unfinished # 0 /\ overdue' = TRUE
  /\ UNCHANGED <<future, priority, queueVars, workerVars>>

(* CancelledError in a worker: the caller of its request sees it as well.    *)
DropUnanswered(w) == UNCHANGED future (* mutant: the future is forgotten *)
Drop(w) ==
  future' = IF job[w] = NoRequest THEN future
            ELSE [future EXCEPT ![job[w]] = IF @ = "pending" THEN "stopped" ELSE @]
WorkerStops(w) ==
  /\ runtime = "stopping" /\ w \notin gone
  /\ Drop(w)
  /\ gone' = gone \cup {w}
  /\ job' = [job EXCEPT ![w] = NoRequest]
  /\ IF w \in Busy THEN active' = active - 1 /\ unfinished' = unfinished - 1
                   ELSE UNCHANGED <<active, unfinished>>
  /\ UNCHANGED <<priority, queue, native, cooling, endVars>>

(* _fail_queued_requests *)
FailQueuedFinal == (* mutant: only what is final is failed *)
  { queue[i] : i \in Waiting({"FINAL"}) }
FailQueued == { queue[i] : i \in DOMAIN queue }
ShutdownCompletes ==
  /\ runtime = "stopping" /\ gone = Workers
  /\ runtime' = "closed"
  /\ future' = [r \in Requests |->
                  IF r \in FailQueued /\ future[r] = "pending" THEN "closed" ELSE future[r]]
  /\ queue' = <<>>
  /\ unfinished' = unfinished - Len(queue)
  /\ UNCHANGED <<priority, workerVars, overdue>>

-----------------------------------------------------------------------------
RuntimeInit ==
  /\ future = [r \in Requests |-> "none"]
  /\ priority = [r \in Requests |-> "STANDARD"]   \* read only once it is made
  /\ queue = <<>> /\ unfinished = 0
  /\ job = [w \in Workers |-> NoRequest] /\ gone = {}
  /\ native = {} /\ active = 0 /\ cooling = FALSE
  /\ runtime = "open" /\ overdue = FALSE

(* The runtime is idle or closed, and every call has been made.              *)
RuntimeRests ==
  /\ runtime = "closed" /\ native = {} /\ ~cooling
  /\ UNCHANGED speechVars

RuntimeNext ==
  \/ \E r \in Requests : Transcribe(r) \/ CallerLeaves(r)
  \/ \E w \in Workers : Take(w) \/ Finish(w) \/ WorkerStops(w)
  \/ Cooled \/ AbandonedEnds
  \/ ShutdownBegins \/ JoinEnds \/ ShutdownCompletes
  \/ RuntimeRests

(* The event loop runs the workers and the shutdown, whose wait has a grace
   period. Nobody needs to call, to leave or to shut down.                   *)
RuntimeFairness ==
  /\ \A w \in Workers : WF_speechVars(Take(w)) /\ WF_speechVars(WorkerStops(w))
  /\ WF_speechVars(JoinEnds) /\ WF_speechVars(ShutdownCompletes)

(* A native inference ends, which the shutdown does not rely on.             *)
InferencesEnd == \A w \in Workers : WF_speechVars(Finish(w))

RuntimeSpec == RuntimeInit /\ [][RuntimeNext]_speechVars

-----------------------------------------------------------------------------
(* Properties. *)

Futures == {"none", "pending", "answered", "failed", "cancelled", "stopped", "closed"}

RuntimeTypes ==
  /\ future \in [Requests -> Futures]
  /\ priority \in [Requests -> Priorities]
  /\ queue \in Seq(Requests) /\ Len(queue) <= QueueCapacity
  /\ unfinished \in Nat
  /\ job \in [Workers -> Requests \cup {NoRequest}] /\ gone \subseteq Workers
  /\ native \subseteq Requests /\ active \in Nat
  /\ cooling \in BOOLEAN /\ overdue \in BOOLEAN
  /\ runtime \in {"open", "joining", "stopping", "closed"}

(* There is always a place in the queue that only a final request can take, however
   many requests of cancelled callers are still in it (transcribe 197-201).  *)
FinalHasRoom == Cardinality(Waiting(NotFinal)) < QueueCapacity

(* Partials never wait behind one another: one is queued only for an inference
   that was free (transcribe 193-195).                                       *)
PartialsDoNotPile == Cardinality(Waiting({"PARTIAL"})) <= 1

(* Together: whatever callers do, the next final request is not kept out.    *)
QueueKeepsRoom == FinalHasRoom /\ PartialsDoNotPile

(* Until the shutdown stops them, the workers hold one slot for every native
   inference that runs, also for callers that have left, and the counter that
   keeps partials away counts exactly those (_worker 278-294).               *)
SlotsAreNative ==
  /\ active = Cardinality(Busy)
  /\ runtime \in {"open", "joining"} => native = { job[w] : w \in Busy }
  /\ Cardinality(native) <= Cardinality(Workers)

(* join() waits for exactly the requests queued or at a worker (_worker 295,
   _fail_queued_requests 372).                                               *)
JoinCountsRequests == unfinished = Len(queue) + Cardinality(Busy)

(* The accounts of the workers.                                              *)
WorkersAccountedFor == SlotsAreNative /\ JoinCountsRequests

(* A shutdown within the grace period has let every accepted call finish; and in
   any case it leaves no call without an answer (shutdown 231-242).          *)
ShutdownAnswers ==
  /\ runtime \in {"stopping", "closed"} /\ ~overdue
       => \A r \in Requests : future[r] \notin {"pending", "stopped", "closed"}
  /\ runtime = "closed" => \A r \in Requests : future[r] # "pending"

(* The runtime between two steps of any of its tasks: its queue, its workers, and the
   answers of its shutdown.                                                  *)
RuntimeInv == RuntimeTypes /\ QueueKeepsRoom /\ WorkersAccountedFor /\ ShutdownAnswers

(* Every accepted call returns if inferences end, as the calls are finitely many:
   a more urgent one always goes first (_worker 261-295).                    *)
CallsReturn ==
  InferencesEnd => <>[](\A r \in Requests : future[r] # "pending")

(* The shutdown ends even if an inference hangs (shutdown 231-242).          *)
RuntimeShutsDown == <>[](runtime \in {"open", "closed"})

(* Nobody waits for ever for the runtime.                                    *)
CallersReturn == CallsReturn /\ RuntimeShutsDown
=============================================================================
