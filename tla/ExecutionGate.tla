---------------------------- MODULE ExecutionGate ----------------------------
(***************************************************************************)
(* Profile executions of app/api/internal/model_profile_execution.py: a    *)
(* gate admits a bounded number of requests, a semaphore lets some of them *)
(* at the provider. A plain request races its execution against the watch  *)
(* for its client's disconnect; a stream passes what a producer puts into  *)
(* a bounded queue on to its client.                                       *)
(*                                                                         *)
(* A response whose client is gone is cancelled by Starlette's cancel      *)
(* scope (anyio), which cancels again at every await until the response    *)
(* has ended. A refused request changes nothing and is not an action.      *)
(***************************************************************************)
EXTENDS AsyncSemaphore

CONSTANTS
  Requests,     (* bound: the requests admitted                              *)
  Concurrency,  (* NOVEL_MODEL_PROFILE_MAX_CONCURRENCY                       *)
  MaxQueue,     (* NOVEL_MODEL_PROFILE_MAX_QUEUE                             *)
  StreamQueue   (* places in a stream's queue: 32                            *)

GateAssumption ==
  /\ IsFiniteSet(Requests)
  /\ Concurrency \in Nat \ {0} /\ MaxQueue \in Nat /\ StreamQueue \in Nat \ {0}

VARIABLES
  stage,      (* of each request                                             *)
  kind,       (* plain or stream                                             *)
  work,       (* of its execution or producer task                           *)
  cancelled,  (* tasks cancelled that have not run since                     *)
  slots,      (* gate.slots                                                  *)
  admitted,   (* gate.admitted                                               *)
  gone,       (* the client has disconnected                                 *)
  observed,   (* the disconnected event of a plain request                   *)
  items       (* the queue of a stream                                       *)

clientVars == <<gone, observed>>
vars == <<stage, kind, work, cancelled, slots, admitted, clientVars, items>>

UnderWay == { c \in Requests : stage[c] \notin {"new", "done"} }
AtProvider == { c \in Requests : work[c] = "provider" }
Runs(c) == c \notin cancelled

To(var, c, v) == [var EXCEPT ![c] = v]

-----------------------------------------------------------------------------
(* Admission. *)

MayEnterOneMore == admitted <= Concurrency + MaxQueue (* mutant: off by one *)
MayEnter == admitted < Concurrency + MaxQueue

Admit(c) ==
  /\ stage[c] = "new" /\ MayEnter
  /\ admitted' = admitted + 1
  /\ \/ kind' = To(kind, c, "plain") /\ stage' = To(stage, c, "racing")
                                     /\ work' = To(work, c, "created")
     \/ kind' = To(kind, c, "stream") /\ stage' = To(stage, c, "returned")
                                      /\ UNCHANGED work
  /\ UNCHANGED <<cancelled, slots, clientVars, items>>

(* The response of a stream is sent: the generator runs up to its first yield
   and the next round creates the producer.                                  *)
Begin(c) ==
  /\ stage[c] = "returned"
  /\ stage' = To(stage, c, "streaming") /\ work' = To(work, c, "created")
  /\ UNCHANGED <<kind, cancelled, slots, admitted, clientVars, items>>

Disconnect(c) ==
  /\ c \in UnderWay /\ c \notin gone
  /\ gone' = gone \cup {c}
  /\ UNCHANGED <<stage, kind, work, cancelled, slots, admitted, observed, items>>

-----------------------------------------------------------------------------
(* The execution and the producer. *)

(* With a slot, an execution first lets the watcher run; a producer goes on. That
   no time is left for it is the same as a deadline that passes at once.     *)
Settled(c) == work' = To(work, c, IF kind[c] = "plain" THEN "yielding" ELSE "provider")

Ask(c) ==
  /\ work[c] = "created" /\ Runs(c)
  /\ slots' = Acquire(slots, c)
  /\ IF Locked(slots) THEN work' = To(work, c, "queued") ELSE Settled(c)
  /\ UNCHANGED <<stage, kind, cancelled, admitted, clientVars, items>>

Granted(c) ==
  /\ work[c] = "queued" /\ c \in slots.woken /\ Runs(c)
  /\ slots' = Resumed(slots, c)
  /\ Settled(c)
  /\ UNCHANGED <<stage, kind, cancelled, admitted, clientVars, items>>

(* Back from sleep(0): the execution goes to the provider unless the client is
   known to be gone or the deadline has passed.                              *)
MayExecuteAnyway(c) == TRUE (* mutant: the event is not looked at *)
MayExecute(c) == c \notin observed
Execute(c) ==
  /\ work[c] = "yielding" /\ Runs(c)
  /\ \/ MayExecute(c) /\ work' = To(work, c, "provider") /\ UNCHANGED slots
     \/ work' = To(work, c, "ended") /\ slots' = Release(slots, c)
  /\ UNCHANGED <<stage, kind, cancelled, admitted, clientVars, items>>

(* The provider has answered an execution, or failed it.                     *)
ExecutionEnds(c) ==
  /\ work[c] = "provider" /\ kind[c] = "plain" /\ Runs(c)
  /\ work' = To(work, c, "ended")
  /\ slots' = Release(slots, c)
  /\ UNCHANGED <<stage, kind, cancelled, admitted, clientVars, items>>

(* The producer puts a field, or the result, after which only the provider's
   stream is to be closed. With a full queue it waits.                       *)
HasRoom(c) == Len(items[c]) < StreamQueue
Put(c, item) == items' = [items EXCEPT ![c] = Append(@, item)]
Produce(c) ==
  /\ work[c] = "provider" /\ kind[c] = "stream" /\ Runs(c) /\ HasRoom(c)
  /\ \/ Put(c, "field") /\ UNCHANGED work
     \/ Put(c, "result") /\ work' = To(work, c, "closing")
  /\ UNCHANGED <<stage, kind, cancelled, slots, admitted, clientVars>>

(* The provider's stream is closed; or it, or the deadline, fails the producer,
   in the middle of a put as well. The slot is free before anything is put.  *)
LeaveSlotLate(c) == UNCHANGED slots (* mutant: the error is put with the slot held *)
LeaveSlot(c) == slots' = Release(slots, c)
ProducerLeaves(c) ==
  /\ work[c] \in {"provider", "closing"} /\ kind[c] = "stream" /\ Runs(c)
  /\ \/ work[c] = "closing" /\ work' = To(work, c, "finishing")
     \/ work' = To(work, c, "reporting")
  /\ LeaveSlot(c)
  /\ UNCHANGED <<stage, kind, cancelled, admitted, clientVars, items>>

(* The error event, and the mark of the end.                                 *)
Report(c) ==
  /\ work[c] = "reporting" /\ Runs(c) /\ HasRoom(c)
  /\ Put(c, "error") /\ work' = To(work, c, "finishing")
  /\ UNCHANGED <<stage, kind, cancelled, slots, admitted, clientVars>>
Finish(c) ==
  /\ work[c] = "finishing" /\ Runs(c) /\ HasRoom(c)
  /\ Put(c, "end") /\ work' = To(work, c, "ended")
  /\ UNCHANGED <<stage, kind, cancelled, slots, admitted, clientVars>>

(* CancelledError in the task: nothing is put any more.                      *)
Unwound(c) ==
  IF work[c] = "queued" THEN Abandon(slots, c)
  ELSE IF c \in slots.held THEN Release(slots, c) ELSE slots
WorkCancelled(c) ==
  /\ c \in cancelled
  /\ cancelled' = cancelled \ {c}
  /\ work' = To(work, c, "ended")
  /\ slots' = Unwound(c)
  /\ UNCHANGED <<stage, kind, admitted, clientVars, items>>

-----------------------------------------------------------------------------
(* The requests. *)

(* finally: the task is cancelled unless it has ended, and waited for.       *)
Cleanup(c) ==
  /\ stage' = To(stage, c, "cleaning")
  /\ cancelled' = cancelled \cup ({c} \ { d \in Requests : work[d] = "ended" })

(* watch_disconnect *)
Watch(c) ==
  /\ stage[c] = "racing" /\ c \in gone \ observed
  /\ observed' = observed \cup {c}
  /\ UNCHANGED <<stage, kind, work, cancelled, slots, admitted, gone, items>>

(* Either of the two has ended, or the deadline has passed.                  *)
RaceDecided(c) == work[c] = "ended" \/ c \in observed
RaceEnds(c) ==
  /\ stage[c] = "racing" /\ RaceDecided(c)
  /\ Cleanup(c)
  /\ UNCHANGED <<kind, work, slots, admitted, clientVars, items>>
OverdueNever(c) == FALSE (* mutant: no timeout around the race *)
Overdue(c) == ~RaceDecided(c)
DeadlinePasses(c) ==
  /\ stage[c] = "racing" /\ Overdue(c)
  /\ Cleanup(c)
  /\ UNCHANGED <<kind, work, slots, admitted, clientVars, items>>

(* events() takes an item and sends it; the mark of the end ends it.         *)
Send(c) ==
  /\ stage[c] = "streaming" /\ items[c] # <<>>
  /\ items' = [items EXCEPT ![c] = Tail(@)]
  /\ IF Head(items[c]) = "end" THEN Cleanup(c) ELSE UNCHANGED <<stage, cancelled>>
  /\ UNCHANGED <<kind, work, slots, admitted, clientVars>>

(* The cancelled response of a client that is gone: in events() itself, or in
   send(), whereupon events() is closed as garbage.                          *)
ResponseCancelled(c) ==
  /\ stage[c] = "streaming" /\ c \in gone
  /\ Cleanup(c)
  /\ UNCHANGED <<kind, work, slots, admitted, clientVars, items>>

(* The task is over.                                                         *)
CountedOutEarly(c) == work[c] # "created" (* mutant: the task is not waited for *)
CountedOut(c) == work[c] = "ended"
Cleaned(c) ==
  /\ stage[c] = "cleaning" /\ CountedOut(c)
  /\ stage' = To(stage, c, "done")
  /\ admitted' = admitted - 1
  /\ UNCHANGED <<kind, work, cancelled, slots, clientVars, items>>

(* The cancellation comes again while events() waits for the producer: the
   line after that is never reached. Or it comes before events() has begun,
   and there is nothing to leave.                                            *)
CleanupCancelled(c) ==
  /\ kind[c] = "stream" /\ stage[c] \in {"returned", "cleaning"} /\ c \in gone
  /\ stage[c] = "cleaning" => CountedOut(c)
  /\ stage' = To(stage, c, "done")
  /\ UNCHANGED <<kind, work, cancelled, slots, admitted, clientVars, items>>

-----------------------------------------------------------------------------
Init ==
  /\ stage = [c \in Requests |-> "new"]
  /\ kind = [c \in Requests |-> "plain"]   \* read only once it is admitted
  /\ work = [c \in Requests |-> "none"]
  /\ cancelled = {} /\ slots = Semaphore(Concurrency) /\ admitted = 0
  /\ gone = {} /\ observed = {}
  /\ items = [c \in Requests |-> <<>>]

(* Every request that could be admitted has been, and has ended.             *)
Rests == UnderWay = {} /\ UNCHANGED vars

Steps(c) ==
  \/ Admit(c) \/ Begin(c) \/ Disconnect(c)
  \/ Ask(c) \/ Granted(c) \/ Execute(c) \/ ExecutionEnds(c)
  \/ Produce(c) \/ ProducerLeaves(c) \/ Report(c) \/ Finish(c) \/ WorkCancelled(c)
  \/ Watch(c) \/ RaceEnds(c) \/ DeadlinePasses(c)
  \/ Send(c) \/ ResponseCancelled(c) \/ Cleaned(c) \/ CleanupCancelled(c)
Next == (\E c \in Requests : Steps(c)) \/ Rests

(* The event loop runs the tasks; deadlines pass. No provider need answer, no
   client read or disconnect.                                                *)
Fairness ==
  \A c \in Requests :
    /\ WF_vars(Ask(c)) /\ WF_vars(Granted(c)) /\ WF_vars(Execute(c))
    /\ WF_vars(ProducerLeaves(c)) /\ WF_vars(WorkCancelled(c))
    /\ WF_vars(RaceEnds(c)) /\ WF_vars(DeadlinePasses(c)) /\ WF_vars(Cleaned(c))

Spec == Init /\ [][Next]_vars
FairSpec == Spec /\ Fairness

-----------------------------------------------------------------------------
(* Properties. *)

TypeOK ==
  /\ stage \in [Requests -> {"new", "returned", "racing", "streaming", "cleaning", "done"}]
  /\ kind \in [Requests -> {"plain", "stream"}]
  /\ work \in [Requests -> {"none", "created", "queued", "yielding", "provider", "closing",
                            "reporting", "finishing", "ended"}]
  /\ cancelled \subseteq Requests /\ gone \subseteq Requests /\ observed \subseteq gone
  /\ slots \in Semaphores(Requests, Concurrency)
  /\ admitted \in 0 .. Concurrency + MaxQueue
  /\ \A c \in Requests : /\ items[c] \in Seq({"field", "result", "error", "end"})
                         /\ Len(items[c]) <= StreamQueue

(* A request under way is counted until its task has ended, so that the tasks there are
   never exceed what the gate admits (execute_profile 145-184, events 281-284). *)
AdmittedCovers ==
  /\ Cardinality(UnderWay) <= admitted
  /\ \A c \in Requests : work[c] \notin {"none", "ended"} => c \in UnderWay

(* However a request ends, at every await: the slots are those of the tasks between
   their acquire and their release, waiting or holding, and none is lost
   (execute 84-96, produce 227-249).                                         *)
SlotsAreTasks ==
  /\ Conserved(slots, Concurrency)
  /\ slots.held = { c \in Requests : work[c] \in {"yielding", "provider", "closing"} }
  /\ Waiters(slots) = { c \in Requests : work[c] = "queued" }

(* The accounts of the gate.                                                 *)
GateInv == TypeOK /\ AdmittedCovers /\ SlotsAreTasks

(* "A waiting request whose client is gone starts no paid execution when a slot becomes
   free" (tests/test_model_profile_execution.py:280): once seen, a disconnect wins over
   a slot, though the task that saw it has not cancelled the other yet (execute 84-88). *)
DisconnectWins ==
  [][ \A c \in Requests :
        work[c] # "provider" /\ work'[c] = "provider" => c \notin observed ]_vars

(* A slot comes back, also from a client that neither reads nor disconnects while the
   stream's queue is full, and from a provider that does not answer (produce 235), and
   every plain request ends (execute_profile 148-184). A request comes once, so that from
   some time on no slot is held and no plain request under way.              *)
RequestsEnd ==
  <>[](slots.held = {} /\ \A c \in UnderWay : kind[c] = "stream")

(* "The queue is finite and timeouts and cancellations remove who waits"
   (model_profile_execution.py:143): with no request under way the gate is empty. *)
GateEmpties == UnderWay = {} => admitted = 0
=============================================================================
