--------------------------- MODULE VisionScheduler ---------------------------
(***************************************************************************)
(* ReceiptVisionScheduler of app/features/receipt/vision_scheduler.py: the *)
(* limiter every receipt Vision call of the process goes through. A call   *)
(* for a whole image takes a permit of the "total" semaphore; a call that  *)
(* recovers a region takes one of "recovery" first, so that recoveries     *)
(* alone cannot use up the provider.                                       *)
(*                                                                         *)
(* A call runs from one await to the next: it asks for a permit (the inner *)
(* task of wait_for), queues, is granted one by whoever releases it, goes  *)
(* on later, and may be cancelled or reach its deadline at any await. The  *)
(* same name may be used for one call after another, so the histories are  *)
(* unbounded. Calls that are refused, because the deadline has passed or   *)
(* pending is at its limit, change nothing. The max(0, ...) around the     *)
(* decrements never cuts anything off (PendingCountsCalls, CountersDrift). *)
(*                                                                         *)
(* A call that asks for a free permit while a waiter that has been woken   *)
(* has not run yet gets it here at once. In CPython 3.11 it queues, and    *)
(* the woken waiter passes the permit on to it as soon as it runs; nothing *)
(* but the moment of its Ask differs (AsyncSemaphore has both states).     *)
(***************************************************************************)
EXTENDS Integers, Sequences, FiniteSets

CONSTANTS
  Calls,         (* bound: calls that can be under way at once               *)
  MaxInFlight,   (* RECEIPT_VISION_MAX_IN_FLIGHT                             *)
  MaxRecovery,   (* RECEIPT_VISION_MAX_RECOVERY_IN_FLIGHT                    *)
  MaxPending,    (* RECEIPT_VISION_MAX_PENDING                               *)
  MaxLateStarts  (* bound: calls past their deadline at the last check       *)

(* What __init__ insists on.                                                 *)
ASSUME LimitAssumption ==
  /\ IsFiniteSet(Calls)
  /\ MaxInFlight \in Nat \ {0}
  /\ MaxRecovery \in 1 .. MaxInFlight
  /\ MaxPending \in Nat /\ MaxInFlight <= MaxPending
  /\ MaxLateStarts \in Nat

Kinds == {"WHOLE_IMAGE", "RECOVERY"}
Semaphores == {"recovery", "total"}
Limit == [s \in Semaphores |-> IF s = "total" THEN MaxInFlight ELSE MaxRecovery]

VARIABLES
  at,               (* where a call is: "new", the semaphore it is acquiring,
                       or "invoking"                                         *)
  kind,             (* what the call is for                                  *)
  value,            (* free permits of each semaphore                        *)
  queue,            (* its waiters, first come first served                  *)
  held,             (* the calls a permit has been granted to                *)
  pending,          (* _pending                                              *)
  active,           (* _active                                               *)
  activeRecoveries, (* _active_recoveries                                    *)
  lateStarts        (* calls ended by the last check so far                  *)

semVars == <<value, queue, held>>
countVars == <<active, activeRecoveries, lateStarts>>
vars == <<at, kind, semVars, pending, countVars>>

UnderWay == { c \in Calls : at[c] # "new" }
Invoking == { c \in Calls : at[c] = "invoking" }
Of(k, set) == { c \in set : kind[c] = k }
Queued(s) == { queue[s][i] : i \in DOMAIN queue[s] }

-----------------------------------------------------------------------------
(* Semaphores. *)

(* A call about to acquire s has neither queued nor been granted a permit.   *)
Asking(c, s) == at[c] = s /\ c \notin held[s] /\ c \notin Queued(s)
Granted(c, s) == at[c] = s /\ c \in held[s]

(* The semaphores with c's permits given back: the first waiter gets the
   permit, which only becomes free when nobody waits.                        *)
GiveBackTotalOnly(c, left) == (* mutant: the recovery permit is kept *)
  LET next(s) == IF queue[s] = <<>> THEN {} ELSE {Head(queue[s])}
      back == { s \in Semaphores \ {"recovery"} : c \in held[s] }
  IN /\ value' = [s \in Semaphores |->
                    IF s \in back /\ queue[s] = <<>> THEN value[s] + 1 ELSE value[s]]
     /\ held' = [s \in Semaphores |->
                   IF s \in back THEN (held[s] \ {c}) \cup next(s) ELSE held[s] \ {c}]
     /\ queue' = [s \in Semaphores |->
                    IF s \in back /\ queue[s] # <<>> THEN Tail(queue[s]) ELSE left[s]]
GiveBackUnnoticed(c, left) == (* mutant: release() wakes nobody *)
  LET back == { s \in Semaphores : c \in held[s] }
  IN /\ value' = [s \in Semaphores |->
                    IF s \in back THEN value[s] + 1 ELSE value[s]]
     /\ held' = [s \in Semaphores |-> held[s] \ {c}]
     /\ queue' = left
GiveBack(c, left) ==
  LET next(s) == IF queue[s] = <<>> THEN {} ELSE {Head(queue[s])}
      back == { s \in Semaphores : c \in held[s] }
  IN /\ value' = [s \in Semaphores |->
                    IF s \in back /\ queue[s] = <<>> THEN value[s] + 1 ELSE value[s]]
     /\ held' = [s \in Semaphores |->
                   IF s \in back THEN (held[s] \ {c}) \cup next(s) ELSE held[s]]
     /\ queue' = [s \in Semaphores |->
                    IF s \in back /\ queue[s] # <<>> THEN Tail(queue[s]) ELSE left[s]]

(* The waiters of each semaphore without c.                                  *)
Without(c, s) ==
  LET k == CHOOSE i \in DOMAIN queue[s] : queue[s][i] = c
  IN IF c \in Queued(s)
     THEN [i \in 1 .. Len(queue[s]) - 1 |-> queue[s][IF i < k THEN i ELSE i + 1]]
     ELSE queue[s]

FreeAlways(s) == queue[s] = <<>> (* mutant: the value is not looked at *)
Free(s) == value[s] > 0 /\ queue[s] = <<>>

(* acquire() in the inner task of wait_for.                                  *)
Ask(c) ==
  \E s \in Semaphores :
    /\ Asking(c, s)
    /\ IF Free(s)
       THEN /\ value' = [value EXCEPT ![s] = @ - 1]
            /\ held' = [held EXCEPT ![s] = @ \cup {c}]
            /\ UNCHANGED queue
       ELSE /\ queue' = [queue EXCEPT ![s] = Append(@, c)]
            /\ UNCHANGED <<value, held>>
    /\ UNCHANGED <<at, kind, pending, countVars>>

-----------------------------------------------------------------------------
(* The calls. *)

(* The outer finally: release the permits and leave.                         *)
UnwindKeepingPermits(c) == (* mutant: no release on the way out *)
  /\ queue' = [s \in Semaphores |-> Without(c, s)]
  /\ pending' = pending - 1
  /\ at' = [at EXCEPT ![c] = "new"]
  /\ UNCHANGED <<kind, value, held>>
Unwind(c) ==
  /\ GiveBack(c, [s \in Semaphores |-> Without(c, s)])
  /\ pending' = pending - 1
  /\ at' = [at EXCEPT ![c] = "new"]
  /\ UNCHANGED kind

FirstTotal(k) == "total" (* mutant: recoveries need no permit of their own *)
First(k) == IF k = "RECOVERY" THEN "recovery" ELSE "total"

MaySubmitOneMore == pending <= MaxPending (* mutant: off by one *)
MaySubmit == pending < MaxPending
Submit(c) ==
  /\ at[c] = "new" /\ MaySubmit
  /\ \E k \in Kinds : /\ kind' = [kind EXCEPT ![c] = k]
                      /\ at' = [at EXCEPT ![c] = First(k)]
  /\ pending' = pending + 1
  /\ UNCHANGED <<semVars, countVars>>

(* A recovery has its own permit and asks for one of the provider.           *)
Proceed(c) ==
  /\ Granted(c, "recovery")
  /\ at' = [at EXCEPT ![c] = "total"]
  /\ UNCHANGED <<kind, semVars, pending, countVars>>

Recovery(c) == IF kind[c] = "RECOVERY" THEN 1 ELSE 0

(* The provider is called.                                                   *)
Invoke(c) ==
  /\ Granted(c, "total")
  /\ at' = [at EXCEPT ![c] = "invoking"]
  /\ active' = active + 1
  /\ activeRecoveries' = activeRecoveries + Recovery(c)
  /\ UNCHANGED <<kind, semVars, pending, lateStarts>>

(* The deadline has passed since the permit was granted: the call has been
   counted as active, and the check that ends it stands before the try whose
   finally would count it out again.                                         *)
StartTooLate(c) ==
  /\ Granted(c, "total") /\ lateStarts < MaxLateStarts
  /\ active' = active + 1
  /\ activeRecoveries' = activeRecoveries + Recovery(c)
  /\ lateStarts' = lateStarts + 1
  /\ Unwind(c)

(* The call is cancelled or its deadline passes while it acquires; a permit
   it has already been granted goes back.                                    *)
GiveUp(c) ==
  /\ at[c] \in Semaphores
  /\ Unwind(c)
  /\ UNCHANGED countVars

(* The provider answers, fails, is timed out or cancelled.                   *)
FinishHalfCounted(c) == (* mutant: recoveries are not counted out *)
  /\ at[c] = "invoking"
  /\ active' = active - 1
  /\ Unwind(c)
  /\ UNCHANGED <<activeRecoveries, lateStarts>>
Finish(c) ==
  /\ at[c] = "invoking"
  /\ active' = active - 1
  /\ activeRecoveries' = activeRecoveries - Recovery(c)
  /\ Unwind(c)
  /\ UNCHANGED lateStarts

-----------------------------------------------------------------------------
Init ==
  /\ at = [c \in Calls |-> "new"]
  /\ kind = [c \in Calls |-> "WHOLE_IMAGE"]   \* read only while under way
  /\ value = Limit
  /\ queue = [s \in Semaphores |-> <<>>]
  /\ held = [s \in Semaphores |-> {}]
  /\ pending = 0 /\ active = 0 /\ activeRecoveries = 0 /\ lateStarts = 0

Next ==
  \E c \in Calls :
    \/ Submit(c) \/ Ask(c) \/ Proceed(c) \/ Invoke(c)
    \/ StartTooLate(c) \/ GiveUp(c) \/ Finish(c)

Spec == Init /\ [][Next]_vars

-----------------------------------------------------------------------------
(* Properties. *)

TypeOK ==
  /\ at \in [Calls -> {"new", "invoking"} \cup Semaphores]
  /\ kind \in [Calls -> Kinds]
  /\ value \in [Semaphores -> Nat]
  /\ queue \in [Semaphores -> Seq(Calls)]
  /\ held \in [Semaphores -> SUBSET Calls]
  /\ pending \in Int /\ active \in Int /\ activeRecoveries \in Int
  /\ lateStarts \in 0 .. MaxLateStarts

(* Whichever way calls end, no permit is lost and none is made up: a semaphore's
   free permits and the calls that hold one add up to its limit (run 101-141,
   asyncio.Semaphore under wait_for).                                        *)
PermitsConserved ==
  \A s \in Semaphores : value[s] + Cardinality(held[s]) = Limit[s]

(* Permits belong to calls: only a call that is past the semaphore, or about to
   go on from it, holds one, so the provider never sees more calls or more
   recoveries than the limits (the finally of run).                          *)
HoldersAreUnderWay ==
  /\ \A c \in Invoking : c \in held["total"]
  /\ \A c \in Of("RECOVERY", UnderWay) : at[c] # "recovery" => c \in held["recovery"]
  /\ held["recovery"] \subseteq Of("RECOVERY", UnderWay)
  /\ held["total"] \subseteq { c \in UnderWay : at[c] # "recovery" }

(* No wakeup is lost: nobody waits while a permit is free.                   *)
NoIdlePermit == \A s \in Semaphores : value[s] > 0 => queue[s] = <<>>

(* Recoveries leave capacity for whole images: one that waits for the provider
   waits behind another whole image, never behind recoveries alone, whatever the
   queue of recoveries (tests/test_receipt_vision_scheduler.py,
   test_two_crop_calls_leave_capacity_for_a_whole_image_call).               *)
WholeImageHasRoom ==
  MaxRecovery < MaxInFlight /\ Of("WHOLE_IMAGE", Queued("total")) # {}
    => Of("WHOLE_IMAGE", held["total"]) # {}

(* The bounded queue counts exactly the calls under way.                     *)
PendingCountsCalls ==
  pending = Cardinality(UnderWay) /\ pending <= MaxPending

(* The counters of the snapshot never report less than what is at the provider, and
   what they report too much are exactly the calls that the last check ended
   (run 108-110, 122-124, 132-135). tests/test_receipt_vision_scheduler.py:38 expects
   0 once all calls have ended, which is so until the first of those.        *)
CountersDrift ==
  LET recoveries == Cardinality(Of("RECOVERY", Invoking))
  IN /\ active = Cardinality(Invoking) + lateStarts
     /\ activeRecoveries \in recoveries .. recoveries + lateStarts

(* What run admits calls by and what the snapshot reports.                   *)
CountersFit == PendingCountsCalls /\ CountersDrift

(* The accounts of the scheduler: no number of free permits is negative, and permits,
   their holders and the counters agree at every moment, whichever way calls end
   (run 64-146).                                                             *)
Accounting == TypeOK /\ PermitsConserved /\ HoldersAreUnderWay /\ CountersFit
=============================================================================
