--------------------------- MODULE CampaignLedger ---------------------------
(***************************************************************************)
(* The admission ledger of the live QA campaigns                           *)
(* (scripts/qa_campaign_budget.py and the provider wrappers of             *)
(* scripts/qa_campaign_audio_budget.py): a JSON file that several          *)
(* processes share, in which every provider call is reserved before it     *)
(* starts and settled when it ends. A process may be killed at any moment. *)
(*                                                                         *)
(* One amount stands for the dollars, tokens, characters and seconds that  *)
(* are limited alike. The sections under the file's lock are single steps. *)
(* What a process does between two suspensions of its event loop is not    *)
(* interleaved with its own other calls, only with the other processes.    *)
(***************************************************************************)
EXTENDS Integers, Sequences

CONSTANTS
  Processes,
  Calls,             \* the calls the processes make, each once
  Owner,             \* whose call it is
  Kind,              \* "text", "speech", "gemini" or "stt"
  StopsOnCancel,     \* the processes with stop_on_caller_cancel
  Starts,            \* LIMITS["starts"]
  Limit,             \* the limited amount
  RaisedLimit,       \* and what an amendment raises it to
  WallSeconds,
  ActiveSeconds,
  CallSeconds,
  Cost,              \* what a text, speech or stt call reserves
  ServiceAttempts,   \* GEMINI_SERVICE_ATTEMPTS
  NetworkAttempts,   \* GEMINI_NETWORK_ATTEMPTS
  AttemptCap,        \* what one attempt of Gemini may use
  MaxClock,          \* bound of the model
  None

Statuses == {"STARTED", "COMPLETED", "FAILED", "CANCELLED"}
Reasons == {"DEADLINE", "ACTIVE_TIME_LIMIT", "START_LIMIT", "RESERVATION_DENIED",
            "USAGE_EXCEEDED_RESERVATION", "CAP_EXCEEDED"}

ASSUME CampaignAssumption ==
  /\ Owner \in [Calls -> Processes]
  /\ Kind \in [Calls -> {"text", "speech", "gemini", "stt"}]
  /\ StopsOnCancel \subseteq Processes
  /\ {Starts, Limit, RaisedLimit, Cost, MaxClock} \subseteq Nat
  /\ {WallSeconds, ActiveSeconds, CallSeconds} \subseteq Nat \ {0}
  /\ {ServiceAttempts, NetworkAttempts, AttemptCap} \subseteq Nat \ {0}
  /\ RaisedLimit > Limit
  /\ None \notin Nat \cup Reasons \cup Statuses

VARIABLES
  ledger,      \* the file: its limit, stop reason, first live moment and calls
  receipts,    \* the receipt files of the audio calls
  now,
  runStop,     \* whether a process has a run_stop_reason, lost with it
  held,        \* the limits each process read when it opened the ledger
  at,          \* where each call is
  outcome,     \* the status it is about to be settled with
  charge,      \* and the usage that was observed, or None
  deadline,    \* of a call that is upstream: when, and whether it is the campaign's
  seen,        \* the receipts of Gemini's service attempts
  spent        \* what a call has really used so far

callVars == <<at, outcome, charge, deadline, seen, spent>>
vars == <<ledger, receipts, now, runStop, held, callVars>>

Ends == {"over"}
Waits == {"new", "queued", "upstream"}      \* the event loop runs others here
Audio == { c \in Calls : Kind[c] \in {"speech", "gemini"} }
Reserved(c) == IF Kind[c] = "gemini"
               THEN ServiceAttempts * NetworkAttempts * AttemptCap ELSE Cost

Sum(amounts) ==
  LET upTo[n \in 0 .. Len(amounts)] == IF n = 0 THEN 0 ELSE upTo[n - 1] + amounts[n]
  IN  upTo[Len(amounts)]
Charged(e) == IF e.accounted # None THEN e.accounted ELSE e.reserved
Charges(calls) == [i \in 1 .. Len(calls) |-> Charged(calls[i])]
Total(l) == Sum(Charges(l.calls))
Elapsed(e) == IF e.status = "STARTED" THEN now - e.started ELSE e.latency
Active(l) == Sum([i \in 1 .. Len(l.calls) |-> Elapsed(l.calls[i])])
RemainingActive(l) == IF Active(l) >= ActiveSeconds THEN 0 ELSE ActiveSeconds - Active(l)
RemainingSeconds(l) ==
  LET approved == IF l.first = None THEN WallSeconds
                  ELSE IF now - l.first >= WallSeconds THEN 0 ELSE WallSeconds - (now - l.first)
  IN  IF RemainingActive(l) < approved THEN RemainingActive(l) ELSE approved

(* A mismatch of the limits makes every read of the file raise.              *)
Readable(p) == held[p] = ledger.limit
Halted(l, reason) == IF l.stopped = None THEN [l EXCEPT !.stopped = reason] ELSE l
HaltRun(p) == [runStop EXCEPT ![p] = TRUE]
Move(c, place) == at' = [at EXCEPT ![c] = place]
(* The call's task has the event loop of its process.                        *)
HasLoop(c) == \A d \in Calls \ {c} : Owner[d] = Owner[c] => at[d] \in Waits \cup Ends
EntryOf(c) == CHOOSE i \in DOMAIN ledger.calls : ledger.calls[i].call = c
-----------------------------------------------------------------------------
(* check_campaign_admission: it passes, or it raises and may leave a halt. A
   task that still carries a cancellation is not admitted.                   *)
Stopped(p) == runStop[p] \/ ledger.stopped # None
Admissible(p) == Readable(p) /\ ~Stopped(p) /\ RemainingSeconds(ledger) > 0
AdmissionRefused(c, status) ==
  LET p == Owner[c] IN
  \/ /\ ~Readable(p) \/ Stopped(p)
     /\ status = "FAILED" /\ UNCHANGED <<ledger, runStop>>
  \/ /\ Readable(p) /\ ~Stopped(p) /\ RemainingSeconds(ledger) = 0
     /\ status = "FAILED" /\ ledger' = Halted(ledger, "DEADLINE") /\ UNCHANGED runStop
  \/ /\ Admissible(p)
     /\ status = "CANCELLED"
     /\ runStop' = IF p \in StopsOnCancel THEN HaltRun(p) ELSE runStop
     /\ UNCHANGED ledger

(* The check before the reservation; a call of Gemini then queues for the
   lock of its wrapper and checks again when it has it.                      *)
Admit(c) ==
  /\ at[c] = "new" /\ HasLoop(c)
  /\ \/ /\ Admissible(Owner[c])
        /\ Move(c, IF Kind[c] = "gemini" THEN "queued" ELSE "admitted")
        /\ UNCHANGED <<ledger, runStop>>
     \/ \E status \in Statuses : AdmissionRefused(c, status) /\ Move(c, "over")
  /\ UNCHANGED <<receipts, now, held, outcome, charge, deadline, seen, spent>>

LockFree(c) ==
  \A d \in Calls : Owner[d] = Owner[c] /\ Kind[d] = "gemini" =>
                   at[d] \in {"new", "queued"} \cup Ends
GetLock(c) ==
  /\ at[c] = "queued" /\ HasLoop(c) /\ LockFree(c)
  /\ \/ Admissible(Owner[c]) /\ Move(c, "admitted") /\ UNCHANGED <<ledger, runStop>>
     \/ \E status \in Statuses : AdmissionRefused(c, status) /\ Move(c, "over")
  /\ UNCHANGED <<receipts, now, held, outcome, charge, deadline, seen, spent>>

(* reserve: the first of the reasons that applies ends the campaign for all. *)
Entry(c) == [call |-> c, status |-> "STARTED", reserved |-> Reserved(c), accounted |-> None,
             started |-> now, latency |-> 0]
DeniedOwnOnly(c) == (* mutant: what is pending is not counted *)
  LET settled == SelectSeq(ledger.calls, LAMBDA e : e.accounted # None)
  IN  IF Sum(Charges(settled)) + Reserved(c) > ledger.limit THEN "RESERVATION_DENIED" ELSE None
Denied(c) ==
  CASE ledger.first # None /\ now - ledger.first >= WallSeconds -> "DEADLINE"
    [] RemainingActive(ledger) = 0 -> "ACTIVE_TIME_LIMIT"
    [] Len(ledger.calls) >= Starts -> "START_LIMIT"
    [] Total(ledger) + Reserved(c) > ledger.limit -> "RESERVATION_DENIED"
    [] OTHER -> None
StopSeenByRunOnly(p) == runStop[p] (* mutant: the stop of others is not read *)
StopSeen(p) == runStop[p] \/ ledger.stopped # None
Reserve(c) ==
  /\ at[c] = "admitted"
  /\ LET p == Owner[c] IN
     \/ (StopSeen(p) \/ ~Readable(p)) /\ Move(c, "over") /\ UNCHANGED ledger
     \/ ~StopSeen(p) /\ Readable(p) /\ Denied(c) # None
        /\ ledger' = [ledger EXCEPT !.stopped = Denied(c)] /\ Move(c, "over")
     \/ ~StopSeen(p) /\ Readable(p) /\ Denied(c) = None
        /\ ledger' = [ledger EXCEPT !.first = IF @ = None THEN now ELSE @,
                                    !.calls = Append(@, Entry(c))]
        /\ Move(c, IF c \in Audio THEN "reserved" ELSE "booked")
  /\ UNCHANGED <<receipts, now, runStop, held, outcome, charge, deadline, seen, spent>>

(* atomic_json gives up after four refusals: reserve raises, nothing changed. *)
ReserveNotWritten(c) ==
  /\ at[c] = "admitted" /\ Move(c, "over")
  /\ UNCHANGED <<ledger, receipts, now, runStop, held, outcome, charge, deadline, seen, spent>>

(* The receipt file of an audio call; if it cannot be written the call ends
   with its reservation pending.                                             *)
WriteReceipt(c) ==
  /\ at[c] = "reserved"
  /\ \/ receipts' = [receipts EXCEPT ![c] = "STARTED"] /\ Move(c, "booked")
     \/ UNCHANGED receipts /\ Move(c, "over")
  /\ UNCHANGED <<ledger, now, runStop, held, outcome, charge, deadline, seen, spent>>
-----------------------------------------------------------------------------
(* campaign_call_boundary: admission is checked twice more, then the provider
   is called with the smaller of the two time limits.                        *)
Enter(c) ==
  /\ at[c] = "booked"
  /\ \/ /\ Admissible(Owner[c]) /\ Move(c, "upstream")
        /\ LET left == RemainingSeconds(ledger) IN
           deadline' = [deadline EXCEPT ![c] =
             [at |-> now + (IF left < CallSeconds THEN left ELSE CallSeconds),
              campaign |-> left <= CallSeconds]]
        /\ UNCHANGED <<ledger, runStop, outcome>>
     \/ /\ \E status \in Statuses :
             AdmissionRefused(c, status) /\ outcome' = [outcome EXCEPT ![c] = status]
        /\ Move(c, "settling") /\ UNCHANGED deadline
  /\ UNCHANGED <<receipts, now, held, charge, seen, spent>>

(* Gemini's service tries again by itself; each of its attempts is captured.
   An attempt whose usage is not reported counts as unknown. One attempt more
   than was reserved for is refused and fails the call.                      *)
ServiceAttempt(c) ==
  /\ Kind[c] = "gemini" /\ at[c] = "upstream" /\ HasLoop(c) /\ Len(seen[c]) < ServiceAttempts
  /\ \E use \in 1..AttemptCap, reported \in BOOLEAN :
       /\ seen' = [seen EXCEPT ![c] = Append(@, IF reported THEN use ELSE None)]
       /\ spent' = [spent EXCEPT ![c] = @ + NetworkAttempts * use]
  /\ UNCHANGED <<ledger, receipts, now, runStop, held, at, outcome, charge, deadline>>

(* The usage with which a call that returned is settled. The speech response
   has no receipt, local recognition costs what was reserved.                *)
GeminiCharge(c) ==
  IF seen[c] = <<>> \/ \E i \in DOMAIN seen[c] : seen[c][i] = None THEN None
  ELSE NetworkAttempts * Sum(seen[c])
Settles(c, status, usage) ==
  /\ Move(c, "settling")
  /\ outcome' = [outcome EXCEPT ![c] = status]
  /\ charge' = [charge EXCEPT ![c] = usage]
  /\ deadline' = [deadline EXCEPT ![c] = None] /\ seen' = [seen EXCEPT ![c] = <<>>]
Returns(c) ==
  /\ at[c] = "upstream" /\ HasLoop(c)
  /\ \/ /\ Kind[c] = "text"
        /\ \/ \E use \in 1..(Cost + 1) :
                Settles(c, "COMPLETED", use) /\ spent' = [spent EXCEPT ![c] = use]
           \/ Settles(c, "COMPLETED", None) /\ spent' = [spent EXCEPT ![c] = Cost]
     \/ /\ Kind[c] \in {"speech", "stt"}
        /\ Settles(c, "COMPLETED", IF Kind[c] = "stt" THEN Cost ELSE None)
        /\ spent' = [spent EXCEPT ![c] = Cost]
     \/ Kind[c] = "gemini" /\ Settles(c, "COMPLETED", GeminiCharge(c)) /\ UNCHANGED spent
  /\ UNCHANGED <<ledger, receipts, now, runStop, held>>

(* What a call has used when nobody learns of it: at worst all it reserved.  *)
UsedUnseen(c) == spent' = [spent EXCEPT ![c] = IF Kind[c] = "gemini" THEN @ ELSE Cost]
Fails(c) ==
  /\ at[c] = "upstream" /\ HasLoop(c)
  /\ Settles(c, "FAILED", None) /\ UsedUnseen(c)
  /\ UNCHANGED <<ledger, receipts, now, runStop, held>>

(* The deadline expires, also when the provider swallows the cancellation and
   returns late: the campaign is halted, or only this run.                   *)
NeverExpires(c) == FALSE (* mutant: a provider that swallows it is waited for *)
Expired(c) == now >= deadline[c].at
DeadlinePasses(c) ==
  /\ at[c] = "upstream" /\ HasLoop(c) /\ Expired(c)
  /\ Settles(c, "FAILED", None) /\ UsedUnseen(c)
  /\ IF deadline[c].campaign
     THEN /\ ledger' = (IF Readable(Owner[c]) THEN Halted(ledger, "DEADLINE") ELSE ledger)
          /\ UNCHANGED runStop
     ELSE runStop' = HaltRun(Owner[c]) /\ UNCHANGED ledger
  /\ UNCHANGED <<receipts, now, held>>

(* The caller cancels: in the queue for the lock it has reserved nothing; upstream
   it does not matter whether the provider swallows the cancellation. A keyboard
   interrupt stops the run whatever stop_on_caller_cancel says.              *)
Cancel(c) ==
  /\ at[c] \in {"queued", "upstream"} /\ HasLoop(c)
  /\ \/ at[c] = "queued" /\ Move(c, "over")
        /\ UNCHANGED <<outcome, charge, deadline, seen, spent, runStop>>
     \/ /\ at[c] = "upstream"
        /\ Settles(c, "CANCELLED", None) /\ UsedUnseen(c)
        /\ \E interrupt \in BOOLEAN :
             runStop' = IF interrupt \/ Owner[c] \in StopsOnCancel
                        THEN HaltRun(Owner[c]) ELSE runStop
  /\ UNCHANGED <<ledger, receipts, now, held>>
-----------------------------------------------------------------------------
(* finish: the entry is settled once, and the campaign stops when the call used
   more than it had reserved or all calls together more than is allowed.     *)
Overrun(e, l) ==
  LET within == IF e.accounted # None /\ e.accounted > e.reserved
                THEN Halted(l, "USAGE_EXCEEDED_RESERVATION") ELSE l
  IN  IF Total(l) > l.limit THEN Halted(within, "CAP_EXCEEDED") ELSE within
Over(c) ==
  /\ Move(c, "over")
  /\ outcome' = [outcome EXCEPT ![c] = None] /\ charge' = [charge EXCEPT ![c] = None]
Finish(c) ==
  /\ at[c] = "settling"
  /\ \/ /\ Readable(Owner[c])
        /\ LET i == EntryOf(c)
               e == [ledger.calls[i] EXCEPT !.status = outcome[c], !.accounted = charge[c],
                                            !.latency = now - ledger.calls[i].started]
           IN  ledger' = Overrun(e, [ledger EXCEPT !.calls[i] = e])
        /\ IF c \in Audio THEN Move(c, "settled") /\ UNCHANGED <<outcome, charge>> ELSE Over(c)
     \/ UNCHANGED ledger /\ Over(c)              \* the file is not written, or not read
  /\ UNCHANGED <<receipts, now, runStop, held, deadline, seen, spent>>

FinishReceipt(c) ==
  /\ at[c] = "settled"
  /\ receipts' = [receipts EXCEPT ![c] = outcome[c]] \/ UNCHANGED receipts
  /\ Over(c)
  /\ UNCHANGED <<ledger, now, runStop, held, deadline, seen, spent>>
-----------------------------------------------------------------------------
(* The process is killed; whoever comes after it opens the ledger anew.      *)
InFlight(p) == { c \in Calls : Owner[c] = p /\ at[c] \notin {"new"} \cup Ends }
Restart(p) ==
  /\ InFlight(p) # {} \/ ~Readable(p) \/ runStop[p]
  /\ at' = [c \in Calls |-> IF c \in InFlight(p) THEN "over" ELSE at[c]]
  /\ spent' = [c \in Calls |-> IF c \in InFlight(p) /\ at[c] = "upstream" /\ Kind[c] # "gemini"
                               THEN Cost ELSE spent[c]]
  /\ outcome' = [c \in Calls |-> IF c \in InFlight(p) THEN None ELSE outcome[c]]
  /\ charge' = [c \in Calls |-> IF c \in InFlight(p) THEN None ELSE charge[c]]
  /\ deadline' = [c \in Calls |-> IF c \in InFlight(p) THEN None ELSE deadline[c]]
  /\ seen' = [c \in Calls |-> IF c \in InFlight(p) THEN <<>> ELSE seen[c]]
  /\ runStop' = [runStop EXCEPT ![p] = FALSE]
  /\ held' = [held EXCEPT ![p] = ledger.limit]
  /\ UNCHANGED <<ledger, receipts, now>>

(* amend: raises the limit of a ledger that is not stopped and has no call
   under way. Processes that have it open no longer fit.                     *)
Amendable == \A i \in DOMAIN ledger.calls : ledger.calls[i].status # "STARTED"
Amend ==
  /\ ledger.limit = Limit /\ ledger.stopped = None
  /\ Amendable /\ Total(ledger) < RaisedLimit
  /\ ledger' = [ledger EXCEPT !.limit = RaisedLimit]
  /\ UNCHANGED <<receipts, now, runStop, held, callVars>>

(* Time matters once the campaign has begun.                                 *)
Tick ==
  /\ ledger.first # None /\ now < MaxClock /\ now' = now + 1
  /\ UNCHANGED <<ledger, receipts, runStop, held, callVars>>
-----------------------------------------------------------------------------
Init ==
  /\ ledger = [limit |-> Limit, stopped |-> None, first |-> None, calls |-> <<>>]
  /\ receipts = [c \in Calls |-> None]
  /\ now = 0
  /\ runStop = [p \in Processes |-> FALSE]
  /\ held = [p \in Processes |-> Limit]
  /\ at = [c \in Calls |-> "new"]
  /\ outcome = [c \in Calls |-> None]
  /\ charge = [c \in Calls |-> None]
  /\ deadline = [c \in Calls |-> None]
  /\ seen = [c \in Calls |-> <<>>]
  /\ spent = [c \in Calls |-> 0]

Step(c) ==
  \/ GetLock(c) \/ Reserve(c) \/ ReserveNotWritten(c) \/ WriteReceipt(c) \/ Enter(c)
  \/ DeadlinePasses(c) \/ Finish(c) \/ FinishReceipt(c)
Next ==
  \/ \E c \in Calls : Admit(c) \/ Step(c) \/ ServiceAttempt(c) \/ Returns(c) \/ Fails(c) \/ Cancel(c)
  \/ \E p \in Processes : Restart(p)
  \/ Amend \/ Tick

Spec == Init /\ [][Next]_vars
(* Code runs on, the clock goes on, and timeouts fire. A provider may never
   answer and nobody need cancel.                                            *)
FairSpec == Spec /\ WF_vars(Tick) /\ \A c \in Calls : WF_vars(Step(c))
-----------------------------------------------------------------------------
(* The values the variables take; a call has one entry at most.              *)
TypeOK ==
  /\ ledger.limit \in {Limit, RaisedLimit} /\ ledger.stopped \in Reasons \cup {None}
  /\ ledger.first \in 0..MaxClock \cup {None}
  /\ \A i, j \in DOMAIN ledger.calls : ledger.calls[i].call = ledger.calls[j].call => i = j
  /\ \A i \in DOMAIN ledger.calls : ledger.calls[i].status \in Statuses
  /\ receipts \in [Calls -> Statuses \cup {None}]
  /\ runStop \in [Processes -> BOOLEAN]
  /\ held \in [Processes -> {Limit, RaisedLimit}]
  /\ at \in [Calls -> Waits \cup Ends \cup
                      {"admitted", "reserved", "booked", "settling", "settled"}]
  /\ now \in 0..MaxClock /\ spent \in [Calls -> Nat]

(* The provider is entered only for a call that is booked as started, and
   whatever has been used, also by calls that were killed, timed out or whose
   usage was never reported, is charged to the ledger, or stays charged with all
   that was reserved.                                                        *)
Booked == \A c \in Calls : at[c] \in {"upstream", "booked", "settling"} =>
  \E i \in DOMAIN ledger.calls : ledger.calls[i].call = c /\ ledger.calls[i].status = "STARTED"
Conservative == \A c \in Calls : spent[c] > 0 =>
  \E i \in DOMAIN ledger.calls :
     LET e == ledger.calls[i] IN
     /\ e.call = c
     /\ (spent[c] <= Charged(e)) \/ (e.status = "STARTED" /\ Charged(e) = Reserved(c))

(* As long as no stop is recorded, charges and starts are within the limits. *)
WithinLimits ==
  ledger.stopped = None => Total(ledger) <= ledger.limit /\ Len(ledger.calls) <= Starts

(* A receipt never says more than the ledger: it is final only after its entry. *)
ReceiptFollowsEntry == \A c \in Audio : receipts[c] \notin {None, "STARTED"} =>
  \E i \in DOMAIN ledger.calls : ledger.calls[i].call = c /\ ledger.calls[i].status = receipts[c]

Inv == TypeOK /\ Booked /\ Conservative /\ WithinLimits /\ ReceiptFollowsEntry

(* reserve, finish, halt: a stop recorded in the file is final for every process,
   across restarts: no call is booked after it and its reason stays. Entries are
   never dropped, reopened or repriced.                                      *)
StopIsFinal ==
  [][/\ ledger.stopped # None => /\ ledger'.stopped = ledger.stopped
                                 /\ Len(ledger'.calls) = Len(ledger.calls)
     /\ \A i \in DOMAIN ledger.calls :
          /\ i \in DOMAIN ledger'.calls
          /\ ledger'.calls[i].reserved = ledger.calls[i].reserved
          /\ ledger.calls[i].status # "STARTED" => ledger'.calls[i] = ledger.calls[i]]_vars

(* campaign_call_boundary: every call that got as far as the provider is let go
   of again, whatever the provider does.                                     *)
UpstreamEnds == \A c \in Calls : at[c] = "upstream" ~> at[c] \in Ends
=============================================================================
