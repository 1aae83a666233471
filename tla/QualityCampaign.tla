--------------------------- MODULE QualityCampaign ---------------------------
(***************************************************************************)
(* The budget of the novel quality campaign                                *)
(* (scripts/novel_quality_verification.py) and the executors that spend it *)
(* (scripts/novel_quality_server.py). Several processes share one ledger   *)
(* and the locks of the provider slots; each may be killed at any moment.  *)
(*                                                                         *)
(* A call takes a slot, is reserved in the ledger, goes to the provider    *)
(* and is settled. Exploration leaves a reserve for the final phases. A    *)
(* process may be bound to a stage: an admission file, made once by an     *)
(* operator (external), with the hash of the calls before it, a budget and *)
(* the phase it is for. As in CampaignLedger, one amount stands for the    *)
(* dollars and the tokens; deadlines are left to that module.              *)
(***************************************************************************)
EXTENDS Integers, Sequences, FiniteSets

CONSTANTS
  Processes,
  Staged,        \* the processes that are started with a stage's admission
  Calls,         \* the calls the processes make, each once
  Owner,         \* whose call it is
  Kind,          \* "profile" (and explicit legacy), "live" (and legacy tasks) or "speech"
  Phase,         \* "explore", "final" or "tts"
  StagePhases,   \* the phases of the stage
  Maximum,       \* of a process: how many of the slots it looks at
  Cost,          \* what a call reserves
  MaxStarts, Limit, \* LIMITS
  ExploreStarts, ExploreLimit, \* PHASE_LIMITS
  StageStarts, StageLimit, Protected, \* of the admission
  Nothing        \* no amount, slot or admission

ASSUME QualityAssumption ==
  /\ Owner \in [Calls -> Processes] /\ Maximum \in [Processes -> Nat]
  /\ {Cost, MaxStarts, Limit, ExploreStarts, ExploreLimit, StageStarts, StageLimit, Protected} \subseteq Nat
  /\ Nothing \notin Nat

VARIABLES
  ledger,     \* its stop reason and its calls
  admission,  \* the file of the stage
  open,       \* the processes that run
  callAt,     \* where each call is
  slot,       \* the slot it holds
  used        \* what it has used at the provider, whoever learns of it

qualityVars == <<ledger, admission, open, callAt, slot, used>>

Charged(e) == IF e.accounted # Nothing THEN e.accounted ELSE e.reserved
(* What a part of the calls, given by their places in the ledger, comes to.  *)
Amounts(calls, part) ==
  [i \in 1 .. Len(calls) |-> IF i \in part THEN Charged(calls[i]) ELSE 0]
Sum(amounts) ==
  LET upTo[n \in 0 .. Len(amounts)] == IF n = 0 THEN 0 ELSE upTo[n - 1] + amounts[n]
  IN  upTo[Len(amounts)]
Total(calls, part) == Sum(Amounts(calls, part))
All(calls) == 1 .. Len(calls)
Final(c) == Phase[c] \in {"final", "tts"}
Exploring(calls) == { i \in All(calls) : ~Final(calls[i].call) }
Entry(c, staged) ==
  [call |-> c, status |-> "STARTED", reserved |-> Cost, accounted |-> Nothing, staged |-> staged, noted |-> FALSE]
EntryOf(c) == CHOOSE i \in DOMAIN ledger.calls : ledger.calls[i].call = c
Has(c, place) == callAt[c] = place /\ Owner[c] \in open
Move(c, place) == callAt' = [callAt EXCEPT ![c] = place]
Leaves(c) == Move(c, "over") /\ slot' = [slot EXCEPT ![c] = Nothing]
-----------------------------------------------------------------------------
(* provider_slot: the first of its locks that is free. Text waits for one, speech
   does not.                                                                      *)
Free(p) == { n \in 1 .. Maximum[p] : \A d \in Calls : slot[d] # n }
Acquire(c) ==
  /\ Has(c, "new") /\ Free(Owner[c]) # {}
  /\ slot' = [slot EXCEPT ![c] = CHOOSE n \in Free(Owner[c]) : \A m \in Free(Owner[c]) : n <= m]
  /\ Move(c, "slotted")
  /\ UNCHANGED <<ledger, admission, open, used>>
TurnAway(c) ==
  /\ Has(c, "new") /\ Kind[c] = "speech" /\ Free(Owner[c]) = {}
  /\ Move(c, "over") /\ UNCHANGED <<ledger, admission, open, slot, used>>
CancelWait(c) ==
  /\ Has(c, "new") /\ Kind[c] # "speech" /\ Move(c, "over")
  /\ UNCHANGED <<ledger, admission, open, slot, used>>
-----------------------------------------------------------------------------
(* _stage_budget: the calls before the stage are those that were approved, all of
   them ended, and all since are the stage's own.                                   *)
Prior == SubSeq(ledger.calls, 1, admission.start)
Since == admission.start + 1 .. Len(ledger.calls)
AnyForeign == TRUE   (* mutant: whose the calls since the boundary are is not looked at *)
OnlyOwn == \A i \in Since : ledger.calls[i].staged
StageStands ==
  /\ admission # Nothing /\ Prior = admission.prior
  /\ \A i \in DOMAIN Prior : Prior[i].status # "STARTED"
  /\ OnlyOwn
(* reserve: what the stage refuses stops nobody else.                                *)
StageFitsAlone(c) ==   (* mutant: what others still need is not kept for them *)
  /\ Phase[c] \in StagePhases /\ (Kind[c] = "speech") = (Phase[c] = "tts")
  /\ Cardinality(Since) + 1 <= StageStarts
  /\ Total(ledger.calls, Since) + Cost <= StageLimit
StageFits(c) ==
  /\ Phase[c] \in StagePhases /\ (Kind[c] = "speech") = (Phase[c] = "tts")
  /\ Cardinality(Since) + 1 <= StageStarts
  /\ Total(ledger.calls, Since) + Cost <= StageLimit
  /\ Total(ledger.calls, All(ledger.calls)) + Cost + Protected <= Limit
SettledAlone(c) ==   (* mutant: calls whose usage is not known are left out *)
  LET settled == { i \in Exploring(ledger.calls) : ledger.calls[i].accounted # Nothing }
  IN  Total(ledger.calls, settled) + Cost <= ExploreLimit
LeavesFinalReserve(c) == Final(c) \/
  /\ Cardinality(Exploring(ledger.calls)) + 1 <= ExploreStarts
  /\ Total(ledger.calls, Exploring(ledger.calls)) + Cost <= ExploreLimit
Allowed(c) ==
  /\ Owner[c] \in Staged => StageStands /\ StageFits(c)
  /\ LeavesFinalReserve(c)
Denied ==
  Len(ledger.calls) >= MaxStarts \/ Total(ledger.calls, All(ledger.calls)) + Cost > Limit

Reserve(c) ==
  /\ Has(c, "slotted")
  /\ \/ /\ ~Allowed(c) \/ ledger.stopped
        /\ Leaves(c) /\ UNCHANGED ledger
     \/ /\ Allowed(c) /\ ~ledger.stopped /\ Denied
        /\ ledger' = [ledger EXCEPT !.stopped = TRUE] /\ Leaves(c)
     \/ /\ Allowed(c) /\ ~ledger.stopped /\ ~Denied
        /\ ledger' = [ledger EXCEPT !.calls = Append(@, Entry(c, Owner[c] \in Staged))]
        /\ Move(c, "upstream") /\ UNCHANGED slot
  /\ UNCHANGED <<admission, open, used>>
-----------------------------------------------------------------------------
(* The provider is called once, without retries, and answers with its usage, which
   may be more than was reserved; of speech, and of a response without a receipt, it
   is not known.                                                                      *)
Answers(c) ==
  /\ Has(c, "upstream")
  /\ \E use \in 1 .. Cost + 1 : used' = [used EXCEPT ![c] = IF Kind[c] = "speech" THEN Cost ELSE use]
  /\ Move(c, "answered") /\ UNCHANGED <<ledger, admission, open, slot>>

(* finish, once: the campaign stops when a call used more than it had reserved, or
   all of them more than is allowed.                                                  *)
Overrun(entry) == entry.accounted # Nothing /\ entry.accounted > entry.reserved
Finished(c, status, usage) ==
  LET entry == [ledger.calls[EntryOf(c)] EXCEPT !.status = status, !.accounted = usage]
      calls == [ledger.calls EXCEPT ![EntryOf(c)] = entry]
  IN  ledger' = [ledger EXCEPT !.calls = calls,
                               !.stopped = @ \/ Overrun(entry) \/ Total(calls, All(calls)) > Limit]
SettleProfile(c) ==
  /\ Kind[c] = "profile"
  /\ \/ Finished(c, "COMPLETED", used[c])
     \/ Finished(c, "FAILED", Nothing)      \* another model answered, or the answer is no good
     \/ UNCHANGED ledger                 \* the usage of a stream cannot be priced
SettleLive(c) ==
  /\ Kind[c] = "live"
  /\ Finished(c, "COMPLETED", used[c]) \/ Finished(c, "COMPLETED", Nothing) \/ Finished(c, "FAILED", Nothing)
SettleSpeech(c) ==
  Kind[c] = "speech" /\ (Finished(c, "COMPLETED", Nothing) \/ Finished(c, "FAILED", Nothing))
Settle(c) ==
  /\ Has(c, "answered") /\ (SettleProfile(c) \/ SettleLive(c) \/ SettleSpeech(c))
  /\ Move(c, "settled") /\ UNCHANGED <<admission, open, slot, used>>
(* The call failed or was cancelled: nobody knows what it used.                       *)
UsageOnFailureIsZero(c) == 0   (* mutant: a call that failed is not charged *)
UsageOnFailure(c) == Nothing
CallFails(c) ==
  /\ Has(c, "upstream") /\ \E use \in 0 .. Cost : used' = [used EXCEPT ![c] = use]
  /\ \E status \in {"FAILED", "CANCELLED"} : Finished(c, status, UsageOnFailure(c))
  /\ Move(c, "settled") /\ UNCHANGED <<admission, open, slot>>

(* annotate: evidence is added to an entry whatever its status, of a profile also after
   it is settled; then the slot is free.                                               *)
NotesLate(c) == Kind[c] = "profile"
Depart(c) ==
  /\ Has(c, "settled") /\ Leaves(c)
  /\ ledger' = IF NotesLate(c) THEN [ledger EXCEPT !.calls[EntryOf(c)].noted = TRUE] ELSE ledger
  /\ UNCHANGED <<admission, open, used>>
-----------------------------------------------------------------------------
(* serve, LiveResponses: a process opens the ledger; of a stage, when it stands.        *)
Open(p) ==
  /\ p \notin open /\ (p \in Staged => StageStands)
  /\ open' = open \cup {p} /\ UNCHANGED <<ledger, admission, callAt, slot, used>>
(* It is killed: the system releases its locks, and the ledger keeps what is started.   *)
InFlight(p) == { c \in Calls : Owner[c] = p /\ callAt[c] \notin {"new", "over"} }
Kill(p) ==
  /\ p \in open /\ InFlight(p) # {} /\ open' = open \ {p}
  /\ callAt' = [c \in Calls |-> IF c \in InFlight(p) THEN "over" ELSE callAt[c]]
  /\ slot' = [c \in Calls |-> IF c \in InFlight(p) THEN Nothing ELSE slot[c]]
  /\ used' = [c \in Calls |-> IF c \in InFlight(p) /\ callAt[c] = "upstream" THEN Cost ELSE used[c]]
  /\ UNCHANGED <<ledger, admission>>

(* The operator approves the stage when no call of the ledger is under way. What is
   still to be noted on a settled call is kept aside for the properties.                *)
Approve ==
  /\ admission = Nothing /\ \A i \in DOMAIN ledger.calls : ledger.calls[i].status # "STARTED"
  /\ admission' = [start |-> Len(ledger.calls), prior |-> ledger.calls,
                   unnoted |-> \E c \in Calls : callAt[c] = "settled" /\ NotesLate(c)]
  /\ UNCHANGED <<ledger, open, callAt, slot, used>>
-----------------------------------------------------------------------------
QualityInit ==
  /\ ledger = [stopped |-> FALSE, calls |-> <<>>] /\ admission = Nothing /\ open = {}
  /\ callAt = [c \in Calls |-> "new"] /\ slot = [c \in Calls |-> Nothing] /\ used = [c \in Calls |-> 0]

QualityStep(c) ==
  Acquire(c) \/ TurnAway(c) \/ Reserve(c) \/ Answers(c) \/ Settle(c) \/ CallFails(c) \/ Depart(c)
QualityNext ==
  \/ \E c \in Calls : QualityStep(c) \/ CancelWait(c)
  \/ \E p \in Processes : Open(p) \/ Kill(p)
  \/ Approve
QualitySpec == QualityInit /\ [][QualityNext]_qualityVars
-----------------------------------------------------------------------------
QualityTypeOK ==
  /\ open \subseteq Processes /\ slot \in [Calls -> Nat \cup {Nothing}]
  /\ callAt \in [Calls -> {"new", "slotted", "upstream", "answered", "settled", "over"}]
  /\ \A i, j \in DOMAIN ledger.calls : ledger.calls[i].call = ledger.calls[j].call => i = j

(* Whatever calls fail, are cancelled or die with their process, what they used is
   charged: an unknown usage keeps its whole reservation.                               *)
NothingIsFree == \A c \in Calls : used[c] > 0 =>
  \E i \in DOMAIN ledger.calls :
    ledger.calls[i].call = c /\ (Charged(ledger.calls[i]) >= used[c] \/ used[c] > Cost)

(* LIMITS, PHASE_LIMITS: as long as no call used more than it reserved, the calls of all
   processes together keep to the limit, and those of the exploration to their part.      *)
SomeOverran == \E c \in Calls : used[c] > Cost
BudgetIsKept == SomeOverran \/
  /\ Total(ledger.calls, All(ledger.calls)) <= Limit /\ Len(ledger.calls) <= MaxStarts
  /\ Total(ledger.calls, Exploring(ledger.calls)) <= ExploreLimit
  /\ Cardinality(Exploring(ledger.calls)) <= ExploreStarts

(* _stage_budget, reserve: the stage keeps to its budget; while nobody else calls, it
   leaves what is protected; and after a call of another it makes none.                   *)
Own == { i \in Since : ledger.calls[i].staged }
StageIsKept == admission # Nothing /\ ~SomeOverran =>
  /\ Total(ledger.calls, Own) <= StageLimit /\ Cardinality(Own) <= StageStarts
  /\ \A i \in Own : Phase[ledger.calls[i].call] \in StagePhases
  /\ Own = Since /\ Own # {} => Total(ledger.calls, All(ledger.calls)) + Protected <= Limit
  /\ \A i, j \in Since : i < j /\ ledger.calls[j].staged => ledger.calls[i].staged

(* A slot has one call at a time, across processes, and every call that is at the
   provider has one.                                                                       *)
OneCallPerSlot ==
  /\ \A c, d \in Calls : slot[c] # Nothing /\ slot[c] = slot[d] => c = d
  /\ \A c \in Calls : callAt[c] \in {"upstream", "answered", "settled"} =>
       slot[c] \in 1 .. Maximum[Owner[c]]

(* What was approved stays as it was, unless a call had been settled but not noted: then
   the note that comes late closes the stage.                                              *)
OnlyLateNotesCloseTheStage ==
  admission # Nothing /\ Prior # admission.prior => admission.unnoted

QualityInv ==
  /\ QualityTypeOK /\ NothingIsFree /\ BudgetIsKept /\ StageIsKept /\ OneCallPerSlot
  /\ OnlyLateNotesCloseTheStage
=============================================================================
