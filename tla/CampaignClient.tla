--------------------------- MODULE CampaignClient ---------------------------
(***************************************************************************)
(* The HTTP client of the QA campaigns (scripts/qa_campaign_be_api.py) and *)
(* the report a workflow keeps while it drives it: what they share of      *)
(* ListeningWorkflow, SpeakingWorkflow and ReadingWorkflow, in which one   *)
(* process works through stages and may be killed at any moment.           *)
(*                                                                         *)
(* The client's ledger.json is written before a request goes out. A one-   *)
(* shot request (every method but GET, and GETs that make a provider work) *)
(* is refused when the ledger has its identity already. be-api.lock is a   *)
(* file: a killed process leaves it behind, and the operator removes it.   *)
(* The operator may also send a request of his own from the command line.  *)
(*                                                                         *)
(* A report that cannot be written ends the process as killing it does.    *)
(***************************************************************************)
EXTENDS Integers, Sequences, FiniteSets, SequencesExt

CONSTANTS
  Manual,     \* those the operator may send himself
  MaxRuns,    \* bound: starts of the workflow, resumptions included
  MaxPolls,   \* max_polls, and the 60 polls of an evaluation
  None

VARIABLES
  lock,      \* whose request holds be-api.lock: None, an actor, or "dead"
  entries,   \* the status the ledger has of each one-shot request
  reached,   \* how often each went out
  sent,      \* the request of each actor, and whether the server has got it
  at,        \* the stage of the workflow, "off" when no process runs
  step,      \* and which item, and which task or poll of it
  report,    \* the report in memory
  artifact,  \* the report on disk
  failures,  \* how many errors have been reported
  runs,
  server     \* the back end

clientVars == <<lock, entries, reached, sent>>
reportVars == <<report, artifact, failures, runs>>
vars == <<clientVars, at, step, reportVars, server>>

Actors == {"workflow", "operator"}
OneShots == DOMAIN entries
Read == <<"read">>  \* any request that is not one-shot
(* A request that is sent, where ids are the one-shot ones.                  *)
Sendings(ids) == [id : ids \cup {Read}, out : BOOLEAN, got : BOOLEAN]
(* What the ledger says of a request, and what ends a run.                   *)
Statuses == {"STARTED", "COMPLETED", "HTTP_FAILED", "FAILED", "INTERRUPTED"}
ErrorNames ==
  {"FileExistsError", "KeyboardInterrupt", "KeyError", "RuntimeError", "TimeoutError", "ValueError"}
ClientAssumption(ids) ==
  /\ MaxRuns \in Nat /\ Manual \subseteq ids
  /\ None \notin Statuses \cup ErrorNames \cup Actors \cup {"dead"} /\ None \notin Sendings(ids)
-----------------------------------------------------------------------------
(* Client.call, up to the record in the ledger.                              *)
KnownNever(id) == FALSE (* mutant: the ledger is not looked at *)
Known(id) == id \in OneShots /\ entries[id] # None
Begin(actor, id) ==
  /\ sent[actor] = None /\ lock = None /\ ~Known(id)
  /\ lock' = actor
  /\ entries' = IF id \in OneShots THEN [entries EXCEPT ![id] = "STARTED"] ELSE entries
  /\ sent' = [sent EXCEPT ![actor] = [id |-> id, out |-> FALSE, got |-> FALSE]]
  /\ UNCHANGED reached

(* What it raises before it records anything: the lock file is there, or the
   identity is known, or the session of the browser has expired.             *)
Refusal == IF lock # None THEN "FileExistsError" ELSE "ValueError"

(* The request goes out, and may or may not get through.                     *)
Goes(actor, got) ==
  /\ sent[actor] # None /\ ~sent[actor].out
  /\ sent' = [sent EXCEPT ![actor].out = TRUE, ![actor].got = got]
  /\ LET id == sent[actor].id
     IN  reached' = IF id \in OneShots THEN [reached EXCEPT ![id] = @ + 1] ELSE reached
  /\ UNCHANGED <<lock, entries>>

(* The finally of call: the outcome is written and the lock file removed.    *)
Concluded(actor, status) ==
  /\ sent[actor] # None /\ sent[actor].out
  /\ lock' = None
  /\ LET id == sent[actor].id
     IN  entries' = IF id \in OneShots THEN [entries EXCEPT ![id] = status] ELSE entries
  /\ sent' = [sent EXCEPT ![actor] = None]
  /\ UNCHANGED reached
Answered == sent["workflow"] # None /\ sent["workflow"].got /\ Concluded("workflow", "COMPLETED")
-----------------------------------------------------------------------------
(* The workflow's report. *)

(* Its except and finally: the error is kept in the report on disk.          *)
Fails(last, error) ==
  /\ at' = "off" /\ step' = [item |-> 0, count |-> 0] /\ report' = None
  /\ artifact' = [last EXCEPT !.error = error,
                    !.status = IF error = "KeyboardInterrupt" THEN "INTERRUPTED" ELSE "FAILED"]
  /\ failures' = failures + 1
  /\ UNCHANGED runs
Returns(final) ==
  /\ at' = "off" /\ step' = [item |-> 0, count |-> 0] /\ report' = None
  /\ artifact' = final
  /\ UNCHANGED <<failures, runs>>
Opens(new) == report' = new /\ artifact' = new /\ runs' = runs + 1 /\ UNCHANGED failures
(* The report as it is now is written and the work goes on.                  *)
Saves(new) == report' = new /\ artifact' = new /\ UNCHANGED <<failures, runs>>
Keeps(new) == report' = new /\ UNCHANGED <<artifact, failures, runs>>
Goto(stage, item, count) == at' = stage /\ step' = [item |-> item, count |-> count]
(* A poll that was not the last is repeated.                                 *)
LastPoll == step.count + 1 = MaxPolls
PollsOnUncounted == ~LastPoll /\ Goto(at, step.item, 0) /\ UNCHANGED reportVars (* mutant *)
PollsOn == ~LastPoll /\ Goto(at, step.item, step.count + 1) /\ UNCHANGED reportVars

(* preserve_prior_outcome *)
PreservedNot(old) == [old EXCEPT !.error = None] (* mutant: the old error is overwritten *)
Preserved(old) ==
  IF old.error = None THEN old ELSE [old EXCEPT !.error = None, !.prior = @ + 1]

(* The request of the stage the workflow is in; a read gets through or fails.  *)
Asks(id) ==
  /\ at # "off" /\ UNCHANGED server
  /\ \/ Begin("workflow", id) /\ UNCHANGED <<at, step, reportVars>>
     \/ sent["workflow"] = None /\ Fails(report, Refusal) /\ UNCHANGED clientVars
Lost ==
  /\ Goes("workflow", FALSE) /\ sent["workflow"].id # Read
  /\ UNCHANGED <<at, step, reportVars, server>>
(* Any other status than 200 (what the workflow raises then), a timeout or a broken
   connection, an interruption.                                              *)
Errors(other) == {other, "TimeoutError", "KeyboardInterrupt"}
Unanswered(errors) ==
  \E error \in errors :
    /\ Concluded("workflow", CASE error = "KeyboardInterrupt" -> "INTERRUPTED"
                               [] error = "TimeoutError" -> "FAILED"
                               [] OTHER -> "HTTP_FAILED")
    /\ Fails(report, error) /\ UNCHANGED server

Killed ==
  /\ at # "off"
  /\ at' = "off" /\ step' = [item |-> 0, count |-> 0] /\ report' = None
  /\ sent' = [sent EXCEPT !["workflow"] = None]
  /\ lock' = IF lock = "workflow" THEN "dead" ELSE lock
  /\ UNCHANGED <<entries, reached, artifact, failures, runs, server>>
-----------------------------------------------------------------------------
(* The operator, who also sends requests of his own. *)
RemovesLock ==
  /\ lock = "dead" /\ at = "off" /\ lock' = None
  /\ UNCHANGED <<entries, reached, sent, at, step, reportVars, server>>

Sends ==
  /\ \E id \in Manual : Begin("operator", id)
  /\ UNCHANGED <<at, step, reportVars, server>>
Hears ==
  /\ \E status \in {"COMPLETED", "HTTP_FAILED"} : Concluded("operator", status)
  /\ UNCHANGED <<at, step, reportVars, server>>
-----------------------------------------------------------------------------
ClientInit(ids) ==
  /\ lock = None /\ entries = [id \in ids |-> None] /\ reached = [id \in ids |-> 0]
  /\ sent = [a \in Actors |-> None]
  /\ at = "off" /\ step = [item |-> 0, count |-> 0]
  /\ report = None /\ artifact = None /\ failures = 0 /\ runs = 0

(* The values the client's variables take.                                   *)
ClientTypeOK ==
  /\ lock \in Actors \cup {None, "dead"} /\ entries \in [DOMAIN reached -> Statuses \cup {None}]
  /\ \A a \in Actors : sent[a] # None => sent[a].id \in OneShots \cup {Read} /\ lock = a
  /\ (report = None) = (at = "off") /\ runs \in 0 .. MaxRuns /\ failures \in 0 .. runs

(* call: whatever is killed, repeated or resumed, and whoever sends it, a one-shot
   request goes out once and never without a record.                         *)
OneShot == \A id \in OneShots : reached[id] <= 1 /\ (reached[id] = 1 => entries[id] # None)

(* preserve_prior_outcome: every error that was ever reported is still told by the
   report on disk.                                                           *)
ErrorsAreKept ==
  LET told(r) == r.prior + (IF r.error = None THEN 0 ELSE 1)
  IN  /\ artifact # None => told(artifact) = failures
      /\ report # None => told(report) = failures

(* What the client promises every workflow.                                  *)
ClientInv == ClientTypeOK /\ OneShot /\ ErrorsAreKept
=============================================================================
