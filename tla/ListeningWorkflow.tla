-------------------------- MODULE ListeningWorkflow --------------------------
(***************************************************************************)
(* The listening workflow (scripts/qa_campaign_be_workflows.py listening): *)
(* a set is created and its generation polled, the database snapshot is    *)
(* compared with what is published, a session is opened and each item is   *)
(* heard, answered, submitted and polled until it is evaluated.            *)
(*                                                                         *)
(* The back end is external: it generates the rows of the items in any     *)
(* order, replaces those that failed and evaluates what was submitted.     *)
(* Contents, durations and checksums are abstracted to a check that may    *)
(* raise.                                                                  *)
(***************************************************************************)
EXTENDS CampaignClient, FiniteSetsExt

CONSTANTS
  N,       \* items of the set (5)
  Tasks,   \* tasks of an item
  MaxRows  \* bound: rows of one item, replacements included

Items == 1 .. N
Requests ==
  {<<"create">>, <<"session">>, <<"complete">>} \cup ({"submit"} \X Items)
    \cup ({"answer"} \X Items \X (1 .. Tasks))
-----------------------------------------------------------------------------
(* The back end. *)
NoServer ==
  [rows |-> [i \in Items |-> <<>>], working |-> FALSE, session |-> FALSE,
   attempts |-> [i \in Items |-> "OPEN"], complete |-> FALSE]

(* What the back end is, and what a report says of it. No value of these is the absence
   of one.                                                                    *)
Rows == [Items -> Seq({"TTS_PENDING", "READY", "FAILED"})]
Attempts == {"OPEN", "SUBMITTED", "EVALUATED", "EVALUATION_FAILED"}
Servers ==
  [rows : Rows, working : BOOLEAN, session : BOOLEAN,
   attempts : [Items -> Attempts], complete : BOOLEAN]
Generations == [rows : Rows, working : BOOLEAN]
Reports ==
  [status : {"STARTED", "RESUMED_EXISTING_GENERATION_ONLY", "GENERATION_NOT_FIVE_READY",
             "EVALUATION_FAILED_NO_RETRY", "COMPLETED", "FAILED", "INTERRUPTED"},
   error : ErrorNames \cup {None}, prior : Nat, set : BOOLEAN,
   generation : Generations \cup {None}, seen : Rows \cup {None}, session : BOOLEAN,
   rows : [Items -> Attempts \cup {"STARTED", None}]]
WorkflowAssumption ==
  /\ ClientAssumption(Requests) /\ N \in Nat \ {0} /\ Tasks \in Nat \ {0}
  /\ None \notin Reports /\ None \notin Generations /\ None \notin Rows

(* canonical_listening_items: the newest READY row of a slot, else the newest. *)
Selected(slot) ==
  LET ready == { k \in DOMAIN slot : slot[k] = "READY" }
  IN  slot[IF ready # {} THEN Max(ready) ELSE Len(slot)]
FiveReady(rows) == \A i \in Items : rows[i] # <<>> /\ Selected(rows[i]) = "READY"
Pending(rows) == \E i \in Items : \E k \in DOMAIN rows[i] : rows[i][k] = "TTS_PENDING"
Status(set) ==
  IF FiveReady(set.rows) THEN "READY" ELSE IF set.working THEN "GENERATING" ELSE "PARTIAL"

Served(id) ==
  CASE id = <<"create">> ->
         [server EXCEPT !.rows = [i \in Items |-> <<"TTS_PENDING">>], !.working = TRUE]
    [] id = <<"session">> -> [server EXCEPT !.session = TRUE]
    [] id[1] = "submit" -> [server EXCEPT !.attempts[id[2]] = "SUBMITTED"]
    [] id = <<"complete">> -> [server EXCEPT !.complete = TRUE]
    [] OTHER -> server
Reaches(actor) ==
  /\ sent[actor] # None /\ Goes(actor, TRUE) /\ server' = Served(sent[actor].id)
  /\ UNCHANGED <<at, step, reportVars>>

Voiced == \E i \in Items : \E status \in {"READY", "FAILED"} :
  /\ server.rows[i] # <<>> /\ Last(server.rows[i]) = "TTS_PENDING"
  /\ server' = [server EXCEPT !.rows[i] = Append(Front(@), status)]
Replaced == \E i \in Items :
  /\ server.working /\ server.rows[i] # <<>> /\ Last(server.rows[i]) = "FAILED"
  /\ Len(server.rows[i]) < MaxRows
  /\ server' = [server EXCEPT !.rows[i] = Append(@, "TTS_PENDING")]
GenerationEnds == server.working /\ server' = [server EXCEPT !.working = FALSE]
Evaluated == \E i \in Items : \E status \in {"EVALUATED", "EVALUATION_FAILED"} :
  /\ server.attempts[i] = "SUBMITTED"
  /\ server' = [server EXCEPT !.attempts[i] = status]
ServerWorks ==
  /\ Voiced \/ Replaced \/ GenerationEnds \/ Evaluated
  /\ UNCHANGED <<clientVars, at, step, reportVars>>

(* evaluation_terminal *)
Terminal(status) == status \in {"EVALUATED", "EVALUATION_FAILED"}
-----------------------------------------------------------------------------
NoRow == [i \in Items |-> None]
Starts ==
  /\ at = "off" /\ artifact = None /\ runs < MaxRuns
  /\ Opens([status |-> "STARTED", error |-> None, prior |-> 0, set |-> FALSE, generation |-> None,
            seen |-> None, session |-> FALSE, rows |-> NoRow])
  /\ Goto("create", 0, 0) /\ UNCHANGED <<clientVars, server>>

(* Only a generation that was not over, or a poll that timed out, is resumed. *)
GenerationPending(old) ==
  /\ old.status = "GENERATION_NOT_FIVE_READY" /\ old.rows = NoRow /\ ~old.session
  /\ old.generation.working \/ Pending(old.seen)
PollTimedOut(old) == old.status = "FAILED" /\ old.error = "TimeoutError" /\ old.session
Resumes ==
  /\ at = "off" /\ artifact # None /\ runs < MaxRuns
  /\ GenerationPending(artifact) \/ PollTimedOut(artifact)
  /\ Opens([Preserved(artifact) EXCEPT !.status = "RESUMED_EXISTING_GENERATION_ONLY"])
  /\ Goto("poll", 0, 0) /\ UNCHANGED <<clientVars, server>>

Request ==
  CASE at = "create" -> <<"create">>
    [] at = "session" -> IF report.session THEN Read ELSE <<"session">>
    [] at = "answer" -> <<"answer", step.item, step.count>>
    [] at = "submit" -> <<"submit", step.item>>
    [] at = "complete" -> <<"complete">>
    [] OTHER -> Read
Ask == at \notin {"off", "snapshot", "validate"} /\ Asks(Request)

Created ==
  /\ at = "create" /\ Answered
  /\ Saves([report EXCEPT !.set = TRUE]) /\ Goto("poll", 0, 0)
(* Client.poll: a generation that goes on, or a row without a voice, is not the
   end; the last answer is taken when the bound is reached.                   *)
GenerationOver ==
  Status(server) # "GENERATING" /\ ~server.working /\ ~Pending(server.rows)
Polled ==
  /\ at = "poll" /\ Answered
  /\ IF GenerationOver \/ LastPoll
     THEN /\ Keeps([report EXCEPT !.generation = [rows |-> server.rows, working |-> server.working]])
          /\ Goto("snapshot", 0, 0)
     ELSE PollsOn

(* Client.listening_snapshot: the rows the database has now.                   *)
Physical == server.rows
(* They are compared with what was polled before.                             *)
Snapshot ==
  /\ at = "snapshot"
  /\ LET new == [report EXCEPT !.seen = Physical]
     IN  IF Status(report.generation) # "READY"
         THEN Returns([new EXCEPT !.status = "GENERATION_NOT_FIVE_READY"])
         ELSE \/ Keeps(new) /\ Goto("session", 0, 0)
              \/ Fails(new, "ValueError")     \* canonical_listening_items
  /\ UNCHANGED clientVars
SessionOpened ==
  /\ at = "session" /\ Answered
  /\ Keeps([report EXCEPT !.session = TRUE]) /\ Goto("item", 1, 0)
-----------------------------------------------------------------------------
Following == IF step.item = N THEN Goto("complete", 0, 0) ELSE Goto("item", step.item + 1, 0)
Recorded(status) == [report EXCEPT !.rows[step.item] = status]
(* What an evaluated item leads to.                                           *)
FailedIsFine(status) == FALSE (* mutant: a failed evaluation is passed over *)
FailedEvaluation(status) == status = "EVALUATION_FAILED"
Concludes(status) ==
  IF FailedEvaluation(status)
  THEN Returns([Recorded(status) EXCEPT !.status = "EVALUATION_FAILED_NO_RETRY"])
  ELSE Saves(Recorded(status)) /\ Following

ItemRead ==
  /\ at = "item" /\ Answered
  /\ LET status == server.attempts[step.item]
         known == report.rows[step.item] # None
     IN  \/ Terminal(status) /\ known /\ Concludes(status)
         \/ Terminal(status) # known /\ Fails(report, "ValueError")
         \/ ~Terminal(status) /\ ~known /\ UNCHANGED reportVars /\ Goto("audio", step.item, 0)
AudioHeard ==
  /\ at = "audio" /\ Answered
  /\ \/ Saves(Recorded("STARTED")) /\ Goto("validate", step.item, 0)
     \/ Fails(report, "RuntimeError")
(* validate_listening_audio: the bytes, their checksum and duration are checked. *)
AudioRaises == Fails(report, "ValueError")
Validated ==
  /\ at = "validate" /\ UNCHANGED clientVars
  /\ (Saves(report) /\ Goto("answer", step.item, 1)) \/ AudioRaises
AnswerGiven ==
  /\ at = "answer" /\ Answered /\ UNCHANGED reportVars
  /\ IF step.count < Tasks THEN Goto("answer", step.item, step.count + 1)
                           ELSE Goto("submit", step.item, 0)
Submitted ==
  /\ at = "submit" /\ Answered /\ UNCHANGED reportVars /\ Goto("evaluation", step.item, 0)
EvaluationPolled ==
  /\ at = "evaluation" /\ Answered
  /\ LET status == server.attempts[step.item]
     IN  \/ Terminal(status) /\ Concludes(status)
         \/ ~Terminal(status) /\ PollsOn
         \/ ~Terminal(status) /\ LastPoll /\ Fails(report, "TimeoutError")
Completed ==
  /\ at = "complete" /\ Answered /\ UNCHANGED reportVars /\ Goto("result", 0, 0)
ResultRead == at = "result" /\ Answered /\ Returns([report EXCEPT !.status = "COMPLETED"])

Hears200 ==
  /\ \/ Created \/ Polled \/ SessionOpened \/ ItemRead \/ AudioHeard \/ AnswerGiven
     \/ Submitted \/ EvaluationPolled \/ Completed \/ ResultRead
  /\ UNCHANGED server
Local == (Snapshot \/ Validated) /\ UNCHANGED server
-----------------------------------------------------------------------------
Init == ClientInit(Requests) /\ server = NoServer

(* What the process does by itself, and what ends its requests.               *)
Works == Ask \/ Reaches("workflow") \/ Lost \/ Hears200 \/ Unanswered(Errors("RuntimeError")) \/ Local
Next ==
  \/ Starts \/ Resumes \/ Works \/ ServerWorks \/ Killed \/ RemovesLock
  \/ server.session /\ Sends
  \/ Reaches("operator") \/ Hears
Spec == Init /\ [][Next]_vars /\ WF_vars(Works)

(* listening: when the workflow completes, the report tells of every item what the
   back end has of it, each was evaluated, and the session is complete.       *)
CompletesTruly ==
  at # "off" /\ artifact' # None /\ artifact'.status = "COMPLETED" =>
    /\ server.complete
    /\ \A i \in Items : artifact'.rows[i] = server.attempts[i] /\ server.attempts[i] = "EVALUATED"

(* listening, Client.poll: whatever the back end does, every wait is bounded. *)
WorkflowEnds == (at # "off") ~> (at = "off")
=============================================================================
