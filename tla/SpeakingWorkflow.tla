--------------------------- MODULE SpeakingWorkflow ---------------------------
(***************************************************************************)
(* The speaking workflow (scripts/qa_campaign_be_workflows.py speaking).   *)
(* A session is opened and turn after turn is uploaded. In READ_ALOUD every *)
(* second turn closes a problem, which is evaluated at once; in a           *)
(* conversation (GUIDED, FREE) the session is completed after the last.    *)
(* A failed turn or evaluation ends the workflow: the operator may repeat  *)
(* it once by a request of his own, and a resumed workflow only reads back *)
(* what the report has already.                                            *)
(*                                                                         *)
(* The back end is external. Audio is abstracted to a check that may raise *)
(* and the speech recognised in a turn to one of two texts.                *)
(***************************************************************************)
EXTENDS CampaignClient

CONSTANTS
  ReadAloud,  \* the mode is READ_ALOUD
  Probe,      \* silence_rerecord_probe
  Turns       \* turns of the session (10 and 6)

Problems == IF ReadAloud THEN 1 .. Turns \div 2 ELSE {}
Requests ==
  {<<"create">>, <<"complete">>, <<"retry evaluation">>}
    \cup ({"grant", "turn", "rerecord", "again", "retry turn"} \X (1 .. Turns))
    \cup ({"evaluate", "retry problem"} \X Problems)
-----------------------------------------------------------------------------
(* The back end. *)
NoTurn == [status |-> None, text |-> None, retries |-> 0]
NoServer ==
  [session |-> None, turns |-> [t \in 1 .. Turns |-> NoTurn],
   problems |-> [p \in Problems |-> None], evaluation |-> None]

(* What the back end is, and what a report says of it. No value of these is the absence
   of one.                                                                    *)
TurnStatuses ==
  {"STARTED", "PREPARING_SYNTHETIC_AUDIO", "READY", "FAILED", "PARTIAL_FAILURE", "SILENT"}
TurnRecords == [status : TurnStatuses \cup {None}, text : {1, 2, None}, retries : Nat]
Evaluations == {"EVALUATING", "EVALUATED", "INSUFFICIENT_EVIDENCE", "FAILED", None}
Servers ==
  [session : {"IN_PROGRESS", "COMPLETED", None}, turns : [1 .. Turns -> TurnRecords],
   problems : [Problems -> Evaluations], evaluation : Evaluations]
ProblemRecords == Seq([problem : Problems, status : Evaluations])
Reports ==
  [status : {"STARTED", "RESUMED_EXISTING_SESSION_ONLY", "TURN_FAILED_NO_RETRY",
             "AUTHORIZED_RETRY_DID_NOT_PRESERVE_STT_NO_FURTHER_RETRY",
             "SILENCE_REJECTION_NOT_AS_EXPECTED", "EVALUATION_NOT_EVALUATED_NO_RETRY",
             "COMPLETED_WITH_NON_EVALUABLE_PROBLEM", "INSUFFICIENT_REAL_AUDIO_DURATION_NO_PADDING",
             "COMPLETED", "FAILED", "INTERRUPTED"},
   error : ErrorNames \cup {None}, prior : Nat, session : BOOLEAN, resumed : BOOLEAN,
   turns : [1 .. Turns -> TurnRecords], problems : ProblemRecords, priorProblems : ProblemRecords,
   retried : BOOLEAN]
WorkflowAssumption ==
  /\ ReadAloud \in BOOLEAN /\ Probe \in BOOLEAN /\ Turns \in Nat \ {0}
  /\ ClientAssumption(Requests)
  /\ None \notin TurnStatuses /\ None \notin {1, 2} /\ None \notin Reports
(* The operator has no turn recorded again.                                    *)
NothingRerecorded == Manual \cap ({"again"} \X (1 .. Turns)) = {}

(* How the audio of a turn may be taken. A turn that fails in the conversation
   has its text; in READ_ALOUD there is nothing after the transcription.      *)
Taken(old) ==
  { [old EXCEPT !.status = "READY", !.text = 1], [old EXCEPT !.status = "FAILED"] }
    \cup IF ReadAloud THEN {} ELSE { [old EXCEPT !.status = "PARTIAL_FAILURE", !.text = 1] }
(* A retry repeats what failed. It should keep the text.                       *)
Retried(old) ==
  { [status |-> status, text |-> text, retries |-> old.retries + 1] :
      status \in {"READY", "PARTIAL_FAILURE"}, text \in {1, 2} }
Silent(old) == { [old EXCEPT !.status = "SILENT"], [old EXCEPT !.status = "READY", !.text = 1] }

Turned(t, results) == { [server EXCEPT !.turns[t] = new] : new \in results }
(* What the back end may be after a request.                                  *)
Served(id) ==
  CASE id = <<"create">> -> {[server EXCEPT !.session = "IN_PROGRESS"]}
    [] id[1] = "turn" /\ Probe /\ id[2] = 1 -> Turned(1, Silent(server.turns[1]))
    [] id[1] \in {"turn", "again"} -> Turned(id[2], Taken(server.turns[id[2]]))
    [] id[1] = "retry turn" ->
         IF server.turns[id[2]].status = "PARTIAL_FAILURE"
         THEN Turned(id[2], Retried(server.turns[id[2]])) ELSE {server}
    [] id[1] = "evaluate" -> {[server EXCEPT !.problems[id[2]] = "EVALUATING"]}
    [] id[1] = "retry problem" ->
         IF server.problems[id[2]] = "FAILED"
         THEN {[server EXCEPT !.problems[id[2]] = "EVALUATING"]} ELSE {server}
    [] id = <<"complete">> \/ (id = <<"retry evaluation">> /\ server.evaluation = "FAILED") ->
         {[server EXCEPT !.evaluation = "EVALUATING"]}
    [] OTHER -> {server}
Reaches(actor) ==
  /\ sent[actor] # None /\ Goes(actor, TRUE) /\ server' \in Served(sent[actor].id)
  /\ UNCHANGED <<at, step, reportVars>>

Outcomes == {"EVALUATED", "INSUFFICIENT_EVIDENCE", "FAILED"}
ProblemEvaluated == \E p \in Problems : \E outcome \in Outcomes :
  /\ server.problems[p] = "EVALUATING"
  /\ server' = [server EXCEPT !.problems[p] = outcome]
(* The back end evaluates a read-aloud session by itself after its problems.   *)
SessionEvaluated == \E outcome \in Outcomes :
  /\ \/ server.evaluation = "EVALUATING"
     \/ /\ ReadAloud /\ server.evaluation = None
        /\ \A p \in Problems : server.problems[p] \in Outcomes \ {"FAILED"}
  /\ server' = [server EXCEPT !.evaluation = outcome,
                  !.session = IF outcome = "FAILED" THEN @ ELSE "COMPLETED"]
ServerWorks ==
  /\ ProblemEvaluated \/ SessionEvaluated
  /\ UNCHANGED <<clientVars, at, step, reportVars>>
-----------------------------------------------------------------------------
Starts ==
  /\ at = "off" /\ artifact = None /\ runs < MaxRuns
  /\ Opens([status |-> "STARTED", error |-> None, prior |-> 0, session |-> FALSE, resumed |-> FALSE,
            turns |-> [t \in 1 .. Turns |-> NoTurn], problems |-> <<>>, priorProblems |-> <<>>,
            retried |-> FALSE])
  /\ Goto("active", 0, 0) /\ UNCHANGED <<clientVars, server>>

(* Only what was diagnosed may be resumed: a conversation whose last turn failed
   after its transcription, an evaluation that failed, or a resumed one that was
   stopped by a check of its own.                                              *)
Reached(old) == { t \in 1 .. Turns : old.turns[t].status # None }
LastTurn(old) == CHOOSE t \in Reached(old) : \A u \in Reached(old) : u <= t
FailedConversation(old) ==
  /\ ~ReadAloud /\ old.status = "TURN_FAILED_NO_RETRY"
  /\ old.turns[LastTurn(old)].status = "PARTIAL_FAILURE"
GuardFailed(old) ==
  /\ old.status = "FAILED" /\ old.error = "ValueError" /\ old.resumed
  /\ old.priorProblems # <<>> /\ \A t \in Reached(old) : old.turns[t].status = "READY"
Resumable(old) ==
  \/ FailedConversation(old)
  \/ ReadAloud /\ (old.status = "EVALUATION_NOT_EVALUATED_NO_RETRY" \/ GuardFailed(old))
Resumes ==
  /\ at = "off" /\ artifact # None /\ runs < MaxRuns /\ Resumable(artifact)
  /\ Opens([Preserved(artifact) EXCEPT
              !.status = "RESUMED_EXISTING_SESSION_ONLY", !.resumed = TRUE, !.problems = <<>>,
              !.priorProblems = IF artifact.problems # <<>> THEN artifact.problems ELSE @,
              !.retried = FailedConversation(artifact)])
  /\ Goto("detail", 0, 0) /\ UNCHANGED <<clientVars, server>>

Request ==
  CASE at = "create" -> <<"create">>
    [] at = "silence" -> <<"turn", step.item>>
    [] at = "turn" -> <<IF Probe /\ step.item = 1 THEN "again" ELSE "turn", step.item>>
    [] at \in {"grant", "rerecord"} -> <<at, step.item>>
    [] at = "evaluate" -> <<"evaluate", step.item \div 2>>
    [] at = "complete" -> <<"complete">>
    [] OTHER -> Read
Ask == at \notin {"off", "prepare"} /\ Asks(Request)

(* The next turn: one the report has is read back, another is recorded.        *)
TurnStage(t) ==
  IF t > Turns THEN Goto("turns done", 0, 0)
  ELSE IF report.turns[t].status # None THEN Goto("readback", t, 0) ELSE Goto("prepare", t, 0)
-----------------------------------------------------------------------------
(* What a stage raises beside the errors of its request: _audio, of a download;
   _synthesize_learner; and speaking_evidence_v2, of an outcome it has recorded. *)
AudioRaises(last) == Fails(last, "ValueError")
LearnerRaises(last) == Fails(last, "ValueError")
EvidenceRaises(last) == Fails(last, "ValueError")

(* The opening *)
NoneActive ==
  /\ at = "active" /\ Answered
  /\ \/ UNCHANGED reportVars /\ Goto("create", 0, 0)
     \/ Fails(report, "ValueError")            \* another session is active
Created ==
  /\ at = "create" /\ Answered
  /\ Saves([report EXCEPT !.session = TRUE]) /\ Goto("opening", 0, 0)
OpeningHeard ==
  /\ at = "opening" /\ Answered
  /\ \/ UNCHANGED reportVars /\ TurnStage(1)
     \/ AudioRaises(report)

(* Resumed: the session must be open, and the problems are read back.          *)
DetailRead ==
  /\ at = "detail" /\ Answered
  /\ \/ server.session # "IN_PROGRESS" /\ Fails(report, "ValueError")
     \/ /\ server.session = "IN_PROGRESS" /\ UNCHANGED reportVars
        /\ IF report.priorProblems = <<>> THEN TurnStage(1) ELSE Goto("reread", 1, 0)
ProblemReread ==
  /\ at = "reread" /\ Answered
  /\ LET p == report.priorProblems[step.item].problem
         status == server.problems[p]
         new == [report EXCEPT !.problems = Append(@, [problem |-> p, status |-> status])]
     IN  \/ status = "EVALUATING" /\ PollsOn
         \/ status = "EVALUATING" /\ LastPoll /\ Fails(report, "TimeoutError")
         \/ status = "FAILED" /\ Returns([new EXCEPT !.status = "EVALUATION_NOT_EVALUATED_NO_RETRY"])
         \/ status \in Outcomes \ {"FAILED"} /\ EvidenceRaises(new)
         \/ /\ status \in Outcomes \ {"FAILED"} /\ Keeps(new)
            /\ IF step.item = Len(report.priorProblems) THEN TurnStage(1)
               ELSE Goto("reread", step.item + 1, 0)
-----------------------------------------------------------------------------
(* A turn the report has: nothing is sent, and it must be as it was. A turn that
   was retried by the operator must have its text.                             *)
Same(old, seen) == seen = old
KeptOrNot(old, seen) == seen.status = "READY" (* mutant: the retry may have changed the text *)
Kept(old, seen) == seen.status = "READY" /\ seen.retries = old.retries + 1 /\ seen.text = old.text
TurnReadBack ==
  /\ at = "readback" /\ Answered
  /\ LET t == step.item
         old == report.turns[t]
         seen == server.turns[t]
         new == [report EXCEPT !.turns[t] = seen]
     IN  IF report.retried /\ old.status = "PARTIAL_FAILURE"
         THEN \/ /\ ~Kept(old, seen)
                 /\ Returns([report EXCEPT !.status = "AUTHORIZED_RETRY_DID_NOT_PRESERVE_STT_NO_FURTHER_RETRY"])
              \/ Kept(old, seen) /\ Keeps(new) /\ TurnStage(t + 1)
              \/ Kept(old, seen) /\ AudioRaises(new)
         ELSE \/ seen.status = "READY" /\ Same(old, seen) /\ UNCHANGED reportVars /\ TurnStage(t + 1)
              \/ (seen.status # "READY" \/ ~Same(old, seen)) /\ Fails(report, "ValueError")

(* A turn of its own. In a conversation the learner is synthesized first.       *)
Begun(status) == [report EXCEPT !.turns[step.item].status = status]
Prepared ==
  /\ at = "prepare" /\ UNCHANGED clientVars
  /\ \/ Saves(Begun("STARTED")) /\ Goto("grant", step.item, 0)
     \/ ~ReadAloud /\ LearnerRaises(Begun("PREPARING_SYNTHETIC_AUDIO"))
Granted ==
  /\ at = "grant" /\ Answered /\ UNCHANGED reportVars
  /\ Goto(IF Probe /\ step.item = 1 THEN "silence" ELSE "turn", step.item, 0)

(* The probe: silence is sent, and must be refused. A refusal is an answer.      *)
SilenceSent ==
  /\ at = "silence" /\ UNCHANGED reportVars /\ Goto("silent", step.item, 0)
  /\ Answered \/ Concluded("workflow", "HTTP_FAILED")
SilenceSeen ==
  /\ at = "silent" /\ Answered
  /\ \/ server.turns[1].status = "SILENT" /\ Saves(report) /\ Goto("rerecord", step.item, 0)
     \/ server.turns[1].status = "SILENT" /\ AudioRaises(report)
     \/ /\ server.turns[1].status # "SILENT"
        /\ Returns([report EXCEPT !.status = "SILENCE_REJECTION_NOT_AS_EXPECTED"])
RerecordGranted ==
  /\ at = "rerecord" /\ Answered /\ UNCHANGED reportVars /\ Goto("turn", step.item, 0)

TurnTaken ==
  /\ at = "turn" /\ Answered
  /\ LET new == [report EXCEPT !.turns[step.item] = server.turns[step.item]]
     IN  IF server.turns[step.item].status = "READY"
         THEN Saves(new) /\ Goto("audio", step.item, 0)
         ELSE Returns([new EXCEPT !.status = "TURN_FAILED_NO_RETRY"])
(* What was recorded, and what is answered, is downloaded.                      *)
AudioReadBack ==
  /\ at = "audio" /\ Answered
  /\ \/ /\ ReadAloud /\ step.item % 2 = 0 /\ UNCHANGED reportVars
        /\ Goto("evaluate", step.item, 0)
     \/ ~(ReadAloud /\ step.item % 2 = 0) /\ Saves(report) /\ TurnStage(step.item + 1)
     \/ AudioRaises(report)
EvaluationAsked ==
  /\ at = "evaluate" /\ Answered /\ UNCHANGED reportVars /\ Goto("evaluation", step.item, 0)
ProblemPolled ==
  /\ at = "evaluation" /\ Answered
  /\ LET p == step.item \div 2
         status == server.problems[p]
         new == [report EXCEPT !.problems = Append(@, [problem |-> p, status |-> status])]
     IN  \/ status = "EVALUATING" /\ PollsOn
         \/ status = "EVALUATING" /\ LastPoll /\ Fails(report, "TimeoutError")
         \/ status = "FAILED" /\ Returns([new EXCEPT !.status = "EVALUATION_NOT_EVALUATED_NO_RETRY"])
         \/ status \in Outcomes \ {"FAILED"} /\ Saves(new) /\ TurnStage(step.item + 1)
         \/ status \in Outcomes \ {"FAILED"} /\ EvidenceRaises(new)
-----------------------------------------------------------------------------
(* The end *)
TurnsDone ==
  /\ at = "turns done" /\ Answered /\ UNCHANGED reportVars
  /\ Goto(IF ReadAloud THEN "final" ELSE "complete", 0, 0)
CompletionAsked ==
  /\ at = "complete" /\ Answered /\ UNCHANGED reportVars /\ Goto("final", 0, 0)
Outcome ==
  IF server.evaluation # "EVALUATED" THEN "EVALUATION_NOT_EVALUATED_NO_RETRY"
  ELSE IF \E k \in DOMAIN report.problems : report.problems[k].status = "INSUFFICIENT_EVIDENCE"
  THEN "COMPLETED_WITH_NON_EVALUABLE_PROBLEM" ELSE "COMPLETED"
FinalPolled ==
  /\ at = "final" /\ Answered
  /\ \/ server.evaluation \in Outcomes /\ Returns([report EXCEPT !.status = Outcome])
     \/ server.evaluation \in Outcomes /\ EvidenceRaises(report)
     \/ /\ server.evaluation \in Outcomes /\ ~ReadAloud        \* less than 60 s of audio
        /\ Returns([report EXCEPT !.status = "INSUFFICIENT_REAL_AUDIO_DURATION_NO_PADDING"])
     \/ server.evaluation \notin Outcomes /\ PollsOn
     \/ server.evaluation \notin Outcomes /\ LastPoll /\ Fails(report, "TimeoutError")

Hears200 ==
  /\ \/ NoneActive \/ Created \/ OpeningHeard \/ DetailRead \/ ProblemReread \/ TurnReadBack
     \/ Granted \/ SilenceSent \/ SilenceSeen \/ RerecordGranted \/ TurnTaken \/ AudioReadBack
     \/ EvaluationAsked \/ ProblemPolled \/ TurnsDone \/ CompletionAsked \/ FinalPolled
  /\ UNCHANGED server
-----------------------------------------------------------------------------
Init == ClientInit(Requests) /\ server = NoServer

Works ==
  \/ Ask \/ Reaches("workflow") \/ Lost \/ Hears200 \/ (Prepared /\ UNCHANGED server)
  \/ Unanswered(Errors("RuntimeError") \ (IF at = "silence" THEN {"RuntimeError"} ELSE {}))
Next ==
  \/ Starts \/ Resumes \/ Works \/ ServerWorks \/ Killed \/ RemovesLock
  \/ server.session # None /\ Sends
  \/ Reaches("operator") \/ Hears
Spec == Init /\ [][Next]_vars /\ WF_vars(Works)

(* speaking: when the workflow completes, the report tells of every turn what the
   back end has of it, each is READY, and the session was evaluated.           *)
CompletesTruly ==
  /\ at # "off" /\ artifact' # None
  /\ artifact'.status \in {"COMPLETED", "COMPLETED_WITH_NON_EVALUABLE_PROBLEM"}
  => /\ server.evaluation = "EVALUATED"
     /\ \A t \in 1 .. Turns : artifact'.turns[t] = server.turns[t] /\ server.turns[t].status = "READY"

(* speaking: the text recognised in a turn stays what it was in every later report. *)
KeepsText ==
  artifact # None => \A t \in 1 .. Turns :
    artifact.turns[t].text # None => artifact'.turns[t].text = artifact.turns[t].text

(* speaking: whatever the back end does, every wait is bounded.                 *)
WorkflowEnds == (at # "off") ~> (at = "off")
=============================================================================
