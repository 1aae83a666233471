--------------------------- MODULE ReadingWorkflow ---------------------------
(***************************************************************************)
(* The reading workflow (scripts/qa_campaign_reading.py): a set is started *)
(* and polled while its questions appear, and each is then answered once.  *)
(* Every view is compared with what was accepted before it, the database   *)
(* with what it was when the set was ready.                                *)
(*                                                                         *)
(* The back end is external: questions appear in order, and it may change  *)
(* one that is published already, which is what the comparisons are for.   *)
(* A question is abstracted to its version, the other checks of a view to  *)
(* one that may raise.                                                     *)
(***************************************************************************)
EXTENDS CampaignClient

CONSTANTS
  N,           \* questions of the set (5)
  MaxVersions  \* bound: versions of a question

Questions == 1 .. N
Requests == {<<"start">>} \cup ({"answer"} \X Questions)
-----------------------------------------------------------------------------
(* The back end. *)
NoServer ==
  [status |-> None, versions |-> <<>>, answered |-> [q \in Questions |-> FALSE]]

(* What the back end is, and what a report says of it. No value of these is the absence
   of one.                                                                    *)
Servers ==
  [status : {"GENERATING", "READY", "PARTIAL", None}, versions : Seq(Nat),
   answered : [Questions -> BOOLEAN]]
Reports ==
  [status : {"STARTED", "RESUMED_EXISTING_SET_ONLY", "GENERATION_TERMINAL_NO_RETRY", "COMPLETED",
             "FAILED", "INTERRUPTED"},
   error : ErrorNames \cup {None}, prior : Nat, set : BOOLEAN, resumed : BOOLEAN,
   view : Servers \cup {None}, observed : Nat, accepted : Seq(Nat), stored : Seq(Nat),
   answers : Seq(Questions)]
WorkflowAssumption ==
  /\ ClientAssumption(Requests) /\ N \in Nat \ {0}
  /\ None \notin Reports /\ None \notin Servers /\ None \notin {"GENERATING", "READY", "PARTIAL"}

Served(id) ==
  CASE id = <<"start">> -> [server EXCEPT !.status = "GENERATING"]
    [] id[1] = "answer" -> [server EXCEPT !.answered[id[2]] = TRUE]
    [] OTHER -> server
Reaches(actor) ==
  /\ sent[actor] # None /\ Goes(actor, TRUE) /\ server' = Served(sent[actor].id)
  /\ UNCHANGED <<at, step, reportVars>>

Appears ==
  /\ server.status = "GENERATING" /\ Len(server.versions) < N
  /\ server' = [server EXCEPT !.versions = Append(@, 1)]
Changes == \E q \in DOMAIN server.versions :
  /\ at # "off"     \* what changes when the workflow is over is not its matter
  /\ server.versions[q] < MaxVersions
  /\ server' = [server EXCEPT !.versions[q] = @ + 1]
GenerationEnds ==
  /\ server.status = "GENERATING"
  /\ server' = [server EXCEPT !.status = IF Len(server.versions) = N THEN "READY" ELSE "PARTIAL"]
ServerWorks ==
  /\ Appears \/ Changes \/ GenerationEnds
  /\ UNCHANGED <<clientVars, at, step, reportVars>>
-----------------------------------------------------------------------------
(* The report holds what the function keeps beside it too: the last view, the
   accepted questions, and the rows stored when the set was ready.            *)
Starts ==
  /\ at = "off" /\ artifact = None /\ runs < MaxRuns
  /\ Opens([status |-> "STARTED", error |-> None, prior |-> 0, set |-> FALSE, resumed |-> FALSE,
            view |-> None, observed |-> 0, accepted |-> <<>>, stored |-> <<>>, answers |-> <<>>])
  /\ Goto("start", 0, 0) /\ UNCHANGED <<clientVars, server>>

(* resume_reading: one time, after a failure before the first observation.      *)
Resumable(old) ==
  /\ old.status = "FAILED" /\ old.error = "KeyError" /\ old.set
  /\ old.answers = <<>> /\ old.observed = 0 /\ ~old.resumed
Resumes ==
  /\ at = "off" /\ artifact # None /\ runs < MaxRuns /\ Resumable(artifact)
  /\ Opens([Preserved(artifact) EXCEPT !.status = "RESUMED_EXISTING_SET_ONLY", !.resumed = TRUE,
              !.accepted = <<>>, !.view = None])
  /\ Goto("again", 0, 0) /\ UNCHANGED <<clientVars, server>>

Request ==
  CASE at = "start" -> <<"start">>
    [] at = "answer" -> <<"answer", step.item>>
    [] OTHER -> Read
Ask == at \in {"start", "again", "poll", "answer", "observe"} /\ Asks(Request)

View == [status |-> server.status, versions |-> server.versions, answered |-> server.answered]
(* The set is there: started, or read again without an answer.                  *)
SetSeen ==
  /\ at \in {"start", "again"} /\ Answered
  /\ LET new == [report EXCEPT !.set = TRUE, !.view = View]
     IN  \/ /\ at = "again" => \A q \in Questions : ~server.answered[q]
            /\ Keeps(new) /\ Goto("snapshot", 0, 0)
         \/ at = "again" /\ (\E q \in Questions : server.answered[q]) /\ Fails(report, "ValueError")
         \/ Fails(new, "ValueError")            \* the learning date is another
(* _snapshot of the database: the request must be the one of the case, and the
   key of its date was once another.                                            *)
SnapshotErrors == {"KeyError", "ValueError"}
Snapshot ==
  /\ at = "snapshot" /\ UNCHANGED clientVars
  /\ \/ UNCHANGED reportVars /\ Goto("observed", 0, 0)
     \/ \E error \in SnapshotErrors : Fails(report, error)

(* _observe: nothing accepted before may be missing or another.                 *)
ConsistentOrNot(view) == TRUE (* mutant: the questions are not compared *)
Consistent(view) ==
  \A q \in DOMAIN report.accepted :
    q \in DOMAIN view.versions /\ view.versions[q] = report.accepted[q]
Accepts(new, stage) ==
  IF Consistent(new.view)
  THEN /\ Saves([new EXCEPT !.observed = @ + 1,
                !.accepted = @ \o SubSeq(new.view.versions, Len(@) + 1, Len(new.view.versions))])
       /\ stage
  ELSE Fails(new, "ValueError")

(* The loop: a view is observed; if the generation goes on, another is polled.   *)
Observed ==
  /\ at = "observed" /\ UNCHANGED clientVars
  /\ Accepts(report, IF report.view.status = "GENERATING" THEN Goto("poll", 0, step.count)
                                                          ELSE Goto("ready", 0, 0))
Bounded == at = "poll" /\ sent["workflow"] = None /\ Fails(report, "TimeoutError") /\ UNCHANGED clientVars
Polled ==
  /\ at = "poll" /\ Answered
  /\ Keeps([report EXCEPT !.view = View]) /\ Goto("observed", 0, step.count + 1)

(* Client.practice_snapshot: the questions the database has now.                 *)
Persisted == server.versions
(* Not READY is final; else the rows of the database are kept for the end.       *)
Ready ==
  /\ at = "ready" /\ UNCHANGED clientVars
  /\ \/ report.view.status # "READY" /\ Returns([report EXCEPT !.status = "GENERATION_TERMINAL_NO_RETRY"])
     \/ /\ report.view.status = "READY" /\ \A q \in Questions : ~report.view.answered[q]
        /\ Keeps([report EXCEPT !.stored = Persisted]) /\ Goto("answer", 1, 0)
     \/ /\ report.view.status = "READY" /\ \E q \in Questions : report.view.answered[q]
        /\ Fails(report, "ValueError")
Answers ==
  /\ at = "answer" /\ Answered
  /\ Saves([report EXCEPT !.answers = Append(@, step.item)]) /\ Goto("observe", step.item, 0)
AnswerObserved ==
  /\ at = "observe" /\ Answered
  /\ Accepts([report EXCEPT !.view = View],
             IF step.item = N THEN Goto("final", 0, 0) ELSE Goto("answer", step.item + 1, 0))
Final ==
  /\ at = "final" /\ UNCHANGED clientVars
  /\ IF /\ Persisted = report.stored /\ server.status = "READY"
        /\ \A q \in Questions : report.view.answered[q]
     THEN Returns([report EXCEPT !.status = "COMPLETED"])
     ELSE Fails(report, "ValueError")
-----------------------------------------------------------------------------
Init == ClientInit(Requests) /\ server = NoServer

Process ==
  /\ \/ SetSeen \/ Snapshot \/ Observed \/ Bounded \/ Polled \/ Ready \/ Answers
     \/ AnswerObserved \/ Final
  /\ UNCHANGED server
(* max_polls *)
Works ==
  \/ (at = "poll" => step.count < MaxPolls) /\ Ask
  \/ Reaches("workflow") \/ Lost \/ Process \/ Unanswered(Errors("ValueError"))
Next ==
  \/ Starts \/ Resumes \/ Works \/ ServerWorks \/ Killed \/ RemovesLock
  \/ server.status # None /\ Sends
  \/ Reaches("operator") \/ Hears
Spec == Init /\ [][Next]_vars /\ WF_vars(Works)

(* reading, _observe: when the workflow completes, every question it accepted, from
   the first view on, is the one the database has, and each was answered by it.  *)
CompletesTruly ==
  at # "off" /\ artifact' # None /\ artifact'.status = "COMPLETED" =>
    /\ artifact'.accepted = server.versions
    /\ artifact'.answers = [q \in Questions |-> q]
    /\ \A q \in Questions : server.answered[q]

(* reading: whatever the back end does, every wait is bounded.                   *)
WorkflowEnds == (at # "off") ~> (at = "off")
=============================================================================
