------------------------------ MODULE MCQaTools ------------------------------
(* The tools of a campaign: a listening set, a read-aloud or a guided speaking
   session and a reading set driven through the back end, the environment they
   run in, and the budget of the quality campaign of the novel service. The
   initial state chooses one of them.                                         *)
EXTENDS QaEnvironment, CampaignClient, QualityCampaign, TLC

VARIABLE part
all == <<part, vars, environmentVars, qualityVars>>

L == INSTANCE ListeningWorkflow WITH
  N <- 2, Tasks <- 1, MaxRows <- 2, Manual <- {<<"submit", 2>>}
A == INSTANCE SpeakingWorkflow WITH
  ReadAloud <- TRUE, Probe <- TRUE, Turns <- 2,
  Manual <- {<<"retry problem", 1>>, <<"retry evaluation">>}
G == INSTANCE SpeakingWorkflow WITH
  ReadAloud <- FALSE, Probe <- FALSE, Turns <- 2,
  Manual <- {<<"retry turn", 1>>, <<"retry turn", 2>>}
R == INSTANCE ReadingWorkflow WITH
  N <- 2, MaxVersions <- 2, MaxRuns <- 2, Manual <- {<<"answer", 1>>}

ASSUME
  /\ EnvironmentAssumption /\ L!WorkflowAssumption
  /\ A!WorkflowAssumption /\ G!WorkflowAssumption /\ R!WorkflowAssumption
  /\ A!NothingRerecorded /\ G!NothingRerecorded

(* A process of a stage with a text and a speech call, one of the live service and one that
   explores without a stage.                                                              *)
MCOwner == [final |-> "stage", speech |-> "stage", live |-> "live", explore |-> "server"]
MCKind == [final |-> "profile", speech |-> "speech", live |-> "live", explore |-> "profile"]
MCPhase == [final |-> "final", speech |-> "tts", live |-> "explore", explore |-> "explore"]
MCMaximum == [stage |-> 2, live |-> 1, server |-> 2]

Init ==
  /\ \/ part = "listening" /\ L!Init
     \/ part = "read aloud" /\ A!Init
     \/ part = "guided" /\ G!Init
     \/ part \in {"reading", "environment", "quality"} /\ R!Init
  /\ EnvironmentInit /\ QualityInit
WorkflowNext ==
  \/ part = "listening" /\ L!Next
  \/ part = "read aloud" /\ A!Next
  \/ part = "guided" /\ G!Next
  \/ part = "reading" /\ R!Next
Next ==
  /\ UNCHANGED part
  /\ \/ WorkflowNext /\ UNCHANGED <<environmentVars, qualityVars>>
     \/ part = "environment" /\ EnvironmentNext /\ UNCHANGED <<vars, qualityVars>>
     \/ part = "quality" /\ QualityNext /\ UNCHANGED <<vars, environmentVars>>
Works ==
  \/ part = "listening" /\ L!Works
  \/ part = "read aloud" /\ A!Works
  \/ part = "guided" /\ G!Works
  \/ part = "reading" /\ R!Works
Spec == Init /\ [][Next]_all /\ WF_vars(Works)

(* A report says COMPLETED only of what the back end has completed, and a text that was
   recognised in a turn is never another text later.                           *)
ReportsAreTrue ==
  [][/\ part = "listening" => L!CompletesTruly
     /\ part = "read aloud" => A!CompletesTruly /\ A!KeepsText
     /\ part = "guided" => G!CompletesTruly /\ G!KeepsText
     /\ part = "reading" => R!CompletesTruly]_all
(* Every workflow that is not killed ends.                                     *)
WorkflowEnds == L!WorkflowEnds
=============================================================================
