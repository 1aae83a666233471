------------------------------- MODULE MCSpeech -------------------------------
(* The registry of voice streams, the local runtime they share and the preview
   of an utterance. The initial state chooses which of them runs.           *)
EXTENDS SpeechRuntime, StreamRegistry, RealtimePreview
ASSUME RuntimeAssumption /\ RegistryAssumption /\ BoundAssumption

VARIABLE part
all == <<part, vars, speechVars, previewVars>>

AllInit ==
  /\ part \in {"preview", "runtime", "registry"}
  /\ Init /\ RuntimeInit /\ PreviewInit
AllNext ==
  /\ UNCHANGED part
  /\ \/ part = "preview" /\ PreviewNext /\ UNCHANGED <<vars, speechVars>>
     \/ part = "runtime" /\ RuntimeNext /\ UNCHANGED <<vars, previewVars>>
     \/ part = "registry" /\ Next /\ UNCHANGED <<speechVars, previewVars>>
(* The tasks of a preview run, the language is asked with a deadline, and the provider
   answers a committed audio or ends; the 18 seconds of the whole job need not pass. In
   the initial states of the others nothing is enabled that is fair.         *)
AllSpec ==
  /\ AllInit /\ [][AllNext]_all
  /\ WF_previewVars(part = "preview" /\ MainNext)
  /\ WF_previewVars(part = "preview" /\ LanguageNext)
  /\ WF_previewVars(part = "preview" /\ AudioNext)
  /\ WF_previewVars(part = "preview" /\ TranslateNext)
  /\ RuntimeFairness /\ Fairness

(* Nobody waits for ever for the runtime, a shutdown or a preview.           *)
EverybodyReturns == CallersReturn /\ ShutdownReturns /\ JobEnds
=============================================================================
