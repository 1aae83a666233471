------------------------------ MODULE MCProviders ------------------------------
(* Instances of Providers for TLC. The initial state chooses which of the
   components runs.                                                          *)
EXTENDS Providers, TLC

CONSTANTS c1, c2, c3, c4, c5, first, second, retryA, retryB, same, other

MCDocked == <<first, second>>
MCSlotConcurrency == (first :> 1) @@ (second :> 2)
(* The last call's method is offered by one of the two only.                 *)
MCServes == [c \in PoolCalls |-> IF c = c4 THEN {first} ELSE {first, second}]

(* Three retries of one id, one of which asks for something else.            *)
MCKey == [c \in Retries |-> IF c \in {c1, c2, c3} THEN retryA ELSE retryB]
MCPayload == [c \in Retries |-> IF c = c3 THEN other ELSE same]

Error(type, status, permanent) == [kind |-> type, status |-> status, permanent |-> permanent]
MCTranslationErrors ==
  { Error("status", 503, FALSE), Error("status", 502, TRUE),
    Error("timeout", None, FALSE), Error("status", 400, FALSE) }
Text(text, language, readings) == [text |-> text, language |-> language, readings |-> readings]
MCAnswers ==
  { Text("plain", "ja", readings) : readings \in {"fit", "unfit", "none"} }
  \cup { Text("plain", "en", "fit"), Text("markup", "en", "none") }

MCServiceErrors ==
  { [kind |-> "timeout", status |-> 0], [kind |-> "status", status |-> 429],
    [kind |-> "status", status |-> 400] }
Heard(text, segments, silent, named) ==
  [valid |-> TRUE, text |-> text, segments |-> segments, silent |-> silent, named |-> named]
MCTranscripts ==
  { Heard("words", "words", FALSE, <<name>>) : name \in {"ja", "japanese", "jpn", "und"} }
  \cup { Heard("words", "words", FALSE, <<"ja", name>>) : name \in {"en", "fr", "jpn"} }
  \cup { Heard("words", "words", TRUE, <<"ja">>), Heard("words", "blank", FALSE, <<"ja">>),
         Heard("", "blank", FALSE, <<"ja">>) }

ASSUME GateAssumption
ASSUME PoolAssumption
ASSUME StoreAssumption
ASSUME TranslationAssumption
ASSUME HostedAssumption

VARIABLE part
all == <<part, vars, poolVars, storeVars, callVars, requestVars>>

AllInit ==
  /\ part \in {"pool", "store", "translation", "transcription", "gate"}
  /\ Init /\ PoolInit /\ StoreInit /\ TranslationInit /\ HostedInit
  /\ part # "transcription" => provider = "whisper" /\ owned
AllNext ==
  /\ UNCHANGED part
  /\ \/ /\ part = "pool" /\ PoolNext
        /\ UNCHANGED <<vars, storeVars, callVars, requestVars>>
     \/ /\ part = "store" /\ StoreNext
        /\ UNCHANGED <<vars, poolVars, callVars, requestVars>>
     \/ /\ part = "translation" /\ TranslationNext
        /\ UNCHANGED <<vars, poolVars, storeVars, requestVars>>
     \/ /\ part = "transcription" /\ HostedNext
        /\ UNCHANGED <<vars, poolVars, storeVars, callVars>>
     \/ /\ part = "gate" /\ Next
        /\ UNCHANGED <<poolVars, storeVars, callVars, requestVars>>
AllSpec ==
  /\ AllInit /\ [][AllNext]_all
  (* Nothing of those that do not run is ever enabled.                       *)
  /\ Fairness /\ PoolFairness /\ StoreFairness /\ TranslationFairness /\ HostedFairness
=============================================================================
