------------------------------ MODULE Providers ------------------------------
(***************************************************************************)
(* What calls a provider: the pool of the AI providers, the retried        *)
(* translations behind their store, the translation of utterances, their   *)
(* transcription by OpenAI and the gate of the profile executions. They    *)
(* share no state; what is asked of them is the same: places that are      *)
(* given back on every path, and no call that need not be made.            *)
(***************************************************************************)
EXTENDS ExecutionGate, ProviderPool, IdempotencyStore, VoiceTranslation, HostedTranscription

(* The pool and the store at every moment.                                   *)
CallsInv == PoolInv /\ StoreInv
(* What a call to a provider for an utterance may hold, ask and return.      *)
UtteranceInv == TranslationInv /\ HostedInv
(* No new call to a provider that cools down, none for what is stored.       *)
NoCallInVain == [][CoolingIsLeftAlone /\ NotTwice]_<<poolVars, storeVars>>
(* Every call ends, whoever else fails, hangs or leaves.                     *)
EveryCallEnds == PoolCallsEnd /\ RetriesEnd /\ TranslationEnds /\ HostedEnds /\ RequestsEnd
=============================================================================
