--------------------------- MODULE VoiceTranslation ---------------------------
(***************************************************************************)
(* The translation of final utterances for all channels                      *)
(* (app/features/voice_translation/translation.py, errors.py,                *)
(* final_translation.py): a few slots, one deadline for the wait and all     *)
(* attempts together, one for every attempt, and a retry of those errors     *)
(* only that are quick and may pass. The provider is external; of its text   *)
(* only what the checks distinguish is kept.                                 *)
(***************************************************************************)
EXTENDS AsyncSemaphore

CONSTANTS
  Sentences,         \* bound: the calls of translate
  MaxConcurrency,    \* AI_VOICE_TRANSLATION_MAX_CONCURRENCY
  MaxRetries,        \* AI_VOICE_TRANSLATION_MAX_RETRIES
  TranslationErrors, \* what the provider may raise: a kind, a status, whether it is for good
  Answers,           \* what it may answer in full: a text, the sentence's language, readings
  NoOutcome

TranslationAssumption ==
  IsFiniteSet(Sentences) /\ MaxConcurrency \in Nat \ {0} /\ MaxRetries \in Nat

VARIABLES
  callAt,    \* how far each call is
  callSlots, \* _translation_slots
  tries,     \* the attempts of each call and how they ended
  outcome    \* what each call returned or raised

callVars == <<callAt, callSlots, tries, outcome>>
CallEnded == {"translated", "skipped", "failed", "left"}
-----------------------------------------------------------------------------
(* map_translation_provider_exception. The mutant does not heed what the provider says. *)
Timeout(e) == e.kind = "timeout" \/ e.status \in {408, 504}
Passing(e) == e.kind = "connection" \/ e.status \in {429, 500, 502, 503}
MappedFreely(e) ==
  [code |-> IF Timeout(e) THEN "TRANSLATION_TIMEOUT" ELSE "TRANSLATION_FAILED",
   retryable |-> Timeout(e) \/ Passing(e)]
Mapped(e) ==
  [code |-> IF Timeout(e) THEN "TRANSLATION_TIMEOUT" ELSE "TRANSLATION_FAILED",
   retryable |-> ~e.permanent /\ (Timeout(e) \/ Passing(e))]

(* OpenAIVoiceFinalTranslationProvider: an answer that was cut short is an error of its own. *)
CutShort == [kind |-> "incomplete", status |-> NoOutcome, permanent |-> TRUE]

(* _validate_plain_text and _validate_reading_tokens: a translation without a text or with
   markup fails; readings that do not make up the sentence are dropped with a warning.
   The mutant of the latter shows whatever came.                             *)
Plain(a) == a.text = "plain"
ReadingsAny(a) == [readings |-> a.readings # "none", warned |-> FALSE]
Readings(a) ==
  IF a.language # "ja" THEN [readings |-> FALSE, warned |-> FALSE]
  ELSE [readings |-> a.readings = "fit", warned |-> a.readings # "fit"]
-----------------------------------------------------------------------------
CallBecomes(c, state) == callAt' = [callAt EXCEPT ![c] = state]
Tried(c, how) == tries' = [tries EXCEPT ![c] = Append(@, how)]
CallEnds(c, state, what) == CallBecomes(c, state) /\ outcome' = [outcome EXCEPT ![c] = what]
CallFailure(code) == [code |-> code]
Holding == { c \in Sentences : callAt[c] \in {"calling", "pausing"} }

(* A sentence that is in the language already is not translated.             *)
CallSkipped(c) ==
  /\ callAt[c] = "new" /\ CallEnds(c, "skipped", NoOutcome) /\ UNCHANGED <<callSlots, tries>>
Enter(c) ==
  /\ callAt[c] = "new" /\ callSlots' = Acquire(callSlots, c)
  /\ CallBecomes(c, IF Locked(callSlots) THEN "waits" ELSE "calling")
  /\ UNCHANGED <<tries, outcome>>
CallAdmitted(c) ==
  /\ callAt[c] = "waits" /\ c \in callSlots.woken
  /\ callSlots' = Resumed(callSlots, c) /\ CallBecomes(c, "calling") /\ UNCHANGED <<tries, outcome>>

(* An attempt answers, or raises and, when that may pass, is followed by another. *)
MayTryAgain(c, e) == Mapped(e).retryable /\ Len(tries[c]) < MaxRetries
CallRaises(c, e) ==
  /\ callAt[c] = "calling" /\ Tried(c, e)
  /\ IF MayTryAgain(c, e)
     THEN CallBecomes(c, "pausing") /\ UNCHANGED <<callSlots, outcome>>
     ELSE CallEnds(c, "failed", CallFailure(Mapped(e).code)) /\ callSlots' = Release(callSlots, c)
CallAnswers(c, a) ==
  /\ callAt[c] = "calling" /\ Tried(c, a) /\ callSlots' = Release(callSlots, c)
  /\ IF Plain(a) THEN CallEnds(c, "translated", Readings(a))
     ELSE CallEnds(c, "failed", CallFailure("TRANSLATION_FAILED"))
Again(c) ==
  /\ callAt[c] = "pausing" /\ CallBecomes(c, "calling") /\ UNCHANGED <<callSlots, tries, outcome>>

(* An attempt that used up its own time is cancelled and not repeated. The mutant takes it
   for an error of the provider.                                             *)
OwnWait == [kind |-> "own wait", status |-> NoOutcome, permanent |-> FALSE]
GivesUpNot(c) == CallBecomes(c, "pausing") /\ UNCHANGED <<callSlots, outcome>>
GivesUp(c) ==
  CallEnds(c, "failed", CallFailure("TRANSLATION_TIMEOUT")) /\ callSlots' = Release(callSlots, c)
AttemptTimesOut(c) == callAt[c] = "calling" /\ Tried(c, OwnWait) /\ GivesUp(c)

(* The deadline of the whole passes, or the caller is cancelled, wherever the call is. *)
GivesBackNot(c) == IF c \in Holding THEN callSlots ELSE Abandon(callSlots, c)
CallGivesBack(c) == IF c \in Holding THEN Release(callSlots, c) ELSE Abandon(callSlots, c)
CallStops(c) ==
  /\ callAt[c] \in {"waits", "calling", "pausing"} /\ callSlots' = CallGivesBack(c)
  /\ UNCHANGED tries
  /\ CallEnds(c, "failed", CallFailure("TRANSLATION_TIMEOUT")) \/ CallEnds(c, "left", NoOutcome)

TranslationInit ==
  /\ callAt = [c \in Sentences |-> "new"] /\ callSlots = Semaphore(MaxConcurrency)
  /\ tries = [c \in Sentences |-> <<>>] /\ outcome = [c \in Sentences |-> NoOutcome]
Work(c) ==
  \/ CallAdmitted(c) \/ Again(c) \/ AttemptTimesOut(c)
  \/ \E e \in TranslationErrors \cup {CutShort} : CallRaises(c, e)
  \/ \E a \in Answers : CallAnswers(c, a)
TranslationNext == \E c \in Sentences : CallSkipped(c) \/ Enter(c) \/ Work(c) \/ CallStops(c)
TranslationFairness == \A c \in Sentences : WF_callVars(Work(c))
TranslationSpec == TranslationInit /\ [][TranslationNext]_callVars
TranslationFairSpec == TranslationSpec /\ TranslationFairness
-----------------------------------------------------------------------------
(* translate: the slots are those of the calls that have one, on every path out, and
   nobody waits for a free one.                                              *)
SlotsAreKept ==
  /\ callSlots.held = Holding /\ Waiters(callSlots) = { c \in Sentences : callAt[c] = "waits" }
  /\ Conserved(callSlots, MaxConcurrency) /\ NoLostWakeup(callSlots)

(* _translate_with_retries: an attempt is followed by another only if the provider was quick
   to fail and did not say for good, and not more often than allowed; what was cut short,
   timed out here or answered is never asked for again.                      *)
RetriesAreWorthIt ==
  \A c \in Sentences :
    LET more == IF callAt[c] \in {"calling", "pausing"} THEN Len(tries[c]) ELSE Len(tries[c]) - 1
    IN /\ Len(tries[c]) <= MaxRetries + 1
       /\ \A i \in 1 .. more : LET e == tries[c][i] IN
            e \in TranslationErrors /\ ~e.permanent /\ (Timeout(e) \/ Passing(e))

(* A translation that is returned is the last attempt's, complete and plain, and shows the
   readings of a Japanese sentence only if they make it up.                  *)
TextIsSound ==
  \A c \in Sentences : callAt[c] = "translated" =>
    LET a == tries[c][Len(tries[c])]
    IN /\ a \in Answers /\ a.text = "plain"
       /\ outcome[c].readings => a.language = "ja" /\ a.readings = "fit"

TranslationInv == SlotsAreKept /\ RetriesAreWorthIt /\ TextIsSound

(* Every call that entered ends, whoever else times out or leaves while it waits; a call is
   made once, so from some time on none is under way.                        *)
TranslationEnds == <>[](\A c \in Sentences : callAt[c] \in {"new"} \cup CallEnded)
=============================================================================
