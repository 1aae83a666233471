--------------------------- MODULE UtteranceLanguage ---------------------------
(***************************************************************************)
(* What one channel makes of the languages it hears: the lock on a language *)
(* (LanguageStateManager in app/features/voice_translation/language.py), the *)
(* second transcription under that lock, and the earlier sentence that is     *)
(* handed to the translator as context (stream.py).                            *)
(*                                                                             *)
(* Utterances are numbered as they start. The detector of silence settles one  *)
(* at once, ahead of those that still wait to be finalized; the others are      *)
(* finalized one by one in their order. A text is the number of its utterance,   *)
(* and a confidence a level: only its order to the thresholds matters.            *)
(***************************************************************************)
EXTENDS Integers, Sequences, FiniteSets

CONSTANTS
  Supported,      \* SUPPORTED_VOICE_LANGUAGES
  Heard,          \* what a transcription may bring: language, confidence, trusted, repetitive
  Minimum, Retry, Lock, Switch,   \* the thresholds of a confidence
  SwitchCount,    \* language_switch_consecutive_count
  GapLimit,       \* _MAX_TRANSLATION_CONTEXT_GAP_MS
  MaxSilent,      \* _MAX_TRANSLATION_CONTEXT_SILENCE_SEGMENTS
  Pauses,         \* how much time passes before an utterance
  MaxUtterances,  \* bound: utterances of the channel
  None

VARIABLES
  manual,     \* the language the user chose, or None
  locked,     \* _locked_language
  challenger,  \* _switch_candidate
  count,      \* _switch_count
  start,      \* when each of the utterances began
  jobs,       \* those that wait to be finalized, in order
  silent,     \* _context_no_speech_sequences
  completed,  \* _last_completed_*: the number, language and end of the last sentence
  handed,     \* what the translator was last handed: the sentence, its source, its context
  fate,       \* history: what became of each utterance; of a translated one, its language
  evidence    \* history: the last scored detections, the latest first

(* What of the constants the properties rest on: the values are told apart. *)
LanguageAssumption ==
  /\ None \notin Supported \cup Nat \cup {"other"}
  /\ Supported \cap {"other", "waits", "silent", "failed", "assumed"} = {}
  /\ SwitchCount \in Nat \ {0} /\ {Lock, Switch, GapLimit} \cup Pauses \subseteq Nat
  /\ \A h \in Heard : h.confidence \in Nat \cup {None}

language == <<manual, locked, challenger, count, evidence>>
languageVars == <<language, start, jobs, silent, completed, handed, fate>>
-----------------------------------------------------------------------------
(* _normalize_supported_observation, normalize_confidence                           *)
Unsupported(h) == h.language \notin Supported \cup {None}
Detected(h) == IF h.language \in Supported THEN h.language ELSE None
Confidence(h) == IF Detected(h) = None THEN None ELSE h.confidence
Scored(h) == Confidence(h) # None
Identified(h) ==
  /\ Detected(h) # None
  /\ IF Scored(h) THEN h.confidence >= Minimum ELSE h.trusted

(* What observe refuses: a known other language and, under a chosen one, whatever is
   not certainly that one. The mutant translates under the lock what it cannot read.  *)
RefusedNot(h) == manual # None /\ (~Identified(h) \/ Detected(h) # manual)
Refused(h) ==
  \/ Unsupported(h)
  \/ manual # None /\ (~Identified(h) \/ Detected(h) # manual)

(* observe: the lock, the candidate that would take it over and how often in a row it
   was heard. The mutant lets a doubtful detection in between go by.                    *)
Standing == [locked |-> locked, candidate |-> None, count |-> 0]
KeepsCandidate(h) == [locked |-> locked, candidate |-> challenger, count |-> count]
Unconvinced(h) == Standing
Challenged(h) ==
  LET n == IF Detected(h) = challenger THEN count + 1 ELSE 1
  IN IF n >= SwitchCount THEN [Standing EXCEPT !.locked = Detected(h)]
     ELSE [locked |-> locked, candidate |-> Detected(h), count |-> n]
Observed(h) ==
  CASE manual # None \/ Refused(h) \/ ~Scored(h) -> KeepsCandidate(h)
    [] OTHER ->
       IF locked = None
       THEN [KeepsCandidate(h) EXCEPT !.locked = IF h.confidence >= Lock THEN Detected(h) ELSE None]
       ELSE IF Detected(h) = locked THEN Standing
       ELSE IF h.confidence >= Switch THEN Challenged(h)
       ELSE Unconvinced(h)

(* resolve_translation_source, after observe: None is LANGUAGE_UNDETERMINED.            *)
Source(h) ==
  IF manual # None THEN manual
  ELSE IF Identified(h) THEN Detected(h)
  ELSE Observed(h).locked

(* _transcribe_final_with_context: a doubtful other language in a text that repeats
   itself is transcribed again under the lock; what comes back counts without a score.   *)
ReadsAgain(h) ==
  /\ manual = None /\ locked # None /\ Unsupported(h)
  /\ h.confidence # None /\ h.confidence < Retry /\ h.repetitive
Reread == [language |-> locked, confidence |-> None, trusted |-> FALSE, repetitive |-> FALSE]
Transcribed(h) == {h} \cup (IF ReadsAgain(h) THEN {Reread} ELSE {})
-----------------------------------------------------------------------------
(* _has_only_silence_context_gap and the choice of previous_source_text. The mutant hands
   over whatever sentence came before.                                                      *)
OnlySilenceBefore(n) ==
  /\ completed # None
  /\ n - completed.sequence \in 1 .. Cardinality(silent) + 1
  /\ (completed.sequence + 1) .. (n - 1) \subseteq silent
ContextAny(n, h) == IF completed # None THEN completed.sequence ELSE None
Context(n, h) ==
  IF /\ OnlySilenceBefore(n)
     /\ completed.language = Source(h) /\ Detected(h) = Source(h)
     /\ start[n] - start[completed.sequence] <= GapLimit
  THEN completed.sequence ELSE None

(* _emit_no_speech: of too many silences the oldest is forgotten.                           *)
WithSilence(n) ==
  LET more == silent \cup {n}
  IN IF Cardinality(more) > MaxSilent THEN { s \in more : \E t \in more : t < s } ELSE more

(* A completed sentence is the next one's context only if its language was heard; the
   mutant keeps one that was translated under the lock.                                     *)
KeepsAny(n, h) == [sequence |-> n, language |-> Source(h)]
Keeps(n, h) == IF Detected(h) = Source(h) THEN [sequence |-> n, language |-> Source(h)] ELSE None
-----------------------------------------------------------------------------
Started(pause) ==
  /\ Len(start) < MaxUtterances
  /\ start' = Append(start, pause + (IF start = <<>> THEN 0 ELSE start[Len(start)]))

(* The detector ends an utterance: with speech, or as silence before its turn.              *)
Speech(pause) ==
  /\ Started(pause) /\ jobs' = Append(jobs, Len(start) + 1) /\ fate' = Append(fate, "waits")
  /\ UNCHANGED <<language, silent, completed, handed>>
EarlySilence(pause) ==
  /\ Started(pause) /\ silent' = WithSilence(Len(start) + 1) /\ fate' = Append(fate, "silent")
  /\ UNCHANGED <<language, jobs, completed, handed>>

Finalizes(what) == jobs # <<>> /\ jobs' = Tail(jobs) /\ fate' = [fate EXCEPT ![Head(jobs)] = what]
(* emit_failure: what was said before is no context any more, and this was no silence.       *)
FailsOne ==
  /\ Finalizes("failed") /\ completed' = None /\ silent' = silent \ {Head(jobs)}
(* The guard of speech or the transcription finds none, or one of the two fails.             *)
LateSilence ==
  /\ Finalizes("silent") /\ silent' = WithSilence(Head(jobs))
  /\ UNCHANGED <<language, start, completed, handed>>
Fails == FailsOne /\ UNCHANGED <<language, start, handed>>
(* A flush or a close that waited too long fails everything that is left.                     *)
DrainTimesOut ==
  /\ Len(jobs) > 1 /\ jobs' = <<>> /\ completed' = None
  /\ fate' = [n \in DOMAIN fate |-> IF fate[n] = "waits" THEN "failed" ELSE fate[n]]
  /\ UNCHANGED <<language, start, silent, handed>>

Observe(h) ==
  LET o == Observed(h)
  IN /\ locked' = o.locked /\ challenger' = o.candidate /\ count' = o.count
     /\ UNCHANGED manual
     /\ evidence' = IF Scored(h) /\ ~Refused(h) /\ manual = None
                    THEN SubSeq(<<[of |-> Detected(h), at |-> h.confidence]>> \o evidence, 1,
                                IF Len(evidence) < SwitchCount THEN Len(evidence) + 1 ELSE SwitchCount)
                    ELSE evidence

(* _finalize_utterance: the transcript is shown; a language that is refused or that
   nobody knows fails the utterance.                                                         *)
Undetermined(h) ==
  /\ Refused(h) \/ Source(h) = None
  /\ Observe(h) /\ FailsOne /\ UNCHANGED <<start, handed>>
Hands(h) ==
  /\ ~Refused(h) /\ Source(h) # None /\ Observe(h)
  /\ handed' = [sequence |-> Head(jobs), spoken |-> IF Unsupported(h) THEN "other" ELSE Detected(h),
                source |-> Source(h), context |-> Context(Head(jobs), h)]
Translated(h) ==
  /\ Finalizes(IF Detected(h) = Source(h) THEN Source(h) ELSE "assumed") /\ Hands(h)
  /\ completed' = Keeps(Head(jobs), h) /\ silent' = { s \in silent : s > Head(jobs) }
  /\ UNCHANGED start
TranslationFails(h) == FailsOne /\ Hands(h) /\ UNCHANGED start

LanguageInit ==
  /\ manual \in Supported \cup {None} /\ locked \in Supported \cup {None}
  /\ manual # None => locked = manual
  /\ challenger = None /\ count = 0 /\ start = <<>> /\ jobs = <<>> /\ silent = {}
  /\ completed = None /\ handed = None /\ fate = <<>> /\ evidence = <<>>
LanguageNext ==
  \/ LateSilence \/ Fails \/ DrainTimesOut
  \/ \E pause \in Pauses : Speech(pause) \/ EarlySilence(pause)
  \/ \E heard \in Heard : \E h \in Transcribed(heard) :
       Undetermined(h) \/ Translated(h) \/ TranslationFails(h)
LanguageSpec == LanguageInit /\ [][LanguageNext]_languageVars
-----------------------------------------------------------------------------
(* LanguageStateManager.observe: the lock is given up only for a language
   that the last scored detections all were, each beyond the threshold, whatever was
   not recognised in between; a chosen language is never given up.                          *)
LockFollowsEvidence ==
  [][ locked' # locked =>
        /\ manual = None
        /\ IF locked = None THEN evidence'[1].of = locked' /\ evidence'[1].at >= Lock
           ELSE /\ Len(evidence') = SwitchCount
                /\ \A i \in 1 .. SwitchCount : evidence'[i].of = locked' /\ evidence'[i].at >= Switch ]_languageVars

(* What was recognised as another language is never translated as one of ours, and under
   a chosen language nothing is translated that was not heard in it.                          *)
NothingIsMisread ==
  handed # None =>
    /\ handed.spoken # "other"
    /\ manual # None => handed.source = manual /\ handed.spoken = manual

(* The context of a sentence is an earlier one that was translated, was heard in the same
   language and is near, and every utterance between the two is known to be silent.           *)
ContextIsNear ==
  handed # None /\ handed.context # None =>
    /\ handed.context < handed.sequence
    /\ fate[handed.context] = handed.source /\ handed.spoken = handed.source
    /\ \A n \in (handed.context + 1) .. (handed.sequence - 1) : fate[n] = "silent"
    /\ start[handed.sequence] - start[handed.context] <= GapLimit

LanguageInv == NothingIsMisread /\ ContextIsNear
=============================================================================
