-------------------------- MODULE HostedTranscription --------------------------
(***************************************************************************)
(* The recognition of an utterance by OpenAI                                 *)
(* (app/features/voice_translation/hosted_stt.py and transcribe_stt.py): a   *)
(* few requests at a time, one deadline for the wait and the call, a result  *)
(* whose language later stages take on trust. The transcribe provider also   *)
(* looks at an utterance that is still spoken, in slots of its own; whisper  *)
(* answers such a request with nothing. The service is external; a language  *)
(* code comes without its region.                                            *)
(***************************************************************************)
EXTENDS AsyncSemaphore

CONSTANTS
  Utterances,    \* bound: the calls of transcribe_pcm
  FinalSlots,    \* max_concurrency
  PreviewSlots,  \* max_preview_concurrency
  Supported,     \* SUPPORTED_VOICE_LANGUAGES
  ServiceErrors, \* what the SDK may raise: a kind and a status
  Transcripts,   \* what the service may answer
  None

VARIABLES
  provider,  \* whisper or transcribe
  closed,    \* shutdown was called
  owned,     \* the provider made its client itself and closes it
  use,       \* of each request: final or preview
  requestAt, \* how far it is
  final, preview, \* the semaphores
  heard,     \* what the service answered
  late,      \* requests whose call began after shutdown
  transcript \* what the request returned or raised

requestVars == <<provider, closed, owned, use, requestAt, final, preview, heard, late, transcript>>
RequestEnded == {"returned", "failed", "left"}
-----------------------------------------------------------------------------
(* _normalize_hosted_language: names and codes, and a word for what is neither. *)
Names == [english |-> "en", korean |-> "ko", japanese |-> "ja"]
Unnamed == {"", "und", "unknown"}
Codes == {"en", "ko", "ja", "fr", "eng", "jpn", "und"} \* two or three letters
Normalized(name) ==
  IF name \in Unnamed THEN None
  ELSE IF name \in DOMAIN Names THEN Names[name]
  ELSE IF name \in Codes THEN name ELSE "unsupported"

(* _detected_language: an unsupported one first, and none if there are several. The mutant
   takes the first.                                                          *)
Aliases == [eng |-> "en", kor |-> "ko", jpn |-> "ja"]
HostedAssumption ==
  /\ IsFiniteSet(Utterances) /\ {FinalSlots, PreviewSlots} \subseteq Nat \ {0}
  /\ Supported \cap ({None, "unsupported"} \cup DOMAIN Aliases) = {}
  /\ None \notin Transcripts /\ \A t \in Transcripts : t.named \in Seq(STRING)
Canonical(code) == IF code \in DOMAIN Aliases THEN Aliases[code] ELSE code
Detected(codes) == { Canonical(codes[i]) : i \in DOMAIN codes } \ {"und"}
LanguageIsFirst(codes) == IF codes = <<>> THEN None ELSE Canonical(codes[1])
Language(codes) ==
  LET unsupported == Detected(codes) \ Supported IN
  IF unsupported # {} THEN CHOOSE l \in unsupported : TRUE
  ELSE IF Cardinality(Detected(codes)) = 1 THEN CHOOSE l \in Detected(codes) : TRUE ELSE None

(* The answer read: whisper names one language, wants a segment with text for a text, and takes
   an utterance that is mostly silence for one without words; transcribe wants codes. *)
Readable(t) ==
  /\ t.valid
  /\ IF provider = "whisper" THEN t.text = "" \/ t.segments = "words"
     ELSE ToSet(t.named) \subseteq Codes
Words(t) == IF provider = "whisper" /\ t.silent THEN "" ELSE t.text
(* The mutant trusts any language that comes with words.                     *)
TrustsAny(text, language) == text # ""
Trusts(text, language) == text # "" /\ language \in Supported
Result(text, language) ==
  [text |-> text, language |-> language, trusted |-> Trusts(text, language)]
Read(t) ==
  Result(Words(t), IF provider = "whisper" THEN Normalized(t.named[1]) ELSE Language(t.named))
Nothing == Result("", None)
-----------------------------------------------------------------------------
RequestBecomes(c, state) == requestAt' = [requestAt EXCEPT ![c] = state]
RequestEnds(c, state, what) ==
  RequestBecomes(c, state) /\ transcript' = [transcript EXCEPT ![c] = what]
Failure(code, retryable) == [code |-> code, retryable |-> retryable]
NotReady == Failure("MODEL_NOT_READY", FALSE)

(* Requests that are still spoken wait in slots of their own. The mutant has one set of slots. *)
SharesSlots(c) == TRUE
UsesFinal(c) == use'[c] = "final"
SlotsOf(c) == IF UsesFinal(c) THEN final ELSE preview
SlotsBecome(c, m) ==
  /\ final' = (IF UsesFinal(c) THEN m ELSE final)
  /\ preview' = (IF UsesFinal(c) THEN preview ELSE m)
KeepsSlots == UNCHANGED <<final, preview>>
Settings == <<provider, owned>>

(* What is answered without the service.                                     *)
Asked(c, how, pcm) ==
  /\ requestAt[c] = "new" /\ use' = [use EXCEPT ![c] = how]
  /\ LET skipped == provider = "whisper" /\ how = "preview" IN
     \/ (skipped \/ pcm = "silence") /\ RequestEnds(c, "returned", Nothing) /\ KeepsSlots
     \/ /\ ~skipped /\ pcm = "malformed" /\ KeepsSlots
        /\ RequestEnds(c, "failed", Failure("INVALID_AUDIO_FRAME", FALSE))
     \/ ~skipped /\ pcm = "sound" /\ closed /\ RequestEnds(c, "failed", NotReady) /\ KeepsSlots
     \/ /\ ~skipped /\ pcm = "sound" /\ ~closed /\ UNCHANGED transcript
        /\ SlotsBecome(c, Acquire(SlotsOf(c), c))
        /\ RequestBecomes(c, IF Locked(SlotsOf(c)) THEN "waits" ELSE "calling")
  /\ UNCHANGED <<Settings, closed, heard, late>>

(* A request that has waited looks again whether there still is a service; whisper does not.
   The mutant never does.                                                    *)
NeverRefused == FALSE
Refused == provider = "transcribe" /\ closed
Admitted(c) ==
  /\ requestAt[c] = "waits" /\ use' = use /\ c \in SlotsOf(c).woken
  /\ LET mine == Resumed(SlotsOf(c), c) IN
     IF Refused
     THEN /\ RequestEnds(c, "failed", NotReady) /\ SlotsBecome(c, Release(mine, c))
          /\ UNCHANGED late
     ELSE /\ RequestBecomes(c, "calling") /\ SlotsBecome(c, mine) /\ UNCHANGED transcript
          /\ late' = IF closed THEN late \cup {c} ELSE late
  /\ UNCHANGED <<Settings, closed, heard>>

Returns(c) ==
  /\ requestAt[c] = "calling" /\ use' = use /\ SlotsBecome(c, Release(SlotsOf(c), c))
  /\ UNCHANGED <<Settings, closed, late>>
ServiceAnswers(c, t) ==
  /\ Returns(c) /\ heard' = [heard EXCEPT ![c] = t]
  /\ IF Readable(t) THEN RequestEnds(c, "returned", Read(t))
     ELSE RequestEnds(c, "failed", Failure("STT_FAILED", FALSE))
ServiceRaises(c, e) ==
  /\ Returns(c) /\ UNCHANGED heard
  /\ RequestEnds(c, "failed",
       IF e.kind = "timeout" THEN Failure("STT_TIMEOUT", TRUE)
       ELSE Failure("STT_FAILED", e.kind = "connection" \/ e.status = 429 \/ e.status >= 500))

(* The deadline passes, or the caller is cancelled, in the wait or in the call. *)
GivesBackHeld(c) == IF requestAt[c] = "calling" THEN Release(SlotsOf(c), c) ELSE SlotsOf(c)
GivesBack(c) == IF requestAt[c] = "calling" THEN Release(SlotsOf(c), c) ELSE Abandon(SlotsOf(c), c)
Stops(c, state, what) ==
  /\ requestAt[c] \in {"waits", "calling"} /\ use' = use
  /\ SlotsBecome(c, GivesBack(c)) /\ RequestEnds(c, state, what)
  /\ UNCHANGED <<Settings, closed, heard, late>>
Deadline(c) == Stops(c, "failed", Failure("STT_TIMEOUT", TRUE))
Cancelled(c) == Stops(c, "left", None)

(* A client of its own is closed: calls under way end with an error sooner or later. *)
Shutdown ==
  /\ ~closed /\ closed' = TRUE
  /\ UNCHANGED <<Settings, use, requestAt, final, preview, heard, late, transcript>>

HostedInit ==
  /\ provider \in {"whisper", "transcribe"} /\ owned \in BOOLEAN /\ closed = FALSE /\ late = {}
  /\ final = Semaphore(FinalSlots) /\ preview = Semaphore(PreviewSlots)
  /\ use = [c \in Utterances |-> "final"] /\ requestAt = [c \in Utterances |-> "new"]
  /\ heard = [c \in Utterances |-> None] /\ transcript = [c \in Utterances |-> None]
ServiceEnds(c) ==
  \/ \E e \in ServiceErrors : ServiceRaises(c, e)
  \/ /\ ~(closed /\ owned)
     /\ \E t \in Transcripts :
          (provider = "whisper" => Len(t.named) = 1) /\ ServiceAnswers(c, t)
HostedNext ==
  \/ Shutdown
  \/ \E c \in Utterances :
       \/ Admitted(c) \/ ServiceEnds(c) \/ Deadline(c) \/ Cancelled(c)
       \/ \E how \in {"final", "preview"}, pcm \in {"sound", "silence", "malformed"} :
            Asked(c, how, pcm)
HostedFairness == \A c \in Utterances : WF_requestVars(Admitted(c) \/ Deadline(c))
HostedSpec == HostedInit /\ [][HostedNext]_requestVars
HostedFairSpec == HostedSpec /\ HostedFairness
-----------------------------------------------------------------------------
Of(how, states) == { c \in Utterances : use[c] = how /\ requestAt[c] \in states }

(* transcribe_pcm: every path out of the wait or the call gives back what it held, and a final
   recognition waits for other final ones alone, however long the previews take. *)
FinalsWaitForFinals ==
  /\ final.held = Of("final", {"calling"}) /\ Waiters(final) = Of("final", {"waits"})
  /\ preview.held = Of("preview", {"calling"}) /\ Waiters(preview) = Of("preview", {"waits"})
  /\ Conserved(final, FinalSlots) /\ NoLostWakeup(final)
  /\ Conserved(preview, PreviewSlots) /\ NoLostWakeup(preview)

(* shutdown: a request that waits when transcription is shut down makes no call any more. *)
NoCallAfterShutdown == provider = "transcribe" => late = {}

(* trusted_language: a language is taken on trust only with words, and only if the service named
   that one and no other.                                                    *)
TrustIsEarned ==
  \A c \in Utterances : requestAt[c] = "returned" /\ heard[c] # None =>
    LET t == heard[c]
        named == { t.named[i] : i \in DOMAIN t.named } \ {"und"} IN
    transcript[c].language \in Supported =>
      /\ \A n \in named : \/ Canonical(n) = transcript[c].language
                          \/ n \in DOMAIN Names /\ Names[n] = transcript[c].language
      /\ transcript[c].trusted = (transcript[c].text # "")
TrustNeedsWords ==
  \A c \in Utterances : requestAt[c] = "returned" /\ transcript[c].trusted =>
    heard[c] # None /\ heard[c].text # "" /\ transcript[c].language \in Supported
      /\ ~(provider = "whisper" /\ heard[c].silent)

HostedInv == FinalsWaitForFinals /\ NoCallAfterShutdown /\ TrustIsEarned /\ TrustNeedsWords

(* Every request ends, also if the service never answers those before it; a request is made
   once, so from some time on none is under way.                             *)
HostedEnds == <>[](\A c \in Utterances : requestAt[c] \in {"new"} \cup RequestEnded)
=============================================================================
