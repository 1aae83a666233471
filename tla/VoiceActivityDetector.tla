------------------------ MODULE VoiceActivityDetector ------------------------
(* The endpointing of voice_translation/audio.py, class VoiceActivityDetector: it
   is given frame after frame, says when speech starts, and cuts the audio into
   utterances and stretches without speech.

   Frames follow each other without a gap, so that a frame is a stretch of time
   with a flag, the PCM data of a list of frames is the stretch from the start of
   the first to the end of the last, and keeping so many milliseconds of a list
   means cutting it at a point of time. RMS, peak and clipping are left out.     *)
EXTENDS Integers, Sequences, FiniteSets, FiniteSetsExt

CONSTANTS
  FrameMs,              (* frameDurationMs of STREAM_OPEN                    *)
  EndpointingSilenceMs, MinimumUtteranceMs, MaximumUtteranceMs, StartEvidenceMs,
  PartialIntervalMs, PreRollMs, PostRollMs, ForceSplitOverlapMs,
  SlackMs,              (* the 200 of _process_idle                          *)
  MaxOffset             (* bound: milliseconds of audio                      *)

(* schemas/voice_translation.py:72-78, config.py:175: a frame has at most 200 ms, the evidence at
   most 250, an utterance at least 1000.                                     *)
DurationAssumption ==
  /\ {FrameMs, EndpointingSilenceMs, MinimumUtteranceMs, MaximumUtteranceMs,
      StartEvidenceMs, PartialIntervalMs} \subseteq Nat \ {0}
  /\ {PreRollMs, PostRollMs, ForceSplitOverlapMs, SlackMs, MaxOffset} \subseteq Nat
  /\ FrameMs <= SlackMs /\ StartEvidenceMs + SlackMs < MaximumUtteranceMs

(* Of the settings: what is kept at a forced split and one frame more are evidence
   enough (100, 20 and 40 by default).                                       *)
OverlapAssumption == ForceSplitOverlapMs + FrameMs >= StartEvidenceMs

VARIABLES
  offset,        (* _offset_ms                                               *)
  preRoll,       (* _pre_roll                                                *)
  activeFrames,  (* _active_frames                                           *)
  active,        (* _active                                                  *)
  candidate,     (* _candidate_speech_ms                                     *)
  first, last,   (* _first_speech_offset_ms, _last_speech_offset_ms          *)
  silence,       (* _trailing_silence_ms                                     *)
  nextPartial,   (* _next_partial_at_ms                                      *)
  idleStart,     (* _idle_started_at_ms                                      *)
  result,        (* what process or flush has just returned                  *)
  announced,     (* history: where the latest speech started                 *)
  boundary,      (* history: where the next utterance may begin              *)
  run            (* history: milliseconds of speech without a break          *)

history == <<announced, boundary, run>>
vars == <<offset, preRoll, activeFrames, active, candidate, first, last, silence,
          nextPartial, idleStart, result, history>>

NoTime == -1
NoResult == [started |-> NoTime, partial |-> <<>>, utterance |-> <<>>, noSpeech |-> <<>>]

Init ==
  /\ offset = 0 /\ preRoll = <<>> /\ activeFrames = <<>> /\ active = FALSE
  /\ candidate = 0 /\ first = NoTime /\ last = NoTime /\ silence = 0
  /\ nextPartial = PartialIntervalMs /\ idleStart = NoTime /\ result = NoResult
  /\ announced = NoTime /\ boundary = 0 /\ run = 0

-----------------------------------------------------------------------------
(* Lists of frames *)

Frame(speech) == [start |-> offset, end |-> offset + FrameMs, speech |-> speech]
End(frames) == frames[Len(frames)].end
SpeechIn(frames) == { i \in DOMAIN frames : frames[i].speech }
FirstSpeech(frames) == frames[Min(SpeechIn(frames))].start
LastSpeech(frames) == frames[Max(SpeechIn(frames))].end
SpeechMs(frames) ==
  Cardinality(UNION { frames[i].start .. frames[i].end - 1 : i \in SpeechIn(frames) })

(* A list from the first of some of its places on.                           *)
Behind(frames, places) ==
  IF places = {} THEN <<>> ELSE SubSeq(frames, Min(places), Len(frames))

(* The list from a point of time on (_select_start_frames, _tail_frames), up to
   one (_frames_until), and its newest whole frames (_trim_pre_roll).        *)
From(frames, t) ==
  LET kept == Behind(frames, { i \in DOMAIN frames : frames[i].end > t })
  IN [i \in DOMAIN kept |-> [kept[i] EXCEPT !.start = IF @ < t THEN t ELSE @]]
Until(frames, t) ==
  LET kept == SubSeq(frames, 1, Max({ i \in DOMAIN frames : frames[i].start < t }))
  IN [i \in DOMAIN kept |-> [kept[i] EXCEPT !.end = IF @ > t THEN t ELSE @]]
Newest(frames, ms) ==
  Behind(frames, { i \in DOMAIN frames : End(frames) - frames[i].start <= ms })

Contiguous(frames) == \A i \in 1..(Len(frames) - 1) : frames[i].end = frames[i + 1].start

-----------------------------------------------------------------------------
(* _process_idle *)

IdleFrame(f) ==
  /\ ~active
  /\ preRoll' = Newest(Append(preRoll, f), PreRollMs + StartEvidenceMs + SlackMs)
  /\ candidate' = IF f.speech THEN candidate + f.end - f.start ELSE 0

StayIdle(f) ==
  /\ IdleFrame(f) /\ candidate' < StartEvidenceMs
  /\ idleStart' = IF idleStart = NoTime THEN f.start ELSE idleStart
  /\ result' = NoResult
  /\ UNCHANGED <<activeFrames, active, first, last, silence, nextPartial, announced, boundary>>

(* Enough speech: the utterance begins before the first speech that is kept.  *)
SpeechStarts(f) ==
  /\ ~active
  /\ LET roll == Newest(Append(preRoll, f), PreRollMs + StartEvidenceMs + SlackMs)
         evidence == IF f.speech THEN candidate + f.end - f.start ELSE 0
         selected == From(roll, FirstSpeech(roll) - PreRollMs)
     IN /\ evidence >= StartEvidenceMs
        /\ candidate' = evidence
        /\ activeFrames' = selected
        /\ first' = FirstSpeech(selected)
        /\ last' = LastSpeech(selected)
        /\ result' = [NoResult EXCEPT !.started = Head(selected).start]
        /\ announced' = Head(selected).start
  /\ active' = TRUE /\ preRoll' = <<>> /\ silence' = 0
  /\ nextPartial' = PartialIntervalMs /\ idleStart' = NoTime
  /\ UNCHANGED boundary

-----------------------------------------------------------------------------
(* _finalize_active and _reset_after_utterance, for the list and counters given *)

PreservedAnyhow(frames, forced) == From(frames, End(frames) - ForceSplitOverlapMs) (* mutant: kept at every end *)
PreservedNot(frames, forced) == <<>> (* mutant: nothing kept at a forced split *)
Preserved(frames, forced) ==
  IF forced THEN From(frames, End(frames) - ForceSplitOverlapMs) ELSE <<>>

EndedAt(all, spoken, quiet, forced) ==
  IF forced THEN End(all)
  ELSE spoken + (IF quiet < PostRollMs THEN quiet ELSE PostRollMs)

(* An utterance, or nothing but noise when its speech is too short.          *)
Finalize(all, spoken, quiet, forced, partial, now) ==
  LET frames == Until(all, EndedAt(all, spoken, quiet, forced))
      cut == <<Head(frames).start, EndedAt(all, spoken, quiet, forced)>>
      kept == Preserved(frames, forced)
  IN /\ result' = IF spoken - first < MinimumUtteranceMs
                  THEN [NoResult EXCEPT !.noSpeech = cut, !.partial = partial]
                  ELSE [NoResult EXCEPT !.utterance = cut, !.partial = partial]
     /\ preRoll' = kept /\ candidate' = SpeechMs(kept)
     /\ activeFrames' = <<>> /\ active' = FALSE
     /\ first' = NoTime /\ last' = NoTime /\ silence' = 0
     /\ nextPartial' = PartialIntervalMs /\ idleStart' = now
     /\ boundary' = cut[2] - (IF forced THEN ForceSplitOverlapMs ELSE 0)
     /\ UNCHANGED announced

-----------------------------------------------------------------------------
(* _process_active *)

Spoken(f) == IF f.speech THEN f.end ELSE last
Quiet(f) == IF f.speech THEN 0 ELSE silence + f.end - f.start
Elapsed(f) == f.end - first

PartialAt(f) ==
  IF Elapsed(f) >= nextPartial THEN <<Head(activeFrames).start, f.end>> ELSE <<>>

ForcedSplit(f) ==
  /\ active /\ Elapsed(f) >= MaximumUtteranceMs
  /\ Finalize(Append(activeFrames, f), Spoken(f), Quiet(f), TRUE, <<>>, f.end)

EndOfSpeech(f) ==
  /\ active /\ Elapsed(f) < MaximumUtteranceMs /\ Quiet(f) >= EndpointingSilenceMs
  /\ Finalize(Append(activeFrames, f), Spoken(f), Quiet(f), FALSE, PartialAt(f), f.end)

StayActive(f) ==
  /\ active /\ Elapsed(f) < MaximumUtteranceMs /\ Quiet(f) < EndpointingSilenceMs
  /\ activeFrames' = Append(activeFrames, f)
  /\ last' = Spoken(f) /\ silence' = Quiet(f)
  /\ nextPartial' = IF PartialAt(f) = <<>> THEN nextPartial
                    ELSE nextPartial + PartialIntervalMs
                         * ((Elapsed(f) - nextPartial) \div PartialIntervalMs + 1)
  /\ result' = [NoResult EXCEPT !.partial = PartialAt(f)]
  /\ UNCHANGED <<preRoll, active, candidate, first, idleStart, announced, boundary>>

Process ==
  /\ offset + FrameMs <= MaxOffset
  /\ offset' = offset + FrameMs
  /\ \E speech \in BOOLEAN :
       /\ run' = IF speech THEN run + FrameMs ELSE 0
       /\ LET f == Frame(speech)
          IN StayIdle(f) \/ SpeechStarts(f) \/ ForcedSplit(f) \/ EndOfSpeech(f) \/ StayActive(f)

-----------------------------------------------------------------------------
(* flush *)

FlushActive == active /\ Finalize(activeFrames, last, silence, FALSE, <<>>, offset)

FlushIdle ==
  /\ ~active /\ idleStart # NoTime /\ offset > idleStart
  /\ result' = [NoResult EXCEPT !.noSpeech = <<idleStart, offset>>]
  /\ preRoll' = <<>> /\ candidate' = 0 /\ idleStart' = NoTime
  /\ boundary' = offset
  /\ UNCHANGED <<activeFrames, active, first, last, silence, nextPartial, announced>>

Flush == (FlushActive \/ FlushIdle) /\ run' = 0 /\ UNCHANGED offset

(* clear, at the end of a stream: nothing is cut any more.                    *)
Clear ==
  /\ offset > boundary
  /\ preRoll' = <<>> /\ activeFrames' = <<>> /\ active' = FALSE
  /\ candidate' = 0 /\ first' = NoTime /\ last' = NoTime /\ silence' = 0
  /\ idleStart' = NoTime /\ result' = NoResult
  /\ boundary' = offset /\ run' = 0
  /\ UNCHANGED <<offset, nextPartial, announced>>

Next == Process \/ Flush \/ Clear
Spec == Init /\ [][Next]_vars

-----------------------------------------------------------------------------
(* Properties *)

Times == 0..MaxOffset

(* The fields keep to their types, the buffers end now and have no gap, and what
   _process_active and _finalize_active assert of an utterance is there.     *)
Structure ==
  /\ offset \in Times /\ candidate \in Nat /\ silence \in Nat /\ nextPartial \in Nat
  /\ \A frames \in {preRoll, activeFrames} :
       /\ Contiguous(frames)
       /\ \A i \in DOMAIN frames : frames[i].start < frames[i].end
       /\ frames # <<>> => End(frames) = offset
  /\ IF active
     THEN /\ activeFrames # <<>> /\ preRoll = <<>> /\ idleStart = NoTime
          /\ first \in Times /\ last \in Times /\ first < last
          /\ Head(activeFrames).start = announced
     ELSE activeFrames = <<>> /\ first = NoTime /\ last = NoTime

(* An utterance begins where its start was announced, not before the one before
   it has ended but for the overlap of a forced split, and is as long as the pre-roll
   and the maximum allow; so is every partial (_process_active 296-301,
   _finalize_active 327-343).                                                *)
CutsFit ==
  \A cut \in {result.utterance, result.noSpeech, result.partial} \ {<<>>} :
    /\ cut[1] < cut[2] /\ cut[2] <= offset
    /\ cut[2] - cut[1] < PreRollMs + MaximumUtteranceMs + FrameMs \/ cut = result.noSpeech
    /\ cut # result.noSpeech => cut[1] = announced

(* No speech starts before the end of what was cut before it, but for the overlap
   kept at a forced split (_finalize_active 330, _select_start_frames 392-424). *)
InOrder ==
  [][result'.started # NoTime => result'.started >= boundary]_vars

(* Speech that has lasted as long as the evidence is in an utterance or in the one
   being spoken, also when a forced split goes through the middle of it
   (_reset_after_utterance 374-385).                                         *)
SpeechIsKept ==
  run >= StartEvidenceMs =>
    active \/ \E cut \in {result.utterance, result.noSpeech} : cut # <<>> /\ cut[2] = offset

(* The detector between two calls.                                           *)
Inv == Structure /\ CutsFit /\ SpeechIsKept
=============================================================================
