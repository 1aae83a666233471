--------------------------- MODULE RealtimePreview ---------------------------
(* The realtime preview of one utterance (voice_translation/realtime_preview.py,
   VoicePreviewJob) and what the voice stream does with it (stream.py,
   _offer_realtime_preview, _queue_finalization, _emit).

   The job runs beside the pipeline that gives the utterance its outcome: one task
   asks for the language, one sends the audio and receives a growing transcript,
   one translates it twice at most. The outcome takes the utterance away from it.

   A text is a sequence of words and ends of sentences, a snapshot of the audio
   its length, and a translation is known by the text it translates. An action is
   what a task does between two awaits; _publish never waits, since whoever holds
   its lock does not suspend, so it is part of the action that calls it.       *)
EXTENDS Naturals, Sequences, SequencesExt

CONSTANTS
  MaxText,      (* bound: length of a transcript                             *)
  MaxAudio      (* bound: length of the audio of the utterance               *)

BoundAssumption == MaxText \in Nat \ {0} /\ MaxAudio \in Nat \ {0}

VARIABLES
  main,           (* where _run is                                           *)
  how,            (* how it ended                                            *)
  previewing,     (* _active                                                 *)
  cancelled,      (* task.cancel() was called and has not been delivered     *)
  queued,         (* the snapshot in _queue, 0 when it is empty              *)
  finished,       (* _finished: the newest snapshot is the last              *)
  offered,        (* the longest partial snapshot offered                    *)
  sent,           (* how much the provider has been sent                     *)
  lpc, spc, tpc,  (* where _check_language, _transcribe and _translate are   *)
  language,       (* _language                                               *)
  latest,         (* _latest                                                 *)
  changed,        (* _source_changed is set                                  *)
  streamFinished, (* _stream_finished                                        *)
  calls,          (* translations asked for                                  *)
  lastSource,     (* last_source, the text of the latest of them             *)
  translated,     (* _translated_source with its translation                 *)
  lastEmitted,    (* _last_emitted                                           *)
  current,        (* the stream's _preview_jobs has this job                 *)
  closed,         (* the stream's _closed                                    *)
  shown           (* what its client saw last of the utterance               *)

audioVars == <<queued, finished, offered, sent>>
textVars == <<latest, changed, streamFinished>>
translateVars == <<calls, lastSource, translated>>
ownerVars == <<previewing, cancelled, current, closed>>
previewVars == <<main, how, audioVars, lpc, spc, tpc, language, textVars, translateVars,
                 lastEmitted, ownerVars, shown>>

Texts == BoundedSeq({"word", "stop"}, MaxText)

PreviewInit ==
  /\ main = "new" /\ how = "none"
  /\ previewing = TRUE /\ cancelled = FALSE /\ current = TRUE /\ closed = FALSE
  /\ queued = 1 /\ finished = FALSE /\ offered = 1 /\ sent = 0
  /\ lpc = "done" /\ spc = "done" /\ tpc = "done"
  /\ language = "none" /\ latest = <<>>
  /\ changed = FALSE /\ streamFinished = FALSE
  /\ calls = 0 /\ lastSource = <<>> /\ translated = <<>>
  /\ lastEmitted = <<<<>>, <<>>>> /\ shown = "none"

-----------------------------------------------------------------------------
(* _publish and what the stream makes of it *)

PairedAnyhow(text, lang, t) == (* mutant: the prefix is not compared *)
  IF lang = "target" THEN <<text, text>> ELSE <<text, t>>

(* The text with the translation that fits it, if there is one.              *)
Paired(text, lang, t) ==
  <<text, CASE lang = "target" -> text
            [] lang # "target" /\ IsPrefix(t, text) -> t
            [] OTHER -> <<>> >>

(* emit_preview: only while the stream owns the job, and only if its event queue
   has room to spare.                                                        *)
Show == IF closed \/ ~current THEN UNCHANGED shown
        ELSE shown' \in {"preview", shown}

Publish(text, lang, t) ==
  LET pair == Paired(text, lang, t)
  IN IF previewing /\ lang # "none" /\ text # <<>> /\ pair # lastEmitted
     THEN lastEmitted' = pair /\ Show
     ELSE UNCHANGED <<lastEmitted, shown>>

-----------------------------------------------------------------------------
(* The stream *)

Deaf == ~previewing \/ finished \/ main = "ended"

(* A partial of the voice activity detector: it replaces one that waits.     *)
Offer ==
  /\ current /\ shown # "outcome" /\ ~Deaf
  /\ \E n \in (offered + 1)..MaxAudio : offered' = n /\ queued' = n
  /\ UNCHANGED <<main, how, finished, sent, lpc, spc, tpc, language, textVars,
                 translateVars, lastEmitted, ownerVars, shown>>

(* The utterance ends: its audio may be shorter than the last partial.       *)
OfferFinal ==
  /\ current /\ ~Deaf
  /\ finished' = TRUE /\ queued' \in 1..MaxAudio
  /\ UNCHANGED <<main, how, offered, sent, lpc, spc, tpc, language, textVars,
                 translateVars, lastEmitted, ownerVars, shown>>

DisownKept == UNCHANGED <<current, previewing, cancelled>> (* mutant: an event type is missed *)
Disown ==
  /\ current' = FALSE /\ previewing' = FALSE
  /\ cancelled' = (main # "ended")

(* _emit of a final text, a failure or no speech.                            *)
Outcome ==
  /\ current /\ ~closed
  /\ shown' = "outcome" /\ Disown
  /\ UNCHANGED <<main, how, audioVars, lpc, spc, tpc, language, textVars,
                 translateVars, lastEmitted, closed>>

(* _cancel_background_tasks                                                  *)
CancelBackground ==
  /\ current /\ Disown
  /\ UNCHANGED <<main, how, audioVars, lpc, spc, tpc, language, textVars,
                 translateVars, lastEmitted, closed, shown>>

(* The stream is closed or aborted; abort sets _closed before it cancels.    *)
StreamCloses ==
  /\ ~closed /\ closed' = TRUE /\ shown' = "outcome"
  /\ UNCHANGED <<main, how, audioVars, lpc, spc, tpc, language, textVars,
                 translateVars, lastEmitted, previewing, cancelled, current>>

-----------------------------------------------------------------------------
(* _run *)

(* The finally of _run.                                                      *)
End(reason) ==
  /\ main' = "ended" /\ how' = reason
  /\ previewing' = FALSE /\ cancelled' = FALSE /\ queued' = 0

(* A task cancelled before it has run does nothing at all.                   *)
CancelledUnstarted ==
  /\ main = "new" /\ cancelled
  /\ main' = "ended" /\ how' = "cancelled" /\ cancelled' = FALSE
  /\ UNCHANGED <<audioVars, lpc, spc, tpc, language, textVars, translateVars,
                 lastEmitted, previewing, current, closed, shown>>

(* A preview does not wait for a slot.                                       *)
NoSlot ==
  /\ main = "new" /\ ~cancelled /\ End("failed")
  /\ UNCHANGED <<finished, offered, sent, lpc, spc, tpc, language, textVars,
                 translateVars, lastEmitted, current, closed, shown>>

Begin ==
  /\ main = "new" /\ ~cancelled /\ main' = "checking"
  /\ UNCHANGED <<how, audioVars, lpc, spc, tpc, language, textVars, translateVars,
                 lastEmitted, ownerVars, shown>>

(* No speech, no answer in time, or the cancellation.                        *)
CheckEnds ==
  /\ main = "checking"
  /\ End(IF cancelled THEN "cancelled" ELSE "failed")
  /\ UNCHANGED <<finished, offered, sent, lpc, spc, tpc, language, textVars,
                 translateVars, lastEmitted, current, closed, shown>>

Loop(n) == IF previewing /\ n < 2 THEN "waiting" ELSE "done"

HasSpeech ==
  /\ main = "checking" /\ ~cancelled /\ main' = "running"
  /\ lpc' = "asking" /\ spc' = "streaming" /\ tpc' = Loop(0)
  /\ UNCHANGED <<how, audioVars, language, textVars, translateVars, lastEmitted,
                 ownerVars, shown>>

Raised == "raised" \in {lpc, spc}

(* The task group stops its tasks because of a failure, the cancellation or the
   18 seconds; a provider that ignores its cancellation keeps it from ending. *)
Abort(reason) ==
  /\ main = "running" /\ main' = "aborting" /\ how' = reason
  /\ lpc' = "done" /\ tpc' = "done" /\ cancelled' = FALSE
  /\ spc' = IF spc \in {"done", "raised"} THEN "done" ELSE "aborting"
  /\ UNCHANGED <<audioVars, language, textVars, translateVars, lastEmitted,
                 previewing, current, closed, shown>>
AbortFailed == Raised /\ Abort("failed")
AbortCancelled == cancelled /\ Abort("cancelled")
AbortTimeout == Abort("failed")

AllDone == lpc = "done" /\ spc = "done" /\ tpc = "done"
GroupEnds ==
  /\ main \in {"running", "aborting"} /\ AllDone
  /\ End(IF main = "aborting" THEN how ELSE IF cancelled THEN "cancelled" ELSE "done")
  /\ UNCHANGED <<finished, offered, sent, lpc, spc, tpc, language, textVars,
                 translateVars, lastEmitted, current, closed, shown>>

-----------------------------------------------------------------------------
(* _check_language *)

LanguageKnown ==
  /\ lpc = "asking" /\ lpc' = "done"
  /\ \E lang \in {"target", "foreign"} :
       language' = lang /\ Publish(latest, lang, translated)
  /\ changed' = TRUE
  /\ UNCHANGED <<main, how, audioVars, spc, tpc, latest, streamFinished,
                 translateVars, ownerVars>>

LanguageRefused ==
  /\ lpc = "asking" /\ lpc' = "raised"
  /\ UNCHANGED <<main, how, audioVars, spc, tpc, language, textVars, translateVars,
                 lastEmitted, ownerVars, shown>>

-----------------------------------------------------------------------------
(* _transcribe, _audio and the provider *)

(* The newest snapshot is sent from where the last one ended; a final one may be
   shorter than that, and a partial is not, since Offer only lets them grow.   *)
SendAudio ==
  /\ spc = "streaming" /\ queued # 0
  /\ queued' = 0
  /\ sent' = IF queued > sent THEN queued ELSE sent
  /\ spc' = IF ~previewing \/ finished THEN "committed" ELSE spc
  /\ UNCHANGED <<main, how, finished, offered, lpc, tpc, language, textVars,
                 translateVars, lastEmitted, ownerVars, shown>>

Receive(text) ==
  /\ latest' = text /\ changed' = TRUE
  /\ Publish(text, language, translated)
  /\ UNCHANGED <<main, how, audioVars, lpc, tpc, language, streamFinished,
                 translateVars, ownerVars>>

Delta ==
  /\ spc \in {"streaming", "committed", "aborting"} /\ Len(latest) < MaxText
  /\ \E part \in {"word", "stop"} : Receive(Append(latest, part))
  /\ UNCHANGED spc

(* The transcript of the whole audio: it may correct what came before.       *)
Completed ==
  /\ spc = "committed" /\ spc' = "complete"
  /\ \E text \in Texts : Receive(text)

StreamOverSilently(next) == (* mutant: the event is not set *)
  /\ spc' = next /\ streamFinished' = TRUE
  /\ UNCHANGED <<main, how, audioVars, lpc, tpc, language, latest, changed, translateVars,
                 lastEmitted, ownerVars, shown>>
(* The finally of _transcribe, after the answer, a failure or the cancellation. *)
StreamOver(next) ==
  /\ spc' = next /\ streamFinished' = TRUE /\ changed' = TRUE
  /\ UNCHANGED <<main, how, audioVars, lpc, tpc, language, latest, translateVars,
                 lastEmitted, ownerVars, shown>>
StreamEnds == spc = "complete" /\ StreamOver("done")
StreamFails == spc \in {"streaming", "committed"} /\ StreamOver("raised")
StreamAborted == spc = "aborting" /\ StreamOver("done")

-----------------------------------------------------------------------------
(* _translate *)

(* _translation_prefix: whole sentences until the transcript is complete.    *)
TranslationPrefix(text, final) ==
  IF final THEN text
  ELSE SubSeq(text, 1, LET stops == { i \in DOMAIN text : text[i] = "stop" }
                       IN IF stops = {} THEN 0
                          ELSE CHOOSE i \in stops : \A j \in stops : j <= i)

translateIdle == <<main, how, audioVars, lpc, spc, language, latest, streamFinished,
                   ownerVars>>

Wake ==
  /\ tpc = "waiting" /\ changed
  /\ changed' = FALSE /\ tpc' = "sleeping"
  /\ UNCHANGED <<translateIdle, translateVars, lastEmitted, shown>>

(* Too soon after the last call, unless the transcript is complete.          *)
TooSoon ==
  /\ tpc = "sleeping" /\ calls > 0 /\ ~streamFinished
  /\ tpc' = Loop(calls)
  /\ UNCHANGED <<translateIdle, changed, translateVars, lastEmitted, shown>>

Source == TranslationPrefix(latest, streamFinished)
Pointless == language = "none" \/ Source = <<>> \/ Source = lastSource

NothingNew ==
  /\ tpc = "sleeping" /\ Pointless
  /\ tpc' = IF streamFinished /\ language # "none" THEN "done" ELSE Loop(calls)
  /\ UNCHANGED <<translateIdle, changed, translateVars, lastEmitted, shown>>

NotNeeded ==
  /\ tpc = "sleeping" /\ ~Pointless /\ language = "target"
  /\ tpc' = "done"
  /\ UNCHANGED <<translateIdle, changed, translateVars, lastEmitted, shown>>

Translate ==
  /\ tpc = "sleeping" /\ ~Pointless /\ language = "foreign"
  /\ tpc' = "calling" /\ calls' = calls + 1 /\ lastSource' = Source
  /\ UNCHANGED <<translateIdle, changed, translated, lastEmitted, shown>>

AnsweredEarly == (* mutant: done as soon as the transcript is complete *)
  IF streamFinished THEN "done" ELSE Loop(calls)
(* After a call: over if it was for the complete transcript.                 *)
Answered == IF streamFinished /\ latest = lastSource THEN "done" ELSE Loop(calls)

(* A translation of a text that has been corrected meanwhile is dropped.     *)
TranslationComes ==
  /\ tpc = "calling" /\ tpc' = Answered
  /\ IF IsPrefix(lastSource, latest)
     THEN translated' = lastSource /\ Publish(latest, language, lastSource)
     ELSE UNCHANGED <<translated, lastEmitted, shown>>
  /\ UNCHANGED <<translateIdle, changed, calls, lastSource>>

TranslationFails ==
  /\ tpc = "calling" /\ tpc' = Answered
  /\ UNCHANGED <<translateIdle, changed, translateVars, lastEmitted, shown>>

-----------------------------------------------------------------------------
StreamNext == Offer \/ OfferFinal \/ Outcome \/ CancelBackground \/ StreamCloses
MainNext == CancelledUnstarted \/ NoSlot \/ Begin \/ CheckEnds \/ HasSpeech
            \/ AbortFailed \/ AbortCancelled \/ GroupEnds
LanguageNext == LanguageKnown \/ LanguageRefused
AudioNext == SendAudio \/ Completed \/ StreamEnds \/ StreamAborted
TranslateNext == Wake \/ TooSoon \/ NothingNew \/ NotNeeded \/ Translate
                 \/ TranslationComes \/ TranslationFails

PreviewNext == StreamNext \/ MainNext \/ AbortTimeout \/ LanguageNext \/ AudioNext
        \/ Delta \/ StreamFails \/ TranslateNext

PreviewSpec == PreviewInit /\ [][PreviewNext]_previewVars

-----------------------------------------------------------------------------
(* Properties *)

(* The variables keep to their types, and two translations are the most.      *)
PreviewTypeOK ==
  /\ main \in {"new", "checking", "running", "aborting", "ended"}
  /\ how \in {"none", "done", "failed", "cancelled"}
  /\ previewing \in BOOLEAN /\ cancelled \in BOOLEAN /\ finished \in BOOLEAN /\ changed \in BOOLEAN
  /\ streamFinished \in BOOLEAN /\ current \in BOOLEAN /\ closed \in BOOLEAN
  /\ queued \in 0..MaxAudio /\ offered \in 1..MaxAudio /\ sent \in 0..MaxAudio
  /\ lpc \in {"asking", "raised", "done"}
  /\ spc \in {"streaming", "committed", "complete", "aborting", "raised", "done"}
  /\ tpc \in {"waiting", "sleeping", "calling", "done"}
  /\ language \in {"none", "target", "foreign"}
  /\ calls \in 0..2 /\ {latest, lastSource, translated} \subseteq Texts
  /\ lastEmitted \in Texts \X Texts /\ shown \in {"none", "preview", "outcome"}

(* No preview follows the outcome of its utterance or the end of the stream,
   whatever a provider delivers late (stream.py 582-586, 1392-1400).         *)
OutcomeStays == shown = "outcome" => shown' = "outcome"

(* What is shown as a translation translates the beginning of the text it is
   shown with, however the transcript was corrected meanwhile (_translate 392-396,
   _publish 406-412).                                                            *)
TranslationFits == IsPrefix(lastEmitted[2], lastEmitted[1])

(* A job that ends by itself has published the last transcript, and has asked for
   its translation unless both calls were spent before (_translate 398-399).     *)
Complete ==
  how = "done" /\ latest # <<>> =>
    /\ lastEmitted[1] = latest
    /\ language = "foreign" => lastSource = latest \/ calls = 2

(* The job between two steps of any of its tasks.                            *)
PreviewInv == PreviewTypeOK /\ TranslationFits /\ Complete

(* What a preview shows after every step (nothing at first), and that the outcome of
   its utterance is the last of it.                                          *)
PreviewShows == [][PreviewInv' /\ OutcomeStays]_previewVars

(* A job whose utterance has ended comes to its end without its deadline: no task
   waits for a change that has already happened (_translate 363-399).        *)
JobEnds == (finished \/ cancelled) ~> main = "ended"
=============================================================================
