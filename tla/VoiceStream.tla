---------------------------- MODULE VoiceStream ----------------------------
(***************************************************************************)
(* One realtime voice stream: VoiceChannelStreamContext of                 *)
(* app/features/voice_translation/stream.py with the tasks around it:      *)
(*                                                                         *)
(*   receiver   the WebSocket handler: feed_audio, flush, close, and, when *)
(*              the connection ends, fail_and_close and release (abort)    *)
(*   worker     _run: takes commands, runs the VAD, queues utterances      *)
(*   finalizer  _run_finalizations: speech-to-text, translation, outcome   *)
(*   prefetch   _prepare_prefetched_utterance, speech-to-text one ahead    *)
(*   partials   _run_partial, provisional transcripts                      *)
(*   terminator _terminate_stream, run under _termination_lock by whoever  *)
(*              saw the failure                                            *)
(*   shutdown   VoiceStreamApplicationService._close_for_shutdown          *)
(*   sender     _send_events: hands the event queue to the client          *)
(*                                                                         *)
(* The tasks share one event loop, so a step runs from one await that may  *)
(* suspend to the next. The VAD and the providers choose freely; clocks    *)
(* are not modelled: a deadline may pass at any await it covers.           *)
(***************************************************************************)
EXTENDS Integers, Sequences, FiniteSets, FiniteSetsExt

CONSTANTS
  MaxUtterances,   (* bound: utterances the speaker starts                  *)
  InputCapacity,   (* _input_capacity                                       *)
  EventCapacity,   (* maxsize of _event_queue                               *)
  FinalCapacity,   (* AI_VOICE_FINAL_QUEUE_CAPACITY                         *)
  Lengths,         (* lengths an accepted utterance may have                *)
  MaxPendingAudio, (* AI_VOICE_MAX_PENDING_FINAL_AUDIO_MS                   *)
  Prefetch,        (* stt_provider.supports_stt_prefetch                    *)
  Partials,        (* stt_provider.supports_partial                         *)
  Shutdown,        (* whether the server may shut down during the stream    *)
  LostCancel       (* whether wait_for may lose a cancel: Python 3.11 does  *)

ASSUME CapacityAssumption ==
  /\ MaxUtterances \in Nat \ {0}
  /\ InputCapacity \in Nat \ {0, 1}   \* at least 500 ms of frames of at most 200 ms
  /\ EventCapacity \in Nat \ {0}
  /\ FinalCapacity \in Nat \ {0}
  /\ MaxPendingAudio \in Nat
  /\ Lengths \subseteq Nat \ {0}

ASSUME ModeAssumption ==
  {Prefetch, Partials, Shutdown, LostCancel} \subseteq BOOLEAN

Utterances == 1 .. MaxUtterances
NoUtterance == 0
Identities == Utterances \cup {NoUtterance}

VARIABLES
  (* queues *)
  inputQ,       (* commands waiting for the worker                          *)
  events,       (* events waiting for the sender                            *)
  finalQ,       (* accepted utterances waiting for the finalizer            *)
  unfinished,   (* its unfinished-task counter, which join() waits on       *)
  (* utterances *)
  current,      (* _current_identity, the utterance being spoken            *)
  sequence,     (* _utterance_sequence                                      *)
  finalized,    (* _finalized_utterance_keys                                *)
  pending,      (* keys of _pending_final_jobs: the finalizer's ownership   *)
  pendingAudio, (* _pending_final_audio_ms                                  *)
  audio,        (* length of each accepted utterance                        *)
  active,       (* _active_final_job                                        *)
  prefetched,   (* _prefetched_job                                          *)
  prep,         (* state of each job's preparation_task                     *)
  (* flags and futures *)
  accepting, flushed, closed, failEmitted, flushFut, closeFut,
  (* tasks *)
  wpc, wcmd, wcancel, wdoomed,    (* worker                                 *)
  fpc, fcancel,                   (* finalizer                              *)
  partialTask, partials,          (* _partial_task and the live ones        *)
  holder, tpc, tdoomed, termTask, (* _termination_lock and its owner        *)
  apc,                            (* abort                                  *)
  rpc, spc, sender,               (* receiver, shutdown, sender             *)
  (* history *)
  last,         (* the event emitted last                                   *)
  terminals,    (* outcomes emitted for each utterance                      *)
  accepted,     (* utterances ever accepted for finalization                *)
  overflowed    (* an event was refused by a full event queue               *)

emitVars   == <<events, last, terminals, overflowed>>
jobVars    == <<finalQ, unfinished, pending, pendingAudio, audio, active,
                prefetched, prep, accepted>>
finalVars  == <<fpc, fcancel>>
speechVars == <<current, sequence, finalized>>
flagVars   == <<accepting, flushed, closed, failEmitted>>
futVars    == <<flushFut, closeFut>>
workerVars == <<wpc, wcmd, wcancel, wdoomed>>
partVars   == <<partialTask, partials>>
termVars   == <<holder, tpc, tdoomed, termTask>>
clientVars == <<rpc, spc, sender>>

vars == <<inputQ, emitVars, jobVars, finalVars, speechVars, flagVars, futVars,
          workerVars, partVars, termVars, apc, clientVars>>

-----------------------------------------------------------------------------
(* Events. *)

Outcomes == {"COMPLETED", "FAILED", "NO_SPEECH"}
EventKinds == Outcomes \cup
  {"STREAM_READY", "SPEECH_STARTED", "TRANSCRIPT_PARTIAL", "TRANSCRIPT_FINAL",
   "BACKPRESSURE", "STREAM_CLOSED"}

Space == EventCapacity - Len(events)
FitsAlways(n) == n >= 0 (* mutant: the queue has no limit *)
Fits(n) == n <= Space

Waiting(kind) == IF kind = "STREAM_CLOSED" THEN kind ELSE "EVENT"

(* _emit for the events of one utterance in a row; put_nowait refuses those
   that find the queue full. An outcome is the last event of its row.        *)
EmitRow(kinds, u) ==
  LET n == IF Fits(Len(kinds)) THEN Len(kinds) ELSE Space
  IN /\ events' = events \o [i \in 1 .. n |-> Waiting(kinds[i])]
     /\ last' = IF n = 0 THEN last ELSE [kind |-> kinds[n], utterance |-> u]
     /\ terminals' =
          IF u # NoUtterance /\ n # 0 /\ kinds[n] \in Outcomes
          THEN [terminals EXCEPT ![u] = @ + 1] ELSE terminals
     /\ overflowed' = (overflowed \/ n < Len(kinds))

Emit(kind, u) == EmitRow(<<kind>>, u)

(* The failures _cancel_final_jobs announces, in acceptance order, until the
   queue is full and the exception ends the loop.                            *)
Announced(jobs) == { u \in jobs : Cardinality({ v \in jobs : v <= u }) <= Space }
EmitFailuresSilently(jobs) == UNCHANGED emitVars (* mutant: no error passed in *)
EmitFailures(jobs) ==
  LET told == Announced(jobs)
  IN /\ events' = events \o [i \in 1 .. Cardinality(told) |-> "EVENT"]
     /\ last' = IF told = {} THEN last
                ELSE [kind |-> "FAILED", utterance |-> Max(told)]
     /\ terminals' = [u \in Utterances |->
                        IF u \in told THEN terminals[u] + 1 ELSE terminals[u]]
     /\ overflowed' = (overflowed \/ told # jobs)

-----------------------------------------------------------------------------
(* Building blocks shared by the tasks. *)

(* _check_final_job_ownership: a job cleared from the pending table may not
   touch the stream any more.                                                *)
OwnedByAnyone(u) == u \in Utterances (* mutant: ownership not checked *)
Owned(u) == u \in pending

Resolved(future) == IF future = "pending" THEN "done" ELSE future
Failed(future) == IF future = "pending" THEN "error" ELSE future

(* task.cancel() on the worker. The drain awaits wait_for(join()): Python 3.11's
   wait_for returns normally when it is cancelled after the join has completed,
   and such a cancel is lost ("late").                                       *)
CancelWorkerForgotten == UNCHANGED wcancel (* mutant: no cancel before gather *)
CancelWorker ==
  wcancel' \in IF wpc = "done" THEN {"none"}
               ELSE {"pending"} \cup
                    { c \in {"late"} : LostCancel /\ wpc = "drain" /\ unfinished = 0 }

(* The next job after the active one, chosen when the active job is being
   translated and nothing else is prefetched.                                *)
Following(a, jobs) == { u \in jobs : u > a }
SchedulePrefetchEarly(a, translating, jobs) == (* mutant: whatever the stage *)
  IF Prefetch /\ a # NoUtterance /\ prefetched = NoUtterance /\ Following(a, jobs) # {}
  THEN LET u == Min(Following(a, jobs))
       IN prefetched' = u /\ prep' = [prep EXCEPT ![u] = "running"]
  ELSE UNCHANGED <<prefetched, prep>>
SchedulePrefetch(a, translating, jobs) ==
  IF Prefetch /\ translating /\ prefetched = NoUtterance /\ ~closed
     /\ Following(a, jobs) # {}
  THEN LET u == Min(Following(a, jobs))
       IN prefetched' = u /\ prep' = [prep EXCEPT ![u] = "running"]
  ELSE UNCHANGED <<prefetched, prep>>

(* _cancel_final_jobs up to its await: ownership goes first.                 *)
DisownJobs ==
  /\ pending' = {}
  /\ pendingAudio' = 0
  /\ prefetched' = NoUtterance
  /\ prep' = [u \in Utterances |->
                IF Owned(u) /\ prep[u] = "running" THEN "cancelled" ELSE prep[u]]
  /\ fcancel' = (fpc \notin {"dead", "stopped"})
  /\ UNCHANGED <<finalQ, unfinished, audio, active, accepted, fpc>>

(* ... and after it: the queue is emptied, then each job is failed.          *)
EmptyFinalQueueUnacknowledged == (* mutant: no task_done *)
  /\ finalQ' = <<>>
  /\ UNCHANGED <<unfinished, pending, pendingAudio, audio, active, prefetched, prep,
                 accepted, finalVars>>
EmptyFinalQueue ==
  /\ finalQ' = <<>>
  /\ unfinished' = unfinished - Len(finalQ)
  /\ UNCHANGED <<pending, pendingAudio, audio, active, prefetched, prep,
                 accepted, finalVars>>

(* _cancel_background_tasks: the partials are only asked to stop.            *)
DropPartials == partialTask' = NoUtterance /\ UNCHANGED partials

(* async with _termination_lock, with the closed check behind it. The worker
   goes on to disown the jobs in the same step; any other task cancels the
   worker first and waits for it.                                            *)
LockFree == holder = "none" /\ ~closed
TakeTermination(p) ==
  IF LockFree
  THEN /\ holder' = p
       /\ IF p = "worker"
          THEN tpc' = "sleepFinal" /\ tdoomed' = pending /\ UNCHANGED wcancel
          ELSE tpc' = "awaitWorker" /\ tdoomed' = {} /\ CancelWorker
  ELSE UNCHANGED <<holder, tpc, tdoomed, wcancel>>

(* fail_and_close up to _terminate_stream's first await. The stream announces
   one failure of its own, in the name of the utterance being spoken.        *)
AnnouncementAgain == IF closed THEN <<>> ELSE <<"FAILED">> (* mutant: no flag *)
Announcement == IF failEmitted \/ closed THEN <<>> ELSE <<"FAILED">>
FailAndClose(p) ==
  /\ accepting' = FALSE
  /\ failEmitted' = (failEmitted \/ ~closed)
  /\ TakeTermination(p)
  /\ UNCHANGED <<flushed, closed, termTask>>

(* _run's exception path: the command's future fails, then fail_and_close.   *)
WorkerRaises(cmd) ==
  /\ flushFut' = IF cmd = "flush" THEN Failed(flushFut) ELSE flushFut
  /\ closeFut' = IF cmd = "close" THEN Failed(closeFut) ELSE closeFut
  /\ FailAndClose("worker")
  /\ wpc' = "terminate" /\ wcmd' = "none" /\ wdoomed' = {}

(* ... from a command that leaves the jobs alone; kinds are the events whose
   refusal it is that ends the stream.                                       *)
CommandFails(cmd, kinds) ==
  /\ EmitRow(kinds \o Announcement, current)
  /\ WorkerRaises(cmd)
  /\ IF LockFree THEN DisownJobs ELSE UNCHANGED <<jobVars, finalVars>>

(* _inference_task_done, for a task that died of a refused event.            *)
StartTerminatorForgotten == UNCHANGED termVars (* mutant: no done callback *)
StartTerminator ==
  /\ termTask' = IF termTask = "none" /\ ~closed THEN "waiting" ELSE termTask
  /\ UNCHANGED <<holder, tpc, tdoomed>>

(* _drain_input_queue: whoever waits for a control command is let go.        *)
DrainInputQueueOnly == (* mutant: a command already taken keeps its caller *)
  /\ inputQ' = <<>>
  /\ \E queued \in {{ inputQ[i] : i \in DOMAIN inputQ }} :
       /\ flushFut' = IF "flush" \in queued THEN Resolved(flushFut) ELSE flushFut
       /\ closeFut' = IF "close" \in queued THEN Resolved(closeFut) ELSE closeFut
DrainInputQueue ==
  /\ inputQ' = <<>>
  /\ flushFut' = Resolved(flushFut)
  /\ closeFut' = Resolved(closeFut)

-----------------------------------------------------------------------------
(* The worker: _run and _process_command. *)

TakeCommand(cmd) ==
  /\ wpc = "get" /\ wcancel = "none"
  /\ inputQ # <<>> /\ Head(inputQ) = cmd
  /\ inputQ' = Tail(inputQ)

(* After the VAD's result an audio command is done; flush and close drain.   *)
Continue(cmd) ==
  /\ IF cmd = "audio" THEN UNCHANGED <<wpc, wcmd>> ELSE wpc' = "drain" /\ wcmd' = cmd
  /\ UNCHANGED <<wcancel, wdoomed>>

(* No event, no utterance.                                                   *)
NothingHeard(cmd) ==
  /\ Continue(cmd)
  /\ UNCHANGED <<emitVars, jobVars, finalVars, speechVars, flagVars, futVars,
                 partVars, termVars>>

HasRoomOffByOne(n) == (* mutant: > for >= *)
  Cardinality(pending) <= FinalCapacity /\ pendingAudio + n <= MaxPendingAudio
HasRoom(n) == Cardinality(pending) < FinalCapacity /\ pendingAudio + n <= MaxPendingAudio

(* _queue_finalization *)
QueueFinalization(cmd) ==
  /\ current # NoUtterance
  /\ \E n \in Lengths :
       IF HasRoom(n)
       THEN /\ finalized' = finalized \cup {current}
            /\ partialTask' = NoUtterance
            /\ pending' = pending \cup {current}
            /\ pendingAudio' = pendingAudio + n
            /\ audio' = [audio EXCEPT ![current] = n]
            /\ finalQ' = Append(finalQ, current)
            /\ unfinished' = unfinished + 1
            /\ accepted' = accepted \cup {current}
            /\ current' = NoUtterance
            /\ SchedulePrefetch(active, fpc = "translate", pending \cup {current})
            /\ Continue(cmd)
            /\ UNCHANGED <<sequence, active, partials, emitVars, finalVars,
                           flagVars, futVars, termVars>>
       ELSE CommandFails(cmd, <<>>) /\ UNCHANGED <<speechVars, partVars>>

(* _emit_no_speech from the VAD: too short to be an utterance, or (on flush
   and close) silence that belongs to no utterance.                          *)
EmitNoSpeech(cmd) ==
  /\ finalized' = (finalized \cup {current}) \ {NoUtterance}
  /\ IF Fits(1)
     THEN /\ Emit("NO_SPEECH", current)
          /\ current' = NoUtterance
          /\ Continue(cmd)
          /\ UNCHANGED <<jobVars, finalVars, flagVars, futVars, termVars>>
     ELSE CommandFails(cmd, <<"NO_SPEECH">>) /\ UNCHANGED current
  /\ UNCHANGED <<sequence, partVars>>

(* _start_utterance *)
StartUtterance ==
  /\ current = NoUtterance /\ sequence < MaxUtterances
  /\ sequence' = sequence + 1
  /\ current' = sequence + 1
  /\ IF Fits(1)
     THEN /\ Emit("SPEECH_STARTED", sequence + 1)
          /\ UNCHANGED <<jobVars, finalVars, flagVars, futVars, workerVars, termVars>>
     ELSE CommandFails("audio", <<"SPEECH_STARTED">>)
  /\ UNCHANGED <<finalized, partVars>>

(* _schedule_partial *)
SchedulePartial ==
  /\ Partials /\ current # NoUtterance /\ pending = {} /\ partialTask = NoUtterance
  /\ partialTask' = current
  /\ partials' = partials \cup {current}
  /\ UNCHANGED <<emitVars, jobVars, finalVars, speechVars, flagVars, futVars,
                 workerVars, termVars>>

ProcessAudio ==
  /\ TakeCommand("audio")
  /\ \/ NothingHeard("audio")
     \/ StartUtterance
     \/ SchedulePartial
     \/ QueueFinalization("audio")
     \/ current # NoUtterance /\ EmitNoSpeech("audio")
  /\ UNCHANGED <<apc, clientVars>>

(* An active VAD has an utterance to finish when it is flushed.              *)
FlushVad(cmd) ==
  \/ QueueFinalization(cmd)
  \/ EmitNoSpeech(cmd)
  \/ current = NoUtterance /\ NothingHeard(cmd)

ProcessFlush ==
  /\ TakeCommand("flush")
  /\ FlushVad("flush")
  /\ UNCHANGED <<apc, clientVars>>

ProcessCloseUnflushed == (* mutant: the VAD is not flushed *)
  /\ TakeCommand("close")
  /\ NothingHeard("close")
  /\ UNCHANGED <<apc, clientVars>>
ProcessClose ==
  /\ TakeCommand("close")
  /\ IF flushed THEN NothingHeard("close") ELSE FlushVad("close")
  /\ UNCHANGED <<apc, clientVars>>

(* Behind _drain_final_jobs: a flush is over; a close starts _finish_close,
   where _cancel_background_tasks waits only if a partial is still alive.     *)
AfterDrainReleased == (* mutant: the caller is let go before _finish_close *)
  /\ flushFut' = Resolved(flushFut) /\ closeFut' = Resolved(closeFut)
  /\ accepting' = FALSE
  /\ DropPartials
  /\ IF wcmd = "flush" THEN wpc' = "get" /\ wcmd' = "none"
                       ELSE wpc' = "closeBg" /\ UNCHANGED wcmd
  /\ UNCHANGED <<flushed, closed, failEmitted>>
AfterDrainKept == (* mutant: the flush's future is forgotten *)
  /\ accepting' = FALSE
  /\ DropPartials
  /\ IF wcmd = "flush" THEN wpc' = "get" /\ wcmd' = "none"
                       ELSE wpc' = "closeFinal" /\ UNCHANGED wcmd
  /\ UNCHANGED <<flushed, closed, failEmitted, futVars>>
AfterDrain ==
  /\ IF wcmd = "flush"
     THEN /\ flushFut' = Resolved(flushFut)
          /\ wpc' = "get" /\ wcmd' = "none"
          /\ UNCHANGED <<accepting, closeFut, partVars>>
     ELSE /\ accepting' = FALSE
          /\ DropPartials
          /\ wpc' = IF partials = {} THEN "closeFinal" ELSE "closeBg"
          /\ UNCHANGED <<wcmd, futVars>>
  /\ UNCHANGED <<flushed, closed, failEmitted>>

(* _drain_final_jobs: wait_for(_final_queue.join()) returns, once more after a
   lost cancel.                                                              *)
DrainJoined ==
  /\ wpc = "drain" /\ unfinished = 0 /\ wcancel \in {"none", "late"}
  /\ wcancel' = "none"
  /\ AfterDrain
  /\ IF wpc' = "closeFinal" THEN DisownJobs ELSE UNCHANGED <<jobVars, finalVars>>
  /\ UNCHANGED <<inputQ, emitVars, speechVars, wdoomed, termVars, apc, clientVars>>

(* ... or the drain deadline passes, up to the await in _cancel_final_jobs.  *)
DrainTimeout ==
  /\ wpc = "drain" /\ unfinished > 0 /\ wcancel = "none"
  /\ DisownJobs
  /\ wpc' = "cancelDrain" /\ wdoomed' = pending
  /\ UNCHANGED <<inputQ, emitVars, speechVars, flagVars, futVars, wcmd, wcancel,
                 partVars, termVars, apc, clientVars>>

(* ... and behind it: what was still pending is failed.                      *)
DrainCancelled ==
  /\ wpc = "cancelDrain" /\ wcancel = "none"
  /\ EmptyFinalQueue
  /\ EmitFailures(wdoomed)
  /\ IF Announced(wdoomed) = wdoomed
     THEN AfterDrain /\ wdoomed' = {} /\ UNCHANGED <<wcancel, termVars>>
     ELSE WorkerRaises(wcmd) /\ UNCHANGED partVars
  /\ UNCHANGED <<inputQ, speechVars, apc, clientVars>>

CloseCancelsJobs ==
  /\ wpc = "closeBg" /\ wcancel = "none"
  /\ DisownJobs
  /\ wpc' = "closeFinal"
  /\ UNCHANGED <<inputQ, emitVars, speechVars, flagVars, futVars, wcmd, wcancel,
                 wdoomed, partVars, termVars, apc, clientVars>>

(* The end of _finish_close, and of the worker.                              *)
FinishClose ==
  /\ wpc = "closeFinal" /\ wcancel = "none"
  /\ EmptyFinalQueue
  /\ IF Fits(1)
     THEN /\ Emit("STREAM_CLOSED", NoUtterance)
          /\ closed' = TRUE
          /\ closeFut' = Resolved(closeFut)
          /\ wpc' = "done" /\ wcmd' = "none"
          /\ UNCHANGED <<accepting, flushed, failEmitted, flushFut, wcancel,
                         wdoomed, termVars>>
     ELSE EmitRow(<<"STREAM_CLOSED">> \o Announcement, current) /\ WorkerRaises("close")
  /\ UNCHANGED <<inputQ, speechVars, partVars, apc, clientVars>>

(* CancelledError at the worker's await. A worker cancelled while it holds the
   lock leaves _terminate_stream through its finally.                        *)
WorkerCancelled ==
  /\ wcancel = "pending"
  /\ wcancel' = "none" /\ wpc' = "done" /\ wcmd' = "none" /\ wdoomed' = {}
  /\ IF holder = "worker"
     THEN /\ closed' = TRUE /\ holder' = "none" /\ tpc' = "none" /\ tdoomed' = {}
     ELSE UNCHANGED <<closed, holder, tpc, tdoomed>>
  /\ UNCHANGED <<inputQ, emitVars, jobVars, finalVars, speechVars, accepting, flushed,
                 failEmitted, futVars, partVars, termTask, apc, clientVars>>

Worker ==
  \/ ProcessAudio \/ ProcessFlush \/ ProcessClose
  \/ DrainJoined \/ DrainTimeout \/ DrainCancelled
  \/ CloseCancelsJobs \/ FinishClose
  \/ WorkerCancelled

-----------------------------------------------------------------------------
(* The finalizer: _run_finalizations and _finalize_utterance. *)

untouchedByFinalizer == <<inputQ, speechVars, flushed, closed, failEmitted, futVars,
                          workerVars, partVars, apc, clientVars>>

(* The finally of the loop: u leaves the tables and its preparation task ends. *)
Settle(u) ==
  /\ pending' = pending \ {u}
  /\ pendingAudio' = pendingAudio - (IF Owned(u) THEN audio[u] ELSE 0)
  /\ active' = NoUtterance
  /\ unfinished' = unfinished - 1
  /\ prep' = [prep EXCEPT ![u] = "none"]
  /\ UNCHANGED <<audio, accepted>>

(* The finalizer's last events for u, the outcome behind them. When the event
   queue refuses one the task dies and the stream is terminated; u is settled
   all the same.                                                             *)
Conclude(u, kinds) ==
  /\ EmitRow(kinds, u)
  /\ Settle(u)
  /\ IF Fits(Len(kinds))
     THEN fpc' = "get" /\ UNCHANGED <<accepting, termVars>>
     ELSE fpc' = "dead" /\ accepting' = FALSE /\ StartTerminator
  /\ UNCHANGED fcancel

(* A job is taken; its deadline may already have passed in the queue.        *)
TakeJob ==
  /\ fpc = "get" /\ ~fcancel /\ finalQ # <<>>
  /\ finalQ' = Tail(finalQ)
  /\ LET u == Head(finalQ)
     IN /\ prefetched' = IF prefetched = u THEN NoUtterance ELSE prefetched
        /\ \/ /\ active' = u
              /\ fpc' = IF prep[u] = "none" THEN "prepare" ELSE "await"
              /\ UNCHANGED <<unfinished, pending, pendingAudio, audio, prep, accepted,
                             fcancel, emitVars, accepting, termVars>>
           \/ Conclude(u, <<"FAILED">>)
  /\ UNCHANGED untouchedByFinalizer

(* What the preparation, this task's or the prefetching one's, may bring.    *)
Preparations == {"text", "silence", "error"}
Brings(result) ==
  /\ ~fcancel /\ Owned(active)
  /\ fpc = "prepare" \/ (fpc = "await" /\ prep[active] = result)

(* Silence and errors are consumed in order like any other outcome.          *)
PreparedOutcome ==
  /\ \/ Brings("silence") /\ Conclude(active, <<"NO_SPEECH">>)
     \/ Brings("error") /\ Conclude(active, <<"FAILED">>)
     \/ Brings("text") /\ Conclude(active, <<"TRANSCRIPT_FINAL", "FAILED">>)
  /\ UNCHANGED <<finalQ, prefetched, untouchedByFinalizer>>

(* The original text is out and the translation starts.                      *)
PreparedText ==
  /\ Brings("text")
  /\ IF Fits(1)
     THEN /\ Emit("TRANSCRIPT_FINAL", active)
          /\ fpc' = "translate"
          /\ SchedulePrefetch(active, TRUE, pending)
          /\ UNCHANGED <<unfinished, pending, pendingAudio, audio, active, accepted,
                         fcancel, accepting, termVars>>
     ELSE Conclude(active, <<"TRANSCRIPT_FINAL">>) /\ UNCHANGED prefetched
  /\ UNCHANGED <<finalQ, untouchedByFinalizer>>

Translated ==
  /\ fpc = "translate" /\ ~fcancel /\ Owned(active)
  /\ \E outcome \in {"COMPLETED", "FAILED"} : Conclude(active, <<outcome>>)
  /\ UNCHANGED <<finalQ, prefetched, untouchedByFinalizer>>

(* The job's deadline passes while it is awaited, or has already ended its
   preparation task.                                                         *)
FinalTimeout ==
  /\ fpc \in {"prepare", "await", "translate"} /\ ~fcancel /\ Owned(active)
  /\ Conclude(active, <<"FAILED">>)
  /\ UNCHANGED <<finalQ, prefetched, untouchedByFinalizer>>

(* The finalizer is cancelled. Whatever its await then returns, the ownership
   check turns it into CancelledError: nothing is emitted.                   *)
FinalizerCancelled ==
  /\ fcancel
  /\ fpc' = "stopped" /\ fcancel' = FALSE
  /\ IF active = NoUtterance
     THEN UNCHANGED <<unfinished, pending, pendingAudio, audio, active, prep, accepted>>
     ELSE Settle(active)
  /\ UNCHANGED <<emitVars, finalQ, prefetched, accepting, termVars, untouchedByFinalizer>>

Finalizer ==
  \/ TakeJob \/ PreparedOutcome \/ PreparedText \/ Translated
  \/ FinalTimeout \/ FinalizerCancelled

(* _prepare_prefetched_utterance ends, in time or not.                       *)
PrefetchEnds ==
  /\ \E u \in Utterances :
       /\ prep[u] = "running"
       /\ \E result \in Preparations \cup {"expired"} : prep' = [prep EXCEPT ![u] = result]
  /\ UNCHANGED <<inputQ, emitVars, finalQ, unfinished, pending, pendingAudio, audio,
                 active, prefetched, accepted, finalVars, speechVars, flagVars, futVars,
                 workerVars, partVars, termVars, apc, clientVars>>

-----------------------------------------------------------------------------
(* The partials: _run_partial and _partial_done. *)

PartialEnds(u) ==
  /\ u \in partials
  /\ partials' = partials \ {u}
  /\ partialTask' = IF partialTask = u THEN NoUtterance ELSE partialTask

(* Nothing to show: noise, an error, a timeout, or a result that comes late. *)
PartialSkipped ==
  /\ \E u \in Utterances : PartialEnds(u)
  /\ UNCHANGED <<inputQ, emitVars, jobVars, finalVars, speechVars, flagVars, futVars,
                 workerVars, termVars, apc, clientVars>>

MayShowPartialClosed(u) == u \notin finalized /\ current = u (* mutant *)
MayShowPartialLate(u) == ~closed (* mutant: the utterance is not checked *)
MayShowPartial(u) == ~closed /\ u \notin finalized /\ current = u
PartialShown ==
  /\ \E u \in Utterances :
       /\ PartialEnds(u) /\ MayShowPartial(u)
       /\ Emit("TRANSCRIPT_PARTIAL", u)
  /\ IF Fits(1) THEN UNCHANGED <<accepting, termVars>>
                ELSE accepting' = FALSE /\ StartTerminator
  /\ UNCHANGED <<inputQ, jobVars, finalVars, speechVars, flushed, closed, failEmitted,
                 futVars, workerVars, apc, clientVars>>

Partial == PartialSkipped \/ PartialShown

-----------------------------------------------------------------------------
(* The terminator: _terminate_stream, by whoever holds the lock. *)

Waits(p) ==
  /\ holder # p
  /\ CASE p = "worker"   -> wpc = "terminate" /\ wcancel = "none"
       [] p = "receiver" -> rpc = "terminate"
       [] p = "task"     -> termTask = "waiting"

(* The termination is over for p, who goes on.                               *)
Resume(p) ==
  /\ wpc' = IF p = "worker" THEN "done" ELSE wpc
  /\ rpc' = IF p = "receiver" THEN "waitSender" ELSE rpc
  /\ termTask' = IF p = "task" THEN "done" ELSE termTask

TerminationEntered ==
  /\ LockFree
  /\ \E p \in {"worker", "receiver", "task"} :
       /\ Waits(p)
       /\ TakeTermination(p)
       /\ IF p = "worker" THEN DisownJobs ELSE UNCHANGED <<jobVars, finalVars>>
  /\ accepting' = FALSE
  /\ UNCHANGED <<inputQ, emitVars, speechVars, flushed, closed, failEmitted, futVars,
                 wpc, wcmd, wdoomed, partVars, termTask, apc, clientVars>>

(* The stream is closed already: the lock is only passed through.            *)
TerminationSkipped ==
  /\ holder = "none" /\ closed
  /\ \E p \in {"worker", "receiver", "task"} : Waits(p) /\ Resume(p)
  /\ UNCHANGED <<inputQ, emitVars, jobVars, finalVars, speechVars, flagVars, futVars,
                 wcmd, wcancel, wdoomed, partVars, holder, tpc, tdoomed, apc,
                 spc, sender>>

(* The gather over the cancelled worker returns.                             *)
TerminationDisowns ==
  /\ tpc = "awaitWorker" /\ wpc = "done"
  /\ DisownJobs
  /\ tpc' = "sleepFinal" /\ tdoomed' = pending
  /\ UNCHANGED <<inputQ, emitVars, speechVars, flagVars, futVars, workerVars, partVars,
                 holder, termTask, apc, clientVars>>

(* A worker that terminates its own stream can itself be cancelled.          *)
TerminatorRuns == holder = "worker" => wcancel = "none"

TerminationFailsJobs ==
  /\ tpc = "sleepFinal" /\ TerminatorRuns
  /\ EmptyFinalQueue
  /\ EmitFailures(tdoomed)
  /\ DropPartials
  /\ tpc' = "sleepBg"
  /\ UNCHANGED <<inputQ, speechVars, flagVars, futVars, workerVars, holder, tdoomed,
                 termTask, apc, clientVars>>

TerminationEnds ==
  /\ tpc = "sleepBg" /\ TerminatorRuns
  /\ DrainInputQueue
  /\ Emit("STREAM_CLOSED", NoUtterance)
  /\ accepting' = FALSE /\ closed' = TRUE
  /\ holder' = "none" /\ tpc' = "none" /\ tdoomed' = {}
  /\ Resume(holder)
  /\ UNCHANGED <<jobVars, finalVars, speechVars, flushed, failEmitted, wcmd, wcancel,
                 wdoomed, partVars, apc, spc, sender>>

Terminator ==
  \/ TerminationEntered \/ TerminationSkipped
  \/ TerminationDisowns \/ TerminationFailsJobs \/ TerminationEnds

-----------------------------------------------------------------------------
(* abort, called by the receiver's release or by the shutdown. *)

StartAbortUncancelled == (* mutant: no cancel before gather *)
  /\ accepting' = FALSE /\ closed' = TRUE
  /\ apc' = "awaitWorker" /\ UNCHANGED wcancel
StartAbort ==
  /\ accepting' = FALSE /\ closed' = TRUE
  /\ CancelWorker
  /\ apc' = "awaitWorker"

AbortDropsPartials ==
  /\ apc = "awaitWorker" /\ wpc = "done"
  /\ DropPartials
  /\ IF partials = {}
     THEN apc' = "sleepFinal" /\ DisownJobs
     ELSE apc' = "sleepBg" /\ UNCHANGED <<jobVars, finalVars>>
  /\ UNCHANGED <<inputQ, emitVars, speechVars, flagVars, futVars, workerVars, termVars, clientVars>>

AbortDisowns ==
  /\ apc = "sleepBg"
  /\ apc' = "sleepFinal" /\ DisownJobs
  /\ UNCHANGED <<inputQ, emitVars, speechVars, flagVars, futVars, workerVars, partVars,
                 termVars, clientVars>>

AbortEnds ==
  /\ apc = "sleepFinal"
  /\ apc' = "finished"
  /\ EmptyFinalQueue
  /\ DrainInputQueue
  /\ UNCHANGED <<emitVars, speechVars, flagVars, workerVars, partVars, termVars, clientVars>>

Abort == AbortDropsPartials \/ AbortDisowns \/ AbortEnds

-----------------------------------------------------------------------------
(* The receiver: _receive_stream_frames and the end of its handler. *)

streamVars == <<jobVars, finalVars, speechVars, workerVars, partVars, termVars, apc>>

(* An exception in the handler: fail_and_close, then _wait_for_sender.       *)
ReceiverFails(kinds) ==
  /\ EmitRow(kinds \o Announcement, current)
  /\ FailAndClose("receiver")
  /\ rpc' = "terminate"
  /\ UNCHANGED <<jobVars, finalVars, speechVars, futVars, wpc, wcmd, wdoomed, partVars,
                 apc, spc, sender>>

(* Queue.put suspends only if the queue is full.                             *)
HasInputRoom == Len(inputQ) < InputCapacity
PutOrWait(cmd) == inputQ' = IF HasInputRoom THEN Append(inputQ, cmd) ELSE inputQ

(* feed_audio *)
FeedAudio ==
  /\ rpc = "recv" /\ accepting /\ ~closed
  /\ IF HasInputRoom
     THEN /\ inputQ' = Append(inputQ, "audio")
          /\ UNCHANGED <<emitVars, streamVars, flagVars, futVars, clientVars>>
     ELSE ReceiverFails(<<"BACKPRESSURE">>) /\ UNCHANGED inputQ

(* Audio after a flush or a failure, a malformed frame, an unknown control.  *)
ProtocolError ==
  /\ rpc = "recv"
  /\ ReceiverFails(<<>>)
  /\ UNCHANGED inputQ

(* flush and close up to the put; a second call shares the first's future.   *)
Flush ==
  /\ rpc = "recv"
  /\ IF flushFut = "none" /\ ~closed
     THEN /\ accepting' = FALSE /\ flushed' = TRUE /\ flushFut' = "pending"
          /\ PutOrWait("flush")
          /\ rpc' = IF HasInputRoom THEN "waitFlush" ELSE "putFlush"
     ELSE /\ rpc' = IF flushFut = "none" THEN "recv" ELSE "waitFlush"
          /\ UNCHANGED <<inputQ, accepting, flushed, flushFut>>
  /\ UNCHANGED <<emitVars, streamVars, closed, failEmitted, closeFut, spc, sender>>

Close ==
  /\ rpc = "recv"
  /\ IF closeFut = "none" /\ ~closed
     THEN /\ accepting' = FALSE /\ closeFut' = "pending"
          /\ PutOrWait("close")
          /\ rpc' = IF HasInputRoom THEN "waitClose" ELSE "putClose"
     ELSE /\ rpc' = IF closeFut = "none" THEN "waitSender" ELSE "waitClose"
          /\ UNCHANGED <<inputQ, accepting, closeFut>>
  /\ UNCHANGED <<emitVars, streamVars, flushed, closed, failEmitted, flushFut, spc, sender>>

PutControl ==
  /\ HasInputRoom
  /\ \/ rpc = "putFlush" /\ PutOrWait("flush") /\ rpc' = "waitFlush"
     \/ rpc = "putClose" /\ PutOrWait("close") /\ rpc' = "waitClose"
  /\ UNCHANGED <<emitVars, streamVars, flagVars, futVars, spc, sender>>

(* The future is resolved. close also waits for the worker to be gone.       *)
ControlReturns ==
  /\ \/ rpc = "waitFlush" /\ flushFut = "done" /\ rpc' = "recv"
     \/ rpc = "waitClose" /\ closeFut = "done" /\ wpc = "done" /\ rpc' = "waitSender"
  /\ UNCHANGED <<inputQ, emitVars, streamVars, flagVars, futVars, spc, sender>>

ControlRaises ==
  /\ \/ rpc = "waitFlush" /\ flushFut = "error"
     \/ rpc = "waitClose" /\ closeFut = "error"
  /\ ReceiverFails(<<>>)
  /\ UNCHANGED inputQ

(* The client is gone, or the sender ended first.                            *)
Disconnect ==
  /\ rpc = "recv"
  /\ rpc' = "release"
  /\ UNCHANGED <<inputQ, emitVars, streamVars, flagVars, futVars, spc, sender>>

SenderObserved ==
  /\ rpc \in {"recv", "waitSender"} /\ sender \in {"done", "dead"}
  /\ rpc' = "release"
  /\ UNCHANGED <<inputQ, emitVars, streamVars, flagVars, futVars, spc, sender>>

(* _wait_for_sender gives up on a client that does not take its events.      *)
SenderTimeout ==
  /\ rpc = "waitSender" /\ sender \in {"ready", "blocked"}
  /\ rpc' = "release" /\ sender' = "dead"
  /\ UNCHANGED <<inputQ, emitVars, streamVars, flagVars, futVars, spc>>

(* release_stream, then the sender is stopped.                               *)
SenderStopped == sender' = IF sender = "done" THEN sender ELSE "dead"
Release ==
  /\ \/ /\ rpc = "release" /\ ~closed
        /\ rpc' = "aborting"
        /\ StartAbort
        /\ UNCHANGED sender
     \/ /\ \/ rpc = "release" /\ closed
           \/ rpc = "aborting" /\ apc = "finished"
        /\ rpc' = "done" /\ SenderStopped
        /\ UNCHANGED <<accepting, closed, wcancel, apc>>
  /\ UNCHANGED <<inputQ, emitVars, jobVars, finalVars, speechVars, flushed, failEmitted,
                 futVars, wpc, wcmd, wdoomed, partVars, termVars, spc>>

Client == FeedAudio \/ ProtocolError \/ Flush \/ Close \/ Disconnect
Receiver ==
  \/ PutControl \/ ControlReturns \/ ControlRaises
  \/ SenderObserved \/ SenderTimeout \/ Release

-----------------------------------------------------------------------------
(* The sender: _send_events over next_event. *)

sentVars == <<last, terminals, overflowed, streamVars, flagVars, futVars, rpc, spc>>

(* An empty queue of a closed stream reads as STREAM_CLOSED; a sender already
   waiting in get() is not woken by that.                                    *)
Send ==
  /\ sender \in {"ready", "blocked"}
  /\ \/ /\ events # <<>>
        /\ events' = Tail(events)
        /\ sender' = IF Head(events) = "STREAM_CLOSED" THEN "done" ELSE "ready"
     \/ /\ events = <<>> /\ sender = "ready"
        /\ sender' = IF closed THEN "done" ELSE "blocked"
        /\ UNCHANGED events
  /\ UNCHANGED <<inputQ, sentVars>>

(* send_json fails: the connection is gone.                                  *)
SenderFails ==
  /\ sender = "ready"
  /\ sender' = "dead"
  /\ UNCHANGED <<inputQ, events, sentVars>>

Sender == Send \/ SenderFails

-----------------------------------------------------------------------------
(* The server's shutdown: _close_for_shutdown. *)

untouchedByShutdown == <<emitVars, jobVars, finalVars, speechVars, flushed, failEmitted,
                         flushFut, wpc, wcmd, wdoomed, partVars, termVars, rpc, sender>>

ShutdownCloses ==
  /\ Shutdown /\ spc = "idle" /\ rpc # "done"
  /\ IF closeFut = "none" /\ ~closed
     THEN /\ accepting' = FALSE /\ closeFut' = "pending"
          /\ PutOrWait("close")
          /\ spc' = IF HasInputRoom THEN "wait" ELSE "put"
     ELSE /\ spc' = IF closeFut = "none" THEN "done" ELSE "wait"
          /\ UNCHANGED <<inputQ, accepting, closeFut>>
  /\ UNCHANGED <<closed, wcancel, apc, untouchedByShutdown>>

ShutdownPuts ==
  /\ spc = "put" /\ HasInputRoom
  /\ PutOrWait("close")
  /\ spc' = "wait"
  /\ UNCHANGED <<accepting, closed, closeFut, wcancel, apc, untouchedByShutdown>>

(* The close is over, raises, or takes longer than the grace period.         *)
ShutdownDone ==
  /\ spc = "wait" /\ closeFut = "done" /\ wpc = "done"
  /\ spc' = "done"
  /\ UNCHANGED <<inputQ, accepting, closed, closeFut, wcancel, apc,
                 untouchedByShutdown>>

ShutdownAborts ==
  /\ spc = "put" \/ (spc = "wait" /\ closeFut # "done")
  /\ IF closed
     THEN spc' = "done" /\ UNCHANGED <<accepting, closed, wcancel, apc>>
     ELSE spc' = "aborting" /\ StartAbort
  /\ UNCHANGED <<inputQ, closeFut, untouchedByShutdown>>

ShutdownAborted ==
  /\ spc = "aborting" /\ apc = "finished"
  /\ spc' = "done"
  /\ UNCHANGED <<inputQ, accepting, closed, closeFut, wcancel, apc,
                 untouchedByShutdown>>

ServerShutdown ==
  \/ ShutdownPuts \/ ShutdownDone \/ ShutdownAborts \/ ShutdownAborted

-----------------------------------------------------------------------------
(* start() has run: STREAM_READY waits to be sent.                           *)
Init ==
  /\ inputQ = <<>> /\ events = <<"EVENT">>
  /\ finalQ = <<>> /\ unfinished = 0
  /\ current = NoUtterance /\ sequence = 0 /\ finalized = {}
  /\ pending = {} /\ pendingAudio = 0 /\ audio = [u \in Utterances |-> 0]
  /\ active = NoUtterance /\ prefetched = NoUtterance
  /\ prep = [u \in Utterances |-> "none"]
  /\ accepting = TRUE /\ flushed = FALSE /\ closed = FALSE /\ failEmitted = FALSE
  /\ flushFut = "none" /\ closeFut = "none"
  /\ wpc = "get" /\ wcmd = "none" /\ wcancel = "none" /\ wdoomed = {}
  /\ fpc = "get" /\ fcancel = FALSE
  /\ partialTask = NoUtterance /\ partials = {}
  /\ holder = "none" /\ tpc = "none" /\ tdoomed = {} /\ termTask = "none"
  /\ apc = "none"
  /\ rpc = "recv" /\ spc = "idle" /\ sender = "ready"
  /\ last = [kind |-> "STREAM_READY", utterance |-> NoUtterance]
  /\ terminals = [u \in Utterances |-> 0]
  /\ accepted = {} /\ overflowed = FALSE

(* The connection is over and every task of the stream has ended.            *)
Finished ==
  /\ rpc = "done" /\ wpc = "done" /\ holder = "none" /\ termTask # "waiting"
  /\ spc \in {"idle", "done"} /\ sender \in {"done", "dead"}
  /\ UNCHANGED vars

Next ==
  \/ Worker \/ Finalizer \/ PrefetchEnds \/ Partial
  \/ Terminator \/ Abort
  \/ Client \/ Receiver \/ Sender
  \/ ShutdownCloses \/ ServerShutdown
  \/ Finished

(* The event loop runs every task that can run, and every await of the tasks
   has a deadline. Nothing obliges the client to send, to take its events or
   to leave, or the server to shut down.                                     *)
Fairness ==
  /\ WF_vars(Worker) /\ WF_vars(Finalizer) /\ WF_vars(PrefetchEnds)
  /\ WF_vars(Partial) /\ WF_vars(Terminator) /\ WF_vars(Abort)
  /\ WF_vars(Receiver) /\ WF_vars(ServerShutdown)

Spec == Init /\ [][Next]_vars
FairSpec == Spec /\ Fairness

-----------------------------------------------------------------------------
(* Type invariant. *)

Futures == {"none", "pending", "done", "error"}

EmitTypes ==
  /\ events \in Seq({"EVENT", "STREAM_CLOSED"}) /\ Len(events) <= EventCapacity
  /\ last \in [kind : EventKinds, utterance : Identities]
  /\ terminals \in [Utterances -> Nat] /\ overflowed \in BOOLEAN

JobTypes ==
  /\ finalQ \in Seq(Utterances) /\ unfinished \in Nat
  /\ pending \subseteq Utterances /\ pendingAudio \in Int /\ audio \in [Utterances -> Nat]
  /\ active \in Identities /\ prefetched \in Identities
  /\ prep \in [Utterances ->
       {"none", "running", "text", "silence", "error", "expired", "cancelled"}]
  /\ accepted \subseteq Utterances

SpeechTypes ==
  current \in Identities /\ sequence \in Identities /\ finalized \subseteq Utterances

FlagTypes ==
  /\ accepting \in BOOLEAN /\ flushed \in BOOLEAN
  /\ closed \in BOOLEAN /\ failEmitted \in BOOLEAN
  /\ flushFut \in Futures /\ closeFut \in Futures

WorkerTypes ==
  /\ wpc \in {"get", "drain", "cancelDrain", "closeBg", "closeFinal", "terminate", "done"}
  /\ wcmd \in {"none", "flush", "close"} /\ wcancel \in {"none", "pending", "late"}
  /\ wdoomed \subseteq Utterances

FinalizerTypes ==
  fpc \in {"get", "prepare", "await", "translate", "stopped", "dead"} /\ fcancel \in BOOLEAN

TermTypes ==
  /\ holder \in {"none", "worker", "receiver", "task"}
  /\ tpc \in {"none", "awaitWorker", "sleepFinal", "sleepBg"}
  /\ tdoomed \subseteq Utterances /\ termTask \in {"none", "waiting", "done"}

ClientTypes ==
  /\ apc \in {"none", "awaitWorker", "sleepBg", "sleepFinal", "finished"}
  /\ rpc \in {"recv", "putFlush", "waitFlush", "putClose", "waitClose", "terminate",
               "waitSender", "release", "aborting", "done"}
  /\ spc \in {"idle", "put", "wait", "aborting", "done"}
  /\ sender \in {"ready", "blocked", "done", "dead"}

(* Every variable has its type, the event queue stays within its capacity, and
   task_done never runs ahead of the jobs put.                               *)
TypeOK ==
  /\ inputQ \in Seq({"audio", "flush", "close"})
  /\ EmitTypes /\ JobTypes /\ SpeechTypes /\ FlagTypes
  /\ WorkerTypes /\ FinalizerTypes
  /\ partialTask \in Identities /\ partials \subseteq Utterances
  /\ TermTypes /\ ClientTypes

-----------------------------------------------------------------------------
(* Safety. *)

(* No utterance gets two outcomes, whichever of the finalizer, the drain
   deadline, the termination and the stream's own failure gets to it first.  *)
AtMostOneOutcome == \A u \in Utterances : terminals[u] <= 1

(* The buffered audio that _queue_finalization limits is exactly that of the
   jobs still owned, and within the limits; so put_nowait on the final queue
   never raises. Buffered has one element for each unit of a job's audio.    *)
Frames(jobs, lengths) == UNION { {u} \X (1 .. lengths[u]) : u \in jobs }
Buffered == Frames(pending, audio)
PendingAccounting ==
  /\ pendingAudio = Cardinality(Buffered)
  /\ pendingAudio <= MaxPendingAudio
  /\ Cardinality(pending) <= FinalCapacity
  /\ Len(finalQ) <= FinalCapacity

(* Every queued job is acknowledged once: what join() waits for is what is
   queued or in the finalizer's hands.                                       *)
JoinCountsJobs ==
  unfinished = Len(finalQ) + IF active = NoUtterance THEN 0 ELSE 1

(* A channel never runs two recognitions of final utterances at once, and the
   one ahead is the next in line.                                            *)
OneRecognition ==
  LET running == { u \in Utterances : prep[u] = "running" }
  IN /\ Cardinality(running) <= 1
     /\ fpc = "prepare" => running = {}
     /\ \A u \in running : u = active \/ (u = prefetched /\ u = Head(finalQ))

(* Once close() has returned nothing is left that could still act for the
   stream: no worker, no owned job, no terminator.                           *)
CloseDoneMeansQuiet ==
  closeFut = "done" =>
    /\ closed /\ wpc = "done" /\ pending = {} /\ finalQ = <<>>
    /\ fpc \in {"get", "prepare", "await", "translate"} => fcancel

(* STREAM_CLOSED is the last thing a client hears of the stream.             *)
NothingAfterClosed ==
  [][last.kind = "STREAM_CLOSED" => last' = last /\ terminals' = terminals]_vars

(* No provisional text follows the final text or the outcome of its utterance,
   as long as the stream has not failed (_run_partial 667-672). A partial may follow
   the FAILED that fail_and_close announces for the utterance being spoken.  *)
NoPartialAfterFinal ==
  [][last' # last /\ last'.kind = "TRANSCRIPT_PARTIAL"
       => failEmitted \/ (/\ last'.utterance \notin accepted
                          /\ terminals[last'.utterance] = 0)]_vars

(* The final utterances: what waits for one is counted, one is recognised at a
   time, and it has one outcome (_queue_finalization, _finalize_loop).       *)
FinalizationInv == PendingAccounting /\ OneRecognition /\ AtMostOneOutcome

(* What comes too late for an utterance or for the stream is not shown.      *)
NothingTooLate == NoPartialAfterFinal /\ NothingAfterClosed

-----------------------------------------------------------------------------
(* The stream implements its contract: an utterance is settled when its
   outcome is in the event queue, and broken is the stream that could not put
   an event there or was aborted.                                            *)
Fate == IF overflowed \/ apc # "none" THEN "broken" ELSE IF closed THEN "closed" ELSE "open"
Contract == INSTANCE VoiceStreamContract WITH
  heard <- sequence,
  settled <- { u \in Utterances : terminals[u] # 0 },
  fate <- Fate

ImplementsContract == Contract!Spec

-----------------------------------------------------------------------------
(* Liveness, under FairSpec. *)

(* The WebSocket handler is never stuck: a client's flush and close return (flush 322,
   close 337), and a lost connection is released (abort 340-351). Not so for a flush
   that the client sends while the server shuts down: queued behind the CLOSE that
   ends the worker it is never answered.                                     *)
HandlerReturns ==
  LET flushing == rpc \in {"putFlush", "waitFlush"}
      closing == rpc \in {"putClose", "waitClose"}
  IN (flushing ~> ~flushing) /\ (closing ~> ~closing) /\ (rpc = "release" ~> rpc = "done")

(* A stream that announced its failure, or could not put an event into the event
   queue, closes without further input, though the tasks that must stop for it are at
   any await (_terminate_stream 441-473, tests/test_voice_stream_resilience.py:465). *)
FailureCloses == (failEmitted \/ overflowed) ~> closed

(* An accepted utterance gets an outcome, unless the client stopped taking
   events or is gone.                                                        *)
SettledEventually ==
  \A u \in Utterances :
    u \in accepted ~> (terminals[u] = 1 \/ overflowed \/ apc # "none")

(* The shutdown of the server does not wait for ever for a stream.           *)
ShutdownEnds == spc \in {"put", "wait", "aborting"} ~> spc = "done"

=============================================================================
