# TLA+ models of the TranslaCat AI server

The AI server is a single FastAPI process with one event loop. It keeps almost no
data, but it does keep *places*: streams, queued utterances, permits for receipt
images, slots of the local speech model, places at providers, admissions of the
model execution gate, locks of retries. Its hard behaviour is what happens to
those places when clients disconnect, deadlines pass, tasks are cancelled in
the middle of an `await`, queues fill up and the server shuts down. Beside the
server the repository has the tools of its live QA campaigns: commands that share
files, spend money, and may be killed between any two of their steps. Both are
modelled here. Providers, recognizers, clients and the back end are free to do
anything their interface lets them do.

Source paths below are relative to `src/` (`app/...`, `scripts/...`). Line numbers of
every definition are in `PROJECT.json` under `map`.

## 1. The system

### Components with state

| Component | Code | State it keeps | Operations | Module |
| --- | --- | --- | --- | --- |
| Voice stream | `features/voice_translation/stream.py`, class `VoiceChannelStreamContext` | input queue, event queue, queue of accepted utterances and its join counter, ownership of jobs, the utterance being spoken, the set of finalized utterances, flags, futures of flush and close, termination lock | `feed_audio`, `flush`, `close`, `abort`, `fail_and_close`; its tasks: worker, finalizer, prefetch, partials, terminator | `VoiceStream`, contract in `VoiceStreamContract` |
| WebSocket handler | `api/internal/voice.py` | receiver and sender of one connection | receive frames, send events, leave | in `VoiceStream` (receiver, sender) |
| Voice activity detector | `features/voice_translation/audio.py`, class `VoiceActivityDetector` | pre-roll, frames of the utterance being spoken, offsets and counters of milliseconds | `process`, `flush`, `clear` | `VoiceActivityDetector` |
| Realtime preview | `features/voice_translation/realtime_preview.py`, class `VoicePreviewJob`, and its use in `stream.py` | newest snapshot, transcript, language, translation, what was emitted; three tasks in a group | `offer`, `cancel`, the tasks, `_publish` | `RealtimePreview` |
| Stream registry | `stream.py`, class `VoiceStreamApplicationService` | streams by session and channel, accepting or not | `open_stream`, `release_stream`, `shutdown` | `StreamRegistry` |
| Receipt Vision scheduler | `features/receipt/vision_scheduler.py` | two semaphores, three counters | `run` | `VisionScheduler` |
| Local speech runtime | `features/speech_to_text/runtime.py` | priority queue, workers, model threads | `transcribe`, `shutdown` | `SpeechRuntime` |
| Provider pool | `ai/provider_pool.py` | per provider a semaphore, an active count, a cooldown | `_invoke` behind every method | `ProviderPool` |
| Execution gate | `api/internal/model_profile_execution.py` | admitted count, slot semaphore, per stream a queue and two tasks | plain and streaming execution | `ExecutionGate` |
| Idempotency store | `common/idempotency.py`, used by `voice_translation/translation.py` | results with expiry, locks by key | `retry_translation` | `IdempotencyStore` |
| Receipt analysis | `features/receipt/service.py`, `validation.py` | per request: the reading, the regions, what was merged | `analyze`, `validate_response`, `_book_amount` | `ReceiptAnalysis`, `ReceiptValidation` |
| OCR service | `services/ocr_service.py` | recognisers by language, two locks, temporary files | `extract_document_from_upload` | `OcrService` |
| Utterance language | `voice_translation/language.py` and its use in `stream.py` | locked language, candidate, the last sentence, silent utterances | `observe`, `resolve_translation_source`, the context of a translation | `UtteranceLanguage` |
| Final translation | `voice_translation/translation.py`, `final_translation.py`, `errors.py` | slots | `translate` | `VoiceTranslation` |
| Hosted transcription | `voice_translation/hosted_stt.py`, `transcribe_stt.py` | slots for final and preview requests, the client | `transcribe_pcm`, `shutdown` | `HostedTranscription` |
| Progressive fields | `ai/providers/openai/progressive_fields.py`, `profile_execution.py` | a buffer, a parser state, the keys so far | `feed`, `complete`, the streamed execution | `ProgressiveFields` |
| Campaign ledger | `scripts/qa_campaign_budget.py`, `qa_campaign_audio_budget.py` | a JSON file of reservations shared by processes | `reserve`, `finish`, `halt`, the call boundary, amendments | `CampaignLedger` |
| Quality campaign | `scripts/novel_quality_verification.py`, `novel_quality_server.py` | the same file with phases and stages, locks of provider slots | executors that reserve, call and settle | `QualityCampaign` |
| Campaign client and workflows | `scripts/qa_campaign_be_api.py`, `qa_campaign_be_workflows.py`, `qa_campaign_reading.py` | a ledger of one-shot requests, a report for each workflow | `call`, `poll`; listening, speaking, reading | `CampaignClient`, `ListeningWorkflow`, `SpeakingWorkflow`, `ReadingWorkflow` |
| QA environment | `scripts/qa_campaign_integration.py` | manifest, secrets, properties, artifacts; Docker and the back end | `prepare`, `start_infrastructure`, `attach_host_network`, `start_be`, `check_auth`, the fixtures | `QaEnvironment` |
| asyncio.Semaphore, asyncio.Lock | CPython 3.11 (external) | value, waiters | acquire, release, cancel | `AsyncSemaphore` |

### How they interact

The WebSocket handler opens a stream in the registry, feeds it, and releases it when the
connection ends; the sender takes what the stream puts into its event queue. Inside a
stream the worker turns audio into utterances and hands them to the finalizer through a
bounded queue; the voice activity detector is a plain object of the worker. The
finalizer asks the speech provider and the translator, one utterance after the other; a
prefetch task may run the recognition of the next one meanwhile, and partial tasks give
provisional transcripts of the utterance being spoken; where the realtime preview is on,
a job of its own does this instead and loses the utterance to its outcome. Whoever sees
a failure becomes the terminator: it cancels and joins the others under a lock. The
shutdown of the server (lifespan of `main.py`) snapshots the registry, closes every
stream concurrently and aborts those that do not close in time, then shuts the speech
runtime down. The speech provider, when local, is the speech runtime; remote models are
reached through the hosted providers. What an utterance was heard in locks the channel's
language and decides what the next one is translated after. Receipt analysis goes
through the Vision scheduler and, when no vision answers, through the OCR service;
`model-executions` requests through the gate, where a streamed one is shown field by
field. A QA workflow is a process that asks the back end through the one-shot ledger;
the providers it uses are wrapped by the campaign's budget. Between components only
calls and their outcomes cross: each module takes the outcome of a call into another
component as any the interface permits (an answer, an exception, a timeout, a
cancellation), which is how the modules compose.

### What is hard here

* Every `await` is a place where another task runs and where a cancellation can
  come out. State read before it is stale after it (`stream.py` 1073,
  `provider_pool.py` 213, `idempotency.py` 62).
* `asyncio.wait_for` of Python 3.11 can swallow a cancellation, or hand over a
  permit to a call that has just been timed out.
* Five tasks may give one utterance its outcome; exactly one may.
* Bounded queues that are full at the worst moment (`QueueFull` in any task that
  emits), and joins whose counter must agree with what is left in the queue.
* A native inference cannot be interrupted: its slot outlives its caller.
* Shutdown and disconnect overlap everything else.
* Several answers about one thing arrive in any order (regions of a photograph,
  deltas of a text, recognitions of a talk) and are merged with what was known.
* The files of the QA tools are all that is left of a command that was killed, and
  the same file is used by several processes.

The full list, with lines and the properties that cover each, is `hazards` in
`PROJECT.json`.

### What makes each component correct

* Voice stream: an utterance gets at most one outcome, and if accepted exactly
  one unless the stream breaks; outcomes come in the order of speech; nothing
  follows `STREAM_CLOSED`; flush, close and release return; a failed stream
  closes; after close nobody acts for the stream.
* Voice activity detector: speech that lasts is in an utterance, utterances keep to
  their order and overlap only at a forced split.
* Realtime preview: nothing is shown after the outcome, a translation belongs to the
  text it is shown with, the last text is published, the job ends by itself.
* Registry: an open stream is reachable, the limit holds, a connection leaves
  nothing behind, a shutdown leaves none.
* Scheduler, pool, gate: permits are conserved through every ending of a call,
  never idle while somebody waits, and counters agree with reality.
* Speech runtime: capacity for final requests, no more inferences than workers,
  every caller answered also by a shutdown.
* Receipts: a second reading makes no other currency, printed date or total of the first,
  what is bookable is whole and complete, an amount is booked once.
* Languages and context: the lock moves only on the evidence it asks for, nothing is
  translated from a language it was not heard in, the context is the near sentence
  before.
* Translation and transcription: slots are conserved, retries are worth it, trust
  is earned.
* Progressive fields: what is shown does not depend on how the text was cut.
* Ledgers: what was used is charged, limits hold across processes, a stop is final.
* Workflows: one-shot requests go out once, completed means completed.
* QA environment: what a killed command leaves is known to the next one.
* Idempotency store: one translation at a time for an id, the answer fits the
  request, an answer that is there is not translated again.

## 2. The modules

An action is what one task does between two points at which it may be
suspended. Clocks are not modelled: a deadline may pass at any `await` it covers.

### VoiceStream and VoiceStreamContract

`VoiceStream` has one program counter per task (`wpc` worker, `fpc` finalizer,
`tpc` terminator, `apc` abort, `rpc` receiver, `spc` shutdown, `sender`) and the
fields of the context under their names. Audio is a length, an utterance is its
number. The VAD and the providers choose: silence, start, end of speech; text,
no text, an error, an answer that comes after the deadline. The worker's actions
are `ProcessAudio`, `ProcessFlush`, `ProcessClose` and the drains; the
finalizer's `TakeJob`, the preparation and translation of a job, `Conclude`; the
terminator's four steps are the four places at which `_terminate_stream`
suspends. `LostCancel` switches on what `wait_for` does with a cancellation
that arrives when the join has just completed.

`VoiceStreamContract` is the promise to the client: utterances begin one after
the other, are accepted or dismissed, and the accepted ones are settled in
order; a stream that closes owes nothing; only a broken stream (aborted, or its
client took no events) may leave utterances behind, and even that never settles
one twice. `ImplementsContract` instantiates it over the variables of
`VoiceStream`.

Kept looser than the code: `sleep(0)` is a suspension also where nothing else
can run; a cancelled partial may still emit if the guards of `_run_partial` let
it; the announcement of backpressure has no memory. Left out: the limit of 256 on
the set of finalized utterances. The realtime preview (off by default), the voice
activity detector and the language of an utterance have modules of their own.

### VoiceActivityDetector

Frames follow each other without a gap, so that a frame is a stretch of time with a
flag and the PCM data of a list of frames is the stretch it covers; cutting the
bytes of a frame is cutting the stretch. One action per branch of
`_process_idle` and `_process_active`, and `flush` and `clear`. `announced`,
`boundary` and `run` are history variables for the properties; what a list of frames
has (`SpeechIn`, `FirstSpeech`, `LastSpeech`, `SpeechMs`) is defined by its frames, without
a fold. `DurationAssumption` has the lengths that the settings and the start command admit
(`schemas/voice_translation.py` 72-78). That speech is never lost over a forced split
needs `OverlapAssumption` besides: the overlap and one more frame reach the evidence for
speech. The defaults (100, 20 and 40 ms) do; nothing in the code asks it of other settings.

### RealtimePreview

One job with the tasks of its group, `_check_language`, `_transcribe` and
`_translate`, and the stream as its owner. A text is a sequence of words and ends
of sentences, so that corrected transcripts and translated beginnings can be told
apart; a translation is known by the text it translates. `_publish` never
suspends: whoever holds its lock only calls `_emit`, which does not wait. The
provider is external: its transcript grows, the final one replaces it, and after
a cancellation it may still deliver.

### StreamRegistry

Nothing is awaited while `_lock` is held, so a section under it is one action:
`OpenStream`, `ReleaseStream`, `Shutdown`. Between them, a stream's own life is
abstracted to new, open, aborting, closed. A stream being aborted counts as
closed from the first moment (its `closed` is set before the first `await` of
`abort`). A second cancellation of the handler in `release_stream` is not
modelled.

### VisionScheduler

`run` from `Submit` (admission, counter) through the recovery and the total
semaphore to the provider and out (`Finish`, `Unwind`), with `GiveUp` for a
cancellation or deadline in the bounded wait and `StartTooLate` for a deadline
that passes between the permit and the call. Calls that are refused are no
actions: they change nothing. In the code a call that asks while a permit is on
its way to a waiter that has been woken but not run queues behind it, though a
permit may be free; this module lets it take that free permit at once.
`AsyncSemaphore` has the exact rule. `max(0, ...)` around the counters is not
modelled: `Accounting` shows that it never cuts a counter.

### SpeechRuntime

`transcribe` (the capacity for partial and final requests, the priority queue),
the workers, the thread of the native model which goes on when its caller has
left, and `shutdown`. The module starts behind the warm-up; the end of the
thread and the wake-up of the worker are one step. Loading the model is left out.

### AsyncSemaphore

Operators on a record `[value, queue, woken, held]`: a semaphore of Python 3.11
with the state in which a waiter has been chosen by `release` but has not run.
Only there can a cancellation meet a permit, and there a newcomer queues though
`value > 0`. `asyncio.Lock` is used as a semaphore of one.

### ProviderPool

`_invoke`: the snapshot of candidates in order, the sleep when all cool down,
the wait for a place, the second look at the cooldown, the call, the failover
after a transient failure, the end after a final one. Whether a provider can
serve a method (`Serves`) is a constant: readiness is a test of the API key.
Cooldowns may have any length. `dock` and `undock` happen before the first
request. The factory docks one provider; the runs use two, which is what the code
of the pool is for.

### ExecutionGate

A plain request with its watcher, execution and deadline, and a streamed one with
its producer, its bounded queue, its response task and the cancellation that the
server delivers at a disconnect. Disconnects, deadlines and failures come at
every `await`. The cancellation of a response by Starlette and anyio is
external: it is delivered again at each `await` until the task ends. The
heartbeat is left out.

### IdempotencyStore

`retry_translation` around the store: the look, the lock of the key, the second
look, the translation, the put. A result leaves at its expiry (the code removes
it at the next `get` or `put`, before anybody can see it) or is displaced by a
newer one. A lock lives as long as a call refers to it, as in the code's
`WeakValueDictionary`. Each call is made once.

### UtteranceLanguage

One channel: utterances start, are settled at once as silent or wait for their turn,
and are finalized in order. A transcription brings a language, a confidence (a
level, of which only the order to the thresholds counts), whether the provider
vouches for it, and whether it is repetitive and is read again under the lock.
`evidence` and `fate` are history variables. A detection without a score neither
counts nor interrupts, as in `observe`; every failure forgets the context.

### VoiceTranslation and HostedTranscription

Requests with a slot of a semaphore, a deadline for all and, for translations, one
for each attempt. The provider raises what `map_translation_provider_exception` and
the `except` clauses tell apart. Two things a reader may not expect are as in the
code: an SDK's `APITimeoutError` is retried while the service's own deadline of an
attempt is not, and whisper does not look at its readiness again after the wait for
a slot, as transcribe does (`NoCallAfterShutdown` is stated for the latter). Whisper
answers preview requests with nothing and takes codes such as `jpn` for unsupported.

### ReceiptAnalysis, ReceiptValidation, OcrService

`ReceiptValidation` has the pure part: an item's currency, total, date, status and booked
amount, the receipts of a response. `BookAmount` is checked against what it promises
(`BooksWhatWasPaid`, `LinesAreASet`) over all small bills. `ReceiptAnalysis` is one
request: the whole image, the regions planned from it, their calls in every order,
the merge, the validation, the fallback to recognised text.

A raw item is a record of the fields that the status turns on, with the names they have in
the code (`FinancialFields` are the fifteen that `_merge_missing_receipt_fields` completes).
`None` is a field that is missing, `Blank` one that is there and says nothing: the merge
leaves it, the validation ignores it. An amount is what its text means in each currency, as
separators group or divide by the currency; a date is its two numbers, the form they are
written in (year first, numeric, a named month) and whether other text surrounds them; the
evidence of a currency is a bare symbol or more, its confidence high or low. `IsReading` says
that only a store that was named can be sound. The merge completes each field by itself, and
`ValidateItem` decides after it, from the completed fields, as `validate_item` does. Three
things follow that one would not expect, and the properties are stated accordingly:

* A region may *blank* what the first reading had: evidence that is a bare symbol, or a low
  confidence, is completed into the item and then voids the first reading's currency
  (`service.py` 732-752, `validation.py` 361-369); an order of the date with its evidence
  voids a date that would have been read without one. The receipt is then not ready.
  `FirstReadingStands` says that the currency is the first one or none, and the same of
  the date the first reading saw printed.
* A region may *replace* a date that the model gave with nothing printed beside it: the
  region's `source_date` goes before it (`validation.py` 408). It may also bring the
  `purchase_total` that goes before an `original_amount` (372-379). `FirstReadingStands`
  therefore speaks of the date that was printed and of `purchase_total` only.
* The plan reads a printed date without its order (`service.py` 601-604), the validation
  with it (or with the order of a Turkish receipt, `validation.py` 390-408). So a receipt whose
  region is wanted for its date may be ready as first read; `OnlyWhatIsSureIsReady` allows that
  when the region has answered and added nothing. A region that failed, or was
  not read for want of time or room, leaves a warning or a status, and the receipt is not ready.

When there is nothing to recover the annotation is skipped; the request's deadline does not
bound the fallback; the warning `REGION_RECOVERY_INVALID_RESPONSE` is not one that
validation keeps (the status is). `OcrService` has the recognisers, locks, files and
threads: a cancelled request gives back its lock and file while its thread goes on, so
`AloneWithItsFile` is about requests that wait.

### ProgressiveFields

The text is a sequence of units: punctuation, any other value, and a string as its
opening quote and what closes it, so that a delta may end inside a string. White
space is left out, and `recover_holes` is on, as in the only caller. `Objects` is the
reference: what `json.loads` makes of the text. A comma before the closing brace
is read by the parser and refused by `json.loads` at the end; a body that is too large
shows nothing of its last delta. The plain `execute()` shows nothing and is one call.

### CampaignLedger and QualityCampaign

The file under its lock is one variable, a section under the lock one step, the
processes are killed anywhere else. A call goes from its admission through the
reservation, the wait for a place, the provider and the settlement; the wrappers for
text, speech, Gemini and local recognition differ in what they reserve and charge.
`CampaignLedger` has the deadlines and the stops, `QualityCampaign` phases, stages and
provider slots. One amount stands for dollars, tokens, characters and seconds. In
`QualityCampaign` a note made after a call has been settled (in the `finally` of
`execute_explicit`) changes the hash of the calls before a stage: a stage that is
approved between the two is refused from then on, which
`OnlyLateNotesCloseTheStage` states as the only way. A killed call stays `STARTED` and
bars the next stage; a stream whose usage cannot be priced stays `STARTED` too.

### CampaignClient and the workflows

`CampaignClient` is what the workflows share: the lock of the output directory, the
one-shot ledger, a request that may be lost on the way or on the way back, the report
in memory and on disk, a kill at any point, the operator who removes a dead lock and
sends a request by hand. `ListeningWorkflow`, `SpeakingWorkflow` (read aloud, guided and
free) and `ReadingWorkflow` add the steps, and the back end as far as they see it. What a
step checks and may raise for (audio, evidence, checksums) is a step that may raise. On a
second resume of a read-aloud session the list of problems to read back is what the
first resume had read (`problemEvaluations or priorProblemEvaluations`), so problems
that it did not reach are not read back. Nothing keeps the operator from recording a turn
again by hand (the client takes `speaking-turn` with `rerecord` in its payload from anyone),
and then a finished report would tell of the recording before. `NothingRerecorded` says that he does
not; retries of what has failed are free to come at any moment.

### QaEnvironment

One operator gives one command at a time, each a sequence of steps with what it holds
in memory; a kill leaves the disk. Docker, the launches of the back end (which need a
while for their port) and the account in its database are the world outside. `Absent`
is a missing file, and no content of one (`EnvironmentAssumption`).

## 3. The runs

A run groups the components that can be checked in one instance. `MCSpeech`,
`MCProviders`, `MCPieces`, `MCReceipts` and `MCQaTools` are sums: the initial state
chooses a part, and only that part moves, so that the states are those of the parts
added, not multiplied. A part whose invariant is proved is extended by the sum, so that
the run checks the very definitions of the theorems: all three parts of `MCSpeech`, all
five of `MCProviders` (through `Providers`, which states the properties of several parts),
the detector and the language in `MCPieces`, the analysis and the OCR service in
`MCReceipts`, the environment, the client and the quality campaign in `MCQaTools`. The other
parts are instances, among them the workflows, each with its own constants. The
parts keep their own fairness, which is void for those that do not run; a sum does not
check deadlock because its parts come to an end (all calls made, the shutdown done).
That nobody is stuck is what the temporal properties say. The conjuncts of a property
have names and comments in the module they come from. Liveness of things that happen
once is stated as `<>[](none under way)`.

| Run | Shows | Bounds |
| --- | --- | --- |
| `voice_stream` | `FinalizationInv`: accounts of the final queue, one recognition at a time, one outcome at most; `JoinCountsJobs`; `NothingTooLate`: no partial after its final text, nothing after `STREAM_CLOSED`; the contract | 3 utterances, a final queue of 2: one is active, one prefetched, one refused or waiting; partials, lost cancels and an event queue of 2, which overflows |
| `voice_stream_liveness` | flush, close and release return, failed and overflowed streams close, accepted utterances get their outcome | 2 utterances, 2 events, no shutdown, no lost cancel |
| `voice_stream_shutdown` | types, the server's close ends, and after it nothing acts | 1 utterance, which may be longer than what may be buffered, shutdown at any moment, no lost cancel |
| `vision_scheduler` | permits, counters, room for whole images | 5 calls, 3 permits, 2 for recoveries, room for 4: one call is refused, one waits at each semaphore; 2 calls may be late between permit and provider |
| `receipts` | no other currency, printed date or total than the first reading's, only what is sure is ready, nothing read is lost (`AnalysisInv`); booked amounts (`BookedOnce`); recognisers, threads and files (`OcrInv`); analyses and recognitions end | readings of up to 3 of 12 items that differ in what recovery turns on (dates in either order, with and without it, in Turkish, in other text; amounts of the older name or grouped; no total, currency or place; a doubtful identity), 5 rereadings (nothing to add; another store, total, printed date and order; a bare symbol; a low confidence; almost nothing), 2 crops, 3 modes; bills of 3 lines; 3 requests in 2 languages. Endings with readings of one item |
| `receipts_flag` | a flag on the wrong receipt (see below) | as `receipts` |
| `speech` | runtime: capacity, slots, join counter, answers at shutdown (`RuntimeInv`); registry: reachability, limit, nothing left behind (`StreamsInv`); preview: translations fit their text, nothing after the outcome (`PreviewShows`); everybody returns (`EverybodyReturns`) | 3 requests, 2 workers, a queue of 3: a request that is not final is refused by the limit that keeps one place, a partial by another partial; 3 streams, 3 keys, limit 2: keys are taken over; transcripts of 2 words or ends of sentences and 3 snapshots: a correction may lengthen, shorten or replace |
| `providers` | pool and store (`CallsInv`, `NoCallInVain`), translation and transcription (`UtteranceInv`), gate (`GateInv`, `DisconnectWins`); every call ends | pool: 4 calls, providers with 1 and 2 places, a call only one of them serves; store: 5 calls, 2 ids, one payload conflict, room for one result; translation: 3 calls, 1 slot, 1 retry; transcription: 3 requests, a slot of each kind, both providers; gate: 3 requests, 1 slot, 1 waiting, a stream queue of 1 |
| `execution_gate_leak` | an admission that is never given back (see below) | 2 requests, 1 slot, 1 waiting |
| `pieces` | detector: speech is kept, utterances in order and within their length; language: `LanguageInv`, `LockFollowsEvidence`; fields: `FieldsInv` | 30 frames of 2 ms, limits that are no multiples of a frame, utterances of 6 frames at most: four forced splits in a row; 4 utterances, 9 kinds of recognition, 2 languages, a switch after 2; every object of up to 3 members and those of up to 2 with one token replaced, added or left out, cut everywhere, a limit of 18 units |
| `campaign_ledger` | charges are conservative, limits hold, a stop is final, calls at the provider end | 2 processes, of which one forgives cancellations, 3 calls of different kinds, 2 starts, a limit of 4 and an amendment to 5, a clock of 2 |
| `qa_tools` | one-shot requests and kept errors (`ClientInv`); what a killed command of the environment leaves (`EnvironmentInv`); charges, budgets and slots (`QualityInv`); what a finished report says, and texts that are kept (`ReportsAreTrue`); workflows end (`WorkflowEnds`) | listening: 2 items of a task, 2 rows each, 3 runs; speaking: 2 turns (one problem), read aloud with the probe and guided, retries by hand; reading: 2 questions of 2 versions, 2 runs; 2 polls where the code has 60; environment: 3 launches, 2 passwords; quality: 4 calls of 3 processes on 2 slots, one process of a stage; 3 starts, 2 of them for the exploration, whose limit of starts has too few calls to be refused here and is left to the theorem |

Each property of a passing run has, in `mutants`, at least one change a
programmer might make by mistake (a forgotten `task_done`, a check after the wait
left out, a permit not given back) with which TLC finds the property violated.

The instances are small because the components are symmetric in their clients:
two can compete, a third can overtake or be refused, and every queue is reached
both empty and full. Calls are interchangeable where they differ in nothing, and
symmetry is used only in runs without temporal properties. With `LostCancel`
the stream can stop with the worker joined for ever (see below); the runs about
endings therefore switch it off, and `voice_stream` shows that safety does not
depend on it.

### Where code and comments disagree

Two runs show a statement of the repository that the code does not keep; the
quotations are in `findings`.

| Run | What happens |
| --- | --- |
| `execution_gate_leak` | The client of a stream disconnects and `admitted` is never decremented. |
| `receipts_flag` | Receipts completed from their own region are flagged by their index in the first reading, after duplicates have been dropped: the warning is told of another receipt. |

Eight more were met while modelling and proving, and have no run of their own:

* With `LostCancel = TRUE` in `MCVoiceStream_liveness.cfg` TLC finds
  `FailureCloses` violated, which `tests/test_voice_stream_resilience.py` 465
  expects: the finalizer overflows on the last job of a drain, the worker's
  cancellation is lost in the `wait_for` of Python 3.11, and the terminator waits
  for the worker with the lock held. In `MCVoiceStream_shutdown.cfg` it finds
  `ShutdownEnds` violated in the same way: `abort` waits for a worker whose
  cancellation arrived when the join of a flush had just completed.
* A client's flush that is queued behind the CLOSE of a shutdown is never answered
  (`stream.py` 322, 493): the worker returns after CLOSE and leaves the queue. Its
  caller is the receiver, which the end of the connection cancels.
* `flush()` sets `_flushed` before its `put` may wait for room (`stream.py` 318); the CLOSE
  of a shutdown that gets into the queue first then skips the flush of the detector
  (493), and the utterance being spoken is left without an outcome. With `Shutdown = TRUE`
  in `MCVoiceStream.cfg` TLC finds `ImplementsContract` violated in this way. The run and
  the proof of the contract therefore have `Shutdown = FALSE`.
* A partial may follow the `FAILED` of its utterance (`stream.py` 667): only a
  final text or the closing of the stream keeps it back. `NothingTooLate` is
  stated accordingly.
* A worker cancelled at 890, between disowning overdue jobs and announcing them as
  failed, drops those failures. The contract lets a broken stream leave
  utterances behind.
* A Vision call that is late between permit and provider stays in `_active`
  (`vision_scheduler.py` 122). `Accounting` bounds the error by these calls.
* A date or a currency may be made of both readings of a receipt (see ReceiptAnalysis above):
  the first reading's currency is voided by the bare symbol that its region gave as
  evidence, its date by the region's order, or replaced by the region's printed one.
* Calls queued at a provider that starts to cool down get 503 at once instead of
  waiting for the cooldown, as calls that come later do (`provider_pool.py` 214).

## 4. Fairness

All temporal properties assume weak fairness only.

* Tasks of the event loop run when they can: worker, finalizer, terminator,
  abort, the WebSocket handler's own steps, the shutdown, and every wake-up of a
  waiter. Each `await` of theirs on the outside has a deadline in the code
  (recognition, translation, drain, shutdown grace), and a deadline is one of the
  outcomes of the action, so fairness of the action does not say that a provider
  ever answers.
* Translations and transcriptions have their deadlines, so their providers need not
  answer. A receipt's calls are bounded by the request's deadline and the scheduler's
  wait; threads of the OCR end.
* A workflow that is not killed goes on: each request has a timeout, so it is answered
  or raises, and polls are bounded. The back end has no fairness, nor has the operator.
  Nothing temporal is said of the environment and of the quality campaign.
* In `CampaignLedger` the clock ticks and a call's next step is taken; that a provider
  answers is not assumed.
* Native inferences have no fairness: `CallsReturn` of `SpeechRuntime` assumes
  `InferencesEnd`, and `RuntimeShutsDown` does without it.
* The tasks of a preview run, its language question has a deadline and its provider
  answers a committed audio; that the 18 seconds of the whole job pass is not
  assumed, so that `JobEnds` says that it ends without them.
* Providers of the pool and the store answer or time out (their HTTP clients have
  timeouts), and cooldowns pass.
* A client need not send anything, read anything or leave. The sender has no
  fairness: a client that does not read fills the event queue.

## 5. What is proved

`tlapm` checks these theorems for every value of the constants that the assumptions
permit. The assumptions are the named ones of the modules and say that limits are what the
settings admit, that sets of clients are finite, and that `None` is none of the values it
stands beside; the runs evaluate all of them. Each proof has the same shape: an inductive
invariant with one named conjunct for each idea, the initial states, one step for each
action, and `PTL` for the end. Eight modules hold the proofs; `PROJECT.json` lists the
theorems a reader should know of.

### The voice stream

`VoiceStream_proofs` has three layers, and the contract over them.

* *Types and the join.* `Inv` is `TypeOK`, `HandsInv` (the finalizer has a job in its
  hands exactly when its program counter says so) and `JoinCountsJobs` (the unfinished
  counter is the queue plus the job in hand). The counter stays natural only because of
  the other two; a drain's `join()` is therefore neither released early nor kept
  waiting by a job that is gone.
* *Control* (`ControlInv`). `OrderInv`: no audio behind a flush or a close.
  `TerminationInv`: who holds the lock of the termination and how far it is.
  `CommandInv`: the worker that processes a command hears no speech any more.
  `SilenceInv`: from a failure, termination or abort on the worker decides the fate of no
  utterance, even if its cancellation is lost. This is what keeps a late worker from
  adding jobs to a queue that has just been disowned.
* *Jobs* (`JobsInv`). `DisownInv`: behind `_cancel_final_jobs` nobody owns a job.
  `QueueInv`: the owned jobs are the queued ones and the one in hand, in the order of
  speech. `RecognitionInv`: what is being recognised is that one, or the next in line.
  `SizeInv`: the buffered audio and the limits, with the cardinality of a union of
  frames per job. `DoomInv` and `OutcomeInv`: what is owned or about to be failed has no
  outcome yet. `ClosedInv`: after `STREAM_CLOSED` nobody is left to emit.

From these follow `FinalizationCorrect` (`FinalizationInv`: the accounts of the pending
finalizations, one recognition, one outcome), `CloseIsQuiet` (`CloseDoneMeansQuiet`) and
`LateResultsAreDropped` (the action property `NothingTooLate`), all with prefetch,
partials, shutdown and lost cancellations on or off.

`StreamImplementsContract`: the stream implements `VoiceStreamContract`. Initial states map to initial states, each step of a task to a step of the contract or
a stutter. Beside the invariant above it needs `ClientInv` (a client asks for one thing
at a time), `FailureInv` (a termination has a reason), `FlushInv` (a flush that is over
has ended the utterance being spoken) and `FateInv` (where every utterance is that has no
outcome yet). It assumes `Shutdown = FALSE`: with a shutdown the contract does not hold
(section 3). Everything else about the stream is proved for both.

### Semaphore, registry, runtime and preview

`AsyncSemaphore_proofs` proves the operations, not a state machine: `Orderly` (types,
each waiter once in the queue, permits conserved, and `NoLostWakeup`) is kept by
`acquire`, `release`, the resumption of a woken waiter and a cancellation, and each
theorem says what the operation does to holders and waiters. `Providers_proofs` uses the
theorems, `Speech_proofs` the lemmas on queues.

`Speech_proofs` has three parts.

* *Registry*, `RegistryCorrect`: `StreamLife` (a stream is open only while its handler
  serves it), `EntriesAreTheirs` (an entry was opened under its key and is not released
  yet), `ShutdownReachesAll` (the shutdown has every open stream still before it) and the
  limit make `RegistryInv`; `StreamsInv` follows, since a handler that is gone has no entry.
* *Runtime*, `RuntimeCorrect`. `InOnePlace` says that a request is in the queue or with one
  worker, and that whoever waits for an answer is in some place; `Ending`, that workers end
  in the shutdown only; `Room`, the capacity and the place kept for a final request;
  `Accounts`, the slots and the counter of `join()`. Without `InOnePlace` a worker could take
  a request that another has, and the answer at shutdown would be given twice or never. That
  the queue has a next request (the lowest rank, then the lowest place) uses that `<` on
  numbers is well-founded.
* *Preview*, `PreviewCorrect` (`PreviewShows`). Beside the types and two conjuncts of the
  property itself (`TranslationFits`, `Complete`): `PublishedKept` (while the job is active,
  what was published last is the text there is), `TasksKept` (which of the group's tasks run
  at each point of the job) and `TranslatorKept` (the translator stops early only if nothing
  is left for it). `Complete` is what needs the last: without it the translator could have
  left a text that became the last one.

### Providers

`Providers_proofs` has a part for each kind of call, all on the semaphore's theorems.

* *Gate*: `Types`, `Course` (where a request is says whether its task exists),
  `SlotsOfTasks` (the semaphore is orderly, its holders and waiters are the tasks at those
  points) and `Admission` (every request that has not ended is counted). From them
  `GateCorrect` (`GateInv`), `ProviderLimit` (never more executions than slots) and
  `DisconnectAlwaysWins` (the action property `DisconnectWins`). `AdmittedCovers` is an
  inequality, because an admission can be lost (`execution_gate_leak`).
* *Pool*, `PoolIInv`: `PoolShape` (a call has a plan of providers that serve it),
  `PlacesKept` (the semaphore of each provider is orderly and belongs to the calls whose
  first candidate it is) and `Counted` (`active_calls`).
* *Store*, `StoreIInv`: `StoreKept` (one entry for a key, each the answer of a call with
  that key), `LocksKept` (the calls of a key that are under way share one lock, and the
  store knows it). That retries of one id never translate together is `LocksKept` with
  the semaphore of one. With the pool: `CallsCorrect` (`CallsInv`) and
  `NoCallEverInVain` (the action property `NoCallInVain`, that what is looked at again
  after a wait is looked at in the same step as the call).
* *Translation* and *transcription*: slots as above, `TriesKept` (all attempts but the last
  were worth repeating, and there are not too many), `ReadRight` (what is returned is what
  the service said). With the lemmas on the codes a language is recognised by:
  `UtterancesCorrect` (`UtteranceInv`).

### Detector and language

`Pieces_proofs`. *Detector*: `DetectorIInv` is `Counters`, `Speaking` (the frames of the
utterance being spoken reach without a gap from where it was announced until now, its first
speech lies behind the pre-roll), `Listening` (what is kept for the next one begins behind the
last cut, and no evidence is forgotten but what is enough with one frame more), `CutsFit`
and `SpeechIsKept`. The last two are what `Inv` says of the cuts; that they hold over a
forced split is the conjunct on `candidate` in `Listening`, with `OverlapAssumption`. The
lemmas say what putting a frame to a list, cutting it, and keeping its end do to where its
speech is. `DetectorCorrect` (`Inv`) and `StartsInOrder` (the action property `InOrder`) hold
for frames of any length and any number of them.

*Language*: `LanguageIInv` says that jobs wait and stand in the queue once
(`UtterancesKept`), that the sentence kept as context was heard in its language
(`CompletedKept`), that what was handed to the translator names it (`HandedKept`), and that
the candidate is what the last scored detections were, one after the other
(`CandidateKept`). `CandidateKept` is what `LockAlwaysFollowsEvidence` (the action property
`LockFollowsEvidence`) rests on: the counter of the code has no memory of its own of which
detections it counted. `LanguageCorrect` is `LanguageInv`.

### Receipts

`Receipts_proofs` has four parts: these three, and the Vision scheduler below.

* *Recognition*, `OcrCorrect` (`OcrInv`): `ThreadsKept` (a thread belongs to the request
  that waits for it, or to a cancelled one), `OneAtATime` (the locks) and `NotMadeYet` (who
  makes a recogniser has found none) for any requests and languages.
* *Analysis*, `AnalysisCorrect` (`AnalysisInv`), under `ReadingAssumption`. The invariant says
  what holds at each stage: which calls there are and which of them may answer (`CallsFit`);
  that the calls made and those not started yet are within the budget of the stage
  (`WithinBudget`); and how an item comes from the one that was read first (`ItemsFit`, with
  `Derived`): each field of the finances that was read is kept (`Keeps`), a store that a region
  changed is for a human, and an item whose region was wanted is not ready, or its region
  answered, its identity was not in doubt, and the region completed it or left it as it
  was (`Sure`). `Derived` is shown for the merge with any answer of a region. From `Keeps` to
  the answer lead `CurrencyStands` (a code that is kept is the currency, or none) and
  `PrintedDateStands`: a printed date that an order of the first reading decides is kept with
  it; one that needs no order is the same under any, or none (`OrderDoesNotMatter`).
  `AsReadIsTheSame` says that a receipt no field of which changed is what it was by
  itself. `AnswerFits` leads from there to the response: the lemmas on `ValidateItem` and on
  filtered sequences say that validation drops only what repeats an earlier receipt, that a
  ready receipt is whole, and that of two that could be the same both are flagged.
* *Amounts*. `AmountsAreRight`: for every bill, of any length, what is booked without a human
  and the redeemed points make the printed total. `RepeatedLineCountsOnce`: a grouped line that
  is printed again changes nothing. A sum is a function on the positions of the lines: that
  there is one for every bill, and that a line outside the summed set does not change it,
  is shown at the least position where it would fail. These are the general form of two
  of the three things `BookedOnce` says of small bills.

### Vision scheduler

The last part of `Receipts_proofs`. The inductive invariant is `Structure`: types, `QueueInv` (a
waiter stands once in the queue of the semaphore it is at, and does not hold its permit),
`RecoveryInv` (only recoveries are at the recovery semaphore) and `HoldersAreUnderWay`.
`TypeOK` alone is not inductive: that the number of free permits stays natural and that a
permit handed on is handed to a waiter needs the queue and the holders. Over it:
`HoldersCorrect`, `NoWakeupLost` (a permit is never idle while somebody waits),
`PermitsAlwaysConserved`, `CountersAlwaysFit` and `AccountsAlwaysFit` (the counters agree
with the calls under way but for those that were late; `Accounting` is the types, the
permits, the holders and the counters together), and from them `LimitsRespected`
(no more calls at the provider than the limits say) and `WholeImagesHaveRoom`.
`LimitsRespected` needs conservation by cardinality; `WholeImagesHaveRoom` the assumption
that there are fewer recovery permits than permits.

### The campaign ledger

`CampaignLedger_proofs`. Of the entries: a call has at most one, which is open until the call
has been settled and then has what it was settled with (`Entries`, `Outcomes`); a receipt is
final only once its call is over (`Receipts`). Hence `StopAlwaysFinal` (the action property
`StopIsFinal`: a recorded stop stays, no call is booked after it, and no entry is dropped,
repriced or reopened), `BookedAlways` (nobody enters the provider without an entry) and
`ReceiptsFollow`, across kills, restarts and amendments.

Of the amounts, `Money`: an entry has the price of its call until it is settled and then what
was observed of it (`Priced`), what a call has used is within what is reserved for the attempts
seen so far, and no more than is about to be charged (`Used`), and the sums are within the
limits until a stop is recorded (`WithinLimits`). A sum is a function on the positions of a
sequence; that two functions with its equations agree, and hence what appending an entry or
settling one does to a sum, is shown at the least position at which they would differ. With
the first invariant this gives `LedgerCorrect` (all of `Inv`, `Conservative` and
`WithinLimits` included).

### The QA environment

`QaTools_proofs` has a part for each of the tools of a campaign. *Environment*,
`EnvironmentCorrect` (`EnvironmentInv`), for any number of launches and of passwords made up.
The invariant says what each command finds and holds: `EnvironmentShape` (types);
`PreparedFirst` (without a manifest there is nothing else, and only `prepare` runs);
`ManifestKnows` (Docker has at most one container that the manifest does not list, the one
being made); `InHand` (the copy of the manifest a command works with is the one on disk, but
for what it is about to write: hence no kill and no later command loses an entry);
`BackEndIsRecorded`; `AccountKnown` (whose password the account has, before and after each of
the steps that register it); `WrittenOnce` (a fixture file is there before its row is written).

### The QA client and the workflows

*Client*: `ClientIInv` is `ClientShape`, `SendsOnce` and `TellsErrors`. Of `SendsOnce` the part
that makes it inductive is that a request that has begun and is not out yet has a record and
was never out. What a step may do to the client and to the report is stated once (`ClientStep`,
`ReportStep`) and shown to keep the invariant; each workflow then shows that its steps are of
these kinds, with a predicate on where it is (`ListeningPlace`, `ReadingPlace`, `SpeakingPlace`)
that keeps the index of an item, question or turn within its bounds, and with `Waits` (at the
stages at which it works alone it has no request out). `ListeningClientCorrect`,
`ReadingClientCorrect` and `SpeakingClientCorrect` (`ClientInv`) hold for sets and sessions of any
size, in every mode, with any requests of the operator.

*What a report says* is an action property of each workflow: at the step that writes
COMPLETED, the report and the back end agree. The last stage does not compare them; most of
the report is what the stages before it have collected, while the back end went on.

* `ReadingReportsAreTrue`. The questions of the back end only grow newer (`NotNewer`, an order on
  their versions). What was accepted of the first view, what the database had when the set was
  ready and what a later view has lie in this order, so when the first and the last are equal
  the one between is too.
* `ListeningReportsAreTrue`. An item that is evaluated stays so, because it is not submitted
  again: what the back end has got was counted by the client (`OutIsCounted`), and `SendsOnce` does
  the rest. That the session is complete is known from the answer to one request, so the
  invariant also says what each request on its way has done (`ListeningServed`).
* `SpeakingTextsAreKept` (`KeepsText`). A turn has no text before it is sent (`Blank`), and what the
  report on disk has of a text the report in memory has too (`TextsKept`); only a turn that has no
  text yet is at the stages that send one.
* `SpeakingReportsAreTrue`, under `NothingRerecorded`. A turn that is READY is not taken again,
  because its requests are spent (`Spent`: with the probe, also the second one), whether this
  run has sent them, one before it or the operator (`RecordsSpent`). So the turns before this one
  stay READY and as the report has them (`SpeakingDone`). `SpeakingMoves` says once for all stages
  what a stage does to the record of the turns and where it leads; both theorems use it.

### The quality campaign

*Quality campaign*, `QualityCorrect` (`QualityInv`), for any processes, calls and limits
(`QualityAssumption`). `CallsAreBooked` (a call has one entry, open until its answer is settled),
`UsageIsBooked` (an entry has what its call used, or no amount), `SlotsAreHeld`, and
`PriorHasEnded` (the calls before a stage are over, and differ from what was approved only by a
note that was due then) lead with the budgets themselves, `BudgetIsKept` and `StageIsKept`, to
the rest. The budgets are sums over the places of the entries that are in a phase or of the
stage: what a new entry or a settlement does to such a sum is shown at the least place where
it would fail (`SumOrder`), and that a reservation is no less than what is charged later makes
a sum that fitted before the call fit after it. They hold as long as no call used more than
it had reserved, as the properties say.

### What stays with TLC

* All liveness: it rests on fairness, and on which actions are enabled.
* `FieldsInv`: the reference it compares with, `Objects`, is recursive over the text, and
  what a recursive operator computes for every text takes an induction over data.
* `BookedOnce` as a whole: that the order of the lines of a bill does not matter is a
  statement about sums over permutations, again by induction over data. The rest of it is
  `AmountsAreRight` and `RepeatedLineCountsOnce`.
* `ReportsAreTrue` as a whole: it is about the four instances of `MCQaTools`. What it says of
  each workflow is proved of the workflow's own specification.

## 6. Plan

The components above are modelled, and the safety properties that the runs check are
proved but for the three above. In order, what comes next:

1. The contract of a stream under a shutdown: what is still true when its CLOSE
   overtakes a flush.
2. The composition of `ReceiptAnalysis` with `VisionScheduler`: several requests with
   regions of their own at the same permits.
3. The per-loop semaphores of `model_execution.py` and `speech_detector.py`, and
   the stable prefix of provisional transcripts.

## 7. What is not modelled

* The SDK clients of the providers (network I/O with one outcome), prompts and
  wording, schemas, configuration and authentication, routers: they keep no state
  between requests, and the models take what they return as a choice.
* Text and signal processing: the rule-based parser of recognised receipts, spending
  analysis, the levels and clipping of audio frames, the joining of Whisper's segments,
  currencies. They compute one value from another, and unit tests reach them.
* The speech evidence guard and the execution endpoint of single models: one semaphore
  each, the pattern of `OcrService` and `VoiceTranslation`.
* The limit of 256 finalized utterances in a stream: it is out of a model checker's
  reach.
* Providers for tests, benchmarks, browser and database fixtures of one campaign, and
  release checks: each runs once and alone.

`components` in `PROJECT.json` names every file with its reason.
