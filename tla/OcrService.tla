------------------------------ MODULE OcrService ------------------------------
(***************************************************************************)
(* The one service that recognises the text of images                      *)
(* (app/services/ocr_service.py).                                          *)
(*                                                                         *)
(* A recogniser is made once for each language and kept. Both its making   *)
(* and every recognition run on a thread, under a lock of the event loop;  *)
(* cancelling the request that waits for a thread releases the lock and    *)
(* removes the file, and the thread goes on. Images and text are left out; *)
(* the recogniser is external.                                             *)
(***************************************************************************)
EXTENDS Naturals, FiniteSets

CONSTANTS Requests, Languages, NoLanguage

VARIABLES
  request,    \* of each request: how far it is
  language,   \* the language it asked for
  cache,      \* _ocr_cache: the languages whose recogniser is there
  files,      \* the requests whose temporary file is on the disk
  threads,    \* what runs on a thread: its work, and the request that began it
  cancelled,  \* requests that were cancelled
  made        \* how often a recogniser was made and kept, by language

ocrVars == <<request, language, cache, files, threads, cancelled, made>>

In(state) == { r \in Requests : request[r] = state }
CreateLocked == In("creating") # {}    (* _create_lock.locked()  *)
PredictLockedNot == FALSE   (* mutant: recognitions are not serialised *)
PredictLocked == In("predicting") # {} (* _predict_lock.locked() *)
Moves(r, state) == request' = [request EXCEPT ![r] = state]
Begins(r, work) == threads' = threads \cup {[work |-> work, by |-> r]}
Writes(r) == files' = files \cup {r}
Ends(r, work) == threads' = threads \ {[work |-> work, by |-> r]}
-----------------------------------------------------------------------------
(* extract_document_from_upload: a file of the wrong kind or too large is refused
   before it is written.                                                          *)
RefuseFile(r) ==
  /\ request[r] = "new" /\ Moves(r, "refused")
  /\ UNCHANGED <<language, cache, files, threads, cancelled, made>>
Accept(r) ==
  /\ request[r] = "new" /\ Writes(r)
  /\ \E l \in Languages :
       /\ language' = [language EXCEPT ![r] = l]
       /\ Moves(r, IF l \in cache THEN "to predict" ELSE "to create")
  /\ UNCHANGED <<cache, threads, cancelled, made>>

(* _get_ocr: who comes late to the lock finds the recogniser made.                *)
MadeMeanwhileNot(r) == FALSE   (* mutant: the cache is not looked at again under the lock *)
MadeMeanwhile(r) == language[r] \in cache
Create(r) ==
  /\ request[r] = "to create" /\ ~CreateLocked
  /\ IF MadeMeanwhile(r) THEN Moves(r, "to predict") /\ UNCHANGED threads
     ELSE Moves(r, "creating") /\ Begins(r, "create")
  /\ UNCHANGED <<language, cache, files, cancelled, made>>
Created(r) ==
  /\ request[r] = "creating" /\ Moves(r, "to predict") /\ Ends(r, "create")
  /\ cache' = cache \cup {language[r]} /\ made' = [made EXCEPT ![language[r]] = @ + 1]
  /\ UNCHANGED <<language, files, cancelled>>
CreateFails(r) ==
  /\ request[r] = "creating" /\ Moves(r, "failed") /\ Ends(r, "create")
  /\ files' = files \ {r}
  /\ UNCHANGED <<language, cache, cancelled, made>>

Predict(r) ==
  /\ request[r] = "to predict" /\ ~PredictLocked
  /\ Moves(r, "predicting") /\ Begins(r, "predict")
  /\ UNCHANGED <<language, cache, files, cancelled, made>>
(* _extract_document_from_path: lines, or any of its errors as a status of 500.    *)
Predicted(r) ==
  /\ request[r] = "predicting" /\ \E state \in {"answered", "failed"} : Moves(r, state)
  /\ Ends(r, "predict") /\ files' = files \ {r}
  /\ UNCHANGED <<language, cache, cancelled, made>>

(* The server cancels a request: its locks are released and its file removed, the
   thread goes on and its result is dropped.                                       *)
Cancel(r) ==
  /\ request[r] \in {"to create", "creating", "to predict", "predicting"}
  /\ Moves(r, "cancelled") /\ cancelled' = cancelled \cup {r} /\ files' = files \ {r}
  /\ UNCHANGED <<language, cache, threads, made>>
Outlives == \E t \in threads :
  /\ t.by \in cancelled /\ threads' = threads \ {t}
  /\ UNCHANGED <<request, language, cache, files, cancelled, made>>
-----------------------------------------------------------------------------
OcrInit ==
  /\ request = [r \in Requests |-> "new"] /\ language = [r \in Requests |-> NoLanguage]
  /\ cache = {} /\ files = {} /\ threads = {} /\ cancelled = {} /\ made = [l \in Languages |-> 0]

OcrSteps(r) ==
  RefuseFile(r) \/ Accept(r) \/ Create(r) \/ Created(r) \/ CreateFails(r) \/ Predict(r) \/ Predicted(r)
OcrNext == Outlives \/ \E r \in Requests : OcrSteps(r) \/ Cancel(r)
OcrWork == Outlives \/ \E r \in Requests : OcrSteps(r)
OcrSpec == OcrInit /\ [][OcrNext]_ocrVars /\ WF_ocrVars(OcrWork)
-----------------------------------------------------------------------------
(* _get_ocr: of a language, one recogniser is made and kept, whoever failed before. *)
OneRecogniser == \A l \in Languages : made[l] <= 1 /\ (made[l] = 1 <=> l \in cache)

(* A thread of a request that still waits for it is alone with the recogniser, apart
   from those that a cancelled request left behind, and its file is on the disk.      *)
AloneWithItsFile ==
  \A t \in threads :
    t.by \notin cancelled =>
      /\ t.by \in files
      /\ \A u \in threads : u.work = t.work /\ u # t => u.by \in cancelled

(* No file outlives its request.                                                      *)
NoFileIsLeft == \A r \in Requests : request[r] \in {"answered", "failed", "cancelled", "refused"} => r \notin files

OcrInv == OneRecogniser /\ AloneWithItsFile /\ NoFileIsLeft

(* Every request is answered, fails, or was cancelled: no lock is kept by one that went. *)
RecognitionEnds == \A r \in Requests : <>(request[r] \in {"answered", "failed", "cancelled", "refused"})
=============================================================================
