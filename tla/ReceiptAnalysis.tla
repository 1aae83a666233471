--------------------------- MODULE ReceiptAnalysis ---------------------------
(***************************************************************************)
(* The analysis of one photograph of receipts                              *)
(* (app/features/receipt/service.py).                                      *)
(*                                                                         *)
(* The whole image is read once; what is missing or doubtful in a receipt  *)
(* is read again from the receipt's own region, all regions at once, and   *)
(* merged when the last of them has answered. Every call goes through the  *)
(* vision scheduler under the request's one deadline: it may find the      *)
(* queue full, end at the deadline, fail, or answer. When the vision gave  *)
(* no receipt at all the text is recognised instead.                       *)
(*                                                                         *)
(* A reading is a sequence of raw items (see ReceiptValidation); the       *)
(* images, the prompts and the trace are left out. The provider, the       *)
(* recognition and the clock are external.                                 *)
(***************************************************************************)
EXTENDS ReceiptValidation

CONSTANTS
  Modes,     \* the analysis modes
  Raws,      \* the raw items of an image: objects with the fields, or malformed
  Readings,  \* what a model may read in the whole image: sequences of raw items
  Rereads,   \* what it may read in a region: raw items
  Structured, \* what it may make of recognised lines: sequences of raw items
  MaxCrops,  \* settings.RECEIPT_VISION_RECOVERY_MAX_CROPS
  TinyBoxes  \* the boxes whose region is too small to be read

ReadingAssumption ==
  /\ MaxReceipts \in Nat \ {0} /\ MaxCrops \in Nat
  /\ None \notin {"DMY", "MDY"} /\ Readings \subseteq Seq(Raws)
  /\ \A raw \in Raws \cup Rereads : raw = Malformed \/ IsReading(raw)

VARIABLES
  mode,       \* of this analysis
  stage,      \* where analyze stands
  late,       \* the request's deadline has passed
  reading,    \* result: the items of the whole image
  items,      \* merged_items
  calls,      \* of the whole image (0) and of each region: how its call stands
  attempts,   \* how many calls of the provider were started
  recovered,  \* recovered_indexes
  response    \* of the analysis: its receipts, its engine and its fallbacks

analysisVars == <<mode, stage, late, reading, items, calls, attempts, recovered, response>>

(* How a call stands, and what it answered.                                   *)
Call(how, raw) == [is |-> how, raw |-> raw]
Is(call, states) == call.is \in states
Failures == {"queue full", "deadline", "failed"}
NoCalls == [i \in {} |-> None]
Responds(receipts, engine) ==
  response' = [response EXCEPT !.receipts = receipts, !.engine = engine]
-----------------------------------------------------------------------------
(* analyze: a file of the wrong kind, empty or too large is refused.          *)
Refuse ==
  /\ stage = "start" /\ stage' = "refused"
  /\ UNCHANGED <<mode, late, reading, items, calls, attempts, recovered, response>>
Start ==
  /\ stage = "start" /\ stage' = IF mode = "OCR_ONLY" THEN "ocr" ELSE "preview"
  /\ UNCHANGED <<mode, late, reading, items, calls, attempts, recovered, response>>

(* The vision failed: the answer says so, or the text is recognised.           *)
VisionFails ==
  /\ response' = [response EXCEPT !.fallback = TRUE,
                                  !.engine = IF mode = "VISION_ONLY" THEN "vision" ELSE None]
  /\ stage' = IF mode = "VISION_ONLY" THEN "done" ELSE "ocr"

(* _prepare_whole_image, and the call of the whole image                        *)
Preview ==
  /\ stage = "preview"
  /\ \/ VisionFails /\ UNCHANGED <<mode, late, reading, items, calls, attempts, recovered>>
     \/ /\ stage' = "whole" /\ calls' = [i \in {0} |-> Call("waiting", None)]
        /\ UNCHANGED <<mode, late, reading, items, attempts, recovered, response>>

(* _call_vision_provider: the attempt is on record from its start on.           *)
CallStarts(i) ==
  /\ Is(calls[i], {"waiting"}) /\ ~late
  /\ calls' = [calls EXCEPT ![i] = Call("running", None)] /\ attempts' = attempts + 1
  /\ UNCHANGED <<mode, stage, late, reading, items, recovered, response>>
CallFails(i) ==
  /\ \E how \in Failures :
       /\ how = "queue full" => Is(calls[i], {"waiting"}) /\ ~late
       /\ how = "deadline" => Is(calls[i], {"waiting", "running"}) /\ late
       /\ how = "failed" => Is(calls[i], {"running"})
       /\ calls' = [calls EXCEPT ![i] = Call(how, None)]
  /\ UNCHANGED <<mode, stage, late, reading, items, attempts, recovered, response>>
RegionAnswers(i) ==
  /\ stage = "crops" /\ Is(calls[i], {"running"})
  /\ \E raw \in Rereads \cup {Malformed} : calls' = [calls EXCEPT ![i] = Call("answered", raw)]
  /\ UNCHANGED <<mode, stage, late, reading, items, attempts, recovered, response>>

WholeAnswers ==
  /\ stage = "whole" /\ Is(calls[0], {"running"})
  /\ \E raws \in Readings : reading' = raws /\ items' = raws
  /\ calls' = NoCalls /\ stage' = "recover"
  /\ UNCHANGED <<mode, late, attempts, recovered, response>>
(* The call failed, or answered something that is no batch of receipts.          *)
WholeFails ==
  /\ stage = "whole" /\ ~Is(calls[0], {"waiting"}) /\ calls' = NoCalls /\ VisionFails
  /\ UNCHANGED <<mode, late, reading, items, attempts, recovered>>
-----------------------------------------------------------------------------
(* _recovery_plan: what the finances lack is asked of the fields as they were read, and of the printed date
   without its order.                                                                     *)
FinancialNeeded(raw) ==
  \/ raw.purchase_total = None /\ raw.original_amount = None
  \/ raw.detected_currency_code = None
  \/ raw.transaction_date = None /\ NormalizeDate(raw.source_date, None) = None
IdentityNeeded(raw) == raw.store # None /\ (raw.cut \/ ~raw.sound)
Planned(raw) == IsObject(raw) /\ (FinancialNeeded(raw) \/ IdentityNeeded(raw))

(* _prepare_recovery_regions: in order, as many regions as there may be.          *)
Croppable(raw) == Planned(raw) /\ raw.box # None /\ raw.box \notin TinyBoxes
Earlier(raws, i) == Cardinality({ j \in 1 .. i - 1 : Croppable(raws[j]) })
Regions(raws) == { i \in DOMAIN raws : Croppable(raws[i]) /\ Earlier(raws, i) < MaxCrops }
Warned(raw, warning) == [raw EXCEPT !.warnings = @ \cup {warning}]
Prepared(raws) ==
  [i \in DOMAIN raws |->
     IF ~Planned(raws[i]) THEN raws[i]
     ELSE IF Earlier(raws, i) >= MaxCrops THEN Warned(raws[i], "REGION_RECOVERY_SKIPPED_LIMIT")
     ELSE IF raws[i].box = None THEN Warned(raws[i], "SOURCE_REGION_MISSING_OR_INVALID")
     ELSE IF raws[i].box \in TinyBoxes THEN Warned(raws[i], "SOURCE_REGION_TOO_SMALL")
     ELSE raws[i]]
AllWarned(raws, warning) ==
  [i \in DOMAIN raws |-> IF Planned(raws[i]) THEN Warned(raws[i], warning) ELSE raws[i]]

(* _recover_incomplete_regions, before its calls                                   *)
Recover ==
  /\ stage = "recover"
  /\ \/ /\ reading = <<>> \/ MaxCrops = 0 \/ late
        /\ items' = (IF reading = <<>> \/ MaxCrops = 0 THEN items
                     ELSE AllWarned(items, "REGION_RECOVERY_SKIPPED_TIME_BUDGET"))
        /\ stage' = "validate" /\ UNCHANGED calls
     \/ /\ reading # <<>> /\ MaxCrops > 0 /\ stage' = "validate" /\ UNCHANGED calls
        /\ \E warning \in {"REGION_RECOVERY_SKIPPED_TIME_BUDGET", "REGION_RECOVERY_SOURCE_UNAVAILABLE"} :
             items' = AllWarned(items, warning)
     \/ /\ reading # <<>> /\ MaxCrops > 0 /\ ~late /\ stage' = "crops"
        /\ calls' = [i \in Regions(items) |-> Call("waiting", None)] /\ items' = Prepared(items)
  /\ UNCHANGED <<mode, late, reading, attempts, recovered, response>>
-----------------------------------------------------------------------------
(* _merge_missing_receipt_fields: an identity is only replaced by one that differs
   when the first was at odds with itself and the second is not; the finances are
   completed field by field, so that those of one date, or of one currency, may come
   from both readings.                                                            *)
ConflictsNever(raw, new) == FALSE   (* mutant: the region's identity always goes first *)
Conflicts(raw, new) ==
  new.store # None /\ new.store # raw.store /\ (raw.sound \/ ~new.sound)
CompletedLast(old, new) == IF new = None THEN old ELSE new (* mutant: the region's fact goes first *)
Completed(old, new) == IF old = None THEN new ELSE old
Completes(raw, new) ==
  \/ \E f \in FinancialFields : raw[f] = None /\ new[f] # None
  \/ raw.payments = <<>> /\ new.payments # <<>>
Financed(raw, new) ==
  [f \in Fields |->
     IF f \in FinancialFields THEN Completed(raw[f], new[f])
     ELSE IF f = "payments" /\ raw.payments = <<>> THEN new.payments
     ELSE raw[f]]
(* _mark_identity_conflict; the status is set by Reviewed as well.              *)
InConflict(raw) ==
  [Warned(raw, "IDENTITY_REGION_CONFLICT") EXCEPT !.verification = "SOURCE_REGION_CONFLICT",
                                                  !.status = "NEEDS_REVIEW"]
Identified(raw, new) ==
  IF Conflicts(raw, new)
  THEN InConflict(raw)
  ELSE [raw EXCEPT !.store = IF new.sound THEN new.store ELSE @,
                   !.verification = "SOURCE_REGION_MODEL_REREAD"]
Reviewed(raw) == [Warned(raw, "IDENTITY_SOURCE_REVIEW_REQUIRED") EXCEPT !.status = "NEEDS_REVIEW"]
Merged(raw, new) ==
  LET financed == IF FinancialNeeded(raw) THEN Financed(raw, new) ELSE raw
  IN  IF IdentityNeeded(raw) THEN Reviewed(Identified(financed, new)) ELSE financed

(* What a region's call that failed, or answered no single receipt, leaves.        *)
FailedQuietly(raw, warning) == raw   (* mutant: a failed region leaves no mark *)
Failed(raw, warning) == [Warned(raw, warning) EXCEPT !.status = "NEEDS_REVIEW"]
WarningOf(call) ==
  CASE Is(call, {"queue full"}) -> "REGION_RECOVERY_SKIPPED_QUEUE_LIMIT"
    [] Is(call, {"deadline"}) -> "REGION_RECOVERY_TIMEOUT"
    [] OTHER -> "REGION_RECOVERY_FAILED"
AfterRegion(raw, call) ==
  IF Is(call, Failures) THEN Failed(raw, WarningOf(call))
  ELSE IF ~IsObject(call.raw) THEN Failed(raw, "REGION_RECOVERY_INVALID_RESPONSE")
  ELSE Merged(raw, call.raw)

(* _annotate_identity_verification *)
Annotated(raw) ==
  IF ~IsObject(raw) \/ raw.verification # None THEN raw
  ELSE IF raw.sound THEN [raw EXCEPT !.verification = "MODEL_TEXT_SELF_CONSISTENT"]
  ELSE IF raw.store # None THEN [raw EXCEPT !.verification = "UNVERIFIED", !.status = "NEEDS_REVIEW"]
  ELSE raw

GatheredAnswers ==   (* mutant: a call that failed is waited for *)
  \A i \in DOMAIN calls : Is(calls[i], {"answered"})
Gathered == \A i \in DOMAIN calls : Is(calls[i], Failures \cup {"answered"})
Reread(i) == i \in DOMAIN calls /\ Is(calls[i], {"answered"}) /\ IsObject(calls[i].raw)
Merge ==
  /\ stage = "crops" /\ Gathered
  /\ items' = [i \in DOMAIN items |->
                 Annotated(IF i \in DOMAIN calls THEN AfterRegion(items[i], calls[i]) ELSE items[i])]
  /\ recovered' = { i \in DOMAIN calls :
       /\ Reread(i)
       /\ \/ IdentityNeeded(items[i])
          \/ FinancialNeeded(items[i]) /\ Completes(items[i], calls[i].raw) }
  /\ stage' = "validate"
  /\ UNCHANGED <<mode, late, reading, calls, attempts, response>>

(* analyze: the response, and the flag of a receipt that was read again, which is
   set by the receipt's place in the reading.                                    *)
Flagged(receipts) ==
  [k \in DOMAIN receipts |->
     IF k \in recovered
     THEN [receipts[k] EXCEPT !.flags = @ \cup {"REGION_RECOVERY_USED"}] ELSE receipts[k]]
Validate ==
  /\ stage = "validate"
  /\ \E receipts \in {ValidateResponse(items)} :
         IF receipts = <<>> /\ mode = "VISION_FIRST"
         THEN stage' = "ocr" /\ response' = [response EXCEPT !.fallback = TRUE]
         ELSE stage' = "done" /\ Responds(Flagged(receipts), "vision")
  /\ UNCHANGED <<mode, late, reading, items, calls, attempts, recovered>>
-----------------------------------------------------------------------------
(* _analyze_ocr: nothing was recognised, a model structures the lines, or the rules do. *)
Unconfirmed(receipts) ==
  [k \in DOMAIN receipts |->
     [receipts[k] EXCEPT !.amount = None, !.status = "NEEDS_REVIEW", !.review = "NEEDS_REVIEW"]]
OcrFails ==
  /\ stage = "ocr" /\ stage' = "done" /\ Responds(<<>>, "ocr")
  /\ UNCHANGED <<mode, late, reading, items, calls, attempts, recovered>>
OcrRefuses ==
  /\ stage = "ocr" /\ stage' = "refused"
  /\ UNCHANGED <<mode, late, reading, items, calls, attempts, recovered, response>>
OcrStructured ==
  /\ stage = "ocr" /\ mode # "OCR_ONLY" /\ stage' = "done" /\ attempts' = attempts + 1
  /\ \E raws \in Structured \ {<<>>}, placed \in BOOLEAN : \E receipts \in {ValidateResponse(raws)} :
       Responds(IF placed THEN receipts ELSE Unconfirmed(receipts), "ocr")
  /\ UNCHANGED <<mode, late, reading, items, calls, recovered>>
(* The rules' candidate has one line of total, or its amount is not taken; when a
   model was asked first, its call is spent.                                       *)
OcrRules ==
  /\ stage = "ocr" /\ stage' = "done"
  /\ attempts' = IF mode = "OCR_ONLY" THEN attempts ELSE attempts + 1
  /\ \E raw \in Rereads, single \in BOOLEAN : \E receipts \in {ValidateResponse(<<raw>>)} :
       Responds(IF single THEN <<[receipts[1] EXCEPT !.status = "NEEDS_REVIEW"]>>
                ELSE Unconfirmed(receipts), "ocr")
  /\ UNCHANGED <<mode, late, reading, items, calls, recovered>>

(* The clock *)
Expires ==
  /\ ~late /\ stage \notin {"start", "done", "refused"} /\ late' = TRUE
  /\ UNCHANGED <<mode, stage, reading, items, calls, attempts, recovered, response>>
-----------------------------------------------------------------------------
(* _resolve_analysis_mode: what is configured wrongly is one of them, too.      *)
ResolvedMode == mode \in Modes
AnalysisInit ==
  /\ ResolvedMode /\ stage = "start" /\ late = FALSE
  /\ reading = <<>> /\ items = <<>> /\ calls = NoCalls /\ attempts = 0 /\ recovered = {}
  /\ response = [receipts |-> <<>>, engine |-> None, fallback |-> FALSE]

CallsGoOn == \E i \in DOMAIN calls : CallStarts(i) \/ CallFails(i) \/ RegionAnswers(i)
AnalysisSteps ==
  \/ Refuse \/ Start \/ Preview \/ WholeAnswers \/ WholeFails \/ Recover \/ Merge \/ Validate
  \/ OcrFails \/ OcrRefuses \/ OcrStructured \/ OcrRules \/ CallsGoOn
AnalysisNext == AnalysisSteps \/ Expires
AnalysisSpec == AnalysisInit /\ [][AnalysisNext]_analysisVars /\ WF_analysisVars(AnalysisSteps)
-----------------------------------------------------------------------------
(* The values the analysis takes.                                                *)
AnalysisTypeOK ==
  /\ mode \in Modes /\ late \in BOOLEAN /\ attempts \in Nat
  /\ stage \in {"start", "preview", "whole", "recover", "crops", "validate", "ocr", "done", "refused"}
  /\ DOMAIN calls \subseteq {0} \cup DOMAIN items /\ recovered \subseteq DOMAIN reading

Answered == stage = "done" /\ response.engine = "vision" /\ response.receipts # <<>>
Receipt(k) == response.receipts[k]
FirstOf(k) == reading[Receipt(k).id]

(* The date of a reading that is printed and can be read as it is: without the place, and
   with an order only where the reading states one.                                       *)
PrintedDate(raw) == IF Text(raw.source_date) = None THEN None ELSE DateIn(raw, StatedOrder(raw))

(* _merge_missing_receipt_fields, validate_item: whatever the regions answered, the answer has
   no other currency than the first reading's, nor another date than the one it saw printed,
   nor another total than the one it read, as its currency writes it; at most they are no
   longer sure, and the receipt not ready. Another store than the first is never taken without
   a human.                                                                                  *)
FirstReadingStands ==
  Answered => \A k \in DOMAIN response.receipts :
    IsObject(FirstOf(k)) =>
      /\ CurrencyOf(FirstOf(k)) # None => Receipt(k).currency \in {CurrencyOf(FirstOf(k)), None}
      /\ PrintedDate(FirstOf(k)) # None => Receipt(k).date \in {PrintedDate(FirstOf(k)), None}
      /\ FirstOf(k).purchase_total # None =>
           Receipt(k).total = NormalizeAmount(FirstOf(k).purchase_total, Receipt(k).currency)
      /\ FirstOf(k).store # Receipt(k).store => Receipt(k).status # "READY" /\ ~FirstOf(k).sound

(* _recover_incomplete_regions: a receipt whose region was wanted is only READY when that
   region has answered with a receipt, its identity was not in doubt, and the region has
   completed it or the first reading was enough by itself (a date that the plan could not
   read without its order); one that was not wanted is as it was without the others.      *)
OnlyWhatIsSureIsReady ==
  Answered /\ MaxCrops > 0 => \A k \in DOMAIN response.receipts :
    LET i == Receipt(k).id
        alone == ValidateItem(reading[i], i)
    IN  /\ Receipt(k).status = "READY" /\ Planned(reading[i]) =>
             /\ Reread(i) /\ ~IdentityNeeded(reading[i])
             /\ i \in recovered \/ (alone.status = "READY" /\ Facts(Receipt(k)) = Facts(alone))
        /\ ~Planned(reading[i]) => Facts(Receipt(k)) = Facts(alone)

(* analyze: a receipt that was read is in the answer, whatever failed after it was; and
   there is one call for the image, one for each region, and one for the lines.          *)
NothingReadIsLost ==
  /\ stage \in {"ocr", "done"} /\ reading # <<>> => response.engine = "vision" /\ response.receipts # <<>>
  /\ attempts <= MaxCrops + 2

AnalysisInv ==
  /\ AnalysisTypeOK /\ FirstReadingStands /\ OnlyWhatIsSureIsReady /\ NothingReadIsLost
  /\ stage = "done" /\ response.engine = "vision" => ReadyIsWhole(items, response.receipts)

(* Under one deadline, whatever the calls do, the analysis ends.                          *)
ResponseComes == <>(stage \in {"done", "refused"})

(* A receipt that was read again is flagged so, and no other.                             *)
RecoveredIsFlagged ==
  Answered => \A k \in DOMAIN response.receipts :
    "REGION_RECOVERY_USED" \in Receipt(k).flags <=> Receipt(k).id \in recovered
=============================================================================
