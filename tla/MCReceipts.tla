------------------------------ MODULE MCReceipts ------------------------------
(***************************************************************************)
(* Four checks of the analysis of receipts, in one instance:              *)
(*   analysis  every reading of up to three of twelve items, safety only;  *)
(*   ends      the readings of one item, under fairness;                   *)
(*   bill      what is booked for a receipt of up to three payments;       *)
(*   ocr       the recognition of text, for three requests.                *)
(***************************************************************************)
EXTENDS OcrService, ReceiptAnalysis

VARIABLES part, bill
mcVars == <<part, bill, analysisVars, ocrVars>>

ASSUME ReadingAssumption

MCModes == {"VISION_FIRST", "VISION_ONLY", "OCR_ONLY"}
MCCurrencies == {"JPY", "TRY"}
Amount(n) == [c \in MCCurrencies \cup {None} |-> n]
(* A grouped amount is one only where there are no minor units.                *)
Grouped(n) == [c \in MCCurrencies \cup {None} |-> IF c = "JPY" THEN n ELSE None]
Numeric(first, second) == [form |-> "numeric", embedded |-> FALSE, first |-> first, second |-> second]
YearFirst(month, day) == [Numeric(month, day) EXCEPT !.form = "year first"]
Card == [type |-> "card", amount |-> Amount(2), group |-> None, contradicted |-> FALSE]
Nothing == [f \in FinancialFields |-> None]
Good ==
  [store |-> "s", sound |-> TRUE, cut |-> FALSE, box |-> "p", doubted |-> FALSE, payments |-> <<Card>>,
   status |-> "READY", verification |-> None, warnings |-> {}]
  @@ [Nothing EXCEPT !.purchase_total = Amount(2), !.detected_currency_code = "JPY",
                     !.transaction_date = YearFirst(6, 11)]
Turk == [Good EXCEPT !.detected_currency_code = "TRY", !.detected_language = "tr", !.transaction_date = None,
                     !.source_date = Numeric(6, 11)]
MCItems ==
  { Good, [Good EXCEPT !.box = None], [Good EXCEPT !.box = "q", !.cut = TRUE],
    [Good EXCEPT !.box = "q", !.transaction_date = None, !.source_date = Numeric(6, 11),
                 !.date_order = "DMY", !.date_order_evidence = "given"],
    Turk, [Turk EXCEPT !.box = None, !.source_date = Numeric(7, 13)],
    [Turk EXCEPT !.purchase_total = None, !.source_date = [Numeric(7, 13) EXCEPT !.embedded = TRUE]],
    [Good EXCEPT !.purchase_total = None, !.payments = <<>>],
    [Good EXCEPT !.box = "q", !.transaction_date = None, !.source_date = Numeric(6, 11)],
    [Good EXCEPT !.sound = FALSE, !.purchase_total = Grouped(2), !.detected_currency_code = None],
    [Good EXCEPT !.box = "tiny", !.purchase_total = None, !.original_amount = Amount(2),
                 !.transaction_date = None, !.source_date = Numeric(6, 6)], Malformed }
MCReadings == UNION { [1 .. n -> MCItems] : n \in 0 .. 3 }
MCRereads ==
  { [Good EXCEPT !.box = None],
    [Good EXCEPT !.box = None, !.store = "t", !.purchase_total = Grouped(1), !.source_date = YearFirst(7, 12),
                 !.date_order = "MDY", !.date_order_evidence = "given"],
    [Good EXCEPT !.box = None, !.store = "t", !.sound = FALSE, !.purchase_total = None, !.payments = <<>>,
                 !.currency_evidence = "symbol", !.transaction_time = "malformed", !.source_date = Blank],
    [Good EXCEPT !.box = None, !.store = None, !.sound = FALSE, !.currency_confidence = "low"],
    [Good EXCEPT !.box = None, !.store = None, !.sound = FALSE, !.purchase_total = None, !.payments = <<>>,
                 !.detected_currency_code = None, !.transaction_date = None] }
MCStructured == { <<Good>>, <<[Good EXCEPT !.box = None], Malformed>>, <<>> }
-----------------------------------------------------------------------------
Idle == [total |-> None, payments |-> <<>>, tendered |-> None, change |-> None]
Bills == [total : 1 .. 4, payments : {<<>>}, tendered : {None, 1, 2, 3}, change : {None, 0, 1}]
Lines ==
  [type : {"card", "points", "cash", "unknown"}, amount : 1 .. 2, group : {None, "g"}, contradicted : {FALSE}]
AnotherLine ==
  /\ Len(bill.payments) < 3
  /\ \E line \in Lines : bill' = [bill EXCEPT !.payments = Append(@, line)]

Init ==
  \/ part \in {"analysis", "ends"} /\ AnalysisInit /\ bill = Idle /\ OcrInit
  \/ part = "bill" /\ bill \in Bills /\ AnalysisInit /\ mode = "OCR_ONLY" /\ OcrInit
  \/ part = "ocr" /\ bill = Idle /\ AnalysisInit /\ mode = "OCR_ONLY" /\ OcrInit

Analysis ==
  /\ part \in {"analysis", "ends"} /\ AnalysisSteps /\ (part = "ends" => Len(reading') <= 1)
  /\ UNCHANGED <<part, bill, ocrVars>>
DeadlinePasses ==
  part \in {"analysis", "ends"} /\ Expires /\ UNCHANGED <<part, bill, ocrVars>>
Bill == part = "bill" /\ AnotherLine /\ UNCHANGED <<part, analysisVars, ocrVars>>
Ocr == part = "ocr" /\ OcrWork /\ UNCHANGED <<part, bill, analysisVars>>
OcrCancelled == part = "ocr" /\ (\E r \in Requests : Cancel(r)) /\ UNCHANGED <<part, bill, analysisVars>>
Next == Analysis \/ DeadlinePasses \/ Bill \/ Ocr \/ OcrCancelled
Spec == Init /\ [][Next]_mcVars /\ WF_mcVars((part = "ends" /\ Analysis) \/ Ocr)
-----------------------------------------------------------------------------
(* Every analysis ends, whichever of its calls answer, and every recognition of text,
   whichever threads outlive their requests.                                            *)
AnalysisEnds == (part = "ends" => ResponseComes) /\ (part = "ocr" => RecognitionEnds)

(* Whatever lines of payment repeat each other, the amount that is booked and the points
   make the printed total, in any order of the lines (ReceiptValidation).                *)
BookedOnce ==
  part = "bill" =>
    /\ BooksWhatWasPaid(bill.total, bill.payments, bill.tendered, bill.change)
    /\ LinesAreASet(bill.total, bill.payments, bill.tendered, bill.change)
=============================================================================
