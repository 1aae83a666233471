-------------------------- MODULE ReceiptValidation --------------------------
(***************************************************************************)
(* What is believed of a model's reading of a receipt                      *)
(* (app/features/receipt/validation.py).                                   *)
(*                                                                         *)
(* A raw reading is a record of the fields the status turns on, with the   *)
(* names they have in the code. A field that is missing is None, one that  *)
(* is there but says nothing (an empty text, or no text at all) is Blank.  *)
(*   - An amount is what its text means in each currency, and without one  *)
(*     (the separators of a text group or divide by the currency): a       *)
(*     natural number, or None when the text is no amount there.           *)
(*   - A date is two numbers and the form they are written in; the year is *)
(*     left out, and every month has 31 days.                              *)
(*   - The evidence of a currency is a bare symbol or more than that, its  *)
(*     confidence high or low, a time well formed or not.                  *)
(* What no region can change and the validation doubts as well (the        *)
(* confidence under 0.95, a category out of form) is one field, doubted.   *)
(* The warnings are those that are kept from the recovery, and the flags   *)
(* of a response.                                                          *)
(***************************************************************************)
EXTENDS Integers, Sequences, FiniteSets, SequencesExt

CONSTANTS
  MaxReceipts,  \* the most receipts of one response (30)
  MaxPayments,  \* the most payments of one receipt (30)
  Currencies,   \* the codes of the catalogue
  None,
  Blank

Malformed == [malformed |-> TRUE]
IsObject(raw) == "malformed" \notin DOMAIN raw

(* The facts of the finances that a region can complete, and all that is read of a
   receipt. A text of the identity that agrees with itself names a store.          *)
FinancialFields ==
  {"purchase_total", "original_amount", "cash_tendered", "change",
   "detected_currency_code", "currency_evidence", "currency_confidence",
   "transaction_date", "transaction_time", "source_date", "source_time",
   "date_order", "date_order_evidence", "memo", "detected_language"}
Fields ==
  FinancialFields \cup
  {"store", "sound", "cut", "box", "payments", "doubted", "status", "verification", "warnings"}
Amounts == {None} \cup [Currencies \cup {None} -> {None} \cup Nat]
IsReading(raw) ==
  /\ DOMAIN raw = Fields
  /\ {raw.sound, raw.cut, raw.doubted} \subseteq BOOLEAN /\ (raw.sound => raw.store # None)
  /\ {raw.purchase_total, raw.original_amount, raw.cash_tendered, raw.change} \subseteq Amounts

(* _text *)
Text(value) == IF value = Blank THEN None ELSE value
-----------------------------------------------------------------------------
(* normalize_amount: nothing is no amount of money. _non_negative_amount: but it may be
   the change.                                                                         *)
NonNegative(text, currency) == IF text = None THEN None ELSE text[currency]
NormalizeAmount(text, currency) ==
  IF NonNegative(text, currency) = 0 THEN None ELSE NonNegative(text, currency)

(* validate_item: a bare symbol is the currency of several countries, and a code the model
   is not sure of is none.                                                                *)
NormalizeCurrency(code) == IF code \in Currencies THEN code ELSE None
CurrencyOf(raw) ==
  IF raw.currency_evidence = "symbol" \/ raw.currency_confidence = "low" THEN None
  ELSE NormalizeCurrency(raw.detected_currency_code)

(* validate_item: the total that is printed goes before an amount of the older name. *)
Total(raw) ==
  NormalizeAmount(IF raw.purchase_total # None THEN raw.purchase_total ELSE raw.original_amount,
                  CurrencyOf(raw))
-----------------------------------------------------------------------------
(* normalize_date, of numbers: which of the two is the month, when the year stands last,
   says the order, or a number over 12. A date of an era has the year first.            *)
Valid(month, day) == IF month \in 1 .. 12 /\ day \in 1 .. 31 THEN <<month, day>> ELSE None
ReadDate(text, order) ==
  IF text.form = "year first" THEN Valid(text.first, text.second)
  ELSE IF text.form # "numeric" THEN None
  ELSE IF order = "DMY" \/ text.first > 12 THEN Valid(text.second, text.first)
  ELSE IF order = "MDY" \/ text.second > 12 \/ text.first = text.second THEN Valid(text.first, text.second)
  ELSE None
NormalizeDate(text, order) ==
  IF Text(text) = None \/ text.embedded THEN None ELSE ReadDate(text, order)

(* validate_item: an order counts with its evidence; without one, a Turkish receipt has the
   day first.                                                                              *)
StatedOrder(raw) == IF Text(raw.date_order_evidence) = None THEN None ELSE Text(raw.date_order)
Turkish(raw) ==
  /\ Text(raw.source_date) # None /\ raw.source_date.form = "numeric" /\ ~raw.source_date.embedded
  /\ CurrencyOf(raw) = "TRY" /\ Text(raw.detected_language) = "tr"
OrderOf(raw) == IF StatedOrder(raw) = None /\ Turkish(raw) THEN "DMY" ELSE StatedOrder(raw)

(* validate_item: the date as it is printed goes before the model's, which counts only when
   nothing is printed or the month has a name there.                                       *)
DateIn(raw, order) ==
  IF Text(raw.source_date) = None THEN NormalizeDate(raw.transaction_date, order)
  ELSE IF raw.source_date.form = "named" THEN NormalizeDate(raw.transaction_date, None)
  ELSE ReadDate(raw.source_date, order)
DateOf(raw) == DateIn(raw, OrderOf(raw))

(* validate_item: a printed time of a.m. or p.m. is taken whatever the model made of it. *)
TimeDoubted(raw) ==
  /\ raw.source_time # "meridiem"
  /\ \/ Text(raw.transaction_time) = "malformed"
     \/ Text(raw.transaction_time) = None /\ Text(raw.source_time) # None
-----------------------------------------------------------------------------
(* _payment_items: a line without a type or an amount is left out, one whose
   evidence contradicts its type is kept as unknown; both make the item doubtful. *)
PaymentItem(line, currency) ==
  [line EXCEPT !.amount = NormalizeAmount(@, currency),
               !.type = IF line.contradicted /\ @ # None THEN "unknown" ELSE @]
Stands(line) == line.type # None /\ line.amount # None
Firsts(lines) == SubSeq(lines, 1, IF Len(lines) < MaxPayments THEN Len(lines) ELSE MaxPayments)
PaymentItems(lines, currency) ==
  SelectSeq([i \in DOMAIN Firsts(lines) |-> PaymentItem(lines[i], currency)], Stands)
PaymentsDoubted(lines, currency) ==
  \/ Len(lines) > MaxPayments
  \/ \E i \in DOMAIN Firsts(lines) : ~Stands(PaymentItem(lines[i], currency)) \/ lines[i].contradicted
-----------------------------------------------------------------------------
(* _book_amount *)
Review == [amount |-> None, review |-> "NEEDS_REVIEW"]
Booked(amount) == [amount |-> amount, review |-> "READY"]
Excluded == [amount |-> 0, review |-> "EXCLUDED"]

SumOf(payments, S) ==
  LET upTo[i \in 0 .. Len(payments)] ==
        IF i = 0 THEN 0 ELSE upTo[i - 1] + (IF i \in S THEN payments[i].amount ELSE 0)
  IN  upTo[Len(payments)]
SameGroup(payments, i, j) == payments[i].group # None /\ payments[i].group = payments[j].group
GroupConflict(payments) ==
  \E i, j \in DOMAIN payments :
    /\ SameGroup(payments, i, j)
    /\ payments[i].type # payments[j].type \/ payments[i].amount # payments[j].amount
CollapsedNot(payments) == DOMAIN payments   (* mutant: a repeated line counts again *)
(* The lines that count: the first of each group, and those of none.              *)
Collapsed(payments) ==
  { i \in DOMAIN payments : ~\E j \in 1 .. i - 1 : SameGroup(payments, i, j) }
OfType(payments, types) == { i \in Collapsed(payments) : payments[i].type \in types }
Points(payments) == SumOf(payments, OfType(payments, {"points"}))
CashLines(payments) == OfType(payments, {"cash"})
NonCash(payments) == Collapsed(payments) \ OfType(payments, {"points", "cash"})

(* What was paid in cash; None when what the customer gave and got back does not fit. *)
CashPaid(total, payments, tendered, change) ==
  LET lines == CashLines(payments)
      cash == SumOf(payments, lines)
      all == Points(payments) + SumOf(payments, NonCash(payments)) + cash
  IN  IF tendered = None
      THEN IF lines = {} /\ change \notin {None, 0} THEN None ELSE cash
      ELSE IF change = None
           THEN IF lines # {} /\ cash = tendered /\ all = total THEN cash ELSE None
           ELSE IF tendered < change \/ (lines # {} /\ cash \notin {tendered, tendered - change})
                THEN None ELSE tendered - change

(* The same payment printed twice without a group counts once, if that is what makes
   the total; and a line that repeats the total is what was paid of it without points. *)
Deduplicated(payments) ==
  LET loose == { i \in NonCash(payments) : payments[i].group = None }
      once == { i \in loose : ~\E j \in loose :
                  j < i /\ payments[j].type = payments[i].type /\ payments[j].amount = payments[i].amount }
  IN  [present |-> once # loose, paid |-> SumOf(payments, (NonCash(payments) \ loose) \cup once)]
SettledGross(total, payments, cash) ==   (* mutant: the gross line is what was paid *)
  IF CashLines(payments) = {} /\ SumOf(payments, NonCash(payments)) = total THEN total
  ELSE IF Points(payments) + SumOf(payments, NonCash(payments)) + cash = total
       THEN SumOf(payments, NonCash(payments)) + cash ELSE None
Settled(total, payments, cash) ==
  LET points == Points(payments)
      others == SumOf(payments, NonCash(payments))
      once == Deduplicated(payments)
  IN  IF points + others + cash = total THEN others + cash
      ELSE IF once.present /\ points + cash + once.paid = total THEN cash + once.paid
      ELSE IF points > 0 /\ points < total /\ cash = 0 /\ others = total THEN total - points
      ELSE None
Outcome(total, paid, points) ==
  IF paid = None THEN Review
  ELSE IF paid = 0 /\ points = total THEN Excluded
  ELSE IF paid <= 0 THEN Review ELSE Booked(paid)
BookAmount(total, payments, tendered, change) ==
  LET cash == CashPaid(total, payments, tendered, change)
  IN  IF total = None THEN Review
      ELSE IF payments = <<>> THEN Booked(total)
      ELSE IF GroupConflict(payments) \/ OfType(payments, {"unknown"}) # {} \/ cash = None THEN Review
      ELSE Outcome(total, Settled(total, payments, cash), Points(payments))
-----------------------------------------------------------------------------
(* validate_item. Of the service's warnings, all but one are kept.                      *)
KeptWarnings(raw) == raw.warnings \ {"REGION_RECOVERY_INVALID_RESPONSE"}
Booking(raw) ==
  LET currency == CurrencyOf(raw)
  IN  BookAmount(Total(raw), PaymentItems(raw.payments, currency),
                 NormalizeAmount(raw.cash_tendered, currency), NonNegative(raw.change, currency))
Unreadable(raw) ==
  raw.status = "UNREADABLE" \/ (raw.store = None /\ Total(raw) = None /\ DateOf(raw) = None)
Understood(raw) ==
  /\ ~raw.doubted /\ ~TimeDoubted(raw) /\ ~PaymentsDoubted(raw.payments, CurrencyOf(raw))
  /\ CurrencyOf(raw) # None /\ Total(raw) # None /\ DateOf(raw) # None /\ raw.store # None
MayBeReadyWarned(raw) ==   (* mutant: the warnings of a recovery are dropped *)
  Understood(raw) /\ Booking(raw).review = "READY" /\ raw.status # "NEEDS_REVIEW"
MayBeReady(raw) ==
  /\ Understood(raw) /\ KeptWarnings(raw) = {}
  /\ Booking(raw).review = "READY" /\ raw.status # "NEEDS_REVIEW"
StatusOf(raw) ==
  IF Unreadable(raw) THEN "UNREADABLE" ELSE IF MayBeReady(raw) THEN "READY" ELSE "NEEDS_REVIEW"
ItemOf(raw, id) ==
  [id |-> id, store |-> raw.store, currency |-> CurrencyOf(raw), date |-> DateOf(raw), total |-> Total(raw),
   amount |-> IF Unreadable(raw) THEN None ELSE Booking(raw).amount,
   review |-> IF Unreadable(raw) THEN "NEEDS_REVIEW" ELSE Booking(raw).review,
   verification |-> raw.verification, status |-> StatusOf(raw), flags |-> KeptWarnings(raw)]
ValidateItem(raw, id) ==
  IF IsObject(raw) THEN ItemOf(raw, id)
  ELSE [id |-> id, store |-> None, currency |-> None, date |-> None, total |-> None, amount |-> None,
        review |-> "NEEDS_REVIEW", verification |-> None, status |-> "UNREADABLE", flags |-> {}]
-----------------------------------------------------------------------------
(* validate_response: the same receipt read twice at one place is kept once; of two
   alike without a place, both are kept, and both are for a human to look at.      *)
Facts(item) == <<item.store, item.amount, item.currency, item.date>>
Place(raw) == IF IsObject(raw) THEN raw.box ELSE None
Repeats(raws, items, i) ==
  Place(raws[i]) # None /\ \E j \in 1 .. i - 1 :
    Place(raws[j]) = Place(raws[i]) /\ Facts(items[j]) = Facts(items[i])
ResemblesEarlier(raws, items, i) ==   (* mutant: only the later of the two is flagged *)
  /\ Place(raws[i]) = None /\ items[i].amount # None
  /\ \E j \in 1 .. i - 1 : Place(raws[j]) = None /\ Facts(items[j]) = Facts(items[i])
Resembles(raws, items, i) ==
  /\ Place(raws[i]) = None /\ items[i].amount # None
  /\ \E j \in DOMAIN items \ {i} : Place(raws[j]) = None /\ Facts(items[j]) = Facts(items[i])
Doubtful(item) ==
  [item EXCEPT !.status = "NEEDS_REVIEW", !.flags = @ \cup {"POSSIBLE_DUPLICATE_RECEIPT"}]
Doubted(raws, items, i) == IF Resembles(raws, items, i) THEN Doubtful(items[i]) ELSE items[i]
(* The k-th of the numbers in S.                                                   *)
Rank(S, i) == Cardinality({ j \in S : j <= i })
Nth(S, k) == CHOOSE i \in S : Rank(S, i) = k
Once(raws, items) == { i \in DOMAIN items : ~Repeats(raws, items, i) }
Unrepeated(raws, items) ==
  [k \in 1 .. Cardinality(Once(raws, items)) |-> Doubted(raws, items, Nth(Once(raws, items), k))]
MostOf(raws) == SubSeq(raws, 1, IF Len(raws) < MaxReceipts THEN Len(raws) ELSE MaxReceipts)
ValidateResponse(raws) == Unrepeated(raws, [i \in DOMAIN MostOf(raws) |-> ValidateItem(raws[i], i)])
-----------------------------------------------------------------------------
(* _book_amount: whatever lines repeat each other, what is booked and the points that
   were redeemed make the printed total, and an excluded receipt is one of points.   *)
BooksWhatWasPaid(total, payments, tendered, change) ==
  LET booked == BookAmount(total, payments, tendered, change)
  IN  /\ booked.review = "READY" /\ payments # <<>> =>
           booked.amount > 0 /\ booked.amount + Points(payments) = total
      /\ booked.review = "EXCLUDED" => Points(payments) = total

(* _book_amount: the order of the lines does not matter, nor does a line of a group
   that is printed once more.                                                        *)
LinesAreASet(total, payments, tendered, change) ==
  LET booked == BookAmount(total, payments, tendered, change)
  IN  /\ BookAmount(total, Reverse(payments), tendered, change) = booked
      /\ \A i \in DOMAIN payments :
           payments[i].group # None =>
             BookAmount(total, Append(payments, payments[i]), tendered, change) = booked
      /\ payments # <<>> =>
           BookAmount(total, Append(Tail(payments), Head(payments)), tendered, change) = booked

(* validate_item, validate_response: a receipt that is booked without a human looking
   at it is whole, and none other of the response could be the same.                 *)
ReadyIsWhole(raws, receipts) ==
  \A k \in DOMAIN receipts :
    receipts[k].status = "READY" =>
      /\ receipts[k].amount \notin {None, 0} /\ receipts[k].review = "READY"
      /\ receipts[k].currency # None /\ receipts[k].date # None /\ receipts[k].store # None
      /\ \A l \in DOMAIN receipts \ {k} :
           Facts(receipts[l]) = Facts(receipts[k]) =>
             Place(raws[receipts[k].id]) # Place(raws[receipts[l].id])
=============================================================================
