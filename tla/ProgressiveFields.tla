--------------------------- MODULE ProgressiveFields ---------------------------
(***************************************************************************)
(* One profile execution at the provider: fields shown to the client as     *)
(* soon as they are closed, while the text of one JSON object still          *)
(* arrives in pieces (app/ai/providers/openai/progressive_fields.py), and     *)
(* the whole of it checked again at the end (profile_execution.py,             *)
(* response.py). The text is a sequence of units: punctuation, "x" for any      *)
(* other value, and a string as two units, "q" for its opening quote and the     *)
(* text that closes it. White space is left out, the parser skips it before        *)
(* every unit. The provider is external.                                             *)
(***************************************************************************)
EXTENDS Integers, Sequences, SequencesExt

CONSTANTS
  Expected,   \* the keys of the schema, in order
  Documents,  \* the texts the provider may write
  MaxUnits,   \* the longest text that is read (max_chars)
  None

Blank == "blank"

VARIABLES
  doc,        \* what the provider writes
  buffer,     \* what has arrived of it
  parser,     \* ProgressiveFields
  out,        \* events of this piece that are still to be passed on
  events,     \* events passed on
  completed,  \* response.completed
  stage       \* streaming, finished, or why it failed

vars == <<doc, buffer, parser, out, events, completed, stage>>
Keys == { Expected[i] : i \in DOMAIN Expected }
Field(k, v) == [type |-> "field", key |-> k, value |-> v]
FieldError(k, code) == [type |-> "field-error", key |-> k, value |-> code]
-----------------------------------------------------------------------------
(* The parser. A step that has to wait for more leaves it as it is.         *)
Opening == [state |-> "open", at |-> 1, index |-> 1, key |-> None, value |-> None,
            values |-> {}, fields |-> <<>>, failures |-> <<>>, error |-> None]
Raised(p, error) == [p EXCEPT !.error = error]
Waits(b, p) == p.at > Len(b)

Take(b, p, unit, next) ==
  IF Waits(b, p) THEN p
  ELSE IF b[p.at] # unit THEN Raised(p, "PROGRESSIVE_JSON_INVALID")
  ELSE [p EXCEPT !.at = @ + 1, !.state = next]

(* _string: the text of a string that is closed, or what the parser does without one.        *)
NoString(b, p) == Waits(b, p) \/ b[p.at] # "q" \/ p.at = Len(b)
WithoutString(b, p) ==
  IF Waits(b, p) \/ b[p.at] = "q" THEN p ELSE Raised(p, "PROGRESSIVE_STRING_REQUIRED")

(* _missing_until. The mutant only moves on.                                                  *)
SkipUntil(p, index) == [p EXCEPT !.index = index]
MissingUntil(p, index) ==
  [p EXCEPT !.index = index,
            !.failures = @ \o [i \in 1 .. index - p.index |->
                                 FieldError(Expected[p.index + i - 1], "PROGRESSIVE_KEY_MISSING")]]
ToTheEnd(p) == [MissingUntil(p, Len(Expected) + 1) EXCEPT !.state = "done"]

(* A key is the next one, or a later one: those between are missing. The mutant takes any.    *)
PlacesOfAny(p, key) == { i \in DOMAIN Expected : Expected[i] = key }
Places(p, key) == { i \in p.index .. Len(Expected) : Expected[i] = key }
Key(b, p) ==
  IF ~Waits(b, p) /\ b[p.at] = "}" THEN ToTheEnd([p EXCEPT !.at = @ + 1])
  ELSE IF NoString(b, p) THEN WithoutString(b, p)
  ELSE LET key == b[p.at + 1] IN
    IF Places(p, key) = {} THEN Raised(p, "PROGRESSIVE_KEY_ORDER_INVALID")
    ELSE [MissingUntil(p, CHOOSE i \in Places(p, key) : TRUE)
            EXCEPT !.at = @ + 2, !.state = "colon", !.key = key]
Value(b, p) ==
  IF NoString(b, p) THEN WithoutString(b, p)
  ELSE [p EXCEPT !.at = @ + 2, !.value = b[p.at + 1], !.state = "delimiter"]

(* A field is shown once what follows it shows that it is closed.                             *)
Closed(p) ==
  [p EXCEPT !.values = @ \cup {<<p.key, p.value>>}, !.index = @ + 1, !.at = @ + 1,
            !.fields = IF p.value = Blank THEN @ ELSE Append(@, Field(p.key, p.value)),
            !.failures = IF p.value = Blank THEN Append(@, FieldError(p.key, "PROGRESSIVE_VALUE_BLANK"))
                                            ELSE @]
Delimiter(b, p) ==
  IF Waits(b, p) THEN p
  ELSE IF b[p.at] = "}" THEN ToTheEnd(Closed(p))
  ELSE IF b[p.at] = "," /\ p.index < Len(Expected) THEN [Closed(p) EXCEPT !.state = "key"]
  ELSE Raised(p, "PROGRESSIVE_DELIMITER_INVALID")
Done(b, p) == IF Waits(b, p) THEN p ELSE Raised(p, "PROGRESSIVE_TRAILING_DATA")

Step(b, p) ==
  CASE p.state = "open"      -> Take(b, p, "{", "key")
    [] p.state = "key"       -> Key(b, p)
    [] p.state = "colon"     -> Take(b, p, ":", "value")
    [] p.state = "value"     -> Value(b, p)
    [] p.state = "delimiter" -> Delimiter(b, p)
    [] p.state = "done"      -> Done(b, p)

RECURSIVE Parsed(_, _)
Parsed(b, p) ==
  LET q == Step(b, p) IN IF q = p \/ q.error # None THEN q ELSE Parsed(b, q)

(* feed: the fields and failures of earlier pieces have been drained.                          *)
Drained(p) == [p EXCEPT !.fields = <<>>, !.failures = <<>>]
Fed(b, p) ==
  IF Len(b) > MaxUnits THEN Raised(Drained(p), "PROGRESSIVE_BODY_TOO_LARGE")
  ELSE Parsed(b, Drained(p))

(* stream: what was closed before an error in the same piece is salvaged. The mutant shows
   the error alone.                                                                            *)
ShownUnlessFailed(p) == IF p.error = None THEN p.fields \o p.failures ELSE <<>>
Shown(p) == p.fields \o p.failures
-----------------------------------------------------------------------------
(* decode_response and decode_profile_response: the members of the object the final text is.  *)
RECURSIVE Members(_)
Members(text) ==
  LET width == IF Len(text) > 4 /\ text[4] = "q" THEN 5 ELSE 4
      member == <<text[2], text[width]>>
      rest == SubSeq(text, width + 2, Len(text))
  IN IF ~(Len(text) > width /\ text[1] = "q" /\ text[3] = ":" /\ text[4] \in {"q", "x"}) THEN {}
     ELSE IF text[width + 1] = "}" /\ rest = <<>> THEN { <<member>> }
     ELSE IF text[width + 1] = "," THEN { <<member>> \o more : more \in Members(rest) }
     ELSE {}
Objects(text) ==
  IF text = <<"{", "}">> THEN { <<>> }
  ELSE IF text # <<>> /\ text[1] = "{" THEN Members(Tail(text)) ELSE {}
Unique(members) == \A i, j \in DOMAIN members : members[i][1] = members[j][1] => i = j

Decoded(r) ==
  LET objects == Objects(r.text) IN
  CASE r.status # "completed" ->
         [code |-> CASE r.reason = "max_output_tokens" -> "OUTPUT_TOKEN_LIMIT"
                     [] r.reason = "content_filter" -> "REFUSAL"
                     [] OTHER -> "RESPONSE_INCOMPLETE", output |-> {}]
    [] r.status = "completed" /\ r.refused  -> [code |-> "REFUSAL", output |-> {}]
    [] r.status = "completed" /\ ~r.refused /\ r.text = <<>> -> [code |-> "EMPTY_OUTPUT", output |-> {}]
    [] r.status = "completed" /\ ~r.refused /\ r.text # <<>> ->
         IF objects = {} THEN [code |-> "JSON_INVALID", output |-> {}]
         ELSE LET members == CHOOSE m \in objects : TRUE
              IN [code |-> IF Unique(members) THEN None ELSE "DUPLICATE_JSON_KEY",
                  output |-> ToSet(members)]

(* complete: the object ended where the text did and is the one that was shown. The mutant
   only looks whether the parser came to the end.                                              *)
AgreesAtTheEnd(p, output) == p.state = "done"
Agrees(p, output) == p.state = "done" /\ Waits(buffer, p) /\ output = p.values
-----------------------------------------------------------------------------
Reading == stage = "streaming" /\ out = <<>> /\ parser.error = None

Delta(n) ==
  /\ Reading /\ completed = None /\ Len(buffer) + n <= Len(doc)
  /\ buffer' = SubSeq(doc, 1, Len(buffer) + n)
  /\ parser' = Fed(buffer', parser) /\ out' = Shown(parser')
  /\ UNCHANGED <<doc, events, completed, stage>>
(* The events of a piece are passed on one at a time.                                          *)
Yield ==
  /\ stage = "streaming" /\ out # <<>>
  /\ events' = Append(events, Head(out)) /\ out' = Tail(out)
  /\ UNCHANGED <<doc, buffer, parser, completed, stage>>
Fails(code) == stage' = code /\ UNCHANGED <<doc, buffer, parser, out, events, completed>>
ParserFails == stage = "streaming" /\ out = <<>> /\ parser.error # None /\ Fails(parser.error)
ProviderFails == Reading /\ Fails("PROGRESSIVE_PROVIDER_INCOMPLETE")
(* The deadline passes, the connection breaks or the client leaves.                            *)
Broken == stage = "streaming" /\ Fails("broken")

(* The response as a whole, whose text is not bound to be that of the pieces.                  *)
Responses ==
  { [status |-> "completed", reason |-> None, refused |-> FALSE, text |-> text] :
      text \in {doc, buffer, <<>>, <<"{", "}">>} }
  \cup { [status |-> "completed", reason |-> None, refused |-> TRUE, text |-> buffer] }
  \cup { [status |-> "incomplete", reason |-> reason, refused |-> FALSE, text |-> buffer] :
           reason \in {"max_output_tokens", "content_filter", None} }
Complete(r) ==
  /\ Reading /\ completed = None /\ completed' = r
  /\ UNCHANGED <<doc, buffer, parser, out, events, stage>>
End ==
  /\ Reading
  /\ LET decoded == Decoded(completed) IN
     stage' = IF completed = None THEN "PROGRESSIVE_PROVIDER_INCOMPLETE"
              ELSE IF decoded.code # None THEN decoded.code
              ELSE IF ~Agrees(parser, decoded.output) THEN "PROGRESSIVE_FINAL_MISMATCH"
              ELSE "finished"
  /\ UNCHANGED <<doc, buffer, parser, out, events, completed>>

Init ==
  /\ doc \in Documents /\ buffer = <<>> /\ parser = Opening /\ out = <<>> /\ events = <<>>
  /\ completed = None /\ stage = "streaming"
Next ==
  \/ \E n \in 1 .. Len(doc) : Delta(n)
  \/ Yield \/ ParserFails \/ ProviderFails \/ Broken \/ End
  \/ \E r \in Responses : Complete(r)
Spec == Init /\ [][Next]_vars
-----------------------------------------------------------------------------
OfType(seq, type) == SelectSeq(seq, LAMBDA e : e.type = type)
Told == events \o out
InExpectedOrder(seq) ==
  \A i, j \in DOMAIN seq : i < j =>
    \E k, l \in DOMAIN Expected : k < l /\ Expected[k] = seq[i].key /\ Expected[l] = seq[j].key

(* feed, _missing_until: no key is told of twice, as a field or as a failure, and either kind
   comes in the order of the schema, however the text is cut into pieces.                       *)
OneOutcome ==
  /\ \A i, j \in DOMAIN Told : Told[i].key = Told[j].key => i = j
  /\ InExpectedOrder(OfType(Told, "field")) /\ InExpectedOrder(OfType(Told, "field-error"))

(* stream, drain_salvage: the pieces do not matter. What is told is what the same text in one
   piece would tell, up to and including what was closed before an error.                       *)
PiecesDoNotMatter ==
  LET whole == Parsed(buffer, Opening) IN
  parser.error # "PROGRESSIVE_BODY_TOO_LARGE" =>
    /\ OfType(Told, "field") = whole.fields
    /\ OfType(Told, "field-error") = whole.failures
    /\ parser.error = whole.error

(* feed against json.loads: the object of the text with string values and keys that are some of
   the schema's in their order is read to its end, and what is read to its end is such an object,
   but for a comma before the closing brace.                                                    *)
WellFormed(members) ==
  /\ \A i \in DOMAIN members : members[i][1] \in Keys /\ members[i][2] # "x"
  /\ InExpectedOrder([i \in DOMAIN members |-> [key |-> members[i][1]]])
WithoutComma(text) ==
  IF Len(text) > 2 /\ text[Len(text) - 1] = "," THEN SubSeq(text, 1, Len(text) - 2) \o <<"}">> ELSE text
ReadsWhatItShould ==
  Len(buffer) <= MaxUnits =>
    /\ \A members \in Objects(buffer) : WellFormed(members) =>
         parser.state = "done" /\ parser.error = None /\ parser.values = ToSet(members)
    /\ parser.state = "done" /\ parser.error = None =>
         \E members \in Objects(WithoutComma(buffer)) :
           WellFormed(members) /\ parser.values = ToSet(members)

(* complete: a result is the final text's object; by then every key of the schema has been told
   of, a field with the value the object has, a failure where it has none or a blank one.       *)
ResultIsWhole ==
  stage = "finished" =>
    \E members \in Objects(completed.text) :
      \A k \in Keys :
        LET given == { members[i][2] : i \in { j \in DOMAIN members : members[j][1] = k } } IN
        CASE given = {}      -> FieldError(k, "PROGRESSIVE_KEY_MISSING") \in ToSet(events)
          [] given = {Blank} -> FieldError(k, "PROGRESSIVE_VALUE_BLANK") \in ToSet(events)
          [] OTHER           -> \E v \in given : Field(k, v) \in ToSet(events)

ProgressiveInv == OneOutcome /\ PiecesDoNotMatter /\ ReadsWhatItShould /\ ResultIsWhole
=============================================================================
