------------------------------- MODULE MCPieces -------------------------------
(* What is read piece by piece: the audio of a channel by the detector of
   speech, its utterances by the lock on a language, and the text of a response
   by the parser of its fields. The initial state chooses which of them runs. *)
EXTENDS VoiceActivityDetector, UtteranceLanguage, SequencesExt

VARIABLES part,
  doc, buffer, parser, out, events, response, stage
fieldVars == <<doc, buffer, parser, out, events, response, stage>>
all == <<part, vars, languageVars, fieldVars>>

ASSUME DurationAssumption /\ OverlapAssumption
ASSUME LanguageAssumption

Said(spoken, confidence, trusted, repetitive) ==
  [language |-> spoken, confidence |-> confidence, trusted |-> trusted, repetitive |-> repetitive]
AllHeard ==
  { Said("ja", 1, FALSE, FALSE), Said("ja", 4, FALSE, FALSE), Said("en", 0, FALSE, FALSE),
    Said("en", 3, FALSE, FALSE), Said("en", 4, FALSE, FALSE), Said("en", None, TRUE, FALSE),
    Said(None, None, FALSE, FALSE), Said("fr", 1, FALSE, TRUE), Said("fr", 4, FALSE, FALSE) }

(* The texts of a response: every object with up to three members, and those of up to two
   with one token replaced, added or left out.                                               *)
Text(text) == <<"q", text>>
Tokens == { <<unit>> : unit \in {"{", "}", ":", ",", "x"} }
          \cup { Text(text) : text \in {"a", "c", "text", "blank"} }
Joined(tokens) == FoldLeft(LAMBDA s, t : s \o t, <<>>, tokens)
Member(key, value) == <<Text(key), <<":">>, value>>
Object(members) ==
  LET Piece(i) == IF i % 2 = 1 THEN members[(i + 1) \div 2] ELSE << <<",">> >>
  IN << <<"{">> >> \o Joined([i \in 1 .. 2 * Len(members) - 1 |-> Piece(i)]) \o << <<"}">> >>
Objects(keys, values, n) ==
  { Object(members) :
      members \in UNION { [1 .. i -> { Member(k, v) : k \in keys, v \in values }] : i \in 0 .. n } }
Edited(tokens) ==
  { [tokens EXCEPT ![i] = t] : i \in DOMAIN tokens, t \in Tokens }
  \cup { InsertAt(tokens, i, t) : i \in 1 .. Len(tokens) + 1, t \in Tokens }
  \cup { RemoveAt(tokens, i) : i \in DOMAIN tokens }
Documents ==
  { Joined(tokens) : tokens \in
      Objects({"a", "b", "c", "z"}, {Text("text"), Text("blank")}, 3)
      \cup UNION { Edited(tokens) : tokens \in Objects({"a", "c", "z"}, {Text("text")}, 2) } }
Fields == INSTANCE ProgressiveFields WITH
  Expected <- <<"a", "b", "c">>, MaxUnits <- 18, completed <- response

AllInit ==
  /\ part \in {"detector", "language", "fields"} /\ Init
  /\ LanguageInit /\ (part # "language" => manual = None /\ locked = None)
  /\ IF part = "fields" THEN Fields!Init ELSE Fields!Init /\ doc = <<"{", "}">>
AllNext ==
  /\ UNCHANGED part
  /\ \/ part = "detector" /\ Next /\ UNCHANGED <<languageVars, fieldVars>>
     \/ part = "language" /\ LanguageNext /\ UNCHANGED <<vars, fieldVars>>
     \/ part = "fields" /\ Fields!Next /\ UNCHANGED <<vars, languageVars>>
AllSpec == AllInit /\ [][AllNext]_all

(* The fields of a profile execution that are shown while they arrive.       *)
FieldsInv == Fields!ProgressiveInv
=============================================================================
