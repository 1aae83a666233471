------------------------ MODULE VoiceStreamContract ------------------------
(***************************************************************************)
(* What a voice stream promises its client, whatever tasks it is made of:  *)
(* utterances begin one after the other; each gets at most one outcome;    *)
(* accepted ones get theirs in the order of speech; a stream that closes   *)
(* by itself leaves no utterance without an outcome. Only a stream that is *)
(* broken, because the client did not take an event or because it was      *)
(* aborted, may leave utterances behind; it still never decides one twice. *)
(***************************************************************************)
EXTENDS Naturals

CONSTANT MaxUtterances

VARIABLES
  heard,    (* utterances begun so far                                      *)
  accepted, (* those accepted for transcription and translation             *)
  settled,  (* those with an outcome                                        *)
  fate      (* "open", "broken" or "closed"                                 *)

contractVars == <<heard, accepted, settled, fate>>

Utterances == 1 .. MaxUtterances
Undecided == (1 .. heard) \ (accepted \cup settled)
Due == accepted \ settled

Init == heard = 0 /\ accepted = {} /\ settled = {} /\ fate = "open"

(* A new utterance begins once the one before it is decided.                 *)
Begin ==
  /\ fate # "closed" /\ heard < MaxUtterances /\ Undecided = {}
  /\ heard' = heard + 1
  /\ UNCHANGED <<accepted, settled>>

Accept ==
  /\ fate # "closed" /\ Undecided # {}
  /\ accepted' = accepted \cup Undecided
  /\ UNCHANGED <<heard, settled>>

(* Silence, or the failure of the stream itself.                             *)
Dismiss ==
  /\ fate # "closed" /\ Undecided # {}
  /\ settled' = settled \cup Undecided
  /\ UNCHANGED <<heard, accepted>>

(* The utterances that are due get their outcome, the oldest first as long as
   none has been lost.                                                       *)
Settle ==
  /\ fate # "closed"
  /\ \E told \in SUBSET Due :
       /\ fate = "open" => \A u \in told, v \in Due : v < u => v \in told
       /\ settled' = settled \cup told
  /\ UNCHANGED <<heard, accepted>>

(* A closing stream owes nothing any more; a broken one may have broken in
   the very step that told of an outcome.                                    *)
Close == fate = "open" /\ settled = 1 .. heard /\ fate' = "closed"
Break == fate # "closed" /\ fate' = "broken"
Stay == fate' = fate

Next ==
  \/ (Begin \/ Accept \/ Dismiss \/ Settle) /\ (Stay \/ Break)
  \/ Close /\ UNCHANGED <<heard, accepted, settled>>

Spec == Init /\ [][Next]_contractVars
=============================================================================
