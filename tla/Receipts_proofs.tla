----------------------------- MODULE Receipts_proofs -----------------------------
(***************************************************************************)
(* Proofs about the reading of receipts. First the recognition of text,    *)
(* for any number of requests and languages: the invariant says which      *)
(* request a thread belongs to, and that one which outlived its request    *)
(* belongs to a request that was cancelled. Then the analysis of one       *)
(* photograph, for any readings: the invariant says what is known of each  *)
(* item at each stage, from the first reading to the response. Last the    *)
(* limiter of the calls, for every number of calls and every limit.        *)
(***************************************************************************)
EXTENDS VisionScheduler, OcrService, ReceiptAnalysis, FiniteSetTheorems, SequenceTheorems, WellFoundedInduction, TLAPS

OcrStates ==
  {"new", "refused", "to create", "creating", "to predict", "predicting",
   "answered", "failed", "cancelled"}
Recognising == {"to create", "creating", "to predict", "predicting"}

OcrShape ==
  /\ request \in [Requests -> OcrStates]
  /\ language \in [Requests -> Languages \cup {NoLanguage}]
  /\ \A r \in Requests : request[r] \in Recognising => language[r] \in Languages
  /\ cache \subseteq Languages /\ made \in [Languages -> Nat]
  /\ cancelled \subseteq Requests /\ files \subseteq Requests
  /\ \A r \in Requests : r \in cancelled <=> request[r] = "cancelled"
  /\ \A r \in Requests : r \in files <=> request[r] \in Recognising

(* A thread runs for each request that waits for one, and for requests that left theirs. *)
ThreadsKept ==
  /\ threads \subseteq [work : {"create", "predict"}, by : Requests]
  /\ \A t \in threads :
       t.by \in cancelled \/ request[t.by] = (IF t.work = "create" THEN "creating" ELSE "predicting")

(* The locks, and what the cache holds while one makes a recogniser.         *)
OneAtATime ==
  \A r, s \in Requests :
    request[r] = request[s] /\ request[r] \in {"creating", "predicting"} => r = s
NotMadeYet == \A r \in Requests : request[r] = "creating" => language[r] \notin cache

OcrIInv == OcrShape /\ ThreadsKept /\ OneAtATime /\ NotMadeYet /\ OneRecogniser

-----------------------------------------------------------------------------
LEMMA OcrInitially == ASSUME OcrInit PROVE OcrIInv
BY DEF OcrInit, OcrIInv, OcrShape, OcrStates, Recognising, ThreadsKept, OneAtATime, NotMadeYet,
       OneRecogniser, In

(* What a step of r may change of the requests: the place of r.               *)
Goes(r, from, to) ==
  /\ request[r] \in from /\ request' = [request EXCEPT ![r] = to]
  /\ to \in OcrStates

LEMMA OthersStand ==
  ASSUME OcrShape, NEW r \in Requests, NEW from, NEW to, Goes(r, from, to)
  PROVE  /\ request' \in [Requests -> OcrStates] /\ request'[r] = to
         /\ \A s \in Requests : s # r => request'[s] = request[s]
BY DEF OcrShape, Goes

LEMMA ShapeKept ==
  ASSUME OcrShape, OcrNext \/ UNCHANGED ocrVars
  PROVE  OcrShape'
<1>1. ASSUME NEW r \in Requests, RefuseFile(r) PROVE OcrShape'
  BY <1>1 DEF OcrShape, OcrStates, Recognising, Moves, RefuseFile
<1>2. ASSUME NEW r \in Requests, Accept(r) PROVE OcrShape'
  <2>1. PICK l \in Languages :
          /\ language' = [language EXCEPT ![r] = l]
          /\ Moves(r, IF l \in cache THEN "to predict" ELSE "to create")
    BY <1>2 DEF Accept
  <2>2. PICK to \in {"to predict", "to create"} : request' = [request EXCEPT ![r] = to]
    BY <2>1 DEF Moves
  <2>3. UNCHANGED <<cache, threads, cancelled, made>> /\ files' = files \cup {r} /\ request[r] = "new"
    BY <1>2 DEF Accept, Writes
  <2> QED BY <2>1, <2>2, <2>3 DEF OcrShape, OcrStates, Recognising
<1>3. ASSUME NEW r \in Requests, Create(r) PROVE OcrShape'
  BY <1>3 DEF OcrShape, OcrStates, Recognising, Moves, Create
<1>4. ASSUME NEW r \in Requests, Created(r) PROVE OcrShape'
  <2>0. language[r] \in Languages /\ made \in [Languages -> Nat]
    BY <1>4 DEF OcrShape, Recognising, Created
  <2>1. language[r] \in Languages /\ made[language[r]] + 1 \in Nat
    <3>1. made[language[r]] \in Nat
      BY <2>0
    <3> QED BY <2>0, <3>1
  <2>2. made' \in [Languages -> Nat] /\ cache' \subseteq Languages
    BY <1>4, <2>1 DEF OcrShape, Created
  <2> QED BY <1>4, <2>2 DEF OcrShape, OcrStates, Recognising, Moves, Created
<1>5. ASSUME NEW r \in Requests, CreateFails(r) PROVE OcrShape'
  BY <1>5 DEF OcrShape, OcrStates, Recognising, Moves, CreateFails
<1>6. ASSUME NEW r \in Requests, Predict(r) PROVE OcrShape'
  BY <1>6 DEF OcrShape, OcrStates, Recognising, Moves, Predict
<1>7. ASSUME NEW r \in Requests, Predicted(r) PROVE OcrShape'
  BY <1>7 DEF OcrShape, OcrStates, Recognising, Moves, Predicted
<1>8. ASSUME NEW r \in Requests, Cancel(r) PROVE OcrShape'
  BY <1>8 DEF OcrShape, OcrStates, Recognising, Moves, Cancel
<1>9. CASE Outlives \/ UNCHANGED ocrVars
  BY <1>9 DEF OcrShape, Outlives, ocrVars
<1> QED BY <1>1, <1>2, <1>3, <1>4, <1>5, <1>6, <1>7, <1>8, <1>9 DEF OcrNext, OcrSteps

(* A thread is of a request that left it or that waits for it.               *)
LEMMA ThreadsGoOn ==
  ASSUME OcrShape, ThreadsKept, cancelled \subseteq cancelled',
         threads' \subseteq [work : {"create", "predict"}, by : Requests],
         \A t \in threads' :
           \/ t.by \in cancelled'
           \/ t \in threads /\ request'[t.by] = request[t.by]
           \/ request'[t.by] = (IF t.work = "create" THEN "creating" ELSE "predicting")
  PROVE  ThreadsKept'
BY DEF ThreadsKept

LEMMA ThreadsStayKept ==
  ASSUME OcrShape, ThreadsKept, OcrNext \/ UNCHANGED ocrVars
  PROVE  ThreadsKept'
<1>1. ASSUME NEW r \in Requests, RefuseFile(r) \/ Accept(r) PROVE ThreadsKept'
  <2>1. request[r] = "new" /\ UNCHANGED <<threads, cancelled>>
    BY <1>1 DEF RefuseFile, Accept
  <2>2. \A s \in Requests : s # r => request'[s] = request[s]
    BY <1>1 DEF RefuseFile, Accept, Moves, OcrShape
  <2>3. \A t \in threads : t.by # r \/ t.by \in cancelled
    BY <2>1 DEF ThreadsKept
  <2> QED BY <2>1, <2>2, <2>3, ThreadsGoOn DEF ThreadsKept
<1>2. ASSUME NEW r \in Requests, NEW from, NEW to, NEW work \in {"create", "predict"},
             Goes(r, {from}, to), from \notin {"creating", "predicting"},
             UNCHANGED cancelled, threads' = threads \/ threads' = threads \cup {[work |-> work, by |-> r]},
             threads' # threads => to = (IF work = "create" THEN "creating" ELSE "predicting")
      PROVE  ThreadsKept'
  <2> DEFINE t0 == [work |-> work, by |-> r]
  <2>1. t0 \in [work : {"create", "predict"}, by : Requests] /\ t0.work = work /\ t0.by = r
    OBVIOUS
  <2>2. /\ request'[r] = to /\ \A s \in Requests : s # r => request'[s] = request[s]
    BY <1>2, OthersStand
  <2>3. request[r] = from
    BY <1>2 DEF Goes
  <2>4. \A t \in threads : t.by # r \/ t.by \in cancelled
    BY <1>2, <2>3 DEF ThreadsKept
  <2> HIDE DEF t0
  <2>5. threads' = threads \/ threads' = threads \cup {t0}
    BY <1>2 DEF t0
  <2>6. threads' \subseteq [work : {"create", "predict"}, by : Requests]
    BY <2>1, <2>5 DEF ThreadsKept
  <2>7. ASSUME NEW t \in threads'
        PROVE  \/ t.by \in cancelled'
               \/ t \in threads /\ request'[t.by] = request[t.by]
               \/ request'[t.by] = (IF t.work = "create" THEN "creating" ELSE "predicting")
    <3>1. CASE t \in threads
      BY <1>2, <2>2, <2>4, <3>1 DEF ThreadsKept
    <3>2. CASE t \notin threads
      BY <1>2, <2>1, <2>2, <2>5, <3>2
    <3> QED BY <3>1, <3>2
  <2> QED BY <1>2, <2>6, <2>7, ThreadsGoOn
<1>3. ASSUME NEW r \in Requests, Create(r) PROVE ThreadsKept'
  <2>1. CASE MadeMeanwhile(r)
    BY <1>2, <1>3, <2>1 DEF Create, Moves, Goes, OcrStates
  <2>2. CASE ~MadeMeanwhile(r)
    BY <1>2, <1>3, <2>2 DEF Create, Moves, Goes, OcrStates, Begins
  <2> QED BY <2>1, <2>2
<1>4. ASSUME NEW r \in Requests, Predict(r) PROVE ThreadsKept'
  BY <1>2, <1>4 DEF Predict, Moves, Goes, OcrStates, Begins
<1>5. ASSUME NEW r \in Requests, NEW work \in {"create", "predict"}, NEW to,
             Goes(r, {IF work = "create" THEN "creating" ELSE "predicting"}, to),
             Ends(r, work), UNCHANGED cancelled
      PROVE  ThreadsKept'
  <2>1. /\ request'[r] = to /\ \A s \in Requests : s # r => request'[s] = request[s]
    BY <1>5, OthersStand
  <2>2. request[r] = (IF work = "create" THEN "creating" ELSE "predicting")
    BY <1>5 DEF Goes
  <2>3. r \notin cancelled
    BY <2>2 DEF OcrShape
  <2>4. threads' = threads \ {[work |-> work, by |-> r]}
    BY <1>5 DEF Ends
  <2>5. ASSUME NEW t \in threads' PROVE t.by # r
    <3>1. t \in threads /\ t # [work |-> work, by |-> r]
      BY <2>4
    <3>2. t \in [work : {"create", "predict"}, by : Requests]
      BY <3>1 DEF ThreadsKept
    <3>3. t.by = r => t.work # work
      BY <3>1, <3>2
    <3>4. t.by = r => request[r] = (IF t.work = "create" THEN "creating" ELSE "predicting")
      BY <2>3, <3>1 DEF ThreadsKept
    <3> QED BY <2>2, <3>2, <3>3, <3>4
  <2>6. threads' \subseteq threads
    BY <2>4
  <2>7. \A t \in threads' : t \in threads /\ request'[t.by] = request[t.by]
    BY <2>1, <2>5, <2>6 DEF ThreadsKept
  <2> QED BY <1>5, <2>6, <2>7, ThreadsGoOn DEF ThreadsKept
<1>6. ASSUME NEW r \in Requests, Created(r) \/ CreateFails(r) PROVE ThreadsKept'
  <2>1. PICK to \in {"to predict", "failed"} : Goes(r, {"creating"}, to)
    BY <1>6 DEF Created, CreateFails, Moves, Goes, OcrStates
  <2> QED BY <1>5, <1>6, <2>1 DEF Created, CreateFails
<1>7. ASSUME NEW r \in Requests, Predicted(r) PROVE ThreadsKept'
  <2>1. PICK to \in {"answered", "failed"} : Goes(r, {"predicting"}, to)
    BY <1>7 DEF Predicted, Moves, Goes, OcrStates
  <2> QED BY <1>5, <1>7, <2>1 DEF Predicted
<1>8. ASSUME NEW r \in Requests, Cancel(r) PROVE ThreadsKept'
  <2>1. cancelled' = cancelled \cup {r} /\ threads' = threads
        /\ \A s \in Requests : s # r => request'[s] = request[s]
    BY <1>8 DEF Cancel, Moves, OcrShape
  <2> QED BY <2>1, ThreadsGoOn DEF ThreadsKept
<1>9. CASE Outlives
  <2>1. PICK t \in threads : threads' = threads \ {t}
    BY <1>9 DEF Outlives
  <2>2. UNCHANGED <<request, cancelled>>
    BY <1>9 DEF Outlives
  <2> QED BY <2>1, <2>2, ThreadsGoOn DEF ThreadsKept
<1>10. CASE UNCHANGED ocrVars
  BY <1>10 DEF ocrVars, ThreadsKept
<1> QED BY <1>1, <1>3, <1>4, <1>6, <1>7, <1>8, <1>9, <1>10 DEF OcrNext, OcrSteps

LEMMA LocksKeep ==
  ASSUME OcrShape, OneAtATime, NotMadeYet, OneRecogniser, OcrNext \/ UNCHANGED ocrVars
  PROVE  OneAtATime' /\ NotMadeYet' /\ OneRecogniser'
<1> DEFINE Goal == OneAtATime' /\ NotMadeYet' /\ OneRecogniser'
<1>1. ASSUME NEW r \in Requests, NEW from, NEW to, Goes(r, from, to),
             to \notin {"creating", "predicting"} \/ (\A s \in Requests : request[s] # to),
             \A s \in Requests : s # r => language'[s] = language[s],
             to = "creating" => language'[r] \notin cache,
             UNCHANGED <<cache, made>>
      PROVE  Goal
  <2>1. /\ request'[r] = to /\ \A s \in Requests : s # r => request'[s] = request[s]
    BY <1>1, OthersStand
  <2>2. OneAtATime'
    BY <1>1, <2>1 DEF OneAtATime
  <2>3. NotMadeYet'
    BY <1>1, <2>1 DEF NotMadeYet
  <2> QED BY <1>1, <2>2, <2>3 DEF OneRecogniser
<1>2. ASSUME NEW r \in Requests, RefuseFile(r) \/ Accept(r) PROVE Goal
  <2>1. PICK to \in {"refused", "to predict", "to create"} : Goes(r, {"new"}, to)
    BY <1>2 DEF RefuseFile, Accept, Moves, Goes, OcrStates
  <2>2. /\ \A s \in Requests : s # r => language'[s] = language[s]
        /\ UNCHANGED <<cache, made>>
    BY <1>2 DEF RefuseFile, Accept, OcrShape
  <2> QED BY <1>1, <2>1, <2>2
<1>3. ASSUME NEW r \in Requests, Create(r) PROVE Goal
  <2>1. PICK to \in {"to predict", "creating"} : Goes(r, {"to create"}, to)
    BY <1>3 DEF Create, Moves, Goes, OcrStates
  <2>2. to = "creating" => language[r] \notin cache /\ \A s \in Requests : request[s] # "creating"
    BY <1>3, <2>1, OthersStand DEF Create, Moves, CreateLocked, MadeMeanwhile, In
  <2> QED BY <1>1, <1>3, <2>1, <2>2 DEF Create
<1>4. ASSUME NEW r \in Requests, Created(r) PROVE Goal
  <2>1. Goes(r, {"creating"}, "to predict")
    BY <1>4 DEF Created, Moves, Goes, OcrStates
  <2>2. /\ request'[r] = "to predict" /\ \A s \in Requests : s # r => request'[s] = request[s]
    BY <2>1, OthersStand
  <2>3. OneAtATime'
    BY <2>2 DEF OneAtATime
  <2>4. \A s \in Requests : request'[s] # "creating"
    BY <2>1, <2>2 DEF Goes, OneAtATime
  <2>5. /\ language[r] \in Languages /\ language[r] \notin cache
        /\ cache' = cache \cup {language[r]} /\ made' = [made EXCEPT ![language[r]] = @ + 1]
    BY <1>4 DEF Created, OcrShape, Recognising, NotMadeYet
  <2>6. made[language[r]] = 0
    BY <2>5 DEF OcrShape, OneRecogniser
  <2>7. \A l \in Languages : made'[l] = IF l = language[r] THEN 1 ELSE made[l]
    BY <2>5, <2>6 DEF OcrShape
  <2>8. OneRecogniser'
    BY <2>5, <2>7 DEF OneRecogniser
  <2> QED BY <2>3, <2>4, <2>8 DEF NotMadeYet
<1>5. ASSUME NEW r \in Requests, Predict(r) PROVE Goal
  <2>1. Goes(r, {"to predict"}, "predicting")
    BY <1>5 DEF Predict, Moves, Goes, OcrStates
  <2>2. \A s \in Requests : request[s] # "predicting"
    BY <1>5 DEF Predict, PredictLocked, In
  <2> QED BY <1>1, <1>5, <2>1, <2>2 DEF Predict
<1>6. ASSUME NEW r \in Requests, CreateFails(r) \/ Predicted(r) \/ Cancel(r) PROVE Goal
  <2>1. PICK to \in {"failed", "answered", "cancelled"} : Goes(r, Recognising, to)
    BY <1>6 DEF CreateFails, Predicted, Cancel, Moves, Goes, OcrStates, Recognising
  <2>2. UNCHANGED <<language, cache, made>>
    BY <1>6 DEF CreateFails, Predicted, Cancel
  <2> QED BY <1>1, <2>1, <2>2
<1>7. CASE Outlives \/ UNCHANGED ocrVars
  BY <1>7 DEF Outlives, ocrVars, OneAtATime, NotMadeYet, OneRecogniser
<1> QED BY <1>2, <1>3, <1>4, <1>5, <1>6, <1>7 DEF OcrNext, OcrSteps

LEMMA OcrKept == ASSUME OcrIInv, [OcrNext]_ocrVars PROVE OcrIInv'
BY ShapeKept, ThreadsStayKept, LocksKeep DEF OcrIInv

LEMMA OcrInvFollows == ASSUME OcrIInv PROVE OcrInv
<1>1. AloneWithItsFile
  <2> SUFFICES ASSUME NEW t \in threads, t.by \notin cancelled
               PROVE  /\ t.by \in files
                      /\ \A u \in threads : u.work = t.work /\ u # t => u.by \in cancelled
    BY DEF AloneWithItsFile
  <2>1. t.by \in files
    BY DEF OcrIInv, OcrShape, ThreadsKept, Recognising
  <2>2. ASSUME NEW u \in threads, u.work = t.work, u.by \notin cancelled PROVE u = t
    <3>1. t.by = u.by
      BY <2>2 DEF OcrIInv, ThreadsKept, OneAtATime
    <3> QED BY <2>2, <3>1 DEF OcrIInv, ThreadsKept
  <2> QED BY <2>1, <2>2
<1>2. NoFileIsLeft
  BY DEF OcrIInv, OcrShape, Recognising, NoFileIsLeft
<1> QED BY <1>1, <1>2 DEF OcrInv, OcrIInv

(* Requests for recognition come, fail and are cancelled in every order: of a language one
   recogniser is made and kept; the thread of a request that still waits is alone with it, apart
   from those that cancelled requests left behind, and its file is there; and no file outlives
   its request (_get_ocr, extract_document_from_upload).                     *)
THEOREM OcrCorrect == OcrSpec => []OcrInv
<1>1. OcrInit => OcrIInv
  BY OcrInitially
<1>2. OcrIInv /\ [OcrNext]_ocrVars => OcrIInv'
  BY OcrKept
<1>3. OcrIInv => OcrInv
  BY OcrInvFollows
<1> QED BY <1>1, <1>2, <1>3, PTL DEF OcrSpec
(***************************************************************************)
(* The analysis of a photograph.                                           *)
(***************************************************************************)
AnalysisStages ==
  {"start", "preview", "whole", "recover", "crops", "validate", "ocr", "done", "refused"}
Regional == Rereads \cup {Malformed}

AnalysisShape ==
  /\ mode \in Modes /\ late \in BOOLEAN /\ stage \in AnalysisStages
  /\ reading \in Seq(Raws) /\ items = [i \in 1 .. Len(reading) |-> items[i]]
  /\ recovered \subseteq DOMAIN reading
  /\ DOMAIN response = {"receipts", "engine", "fallback"}

(* Calls are under way for the image, or for its regions; these answer, and later
   they are all over.                                                              *)
CallsFit ==
  /\ stage = "whole" => DOMAIN calls = {0}
  /\ stage = "crops" => DOMAIN calls = Regions(reading)
  /\ stage \in {"validate", "done"} => DOMAIN calls \subseteq Regions(reading)
  /\ stage \notin {"whole", "crops", "validate", "done"} => DOMAIN calls = {}
  /\ \A i \in DOMAIN calls :
       /\ calls[i].is = "answered" => stage # "whole" /\ calls[i].raw \in Regional
       /\ stage \notin {"whole", "crops"} => calls[i].is \in Failures \cup {"answered"}

(* What may still be spent is counted with what was.                               *)
Unstarted == { i \in DOMAIN calls : calls[i].is = "waiting" }
Budget ==
  CASE stage \in {"start", "preview"} -> 0
    [] stage \in {"whole", "recover"} -> 1
    [] stage \in {"crops", "validate", "ocr"} -> MaxCrops + 1
    [] OTHER -> MaxCrops + 2
WithinBudget == attempts \in Nat /\ attempts + Cardinality(Unstarted) <= Budget

(* What keeps an item from being ready, whatever its facts.                        *)
NotReady(raw) == raw.status = "NEEDS_REVIEW" \/ KeptWarnings(raw) # {}

(* An item that was read first, and what its region has made of it: no fact that was
   read is replaced; one that was planned is for a human, or its region was read again
   and has completed it or had nothing to add.                                     *)
AsRead(raw, first) == \A f \in Fields \ {"verification"} : raw[f] = first[f]
Keeps(raw, first) == \A f \in FinancialFields : first[f] # None => raw[f] = first[f]
Sure(first, raw, reread, again) ==
  reread /\ ~IdentityNeeded(first) /\ (again \/ AsRead(raw, first))
Derived(first, raw, reread, again) ==
  \/ first = Malformed /\ raw = Malformed
  \/ /\ IsReading(first) /\ DOMAIN raw = Fields /\ Keeps(raw, first)
     /\ raw.store # first.store => raw.status = "NEEDS_REVIEW" /\ ~first.sound
     /\ Planned(first) /\ MaxCrops > 0 => NotReady(raw) \/ Sure(first, raw, reread, again)
     /\ ~Planned(first) => AsRead(raw, first)

ItemsFit ==
  /\ stage \in {"start", "preview", "whole", "ocr", "refused"} => reading = <<>>
  /\ stage \in {"recover", "crops"} => recovered = {}
  /\ stage = "recover" => items = reading
  /\ stage = "crops" => items = Prepared(reading)
  /\ stage \in {"validate", "done"} =>
       \A i \in DOMAIN reading : Derived(reading[i], items[i], Reread(i), i \in recovered)

AnswerFits ==
  /\ stage # "done" => response.receipts = <<>>
  /\ stage = "done" /\ reading # <<>> => response.engine = "vision" /\ response.receipts # <<>>
  /\ Answered => response.receipts = Flagged(ValidateResponse(items))

AnalysisIInv == AnalysisShape /\ CallsFit /\ WithinBudget /\ ItemsFit /\ AnswerFits
-----------------------------------------------------------------------------
(* The numbers of a finite set, one after the other.                         *)
LEMMA RankGrows ==
  ASSUME NEW S \in SUBSET Int, IsFiniteSet(S), NEW i \in S, NEW j \in S
  PROVE  /\ Rank(S, i) \in 1 .. Cardinality(S)
         /\ i < j => Rank(S, i) < Rank(S, j)
<1> DEFINE Upto(x) == { y \in S : y <= x }
<1>1. ASSUME NEW x \in S PROVE IsFiniteSet(Upto(x)) /\ Cardinality(Upto(x)) \in 1 .. Cardinality(S)
  <2>1. IsFiniteSet(Upto(x)) /\ Cardinality(Upto(x)) <= Cardinality(S)
    <3>1. Upto(x) \in SUBSET S
      OBVIOUS
    <3> QED BY <3>1, FS_Subset
  <2>2. Cardinality(Upto(x)) \in Nat /\ Cardinality(S) \in Nat
    BY <2>1, FS_CardinalityType
  <2>3. Upto(x) # {}
    BY <1>1
  <2>4. Cardinality(Upto(x)) # 0
    BY <2>1, <2>3, FS_EmptySet
  <2> QED BY <2>1, <2>2, <2>4
<1>2. ASSUME i < j PROVE Cardinality(Upto(i)) < Cardinality(Upto(j))
  <2>0. \A y \in S : y \in Int
    OBVIOUS
  <2>1. Upto(i) \in SUBSET Upto(j)
    <3> SUFFICES ASSUME NEW y \in Upto(i) PROVE y \in Upto(j)
      OBVIOUS
    <3>1. y \in Int /\ i \in Int /\ j \in Int /\ y <= i
      BY <2>0
    <3> QED BY <1>2, <3>1
  <2>2. j \in Upto(j) /\ j \notin Upto(i)
    BY <1>2
  <2>3. Cardinality(Upto(i)) <= Cardinality(Upto(j))
        /\ (Cardinality(Upto(i)) = Cardinality(Upto(j)) => Upto(i) = Upto(j))
    BY <1>1, <2>1, FS_Subset
  <2>4. Upto(i) # Upto(j)
    BY <2>2
  <2>5. Cardinality(Upto(i)) \in Nat /\ Cardinality(Upto(j)) \in Nat
    BY <1>1, FS_CardinalityType
  <2> HIDE DEF Upto
  <2> QED BY <2>3, <2>4, <2>5
<1>3. Rank(S, i) = Cardinality(Upto(i)) /\ Rank(S, j) = Cardinality(Upto(j))
  BY DEF Rank
<1> HIDE DEF Upto
<1> QED BY <1>1, <1>2, <1>3

LEMMA NthIsThere ==
  ASSUME NEW S \in SUBSET Int, IsFiniteSet(S), NEW k \in 1 .. Cardinality(S)
  PROVE  Nth(S, k) \in S /\ Rank(S, Nth(S, k)) = k
<1> DEFINE ranks == [i \in S |-> Rank(S, i)]
<1>0. Cardinality(S) \in Nat
  BY FS_CardinalityType
<1>1. ranks \in Injection(S, 1 .. Cardinality(S))
  <2>1. ranks \in [S -> 1 .. Cardinality(S)]
    BY RankGrows
  <2>2. ASSUME NEW i \in S, NEW j \in S, i # j PROVE ranks[i] # ranks[j]
    <3>1. i < j \/ j < i
      BY <2>2
    <3>2. (i < j => Rank(S, i) < Rank(S, j)) /\ (j < i => Rank(S, j) < Rank(S, i))
      BY RankGrows
    <3>3. Rank(S, i) \in Int /\ Rank(S, j) \in Int
      BY <1>0, RankGrows
    <3> QED BY <3>1, <3>2, <3>3
  <2> QED BY <2>1, <2>2 DEF Injection, IsInjective
<1>2. IsFiniteSet(1 .. Cardinality(S)) /\ Cardinality(1 .. Cardinality(S)) = Cardinality(S)
  <2>1. 1 \in Int /\ Cardinality(S) \in Int
    BY <1>0
  <2>2. Cardinality(1 .. Cardinality(S)) = IF 1 > Cardinality(S) THEN 0 ELSE Cardinality(S) - 1 + 1
    BY <2>1, FS_Interval
  <2> QED BY <1>0, <2>1, <2>2, FS_Interval
<1>3. ranks \in Surjection(S, 1 .. Cardinality(S))
  <2> HIDE DEF ranks
  <2> QED BY <1>1, <1>2, FS_Injection
<1>4. \E i \in S : Rank(S, i) = k
  BY <1>3 DEF Surjection
<1> QED BY <1>4 DEF Nth
-----------------------------------------------------------------------------
(* There are no more regions than there may be.                              *)
LEMMA FewRegions ==
  ASSUME ReadingAssumption, NEW raws \in Seq(Raws)
  PROVE  /\ Regions(raws) \subseteq 1 .. Len(raws)
         /\ IsFiniteSet(Regions(raws)) /\ Cardinality(Regions(raws)) <= MaxCrops
<1>0. Len(raws) \in Nat /\ DOMAIN raws = 1 .. Len(raws) /\ MaxCrops \in Nat
  BY LenProperties DEF ReadingAssumption
<1>1. Regions(raws) \subseteq 1 .. Len(raws)
  BY <1>0 DEF Regions
<1> DEFINE Before(i) == { j \in 1 .. i - 1 : Croppable(raws[j]) }
           places == [i \in Regions(raws) |-> Earlier(raws, i)]
<1>2. ASSUME NEW i \in Regions(raws)
      PROVE  IsFiniteSet(Before(i)) /\ Earlier(raws, i) = Cardinality(Before(i)) /\ Earlier(raws, i) \in 0 .. MaxCrops - 1
  <2>1. i \in Int
    BY <1>0, <1>1
  <2>2. IsFiniteSet(1 .. i - 1) /\ Before(i) \in SUBSET (1 .. i - 1)
    BY <2>1, FS_Interval
  <2>3. IsFiniteSet(Before(i))
    BY <2>2, FS_Subset
  <2>4. Cardinality(Before(i)) \in Nat
    BY <2>3, FS_CardinalityType
  <2>5. Earlier(raws, i) = Cardinality(Before(i))
    BY DEF Earlier
  <2>6. Earlier(raws, i) < MaxCrops
    BY DEF Regions
  <2> QED BY <1>0, <2>3, <2>4, <2>5, <2>6
<1>3. ASSUME NEW i \in Regions(raws), NEW j \in Regions(raws), i < j
      PROVE  Earlier(raws, i) # Earlier(raws, j)
  <2>1. i \in Nat /\ j \in Nat /\ 1 <= i
    BY <1>0, <1>1
  <2>2. Before(i) \in SUBSET Before(j)
    BY <1>3, <2>1
  <2>3. i \in Before(j) /\ i \notin Before(i)
    BY <1>3, <2>1 DEF Regions
  <2>4. Before(i) # Before(j)
    BY <2>3
  <2>5. IsFiniteSet(Before(i)) /\ IsFiniteSet(Before(j))
    BY <1>2
  <2>6. Cardinality(Before(i)) # Cardinality(Before(j))
    <3> HIDE DEF Before
    <3> QED BY <2>2, <2>4, <2>5, FS_Subset
  <2> QED BY <1>2, <2>6
<1>4. places \in Injection(Regions(raws), 0 .. MaxCrops - 1)
  <2>1. places \in [Regions(raws) -> 0 .. MaxCrops - 1]
    BY <1>2
  <2>2. ASSUME NEW i \in Regions(raws), NEW j \in Regions(raws), i # j PROVE places[i] # places[j]
    <3>1. i \in Int /\ j \in Int
      BY <1>0, <1>1
    <3>2. i < j \/ j < i
      BY <2>2, <3>1
    <3> QED BY <1>3, <3>2
  <2> QED BY <2>1, <2>2 DEF Injection, IsInjective
<1>5. IsFiniteSet(0 .. MaxCrops - 1) /\ Cardinality(0 .. MaxCrops - 1) = MaxCrops
  <2>1. 0 \in Int /\ MaxCrops - 1 \in Int
    BY <1>0
  <2>2. Cardinality(0 .. MaxCrops - 1) = IF 0 > MaxCrops - 1 THEN 0 ELSE MaxCrops - 1 - 0 + 1
    BY <2>1, FS_Interval
  <2> QED BY <1>0, <2>1, <2>2, FS_Interval
<1> HIDE DEF places
<1> QED BY <1>1, <1>4, <1>5, FS_Injection
-----------------------------------------------------------------------------
(* What validation makes of the items, whatever they are.                    *)
OfItems(raws) == [i \in DOMAIN MostOf(raws) |-> ValidateItem(raws[i], i)]

LEMMA MostOfItems ==
  ASSUME ReadingAssumption, NEW n \in Nat, NEW raws, raws = [i \in 1 .. n |-> raws[i]]
  PROVE  \E m \in 0 .. n : DOMAIN MostOf(raws) = 1 .. m /\ (n > 0 => m > 0)
<1> DEFINE S == { raws[i] : i \in 1 .. n }
           m == IF n < MaxReceipts THEN n ELSE MaxReceipts
<1>1. raws \in Seq(S) /\ Len(raws) = n
  <2>1. raws \in [1 .. n -> S]
    OBVIOUS
  <2>2. raws \in Seq(S)
    BY <2>1, SeqDef
  <2>3. DOMAIN raws = 1 .. n /\ DOMAIN raws = 1 .. Len(raws) /\ Len(raws) \in Nat
    BY <2>1, <2>2, LenProperties
  <2> QED BY <2>2, <2>3
<1>2. MostOf(raws) = SubSeq(raws, 1, m)
  BY <1>1 DEF MostOf
<1>3. m \in 0 .. n /\ (n > 0 => m > 0)
  BY DEF ReadingAssumption
<1>4. DOMAIN SubSeq(raws, 1, m) = 1 .. m
  <2> HIDE DEF S
  <2>1. SubSeq(raws, 1, m) \in Seq(S) /\ Len(SubSeq(raws, 1, m)) = IF 1 <= m THEN m - 1 + 1 ELSE 0
    <3>1. 1 \in 1 .. Len(raws) + 1 /\ m \in 0 .. Len(raws)
      BY <1>1, <1>3
    <3> HIDE DEF m
    <3> QED BY <1>1, <3>1, SubSeqProperties
  <2>2. m \in Nat
    BY <1>3
  <2> HIDE DEF m
  <2>3. Len(SubSeq(raws, 1, m)) = m
    BY <2>1, <2>2
  <2> QED BY <2>1, <2>3, LenProperties
<1> HIDE DEF m
<1> QED BY <1>2, <1>3, <1>4

LEMMA ItemHas ==
  ASSUME NEW raw, NEW id
  PROVE  /\ ValidateItem(raw, id).id = id
         /\ IsObject(raw) =>
              /\ ValidateItem(raw, id).store = raw.store
              /\ ValidateItem(raw, id).currency = CurrencyOf(raw)
              /\ ValidateItem(raw, id).date = DateOf(raw)
              /\ ValidateItem(raw, id).total = Total(raw)
              /\ ValidateItem(raw, id).status = StatusOf(raw)
              /\ ValidateItem(raw, id).amount = IF Unreadable(raw) THEN None ELSE Booking(raw).amount
              /\ ValidateItem(raw, id).status = "READY" =>
                   /\ MayBeReady(raw)
                   /\ ValidateItem(raw, id).amount = Booking(raw).amount
                   /\ ValidateItem(raw, id).review = Booking(raw).review
         /\ ~IsObject(raw) => ValidateItem(raw, id).status # "READY"
<1>1. ValidateItem(raw, id).id = id
  BY DEF ValidateItem, ItemOf
<1>2. ASSUME IsObject(raw)
      PROVE  /\ ValidateItem(raw, id).store = raw.store
             /\ ValidateItem(raw, id).currency = CurrencyOf(raw)
             /\ ValidateItem(raw, id).date = DateOf(raw)
             /\ ValidateItem(raw, id).total = Total(raw)
             /\ ValidateItem(raw, id).status = StatusOf(raw)
             /\ ValidateItem(raw, id).amount = IF Unreadable(raw) THEN None ELSE Booking(raw).amount
             /\ ValidateItem(raw, id).review = IF Unreadable(raw) THEN "NEEDS_REVIEW" ELSE Booking(raw).review
  BY <1>2 DEF ValidateItem, ItemOf
<1>3. ASSUME IsObject(raw), ValidateItem(raw, id).status = "READY"
      PROVE  /\ MayBeReady(raw)
             /\ ValidateItem(raw, id).amount = Booking(raw).amount
             /\ ValidateItem(raw, id).review = Booking(raw).review
  <2>1. MayBeReady(raw) /\ ~Unreadable(raw)
    BY <1>2, <1>3 DEF StatusOf
  <2> QED BY <1>2, <1>3, <2>1
<1>4. ASSUME ~IsObject(raw) PROVE ValidateItem(raw, id).status # "READY"
  BY <1>4 DEF ValidateItem
<1> QED BY <1>1, <1>2, <1>3, <1>4

ReceiptFields ==
  {"id", "store", "currency", "date", "total", "amount", "review", "verification", "status", "flags"}
LEMMA ItemDomain == \A raw, id : DOMAIN ValidateItem(raw, id) = ReceiptFields
BY DEF ValidateItem, ItemOf, ReceiptFields

(* A receipt of a response that may have been told of doubts or of a recovery. *)
SameReceipt(receipt, item) ==
  /\ DOMAIN receipt = ReceiptFields
  /\ \A f \in ReceiptFields \ {"status", "flags"} : receipt[f] = item[f]
LEMMA DoubtsKeep ==
  ASSUME NEW raws, NEW vs, NEW i, DOMAIN vs[i] = ReceiptFields
  PROVE  /\ SameReceipt(Doubted(raws, vs, i), vs[i])
         /\ Doubted(raws, vs, i).status = "READY" => vs[i].status = "READY" /\ ~Resembles(raws, vs, i)
<1>1. CASE Resembles(raws, vs, i)
  <2>1. Doubted(raws, vs, i) = Doubtful(vs[i])
    BY <1>1 DEF Doubted
  <2>2. Doubtful(vs[i]).status = "NEEDS_REVIEW" /\ SameReceipt(Doubtful(vs[i]), vs[i])
    BY DEF Doubtful, SameReceipt, ReceiptFields
  <2> QED BY <2>1, <2>2
<1>2. CASE ~Resembles(raws, vs, i)
  BY <1>2 DEF Doubted, SameReceipt
<1> QED BY <1>1, <1>2
-----------------------------------------------------------------------------
(* The receipts of a response: of each item that is kept, one.               *)
KeptOf(raws) == Once(raws, OfItems(raws))
LEMMA ReceiptsAre ==
  ASSUME ReadingAssumption, NEW n \in Nat, NEW raws, raws = [i \in 1 .. n |-> raws[i]]
  PROVE  /\ KeptOf(raws) \subseteq 1 .. n
         /\ \A i \in KeptOf(raws) :
              OfItems(raws)[i] = ValidateItem(raws[i], i) /\ i \in DOMAIN OfItems(raws)
         /\ n > 0 => ValidateResponse(raws) # <<>>
         /\ \A k \in DOMAIN ValidateResponse(raws) :
              /\ Nth(KeptOf(raws), k) \in KeptOf(raws)
              /\ ValidateResponse(raws)[k] = Doubted(raws, OfItems(raws), Nth(KeptOf(raws), k))
         /\ \A k, l \in DOMAIN ValidateResponse(raws) :
              k # l => Nth(KeptOf(raws), k) # Nth(KeptOf(raws), l)
<1> DEFINE kept == KeptOf(raws)
           rs == ValidateResponse(raws)
<1>1. PICK m \in 0 .. n : DOMAIN MostOf(raws) = 1 .. m /\ (n > 0 => m > 0)
  BY MostOfItems
<1>2. DOMAIN OfItems(raws) = 1 .. m /\ \A i \in 1 .. m : OfItems(raws)[i] = ValidateItem(raws[i], i)
  BY <1>1 DEF OfItems
<1>3. kept \subseteq 1 .. m
  BY <1>2 DEF Once, KeptOf
<1>4. IsFiniteSet(kept) /\ kept \in SUBSET Int
  <2>1. IsFiniteSet(1 .. m)
    BY FS_Interval
  <2>2. kept \in SUBSET (1 .. m)
    BY <1>3
  <2> QED BY <2>1, <2>2, FS_Subset
<1>5. rs = [k \in 1 .. Cardinality(kept) |-> Doubted(raws, OfItems(raws), Nth(kept, k))]
  BY DEF ValidateResponse, Unrepeated, OfItems, KeptOf
<1>6. ASSUME NEW k \in DOMAIN rs
      PROVE  Nth(kept, k) \in kept /\ Rank(kept, Nth(kept, k)) = k
             /\ rs[k] = Doubted(raws, OfItems(raws), Nth(kept, k))
  <2>1. k \in 1 .. Cardinality(kept)
    BY <1>5
  <2> QED BY <1>4, <1>5, <2>1, NthIsThere
<1>7. ASSUME n > 0 PROVE rs # <<>>
  <2>1. 1 \in 1 .. m
    BY <1>1, <1>7
  <2>2. ~Repeats(raws, OfItems(raws), 1)
    BY DEF Repeats
  <2>3. 1 \in kept
    BY <1>2, <2>1, <2>2 DEF Once, KeptOf
  <2>4. Cardinality(kept) \in Nat /\ Cardinality(kept) # 0
    BY <1>4, <2>3, FS_CardinalityType, FS_EmptySet
  <2>5. 1 \in DOMAIN rs
    BY <1>5, <2>4
  <2> QED BY <2>5
<1>8. kept \subseteq 1 .. n
  <2>1. 1 .. m \subseteq 1 .. n
    OBVIOUS
  <2> QED BY <1>3, <2>1
<1> HIDE DEF kept, rs
<1>9. \A k, l \in DOMAIN rs : k # l => Nth(kept, k) # Nth(kept, l)
  BY <1>6
<1>10. \A i \in kept : OfItems(raws)[i] = ValidateItem(raws[i], i) /\ i \in DOMAIN OfItems(raws)
  BY <1>2, <1>3
<1> QED BY <1>6, <1>7, <1>8, <1>9, <1>10 DEF kept, rs

(* The flag of a recovery changes nothing else.                              *)
LEMMA FlagsKeep ==
  ASSUME NEW rs, NEW k \in DOMAIN rs, DOMAIN rs[k] = ReceiptFields
  PROVE  /\ DOMAIN Flagged(rs) = DOMAIN rs
         /\ SameReceipt(Flagged(rs)[k], rs[k]) /\ Flagged(rs)[k].status = rs[k].status
BY DEF Flagged, SameReceipt, ReceiptFields

AnswerOf(raws) == Flagged(ValidateResponse(raws))
IsAnswerOf(receipt, raws) ==
  /\ receipt.id \in KeptOf(raws)
  /\ SameReceipt(receipt, ValidateItem(raws[receipt.id], receipt.id))
  /\ receipt.status = "READY" =>
       /\ ValidateItem(raws[receipt.id], receipt.id).status = "READY"
       /\ ~Resembles(raws, OfItems(raws), receipt.id)
LEMMA AnswerIs ==
  ASSUME ReadingAssumption, NEW n \in Nat, NEW raws, raws = [i \in 1 .. n |-> raws[i]]
  PROVE  /\ n > 0 => AnswerOf(raws) # <<>>
         /\ \A k \in DOMAIN AnswerOf(raws) :
              AnswerOf(raws)[k].id \in 1 .. n /\ IsAnswerOf(AnswerOf(raws)[k], raws)
         /\ \A k, l \in DOMAIN AnswerOf(raws) : k # l => AnswerOf(raws)[k].id # AnswerOf(raws)[l].id
<1> DEFINE rs == AnswerOf(raws)
           ws == ValidateResponse(raws)
           place(k) == Nth(KeptOf(raws), k)
<1>1. /\ KeptOf(raws) \subseteq 1 .. n
      /\ \A i \in KeptOf(raws) :
           OfItems(raws)[i] = ValidateItem(raws[i], i) /\ i \in DOMAIN OfItems(raws)
      /\ n > 0 => ws # <<>>
      /\ \A k \in DOMAIN ws : place(k) \in KeptOf(raws) /\ ws[k] = Doubted(raws, OfItems(raws), place(k))
      /\ \A k, l \in DOMAIN ws : k # l => place(k) # place(l)
  BY ReceiptsAre
<1>2. rs = Flagged(ws) /\ DOMAIN rs = DOMAIN ws
  BY DEF Flagged, AnswerOf
<1> HIDE DEF ws, place, rs
<1>3. ASSUME NEW k \in DOMAIN rs
      PROVE  /\ rs[k].id = place(k)
             /\ SameReceipt(rs[k], ValidateItem(raws[place(k)], place(k)))
             /\ rs[k].status = "READY" =>
                  /\ ValidateItem(raws[place(k)], place(k)).status = "READY"
                  /\ ~Resembles(raws, OfItems(raws), place(k))
  <2> DEFINE i == place(k)
             item == ValidateItem(raws[i], i)
  <2>1. i \in KeptOf(raws) /\ ws[k] = Doubted(raws, OfItems(raws), i) /\ OfItems(raws)[i] = item
    BY <1>1, <1>2, <1>3
  <2>2. DOMAIN item = ReceiptFields /\ item.id = i
    BY ItemDomain, ItemHas
  <2> HIDE DEF item, i
  <2>3. SameReceipt(ws[k], item)
        /\ (ws[k].status = "READY" => item.status = "READY" /\ ~Resembles(raws, OfItems(raws), i))
    BY <2>1, <2>2, DoubtsKeep
  <2>4. SameReceipt(rs[k], ws[k]) /\ rs[k].status = ws[k].status
    <3>1. k \in DOMAIN ws /\ DOMAIN ws[k] = ReceiptFields
      BY <1>2, <2>3 DEF SameReceipt
    <3> QED BY <1>2, <3>1, FlagsKeep
  <2>5. SameReceipt(rs[k], item)
    BY <2>3, <2>4 DEF SameReceipt
  <2>6. rs[k].id = i
    BY <2>2, <2>5 DEF SameReceipt, ReceiptFields
  <2> QED BY <2>3, <2>4, <2>5, <2>6 DEF i, item
<1>4. n > 0 => rs # <<>>
  BY <1>1, <1>2
<1>5. \A k \in DOMAIN rs : rs[k].id \in KeptOf(raws) /\ rs[k].id \in 1 .. n
  BY <1>1, <1>2, <1>3
<1>6. ASSUME NEW k \in DOMAIN rs, NEW l \in DOMAIN rs, k # l PROVE rs[k].id # rs[l].id
  <2>1. rs[k].id = place(k) /\ rs[l].id = place(l)
    BY <1>3
  <2>2. place(k) # place(l)
    BY <1>1, <1>2, <1>6
  <2> QED BY <2>1, <2>2
<1>7. \A k \in DOMAIN rs : IsAnswerOf(rs[k], raws)
  BY <1>3, <1>5 DEF IsAnswerOf
<1> QED BY <1>4, <1>5, <1>6, <1>7 DEF rs
-----------------------------------------------------------------------------
(* A receipt that is ready is booked with an amount.                         *)
LEMMA ReadyIsBooked ==
  ASSUME NEW total, total # 0, NEW payments, NEW tendered, NEW change,
         BookAmount(total, payments, tendered, change).review = "READY"
  PROVE  BookAmount(total, payments, tendered, change).amount \notin {None, 0}
<1> DEFINE booked == BookAmount(total, payments, tendered, change)
           cash == CashPaid(total, payments, tendered, change)
           paid == Settled(total, payments, cash)
<1>1. Review.review # "READY" /\ Excluded.review # "READY"
  BY DEF Review, Excluded
<1>2. total # None
  BY <1>1 DEF BookAmount
<1>3. CASE payments = <<>>
  <2>1. booked = Booked(total)
    BY <1>2, <1>3 DEF BookAmount
  <2> QED BY <1>2, <2>1 DEF Booked
<1>4. CASE payments # <<>>
  <2>1. booked = Review \/ booked = Outcome(total, paid, Points(payments))
    BY <1>2, <1>4 DEF BookAmount
  <2> HIDE DEF paid
  <2>2. booked = Outcome(total, paid, Points(payments))
    BY <1>1, <2>1
  <2>3. paid # None /\ ~(paid <= 0) /\ booked = Booked(paid)
    BY <1>1, <2>2 DEF Outcome
  <2>4. paid # 0
    BY <2>3
  <2>5. booked.amount = paid
    BY <2>3 DEF Booked
  <2> QED BY <2>3, <2>4, <2>5
<1> QED BY <1>3, <1>4

LEMMA TotalIsSomething ==
  ASSUME NEW raw, Total(raw) # None PROVE Total(raw) # 0
BY DEF Total, NormalizeAmount

LEMMA ObjectsAreItems ==
  /\ ~IsObject(Malformed)
  /\ \A raw : DOMAIN raw = Fields => IsObject(raw)
  /\ \A raw : IsReading(raw) => DOMAIN raw = Fields /\ IsObject(raw)
<1>1. ~IsObject(Malformed)
  BY DEF IsObject, Malformed
<1>2. \A raw : DOMAIN raw = Fields => IsObject(raw)
  BY DEF IsObject, Fields, FinancialFields
<1> QED BY <1>1, <1>2 DEF IsReading

(* None of two alike is ready: of those at one place the later is dropped, of those
   without a place both are doubted.                                         *)
LEMMA ReadyAreWhole ==
  ASSUME ReadingAssumption, NEW n \in Nat, NEW raws, raws = [i \in 1 .. n |-> raws[i]],
         \A i \in 1 .. n : raws[i] = Malformed \/ DOMAIN raws[i] = Fields
  PROVE  ReadyIsWhole(raws, AnswerOf(raws))
<1> DEFINE rs == AnswerOf(raws)
<1> SUFFICES ASSUME NEW k \in DOMAIN rs, rs[k].status = "READY"
             PROVE  /\ rs[k].amount \notin {None, 0} /\ rs[k].review = "READY"
                    /\ rs[k].currency # None /\ rs[k].date # None /\ rs[k].store # None
                    /\ \A l \in DOMAIN rs \ {k} :
                         Facts(rs[l]) = Facts(rs[k]) => Place(raws[rs[k].id]) # Place(raws[rs[l].id])
  BY DEF ReadyIsWhole
<1> DEFINE i == rs[k].id
           item(j) == ValidateItem(raws[j], j)
<1>1. /\ \A l \in DOMAIN rs : rs[l].id \in 1 .. n /\ IsAnswerOf(rs[l], raws)
      /\ \A l, m \in DOMAIN rs : l # m => rs[l].id # rs[m].id
  BY AnswerIs
<1>2. \A j \in KeptOf(raws) : OfItems(raws)[j] = item(j) /\ j \in DOMAIN OfItems(raws)
  BY ReceiptsAre
<1> HIDE DEF item, i, rs
<1>3. item(i).status = "READY" /\ ~Resembles(raws, OfItems(raws), i) /\ i \in 1 .. n
  BY <1>1 DEF i, item, IsAnswerOf
<1>4. IsObject(raws[i])
  BY <1>3, ItemHas DEF item
<1>5. /\ MayBeReady(raws[i])
      /\ item(i).amount = Booking(raws[i]).amount /\ item(i).review = Booking(raws[i]).review
      /\ item(i).store = raws[i].store /\ item(i).currency = CurrencyOf(raws[i])
      /\ item(i).date = DateOf(raws[i])
  BY <1>3, <1>4, ItemHas DEF item
<1>6. Total(raws[i]) # 0
  BY <1>5, TotalIsSomething DEF MayBeReady, Understood
<1>7. Booking(raws[i]).review = "READY" /\ Booking(raws[i]).amount \notin {None, 0}
  BY <1>5, <1>6, ReadyIsBooked DEF MayBeReady, Booking
<1>8. ASSUME NEW l \in DOMAIN rs
      PROVE  /\ rs[l].amount = item(rs[l].id).amount /\ rs[l].review = item(rs[l].id).review
             /\ rs[l].currency = item(rs[l].id).currency /\ rs[l].date = item(rs[l].id).date
             /\ rs[l].store = item(rs[l].id).store
  BY <1>1 DEF SameReceipt, ReceiptFields, IsAnswerOf, item
<1>9. /\ rs[k].amount \notin {None, 0} /\ rs[k].review = "READY"
      /\ rs[k].currency # None /\ rs[k].date # None /\ rs[k].store # None
  BY <1>5, <1>7, <1>8 DEF i, MayBeReady, Understood
<1>10. ASSUME NEW l \in DOMAIN rs \ {k}, Facts(rs[l]) = Facts(rs[k]), Place(raws[i]) = Place(raws[rs[l].id])
       PROVE  FALSE
  <2> DEFINE j == rs[l].id
             vs == OfItems(raws)
  <2>1. i # j /\ i \in KeptOf(raws) /\ j \in KeptOf(raws) /\ i \in 1 .. n /\ j \in 1 .. n
    BY <1>1, <1>10 DEF i, IsAnswerOf
  <2>2. vs[i] = item(i) /\ vs[j] = item(j) /\ i \in DOMAIN vs /\ j \in DOMAIN vs
    BY <1>2, <2>1
  <2>3. Facts(vs[j]) = Facts(rs[l]) /\ Facts(vs[i]) = Facts(rs[k])
    BY <1>8, <2>2 DEF Facts, i
  <2>4. Facts(vs[i]) = Facts(vs[j])
    BY <1>10, <2>3
  <2>5. ~Repeats(raws, vs, i) /\ ~Repeats(raws, vs, j)
    BY <2>1 DEF KeptOf, Once
  <2>6. Place(raws[i]) = Place(raws[j])
    BY <1>10
  <2>7. vs[i].amount # None
    BY <1>5, <1>7, <2>2
  <2> HIDE DEF j, vs
  <2>8. CASE Place(raws[i]) = None
    <3>1. Resembles(raws, vs, i)
      BY <2>1, <2>2, <2>4, <2>6, <2>7, <2>8 DEF Resembles
    <3> QED BY <1>3, <3>1 DEF vs
  <2>9. CASE Place(raws[i]) # None
    <3>1. i < j \/ j < i
      BY <2>1
    <3>2. CASE i < j
      <4>1. i \in 1 .. j - 1
        BY <2>1, <3>2
      <4> QED BY <2>4, <2>5, <2>6, <2>9, <4>1 DEF Repeats
    <3>3. CASE j < i
      <4>1. j \in 1 .. i - 1
        BY <2>1, <3>3
      <4> QED BY <2>4, <2>5, <2>6, <2>9, <4>1 DEF Repeats
    <3> QED BY <3>1, <3>2, <3>3
  <2> QED BY <2>8, <2>9
<1> QED BY <1>9, <1>10 DEF i, rs
-----------------------------------------------------------------------------
(* What the recovery makes of one item.                                      *)
Same(raw, first, changed) == DOMAIN raw = Fields /\ \A f \in Fields \ changed : raw[f] = first[f]

LEMMA WarnedIs ==
  ASSUME NEW raw, DOMAIN raw = Fields, NEW warning
  PROVE  Same(Warned(raw, warning), raw, {"warnings"}) /\ warning \in Warned(raw, warning).warnings
BY DEF Warned, Same, Fields

LEMMA FailedIs ==
  ASSUME NEW raw, DOMAIN raw = Fields, NEW warning
  PROVE  Same(Failed(raw, warning), raw, {"warnings", "status"}) /\ Failed(raw, warning).status = "NEEDS_REVIEW"
BY DEF Failed, Warned, Same, Fields

LEMMA AnnotatedIs ==
  ASSUME NEW raw, DOMAIN raw = Fields
  PROVE  \/ Same(Annotated(raw), raw, {"verification"})
         \/ /\ Same(Annotated(raw), raw, {"verification", "status"})
            /\ Annotated(raw).status = "NEEDS_REVIEW" /\ ~raw.sound /\ raw.store # None
<1>1. CASE raw.verification # None \/ ~IsObject(raw)
  BY <1>1 DEF Annotated, Same
<1>2. CASE raw.verification = None /\ IsObject(raw) /\ raw.sound
  BY <1>2 DEF Annotated, Same, Fields
<1>3. CASE raw.verification = None /\ IsObject(raw) /\ ~raw.sound /\ raw.store # None
  BY <1>3 DEF Annotated, Same, Fields
<1>4. CASE raw.verification = None /\ IsObject(raw) /\ ~raw.sound /\ raw.store = None
  BY <1>4 DEF Annotated, Same
<1> QED BY <1>1, <1>2, <1>3, <1>4

(* A step that leaves the facts of the finances, the store and the identity.  *)
LEMMA SameKeeps ==
  ASSUME NEW raw, NEW first, NEW changed, Same(raw, first, changed),
         changed \subseteq {"store", "warnings", "status", "verification"}
  PROVE  /\ DOMAIN raw = Fields /\ \A f \in FinancialFields : raw[f] = first[f]
         /\ raw.sound = first.sound
         /\ "store" \notin changed => raw.store = first.store
         /\ "status" \notin changed => raw.status = first.status
         /\ "warnings" \notin changed => raw.warnings = first.warnings
<1>1. DOMAIN raw = Fields /\ \A f \in Fields : f \notin changed => raw[f] = first[f]
  BY DEF Same
<1>2. \A f \in FinancialFields : f \in Fields /\ f \notin {"store", "warnings", "status", "verification"}
  BY DEF Fields, FinancialFields
<1>3. {"store", "sound", "status", "warnings"} \subseteq Fields /\ "sound" \notin changed
  BY DEF Fields
<1>4. \A f \in FinancialFields : raw[f] = first[f]
  BY <1>1, <1>2
<1> QED BY <1>1, <1>3, <1>4

(* What was read is kept, and what is planned needs something of its region.  *)
LEMMA UntouchedDerived ==
  ASSUME NEW first, IsReading(first), Planned(first) => MaxCrops = 0
  PROVE  Derived(first, first, FALSE, FALSE)
<1>1. DOMAIN first = Fields /\ ~(Planned(first) /\ MaxCrops > 0)
  BY ObjectsAreItems
<1> QED BY <1>1 DEF Derived, Keeps, AsRead

(* What is not ready for want of its region is so whatever that answered.     *)
LEMMA WithoutItsRegion ==
  ASSUME NEW first, NEW raw, Derived(first, raw, FALSE, FALSE), NEW reread, NEW again
  PROVE  Derived(first, raw, reread, again)
BY DEF Derived, Sure

LEMMA WarnedDerived ==
  ASSUME NEW first, IsReading(first), Planned(first), NEW warning, warning # "REGION_RECOVERY_INVALID_RESPONSE"
  PROVE  Derived(first, Warned(first, warning), FALSE, FALSE)
<1> DEFINE raw == Warned(first, warning)
<1>1. Same(raw, first, {"warnings"}) /\ warning \in raw.warnings
  BY WarnedIs DEF IsReading
<1> HIDE DEF raw
<1>2. KeptWarnings(raw) # {}
  BY <1>1 DEF KeptWarnings
<1>3. DOMAIN raw = Fields /\ raw.store = first.store /\ Keeps(raw, first)
  BY <1>1, SameKeeps DEF Keeps
<1> QED BY <1>2, <1>3 DEF Derived, NotReady, raw

LEMMA FailedDerived ==
  ASSUME NEW first, IsReading(first), Planned(first), NEW warning, NEW reread, NEW again
  PROVE  Derived(first, Failed(first, warning), reread, again)
<1> DEFINE raw == Failed(first, warning)
<1>1. Same(raw, first, {"warnings", "status"}) /\ raw.status = "NEEDS_REVIEW"
  BY FailedIs DEF IsReading
<1> HIDE DEF raw
<1>2. DOMAIN raw = Fields /\ raw.store = first.store /\ Keeps(raw, first)
  BY <1>1, SameKeeps DEF Keeps
<1> QED BY <1>1, <1>2 DEF Derived, NotReady, raw

LEMMA AnnotatedDerived ==
  ASSUME NEW first, NEW raw, NEW reread, NEW again, Derived(first, raw, reread, again)
  PROVE  Derived(first, Annotated(raw), reread, again)
<1> DEFINE done == Annotated(raw)
<1>1. CASE first = Malformed /\ raw = Malformed
  <2>1. done = raw
    BY <1>1, ObjectsAreItems DEF Annotated
  <2> QED BY <1>1, <2>1 DEF Derived
<1>2. CASE IsReading(first) /\ DOMAIN raw = Fields
  <2>0. first # Malformed
    BY <1>2, ObjectsAreItems
  <2>1. /\ Keeps(raw, first)
        /\ raw.store # first.store => raw.status = "NEEDS_REVIEW" /\ ~first.sound
        /\ Planned(first) /\ MaxCrops > 0 => NotReady(raw) \/ Sure(first, raw, reread, again)
        /\ ~Planned(first) => AsRead(raw, first)
    BY <2>0 DEF Derived
  <2>2. \/ Same(done, raw, {"verification"})
        \/ /\ Same(done, raw, {"verification", "status"})
           /\ done.status = "NEEDS_REVIEW" /\ ~raw.sound /\ raw.store # None
    BY <1>2, AnnotatedIs
  <2> HIDE DEF done
  <2>3. /\ DOMAIN done = Fields /\ \A f \in FinancialFields : done[f] = raw[f]
        /\ done.store = raw.store /\ done.warnings = raw.warnings
        /\ done.status = raw.status \/ done.status = "NEEDS_REVIEW"
    BY <2>2, SameKeeps
  <2>4. Keeps(done, first)
    BY <2>1, <2>3 DEF Keeps
  <2>5. NotReady(raw) => NotReady(done)
    BY <2>3 DEF NotReady, KeptWarnings
  <2>6. ASSUME ~IdentityNeeded(first), AsRead(raw, first) PROVE AsRead(done, first)
    <3>1. raw.sound = first.sound /\ raw.store = first.store
      BY <2>6 DEF AsRead, Fields
    <3>2. raw.sound \/ raw.store = None
      BY <2>6, <3>1 DEF IdentityNeeded
    <3>3. Same(done, raw, {"verification"})
      BY <2>2, <3>2
    <3> QED BY <2>6, <3>3 DEF Same, AsRead
  <2>7. done.store # first.store => done.status = "NEEDS_REVIEW" /\ ~first.sound
    BY <2>1, <2>3
  <2>8. Sure(first, raw, reread, again) => Sure(first, done, reread, again)
    BY <2>6 DEF Sure
  <2>9. ~Planned(first) => ~IdentityNeeded(first) /\ AsRead(done, first)
    BY <1>2, <2>1, <2>6, ObjectsAreItems DEF Planned
  <2> QED BY <1>2, <2>1, <2>3, <2>4, <2>5, <2>7, <2>8, <2>9 DEF Derived, done
<1> QED BY <1>1, <1>2 DEF Derived

(* The facts of the finances are completed; the rest is left, but for the payments. *)
LEMMA FinancedIs ==
  ASSUME NEW first, DOMAIN first = Fields, NEW new
  PROVE  LET raw == Financed(first, new) IN
         /\ DOMAIN raw = Fields /\ Keeps(raw, first)
         /\ raw.store = first.store /\ raw.sound = first.sound
         /\ ~Completes(first, new) => \A f \in Fields : raw[f] = first[f]
<1> DEFINE raw == Financed(first, new)
<1>1. DOMAIN raw = Fields /\ FinancialFields \subseteq Fields
  BY DEF Financed, Fields
<1>2. \A f \in FinancialFields : raw[f] = IF first[f] = None THEN new[f] ELSE first[f]
  BY <1>1 DEF Financed, Completed
<1>3. \A f \in Fields \ FinancialFields :
        raw[f] = IF f = "payments" /\ first.payments = <<>> THEN new.payments ELSE first[f]
  BY DEF Financed
<1>4. {"store", "sound"} \subseteq Fields \ FinancialFields
  BY DEF Fields, FinancialFields
<1> HIDE DEF raw
<1>5. raw.store = first.store /\ raw.sound = first.sound
  BY <1>3, <1>4
<1>6. ASSUME ~Completes(first, new), NEW f \in Fields PROVE raw[f] = first[f]
  <2>1. CASE f \in FinancialFields
    BY <1>2, <1>6, <2>1 DEF Completes
  <2>2. CASE f \notin FinancialFields
    <3>1. first.payments = <<>> => new.payments = <<>>
      BY <1>6 DEF Completes
    <3> QED BY <1>3, <2>2, <3>1
  <2> QED BY <2>1, <2>2
<1>7. Keeps(raw, first)
  BY <1>2 DEF Keeps
<1> QED BY <1>1, <1>5, <1>6, <1>7 DEF raw

(* Who is read again keeps its finances and is for a human; its store changes only if
   it was at odds with itself and the other is not.                          *)
LEMMA IdentifiedIs ==
  ASSUME NEW raw, DOMAIN raw = Fields, NEW new, new.sound => new.store # None
  PROVE  LET read == Reviewed(Identified(raw, new)) IN
         /\ DOMAIN read = Fields /\ read.status = "NEEDS_REVIEW"
         /\ \A f \in FinancialFields : read[f] = raw[f]
         /\ read.store # raw.store => ~raw.sound
<1> DEFINE met == Identified(raw, new)
           read == Reviewed(met)
           changed == {"store", "warnings", "status", "verification"}
<1>1. Same(met, raw, changed) /\ (met.store # raw.store => ~raw.sound)
  <2>1. CASE Conflicts(raw, new)
    <3>1. met = InConflict(raw)
      BY <2>1 DEF Identified
    <3>2. Same(InConflict(raw), raw, {"warnings", "status", "verification"}) /\ InConflict(raw).store = raw.store
      BY DEF InConflict, Warned, Same, Fields
    <3> QED BY <3>1, <3>2 DEF Same
  <2>2. CASE ~Conflicts(raw, new)
    <3>1. met = [raw EXCEPT !.store = IF new.sound THEN new.store ELSE @,
                            !.verification = "SOURCE_REGION_MODEL_REREAD"]
      BY <2>2 DEF Identified
    <3>2. Same(met, raw, changed) /\ met.store = IF new.sound THEN new.store ELSE raw.store
      BY <3>1 DEF Same, Fields
    <3> QED BY <2>2, <3>2 DEF Conflicts
  <2> QED BY <2>1, <2>2
<1> HIDE DEF met
<1>2. DOMAIN met = Fields /\ \A f \in FinancialFields : met[f] = raw[f]
  BY <1>1, SameKeeps
<1>3. Same(read, met, {"warnings", "status"}) /\ read.status = "NEEDS_REVIEW"
  BY <1>2 DEF Reviewed, Warned, Same, Fields
<1> HIDE DEF read
<1>4. DOMAIN read = Fields /\ read.store = met.store /\ \A f \in FinancialFields : read[f] = met[f]
  BY <1>3, SameKeeps
<1> QED BY <1>1, <1>2, <1>3, <1>4 DEF met, read

Again(first, new) == IdentityNeeded(first) \/ (FinancialNeeded(first) /\ Completes(first, new))
LEMMA MergedDerived ==
  ASSUME NEW first, IsReading(first), Planned(first), NEW new, IsReading(new)
  PROVE  Derived(first, Merged(first, new), TRUE, Again(first, new))
<1> DEFINE financed == IF FinancialNeeded(first) THEN Financed(first, new) ELSE first
           raw == Merged(first, new)
<1>0. DOMAIN first = Fields /\ (new.sound => new.store # None)
  BY DEF IsReading
<1>1. /\ DOMAIN financed = Fields /\ Keeps(financed, first)
      /\ financed.store = first.store /\ financed.sound = first.sound
  BY <1>0, FinancedIs DEF Keeps
<1>2. CASE IdentityNeeded(first)
  <2>1. raw = Reviewed(Identified(financed, new))
    BY <1>2 DEF Merged
  <2> HIDE DEF financed, raw
  <2>2. /\ DOMAIN raw = Fields /\ raw.status = "NEEDS_REVIEW"
        /\ \A f \in FinancialFields : raw[f] = financed[f]
        /\ raw.store # financed.store => ~financed.sound
    BY <1>0, <1>1, <2>1, IdentifiedIs
  <2>3. Keeps(raw, first)
    BY <1>1, <2>2 DEF Keeps
  <2> QED BY <1>1, <2>2, <2>3 DEF Derived, NotReady, raw
<1>3. CASE ~IdentityNeeded(first)
  <2>1. FinancialNeeded(first) /\ raw = Financed(first, new)
    BY <1>3 DEF Merged, Planned
  <2>2. Again(first, new) \/ AsRead(raw, first)
    BY <1>0, <2>1, FinancedIs DEF Again, AsRead
  <2> HIDE DEF raw
  <2>3. DOMAIN raw = Fields /\ Keeps(raw, first) /\ raw.store = first.store
    BY <1>1, <2>1
  <2>4. Sure(first, raw, TRUE, Again(first, new))
    BY <1>3, <2>2 DEF Sure
  <2> QED BY <2>3, <2>4 DEF Derived, raw
<1> QED BY <1>2, <1>3
-----------------------------------------------------------------------------
(* The steps of the analysis, but for the merge and the validation.          *)
LEMMA ReadingIs ==
  ASSUME ReadingAssumption, AnalysisShape
  PROVE  /\ Len(reading) \in Nat /\ DOMAIN reading = 1 .. Len(reading) /\ DOMAIN items = 1 .. Len(reading)
         /\ \A i \in 1 .. Len(reading) : reading[i] = Malformed \/ IsReading(reading[i])
<1>1. Len(reading) \in Nat /\ DOMAIN reading = 1 .. Len(reading)
  BY LenProperties DEF AnalysisShape
<1>2. \A i \in 1 .. Len(reading) : reading[i] \in Raws
  BY ElementOfSeq DEF AnalysisShape
<1>3. DOMAIN items = 1 .. Len(reading)
  BY DEF AnalysisShape
<1> QED BY <1>1, <1>2, <1>3 DEF ReadingAssumption

LEMMA CallsAreFew ==
  ASSUME ReadingAssumption, AnalysisShape, CallsFit
  PROVE  IsFiniteSet(DOMAIN calls) /\ IsFiniteSet(Unstarted) /\ Cardinality(Unstarted) \in Nat
<1>1. IsFiniteSet(DOMAIN calls)
  <2>1. DOMAIN calls = {} \/ DOMAIN calls = {0} \/ DOMAIN calls \in SUBSET Regions(reading)
    BY DEF CallsFit
  <2>2. IsFiniteSet(Regions(reading))
    BY FewRegions DEF AnalysisShape
  <2> QED BY <2>1, <2>2, FS_EmptySet, FS_Singleton, FS_Subset
<1>2. Unstarted \in SUBSET DOMAIN calls
  BY DEF Unstarted
<1> QED BY <1>1, <1>2, FS_Subset, FS_CardinalityType

LEMMA AnalysisInitially == ASSUME ReadingAssumption, AnalysisInit PROVE AnalysisIInv
<1>0. <<>> \in Seq(Raws) /\ Len(<<>>) = 0 /\ DOMAIN <<>> = {}
  BY EmptySeq
<1>1. AnalysisShape
  <2>1. items = [i \in 1 .. Len(reading) |-> items[i]]
    BY <1>0 DEF AnalysisInit
  <2> QED BY <1>0, <2>1 DEF AnalysisInit, AnalysisShape, AnalysisStages, ResolvedMode
<1>2. CallsFit /\ Unstarted = {}
  BY DEF AnalysisInit, CallsFit, Unstarted, NoCalls
<1>3. WithinBudget
  BY <1>2, FS_EmptySet DEF AnalysisInit, WithinBudget, Budget
<1>4. ItemsFit /\ AnswerFits
  BY DEF AnalysisInit, ItemsFit, AnswerFits, Answered
<1> QED BY <1>1, <1>2, <1>3, <1>4 DEF AnalysisIInv

(* When all calls are over nothing is to be started.                         *)
LEMMA NothingToStart ==
  ASSUME \A i \in DOMAIN calls : calls[i].is \in Failures \cup {"answered"}
  PROVE  Unstarted = {} /\ Cardinality(Unstarted) = 0
<1>1. Unstarted = {}
  BY DEF Unstarted, Failures
<1> QED BY <1>1, FS_EmptySet

LEMMA BeforeTheCalls ==
  ASSUME ReadingAssumption, AnalysisIInv, Refuse \/ Start \/ Preview
  PROVE  AnalysisIInv'
<1>1. AnalysisShape'
  BY DEF AnalysisIInv, AnalysisShape, AnalysisStages, Refuse, Start, Preview, VisionFails
<1>2. CallsFit'
  <2>1. CASE Refuse \/ Start \/ (Preview /\ VisionFails)
    <3>1. DOMAIN calls = {} /\ calls' = calls
      BY <2>1 DEF AnalysisIInv, CallsFit, Refuse, Start, Preview, VisionFails
    <3>2. stage' \in {"refused", "ocr", "preview", "done"}
      BY <2>1 DEF Refuse, Start, Preview, VisionFails
    <3> QED BY <3>1, <3>2 DEF CallsFit
  <2>2. CASE Preview /\ ~VisionFails
    <3>1. stage' = "whole" /\ calls' = [x \in {0} |-> Call("waiting", None)]
      BY <2>2 DEF Preview
    <3> QED BY <3>1 DEF CallsFit, Call
  <2> QED BY <2>1, <2>2
<1>3. WithinBudget'
  <2>1. stage \in {"start", "preview"} /\ DOMAIN calls = {} /\ attempts' = attempts
    BY DEF AnalysisIInv, CallsFit, Refuse, Start, Preview, VisionFails
  <2>2. attempts = 0
    BY <2>1, NothingToStart DEF AnalysisIInv, WithinBudget, Budget
  <2>3. CASE stage' = "whole"
    <3>1. calls' = [x \in {0} |-> Call("waiting", None)]
      BY <2>3 DEF Refuse, Start, Preview, VisionFails
    <3>2. Unstarted' = {0}
      BY <3>1 DEF Unstarted, Call
    <3>3. Cardinality(Unstarted') = 1
      BY <3>2, FS_Singleton
    <3> QED BY <2>1, <2>2, <2>3, <3>3 DEF WithinBudget, Budget
  <2>4. CASE stage' # "whole"
    <3>1. stage' \in {"refused", "ocr", "preview", "done"} /\ calls' = calls
      BY <2>4 DEF Refuse, Start, Preview, VisionFails
    <3>2. Cardinality(Unstarted') = 0
      BY <2>1, <3>1, NothingToStart DEF Unstarted
    <3>3. Budget' \in Nat
      BY <3>1 DEF Budget, ReadingAssumption
    <3> QED BY <2>1, <2>2, <3>2, <3>3 DEF WithinBudget
  <2> QED BY <2>3, <2>4
<1>4. ItemsFit'
  <2>1. reading = <<>> /\ reading' = <<>> /\ recovered' = recovered /\ DOMAIN reading = {}
    BY DEF AnalysisIInv, ItemsFit, Refuse, Start, Preview, VisionFails
  <2>2. stage' \in {"refused", "ocr", "preview", "done", "whole"}
    BY DEF Refuse, Start, Preview, VisionFails
  <2> QED BY <2>1, <2>2 DEF ItemsFit
<1>5. AnswerFits'
  <2>1. response.receipts = <<>> /\ reading' = <<>>
    BY DEF AnalysisIInv, ItemsFit, AnswerFits, Refuse, Start, Preview
  <2>2. response'.receipts = <<>>
    BY <2>1 DEF AnalysisIInv, AnalysisShape, Refuse, Start, Preview, VisionFails
  <2> QED BY <2>1, <2>2 DEF AnswerFits, Answered
<1> QED BY <1>1, <1>2, <1>3, <1>4, <1>5 DEF AnalysisIInv

LEMMA CallGoesOn ==
  ASSUME ReadingAssumption, AnalysisIInv, NEW i \in DOMAIN calls,
         CallStarts(i) \/ CallFails(i) \/ RegionAnswers(i)
  PROVE  AnalysisIInv'
<1>1. /\ UNCHANGED <<mode, stage, late, reading, items, recovered, response>>
      /\ stage \in {"whole", "crops"}
  <2>1. UNCHANGED <<mode, stage, late, reading, items, recovered, response>>
    BY DEF CallStarts, CallFails, RegionAnswers
  <2>2. calls[i].is \in {"waiting", "running"}
    BY DEF CallStarts, CallFails, RegionAnswers, Is, Failures
  <2>3. calls[i].is \notin Failures \cup {"answered"}
    BY <2>2 DEF Failures
  <2> QED BY <2>1, <2>3 DEF AnalysisIInv, CallsFit
<1>2. PICK call : /\ calls' = [calls EXCEPT ![i] = call] /\ call.is # "waiting"
                  /\ call.is = "answered" => stage = "crops" /\ call.raw \in Regional
  <2>1. CASE CallStarts(i)
    <3>1. calls' = [calls EXCEPT ![i] = Call("running", None)]
      BY <2>1 DEF CallStarts
    <3>2. Call("running", None).is = "running"
      BY DEF Call
    <3> QED BY <3>1, <3>2
  <2>2. CASE CallFails(i)
    <3>1. PICK how \in Failures : calls' = [calls EXCEPT ![i] = Call(how, None)]
      BY <2>2 DEF CallFails
    <3>2. Call(how, None).is = how /\ how \notin {"waiting", "answered"}
      BY <3>1 DEF Call, Failures
    <3> QED BY <3>1, <3>2
  <2>3. CASE RegionAnswers(i)
    <3>1. PICK raw \in Regional : calls' = [calls EXCEPT ![i] = Call("answered", raw)]
      BY <2>3 DEF RegionAnswers, Regional
    <3>2. Call("answered", raw).is = "answered" /\ Call("answered", raw).raw = raw /\ stage = "crops"
      BY <2>3 DEF Call, RegionAnswers
    <3> QED BY <3>1, <3>2
  <2> QED BY <2>1, <2>2, <2>3
<1>3. DOMAIN calls' = DOMAIN calls /\ calls'[i] = call
      /\ \A j \in DOMAIN calls : j # i => calls'[j] = calls[j]
  BY <1>2
<1>4. AnalysisShape'
  BY <1>1 DEF AnalysisIInv, AnalysisShape
<1>5. CallsFit'
  BY <1>1, <1>2, <1>3 DEF AnalysisIInv, CallsFit
<1>6. WithinBudget'
  <2>1. Unstarted' = Unstarted \ {i}
    BY <1>2, <1>3 DEF Unstarted
  <2>2. IsFiniteSet(Unstarted) /\ Cardinality(Unstarted) \in Nat
    BY CallsAreFew DEF AnalysisIInv
  <2>3. Cardinality(Unstarted') = IF i \in Unstarted THEN Cardinality(Unstarted) - 1 ELSE Cardinality(Unstarted)
    BY <2>1, <2>2, FS_RemoveElement
  <2>4. attempts' = attempts \/ (attempts' = attempts + 1 /\ i \in Unstarted)
    BY DEF CallStarts, CallFails, RegionAnswers, Is, Unstarted
  <2>5. Budget' = Budget /\ Budget \in Nat
    BY <1>1 DEF Budget, ReadingAssumption
  <2>6. attempts \in Nat /\ attempts + Cardinality(Unstarted) <= Budget
    BY DEF AnalysisIInv, WithinBudget
  <2>7. CASE i \in Unstarted
    <3>1. Cardinality(Unstarted') = Cardinality(Unstarted) - 1
      BY <2>3, <2>7
    <3> QED BY <2>2, <2>4, <2>5, <2>6, <3>1 DEF WithinBudget
  <2>8. CASE i \notin Unstarted
    <3>1. Cardinality(Unstarted') = Cardinality(Unstarted) /\ attempts' = attempts
      BY <2>3, <2>4, <2>8
    <3> QED BY <2>5, <2>6, <3>1 DEF WithinBudget
  <2> QED BY <2>7, <2>8
<1>7. ItemsFit'
  <2>1. stage' \notin {"validate", "done"}
    BY <1>1
  <2> QED BY <1>1, <2>1 DEF AnalysisIInv, ItemsFit
<1>8. AnswerFits'
  BY <1>1 DEF AnalysisIInv, AnswerFits, Answered
<1> QED BY <1>4, <1>5, <1>6, <1>7, <1>8 DEF AnalysisIInv

LEMMA WholeEnds ==
  ASSUME ReadingAssumption, AnalysisIInv, WholeAnswers \/ WholeFails
  PROVE  AnalysisIInv'
<1>1. /\ DOMAIN calls' = {} /\ attempts' = attempts /\ stage = "whole"
      /\ UNCHANGED <<mode, late, recovered>>
      /\ stage' \in {"recover", "ocr", "done"} /\ (stage' = "recover" <=> WholeAnswers)
  BY DEF WholeAnswers, WholeFails, VisionFails, NoCalls
<1>2. reading = <<>> /\ recovered = {} /\ response.receipts = <<>> /\ DOMAIN <<>> = {}
  BY <1>1 DEF AnalysisIInv, AnalysisShape, ItemsFit, AnswerFits
<1>3. AnalysisShape'
  <2>1. CASE WholeAnswers
    <3>1. reading' \in Seq(Raws) /\ items' = reading' /\ response' = response
      BY <2>1 DEF WholeAnswers, ReadingAssumption
    <3>2. items' = [i \in 1 .. Len(reading') |-> items'[i]]
      <4>1. reading' \in [1 .. Len(reading') -> Raws]
        BY <3>1, LenProperties
      <4> QED BY <3>1, <4>1
    <3> QED BY <1>1, <1>2, <3>1, <3>2 DEF AnalysisIInv, AnalysisShape, AnalysisStages
  <2>2. CASE WholeFails
    BY <1>1, <2>2 DEF AnalysisIInv, AnalysisShape, AnalysisStages, WholeFails, VisionFails
  <2> QED BY <2>1, <2>2
<1>4. CallsFit' /\ Unstarted' = {}
  BY <1>1 DEF CallsFit, Unstarted
<1>5. WithinBudget'
  <2>1. Cardinality(Unstarted) \in Nat /\ Cardinality(Unstarted') = 0
    BY <1>4, CallsAreFew, FS_EmptySet DEF AnalysisIInv
  <2>2. attempts \in Nat /\ attempts + Cardinality(Unstarted) <= 1
    BY <1>1 DEF AnalysisIInv, WithinBudget, Budget
  <2>3. Budget' \in Nat /\ Budget' >= 1
    BY <1>1 DEF Budget, ReadingAssumption
  <2> QED BY <1>1, <2>1, <2>2, <2>3 DEF WithinBudget
<1>6. ItemsFit'
  <2>1. stage' # "recover" => reading' = <<>> /\ DOMAIN reading' = {}
    BY <1>1, <1>2 DEF WholeAnswers, WholeFails
  <2>2. stage' = "recover" => items' = reading'
    BY <1>1 DEF WholeAnswers
  <2> QED BY <1>1, <1>2, <2>1, <2>2 DEF ItemsFit
<1>7. AnswerFits'
  <2>1. response'.receipts = <<>>
    BY <1>2 DEF AnalysisIInv, AnalysisShape, WholeAnswers, WholeFails, VisionFails
  <2>2. stage' = "done" => reading' = <<>>
    BY <1>1, <1>2 DEF WholeAnswers, WholeFails
  <2> QED BY <2>1, <2>2 DEF AnswerFits, Answered
<1> QED BY <1>3, <1>4, <1>5, <1>6, <1>7 DEF AnalysisIInv

LEMMA TextIsRecognised ==
  ASSUME ReadingAssumption, AnalysisIInv, OcrFails \/ OcrRefuses \/ OcrStructured \/ OcrRules
  PROVE  AnalysisIInv'
<1>1. /\ stage = "ocr" /\ stage' \in {"done", "refused"}
      /\ UNCHANGED <<mode, late, reading, items, calls, recovered>>
      /\ attempts' \in {attempts, attempts + 1}
  BY DEF OcrFails, OcrRefuses, OcrStructured, OcrRules
<1>2. reading = <<>> /\ DOMAIN reading = {} /\ DOMAIN calls = {} /\ response.receipts = <<>>
  BY <1>1 DEF AnalysisIInv, CallsFit, ItemsFit, AnswerFits
<1>3. /\ DOMAIN response' = DOMAIN response
      /\ stage' = "done" => response'.engine = "ocr"
      /\ stage' # "done" => response' = response
  BY DEF AnalysisIInv, AnalysisShape, OcrFails, OcrRefuses, OcrStructured, OcrRules, Responds
<1>4. AnalysisShape'
  BY <1>1, <1>3 DEF AnalysisIInv, AnalysisShape, AnalysisStages
<1>5. CallsFit'
  BY <1>1, <1>2 DEF CallsFit
<1>6. WithinBudget'
  <2>1. Cardinality(Unstarted) = 0 /\ Unstarted' = Unstarted
    BY <1>1, <1>2, NothingToStart DEF Unstarted
  <2>2. attempts \in Nat /\ attempts + 0 <= MaxCrops + 1
    BY <1>1, <2>1 DEF AnalysisIInv, WithinBudget, Budget
  <2>3. Budget' = MaxCrops + 2 /\ MaxCrops \in Nat
    BY <1>1 DEF Budget, ReadingAssumption
  <2>4. Cardinality(Unstarted') = 0
    BY <2>1
  <2>5. attempts' \in Nat /\ attempts' + 0 <= MaxCrops + 2
    <3>1. attempts \in Nat /\ attempts <= MaxCrops + 1 /\ MaxCrops \in Nat
      BY <2>2, <2>3
    <3>2. attempts' = attempts \/ attempts' = attempts + 1
      BY <1>1
    <3> QED BY <3>1, <3>2
  <2> QED BY <2>3, <2>4, <2>5 DEF WithinBudget
<1>7. ItemsFit' /\ AnswerFits'
  BY <1>1, <1>2, <1>3 DEF ItemsFit, AnswerFits, Answered
<1> QED BY <1>4, <1>5, <1>6, <1>7 DEF AnalysisIInv

LEMMA TimePasses ==
  ASSUME AnalysisIInv, Expires \/ UNCHANGED analysisVars
  PROVE  AnalysisIInv'
<1>1. late' \in BOOLEAN /\ UNCHANGED <<mode, stage, reading, items, calls, attempts, recovered, response>>
  BY DEF AnalysisIInv, AnalysisShape, Expires, analysisVars
<1>2. AnalysisShape'
  BY <1>1 DEF AnalysisIInv, AnalysisShape
<1>3. CallsFit' /\ WithinBudget'
  BY <1>1 DEF AnalysisIInv, CallsFit, WithinBudget, Budget, Unstarted
<1>4. ItemsFit'
  BY <1>1 DEF AnalysisIInv, ItemsFit, Reread
<1>5. AnswerFits'
  BY <1>1 DEF AnalysisIInv, AnswerFits, Answered, Flagged
<1> QED BY <1>2, <1>3, <1>4, <1>5 DEF AnalysisIInv

(* How many regions go before one.                                           *)
LEMMA EarlierCounts ==
  ASSUME NEW raws, NEW i \in Int PROVE Earlier(raws, i) \in Nat
<1>1. i - 1 \in Int /\ 1 \in Int
  OBVIOUS
<1>2. IsFiniteSet(1 .. i - 1)
  BY <1>1, FS_Interval
<1>3. IsFiniteSet({ j \in 1 .. i - 1 : Croppable(raws[j]) })
  BY <1>2, FS_Subset
<1> QED BY <1>3, FS_CardinalityType DEF Earlier

(* The recovery before its calls: what is planned is warned, or has its region.  *)
LEMMA PreparedDerived ==
  ASSUME ReadingAssumption, NEW raws \in Seq(Raws), NEW i \in DOMAIN raws, i \notin Regions(raws)
  PROVE  Derived(raws[i], Prepared(raws)[i], FALSE, FALSE)
<1>1. DOMAIN raws = 1 .. Len(raws) /\ (raws[i] = Malformed \/ IsReading(raws[i]))
  BY LenProperties DEF ReadingAssumption
<1>2. CASE raws[i] = Malformed
  <2>1. ~Planned(raws[i])
    BY <1>2, ObjectsAreItems DEF Planned
  <2>2. Prepared(raws)[i] = raws[i]
    BY <2>1 DEF Prepared
  <2> QED BY <1>2, <2>2 DEF Derived
<1>3. CASE IsReading(raws[i]) /\ ~Planned(raws[i])
  <2>1. Prepared(raws)[i] = raws[i]
    BY <1>3 DEF Prepared
  <2> QED BY <1>3, <2>1, UntouchedDerived
<1>4. CASE IsReading(raws[i]) /\ Planned(raws[i])
  <2>1. PICK warning \in {"REGION_RECOVERY_SKIPPED_LIMIT", "SOURCE_REGION_MISSING_OR_INVALID", "SOURCE_REGION_TOO_SMALL"} :
          Prepared(raws)[i] = Warned(raws[i], warning)
    <3>1. ~Croppable(raws[i]) \/ ~(Earlier(raws, i) < MaxCrops)
      BY DEF Regions
    <3>2. Earlier(raws, i) < MaxCrops \/ Earlier(raws, i) >= MaxCrops
      <4>1. i \in Int
        BY <1>1
      <4>2. Earlier(raws, i) \in Nat
        BY <4>1, EarlierCounts
      <4> QED BY <4>2 DEF ReadingAssumption
    <3>3. CASE Earlier(raws, i) >= MaxCrops
      BY <1>4, <3>3 DEF Prepared
    <3>4. CASE ~(Earlier(raws, i) >= MaxCrops) /\ raws[i].box = None
      BY <1>4, <3>4 DEF Prepared
    <3>5. CASE ~(Earlier(raws, i) >= MaxCrops) /\ raws[i].box # None
      <4>1. raws[i].box \in TinyBoxes
        BY <1>4, <3>1, <3>2, <3>5 DEF Croppable
      <4> QED BY <1>4, <3>5, <4>1 DEF Prepared
    <3> QED BY <3>3, <3>4, <3>5
  <2>2. warning # "REGION_RECOVERY_INVALID_RESPONSE"
    BY <2>1
  <2> QED BY <1>4, <2>1, <2>2, WarnedDerived
<1> QED BY <1>1, <1>2, <1>3, <1>4

LEMMA PreparedRegion ==
  ASSUME ReadingAssumption, NEW raws \in Seq(Raws), NEW i \in Regions(raws)
  PROVE  i \in DOMAIN raws /\ IsReading(raws[i]) /\ Planned(raws[i]) /\ Prepared(raws)[i] = raws[i]
<1>1. /\ DOMAIN raws = 1 .. Len(raws) /\ i \in DOMAIN raws
      /\ Croppable(raws[i]) /\ Earlier(raws, i) < MaxCrops
  BY LenProperties DEF Regions
<1>2. Planned(raws[i]) /\ raws[i].box # None /\ raws[i].box \notin TinyBoxes
  BY <1>1 DEF Croppable
<1>3. IsReading(raws[i])
  <2>1. raws[i] = Malformed \/ IsReading(raws[i])
    BY <1>1, LenProperties DEF ReadingAssumption
  <2> QED BY <1>2, <2>1, ObjectsAreItems DEF Planned
<1>4. ~(Earlier(raws, i) >= MaxCrops)
  <2>1. i \in Int
    BY <1>1
  <2>2. Earlier(raws, i) \in Nat
    BY <2>1, EarlierCounts
  <2> QED BY <1>1, <2>2 DEF ReadingAssumption
<1> QED BY <1>1, <1>2, <1>3, <1>4 DEF Prepared

LEMMA AllWarnedDerived ==
  ASSUME ReadingAssumption, NEW raws \in Seq(Raws), NEW i \in DOMAIN raws,
         NEW warning, warning # "REGION_RECOVERY_INVALID_RESPONSE"
  PROVE  Derived(raws[i], AllWarned(raws, warning)[i], FALSE, FALSE)
<1>1. raws[i] = Malformed \/ IsReading(raws[i])
  BY LenProperties DEF ReadingAssumption
<1>2. CASE ~Planned(raws[i])
  <2>1. AllWarned(raws, warning)[i] = raws[i]
    BY <1>2 DEF AllWarned
  <2>2. CASE raws[i] = Malformed
    BY <2>1, <2>2 DEF Derived
  <2>3. CASE IsReading(raws[i])
    BY <1>2, <2>1, <2>3, UntouchedDerived
  <2> QED BY <1>1, <2>2, <2>3
<1>3. CASE Planned(raws[i])
  <2>1. AllWarned(raws, warning)[i] = Warned(raws[i], warning)
    BY <1>3 DEF AllWarned
  <2>2. IsReading(raws[i])
    BY <1>1, <1>3, ObjectsAreItems DEF Planned
  <2> QED BY <1>3, <2>1, <2>2, WarnedDerived
<1> QED BY <1>2, <1>3

LEMMA RegionsAreWanted ==
  ASSUME ReadingAssumption, AnalysisIInv, Recover
  PROVE  AnalysisIInv'
<1> DEFINE n == Len(reading)
<1>1. /\ stage = "recover" /\ stage' \in {"validate", "crops"}
      /\ UNCHANGED <<mode, late, reading, attempts, recovered, response>>
  BY DEF Recover
<1>2. /\ items = reading /\ recovered = {} /\ DOMAIN calls = {} /\ response.receipts = <<>>
      /\ n \in Nat /\ DOMAIN reading = 1 .. n /\ reading \in Seq(Raws)
      /\ \A i \in 1 .. n : reading[i] = Malformed \/ IsReading(reading[i])
  BY <1>1, ReadingIs DEF AnalysisIInv, AnalysisShape, CallsFit, ItemsFit, AnswerFits
<1>3. /\ items' = [i \in 1 .. n |-> items'[i]]
      /\ stage' = "crops" => items' = Prepared(reading) /\ calls' = [i \in Regions(reading) |-> Call("waiting", None)]
      /\ stage' = "validate" => calls' = calls
      /\ stage' = "validate" => \A i \in 1 .. n : Derived(reading[i], items'[i], FALSE, FALSE)
  <2>1. CASE /\ reading = <<>> \/ MaxCrops = 0
             /\ items' = items /\ stage' = "validate" /\ calls' = calls
    <3>1. ASSUME NEW i \in 1 .. n PROVE Derived(reading[i], items'[i], FALSE, FALSE)
      <4>1. MaxCrops = 0 /\ items'[i] = reading[i]
        BY <1>2, <2>1, <3>1
      <4>2. CASE reading[i] = Malformed
        BY <4>1, <4>2 DEF Derived
      <4>3. CASE IsReading(reading[i])
        BY <4>1, <4>3, UntouchedDerived
      <4> QED BY <1>2, <4>2, <4>3
    <3>2. items' = [i \in 1 .. n |-> items'[i]]
      <4>1. reading \in [1 .. n -> Raws]
        BY <1>2, LenProperties
      <4> QED BY <1>2, <2>1, <4>1
    <3> QED BY <2>1, <3>1, <3>2
  <2>2. CASE /\ stage' = "validate" /\ calls' = calls
             /\ \E warning \in {"REGION_RECOVERY_SKIPPED_TIME_BUDGET", "REGION_RECOVERY_SOURCE_UNAVAILABLE"} :
                  items' = AllWarned(items, warning)
    <3>1. PICK warning \in {"REGION_RECOVERY_SKIPPED_TIME_BUDGET", "REGION_RECOVERY_SOURCE_UNAVAILABLE"} :
            items' = AllWarned(reading, warning)
      BY <1>2, <2>2
    <3>2. warning # "REGION_RECOVERY_INVALID_RESPONSE"
      BY <3>1
    <3>3. items' = [i \in 1 .. n |-> items'[i]]
      BY <1>2, <3>1 DEF AllWarned
    <3>4. \A i \in 1 .. n : Derived(reading[i], items'[i], FALSE, FALSE)
      BY <1>2, <3>1, <3>2, AllWarnedDerived
    <3> QED BY <2>2, <3>3, <3>4
  <2>3. CASE /\ stage' = "crops" /\ items' = Prepared(items)
             /\ calls' = [i \in Regions(items) |-> Call("waiting", None)]
    <3>1. items' = [i \in 1 .. n |-> items'[i]]
      BY <1>2, <2>3 DEF Prepared
    <3> QED BY <1>2, <2>3, <3>1
  <2>4. \/ reading = <<>> \/ MaxCrops = 0 \/ late
        \/ reading # <<>> /\ MaxCrops > 0
    BY DEF ReadingAssumption
  <2>5. \/ /\ reading = <<>> \/ MaxCrops = 0
           /\ items' = items /\ stage' = "validate" /\ calls' = calls
        \/ /\ stage' = "validate" /\ calls' = calls
           /\ \E warning \in {"REGION_RECOVERY_SKIPPED_TIME_BUDGET", "REGION_RECOVERY_SOURCE_UNAVAILABLE"} :
                items' = AllWarned(items, warning)
        \/ /\ stage' = "crops" /\ items' = Prepared(items)
           /\ calls' = [i \in Regions(items) |-> Call("waiting", None)]
    BY DEF Recover
  <2> QED BY <2>1, <2>2, <2>3, <2>5
<1>4. AnalysisShape'
  BY <1>1, <1>3 DEF AnalysisIInv, AnalysisShape, AnalysisStages
<1>5. CASE stage' = "validate"
  <2>1. CallsFit'
    BY <1>2, <1>3, <1>5 DEF CallsFit
  <2>2. WithinBudget'
    <3>1. Cardinality(Unstarted) = 0 /\ Unstarted' = {}
      BY <1>2, <1>3, <1>5, NothingToStart DEF Unstarted
    <3>2. attempts \in Nat /\ attempts + 0 <= 1
      BY <1>1, <3>1 DEF AnalysisIInv, WithinBudget, Budget
    <3>3. Budget' = MaxCrops + 1 /\ MaxCrops \in Nat
      BY <1>5 DEF Budget, ReadingAssumption
    <3>4. Cardinality(Unstarted') = 0
      BY <3>1, FS_EmptySet
    <3>5. attempts' = attempts /\ attempts + 0 <= MaxCrops + 1
      BY <1>1, <3>2, <3>3
    <3> QED BY <3>2, <3>3, <3>4, <3>5 DEF WithinBudget
  <2>3. ItemsFit'
    <3>1. \A i \in DOMAIN reading' : i \notin recovered' /\ Derived(reading[i], items'[i], FALSE, FALSE)
      BY <1>1, <1>2, <1>3, <1>5
    <3>2. \A i \in DOMAIN reading' : Derived(reading'[i], items'[i], Reread(i)', i \in recovered')
      <4> TAKE i \in DOMAIN reading'
      <4>1. Derived(reading'[i], items'[i], FALSE, FALSE)
        BY <1>1, <3>1
      <4> QED BY <4>1, WithoutItsRegion
    <3> QED BY <1>5, <3>2 DEF ItemsFit
  <2>4. AnswerFits'
    BY <1>1, <1>2, <1>5 DEF AnswerFits, Answered
  <2> QED BY <1>4, <2>1, <2>2, <2>3, <2>4 DEF AnalysisIInv
<1>6. CASE stage' = "crops"
  <2>1. IsFiniteSet(Regions(reading)) /\ Cardinality(Regions(reading)) <= MaxCrops
    BY <1>2, FewRegions
  <2>2. DOMAIN calls' = Regions(reading) /\ \A i \in DOMAIN calls' : calls'[i].is = "waiting"
    BY <1>3, <1>6 DEF Call
  <2>3. CallsFit'
    BY <1>1, <1>6, <2>2 DEF CallsFit
  <2>4. WithinBudget'
    <3>1. Unstarted' = Regions(reading)
      BY <2>2 DEF Unstarted
    <3>2. Cardinality(Unstarted') = Cardinality(Regions(reading)) /\ Cardinality(Regions(reading)) \in Nat
      BY <2>1, <3>1, FS_CardinalityType
    <3>3. Cardinality(Unstarted) = 0
      BY <1>2, NothingToStart
    <3>4. attempts \in Nat /\ attempts + 0 <= 1
      BY <1>1, <3>3 DEF AnalysisIInv, WithinBudget, Budget
    <3>5. Budget' = MaxCrops + 1 /\ MaxCrops \in Nat /\ attempts' = attempts
      BY <1>1, <1>6 DEF Budget, ReadingAssumption
    <3>6. attempts + Cardinality(Regions(reading)) <= MaxCrops + 1
      BY <2>1, <3>2, <3>4, <3>5
    <3> QED BY <3>2, <3>4, <3>5, <3>6 DEF WithinBudget
  <2>5. ItemsFit'
    BY <1>1, <1>2, <1>3, <1>6 DEF ItemsFit
  <2>6. AnswerFits'
    BY <1>1, <1>2, <1>6 DEF AnswerFits, Answered
  <2> QED BY <1>4, <2>3, <2>4, <2>5, <2>6 DEF AnalysisIInv
<1> QED BY <1>1, <1>5, <1>6
-----------------------------------------------------------------------------
(* The merge, the validation, and the whole of it.                           *)
LEMMA RegionDerived ==
  ASSUME ReadingAssumption, NEW first, IsReading(first), Planned(first), NEW call,
         call.is \in Failures \cup {"answered"}, call.is = "answered" => call.raw \in Regional
  PROVE  Derived(first, AfterRegion(first, call), Is(call, {"answered"}) /\ IsObject(call.raw),
                 Is(call, {"answered"}) /\ IsObject(call.raw) /\ Again(first, call.raw))
<1> DEFINE reread == Is(call, {"answered"}) /\ IsObject(call.raw)
           again == Is(call, {"answered"}) /\ IsObject(call.raw) /\ Again(first, call.raw)
<1>1. CASE Is(call, Failures)
  <2>1. AfterRegion(first, call) = Failed(first, WarningOf(call))
    BY <1>1 DEF AfterRegion
  <2> HIDE DEF again, reread
  <2>2. Derived(first, Failed(first, WarningOf(call)), reread, again)
    BY FailedDerived
  <2> QED BY <2>1, <2>2 DEF again, reread
<1>2. CASE ~Is(call, Failures) /\ ~IsObject(call.raw)
  <2>1. AfterRegion(first, call) = Failed(first, "REGION_RECOVERY_INVALID_RESPONSE")
    BY <1>2 DEF AfterRegion
  <2> HIDE DEF again, reread
  <2>2. Derived(first, Failed(first, "REGION_RECOVERY_INVALID_RESPONSE"), reread, again)
    BY FailedDerived
  <2> QED BY <2>1, <2>2 DEF again, reread
<1>3. CASE ~Is(call, Failures) /\ IsObject(call.raw)
  <2>1. AfterRegion(first, call) = Merged(first, call.raw)
    BY <1>3 DEF AfterRegion
  <2>2. call.is = "answered" /\ Is(call, {"answered"})
    BY <1>3 DEF Is
  <2>3. IsReading(call.raw)
    <3>1. call.raw \in Rereads \cup {Malformed} /\ call.raw # Malformed
      BY <1>3, <2>2, ObjectsAreItems DEF Regional
    <3> QED BY <3>1 DEF ReadingAssumption
  <2>4. Derived(first, Merged(first, call.raw), TRUE, Again(first, call.raw))
    BY <2>3, MergedDerived
  <2>5. reread /\ (again <=> Again(first, call.raw))
    BY <1>3, <2>2
  <2> HIDE DEF again, reread
  <2>6. Derived(first, Merged(first, call.raw), reread, again)
    BY <2>4, <2>5 DEF Derived, Sure
  <2> QED BY <2>1, <2>6 DEF again, reread
<1> QED BY <1>1, <1>2, <1>3

LEMMA RegionsAreMerged ==
  ASSUME ReadingAssumption, AnalysisIInv, Merge
  PROVE  AnalysisIInv'
<1> DEFINE n == Len(reading)
<1>1. /\ stage = "crops" /\ stage' = "validate"
      /\ UNCHANGED <<mode, late, reading, calls, attempts, response>>
      /\ \A i \in DOMAIN calls : calls[i].is \in Failures \cup {"answered"}
  BY DEF Merge, Gathered, Is
<1>2. /\ n \in Nat /\ DOMAIN reading = 1 .. n /\ DOMAIN items = 1 .. n /\ reading \in Seq(Raws)
      /\ items = Prepared(reading) /\ DOMAIN calls = Regions(reading) /\ response.receipts = <<>>
      /\ DOMAIN response = {"receipts", "engine", "fallback"}
  BY <1>1, ReadingIs DEF AnalysisIInv, AnalysisShape, CallsFit, ItemsFit, AnswerFits
<1>3. items' = [i \in 1 .. n |->
                 Annotated(IF i \in DOMAIN calls THEN AfterRegion(items[i], calls[i]) ELSE items[i])]
  BY <1>2 DEF Merge
<1>4. \A i \in DOMAIN calls :
        i \in recovered' <=> Is(calls[i], {"answered"}) /\ IsObject(calls[i].raw) /\ Again(items[i], calls[i].raw)
  BY DEF Merge, Again, Reread
<1>5. recovered' \subseteq DOMAIN calls
  BY DEF Merge
<1>6. ASSUME NEW i \in 1 .. n PROVE Derived(reading[i], items'[i], Reread(i), i \in recovered')
  <2>1. CASE i \in DOMAIN calls
    <3>1. IsReading(reading[i]) /\ Planned(reading[i]) /\ items[i] = reading[i]
      BY <1>2, <2>1, PreparedRegion
    <3>2. calls[i].is \in Failures \cup {"answered"} /\ (calls[i].is = "answered" => calls[i].raw \in Regional)
      BY <1>1, <2>1 DEF AnalysisIInv, CallsFit
    <3>3. Derived(reading[i], AfterRegion(reading[i], calls[i]), Is(calls[i], {"answered"}) /\ IsObject(calls[i].raw),
                  Is(calls[i], {"answered"}) /\ IsObject(calls[i].raw) /\ Again(reading[i], calls[i].raw))
      BY <3>1, <3>2, RegionDerived
    <3>4. Derived(reading[i], AfterRegion(reading[i], calls[i]), Reread(i), i \in recovered')
      <4>1. i \in recovered' <=> Is(calls[i], {"answered"}) /\ IsObject(calls[i].raw) /\ Again(reading[i], calls[i].raw)
        BY <1>4, <2>1, <3>1
      <4>2. Reread(i) <=> Is(calls[i], {"answered"}) /\ IsObject(calls[i].raw)
        BY <2>1 DEF Reread
      <4> QED BY <3>3, <4>1, <4>2 DEF Derived, Sure
    <3>5. items'[i] = Annotated(AfterRegion(reading[i], calls[i]))
      BY <1>3, <2>1, <3>1
    <3> QED BY <3>4, <3>5, AnnotatedDerived
  <2>2. CASE i \notin DOMAIN calls
    <3>1. Derived(reading[i], items[i], FALSE, FALSE)
      BY <1>2, <2>2, PreparedDerived
    <3>2. Derived(reading[i], Annotated(items[i]), FALSE, FALSE)
      BY <3>1, AnnotatedDerived
    <3>3. items'[i] = Annotated(items[i]) /\ i \notin recovered' /\ ~Reread(i)
      BY <1>3, <1>5, <2>2 DEF Reread
    <3> QED BY <3>2, <3>3 DEF Derived, Sure
  <2> QED BY <2>1, <2>2
<1>7. AnalysisShape'
  <2>1. items' = [i \in 1 .. n |-> items'[i]]
    BY <1>3
  <2>2. recovered' \subseteq DOMAIN reading
    BY <1>2, <1>5, FewRegions
  <2> QED BY <1>1, <1>2, <2>1, <2>2 DEF AnalysisIInv, AnalysisShape, AnalysisStages
<1>8. CallsFit' /\ Unstarted' = {} /\ Cardinality(Unstarted') = 0
  <2>1. CallsFit'
    BY <1>1, <1>2 DEF AnalysisIInv, CallsFit
  <2>2. Unstarted' = Unstarted
    BY <1>1 DEF Unstarted
  <2> QED BY <1>1, <2>1, <2>2, NothingToStart
<1>9. WithinBudget'
  <2>1. Cardinality(Unstarted) \in Nat /\ Cardinality(Unstarted') = 0
    BY <1>8, CallsAreFew DEF AnalysisIInv
  <2>2. attempts \in Nat /\ attempts + Cardinality(Unstarted) <= MaxCrops + 1
    BY <1>1 DEF AnalysisIInv, WithinBudget, Budget
  <2>3. Budget' = MaxCrops + 1 /\ MaxCrops \in Nat /\ attempts' = attempts
    BY <1>1 DEF Budget, ReadingAssumption
  <2>4. attempts + 0 <= MaxCrops + 1
    BY <2>1, <2>2, <2>3
  <2> QED BY <2>1, <2>2, <2>3, <2>4 DEF WithinBudget
<1>10. ItemsFit'
  <2>0. \A i : Reread(i)' = Reread(i)
    BY <1>1 DEF Reread
  <2>1. \A i \in DOMAIN reading' : Derived(reading'[i], items'[i], Reread(i)', i \in recovered')
    BY <1>1, <1>2, <1>6, <2>0
  <2> QED BY <1>1, <2>1 DEF ItemsFit
<1>11. AnswerFits'
  BY <1>1, <1>2 DEF AnswerFits, Answered
<1> QED BY <1>7, <1>8, <1>9, <1>10, <1>11 DEF AnalysisIInv

LEMMA ItemsAreAnswered ==
  ASSUME ReadingAssumption, AnalysisIInv, Validate
  PROVE  AnalysisIInv'
<1> DEFINE n == Len(reading)
<1>1. /\ stage = "validate" /\ stage' \in {"ocr", "done"}
      /\ UNCHANGED <<mode, late, reading, items, calls, attempts, recovered>>
      /\ DOMAIN response = {"receipts", "engine", "fallback"} /\ response.receipts = <<>>
  BY DEF Validate, AnalysisIInv, AnalysisShape, AnswerFits
<1>2. n \in Nat /\ items = [i \in 1 .. n |-> items[i]] /\ DOMAIN reading = 1 .. n
      /\ \A i \in DOMAIN calls : calls[i].is \in Failures \cup {"answered"}
  BY <1>1, ReadingIs DEF AnalysisIInv, AnalysisShape, CallsFit
<1>3. \/ /\ stage' = "ocr" /\ response' = [response EXCEPT !.fallback = TRUE]
         /\ ValidateResponse(items) = <<>>
      \/ stage' = "done" /\ response' = [response EXCEPT !.receipts = Flagged(ValidateResponse(items)), !.engine = "vision"]
  BY DEF Validate, Responds
<1>4. reading # <<>> => n > 0
  <2>1. reading \in Seq(Raws)
    BY DEF AnalysisIInv, AnalysisShape
  <2> QED BY <1>2, <2>1, EmptySeq
<1>5. n > 0 => ValidateResponse(items) # <<>> /\ AnswerOf(items) # <<>>
  BY <1>2, AnswerIs, ReceiptsAre
<1>6. AnalysisShape'
  BY <1>1, <1>3 DEF AnalysisIInv, AnalysisShape, AnalysisStages
<1>7. CallsFit'
  <2>1. stage' = "ocr" => DOMAIN calls = {}
    <3>1. stage' = "ocr" => n = 0 /\ reading \in Seq(Raws)
      BY <1>2, <1>3, <1>5 DEF AnalysisIInv, AnalysisShape
    <3>2. Regions(reading) \subseteq 1 .. n
      BY FewRegions DEF AnalysisIInv, AnalysisShape
    <3>3. DOMAIN calls \subseteq Regions(reading)
      BY <1>1 DEF AnalysisIInv, CallsFit
    <3> HIDE DEF n
    <3>4. n = 0 => 1 .. n = {}
      OBVIOUS
    <3> QED BY <3>1, <3>2, <3>3, <3>4
  <2>2. \A i \in DOMAIN calls : calls[i].is = "answered" => calls[i].raw \in Regional
    BY DEF AnalysisIInv, CallsFit
  <2>3. stage' = "done" => DOMAIN calls \subseteq Regions(reading)
    BY <1>1 DEF AnalysisIInv, CallsFit
  <2> QED BY <1>1, <1>2, <2>1, <2>2, <2>3 DEF CallsFit
<1>8. WithinBudget'
  <2>1. Cardinality(Unstarted) = 0 /\ Unstarted' = Unstarted
    BY <1>1, <1>2, NothingToStart DEF Unstarted
  <2>2. attempts \in Nat /\ attempts + 0 <= MaxCrops + 1
    BY <1>1, <2>1 DEF AnalysisIInv, WithinBudget, Budget
  <2>3. Budget' \in {MaxCrops + 1, MaxCrops + 2} /\ MaxCrops \in Nat
    BY <1>1 DEF Budget, ReadingAssumption
  <2>4. Cardinality(Unstarted') = 0 /\ attempts' = attempts
    BY <1>1, <2>1
  <2>5. attempts + 0 <= MaxCrops + 1 /\ attempts + 0 <= MaxCrops + 2
    BY <2>2, <2>3
  <2> QED BY <2>2, <2>3, <2>4, <2>5 DEF WithinBudget
<1>9. ItemsFit'
  <2>1. stage' = "ocr" => reading = <<>>
    BY <1>3, <1>4, <1>5
  <2>2. \A i \in DOMAIN reading : Derived(reading[i], items[i], Reread(i), i \in recovered)
    BY <1>1 DEF AnalysisIInv, ItemsFit
  <2>3. \A i : Reread(i)' = Reread(i)
    BY <1>1 DEF Reread
  <2> QED BY <1>1, <2>1, <2>2, <2>3 DEF ItemsFit
<1>10. AnswerFits'
  <2>1. CASE stage' = "ocr"
    BY <1>1, <1>3, <2>1 DEF AnswerFits, Answered
  <2>2. CASE stage' = "done"
    <3>1. response'.receipts = Flagged(ValidateResponse(items)) /\ response'.engine = "vision"
      BY <1>1, <1>3, <2>2
    <3>2. Flagged(ValidateResponse(items))' = Flagged(ValidateResponse(items))
      BY <1>1 DEF Flagged
    <3>3. reading # <<>> => Flagged(ValidateResponse(items)) # <<>>
      BY <1>4, <1>5 DEF AnswerOf
    <3> QED BY <1>1, <2>2, <3>1, <3>2, <3>3 DEF AnswerFits, Answered
  <2> QED BY <1>1, <2>1, <2>2
<1> QED BY <1>6, <1>7, <1>8, <1>9, <1>10 DEF AnalysisIInv

LEMMA AnalysisStep ==
  ASSUME ReadingAssumption, AnalysisIInv, [AnalysisNext]_analysisVars
  PROVE  AnalysisIInv'
<1>1. CASE Expires \/ UNCHANGED analysisVars
  BY <1>1, TimePasses
<1>2. CASE Refuse \/ Start \/ Preview
  BY <1>2, BeforeTheCalls
<1>3. CASE WholeAnswers \/ WholeFails
  BY <1>3, WholeEnds
<1>4. CASE Recover
  BY <1>4, RegionsAreWanted
<1>5. CASE Merge
  BY <1>5, RegionsAreMerged
<1>6. CASE Validate
  BY <1>6, ItemsAreAnswered
<1>7. CASE OcrFails \/ OcrRefuses \/ OcrStructured \/ OcrRules
  BY <1>7, TextIsRecognised
<1>8. CASE CallsGoOn
  <2>1. PICK i \in DOMAIN calls : CallStarts(i) \/ CallFails(i) \/ RegionAnswers(i)
    BY <1>8 DEF CallsGoOn
  <2> QED BY <2>1, CallGoesOn
<1> QED BY <1>1, <1>2, <1>3, <1>4, <1>5, <1>6, <1>7, <1>8 DEF AnalysisNext, AnalysisSteps

(* What an answer says of an item turns on its facts.                        *)
LEMMA AsReadIsTheSame ==
  ASSUME NEW first, DOMAIN first = Fields, NEW raw, DOMAIN raw = Fields, NEW id, AsRead(raw, first)
  PROVE  /\ Facts(ValidateItem(raw, id)) = Facts(ValidateItem(first, id))
         /\ ValidateItem(raw, id).status = ValidateItem(first, id).status
<1>1. /\ \A f \in FinancialFields : raw[f] = first[f]
      /\ raw.store = first.store /\ raw.payments = first.payments /\ raw.status = first.status
      /\ raw.warnings = first.warnings /\ raw.doubted = first.doubted
  BY DEF AsRead, Fields, FinancialFields
<1>2. /\ raw.purchase_total = first.purchase_total /\ raw.original_amount = first.original_amount
      /\ raw.cash_tendered = first.cash_tendered /\ raw.change = first.change
      /\ raw.detected_currency_code = first.detected_currency_code
      /\ raw.currency_evidence = first.currency_evidence /\ raw.currency_confidence = first.currency_confidence
      /\ raw.transaction_date = first.transaction_date /\ raw.transaction_time = first.transaction_time
      /\ raw.source_date = first.source_date /\ raw.source_time = first.source_time
      /\ raw.date_order = first.date_order /\ raw.date_order_evidence = first.date_order_evidence
      /\ raw.detected_language = first.detected_language
  BY <1>1 DEF FinancialFields
<1>3. CurrencyOf(raw) = CurrencyOf(first)
  BY <1>2 DEF CurrencyOf
<1>4. Total(raw) = Total(first)
  BY <1>2, <1>3 DEF Total
<1>5. OrderOf(raw) = OrderOf(first)
  BY <1>2, <1>3 DEF OrderOf, StatedOrder, Turkish
<1>6. DateOf(raw) = DateOf(first)
  BY <1>2, <1>5 DEF DateOf, DateIn
<1>7. Booking(raw) = Booking(first)
  BY <1>1, <1>2, <1>3, <1>4 DEF Booking
<1>8. Unreadable(raw) <=> Unreadable(first)
  BY <1>1, <1>4, <1>6 DEF Unreadable
<1>9. TimeDoubted(raw) <=> TimeDoubted(first)
  BY <1>2 DEF TimeDoubted
<1>10. Understood(raw) <=> Understood(first)
  BY <1>1, <1>3, <1>4, <1>6, <1>9 DEF Understood
<1>11. MayBeReady(raw) <=> MayBeReady(first)
  BY <1>1, <1>7, <1>10 DEF MayBeReady, KeptWarnings
<1>12. StatusOf(raw) = StatusOf(first)
  BY <1>8, <1>11 DEF StatusOf
<1>13. IsObject(raw) /\ IsObject(first)
  BY ObjectsAreItems
<1>14. /\ ValidateItem(raw, id).store = ValidateItem(first, id).store
       /\ ValidateItem(raw, id).currency = ValidateItem(first, id).currency
       /\ ValidateItem(raw, id).date = ValidateItem(first, id).date
       /\ ValidateItem(raw, id).amount = ValidateItem(first, id).amount
       /\ ValidateItem(raw, id).status = ValidateItem(first, id).status
  BY <1>1, <1>3, <1>6, <1>7, <1>8, <1>12, <1>13, ItemHas
<1> QED BY <1>14 DEF Facts

(* The currency that was read is kept, or no longer sure.                    *)
LEMMA CurrencyStands ==
  ASSUME NEW first, NEW raw, Keeps(raw, first), CurrencyOf(first) # None
  PROVE  CurrencyOf(raw) \in {CurrencyOf(first), None}
<1>1. /\ first.detected_currency_code # None
      /\ CurrencyOf(first) = NormalizeCurrency(first.detected_currency_code)
  BY DEF CurrencyOf, NormalizeCurrency
<1>2. raw.detected_currency_code = first.detected_currency_code
  BY <1>1 DEF Keeps, FinancialFields
<1> QED BY <1>1, <1>2 DEF CurrencyOf

(* A date that can be read without its order is the same with one, or not one. *)
LEMMA OrderDoesNotMatter ==
  ASSUME ReadingAssumption, NEW text, NEW order, ReadDate(text, None) # None
  PROVE  ReadDate(text, order) \in {ReadDate(text, None), None}
<1>0. None # "DMY" /\ None # "MDY"
  BY DEF ReadingAssumption
<1>1. CASE text.form # "numeric"
  BY <1>1 DEF ReadDate
<1>2. CASE text.form = "numeric" /\ text.first > 12
  BY <1>2 DEF ReadDate
<1>3. CASE text.form = "numeric" /\ ~(text.first > 12)
  <2>1. text.second > 12 \/ text.first = text.second
    BY <1>0, <1>3 DEF ReadDate
  <2>2. ReadDate(text, None) = Valid(text.first, text.second)
    BY <1>0, <1>3, <2>1 DEF ReadDate
  <2>3. ReadDate(text, order) = IF order = "DMY" THEN Valid(text.second, text.first) ELSE Valid(text.first, text.second)
    BY <1>3, <2>1 DEF ReadDate
  <2>4. CASE text.second > 12
    <3>1. Valid(text.second, text.first) = None
      BY <2>4 DEF Valid
    <3> QED BY <2>2, <2>3, <3>1
  <2>5. CASE text.first = text.second
    BY <2>2, <2>3, <2>5
  <2> QED BY <2>1, <2>4, <2>5
<1> QED BY <1>1, <1>2, <1>3

(* The date that was read as it is printed is kept, or no longer sure.       *)
LEMMA PrintedDateStands ==
  ASSUME ReadingAssumption, NEW first, NEW raw, Keeps(raw, first), PrintedDate(first) # None
  PROVE  DateOf(raw) \in {PrintedDate(first), None}
<1>1. Text(first.source_date) # None /\ PrintedDate(first) = DateIn(first, StatedOrder(first))
  BY DEF PrintedDate
<1>2. \A f \in FinancialFields : Text(first[f]) # None => raw[f] = first[f]
  BY DEF Keeps, Text
<1>3. /\ raw.source_date = first.source_date
      /\ Text(first.transaction_date) # None => raw.transaction_date = first.transaction_date
      /\ Text(first.date_order) # None => raw.date_order = first.date_order
      /\ Text(first.date_order_evidence) # None => raw.date_order_evidence = first.date_order_evidence
  BY <1>1, <1>2 DEF FinancialFields
<1>4. CASE first.source_date.form = "named"
  <2>1. PrintedDate(first) = NormalizeDate(first.transaction_date, None)
    BY <1>1, <1>4 DEF DateIn
  <2>2. Text(first.transaction_date) # None
    BY <2>1 DEF NormalizeDate
  <2>3. DateOf(raw) = NormalizeDate(raw.transaction_date, None)
    BY <1>1, <1>3, <1>4 DEF DateOf, DateIn
  <2> QED BY <1>3, <2>1, <2>2, <2>3
<1>5. CASE first.source_date.form # "named"
  <2>1. PrintedDate(first) = ReadDate(first.source_date, StatedOrder(first))
    BY <1>1, <1>5 DEF DateIn
  <2>2. DateOf(raw) = ReadDate(first.source_date, OrderOf(raw))
    BY <1>1, <1>3, <1>5 DEF DateOf, DateIn
  <2>3. CASE StatedOrder(first) = None
    BY <2>1, <2>2, <2>3, OrderDoesNotMatter
  <2>4. CASE StatedOrder(first) # None
    <3>1. StatedOrder(raw) = StatedOrder(first)
      BY <1>3, <2>4 DEF StatedOrder
    <3>2. OrderOf(raw) = StatedOrder(first)
      BY <2>4, <3>1 DEF OrderOf
    <3> QED BY <2>1, <2>2, <3>2
  <2> QED BY <2>3, <2>4
<1> QED BY <1>4, <1>5

(* A receipt of the answer, and the item that was read first.                *)
LEMMA AnswerFollowsTheReading ==
  ASSUME ReadingAssumption, AnalysisIInv, Answered, NEW k \in DOMAIN response.receipts
  PROVE  /\ Receipt(k).id \in 1 .. Len(reading)
         /\ IsAnswerOf(Receipt(k), items)
         /\ Derived(FirstOf(k), items[Receipt(k).id], Reread(Receipt(k).id), Receipt(k).id \in recovered)
<1>1. /\ Len(reading) \in Nat /\ DOMAIN reading = 1 .. Len(reading)
      /\ items = [i \in 1 .. Len(reading) |-> items[i]]
  BY ReadingIs DEF AnalysisIInv, AnalysisShape
<1>2. response.receipts = AnswerOf(items)
  BY DEF AnalysisIInv, AnswerFits, AnswerOf
<1>3. Receipt(k).id \in 1 .. Len(reading) /\ IsAnswerOf(Receipt(k), items)
  BY <1>1, <1>2, AnswerIs DEF Receipt
<1>4. \A i \in DOMAIN reading : Derived(reading[i], items[i], Reread(i), i \in recovered)
  BY DEF AnalysisIInv, ItemsFit, Answered
<1> QED BY <1>1, <1>3, <1>4 DEF FirstOf

LEMMA ReceiptHas ==
  ASSUME NEW receipt, NEW raws, IsAnswerOf(receipt, raws)
  PROVE  /\ Facts(receipt) = Facts(ValidateItem(raws[receipt.id], receipt.id))
         /\ IsObject(raws[receipt.id]) =>
              /\ receipt.store = raws[receipt.id].store
              /\ receipt.currency = CurrencyOf(raws[receipt.id])
              /\ receipt.date = DateOf(raws[receipt.id])
              /\ receipt.total = Total(raws[receipt.id])
         /\ receipt.status = "READY" =>
              /\ IsObject(raws[receipt.id]) /\ ~NotReady(raws[receipt.id])
              /\ ValidateItem(raws[receipt.id], receipt.id).status = "READY"
<1> DEFINE raw == raws[receipt.id]
           item == ValidateItem(raw, receipt.id)
<1>1. SameReceipt(receipt, item) /\ (receipt.status = "READY" => item.status = "READY")
  BY DEF IsAnswerOf
<1>2. receipt.store = item.store /\ receipt.amount = item.amount /\ receipt.currency = item.currency
      /\ receipt.date = item.date /\ receipt.total = item.total
  BY <1>1 DEF SameReceipt, ReceiptFields
<1>3. item.status = "READY" => IsObject(raw) /\ MayBeReady(raw)
  BY ItemHas
<1>4. item.status = "READY" => ~NotReady(raw)
  BY <1>3 DEF MayBeReady, NotReady
<1>5. IsObject(raw) => /\ item.store = raw.store /\ item.currency = CurrencyOf(raw)
                       /\ item.date = DateOf(raw) /\ item.total = Total(raw)
  BY ItemHas
<1> HIDE DEF item
<1> QED BY <1>1, <1>2, <1>3, <1>4, <1>5 DEF Facts, item

LEMMA FirstReadingKept ==
  ASSUME ReadingAssumption, AnalysisIInv PROVE FirstReadingStands
<1>1. SUFFICES ASSUME Answered, NEW k \in DOMAIN response.receipts, IsObject(FirstOf(k))
               PROVE  /\ CurrencyOf(FirstOf(k)) # None => Receipt(k).currency \in {CurrencyOf(FirstOf(k)), None}
                      /\ PrintedDate(FirstOf(k)) # None => Receipt(k).date \in {PrintedDate(FirstOf(k)), None}
                      /\ FirstOf(k).purchase_total # None =>
                           Receipt(k).total = NormalizeAmount(FirstOf(k).purchase_total, Receipt(k).currency)
                      /\ FirstOf(k).store # Receipt(k).store => Receipt(k).status # "READY" /\ ~FirstOf(k).sound
  BY DEF FirstReadingStands
<1> DEFINE raw == items[Receipt(k).id]
           first == FirstOf(k)
           receipt == Receipt(k)
<1>2. IsAnswerOf(receipt, items) /\ Derived(first, raw, Reread(receipt.id), receipt.id \in recovered)
  BY <1>1, AnswerFollowsTheReading
<1>3. /\ DOMAIN raw = Fields /\ Keeps(raw, first)
      /\ raw.store # first.store => raw.status = "NEEDS_REVIEW" /\ ~first.sound
  BY <1>1, <1>2, ObjectsAreItems DEF Derived
<1>4. IsObject(raw)
  BY <1>3, ObjectsAreItems
<1>5. /\ receipt.store = raw.store /\ receipt.currency = CurrencyOf(raw)
      /\ receipt.date = DateOf(raw) /\ receipt.total = Total(raw)
      /\ receipt.status = "READY" => ~NotReady(raw)
  BY <1>2, <1>4, ReceiptHas
<1> HIDE DEF raw, first, receipt
<1>6. CurrencyOf(first) # None => receipt.currency \in {CurrencyOf(first), None}
  BY <1>3, <1>5, CurrencyStands
<1>7. PrintedDate(first) # None => receipt.date \in {PrintedDate(first), None}
  BY <1>3, <1>5, PrintedDateStands
<1>8. first.purchase_total # None => receipt.total = NormalizeAmount(first.purchase_total, receipt.currency)
  <2>1. first.purchase_total # None => raw.purchase_total = first.purchase_total
    BY <1>3 DEF Keeps, FinancialFields
  <2> QED BY <1>5, <2>1 DEF Total
<1>9. first.store # receipt.store => receipt.status # "READY" /\ ~first.sound
  BY <1>3, <1>5 DEF NotReady
<1> QED BY <1>6, <1>7, <1>8, <1>9 DEF first, receipt

LEMMA OnlySureAreReady ==
  ASSUME ReadingAssumption, AnalysisIInv PROVE OnlyWhatIsSureIsReady
<1> DEFINE alone(k) == ValidateItem(FirstOf(k), Receipt(k).id)
<1>1. SUFFICES ASSUME Answered, MaxCrops > 0, NEW k \in DOMAIN response.receipts
               PROVE  /\ Receipt(k).status = "READY" /\ Planned(FirstOf(k)) =>
                           /\ Reread(Receipt(k).id) /\ ~IdentityNeeded(FirstOf(k))
                           /\ \/ Receipt(k).id \in recovered
                              \/ alone(k).status = "READY" /\ Facts(Receipt(k)) = Facts(alone(k))
                      /\ ~Planned(FirstOf(k)) => Facts(Receipt(k)) = Facts(alone(k))
  BY DEF OnlyWhatIsSureIsReady, FirstOf
<1> DEFINE raw == items[Receipt(k).id]
           first == FirstOf(k)
           i == Receipt(k).id
           item == ValidateItem(raw, i)
<1>2. IsAnswerOf(Receipt(k), items) /\ Derived(first, raw, Reread(i), i \in recovered)
  BY <1>1, AnswerFollowsTheReading
<1>3. /\ Facts(Receipt(k)) = Facts(item)
      /\ Receipt(k).status = "READY" => IsObject(raw) /\ ~NotReady(raw) /\ item.status = "READY"
  BY <1>2, ReceiptHas
<1>4. alone(k) = ValidateItem(first, i)
  OBVIOUS
<1>5. ASSUME DOMAIN first = Fields, DOMAIN raw = Fields, AsRead(raw, first)
      PROVE  Facts(item) = Facts(alone(k)) /\ item.status = alone(k).status
  <2> HIDE DEF raw, first, i, alone
  <2> QED BY <1>4, <1>5, AsReadIsTheSame
<1> HIDE DEF raw, first, i, item, alone
<1>6. ASSUME Receipt(k).status = "READY", Planned(first)
      PROVE  /\ Reread(i) /\ ~IdentityNeeded(first)
             /\ i \in recovered \/ (alone(k).status = "READY" /\ Facts(Receipt(k)) = Facts(alone(k)))
  <2>1. raw # Malformed
    BY <1>3, <1>6, ObjectsAreItems
  <2>2. /\ DOMAIN first = Fields /\ DOMAIN raw = Fields
        /\ NotReady(raw) \/ Sure(first, raw, Reread(i), i \in recovered)
    BY <1>1, <1>2, <1>6, <2>1, ObjectsAreItems DEF Derived
  <2>3. Sure(first, raw, Reread(i), i \in recovered)
    BY <1>3, <1>6, <2>2
  <2> QED BY <1>3, <1>5, <1>6, <2>2, <2>3 DEF Sure
<1>7. ASSUME ~Planned(first) PROVE Facts(Receipt(k)) = Facts(alone(k))
  <2>1. CASE first = Malformed /\ raw = Malformed
    BY <1>3, <1>4, <2>1 DEF item
  <2>2. CASE IsReading(first) /\ DOMAIN raw = Fields /\ AsRead(raw, first)
    BY <1>3, <1>5, <2>2, ObjectsAreItems
  <2> QED BY <1>2, <1>7, <2>1, <2>2 DEF Derived
<1> QED BY <1>6, <1>7 DEF first, i

LEMMA ReceiptsAreWhole ==
  ASSUME ReadingAssumption, AnalysisIInv, stage = "done", response.engine = "vision"
  PROVE  ReadyIsWhole(items, response.receipts)
<1>1. CASE response.receipts = <<>>
  BY <1>1 DEF ReadyIsWhole
<1>2. CASE response.receipts # <<>>
  <2>1. response.receipts = AnswerOf(items)
    BY <1>2 DEF AnalysisIInv, AnswerFits, Answered, AnswerOf
  <2>2. /\ Len(reading) \in Nat /\ DOMAIN reading = 1 .. Len(reading)
        /\ items = [i \in 1 .. Len(reading) |-> items[i]]
    BY ReadingIs DEF AnalysisIInv, AnalysisShape
  <2>3. \A i \in 1 .. Len(reading) : items[i] = Malformed \/ DOMAIN items[i] = Fields
    BY <2>2 DEF AnalysisIInv, ItemsFit, Derived
  <2> QED BY <2>1, <2>2, <2>3, ReadyAreWhole
<1> QED BY <1>1, <1>2

LEMMA AnalysisHolds ==
  ASSUME ReadingAssumption, AnalysisIInv PROVE AnalysisInv
<1>1. AnalysisTypeOK
  <2>1. DOMAIN calls \subseteq {0} \cup DOMAIN items
    <3>1. DOMAIN items = 1 .. Len(reading) /\ reading \in Seq(Raws)
      BY DEF AnalysisIInv, AnalysisShape
    <3>2. Regions(reading) \subseteq 1 .. Len(reading)
      BY <3>1, FewRegions
    <3> QED BY <3>1, <3>2 DEF AnalysisIInv, CallsFit
  <2> QED BY <2>1 DEF AnalysisIInv, AnalysisShape, AnalysisStages, WithinBudget, AnalysisTypeOK
<1>2. NothingReadIsLost
  <2>1. stage \in {"ocr", "done"} /\ reading # <<>> => response.engine = "vision" /\ response.receipts # <<>>
    BY DEF AnalysisIInv, ItemsFit, AnswerFits
  <2>2. attempts <= MaxCrops + 2
    <3>1. Cardinality(Unstarted) \in Nat
      BY CallsAreFew DEF AnalysisIInv
    <3>2. attempts \in Nat /\ attempts + Cardinality(Unstarted) <= Budget
      BY DEF AnalysisIInv, WithinBudget
    <3>3. Budget \in Nat /\ MaxCrops \in Nat /\ Budget <= MaxCrops + 2
      BY DEF Budget, ReadingAssumption
    <3> QED BY <3>1, <3>2, <3>3
  <2> QED BY <2>1, <2>2 DEF NothingReadIsLost
<1> QED BY <1>1, <1>2, FirstReadingKept, OnlySureAreReady, ReceiptsAreWhole DEF AnalysisInv

(* service.analyze, for every reading of an image and of its regions, every order of
   the calls and every failure of theirs: a currency, a printed date and a printed total
   of the first reading are what the answer has, or it has none; an identity that a region
   changes is for a human; a receipt that was to be read again is only ready when its region
   answered, its identity was not in doubt, and the region completed it or the first
   reading was ready by itself. A receipt that was read is answered, a ready one is whole
   and none other of the answer could be the same, and the provider is called at most once
   for the image, once for each region and once for the lines.                       *)
THEOREM AnalysisCorrect == ASSUME ReadingAssumption PROVE AnalysisSpec => []AnalysisInv
<1>1. AnalysisInit => AnalysisIInv
  BY AnalysisInitially
<1>2. AnalysisIInv /\ [AnalysisNext]_analysisVars => AnalysisIInv'
  BY AnalysisStep
<1>3. AnalysisIInv => AnalysisInv
  BY AnalysisHolds
<1> QED BY <1>1, <1>2, <1>3, PTL DEF AnalysisSpec
-----------------------------------------------------------------------------
(* What is booked of a bill. The sum over some of its lines is a number: it is
   the end of a function over the lines, which there is for every first of them.  *)
Sums(f, payments, S, n) ==
  f = [i \in 0 .. n |-> IF i = 0 THEN 0 ELSE f[i - 1] + (IF i \in S THEN payments[i].amount ELSE 0)]
AreLines(payments) ==
  /\ Len(payments) \in Nat
  /\ \A i \in 1 .. Len(payments) : payments[i].amount \in Nat \ {0}

LEMMA LeastNumber ==
  ASSUME NEW T, T \subseteq Nat, T # {}
  PROVE  \E x \in T : \A y \in T : x <= y
<1>1. PICK x \in T : \A y \in T : ~(<<y, x>> \in OpToRel(<, Nat))
  BY NatLessThanWellFounded, WFMin, Zenon
<1>2. \A y \in T : ~(y < x)
  BY <1>1 DEF OpToRel
<1>3. T \subseteq Nat
  OBVIOUS
<1> QED BY <1>2, <1>3

LEMMA SumsAreNumbers ==
  ASSUME NEW payments, AreLines(payments), NEW S, NEW n \in 0 .. Len(payments),
         NEW f, Sums(f, payments, S, n)
  PROVE  \A i \in 0 .. n : f[i] \in Nat
<1> DEFINE T == { i \in 0 .. n : f[i] \notin Nat }
<1>1. SUFFICES ASSUME T # {} PROVE FALSE
  OBVIOUS
<1>2. PICK i \in T : \A y \in T : i <= y
  <2>1. T \subseteq Nat
    BY DEF AreLines
  <2> HIDE DEF T
  <2> QED BY <1>1, <2>1, LeastNumber
<1>3. i # 0
  BY DEF Sums
<1>4. i - 1 \in 0 .. n /\ ~(i <= i - 1)
  BY <1>3 DEF AreLines
<1>5. f[i - 1] \in Nat
  BY <1>2, <1>4
<1>6. f[i] = f[i - 1] + (IF i \in S THEN payments[i].amount ELSE 0)
  BY <1>3 DEF Sums
<1>7. payments[i].amount \in Nat
  BY <1>3 DEF AreLines
<1> QED BY <1>5, <1>6, <1>7

LEMMA SumsExist ==
  ASSUME NEW payments, AreLines(payments), NEW S, NEW n \in 0 .. Len(payments)
  PROVE  \E f : Sums(f, payments, S, n)
<1> DEFINE T == { m \in Nat : m <= Len(payments) /\ ~ \E f : Sums(f, payments, S, m) }
<1>0. Len(payments) \in Nat
  BY DEF AreLines
<1>1. SUFFICES ASSUME T # {} PROVE FALSE
  BY <1>0
<1>2. PICK m \in T : \A y \in T : m <= y
  BY <1>1, LeastNumber
<1>3. m # 0
  <2>1. Sums([i \in 0 .. 0 |-> 0], payments, S, 0)
    BY DEF Sums
  <2> QED BY <2>1
<1>4. PICK f : Sums(f, payments, S, m - 1)
  <2>1. m - 1 \in Nat /\ m - 1 <= Len(payments) /\ ~(m <= m - 1)
    BY <1>0, <1>3
  <2>2. m - 1 \notin T
    BY <1>2, <2>1
  <2> QED BY <2>1, <2>2
<1>5. Sums([i \in 0 .. m |-> IF i = m THEN f[m - 1] + (IF m \in S THEN payments[m].amount ELSE 0) ELSE f[i]],
           payments, S, m)
  BY <1>0, <1>3, <1>4 DEF Sums
<1> QED BY <1>5

LEMMA SumOfIsANumber ==
  ASSUME NEW payments, AreLines(payments), NEW S
  PROVE  SumOf(payments, S) \in Nat
<1> DEFINE n == Len(payments)
           sums == CHOOSE f : Sums(f, payments, S, n)
<1>1. n \in Nat /\ n \in 0 .. n
  BY DEF AreLines
<1>2. Sums(sums, payments, S, n)
  BY <1>1, SumsExist
<1>3. SumOf(payments, S) = sums[n]
  BY DEF SumOf, Sums
<1> HIDE DEF sums
<1> QED BY <1>1, <1>2, <1>3, SumsAreNumbers

(* _book_amount, for every bill: whatever lines repeat each other and however it was
   paid, what is booked without a human and the points that were redeemed make the
   printed total, and a bill that is excluded was paid with points alone.            *)
THEOREM AmountsAreRight ==
  ASSUME NEW payments, AreLines(payments), NEW total \in {None} \cup (Nat \ {0}),
         NEW tendered \in {None} \cup Nat, NEW change \in {None} \cup Nat
  PROVE  BooksWhatWasPaid(total, payments, tendered, change)
<1> DEFINE points == Points(payments)
           others == SumOf(payments, NonCash(payments))
           once == Deduplicated(payments)
           cash == CashPaid(total, payments, tendered, change)
           paid == Settled(total, payments, cash)
           booked == BookAmount(total, payments, tendered, change)
<1>1. points \in Nat /\ others \in Nat /\ SumOf(payments, CashLines(payments)) \in Nat
  BY SumOfIsANumber DEF Points
<1>2. once.paid \in Nat
  BY SumOfIsANumber DEF Deduplicated
<1>3. cash = None \/ cash \in Int
  BY <1>1 DEF CashPaid
<1>4. ASSUME booked.review # "NEEDS_REVIEW", payments # <<>>
      PROVE  /\ total \in Nat \ {0} /\ cash \in Int
             /\ booked = Outcome(total, paid, points) /\ paid # None
  <2>1. booked # Review /\ Review.review = "NEEDS_REVIEW"
    BY <1>4 DEF Review
  <2>2. total # None /\ cash # None /\ booked = Outcome(total, paid, points)
    BY <1>4, <2>1 DEF BookAmount
  <2>3. paid # None
    BY <2>1, <2>2 DEF Outcome
  <2> QED BY <1>3, <2>2, <2>3
<1>5. ASSUME total \in Nat \ {0}, cash \in Int, paid # None
      PROVE  paid \in Int /\ paid + points = total
  <2>1. CASE points + others + cash = total
    <3>1. paid = others + cash
      BY <2>1 DEF Settled
    <3> HIDE DEF points, others, cash, paid
    <3> QED BY <1>1, <1>5, <2>1, <3>1
  <2>2. CASE points + others + cash # total /\ once.present /\ points + cash + once.paid = total
    <3>1. paid = cash + once.paid
      BY <2>2 DEF Settled
    <3> HIDE DEF points, others, cash, paid, once
    <3> QED BY <1>1, <1>2, <1>5, <2>2, <3>1
  <2>3. CASE /\ points + others + cash # total /\ ~(once.present /\ points + cash + once.paid = total)
             /\ points > 0 /\ points < total /\ cash = 0 /\ others = total
    <3>1. paid = total - points
      BY <2>3 DEF Settled
    <3> HIDE DEF points, others, cash, paid, once
    <3> QED BY <1>1, <1>5, <3>1
  <2> QED BY <1>5, <2>1, <2>2, <2>3 DEF Settled
<1>6. ASSUME booked.review = "READY", payments # <<>>
      PROVE  booked.amount > 0 /\ booked.amount + points = total
  <2>1. booked = Outcome(total, paid, points) /\ paid \in Int /\ paid + points = total /\ paid # None
    BY <1>4, <1>5, <1>6
  <2> HIDE DEF booked, paid, points
  <2>2. booked = Booked(paid) /\ ~(paid <= 0)
    BY <1>6, <2>1 DEF Outcome, Excluded, Review
  <2> QED BY <2>1, <2>2 DEF Booked
<1>7. ASSUME booked.review = "EXCLUDED" PROVE points = total
  <2>1. payments # <<>>
    BY <1>7 DEF BookAmount, Booked, Review
  <2>2. booked = Outcome(total, paid, points)
    BY <1>4, <1>7, <2>1
  <2> HIDE DEF booked, paid, points
  <2> QED BY <1>7, <2>2 DEF Outcome, Booked, Review
<1> HIDE DEF booked, points
<1> QED BY <1>6, <1>7 DEF BooksWhatWasPaid, booked, points

(* A line that is no part of a sum does not change it.                              *)
LEMMA SumsAgree ==
  ASSUME NEW p, NEW q, NEW S, NEW n \in Nat, \A i \in 1 .. n : q[i] = p[i],
         NEW m \in Nat, n <= m, NEW f, Sums(f, p, S, n), NEW g, Sums(g, q, S, m)
  PROVE  f[n] = g[n]
<1> DEFINE T == { i \in 0 .. n : f[i] # g[i] }
<1>1. SUFFICES ASSUME T # {} PROVE FALSE
  OBVIOUS
<1>2. PICK i \in T : \A y \in T : i <= y
  <2>1. T \subseteq Nat
    OBVIOUS
  <2> HIDE DEF T
  <2> QED BY <1>1, <2>1, LeastNumber
<1>3. i # 0
  BY DEF Sums
<1>4. i - 1 \in 0 .. n /\ ~(i <= i - 1) /\ i \in 1 .. n /\ i \in 0 .. m
  BY <1>3
<1>5. f[i - 1] = g[i - 1]
  BY <1>2, <1>4
<1>6. f[i] = f[i - 1] + (IF i \in S THEN p[i].amount ELSE 0)
  BY <1>3 DEF Sums
<1>7. g[i] = g[i - 1] + (IF i \in S THEN q[i].amount ELSE 0)
  BY <1>3, <1>4 DEF Sums
<1> QED BY <1>4, <1>5, <1>6, <1>7

LEMMA SumOfLonger ==
  ASSUME NEW p, AreLines(p), NEW q, AreLines(q), Len(q) = Len(p) + 1,
         \A i \in 1 .. Len(p) : q[i] = p[i], NEW S, Len(q) \notin S
  PROVE  SumOf(q, S) = SumOf(p, S)
<1> DEFINE n == Len(p)
           f == CHOOSE h : Sums(h, p, S, Len(p))
           g == CHOOSE h : Sums(h, q, S, Len(q))
<1>1. n \in Nat /\ n \in 0 .. n /\ n + 1 \in 0 .. n + 1 /\ n + 1 \in Nat /\ n <= n + 1 /\ Len(q) = n + 1
  BY DEF AreLines
<1>2. Sums(f, p, S, n) /\ SumOf(p, S) = f[n]
  <2>1. \E h : Sums(h, p, S, Len(p))
    BY <1>1, SumsExist
  <2>2. SumOf(p, S) = f[n]
    BY DEF SumOf, Sums
  <2> QED BY <2>1, <2>2
<1>3. Sums(g, q, S, n + 1) /\ SumOf(q, S) = g[n + 1]
  <2>1. \E h : Sums(h, q, S, Len(q))
    BY <1>1, SumsExist
  <2>2. SumOf(q, S) = g[Len(q)]
    BY DEF SumOf, Sums
  <2> QED BY <1>1, <2>1, <2>2
<1> HIDE DEF f, g, n
<1>4. f[n] = g[n]
  BY <1>1, <1>2, <1>3, SumsAgree DEF n
<1>5. g[n] \in Nat
  <2>1. n + 1 \in 0 .. Len(q)
    BY <1>1
  <2>2. \A i \in 0 .. n + 1 : g[i] \in Nat
    BY <1>3, <2>1, SumsAreNumbers
  <2> QED BY <1>1, <2>2
<1>6. g[n + 1] = g[n] + 0
  <2>1. n + 1 # 0 /\ (n + 1) - 1 = n /\ n + 1 \notin S
    BY <1>1
  <2> QED BY <1>1, <1>3, <2>1 DEF Sums
<1> QED BY <1>2, <1>3, <1>4, <1>5, <1>6

(* _book_amount, for every bill: a line of a group that is printed once more changes
   nothing of what is booked.                                                       *)
THEOREM RepeatedLineCountsOnce ==
  ASSUME NEW Lines, NEW payments \in Seq(Lines), AreLines(payments),
         NEW again \in DOMAIN payments, payments[again].group # None,
         NEW total, NEW tendered, NEW change
  PROVE  BookAmount(total, Append(payments, payments[again]), tendered, change)
           = BookAmount(total, payments, tendered, change)
<1> DEFINE n == Len(payments)
           more == Append(payments, payments[again])
<1>1. /\ n \in Nat /\ DOMAIN payments = 1 .. n /\ DOMAIN more = 1 .. n + 1 /\ Len(more) = n + 1
      /\ more[n + 1] = payments[again] /\ \A i \in 1 .. n : more[i] = payments[i]
  <2>1. payments[again] \in Lines
    BY LenProperties, ElementOfSeq
  <2>2. more \in Seq(Lines) /\ Len(more) = n + 1
    BY <2>1, AppendProperties
  <2> QED BY <2>1, <2>2, AppendProperties, LenProperties
<1> HIDE DEF more
<1>2. AreLines(more)
  <2>1. \A i \in 1 .. n + 1 : \E j \in 1 .. n : more[i] = payments[j]
    BY <1>1
  <2>2. \A j \in 1 .. n : payments[j].amount \in Nat \ {0}
    BY DEF AreLines
  <2>3. \A i \in 1 .. Len(more) : more[i].amount \in Nat \ {0}
    <3> TAKE i \in 1 .. Len(more)
    <3>1. i \in 1 .. n + 1
      BY <1>1
    <3>2. PICK j \in 1 .. n : more[i] = payments[j]
      BY <2>1, <3>1
    <3> QED BY <2>2, <3>2
  <2>4. Len(more) \in Nat
    BY <1>1
  <2> QED BY <2>3, <2>4 DEF AreLines
<1>3. again \in 1 .. n /\ again < n + 1 /\ more[again] = payments[again]
  BY <1>1
<1>4. Collapsed(more) = Collapsed(payments)
  <2>1. n + 1 \notin Collapsed(more)
    <3>1. SameGroup(more, n + 1, again) /\ again \in 1 .. n + 1 - 1
      BY <1>1, <1>3 DEF SameGroup
    <3> QED BY <1>1, <3>1 DEF Collapsed
  <2>2. ASSUME NEW i \in 1 .. n PROVE i \in Collapsed(more) <=> i \in Collapsed(payments)
    <3>1. \A j \in 1 .. i - 1 : SameGroup(more, i, j) <=> SameGroup(payments, i, j)
      <4> TAKE j \in 1 .. i - 1
      <4>1. j \in 1 .. n
        BY <1>1
      <4> QED BY <1>1, <4>1 DEF SameGroup
    <3>2. i \in DOMAIN more /\ i \in DOMAIN payments
      BY <1>1
    <3> QED BY <3>1, <3>2 DEF Collapsed
  <2>3. Collapsed(more) \subseteq 1 .. n + 1 /\ Collapsed(payments) \subseteq 1 .. n
    BY <1>1 DEF Collapsed
  <2>4. \A i \in 1 .. n + 1 : i = n + 1 \/ i \in 1 .. n
    BY <1>1
  <2> QED BY <2>1, <2>2, <2>3, <2>4
<1>5. \A i \in Collapsed(payments) : i \in 1 .. n /\ more[i] = payments[i]
  BY <1>1 DEF Collapsed
<1>6. ASSUME NEW types PROVE OfType(more, types) = OfType(payments, types)
  BY <1>4, <1>5 DEF OfType
<1>7. ASSUME NEW S, S \subseteq Collapsed(payments) PROVE SumOf(more, S) = SumOf(payments, S)
  <2>1. n + 1 \notin S
    BY <1>1, <1>5, <1>7
  <2> QED BY <1>1, <1>2, <2>1, SumOfLonger
<1>8. /\ CashLines(more) = CashLines(payments) /\ NonCash(more) = NonCash(payments)
      /\ CashLines(payments) \subseteq Collapsed(payments) /\ NonCash(payments) \subseteq Collapsed(payments)
  BY <1>4, <1>6 DEF CashLines, NonCash, OfType
<1>9. Points(more) = Points(payments)
  <2>1. OfType(payments, {"points"}) \subseteq Collapsed(payments)
    BY DEF OfType
  <2> QED BY <1>6, <1>7, <2>1 DEF Points
<1>10. /\ SumOf(more, CashLines(more)) = SumOf(payments, CashLines(payments))
       /\ SumOf(more, NonCash(more)) = SumOf(payments, NonCash(payments))
  BY <1>7, <1>8
<1>11. CashPaid(total, more, tendered, change) = CashPaid(total, payments, tendered, change)
  BY <1>8, <1>9, <1>10 DEF CashPaid
<1>12. Deduplicated(more) = Deduplicated(payments)
  <2> DEFINE loose(p) == { i \in NonCash(p) : p[i].group = None }
             once(p) == { i \in loose(p) : ~\E j \in loose(p) :
                            j < i /\ p[j].type = p[i].type /\ p[j].amount = p[i].amount }
             left(p) == (NonCash(p) \ loose(p)) \cup once(p)
  <2>1. loose(more) = loose(payments)
    BY <1>5, <1>8
  <2>2. \A i \in loose(payments) : more[i] = payments[i]
    BY <1>5, <1>8
  <2>3. once(more) = once(payments)
    BY <2>1, <2>2
  <2>4. left(more) = left(payments) /\ left(payments) \subseteq Collapsed(payments)
    BY <1>8, <2>1, <2>3
  <2>5. SumOf(more, left(more)) = SumOf(payments, left(payments))
    BY <1>7, <2>4
  <2>6. /\ Deduplicated(more) = [present |-> once(more) # loose(more), paid |-> SumOf(more, left(more))]
        /\ Deduplicated(payments) =
             [present |-> once(payments) # loose(payments), paid |-> SumOf(payments, left(payments))]
    BY DEF Deduplicated
  <2> HIDE DEF loose, once, left
  <2> QED BY <2>1, <2>3, <2>5, <2>6
<1>13. GroupConflict(more) <=> GroupConflict(payments)
  <2>1. ASSUME GroupConflict(payments) PROVE GroupConflict(more)
    <3>1. PICK i \in 1 .. n, j \in 1 .. n :
            /\ SameGroup(payments, i, j)
            /\ payments[i].type # payments[j].type \/ payments[i].amount # payments[j].amount
      BY <1>1, <2>1 DEF GroupConflict
    <3>2. i \in DOMAIN more /\ j \in DOMAIN more /\ more[i] = payments[i] /\ more[j] = payments[j]
      BY <1>1
    <3> QED BY <3>1, <3>2 DEF GroupConflict, SameGroup
  <2>2. ASSUME GroupConflict(more) PROVE GroupConflict(payments)
    <3> DEFINE first(i) == IF i = n + 1 THEN again ELSE i
    <3>1. PICK i \in 1 .. n + 1, j \in 1 .. n + 1 :
            /\ SameGroup(more, i, j)
            /\ more[i].type # more[j].type \/ more[i].amount # more[j].amount
      BY <1>1, <2>2 DEF GroupConflict
    <3>2. \A k \in 1 .. n + 1 : first(k) \in 1 .. n /\ more[k] = payments[first(k)]
      BY <1>1, <1>3
    <3>3. /\ first(i) \in DOMAIN payments /\ first(j) \in DOMAIN payments
          /\ more[i] = payments[first(i)] /\ more[j] = payments[first(j)]
      BY <1>1, <3>2
    <3> HIDE DEF first
    <3> QED BY <3>1, <3>3 DEF GroupConflict, SameGroup
  <2> QED BY <2>1, <2>2
<1>14. more # <<>> /\ payments # <<>>
  <2>1. 1 \in DOMAIN more /\ again \in DOMAIN payments
    BY <1>1
  <2> QED BY <2>1
<1>15. \A cash : Settled(total, more, cash) = Settled(total, payments, cash)
  BY <1>9, <1>10, <1>12 DEF Settled
<1>16. OfType(more, {"unknown"}) = OfType(payments, {"unknown"})
  BY <1>6
<1>17. BookAmount(total, more, tendered, change) = BookAmount(total, payments, tendered, change)
  BY <1>9, <1>11, <1>13, <1>14, <1>15, <1>16 DEF BookAmount
<1> QED BY <1>17 DEF more
(***************************************************************************)
(* The limiter of the calls.                                               *)
(***************************************************************************)
(* Waiters wait for the semaphore they are at, once, and without a permit.   *)
QueueInv ==
  \A s \in Semaphores :
    /\ \A i \in 1 .. Len(queue[s]) : at[queue[s][i]] = s /\ queue[s][i] \notin held[s]
    /\ \A i, j \in 1 .. Len(queue[s]) : queue[s][i] = queue[s][j] => i = j

(* Only a recovery is ever at the recovery semaphore.                        *)
RecoveryInv == \A c \in Calls : at[c] = "recovery" => kind[c] = "RECOVERY"

Structure == TypeOK /\ QueueInv /\ RecoveryInv /\ HoldersAreUnderWay

-----------------------------------------------------------------------------
(* The queue without one of its waiters is a queue of the others.            *)
LEMMA WithoutIsAQueue ==
  ASSUME TypeOK, QueueInv, NEW s \in Semaphores, NEW c \in Calls
  PROVE  /\ Without(c, s) \in Seq(Calls)
         /\ queue[s] = <<>> => Without(c, s) = <<>>
         /\ \A i \in 1 .. Len(Without(c, s)) :
              \E j \in 1 .. Len(queue[s]) : /\ Without(c, s)[i] = queue[s][j]
                                            /\ queue[s][j] # c
         /\ \A i, j \in 1 .. Len(Without(c, s)) :
              Without(c, s)[i] = Without(c, s)[j] => i = j
<1> DEFINE q == queue[s]
           w == Without(c, s)
<1>1. q \in Seq(Calls) /\ DOMAIN q = 1 .. Len(q) /\ Len(q) \in Nat
  BY DEF TypeOK
<1>2. CASE c \notin Queued(s)
  <2>1. w = q
    BY <1>2 DEF Without
  <2> QED BY <1>1, <1>2, <2>1 DEF Queued, QueueInv
<1>3. CASE c \in Queued(s)
  <2> DEFINE k == CHOOSE i \in DOMAIN q : q[i] = c
             n == Len(q) - 1
  <2>1. k \in 1 .. Len(q) /\ q[k] = c
    BY <1>1, <1>3 DEF Queued
  <2>2. w = [i \in 1 .. n |-> q[IF i < k THEN i ELSE i + 1]]
    BY <1>3 DEF Without
  <2>3. n \in Nat
    BY <1>1, <2>1
  <2> HIDE DEF k, q
  <2>4. w \in Seq(Calls) /\ Len(w) = n
    <3>1. \A i \in 1 .. n : q[IF i < k THEN i ELSE i + 1] \in Calls
      BY <1>1, <2>1, <2>3
    <3> QED BY <2>2, <2>3, <3>1, SMTT(30)
  <2>5. \A i, j \in 1 .. Len(q) : q[i] = q[j] => i = j
    BY DEF QueueInv, q
  <2>6. \A i \in 1 .. n : \E j \in 1 .. Len(q) : w[i] = q[j] /\ q[j] # c
    BY <1>1, <2>1, <2>2, <2>3, <2>5
  <2>7. \A i, j \in 1 .. n : w[i] = w[j] => i = j
    BY <1>1, <2>1, <2>2, <2>3, <2>5
  <2>8. q # <<>>
    BY <1>1, <2>1
  <2> QED BY <2>4, <2>6, <2>7, <2>8 DEF q
<1> QED BY <1>2, <1>3

(* What giving back does to one semaphore, by who was using it.              *)
LEMMA GiveBackCases ==
  ASSUME NEW c \in Calls, NEW left, NEW s \in Semaphores, GiveBack(c, left)
  PROVE  \/ /\ c \notin held[s]
            /\ value'[s] = value[s] /\ held'[s] = held[s] /\ queue'[s] = left[s]
         \/ /\ c \in held[s] /\ queue[s] = <<>>
            /\ value'[s] = value[s] + 1 /\ held'[s] = held[s] \ {c}
            /\ queue'[s] = left[s]
         \/ /\ c \in held[s] /\ queue[s] # <<>>
            /\ value'[s] = value[s]
            /\ held'[s] = (held[s] \ {c}) \cup {Head(queue[s])}
            /\ queue'[s] = Tail(queue[s])
<1> DEFINE next(r) == IF queue[r] = <<>> THEN {} ELSE {Head(queue[r])}
           back == { r \in Semaphores : c \in held[r] }
<1>1. /\ value'[s] = IF s \in back /\ queue[s] = <<>> THEN value[s] + 1 ELSE value[s]
      /\ held'[s] = IF s \in back THEN (held[s] \ {c}) \cup next(s) ELSE held[s]
      /\ queue'[s] = IF s \in back /\ queue[s] # <<>> THEN Tail(queue[s]) ELSE left[s]
  BY DEF GiveBack
<1>2. s \in back <=> c \in held[s]
  OBVIOUS
<1> QED BY <1>1, <1>2

(* ... and the shape it keeps.                                               *)
LEMMA GiveBackDomains ==
  ASSUME NEW c \in Calls, NEW left, GiveBack(c, left)
  PROVE  /\ value' = [s \in Semaphores |-> value'[s]]
         /\ held' = [s \in Semaphores |-> held'[s]]
         /\ queue' = [s \in Semaphores |-> queue'[s]]
BY DEF GiveBack

(* The way out of a call keeps the structure, and takes all its permits.     *)
LEMMA UnwindKeepsStructure ==
  ASSUME Structure, NEW c \in Calls, at[c] # "new", Unwind(c)
  PROVE  /\ queue' \in [Semaphores -> Seq(Calls)]
         /\ held' \in [Semaphores -> SUBSET Calls]
         /\ value' \in [Semaphores -> Nat]
         /\ at' \in [Calls -> {"new", "invoking"} \cup Semaphores]
         /\ QueueInv' /\ RecoveryInv' /\ HoldersAreUnderWay'
<1> DEFINE left == [s \in Semaphores |-> Without(c, s)]
<1>1. TypeOK /\ QueueInv /\ RecoveryInv /\ HoldersAreUnderWay
  BY DEF Structure
<1>2. GiveBack(c, left) /\ at' = [at EXCEPT ![c] = "new"] /\ kind' = kind
  BY DEF Unwind
<1>3. ASSUME NEW s \in Semaphores
      PROVE  /\ value'[s] \in Nat /\ held'[s] \subseteq Calls /\ queue'[s] \in Seq(Calls)
             /\ held'[s] \subseteq (held[s] \ {c}) \cup { d \in Calls : d # c /\ at[d] = s }
             /\ held[s] \ {c} \subseteq held'[s]
             /\ \A i \in 1 .. Len(queue'[s]) :
                  at[queue'[s][i]] = s /\ queue'[s][i] # c /\ queue'[s][i] \notin held'[s]
             /\ \A i, j \in 1 .. Len(queue'[s]) : queue'[s][i] = queue'[s][j] => i = j
  <2>1. queue[s] \in Seq(Calls) /\ held[s] \subseteq Calls /\ value[s] \in Nat
    BY <1>1 DEF TypeOK
  <2>2. /\ \A i \in 1 .. Len(queue[s]) : at[queue[s][i]] = s /\ queue[s][i] \notin held[s]
        /\ \A i, j \in 1 .. Len(queue[s]) : queue[s][i] = queue[s][j] => i = j
    BY <1>1 DEF QueueInv
  <2>3. left[s] = Without(c, s)
    OBVIOUS
  <2>4. /\ left[s] \in Seq(Calls)
        /\ queue[s] = <<>> => left[s] = <<>>
        /\ \A i \in 1 .. Len(left[s]) :
             \E j \in 1 .. Len(queue[s]) : left[s][i] = queue[s][j] /\ queue[s][j] # c
        /\ \A i, j \in 1 .. Len(left[s]) : left[s][i] = left[s][j] => i = j
    BY <1>1, <2>3, WithoutIsAQueue
  <2> HIDE DEF left
  <2>5. CASE /\ c \notin held[s]
             /\ value'[s] = value[s] /\ held'[s] = held[s] /\ queue'[s] = left[s]
    <3>1. \A i \in 1 .. Len(left[s]) :
            at[left[s][i]] = s /\ left[s][i] # c /\ left[s][i] \notin held[s]
      BY <2>2, <2>4
    <3>2. held[s] \ {c} = held[s]
      BY <2>5
    <3> QED BY <2>1, <2>4, <2>5, <3>1, <3>2
  <2>6. CASE /\ c \in held[s] /\ queue[s] = <<>>
             /\ value'[s] = value[s] + 1 /\ held'[s] = held[s] \ {c}
             /\ queue'[s] = left[s]
    <3>1. Len(queue'[s]) = 0
      BY <2>4, <2>6
    <3> QED BY <2>1, <2>4, <2>6, <3>1
  <2>7. CASE /\ c \in held[s] /\ queue[s] # <<>>
             /\ value'[s] = value[s]
             /\ held'[s] = (held[s] \ {c}) \cup {Head(queue[s])}
             /\ queue'[s] = Tail(queue[s])
    <3>1. /\ Head(queue[s]) = queue[s][1] /\ 1 \in 1 .. Len(queue[s])
          /\ queue'[s] \in Seq(Calls) /\ Len(queue'[s]) = Len(queue[s]) - 1
          /\ \A i \in 1 .. Len(queue'[s]) : /\ queue'[s][i] = queue[s][i + 1]
                                            /\ i + 1 \in 1 .. Len(queue[s])
      BY <2>1, <2>7
    <3>2. Head(queue[s]) \in Calls /\ Head(queue[s]) # c /\ at[Head(queue[s])] = s
      BY <2>1, <2>2, <2>7, <3>1
    <3>3. \A i \in 1 .. Len(queue'[s]) :
            at[queue'[s][i]] = s /\ queue'[s][i] # c /\ queue'[s][i] \notin held'[s]
      BY <2>2, <2>7, <3>1
    <3>4. \A i, j \in 1 .. Len(queue'[s]) : queue'[s][i] = queue'[s][j] => i = j
      <4>1. SUFFICES ASSUME NEW i \in 1 .. Len(queue'[s]), NEW j \in 1 .. Len(queue'[s]),
                            queue'[s][i] = queue'[s][j]
                     PROVE  i = j
        OBVIOUS
      <4>2. /\ i + 1 \in 1 .. Len(queue[s]) /\ j + 1 \in 1 .. Len(queue[s])
            /\ queue[s][i + 1] = queue[s][j + 1]
        BY <3>1, <4>1
      <4>3. i + 1 = j + 1
        BY <2>2, <4>2
      <4>4. i \in Int /\ j \in Int
        OBVIOUS
      <4> QED BY <4>3, <4>4
    <3> QED BY <2>1, <2>7, <3>1, <3>2, <3>3, <3>4
  <2> QED BY <1>2, <2>5, <2>6, <2>7, GiveBackCases
<1>4. /\ queue' \in [Semaphores -> Seq(Calls)]
      /\ held' \in [Semaphores -> SUBSET Calls]
      /\ value' \in [Semaphores -> Nat]
  BY <1>2, <1>3, GiveBackDomains
<1>5. at' \in [Calls -> {"new", "invoking"} \cup Semaphores]
  BY <1>1, <1>2 DEF TypeOK
<1>6. at'[c] = "new" /\ \A d \in Calls : d # c => at'[d] = at[d]
  BY <1>1, <1>2 DEF TypeOK
<1>7. QueueInv'
  <2>1. ASSUME NEW s \in Semaphores, NEW i \in 1 .. Len(queue'[s])
        PROVE  at'[queue'[s][i]] = s
    <3>1. queue'[s][i] \in Calls
      BY <1>3
    <3> QED BY <1>3, <1>6, <3>1
  <2> QED BY <1>3, <2>1 DEF QueueInv
<1>8. RecoveryInv'
  BY <1>1, <1>2, <1>6 DEF RecoveryInv
<1>9. \A s \in Semaphores : c \notin held'[s]
  BY <1>3
<1>10. HoldersAreUnderWay'
  <2>1. /\ \A d \in Calls : at[d] = "invoking" => d \in held["total"]
        /\ \A d \in Calls : at[d] \notin {"new", "recovery"} /\ kind[d] = "RECOVERY"
                              => d \in held["recovery"]
        /\ \A d \in held["recovery"] : d \in Calls /\ at[d] # "new" /\ kind[d] = "RECOVERY"
        /\ \A d \in held["total"] : d \in Calls /\ at[d] \notin {"new", "recovery"}
    BY <1>1 DEF HoldersAreUnderWay, Of, UnderWay, Invoking
  <2>2. "recovery" \in Semaphores /\ "total" \in Semaphores
    BY DEF Semaphores
  <2>3. \A d \in Calls : at[d] = "recovery" => kind[d] = "RECOVERY"
    BY <1>1 DEF RecoveryInv
  <2>4. \A d \in Calls : at'[d] = "invoking" => d \in held'["total"]
    BY <1>3, <1>6, <2>1, <2>2
  <2>5. \A d \in Calls : at'[d] \notin {"new", "recovery"} /\ kind'[d] = "RECOVERY"
                            => d \in held'["recovery"]
    BY <1>2, <1>3, <1>6, <2>1, <2>2
  <2>6. \A d \in held'["recovery"] : d \in Calls /\ at'[d] # "new" /\ kind'[d] = "RECOVERY"
    BY <1>2, <1>3, <1>6, <1>9, <2>1, <2>2, <2>3
  <2>7. \A d \in held'["total"] : d \in Calls /\ at'[d] \notin {"new", "recovery"}
    BY <1>3, <1>6, <1>9, <2>1, <2>2
  <2> QED BY <2>4, <2>5, <2>6, <2>7 DEF HoldersAreUnderWay, Of, UnderWay, Invoking
<1> QED BY <1>4, <1>5, <1>7, <1>8, <1>10

-----------------------------------------------------------------------------
LEMMA InitStructure == Init => Structure
<1> SUFFICES ASSUME Init PROVE Structure
  OBVIOUS
<1>1. TypeOK
  BY LimitAssumption DEF Init, TypeOK, Limit, Semaphores, Kinds
<1>2. QueueInv /\ RecoveryInv
  BY DEF Init, QueueInv, RecoveryInv
<1>3. HoldersAreUnderWay
  BY DEF Init, HoldersAreUnderWay, Invoking, Of, UnderWay, Semaphores
<1> QED BY <1>1, <1>2, <1>3 DEF Structure

LEMMA StepStructure == Structure /\ [Next]_vars => Structure'
<1> SUFFICES ASSUME Structure, [Next]_vars PROVE Structure'
  OBVIOUS
<1> USE DEF Semaphores, Kinds
<1>1. /\ TypeOK /\ QueueInv /\ RecoveryInv /\ HoldersAreUnderWay
  BY DEF Structure
<1>2. /\ \A d \in Calls : at[d] = "invoking" => d \in held["total"]
      /\ \A d \in Calls : at[d] \notin {"new", "recovery"} /\ kind[d] = "RECOVERY"
                            => d \in held["recovery"]
      /\ \A d \in held["recovery"] : d \in Calls /\ at[d] # "new" /\ kind[d] = "RECOVERY"
      /\ \A d \in held["total"] : d \in Calls /\ at[d] \notin {"new", "recovery"}
  BY <1>1 DEF HoldersAreUnderWay, Of, UnderWay, Invoking
<1>3. ASSUME UNCHANGED vars PROVE Structure'
  BY <1>1, <1>3 DEF vars, semVars, countVars, Structure, TypeOK, QueueInv, RecoveryInv,
                    HoldersAreUnderWay, Of, UnderWay, Invoking
<1>4. ASSUME NEW c \in Calls, Submit(c) PROVE Structure'
  <2>1. PICK k \in Kinds : /\ kind' = [kind EXCEPT ![c] = k]
                           /\ at' = [at EXCEPT ![c] = First(k)]
    BY <1>4 DEF Submit
  <2>2. at[c] = "new" /\ UNCHANGED semVars /\ UNCHANGED countVars /\ pending' = pending + 1
    BY <1>4 DEF Submit
  <2>3. First(k) \in Semaphores /\ (First(k) = "recovery" <=> k = "RECOVERY")
    BY DEF First
  <2>4. TypeOK'
    BY <1>1, <2>1, <2>2, <2>3 DEF TypeOK, semVars, countVars
  <2>5. QueueInv'
    BY <1>1, <2>1, <2>2 DEF TypeOK, QueueInv, semVars
  <2>6. RecoveryInv'
    BY <1>1, <2>1, <2>3 DEF TypeOK, RecoveryInv
  <2>7. HoldersAreUnderWay'
    BY <1>1, <1>2, <2>1, <2>2, <2>3 DEF TypeOK, HoldersAreUnderWay, Of, UnderWay, Invoking, semVars
  <2> QED BY <2>4, <2>5, <2>6, <2>7 DEF Structure
<1>5. ASSUME NEW c \in Calls, Ask(c) PROVE Structure'
  <2>1. PICK s \in Semaphores :
          /\ Asking(c, s)
          /\ IF Free(s)
             THEN /\ value' = [value EXCEPT ![s] = @ - 1]
                  /\ held' = [held EXCEPT ![s] = @ \cup {c}]
                  /\ UNCHANGED queue
             ELSE /\ queue' = [queue EXCEPT ![s] = Append(@, c)]
                  /\ UNCHANGED <<value, held>>
    BY <1>5 DEF Ask
  <2>2. UNCHANGED <<at, kind, pending, countVars>>
    BY <1>5 DEF Ask
  <2>3. /\ at[c] = s /\ c \notin held[s]
        /\ \A i \in 1 .. Len(queue[s]) : queue[s][i] # c
    BY <1>1, <2>1 DEF Asking, Queued, TypeOK
  <2>4. CASE Free(s)
    <3>1. /\ value' = [value EXCEPT ![s] = @ - 1] /\ value[s] > 0
          /\ held' = [held EXCEPT ![s] = @ \cup {c}] /\ UNCHANGED queue
      BY <2>1, <2>4 DEF Free
    <3>2. TypeOK'
      BY <1>1, <2>2, <3>1 DEF TypeOK, countVars
    <3>3. QueueInv'
      BY <1>1, <2>2, <2>3, <3>1 DEF TypeOK, QueueInv
    <3>4. HoldersAreUnderWay'
      BY <1>1, <1>2, <2>2, <2>3, <3>1
      DEF TypeOK, RecoveryInv, HoldersAreUnderWay, Of, UnderWay, Invoking
    <3> QED BY <1>1, <2>2, <3>2, <3>3, <3>4 DEF Structure, RecoveryInv
  <2>5. CASE ~Free(s)
    <3>1. queue' = [queue EXCEPT ![s] = Append(@, c)] /\ UNCHANGED <<value, held>>
      BY <2>1, <2>5
    <3>2. TypeOK'
      BY <1>1, <2>2, <3>1 DEF TypeOK, countVars
    <3>3. QueueInv'
      <4>1. ASSUME NEW r \in Semaphores, r # s PROVE queue'[r] = queue[r]
        BY <1>1, <3>1, <4>1 DEF TypeOK
      <4>2. /\ Len(queue'[s]) = Len(queue[s]) + 1
            /\ \A i \in 1 .. Len(queue[s]) : queue'[s][i] = queue[s][i]
            /\ queue'[s][Len(queue[s]) + 1] = c
            /\ Len(queue[s]) \in Nat
        BY <1>1, <3>1 DEF TypeOK
      <4> QED BY <1>1, <2>2, <2>3, <3>1, <4>1, <4>2 DEF QueueInv
    <3>4. HoldersAreUnderWay'
      BY <1>1, <2>2, <3>1 DEF HoldersAreUnderWay, Of, UnderWay, Invoking
    <3> QED BY <1>1, <2>2, <3>2, <3>3, <3>4 DEF Structure, RecoveryInv
  <2> QED BY <2>4, <2>5
<1>6. ASSUME NEW c \in Calls, Proceed(c) PROVE Structure'
  <2>1. /\ at[c] = "recovery" /\ c \in held["recovery"]
        /\ at' = [at EXCEPT ![c] = "total"]
        /\ UNCHANGED <<kind, semVars, pending, countVars>>
    BY <1>6 DEF Proceed, Granted
  <2>2. TypeOK'
    BY <1>1, <2>1 DEF TypeOK, semVars, countVars
  <2>3. QueueInv'
    BY <1>1, <2>1 DEF TypeOK, QueueInv, semVars
  <2>4. RecoveryInv'
    BY <1>1, <2>1 DEF TypeOK, RecoveryInv
  <2>5. HoldersAreUnderWay'
    BY <1>1, <1>2, <2>1 DEF TypeOK, HoldersAreUnderWay, Of, UnderWay, Invoking, semVars
  <2> QED BY <2>2, <2>3, <2>4, <2>5 DEF Structure
<1>7. ASSUME NEW c \in Calls, Invoke(c) PROVE Structure'
  <2>1. /\ at[c] = "total" /\ c \in held["total"]
        /\ at' = [at EXCEPT ![c] = "invoking"]
        /\ active' = active + 1 /\ activeRecoveries' = activeRecoveries + Recovery(c)
        /\ UNCHANGED <<kind, semVars, pending, lateStarts>>
    BY <1>7 DEF Invoke, Granted
  <2>2. TypeOK'
    BY <1>1, <2>1 DEF TypeOK, semVars, Recovery
  <2>3. QueueInv'
    BY <1>1, <2>1 DEF TypeOK, QueueInv, semVars
  <2>4. RecoveryInv'
    BY <1>1, <2>1 DEF TypeOK, RecoveryInv
  <2>5. HoldersAreUnderWay'
    BY <1>1, <1>2, <2>1 DEF TypeOK, HoldersAreUnderWay, Of, UnderWay, Invoking, semVars
  <2> QED BY <2>2, <2>3, <2>4, <2>5 DEF Structure
(* The three ways out share Unwind.                                          *)
<1>8. ASSUME NEW c \in Calls, StartTooLate(c) \/ GiveUp(c) \/ Finish(c) PROVE Structure'
  <2>1. at[c] # "new" /\ Unwind(c)
    BY <1>8 DEF StartTooLate, GiveUp, Finish, Granted
  <2>2. /\ active' \in Int /\ activeRecoveries' \in Int /\ lateStarts' \in 0 .. MaxLateStarts
    BY <1>1, <1>8, LimitAssumption
    DEF StartTooLate, GiveUp, Finish, Recovery, TypeOK, countVars
  <2>3. kind' = kind /\ pending' = pending - 1
    BY <2>1 DEF Unwind
  <2> QED BY <1>1, <2>1, <2>2, <2>3, UnwindKeepsStructure DEF Structure, TypeOK
<1> QED BY <1>3, <1>4, <1>5, <1>6, <1>7, <1>8 DEF Next

(* Types, queues and permit holders, at every moment of every run (run 85-141,
   _acquire 143-152).                                                        *)
THEOREM StructureAlways == Spec => []Structure
BY InitStructure, StepStructure, PTL DEF Spec

(* The type invariant of the limiter.                                        *)
THEOREM TypeCorrect == Spec => []TypeOK
BY StructureAlways, PTL DEF Structure

(* Permits belong to calls that are under way (the finally of run).          *)
THEOREM HoldersCorrect == Spec => []HoldersAreUnderWay
BY StructureAlways, PTL DEF Structure

-----------------------------------------------------------------------------
(* No wakeup is lost. *)

LEMMA StepNoIdle == Structure /\ NoIdlePermit /\ [Next]_vars => NoIdlePermit'
<1> SUFFICES ASSUME Structure, NoIdlePermit, [Next]_vars,
                    NEW s \in Semaphores, value'[s] > 0
             PROVE  queue'[s] = <<>>
  BY DEF NoIdlePermit
<1>1. TypeOK /\ QueueInv /\ (value[s] > 0 => queue[s] = <<>>)
  BY DEF Structure, NoIdlePermit
<1>2. CASE UNCHANGED semVars
  BY <1>1, <1>2 DEF semVars
<1>3. ASSUME NEW c \in Calls, Ask(c) PROVE queue'[s] = <<>>
  <2>1. PICK r \in Semaphores :
          IF Free(r)
          THEN /\ value' = [value EXCEPT ![r] = @ - 1] /\ UNCHANGED queue
          ELSE /\ queue' = [queue EXCEPT ![r] = Append(@, c)] /\ UNCHANGED value
    BY <1>3 DEF Ask
  <2>2. CASE r = s
    BY <1>1, <2>1, <2>2 DEF Free, TypeOK
  <2>3. CASE r # s
    BY <1>1, <2>1, <2>3 DEF TypeOK
  <2> QED BY <2>2, <2>3
<1>4. ASSUME NEW c \in Calls, Unwind(c) PROVE queue'[s] = <<>>
  <2> DEFINE left == [r \in Semaphores |-> Without(c, r)]
  <2>1. GiveBack(c, left) /\ left[s] = Without(c, s)
    BY <1>4 DEF Unwind
  <2>2. queue[s] = <<>> => left[s] = <<>>
    BY <1>1, <2>1, WithoutIsAQueue
  <2> HIDE DEF left
  <2>3. value[s] \in Nat
    BY <1>1 DEF TypeOK
  <2> QED BY <1>1, <2>1, <2>2, <2>3, GiveBackCases
<1> QED BY <1>2, <1>3, <1>4
    DEF Next, vars, Submit, Proceed, Invoke, StartTooLate, GiveUp, Finish

(* No call waits for a semaphore that has a free permit, however permits are
   released, timed out and cancelled.                                        *)
THEOREM NoWakeupLost == Spec => []NoIdlePermit
<1>1. Init => NoIdlePermit
  BY DEF Init, NoIdlePermit
<1> QED BY <1>1, StructureAlways, StepNoIdle, PTL DEF Spec

-----------------------------------------------------------------------------
(* Permits are conserved. *)

LEMMA CallSubsets ==
  ASSUME NEW A, A \subseteq Calls
  PROVE  IsFiniteSet(A) /\ Cardinality(A) \in Nat
BY LimitAssumption, FS_Subset, FS_CardinalityType

LEMMA StepPermits == Structure /\ PermitsConserved /\ [Next]_vars => PermitsConserved'
<1> SUFFICES ASSUME Structure, PermitsConserved, [Next]_vars, NEW s \in Semaphores
             PROVE  value'[s] + Cardinality(held'[s]) = Limit[s]
  BY DEF PermitsConserved, Limit
<1>1. /\ TypeOK /\ QueueInv /\ value[s] + Cardinality(held[s]) = Limit[s]
      /\ value[s] \in Nat /\ held[s] \subseteq Calls
  BY DEF Structure, PermitsConserved, TypeOK
<1>2. CASE UNCHANGED semVars
  BY <1>1, <1>2 DEF semVars
<1>3. ASSUME NEW c \in Calls, Ask(c)
      PROVE  value'[s] + Cardinality(held'[s]) = Limit[s]
  <2>1. PICK r \in Semaphores :
          /\ c \notin held[r]
          /\ IF Free(r)
             THEN /\ value' = [value EXCEPT ![r] = @ - 1]
                  /\ held' = [held EXCEPT ![r] = @ \cup {c}]
             ELSE UNCHANGED <<value, held>>
    BY <1>3 DEF Ask, Asking
  <2>2. CASE ~Free(r) \/ r # s
    BY <1>1, <2>1, <2>2 DEF TypeOK
  <2>3. CASE Free(r) /\ r = s
    <3>1. value'[s] = value[s] - 1 /\ held'[s] = held[s] \cup {c} /\ c \notin held[s]
      BY <1>1, <2>1, <2>3 DEF TypeOK
    <3>2. Cardinality(held'[s]) = Cardinality(held[s]) + 1
      BY <1>1, <3>1, CallSubsets, FS_AddElement
    <3> QED BY <1>1, <3>1, <3>2, CallSubsets
  <2> QED BY <2>2, <2>3
<1>4. ASSUME NEW c \in Calls, Unwind(c)
      PROVE  value'[s] + Cardinality(held'[s]) = Limit[s]
  <2> DEFINE left == [r \in Semaphores |-> Without(c, r)]
  <2>1. GiveBack(c, left)
    BY <1>4 DEF Unwind
  <2> HIDE DEF left
  <2>2. CASE /\ c \notin held[s]
             /\ value'[s] = value[s] /\ held'[s] = held[s]
    BY <1>1, <2>2
  <2>3. CASE c \in held[s] /\ value'[s] = value[s] + 1 /\ held'[s] = held[s] \ {c}
    <3>1. Cardinality(held'[s]) = Cardinality(held[s]) - 1
      BY <1>1, <2>3, CallSubsets, FS_RemoveElement
    <3> QED BY <1>1, <2>3, <3>1, CallSubsets
  <2>4. CASE /\ c \in held[s] /\ queue[s] # <<>> /\ value'[s] = value[s]
             /\ held'[s] = (held[s] \ {c}) \cup {Head(queue[s])}
    <3>1. Head(queue[s]) \notin held[s] /\ Head(queue[s]) \in Calls
      <4>1. queue[s] \in Seq(Calls) /\ queue[s] # <<>>
        BY <1>1, <2>4 DEF TypeOK
      <4>2. 1 \in 1 .. Len(queue[s]) /\ Head(queue[s]) = queue[s][1]
        BY <4>1
      <4> QED BY <1>1, <4>1, <4>2 DEF QueueInv
    <3>2. Cardinality(held[s] \ {c}) = Cardinality(held[s]) - 1
      BY <1>1, <2>4, CallSubsets, FS_RemoveElement
    <3>3. Cardinality(held'[s]) = Cardinality(held[s] \ {c}) + 1
      BY <1>1, <2>4, <3>1, CallSubsets, FS_AddElement
    <3> QED BY <1>1, <2>4, <3>2, <3>3, CallSubsets
  <2> QED BY <2>1, <2>2, <2>3, <2>4, GiveBackCases
<1> QED BY <1>2, <1>3, <1>4
    DEF Next, vars, Submit, Proceed, Invoke, StartTooLate, GiveUp, Finish

(* Whichever way calls end, the permits of a semaphore and its holders add up to
   the limit of the configuration.                                           *)
THEOREM PermitsAlwaysConserved == Spec => []PermitsConserved
<1>1. Init => PermitsConserved
  BY FS_EmptySet, LimitAssumption DEF Init, PermitsConserved, Limit, Semaphores
<1> QED BY <1>1, StructureAlways, StepPermits, PTL DEF Spec

-----------------------------------------------------------------------------
(* The limits that follow. *)

(* The provider never has more calls, nor more recoveries, than configured.  *)
THEOREM LimitsRespected ==
  Spec => [](/\ Cardinality(Invoking) <= MaxInFlight
             /\ Cardinality(Of("RECOVERY", Invoking)) <= MaxRecovery)
<1>1. ASSUME Structure, PermitsConserved
      PROVE  /\ Cardinality(Invoking) <= MaxInFlight
             /\ Cardinality(Of("RECOVERY", Invoking)) <= MaxRecovery
  <2>1. /\ Invoking \subseteq held["total"]
        /\ Of("RECOVERY", Invoking) \subseteq held["recovery"]
    BY <1>1 DEF Structure, HoldersAreUnderWay, Of, Invoking, UnderWay
  <2>2. /\ held["total"] \subseteq Calls /\ held["recovery"] \subseteq Calls
        /\ value["total"] \in Nat /\ value["recovery"] \in Nat
        /\ value["total"] + Cardinality(held["total"]) = MaxInFlight
        /\ value["recovery"] + Cardinality(held["recovery"]) = MaxRecovery
    BY <1>1 DEF Structure, TypeOK, PermitsConserved, Limit, Semaphores
  <2>3. /\ Cardinality(Invoking) <= Cardinality(held["total"])
        /\ Cardinality(Of("RECOVERY", Invoking)) <= Cardinality(held["recovery"])
        /\ Cardinality(Invoking) \in Nat /\ Cardinality(Of("RECOVERY", Invoking)) \in Nat
    BY <2>1, <2>2, CallSubsets, FS_Subset DEF Invoking, Of
  <2> QED BY <2>2, <2>3, CallSubsets, LimitAssumption
<1> QED BY <1>1, StructureAlways, PermitsAlwaysConserved, PTL

(* Recoveries leave capacity: a whole image never waits behind recoveries alone
   (the recovery semaphore is taken first, run 102-105).                     *)
THEOREM WholeImagesHaveRoom == Spec => []WholeImageHasRoom
<1>1. ASSUME Structure, NoIdlePermit, PermitsConserved PROVE WholeImageHasRoom
  <2> SUFFICES ASSUME MaxRecovery < MaxInFlight, Of("WHOLE_IMAGE", Queued("total")) # {},
                      Of("WHOLE_IMAGE", held["total"]) = {}
               PROVE  FALSE
    BY DEF WholeImageHasRoom
  <2>1. /\ held["total"] \subseteq Calls /\ held["recovery"] \subseteq Calls
        /\ value["total"] \in Nat /\ value["recovery"] \in Nat
        /\ value["total"] + Cardinality(held["total"]) = MaxInFlight
        /\ value["recovery"] + Cardinality(held["recovery"]) = MaxRecovery
        /\ \A c \in Calls : kind[c] \in Kinds
    BY <1>1 DEF Structure, TypeOK, PermitsConserved, Limit, Semaphores
  <2>2. queue["total"] # <<>>
    BY DEF Of, Queued
  <2>3. value["total"] = 0
    BY <1>1, <2>1, <2>2 DEF NoIdlePermit, Semaphores
  <2>4. held["total"] \subseteq held["recovery"]
    <3>1. \A c \in held["total"] : kind[c] = "RECOVERY"
      BY <2>1 DEF Of, Kinds
    <3>2. \A c \in held["total"] : c \in UnderWay /\ at[c] # "recovery"
      BY <1>1 DEF Structure, HoldersAreUnderWay
    <3> QED BY <1>1, <3>1, <3>2 DEF Structure, HoldersAreUnderWay, Of
  <2>5. Cardinality(held["total"]) <= Cardinality(held["recovery"])
    BY <2>1, <2>4, CallSubsets, FS_Subset
  <2> QED BY <2>1, <2>3, <2>5, CallSubsets, LimitAssumption
<1> QED BY <1>1, StructureAlways, NoWakeupLost, PermitsAlwaysConserved, PTL

-----------------------------------------------------------------------------
LEMMA StepPending == Structure /\ PendingCountsCalls /\ [Next]_vars => PendingCountsCalls'
<1> SUFFICES ASSUME Structure, PendingCountsCalls, [Next]_vars
             PROVE  pending' = Cardinality(UnderWay') /\ pending' <= MaxPending
  BY DEF PendingCountsCalls
<1>1. /\ TypeOK /\ pending = Cardinality(UnderWay) /\ pending <= MaxPending
      /\ UnderWay \subseteq Calls /\ pending \in Int
  BY DEF Structure, PendingCountsCalls, UnderWay, TypeOK
<1>2. CASE pending' = pending /\ UnderWay' = UnderWay
  BY <1>1, <1>2
<1>3. ASSUME NEW c \in Calls, Submit(c)
      PROVE  pending' = Cardinality(UnderWay') /\ pending' <= MaxPending
  <2>1. PICK k \in Kinds : at' = [at EXCEPT ![c] = First(k)]
    BY <1>3 DEF Submit
  <2>2. at[c] = "new" /\ pending < MaxPending /\ pending' = pending + 1
    BY <1>3 DEF Submit, MaySubmit
  <2>3. UnderWay' = UnderWay \cup {c} /\ c \notin UnderWay
    BY <1>1, <2>1, <2>2 DEF UnderWay, TypeOK, First
  <2>4. Cardinality(UnderWay') = Cardinality(UnderWay) + 1
    BY <1>1, <2>3, CallSubsets, FS_AddElement
  <2> QED BY <1>1, <2>2, <2>4, LimitAssumption
<1>4. ASSUME NEW c \in Calls, at[c] # "new", Unwind(c)
      PROVE  pending' = Cardinality(UnderWay') /\ pending' <= MaxPending
  <2>1. at' = [at EXCEPT ![c] = "new"] /\ pending' = pending - 1
    BY <1>4 DEF Unwind
  <2>2. UnderWay' = UnderWay \ {c} /\ c \in UnderWay
    BY <1>1, <1>4, <2>1 DEF UnderWay, TypeOK
  <2>3. Cardinality(UnderWay') = Cardinality(UnderWay) - 1
    BY <1>1, <2>2, CallSubsets, FS_RemoveElement
  <2> QED BY <1>1, <2>1, <2>3, LimitAssumption
<1>5. ASSUME NEW c \in Calls, Proceed(c) \/ Invoke(c) \/ Ask(c)
      PROVE  pending' = pending /\ UnderWay' = UnderWay
  BY <1>1, <1>5 DEF Proceed, Invoke, Ask, Granted, UnderWay, TypeOK, Semaphores
<1>6. ASSUME NEW c \in Calls, StartTooLate(c) \/ GiveUp(c) \/ Finish(c)
      PROVE  at[c] # "new" /\ Unwind(c)
  BY <1>6 DEF StartTooLate, GiveUp, Finish, Granted, Semaphores
<1>7. ASSUME UNCHANGED vars PROVE pending' = pending /\ UnderWay' = UnderWay
  BY <1>7 DEF vars, UnderWay
<1> QED BY <1>2, <1>3, <1>4, <1>5, <1>6, <1>7 DEF Next

(* _pending is the number of calls under way and never exceeds its limit, so the
   max(0, ...) of the code is never needed.                                  *)
THEOREM PendingAlwaysCounts == Spec => []PendingCountsCalls
<1>1. Init => PendingCountsCalls
  <2> SUFFICES ASSUME Init PROVE PendingCountsCalls
    OBVIOUS
  <2>1. UnderWay = {}
    BY DEF Init, UnderWay
  <2> QED BY <2>1, FS_EmptySet, LimitAssumption DEF Init, PendingCountsCalls
<1> QED BY <1>1, StructureAlways, StepPending, PTL DEF Spec

-----------------------------------------------------------------------------
(* The counters of the snapshot. *)

LEMMA StepDrift == Structure /\ CountersDrift /\ [Next]_vars => CountersDrift'
<1> DEFINE A == Invoking
           R == Of("RECOVERY", Invoking)
<1> SUFFICES ASSUME Structure, CountersDrift, [Next]_vars
             PROVE  CountersDrift'
  OBVIOUS
<1>1. /\ TypeOK /\ A \subseteq Calls /\ R \subseteq Calls
      /\ active = Cardinality(A) + lateStarts
      /\ activeRecoveries \in Cardinality(R) .. Cardinality(R) + lateStarts
      /\ Cardinality(A) \in Nat /\ Cardinality(R) \in Nat /\ lateStarts \in Nat
  <2>1. TypeOK /\ A \subseteq Calls /\ R \subseteq Calls
    BY DEF Structure, Invoking, Of
  <2> QED BY <2>1, CallSubsets DEF CountersDrift, TypeOK
<1>2. ASSUME A' = A, R' = R, UNCHANGED countVars
      PROVE  CountersDrift'
  BY <1>1, <1>2 DEF CountersDrift, countVars
<1>3. ASSUME NEW c \in Calls, Invoke(c)
      PROVE  CountersDrift'
  <2>1. /\ at' = [at EXCEPT ![c] = "invoking"] /\ kind' = kind /\ lateStarts' = lateStarts
        /\ active' = active + 1 /\ activeRecoveries' = activeRecoveries + Recovery(c)
        /\ at[c] = "total"
    BY <1>3 DEF Invoke, Granted
  <2>2. A' = A \cup {c} /\ c \notin A /\ c \notin R
    BY <1>1, <2>1 DEF Invoking, Of, TypeOK
  <2>3. Cardinality(A') = Cardinality(A) + 1
    BY <1>1, <2>2, CallSubsets, FS_AddElement
  <2>4. Cardinality(R') = Cardinality(R) + Recovery(c)
    <3>1. CASE kind[c] = "RECOVERY"
      <4>1. R' = R \cup {c}
        BY <1>1, <2>1, <2>2, <3>1 DEF Invoking, Of, TypeOK
      <4> QED BY <1>1, <2>2, <3>1, <4>1, CallSubsets, FS_AddElement DEF Recovery
    <3>2. CASE kind[c] # "RECOVERY"
      <4>1. R' = R
        BY <1>1, <2>1, <2>2, <3>2 DEF Invoking, Of, TypeOK
      <4> QED BY <1>1, <3>2, <4>1 DEF Recovery
    <3> QED BY <3>1, <3>2
  <2> QED BY <1>1, <2>1, <2>3, <2>4 DEF CountersDrift, Recovery
<1>4. ASSUME NEW c \in Calls, StartTooLate(c)
      PROVE  CountersDrift'
  <2>1. /\ at' = [at EXCEPT ![c] = "new"] /\ kind' = kind /\ lateStarts' = lateStarts + 1
        /\ active' = active + 1 /\ activeRecoveries' = activeRecoveries + Recovery(c)
        /\ at[c] = "total"
    BY <1>4 DEF StartTooLate, Granted, Unwind
  <2>2. A' = A /\ R' = R
    BY <1>1, <2>1 DEF Invoking, Of, TypeOK
  <2> QED BY <1>1, <2>1, <2>2 DEF CountersDrift, Recovery
<1>5. ASSUME NEW c \in Calls, Finish(c)
      PROVE  CountersDrift'
  <2>1. /\ at' = [at EXCEPT ![c] = "new"] /\ kind' = kind /\ lateStarts' = lateStarts
        /\ active' = active - 1 /\ activeRecoveries' = activeRecoveries - Recovery(c)
        /\ at[c] = "invoking"
    BY <1>5 DEF Finish, Unwind
  <2>2. A' = A \ {c} /\ c \in A
    BY <1>1, <2>1 DEF Invoking, TypeOK
  <2>3. Cardinality(A') = Cardinality(A) - 1
    BY <1>1, <2>2, CallSubsets, FS_RemoveElement
  <2>4. Cardinality(R') = Cardinality(R) - Recovery(c)
    <3>1. CASE kind[c] = "RECOVERY"
      <4>1. R' = R \ {c} /\ c \in R
        BY <1>1, <2>1, <2>2, <3>1 DEF Invoking, Of, TypeOK
      <4> QED BY <1>1, <3>1, <4>1, CallSubsets, FS_RemoveElement DEF Recovery
    <3>2. CASE kind[c] # "RECOVERY"
      <4>1. R' = R
        BY <1>1, <2>1, <2>2, <3>2 DEF Invoking, Of, TypeOK
      <4> QED BY <1>1, <3>2, <4>1 DEF Recovery
    <3> QED BY <3>1, <3>2
  <2> QED BY <1>1, <2>1, <2>3, <2>4 DEF CountersDrift, Recovery
<1>6. ASSUME NEW c \in Calls, Submit(c) \/ Ask(c) \/ Proceed(c) \/ GiveUp(c)
      PROVE  A' = A /\ R' = R /\ UNCHANGED countVars
  <2>1. CASE Submit(c)
    <3>1. PICK k \in Kinds : /\ kind' = [kind EXCEPT ![c] = k]
                             /\ at' = [at EXCEPT ![c] = First(k)]
      BY <2>1 DEF Submit
    <3>2. at[c] = "new" /\ UNCHANGED countVars
      BY <2>1 DEF Submit
    <3>3. A' = A
      BY <1>1, <3>1, <3>2 DEF Invoking, TypeOK, First
    <3> QED BY <1>1, <3>1, <3>2, <3>3 DEF Invoking, Of, TypeOK
  <2>2. CASE Ask(c)
    BY <2>2 DEF Ask, Invoking, Of
  <2>3. CASE Proceed(c)
    BY <1>1, <2>3 DEF Proceed, Granted, Invoking, Of, TypeOK
  <2>4. CASE GiveUp(c)
    BY <1>1, <2>4 DEF GiveUp, Unwind, Invoking, Of, TypeOK, Semaphores
  <2> QED BY <1>6, <2>1, <2>2, <2>3, <2>4
<1>7. CASE UNCHANGED vars
  <2>1. A' = A /\ R' = R /\ UNCHANGED countVars
    BY <1>7 DEF vars, Invoking, Of
  <2> QED BY <1>2, <2>1
<1> QED BY <1>2, <1>3, <1>4, <1>5, <1>6, <1>7 DEF Next

(* For any limits the counters count the calls under way and those at the provider;
   the snapshot's are too high by the calls ended at the last check, never too low. *)
THEOREM CountersAlwaysFit == Spec => []CountersFit
<1>1. Init => CountersDrift
  <2> SUFFICES ASSUME Init PROVE CountersDrift
    OBVIOUS
  <2>1. Invoking = {} /\ Of("RECOVERY", Invoking) = {}
    BY DEF Init, Invoking, Of
  <2>2. Cardinality(Invoking) = 0 /\ Cardinality(Of("RECOVERY", Invoking)) = 0
    BY <2>1, FS_EmptySet
  <2>3. active = 0 /\ activeRecoveries = 0 /\ lateStarts = 0
    BY DEF Init
  <2> QED BY <2>2, <2>3 DEF CountersDrift
<1>2. Spec => []CountersDrift
  BY <1>1, StructureAlways, StepDrift, PTL DEF Spec
<1> QED BY <1>2, PendingAlwaysCounts, PTL DEF CountersFit

(* For any calls and limits permits, holders and counters agree at every moment. *)
THEOREM AccountsAlwaysFit == Spec => []Accounting
BY TypeCorrect, PermitsAlwaysConserved, HoldersCorrect, CountersAlwaysFit, PTL DEF Accounting
=============================================================================
