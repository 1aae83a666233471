---------------------------- MODULE Pieces_proofs ----------------------------
(***************************************************************************)
(* What is read piece by piece: the audio of a channel, frame after frame,  *)
(* and the language its utterances are taken to be in.                      *)
(*                                                                          *)
(* Of the detector, for every length of a frame and every setting: a list of *)
(* frames is a stretch of time without a gap, and each operator of the module *)
(* makes a stretch of one. The invariant says which stretch the list of the    *)
(* utterance being spoken is, and the pre-roll, and that the counters speak of *)
(* the same speech as the lists do.                                            *)
(*                                                                             *)
(* Of the language, for every number of utterances, every set of languages and *)
(* every history: whether a lock may be given up depends on the last            *)
(* detections, and what the context of a sentence is on the last sentence that  *)
(* was translated. The invariant ties both memories to the fates of the         *)
(* utterances they speak of.                                                    *)
(***************************************************************************)
EXTENDS VoiceActivityDetector, UtteranceLanguage,
        FiniteSetTheorems, SequenceTheorems, WellFoundedInduction, TLAPS

-----------------------------------------------------------------------------
(* The detector of speech. *)

TimedFrames == [start : Int, end : Int, speech : BOOLEAN]

(* A list of frames that covers the time from a to b.                        *)
Stretch(s, a, b) ==
  /\ s \in Seq(TimedFrames) /\ Len(s) > 0
  /\ \A i \in 1 .. Len(s) : s[i].start < s[i].end
  /\ \A i \in 1 .. Len(s) - 1 : s[i].end = s[i + 1].start
  /\ s[1].start = a /\ s[Len(s)].end = b

-----------------------------------------------------------------------------
(* The least and the greatest of some places. *)

LEMMA LeastPlace ==
  ASSUME NEW n \in Nat, NEW T, T \subseteq 1 .. n, T # {}
  PROVE  Min(T) \in T /\ \A y \in T : Min(T) <= y
<1>1. T \subseteq Nat
  OBVIOUS
<1>2. PICK x \in T : \A y \in T : ~(<<y, x>> \in OpToRel(<, Nat))
  BY <1>1, NatLessThanWellFounded, WFMin, Zenon
<1>3. \A y \in T : ~(y < x)
  BY <1>1, <1>2 DEF OpToRel
<1>4. \A y \in T : x <= y
  BY <1>1, <1>3
<1> QED BY <1>4 DEF Min

LEMMA GreatestPlace ==
  ASSUME NEW n \in Nat, NEW T, T \subseteq 1 .. n, T # {}
  PROVE  Max(T) \in T /\ \A y \in T : y <= Max(T)
<1> DEFINE U == { n + 1 - i : i \in T }
<1>1. U \subseteq 1 .. n /\ U # {}
  <2>1. \A i \in T : n + 1 - i \in 1 .. n
    OBVIOUS
  <2>2. PICK i \in T : TRUE
    OBVIOUS
  <2>3. n + 1 - i \in U
    BY <2>2
  <2> QED BY <2>1, <2>3
<1>2. PICK u \in U : \A y \in U : u <= y
  BY <1>1, LeastPlace
<1>3. PICK x \in T : u = n + 1 - x
  OBVIOUS
<1>4. \A y \in T : y <= x
  <2> TAKE y \in T
  <2>1. n + 1 - y \in U
    OBVIOUS
  <2> QED BY <1>2, <1>3, <2>1
<1>5. \A y \in T : x >= y
  BY <1>4
<1> QED BY <1>5 DEF Max

-----------------------------------------------------------------------------
(* Lists of frames. *)

LEMMA FramesTyped ==
  ASSUME NEW a, NEW b, NEW s, Stretch(s, a, b)
  PROVE  /\ Len(s) \in Nat \ {0} /\ DOMAIN s = 1 .. Len(s)
         /\ a \in Int /\ b \in Int
         /\ \A k \in 1 .. Len(s) :
              /\ s[k] \in TimedFrames /\ s[k].speech \in BOOLEAN
              /\ s[k].start \in Int /\ s[k].end \in Int /\ s[k].start < s[k].end
<1>1. s \in Seq(TimedFrames) /\ Len(s) \in Nat \ {0} /\ DOMAIN s = 1 .. Len(s)
  BY DEF Stretch
<1>2. \A k \in 1 .. Len(s) : s[k] \in TimedFrames
  BY <1>1, ElementOfSeq
<1>3. \A k \in 1 .. Len(s) :
        s[k].speech \in BOOLEAN /\ s[k].start \in Int /\ s[k].end \in Int
  BY <1>2 DEF TimedFrames
<1>4. a \in Int /\ b \in Int
  BY <1>1, <1>3 DEF Stretch
<1> QED BY <1>1, <1>2, <1>3, <1>4 DEF Stretch

LEMMA LaterFramesEndLater ==
  ASSUME NEW a, NEW b, NEW s, Stretch(s, a, b)
  PROVE  \A i, j \in 1 .. Len(s) : i < j => s[i].end <= s[j].start
<1> SUFFICES ASSUME NEW i \in 1 .. Len(s),
                    \E j \in 1 .. Len(s) : i < j /\ ~(s[i].end <= s[j].start)
             PROVE  FALSE
  OBVIOUS
<1> DEFINE T == { j \in 1 .. Len(s) : i < j /\ ~(s[i].end <= s[j].start) }
<1>1. T \subseteq 1 .. Len(s) /\ T # {} /\ Len(s) \in Nat
  BY DEF Stretch
<1>2. PICK j \in T : \A k \in T : j <= k
  BY <1>1, LeastPlace
<1>3. \A k \in 1 .. Len(s) : s[k] \in TimedFrames /\ s[k].start \in Int /\ s[k].end \in Int
  BY FramesTyped
<1>4. j - 1 \in 1 .. Len(s) /\ s[j - 1].end = s[j].start /\ s[j - 1].start < s[j - 1].end
  <2>1. j - 1 \in 1 .. Len(s) - 1 /\ j = (j - 1) + 1
    BY <1>1
  <2>2. s[j - 1].end = s[(j - 1) + 1].start
    BY <2>1 DEF Stretch
  <2> QED BY <1>1, <2>1, <2>2 DEF Stretch
<1>5. CASE j - 1 = i
  BY <1>3, <1>4, <1>5
<1>6. CASE j - 1 # i
  <2>1. j - 1 \notin T
    BY <1>1, <1>2
  <2> QED BY <1>1, <1>3, <1>4, <1>6, <2>1
<1> QED BY <1>5, <1>6

LEMMA StretchGrows ==
  ASSUME NEW a, NEW b, NEW s, Stretch(s, a, b), NEW f \in TimedFrames, f.start = b, f.start < f.end
  PROVE  /\ Stretch(Append(s, f), a, f.end)
         /\ Len(Append(s, f)) = Len(s) + 1 /\ Append(s, f)[Len(s) + 1] = f
         /\ \A i \in 1 .. Len(s) : Append(s, f)[i] = s[i]
<1>1. Append(s, f) \in Seq(TimedFrames) /\ Len(Append(s, f)) = Len(s) + 1 /\ Len(s) \in Nat
  BY DEF Stretch
<1>2. Append(s, f)[Len(s) + 1] = f /\ \A i \in 1 .. Len(s) : Append(s, f)[i] = s[i]
  BY DEF Stretch
<1> QED BY <1>1, <1>2 DEF Stretch

LEMMA OneFrame ==
  ASSUME NEW f \in TimedFrames, f.start < f.end
  PROVE  /\ Stretch(Append(<<>>, f), f.start, f.end)
         /\ Len(Append(<<>>, f)) = 1 /\ Append(<<>>, f)[1] = f
<1>1. <<>> \in Seq(TimedFrames) /\ Len(<<>>) = 0
  OBVIOUS
<1>2. Append(<<>>, f) \in Seq(TimedFrames) /\ Len(Append(<<>>, f)) = 1 /\ Append(<<>>, f)[1] = f
  BY <1>1
<1> QED BY <1>2 DEF Stretch

LEMMA SuffixIsStretch ==
  ASSUME NEW a, NEW b, NEW s, Stretch(s, a, b), NEW m \in 1 .. Len(s)
  PROVE  Stretch(SubSeq(s, m, Len(s)), s[m].start, b)
<1> DEFINE t == SubSeq(s, m, Len(s))
<1>1. Len(s) \in Nat /\ s \in Seq(TimedFrames) /\ m \in 1 .. Len(s)
  BY DEF Stretch
<1>5. /\ t \in Seq(TimedFrames) /\ Len(t) = Len(s) + 1 - m
      /\ \A i \in 1 .. Len(t) : t[i] = s[m - 1 + i]
  BY <1>1
<1> HIDE DEF t
<1>6. \A i \in 1 .. Len(t) : m - 1 + i \in 1 .. Len(s)
  BY <1>1, <1>5
<1>7. \A i \in 1 .. Len(t) : t[i].start < t[i].end
  BY <1>5, <1>6 DEF Stretch
<1>8. \A i \in 1 .. Len(t) - 1 : t[i].end = t[i + 1].start
  <2> TAKE i \in 1 .. Len(t) - 1
  <2>1. /\ m - 1 + i \in 1 .. Len(s) - 1 /\ i \in 1 .. Len(t) /\ i + 1 \in 1 .. Len(t)
        /\ m - 1 + (i + 1) = (m - 1 + i) + 1
    BY <1>1, <1>5
  <2>2. s[m - 1 + i].end = s[(m - 1 + i) + 1].start
    BY <2>1 DEF Stretch
  <2>3. t[i] = s[m - 1 + i] /\ t[i + 1] = s[m - 1 + (i + 1)]
    BY <1>5, <2>1
  <2> QED BY <2>1, <2>2, <2>3
<1>9. t[1].start = s[m].start /\ t[Len(t)].end = b
  <2>1. 1 \in 1 .. Len(t) /\ Len(t) \in 1 .. Len(t) /\ m - 1 + 1 = m /\ m - 1 + Len(t) = Len(s)
    BY <1>1, <1>5
  <2>2. t[1] = s[m - 1 + 1] /\ t[Len(t)] = s[m - 1 + Len(t)]
    BY <1>5, <2>1
  <2> QED BY <2>1, <2>2 DEF Stretch
<1>10. Stretch(t, s[m].start, b)
  BY <1>1, <1>5, <1>7, <1>8, <1>9 DEF Stretch
<1> QED BY <1>10 DEF t

(* Every frame of s that ends behind t is a frame of kept, whole if it begins there too. *)
FramesKept(kept, s, t) ==
  \A j \in 1 .. Len(s) : s[j].end > t =>
    \E i \in 1 .. Len(kept) :
      /\ kept[i].end = s[j].end /\ kept[i].speech = s[j].speech
      /\ t <= s[j].start => kept[i].start = s[j].start

(* The list from t on: cut, where it must be, in its first frame only.       *)
LEMMA FromIsStretch ==
  ASSUME NEW a, NEW b, NEW s, Stretch(s, a, b), NEW t \in Int, t < b, NEW kept, kept = From(s, t)
  PROVE  /\ Stretch(kept, IF a < t THEN t ELSE a, b)
         /\ \A i \in 1 .. Len(kept) :
              \E j \in 1 .. Len(s) : kept[i].end = s[j].end /\ kept[i].speech = s[j].speech
         /\ FramesKept(kept, s, t)
<1> DEFINE later == { i \in DOMAIN s : s[i].end > t }
           u == Behind(s, later)
           Cut(f) == [f EXCEPT !.start = IF @ < t THEN t ELSE @]
<1>0. kept = [i \in DOMAIN u |-> Cut(u[i])]
  BY DEF From
<1>1. /\ Len(s) \in Nat \ {0} /\ DOMAIN s = 1 .. Len(s) /\ a \in Int /\ b \in Int
      /\ \A k \in 1 .. Len(s) :
           /\ s[k] \in TimedFrames /\ s[k].speech \in BOOLEAN
           /\ s[k].start \in Int /\ s[k].end \in Int /\ s[k].start < s[k].end
  BY FramesTyped
<1>2. later # {} /\ later \subseteq 1 .. Len(s)
  <2>1. Len(s) \in later
    BY <1>1 DEF Stretch
  <2> QED BY <1>1, <2>1
<1> HIDE DEF later
<1> DEFINE m == Min(later)
<1>3. /\ m \in later /\ \A i \in later : m <= i
      /\ m \in 1 .. Len(s) /\ m \in Nat
  <2>1. m \in later
    BY <1>1, <1>2, LeastPlace
  <2>2. m \in 1 .. Len(s) /\ m \in Nat
    <3>1. m \in 1 .. Len(s)
      BY <1>2, <2>1
    <3> HIDE DEF m
    <3> QED BY <1>1, <3>1
  <2>3. \A i \in later : m <= i
    BY <1>1, <1>2, <2>2, LeastPlace
  <2> QED BY <2>1, <2>2, <2>3
<1> HIDE DEF m
<1>3a. u = SubSeq(s, m, Len(s))
  BY <1>2 DEF Behind, m
<1> HIDE DEF u
<1>3b. /\ Stretch(u, s[m].start, b) /\ Len(u) = Len(s) + 1 - m
      /\ \A i \in 1 .. Len(u) : u[i] = s[m - 1 + i]
  <2>1. Stretch(u, s[m].start, b)
    BY <1>3, <1>3a, SuffixIsStretch
  <2>2. s \in Seq(TimedFrames)
    BY DEF Stretch
  <2>3. Len(u) = Len(s) + 1 - m /\ \A i \in 1 .. Len(u) : u[i] = s[m - 1 + i]
    BY <1>1, <1>3, <1>3a, <2>2
  <2> QED BY <2>1, <2>3
<1>4. m \in 1 .. Len(s) /\ s[m].end > t
  BY <1>3, <1>3b DEF later
<1>5. (IF s[m].start < t THEN t ELSE s[m].start) = IF a < t THEN t ELSE a
  <2>1. CASE m = 1
    BY <2>1 DEF Stretch
  <2>2. CASE m # 1
    <3>1. m - 1 \in 1 .. Len(s) - 1 /\ (m - 1) + 1 = m /\ m - 1 \in 1 .. Len(s)
      BY <1>1, <1>4, <2>2
    <3>2. s[m - 1].end = s[m].start
      BY <3>1 DEF Stretch
    <3>3. ~(s[m - 1].end > t)
      <4>1. m - 1 \notin later
        BY <1>1, <1>3, <1>3b, <1>4
      <4> QED BY <1>1, <3>1, <4>1 DEF later
    <3>4. s[1].end <= s[m].start /\ s[1].start < s[1].end /\ s[1].start = a
      <4>1. 1 \in 1 .. Len(s) /\ 1 < m
        BY <1>1, <1>4, <2>2
      <4>2. s[1].end <= s[m].start
        BY <1>4, <4>1, LaterFramesEndLater
      <4> QED BY <4>1, <4>2 DEF Stretch
    <3> QED BY <1>1, <1>4, <3>1, <3>2, <3>3, <3>4
  <2> QED BY <2>1, <2>2
<1>6. \A i \in 2 .. Len(u) : u[i].start > t
  <2> TAKE i \in 2 .. Len(u)
  <2>1. m - 1 + i \in 1 .. Len(s) /\ m < m - 1 + i /\ i \in 1 .. Len(u)
    BY <1>1, <1>3, <1>3b, <1>4
  <2>2. s[m].end <= s[m - 1 + i].start
    BY <1>4, <2>1, LaterFramesEndLater
  <2>3. u[i] = s[m - 1 + i]
    BY <1>3, <1>3b, <2>1
  <2> QED BY <1>1, <1>4, <2>1, <2>2, <2>3
<1>7. /\ Len(u) \in Nat \ {0} /\ DOMAIN u = 1 .. Len(u)
      /\ \A k \in 1 .. Len(u) :
           /\ u[k] \in TimedFrames /\ u[k].speech \in BOOLEAN
           /\ u[k].start \in Int /\ u[k].end \in Int /\ u[k].start < u[k].end
  BY <1>3, <1>3b, FramesTyped
<1>8. \A k \in 1 .. Len(u) :
        /\ Cut(u[k]) \in TimedFrames
        /\ Cut(u[k]).end = u[k].end /\ Cut(u[k]).speech = u[k].speech
        /\ Cut(u[k]).start = IF u[k].start < t THEN t ELSE u[k].start
  BY <1>7 DEF TimedFrames
<1>9. /\ kept \in Seq(TimedFrames) /\ Len(kept) = Len(u)
      /\ \A k \in 1 .. Len(u) : kept[k] = Cut(u[k])
  <2>1. kept \in [1 .. Len(u) -> TimedFrames]
    BY <1>0, <1>7, <1>8
  <2> QED BY <1>0, <1>7, <2>1
<1> HIDE DEF Cut
<1>10. u[1].end > t
  <2>1. 1 \in 1 .. Len(u) /\ m - 1 + 1 = m
    BY <1>1, <1>4, <1>7
  <2>2. u[1] = s[m - 1 + 1]
    BY <1>3, <1>3b, <2>1
  <2> QED BY <1>4, <2>1, <2>2
<1>11. \A k \in 1 .. Len(u) :
         /\ kept[k].end = u[k].end /\ kept[k].speech = u[k].speech
         /\ kept[k].start = IF u[k].start < t THEN t ELSE u[k].start
  BY <1>8, <1>9
<1>12. \A k \in 1 .. Len(u) : u[k].end > t
  <2> TAKE k \in 1 .. Len(u)
  <2>1. CASE k = 1
    BY <1>10, <2>1
  <2>2. CASE k # 1
    BY <1>6, <1>7, <2>2
  <2> QED BY <2>1, <2>2
<1>13. Stretch(kept, IF a < t THEN t ELSE a, b)
  <2>1. \A k \in 1 .. Len(u) : kept[k].start < kept[k].end
    BY <1>7, <1>11, <1>12
  <2>2. \A k \in 1 .. Len(u) - 1 : kept[k].end = kept[k + 1].start
    <3> TAKE k \in 1 .. Len(u) - 1
    <3>1. k \in 1 .. Len(u) /\ k + 1 \in 2 .. Len(u) /\ k + 1 \in 1 .. Len(u)
      BY <1>7
    <3>2. u[k].end = u[k + 1].start /\ u[k + 1].start > t
      BY <1>3, <1>3b, <1>6, <3>1 DEF Stretch
    <3> QED BY <1>7, <1>11, <3>1, <3>2
  <2>3. kept[1].start = (IF a < t THEN t ELSE a) /\ kept[Len(u)].end = b
    <3>1. 1 \in 1 .. Len(u) /\ Len(u) \in 1 .. Len(u)
      BY <1>7
    <3> QED BY <1>3, <1>3b, <1>5, <1>11, <3>1 DEF Stretch
  <2> QED BY <1>7, <1>9, <2>1, <2>2, <2>3 DEF Stretch
<1>14. \A i \in 1 .. Len(kept) :
         \E j \in 1 .. Len(s) : kept[i].end = s[j].end /\ kept[i].speech = s[j].speech
  <2> TAKE i \in 1 .. Len(kept)
  <2>1. i \in 1 .. Len(u)
    BY <1>9
  <2>2. m - 1 + i \in 1 .. Len(s)
    BY <1>1, <1>3, <1>3b, <2>1
  <2>3. u[i] = s[m - 1 + i]
    BY <1>3b, <2>1
  <2> QED BY <1>11, <2>1, <2>2, <2>3
<1>15. ASSUME NEW j \in 1 .. Len(s), s[j].end > t
       PROVE  \E i \in 1 .. Len(kept) :
                /\ kept[i].end = s[j].end /\ kept[i].speech = s[j].speech
                /\ t <= s[j].start => kept[i].start = s[j].start
  <2>1. j \in later
    BY <1>1, <1>15 DEF later
  <2>2. j + 1 - m \in 1 .. Len(u) /\ m - 1 + (j + 1 - m) = j
    BY <1>1, <1>3, <1>3b, <1>4, <2>1
  <2>3. u[j + 1 - m] = s[j]
    BY <1>3, <1>3b, <2>2
  <2> QED BY <1>1, <1>9, <1>11, <2>2, <2>3
<1> QED BY <1>13, <1>14, <1>15 DEF FramesKept

LEMMA WithinBounds ==
  ASSUME NEW a, NEW b, NEW s, Stretch(s, a, b)
  PROVE  \A i \in 1 .. Len(s) : a <= s[i].start /\ s[i].end <= b
<1>1. /\ Len(s) \in Nat \ {0} /\ a \in Int /\ b \in Int
      /\ \A k \in 1 .. Len(s) :
           s[k].start \in Int /\ s[k].end \in Int /\ s[k].start < s[k].end
  BY FramesTyped
<1> TAKE i \in 1 .. Len(s)
<1>2. s[1].start = a /\ s[Len(s)].end = b
  BY DEF Stretch
<1>3. a <= s[i].start
  <2>1. CASE i = 1
    BY <1>1, <1>2, <2>1
  <2>2. CASE i # 1
    <3>1. 1 \in 1 .. Len(s) /\ 1 < i
      BY <1>1, <2>2
    <3>2. s[1].end <= s[i].start
      BY <3>1, LaterFramesEndLater
    <3> QED BY <1>1, <1>2, <3>1, <3>2
  <2> QED BY <2>1, <2>2
<1>4. s[i].end <= b
  <2>1. CASE i = Len(s)
    BY <1>1, <1>2, <2>1
  <2>2. CASE i # Len(s)
    <3>1. Len(s) \in 1 .. Len(s) /\ i < Len(s)
      BY <1>1, <2>2
    <3>2. s[i].end <= s[Len(s)].start
      BY <3>1, LaterFramesEndLater
    <3> QED BY <1>1, <1>2, <3>1, <3>2
  <2> QED BY <2>1, <2>2
<1> QED BY <1>3, <1>4

(* The list up to t: cut, where it must be, in its last frame only.          *)
LEMMA UntilIsStretch ==
  ASSUME NEW a, NEW b, NEW s, Stretch(s, a, b), NEW t \in Int, a < t, t <= b
  PROVE  /\ Stretch(Until(s, t), a, t)
         /\ \A i \in 1 .. Len(Until(s, t)) :
              /\ i \in 1 .. Len(s)
              /\ Until(s, t)[i].end <= s[i].end /\ Until(s, t)[i].speech = s[i].speech
<1> DEFINE early == { i \in DOMAIN s : s[i].start < t }
           m == Max(early)
           u == SubSeq(s, 1, m)
           Cut(f) == [f EXCEPT !.end = IF @ > t THEN t ELSE @]
           kept == [i \in DOMAIN u |-> Cut(u[i])]
<1>1. Until(s, t) = kept
  BY DEF Until
<1>2. /\ Len(s) \in Nat \ {0} /\ DOMAIN s = 1 .. Len(s) /\ a \in Int /\ b \in Int
      /\ \A k \in 1 .. Len(s) :
           /\ s[k] \in TimedFrames /\ s[k].speech \in BOOLEAN
           /\ s[k].start \in Int /\ s[k].end \in Int /\ s[k].start < s[k].end
  BY FramesTyped
<1>3. s \in Seq(TimedFrames)
  BY DEF Stretch
<1>4. early # {} /\ early \subseteq 1 .. Len(s)
  <2>1. 1 \in early
    BY <1>2 DEF Stretch
  <2> QED BY <1>2, <2>1
<1> HIDE DEF early
<1>5. m \in early
  BY <1>2, <1>4, GreatestPlace
<1>6. m \in 1 .. Len(s)
  BY <1>4, <1>5
<1>7. \A i \in early : i <= m
  BY <1>2, <1>4, <1>6, GreatestPlace
<1> HIDE DEF m
<1>8. s[m].start < t
  BY <1>5, <1>6 DEF early
<1>9. Len(u) = m /\ DOMAIN u = 1 .. m /\ \A i \in 1 .. m : u[i] = s[i] /\ i \in 1 .. Len(s)
  BY <1>2, <1>3, <1>6
<1> HIDE DEF u
<1>10. \A i \in 1 .. m :
         /\ Cut(u[i]) \in TimedFrames
         /\ Cut(u[i]).start = s[i].start /\ Cut(u[i]).speech = s[i].speech
         /\ Cut(u[i]).end = IF s[i].end > t THEN t ELSE s[i].end
  BY <1>2, <1>9 DEF TimedFrames
<1>11. /\ kept \in Seq(TimedFrames) /\ Len(kept) = m
       /\ \A i \in 1 .. m : kept[i] = Cut(u[i])
  <2>1. kept \in [1 .. m -> TimedFrames] /\ m \in Nat
    BY <1>2, <1>6, <1>9, <1>10
  <2> QED BY <1>9, <2>1
<1> HIDE DEF kept, Cut
<1>12. \A i \in 1 .. m :
         /\ kept[i].start = s[i].start /\ kept[i].speech = s[i].speech
         /\ kept[i].end = IF s[i].end > t THEN t ELSE s[i].end
  BY <1>10, <1>11
<1>13. \A i \in 1 .. m - 1 : s[i].end <= s[m].start
  <2> TAKE i \in 1 .. m - 1
  <2>1. i \in 1 .. Len(s) /\ i < m
    BY <1>2, <1>6
  <2> QED BY <1>6, <2>1, LaterFramesEndLater
<1>14. s[m].end >= t
  <2>1. CASE m = Len(s)
    BY <1>2, <2>1 DEF Stretch
  <2>2. CASE m # Len(s)
    <3>0. Len(s) \in Nat
      BY <1>2
    <3>1. m \in 1 .. Len(s) - 1 /\ m + 1 \in 1 .. Len(s)
      BY <1>6, <2>2, <3>0
    <3>2. s[m].end = s[m + 1].start
      BY <3>1 DEF Stretch
    <3>3. m + 1 \notin early
      BY <1>2, <1>6, <1>7
    <3> QED BY <1>2, <1>6, <3>1, <3>2, <3>3 DEF early
  <2> QED BY <2>1, <2>2
<1>15. \A i \in 1 .. m : kept[i].start < kept[i].end
  <2> TAKE i \in 1 .. m
  <2>1. CASE i = m
    BY <1>2, <1>6, <1>8, <1>12, <2>1
  <2>2. CASE i # m
    <3>1. i \in 1 .. m - 1 /\ i \in 1 .. Len(s)
      BY <1>2, <1>6, <2>2
    <3> QED BY <1>2, <1>6, <1>8, <1>12, <1>13, <3>1
  <2> QED BY <2>1, <2>2
<1>16. \A i \in 1 .. m - 1 : kept[i].end = kept[i + 1].start
  <2> TAKE i \in 1 .. m - 1
  <2>1. i \in 1 .. m /\ i + 1 \in 1 .. m /\ i \in 1 .. Len(s) - 1 /\ i \in 1 .. Len(s)
    BY <1>2, <1>6
  <2>2. s[i].end = s[i + 1].start
    BY <2>1 DEF Stretch
  <2>3. s[i].end <= t
    BY <1>2, <1>6, <1>8, <1>13, <2>1
  <2> QED BY <1>2, <1>12, <2>1, <2>2, <2>3
<1>17. kept[1].start = a /\ kept[m].end = t
  <2>1. 1 \in 1 .. m /\ m \in 1 .. m
    BY <1>2, <1>6
  <2>2. s[1].start = a
    BY DEF Stretch
  <2> QED BY <1>2, <1>6, <1>12, <1>14, <2>1, <2>2
<1>18. Stretch(kept, a, t)
  <2>1. m \in Nat \ {0}
    BY <1>2, <1>6
  <2>2. Len(kept) > 0
    BY <1>11, <2>1
  <2>3. \A i \in 1 .. Len(kept) : kept[i].start < kept[i].end
    BY <1>11, <1>15
  <2>4. \A i \in 1 .. Len(kept) - 1 : kept[i].end = kept[i + 1].start
    BY <1>11, <1>16
  <2>5. kept[1].start = a /\ kept[Len(kept)].end = t
    BY <1>11, <1>17
  <2> QED BY <1>11, <2>2, <2>3, <2>4, <2>5 DEF Stretch
<1>19. \A i \in 1 .. m : i \in 1 .. Len(s) /\ kept[i].end <= s[i].end
  BY <1>2, <1>9, <1>12
<1> QED BY <1>1, <1>11, <1>12, <1>18, <1>19

(* The newest frames: the last one, and as many before it as there is room for. *)
LEMMA NewestIsStretch ==
  ASSUME NEW a, NEW b, NEW s, Stretch(s, a, b), NEW ms \in Int,
         b - s[Len(s)].start <= ms
  PROVE  \E c \in Int :
           /\ Stretch(Newest(s, ms), c, b) /\ a <= c /\ b - c <= ms
           /\ \A i \in 1 .. Len(Newest(s, ms)) :
                \E j \in 1 .. Len(s) : Newest(s, ms)[i] = s[j]
           /\ Newest(s, ms)[Len(Newest(s, ms))] = s[Len(s)]
<1> DEFINE places == { i \in DOMAIN s : End(s) - s[i].start <= ms }
           m == Min(places)
           u == Newest(s, ms)
<1>1. /\ Len(s) \in Nat \ {0} /\ DOMAIN s = 1 .. Len(s) /\ a \in Int /\ b \in Int
      /\ \A k \in 1 .. Len(s) : s[k].start \in Int /\ s[k].end \in Int
  BY FramesTyped
<1>2. s \in Seq(TimedFrames) /\ End(s) = b
  BY DEF Stretch, End
<1>3. places # {} /\ places \subseteq 1 .. Len(s)
  <2>1. Len(s) \in places
    BY <1>1, <1>2
  <2> QED BY <1>1, <2>1
<1>4. u = SubSeq(s, m, Len(s))
  BY <1>3 DEF Newest, Behind
<1> HIDE DEF places, u
<1>5. m \in places
  BY <1>1, <1>3, LeastPlace
<1>6. m \in 1 .. Len(s)
  BY <1>3, <1>5
<1> HIDE DEF m
<1>7. Stretch(u, s[m].start, b)
  BY <1>4, <1>6, SuffixIsStretch
<1>8. a <= s[m].start /\ s[m].start \in Int
  BY <1>1, <1>6, WithinBounds
<1>9. b - s[m].start <= ms
  BY <1>2, <1>5 DEF places
<1>10. Len(u) = Len(s) + 1 - m /\ \A i \in 1 .. Len(u) : u[i] = s[m - 1 + i]
  BY <1>1, <1>2, <1>4, <1>6
<1>11. \A i \in 1 .. Len(u) : \E j \in 1 .. Len(s) : u[i] = s[j]
  <2> TAKE i \in 1 .. Len(u)
  <2>1. m - 1 + i \in 1 .. Len(s)
    BY <1>1, <1>6, <1>10
  <2> QED BY <1>10, <2>1
<1>12. u[Len(u)] = s[Len(s)]
  <2>1. Len(u) \in 1 .. Len(u) /\ m - 1 + Len(u) = Len(s)
    BY <1>1, <1>6, <1>10
  <2>2. u[Len(u)] = s[m - 1 + Len(u)]
    BY <1>10, <2>1
  <2> QED BY <2>1, <2>2
<1> QED BY <1>7, <1>8, <1>9, <1>11, <1>12 DEF u

-----------------------------------------------------------------------------
(* Speech in lists of frames. *)

SpeechFrom(s, x) == \A i \in 1 .. Len(s) : s[i].end > x => s[i].speech

LEMMA NoSpeechInNothing == SpeechMs(<<>>) = 0
<1>1. SpeechIn(<<>>) = {}
  BY DEF SpeechIn
<1>2. UNION { <<>>[i].start .. <<>>[i].end - 1 : i \in SpeechIn(<<>>) } = {}
  BY <1>1
<1> QED BY <1>2, FS_EmptySet DEF SpeechMs

LEMMA IntervalCounted ==
  ASSUME NEW y \in Int, NEW z \in Int
  PROVE  /\ IsFiniteSet(y .. z - 1)
         /\ Cardinality(y .. z - 1) \in Nat /\ Cardinality(y .. z - 1) >= z - y
<1>1. z - 1 \in Int
  OBVIOUS
<1>2. IsFiniteSet(y .. z - 1) /\ Cardinality(y .. z - 1) = IF y > z - 1 THEN 0 ELSE (z - 1) - y + 1
  BY <1>1, FS_Interval
<1> QED BY <1>1, <1>2

LEMMA SpeechLasts ==
  ASSUME NEW a, NEW b, NEW s, Stretch(s, a, b), NEW x \in Int, SpeechFrom(s, x)
  PROVE  SpeechMs(s) \in Nat /\ SpeechMs(s) >= b - (IF a < x THEN x ELSE a)
<1> DEFINE U == UNION { s[i].start .. s[i].end - 1 : i \in SpeechIn(s) }
           y == IF a < x THEN x ELSE a
<1>1. /\ Len(s) \in Nat \ {0} /\ DOMAIN s = 1 .. Len(s) /\ a \in Int /\ b \in Int
      /\ \A k \in 1 .. Len(s) : s[k].start \in Int /\ s[k].end \in Int
  BY FramesTyped
<1>2. \A i \in SpeechIn(s) : s[i].start .. s[i].end - 1 \subseteq a .. b - 1
  <2> TAKE i \in SpeechIn(s)
  <2>1. i \in 1 .. Len(s)
    BY <1>1 DEF SpeechIn
  <2>2. a <= s[i].start /\ s[i].end <= b
    BY <2>1, WithinBounds
  <2> QED BY <1>1, <2>1, <2>2
<1>3. U \subseteq a .. b - 1
  BY <1>2
<1>4. IsFiniteSet(a .. b - 1) /\ IsFiniteSet(U)
  BY <1>1, <1>3, IntervalCounted, FS_Subset
<1>5. y .. b - 1 \subseteq U
  <2> SUFFICES ASSUME NEW p \in y .. b - 1
               PROVE  p \in U
    OBVIOUS
  <2>1. p \in Int /\ a <= p /\ x <= p /\ p < b
    BY <1>1
  <2> DEFINE T == { i \in 1 .. Len(s) : s[i].end > p }
  <2>2. Len(s) \in T
    BY <1>1, <2>1 DEF Stretch
  <2>3. PICK i \in T : \A j \in T : i <= j
    <3>1. T \subseteq 1 .. Len(s) /\ T # {} /\ Len(s) \in Nat
      BY <1>1, <2>2
    <3> QED BY <3>1, LeastPlace
  <2>4. i \in 1 .. Len(s) /\ s[i].end > p
    OBVIOUS
  <2>5. s[i].start <= p
    <3>1. CASE i = 1
      BY <2>1, <3>1 DEF Stretch
    <3>2. CASE i # 1
      <4>1. i - 1 \in 1 .. Len(s) - 1 /\ i - 1 \in 1 .. Len(s) /\ (i - 1) + 1 = i
        BY <1>1, <2>4, <3>2
      <4>2. s[i - 1].end = s[i].start
        BY <4>1 DEF Stretch
      <4>3. i - 1 \notin T
        BY <1>1, <2>3, <2>4
      <4> QED BY <1>1, <2>1, <4>1, <4>2, <4>3
    <3> QED BY <3>1, <3>2
  <2>6. s[i].speech
    BY <1>1, <2>1, <2>4 DEF SpeechFrom
  <2>7. i \in SpeechIn(s) /\ p \in s[i].start .. s[i].end - 1
    BY <1>1, <2>1, <2>4, <2>5, <2>6 DEF SpeechIn
  <2> QED BY <2>7
<1> HIDE DEF U
<1>6. Cardinality(U) \in Nat /\ Cardinality(y .. b - 1) <= Cardinality(U)
  BY <1>4, <1>5, FS_Subset, FS_CardinalityType
<1>7. Cardinality(y .. b - 1) \in Nat /\ Cardinality(y .. b - 1) >= b - y
  <2>1. y \in Int
    BY <1>1
  <2> HIDE DEF y
  <2> QED BY <1>1, <2>1, IntervalCounted
<1>8. SpeechMs(s) = Cardinality(U)
  BY DEF SpeechMs, U
<1> QED BY <1>1, <1>6, <1>7, <1>8

LEMMA FirstAndLastSpeech ==
  ASSUME NEW a, NEW b, NEW s, Stretch(s, a, b), NEW k \in 1 .. Len(s), s[k].speech
  PROVE  /\ \E j \in 1 .. Len(s) : s[j].speech /\ FirstSpeech(s) = s[j].start
         /\ FirstSpeech(s) <= s[k].start /\ s[k].end <= LastSpeech(s)
         /\ a <= FirstSpeech(s) /\ LastSpeech(s) <= b
         /\ FirstSpeech(s) \in Int /\ LastSpeech(s) \in Int
<1> DEFINE S == SpeechIn(s)
           i == Min(S)
           j == Max(S)
<1>1. /\ Len(s) \in Nat \ {0} /\ DOMAIN s = 1 .. Len(s) /\ a \in Int /\ b \in Int
      /\ \A n \in 1 .. Len(s) :
           s[n].start \in Int /\ s[n].end \in Int /\ s[n].start < s[n].end
  BY FramesTyped
<1>2. k \in S /\ S \subseteq 1 .. Len(s)
  BY <1>1 DEF SpeechIn
<1>3. FirstSpeech(s) = s[i].start /\ LastSpeech(s) = s[j].end
  BY DEF FirstSpeech, LastSpeech
<1>4. \A n \in S : s[n].speech
  BY DEF SpeechIn
<1> HIDE DEF S
<1>5. i \in S /\ j \in S
  BY <1>1, <1>2, LeastPlace, GreatestPlace
<1>6. i \in 1 .. Len(s) /\ j \in 1 .. Len(s)
  BY <1>2, <1>5
<1>7. i <= k /\ k <= j
  BY <1>1, <1>2, <1>6, LeastPlace, GreatestPlace
<1> HIDE DEF i, j
<1>8. s[i].start <= s[k].start
  <2>1. CASE i = k
    BY <1>1, <2>1
  <2>2. CASE i # k
    <3>1. i < k
      BY <1>1, <1>6, <1>7, <2>2
    <3>2. s[i].end <= s[k].start
      BY <1>6, <3>1, LaterFramesEndLater
    <3> QED BY <1>1, <1>6, <3>2
  <2> QED BY <2>1, <2>2
<1>9. s[k].end <= s[j].end
  <2>1. CASE k = j
    BY <1>1, <2>1
  <2>2. CASE k # j
    <3>1. k < j
      BY <1>1, <1>6, <1>7, <2>2
    <3>2. s[k].end <= s[j].start
      BY <1>6, <3>1, LaterFramesEndLater
    <3> QED BY <1>1, <1>6, <3>2
  <2> QED BY <2>1, <2>2
<1>10. a <= s[i].start /\ s[j].end <= b
  BY <1>6, WithinBounds
<1> QED BY <1>1, <1>3, <1>4, <1>5, <1>6, <1>8, <1>9, <1>10

-----------------------------------------------------------------------------
(* The invariant of the detector. *)

Counters ==
  /\ offset \in Times /\ run \in 0 .. offset /\ active \in BOOLEAN
  /\ candidate \in Nat /\ silence \in Nat /\ nextPartial \in Nat
  /\ idleStart \in Int /\ idleStart <= offset
  /\ boundary \in Int /\ boundary <= offset

(* The utterance being spoken: its frames reach from where it was announced until now,
   its first speech lies behind the pre-roll.                                *)
Speaking ==
  active =>
    /\ preRoll = <<>> /\ idleStart = NoTime
    /\ Stretch(activeFrames, announced, offset) /\ announced >= 0
    /\ first \in Int /\ announced <= first /\ first - announced <= PreRollMs
    /\ last \in Int /\ first < last /\ last <= offset /\ silence = offset - last
    /\ offset - announced < PreRollMs + MaximumUtteranceMs
    /\ SpeechFrom(activeFrames, offset - run)

(* What is kept for the next one begins behind the last, and no evidence is forgotten but
   what is enough with one frame more.                                       *)
Listening ==
  ~active =>
    /\ activeFrames = <<>> /\ first = NoTime /\ last = NoTime
    /\ preRoll # <<>> =>
         \E a \in Int : Stretch(preRoll, a, offset) /\ a >= 0 /\ a >= boundary
    /\ SpeechFrom(preRoll, offset - run)
    /\ candidate >= run \/ candidate + FrameMs >= StartEvidenceMs

DetectorIInv == Counters /\ Speaking /\ Listening /\ CutsFit /\ SpeechIsKept

LEMMA Durations ==
  ASSUME DurationAssumption
  PROVE  /\ FrameMs \in Nat \ {0} /\ EndpointingSilenceMs \in Nat \ {0}
         /\ MinimumUtteranceMs \in Nat \ {0} /\ MaximumUtteranceMs \in Nat \ {0}
         /\ StartEvidenceMs \in Nat \ {0} /\ PartialIntervalMs \in Nat \ {0}
         /\ PreRollMs \in Nat /\ PostRollMs \in Nat /\ ForceSplitOverlapMs \in Nat
         /\ SlackMs \in Nat /\ MaxOffset \in Nat
         /\ FrameMs <= SlackMs /\ StartEvidenceMs + SlackMs < MaximumUtteranceMs
BY DEF DurationAssumption

LEMMA DetectorInitially ==
  ASSUME DurationAssumption, Init
  PROVE  DetectorIInv
<1>1. Counters
  <2>1. PartialIntervalMs \in Nat /\ MaxOffset \in Nat
    BY Durations
  <2>2. 0 \in Times /\ 0 \in 0 .. 0
    BY <2>1 DEF Times
  <2>3. active \in BOOLEAN
    BY DEF Init
  <2>4. idleStart = -1 /\ -1 \in Int /\ -1 <= 0
    BY DEF Init, NoTime
  <2> QED BY <2>1, <2>2, <2>3, <2>4 DEF Init, Counters
<1>2. Speaking /\ Listening
  BY DEF Init, Speaking, Listening, SpeechFrom
<1>3. CutsFit
  BY DEF Init, CutsFit, NoResult
<1>4. SpeechIsKept
  BY DEF Init, SpeechIsKept, DurationAssumption
<1> QED BY <1>1, <1>2, <1>3, <1>4 DEF DetectorIInv

LEMMA DetectorImplies ==
  ASSUME DurationAssumption, DetectorIInv
  PROVE  Inv
<1>1. CASE active
  <2>1. /\ Stretch(activeFrames, announced, offset) /\ preRoll = <<>> /\ announced >= 0
        /\ idleStart = NoTime /\ first \in Int /\ last \in Int /\ announced <= first
        /\ first < last /\ last <= offset
    BY <1>1 DEF DetectorIInv, Speaking
  <2>2. /\ Len(activeFrames) \in Nat \ {0} /\ DOMAIN activeFrames = 1 .. Len(activeFrames)
        /\ announced \in Int
        /\ \A k \in 1 .. Len(activeFrames) : activeFrames[k].start < activeFrames[k].end
    BY <2>1, FramesTyped
  <2>3. Contiguous(activeFrames) /\ End(activeFrames) = offset /\ Head(activeFrames).start = announced
    BY <2>1, <2>2 DEF Stretch, Contiguous, End
  <2>4. Contiguous(preRoll) /\ DOMAIN preRoll = {}
    BY <2>1 DEF Contiguous
  <2>5. first \in Times /\ last \in Times /\ activeFrames # <<>>
    BY <2>1, <2>2 DEF DetectorIInv, Counters, Times, DurationAssumption
  <2> QED BY <1>1, <2>1, <2>2, <2>3, <2>4, <2>5
          DEF Inv, Structure, DetectorIInv, Counters
<1>2. CASE ~active
  <2>1. activeFrames = <<>> /\ first = NoTime /\ last = NoTime
    BY <1>2 DEF DetectorIInv, Listening
  <2>2. Contiguous(activeFrames) /\ DOMAIN activeFrames = {}
    BY <2>1 DEF Contiguous
  <2>3. CASE preRoll = <<>>
    <3>1. Contiguous(preRoll) /\ DOMAIN preRoll = {}
      BY <2>3 DEF Contiguous
    <3> QED BY <1>2, <2>1, <2>2, <2>3, <3>1 DEF Inv, Structure, DetectorIInv, Counters
  <2>4. CASE preRoll # <<>>
    <3>1. PICK a \in Int : Stretch(preRoll, a, offset)
      BY <1>2, <2>4 DEF DetectorIInv, Listening
    <3>2. /\ DOMAIN preRoll = 1 .. Len(preRoll)
          /\ \A k \in 1 .. Len(preRoll) : preRoll[k].start < preRoll[k].end
      BY <3>1, FramesTyped
    <3>3. Contiguous(preRoll) /\ End(preRoll) = offset
      BY <3>1 DEF Stretch, Contiguous, End
    <3> QED BY <1>2, <2>1, <2>2, <3>2, <3>3 DEF Inv, Structure, DetectorIInv, Counters
  <2> QED BY <2>3, <2>4
<1> QED BY <1>1, <1>2

(* A list of frames and the frame after it: where the run of speech goes on, or ends. *)
LEMMA RunGoesOn ==
  ASSUME DurationAssumption, NEW s, NEW a, NEW now \in Int, NEW r \in Nat, NEW more \in Nat,
         NEW f \in TimedFrames, Stretch(s, a, now), SpeechFrom(s, now - r),
         f.start = now, f.end = now + FrameMs, more <= r + FrameMs, f.speech \/ more = 0
  PROVE  Stretch(Append(s, f), a, f.end) /\ SpeechFrom(Append(s, f), f.end - more)
<1>1. FrameMs \in Nat \ {0}
  BY DEF DurationAssumption
<1>2. /\ Stretch(Append(s, f), a, f.end)
      /\ Len(Append(s, f)) = Len(s) + 1 /\ Append(s, f)[Len(s) + 1] = f
      /\ \A i \in 1 .. Len(s) : Append(s, f)[i] = s[i]
  BY <1>1, StretchGrows
<1>3. Len(s) \in Nat /\ \A i \in 1 .. Len(s) : s[i].end \in Int /\ s[i].end <= now
  BY FramesTyped, WithinBounds
<1> DEFINE u == Append(s, f)
<1> HIDE DEF u
<1>4. ASSUME NEW i \in 1 .. Len(u), u[i].end > f.end - more
      PROVE  u[i].speech
  <2>1. CASE i = Len(s) + 1
    <3>1. u[i] = f
      BY <1>2, <2>1 DEF u
    <3>2. more # 0
      BY <1>1, <1>4, <3>1
    <3> QED BY <3>1, <3>2, Zenon
  <2>2. CASE i # Len(s) + 1
    <3>1. i \in 1 .. Len(s)
      BY <1>2, <1>3, <2>2 DEF u
    <3>2. u[i] = s[i] /\ s[i].end \in Int /\ s[i].end <= now
      BY <1>2, <1>3, <3>1 DEF u
    <3>3. s[i].end > now - r
      BY <1>1, <1>4, <3>2
    <3> QED BY <3>1, <3>2, <3>3 DEF SpeechFrom
  <2> QED BY <2>1, <2>2
<1>5. SpeechFrom(u, f.end - more)
  BY <1>4 DEF SpeechFrom
<1> QED BY <1>2, <1>5 DEF u

-----------------------------------------------------------------------------
(* An utterance ends, or what was only noise. *)

LEMMA CutFits ==
  ASSUME DurationAssumption, NEW all, NEW spoken \in Int, NEW quiet \in Nat, NEW forced \in BOOLEAN,
         NEW now \in Int,
         Stretch(all, announced, now), first \in Int, announced <= first, first < spoken,
         quiet = now - spoken
  PROVE  /\ EndedAt(all, spoken, quiet, forced) \in Int
         /\ announced < EndedAt(all, spoken, quiet, forced)
         /\ EndedAt(all, spoken, quiet, forced) <= now
         /\ forced => EndedAt(all, spoken, quiet, forced) = now
<1>1. End(all) = now /\ announced \in Int
  BY FramesTyped DEF Stretch, End
<1>2. PostRollMs \in Nat
  BY Durations
<1>3. CASE forced
  BY <1>1, <1>3 DEF EndedAt
<1>4. CASE ~forced
  <2> DEFINE more == IF quiet < PostRollMs THEN quiet ELSE PostRollMs
  <2>1. EndedAt(all, spoken, quiet, forced) = spoken + more
    BY <1>4 DEF EndedAt
  <2>2. more \in Nat /\ more <= quiet
    BY <1>2
  <2> HIDE DEF more
  <2> QED BY <1>1, <1>4, <2>1, <2>2
<1> QED BY <1>3, <1>4

(* What a forced split keeps is enough evidence with the next frame, or all there was. *)
LEMMA OverlapKept ==
  ASSUME DurationAssumption, OverlapAssumption, NEW all, NEW now \in Int, NEW r \in Nat,
         Stretch(all, announced, now), announced >= 0, SpeechFrom(all, now - r),
         now - announced >= MaximumUtteranceMs
  PROVE  LET kept == Preserved(Until(all, now), TRUE)
         IN /\ kept # <<>> => \E a \in Int :
                 Stretch(kept, a, now) /\ a >= 0 /\ a >= now - ForceSplitOverlapMs
            /\ SpeechFrom(kept, now - r)
            /\ SpeechMs(kept) \in Nat
            /\ SpeechMs(kept) >= r \/ SpeechMs(kept) + FrameMs >= StartEvidenceMs
<1> DEFINE frames == Until(all, now)
           t == now - ForceSplitOverlapMs
           kept == From(frames, t)
<1>1. /\ FrameMs \in Nat /\ StartEvidenceMs \in Nat /\ ForceSplitOverlapMs \in Nat
      /\ MaximumUtteranceMs \in Nat \ {0} /\ StartEvidenceMs < MaximumUtteranceMs /\ t \in Int
      /\ ForceSplitOverlapMs + FrameMs >= StartEvidenceMs /\ announced \in Int /\ announced < now
  BY Durations, FramesTyped DEF OverlapAssumption
<1>2. /\ Stretch(frames, announced, now)
      /\ \A i \in 1 .. Len(frames) :
           i \in 1 .. Len(all) /\ frames[i].end <= all[i].end /\ frames[i].speech = all[i].speech
  BY <1>1, UntilIsStretch
<1> HIDE DEF frames
<1>3. SpeechFrom(frames, now - r)
  <2> SUFFICES ASSUME NEW i \in 1 .. Len(frames), frames[i].end > now - r
               PROVE  frames[i].speech
    BY DEF SpeechFrom
  <2>1. /\ i \in 1 .. Len(all) /\ frames[i].end <= all[i].end
        /\ frames[i].speech = all[i].speech
    BY <1>2
  <2>2. frames[i].end \in Int /\ all[i].end \in Int
    BY <1>2, <2>1, FramesTyped
  <2>3. all[i].end > now - r
    BY <2>1, <2>2
  <2> QED BY <2>1, <2>3 DEF SpeechFrom
<1>4. Preserved(frames, TRUE) = kept
  BY <1>2 DEF Preserved, End, Stretch
<1>5. CASE ForceSplitOverlapMs = 0
  <2>1. \A i \in 1 .. Len(frames) : ~(frames[i].end > t)
    BY <1>1, <1>2, <1>5, WithinBounds, FramesTyped
  <2>2. DOMAIN frames = 1 .. Len(frames)
    BY <1>2, FramesTyped
  <2>3. { i \in DOMAIN frames : frames[i].end > t } = {}
    BY <2>1, <2>2
  <2>4. kept = <<>>
    BY <2>3 DEF From, Behind
  <2>5. SpeechMs(kept) = 0
    BY <2>4, NoSpeechInNothing
  <2>6. SpeechFrom(kept, now - r)
    BY <2>4 DEF SpeechFrom
  <2> HIDE DEF kept
  <2> QED BY <1>1, <1>4, <1>5, <2>4, <2>5, <2>6 DEF frames
<1>6. CASE ForceSplitOverlapMs # 0
  <2> DEFINE a == IF announced < t THEN t ELSE announced
             x == now - r
  <2>1. t < now /\ a \in Int /\ a >= 0 /\ a >= t /\ x \in Int
    BY <1>1, <1>6
  <2>2. /\ Stretch(kept, a, now)
        /\ \A i \in 1 .. Len(kept) : \E j \in 1 .. Len(frames) :
             kept[i].end = frames[j].end /\ kept[i].speech = frames[j].speech
    BY <1>1, <1>2, <2>1, FromIsStretch
  <2> HIDE DEF kept
  <2>3. SpeechFrom(kept, x)
    BY <1>3, <2>2 DEF SpeechFrom
  <2>4. SpeechMs(kept) \in Nat /\ SpeechMs(kept) >= now - (IF a < x THEN x ELSE a)
    BY <2>1, <2>2, <2>3, SpeechLasts
  <2>5. SpeechMs(kept) >= r \/ SpeechMs(kept) + FrameMs >= StartEvidenceMs
    <3>1. CASE a < x
      BY <2>4, <3>1
    <3>2. CASE ~(a < x)
      BY <1>1, <2>4, <3>2
    <3> QED BY <3>1, <3>2
  <2> QED BY <1>4, <2>1, <2>2, <2>3, <2>4, <2>5 DEF frames
<1> QED BY <1>5, <1>6

LEMMA FinalizeKeeps ==
  ASSUME DurationAssumption, OverlapAssumption,
         NEW all, NEW spoken \in Int, NEW quiet \in Nat, NEW forced \in BOOLEAN,
         NEW partial, NEW now \in Times,
         Finalize(all, spoken, quiet, forced, partial, now), offset' = now,
         Stretch(all, announced, now), announced >= 0, first \in Int, announced <= first, first < spoken,
         quiet = now - spoken, now - announced < PreRollMs + MaximumUtteranceMs + FrameMs,
         run' \in 0 .. now, SpeechFrom(all, now - run'),
         IF forced THEN now - first >= MaximumUtteranceMs ELSE run' = 0,
         partial \in {<<>>, <<announced, now>>}
  PROVE  DetectorIInv'
<1> DEFINE ended == EndedAt(all, spoken, quiet, forced)
           frames == Until(all, ended)
           kept == Preserved(frames, forced)
           cut == <<Head(frames).start, ended>>
<1>1. /\ FrameMs \in Nat \ {0} /\ StartEvidenceMs \in Nat \ {0} /\ ForceSplitOverlapMs \in Nat
      /\ MaximumUtteranceMs \in Nat \ {0} /\ PartialIntervalMs \in Nat /\ PreRollMs \in Nat
      /\ MaxOffset \in Nat /\ StartEvidenceMs < MaximumUtteranceMs
  BY Durations
<1>2. now \in Int /\ now >= 0 /\ announced \in Int /\ announced < now
  BY <1>1, FramesTyped DEF Times
<1>3. ended \in Int /\ announced < ended /\ ended <= now /\ (forced => ended = now)
  BY <1>2, CutFits
<1>4. /\ result' = IF spoken - first < MinimumUtteranceMs
                   THEN [NoResult EXCEPT !.noSpeech = cut, !.partial = partial]
                   ELSE [NoResult EXCEPT !.utterance = cut, !.partial = partial]
      /\ preRoll' = kept /\ candidate' = SpeechMs(kept)
      /\ activeFrames' = <<>> /\ active' = FALSE
      /\ first' = NoTime /\ last' = NoTime /\ silence' = 0
      /\ nextPartial' = PartialIntervalMs /\ idleStart' = now
      /\ boundary' = cut[2] - (IF forced THEN ForceSplitOverlapMs ELSE 0)
      /\ announced' = announced
  BY DEF Finalize
<1> HIDE DEF ended
<1>5. Stretch(frames, announced, ended)
  BY <1>2, <1>3, UntilIsStretch
<1>6. Head(frames).start = announced
  <2> HIDE DEF frames
  <2>1. frames \in Seq(TimedFrames) /\ Len(frames) > 0 /\ frames[1].start = announced
    BY <1>5 DEF Stretch
  <2> QED BY <2>1
<1>7. cut = <<announced, ended>> /\ cut[2] = ended
  BY <1>6
<1>8. /\ kept # <<>> => \E a \in Int : Stretch(kept, a, now) /\ a >= 0 /\ a >= boundary'
      /\ SpeechFrom(kept, now - run') /\ SpeechMs(kept) \in Nat
      /\ SpeechMs(kept) >= run' \/ SpeechMs(kept) + FrameMs >= StartEvidenceMs
  <2>1. CASE forced
    <3>1. ended = now /\ boundary' = now - ForceSplitOverlapMs /\ kept = Preserved(Until(all, now), TRUE)
      BY <1>3, <1>4, <1>7, <2>1
    <3>2. now - announced >= MaximumUtteranceMs /\ run' \in Nat
      BY <1>1, <1>2, <2>1
    <3> HIDE DEF kept
    <3> QED BY <1>2, <3>1, <3>2, OverlapKept
  <2>2. CASE ~forced
    <3>1. kept = <<>> /\ run' = 0
      BY <2>2 DEF Preserved
    <3>2. SpeechMs(kept) = 0 /\ SpeechFrom(kept, now - run')
      BY <3>1, NoSpeechInNothing DEF SpeechFrom
    <3> QED BY <3>1, <3>2
  <2> QED BY <2>1, <2>2
<1> HIDE DEF kept, frames, cut
<1>9. Counters'
  <2>1. boundary' = ended - (IF forced THEN ForceSplitOverlapMs ELSE 0)
    BY <1>4, <1>7
  <2>2. boundary' \in Int /\ boundary' <= now
    BY <1>1, <1>2, <1>3, <2>1
  <2>3. candidate' \in Nat /\ silence' \in Nat /\ nextPartial' \in Nat /\ active' \in BOOLEAN
    BY <1>1, <1>4, <1>8
  <2>4. idleStart' = now /\ offset' = now
    BY <1>4
  <2> QED BY <1>2, <2>2, <2>3, <2>4 DEF Counters
<1>10. Speaking' /\ Listening'
  BY <1>4, <1>8 DEF Speaking, Listening
<1>11. CutsFit'
  <2>1. partial # <<>> => partial = <<announced, now>>
    OBVIOUS
  <2>2. /\ result'.noSpeech \in {<<>>, cut} /\ result'.utterance \in {<<>>, cut}
        /\ result'.partial = partial
    BY <1>4 DEF NoResult
  <2>3. ASSUME NEW c \in {cut, partial} \ {<<>>}
        PROVE  /\ c[1] < c[2] /\ c[2] <= now /\ c[1] = announced
               /\ c[2] - c[1] < PreRollMs + MaximumUtteranceMs + FrameMs
    <3>1. CASE c = cut
      <4>1. c[1] = announced /\ c[2] = ended
        BY <1>7, <3>1
      <4> QED BY <1>1, <1>2, <1>3, <4>1
    <3>2. CASE c = partial
      <4>1. c = <<announced, now>>
        BY <2>1, <2>3, <3>2
      <4>2. c[1] = announced /\ c[2] = now
        BY <4>1
      <4> QED BY <1>1, <1>2, <4>2
    <3> QED BY <2>3, <3>1, <3>2
  <2> QED BY <1>4, <2>2, <2>3 DEF CutsFit
<1>12. SpeechIsKept'
  <2>1. CASE forced
    <3>1. cut \in {result'.utterance, result'.noSpeech} /\ cut # <<>> /\ cut[2] = offset'
      BY <1>3, <1>4, <1>7, <2>1 DEF NoResult
    <3> QED BY <3>1 DEF SpeechIsKept
  <2>2. CASE ~forced
    BY <1>1, <2>2 DEF SpeechIsKept
  <2> QED BY <2>1, <2>2
<1> QED BY <1>9, <1>10, <1>11, <1>12 DEF DetectorIInv

-----------------------------------------------------------------------------
(* Every step. *)

(* What process is about to do with the next frame.                          *)
Taken(speech) ==
  /\ offset + FrameMs <= MaxOffset /\ offset' = offset + FrameMs
  /\ run' = IF speech THEN run + FrameMs ELSE 0

LEMMA NextFrame ==
  ASSUME DurationAssumption, DetectorIInv, NEW speech \in BOOLEAN, Taken(speech)
  PROVE  /\ Frame(speech) \in TimedFrames
         /\ Frame(speech).start = offset /\ Frame(speech).end = offset + FrameMs
         /\ Frame(speech).speech = speech
         /\ offset \in Nat /\ offset' \in Times /\ offset' \in Nat /\ run \in Nat
         /\ run' \in 0 .. offset' /\ offset' > offset
         /\ run' \in Nat /\ run' <= run + FrameMs /\ (speech \/ run' = 0)
<1>1. FrameMs \in Nat \ {0} /\ MaxOffset \in Nat
  BY Durations
<1>2. offset \in Nat /\ run \in Nat /\ run <= offset
  BY <1>1 DEF DetectorIInv, Counters, Times
<1>3. offset' \in Nat /\ offset' \in Times /\ offset' = offset + FrameMs /\ offset' > offset
  BY <1>1, <1>2 DEF Taken, Times
<1>4. run' = IF speech THEN run + FrameMs ELSE 0
  BY DEF Taken
<1>5. run' \in 0 .. offset'
  BY <1>1, <1>2, <1>3, <1>4
<1>6. Frame(speech) \in TimedFrames
  BY <1>1, <1>2 DEF Frame, TimedFrames
<1>7. speech \/ run' = 0
  BY <1>4, Zenon
<1>8. run' \in Nat /\ run' <= run + FrameMs
  BY <1>1, <1>2, <1>4
<1> QED BY <1>2, <1>3, <1>5, <1>6, <1>7, <1>8 DEF Frame

LEMMA RollKept ==
  ASSUME DurationAssumption, DetectorIInv, ~active, NEW speech \in BOOLEAN, Taken(speech)
  PROVE  LET roll == Newest(Append(preRoll, Frame(speech)), PreRollMs + StartEvidenceMs + SlackMs)
         IN \E c \in Int :
              /\ Stretch(roll, c, offset') /\ c >= 0 /\ c >= boundary
              /\ offset' - c <= PreRollMs + StartEvidenceMs + SlackMs
              /\ SpeechFrom(roll, offset' - run')
              /\ roll[Len(roll)] = Frame(speech)
<1> DEFINE f == Frame(speech)
           ms == PreRollMs + StartEvidenceMs + SlackMs
           s == Append(preRoll, f)
           roll == Newest(s, ms)
<1>1. /\ FrameMs \in Nat \ {0} /\ PreRollMs \in Nat /\ StartEvidenceMs \in Nat /\ SlackMs \in Nat
      /\ FrameMs <= SlackMs
  BY Durations
<1>2. /\ f \in TimedFrames /\ f.start = offset /\ f.end = offset' /\ f.speech = speech
      /\ offset \in Nat /\ offset' \in Nat /\ offset' = offset + FrameMs /\ run \in Nat
      /\ run' \in Nat /\ run' <= run + FrameMs /\ (speech \/ run' = 0)
  BY NextFrame DEF Taken
<1>3. boundary \in Int /\ boundary <= offset
  BY DEF DetectorIInv, Counters
<1> HIDE DEF f
<1>4. \E a \in Int :
        /\ Stretch(s, a, offset') /\ a >= 0 /\ a >= boundary
        /\ SpeechFrom(s, offset' - run') /\ s[Len(s)] = f
  <2>1. CASE preRoll = <<>>
    <3>1. Stretch(s, offset, offset') /\ Len(s) = 1 /\ s[1] = f
      BY <1>1, <1>2, <2>1, OneFrame
    <3>2. \A i \in 1 .. Len(s) : s[i].end = offset' /\ s[i].speech = speech
      BY <1>2, <3>1
    <3>3. SpeechFrom(s, offset' - run')
      <4>1. CASE speech
        BY <3>2, <4>1, Zenon DEF SpeechFrom
      <4>2. CASE run' = 0
        <5>1. ~(offset' > offset' - run')
          BY <1>2, <4>2
        <5> QED BY <3>2, <5>1, Zenon DEF SpeechFrom
      <4> QED BY <1>2, <4>1, <4>2
    <3> QED BY <1>2, <1>3, <3>1, <3>3
  <2>2. CASE preRoll # <<>>
    <3>1. PICK a \in Int : Stretch(preRoll, a, offset) /\ a >= 0 /\ a >= boundary
      BY <2>2 DEF DetectorIInv, Listening
    <3>2. SpeechFrom(preRoll, offset - run)
      BY DEF DetectorIInv, Listening
    <3>3. Stretch(s, a, offset') /\ SpeechFrom(s, offset' - run')
      <4>1. offset \in Int /\ f.end = offset + FrameMs
        BY <1>2
      <4>2. f.speech \/ run' = 0
        BY <1>2, Zenon
      <4> QED BY <1>2, <3>1, <3>2, <4>1, <4>2, RunGoesOn
    <3>4. Len(s) = Len(preRoll) + 1 /\ s[Len(preRoll) + 1] = f
      BY <1>1, <1>2, <3>1, StretchGrows
    <3> QED BY <3>1, <3>3, <3>4
  <2> QED BY <2>1, <2>2
<1>5. PICK a \in Int :
        /\ Stretch(s, a, offset') /\ a >= 0 /\ a >= boundary
        /\ SpeechFrom(s, offset' - run') /\ s[Len(s)] = f
  BY <1>4
<1> HIDE DEF s
<1>6. ms \in Int /\ offset' - s[Len(s)].start <= ms
  BY <1>1, <1>2, <1>5
<1> HIDE DEF ms
<1>7. PICK c \in Int :
        /\ Stretch(roll, c, offset') /\ a <= c /\ offset' - c <= ms
        /\ \A i \in 1 .. Len(roll) : \E j \in 1 .. Len(s) : roll[i] = s[j]
        /\ roll[Len(roll)] = s[Len(s)]
  BY <1>5, <1>6, NewestIsStretch
<1> HIDE DEF roll
<1>8. SpeechFrom(roll, offset' - run')
  BY <1>5, <1>7 DEF SpeechFrom
<1>9. c >= 0 /\ c >= boundary
  BY <1>3, <1>5, <1>7
<1> QED BY <1>5, <1>7, <1>8, <1>9 DEF roll, s, ms, f

LEMMA StartWithinLimits ==
  ASSUME NEW now \in Int, NEW from \in Int, NEW kept \in Int, NEW w \in Nat, NEW x \in Nat, NEW y \in Nat,
         NEW z \in Nat, now - kept <= w + x + y, kept <= from, x + y < z
  PROVE  now - from < w + z
OBVIOUS

LEMMA StayIdleKeeps ==
  ASSUME DurationAssumption, DetectorIInv, NEW speech \in BOOLEAN, Taken(speech), StayIdle(Frame(speech))
  PROVE  DetectorIInv'
<1> DEFINE f == Frame(speech)
           roll == Newest(Append(preRoll, f), PreRollMs + StartEvidenceMs + SlackMs)
<1>1. FrameMs \in Nat \ {0} /\ StartEvidenceMs \in Nat \ {0}
  BY Durations
<1>2. /\ f.start = offset /\ f.end = offset + FrameMs /\ f.speech = speech
      /\ offset \in Nat /\ offset' \in Times /\ offset' \in Nat /\ run \in Nat
      /\ run' \in 0 .. offset' /\ offset' > offset
  BY NextFrame
<1>3. run' = IF speech THEN run + FrameMs ELSE 0
  BY DEF Taken
<1>4. /\ ~active /\ preRoll' = roll /\ candidate' < StartEvidenceMs
      /\ candidate' = IF speech THEN candidate + f.end - f.start ELSE 0
      /\ idleStart' = IF idleStart = NoTime THEN f.start ELSE idleStart
      /\ result' = NoResult
      /\ UNCHANGED <<activeFrames, active, first, last, silence, nextPartial, announced, boundary>>
  BY <1>2 DEF StayIdle, IdleFrame
<1>5. PICK c \in Int :
        /\ Stretch(roll, c, offset') /\ c >= 0 /\ c >= boundary
        /\ SpeechFrom(roll, offset' - run')
  BY <1>4, RollKept
<1> HIDE DEF f, roll
<1>6. /\ active \in BOOLEAN /\ candidate \in Nat /\ silence \in Nat /\ nextPartial \in Nat
      /\ idleStart \in Int /\ idleStart <= offset /\ boundary \in Int /\ boundary <= offset
  BY DEF DetectorIInv, Counters
<1>7. candidate' = IF speech THEN candidate + FrameMs ELSE 0
  BY <1>1, <1>2, <1>4, <1>6
<1>8. Counters'
  <2>1. candidate' \in Nat
    BY <1>1, <1>6, <1>7
  <2>2. idleStart' \in Int /\ idleStart' <= offset'
    BY <1>2, <1>4, <1>6
  <2>3. boundary' \in Int /\ boundary' <= offset'
    BY <1>2, <1>4, <1>6
  <2>4. active' \in BOOLEAN /\ silence' \in Nat /\ nextPartial' \in Nat
    BY <1>4, <1>6
  <2> QED BY <1>2, <2>1, <2>2, <2>3, <2>4 DEF Counters
<1>9. candidate' >= run'
  <2>1. candidate >= run \/ candidate + FrameMs >= StartEvidenceMs
    BY <1>4 DEF DetectorIInv, Listening
  <2>2. CASE speech
    BY <1>1, <1>2, <1>3, <1>4, <1>6, <1>7, <2>1, <2>2
  <2>3. CASE ~speech
    BY <1>3, <1>7, <2>3
  <2> QED BY <2>2, <2>3
<1>10. Listening' /\ Speaking'
  <2>1. activeFrames = <<>> /\ first = NoTime /\ last = NoTime
    BY <1>4 DEF DetectorIInv, Listening
  <2> QED BY <1>4, <1>5, <1>9, <2>1 DEF Listening, Speaking
<1>11. CutsFit'
  BY <1>4 DEF CutsFit, NoResult
<1>12. SpeechIsKept'
  <2>1. candidate' \in Nat /\ run' \in Nat
    BY <1>1, <1>2, <1>6, <1>7
  <2>2. ~(run' >= StartEvidenceMs)
    BY <1>1, <1>4, <1>9, <2>1
  <2> QED BY <2>2 DEF SpeechIsKept
<1> QED BY <1>8, <1>10, <1>11, <1>12 DEF DetectorIInv

LEMMA SpeechStartsKeeps ==
  ASSUME DurationAssumption, DetectorIInv, NEW speech \in BOOLEAN, Taken(speech),
         SpeechStarts(Frame(speech))
  PROVE  DetectorIInv' /\ result'.started >= boundary
<1> DEFINE f == Frame(speech)
           roll == Newest(Append(preRoll, f), PreRollMs + StartEvidenceMs + SlackMs)
           speechMs == IF speech THEN candidate + f.end - f.start ELSE 0
           t == FirstSpeech(roll) - PreRollMs
           selected == From(roll, t)
<1>1. /\ FrameMs \in Nat \ {0} /\ StartEvidenceMs \in Nat \ {0} /\ PreRollMs \in Nat
      /\ PartialIntervalMs \in Nat /\ MaximumUtteranceMs \in Nat /\ SlackMs \in Nat
      /\ StartEvidenceMs + SlackMs < MaximumUtteranceMs
  BY Durations
<1>2. /\ f.start = offset /\ f.end = offset + FrameMs /\ f.speech = speech
      /\ offset \in Nat /\ offset' \in Times /\ offset' \in Nat /\ run \in Nat
      /\ run' \in 0 .. offset' /\ offset' > offset /\ f.end = offset'
  BY NextFrame DEF Taken
<1>3. /\ ~active /\ speechMs >= StartEvidenceMs /\ candidate' = speechMs
      /\ activeFrames' = selected
      /\ first' = FirstSpeech(selected) /\ last' = LastSpeech(selected)
      /\ result' = [NoResult EXCEPT !.started = Head(selected).start]
      /\ announced' = Head(selected).start
      /\ active' = TRUE /\ preRoll' = <<>> /\ silence' = 0
      /\ nextPartial' = PartialIntervalMs /\ idleStart' = NoTime /\ boundary' = boundary
  BY <1>2 DEF SpeechStarts
<1>4. PICK c \in Int :
        /\ Stretch(roll, c, offset') /\ c >= 0 /\ c >= boundary
        /\ offset' - c <= PreRollMs + StartEvidenceMs + SlackMs
        /\ SpeechFrom(roll, offset' - run') /\ roll[Len(roll)] = f
  BY <1>3, RollKept
<1>5. candidate \in Nat /\ boundary \in Int /\ boundary <= offset
  BY DEF DetectorIInv, Counters
<1>6. speech = TRUE /\ speechMs \in Nat
  <2>1. CASE speech
    <3>1. speechMs = candidate + FrameMs
      BY <1>1, <1>2, <1>5, <2>1
    <3>2. candidate + FrameMs \in Nat
      BY <1>1, <1>5
    <3> QED BY <2>1, <3>1, <3>2, Zenon
  <2>2. CASE ~speech
    <3>1. speechMs = 0
      BY <2>2
    <3> QED BY <1>1, <1>3, <3>1
  <2> QED BY <2>1, <2>2
<1> HIDE DEF f, roll, speechMs
<1>7. Len(roll) \in 1 .. Len(roll) /\ roll[Len(roll)].speech
  <2>1. Len(roll) \in Nat \ {0}
    BY <1>4, FramesTyped
  <2>2. Len(roll) \in 1 .. Len(roll)
    BY <2>1
  <2>3. roll[Len(roll)].speech = TRUE
    BY <1>2, <1>4, <1>6
  <2> QED BY <2>2, <2>3
<1>8. PICK j \in 1 .. Len(roll) : roll[j].speech /\ FirstSpeech(roll) = roll[j].start
  BY <1>4, <1>7, FirstAndLastSpeech
<1>9. /\ roll[j].start \in Int /\ roll[j].end \in Int /\ roll[j].start < roll[j].end
      /\ c <= roll[j].start /\ roll[j].end <= offset'
  BY <1>4, <1>8, FramesTyped, WithinBounds
<1>10. t \in Int /\ t < offset' /\ t <= roll[j].start /\ roll[j].end > t /\ t = roll[j].start - PreRollMs
  BY <1>1, <1>2, <1>8, <1>9
<1> HIDE DEF t
<1> DEFINE a == IF c < t THEN t ELSE c
<1>11. a \in Int /\ a >= 0 /\ a >= boundary /\ a >= t /\ a >= c
  BY <1>4, <1>5, <1>10
<1>12. /\ Stretch(selected, a, offset')
       /\ \A i \in 1 .. Len(selected) :
            \E k \in 1 .. Len(roll) : selected[i].end = roll[k].end /\ selected[i].speech = roll[k].speech
       /\ FramesKept(selected, roll, t)
  <2>1. selected = From(roll, t) /\ Stretch(roll, c, offset') /\ t \in Int /\ t < offset'
    BY <1>4, <1>10
  <2> HIDE DEF selected
  <2>2. Stretch(selected, IF c < t THEN t ELSE c, offset')
    BY <2>1, FromIsStretch
  <2>3. \A i \in 1 .. Len(selected) :
          \E k \in 1 .. Len(roll) : selected[i].end = roll[k].end /\ selected[i].speech = roll[k].speech
    BY <2>1, FromIsStretch
  <2>4. FramesKept(selected, roll, t)
    BY <2>1, FromIsStretch
  <2> QED BY <2>2, <2>3, <2>4
<1> HIDE DEF selected, a
<1>13. Head(selected).start = a
  <2>1. selected \in Seq(TimedFrames) /\ Len(selected) > 0 /\ selected[1].start = a
    BY <1>12 DEF Stretch
  <2> QED BY <2>1
<1>14. PICK i \in 1 .. Len(selected) : selected[i].speech /\ selected[i].start = roll[j].start
  BY <1>8, <1>9, <1>10, <1>12 DEF FramesKept
<1>15. /\ FirstSpeech(selected) \in Int /\ a <= FirstSpeech(selected)
       /\ FirstSpeech(selected) <= roll[j].start
  BY <1>12, <1>14, FirstAndLastSpeech
<1>16. LastSpeech(selected) = offset' /\ FirstSpeech(selected) < offset'
  <2>1. roll[Len(roll)].end > t
    BY <1>2, <1>4, <1>10
  <2>2. PICK n \in 1 .. Len(selected) : selected[n].end = offset' /\ selected[n].speech
    BY <1>2, <1>4, <1>7, <1>12, <2>1 DEF FramesKept
  <2>3. /\ selected[n].end <= LastSpeech(selected) /\ LastSpeech(selected) <= offset'
        /\ LastSpeech(selected) \in Int /\ FirstSpeech(selected) <= selected[n].start
    BY <1>12, <2>2, FirstAndLastSpeech
  <2>4. selected[n].start \in Int /\ selected[n].start < selected[n].end
    BY <1>12, FramesTyped
  <2> QED BY <1>2, <1>15, <2>2, <2>3, <2>4
<1>17. SpeechFrom(selected, offset' - run')
  BY <1>4, <1>12 DEF SpeechFrom
<1>18. Counters'
  <2>1. idleStart' = -1 /\ -1 \in Int /\ -1 <= offset'
    BY <1>2, <1>3 DEF NoTime
  <2>2. boundary' \in Int /\ boundary' <= offset'
    BY <1>2, <1>3, <1>5
  <2>3. candidate' \in Nat /\ active' \in BOOLEAN /\ silence' \in Nat /\ nextPartial' \in Nat
    BY <1>1, <1>3, <1>6
  <2> QED BY <1>2, <2>1, <2>2, <2>3 DEF Counters
<1>19. Speaking'
  <2>1. Stretch(activeFrames', announced', offset') /\ announced' = a /\ announced' >= 0
    BY <1>3, <1>11, <1>12, <1>13
  <2>2. first' \in Int /\ announced' <= first' /\ first' - announced' <= PreRollMs
    BY <1>1, <1>3, <1>9, <1>10, <1>11, <1>15, <2>1
  <2>3. /\ last' \in Int /\ first' < last' /\ last' <= offset' /\ silence' = offset' - last'
    BY <1>2, <1>3, <1>15, <1>16
  <2>4. offset' - announced' < PreRollMs + MaximumUtteranceMs
    <3>1. announced' \in Int /\ c <= announced' /\ offset' \in Int
      BY <1>2, <1>11, <2>1
    <3>2. offset' - c <= PreRollMs + StartEvidenceMs + SlackMs
      BY <1>4
    <3> QED BY <1>1, <3>1, <3>2, StartWithinLimits
  <2> QED BY <1>3, <1>17, <2>1, <2>2, <2>3, <2>4 DEF Speaking
<1>20. Listening' /\ CutsFit' /\ SpeechIsKept'
  BY <1>3 DEF Listening, CutsFit, SpeechIsKept, NoResult
<1>21. result'.started = a
  BY <1>3, <1>13 DEF NoResult
<1> QED BY <1>11, <1>18, <1>19, <1>20, <1>21 DEF DetectorIInv

LEMMA QuietSinceSpoken ==
  ASSUME NEW now \in Int, NEW begun \in Int, NEW before \in Int, NEW spoken, NEW quiet,
         begun < before, before < now,
         (spoken = now /\ quiet = 0) \/ (spoken = before /\ quiet = now - before)
  PROVE  spoken \in Int /\ begun < spoken /\ spoken <= now /\ quiet \in Nat /\ quiet = now - spoken
OBVIOUS

LEMMA WithinLimits ==
  ASSUME NEW now \in Int, NEW begun \in Int, NEW from \in Int, NEW x \in Int, NEW y \in Int,
         now - begun < y, begun - from <= x
  PROVE  now - from < x + y
OBVIOUS

(* The utterance being spoken with the next frame behind it.                 *)
LEMMA FrameSpoken ==
  ASSUME DurationAssumption, DetectorIInv, active, NEW speech \in BOOLEAN, Taken(speech),
         NEW f, f = Frame(speech)
  PROVE  /\ Stretch(Append(activeFrames, f), announced, offset') /\ announced \in Int /\ announced >= 0
         /\ SpeechFrom(Append(activeFrames, f), offset' - run')
         /\ first \in Int /\ announced <= first /\ first - announced <= PreRollMs
         /\ Spoken(f) \in Int /\ first < Spoken(f) /\ Spoken(f) <= offset'
         /\ Quiet(f) \in Nat /\ Quiet(f) = offset' - Spoken(f)
         /\ Elapsed(f) = offset' - first /\ Elapsed(f) \in Nat
         /\ PartialAt(f) = IF Elapsed(f) >= nextPartial THEN <<announced, offset'>> ELSE <<>>
         /\ offset' - announced < PreRollMs + MaximumUtteranceMs + FrameMs
         /\ offset' \in Times /\ run' \in 0 .. offset'
         /\ Quiet(f) = 0 \/ run' = 0
<1>1. FrameMs \in Nat \ {0} /\ PreRollMs \in Nat /\ MaximumUtteranceMs \in Nat
  BY Durations
<1>2. /\ f \in TimedFrames /\ f.start = offset /\ f.end = offset' /\ f.end = offset + FrameMs
      /\ f.speech = speech /\ offset \in Nat /\ offset \in Int /\ offset' \in Nat /\ offset' \in Times
      /\ run \in Nat /\ run' \in 0 .. offset'
      /\ run' \in Nat /\ run' <= run + FrameMs /\ (speech \/ run' = 0)
  BY NextFrame DEF Taken
<1>3. /\ Stretch(activeFrames, announced, offset) /\ announced >= 0
      /\ first \in Int /\ announced <= first /\ first - announced <= PreRollMs
      /\ last \in Int /\ first < last /\ last <= offset /\ silence = offset - last
      /\ offset - announced < PreRollMs + MaximumUtteranceMs
      /\ SpeechFrom(activeFrames, offset - run)
  BY DEF DetectorIInv, Speaking
<1>4. announced \in Int /\ Head(activeFrames).start = announced
  <2>1. announced \in Int
    BY <1>3, FramesTyped
  <2>2. /\ activeFrames \in Seq(TimedFrames) /\ Len(activeFrames) > 0
        /\ activeFrames[1].start = announced
    BY <1>3 DEF Stretch
  <2> QED BY <2>1, <2>2
<1>5. Stretch(Append(activeFrames, f), announced, offset')
      /\ SpeechFrom(Append(activeFrames, f), offset' - run')
  <2>1. f.speech \/ run' = 0
    BY <1>2, Zenon
  <2> QED BY <1>2, <1>3, <2>1, RunGoesOn
<1>6. Spoken(f) = (IF f.speech THEN offset' ELSE last)
      /\ Quiet(f) = (IF f.speech THEN 0 ELSE offset' - last)
  <2>1. silence + f.end - f.start = offset' - last
    BY <1>1, <1>2, <1>3
  <2> QED BY <1>2, <2>1 DEF Spoken, Quiet
<1>7. /\ Spoken(f) \in Int /\ first < Spoken(f) /\ Spoken(f) <= offset'
      /\ Quiet(f) \in Nat /\ Quiet(f) = offset' - Spoken(f)
  <2>1. offset' \in Int /\ last < offset'
    BY <1>1, <1>2, <1>3
  <2>2. (Spoken(f) = offset' /\ Quiet(f) = 0) \/ (Spoken(f) = last /\ Quiet(f) = offset' - last)
    BY <1>6
  <2> QED BY <1>3, <2>1, <2>2, QuietSinceSpoken
<1>8. Quiet(f) = 0 \/ run' = 0
  <2>1. f.speech \/ run' = 0
    BY <1>2, Zenon
  <2> QED BY <1>6, <2>1
<1>9. Elapsed(f) = offset' - first /\ Elapsed(f) \in Nat
  BY <1>1, <1>2, <1>3 DEF Elapsed
<1>10. PartialAt(f) = IF Elapsed(f) >= nextPartial THEN <<announced, offset'>> ELSE <<>>
  BY <1>2, <1>4 DEF PartialAt
<1>11. offset' - announced < PreRollMs + MaximumUtteranceMs + FrameMs
  BY <1>1, <1>2, <1>3, <1>4
<1> QED BY <1>2, <1>3, <1>4, <1>5, <1>7, <1>8, <1>9, <1>10, <1>11

LEMMA ForcedSplitKeeps ==
  ASSUME DurationAssumption, OverlapAssumption, DetectorIInv, NEW speech \in BOOLEAN, Taken(speech),
         ForcedSplit(Frame(speech))
  PROVE  DetectorIInv'
<1> DEFINE f == Frame(speech)
<1> HIDE DEF f
<1>1. active /\ Elapsed(f) >= MaximumUtteranceMs
      /\ Finalize(Append(activeFrames, f), Spoken(f), Quiet(f), TRUE, <<>>, f.end)
  BY DEF ForcedSplit, f
<1>2. f.end = offset'
  BY NextFrame DEF Taken, f
<1>3. Finalize(Append(activeFrames, f), Spoken(f), Quiet(f), TRUE, <<>>, offset')
  BY <1>1, <1>2
<1>4. /\ Stretch(Append(activeFrames, f), announced, offset') /\ announced >= 0
      /\ SpeechFrom(Append(activeFrames, f), offset' - run')
      /\ first \in Int /\ announced <= first
      /\ Spoken(f) \in Int /\ first < Spoken(f)
      /\ Quiet(f) \in Nat /\ Quiet(f) = offset' - Spoken(f) /\ Elapsed(f) = offset' - first
      /\ offset' - announced < PreRollMs + MaximumUtteranceMs + FrameMs
      /\ offset' \in Times /\ run' \in 0 .. offset'
  BY <1>1, FrameSpoken DEF f
<1>5. offset' - first >= MaximumUtteranceMs
  BY <1>1, <1>4
<1> QED BY <1>3, <1>4, <1>5, FinalizeKeeps

LEMMA EndOfSpeechKeeps ==
  ASSUME DurationAssumption, OverlapAssumption, DetectorIInv, NEW speech \in BOOLEAN, Taken(speech),
         EndOfSpeech(Frame(speech))
  PROVE  DetectorIInv'
<1> DEFINE f == Frame(speech)
<1> HIDE DEF f
<1>1. active /\ Quiet(f) >= EndpointingSilenceMs
      /\ Finalize(Append(activeFrames, f), Spoken(f), Quiet(f), FALSE, PartialAt(f), f.end)
  BY DEF EndOfSpeech, f
<1>2. f.end = offset'
  BY NextFrame DEF Taken, f
<1>3. Finalize(Append(activeFrames, f), Spoken(f), Quiet(f), FALSE, PartialAt(f), offset')
  BY <1>1, <1>2
<1>4. /\ Stretch(Append(activeFrames, f), announced, offset') /\ announced >= 0
      /\ SpeechFrom(Append(activeFrames, f), offset' - run')
      /\ first \in Int /\ announced <= first
      /\ Spoken(f) \in Int /\ first < Spoken(f)
      /\ Quiet(f) \in Nat /\ Quiet(f) = offset' - Spoken(f)
      /\ PartialAt(f) = IF Elapsed(f) >= nextPartial THEN <<announced, offset'>> ELSE <<>>
      /\ offset' - announced < PreRollMs + MaximumUtteranceMs + FrameMs
      /\ offset' \in Times /\ run' \in 0 .. offset'
      /\ Quiet(f) = 0 \/ run' = 0
  BY <1>1, FrameSpoken DEF f
<1>5. run' = 0
  BY <1>1, <1>4, Durations
<1>6. PartialAt(f) \in {<<>>, <<announced, offset'>>}
  BY <1>4
<1> QED BY <1>3, <1>4, <1>5, <1>6, FinalizeKeeps

LEMMA FlushActiveKeeps ==
  ASSUME DurationAssumption, OverlapAssumption, DetectorIInv, FlushActive, run' = 0, offset' = offset
  PROVE  DetectorIInv'
<1>1. active /\ Finalize(activeFrames, last, silence, FALSE, <<>>, offset)
  BY DEF FlushActive
<1>2. /\ offset \in Times /\ offset \in Nat /\ run \in 0 .. offset /\ silence \in Nat
      /\ FrameMs \in Nat /\ PreRollMs \in Nat /\ MaximumUtteranceMs \in Nat
  BY Durations DEF DetectorIInv, Counters, Times
<1>3. /\ Stretch(activeFrames, announced, offset) /\ announced >= 0
      /\ first \in Int /\ announced <= first
      /\ last \in Int /\ first < last /\ last <= offset /\ silence = offset - last
      /\ offset - announced < PreRollMs + MaximumUtteranceMs
  BY <1>1 DEF DetectorIInv, Speaking
<1>4. announced \in Int /\ offset - announced < PreRollMs + MaximumUtteranceMs + FrameMs
  <2>1. announced \in Int
    BY <1>3, FramesTyped
  <2> QED BY <1>2, <1>3, <2>1
<1>5. SpeechFrom(activeFrames, offset - run') /\ run' \in 0 .. offset
  <2>1. \A i \in 1 .. Len(activeFrames) : ~(activeFrames[i].end > offset - 0)
    <3>1. \A i \in 1 .. Len(activeFrames) :
            activeFrames[i].end <= offset /\ activeFrames[i].end \in Int
      BY <1>3, WithinBounds, FramesTyped
    <3> QED BY <1>2, <3>1
  <2> QED BY <1>2, <2>1 DEF SpeechFrom
<1> QED BY <1>1, <1>2, <1>3, <1>4, <1>5, FinalizeKeeps

LEMMA StayActiveKeeps ==
  ASSUME DurationAssumption, DetectorIInv, NEW speech \in BOOLEAN, Taken(speech),
         StayActive(Frame(speech))
  PROVE  DetectorIInv'
<1> DEFINE f == Frame(speech)
<1> HIDE DEF f
<1>1. /\ active /\ Elapsed(f) < MaximumUtteranceMs
      /\ activeFrames' = Append(activeFrames, f)
      /\ last' = Spoken(f) /\ silence' = Quiet(f)
      /\ nextPartial' = IF PartialAt(f) = <<>> THEN nextPartial
                        ELSE nextPartial + PartialIntervalMs
                             * ((Elapsed(f) - nextPartial) \div PartialIntervalMs + 1)
      /\ result' = [NoResult EXCEPT !.partial = PartialAt(f)]
      /\ UNCHANGED <<preRoll, active, candidate, first, idleStart, announced, boundary>>
  BY DEF StayActive, f
<1>2. /\ Stretch(Append(activeFrames, f), announced, offset') /\ announced \in Int /\ announced >= 0
      /\ SpeechFrom(Append(activeFrames, f), offset' - run')
      /\ first \in Int /\ announced <= first /\ first - announced <= PreRollMs
      /\ Spoken(f) \in Int /\ first < Spoken(f) /\ Spoken(f) <= offset'
      /\ Quiet(f) \in Nat /\ Quiet(f) = offset' - Spoken(f)
      /\ Elapsed(f) = offset' - first /\ Elapsed(f) \in Nat
      /\ PartialAt(f) = IF Elapsed(f) >= nextPartial THEN <<announced, offset'>> ELSE <<>>
      /\ offset' - announced < PreRollMs + MaximumUtteranceMs + FrameMs
      /\ offset' \in Times /\ run' \in 0 .. offset'
  BY <1>1, FrameSpoken DEF f
<1>3. /\ candidate \in Nat /\ nextPartial \in Nat /\ offset \in Nat /\ active \in BOOLEAN
      /\ idleStart \in Int /\ idleStart <= offset /\ boundary \in Int /\ boundary <= offset
      /\ offset' \in Nat /\ offset' > offset
  BY NextFrame DEF DetectorIInv, Counters
<1>4. /\ PartialIntervalMs \in Nat \ {0} /\ PreRollMs \in Nat /\ MaximumUtteranceMs \in Nat
      /\ FrameMs \in Nat
  BY Durations
<1>5. preRoll = <<>> /\ idleStart = NoTime
  BY <1>1 DEF DetectorIInv, Speaking
<1> HIDE DEF f
<1>6. nextPartial' \in Nat
  <2>1. CASE PartialAt(f) = <<>>
    BY <1>1, <1>3, <2>1
  <2>2. CASE PartialAt(f) # <<>>
    <3>1. Elapsed(f) >= nextPartial
      BY <1>2, <2>2
    <3>2. Elapsed(f) - nextPartial \in Nat
      <4>1. Elapsed(f) \in Nat /\ nextPartial \in Nat
        BY <1>2, <1>3
      <4> QED BY <3>1, <4>1
    <3>3. (Elapsed(f) - nextPartial) \div PartialIntervalMs \in Nat
      BY <1>4, <3>2
    <3> DEFINE k == (Elapsed(f) - nextPartial) \div PartialIntervalMs
    <3>4. nextPartial' = nextPartial + PartialIntervalMs * (k + 1)
      BY <1>1, <2>2
    <3> HIDE DEF k
    <3>5. PartialIntervalMs * (k + 1) \in Nat
      BY <1>4, <3>3 DEF k
    <3> QED BY <1>3, <3>4, <3>5
  <2> QED BY <2>1, <2>2
<1>7. Counters'
  <2>1. active' \in BOOLEAN /\ candidate' \in Nat /\ silence' \in Nat /\ idleStart' \in Int
        /\ boundary' \in Int
    BY <1>1, <1>2, <1>3
  <2>2. idleStart' <= offset' /\ boundary' <= offset'
    BY <1>1, <1>3
  <2> QED BY <1>2, <1>6, <2>1, <2>2 DEF Counters
<1>8. Speaking' /\ Listening'
  <2>1. offset' - announced < PreRollMs + MaximumUtteranceMs
    <3>1. offset' - first < MaximumUtteranceMs
      BY <1>1, <1>2
    <3>2. first \in Int /\ first - announced <= PreRollMs /\ announced \in Int
      BY <1>2
    <3>3. offset' \in Int /\ PreRollMs \in Int /\ MaximumUtteranceMs \in Int
      BY <1>3, <1>4
    <3> QED BY <3>1, <3>2, <3>3, WithinLimits
  <2> QED BY <1>1, <1>2, <1>5, <2>1 DEF Speaking, Listening
<1>9. CutsFit'
  <2>1. result'.utterance = <<>> /\ result'.noSpeech = <<>> /\ result'.partial = PartialAt(f)
    BY <1>1 DEF NoResult
  <2>2. CASE PartialAt(f) = <<>>
    BY <2>1, <2>2 DEF CutsFit
  <2>3. CASE PartialAt(f) # <<>>
    <3>1. PartialAt(f) = <<announced, offset'>>
      BY <1>2, <2>3
    <3>2. announced < offset' /\ offset' <= offset' /\ announced' = announced
      BY <1>1, <1>2, <1>3
    <3> QED BY <1>2, <2>1, <3>1, <3>2 DEF CutsFit
  <2> QED BY <2>2, <2>3
<1>10. SpeechIsKept'
  BY <1>1 DEF SpeechIsKept
<1> QED BY <1>7, <1>8, <1>9, <1>10 DEF DetectorIInv

LEMMA FlushIdleKeeps ==
  ASSUME DurationAssumption, DetectorIInv, FlushIdle, run' = 0, offset' = offset
  PROVE  DetectorIInv'
<1>1. /\ ~active /\ idleStart # NoTime /\ offset > idleStart
      /\ result' = [NoResult EXCEPT !.noSpeech = <<idleStart, offset>>]
      /\ preRoll' = <<>> /\ candidate' = 0 /\ idleStart' = NoTime /\ boundary' = offset
      /\ UNCHANGED <<activeFrames, active, first, last, silence, nextPartial, announced>>
  BY DEF FlushIdle
<1>2. /\ offset \in Times /\ offset \in Nat /\ active \in BOOLEAN /\ silence \in Nat
      /\ nextPartial \in Nat /\ idleStart \in Int /\ StartEvidenceMs \in Nat \ {0}
  BY Durations DEF DetectorIInv, Counters, Times
<1>3. Counters'
  <2>1. idleStart' \in Int /\ idleStart' <= offset'
    BY <1>1, <1>2 DEF NoTime
  <2>2. run' \in 0 .. offset' /\ boundary' \in Int /\ boundary' <= offset'
    BY <1>1, <1>2
  <2> QED BY <1>1, <1>2, <2>1, <2>2 DEF Counters
<1>4. Speaking' /\ Listening'
  <2>1. activeFrames = <<>> /\ first = NoTime /\ last = NoTime
    BY <1>1 DEF DetectorIInv, Listening
  <2> QED BY <1>1, <2>1 DEF Speaking, Listening, SpeechFrom
<1>5. CutsFit'
  <2>1. result'.utterance = <<>> /\ result'.partial = <<>>
        /\ result'.noSpeech = <<idleStart, offset>>
    BY <1>1 DEF NoResult
  <2> QED BY <1>1, <1>2, <2>1 DEF CutsFit
<1>6. SpeechIsKept'
  BY <1>2 DEF SpeechIsKept
<1> QED BY <1>3, <1>4, <1>5, <1>6 DEF DetectorIInv

LEMMA ClearKeeps ==
  ASSUME DurationAssumption, DetectorIInv, Clear
  PROVE  DetectorIInv'
<1>1. /\ offset \in Times /\ offset \in Nat /\ nextPartial \in Nat /\ StartEvidenceMs \in Nat \ {0}
  BY Durations DEF DetectorIInv, Counters, Times
<1>2. Counters'
  <2>1. idleStart' \in Int /\ idleStart' <= offset'
    BY <1>1 DEF Clear, NoTime
  <2>2. offset' \in Times /\ boundary' \in Int /\ boundary' <= offset' /\ run' \in 0 .. offset'
    BY <1>1 DEF Clear, Times
  <2>3. candidate' \in Nat /\ silence' \in Nat /\ nextPartial' \in Nat /\ active' \in BOOLEAN
    BY <1>1 DEF Clear
  <2> QED BY <2>1, <2>2, <2>3 DEF Counters
<1>3. Speaking' /\ Listening'
  BY DEF Clear, Speaking, Listening, SpeechFrom
<1>4. CutsFit'
  BY DEF Clear, CutsFit, NoResult
<1>5. SpeechIsKept'
  BY <1>1 DEF Clear, SpeechIsKept
<1> QED BY <1>2, <1>3, <1>4, <1>5 DEF DetectorIInv

LEMMA DetectorStep ==
  ASSUME DurationAssumption, OverlapAssumption, DetectorIInv, Next \/ UNCHANGED vars
  PROVE  DetectorIInv'
<1>1. CASE Process
  <2>1. PICK speech \in BOOLEAN :
          /\ Taken(speech)
          /\ \/ StayIdle(Frame(speech)) \/ SpeechStarts(Frame(speech)) \/ ForcedSplit(Frame(speech))
             \/ EndOfSpeech(Frame(speech)) \/ StayActive(Frame(speech))
    BY <1>1 DEF Process, Taken
  <2> QED BY <2>1, StayIdleKeeps, SpeechStartsKeeps, ForcedSplitKeeps, EndOfSpeechKeeps, StayActiveKeeps
<1>2. CASE Flush
  BY <1>2, FlushActiveKeeps, FlushIdleKeeps DEF Flush
<1>3. CASE Clear
  BY <1>3, ClearKeeps
<1>4. CASE UNCHANGED vars
  BY <1>4 DEF vars, history, DetectorIInv, Counters, Speaking, Listening, SpeechFrom, Times,
              CutsFit, SpeechIsKept
<1> QED BY <1>1, <1>2, <1>3, <1>4 DEF Next

(* Inv: the buffers have no gap, every cut begins where it was announced and fits the
   limits, and speech that has lasted is kept.                               *)
THEOREM DetectorCorrect ==
  ASSUME DurationAssumption, OverlapAssumption
  PROVE  Spec => []Inv
<1>1. Init => DetectorIInv
  BY DetectorInitially
<1>2. DetectorIInv /\ [Next]_vars => DetectorIInv'
  BY DetectorStep
<1>3. DetectorIInv => Inv
  BY DetectorImplies
<1> QED BY <1>1, <1>2, <1>3, PTL DEF Spec

(* InOrder: no speech starts before the end of what was cut before it but for the overlap.
   Only SpeechStarts announces a start, and what it keeps begins behind.      *)
THEOREM StartsInOrder ==
  ASSUME DurationAssumption, OverlapAssumption
  PROVE  Spec => InOrder
<1>1. Init => DetectorIInv
  BY DetectorInitially
<1>2. DetectorIInv /\ [Next]_vars => DetectorIInv'
  BY DetectorStep
<1>3. DetectorIInv /\ [Next]_vars => [result'.started # NoTime => result'.started >= boundary]_vars
  <2> SUFFICES ASSUME DetectorIInv, Next, result'.started # NoTime
               PROVE  result'.started >= boundary
    OBVIOUS
  <2>1. CASE Process
    <3>1. PICK speech \in BOOLEAN :
            /\ Taken(speech)
            /\ \/ StayIdle(Frame(speech)) \/ SpeechStarts(Frame(speech)) \/ ForcedSplit(Frame(speech))
               \/ EndOfSpeech(Frame(speech)) \/ StayActive(Frame(speech))
      BY <2>1 DEF Process, Taken
    <3>2. CASE SpeechStarts(Frame(speech))
      BY <3>1, <3>2, SpeechStartsKeeps
    <3>3. CASE StayIdle(Frame(speech))
      BY <3>3 DEF StayIdle, NoResult
    <3>4. CASE StayActive(Frame(speech))
      BY <3>4 DEF StayActive, NoResult
    <3>5. CASE ForcedSplit(Frame(speech)) \/ EndOfSpeech(Frame(speech))
      BY <3>5 DEF ForcedSplit, EndOfSpeech, Finalize, NoResult
    <3> QED BY <3>1, <3>2, <3>3, <3>4, <3>5
  <2>2. CASE Flush
    BY <2>2 DEF Flush, FlushActive, FlushIdle, Finalize, NoResult
  <2>3. CASE Clear
    BY <2>3 DEF Clear, NoResult
  <2> QED BY <2>1, <2>2, <2>3 DEF Next
<1> QED BY <1>1, <1>2, <1>3, PTL DEF Spec, InOrder

-----------------------------------------------------------------------------
(* The language of the utterances. *)

Fates == Supported \cup {"waits", "silent", "failed", "assumed"}
Scores == [of : Supported, at : Nat]

(* Of the utterances, those that wait are the jobs, each once, and silent ones are silent. *)
UtterancesKept ==
  /\ start \in Seq(Nat) /\ fate \in Seq(Fates) /\ Len(start) = Len(fate)
  /\ jobs \in Seq(Nat)
  /\ \A i \in 1 .. Len(jobs) : jobs[i] \in 1 .. Len(fate) /\ fate[jobs[i]] = "waits"
  /\ \A i, j \in 1 .. Len(jobs) : jobs[i] = jobs[j] => i = j
  /\ \A n \in silent : n \in 1 .. Len(fate) /\ fate[n] = "silent"

(* The last sentence was translated, and heard, in its language.             *)
CompletedKept ==
  completed # None =>
    /\ completed.sequence \in 1 .. Len(fate) /\ completed.language \in Supported
    /\ fate[completed.sequence] = completed.language

HandedKept ==
  handed # None =>
    /\ handed.sequence \in 1 .. Len(fate) /\ handed.source \in Supported
    /\ handed.context # None => handed.context \in 1 .. Len(fate)

(* The candidate is what the latest scored detections were, one after the other; there is
   none while there is no lock.                                              *)
CandidateKept ==
  /\ manual \in Supported \cup {None} /\ locked \in Supported \cup {None}
  /\ count \in Nat /\ count < SwitchCount
  /\ locked = None => count = 0
  /\ evidence \in Seq(Scores) /\ count <= Len(evidence) /\ Len(evidence) <= SwitchCount
  /\ \A i \in 1 .. count : evidence[i].of = challenger /\ evidence[i].at >= Switch

LanguageIInv ==
  UtterancesKept /\ CompletedKept /\ HandedKept /\ CandidateKept /\ NothingIsMisread /\ ContextIsNear

-----------------------------------------------------------------------------
LEMMA LanguageInitially == ASSUME LanguageAssumption, LanguageInit PROVE LanguageIInv
<1>1. /\ <<>> \in Seq(Nat) /\ <<>> \in Seq(Fates) /\ <<>> \in Seq(Scores) /\ Len(<<>>) = 0
  BY EmptySeq, LenProperties
<1>2. UtterancesKept
  BY <1>1 DEF LanguageInit, UtterancesKept
<1>3. CandidateKept
  BY <1>1 DEF LanguageInit, CandidateKept, LanguageAssumption
<1> QED BY <1>2, <1>3 DEF LanguageInit, LanguageIInv, CompletedKept, HandedKept, NothingIsMisread,
                          ContextIsNear

(* What was settled stays so, and no utterance is moved.                     *)
Settles ==
  /\ fate' \in Seq(Fates) /\ start' \in Seq(Nat) /\ Len(start') = Len(fate')
  /\ Len(fate) <= Len(fate')
  /\ \A n \in 1 .. Len(fate) :
       start'[n] = start[n] /\ (fate[n] # "waits" => fate'[n] = fate[n])

LEMMA WhatIsSettledStays ==
  ASSUME LanguageAssumption, UtterancesKept, CompletedKept, HandedKept, NothingIsMisread, ContextIsNear,
         Settles
  PROVE  /\ completed' = completed => CompletedKept'
         /\ completed' = None => CompletedKept'
         /\ UNCHANGED <<handed, manual>> => HandedKept' /\ NothingIsMisread' /\ ContextIsNear'
<1>0. /\ Len(fate) \in Nat /\ Len(fate') \in Nat
  BY LenProperties DEF UtterancesKept, Settles
<1>1. completed' = completed => CompletedKept'
  <2> SUFFICES ASSUME completed' = completed, completed # None PROVE CompletedKept'
    BY DEF CompletedKept
  <2>1. /\ completed.sequence \in 1 .. Len(fate) /\ completed.language \in Supported
        /\ fate[completed.sequence] = completed.language
    BY DEF CompletedKept
  <2>2. fate[completed.sequence] # "waits"
    BY <2>1 DEF LanguageAssumption
  <2>3. fate'[completed.sequence] = completed.language /\ completed.sequence \in 1 .. Len(fate')
    BY <1>0, <2>1, <2>2 DEF Settles
  <2> QED BY <2>1, <2>3 DEF CompletedKept
<1>2. completed' = None => CompletedKept'
  BY DEF CompletedKept
<1>3. ASSUME UNCHANGED <<handed, manual>>
      PROVE  HandedKept' /\ NothingIsMisread' /\ ContextIsNear'
  <2>1. handed' = handed /\ manual' = manual
    BY <1>3
  <2>2. HandedKept'
    BY <1>0, <2>1 DEF HandedKept, Settles
  <2>3. NothingIsMisread'
    BY <2>1 DEF NothingIsMisread
  <2>4. ASSUME handed # None, handed.context # None
        PROVE  /\ handed.context < handed.sequence
               /\ fate'[handed.context] = handed.source /\ handed.spoken = handed.source
               /\ \A n \in (handed.context + 1) .. (handed.sequence - 1) : fate'[n] = "silent"
               /\ start'[handed.sequence] - start'[handed.context] <= GapLimit
    <3>1. /\ handed.context < handed.sequence
          /\ fate[handed.context] = handed.source /\ handed.spoken = handed.source
          /\ \A n \in (handed.context + 1) .. (handed.sequence - 1) : fate[n] = "silent"
          /\ start[handed.sequence] - start[handed.context] <= GapLimit
      BY <2>4 DEF ContextIsNear
    <3>2. /\ handed.sequence \in 1 .. Len(fate) /\ handed.context \in 1 .. Len(fate)
          /\ handed.source \in Supported
      BY <2>4 DEF HandedKept
    <3>3. fate[handed.context] # "waits"
      BY <3>1, <3>2 DEF LanguageAssumption
    <3>4. fate'[handed.context] = handed.source
      BY <3>1, <3>2, <3>3 DEF Settles
    <3>5. /\ start'[handed.sequence] = start[handed.sequence]
          /\ start'[handed.context] = start[handed.context]
      BY <3>2 DEF Settles
    <3>6. ASSUME NEW n \in (handed.context + 1) .. (handed.sequence - 1) PROVE fate'[n] = "silent"
      <4>1. n \in 1 .. Len(fate) /\ fate[n] = "silent"
        BY <1>0, <3>1, <3>2
      <4> QED BY <4>1 DEF Settles
    <3> QED BY <3>1, <3>4, <3>5, <3>6
  <2>5. ContextIsNear'
    BY <2>1, <2>4 DEF ContextIsNear
  <2> QED BY <2>2, <2>3, <2>5
<1> QED BY <1>1, <1>2, <1>3

LEMMA SilenceIsKept ==
  ASSUME NEW n
  PROVE  WithSilence(n) \subseteq silent \cup {n}
BY DEF WithSilence

(* The detector ends an utterance.                                           *)
LEMMA StartsOne ==
  ASSUME LanguageAssumption, UtterancesKept, NEW pause \in Pauses, Started(pause),
         NEW what \in {"waits", "silent"}, fate' = Append(fate, what)
  PROVE  /\ Settles /\ Len(fate') = Len(fate) + 1 /\ fate'[Len(fate) + 1] = what
         /\ \A n \in 1 .. Len(fate) : fate'[n] = fate[n]
<1>1. Len(fate) \in Nat /\ Len(start) = Len(fate) /\ pause \in Nat
  BY LenProperties DEF UtterancesKept, LanguageAssumption
<1> DEFINE t == pause + (IF start = <<>> THEN 0 ELSE start[Len(start)])
<1>2. t \in Nat
  <2>1. start # <<>> => start[Len(start)] \in Nat
    <3>1. start # <<>> => Len(start) \in 1 .. Len(start)
      BY <1>1, EmptySeq DEF UtterancesKept
    <3> QED BY <3>1, ElementOfSeq DEF UtterancesKept
  <2> QED BY <1>1, <2>1
<1>3. start' = Append(start, t)
  BY DEF Started
<1> HIDE DEF t
<1>4. /\ start' \in Seq(Nat) /\ Len(start') = Len(start) + 1
      /\ \A n \in 1 .. Len(start) : start'[n] = start[n]
  BY <1>2, <1>3, AppendProperties DEF UtterancesKept
<1>5. what \in Fates
  BY DEF Fates
<1>6. /\ fate' \in Seq(Fates) /\ Len(fate') = Len(fate) + 1 /\ fate'[Len(fate) + 1] = what
      /\ \A n \in 1 .. Len(fate) : fate'[n] = fate[n]
  BY <1>5, AppendProperties DEF UtterancesKept
<1> QED BY <1>1, <1>4, <1>6 DEF Settles

LEMMA DetectedKeeps ==
  ASSUME LanguageAssumption, LanguageIInv, NEW pause \in Pauses, Speech(pause) \/ EarlySilence(pause)
  PROVE  LanguageIInv'
<1>0. /\ UtterancesKept /\ CompletedKept /\ HandedKept /\ CandidateKept /\ NothingIsMisread
      /\ ContextIsNear /\ Len(fate) \in Nat /\ Len(start) = Len(fate) /\ Len(jobs) \in Nat
  BY LenProperties DEF LanguageIInv, UtterancesKept
<1>1. PICK what \in {"waits", "silent"} : fate' = Append(fate, what) /\ Started(pause)
  BY DEF Speech, EarlySilence
<1>2. /\ Settles /\ Len(fate') = Len(fate) + 1 /\ fate'[Len(fate) + 1] = what
      /\ \A n \in 1 .. Len(fate) : fate'[n] = fate[n]
  BY <1>0, <1>1, StartsOne
<1>3. UNCHANGED <<language, completed, handed>>
  BY DEF Speech, EarlySilence
<1>4. UtterancesKept'
  <2>1. CASE Speech(pause)
    <3> DEFINE k == Len(fate) + 1
    <3>1. jobs' = Append(jobs, k) /\ silent' = silent /\ fate' = Append(fate, "waits")
      BY <1>0, <2>1 DEF Speech
    <3>2. fate'[k] = "waits" /\ k \in Nat
      BY <1>0, <3>1, AppendProperties DEF UtterancesKept, Fates
    <3>3. /\ jobs' \in Seq(Nat) /\ Len(jobs') = Len(jobs) + 1 /\ jobs'[Len(jobs) + 1] = k
          /\ \A i \in 1 .. Len(jobs) : jobs'[i] = jobs[i]
      BY <1>0, <3>1, <3>2, AppendProperties DEF UtterancesKept
    <3> HIDE DEF k
    <3>4. ASSUME NEW i \in 1 .. Len(jobs')
          PROVE  jobs'[i] \in 1 .. Len(fate') /\ fate'[jobs'[i]] = "waits"
      <4>1. CASE i \in 1 .. Len(jobs)
        <5>1. jobs'[i] = jobs[i] /\ jobs[i] \in 1 .. Len(fate) /\ fate[jobs[i]] = "waits"
          BY <1>0, <3>3, <4>1 DEF UtterancesKept
        <5> QED BY <1>0, <1>2, <5>1
      <4>2. CASE i = Len(jobs) + 1
        BY <1>0, <1>2, <3>2, <3>3, <4>2 DEF k
      <4> QED BY <1>0, <3>3, <4>1, <4>2
    <3>5. ASSUME NEW i \in 1 .. Len(jobs'), NEW j \in 1 .. Len(jobs'), jobs'[i] = jobs'[j]
          PROVE  i = j
      <4>1. \A m \in 1 .. Len(jobs) : jobs'[m] \in 1 .. Len(fate)
        BY <1>0, <3>3 DEF UtterancesKept
      <4>2. CASE i \in 1 .. Len(jobs) /\ j \in 1 .. Len(jobs)
        BY <1>0, <3>3, <3>5, <4>2 DEF UtterancesKept
      <4>3. CASE i = Len(jobs) + 1 \/ j = Len(jobs) + 1
        BY <1>0, <3>3, <3>5, <4>1, <4>3 DEF k
      <4> QED BY <1>0, <3>3, <4>2, <4>3
    <3>6. \A n \in silent' : n \in 1 .. Len(fate') /\ fate'[n] = "silent"
      BY <1>0, <1>2, <3>1 DEF UtterancesKept
    <3> QED BY <1>2, <3>3, <3>4, <3>5, <3>6 DEF UtterancesKept, Settles
  <2>2. CASE EarlySilence(pause)
    <3>1. jobs' = jobs /\ silent' = WithSilence(Len(fate) + 1) /\ fate' = Append(fate, "silent")
      BY <1>0, <2>2 DEF EarlySilence
    <3>2. fate'[Len(fate) + 1] = "silent"
      BY <1>0, <3>1, AppendProperties DEF UtterancesKept, Fates
    <3>3. silent' \subseteq silent \cup {Len(fate) + 1}
      BY <3>1, SilenceIsKept
    <3>4. \A n \in silent' : n \in 1 .. Len(fate') /\ fate'[n] = "silent"
      BY <1>0, <1>2, <3>2, <3>3 DEF UtterancesKept
    <3>5. \A i \in 1 .. Len(jobs') : jobs'[i] \in 1 .. Len(fate') /\ fate'[jobs'[i]] = "waits"
      BY <1>0, <1>2, <3>1 DEF UtterancesKept
    <3> QED BY <1>0, <1>2, <3>1, <3>4, <3>5 DEF UtterancesKept, Settles
  <2> QED BY <2>1, <2>2
<1>5. CandidateKept'
  BY <1>0, <1>3 DEF CandidateKept, language
<1> QED BY <1>0, <1>2, <1>3, <1>4, <1>5, WhatIsSettledStays DEF LanguageIInv, language

(* The first job is settled.                                                 *)
LEMMA FinalizesOne ==
  ASSUME LanguageAssumption, UtterancesKept, NEW what \in Fates, what # "waits", Finalizes(what),
         UNCHANGED start, silent' \subseteq silent \cup {Head(jobs)},
         Head(jobs) \in silent' => what = "silent"
  PROVE  /\ Settles /\ UtterancesKept' /\ Len(fate') = Len(fate)
         /\ Head(jobs) \in 1 .. Len(fate) /\ fate[Head(jobs)] = "waits" /\ fate'[Head(jobs)] = what
         /\ \A n \in 1 .. Len(fate) : n # Head(jobs) => fate'[n] = fate[n]
<1>1. jobs # <<>> /\ jobs' = Tail(jobs) /\ fate' = [fate EXCEPT ![Head(jobs)] = what]
  BY DEF Finalizes
<1>2. Len(fate) \in Nat /\ Len(jobs) \in Nat /\ Len(start) = Len(fate)
  BY LenProperties DEF UtterancesKept
<1>3. /\ Head(jobs) = jobs[1] /\ Len(jobs) >= 1 /\ Tail(jobs) \in Seq(Nat)
      /\ Len(Tail(jobs)) = Len(jobs) - 1
      /\ \A i \in 1 .. Len(Tail(jobs)) : Tail(jobs)[i] = jobs[i + 1]
  <2>1. Len(jobs) # 0
    BY <1>1, EmptySeq DEF UtterancesKept
  <2> QED BY <1>1, <1>2, <2>1, HeadTailProperties DEF UtterancesKept
<1>4. Head(jobs) \in 1 .. Len(fate) /\ fate[Head(jobs)] = "waits"
  BY <1>2, <1>3 DEF UtterancesKept
<1>5. /\ fate' \in Seq(Fates) /\ Len(fate') = Len(fate) /\ fate'[Head(jobs)] = what
      /\ \A n \in 1 .. Len(fate) : n # Head(jobs) => fate'[n] = fate[n]
  BY <1>1, <1>4, ExceptSeq DEF UtterancesKept
<1>6. Settles
  BY <1>2, <1>4, <1>5 DEF Settles, UtterancesKept
<1>7. ASSUME NEW i \in 1 .. Len(jobs')
      PROVE  jobs'[i] \in 1 .. Len(fate') /\ fate'[jobs'[i]] = "waits"
  <2>1. i + 1 \in 1 .. Len(jobs) /\ jobs'[i] = jobs[i + 1] /\ 1 \in 1 .. Len(jobs) /\ i + 1 # 1
    BY <1>1, <1>2, <1>3
  <2>2. jobs[i + 1] # jobs[1] /\ jobs[i + 1] \in 1 .. Len(fate) /\ fate[jobs[i + 1]] = "waits"
    BY <2>1 DEF UtterancesKept
  <2> QED BY <1>3, <1>5, <2>1, <2>2
<1>8. ASSUME NEW i \in 1 .. Len(jobs'), NEW j \in 1 .. Len(jobs'), jobs'[i] = jobs'[j]
      PROVE  i = j
  <2>1. /\ i + 1 \in 1 .. Len(jobs) /\ j + 1 \in 1 .. Len(jobs)
        /\ jobs[i + 1] = jobs[j + 1]
    BY <1>1, <1>2, <1>3, <1>8
  <2>2. i + 1 = j + 1
    BY <2>1 DEF UtterancesKept
  <2> QED BY <1>2, <1>3, <2>2
<1>9. ASSUME NEW n \in silent' PROVE n \in 1 .. Len(fate') /\ fate'[n] = "silent"
  <2>1. CASE n = Head(jobs)
    BY <1>4, <1>5, <1>9, <2>1
  <2>2. CASE n # Head(jobs)
    BY <1>5, <1>9, <2>2 DEF UtterancesKept
  <2> QED BY <2>1, <2>2
<1>10. UtterancesKept'
  BY <1>1, <1>3, <1>5, <1>6, <1>7, <1>8, <1>9 DEF UtterancesKept, Settles
<1> QED BY <1>4, <1>5, <1>6, <1>10

LEMMA SettledKeeps ==
  ASSUME LanguageAssumption, LanguageIInv, LateSilence \/ Fails \/ DrainTimesOut
  PROVE  LanguageIInv'
<1>0. /\ UtterancesKept /\ CompletedKept /\ HandedKept /\ CandidateKept /\ NothingIsMisread
      /\ ContextIsNear
  BY DEF LanguageIInv
<1>1. Settles /\ UtterancesKept'
  <2>1. CASE LateSilence
    <3>1. silent' \subseteq silent \cup {Head(jobs)}
      BY <2>1, SilenceIsKept DEF LateSilence
    <3> QED BY <1>0, <2>1, <3>1, FinalizesOne DEF LateSilence, Fates
  <2>2. CASE Fails
    BY <1>0, <2>2, FinalizesOne DEF Fails, FailsOne, Fates
  <2>3. CASE DrainTimesOut
    <3>1. /\ jobs' = <<>> /\ UNCHANGED <<start, silent>>
          /\ fate' = [n \in DOMAIN fate |-> IF fate[n] = "waits" THEN "failed" ELSE fate[n]]
      BY <2>3 DEF DrainTimesOut
    <3>2. Len(fate) \in Nat /\ DOMAIN fate = 1 .. Len(fate) /\ \A n \in 1 .. Len(fate) : fate[n] \in Fates
      BY <1>0, LenProperties, ElementOfSeq DEF UtterancesKept
    <3>3. fate' \in [1 .. Len(fate) -> Fates]
      BY <3>1, <3>2 DEF Fates
    <3>4. fate' \in Seq(Fates) /\ Len(fate') = Len(fate)
      <4>1. fate' \in Seq(Fates)
        BY <3>2, <3>3, SeqDef
      <4> QED BY <3>2, <3>3, <4>1, LenProperties
    <3>5. <<>> \in Seq(Nat) /\ Len(<<>>) = 0
      BY EmptySeq
    <3>6. Settles
      BY <1>0, <3>1, <3>2, <3>4 DEF Settles, UtterancesKept
    <3>7. \A n \in silent' : n \in 1 .. Len(fate') /\ fate'[n] = "silent"
      BY <1>0, <3>1, <3>2, <3>4 DEF UtterancesKept
    <3> QED BY <1>0, <3>1, <3>4, <3>5, <3>6, <3>7 DEF UtterancesKept
  <2> QED BY <2>1, <2>2, <2>3
<1>2. UNCHANGED <<language, handed>> /\ (completed' = completed \/ completed' = None)
  BY DEF LateSilence, Fails, FailsOne, DrainTimesOut
<1>3. CandidateKept'
  BY <1>0, <1>2 DEF CandidateKept, language
<1> QED BY <1>0, <1>1, <1>2, <1>3, WhatIsSettledStays DEF LanguageIInv, language

-----------------------------------------------------------------------------
LEMMA ScoreOfTranscribed ==
  ASSUME LanguageAssumption, NEW heard \in Heard, NEW h \in Transcribed(heard)
  PROVE  h.confidence \in Nat \cup {None}
<1>1. Reread.confidence = None
  BY DEF Reread
<1> QED BY <1>1 DEF Transcribed, LanguageAssumption

(* A scored detection goes before the earlier ones.                          *)
LEMMA LatestFirst ==
  ASSUME CandidateKept, SwitchCount \in Nat \ {0}, NEW e \in Scores,
         evidence' = SubSeq(<<e>> \o evidence, 1,
                            IF Len(evidence) < SwitchCount THEN Len(evidence) + 1 ELSE SwitchCount)
  PROVE  /\ evidence' \in Seq(Scores) /\ Len(evidence') \in Nat /\ Len(evidence') <= SwitchCount
         /\ Len(evidence') = IF Len(evidence) < SwitchCount THEN Len(evidence) + 1 ELSE SwitchCount
         /\ evidence'[1] = e
         /\ \A i \in 1 .. Len(evidence') : i # 1 => evidence'[i] = evidence[i - 1]
<1> DEFINE k == IF Len(evidence) < SwitchCount THEN Len(evidence) + 1 ELSE SwitchCount
           s == <<e>> \o evidence
<1>1. Len(evidence) \in Nat /\ evidence \in Seq(Scores) /\ Len(evidence) <= SwitchCount
  BY LenProperties DEF CandidateKept
<1>2. <<e>> \in Seq(Scores) /\ Len(<<e>>) = 1 /\ <<e>>[1] = e
  OBVIOUS
<1>3. /\ s \in Seq(Scores) /\ Len(s) = 1 + Len(evidence)
      /\ s[1] = e /\ \A i \in 1 .. Len(s) : i # 1 => s[i] = evidence[i - 1]
  BY <1>1, <1>2, ConcatProperties
<1>4. k \in Nat /\ 1 <= k /\ k <= Len(evidence) + 1 /\ k <= SwitchCount
  BY <1>1
<1>5. evidence' = SubSeq(s, 1, k)
  OBVIOUS
<1> HIDE DEF s, k
<1>6. /\ evidence' \in Seq(Scores) /\ Len(evidence') = k
      /\ \A i \in 1 .. k : evidence'[i] = s[i]
  <2>1. \A i \in 1 .. k : s[i] \in Scores
    BY <1>1, <1>3, <1>4, ElementOfSeq
  <2>2. /\ SubSeq(s, 1, k) \in Seq(Scores)
        /\ Len(SubSeq(s, 1, k)) = IF 1 <= k THEN k - 1 + 1 ELSE 0
        /\ \A i \in 1 .. k - 1 + 1 : SubSeq(s, 1, k)[i] = s[1 + i - 1]
    BY <1>3, <1>4, <2>1, SubSeqProperties
  <2> QED BY <1>4, <1>5, <2>2
<1> QED BY <1>1, <1>3, <1>4, <1>6 DEF k

LEMMA ObservedKeeps ==
  ASSUME LanguageAssumption, CandidateKept, NEW h, h.confidence \in Nat \cup {None}, Observe(h)
  PROVE  /\ CandidateKept' /\ manual' = manual
         /\ locked' # locked =>
              /\ manual = None
              /\ IF locked = None THEN evidence'[1].of = locked' /\ evidence'[1].at >= Lock
                 ELSE /\ Len(evidence') = SwitchCount
                      /\ \A i \in 1 .. SwitchCount :
                           evidence'[i].of = locked' /\ evidence'[i].at >= Switch
<1> DEFINE o == Observed(h)
           counts == manual = None /\ ~Refused(h) /\ Scored(h)
           e == [of |-> Detected(h), at |-> h.confidence]
<1>1. /\ locked' = o.locked /\ challenger' = o.candidate /\ count' = o.count /\ manual' = manual
  BY DEF Observe
<1>2. /\ SwitchCount \in Nat \ {0} /\ Lock \in Nat /\ Switch \in Nat /\ None \notin Supported
      /\ None \notin Nat
  BY DEF LanguageAssumption
<1>3. /\ Len(evidence) \in Nat /\ count \in Nat /\ count < SwitchCount /\ count <= Len(evidence)
      /\ locked = None => count = 0
      /\ manual \in Supported \cup {None} /\ locked \in Supported \cup {None}
      /\ \A i \in 1 .. count : evidence[i].of = challenger /\ evidence[i].at >= Switch
  BY LenProperties DEF CandidateKept
<1>4. CASE ~counts
  <2>1. o = KeepsCandidate(h)
    BY <1>4 DEF Observed
  <2>2. evidence' = evidence
    BY <1>4 DEF Observe
  <2> QED BY <1>1, <2>1, <2>2 DEF CandidateKept, KeepsCandidate
<1>5. CASE counts
  <2>1. /\ Detected(h) \in Supported /\ h.confidence \in Nat
    BY <1>2, <1>5 DEF Scored, Confidence, Detected
  <2>2. e \in Scores /\ e.of = Detected(h) /\ e.at = h.confidence
    BY <2>1 DEF Scores
  <2>3. evidence' = SubSeq(<<e>> \o evidence, 1,
                           IF Len(evidence) < SwitchCount THEN Len(evidence) + 1 ELSE SwitchCount)
    BY <1>5 DEF Observe
  <2> HIDE DEF e
  <2>4. /\ evidence' \in Seq(Scores) /\ Len(evidence') \in Nat /\ Len(evidence') <= SwitchCount
        /\ Len(evidence') = IF Len(evidence) < SwitchCount THEN Len(evidence) + 1 ELSE SwitchCount
        /\ evidence'[1] = e
        /\ \A i \in 1 .. Len(evidence') : i # 1 => evidence'[i] = evidence[i - 1]
    BY <1>2, <2>2, <2>3, LatestFirst
  <2>5. o = IF locked = None
            THEN [KeepsCandidate(h) EXCEPT !.locked = IF h.confidence >= Lock THEN Detected(h) ELSE None]
            ELSE IF Detected(h) = locked THEN Standing
            ELSE IF h.confidence >= Switch THEN Challenged(h)
            ELSE Unconvinced(h)
    BY <1>5 DEF Observed
  <2> HIDE DEF o
  <2>6. CASE locked = None
    <3>1. /\ o.locked = (IF h.confidence >= Lock THEN Detected(h) ELSE None)
          /\ o.candidate = challenger /\ o.count = count
      BY <2>5, <2>6 DEF KeepsCandidate
    <3>2. CandidateKept'
      BY <1>1, <1>3, <2>1, <2>4, <2>6, <3>1 DEF CandidateKept
    <3> QED BY <1>1, <1>5, <2>1, <2>2, <2>4, <2>6, <3>1, <3>2
  <2>7. CASE locked # None /\ (Detected(h) = locked \/ ~(h.confidence >= Switch))
    <3>1. o.locked = locked /\ o.count = 0
      BY <2>5, <2>7 DEF Standing, Unconvinced
    <3> QED BY <1>1, <1>2, <1>3, <2>4, <3>1 DEF CandidateKept
  <2>8. CASE locked # None /\ Detected(h) # locked /\ h.confidence >= Switch
    <3> DEFINE n == IF Detected(h) = challenger THEN count + 1 ELSE 1
    <3>1. o = IF n >= SwitchCount THEN [Standing EXCEPT !.locked = Detected(h)]
              ELSE [locked |-> locked, candidate |-> Detected(h), count |-> n]
      BY <2>5, <2>8 DEF Challenged
    <3>2. n \in Nat /\ n <= SwitchCount /\ n <= Len(evidence')
      BY <1>2, <1>3, <2>4
    <3>3. ASSUME NEW i \in 1 .. n PROVE evidence'[i].of = Detected(h) /\ evidence'[i].at >= Switch
      <4>1. CASE i = 1
        BY <2>2, <2>4, <2>8, <4>1
      <4>2. CASE i # 1
        <5>1. Detected(h) = challenger /\ i - 1 \in 1 .. count /\ i \in 1 .. Len(evidence')
          BY <1>3, <3>2, <4>2
        <5>2. evidence'[i] = evidence[i - 1]
          BY <2>4, <4>2, <5>1
        <5> QED BY <1>3, <5>1, <5>2
      <4> QED BY <4>1, <4>2
    <3> HIDE DEF n
    <3>4. CASE n >= SwitchCount
      <4>1. o.locked = Detected(h) /\ o.count = 0
        BY <3>1, <3>4 DEF Standing
      <4>2. n = SwitchCount /\ Len(evidence') = SwitchCount
        BY <1>2, <2>4, <3>2, <3>4
      <4>3. CandidateKept'
        BY <1>1, <1>2, <1>3, <2>1, <2>4, <4>1 DEF CandidateKept
      <4> QED BY <1>1, <1>5, <2>8, <3>3, <4>1, <4>2, <4>3
    <3>5. CASE ~(n >= SwitchCount)
      <4>1. o.locked = locked /\ o.count = n /\ o.candidate = Detected(h)
        BY <3>1, <3>5
      <4>2. n < SwitchCount
        BY <1>2, <3>2, <3>5
      <4> QED BY <1>1, <1>3, <2>4, <2>8, <3>2, <3>3, <4>1, <4>2 DEF CandidateKept
    <3> QED BY <3>4, <3>5
  <2> QED BY <2>6, <2>7, <2>8
<1> QED BY <1>4, <1>5

-----------------------------------------------------------------------------
(* What a sentence is handed over with.                                      *)
LEMMA HandsWhatIsKnown ==
  ASSUME LanguageAssumption, UtterancesKept, CompletedKept, CandidateKept,
         NEW h, Hands(h), UtterancesKept', Settles, CandidateKept', manual' = manual,
         Head(jobs) \in 1 .. Len(fate)
  PROVE  /\ Source(h) \in Supported
         /\ HandedKept' /\ NothingIsMisread' /\ ContextIsNear'
<1> DEFINE n == Head(jobs)
<1>0. Len(fate) \in Nat /\ Len(fate') \in Nat /\ Len(fate) <= Len(fate')
      /\ None \notin Supported /\ None # "other" /\ "other" \notin Supported /\ "waits" \notin Supported
      /\ None \notin Nat
  BY LenProperties DEF UtterancesKept, Settles, LanguageAssumption
<1>1. /\ ~Refused(h) /\ Source(h) # None
      /\ handed' = [sequence |-> n, spoken |-> IF Unsupported(h) THEN "other" ELSE Detected(h),
                    source |-> Source(h), context |-> Context(n, h)]
  BY DEF Hands
<1>2. ~Unsupported(h) /\ (manual # None => Identified(h) /\ Detected(h) = manual)
  BY <1>1 DEF Refused
<1>3. Detected(h) \in Supported \cup {None}
  BY DEF Detected
<1>4. Source(h) \in Supported
  <2>1. CASE manual # None
    BY <1>1, <2>1 DEF Source, CandidateKept
  <2>2. CASE manual = None /\ Identified(h)
    BY <1>1, <1>3, <2>2 DEF Source
  <2>3. CASE manual = None /\ ~Identified(h)
    <3>1. Source(h) = locked'
      BY <2>3 DEF Source, Hands, Observe
    <3> QED BY <1>1, <3>1 DEF CandidateKept
  <2> QED BY <2>1, <2>2, <2>3
<1>5. /\ handed'.sequence = n /\ handed'.spoken = Detected(h) /\ handed'.source = Source(h)
      /\ handed'.context = Context(n, h)
  BY <1>1, <1>2
<1>6. NothingIsMisread'
  <2>1. manual # None => Source(h) = manual /\ Detected(h) = manual
    BY <1>2 DEF Source
  <2>2. Detected(h) # "other"
    BY <1>0, <1>3
  <2> QED BY <1>5, <2>1, <2>2 DEF NothingIsMisread
<1>7. ASSUME Context(n, h) # None
      PROVE  /\ Context(n, h) \in 1 .. Len(fate) /\ Context(n, h) < n
             /\ fate'[Context(n, h)] = Source(h) /\ Detected(h) = Source(h)
             /\ \A m \in (Context(n, h) + 1) .. (n - 1) : fate'[m] = "silent"
             /\ start'[n] - start'[Context(n, h)] <= GapLimit
  <2> DEFINE c == completed.sequence
  <2>1. /\ OnlySilenceBefore(n) /\ completed.language = Source(h) /\ Detected(h) = Source(h)
        /\ start[n] - start[c] <= GapLimit /\ Context(n, h) = c
    BY <1>7 DEF Context
  <2>2. completed # None /\ n - c \in 1 .. Cardinality(silent) + 1 /\ (c + 1) .. (n - 1) \subseteq silent
    BY <2>1 DEF OnlySilenceBefore
  <2>3. c \in 1 .. Len(fate) /\ fate[c] = Source(h)
    BY <2>1, <2>2 DEF CompletedKept
  <2>4. 1 <= n - c
    BY <2>2
  <2> HIDE DEF c, n
  <2>5. c < n /\ n \in 1 .. Len(fate)
    BY <1>0, <2>3, <2>4 DEF n
  <2>6. fate'[c] = Source(h) /\ start'[n] = start[n] /\ start'[c] = start[c]
    BY <1>0, <1>4, <2>3, <2>5 DEF Settles
  <2>7. ASSUME NEW m \in (c + 1) .. (n - 1) PROVE fate'[m] = "silent"
    <3>1. m \in silent
      BY <2>2
    <3>2. m \in 1 .. Len(fate) /\ fate[m] = "silent"
      BY <3>1 DEF UtterancesKept
    <3> QED BY <3>2 DEF Settles
  <2> QED BY <2>1, <2>3, <2>5, <2>6, <2>7
<1>8. HandedKept'
  <2>1. n \in 1 .. Len(fate') /\ \A c \in 1 .. Len(fate) : c \in 1 .. Len(fate')
    BY <1>0
  <2> QED BY <1>4, <1>5, <1>7, <2>1 DEF HandedKept
<1>9. ContextIsNear'
  BY <1>5, <1>7 DEF ContextIsNear
<1> QED BY <1>4, <1>6, <1>8, <1>9

LEMMA HeardKeeps ==
  ASSUME LanguageAssumption, LanguageIInv, NEW heard \in Heard, NEW h \in Transcribed(heard),
         Undetermined(h) \/ Translated(h) \/ TranslationFails(h)
  PROVE  LanguageIInv'
<1>0. /\ UtterancesKept /\ CompletedKept /\ HandedKept /\ CandidateKept /\ NothingIsMisread
      /\ ContextIsNear
  BY DEF LanguageIInv
<1>1. CandidateKept' /\ manual' = manual
  <2>1. Observe(h)
    BY DEF Undetermined, Translated, TranslationFails, Hands
  <2> QED BY <1>0, <2>1, ScoreOfTranscribed, ObservedKeeps
<1>2. CASE Undetermined(h)
  <2>1. /\ Finalizes("failed") /\ completed' = None /\ silent' = silent \ {Head(jobs)}
        /\ UNCHANGED <<start, handed>>
    BY <1>2 DEF Undetermined, FailsOne
  <2>2. Settles /\ UtterancesKept'
    BY <1>0, <2>1, FinalizesOne DEF Fates
  <2> QED BY <1>0, <1>1, <2>1, <2>2, WhatIsSettledStays DEF LanguageIInv
<1>3. CASE TranslationFails(h)
  <2>1. /\ Finalizes("failed") /\ completed' = None /\ silent' = silent \ {Head(jobs)}
        /\ UNCHANGED start /\ Hands(h)
    BY <1>3 DEF TranslationFails, FailsOne
  <2>2. Settles /\ UtterancesKept' /\ Head(jobs) \in 1 .. Len(fate)
    BY <1>0, <2>1, FinalizesOne DEF Fates
  <2>3. CompletedKept'
    BY <2>1 DEF CompletedKept
  <2> QED BY <1>0, <1>1, <2>1, <2>2, <2>3, HandsWhatIsKnown DEF LanguageIInv
<1>4. CASE Translated(h)
  <2> DEFINE n == Head(jobs)
             what == IF Detected(h) = Source(h) THEN Source(h) ELSE "assumed"
  <2>1. /\ Finalizes(what) /\ Hands(h) /\ UNCHANGED start
        /\ completed' = Keeps(n, h) /\ silent' = { s \in silent : s > n }
    BY <1>4 DEF Translated
  <2>2. Source(h) \in Supported
    <3>1. CASE manual # None
      BY <1>0, <3>1 DEF Source, CandidateKept
    <3>2. CASE manual = None /\ Identified(h)
      BY <3>2 DEF Source, Identified, Detected
    <3>3. CASE manual = None /\ ~Identified(h)
      <4>1. Source(h) = locked' /\ Source(h) # None
        BY <2>1, <3>3 DEF Source, Hands, Observe
      <4> QED BY <1>1, <4>1 DEF CandidateKept
    <3> QED BY <3>1, <3>2, <3>3
  <2>3. what \in Fates /\ what # "waits"
    BY <2>2 DEF Fates, LanguageAssumption
  <2>4. jobs # <<>> /\ jobs \in Seq(Nat)
    BY <1>0, <2>1 DEF Finalizes, UtterancesKept
  <2>5. n \in Nat
    BY <2>4, HeadTailProperties
  <2> HIDE DEF what
  <2>6. n \notin silent'
    BY <2>1, <2>5
  <2>7. /\ Settles /\ UtterancesKept' /\ Len(fate') = Len(fate)
        /\ n \in 1 .. Len(fate) /\ fate'[n] = what
    BY <1>0, <2>1, <2>3, <2>6, FinalizesOne
  <2>8. CompletedKept'
    <3>1. CASE Detected(h) = Source(h)
      <4>1. completed'.sequence = n /\ completed'.language = Source(h) /\ what = Source(h)
        BY <2>1, <3>1 DEF Keeps, what
      <4> QED BY <2>2, <2>7, <4>1 DEF CompletedKept
    <3>2. CASE Detected(h) # Source(h)
      BY <2>1, <3>2 DEF Keeps, CompletedKept
    <3> QED BY <3>1, <3>2
  <2> QED BY <1>0, <1>1, <2>1, <2>7, <2>8, HandsWhatIsKnown DEF LanguageIInv
<1> QED BY <1>2, <1>3, <1>4

LEMMA LanguageKept ==
  ASSUME LanguageAssumption, LanguageIInv, LanguageNext \/ UNCHANGED languageVars
  PROVE  LanguageIInv'
<1>1. CASE UNCHANGED languageVars
  BY <1>1 DEF languageVars, language, LanguageIInv, UtterancesKept, CompletedKept, HandedKept,
              CandidateKept, NothingIsMisread, ContextIsNear
<1> QED BY <1>1, DetectedKeeps, SettledKeeps, HeardKeeps DEF LanguageNext

(* What is handed to the translator was not recognised as another language, nor, under a
   chosen language, in any but that one; and the context of a sentence is an earlier one that
   was translated, was heard in the same language, is near, and has nothing but silence after
   it (language.py observe, stream.py _translate_final_utterance).           *)
THEOREM LanguageCorrect == ASSUME LanguageAssumption PROVE LanguageSpec => []LanguageInv
<1>1. LanguageInit => LanguageIInv
  BY LanguageInitially
<1>2. LanguageIInv /\ [LanguageNext]_languageVars => LanguageIInv'
  BY LanguageKept
<1>3. LanguageIInv => LanguageInv
  BY DEF LanguageIInv, LanguageInv
<1> QED BY <1>1, <1>2, <1>3, PTL DEF LanguageSpec

(* The lock on a language is set only by a detection beyond its threshold, and given up only
   for a language that as many of the last scored detections as are configured all were, each
   beyond the threshold; a chosen language is never given up (language.py observe). *)
THEOREM LockAlwaysFollowsEvidence ==
  ASSUME LanguageAssumption PROVE LanguageSpec => LockFollowsEvidence
<1> DEFINE Follows ==
      locked' # locked =>
        /\ manual = None
        /\ IF locked = None THEN evidence'[1].of = locked' /\ evidence'[1].at >= Lock
           ELSE /\ Len(evidence') = SwitchCount
                /\ \A i \in 1 .. SwitchCount : evidence'[i].of = locked' /\ evidence'[i].at >= Switch
<1>1. LanguageInit => LanguageIInv
  BY LanguageInitially
<1>2. LanguageIInv /\ [LanguageNext]_languageVars => LanguageIInv'
  BY LanguageKept
<1>3. LanguageIInv /\ [LanguageNext]_languageVars => [Follows]_languageVars
  <2> SUFFICES ASSUME LanguageIInv, LanguageNext PROVE Follows
    OBVIOUS
  <2>1. ASSUME NEW heard \in Heard, NEW h \in Transcribed(heard), Observe(h) PROVE Follows
    BY <2>1, ScoreOfTranscribed, ObservedKeeps DEF LanguageIInv
  <2>2. ASSUME UNCHANGED language PROVE Follows
    BY <2>2 DEF language
  <2> QED BY <2>1, <2>2
          DEF LanguageNext, LateSilence, Fails, DrainTimesOut, Speech, EarlySilence,
              Undetermined, Translated, TranslationFails, Hands
<1> QED BY <1>1, <1>2, <1>3, PTL DEF LanguageSpec, LockFollowsEvidence
=============================================================================
