--------------------------- MODULE Encoder_proofs ---------------------------
(***************************************************************************)
(* Proofs about Encoder: every packet is decided in a way its frames can   *)
(* be coded in and its table of contents can say; it keeps to its budget;  *)
(* pauses begin and end; and the CELT coders of both sides restart         *)
(* together.  For any settings, changed between packets in any way.        *)
(***************************************************************************)
EXTENDS Encoder, SequenceFacts

(***************************************************************************)
(* Sums over sequences.                                                    *)
(***************************************************************************)
LEMMA SumsExist ==
  ASSUME NEW n \in Nat, NEW parts
  PROVE  \E f : f = [i \in 0 .. n |-> IF i = 0 THEN 0 ELSE f[i - 1] + parts[i]]
<1> DEFINE Sums(f, k) ==
             f = [i \in 0 .. k |-> IF i = 0 THEN 0 ELSE f[i - 1] + parts[i]]
           T == {k \in Nat : \E f : Sums(f, k)}
<1>1. 0 \in T
  <2> DEFINE g == [i \in 0 .. 0 |-> 0]
  <2>1. Sums(g, 0)
    OBVIOUS
  <2> HIDE DEF g, Sums
  <2> QED BY <2>1
<1>2. ASSUME NEW k \in Nat, k \in T PROVE k + 1 \in T
  <2>1. PICK f : Sums(f, k)
    BY <1>2
  <2> DEFINE g == [i \in 0 .. k + 1 |-> IF i <= k THEN f[i] ELSE f[k] + parts[k + 1]]
  <2>2. \A i \in 0 .. k : f[i] = IF i = 0 THEN 0 ELSE f[i - 1] + parts[i]
    BY <2>1
  <2>3. ASSUME NEW i \in 0 .. k + 1
        PROVE  g[i] = IF i = 0 THEN 0 ELSE g[i - 1] + parts[i]
    <3>1. CASE i <= k
      BY <2>2, <3>1
    <3>2. CASE i = k + 1
      <4>1. i - 1 = k /\ i # 0
        BY <3>2
      <4>2. g[i] = f[k] + parts[k + 1] /\ g[k] = f[k]
        BY <3>2
      <4> HIDE DEF g
      <4> QED BY <3>2, <4>1, <4>2, Zenon
    <3> QED BY <3>1, <3>2
  <2>4. Sums(g, k + 1)
    BY <2>3
  <2> HIDE DEF g
  <2>5. \E f1 : Sums(f1, k + 1)
    BY <2>4
  <2> HIDE DEF Sums
  <2> QED BY <2>5
<1>3. n \in T
  <2> HIDE DEF T
  <2> QED BY <1>1, <1>2, Induction
<1> QED BY <1>3

SumsUpTo(f, n, parts) ==
  /\ f[0] = 0
  /\ \A i \in 1 .. n : parts[i] \in Int /\ f[i] = f[i - 1] + parts[i]

LEMMA SumsAgree ==
  ASSUME NEW n \in Nat, NEW parts, NEW f, NEW g,
         SumsUpTo(f, n, parts), SumsUpTo(g, n, parts)
  PROVE  f[n] = g[n] /\ f[n] \in Int
<1> DEFINE T == {k \in Nat : k <= n => f[k] = g[k] /\ f[k] \in Int}
<1>1. 0 \in T
  BY DEF SumsUpTo
<1>2. ASSUME NEW k \in Nat, k \in T PROVE k + 1 \in T
  <2> SUFFICES ASSUME k + 1 <= n PROVE f[k + 1] = g[k + 1] /\ f[k + 1] \in Int
    OBVIOUS
  <2>1. f[k] = g[k] /\ f[k] \in Int
    BY <1>2
  <2>2. k + 1 \in 1 .. n /\ (k + 1) - 1 = k
    OBVIOUS
  <2>3. parts[k + 1] \in Int /\ f[k + 1] = f[k] + parts[k + 1]
        /\ g[k + 1] = g[k] + parts[k + 1]
    BY <2>2 DEF SumsUpTo
  <2> QED BY <2>1, <2>3
<1>3. n \in T
  <2> HIDE DEF T
  <2> QED BY <1>1, <1>2, Induction
<1> QED BY <1>3

LEMMA SumUnfolds ==
  ASSUME NEW s \in Seq(Int)
  PROVE  \E f : SumsUpTo(f, Len(s), s) /\ PlusAll(s) = f[Len(s)]
<1>. DEFINE n       == Len(s)
            Sums(f) == f = [i \in 0 .. n |-> IF i = 0 THEN 0 ELSE f[i - 1] + s[i]]
            sum     == CHOOSE f : Sums(f)
<1>1. n \in Nat
  OBVIOUS
<1>2. Sums(sum)
  <2>1. \E f : Sums(f)
    BY <1>1, SumsExist
  <2>. HIDE DEF Sums
  <2>. QED
    BY <2>1
<1>3. PlusAll(s) = sum[n]
  BY DEF PlusAll
<1>. HIDE DEF sum
<1>4. \A i \in 0 .. n : sum[i] = IF i = 0 THEN 0 ELSE sum[i - 1] + s[i]
  BY <1>2
<1>5. SumsUpTo(sum, n, s)
  BY <1>1, <1>4 DEF SumsUpTo
<1>. QED
  BY <1>3, <1>5

LEMMA SumEmpty == PlusAll(<<>>) = 0
<1>1. <<>> \in Seq(Int) /\ Len(<<>>) = 0
  OBVIOUS
<1>. QED
  BY <1>1, SumUnfolds DEF SumsUpTo

LEMMA SumAppend ==
  ASSUME NEW s \in Seq(Int), NEW x \in Int
  PROVE  PlusAll(s) \in Int /\ PlusAll(Append(s, x)) = PlusAll(s) + x
<1>. DEFINE more == Append(s, x)
            n    == Len(s)
<1>1. /\ more \in Seq(Int) /\ n \in Nat /\ Len(more) = n + 1 /\ more[n + 1] = x
      /\ \A i \in 1 .. n : more[i] = s[i] /\ s[i] \in Int
  OBVIOUS
<1>. HIDE DEF more
<1>2. PICK f : SumsUpTo(f, n, s) /\ PlusAll(s) = f[n]
  BY SumUnfolds
<1>3. PICK g : SumsUpTo(g, n + 1, more) /\ PlusAll(more) = g[n + 1]
  BY <1>1, SumUnfolds
<1>4. SumsUpTo(g, n, s)
  BY <1>1, <1>3 DEF SumsUpTo
<1>5. f[n] = g[n] /\ f[n] \in Int
  BY <1>1, <1>2, <1>4, SumsAgree
<1>6. n + 1 \in 1 .. n + 1 /\ (n + 1) - 1 = n
  BY <1>1
<1>7. g[n + 1] = g[n] + x
  BY <1>1, <1>3, <1>6 DEF SumsUpTo
<1>. QED
  BY <1>2, <1>3, <1>5, <1>7 DEF more

(* No part above a bound, no sum above as many times it.                   *)
LEMMA ProductFact ==
  ASSUME NEW a \in Nat, NEW b \in Nat
  PROVE  a * b \in Nat /\ (a + 1) * b = a * b + b
OBVIOUS

LEMMA SumBound ==
  ASSUME NEW s \in Seq(Int), NEW m \in Nat, \A i \in 1 .. Len(s) : s[i] \in 0 .. m
  PROVE  PlusAll(s) \in Nat /\ PlusAll(s) <= Len(s) * m
<1>. DEFINE n == Len(s)
<1>1. n \in Nat
  OBVIOUS
<1>2. PICK f : SumsUpTo(f, n, s) /\ PlusAll(s) = f[n]
  BY SumUnfolds
<1>. DEFINE T == {k \in Nat : k <= n => f[k] \in Nat /\ f[k] <= k * m}
<1>3. 0 \in T
  BY <1>2 DEF SumsUpTo
<1>4. ASSUME NEW k \in Nat, k \in T PROVE k + 1 \in T
  <2>. SUFFICES ASSUME k + 1 <= n PROVE f[k + 1] \in Nat /\ f[k + 1] <= (k + 1) * m
    OBVIOUS
  <2>1. f[k] \in Nat /\ f[k] <= k * m
    BY <1>4
  <2>2. k + 1 \in 1 .. n /\ (k + 1) - 1 = k
    BY <1>1
  <2>3. s[k + 1] \in 0 .. m /\ f[k + 1] = f[k] + s[k + 1]
    BY <1>2, <2>2 DEF SumsUpTo
  <2>4. k * m \in Nat /\ (k + 1) * m = k * m + m
    BY ProductFact
  <2>. QED
    BY <2>1, <2>3, <2>4
<1>5. n \in T
  <2>. HIDE DEF T
  <2>. QED
    BY <1>1, <1>3, <1>4, Induction
<1>. QED
  BY <1>1, <1>2, <1>5

(***************************************************************************)
(* What a packet is decided to be.                                         *)
(***************************************************************************)
Modes == {"silk", "hybrid", "celt"}

LEMMA MaxIsIn ==
  ASSUME NEW S, S \subseteq 1 .. 5, S # {}
  PROVE  Max(S) \in S
<1>1. \E x \in S : \A y \in S : x >= y
  <2>1. CASE 5 \in S
    BY <2>1
  <2>2. CASE 5 \notin S /\ 4 \in S
    BY <2>2
  <2>3. CASE 5 \notin S /\ 4 \notin S /\ 3 \in S
    BY <2>3
  <2>4. CASE 5 \notin S /\ 4 \notin S /\ 3 \notin S /\ 2 \in S
    BY <2>4
  <2>5. CASE 5 \notin S /\ 4 \notin S /\ 3 \notin S /\ 2 \notin S
    <3>1. \A y \in S : y = 1
      BY <2>5
    <3>2. 1 \in S
      BY <3>1
    <3>. QED
      BY <3>1, <3>2
  <2>. QED
    BY <2>1, <2>2, <2>3, <2>4, <2>5
<1>2. PICK x : x \in S /\ \A y \in S : x >= y
  BY <1>1
<1>. DEFINE m == CHOOSE z \in S : \A y \in S : z >= y
<1>3. m \in S
  BY <1>2, Zenon
<1>. QED
  BY <1>3 DEF Max

LEMMA MinIs ==
  ASSUME NEW S, S \subseteq Int, NEW x \in S, \A y \in S : x <= y
  PROVE  Min(S) = x
<1>. DEFINE m == CHOOSE z \in S : \A y \in S : z <= y
<1>1. m \in S /\ \A y \in S : m <= y
  BY Zenon
<1>2. m = x
  <2>. HIDE DEF m
  <2>. QED
    BY <1>1
<1>. QED
  BY <1>2 DEF Min

LEMMA AffordedFits ==
  ASSUME NEW first, NEW auto, NEW voice, NEW equiv
  PROVE  AffordedBandwidth(first, auto, voice, equiv) \in NB .. FB
<1>. DEFINE threshold(bw) == MusicThreshold[bw - 1]
                               + ((voice * voice * VoiceExtra[bw - 1]) \div 16384)
            leaning(bw) == CASE first -> 0
                             [] ~first /\ auto >= bw -> -Hysteresis[bw - 1]
                             [] OTHER -> Hysteresis[bw - 1]
            S == {NB} \cup {bw \in MB .. FB : equiv >= threshold(bw) + leaning(bw)}
<1>1. AffordedBandwidth(first, auto, voice, equiv) = IF Max(S) = MB THEN WB ELSE Max(S)
  BY DEF AffordedBandwidth
<1>2. S \subseteq 1 .. 5 /\ S # {}
  <2>. HIDE DEF threshold, leaning
  <2>. QED
    BY DEF NB, MB, FB
<1>. HIDE DEF S
<1>3. Max(S) \in 1 .. 5
  BY <1>2, MaxIsIn
<1>. QED
  BY <1>1, <1>3 DEF NB, MB, WB, FB

LEMMA FecFits ==
  ASSUME NEW s \in Settings, NEW last, NEW mode, NEW bw \in NB .. FB, NEW equiv
  PROVE  DecideFec(s, last, mode, bw, equiv).bandwidth \in NB .. bw
<1>. DEFINE threshold(b) == FecThreshold[b] + (IF last THEN -1000 ELSE 1000)
            affords(b) == equiv > (threshold(b) * (125 - Least(s.loss, 25)) * 655) \div 65536
            tried == IF s.loss <= 5 THEN {bw} ELSE NB .. bw
            good  == {b \in tried : affords(b)}
            fec   == DecideFec(s, last, mode, bw, equiv)
<1>1. fec = IF ~s.fec \/ s.loss = 0 \/ mode = "celt" \/ good = {}
            THEN [fec |-> FALSE, bandwidth |-> bw]
            ELSE [fec |-> TRUE, bandwidth |-> Max(good)]
  BY DEF DecideFec
<1>2. good \subseteq NB .. bw
  <2>1. good \subseteq tried
    OBVIOUS
  <2>2. tried \subseteq NB .. bw
    BY DEF NB, FB
  <2>. QED
    BY <2>1, <2>2
<1>. HIDE DEF good, fec
<1>3. good # {} => Max(good) \in NB .. bw
  <2>1. good \subseteq 1 .. 5
    BY <1>2 DEF NB, FB
  <2>. QED
    BY <1>2, <2>1, MaxIsIn
<1>4. bw \in NB .. bw
  BY DEF NB, FB
<1>. QED
  BY <1>1, <1>3, <1>4 DEF fec

LEMMA CarriedFits ==
  ASSUME NEW rate \in Rates
  PROVE  /\ Carried(rate) \in NB .. FB
         /\ rate = 8000 => Carried(rate) = NB
         /\ rate = 12000 => Carried(rate) = MB
BY DEF Carried, Rates, NB, MB, WB, SWB, FB

LEMMA ChosenFits ==
  ASSUME NEW st, st.rate \in Rates, NEW s \in Settings, NEW mode, NEW auto \in NB .. FB,
         NEW detected \in {Unset} \cup NB .. FB, NEW equiv
  PROVE  /\ ChosenBandwidth(st, s, mode, auto, detected, equiv) \in NB .. FB
         /\ ChosenBandwidth(st, s, mode, auto, detected, equiv) <= Carried(st.rate)
<1>. DEFINE speech  == mode # "celt"
            floor   == IF speech /\ st.rate > 16000 THEN WB ELSE NB
            fed     == IF speech /\ s.cbr /\ s.bitrate < 15000 THEN Least(auto, WB) ELSE auto
            input   == Least(Most(fed, floor), Carried(st.rate))
            widened == IF input = MB /\ st.rate > 12000 THEN WB ELSE input
            heard   == IF detected # Unset /\ s.force = Unset /\ speech
                       THEN Least(widened, Most(detected, LeastDetected(st, equiv)))
                       ELSE widened
            allowed == Least(heard, Most(s.max, floor))
            capped  == CappedBandwidth(st, s, mode, auto, detected, equiv)
<1>1. Carried(st.rate) \in NB .. FB
  BY CarriedFits
<1>2. capped = IF ~speech /\ allowed = MB THEN NB ELSE allowed
  BY DEF CappedBandwidth
<1>3. floor \in NB .. FB /\ fed \in NB .. FB
  BY DEF NB, WB, FB, Least
<1>. HIDE DEF floor, fed, capped
<1>4. input \in NB .. FB
  BY <1>1, <1>3 DEF NB, FB, Least, Most
<1>. HIDE DEF input
<1>5. widened \in NB .. FB
  BY <1>4 DEF NB, WB, FB
<1>. HIDE DEF widened
<1>6. heard \in NB .. FB
  BY <1>5 DEF NB, WB, SWB, FB, Least, Most, LeastDetected, Unset
<1>. HIDE DEF heard
<1>7. allowed \in NB .. FB
  BY <1>3, <1>6 DEF NB, FB, Least, Most, Settings
<1>. HIDE DEF allowed
<1>8. capped \in NB .. FB
  BY <1>2, <1>7 DEF NB, FB
<1>9. s.force # Unset => s.force \in NB .. FB
  BY DEF Settings
<1>. QED
  BY <1>1, <1>8, <1>9 DEF ChosenBandwidth, capped, Least, NB, FB

(* A mode and a bandwidth that go together at a rate.                      *)
Together(mode, bw, rate) ==
  \/ mode = "silk" /\ bw \in NB .. WB /\ bw <= Carried(rate)
  \/ mode = "hybrid" /\ bw \in {SWB, FB}
  \/ mode = "celt" /\ bw \in {NB, WB, SWB, FB}

LEMMA PlanFits ==
  ASSUME NEW st, st.rate \in Rates, NEW s \in Settings, NEW e, NEW duration \in Durations,
         NEW detected \in {Unset} \cup NB .. FB, NEW voiceRatio
  PROVE  LET p == Plan(st, s, e, duration, detected, voiceRatio)
         IN /\ Together(p.mode, p.bandwidth, st.rate)
            /\ p.mode # "celt" => duration \notin {5, 10}
<1>. DEFINE equiv == EquivRate(st, s, RateOf(duration))
            voice == VoiceEst(st, s, voiceRatio)
            first == FirstMode(st, e.prev, voice, equiv)
            auto  == AffordedBandwidth(e.first, e.auto, voice, equiv)
            bw    == ChosenBandwidth(st, s, first, auto, detected, equiv)
            fec   == DecideFec(s, e.lbrr, first, bw, equiv)
            layer == LayerFor(first, fec.bandwidth)
            falls == FallsBack(st, s, layer)
            mode  == CoercedMode(IF falls THEN "celt" ELSE layer, RateOf(duration))
            wide  == IF falls THEN FB ELSE fec.bandwidth
            p     == Plan(st, s, e, duration, detected, voiceRatio)
<1>1. p = [mode |-> mode, auto |-> auto, lbrr |-> fec.fec,
           bandwidth |-> IF mode = "celt" /\ wide = MB THEN WB ELSE wide]
  BY DEF Plan
<1>2. first \in {"celt", "silk"}
  BY DEF FirstMode
<1>3. auto \in NB .. FB
  BY AffordedFits
<1>. HIDE DEF equiv, voice, first, auto
<1>4. bw \in NB .. FB /\ bw <= Carried(st.rate)
  BY <1>3, ChosenFits
<1>. HIDE DEF bw
<1>5. fec.bandwidth \in NB .. bw
  BY <1>4, FecFits
<1>. HIDE DEF fec
<1>6. Carried(st.rate) \in NB .. FB
  BY CarriedFits
<1>7. fec.bandwidth \in NB .. FB /\ fec.bandwidth <= Carried(st.rate)
  BY <1>4, <1>5, <1>6 DEF NB, FB
<1>8. /\ layer \in Modes
      /\ layer = "silk" => fec.bandwidth <= WB
      /\ layer = "hybrid" => fec.bandwidth >= SWB
  BY <1>2, <1>7 DEF LayerFor, Modes, NB, WB, SWB, FB
<1>9. falls \in BOOLEAN
  BY DEF FallsBack
<1>. HIDE DEF layer, falls
<1>10. /\ mode \in Modes
       /\ mode # "celt" => ~falls /\ mode = layer /\ duration \notin {5, 10}
  BY <1>8, <1>9 DEF CoercedMode, Modes, RateOf
<1>. HIDE DEF mode
<1>11. wide \in NB .. FB /\ (mode # "celt" => wide = fec.bandwidth)
  BY <1>7, <1>9, <1>10 DEF NB, FB
<1>. HIDE DEF wide
<1>12. p.mode = mode /\ p.bandwidth = IF mode = "celt" /\ wide = MB THEN WB ELSE wide
  BY <1>1
<1>. HIDE DEF p
<1>13. ASSUME mode = "celt" PROVE Together(mode, p.bandwidth, st.rate)
  BY <1>11, <1>12, <1>13 DEF Together, NB, MB, WB, SWB, FB
<1>14. ASSUME mode = "silk" PROVE Together(mode, p.bandwidth, st.rate)
  BY <1>7, <1>8, <1>10, <1>11, <1>12, <1>14 DEF Together, NB, WB, FB
<1>15. ASSUME mode = "hybrid" PROVE Together(mode, p.bandwidth, st.rate)
  BY <1>7, <1>8, <1>10, <1>11, <1>12, <1>15 DEF Together, NB, MB, WB, SWB, FB
<1>16. Together(p.mode, p.bandwidth, st.rate)
  BY <1>10, <1>12, <1>13, <1>14, <1>15 DEF Modes
<1>17. p.mode # "celt" => duration \notin {5, 10}
  BY <1>10, <1>12
<1>. QED
  BY <1>16, <1>17 DEF p

(***************************************************************************)
(* What the table of contents says of it.                                  *)
(***************************************************************************)
LEMMA PeriodFact ==
  /\ Period(400) = 0 /\ Period(200) = 1 /\ Period(100) = 2
  /\ Period(50) = 3 /\ Period(25) = 4 /\ Period(16) = 5
<1>. DEFINE S(rate) == {k \in 0 .. 5 : rate * Doublings[k + 1] >= 400}
<1>0. /\ Doublings[1] = 1 /\ Doublings[2] = 2 /\ Doublings[3] = 4
      /\ Doublings[4] = 8 /\ Doublings[5] = 16 /\ Doublings[6] = 32
  BY DEF Doublings
<1>1. \A rate : Period(rate) = Min(S(rate))
  BY DEF Period
<1>2. ASSUME NEW rate \in {400, 200, 100, 50, 25, 16}, NEW p \in 0 .. 5,
             rate * Doublings[p + 1] >= 400,
             \A k \in 0 .. 5 : k < p => rate * Doublings[k + 1] < 400
      PROVE  Period(rate) = p
  <2>1. S(rate) \subseteq Int /\ p \in S(rate)
    BY <1>2
  <2>2. \A y \in S(rate) : p <= y
    <3>. SUFFICES ASSUME NEW y \in S(rate), y < p PROVE FALSE
      OBVIOUS
    <3>1. y \in 0 .. 5 /\ rate * Doublings[y + 1] \in Int /\ rate * Doublings[y + 1] >= 400
      <4>1. y \in {0, 1, 2, 3, 4, 5}
        OBVIOUS
      <4>2. Doublings[y + 1] \in Int
        BY <1>0, <4>1
      <4>. QED
        BY <4>2
    <3>. QED
      BY <1>2, <3>1
  <2>. HIDE DEF S
  <2>3. Min(S(rate)) = p
    BY <2>1, <2>2, MinIs
  <2>. QED
    BY <1>1, <2>3
<1>. HIDE DEF S
<1>3. \A k \in 0 .. 5 : k \in {0, 1, 2, 3, 4, 5}
  OBVIOUS
<1>4. Period(400) = 0
  BY <1>0, <1>2
<1>5. Period(200) = 1
  BY <1>0, <1>2
<1>6. Period(100) = 2
  BY <1>0, <1>2, <1>3
<1>7. Period(50) = 3
  BY <1>0, <1>2, <1>3
<1>8. Period(25) = 4
  BY <1>0, <1>2, <1>3
<1>9. Period(16) = 5
  BY <1>0, <1>2, <1>3
<1>. QED
  BY <1>4, <1>5, <1>6, <1>7, <1>8, <1>9

(* A frame of a mode, and how often its period doubles.                    *)
FrameFits(mode, frame) ==
  /\ mode = "silk" => frame \in {20, 40, 80, 120}
  /\ mode = "hybrid" => frame \in {20, 40}
  /\ mode = "celt" => frame \in {5, 10, 20, 40}

LEMMA RateFact ==
  /\ RateOf(5) = 400 /\ RateOf(10) = 200 /\ RateOf(20) = 100
  /\ RateOf(40) = 50 /\ RateOf(80) = 25 /\ RateOf(120) = 16
BY DEF RateOf

LEMMA FrameIsCodable ==
  ASSUME NEW mode \in Modes, NEW frame, FrameFits(mode, frame)
  PROVE  Codable(mode, frame)
<1>1. CASE mode = "silk"
  <2>1. RateOf(frame) \in {100, 50, 25, 16}
    BY <1>1, RateFact DEF FrameFits
  <2>. QED
    BY <1>1, <2>1 DEF Codable
<1>2. CASE mode = "hybrid"
  <2>1. RateOf(frame) \in {100, 50} /\ frame \in {5, 10, 20, 40}
    BY <1>2, RateFact DEF FrameFits
  <2>. QED
    BY <1>2, <2>1 DEF Codable
<1>3. CASE mode = "celt"
  <2>1. RateOf(frame) \in {400, 200, 100, 50} /\ frame \in {5, 10, 20, 40}
    BY <1>3, RateFact DEF FrameFits
  <2>. QED
    BY <1>3, <2>1 DEF Codable
<1>. QED
  BY <1>1, <1>2, <1>3 DEF Modes

Said(st, mode, frame, bw) ==
  LET toc == GenToc(mode, RateOf(frame), bw) IN
  /\ ModeFromToc(toc) = mode
  /\ DurationFromToc(toc) = frame
  /\ mode # "silk" => EndBandFromToc(toc) = EndBand(bw)
  /\ mode # "celt" => SilkKhzFromToc(toc) = SilkKhz(st, mode, bw)

LEMMA SilkSaid ==
  ASSUME NEW st, st.rate \in Rates, NEW frame \in {20, 40, 80, 120},
         NEW bw \in NB .. WB, bw <= Carried(st.rate)
  PROVE  Said(st, "silk", frame, bw)
<1>. DEFINE toc == GenToc("silk", RateOf(frame), bw)
            p   == Period(RateOf(frame)) - 2
<1>1. p \in 0 .. 3 /\ <<20, 40, 80, 120>>[p + 1] = frame
  BY RateFact, PeriodFact
<1>2. toc = 4 * (bw - NB) + p
  BY DEF GenToc
<1>. HIDE DEF p, toc
<1>3. toc \in 0 .. 11 /\ toc % 4 = p /\ toc \div 4 = bw - NB
  BY <1>1, <1>2 DEF NB, WB
<1>4. ModeFromToc(toc) = "silk"
  BY <1>3 DEF ModeFromToc
<1>5. DurationFromToc(toc) = frame
  BY <1>1, <1>3, <1>4 DEF DurationFromToc
<1>6. BandwidthFromToc(toc) = bw
  BY <1>3, <1>4 DEF BandwidthFromToc, Least, NB, WB
<1>7. SilkKhz(st, "silk", bw) = IF bw = NB THEN 8 ELSE IF bw = MB THEN 12 ELSE 16
  BY CarriedFits DEF SilkKhz, Least, Rates, NB, MB, WB
<1>8. SilkKhzFromToc(toc) = IF bw = NB THEN 8 ELSE IF bw = MB THEN 12 ELSE 16
  BY <1>4, <1>6 DEF SilkKhzFromToc, NB, MB, WB
<1>. QED
  BY <1>4, <1>5, <1>7, <1>8 DEF Said, toc

LEMMA HybridSaid ==
  ASSUME NEW st, NEW frame \in {20, 40}, NEW bw \in {SWB, FB}
  PROVE  Said(st, "hybrid", frame, bw)
<1>. DEFINE toc == GenToc("hybrid", RateOf(frame), bw)
<1>1. toc = (IF bw = SWB THEN 12 ELSE 14) + (IF frame = 20 THEN 0 ELSE 1)
  BY RateFact DEF GenToc
<1>. HIDE DEF toc
<1>2. ModeFromToc(toc) = "hybrid"
  BY <1>1 DEF ModeFromToc
<1>3. DurationFromToc(toc) = frame
  BY <1>1, <1>2 DEF DurationFromToc
<1>4. BandwidthFromToc(toc) = bw
  BY <1>1, <1>2 DEF BandwidthFromToc, SWB, FB
<1>5. EndBandFromToc(toc) = EndBand(bw)
  BY <1>2, <1>4 DEF EndBandFromToc, EndBand, NB, MB, WB, SWB, FB
<1>6. SilkKhzFromToc(toc) = SilkKhz(st, "hybrid", bw)
  BY <1>2 DEF SilkKhzFromToc, SilkKhz
<1>. QED
  BY <1>2, <1>3, <1>5, <1>6 DEF Said, toc

LEMMA CeltSaid ==
  ASSUME NEW st, NEW frame \in {5, 10, 20, 40}, NEW bw \in {NB, WB, SWB, FB}
  PROVE  Said(st, "celt", frame, bw)
<1>. DEFINE toc == GenToc("celt", RateOf(frame), bw)
            p   == Period(RateOf(frame))
            b   == Most(bw - MB, 0)
<1>1. p \in 0 .. 3 /\ <<5, 10, 20, 40>>[p + 1] = frame
  BY RateFact, PeriodFact
<1>2. toc = 16 + 4 * b + p
  BY DEF GenToc
<1>3. b \in 0 .. 3 /\ EndBand(bw) = 21 - 2 * <<4, 2, 1, 0>>[b + 1]
  BY DEF EndBand, Most, NB, MB, WB, SWB, FB
<1>. HIDE DEF p, b, toc
<1>4. toc \in 16 .. 31 /\ toc % 4 = p /\ (toc - 16) \div 4 = b
  BY <1>1, <1>2, <1>3
<1>5. ModeFromToc(toc) = "celt"
  BY <1>4 DEF ModeFromToc
<1>6. DurationFromToc(toc) = frame
  BY <1>1, <1>4, <1>5 DEF DurationFromToc
<1>7. EndBandFromToc(toc) = EndBand(bw)
  BY <1>3, <1>4, <1>5 DEF EndBandFromToc
<1>. QED
  BY <1>5, <1>6, <1>7 DEF Said, toc

LEMMA TogetherIsSaid ==
  ASSUME NEW st, st.rate \in Rates, NEW mode, NEW frame, NEW bw,
         Together(mode, bw, st.rate), FrameFits(mode, frame)
  PROVE  mode \in Modes /\ Codable(mode, frame) /\ Said(st, mode, frame, bw)
<1>1. mode \in Modes
  BY DEF Together, Modes
<1>2. CASE mode = "silk"
  BY <1>1, <1>2, SilkSaid, FrameIsCodable DEF Together, FrameFits
<1>3. CASE mode = "hybrid"
  BY <1>1, <1>3, HybridSaid, FrameIsCodable DEF Together, FrameFits
<1>4. CASE mode = "celt"
  BY <1>1, <1>4, CeltSaid, FrameIsCodable DEF Together, FrameFits
<1>. QED
  BY <1>1, <1>2, <1>3, <1>4 DEF Modes

(* A packet divides into frames of its mode.                               *)
LEMMA LayoutFits ==
  ASSUME NEW mode \in Modes, NEW duration \in Durations,
         mode # "celt" => duration \notin {5, 10}
  PROVE  LET frame == FrameDuration(duration, mode)
             count == duration \div frame
         IN /\ FrameFits(mode, frame) /\ frame \in {5, 10, 20, 40, 80, 120}
            /\ count \in 1 .. 6 /\ (count = 1 => frame = duration)
<1>. DEFINE frame == FrameDuration(duration, mode)
<1>1. frame = IF duration <= 40 THEN duration
              ELSE IF mode = "silk" /\ duration \in {80, 160} THEN 80
              ELSE IF mode = "silk" /\ duration \in {120, 240} THEN 120 ELSE 40
  BY DEF FrameDuration, Durations
<1>. HIDE DEF frame
<1>2. FrameFits(mode, frame) /\ frame \in {5, 10, 20, 40, 80, 120}
  BY <1>1 DEF FrameFits, Durations, Modes
<1>3. duration \div frame \in 1 .. 6 /\ (duration \div frame = 1 => frame = duration)
  BY <1>1 DEF Durations
<1>. QED
  BY <1>2, <1>3 DEF frame

(***************************************************************************)
(* The packet in the making.  A frame's fair share is the packet's, in     *)
(* equal parts; none of those coded took more, so that what is left is     *)
(* enough for the others.                                                  *)
(***************************************************************************)
IsEnc ==
  DOMAIN enc = {"prev", "first", "auto", "bandwidth", "lbrr", "quiet", "voice"}

IsJob(j) ==
  /\ DOMAIN j = {"phase", "settings", "buffer", "mode", "frame", "count", "left", "limit",
                 "silence", "analysed", "total", "spent", "sizes", "dropped", "cut"}
  /\ j.settings \in Settings /\ j.settings.bitrate \in Nat \ {0}
  /\ j.frame \in {5, 10, 20, 40, 80, 120}
  /\ j.count \in 1 .. 6 /\ j.left \in 0 .. j.count
  /\ j.buffer \in Nat /\ j.buffer >= 2 /\ j.limit \in Nat /\ j.limit <= j.buffer
  /\ j.total = j.count + j.limit - MaxHeaderBytes(j.count)
  /\ j.dropped \in 0 .. j.count - j.left /\ j.spent \in Nat /\ j.cut \in BOOLEAN
  /\ j.sizes \in Seq(Int) /\ Len(j.sizes) = j.count - j.left

Fair(j) == j.total \div j.count

Single(j) ==
  j.count = 1 => /\ j.left = 1 /\ j.dropped = 0 /\ ~j.cut
                 /\ j.limit = PacketLimit(j.settings, j.frame, j.buffer)

Budget(j) ==
  j.count > 1 =>
    /\ ~j.cut
    /\ j.left < j.count => j.total >= 3 * j.count
    /\ PlusAll(j.sizes) + Len(j.sizes) <= j.spent
    /\ j.spent <= Len(j.sizes) * Fair(j)
    /\ \A i \in 1 .. Len(j.sizes) : j.sizes[i] \in 0 .. Fair(j) - 1

PacketFits ==
  packet.kind = "packet" =>
    /\ packet.length <= packet.buffer
    /\ packet.promised > 0 => packet.length = packet.promised
    /\ packet.cut => packet.buffer = 2 /\ ~packet.cbr

DecidedTogether ==
  Together(job.mode, enc.bandwidth, stream.rate) /\ FrameFits(job.mode, job.frame)

EncoderInv ==
  /\ stream \in Streams /\ IsEnc
  /\ job # Idle => IsJob(job) /\ Single(job) /\ Budget(job) /\ DecidedTogether
  /\ PacketFits

LEMMA NormalisedFact ==
  ASSUME stream \in Streams, NEW s \in Settings, s.bitrate > 0
  PROVE  Normalised(s) \in Settings /\ Normalised(s).bitrate \in Nat \ {0}
<1>. DEFINE b == Least(Most(s.bitrate, 500), 300000 * stream.channels)
<1>1. stream.channels \in {1, 2}
  BY EncoderAssumption
<1>2. s.bitrate \in Int
  BY DEF Settings
<1>3. b \in Nat \ {0}
  BY <1>1, <1>2 DEF Least, Most
<1>. DEFINE c == Least(Most(s.complexity, 0), 10)
            l == Least(Most(s.loss, 0), 100)
<1>4. Normalised(s) = [s EXCEPT !.bitrate = b, !.complexity = c, !.loss = l]
  BY DEF Normalised
<1>5. c \in Int /\ l \in Int
  BY DEF Settings, Least, Most
<1>. HIDE DEF b, c, l
<1>6. Normalised(s).bitrate = b
  BY <1>4 DEF Settings
<1>7. [s EXCEPT !.bitrate = b] \in Settings
  BY <1>3 DEF Settings
<1>8. [[s EXCEPT !.bitrate = b] EXCEPT !.complexity = c] \in Settings
  BY <1>5, <1>7 DEF Settings
<1>9. [[[s EXCEPT !.bitrate = b] EXCEPT !.complexity = c] EXCEPT !.loss = l] \in Settings
  BY <1>5, <1>8 DEF Settings
<1>10. Normalised(s) = [[[s EXCEPT !.bitrate = b] EXCEPT !.complexity = c] EXCEPT !.loss = l]
  BY <1>4
<1>. QED
  BY <1>3, <1>6, <1>9, <1>10

LEMMA TargetFact ==
  ASSUME NEW s, s.bitrate \in Nat \ {0}, NEW d \in Nat
  PROVE  TargetBytes(s, d) \in Nat /\ (s.bitrate * d) \div 16000 \in Nat
<1>. DEFINE x == s.bitrate * d
<1>1. x \in Nat
  BY ProductFact
<1>2. TargetBytes(s, d) = ((x \div 2000) + 4) \div 8
  BY DEF TargetBytes
<1>. HIDE DEF x
<1>3. x \div 2000 \in Nat /\ x \div 16000 \in Nat
  BY <1>1
<1>4. ((x \div 2000) + 4) \div 8 \in Nat
  BY <1>3
<1>. QED
  BY <1>2, <1>3, <1>4 DEF x

LEMMA EncodeKeeps ==
  ASSUME EncoderInv, NEW call \in Calls[stream], NEW audio \in Audio[stream],
         Encode(call, audio)
  PROVE  EncoderInv'
<1>. DEFINE s      == Normalised(call.settings)
            voice  == VoiceRatio(s, audio)
            heard  == IF Analysed(s, audio) THEN audio.bandwidth ELSE Unset
            plan   == Plan(stream, s, enc, call.duration, heard, voice)
            frame  == FrameDuration(call.duration, plan.mode)
            count  == call.duration \div frame
            limit  == PacketLimit(s, call.duration, call.buffer)
<1>1. /\ call.settings \in Settings /\ call.settings.bitrate > 0
      /\ call.buffer \in Nat /\ call.buffer >= 2 /\ call.duration \in Durations
      /\ stream \in Streams /\ stream.rate \in Rates /\ IsEnc
  BY EncoderAssumption DEF Encode, EncoderInv
<1>2. s \in Settings /\ s.bitrate \in Nat \ {0}
  BY <1>1, NormalisedFact
<1>3. /\ enc' = Decided(plan, voice) /\ job' = NewJob(s, call, plan, audio)
      /\ stream' = stream /\ packet' = NoPacket
  BY DEF Encode
<1>4. heard \in {Unset} \cup NB .. FB
  BY <1>1, EncoderAssumption DEF EncoderInv
<1>. HIDE DEF s, voice, heard
<1>5. /\ Together(plan.mode, plan.bandwidth, stream.rate)
      /\ plan.mode # "celt" => call.duration \notin {5, 10}
  BY <1>1, <1>2, <1>4, PlanFits
<1>. HIDE DEF plan
<1>6. plan.mode \in Modes
  BY <1>5 DEF Together, Modes
<1>7. /\ FrameFits(plan.mode, frame) /\ frame \in {5, 10, 20, 40, 80, 120}
      /\ count \in 1 .. 6 /\ (count = 1 => frame = call.duration)
  BY <1>1, <1>5, <1>6, LayoutFits
<1>. HIDE DEF frame
<1>8. limit \in Nat /\ limit <= call.buffer
  <2>1. call.duration \in Nat
    BY <1>1 DEF Durations
  <2>2. TargetBytes(s, call.duration) \in Nat
    BY <1>2, <2>1, TargetFact
  <2>. QED
    BY <1>1, <2>2 DEF PacketLimit, Least
<1>9. job' = [phase |-> "frames", settings |-> s, buffer |-> call.buffer, mode |-> plan.mode,
              frame |-> frame, count |-> count, left |-> count, limit |-> limit,
              silence |-> audio.silence, analysed |-> Analysed(s, audio),
              total |-> count + limit - MaxHeaderBytes(count),
              spent |-> 0, sizes |-> <<>>, dropped |-> 0, cut |-> FALSE]
  BY <1>3 DEF NewJob, frame
<1>10. count = 1 => limit = PacketLimit(s, frame, call.buffer)
  BY <1>7
<1>. HIDE DEF count, limit
<1>11. IsJob(job')
  BY <1>1, <1>2, <1>7, <1>8, <1>9 DEF IsJob
<1>12. Single(job')
  BY <1>9, <1>10 DEF Single
<1>13. Budget(job')
  <2>1. /\ job'.sizes = <<>> /\ job'.spent = 0 /\ job'.cut = FALSE
        /\ job'.left = job'.count /\ job'.count \in 1 .. 6 /\ job'.total \in Int
    BY <1>7, <1>8, <1>9 DEF MaxHeaderBytes
  <2>2. Len(job'.sizes) = 0 /\ PlusAll(job'.sizes) = 0
    BY <2>1, SumEmpty
  <2>3. Fair(job') \in Int
    BY <2>1 DEF Fair
  <2>. QED
    BY <2>1, <2>2, <2>3 DEF Budget
<1>14. enc'.bandwidth = plan.bandwidth /\ IsEnc'
  BY <1>1, <1>3 DEF Decided, IsEnc
<1>15. DecidedTogether'
  BY <1>3, <1>5, <1>7, <1>9, <1>14 DEF DecidedTogether
<1>16. PacketFits'
  BY <1>3 DEF PacketFits, NoPacket
<1>. QED
  BY <1>1, <1>3, <1>11, <1>12, <1>13, <1>14, <1>15, <1>16 DEF EncoderInv

(* At least three bytes for each frame of several, and no more than its    *)
(* fair share, of what no frame before has taken.                          *)
LEMMA FairFact ==
  ASSUME NEW count \in 2 .. 6, NEW total \in Int, total >= 3 * count
  PROVE  /\ total \div count \in Nat /\ total \div count >= 3
         /\ count * (total \div count) <= total
<1>1. CASE count = 2
  BY <1>1
<1>2. CASE count = 3
  BY <1>2
<1>3. CASE count = 4
  BY <1>3
<1>4. CASE count = 5
  BY <1>4
<1>5. CASE count = 6
  BY <1>5
<1>. QED
  BY <1>1, <1>2, <1>3, <1>4, <1>5

LEMMA LeftFact ==
  ASSUME NEW done \in 0 .. 5, NEW count \in 2 .. 6, done < count, NEW fair \in Nat
  PROVE  done * fair + fair <= count * fair
<1>1. CASE done = 0
  BY <1>1
<1>2. CASE done = 1
  BY <1>2
<1>3. CASE done = 2
  BY <1>3
<1>4. CASE done = 3
  BY <1>4
<1>5. CASE done = 4
  BY <1>5
<1>6. CASE done = 5
  BY <1>6
<1>. QED
  BY <1>1, <1>2, <1>3, <1>4, <1>5, <1>6

LEMMA RoomFact ==
  ASSUME NEW j, IsJob(j), Budget(j), j.count > 1, j.left > 0, j.total >= 3 * j.count
  PROVE  /\ Fair(j) \in Nat /\ j.count * Fair(j) <= j.total
         /\ FrameRoom(j) \in 3 .. Fair(j)
<1>. DEFINE fair  == Fair(j)
            asked == (j.settings.bitrate * j.frame) \div 16000
<1>0. MaxHeaderBytes(j.count) \in Int
  BY DEF IsJob, MaxHeaderBytes
<1>1. /\ j.count \in 2 .. 6 /\ j.left \in 1 .. j.count /\ j.total \in Int /\ j.spent \in Nat
      /\ j.frame \in Nat /\ Len(j.sizes) = j.count - j.left
  <2>1. j.count \in 1 .. 6 /\ j.left \in 0 .. j.count
    BY DEF IsJob
  <2>2. j.limit \in Nat /\ j.total = j.count + j.limit - MaxHeaderBytes(j.count)
    BY DEF IsJob
  <2>3. j.spent \in Nat /\ j.frame \in Nat /\ Len(j.sizes) = j.count - j.left
    BY DEF IsJob
  <2>. QED
    BY <1>0, <2>1, <2>2, <2>3
<1>2. fair \in Nat /\ fair >= 3 /\ j.count * fair <= j.total
  BY <1>1, FairFact DEF Fair
<1>3. j.spent <= (j.count - j.left) * fair
  BY <1>1 DEF Budget
<1>4. asked \in Nat
  <2>1. j.settings.bitrate \in Nat \ {0}
    BY DEF IsJob
  <2>2. j.settings.bitrate * j.frame \in Nat
    BY <1>1, <2>1, ProductFact
  <2>. QED
    BY <2>2
<1>5. Share(j.settings, j.frame, j.total, j.count) = Most(3, Least(asked, fair))
  BY DEF Share, Fair
<1>. HIDE DEF fair, asked
<1>6. (j.count - j.left) * fair + fair <= j.count * fair
  <2>. DEFINE done == j.count - j.left
  <2>1. done \in 0 .. 5 /\ done < j.count
    <3>1. j.count \in 2 .. 6 /\ j.left \in 1 .. j.count
      BY <1>1
    <3>2. done \in Int /\ 0 <= done /\ done <= 5 /\ done < j.count
      BY <3>1
    <3>. QED
      BY <3>2
  <2>. HIDE DEF done
  <2>2. done * fair + fair <= j.count * fair
    BY <1>1, <1>2, <2>1, LeftFact
  <2>. QED
    BY <2>2 DEF done
<1>7. (j.count - j.left) * fair \in Nat /\ j.count * fair \in Nat
  BY <1>1, <1>2, ProductFact
<1>8. j.total - j.spent >= fair
  BY <1>1, <1>2, <1>3, <1>6, <1>7
<1>9. Most(3, Least(asked, fair)) \in 3 .. fair
  BY <1>2, <1>4 DEF Most, Least
<1>10. FrameRoom(j) \in 3 .. fair
  BY <1>1, <1>2, <1>5, <1>8, <1>9 DEF FrameRoom, Least
<1>. QED
  BY <1>2, <1>10 DEF fair

(* A frame takes no more than its room, and is not cut short in it unless  *)
(* there were two bytes for a packet at a variable rate.                   *)
LEMMA FrameFact ==
  ASSUME EncoderInv, Ready, NEW payload \in ToCode
  PROVE  LET cbr  == job.settings.cbr
             made == OneFramePacket(payload, IF cbr THEN Limit ELSE payload + 1, Room)
         IN /\ Room \in Nat /\ made.length \in 1 .. Room
            /\ made.payload \in 0 .. made.length - 1
            /\ made.payload # payload => job.count = 1 /\ job.buffer = 2 /\ ~cbr
            /\ job.count = 1 /\ cbr => made.length = Most(1, job.limit)
<1>. DEFINE cbr    == job.settings.cbr
            target == TargetBytes(job.settings, job.frame)
            made   == OneFramePacket(payload, IF cbr THEN Limit ELSE payload + 1, Room)
<1>1. /\ IsJob(job) /\ Single(job) /\ Budget(job) /\ job.count \in 1 .. 6
      /\ job.buffer \in Nat /\ job.buffer >= 2 /\ cbr \in BOOLEAN /\ job.frame \in Nat
      /\ job.settings.bitrate \in Nat \ {0}
  BY DEF EncoderInv, Ready, IsJob, Settings
<1>2. /\ Room \in Nat /\ Room >= 2
      /\ job.count = 1 => Room = job.buffer
      /\ job.count # 1 => Room >= 3
  <2>1. CASE job.count = 1
    BY <1>1, <2>1 DEF Room
  <2>2. CASE job.count # 1
    <3>1. FrameRoom(job) \in 3 .. Fair(job) /\ Fair(job) \in Nat
      BY <1>1, <2>2, RoomFact DEF Ready
    <3>. QED
      BY <2>2, <3>1 DEF Room
  <2>. QED
    BY <2>1, <2>2
<1>3. target \in Nat
  BY <1>1, TargetFact
<1>. HIDE DEF target
<1>4. /\ Limit \in Nat /\ Limit >= 1
      /\ cbr => Limit = Most(1, Least(target, Room)) /\ Limit <= Room
      /\ ~cbr => Limit = Most(Room, 3)
  BY <1>1, <1>2, <1>3 DEF Limit, FrameLimit, Most, Least, target
<1>. HIDE DEF cbr
<1>5. payload \in Nat /\ payload <= Limit - 1
  <2>. DEFINE most == Least(Limit, MaxOneFramePacket) - 1
  <2>1. most \in Nat /\ most <= Limit - 1
    BY <1>4 DEF Least, MaxOneFramePacket
  <2>2. PayloadSizes[stream] \subseteq Nat
    BY EncoderAssumption DEF EncoderInv
  <2>3. payload \in Payloads(job.settings, job.mode, Limit)
    BY DEF ToCode
  <2>4. payload = most \/ \E size \in Nat : payload = Least(size, most)
    BY <2>2, <2>3 DEF Payloads
  <2>. HIDE DEF most
  <2>. QED
    BY <1>4, <2>1, <2>4 DEF Least
<1>6. /\ made.length = Least(IF cbr THEN Limit ELSE payload + 1, Room)
      /\ made.payload = Least(payload, made.length - 1)
  BY DEF OneFramePacket
<1>. HIDE DEF made
<1>7. cbr => made.length = Limit
  BY <1>2, <1>4, <1>6 DEF Least
<1>8. made.length \in 1 .. Room /\ made.payload \in 0 .. made.length - 1
  BY <1>2, <1>4, <1>5, <1>6 DEF Least
<1>9. made.payload # payload => job.count = 1 /\ job.buffer = 2 /\ ~cbr
  BY <1>1, <1>2, <1>4, <1>5, <1>6 DEF Least, Most
<1>10. job.count = 1 /\ cbr => made.length = Most(1, job.limit)
  <2>. SUFFICES ASSUME job.count = 1, cbr PROVE made.length = Most(1, job.limit)
    OBVIOUS
  <2>1. job.limit = Least(target, job.buffer)
    BY <1>1 DEF Single, PacketLimit, cbr, target
  <2>. QED
    BY <1>2, <1>4, <1>7, <2>1
<1>. QED
  BY <1>2, <1>8, <1>9, <1>10 DEF made, cbr


(* A frame that takes what it may leaves the packet within its budget.     *)
LEMMA FrameDoneKeeps ==
  ASSUME EncoderInv, Ready, NEW length, NEW size, NEW cut \in BOOLEAN,
         Room \in Nat, length \in 1 .. Room, size \in 0 .. length - 1,
         cut => job.count = 1 /\ job.buffer = 2 /\ ~job.settings.cbr,
         job.count = 1 /\ job.settings.cbr /\ length # 1 => length = job.limit,
         FrameDone(length, size, cut), stream' = stream,
         IsEnc', enc'.bandwidth = enc.bandwidth
  PROVE  EncoderInv'
<1>. DEFINE next == [job EXCEPT !.left = @ - 1, !.spent = @ + length,
                                !.sizes = Append(@, size),
                                !.dropped = IF length = 1 THEN @ + 1 ELSE @,
                                !.cut = @ \/ cut]
<1>1. /\ job # Idle /\ IsJob(job) /\ Single(job) /\ Budget(job) /\ DecidedTogether
      /\ PacketFits /\ stream \in Streams /\ job.left > 0
      /\ job.count = 1 \/ job.total >= 3 * job.count
  BY DEF EncoderInv, Ready
<1>2. /\ job.count \in 1 .. 6 /\ job.left \in 1 .. job.count /\ job.spent \in Nat
      /\ job.dropped \in 0 .. job.count - job.left /\ job.sizes \in Seq(Int)
      /\ Len(job.sizes) = job.count - job.left /\ job.cut \in BOOLEAN
  BY <1>1 DEF IsJob
<1>3. /\ next.settings = job.settings /\ next.buffer = job.buffer /\ next.mode = job.mode
      /\ next.frame = job.frame /\ next.count = job.count /\ next.limit = job.limit
      /\ next.total = job.total /\ DOMAIN next = DOMAIN job
      /\ next.left = job.left - 1 /\ next.spent = job.spent + length
      /\ next.sizes = Append(job.sizes, size)
      /\ next.dropped = IF length = 1 THEN job.dropped + 1 ELSE job.dropped
      /\ next.cut = (job.cut \/ cut)
  BY <1>1 DEF IsJob
<1>4. IF job.count > 1 THEN job' = next /\ UNCHANGED packet
      ELSE job' = Idle /\ packet' = Given(next, length)
  BY DEF FrameDone
<1>. HIDE DEF next
<1>5. CASE job.count > 1
  <2>1. /\ Fair(job) \in Nat /\ FrameRoom(job) \in 3 .. Fair(job)
        /\ Room = FrameRoom(job)
    BY <1>1, <1>5, RoomFact DEF Room
  <2>2. length \in 1 .. Fair(job) /\ size \in 0 .. Fair(job) - 1 /\ ~cut
    BY <1>5, <2>1
  <2>3. /\ next.sizes \in Seq(Int) /\ Len(next.sizes) = Len(job.sizes) + 1
        /\ PlusAll(job.sizes) \in Int /\ PlusAll(next.sizes) = PlusAll(job.sizes) + size
        /\ \A i \in 1 .. Len(job.sizes) : next.sizes[i] = job.sizes[i]
        /\ next.sizes[Len(job.sizes) + 1] = size
    <3>. DEFINE old == job.sizes
    <3>1. old \in Seq(Int) /\ size \in Int /\ next.sizes = Append(old, size)
      BY <1>2, <1>3, <2>1, <2>2
    <3>. HIDE DEF old
    <3>2. PlusAll(old) \in Int /\ PlusAll(Append(old, size)) = PlusAll(old) + size
      BY <3>1, SumAppend
    <3>3. /\ Append(old, size) \in Seq(Int) /\ Len(Append(old, size)) = Len(old) + 1
          /\ \A i \in 1 .. Len(old) : Append(old, size)[i] = old[i]
          /\ Append(old, size)[Len(old) + 1] = size
      BY <3>1
    <3>. QED
      BY <3>1, <3>2, <3>3 DEF old
  <2>4. IsJob(next)
    <3>1. /\ DOMAIN next = {"phase", "settings", "buffer", "mode", "frame", "count", "left",
                            "limit", "silence", "analysed", "total", "spent", "sizes",
                            "dropped", "cut"}
          /\ next.settings \in Settings /\ next.settings.bitrate \in Nat \ {0}
          /\ next.frame \in {5, 10, 20, 40, 80, 120}
          /\ next.buffer \in Nat /\ next.buffer >= 2 /\ next.limit \in Nat
          /\ next.limit <= next.buffer
          /\ next.total = next.count + next.limit - MaxHeaderBytes(next.count)
      BY <1>1, <1>3 DEF IsJob
    <3>2. /\ next.count \in 1 .. 6 /\ next.left \in 0 .. next.count
          /\ Len(next.sizes) = next.count - next.left /\ next.cut \in BOOLEAN
          /\ next.dropped \in 0 .. next.count - next.left
      <4>0. next.cut \in BOOLEAN
        BY <1>2, <1>3, Zenon
      <4>1. next.count \in 1 .. 6 /\ next.left \in 0 .. next.count
        BY <1>2, <1>3
      <4>2. Len(next.sizes) = next.count - next.left
        BY <1>2, <1>3, <2>3
      <4>3. next.dropped \in 0 .. next.count - next.left
        <5>1. next.dropped \in {job.dropped, job.dropped + 1}
          BY <1>3
        <5>2. job.dropped \in 0 .. job.count - job.left
          BY <1>2
        <5>3. next.count - next.left = (job.count - job.left) + 1
          BY <1>2, <1>3
        <5>. QED
          BY <1>2, <5>1, <5>2, <5>3
      <4>. QED
        BY <4>0, <4>1, <4>2, <4>3
    <3>3. next.spent \in Nat
      <4>1. length \in Nat
        BY <2>1, <2>2
      <4>. QED
        BY <1>2, <1>3, <4>1
    <3>. QED
      BY <2>3, <3>1, <3>2, <3>3 DEF IsJob
  <2>5. Single(next)
    BY <1>3, <1>5 DEF Single
  <2>6. Budget(next)
    <3>1. Fair(next) = Fair(job)
      BY <1>3 DEF Fair
    <3>2. ~next.cut /\ next.total >= 3 * next.count
      BY <1>1, <1>3, <1>5, <2>2 DEF Budget
    <3>3. PlusAll(next.sizes) + Len(next.sizes) <= next.spent
      <4>1. PlusAll(job.sizes) + Len(job.sizes) <= job.spent
        BY <1>1, <1>5 DEF Budget
      <4>. QED
        BY <1>2, <1>3, <2>1, <2>2, <2>3, <4>1
    <3>4. next.spent <= Len(next.sizes) * Fair(job)
      <4>1. job.spent <= Len(job.sizes) * Fair(job)
        BY <1>1, <1>5 DEF Budget
      <4>2. /\ Len(job.sizes) * Fair(job) \in Nat
            /\ (Len(job.sizes) + 1) * Fair(job) = Len(job.sizes) * Fair(job) + Fair(job)
        BY <1>2, <2>1, ProductFact
      <4>. QED
        BY <1>2, <1>3, <2>1, <2>2, <2>3, <4>1, <4>2
    <3>5. \A i \in 1 .. Len(next.sizes) : next.sizes[i] \in 0 .. Fair(job) - 1
      <4>1. \A i \in 1 .. Len(job.sizes) : job.sizes[i] \in 0 .. Fair(job) - 1
        BY <1>1, <1>5 DEF Budget
      <4>. DEFINE n == Len(job.sizes)
      <4>2. n \in Nat /\ Len(next.sizes) = n + 1
        BY <1>2, <2>3
      <4>3. \A i \in 1 .. n + 1 : i \in 1 .. n \/ i = n + 1
        BY <4>2
      <4>. QED
        BY <2>2, <2>3, <4>1, <4>2, <4>3
    <3>. QED
      BY <3>1, <3>2, <3>3, <3>4, <3>5 DEF Budget
  <2>7. job' = next /\ packet' = packet
    BY <1>4, <1>5
  <2>8. DecidedTogether' /\ PacketFits'
    BY <1>1, <1>3, <2>7 DEF DecidedTogether, PacketFits
  <2>. QED
    BY <1>1, <2>4, <2>5, <2>6, <2>7, <2>8 DEF EncoderInv
<1>6. CASE ~(job.count > 1)
  <2>1. job.count = 1 /\ Room = job.buffer
    BY <1>2, <1>6 DEF Room
  <2>2. job.dropped = 0 /\ ~job.cut
    BY <1>1, <2>1 DEF Single
  <2>3. job' = Idle /\ packet' = Given(next, length)
    BY <1>4, <1>6
  <2>4. /\ packet'.length = length /\ packet'.buffer = next.buffer
        /\ packet'.promised = IF next.settings.cbr /\ next.dropped < next.count
                              THEN next.limit ELSE 0
        /\ packet'.cbr = next.settings.cbr /\ packet'.cut = next.cut
    BY <2>3 DEF Given
  <2>5. length <= job.buffer
    BY <2>1
  <2>6. packet'.promised > 0 => length = job.limit
    BY <1>3, <2>1, <2>2, <2>4
  <2>7. packet'.cut => packet'.buffer = 2 /\ ~packet'.cbr
    BY <1>3, <2>2, <2>4
  <2>8. PacketFits'
    <3>1. packet'.promised > 0 => packet'.promised = job.limit
      BY <1>3, <2>4
    <3>. QED
      BY <1>3, <2>4, <2>5, <2>6, <2>7, <3>1 DEF PacketFits
  <2>. QED
    BY <1>1, <2>3, <2>8 DEF EncoderInv
<1>. QED
  BY <1>5, <1>6

(* The bytes that frame a packet are within what was set aside for them.   *)
LEMMA SumOfTwo ==
  ASSUME NEW s \in Seq(Int), Len(s) = 2
  PROVE  PlusAll(s) = s[1] + s[2]
<1>1. PICK f : SumsUpTo(f, 2, s) /\ PlusAll(s) = f[2]
  BY SumUnfolds
<1>2. 1 \in 1 .. 2 /\ 2 \in 1 .. 2 /\ 1 - 1 = 0 /\ 2 - 1 = 1
  OBVIOUS
<1>3. f[0] = 0 /\ s[1] \in Int /\ s[2] \in Int /\ f[1] = f[0] + s[1] /\ f[2] = f[1] + s[2]
  BY <1>1, <1>2 DEF SumsUpTo
<1>. QED
  BY <1>1, <1>3

LEMMA FramedFits ==
  ASSUME NEW j, IsJob(j), Budget(j), j.count > 1, j.left = 0
  PROVE  /\ Framed(j.sizes, PadTo(j)) \in Nat /\ PadTo(j) <= Framed(j.sizes, PadTo(j))
         /\ Framed(j.sizes, PadTo(j)) <= j.limit
<1>. DEFINE fair  == Fair(j)
            vbr   == \E i \in 1 .. Len(j.sizes) : j.sizes[i] # j.sizes[1]
            told  == [i \in 1 .. Len(j.sizes) - 1 |-> SizeBytes(j.sizes[i])]
            given == IF vbr THEN PlusAll(told) ELSE 0
            head  == IF j.count > 2 \/ PadTo(j) > 0 THEN 2 ELSE 1
            sum   == PlusAll(j.sizes)
<1>1. /\ j.count \in 2 .. 6 /\ j.limit \in Nat /\ j.spent \in Nat
      /\ j.sizes \in Seq(Int) /\ Len(j.sizes) = j.count
  <2>1. j.count \in 1 .. 6 /\ j.limit \in Nat /\ j.spent \in Nat
    BY DEF IsJob
  <2>2. j.sizes \in Seq(Int) /\ Len(j.sizes) = j.count - j.left
    BY DEF IsJob
  <2>. QED
    BY <2>1, <2>2
<1>2. /\ j.total = j.count + j.limit - MaxHeaderBytes(j.count)
      /\ MaxHeaderBytes(j.count) = IF j.count = 2 THEN 3 ELSE 2 + (j.count - 1) * 2
      /\ j.total \in Int /\ j.total >= 3 * j.count
  <2>1. j.total = j.count + j.limit - MaxHeaderBytes(j.count)
    BY DEF IsJob
  <2>2. MaxHeaderBytes(j.count) = IF j.count = 2 THEN 3 ELSE 2 + (j.count - 1) * 2
    BY DEF MaxHeaderBytes
  <2>3. j.total >= 3 * j.count
    BY <1>1 DEF Budget
  <2>4. MaxHeaderBytes(j.count) \in Int
    BY <1>1, <2>2
  <2>5. j.total \in Int
    BY <1>1, <2>1, <2>4
  <2>. QED
    BY <2>1, <2>2, <2>3, <2>5
<1>3. fair \in Nat /\ fair >= 3 /\ j.count * fair <= j.total
  BY <1>1, <1>2, FairFact DEF Fair
<1>4. /\ sum + j.count <= j.spent /\ j.spent <= j.count * fair
      /\ \A i \in 1 .. j.count : j.sizes[i] \in 0 .. fair - 1
  BY <1>1 DEF Budget
<1>5. sum \in Nat
  <2>1. fair - 1 \in Nat
    BY <1>3
  <2>. HIDE DEF fair
  <2>. QED
    BY <1>1, <1>4, <2>1, SumBound
<1>6. PadTo(j) \in {0, j.limit}
  BY DEF PadTo
<1>7. given \in Nat /\ given <= 2 * (j.count - 1)
  <2>1. told \in Seq(Int) /\ Len(told) = j.count - 1
    <3>1. told = [i \in 1 .. j.count - 1 |-> SizeBytes(j.sizes[i])]
      BY <1>1
    <3>2. \A i \in 1 .. j.count - 1 : SizeBytes(j.sizes[i]) \in Int
      BY DEF SizeBytes
    <3>3. j.count - 1 \in Nat
      BY <1>1
    <3>. HIDE DEF told
    <3>. QED
      BY <3>1, <3>2, <3>3
  <2>2. \A i \in 1 .. j.count - 1 : told[i] \in 0 .. 2
    BY <1>1 DEF SizeBytes
  <2>. HIDE DEF told
  <2>3. PlusAll(told) \in Nat /\ PlusAll(told) <= Len(told) * 2
    BY <2>1, <2>2, SumBound
  <2>. QED
    BY <1>1, <2>1, <2>3
<1>8. Framed(j.sizes, PadTo(j)) = Most(PadTo(j), head + given + sum)
  BY <1>1 DEF Framed
<1>9. j.count * fair \in Nat
  BY <1>1, <1>3, ProductFact
<1>10. head + given + sum <= j.limit
  <2>1. CASE j.count > 2
    <3>. HIDE DEF given, sum, fair
    <3>1. head = 2
      BY <2>1
    <3>2. sum <= j.limit - (2 + (j.count - 1) * 2)
      <4>. DEFINE most == j.count * fair
      <4>1. most \in Nat /\ most <= j.total /\ j.spent <= most
        BY <1>3, <1>4, <1>9
      <4>2. j.total = j.count + j.limit - (2 + (j.count - 1) * 2)
        BY <1>1, <1>2, <2>1
      <4>3. sum + j.count <= j.spent
        BY <1>4
      <4>. DEFINE extra == 2 + (j.count - 1) * 2
      <4>4. extra \in Nat /\ j.count \in Nat /\ j.limit \in Nat /\ j.spent \in Nat
        BY <1>1
      <4>. HIDE DEF most, extra
      <4>5. j.total = j.count + j.limit - extra
        BY <4>2 DEF extra
      <4>6. sum <= j.limit - extra
        BY <1>5, <4>1, <4>3, <4>4, <4>5
      <4>. QED
        BY <4>6 DEF extra
    <3>. QED
      BY <1>1, <1>5, <1>7, <3>1, <3>2
  <2>2. CASE j.count = 2
    <3>1. j.sizes[1] \in 0 .. fair - 1 /\ j.sizes[2] \in 0 .. fair - 1
      BY <1>4, <2>2
    <3>2. sum = j.sizes[1] + j.sizes[2]
      BY <1>1, <2>2, SumOfTwo
    <3>3. vbr => j.sizes[1] # j.sizes[2]
      <4>1. \A i \in 1 .. 2 : i = 1 \/ i = 2
        OBVIOUS
      <4>. QED
        BY <1>1, <2>2, <4>1
    <3>4. given <= 2 /\ (~vbr => given = 0)
      BY <1>7, <2>2
    <3>5. head <= 2
      OBVIOUS
    <3>6. 2 * fair <= j.limit - 1
      BY <1>1, <1>2, <1>3, <2>2
    <3>. HIDE DEF head, given, sum, fair, vbr
    <3>7. CASE vbr
      <4>1. sum <= 2 * fair - 3
        BY <1>3, <3>1, <3>2, <3>3, <3>7
      <4>. QED
        BY <1>1, <1>3, <1>5, <1>7, <3>4, <3>5, <3>6, <4>1 DEF head
    <3>8. CASE ~vbr
      <4>1. sum <= 2 * fair - 2
        BY <1>3, <3>1, <3>2
      <4>. QED
        BY <1>1, <1>3, <1>5, <3>4, <3>5, <3>6, <3>8, <4>1 DEF head
    <3>. QED
      BY <3>7, <3>8
  <2>. QED
    BY <1>1, <2>1, <2>2
<1>11. head \in Nat
  OBVIOUS
<1>. HIDE DEF head, given, sum
<1>. QED
  BY <1>1, <1>5, <1>6, <1>7, <1>8, <1>10, <1>11 DEF Most


LEMMA StartsKeepsEnc ==
  ASSUME IsEnc, NEW silence, NEW active, FrameStarts(silence, active)
  PROVE  IsEnc' /\ enc'.bandwidth = enc.bandwidth
BY DEF FrameStarts, IsEnc

LEMMA DropFrameKeeps ==
  ASSUME EncoderInv, NEW silence, NEW active, DropFrame(silence, active)
  PROVE  EncoderInv'
<1>1. Ready /\ FrameStarts(silence, active) /\ FrameDone(1, 0, FALSE) /\ stream' = stream
  BY DEF DropFrame
<1>2. IsEnc' /\ enc'.bandwidth = enc.bandwidth
  BY <1>1, StartsKeepsEnc DEF EncoderInv
<1>3. Room \in Nat /\ 1 \in 1 .. Room
  <2>1. IsJob(job) /\ Budget(job) /\ job.left > 0 /\ job.count \in 1 .. 6
        /\ job.buffer \in Nat /\ job.buffer >= 2
    BY <1>1 DEF EncoderInv, Ready, IsJob
  <2>2. CASE job.count = 1
    BY <2>1, <2>2 DEF Room
  <2>3. CASE job.count # 1
    <3>1. job.count > 1 /\ job.total >= 3 * job.count
      BY <1>1, <2>1, <2>3 DEF Ready
    <3>2. Fair(job) \in Nat /\ FrameRoom(job) \in 3 .. Fair(job)
      BY <2>1, <3>1, RoomFact
    <3>. QED
      BY <2>3, <3>2 DEF Room
  <2>. QED
    BY <2>2, <2>3
<1>4. 0 \in 0 .. 1 - 1
  OBVIOUS
<1>. QED
  BY <1>1, <1>2, <1>3, <1>4, FrameDoneKeeps

LEMMA CodeFrameKeeps ==
  ASSUME EncoderInv, NEW silence, NEW active, NEW payload \in ToCode,
         CodeFrame(silence, active, payload)
  PROVE  EncoderInv'
<1>. DEFINE made == OneFramePacket(payload, IF job.settings.cbr THEN Limit ELSE payload + 1, Room)
            cut  == made.payload # payload
<1>1. /\ Ready /\ FrameStarts(silence, active) /\ stream' = stream
      /\ FrameDone(made.length, made.payload, cut)
  BY DEF CodeFrame
<1>2. IsEnc' /\ enc'.bandwidth = enc.bandwidth
  BY <1>1, StartsKeepsEnc DEF EncoderInv
<1>3. /\ Room \in Nat /\ made.length \in 1 .. Room
      /\ made.payload \in 0 .. made.length - 1
      /\ cut => job.count = 1 /\ job.buffer = 2 /\ ~job.settings.cbr
      /\ job.count = 1 /\ job.settings.cbr => made.length = Most(1, job.limit)
  BY <1>1, FrameFact
<1>. HIDE DEF made
<1>4. job.count = 1 /\ job.settings.cbr /\ made.length # 1 => made.length = job.limit
  BY <1>3 DEF Most
<1>5. cut \in BOOLEAN
  OBVIOUS
<1>. HIDE DEF cut
<1>. QED
  BY <1>1, <1>2, <1>3, <1>4, <1>5, FrameDoneKeeps

LEMMA GivenFact ==
  ASSUME NEW j, NEW length
  PROVE  /\ Given(j, length).length = length /\ Given(j, length).buffer = j.buffer
         /\ Given(j, length).promised = IF j.settings.cbr /\ j.dropped < j.count
                                        THEN j.limit ELSE 0
         /\ Given(j, length).cbr = j.settings.cbr /\ Given(j, length).cut = j.cut
BY DEF Given

LEMMA EmitKeeps ==
  ASSUME EncoderInv, Emit
  PROVE  EncoderInv'
<1>. DEFINE length == Framed(job.sizes, PadTo(job))
<1>1. /\ job # Idle /\ job.count > 1 /\ job.left = 0
      /\ packet' = Given(job, length) /\ job' = Idle /\ stream' = stream /\ enc' = enc
  BY DEF Emit
<1>2. IsJob(job) /\ Budget(job) /\ ~job.cut
  BY <1>1 DEF EncoderInv, Budget
<1>3. length \in Nat /\ PadTo(job) <= length /\ length <= job.limit
  BY <1>1, <1>2, FramedFits
<1>4. /\ job.limit \in Nat /\ job.buffer \in Nat /\ job.limit <= job.buffer
      /\ job.dropped \in 0 .. job.count /\ job.count \in 1 .. 6
  BY <1>1, <1>2 DEF IsJob
<1>. HIDE DEF length
<1>5. /\ packet'.length = length /\ packet'.buffer = job.buffer /\ packet'.cut = job.cut
      /\ packet'.promised = IF job.settings.cbr /\ job.dropped < job.count
                            THEN job.limit ELSE 0
  BY <1>1, GivenFact
<1>6. length <= job.buffer
  BY <1>3, <1>4
<1>7. packet'.promised > 0 => length = packet'.promised
  <2>. SUFFICES ASSUME job.settings.cbr, job.dropped < job.count PROVE length = job.limit
    BY <1>5
  <2>1. PadTo(job) = job.limit
    BY <1>4 DEF PadTo
  <2>. QED
    BY <1>3, <1>4, <2>1
<1>8. PacketFits'
  BY <1>2, <1>5, <1>6, <1>7 DEF PacketFits
<1>9. stream \in Streams /\ IsEnc
  BY DEF EncoderInv
<1>10. IsEnc'
  BY <1>1, <1>9 DEF IsEnc
<1>. QED
  BY <1>1, <1>8, <1>9, <1>10 DEF EncoderInv

LEMMA StarvedKeeps ==
  ASSUME EncoderInv, Starved
  PROVE  EncoderInv'
<1>. DEFINE empty  == [i \in 1 .. job.count |-> 0]
            pad    == IF job.settings.cbr THEN job.limit ELSE 0
            length == Framed(empty, pad)
<1>1. /\ job # Idle /\ job.count > 1 /\ job.left = job.count
      /\ job.total \in 1 .. 3 * job.count - 1
      /\ packet' = Given(job, length) /\ job' = Idle /\ stream' = stream
      /\ enc' = [enc EXCEPT !.prev = job.mode]
  BY DEF Starved
<1>2. IsJob(job) /\ Budget(job) /\ ~job.cut /\ stream \in Streams /\ IsEnc
  BY <1>1 DEF EncoderInv, Budget
<1>3. /\ job.limit \in Nat /\ job.buffer \in Nat /\ job.limit <= job.buffer
      /\ job.count \in 2 .. 6 /\ job.total = job.count + job.limit - MaxHeaderBytes(job.count)
  BY <1>1, <1>2 DEF IsJob
<1>4. job.limit >= 2
  <2>1. CASE job.count = 2
    BY <1>1, <1>3, <2>1 DEF MaxHeaderBytes
  <2>2. CASE job.count # 2
    <3>1. job.total = job.count + job.limit - (2 + (job.count - 1) * 2)
      BY <1>3, <2>2 DEF MaxHeaderBytes
    <3>. QED
      BY <1>1, <1>3, <3>1
  <2>. QED
    BY <2>1, <2>2
<1>5. empty \in Seq(Int) /\ Len(empty) = job.count
  BY <1>3
<1>6. PlusAll(empty) = 0
  <2>1. \A i \in 1 .. Len(empty) : empty[i] \in 0 .. 0
    <3>1. \A i \in 1 .. job.count : empty[i] = 0
      OBVIOUS
    <3>. HIDE DEF empty
    <3>. QED
      BY <1>5, <3>1
  <2>. HIDE DEF empty
  <2>2. PlusAll(empty) \in Nat /\ PlusAll(empty) <= Len(empty) * 0
    BY <1>5, <2>1, SumBound
  <2>. QED
    BY <1>3, <1>5, <2>2
<1>7. ~(\E i \in 1 .. Len(empty) : empty[i] # empty[1])
  BY <1>3, <1>5
<1>8. length = Most(pad, (IF Len(empty) > 2 \/ pad > 0 THEN 2 ELSE 1) + 0 + PlusAll(empty))
  BY <1>7 DEF Framed
<1>. HIDE DEF length
<1>9. pad \in {0, job.limit} /\ (job.settings.cbr => pad = job.limit)
  OBVIOUS
<1>. HIDE DEF empty, pad
<1>10. length <= job.limit /\ (job.settings.cbr => length = job.limit)
  BY <1>3, <1>4, <1>6, <1>8, <1>9 DEF Most
<1>11. length \in Nat
  BY <1>3, <1>6, <1>8, <1>9 DEF Most
<1>12. /\ packet'.length = length /\ packet'.buffer = job.buffer /\ packet'.cut = job.cut
       /\ packet'.promised = IF job.settings.cbr /\ job.dropped < job.count
                             THEN job.limit ELSE 0
  BY <1>1, GivenFact
<1>13. length <= job.buffer
  BY <1>3, <1>10, <1>11
<1>14. PacketFits'
  BY <1>2, <1>10, <1>12, <1>13 DEF PacketFits
<1>15. IsEnc'
  BY <1>1, <1>2 DEF IsEnc
<1>. QED
  BY <1>1, <1>2, <1>14, <1>15 DEF EncoderInv

(* A packet that is refused, one that has no room to be framed, a reset.   *)
LEMMA RestKeeps ==
  ASSUME EncoderInv,
         \/ \E call \in Calls[stream] : EncodeRefused(call)
         \/ NoRoomToFrame \/ ResetState \/ UNCHANGED vars
  PROVE  EncoderInv'
<1>0. stream \in Streams /\ IsEnc /\ PacketFits
  BY DEF EncoderInv
<1>1. ASSUME NEW call \in Calls[stream], EncodeRefused(call) PROVE EncoderInv'
  <2>1. /\ job = Idle /\ packet' = Refused /\ stream' = stream /\ enc' = enc /\ job' = job
    BY <1>1 DEF EncodeRefused
  <2>2. PacketFits' /\ IsEnc'
    BY <1>0, <2>1 DEF PacketFits, Refused, IsEnc
  <2>. QED
    BY <1>0, <2>1, <2>2 DEF EncoderInv
<1>2. CASE NoRoomToFrame
  <2>1. packet' = Refused /\ stream' = stream /\ enc' = enc /\ job' = Idle
    BY <1>2 DEF NoRoomToFrame
  <2>2. PacketFits' /\ IsEnc'
    BY <1>0, <2>1 DEF PacketFits, Refused, IsEnc
  <2>. QED
    BY <1>0, <2>1, <2>2 DEF EncoderInv
<1>3. CASE ResetState
  <2>1. /\ job = Idle /\ job' = job /\ packet' = NoPacket /\ stream' = stream /\ enc' = Fresh
    BY <1>3 DEF ResetState
  <2>2. PacketFits' /\ IsEnc'
    BY <2>1 DEF PacketFits, NoPacket, IsEnc, Fresh
  <2>. QED
    BY <1>0, <2>1, <2>2 DEF EncoderInv
<1>4. CASE UNCHANGED vars
  <2>1. /\ stream' = stream /\ enc' = enc /\ job' = job /\ packet' = packet
    BY <1>4 DEF vars
  <2>2. PacketFits' /\ IsEnc' /\ (DecidedTogether' <=> DecidedTogether)
    BY <1>0, <2>1 DEF PacketFits, IsEnc, DecidedTogether
  <2>. QED
    BY <1>0, <2>1, <2>2 DEF EncoderInv
<1>. QED
  BY <1>1, <1>2, <1>3, <1>4

THEOREM EncoderKeepsItsInv == Spec => []EncoderInv
<1>1. Init => EncoderInv
  <2>. SUFFICES ASSUME Init PROVE EncoderInv
    OBVIOUS
  <2>1. stream \in Streams /\ enc = Fresh /\ job = Idle /\ packet = NoPacket
    BY DEF Init
  <2>2. PacketFits /\ IsEnc
    BY <2>1 DEF PacketFits, NoPacket, IsEnc, Fresh
  <2>. QED
    BY <2>1, <2>2 DEF EncoderInv
<1>2. EncoderInv /\ [Next]_vars => EncoderInv'
  <2>. SUFFICES ASSUME EncoderInv, [Next]_vars PROVE EncoderInv'
    OBVIOUS
  <2>1. ASSUME NEW call \in Calls[stream], NEW audio \in Audio[stream], Encode(call, audio)
        PROVE  EncoderInv'
    BY <2>1, EncodeKeeps
  <2>2. CASE Starved
    BY <2>2, StarvedKeeps
  <2>3. ASSUME NEW silence \in BOOLEAN, NEW active \in BOOLEAN, DropFrame(silence, active)
        PROVE  EncoderInv'
    BY <2>3, DropFrameKeeps
  <2>4. ASSUME NEW silence \in BOOLEAN, NEW active \in BOOLEAN, NEW payload \in ToCode,
               CodeFrame(silence, active, payload)
        PROVE  EncoderInv'
    BY <2>4, CodeFrameKeeps
  <2>5. CASE Emit
    BY <2>5, EmitKeeps
  <2>. QED
    BY <2>1, <2>2, <2>3, <2>4, <2>5, RestKeeps DEF Next
<1>. QED
  BY <1>1, <1>2, PTL DEF Spec

(* The table of contents says what was coded (encode_frame 1592-1611 stay  *)
(* unreachable), for every caller, sampling rate and channel count.        *)
THEOREM EncoderReadAsCoded == Spec => []ReadAsCoded
<1>1. EncoderInv => ReadAsCoded
  <2>. SUFFICES ASSUME EncoderInv, job # Idle
                PROVE  /\ Codable(job.mode, job.frame)
                       /\ ModeFromToc(Toc(job)) = job.mode
                       /\ DurationFromToc(Toc(job)) = job.frame
                       /\ job.mode # "silk" =>
                            EndBandFromToc(Toc(job)) = EndBand(enc.bandwidth)
                       /\ job.mode # "celt" =>
                            SilkKhzFromToc(Toc(job)) = SilkKhz(stream, job.mode, enc.bandwidth)
    BY DEF ReadAsCoded
  <2>1. /\ Together(job.mode, enc.bandwidth, stream.rate) /\ FrameFits(job.mode, job.frame)
        /\ stream.rate \in Rates
    BY EncoderAssumption DEF EncoderInv, DecidedTogether
  <2>2. Codable(job.mode, job.frame) /\ Said(stream, job.mode, job.frame, enc.bandwidth)
    BY <2>1, TogetherIsSaid
  <2>3. Toc(job) = GenToc(job.mode, RateOf(job.frame), enc.bandwidth)
    BY DEF Toc
  <2>. QED
    BY <2>2, <2>3 DEF Said
<1>. QED
  BY <1>1, EncoderKeepsItsInv, PTL

(* No frame of several without its three bytes, no packet beyond its       *)
(* buffer, none at a constant rate of another length than it comes to.     *)
THEOREM EncoderKeepsItsBudget == Spec => []KeepsItsBudget
<1>1. EncoderInv => KeepsItsBudget
  <2>. SUFFICES ASSUME EncoderInv PROVE KeepsItsBudget
    OBVIOUS
  <2>1. ASSUME Ready, job.count > 1 PROVE FrameRoom(job) >= 3
    <3>1. IsJob(job) /\ Budget(job) /\ job.left > 0 /\ job.total >= 3 * job.count
      BY <2>1 DEF EncoderInv, Ready, IsJob
    <3>2. Fair(job) \in Nat /\ FrameRoom(job) \in 3 .. Fair(job)
      BY <2>1, <3>1, RoomFact
    <3>. QED
      BY <3>2
  <2>2. PacketFits
    BY DEF EncoderInv
  <2>. QED
    BY <2>1, <2>2 DEF KeepsItsBudget, PacketFits
<1>. QED
  BY <1>1, EncoderKeepsItsInv, PTL


(***************************************************************************)
(* Pauses.  What counts is the counter DTX goes by: there is no pause      *)
(* until it is past 200 ms, the pause is at least 140 ms behind it, and    *)
(* there has been no activity for as long as it says.                      *)
(***************************************************************************)
PauseInv ==
  /\ paused \in 0 .. DtxUpTo /\ enc.quiet \in 0 .. DtxUpTo
  /\ silent \in 0 .. DtxFrom + 1 /\ Least(enc.quiet, DtxFrom + 1) <= silent
  /\ paused = 0 => enc.quiet <= DtxFrom
  /\ paused > 0 => enc.quiet > DtxFrom /\ paused + 280 < enc.quiet

LEMMA PauseNumbers ==
  ASSUME PauseInv
  PROVE  /\ paused \in 0 .. 1200 /\ enc.quiet \in 0 .. 1200 /\ silent \in 0 .. 401
         /\ enc.quiet < 401 => enc.quiet <= silent
         /\ ~(enc.quiet < 401) => silent = 401
         /\ paused = 0 => enc.quiet <= 400
         /\ paused > 0 => enc.quiet > 400 /\ paused + 280 < enc.quiet
<1>1. paused \in 0 .. 1200 /\ enc.quiet \in 0 .. 1200 /\ silent \in 0 .. 401
  BY DEF PauseInv, DtxFrom, DtxUpTo
<1>2. (IF enc.quiet < 401 THEN enc.quiet ELSE 401) <= silent
  BY DEF PauseInv, DtxFrom, Least
<1>3. /\ paused = 0 => enc.quiet <= 400
      /\ paused > 0 => enc.quiet > 400 /\ paused + 280 < enc.quiet
  BY DEF PauseInv, DtxFrom
<1>4. enc.quiet < 401 => enc.quiet <= silent
  BY <1>2
<1>5. ~(enc.quiet < 401) => silent = 401
  BY <1>1, <1>2
<1>. QED
  BY <1>1, <1>3, <1>4, <1>5

LEMMA FrameIsShort ==
  ASSUME EncoderInv, Ready
  PROVE  job.frame \in 1 .. 120 /\ IsEnc
BY DEF EncoderInv, Ready, IsJob

LEMMA DropFramePauses ==
  ASSUME EncoderInv, PauseInv, NEW silence, NEW active, DropFrame(silence, active)
  PROVE  PauseInv'
<1>1. /\ Ready /\ Dropped(silence, active) /\ FrameStarts(silence, active)
      /\ paused' = Since(paused, DtxUpTo) /\ silent' = Since(silent, DtxFrom + 1)
  BY DEF DropFrame
<1>2. job.frame \in 1 .. 120 /\ IsEnc
  BY <1>1, FrameIsShort
<1>3. enc'.quiet = Quiet(silence, active)
  BY <1>1, <1>2 DEF FrameStarts, IsEnc
<1>4. enc.quiet + job.frame > DtxFrom /\ enc.quiet + job.frame <= DtxUpTo
  BY <1>1 DEF Dropped
<1>5. Watched(silence) /\ Inactive(silence, active)
  BY <1>1 DEF Dropped
<1>. DEFINE quiet == enc.quiet
            frame == job.frame
<1>6. /\ paused \in 0 .. 1200 /\ quiet \in 0 .. 1200 /\ silent \in 0 .. 401
      /\ quiet < 401 => quiet <= silent
      /\ ~(quiet < 401) => silent = 401
      /\ paused = 0 => quiet <= 400
      /\ paused > 0 => quiet > 400 /\ paused + 280 < quiet
  BY PauseNumbers
<1>7. /\ frame \in 1 .. 120 /\ quiet + frame > 400 /\ quiet + frame <= 1200
      /\ paused' = IF paused + frame < 1200 THEN paused + frame ELSE 1200
      /\ silent' = IF silent + frame < 401 THEN silent + frame ELSE 401
  BY <1>1, <1>2, <1>4 DEF Since, DtxFrom, DtxUpTo, Least
<1>8. enc'.quiet = IF quiet + frame > 1200 THEN 400 ELSE quiet + frame
  BY <1>3, <1>5 DEF Quiet, DtxFrom, DtxUpTo
<1>. HIDE DEF quiet, frame
<1>9. ~(quiet + frame > 1200)
  BY <1>6, <1>7
<1>10. enc'.quiet = quiet + frame
  BY <1>8, <1>9
<1>11. paused + 280 < quiet \/ (paused = 0 /\ quiet > 280)
  BY <1>6, <1>7
<1>12. paused' = paused + frame /\ paused' > 0 /\ paused' + 280 < enc'.quiet
  BY <1>6, <1>7, <1>10, <1>11
<1>13. silent' = 401
  BY <1>6, <1>7
<1>14. paused' \in 0 .. 1200 /\ enc'.quiet \in 401 .. 1200
  BY <1>6, <1>7, <1>10, <1>12
<1>. QED
  BY <1>12, <1>13, <1>14 DEF PauseInv, DtxFrom, DtxUpTo, Least

LEMMA CodeFramePauses ==
  ASSUME EncoderInv, PauseInv, NEW silence, NEW active, NEW payload,
         CodeFrame(silence, active, payload)
  PROVE  PauseInv'
<1>1. /\ Ready /\ ~Dropped(silence, active) /\ FrameStarts(silence, active)
      /\ paused' = 0
      /\ silent' = IF Inactive(silence, active) THEN Since(silent, DtxFrom + 1) ELSE 0
  BY DEF CodeFrame
<1>2. job.frame \in 1 .. 120 /\ IsEnc
  BY <1>1, FrameIsShort
<1>3. enc'.quiet = Quiet(silence, active)
  BY <1>1, <1>2 DEF FrameStarts, IsEnc
<1>. DEFINE quiet == enc.quiet
            frame == job.frame
<1>4. /\ quiet \in 0 .. 1200 /\ silent \in 0 .. 401 /\ frame \in 1 .. 120
      /\ quiet < 401 => quiet <= silent
      /\ ~(quiet < 401) => silent = 401
  BY <1>2, PauseNumbers
<1>5. CASE ~Watched(silence) \/ ~Inactive(silence, active)
  <2>1. enc'.quiet = 0
    BY <1>3, <1>5 DEF Quiet
  <2>2. silent' \in 0 .. 401
    <3>1. silent' = 0 \/ silent' = IF silent + frame < 401 THEN silent + frame ELSE 401
      BY <1>1 DEF Since, Least, DtxFrom
    <3>. HIDE DEF frame, quiet
    <3>. QED
      BY <1>4, <3>1
  <2>. QED
    BY <1>1, <2>1, <2>2 DEF PauseInv, DtxFrom, DtxUpTo, Least
<1>6. CASE Watched(silence) /\ Inactive(silence, active)
  <2>1. silent' = IF silent + frame < 401 THEN silent + frame ELSE 401
    BY <1>1, <1>6 DEF Since, Least, DtxFrom
  <2>2. CASE quiet + frame > 1200
    <3>1. enc'.quiet = 400
      BY <1>3, <1>6, <2>2 DEF Quiet, DtxUpTo, DtxFrom
    <3>2. silent' = 401
      <4>. HIDE DEF quiet, frame
      <4>. QED
        BY <1>4, <2>1, <2>2
    <3>. QED
      BY <1>1, <3>1, <3>2 DEF PauseInv, DtxFrom, DtxUpTo, Least
  <2>3. CASE ~(quiet + frame > 1200)
    <3>1. enc'.quiet = quiet + frame
      BY <1>3, <1>6, <2>3 DEF Quiet, DtxUpTo
    <3>2. quiet + frame <= 400
      <4>1. ~(quiet + frame > 400 /\ quiet + frame <= 1200)
        BY <1>1, <1>6 DEF Dropped, DtxUpTo, DtxFrom
      <4>. HIDE DEF quiet, frame
      <4>. QED
        BY <1>4, <2>3, <4>1
    <3>. HIDE DEF quiet, frame
    <3>3. enc'.quiet \in 0 .. 400 /\ silent' \in 0 .. 401 /\ enc'.quiet <= silent'
      BY <1>4, <2>1, <3>1, <3>2
    <3>. QED
      BY <1>1, <3>3 DEF PauseInv, DtxFrom, DtxUpTo, Least
  <2>. QED
    BY <2>2, <2>3
<1>. QED
  BY <1>5, <1>6

(* DTX starts after 200 ms without activity, and something is coded after  *)
(* 400 ms of it and a frame, whatever packets the frames are in.           *)
THEOREM EncoderPausesEnd == Spec => []PausesEnd
<1>1. Init => PauseInv
  BY DEF Init, Fresh, PauseInv, DtxFrom, DtxUpTo, Least
<1>2. EncoderInv /\ PauseInv /\ [Next]_vars => PauseInv'
  <2>. SUFFICES ASSUME EncoderInv, PauseInv, [Next]_vars PROVE PauseInv'
    OBVIOUS
  <2>0. IsEnc
    BY DEF EncoderInv
  <2>1. ASSUME enc'.quiet = enc.quiet, paused' = paused, silent' = silent PROVE PauseInv'
    BY <2>1 DEF PauseInv
  <2>2. ASSUME NEW call \in Calls[stream], NEW audio \in Audio[stream], Encode(call, audio)
        PROVE  PauseInv'
    <3>1. enc'.quiet = enc.quiet /\ paused' = paused /\ silent' = silent
      BY <2>0, <2>2 DEF Encode, Decided, IsEnc
    <3>. QED
      BY <2>1, <3>1
  <2>3. ASSUME NEW call \in Calls[stream], EncodeRefused(call) PROVE PauseInv'
    BY <2>1, <2>3 DEF EncodeRefused
  <2>4. CASE NoRoomToFrame
    BY <2>1, <2>4 DEF NoRoomToFrame
  <2>5. CASE Starved
    <3>1. enc'.quiet = enc.quiet /\ paused' = paused /\ silent' = silent
      BY <2>0, <2>5 DEF Starved, IsEnc
    <3>. QED
      BY <2>1, <3>1
  <2>6. ASSUME NEW silence \in BOOLEAN, NEW active \in BOOLEAN, DropFrame(silence, active)
        PROVE  PauseInv'
    BY <2>6, DropFramePauses
  <2>7. ASSUME NEW silence \in BOOLEAN, NEW active \in BOOLEAN, NEW payload \in ToCode,
               CodeFrame(silence, active, payload)
        PROVE  PauseInv'
    BY <2>7, CodeFramePauses
  <2>8. CASE Emit
    BY <2>1, <2>8 DEF Emit
  <2>9. CASE ResetState
    BY <2>9 DEF ResetState, Fresh, PauseInv, DtxFrom, DtxUpTo, Least
  <2>10. CASE UNCHANGED vars
    BY <2>1, <2>10 DEF vars
  <2>. QED
    BY <2>2, <2>3, <2>4, <2>5, <2>6, <2>7, <2>8, <2>9, <2>10 DEF Next
<1>3. PauseInv => PausesEnd
  <2>. SUFFICES ASSUME PauseInv PROVE PausesEnd
    OBVIOUS
  <2>1. paused > 0 => silent > 400
    BY PauseNumbers
  <2>2. paused <= 920
    <3>1. paused \in 0 .. 1200 /\ enc.quiet \in 0 .. 1200
      BY PauseNumbers
    <3>2. paused > 0 => paused + 280 < enc.quiet
      BY PauseNumbers
    <3>. QED
      BY <3>1, <3>2
  <2>. QED
    BY <2>1, <2>2 DEF PausesEnd, DtxFrom, DtxUpTo
<1>. QED
  BY <1>1, <1>2, <1>3, EncoderKeepsItsInv, PTL DEF Spec

(***************************************************************************)
(* Restarts.  The encoder's last mode is the decoder's, so that each sees  *)
(* the same change; a packet that had no frame coded is the exception.     *)
(***************************************************************************)
RestartInv == enc.prev = decoder /\ astray \in {InTogether, ByStarving}

LEMMA FrameRestarts ==
  ASSUME IsEnc, RestartInv, NEW silence, NEW active, FrameStarts(silence, active)
  PROVE  RestartInv'
<1>1. /\ enc'.prev = job.mode /\ decoder' = job.mode
      /\ astray' = Drift(Restarts(enc.prev, job.mode), Restarts(decoder, job.mode), Astray)
  BY DEF FrameStarts, IsEnc
<1>2. Restarts(enc.prev, job.mode) = Restarts(decoder, job.mode)
  BY DEF RestartInv
<1>3. astray' \in {InTogether, astray}
  BY <1>1, <1>2 DEF Drift, Restarts
<1>. QED
  BY <1>1, <1>3 DEF RestartInv

THEOREM EncoderAstrayOnlyWhenStarved == Spec => []AstrayOnlyWhenStarved
<1>1. Init => RestartInv
  BY DEF Init, Fresh, RestartInv
<1>2. EncoderInv /\ RestartInv /\ [Next]_vars => RestartInv'
  <2>. SUFFICES ASSUME EncoderInv, RestartInv, [Next]_vars PROVE RestartInv'
    OBVIOUS
  <2>0. IsEnc
    BY DEF EncoderInv
  <2>1. ASSUME enc'.prev = enc.prev, decoder' = decoder, astray' = astray PROVE RestartInv'
    BY <2>1 DEF RestartInv
  <2>2. ASSUME NEW call \in Calls[stream], NEW audio \in Audio[stream], Encode(call, audio)
        PROVE  RestartInv'
    <3>1. enc'.prev = enc.prev /\ decoder' = decoder /\ astray' = astray
      BY <2>0, <2>2 DEF Encode, Decided, IsEnc
    <3>. QED
      BY <2>1, <3>1
  <2>3. ASSUME NEW call \in Calls[stream], EncodeRefused(call) PROVE RestartInv'
    BY <2>1, <2>3 DEF EncodeRefused
  <2>4. CASE NoRoomToFrame
    BY <2>1, <2>4 DEF NoRoomToFrame
  <2>5. CASE Starved
    <3>1. /\ enc'.prev = job.mode /\ decoder' = job.mode
          /\ astray' = Drift(FALSE, Restarts(decoder, job.mode), ByStarving)
      BY <2>0, <2>5 DEF Starved, IsEnc
    <3>2. astray' \in {ByStarving, astray}
      BY <3>1 DEF Drift, Restarts
    <3>. QED
      BY <3>1, <3>2 DEF RestartInv
  <2>6. ASSUME NEW silence \in BOOLEAN, NEW active \in BOOLEAN, DropFrame(silence, active)
        PROVE  RestartInv'
    BY <2>0, <2>6, FrameRestarts DEF DropFrame
  <2>7. ASSUME NEW silence \in BOOLEAN, NEW active \in BOOLEAN, NEW payload \in ToCode,
               CodeFrame(silence, active, payload)
        PROVE  RestartInv'
    BY <2>0, <2>7, FrameRestarts DEF CodeFrame
  <2>8. CASE Emit
    BY <2>1, <2>8 DEF Emit
  <2>9. CASE ResetState
    BY <2>9 DEF ResetState, Fresh, RestartInv
  <2>10. CASE UNCHANGED vars
    BY <2>1, <2>10 DEF vars
  <2>. QED
    BY <2>2, <2>3, <2>4, <2>5, <2>6, <2>7, <2>8, <2>9, <2>10 DEF Next
<1>3. RestartInv => AstrayOnlyWhenStarved
  BY DEF RestartInv, AstrayOnlyWhenStarved, InTogether, ByStarving, Astray
<1>. QED
  BY <1>1, <1>2, <1>3, EncoderKeepsItsInv, PTL DEF Spec

=============================================================================
