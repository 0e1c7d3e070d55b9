--------------------------- MODULE History_proofs ---------------------------
(***************************************************************************)
(* Proofs about what the two layers of a codec remember, from frame to     *)
(* frame and from sample to sample.  Of SilkSynthesis: what a channel's    *)
(* lags, filters, background and losses have to do with its rate and with  *)
(* its last frame.  Of CeltHistory: that an overlap left raw is folded     *)
(* once, with the filter taken off that is put on again, that pitch is     *)
(* extrapolated from what was heard, and that the postfilter undoes the    *)
(* prefilter; both for every sequence of frames, rates, modes and losses.  *)
(* Of DelayedDecision: that what the quantizer decides is one candidate's  *)
(* path, whatever the candidates cost.                                     *)
(***************************************************************************)
EXTENDS SilkSynthesis, CeltHistory, DelayedDecision, SequenceFacts, TLAPS

(***************************************************************************)
(*                             SilkSynthesis                               *)
(***************************************************************************)
NoRate == 0

PlcType(p) ==
  /\ DOMAIN p = {"khz", "pitch", "lpc", "lost"}
  /\ p.khz \in Rates \cup {NoRate} /\ p.pitch \in Int /\ p.lpc \in Rates \cup {NoRate}
  /\ p.lost \in BOOLEAN

CngType(g) == DOMAIN g = {"khz", "learnt"}

PastType(p) == p \in [was : {"none", "loss", "voicedLoss", "coded"}, lag : Int, gap : BOOLEAN]

SpeechType(c) ==
  /\ c.khz \in Rates \cup {NoRate} /\ c.subframes \in {2, 4} /\ c.lagPrev \in Int
  /\ c.first \in BOOLEAN /\ c.losses \in {0, 1} /\ c.prev \in Types

ChannelType(c) ==
  /\ DOMAIN c = {"khz", "subframes", "lagPrev", "first", "nlsf", "losses", "prev", "plc", "cng",
                 "past"}
  /\ SpeechType(c) /\ PlcType(c.plc) /\ CngType(c.cng) /\ PastType(c.past)

(***************************************************************************)
(* The invariant of a channel.  What it keeps to conceal with fits the     *)
(* rate that is noted beside it (the concealment's own, which may be an    *)
(* earlier one, or the channel's); a channel that is not fresh has a       *)
(* spectrum and a filter of its rate; and what the loss left tells whether *)
(* the last frame was lost, and at what lag.                               *)
(***************************************************************************)
LagsKept(c) ==
  /\ 0 <= c.plc.pitch /\ c.plc.pitch <= LongestLag(c.plc.khz) * 256
  /\ c.khz # NoRate => c.lagPrev <= LongestLag(c.khz)

FiltersKept(c) ==
  /\ ~c.first => c.nlsf = c.khz /\ c.plc.lpc = c.khz
  /\ c.cng.learnt \in {0, c.cng.khz}

LossKept(c) ==
  /\ c.plc.lost <=> c.past.was \in {"loss", "voicedLoss"}
  /\ c.losses > 0 /\ c.prev = "voiced" =>
       c.past.was = "voicedLoss" /\ c.past.lag = c.lagPrev

ChannelInv(c) == ChannelType(c) /\ LagsKept(c) /\ FiltersKept(c) /\ LossKept(c)

(***************************************************************************)
(* Lags.                                                                   *)
(***************************************************************************)
LEMMA StartsInside ==
  ASSUME NEW khz \in Rates, NEW lag \in Int, lag <= LongestLag(khz)
  PROVE  Rewhitened(khz, lag) > 0
BY DEF Rates, LongestLag, Rewhitened, LtpMemory, LpcOrder, HalfTaps

LEMMA RoundedFits ==
  ASSUME NEW khz \in Int, NEW pitch \in Int, 0 <= pitch, pitch <= LongestLag(khz) * 256
  PROVE  Rounded(pitch) \in Int /\ Rounded(pitch) <= LongestLag(khz)
BY DEF Rounded, LongestLag

LEMMA DriftFits ==
  ASSUME NEW khz \in Rates, NEW pitch \in Int, 0 <= pitch
  PROVE  /\ Drift(khz, pitch) \in Int
         /\ 0 <= Drift(khz, pitch) /\ Drift(khz, pitch) <= LongestLag(khz) * 256
BY DEF Drift, Min2, LongestLag, Rates

LEMMA DriftedFits ==
  ASSUME NEW c, c.khz \in Rates, NEW pitch \in Int, 0 <= pitch
  PROVE  /\ Drifted(c, pitch) \in Int
         /\ 0 <= Drifted(c, pitch) /\ Drifted(c, pitch) <= LongestLag(c.khz) * 256
<1> DEFINE once(p) == Drift(c.khz, p)
<1>1. ASSUME NEW p \in Int, 0 <= p
      PROVE  once(p) \in Int /\ 0 <= once(p) /\ once(p) <= LongestLag(c.khz) * 256
  BY <1>1, DriftFits
<1>2. once(pitch) \in Int /\ 0 <= once(pitch)
  BY <1>1
<1>3. once(once(pitch)) \in Int /\ 0 <= once(once(pitch))
  BY <1>1, <1>2
<1>4. once(once(once(pitch))) \in Int /\ 0 <= once(once(once(pitch)))
  BY <1>1, <1>3
<1>5. /\ once(once(pitch)) <= LongestLag(c.khz) * 256
      /\ once(once(once(once(pitch)))) \in Int /\ 0 <= once(once(once(once(pitch))))
      /\ once(once(once(once(pitch)))) <= LongestLag(c.khz) * 256
  BY <1>1, <1>2, <1>4
<1>6. Drifted(c, pitch) = IF c.subframes = 2 THEN once(once(pitch))
                          ELSE once(once(once(once(pitch))))
  BY DEF Drifted
<1>. HIDE DEF once
<1>. QED BY <1>3, <1>5, <1>6

LEMMA LagsFit ==
  ASSUME NEW c, c.khz \in Rates, c.subframes \in {2, 4}, NEW f, IsFrame(f, c.subframes),
         NEW k \in 1 .. c.subframes
  PROVE  /\ Lags(c, f)[k] \in Int
         /\ 0 <= Lags(c, f)[k] /\ Lags(c, f)[k] <= LongestLag(c.khz)
         /\ f.type = "voiced" => 0 < Lags(c, f)[k]
<1> DEFINE coded == f.lag + f.contour[k]
<1>1. coded \in Int
  BY DEF IsFrame
<1>2. Lags(c, f)[k] = IF f.type = "voiced" THEN Clamped(c.khz, coded) ELSE 0
  BY DEF Lags
<1>. HIDE DEF coded
<1>3. /\ Clamped(c.khz, coded) \in Int /\ 0 < Clamped(c.khz, coded)
      /\ Clamped(c.khz, coded) <= LongestLag(c.khz) /\ 0 <= LongestLag(c.khz)
  BY <1>1 DEF Clamped, Max2, Min2, ShortestLag, LongestLag, Rates
<1>. QED BY <1>2, <1>3

LEMMA KeptFits ==
  ASSUME NEW c, c.khz \in Rates, c.subframes \in {2, 4}, NEW f, IsFrame(f, c.subframes)
  PROVE  /\ PitchToKeep(c, f) \in Int
         /\ 0 <= PitchToKeep(c, f) /\ PitchToKeep(c, f) <= LongestLag(c.khz) * 256
<1>1. CASE f.type # "voiced"
  BY <1>1 DEF PitchToKeep, LongestLag, Rates
<1>2. CASE f.type = "voiced"
  <2> DEFINE tried == {j \in Pulsing(c, Lags(c, f)) : j <= f.best}
             best  == CHOOSE j \in tried : \A i \in tried : i <= j
  <2>1. tried \subseteq 0 .. 3 /\ tried \subseteq 0 .. c.subframes - 1
    BY DEF Pulsing
  <2>2. 0 \in tried
    <3>1. 0 < Lags(c, f)[c.subframes]
      BY <1>2, LagsFit
    <3>2. 0 * SubframeLength(c.khz) = 0 /\ f.best \in Nat /\ 0 \in 0 .. c.subframes - 1
      BY DEF SubframeLength, Rates, IsFrame
    <3>. QED BY <3>1, <3>2 DEF Pulsing
  <2>. HIDE DEF tried
  <2>3. \E j \in tried : \A i \in tried : i <= j
    <3>1. CASE 3 \in tried
      BY <3>1, <2>1
    <3>2. CASE 3 \notin tried /\ 2 \in tried
      BY <3>2, <2>1
    <3>3. CASE 3 \notin tried /\ 2 \notin tried /\ 1 \in tried
      BY <3>3, <2>1
    <3>4. CASE 3 \notin tried /\ 2 \notin tried /\ 1 \notin tried
      BY <3>4, <2>1, <2>2
    <3>. QED BY <3>1, <3>2, <3>3, <3>4
  <2>4. best \in tried
    BY <2>3
  <2>. HIDE DEF best
  <2>5. c.subframes - best \in 1 .. c.subframes
    BY <2>1, <2>4
  <2>6. PitchToKeep(c, f) = Lags(c, f)[c.subframes - best] * 256
    BY <1>2 DEF PitchToKeep, best, tried
  <2>. QED BY <2>5, <2>6, LagsFit DEF LongestLag, Rates
<1>. QED BY <1>1, <1>2

(* What a frame is heard at, and leaves as the last lag.                   *)
LEMMA HeardFits ==
  ASSUME NEW c, ChannelType(c), LagsKept(c), c.khz \in Rates,
         NEW f, IsFrame(f, c.subframes), NEW k \in 1 .. c.subframes
  PROVE  Heard(c, f)[k] \in Int /\ Heard(c, f)[k] <= LongestLag(c.khz)
<1>1. c.subframes \in {2, 4} /\ c.lagPrev \in Int /\ c.khz # NoRate
  BY DEF ChannelType, SpeechType, NoRate, Rates
<1>2. Lags(c, f)[k] \in Int /\ Lags(c, f)[k] <= LongestLag(c.khz)
  BY <1>1, LagsFit
<1>. QED BY <1>1, <1>2 DEF Heard, LagsKept

(***************************************************************************)
(* What a frame leaves, field by field.                                    *)
(***************************************************************************)
Background(c) == IF c.cng.khz = c.khz THEN c.cng.learnt ELSE 0

(* All but what is kept for concealment and for noise.                     *)
SameSpeech(c, d) ==
  /\ d.khz = c.khz /\ d.subframes = c.subframes /\ d.lagPrev = c.lagPrev
  /\ d.first = c.first /\ d.nlsf = c.nlsf /\ d.losses = c.losses /\ d.prev = c.prev
  /\ d.past = c.past

LEMMA SetCng ==
  ASSUME NEW c, ChannelType(c), NEW g, CngType(g)
  PROVE  LET d == [c EXCEPT !.cng = g]
         IN ChannelType(d) /\ SameSpeech(c, d) /\ d.plc = c.plc /\ d.cng = g
BY DEF ChannelType, SpeechType, SameSpeech

LEMMA SetPlc ==
  ASSUME NEW c, ChannelType(c), NEW p, PlcType(p)
  PROVE  LET d == [c EXCEPT !.plc = p]
         IN ChannelType(d) /\ SameSpeech(c, d) /\ d.cng = c.cng /\ d.plc = p
BY DEF ChannelType, SpeechType, SameSpeech

LEMMA CngLeaves ==
  ASSUME NEW c, ChannelType(c)
  PROVE  /\ ChannelType(Cng(c)) /\ SameSpeech(c, Cng(c)) /\ Cng(c).plc = c.plc
         /\ Cng(c).cng.khz = c.khz
         /\ Cng(c).cng.learnt = IF c.losses = 0 /\ c.prev = "inactive" THEN c.nlsf
                                ELSE Background(c)
         /\ CngReady(c).cng.learnt = Background(c)
<1> DEFINE r == CngReady(c)
<1>1. /\ ChannelType(r) /\ SameSpeech(c, r) /\ r.plc = c.plc
      /\ r.cng.khz = c.khz /\ r.cng.learnt = Background(c)
  <2> DEFINE g == [khz |-> c.khz, learnt |-> 0]
  <2>1. CASE c.cng.khz = c.khz
    BY <2>1 DEF SameSpeech, CngReady, Background
  <2>2. CASE c.cng.khz # c.khz
    <3>1. r = [c EXCEPT !.cng = g]
      BY <2>2 DEF CngReady
    <3>2. CngType(g)
      BY DEF CngType
    <3>. QED BY <2>2, <3>1, <3>2, SetCng DEF Background
  <2>. QED BY <2>1, <2>2
<1>2. Cng(c) = IF r.losses = 0 /\ r.prev = "inactive" THEN [r EXCEPT !.cng.learnt = r.nlsf] ELSE r
  BY DEF Cng, CngLearnt
<1>. HIDE DEF r
<1>3. CASE r.losses = 0 /\ r.prev = "inactive"
  <2> DEFINE g == [r.cng EXCEPT !.learnt = r.nlsf]
  <2>1. CngType(g) /\ g.khz = r.cng.khz /\ g.learnt = r.nlsf
    BY <1>1 DEF ChannelType, CngType
  <2>2. Cng(c) = [r EXCEPT !.cng = g]
    BY <1>1, <1>2, <1>3 DEF ChannelType
  <2>. HIDE DEF g
  <2>3. /\ ChannelType(Cng(c)) /\ SameSpeech(r, Cng(c)) /\ Cng(c).plc = r.plc /\ Cng(c).cng = g
    BY <1>1, <2>1, <2>2, SetCng
  <2>. QED BY <1>1, <1>3, <2>1, <2>3 DEF SameSpeech, r
<1>4. CASE ~(r.losses = 0 /\ r.prev = "inactive")
  BY <1>1, <1>2, <1>4 DEF SameSpeech, r
<1>. QED BY <1>3, <1>4

LEMMA ReadyLeaves ==
  ASSUME NEW c, ChannelType(c)
  PROVE  LET r == PlcReady(c) IN
         /\ ChannelType(r) /\ SameSpeech(c, r) /\ r.cng = c.cng
         /\ r.plc.khz = c.khz /\ r.plc.lpc = c.plc.lpc /\ r.plc.lost = c.plc.lost
         /\ r.plc.pitch = IF c.plc.khz = c.khz THEN c.plc.pitch
                          ELSE SubframeLength(c.khz) * c.subframes * 128
<1> DEFINE pitch == SubframeLength(c.khz) * c.subframes * 128
           p     == [c.plc EXCEPT !.khz = c.khz, !.pitch = pitch]
<1>1. pitch \in Int /\ c.khz \in Rates \cup {NoRate}
  BY DEF SubframeLength, ChannelType, SpeechType, Rates, NoRate
<1>2. CASE c.plc.khz = c.khz
  BY <1>2 DEF SameSpeech, PlcReady
<1>3. CASE c.plc.khz # c.khz
  <2>1. PlcReady(c) = [c EXCEPT !.plc = p]
    BY <1>3 DEF PlcReady, ChannelType
  <2>. HIDE DEF pitch
  <2>2. /\ PlcType(p) /\ p.khz = c.khz /\ p.pitch = pitch
        /\ p.lpc = c.plc.lpc /\ p.lost = c.plc.lost
    BY <1>1 DEF ChannelType, PlcType
  <2>. HIDE DEF p
  <2>3. /\ ChannelType(PlcReady(c)) /\ SameSpeech(c, PlcReady(c)) /\ PlcReady(c).cng = c.cng
        /\ PlcReady(c).plc = p
    BY <2>1, <2>2, SetPlc
  <2>. QED BY <1>3, <2>2, <2>3 DEF pitch
<1>. QED BY <1>2, <1>3

LEMMA GluedLeaves ==
  ASSUME NEW c, ChannelType(c)
  PROVE  LET g == Glued(c) IN
         /\ ChannelType(g) /\ SameSpeech(c, g) /\ g.cng = c.cng
         /\ g.plc.khz = c.plc.khz /\ g.plc.pitch = c.plc.pitch /\ g.plc.lpc = c.plc.lpc
         /\ c.losses # 0 => g.plc.lost = TRUE
         /\ c.losses = 0 => g.plc.lost = FALSE
<1> DEFINE p == [c.plc EXCEPT !.lost = (c.losses # 0)]
<1>1. Glued(c) = [c EXCEPT !.plc = p]
  BY DEF Glued, ChannelType
<1>2. /\ PlcType(p) /\ p.khz = c.plc.khz /\ p.pitch = c.plc.pitch /\ p.lpc = c.plc.lpc
      /\ c.losses # 0 => p.lost = TRUE
      /\ c.losses = 0 => p.lost = FALSE
  BY DEF ChannelType, PlcType
<1>. HIDE DEF p
<1>. QED BY <1>1, <1>2, SetPlc

LEMMA GoodLeaves ==
  ASSUME NEW c, ChannelType(c), NEW f, f.type \in Types,
         PitchToKeep(c, f) \in Int, Heard(c, f)[c.subframes] \in Int
  PROVE  LET g == Good(c, f) IN
         /\ ChannelType(g)
         /\ g.khz = c.khz /\ g.subframes = c.subframes /\ g.lagPrev = Heard(c, f)[c.subframes]
         /\ g.first = FALSE /\ g.nlsf = c.khz /\ g.losses = 0 /\ g.prev = f.type
         /\ g.plc.khz = c.khz /\ g.plc.pitch = PitchToKeep(c, f) /\ g.plc.lpc = c.khz
         /\ g.plc.lost = FALSE
         /\ g.cng.khz = c.khz /\ g.cng.learnt \in {Background(c), c.khz}
<1> DEFINE ready == PlcReady(c)
           p     == [ready.plc EXCEPT !.pitch = PitchToKeep(c, f), !.lpc = c.khz]
           made  == PlcUpdated(c, f)
           good  == [made EXCEPT !.losses = 0, !.prev = f.type, !.first = FALSE, !.nlsf = c.khz]
           noisy == Cng(good)
           glued == Glued(noisy)
<1>1. ChannelType(ready) /\ SameSpeech(c, ready) /\ ready.cng = c.cng /\ ready.plc.khz = c.khz
  BY ReadyLeaves
<1>2. made = [ready EXCEPT !.plc = p]
  BY <1>1 DEF PlcUpdated, ChannelType
<1>. HIDE DEF ready, made
<1>3. /\ PlcType(p) /\ p.khz = c.khz /\ p.pitch = PitchToKeep(c, f) /\ p.lpc = c.khz
  BY <1>1 DEF ChannelType, PlcType, SpeechType
<1>. HIDE DEF p
<1>4. ChannelType(made) /\ SameSpeech(ready, made) /\ made.cng = ready.cng /\ made.plc = p
  BY <1>1, <1>2, <1>3, SetPlc
<1>5. /\ ChannelType(good) /\ good.khz = c.khz /\ good.subframes = c.subframes
      /\ good.first = FALSE /\ good.nlsf = c.khz /\ good.losses = 0 /\ good.prev = f.type
      /\ good.plc = p /\ good.cng = c.cng
  BY <1>1, <1>4 DEF ChannelType, SpeechType, SameSpeech
<1>. HIDE DEF good
<1>6. Background(good) = Background(c)
  BY <1>5 DEF Background
<1>7. /\ ChannelType(noisy) /\ SameSpeech(good, noisy) /\ noisy.plc = p
      /\ noisy.cng.khz = c.khz /\ noisy.cng.learnt \in {Background(c), c.khz}
  BY <1>5, <1>6, CngLeaves
<1>. HIDE DEF noisy
<1>8. /\ ChannelType(glued) /\ SameSpeech(noisy, glued) /\ glued.cng = noisy.cng
      /\ glued.plc.khz = p.khz /\ glued.plc.pitch = p.pitch /\ glued.plc.lpc = p.lpc
      /\ noisy.losses = 0 => glued.plc.lost = FALSE
  BY <1>7, GluedLeaves
<1>9. Good(c, f) = [glued EXCEPT !.lagPrev = Heard(c, f)[c.subframes]]
  BY DEF Good, glued, noisy, good, made
<1>. HIDE DEF glued
<1>10. /\ glued.khz = c.khz /\ glued.subframes = c.subframes /\ glued.first = FALSE
       /\ glued.nlsf = c.khz /\ glued.losses = 0 /\ glued.prev = f.type
       /\ glued.plc.lost = FALSE
       /\ glued.cng.khz = c.khz /\ glued.cng.learnt \in {Background(c), c.khz}
  BY <1>5, <1>7, <1>8 DEF SameSpeech
<1>. QED BY <1>3, <1>8, <1>9, <1>10 DEF ChannelType, SpeechType

PlcFits(c) ==
  LET from == PlcReady(c).plc.pitch IN
  from \in Int /\ 0 <= from /\ from <= LongestLag(c.khz) * 256

\* How concealing a frame leaves the channel.
LeftAsLost(c, g) ==
  /\ ChannelType(g)
  /\ g.khz = c.khz /\ g.subframes = c.subframes
  /\ g.first = c.first /\ g.nlsf = c.nlsf /\ g.losses = 1 /\ g.prev = c.prev
  /\ g.lagPrev \in Int /\ g.lagPrev <= LongestLag(c.khz)
  /\ g.plc.khz = c.khz /\ 0 <= g.plc.pitch /\ g.plc.pitch <= LongestLag(c.khz) * 256
  /\ g.plc.lpc = FilterToExtend(c) /\ g.plc.lost = TRUE
  /\ g.cng.khz = c.khz /\ g.cng.learnt = Background(c)

LEMMA LostLeaves ==
  ASSUME NEW c, ChannelType(c), c.khz \in Rates, LagsKept(c)
  PROVE  PlcFits(c) /\ LeftAsLost(c, Lost(c))
<1> DEFINE ready == PlcReady(c)
           pitch == Drifted(ready, ready.plc.pitch)
           p     == [ready.plc EXCEPT !.lpc = FilterToExtend(c), !.pitch = pitch]
           left  == Concealed(c)
           noisy == Cng(left)
<1>1. /\ ChannelType(ready) /\ SameSpeech(c, ready) /\ ready.cng = c.cng /\ ready.plc.khz = c.khz
      /\ ready.plc.lpc = c.plc.lpc
      /\ ready.plc.pitch = IF c.plc.khz = c.khz THEN c.plc.pitch
                           ELSE SubframeLength(c.khz) * c.subframes * 128
  BY ReadyLeaves
<1>. HIDE DEF ready
<1>2. /\ ready.plc.pitch \in Int /\ 0 <= ready.plc.pitch
      /\ ready.plc.pitch <= LongestLag(c.khz) * 256
  <2>1. CASE c.plc.khz = c.khz
    BY <1>1, <2>1 DEF LagsKept, ChannelType, PlcType
  <2>2. CASE c.plc.khz # c.khz
    <3>1. ready.plc.pitch = SubframeLength(c.khz) * c.subframes * 128
      BY <1>1, <2>2
    <3>2. c.subframes \in {2, 4}
      BY DEF ChannelType, SpeechType
    <3>. QED BY <3>1, <3>2 DEF SubframeLength, LongestLag, Rates
  <2>. QED BY <2>1, <2>2
<1>3. /\ pitch \in Int /\ 0 <= pitch /\ pitch <= LongestLag(c.khz) * 256
  BY <1>1, <1>2, DriftedFits DEF SameSpeech
<1>4. left = [ready EXCEPT !.plc = p, !.losses = 1, !.lagPrev = Rounded(pitch)]
  BY <1>1 DEF Concealed, ChannelType, ready
<1>. HIDE DEF pitch, left
<1>5. Rounded(pitch) \in Int /\ Rounded(pitch) <= LongestLag(c.khz)
  BY <1>3, RoundedFits DEF Rates
<1>6. FilterToExtend(c) \in Rates \cup {NoRate}
  BY DEF FilterToExtend, ChannelType, PlcType, NoRate
<1>7. PlcType(p) /\ p.khz = c.khz /\ p.lpc = FilterToExtend(c) /\ p.pitch = pitch
  BY <1>1, <1>3, <1>6 DEF ChannelType, PlcType
<1>. HIDE DEF p
<1>8. /\ ChannelType(left) /\ left.khz = c.khz /\ left.subframes = c.subframes
      /\ left.first = c.first /\ left.nlsf = c.nlsf /\ left.losses = 1 /\ left.prev = c.prev
      /\ left.lagPrev = Rounded(pitch) /\ left.plc = p /\ left.cng = c.cng
  BY <1>1, <1>4, <1>5, <1>7 DEF ChannelType, SpeechType, SameSpeech
<1>9. Background(left) = Background(c)
  BY <1>8 DEF Background
<1>10. /\ ChannelType(noisy) /\ SameSpeech(left, noisy) /\ noisy.plc = p
       /\ noisy.cng.khz = c.khz /\ noisy.cng.learnt = Background(c)
  BY <1>8, <1>9, CngLeaves
<1>11. Lost(c) = Glued(noisy)
  BY DEF Lost, left
<1>. HIDE DEF noisy
<1>12. /\ ChannelType(Lost(c)) /\ SameSpeech(noisy, Lost(c)) /\ Lost(c).cng = noisy.cng
       /\ Lost(c).plc.khz = p.khz /\ Lost(c).plc.pitch = p.pitch /\ Lost(c).plc.lpc = p.lpc
       /\ noisy.losses # 0 => Lost(c).plc.lost = TRUE
  BY <1>10, <1>11, GluedLeaves
<1>13. noisy.losses = 1 /\ noisy.lagPrev = Rounded(pitch)
  BY <1>8, <1>10 DEF SameSpeech
<1>14. Lost(c).plc.lost = TRUE
  BY <1>12, <1>13
<1>15. /\ Lost(c).khz = c.khz /\ Lost(c).subframes = c.subframes /\ Lost(c).first = c.first
       /\ Lost(c).nlsf = c.nlsf /\ Lost(c).losses = 1 /\ Lost(c).prev = c.prev
       /\ Lost(c).lagPrev = Rounded(pitch) /\ Lost(c).plc.lost = TRUE
       /\ Lost(c).plc.khz = c.khz /\ Lost(c).plc.pitch = pitch
       /\ Lost(c).plc.lpc = FilterToExtend(c)
       /\ Lost(c).cng.khz = c.khz /\ Lost(c).cng.learnt = Background(c)
  <2>1. /\ Lost(c).khz = c.khz /\ Lost(c).subframes = c.subframes /\ Lost(c).first = c.first
        /\ Lost(c).nlsf = c.nlsf /\ Lost(c).losses = 1 /\ Lost(c).prev = c.prev
        /\ Lost(c).lagPrev = Rounded(pitch)
    BY <1>8, <1>10, <1>12 DEF SameSpeech
  <2>2. /\ Lost(c).plc.khz = c.khz /\ Lost(c).plc.pitch = pitch
        /\ Lost(c).plc.lpc = FilterToExtend(c)
        /\ Lost(c).cng.khz = c.khz /\ Lost(c).cng.learnt = Background(c)
    BY <1>7, <1>10, <1>12
  <2>. QED BY <1>14, <2>1, <2>2
<1>16. PlcFits(c)
  BY <1>2 DEF PlcFits, ready
<1>17. LeftAsLost(c, Lost(c))
  BY <1>3, <1>5, <1>12, <1>15 DEF LeftAsLost
<1>. QED BY <1>16, <1>17

(***************************************************************************)
(* A frame keeps the channel's invariant, is the channel's last, and is    *)
(* made as the properties say.                                             *)
(***************************************************************************)
MayBe(f, c) == f = NotCoded \/ IsFrame(f, c.subframes)

LEMMA BackgroundFits ==
  ASSUME NEW c, ChannelInv(c)
  PROVE  Background(c) \in {0, c.khz}
BY DEF ChannelInv, FiltersKept, Background

LEMMA FrameKept ==
  ASSUME NEW c, ChannelInv(c), c.khz \in Rates, NEW f, MayBe(f, c)
  PROVE  LET g == DecodeFrame(c, f) IN
         /\ ChannelInv(g) /\ g.khz = c.khz /\ g.subframes = c.subframes
         /\ g.past.gap = FALSE
<1>. DEFINE g == DecodeFrame(c, f)
<1>1. ChannelType(c) /\ LagsKept(c) /\ FiltersKept(c) /\ LossKept(c)
  BY DEF ChannelInv
<1>2. Background(c) \in {0, c.khz} /\ c.khz # NoRate
  BY BackgroundFits DEF Rates, NoRate
<1>3. CASE f = NotCoded
  <2> DEFINE lost == Lost(c)
             past == [was |-> IF c.prev = "voiced" THEN "voicedLoss" ELSE "loss",
                      lag |-> lost.lagPrev, gap |-> FALSE]
  <2>1. LeftAsLost(c, lost)
    BY <1>1, LostLeaves
  <2>2. g = [lost EXCEPT !.past = past]
    BY <1>3 DEF DecodeFrame
  <2>. HIDE DEF lost
  <2>3. /\ ChannelType(lost) /\ lost.khz = c.khz /\ lost.subframes = c.subframes
        /\ lost.first = c.first /\ lost.nlsf = c.nlsf /\ lost.losses = 1 /\ lost.prev = c.prev
        /\ lost.lagPrev \in Int /\ lost.lagPrev <= LongestLag(c.khz)
        /\ lost.plc.khz = c.khz
        /\ 0 <= lost.plc.pitch /\ lost.plc.pitch <= LongestLag(c.khz) * 256
        /\ lost.plc.lpc = FilterToExtend(c) /\ lost.plc.lost = TRUE
        /\ lost.cng.khz = c.khz /\ lost.cng.learnt = Background(c)
    BY <2>1 DEF LeftAsLost
  <2>4. PastType(past) /\ past.gap = FALSE /\ past.lag = lost.lagPrev
        /\ past.was \in {"loss", "voicedLoss"}
        /\ (c.prev = "voiced" => past.was = "voicedLoss")
    BY <2>3 DEF PastType
  <2>. HIDE DEF past
  <2>5. /\ ChannelType(g) /\ g.khz = c.khz /\ g.subframes = c.subframes
        /\ g.first = c.first /\ g.nlsf = c.nlsf /\ g.losses = 1 /\ g.prev = c.prev
        /\ g.lagPrev = lost.lagPrev /\ g.plc = lost.plc /\ g.cng = lost.cng /\ g.past = past
    BY <2>3, <2>2, <2>4 DEF ChannelType, SpeechType
  <2>. HIDE DEF g
  <2>6. LagsKept(g)
    BY <2>3, <2>5 DEF LagsKept
  <2>7. FiltersKept(g)
    BY <1>1, <1>2, <2>3, <2>5 DEF FiltersKept, FilterToExtend
  <2>8. LossKept(g)
    BY <2>3, <2>4, <2>5 DEF LossKept
  <2>. QED BY <2>4, <2>5, <2>6, <2>7, <2>8 DEF ChannelInv, g
<1>4. CASE f # NotCoded
  <2> DEFINE good == Good(c, f)
             past == [was |-> "coded", lag |-> 0, gap |-> FALSE]
  <2>1. IsFrame(f, c.subframes) /\ f.type \in Types /\ c.subframes \in {2, 4}
        /\ c.subframes \in 1 .. c.subframes
    BY <1>1, <1>4 DEF MayBe, IsFrame, ChannelType, SpeechType
  <2>2. /\ PitchToKeep(c, f) \in Int
        /\ 0 <= PitchToKeep(c, f) /\ PitchToKeep(c, f) <= LongestLag(c.khz) * 256
    BY <2>1, KeptFits
  <2>3. Heard(c, f)[c.subframes] \in Int /\ Heard(c, f)[c.subframes] <= LongestLag(c.khz)
    BY <1>1, <2>1, HeardFits
  <2>4. /\ ChannelType(good)
        /\ good.khz = c.khz /\ good.subframes = c.subframes
        /\ good.lagPrev = Heard(c, f)[c.subframes]
        /\ good.first = FALSE /\ good.nlsf = c.khz /\ good.losses = 0 /\ good.prev = f.type
        /\ good.plc.khz = c.khz /\ good.plc.pitch = PitchToKeep(c, f) /\ good.plc.lpc = c.khz
        /\ good.plc.lost = FALSE
        /\ good.cng.khz = c.khz /\ good.cng.learnt \in {Background(c), c.khz}
    BY <1>1, <2>1, <2>2, <2>3, GoodLeaves, ZenonT(60)
  <2>5. g = [good EXCEPT !.past = past]
    BY <1>4 DEF DecodeFrame
  <2>. HIDE DEF good
  <2>6. PastType(past) /\ past.gap = FALSE /\ past.was = "coded"
    BY DEF PastType
  <2>. HIDE DEF past
  <2>7. /\ ChannelType(g) /\ g.khz = c.khz /\ g.subframes = c.subframes
        /\ g.first = FALSE /\ g.nlsf = c.khz /\ g.losses = 0
        /\ g.lagPrev = good.lagPrev /\ g.plc = good.plc /\ g.cng = good.cng /\ g.past = past
    BY <2>4, <2>5, <2>6 DEF ChannelType, SpeechType
  <2>. HIDE DEF g
  <2>8. LagsKept(g)
    BY <2>2, <2>3, <2>4, <2>7 DEF LagsKept
  <2>9. FiltersKept(g)
    BY <1>2, <2>4, <2>7 DEF FiltersKept
  <2>10. LossKept(g)
    BY <2>4, <2>6, <2>7 DEF LossKept
  <2>. QED BY <2>6, <2>7, <2>8, <2>9, <2>10 DEF ChannelInv, g
<1>. QED BY <1>3, <1>4

RateHolds(part) ==
  (\A start \in part.starts : start > 0) /\ part.rates \subseteq {0, part.khz}

JoinHolds(part) ==
  /\ part.fades # 0 => part.from = [was |-> "voicedLoss", lag |-> part.fades, gap |-> FALSE]
  /\ part.as = "coded" => (part.glues <=> part.from.was \in {"loss", "voicedLoss"})

LEMMA PartHolds ==
  ASSUME NEW c, ChannelInv(c), c.khz \in Rates, NEW f, MayBe(f, c),
         c.past.gap => c.prev # "voiced"
  PROVE  RateHolds(Part(c, f)) /\ JoinHolds(Part(c, f)) /\ Part(c, f).from = c.past
<1>1. ChannelType(c) /\ LagsKept(c) /\ FiltersKept(c) /\ LossKept(c)
  BY DEF ChannelInv
<1>2. CASE f = NotCoded
  <2> DEFINE from == PlcReady(c).plc.pitch
  <2>1. Part(c, f) = LostPart(c)
    BY <1>2 DEF Part
  <2>2. from \in Int /\ 0 <= from /\ from <= LongestLag(c.khz) * 256
    BY <1>1, LostLeaves DEF PlcFits
  <2>. HIDE DEF from
  <2>3. Rounded(from) \in Int /\ Rounded(from) <= LongestLag(c.khz)
    BY <2>2, RoundedFits DEF Rates
  <2>4. Rewhitened(c.khz, Rounded(from)) > 0
    BY <2>3, StartsInside
  <2>5. {FilterToExtend(c), CngReady(c).cng.learnt} \subseteq {0, c.khz}
    <3>1. CngReady(c).cng.learnt \in {0, c.khz}
      BY <1>1, BackgroundFits, CngLeaves
    <3>2. FilterToExtend(c) \in {0, c.khz}
      BY <1>1 DEF FilterToExtend, FiltersKept, ChannelType, SpeechType
    <3>. QED BY <3>1, <3>2
  <2>6. RateHolds(LostPart(c))
    BY <2>4, <2>5 DEF RateHolds, LostPart, from
  <2>7. JoinHolds(LostPart(c)) /\ LostPart(c).from = c.past
    BY DEF JoinHolds, LostPart
  <2>. QED BY <2>1, <2>6, <2>7
<1>3. CASE f # NotCoded
  <2>1. Part(c, f) = GoodPart(c, f)
    BY <1>3 DEF Part
  <2>2. IsFrame(f, c.subframes) /\ f.type \in Types /\ c.subframes \in {2, 4}
        /\ c.subframes \in 1 .. c.subframes
    BY <1>1, <1>3 DEF MayBe, IsFrame, ChannelType, SpeechType
  <2>3. RateHolds(GoodPart(c, f))
    <3>1. ASSUME NEW k \in Starting(c, f) PROVE Rewhitened(c.khz, Heard(c, f)[k]) > 0
      <4>1. k \in 1 .. c.subframes
        BY DEF Starting
      <4>2. Heard(c, f)[k] \in Int /\ Heard(c, f)[k] <= LongestLag(c.khz)
        BY <1>1, <2>2, <4>1, HeardFits
      <4>. QED BY <4>2, StartsInside
    <3>2. Blends(c, f) => c.nlsf = c.khz
      BY <1>1 DEF Blends, FiltersKept
    <3>. QED BY <3>1, <3>2 DEF RateHolds, GoodPart
  <2>4. Good(c, f).plc.lost = FALSE
    <3>1. PitchToKeep(c, f) \in Int /\ Heard(c, f)[c.subframes] \in Int
      BY <1>1, <2>2, KeptFits, HeardFits
    <3>. QED BY <1>1, <2>2, <3>1, GoodLeaves
  <2>5. JoinHolds(GoodPart(c, f)) /\ GoodPart(c, f).from = c.past
    <3>1. GoodPart(c, f).glues = (c.plc.lost /\ ~Good(c, f).plc.lost)
          /\ GoodPart(c, f).from = c.past
          /\ GoodPart(c, f).fades = IF Fades(c, f) THEN c.lagPrev ELSE 0
      BY DEF GoodPart
    <3>2. GoodPart(c, f).glues <=> GoodPart(c, f).from.was \in {"loss", "voicedLoss"}
      BY <1>1, <2>4, <3>1 DEF LossKept
    <3>3. Fades(c, f) => c.past = [was |-> "voicedLoss", lag |-> c.lagPrev, gap |-> FALSE]
      <4>1. SUFFICES ASSUME Fades(c, f)
                     PROVE  c.past = [was |-> "voicedLoss", lag |-> c.lagPrev, gap |-> FALSE]
        OBVIOUS
      <4>2. c.past.was = "voicedLoss" /\ c.past.lag = c.lagPrev /\ ~c.past.gap
        BY <1>1, <4>1 DEF Fades, LossKept
      <4>. QED BY <1>1, <4>2 DEF ChannelType, PastType
    <3>. QED BY <3>1, <3>2, <3>3 DEF JoinHolds
  <2>. QED BY <2>1, <2>3, <2>5
<1>. QED BY <1>2, <1>3

(***************************************************************************)
(* What else is done to a channel.                                         *)
(***************************************************************************)
LEMMA InitialisedKept ==
  ASSUME NEW c, ChannelType(c)
  PROVE  LET g == Initialised(c) IN
         /\ ChannelInv(g) /\ g.khz = c.khz /\ g.subframes = c.subframes
         /\ g.past.gap = FALSE /\ g.prev = "inactive"
<1> DEFINE g == Initialised(c)
<1>1. /\ PlcType(NoPlc) /\ CngType(NoCng) /\ PastType(NoPast)
  BY DEF PlcType, CngType, PastType, NoPlc, NoCng, NoPast, NoRate
<1>2. /\ ChannelType(g) /\ g.khz = c.khz /\ g.subframes = c.subframes /\ g.lagPrev = 100
      /\ g.first = TRUE /\ g.losses = 0 /\ g.prev = "inactive"
      /\ g.plc = NoPlc /\ g.cng = NoCng /\ g.past = NoPast
  BY <1>1 DEF Initialised, ChannelType, SpeechType, Types
<1>3. c.khz \in Rates \cup {NoRate}
  BY DEF ChannelType, SpeechType
<1>. HIDE DEF g
<1>4. LagsKept(g)
  BY <1>2, <1>3 DEF LagsKept, LongestLag, NoPlc, Rates, NoRate
<1>5. FiltersKept(g) /\ LossKept(g) /\ g.past.gap = FALSE
  BY <1>2 DEF FiltersKept, LossKept, NoPlc, NoCng, NoPast
<1>. QED BY <1>2, <1>4, <1>5 DEF ChannelInv, g

LEMMA SideResetKept ==
  ASSUME NEW c, ChannelInv(c)
  PROVE  LET g == SideReset(c) IN
         /\ ChannelInv(g) /\ g.khz = c.khz /\ g.subframes = c.subframes
         /\ g.past = c.past /\ g.prev = "inactive"
<1> DEFINE g == SideReset(c)
<1>1. ChannelType(c) /\ LagsKept(c) /\ FiltersKept(c) /\ LossKept(c)
  BY DEF ChannelInv
<1>2. /\ ChannelType(g) /\ g.khz = c.khz /\ g.subframes = c.subframes /\ g.lagPrev = 100
      /\ g.first = TRUE /\ g.prev = "inactive" /\ g.losses = c.losses
      /\ g.plc = c.plc /\ g.cng = c.cng /\ g.past = c.past
  BY <1>1 DEF SideReset, ChannelType, SpeechType, Types
<1>3. c.khz \in Rates \cup {NoRate}
  BY <1>1 DEF ChannelType, SpeechType
<1>. HIDE DEF g
<1>4. LagsKept(g)
  BY <1>1, <1>2, <1>3 DEF LagsKept, LongestLag, Rates, NoRate
<1>5. FiltersKept(g) /\ LossKept(g)
  BY <1>1, <1>2 DEF FiltersKept, LossKept
<1>. QED BY <1>2, <1>4, <1>5 DEF ChannelInv, g

LEMMA AbsentKept ==
  ASSUME NEW c, ChannelInv(c)
  PROVE  LET g == Absent(c) IN
         ChannelInv(g) /\ g.khz = c.khz /\ g.subframes = c.subframes /\ g.prev = c.prev
<1> DEFINE past == [c.past EXCEPT !.gap = TRUE]
           g    == Absent(c)
<1>1. ChannelType(c) /\ LagsKept(c) /\ FiltersKept(c) /\ LossKept(c)
  BY DEF ChannelInv
<1>2. PastType(past) /\ past.was = c.past.was /\ past.lag = c.past.lag
  BY <1>1 DEF ChannelType, PastType
<1>3. g = [c EXCEPT !.past = past]
  BY <1>1 DEF Absent, ChannelType
<1>. HIDE DEF g, past
<1>4. /\ ChannelType(g) /\ g.khz = c.khz /\ g.subframes = c.subframes /\ g.lagPrev = c.lagPrev
      /\ g.first = c.first /\ g.nlsf = c.nlsf /\ g.prev = c.prev /\ g.losses = c.losses
      /\ g.plc = c.plc /\ g.cng = c.cng /\ g.past = past
  BY <1>1, <1>2, <1>3 DEF ChannelType, SpeechType
<1>5. LagsKept(g) /\ FiltersKept(g)
  BY <1>1, <1>4 DEF LagsKept, FiltersKept
<1>6. LossKept(g)
  BY <1>1, <1>2, <1>4 DEF LossKept
<1>. QED BY <1>4, <1>5, <1>6 DEF ChannelInv, g

LEMMA SubframesKept ==
  ASSUME NEW c, ChannelInv(c), NEW subframes \in {2, 4}
  PROVE  LET g == [c EXCEPT !.subframes = subframes] IN
         /\ ChannelInv(g) /\ g.khz = c.khz /\ g.subframes = subframes
         /\ g.past = c.past /\ g.prev = c.prev
<1> DEFINE g == [c EXCEPT !.subframes = subframes]
<1>1. ChannelType(c) /\ LagsKept(c) /\ FiltersKept(c) /\ LossKept(c)
  BY DEF ChannelInv
<1>2. /\ ChannelType(g) /\ g.khz = c.khz /\ g.subframes = subframes /\ g.lagPrev = c.lagPrev
      /\ g.first = c.first /\ g.nlsf = c.nlsf /\ g.prev = c.prev /\ g.losses = c.losses
      /\ g.plc = c.plc /\ g.cng = c.cng /\ g.past = c.past
  BY <1>1 DEF ChannelType, SpeechType
<1>. HIDE DEF g
<1>3. LagsKept(g) /\ FiltersKept(g)
  BY <1>1, <1>2 DEF LagsKept, FiltersKept
<1>4. LossKept(g)
  BY <1>1, <1>2 DEF LossKept
<1>. QED BY <1>2, <1>3, <1>4 DEF ChannelInv, g

LEMMA ShapedKept ==
  ASSUME NEW c, ChannelInv(c), NEW shape, shape.khz \in Rates, shape.subframes \in {2, 4}
  PROVE  LET g == Shaped(c, shape) IN
         /\ ChannelInv(g) /\ g.khz = shape.khz /\ g.subframes = shape.subframes
         /\ g.past = c.past /\ (g.prev = c.prev \/ g.prev = "inactive")
<1> DEFINE b == [c EXCEPT !.subframes = shape.subframes]
           g == Shaped(c, shape)
<1>1. /\ ChannelInv(b) /\ b.khz = c.khz /\ b.subframes = shape.subframes
      /\ b.past = c.past /\ b.prev = c.prev
  BY SubframesKept
<1>2. g = SetFs(b, shape.khz)
  BY DEF Shaped
<1>. HIDE DEF b
<1>3. CASE b.khz = shape.khz
  BY <1>1, <1>2, <1>3 DEF SetFs
<1>4. CASE b.khz # shape.khz
  <2>1. ChannelType(b) /\ LagsKept(b) /\ FiltersKept(b) /\ LossKept(b)
    BY <1>1 DEF ChannelInv
  <2>2. /\ ChannelType(g) /\ g.khz = shape.khz /\ g.subframes = b.subframes /\ g.lagPrev = 100
        /\ g.first = TRUE /\ g.prev = "inactive" /\ g.losses = b.losses
        /\ g.plc = b.plc /\ g.cng = b.cng /\ g.past = b.past
    BY <1>2, <1>4, <2>1 DEF SetFs, ChannelType, SpeechType, Types
  <2>. HIDE DEF g
  <2>3. LagsKept(g)
    BY <2>1, <2>2 DEF LagsKept, LongestLag, Rates
  <2>4. FiltersKept(g) /\ LossKept(g)
    BY <2>1, <2>2 DEF FiltersKept, LossKept
  <2>. QED BY <1>1, <2>2, <2>3, <2>4 DEF ChannelInv, g
<1>. QED BY <1>3, <1>4

(***************************************************************************)
(* The inductive invariant.  Each channel's, and: while the stream is      *)
(* stereo both channels have the rate of the packet; a side that was left  *)
(* out comes back from a reset, or had nothing periodic to fade; and       *)
(* nothing a stereo frame is unmixed onto is older than the last frame.    *)
(***************************************************************************)
StereoType ==
  /\ DOMAIN stereo = {"channels", "onlyMiddle", "mid", "side"}
  /\ stereo.channels \in {1, 2} /\ stereo.onlyMiddle \in BOOLEAN
  /\ stereo.mid \in {"none", "last"} /\ stereo.side \in {"none", "last", "older"}
  /\ Stereo => stereo.side # "older"

Fadeless(c) == c.past.gap => c.prev # "voiced"

ChannelsInv ==
  /\ DOMAIN ch = {1, 2} /\ ChannelInv(ch[1]) /\ ChannelInv(ch[2])
  /\ ~ch[1].past.gap
  /\ Stereo => /\ ch[1].khz \in Rates /\ ch[2].khz \in Rates
               /\ stereo.onlyMiddle \/ Fadeless(ch[2])

Takes(c, shape) == c.khz = shape.khz /\ c.subframes = shape.subframes

PacketInv ==
  packet # NoPacket =>
    /\ DOMAIN packet = {"how", "left", "shape"}
    /\ packet.how \in {"normal", "lbrr"} /\ packet.shape \in Shapes
    /\ Takes(ch[1], packet.shape)
    /\ Stereo => Takes(ch[2], packet.shape)

DidInv ==
  /\ \A part \in Parts : RateHolds(part) /\ JoinHolds(part)
  /\ ~did.mid.from.gap
  /\ "older" \notin did.ends

SilkInv == StereoType /\ ChannelsInv /\ PacketInv /\ DidInv

LEMMA NothingHolds ==
  /\ RateHolds(NothingDone) /\ JoinHolds(NothingDone) /\ ~NothingDone.from.gap
BY DEF RateHolds, JoinHolds, NothingDone, NoPast

LEMMA NothingSaidHolds ==
  ASSUME did' = NothingSaid PROVE DidInv'
<1>1. did'.mid = NothingDone /\ did'.side = NothingDone /\ did'.ends = {}
  BY DEF NothingSaid
<1>. QED BY <1>1, NothingHolds DEF DidInv, Parts

(***************************************************************************)
(* One frame, decoded or concealed: what cs has become is kept, and what   *)
(* it was made from holds.                                                 *)
(***************************************************************************)
LEMMA CallHolds ==
  ASSUME StereoType, NEW cs, DOMAIN cs = {1, 2}, ChannelInv(cs[1]), ChannelInv(cs[2]),
         cs[1].khz \in Rates, ~cs[1].past.gap,
         Stereo => cs[2].khz \in Rates /\ (stereo.onlyMiddle \/ Fadeless(cs[2])),
         NEW how \in {"normal", "lost", "lbrr"}, NEW mid, NEW side,
         MayBe(mid, cs[1]), Stereo => MayBe(side, cs[2]),
         NEW only \in OnlyMiddles(how, mid, side),
         DecodeCall(cs, how, mid, side, only)
  PROVE  /\ StereoType' /\ ChannelsInv' /\ DidInv' /\ Stereo' = Stereo
         /\ ch'[1].khz = cs[1].khz /\ ch'[1].subframes = cs[1].subframes
         /\ ch'[2].khz = cs[2].khz /\ ch'[2].subframes = cs[2].subframes
<1> DEFINE sided == HasSide(how, only, side)
           other == SideFor(cs[2], only)
           next2 == IF sided THEN DecodeFrame(other, side) ELSE Absent(other)
<1>1. only \in BOOLEAN
  BY DEF OnlyMiddles
<1>2. /\ ch' = [cs EXCEPT ![1] = DecodeFrame(cs[1], mid), ![2] = next2]
      /\ did' = [mid  |-> Part(cs[1], mid),
                 side |-> IF sided THEN Part(other, side) ELSE NothingDone,
                 ends |-> IF Stereo THEN {stereo.mid, stereo.side} ELSE {}]
      /\ stereo' = [Unmixed(how) EXCEPT !.onlyMiddle = IF how = "lost" THEN @ ELSE only]
  BY DEF DecodeCall
<1>3. /\ stereo'.channels = stereo.channels
      /\ stereo'.onlyMiddle = IF how = "lost" THEN stereo.onlyMiddle ELSE only
      /\ StereoType' /\ Stereo' = Stereo
  <2>1. CASE Stereo
    BY <1>1, <1>2, <2>1 DEF Unmixed, StereoType, Stereo
  <2>2. CASE ~Stereo
    BY <1>1, <1>2, <2>2 DEF Unmixed, StereoType, Stereo, AfterMono
  <2>. QED BY <2>1, <2>2
<1>4. /\ ChannelInv(other) /\ other.khz = cs[2].khz /\ other.subframes = cs[2].subframes
      /\ other.past = cs[2].past
      /\ Stereo /\ ~only /\ stereo.onlyMiddle => other.prev = "inactive"
      /\ ~(Stereo /\ ~only /\ stereo.onlyMiddle) => other = cs[2]
  BY SideResetKept DEF SideFor
<1>5. sided => Stereo
  BY DEF HasSide
<1>6. sided => Fadeless(other)
  <2>1. SUFFICES ASSUME sided, ~(Stereo /\ ~only /\ stereo.onlyMiddle) PROVE Fadeless(other)
    BY <1>4 DEF Fadeless
  <2>2. ~stereo.onlyMiddle
    <3>1. CASE how = "normal"
      BY <2>1, <3>1 DEF HasSide
    <3>2. CASE how # "normal"
      BY <2>1, <3>2, <1>1 DEF HasSide, OnlyMiddles
    <3>. QED BY <3>1, <3>2
  <2>. QED BY <1>4, <1>5, <2>1, <2>2
<1>7. /\ ChannelInv(DecodeFrame(cs[1], mid)) /\ DecodeFrame(cs[1], mid).khz = cs[1].khz
      /\ DecodeFrame(cs[1], mid).subframes = cs[1].subframes
      /\ DecodeFrame(cs[1], mid).past.gap = FALSE
  BY FrameKept
<1>8. /\ ChannelInv(next2) /\ next2.khz = cs[2].khz /\ next2.subframes = cs[2].subframes
      /\ Stereo => stereo'.onlyMiddle \/ Fadeless(next2)
  <2>1. CASE sided
    <3>1. other.khz \in Rates /\ MayBe(side, other)
      BY <1>4, <1>5, <2>1 DEF MayBe
    <3>2. /\ ChannelInv(DecodeFrame(other, side)) /\ DecodeFrame(other, side).khz = other.khz
          /\ DecodeFrame(other, side).subframes = other.subframes
          /\ DecodeFrame(other, side).past.gap = FALSE
      BY <1>4, <3>1, FrameKept, ZenonT(60)
    <3>. QED BY <1>4, <2>1, <3>2 DEF Fadeless
  <2>2. CASE ~sided
    <3>1. /\ ChannelInv(Absent(other)) /\ Absent(other).khz = other.khz
          /\ Absent(other).subframes = other.subframes /\ Absent(other).prev = other.prev
      BY <1>4, AbsentKept
    <3>2. Stereo => stereo'.onlyMiddle \/ other.prev # "voiced"
      <4>1. ASSUME Stereo, ~stereo'.onlyMiddle PROVE other.prev # "voiced"
        <5>1. CASE how = "normal"
          BY <1>3, <2>2, <4>1, <5>1 DEF HasSide
        <5>2. CASE how = "lost"
          BY <1>3, <2>2, <4>1, <5>2 DEF HasSide
        <5>3. CASE how = "lbrr"
          BY <1>3, <1>4, <2>2, <4>1, <5>3 DEF HasSide
        <5>. QED BY <5>1, <5>2, <5>3
      <4>. QED BY <4>1
    <3>. QED BY <1>4, <2>2, <3>1, <3>2 DEF Fadeless
  <2>. QED BY <2>1, <2>2
<1>9. ch'[1] = DecodeFrame(cs[1], mid) /\ ch'[2] = next2 /\ DOMAIN ch' = {1, 2}
  BY <1>2
<1>. HIDE DEF next2
<1>10. ChannelsInv'
  <2>1. Stereo' => ch'[1].khz \in Rates /\ ch'[2].khz \in Rates
    BY <1>3, <1>7, <1>8, <1>9
  <2>2. Stereo' => stereo'.onlyMiddle \/ Fadeless(ch'[2])
    BY <1>3, <1>8, <1>9
  <2>. QED BY <1>7, <1>8, <1>9, <2>1, <2>2 DEF ChannelsInv, Fadeless
<1>11. DidInv'
  <2>1. RateHolds(did'.mid) /\ JoinHolds(did'.mid) /\ ~did'.mid.from.gap
    BY <1>2, PartHolds
  <2>2. RateHolds(did'.side) /\ JoinHolds(did'.side)
    <3>1. CASE sided
      <4>1. other.khz \in Rates /\ MayBe(side, other)
        BY <1>4, <1>5, <3>1 DEF MayBe
      <4>. QED BY <1>2, <1>4, <1>6, <3>1, <4>1, PartHolds DEF Fadeless
    <3>2. CASE ~sided
      BY <1>2, <3>2, NothingHolds
    <3>. QED BY <3>1, <3>2
  <2>3. "older" \notin did'.ends
    BY <1>2 DEF StereoType
  <2>. QED BY <2>1, <2>2, <2>3 DEF DidInv, Parts
<1>. QED BY <1>3, <1>7, <1>8, <1>9, <1>10, <1>11

(***************************************************************************)
(* The steps.                                                              *)
(***************************************************************************)
LEMMA SilkInitInv == SilkInit => SilkInv
<1>. SUFFICES ASSUME SilkInit PROVE SilkInv
  OBVIOUS
<1> DEFINE blank == [khz |-> 0, subframes |-> 4, lagPrev |-> 100, first |-> TRUE, nlsf |-> 0,
                     losses |-> 0, prev |-> "inactive", plc |-> NoPlc, cng |-> NoCng,
                     past |-> NoPast]
<1>1. ChannelType(blank)
  <2>1. PlcType(NoPlc) /\ CngType(NoCng) /\ PastType(NoPast)
    BY DEF PlcType, CngType, PastType, NoPlc, NoCng, NoPast, NoRate
  <2>. QED BY <2>1 DEF ChannelType, SpeechType, Types, NoRate
<1>. HIDE DEF blank
<1>2. NewChannel = Initialised(blank)
  BY DEF NewChannel, blank
<1>3. ChannelInv(NewChannel) /\ NewChannel.past.gap = FALSE
  BY <1>1, <1>2, InitialisedKept
<1>4. stereo = NewStereo /\ ~Stereo /\ StereoType
  BY DEF SilkInit, NewStereo, StereoType, Stereo
<1>5. ch = [n \in 1 .. 2 |-> NewChannel] /\ 1 .. 2 = {1, 2}
  BY DEF SilkInit
<1>6. ChannelsInv
  BY <1>3, <1>4, <1>5 DEF ChannelsInv
<1>7. PacketInv
  BY DEF SilkInit, PacketInv
<1>8. DidInv
  <2>1. did.mid = NothingDone /\ did.side = NothingDone /\ did.ends = {}
    BY DEF SilkInit, NothingSaid
  <2>. QED BY <2>1, NothingHolds DEF DidInv, Parts
<1>. QED BY <1>4, <1>6, <1>7, <1>8 DEF SilkInv

LEMMA StartInv ==
  ASSUME SilkInv, NEW shape \in Shapes, NEW count \in 1 .. 2, NEW how \in {"normal", "lbrr"},
         Start(shape, count, how)
  PROVE  SilkInv'
<1> DEFINE mid  == Shaped(ch[1], shape)
           side == IF count = 2 THEN Shaped(SideOf(count), shape) ELSE ch[2]
<1>1. StereoType /\ ChannelsInv /\ PacketInv
  BY DEF SilkInv
<1>2. /\ packet' = [how |-> how, left |-> shape.frames, shape |-> shape]
      /\ stereo' = Switched(count) /\ did' = NothingSaid
      /\ ch' = [ch EXCEPT ![1] = mid, ![2] = side]
  BY DEF Start
<1>3. shape.khz \in Rates /\ shape.subframes \in {2, 4}
  BY SilkAssumption
<1>4. /\ stereo'.channels = count /\ stereo'.onlyMiddle = stereo.onlyMiddle
      /\ StereoType' /\ (Stereo' <=> count = 2)
  BY <1>1, <1>2 DEF Switched, StereoType, Stereo
<1>5. /\ ChannelInv(mid) /\ Takes(mid, shape) /\ mid.past = ch[1].past
  BY <1>1, <1>3, ShapedKept DEF ChannelsInv, Takes
<1>6. /\ ChannelInv(side)
      /\ count = 2 => Takes(side, shape) /\ (stereo.onlyMiddle \/ Fadeless(side))
  <2>1. CASE count # 2
    BY <1>1, <2>1 DEF ChannelsInv
  <2>2. CASE count = 2
    <3> DEFINE before == SideOf(count)
    <3>1. ChannelInv(before) /\ (stereo.onlyMiddle \/ Fadeless(before))
      <4>1. CASE count > stereo.channels
        <5>1. before = Initialised(ch[2]) /\ ChannelType(ch[2])
          BY <1>1, <4>1 DEF SideOf, ChannelsInv, ChannelInv
        <5>. QED BY <5>1, InitialisedKept DEF Fadeless
      <4>2. CASE ~(count > stereo.channels)
        <5>1. before = ch[2] /\ Stereo
          BY <1>1, <2>2, <4>2 DEF SideOf, StereoType, Stereo
        <5>. QED BY <1>1, <5>1 DEF ChannelsInv
      <4>. QED BY <4>1, <4>2
    <3>2. side = Shaped(before, shape)
      BY <2>2
    <3>. HIDE DEF before, side
    <3>3. /\ ChannelInv(side) /\ side.khz = shape.khz /\ side.subframes = shape.subframes
          /\ side.past = before.past /\ (side.prev = before.prev \/ side.prev = "inactive")
      BY <1>3, <3>1, <3>2, ShapedKept
    <3>. QED BY <3>1, <3>3 DEF Takes, Fadeless
  <2>. QED BY <2>1, <2>2
<1>. HIDE DEF mid, side
<1>7. ch'[1] = mid /\ ch'[2] = side /\ DOMAIN ch' = {1, 2}
  BY <1>1, <1>2 DEF ChannelsInv
<1>8. ChannelsInv'
  BY <1>1, <1>3, <1>4, <1>5, <1>6, <1>7 DEF ChannelsInv, Takes
<1>9. PacketInv'
  BY <1>2, <1>4, <1>5, <1>6, <1>7 DEF PacketInv
<1>. QED BY <1>2, <1>4, <1>8, <1>9, NothingSaidHolds DEF SilkInv

LEMMA FrameInv ==
  ASSUME SilkInv, Frame
  PROVE  SilkInv'
<1>1. StereoType /\ ChannelsInv /\ PacketInv /\ packet # NoPacket
  BY DEF SilkInv, Frame
<1>2. /\ packet.how \in {"normal", "lbrr"} /\ packet.shape \in Shapes
      /\ DOMAIN packet = {"how", "left", "shape"}
      /\ Takes(ch[1], packet.shape) /\ (Stereo => Takes(ch[2], packet.shape))
  BY <1>1 DEF PacketInv
<1>3. packet.shape.khz \in Rates /\ packet.shape.subframes \in {2, 4}
  BY <1>2, SilkAssumption
<1>4. PICK mid \in Coded(1), side \in IF Stereo THEN Coded(2) ELSE {NotCoded} :
        \E only \in OnlyMiddles(packet.how, mid, side) :
          DecodeCall(ch, packet.how, mid, side, only)
  BY DEF Frame
<1>5. PICK only \in OnlyMiddles(packet.how, mid, side) :
        DecodeCall(ch, packet.how, mid, side, only)
  BY <1>4
<1>6. ASSUME NEW n \in 1 .. 2, NEW f \in Coded(n), Takes(ch[n], packet.shape)
      PROVE  MayBe(f, ch[n])
  <2>1. f \in Spoken(n, packet.shape) \/ f = NotCoded
    BY DEF Coded
  <2>2. CASE f \in Spoken(n, packet.shape)
    BY <1>2, <1>6, <2>2, SilkAssumption DEF MayBe, Takes
  <2>. QED BY <2>1, <2>2 DEF MayBe
<1>7. MayBe(mid, ch[1]) /\ (Stereo => MayBe(side, ch[2]))
  BY <1>2, <1>4, <1>6
<1>8. ch[1].khz \in Rates
  BY <1>2, <1>3 DEF Takes
<1>9. packet.how \in {"normal", "lost", "lbrr"}
  BY <1>2
<1>10. /\ StereoType' /\ ChannelsInv' /\ DidInv' /\ Stereo' = Stereo
       /\ ch'[1].khz = ch[1].khz /\ ch'[1].subframes = ch[1].subframes
       /\ ch'[2].khz = ch[2].khz /\ ch'[2].subframes = ch[2].subframes
  <2>1. /\ DOMAIN ch = {1, 2} /\ ChannelInv(ch[1]) /\ ChannelInv(ch[2]) /\ ~ch[1].past.gap
        /\ Stereo => ch[2].khz \in Rates /\ (stereo.onlyMiddle \/ Fadeless(ch[2]))
    BY <1>1 DEF ChannelsInv
  <2>. QED BY <1>1, <1>5, <1>7, <1>8, <1>9, <2>1, CallHolds
<1>11. packet' = NoPacket \/ packet' = [packet EXCEPT !.left = @ - 1]
  BY DEF Frame
<1>12. PacketInv'
  BY <1>2, <1>10, <1>11 DEF PacketInv, Takes
<1>. QED BY <1>10, <1>12 DEF SilkInv

LEMMA ConcealInv ==
  ASSUME SilkInv, NEW subframes \in {2, 4}, Conceal(subframes)
  PROVE  SilkInv'
<1> DEFINE cs == [n \in 1 .. 2 |-> IF n <= stereo.channels
                                   THEN [ch[n] EXCEPT !.subframes = subframes] ELSE ch[n]]
<1>1. StereoType /\ ChannelsInv /\ PacketInv
  BY DEF SilkInv
<1>2. /\ packet = NoPacket /\ packet' = NoPacket /\ ch[1].khz # 0
      /\ DecodeCall(cs, "lost", NotCoded, NotCoded, FALSE)
  BY DEF Conceal
<1>3. /\ DOMAIN cs = {1, 2}
      /\ cs[1] = [ch[1] EXCEPT !.subframes = subframes]
      /\ cs[2] = IF Stereo THEN [ch[2] EXCEPT !.subframes = subframes] ELSE ch[2]
  <2>1. 1 .. 2 = {1, 2} /\ 1 <= stereo.channels /\ (2 <= stereo.channels <=> Stereo)
    BY <1>1 DEF StereoType, Stereo
  <2>. QED BY <2>1
<1>. HIDE DEF cs
<1>4. /\ ChannelInv(cs[1]) /\ cs[1].khz = ch[1].khz /\ cs[1].past = ch[1].past
  <2>1. LET g == [ch[1] EXCEPT !.subframes = subframes]
        IN ChannelInv(g) /\ g.khz = ch[1].khz /\ g.past = ch[1].past
    BY <1>1, SubframesKept DEF ChannelsInv
  <2>. QED BY <1>3, <2>1
<1>5. ChannelInv(cs[2]) /\ cs[2].khz = ch[2].khz /\ (Fadeless(ch[2]) => Fadeless(cs[2]))
  <2>1. CASE Stereo
    <3>1. LET g == [ch[2] EXCEPT !.subframes = subframes]
          IN ChannelInv(g) /\ g.khz = ch[2].khz /\ g.past = ch[2].past /\ g.prev = ch[2].prev
      BY <1>1, SubframesKept DEF ChannelsInv
    <3>. QED BY <1>3, <2>1, <3>1 DEF Fadeless
  <2>2. CASE ~Stereo
    BY <1>1, <1>3, <2>2 DEF ChannelsInv
  <2>. QED BY <2>1, <2>2
<1>6. cs[1].khz \in Rates /\ ~cs[1].past.gap
  BY <1>1, <1>2, <1>4 DEF ChannelsInv, ChannelInv, ChannelType, SpeechType, NoRate
<1>7. FALSE \in OnlyMiddles("lost", NotCoded, NotCoded)
      /\ MayBe(NotCoded, cs[1]) /\ MayBe(NotCoded, cs[2])
  BY DEF OnlyMiddles, MayBe
<1>8. Stereo => cs[2].khz \in Rates /\ (stereo.onlyMiddle \/ Fadeless(cs[2]))
  BY <1>1, <1>5 DEF ChannelsInv
<1>9. StereoType' /\ ChannelsInv' /\ DidInv'
  BY <1>1, <1>2, <1>3, <1>4, <1>5, <1>6, <1>7, <1>8, CallHolds
<1>10. PacketInv'
  BY <1>2 DEF PacketInv
<1>. QED BY <1>9, <1>10 DEF SilkInv

LEMMA ResetAfterCeltInv ==
  ASSUME SilkInv, ResetAfterCelt
  PROVE  SilkInv'
<1>1. StereoType /\ ChannelsInv
  BY DEF SilkInv
<1>2. /\ packet' = NoPacket /\ did' = NothingSaid
      /\ stereo' = [NewStereo EXCEPT !.channels = stereo.channels]
      /\ ch' = [n \in 1 .. 2 |-> Initialised(ch[n])]
  BY DEF ResetAfterCelt
<1>3. StereoType' /\ Stereo' = Stereo
  BY <1>1, <1>2 DEF StereoType, NewStereo, Stereo
<1>4. DOMAIN ch' = {1, 2} /\ ch'[1] = Initialised(ch[1]) /\ ch'[2] = Initialised(ch[2])
  BY <1>2
<1>5. ASSUME NEW n \in {1, 2}
      PROVE  ChannelInv(ch'[n]) /\ ch'[n].khz = ch[n].khz /\ ch'[n].past.gap = FALSE
  <2> DEFINE c == ch[n]
  <2>1. ChannelType(c)
    BY <1>1 DEF ChannelsInv, ChannelInv
  <2>2. ch'[n] = Initialised(c)
    BY <1>4
  <2>. HIDE DEF c
  <2>3. /\ ChannelInv(Initialised(c)) /\ Initialised(c).khz = c.khz
        /\ Initialised(c).past.gap = FALSE
    BY <2>1, InitialisedKept
  <2>. QED BY <2>2, <2>3 DEF c
<1>6. ChannelsInv'
  BY <1>1, <1>3, <1>4, <1>5 DEF ChannelsInv, Fadeless
<1>7. PacketInv'
  BY <1>2 DEF PacketInv
<1>. QED BY <1>2, <1>3, <1>6, <1>7, NothingSaidHolds DEF SilkInv

LEMMA SilkStutter ==
  ASSUME SilkInv, UNCHANGED silkVars
  PROVE  SilkInv'
<1>1. UNCHANGED ch /\ UNCHANGED stereo /\ UNCHANGED packet /\ UNCHANGED did
  BY DEF silkVars
<1>2. StereoType' /\ ChannelsInv' /\ PacketInv' /\ DidInv'
  BY <1>1 DEF SilkInv, StereoType, Stereo, ChannelsInv, PacketInv, DidInv, Parts
<1>. QED BY <1>2 DEF SilkInv

LEMMA SilkInvariance == SilkSpec => []SilkInv
<1>1. ASSUME SilkInv, [SilkNext]_silkVars PROVE SilkInv'
  <2>1. ASSUME NEW shape \in Shapes, NEW count \in 1 .. 2, NEW how \in {"normal", "lbrr"},
               Start(shape, count, how)
        PROVE  SilkInv'
    BY <1>1, <2>1, StartInv
  <2>2. CASE Frame
    BY <1>1, <2>2, FrameInv
  <2>3. ASSUME NEW subframes \in {2, 4}, Conceal(subframes) PROVE SilkInv'
    BY <1>1, <2>3, ConcealInv
  <2>4. CASE ResetAfterCelt
    BY <1>1, <2>4, ResetAfterCeltInv
  <2>5. CASE UNCHANGED silkVars
    BY <1>1, <2>5, SilkStutter
  <2>. QED BY <1>1, <2>1, <2>2, <2>3, <2>4, <2>5 DEF SilkNext
<1>. QED BY <1>1, SilkInitInv, PTL DEF SilkSpec

(***************************************************************************)
(* The theorems.                                                           *)
(***************************************************************************)
(* At every rate and frame length, whatever lags are coded and whatever is *)
(* lost, long-term prediction starts inside its memory (the debug_asserts  *)
(* at plc.rs:231 and decode_core.rs:177), and filters, spectra and         *)
(* background are used at the rate they were coded at.                     *)
THEOREM LagsFitTheRate == SilkSpec => []KeepsToTheRate
<1>1. SilkInv => KeepsToTheRate
  BY DEF SilkInv, DidInv, RateHolds, KeepsToTheRate
<1>. QED BY <1>1, SilkInvariance, PTL

(* The frame after a loss is faded out of the pitch of the concealed frame *)
(* and brought down to its energy, and only then (decode_core.rs:125-133,  *)
(* silk_plc_glue_frames), on a side that comes and goes too.               *)
THEOREM LossesAreJoined == SilkSpec => []JoinedToTheLoss
<1>1. SilkInv => JoinedToTheLoss
  BY DEF SilkInv, DidInv, JoinHolds, JoinedToTheLoss
<1>. QED BY <1>1, SilkInvariance, PTL

(* A stereo frame is unmixed onto the ends of the frames just before it    *)
(* (dec_api.rs:345-351), however often the stream goes mono and back.      *)
THEOREM EndsAreRecent == SilkSpec => []UnmixedOntoTheLast
<1>1. SilkInv => UnmixedOntoTheLast
  BY DEF SilkInv, DidInv, UnmixedOntoTheLast
<1>. QED BY <1>1, SilkInvariance, PTL

(***************************************************************************)
(*                              CeltHistory                                *)
(***************************************************************************)
(***************************************************************************)
(* The decoder's fields, and what a frame, received or lost, leaves in     *)
(* them.                                                                   *)
(***************************************************************************)
IsDecoder(d) ==
  DOMAIN d = {"start", "memory", "post", "tail", "fold", "old", "now", "loss", "plc", "skip",
              "last", "lag"}

LEMMA NewDecoderFields ==
  /\ IsDecoder(NewDecoder)
  /\ NewDecoder.start = 0 /\ NewDecoder.memory = NewDecoder.post
  /\ NewDecoder.tail = Overlap /\ NewDecoder.fold = FALSE
  /\ NewDecoder.old = Off /\ NewDecoder.now = Off
  /\ NewDecoder.loss = 0 /\ NewDecoder.skip = TRUE /\ NewDecoder.last = "none"
BY DEF NewDecoder, IsDecoder

LEMMA OpenedFields ==
  ASSUME NEW d, IsDecoder(d), NEW f
  PROVE  LET o == Opened(d, f)
         IN /\ IsDecoder(o) /\ o.start = d.start /\ o.tail = d.tail /\ o.fold = d.fold
            /\ o.old = d.old /\ o.now = IF f.start # 1 THEN Off ELSE d.now
            /\ o.memory = d.memory /\ o.post = d.post
            /\ o.loss = d.loss /\ o.skip = d.skip /\ o.last = d.last
BY DEF Opened, IsDecoder

LEMMA TrustedFields ==
  ASSUME NEW d, IsDecoder(d)
  PROVE  LET o == Trusted(d)
         IN /\ IsDecoder(o) /\ o.start = d.start /\ o.tail = d.tail /\ o.fold = d.fold
            /\ o.old = d.old /\ o.now = d.now /\ o.memory = d.memory /\ o.post = d.post
            /\ o.loss = d.loss /\ o.last = d.last
            /\ o.skip = IF d.loss = 0 THEN FALSE ELSE d.skip
BY DEF Trusted, IsDecoder

LEMMA DecodedFields ==
  ASSUME NEW d, IsDecoder(d), NEW f
  PROVE  LET r == Decoded(d, f)
         IN /\ IsDecoder(r) /\ r.start = f.start
            /\ r.memory = Slid(d.memory, f.blocks) /\ r.post = Slid(d.post, f.blocks)
            /\ r.tail = Overlap /\ r.fold = FALSE
            /\ Longer(f) => r.old = Signalled(f)
            /\ ~Longer(f) => r.old = Opened(d, f).now
            /\ r.now = Signalled(f) /\ r.loss = 0 /\ r.last = "normal"
            /\ r.skip = IF d.loss = 0 THEN FALSE ELSE d.skip
<1>. DEFINE q == Trusted(d)
            o == Opened(q, f)
            r == Decoded(d, f)
<1>1. /\ IsDecoder(q) /\ q.memory = d.memory /\ q.post = d.post /\ q.now = d.now
      /\ q.skip = IF d.loss = 0 THEN FALSE ELSE d.skip
  BY TrustedFields
<1>. HIDE DEF q
<1>2. /\ IsDecoder(o) /\ o.memory = q.memory /\ o.post = q.post /\ o.skip = q.skip
      /\ o.now = IF f.start # 1 THEN Off ELSE q.now
  BY <1>1, OpenedFields
<1>3. o.now = Opened(d, f).now
  BY <1>1, <1>2, OpenedFields
<1>4. r = [o EXCEPT !.start = f.start, !.memory = Slid(o.memory, f.blocks),
                    !.post = Slid(o.post, f.blocks), !.tail = Overlap, !.fold = FALSE,
                    !.old = IF Longer(f) THEN Signalled(f) ELSE o.now, !.now = Signalled(f),
                    !.loss = 0, !.plc = 0, !.last = "normal"]
  BY DEF Decoded, q
<1>. HIDE DEF o, r
<1>5. /\ IsDecoder(r) /\ r.start = f.start /\ r.tail = Overlap /\ r.fold = FALSE
      /\ r.memory = Slid(o.memory, f.blocks) /\ r.post = Slid(o.post, f.blocks)
  BY <1>2, <1>4 DEF IsDecoder
<1>6. /\ r.old = IF Longer(f) THEN Signalled(f) ELSE o.now
      /\ r.now = Signalled(f) /\ r.loss = 0 /\ r.last = "normal" /\ r.skip = o.skip
  BY <1>2, <1>4 DEF IsDecoder
<1>. QED
  BY <1>1, <1>2, <1>3, <1>5, <1>6 DEF r

LEMMA ConcealedFields ==
  ASSUME NEW d, IsDecoder(d), NEW blocks
  PROVE  LET r == CeltConcealed(d, blocks)
         IN /\ IsDecoder(r) /\ r.start = d.start /\ r.post = r.memory /\ r.now = d.now
            /\ r.loss = d.loss + blocks
            /\ IF NoiseBased(d)
               THEN /\ r.tail = Overlap /\ r.fold = FALSE /\ r.skip = TRUE
                    /\ r.last = "noise"
               ELSE /\ r.tail = Raw /\ r.fold = TRUE /\ r.skip = d.skip
                    /\ r.last = "periodic" /\ r.lag = Lag(d)
<1>. DEFINE r == CeltConcealed(d, blocks)
<1>1. CASE NoiseBased(d)
  <2>. DEFINE o == Noise(d, blocks)
  <2>1. /\ IsDecoder(o) /\ o.start = d.start /\ o.now = d.now /\ o.loss = d.loss
        /\ o.tail = Overlap /\ o.fold = FALSE /\ o.skip = TRUE /\ o.last = "noise"
    BY DEF Noise, IsDecoder
  <2>2. r = Lasted(Refreshed(o), blocks)
    BY <1>1 DEF CeltConcealed
  <2>. HIDE DEF o, r
  <2>3. /\ IsDecoder(r) /\ r.start = o.start /\ r.post = r.memory /\ r.now = o.now
        /\ r.loss = o.loss + blocks /\ r.tail = o.tail /\ r.fold = o.fold
        /\ r.skip = o.skip /\ r.last = o.last
    BY <2>1, <2>2 DEF Lasted, Refreshed, IsDecoder
  <2>. QED
    BY <1>1, <2>1, <2>3 DEF r
<1>2. CASE ~NoiseBased(d)
  <2>. DEFINE o == Periodic(d, blocks)
  <2>1. /\ IsDecoder(o) /\ o.start = d.start /\ o.now = d.now /\ o.loss = d.loss
        /\ o.tail = Raw /\ o.fold = TRUE /\ o.skip = d.skip /\ o.last = "periodic"
        /\ o.lag = Lag(d)
    BY DEF Periodic, IsDecoder
  <2>2. r = Lasted(Refreshed(o), blocks)
    BY <1>2 DEF CeltConcealed
  <2>. HIDE DEF o, r
  <2>3. /\ IsDecoder(r) /\ r.start = o.start /\ r.post = r.memory /\ r.now = o.now
        /\ r.loss = o.loss + blocks /\ r.tail = o.tail /\ r.fold = o.fold
        /\ r.skip = o.skip /\ r.last = o.last /\ r.lag = o.lag
    BY <2>1, <2>2 DEF Lasted, Refreshed, IsDecoder
  <2>. QED
    BY <1>2, <2>1, <2>3 DEF r
<1>. QED
  BY <1>1, <1>2

DecoderKept == IsDecoder(dec) /\ DOMAIN link = {"row", "noisy", "heard"}

LEMMA DecoderForFields ==
  ASSUME DecoderKept, NEW f
  PROVE  /\ IsDecoder(DecoderFor(f))
         /\ DecoderFor(f) = NewDecoder \/ DecoderFor(f) = dec
BY NewDecoderFields DEF DecoderKept, DecoderFor

(* A step sends one frame, which arrives, is concealed or comes too early  *)
(* to be.                                                                  *)
LEMMA DecoderStep == DecoderKept /\ [CeltNext]_celtVars => DecoderKept'
<1>. SUFFICES ASSUME DecoderKept, [CeltNext]_celtVars PROVE DecoderKept'
  OBVIOUS
<1>1. ASSUME NEW f \in CeltFrames, Receive(f) PROVE DecoderKept'
  BY <1>1, DecoderForFields, DecodedFields DEF Receive, DecoderKept
<1>2. ASSUME NEW f \in CeltFrames, CeltConceal(f) PROVE DecoderKept'
  BY <1>2, ConcealedFields DEF CeltConceal, DecoderKept
<1>3. CASE LoseFirst \/ UNCHANGED celtVars
  BY <1>3 DEF LoseFirst, celtVars, DecoderKept
<1>. QED
  BY <1>1, <1>2, <1>3 DEF CeltNext

(***************************************************************************)
(* The overlap.  It is raw exactly when it is to be folded, and it has not *)
(* been folded yet.                                                        *)
(***************************************************************************)
ToBeFolded(d) == d.tail = IF d.fold THEN Raw ELSE Overlap

OverlapInv == ToBeFolded(dec) /\ OverlapsWithTheFolded

LEMMA FoldedOnce ==
  ASSUME NEW d, ToBeFolded(d)
  PROVE  IF Folded(d).raw
         THEN Folded(d).folds = 1 /\ Folded(d).off = Faded(d.old, d.now)
         ELSE Folded(d).folds = 0
<1>1. CASE d.fold
  <2>1. Folded(d) = [Raw EXCEPT !.folds = @ + 1, !.off = Faded(d.old, d.now)]
    BY <1>1 DEF Folded, ToBeFolded
  <2>. QED
    BY <2>1 DEF Raw
<1>2. CASE ~d.fold
  <2>1. Folded(d) = Overlap
    BY <1>2 DEF Folded, ToBeFolded
  <2>. QED
    BY <2>1 DEF Overlap
<1>. QED
  BY <1>1, <1>2

LEMMA OverlapStep ==
  DecoderKept /\ OverlapInv /\ [CeltNext]_celtVars => OverlapInv'
<1>. SUFFICES ASSUME DecoderKept, OverlapInv, [CeltNext]_celtVars PROVE OverlapInv'
  OBVIOUS
<1>1. ASSUME NEW f \in CeltFrames, Receive(f) PROVE OverlapInv'
  <2>. DEFINE d == Opened(DecoderFor(f), f)
  <2>1. IsDecoder(DecoderFor(f)) /\ ToBeFolded(DecoderFor(f))
    BY DecoderForFields, NewDecoderFields DEF OverlapInv, ToBeFolded
  <2>2. ToBeFolded(d)
    BY <2>1, OpenedFields DEF ToBeFolded
  <2>3. /\ IsDecoder(dec') /\ dec'.tail = Overlap /\ dec'.fold = FALSE
    BY <1>1, <2>1, DecodedFields DEF Receive
  <2>4. celtDid'.tail = Folded(d) /\ celtDid'.on = Faded(d.old, d.now)
    <3>. HIDE DEF d
    <3>. QED
      BY <1>1 DEF Receive, Synthesised, NothingJoined, d
  <2>. HIDE DEF d
  <2>5. OverlapsWithTheFolded'
    BY <2>2, <2>4, FoldedOnce DEF OverlapsWithTheFolded
  <2>. QED
    BY <2>3, <2>5 DEF OverlapInv, ToBeFolded
<1>2. ASSUME NEW f \in CeltFrames, CeltConceal(f) PROVE OverlapInv'
  <2>1. ToBeFolded(dec')
    BY <1>2, ConcealedFields DEF CeltConceal, DecoderKept, ToBeFolded
  <2>2. \/ celtDid'.tail = Folded(dec) /\ celtDid'.on = Faded(dec.old, dec.now)
        \/ celtDid'.tail = Overlap
    BY <1>2 DEF CeltConceal, Synthesised, NothingJoined
  <2>3. OverlapsWithTheFolded'
    <3>1. Overlap.raw = FALSE /\ Overlap.folds = 0
      BY DEF Overlap
    <3>. QED
      BY <2>2, <3>1, FoldedOnce DEF OverlapInv, OverlapsWithTheFolded
  <2>. QED
    BY <2>1, <2>3 DEF OverlapInv, ToBeFolded
<1>3. CASE LoseFirst \/ UNCHANGED celtVars
  BY <1>3 DEF LoseFirst, celtVars, OverlapInv, ToBeFolded, OverlapsWithTheFolded
<1>. QED
  BY <1>1, <1>2, <1>3 DEF CeltNext

LEMMA InitDecoder == CeltInit => DecoderKept
BY NewDecoderFields DEF CeltInit, DecoderKept

LEMMA InitOverlap == CeltInit => OverlapInv
BY NewDecoderFields
DEF CeltInit, OverlapInv, ToBeFolded, OverlapsWithTheFolded, NothingJoined, Overlap

(* Every synthesis overlaps with a block that was folded if it was left    *)
(* raw, and only then, once, and with the filter taken off that the        *)
(* synthesis puts on again: for every sequence of frames, switches and     *)
(* losses.                                                                 *)
THEOREM OverlapsAreFolded == CeltSpec => []OverlapsWithTheFolded
<1>1. OverlapInv => OverlapsWithTheFolded
  BY DEF OverlapInv
<1>. QED
  BY InitDecoder, DecoderStep, InitOverlap, OverlapStep, <1>1, PTL DEF CeltSpec

(***************************************************************************)
(* Concealment.  While pitch is trusted there was no noise since two       *)
(* packets in a row, and what the next lag is taken from is what was       *)
(* heard; a frame that arrives right after another ends the noise.         *)
(***************************************************************************)
HeardBy(d) ==
  /\ d.last = "normal" => d.memory = link.heard
  /\ d.last = "periodic" => d.lag = link.heard

PitchTrusted ==
  /\ HeardBy(dec)
  /\ ~dec.skip => dec.last \in {"normal", "periodic"} /\ ~link.noisy
  /\ dec.loss = 0 => link.row # 0 \/ ~link.noisy
  /\ dec.start = 0 => dec.skip /\ dec.loss = 0 /\ ~link.noisy
  /\ dec.loss \in Nat

PitchInv == PitchTrusted /\ PitchOfWhatWasHeard

LEMMA InitPitch == CeltInit => PitchInv
BY NewDecoderFields
DEF CeltInit, PitchInv, PitchTrusted, HeardBy, PitchOfWhatWasHeard, NothingJoined

LEMMA PitchStep ==
  DecoderKept /\ PitchInv /\ [CeltNext]_celtVars => PitchInv'
<1>. SUFFICES ASSUME DecoderKept, PitchInv, [CeltNext]_celtVars PROVE PitchInv'
  OBVIOUS
<1>1. ASSUME NEW f \in CeltFrames, Receive(f) PROVE PitchInv'
  <2>. DEFINE d == DecoderFor(f)
  <2>1. f.start \in {1, 2}
    BY CeltAssumption
  <2>2. IsDecoder(d) /\ (Switches(f) => d = NewDecoder) /\ (~Switches(f) => d = dec)
    BY DecoderForFields DEF DecoderFor
  <2>3. /\ dec' = Decoded(d, f) /\ link'.heard = dec'.memory /\ link'.row # 0
        /\ link'.noisy = (link.noisy /\ ~Switches(f) /\ link.row = 0)
        /\ celtDid'.as = "decoded"
    BY <1>1 DEF Receive, Synthesised, NothingJoined
  <2>. HIDE DEF d
  <2>4. /\ dec'.start = f.start /\ dec'.loss = 0 /\ dec'.last = "normal"
        /\ dec'.skip = IF d.loss = 0 THEN FALSE ELSE d.skip
    <3>1. IsDecoder(d) /\ dec' = Decoded(d, f)
      BY <2>2, <2>3
    <3>. QED
      BY <3>1, DecodedFields, ZenonT(60)
  <2>5. ~dec'.skip => ~link'.noisy
    <3>1. CASE Switches(f)
      BY <2>3, <3>1
    <3>2. CASE ~Switches(f) /\ dec.loss = 0
      BY <2>3, <3>2 DEF PitchInv, PitchTrusted
    <3>3. CASE ~Switches(f) /\ dec.loss # 0
      BY <2>2, <2>3, <2>4, <3>3 DEF PitchInv, PitchTrusted
    <3>. QED
      BY <3>1, <3>2, <3>3
  <2>6. PitchTrusted'
    BY <2>1, <2>3, <2>4, <2>5 DEF PitchTrusted, HeardBy
  <2>. QED
    BY <2>3, <2>6 DEF PitchInv, PitchOfWhatWasHeard
<1>2. ASSUME NEW f \in CeltFrames, CeltConceal(f) PROVE PitchInv'
  <2>1. f.blocks \in Nat \ {0} /\ dec.loss \in Nat
    BY CeltAssumption DEF PitchInv, PitchTrusted
  <2>2. /\ dec.start # 0 /\ dec' = CeltConcealed(dec, f.blocks)
        /\ link'.heard = link.heard
        /\ link'.noisy = (link.noisy \/ dec'.last = "noise")
        /\ celtDid'.as = dec'.last /\ celtDid'.lag = dec'.lag
    BY <1>2 DEF CeltConceal, Synthesised, NothingJoined
  <2>3. /\ dec'.start = dec.start /\ dec'.loss = dec.loss + f.blocks
        /\ IF NoiseBased(dec)
           THEN dec'.skip = TRUE /\ dec'.last = "noise"
           ELSE dec'.skip = dec.skip /\ dec'.last = "periodic" /\ dec'.lag = Lag(dec)
    BY <2>2, ConcealedFields, ZenonT(60) DEF DecoderKept
  <2>4. CASE NoiseBased(dec)
    BY <2>1, <2>2, <2>3, <2>4 DEF PitchInv, PitchTrusted, HeardBy, PitchOfWhatWasHeard
  <2>5. CASE ~NoiseBased(dec)
    <3>1. ~dec.skip /\ dec.last \in {"normal", "periodic"} /\ ~link.noisy
      BY <2>5 DEF NoiseBased, PitchInv, PitchTrusted
    <3>2. dec'.lag = link.heard
      BY <2>3, <2>5, <3>1 DEF Lag, PitchInv, PitchTrusted, HeardBy
    <3>3. dec'.last = "periodic" /\ dec'.last # "noise" /\ dec'.skip = dec.skip
      BY <2>3, <2>5
    <3>4. ~link'.noisy
      BY <2>2, <3>1, <3>3
    <3>. QED
      BY <2>1, <2>2, <2>3, <3>2, <3>3, <3>4
      DEF PitchInv, PitchTrusted, HeardBy, PitchOfWhatWasHeard
  <2>. QED
    BY <2>4, <2>5
<1>3. CASE LoseFirst
  BY <1>3 DEF LoseFirst, PitchInv, PitchTrusted, HeardBy, PitchOfWhatWasHeard
<1>4. CASE UNCHANGED celtVars
  BY <1>4 DEF celtVars, PitchInv, PitchTrusted, HeardBy, PitchOfWhatWasHeard
<1>. QED
  BY <1>1, <1>2, <1>3, <1>4 DEF CeltNext

(* Pitch is extrapolated by a lag found in what was received last, and     *)
(* once there was noise only after two packets in a row.                   *)
THEOREM PitchIsOfWhatWasHeard == CeltSpec => []PitchOfWhatWasHeard
<1>1. PitchInv => PitchOfWhatWasHeard
  BY DEF PitchInv
<1>. QED
  BY InitDecoder, DecoderStep, InitPitch, PitchStep, <1>1, PTL DEF CeltSpec

(***************************************************************************)
(* The filters.  After a frame has arrived the decoder is to change from   *)
(* the encoder's setting; after two, it is also to take off what was put   *)
(* on the block that is still to come.                                     *)
(***************************************************************************)
RoomForAll == \A f \in CeltFrames : f.start = 1 => f.room

LastDone(e) == IF e.did = <<>> THEN Faded(Off, Off) ELSE e.did[Len(e.did)]

FiltersFollow ==
  /\ link.row \in 0 .. 2
  /\ enc.start # 1 => enc.filter = Off
  /\ enc.start # 2 => enc.memory = enc.past
  /\ enc.start = 0 => enc = NewEncoder
  /\ dec.start = 0 => dec = NewDecoder
  /\ link.row # 0 => dec.start = enc.start /\ dec.now = enc.filter
  /\ link.row = 2 => Faded(dec.old, dec.now) = LastDone(enc)

FilterInv == FiltersFollow /\ PostfilterUndoesPrefilter

LEMMA SignalledFact ==
  ASSUME RoomForAll, NEW f \in CeltFrames
  PROVE  /\ f.blocks \in Nat \ {0} /\ f.start \in {1, 2}
         /\ Gate(f) <=> f.start = 1
         /\ f.start # 1 => Signalled(f) = Off
BY CeltAssumption DEF RoomForAll, Gate, Signalled

LEMMA EncodedFields ==
  ASSUME NEW e, NEW f
  PROVE  LET r == Encoded(e, f)
         IN /\ r.start = f.start /\ r.filter = Signalled(f) /\ r.did = Applied(e, f)
            /\ r.memory = IF Gate(f) THEN Slid(e.memory, f.blocks) ELSE e.memory
            /\ r.past = Slid(e.past, f.blocks)
BY DEF Encoded

(* The filter put on each block of a frame.                                *)
LEMMA AppliedFact ==
  ASSUME RoomForAll, NEW f \in CeltFrames, NEW e, f.start # 1 => e.filter = Off
  PROVE  /\ DOMAIN Applied(e, f) = 1 .. f.blocks
         /\ Applied(e, f) = [j \in 1 .. f.blocks |-> Applied(e, f)[j]]
         /\ \A j \in 1 .. f.blocks :
              Applied(e, f)[j] = Faded(IF j = 1 THEN e.filter ELSE Signalled(f), Signalled(f))
<1>1. f.blocks \in Nat \ {0} /\ (Gate(f) <=> f.start = 1) /\ (f.start # 1 => Signalled(f) = Off)
  BY SignalledFact
<1>2. CASE Gate(f)
  <2>1. Signalled(f) = f.filter
    BY <1>2 DEF Signalled
  <2>2. Applied(e, f) = [j \in 1 .. f.blocks |-> Faded(IF j = 1 THEN e.filter ELSE f.filter, f.filter)]
    BY <1>2 DEF Applied
  <2>. QED
    BY <1>1, <2>1, <2>2
<1>3. CASE ~Gate(f)
  <2>1. Signalled(f) = Off /\ e.filter = Off
    BY <1>1, <1>3
  <2>2. Applied(e, f) = [j \in 1 .. f.blocks |-> Faded(Off, Off)]
    BY <1>3 DEF Applied
  <2>. QED
    BY <1>1, <2>1, <2>2
<1>. QED
  BY <1>2, <1>3

LEMMA LastDoneFact ==
  ASSUME RoomForAll, NEW f \in CeltFrames, NEW e, f.start # 1 => e.filter = Off
  PROVE  LastDone(Encoded(e, f)) =
           Faded(IF f.blocks = 1 THEN e.filter ELSE Signalled(f), Signalled(f))
<1>. DEFINE done == Applied(e, f)
<1>1. f.blocks \in Nat \ {0} /\ Encoded(e, f).did = done
  BY SignalledFact, EncodedFields
<1>2. /\ DOMAIN done = 1 .. f.blocks
      /\ done = [j \in 1 .. f.blocks |-> done[j]]
      /\ \A j \in 1 .. f.blocks :
              done[j] = Faded(IF j = 1 THEN e.filter ELSE Signalled(f), Signalled(f))
  BY AppliedFact
<1>. HIDE DEF done
<1>3. Len(done) = f.blocks /\ done # <<>>
  BY <1>1, <1>2
<1>4. f.blocks \in 1 .. f.blocks
  BY <1>1
<1>. QED
  BY <1>1, <1>2, <1>3, <1>4 DEF LastDone


LEMMA EncoderForFact ==
  ASSUME FilterInv, NEW f \in CeltFrames, f.start \in {1, 2}
  PROVE  LET e == EncoderFor(f)
         IN /\ f.start # 1 => e.filter = Off
            /\ f.start # 2 => e.memory = e.past
            /\ e.start = 0 => e.filter = Off /\ LastDone(e) = Faded(Off, Off)
            /\ e.start # 0 => e = enc /\ enc.start = f.start
<1>1. CASE EncoderFor(f) = enc /\ enc.start \in {0, f.start}
  BY <1>1 DEF FilterInv, FiltersFollow, NewEncoder, LastDone
<1>2. CASE EncoderFor(f) = NewEncoder
  BY <1>2 DEF NewEncoder, LastDone
<1>. QED
  BY <1>1, <1>2 DEF EncoderFor

(* Once two frames have arrived, or none was sent, the decoder takes off   *)
(* what the encoder puts on.                                               *)
LEMMA TakenOff ==
  ASSUME RoomForAll, NEW f \in CeltFrames, NEW e, f.start # 1 => e.filter = Off,
         NEW d, d.now = e.filter, Faded(d.old, d.now) = LastDone(e)
  PROVE  Removed(d, f) = Behind(e, f)
<1>. DEFINE done == Applied(e, f)
            all == <<LastDone(e)>> \o done
            n   == f.blocks
<1>1. n \in Nat \ {0}
  BY SignalledFact
<1>2. /\ DOMAIN done = 1 .. n
      /\ done = [j \in 1 .. n |-> done[j]]
      /\ \A j \in 1 .. n :
              done[j] = Faded(IF j = 1 THEN e.filter ELSE Signalled(f), Signalled(f))
  BY AppliedFact
<1>3. Behind(e, f) = SubSeq(all, 1, n)
  BY DEF Behind, LastDone
<1>. HIDE DEF done
<1>4. Len(done) = n /\ done \in Seq({done[j] : j \in 1 .. n})
  BY <1>1, <1>2, SMTT(30)
<1>5. /\ Len(all) = n + 1 /\ all[1] = LastDone(e)
      /\ \A j \in 2 .. n + 1 : all[j] = done[j - 1]
  BY <1>1, <1>4
<1>. HIDE DEF all
<1>6. SubSeq(all, 1, n) = [j \in 1 .. n |-> all[j]]
  BY <1>1
<1>7. ASSUME NEW j \in 1 .. n PROVE all[j] = Removed(d, f)[j]
  <2>1. CASE j = 1
    BY <1>5, <1>7, <2>1 DEF Removed
  <2>2. CASE j = 2
    <3>1. 2 \in 2 .. n + 1 /\ 1 \in 1 .. n /\ j - 1 = 1
      BY <1>1, <2>2
    <3>2. all[j] = done[1]
      BY <1>5, <2>2, <3>1
    <3>. QED
      BY <1>2, <1>7, <2>2, <3>1, <3>2 DEF Removed
  <2>3. CASE j # 1 /\ j # 2
    <3>1. j \in 2 .. n + 1 /\ j - 1 \in 1 .. n /\ j - 1 # 1
      BY <1>1, <2>3
    <3>2. all[j] = done[j - 1]
      BY <1>5, <3>1, Zenon
    <3>. QED
      BY <1>2, <1>7, <2>3, <3>1, <3>2 DEF Removed
  <2>. QED
    BY <2>1, <2>2, <2>3
<1>8. Removed(d, f) = [j \in 1 .. n |-> Removed(d, f)[j]]
  BY DEF Removed
<1>. QED
  BY <1>3, <1>6, <1>7, <1>8

LEMMA InitFilter == CeltInit => FilterInv
BY NewDecoderFields
DEF CeltInit, FilterInv, FiltersFollow, PostfilterUndoesPrefilter, NothingJoined,
    NewEncoder, LastDone

LEMMA ReceiveFilter ==
  ASSUME RoomForAll, DecoderKept, FilterInv, NEW f \in CeltFrames, Send(f), Receive(f)
  PROVE  FilterInv'
<1>. DEFINE e   == EncoderFor(f)
            d0  == DecoderFor(f)
            d   == Opened(d0, f)
            row == IF e.start = 0 THEN (IF d.start = 0 THEN 2 ELSE 0) ELSE link.row
<1>1. /\ f.blocks \in Nat \ {0} /\ f.start \in {1, 2} /\ (Gate(f) <=> f.start = 1)
      /\ f.start # 1 => Signalled(f) = Off
  BY SignalledFact
<1>2. /\ f.start # 1 => e.filter = Off
      /\ f.start # 2 => e.memory = e.past
      /\ e.start = 0 => e.filter = Off /\ LastDone(e) = Faded(Off, Off)
      /\ e.start # 0 => e = enc /\ enc.start = f.start
  BY <1>1, EncoderForFact
<1>3. /\ IsDecoder(d0) /\ d0.post = d0.memory
      /\ d0.start = 0 => d0.old = Off /\ d0.now = Off
      /\ dec.start = f.start => d0 = dec
  BY DecoderForFields, NewDecoderFields
  DEF DecoderFor, Switches, FilterInv, FiltersFollow, PostfilterUndoesPrefilter
<1>4. /\ d.start = d0.start /\ d.old = d0.old
      /\ d.now = IF f.start # 1 THEN Off ELSE d0.now
  BY <1>3, OpenedFields
<1>5. row # 0 => d.now = e.filter
  <2>1. CASE e.start = 0
    BY <1>2, <1>3, <1>4, <2>1
  <2>2. CASE e.start # 0
    BY <1>2, <1>3, <1>4, <2>2 DEF FilterInv, FiltersFollow
  <2>. QED
    BY <2>1, <2>2
<1>6. row = 2 => Faded(d.old, d.now) = LastDone(e)
  <2>1. CASE e.start = 0
    BY <1>2, <1>3, <1>4, <2>1
  <2>2. CASE e.start # 0
    <3>1. row = 2 => d0 = dec /\ dec.now = enc.filter /\ Faded(dec.old, dec.now) = LastDone(enc)
      BY <1>2, <1>3, <2>2 DEF FilterInv, FiltersFollow
    <3>2. row = 2 => d.now = dec.now
      BY <1>2, <1>4, <2>2, <3>1
    <3>. QED
      BY <1>2, <1>4, <2>2, <3>1, <3>2
  <2>. QED
    BY <2>1, <2>2
<1>7. /\ enc' = Encoded(e, f) /\ dec' = Decoded(d0, f)
      /\ celtDid' = [Synthesised(d) EXCEPT !.as = "decoded", !.removed = Removed(d, f),
                        !.applied = IF row = 2 THEN Behind(e, f) ELSE Removed(d, f),
                        !.looksBack = Signalled(f) = Off \/ e.memory = e.past]
      /\ link' = [row |-> IF row = 0 THEN 1 ELSE 2, heard |-> dec'.memory,
                  noisy |-> link.noisy /\ ~Switches(f) /\ link.row = 0]
  BY DEF Send, Receive
<1>. HIDE DEF e, d0, d, row
<1>8. /\ enc'.start = f.start /\ enc'.filter = Signalled(f)
      /\ f.start # 2 => enc'.memory = enc'.past
  BY <1>1, <1>2, <1>7, EncodedFields
<1>9. /\ dec'.start = f.start /\ dec'.now = Signalled(f) /\ dec'.post = dec'.memory
      /\ dec'.old = IF Longer(f) THEN Signalled(f) ELSE d.now
  <2>1. d = Opened(d0, f)
    BY DEF d
  <2>2. IsDecoder(d0) /\ d0.post = d0.memory /\ dec' = Decoded(d0, f)
    BY <1>3, <1>7
  <2>3. /\ Decoded(d0, f).start = f.start /\ Decoded(d0, f).now = Signalled(f)
        /\ Decoded(d0, f).memory = Slid(d0.memory, f.blocks)
        /\ Decoded(d0, f).post = Slid(d0.post, f.blocks)
    BY <2>2, DecodedFields, ZenonT(60)
  <2>4. CASE Longer(f)
    <3>1. Decoded(d0, f).old = Signalled(f)
      BY <2>2, <2>4, DecodedFields
    <3>. QED
      BY <2>2, <2>3, <2>4, <3>1
  <2>5. CASE ~Longer(f)
    <3>1. Decoded(d0, f).old = Opened(d0, f).now
      BY <2>2, <2>5, DecodedFields
    <3>. QED
      BY <2>1, <2>2, <2>3, <2>5, <3>1
  <2>. QED
    BY <2>4, <2>5
<1>10. link'.row = IF row = 0 THEN 1 ELSE 2
  BY <1>7
<1>11. link'.row = 2 => Faded(dec'.old, dec'.now) = LastDone(enc')
  <2>1. LastDone(enc') = Faded(IF f.blocks = 1 THEN e.filter ELSE Signalled(f), Signalled(f))
    BY <1>2, <1>7, LastDoneFact
  <2>2. Longer(f) <=> f.blocks # 1
    BY <1>1 DEF Longer
  <2>. QED
    BY <1>5, <1>9, <1>10, <2>1, <2>2
<1>12. FiltersFollow'
  BY <1>1, <1>8, <1>9, <1>10, <1>11 DEF FiltersFollow
<1>13. /\ celtDid'.removed = Removed(d, f)
       /\ celtDid'.applied = IF row = 2 THEN Behind(e, f) ELSE Removed(d, f)
       /\ celtDid'.looksBack = (Signalled(f) = Off \/ e.memory = e.past)
  BY <1>7 DEF Synthesised, NothingJoined
<1>14. celtDid'.removed = celtDid'.applied
  BY <1>2, <1>5, <1>6, <1>13, TakenOff
<1>15. celtDid'.looksBack
  <2>1. Signalled(f) = Off \/ e.memory = e.past
    BY <1>1, <1>2
  <2>. QED
    BY <1>13, <2>1
<1>16. PostfilterUndoesPrefilter'
  BY <1>9, <1>14, <1>15 DEF PostfilterUndoesPrefilter
<1>. QED
  BY <1>12, <1>16 DEF FilterInv

LEMMA LostFilter ==
  ASSUME RoomForAll, DecoderKept, FilterInv, NEW f \in CeltFrames, Send(f),
         CeltConceal(f) \/ LoseFirst
  PROVE  FilterInv'
<1>1. /\ f.start \in {1, 2} /\ (Gate(f) <=> f.start = 1)
      /\ f.start # 1 => Signalled(f) = Off
  BY SignalledFact
<1>2. /\ enc'.start = f.start /\ enc'.filter = Signalled(f)
      /\ f.start # 2 => enc'.memory = enc'.past
  <2>1. f.start # 2 => EncoderFor(f).memory = EncoderFor(f).past
    BY <1>1, EncoderForFact
  <2>2. enc' = Encoded(EncoderFor(f), f)
    BY DEF Send
  <2>. QED
    BY <1>1, <2>1, <2>2, EncodedFields
<1>3. link'.row = 0
  BY DEF CeltConceal, LoseFirst, DecoderKept
<1>4. /\ dec'.start = 0 => dec' = NewDecoder
      /\ dec'.post = dec'.memory
      /\ celtDid'.removed = celtDid'.applied /\ celtDid'.looksBack
  <2>1. CASE CeltConceal(f)
    <3>1. dec.start # 0 /\ dec'.start = dec.start /\ dec'.post = dec'.memory
      BY <2>1, ConcealedFields DEF CeltConceal, DecoderKept
    <3>2. celtDid'.removed = celtDid'.applied /\ celtDid'.looksBack
      BY <2>1 DEF CeltConceal, Synthesised, NothingJoined
    <3>. QED
      BY <3>1, <3>2
  <2>2. CASE LoseFirst
    BY <2>2 DEF LoseFirst, FilterInv, FiltersFollow, PostfilterUndoesPrefilter
  <2>. QED
    BY <2>1, <2>2
<1>. QED
  BY <1>1, <1>2, <1>3, <1>4 DEF FilterInv, FiltersFollow, PostfilterUndoesPrefilter

LEMMA FilterStep ==
  ASSUME RoomForAll
  PROVE  DecoderKept /\ FilterInv /\ [CeltNext]_celtVars => FilterInv'
<1>1. ASSUME DecoderKept, FilterInv, UNCHANGED celtVars PROVE FilterInv'
  BY <1>1 DEF celtVars, FilterInv, FiltersFollow, PostfilterUndoesPrefilter, LastDone
<1>. QED
  BY <1>1, ReceiveFilter, LostFilter DEF CeltNext

(* The postfilter takes off what the prefilter put on, when every frame    *)
(* that is all CELT's has room for a prefilter (starved of it, it does     *)
(* not), and both look back into what came just before.                    *)
THEOREM PostfilterIsTheInverse ==
  ASSUME RoomForAll
  PROVE  CeltSpec => []PostfilterUndoesPrefilter
<1>1. FilterInv => PostfilterUndoesPrefilter
  BY DEF FilterInv
<1>2. DecoderKept /\ FilterInv /\ [CeltNext]_celtVars => FilterInv'
  BY FilterStep
<1>. QED
  BY InitDecoder, DecoderStep, InitFilter, <1>1, <1>2, PTL DEF CeltSpec

(***************************************************************************)
(*                            DelayedDecision                              *)
(***************************************************************************)
(* NsqInv says why what is decided stays decided.  The ring of a candidate *)
(* holds its last samples, each with all that led up to it, and the gain   *)
(* noted in a slot is that of the sample's subframe.  All candidates that  *)
(* are on another path than the best one's, as far as it is decided, are   *)
(* behind it by the penalty less what the samples since the last decision  *)
(* can have cost (Spread each): too far to win.  And all that a lag can    *)
(* reach of what is decided is at the gain of the present subframe.        *)
(***************************************************************************)
NsqSample == [pulse : Int, rand : Seq(Int)]
NsqState == [seed : Int, rd : Int, rand : Seq(Int), ring : [Slots -> NsqSample]]

(* The first least of a measure is one of the candidates, and least; the   *)
(* first most is most.                                                     *)
LEMMA LeastIs ==
  ASSUME NEW m \in [Ids -> Int]
  PROVE /\ FirstLeast(m) \in Ids
        /\ \A j \in Ids : m[FirstLeast(m)] <= m[j]
<1> DEFINE Best(k) == \A j \in Ids : m[k] < m[j] \/ (m[k] = m[j] /\ k <= j)
<1>1. \E k \in Ids : Best(k)
  <2>1. CASE Candidates = 1
    BY <2>1 DEF Ids
  <2>2. CASE Candidates = 2
    BY <2>2 DEF Ids
  <2>3. CASE Candidates = 3
    BY <2>3 DEF Ids
  <2>4. CASE Candidates = 4
    BY <2>4 DEF Ids
  <2> QED BY <2>1, <2>2, <2>3, <2>4, CandidatesAssumption
<1> HIDE DEF Best
<1>2. Best(FirstLeast(m)) /\ FirstLeast(m) \in Ids
  BY <1>1 DEF Best, FirstLeast
<1>3. QED BY <1>2 DEF Best, Ids

LEMMA MostIs ==
  ASSUME NEW m \in [Ids -> Int]
  PROVE /\ FirstMost(m) \in Ids
        /\ \A j \in Ids : m[j] <= m[FirstMost(m)]
<1> DEFINE Worst(k) == \A j \in Ids : m[k] > m[j] \/ (m[k] = m[j] /\ k <= j)
<1>1. \E k \in Ids : Worst(k)
  <2>1. CASE Candidates = 1
    BY <2>1 DEF Ids
  <2>2. CASE Candidates = 2
    BY <2>2 DEF Ids
  <2>3. CASE Candidates = 3
    BY <2>3 DEF Ids
  <2>4. CASE Candidates = 4
    BY <2>4 DEF Ids
  <2> QED BY <2>1, <2>2, <2>3, <2>4, CandidatesAssumption
<1> HIDE DEF Worst
<1>2. Worst(FirstMost(m)) /\ FirstMost(m) \in Ids
  BY <1>1 DEF Worst, FirstMost
<1>3. QED BY <1>2 DEF Worst, Ids

(* What a round does, with the candidates' choices spelled out.            *)
RoundOf(offers, winner, to, last) ==
  LET next == Replaced(Penalised(offers, last, winner))
      all  == [k \in Ids |-> Advanced(next.from[k], next.taken[k], to)]
  IN [winner |-> next.from[winner], states |-> Levelled(all)]

LEMMA RoundIs ==
  ASSUME NEW costs, NEW to, NEW last
  PROVE  LET offers == Offers(costs)
             winner == FirstLeast([k \in Ids |-> offers[k][1].rd])
         IN Round(costs, to, last) = RoundOf(offers, winner, to, last)
BY DEF Round, With, RoundOf

Offer == [rd : Int, pulse : {0, 1}]
FirstRd(costs, k) == states[k].rd + costs[k][1]

(* What the candidates offer: the first of two is the cheaper.             *)
LEMMA OffersAre ==
  ASSUME states \in [Ids -> NsqState], NEW costs \in [Ids -> Costs]
  PROVE  /\ Offers(costs) \in [Ids -> [1 .. 2 -> Offer]]
         /\ \A k \in Ids : /\ Offers(costs)[k][1].rd = FirstRd(costs, k)
                           /\ Offers(costs)[k][1].rd <= Offers(costs)[k][2].rd
<1>1. ASSUME NEW k \in Ids
      PROVE  /\ states[k].rd \in Int /\ costs[k][1] \in Int /\ costs[k][2] \in Int
             /\ costs[k][1] <= costs[k][2]
  <2>1. costs[k] \in Costs /\ states[k] \in NsqState
    OBVIOUS
  <2> QED BY <2>1, CostsAssumption DEF NsqState
<1> QED BY <1>1 DEF Offers, Offer, FirstRd

(* Penalised: nobody loses by it, the winner nothing, and those who were   *)
(* through something else the penalty.                                     *)
Strays(k, winner, last) == states[k].ring[last].rand # states[winner].ring[last].rand

LEMMA PenalisedAre ==
  ASSUME NEW offers \in [Ids -> [1 .. 2 -> Offer]], NEW winner \in Ids, NEW last
  PROVE  LET pen == Penalised(offers, last, winner)
         IN /\ pen \in [Ids -> [1 .. 2 -> Offer]]
            /\ \A k \in Ids, j \in 1 .. 2 :
                 pen[k][j].rd = offers[k][j].rd + IF Strays(k, winner, last) THEN Penalty ELSE 0
            /\ pen[winner] = offers[winner]
<1> DEFINE pen == Penalised(offers, last, winner)
<1>1. ASSUME NEW k \in Ids, ~Strays(k, winner, last)
      PROVE  pen[k] = offers[k]
  BY <1>1 DEF Penalised, Strays
<1>2. ASSUME NEW k \in Ids, Strays(k, winner, last)
      PROVE  pen[k] = [j \in 1 .. 2 |-> [rd |-> offers[k][j].rd + Penalty, pulse |-> offers[k][j].pulse]]
  <2>1. ASSUME NEW j \in 1 .. 2
        PROVE  [offers[k][j] EXCEPT !.rd = @ + Penalty]
                 = [rd |-> offers[k][j].rd + Penalty, pulse |-> offers[k][j].pulse]
    BY DEF Offer
  <2>2. pen[k] = [j \in 1 .. 2 |-> [offers[k][j] EXCEPT !.rd = @ + Penalty]]
    BY <1>2 DEF Penalised, Strays
  <2> QED BY <2>1, <2>2
<1>3. pen = [k \in Ids |-> pen[k]]
  BY DEF Penalised
<1> HIDE DEF pen
<1>4. ASSUME NEW k \in Ids
      PROVE  /\ pen[k] \in [1 .. 2 -> Offer]
             /\ \A j \in 1 .. 2 :
                 pen[k][j].rd = offers[k][j].rd + IF Strays(k, winner, last) THEN Penalty ELSE 0
  <2>1. offers[k] \in [1 .. 2 -> Offer] /\ \A j \in 1 .. 2 : offers[k][j] \in Offer
    OBVIOUS
  <2>2. CASE ~Strays(k, winner, last)
    BY <1>1, <2>1, <2>2 DEF Offer
  <2>3. CASE Strays(k, winner, last)
    <3>1. pen[k] = [j \in 1 .. 2 |-> [rd |-> offers[k][j].rd + Penalty, pulse |-> offers[k][j].pulse]]
      BY <1>2, <2>3
    <3>2. pen[k] \in [1 .. 2 -> Offer]
      BY <2>1, <3>1 DEF Penalty, Offer
    <3>3. \A j \in 1 .. 2 : pen[k][j].rd = offers[k][j].rd + Penalty
      BY <3>1
    <3> QED BY <2>3, <3>2, <3>3
  <2> QED BY <2>2, <2>3
<1>5. ~Strays(winner, winner, last)
  BY DEF Strays
<1>6. pen[winner] = offers[winner]
  BY <1>1, <1>5
<1> QED BY <1>3, <1>4, <1>6 DEF pen

GoOn(r, offers, f, j) ==
  /\ r.from = [k \in Ids |-> states[f[k]]]
  /\ r.taken = [k \in Ids |-> offers[f[k]][j[k]]]

(* The worst makes way: everyone who is left goes on from someone, by one  *)
(* of that one's offers, and the one with the best offer goes on itself.   *)
LEMMA ReplacedAre ==
  ASSUME NEW offers \in [Ids -> [1 .. 2 -> Offer]], NEW w \in Ids,
         \A k \in Ids : offers[k][1].rd <= offers[k][2].rd,
         \A k \in Ids : offers[w][1].rd <= offers[k][1].rd,
         states \in [Ids -> NsqState]
  PROVE  \E f \in [Ids -> Ids], j \in [Ids -> 1 .. 2] :
           GoOn(Replaced(offers), offers, f, j) /\ f[w] = w /\ j[w] = 1
<1> DEFINE firsts  == [k \in Ids |-> offers[k][1].rd]
           seconds == [k \in Ids |-> offers[k][2].rd]
           worst   == FirstMost(firsts)
           best    == FirstLeast(seconds)
<1>1. firsts \in [Ids -> Int] /\ seconds \in [Ids -> Int]
  BY DEF Offer
<1>2. /\ worst \in Ids /\ \A k \in Ids : firsts[k] <= firsts[worst]
      /\ best \in Ids
  BY <1>1, MostIs, LeastIs
<1>3. Replaced(offers)
        = IF offers[best][2].rd < offers[worst][1].rd
          THEN [from |-> [states EXCEPT ![worst] = states[best]],
                taken |-> [k \in Ids |-> IF k = worst THEN offers[best][2] ELSE offers[k][1]]]
          ELSE [from |-> states, taken |-> [k \in Ids |-> offers[k][1]]]
  BY DEF Replaced
<1>4. CASE ~(offers[best][2].rd < offers[worst][1].rd)
  <2> DEFINE f == [k \in Ids |-> k]
             j == [k \in Ids |-> 1]
  <2>1. f \in [Ids -> Ids] /\ j \in [Ids -> 1 .. 2] /\ f[w] = w /\ j[w] = 1
    OBVIOUS
  <2>2. states = [k \in Ids |-> states[f[k]]]
    OBVIOUS
  <2>3. [k \in Ids |-> offers[k][1]] = [k \in Ids |-> offers[f[k]][j[k]]]
    OBVIOUS
  <2> HIDE DEF f, j, worst, best
  <2>4. GoOn(Replaced(offers), offers, f, j)
    <3>1. /\ Replaced(offers).from = states
          /\ Replaced(offers).taken = [k \in Ids |-> offers[k][1]]
      BY <1>3, <1>4
    <3> QED BY <2>2, <2>3, <3>1, Zenon DEF GoOn
  <2> QED BY <2>1, <2>4
<1>5. CASE offers[best][2].rd < offers[worst][1].rd
  <2> DEFINE f == [k \in Ids |-> IF k = worst THEN best ELSE k]
             j == [k \in Ids |-> IF k = worst THEN 2 ELSE 1]
  <2>1. f \in [Ids -> Ids] /\ j \in [Ids -> 1 .. 2]
    BY <1>2, SMTT(30)
  <2>2. [states EXCEPT ![worst] = states[best]] = [k \in Ids |-> states[f[k]]]
    BY <1>2
  <2>3. [k \in Ids |-> IF k = worst THEN offers[best][2] ELSE offers[k][1]]
          = [k \in Ids |-> offers[f[k]][j[k]]]
    BY <1>2
  <2>4. w # worst
    <3>1. offers[w][1].rd <= offers[best][1].rd /\ offers[best][1].rd <= offers[best][2].rd
      BY <1>2
    <3>2. {offers[w][1].rd, offers[best][1].rd, offers[best][2].rd, offers[worst][1].rd} \subseteq Int
      BY <1>2 DEF Offer
    <3> HIDE DEF worst, best
    <3> QED BY <1>5, <3>1, <3>2
  <2>5. f[w] = w /\ j[w] = 1
    BY <2>4
  <2> HIDE DEF f, j, worst, best
  <2>6. GoOn(Replaced(offers), offers, f, j)
    BY <1>3, <1>5, <2>2, <2>3 DEF GoOn
  <2> QED BY <2>1, <2>5, <2>6
<1> QED BY <1>4, <1>5

(* What a round makes of the candidates: each of the new ones goes on from *)
(* one of the old (f), by a pulse (p); the best (w) goes on itself, and    *)
(* whoever was through something else than it is behind by the penalty.    *)
GoesOnFrom(new, old, pulse, to) ==
  /\ new.rand = Append(old.rand, pulse)
  /\ new.ring = [old.ring EXCEPT ![to] = [pulse |-> pulse, rand |-> Append(old.rand, pulse)]]

GoesThrough(round, costs, to, last, f, p, w) ==
  /\ round.winner = states[w]
  /\ round.states \in [Ids -> NsqState]
  /\ round.states[w].rd = 0
  /\ \A k \in Ids :
       /\ GoesOnFrom(round.states[k], states[f[k]], p[k], to)
       /\ round.states[k].rd >= FirstRd(costs, f[k]) - FirstRd(costs, w)
       /\ Strays(f[k], w, last) => round.states[k].rd >= Penalty

(* A sample taken, and the costs brought down to the best one's.           *)
LEMMA AdvancedIs ==
  ASSUME NEW state \in NsqState, NEW offer \in Offer, NEW to \in Slots
  PROVE  /\ Advanced(state, offer, to) \in NsqState
         /\ Advanced(state, offer, to).rd = offer.rd
         /\ GoesOnFrom(Advanced(state, offer, to), state, offer.pulse, to)
<1> DEFINE rand == Append(state.rand, offer.pulse)
           sample == [pulse |-> offer.pulse, rand |-> rand]
           ring == [state.ring EXCEPT ![to] = sample]
<1>1. rand \in Seq(Int) /\ sample \in NsqSample /\ offer.rd \in Int
  BY DEF NsqState, NsqSample, Offer
<1>2. ring \in [Slots -> NsqSample]
  BY <1>1 DEF NsqState
<1>3. Advanced(state, offer, to)
        = [seed |-> state.seed, rd |-> offer.rd, rand |-> rand, ring |-> ring]
  <2>1. Advanced(state, offer, to) = [state EXCEPT !.rd = offer.rd, !.rand = rand, !.ring = ring]
    BY DEF Advanced
  <2> HIDE DEF rand, ring
  <2> QED BY <2>1 DEF NsqState
<1> HIDE DEF sample, ring
<1>4. Advanced(state, offer, to) \in NsqState
  <2>1. state.seed \in Int
    BY DEF NsqState
  <2> HIDE DEF rand, ring
  <2> QED BY <1>1, <1>2, <1>3, <2>1 DEF NsqState
<1> QED BY <1>3, <1>4 DEF GoesOnFrom, ring, sample

AtCost(state, rd) == [state EXCEPT !.rd = rd]

LEMMA CostChanged ==
  ASSUME NEW state \in NsqState, NEW rd \in Int
  PROVE  /\ AtCost(state, rd) \in NsqState /\ AtCost(state, rd).rd = rd
         /\ AtCost(state, rd).rand = state.rand /\ AtCost(state, rd).ring = state.ring
<1>1. AtCost(state, rd) = [seed |-> state.seed, rd |-> rd, rand |-> state.rand, ring |-> state.ring]
  BY DEF NsqState, AtCost
<1>2. /\ AtCost(state, rd).rd = rd /\ AtCost(state, rd).rand = state.rand
      /\ AtCost(state, rd).ring = state.ring
  BY <1>1
<1>3. AtCost(state, rd) \in NsqState
  BY <1>1 DEF NsqState
<1> QED BY <1>2, <1>3

LEMMA LevelledAre ==
  ASSUME NEW all \in [Ids -> NsqState], NEW w \in Ids, \A k \in Ids : all[w].rd <= all[k].rd
  PROVE  /\ Levelled(all) \in [Ids -> NsqState]
         /\ \A k \in Ids : /\ Levelled(all)[k].rd = all[k].rd - all[w].rd
                           /\ Levelled(all)[k].rand = all[k].rand
                           /\ Levelled(all)[k].ring = all[k].ring
<1> DEFINE rds == [k \in Ids |-> all[k].rd]
           least == FirstLeast(rds)
<1>1. rds \in [Ids -> Int]
  BY DEF NsqState
<1>2. least \in Ids /\ \A k \in Ids : rds[least] <= rds[k]
  BY <1>1, LeastIs
<1>3. all[least].rd = all[w].rd
  <2>1. all[least].rd <= all[w].rd /\ all[w].rd <= all[least].rd
    BY <1>2
  <2>2. all[least].rd \in Int /\ all[w].rd \in Int
    BY <1>2 DEF NsqState
  <2> HIDE DEF least
  <2> QED BY <2>1, <2>2
<1>4. Levelled(all) = [k \in Ids |-> [all[k] EXCEPT !.rd = @ - all[w].rd]]
  BY <1>3 DEF Levelled
<1>5. ASSUME NEW k \in Ids
      PROVE  /\ Levelled(all)[k] \in NsqState
             /\ Levelled(all)[k].rd = all[k].rd - all[w].rd
             /\ Levelled(all)[k].rand = all[k].rand
             /\ Levelled(all)[k].ring = all[k].ring
  <2> DEFINE rd == all[k].rd - all[w].rd
  <2>1. all[k] \in NsqState /\ all[w] \in NsqState
    OBVIOUS
  <2>2. rd \in Int
    BY <2>1 DEF NsqState
  <2>3. Levelled(all)[k] = AtCost(all[k], rd)
    BY <1>4 DEF AtCost
  <2> HIDE DEF rd
  <2>4. /\ Levelled(all)[k] \in NsqState /\ Levelled(all)[k].rd = rd
        /\ Levelled(all)[k].rand = all[k].rand /\ Levelled(all)[k].ring = all[k].ring
    BY <2>1, <2>2, <2>3, CostChanged, SMTT(30)
  <2> QED BY <2>4 DEF rd
<1> QED BY <1>4, <1>5

(* A round, from any costs, whoever wins it.                               *)
LEMMA RoundDoes ==
  ASSUME states \in [Ids -> NsqState], NEW costs \in [Ids -> Costs],
         NEW to \in Slots, NEW last
  PROVE  \E f \in [Ids -> Ids], p \in [Ids -> {0, 1}], w \in Ids :
           /\ \A k \in Ids : FirstRd(costs, w) <= FirstRd(costs, k)
           /\ GoesThrough(Round(costs, to, last), costs, to, last, f, p, w)
<1> DEFINE offers == Offers(costs)
           w == FirstLeast([k \in Ids |-> offers[k][1].rd])
           pen == Penalised(offers, last, w)
           next == Replaced(pen)
           all == [k \in Ids |-> Advanced(next.from[k], next.taken[k], to)]
           round == Round(costs, to, last)
<1>1. round = [winner |-> next.from[w], states |-> Levelled(all)]
  BY RoundIs DEF RoundOf
<1>2. /\ offers \in [Ids -> [1 .. 2 -> Offer]]
      /\ \A k \in Ids : offers[k][1].rd = FirstRd(costs, k) /\ offers[k][1].rd <= offers[k][2].rd
  BY OffersAre
<1> HIDE DEF offers
<1>3. w \in Ids /\ \A k \in Ids : offers[w][1].rd <= offers[k][1].rd
  <2>1. [k \in Ids |-> offers[k][1].rd] \in [Ids -> Int]
    BY <1>2 DEF Offer
  <2> QED BY <2>1, LeastIs
<1> HIDE DEF w, round
<1>4. /\ pen \in [Ids -> [1 .. 2 -> Offer]]
      /\ \A k \in Ids, j \in 1 .. 2 :
           pen[k][j].rd = offers[k][j].rd + IF Strays(k, w, last) THEN Penalty ELSE 0
      /\ pen[w] = offers[w]
  BY <1>2, <1>3, PenalisedAre
<1> HIDE DEF pen
<1>5. ASSUME NEW k \in Ids
      PROVE  /\ pen[k][1].rd <= pen[k][2].rd
             /\ offers[k][1].rd <= pen[k][1].rd
             /\ pen[w][1].rd <= pen[k][1].rd
             /\ Strays(k, w, last) => pen[w][1].rd + Penalty <= pen[k][1].rd
  <2>1. {offers[k][1].rd, offers[k][2].rd, offers[w][1].rd} \subseteq Int
    BY <1>2, <1>3 DEF Offer
  <2>2. /\ pen[k][1].rd = offers[k][1].rd + IF Strays(k, w, last) THEN Penalty ELSE 0
        /\ pen[k][2].rd = offers[k][2].rd + IF Strays(k, w, last) THEN Penalty ELSE 0
        /\ pen[w][1].rd = offers[w][1].rd
    BY <1>4
  <2> QED BY <1>2, <1>3, <2>1, <2>2 DEF Penalty
<1>6. PICK f \in [Ids -> Ids], j \in [Ids -> 1 .. 2] : GoOn(next, pen, f, j) /\ f[w] = w /\ j[w] = 1
  BY <1>3, <1>4, <1>5, ReplacedAre
<1> HIDE DEF next
<1>7. ASSUME NEW k \in Ids
      PROVE  /\ next.from[k] = states[f[k]] /\ next.from[k] \in NsqState
             /\ next.taken[k] = pen[f[k]][j[k]] /\ next.taken[k] \in Offer
  BY <1>4, <1>6 DEF GoOn
<1> DEFINE p == [k \in Ids |-> next.taken[k].pulse]
<1>8. ASSUME NEW k \in Ids
      PROVE  /\ all[k] \in NsqState
             /\ all[k].rd = pen[f[k]][j[k]].rd
             /\ GoesOnFrom(all[k], states[f[k]], p[k], to)
  BY <1>7, AdvancedIs
<1>9. all \in [Ids -> NsqState]
  BY <1>8
<1> HIDE DEF all
<1>10. all[w].rd = pen[w][1].rd
  BY <1>3, <1>6, <1>8
<1>11. ASSUME NEW k \in Ids
       PROVE  pen[f[k]][1].rd <= all[k].rd /\ all[w].rd <= all[k].rd
  <2>1. f[k] \in Ids /\ j[k] \in 1 .. 2
    BY <1>6
  <2>2. {pen[f[k]][1].rd, pen[f[k]][2].rd, pen[w][1].rd} \subseteq Int
    BY <1>3, <1>4, <2>1 DEF Offer
  <2>3. pen[f[k]][1].rd <= all[k].rd
    BY <1>5, <1>8, <2>1, <2>2
  <2> QED BY <1>5, <1>8, <1>10, <2>1, <2>2, <2>3
<1>12. /\ Levelled(all) \in [Ids -> NsqState]
       /\ \A k \in Ids : /\ Levelled(all)[k].rd = all[k].rd - all[w].rd
                         /\ Levelled(all)[k].rand = all[k].rand
                         /\ Levelled(all)[k].ring = all[k].ring
  BY <1>3, <1>9, <1>11, LevelledAre
<1>13. ASSUME NEW k \in Ids
       PROVE  /\ GoesOnFrom(round.states[k], states[f[k]], p[k], to)
              /\ round.states[k].rd >= FirstRd(costs, f[k]) - FirstRd(costs, w)
              /\ Strays(f[k], w, last) => round.states[k].rd >= Penalty
  <2>1. round.states = Levelled(all)
    BY <1>1
  <2>2. GoesOnFrom(round.states[k], states[f[k]], p[k], to)
    BY <1>8, <1>12, <2>1 DEF GoesOnFrom
  <2>3. f[k] \in Ids /\ f[k] = f[k]
    BY <1>6
  <2>4. {offers[f[k]][1].rd, pen[f[k]][1].rd, offers[w][1].rd, all[k].rd, all[w].rd} \subseteq Int
    <3>1. all[k].rd \in Int /\ all[w].rd \in Int
      BY <1>3, <1>8 DEF NsqState
    <3>2. offers[f[k]][1] \in Offer /\ pen[f[k]][1] \in Offer /\ offers[w][1] \in Offer
      BY <1>2, <1>3, <1>4, <2>3
    <3> QED BY <3>1, <3>2 DEF Offer
  <2>5. /\ offers[f[k]][1].rd <= pen[f[k]][1].rd /\ pen[f[k]][1].rd <= all[k].rd
        /\ Strays(f[k], w, last) => pen[w][1].rd + Penalty <= pen[f[k]][1].rd
    BY <1>5, <1>11, <2>3
  <2>6. /\ FirstRd(costs, f[k]) = offers[f[k]][1].rd /\ FirstRd(costs, w) = offers[w][1].rd
        /\ all[w].rd = offers[w][1].rd /\ pen[w][1].rd = offers[w][1].rd
    BY <1>2, <1>3, <1>4, <1>10, <2>3
  <2>7. round.states[k].rd = all[k].rd - all[w].rd
    BY <1>12, <2>1
  <2> HIDE DEF p
  <2> QED BY <2>2, <2>4, <2>5, <2>6, <2>7 DEF Penalty
<1>14. round.winner = states[w]
  BY <1>1, <1>3, <1>6, <1>7
<1>15. round.states \in [Ids -> NsqState] /\ round.states[w].rd = 0
  <2>1. all[w].rd \in Int
    BY <1>3, <1>9 DEF NsqState
  <2> QED BY <1>1, <1>3, <1>12, <2>1
<1>16. p \in [Ids -> {0, 1}]
  BY <1>7 DEF Offer
<1> HIDE DEF p
<1>17. GoesThrough(round, costs, to, last, f, p, w)
  BY <1>13, <1>14, <1>15 DEF GoesThrough
<1>18. \A k \in Ids : FirstRd(costs, w) <= FirstRd(costs, k)
  BY <1>2, <1>3
<1> QED BY <1>3, <1>6, <1>16, <1>17, <1>18 DEF round

(***************************************************************************)
(* Slots and samples: a slot's age is how many samples ago it was filled.  *)
(***************************************************************************)
Age(s, newest) == IF newest <= s THEN s - newest ELSE s - newest + BufferLength

(* What is less than twice a length wraps around it once.                  *)
LEMMA WrapsOnce ==
  ASSUME NEW x \in Int, NEW n \in Nat \ {0}, x >= 0, x < 2 * n
  PROVE  x % n = IF x < n THEN x ELSE x - n
OBVIOUS

LEMMA Quotient ==
  ASSUME NEW k \in Nat, NEW n \in Nat \ {0}, NEW i \in 0 .. n - 1
  PROVE  (k * n + i) \div n = k
OBVIOUS

(* A new sample is of age 0, and all the others are one sample older.      *)
LEMMA AgesGrow ==
  ASSUME NEW newest \in Slots
  PROVE  LET to == (newest - 1 + BufferLength) % BufferLength
         IN /\ to \in Slots /\ Age(to, to) = 0
            /\ \A s \in Slots : /\ Age(s, newest) \in 0 .. BufferLength - 1
                                /\ s # to => Age(s, to) = Age(s, newest) + 1
<1>1. (newest - 1 + BufferLength) % BufferLength
        = IF newest = 0 THEN BufferLength - 1 ELSE newest - 1
  BY WrapsOnce, LengthsAssumption DEF Slots
<1> QED BY <1>1, LengthsAssumption DEF Slots, Age

(* Where the sample of an age is, and where the one to be decided is.      *)
LEMMA SlotOfAge ==
  ASSUME NEW newest \in Slots, NEW age \in 0 .. BufferLength - 1
  PROVE  /\ (newest + age) % BufferLength \in Slots
         /\ Age((newest + age) % BufferLength, newest) = age
<1>1. (newest + age) % BufferLength
        = IF newest + age < BufferLength THEN newest + age ELSE (newest + age) - BufferLength
  <2> DEFINE x == newest + age
  <2>1. x \in Int /\ x >= 0 /\ x < 2 * BufferLength /\ BufferLength \in Nat \ {0}
    BY LengthsAssumption DEF Slots
  <2> HIDE DEF x
  <2>2. x % BufferLength = IF x < BufferLength THEN x ELSE x - BufferLength
    BY <2>1, WrapsOnce
  <2> QED BY <2>2 DEF x
<1> QED BY <1>1, LengthsAssumption DEF Slots, Age

LEMMA DecidingIs ==
  ASSUME NEW newest \in Slots, NEW delay \in 1 .. BufferLength
  PROVE  LET to   == (newest - 1 + BufferLength) % BufferLength
             last == (to + delay) % BufferLength
         IN last \in Slots /\ Age(last, newest) = delay - 1
<1> DEFINE to == (newest - 1 + BufferLength) % BufferLength
<1>1. to = IF newest = 0 THEN BufferLength - 1 ELSE newest - 1
  BY WrapsOnce, LengthsAssumption DEF Slots
<1>2. to \in 0 .. BufferLength - 1
  BY <1>1, LengthsAssumption DEF Slots
<1> HIDE DEF to
<1>3. (to + delay) % BufferLength
        = IF to + delay < BufferLength THEN to + delay ELSE (to + delay) - BufferLength
  <2> DEFINE x == to + delay
  <2>1. x \in Int /\ x >= 0 /\ x < 2 * BufferLength /\ BufferLength \in Nat \ {0}
    BY <1>2, LengthsAssumption
  <2> HIDE DEF x
  <2>2. x % BufferLength = IF x < BufferLength THEN x ELSE x - BufferLength
    BY <2>1, WrapsOnce
  <2> QED BY <2>2 DEF x
<1>4. (to + delay) % BufferLength \in Slots /\ Age((to + delay) % BufferLength, newest) = delay - 1
  BY <1>1, <1>2, <1>3, LengthsAssumption DEF Slots, Age
<1> QED BY <1>4 DEF to

(* A candidate that has been through n samples: its ring holds, of the     *)
(* last ones, the pulse and all that led up to it.                         *)
HoldsSample(sample, rand, n) ==
  /\ sample.pulse = rand[n + 1]
  /\ Len(sample.rand) = n + 1
  /\ \A j \in 1 .. n + 1 : sample.rand[j] = rand[j]

HoldsLast(state, newest, n) ==
  /\ Len(state.rand) = n + 1
  /\ \A s \in Slots :
       Age(s, newest) < n => HoldsSample(state.ring[s], state.rand, n - Age(s, newest))

(* One more sample, and the ring still holds the last ones.                *)
LEMMA HoldsOn ==
  ASSUME NEW old \in NsqState, NEW new \in NsqState, NEW newest \in Slots, NEW n \in Nat,
         NEW pulse \in {0, 1}, HoldsLast(old, newest, n),
         GoesOnFrom(new, old, pulse, (newest - 1 + BufferLength) % BufferLength)
  PROVE  /\ HoldsLast(new, (newest - 1 + BufferLength) % BufferLength, n + 1)
         /\ \A j \in 1 .. n + 1 : new.rand[j] = old.rand[j]
<1> DEFINE to == (newest - 1 + BufferLength) % BufferLength
<1>1. /\ to \in Slots /\ Age(to, to) = 0
      /\ \A s \in Slots : /\ Age(s, newest) \in 0 .. BufferLength - 1
                          /\ s # to => Age(s, to) = Age(s, newest) + 1
  BY AgesGrow
<1>2. GoesOnFrom(new, old, pulse, to)
  OBVIOUS
<1> HIDE DEF to
<1>3. old.rand \in Seq(Int) /\ old.ring \in [Slots -> NsqSample]
  BY DEF NsqState
<1>4. Len(old.rand) = n + 1 /\ new.rand = Append(old.rand, pulse)
  BY <1>2 DEF HoldsLast, GoesOnFrom
<1>5. /\ Len(new.rand) = n + 2 /\ new.rand[n + 2] = pulse
      /\ \A j \in 1 .. n + 1 : new.rand[j] = old.rand[j]
  BY <1>3, <1>4
<1>6. ASSUME NEW s \in Slots, Age(s, to) < n + 1
      PROVE  HoldsSample(new.ring[s], new.rand, (n + 1) - Age(s, to))
  <2>1. CASE s = to
    <3>1. new.ring[s] = [pulse |-> pulse, rand |-> new.rand]
      BY <1>2, <1>3, <1>4, <2>1 DEF GoesOnFrom
    <3> QED BY <1>1, <1>5, <2>1, <3>1 DEF HoldsSample
  <2>2. CASE s # to
    <3>1. new.ring[s] = old.ring[s]
      BY <1>2, <1>3, <2>2 DEF GoesOnFrom
    <3>2. Age(s, newest) \in Nat /\ Age(s, to) = Age(s, newest) + 1 /\ Age(s, newest) < n
      BY <1>1, <1>6, <2>2
    <3>3. HoldsSample(old.ring[s], old.rand, n - Age(s, newest))
      BY <3>2 DEF HoldsLast
    <3>4. (n + 1) - Age(s, to) = n - Age(s, newest) /\ n - Age(s, newest) \in 1 .. n
      BY <3>2
    <3> QED BY <1>5, <3>1, <3>3, <3>4 DEF HoldsSample
  <2> QED BY <2>1, <2>2
<1>7. HoldsLast(new, to, n + 1)
  <2>1. Len(new.rand) = n + 1 + 1
    BY <1>5
  <2> QED BY <1>6, <2>1 DEF HoldsLast
<1> QED BY <1>5, <1>7 DEF to

(* Two candidates that were the same for n samples, if any, from the seed  *)
(* on.                                                                     *)
Same(a, b, n) == n = 0 \/ \A j \in 1 .. n + 1 : a.rand[j] = b.rand[j]

(* Two candidates whose rings agree at a sample were the same until it:    *)
(* what silk_noise_shape_quantizer_del_dec compares (rand_state).          *)
LEMMA SameRand ==
  ASSUME NEW a, NEW b, NEW newest \in Slots, NEW n \in Nat, NEW s \in Slots,
         HoldsLast(a, newest, n), HoldsLast(b, newest, n),
         Age(s, newest) < n, a.ring[s].rand = b.ring[s].rand
  PROVE  Same(a, b, n - Age(s, newest))
<1> DEFINE m == n - Age(s, newest)
<1>1. /\ HoldsSample(a.ring[s], a.rand, m) /\ HoldsSample(b.ring[s], b.rand, m)
  BY DEF HoldsLast
<1> HIDE DEF m
<1>2. Same(a, b, m)
  BY <1>1 DEF HoldsSample, Same
<1> QED BY <1>2 DEF m

(***************************************************************************)
(* How much the costs of one sample can differ.                            *)
(***************************************************************************)
Spread == CHOOSE spread \in 0 .. Penalty :
            /\ (BufferLength + 1) * spread < Penalty
            /\ \A c, d \in Costs : c[1] - d[1] <= spread

LEMMA SpreadIs ==
  /\ Spread \in Nat /\ (BufferLength + 1) * Spread < Penalty
  /\ \A c, d \in Costs : c[1] \in Int /\ c[1] - d[1] <= Spread
<1> DEFINE Fits(spread) == /\ (BufferLength + 1) * spread < Penalty
                           /\ \A c, d \in Costs : c[1] - d[1] <= spread
<1>1. \E spread \in 0 .. Penalty : Fits(spread)
  BY PenaltyAssumption
<1> HIDE DEF Fits
<1>2. Spread \in 0 .. Penalty /\ Fits(Spread)
  BY <1>1 DEF Spread, Fits
<1> QED BY <1>2, CostsAssumption DEF Penalty, Fits

(* Who is not the best's path is behind by a gap.                          *)
Trailing(all, best, n, gap) ==
  \A k \in Ids : Same(all[k], all[best], n) \/ all[best].rd + gap <= all[k].rd

RoundFrom(newest, last, n, l, best, gap) ==
  /\ states \in [Ids -> NsqState] /\ newest \in Slots /\ last \in Slots
  /\ n \in Nat /\ l \in 0 .. n /\ \A k \in Ids : HoldsLast(states[k], newest, n)
  /\ best \in Ids /\ gap \in Int /\ Spread < gap /\ gap <= Penalty
  /\ Trailing(states, best, l, gap)

RoundTo(round, costs, newest, last, f, p, w) ==
  /\ costs \in [Ids -> Costs] /\ f \in [Ids -> Ids] /\ p \in [Ids -> {0, 1}] /\ w \in Ids
  /\ \A k \in Ids : FirstRd(costs, w) <= FirstRd(costs, k)
  /\ GoesThrough(round, costs, (newest - 1 + BufferLength) % BufferLength, last, f, p, w)

RoundKept(round, newest, last, n, l, best, then, gap) ==
  /\ Same(round.states[then], states[best], l)
  /\ Trailing(round.states, then, l, gap - Spread)
  /\ Age(last, newest) = n - l - 1 =>
       /\ Trailing(round.states, then, l + 1, Penalty)
       /\ round.winner.ring[last].pulse = round.states[then].rand[l + 2]

(* The heart of it.  If all who are not on the best one's path for l       *)
(* samples are behind by a gap, then whoever is best after a round is on   *)
(* that path, and the others are behind by the gap less what one sample's  *)
(* costs can differ; and if the round decides a sample, all who are not on *)
(* the path with that sample as well are behind by the whole penalty.      *)
LEMMA RoundKeeps ==
  ASSUME NEW costs, NEW n, NEW l, NEW newest, NEW last, NEW f, NEW p, NEW w, NEW round,
         NEW best, NEW gap, NEW then \in Ids,
         RoundFrom(newest, last, n, l, best, gap), RoundTo(round, costs, newest, last, f, p, w),
         \A k \in Ids : round.states[then].rd <= round.states[k].rd
  PROVE  RoundKept(round, newest, last, n, l, best, then, gap)
<1> DEFINE to == (newest - 1 + BufferLength) % BufferLength
           new == round.states
<1>from. /\ states \in [Ids -> NsqState] /\ newest \in Slots /\ last \in Slots
      /\ n \in Nat /\ l \in 0 .. n /\ \A k \in Ids : HoldsLast(states[k], newest, n)
      /\ best \in Ids /\ gap \in Int /\ Spread < gap /\ gap <= Penalty
      /\ Trailing(states, best, l, gap)
  BY DEF RoundFrom
<1>taken. /\ costs \in [Ids -> Costs] /\ f \in [Ids -> Ids] /\ p \in [Ids -> {0, 1}] /\ w \in Ids
      /\ \A k \in Ids : FirstRd(costs, w) <= FirstRd(costs, k)
      /\ GoesThrough(round, costs, (newest - 1 + BufferLength) % BufferLength, last, f, p, w)
  BY DEF RoundTo
<1> USE <1>from, <1>taken
<1>1. ASSUME NEW k \in Ids
      PROVE  /\ states[k].rd \in Int /\ costs[k] \in Costs /\ costs[k][1] \in Int
             /\ FirstRd(costs, k) \in Int /\ FirstRd(costs, k) = states[k].rd + costs[k][1]
  <2>1. states[k] \in NsqState /\ costs[k] \in Costs
    OBVIOUS
  <2>2. costs[k][1] \in Int /\ states[k].rd \in Int
    BY <2>1, SpreadIs DEF NsqState
  <2> QED BY <2>1, <2>2 DEF FirstRd
<1>2. \A j, k \in Ids : costs[j][1] - costs[k][1] <= Spread
  BY <1>1, SpreadIs
<1>3. Spread \in Nat
  BY SpreadIs
<1>4. Same(states[w], states[best], l)
  <2>1. states[w].rd + costs[w][1] <= states[best].rd + costs[best][1]
    BY <1>1
  <2>2. states[w].rd \in Int /\ costs[w][1] \in Int /\ states[best].rd \in Int
        /\ costs[best][1] \in Int /\ costs[best][1] - costs[w][1] <= Spread
    BY <1>1, <1>2
  <2>3. ~(states[best].rd + gap <= states[w].rd)
    BY <1>3, <2>1, <2>2
  <2> QED BY <2>3 DEF Trailing
<1>5. /\ round.winner = states[w] /\ new \in [Ids -> NsqState] /\ new[w].rd = 0
      /\ \A k \in Ids : /\ GoesOnFrom(new[k], states[f[k]], p[k], to)
                        /\ new[k].rd >= FirstRd(costs, f[k]) - FirstRd(costs, w)
                        /\ Strays(f[k], w, last) => new[k].rd >= Penalty
  BY DEF GoesThrough
<1>6. ASSUME NEW k \in Ids
      PROVE  /\ HoldsLast(new[k], to, n + 1)
             /\ \A j \in 1 .. n + 1 : new[k].rand[j] = states[f[k]].rand[j]
             /\ new[k].rd \in Int /\ f[k] \in Ids
  <2>1. states[f[k]] \in NsqState /\ new[k] \in NsqState /\ HoldsLast(states[f[k]], newest, n)
        /\ GoesOnFrom(new[k], states[f[k]], p[k], to) /\ p[k] \in {0, 1} /\ f[k] \in Ids
    BY <1>5
  <2>2. /\ HoldsLast(new[k], to, n + 1)
        /\ \A j \in 1 .. n + 1 : new[k].rand[j] = states[f[k]].rand[j]
    BY <2>1, HoldsOn, ZenonT(60)
  <2> QED BY <2>1, <2>2 DEF NsqState
<1> HIDE DEF to
<1>7. ASSUME NEW k \in Ids
      PROVE  Same(states[f[k]], states[best], l) \/ gap - Spread <= new[k].rd
  <2>1. CASE states[best].rd + gap <= states[f[k]].rd
    <3>1. f[k] \in Ids
      BY <1>6
    <3>2. FirstRd(costs, w) <= states[best].rd + costs[best][1]
      BY <1>1
    <3>3. /\ states[best].rd \in Int /\ costs[best][1] \in Int
          /\ states[f[k]].rd \in Int /\ costs[f[k]][1] \in Int /\ FirstRd(costs, w) \in Int
          /\ FirstRd(costs, f[k]) = states[f[k]].rd + costs[f[k]][1]
          /\ costs[best][1] - costs[f[k]][1] <= Spread
      BY <1>1, <1>2, <3>1
    <3>4. new[k].rd >= FirstRd(costs, f[k]) - FirstRd(costs, w) /\ new[k].rd \in Int
      BY <1>5, <1>6
    <3> QED BY <1>3, <2>1, <3>2, <3>3, <3>4
  <2> QED BY <1>6, <2>1 DEF Trailing
<1>8. new[then].rd \in Int /\ new[then].rd <= 0
  BY <1>5, <1>6
<1>9. Same(states[f[then]], states[best], l) /\ ~Strays(f[then], w, last)
  BY <1>3, <1>5, <1>7, <1>8 DEF Penalty
<1>10. Same(new[then], states[best], l)
  BY <1>6, <1>9 DEF Same
<1>11. Trailing(new, then, l, gap - Spread)
  <2> SUFFICES ASSUME NEW k \in Ids
               PROVE  Same(new[k], new[then], l) \/ new[then].rd + (gap - Spread) <= new[k].rd
    BY DEF Trailing
  <2>1. CASE Same(states[f[k]], states[best], l)
    <3>1. Same(new[k], states[best], l)
      BY <1>6, <2>1 DEF Same
    <3>2. Same(new[k], new[then], l)
      BY <1>10, <3>1 DEF Same
    <3> QED BY <3>2
  <2>2. CASE gap - Spread <= new[k].rd
    BY <1>3, <1>6, <1>8, <2>2
  <2> QED BY <1>7, <2>1, <2>2
<1>12. ASSUME Age(last, newest) = n - l - 1
       PROVE  /\ Trailing(new, then, l + 1, Penalty)
              /\ states[w].ring[last].pulse = new[then].rand[l + 2]
  <2>1. Age(last, newest) < n /\ n - Age(last, newest) = l + 1 /\ l + 1 \in 1 .. n
    BY <1>12, AgesGrow
  <2>2. ASSUME NEW k \in Ids, ~Strays(f[k], w, last)
        PROVE  Same(new[k], states[w], l + 1)
    <3>1. states[f[k]].ring[last].rand = states[w].ring[last].rand
      BY <2>2 DEF Strays
    <3>2. HoldsLast(states[f[k]], newest, n) /\ HoldsLast(states[w], newest, n)
      BY <1>6
    <3>3. Same(states[f[k]], states[w], l + 1)
      BY <2>1, <3>1, <3>2, SameRand
    <3> QED BY <1>6, <2>1, <3>3 DEF Same
  <2>3. Same(new[then], states[w], l + 1)
    BY <1>9, <2>2
  <2>4. ASSUME NEW k \in Ids
        PROVE  Same(new[k], new[then], l + 1) \/ new[then].rd + Penalty <= new[k].rd
    <3>1. CASE Strays(f[k], w, last)
      BY <1>5, <1>6, <1>8, <3>1 DEF Penalty
    <3>2. CASE ~Strays(f[k], w, last)
      BY <2>2, <2>3, <3>2 DEF Same
    <3> QED BY <3>1, <3>2
  <2>5. HoldsSample(states[w].ring[last], states[w].rand, l + 1)
    BY <2>1 DEF HoldsLast
  <2>6. states[w].ring[last].pulse = states[w].rand[l + 2]
    BY <2>5 DEF HoldsSample
  <2>7. new[then].rand[l + 2] = states[w].rand[l + 2]
    <3>1. l + 1 # 0 /\ l + 2 \in 1 .. (l + 1) + 1
      OBVIOUS
    <3> QED BY <2>3, <3>1 DEF Same
  <2> QED BY <2>4, <2>6, <2>7 DEF Trailing
<1> QED BY <1>5, <1>10, <1>11, <1>12 DEF RoundKept

(***************************************************************************)
(* The quantizer: how far it is, and how much it has not decided.          *)
(***************************************************************************)
LEMMA DelayIs ==
  ASSUME NEW f \in FrameKinds
  PROVE  /\ Delay(f) \in 1 .. BufferLength /\ Delay(f) <= SubframeSamples
         /\ \A k \in DOMAIN f.lags : f.lags[k] \in Nat /\ Delay(f) + 3 <= f.lags[k]
<1> DEFINE T == {BufferLength, SubframeSamples} \cup {f.lags[k] - 3 : k \in DOMAIN f.lags}
<1>1. \A k \in DOMAIN f.lags : f.lags[k] \in Nat /\ f.lags[k] > 3
  BY FramesAssumption
<1>2. T \subseteq Nat \ {0} /\ T # {}
  BY <1>1, LengthsAssumption
<1>3. \E x \in T : \A y \in T : x <= y
  <2> HIDE DEF T
  <2>1. T \subseteq Nat
    BY <1>2
  <2> QED BY <1>2, <2>1, LeastNumber
<1>4. Delay(f) \in T /\ \A y \in T : Delay(f) <= y
  <2>1. Delay(f) = Least(T)
    BY DEF Delay
  <2> HIDE DEF T
  <2> QED BY <1>3, <2>1 DEF Least
<1>5. Delay(f) <= BufferLength /\ Delay(f) <= SubframeSamples /\ Delay(f) \in Nat \ {0}
  BY <1>2, <1>4
<1>6. ASSUME NEW k \in DOMAIN f.lags
      PROVE  Delay(f) <= f.lags[k] - 3
  BY <1>4
<1> QED BY <1>1, <1>5, <1>6, LengthsAssumption

LEMMA ReachIs ==
  ASSUME NEW f \in FrameKinds
  PROVE  Reach(f) \in Nat /\ \A k \in DOMAIN f.lags : f.lags[k] + 2 <= Reach(f)
<1> DEFINE lags == {f.lags[k] : k \in DOMAIN f.lags}
           Farthest(lag) == \A k \in DOMAIN f.lags : f.lags[k] <= lag
<1>1. f.lags \in Seq(Nat) /\ Len(f.lags) \in {2, 4}
  BY FramesAssumption
<1>2. \E lag \in lags : Farthest(lag)
  <2>1. CASE Len(f.lags) = 2
    <3>1. DOMAIN f.lags = 1 .. 2 /\ f.lags[1] \in Nat /\ f.lags[2] \in Nat
      BY <1>1, <2>1
    <3> QED BY <3>1
  <2>2. CASE Len(f.lags) = 4
    <3>1. DOMAIN f.lags = 1 .. 4 /\ \A k \in 1 .. 4 : f.lags[k] \in Nat
      BY <1>1, <2>2
    <3> DEFINE a == IF f.lags[1] <= f.lags[2] THEN f.lags[2] ELSE f.lags[1]
               b == IF f.lags[3] <= f.lags[4] THEN f.lags[4] ELSE f.lags[3]
               c == IF a <= b THEN b ELSE a
    <3>2. c \in lags /\ Farthest(c)
      BY <3>1
    <3> QED BY <3>2
  <2> QED BY <1>1, <2>1, <2>2
<1> DEFINE lag == CHOOSE x \in lags : Farthest(x)
<1>3. lag \in lags /\ Farthest(lag)
  <2> HIDE DEF lags, Farthest
  <2> QED BY <1>2
<1>4. Reach(f) = 2 + lag
  BY DEF Reach
<1>5. lag \in Nat
  <2>1. lags \subseteq Nat
    BY <1>1
  <2> HIDE DEF lags, lag
  <2> QED BY <1>3, <2>1
<1> HIDE DEF lag
<1> QED BY <1>1, <1>3, <1>4, <1>5

SubframesNow == IF Over THEN Subframes ELSE at.k
Tried == (SubframesNow - 1) * SubframeSamples + at.i
Pending == IF Over THEN 0
           ELSE IF at.nsq = 0 /\ at.i < Delay(frame) THEN at.i ELSE Delay(frame)

NsqCounts ==
  /\ frame \in FrameKinds
  /\ at \in [k : 1 .. Subframes + 1, i : 0 .. SubframeSamples, nsq : Nat]
  /\ Over => at.i = SubframeSamples
  /\ at.nsq > 0 => at.k > 1
  /\ slot \in Slots

(* What is tried and not decided yet is at most the delay.                 *)
LEMMA CountsAre ==
  ASSUME NsqCounts
  PROVE  /\ Subframes \in {2, 4} /\ SubframesNow \in 1 .. Subframes
         /\ (SubframesNow - 1) * SubframeSamples \in Nat
         /\ Tried \in Nat /\ Pending \in 0 .. Delay(frame) /\ Pending <= Tried
         /\ at.k \in 1 .. Subframes + 1 /\ at.i \in 0 .. SubframeSamples /\ at.nsq \in Nat
         /\ ~Over => SubframesNow = at.k /\ at.k \in 1 .. Subframes
<1>1. frame \in FrameKinds /\ Subframes \in {2, 4}
  BY FramesAssumption DEF NsqCounts, Subframes
<1>2. at.k \in 1 .. Subframes + 1 /\ at.i \in 0 .. SubframeSamples /\ at.nsq \in Nat
  BY DEF NsqCounts
<1>3. SubframesNow \in 1 .. Subframes /\ (~Over => SubframesNow = at.k /\ at.k \in 1 .. Subframes)
  BY <1>1, <1>2 DEF SubframesNow, Over
<1>4. /\ Delay(frame) \in 1 .. BufferLength /\ Delay(frame) <= SubframeSamples
      /\ SubframeSamples \in Nat \ {0} /\ BufferLength \in Nat
  BY <1>1, DelayIs, LengthsAssumption
<1> DEFINE m == SubframesNow - 1
           before == m * SubframeSamples
<1>5. m \in Nat /\ before \in Nat /\ (m >= 1 => before >= SubframeSamples)
  <2>1. m \in Nat
    BY <1>1, <1>3
  <2> HIDE DEF m
  <2> QED BY <1>4, <2>1
<1>6. Tried = before + at.i
  BY DEF Tried
<1>7. Pending \in 0 .. Delay(frame)
  BY <1>2, <1>4 DEF Pending
<1>8. Pending <= Tried
  <2>1. CASE Over
    BY <1>2, <1>5, <1>6, <2>1 DEF Pending
  <2>2. CASE ~Over /\ at.nsq = 0 /\ at.i < Delay(frame)
    BY <1>2, <1>5, <1>6, <2>2 DEF Pending
  <2>3. CASE ~Over /\ at.nsq = 0 /\ ~(at.i < Delay(frame))
    BY <1>2, <1>4, <1>5, <1>6, <2>3 DEF Pending
  <2>4. CASE ~Over /\ at.nsq # 0
    <3>1. at.k > 1 /\ m >= 1
      BY <1>2, <1>3, <2>4 DEF NsqCounts
    <3>2. Pending = Delay(frame)
      BY <2>4 DEF Pending
    <3> HIDE DEF m, before
    <3> QED BY <1>2, <1>4, <1>5, <1>6, <3>1, <3>2
  <2> QED BY <2>1, <2>2, <2>3, <2>4
<1>9. Tried \in Nat
  <2> HIDE DEF m, before
  <2> QED BY <1>2, <1>5, <1>6
<1> QED BY <1>1, <1>2, <1>3, <1>5, <1>7, <1>8, <1>9

Decides == at.nsq > 0 \/ at.i >= Delay(frame)

(* A sample is one more tried; it decides one if the delay is full.        *)
LEMMA SampleCounts ==
  ASSUME NsqCounts, Sample
  PROVE  /\ NsqCounts' /\ ~Over /\ ~Over' /\ Tried' = Tried + 1
         /\ at'.k = at.k /\ frame' = frame /\ Delay(frame') = Delay(frame) /\ at.i < SubframeSamples
         /\ slot' = (slot - 1 + BufferLength) % BufferLength
         /\ Decides => Pending = Delay(frame) /\ Pending' = Delay(frame)
         /\ ~Decides => Pending' = Pending + 1
<1>1. /\ at.k <= Subframes /\ at.i < SubframeSamples
      /\ at' = [at EXCEPT !.i = @ + 1] /\ frame' = frame
      /\ slot' = (slot - 1 + BufferLength) % BufferLength
  BY DEF Sample
<1>2. /\ Subframes \in {2, 4} /\ at.k \in 1 .. Subframes + 1 /\ at.i \in 0 .. SubframeSamples
      /\ at.nsq \in Nat /\ frame \in FrameKinds
      /\ (SubframesNow - 1) * SubframeSamples \in Nat
  BY CountsAre DEF NsqCounts
<1>3. at'.k = at.k /\ at'.i = at.i + 1 /\ at'.nsq = at.nsq /\ Subframes' = Subframes
  BY <1>1 DEF NsqCounts, Subframes
<1>4. ~Over /\ ~Over' /\ SubframesNow' = SubframesNow
  BY <1>1, <1>2, <1>3 DEF Over, SubframesNow
<1>5. Tried' = (SubframesNow - 1) * SubframeSamples + at'.i
  BY <1>4 DEF Tried
<1>6. Tried' = Tried + 1
  <2> DEFINE before == (SubframesNow - 1) * SubframeSamples
  <2>1. Tried' = before + at'.i /\ Tried = before + at.i /\ before \in Nat
    BY <1>2, <1>5 DEF Tried
  <2> HIDE DEF before
  <2> QED BY <1>2, <1>3, <2>1
<1>7. slot' \in Slots
  BY <1>1, AgesGrow DEF NsqCounts
<1>8. at' \in [k : 1 .. Subframes + 1, i : 0 .. SubframeSamples, nsq : Nat]
  BY <1>1, <1>2, LengthsAssumption DEF NsqCounts
<1>9. NsqCounts'
  BY <1>1, <1>3, <1>4, <1>7, <1>8 DEF NsqCounts
<1>10. Delay(frame') = Delay(frame) /\ Delay(frame) \in Nat
  BY <1>1, <1>2, DelayIs, LengthsAssumption
<1>11. Pending' = IF at'.nsq = 0 /\ at'.i < Delay(frame) THEN at'.i ELSE Delay(frame)
  BY <1>4, <1>10 DEF Pending
<1>12. Pending = IF at.nsq = 0 /\ at.i < Delay(frame) THEN at.i ELSE Delay(frame)
  BY <1>4 DEF Pending
<1> QED BY <1>1, <1>2, <1>3, <1>4, <1>6, <1>9, <1>10, <1>11, <1>12 DEF Decides

(* At the end of a subframe the delay is full; a flush empties it, as does *)
(* the end of the frame.                                                   *)
LEMMA SubframeCounts ==
  ASSUME NsqCounts, NextSubframe
  PROVE  /\ NsqCounts' /\ ~Over /\ ~Over' /\ Tried' = Tried /\ Tried = at.k * SubframeSamples
         /\ at'.k = at.k + 1 /\ frame' = frame /\ Delay(frame') = Delay(frame)
         /\ slot' = slot /\ Pending = Delay(frame)
         /\ Pending' = IF FlushesAt(at.k + 1) THEN 0 ELSE Delay(frame)
<1>1. at.k < Subframes /\ at.i = SubframeSamples /\ frame' = frame /\ slot' = slot
  BY DEF NextSubframe
<1>2. /\ Subframes \in {2, 4} /\ at.k \in 1 .. Subframes + 1 /\ at.nsq \in Nat
      /\ frame \in FrameKinds /\ at.k + 1 \in 1 .. Subframes + 1
  BY <1>1, CountsAre DEF NsqCounts
<1>3. /\ at' = [k |-> at.k + 1, i |-> 0, nsq |-> IF FlushesAt(at.k + 1) THEN 0 ELSE at.nsq + 1]
      /\ Subframes' = Subframes
  BY <1>1 DEF NextSubframe, Subframes
<1>4. ~Over /\ ~Over' /\ SubframesNow = at.k /\ SubframesNow' = at.k + 1
  BY <1>1, <1>2, <1>3 DEF Over, SubframesNow
<1>5. Tried = at.k * SubframeSamples /\ Tried' = Tried
  <2>1. Tried = (at.k - 1) * SubframeSamples + SubframeSamples
    BY <1>1, <1>4 DEF Tried
  <2>2. Tried' = ((at.k + 1) - 1) * SubframeSamples + 0
    BY <1>3, <1>4 DEF Tried
  <2>3. at.k \in Nat /\ SubframeSamples \in Nat
    BY <1>2, LengthsAssumption
  <2> QED BY <2>1, <2>2, <2>3
<1>6. /\ Delay(frame') = Delay(frame) /\ Delay(frame) \in Nat \ {0}
      /\ Delay(frame) <= SubframeSamples /\ SubframeSamples \in Nat
  BY <1>1, <1>2, DelayIs, LengthsAssumption
<1>7. Pending = Delay(frame)
  BY <1>1, <1>4, <1>6 DEF Pending
<1>8. Pending' = IF FlushesAt(at.k + 1) THEN 0 ELSE Delay(frame)
  <2>1. Pending' = IF at'.nsq = 0 /\ at'.i < Delay(frame) THEN at'.i ELSE Delay(frame)
    BY <1>4, <1>6 DEF Pending
  <2>2. at'.i = 0 /\ at'.nsq = IF FlushesAt(at.k + 1) THEN 0 ELSE at.nsq + 1
    BY <1>3
  <2> QED BY <1>2, <1>6, <2>1, <2>2
<1>9. NsqCounts'
  <2>1. at' \in [k : 1 .. Subframes + 1, i : 0 .. SubframeSamples, nsq : Nat]
    BY <1>2, <1>3, LengthsAssumption
  <2>2. at'.k > 1
    BY <1>2, <1>3
  <2> QED BY <1>1, <1>3, <1>4, <2>1, <2>2 DEF NsqCounts
<1> QED BY <1>1, <1>3, <1>4, <1>5, <1>6, <1>7, <1>8, <1>9

LEMMA FinishCounts ==
  ASSUME NsqCounts, Finish
  PROVE  /\ NsqCounts' /\ ~Over /\ Over' /\ Tried' = Tried
         /\ Tried = Subframes * SubframeSamples /\ Tried = at.k * SubframeSamples
         /\ frame' = frame /\ slot' = slot /\ Pending = Delay(frame) /\ Pending' = 0
<1>1. /\ at.k = Subframes /\ at.i = SubframeSamples /\ frame' = frame /\ slot' = slot
      /\ at' = [at EXCEPT !.k = @ + 1]
  BY DEF Finish
<1>2. Subframes \in {2, 4} /\ at.nsq \in Nat /\ frame \in FrameKinds
  BY CountsAre DEF NsqCounts
<1>3. at'.k = at.k + 1 /\ at'.i = at.i /\ at'.nsq = at.nsq /\ Subframes' = Subframes
  BY <1>1 DEF NsqCounts, Subframes
<1>4. ~Over /\ Over' /\ SubframesNow = Subframes /\ SubframesNow' = Subframes
  BY <1>1, <1>2, <1>3 DEF Over, SubframesNow
<1>5. Tried' = Tried
  BY <1>3, <1>4 DEF Tried
<1>6. Tried = Subframes * SubframeSamples
  <2>1. Tried = (Subframes - 1) * SubframeSamples + SubframeSamples
    BY <1>1, <1>4 DEF Tried
  <2> QED BY <1>2, <2>1, LengthsAssumption
<1>7. Pending = Delay(frame) /\ Pending' = 0
  <2>1. Delay(frame) \in Nat /\ Delay(frame) <= SubframeSamples
    BY <1>2, DelayIs, LengthsAssumption
  <2> QED BY <1>1, <1>4, <2>1, LengthsAssumption DEF Pending
<1>8. NsqCounts'
  <2>1. at' \in [k : 1 .. Subframes + 1, i : 0 .. SubframeSamples, nsq : Nat]
    BY <1>1, <1>2, LengthsAssumption DEF NsqCounts
  <2>2. at'.nsq > 0 => at'.k > 1
    BY <1>1, <1>2, <1>3
  <2> QED BY <1>1, <1>3, <2>1, <2>2 DEF NsqCounts
<1> QED BY <1>1, <1>4, <1>5, <1>6, <1>7, <1>8

(***************************************************************************)
(* The inductive invariant.                                                *)
(***************************************************************************)
SubframeOf(n) == n \div SubframeSamples + 1

NsqHolds ==
  /\ states \in [Ids -> NsqState]
  /\ \A k \in Ids : HoldsLast(states[k], slot, Tried)

NsqGains ==
  /\ gains \in [Slots -> Int]
  /\ \A s \in Slots : Age(s, slot) < Tried => gains[s] = SubframeOf((Tried - Age(s, slot)) - 1)

NsqPath ==
  /\ out \in Seq([pulse : Int, gain : Int])
  /\ Len(out) = Tried - Pending
  /\ \A j \in 1 .. Len(out) : /\ out[j].pulse = states[Winner].rand[j + 1]
                              /\ out[j].gain = SubframeOf(j - 1)

NsqBehind == ~Over => Trailing(states, Winner, Len(out), Penalty - Pending * Spread)

NsqScale ==
  /\ DOMAIN scale = -Reach(frame) .. Subframes * SubframeSamples
  /\ frame.voiced /\ ~Over =>
       \A p \in (((at.k - 1) * SubframeSamples - frame.lags[at.k]) - 2) .. (Len(out) - 1) :
         scale[p] = at.k

NsqReads == reads.past < 0 /\ reads.gains = {}

NsqInv == /\ NsqCounts /\ NsqHolds /\ NsqGains /\ NsqPath /\ NsqBehind /\ NsqScale /\ NsqReads

(* The candidate that would be chosen now.                                 *)
LEMMA WinnerIs ==
  ASSUME states \in [Ids -> NsqState]
  PROVE  /\ Winner \in Ids
         /\ \A k \in Ids : states[Winner].rd \in Int /\ states[k].rd \in Int
                           /\ states[Winner].rd <= states[k].rd
<1>1. Rds \in [Ids -> Int] /\ \A k \in Ids : Rds[k] = states[k].rd /\ states[k].rd \in Int
  BY DEF Rds, NsqState
<1> QED BY <1>1, LeastIs DEF Winner

(* The subframe of a sample.                                               *)
LEMMA SubframeIs ==
  ASSUME NEW k \in Nat, NEW n \in Int, k * SubframeSamples <= n, n < (k + 1) * SubframeSamples
  PROVE  SubframeOf(n) = k + 1
<1> DEFINE i == n - k * SubframeSamples
<1>1. SubframeSamples \in Nat \ {0}
  BY LengthsAssumption
<1>2. i \in 0 .. SubframeSamples - 1 /\ n = k * SubframeSamples + i
  BY <1>1
<1> HIDE DEF i
<1>3. (k * SubframeSamples + i) \div SubframeSamples = k
  BY <1>1, <1>2, Quotient
<1> QED BY <1>2, <1>3 DEF SubframeOf

(* The round of a sample, as RoundKeeps describes it.                      *)
LEMMA SampleRound ==
  ASSUME NsqInv, Sample
  PROVE  /\ NsqHolds'
         /\ NsqBehind'
         /\ Same(states'[Winner'], states[Winner], Len(out))
         /\ IF Decides
            THEN \E pulse \in Int : /\ out' = Append(out, [pulse |-> pulse, gain |-> gains[Deciding(slot')]])
                                    /\ pulse = states'[Winner'].rand[Len(out) + 2]
            ELSE out' = out
<1> DEFINE to == (slot - 1 + BufferLength) % BufferLength
           last == Deciding(to)
           D == Delay(frame)
           n == Tried
           l == Len(out)
           gap == Penalty - Pending * Spread
<1>1. /\ frame \in FrameKinds /\ slot \in Slots /\ n \in Nat /\ states \in [Ids -> NsqState]
      /\ \A k \in Ids : HoldsLast(states[k], slot, n)
  BY CountsAre DEF NsqInv, NsqCounts, NsqHolds
<1>2. D \in 1 .. BufferLength
  BY <1>1, DelayIs
<1>3. Pending \in 0 .. D /\ Pending <= n /\ l = n - Pending
  BY CountsAre DEF NsqInv, NsqPath
<1>4. /\ ~Over /\ ~Over' /\ Tried' = n + 1 /\ slot' = to
      /\ Decides => Pending = D /\ Pending' = D
      /\ ~Decides => Pending' = Pending + 1
  BY SampleCounts DEF NsqInv
<1>5. to \in Slots
  BY <1>1, AgesGrow
<1>6. last \in Slots /\ Age(last, slot) = D - 1
  BY <1>1, <1>2, DecidingIs DEF Deciding
<1>7. PICK costs \in [Ids -> Costs] :
        /\ states' = Round(costs, to, last).states
        /\ out' = IF Decides THEN Append(out, Decided(Round(costs, to, last).winner, last)) ELSE out
  BY <1>4 DEF Sample, Decides
<1> HIDE DEF to, last
<1> DEFINE round == Round(costs, to, last)
<1>8. PICK f \in [Ids -> Ids], p \in [Ids -> {0, 1}], w \in Ids :
        /\ \A k \in Ids : FirstRd(costs, w) <= FirstRd(costs, k)
        /\ GoesThrough(round, costs, to, last, f, p, w)
  BY <1>1, <1>5, RoundDoes
<1> HIDE DEF round
<1>9. states' = round.states /\ round.states \in [Ids -> NsqState] /\ round.winner = states[w]
  BY <1>7, <1>8 DEF round, GoesThrough
<1>10. /\ Winner' \in Ids
       /\ \A k \in Ids : round.states[Winner'].rd <= round.states[k].rd
  <2>1. states' \in [Ids -> NsqState]
    BY <1>9
  <2>2. /\ Winner' \in Ids' /\ Ids' = Ids
        /\ \A k \in Ids : states'[Winner'].rd <= states'[k].rd
    <3>1. Rds' \in [Ids -> Int] /\ \A k \in Ids : Rds'[k] = states'[k].rd
      BY <2>1 DEF Rds, NsqState, Ids
    <3>2. Winner' = FirstLeast(Rds')
      BY DEF Winner, FirstLeast, Ids
    <3> QED BY <3>1, <3>2, LeastIs DEF Ids
  <2> QED BY <1>9, <2>2
<1>11. /\ Winner \in Ids /\ Trailing(states, Winner, l, gap)
  BY <1>1, <1>4, WinnerIs DEF NsqInv, NsqBehind
<1>12. /\ Spread \in Nat /\ gap \in Int /\ gap <= Penalty /\ Spread < gap
       /\ (Penalty - (Pending + 1) * Spread) = gap - Spread
       /\ ~Decides => Penalty - Pending' * Spread = gap - Spread
       /\ Pending' * Spread \in Nat
  <2>1. Spread \in Nat /\ (BufferLength + 1) * Spread < Penalty /\ BufferLength \in Nat
    BY SpreadIs, LengthsAssumption
  <2>2. Pending \in Nat /\ Pending <= BufferLength
    BY <1>2, <1>3, <2>1
  <2>3. Pending * Spread \in Nat /\ BufferLength * Spread \in Nat /\ Pending * Spread <= BufferLength * Spread
    BY <2>1, <2>2
  <2>4. (BufferLength + 1) * Spread = BufferLength * Spread + Spread
        /\ (Pending + 1) * Spread = Pending * Spread + Spread
    BY <2>1, <2>2
  <2>5. Pending' \in Nat
    BY <1>2, <1>3, <1>4
  <2>6. Pending' * Spread \in Nat
    <3>1. \A x \in Nat : x * Spread \in Nat
      BY <2>1
    <3> QED BY <2>5, <3>1
  <2> DEFINE ps == Pending * Spread
             bs == BufferLength * Spread
  <2>7. ps \in Nat /\ bs \in Nat /\ ps <= bs /\ bs + Spread < Penalty /\ gap = Penalty - ps
        /\ Penalty - (Pending + 1) * Spread = Penalty - (ps + Spread)
    BY <2>1, <2>3, <2>4
  <2>8. /\ gap \in Int /\ gap <= Penalty /\ Spread < gap
        /\ (Penalty - (Pending + 1) * Spread) = gap - Spread
    <3> HIDE DEF ps, bs, gap
    <3> QED BY <2>1, <2>7 DEF Penalty
  <2> HIDE DEF gap, ps, bs
  <2> QED BY <1>4, <2>1, <2>6, <2>8
<1> HIDE DEF gap
<1>13. /\ Same(round.states[Winner'], states[Winner], l)
       /\ Trailing(round.states, Winner', l, gap - Spread)
       /\ Age(last, slot) = n - l - 1 =>
            /\ Trailing(round.states, Winner', l + 1, Penalty)
            /\ round.winner.ring[last].pulse = round.states[Winner'].rand[l + 2]
  <2>1. l \in 0 .. n
    BY <1>1, <1>3
  <2>2. GoesThrough(round, costs, (slot - 1 + BufferLength) % BufferLength, last, f, p, w)
    BY <1>8 DEF to
  <2>3. \A k \in Ids : FirstRd(costs, w) <= FirstRd(costs, k)
    BY <1>8
  <2>4. /\ states \in [Ids -> NsqState] /\ n \in Nat /\ slot \in Slots /\ last \in Slots
        /\ \A k \in Ids : HoldsLast(states[k], slot, n)
        /\ gap \in Int /\ gap <= Penalty /\ Spread < gap
    BY <1>1, <1>6, <1>12
  <2> HIDE DEF l, n
  <2>5. RoundFrom(slot, last, n, l, Winner, gap)
    BY <1>11, <2>1, <2>4 DEF RoundFrom
  <2>6. RoundTo(round, costs, slot, last, f, p, w)
    BY <2>2, <2>3 DEF RoundTo
  <2>7. \A then \in Ids :
          (\A k \in Ids : round.states[then].rd <= round.states[k].rd)
            => RoundKept(round, slot, last, n, l, Winner, then, gap)
    BY <2>5, <2>6, RoundKeeps, Zenon
  <2>8. RoundKept(round, slot, last, n, l, Winner, Winner', gap)
    BY <1>10, <2>7
  <2> QED BY <2>8 DEF RoundKept
<1>14. NsqHolds'
  <2>1. ASSUME NEW k \in Ids
        PROVE  HoldsLast(round.states[k], to, n + 1)
    <3>1. /\ states[f[k]] \in NsqState /\ round.states[k] \in NsqState /\ p[k] \in {0, 1}
          /\ HoldsLast(states[f[k]], slot, n)
      BY <1>1, <1>9
    <3>2. GoesOnFrom(round.states[k], states[f[k]], p[k], (slot - 1 + BufferLength) % BufferLength)
      BY <1>8 DEF GoesThrough, to
    <3> HIDE DEF n
    <3> QED BY <1>1, <3>1, <3>2, HoldsOn DEF to
  <2>2. states' \in [Ids -> NsqState] /\ \A k \in Ids : HoldsLast(states'[k], slot', Tried')
    BY <1>4, <1>9, <2>1
  <2> QED BY <2>2 DEF NsqHolds, Ids, NsqState, NsqSample, Slots, HoldsLast, HoldsSample, Age
<1>15. CASE Decides
  <2>1. Age(last, slot) = n - l - 1
    BY <1>1, <1>2, <1>3, <1>4, <1>6, <1>15
  <2>2. /\ Trailing(round.states, Winner', l + 1, Penalty)
        /\ round.winner.ring[last].pulse = round.states[Winner'].rand[l + 2]
    BY <1>13, <2>1
  <2>3. out' = Append(out, [pulse |-> round.winner.ring[last].pulse, gain |-> gains[last]])
    BY <1>7, <1>15 DEF Decided, round
  <2>4. out \in Seq([pulse : Int, gain : Int])
    BY DEF NsqInv, NsqPath
  <2>5. Len(out') = l + 1
    BY <2>3, <2>4
  <2>6. round.winner.ring[last].pulse \in Int
    <3>1. states[w].ring[last] \in NsqSample
      BY <1>1, <1>6 DEF NsqState
    <3> QED BY <1>9, <3>1 DEF NsqSample
  <2>7. Trailing(states', Winner', Len(out'), Penalty - Pending' * Spread)
    <3>1. \A k \in Ids : round.states[k].rd \in Int
      BY <1>9 DEF NsqState
    <3> HIDE DEF l
    <3> QED BY <1>9, <1>10, <1>12, <2>2, <2>5, <3>1 DEF Trailing, Penalty
  <2>8. NsqBehind'
    BY <2>7 DEF NsqBehind, Trailing, Spread, Penalty, Ids, Same
  <2>9. last = Deciding(slot')
    BY <1>4 DEF last
  <2> QED BY <1>9, <1>13, <1>14, <1>15, <2>2, <2>3, <2>6, <2>8, <2>9
<1>16. CASE ~Decides
  <2>1. out' = out
    BY <1>7, <1>16
  <2>2. Trailing(states', Winner', Len(out'), Penalty - Pending' * Spread)
    BY <1>9, <1>12, <1>13, <1>16, <2>1
  <2>3. NsqBehind'
    BY <2>2 DEF NsqBehind, Trailing, Spread, Penalty, Ids, Same
  <2> QED BY <1>9, <1>13, <1>14, <1>16, <2>1, <2>3
<1> QED BY <1>15, <1>16

(* Numbers of a state in which a subframe is under way.                    *)
LEMMA Positions ==
  ASSUME NsqInv, ~Over
  PROVE  /\ Tried = (at.k - 1) * SubframeSamples + at.i
         /\ (at.k - 1) * SubframeSamples \in Nat /\ at.k - 1 \in Nat
         /\ at.k * SubframeSamples = (at.k - 1) * SubframeSamples + SubframeSamples
         /\ at.k * SubframeSamples <= Subframes * SubframeSamples
         /\ Subframes * SubframeSamples \in Nat /\ SubframeSamples \in Nat \ {0}
         /\ at.k \in 1 .. Subframes /\ at.i \in 0 .. SubframeSamples
         /\ Len(out) \in Nat /\ Len(out) = Tried - Pending /\ Pending \in 0 .. Delay(frame)
         /\ Delay(frame) \in 1 .. BufferLength /\ Delay(frame) <= SubframeSamples
         /\ Tried \in Nat
         /\ frame.lags[at.k] \in Nat /\ Delay(frame) + 3 <= frame.lags[at.k]
         /\ Reach(frame) \in Nat /\ frame.lags[at.k] + 2 <= Reach(frame)
<1>1. /\ NsqCounts /\ Len(out) = Tried - Pending /\ Subframes \in {2, 4}
      /\ at.k \in 1 .. Subframes /\ SubframesNow = at.k /\ at.i \in 0 .. SubframeSamples
      /\ Pending \in 0 .. Delay(frame) /\ Pending <= Tried /\ Tried \in Nat /\ frame \in FrameKinds
  BY CountsAre DEF NsqInv, NsqPath, NsqCounts
<1>2. /\ Delay(frame) \in 1 .. BufferLength /\ Delay(frame) <= SubframeSamples
      /\ frame.lags[at.k] \in Nat /\ Delay(frame) + 3 <= frame.lags[at.k]
      /\ Reach(frame) \in Nat /\ frame.lags[at.k] + 2 <= Reach(frame)
  <2>1. at.k \in DOMAIN frame.lags
    BY <1>1, FramesAssumption DEF Subframes
  <2> QED BY <1>1, <2>1, DelayIs, ReachIs
<1>3. Tried = (at.k - 1) * SubframeSamples + at.i
  BY <1>1 DEF Tried
<1>4. SubframeSamples \in Nat \ {0} /\ BufferLength \in Nat
  BY LengthsAssumption
<1> DEFINE k == at.k
<1>5. /\ (k - 1) * SubframeSamples \in Nat
      /\ k * SubframeSamples = (k - 1) * SubframeSamples + SubframeSamples
      /\ k * SubframeSamples <= Subframes * SubframeSamples
      /\ Subframes * SubframeSamples \in Nat
  <2>1. k \in 1 .. Subframes /\ Subframes \in {2, 4}
    BY <1>1
  <2> HIDE DEF k
  <2>2. k \in Nat /\ k - 1 \in Nat /\ Subframes - k \in Nat /\ SubframeSamples \in Nat
    BY <1>4, <2>1
  <2>3. \A a, b \in Nat : a * b \in Nat
    OBVIOUS
  <2>4. /\ (k - 1) * SubframeSamples \in Nat /\ (Subframes - k) * SubframeSamples \in Nat
        /\ k * SubframeSamples \in Nat /\ Subframes * SubframeSamples \in Nat
    BY <2>1, <2>2, <2>3
  <2>5. k * SubframeSamples = (k - 1) * SubframeSamples + SubframeSamples
    BY <2>2
  <2>6. Subframes * SubframeSamples = k * SubframeSamples + (Subframes - k) * SubframeSamples
    BY <2>1, <2>2
  <2> QED BY <2>4, <2>5, <2>6
<1>6. Len(out) \in Nat
  BY <1>1, <1>2, <1>4
<1>7. at.k - 1 \in Nat
  BY <1>1
<1> QED BY <1>1, <1>2, <1>3, <1>4, <1>5, <1>6, <1>7

(* A sample keeps the invariant: what it decides is next on the path, at   *)
(* the gain noted in its slot; what the lag reads is decided, and was      *)
(* brought to this subframe's gain.                                        *)
LEMMA SampleKeeps ==
  ASSUME NsqInv, Sample
  PROVE  NsqInv'
<1> DEFINE n == Tried
           l == Len(out)
           D == Delay(frame)
           start == (at.k - 1) * SubframeSamples
           lag == frame.lags[at.k]
<1>1. /\ NsqCounts' /\ ~Over /\ ~Over' /\ Tried' = n + 1
      /\ at'.k = at.k /\ frame' = frame /\ at.i < SubframeSamples
      /\ slot' = (slot - 1 + BufferLength) % BufferLength
      /\ Decides => Pending = D /\ Pending' = D
      /\ ~Decides => Pending' = Pending + 1
  BY SampleCounts DEF NsqInv
<1>2. /\ n = start + at.i /\ start \in Nat /\ at.k - 1 \in Nat
      /\ at.k * SubframeSamples = start + SubframeSamples
      /\ at.k * SubframeSamples <= Subframes * SubframeSamples
      /\ Subframes * SubframeSamples \in Nat /\ SubframeSamples \in Nat \ {0}
      /\ at.k \in 1 .. Subframes /\ at.i \in 0 .. SubframeSamples
      /\ l \in Nat /\ l = n - Pending /\ Pending \in 0 .. D
      /\ D \in 1 .. BufferLength /\ D <= SubframeSamples /\ n \in Nat
      /\ lag \in Nat /\ D + 3 <= lag /\ Reach(frame) \in Nat /\ lag + 2 <= Reach(frame)
  BY <1>1, Positions
<1>3. /\ NsqHolds' /\ NsqBehind'
      /\ Same(states'[Winner'], states[Winner], l)
      /\ IF Decides
         THEN \E pulse \in Int : /\ out' = Append(out, [pulse |-> pulse, gain |-> gains[Deciding(slot')]])
                                 /\ pulse = states'[Winner'].rand[l + 2]
         ELSE out' = out
  BY SampleRound
<1>4. /\ out \in Seq([pulse : Int, gain : Int])
      /\ \A j \in 1 .. l : /\ out[j].pulse = states[Winner].rand[j + 1]
                           /\ out[j].gain = SubframeOf(j - 1)
      /\ gains \in [Slots -> Int] /\ slot \in Slots
      /\ \A s \in Slots : Age(s, slot) < n => gains[s] = SubframeOf((n - Age(s, slot)) - 1)
  BY DEF NsqInv, NsqPath, NsqGains, NsqCounts
<1>5. /\ slot' \in Slots /\ Age(slot', slot') = 0
      /\ \A s \in Slots : /\ Age(s, slot) \in 0 .. BufferLength - 1
                          /\ s # slot' => Age(s, slot') = Age(s, slot) + 1
  BY <1>1, <1>4, AgesGrow
<1> HIDE DEF n, l, start, lag, D
<1>numbers. /\ n \in Nat /\ l \in Nat /\ l = n - Pending /\ Pending \in Nat /\ D \in Nat
      /\ start \in Nat /\ lag \in Nat /\ n = start + at.i /\ D + 3 <= lag /\ Pending <= D
      /\ at.i \in Nat /\ at.i < SubframeSamples /\ SubframeSamples \in Nat
  BY <1>1, <1>2
<1>6. NsqGains'
  <2>1. gains' = [gains EXCEPT ![slot'] = at.k]
    BY <1>1 DEF Sample
  <2>2. SubframeOf(n) = at.k
    <3>1. (at.k - 1) * SubframeSamples <= n /\ n < ((at.k - 1) + 1) * SubframeSamples /\ n \in Int
      BY <1>1, <1>2 DEF start
    <3>2. SubframeOf(n) = (at.k - 1) + 1
      BY <1>2, <3>1, SubframeIs
    <3> QED BY <1>2, <3>2
  <2>3. ASSUME NEW s \in Slots, Age(s, slot') < n + 1
        PROVE  gains'[s] = SubframeOf(((n + 1) - Age(s, slot')) - 1)
    <3>1. CASE s = slot'
      <4>1. ((n + 1) - Age(s, slot')) - 1 = n
        BY <1>2, <1>5, <3>1
      <4> QED BY <1>4, <2>1, <2>2, <3>1, <4>1
    <3>2. CASE s # slot'
      <4>1. Age(s, slot) < n /\ ((n + 1) - Age(s, slot')) - 1 = (n - Age(s, slot)) - 1
        BY <1>2, <1>5, <2>3, <3>2
      <4> QED BY <1>4, <2>1, <3>2, <4>1
    <3> QED BY <3>1, <3>2
  <2>4. gains' \in [Slots -> Int]
    <3>1. at.k \in Int
      BY <1>2
    <3> QED BY <1>4, <2>1, <3>1
  <2> QED BY <1>1, <2>3, <2>4 DEF NsqGains, Slots, Age, SubframeOf
<1>7. /\ out' \in Seq([pulse : Int, gain : Int]) /\ Len(out') = (n + 1) - Pending'
      /\ Len(out') \in {l, l + 1}
      /\ Len(out') = l => out' = out
      /\ \A j \in 1 .. Len(out') : /\ out'[j].pulse = states'[Winner'].rand[j + 1]
                                   /\ out'[j].gain = SubframeOf(j - 1)
  <2>1. ASSUME NEW j \in 1 .. l
        PROVE  out[j].pulse = states'[Winner'].rand[j + 1] /\ out[j].gain = SubframeOf(j - 1)
    <3>1. j + 1 \in 1 .. l + 1
      BY <1>2
    <3> QED BY <1>3, <1>4, <3>1 DEF Same
  <2>2. CASE ~Decides
    <3>1. out' = out /\ Len(out') = l
      BY <1>3, <2>2 DEF l
    <3>2. l = (n + 1) - Pending'
      BY <1>1, <1>numbers, <2>2
    <3> QED BY <1>4, <2>1, <3>1, <3>2
  <2>3. CASE Decides
    <3>1. PICK pulse \in Int : /\ out' = Append(out, [pulse |-> pulse, gain |-> gains[Deciding(slot')]])
                               /\ pulse = states'[Winner'].rand[l + 2]
      BY <1>3, <2>3
    <3> DEFINE last == Deciding(slot')
    <3>2. last \in Slots /\ Age(last, slot) = D - 1
      BY <1>1, <1>2, <1>4, DecidingIs DEF Deciding, D
    <3> HIDE DEF last
    <3>3. Age(last, slot) < n /\ (n - Age(last, slot)) - 1 = l
      BY <1>1, <1>2, <2>3, <3>2
    <3>4. gains[last] = SubframeOf(l) /\ gains[last] \in Int
      BY <1>4, <3>2, <3>3
    <3> DEFINE new == [pulse |-> pulse, gain |-> gains[last]]
    <3>5. out' = Append(out, new) /\ new \in [pulse : Int, gain : Int]
          /\ new.pulse = states'[Winner'].rand[l + 2] /\ new.gain = SubframeOf(l)
      BY <3>1, <3>4 DEF last
    <3> HIDE DEF new
    <3>6. /\ Len(out') = l + 1 /\ out' \in Seq([pulse : Int, gain : Int])
          /\ out'[l + 1] = new /\ \A j \in 1 .. l : out'[j] = out[j]
      BY <1>4, <3>5 DEF l
    <3>7. ASSUME NEW j \in 1 .. l + 1
          PROVE  /\ out'[j].pulse = states'[Winner'].rand[j + 1]
                 /\ out'[j].gain = SubframeOf(j - 1)
      <4>1. CASE j \in 1 .. l
        BY <2>1, <3>6, <4>1
      <4>2. CASE j = l + 1
        <5>1. j + 1 = l + 2 /\ j - 1 = l
          BY <1>2, <4>2
        <5> QED BY <3>5, <3>6, <4>2, <5>1
      <4> QED BY <1>2, <4>1, <4>2
    <3>8. l + 1 = (n + 1) - Pending' /\ l + 1 # l
      BY <1>1, <1>numbers, <2>3
    <3>9. Len(out') = (n + 1) - Pending' /\ Len(out') # l
      BY <3>6, <3>8
    <3> QED BY <3>6, <3>7, <3>9
  <2> QED BY <2>2, <2>3
<1>8. NsqPath'
  BY <1>1, <1>7 DEF NsqPath, SubframeOf
<1>9. /\ DOMAIN scale = -Reach(frame) .. Subframes * SubframeSamples
      /\ frame.voiced => \A p \in ((start - lag) - 2) .. (l - 1) : scale[p] = at.k
  BY <1>1 DEF NsqInv, NsqScale, start, lag, l
<1>10. NsqScale'
  <2>1. scale' = [p \in DOMAIN scale |-> IF p = Len(out') - 1 /\ out' # out THEN at.k ELSE scale[p]]
    BY <1>1 DEF Sample
  <2>2. Subframes' = Subframes /\ Reach(frame') = Reach(frame)
    BY <1>1 DEF Subframes
  <2> DEFINE m == Len(out')
  <2>3. m \in Int /\ m \in {l, l + 1} /\ (out' = out => m = l)
    BY <1>numbers, <1>7 DEF l
  <2>4. ASSUME frame.voiced, NEW p \in ((start - lag) - 2) .. (m - 1)
        PROVE  scale'[p] = at.k
    <3> HIDE DEF m
    <3>1. p \in Int /\ (start - lag) - 2 <= p /\ p <= m - 1
      BY <1>numbers, <2>3
    <3>2. p \in DOMAIN scale
      <4>1. p <= start + SubframeSamples
        BY <1>numbers, <2>3, <3>1
      <4>2. -Reach(frame) <= p
        BY <1>2, <1>numbers, <3>1
      <4> QED BY <1>2, <1>9, <3>1, <4>1, <4>2
    <3>3. CASE p = m - 1 /\ out' # out
      BY <2>1, <3>2, <3>3 DEF m
    <3>4. CASE ~(p = m - 1 /\ out' # out)
      <4>1. m = l \/ p # m - 1
        BY <2>3, <3>4
      <4>2. p \in ((start - lag) - 2) .. (l - 1)
        BY <1>numbers, <2>3, <3>1, <4>1
      <4> QED BY <1>9, <2>1, <2>4, <3>2, <3>4, <4>2 DEF m
    <3> QED BY <3>3, <3>4
  <2> QED BY <1>1, <1>9, <2>1, <2>2, <2>4 DEF NsqScale, start, lag
<1>11. NsqReads'
  <2>1. CASE ~frame.voiced
    BY <2>1 DEF Sample, NotPredicted, NsqReads
  <2>2. CASE frame.voiced
    <3> DEFINE from == start + (at.i - lag)
    <3>1. reads' = [past |-> from + (2 - l),
                    gains |-> {scale[p] : p \in (from - 2) .. (from + 2)} \ {at.k}]
      BY <2>2 DEF Sample, Predicted, start, lag, l
    <3>2. from + (2 - l) < 0 /\ \A p \in (from - 2) .. (from + 2) : p \in ((start - lag) - 2) .. (l - 1)
      BY <1>2
    <3> HIDE DEF from
    <3>3. \A p \in (from - 2) .. (from + 2) : scale[p] = at.k
      BY <1>9, <2>2, <3>2
    <3>4. {scale[p] : p \in (from - 2) .. (from + 2)} \ {at.k} = {}
      BY <3>3
    <3> QED BY <3>1, <3>2, <3>4 DEF NsqReads
  <2> QED BY <2>1, <2>2
<1> QED BY <1>1, <1>3, <1>6, <1>8, <1>10, <1>11 DEF NsqInv

(* At the end of a subframe: the best candidate's last samples, oldest     *)
(* first, are what follows what is decided.                                *)
Followed(rest) ==
  /\ out \o rest \in Seq([pulse : Int, gain : Int])
  /\ Len(out \o rest) = Tried
  /\ \A j \in 1 .. Tried : /\ (out \o rest)[j].pulse = states[Winner].rand[j + 1]
                           /\ (out \o rest)[j].gain = SubframeOf(j - 1)

LEMMA RestFollows ==
  ASSUME NsqInv, ~Over, Tried = at.k * SubframeSamples, Pending = Delay(frame)
  PROVE  Followed(Rest(at.k))
<1> DEFINE n == Tried
           l == Len(out)
           D == Delay(frame)
           rest == Rest(at.k)
           sample(j) == [pulse |-> states[Winner].rand[(l + j) + 1], gain |-> at.k]
<1>1. /\ n \in Nat /\ l \in Nat /\ l = n - D /\ D \in 1 .. BufferLength /\ D <= SubframeSamples
      /\ n = at.k * SubframeSamples /\ at.k \in Nat /\ at.k - 1 \in Nat
      /\ n = (at.k - 1) * SubframeSamples + SubframeSamples /\ SubframeSamples \in Nat
      /\ BufferLength \in Nat /\ (at.k - 1) * SubframeSamples \in Nat
  <2>1. BufferLength \in Nat
    BY LengthsAssumption
  <2>2. /\ n \in Nat /\ l \in Nat /\ l = n - D /\ D \in 1 .. BufferLength /\ D <= SubframeSamples
        /\ n = at.k * SubframeSamples /\ at.k \in 1 .. Subframes /\ at.k - 1 \in Nat
        /\ at.k * SubframeSamples = (at.k - 1) * SubframeSamples + SubframeSamples
        /\ SubframeSamples \in Nat /\ (at.k - 1) * SubframeSamples \in Nat
    BY Positions
  <2>3. at.k \in Nat
    BY <2>2
  <2> HIDE DEF n, l, D
  <2> QED BY <2>1, <2>2, <2>3
<1>2. /\ states \in [Ids -> NsqState] /\ HoldsLast(states[Winner], slot, n) /\ Winner \in Ids
      /\ slot \in Slots
  BY WinnerIs DEF NsqInv, NsqHolds, NsqCounts
<1>3. /\ out \in Seq([pulse : Int, gain : Int])
      /\ \A j \in 1 .. l : /\ out[j].pulse = states[Winner].rand[j + 1]
                           /\ out[j].gain = SubframeOf(j - 1)
  BY DEF NsqInv, NsqPath
<1> HIDE DEF n, l
<1>4. ASSUME NEW j \in 1 .. D
      PROVE  /\ states[Winner].ring[(slot + D - j) % BufferLength].pulse
                  = states[Winner].rand[(l + j) + 1]
             /\ states[Winner].rand[(l + j) + 1] \in Int
  <2> DEFINE s == (slot + (D - j)) % BufferLength
  <2>1. D - j \in 0 .. BufferLength - 1 /\ D - j < n /\ n - (D - j) = l + j
    BY <1>1
  <2>2. s \in Slots /\ Age(s, slot) = D - j
    BY <1>2, <2>1, SlotOfAge
  <2> HIDE DEF s
  <2>3. HoldsSample(states[Winner].ring[s], states[Winner].rand, l + j)
    BY <1>2, <2>1, <2>2 DEF HoldsLast
  <2>4. states[Winner].ring[s].pulse = states[Winner].rand[(l + j) + 1]
    BY <2>3 DEF HoldsSample
  <2>5. states[Winner].ring[s].pulse \in Int
    <3>1. states[Winner].ring[s] \in NsqSample
      BY <1>2, <2>2 DEF NsqState
    <3> QED BY <3>1 DEF NsqSample
  <2> QED BY <2>4, <2>5 DEF s
<1>5. rest = [j \in 1 .. D |-> sample(j)]
  BY <1>4 DEF Rest
<1>6. rest \in Seq([pulse : Int, gain : Int]) /\ Len(rest) = D
  <2>1. D \in Nat /\ at.k \in Int
    BY <1>1
  <2>2. \A j \in 1 .. D : sample(j) \in [pulse : Int, gain : Int]
    BY <1>4, <2>1
  <2>3. DOMAIN rest = 1 .. D /\ \A j \in 1 .. D : rest[j] = sample(j)
    BY <1>5
  <2> HIDE DEF sample, D, rest
  <2>4. rest \in [1 .. D -> [pulse : Int, gain : Int]]
    BY <1>5, <2>2
  <2>5. ASSUME NEW Entry, NEW many \in Nat, NEW list \in [1 .. many -> Entry]
        PROVE  list \in Seq(Entry) /\ Len(list) = many
    OBVIOUS
  <2> QED BY <2>1, <2>4, <2>5
<1>7. \A j \in 1 .. D : rest[j].pulse = states[Winner].rand[(l + j) + 1] /\ rest[j].gain = at.k
  BY <1>5
<1>8. ASSUME NEW j \in 1 .. D
      PROVE  SubframeOf((l + j) - 1) = at.k
  <2>1. /\ (at.k - 1) * SubframeSamples <= (l + j) - 1
        /\ (l + j) - 1 < ((at.k - 1) + 1) * SubframeSamples
        /\ (l + j) - 1 \in Int
    <3>1. ((at.k - 1) + 1) * SubframeSamples = n
      BY <1>1
    <3> QED BY <1>1, <3>1
  <2>2. SubframeOf((l + j) - 1) = (at.k - 1) + 1
    BY <1>1, <2>1, SubframeIs
  <2> QED BY <1>1, <2>2
<1> HIDE DEF rest, D
<1> DEFINE whole == out \o rest
<1>9. /\ whole \in Seq([pulse : Int, gain : Int]) /\ Len(whole) = l + D
      /\ \A j \in 1 .. l : whole[j] = out[j]
      /\ \A j \in l + 1 .. l + D : whole[j] = rest[j - l]
  <2>1. ASSUME NEW Entry, NEW a \in Seq(Entry), NEW b \in Seq(Entry)
        PROVE  /\ a \o b \in Seq(Entry) /\ Len(a \o b) = Len(a) + Len(b)
               /\ \A j \in 1 .. Len(a) : (a \o b)[j] = a[j]
               /\ \A j \in Len(a) + 1 .. Len(a) + Len(b) : (a \o b)[j] = b[j - Len(a)]
    OBVIOUS
  <2> QED BY <1>3, <1>6, <2>1 DEF l
<1> HIDE DEF whole
<1>10. ASSUME NEW j \in 1 .. n
       PROVE  whole[j].pulse = states[Winner].rand[j + 1] /\ whole[j].gain = SubframeOf(j - 1)
  <2>1. CASE j \in 1 .. l
    BY <1>3, <1>9, <2>1
  <2>2. CASE ~(j \in 1 .. l)
    <3>numbers. n \in Nat /\ l \in Nat /\ D \in Nat /\ n = l + D /\ j \in 1 .. n
      BY <1>1
    <3>1. j \in l + 1 .. l + D /\ j - l \in 1 .. D /\ l + (j - l) = j
      BY <2>2, <3>numbers
    <3>2. whole[j] = rest[j - l]
      BY <1>9, <3>1
    <3>3. rest[j - l].pulse = states[Winner].rand[j + 1] /\ rest[j - l].gain = at.k
      BY <1>7, <3>1
    <3>4. SubframeOf(j - 1) = at.k
      BY <1>8, <3>1
    <3> QED BY <3>2, <3>3, <3>4
  <2> QED BY <2>1, <2>2
<1>11. l + D = n
  BY <1>1
<1> QED BY <1>9, <1>10, <1>11 DEF Followed, whole, rest, n

(* A flush: all but the best one are behind by the penalty.                *)
LEMMA OthersOutAre ==
  ASSUME NsqHolds, ~Over, states' = OthersOut, slot' = slot, Tried' = Tried
  PROVE  /\ NsqHolds' /\ Winner' = Winner
         /\ \A n : Trailing(states', Winner, n, Penalty)
         /\ states'[Winner] = states[Winner]
<1>1. states \in [Ids -> NsqState] /\ \A k \in Ids : HoldsLast(states[k], slot, Tried)
  BY DEF NsqHolds
<1>2. /\ Winner \in Ids
      /\ \A k \in Ids : states[Winner].rd \in Int /\ states[k].rd \in Int
                        /\ states[Winner].rd <= states[k].rd
  BY <1>1, WinnerIs
<1>3. states' = [k \in Ids |-> IF k = Winner THEN states[k] ELSE [states[k] EXCEPT !.rd = @ + Penalty]]
  BY DEF OthersOut
<1>4. ASSUME NEW k \in Ids, k # Winner
      PROVE  /\ states'[k] \in NsqState /\ states'[k].rd = states[k].rd + Penalty
             /\ states'[k].rand = states[k].rand /\ states'[k].ring = states[k].ring
  <2> DEFINE rd == states[k].rd + Penalty
  <2>1. states'[k] = AtCost(states[k], rd)
    BY <1>3, <1>4 DEF AtCost
  <2>2. states[k] \in NsqState /\ rd \in Int
    BY <1>1, <1>2 DEF Penalty
  <2> HIDE DEF rd
  <2>3. /\ states'[k] \in NsqState /\ states'[k].rd = rd
        /\ states'[k].rand = states[k].rand /\ states'[k].ring = states[k].ring
    BY <2>1, <2>2, CostChanged, SMTT(30)
  <2> QED BY <2>3 DEF rd
<1>5. states'[Winner] = states[Winner]
  BY <1>2, <1>3
<1>6. ASSUME NEW k \in Ids
      PROVE  states'[k] \in NsqState /\ HoldsLast(states'[k], slot, Tried)
  <2>1. CASE k = Winner
    BY <1>1, <1>5, <2>1
  <2>2. CASE k # Winner
    <3>1. /\ states'[k] \in NsqState
          /\ states'[k].rand = states[k].rand /\ states'[k].ring = states[k].ring
      BY <1>4, <2>2
    <3> QED BY <1>1, <3>1 DEF HoldsLast
  <2> QED BY <2>1, <2>2
<1>7. states' \in [Ids -> NsqState]
  BY <1>3, <1>6
<1>8. NsqHolds'
  <2>1. \A k \in Ids : HoldsLast(states'[k], slot', Tried')
    BY <1>6
  <2> QED BY <1>7, <2>1 DEF NsqHolds, Ids, NsqState, NsqSample, Slots, HoldsLast, HoldsSample, Age
<1>9. ASSUME NEW k \in Ids, k # Winner
      PROVE  states'[Winner].rd + Penalty <= states'[k].rd /\ states'[k].rd \in Int
  <2>1. states'[k].rd = states[k].rd + Penalty /\ states'[Winner].rd = states[Winner].rd
    BY <1>4, <1>5, <1>9
  <2>2. states[Winner].rd \in Int /\ states[k].rd \in Int /\ states[Winner].rd <= states[k].rd
    BY <1>2
  <2> QED BY <2>1, <2>2 DEF Penalty
<1>10. Winner' = Winner
  <2>1. /\ Winner' \in Ids /\ \A k \in Ids : states'[Winner'].rd <= states'[k].rd
    <3>1. Rds' \in [Ids -> Int] /\ \A k \in Ids : Rds'[k] = states'[k].rd
      BY <1>7 DEF Rds, NsqState, Ids
    <3>2. Winner' = FirstLeast(Rds')
      BY DEF Winner, FirstLeast, Ids
    <3> QED BY <3>1, <3>2, LeastIs DEF Ids
  <2>2. states'[Winner].rd \in Int
    BY <1>2, <1>5
  <2>3. states'[Winner'].rd <= states'[Winner].rd
    BY <1>2, <2>1
  <2>4. ASSUME Winner' # Winner
        PROVE  FALSE
    <3>1. states'[Winner].rd + Penalty <= states'[Winner'].rd /\ states'[Winner'].rd \in Int
      BY <1>9, <2>1, <2>4
    <3> QED BY <2>2, <2>3, <3>1 DEF Penalty
  <2> QED BY <2>4
<1>11. \A n : Trailing(states', Winner, n, Penalty)
  BY <1>9 DEF Trailing, Same
<1> QED BY <1>5, <1>8, <1>10, <1>11

(* The next subframe, with or without a flush, and the end of the frame.   *)
LEMMA SubframeKeeps ==
  ASSUME NsqInv, NextSubframe
  PROVE  NsqInv'
<1>1. /\ NsqCounts' /\ ~Over /\ ~Over' /\ Tried' = Tried /\ Tried = at.k * SubframeSamples
      /\ at'.k = at.k + 1 /\ frame' = frame
      /\ slot' = slot /\ Pending = Delay(frame)
      /\ Pending' = IF FlushesAt(at.k + 1) THEN 0 ELSE Delay(frame)
  BY SubframeCounts DEF NsqInv
<1>2. /\ at.k < Subframes /\ gains' = gains /\ scale' = ScaledAt(at.k + 1, scale)
      /\ reads' = NotPredicted
  BY DEF NextSubframe
<1>3. NsqGains'
  BY <1>1, <1>2 DEF NsqInv, NsqGains, Slots, Age, SubframeOf
<1>4. NsqReads'
  BY <1>2 DEF NsqReads, NotPredicted
<1>5. /\ NsqHolds' /\ NsqPath' /\ NsqBehind'
      /\ Len(out') = IF FlushesAt(at.k + 1) THEN Tried ELSE Tried - Delay(frame)
  <2>1. CASE FlushesAt(at.k + 1)
    <3>1. out' = out \o Rest(2) /\ states' = OthersOut
      BY <2>1 DEF NextSubframe
    <3>2. at.k = 2
      <4>1. at.k \in 1 .. Subframes
        BY <1>1, Positions
      <4>2. at.k + 1 = 3
        BY <2>1 DEF FlushesAt
      <4> QED BY <4>1, <4>2
    <3>3. Followed(Rest(2))
      BY <1>1, <3>2, RestFollows
    <3>4. /\ NsqHolds' /\ Winner' = Winner /\ states'[Winner] = states[Winner]
          /\ Trailing(states', Winner, Len(out'), Penalty)
      BY <1>1, <3>1, OthersOutAre DEF NsqInv
    <3>5. Pending' = 0 /\ Tried \in Nat
      BY <1>1, <2>1, Positions
    <3>6. /\ out' \in Seq([pulse : Int, gain : Int]) /\ Len(out') = Tried
          /\ \A j \in 1 .. Len(out') : /\ out'[j].pulse = states'[Winner'].rand[j + 1]
                                       /\ out'[j].gain = SubframeOf(j - 1)
      BY <3>1, <3>3, <3>4 DEF Followed
    <3>7. NsqPath'
      BY <1>1, <3>5, <3>6 DEF NsqPath, SubframeOf
    <3>8. Penalty - Pending' * Spread = Penalty
      BY <3>5, SpreadIs DEF Penalty
    <3>9. NsqBehind'
      BY <3>4, <3>8 DEF NsqBehind, Trailing, Spread, Penalty, Ids, Same
    <3> QED BY <2>1, <3>4, <3>6, <3>7, <3>9
  <2>2. CASE ~FlushesAt(at.k + 1)
    <3>1. out' = out /\ states' = states /\ Pending' = Pending
      BY <1>1, <2>2 DEF NextSubframe
    <3>2. Winner' = Winner /\ Rds' = Rds
      BY <3>1 DEF Winner, Rds, FirstLeast, Ids
    <3>3. NsqHolds'
      BY <1>1, <3>1 DEF NsqInv, NsqHolds, Ids, NsqState, NsqSample, Slots, HoldsLast, HoldsSample, Age
    <3>4. NsqPath'
      BY <1>1, <3>1, <3>2 DEF NsqInv, NsqPath, SubframeOf
    <3>5. NsqBehind'
      <4>1. Trailing(states, Winner, Len(out), Penalty - Pending * Spread)
        BY <1>1 DEF NsqInv, NsqBehind
      <4>2. Trailing(states', Winner', Len(out'), Penalty - Pending' * Spread)
        BY <3>1, <3>2, <4>1
      <4> QED BY <4>2 DEF NsqBehind, Trailing, Spread, Penalty, Ids, Same
    <3>6. Len(out') = Tried - Delay(frame)
      BY <1>1, <3>1 DEF NsqInv, NsqPath
    <3> QED BY <2>2, <3>3, <3>4, <3>5, <3>6
  <2> QED BY <2>1, <2>2
<1>6. NsqScale'
  <2> DEFINE k == at.k + 1
             start == at.k * SubframeSamples
             end == IF FlushesAt(k) THEN start ELSE start - Delay(frame)
  <2>1. /\ k \in 1 .. Subframes /\ k # 1 /\ k - 1 = at.k
        /\ start \in Nat /\ start <= Subframes * SubframeSamples
        /\ Subframes * SubframeSamples \in Nat /\ Delay(frame) \in Nat
    <3>1. BufferLength \in Nat
      BY LengthsAssumption
    <3>2. /\ at.k \in 1 .. Subframes /\ at.k - 1 \in Nat /\ SubframeSamples \in Nat
          /\ at.k * SubframeSamples = (at.k - 1) * SubframeSamples + SubframeSamples
          /\ (at.k - 1) * SubframeSamples \in Nat
          /\ at.k * SubframeSamples <= Subframes * SubframeSamples
          /\ Subframes * SubframeSamples \in Nat /\ Delay(frame) \in 1 .. BufferLength
      BY <1>1, Positions
    <3>3. Subframes \in Nat
      BY <1>2, FramesAssumption DEF NsqInv, NsqCounts, Subframes
    <3>4. k \in 1 .. Subframes /\ k # 1 /\ k - 1 = at.k
      BY <1>2, <3>2, <3>3
    <3>5. start \in Nat /\ start <= Subframes * SubframeSamples
      <4> DEFINE prev == (at.k - 1) * SubframeSamples
      <4>1. prev \in Nat /\ start = prev + SubframeSamples
        BY <3>2
      <4> HIDE DEF prev, start
      <4> QED BY <3>2, <4>1 DEF start
    <3> QED BY <3>1, <3>2, <3>4, <3>5
  <2>2. frame.lags[k] \in Nat /\ Reach(frame) \in Nat /\ frame.lags[k] + 2 <= Reach(frame)
    <3>1. frame \in FrameKinds /\ k \in DOMAIN frame.lags
      BY <2>1, FramesAssumption DEF NsqInv, NsqCounts, Subframes
    <3> QED BY <3>1, DelayIs, ReachIs
  <2>3. DOMAIN scale = -Reach(frame) .. Subframes * SubframeSamples
    BY DEF NsqInv, NsqScale
  <2>4. (k - 1) * SubframeSamples = start
    BY <2>1
  <2>5. scale' = [p \in DOMAIN scale |->
                    IF frame.voiced /\ p \in (start - frame.lags[k] - 2) .. (end - 1)
                    THEN k ELSE scale[p]]
    <3>1. scale' = ScaledAt(k, scale)
      BY <1>2
    <3> HIDE DEF k
    <3> QED BY <2>1, <2>4, <3>1 DEF ScaledAt
  <2>6. Len(out') = end
    BY <1>1, <1>5
  <2>7. end \in Int /\ end <= start
    BY <2>1
  <2> HIDE DEF k, start, end
  <2>8. ASSUME frame.voiced, NEW p \in ((start - frame.lags[k]) - 2) .. (Len(out') - 1)
        PROVE  scale'[p] = k
    <3>1. p \in Int /\ (start - frame.lags[k]) - 2 <= p /\ p <= end - 1
      BY <2>1, <2>2, <2>6, <2>7, <2>8
    <3>2. p \in (start - frame.lags[k] - 2) .. (end - 1)
      BY <2>1, <2>2, <2>7, <3>1
    <3>3. p \in DOMAIN scale
      <4>1. p <= Subframes * SubframeSamples
        BY <2>1, <2>7, <3>1
      <4>2. -Reach(frame) <= p
        <5> DEFINE lag == frame.lags[k]
                   reach == Reach(frame)
        <5>1. /\ lag \in Nat /\ reach \in Nat /\ lag + 2 <= reach /\ start \in Nat
              /\ p \in Int /\ (start - lag) - 2 <= p
          BY <2>1, <2>2, <3>1
        <5> HIDE DEF lag, reach
        <5>2. -reach <= p
          BY <5>1
        <5> QED BY <5>2 DEF reach
      <4> QED BY <2>3, <3>1, <4>1, <4>2
    <3> QED BY <2>5, <2>8, <3>2, <3>3
  <2>9. at'.k = k /\ (at'.k - 1) * SubframeSamples = start
    BY <1>1, <2>4 DEF k
  <2>10. Subframes' = Subframes /\ Reach(frame') = Reach(frame)
    BY <1>1 DEF Subframes
  <2> QED BY <1>1, <2>3, <2>5, <2>8, <2>9, <2>10 DEF NsqScale
<1> QED BY <1>1, <1>3, <1>4, <1>5, <1>6 DEF NsqInv

LEMMA FinishKeeps ==
  ASSUME NsqInv, Finish
  PROVE  NsqInv'
<1>1. /\ NsqCounts' /\ ~Over /\ Over' /\ Tried' = Tried
      /\ Tried = Subframes * SubframeSamples /\ Tried = at.k * SubframeSamples
      /\ frame' = frame /\ slot' = slot /\ Pending = Delay(frame) /\ Pending' = 0
  BY FinishCounts DEF NsqInv
<1>2. /\ at.k = Subframes /\ out' = out \o Rest(Subframes)
      /\ states' = states /\ gains' = gains /\ scale' = scale /\ reads' = NotPredicted
  BY DEF Finish
<1>3. Followed(Rest(at.k)) /\ Tried \in Nat
  BY <1>1, RestFollows, Positions
<1>4. Winner' = Winner
  BY <1>2 DEF Winner, Rds, FirstLeast, Ids
<1>5. NsqHolds'
  BY <1>1, <1>2 DEF NsqInv, NsqHolds, Ids, NsqState, NsqSample, Slots, HoldsLast, HoldsSample, Age
<1>6. NsqGains'
  BY <1>1, <1>2 DEF NsqInv, NsqGains, Slots, Age, SubframeOf
<1>7. NsqPath'
  <2>1. Tried' - Pending' = Tried
    BY <1>1, <1>3
  <2> QED BY <1>2, <1>3, <1>4, <2>1 DEF NsqPath, Followed, SubframeOf
<1>8. NsqBehind' /\ NsqReads'
  BY <1>1, <1>2 DEF NsqBehind, NsqReads, NotPredicted
<1>9. NsqScale'
  BY <1>1, <1>2 DEF NsqInv, NsqScale, Subframes
<1> QED BY <1>1, <1>5, <1>6, <1>7, <1>8, <1>9 DEF NsqInv

(* At first nothing is decided, and every path is as good.                 *)
LEMMA NsqStarts ==
  ASSUME NsqInit
  PROVE  NsqInv
<1>1. /\ frame \in FrameKinds /\ states = [k \in Ids |-> Fresh(k)]
      /\ gains = [s \in Slots |-> 0] /\ slot = 0 /\ at = [k |-> 1, i |-> 0, nsq |-> 0]
      /\ out = <<>> /\ reads = NotPredicted
      /\ scale = ScaledAt(1, [p \in -Reach(frame) .. Subframes * SubframeSamples |-> 0])
  BY DEF NsqInit
<1>2. /\ Subframes \in {2, 4} /\ BufferLength \in Nat \ {0} /\ SubframeSamples \in Nat \ {0}
  BY <1>1, FramesAssumption, LengthsAssumption DEF Subframes
<1>3. NsqCounts /\ ~Over
  BY <1>1, <1>2 DEF NsqCounts, Over, Slots
<1>4. Tried = 0 /\ Pending = 0
  <2>1. 0 < Delay(frame) /\ Delay(frame) \in Nat
    BY <1>1, <1>2, DelayIs
  <2>2. SubframesNow = 1
    BY <1>1, <1>3 DEF SubframesNow
  <2>3. (1 - 1) * SubframeSamples = 0
    BY <1>2
  <2> QED BY <1>1, <1>3, <2>1, <2>2, <2>3 DEF Tried, Pending
<1>5. \A s \in Slots : Age(s, slot) \in Nat
  BY <1>1, <1>2 DEF Slots, Age
<1>6. NsqHolds
  <2>1. ASSUME NEW k \in Ids
        PROVE  states[k] \in NsqState /\ Len(states[k].rand) = 1
    <3>1. k \in Int
      BY CandidatesAssumption DEF Ids
    <3>2. /\ states[k] = Fresh(k)
      BY <1>1
    <3> QED BY <3>1, <3>2 DEF Fresh, NsqState, NsqSample, Undone
  <2>2. states \in [Ids -> NsqState]
    BY <1>1, <2>1
  <2> QED BY <1>4, <1>5, <2>1, <2>2 DEF NsqHolds, HoldsLast
<1>7. NsqGains
  BY <1>1, <1>4, <1>5 DEF NsqGains
<1>8. NsqPath
  BY <1>1, <1>4 DEF NsqPath
<1>9. NsqBehind
  <2>1. Len(out) = 0
    BY <1>1
  <2> QED BY <2>1 DEF NsqBehind, Trailing, Same
<1>10. NsqScale
  <2> DEFINE lag == frame.lags[1]
             past == [p \in -Reach(frame) .. Subframes * SubframeSamples |-> 0]
  <2>1. lag \in Nat /\ Reach(frame) \in Nat /\ lag + 2 <= Reach(frame)
    <3>1. 1 \in DOMAIN frame.lags
      BY <1>1, FramesAssumption
    <3> QED BY <1>1, <3>1, DelayIs, ReachIs
  <2>2. (1 - 1) * SubframeSamples = 0
    BY <1>2
  <2>3. scale = [p \in DOMAIN past |-> IF frame.voiced /\ p \in (0 - lag - 2) .. (0 - 1) THEN 1 ELSE past[p]]
    BY <1>1, <2>2 DEF ScaledAt
  <2>4. DOMAIN scale = -Reach(frame) .. Subframes * SubframeSamples
    BY <2>3
  <2>5. Subframes * SubframeSamples \in Nat
    <3>1. \A a, b \in Nat : a * b \in Nat
      OBVIOUS
    <3>2. Subframes \in Nat /\ SubframeSamples \in Nat
      BY <1>2
    <3> QED BY <3>1, <3>2
  <2> HIDE DEF lag
  <2>6. ASSUME frame.voiced, NEW p \in ((0 - lag) - 2) .. -1
        PROVE  scale[p] = 1
    <3>1. p \in (0 - lag - 2) .. (0 - 1)
      BY <2>1
    <3>2. p \in Int /\ p <= 0 /\ -Reach(frame) <= p
      BY <2>1
    <3>3. p \in DOMAIN past
      BY <2>1, <2>5, <3>2
    <3> QED BY <2>3, <2>6, <3>1, <3>3
  <2>7. Len(out) - 1 = -1 /\ at.k = 1
    BY <1>1
  <2> QED BY <2>2, <2>4, <2>6, <2>7 DEF NsqScale, lag
<1>11. NsqReads
  BY <1>1 DEF NsqReads, NotPredicted
<1> QED BY <1>3, <1>6, <1>7, <1>8, <1>9, <1>10, <1>11 DEF NsqInv

(* The invariant is strong enough.                                         *)
LEMMA PathIsOne ==
  ASSUME NsqInv
  PROVE  DecidedAreOnePath
<1>1. ASSUME Over
      PROVE  Len(out) = Subframes * SubframeSamples
  <2>1. /\ Len(out) = Tried - Pending /\ Pending = 0 /\ Tried \in Nat
        /\ Tried = (Subframes - 1) * SubframeSamples + SubframeSamples
    BY <1>1, CountsAre DEF NsqInv, NsqPath, NsqCounts, Tried, Pending, SubframesNow
  <2>2. Subframes \in Nat /\ SubframeSamples \in Nat
    BY CountsAre, LengthsAssumption DEF NsqInv
  <2> QED BY <2>1, <2>2
<1>2. DOMAIN out = 1 .. Len(out)
  BY DEF NsqInv, NsqPath
<1> QED BY <1>1, <1>2 DEF DecidedAreOnePath, NsqInv, NsqPath, NsqReads, SubframeOf

(* For any number of candidates, any lengths of buffer and subframe, any   *)
(* lags and any costs within the penalty: what the quantizer decides,      *)
(* sample by sample, is at every moment the path of the candidate whose    *)
(* seed would be sent, each sample at the gain of its own subframe, and in *)
(* the end it is a whole frame; and prediction reads no sample that is not *)
(* decided, nor one at another gain.                                       *)
THEOREM OnePathIsDecided == NsqSpec => []DecidedAreOnePath
<1>1. NsqInit => NsqInv
  BY NsqStarts
<1>2. NsqInv /\ [NsqNext]_nsqVars => NsqInv'
  <2> SUFFICES ASSUME NsqInv, [NsqNext]_nsqVars
               PROVE  NsqInv'
    OBVIOUS
  <2>1. CASE Sample
    BY <2>1, SampleKeeps
  <2>2. CASE NextSubframe
    BY <2>2, SubframeKeeps
  <2>3. CASE Finish
    BY <2>3, FinishKeeps
  <2>4. CASE UNCHANGED nsqVars
    <3>1. /\ frame' = frame /\ states' = states /\ gains' = gains /\ slot' = slot /\ at' = at
          /\ out' = out /\ scale' = scale /\ reads' = reads
      BY <2>4 DEF nsqVars
    <3>2. Over' = Over /\ Subframes' = Subframes /\ Winner' = Winner
      BY <3>1 DEF Over, Subframes, Winner, Rds, FirstLeast, Ids
    <3>3. Tried' = Tried /\ Pending' = Pending
      BY <3>1, <3>2 DEF Tried, Pending, SubframesNow
    <3>4. NsqCounts' /\ NsqGains' /\ NsqReads' /\ NsqScale'
      BY <3>1, <3>2, <3>3 DEF NsqInv, NsqCounts, NsqGains, NsqReads, NsqScale, Slots, Age, SubframeOf
    <3>5. NsqHolds'
      BY <3>1, <3>3 DEF NsqInv, NsqHolds, Ids, NsqState, NsqSample, Slots, HoldsLast, HoldsSample, Age
    <3>6. NsqPath'
      BY <3>1, <3>2, <3>3 DEF NsqInv, NsqPath, SubframeOf
    <3>7. NsqBehind'
      <4>1. CASE Over
        BY <3>2, <4>1 DEF NsqBehind
      <4>2. CASE ~Over
        <5>1. Trailing(states, Winner, Len(out), Penalty - Pending * Spread)
          BY <4>2 DEF NsqInv, NsqBehind
        <5>2. Trailing(states', Winner', Len(out'), Penalty - Pending' * Spread)
          BY <3>1, <3>2, <3>3, <5>1
        <5> QED BY <5>2 DEF NsqBehind, Trailing, Spread, Penalty, Ids, Same
      <4> QED BY <4>1, <4>2
    <3> QED BY <3>4, <3>5, <3>6, <3>7 DEF NsqInv
  <2> QED BY <2>1, <2>2, <2>3, <2>4 DEF NsqNext
<1>3. NsqInv => DecidedAreOnePath
  BY PathIsOne
<1> QED BY <1>1, <1>2, <1>3, PTL DEF NsqSpec
=============================================================================
