----------------------------- MODULE BandCoding -----------------------------
(***************************************************************************)
(* How the shape of each band of a CELT frame is coded (celt/bands.rs):    *)
(* quant_all_bands and what it calls, on what they say to the entropy      *)
(* coder and how they pass the bits on.  A band too rich for one vector of *)
(* pulses is split in two, by an angle that says how the energy lies       *)
(* between the halves; so are the two channels of a stereo band.  What the *)
(* encoder finds in the spectrum is one angle per band (pick.angle, 0 to   *)
(* 16384) and a sign; the signal itself, its folding and its noise are not *)
(* modelled.                                                               *)
(***************************************************************************)
EXTENDS BitAllocation

Half == 8192
Whole == 16384
Quotient(x, y) == IF x < 0 THEN -((-x) \div y) ELSE x \div y    \* as Rust divides

(***************************************************************************)
(* The prices.  size is the length the band has been split to (LM, -1 for  *)
(* half a block); the prices rise with the pulses.                         *)
(***************************************************************************)
Has(band, size) == PulseBits(band, size) # <<>>
Price(band, size, q) == IF q = 0 THEN 0 ELSE PulseBits(band, size)[q] + 1

(* bits2pulses: the price nearest to bits, the lower when two are.         *)
Under(band, size, bits) ==
  Max({0} \cup {q \in DOMAIN PulseBits(band, size) : PulseBits(band, size)[q] < bits - 1})
Nearer(band, size, bits, lo) ==
  LET below == IF lo = 0 THEN -1 ELSE PulseBits(band, size)[lo]
      hi    == AtMost(lo + 1, Len(PulseBits(band, size)))
  IN IF bits - 1 - below <= PulseBits(band, size)[hi] - (bits - 1) THEN lo ELSE hi
Bits2Pulses(band, size, bits) ==
  IF ~Has(band, size) THEN 0 ELSE Nearer(band, size, bits, Under(band, size, bits))

GetPulses(q) == IF q < 8 THEN q ELSE (8 + (q % 8)) * 2 ^ (q \div 8 - 1)

(***************************************************************************)
(* The integer cosine and the logarithm of a tangent that turn an angle    *)
(* into how many more bits one half needs than the other (delta).          *)
(***************************************************************************)
FracMul(a, b) == (Half * 2 + a * b) \div (4 * Half)
BitexactCos(x) ==
  LET x2 == (4096 + x * x) \div Half
  IN 1 + 32767 - x2 + FracMul(x2, FracMul(x2, 8277 + FracMul(-626, x2)) - 7651)
BitLength(x) == IF x = 0 THEN 0 ELSE CHOOSE b \in 1 .. 16 : 2 ^ (b - 1) <= x /\ x < 2 ^ b
Normal(x) == x * 2 ^ AtLeast(0, 15 - BitLength(x))
LogPart(x) == FracMul(Normal(x), FracMul(Normal(x), -2597) + 7932)
BitexactLog2Tan(isin, icos) ==
  (BitLength(isin) - BitLength(icos)) * 2048 + LogPart(isin) - LogPart(icos)

DeltaAt(n, itheta) ==
  ((n - 1) * 128 * BitexactLog2Tan(BitexactCos(Whole - itheta), BitexactCos(itheta)) + Whole)
    \div (2 * Whole)
Delta(n, itheta) ==
  IF itheta = 0 THEN -Whole ELSE IF itheta = Whole THEN Whole ELSE DeltaAt(n, itheta)

(***************************************************************************)
(* compute_theta: the angle, in as many steps as its bits are worth.  g is *)
(* the band being coded: its index, the encoder's pick, where intensity    *)
(* stereo starts and whether a split may still add noise (avoid).          *)
(***************************************************************************)
Exp2Table8 == <<16384, 17866, 19483, 21247, 23170, 25267, 27554, 30048>>
Steps2(qb) == LET raw == Exp2Table8[(qb % 8) + 1] \div 2 ^ (14 - qb \div 8)
              IN AtMost(((raw + 1) \div 2) * 2, 256)
ComputeQn(n, b, offset, pulseCap, stereo) ==
  LET n2 == 2 * n - 1 - (IF stereo /\ n = 2 THEN 1 ELSE 0)
      qb == Min({Quotient(b + n2 * offset, n2), b - pulseCap - 4 * BitRes, 8 * BitRes})
  IN IF qb < BitRes \div 2 THEN 1 ELSE Steps2(qb)

QnOf(g, n, b, size, stereo) ==
  LET pulseCap == LogN[g.band + 1] + size * BitRes
      offset   == pulseCap \div 2 - (IF stereo /\ n = 2 THEN 16 ELSE 4)
  IN IF stereo /\ g.band >= g.intensity THEN 1 ELSE ComputeQn(n, b, offset, pulseCap, stereo)

AngleModel(n, qn, blocks0, stereo) ==
  IF stereo /\ n > 2 THEN Angle("step", qn)
  ELSE IF blocks0 > 1 \/ stereo THEN Uint(qn + 1) ELSE Angle("triangle", qn)

(* A split whose halves differ by more than its bits is not worth noise.   *)
Quantised(g, n, b, qn, stereo) ==
  LET step  == (g.pick.angle * qn + Half) \div Whole
      delta == DeltaAt(n, (step * Whole) \div qn)
  IN IF stereo \/ ~g.avoid \/ step = 0 \/ step = qn THEN step
     ELSE IF delta > b THEN qn ELSE IF delta < -b THEN 0 ELSE step

(* In one step: nothing to say but, for stereo, whether to invert a side.  *)
Inversion(g, c, b, remaining) ==
  IF b > 2 * BitRes /\ remaining > 2 * BitRes
  THEN Took(Code(c, Bit(2), IF g.pick.angle > Half THEN 1 ELSE 0).c, 0)
  ELSE Took(c, 0)

AngleIn(c, model, qn, step) ==
  LET coded == Code(c, model, step) IN Took(coded.c, (coded.value * Whole) \div qn)

ThetaIn(g, c, n, b, blocks0, stereo, remaining, qn) ==
  IF qn # 1 THEN AngleIn(c, AngleModel(n, qn, blocks0, stereo), qn, Quantised(g, n, b, qn, stereo))
  ELSE IF stereo THEN Inversion(g, c, b, remaining)
  ELSE Took(c, IF c.writes THEN g.pick.angle ELSE 0)

Theta(g, c, n, b, blocks0, size, stereo, remaining) ==
  ThetaIn(g, c, n, b, blocks0, stereo, remaining, QnOf(g, n, b, size, stereo))

(***************************************************************************)
(* A vector of pulses; x is the coder and the bits its band has left.  As  *)
(* many pulses are given up as the bits require.                           *)
(***************************************************************************)
Affordable(g, x, size, q) ==
  Max({0} \cup {p \in 1 .. q : Price(g.band, size, p) <= x.remaining})

LeafOf(g, x, size, q) ==
  IF q = 0 THEN x
  ELSE [c |-> Code(x.c, Pulses(GetPulses(q), Price(g.band, size, q) - 1), g.pick.sign).c,
        remaining |-> x.remaining - Price(g.band, size, q)]
Leaf(g, x, b, size) ==
  LeafOf(g, x, size, Affordable(g, x, size, Bits2Pulses(g.band, size, b)))

(* Whether a vector is too rich to be coded in one.                        *)
Richest(band, size) == PulseBits(band, size)[Len(PulseBits(band, size))]
Splits(g, n, b, size) ==
  size >= 0 /\ n > 2 /\ Has(g.band, size) /\ b > Richest(g.band, size) + 12

(* The bits of the two halves; of short blocks, the quieter gets more.     *)
Tilted(delta, itheta, n, blocks0, size) ==
  IF blocks0 = 1 \/ itheta \in {0, Whole} THEN delta
  ELSE IF itheta > Half THEN delta - delta \div 2 ^ (4 - size)
  ELSE AtMost(0, delta + (n * BitRes) \div 2 ^ (5 - size))
MidBits(b, delta) == AtMost(AtLeast(0, Quotient(b - delta, 2)), b)

(* What the first half left, beyond 3 bits, goes to the second, unless the *)
(* angle says that there is nothing in it.                                 *)
Spare(given, before, after) == given - (before - after)
WithSpare(bits, spare, empty) ==
  IF spare > 3 * BitRes /\ ~empty THEN bits + spare - 3 * BitRes ELSE bits

RECURSIVE Partition(_, _, _, _, _, _), PartitionEncode(_, _, _, _, _, _)

(* The decoder's, and the encoder's copy of it without the synthesis.      *)
Second(g, x, n, bits, spare, empty, blocks, size) ==
  Partition(g, x, n, WithSpare(bits, spare, empty), blocks, size)
Halves(g, x, n, itheta, mbits, sbits, blocks, size) ==
  IF mbits >= sbits
  THEN LET mid == Partition(g, x, n, mbits, blocks, size)
       IN Second(g, mid, n, sbits, Spare(mbits, x.remaining, mid.remaining), itheta = 0,
                 blocks, size)
  ELSE LET side == Partition(g, x, n, sbits, blocks, size)
       IN Second(g, side, n, mbits, Spare(sbits, x.remaining, side.remaining), itheta = Whole,
                 blocks, size)
ShareOut(g, x, n, itheta, b, mbits, blocks, size) ==
  Halves(g, x, n, itheta, mbits, b - mbits, blocks, size)
SplitAt(g, x, n, b, blocks0, size, theta) ==
  LET qalloc == theta.c.at - x.c.at
  IN ShareOut(g, [c |-> theta.c, remaining |-> x.remaining - qalloc], n, theta.value, b - qalloc,
       MidBits(b - qalloc, Tilted(Delta(n, theta.value), theta.value, n, blocks0, size)),
       (blocks0 + 1) \div 2, size)
Partition(g, x, n, b, blocks, size) ==
  IF Splits(g, n, b, size)
  THEN SplitAt(g, x, n \div 2, b, blocks, size - 1,
         Theta(g, x.c, n \div 2, b, blocks, size - 1, FALSE, x.remaining))
  ELSE Leaf(g, x, b, size)

SecondEncode(g, x, n, bits, spare, empty, blocks, size) ==
  PartitionEncode(g, x, n, WithSpare(bits, spare, empty), blocks, size)
HalvesEncode(g, x, n, itheta, mbits, sbits, blocks, size) ==
  IF mbits >= sbits
  THEN LET mid == PartitionEncode(g, x, n, mbits, blocks, size)
       IN SecondEncode(g, mid, n, sbits, Spare(mbits, x.remaining, mid.remaining), itheta = 0,
                       blocks, size)
  ELSE LET side == PartitionEncode(g, x, n, sbits, blocks, size)
       IN SecondEncode(g, side, n, mbits, Spare(sbits, x.remaining, side.remaining),
                       itheta = Whole, blocks, size)
ShareOutEncode(g, x, n, itheta, b, mbits, blocks, size) ==
  HalvesEncode(g, x, n, itheta, mbits, b - mbits, blocks, size)
SplitAtEncode(g, x, n, b, blocks0, size, theta) ==
  LET qalloc == theta.c.at - x.c.at
  IN ShareOutEncode(g, [c |-> theta.c, remaining |-> x.remaining - qalloc], n, theta.value,
       b - qalloc,
       MidBits(b - qalloc, Tilted(Delta(n, theta.value), theta.value, n, blocks0, size)),
       (blocks0 + 1) \div 2, size)
PartitionEncode(g, x, n, b, blocks, size) ==
  IF n # 2 /\ Splits(g, n, b, size)
  THEN SplitAtEncode(g, x, n \div 2, b, blocks, size - 1,
         Theta(g, x.c, n \div 2, b, blocks, size - 1, FALSE, x.remaining))
  ELSE Leaf(g, x, b, size)

(***************************************************************************)
(* A band of one channel, and of two.                                      *)
(***************************************************************************)
Sign(g, x) ==
  IF x.remaining >= BitRes
  THEN [c |-> Code(x.c, Raw(1), g.pick.sign).c, remaining |-> x.remaining - BitRes]
  ELSE x

(* The blocks a band has after its change of time resolution: recombined,  *)
(* or divided while its length allows.                                     *)
Divides(blocks, n, times) ==
  Max({d \in 0 .. times : \A e \in 0 .. d - 1 : ((n \div blocks) \div 2 ^ e) % 2 = 0})
BlocksAfter(blocks, n, change) ==
  IF change >= 0 THEN blocks \div 2 ^ change ELSE blocks * 2 ^ Divides(blocks, n, -change)

QuantBand(g, x, n, b, blocks, size) ==
  IF n = 1 THEN Sign(g, x)
  ELSE IF x.c.writes THEN PartitionEncode(g, x, n, b, BlocksAfter(blocks, n, g.change), size)
  ELSE Partition(g, x, n, b, BlocksAfter(blocks, n, g.change), size)

(* Two bins of two channels: one vector, and the sign of its normal.       *)
PairOf(g, c, remaining, b, sbits, blocks, size) ==
  QuantBand(g, [c |-> IF sbits > 0 THEN Code(c, Raw(1), g.pick.sign).c ELSE c,
                remaining |-> remaining - sbits], 2, b - sbits, blocks, size)
Pair(g, x, b, blocks, size, theta) ==
  LET qalloc == theta.c.at - x.c.at
  IN PairOf(g, theta.c, x.remaining - qalloc, b - qalloc,
            IF theta.value \in {0, Whole} THEN 0 ELSE BitRes, blocks, size)

SecondChannel(g, x, n, bits, spare, empty, blocks, size) ==
  QuantBand(g, x, n, WithSpare(bits, spare, empty), blocks, size)
Channels(g, x, n, itheta, mbits, sbits, blocks, size) ==
  IF mbits >= sbits
  THEN LET mid == QuantBand(g, x, n, mbits, blocks, size)
       IN SecondChannel(g, mid, n, sbits, Spare(mbits, x.remaining, mid.remaining), itheta = 0,
                        blocks, size)
  ELSE LET side == QuantBand(g, x, n, sbits, blocks, size)
       IN SecondChannel(g, side, n, mbits, Spare(sbits, x.remaining, side.remaining),
                        itheta = Whole, blocks, size)
MidSide(g, x, n, itheta, b, mbits, blocks, size) ==
  Channels(g, x, n, itheta, mbits, b - mbits, blocks, size)
StereoSplit(g, x, n, b, blocks, size, theta) ==
  LET qalloc == theta.c.at - x.c.at
  IN MidSide(g, [c |-> theta.c, remaining |-> x.remaining - qalloc], n, theta.value, b - qalloc,
       MidBits(b - qalloc, Delta(n, theta.value)), blocks, size)
StereoAt(g, x, n, b, blocks, size, theta) ==
  IF n = 2 THEN Pair(g, x, b, blocks, size, theta)
  ELSE StereoSplit(g, x, n, b, blocks, size, theta)
QuantBandStereo(g, x, n, b, blocks, size) ==
  IF n = 1 THEN Sign(g, Sign(g, x))
  ELSE StereoAt(g, x, n, b, blocks, size,
         Theta(g, x.c, n, b, blocks, size, TRUE, x.remaining))

(***************************************************************************)
(* All bands.  Each may use its own bits and a share of what the bands     *)
(* before it left over or overdrew (balance), never more than the frame.   *)
(***************************************************************************)
BandBudget(f, a, i, left, balance) ==
  IF i >= a.coded THEN 0
  ELSE AtLeast(0, Min({16383, left, a.parts[i - f.start + 1].pulses
                                      + Quotient(balance, AtMost(3, a.coded - i))}))

CodeBand(f, g, x, n, b, blocks, dual) ==
  IF f.channels = 1 THEN QuantBand(g, x, n, b, blocks, f.lm)
  ELSE IF dual
    THEN QuantBand(g, QuantBand(g, x, n, b \div 2, blocks, f.lm), n, b \div 2, blocks, f.lm)
  ELSE QuantBandStereo(g, x, n, b, blocks, f.lm)

NextOfAll(f, a, tf, picks, blocks, total, st, i, balance, at) ==
  LET n    == Width(i) * 2 ^ f.lm
      dual == st.dual /\ i # a.intensity
      g    == [band |-> i, pick |-> picks[i], intensity |-> a.intensity,
               avoid |-> st.avoid, change |-> tf[i - f.start + 1]]
  IN [c |-> CodeBand(f, g, [c |-> st.c, remaining |-> total - at - 1], n,
                     BandBudget(f, a, i, total - at, balance), blocks, dual).c,
      balance |-> balance + a.parts[i - f.start + 1].pulses + at,
      dual |-> dual, avoid |-> FALSE]

QuantAllBands(f, c, a, tf, picks, short, total) ==
  Over(LAMBDA st, k : NextOfAll(f, a, tf, picks, IF short THEN 2 ^ f.lm ELSE 1, total, st,
                            f.start + k - 1,
                            IF k = 1 THEN st.balance ELSE st.balance - TellFrac(st.c),
                            TellFrac(st.c)),
           [c |-> c, balance |-> a.balance, dual |-> a.dual = 1,
            avoid |-> short /\ f.lm > 0],
           [k \in 1 .. f.end - f.start |-> k]).c
=============================================================================
