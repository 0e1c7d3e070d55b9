--------------------------- MODULE BitAllocation ---------------------------
(***************************************************************************)
(* How a CELT frame's bits are divided among its bands (celt/rate.rs):     *)
(* clt_compute_allocation and interp_bits2pulses, one function for both    *)
(* sides.  What is coded on the way: at which band the coding stops, the   *)
(* band intensity stereo starts at, and whether stereo is dual.  All       *)
(* amounts are in eighths of a bit.                                        *)
(***************************************************************************)
EXTENDS BitStream, CeltMode

Qualities == 0 .. Len(AllocVectors) - 1
ThinFrom == 17      \* above it a band has to earn its coding
MaxFineBits == 8
FineOffset == 21

AtLeast(x, y) == Max({x, y})
AtMost(x, y) == Min({x, y})
Total(f) == FoldFunction(LAMBDA x, y : x + y, 0, f)
Fixed(f) == f @@ <<>>     \* f itself, evaluated

(* A frame f: its bands (start to end), channels, length and bands' caps.   *)
Of(f) == f.start .. f.end - 1
Floor(f) == f.channels * BitRes

Thresh(f, j) == AtLeast(Floor(f), (3 * Width(j) * 2 ^ f.lm * BitRes) \div 16)

TrimOffset(f, trim, j) ==
  (f.channels * Width(j) * (trim - 5 - f.lm) * (f.end - j - 1) * 2 ^ f.lm * BitRes) \div 64
    - (IF Width(j) * 2 ^ f.lm = 1 THEN Floor(f) ELSE 0)

AtQuality(f, trim, q, j) ==
  LET bits == (f.channels * Width(j) * AllocVectors[q + 1][j + 1] * 2 ^ f.lm) \div 4
  IN IF bits > 0 THEN AtLeast(0, bits + TrimOffset(f, trim, j)) ELSE bits

(* A band gets its share from the highest band that reaches its threshold  *)
(* downwards, and the floor or nothing above it.                           *)
Highest(f, bits) == Max({f.start - 1} \cup {j \in Of(f) : bits[j] >= Thresh(f, j)})
Share(f, bits, highest, j) ==
  IF j <= highest THEN AtMost(bits[j], f.cap[j])
  ELSE IF bits[j] >= Floor(f) THEN Floor(f) ELSE 0
SharesUpTo(f, bits, highest) == [j \in Of(f) |-> Share(f, bits, highest, j)]
Shares(f, bits) == SharesUpTo(f, bits, Highest(f, bits))

(* The greatest quality whose shares fit, by bisection.                    *)
Boosted(f, trim, offsets, q) == Fixed([j \in Of(f) |-> AtQuality(f, trim, q, j) + offsets[j]])
NextQuality(f, trim, offsets, total, x, q) ==
  IF x.lo > x.hi THEN x
  ELSE IF Total(Shares(f, Boosted(f, trim, offsets, q))) > total THEN [x EXCEPT !.hi = q - 1]
  ELSE [x EXCEPT !.lo = q + 1]
Best(f, trim, offsets, total) ==
  Over(LAMBDA x, k : NextQuality(f, trim, offsets, total, x, (x.lo + x.hi) \div 2),
           [lo |-> 1, hi |-> Len(AllocVectors) - 1], [k \in 1 .. 4 |-> k]).lo - 1

Low(f, trim, offsets, q) ==
  Fixed([j \in Of(f) |-> AtQuality(f, trim, q, j) + (IF q > 0 THEN offsets[j] ELSE 0)])
High(f, trim, offsets, q, low) ==
  Fixed([j \in Of(f) |-> AtLeast(0, offsets[j] - low[j]
     + (IF q + 1 \in Qualities THEN AtQuality(f, trim, q + 1, j)
        ELSE LET cap == f.cap[j]
             IN IF cap > 0 THEN AtLeast(0, cap + TrimOffset(f, trim, j)) ELSE cap))])

(* Between it and the next, 64 steps, bisected too.                        *)
Between(f, low, high, step) == Fixed([j \in Of(f) |-> low[j] + (step * high[j]) \div 64])
NextStep(f, low, high, total, x, mid) ==
  IF Total(Shares(f, Between(f, low, high, mid))) > total THEN [x EXCEPT !.hi = mid]
  ELSE [x EXCEPT !.lo = mid]
Steps(f, low, high, total) ==
  Over(LAMBDA x, k : NextStep(f, low, high, total, x, (x.lo + x.hi) \div 2),
           [lo |-> 0, hi |-> 64], [k \in 1 .. 6 |-> k]).lo
Capped(f, shares) == Fixed([j \in Of(f) |-> AtMost(shares[j], f.cap[j])])
Interpolated(f, low, high, total) ==
  Capped(f, Shares(f, Between(f, low, high, Steps(f, low, high, total))))

(***************************************************************************)
(* The skip loop: from the top, a band is given up unless a coded bit says *)
(* that the coding stops at it.  s is its state.                           *)
(***************************************************************************)
StopsHere(f, s, j, bandBits) ==
  LET width == EBands[s.coded] - EBands[j]
      depth == IF s.coded > ThinFrom THEN 9 ELSE 0
  IN s.coded <= f.start + 2 \/ bandBits > (depth * width * 2 ^ f.lm * BitRes) \div 16

BandBits(f, s, j) ==
  LET left     == s.total - s.psum
      samples  == EBands[s.coded] - EBands[f.start]
      perCoeff == left \div samples
      rem      == AtLeast(left - samples * perCoeff - (EBands[j] - EBands[f.start]), 0)
  IN s.bits[j] + perCoeff * Width(j) + rem

GiveUpKeepingFloor(f, s, j, bandBits) ==
  LET rsv  == IF s.intensityRsv > 0 THEN Log2Frac[j - f.start + 1] ELSE s.intensityRsv
      kept == IF bandBits >= Floor(f) THEN Floor(f) ELSE 0
  IN [s EXCEPT !.psum = @ - s.bits[j] - s.intensityRsv + rsv,
               !.intensityRsv = rsv, !.bits[j] = kept, !.coded = @ - 1]
GiveUp(f, s, j, bandBits) ==
  LET rsv  == IF s.intensityRsv > 0 THEN Log2Frac[j - f.start + 1] ELSE s.intensityRsv
      kept == IF bandBits >= Floor(f) THEN Floor(f) ELSE 0
  IN [s EXCEPT !.psum = @ - s.bits[j] - s.intensityRsv + rsv + kept,
               !.intensityRsv = rsv, !.bits[j] = kept, !.coded = @ - 1]

AskToStop(f, s, j, bandBits, asked) ==
  IF asked.value = 1 THEN [s EXCEPT !.c = asked.c, !.done = TRUE]
  ELSE GiveUp(f, [s EXCEPT !.c = asked.c, !.psum = @ + BitRes], j, bandBits - BitRes)

SkipBand(f, s, j, bandBits) ==
  IF bandBits >= AtLeast(Thresh(f, j), Floor(f) + BitRes)
  THEN AskToStop(f, s, j, bandBits,
         Code(s.c, Bit(1), IF StopsHere(f, s, j, bandBits) THEN 1 ELSE 0))
  ELSE GiveUp(f, s, j, bandBits)

Skip(f, skipStart, skipRsv, s) ==
  LET j == s.coded - 1
  IN IF s.done \/ s.coded <= f.start THEN s
     ELSE IF j <= skipStart THEN [s EXCEPT !.total = @ + skipRsv, !.done = TRUE]
     ELSE SkipBand(f, s, j, BandBits(f, s, j))

(* Intensity and dual stereo, where there was room to reserve their bits.  *)
Intensity(f, s, wanted) ==
  IF s.intensityRsv > 0
  THEN Code(s.c, Uint(s.coded + 1 - f.start), AtMost(wanted, s.coded) - f.start)
  ELSE Took(s.c, -f.start)

DualStereo(asked, room, wanted) == IF room > 0 THEN Code(asked, Bit(1), wanted) ELSE Took(asked, 0)

(***************************************************************************)
(* What is left goes to the coded bands by their width, and each band's    *)
(* bits are divided into fine energy and pulses; what a band cannot use    *)
(* is handed on (balance).                                                 *)
(***************************************************************************)
Spread(f, s) ==
  LET coded    == f.start .. s.coded - 1
      left     == s.total - s.psum
      samples  == EBands[s.coded] - EBands[f.start]
      perCoeff == left \div samples
      over     == left - samples * perCoeff
      before(j) == EBands[j] - EBands[f.start]
  IN Fixed([j \in Of(f) |->
        IF j \in coded
        THEN s.bits[j] + perCoeff * Width(j) + AtMost(Width(j), AtLeast(0, over - before(j)))
        ELSE s.bits[j]])

Denominator(f, j, intensity, dual) ==
  LET n == Width(j) * 2 ^ f.lm
  IN f.channels * n
       + (IF f.channels = 2 /\ n > 2 /\ dual = 0 /\ j < intensity THEN 1 ELSE 0)

FineOffsetOf(f, j, den, bits) ==
  LET ncLogN == den * (LogN[j + 1] + f.lm * BitRes)
      base   == (ncLogN \div 2) - den * FineOffset
                  + (IF Width(j) * 2 ^ f.lm = 2 THEN (den * BitRes) \div 4 ELSE 0)
  IN IF bits + base < 2 * den * BitRes THEN base + ncLogN \div 4
     ELSE IF bits + base < 3 * den * BitRes THEN base + ncLogN \div 8
     ELSE base

Stereo(f) == f.channels     \* ">> stereo" halves for two channels
FineBits(f, den, bits, offset) ==
  LET wanted == AtLeast(0, bits + offset + (den * BitRes) \div 2) \div (den * BitRes)
      fits   == IF f.channels * wanted > bits \div BitRes
                THEN bits \div (Stereo(f) * BitRes) ELSE wanted
  IN AtMost(fits, MaxFineBits)

(* One band: bits it asks for with the balance, what is over its cap.      *)
Divide(f, bits, den, offset, fine) ==
  [ebits |-> fine, priority |-> IF fine * den * BitRes >= bits + offset THEN 1 ELSE 0,
   pulses |-> bits - f.channels * fine * BitRes]
DivideWide(f, bits, den, offset) == Divide(f, bits, den, offset, FineBits(f, den, bits, offset))
DivideBand(f, j, bits, intensity, dual) ==
  IF Width(j) * 2 ^ f.lm > 1
  THEN LET den == Denominator(f, j, intensity, dual)
       IN DivideWide(f, bits, den, FineOffsetOf(f, j, den, bits))
  ELSE [ebits |-> 0, priority |-> 1, pulses |-> bits]

CapOf(f, j) == IF Width(j) * 2 ^ f.lm > 1 THEN f.cap[j] ELSE Floor(f)

(* The excess buys more fine bits first; the rest is the next balance.     *)
Rebalance(f, part, excess, balance) ==
  LET extra == AtMost(excess \div (Stereo(f) * BitRes), MaxFineBits - part.ebits)
      paid  == extra * f.channels * BitRes
  IN IF excess <= 0 THEN [part |-> part, balance |-> excess]
     ELSE [part |-> [part EXCEPT !.ebits = @ + extra,
                                 !.priority = IF paid >= excess - balance THEN 1 ELSE 0],
           balance |-> excess - paid]

NextBand(f, bits, intensity, dual, acc, j) ==
  LET bit    == bits[j] + acc.balance
      excess == AtLeast(bit - CapOf(f, j), 0)
      next   == Rebalance(f, DivideBand(f, j, bit - excess, intensity, dual), excess, acc.balance)
  IN [balance |-> next.balance, parts |-> Append(acc.parts, next.part)]

Uncoded(f, bits) ==
  LET fine == bits \div (Stereo(f) * BitRes)
  IN [ebits |-> fine, priority |-> IF fine < 1 THEN 1 ELSE 0, pulses |-> 0]

Divided(f, s, bits, intensity, dual) ==
  Over(LAMBDA acc, i : NextBand(f, bits, intensity, dual, acc, f.start + i - 1),
           [balance |-> 0, parts |-> <<>>], [i \in 1 .. s.coded - f.start |-> i])

Outcome(f, s, bits, intensity, dual, divided) ==
  [c |-> dual.c, coded |-> s.coded, intensity |-> intensity, dual |-> dual.value,
   balance |-> divided.balance, room |-> s.total - s.psum,
   parts |-> divided.parts
     \o [i \in 1 .. f.end - s.coded |-> Uncoded(f, bits[s.coded + i - 1])]]

Settle(f, s, bits, intensity, dual) ==
  With(Divided(f, s, bits, intensity, dual.value),
       LAMBDA divided : Outcome(f, s, bits, intensity, dual, divided))

StereoChoice(f, s, asked, dualRsv, wantedDual) ==
  LET intensity == f.start + asked.value
      kept      == IF intensity <= f.start THEN 0 ELSE dualRsv
      t         == [s EXCEPT !.total = @ + dualRsv - kept]
  IN Settle(f, t, Spread(f, t), intensity, DualStereo(asked.c, kept, wantedDual))

SkipFrom(f, offsets, skipRsv, s) ==
  LET boosted   == {j \in Of(f) : offsets[j] > 0}
      skipStart == IF boosted = {} THEN f.start ELSE Max(boosted)
  IN Over(LAMBDA x, i : Skip(f, skipStart, skipRsv, x), s, [i \in 1 .. f.end - f.start |-> i])

Start(f, c, bits, total, intensityRsv) ==
  [c |-> c, coded |-> f.end, bits |-> bits, psum |-> Total(bits),
   total |-> total, intensityRsv |-> intensityRsv, done |-> FALSE]

(* clt_compute_allocation: total is what the frame has left.               *)
Reserve(f, total) ==
  LET all    == AtLeast(total, 0)
      skip   == IF all >= BitRes THEN BitRes ELSE 0
      wanted == IF f.channels = 2 THEN Log2Frac[f.end - f.start + 1] ELSE 0
      inten  == IF wanted > all - skip THEN 0 ELSE wanted
      rest   == all - skip - inten
      dual   == IF f.channels = 2 /\ wanted <= all - skip /\ rest >= BitRes THEN BitRes ELSE 0
  IN [skip |-> skip, intensity |-> inten, dual |-> dual, total |-> rest - dual]

Interpolation(f, trim, offsets, total, q, low) ==
  With(High(f, trim, offsets, q, low), LAMBDA high : Interpolated(f, low, high, total))
Bits(f, trim, offsets, total, q) ==
  With(Low(f, trim, offsets, q), LAMBDA low : Interpolation(f, trim, offsets, total, q, low))
SharedBits(f, trim, offsets, total) ==
  With(Best(f, trim, offsets, total), LAMBDA q : Bits(f, trim, offsets, total, q))

Allocate(f, c, trim, offsets, rsv, wantedIntensity, wantedDual) ==
  With(SkipFrom(f, offsets, rsv.skip,
         Start(f, c, SharedBits(f, trim, offsets, rsv.total), rsv.total, rsv.intensity)),
       LAMBDA s : StereoChoice(f, s, Intensity(f, s, wantedIntensity), rsv.dual, wantedDual))

ComputeAllocation(f, c, trim, offsets, total, wantedIntensity, wantedDual) ==
  Allocate(f, c, trim, offsets, Reserve(f, total), wantedIntensity, wantedDual)
=============================================================================
