--------------------------- MODULE FrameSections ---------------------------
(***************************************************************************)
(* The sections of a CELT frame, as each side codes them (celt/mod.rs,     *)
(* celt/quant_bands.rs).  Where the source has an encoder's and a          *)
(* decoder's copy so has this module: the two have to ask for the same     *)
(* models at the same positions, from what each of them knows.             *)
(* f is the frame, c a coder, total its size in bits.                      *)
(***************************************************************************)
EXTENDS BandCoding

BandSeq(f) == [k \in 1 .. f.end - f.start |-> f.start + k - 1]
(* Every band once per channel, band by band.                              *)
BandChannels(f) ==
  [k \in 1 .. (f.end - f.start) * f.channels |-> f.start + (k - 1) \div f.channels]
Fits(c, bits, total) == Tell(c) + bits <= total
Flag(b) == IF b THEN 1 ELSE 0

(***************************************************************************)
(* The coarse energy: a step up or down per band and channel, in a model   *)
(* that shrinks with the room.                                             *)
(***************************************************************************)
EnergyStep(intra, i) == Table(<<"energy", intra, i>>)
SmallStep == Table("small energy")
Clamped(lo, x, hi) == AtMost(AtLeast(lo, x), hi)

(* Away from the first band, a step is held back when the bits run short.  *)
Held(f, i, spare, qi) ==
  IF i = f.start \/ spare >= 24 THEN qi
  ELSE IF spare >= 16 THEN AtMost(qi, 1) ELSE Clamped(-1, qi, 1)

QuantEnergy(acc, room, intra, i, qi) ==
  IF room >= 15 THEN [c |-> Put(acc.c, EnergyStep(intra, i), qi).c, steps |-> Append(acc.steps, qi)]
  ELSE IF room >= 2
    THEN [c |-> Put(acc.c, SmallStep, Clamped(-1, qi, 1)).c,
          steps |-> Append(acc.steps, Clamped(-1, qi, 1))]
  ELSE IF room >= 1
    THEN [c |-> Put(acc.c, Bit(1), Flag(qi < 0)).c, steps |-> Append(acc.steps, AtMost(qi, 0))]
  ELSE [acc EXCEPT !.steps = Append(@, -1)]

QuantCoarseEnergy(f, c, total, intra, wanted) ==
  Over(LAMBDA acc, i :
             QuantEnergy(acc, total - Tell(acc.c), intra, i,
               Held(f, i, total - Tell(acc.c) - 3 * f.channels * (f.end - i), wanted[i])),
           [c |-> c, steps |-> <<>>], BandChannels(f))

GotStep(acc, got, qi) == [c |-> got.c, steps |-> Append(acc.steps, qi)]
UnquantBit(acc, got) == GotStep(acc, got, -got.value)
UnquantEnergy(acc, room, intra, i) ==
  IF room >= 15 THEN LET got == Get(acc.c, EnergyStep(intra, i)) IN GotStep(acc, got, got.value)
  ELSE IF room >= 2 THEN LET got == Get(acc.c, SmallStep) IN GotStep(acc, got, got.value)
  ELSE IF room >= 1 THEN UnquantBit(acc, Get(acc.c, Bit(1)))
  ELSE [acc EXCEPT !.steps = Append(@, -1)]

UnquantCoarseEnergy(f, c, intra) ==
  Over(LAMBDA acc, i : UnquantEnergy(acc, Bytes(c) - Tell(acc.c), intra, i),
           [c |-> c, steps |-> <<>>], BandChannels(f))

(* The fine energy: as many raw bits as the allocation gave the band.      *)
FineEnergy(f, c, parts, value) ==
  Over(LAMBDA x, i : IF parts[i - f.start + 1].ebits <= 0 THEN x
                         ELSE Code(x, Raw(parts[i - f.start + 1].ebits), value).c,
           c, BandChannels(f))

(* What is left at the end buys one more bit per band, those the           *)
(* allocation preferred first.                                             *)
FinaliseBand(f, acc, part, value) ==
  IF acc.left < f.channels \/ part.ebits >= MaxFineBits THEN acc
  ELSE [c |-> Over(LAMBDA x, ch : Code(x, Raw(1), value).c, acc.c, [ch \in 1 .. f.channels |-> ch]),
        left |-> acc.left - f.channels]
EnergyFinalise(f, c, parts, left, value) ==
  Over(LAMBDA acc, part : FinaliseBand(f, acc, part, value), [c |-> c, left |-> left],
           SelectSeq(parts, LAMBDA p : p.priority = 0) \o SelectSeq(parts, LAMBDA p : p.priority = 1)).c

(***************************************************************************)
(* The time resolution of each band: whether it changes from the one       *)
(* before, then which of two tables the frame uses, if they differ.        *)
(***************************************************************************)
FirstLogp(short) == IF short THEN 2 ELSE 4
NextLogp(short) == IF short THEN 4 ELSE 5
SelectReserved(f, c, short) == Flag(f.lm > 0 /\ Tell(c) + FirstLogp(short) < Bytes(c))
SelectMatters(f, short, changed) ==
  TfChange(f.lm, short, 0, changed) # TfChange(f.lm, short, 1, changed)

TfStart(c, short) == [c |-> c, curr |-> 0, changed |-> 0, logp |-> FirstLogp(short), res |-> <<>>]
TfNext(acc, short, c, curr) ==
  [c |-> c, curr |-> curr, changed |-> AtLeast(acc.changed, curr), logp |-> NextLogp(short),
   res |-> Append(acc.res, curr)]

TfEncodeBands(f, c, short, wanted, budget) ==
  Over(LAMBDA acc, i :
             IF Fits(acc.c, acc.logp, budget)
             THEN TfNext(acc, short, Put(acc.c, Bit(acc.logp), Flag(wanted[i] # acc.curr)).c, wanted[i])
             ELSE TfNext(acc, short, acc.c, acc.curr),
           TfStart(c, short), BandSeq(f))
TfChanges(f, short, c, select, res) ==
  [c |-> c, tf |-> [k \in DOMAIN res |-> TfChange(f.lm, short, select, res[k])]]
TfSelected(f, short, acc, asked) == TfChanges(f, short, asked.c, asked.value, acc.res)
TfEncodeSelectKept(f, short, rsv, select, acc) ==
  TfSelected(f, short, acc,
    IF rsv = 1 /\ SelectMatters(f, short, acc.changed) THEN Put(acc.c, Bit(1), select)
    ELSE Took(acc.c, select))
TfEncodeSelect(f, short, rsv, select, acc) ==
  TfSelected(f, short, acc,
    IF rsv = 1 /\ SelectMatters(f, short, acc.changed) THEN Put(acc.c, Bit(1), select)
    ELSE Took(acc.c, 0))
TfEncode(f, c, short, wanted, select) ==
  LET rsv == SelectReserved(f, c, short)
  IN TfEncodeSelect(f, short, rsv, select, TfEncodeBands(f, c, short, wanted, Bytes(c) - rsv))

TfHeard(acc, short, got) ==
  TfNext(acc, short, got.c, (acc.curr + got.value) % 2)
TfDecodeBands(f, c, short, budget) ==
  Over(LAMBDA acc, i :
             IF Fits(acc.c, acc.logp, budget) THEN TfHeard(acc, short, Get(acc.c, Bit(acc.logp)))
             ELSE TfNext(acc, short, acc.c, acc.curr),
           TfStart(c, short), BandSeq(f))
TfDecodeSelect(f, short, rsv, acc) ==
  TfSelected(f, short, acc,
    IF rsv = 1 /\ SelectMatters(f, short, acc.changed) THEN Get(acc.c, Bit(1)) ELSE Took(acc.c, 0))
TfDecode(f, c, short) ==
  LET rsv == SelectReserved(f, c, short)
  IN TfDecodeSelect(f, short, rsv, TfDecodeBands(f, c, short, Bytes(c) - rsv))

(***************************************************************************)
(* The boosts: bands that get more than their share.  A band is asked for  *)
(* again until it says no, and the more bands were boosted the likelier    *)
(* the next is.                                                            *)
(***************************************************************************)
BoostQuanta(f, i) ==
  LET width == f.channels * Width(i) * 2 ^ f.lm
  IN AtMost(width * BitRes, AtLeast(6 * BitRes, width))
BoostAllowed(f, s, i, total) ==
  ~s.done /\ TellFrac(s.c) + s.logp * BitRes < total * BitRes - s.all /\ s.boost < f.cap[i]
BoostAsked(f, s, i, asked) ==
  IF asked.value = 0 THEN [s EXCEPT !.c = asked.c, !.done = TRUE]
  ELSE [s EXCEPT !.c = asked.c, !.boost = @ + BoostQuanta(f, i), !.all = @ + BoostQuanta(f, i),
                 !.logp = 1, !.times = @ + 1]
RECURSIVE BoostBand(_, _, _, _, _)
BoostBand(f, i, total, wanted, s) ==
  IF ~BoostAllowed(f, s, i, total) THEN s
  ELSE With(Code(s.c, Bit(s.logp), Flag(s.times < wanted)),
            LAMBDA asked : BoostBand(f, i, total, wanted, BoostAsked(f, s, i, asked)))
Unboosted(acc) ==
  [c |-> acc.c, logp |-> acc.logp, boost |-> 0, all |-> acc.all, times |-> 0, done |-> FALSE]
BoostedBand(acc, s, logp) ==
  [c |-> s.c, all |-> s.all, offsets |-> Append(acc.offsets, s.boost), logp |-> logp]
NoBoosts(c) == [c |-> c, logp |-> 6, all |-> 0, offsets |-> <<>>]

BoostEncode(f, c, total, wanted) ==
  Over(LAMBDA acc, i : With(BoostBand(f, i, total, wanted[i], Unboosted(acc)), LAMBDA s :
         BoostedBand(acc, s, IF s.times > 0 THEN AtLeast(2, acc.logp - 1) ELSE acc.logp)),
       NoBoosts(c), BandSeq(f))
BoostDecode(f, c, total) ==
  Over(LAMBDA acc, i : With(BoostBand(f, i, total, 0, Unboosted(acc)), LAMBDA s :
         BoostedBand(acc, s, IF s.boost > 0 THEN AtLeast(AtLeast(acc.logp, 2) - 1, 2)
                             ELSE acc.logp)),
       NoBoosts(c), BandSeq(f))

(* The trim, where there is room for it; 5 where there is none.            *)
TrimFits(c, total, all) == TellFrac(c) + 6 * BitRes <= total * BitRes - all
Trim == Table("trim")

(* The bit that says whether a collapsed band is filled with noise: it is  *)
(* reserved before the bits are divided.                                   *)
AntiCollapse(f, c, total, transient) ==
  IF transient /\ f.lm >= 2 /\ total * BitRes - TellFrac(c) - 1 >= (f.lm + 2) * BitRes
  THEN BitRes ELSE 0

(* The division of the bits, with the boosts by band.                      *)
Allocation(f, c, total, trim, offsets, rsv, intensity, dual) ==
  ComputeAllocation(f, c, trim, [j \in Of(f) |-> offsets[j - f.start + 1]],
    total * BitRes - TellFrac(c) - 1 - rsv, intensity, dual)
=============================================================================
