----------------------------- MODULE RangeCoder -----------------------------
(***************************************************************************)
(* RangeCoder (range_coder.rs): the entropy coder every frame is written   *)
(* with.  Range coded symbols grow from the front of the buffer, raw bits  *)
(* from its back.  The width of a byte and of the code word are            *)
(* parameters, so that carries, full buffers and shared last bytes happen  *)
(* within a few symbols.                                                   *)
(***************************************************************************)
EXTENDS Integers, SequencesExt, FiniteSetsExt

CONSTANTS
  SymBits,     \* bits of a byte (8)
  CodeBits,    \* bits of the code word (32)
  UintBits,    \* the most bits of a uniform number that are range coded (8)
  LaplaceBits, \* the total of a Laplace distribution is 2^LaplaceBits (15)
  LaplaceTail  \* values each way whose probability is kept above zero (16)

ASSUME WidthAssumption ==
  /\ SymBits \in Nat \ {0} /\ CodeBits \in Nat /\ CodeBits > 2 * SymBits
  /\ UintBits \in 1 .. CodeBits - SymBits - 1
  /\ LaplaceBits \in 2 .. CodeBits - SymBits - 1 /\ LaplaceTail \in Nat \ {0}

Pow(n) == 2 ^ n
Word(x) == x % Pow(CodeBits)
SymMax == Pow(SymBits) - 1
CodeShift == CodeBits - SymBits - 1
CodeTop == Pow(CodeBits - 1)
CodeBot == Pow(CodeBits - 1 - SymBits)
CodeExtra == 1 + ((CodeBits - 2) % SymBits)

(* The bits of a number: 0 has none.                                       *)
ILog(x) == IF x = 0 THEN 0 ELSE CHOOSE b \in 1 .. CodeBits : Pow(b - 1) <= x /\ x < Pow(b)

Times(n, Step(_), x) == FoldLeft(LAMBDA y, i : Step(y), x, [i \in 1 .. n |-> i])

(* tell: bits written or read so far, rounded up.                          *)
ToldBits(rc) == rc.nbitsTotal - ILog(rc.rng)
Room(rc) == rc.storage - rc.offs - rc.endOffs

(***************************************************************************)
(* The encoder.  rem is the byte held back for a carry (-1 before the      *)
(* first), ext the full bytes behind it.                                   *)
(***************************************************************************)
NewEncoder(size) ==
  [buf |-> [i \in 1 .. size |-> 0], storage |-> size, offs |-> 0, endOffs |-> 0,
   endWindow |-> 0, nendBits |-> 0, nbitsTotal |-> CodeBits + 1,
   rng |-> CodeTop, val |-> 0, ext |-> 0, rem |-> -1, error |-> 0]

WriteByte(rc, byte) ==
  IF Room(rc) > 0
  THEN [rc EXCEPT !.buf[rc.offs + 1] = byte % Pow(SymBits), !.offs = @ + 1]
  ELSE [rc EXCEPT !.error = 1]

WriteByteAtEnd(rc, byte) ==
  IF Room(rc) > 0
  THEN [rc EXCEPT !.buf[rc.storage - rc.endOffs] = byte, !.endOffs = @ + 1]
  ELSE [rc EXCEPT !.error = 1]

(* Mutant: a carry does not run through the full bytes held back.          *)
CarryOutStopping(rc, c) ==
  LET carry == c \div Pow(SymBits)
      first == IF rc.rem >= 0 THEN WriteByte(rc, rc.rem + carry) ELSE rc
      runs  == Times(rc.ext, LAMBDA x : WriteByte(x, SymMax), first)
  IN IF c = SymMax THEN [rc EXCEPT !.ext = @ + 1]
     ELSE [runs EXCEPT !.ext = 0, !.rem = c % Pow(SymBits)]

CarryOut(rc, c) ==
  LET carry == c \div Pow(SymBits)
      first == IF rc.rem >= 0 THEN WriteByte(rc, rc.rem + carry) ELSE rc
      runs  == Times(rc.ext, LAMBDA x : WriteByte(x, (SymMax + carry) % Pow(SymBits)), first)
  IN IF c = SymMax THEN [rc EXCEPT !.ext = @ + 1]
     ELSE [runs EXCEPT !.ext = 0, !.rem = c % Pow(SymBits)]

NormalizeEncoder(rc) ==
  Times(CodeBits \div SymBits + 1,
        LAMBDA x : IF x.rng > CodeBot THEN x
                   ELSE [CarryOut(x, x.val \div Pow(CodeShift)) EXCEPT
                           !.val = (x.val * Pow(SymBits)) % CodeTop,
                           !.rng = @ * Pow(SymBits), !.nbitsTotal = @ + SymBits],
        rc)

(* The interval is cut to [low, low + width) of its range; what rounding   *)
(* leaves over goes to the first symbol.                                   *)
Narrow(rc, low, width) ==
  NormalizeEncoder([rc EXCEPT !.val = Word(@ + low), !.rng = width])

EncodeFreq(rc, fl, fh, ft) ==
  LET r == rc.rng \div ft
  IN IF fl > 0 THEN Narrow(rc, rc.rng - r * (ft - fl), r * (fh - fl))
     ELSE Narrow(rc, 0, rc.rng - r * (ft - fh))

EncodeBitLogp(rc, set, logp) ==
  LET s == rc.rng \div Pow(logp)
  IN IF set = 1 THEN Narrow(rc, rc.rng - s, s) ELSE Narrow(rc, 0, rc.rng - s)

EncodeIcdf(rc, s, icdf, ftb) ==
  LET r == rc.rng \div Pow(ftb)
  IN IF s > 0 THEN Narrow(rc, rc.rng - r * icdf[s], r * (icdf[s] - icdf[s + 1]))
     ELSE Narrow(rc, 0, rc.rng - r * icdf[1])

(* Raw bits gather in a window and are written when it would overflow.     *)
FlushOne(rc) ==
  IF rc.nendBits < SymBits THEN rc
  ELSE [WriteByteAtEnd(rc, rc.endWindow % Pow(SymBits)) EXCEPT
          !.endWindow = @ \div Pow(SymBits), !.nendBits = @ - SymBits]
FlushWindow(rc) == Times(CodeBits \div SymBits, FlushOne, rc)

EncBits(rc, value, bits) ==
  LET x == IF rc.nendBits + bits > CodeBits THEN FlushWindow(rc) ELSE rc
  IN IF bits = 0 THEN rc
     ELSE [x EXCEPT !.endWindow = @ + (value % Pow(bits)) * Pow(x.nendBits),
                    !.nendBits = @ + bits, !.nbitsTotal = @ + bits]

UintShift(ft) == IF ILog(ft - 1) > UintBits THEN ILog(ft - 1) - UintBits ELSE 0
UintTotal(ft) == (ft - 1) \div Pow(UintShift(ft)) + 1

EncUint(rc, fl, ft) ==
  LET s == UintShift(ft)
      high == fl \div Pow(s)
  IN IF ft <= 1 THEN rc
     ELSE EncBits(EncodeFreq(rc, high, high + 1, UintTotal(ft)), fl % Pow(s), s)

(* pad_to_bits: zeros at the back, up to a number of bits.                 *)
PadToBits(rc, target) ==
  LET toDo    == target - rc.nbitsTotal
      gap     == (SymBits - (rc.nendBits % SymBits)) % SymBits
      aligned == IF gap > 0 /\ toDo >= gap THEN EncBits(rc, 0, gap) ELSE rc
      left    == target - aligned.nbitsTotal
      full    == left \div SymBits
      written == Min({full, Room(aligned)})
      filled  == [aligned EXCEPT
        !.buf = [i \in DOMAIN @ |->
                   IF i > rc.storage - aligned.endOffs - written
                        /\ i <= rc.storage - aligned.endOffs THEN 0 ELSE @[i]],
        !.endOffs = @ + written, !.nbitsTotal = @ + full * SymBits,
        !.error = IF written < full THEN 1 ELSE @]
  IN IF toDo <= 0 THEN rc ELSE EncBits(filled, 0, left % SymBits)

(* shrink: the bytes at the back move to the new end.                      *)
CanShrink(rc, size) == rc.offs + rc.endOffs <= size /\ size <= rc.storage
Shrink(rc, size) ==
  [rc EXCEPT !.storage = size,
             !.buf = [i \in DOMAIN @ |->
                        IF i > size - rc.endOffs /\ i <= size
                        THEN @[i + rc.storage - size] ELSE @[i]]]

(* patch_initial_bits: the first bits, over the zeros written there.       *)
PatchBits(byte, value, bits) ==
  (byte % Pow(SymBits - bits)) + value * Pow(SymBits - bits)
PatchInitialBits(rc, value, bits) ==
  IF rc.offs > 0 THEN [rc EXCEPT !.buf[1] = PatchBits(@, value, bits)]
  ELSE IF rc.rem >= 0 THEN [rc EXCEPT !.rem = PatchBits(@, value, bits)]
  ELSE IF rc.rng <= CodeTop \div Pow(bits)
    THEN LET low == Pow(CodeShift + SymBits - bits)
             top == Pow(CodeShift + SymBits)
         IN [rc EXCEPT !.val = (@ % low) + value * low + (@ \div top) * top]
  ELSE [rc EXCEPT !.error = -1]

(* done: the fewest bits that stay in the interval whatever follows them,  *)
(* then the window; its last bits may share the last byte.                 *)
Round(val, msk) == ((val + msk) \div (msk + 1)) * (msk + 1)

LastBits(rc) ==
  LET l   == CodeBits - ILog(rc.rng)
      msk == (CodeTop - 1) \div Pow(l)
  IN IF Round(rc.val, msk) + msk >= rc.val + rc.rng
     THEN [l |-> l + 1, end |-> Round(rc.val, msk \div 2), rc |-> rc]
     ELSE [l |-> l, end |-> Round(rc.val, msk), rc |-> rc]

(* Mutant: the loop goes on when no bit is left.                           *)
LastByteAndOne(x) ==
  IF x.l < 0 THEN x
  ELSE [l |-> x.l - SymBits, end |-> (x.end * Pow(SymBits)) % CodeTop,
        rc |-> CarryOut(x.rc, x.end \div Pow(CodeShift))]

LastByte(x) ==
  IF x.l <= 0 THEN x
  ELSE [l |-> x.l - SymBits, end |-> (x.end * Pow(SymBits)) % CodeTop,
        rc |-> CarryOut(x.rc, x.end \div Pow(CodeShift))]

(* (The bits they share a byte with are zero, so that | is +.)             *)
MergeWindow(rc, spare) ==
  LET full   == Room(rc) <= 0 /\ spare < rc.nendBits
      window == IF full THEN rc.endWindow % Pow(spare) ELSE rc.endWindow
  IN IF rc.nendBits = 0 THEN rc
     ELSE IF rc.endOffs >= rc.storage THEN [rc EXCEPT !.error = -1]
     ELSE [rc EXCEPT !.error = IF full THEN -1 ELSE @,
                     !.buf[rc.storage - rc.endOffs] = @ + window]

ZeroGap(rc) ==
  [rc EXCEPT !.buf = [i \in DOMAIN @ |->
                        IF i > rc.offs /\ i <= rc.storage - rc.endOffs THEN 0 ELSE @[i]]]

Finish(rc, spare) == IF rc.error # 0 THEN rc ELSE MergeWindow(ZeroGap(rc), spare)

Done(rc) ==
  LET last == Times(CodeBits \div SymBits + 1, LastByte, LastBits(rc))
      out  == IF last.rc.rem >= 0 \/ last.rc.ext > 0 THEN CarryOut(last.rc, 0) ELSE last.rc
  IN Finish(FlushWindow(out), -last.l)

(***************************************************************************)
(* The decoder: the same interval, with val the distance to its top.       *)
(***************************************************************************)
ByteAt(data, i) == IF i <= Len(data) THEN data[i] ELSE 0

(* An incoming byte straddles two of the stream's by CodeExtra bits.       *)
NormalizeDecoder(rc) ==
  Times(CodeBits \div SymBits + 1,
        LAMBDA x : IF x.rng > CodeBot THEN x
          ELSE LET byte == ByteAt(x.buf, x.offs + 1)
                   sym  == (x.rem * Pow(SymBits) + byte) \div Pow(SymBits - CodeExtra)
               IN [x EXCEPT !.nbitsTotal = @ + SymBits, !.rng = @ * Pow(SymBits),
                            !.rem = byte, !.offs = Min({@ + 1, x.storage}),
                            !.val = (@ * Pow(SymBits) + SymMax - (sym % Pow(SymBits))) % CodeTop],
        rc)

NewDecoder(data) ==
  LET first == ByteAt(data, 1)
      used  == ((CodeBits - CodeExtra) \div SymBits) * SymBits
  IN NormalizeDecoder(
       [buf |-> data, storage |-> Len(data), offs |-> Min({1, Len(data)}), endOffs |-> 0,
        endWindow |-> 0, nendBits |-> 0, nbitsTotal |-> CodeBits + 1 - used,
        rng |-> Pow(CodeExtra), rem |-> first, ext |-> 0, error |-> 0,
        val |-> Pow(CodeExtra) - 1 - first \div Pow(SymBits - CodeExtra)])

DecodeFreq(rc, ft) ==
  LET r == rc.rng \div ft IN ft - Min({ft, rc.val \div r + 1})

Update(rc, fl, fh, ft) ==
  LET r == rc.rng \div ft
      s == r * (ft - fh)
  IN NormalizeDecoder([rc EXCEPT !.val = @ - s,
                                 !.rng = IF fl > 0 THEN r * (fh - fl) ELSE @ - s])

Read(rc, value) == [rc |-> rc, value |-> value]

DecodeBitLogp(rc, logp) ==
  LET s == rc.rng \div Pow(logp)
  IN IF rc.val < s THEN Read(NormalizeDecoder([rc EXCEPT !.rng = s]), 1)
     ELSE Read(NormalizeDecoder([rc EXCEPT !.val = @ - s, !.rng = @ - s]), 0)

DecodeIcdf(rc, icdf, ftb) ==
  LET r   == rc.rng \div Pow(ftb)
      sym == Min({s \in DOMAIN icdf : rc.val >= r * icdf[s]})
      top == IF sym = 1 THEN rc.rng ELSE r * icdf[sym - 1]
  IN Read(NormalizeDecoder([rc EXCEPT !.val = @ - r * icdf[sym],
                                      !.rng = top - r * icdf[sym]]), sym - 1)

(* The window is filled a byte at a time until no byte fits.               *)
FillWindow(rc) ==
  IF rc.nendBits > CodeBits - SymBits THEN rc
  ELSE [rc EXCEPT !.endWindow = @ + Pow(rc.nendBits)
                      * (IF rc.endOffs < rc.storage THEN rc.buf[rc.storage - rc.endOffs] ELSE 0),
                  !.endOffs = Min({@ + 1, rc.storage}), !.nendBits = @ + SymBits]

DecBits(rc, bits) ==
  LET x == IF rc.nendBits < bits THEN Times(CodeBits \div SymBits, FillWindow, rc) ELSE rc
  IN IF bits = 0 THEN Read(rc, 0)
     ELSE Read([x EXCEPT !.endWindow = @ \div Pow(bits), !.nendBits = @ - bits,
                         !.nbitsTotal = @ + bits], x.endWindow % Pow(bits))

DecUintRest(high, fs, s) ==
  LET low == DecBits(high, s) IN Read(low.rc, fs * Pow(s) + low.value)

DecUint(rc, ft) ==
  LET total == UintTotal(ft)
      fs    == DecodeFreq(rc, total)
  IN IF ft <= 1 THEN Read(rc, 0)
     ELSE DecUintRest(Update(rc, fs, fs + 1, total), fs, UintShift(ft))

(***************************************************************************)
(* Laplace distributed values (a band's energy residual): the probability  *)
(* of 0 is fs, of each further value that of the last times decay, and at  *)
(* least 1 out of LaplaceTotal as far out as the total allows.             *)
(***************************************************************************)
LaplaceTotal == Pow(LaplaceBits)
FreqOfOne(fs, decay) ==
  ((LaplaceTotal - 2 * LaplaceTail - fs) * (LaplaceTotal \div 2 - decay)) \div LaplaceTotal
MaxDecays == Pow(LaplaceBits - 2)    \* each passes over 4 of the total or more

Further(x, magnitude, decay) ==
  IF x.fs > 0 /\ x.i < magnitude
  THEN [i |-> x.i + 1, fl |-> x.fl + 2 * x.fs + 2, fs |-> (2 * x.fs * decay) \div LaplaceTotal]
  ELSE x

(* Where a magnitude beyond 0 lies; sign is -1 below zero and 0 above.     *)
LaplaceSpan(x, magnitude, sign) ==
  LET room == (LaplaceTotal - x.fl - sign) \div 2
      di   == Min({magnitude - x.i, room - 1})
      fl   == x.fl + 2 * di + 1 + sign
  IN IF x.fs = 0 THEN [i |-> x.i + di, fl |-> fl, fs |-> Min({1, LaplaceTotal - fl})]
     ELSE [i |-> x.i, fl |-> IF sign = 0 THEN x.fl + x.fs + 1 ELSE x.fl, fs |-> x.fs + 1]

LaplaceOf(value, fs, decay) ==
  LET magnitude == IF value < 0 THEN -value ELSE value
      first == [i |-> 1, fl |-> fs, fs |-> FreqOfOne(fs, decay)]
  IN IF value = 0 THEN [i |-> 0, fl |-> 0, fs |-> fs]
     ELSE LaplaceSpan(Times(MaxDecays, LAMBDA x : Further(x, magnitude, decay), first),
                      magnitude, IF value < 0 THEN -1 ELSE 0)

(* The value coded is nearer to 0 where the one asked for has no room.     *)
EncLaplace(rc, value, fs, decay) ==
  LET at == LaplaceOf(value, fs, decay)
  IN Read(EncodeFreq(rc, at.fl, at.fl + at.fs, LaplaceTotal), IF value < 0 THEN -at.i ELSE at.i)

Beyond(x, fm, decay) ==
  IF x.fs > 1 /\ fm >= x.fl + 2 * x.fs
  THEN [val |-> x.val + 1, fl |-> x.fl + 2 * x.fs,
        fs |-> (((2 * x.fs - 2) * decay) \div LaplaceTotal) + 1]
  ELSE x

InTail(x, fm) ==
  LET di == (fm - x.fl) \div 2
  IN IF x.fs > 1 THEN x ELSE [x EXCEPT !.val = @ + di, !.fl = @ + 2 * di]

WithSign(x, fm) ==
  IF fm < x.fl + x.fs THEN [x EXCEPT !.val = -@] ELSE [x EXCEPT !.fl = @ + x.fs]

LaplaceAt(fm, fs, decay) ==
  IF fm < fs THEN [val |-> 0, fl |-> 0, fs |-> fs]
  ELSE LET first == [val |-> 1, fl |-> fs, fs |-> FreqOfOne(fs, decay) + 1]
       IN WithSign(InTail(Times(MaxDecays, LAMBDA x : Beyond(x, fm, decay), first), fm), fm)

DecLaplaceAt(rc, at) ==
  Read(Update(rc, at.fl, at.fl + Min({at.fs, LaplaceTotal - at.fl}), LaplaceTotal), at.val)
DecLaplace(rc, fs, decay) ==
  DecLaplaceAt(rc, LaplaceAt(DecodeFreq(rc, LaplaceTotal), fs, decay))
=============================================================================
