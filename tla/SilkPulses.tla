------------------------------ MODULE SilkPulses ------------------------------
(***************************************************************************)
(* How SILK codes the pulses of a frame (silk/encode_pulses.rs,            *)
(* shell_coder.rs, decode_pulses.rs): block by block, the number of pulses *)
(* of each, how they fall into the halves of the block and of its halves,  *)
(* the low bits of magnitudes too large for that, and the signs.  A symbol *)
(* is a table and a value; a decoder that asks for another table than the  *)
(* next symbol's has gone astray (the range coder itself is RangeCoder's). *)
(***************************************************************************)
EXTENDS Integers, SequencesExt

CONSTANT Shell   \* SILK_MAX_PULSES_TABLE: how many pulses 2, 4, ... samples may hold

(* Samples of 1 are never too many: halving never leaves a block of zeros, *)
(* whose signs would not be coded.                                         *)
ASSUME ShellAssumption ==
  Shell \in Seq(Nat) /\ Len(Shell) > 0 /\ \A level \in DOMAIN Shell : Shell[level] >= 2 ^ level

Block     == 2 ^ Len(Shell)
MaxPulses == Last(Shell)
Escape    == MaxPulses + 1     \* "more: the low bits come later"
LastRate  == 9                 \* N_RATE_LEVELS - 1
MostShifts == 10

Sym(table, value) == << <<table, value>> >>

(* A reader of symbols, and what it has read; each is evaluated at once.   *)
With(v, Op(_)) == CHOOSE r \in {Op(x) : x \in {v}} : TRUE
Over(Op(_, _), base, seq) == FoldLeft(LAMBDA acc, x : With(acc, LAMBDA a : Op(a, x)), base, seq)
Upto(n) == [k \in 1 .. n |-> k]

ReaderOf(symbols) == [left |-> symbols, ok |-> TRUE]
Had(r, value) == [r |-> r, v |-> value]
Read(r, table) ==
  IF r.left # <<>> /\ Head(r.left)[1] = table
  THEN Had([r EXCEPT !.left = Tail(@)], Head(r.left)[2])
  ELSE Had([r EXCEPT !.ok = FALSE], 0)

Total(seq) == FoldLeft(LAMBDA a, b : a + b, 0, seq)
Magnitude(x) == IF x < 0 THEN -x ELSE x
FirstHalf(seq)  == SubSeq(seq, 1, Len(seq) \div 2)
SecondHalf(seq) == SubSeq(seq, Len(seq) \div 2 + 1, Len(seq))

SplitTable(length, pulses) == <<"split", length, pulses>>
SumTable(rate) == <<"pulses_per_block", rate>>
SignTable(type, offset, sum) == <<"sign", 2 * type + offset, IF sum > 6 THEN 6 ELSE sum>>

(***************************************************************************)
(* silk_encode_pulses.  The last block may reach beyond the frame, where   *)
(* there are zeros.                                                        *)
(***************************************************************************)
BlockCount(length) == (length + Block - 1) \div Block
Piece(pulses, b) ==
  [k \in 1 .. Block |-> LET at == (b - 1) * Block + k
                        IN IF at <= Len(pulses) THEN pulses[at] ELSE 0]

(* Halved until no two samples, or four, or ..., hold too many.            *)
Halved(block, times) == [k \in 1 .. Block |-> Magnitude(block[k]) \div 2 ^ times]
Crowded(magnitudes) ==
  \E level \in 1 .. Len(Shell) : \E g \in 0 .. Block \div 2 ^ level - 1 :
    Total(SubSeq(magnitudes, g * 2 ^ level + 1, (g + 1) * 2 ^ level)) > Shell[level]
Shifts(block) ==
  CHOOSE s \in 0 .. MostShifts :
    ~Crowded(Halved(block, s)) /\ \A t \in 0 .. s - 1 : Crowded(Halved(block, t))

(* silk_shell_encoder.                                                     *)
RECURSIVE ShellEncode(_)
ShellEncode(magnitudes) ==
  IF Len(magnitudes) = 1 THEN <<>>
  ELSE (IF Total(magnitudes) > 0
        THEN Sym(SplitTable(Len(magnitudes), Total(magnitudes)), Total(FirstHalf(magnitudes)))
        ELSE <<>>)
       \o ShellEncode(FirstHalf(magnitudes)) \o ShellEncode(SecondHalf(magnitudes))

SumSymbols(rate, sum, shifts) ==
  IF shifts = 0 THEN Sym(SumTable(rate), sum)
  ELSE Sym(SumTable(rate), Escape)
       \o FlattenSeq([i \in 1 .. shifts - 1 |-> Sym(SumTable(LastRate), Escape)])
       \o Sym(SumTable(LastRate), sum)

LowBits(block, shifts) ==
  FlattenSeq([k \in 1 .. Block |->
    FlattenSeq([j \in 1 .. shifts |->
      Sym("lsb", (Magnitude(block[k]) \div 2 ^ (shifts - j)) % 2)])])

Signs(block, type, offset, sum) ==
  FlattenSeq([k \in 1 .. Block |->
    IF block[k] = 0 THEN <<>>
    ELSE Sym(SignTable(type, offset, sum), IF block[k] > 0 THEN 1 ELSE 0)])

EncodePulses(type, offset, rate, pulses) ==
  With([b \in 1 .. BlockCount(Len(pulses)) |->
          With(Piece(pulses, b), LAMBDA piece : With(Shifts(piece), LAMBDA shifts :
            [piece |-> piece, shifts |-> shifts, low |-> Halved(piece, shifts),
             sum |-> Total(Halved(piece, shifts))]))], LAMBDA blocks :
    LET All(Of(_)) == FlattenSeq([b \in DOMAIN blocks |-> Of(blocks[b])])
    IN Sym(<<"rate_level", type \div 2>>, rate)
       \o All(LAMBDA b : SumSymbols(rate, b.sum, b.shifts))
       \o All(LAMBDA b : ShellEncode(b.low))
       \o All(LAMBDA b : LowBits(b.piece, b.shifts))
       \o All(LAMBDA b : IF b.sum > 0 THEN Signs(b.piece, type, offset, b.sum) ELSE <<>>))

(***************************************************************************)
(* silk_decode_pulses.                                                     *)
(***************************************************************************)
RECURSIVE ReadSum(_, _, _)
ReadSum(r, table, shifts) ==
  With(Read(r, table), LAMBDA x :
    IF x.v # Escape THEN Had(x.r, [sum |-> x.v, shifts |-> shifts])
    ELSE ReadSum(x.r, IF shifts + 1 = MostShifts THEN <<"pulses_per_block_from_1">>
                      ELSE SumTable(LastRate), shifts + 1))

RECURSIVE ShellDecode(_, _, _)
ShellDecode(r, pulses, length) ==
  IF length = 1 THEN Had(r, <<pulses>>)
  ELSE IF pulses = 0 THEN Had(r, [k \in 1 .. length |-> 0])
  ELSE With(Read(r, SplitTable(length, pulses)), LAMBDA x :
         With(ShellDecode(x.r, x.v, length \div 2), LAMBDA a :
           With(ShellDecode(a.r, pulses - x.v, length \div 2), LAMBDA b :
             Had(b.r, a.v \o b.v))))

ReadLowBits(r, magnitudes, shifts) ==
  Over(LAMBDA acc, k :
         With(Over(LAMBDA a, j : With(Read(a.r, "lsb"), LAMBDA x : Had(x.r, 2 * a.v + x.v)),
                   Had(acc.r, magnitudes[k]), Upto(shifts)),
              LAMBDA a : Had(a.r, Append(acc.v, a.v))),
       Had(r, <<>>), Upto(Len(magnitudes)))

ReadSigns(r, magnitudes, table) ==
  Over(LAMBDA acc, k :
         IF magnitudes[k] = 0 THEN Had(acc.r, Append(acc.v, 0))
         ELSE With(Read(acc.r, table), LAMBDA x :
                Had(x.r, Append(acc.v, IF x.v = 0 THEN -magnitudes[k] ELSE magnitudes[k]))),
       Had(r, <<>>), Upto(Len(magnitudes)))

(* The number of low bits is told apart by bits 5 up of the count, and     *)
(* silk_decode_signs takes the count of shell pulses from the lower ones.  *)
Told(count) == count.sum + 32 * count.shifts
EachBlock(Read1(_, _), r, length) ==
  Over(LAMBDA acc, b : With(Read1(acc.r, b), LAMBDA x : Had(x.r, Append(acc.v, x.v))),
       Had(r, <<>>), Upto(BlockCount(length)))

DecodePulses(r, type, offset, length) ==
  With(Read(r, <<"rate_level", type \div 2>>), LAMBDA rate :
    With(EachBlock(LAMBDA q, b : ReadSum(q, SumTable(rate.v), 0), rate.r, length), LAMBDA counts :
      With(EachBlock(LAMBDA q, b : ShellDecode(q, counts.v[b].sum, Block), counts.r, length), LAMBDA shells :
        With(EachBlock(LAMBDA q, b : ReadLowBits(q, shells.v[b], counts.v[b].shifts), shells.r, length), LAMBDA bits :
          With(EachBlock(LAMBDA q, b :
                 IF Told(counts.v[b]) = 0 THEN Had(q, bits.v[b])
                 ELSE ReadSigns(q, bits.v[b], SignTable(type, offset, Told(counts.v[b]) % 32)),
               bits.r, length), LAMBDA signs :
            Had(signs.r, SubSeq(FlattenSeq(signs.v), 1, length)))))))
=============================================================================
