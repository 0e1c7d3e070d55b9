--------------------------- MODULE EntropyCoding ---------------------------
(***************************************************************************)
(* One frame through the entropy coder: an encoder writes symbols of every *)
(* kind the codec has, may have its buffer shrunk (celt/mod.rs, VBR) or    *)
(* padded (CBR), goes back to fill in the flags it reserved at the start   *)
(* (silk/enc_api.rs), closes the buffer, and a decoder that knows the      *)
(* kinds but not the values reads it.                                      *)
(***************************************************************************)
EXTENDS RangeCoder, PulseIndex

CONSTANTS
  Symbols,       \* the symbols that may be written
  Sizes,         \* the sizes a buffer may have
  FlagBits,      \* numbers of flags that may be reserved (0: none)
  MaxSymbols,    \* the most symbols of a frame
  PadPending     \* TRUE: a frame may be padded while raw bits are pending

VARIABLES
  phase,    \* "writing", "padded" or "reading"
  coder,      \* the encoder
  log,      \* what was written: the symbol, and tell and rng after it
  decoder,      \* the decoder
  readBack     \* the values it has read
codingVars == <<phase, coder, log, decoder, readBack>>

(* The flags a SILK packet starts with; value is -1 until they are known.  *)
Flags(bits, value) == [kind |-> "flags", bits |-> bits, value |-> value]
FlagIcdf(bits) == <<Pow(SymBits) - Pow(SymBits - bits), 0>>
ReserveFlags(rc, bits) == EncodeIcdf(rc, 0, FlagIcdf(bits), SymBits)

Encode(rc, s) ==
  CASE s.kind = "bit"     -> Read(EncodeBitLogp(rc, s.value, s.logp), s.value)
    [] s.kind = "icdf"    -> Read(EncodeIcdf(rc, s.value, s.icdf, s.ftb), s.value)
    [] s.kind = "freq"    -> Read(EncodeFreq(rc, s.value, s.value + 1, s.ft), s.value)
    [] s.kind = "uint"    -> Read(EncUint(rc, s.value, s.ft), s.value)
    [] s.kind = "raw"     -> Read(EncBits(rc, s.value, s.bits), s.value)
    [] s.kind = "laplace" -> EncLaplace(rc, s.value, s.fs, s.decay)
    [] s.kind = "pulses"  -> Read(EncUint(rc, Icwrs(s.value), V(s.n, s.k)), s.value)

DecFreq(rc, fl, ft) == Read(Update(rc, fl, fl + 1, ft), fl)
DecPulses(index, s) == Read(index.rc, Cwrsi(s.n, s.k, index.value))
(* The decoder of a SILK packet reads its flags bit by bit.                *)
DecFlags(rc, bits) ==
  FoldLeft(LAMBDA x, i : LET bit == DecodeBitLogp(x.rc, 1)
                         IN Read(bit.rc, 2 * x.value + bit.value),
           Read(rc, 0), [i \in 1 .. bits |-> i])

Decode(rc, s) ==
  CASE s.kind = "bit"     -> DecodeBitLogp(rc, s.logp)
    [] s.kind = "icdf"    -> DecodeIcdf(rc, s.icdf, s.ftb)
    [] s.kind = "freq"    -> DecFreq(rc, DecodeFreq(rc, s.ft), s.ft)
    [] s.kind = "uint"    -> DecUint(rc, s.ft)
    [] s.kind = "raw"     -> DecBits(rc, s.bits)
    [] s.kind = "laplace" -> DecLaplace(rc, s.fs, s.decay)
    [] s.kind = "pulses"  -> DecPulses(DecUint(rc, V(s.n, s.k)), s)
    [] s.kind = "flags"   -> DecFlags(rc, s.bits)

Entry(rc, s) == [sym |-> s, tell |-> ToldBits(rc), rng |-> rc.rng]

CodingInit ==
  /\ phase = "writing" /\ decoder = <<>> /\ readBack = <<>>
  /\ \E size \in Sizes, bits \in FlagBits :
       IF bits = 0 THEN coder = NewEncoder(size) /\ log = <<>>
       ELSE /\ coder = ReserveFlags(NewEncoder(size), bits)
            /\ log = <<Entry(coder, Flags(bits, -1))>>

PutDown(written, s) ==
  /\ coder' = written.rc
  /\ log' = Append(log, Entry(written.rc, [s EXCEPT !.value = written.value]))

Write(s) ==
  /\ phase = "writing" /\ Len(log) < MaxSymbols
  /\ PutDown(Encode(coder, s), s)
  /\ UNCHANGED <<phase, decoder, readBack>>

FlagsUnset == log # <<>> /\ log[1].sym.kind = "flags" /\ log[1].sym.value = -1

Patch(value) ==
  /\ phase = "writing" /\ FlagsUnset /\ Len(log) > 1
  /\ value < Pow(log[1].sym.bits)
  /\ coder' = PatchInitialBits(coder, value, log[1].sym.bits)
  /\ log' = [log EXCEPT ![1].sym.value = value]
  /\ UNCHANGED <<phase, decoder, readBack>>

(* The VBR decision: never below what is written.                          *)
CutTo(size) ==
  /\ phase = "writing" /\ coder.error = 0
  /\ size < coder.storage /\ ToldBits(coder) <= SymBits * size
  /\ coder' = Shrink(coder, size)
  /\ UNCHANGED <<phase, log, decoder, readBack>>

(* The end of a CELT frame: what it has left is filled.  The bytes go to   *)
(* the back of the buffer at once, before the raw bits still in the        *)
(* window: the runs keep the two apart with PadPending.                    *)
PadSplitsWindow ==
  /\ coder.nendBits > 0
  /\ SymBits * coder.storage - coder.nbitsTotal
       >= SymBits + ((SymBits - (coder.nendBits % SymBits)) % SymBits)

Pad ==
  /\ phase = "writing" /\ ~FlagsUnset
  /\ PadPending \/ ~PadSplitsWindow
  /\ coder' = PadToBits(coder, SymBits * coder.storage)
  /\ phase' = "padded"
  /\ UNCHANGED <<log, decoder, readBack>>

Close ==
  /\ phase \in {"writing", "padded"} /\ ~FlagsUnset
  /\ coder' = Done(coder)
  /\ decoder' = NewDecoder(SubSeq(coder'.buf, 1, coder'.storage))
  /\ phase' = "reading"
  /\ UNCHANGED <<log, readBack>>

Hear(got) == decoder' = got.rc /\ readBack' = Append(readBack, got.value)

Listen ==
  /\ phase = "reading" /\ Len(readBack) < Len(log) /\ coder.error = 0
  /\ Hear(Decode(decoder, log[Len(readBack) + 1].sym))
  /\ UNCHANGED <<phase, coder, log>>

CodingNext ==
  \/ \E s \in Symbols : Write(s)
  \/ \E value \in 0 .. SymMax : Patch(value)
  \/ \E size \in Sizes : CutTo(size)
  \/ Pad \/ Close \/ Listen
CodingSpec == CodingInit /\ [][CodingNext]_codingVars

-----------------------------------------------------------------------------
(* However long a run of full bytes a carry went back over, and however    *)
(* the buffer was cut, a frame whose bits fit its bytes is closed without  *)
(* an error (carry_out, done); and a buffer that holds the bits told so    *)
(* far has room for the bytes written so far (the assertions of shrink).   *)
FitsMeansWritten ==
  LET fits(size) == size <= coder.storage /\ ToldBits(coder) <= SymBits * size
  IN /\ phase = "reading" /\ fits(coder.storage) => coder.error = 0
     /\ phase = "writing" /\ coder.error = 0 =>
          \A size \in Sizes : fits(size) => CanShrink(coder, size)

(* What was written is what is read (every encoder of range_coder.rs and   *)
(* icwrs against its decoder), the flags filled in afterwards included;    *)
(* and at each symbol the decoder has used the bits the encoder had, and   *)
(* is in the same range: every later decision on bits left is the same.    *)
HeardAsWritten ==
  \A i \in DOMAIN readBack :
    /\ readBack[i] = log[i].sym.value
    /\ i = Len(readBack) => ToldBits(decoder) = log[i].tell /\ decoder.rng = log[i].rng
=============================================================================
