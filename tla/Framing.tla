------------------------------ MODULE Framing ------------------------------
(***************************************************************************)
(* How frames are packed into a packet (repacketizer.rs: parse_packet and  *)
(* emit_packet): a TOC byte, a frame count and padding where the code      *)
(* calls for them, sizes, frames.  A packet is a sequence of bytes; how    *)
(* many values a byte has is a parameter, and the bit fields and the       *)
(* length coding scale with it.                                            *)
(***************************************************************************)
EXTENDS Integers, SequencesExt, FiniteSetsExt

CONSTANTS
  Base,     \* values of a byte (256)
  Step,     \* what the second byte of a size counts in (4)
  Spans,    \* the duration of a frame, by configuration
  MaxSpan   \* the longest a packet may last (120 ms)

ASSUME ByteAssumption ==
  /\ Base \in Nat /\ Step \in Nat \ {0}
  /\ Base % 4 = 0 /\ Base % Step = 0 /\ Base > Step
ASSUME SpanAssumption ==
  /\ MaxSpan \in Nat
  /\ Spans \in [0 .. (Base \div 4) - 1 -> Nat \ {0}]
  /\ \A c \in DOMAIN Spans : 2 * Spans[c] <= MaxSpan /\ MaxSpan < (Base \div 4) * Spans[c]

Byte == 0 .. Base - 1
Short == Base - Step    \* the first size that takes two bytes (252)
MaxFrame == (Base - 1) * (Step + 1)    \* the largest size there is (1275)

(* The TOC: a configuration and a code.                                    *)
ConfigOf(toc) == toc \div 4
CodeOf(toc) == toc % 4

(* The frame count byte of code 3.                                         *)
VbrFlag == Base \div 2
PadFlag == Base \div 4
CountOf(byte) == byte % PadFlag
HasVbr(byte) == byte >= VbrFlag
HasPadding(byte) == (byte \div PadFlag) % 2 = 1

Total(numbers) ==
  LET upTo[n \in 0 .. Len(numbers)] == IF n = 0 THEN 0 ELSE upTo[n - 1] + numbers[n]
  IN upTo[Len(numbers)]
Sizes(frames) == [i \in DOMAIN frames |-> Len(frames[i])]

(***************************************************************************)
(* parse_packet.  The cursor: the index of the next byte, what is left of  *)
(* the packet without its padding, and the sizes read so far.              *)
(***************************************************************************)
Malformed == [ok |-> FALSE, at |-> 0, left |-> 0, sizes |-> <<>>]

(* parse_size: how many bytes the field has (0 when it is cut), the size.  *)
SizeField(data, at) ==
  IF at > Len(data) THEN [bytes |-> 0, size |-> 0]
  ELSE IF data[at] < Short THEN [bytes |-> 1, size |-> data[at]]
  ELSE IF at = Len(data) THEN [bytes |-> 0, size |-> 0]
  ELSE [bytes |-> 2, size |-> data[at + 1] * Step + data[at]]

TakeSize(data, cursor) ==
  LET field == SizeField(data, cursor.at)
      left  == cursor.left - field.bytes
  IN IF ~cursor.ok \/ field.bytes = 0 \/ field.size > left
     THEN Malformed
     ELSE [ok |-> TRUE, at |-> cursor.at + field.bytes, left |-> left,
           sizes |-> Append(cursor.sizes, field.size)]

(* frame_count, for a packet that has the bytes to tell.                   *)
FrameCount(data) ==
  CASE CodeOf(data[1]) = 0 -> 1
    [] CodeOf(data[1]) \in {1, 2} -> 2
    [] CodeOf(data[1]) = 3 -> CountOf(data[2])

HasFrameCount(data) ==
  data # <<>> /\ (CodeOf(data[1]) = 3 => Len(data) >= 2 /\ CountOf(data[2]) # 0)

(* The padding after the count byte: a byte of Base - 1 stands for one     *)
(* less of padding and says that another length byte follows.              *)
Padding(data) ==
  LET ends == {i \in 3 .. Len(data) : data[i] # Base - 1}
      last == Min(ends)
  IN IF ends = {} THEN Malformed
     ELSE [ok |-> TRUE, at |-> last + 1, sizes |-> <<>>,
           left |-> Len(data) - 2 - (last - 3) * (Base - 1) - 1 - data[last]]

Header(data) ==
  IF data = <<>> THEN Malformed
  ELSE IF CodeOf(data[1]) # 3
  THEN [ok |-> TRUE, at |-> 2, left |-> Len(data) - 1, sizes |-> <<>>]
  ELSE IF ~HasFrameCount(data)
            \/ Spans[ConfigOf(data[1])] * FrameCount(data) > MaxSpan
    THEN Malformed
  ELSE IF HasPadding(data[2]) THEN Padding(data)
  ELSE [ok |-> TRUE, at |-> 3, left |-> Len(data) - 2, sizes |-> <<>>]

ConstantSize(data) ==
  CodeOf(data[1]) = 1 \/ (CodeOf(data[1]) = 3 /\ ~HasVbr(data[2]))

Given(data, start, count) ==
  LET upTo[n \in 0 .. count] == IF n = 0 THEN start ELSE TakeSize(data, upTo[n - 1])
  IN upTo[count]

(* The sizes of a packet that fills its data: what is left, divided up or  *)
(* after the frames whose sizes are given.                                 *)
Divided(start, count) ==
  LET size == start.left \div count
  IN IF size * count # start.left \/ size > MaxFrame THEN Malformed
     ELSE [start EXCEPT !.sizes = [i \in 1 .. count |-> size]]

Remainder(given) ==
  LET size == given.left - Total(given.sizes)
  IN IF ~given.ok \/ size < 0 \/ size > MaxFrame THEN Malformed
     ELSE [given EXCEPT !.sizes = Append(@, size)]

PlainSizes(data, start, count) ==
  IF ConstantSize(data) THEN Divided(start, count)
  ELSE Remainder(Given(data, start, count - 1))

(* The sizes of one that more follows: the last frame's is given as well.  *)
Repeated(given, count) ==
  IF ~given.ok \/ given.sizes[1] * count > given.left THEN Malformed
  ELSE [given EXCEPT !.sizes = [i \in 1 .. count |-> @[1]]]

Within(given) ==
  IF ~given.ok \/ Total(given.sizes) > given.left THEN Malformed ELSE given

DelimitedSizes(data, start, count) ==
  IF ConstantSize(data) THEN Repeated(TakeSize(data, start), count)
  ELSE Within(Given(data, start, count))

AllSizes(data, start, delimited) ==
  IF ~start.ok \/ start.left < 0 THEN Malformed
  ELSE IF delimited THEN DelimitedSizes(data, start, FrameCount(data))
  ELSE PlainSizes(data, start, FrameCount(data))

(* The configuration, the frames, and the bytes up to the last frame's end.*)
Cut(data, read) ==
  LET from(i) == read.at + Total(SubSeq(read.sizes, 1, i - 1))
  IN IF ~read.ok THEN [ok |-> FALSE, config |-> 0, frames |-> <<>>, consumed |-> 0]
     ELSE [ok |-> TRUE, config |-> ConfigOf(data[1]),
           frames |-> [i \in DOMAIN read.sizes |->
                         SubSeq(data, from(i), from(i) + read.sizes[i] - 1)],
           consumed |-> read.at - 1 + Total(read.sizes)]

ParsePacket(data, delimited) ==
  Cut(data, AllSizes(data, Header(data), delimited))

(***************************************************************************)
(* emit_packet: the shortest code that fits, and code 3 when padding is    *)
(* wanted up to a length.                                                  *)
(***************************************************************************)
NoPadding == 0

EncodeSize(size) ==
  IF size < Short THEN <<size>>
  ELSE LET first == Short + (size % Step) IN <<first, (size - first) \div Step>>

Code(frames, padTo) ==
  LET equal == \A i \in DOMAIN frames : Len(frames[i]) = Len(frames[1])
  IN IF Len(frames) > 2 \/ padTo # NoPadding THEN 3
     ELSE IF Len(frames) = 1 THEN 0
     ELSE IF equal THEN 1 ELSE 2

(* Mutant: an amount that fills its length bytes takes one more.          *)
PadBytesRoundedUp(amount) ==
  IF amount = 0 THEN <<>>
  ELSE LET full == amount \div (Base - 1)
       IN [i \in 1 .. full |-> Base - 1] \o <<(amount - 1) % (Base - 1)>>

(* The length bytes of so much padding, themselves included.               *)
PadBytes(amount) ==
  IF amount = 0 THEN <<>>
  ELSE LET full == (amount - 1) \div (Base - 1)
       IN [i \in 1 .. full |-> Base - 1] \o <<amount - (Base - 1) * full - 1>>

(* What is missing up to a length; a packet filled up to it with zeros.    *)
Missing(length, have) == IF length > have THEN length - have ELSE 0
Filled(bytes, length) == bytes \o [i \in 1 .. Missing(length, Len(bytes)) |-> 0]

(* The count byte and the padding of code 3.                               *)
CountAndPadding(count, vbr, extra) ==
  <<count + (IF vbr THEN VbrFlag ELSE 0) + (IF extra > 0 THEN PadFlag ELSE 0)>>
    \o PadBytes(extra)

EmitPacket(config, frames, padTo, delimited) ==
  LET count == Len(frames)
      code  == Code(frames, padTo)
      vbr   == \E i \in DOMAIN frames : Len(frames[i]) # Len(frames[1])
      given == IF code = 2 \/ (code = 3 /\ vbr)
               THEN FlattenSeq([i \in 1 .. count - 1 |-> EncodeSize(Len(frames[i]))])
               ELSE <<>>
      bare  == 2 + Len(given) + Total(Sizes(frames))
      head  == <<4 * config + code>>
                 \o (IF code = 3 THEN CountAndPadding(count, vbr, Missing(padTo, bare))
                     ELSE <<>>)
      last  == IF delimited THEN EncodeSize(Len(frames[count])) ELSE <<>>
  IN Filled(head \o given \o last \o FlattenSeq(frames), padTo)

(***************************************************************************)
(* take_self_delimited_into: the packet at the front of the data, framed   *)
(* as one that stands alone, and where the data goes on.                   *)
(***************************************************************************)
Reframed(parsed) ==
  IF parsed.ok THEN EmitPacket(parsed.config, parsed.frames, NoPadding, FALSE) ELSE <<>>

(* Mutant: what is counted is the packet given, not the bytes it was.      *)
TakeCountsTheCopy(parsed) ==
  [ok |-> parsed.ok, consumed |-> Len(Reframed(parsed)), packet |-> Reframed(parsed)]

Taken(parsed) ==
  [ok |-> parsed.ok, consumed |-> parsed.consumed, packet |-> Reframed(parsed)]

TakeSelfDelimited(data) == Taken(ParsePacket(data, TRUE))
=============================================================================
