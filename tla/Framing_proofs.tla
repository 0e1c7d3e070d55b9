--------------------------- MODULE Framing_proofs ----------------------------
(***************************************************************************)
(* Proofs about packets of frames, for any width of a byte.  What          *)
(* encode_size writes, parse_size reads, and padding comes off as it went  *)
(* on.  What emit_packet writes, parse_packet takes apart into the frames  *)
(* it was made of, padded or not, with another packet behind it or not;    *)
(* and a self-delimited packet that parses, whoever made it, parses to the *)
(* same whatever follows it.                                               *)
(***************************************************************************)
EXTENDS Framing, SequenceFacts

LEMMA Division ==
  ASSUME NEW a \in Nat, NEW s \in Nat \ {0}
  PROVE  /\ a \div s \in Nat /\ a % s \in 0 .. s - 1
         /\ a = s * (a \div s) + (a % s)
  BY SMT

LEMMA Quotient ==
  ASSUME NEW s \in Nat \ {0}, NEW d \in Int
  PROVE  (s * d) \div s = d
  BY SMT

LEMMA Monotone ==
  ASSUME NEW s \in Nat \ {0}, NEW a \in Int, NEW b \in Int
  PROVE  /\ s * a \in Int /\ s * b \in Int
         /\ s * a < s * b => a < b
         /\ s * (a + 1) = s * a + s
         /\ s * (a - b) = s * a - s * b
  BY SMT

(* The digits of a size that takes two bytes: the units, and the rest in   *)
(* whole Steps from Short on.                                              *)
LEMMA TwoBytes ==
  ASSUME NEW size \in 0 .. MaxFrame, size >= Short
  PROVE  LET first == Short + (size % Step)
             second == (size - first) \div Step
         IN /\ first \in Byte /\ first >= Short /\ second \in Byte
            /\ second * Step + first = size
<1>. DEFINE d == size \div Step
            m == size % Step
            q == Base \div Step
<1>0. /\ Base \in Nat /\ Step \in Nat \ {0} /\ Base > Step /\ Base % Step = 0
      /\ Short = Base - Step /\ MaxFrame = (Base - 1) * (Step + 1)
      /\ size \in Nat /\ Short \in Nat
  BY ByteAssumption DEF Short, MaxFrame
<1>1. /\ d \in Nat /\ m \in 0 .. Step - 1 /\ size = Step * d + m
      /\ q \in Nat /\ Base = Step * q
  <2>1. /\ d \in Nat /\ m \in 0 .. Step - 1 /\ size = Step * d + m
    BY <1>0, Division
  <2>2. q \in Nat /\ Base = Step * q + (Base % Step)
    BY <1>0, Division
  <2>. QED BY <2>1, <2>2, <1>0
<1>. HIDE DEF d, m, q
<1>2. /\ Step * (d - q) = Step * d - Step * q
      /\ Step * ((d - q) + 1) = Step * (d - q) + Step
      /\ Step * d \in Int /\ Step * q \in Int
  BY <1>0, <1>1, Monotone
<1>3. size - (Short + m) = Step * ((d - q) + 1)
  BY <1>0, <1>1, <1>2
<1>4. (size - (Short + m)) \div Step = (d - q) + 1
  BY <1>0, <1>1, <1>3, Quotient
<1>5. (d - q) + 1 >= 0
  <2>1. Step * ((d - q) + 2) > Step * 0
    <3>1. Step * (((d - q) + 1) + 1) = Step * ((d - q) + 1) + Step
      BY <1>0, <1>1, Monotone
    <3>. QED BY <3>1, <1>0, <1>1, <1>2
  <2>. QED BY <2>1, <1>0, <1>1, Monotone
<1>6. (d - q) + 1 < Base
  <2>1. (Base - 1) * (Step + 1) = Step * (Base - 1) + Base - 1
    BY <1>0
  <2>2. Step * ((d - q) + 1) < Step * Base
    <3>1. Step * ((Base - 1) + 1) = Step * (Base - 1) + Step /\ Step * (Base - 1) \in Int
      BY <1>0, Monotone
    <3>. QED BY <3>1, <2>1, <1>0, <1>1, <1>3
  <2>. QED BY <2>2, <1>0, <1>1, Monotone
<1>7. ((d - q) + 1) * Step = Step * ((d - q) + 1)
  BY <1>0, <1>1
<1>8. /\ Short + m \in Byte /\ Short + m >= Short
      /\ (size - (Short + m)) \div Step \in Byte
  BY <1>0, <1>1, <1>4, <1>5, <1>6 DEF Byte
<1>9. ((size - (Short + m)) \div Step) * Step + (Short + m) = size
  BY <1>0, <1>1, <1>3, <1>4, <1>7
<1>. QED BY ONLY <1>8, <1>9 DEF m

LEMMA EncodedSize ==
  ASSUME NEW size \in 0 .. MaxFrame
  PROVE  EncodeSize(size) \in Seq(Byte) /\ Len(EncodeSize(size)) \in {1, 2}
<1>0. Base \in Nat /\ Step \in Nat \ {0} /\ Base > Step
      /\ MaxFrame = (Base - 1) * (Step + 1) /\ (Base - 1) * (Step + 1) \in Int
  BY ByteAssumption DEF MaxFrame
<1>1. CASE size < Short
  BY <1>0, <1>1 DEF EncodeSize, Byte, Short
<1>2. CASE size >= Short
  <2>. DEFINE first == Short + (size % Step)
              second == (size - first) \div Step
  <2>1. first \in Byte /\ second \in Byte
    BY <1>2, TwoBytes
  <2>2. EncodeSize(size) = <<first, second>>
    BY <1>0, <1>2 DEF EncodeSize, Short
  <2>. HIDE DEF first, second
  <2>. QED BY <2>1, <2>2
<1>. QED BY <1>0, <1>1, <1>2 DEF Short

(* encode_size and parse_size are inverse: wherever in a packet the bytes  *)
(* encode_size writes for a size stand, parse_size reads that size and     *)
(* goes on behind them.  The sizes are those of one and of two bytes, the  *)
(* largest included, whatever a byte holds.                                *)
THEOREM SizeRoundTrip ==
  ASSUME NEW size \in 0 .. MaxFrame,
         NEW data \in Seq(Byte), NEW at \in 1 .. Len(data),
         at + Len(EncodeSize(size)) - 1 <= Len(data),
         \A i \in 1 .. Len(EncodeSize(size)) : data[at + i - 1] = EncodeSize(size)[i]
  PROVE  SizeField(data, at) = [bytes |-> Len(EncodeSize(size)), size |-> size]
<1>0. /\ Base \in Nat /\ Step \in Nat \ {0} /\ Base > Step /\ Short \in Int
      /\ MaxFrame \in Int /\ Len(data) \in Nat /\ size \in Nat
  BY ByteAssumption DEF MaxFrame, Short
<1>1. CASE size < Short
  <2>1. EncodeSize(size) = <<size>>
    BY <1>1 DEF EncodeSize
  <2>2. data[at] = size
    BY <1>0, <2>1
  <2>. QED BY <1>0, <1>1, <2>1, <2>2 DEF SizeField
<1>2. CASE size >= Short
  <2>. DEFINE first == Short + (size % Step)
              second == (size - first) \div Step
  <2>1. /\ first \in Byte /\ first >= Short /\ second \in Byte
        /\ second * Step + first = size
    BY <1>2, TwoBytes
  <2>2. EncodeSize(size) = <<first, second>>
    BY <1>0, <1>2 DEF EncodeSize
  <2>. HIDE DEF first, second
  <2>3. data[at] = first /\ data[at + 1] = second /\ at + 1 <= Len(data)
    BY <1>0, <2>2
  <2>4. first \in Int /\ second \in Int
    BY <2>1 DEF Byte
  <2>5. SizeField(data, at) = [bytes |-> 2, size |-> second * Step + first]
    BY <1>0, <2>1, <2>3, <2>4 DEF SizeField
  <2>6. Len(EncodeSize(size)) = 2
    BY <2>2
  <2>. QED BY <2>1, <2>5, <2>6
<1>. QED BY <1>0, <1>1, <1>2

(* No size parse_size can read is above the limit, which is why only the   *)
(* size worked out from what is left is checked against it.                *)
THEOREM SizesAreBounded ==
  ASSUME NEW data \in Seq(Byte), NEW at \in Nat \ {0}
  PROVE  SizeField(data, at).size \in 0 .. MaxFrame
<1>0. /\ Base \in Nat /\ Step \in Nat \ {0} /\ Base > Step /\ Len(data) \in Nat
      /\ MaxFrame = (Base - 1) * (Step + 1)
  BY ByteAssumption DEF MaxFrame
<1>1. (Base - 1) * (Step + 1) = (Base - 1) * Step + (Base - 1) /\ (Base - 1) * Step \in Nat
  BY <1>0
<1>2. ASSUME at < Len(data)
      PROVE  data[at + 1] * Step + data[at] \in 0 .. MaxFrame
  <2>1. data[at] \in 0 .. Base - 1 /\ data[at + 1] \in 0 .. Base - 1
    BY <1>0, <1>2 DEF Byte
  <2>2. data[at + 1] * Step \in 0 .. (Base - 1) * Step
    BY <1>0, <2>1
  <2>. QED BY <1>0, <1>1, <2>1, <2>2, SMTT(30)
<1>3. ASSUME at <= Len(data)
      PROVE  data[at] \in 0 .. MaxFrame
  BY <1>0, <1>1, <1>3 DEF Byte
<1>4. 0 \in 0 .. MaxFrame
  BY <1>0, <1>1
<1>. QED BY <1>0, <1>2, <1>3, <1>4 DEF SizeField

(* The length bytes of an amount of padding: as many full ones as there    *)
(* are, and one that is not full, for what is left.                        *)
LEMMA PaddingLength ==
  ASSUME NEW amount \in Nat \ {0}
  PROVE  \E full \in Nat, rest \in Byte :
           /\ rest < Base - 1
           /\ amount = full * (Base - 1) + rest + 1
           /\ PadBytes(amount) \in Seq(Byte)
           /\ Len(PadBytes(amount)) = full + 1
           /\ \A i \in 1 .. full : PadBytes(amount)[i] = Base - 1
           /\ PadBytes(amount)[full + 1] = rest
<1>. DEFINE full == (amount - 1) \div (Base - 1)
            rest == amount - (Base - 1) * full - 1
            most == [i \in 1 .. full |-> Base - 1]
<1>0. Base \in Nat /\ Base - 1 \in Nat \ {0} /\ amount - 1 \in Nat
  BY ByteAssumption
<1>1. /\ full \in Nat /\ (amount - 1) % (Base - 1) \in 0 .. (Base - 1) - 1
      /\ amount - 1 = (Base - 1) * full + ((amount - 1) % (Base - 1))
  BY <1>0, Division
<1>2. PadBytes(amount) = most \o <<rest>>
  BY DEF PadBytes
<1>. HIDE DEF full
<1>3. (Base - 1) * full \in Int /\ (Base - 1) * full = full * (Base - 1)
  BY <1>0, <1>1
<1>4. rest \in Byte /\ rest < Base - 1 /\ amount = full * (Base - 1) + rest + 1
  BY <1>0, <1>1, <1>3 DEF Byte
<1>. HIDE DEF rest
<1>5. /\ most \in Seq(Byte) /\ Len(most) = full
      /\ \A i \in 1 .. full : most[i] = Base - 1
  BY <1>0, <1>1 DEF Byte
<1>. HIDE DEF most
<1>6. /\ most \o <<rest>> \in Seq(Byte) /\ Len(most \o <<rest>>) = full + 1
      /\ \A i \in 1 .. full : (most \o <<rest>>)[i] = Base - 1
      /\ (most \o <<rest>>)[full + 1] = rest
  BY <1>1, <1>4, <1>5
<1>. QED BY <1>1, <1>2, <1>4, <1>6

(* The padding emit_packet announces is the padding parse_packet takes off *)
(* the packet, its length bytes included, whatever the amount: also at the *)
(* amounts that just fill a length byte and just need another.             *)
THEOREM PaddingRoundTrip ==
  ASSUME NEW amount \in Nat \ {0}, NEW data \in Seq(Byte),
         2 + Len(PadBytes(amount)) <= Len(data),
         \A i \in 1 .. Len(PadBytes(amount)) : data[i + 2] = PadBytes(amount)[i]
  PROVE  Padding(data) = [ok |-> TRUE, at |-> 3 + Len(PadBytes(amount)),
                          sizes |-> <<>>, left |-> Len(data) - 2 - amount]
<1>0. Base \in Nat /\ Base - 1 \in Nat \ {0} /\ Len(data) \in Nat
  BY ByteAssumption
<1>1. PICK full \in Nat, rest \in Byte :
        /\ rest < Base - 1
        /\ amount = full * (Base - 1) + rest + 1
        /\ PadBytes(amount) \in Seq(Byte)
        /\ Len(PadBytes(amount)) = full + 1
        /\ \A i \in 1 .. full : PadBytes(amount)[i] = Base - 1
        /\ PadBytes(amount)[full + 1] = rest
  BY PaddingLength
<1>. DEFINE ends == {i \in 3 .. Len(data) : data[i] # Base - 1}
<1>2. rest \in Nat
  BY <1>0, <1>1 DEF Byte
<1>3. data[3 + full] = rest /\ 3 + full \in ends
  <2>1. data[(full + 1) + 2] = rest
    BY <1>1
  <2>. QED BY <2>1, <1>0, <1>1, <1>2
<1>4. \A i \in ends : 3 + full <= i
  <2>1. SUFFICES ASSUME NEW i \in 3 .. Len(data), i < 3 + full PROVE data[i] = Base - 1
    BY <1>0, <1>1
  <2>2. i - 2 \in 1 .. full /\ (i - 2) + 2 = i
    BY <1>0, <1>1, <2>1
  <2>3. PICK k \in 1 .. full : k = i - 2
    BY <2>2
  <2>4. data[k + 2] = PadBytes(amount)[k]
    BY <1>1
  <2>. QED BY <1>1, <2>2, <2>3, <2>4
<1>5. Min(ends) = 3 + full
  <2>1. ends \subseteq Nat
    BY <1>0
  <2>. HIDE DEF ends
  <2>2. \A m \in ends : (\A i \in ends : m <= i) => m = 3 + full
    BY <1>1, <1>3, <1>4, <2>1
  <2>. QED BY <1>3, <1>4, <2>2 DEF Min
<1>6. Padding(data) = [ok |-> TRUE, at |-> (3 + full) + 1, sizes |-> <<>>,
                       left |-> Len(data) - 2 - full * (Base - 1) - 1 - rest]
  <2>1. (3 + full) - 3 = full
    BY <1>1
  <2>2. ends # {}
    BY <1>3
  <2>. QED BY <1>3, <1>5, <2>1, <2>2 DEF Padding
<1>7. full * (Base - 1) \in Nat
  BY <1>0, <1>1
<1>8. Len(data) - 2 - full * (Base - 1) - 1 - rest = Len(data) - 2 - amount
  BY <1>0, <1>1, <1>2, <1>7
<1>9. (3 + full) + 1 = 3 + Len(PadBytes(amount))
  BY <1>1
<1>. QED BY ONLY <1>6, <1>8, <1>9

(***************************************************************************)
(* Sums of sequences.  By(s, i) is what comes before the i-th of them.     *)
(***************************************************************************)
SumsUpTo(f, n, s) ==
  f = [i \in 0 .. n |-> IF i = 0 THEN 0 ELSE f[i - 1] + s[i]]

LEMMA SumsExist ==
  ASSUME NEW n \in Nat, NEW s
  PROVE  \E f : SumsUpTo(f, n, s)
<1>. DEFINE T == {k \in Nat : \E f : SumsUpTo(f, k, s)}
<1>1. 0 \in T
  <2>. DEFINE g == [i \in 0 .. 0 |-> 0]
  <2>1. SumsUpTo(g, 0, s)
    BY DEF SumsUpTo
  <2>. HIDE DEF g
  <2>. QED BY <2>1
<1>2. ASSUME NEW k \in Nat, k \in T PROVE k + 1 \in T
  <2>1. PICK f : SumsUpTo(f, k, s)
    BY <1>2
  <2>. DEFINE g == [i \in 0 .. k + 1 |-> IF i <= k THEN f[i] ELSE f[k] + s[k + 1]]
  <2>2. \A i \in 0 .. k : f[i] = IF i = 0 THEN 0 ELSE f[i - 1] + s[i]
    BY <2>1 DEF SumsUpTo
  <2>3. ASSUME NEW i \in 0 .. k + 1
        PROVE  g[i] = IF i = 0 THEN 0 ELSE g[i - 1] + s[i]
    <3>1. CASE i <= k
      BY <2>2, <3>1
    <3>2. CASE i = k + 1
      <4>1. i - 1 = k /\ i # 0
        BY <3>2
      <4>2. g[i] = f[k] + s[k + 1] /\ g[k] = f[k]
        BY <3>2
      <4>. HIDE DEF g
      <4>. QED BY <3>2, <4>1, <4>2, Zenon
    <3>. QED BY <3>1, <3>2
  <2>4. SumsUpTo(g, k + 1, s)
    BY <2>3 DEF SumsUpTo
  <2>. HIDE DEF g
  <2>. QED BY <2>4
<1>3. n \in T
  <2>. HIDE DEF T
  <2>. QED BY <1>1, <1>2, Induction
<1>. QED BY <1>3

LEMMA SumsAgree ==
  ASSUME NEW n \in Nat, NEW k \in 0 .. n, NEW s, NEW t, NEW f, NEW g,
         \A i \in 1 .. k : s[i] \in Int /\ t[i] = s[i],
         SumsUpTo(f, k, s), SumsUpTo(g, n, t)
  PROVE  f[k] = g[k] /\ f[k] \in Int
<1>. DEFINE T == {j \in Nat : j <= k => f[j] = g[j] /\ f[j] \in Int}
<1>1. 0 \in T
  <2>1. f[0] = 0 /\ g[0] = 0
    BY DEF SumsUpTo
  <2>. QED BY <2>1
<1>2. ASSUME NEW j \in Nat, j \in T PROVE j + 1 \in T
  <2>. SUFFICES ASSUME j + 1 <= k PROVE f[j + 1] = g[j + 1] /\ f[j + 1] \in Int
    OBVIOUS
  <2>1. f[j] = g[j] /\ f[j] \in Int
    BY <1>2
  <2>2. j + 1 \in 0 .. k /\ j + 1 \in 0 .. n /\ (j + 1) - 1 = j /\ j + 1 # 0
    OBVIOUS
  <2>3. f[j + 1] = f[j] + s[j + 1] /\ g[j + 1] = g[j] + t[j + 1]
    <3>1. \A i \in 0 .. k : f[i] = IF i = 0 THEN 0 ELSE f[i - 1] + s[i]
      BY DEF SumsUpTo
    <3>2. \A i \in 0 .. n : g[i] = IF i = 0 THEN 0 ELSE g[i - 1] + t[i]
      BY DEF SumsUpTo
    <3>3. f[j + 1] = f[(j + 1) - 1] + s[j + 1] /\ g[j + 1] = g[(j + 1) - 1] + t[j + 1]
      BY <3>1, <3>2, <2>2, Zenon
    <3>. QED BY <3>3, <2>2, Zenon
  <2>4. s[j + 1] \in Int /\ t[j + 1] = s[j + 1]
    OBVIOUS
  <2>. QED BY <2>1, <2>3, <2>4
<1>3. k \in T
  <2>. HIDE DEF T
  <2>. QED BY <1>1, <1>2, Induction
<1>. QED BY <1>3

LEMMA TotalUnfolds ==
  ASSUME NEW s, Len(s) \in Nat
  PROVE  \E f : SumsUpTo(f, Len(s), s) /\ Total(s) = f[Len(s)]
<1>. DEFINE f == CHOOSE g : SumsUpTo(g, Len(s), s)
<1>1. SumsUpTo(f, Len(s), s)
  BY SumsExist
<1>2. Total(s) = f[Len(s)]
  BY DEF Total, SumsUpTo
<1>. QED BY <1>1, <1>2

LEMMA TotalOfNone == Total(<<>>) = 0
<1>1. PICK f : SumsUpTo(f, Len(<<>>), <<>>) /\ Total(<<>>) = f[Len(<<>>)]
  BY TotalUnfolds
<1>2. Len(<<>>) = 0
  OBVIOUS
<1>. QED BY <1>1, <1>2 DEF SumsUpTo

LEMMA TotalOfMore ==
  ASSUME NEW s \in Seq(Int), NEW x \in Int
  PROVE  Total(Append(s, x)) = Total(s) + x /\ Total(s) \in Int
<1>. DEFINE t == Append(s, x)
            n == Len(s)
<1>1. /\ n \in Nat /\ Len(t) = n + 1 /\ t[n + 1] = x
      /\ \A i \in 1 .. n : s[i] \in Int /\ t[i] = s[i]
  OBVIOUS
<1>. HIDE DEF t
<1>2. PICK f : SumsUpTo(f, n, s) /\ Total(s) = f[n]
  BY <1>1, TotalUnfolds
<1>3. PICK g : SumsUpTo(g, n + 1, t) /\ Total(t) = g[n + 1]
  <2>1. PICK g : SumsUpTo(g, Len(t), t) /\ Total(t) = g[Len(t)]
    BY <1>1, TotalUnfolds
  <2>. QED BY <1>1, <2>1
<1>. HIDE DEF n
<1>4. f[n] = g[n] /\ f[n] \in Int
  BY <1>1, <1>2, <1>3, SumsAgree, n \in 0 .. n + 1, n + 1 \in Nat
<1>5. g[n + 1] = g[n] + t[n + 1]
  <2>1. \A i \in 0 .. n + 1 : g[i] = IF i = 0 THEN 0 ELSE g[i - 1] + t[i]
    BY <1>3 DEF SumsUpTo
  <2>2. n + 1 \in 0 .. n + 1 /\ n + 1 # 0 /\ (n + 1) - 1 = n
    BY <1>1
  <2>. QED BY <2>1, <2>2
<1>. QED BY <1>1, <1>2, <1>3, <1>4, <1>5 DEF t

(* The sum of the first i: one at a time, and never falling.               *)
LEMMA FirstOfThem ==
  ASSUME NEW S, NEW s \in Seq(S), NEW i \in 1 .. Len(s)
  PROVE  /\ SubSeq(s, 1, i - 1) \in Seq(S) /\ Len(SubSeq(s, 1, i - 1)) = i - 1
         /\ SubSeq(s, 1, i) = Append(SubSeq(s, 1, i - 1), s[i])
         /\ s[i] \in S
<1>1. /\ s[i] \in S /\ i \in Nat /\ Len(s) \in Nat
      /\ \A j \in 1 .. i - 1 : s[j] \in S
  OBVIOUS
<1>2. SubSeq(s, 1, i - 1) \in Seq(S) /\ Len(SubSeq(s, 1, i - 1)) = i - 1
  OBVIOUS
<1>3. SubSeq(s, 1, i) = Append(SubSeq(s, 1, i - 1), s[i])
  OBVIOUS
<1>. QED BY <1>1, <1>2, <1>3

LEMMA PrefixGrows ==
  ASSUME NEW s \in Seq(Nat), NEW i \in 1 .. Len(s)
  PROVE  /\ Total(SubSeq(s, 1, i)) = Total(SubSeq(s, 1, i - 1)) + s[i]
         /\ Total(SubSeq(s, 1, i - 1)) \in Int /\ s[i] \in Nat
<1>1. s \in Seq(Int)
  OBVIOUS
<1>2. /\ SubSeq(s, 1, i - 1) \in Seq(Int)
      /\ SubSeq(s, 1, i) = Append(SubSeq(s, 1, i - 1), s[i])
      /\ s[i] \in Int
  BY <1>1, FirstOfThem
<1>3. s[i] \in Nat
  OBVIOUS
<1>. QED BY <1>2, <1>3, TotalOfMore

LEMMA PrefixEnds ==
  ASSUME NEW S, NEW s \in Seq(S)
  PROVE  SubSeq(s, 1, 0) = <<>> /\ SubSeq(s, 1, Len(s)) = s
OBVIOUS

LEMMA PrefixTotals ==
  ASSUME NEW s \in Seq(Nat), NEW j \in 0 .. Len(s), NEW i \in 0 .. j
  PROVE  /\ Total(SubSeq(s, 1, i)) \in Nat
         /\ Total(SubSeq(s, 1, i)) <= Total(SubSeq(s, 1, j))
<1>. DEFINE up(k) == Total(SubSeq(s, 1, k))
            T == {k \in Nat : k <= j =>
                    up(k) \in Nat /\ \A m \in 0 .. k : up(m) \in Nat /\ up(m) <= up(k)}
<1>0. Len(s) \in Nat
  OBVIOUS
<1>1. 0 \in T
  <2>1. up(0) = 0
    BY PrefixEnds, TotalOfNone
  <2>. HIDE DEF up
  <2>. QED BY <2>1
<1>2. ASSUME NEW k \in Nat, k \in T PROVE k + 1 \in T
  <2>. SUFFICES ASSUME k + 1 <= j
                PROVE  up(k + 1) \in Nat /\ \A m \in 0 .. k + 1 : up(m) \in Nat /\ up(m) <= up(k + 1)
    OBVIOUS
  <2>1. up(k) \in Nat /\ \A m \in 0 .. k : up(m) \in Nat /\ up(m) <= up(k)
    BY <1>2
  <2>2. k + 1 \in 1 .. Len(s) /\ (k + 1) - 1 = k
    BY <1>0
  <2>3. up(k + 1) = up((k + 1) - 1) + s[k + 1] /\ s[k + 1] \in Nat
    BY <2>2, PrefixGrows
  <2>. HIDE DEF up
  <2>. QED BY <2>1, <2>2, <2>3, SMTT(30)
<1>3. j \in T
  <2>1. j \in Nat
    BY <1>0
  <2>. HIDE DEF T
  <2>. QED BY <2>1, <1>1, <1>2, Induction
<1>4. up(i) \in Nat /\ up(i) <= up(j)
  <2>. HIDE DEF up
  <2>. QED BY <1>3
<1>. QED BY <1>4

(* The sum of so many that are all the same.                               *)
LEMMA TotalOfSame ==
  ASSUME NEW s \in Seq(Nat), NEW x \in Nat, \A i \in 1 .. Len(s) : s[i] = x
  PROVE  Total(s) = Len(s) * x
<1>. DEFINE up(k) == Total(SubSeq(s, 1, k))
            T == {k \in Nat : k <= Len(s) => up(k) = k * x}
<1>0. Len(s) \in Nat
  OBVIOUS
<1>1. 0 \in T
  <2>1. up(0) = 0
    BY PrefixEnds, TotalOfNone
  <2>. HIDE DEF up
  <2>. QED BY <2>1
<1>2. ASSUME NEW k \in Nat, k \in T PROVE k + 1 \in T
  <2>. SUFFICES ASSUME k + 1 <= Len(s) PROVE up(k + 1) = (k + 1) * x
    OBVIOUS
  <2>1. up(k) = k * x
    BY <1>0, <1>2
  <2>2. k + 1 \in 1 .. Len(s) /\ (k + 1) - 1 = k
    BY <1>0
  <2>3. up(k + 1) = up((k + 1) - 1) + s[k + 1]
    BY <2>2, PrefixGrows
  <2>4. s[k + 1] = x
    BY <2>2
  <2>5. (k + 1) * x = k * x + x
    OBVIOUS
  <2>6. up(k + 1) = up(k) + s[k + 1]
    BY <2>2, <2>3, Zenon
  <2>. HIDE DEF up
  <2>. QED BY <2>1, <2>4, <2>5, <2>6
<1>3. Len(s) \in T
  <2>. HIDE DEF T
  <2>. QED BY <1>0, <1>1, <1>2, Induction
<1>4. up(Len(s)) = Len(s) * x
  <2>. HIDE DEF up
  <2>. QED BY <1>0, <1>3
<1>. QED BY <1>4, PrefixEnds

(***************************************************************************)
(* Where the i-th of joined sequences lies.                                *)
(***************************************************************************)
Lens(parts) == [i \in 1 .. Len(parts) |-> Len(parts[i])]
Before(s, i) == Total(SubSeq(s, 1, i - 1))

LEMMA JoinOfTwo ==
  ASSUME NEW S, NEW a \in Seq(S), NEW b \in Seq(S)
  PROVE  /\ a \o b \in Seq(S) /\ Len(a \o b) = Len(a) + Len(b)
         /\ \A j \in 1 .. Len(a) : (a \o b)[j] = a[j]
         /\ \A j \in 1 .. Len(b) : (a \o b)[Len(a) + j] = b[j]
         /\ Len(a) \in Nat /\ Len(b) \in Nat
OBVIOUS

LEMMA JoinedLie ==
  ASSUME NEW S, NEW parts \in Seq(Seq(S)), Len(parts) # 0
  PROVE  /\ Lens(parts) \in Seq(Nat) /\ Len(Lens(parts)) = Len(parts)
         /\ FlattenSeq(parts) \in Seq(S)
         /\ Len(FlattenSeq(parts)) = Total(Lens(parts))
         /\ \A i \in 1 .. Len(parts) : \A k \in 1 .. Len(parts[i]) :
              FlattenSeq(parts)[Before(Lens(parts), i) + k] = parts[i][k]
<1>. DEFINE n == Len(parts)
            l == Lens(parts)
            up(k) == Total(SubSeq(l, 1, k))
<1>1. n \in Nat \ {0} /\ \A i \in 1 .. n : parts[i] \in Seq(S) /\ Len(parts[i]) \in Nat
  OBVIOUS
<1>2. l \in Seq(Nat) /\ Len(l) = n /\ \A i \in 1 .. n : l[i] = Len(parts[i])
  BY <1>1 DEF Lens
<1>3. PICK f : /\ f[1] = parts[1]
               /\ \A i \in 2 .. n : f[i] = f[i - 1] \o parts[i]
               /\ FlattenSeq(parts) = f[n]
  BY <1>1, FlattenUnfolds
<1>. HIDE DEF n, l
<1>4. /\ up(0) = 0
      /\ \A i \in 1 .. n : up(i) = up(i - 1) + Len(parts[i]) /\ up(i - 1) \in Nat /\ up(i) \in Nat
  <2>1. up(0) = 0
    BY <1>2, PrefixEnds, TotalOfNone
  <2>2. ASSUME NEW i \in 1 .. n
        PROVE  up(i) = up(i - 1) + Len(parts[i]) /\ up(i - 1) \in Nat /\ up(i) \in Nat
    <3>1. up(i) = up(i - 1) + l[i]
      BY <1>2, PrefixGrows
    <3>2. i - 1 \in 0 .. Len(l) /\ i \in 0 .. Len(l) /\ i - 1 \in 0 .. i - 1 /\ i \in 0 .. i
      BY <1>1, <1>2
    <3>3. up(i - 1) \in Nat /\ up(i) \in Nat
      BY <1>2, <3>2, PrefixTotals
    <3>. QED BY <1>2, <3>1, <3>3
  <2>. QED BY <2>1, <2>2
<1>. DEFINE Good(m) ==
              /\ f[m] \in Seq(S) /\ Len(f[m]) = up(m)
              /\ \A i \in 1 .. m : \A k \in 1 .. Len(parts[i]) : f[m][up(i - 1) + k] = parts[i][k]
            T == {m \in Nat : m + 1 <= n => Good(m + 1)}
<1>. HIDE DEF up
<1>5. 0 \in T
  <2>1. 1 \in 1 .. n /\ 1 - 1 = 0 /\ 0 + 1 = 1
    BY <1>1
  <2>2. up(1) = Len(parts[1])
    BY <1>1, <1>4, <2>1
  <2>3. Good(1)
    BY <1>1, <1>3, <1>4, <2>1, <2>2
  <2>. HIDE DEF Good
  <2>. QED BY <2>1, <2>3
<1>6. ASSUME NEW m \in Nat, m \in T PROVE m + 1 \in T
  <2>. SUFFICES ASSUME (m + 1) + 1 <= n PROVE Good((m + 1) + 1)
    BY DEF T
  <2>. DEFINE p == m + 1
              q == p + 1
  <2>1. Good(p)
    BY <1>1, <1>6
  <2>2. /\ p \in 1 .. n /\ q \in 2 .. n /\ q \in 1 .. n /\ q - 1 = p
        /\ \A i \in 1 .. q : i \in 1 .. p \/ i = q
    BY <1>1
  <2>. HIDE DEF p
  <2>3. f[q] = f[p] \o parts[q] /\ up(q) = up(p) + Len(parts[q]) /\ parts[q] \in Seq(S)
    BY <1>1, <1>3, <1>4, <2>2
  <2>. HIDE DEF q
  <2>a. f[p] \in Seq(S) /\ Len(f[p]) = up(p)
    BY <2>1
  <2>b. /\ f[q] \in Seq(S) /\ Len(f[q]) = Len(f[p]) + Len(parts[q])
        /\ \A j \in 1 .. Len(f[p]) : f[q][j] = f[p][j]
        /\ \A j \in 1 .. Len(parts[q]) : f[q][Len(f[p]) + j] = parts[q][j]
    <3>. DEFINE b == parts[q]
    <3>2. b \in Seq(S) /\ f[q] = f[p] \o b
      BY <2>3
    <3>. HIDE DEF b
    <3>. DEFINE a == f[p]
    <3>3. a \in Seq(S) /\ f[q] = a \o b
      BY <2>a, <3>2
    <3>. HIDE DEF a
    <3>4. /\ a \o b \in Seq(S) /\ Len(a \o b) = Len(a) + Len(b)
          /\ \A j \in 1 .. Len(a) : (a \o b)[j] = a[j]
          /\ \A j \in 1 .. Len(b) : (a \o b)[Len(a) + j] = b[j]
      BY <3>2, <3>3, JoinOfTwo
    <3>5. /\ f[q] \in Seq(S) /\ Len(f[q]) = Len(a) + Len(b)
          /\ \A j \in 1 .. Len(a) : f[q][j] = a[j]
          /\ \A j \in 1 .. Len(b) : f[q][Len(a) + j] = b[j]
      BY <3>3, <3>4, Zenon
    <3>. QED BY <3>5 DEF a, b
  <2>4. f[q] \in Seq(S) /\ Len(f[q]) = up(q)
    BY <2>3, <2>a, <2>b
  <2>5. ASSUME NEW i \in 1 .. q, NEW k \in 1 .. Len(parts[i])
        PROVE  f[q][up(i - 1) + k] = parts[i][k]
    <3>1. CASE i \in 1 .. p
      <4>1. f[p][up(i - 1) + k] = parts[i][k]
        BY <2>1, <3>1
      <4>2. i \in 1 .. n /\ i \in 0 .. p /\ p \in 0 .. n
        BY <1>1, <2>2, <3>1
      <4>3. up(i) = up(i - 1) + Len(parts[i]) /\ up(i - 1) \in Nat /\ Len(parts[i]) \in Nat
        BY <1>1, <1>4, <4>2
      <4>4. up(i) <= up(p)
        BY <1>2, <4>2, PrefixTotals DEF up
      <4>5. up(i - 1) + k \in 1 .. Len(f[p])
        <5>1. Len(f[p]) = up(p) /\ up(p) \in Nat
          BY <2>1, <2>2, <1>4
        <5>. QED BY <4>3, <4>4, <5>1
      <4>. QED BY <2>b, <4>1, <4>5
    <3>2. CASE i = q
      BY <2>2, <2>a, <2>b, <3>2
    <3>. QED BY <2>2, <3>1, <3>2
  <2>6. Good(q)
    BY <2>4, <2>5
  <2>. HIDE DEF Good
  <2>. QED BY <2>6 DEF p, q
<1>7. Good(n)
  <2>. HIDE DEF T
  <2>1. n - 1 \in Nat /\ (n - 1) + 1 = n
    BY <1>1
  <2>2. n - 1 \in T
    BY <1>5, <1>6, <2>1, Induction
  <2>. HIDE DEF Good
  <2>. QED BY <2>1, <2>2 DEF T
<1>. QED BY <1>2, <1>3, <1>7, PrefixEnds DEF Before, up, l, n

(***************************************************************************)
(* The cursor of parse_packet moves over the sizes one field at a time.    *)
(***************************************************************************)
CursorsUpTo(f, n, data, start) ==
  f = [i \in 0 .. n |-> IF i = 0 THEN start ELSE TakeSize(data, f[i - 1])]

LEMMA CursorsExist ==
  ASSUME NEW n \in Nat, NEW data, NEW start
  PROVE  \E f : CursorsUpTo(f, n, data, start)
<1>. DEFINE T == {k \in Nat : \E f : CursorsUpTo(f, k, data, start)}
<1>1. 0 \in T
  <2>. DEFINE g == [i \in 0 .. 0 |-> start]
  <2>1. CursorsUpTo(g, 0, data, start)
    BY DEF CursorsUpTo
  <2>. HIDE DEF g
  <2>. QED BY <2>1
<1>2. ASSUME NEW k \in Nat, k \in T PROVE k + 1 \in T
  <2>1. PICK f : CursorsUpTo(f, k, data, start)
    BY <1>2
  <2>. DEFINE g == [i \in 0 .. k + 1 |-> IF i <= k THEN f[i] ELSE TakeSize(data, f[k])]
  <2>2. \A i \in 0 .. k : f[i] = IF i = 0 THEN start ELSE TakeSize(data, f[i - 1])
    BY <2>1 DEF CursorsUpTo
  <2>3. ASSUME NEW i \in 0 .. k + 1
        PROVE  g[i] = IF i = 0 THEN start ELSE TakeSize(data, g[i - 1])
    <3>1. CASE i <= k
      <4>1. g[i] = f[i] /\ (i # 0 => g[i - 1] = f[i - 1]) /\ i \in 0 .. k
        BY <3>1
      <4>. HIDE DEF g
      <4>. QED BY <2>2, <4>1
    <3>2. CASE i = k + 1
      <4>1. i - 1 = k /\ i # 0
        BY <3>2
      <4>2. g[i] = TakeSize(data, f[k]) /\ g[k] = f[k]
        BY <3>2
      <4>. HIDE DEF g
      <4>. QED BY <3>2, <4>1, <4>2, Zenon
    <3>. QED BY <3>1, <3>2
  <2>4. CursorsUpTo(g, k + 1, data, start)
    BY <2>3 DEF CursorsUpTo
  <2>. HIDE DEF g
  <2>. QED BY <2>4
<1>3. n \in T
  <2>. HIDE DEF T
  <2>. QED BY <1>1, <1>2, Induction
<1>. QED BY <1>3

(* Where the cursor has been.                                             *)
Walks(f, n, data, start) ==
  /\ f[0] = start
  /\ \A i \in 0 .. n - 1 : f[i + 1] = TakeSize(data, f[i])
  /\ Given(data, start, n) = f[n]

LEMMA GivenUnfolds ==
  ASSUME NEW n \in Nat, NEW data, NEW start
  PROVE  \E f : Walks(f, n, data, start)
<1>. DEFINE f == CHOOSE g : CursorsUpTo(g, n, data, start)
<1>1. CursorsUpTo(f, n, data, start)
  BY CursorsExist
<1>2. Given(data, start, n) = f[n]
  BY DEF Given, CursorsUpTo
<1>. HIDE DEF f
<1>3. \A i \in 0 .. n : f[i] = IF i = 0 THEN start ELSE TakeSize(data, f[i - 1])
  BY <1>1 DEF CursorsUpTo
<1>4. ASSUME NEW i \in 0 .. n - 1 PROVE f[i + 1] = TakeSize(data, f[i])
  <2>1. i + 1 \in 0 .. n /\ i + 1 # 0 /\ (i + 1) - 1 = i
    OBVIOUS
  <2>. QED BY <1>3, <2>1, Zenon
<1>5. f[0] = start
  BY <1>3
<1>. QED BY <1>2, <1>4, <1>5 DEF Walks

LEMMA GivenNone == \A data, start : Given(data, start, 0) = start
<1>. SUFFICES ASSUME NEW data, NEW start PROVE Given(data, start, 0) = start
  OBVIOUS
<1>1. PICK f : Walks(f, 0, data, start)
  BY GivenUnfolds
<1>. QED BY <1>1 DEF Walks

(* One field after another is read as it was written.                      *)
Fields(sizes) == [i \in 1 .. Len(sizes) |-> EncodeSize(sizes[i])]
Widths(sizes) == Lens(Fields(sizes))

(* What a sequence is made of.                                             *)
LEMMA Elements ==
  ASSUME NEW S, NEW s \in Seq(S)
  PROVE  Len(s) \in Nat /\ \A i \in 1 .. Len(s) : s[i] \in S
OBVIOUS

LEMMA MaxFrameNat == MaxFrame \in Nat
<1>1. \A a, b \in Nat : a * b \in Nat
  OBVIOUS
<1>2. Base - 1 \in Nat /\ Step + 1 \in Nat
  BY ByteAssumption
<1>. QED BY <1>1, <1>2 DEF MaxFrame

(* Fields of one or two bytes.                                             *)
LEMMA FieldWidths ==
  ASSUME NEW sizes \in Seq(0 .. MaxFrame)
  PROVE  /\ Widths(sizes) \in Seq(Nat) /\ Len(Widths(sizes)) = Len(sizes)
         /\ Fields(sizes) \in Seq(Seq(Byte)) /\ Len(Fields(sizes)) = Len(sizes)
         /\ sizes \in Seq(Nat)
         /\ \A i \in 1 .. Len(sizes) :
              /\ Widths(sizes)[i] = Len(EncodeSize(sizes[i])) /\ Widths(sizes)[i] \in {1, 2}
              /\ sizes[i] \in 0 .. MaxFrame /\ Fields(sizes)[i] = EncodeSize(sizes[i])
<1>1. Len(sizes) \in Nat /\ \A i \in 1 .. Len(sizes) : sizes[i] \in 0 .. MaxFrame
  BY Elements
<1>2. \A i \in 1 .. Len(sizes) : EncodeSize(sizes[i]) \in Seq(Byte) /\ Len(EncodeSize(sizes[i])) \in {1, 2}
  BY <1>1, EncodedSize
<1>5. Fields(sizes) \in Seq(Seq(Byte)) /\ Len(Fields(sizes)) = Len(sizes)
      /\ \A i \in 1 .. Len(sizes) : Fields(sizes)[i] = EncodeSize(sizes[i])
  BY <1>2 DEF Fields
<1>6. /\ Widths(sizes) \in Seq(Nat) /\ Len(Widths(sizes)) = Len(sizes)
      /\ \A i \in 1 .. Len(sizes) : Widths(sizes)[i] = Len(EncodeSize(sizes[i]))
  <2>1. \A i \in 1 .. Len(sizes) : Len(Fields(sizes)[i]) \in Nat
    BY <1>2, <1>5
  <2>. QED BY <1>5, <2>1 DEF Widths, Lens
<1>7. sizes \in Seq(Nat)
  BY <1>1, MaxFrameNat
<1>. QED BY <1>1, <1>2, <1>5, <1>6, <1>7, MaxFrameNat

(* A part lies in the data from at on.                                     *)
Lies(part, data, at) ==
  /\ at + Len(part) - 1 <= Len(data)
  /\ \A k \in 1 .. Len(part) : data[at + k - 1] = part[k]

Cursor(at, left, sizes) == [ok |-> TRUE, at |-> at, left |-> left, sizes |-> sizes]

(* A size that lies in the packet is taken.                                *)
LEMMA SizeTaken ==
  ASSUME NEW data \in Seq(Byte), NEW size \in 0 .. MaxFrame, NEW at \in Nat \ {0},
         NEW left \in Int, NEW sizes,
         left >= Len(EncodeSize(size)) + size, Lies(EncodeSize(size), data, at)
  PROVE  TakeSize(data, Cursor(at, left, sizes))
           = Cursor(at + Len(EncodeSize(size)), left - Len(EncodeSize(size)), Append(sizes, size))
<1>. DEFINE w == Len(EncodeSize(size))
<1>1. /\ w \in {1, 2} /\ Len(data) \in Nat /\ size \in Nat /\ at \in Nat \ {0} /\ left \in Int
      /\ at + w - 1 <= Len(data) /\ left >= w + size
  BY EncodedSize, Elements, MaxFrameNat DEF Lies
<1>2. at \in 1 .. Len(data)
  <2>. HIDE DEF w
  <2>. QED BY ONLY <1>1
<1>3. SizeField(data, at) = [bytes |-> w, size |-> size]
  BY <1>2, SizeRoundTrip DEF Lies
<1>. HIDE DEF w
<1>4. ~ (size > left - w) /\ w # 0
  BY ONLY <1>1
<1>. DEFINE cursor == [ok |-> TRUE, at |-> at, left |-> left, sizes |-> sizes]
<1>5. cursor.ok /\ cursor.at = at /\ cursor.left = left /\ cursor.sizes = sizes
  OBVIOUS
<1>. HIDE DEF cursor
<1>6. TakeSize(data, cursor) = [ok |-> TRUE, at |-> at + w, left |-> left - w,
                                sizes |-> Append(sizes, size)]
  <2>1. SizeField(data, cursor.at).bytes = w /\ SizeField(data, cursor.at).size = size
    BY <1>3, <1>5
  <2>2. ~ (~ cursor.ok \/ SizeField(data, cursor.at).bytes = 0
             \/ SizeField(data, cursor.at).size > cursor.left - SizeField(data, cursor.at).bytes)
    BY <1>4, <1>5, <2>1, Zenon
  <2>3. TakeSize(data, cursor)
          = [ok |-> TRUE, at |-> cursor.at + SizeField(data, cursor.at).bytes,
             left |-> cursor.left - SizeField(data, cursor.at).bytes,
             sizes |-> Append(cursor.sizes, SizeField(data, cursor.at).size)]
    BY <2>2, Zenon DEF TakeSize
  <2>. QED BY <1>5, <2>1, <2>3, Zenon
<1>. QED BY <1>6 DEF cursor, w, Cursor

(* So are the first n of several, one after the other.                     *)
LEMMA GivenReads ==
  ASSUME NEW data \in Seq(Byte), NEW sizes \in Seq(0 .. MaxFrame), NEW n \in 0 .. Len(sizes),
         NEW at \in Nat \ {0}, NEW left \in Int,
         left >= Before(Widths(sizes), n + 1) + Before(sizes, n + 1),
         \A i \in 1 .. n : Lies(EncodeSize(sizes[i]), data, at + Before(Widths(sizes), i))
  PROVE  Given(data, Cursor(at, left, <<>>), n)
           = Cursor(at + Before(Widths(sizes), n + 1), left - Before(Widths(sizes), n + 1),
                    SubSeq(sizes, 1, n))
<1>. DEFINE ws == Widths(sizes)
            u(i) == Total(SubSeq(ws, 1, i))
            z(i) == Total(SubSeq(sizes, 1, i))
            at_(i) == Cursor(at + u(i), left - u(i), SubSeq(sizes, 1, i))
<1>1. /\ ws \in Seq(Nat) /\ Len(ws) = Len(sizes) /\ sizes \in Seq(Nat) /\ Len(sizes) \in Nat
      /\ Len(data) \in Nat
      /\ \A i \in 1 .. Len(sizes) :
           ws[i] = Len(EncodeSize(sizes[i])) /\ ws[i] \in {1, 2} /\ sizes[i] \in 0 .. MaxFrame
  BY FieldWidths, Elements
<1>. HIDE DEF ws
<1>2. /\ left >= u(n) + z(n)
      /\ \A i \in 1 .. n : Lies(EncodeSize(sizes[i]), data, at + u(i - 1))
  <2>1. (n + 1) - 1 = n
    BY <1>1
  <2>. QED BY <2>1, Zenon DEF Before, ws
<1>3. \A i \in 0 .. n : u(i) \in Nat /\ u(i) <= u(n) /\ z(i) \in Nat /\ z(i) <= z(n)
  BY <1>1, PrefixTotals
<1>4. \A i \in 1 .. n : u(i) = u(i - 1) + ws[i] /\ z(i) = z(i - 1) + sizes[i]
  BY <1>1, PrefixGrows, SMTT(30)
<1>5. u(0) = 0
  BY <1>1, PrefixEnds, TotalOfNone
<1>a. n \in Nat /\ Len(data) \in Nat
  BY <1>1
<1>6. PICK f : /\ f[0] = Cursor(at, left, <<>>)
               /\ \A i \in 0 .. n - 1 : f[i + 1] = TakeSize(data, f[i])
               /\ Given(data, Cursor(at, left, <<>>), n) = f[n]
  <2>. DEFINE start == Cursor(at, left, <<>>)
  <2>. HIDE DEF start
  <2>1. PICK f : Walks(f, n, data, start)
    BY ONLY <1>a, GivenUnfolds
  <2>2. /\ f[0] = start /\ \A i \in 0 .. n - 1 : f[i + 1] = TakeSize(data, f[i])
        /\ Given(data, start, n) = f[n]
    BY <2>1, Zenon DEF Walks
  <2>. QED BY <2>2, Zenon DEF start
<1>. DEFINE T == {i \in Nat : i <= n => f[i] = at_(i)}
<1>7. 0 \in T
  <2>1. SubSeq(sizes, 1, 0) = <<>>
    BY <1>1, PrefixEnds
  <2>2. at + u(0) = at /\ left - u(0) = left
    <3>. HIDE DEF u
    <3>. QED BY <1>5
  <2>3. f[0] = at_(0)
    BY <1>6, <2>1, <2>2, Zenon
  <2>. HIDE DEF at_
  <2>. QED BY <2>3
<1>8. ASSUME NEW i \in Nat, i \in T PROVE i + 1 \in T
  <2>. SUFFICES ASSUME i + 1 <= n PROVE f[i + 1] = at_(i + 1)
    <3>. HIDE DEF at_
    <3>. QED OBVIOUS
  <2>. DEFINE j == i + 1
  <2>1. /\ j \in 1 .. n /\ j \in 0 .. n /\ i \in 0 .. n /\ i \in 0 .. n - 1 /\ j - 1 = i
        /\ j \in 1 .. Len(sizes)
    BY <1>1
  <2>2. f[i] = at_(i)
    <3>. HIDE DEF at_
    <3>. QED BY <1>8, <2>1
  <2>3. f[j] = TakeSize(data, f[i])
    BY <1>6, <2>1
  <2>. HIDE DEF j
  <2>. DEFINE w == ws[j]
              size == sizes[j]
  <2>4. /\ w \in {1, 2} /\ w = Len(EncodeSize(size)) /\ size \in 0 .. MaxFrame /\ size \in Nat
    BY <1>1, <2>1, MaxFrameNat
  <2>5. u(j) = u(i) + w /\ z(j) = z(i) + size
    BY <1>4, <2>1
  <2>6. SubSeq(sizes, 1, j) = Append(SubSeq(sizes, 1, i), size)
    BY <2>1, FirstOfThem
  <2>7. Lies(EncodeSize(size), data, at + u(i))
    BY <1>2, <2>1
  <2>. HIDE DEF w, size, u, z
  <2>8. /\ u(i) \in Nat /\ u(j) \in Nat /\ u(j) <= u(n) /\ u(n) \in Nat
        /\ z(i) \in Nat /\ z(j) \in Nat /\ z(j) <= z(n) /\ z(n) \in Nat
    BY <1>3, <2>1, n \in 0 .. n
  <2>. DEFINE a == at + u(i)
              l == left - u(i)
  <2>9. /\ a \in Nat \ {0} /\ l \in Int /\ l >= w + size
        /\ a + w = at + u(j) /\ l - w = left - u(j)
    <3>. DEFINE p == u(i)
                q == u(n)
                r == z(i)
                t == z(n)
    <3>1. p \in Nat /\ q \in Nat /\ r \in Nat /\ t \in Nat /\ left >= q + t
      BY <1>2, <2>8
    <3>2. p + w <= q /\ r + size <= t
      BY <2>5, <2>8
    <3>3. u(j) = p + w
      BY <2>5
    <3>4. w \in Nat /\ size \in Nat /\ at \in Nat \ {0} /\ left \in Int
      BY <2>4
    <3>. HIDE DEF p, q, r, t
    <3>5. /\ at + p \in Nat \ {0} /\ left - p \in Int /\ left - p >= w + size
          /\ (at + p) + w = at + (p + w) /\ (left - p) - w = left - (p + w)
      BY ONLY <3>1, <3>2, <3>4
    <3>. QED BY <3>3, <3>5, Zenon DEF p
  <2>11. Lies(EncodeSize(size), data, a)
    BY <2>7
  <2>12. f[i] = Cursor(a, l, SubSeq(sizes, 1, i))
    BY <2>2
  <2>. HIDE DEF a, l
  <2>13. TakeSize(data, Cursor(a, l, SubSeq(sizes, 1, i)))
           = Cursor(a + w, l - w, Append(SubSeq(sizes, 1, i), size))
    <3>1. l >= Len(EncodeSize(size)) + size
      BY <2>4, <2>9
    <3>2. TakeSize(data, Cursor(a, l, SubSeq(sizes, 1, i)))
            = Cursor(a + Len(EncodeSize(size)), l - Len(EncodeSize(size)),
                     Append(SubSeq(sizes, 1, i), size))
      BY <2>4, <2>9, <2>11, <3>1, SizeTaken
    <3>. QED BY <2>4, <3>2, Zenon
  <2>10. f[j] = at_(j)
    BY <2>3, <2>6, <2>9, <2>12, <2>13, Zenon
  <2>. HIDE DEF at_
  <2>. QED BY <2>10 DEF j
<1>9. f[n] = at_(n)
  <2>. HIDE DEF T
  <2>1. n \in Nat
    BY <1>1
  <2>2. n \in T
    BY <2>1, <1>7, <1>8, Induction
  <2>. HIDE DEF at_
  <2>. QED BY <2>1, <2>2 DEF T
<1>10. (n + 1) - 1 = n
  BY <1>1
<1>. QED BY <1>6, <1>9, <1>10, Zenon DEF Before, ws

(***************************************************************************)
(* Parts of a packet.  A part lies in something longer where the parts     *)
(* before it end.                                                          *)
(***************************************************************************)
LEMMA LiesBoth ==
  ASSUME NEW S, NEW x \in Seq(S), NEW y \in Seq(S), NEW data \in Seq(S), NEW at \in Nat \ {0},
         Lies(x \o y, data, at)
  PROVE  Lies(x, data, at) /\ Lies(y, data, at + Len(x))
<1>1. /\ Len(x \o y) = Len(x) + Len(y) /\ Len(x) \in Nat /\ Len(y) \in Nat
      /\ \A j \in 1 .. Len(x) : (x \o y)[j] = x[j]
      /\ \A j \in 1 .. Len(y) : (x \o y)[Len(x) + j] = y[j]
  BY JoinOfTwo
<1>. DEFINE z == x \o y
            n == Len(x)
            m == Len(y)
<1>2. Len(data) \in Nat
  OBVIOUS
<1>3. at + (n + m) - 1 <= Len(data) /\ \A k \in 1 .. n + m : data[at + k - 1] = z[k]
  BY <1>1 DEF Lies
<1>4. n \in Nat /\ m \in Nat /\ (\A j \in 1 .. n : z[j] = x[j]) /\ (\A j \in 1 .. m : z[n + j] = y[j])
  BY <1>1
<1>. HIDE DEF z, n, m
<1>5. at + n - 1 <= Len(data) /\ (at + n) + m - 1 <= Len(data)
  BY <1>2, <1>3, <1>4
<1>6. ASSUME NEW k \in 1 .. n PROVE data[at + k - 1] = x[k]
  BY <1>3, <1>4
<1>7. ASSUME NEW k \in 1 .. m PROVE data[(at + n) + k - 1] = y[k]
  <2>1. n + k \in 1 .. n + m /\ at + (n + k) - 1 = (at + n) + k - 1
    BY <1>4
  <2>2. data[at + (n + k) - 1] = z[n + k]
    BY <1>3, <2>1
  <2>. QED BY <1>4, <2>1, <2>2
<1>. QED BY <1>5, <1>6, <1>7 DEF Lies, n, m

(* What lies somewhere is what is cut out there.                           *)
LEMMA LiesCut ==
  ASSUME NEW S, NEW x \in Seq(S), NEW data \in Seq(S), NEW at \in Nat \ {0}, Lies(x, data, at)
  PROVE  SubSeq(data, at, at + Len(x) - 1) = x
<1>1. /\ Len(x) \in Nat /\ Len(data) \in Nat /\ at + Len(x) - 1 <= Len(data)
      /\ \A k \in 1 .. Len(x) : data[at + k - 1] = x[k]
  BY DEF Lies
<1>. DEFINE y == SubSeq(data, at, at + Len(x) - 1)
<1>2. /\ y \in Seq(S) /\ Len(y) = Len(x)
      /\ \A k \in 1 .. Len(x) : y[k] = data[at + k - 1]
  BY <1>1
<1>. HIDE DEF y
<1>3. y = x
  BY <1>1, <1>2
<1>. QED BY <1>3 DEF y

LEMMA LiesFirst ==
  ASSUME NEW S, NEW x \in Seq(S), NEW y \in Seq(S)
  PROVE  Lies(x, x \o y, 1)
<1>1. /\ Len(x \o y) = Len(x) + Len(y) /\ Len(x) \in Nat /\ Len(y) \in Nat
      /\ \A j \in 1 .. Len(x) : (x \o y)[j] = x[j]
  BY JoinOfTwo
<1>2. \A k \in 1 .. Len(x) : 1 + k - 1 = k
  BY <1>1
<1>. QED BY <1>1, <1>2 DEF Lies

(* Parts laid end to end lie each where those before it end.               *)
LEMMA LiesParts ==
  ASSUME NEW S, NEW parts \in Seq(Seq(S)), Len(parts) # 0,
         NEW data \in Seq(S), NEW at \in Nat \ {0}, Lies(FlattenSeq(parts), data, at),
         NEW i \in 1 .. Len(parts)
  PROVE  Lies(parts[i], data, at + Before(Lens(parts), i)) /\ Before(Lens(parts), i) \in Nat
<1>. DEFINE l == Lens(parts)
            b == Before(l, i)
            part == parts[i]
            flat == FlattenSeq(parts)
            n == Len(part)
<1>1. /\ l \in Seq(Nat) /\ Len(l) = Len(parts) /\ Len(parts) \in Nat
      /\ flat \in Seq(S) /\ Len(flat) = Total(l)
      /\ \A k \in 1 .. Len(part) : flat[b + k] = part[k]
  BY JoinedLie, Elements
<1>2. n \in Nat /\ l[i] = n /\ Len(data) \in Nat
  BY Elements DEF Lens
<1>. HIDE DEF l
<1>3. /\ Total(SubSeq(l, 1, i)) = Total(SubSeq(l, 1, i - 1)) + l[i]
      /\ Total(SubSeq(l, 1, i - 1)) \in Nat
      /\ Total(SubSeq(l, 1, i)) <= Total(SubSeq(l, 1, Len(l)))
      /\ Total(SubSeq(l, 1, i)) \in Nat
  <2>1. i \in 1 .. Len(l) /\ i - 1 \in 0 .. Len(l) /\ i \in 0 .. Len(l) /\ Len(l) \in 0 .. Len(l)
        /\ i - 1 \in 0 .. i - 1
    BY <1>1
  <2>. QED BY <1>1, <2>1, PrefixTotals, PrefixGrows
<1>4. b \in Nat /\ b + n <= Len(flat)
  <2>1. SubSeq(l, 1, Len(l)) = l
    BY <1>1, PrefixEnds
  <2>. HIDE DEF n
  <2>. QED BY <1>1, <1>2, <1>3, <2>1 DEF Before
<1>5. at + Len(flat) - 1 <= Len(data) /\ \A k \in 1 .. Len(flat) : data[at + k - 1] = flat[k]
  BY DEF Lies
<1>6. Len(flat) \in Nat
  BY <1>1
<1>. HIDE DEF b, n, flat
<1>7. (at + b) + n - 1 <= Len(data)
  BY <1>2, <1>4, <1>5, <1>6
<1>8. ASSUME NEW k \in 1 .. n PROVE data[(at + b) + k - 1] = part[k]
  <2>1. b + k \in 1 .. Len(flat) /\ at + (b + k) - 1 = (at + b) + k - 1
    BY <1>2, <1>4, <1>6
  <2>2. data[at + (b + k) - 1] = flat[b + k]
    BY <1>5, <2>1
  <2>3. flat[b + k] = part[k]
    BY <1>1 DEF n
  <2>. QED BY <2>1, <2>2, <2>3
<1>. QED BY <1>4, <1>7, <1>8 DEF Lies, b, n, l

(***************************************************************************)
(* Frames that make up a packet.                                           *)
(***************************************************************************)
FitFrames(c, fs) ==
  /\ c \in DOMAIN Spans
  /\ fs \in Seq(Seq(Byte)) /\ Len(fs) # 0
  /\ Len(fs) * Spans[c] <= MaxSpan
  /\ \A i \in 1 .. Len(fs) : Len(fs[i]) <= MaxFrame

LEMMA Remains ==
  ASSUME NEW q \in Nat \ {0}, NEW c \in 0 .. q - 1, NEW k \in Nat
  PROVE  (c + q * k) \div q = k /\ (c + q * k) % q = c
<1>. DEFINE a == c + q * k
            d == a \div q
            r == a % q
<1>1. q * k \in Nat
  OBVIOUS
<1>2. a \in Nat
  BY <1>1
<1>3. d \in Nat /\ r \in 0 .. q - 1 /\ a = q * d + r
  <2>. HIDE DEF a
  <2>. QED BY <1>2, Division
<1>4. q * d \in Int
  <2>. HIDE DEF d
  <2>. QED BY <1>3
<1>. HIDE DEF d, r
<1>5. /\ q * d < q * k + q => d < k + 1
      /\ q * k < q * d + q => k < d + 1
  <2>1. q * (k + 1) = q * k + q /\ q * (d + 1) = q * d + q
    BY <1>3, Monotone
  <2>2. q * d < q * (k + 1) => d < k + 1
    BY <1>3, Monotone
  <2>3. q * k < q * (d + 1) => k < d + 1
    BY <1>3, Monotone
  <2>. QED BY <2>1, <2>2, <2>3
<1>6. c + q * k = q * d + r
  BY <1>3
<1>7. d = k /\ r = c
  <2>. DEFINE x == q * d
              y == q * k
  <2>1. x \in Int /\ y \in Int /\ c + y = x + r
    BY <1>1, <1>4, <1>6
  <2>2. (x < y + q => d < k + 1) /\ (y < x + q => k < d + 1)
    BY <1>5
  <2>3. d = k => x = y
    OBVIOUS
  <2>. HIDE DEF x, y
  <2>4. d < k + 1 /\ k < d + 1
    BY <1>3, <2>1, <2>2
  <2>. QED BY <1>3, <2>1, <2>3, <2>4
<1>. QED BY <1>7 DEF d, r

(***************************************************************************)
(* What emit_packet writes at the head of a packet.                        *)
(***************************************************************************)
Varies(fs) == \E i \in DOMAIN fs : Len(fs[i]) # Len(fs[1])

(* The code of a packet says something about its frames.                   *)
LEMMA CodeOfFrames ==
  ASSUME NEW c, NEW fs, FitFrames(c, fs), NEW padTo \in Nat
  PROVE  /\ Code(fs, padTo) \in 0 .. 3
         /\ Code(fs, padTo) = 0 => Len(fs) = 1
         /\ Code(fs, padTo) \in {1, 2} => Len(fs) = 2
         /\ Code(fs, padTo) = 1 => ~Varies(fs)
         /\ Code(fs, padTo) = 2 => Varies(fs)
         /\ padTo # NoPadding => Code(fs, padTo) = 3
         /\ Len(fs) = 1 => ~Varies(fs)
<1>1. Len(fs) \in Nat \ {0} /\ DOMAIN fs = 1 .. Len(fs)
  BY DEF FitFrames
<1>2. Varies(fs) <=> ~ \A i \in DOMAIN fs : Len(fs[i]) = Len(fs[1])
  BY DEF Varies
<1>3. Len(fs) = 1 => ~Varies(fs)
  BY <1>1 DEF Varies
<1>. DEFINE equal == \A i \in DOMAIN fs : Len(fs[i]) = Len(fs[1])
<1>. HIDE DEF equal
<1>4. Code(fs, padTo) = IF Len(fs) > 2 \/ padTo # NoPadding THEN 3
                        ELSE IF Len(fs) = 1 THEN 0 ELSE IF equal THEN 1 ELSE 2
  BY DEF Code, equal
<1>5. Varies(fs) <=> ~equal
  BY <1>2 DEF equal
<1>. QED BY <1>1, <1>3, <1>4, <1>5 DEF NoPadding

(* The first byte tells the configuration and the code.                    *)
LEMMA TocTells ==
  ASSUME NEW c \in DOMAIN Spans, NEW code \in 0 .. 3
  PROVE  /\ 4 * c + code \in Byte
         /\ ConfigOf(4 * c + code) = c /\ CodeOf(4 * c + code) = code
<1>1. /\ Base \in Nat /\ Base \div 4 \in Nat /\ Base = 4 * (Base \div 4)
      /\ DOMAIN Spans = 0 .. (Base \div 4) - 1
  BY ByteAssumption, SpanAssumption
<1>. DEFINE q == Base \div 4
<1>2. q \in Nat /\ Base = 4 * q /\ c \in 0 .. q - 1
  BY <1>1
<1>. HIDE DEF q
<1>3. 4 * c + code \in 0 .. Base - 1
  BY <1>2
<1>4. (4 * c + code) \div 4 = c /\ (4 * c + code) % 4 = code
  BY <1>2
<1>. QED BY <1>3, <1>4 DEF Byte, ConfigOf, CodeOf

(* The frame count byte tells the count and both of its flags.             *)
CountByte(count, vbr, padded) ==
  count + (IF vbr THEN VbrFlag ELSE 0) + (IF padded THEN PadFlag ELSE 0)

LEMMA CountTells ==
  ASSUME NEW count \in 1 .. PadFlag - 1, NEW vbr \in BOOLEAN, NEW padded \in BOOLEAN
  PROVE  /\ CountByte(count, vbr, padded) \in Byte
         /\ CountOf(CountByte(count, vbr, padded)) = count
         /\ HasVbr(CountByte(count, vbr, padded)) <=> vbr
         /\ HasPadding(CountByte(count, vbr, padded)) <=> padded
<1>. DEFINE p == PadFlag
            b == CountByte(count, vbr, padded)
            k == (IF vbr THEN 2 ELSE 0) + (IF padded THEN 1 ELSE 0)
<1>1. p \in Nat /\ Base = 4 * p /\ VbrFlag = 2 * p /\ p > 1
  <2>1. /\ Base \in Nat /\ Base \div 4 \in Nat /\ Base = 4 * (Base \div 4)
        /\ Base \div 2 = 2 * (Base \div 4)
    BY ByteAssumption
  <2>2. PadFlag = Base \div 4 /\ VbrFlag = Base \div 2
    BY DEF PadFlag, VbrFlag
  <2>. QED BY <2>1, <2>2
<1>2. b = count + (IF vbr THEN VbrFlag ELSE 0) + (IF padded THEN p ELSE 0)
  BY DEF CountByte
<1>3. count \in 1 .. p - 1
  OBVIOUS
<1>. HIDE DEF p, b
<1>4. b = count + p * k /\ k \in 0 .. 3
  BY <1>1, <1>2, <1>3
<1>5. b \in 0 .. Base - 1 /\ (b >= 2 * p <=> vbr)
  BY <1>1, <1>2, <1>3
<1>6. b \div p = k /\ b % p = count
  <2>. HIDE DEF k
  <2>1. p \in Nat \ {0} /\ count \in 0 .. p - 1 /\ k \in Nat
    BY <1>1, <1>3, <1>4
  <2>. QED BY <1>4, <2>1, Remains
<1>7. k % 2 = 1 <=> padded
  OBVIOUS
<1>8. (b \div p) % 2 = 1 <=> padded
  <2>. HIDE DEF k
  <2>. QED BY <1>6, <1>7, Zenon
<1>. QED BY <1>1, <1>5, <1>6, <1>8 DEF Byte, CountOf, HasVbr, HasPadding, p, b

(* Their count fits the count byte.                                        *)
LEMMA CountFits ==
  ASSUME NEW c, NEW fs, FitFrames(c, fs)
  PROVE  Len(fs) \in 1 .. PadFlag - 1 /\ Len(fs) * Spans[c] <= MaxSpan
<1>1. /\ Len(fs) \in Nat \ {0} /\ c \in DOMAIN Spans /\ Len(fs) * Spans[c] <= MaxSpan
  BY DEF FitFrames
<1>. DEFINE n == Len(fs)
            s == Spans[c]
            p == Base \div 4
<1>2. s \in Nat \ {0} /\ MaxSpan < p * s /\ MaxSpan \in Nat /\ p \in Int
  BY <1>1, SpanAssumption, ByteAssumption
<1>3. n \in Nat \ {0} /\ n * s <= MaxSpan
  BY <1>1
<1>. HIDE DEF n, s, p
<1>4. s * n = n * s /\ s * p = p * s /\ s * n \in Int /\ s * p \in Int
  BY <1>2, <1>3
<1>5. s * n < s * p
  <2>. DEFINE x == s * n
              y == s * p
  <2>1. x \in Int /\ y \in Int /\ x <= MaxSpan /\ MaxSpan < y /\ MaxSpan \in Nat
    BY <1>2, <1>3, <1>4
  <2>. HIDE DEF x, y
  <2>2. x < y
    BY <2>1
  <2>. QED BY <2>2 DEF x, y
<1>6. n < p
  BY <1>2, <1>3, <1>5, Monotone
<1>. QED BY <1>1, <1>2, <1>3, <1>6 DEF n, s, p, PadFlag

(***************************************************************************)
(* The parts of an emitted packet.                                         *)
(***************************************************************************)
ManySizes(fs, padTo) == Code(fs, padTo) = 2 \/ (Code(fs, padTo) = 3 /\ Varies(fs))
GivenBytes(fs, padTo) ==
  IF ManySizes(fs, padTo)
  THEN FlattenSeq([i \in 1 .. Len(fs) - 1 |-> EncodeSize(Len(fs[i]))])
  ELSE <<>>
Extra(fs, padTo) ==
  IF Code(fs, padTo) = 3 THEN Missing(padTo, 2 + Len(GivenBytes(fs, padTo)) + Total(Sizes(fs))) ELSE 0
HeadBytes(c, fs, padTo) ==
  <<4 * c + Code(fs, padTo)>>
    \o (IF Code(fs, padTo) = 3 THEN CountAndPadding(Len(fs), Varies(fs), Extra(fs, padTo)) ELSE <<>>)
LastBytes(fs, selfd) == IF selfd THEN EncodeSize(Len(fs[Len(fs)])) ELSE <<>>
Body(c, fs, padTo, selfd) ==
  HeadBytes(c, fs, padTo) \o GivenBytes(fs, padTo) \o LastBytes(fs, selfd) \o FlattenSeq(fs)

LEMMA EmittedParts ==
  ASSUME NEW c, NEW fs, NEW padTo, NEW selfd
  PROVE  EmitPacket(c, fs, padTo, selfd) = Filled(Body(c, fs, padTo, selfd), padTo)
<1>. DEFINE code == Code(fs, padTo)
            vbr == \E i \in DOMAIN fs : Len(fs[i]) # Len(fs[1])
            given == IF code = 2 \/ (code = 3 /\ vbr)
                     THEN FlattenSeq([i \in 1 .. Len(fs) - 1 |-> EncodeSize(Len(fs[i]))])
                     ELSE <<>>
            bare == 2 + Len(given) + Total(Sizes(fs))
            head == <<4 * c + code>>
                      \o (IF code = 3 THEN CountAndPadding(Len(fs), vbr, Missing(padTo, bare))
                          ELSE <<>>)
            last == IF selfd THEN EncodeSize(Len(fs[Len(fs)])) ELSE <<>>
<1>1. EmitPacket(c, fs, padTo, selfd) = Filled(head \o given \o last \o FlattenSeq(fs), padTo)
  BY Zenon DEF EmitPacket
<1>2. given = GivenBytes(fs, padTo) /\ vbr = Varies(fs) /\ last = LastBytes(fs, selfd)
  BY Zenon DEF GivenBytes, ManySizes, Varies, LastBytes
<1>. HIDE DEF given, vbr, last
<1>3. head = HeadBytes(c, fs, padTo)
  <2>1. CASE code = 3
    <3>1. Extra(fs, padTo) = Missing(padTo, bare)
      BY <1>2, <2>1, Zenon DEF Extra
    <3>. QED BY <1>2, <2>1, <3>1, Zenon DEF HeadBytes
  <2>2. CASE code # 3
    BY <2>2, Zenon DEF HeadBytes
  <2>. QED BY <2>1, <2>2
<1>. QED BY <1>1, <1>2, <1>3, Zenon DEF Body

(* The sizes of frames.                                                    *)
LEMMA SizesFit ==
  ASSUME NEW c, NEW fs, FitFrames(c, fs)
  PROVE  /\ Sizes(fs) = Lens(fs) /\ Sizes(fs) \in Seq(0 .. MaxFrame) /\ Sizes(fs) \in Seq(Nat)
         /\ Len(Sizes(fs)) = Len(fs) /\ Len(fs) \in Nat \ {0} /\ DOMAIN fs = 1 .. Len(fs)
         /\ \A i \in 1 .. Len(fs) : /\ Sizes(fs)[i] = Len(fs[i]) /\ fs[i] \in Seq(Byte)
                                    /\ Len(fs[i]) \in 0 .. MaxFrame
<1>1. /\ Len(fs) \in Nat \ {0} /\ DOMAIN fs = 1 .. Len(fs)
      /\ \A i \in 1 .. Len(fs) : fs[i] \in Seq(Byte) /\ Len(fs[i]) <= MaxFrame
  BY Elements DEF FitFrames
<1>2. \A i \in 1 .. Len(fs) : Len(fs[i]) \in Nat
  BY <1>1
<1>3. \A i \in 1 .. Len(fs) : Len(fs[i]) \in 0 .. MaxFrame
  BY <1>1, <1>2, MaxFrameNat
<1>4. Sizes(fs) = [i \in 1 .. Len(fs) |-> Len(fs[i])]
  BY <1>1, Zenon DEF Sizes
<1>5. Sizes(fs) = Lens(fs)
  BY <1>4 DEF Lens
<1>. DEFINE R == 0 .. MaxFrame
<1>6. R \subseteq Nat /\ \A i \in 1 .. Len(fs) : Len(fs[i]) \in R
  BY <1>3, MaxFrameNat
<1>. HIDE DEF R
<1>7. Sizes(fs) \in Seq(R) /\ Len(Sizes(fs)) = Len(fs) /\ Sizes(fs) \in Seq(Nat)
  BY <1>1, <1>2, <1>4, <1>6
<1>8. \A i \in 1 .. Len(fs) : Sizes(fs)[i] = Len(fs[i])
  BY <1>4
<1>. QED BY <1>1, <1>3, <1>5, <1>7, <1>8 DEF R

(* The sizes given for all frames but the last.                            *)
First(fs) == [i \in 1 .. Len(fs) - 1 |-> EncodeSize(Len(fs[i]))]

LEMMA FirstFields ==
  ASSUME NEW c, NEW fs, FitFrames(c, fs), Len(fs) > 1
  PROVE  /\ First(fs) \in Seq(Seq(Byte)) /\ Len(First(fs)) = Len(fs) - 1 /\ Len(First(fs)) # 0
         /\ Lens(First(fs)) = SubSeq(Widths(Sizes(fs)), 1, Len(fs) - 1)
         /\ \A i \in 1 .. Len(fs) - 1 : First(fs)[i] = EncodeSize(Sizes(fs)[i])
<1>1. /\ Sizes(fs) \in Seq(0 .. MaxFrame) /\ Len(Sizes(fs)) = Len(fs) /\ Len(fs) \in Nat \ {0}
      /\ \A i \in 1 .. Len(fs) : Sizes(fs)[i] = Len(fs[i])
  BY SizesFit
<1>. DEFINE fields == Fields(Sizes(fs))
            n == Len(fs)
            first == First(fs)
<1>2. fields \in Seq(Seq(Byte)) /\ Len(fields) = n
      /\ \A i \in 1 .. n : fields[i] = EncodeSize(Len(fs[i]))
  BY <1>1, FieldWidths
<1>3. first = [i \in 1 .. n - 1 |-> EncodeSize(Len(fs[i]))]
  BY DEF First
<1>. HIDE DEF fields, first
<1>4. n - 1 \in Nat /\ n - 1 # 0 /\ \A i \in 1 .. n - 1 : i \in 1 .. n
  BY <1>1
<1>5. \A i \in 1 .. n - 1 : first[i] = fields[i] /\ first[i] \in Seq(Byte)
  BY <1>2, <1>3, <1>4
<1>6. first \in Seq(Seq(Byte)) /\ Len(first) = n - 1
  BY <1>3, <1>4, <1>5
<1>7. Lens(first) = SubSeq(Lens(fields), 1, n - 1)
  <2>1. Lens(first) = [i \in 1 .. n - 1 |-> Len(fields[i])]
    BY <1>5, <1>6 DEF Lens
  <2>2. Lens(fields) = [i \in 1 .. n |-> Len(fields[i])]
    BY <1>2 DEF Lens
  <2>3. \A i \in 1 .. n : Len(fields[i]) \in Nat
    BY <1>2, Elements
  <2>. DEFINE l == Lens(fields)
  <2>4. l \in Seq(Nat) /\ Len(l) = n /\ \A i \in 1 .. n : l[i] = Len(fields[i])
    BY <1>1, <2>2, <2>3
  <2>. HIDE DEF l
  <2>5. SubSeq(l, 1, n - 1) = [i \in 1 .. n - 1 |-> Len(fields[i])]
    BY <1>4, <2>4
  <2>. QED BY <2>1, <2>5 DEF l
<1>8. \A i \in 1 .. n - 1 : first[i] = EncodeSize(Sizes(fs)[i])
  BY <1>1, <1>2, <1>4, <1>5
<1>. QED BY <1>4, <1>6, <1>7, <1>8 DEF first, Widths, fields

(* The bytes of the sizes given before the last.                           *)
LEMMA GivenParts ==
  ASSUME NEW c, NEW fs, FitFrames(c, fs), NEW padTo \in Nat
  PROVE  /\ GivenBytes(fs, padTo) \in Seq(Byte)
         /\ ManySizes(fs, padTo) =>
              /\ Len(fs) > 1 /\ GivenBytes(fs, padTo) = FlattenSeq(First(fs))
              /\ Len(GivenBytes(fs, padTo)) = Before(Widths(Sizes(fs)), Len(fs))
         /\ ~ManySizes(fs, padTo) => GivenBytes(fs, padTo) = <<>>
<1>1. CASE ~ManySizes(fs, padTo)
  BY <1>1 DEF GivenBytes
<1>2. CASE ManySizes(fs, padTo)
  <2>1. Len(fs) > 1
    <3>1. (Code(fs, padTo) = 2 => Len(fs) = 2) /\ (Len(fs) = 1 => ~Varies(fs))
      BY CodeOfFrames
    <3>2. Code(fs, padTo) = 2 \/ Varies(fs)
      BY <1>2 DEF ManySizes
    <3>3. Len(fs) \in Nat \ {0}
      BY SizesFit
    <3>4. Len(fs) # 1
      BY <3>1, <3>2
    <3>. DEFINE n == Len(fs)
    <3>5. n \in Nat \ {0} /\ n # 1
      BY <3>3, <3>4
    <3>. HIDE DEF n
    <3>6. n > 1
      BY <3>5
    <3>. QED BY <3>6 DEF n
  <2>2. GivenBytes(fs, padTo) = FlattenSeq(First(fs))
    BY <1>2, Zenon DEF GivenBytes, First
  <2>3. /\ First(fs) \in Seq(Seq(Byte)) /\ Len(First(fs)) # 0
        /\ Lens(First(fs)) = SubSeq(Widths(Sizes(fs)), 1, Len(fs) - 1)
    BY <2>1, FirstFields
  <2>4. FlattenSeq(First(fs)) \in Seq(Byte) /\ Len(FlattenSeq(First(fs))) = Total(Lens(First(fs)))
    BY <2>3, JoinedLie
  <2>. QED BY <1>2, <2>1, <2>2, <2>3, <2>4 DEF Before
<1>. QED BY <1>1, <1>2

LEMMA LastPart ==
  ASSUME NEW c, NEW fs, FitFrames(c, fs), NEW selfd \in BOOLEAN
  PROVE  LastBytes(fs, selfd) \in Seq(Byte)
<1>1. Len(fs) \in 1 .. Len(fs) /\ Len(fs[Len(fs)]) \in 0 .. MaxFrame
  BY SizesFit
<1>. QED BY <1>1, EncodedSize DEF LastBytes

(* The head: how long it is, and what parse_packet makes of it.            *)
LEMMA HeadPart ==
  ASSUME NEW c, NEW fs, FitFrames(c, fs), NEW padTo \in Nat
  PROVE  /\ HeadBytes(c, fs, padTo) \in Seq(Byte) /\ Extra(fs, padTo) \in Nat
         /\ Code(fs, padTo) # 3 => Len(HeadBytes(c, fs, padTo)) = 1 /\ Extra(fs, padTo) = 0
         /\ Code(fs, padTo) = 3 =>
              Len(HeadBytes(c, fs, padTo))
                = 2 + (IF Extra(fs, padTo) = 0 THEN 0 ELSE Len(PadBytes(Extra(fs, padTo))))
         /\ Extra(fs, padTo) # 0 => /\ PadBytes(Extra(fs, padTo)) \in Seq(Byte)
                                   /\ Len(PadBytes(Extra(fs, padTo))) \in 1 .. Extra(fs, padTo)
         /\ HeadBytes(c, fs, padTo)[1] = 4 * c + Code(fs, padTo)
         /\ Code(fs, padTo) = 3 =>
              HeadBytes(c, fs, padTo)[2] = CountByte(Len(fs), Varies(fs), Extra(fs, padTo) # 0)
         /\ Extra(fs, padTo) # 0 =>
              \A i \in 1 .. Len(PadBytes(Extra(fs, padTo))) :
                HeadBytes(c, fs, padTo)[i + 2] = PadBytes(Extra(fs, padTo))[i]
<1>. DEFINE code  == Code(fs, padTo)
            toc   == 4 * c + code
            extra == Extra(fs, padTo)
            pad   == PadBytes(extra)
            count == CountByte(Len(fs), Varies(fs), extra # 0)
            head  == HeadBytes(c, fs, padTo)
<1>1. code \in 0 .. 3 /\ c \in DOMAIN Spans
  BY CodeOfFrames DEF FitFrames
<1>2. toc \in Byte
  BY <1>1, TocTells
<1>3. count \in Byte
  <2>1. Varies(fs) \in BOOLEAN
    BY DEF Varies
  <2>2. Len(fs) \in 1 .. PadFlag - 1
    BY CountFits
  <2>. QED BY <2>1, <2>2, CountTells
<1>4. extra \in Nat /\ (code # 3 => extra = 0)
  <2>1. Len(GivenBytes(fs, padTo)) \in Nat
    BY GivenParts, Elements
  <2>2. Total(Sizes(fs)) \in Nat
    <3>1. Sizes(fs) \in Seq(Nat)
      BY SizesFit
    <3>2. Len(Sizes(fs)) \in 0 .. Len(Sizes(fs)) /\ Len(Sizes(fs)) \in Nat
      BY <3>1
    <3>. QED BY <3>1, <3>2, PrefixTotals, PrefixEnds
  <2>3. padTo \in Nat
    OBVIOUS
  <2>. QED BY ONLY <2>1, <2>2, <2>3 DEF Extra, Missing
<1>5. extra # 0 => pad \in Seq(Byte) /\ Len(pad) \in 1 .. extra
  <2>. SUFFICES ASSUME extra # 0 PROVE pad \in Seq(Byte) /\ Len(pad) \in 1 .. extra
    OBVIOUS
  <2>. HIDE DEF extra
  <2>1. PICK full \in Nat, rest \in Byte :
          /\ extra = full * (Base - 1) + rest + 1
          /\ pad \in Seq(Byte) /\ Len(pad) = full + 1
    BY <1>4, PaddingLength
  <2>2. rest \in Nat /\ Base - 1 \in Nat \ {0}
    BY ByteAssumption DEF Byte
  <2>3. full * (Base - 1) \in Nat /\ full <= full * (Base - 1)
    <3>1. \A a, b \in Nat : a * b \in Nat /\ a * (b + 1) = a * b + a
      OBVIOUS
    <3>2. Base - 2 \in Nat /\ (Base - 2) + 1 = Base - 1
      BY <2>2, ByteAssumption
    <3>3. full * (Base - 2) \in Nat /\ full * ((Base - 2) + 1) = full * (Base - 2) + full
      BY <3>1, <3>2
    <3>. QED BY <3>2, <3>3
  <2>. QED BY <2>1, <2>2, <2>3
<1>6. head = <<toc>> \o (IF code = 3 THEN <<count>> \o (IF extra = 0 THEN <<>> ELSE pad) ELSE <<>>)
  <2>1. extra > 0 <=> extra # 0
    BY <1>4
  <2>2. CountAndPadding(Len(fs), Varies(fs), extra) = <<count>> \o PadBytes(extra)
    BY <2>1 DEF CountAndPadding, CountByte
  <2>3. PadBytes(extra) = IF extra = 0 THEN <<>> ELSE pad
    BY DEF PadBytes
  <2>. QED BY <2>2, <2>3, Zenon DEF HeadBytes
<1>. HIDE DEF toc, count, head, code, extra, pad
<1>7. CASE code # 3
  <2>1. head = <<toc>>
    BY <1>2, <1>6, <1>7
  <2>. QED BY <1>2, <1>4, <1>7, <2>1 DEF toc, count, head, code, extra, pad
<1>8. CASE code = 3 /\ extra = 0
  <2>1. head = <<toc>> \o (<<count>> \o <<>>)
    BY <1>6, <1>8, Zenon
  <2>. DEFINE none == <<>>
  <2>2. none \in Seq(Byte) /\ Len(none) = 0 /\ head = <<toc>> \o (<<count>> \o none)
    BY <2>1
  <2>. HIDE DEF none
  <2>3. head \in Seq(Byte) /\ Len(head) = 2 /\ head[1] = toc /\ head[2] = count
    BY <1>2, <1>3, <2>2
  <2>. QED BY <1>4, <1>8, <2>3 DEF toc, count, head, code, extra, pad
<1>9. CASE code = 3 /\ extra # 0
  <2>1. head = <<toc>> \o (<<count>> \o pad)
    BY <1>6, <1>9, Zenon
  <2>2. /\ head \in Seq(Byte) /\ Len(head) = 2 + Len(pad) /\ head[1] = toc /\ head[2] = count
        /\ \A i \in 1 .. Len(pad) : head[i + 2] = pad[i]
    BY <1>2, <1>3, <1>5, <1>9, <2>1
  <2>. QED BY <1>4, <1>5, <1>9, <2>2 DEF toc, count, head, code, extra, pad
<1>. QED BY <1>7, <1>8, <1>9

(***************************************************************************)
(* Reading it back: the header, the sizes given, and the last one.         *)
(***************************************************************************)
LEMMA HeaderReads ==
  ASSUME NEW c, NEW fs, FitFrames(c, fs), NEW padTo \in Nat,
         NEW data \in Seq(Byte), Lies(HeadBytes(c, fs, padTo), data, 1)
  PROVE  /\ Header(data) = Cursor(1 + Len(HeadBytes(c, fs, padTo)),
                                  Len(data) - (IF Code(fs, padTo) = 3 THEN 2 + Extra(fs, padTo) ELSE 1),
                                  <<>>)
         /\ FrameCount(data) = Len(fs) /\ ConfigOf(data[1]) = c
         /\ ConstantSize(data) <=> Code(fs, padTo) = 1 \/ (Code(fs, padTo) = 3 /\ ~Varies(fs))
         /\ Len(data) >= 1
<1>. DEFINE code  == Code(fs, padTo)
            extra == Extra(fs, padTo)
            pad   == PadBytes(extra)
            count == CountByte(Len(fs), Varies(fs), extra # 0)
            head  == HeadBytes(c, fs, padTo)
            toc   == 4 * c + code
            n     == Len(fs)
            vary  == Varies(fs)
<1>1. code \in 0 .. 3 /\ c \in DOMAIN Spans /\ (code = 0 => n = 1) /\ (code \in {1, 2} => n = 2)
  BY CodeOfFrames DEF FitFrames
<1>2. ConfigOf(toc) = c /\ CodeOf(toc) = code
  BY <1>1, TocTells
<1>3. CountOf(count) = n /\ (HasVbr(count) <=> vary) /\ (HasPadding(count) <=> extra # 0)
      /\ n \in Nat \ {0} /\ n * Spans[c] <= MaxSpan
  <2>1. Varies(fs) \in BOOLEAN
    BY DEF Varies
  <2>2. Len(fs) \in 1 .. PadFlag - 1 /\ Len(fs) * Spans[c] <= MaxSpan
    BY CountFits
  <2>3. n \in Nat \ {0}
    BY SizesFit
  <2>. QED BY <2>1, <2>2, <2>3, CountTells
<1>4. /\ head \in Seq(Byte) /\ extra \in Nat
      /\ code # 3 => Len(head) = 1 /\ extra = 0
      /\ code = 3 => Len(head) = 2 + (IF extra = 0 THEN 0 ELSE Len(pad))
      /\ extra # 0 => pad \in Seq(Byte) /\ Len(pad) \in 1 .. extra
      /\ head[1] = toc /\ (code = 3 => head[2] = count)
      /\ extra # 0 => \A i \in 1 .. Len(pad) : head[i + 2] = pad[i]
  BY HeadPart
<1>5. Len(data) \in Nat /\ Len(head) <= Len(data) /\ \A k \in 1 .. Len(head) : data[k] = head[k]
  <2>1. 1 + Len(head) - 1 <= Len(data) /\ \A k \in 1 .. Len(head) : data[1 + k - 1] = head[k]
    BY DEF Lies
  <2>2. Len(head) \in Nat /\ Len(data) \in Nat
    BY <1>4
  <2>3. \A k \in 1 .. Len(head) : 1 + k - 1 = k
    BY <2>2
  <2>. QED BY <2>1, <2>2, <2>3
<1>. HIDE DEF code, extra, pad, count, head, toc, n, vary
<1>6. 1 <= Len(data) /\ data[1] = toc /\ data # <<>>
  <2>1. 1 <= Len(head) /\ 1 \in 1 .. Len(head)
    BY <1>1, <1>4
  <2>2. data # <<>>
    BY <1>5, <2>1
  <2>. QED BY <1>4, <1>5, <2>1, <2>2
<1>7. code = 3 => 2 <= Len(data) /\ data[2] = count
  <2>. SUFFICES ASSUME code = 3 PROVE 2 <= Len(data) /\ data[2] = count
    OBVIOUS
  <2>1. 2 <= Len(head) /\ 2 \in 1 .. Len(head)
    BY <1>4
  <2>. QED BY <1>4, <1>5, <2>1
<1>8. ConfigOf(data[1]) = c /\ CodeOf(data[1]) = code
  BY <1>2, <1>6
<1>9. FrameCount(data) = n
  BY <1>1, <1>3, <1>7, <1>8 DEF FrameCount
<1>10. ConstantSize(data) <=> code = 1 \/ (code = 3 /\ ~vary)
  BY <1>3, <1>7, <1>8 DEF ConstantSize
<1>11. Header(data) = Cursor(1 + Len(head), Len(data) - (IF code = 3 THEN 2 + extra ELSE 1), <<>>)
  <2>1. CASE code # 3
    <3>1. Header(data) = [ok |-> TRUE, at |-> 2, left |-> Len(data) - 1, sizes |-> <<>>]
      BY <1>6, <1>8, <2>1 DEF Header
    <3>2. Len(head) = 1
      BY <1>4, <2>1
    <3>3. 1 + Len(head) = 2 /\ Len(data) - (IF code = 3 THEN 2 + extra ELSE 1) = Len(data) - 1
      BY <2>1, <3>2
    <3>. QED BY <3>1, <3>3, Zenon DEF Cursor
  <2>2. CASE code = 3
    <3>1. HasFrameCount(data)
      BY <1>3, <1>6, <1>7, <1>8, <2>2 DEF HasFrameCount
    <3>2. ~ (Spans[ConfigOf(data[1])] * FrameCount(data) > MaxSpan)
      <4>1. Spans[c] * n = n * Spans[c] /\ n * Spans[c] \in Nat /\ MaxSpan \in Nat
        <5>. DEFINE s == Spans[c]
        <5>1. s \in Nat
          BY <1>1, SpanAssumption
        <5>. HIDE DEF s
        <5>2. s * n = n * s /\ n * s \in Nat
          BY <1>3, <5>1
        <5>. QED BY <5>2, SpanAssumption DEF s
      <4>2. ~ (Spans[c] * n > MaxSpan)
        <5>. DEFINE x == n * Spans[c]
        <5>1. x \in Nat /\ x <= MaxSpan /\ Spans[c] * n = x
          BY <1>3, <4>1
        <5>. HIDE DEF x
        <5>. QED BY <4>1, <5>1
      <4>. QED BY <1>8, <1>9, <4>2, Zenon
    <3>3. Header(data) = IF HasPadding(data[2]) THEN Padding(data)
                         ELSE [ok |-> TRUE, at |-> 3, left |-> Len(data) - 2, sizes |-> <<>>]
      BY <1>6, <1>8, <2>2, <3>1, <3>2, Zenon DEF Header
    <3>4. CASE extra = 0
      <4>1. Header(data) = [ok |-> TRUE, at |-> 3, left |-> Len(data) - 2, sizes |-> <<>>]
        BY <1>3, <1>7, <2>2, <3>3, <3>4
      <4>2. 1 + Len(head) = 3 /\ Len(data) - (2 + extra) = Len(data) - 2
        <5>1. Len(head) = 2
          BY <1>4, <2>2, <3>4
        <5>. QED BY <1>5, <3>4, <5>1
      <4>. QED BY <2>2, <4>1, <4>2 DEF Cursor
    <3>5. CASE extra # 0
      <4>1. Header(data) = Padding(data)
        BY <1>3, <1>7, <2>2, <3>3, <3>5
      <4>2. /\ Len(pad) \in Nat /\ 2 + Len(pad) <= Len(data) /\ Len(head) = 2 + Len(pad)
            /\ extra \in Nat \ {0}
        BY <1>4, <1>5, <2>2, <3>5
      <4>3. ASSUME NEW i \in 1 .. Len(pad) PROVE data[i + 2] = pad[i]
        <5>1. i + 2 \in 1 .. Len(head)
          BY <4>2
        <5>. QED BY <1>4, <1>5, <3>5, <5>1
      <4>4. Padding(data) = [ok |-> TRUE, at |-> 3 + Len(pad), sizes |-> <<>>,
                             left |-> Len(data) - 2 - extra]
        BY <4>2, <4>3, PaddingRoundTrip DEF pad
      <4>5. 1 + Len(head) = 3 + Len(pad) /\ Len(data) - (2 + extra) = Len(data) - 2 - extra
        BY <1>5, <4>2
      <4>6. Padding(data) = [ok |-> TRUE, at |-> 1 + Len(head), left |-> Len(data) - (2 + extra),
                             sizes |-> <<>>]
        BY <4>4, <4>5
      <4>. QED BY <2>2, <4>1, <4>6 DEF Cursor
    <3>. QED BY <3>4, <3>5
  <2>. QED BY <2>1, <2>2
<1>. QED BY <1>6, <1>8, <1>9, <1>10, <1>11 DEF code, extra, pad, head, n, vary

LEMMA PrefixOfPrefix ==
  ASSUME NEW S, NEW s \in Seq(S), NEW m \in 0 .. Len(s), NEW i \in 0 .. m
  PROVE  SubSeq(SubSeq(s, 1, m), 1, i) = SubSeq(s, 1, i)
<1>1. Len(s) \in Nat /\ m \in Nat /\ i \in Nat
  BY Elements
<1>. DEFINE t == SubSeq(s, 1, m)
<1>2. t \in Seq(S) /\ Len(t) = m /\ \A k \in 1 .. m : t[k] = s[k]
  BY <1>1
<1>. HIDE DEF t
<1>3. SubSeq(t, 1, i) = [k \in 1 .. i |-> t[k]] /\ SubSeq(s, 1, i) = [k \in 1 .. i |-> s[k]]
  BY <1>1, <1>2
<1>4. \A k \in 1 .. i : t[k] = s[k]
  BY <1>1, <1>2
<1>. QED BY <1>3, <1>4 DEF t

(* The sizes before the last are read.                                     *)
LEMMA GivenRead ==
  ASSUME NEW c, NEW fs, FitFrames(c, fs), NEW padTo \in Nat, NEW data \in Seq(Byte),
         NEW at \in Nat \ {0}, NEW left \in Int,
         ManySizes(fs, padTo) \/ Len(fs) = 1,
         Lies(GivenBytes(fs, padTo), data, at),
         left >= Len(GivenBytes(fs, padTo)) + Total(Sizes(fs))
  PROVE  Given(data, Cursor(at, left, <<>>), Len(fs) - 1)
           = Cursor(at + Len(GivenBytes(fs, padTo)), left - Len(GivenBytes(fs, padTo)),
                    SubSeq(Sizes(fs), 1, Len(fs) - 1))
<1>. DEFINE n == Len(fs)
            given == GivenBytes(fs, padTo)
            sizes == Sizes(fs)
            ws == Widths(sizes)
<1>1. /\ sizes \in Seq(0 .. MaxFrame) /\ sizes \in Seq(Nat) /\ Len(sizes) = n /\ n \in Nat \ {0}
      /\ Len(data) \in Nat
  BY SizesFit, Elements
<1>2. CASE ManySizes(fs, padTo)
  <2>1. n > 1 /\ given = FlattenSeq(First(fs)) /\ Len(given) = Before(ws, n)
    BY <1>2, GivenParts
  <2>2. /\ First(fs) \in Seq(Seq(Byte)) /\ Len(First(fs)) = n - 1 /\ Len(First(fs)) # 0
        /\ Lens(First(fs)) = SubSeq(ws, 1, n - 1)
        /\ \A i \in 1 .. n - 1 : First(fs)[i] = EncodeSize(sizes[i])
    BY <2>1, FirstFields
  <2>3. ws \in Seq(Nat) /\ Len(ws) = n
    BY <1>1, FieldWidths
  <2>. HIDE DEF n, given, sizes, ws
  <2>4. ASSUME NEW i \in 1 .. n - 1
        PROVE  Lies(EncodeSize(sizes[i]), data, at + Before(ws, i))
    <3>1. n - 1 \in 0 .. Len(ws) /\ i - 1 \in 0 .. n - 1 /\ i \in 1 .. Len(First(fs))
      BY <1>1, <2>2, <2>3
    <3>2. Before(Lens(First(fs)), i) = Before(ws, i)
      <4>1. SubSeq(SubSeq(ws, 1, n - 1), 1, i - 1) = SubSeq(ws, 1, i - 1)
        BY <2>3, <3>1, PrefixOfPrefix
      <4>. QED BY <2>2, <4>1 DEF Before
    <3>3. Lies(FlattenSeq(First(fs)), data, at)
      BY <2>1 DEF given
    <3>4. Lies(First(fs)[i], data, at + Before(Lens(First(fs)), i))
      BY <2>2, <3>1, <3>3, LiesParts
    <3>. QED BY <2>2, <3>2, <3>4
  <2>5. (n - 1) + 1 = n /\ n - 1 \in 0 .. Len(sizes) /\ n \in 0 .. Len(sizes)
        /\ Len(sizes) \in 0 .. Len(sizes) /\ n - 1 \in 0 .. Len(sizes)
    BY <1>1
  <2>6. left >= Before(ws, n) + Before(sizes, n)
    <3>1. Total(SubSeq(sizes, 1, n - 1)) <= Total(SubSeq(sizes, 1, n))
          /\ Total(SubSeq(sizes, 1, n - 1)) \in Nat /\ Total(SubSeq(sizes, 1, n)) \in Nat
      <4>1. n - 1 \in 0 .. n /\ n \in 0 .. n
        BY <1>1
      <4>. QED BY <1>1, <2>5, <4>1, PrefixTotals
    <3>2. SubSeq(sizes, 1, n) = sizes
      BY <1>1, PrefixEnds
    <3>3. left >= Len(given) + Total(sizes)
      BY DEF given, sizes
    <3>4. Len(given) \in Nat
      BY GivenParts, Elements DEF given
    <3>. DEFINE w == Before(ws, n)
                z == Total(sizes)
                y == Before(sizes, n)
    <3>5. w \in Nat /\ z \in Nat /\ y \in Nat /\ y <= z /\ left >= w + z
      BY <2>1, <3>1, <3>2, <3>3, <3>4 DEF Before
    <3>. HIDE DEF w, z, y
    <3>6. left >= w + y
      BY <3>5
    <3>. QED BY <3>6 DEF w, y
  <2>7. Given(data, Cursor(at, left, <<>>), n - 1)
          = Cursor(at + Before(ws, n), left - Before(ws, n), SubSeq(sizes, 1, n - 1))
    <3>. DEFINE m == n - 1
    <3>1. /\ left >= Before(ws, m + 1) + Before(sizes, m + 1) /\ m \in 0 .. Len(sizes)
          /\ \A i \in 1 .. m : Lies(EncodeSize(sizes[i]), data, at + Before(ws, i))
      BY <2>4, <2>5, <2>6
    <3>2. m + 1 = n
      BY <2>5
    <3>. HIDE DEF m
    <3>3. Given(data, Cursor(at, left, <<>>), m)
            = Cursor(at + Before(ws, m + 1), left - Before(ws, m + 1), SubSeq(sizes, 1, m))
      BY <1>1, <3>1, GivenReads DEF ws
    <3>. QED BY <3>2, <3>3 DEF m
  <2>. QED BY <2>1, <2>7 DEF n, given, sizes, ws
<1>3. CASE ~ManySizes(fs, padTo)
  <2>1. n = 1 /\ given = <<>>
    BY <1>3, GivenParts
  <2>2. Len(given) = 0 /\ n - 1 = 0 /\ at + Len(given) = at /\ left - Len(given) = left
    BY <2>1
  <2>3. SubSeq(sizes, 1, 0) = <<>>
    BY <1>1, PrefixEnds
  <2>4. Given(data, Cursor(at, left, <<>>), 0) = Cursor(at, left, <<>>)
    BY GivenNone
  <2>. QED BY <2>2, <2>3, <2>4, Zenon
<1>. QED BY <1>2, <1>3

LEMMA LastTotal ==
  ASSUME NEW s \in Seq(Nat), Len(s) # 0
  PROVE  /\ Total(s) = Total(SubSeq(s, 1, Len(s) - 1)) + s[Len(s)]
         /\ s = Append(SubSeq(s, 1, Len(s) - 1), s[Len(s)])
         /\ Total(s) \in Nat /\ Total(SubSeq(s, 1, Len(s) - 1)) \in Nat /\ s[Len(s)] \in Nat
<1>. DEFINE n == Len(s)
<1>1. n \in 1 .. n /\ n - 1 \in 0 .. n /\ n \in 0 .. n /\ n \in Nat /\ n - 1 \in 0 .. n - 1
  OBVIOUS
<1>2. SubSeq(s, 1, n) = s
  BY PrefixEnds
<1>3. /\ SubSeq(s, 1, n) = Append(SubSeq(s, 1, n - 1), s[n]) /\ s[n] \in Nat
      /\ Total(SubSeq(s, 1, n)) = Total(SubSeq(s, 1, n - 1)) + s[n]
  BY <1>1, FirstOfThem, PrefixGrows
<1>4. Total(SubSeq(s, 1, n)) \in Nat /\ Total(SubSeq(s, 1, n - 1)) \in Nat
  BY <1>1, PrefixTotals
<1>. QED BY <1>2, <1>3, <1>4

LEMMA CursorFields ==
  ASSUME NEW a, NEW l, NEW s
  PROVE  Cursor(a, l, s).ok /\ Cursor(a, l, s).at = a /\ Cursor(a, l, s).left = l /\ Cursor(a, l, s).sizes = s
BY DEF Cursor

Sized(cursor, t) == [cursor EXCEPT !.sizes = t]

LEMMA CursorSized ==
  ASSUME NEW a, NEW l, NEW s, NEW t
  PROVE  Sized(Cursor(a, l, s), t) = Cursor(a, l, t)
<1>. DEFINE yes == TRUE
<1>. HIDE DEF yes
<1>1. [[ok |-> yes, at |-> a, left |-> l, sizes |-> s] EXCEPT !.sizes = t]
        = [ok |-> yes, at |-> a, left |-> l, sizes |-> t]
  BY SMT
<1>. QED BY <1>1, Zenon DEF Cursor, Sized, yes

(* All of the sizes are read, whichever way they are given.                *)
LEMMA PlainRead ==
  ASSUME NEW c, NEW fs, FitFrames(c, fs), NEW padTo \in Nat, NEW data \in Seq(Byte),
         NEW at \in Nat \ {0}, NEW left \in Nat,
         ConstantSize(data) <=> Code(fs, padTo) = 1 \/ (Code(fs, padTo) = 3 /\ ~Varies(fs)),
         Lies(GivenBytes(fs, padTo), data, at),
         left = Len(GivenBytes(fs, padTo)) + Total(Sizes(fs))
  PROVE  \E l \in Int : PlainSizes(data, Cursor(at, left, <<>>), Len(fs))
                          = Cursor(at + Len(GivenBytes(fs, padTo)), l, Sizes(fs))
<1>. DEFINE n == Len(fs)
            g == Len(GivenBytes(fs, padTo))
            sizes == Sizes(fs)
            start == Cursor(at, left, <<>>)
            total == Total(sizes)
<1>1. /\ sizes \in Seq(Nat) /\ Len(sizes) = n /\ n \in Nat \ {0} /\ DOMAIN fs = 1 .. n
      /\ \A i \in 1 .. n : sizes[i] = Len(fs[i]) /\ sizes[i] \in 0 .. MaxFrame /\ sizes[i] \in Nat
  BY SizesFit, MaxFrameNat, SMTT(30)
<1>2. g \in Nat /\ (~ManySizes(fs, padTo) => GivenBytes(fs, padTo) = <<>>)
  BY GivenParts, Elements
<1>3. total \in Nat /\ left = g + total /\ left \in Nat
  BY <1>1, LastTotal
<1>4. start.ok /\ start.at = at /\ start.left = left /\ start.sizes = <<>>
  BY DEF Cursor
<1>5. CASE ConstantSize(data)
  <2>1. ~Varies(fs) /\ ~ManySizes(fs, padTo)
    BY <1>5, CodeOfFrames DEF ManySizes
  <2>2. g = 0
    BY <1>2, <2>1
  <2>. DEFINE size == sizes[1]
  <2>3. size \in Nat /\ size \in 0 .. MaxFrame /\ \A i \in 1 .. Len(sizes) : sizes[i] = size
    <3>1. \A i \in 1 .. n : Len(fs[i]) = Len(fs[1])
      BY <1>1, <2>1 DEF Varies
    <3>2. 1 \in 1 .. n
      BY <1>1
    <3>. QED BY <1>1, <3>1, <3>2
  <2>. HIDE DEF size
  <2>4. total = n * size
    BY <1>1, <2>3, TotalOfSame
  <2>5. total \div n = size /\ size * n = total
    <3>. HIDE DEF n, total
    <3>1. n * size = size * n
      BY <1>1, <2>3
    <3>2. (n * size) \div n = size
      BY <1>1, <2>3, Quotient
    <3>. QED BY <2>4, <3>1, <3>2
  <2>6. left = total
    BY <1>3, <2>2
  <2>7. start.left \div n = size /\ size * n = start.left /\ size <= MaxFrame
    <3>1. size <= MaxFrame
      BY <2>3, MaxFrameNat
    <3>. QED BY <1>4, <2>5, <2>6, <3>1, Zenon
  <2>8. sizes = [i \in 1 .. n |-> size]
    BY <1>1, <2>3
  <2>. HIDE DEF start, n, g, sizes, total
  <2>9. Divided(start, n) = Sized(start, [i \in 1 .. n |-> size])
    <3>1. ~ (size * n # start.left \/ size > MaxFrame)
      BY <2>3, <2>7, MaxFrameNat
    <3>. QED BY <2>7, <3>1, Zenon DEF Divided, Sized
  <2>10. Sized(start, [i \in 1 .. n |-> size]) = Cursor(at, left, sizes)
    BY <2>8, CursorSized DEF start
  <2>11. at + g = at
    BY <2>2
  <2>12. PlainSizes(data, start, n) = Cursor(at + g, left, sizes)
    BY <1>5, <2>9, <2>10, <2>11 DEF PlainSizes
  <2>. QED BY <1>3, <2>12 DEF start, n, g, sizes
<1>6. CASE ~ConstantSize(data)
  <2>1. ManySizes(fs, padTo) \/ n = 1
    <3>1. Code(fs, padTo) \in 0 .. 3 /\ (Code(fs, padTo) = 0 => n = 1)
      BY CodeOfFrames
    <3>. QED BY <1>6, <3>1 DEF ManySizes
  <2>. DEFINE given == Given(data, start, n - 1)
              most == SubSeq(sizes, 1, n - 1)
              size == sizes[n]
  <2>2. given = Cursor(at + g, left - g, most)
    <3>1. left >= Len(GivenBytes(fs, padTo)) + Total(Sizes(fs)) /\ left \in Int
      BY <1>2, <1>3
    <3>. QED BY <2>1, <3>1, GivenRead
  <2>3. total = Total(most) + size /\ sizes = Append(most, size) /\ Total(most) \in Nat /\ size \in Nat
    BY <1>1, LastTotal
  <2>4. size <= MaxFrame
    <3>1. n \in 1 .. n
      BY <1>1
    <3>. QED BY <1>1, <3>1, MaxFrameNat
  <2>5. given.ok /\ given.left = left - g /\ given.sizes = most
    <3>. HIDE DEF given
    <3>1. given.ok
      BY <2>2, CursorFields, Zenon
    <3>. DEFINE a == at + g
                l == left - g
    <3>. HIDE DEF a, l, most
    <3>2. given = Cursor(a, l, most)
      BY <2>2 DEF a, l, most
    <3>3. given.left = l /\ given.sizes = most
      BY <3>2, CursorFields
    <3>. QED BY <3>1, <3>3 DEF l
  <2>. HIDE DEF given, most, size, total, g
  <2>6. given.left - Total(given.sizes) = size
    <3>. DEFINE t == Total(most)
    <3>1. t \in Nat /\ total = t + size
      BY <2>3
    <3>. HIDE DEF t
    <3>2. (left - g) - t = size
      <4>1. g \in Nat /\ size \in Nat /\ left = g + total
        BY <1>2, <1>3, <2>3
      <4>. QED BY ONLY <3>1, <4>1
    <3>. QED BY <2>5, <3>2, Zenon DEF t
  <2>7. Remainder(given) = Sized(given, Append(given.sizes, size))
    <3>1. ~ (~given.ok \/ size < 0 \/ size > MaxFrame)
      BY <2>3, <2>4, <2>5, MaxFrameNat
    <3>2. Remainder(given) = IF ~given.ok \/ size < 0 \/ size > MaxFrame THEN Malformed
                             ELSE Sized(given, Append(given.sizes, size))
      BY <2>6, Zenon DEF Remainder, Sized
    <3>. QED BY <3>1, <3>2, Zenon
  <2>8. Remainder(given) = Cursor(at + g, left - g, sizes)
    <3>1. Sized(given, sizes) = Cursor(at + g, left - g, sizes)
      BY <2>2, CursorSized
    <3>. QED BY <2>3, <2>5, <2>7, <3>1, Zenon
  <2>9. PlainSizes(data, start, n) = Remainder(given)
    BY <1>6 DEF PlainSizes, given
  <2>10. left - g \in Int
    BY <1>2, <1>3
  <2>. QED BY <2>8, <2>9, <2>10 DEF g
<1>. QED BY <1>5, <1>6

LEMMA GivenOneMore ==
  ASSUME NEW n \in Nat \ {0}, NEW data, NEW start
  PROVE  Given(data, start, n) = TakeSize(data, Given(data, start, n - 1))
<1>. DEFINE m == n - 1
<1>1. m \in Nat /\ m + 1 = n /\ m \in 0 .. n - 1
  OBVIOUS
<1>. HIDE DEF m
<1>a. PICK f : Walks(f, n, data, start)
  BY GivenUnfolds
<1>b. PICK h : Walks(h, m, data, start)
  BY <1>1, GivenUnfolds
<1>2. /\ f[0] = start /\ \A i \in 0 .. n - 1 : f[i + 1] = TakeSize(data, f[i])
      /\ Given(data, start, n) = f[n]
  BY <1>a DEF Walks
<1>3. /\ h[0] = start /\ \A i \in 0 .. m - 1 : h[i + 1] = TakeSize(data, h[i])
      /\ Given(data, start, m) = h[m]
  BY <1>b DEF Walks
<1>. DEFINE T == {i \in Nat : i <= m => f[i] = h[i]}
<1>4. 0 \in T
  BY <1>2, <1>3
<1>5. ASSUME NEW i \in Nat, i \in T PROVE i + 1 \in T
  <2>. SUFFICES ASSUME i + 1 <= m PROVE f[i + 1] = h[i + 1]
    OBVIOUS
  <2>1. f[i] = h[i] /\ i \in 0 .. n - 1 /\ i \in 0 .. m - 1
    BY <1>1, <1>5
  <2>2. f[i + 1] = TakeSize(data, f[i]) /\ h[i + 1] = TakeSize(data, h[i])
    BY <1>2, <1>3, <2>1
  <2>. QED BY <2>1, <2>2, Zenon
<1>6. m \in T
  <2>. HIDE DEF T
  <2>. QED BY <1>1, <1>4, <1>5, Induction
<1>7. f[m] = h[m]
  BY <1>1, <1>6
<1>8. f[n] = TakeSize(data, f[m])
  BY <1>1, <1>2
<1>. QED BY <1>2, <1>3, <1>7, <1>8, Zenon DEF m

(* The same with the last size given as well.                              *)
LEMMA DelimitedRead ==
  ASSUME NEW c, NEW fs, FitFrames(c, fs), NEW padTo \in Nat, NEW data \in Seq(Byte),
         NEW at \in Nat \ {0}, NEW left \in Nat,
         ConstantSize(data) <=> Code(fs, padTo) = 1 \/ (Code(fs, padTo) = 3 /\ ~Varies(fs)),
         Lies(GivenBytes(fs, padTo), data, at),
         Lies(LastBytes(fs, TRUE), data, at + Len(GivenBytes(fs, padTo))),
         left >= Len(GivenBytes(fs, padTo)) + Len(LastBytes(fs, TRUE)) + Total(Sizes(fs))
  PROVE  \E l \in Int : DelimitedSizes(data, Cursor(at, left, <<>>), Len(fs))
                          = Cursor(at + Len(GivenBytes(fs, padTo)) + Len(LastBytes(fs, TRUE)), l, Sizes(fs))
<1>. DEFINE n == Len(fs)
            g == Len(GivenBytes(fs, padTo))
            sizes == Sizes(fs)
            start == Cursor(at, left, <<>>)
            total == Total(sizes)
            size == sizes[n]
            w == Len(LastBytes(fs, TRUE))
            most == SubSeq(sizes, 1, n - 1)
<1>1. /\ sizes \in Seq(Nat) /\ Len(sizes) = n /\ n \in Nat \ {0} /\ DOMAIN fs = 1 .. n /\ n \in 1 .. n
      /\ \A i \in 1 .. n : sizes[i] = Len(fs[i]) /\ sizes[i] \in 0 .. MaxFrame /\ sizes[i] \in Nat
  BY SizesFit, MaxFrameNat
<1>2. g \in Nat /\ (~ManySizes(fs, padTo) => GivenBytes(fs, padTo) = <<>>)
  BY GivenParts, Elements
<1>3. size \in Nat /\ size \in 0 .. MaxFrame /\ LastBytes(fs, TRUE) = EncodeSize(size)
  BY <1>1 DEF LastBytes
<1>4. w \in Nat
  <2>. HIDE DEF size
  <2>1. Len(EncodeSize(size)) \in {1, 2}
    BY <1>3, EncodedSize
  <2>2. w = Len(EncodeSize(size))
    BY <1>3, Zenon
  <2>. HIDE DEF w
  <2>. QED BY ONLY <2>1, <2>2
<1>5. /\ total \in Nat /\ left \in Nat /\ left >= g + w + total
      /\ total = Total(most) + size /\ sizes = Append(most, size) /\ Total(most) \in Nat
  <2>1. left >= g + w + total
    OBVIOUS
  <2>. QED BY <1>1, <2>1, LastTotal
<1>6. Lies(EncodeSize(size), data, at + g) /\ at + g \in Nat \ {0} /\ w = Len(EncodeSize(size))
  <2>1. at + g \in Nat \ {0}
    <3>. HIDE DEF g
    <3>. QED BY <1>2
  <2>2. Lies(LastBytes(fs, TRUE), data, at + g)
    OBVIOUS
  <2>. HIDE DEF size, g
  <2>. QED BY <1>3, <2>1, <2>2, Zenon
<1>7. ASSUME NEW s
      PROVE  TakeSize(data, Cursor(at + g, left - g, s))
               = Cursor((at + g) + w, (left - g) - w, Append(s, size))
  <2>. DEFINE a == at + g
              l == left - g
  <2>. HIDE DEF total, w, g, size
  <2>1. l \in Int /\ l >= w + size
    <3>. DEFINE t == Total(most)
    <3>1. t \in Nat /\ total = t + size
      BY <1>5
    <3>. HIDE DEF t
    <3>2. left \in Nat /\ left >= g + w + total /\ g \in Nat /\ w \in Nat /\ size \in Nat
      BY <1>2, <1>3, <1>4, <1>5
    <3>. QED BY ONLY <3>1, <3>2
  <2>2. Lies(EncodeSize(size), data, a) /\ a \in Nat \ {0}
    BY <1>6
  <2>. HIDE DEF a, l
  <2>3. TakeSize(data, Cursor(a, l, s))
          = Cursor(a + Len(EncodeSize(size)), l - Len(EncodeSize(size)), Append(s, size))
    BY <1>3, <1>6, <2>1, <2>2, SizeTaken
  <2>. QED BY <1>6, <2>3, Zenon DEF a, l
<1>8. CASE ConstantSize(data)
  <2>1. ~Varies(fs) /\ ~ManySizes(fs, padTo)
    BY <1>8, CodeOfFrames DEF ManySizes
  <2>2. g = 0
    BY <1>2, <2>1
  <2>3. \A i \in 1 .. Len(sizes) : sizes[i] = size
    <3>1. \A i \in 1 .. n : Len(fs[i]) = Len(fs[1])
      BY <1>1, <2>1 DEF Varies
    <3>. QED BY <1>1, <3>1
  <2>4. total = n * size /\ n * size = size * n
    <3>1. total = n * size
      BY <1>1, <1>3, <2>3, TotalOfSame, SMTT(30)
    <3>. HIDE DEF size, n
    <3>. QED BY <1>1, <1>3, <3>1
  <2>5. sizes = [i \in 1 .. n |-> size]
    BY <1>1, <2>3
  <2>. DEFINE one == Cursor((at + g) + w, (left - g) - w, Append(<<>>, size))
  <2>6. TakeSize(data, start) = one
    <3>1. TakeSize(data, Cursor(at + g, left - g, <<>>)) = one
      BY <1>7
    <3>2. at + g = at /\ left - g = left
      BY <2>2
    <3>. QED BY <3>1, <3>2, Zenon
  <2>7. one.ok /\ one.left = (left - g) - w /\ one.sizes[1] = size
    <3>1. one.ok /\ one.left = (left - g) - w /\ one.sizes = Append(<<>>, size)
      <4>. DEFINE a == (at + g) + w
                  l == (left - g) - w
                  s == Append(<<>>, size)
      <4>. HIDE DEF a, l, s
      <4>1. one = Cursor(a, l, s)
        BY DEF a, l, s
      <4>2. one.ok
        BY <4>1, CursorFields, Zenon
      <4>. HIDE DEF one
      <4>3. one.left = l /\ one.sizes = s
        BY <4>1, CursorFields
      <4>. QED BY <4>2, <4>3 DEF l, s
    <3>2. Append(<<>>, size)[1] = size
      BY <1>3
    <3>. HIDE DEF one
    <3>. QED BY <3>1, <3>2
  <2>. HIDE DEF one
  <2>8. ~ (one.sizes[1] * n > one.left)
    <3>1. size * n <= (left - g) - w
      <4>. HIDE DEF total, g, w
      <4>. DEFINE x == size * n
      <4>1. total = x /\ total \in Nat /\ left \in Nat /\ left >= g + w + total /\ g \in Nat /\ w \in Nat
        BY <1>2, <1>4, <1>5, <2>4
      <4>. HIDE DEF x
      <4>2. x <= (left - g) - w
        BY ONLY <4>1
      <4>. QED BY <4>2 DEF x
    <3>. DEFINE x == size * n
                l == (left - g) - w
    <3>2. x \in Int /\ l \in Int /\ x <= l
      <4>1. x \in Int
        <5>. HIDE DEF size, n
        <5>. QED BY <1>1, <1>3
      <4>2. l \in Int
        <5>. HIDE DEF w, g
        <5>. QED BY <1>2, <1>4
      <4>. QED BY <3>1, <4>1, <4>2
    <3>3. one.sizes[1] * n = x /\ one.left = l
      BY <2>7, Zenon
    <3>. HIDE DEF x, l
    <3>. QED BY <3>2, <3>3
  <2>9. Repeated(one, n) = Sized(one, [i \in 1 .. n |-> one.sizes[1]])
    BY <2>7, <2>8, Zenon DEF Repeated, Sized
  <2>10. Repeated(one, n) = Cursor((at + g) + w, (left - g) - w, sizes)
    <3>1. Sized(one, sizes) = Cursor((at + g) + w, (left - g) - w, sizes)
      BY CursorSized DEF one
    <3>. QED BY <2>5, <2>7, <2>9, <3>1, Zenon
  <2>11. DelimitedSizes(data, start, n) = Cursor((at + g) + w, (left - g) - w, sizes)
    BY <1>8, <2>6, <2>10, Zenon DEF DelimitedSizes
  <2>12. (left - g) - w \in Int
    <3>. HIDE DEF w, g
    <3>. QED BY <1>2, <1>4
  <2>. QED BY <2>11, <2>12
<1>9. CASE ~ConstantSize(data)
  <2>1. ManySizes(fs, padTo) \/ n = 1
    <3>1. Code(fs, padTo) \in 0 .. 3 /\ (Code(fs, padTo) = 0 => n = 1)
      BY CodeOfFrames
    <3>. QED BY <1>9, <3>1 DEF ManySizes
  <2>. DEFINE all == Cursor((at + g) + w, (left - g) - w, sizes)
  <2>2. Given(data, start, n - 1) = Cursor(at + g, left - g, most)
    <3>1. left >= Len(GivenBytes(fs, padTo)) + Total(Sizes(fs)) /\ left \in Int
      <4>. HIDE DEF total, g, w
      <4>1. left >= g + total /\ left \in Int
        BY <1>2, <1>4, <1>5
      <4>. QED BY <4>1 DEF total, g
    <3>. QED BY <2>1, <3>1, GivenRead
  <2>3. Given(data, start, n) = all
    <3>1. Given(data, start, n) = TakeSize(data, Given(data, start, n - 1))
      BY <1>1, GivenOneMore
    <3>2. TakeSize(data, Cursor(at + g, left - g, most))
            = Cursor((at + g) + w, (left - g) - w, Append(most, size))
      BY <1>7
    <3>. HIDE DEF start, most, size, g, w, n, sizes
    <3>. QED BY <1>5, <2>2, <3>1, <3>2, Zenon
  <2>4. all.ok /\ all.left = (left - g) - w /\ all.sizes = sizes
    <3>. DEFINE a == (at + g) + w
                l == (left - g) - w
    <3>. HIDE DEF a, l, sizes
    <3>1. all = Cursor(a, l, sizes)
      BY DEF a, l
    <3>2. all.ok
      BY <3>1, CursorFields, Zenon
    <3>. HIDE DEF all
    <3>3. all.left = l /\ all.sizes = sizes
      BY <3>1, CursorFields
    <3>. QED BY <3>2, <3>3 DEF l
  <2>. HIDE DEF all
  <2>5. ~ (Total(all.sizes) > all.left)
    <3>. DEFINE l == (left - g) - w
    <3>1. l \in Int /\ total \in Nat /\ total <= l
      <4>. HIDE DEF total, g, w
      <4>. QED BY <1>2, <1>4, <1>5
    <3>2. all.left = l /\ Total(all.sizes) = total
      BY <2>4
    <3>. HIDE DEF l, total
    <3>. QED BY <3>1, <3>2
  <2>6. Within(all) = all
    BY <2>4, <2>5, Zenon DEF Within
  <2>7. DelimitedSizes(data, start, n) = all
    BY <1>9, <2>3, <2>6, Zenon DEF DelimitedSizes
  <2>8. (left - g) - w \in Int
    <3>. HIDE DEF w, g
    <3>. QED BY <1>2, <1>4
  <2>. QED BY <2>7, <2>8 DEF all
<1>. QED BY <1>8, <1>9

(* Where the four parts of a packet are.                                   *)
LEMMA BodyLies ==
  ASSUME NEW c, NEW fs, FitFrames(c, fs), NEW padTo \in Nat, NEW selfd \in BOOLEAN,
         NEW data \in Seq(Byte), Lies(Body(c, fs, padTo, selfd), data, 1)
  PROVE  LET h == Len(HeadBytes(c, fs, padTo))
             g == Len(GivenBytes(fs, padTo))
             w == Len(LastBytes(fs, selfd))
         IN /\ Lies(HeadBytes(c, fs, padTo), data, 1)
            /\ Lies(GivenBytes(fs, padTo), data, 1 + h)
            /\ Lies(LastBytes(fs, selfd), data, 1 + h + g)
            /\ Lies(FlattenSeq(fs), data, 1 + h + g + w)
<1>. DEFINE H == HeadBytes(c, fs, padTo)
            G == GivenBytes(fs, padTo)
            L == LastBytes(fs, selfd)
            F == FlattenSeq(fs)
<1>1. H \in Seq(Byte) /\ G \in Seq(Byte) /\ L \in Seq(Byte)
  BY HeadPart, GivenParts, LastPart
<1>2. F \in Seq(Byte)
  <2>1. fs \in Seq(Seq(Byte)) /\ Len(fs) # 0
    BY DEF FitFrames
  <2>. QED BY <2>1, JoinedLie
<1>3. Lies(((H \o G) \o L) \o F, data, 1)
  BY DEF Body
<1>. HIDE DEF H, G, L, F
<1>4. /\ H \o G \in Seq(Byte) /\ Len(H \o G) = Len(H) + Len(G) /\ Len(H) \in Nat /\ Len(G) \in Nat
  BY <1>1, JoinOfTwo
<1>5. /\ (H \o G) \o L \in Seq(Byte) /\ Len((H \o G) \o L) = Len(H) + Len(G) + Len(L) /\ Len(L) \in Nat
  <2>. DEFINE x == H \o G
  <2>. HIDE DEF x
  <2>1. x \in Seq(Byte) /\ Len(x) = Len(H) + Len(G)
    BY <1>4 DEF x
  <2>2. x \o L \in Seq(Byte) /\ Len(x \o L) = Len(x) + Len(L) /\ Len(L) \in Nat
    BY <1>1, <2>1, JoinOfTwo
  <2>. QED BY <2>1, <2>2 DEF x
<1>6. Lies((H \o G) \o L, data, 1) /\ Lies(F, data, 1 + Len((H \o G) \o L))
  <2>. DEFINE x == (H \o G) \o L
  <2>1. x \in Seq(Byte) /\ Lies(x \o F, data, 1)
    BY <1>3, <1>5
  <2>. HIDE DEF x
  <2>2. Lies(x, data, 1) /\ Lies(F, data, 1 + Len(x))
    BY <1>2, <2>1, LiesBoth
  <2>. QED BY <2>2 DEF x
<1>7. Lies(H \o G, data, 1) /\ Lies(L, data, 1 + Len(H \o G))
  <2>. DEFINE x == H \o G
  <2>1. x \in Seq(Byte) /\ Lies(x \o L, data, 1)
    BY <1>4, <1>6
  <2>. HIDE DEF x
  <2>2. Lies(x, data, 1) /\ Lies(L, data, 1 + Len(x))
    BY <1>1, <2>1, LiesBoth
  <2>. QED BY <2>2 DEF x
<1>8. Lies(H, data, 1) /\ Lies(G, data, 1 + Len(H))
  BY <1>1, <1>7, LiesBoth
<1>9. 1 + Len((H \o G) \o L) = 1 + Len(H) + Len(G) + Len(L) /\ 1 + Len(H \o G) = 1 + Len(H) + Len(G)
  <2>. DEFINE h == Len(H)
              g == Len(G)
              l == Len(L)
  <2>. HIDE DEF h, g, l
  <2>1. h \in Nat /\ g \in Nat /\ l \in Nat
    BY <1>4, <1>5 DEF h, g, l
  <2>2. 1 + (h + g + l) = 1 + h + g + l /\ 1 + (h + g) = 1 + h + g
    BY ONLY <2>1
  <2>. QED BY <1>4, <1>5, <2>2, Zenon DEF h, g, l
<1>10. Lies(F, data, 1 + Len(H) + Len(G) + Len(L)) /\ Lies(L, data, 1 + Len(H) + Len(G))
  BY <1>6, <1>7, <1>9, Zenon
<1>. QED BY <1>8, <1>10, Zenon DEF H, G, L, F

(* How long a packet is without padding, and what its padding comes to.    *)
BodyLength(c, fs, padTo, selfd) ==
  Len(HeadBytes(c, fs, padTo)) + Len(GivenBytes(fs, padTo)) + Len(LastBytes(fs, selfd))
    + Total(Sizes(fs))

LEMMA BodyMeasured ==
  ASSUME NEW c, NEW fs, FitFrames(c, fs), NEW padTo \in Nat, NEW selfd \in BOOLEAN
  PROVE  /\ Body(c, fs, padTo, selfd) \in Seq(Byte)
         /\ Len(Body(c, fs, padTo, selfd)) = BodyLength(c, fs, padTo, selfd)
         /\ Len(HeadBytes(c, fs, padTo)) \in Nat /\ Len(GivenBytes(fs, padTo)) \in Nat
         /\ Len(LastBytes(fs, selfd)) \in Nat /\ Total(Sizes(fs)) \in Nat
<1>. DEFINE H == HeadBytes(c, fs, padTo)
            G == GivenBytes(fs, padTo)
            L == LastBytes(fs, selfd)
            F == FlattenSeq(fs)
            t == Total(Sizes(fs))
<1>1. H \in Seq(Byte) /\ G \in Seq(Byte) /\ L \in Seq(Byte)
  BY HeadPart, GivenParts, LastPart
<1>2. F \in Seq(Byte) /\ Len(F) = t
  <2>1. fs \in Seq(Seq(Byte)) /\ Len(fs) # 0
    BY DEF FitFrames
  <2>2. Sizes(fs) = Lens(fs)
    BY SizesFit
  <2>. QED BY <2>1, <2>2, JoinedLie, Zenon
<1>3. Body(c, fs, padTo, selfd) = ((H \o G) \o L) \o F
  BY DEF Body
<1>. HIDE DEF H, G, L, F, t
<1>4. /\ H \o G \in Seq(Byte) /\ Len(H \o G) = Len(H) + Len(G) /\ Len(H) \in Nat /\ Len(G) \in Nat
  BY <1>1, JoinOfTwo
<1>5. /\ (H \o G) \o L \in Seq(Byte) /\ Len((H \o G) \o L) = Len(H \o G) + Len(L) /\ Len(L) \in Nat
  BY <1>1, <1>4, JoinOfTwo
<1>6. /\ ((H \o G) \o L) \o F \in Seq(Byte) /\ Len(((H \o G) \o L) \o F) = Len((H \o G) \o L) + Len(F)
      /\ Len(F) \in Nat
  BY <1>2, <1>5, JoinOfTwo
<1>7. Len(((H \o G) \o L) \o F) = Len(H) + Len(G) + Len(L) + t
  BY <1>2, <1>4, <1>5, <1>6, Zenon
<1>. QED BY <1>2, <1>3, <1>4, <1>5, <1>6, <1>7, Zenon DEF BodyLength, H, G, L, t

(* A packet with padding asked for has that length, to the byte.           *)
LEMMA EmittedLength ==
  ASSUME NEW c, NEW fs, FitFrames(c, fs), NEW padTo \in Nat, NEW selfd \in BOOLEAN,
         selfd => padTo = NoPadding
  PROVE  /\ EmitPacket(c, fs, padTo, selfd) \in Seq(Byte)
         /\ \E zeros \in Seq(Byte) :
              /\ EmitPacket(c, fs, padTo, selfd) = Body(c, fs, padTo, selfd) \o zeros
              /\ padTo = NoPadding => zeros = <<>>
         /\ padTo = NoPadding =>
              Len(EmitPacket(c, fs, padTo, selfd)) = BodyLength(c, fs, padTo, selfd)
         /\ padTo = NoPadding => Extra(fs, padTo) = 0
         /\ ~selfd => Len(EmitPacket(c, fs, padTo, selfd))
                        - (IF Code(fs, padTo) = 3 THEN 2 + Extra(fs, padTo) ELSE 1)
                        = Len(GivenBytes(fs, padTo)) + Total(Sizes(fs))
         /\ padTo # NoPadding /\ padTo >= 2 + Len(GivenBytes(fs, padTo)) + Total(Sizes(fs)) =>
              Len(EmitPacket(c, fs, padTo, selfd)) = padTo
<1>. DEFINE body == Body(c, fs, padTo, selfd)
            H == Len(HeadBytes(c, fs, padTo))
            G == Len(GivenBytes(fs, padTo))
            L == Len(LastBytes(fs, selfd))
            t == Total(Sizes(fs))
            x == Extra(fs, padTo)
            code == Code(fs, padTo)
            m == Missing(padTo, Len(body))
            zeros == [i \in 1 .. m |-> 0]
            p == Len(PadBytes(x))
            all == EmitPacket(c, fs, padTo, selfd)
<1>1. /\ body \in Seq(Byte) /\ Len(body) = H + G + L + t
      /\ H \in Nat /\ G \in Nat /\ L \in Nat /\ t \in Nat
  BY BodyMeasured DEF BodyLength
<1>2. /\ x \in Nat
      /\ code # 3 => H = 1 /\ x = 0
      /\ code = 3 => H = 2 + (IF x = 0 THEN 0 ELSE p)
      /\ x # 0 => p \in 1 .. x
  BY HeadPart
<1>3. all = body \o zeros
  BY EmittedParts DEF Filled
<1>4. ~selfd => L = 0
  BY DEF LastBytes
<1>5. x = IF code = 3 THEN Missing(padTo, 2 + G + t) ELSE 0
  BY DEF Extra
<1>6. padTo # NoPadding => code = 3
  BY CodeOfFrames
<1>. DEFINE b == Len(body)
<1>. HIDE DEF H, G, L, t, x, code, p, body, b
<1>7. m = IF padTo > b THEN padTo - b ELSE 0
  BY DEF Missing, b
<1>8. b = H + G + L + t /\ b \in Nat
  BY <1>1 DEF b
<1>9. m \in Nat
  <2>. HIDE DEF m
  <2>. QED BY <1>7, <1>8
<1>10. zeros \in Seq(Byte) /\ Len(zeros) = m
  <2>1. 0 \in Byte
    BY ByteAssumption DEF Byte
  <2>. HIDE DEF m
  <2>. QED BY <1>9, <2>1
<1>. HIDE DEF zeros
<1>11. all \in Seq(Byte) /\ Len(all) = b + m
  BY <1>1, <1>3, <1>10, JoinOfTwo DEF b
<1>. HIDE DEF m, all
<1>12. padTo = NoPadding => m = 0
  BY <1>7, <1>8 DEF NoPadding
<1>13. padTo = NoPadding => zeros = <<>>
  BY <1>10, <1>12
<1>14. padTo = NoPadding => x = 0
  BY <1>1, <1>5 DEF NoPadding, Missing
<1>15. ~selfd => Len(all) - (IF code = 3 THEN 2 + x ELSE 1) = G + t
  <2>. SUFFICES ASSUME ~selfd PROVE Len(all) - (IF code = 3 THEN 2 + x ELSE 1) = G + t
    OBVIOUS
  <2>1. CASE code # 3
    <3>1. padTo = NoPadding /\ m = 0 /\ H = 1 /\ L = 0
      BY <1>2, <1>4, <1>6, <1>12, <2>1
    <3>. QED BY <1>1, <1>8, <1>11, <2>1, <3>1
  <2>2. CASE code = 3
    <3>1. x = IF padTo > 2 + G + t THEN padTo - (2 + G + t) ELSE 0
      BY <1>5, <2>2 DEF Missing
    <3>2. b = H + G + t
      BY <1>1, <1>4, <1>8
    <3>3. (b + m) - (2 + x) = G + t
      <4>1. CASE x = 0
        <5>1. H = 2
          BY <1>2, <2>2, <4>1
        <5>. QED BY <1>1, <1>7, <3>1, <3>2, <4>1, <5>1
      <4>2. CASE x # 0
        <5>1. H = 2 + p /\ p \in 1 .. x
          BY <1>2, <2>2, <4>2
        <5>. QED BY <1>1, <1>2, <1>7, <3>1, <3>2, <4>2, <5>1
      <4>. QED BY <4>1, <4>2
    <3>. QED BY <1>11, <2>2, <3>3
  <2>. QED BY <2>1, <2>2
<1>16. padTo # NoPadding /\ padTo >= 2 + G + t => Len(all) = padTo
  <2>. SUFFICES ASSUME padTo # NoPadding, padTo >= 2 + G + t PROVE b + m = padTo
    BY <1>11
  <2>1. x = padTo - (2 + G + t) /\ code = 3
    BY <1>1, <1>5, <1>6 DEF Missing
  <2>2. b = H + G + t
    BY <1>1, <1>4, <1>8
  <2>3. H <= 2 + x
    <3>1. CASE x = 0
      BY <1>2, <2>1, <3>1
    <3>2. CASE x # 0
      BY <1>2, <2>1, <3>2
    <3>. QED BY <3>1, <3>2
  <2>. QED BY <1>1, <1>7, <2>1, <2>2, <2>3
<1>17. padTo = NoPadding => Len(all) = H + G + L + t
  BY <1>8, <1>11, <1>12
<1>18. \E z \in Seq(Byte) : all = body \o z /\ (padTo = NoPadding => z = <<>>)
  BY <1>3, <1>10, <1>13
<1>. QED BY <1>11, <1>14, <1>15, <1>16, <1>17, <1>18
         DEF all, body, H, G, L, t, x, code, BodyLength

(***************************************************************************)
(* The packets that emit_packet makes.                                     *)
(***************************************************************************)
(* The frames cut at sizes that lie in the packet are those frames.        *)
LEMMA CutsOut ==
  ASSUME NEW c, NEW fs, FitFrames(c, fs), NEW data \in Seq(Byte), NEW at \in Nat \ {0}, NEW l,
         Lies(FlattenSeq(fs), data, at)
  PROVE  /\ Cut(data, Cursor(at, l, Sizes(fs))).ok
         /\ Cut(data, Cursor(at, l, Sizes(fs))).config = ConfigOf(data[1])
         /\ Cut(data, Cursor(at, l, Sizes(fs))).frames = fs
         /\ Cut(data, Cursor(at, l, Sizes(fs))).consumed = at - 1 + Total(Sizes(fs))
<1>. DEFINE sizes == Sizes(fs)
            read == Cursor(at, l, sizes)
            cut == Cut(data, read)
            from(i) == at + Before(sizes, i)
<1>1. read.ok /\ read.at = at /\ read.sizes = sizes
  BY DEF Cursor
<1>2. /\ sizes = Lens(fs) /\ Len(sizes) = Len(fs) /\ Len(fs) \in Nat \ {0} /\ DOMAIN fs = 1 .. Len(fs)
      /\ sizes \in Seq(Nat)
      /\ \A i \in 1 .. Len(fs) : sizes[i] = Len(fs[i]) /\ fs[i] \in Seq(Byte)
  BY SizesFit
<1>3. DOMAIN sizes = 1 .. Len(fs)
  BY <1>2
<1>. HIDE DEF sizes, read
<1>4. cut = [ok |-> TRUE, config |-> ConfigOf(data[1]),
             frames |-> [i \in DOMAIN sizes |-> SubSeq(data, from(i), from(i) + sizes[i] - 1)],
             consumed |-> at - 1 + Total(sizes)]
  BY <1>1, Zenon DEF Cut, Before
<1>5. ASSUME NEW i \in 1 .. Len(fs)
      PROVE  SubSeq(data, from(i), from(i) + sizes[i] - 1) = fs[i]
  <2>1. fs \in Seq(Seq(Byte)) /\ Len(fs) # 0
    BY DEF FitFrames
  <2>2. Lies(fs[i], data, from(i)) /\ Before(sizes, i) \in Nat
    BY <1>2, <2>1, LiesParts
  <2>3. from(i) \in Nat \ {0}
    BY <2>2
  <2>4. fs[i] \in Seq(Byte) /\ sizes[i] = Len(fs[i])
    BY <1>2
  <2>. HIDE DEF from
  <2>. QED BY <2>2, <2>3, <2>4, LiesCut
<1>6. cut.frames = fs
  <2>1. cut.frames = [i \in 1 .. Len(fs) |-> SubSeq(data, from(i), from(i) + sizes[i] - 1)]
    BY <1>3, <1>4
  <2>2. fs = [i \in 1 .. Len(fs) |-> fs[i]]
    BY DEF FitFrames
  <2>. HIDE DEF cut, from
  <2>. QED BY <1>5, <2>1, <2>2
<1>7. cut.ok /\ cut.config = ConfigOf(data[1]) /\ cut.consumed = at - 1 + Total(sizes)
  <2>. DEFINE f == [i \in DOMAIN sizes |-> SubSeq(data, from(i), from(i) + sizes[i] - 1)]
              g == ConfigOf(data[1])
              t == at - 1 + Total(sizes)
              yes == TRUE
  <2>. HIDE DEF f, g, t, yes
  <2>1. cut = [ok |-> yes, config |-> g, frames |-> f, consumed |-> t]
    BY <1>4 DEF f, g, t, yes
  <2>. HIDE DEF cut
  <2>2. cut.ok = yes /\ cut.config = g /\ cut.consumed = t
    BY <2>1
  <2>. QED BY <2>2 DEF g, t, yes
<1>. QED BY <1>6, <1>7 DEF cut, read, sizes

(* A packet emitted, padded or not, self-delimited with anything behind it *)
(* or not, parses to the configuration and the frames it was made of, byte *)
(* for byte, and a packet without padding is consumed whole.               *)
THEOREM EmittedIsParsed ==
  ASSUME NEW c, NEW fs, FitFrames(c, fs), NEW padTo \in Nat, NEW selfd \in BOOLEAN,
         selfd => padTo = NoPadding,
         NEW trailer \in Seq(Byte), selfd \/ trailer = <<>>
  PROVE  LET packed == EmitPacket(c, fs, padTo, selfd)
             parsed == ParsePacket(packed \o trailer, selfd)
         IN /\ parsed.ok /\ parsed.config = c /\ parsed.frames = fs
            /\ padTo = NoPadding => parsed.consumed = Len(packed)
<1>. DEFINE packed == EmitPacket(c, fs, padTo, selfd)
            data == packed \o trailer
            H == Len(HeadBytes(c, fs, padTo))
            G == Len(GivenBytes(fs, padTo))
            L == Len(LastBytes(fs, selfd))
            t == Total(Sizes(fs))
            x == Extra(fs, padTo)
            code == Code(fs, padTo)
            body == Body(c, fs, padTo, selfd)
            left == Len(data) - (IF code = 3 THEN 2 + x ELSE 1)
            at == 1 + H + G + L
<1>1. /\ H \in Nat /\ G \in Nat /\ L \in Nat /\ t \in Nat /\ body \in Seq(Byte)
  BY BodyMeasured
<1>2. /\ packed \in Seq(Byte)
      /\ padTo = NoPadding => Len(packed) = H + G + L + t /\ x = 0
      /\ ~selfd => Len(packed) - (IF code = 3 THEN 2 + x ELSE 1) = G + t
  BY EmittedLength, ZenonT(60) DEF BodyLength
<1>3. PICK zeros \in Seq(Byte) : packed = body \o zeros
  BY EmittedLength
<1>4. data \in Seq(Byte) /\ Len(data) = Len(packed) + Len(trailer) /\ Len(trailer) \in Nat
  BY <1>2, JoinOfTwo
<1>5. Lies(body, data, 1)
  <2>1. Lies(packed, data, 1)
    BY <1>2, LiesFirst
  <2>. HIDE DEF data, body, packed
  <2>2. Lies(body \o zeros, data, 1)
    BY <1>3, <2>1
  <2>. QED BY <1>1, <1>3, <1>4, <2>2, LiesBoth
<1>. HIDE DEF data
<1>6. /\ Lies(HeadBytes(c, fs, padTo), data, 1)
      /\ Lies(GivenBytes(fs, padTo), data, 1 + H)
      /\ Lies(LastBytes(fs, selfd), data, 1 + H + G)
      /\ Lies(FlattenSeq(fs), data, at)
  BY <1>4, <1>5, BodyLies
<1>7. /\ Header(data) = Cursor(1 + H, left, <<>>)
      /\ FrameCount(data) = Len(fs) /\ ConfigOf(data[1]) = c
      /\ ConstantSize(data) <=> code = 1 \/ (code = 3 /\ ~Varies(fs))
  <2>1. data \in Seq(Byte) /\ Lies(HeadBytes(c, fs, padTo), data, 1)
    BY <1>4, <1>6, Zenon
  <2>2. /\ Header(data) = Cursor(1 + Len(HeadBytes(c, fs, padTo)),
                                  Len(data) - (IF Code(fs, padTo) = 3 THEN 2 + Extra(fs, padTo) ELSE 1),
                                  <<>>)
        /\ FrameCount(data) = Len(fs) /\ ConfigOf(data[1]) = c
        /\ ConstantSize(data) <=> Code(fs, padTo) = 1 \/ (Code(fs, padTo) = 3 /\ ~Varies(fs))
    BY <2>1, HeaderReads
  <2>. QED BY <2>2
<1>8. x \in Nat /\ (code = 3 /\ x = 0 => H = 2) /\ (code # 3 => H = 1 /\ x = 0)
  BY HeadPart
<1>9. left \in Nat /\ (~selfd => left = G + t) /\ (selfd => left >= G + L + t)
  <2>. HIDE DEF H, G, L, t, x, code, packed
  <2>1. CASE ~selfd
    <3>1. trailer = <<>> /\ Len(trailer) = 0
      BY <2>1
    <3>2. Len(packed) \in Nat
      BY <1>2
    <3>3. left = G + t
      BY <1>2, <1>4, <2>1, <3>1, <3>2
    <3>. QED BY <1>1, <2>1, <3>3
  <2>2. CASE selfd
    <3>1. padTo = NoPadding /\ Len(packed) = H + G + L + t /\ x = 0
      BY <1>2, <2>2
    <3>2. (code = 3 => H = 2) /\ (code # 3 => H = 1)
      BY <1>8, <3>1
    <3>. QED BY <1>1, <1>4, <2>2, <3>1, <3>2
  <2>. QED BY <2>1, <2>2
<1>. HIDE DEF left
<1>10. 1 + H \in Nat \ {0} /\ at \in Nat \ {0} /\ at = (1 + H) + G + L /\ (~selfd => L = 0)
  <2>1. ~selfd => L = 0
    BY DEF LastBytes
  <2>. HIDE DEF H, G, L
  <2>. QED BY <1>1, <2>1
<1>11. PICK l \in Int : AllSizes(data, Header(data), selfd) = Cursor(at, l, Sizes(fs))
  <2>. DEFINE start == Cursor(1 + H, left, <<>>)
  <2>1. start.ok /\ ~(start.left < 0)
    <3>1. start.ok /\ start.left = left
      BY CursorFields
    <3>. QED BY <1>9, <3>1
  <2>2. AllSizes(data, Header(data), selfd)
          = IF selfd THEN DelimitedSizes(data, start, Len(fs)) ELSE PlainSizes(data, start, Len(fs))
    <3>. HIDE DEF start
    <3>. QED BY <1>7, <2>1, Zenon DEF AllSizes, start
  <2>. DEFINE a == 1 + H
  <2>3. CASE ~selfd
    <3>1. Lies(GivenBytes(fs, padTo), data, a) /\ left = G + t /\ left \in Nat /\ a \in Nat \ {0}
      BY <1>6, <1>9, <1>10, <2>3
    <3>. HIDE DEF a
    <3>2. \E l \in Int : PlainSizes(data, Cursor(a, left, <<>>), Len(fs)) = Cursor(a + G, l, Sizes(fs))
      BY <1>4, <1>7, <3>1, PlainRead
    <3>3. at = a + G
      <4>. HIDE DEF H, G, L, at
      <4>. QED BY <1>1, <1>10, <2>3 DEF a
    <3>. QED BY <2>2, <2>3, <3>2, <3>3, Zenon DEF a
  <2>4. CASE selfd
    <3>1. /\ Lies(GivenBytes(fs, padTo), data, a) /\ left >= G + L + t /\ left \in Nat /\ a \in Nat \ {0}
          /\ Lies(LastBytes(fs, TRUE), data, a + G) /\ L = Len(LastBytes(fs, TRUE))
      BY <1>6, <1>9, <1>10, <2>4, Zenon
    <3>. HIDE DEF a
    <3>2. \E l \in Int : DelimitedSizes(data, Cursor(a, left, <<>>), Len(fs))
                           = Cursor(a + G + Len(LastBytes(fs, TRUE)), l, Sizes(fs))
      <4>1. left >= G + Len(LastBytes(fs, TRUE)) + t
        BY <3>1, Zenon
      <4>2. ConstantSize(data) <=> code = 1 \/ (code = 3 /\ ~Varies(fs))
        BY <1>7
      <4>3. data \in Seq(Byte)
        BY <1>4
      <4>. QED BY <3>1, <4>1, <4>2, <4>3, DelimitedRead, ZenonT(60)
    <3>3. at = a + G + Len(LastBytes(fs, TRUE))
      BY <1>10, <3>1, Zenon DEF a
    <3>. QED BY <2>2, <2>4, <3>2, <3>3, Zenon DEF a
  <2>. QED BY <2>3, <2>4
<1>. DEFINE parsed == ParsePacket(data, selfd)
<1>12. parsed = Cut(data, Cursor(at, l, Sizes(fs)))
  BY <1>11, Zenon DEF ParsePacket
<1>13. parsed.ok /\ parsed.config = c /\ parsed.frames = fs /\ parsed.consumed = at - 1 + t
  <2>. HIDE DEF parsed, at
  <2>1. Lies(FlattenSeq(fs), data, at) /\ at \in Nat \ {0}
    BY <1>6, <1>10
  <2>2. /\ Cut(data, Cursor(at, l, Sizes(fs))).ok
        /\ Cut(data, Cursor(at, l, Sizes(fs))).config = ConfigOf(data[1])
        /\ Cut(data, Cursor(at, l, Sizes(fs))).frames = fs
        /\ Cut(data, Cursor(at, l, Sizes(fs))).consumed = at - 1 + t
    BY <1>4, <2>1, CutsOut
  <2>. QED BY <1>7, <1>12, <2>2, Zenon
<1>14. padTo = NoPadding => at - 1 + t = Len(packed)
  <2>. SUFFICES ASSUME padTo = NoPadding PROVE at - 1 + t = Len(packed)
    OBVIOUS
  <2>1. Len(packed) = H + G + L + t
    BY <1>2
  <2>. HIDE DEF H, G, L, t, packed
  <2>2. (1 + H + G + L) - 1 + t = H + G + L + t
    BY ONLY <1>1
  <2>. QED BY <2>1, <2>2, Zenon
<1>15. padTo = NoPadding => parsed.consumed = Len(packed)
  <2>. HIDE DEF parsed, packed, at, t
  <2>. QED BY <1>13, <1>14, Zenon
<1>. QED BY <1>13, <1>15, Zenon DEF data

(***************************************************************************)
(* The packets that parse_packet takes, whoever made them.  It reads the   *)
(* same from something longer, and their frames make up a packet again.    *)
(***************************************************************************)
(* A size is never read from more bytes than it would be written in.       *)
LEMMA FieldIsMinimal ==
  ASSUME NEW data \in Seq(Byte), NEW at \in Nat \ {0}, SizeField(data, at).bytes # 0
  PROVE  LET field == SizeField(data, at)
         IN /\ field.size \in 0 .. MaxFrame /\ field.bytes \in {1, 2}
            /\ field.bytes = Len(EncodeSize(field.size))
            /\ at + field.bytes - 1 <= Len(data)
<1>. DEFINE field == SizeField(data, at)
<1>0. Len(data) \in Nat /\ Base \in Nat /\ Step \in Nat \ {0} /\ Short \in Int /\ Base > Step
  BY ByteAssumption DEF Short
<1>1. field.size \in 0 .. MaxFrame
  BY SizesAreBounded
<1>2. at <= Len(data)
  BY DEF SizeField
<1>3. data[at] \in Nat
  BY <1>0, <1>2 DEF Byte
<1>4. CASE data[at] < Short
  <2>1. field = [bytes |-> 1, size |-> data[at]]
    BY <1>0, <1>2, <1>4 DEF SizeField
  <2>2. EncodeSize(data[at]) = <<data[at]>> /\ Len(<<data[at]>>) = 1
    BY <1>4 DEF EncodeSize
  <2>. QED BY <1>0, <1>1, <1>2, <2>1, <2>2
<1>5. CASE ~(data[at] < Short)
  <2>1. at # Len(data)
    BY <1>0, <1>2, <1>5 DEF SizeField
  <2>. DEFINE second == data[at + 1]
              size == second * Step + data[at]
  <2>2. second \in Nat
    BY <1>0, <1>2, <2>1 DEF Byte
  <2>3. field = [bytes |-> 2, size |-> size]
    BY <1>0, <1>2, <1>5, <2>1 DEF SizeField
  <2>4. size \in Int /\ ~(size < Short)
    <3>. HIDE DEF second
    <3>. DEFINE p == second * Step
    <3>1. p \in Nat
      BY <1>0, <2>2
    <3>. HIDE DEF p
    <3>2. p + data[at] \in Int /\ ~(p + data[at] < Short)
      BY <1>0, <1>3, <1>5, <3>1
    <3>. QED BY <3>2 DEF p
  <2>. HIDE DEF size
  <2>5. Len(EncodeSize(size)) = 2
    BY <2>4 DEF EncodeSize
  <2>6. field.bytes = 2 /\ field.size = size
    BY <2>3
  <2>7. at + 2 - 1 <= Len(data)
    BY <1>0, <1>2, <2>1
  <2>. HIDE DEF field
  <2>. QED BY <1>1, <2>5, <2>6, <2>7 DEF field
<1>. QED BY <1>4, <1>5

StepIs(data, at, left, sizes, size) ==
  LET w == Len(EncodeSize(size))
  IN /\ TakeSize(data, Cursor(at, left, sizes)) = Cursor(at + w, left - w, Append(sizes, size))
     /\ at + w - 1 <= Len(data)
     /\ w \in {1, 2}
     /\ \A trailer \in Seq(Byte), more \in Nat :
          TakeSize(data \o trailer, Cursor(at, left + more, sizes))
            = Cursor(at + w, (left + more) - w, Append(sizes, size))

(* The cursor after a size, where one could be taken; a longer packet      *)
(* with the same start reads the same.                                     *)
LEMMA StepTaken ==
  ASSUME NEW data \in Seq(Byte), NEW at \in Nat \ {0}, NEW left \in Int, NEW sizes,
         TakeSize(data, Cursor(at, left, sizes)).ok
  PROVE  \E size \in 0 .. MaxFrame : StepIs(data, at, left, sizes, size)
<1>. DEFINE cursor == Cursor(at, left, sizes)
            field == SizeField(data, at)
            w == field.bytes
            size == field.size
<1>1. cursor.ok /\ cursor.at = at /\ cursor.left = left /\ cursor.sizes = sizes
  BY CursorFields
<1>2. w # 0 /\ ~(size > left - w)
  <2>1. TakeSize(data, cursor) =
          IF ~cursor.ok \/ w = 0 \/ size > left - w THEN Malformed
          ELSE [ok |-> TRUE, at |-> at + w, left |-> left - w, sizes |-> Append(sizes, size)]
    <3>. HIDE DEF cursor
    <3>. QED BY <1>1, Zenon DEF TakeSize
  <2>2. ~Malformed.ok
    BY DEF Malformed
  <2>. HIDE DEF cursor, w, size
  <2>. QED BY <1>1, <2>1, <2>2, Zenon DEF cursor
<1>3. /\ size \in 0 .. MaxFrame /\ w \in {1, 2} /\ w = Len(EncodeSize(size))
      /\ at + w - 1 <= Len(data)
  BY <1>2, FieldIsMinimal
<1>4. TakeSize(data, cursor) = Cursor(at + w, left - w, Append(sizes, size))
  <2>. HIDE DEF cursor, w, size
  <2>. QED BY <1>1, <1>2, Zenon DEF TakeSize, Cursor, w, size
<1>5. ASSUME NEW trailer \in Seq(Byte), NEW more \in Nat
      PROVE  TakeSize(data \o trailer, Cursor(at, left + more, sizes))
               = Cursor(at + w, (left + more) - w, Append(sizes, size))
  <2>. DEFINE long == data \o trailer
  <2>1. /\ long \in Seq(Byte) /\ Len(long) = Len(data) + Len(trailer)
        /\ Len(data) \in Nat /\ Len(trailer) \in Nat
        /\ \A j \in 1 .. Len(data) : long[j] = data[j]
    BY JoinOfTwo
  <2>. HIDE DEF long
  <2>2. SizeField(long, at) = field
    <3>. HIDE DEF w
    <3>1. at <= Len(data) /\ at \in 1 .. Len(data) /\ at <= Len(long) /\ long[at] = data[at]
      <4>. DEFINE n == Len(data)
      <4>0. w \in {1, 2} /\ at + w - 1 <= n /\ at \in Nat /\ n \in Nat
        BY <1>3, <2>1
      <4>. HIDE DEF n
      <4>a. at <= n
        BY ONLY <4>0
      <4>1. at <= Len(data)
        BY <4>a DEF n
      <4>2. at \in 1 .. Len(data) /\ at <= Len(long)
        BY <2>1, <4>1
      <4>. QED BY <2>1, <4>1, <4>2, Zenon
    <3>2. CASE data[at] < Short
      BY <2>1, <3>1, <3>2 DEF SizeField
    <3>3. CASE ~(data[at] < Short)
      <4>1. at # Len(data)
        BY <1>2, <2>1, <3>1, <3>3 DEF SizeField, w
      <4>2. at # Len(long) /\ at + 1 \in 1 .. Len(data) /\ long[at + 1] = data[at + 1]
        BY <2>1, <3>1, <4>1
      <4>. QED BY <2>1, <3>1, <3>3, <4>1, <4>2 DEF SizeField
    <3>. QED BY <3>2, <3>3
  <2>. DEFINE l == left + more
              other == Cursor(at, l, sizes)
  <2>3. ~(size > l - w)
    <3>. HIDE DEF w, size
    <3>. QED BY <1>2, <1>3, MaxFrameNat
  <2>. HIDE DEF l
  <2>4. other.ok /\ other.at = at /\ other.left = l /\ other.sizes = sizes
    BY CursorFields
  <2>5. TakeSize(long, other) = Cursor(at + w, l - w, Append(sizes, size))
    <3>. HIDE DEF other, field
    <3>. QED BY <1>2, <2>2, <2>3, <2>4, Zenon DEF TakeSize, Cursor
  <2>. QED BY <2>5 DEF l, long
<1>. HIDE DEF w, size, cursor
<1>. QED BY <1>3, <1>4, <1>5, Zenon DEF cursor, StepIs

LEMMA WidthOfMore ==
  ASSUME NEW s \in Seq(0 .. MaxFrame), NEW x \in 0 .. MaxFrame
  PROVE  /\ Append(s, x) \in Seq(0 .. MaxFrame) /\ Len(Append(s, x)) = Len(s) + 1
         /\ Widths(Append(s, x)) = Append(Widths(s), Len(EncodeSize(x)))
         /\ Total(Widths(Append(s, x))) = Total(Widths(s)) + Len(EncodeSize(x))
         /\ Total(Widths(s)) \in Nat /\ Len(EncodeSize(x)) \in {1, 2}
<1>. DEFINE t == Append(s, x)
            n == Len(s)
            e == Len(EncodeSize(x))
<1>1. /\ n \in Nat /\ Len(t) = n + 1 /\ t[n + 1] = x /\ t \in Seq(0 .. MaxFrame)
      /\ \A i \in 1 .. n : t[i] = s[i]
  OBVIOUS
<1>2. e \in {1, 2}
  BY EncodedSize
<1>3. /\ Widths(s) \in Seq(Nat) /\ Len(Widths(s)) = n
      /\ \A i \in 1 .. n : Widths(s)[i] = Len(EncodeSize(s[i]))
  BY FieldWidths
<1>. HIDE DEF t
<1>4. /\ Widths(t) \in Seq(Nat) /\ Len(Widths(t)) = n + 1
      /\ \A i \in 1 .. n + 1 : Widths(t)[i] = Len(EncodeSize(t[i]))
  BY <1>1, FieldWidths, Zenon
<1>. DEFINE ws == Widths(s)
            wt == Widths(t)
<1>5. wt = Append(ws, e)
  <2>. HIDE DEF n
  <2>1. /\ \A i \in 1 .. n : wt[i] = ws[i]
        /\ wt[n + 1] = e
    <3>1. \A i \in 1 .. n : i \in 1 .. n + 1
      BY <1>1
    <3>2. n + 1 \in 1 .. n + 1
      BY <1>1
    <3>. QED BY <1>1, <1>3, <1>4, <3>1, <3>2, Zenon
  <2>. HIDE DEF wt, ws, e
  <2>2. wt \in Seq(Nat) /\ Len(wt) = n + 1 /\ ws \in Seq(Nat) /\ Len(ws) = n /\ n \in Nat
    BY <1>1, <1>3, <1>4 DEF wt, ws
  <2>3. e \in Nat
    BY <1>2
  <2>. QED BY <2>1, <2>2, <2>3
<1>6. Total(wt) = Total(ws) + e
  <2>. HIDE DEF wt, ws, e
  <2>1. ws \in Seq(Int) /\ e \in Int
    BY <1>2, <1>3 DEF ws
  <2>. QED BY <1>5, <2>1, TotalOfMore
<1>7. Total(ws) \in Nat
  <2>. HIDE DEF ws, n
  <2>0. Len(ws) = n /\ n \in Nat
    BY <1>1, <1>3 DEF ws
  <2>1. n \in 0 .. Len(ws) /\ Len(ws) \in 0 .. Len(ws) /\ Len(ws) \in 0 .. Len(ws)
    BY <2>0
  <2>2. Total(SubSeq(ws, 1, Len(ws))) \in Nat
    BY <1>3, <2>1, PrefixTotals DEF ws
  <2>3. SubSeq(ws, 1, Len(ws)) = ws
    BY <1>3, PrefixEnds DEF ws
  <2>. QED BY <2>2, <2>3
<1>. QED BY <1>1, <1>2, <1>5, <1>6, <1>7, Zenon DEF t

Reads(data, at, left, n, s) ==
  Given(data, Cursor(at, left, <<>>), n) = Cursor(at + Total(Widths(s)), left - Total(Widths(s)), s)

GivenIs(data, at, left, n, s) ==
  /\ Len(s) = n /\ Reads(data, at, left, n, s)
  /\ at + Total(Widths(s)) - 1 <= Len(data)
  /\ \A trailer \in Seq(Byte), more \in Nat : Reads(data \o trailer, at, left + more, n, s)

(* All the sizes that could be taken.                                      *)
LEMMA GivenTaken ==
  ASSUME NEW data \in Seq(Byte), NEW at \in Nat \ {0}, NEW left \in Int, NEW n \in Nat,
         at - 1 <= Len(data), Given(data, Cursor(at, left, <<>>), n).ok
  PROVE  \E s \in Seq(0 .. MaxFrame) : GivenIs(data, at, left, n, s)
<1>. DEFINE start == Cursor(at, left, <<>>)
            T == {k \in Nat : Given(data, start, k).ok
                                => \E s \in Seq(0 .. MaxFrame) : GivenIs(data, at, left, k, s)}
<1>1. 0 \in T
  <2>. DEFINE s == <<>>
  <2>1. s \in Seq(0 .. MaxFrame) /\ Len(s) = 0
    OBVIOUS
  <2>2. Total(Widths(s)) = 0
    <3>1. Widths(s) \in Seq(Nat) /\ Len(Widths(s)) = 0
      BY <2>1, FieldWidths
    <3>2. Widths(s) = <<>>
      BY <3>1
    <3>. QED BY <3>2, TotalOfNone
  <2>. HIDE DEF s
  <2>3. at + Total(Widths(s)) = at /\ at + Total(Widths(s)) - 1 <= Len(data)
        /\ \A l \in Int : l - Total(Widths(s)) = l
    BY <2>2
  <2>4. \A d : \A l \in Int : Reads(d, at, l, 0, s)
    BY <2>3, GivenNone, Zenon DEF Reads, s
  <2>5. \A more \in Nat : left + more \in Int
    OBVIOUS
  <2>6. GivenIs(data, at, left, 0, s)
    BY <2>1, <2>3, <2>4, <2>5, Zenon DEF GivenIs
  <2>. QED BY <2>1, <2>6
<1>2. ASSUME NEW k \in Nat, k \in T PROVE k + 1 \in T
  <2>. SUFFICES ASSUME Given(data, start, k + 1).ok
                PROVE  \E s \in Seq(0 .. MaxFrame) : GivenIs(data, at, left, k + 1, s)
    OBVIOUS
  <2>. DEFINE m == k + 1
  <2>1. m \in Nat \ {0} /\ m - 1 = k
    OBVIOUS
  <2>. HIDE DEF m
  <2>2. \A d, st : Given(d, st, m) = TakeSize(d, Given(d, st, k))
    <3>. SUFFICES ASSUME NEW d, NEW st PROVE Given(d, st, m) = TakeSize(d, Given(d, st, k))
      OBVIOUS
    <3>. QED BY <2>1, GivenOneMore
  <2>3. Given(data, start, k).ok
    <3>. DEFINE g == Given(data, start, k)
    <3>1. TakeSize(data, g).ok
      BY <2>2, Zenon DEF m
    <3>. HIDE DEF g
    <3>2. g.ok
      <4>. SUFFICES ASSUME ~g.ok PROVE FALSE
        OBVIOUS
      <4>1. TakeSize(data, g) = Malformed
        BY DEF TakeSize
      <4>. QED BY <3>1, <4>1 DEF Malformed
    <3>. QED BY <3>2 DEF g
  <2>4. PICK s \in Seq(0 .. MaxFrame) : GivenIs(data, at, left, k, s)
    BY <1>2, <2>3
  <2>. DEFINE w == Total(Widths(s))
              a == at + w
              l == left - w
  <2>5. w \in Nat
    <3>1. 0 \in 0 .. MaxFrame
      BY MaxFrameNat
    <3>. QED BY <3>1, WidthOfMore
  <2>. HIDE DEF w
  <2>6. a \in Nat \ {0} /\ l \in Int
    BY <2>5
  <2>7. Given(data, start, k) = Cursor(a, l, s)
    BY <2>4, Zenon DEF GivenIs, Reads, w
  <2>8. TakeSize(data, Cursor(a, l, s)).ok
    BY <2>2, <2>7, Zenon DEF m
  <2>. HIDE DEF a, l
  <2>9. PICK x \in 0 .. MaxFrame : StepIs(data, a, l, s, x)
    BY <2>6, <2>8, StepTaken
  <2>. DEFINE e == Len(EncodeSize(x))
              t == Append(s, x)
              v == Total(Widths(t))
  <2>10. /\ t \in Seq(0 .. MaxFrame) /\ Len(t) = Len(s) + 1 /\ v = w + e /\ e \in {1, 2}
    BY WidthOfMore DEF w
  <2>11. Len(t) = m
    BY <2>4, <2>10 DEF GivenIs, m
  <2>. HIDE DEF e, t, v
  <2>12. a + e = at + v /\ l - e = left - v
    BY <2>5, <2>10 DEF a, l
  <2>13. Reads(data, at, left, m, t)
    <3>1. Given(data, start, m) = Cursor(a + e, l - e, t)
      <4>1. Given(data, start, m) = TakeSize(data, Given(data, start, k))
        BY <2>2
      <4>2. TakeSize(data, Cursor(a, l, s)) = Cursor(a + e, l - e, t)
        BY <2>9, Zenon DEF StepIs, e, t
      <4>. HIDE DEF start
      <4>. QED BY <2>7, <4>1, <4>2, Zenon
    <3>. QED BY <2>12, <3>1, Zenon DEF Reads, v
  <2>14. at + v - 1 <= Len(data)
    <3>1. a + e - 1 <= Len(data) /\ a \in Int /\ e \in Int /\ at \in Int /\ v \in Int
      BY <2>5, <2>6, <2>9, <2>10 DEF StepIs, e
    <3>. DEFINE y == a + e
    <3>2. y - 1 = (at + v) - 1 /\ y - 1 <= Len(data)
      <4>1. a + e - 1 = y - 1 
        BY ONLY <3>1
      <4>. QED BY <2>12, <3>1, <4>1
    <3>3. (at + v) - 1 = at + v - 1
      BY ONLY <3>1
    <3>. HIDE DEF y
    <3>. QED BY <3>2, <3>3
  <2>15. ASSUME NEW trailer \in Seq(Byte), NEW more \in Nat
         PROVE  Reads(data \o trailer, at, left + more, m, t)
    <3>. DEFINE d == data \o trailer
                j == left + more
    <3>1. Reads(d, at, j, k, s)
      BY <2>4 DEF GivenIs
    <3>2. TakeSize(d, Cursor(a, l + more, s)) = Cursor(a + e, (l + more) - e, t)
      BY <2>9, Zenon DEF StepIs, e, t
    <3>3. j - w = l + more /\ (l + more) - e = j - v
      BY <2>5, <2>10 DEF l
    <3>. HIDE DEF d, j
    <3>4. Given(d, Cursor(at, j, <<>>), k) = Cursor(a, l + more, s)
      BY <3>1, <3>3, Zenon DEF Reads, w, a
    <3>5. Given(d, Cursor(at, j, <<>>), m) = Cursor(at + v, j - v, t)
      BY <2>2, <2>12, <3>2, <3>3, <3>4, Zenon
    <3>. QED BY <3>5, Zenon DEF Reads, v, d, j
  <2>16. GivenIs(data, at, left, m, t)
    BY <2>11, <2>13, <2>14, <2>15, Zenon DEF GivenIs, v
  <2>. QED BY <2>10, <2>16 DEF m
<1>3. n \in T
  <2>. HIDE DEF T
  <2>. QED BY <1>1, <1>2, Induction
<1>. QED BY <1>3

(* The least of a set.                                                     *)
LEMMA MinIs ==
  ASSUME NEW T, T \subseteq Int, NEW x \in T, \A y \in T : x <= y
  PROVE  Min(T) = x
<1>1. \A m \in T : (\A y \in T : m <= y) => m = x
  OBVIOUS
<1>. QED BY <1>1 DEF Min

(* Where the padding's length ends is where it ends in a longer packet.    *)
PaddingIs(data, at, left) ==
  /\ at \in Nat /\ at >= 4 /\ left \in Int /\ at - 1 <= Len(data) /\ (at - 1) + left <= Len(data)
  /\ Padding(data) = Cursor(at, left, <<>>)
  /\ \A trailer \in Seq(Byte) : Padding(data \o trailer) = Cursor(at, left + Len(trailer), <<>>)

LEMMA PaddingTaken ==
  ASSUME NEW data \in Seq(Byte), Padding(data).ok
  PROVE  \E at, left : PaddingIs(data, at, left)
<1>. DEFINE Ends(d) == {i \in 3 .. Len(d) : d[i] # Base - 1}
            Read(d, last) == [ok |-> TRUE, at |-> last + 1, sizes |-> <<>>,
                              left |-> Len(d) - 2 - (last - 3) * (Base - 1) - 1 - d[last]]
<1>0. Len(data) \in Nat /\ Base \in Nat /\ Base - 1 \in Nat \ {0} /\ Base > 1
  BY ByteAssumption
<1>1. \A d : Padding(d) = IF Ends(d) = {} THEN Malformed ELSE Read(d, Min(Ends(d)))
  BY DEF Padding
<1>2. Ends(data) # {}
  <2>. SUFFICES ASSUME Ends(data) = {} PROVE FALSE
    OBVIOUS
  <2>1. Padding(data) = Malformed
    BY <1>1
  <2>. QED BY <2>1 DEF Malformed
<1>3. PICK last \in Ends(data) : \A i \in Ends(data) : last <= i
  <2>1. Ends(data) \subseteq Nat
    BY <1>0
  <2>. HIDE DEF Ends
  <2>. QED BY <1>2, <2>1, LeastNumber
<1>. DEFINE byte == data[last]
            gone == (last - 3) * (Base - 1)
            at == last + 1
            left == Len(data) - 2 - gone - 1 - byte
<1>4. last \in Nat /\ last >= 3 /\ last <= Len(data) /\ last \in 1 .. Len(data)
  BY <1>0, <1>3
<1>5. byte \in Nat
  BY <1>0, <1>4 DEF Byte
<1>6. gone \in Nat /\ gone >= last - 3
  <2>1. \A a, b \in Nat : b # 0 => a * b \in Nat /\ a * b >= a
    OBVIOUS
  <2>2. last - 3 \in Nat
    BY <1>4
  <2>. QED BY <1>0, <2>1, <2>2
<1>7. /\ Ends(data) \subseteq Int /\ last \in Ends(data)
  BY <1>0
<1>8. Padding(data) = Read(data, last)
  <2>1. Min(Ends(data)) = last
    <3>. HIDE DEF Ends
    <3>. QED BY <1>3, <1>7, MinIs
  <2>. HIDE DEF Ends, Read
  <2>. QED BY <1>1, <1>2, <2>1
<1>9. ASSUME NEW trailer \in Seq(Byte)
      PROVE  LET long == data \o trailer
             IN Padding(long) = Read(long, last) /\ long[last] = byte /\ Len(long) = Len(data) + Len(trailer)
                /\ Len(trailer) \in Nat
  <2>. DEFINE long == data \o trailer
  <2>1. /\ Len(long) = Len(data) + Len(trailer) /\ Len(trailer) \in Nat
        /\ \A j \in 1 .. Len(data) : long[j] = data[j]
    BY JoinOfTwo
  <2>. HIDE DEF long
  <2>2. last \in Ends(long)
    <3>1. last \in 3 .. Len(long) /\ long[last] = data[last]
      BY <1>0, <1>4, <2>1
    <3>. QED BY <1>3, <3>1
  <2>3. ASSUME NEW i \in Ends(long) PROVE last <= i
    <3>1. CASE i <= Len(data)
      <4>1. i \in 1 .. Len(data)
        BY <1>0, <3>1
      <4>2. i \in Ends(data)
        BY <1>0, <2>1, <2>3, <3>1, <4>1
      <4>. QED BY <1>3, <4>2
    <3>2. CASE ~(i <= Len(data))
      BY <1>0, <1>4, <3>2
    <3>. QED BY <3>1, <3>2
  <2>4. Ends(long) \subseteq Int /\ Ends(long) # {}
    BY <1>0, <2>1, <2>2
  <2>5. Min(Ends(long)) = last
    <3>. HIDE DEF Ends
    <3>. QED BY <2>2, <2>3, <2>4, MinIs
  <2>6. Padding(long) = Read(long, last)
    <3>. HIDE DEF Ends, Read
    <3>. QED BY <1>1, <2>4, <2>5
  <2>. QED BY <1>4, <2>1, <2>6 DEF long
<1>. HIDE DEF Ends, byte, gone
<1>10. Padding(data) = Cursor(at, left, <<>>)
  BY <1>8 DEF Cursor, byte, gone
<1>11. ASSUME NEW trailer \in Seq(Byte)
       PROVE  Padding(data \o trailer) = Cursor(at, left + Len(trailer), <<>>)
  <2>. DEFINE long == data \o trailer
              m == Len(trailer)
              n == Len(data)
  <2>1. Padding(long) = Read(long, last) /\ long[last] = byte /\ Len(long) = n + m /\ m \in Nat
    BY <1>9
  <2>. HIDE DEF long, m, n
  <2>2. Len(long) - 2 - gone - 1 - long[last] = left + m
    <3>1. (n + m) - 2 - gone - 1 - byte = (n - 2 - gone - 1 - byte) + m
      <4>1. n \in Nat /\ m \in Nat /\ gone \in Nat /\ byte \in Nat
        BY <1>0, <1>5, <1>6, <2>1 DEF n
      <4>. QED BY ONLY <4>1
    <3>. QED BY <2>1, <3>1 DEF n
  <2>3. Padding(long) = [ok |-> TRUE, at |-> at, sizes |-> <<>>,
                         left |-> Len(long) - 2 - gone - 1 - long[last]]
    BY <2>1, Zenon DEF gone
  <2>4. Padding(long) = [ok |-> TRUE, at |-> at, left |-> left + m, sizes |-> <<>>]
    <3>. HIDE DEF at, left
    <3>. QED BY <2>2, <2>3
  <2>. QED BY <2>4, Zenon DEF Cursor, long, m
<1>12. at \in Nat /\ at >= 4 /\ left \in Int /\ at - 1 <= Len(data) /\ (at - 1) + left <= Len(data)
  <2>. DEFINE n == Len(data)
  <2>. HIDE DEF n
  <2>1. n \in Nat /\ last \in Nat /\ last >= 3 /\ last <= n /\ gone \in Nat /\ gone >= last - 3 /\ byte \in Nat
    BY <1>0, <1>4, <1>5, <1>6 DEF n
  <2>2. /\ last + 1 \in Nat /\ last + 1 >= 4 /\ n - 2 - gone - 1 - byte \in Int /\ (last + 1) - 1 <= n
        /\ ((last + 1) - 1) + (n - 2 - gone - 1 - byte) <= n
    BY ONLY <2>1
  <2>. QED BY <2>2 DEF n
<1>. HIDE DEF at, left
<1>13. PaddingIs(data, at, left)
  BY <1>10, <1>11, <1>12, Zenon DEF PaddingIs
<1>. QED BY <1>13

StartsAs(data, long) ==
  /\ long[1] = data[1] /\ FrameCount(long) = FrameCount(data)
  /\ ConstantSize(long) <=> ConstantSize(data)

HeaderIs(data, at, left) ==
  /\ at \in Nat /\ at >= 2 /\ left \in Int /\ at - 1 <= Len(data) /\ (at - 1) + left <= Len(data)
  /\ Header(data) = Cursor(at, left, <<>>)
  /\ FrameCount(data) \in Nat \ {0} /\ ConfigOf(data[1]) \in DOMAIN Spans
  /\ FrameCount(data) * Spans[ConfigOf(data[1])] <= MaxSpan
  /\ \A trailer \in Seq(Byte) :
       /\ Header(data \o trailer) = Cursor(at, left + Len(trailer), <<>>)
       /\ StartsAs(data, data \o trailer)

(* What the first byte of any packet tells.                                *)
LEMMA TocOf ==
  ASSUME NEW byte \in Byte
  PROVE  /\ CodeOf(byte) \in 0 .. 3 /\ ConfigOf(byte) \in DOMAIN Spans
         /\ Spans[ConfigOf(byte)] \in Nat \ {0} /\ 2 * Spans[ConfigOf(byte)] <= MaxSpan
<1>. DEFINE c == byte \div 4
            r == byte % 4
            q == Base \div 4
<1>1. Base \in Nat /\ Base % 4 = 0
  BY ByteAssumption
<1>2. q \in Nat /\ Base = 4 * q
  BY <1>1
<1>3. byte \in Nat /\ byte < 4 * q
  BY <1>1, <1>2 DEF Byte
<1>4. c \in Nat /\ r \in 0 .. 3 /\ byte = 4 * c + r
  BY <1>3
<1>. HIDE DEF c, r, q
<1>5. c \in 0 .. q - 1
  BY <1>2, <1>3, <1>4
<1>6. DOMAIN Spans = 0 .. q - 1 /\ \A k \in 0 .. q - 1 : Spans[k] \in Nat \ {0} /\ 2 * Spans[k] <= MaxSpan
  BY SpanAssumption DEF q
<1>. QED BY <1>4, <1>5, <1>6 DEF CodeOf, ConfigOf, c, r

(* A header that could be read.                                            *)
LEMMA HeaderTaken ==
  ASSUME NEW data \in Seq(Byte), Header(data).ok
  PROVE  \E at, left : HeaderIs(data, at, left)
<1>. DEFINE toc == data[1]
            code == CodeOf(toc)
            config == ConfigOf(toc)
            n == FrameCount(data)
<1>0. Len(data) \in Nat /\ ~Malformed.ok
  BY DEF Malformed
<1>1. data # <<>> /\ Len(data) >= 1 /\ toc \in Byte
  <2>1. data # <<>>
    BY <1>0, Zenon DEF Header
  <2>2. Len(data) >= 1
    BY <1>0, <2>1
  <2>. QED BY <2>1, <2>2
<1>2. /\ code \in 0 .. 3 /\ config \in DOMAIN Spans /\ Spans[config] \in Nat \ {0}
      /\ 2 * Spans[config] <= MaxSpan
  BY <1>1, TocOf
<1>3. ASSUME NEW trailer \in Seq(Byte)
      PROVE  LET long == data \o trailer
             IN /\ long # <<>> /\ long[1] = toc /\ Len(long) = Len(data) + Len(trailer)
                /\ Len(trailer) \in Nat /\ (Len(data) >= 2 => long[2] = data[2])
  <2>. DEFINE long == data \o trailer
  <2>1. /\ long \in Seq(Byte) /\ Len(long) = Len(data) + Len(trailer) /\ Len(trailer) \in Nat
        /\ \A j \in 1 .. Len(data) : long[j] = data[j]
    BY JoinOfTwo
  <2>. HIDE DEF long
  <2>2. long # <<>>
    BY <1>0, <1>1, <2>1
  <2>. QED BY <1>0, <1>1, <2>1, <2>2 DEF long
<1>. HIDE DEF code, config, toc
<1>4. CASE code # 3
  <2>1. n \in {1, 2}
    BY <1>2, <1>4 DEF FrameCount, code, toc
  <2>2. n \in Nat \ {0} /\ n * Spans[config] <= MaxSpan
    <3>. DEFINE s == Spans[config]
    <3>1. s \in Nat \ {0} /\ 2 * s <= MaxSpan /\ MaxSpan \in Nat
      BY <1>2, SpanAssumption
    <3>. HIDE DEF s, n
    <3>2. n * s <= MaxSpan
      BY <2>1, <3>1
    <3>. QED BY <2>1, <3>2 DEF s
  <2>3. Header(data) = Cursor(2, Len(data) - 1, <<>>)
    BY <1>1, <1>4, Zenon DEF Header, Cursor, code, toc
  <2>. HIDE DEF n
  <2>4. ASSUME NEW trailer \in Seq(Byte)
        PROVE  /\ Header(data \o trailer) = Cursor(2, (Len(data) - 1) + Len(trailer), <<>>)
               /\ StartsAs(data, data \o trailer)
    <3>. DEFINE long == data \o trailer
    <3>1. /\ long # <<>> /\ long[1] = toc /\ Len(long) = Len(data) + Len(trailer) /\ Len(trailer) \in Nat
      BY <1>3
    <3>. HIDE DEF long
    <3>2. Header(long) = Cursor(2, Len(long) - 1, <<>>)
      BY <1>4, <3>1, Zenon DEF Header, Cursor, code
    <3>3. Len(long) - 1 = (Len(data) - 1) + Len(trailer)
      BY <1>0, <3>1
    <3>4. FrameCount(long) = FrameCount(data)
      BY <1>2, <1>4, <3>1 DEF FrameCount, code, toc
    <3>5. ConstantSize(long) <=> ConstantSize(data)
      BY <1>4, <3>1 DEF ConstantSize, code, toc
    <3>. QED BY <3>1, <3>2, <3>3, <3>4, <3>5, Zenon DEF StartsAs, long, toc
  <2>5. Len(data) - 1 \in Int /\ 2 - 1 <= Len(data) /\ (2 - 1) + (Len(data) - 1) <= Len(data)
    BY <1>0, <1>1
  <2>6. 2 \in Nat /\ 2 >= 2
    OBVIOUS
  <2>7. HeaderIs(data, 2, Len(data) - 1)
    BY <1>2, <2>2, <2>3, <2>4, <2>5, <2>6, Zenon DEF HeaderIs, n, config, toc
  <2>. QED BY <2>7
<1>5. CASE code = 3
  <2>1. HasFrameCount(data) /\ ~(Spans[config] * n > MaxSpan)
    BY <1>0, <1>1, <1>5, Zenon DEF Header, code, config, toc
  <2>2. Len(data) >= 2 /\ CountOf(data[2]) # 0 /\ n = CountOf(data[2])
    BY <1>5, <2>1 DEF HasFrameCount, FrameCount, code, toc
  <2>. DEFINE byte == data[2]
  <2>3. byte \in Nat
    BY <1>0, <2>2, ByteAssumption DEF Byte
  <2>4. n \in Nat \ {0} /\ n * Spans[config] <= MaxSpan
    <3>. DEFINE s == Spans[config]
    <3>1. s \in Nat \ {0} /\ MaxSpan \in Nat
      BY <1>2, SpanAssumption
    <3>2. PadFlag \in Nat \ {0}
      BY ByteAssumption DEF PadFlag
    <3>3. n \in Nat
      <4>. HIDE DEF byte
      <4>1. byte % PadFlag \in Nat
        BY <2>3, <3>2
      <4>. QED BY <2>2, <4>1 DEF CountOf, byte
    <3>. HIDE DEF s, n
    <3>4. s * n = n * s /\ n * s \in Nat
      BY <3>1, <3>3
    <3>. DEFINE x == n * s
    <3>5. x \in Nat /\ ~(x > MaxSpan)
      BY <2>1, <3>4 DEF s
    <3>. HIDE DEF x
    <3>6. x <= MaxSpan
      BY <3>1, <3>5
    <3>. QED BY <2>2, <3>3, <3>6 DEF x, s
  <2>. HIDE DEF n
  <2>5. ASSUME NEW trailer \in Seq(Byte)
        PROVE  LET long == data \o trailer
               IN /\ StartsAs(data, long)
                  /\ Header(long) = IF HasPadding(byte) THEN Padding(long)
                                    ELSE Cursor(3, Len(long) - 2, <<>>)
                  /\ Len(long) = Len(data) + Len(trailer) /\ Len(trailer) \in Nat
    <3>. DEFINE long == data \o trailer
    <3>1. /\ long # <<>> /\ long[1] = toc /\ Len(long) = Len(data) + Len(trailer) /\ Len(trailer) \in Nat
          /\ long[2] = byte
      BY <1>3, <2>2
    <3>. HIDE DEF long
    <3>2. FrameCount(long) = n
      BY <1>5, <2>2, <3>1 DEF FrameCount, code
    <3>3. ConstantSize(long) <=> ConstantSize(data)
      BY <1>5, <3>1 DEF ConstantSize, code, toc
    <3>4. HasFrameCount(long)
      BY <1>0, <2>2, <3>1 DEF HasFrameCount
    <3>5. Header(long) = IF HasPadding(byte) THEN Padding(long) ELSE Cursor(3, Len(long) - 2, <<>>)
      BY <1>5, <2>1, <3>1, <3>2, <3>4, Zenon DEF Header, Cursor, code, config
    <3>. QED BY <3>1, <3>2, <3>3, <3>5, Zenon DEF StartsAs, long, n, toc
  <2>6. Header(data) = IF HasPadding(byte) THEN Padding(data) ELSE Cursor(3, Len(data) - 2, <<>>)
    BY <1>1, <1>5, <2>1, Zenon DEF Header, Cursor, code, config, toc, n
  <2>. HIDE DEF byte
  <2>7. CASE HasPadding(byte)
    <3>1. Padding(data).ok
      BY <2>6, <2>7
    <3>2. PICK at, left : PaddingIs(data, at, left)
      BY <3>1, PaddingTaken
    <3>3. ASSUME NEW trailer \in Seq(Byte)
          PROVE  /\ Header(data \o trailer) = Cursor(at, left + Len(trailer), <<>>)
                 /\ StartsAs(data, data \o trailer)
      BY <2>5, <2>7, <3>2, Zenon DEF PaddingIs
    <3>4. /\ at \in Nat /\ at >= 4 /\ left \in Int /\ at - 1 <= Len(data) /\ (at - 1) + left <= Len(data)
          /\ Header(data) = Cursor(at, left, <<>>)
      BY <2>6, <2>7, <3>2, Zenon DEF PaddingIs
    <3>5. at >= 2
      BY <3>4
    <3>6. HeaderIs(data, at, left)
      BY <1>2, <2>4, <3>3, <3>4, <3>5, Zenon DEF HeaderIs, n, config, toc
    <3>. QED BY <3>6
  <2>8. CASE ~HasPadding(byte)
    <3>1. ASSUME NEW trailer \in Seq(Byte)
          PROVE  /\ Header(data \o trailer) = Cursor(3, (Len(data) - 2) + Len(trailer), <<>>)
                 /\ StartsAs(data, data \o trailer)
      <4>. DEFINE long == data \o trailer
      <4>1. /\ Header(long) = Cursor(3, Len(long) - 2, <<>>) /\ StartsAs(data, long)
            /\ Len(long) = Len(data) + Len(trailer) /\ Len(trailer) \in Nat
        BY <2>5, <2>8, Zenon
      <4>. HIDE DEF long
      <4>2. Len(long) - 2 = (Len(data) - 2) + Len(trailer)
        BY <1>0, <4>1
      <4>. QED BY <4>1, <4>2, Zenon DEF long
    <3>2. Len(data) - 2 \in Int /\ 3 - 1 <= Len(data) /\ (3 - 1) + (Len(data) - 2) <= Len(data)
      BY <1>0, <2>2
    <3>3. 3 \in Nat /\ 3 >= 2
      OBVIOUS
    <3>4. Header(data) = Cursor(3, Len(data) - 2, <<>>)
      BY <2>6, <2>8, Zenon
    <3>5. HeaderIs(data, 3, Len(data) - 2)
      BY <1>2, <2>4, <3>1, <3>2, <3>3, <3>4, Zenon DEF HeaderIs, n, config, toc
    <3>. QED BY <3>5
  <2>. QED BY <2>7, <2>8
<1>. QED BY <1>4, <1>5

(***************************************************************************)
(* The sizes, by the form and the code of the packet.                      *)
(***************************************************************************)
SizesAre(data, selfd, at, left, s) ==
  /\ AllSizes(data, Header(data), selfd) = Cursor(at, left, s)
  /\ s \in Seq(0 .. MaxFrame) /\ Len(s) = FrameCount(data)
  /\ at \in Nat \ {0} /\ left \in Int /\ (at - 1) + Total(s) <= Len(data)

(* What the sizes and their fields come to is what the packet has.         *)
FillUp(data, s) ==
  /\ 1 + Total(s) <= Len(data)
  /\ \/ \A i \in 1 .. Len(s) : s[i] = s[1]
     \/ 1 + Before(Widths(s), Len(s)) + Total(s) <= Len(data)

(* The sizes of a packet are read after its header.                        *)
LEMMA HeaderFirst ==
  ASSUME NEW data, NEW selfd \in BOOLEAN, AllSizes(data, Header(data), selfd).ok
  PROVE  /\ Header(data).ok /\ ~(Header(data).left < 0)
         /\ AllSizes(data, Header(data), selfd)
              = IF selfd THEN DelimitedSizes(data, Header(data), FrameCount(data))
                ELSE PlainSizes(data, Header(data), FrameCount(data))
<1>. DEFINE start == Header(data)
<1>1. ~Malformed.ok
  BY DEF Malformed
<1>. HIDE DEF start
<1>2. AllSizes(data, start, selfd) =
        IF ~start.ok \/ start.left < 0 THEN Malformed
        ELSE IF selfd THEN DelimitedSizes(data, start, FrameCount(data))
        ELSE PlainSizes(data, start, FrameCount(data))
  BY Zenon DEF AllSizes
<1>3. ~(~start.ok \/ start.left < 0)
  BY <1>1, <1>2, Zenon DEF start
<1>. QED BY <1>2, <1>3, Zenon DEF start

(* Sizes all alike.                                                        *)
LEMMA Alike ==
  ASSUME NEW n \in Nat \ {0}, NEW size \in 0 .. MaxFrame
  PROVE  LET s == [i \in 1 .. n |-> size]
         IN /\ s \in Seq(0 .. MaxFrame) /\ Len(s) = n /\ Total(s) = n * size
            /\ \A i \in 1 .. n : s[i] = s[1]
<1>. DEFINE s == [i \in 1 .. n |-> size]
<1>1. size \in Nat /\ s \in Seq(0 .. MaxFrame) /\ s \in Seq(Nat) /\ Len(s) = n
      /\ \A i \in 1 .. n : s[i] = size
  BY MaxFrameNat
<1>2. \A i \in 1 .. Len(s) : s[i] = size
  BY <1>1
<1>3. 1 \in 1 .. n
  OBVIOUS
<1>. HIDE DEF s
<1>4. Total(s) = Len(s) * size
  BY <1>1, <1>2, TotalOfSame
<1>. QED BY <1>1, <1>3, <1>4 DEF s

(* The sizes of a packet that fills its data.                              *)
LEMMA PlainTaken ==
  ASSUME NEW data \in Seq(Byte), AllSizes(data, Header(data), FALSE).ok
  PROVE  \E at, left, s : SizesAre(data, FALSE, at, left, s) /\ FillUp(data, s)
<1>. DEFINE n == FrameCount(data)
<1>1. /\ Header(data).ok /\ ~(Header(data).left < 0)
      /\ AllSizes(data, Header(data), FALSE) = PlainSizes(data, Header(data), n)
  BY HeaderFirst
<1>2. PICK a, l : HeaderIs(data, a, l)
  BY <1>1, HeaderTaken
<1>. DEFINE start == Cursor(a, l, <<>>)
            m == Len(data)
<1>3. /\ a \in Nat /\ a >= 2 /\ l \in Int /\ a - 1 <= m /\ (a - 1) + l <= m
      /\ Header(data) = start /\ n \in Nat \ {0} /\ m \in Nat
  <2>1. m \in Nat
    OBVIOUS
  <2>. HIDE DEF start, m, n
  <2>2. /\ a \in Nat /\ a >= 2 /\ l \in Int /\ a - 1 <= m /\ (a - 1) + l <= m
        /\ Header(data) = start /\ n \in Nat \ {0}
    BY <1>2, Zenon DEF HeaderIs, start, m, n
  <2>. QED BY <2>1, <2>2
<1>4. start.ok /\ start.at = a /\ start.left = l /\ start.sizes = <<>>
  BY CursorFields
<1>5. l >= 0
  <2>1. ~(l < 0)
    BY <1>1, <1>3, <1>4, Zenon
  <2>. QED BY <1>3, <2>1
<1>6. PlainSizes(data, start, n).ok /\ AllSizes(data, Header(data), FALSE) = PlainSizes(data, start, n)
  BY <1>1, <1>3
<1>7. ~Malformed.ok
  BY DEF Malformed
<1>. HIDE DEF n, m
<1>8. CASE ConstantSize(data)
  <2>. DEFINE size == l \div n
              s == [i \in 1 .. n |-> size]
  <2>1. size \in Nat
    <3>1. l \in Nat /\ n \in Nat \ {0}
      BY <1>3, <1>5
    <3>. QED BY <3>1, Division
  <2>. HIDE DEF size
  <2>2. Divided(start, n) = IF size * n # l \/ size > MaxFrame THEN Malformed
                            ELSE Sized(start, s)
    <3>. HIDE DEF start
    <3>. QED BY <1>4, Zenon DEF Divided, Sized, size
  <2>3. ~(size * n # l \/ size > MaxFrame)
    <3>1. Divided(start, n).ok
      BY <1>6, <1>8 DEF PlainSizes
    <3>. HIDE DEF s, start
    <3>. QED BY <1>7, <2>2, <3>1, Zenon
  <2>4. size \in 0 .. MaxFrame
    BY <2>1, <2>3, MaxFrameNat
  <2>5. s \in Seq(0 .. MaxFrame) /\ Len(s) = n /\ Total(s) = n * size /\ \A i \in 1 .. n : s[i] = s[1]
    BY <1>3, <2>4, Alike
  <2>6. n * size = l
    BY <1>3, <2>1, <2>3
  <2>. HIDE DEF s
  <2>7. AllSizes(data, Header(data), FALSE) = Cursor(a, l, s)
    <3>1. PlainSizes(data, start, n) = Sized(start, s)
      <4>. HIDE DEF start
      <4>. QED BY <1>8, <2>2, <2>3, Zenon DEF PlainSizes
    <3>. QED BY <1>6, <3>1, CursorSized
  <2>. DEFINE t == Total(s)
  <2>8. t = l
    BY <2>5, <2>6
  <2>9. (a - 1) + t <= m /\ 1 + t <= m /\ a \in Nat \ {0}
    <3>. HIDE DEF t
    <3>. QED BY <1>3, <2>8
  <2>10. SizesAre(data, FALSE, a, l, s)
    BY <1>3, <2>5, <2>7, <2>9, Zenon DEF SizesAre, n, m
  <2>11. FillUp(data, s)
    BY <2>5, <2>9, Zenon DEF FillUp, m
  <2>. QED BY <2>10, <2>11
<1>9. CASE ~ConstantSize(data)
  <2>. DEFINE g == Given(data, start, n - 1)
              size == g.left - Total(g.sizes)
  <2>1. PlainSizes(data, start, n) = Remainder(g)
    BY <1>9 DEF PlainSizes
  <2>2. Remainder(g) = IF ~g.ok \/ size < 0 \/ size > MaxFrame THEN Malformed
                       ELSE Sized(g, Append(g.sizes, size))
    <3>. HIDE DEF g
    <3>. QED BY Zenon DEF Remainder, Sized
  <2>3. g.ok /\ ~(size < 0) /\ ~(size > MaxFrame)
    <3>. HIDE DEF g, size, start
    <3>. QED BY <1>6, <1>7, <2>1, <2>2, Zenon
  <2>4. n - 1 \in Nat /\ a \in Nat \ {0}
    BY <1>3
  <2>5. PICK s0 \in Seq(0 .. MaxFrame) : GivenIs(data, a, l, n - 1, s0)
    <3>1. a - 1 <= Len(data)
      BY <1>3 DEF m
    <3>. QED BY <1>3, <2>3, <2>4, <3>1, GivenTaken
  <2>. DEFINE w == Total(Widths(s0))
              t == Total(s0)
              s == Append(s0, size)
  <2>6. g = Cursor(a + w, l - w, s0) /\ Len(s0) = n - 1
    BY <2>5, Zenon DEF GivenIs, Reads
  <2>7. w \in Nat /\ t \in Nat /\ s0 \in Seq(Nat)
    <3>1. 0 \in 0 .. MaxFrame
      BY MaxFrameNat
    <3>2. w \in Nat
      BY <3>1, WidthOfMore
    <3>3. s0 \in Seq(Nat)
      BY MaxFrameNat
    <3>4. t \in Nat
      <4>1. Len(s0) \in 0 .. Len(s0)
        BY <3>3, Elements
      <4>2. Total(SubSeq(s0, 1, Len(s0))) \in Nat
        BY <3>3, <4>1, PrefixTotals
      <4>. QED BY <3>3, <4>2, PrefixEnds
    <3>. QED BY <3>2, <3>3, <3>4
  <2>8. size = (l - w) - t
    <3>1. g.left = l - w /\ g.sizes = s0
      <4>. DEFINE b == a + w
                  j == l - w
      <4>. HIDE DEF b, j, g
      <4>1. g = Cursor(b, j, s0)
        BY <2>6 DEF b, j
      <4>2. g.left = j /\ g.sizes = s0
        BY <4>1, CursorFields
      <4>. QED BY <4>2 DEF j
    <3>. HIDE DEF g
    <3>. QED BY <3>1
  <2>. HIDE DEF w, t
  <2>9. size \in 0 .. MaxFrame /\ size \in Nat
    <3>. DEFINE z == size
    <3>1. z \in Int
      <4>. HIDE DEF size
      <4>. QED BY <1>3, <2>7, <2>8
    <3>. HIDE DEF size
    <3>. QED BY <2>3, <3>1, MaxFrameNat
  <2>. HIDE DEF size
  <2>10. /\ s \in Seq(0 .. MaxFrame) /\ Len(s) = Len(s0) + 1
         /\ Widths(s) = Append(Widths(s0), Len(EncodeSize(size)))
    BY <2>9, WidthOfMore
  <2>11. Len(s) = n
    BY <1>3, <2>6, <2>10
  <2>12. Total(s) = t + size
    <3>1. s0 \in Seq(Int) /\ size \in Int
      BY <2>7, <2>9
    <3>. QED BY <3>1, TotalOfMore DEF t
  <2>13. Before(Widths(s), Len(s)) = w
    <3>. DEFINE ws == Widths(s0)
                e == Len(EncodeSize(size))
    <3>1. ws \in Seq(Nat) /\ Len(ws) = n - 1
      BY <2>6, FieldWidths
    <3>2. e \in Nat
      BY <2>9, WidthOfMore
    <3>. HIDE DEF ws, e
    <3>3. SubSeq(Append(ws, e), 1, n - 1) = ws
      BY <1>3, <3>1, <3>2
    <3>4. Before(Widths(s), Len(s)) = Total(SubSeq(Append(ws, e), 1, n - 1))
      BY <2>10, <2>11, Zenon DEF Before, ws, e
    <3>. QED BY <3>3, <3>4 DEF w, ws
  <2>14. AllSizes(data, Header(data), FALSE) = Cursor(a + w, l - w, s)
    <3>1. g.sizes = s0
      <4>. DEFINE b == a + w
                  j == l - w
      <4>. HIDE DEF b, j, g
      <4>1. g = Cursor(b, j, s0)
        BY <2>6 DEF b, j
      <4>. QED BY <4>1, CursorFields
    <3>2. Remainder(g) = Sized(g, s)
      <4>. HIDE DEF g
      <4>. QED BY <2>2, <2>3, <3>1, Zenon DEF s
    <3>3. Sized(Cursor(a + w, l - w, s0), s) = Cursor(a + w, l - w, s)
      BY CursorSized
    <3>. HIDE DEF g, start, s
    <3>. QED BY <1>6, <2>1, <2>6, <3>2, <3>3, Zenon
  <2>. DEFINE total == Total(s)
  <2>15. /\ a + w \in Nat \ {0} /\ l - w \in Int /\ ((a + w) - 1) + total <= m
         /\ 1 + total <= m /\ (1 + w) + total <= m
    <3>1. total = t + size
      BY <2>12
    <3>. HIDE DEF total
    <3>2. /\ a \in Nat /\ a >= 2 /\ l \in Int /\ (a - 1) + l <= m /\ m \in Nat
          /\ w \in Nat /\ t \in Nat /\ size \in Nat /\ size = (l - w) - t
      BY <1>3, <2>7, <2>8, <2>9
    <3>. QED BY ONLY <3>1, <3>2
  <2>. HIDE DEF s
  <2>16. SizesAre(data, FALSE, a + w, l - w, s)
    BY <2>10, <2>11, <2>14, <2>15, Zenon DEF SizesAre, n, m
  <2>17. FillUp(data, s)
    <3>1. 1 + Before(Widths(s), Len(s)) + Total(s) <= Len(data)
      BY <2>13, <2>15, Zenon DEF m
    <3>. QED BY <2>15, <3>1, Zenon DEF FillUp, m
  <2>. QED BY <2>16, <2>17
<1>. QED BY <1>8, <1>9

LEMMA TotalIsNat ==
  ASSUME NEW s \in Seq(0 .. MaxFrame)
  PROVE  Total(s) \in Nat /\ s \in Seq(Nat) /\ Total(Widths(s)) \in Nat
<1>1. s \in Seq(Nat)
  BY MaxFrameNat
<1>2. Len(s) \in 0 .. Len(s)
  BY <1>1, Elements
<1>3. Total(SubSeq(s, 1, Len(s))) \in Nat
  BY <1>1, <1>2, PrefixTotals
<1>4. 0 \in 0 .. MaxFrame
  BY MaxFrameNat
<1>5. Total(Widths(s)) \in Nat
  BY <1>4, WidthOfMore
<1>. QED BY <1>1, <1>3, <1>5, PrefixEnds

(* The sizes of a self-delimited packet are read alike whatever follows it.*)
LongerIs(data, at, left, s) ==
  \A trailer \in Seq(Byte) :
    AllSizes(data \o trailer, Header(data \o trailer), TRUE) = Cursor(at, left + Len(trailer), s)

LEMMA DelimitedTaken ==
  ASSUME NEW data \in Seq(Byte), AllSizes(data, Header(data), TRUE).ok
  PROVE  \E at, left, s : SizesAre(data, TRUE, at, left, s) /\ LongerIs(data, at, left, s)
<1>. DEFINE n == FrameCount(data)
<1>1. /\ Header(data).ok /\ ~(Header(data).left < 0)
      /\ AllSizes(data, Header(data), TRUE) = DelimitedSizes(data, Header(data), n)
  BY HeaderFirst
<1>2. PICK a, l : HeaderIs(data, a, l)
  BY <1>1, HeaderTaken
<1>. DEFINE start == Cursor(a, l, <<>>)
            m == Len(data)
<1>3. /\ a \in Nat /\ a >= 2 /\ l \in Int /\ a - 1 <= m /\ (a - 1) + l <= m
      /\ Header(data) = start /\ n \in Nat \ {0} /\ m \in Nat
  <2>1. m \in Nat
    OBVIOUS
  <2>. HIDE DEF start, m, n
  <2>2. /\ a \in Nat /\ a >= 2 /\ l \in Int /\ a - 1 <= m /\ (a - 1) + l <= m
        /\ Header(data) = start /\ n \in Nat \ {0}
    BY <1>2, Zenon DEF HeaderIs, start, m, n
  <2>. QED BY <2>1, <2>2
<1>4. start.ok /\ start.at = a /\ start.left = l /\ start.sizes = <<>>
  BY CursorFields
<1>5. l >= 0
  <2>1. ~(l < 0)
    BY <1>1, <1>3, <1>4, Zenon
  <2>. QED BY <1>3, <2>1
<1>6. DelimitedSizes(data, start, n).ok /\ AllSizes(data, Header(data), TRUE) = DelimitedSizes(data, start, n)
  BY <1>1, <1>3
<1>7. ~Malformed.ok
  BY DEF Malformed
<1>. HIDE DEF n, m
<1>a. a \in Nat \ {0}
  BY <1>3
<1>b. ASSUME NEW trailer \in Seq(Byte)
      PROVE  LET long == data \o trailer
                 more == Len(trailer)
             IN /\ AllSizes(long, Header(long), TRUE) = DelimitedSizes(long, Cursor(a, l + more, <<>>), n)
                /\ (ConstantSize(long) <=> ConstantSize(data))
                /\ more \in Nat
  <2>. DEFINE long == data \o trailer
              more == Len(trailer)
  <2>1. more \in Nat
    OBVIOUS
  <2>2. /\ Header(long) = Cursor(a, l + more, <<>>) /\ FrameCount(long) = n
        /\ (ConstantSize(long) <=> ConstantSize(data))
    BY <1>2, Zenon DEF HeaderIs, StartsAs, n
  <2>. HIDE DEF long, more
  <2>3. l + more \in Int /\ ~(l + more < 0)
    BY <1>3, <1>5, <2>1
  <2>. DEFINE j == l + more
              other == Cursor(a, j, <<>>)
  <2>. HIDE DEF j
  <2>4. other.ok /\ other.left = j
    BY CursorFields
  <2>. HIDE DEF other
  <2>5. Header(long) = other /\ ~(j < 0)
    BY <2>2, <2>3 DEF other, j
  <2>6. AllSizes(long, Header(long), TRUE) = DelimitedSizes(long, other, n)
    BY <2>2, <2>4, <2>5, Zenon DEF AllSizes
  <2>. QED BY <2>1, <2>2, <2>6, Zenon DEF long, more, other, j
<1>8. CASE ConstantSize(data)
  <2>. DEFINE one == TakeSize(data, start)
  <2>1. DelimitedSizes(data, start, n) = Repeated(one, n)
    BY <1>8 DEF DelimitedSizes
  <2>2. one.ok
    <3>. HIDE DEF one, start
    <3>. QED BY <1>6, <1>7, <2>1, Zenon DEF Repeated
  <2>3. PICK size \in 0 .. MaxFrame : StepIs(data, a, l, <<>>, size)
    BY <1>3, <1>a, <2>2, StepTaken
  <2>. DEFINE w == Len(EncodeSize(size))
              s == [i \in 1 .. n |-> size]
              held == Append(<<>>, size)
  <2>4. one = Cursor(a + w, l - w, held) /\ w \in {1, 2}
    BY <2>3, Zenon DEF StepIs
  <2>5. held[1] = size /\ size \in Nat
    BY MaxFrameNat
  <2>6. s \in Seq(0 .. MaxFrame) /\ Len(s) = n /\ Total(s) = n * size
    BY <1>3, Alike
  <2>. HIDE DEF w, held
  <2>7. ASSUME NEW b, NEW j \in Int
        PROVE  Repeated(Cursor(b, j, held), n) = IF size * n > j THEN Malformed ELSE Cursor(b, j, s)
    <3>. DEFINE c == Cursor(b, j, held)
    <3>1. c.ok /\ c.left = j /\ c.sizes = held
      BY CursorFields
    <3>. HIDE DEF c
    <3>2. Repeated(c, n) = IF size * n > j THEN Malformed ELSE Sized(c, s)
      <4>1. c.sizes[1] = size
        BY <2>5, <3>1
      <4>. QED BY <3>1, <4>1, Zenon DEF Repeated, Sized
    <3>. QED BY <3>2, CursorSized DEF c
  <2>8. l - w \in Int /\ ~(size * n > l - w)
    <3>1. l - w \in Int
      BY <1>3, <2>4
    <3>2. Repeated(Cursor(a + w, l - w, held), n).ok
      <4>. HIDE DEF one
      <4>. QED BY <1>6, <2>1, <2>4
    <3>. DEFINE j == l - w
    <3>. HIDE DEF j, s
    <3>3. Repeated(Cursor(a + w, j, held), n) = IF size * n > j THEN Malformed ELSE Cursor(a + w, j, s)
      BY <2>7, <3>1 DEF j
    <3>4. ~(size * n > j)
      BY <1>7, <3>2, <3>3, Zenon DEF j
    <3>. QED BY <3>1, <3>4 DEF j
  <2>9. DelimitedSizes(data, start, n) = Cursor(a + w, l - w, s)
    <3>. HIDE DEF one, start, s
    <3>1. Repeated(Cursor(a + w, l - w, held), n)
            = IF size * n > l - w THEN Malformed ELSE Cursor(a + w, l - w, s)
      BY <2>7, <2>8
    <3>. QED BY <2>1, <2>4, <2>8, <3>1, Zenon
  <2>. DEFINE total == Total(s)
  <2>10. a + w \in Nat \ {0} /\ (a + w) - 1 + total <= m /\ ((a + w) - 1) + total <= m
    <3>. DEFINE x == n * size
    <3>1. x \in Int /\ x <= l - w
      <4>1. x \in Int /\ size * n = x
        BY <1>3, <2>5
      <4>. HIDE DEF x
      <4>2. ~(x > l - w) /\ l - w \in Int
        BY <2>8, <4>1
      <4>. QED BY <4>1, <4>2
    <3>2. total = x
      BY <2>6
    <3>. HIDE DEF x, total
    <3>3. a \in Nat /\ a >= 2 /\ l \in Int /\ (a - 1) + l <= m /\ m \in Nat /\ w \in Nat
      BY <1>3, <2>4
    <3>. QED BY ONLY <3>1, <3>2, <3>3
  <2>. HIDE DEF s
  <2>11. SizesAre(data, TRUE, a + w, l - w, s)
    BY <1>6, <2>6, <2>8, <2>9, <2>10, Zenon DEF SizesAre, n, m
  <2>12. ASSUME NEW trailer \in Seq(Byte)
         PROVE  AllSizes(data \o trailer, Header(data \o trailer), TRUE)
                  = Cursor(a + w, (l - w) + Len(trailer), s)
    <3>. DEFINE long == data \o trailer
                more == Len(trailer)
                j == (l + more) - w
    <3>1. /\ AllSizes(long, Header(long), TRUE) = DelimitedSizes(long, Cursor(a, l + more, <<>>), n)
          /\ ConstantSize(long) /\ more \in Nat
      BY <1>8, <1>b, Zenon
    <3>2. TakeSize(long, Cursor(a, l + more, <<>>)) = Cursor(a + w, j, held)
      BY <2>3, <3>1, Zenon DEF StepIs, w, held
    <3>. HIDE DEF more, long
    <3>3. j \in Int /\ j = (l - w) + more /\ ~(size * n > j)
      <4>1. w \in Nat /\ l \in Int /\ more \in Nat
        BY <1>3, <2>4, <3>1
      <4>. DEFINE x == size * n
      <4>2. x \in Int
        BY <1>3, <2>5
      <4>3. ~(x > l - w)
        BY <2>8
      <4>. HIDE DEF x
      <4>4. (l + more) - w \in Int /\ (l + more) - w = (l - w) + more /\ ~(x > (l + more) - w)
        BY ONLY <4>1, <4>2, <4>3
      <4>. QED BY <4>4 DEF x
    <3>. HIDE DEF j
    <3>4. Repeated(Cursor(a + w, j, held), n) = Cursor(a + w, j, s)
      <4>1. Repeated(Cursor(a + w, j, held), n) = IF size * n > j THEN Malformed ELSE Cursor(a + w, j, s)
        BY <2>7, <3>3
      <4>. QED BY <3>3, <4>1, Zenon
    <3>5. DelimitedSizes(long, Cursor(a, l + more, <<>>), n) = Cursor(a + w, j, s)
      BY <3>1, <3>2, <3>4, Zenon DEF DelimitedSizes
    <3>. QED BY <3>1, <3>3, <3>5, Zenon DEF long, more
  <2>13. LongerIs(data, a + w, l - w, s)
    BY <2>12, Zenon DEF LongerIs
  <2>. QED BY <2>11, <2>13
<1>9. CASE ~ConstantSize(data)
  <2>. DEFINE g == Given(data, start, n)
  <2>1. DelimitedSizes(data, start, n) = Within(g)
    BY <1>9 DEF DelimitedSizes
  <2>2. g.ok /\ ~(Total(g.sizes) > g.left) /\ Within(g) = g
    <3>. HIDE DEF g, start
    <3>. QED BY <1>6, <1>7, <2>1, Zenon DEF Within
  <2>3. n \in Nat /\ a - 1 <= Len(data)
    BY <1>3 DEF m
  <2>4. PICK s \in Seq(0 .. MaxFrame) : GivenIs(data, a, l, n, s)
    BY <1>3, <1>a, <2>2, <2>3, GivenTaken
  <2>. DEFINE w == Total(Widths(s))
              t == Total(s)
  <2>5. g = Cursor(a + w, l - w, s) /\ Len(s) = n
    BY <2>4, Zenon DEF GivenIs, Reads
  <2>6. w \in Nat /\ t \in Nat
    BY TotalIsNat
  <2>. HIDE DEF w
  <2>7. ~(t > l - w)
    <3>. DEFINE b == a + w
                j == l - w
    <3>. HIDE DEF b, j, g
    <3>1. g = Cursor(b, j, s)
      BY <2>5 DEF b, j
    <3>2. g.left = j /\ g.sizes = s
      BY <3>1, CursorFields
    <3>. QED BY <2>2, <3>2 DEF j
  <2>. HIDE DEF t
  <2>8. /\ a + w \in Nat \ {0} /\ l - w \in Int /\ ((a + w) - 1) + t <= m
    BY <1>3, <2>6, <2>7
  <2>9. AllSizes(data, Header(data), TRUE) = Cursor(a + w, l - w, s)
    <3>. HIDE DEF g, start
    <3>. QED BY <1>6, <2>1, <2>2, <2>5, Zenon
  <2>10. SizesAre(data, TRUE, a + w, l - w, s)
    BY <2>5, <2>8, <2>9, Zenon DEF SizesAre, n, m, t
  <2>11. ASSUME NEW trailer \in Seq(Byte)
         PROVE  AllSizes(data \o trailer, Header(data \o trailer), TRUE)
                  = Cursor(a + w, (l - w) + Len(trailer), s)
    <3>. DEFINE long == data \o trailer
                more == Len(trailer)
                j == (l + more) - w
                h == Cursor(a + w, j, s)
    <3>1. /\ AllSizes(long, Header(long), TRUE) = DelimitedSizes(long, Cursor(a, l + more, <<>>), n)
          /\ ~ConstantSize(long) /\ more \in Nat
      BY <1>9, <1>b, Zenon
    <3>2. Given(long, Cursor(a, l + more, <<>>), n) = h
      BY <2>4, <3>1, Zenon DEF GivenIs, Reads, w
    <3>. HIDE DEF more, long
    <3>3. j \in Int /\ j = (l - w) + more /\ ~(t > j)
      BY <1>3, <2>6, <2>7, <3>1
    <3>. HIDE DEF j
    <3>4. h.ok /\ h.left = j /\ h.sizes = s
      BY CursorFields
    <3>5. ~(Total(h.sizes) > h.left)
      BY <3>3, <3>4, Zenon DEF t
    <3>. HIDE DEF h
    <3>6. DelimitedSizes(long, Cursor(a, l + more, <<>>), n) = h
      BY <3>1, <3>2, <3>4, <3>5, Zenon DEF DelimitedSizes, Within
    <3>. QED BY <3>1, <3>3, <3>6, Zenon DEF long, more, h
  <2>12. LongerIs(data, a + w, l - w, s)
    BY <2>11, Zenon DEF LongerIs
  <2>. QED BY <2>10, <2>12
<1>. QED BY <1>8, <1>9

(* A piece is the same piece of something longer.                          *)
LEMMA PieceOf ==
  ASSUME NEW S, NEW data \in Seq(S), NEW from \in Nat \ {0}, NEW k \in Nat,
         (from + k) - 1 <= Len(data)
  PROVE  /\ SubSeq(data, from, (from + k) - 1) \in Seq(S)
         /\ Len(SubSeq(data, from, (from + k) - 1)) = k
         /\ \A trailer \in Seq(S) :
              SubSeq(data \o trailer, from, (from + k) - 1) = SubSeq(data, from, (from + k) - 1)
<1>. DEFINE to == (from + k) - 1
<1>1. to \in Nat /\ from <= to + 1 /\ to <= Len(data) /\ Len(data) \in Nat /\ to - from + 1 = k
  OBVIOUS
<1>2. SubSeq(data, from, to) \in Seq(S) /\ Len(SubSeq(data, from, to)) = k
  <2>. HIDE DEF to
  <2>1. \A i \in from .. to : i \in 1 .. Len(data)
    BY <1>1
  <2>. QED BY <1>1, <2>1
<1>3. ASSUME NEW trailer \in Seq(S)
      PROVE  SubSeq(data \o trailer, from, to) = SubSeq(data, from, to)
  <2>. DEFINE long == data \o trailer
  <2>1. /\ long \in Seq(S) /\ Len(long) = Len(data) + Len(trailer) /\ Len(trailer) \in Nat
        /\ \A j \in 1 .. Len(data) : long[j] = data[j]
    BY JoinOfTwo
  <2>. HIDE DEF long, to
  <2>2. SubSeq(long, from, to) = [i \in 1 .. (to - from) + 1 |-> long[(from + i) - 1]]
        /\ SubSeq(data, from, to) = [i \in 1 .. (to - from) + 1 |-> data[(from + i) - 1]]
    BY <1>1, <2>1
  <2>3. \A i \in 1 .. (to - from) + 1 : (from + i) - 1 \in 1 .. Len(data)
    BY <1>1
  <2>4. \A i \in 1 .. (to - from) + 1 : long[(from + i) - 1] = data[(from + i) - 1]
    BY <2>1, <2>3
  <2>5. [i \in 1 .. (to - from) + 1 |-> long[(from + i) - 1]]
          = [i \in 1 .. (to - from) + 1 |-> data[(from + i) - 1]]
    BY <2>4, Zenon
  <2>. QED BY <2>2, <2>5, Zenon DEF long
<1>. QED BY <1>2, <1>3

(* What parse_packet makes of sizes that lie within the packet.            *)
CutIs(data, at, left, s) ==
  LET cut == Cut(data, Cursor(at, left, s))
  IN /\ cut.ok /\ cut.config = ConfigOf(data[1])
     /\ cut.frames \in Seq(Seq(Byte)) /\ Len(cut.frames) = Len(s) /\ Sizes(cut.frames) = s
     /\ cut.consumed = at - 1 + Total(s)
     /\ \A trailer \in Seq(Byte), j \in Int :
          (data \o trailer)[1] = data[1] => Cut(data \o trailer, Cursor(at, j, s)) = cut

LEMMA CutTaken ==
  ASSUME NEW data \in Seq(Byte), NEW at \in Nat \ {0}, NEW left \in Int, NEW s \in Seq(0 .. MaxFrame),
         (at - 1) + Total(s) <= Len(data)
  PROVE  CutIs(data, at, left, s)
<1>. DEFINE n == Len(s)
            from(i) == at + Before(s, i)
            Frames(d) == [i \in 1 .. n |-> SubSeq(d, from(i), from(i) + s[i] - 1)]
            total == Total(s)
<1>1. /\ n \in Nat /\ total \in Nat /\ s \in Seq(Nat) /\ DOMAIN s = 1 .. n
      /\ \A i \in 1 .. n : s[i] \in 0 .. MaxFrame /\ s[i] \in Nat
  BY TotalIsNat, MaxFrameNat
<1>2. ASSUME NEW i \in 1 .. n
      PROVE  /\ from(i) \in Nat \ {0} /\ s[i] \in Nat /\ (from(i) + s[i]) - 1 <= Len(data)
             /\ from(i) + s[i] - 1 = (from(i) + s[i]) - 1
  <2>. DEFINE b == Before(s, i)
              u == Total(SubSeq(s, 1, i))
              f == from(i)
              z == s[i]
  <2>1. u = b + z
    BY <1>1, PrefixGrows DEF Before
  <2>2. i \in 0 .. n /\ i - 1 \in 0 .. n /\ n \in 0 .. n /\ i \in 0 .. i /\ i - 1 \in 0 .. i
    BY <1>1
  <2>3. b \in Nat /\ u <= Total(SubSeq(s, 1, n)) /\ u \in Nat
    <3>1. b \in Nat
      BY <1>1, <2>2, PrefixTotals DEF Before
    <3>2. u \in Nat /\ u <= Total(SubSeq(s, 1, n))
      BY <1>1, <2>2, PrefixTotals
    <3>. QED BY <3>1, <3>2
  <2>4. Total(SubSeq(s, 1, n)) = total
    BY <1>1, PrefixEnds
  <2>5. z \in Nat
    BY <1>1
  <2>6. u <= total
    BY <2>3, <2>4
  <2>. HIDE DEF b, u, z, total
  <2>7. at + b \in Nat \ {0} /\ ((at + b) + z) - 1 <= Len(data) /\ (at + b) + z - 1 = ((at + b) + z) - 1
    <3>1. Len(data) \in Nat /\ (at - 1) + total <= Len(data) /\ total \in Nat
      BY <1>1 DEF total
    <3>. QED BY <2>1, <2>3, <2>5, <2>6, <3>1
  <2>. QED BY <2>5, <2>7 DEF b, z
<1>. HIDE DEF from, total
<1>3. ASSUME NEW d, NEW j
      PROVE  Cut(d, Cursor(at, j, s)) = [ok |-> TRUE, config |-> ConfigOf(d[1]), frames |-> Frames(d),
                                         consumed |-> at - 1 + Total(s)]
  <2>. DEFINE read == Cursor(at, j, s)
  <2>1. read.ok /\ read.at = at /\ read.sizes = s
    BY CursorFields
  <2>. HIDE DEF read, n
  <2>2. Cut(d, read) = [ok |-> TRUE, config |-> ConfigOf(d[1]),
                        frames |-> [i \in DOMAIN s |-> SubSeq(d, from(i), from(i) + s[i] - 1)],
                        consumed |-> at - 1 + Total(s)]
    BY <2>1, Zenon DEF Cut, Before, from
  <2>. QED BY <1>1, <2>2 DEF read
<1>4. ASSUME NEW i \in 1 .. n
      PROVE  /\ Frames(data)[i] \in Seq(Byte) /\ Len(Frames(data)[i]) = s[i]
             /\ \A trailer \in Seq(Byte) : Frames(data \o trailer)[i] = Frames(data)[i]
  <2>. DEFINE f == from(i)
              z == s[i]
  <2>1. f \in Nat \ {0} /\ z \in Nat /\ (f + z) - 1 <= Len(data) /\ f + z - 1 = (f + z) - 1
    BY <1>2
  <2>2. \A d : Frames(d)[i] = SubSeq(d, f, (f + z) - 1)
    BY <2>1
  <2>. HIDE DEF f, z, Frames
  <2>3. /\ SubSeq(data, f, (f + z) - 1) \in Seq(Byte) /\ Len(SubSeq(data, f, (f + z) - 1)) = z
        /\ \A trailer \in Seq(Byte) :
             SubSeq(data \o trailer, f, (f + z) - 1) = SubSeq(data, f, (f + z) - 1)
    BY <2>1, PieceOf
  <2>. QED BY <2>2, <2>3, Zenon DEF z
<1>. DEFINE frames == Frames(data)
<1>5. frames \in Seq(Seq(Byte)) /\ Len(frames) = n /\ DOMAIN frames = 1 .. n
  <2>. DEFINE part(i) == SubSeq(data, from(i), from(i) + s[i] - 1)
  <2>1. \A i \in 1 .. n : part(i) \in Seq(Byte)
    BY <1>4
  <2>. HIDE DEF part, n
  <2>2. [i \in 1 .. n |-> part(i)] \in Seq(Seq(Byte)) /\ Len([i \in 1 .. n |-> part(i)]) = n
    BY <1>1, <2>1
  <2>3. DOMAIN [i \in 1 .. n |-> part(i)] = 1 .. n
    OBVIOUS
  <2>. QED BY <2>2, <2>3 DEF part
<1>6. Sizes(frames) = s
  <2>. HIDE DEF frames
  <2>1. Sizes(frames) = [i \in 1 .. n |-> s[i]]
    BY <1>4, <1>5 DEF Sizes, frames
  <2>. QED BY <1>1, <2>1
<1>7. ASSUME NEW trailer \in Seq(Byte) PROVE Frames(data \o trailer) = frames
  <2>. DEFINE part(d, i) == SubSeq(d, from(i), from(i) + s[i] - 1)
  <2>1. \A i \in 1 .. n : part(data \o trailer, i) = part(data, i)
    BY <1>4
  <2>. HIDE DEF part, n
  <2>2. [i \in 1 .. n |-> part(data \o trailer, i)] = [i \in 1 .. n |-> part(data, i)]
    BY <2>1, Zenon
  <2>. QED BY <2>2 DEF part
<1>. DEFINE cut == Cut(data, Cursor(at, left, s))
            total0 == at - 1 + Total(s)
            config == ConfigOf(data[1])
            yes == TRUE
<1>. HIDE DEF frames, Frames
<1>8. cut.ok /\ cut.config = config /\ cut.frames = frames /\ cut.consumed = total0
  <2>. HIDE DEF config, total0, yes
  <2>1. cut = [ok |-> yes, config |-> config, frames |-> frames, consumed |-> total0]
    BY <1>3, Zenon DEF frames, config, total0, yes
  <2>. HIDE DEF cut
  <2>2. cut.ok = yes /\ cut.config = config /\ cut.frames = frames /\ cut.consumed = total0
    BY <2>1
  <2>. QED BY <2>2 DEF yes
<1>9. ASSUME NEW trailer \in Seq(Byte), NEW j \in Int, (data \o trailer)[1] = data[1]
      PROVE  Cut(data \o trailer, Cursor(at, j, s)) = cut
  <2>1. Frames(data \o trailer) = frames
    BY <1>7
  <2>. QED BY <1>3, <1>9, <2>1, Zenon DEF frames
<1>. HIDE DEF n, cut
<1>. QED BY <1>5, <1>6, <1>8, <1>9, Zenon DEF CutIs, cut, n, config, total0

(* What a packet parses to can be put in a packet again.                   *)
ParsedWell(data, selfd, at, left, s) ==
  /\ SizesAre(data, selfd, at, left, s) /\ CutIs(data, at, left, s)
  /\ ParsePacket(data, selfd) = Cut(data, Cursor(at, left, s))
  /\ ParsePacket(data, selfd).config = ConfigOf(data[1])
  /\ Sizes(ParsePacket(data, selfd).frames) = s
  /\ Len(ParsePacket(data, selfd).frames) = FrameCount(data)
  /\ FitFrames(ParsePacket(data, selfd).config, ParsePacket(data, selfd).frames)

LEMMA ReadFirst ==
  ASSUME NEW data, NEW selfd, ParsePacket(data, selfd).ok
  PROVE  AllSizes(data, Header(data), selfd).ok
<1>. DEFINE read == AllSizes(data, Header(data), selfd)
<1>. SUFFICES ASSUME ~read.ok PROVE FALSE
  OBVIOUS
<1>. DEFINE none == [ok |-> FALSE, config |-> 0, frames |-> <<>>, consumed |-> 0]
<1>1. ParsePacket(data, selfd) = none
  <2>. HIDE DEF read
  <2>1. Cut(data, read) = none
    BY Zenon DEF Cut
  <2>. QED BY <2>1, Zenon DEF ParsePacket, read
<1>. QED BY <1>1

(* The sizes of a packet that parses, in either form.                      *)
LEMMA SizesTaken ==
  ASSUME NEW data \in Seq(Byte), NEW selfd \in BOOLEAN, AllSizes(data, Header(data), selfd).ok
  PROVE  \E at, left, s : /\ SizesAre(data, selfd, at, left, s)
                          /\ selfd => LongerIs(data, at, left, s)
                          /\ ~selfd => FillUp(data, s)
<1>1. CASE selfd
  <2>1. AllSizes(data, Header(data), TRUE).ok
    BY <1>1
  <2>2. \E at, left, s : SizesAre(data, TRUE, at, left, s) /\ LongerIs(data, at, left, s)
    BY <2>1, DelimitedTaken
  <2>. QED BY <1>1, <2>2
<1>2. CASE ~selfd
  <2>1. AllSizes(data, Header(data), FALSE).ok
    BY <1>2
  <2>2. \E at, left, s : SizesAre(data, FALSE, at, left, s) /\ FillUp(data, s)
    BY <2>1, PlainTaken
  <2>. QED BY <1>2, <2>2
<1>. QED BY <1>1, <1>2

(* Its frames make up a packet.                                            *)
LEMMA ParsedIsFit ==
  ASSUME NEW data \in Seq(Byte), NEW selfd \in BOOLEAN, ParsePacket(data, selfd).ok
  PROVE  \E at, left, s : /\ ParsedWell(data, selfd, at, left, s)
                          /\ selfd => LongerIs(data, at, left, s)
                          /\ ~selfd => FillUp(data, s)
<1>1. AllSizes(data, Header(data), selfd).ok
  BY ReadFirst
<1>2. PICK at, left, s : /\ SizesAre(data, selfd, at, left, s)
                         /\ selfd => LongerIs(data, at, left, s)
                         /\ ~selfd => FillUp(data, s)
  BY <1>1, SizesTaken
<1>3. Header(data).ok
  BY <1>1, HeaderFirst
<1>4. PICK a, l : HeaderIs(data, a, l)
  BY <1>3, HeaderTaken
<1>. DEFINE parsed == ParsePacket(data, selfd)
            fs == parsed.frames
            n == FrameCount(data)
<1>5. /\ AllSizes(data, Header(data), selfd) = Cursor(at, left, s)
      /\ s \in Seq(0 .. MaxFrame) /\ Len(s) = n
      /\ at \in Nat \ {0} /\ left \in Int /\ (at - 1) + Total(s) <= Len(data)
  BY <1>2, Zenon DEF SizesAre
<1>6. CutIs(data, at, left, s)
  BY <1>5, CutTaken
<1>7. parsed = Cut(data, Cursor(at, left, s))
  BY <1>5, Zenon DEF ParsePacket
<1>. HIDE DEF parsed, n
<1>8. /\ parsed.config = ConfigOf(data[1])
      /\ fs \in Seq(Seq(Byte)) /\ Len(fs) = n /\ Sizes(fs) = s
  BY <1>5, <1>6, <1>7, Zenon DEF CutIs
<1>9. /\ n \in Nat \ {0} /\ ConfigOf(data[1]) \in DOMAIN Spans
      /\ n * Spans[ConfigOf(data[1])] <= MaxSpan
  BY <1>4, Zenon DEF HeaderIs, n
<1>. HIDE DEF fs
<1>10. FitFrames(parsed.config, fs)
  <2>1. \A i \in 1 .. Len(fs) : Len(fs[i]) <= MaxFrame
    <3>. SUFFICES ASSUME NEW i \in 1 .. n PROVE Len(fs[i]) <= MaxFrame
      BY <1>8
    <3>1. Sizes(fs)[i] = Len(fs[i])
      BY <1>8 DEF Sizes
    <3>2. s[i] \in 0 .. MaxFrame
      BY <1>5, Elements
    <3>. QED BY <1>8, <3>1, <3>2, MaxFrameNat
  <2>2. Len(fs) # 0
    BY <1>8, <1>9
  <2>. QED BY <1>8, <1>9, <2>1, <2>2, Zenon DEF FitFrames
<1>11. ParsedWell(data, selfd, at, left, s)
  BY <1>2, <1>6, <1>7, <1>8, <1>10, Zenon DEF ParsedWell, parsed, fs, n
<1>. QED BY <1>2, <1>11

(* Put in a packet of its own with code 3, it is one byte longer at most.  *)
LEMMA PadFits ==
  ASSUME NEW data \in Seq(Byte), ParsePacket(data, FALSE).ok, NEW padTo \in Nat
  PROVE  LET fs == ParsePacket(data, FALSE).frames
         IN 1 + Len(GivenBytes(fs, padTo)) + Total(Sizes(fs)) <= Len(data)
<1>. DEFINE fs == ParsePacket(data, FALSE).frames
            c == ParsePacket(data, FALSE).config
            g == Len(GivenBytes(fs, padTo))
<1>1. PICK at, left, s : ParsedWell(data, FALSE, at, left, s) /\ FillUp(data, s)
  BY ParsedIsFit
<1>2. FitFrames(c, fs) /\ Sizes(fs) = s /\ s \in Seq(0 .. MaxFrame)
  BY <1>1, Zenon DEF ParsedWell, SizesAre
<1>. DEFINE t == Total(s)
            b == Before(Widths(s), Len(s))
            m == Len(data)
<1>3. 1 + t <= m /\ ((\A i \in 1 .. Len(s) : s[i] = s[1]) \/ 1 + b + t <= m)
  BY <1>1, Zenon DEF FillUp
<1>. HIDE DEF fs, c
<1>4. /\ ManySizes(fs, padTo) => g = Before(Widths(Sizes(fs)), Len(fs))
      /\ ~ManySizes(fs, padTo) => GivenBytes(fs, padTo) = <<>>
  BY <1>2, GivenParts
<1>5. ASSUME ManySizes(fs, padTo) PROVE 1 + g + t <= m
  <2>1. Varies(fs)
    BY <1>2, <1>5, CodeOfFrames DEF ManySizes
  <2>2. /\ Len(s) = Len(fs) /\ DOMAIN fs = 1 .. Len(fs) /\ Len(fs) \in Nat \ {0}
        /\ \A i \in 1 .. Len(fs) : s[i] = Len(fs[i])
    BY <1>2, SizesFit
  <2>3. 1 \in 1 .. Len(fs)
    BY <2>2
  <2>4. \E i \in 1 .. Len(s) : s[i] # s[1]
    BY <2>1, <2>2, <2>3 DEF Varies
  <2>5. g = b
    BY <1>2, <1>4, <1>5, <2>2
  <2>6. ~(\A i \in 1 .. Len(s) : s[i] = s[1])
    BY <2>4, Zenon
  <2>7. 1 + b + t <= m
    BY <1>3, <2>6, Zenon
  <2>. QED BY <2>5, <2>7, Zenon
<1>6. ASSUME ~ManySizes(fs, padTo) PROVE 1 + g + t <= m
  <2>1. g = 0
    BY <1>4, <1>6
  <2>2. t \in Nat
    BY <1>2, TotalIsNat
  <2>. HIDE DEF g, t
  <2>. QED BY <1>3, <2>1, <2>2
<1>7. 1 + g + t <= m
  BY <1>5, <1>6
<1>. QED BY <1>2, <1>7, Zenon DEF fs

(* A self-delimited packet parses alike whatever follows it.               *)
THEOREM WhateverFollows ==
  ASSUME NEW data \in Seq(Byte), ParsePacket(data, TRUE).ok, NEW trailer \in Seq(Byte)
  PROVE  ParsePacket(data \o trailer, TRUE) = ParsePacket(data, TRUE)
<1>1. PICK at, left, s : ParsedWell(data, TRUE, at, left, s) /\ LongerIs(data, at, left, s)
  BY ParsedIsFit
<1>. DEFINE long == data \o trailer
            j == left + Len(trailer)
<1>2. AllSizes(long, Header(long), TRUE) = Cursor(at, j, s)
  BY <1>1, Zenon DEF LongerIs
<1>3. j \in Int
  <2>1. left \in Int
    BY <1>1, Zenon DEF ParsedWell, SizesAre
  <2>. QED BY <2>1
<1>4. long[1] = data[1]
  <2>1. Header(data).ok
    BY ReadFirst, HeaderFirst
  <2>2. PICK a, l : HeaderIs(data, a, l)
    BY <2>1, HeaderTaken
  <2>. QED BY <2>2, Zenon DEF HeaderIs, StartsAs
<1>. HIDE DEF j
<1>5. Cut(long, Cursor(at, j, s)) = Cut(data, Cursor(at, left, s))
  BY <1>1, <1>3, <1>4, Zenon DEF ParsedWell, CutIs
<1>. QED BY <1>1, <1>2, <1>5, Zenon DEF ParsePacket, ParsedWell
=============================================================================
