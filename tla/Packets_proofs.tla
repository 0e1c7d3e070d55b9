--------------------------- MODULE Packets_proofs ----------------------------
(***************************************************************************)
(* Proofs about the callers of packets.  Of Repacketizer: whatever a       *)
(* caller does with a packet, its frames stay what they were and its       *)
(* length is the one promised.  Of Multistream: a packet moves all of its  *)
(* decoders or, up to the stream that fails, the first of them.            *)
(***************************************************************************)
EXTENDS Framing_proofs, Repacketizer, Multistream

(***************************************************************************)
(* The repacketizer.  How long its packets are.                            *)
(***************************************************************************)
LEMMA FieldIs ==
  ASSUME NEW size \in 0 .. MaxFrame
  PROVE  Len(EncodeSize(size)) = IF size < Short THEN 1 ELSE 2
BY DEF EncodeSize

(* A packet without padding is as short as packets of its frames get.      *)
LEMMA ShortestBody ==
  ASSUME NEW c, NEW fs, FitFrames(c, fs), NEW selfd \in BOOLEAN
  PROVE  BodyLength(c, fs, NoPadding, selfd) = Min(FramedLengths(Sizes(fs), selfd))
<1>. DEFINE s == Sizes(fs)
            n == Len(s)
            t == Total(s)
            equal == \A i \in DOMAIN s : s[i] = s[1]
            field(i) == IF s[i] < Short THEN 1 ELSE 2
            f == Total([i \in 1 .. n - 1 |-> field(i)])
            last == IF selfd THEN field(n) ELSE 0
            H == (IF n = 1 THEN {1} ELSE {}) \cup (IF equal THEN {2} ELSE {})
                   \cup (IF n = 2 THEN {1 + f} ELSE {})
                   \cup (IF n = 2 /\ equal THEN {1} ELSE {}) \cup {2 + f}
            h == Len(HeadBytes(c, fs, NoPadding))
            g == Len(GivenBytes(fs, NoPadding))
            w == Len(LastBytes(fs, selfd))
            code == Code(fs, NoPadding)
<1>1. /\ s \in Seq(0 .. MaxFrame) /\ n = Len(fs) /\ n \in Nat \ {0} /\ DOMAIN fs = 1 .. n
      /\ DOMAIN s = 1 .. n
      /\ \A i \in 1 .. n : s[i] = Len(fs[i]) /\ s[i] \in 0 .. MaxFrame
  <2>1. /\ s \in Seq(0 .. MaxFrame) /\ n = Len(fs) /\ n \in Nat \ {0} /\ DOMAIN fs = 1 .. n
        /\ \A i \in 1 .. n : s[i] = Len(fs[i])
    BY SizesFit
  <2>2. \A i \in 1 .. n : s[i] \in 0 .. MaxFrame
    BY <2>1, Elements
  <2>3. DOMAIN s = 1 .. n
    BY <2>1
  <2>. QED BY <2>1, <2>2, <2>3
<1>2. h \in Nat /\ g \in Nat /\ w \in Nat /\ t \in Nat
      /\ BodyLength(c, fs, NoPadding, selfd) = h + g + w + t
  BY BodyMeasured DEF BodyLength, NoPadding
<1>3. \A i \in 1 .. n : field(i) = Len(EncodeSize(s[i]))
  BY <1>1, FieldIs
<1>4. f = Before(Widths(s), n) /\ f \in Nat
  <2>1. /\ Widths(s) \in Seq(Nat) /\ Len(Widths(s)) = n
        /\ \A i \in 1 .. n : Widths(s)[i] = Len(EncodeSize(s[i]))
    BY <1>1, FieldWidths
  <2>. DEFINE ws == Widths(s)
              fields == [i \in 1 .. n - 1 |-> field(i)]
  <2>2. fields = [i \in 1 .. n - 1 |-> ws[i]]
    <3>1. \A i \in 1 .. n - 1 : field(i) = ws[i]
      <4>1. \A i \in 1 .. n - 1 : i \in 1 .. n
        BY <1>1
      <4>. QED BY <1>3, <2>1, <4>1
    <3>. HIDE DEF field, ws, n
    <3>. QED BY <3>1, Zenon
  <2>. HIDE DEF ws, fields, n
  <2>3. SubSeq(ws, 1, n - 1) = [i \in 1 .. n - 1 |-> ws[i]]
    BY <1>1, <2>1 DEF ws
  <2>4. f = Before(ws, n)
    BY <2>2, <2>3, Zenon DEF Before, fields
  <2>5. n - 1 \in 0 .. Len(ws) /\ Len(ws) \in 0 .. Len(ws) /\ n - 1 \in 0 .. n - 1
    BY <1>1, <2>1 DEF ws
  <2>6. Before(ws, n) \in Nat
    BY <2>1, <2>5, PrefixTotals DEF Before, ws
  <2>. QED BY <2>4, <2>6 DEF ws
<1>5. last = w
  <2>1. CASE selfd
    <3>1. n \in 1 .. n
      BY <1>1
    <3>2. last = Len(EncodeSize(Len(fs[Len(fs)])))
      BY <1>1, <1>3, <2>1, <3>1
    <3>. QED BY <2>1, <3>2, Zenon DEF LastBytes
  <2>2. CASE ~selfd
    BY <2>2 DEF LastBytes
  <2>. QED BY <2>1, <2>2
<1>6. /\ code \in 0 .. 3
      /\ code = 0 <=> n = 1
      /\ code = 3 <=> n > 2
      /\ code = 1 <=> n = 2 /\ equal
      /\ Varies(fs) <=> ~equal
  <2>1. Varies(fs) <=> ~equal
    <3>1. 1 \in 1 .. n
      BY <1>1
    <3>. QED BY <1>1, <3>1 DEF Varies
  <2>2. (\A i \in DOMAIN fs : Len(fs[i]) = Len(fs[1])) <=> equal
    BY <2>1, Zenon DEF Varies
  <2>. HIDE DEF equal, n
  <2>3. code = IF n > 2 THEN 3 ELSE IF n = 1 THEN 0 ELSE IF equal THEN 1 ELSE 2
    BY <1>1, <2>2, Zenon DEF Code
  <2>. HIDE DEF code
  <2>. QED BY <1>1, <2>1, <2>3
<1>7. /\ code # 3 => h = 1
      /\ code = 3 => h = 2
  <2>1. Extra(fs, NoPadding) = 0
    BY EmittedLength DEF NoPadding
  <2>. QED BY <2>1, HeadPart DEF NoPadding
<1>8. /\ ManySizes(fs, NoPadding) => g = f
      /\ ~ManySizes(fs, NoPadding) => g = 0
  <2>1. /\ ManySizes(fs, NoPadding) => g = Before(Widths(s), Len(fs))
        /\ ~ManySizes(fs, NoPadding) => GivenBytes(fs, NoPadding) = <<>>
    BY GivenParts DEF NoPadding
  <2>2. Len(<<>>) = 0
    OBVIOUS
  <2>. QED BY <1>1, <1>4, <2>1, <2>2, Zenon
<1>9. ManySizes(fs, NoPadding) <=> n >= 2 /\ ~equal
  <2>. HIDE DEF equal, code, n
  <2>1. ManySizes(fs, NoPadding) <=> code = 2 \/ (code = 3 /\ ~equal)
    BY <1>6, Zenon DEF ManySizes, code
  <2>. QED BY <1>1, <1>6, <2>1
<1>10. n = 1 => equal
  BY <1>1
<1>. HIDE DEF n, t, equal, f, h, g, w, code, last
<1>11. FramedLengths(Sizes(fs), selfd) = {last + t + k : k \in H}
  BY Zenon DEF FramedLengths, n, t, equal, f, last
<1>. DEFINE m == h + g
<1>12. m \in H /\ \A k \in H : k \in Nat /\ m <= k
  <2>1. CASE n = 1
    <3>1. m = 1
      BY <1>2, <1>6, <1>7, <1>8, <1>9, <2>1
    <3>. HIDE DEF m
    <3>. QED BY <1>4, <2>1, <3>1
  <2>2. CASE n = 2 /\ equal
    <3>1. m = 1
      BY <1>2, <1>6, <1>7, <1>8, <1>9, <2>2
    <3>. HIDE DEF m
    <3>. QED BY <1>4, <2>2, <3>1
  <2>3. CASE n = 2 /\ ~equal
    <3>1. m = 1 + f
      BY <1>2, <1>6, <1>7, <1>8, <1>9, <2>3
    <3>. HIDE DEF m
    <3>. QED BY <1>4, <2>3, <3>1
  <2>4. CASE n > 2 /\ equal
    <3>1. m = 2
      BY <1>1, <1>2, <1>6, <1>7, <1>8, <1>9, <2>4
    <3>. HIDE DEF m
    <3>. QED BY <1>1, <1>4, <2>4, <3>1
  <2>5. CASE n > 2 /\ ~equal
    <3>1. m = 2 + f
      BY <1>1, <1>2, <1>6, <1>7, <1>8, <1>9, <2>5
    <3>. HIDE DEF m
    <3>. QED BY <1>1, <1>4, <2>5, <3>1
  <2>6. n = 1 \/ n = 2 \/ n > 2
    BY <1>1
  <2>. QED BY <2>1, <2>2, <2>3, <2>4, <2>5, <2>6, Zenon
<1>13. m \in Nat /\ h + g + w + t = last + t + m /\ last \in Nat
  BY <1>2, <1>5
<1>. HIDE DEF H, m
<1>. DEFINE T == {last + t + k : k \in H}
<1>14. last + t + m \in T /\ T \subseteq Int /\ \A y \in T : last + t + m <= y
  BY <1>2, <1>12, <1>13
<1>. DEFINE x == last + t + m
<1>. HIDE DEF T, x
<1>15. Min(T) = x
  BY <1>14, MinIs DEF x
<1>. QED BY <1>2, <1>11, <1>13, <1>15, Zenon DEF T, x

(* A packet that does not parse has no frames.                             *)
LEMMA NothingParsed ==
  ASSUME NEW data, NEW selfd, ~ParsePacket(data, selfd).ok
  PROVE  ParsePacket(data, selfd).frames = <<>>
<1>. DEFINE read == AllSizes(data, Header(data), selfd)
            cut == Cut(data, read)
            none == [ok |-> FALSE, config |-> 0, frames |-> <<>>, consumed |-> 0]
<1>1. ParsePacket(data, selfd) = cut
  BY Zenon DEF ParsePacket
<1>2. CASE ~read.ok
  <2>. HIDE DEF read
  <2>1. cut = none
    BY <1>2, Zenon DEF Cut
  <2>. QED BY <1>1, <2>1
<1>3. CASE read.ok
  <2>. DEFINE from(i) == read.at + Total(SubSeq(read.sizes, 1, i - 1))
              config0 == ConfigOf(data[1])
              pieces == [i \in DOMAIN read.sizes |-> SubSeq(data, from(i), from(i) + read.sizes[i] - 1)]
              gone == read.at - 1 + Total(read.sizes)
              yes == TRUE
  <2>. HIDE DEF read
  <2>1. cut = [ok |-> TRUE, config |-> config0, frames |-> pieces, consumed |-> gone]
    BY <1>3, Zenon DEF Cut
  <2>. HIDE DEF config0, pieces, gone, yes
  <2>2. cut = [ok |-> yes, config |-> config0, frames |-> pieces, consumed |-> gone]
    BY <2>1, Zenon DEF yes
  <2>. HIDE DEF cut
  <2>3. cut.ok = yes
    BY <2>2
  <2>. QED BY <1>1, <2>3 DEF yes
<1>. QED BY <1>2, <1>3

(* What is known of a packet that emit_packet made.                        *)
LEMMA Emitted ==
  ASSUME NEW c, NEW fs, FitFrames(c, fs), NEW padTo \in Nat, NEW selfd \in BOOLEAN,
         selfd => padTo = NoPadding
  PROVE  LET data == EmitPacket(c, fs, padTo, selfd)
         IN /\ data \in Seq(Byte) /\ ParsePacket(data, selfd).ok
            /\ Means(ParsePacket(data, selfd)) = [config |-> c, frames |-> fs]
            /\ padTo = NoPadding =>
                 /\ ParsePacket(data, selfd).consumed = Len(data)
                 /\ Len(data) = Min(FramedLengths(Sizes(fs), selfd))
<1>. DEFINE data == EmitPacket(c, fs, padTo, selfd)
<1>1. data \in Seq(Byte) /\ (padTo = NoPadding => Len(data) = BodyLength(c, fs, padTo, selfd))
  BY EmittedLength
<1>2. <<>> \in Seq(Byte)
  OBVIOUS
<1>3. LET parsed == ParsePacket(data \o <<>>, selfd)
      IN /\ parsed.ok /\ parsed.config = c /\ parsed.frames = fs
         /\ padTo = NoPadding => parsed.consumed = Len(data)
  <2>. DEFINE none == <<>>
  <2>1. none \in Seq(Byte) /\ (selfd \/ none = <<>>)
    BY <1>2
  <2>. HIDE DEF none
  <2>2. LET parsed == ParsePacket(data \o none, selfd)
        IN /\ parsed.ok /\ parsed.config = c /\ parsed.frames = fs
           /\ padTo = NoPadding => parsed.consumed = Len(data)
    BY <2>1, EmittedIsParsed
  <2>. HIDE DEF data
  <2>. QED BY <2>2 DEF none
<1>. HIDE DEF data
<1>4. data \o <<>> = data
  BY <1>1
<1>5. padTo = NoPadding => Len(data) = Min(FramedLengths(Sizes(fs), selfd))
  BY <1>1, ShortestBody
<1>. QED BY <1>1, <1>3, <1>4, <1>5, Zenon DEF Means, data

(* Joined frames of one configuration.                                     *)
LEMMA JoinedFit ==
  ASSUME NEW c, NEW fs, NEW gs, FitFrames(c, gs), fs # <<>> => FitFrames(c, fs),
         (Len(gs) + Len(fs)) * Spans[c] <= MaxSpan
  PROVE  FitFrames(c, fs \o gs)
<1>1. /\ gs \in Seq(Seq(Byte)) /\ Len(gs) # 0 /\ c \in DOMAIN Spans
      /\ \A i \in 1 .. Len(gs) : Len(gs[i]) <= MaxFrame
  BY DEF FitFrames
<1>2. CASE fs = <<>>
  <2>1. fs \o gs = gs
    BY <1>1, <1>2
  <2>. QED BY <2>1
<1>3. CASE fs # <<>>
  <2>1. fs \in Seq(Seq(Byte)) /\ \A i \in 1 .. Len(fs) : Len(fs[i]) <= MaxFrame
    BY <1>3 DEF FitFrames
  <2>. DEFINE both == fs \o gs
  <2>2. /\ both \in Seq(Seq(Byte)) /\ Len(both) = Len(fs) + Len(gs) /\ Len(fs) \in Nat /\ Len(gs) \in Nat
        /\ \A j \in 1 .. Len(fs) : both[j] = fs[j]
        /\ \A j \in 1 .. Len(gs) : both[Len(fs) + j] = gs[j]
    BY <1>1, <2>1, JoinOfTwo
  <2>. HIDE DEF both
  <2>3. ASSUME NEW i \in 1 .. Len(both) PROVE Len(both[i]) <= MaxFrame
    <3>1. CASE i \in 1 .. Len(fs)
      BY <2>1, <2>2, <3>1
    <3>2. CASE i \notin 1 .. Len(fs)
      <4>. DEFINE j == i - Len(fs)
      <4>1. j \in 1 .. Len(gs) /\ Len(fs) + j = i
        BY <2>2, <3>2
      <4>. HIDE DEF j
      <4>2. both[i] = gs[j]
        BY <2>2, <4>1
      <4>. QED BY <1>1, <4>1, <4>2
    <3>. QED BY <3>1, <3>2
  <2>4. Len(both) # 0 /\ Len(both) = Len(gs) + Len(fs)
    BY <1>1, <2>2
  <2>. QED BY <1>1, <2>2, <2>3, <2>4, Zenon DEF FitFrames, both
<1>. QED BY <1>2, <1>3

(* Some of the frames.                                                     *)
LEMMA SomeFit ==
  ASSUME NEW c, NEW fs, FitFrames(c, fs), NEW first \in DOMAIN fs, NEW last \in DOMAIN fs, first <= last
  PROVE  FitFrames(c, SubSeq(fs, first, last))
<1>. DEFINE gs == SubSeq(fs, first, last)
            k == (last - first) + 1
            s == Spans[c]
            n == Len(fs)
<1>1. /\ fs \in Seq(Seq(Byte)) /\ n \in Nat /\ c \in DOMAIN Spans /\ n * s <= MaxSpan
      /\ \A i \in 1 .. n : Len(fs[i]) <= MaxFrame
  <2>1. /\ fs \in Seq(Seq(Byte)) /\ c \in DOMAIN Spans /\ n * s <= MaxSpan
        /\ \A i \in 1 .. n : Len(fs[i]) <= MaxFrame
    BY DEF FitFrames
  <2>. QED BY <2>1, Elements
<1>2. first \in 1 .. n /\ last \in 1 .. n /\ k \in Nat \ {0} /\ k <= n
  BY <1>1
<1>3. /\ gs \in Seq(Seq(Byte)) /\ Len(gs) = k
      /\ \A i \in 1 .. k : gs[i] = fs[(first + i) - 1]
  <2>. DEFINE P == Seq(Byte)
  <2>. HIDE DEF P, n, k
  <2>1. fs \in Seq(P) /\ n = Len(fs) /\ k = (last - first) + 1
    BY <1>1 DEF P, n, k
  <2>2. \A i \in first .. last : i \in 1 .. n
    BY <1>1, <1>2
  <2>3. gs \in Seq(P) /\ Len(gs) = k /\ \A i \in 1 .. k : gs[i] = fs[(first + i) - 1]
    BY <1>2, <2>1, <2>2
  <2>. QED BY <2>3 DEF P
<1>. HIDE DEF gs
<1>4. ASSUME NEW i \in 1 .. k PROVE Len(gs[i]) <= MaxFrame
  <2>1. (first + i) - 1 \in 1 .. n
    BY <1>2
  <2>. QED BY <1>1, <1>3, <2>1
<1>5. k * s <= MaxSpan
  <2>1. s \in Nat /\ MaxSpan \in Nat
    BY <1>1, SpanAssumption
  <2>. HIDE DEF k, s, n
  <2>2. \A a, b, d \in Nat : a <= b => a * d \in Nat /\ b * d \in Nat /\ a * d <= b * d
    BY SMT
  <2>3. k * s <= n * s /\ k * s \in Nat /\ n * s \in Nat
    BY <1>1, <1>2, <2>1, <2>2
  <2>. DEFINE x == k * s
              y == n * s
  <2>4. x \in Nat /\ y \in Nat /\ x <= y /\ y <= MaxSpan
    BY <1>1, <2>3
  <2>. HIDE DEF x, y
  <2>5. x <= MaxSpan
    BY <2>1, <2>4
  <2>. QED BY <2>5 DEF x
<1>6. Len(gs) # 0
  BY <1>2, <1>3
<1>. HIDE DEF k, s
<1>. QED BY <1>1, <1>3, <1>4, <1>5, <1>6, Zenon DEF FitFrames, gs, s

(***************************************************************************)
(* The caller, the repacketizer and the packet in hand.                    *)
(***************************************************************************)
(* The packet in hand means what it parses to, and holds what is held.     *)
HandInv ==
  /\ packet \in Seq(Byte) /\ delimited \in BOOLEAN
  /\ frames # <<>> => FitFrames(config, frames)
  /\ meaning = Means(ParsePacket(packet, delimited))
  /\ delimited => ParsePacket(packet, TRUE).ok
  /\ promise > 0 => Len(packet) = promise
  /\ promise = Shortest => Len(packet) = Min(FramedLengths(Sizes(meaning.frames), delimited))

(* Every operation keeps what the packet in hand means.                    *)
LEMMA FetchKeeps ==
  ASSUME SentWell, NEW data, \/ data \in Packets /\ Fetch(data)
                             \/ data \in DelimitedPackets /\ FetchDelimited(data), HandInv
  PROVE  HandInv'
<1>1. data \in Seq(Byte)
  BY PacketAssumption DEF Fetch, FetchDelimited
<1>2. packet' = data /\ promise' = AnyLength /\ config' = config /\ frames' = frames
  BY DEF Fetch, FetchDelimited, rp
<1>3. /\ delimited' \in BOOLEAN /\ meaning' = Means(ParsePacket(data, delimited'))
      /\ delimited' => ParsePacket(data, TRUE).ok
  BY DEF Fetch, FetchDelimited, SentWell
<1>4. ~(promise' > 0) /\ promise' # Shortest
  BY <1>2 DEF AnyLength, Shortest
<1>. QED BY <1>1, <1>2, <1>3, <1>4 DEF HandInv

LEMMA CatKeeps == ASSUME HandInv, Cat PROVE HandInv'
<1>. DEFINE parsed == ParsePacket(packet, FALSE)
            c == ConfigOf(packet[1])
<1>1. UNCHANGED <<packet, delimited, meaning, promise>>
  BY DEF Cat, hand
<1>2. /\ ~delimited /\ config' = c
      /\ frames # <<>> => c = config
      /\ frames' = IF HasFrameCount(packet) /\ Fits(frames, packet) THEN frames \o parsed.frames ELSE frames
  BY DEF Cat
<1>3. packet \in Seq(Byte) /\ (frames # <<>> => FitFrames(c, frames))
  BY <1>2 DEF HandInv
<1>. HIDE DEF c, parsed
<1>4. frames' # <<>> => FitFrames(c, frames')
  <2>1. CASE ~(HasFrameCount(packet) /\ Fits(frames, packet))
    BY <1>2, <1>3, <2>1
  <2>2. CASE HasFrameCount(packet) /\ Fits(frames, packet) /\ ~parsed.ok
    <3>1. parsed.frames = <<>>
      BY <2>2, NothingParsed DEF parsed
    <3>2. frames = <<>> \/ frames \in Seq(Seq(Byte))
      BY <1>3 DEF FitFrames
    <3>3. frames \o <<>> = frames
      BY <3>2
    <3>. QED BY <1>2, <1>3, <2>2, <3>1, <3>3
  <2>3. CASE HasFrameCount(packet) /\ Fits(frames, packet) /\ parsed.ok
    <3>1. PICK at, left, s : ParsedWell(packet, FALSE, at, left, s)
      BY <1>3, <2>3, ParsedIsFit DEF parsed
    <3>2. /\ parsed.config = c /\ Len(parsed.frames) = FrameCount(packet)
          /\ FitFrames(parsed.config, parsed.frames)
      BY <3>1, Zenon DEF ParsedWell, parsed, c
    <3>3. (Len(parsed.frames) + Len(frames)) * Spans[c] <= MaxSpan
      BY <2>3, <3>2 DEF Fits, c
    <3>4. FitFrames(c, frames \o parsed.frames)
      <4>. DEFINE fs == frames
                  gs == parsed.frames
      <4>1. FitFrames(c, gs) /\ (fs # <<>> => FitFrames(c, fs)) /\ (Len(gs) + Len(fs)) * Spans[c] <= MaxSpan
        BY <1>3, <3>2, <3>3
      <4>. HIDE DEF fs, gs
      <4>2. FitFrames(c, fs \o gs)
        BY <4>1, JoinedFit
      <4>. QED BY <4>2 DEF fs, gs
    <3>. QED BY <1>2, <2>3, <3>4
  <2>. QED BY <2>1, <2>2, <2>3
<1>. QED BY <1>1, <1>2, <1>4 DEF HandInv

(* Frames held, given out.                                                 *)
LEMMA GivenOut ==
  ASSUME HandInv, NEW fs, FitFrames(config, fs), NEW selfd \in BOOLEAN,
         packet' = EmitPacket(config, fs, NoPadding, selfd), delimited' = selfd,
         meaning' = [config |-> config, frames |-> fs], promise' = Shortest,
         UNCHANGED rp
  PROVE  HandInv' /\ ParsePacket(packet', selfd).consumed = Len(packet')
<1>. DEFINE data == EmitPacket(config, fs, NoPadding, selfd)
<1>1. /\ data \in Seq(Byte) /\ ParsePacket(data, selfd).ok
      /\ Means(ParsePacket(data, selfd)) = [config |-> config, frames |-> fs]
      /\ ParsePacket(data, selfd).consumed = Len(data)
      /\ Len(data) = Min(FramedLengths(Sizes(fs), selfd))
  BY Emitted DEF NoPadding
<1>. HIDE DEF data
<1>2. packet' = data /\ config' = config /\ frames' = frames /\ meaning'.frames = fs
  BY DEF data, rp
<1>3. ~(promise' > 0)
  BY DEF Shortest
<1>4. delimited' => ParsePacket(packet', TRUE).ok
  BY <1>1, <1>2
<1>5. frames' # <<>> => FitFrames(config', frames')
  BY <1>2 DEF HandInv
<1>6. /\ packet' \in Seq(Byte) /\ delimited' \in BOOLEAN
      /\ meaning' = Means(ParsePacket(packet', delimited'))
      /\ Len(packet') = Min(FramedLengths(Sizes(meaning'.frames), delimited'))
      /\ ParsePacket(packet', selfd).consumed = Len(packet')
  BY <1>1, <1>2
<1>. QED BY <1>3, <1>4, <1>5, <1>6 DEF HandInv

LEMMA OutRangeKeeps ==
  ASSUME HandInv, NEW first \in DOMAIN frames, NEW last \in DOMAIN frames, first <= last,
         OutRange(first, last)
  PROVE  HandInv'
<1>. DEFINE fs == SubSeq(frames, first, last)
<1>1. FitFrames(config, fs)
  <2>1. frames # <<>>
    OBVIOUS
  <2>2. FitFrames(config, frames)
    BY <2>1 DEF HandInv
  <2>. QED BY <2>2, SomeFit
<1>. DEFINE no == FALSE
<1>2. /\ packet' = EmitPacket(config, fs, NoPadding, no) /\ delimited' = no
      /\ meaning' = [config |-> config, frames |-> fs] /\ promise' = Shortest /\ UNCHANGED rp
  BY DEF OutRange
<1>3. no \in BOOLEAN
  OBVIOUS
<1>. HIDE DEF fs, no
<1>. QED BY <1>1, <1>2, <1>3, GivenOut

LEMMA OutSelfDelimitedKeeps ==
  ASSUME HandInv, OutSelfDelimited
  PROVE  HandInv' /\ ParsePacket(packet', TRUE).consumed = Len(packet')
<1>. DEFINE yes == TRUE
<1>1. FitFrames(config, frames)
  BY DEF OutSelfDelimited, HandInv
<1>2. /\ packet' = EmitPacket(config, frames, NoPadding, yes) /\ delimited' = yes
      /\ meaning' = [config |-> config, frames |-> frames] /\ promise' = Shortest /\ UNCHANGED rp
  BY DEF OutSelfDelimited
<1>3. yes \in BOOLEAN
  OBVIOUS
<1>. HIDE DEF yes
<1>4. HandInv' /\ ParsePacket(packet', yes).consumed = Len(packet')
  BY <1>1, <1>2, <1>3, GivenOut
<1>. QED BY <1>4 DEF yes

(* Gathered and put in a packet again.                                     *)
LEMMA PutAgain ==
  ASSUME HandInv, ~delimited, Gathers, NEW length \in Nat
  PROVE  /\ Again(length) \in Seq(Byte)
         /\ Means(ParsePacket(Again(length), FALSE)) = meaning
         /\ length = NoPadding =>
              Len(Again(length)) = Min(FramedLengths(Sizes(meaning.frames), FALSE))
         /\ length > Len(packet) => Len(Again(length)) = length
<1>. DEFINE parsed == ParsePacket(packet, FALSE)
            c == ConfigOf(packet[1])
            fs == parsed.frames
            data == EmitPacket(c, fs, length, FALSE)
<1>1. packet \in Seq(Byte) /\ meaning = Means(parsed)
  BY DEF HandInv
<1>2. fs # <<>>
  BY DEF Gathers, Gathered
<1>3. parsed.ok
  BY <1>2, NothingParsed
<1>4. PICK at, left, s : ParsedWell(packet, FALSE, at, left, s)
  BY <1>1, <1>3, ParsedIsFit
<1>. HIDE DEF parsed, c
<1>5. parsed.config = c /\ FitFrames(c, fs)
  BY <1>4, Zenon DEF ParsedWell, parsed, c
<1>6. meaning = [config |-> c, frames |-> fs] /\ meaning.frames = fs
  BY <1>1, <1>5 DEF Means
<1>7. Again(length) = data
  BY Zenon DEF Again, Gathered, parsed, c
<1>. HIDE DEF fs
<1>8. /\ data \in Seq(Byte)
      /\ Means(ParsePacket(data, FALSE)) = [config |-> c, frames |-> fs]
      /\ length = NoPadding => Len(data) = Min(FramedLengths(Sizes(fs), FALSE))
  <2>. DEFINE no == FALSE
  <2>1. no \in BOOLEAN /\ ~no
    OBVIOUS
  <2>. HIDE DEF no
  <2>2. LET d == EmitPacket(c, fs, length, no)
        IN /\ d \in Seq(Byte)
           /\ Means(ParsePacket(d, no)) = [config |-> c, frames |-> fs]
           /\ length = NoPadding => Len(d) = Min(FramedLengths(Sizes(fs), no))
    BY <1>5, <2>1, Emitted
  <2>. QED BY <2>2 DEF no
<1>9. length > Len(packet) => Len(data) = length
  <2>. SUFFICES ASSUME length > Len(packet) PROVE Len(data) = length
    OBVIOUS
  <2>1. 1 + Len(GivenBytes(fs, length)) + Total(Sizes(fs)) <= Len(packet)
    BY <1>1, <1>3, PadFits DEF fs, parsed
  <2>. DEFINE g == Len(GivenBytes(fs, length))
              t == Total(Sizes(fs))
  <2>2. g \in Nat /\ t \in Nat /\ Len(packet) \in Nat
    <3>1. Len(packet) \in Nat
      BY <1>1, Elements
    <3>. DEFINE no == FALSE
    <3>2. no \in BOOLEAN
      OBVIOUS
    <3>. HIDE DEF no
    <3>3. g \in Nat /\ t \in Nat
      BY <1>5, <3>2, BodyMeasured
    <3>. QED BY <3>1, <3>3
  <2>3. length # NoPadding /\ length >= 2 + g + t
    <3>. HIDE DEF g, t
    <3>1. 1 + g + t <= Len(packet)
      BY <2>1 DEF g, t
    <3>. QED BY <2>2, <3>1 DEF NoPadding
  <2>. QED BY <1>5, <2>3, EmittedLength
<1>. HIDE DEF data
<1>. QED BY <1>6, <1>7, <1>8, <1>9

LEMMA PadKeeps ==
  ASSUME HandInv, NEW length \in Lengths, Pad(length)
  PROVE  HandInv'
<1>1. /\ ~delimited /\ Len(packet) <= length /\ (Len(packet) < length => Gathers)
      /\ packet' = IF Len(packet) = length THEN packet ELSE Again(length)
      /\ promise' = length /\ config' = config /\ frames' = frames
      /\ delimited' = delimited /\ meaning' = meaning
  BY DEF Pad, rp
<1>2. length \in Nat \ {0} /\ packet \in Seq(Byte) /\ Len(packet) \in Nat
  BY PacketAssumption DEF HandInv
<1>3. delimited' = FALSE /\ delimited = FALSE
  BY <1>1 DEF HandInv
<1>4. /\ packet' \in Seq(Byte) /\ meaning' = Means(ParsePacket(packet', FALSE)) /\ Len(packet') = length
  <2>1. CASE Len(packet) = length
    BY <1>1, <1>2, <1>3, <2>1 DEF HandInv
  <2>2. CASE Len(packet) # length
    <3>1. length > Len(packet) /\ Len(packet) < length
      BY <1>1, <1>2, <2>2
    <3>2. /\ Again(length) \in Seq(Byte) /\ Means(ParsePacket(Again(length), FALSE)) = meaning
          /\ Len(Again(length)) = length
      BY <1>1, <1>2, <3>1, PutAgain
    <3>. QED BY <1>1, <2>2, <3>2
  <2>. QED BY <2>1, <2>2
<1>5. promise' # Shortest
  BY <1>1, <1>2 DEF Shortest
<1>. QED BY <1>1, <1>3, <1>4, <1>5 DEF HandInv

LEMMA UnpadKeeps == ASSUME HandInv, Unpad PROVE HandInv'
<1>1. /\ ~delimited /\ Gathers /\ packet' = Again(NoPadding) /\ promise' = Shortest
      /\ config' = config /\ frames' = frames /\ delimited' = delimited /\ meaning' = meaning
  BY DEF Unpad, rp
<1>2. delimited' = FALSE
  BY <1>1 DEF HandInv
<1>3. NoPadding \in Nat
  BY DEF NoPadding
<1>4. /\ packet' \in Seq(Byte) /\ Means(ParsePacket(packet', FALSE)) = meaning'
      /\ Len(packet') = Min(FramedLengths(Sizes(meaning'.frames), FALSE))
  BY <1>1, <1>3, PutAgain
<1>5. ~(promise' > 0)
  BY <1>1 DEF Shortest
<1>. QED BY <1>1, <1>2, <1>4, <1>5 DEF HandInv

(* Taken from the front of something longer, by WhateverFollows.           *)
LEMMA TakeKeeps ==
  ASSUME HandInv, NEW trailer \in Trailers, Take(trailer)
  PROVE  HandInv' /\ overrun' = ParsePacket(packet, TRUE).consumed - Len(packet) /\ delimited' = FALSE
<1>. DEFINE parsed == ParsePacket(packet, TRUE)
            fs == parsed.frames
            c == parsed.config
            no == FALSE
<1>1. /\ delimited /\ delimited' = no /\ promise' = Shortest /\ config' = config /\ frames' = frames
      /\ meaning' = meaning /\ TakeSelfDelimited(packet \o trailer).ok
      /\ packet' = TakeSelfDelimited(packet \o trailer).packet
      /\ overrun' = TakeSelfDelimited(packet \o trailer).consumed - Len(packet)
  BY DEF Take, rp
<1>2. packet \in Seq(Byte) /\ trailer \in Seq(Byte) /\ parsed.ok /\ meaning = Means(parsed)
  BY <1>1, PacketAssumption DEF HandInv
<1>3. ParsePacket(packet \o trailer, TRUE) = parsed
  BY <1>2, WhateverFollows
<1>4. PICK at, left, s : ParsedWell(packet, TRUE, at, left, s)
  BY <1>2, ParsedIsFit
<1>. HIDE DEF parsed
<1>5. FitFrames(c, fs)
  BY <1>4, Zenon DEF ParsedWell, parsed
<1>6. packet' = EmitPacket(c, fs, NoPadding, no) /\ overrun' = parsed.consumed - Len(packet)
  <2>. DEFINE taken == Taken(parsed)
  <2>1. packet' = taken.packet /\ overrun' = taken.consumed - Len(packet)
    BY <1>1, <1>3, Zenon DEF TakeSelfDelimited
  <2>2. taken.packet = Reframed(parsed) /\ taken.consumed = parsed.consumed
    BY DEF Taken
  <2>3. Reframed(parsed) = EmitPacket(c, fs, NoPadding, FALSE)
    BY <1>2, Zenon DEF Reframed
  <2>. HIDE DEF taken
  <2>. QED BY <2>1, <2>2, <2>3, Zenon
<1>7. no \in BOOLEAN /\ ~no /\ NoPadding \in Nat
  BY DEF NoPadding
<1>8. meaning = [config |-> c, frames |-> fs] /\ meaning.frames = fs
  BY <1>2 DEF Means
<1>. HIDE DEF c, fs, no
<1>9. /\ packet' \in Seq(Byte) /\ Means(ParsePacket(packet', no)) = meaning
      /\ Len(packet') = Min(FramedLengths(Sizes(meaning.frames), no))
  BY <1>5, <1>6, <1>7, <1>8, Emitted
<1>10. ~(promise' > 0)
  BY <1>1 DEF Shortest
<1>11. HandInv'
  BY <1>1, <1>7, <1>9, <1>10 DEF HandInv
<1>. QED BY <1>1, <1>6, <1>11 DEF no, parsed

(* So every step does.                                                     *)
LEMMA HandStep ==
  ASSUME SentWell, HandInv, [Next]_vars
  PROVE  HandInv'
<1>1. ASSUME NEW data \in Packets, Fetch(data) PROVE HandInv'
  BY <1>1, FetchKeeps
<1>2. ASSUME NEW data \in DelimitedPackets, FetchDelimited(data) PROVE HandInv'
  BY <1>2, FetchKeeps
<1>3. CASE Cat
  BY <1>3, CatKeeps
<1>4. CASE Clear
  BY <1>4 DEF Clear, hand, HandInv
<1>5. ASSUME NEW first \in DOMAIN frames, NEW last \in DOMAIN frames, first <= last,
             OutRange(first, last)
      PROVE  HandInv'
  BY <1>5, OutRangeKeeps
<1>6. CASE OutSelfDelimited
  BY <1>6, OutSelfDelimitedKeeps
<1>7. ASSUME NEW length \in Lengths, Pad(length) PROVE HandInv'
  BY <1>7, PadKeeps
<1>8. CASE Unpad
  BY <1>8, UnpadKeeps
<1>9. ASSUME NEW trailer \in Trailers, Take(trailer) PROVE HandInv'
  BY <1>9, TakeKeeps
<1>10. CASE UNCHANGED vars
  BY <1>10 DEF vars, rp, hand, HandInv
<1>. QED BY <1>1, <1>2, <1>3, <1>4, <1>5, <1>6, <1>7, <1>8, <1>9, <1>10 DEF Next

LEMMA HandStart == Init => HandInv
<1>. SUFFICES ASSUME Init PROVE HandInv
  OBVIOUS
<1>1. packet = <<>> /\ delimited = FALSE /\ frames = <<>> /\ promise = AnyLength
      /\ meaning = [config |-> 0, frames |-> <<>>]
  BY DEF Init
<1>2. ParsePacket(<<>>, FALSE) = [ok |-> FALSE, config |-> 0, frames |-> <<>>, consumed |-> 0]
  <2>1. Header(<<>>) = Malformed
    BY DEF Header
  <2>2. ~Malformed.ok
    BY DEF Malformed
  <2>3. AllSizes(<<>>, Malformed, FALSE) = Malformed
    BY <2>2, Zenon DEF AllSizes
  <2>4. Cut(<<>>, Malformed) = [ok |-> FALSE, config |-> 0, frames |-> <<>>, consumed |-> 0]
    BY <2>2, Zenon DEF Cut
  <2>. QED BY <2>1, <2>3, <2>4, Zenon DEF ParsePacket
<1>3. meaning = Means(ParsePacket(packet, delimited))
  <2>. DEFINE none == [ok |-> FALSE, config |-> 0, frames |-> <<>>, consumed |-> 0]
  <2>1. none.config = 0 /\ none.frames = <<>>
    OBVIOUS
  <2>. HIDE DEF none
  <2>2. ParsePacket(packet, delimited) = none
    BY <1>1, <1>2, Zenon DEF none
  <2>. QED BY <1>1, <2>1, <2>2, Zenon DEF Means
<1>4. <<>> \in Seq(Byte) /\ ~(promise > 0) /\ promise # Shortest
  BY <1>1 DEF AnyLength, Shortest
<1>. QED BY <1>1, <1>3, <1>4 DEF HandInv

LEMMA HandMeans == HandInv => MeaningKept
BY DEF HandInv, MeaningKept

(* MeaningKept, when the self-delimited packets that come from elsewhere   *)
(* are packets: gathered, split, framed again, padded, stripped, sent      *)
(* self-delimited and taken back in any order and any number of times, a   *)
(* packet parses to the frames it was made of, has the length asked for,   *)
(* and where it was to be the shortest no framing of them is shorter.      *)
THEOREM MeaningIsKept ==
  ASSUME SentWell
  PROVE  Spec => []MeaningKept
<1>1. HandInv /\ [Next]_vars => HandInv'
  BY HandStep
<1>. QED BY <1>1, HandStart, HandMeans, PTL DEF Spec

(* Nothing has been over, and nothing in hand will be.                    *)
WholeInv ==
  /\ overrun = 0
  /\ delimited => ParsePacket(packet, TRUE).consumed = Len(packet)

(* TakenWhole, when those packets end with their last frame: what          *)
(* take_self_delimited_into consumes is the packet, whatever follows it.   *)
THEOREM SelfDelimitedTakenWhole ==
  ASSUME SentWell, SentWhole
  PROVE  Spec => []TakenWhole
<1>1. Init => WholeInv
  BY DEF Init, WholeInv
<1>2. HandInv /\ WholeInv /\ [Next]_vars => WholeInv'
  <2>. SUFFICES ASSUME HandInv, WholeInv, [Next]_vars PROVE WholeInv'
    OBVIOUS
  <2>1. ASSUME NEW data \in Packets, Fetch(data) PROVE WholeInv'
    BY <2>1 DEF Fetch, WholeInv
  <2>2. ASSUME NEW data \in DelimitedPackets, FetchDelimited(data) PROVE WholeInv'
    BY <2>2 DEF FetchDelimited, WholeInv, SentWhole
  <2>3. CASE Cat \/ Clear \/ UNCHANGED vars
    <3>1. packet' = packet /\ delimited' = delimited /\ overrun' = overrun
      BY <2>3 DEF Cat, Clear, vars, hand
    <3>. QED BY <3>1, Zenon DEF WholeInv
  <2>4. ASSUME NEW first \in DOMAIN frames, NEW last \in DOMAIN frames, OutRange(first, last)
        PROVE  WholeInv'
    BY <2>4 DEF OutRange, WholeInv
  <2>5. CASE OutSelfDelimited
    <3>1. ParsePacket(packet', TRUE).consumed = Len(packet')
      BY <2>5, OutSelfDelimitedKeeps
    <3>2. overrun' = 0
      BY <2>5 DEF OutSelfDelimited
    <3>. QED BY <3>1, <3>2 DEF WholeInv
  <2>6. ASSUME NEW length \in Lengths, Pad(length) PROVE WholeInv'
    <3>1. overrun' = 0 /\ delimited' = FALSE
      BY <2>6 DEF Pad, WholeInv, HandInv
    <3>. QED BY <3>1 DEF WholeInv
  <2>7. CASE Unpad
    <3>1. overrun' = 0 /\ delimited' = FALSE
      BY <2>7 DEF Unpad, WholeInv, HandInv
    <3>. QED BY <3>1 DEF WholeInv
  <2>8. ASSUME NEW trailer \in Trailers, Take(trailer) PROVE WholeInv'
    <3>1. overrun' = ParsePacket(packet, TRUE).consumed - Len(packet) /\ delimited' = FALSE
      BY <2>8, TakeKeeps
    <3>2. delimited /\ packet \in Seq(Byte)
      BY <2>8 DEF Take, HandInv
    <3>3. Len(packet) \in Nat
      BY <3>2, Elements
    <3>4. ParsePacket(packet, TRUE).consumed = Len(packet)
      BY <3>2 DEF WholeInv
    <3>5. overrun' = Len(packet) - Len(packet)
      BY <3>1, <3>4, Zenon
    <3>6. overrun' = 0
      BY <3>3, <3>5
    <3>. QED BY <3>1, <3>6 DEF WholeInv
  <2>. QED BY <2>1, <2>2, <2>3, <2>4, <2>5, <2>6, <2>7, <2>8 DEF Next
<1>3. HandInv /\ [Next]_vars => HandInv'
  BY HandStep
<1>4. WholeInv => TakenWhole
  BY DEF WholeInv, TakenWhole
<1>. QED BY <1>1, <1>2, <1>3, <1>4, HandStart, PTL DEF Spec

(***************************************************************************)
(* Multistream.  The decoders that a packet has moved, stream by stream:   *)
(* the first ones, and all up to here if none has failed.                  *)
(***************************************************************************)
MovedFirst(state, n) ==
  /\ DOMAIN state = {"left", "ok", "moved", "output"}
  /\ state.ok \in BOOLEAN
  /\ \E k \in 0 .. n : state.moved = 0 .. k - 1 /\ (state.ok => k = n)

LEMMA StreamMoves ==
  ASSUME NEW n \in Nat, NEW state, MovedFirst(state, n)
  PROVE  MovedFirst(DecodeStream(state, n), n + 1)
<1>. DEFINE data   == StreamData(state, n)
            parsed == ParsePacket(data.packet, FALSE)
            lost   == data.ok /\ data.packet = <<>>
            fails  == ~state.ok \/ ~data.ok \/ (~parsed.ok /\ ~lost)
            next   == DecodeStream(state, n)
<1>1. PICK k \in 0 .. n : state.moved = 0 .. k - 1 /\ (state.ok => k = n)
  BY DEF MovedFirst
<1>2. CASE fails
  <2>1. next = [state EXCEPT !.ok = FALSE]
    BY <1>2 DEF DecodeStream
  <2>2. /\ DOMAIN next = {"left", "ok", "moved", "output"} /\ next.ok = FALSE
        /\ next.moved = state.moved
    BY <2>1 DEF MovedFirst
  <2>. HIDE DEF next
  <2>3. k \in 0 .. n + 1 /\ next.moved = 0 .. k - 1
    BY <1>1, <2>2
  <2>4. next.ok \in BOOLEAN /\ ~next.ok
    BY <2>2
  <2>. QED
    BY <2>2, <2>3, <2>4 DEF MovedFirst, next
<1>3. CASE ~fails
  <2>1. next = [left   |-> SubSeq(state.left, data.consumed + 1, Len(state.left)), ok |-> TRUE,
                moved  |-> state.moved \cup {n},
                output |-> IF lost THEN Filling(state.output, player.layout, n)
                           ELSE Remuxed(state.output, player.layout, n, parsed.frames)]
    BY <1>3 DEF DecodeStream
  <2>2. /\ DOMAIN next = {"left", "ok", "moved", "output"} /\ next.ok = TRUE
        /\ next.moved = state.moved \cup {n}
    BY <2>1
  <2>3. state.moved = 0 .. n - 1
    BY <1>1, <1>3
  <2>4. (0 .. n - 1) \cup {n} = 0 .. (n + 1) - 1
    OBVIOUS
  <2>. HIDE DEF next
  <2>5. n + 1 \in 0 .. n + 1 /\ next.moved = 0 .. (n + 1) - 1
    BY <2>2, <2>3, <2>4
  <2>6. next.ok \in BOOLEAN
    BY <2>2
  <2>. QED
    BY <2>2, <2>5, <2>6 DEF MovedFirst, next
<1>. QED
  BY <1>2, <1>3

StatesUpTo(f, n, data) ==
  f = [i \in 0 .. n |-> IF i = 0 THEN Start(data) ELSE DecodeStream(f[i - 1], i - 1)]

LEMMA StatesExist ==
  ASSUME NEW n \in Nat, NEW data
  PROVE  \E f : StatesUpTo(f, n, data)
<1>. DEFINE T == {k \in Nat : \E f : StatesUpTo(f, k, data)}
<1>1. 0 \in T
  <2>. DEFINE g == [i \in 0 .. 0 |-> Start(data)]
  <2>1. StatesUpTo(g, 0, data)
    BY DEF StatesUpTo
  <2>. HIDE DEF g
  <2>. QED
    BY <2>1
<1>2. ASSUME NEW k \in Nat, k \in T PROVE k + 1 \in T
  <2>1. PICK f : StatesUpTo(f, k, data)
    BY <1>2
  <2>. DEFINE g == [i \in 0 .. k + 1 |-> IF i <= k THEN f[i] ELSE DecodeStream(f[k], k)]
  <2>2. \A i \in 0 .. k : f[i] = IF i = 0 THEN Start(data) ELSE DecodeStream(f[i - 1], i - 1)
    BY <2>1 DEF StatesUpTo
  <2>3. ASSUME NEW i \in 0 .. k + 1
        PROVE  g[i] = IF i = 0 THEN Start(data) ELSE DecodeStream(g[i - 1], i - 1)
    <3>1. CASE i <= k
      <4>1. g[i] = f[i] /\ i \in 0 .. k
        BY <3>1
      <4>2. i # 0 => g[i - 1] = f[i - 1]
        BY <3>1
      <4>. HIDE DEF g
      <4>. QED
        BY <2>2, <4>1, <4>2
    <3>2. CASE i = k + 1
      <4>1. i - 1 = k /\ i # 0
        BY <3>2
      <4>2. g[i] = DecodeStream(f[k], k) /\ g[k] = f[k]
        BY <3>2
      <4>. HIDE DEF g
      <4>. QED
        BY <4>1, <4>2, Zenon
    <3>. QED
      BY <3>1, <3>2
  <2>4. StatesUpTo(g, k + 1, data)
    BY <2>3 DEF StatesUpTo
  <2>. HIDE DEF g
  <2>. QED
    BY <2>4
<1>3. n \in T
  <2>. HIDE DEF T
  <2>. QED
    BY <1>1, <1>2, Induction
<1>. QED
  BY <1>3

(* The states of a packet's decoding.                                      *)
Decodes(f, n, data) ==
  /\ f[0] = Start(data) /\ DecodeAll(data) = f[n]
  /\ \A i \in 1 .. n : f[i] = DecodeStream(f[i - 1], i - 1)
  /\ \A i \in 0 .. n : MovedFirst(f[i], i)

LEMMA AllDecoded ==
  ASSUME NEW data, NEW n \in Nat, n = player.layout.streams
  PROVE  \E f : Decodes(f, n, data)
<1>. DEFINE upTo == CHOOSE f : StatesUpTo(f, n, data)
            T    == {k \in Nat : k <= n => MovedFirst(upTo[k], k)}
<1>1. DecodeAll(data) = upTo[n]
  BY DEF DecodeAll, StatesUpTo
<1>2. StatesUpTo(upTo, n, data)
  BY StatesExist
<1>. HIDE DEF upTo
<1>3. \A i \in 0 .. n : upTo[i] = IF i = 0 THEN Start(data) ELSE DecodeStream(upTo[i - 1], i - 1)
  BY <1>2 DEF StatesUpTo
<1>4. upTo[0] = Start(data) /\ \A i \in 1 .. n : upTo[i] = DecodeStream(upTo[i - 1], i - 1)
  <2>1. 0 \in 0 .. n /\ \A i \in 1 .. n : i \in 0 .. n /\ i # 0
    OBVIOUS
  <2>. QED BY <1>3, <2>1, Zenon
<1>5. 0 \in T
  <2>1. /\ DOMAIN Start(data) = {"left", "ok", "moved", "output"} /\ Start(data).ok = TRUE
        /\ Start(data).moved = {}
    BY DEF Start
  <2>2. 0 .. 0 - 1 = {} /\ 0 \in 0 .. 0
    OBVIOUS
  <2>3. MovedFirst(Start(data), 0)
    BY <2>1, <2>2 DEF MovedFirst
  <2>. QED BY <1>4, <2>3
<1>6. ASSUME NEW k \in Nat, k \in T PROVE k + 1 \in T
  <2>. SUFFICES ASSUME k + 1 <= n PROVE MovedFirst(upTo[k + 1], k + 1)
    OBVIOUS
  <2>1. MovedFirst(upTo[k], k)
    BY <1>6
  <2>2. k + 1 \in 1 .. n /\ (k + 1) - 1 = k
    OBVIOUS
  <2>3. upTo[k + 1] = DecodeStream(upTo[k], k)
    BY <1>4, <2>2, Zenon
  <2>. QED BY <2>1, <2>3, StreamMoves
<1>7. \A k \in Nat : k \in T
  <2>. HIDE DEF T
  <2>. QED BY <1>5, <1>6, Induction
<1>8. \A i \in 0 .. n : MovedFirst(upTo[i], i)
  BY <1>7
<1>9. Decodes(upTo, n, data)
  BY <1>1, <1>4, <1>8, Zenon DEF Decodes
<1>. QED BY <1>9

LEMMA AllMove ==
  ASSUME NEW data, player.layout.streams \in Nat
  PROVE  MovedFirst(DecodeAll(data), player.layout.streams)
<1>. DEFINE n == player.layout.streams
<1>1. PICK f : Decodes(f, n, data)
  BY AllDecoded
<1>2. n \in 0 .. n
  OBVIOUS
<1>. QED BY <1>1, <1>2, Zenon DEF Decodes

(* The player has a decoder for each stream; none is ahead of the encoder, *)
(* none ahead of those before it.                                          *)
TogetherInv ==
  /\ calls \in Nat /\ (wire # NoPacket => wire.call = calls)
  /\ player.ready =>
       player.layout.streams \in 1 .. 8 /\ DOMAIN heard = Streams(player.layout)
  /\ ~player.ready => DOMAIN heard = {}
  /\ \A s \in DOMAIN heard : heard[s] \in 0 .. calls
  /\ DecodersTogether

LEMMA OpenTogether ==
  ASSUME TogetherInv, Open
  PROVE  TogetherInv'
<1>. DEFINE head   == ParseHead(FileHead)
            layout == Surround(head.channels, head.family)
<1>1. /\ layout.ok /\ player'.ready = TRUE /\ player'.layout = layout
      /\ heard' = [s \in Streams(layout) |-> 0]
      /\ UNCHANGED <<setup, calls, wire, out>>
  BY DEF Open
<1>2. layout.streams \in 1 .. 8
  <2>1. ASSUME NEW channels, NEW family, Surround(channels, family).ok
        PROVE  Surround(channels, family).streams \in 1 .. 8
    <3>1. CASE family = 0 /\ channels \in {1, 2}
      BY <3>1 DEF Surround
    <3>2. CASE ~(family = 0 /\ channels \in {1, 2}) /\ family = 1 /\ channels \in 1 .. 8
      <4>1. Surround(channels, family).streams = VorbisMappings[channels][1]
        BY <3>2 DEF Surround
      <4>2. channels \in {1, 2, 3, 4, 5, 6, 7, 8}
        BY <3>2
      <4>. QED
        BY <4>1, <4>2 DEF VorbisMappings
    <3>3. CASE ~(family = 0 /\ channels \in {1, 2}) /\ ~(family = 1 /\ channels \in 1 .. 8)
      BY <2>1, <3>3 DEF Surround, Rejected
    <3>. QED
      BY <3>1, <3>2, <3>3
  <2>. HIDE DEF head
  <2>. QED
    BY <1>1, <2>1
<1>. HIDE DEF layout
<1>3. DOMAIN heard' = Streams(layout) /\ \A s \in DOMAIN heard' : heard'[s] = 0
  BY <1>1
<1>4. DecodersTogether'
  BY <1>3 DEF DecodersTogether
<1>. QED
  BY <1>1, <1>2, <1>3, <1>4 DEF TogetherInv

LEMMA DecodeTogether ==
  ASSUME TogetherInv, NEW data, Decode(data)
  PROVE  TogetherInv'
<1>. DEFINE done == DecodeAll(data)
            n    == player.layout.streams
<1>1. /\ player.ready /\ wire # NoPacket /\ wire' = NoPacket
      /\ heard' = [s \in DOMAIN heard |-> IF s \in done.moved THEN wire.call ELSE heard[s]]
      /\ out' = IF done.ok THEN [kind |-> "decoded", style |-> wire.style,
                                 whole |-> data = wire.bytes, output |-> done.output]
                ELSE Failed
      /\ UNCHANGED <<setup, player, calls>>
  BY DEF Decode
<1>2. /\ n \in 1 .. 8 /\ DOMAIN heard = 0 .. n - 1 /\ calls \in Nat /\ wire.call = calls
      /\ \A s \in 0 .. n - 1 : heard[s] \in 0 .. calls
      /\ \A s, t \in 0 .. n - 1 : s < t => heard[s] >= heard[t]
  BY <1>1 DEF TogetherInv, DecodersTogether, Streams
<1>3. MovedFirst(done, n)
  BY <1>2, AllMove
<1>. HIDE DEF done, n
<1>4. PICK k \in 0 .. n : done.moved = 0 .. k - 1 /\ (done.ok => k = n)
  BY <1>3 DEF MovedFirst
<1>5. /\ DOMAIN heard' = 0 .. n - 1
      /\ \A s \in 0 .. n - 1 : heard'[s] = IF s < k THEN calls ELSE heard[s]
  BY <1>1, <1>2, <1>4
<1>6. \A s \in DOMAIN heard' : heard'[s] \in 0 .. calls
  BY <1>2, <1>5
<1>7. \A s, t \in DOMAIN heard' : s < t => heard'[s] >= heard'[t]
  <2>. SUFFICES ASSUME NEW s \in 0 .. n - 1, NEW t \in 0 .. n - 1, s < t
                PROVE  heard'[s] >= heard'[t]
    BY <1>5
  <2>1. heard[s] \in 0 .. calls /\ heard[t] \in 0 .. calls /\ heard[s] >= heard[t]
    BY <1>2
  <2>2. heard'[s] = IF s < k THEN calls ELSE heard[s]
    BY <1>5
  <2>3. heard'[t] = IF t < k THEN calls ELSE heard[t]
    BY <1>5
  <2>. QED
    BY <1>2, <1>4, <2>1, <2>2, <2>3
<1>8. out'.kind \in {"decoded", "reset"} => \A s, t \in DOMAIN heard' : heard'[s] = heard'[t]
  <2>1. out'.kind \in {"decoded", "reset"} => done.ok
    BY <1>1 DEF Failed
  <2>2. ASSUME done.ok PROVE \A s \in 0 .. n - 1 : heard'[s] = calls
    BY <1>2, <1>4, <1>5, <2>2
  <2>. QED
    BY <1>5, <2>1, <2>2
<1>9. DecodersTogether'
  BY <1>7, <1>8 DEF DecodersTogether
<1>. QED
  BY <1>1, <1>2, <1>5, <1>6, <1>9 DEF TogetherInv, Streams, n

(* After any packet decoded without an error all decoders have come to the *)
(* same call, however many errors left some of them ahead before.          *)
THEOREM SurroundStaysTogether == SurroundSpec => []DecodersTogether
<1>1. SurroundInit => TogetherInv
  BY DEF SurroundInit, TogetherInv, DecodersTogether, NoPlayer, NoPacket, Nothing
<1>2. TogetherInv /\ [SurroundNext]_surroundVars => TogetherInv'
  <2>. SUFFICES ASSUME TogetherInv, [SurroundNext]_surroundVars PROVE TogetherInv'
    OBVIOUS
  <2>1. CASE Open
    BY <2>1, OpenTogether
  <2>2. ASSUME player.ready, NEW style \in Styles, NEW room \in Rooms, Encode(style, room)
        PROVE  TogetherInv'
    <3>. DEFINE joined == Joined(setup.layout, StreamPackets(calls', style))
    <3>1. /\ calls' = calls + 1 /\ UNCHANGED <<setup, player, heard, out>>
          /\ wire' = IF room < Len(joined) THEN NoPacket
                     ELSE [call |-> calls', style |-> style, bytes |-> joined]
      BY <2>2 DEF Encode
    <3>. HIDE DEF joined
    <3>2. wire' # NoPacket => wire'.call = calls'
      BY <3>1
    <3>3. calls \in Nat /\ \A s \in DOMAIN heard : heard[s] \in 0 .. calls
      BY DEF TogetherInv
    <3>4. calls' \in Nat /\ \A s \in DOMAIN heard' : heard'[s] \in 0 .. calls'
      BY <3>1, <3>3
    <3>. QED
      BY <3>1, <3>2, <3>4 DEF TogetherInv, DecodersTogether
  <2>3. ASSUME NEW data, Decode(data) PROVE TogetherInv'
    BY <2>3, DecodeTogether
  <2>4. CASE Deliver
    BY <2>3, <2>4 DEF Deliver
  <2>5. ASSUME NEW s, NEW bytes, Spoil(s, bytes) PROVE TogetherInv'
    BY <2>3, <2>5 DEF Spoil
  <2>6. CASE Lose
    BY <2>3, <2>6 DEF Lose
  <2>7. CASE ResetState
    <3>1. /\ player.ready /\ heard' = [s \in DOMAIN heard |-> 0]
          /\ UNCHANGED <<setup, player, calls, wire>>
      BY <2>7 DEF ResetState, Cleared
    <3>2. DOMAIN heard' = DOMAIN heard /\ \A s \in DOMAIN heard' : heard'[s] = 0
      BY <3>1
    <3>3. DecodersTogether'
      BY <3>2 DEF DecodersTogether
    <3>. QED
      BY <3>1, <3>2, <3>3 DEF TogetherInv
  <2>8. CASE UNCHANGED surroundVars
    BY <2>8 DEF surroundVars, TogetherInv, DecodersTogether
  <2>. QED
    BY <2>1, <2>2, <2>4, <2>5, <2>6, <2>7, <2>8 DEF SurroundNext
<1>3. TogetherInv => DecodersTogether
  BY DEF TogetherInv
<1>. QED
  BY <1>1, <1>2, <1>3, PTL DEF SurroundSpec

(***************************************************************************)
(* Multistream.  Parts laid end to end with something behind them: what is *)
(* left of it after each.                                                  *)
(***************************************************************************)
LEMMA FlattenMore ==
  ASSUME NEW S, NEW s \in Seq(Seq(S)), NEW x \in Seq(S)
  PROVE  FlattenSeq(Append(s, x)) = FlattenSeq(s) \o x /\ FlattenSeq(s) \in Seq(S)
<1>. DEFINE n == Len(s)
            t == Append(s, x)
<1>1. n \in Nat /\ Len(t) = n + 1 /\ t[n + 1] = x /\ \A i \in 1 .. n : t[i] = s[i]
  OBVIOUS
<1>. HIDE DEF t
<1>2. CASE n = 0
  <2>1. FlattenSeq(s) = <<>>
    BY <1>2 DEF FlattenSeq
  <2>2. FlattenSeq(t) = x
    <3>1. Len(t) \in Nat \ {0} /\ Len(t) = 1
      BY <1>1, <1>2
    <3>2. PICK g : g[1] = t[1] /\ FlattenSeq(t) = g[Len(t)]
      BY <3>1, FlattenUnfolds
    <3>. QED BY <1>1, <1>2, <3>1, <3>2
  <2>. QED BY <2>1, <2>2 DEF t
<1>3. CASE n # 0
  <2>1. PICK f : /\ f[1] = s[1] /\ \A i \in 2 .. n : f[i] = f[i - 1] \o s[i]
                 /\ FlattenSeq(s) = f[n]
    BY <1>1, <1>3, FlattenUnfolds
  <2>2. PICK g : /\ g[1] = t[1] /\ \A i \in 2 .. n + 1 : g[i] = g[i - 1] \o t[i]
                 /\ FlattenSeq(t) = g[n + 1]
    <3>1. Len(t) \in Nat \ {0} /\ Len(t) = n + 1
      BY <1>1
    <3>. QED BY <3>1, FlattenUnfolds
  <2>. DEFINE T == {k \in Nat : k + 1 <= n => f[k + 1] = g[k + 1]}
  <2>3. 0 \in T
    BY <1>1, <1>3, <2>1, <2>2
  <2>4. ASSUME NEW k \in Nat, k \in T PROVE k + 1 \in T
    <3>. SUFFICES ASSUME (k + 1) + 1 <= n PROVE f[(k + 1) + 1] = g[(k + 1) + 1]
      OBVIOUS
    <3>. DEFINE m == (k + 1) + 1
    <3>1. m \in 2 .. n /\ m \in 2 .. n + 1 /\ m - 1 = k + 1 /\ m \in 1 .. n
      BY <1>1
    <3>2. f[k + 1] = g[k + 1]
      BY <1>1, <2>4
    <3>. HIDE DEF m
    <3>3. f[m] = f[m - 1] \o s[m] /\ g[m] = g[m - 1] \o t[m] /\ t[m] = s[m]
      BY <1>1, <2>1, <2>2, <3>1, Zenon
    <3>4. f[m] = g[m]
      BY <3>1, <3>2, <3>3, Zenon
    <3>. QED BY <3>4 DEF m
  <2>5. n - 1 \in Nat /\ (n - 1) + 1 = n /\ n + 1 \in 2 .. n + 1 /\ (n + 1) - 1 = n
    BY <1>1, <1>3
  <2>6. n - 1 \in T
    <3>. HIDE DEF T
    <3>. QED BY <2>3, <2>4, <2>5, Induction
  <2>7. f[n] = g[n]
    BY <1>1, <2>5, <2>6
  <2>8. g[n + 1] = g[n] \o t[n + 1]
    BY <2>2, <2>5, Zenon
  <2>. QED BY <1>1, <1>3, <2>1, <2>2, <2>7, <2>8, JoinedLie DEF t
<1>. QED BY <1>2, <1>3

(* rest[k] is what is left after k parts.                                  *)
Unwinds(rest, parts, tail, S) ==
  /\ rest[0] = FlattenSeq(parts) \o tail
  /\ rest[Len(parts)] = tail
  /\ \A k \in 0 .. Len(parts) : rest[k] \in Seq(S)
  /\ \A k \in 0 .. Len(parts) - 1 : rest[k] = parts[k + 1] \o rest[k + 1]

LEMMA NothingBefore ==
  ASSUME NEW S, NEW a \in Seq(S)
  PROVE  <<>> \o a = a
OBVIOUS

LEMMA Unwound ==
  ASSUME NEW S, NEW n \in Nat, NEW parts \in Seq(Seq(S)), Len(parts) = n, NEW tail \in Seq(S)
  PROVE  \E rest : Unwinds(rest, parts, tail, S)
<1>. DEFINE T == {m \in Nat : \A p \in Seq(Seq(S)), z \in Seq(S) :
                     Len(p) = m => \E rest : Unwinds(rest, p, z, S)}
<1>1. 0 \in T
  <2>. SUFFICES ASSUME NEW p \in Seq(Seq(S)), NEW z \in Seq(S), Len(p) = 0
                PROVE  \E rest : Unwinds(rest, p, z, S)
    OBVIOUS
  <2>. DEFINE r == [k \in 0 .. 0 |-> z]
  <2>1. FlattenSeq(p) = <<>>
    BY DEF FlattenSeq
  <2>2. r[0] = z /\ 0 .. Len(p) = {0} /\ 0 .. Len(p) - 1 = {}
    OBVIOUS
  <2>3. FlattenSeq(p) \o z = z
    BY <2>1, NothingBefore
  <2>. HIDE DEF r
  <2>4. Unwinds(r, p, z, S)
    BY <2>2, <2>3 DEF Unwinds
  <2>. QED BY <2>4
<1>2. ASSUME NEW m \in Nat, m \in T PROVE m + 1 \in T
  <2>. SUFFICES ASSUME NEW p \in Seq(Seq(S)), NEW z \in Seq(S), Len(p) = m + 1
                PROVE  \E rest : Unwinds(rest, p, z, S)
    OBVIOUS
  <2>. DEFINE q == SubSeq(p, 1, m)
              x == p[m + 1]
  <2>1. /\ q \in Seq(Seq(S)) /\ Len(q) = m /\ x \in Seq(S) /\ p = Append(q, x)
        /\ \A k \in 1 .. m : q[k] = p[k]
    <3>1. m + 1 \in 1 .. Len(p) /\ (m + 1) - 1 = m
      OBVIOUS
    <3>2. /\ SubSeq(p, 1, m) \in Seq(Seq(S)) /\ Len(SubSeq(p, 1, m)) = m
          /\ SubSeq(p, 1, m + 1) = Append(SubSeq(p, 1, m), p[m + 1]) /\ p[m + 1] \in Seq(S)
      BY <3>1, FirstOfThem
    <3>3. SubSeq(p, 1, m + 1) = p
      BY PrefixEnds
    <3>4. \A k \in 1 .. m : SubSeq(p, 1, m)[k] = p[k]
      OBVIOUS
    <3>. QED BY <3>2, <3>3, <3>4
  <2>. HIDE DEF q, x
  <2>2. x \o z \in Seq(S)
    BY <2>1, JoinOfTwo
  <2>3. PICK f : Unwinds(f, q, x \o z, S)
    BY <1>2, <2>1, <2>2
  <2>. DEFINE r == [k \in 0 .. m + 1 |-> IF k <= m THEN f[k] ELSE z]
  <2>4. r[m + 1] = z /\ \A k \in 0 .. m : r[k] = f[k]
    OBVIOUS
  <2>. HIDE DEF r
  <2>5. /\ f[0] = FlattenSeq(q) \o (x \o z) /\ f[m] = x \o z
        /\ \A k \in 0 .. m : f[k] \in Seq(S)
        /\ \A k \in 0 .. m - 1 : f[k] = q[k + 1] \o f[k + 1]
    BY <2>1, <2>3 DEF Unwinds
  <2>6. FlattenSeq(p) \o z = FlattenSeq(q) \o (x \o z)
    <3>1. FlattenSeq(p) = FlattenSeq(q) \o x /\ FlattenSeq(q) \in Seq(S)
      BY <2>1, FlattenMore
    <3>2. (FlattenSeq(q) \o x) \o z = FlattenSeq(q) \o (x \o z)
      <4>1. \A a \in Seq(S) : (a \o x) \o z = a \o (x \o z)
        BY <2>1
      <4>. QED BY <3>1, <4>1, Zenon
    <3>. QED BY <3>1, <3>2, Zenon
  <2>7. r[0] = FlattenSeq(p) \o z
    <3>1. r[0] = f[0]
      BY <2>4
    <3>. QED BY <2>5, <2>6, <3>1, Zenon
  <2>8. ASSUME NEW k \in 0 .. m + 1 PROVE r[k] \in Seq(S)
    <3>1. CASE k \in 0 .. m
      BY <2>4, <2>5, <3>1, Zenon
    <3>2. CASE k = m + 1
      BY <2>4, <3>2, Zenon
    <3>. QED BY <3>1, <3>2
  <2>9. ASSUME NEW k \in 0 .. m PROVE r[k] = p[k + 1] \o r[k + 1]
    <3>1. CASE k = m
      <4>1. r[k] = f[m] /\ p[k + 1] = x /\ r[k + 1] = z
        BY <2>4, <3>1 DEF x
      <4>. QED BY <2>5, <4>1, Zenon
    <3>2. CASE k # m
      <4>1. k \in 0 .. m - 1 /\ k + 1 \in 1 .. m /\ k + 1 \in 0 .. m
        BY <3>2
      <4>2. r[k] = f[k] /\ r[k + 1] = f[k + 1] /\ q[k + 1] = p[k + 1]
        BY <2>1, <2>4, <4>1
      <4>. QED BY <2>5, <4>1, <4>2, Zenon
    <3>. QED BY <3>1, <3>2
  <2>10. (m + 1) - 1 = m /\ Len(p) = m + 1
    OBVIOUS
  <2>11. Unwinds(r, p, z, S)
    BY <2>4, <2>7, <2>8, <2>9, <2>10 DEF Unwinds
  <2>. QED BY <2>11
<1>3. n \in T
  <2>. HIDE DEF T
  <2>. QED BY <1>1, <1>2, Induction
<1>. QED BY <1>3

(***************************************************************************)
(* The surround layouts.                                                   *)
(***************************************************************************)
GoodLayout(layout) ==
  /\ layout.streams \in 1 .. 5 /\ layout.coupled \in 0 .. layout.streams
  /\ layout.channels \in 1 .. 8 /\ layout.channels = layout.streams + layout.coupled
  /\ layout.mapping \in [1 .. layout.channels -> 0 .. layout.channels - 1]
  /\ \A c, d \in 1 .. layout.channels : layout.mapping[c] = layout.mapping[d] => c = d

LEMMA SurroundIsGood ==
  ASSUME NEW channels \in 1 .. 8, NEW family \in {0, 1}, Surround(channels, family).ok
  PROVE  /\ GoodLayout(Surround(channels, family))
         /\ Surround(channels, family).channels = channels
         /\ Surround(channels, family).family = family
<1>. DEFINE layout == Surround(channels, family)
<1>1. CASE family = 0 /\ channels = 1
  <2>1. layout = [ok |-> TRUE, family |-> 0, channels |-> 1, streams |-> 1,
                  coupled |-> 0, mapping |-> Below(1)]
    BY <1>1 DEF Surround
  <2>2. /\ layout.family = 0 /\ layout.channels = 1 /\ layout.streams = 1 /\ layout.coupled = 0
        /\ layout.mapping = Below(1)
    BY <2>1
  <2>3. Below(1) \in [1 .. 1 -> 0 .. 0] /\ Below(1)[1] = 0
    BY DEF Below
  <2>. HIDE DEF layout
  <2>4. GoodLayout(layout)
    BY <2>2, <2>3 DEF GoodLayout
  <2>. QED BY <1>1, <2>2, <2>4 DEF layout
<1>2. CASE family = 0 /\ channels = 2
  <2>1. layout = [ok |-> TRUE, family |-> 0, channels |-> 2, streams |-> 1,
                  coupled |-> 1, mapping |-> Below(2)]
    BY <1>2 DEF Surround
  <2>2. /\ layout.family = 0 /\ layout.channels = 2 /\ layout.streams = 1 /\ layout.coupled = 1
        /\ layout.mapping = Below(2)
    BY <2>1
  <2>3. Below(2) \in [1 .. 2 -> 0 .. 1] /\ Below(2)[1] = 0 /\ Below(2)[2] = 1
    BY DEF Below
  <2>. HIDE DEF layout
  <2>4. GoodLayout(layout)
    BY <2>2, <2>3 DEF GoodLayout
  <2>. QED BY <1>2, <2>2, <2>4 DEF layout
<1>3. CASE family = 0 /\ channels \notin {1, 2}
  BY <1>3 DEF Surround, Rejected
<1>4. CASE family = 1
  <2>1. /\ layout.family = 1 /\ layout.channels = channels
        /\ layout.streams = VorbisMappings[channels][1]
        /\ layout.coupled = VorbisMappings[channels][2]
        /\ layout.mapping = VorbisMappings[channels][3]
    BY <1>4 DEF Surround
  <2>. DEFINE v == VorbisMappings[channels]
              map == v[3]
  <2>2. /\ v[1] \in 1 .. 5 /\ v[2] \in 0 .. v[1] /\ channels = v[1] + v[2]
        /\ map \in [1 .. channels -> 0 .. channels - 1]
        /\ \A c, d \in 1 .. channels : map[c] = map[d] => c = d
    <3>1. CASE channels = 1
      BY <3>1 DEF VorbisMappings
    <3>2. CASE channels = 2
      BY <3>2 DEF VorbisMappings
    <3>3. CASE channels = 3
      BY <3>3 DEF VorbisMappings
    <3>4. CASE channels = 4
      BY <3>4 DEF VorbisMappings
    <3>5. CASE channels = 5
      BY <3>5 DEF VorbisMappings
    <3>6. CASE channels = 6
      BY <3>6 DEF VorbisMappings
    <3>7. CASE channels = 7
      BY <3>7 DEF VorbisMappings
    <3>8. CASE channels = 8
      BY <3>8 DEF VorbisMappings
    <3>9. \/ channels = 1 \/ channels = 2 \/ channels = 3 \/ channels = 4
          \/ channels = 5 \/ channels = 6 \/ channels = 7 \/ channels = 8
      OBVIOUS
    <3>. HIDE DEF v, map
    <3>. QED BY <3>1, <3>2, <3>3, <3>4, <3>5, <3>6, <3>7, <3>8, <3>9, Zenon
  <2>. DEFINE n == v[1]
              m == v[2]
  <2>. HIDE DEF layout, v, map, n, m
  <2>3. layout.streams = n /\ layout.coupled = m /\ layout.channels = channels /\ layout.mapping = map
    BY <2>1 DEF v, map, n, m
  <2>4. /\ n \in 1 .. 5 /\ m \in 0 .. n /\ channels = n + m
        /\ map \in [1 .. channels -> 0 .. channels - 1]
        /\ \A c, d \in 1 .. channels : map[c] = map[d] => c = d
    BY <2>2 DEF n, m
  <2>5. GoodLayout(layout)
    BY <2>3, <2>4, Zenon DEF GoodLayout
  <2>. QED BY <1>4, <2>1, <2>5 DEF layout
<1>. QED BY <1>1, <1>2, <1>3, <1>4

(* The stream a channel comes out of, and its place there.                 *)
LEMMA Carried ==
  ASSUME NEW layout, GoodLayout(layout), NEW c \in 1 .. layout.channels
  PROVE  /\ CarrierOf(layout, c) \in Streams(layout)
         /\ \A s \in Streams(layout) :
              layout.mapping[c] \in ToSet(Targets(layout, s)) <=> s = CarrierOf(layout, c)
         /\ ChannelsFor(layout, layout.mapping[c]) = {c}
<1>. DEFINE t == layout.mapping[c]
            n == layout.streams
            m == layout.coupled
<1>1. /\ n \in 1 .. 5 /\ m \in 0 .. n /\ t \in 0 .. n + m - 1
      /\ layout.channels = n + m /\ DOMAIN layout.mapping = 1 .. layout.channels
  <2>. DEFINE k == layout.channels
              map == layout.mapping
  <2>1. n \in 1 .. 5 /\ m \in 0 .. n /\ k = n + m /\ map \in [1 .. k -> 0 .. k - 1] /\ c \in 1 .. k
    <3>1. layout.streams \in 1 .. 5 /\ layout.coupled \in 0 .. layout.streams
      BY Zenon DEF GoodLayout
    <3>2. /\ layout.channels = layout.streams + layout.coupled
          /\ layout.mapping \in [1 .. layout.channels -> 0 .. layout.channels - 1]
      BY Zenon DEF GoodLayout
    <3>. QED BY <3>1, <3>2
  <2>. HIDE DEF n, m, k, map
  <2>2. k = n + m /\ DOMAIN map = 1 .. k /\ map[c] \in 0 .. k - 1
    BY <2>1
  <2>3. map[c] \in 0 .. n + m - 1
    BY <2>1, <2>2
  <2>. QED BY <2>1, <2>2, <2>3 DEF k, map
<1>2. ASSUME NEW s \in 0 .. n - 1
      PROVE  t \in ToSet(Targets(layout, s))
               <=> IF s < m THEN t = 2 * s \/ t = 2 * s + 1 ELSE t = s + m
  <2>1. CASE s < m
    <3>1. Targets(layout, s) = <<2 * s, 2 * s + 1>>
      BY <2>1 DEF Targets, Coupled, LeftTarget, RightTarget
    <3>2. ToSet(<<2 * s, 2 * s + 1>>) = {2 * s, 2 * s + 1}
      BY DEF ToSet
    <3>. HIDE DEF t, m
    <3>. QED BY <2>1, <3>1, <3>2
  <2>2. CASE ~(s < m)
    <3>1. Targets(layout, s) = <<s + m>>
      BY <2>2 DEF Targets, Coupled, MonoTarget
    <3>2. ToSet(<<s + m>>) = {s + m}
      BY DEF ToSet
    <3>. HIDE DEF t, m
    <3>. QED BY <2>2, <3>1, <3>2
  <2>. QED BY <2>1, <2>2
<1>. DEFINE u == IF t < 2 * m THEN t \div 2 ELSE t - m
<1>3. /\ u \in 0 .. n - 1
      /\ \A s \in 0 .. n - 1 :
           (IF s < m THEN t = 2 * s \/ t = 2 * s + 1 ELSE t = s + m) <=> s = u
  <2>. HIDE DEF t, n, m
  <2>. QED BY <1>1
<1>. HIDE DEF u
<1>4. \A s \in 0 .. n - 1 : t \in ToSet(Targets(layout, s)) <=> s = u
  BY <1>2, <1>3
<1>5. Streams(layout) = 0 .. n - 1
  BY DEF Streams
<1>6. CarrierOf(layout, c) = u
  <2>1. CarrierOf(layout, c) = CHOOSE s \in Streams(layout) : t \in ToSet(Targets(layout, s))
    BY DEF CarrierOf
  <2>. HIDE DEF t, n
  <2>. QED BY <1>3, <1>4, <1>5, <2>1
<1>7. ChannelsFor(layout, t) = {c}
  <2>1. \A d \in 1 .. layout.channels : layout.mapping[d] = t => d = c
    BY DEF GoodLayout
  <2>. QED BY <1>1, <2>1 DEF ChannelsFor
<1>. QED BY <1>3, <1>4, <1>5, <1>6, <1>7

(***************************************************************************)
(* The layout of the header.  Its tenth byte is the channel count, its     *)
(* nineteenth the family.                                                  *)
(***************************************************************************)
JoinedAre(S, a, b) ==
  /\ a \o b \in Seq(S) /\ Len(a \o b) = Len(a) + Len(b)
  /\ \A j \in 1 .. Len(a) : (a \o b)[j] = a[j]
  /\ \A j \in 1 .. Len(b) : (a \o b)[Len(a) + j] = b[j]

LEMMA JoinedSo ==
  ASSUME NEW S, NEW a \in Seq(S), NEW b \in Seq(S)
  PROVE  JoinedAre(S, a, b)
BY DEF JoinedAre

LEMMA LeIs ==
  ASSUME NEW n, NEW k \in Nat
  PROVE  Le(n, k) \in Seq({Le(n, k)[i] : i \in 1 .. k}) /\ Len(Le(n, k)) = k
<1>. DEFINE le == Le(n, k)
            value(i) == (n \div 256 ^ (i - 1)) % 256
<1>. HIDE DEF value
<1>1. le = [i \in 1 .. k |-> value(i)]
  BY DEF Le, value
<1>2. \A i \in 1 .. k : value(i) \in {le[j] : j \in 1 .. k}
  BY <1>1
<1>. HIDE DEF le
<1>3. le \in Seq({le[i] : i \in 1 .. k}) /\ Len(le) = k
  BY <1>1, <1>2
<1>. QED BY <1>3 DEF le

LEMMA Widened ==
  ASSUME NEW S, NEW T, S \subseteq T, NEW s \in Seq(S)
  PROVE  s \in Seq(T)
OBVIOUS

LEMMA HeadTells ==
  ASSUME NEW layout, GoodLayout(layout), NEW rate, NEW app, NEW gain
  PROVE  LET data == HeadPacket(HeadFor(layout, rate, app, gain))
         IN data[10] = layout.channels /\ data[19] = layout.family
<1>. DEFINE head == HeadFor(layout, rate, app, gain)
            data == HeadPacket(head)
            n == PreSkip48k(Lookahead(rate, app), rate)
            map == IF layout.family = 0 THEN <<>> ELSE layout.mapping
            c == Le(n, 2)
            d == Le(rate, 4)
            e == Le(gain % 65536, 2)
            A == {c[i] : i \in 1 .. 2}
            B == {d[i] : i \in 1 .. 4}
            C == {e[i] : i \in 1 .. 2}
            S == Nat \cup {layout.family} \cup A \cup B \cup C
            g == IF layout.family = 0 THEN <<>> ELSE <<layout.streams, layout.coupled>> \o map
<1>1. c \in Seq(A) /\ Len(c) = 2 /\ d \in Seq(B) /\ Len(d) = 4 /\ e \in Seq(C) /\ Len(e) = 2
  <2>1. \A x : Le(x, 2) \in Seq({Le(x, 2)[i] : i \in 1 .. 2}) /\ Len(Le(x, 2)) = 2
    BY LeIs
  <2>2. \A x : Le(x, 4) \in Seq({Le(x, 4)[i] : i \in 1 .. 4}) /\ Len(Le(x, 4)) = 4
    BY LeIs
  <2>3. c \in Seq(A) /\ Len(c) = 2
    BY <2>1
  <2>4. d \in Seq(B) /\ Len(d) = 4
    BY <2>2
  <2>5. e \in Seq(C) /\ Len(e) = 2
    BY <2>1
  <2>. QED BY <2>3, <2>4, <2>5
<1>2. head.channels = layout.channels /\ head.preSkip = n /\ head.rate = rate /\ head.gain = gain
      /\ head.family = layout.family /\ head.streams = layout.streams /\ head.coupled = layout.coupled
      /\ head.mapping = map
  <2>. HIDE DEF n, map
  <2>1. head = [ok |-> TRUE, channels |-> layout.channels, preSkip |-> n, rate |-> rate, gain |-> gain,
                family |-> layout.family, streams |-> layout.streams, coupled |-> layout.coupled,
                mapping |-> map]
    BY Zenon DEF HeadFor, n, map
  <2>. HIDE DEF head
  <2>. QED BY <2>1
<1>. HIDE DEF c, d, e, A, B, C, head, n
<1>3. c \in Seq(S) /\ d \in Seq(S) /\ e \in Seq(S)
  <2>1. A \subseteq S /\ B \subseteq S /\ C \subseteq S /\ Nat \subseteq S
    OBVIOUS
  <2>. HIDE DEF S
  <2>. QED BY <1>1, <2>1, Widened, Zenon
<1>4. /\ layout.streams \in Nat /\ layout.coupled \in Nat /\ layout.channels \in Nat
      /\ layout.mapping \in Seq(Nat)
  <2>1. layout.streams \in 1 .. 5 /\ layout.coupled \in 0 .. layout.streams
    BY Zenon DEF GoodLayout
  <2>2. /\ layout.channels \in 1 .. 8
        /\ layout.mapping \in [1 .. layout.channels -> 0 .. layout.channels - 1]
    BY Zenon DEF GoodLayout
  <2>. DEFINE k == layout.channels
              m == layout.mapping
  <2>. HIDE DEF k, m
  <2>3. k \in Nat /\ m \in [1 .. k -> Nat]
    BY <2>2 DEF k, m
  <2>4. m \in Seq(Nat)
    BY <2>3
  <2>. QED BY <2>1, <2>3, <2>4 DEF k, m
<1>5. g \in Seq(Nat)
  BY <1>4
<1>6. HeadMagic \in Seq(Nat) /\ Len(HeadMagic) = 8
  BY DEF HeadMagic
<1>7. data = HeadMagic \o <<1, layout.channels>> \o c \o d \o e \o <<layout.family>> \o g
  BY <1>2 DEF HeadPacket, c, d, e
<1>. DEFINE b == <<1, layout.channels>>
            f == <<layout.family>>
<1>8. /\ b \in Seq(Nat) /\ Len(b) = 2 /\ b[2] = layout.channels
      /\ Len(f) = 1 /\ f[1] = layout.family /\ f \in Seq({layout.family})
  BY <1>4
<1>9. Nat \subseteq S /\ {layout.family} \subseteq S
  OBVIOUS
<1>. HIDE DEF b, f, g, S, data
<1>10. b \in Seq(S) /\ f \in Seq(S) /\ g \in Seq(S) /\ HeadMagic \in Seq(S)
  BY <1>5, <1>6, <1>8, <1>9, Widened, Zenon
<1>11. data[10] = b[2] /\ data[19] = f[1]
  <2>. DEFINE a == HeadMagic
  <2>00. data = a \o b \o c \o d \o e \o f \o g
    BY <1>7, Zenon DEF b, f
  <2>. HIDE DEF a
  <2>0. /\ a \in Seq(S) /\ Len(a) = 8 /\ b \in Seq(S) /\ Len(b) = 2 /\ c \in Seq(S) /\ Len(c) = 2
        /\ d \in Seq(S) /\ Len(d) = 4 /\ e \in Seq(S) /\ Len(e) = 2 /\ f \in Seq(S) /\ Len(f) = 1
        /\ g \in Seq(S)
    BY <1>1, <1>3, <1>6, <1>8, <1>10, Zenon DEF a
  <2>. DEFINE ab == a \o b
              abc == ab \o c
              abcd == abc \o d
              abcde == abcd \o e
              abcdef == abcde \o f
              all == abcdef \o g
  <2>1. ab \in Seq(S) /\ Len(ab) = 10 /\ ab[10] = b[2]
    <3>1. JoinedAre(S, a, b)
      BY <2>0, JoinedSo, Zenon
    <3>. HIDE DEF ab
    <3>2. /\ ab \in Seq(S) /\ Len(ab) = 8 + Len(b)
          /\ \A i \in 1 .. 8 : ab[i] = a[i]
          /\ \A i \in 1 .. Len(b) : ab[8 + i] = b[i]
      BY <2>0, <3>1, Zenon DEF JoinedAre, ab
    <3>. QED BY <2>0, <3>2
  <2>. HIDE DEF ab
  <2>2. abc \in Seq(S) /\ Len(abc) = 12 /\ abc[10] = b[2]
    <3>1. JoinedAre(S, ab, c)
      BY <2>0, <2>1, JoinedSo, Zenon
    <3>. HIDE DEF abc
    <3>2. /\ abc \in Seq(S) /\ Len(abc) = 10 + Len(c)
          /\ \A i \in 1 .. 10 : abc[i] = ab[i]
          /\ \A i \in 1 .. Len(c) : abc[10 + i] = c[i]
      BY <2>0, <2>1, <3>1, Zenon DEF JoinedAre, abc
    <3>. QED BY <2>0, <2>1, <3>2
  <2>. HIDE DEF abc
  <2>3. abcd \in Seq(S) /\ Len(abcd) = 16 /\ abcd[10] = b[2]
    <3>1. JoinedAre(S, abc, d)
      BY <2>0, <2>2, JoinedSo, Zenon
    <3>. HIDE DEF abcd
    <3>2. /\ abcd \in Seq(S) /\ Len(abcd) = 12 + Len(d)
          /\ \A i \in 1 .. 12 : abcd[i] = abc[i]
          /\ \A i \in 1 .. Len(d) : abcd[12 + i] = d[i]
      BY <2>0, <2>2, <3>1, Zenon DEF JoinedAre, abcd
    <3>. QED BY <2>0, <2>2, <3>2
  <2>. HIDE DEF abcd
  <2>4. abcde \in Seq(S) /\ Len(abcde) = 18 /\ abcde[10] = b[2]
    <3>1. JoinedAre(S, abcd, e)
      BY <2>0, <2>3, JoinedSo, Zenon
    <3>. HIDE DEF abcde
    <3>2. /\ abcde \in Seq(S) /\ Len(abcde) = 16 + Len(e)
          /\ \A i \in 1 .. 16 : abcde[i] = abcd[i]
          /\ \A i \in 1 .. Len(e) : abcde[16 + i] = e[i]
      BY <2>0, <2>3, <3>1, Zenon DEF JoinedAre, abcde
    <3>. QED BY <2>0, <2>3, <3>2
  <2>. HIDE DEF abcde
  <2>5. abcdef \in Seq(S) /\ Len(abcdef) = 19 /\ abcdef[10] = b[2] /\ abcdef[19] = f[1]
    <3>1. JoinedAre(S, abcde, f)
      BY <2>0, <2>4, JoinedSo, Zenon
    <3>. HIDE DEF abcdef
    <3>2. /\ abcdef \in Seq(S) /\ Len(abcdef) = 18 + Len(f)
          /\ \A i \in 1 .. 18 : abcdef[i] = abcde[i]
          /\ \A i \in 1 .. Len(f) : abcdef[18 + i] = f[i]
      BY <2>0, <2>4, <3>1, Zenon DEF JoinedAre, abcdef
    <3>. QED BY <2>0, <2>4, <3>2
  <2>. HIDE DEF abcdef
  <2>6. all[10] = b[2] /\ all[19] = f[1]
    <3>1. JoinedAre(S, abcdef, g)
      BY <2>0, <2>5, JoinedSo, Zenon
    <3>. HIDE DEF all
    <3>2. /\ all \in Seq(S) /\ Len(all) = 19 + Len(g)
          /\ \A i \in 1 .. 19 : all[i] = abcdef[i]
          /\ \A i \in 1 .. Len(g) : all[19 + i] = g[i]
      BY <2>0, <2>5, <3>1, Zenon DEF JoinedAre, all
    <3>3. 10 \in 1 .. 19 /\ 19 \in 1 .. 19
      OBVIOUS
    <3>. QED BY <2>0, <2>5, <3>2, <3>3, Zenon
  <2>. HIDE DEF all
  <2>. QED BY <2>00, <2>6 DEF all, abcdef, abcde, abcd, abc, ab
<1>. QED BY <1>8, <1>11, Zenon DEF data, head

(* A header that is taken gives the channels and the family it was made    *)
(* with, which say what the layout is.                                     *)
LEMMA HeadReads ==
  ASSUME NEW layout, GoodLayout(layout), NEW rate, NEW app, NEW gain,
         ParseHead(HeadPacket(HeadFor(layout, rate, app, gain))).ok
  PROVE  LET head == ParseHead(HeadPacket(HeadFor(layout, rate, app, gain)))
         IN head.channels = layout.channels /\ head.family = layout.family
<1>. DEFINE data == HeadPacket(HeadFor(layout, rate, app, gain))
            head == ParseHead(data)
            streams == IF data[19] = 0 THEN Implicit(data[10]) ELSE Declared(data, data[10])
            yes == TRUE
            preSkip == Unsigned(At(data, 10, 2))
            r == Unsigned(At(data, 12, 4))
            g == Signed16(Unsigned(At(data, 16, 2)))
            s == streams.streams
            c == streams.coupled
            m == streams.mapping
<1>1. data[10] = layout.channels /\ data[19] = layout.family
  BY HeadTells
<1>2. ~Rejected.ok
  BY DEF Rejected
<1>. HIDE DEF data, streams, preSkip, r, g, s, c, m
<1>3. head = [ok |-> TRUE, channels |-> data[10], preSkip |-> preSkip, rate |-> r, gain |-> g,
              family |-> data[19], streams |-> s, coupled |-> c, mapping |-> m]
  <2>1. head.ok
    BY DEF data
  <2>2. head # Rejected
    BY <1>2, <2>1
  <2>. QED BY <2>2, Zenon DEF ParseHead, streams, preSkip, r, g, s, c, m
<1>. HIDE DEF head
<1>4. head.channels = data[10] /\ head.family = data[19]
  BY <1>3
<1>. QED BY <1>1, <1>4 DEF head, data

(***************************************************************************)
(* What is coded.  A frame says its call, and its stream's channels.       *)
(***************************************************************************)
GoodStyle(style) ==
  /\ style.dropped \in BOOLEAN /\ style.padTo \in Nat
  /\ style.sizes \in Seq(Nat) /\ Len(style.sizes) # 0
  /\ Len(style.sizes) * Spans[0] <= MaxSpan
  /\ \A j \in DOMAIN style.sizes : style.sizes[j] + 3 <= MaxFrame

LEMMA InputsTell ==
  ASSUME NEW layout, GoodLayout(layout), NEW target
  PROVE  InputFor(layout, target) \in Byte
<1>. DEFINE channels == ChannelsFor(layout, target)
<1>1. channels \subseteq 1 .. 8
  <2>1. /\ layout.channels \in 1 .. 8
        /\ layout.mapping \in [1 .. layout.channels -> 0 .. layout.channels - 1]
    BY Zenon DEF GoodLayout
  <2>2. channels \subseteq DOMAIN layout.mapping
    BY Zenon DEF ChannelsFor
  <2>. DEFINE k == layout.channels
              map == layout.mapping
  <2>. HIDE DEF channels, k, map
  <2>3. DOMAIN map = 1 .. k /\ k \in 1 .. 8
    BY <2>1 DEF k, map
  <2>4. 1 .. k \subseteq 1 .. 8
    BY <2>3
  <2>. QED BY <2>2, <2>3, <2>4, Zenon DEF map
<1>. HIDE DEF channels
<1>2. InputFor(layout, target) = IF channels = {} THEN NoChannel ELSE Min(channels)
  BY Zenon DEF InputFor, channels
<1>3. channels # {} => Min(channels) \in 1 .. 8
  <2>. SUFFICES ASSUME channels # {} PROVE Min(channels) \in 1 .. 8
    OBVIOUS
  <2>0. channels \subseteq Nat
    BY <1>1
  <2>1. PICK x \in channels : \A y \in channels : x <= y
    BY <2>0, LeastNumber
  <2>2. Min(channels) = x
    <3>1. channels \subseteq Int /\ x \in channels /\ \A y \in channels : x <= y
      BY <2>0, <2>1
    <3>. HIDE DEF InputFor
    <3>. QED BY <3>1, MinIs
  <2>. QED BY <1>1, <2>2
<1>4. 0 .. 8 \subseteq Byte
  <2>1. 8 \in Byte
    BY StyleAssumption
  <2>2. Base \in Nat
    BY ByteAssumption
  <2>. QED BY <2>1, <2>2 DEF Byte
<1>5. InputFor(layout, target) \in 0 .. 8
  BY <1>2, <1>3 DEF NoChannel
<1>. QED BY <1>4, <1>5

LEMMA TwoAtMost ==
  ASSUME NEW layout, NEW s
  PROVE  Len(Targets(layout, s)) \in {1, 2} /\ DOMAIN Targets(layout, s) = 1 .. Len(Targets(layout, s))
<1>1. CASE Coupled(layout, s)
  <2>1. Targets(layout, s) = <<LeftTarget(s), RightTarget(s)>>
    BY <1>1 DEF Targets
  <2>. QED BY <2>1
<1>2. CASE ~Coupled(layout, s)
  <2>1. Targets(layout, s) = <<MonoTarget(layout, s)>>
    BY <1>2 DEF Targets
  <2>. QED BY <2>1
<1>. QED BY <1>1, <1>2

(* One frame.                                                              *)
Frame(layout, call, s, size) ==
  <<call>> \o [k \in DOMAIN Targets(layout, s) |-> InputFor(layout, Targets(layout, s)[k])]
    \o [k \in 1 .. size |-> 0]

LEMMA FrameSays ==
  ASSUME NEW layout, GoodLayout(layout), NEW call \in Byte, NEW s, NEW size \in Nat
  PROVE  /\ Frame(layout, call, s, size) \in Seq(Byte)
         /\ Len(Frame(layout, call, s, size)) \in 1 .. size + 3
         /\ Frame(layout, call, s, size)[1] = call
         /\ \A k \in DOMAIN Targets(layout, s) :
              Frame(layout, call, s, size)[1 + k] = InputFor(layout, Targets(layout, s)[k])
<1>. DEFINE targets == Targets(layout, s)
            n == Len(targets)
            input(k) == InputFor(layout, targets[k])
            a == <<call>>
            b == [k \in DOMAIN targets |-> input(k)]
            c == [k \in 1 .. size |-> 0]
            ab == a \o b
            all == ab \o c
<1>1. n \in {1, 2} /\ DOMAIN targets = 1 .. n
  BY TwoAtMost
<1>2. \A k \in 1 .. n : input(k) \in Byte
  BY InputsTell
<1>3. 0 \in Byte
  BY ByteAssumption DEF Byte
<1>. HIDE DEF input, targets, n
<1>4. a \in Seq(Byte) /\ Len(a) = 1 /\ a[1] = call
  OBVIOUS
<1>5. b \in Seq(Byte) /\ Len(b) = n /\ \A k \in 1 .. n : b[k] = input(k)
  BY <1>1, <1>2
<1>6. c \in Seq(Byte) /\ Len(c) = size
  BY <1>3
<1>. HIDE DEF a, b, c
<1>7. /\ ab \in Seq(Byte) /\ Len(ab) = 1 + n /\ ab[1] = call
      /\ \A k \in 1 .. n : ab[1 + k] = input(k)
  <2>1. JoinedAre(Byte, a, b)
    BY <1>4, <1>5, JoinedSo, Zenon
  <2>. HIDE DEF ab
  <2>2. /\ ab \in Seq(Byte) /\ Len(ab) = 1 + n
        /\ \A i \in 1 .. 1 : ab[i] = a[i]
        /\ \A i \in 1 .. n : ab[1 + i] = b[i]
    BY <1>4, <1>5, <2>1, Zenon DEF JoinedAre, ab
  <2>3. 1 \in 1 .. 1
    OBVIOUS
  <2>. QED BY <1>4, <1>5, <2>2, <2>3, Zenon
<1>. HIDE DEF ab
<1>8. /\ all \in Seq(Byte) /\ Len(all) = (1 + n) + size /\ all[1] = call
      /\ \A k \in 1 .. n : all[1 + k] = input(k)
  <2>1. JoinedAre(Byte, ab, c)
    BY <1>6, <1>7, JoinedSo, Zenon
  <2>. HIDE DEF all
  <2>2. /\ all \in Seq(Byte) /\ Len(all) = (1 + n) + size
        /\ \A i \in 1 .. 1 + n : all[i] = ab[i]
    BY <1>6, <1>7, <2>1, Zenon DEF JoinedAre, all
  <2>3. 1 \in 1 .. 1 + n /\ \A k \in 1 .. n : 1 + k \in 1 .. 1 + n
    BY <1>1
  <2>. QED BY <1>7, <2>2, <2>3, Zenon
<1>. HIDE DEF all
<1>9. Len(all) \in 1 .. size + 3
  BY <1>1, <1>8
<1>10. all = Frame(layout, call, s, size)
  BY Zenon DEF Frame, all, ab, a, b, c, input, targets
<1>. QED BY <1>1, <1>8, <1>9, <1>10, Zenon DEF input, targets

(* The frames of a stream in a call.                                       *)
LEMMA CodedAre ==
  ASSUME NEW layout, GoodLayout(layout), NEW call \in Byte, NEW s,
         NEW style, GoodStyle(style)
  PROVE  /\ DOMAIN Coded(layout, call, s, style) = DOMAIN style.sizes
         /\ \A i \in DOMAIN style.sizes :
              Coded(layout, call, s, style)[i] =
                IF style.dropped THEN <<>> ELSE Frame(layout, call, s, style.sizes[i])
         /\ FitFrames(0, Coded(layout, call, s, style))
<1>. DEFINE fs == Coded(layout, call, s, style)
            sizes == style.sizes
            n == Len(sizes)
            frame(i) == IF style.dropped THEN <<>> ELSE Frame(layout, call, s, sizes[i])
<1>1. fs = [i \in DOMAIN sizes |-> frame(i)]
  BY Zenon DEF Coded, Frame
<1>2. sizes \in Seq(Nat) /\ n # 0 /\ n * Spans[0] <= MaxSpan
      /\ \A j \in DOMAIN sizes : sizes[j] + 3 <= MaxFrame
  BY Zenon DEF GoodStyle
<1>. HIDE DEF frame, fs, sizes, n
<1>3. n \in Nat \ {0} /\ DOMAIN sizes = 1 .. n /\ \A i \in 1 .. n : sizes[i] \in Nat
  BY <1>2 DEF n
<1>4. ASSUME NEW i \in 1 .. n
      PROVE  frame(i) \in Seq(Byte) /\ Len(frame(i)) <= MaxFrame
  <2>1. sizes[i] \in Nat /\ sizes[i] + 3 <= MaxFrame
    BY <1>2, <1>3
  <2>2. CASE style.dropped
    <3>1. frame(i) = <<>>
      BY <2>2 DEF frame
    <3>. QED BY <2>1, <3>1, MaxFrameNat
  <2>3. CASE ~style.dropped
    <3>. DEFINE f == Frame(layout, call, s, sizes[i])
    <3>1. f \in Seq(Byte) /\ Len(f) \in 1 .. sizes[i] + 3
      BY <2>1, FrameSays
    <3>2. frame(i) = f
      BY <2>3 DEF frame
    <3>. HIDE DEF f
    <3>. QED BY <2>1, <3>1, <3>2, MaxFrameNat
  <2>. QED BY <2>2, <2>3
<1>5. DOMAIN fs = 1 .. n /\ \A i \in 1 .. n : fs[i] = frame(i)
  BY <1>1, <1>3
<1>6. fs \in Seq(Seq(Byte)) /\ Len(fs) = n
  BY <1>1, <1>3, <1>4
<1>7. 0 \in DOMAIN Spans
  <2>1. 0 \in 0 .. (Base \div 4) - 1
    BY ByteAssumption
  <2>2. DOMAIN Spans = 0 .. (Base \div 4) - 1
    BY SpanAssumption
  <2>. QED BY <2>1, <2>2
<1>8. FitFrames(0, fs)
  <2>1. Len(fs) # 0 /\ Len(fs) * Spans[0] <= MaxSpan /\ \A i \in 1 .. Len(fs) : Len(fs[i]) <= MaxFrame
    BY <1>2, <1>3, <1>4, <1>5, <1>6
  <2>. QED BY <1>6, <1>7, <2>1, Zenon DEF FitFrames
<1>. QED BY <1>3, <1>5, <1>8 DEF frame, fs, sizes

(* What the stream's decoder makes of them.                                *)
Own(layout, call, style, c) ==
  [i \in DOMAIN style[CarrierOf(layout, c) + 1].sizes |->
     IF style[CarrierOf(layout, c) + 1].dropped THEN Dropped ELSE [call |-> call, channel |-> c]]

LEMMA OwnHeard ==
  ASSUME NEW layout, GoodLayout(layout), NEW call \in Byte, NEW style,
         NEW c \in 1 .. layout.channels, GoodStyle(style[CarrierOf(layout, c) + 1])
  PROVE  LET s == CarrierOf(layout, c)
             targets == Targets(layout, s)
         IN Sound(Coded(layout, call, s, style[s + 1]),
                  CHOOSE k \in DOMAIN targets : targets[k] = layout.mapping[c])
              = Own(layout, call, style, c)
<1>. DEFINE s == CarrierOf(layout, c)
            targets == Targets(layout, s)
            t == layout.mapping[c]
            k == CHOOSE j \in DOMAIN targets : targets[j] = t
            st == style[s + 1]
            fs == Coded(layout, call, s, st)
<1>1. t \in ToSet(targets) /\ ChannelsFor(layout, t) = {c}
  BY Carried, Zenon
<1>2. k \in DOMAIN targets /\ targets[k] = t
  <2>1. \E j \in DOMAIN targets : targets[j] = t
    <3>. HIDE DEF targets, t
    <3>. QED BY <1>1 DEF ToSet
  <2>. QED BY <2>1
<1>. HIDE DEF k
<1>3. InputFor(layout, t) = c
  <2>1. c \in Nat /\ {c} # {}
    <3>1. layout.channels \in 1 .. 8
      BY Zenon DEF GoodLayout
    <3>. QED BY <3>1
  <2>2. Min({c}) = c
    BY <2>1, MinIs
  <2>3. InputFor(layout, t) = IF ChannelsFor(layout, t) = {} THEN NoChannel ELSE Min(ChannelsFor(layout, t))
    BY Zenon DEF InputFor
  <2>. HIDE DEF t
  <2>. QED BY <1>1, <2>1, <2>2, <2>3, Zenon
<1>4. /\ DOMAIN fs = DOMAIN st.sizes /\ st.dropped \in BOOLEAN
      /\ \A i \in DOMAIN st.sizes :
           /\ st.sizes[i] \in Nat
           /\ fs[i] = IF st.dropped THEN <<>> ELSE Frame(layout, call, s, st.sizes[i])
  <2>0. GoodStyle(st)
    OBVIOUS
  <2>1. /\ DOMAIN fs = DOMAIN st.sizes
        /\ \A i \in DOMAIN st.sizes :
             fs[i] = IF st.dropped THEN <<>> ELSE Frame(layout, call, s, st.sizes[i])
    <3>. HIDE DEF s, st
    <3>. QED BY <2>0, CodedAre
  <2>2. st.dropped \in BOOLEAN /\ st.sizes \in Seq(Nat)
    BY <2>0, Zenon DEF GoodStyle
  <2>. DEFINE sizes == st.sizes
  <2>3. \A i \in DOMAIN sizes : sizes[i] \in Nat
    <3>. HIDE DEF sizes
    <3>1. sizes \in Seq(Nat)
      BY <2>2 DEF sizes
    <3>. QED BY <3>1
  <2>. QED BY <2>1, <2>2, <2>3, Zenon
<1>. DEFINE said(i) == IF fs[i] = <<>> THEN Dropped ELSE [call |-> fs[i][1], channel |-> fs[i][1 + k]]
            owned(i) == IF st.dropped THEN Dropped ELSE [call |-> call, channel |-> c]
<1>5. ASSUME NEW i \in DOMAIN st.sizes
      PROVE  said(i) = owned(i)
  <2>1. CASE st.dropped
    <3>1. fs[i] = <<>>
      BY <1>4, <2>1
    <3>. QED BY <2>1, <3>1
  <2>2. CASE ~st.dropped
    <3>. DEFINE f == Frame(layout, call, s, st.sizes[i])
    <3>1. fs[i] = f
      BY <1>4, <2>2
    <3>2. /\ f \in Seq(Byte) /\ Len(f) \in 1 .. st.sizes[i] + 3 /\ f[1] = call
          /\ \A j \in DOMAIN targets : f[1 + j] = InputFor(layout, targets[j])
      <4>1. st.sizes[i] \in Nat
        BY <1>4
      <4>. DEFINE size == st.sizes[i]
      <4>. HIDE DEF size, s, st
      <4>2. size \in Nat
        BY <4>1 DEF size
      <4>3. /\ Frame(layout, call, s, size) \in Seq(Byte)
            /\ Len(Frame(layout, call, s, size)) \in 1 .. size + 3
            /\ Frame(layout, call, s, size)[1] = call
            /\ \A j \in DOMAIN targets : Frame(layout, call, s, size)[1 + j] = InputFor(layout, targets[j])
        BY <4>2, FrameSays
      <4>. QED BY <4>3, Zenon DEF size
    <3>. HIDE DEF f, fs, st, s, targets, t
    <3>3. f # <<>> /\ f[1] = call /\ f[1 + k] = c
      <4>1. f[1 + k] = InputFor(layout, targets[k])
        BY <1>2, <3>2, Zenon
      <4>2. f # <<>>
        <5>1. st.sizes[i] \in Nat
          BY <1>4
        <5>. QED BY <3>2, <5>1
      <4>. QED BY <1>2, <1>3, <3>2, <4>1, <4>2, Zenon
    <3>. QED BY <2>2, <3>1, <3>3, Zenon
  <2>. QED BY <2>1, <2>2
<1>6. Sound(fs, k) = [i \in DOMAIN fs |-> said(i)]
  BY Zenon DEF Sound
<1>7. Own(layout, call, style, c) = [i \in DOMAIN st.sizes |-> owned(i)]
  BY Zenon DEF Own
<1>. HIDE DEF said, owned, fs, st
<1>8. Sound(fs, k) = Own(layout, call, style, c)
  BY <1>4, <1>5, <1>6, <1>7
<1>. QED BY <1>8, Zenon DEF fs, st, k

(***************************************************************************)
(* A stream's packet, alone and in front of others.                        *)
(***************************************************************************)
LEMMA EmptyIsNone ==
  ASSUME NEW selfd
  PROVE  ~ParsePacket(<<>>, selfd).ok
<1>. DEFINE none == <<>>
            read == AllSizes(none, Header(none), selfd)
            cut == Cut(none, read)
<1>1. Header(none) = Malformed /\ ~Malformed.ok
  BY DEF Header, Malformed
<1>. HIDE DEF none
<1>2. read = Malformed
  BY <1>1, Zenon DEF AllSizes
<1>. HIDE DEF read
<1>3. cut = [ok |-> FALSE, config |-> 0, frames |-> <<>>, consumed |-> 0]
  BY <1>1, <1>2, Zenon DEF Cut
<1>. HIDE DEF cut
<1>4. ~cut.ok
  BY <1>3
<1>5. ParsePacket(none, selfd) = cut
  BY Zenon DEF ParsePacket, cut, read
<1>. QED BY <1>4, <1>5 DEF none

LEMMA AloneReads ==
  ASSUME NEW fs, FitFrames(0, fs), NEW padTo \in Nat
  PROVE  /\ EmitPacket(0, fs, padTo, FALSE) \in Seq(Byte)
         /\ EmitPacket(0, fs, padTo, FALSE) # <<>>
         /\ ParsePacket(EmitPacket(0, fs, padTo, FALSE), FALSE).ok
         /\ ParsePacket(EmitPacket(0, fs, padTo, FALSE), FALSE).config = 0
         /\ ParsePacket(EmitPacket(0, fs, padTo, FALSE), FALSE).frames = fs
<1>. DEFINE data == EmitPacket(0, fs, padTo, FALSE)
            parsed == ParsePacket(data, FALSE)
<1>1. data \in Seq(Byte) /\ parsed.ok /\ Means(parsed) = [config |-> 0, frames |-> fs]
  BY Emitted
<1>2. Means(parsed) = [config |-> parsed.config, frames |-> parsed.frames]
  BY Zenon DEF Means
<1>. HIDE DEF data
<1>3. data # <<>>
  BY <1>1, EmptyIsNone
<1>. DEFINE c == parsed.config
            f == parsed.frames
            zero == 0
<1>. HIDE DEF parsed, c, f, zero
<1>4. [config |-> c, frames |-> f] = [config |-> zero, frames |-> fs]
  BY <1>1, <1>2, Zenon DEF c, f, zero
<1>5. c = zero /\ f = fs
  BY <1>4
<1>. QED BY <1>1, <1>3, <1>5, Zenon DEF c, f, zero, parsed, data

LEMMA DelimitedReads ==
  ASSUME NEW fs, FitFrames(0, fs), NEW padTo \in Nat, NEW t \in Seq(Byte)
  PROVE  LET delim == Delimited(EmitPacket(0, fs, padTo, FALSE))
             taken == TakeSelfDelimited(delim \o t)
         IN /\ delim \in Seq(Byte)
            /\ taken.ok /\ taken.consumed = Len(delim)
            /\ taken.packet = EmitPacket(0, fs, NoPadding, FALSE)
<1>. DEFINE data == EmitPacket(0, fs, padTo, FALSE)
            delim == Delimited(data)
            whole == EmitPacket(0, fs, NoPadding, TRUE)
            parsed == ParsePacket(whole \o t, TRUE)
            taken == TakeSelfDelimited(whole \o t)
            yes == TRUE
            gone == parsed.consumed
            copy == Reframed(parsed)
<1>1. delim = whole
  <2>1. ParsePacket(data, FALSE).config = 0 /\ ParsePacket(data, FALSE).frames = fs
    BY AloneReads
  <2>. HIDE DEF data
  <2>. QED BY <2>1, Zenon DEF Delimited
<1>2. NoPadding \in Nat
  BY DEF NoPadding
<1>3. whole \in Seq(Byte)
  BY <1>2, Emitted
<1>4. parsed.ok /\ parsed.config = 0 /\ parsed.frames = fs /\ parsed.consumed = Len(whole)
  <2>. DEFINE pad == NoPadding
              selfd == TRUE
  <2>1. pad \in Nat /\ selfd \in BOOLEAN /\ (selfd => pad = NoPadding) /\ (selfd \/ t = <<>>)
    BY <1>2
  <2>. HIDE DEF pad, selfd
  <2>2. LET packed == EmitPacket(0, fs, pad, selfd)
            p == ParsePacket(packed \o t, selfd)
        IN /\ p.ok /\ p.config = 0 /\ p.frames = fs
           /\ pad = NoPadding => p.consumed = Len(packed)
    BY <2>1, EmittedIsParsed
  <2>. QED BY <2>2 DEF pad, selfd
<1>. HIDE DEF parsed, whole, data
<1>5. taken = [ok |-> parsed.ok, consumed |-> gone, packet |-> copy]
  BY Zenon DEF TakeSelfDelimited, Taken, parsed
<1>6. copy = EmitPacket(0, fs, NoPadding, FALSE)
  BY <1>4, Zenon DEF Reframed
<1>. DEFINE fine == parsed.ok
<1>. HIDE DEF gone, copy, taken, fine
<1>7. taken = [ok |-> fine, consumed |-> gone, packet |-> copy]
  BY <1>5 DEF fine
<1>8. taken.ok = fine /\ taken.consumed = gone /\ taken.packet = copy
  BY <1>7
<1>9. taken.ok /\ taken.consumed = Len(whole) /\ taken.packet = EmitPacket(0, fs, NoPadding, FALSE)
  BY <1>4, <1>6, <1>8, Zenon DEF fine, gone
<1>. HIDE DEF delim
<1>10. /\ delim \in Seq(Byte) /\ TakeSelfDelimited(delim \o t).ok
       /\ TakeSelfDelimited(delim \o t).consumed = Len(delim)
       /\ TakeSelfDelimited(delim \o t).packet = EmitPacket(0, fs, NoPadding, FALSE)
  BY <1>1, <1>3, <1>9, Zenon DEF taken
<1>. QED BY <1>10, Zenon DEF delim, data

LEMMA TakenOff ==
  ASSUME NEW S, NEW a \in Seq(S), NEW b \in Seq(S)
  PROVE  SubSeq(a \o b, Len(a) + 1, Len(a \o b)) = b
<1>. DEFINE ab == a \o b
            c == SubSeq(ab, Len(a) + 1, Len(ab))
<1>1. /\ ab \in Seq(S) /\ Len(ab) = Len(a) + Len(b) /\ Len(a) \in Nat /\ Len(b) \in Nat
      /\ \A j \in 1 .. Len(b) : ab[Len(a) + j] = b[j]
  BY JoinOfTwo
<1>. HIDE DEF ab
<1>2. c = b
  BY <1>1
<1>. QED BY <1>2 DEF ab

(***************************************************************************)
(* The output channels, stream by stream.                                  *)
(***************************************************************************)
OwnUpTo(layout, call, style, j) ==
  [c \in 1 .. layout.channels |->
     IF CarrierOf(layout, c) < j THEN Own(layout, call, style, c) ELSE NoSound]

LEMMA OutputGrows ==
  ASSUME NEW layout, GoodLayout(layout), NEW call \in Byte, NEW style,
         NEW s \in Streams(layout), GoodStyle(style[s + 1])
  PROVE  Remuxed(OwnUpTo(layout, call, style, s), layout, s, Coded(layout, call, s, style[s + 1]))
           = OwnUpTo(layout, call, style, s + 1)
<1>. DEFINE n == layout.channels
            old == OwnUpTo(layout, call, style, s)
            new == OwnUpTo(layout, call, style, s + 1)
            targets == Targets(layout, s)
            fs == Coded(layout, call, s, style[s + 1])
            place(c) == CHOOSE k \in DOMAIN targets : targets[k] = layout.mapping[c]
            remuxed(c) == IF layout.mapping[c] \in ToSet(targets) THEN Sound(fs, place(c)) ELSE old[c]
            owned(c) == IF CarrierOf(layout, c) < s + 1 THEN Own(layout, call, style, c) ELSE NoSound
<1>1. DOMAIN old = 1 .. n /\ \A c \in 1 .. n : old[c] = IF CarrierOf(layout, c) < s
                                                         THEN Own(layout, call, style, c) ELSE NoSound
  BY DEF OwnUpTo
<1>2. Remuxed(old, layout, s, fs) = [c \in DOMAIN old |-> remuxed(c)]
  BY Zenon DEF Remuxed
<1>3. s \in Nat /\ Streams(layout) \subseteq Nat
  BY DEF GoodLayout, Streams
<1>4. ASSUME NEW c \in 1 .. n PROVE remuxed(c) = owned(c)
  <2>1. /\ CarrierOf(layout, c) \in Nat
        /\ layout.mapping[c] \in ToSet(targets) <=> s = CarrierOf(layout, c)
    <3>1. /\ CarrierOf(layout, c) \in Streams(layout)
          /\ \A r \in Streams(layout) :
               layout.mapping[c] \in ToSet(Targets(layout, r)) <=> r = CarrierOf(layout, c)
      BY Carried, Zenon
    <3>. QED BY <1>3, <3>1, Zenon
  <2>2. CASE s = CarrierOf(layout, c)
    <3>1. Sound(fs, place(c)) = Own(layout, call, style, c)
      BY <2>2, OwnHeard, Zenon
    <3>2. CarrierOf(layout, c) < s + 1
      BY <1>3, <2>2
    <3>. QED BY <2>1, <2>2, <3>1, <3>2, Zenon
  <2>3. CASE s # CarrierOf(layout, c)
    <3>1. CarrierOf(layout, c) < s <=> CarrierOf(layout, c) < s + 1
      BY <1>3, <2>1, <2>3
    <3>2. remuxed(c) = old[c]
      BY <2>1, <2>3, Zenon
    <3>. QED BY <1>1, <3>1, <3>2, Zenon
  <2>. QED BY <2>2, <2>3
<1>5. new = [c \in 1 .. n |-> owned(c)]
  BY Zenon DEF OwnUpTo
<1>. HIDE DEF remuxed, owned, old, new
<1>6. Remuxed(old, layout, s, fs) = new
  BY <1>1, <1>2, <1>4, <1>5
<1>. QED BY <1>6, Zenon DEF old, new

(***************************************************************************)
(* One stream decoded: its packet is there; it is not; it is no packet.    *)
(***************************************************************************)
LEMMA StreamHeard ==
  ASSUME GoodLayout(player.layout), NEW call \in Byte, NEW style, NEW s \in Streams(player.layout),
         GoodStyle(style[s + 1]), NEW state, state.ok = TRUE,
         state.output = OwnUpTo(player.layout, call, style, s), NEW left \in Seq(Byte),
         state.left = IF LastStream(player.layout, s)
                      THEN StreamPacket(player.layout, call, s, style[s + 1])
                      ELSE Delimited(StreamPacket(player.layout, call, s, style[s + 1])) \o left
  PROVE  /\ DecodeStream(state, s).ok = TRUE
         /\ DecodeStream(state, s).output = OwnUpTo(player.layout, call, style, s + 1)
         /\ ~LastStream(player.layout, s) => DecodeStream(state, s).left = left
<1>. DEFINE layout == player.layout
            st == style[s + 1]
            fs == Coded(layout, call, s, st)
            packed == StreamPacket(layout, call, s, st)
            data == StreamData(state, s)
            parsed == ParsePacket(data.packet, FALSE)
            next == DecodeStream(state, s)
            more == OwnUpTo(layout, call, style, s + 1)
            behind == SubSeq(state.left, data.consumed + 1, Len(state.left))
            lost == data.ok /\ data.packet = <<>>
            output == IF lost THEN Filling(state.output, layout, s)
                      ELSE Remuxed(state.output, layout, s, parsed.frames)
            moved == state.moved \cup {s}
            yes == TRUE
<1>1. FitFrames(0, fs)
  BY CodedAre
<1>2. st.padTo \in Nat /\ packed = EmitPacket(0, fs, st.padTo, FALSE)
  BY Zenon DEF GoodStyle, StreamPacket
<1>3. NoPadding \in Nat
  BY DEF NoPadding
<1>. HIDE DEF fs, st, packed
<1>4. /\ data.ok /\ data.packet # <<>> /\ parsed.ok /\ parsed.frames = fs
      /\ ~LastStream(layout, s) => behind = left
  <2>1. CASE LastStream(layout, s)
    <3>. DEFINE whole == TRUE
                size == Len(state.left)
                bytes == state.left
    <3>. HIDE DEF whole, size, bytes, data
    <3>1. data = [ok |-> whole, packet |-> bytes, consumed |-> size]
      BY <2>1, Zenon DEF StreamData, whole, size, bytes, data
    <3>2. data.ok = whole /\ data.packet = bytes
      BY <3>1
    <3>3. bytes = packed
      BY <2>1 DEF bytes, packed, st
    <3>4. /\ EmitPacket(0, fs, st.padTo, FALSE) # <<>>
          /\ ParsePacket(EmitPacket(0, fs, st.padTo, FALSE), FALSE).ok
          /\ ParsePacket(EmitPacket(0, fs, st.padTo, FALSE), FALSE).frames = fs
      BY <1>1, <1>2, AloneReads
    <3>5. data.packet = EmitPacket(0, fs, st.padTo, FALSE) /\ data.ok
      BY <1>2, <3>2, <3>3, Zenon DEF whole
    <3>. QED BY <2>1, <3>4, <3>5, Zenon
  <2>2. CASE ~LastStream(layout, s)
    <3>. DEFINE delim == Delimited(packed)
    <3>1. state.left = delim \o left
      BY <2>2 DEF packed, st
    <3>2. data = TakeSelfDelimited(state.left)
      BY <2>2, Zenon DEF StreamData
    <3>3. /\ Delimited(EmitPacket(0, fs, st.padTo, FALSE)) \in Seq(Byte)
          /\ TakeSelfDelimited(Delimited(EmitPacket(0, fs, st.padTo, FALSE)) \o left).ok
          /\ TakeSelfDelimited(Delimited(EmitPacket(0, fs, st.padTo, FALSE)) \o left).consumed
               = Len(Delimited(EmitPacket(0, fs, st.padTo, FALSE)))
          /\ TakeSelfDelimited(Delimited(EmitPacket(0, fs, st.padTo, FALSE)) \o left).packet
               = EmitPacket(0, fs, NoPadding, FALSE)
      BY <1>1, <1>2, DelimitedReads
    <3>4. /\ delim \in Seq(Byte) /\ TakeSelfDelimited(delim \o left).ok
          /\ TakeSelfDelimited(delim \o left).consumed = Len(delim)
          /\ TakeSelfDelimited(delim \o left).packet = EmitPacket(0, fs, NoPadding, FALSE)
      BY <1>2, <3>3, Zenon
    <3>. HIDE DEF delim, data
    <3>5. /\ data.ok /\ data.consumed = Len(delim)
          /\ data.packet = EmitPacket(0, fs, NoPadding, FALSE)
      BY <3>1, <3>2, <3>4, Zenon
    <3>6. behind = left
      <4>1. SubSeq(delim \o left, Len(delim) + 1, Len(delim \o left)) = left
        BY <3>4, TakenOff
      <4>. QED BY <3>1, <3>5, <4>1, Zenon
    <3>7. /\ EmitPacket(0, fs, NoPadding, FALSE) # <<>>
          /\ ParsePacket(EmitPacket(0, fs, NoPadding, FALSE), FALSE).ok
          /\ ParsePacket(EmitPacket(0, fs, NoPadding, FALSE), FALSE).frames = fs
      BY <1>1, <1>3, AloneReads
    <3>. QED BY <3>5, <3>6, <3>7, Zenon
  <2>. QED BY <2>1, <2>2
<1>5. output = more
  <2>1. output = Remuxed(OwnUpTo(layout, call, style, s), layout, s, fs)
    BY <1>4, Zenon
  <2>2. Remuxed(OwnUpTo(layout, call, style, s), layout, s, fs) = more
    BY OutputGrows, Zenon DEF fs, st
  <2>. QED BY <2>1, <2>2, Zenon
<1>. HIDE DEF output, behind, moved, more, yes
<1>6. next = [left |-> behind, ok |-> yes, moved |-> moved, output |-> output]
  BY <1>4, Zenon DEF DecodeStream, behind, moved, output, yes
<1>. HIDE DEF next
<1>7. next.ok = yes /\ next.output = output /\ next.left = behind
  BY <1>6
<1>. QED BY <1>4, <1>5, <1>7, Zenon DEF yes, next, more

LEMMA StreamLost ==
  ASSUME NEW s, NEW state, state.ok = TRUE, LastStream(player.layout, s), state.left = <<>>
  PROVE  /\ DecodeStream(state, s).ok = TRUE
         /\ DecodeStream(state, s).output = Filling(state.output, player.layout, s)
<1>. DEFINE data == StreamData(state, s)
            next == DecodeStream(state, s)
            whole == TRUE
            size == Len(state.left)
            none == <<>>
            output == Filling(state.output, player.layout, s)
            moved == state.moved \cup {s}
            behind == SubSeq(state.left, data.consumed + 1, Len(state.left))
<1>. HIDE DEF whole, size, none, data
<1>1. data = [ok |-> whole, packet |-> none, consumed |-> size]
  BY Zenon DEF StreamData, whole, size, none, data
<1>2. data.ok = whole /\ data.packet = none
  BY <1>1
<1>. HIDE DEF output, moved, behind
<1>3. next = [left |-> behind, ok |-> whole, moved |-> moved, output |-> output]
  BY <1>2, Zenon DEF DecodeStream, behind, moved, output, whole, none, data
<1>. HIDE DEF next
<1>4. next.ok = whole /\ next.output = output
  BY <1>3
<1>. QED BY <1>4, Zenon DEF whole, next, output

(* Nothing mends a failure.                                                *)
LEMMA StreamFails ==
  ASSUME NEW n \in Nat, NEW s, NEW state, MovedFirst(state, n),
         \/ ~state.ok
         \/ ~LastStream(player.layout, s) /\ ~ParsePacket(state.left, TRUE).ok
         \/ /\ LastStream(player.layout, s) /\ state.left # <<>>
            /\ ~ParsePacket(state.left, FALSE).ok
  PROVE  DecodeStream(state, s).ok = FALSE
<1>. DEFINE data == StreamData(state, s)
            parsed == ParsePacket(data.packet, FALSE)
            lost == data.ok /\ data.packet = <<>>
            fails == ~state.ok \/ ~data.ok \/ (~parsed.ok /\ ~lost)
            next == DecodeStream(state, s)
<1>1. fails
  <2>1. CASE ~state.ok
    BY <2>1
  <2>2. CASE ~LastStream(player.layout, s) /\ ~ParsePacket(state.left, TRUE).ok
    <3>. DEFINE p == ParsePacket(state.left, TRUE)
                fine == p.ok
                gone == p.consumed
                copy == Reframed(p)
    <3>1. data = [ok |-> fine, consumed |-> gone, packet |-> copy]
      BY <2>2, Zenon DEF StreamData, TakeSelfDelimited, Taken
    <3>. HIDE DEF fine, gone, copy, data
    <3>2. data.ok = fine
      BY <3>1
    <3>. QED BY <2>2, <3>2 DEF fine
  <2>3. CASE /\ LastStream(player.layout, s) /\ state.left # <<>>
             /\ ~ParsePacket(state.left, FALSE).ok
    <3>. DEFINE whole == TRUE
                size == Len(state.left)
                bytes == state.left
    <3>. HIDE DEF whole, size, bytes, data
    <3>1. data = [ok |-> whole, packet |-> bytes, consumed |-> size]
      BY <2>3, Zenon DEF StreamData, whole, size, bytes, data
    <3>2. data.ok = whole /\ data.packet = bytes
      BY <3>1
    <3>. QED BY <2>3, <3>2, Zenon DEF bytes
  <2>. QED BY <2>1, <2>2, <2>3
<1>2. next = [state EXCEPT !.ok = FALSE]
  <2>. HIDE DEF fails
  <2>1. fails
    BY <1>1
  <2>. QED BY <2>1, Zenon DEF DecodeStream, fails
<1>3. DOMAIN state = {"left", "ok", "moved", "output"}
  BY DEF MovedFirst
<1>. HIDE DEF next
<1>4. next.ok = FALSE
  BY <1>2, <1>3
<1>. QED BY <1>4 DEF next

(***************************************************************************)
(* All streams decoded, one after the other.                               *)
(***************************************************************************)
(* Once a stream has failed the packet has.                                *)
LEMMA FailureStays ==
  ASSUME NEW data, NEW n \in Nat, n = player.layout.streams, NEW f, Decodes(f, n, data),
         NEW m \in 0 .. n, ~f[m].ok
  PROVE  ~DecodeAll(data).ok
<1>. DEFINE T == {k \in Nat : m <= k /\ k <= n => ~f[k].ok}
<1>1. 0 \in T
  <2>. SUFFICES ASSUME m <= 0 PROVE ~f[0].ok
    OBVIOUS
  <2>1. m = 0
    OBVIOUS
  <2>. QED BY <2>1
<1>2. ASSUME NEW k \in Nat, k \in T PROVE k + 1 \in T
  <2>. SUFFICES ASSUME m <= k + 1, k + 1 <= n PROVE ~f[k + 1].ok
    OBVIOUS
  <2>1. CASE m = k + 1
    BY <2>1
  <2>2. CASE m # k + 1
    <3>1. ~f[k].ok /\ MovedFirst(f[k], k)
      <4>1. m <= k /\ k \in 0 .. n
        BY <2>2
      <4>. QED BY <1>2, <4>1 DEF Decodes
    <3>2. f[k + 1] = DecodeStream(f[k], k)
      <4>1. k + 1 \in 1 .. n /\ (k + 1) - 1 = k
        OBVIOUS
      <4>. QED BY <4>1, Zenon DEF Decodes
    <3>3. DecodeStream(f[k], k).ok = FALSE
      BY <3>1, StreamFails
    <3>. QED BY <3>2, <3>3
  <2>. QED BY <2>1, <2>2
<1>3. n \in T
  <2>. HIDE DEF T
  <2>. QED BY <1>1, <1>2, Induction
<1>4. ~f[n].ok
  BY <1>3
<1>. QED BY <1>4, Zenon DEF Decodes

(* The packets in front, which come out of their streams one by one.       *)
Fronts(layout, call, style, m) ==
  [i \in 1 .. m |-> Delimited(StreamPacket(layout, call, i - 1, style[i]))]

LEMMA FrontsAre ==
  ASSUME NEW layout, GoodLayout(layout), NEW call \in Byte, NEW style,
         \A i \in 1 .. 5 : GoodStyle(style[i]), NEW m \in 0 .. 5
  PROVE  /\ Fronts(layout, call, style, m) \in Seq(Seq(Byte))
         /\ Len(Fronts(layout, call, style, m)) = m
<1>. DEFINE part(i) == Delimited(StreamPacket(layout, call, i - 1, style[i]))
            parts == [i \in 1 .. m |-> part(i)]
<1>1. ASSUME NEW i \in 1 .. m PROVE part(i) \in Seq(Byte)
  <2>. DEFINE st == style[i]
              fs == Coded(layout, call, i - 1, st)
  <2>1. GoodStyle(st)
    <3>1. i \in 1 .. 5
      OBVIOUS
    <3>. QED BY <3>1
  <2>. HIDE DEF st
  <2>2. FitFrames(0, fs)
    BY <2>1, CodedAre
  <2>3. st.padTo \in Nat /\ StreamPacket(layout, call, i - 1, st) = EmitPacket(0, fs, st.padTo, FALSE)
    BY <2>1, Zenon DEF GoodStyle, StreamPacket
  <2>. HIDE DEF fs
  <2>4. <<>> \in Seq(Byte)
    OBVIOUS
  <2>. DEFINE none == <<>>
  <2>5. none \in Seq(Byte)
    BY <2>4
  <2>. HIDE DEF none
  <2>6. Delimited(EmitPacket(0, fs, st.padTo, FALSE)) \in Seq(Byte)
    BY <2>2, <2>3, <2>5, DelimitedReads
  <2>. QED BY <2>3, <2>6, Zenon DEF st
<1>. HIDE DEF part
<1>2. parts \in Seq(Seq(Byte)) /\ Len(parts) = m
  BY <1>1
<1>. QED BY <1>2, Zenon DEF Fronts, part

FrontOf(call, style, m, tail, data) ==
  /\ GoodLayout(player.layout) /\ call \in Byte /\ \A i \in 1 .. 5 : GoodStyle(style[i])
  /\ m \in 0 .. player.layout.streams - 1 /\ tail \in Seq(Byte)
  /\ data = FlattenSeq(Fronts(player.layout, call, style, m)) \o tail

Reached(state, call, style, m, tail) ==
  state.ok = TRUE /\ state.left = tail /\ state.output = OwnUpTo(player.layout, call, style, m)

LEMMA FrontDecoded ==
  ASSUME NEW call, NEW style, NEW m, NEW tail, NEW data, FrontOf(call, style, m, tail, data),
         NEW f, Decodes(f, player.layout.streams, data)
  PROVE  Reached(f[m], call, style, m, tail)
<1>. SUFFICES ASSUME GoodLayout(player.layout), call \in Byte, \A i \in 1 .. 5 : GoodStyle(style[i]),
                     m \in 0 .. player.layout.streams - 1, tail \in Seq(Byte),
                     data = FlattenSeq(Fronts(player.layout, call, style, m)) \o tail
              PROVE  /\ f[m].ok = TRUE /\ f[m].left = tail
                     /\ f[m].output = OwnUpTo(player.layout, call, style, m)
  BY Zenon DEF FrontOf, Reached
<1>. DEFINE layout == player.layout
            n == layout.streams
            parts == Fronts(layout, call, style, m)
            mine(j) == OwnUpTo(layout, call, style, j)
<1>1. n \in 1 .. 5 /\ m \in 0 .. 5 /\ m \in 0 .. n - 1
  BY DEF GoodLayout
<1>2. parts \in Seq(Seq(Byte)) /\ Len(parts) = m
  BY <1>1, FrontsAre
<1>. HIDE DEF parts
<1>3. PICK rest : Unwinds(rest, parts, tail, Byte)
  BY <1>1, <1>2, Unwound
<1>4. /\ rest[0] = data /\ rest[m] = tail
      /\ \A k \in 0 .. m : rest[k] \in Seq(Byte)
      /\ \A k \in 0 .. m - 1 : rest[k] = parts[k + 1] \o rest[k + 1]
  BY <1>2, <1>3, Zenon DEF Unwinds, parts
<1>. DEFINE done(k) == f[k].ok = TRUE /\ f[k].left = rest[k] /\ f[k].output = mine(k)
            T == {k \in Nat : k <= m => done(k)}
<1>. HIDE DEF mine, done
<1>5. 0 \in T
  <2>1. f[0] = Start(data)
    BY Zenon DEF Decodes
  <2>2. mine(0) = [c \in 1 .. layout.channels |-> NoSound]
    <3>1. \A c \in 1 .. layout.channels : ~(CarrierOf(layout, c) < 0)
      <4>. SUFFICES ASSUME NEW c \in 1 .. layout.channels PROVE ~(CarrierOf(layout, c) < 0)
        OBVIOUS
      <4>1. CarrierOf(layout, c) \in Streams(layout)
        BY Carried, Zenon
      <4>. DEFINE s == CarrierOf(layout, c)
      <4>. HIDE DEF s
      <4>2. s \in 0 .. n - 1
        BY <4>1 DEF s, Streams
      <4>3. ~(s < 0)
        BY <1>1, <4>2
      <4>. QED BY <4>3 DEF s
    <3>. QED BY <3>1, Zenon DEF mine, OwnUpTo
  <2>. DEFINE yes == TRUE
              silent == [c \in 1 .. layout.channels |-> NoSound]
              start == Start(data)
  <2>. HIDE DEF yes, silent, start
  <2>3. start = [left |-> data, ok |-> yes, moved |-> {}, output |-> silent]
    BY Zenon DEF Start, yes, silent, start
  <2>4. start.left = data /\ start.ok = yes /\ start.output = silent
    BY <2>3
  <2>5. f[0].ok = TRUE /\ f[0].left = rest[0] /\ f[0].output = mine(0)
    BY <1>4, <2>1, <2>2, <2>4, Zenon DEF yes, silent, start
  <2>. QED BY <2>5 DEF done
<1>6. ASSUME NEW k \in Nat, k \in T PROVE k + 1 \in T
  <2>. SUFFICES ASSUME k + 1 <= m PROVE done(k + 1)
    OBVIOUS
  <2>1. f[k].ok = TRUE /\ f[k].left = rest[k] /\ f[k].output = mine(k)
    BY <1>6 DEF done
  <2>2. /\ k + 1 \in 1 .. n /\ (k + 1) - 1 = k /\ k \in 0 .. m - 1 /\ k + 1 \in 0 .. m
        /\ k + 1 \in 1 .. m /\ k + 1 \in 1 .. 5 /\ k \in 0 .. n - 1 /\ k # n - 1
    BY <1>1
  <2>3. f[k + 1] = DecodeStream(f[k], k)
    BY <2>2, Zenon DEF Decodes
  <2>4. k \in Streams(layout) /\ ~LastStream(layout, k)
    BY <2>2, Zenon DEF Streams, LastStream
  <2>5. rest[k + 1] \in Seq(Byte)
    BY <1>4, <2>2, Zenon
  <2>6. f[k].left = Delimited(StreamPacket(layout, call, k, style[k + 1])) \o rest[k + 1]
    <3>1. parts[k + 1] = Delimited(StreamPacket(layout, call, (k + 1) - 1, style[k + 1]))
      BY <2>2 DEF parts, Fronts
    <3>2. rest[k] = parts[k + 1] \o rest[k + 1]
      BY <1>4, <2>2, Zenon
    <3>. QED BY <2>1, <2>2, <3>1, <3>2, Zenon
  <2>7. GoodStyle(style[k + 1])
    BY <2>2, Zenon
  <2>. DEFINE state == f[k]
              left == rest[k + 1]
  <2>8. /\ DecodeStream(state, k).ok = TRUE
        /\ DecodeStream(state, k).output = OwnUpTo(layout, call, style, k + 1)
        /\ DecodeStream(state, k).left = left
    <3>1. /\ state.ok = TRUE /\ state.output = OwnUpTo(layout, call, style, k)
          /\ left \in Seq(Byte)
          /\ state.left = IF LastStream(layout, k)
                          THEN StreamPacket(layout, call, k, style[k + 1])
                          ELSE Delimited(StreamPacket(layout, call, k, style[k + 1])) \o left
      BY <2>1, <2>4, <2>5, <2>6, Zenon DEF mine
    <3>. HIDE DEF state, left
    <3>. QED BY <2>4, <2>7, <3>1, StreamHeard, Zenon
  <2>. QED BY <2>3, <2>8, Zenon DEF mine, done
<1>7. m \in T
  <2>. HIDE DEF T
  <2>1. \A k \in Nat : k \in T
    BY <1>5, <1>6, Induction
  <2>. QED BY <1>1, <2>1
<1>8. f[m].ok = TRUE /\ f[m].left = rest[m] /\ f[m].output = mine(m)
  BY <1>1, <1>7 DEF done
<1>. QED BY <1>4, <1>8, Zenon DEF mine

(***************************************************************************)
(* What a packet is to the player: whole, with a stream spoiled, or lost.  *)
(***************************************************************************)
LastPacket(layout, call, style) ==
  StreamPacket(layout, call, layout.streams - 1, style[layout.streams])

LEMMA LastIs ==
  ASSUME NEW layout, GoodLayout(layout), NEW call \in Byte, NEW style,
         \A i \in 1 .. 5 : GoodStyle(style[i])
  PROVE  LastPacket(layout, call, style) \in Seq(Byte) /\ LastPacket(layout, call, style) # <<>>
<1>. DEFINE n == layout.streams
            st == style[n]
            fs == Coded(layout, call, n - 1, st)
<1>1. GoodStyle(st)
  <2>1. n \in 1 .. 5
    BY Zenon DEF GoodLayout
  <2>. QED BY <2>1, Zenon
<1>. HIDE DEF st
<1>2. FitFrames(0, fs)
  BY <1>1, CodedAre
<1>3. st.padTo \in Nat /\ StreamPacket(layout, call, n - 1, st) = EmitPacket(0, fs, st.padTo, FALSE)
  BY <1>1, Zenon DEF GoodStyle, StreamPacket
<1>. HIDE DEF fs
<1>4. /\ EmitPacket(0, fs, st.padTo, FALSE) \in Seq(Byte)
      /\ EmitPacket(0, fs, st.padTo, FALSE) # <<>>
  BY <1>2, <1>3, AloneReads
<1>. QED BY <1>3, <1>4, Zenon DEF LastPacket, st

LEMMA JoinedIs ==
  ASSUME GoodLayout(setup.layout), NEW call \in Byte, NEW style, \A i \in 1 .. 5 : GoodStyle(style[i])
  PROVE  Joined(setup.layout, StreamPackets(call, style))
           = FlattenSeq(Fronts(setup.layout, call, style, setup.layout.streams - 1))
               \o LastPacket(setup.layout, call, style)
<1>. DEFINE layout == setup.layout
            n == layout.streams
            pack(i) == StreamPacket(layout, call, i - 1, style[i])
            packets == StreamPackets(call, style)
            part(i) == IF LastStream(layout, i - 1) THEN pack(i) ELSE Delimited(pack(i))
            parts == [i \in 1 .. n |-> part(i)]
            fronts == Fronts(layout, call, style, n - 1)
            end == LastPacket(layout, call, style)
<1>1. n \in 1 .. 5
  BY Zenon DEF GoodLayout
<1>2. Joined(layout, packets) = FlattenSeq(parts)
  <2>1. packets = [i \in 1 .. n |-> pack(i)]
    BY Zenon DEF StreamPackets
  <2>2. DOMAIN packets = 1 .. n /\ \A i \in 1 .. n : packets[i] = pack(i)
    <3>. HIDE DEF packets, pack
    <3>. QED BY <2>1
  <2>3. [i \in DOMAIN packets |->
           IF LastStream(layout, i - 1) THEN packets[i] ELSE Delimited(packets[i])] = parts
    <3>. DEFINE other(i) == IF LastStream(layout, i - 1) THEN packets[i] ELSE Delimited(packets[i])
    <3>1. \A i \in 1 .. n : other(i) = part(i)
      <4>. HIDE DEF packets, pack
      <4>. QED BY <2>2, Zenon
    <3>. HIDE DEF other, part
    <3>2. [i \in DOMAIN packets |-> other(i)] = parts
      <4>. HIDE DEF packets
      <4>. QED BY <2>2, <3>1
    <3>. QED BY <3>2 DEF other
  <2>. HIDE DEF parts
  <2>. QED BY <2>3, Zenon DEF Joined
<1>3. /\ fronts \in Seq(Seq(Byte)) /\ Len(fronts) = n - 1
  <2>1. n - 1 \in 0 .. 5
    BY <1>1
  <2>. QED BY <2>1, FrontsAre
<1>4. end \in Seq(Byte)
  BY LastIs
<1>5. parts = Append(fronts, end)
  <2>. DEFINE more == Append(fronts, end)
  <2>1. \A i \in 1 .. n - 1 : fronts[i] = Delimited(pack(i))
    BY DEF Fronts
  <2>2. part(n) = end
    BY Zenon DEF LastStream, LastPacket
  <2>3. ASSUME NEW i \in 1 .. n - 1 PROVE part(i) = fronts[i]
    <3>1. i - 1 # n - 1
      BY <1>1
    <3>2. ~LastStream(layout, i - 1)
      BY <3>1, Zenon DEF LastStream
    <3>. QED BY <2>1, <3>2, Zenon
  <2>. HIDE DEF part, fronts, end, n, parts
  <2>4. /\ more \in Seq(Seq(Byte)) /\ Len(more) = n /\ more[n] = end
        /\ \A i \in 1 .. n - 1 : more[i] = fronts[i]
    BY <1>1, <1>3, <1>4
  <2>5. \A i \in 1 .. n : part(i) = more[i]
    BY <1>1, <2>2, <2>3, <2>4
  <2>. HIDE DEF more
  <2>6. more = [i \in 1 .. n |-> more[i]]
    BY <2>4
  <2>7. parts = more
    BY <2>5, <2>6, Zenon DEF parts
  <2>. QED BY <2>7 DEF more
<1>. HIDE DEF parts, fronts, end
<1>6. FlattenSeq(parts) = FlattenSeq(fronts) \o end
  BY <1>3, <1>4, <1>5, FlattenMore
<1>. QED BY <1>2, <1>6 DEF fronts, end

(* Of the outcome of a packet, sound by sound.                             *)
Answers(done, layout, call, style, whole) ==
  done.ok =>
    /\ DOMAIN done.output = 1 .. layout.channels
    /\ \A c \in 1 .. layout.channels :
         \/ done.output[c] = Own(layout, call, style, c)
         \/ /\ ~whole /\ done.output[c] = <<Concealed>>
            /\ LastStream(layout, CarrierOf(layout, c))

LEMMA Answered ==
  ASSUME NEW call, NEW style, NEW m, NEW tail, NEW data, FrontOf(call, style, m, tail, data), NEW sent,
         sent = FlattenSeq(Fronts(player.layout, call, style, player.layout.streams - 1))
                  \o LastPacket(player.layout, call, style),
         \/ m = player.layout.streams - 1 /\ tail = LastPacket(player.layout, call, style)
         \/ ~ParsePacket(tail, TRUE).ok /\ (tail = <<>> \/ ~ParsePacket(tail, FALSE).ok)
  PROVE  Answers(DecodeAll(data), player.layout, call, style, data = sent)
<1>. SUFFICES ASSUME GoodLayout(player.layout), call \in Byte, \A i \in 1 .. 5 : GoodStyle(style[i]),
                     m \in 0 .. player.layout.streams - 1, tail \in Seq(Byte),
                     data = FlattenSeq(Fronts(player.layout, call, style, m)) \o tail
              PROVE  Answers(DecodeAll(data), player.layout, call, style, data = sent)
  BY Zenon DEF FrontOf
<1>. DEFINE layout == player.layout
            n == layout.streams
            k == layout.channels
            last == LastPacket(layout, call, style)
            mine(j) == OwnUpTo(layout, call, style, j)
            own(c) == Own(layout, call, style, c)
            carrier(c) == CarrierOf(layout, c)
            done == DecodeAll(data)
<1>1. n \in 1 .. 5 /\ n \in Nat /\ m \in 0 .. n - 1 /\ m \in 0 .. n
  <2>1. n \in 1 .. 5 /\ m \in 0 .. n - 1
    BY Zenon DEF GoodLayout
  <2>. HIDE DEF n
  <2>. QED BY <2>1
<1>2. PICK f : Decodes(f, n, data)
  BY <1>1, AllDecoded
<1>3. f[m].ok = TRUE /\ f[m].left = tail /\ f[m].output = mine(m)
  <2>1. FrontOf(call, style, m, tail, data)
    BY Zenon DEF FrontOf
  <2>2. Reached(f[m], call, style, m, tail)
    BY ONLY <1>2, <2>1, FrontDecoded, Zenon
  <2>. QED BY <2>2, Zenon DEF Reached
<1>4. f[m + 1] = DecodeStream(f[m], m) /\ MovedFirst(f[m], m) /\ done = f[n]
  <2>1. m + 1 \in 1 .. n /\ (m + 1) - 1 = m
    BY <1>1
  <2>. QED BY <1>1, <1>2, <2>1, Zenon DEF Decodes
<1>5. \A c \in 1 .. k : carrier(c) \in 0 .. n - 1
  BY Carried DEF Streams
<1>6. \A j : DOMAIN mine(j) = 1 .. k
             /\ \A c \in 1 .. k : mine(j)[c] = IF carrier(c) < j THEN own(c) ELSE NoSound
  BY DEF OwnUpTo
<1>7. CASE m = n - 1 /\ tail = last
  <2>1. LastStream(layout, m) /\ m \in Streams(layout)
    BY <1>1, <1>7, Zenon DEF LastStream, Streams
  <2>2. GoodStyle(style[m + 1])
    <3>1. m + 1 \in 1 .. 5
      BY <1>1
    <3>. QED BY <3>1
  <2>3. tail = StreamPacket(layout, call, m, style[m + 1])
    <3>1. m + 1 = n
      BY <1>1, <1>7
    <3>. QED BY <1>7, <3>1, Zenon DEF LastPacket
  <2>4. <<>> \in Seq(Byte)
    OBVIOUS
  <2>. DEFINE state == f[m]
              none == <<>>
  <2>5. /\ state.ok = TRUE /\ state.output = OwnUpTo(layout, call, style, m) /\ none \in Seq(Byte)
        /\ state.left = IF LastStream(layout, m)
                        THEN StreamPacket(layout, call, m, style[m + 1])
                        ELSE Delimited(StreamPacket(layout, call, m, style[m + 1])) \o none
    BY <1>3, <2>1, <2>3, <2>4, Zenon
  <2>. HIDE DEF state, none
  <2>6. DecodeStream(state, m).output = mine(m + 1)
    BY <2>1, <2>2, <2>5, StreamHeard, Zenon
  <2>7. done.output = mine(n)
    <3>1. m + 1 = n
      BY <1>1, <1>7
    <3>. QED BY <1>4, <2>6, <3>1, Zenon DEF state
  <2>. HIDE DEF mine, own, carrier, done
  <2>8. \A c \in 1 .. k : carrier(c) < n
    BY <1>1, <1>5
  <2>9. DOMAIN done.output = 1 .. k /\ \A c \in 1 .. k : done.output[c] = own(c)
    BY <1>6, <2>7, <2>8, Zenon
  <2>. QED BY <2>9, Zenon DEF Answers, own, done
<1>8. ASSUME ~ParsePacket(tail, TRUE).ok, tail = <<>> \/ ~ParsePacket(tail, FALSE).ok
      PROVE  Answers(done, layout, call, style, data = sent)
  <2>1. ASSUME DecodeStream(f[m], m).ok = FALSE
        PROVE  Answers(done, layout, call, style, data = sent)
    <3>1. ~f[m + 1].ok /\ m + 1 \in 0 .. n
      BY <1>1, <1>4, <2>1
    <3>2. ~done.ok
      BY <1>1, <1>2, <3>1, FailureStays
    <3>. QED BY <3>2, Zenon DEF Answers
  <2>2. CASE m # n - 1
    <3>1. ~LastStream(layout, m)
      BY <2>2, Zenon DEF LastStream
    <3>2. DecodeStream(f[m], m).ok = FALSE
      <4>1. MovedFirst(f[m], m) /\ ~ParsePacket(f[m].left, TRUE).ok /\ m \in Nat
        <5>1. m \in Nat
          BY <1>1
        <5>. QED BY <1>3, <1>4, <1>8, <5>1, Zenon
      <4>. QED BY <3>1, <4>1, StreamFails, Zenon
    <3>. QED BY <2>1, <3>2
  <2>3. CASE m = n - 1 /\ tail # <<>>
    <3>1. LastStream(layout, m)
      BY <2>3, Zenon DEF LastStream
    <3>2. DecodeStream(f[m], m).ok = FALSE
      <4>1. /\ MovedFirst(f[m], m) /\ ~ParsePacket(f[m].left, FALSE).ok /\ m \in Nat
            /\ f[m].left # <<>>
        <5>1. m \in Nat
          BY <1>1
        <5>. QED BY <1>3, <1>4, <1>8, <2>3, <5>1, Zenon
      <4>. QED BY <3>1, <4>1, StreamFails, Zenon
    <3>. QED BY <2>1, <3>2
  <2>4. CASE m = n - 1 /\ tail = <<>>
    <3>1. LastStream(layout, m) /\ m + 1 = n /\ m \in Streams(layout)
      BY <1>1, <2>4 DEF LastStream, Streams
    <3>2. done.output = Filling(mine(m), layout, m)
      <4>1. DecodeStream(f[m], m).output = Filling(f[m].output, layout, m)
        BY <1>3, <2>4, <3>1, StreamLost, ZenonT(60)
      <4>. QED BY <1>3, <1>4, <3>1, <4>1, Zenon
    <3>3. data # sent
      <4>. DEFINE fronts == FlattenSeq(Fronts(layout, call, style, m))
      <4>1. fronts \in Seq(Byte)
        <5>1. m \in 0 .. 5
          BY <1>1
        <5>2. Fronts(layout, call, style, m) \in Seq(Seq(Byte))
          BY <5>1, FrontsAre
        <5>3. <<>> \in Seq(Byte)
          OBVIOUS
        <5>. HIDE DEF fronts
        <5>. QED BY <5>2, <5>3, FlattenMore DEF fronts
      <4>2. last \in Seq(Byte) /\ last # <<>>
        BY LastIs
      <4>. HIDE DEF fronts, last
      <4>3. fronts \o <<>> # fronts \o last
        BY <4>1, <4>2
      <4>4. data = fronts \o tail /\ sent = fronts \o last
        BY <2>4, Zenon DEF fronts, last
      <4>. QED BY <2>4, <4>3, <4>4
    <3>4. \A c \in 1 .. k : layout.mapping[c] \in ToSet(Targets(layout, m)) <=> m = carrier(c)
      BY <3>1, Carried, Zenon
    <3>. DEFINE filled(c) == IF layout.mapping[c] \in ToSet(Targets(layout, m))
                             THEN <<Concealed>> ELSE mine(m)[c]
    <3>5. done.output = [c \in DOMAIN mine(m) |-> filled(c)]
      BY <3>2, Zenon DEF Filling
    <3>6. DOMAIN done.output = 1 .. k /\ \A c \in 1 .. k : done.output[c] = filled(c)
      <4>. HIDE DEF filled, mine, done
      <4>. QED BY <1>6, <3>5
    <3>7. ASSUME NEW c \in 1 .. k
          PROVE  \/ done.output[c] = own(c)
                 \/ /\ ~(data = sent) /\ done.output[c] = <<Concealed>>
                    /\ LastStream(layout, carrier(c))
      <4>1. CASE m = carrier(c)
        <5>1. done.output[c] = <<Concealed>>
          BY <3>4, <3>6, <4>1, Zenon
        <5>. QED BY <3>1, <3>3, <4>1, <5>1, Zenon
      <4>2. CASE m # carrier(c)
        <5>1. carrier(c) < m
          <6>. HIDE DEF carrier
          <6>1. carrier(c) \in 0 .. n - 1
            BY <1>5, Zenon
          <6>. QED BY <1>1, <2>4, <4>2, <6>1
        <5>2. done.output[c] = mine(m)[c]
          BY <3>4, <3>6, <4>2, Zenon
        <5>. QED BY <1>6, <5>1, <5>2, Zenon
      <4>. QED BY <4>1, <4>2
    <3>. QED BY <3>6, <3>7, Zenon DEF Answers
  <2>. QED BY <2>2, <2>3, <2>4
<1>. QED BY <1>7, <1>8

LEMMA LayoutsAreGood ==
  ASSUME setup \in Setups
  PROVE  /\ GoodLayout(setup.layout)
         /\ ParseHead(FileHead).ok =>
              Surround(ParseHead(FileHead).channels, ParseHead(FileHead).family) = setup.layout
<1>1. PICK channels \in 1 .. 8, family \in {0, 1} :
        setup.layout = Surround(channels, family) /\ setup.layout.ok
  BY SetupAssumption
<1>. DEFINE layout == Surround(channels, family)
<1>2. GoodLayout(layout) /\ layout.channels = channels /\ layout.family = family
  <2>1. layout.ok
    BY <1>1
  <2>. QED BY <2>1, SurroundIsGood
<1>. HIDE DEF layout
<1>3. setup.layout = layout
  BY <1>1 DEF layout
<1>4. ASSUME ParseHead(FileHead).ok
      PROVE  Surround(ParseHead(FileHead).channels, ParseHead(FileHead).family) = setup.layout
  <2>. DEFINE rate == setup.rate
              app == setup.app
              gain == setup.gain
  <2>1. FileHead = HeadPacket(HeadFor(layout, rate, app, gain))
    BY <1>3, Zenon DEF FileHead
  <2>. HIDE DEF rate, app, gain
  <2>2. ParseHead(HeadPacket(HeadFor(layout, rate, app, gain))).ok
    BY <1>4, <2>1, Zenon
  <2>3. /\ ParseHead(HeadPacket(HeadFor(layout, rate, app, gain))).channels = layout.channels
        /\ ParseHead(HeadPacket(HeadFor(layout, rate, app, gain))).family = layout.family
    BY <1>2, <2>2, HeadReads
  <2>. QED BY <1>2, <1>3, <2>1, <2>3, Zenon DEF layout
<1>. QED BY <1>2, <1>3, <1>4

(* The player's layout is the encoder's, and what is on its way is of a    *)
(* call's streams, joined.                                                 *)
WireInv ==
  wire # NoPacket =>
    /\ wire.style \in Styles /\ wire.call \in 0 .. MaxCalls
    /\ wire.bytes = Joined(setup.layout, StreamPackets(wire.call, wire.style))

ChannelInv ==
  /\ TogetherInv
  /\ setup \in Setups /\ calls \in 0 .. MaxCalls
  /\ player.ready => player.layout = setup.layout
  /\ ~player.ready => out = Nothing
  /\ WireInv /\ EachChannelItsOwn

LEMMA WireIs ==
  ASSUME ChannelInv, player.ready, wire # NoPacket
  PROVE  /\ GoodLayout(player.layout) /\ player.layout = setup.layout /\ wire.call \in Byte
         /\ \A i \in 1 .. 5 : GoodStyle(wire.style[i])
         /\ wire.bytes = FlattenSeq(Fronts(player.layout, wire.call, wire.style, player.layout.streams - 1))
                           \o LastPacket(player.layout, wire.call, wire.style)
<1>. DEFINE call == wire.call
            style == wire.style
<1>1. /\ setup \in Setups /\ player.layout = setup.layout
      /\ style \in Styles /\ call \in 0 .. MaxCalls
      /\ wire.bytes = Joined(setup.layout, StreamPackets(call, style))
  BY Zenon DEF ChannelInv, WireInv
<1>2. GoodLayout(setup.layout)
  BY <1>1, LayoutsAreGood
<1>. HIDE DEF call, style
<1>3. call \in Byte
  <2>1. MaxCalls \in Byte /\ Base \in Nat
    BY StyleAssumption, ByteAssumption
  <2>. QED BY <1>1, <2>1 DEF Byte
<1>4. \A i \in 1 .. 5 : GoodStyle(style[i])
  BY <1>1, StyleAssumption, Zenon DEF GoodStyle
<1>5. Joined(setup.layout, StreamPackets(call, style))
        = FlattenSeq(Fronts(setup.layout, call, style, setup.layout.streams - 1))
            \o LastPacket(setup.layout, call, style)
  BY <1>2, <1>3, <1>4, JoinedIs
<1>6. wire.bytes = FlattenSeq(Fronts(player.layout, call, style, player.layout.streams - 1))
                     \o LastPacket(player.layout, call, style)
  BY <1>1, <1>5
<1>. QED BY <1>1, <1>2, <1>3, <1>4, <1>6, Zenon DEF call, style

LEMMA DecodeOwn ==
  ASSUME ChannelInv, NEW data, Decode(data),
         Answers(DecodeAll(data), player.layout, wire.call, wire.style, data = wire.bytes)
  PROVE  ChannelInv'
<1>. DEFINE done == DecodeAll(data)
            n == player.layout.streams
            layout == setup.layout
            call == wire.call
            style == wire.style
            whole == data = wire.bytes
            given == [kind |-> "decoded", style |-> style, whole |-> whole, output |-> done.output]
<1>1. TogetherInv'
  BY DecodeTogether DEF ChannelInv
<1>2. /\ player.ready /\ wire # NoPacket /\ wire' = NoPacket
      /\ heard' = [s \in DOMAIN heard |-> IF s \in done.moved THEN call ELSE heard[s]]
      /\ out' = IF done.ok THEN given ELSE Failed
      /\ UNCHANGED <<setup, player, calls>>
  BY DEF Decode
<1>3. player.layout = layout /\ setup \in Setups /\ calls \in 0 .. MaxCalls
  BY <1>2, Zenon DEF ChannelInv
<1>. HIDE DEF done
<1>4. ASSUME done.ok
      PROVE  heard'[0] = call
  <2>1. n \in 1 .. 8 /\ DOMAIN heard = 0 .. n - 1
    BY <1>2 DEF ChannelInv, TogetherInv, Streams
  <2>2. MovedFirst(done, n)
    BY <2>1, AllMove DEF done
  <2>3. done.moved = 0 .. n - 1
    BY <1>4, <2>2, Zenon DEF MovedFirst
  <2>. HIDE DEF n
  <2>4. 0 \in DOMAIN heard /\ 0 \in done.moved
    BY <2>1, <2>3
  <2>. QED BY <1>2, <2>4
<1>5. EachChannelItsOwn'
  <2>1. CASE ~done.ok
    <3>1. out' = Failed
      BY <1>2, <2>1
    <3>. QED BY <3>1 DEF EachChannelItsOwn, Failed
  <2>2. CASE done.ok
    <3>. DEFINE output == done.output
                word == "decoded"
    <3>. HIDE DEF output, whole, style, call, word, layout
    <3>1. out' = [kind |-> word, style |-> style, whole |-> whole, output |-> output]
      BY <1>2, <2>2 DEF word, output
    <3>2. out'.style = style /\ out'.whole = whole /\ out'.output = output
      BY <3>1
    <3>3. /\ DOMAIN output = 1 .. layout.channels
          /\ \A c \in 1 .. layout.channels :
               \/ output[c] = Own(layout, call, style, c)
               \/ ~whole /\ output[c] = <<Concealed>> /\ LastStream(layout, CarrierOf(layout, c))
      <4>1. Answers(done, layout, call, style, whole)
        BY <1>3, Zenon DEF done, whole, style, call
      <4>. QED BY <2>2, <4>1, Zenon DEF Answers, output
    <3>4. setup'.layout = layout /\ heard'[0] = call
      BY <1>2, <1>4, <2>2, Zenon DEF layout
    <3>5. ASSUME NEW c \in DOMAIN out'.output
          PROVE  LET st == out'.style[CarrierOf(setup'.layout, c) + 1]
                 IN \/ out'.output[c] = [i \in DOMAIN st.sizes |->
                         IF st.dropped THEN Dropped ELSE [call |-> heard'[0], channel |-> c]]
                    \/ /\ ~out'.whole /\ out'.output[c] = <<Concealed>>
                       /\ LastStream(setup'.layout, CarrierOf(setup'.layout, c))
      <4>1. \/ output[c] = Own(layout, call, style, c)
            \/ ~whole /\ output[c] = <<Concealed>> /\ LastStream(layout, CarrierOf(layout, c))
        BY <3>2, <3>3, Zenon
      <4>2. Own(layout, call, style, c) =
              [i \in DOMAIN style[CarrierOf(layout, c) + 1].sizes |->
                 IF style[CarrierOf(layout, c) + 1].dropped THEN Dropped
                 ELSE [call |-> call, channel |-> c]]
        BY Zenon DEF Own
      <4>. QED BY <3>2, <3>4, <4>1, <4>2, Zenon
    <3>. QED BY <3>5, Zenon DEF EachChannelItsOwn
  <2>. QED BY <2>1, <2>2
<1>. QED BY <1>1, <1>2, <1>3, <1>5 DEF ChannelInv, WireInv

LEMMA DeliverOwn == ASSUME ChannelInv, Deliver PROVE ChannelInv'
<1>. DEFINE call == wire.call
            style == wire.style
            layout == player.layout
            m == layout.streams - 1
            tail == LastPacket(layout, call, style)
            data == wire.bytes
<1>1. wire # NoPacket /\ player.ready /\ Decode(data)
  BY DEF Deliver, Decode
<1>2. /\ GoodLayout(layout) /\ call \in Byte /\ \A i \in 1 .. 5 : GoodStyle(style[i])
      /\ data = FlattenSeq(Fronts(layout, call, style, m)) \o tail
  BY <1>1, WireIs, Zenon
<1>3. tail \in Seq(Byte)
  BY <1>2, LastIs
<1>4. m \in 0 .. layout.streams - 1
  <2>1. layout.streams \in 1 .. 5
    BY <1>2, Zenon DEF GoodLayout
  <2>. QED BY <2>1
<1>. HIDE DEF call, style, tail, data, m
<1>5. FrontOf(call, style, m, tail, data)
  BY <1>2, <1>3, <1>4, Zenon DEF FrontOf
<1>6. Answers(DecodeAll(data), layout, call, style, data = data)
  BY <1>2, <1>5, Answered, Zenon DEF m, tail
<1>. QED BY <1>1, <1>6, DecodeOwn, Zenon DEF data, call, style

LEMMA SpoilOwn ==
  ASSUME ChannelInv, NEW s \in Streams(setup.layout),
         NEW bytes \in Seq(Byte), ~ParsePacket(bytes, TRUE).ok,
         bytes = <<>> \/ ~ParsePacket(bytes, FALSE).ok, NEW data, wire # NoPacket, Decode(data),
         data = FlattenSeq(Fronts(setup.layout, wire.call, wire.style, s)) \o bytes
  PROVE  ChannelInv'
<1>. DEFINE call == wire.call
            style == wire.style
            layout == player.layout
            sent == wire.bytes
<1>1. player.ready
  BY DEF Decode
<1>2. /\ GoodLayout(layout) /\ call \in Byte /\ \A i \in 1 .. 5 : GoodStyle(style[i])
      /\ layout = setup.layout
      /\ sent = FlattenSeq(Fronts(layout, call, style, layout.streams - 1))
                  \o LastPacket(layout, call, style)
  BY <1>1, WireIs, Zenon
<1>3. s \in 0 .. layout.streams - 1
  BY <1>2 DEF Streams
<1>4. data = FlattenSeq(Fronts(layout, call, style, s)) \o bytes
  BY <1>2
<1>. HIDE DEF call, style, sent
<1>5. FrontOf(call, style, s, bytes, data)
  BY <1>2, <1>3, <1>4, Zenon DEF FrontOf
<1>6. Answers(DecodeAll(data), layout, call, style, data = sent)
  BY <1>2, <1>5, Answered, ZenonT(60)
<1>. QED BY <1>6, DecodeOwn, Zenon DEF sent, call, style

(* Every output channel of a surround stream gives the sound of its own    *)
(* input channel, of the call the packet is of, for every layout, however  *)
(* the streams' packets are framed and whatever was lost or spoiled before *)
(* it; but for a last stream that has no bytes, which is concealed.        *)
THEOREM EveryChannelItsOwn == SurroundSpec => []EachChannelItsOwn
<1>1. SurroundInit => ChannelInv
  <2>1. SurroundInit => TogetherInv
    BY DEF SurroundInit, TogetherInv, DecodersTogether, NoPlayer, NoPacket, Nothing
  <2>2. 0 \in 0 .. MaxCalls
    BY StyleAssumption DEF Byte
  <2>. QED BY <2>1, <2>2 DEF SurroundInit, ChannelInv, WireInv, EachChannelItsOwn, NoPlayer, Nothing
<1>2. ChannelInv /\ [SurroundNext]_surroundVars => ChannelInv'
  <2>. SUFFICES ASSUME ChannelInv, [SurroundNext]_surroundVars PROVE ChannelInv'
    OBVIOUS
  <2>1. CASE Open
    <3>. DEFINE head   == ParseHead(FileHead)
                layout == Surround(head.channels, head.family)
    <3>1. /\ ~player.ready /\ head.ok /\ player'.ready = TRUE /\ player'.layout = layout
          /\ UNCHANGED <<setup, calls, wire, out>>
      BY <2>1 DEF Open
    <3>2. setup \in Setups /\ out = Nothing
      BY <3>1 DEF ChannelInv
    <3>3. layout = setup.layout
      BY <3>1, <3>2, LayoutsAreGood
    <3>4. TogetherInv'
      BY <2>1, OpenTogether DEF ChannelInv
    <3>5. EachChannelItsOwn'
      BY <3>1, <3>2 DEF EachChannelItsOwn, Nothing
    <3>6. WireInv'
      BY <3>1 DEF ChannelInv, WireInv, StreamPackets
    <3>. HIDE DEF layout, head
    <3>. QED BY <3>1, <3>3, <3>4, <3>5, <3>6 DEF ChannelInv
  <2>2. ASSUME player.ready, NEW style \in Styles, NEW room \in Rooms, Encode(style, room)
        PROVE  ChannelInv'
    <3>. DEFINE joined == Joined(setup.layout, StreamPackets(calls', style))
    <3>1. /\ calls < MaxCalls /\ calls' = calls + 1 /\ UNCHANGED <<setup, player, heard, out>>
          /\ wire' = IF room < Len(joined) THEN NoPacket
                     ELSE [call |-> calls', style |-> style, bytes |-> joined]
      BY <2>2 DEF Encode
    <3>. HIDE DEF joined
    <3>2. calls \in Nat /\ MaxCalls \in Nat
      BY StyleAssumption DEF ChannelInv, TogetherInv, Byte
    <3>3. calls' \in 0 .. MaxCalls
      BY <3>1, <3>2
    <3>4. wire' # NoPacket => wire'.call = calls' /\ wire'.style = style /\ wire'.bytes = joined
      BY <3>1
    <3>5. WireInv'
      <4>1. joined = Joined(setup'.layout, [i \in 1 .. setup'.layout.streams |->
                                              StreamPacket(setup'.layout, calls', i - 1, style[i])])
        BY <3>1, Zenon DEF joined, StreamPackets
      <4>2. style \in Styles
        OBVIOUS
      <4>. QED BY <3>3, <3>4, <4>1, <4>2, Zenon DEF WireInv, StreamPackets
    <3>6. TogetherInv'
      <4>1. calls' \in Nat /\ \A s \in DOMAIN heard' : heard'[s] \in 0 .. calls'
        BY <3>1, <3>2 DEF ChannelInv, TogetherInv
      <4>. QED BY <3>1, <3>4, <4>1 DEF ChannelInv, TogetherInv, DecodersTogether
    <3>7. EachChannelItsOwn'
      BY <3>1 DEF ChannelInv, EachChannelItsOwn
    <3>. QED BY <2>2, <3>1, <3>3, <3>5, <3>6, <3>7 DEF ChannelInv
  <2>3. CASE Deliver
    BY <2>3, DeliverOwn
  <2>4. ASSUME NEW s \in Streams(setup.layout), NEW bytes \in Spoilt, Spoil(s, bytes)
        PROVE  ChannelInv'
    <3>. DEFINE packets == StreamPackets(wire.call, wire.style)
                before == [i \in 1 .. s |-> Delimited(packets[i])]
                data == FlattenSeq(before) \o bytes
    <3>1. wire # NoPacket /\ Decode(data)
      BY <2>4 DEF Spoil
    <3>2. before = Fronts(setup.layout, wire.call, wire.style, s)
      <4>1. s \in 0 .. setup.layout.streams - 1
        BY DEF Streams
      <4>2. setup.layout.streams \in 1 .. 5
        BY LayoutsAreGood, Zenon DEF ChannelInv, GoodLayout
      <4>3. \A i \in 1 .. s : packets[i] = StreamPacket(setup.layout, wire.call, i - 1, wire.style[i])
        <5>1. \A i \in 1 .. s : i \in 1 .. setup.layout.streams
          BY <4>1, <4>2
        <5>. QED BY <5>1 DEF StreamPackets
      <4>. HIDE DEF packets
      <4>. QED BY <4>3 DEF Fronts
    <3>. HIDE DEF before
    <3>3. /\ bytes \in Seq(Byte) /\ ~ParsePacket(bytes, TRUE).ok
          /\ bytes = <<>> \/ ~ParsePacket(bytes, FALSE).ok
      BY SpoiltAssumption
    <3>4. data = FlattenSeq(Fronts(setup.layout, wire.call, wire.style, s)) \o bytes
      BY <3>2
    <3>. HIDE DEF data
    <3>. QED BY <3>1, <3>3, <3>4, SpoilOwn
  <2>5. CASE Lose
    <3>. DEFINE none == <<>>
    <3>1. wire # NoPacket /\ Decode(none)
      BY <2>5 DEF Lose
    <3>2. none \in Seq(Byte) /\ ~ParsePacket(none, TRUE).ok /\ none = <<>>
      <4>1. ~ParsePacket(none, TRUE).ok
        BY EmptyIsNone, Zenon
      <4>2. none \in Seq(Byte)
        OBVIOUS
      <4>. QED BY <4>1, <4>2, Zenon
    <3>3. 0 \in Streams(setup.layout)
      <4>1. setup.layout.streams \in 1 .. 5
        BY LayoutsAreGood, Zenon DEF ChannelInv, GoodLayout
      <4>. QED BY <4>1 DEF Streams
    <3>4. none = FlattenSeq(Fronts(setup.layout, wire.call, wire.style, 0)) \o none
      <4>1. Fronts(setup.layout, wire.call, wire.style, 0) = <<>>
        BY DEF Fronts
      <4>2. FlattenSeq(<<>>) = <<>>
        BY DEF FlattenSeq
      <4>3. <<>> \o <<>> = <<>>
        OBVIOUS
      <4>. QED BY <4>1, <4>2, <4>3
    <3>. HIDE DEF none
    <3>. QED BY <3>1, <3>2, <3>3, <3>4, SpoilOwn
  <2>6. CASE ResetState
    <3>1. /\ player.ready /\ heard' = [s \in DOMAIN heard |-> 0] /\ out' = Reset
          /\ UNCHANGED <<setup, player, calls, wire>>
      BY <2>6 DEF ResetState, Cleared
    <3>2. DOMAIN heard' = DOMAIN heard /\ \A s \in DOMAIN heard' : heard'[s] = 0
      BY <3>1
    <3>3. TogetherInv'
      BY <3>1, <3>2 DEF ChannelInv, TogetherInv, DecodersTogether
    <3>4. EachChannelItsOwn'
      BY <3>1 DEF EachChannelItsOwn, Reset
    <3>5. WireInv'
      BY <3>1 DEF ChannelInv, WireInv, StreamPackets
    <3>. QED BY <3>1, <3>3, <3>4, <3>5 DEF ChannelInv
  <2>7. CASE UNCHANGED surroundVars
    <3>1. UNCHANGED <<setup, player, calls, wire, heard, out>>
      BY <2>7 DEF surroundVars
    <3>2. TogetherInv' /\ EachChannelItsOwn'
      BY <3>1 DEF ChannelInv, TogetherInv, DecodersTogether, EachChannelItsOwn
    <3>3. WireInv'
      BY <3>1 DEF ChannelInv, WireInv, StreamPackets
    <3>. QED BY <3>1, <3>2, <3>3 DEF ChannelInv
  <2>. QED BY <2>1, <2>2, <2>3, <2>4, <2>5, <2>6, <2>7 DEF SurroundNext
<1>3. ChannelInv => EachChannelItsOwn
  BY DEF ChannelInv
<1>. QED BY <1>1, <1>2, <1>3, PTL DEF SurroundSpec
=============================================================================
