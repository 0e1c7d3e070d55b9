----------------------------- MODULE OpusHeaders -----------------------------
(***************************************************************************)
(* The two header packets of an Opus file, byte by byte (ogg/header.rs),   *)
(* and the channel layouts they describe (multistream.rs).  A string is a  *)
(* sequence of ASCII codes.                                                *)
(***************************************************************************)
EXTENDS Integers, SequencesExt

Rejected == [ok |-> FALSE]
Below(n) == [i \in 1 .. n |-> i - 1]

(* Little-endian numbers.                                                  *)
Le(n, bytes)    == [i \in 1 .. bytes |-> (n \div 256 ^ (i - 1)) % 256]
Unsigned(bytes) == FoldRight(LAMBDA byte, n : byte + 256 * n, bytes, 0)
Signed16(n)     == IF n >= 32768 THEN n - 65536 ELSE n
At(data, from, count) == SubSeq(data, from + 1, from + count)   \* data[from..from + count]

(***************************************************************************)
(* ChannelLayout::surround.                                                *)
(***************************************************************************)
Silent == 255   \* an output channel no stream feeds

VorbisMappings == <<
  <<1, 0, <<0>> >>, <<1, 1, <<0, 1>> >>, <<2, 1, <<0, 2, 1>> >>, <<2, 2, <<0, 1, 2, 3>> >>,
  <<3, 2, <<0, 4, 1, 2, 3>> >>, <<4, 2, <<0, 4, 1, 2, 3, 5>> >>,
  <<4, 3, <<0, 4, 1, 2, 3, 5, 6>> >>, <<5, 3, <<0, 6, 1, 2, 3, 4, 5, 7>> >> >>

Surround(channels, family) ==
  CASE family = 0 /\ channels \in {1, 2} ->
         [ok |-> TRUE, family |-> 0, channels |-> channels, streams |-> 1,
          coupled |-> channels - 1, mapping |-> Below(channels)]
    [] family = 1 /\ channels \in 1 .. 8 ->
         [ok |-> TRUE, family |-> 1, channels |-> channels, streams |-> VorbisMappings[channels][1],
          coupled |-> VorbisMappings[channels][2], mapping |-> VorbisMappings[channels][3]]
    [] OTHER -> Rejected

(* Which of the streams' channels a stream (counted from 0) carries; the   *)
(* output channels (from 1) fed from one of them.                          *)
LeftTarget(s)  == 2 * s
RightTarget(s) == 2 * s + 1

MonoTarget(layout, s) == s + layout.coupled

Coupled(layout, s) == s < layout.coupled
Targets(layout, s) ==
  IF Coupled(layout, s) THEN <<LeftTarget(s), RightTarget(s)>> ELSE <<MonoTarget(layout, s)>>
ChannelsFor(layout, target) == {c \in DOMAIN layout.mapping : layout.mapping[c] = target}

(***************************************************************************)
(* OpusHead.                                                               *)
(***************************************************************************)
(* "OpusHead" and "OpusTags".                                              *)
HeadMagic == <<79, 112, 117, 115, 72, 101, 97, 100>>
TagsMagic == <<79, 112, 117, 115, 84, 97, 103, 115>>

GranuleRate == 48000
CeltPrefillSamples(rate)  == 120 \div (GranuleRate \div rate)

(* Mutant: the delay is the same whatever the application.                 *)
CeltDelayAlways(rate, app) == rate \div 250

CeltDelaySamples(rate, app) == IF app = "lowdelay" THEN 0 ELSE rate \div 250
Lookahead(rate, app) == CeltPrefillSamples(rate) + CeltDelaySamples(rate, app)

PreSkip48k(lookahead, rate) ==
  LET scaled == (lookahead * GranuleRate) \div rate IN IF scaled < 65535 THEN scaled ELSE 65535

(* for_layout and for_ms_encoder (for_encoder for one stream); the gain is *)
(* the caller's to set.                                                    *)
HeadFor(layout, rate, app, gain) ==
  [ok |-> TRUE, channels |-> layout.channels, preSkip |-> PreSkip48k(Lookahead(rate, app), rate),
   rate |-> rate, gain |-> gain, family |-> layout.family, streams |-> layout.streams,
   coupled |-> layout.coupled, mapping |-> IF layout.family = 0 THEN <<>> ELSE layout.mapping]

HeadPacket(head) ==
  HeadMagic \o <<1, head.channels>> \o Le(head.preSkip, 2) \o Le(head.rate, 4)
    \o Le(head.gain % 65536, 2) \o <<head.family>>
    \o (IF head.family = 0 THEN <<>> ELSE <<head.streams, head.coupled>> \o head.mapping)

(* The streams a header declares, of a packet of 19 bytes or more.         *)
Implicit(channels) ==
  IF channels > 2 THEN Rejected
  ELSE [ok |-> TRUE, streams |-> 1, coupled |-> channels - 1, mapping |-> <<>>]

Declared(data, channels) ==
  LET need == 21 + channels
      mapping == At(data, 21, channels)
  IN IF \/ Len(data) < need
        \/ data[20] = 0 \/ data[21] > data[20]
        \/ \E c \in DOMAIN mapping : mapping[c] # Silent /\ mapping[c] >= data[20] + data[21]
     THEN Rejected
     ELSE [ok |-> TRUE, streams |-> data[20], coupled |-> data[21], mapping |-> mapping]

ParseHead(data) ==
  IF Len(data) < 19 \/ At(data, 0, 8) # HeadMagic \/ data[9] >= 16 \/ data[10] = 0 THEN Rejected
  ELSE LET streams == IF data[19] = 0 THEN Implicit(data[10]) ELSE Declared(data, data[10])
       IN IF ~streams.ok THEN Rejected
          ELSE [ok |-> TRUE, channels |-> data[10], preSkip |-> Unsigned(At(data, 10, 2)),
                rate |-> Unsigned(At(data, 12, 4)), gain |-> Signed16(Unsigned(At(data, 16, 2))),
                family |-> data[19], streams |-> streams.streams, coupled |-> streams.coupled,
                mapping |-> streams.mapping]

(***************************************************************************)
(* OpusTags: a vendor and comments, each a string after its length.        *)
(***************************************************************************)
Text(string) == Le(Len(string), 4) \o string

TagsPacket(tags) ==
  TagsMagic \o Text(tags.vendor) \o Le(Len(tags.comments), 4)
    \o FlattenSeq([i \in DOMAIN tags.comments |-> Text(tags.comments[i])])

(* take_len: a length, if the packet has as much; where it goes on.        *)
TakeLen(data, pos) ==
  LET n == Unsigned(At(data, pos, 4))
  IN IF Len(data) < pos + 4 \/ Len(data) < pos + 4 + n THEN Rejected
     ELSE [ok |-> TRUE, pos |-> pos + 4, n |-> n]

TakeText(data, read) ==
  LET len == IF read.ok THEN TakeLen(data, read.pos) ELSE Rejected
  IN IF ~len.ok THEN Rejected
     ELSE [ok |-> TRUE, pos |-> len.pos + len.n, texts |-> Append(read.texts, At(data, len.pos, len.n))]

ParseTags(data) ==
  LET vendor == TakeText(data, [ok |-> TRUE, pos |-> 8, texts |-> <<>>])
      count  == IF vendor.ok THEN TakeLen(data, vendor.pos) ELSE Rejected
      start  == [ok |-> TRUE, pos |-> count.pos, texts |-> <<>>]
      all    == FoldLeft(LAMBDA read, i : TakeText(data, read), start, Below(count.n))
  IN IF Len(data) < 12 \/ At(data, 0, 8) # TagsMagic THEN Rejected
     ELSE IF ~count.ok \/ 4 * count.n > Len(data) - count.pos THEN Rejected
     ELSE IF ~all.ok THEN Rejected
     ELSE [ok |-> TRUE, vendor |-> vendor.texts[1], comments |-> all.texts]

(* push and get_all: a name up to the first '=', whatever its case.        *)
Equals == 61
NameByte == 32 .. 125 \ {Equals}
Lower(byte) == IF byte \in 65 .. 90 THEN byte + 32 ELSE byte
SameName(a, b) ==
  Len(a) = Len(b) /\ \A i \in DOMAIN a : Lower(a[i]) = Lower(b[i])

NoTags == [vendor |-> <<111, 112>>, comments |-> <<>>]
Pushable(name) == name # <<>> /\ \A i \in DOMAIN name : name[i] \in NameByte
Push(tags, name, value) ==
  IF Pushable(name) THEN [tags EXCEPT !.comments = Append(@, name \o <<Equals>> \o value)] ELSE tags

Named(comment, name) ==
  \E i \in DOMAIN comment :
    /\ comment[i] = Equals /\ \A j \in 1 .. i - 1 : comment[j] # Equals
    /\ SameName(SubSeq(comment, 1, i - 1), name)
GetAll(tags, name) ==
  LET found == SelectSeq(tags.comments, LAMBDA comment : Named(comment, name))
  IN [i \in DOMAIN found |-> SubSeq(found[i], Len(name) + 2, Len(found[i]))]
=============================================================================
