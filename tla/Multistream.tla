----------------------------- MODULE Multistream -----------------------------
(***************************************************************************)
(* A surround stream from microphones to loudspeakers (multistream.rs,     *)
(* ogg/header.rs): an encoder for each stream of a layout, their packets   *)
(* joined into one, a header that says how, and a player that builds its   *)
(* decoders from the header and takes the packets apart.  Packets are lost *)
(* or arrive with a stream spoiled.  A coded frame says which of its       *)
(* encoder's calls and which input channels it is of.                      *)
(***************************************************************************)
EXTENDS Framing, OpusHeaders

CONSTANTS
  Setups,    \* [layout, rate, app, gain, comments] of files
  Styles,    \* for a call: how each stream's packet is framed
  Rooms,     \* sizes of the buffers handed to the encoder
  Spoilt,    \* what cannot be taken for a packet
  MaxCalls   \* calls of a behaviour

(* Files are made for a surround layout.                                   *)
ASSUME SetupAssumption ==
  \A file \in Setups : \E channels \in 1 .. 8, family \in {0, 1} :
    file.layout = Surround(channels, family) /\ file.layout.ok

(* A stream's packet is of one frame or more, 120 ms at most, no frame     *)
(* above the largest size; a byte can tell a call, and a channel.          *)
ASSUME StyleAssumption ==
  /\ MaxCalls \in Byte /\ 8 \in Byte
  /\ \A style \in Styles : \A i \in 1 .. 5 :
       /\ style[i].dropped \in BOOLEAN /\ style[i].padTo \in Nat
       /\ style[i].sizes \in Seq(Nat) /\ Len(style[i].sizes) # 0
       /\ Len(style[i].sizes) * Spans[0] <= MaxSpan
       /\ \A j \in DOMAIN style[i].sizes : style[i].sizes[j] + 3 <= MaxFrame

ASSUME SpoiltAssumption ==
  \A bytes \in Spoilt :
    /\ bytes \in Seq(Byte) /\ ~ParsePacket(bytes, TRUE).ok
    /\ bytes = <<>> \/ ~ParsePacket(bytes, FALSE).ok

VARIABLES
  setup,     \* what the file was made for
  player,    \* its decoders, once the headers are read
  calls,     \* calls the encoders have coded
  wire,      \* the packet on its way
  heard,     \* for each stream, the call its decoder decoded last
  out        \* what the last call of the player gave

surroundVars == <<setup, player, calls, wire, heard, out>>

NoPlayer == [ready |-> FALSE]
NoPacket == [call |-> 0]
Nothing  == [kind |-> "none"]
Reset    == [kind |-> "reset"]
Failed   == [kind |-> "error"]

Streams(layout) == 0 .. layout.streams - 1
LastStream(layout, s) == s = layout.streams - 1

(***************************************************************************)
(* OpusMSEncoder.                                                          *)
(***************************************************************************)
(* The input channel gathered for one of a stream's channels, the first    *)
(* that is mapped to it.                                                   *)
NoChannel == 0
InputFor(layout, target) ==
  LET channels == ChannelsFor(layout, target)
  IN IF channels = {} THEN NoChannel ELSE Min(channels)

(* A style is [dropped, sizes, padTo]: the frames of a stream, or that     *)
(* nothing was coded, and the length a constant rate pads them to.         *)
Coded(layout, call, s, style) ==
  LET channels == Targets(layout, s)
  IN [i \in DOMAIN style.sizes |->
        IF style.dropped THEN <<>>
        ELSE <<call>> \o [k \in DOMAIN channels |-> InputFor(layout, channels[k])]
               \o [k \in 1 .. style.sizes[i] |-> 0]]

StreamPacket(layout, call, s, style) ==
  EmitPacket(0, Coded(layout, call, s, style), style.padTo, FALSE)

(* All but the last are self-delimited, by way of a repacketizer.          *)
Delimited(packet) ==
  LET gathered == ParsePacket(packet, FALSE)
  IN EmitPacket(gathered.config, gathered.frames, NoPadding, TRUE)

Joined(layout, packets) ==
  FlattenSeq([i \in DOMAIN packets |->
    IF LastStream(layout, i - 1) THEN packets[i] ELSE Delimited(packets[i])])

StreamPackets(call, style) ==
  [i \in 1 .. setup.layout.streams |-> StreamPacket(setup.layout, call, i - 1, style[i])]

(* Every stream is coded before it shows whether the buffer will do.       *)
Encode(style, room) ==
  /\ calls < MaxCalls /\ wire = NoPacket
  /\ calls' = calls + 1
  /\ LET packet == Joined(setup.layout, StreamPackets(calls', style))
     IN wire' = IF room < Len(packet) THEN NoPacket
                ELSE [call |-> calls', style |-> style, bytes |-> packet]
  /\ UNCHANGED <<setup, player, heard, out>>

(***************************************************************************)
(* The player: a decoder for each stream the layout of the header has (one *)
(* for family 0: OpusHead::decoder), with the header's gain.               *)
(***************************************************************************)
FileHead == HeadPacket(HeadFor(setup.layout, setup.rate, setup.app, setup.gain))

TagsOf(entries) ==
  FoldLeft(LAMBDA tags, entry : Push(tags, entry.name, entry.value), NoTags, entries)

FileTags == TagsPacket(TagsOf(setup.comments))

Open ==
  /\ ~player.ready
  /\ LET head == ParseHead(FileHead)
         layout == Surround(head.channels, head.family)
     IN /\ head.ok /\ layout.ok
        /\ player' = [ready |-> TRUE, layout |-> layout, preSkip |-> head.preSkip, head |-> head,
                      gains |-> [s \in Streams(layout) |-> head.gain],
                      tags |-> ParseTags(FileTags)]
        /\ heard' = [s \in Streams(layout) |-> 0]
  /\ UNCHANGED <<setup, calls, wire, out>>

(* What a stream's decoder makes of a packet: the call and input channel   *)
(* of each frame, for each of the stream's channels.                       *)
Dropped   == [call |-> 0, channel |-> 0]
Concealed == [call |-> 0, channel |-> 1]
Sound(frames, k) ==
  [i \in DOMAIN frames |-> IF frames[i] = <<>> THEN Dropped
                           ELSE [call |-> frames[i][1], channel |-> frames[i][1 + k]]]

(* decode_native, stream by stream.  state: what is left of the packet,    *)
(* the output channels so far, the decoders that have decoded, whether all *)
(* went well.                                                              *)
NoSound == <<>>
Start(data) ==
  [left |-> data, ok |-> TRUE, moved |-> {}, output |-> [c \in 1 .. player.layout.channels |-> NoSound]]

StreamData(state, s) ==
  IF LastStream(player.layout, s)
  THEN [ok |-> TRUE, packet |-> state.left, consumed |-> Len(state.left)]
  ELSE TakeSelfDelimited(state.left)

(* Mutant: a right channel of a couple is where the left one is.           *)
RemuxedLeft(output, layout, s, frames) ==
  [c \in DOMAIN output |->
     IF layout.mapping[c] \in ToSet(Targets(layout, s)) THEN Sound(frames, 1) ELSE output[c]]

Remuxed(output, layout, s, frames) ==
  LET targets == Targets(layout, s)
  IN [c \in DOMAIN output |->
        IF layout.mapping[c] \in ToSet(targets)
        THEN Sound(frames, CHOOSE k \in DOMAIN targets : targets[k] = layout.mapping[c])
        ELSE output[c]]

(* No bytes at all are concealed; only the last stream's can be none.      *)
Filling(output, layout, s) ==
  [c \in DOMAIN output |->
     IF layout.mapping[c] \in ToSet(Targets(layout, s)) THEN <<Concealed>> ELSE output[c]]

DecodeStream(state, s) ==
  LET data   == StreamData(state, s)
      parsed == ParsePacket(data.packet, FALSE)
      lost   == data.ok /\ data.packet = <<>>
  IN IF ~state.ok \/ ~data.ok \/ (~parsed.ok /\ ~lost) THEN [state EXCEPT !.ok = FALSE]
     ELSE [left   |-> SubSeq(state.left, data.consumed + 1, Len(state.left)), ok |-> TRUE,
           moved  |-> state.moved \cup {s},
           output |-> IF lost THEN Filling(state.output, player.layout, s)
                      ELSE Remuxed(state.output, player.layout, s, parsed.frames)]

DecodeAll(data) ==
  LET upTo[n \in 0 .. player.layout.streams] ==
        IF n = 0 THEN Start(data) ELSE DecodeStream(upTo[n - 1], n - 1)
  IN upTo[player.layout.streams]

(* A stream that fails leaves those before it decoded.                     *)
Decode(data) ==
  /\ player.ready /\ wire # NoPacket
  /\ LET done == DecodeAll(data)
     IN /\ heard' = [s \in DOMAIN heard |-> IF s \in done.moved THEN wire.call ELSE heard[s]]
        /\ out' = IF done.ok THEN [kind |-> "decoded", style |-> wire.style,
                                    whole |-> data = wire.bytes, output |-> done.output]
                  ELSE Failed
  /\ wire' = NoPacket
  /\ UNCHANGED <<setup, player, calls>>

Deliver == wire # NoPacket /\ Decode(wire.bytes)

(* One stream of the packet is spoiled on its way.                         *)
Spoil(s, bytes) ==
  /\ wire # NoPacket
  /\ LET packets == StreamPackets(wire.call, wire.style)
         before  == [i \in 1 .. s |-> Delimited(packets[i])]
     IN Decode(FlattenSeq(before) \o bytes)

(* A packet that does not arrive: the player asks for its concealment,     *)
(* which is a packet of no bytes.                                          *)
Lose == wire # NoPacket /\ Decode(<<>>)

(* Mutant: the decoders behind the first are forgotten.                    *)
ClearedFirst(decoders) == [decoders EXCEPT ![0] = 0]

Cleared(decoders) == [s \in DOMAIN decoders |-> 0]

ResetState ==
  /\ player.ready /\ out.kind \in {"decoded", "error"}
  /\ heard' = Cleared(heard) /\ out' = Reset
  /\ UNCHANGED <<setup, player, calls, wire>>

SurroundInit ==
  /\ setup \in Setups
  /\ player = NoPlayer /\ calls = 0 /\ wire = NoPacket /\ heard = <<>> /\ out = Nothing

SurroundNext ==
  \/ Open
  \/ player.ready /\ \E style \in Styles, room \in Rooms : Encode(style, room)
  \/ Deliver
  \/ \E s \in Streams(setup.layout), bytes \in Spoilt : Spoil(s, bytes)
  \/ Lose
  \/ ResetState

SurroundSpec == SurroundInit /\ [][SurroundNext]_surroundVars

(***************************************************************************)
(* Properties.                                                             *)
(***************************************************************************)
(* Every output channel gives the sound of the input channel of the same   *)
(* number, of the one call the packet is of, frame by frame, for every     *)
(* layout and however the streams' packets are framed; a stream that coded *)
(* nothing is silent in all its channels.                                  *)
CarrierOf(layout, c) ==
  CHOOSE s \in Streams(layout) : layout.mapping[c] \in ToSet(Targets(layout, s))

EachChannelItsOwn ==
  out.kind = "decoded" =>
    \A c \in DOMAIN out.output :
      LET style == out.style[CarrierOf(setup.layout, c) + 1]
      IN \/ out.output[c] = [i \in DOMAIN style.sizes |->
              IF style.dropped THEN Dropped ELSE [call |-> heard[0], channel |-> c]]
         \/ /\ ~out.whole /\ out.output[c] = <<Concealed>>
            /\ LastStream(setup.layout, CarrierOf(setup.layout, c))

(* Whenever a packet was decoded without an error, or the player was       *)
(* reset, the decoders have all come to the same call, whatever errors put *)
(* some of them ahead before; and an error leaves ahead only those in      *)
(* front of the stream that failed.                                        *)
DecodersTogether ==
  /\ out.kind \in {"decoded", "reset"} => \A s, t \in DOMAIN heard : heard[s] = heard[t]
  /\ \A s, t \in DOMAIN heard : s < t => heard[s] >= heard[t]

(* The headers come back as they were written, a part of one is refused,   *)
(* and the layout the player builds from the header is the encoder's, with *)
(* the 2.5 ms and, but for low delay, 4 ms of delay to skip, whatever the  *)
(* rate; comments are found again under their name, in order, in whatever  *)
(* case it was pushed.                                                     *)
HeadersDescribeTheStream ==
  player.ready =>
    /\ player.layout = setup.layout
    /\ player.preSkip = 120 + (IF setup.app = "lowdelay" THEN 0 ELSE 192)
    /\ player.head = HeadFor(setup.layout, setup.rate, setup.app, setup.gain)
    /\ player.tags.ok
    /\ \A i \in DOMAIN setup.comments :
         LET same == SelectSeq(setup.comments, LAMBDA e : SameName(e.name, setup.comments[i].name))
         IN Pushable(setup.comments[i].name) =>
              GetAll(player.tags, setup.comments[i].name) = [j \in DOMAIN same |-> same[j].value]
    /\ \A n \in 0 .. Len(FileHead) - 1 : ~ParseHead(SubSeq(FileHead, 1, n)).ok
    /\ \A n \in 0 .. Len(FileTags) - 1 : ~ParseTags(SubSeq(FileTags, 1, n)).ok

=============================================================================
