---------------------------- MODULE Repacketizer ----------------------------
(***************************************************************************)
(* Repacketizer, pad_packet, unpad_packet and take_self_delimited_into: a  *)
(* caller with one repacketizer and one packet in hand, which it gathers,  *)
(* replaces by what the repacketizer gives out, pads, strips, and sends    *)
(* and takes back in self-delimited form at the head of a longer stream of *)
(* bytes.  What the packet in hand means is kept as history.               *)
(***************************************************************************)
EXTENDS Framing

CONSTANTS
  Packets,          \* packets from elsewhere, malformed ones included
  DelimitedPackets, \* self-delimited packets from elsewhere
  Trailers,         \* what may follow a self-delimited packet
  Lengths           \* lengths callers pad to

ASSUME PacketAssumption ==
  /\ Packets \cup DelimitedPackets \cup Trailers \subseteq Seq(Byte)
  /\ Lengths \subseteq Nat \ {0}

VARIABLES
  config,     \* the configuration of the frames held
  frames,     \* the frames held
  packet,     \* the packet in hand
  delimited,  \* it is in self-delimited form
  meaning,    \* history: the configuration and frames it carries, if any
  promise,    \* history: the length it was to have
  overrun     \* history: bytes the last self-delimited packet taken was out by

rp   == <<config, frames>>
hand == <<packet, delimited, meaning, promise, overrun>>
vars == <<rp, hand>>

(* Lengths promised: none, the shortest, or so many bytes.                 *)
AnyLength == -1
Shortest  == 0

Means(parsed) == [config |-> parsed.config, frames |-> parsed.frames]

(* The caller has a packet from elsewhere.                                 *)
Fetch(data) ==
  /\ packet' = data /\ delimited' = FALSE
  /\ meaning' = Means(ParsePacket(data, FALSE))
  /\ promise' = AnyLength /\ overrun' = 0
  /\ UNCHANGED rp

FetchDelimited(data) ==
  /\ packet' = data /\ delimited' = TRUE
  /\ meaning' = Means(ParsePacket(data, TRUE))
  /\ promise' = AnyLength /\ overrun' = 0
  /\ UNCHANGED rp

(***************************************************************************)
(* cat: the packet's frames join those held, if it is of their             *)
(* configuration and they come to 120 ms at most.  An empty repacketizer   *)
(* takes the configuration on before it knows the packet is one.           *)
(***************************************************************************)
Fits(held, data) ==
  (FrameCount(data) + Len(held)) * Spans[ConfigOf(data[1])] <= MaxSpan

Cat ==
  /\ ~delimited
  /\ packet # <<>>
  /\ frames # <<>> => ConfigOf(packet[1]) = config
  /\ config' = ConfigOf(packet[1])
  /\ frames' = IF HasFrameCount(packet) /\ Fits(frames, packet)
               THEN frames \o ParsePacket(packet, FALSE).frames
               ELSE frames
  /\ UNCHANGED hand

Clear ==
  /\ config' = 0 /\ frames' = <<>>
  /\ UNCHANGED hand

(* out_range and out; out_self_delimited, which gives out everything.      *)
OutRange(first, last) ==
  /\ packet' = EmitPacket(config, SubSeq(frames, first, last), NoPadding, FALSE)
  /\ delimited' = FALSE
  /\ meaning' = [config |-> config, frames |-> SubSeq(frames, first, last)]
  /\ promise' = Shortest /\ overrun' = 0
  /\ UNCHANGED rp

OutSelfDelimited ==
  /\ frames # <<>>
  /\ packet' = EmitPacket(config, frames, NoPadding, TRUE)
  /\ delimited' = TRUE
  /\ meaning' = [config |-> config, frames |-> frames]
  /\ promise' = Shortest /\ overrun' = 0
  /\ UNCHANGED rp

(***************************************************************************)
(* pad_packet and unpad_packet: through a repacketizer of their own.  A    *)
(* packet already of the length asked for is not looked at.                *)
(***************************************************************************)
Gathered == ParsePacket(packet, FALSE).frames
Gathers  == HasFrameCount(packet) /\ Fits(<<>>, packet) /\ Gathered # <<>>
Again(length) == EmitPacket(ConfigOf(packet[1]), Gathered, length, FALSE)

Pad(length) ==
  /\ ~delimited /\ packet # <<>>
  /\ Len(packet) <= length
  /\ Len(packet) < length => Gathers
  /\ packet' = IF Len(packet) = length THEN packet
               ELSE Again(length)
  /\ promise' = length
  /\ UNCHANGED <<rp, delimited, meaning, overrun>>

Unpad ==
  /\ ~delimited /\ packet # <<>>
  /\ Gathers
  /\ packet' = Again(NoPadding)
  /\ promise' = Shortest
  /\ UNCHANGED <<rp, delimited, meaning, overrun>>

(* take_self_delimited_into, of the packet with something behind it.       *)
Take(trailer) ==
  /\ delimited
  /\ \E taken \in {TakeSelfDelimited(packet \o trailer)} :
       /\ taken.ok
       /\ packet' = taken.packet
       /\ overrun' = taken.consumed - Len(packet)
  /\ delimited' = FALSE /\ promise' = Shortest
  /\ UNCHANGED <<rp, meaning>>

(***************************************************************************)
(* The specification.                                                      *)
(***************************************************************************)
Init ==
  /\ config = 0 /\ frames = <<>>
  /\ packet = <<>> /\ delimited = FALSE
  /\ meaning = [config |-> 0, frames |-> <<>>] /\ promise = AnyLength /\ overrun = 0

Next ==
  \/ \E data \in Packets : Fetch(data)
  \/ \E data \in DelimitedPackets : FetchDelimited(data)
  \/ Cat \/ Clear
  \/ \E first, last \in DOMAIN frames : first <= last /\ OutRange(first, last)
  \/ OutSelfDelimited
  \/ \E length \in Lengths : Pad(length)
  \/ Unpad
  \/ \E trailer \in Trailers : Take(trailer)

Spec == Init /\ [][Next]_vars

(* What the theorems say of the self-delimited packets from elsewhere, as  *)
(* the crate's own encoder sends them: they are packets, and they end with *)
(* their last frame.                                                       *)
SentWell  == \A data \in DelimitedPackets : ParsePacket(data, TRUE).ok
SentWhole == \A data \in DelimitedPackets : ParsePacket(data, TRUE).consumed = Len(data)

(***************************************************************************)
(* Properties.                                                             *)
(***************************************************************************)
(* The lengths a packet of these frames may have, one way or another.      *)
FramedLengths(sizes, selfDelimited) ==
  LET count == Len(sizes)
      equal == \A i \in DOMAIN sizes : sizes[i] = sizes[1]
      field(i) == IF sizes[i] < Short THEN 1 ELSE 2
      fields == Total([i \in 1 .. count - 1 |-> field(i)])
      last == IF selfDelimited THEN field(count) ELSE 0
  IN {last + Total(sizes) + h :
        h \in (IF count = 1 THEN {1} ELSE {}) \cup (IF equal THEN {2} ELSE {})
                \cup (IF count = 2 THEN {1 + fields} ELSE {})
                \cup (IF count = 2 /\ equal THEN {1} ELSE {}) \cup {2 + fields}}

(* "without re-encoding" (repacketizer.rs:1-5): gathered, split, framed    *)
(* again, padded, stripped or sent self-delimited in any order, a packet   *)
(* still parses to exactly the frames it was made of, byte for byte.  A    *)
(* padded packet has the length asked for, to the byte (pad_packet, "to    *)
(* new_len bytes"); one given out or stripped is the "minimal packet" of   *)
(* its frames: no way of framing them is shorter.                          *)
MeaningKept ==
  /\ meaning.frames # <<>> => Means(ParsePacket(packet, delimited)) = meaning
  /\ promise > 0 => Len(packet) = promise
  /\ promise = Shortest => Len(packet) = Min(FramedLengths(Sizes(meaning.frames), delimited))

(* A self-delimited packet is taken whole: the next stream's starts where  *)
(* it ends, whatever follows ("packet_offset, for self-delimited           *)
(* multistream advancement", repacketizer.rs:246).                         *)
TakenWhole == overrun = 0
=============================================================================
