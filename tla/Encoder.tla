------------------------------- MODULE Encoder -------------------------------
(***************************************************************************)
(* OpusEncoder (encoder.rs): a stream of packets, each decided as a whole  *)
(* (PacketPlan), coded as one frame or as several of equal duration, and   *)
(* put together within the buffer the caller gives.  What the layers put   *)
(* into a frame is its size here; whether the audio is silence, what the   *)
(* analysis makes of it and how many bytes it takes are choices.           *)
(* Durations are half milliseconds, as the DTX counter's are.              *)
(***************************************************************************)
EXTENDS PacketPlan

CONSTANTS
  Streams,       \* what encoders are made for: [rate, channels, app], and a use
  Calls,         \* for each, [settings, duration, buffer] its caller asks for
  Audio,         \* for each, what it may hear: [silence, analysed, voice, bandwidth]
  PayloadSizes   \* for each, sizes its frames may come to when they have the choice

(* The rates an encoder can be made for; what its caller may set, which    *)
(* is any number: encode_native clamps those that have a range.            *)
Rates == {8000, 12000, 16000, 24000, 48000}
Settings ==
  [bitrate : Int, cbr : BOOLEAN, complexity : Int, loss : Int, fec : BOOLEAN,
   dtx : BOOLEAN, force : {Unset} \cup NB .. FB, max : NB .. FB,
   signal : {"auto", "voice", "music"}]

ASSUME EncoderAssumption ==
  \A s \in Streams :
    /\ s.rate \in Rates /\ s.channels \in {1, 2}
    /\ \A call \in Calls[s] : call.settings \in Settings /\ call.buffer \in Nat
    /\ \A audio \in Audio[s] : audio.bandwidth \in NB .. FB /\ audio.analysed \in BOOLEAN
    /\ PayloadSizes[s] \subseteq Nat

NoVoice == -1
NoMode  == "none"

VARIABLES
  stream,    \* what the encoder was made for
  enc,       \* what it remembers from packet to packet
  job,       \* the packet in the making
  packet,    \* the last one given out, or why there was none
  decoder,   \* history: the mode the decoder was last in
  astray,    \* history: the CELT coders were reset at different frames ...
  paused,    \* history: how long nothing has been coded, by DTX
  silent     \* history: how long there has been no activity

vars == <<stream, enc, job, packet, decoder, astray, paused, silent>>

Fresh == [prev |-> NoMode, first |-> TRUE, auto |-> 0, bandwidth |-> NB,
          lbrr |-> FALSE, quiet |-> 0, voice |-> NoVoice]

Idle == [phase |-> "idle"]
NoPacket == [kind |-> "none"]
Refused  == [kind |-> "refused"]

InTogether == "no"      \* ... not at all
ByStarving == "starved" \* ... for a packet without room had none coded
Astray     == "yes"

(***************************************************************************)
(* The budget of a packet (encode_split_packet) and of a frame.            *)
(***************************************************************************)
MaxOneFramePacket == 1276
TargetBytes(s, duration) == (((s.bitrate * duration) \div 2000) + 4) \div 8

(* Mutant: one byte is enough to tell a frame's size.                      *)
HeaderBytesShort(count) == IF count = 2 THEN 2 ELSE 2 + (count - 1)

MaxHeaderBytes(count) == IF count = 2 THEN 3 ELSE 2 + (count - 1) * 2

PacketLimit(s, duration, buffer) ==
  IF s.cbr THEN Least(TargetBytes(s, duration), buffer) ELSE buffer

(* A frame's share of what its packet may spend, of which so much is gone. *)
Share(s, duration, total, count) ==
  Most(3, Least((s.bitrate * duration) \div 16000, total \div count))
FrameRoom(j) == Least(Share(j.settings, j.frame, j.total, j.count), j.total - j.spent)

FrameLimit(s, duration, room) ==
  IF s.cbr THEN Most(1, Least(TargetBytes(s, duration), room)) ELSE Most(room, 3)

(* The payload: CELT fills its coder at a constant rate; otherwise it ends *)
(* where its last symbol does.                                             *)
Payloads(s, mode, limit) ==
  LET most == Least(limit, MaxOneFramePacket) - 1
  IN IF s.cbr /\ mode # "silk" THEN {most}
     ELSE {Least(size, most) : size \in PayloadSizes[stream]}

(* emit_one_frame_packet: the length written, and the payload in it.       *)
OneFramePacket(payload, target, room) ==
  LET length == Least(target, room)
  IN [length |-> length, payload |-> Least(payload, length - 1)]

(* emit_packet: a byte or two of framing, the sizes it has to give.        *)
SizeBytes(size) == IF size < 252 THEN 1 ELSE 2
PlusAll(sizes) ==
  LET sum[i \in 0 .. Len(sizes)] == IF i = 0 THEN 0 ELSE sum[i - 1] + sizes[i]
  IN sum[Len(sizes)]

Framed(sizes, padTo) ==
  LET count == Len(sizes)
      vbr   == \E i \in 1 .. count : sizes[i] # sizes[1]
      code3 == count > 2 \/ padTo > 0
      given == IF vbr THEN PlusAll([i \in 1 .. count - 1 |-> SizeBytes(sizes[i])]) ELSE 0
  IN Most(padTo, (IF code3 THEN 2 ELSE 1) + given + PlusAll(sizes))

(***************************************************************************)
(* encode_native: what is refused, what is decided, and the layout.        *)
(***************************************************************************)
Normalised(s) ==
  [s EXCEPT !.bitrate = Least(Most(s.bitrate, 500), 300000 * stream.channels),
            !.complexity = Least(Most(s.complexity, 0), 10),
            !.loss = Least(Most(s.loss, 0), 100)]

EncodeRefused(call) ==
  /\ job = Idle
  /\ \/ call.settings.bitrate <= 0
     \/ call.buffer < 2
     \/ call.duration \notin Durations
  /\ packet' = Refused
  /\ UNCHANGED <<stream, enc, job, decoder, astray, paused, silent>>

(* The analysis runs for an encoder that has the complexity to spare.      *)
Analysed(s, audio) ==
  audio.analysed /\ s.complexity >= 7 /\ stream.rate >= 16000

(* The analysis' word on speech is for a packet that is not all silence,   *)
(* and stays when the next one is.                                         *)
VoiceRatio(s, audio) ==
  CASE Analysed(s, audio) -> audio.voice
    [] ~Analysed(s, audio) /\ audio.silence -> enc.voice
    [] OTHER -> NoVoice

Decided(plan, voiceRatio) ==
  [enc EXCEPT !.first = FALSE, !.auto = plan.auto, !.bandwidth = plan.bandwidth,
              !.lbrr = plan.lbrr, !.voice = voiceRatio]

NewJob(s, call, plan, audio) ==
  LET frame == FrameDuration(call.duration, plan.mode)
      count == call.duration \div frame
      limit == PacketLimit(s, call.duration, call.buffer)
  IN [phase |-> "frames", settings |-> s, buffer |-> call.buffer, mode |-> plan.mode,
      frame |-> frame, count |-> count, left |-> count, limit |-> limit,
      silence |-> audio.silence, analysed |-> Analysed(s, audio),
      total |-> count + limit - MaxHeaderBytes(count),
      spent |-> 0, sizes |-> <<>>, dropped |-> 0, cut |-> FALSE]

Toc(j) == GenToc(j.mode, RateOf(j.frame), enc.bandwidth)

Given(j, length) ==
  [kind |-> "packet", length |-> length, buffer |-> j.buffer, toc |-> Toc(j),
   promised |-> IF j.settings.cbr /\ j.dropped < j.count THEN j.limit ELSE 0,
   cbr |-> j.settings.cbr, cut |-> j.cut]

Encode(call, audio) ==
  /\ job = Idle
  /\ call.settings.bitrate > 0 /\ call.buffer >= 2 /\ call.duration \in Durations
  /\ LET s     == Normalised(call.settings)
         voice == VoiceRatio(s, audio)
         plan  == Plan(stream, s, enc, call.duration,
                       IF Analysed(s, audio) THEN audio.bandwidth ELSE Unset, voice)
     IN /\ enc' = Decided(plan, voice)
        /\ job' = NewJob(s, call, plan, audio)
  /\ packet' = NoPacket
  /\ UNCHANGED <<stream, decoder, astray, paused, silent>>

(* A packet of several frames whose framing does not fit.                  *)
NoRoomToFrame ==
  /\ job # Idle /\ job.count > 1 /\ job.left = job.count
  /\ job.total <= 0
  /\ packet' = Refused /\ job' = Idle
  /\ UNCHANGED <<stream, enc, decoder, astray, paused, silent>>

(***************************************************************************)
(* The decoder's CELT coder restarts at a packet in another mode than the  *)
(* last (decoder.rs); the encoder's at a frame in another.                 *)
(***************************************************************************)
Restarts(prev, mode) == prev \notin {NoMode, mode} /\ mode # "silk"

Drift(encoderRestarts, decoderRestarts, why) ==
  CASE encoderRestarts /\ decoderRestarts -> InTogether
    [] encoderRestarts # decoderRestarts  -> why
    [] OTHER -> astray

(* Not enough of a packet to seat every frame: the framing alone.          *)
Starved ==
  /\ job # Idle /\ job.count > 1 /\ job.left = job.count
  /\ job.total \in 1 .. 3 * job.count - 1
  /\ enc' = [enc EXCEPT !.prev = job.mode]
  /\ LET empty == [i \in 1 .. job.count |-> 0]
     IN packet' = Given(job, Framed(empty, IF job.settings.cbr THEN job.limit ELSE 0))
  /\ job' = Idle
  /\ decoder' = job.mode
  /\ astray' = Drift(FALSE, Restarts(decoder, job.mode), ByStarving)
  /\ UNCHANGED <<stream, paused, silent>>

(***************************************************************************)
(* encode_frame.  The room is the buffer for a packet of one frame, its    *)
(* share for one of several.                                               *)
(***************************************************************************)
Ready == job # Idle /\ job.left > 0 /\ (job.count = 1 \/ job.total >= 3 * job.count)
Room  == IF job.count = 1 THEN job.buffer ELSE FrameRoom(job)
Limit == FrameLimit(job.settings, job.frame, Room)

(* A packet is silent when all of it is; what was not analysed is active.  *)
Heard(silence, active) ==
  /\ IF job.count = 1 THEN silence = job.silence ELSE job.silence => silence
  /\ job.analysed \/ active

(* DTX is for audio that is known to hold nothing: after 200 ms of it      *)
(* nothing is coded, but for one frame every 400 ms.                       *)
DtxFrom == 400
DtxUpTo == 1200

Watched(silence) == job.settings.dtx /\ (job.analysed \/ silence)
Inactive(silence, active) == silence \/ (job.analysed /\ ~active)

Quiet(silence, active) ==
  IF ~Watched(silence) \/ ~Inactive(silence, active) THEN 0
  ELSE IF enc.quiet + job.frame > DtxUpTo THEN DtxFrom ELSE enc.quiet + job.frame

(* Mutant: a pause that has begun lasts.                                   *)
DroppedForGood(silence, active) ==
  /\ Watched(silence) /\ Inactive(silence, active)
  /\ enc.quiet + job.frame > DtxFrom

Dropped(silence, active) ==
  /\ Watched(silence) /\ Inactive(silence, active)
  /\ enc.quiet + job.frame > DtxFrom /\ enc.quiet + job.frame <= DtxUpTo

(* Mutant: the layers are not restarted for a frame that is then dropped.  *)
FrameStartsOnceCoded(silence, active) ==
  /\ enc' = [enc EXCEPT !.quiet = Quiet(silence, active), !.prev = job.mode]
  /\ decoder' = job.mode
  /\ astray' = Drift(Restarts(enc.prev, job.mode) /\ ~Dropped(silence, active),
                     Restarts(decoder, job.mode), Astray)

(* Whichever way it goes, the coders restart when the mode has changed,    *)
(* the counter moves, and the mode is the one to go on from.               *)
FrameStarts(silence, active) ==
  /\ enc' = [enc EXCEPT !.quiet = Quiet(silence, active), !.prev = job.mode]
  /\ decoder' = job.mode
  /\ astray' = Drift(Restarts(enc.prev, job.mode), Restarts(decoder, job.mode), Astray)

(* What goes into the packet, and the packet itself when it has one frame. *)
FrameDone(length, size, cut) ==
  LET next == [job EXCEPT !.left = @ - 1, !.spent = @ + length, !.sizes = Append(@, size),
                          !.dropped = IF length = 1 THEN @ + 1 ELSE @, !.cut = @ \/ cut]
  IN IF job.count > 1 THEN job' = next /\ UNCHANGED packet
     ELSE job' = Idle /\ packet' = Given(next, length)

(* How long it has been, up to what tells.                                 *)
Since(time, most) == Least(time + job.frame, most)

(* A frame that is not coded: its table of contents is all there is of it. *)
DropFrame(silence, active) ==
  /\ Ready /\ Heard(silence, active)
  /\ Dropped(silence, active)
  /\ FrameStarts(silence, active)
  /\ FrameDone(1, 0, FALSE)
  /\ paused' = Since(paused, DtxUpTo) /\ silent' = Since(silent, DtxFrom + 1)
  /\ UNCHANGED stream

ToCode == IF Ready THEN Payloads(job.settings, job.mode, Limit) ELSE {}

CodeFrame(silence, active, payload) ==
  /\ Ready /\ Heard(silence, active)
  /\ ~Dropped(silence, active)
  /\ LET made == OneFramePacket(payload, IF job.settings.cbr THEN Limit ELSE payload + 1, Room)
     IN FrameDone(made.length, made.payload, made.payload # payload)
  /\ FrameStarts(silence, active)
  /\ paused' = 0
  /\ silent' = IF Inactive(silence, active) THEN Since(silent, DtxFrom + 1) ELSE 0
  /\ UNCHANGED stream

PadTo(j) == IF j.settings.cbr /\ j.dropped # j.count THEN j.limit ELSE 0

(* The frames, once all are there, become the packet.                      *)
Emit ==
  /\ job # Idle /\ job.count > 1 /\ job.left = 0
  /\ packet' = Given(job, Framed(job.sizes, PadTo(job)))
  /\ job' = Idle
  /\ UNCHANGED <<stream, enc, decoder, astray, paused, silent>>

(* reset_state, for another stream with the same settings.                 *)
ResetState ==
  /\ job = Idle
  /\ enc' = Fresh /\ packet' = NoPacket /\ decoder' = NoMode
  /\ astray' = InTogether /\ paused' = 0 /\ silent' = 0
  /\ UNCHANGED <<stream, job>>

Init ==
  /\ stream \in Streams
  /\ enc = Fresh /\ job = Idle /\ packet = NoPacket
  /\ decoder = NoMode /\ astray = InTogether /\ paused = 0 /\ silent = 0

Next ==
  \/ \E call \in Calls[stream] :
       EncodeRefused(call) \/ \E audio \in Audio[stream] : Encode(call, audio)
  \/ NoRoomToFrame
  \/ Starved
  \/ \E silence, active \in BOOLEAN :
       \/ DropFrame(silence, active)
       \/ \E payload \in ToCode : CodeFrame(silence, active, payload)
  \/ Emit
  \/ ResetState

Spec == Init /\ [][Next]_vars

(***************************************************************************)
(* What the encoder answers for.                                           *)
(***************************************************************************)
(* Whatever settings a caller mixes, packet after packet, the mode and     *)
(* bandwidth decided on are ones the frames can be coded in (encode_frame  *)
(* errors 1592-1611 stay unreachable), and a decoder reads off the TOC the *)
(* mode, the frame duration, the bands of the CELT payload and the rate of *)
(* the SILK payload the encoder went by.                                   *)
ReadAsCoded ==
  job # Idle =>
    /\ Codable(job.mode, job.frame)
    /\ ModeFromToc(Toc(job)) = job.mode
    /\ DurationFromToc(Toc(job)) = job.frame
    /\ job.mode # "silk" => EndBandFromToc(Toc(job)) = EndBand(enc.bandwidth)
    /\ job.mode # "celt" =>
         SilkKhzFromToc(Toc(job)) = SilkKhz(stream, job.mode, enc.bandwidth)

(* Every frame of a packet has the three bytes it cannot do without, so    *)
(* none fails after others were coded; the packet fits the buffer; at a    *)
(* constant rate it has the length that comes to, unless nothing was       *)
(* coded; and no frame is cut short (a variable-rate frame in a buffer of  *)
(* two bytes is: the coder is never given fewer than three).               *)
KeepsItsBudget ==
  /\ Ready /\ job.count > 1 => FrameRoom(job) >= 3
  /\ packet.kind = "packet" =>
       /\ packet.length <= packet.buffer
       /\ packet.promised > 0 => packet.length = packet.promised
       /\ packet.cut => packet.buffer = 2 /\ ~packet.cbr

(* DTX starts after 200 ms without activity, and goes on for 400 ms and a  *)
(* frame at most before something is coded, across packets of any duration *)
(* and however many frames each is split into.                             *)
PausesEnd ==
  /\ paused > 0 => silent > DtxFrom
  /\ paused <= DtxUpTo - DtxFrom + 120

(* The CELT coders on both sides restart at the same frames (encoder.rs:   *)
(* 1625-1658), dropped frames and refused packets or not, as long as every *)
(* packet had room for its frames.                                         *)
AstrayOnlyWhenStarved == astray # Astray
=============================================================================
