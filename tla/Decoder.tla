------------------------------- MODULE Decoder -------------------------------
(***************************************************************************)
(* OpusDecoder: one decoder whose SILK and CELT layers take turns, or code *)
(* a frame together, as each packet's mode says.                           *)
(*                                                                         *)
(* What is decoded is abstracted to where it comes from: for each layer,   *)
(* what the history it predicts from and overlaps with is the end of.  The *)
(* decoder's control - which layer is reset, primed, concealed, or cross-  *)
(* faded, and what it remembers from packet to packet - is modelled whole. *)
(* A method of the decoder is an operator from a decoder to a decoder; a   *)
(* packet is decoded one frame a step.                                     *)
(*                                                                         *)
(* Durations are in units of 2.5 ms.                                       *)
(***************************************************************************)
EXTENDS Integers, Sequences, FiniteSets

CONSTANTS
  Packets,     \* the packets that may be sent
  Rooms,       \* room a caller may give a concealed or recovered frame
  FullRates    \* whether the output rate is 48 kHz: a set of Booleans

ASSUME RoomAssumption == Rooms \subseteq Nat /\ FullRates \subseteq BOOLEAN

Modes == {"silk", "hybrid", "celt"}
SilkModes == {"silk", "hybrid"}

(* A frame is given by its 5 ms redundant CELT frame: none, one that ends  *)
(* a stretch of CELT ("toSilk"), or one that leads into it ("toCelt").     *)
Redundancy == {"none", "toSilk", "toCelt"}

PacketType ==
  [mode: Modes, channels: {1, 2}, rate: {8, 12, 16}, band: Nat, span: Nat \ {0},
   frames: Seq(Redundancy) \ {<<>>}]

ASSUME PacketAssumption == Packets \subseteq PacketType

VARIABLES
  fullRate,   \* the output rate is 48 kHz
  channels,   \* the output channels
  dec,        \* the decoder
  call,       \* the packet being decoded
  sent,       \* the sender: the mode of its last packet, and what it promised
  lossy,      \* history: something was concealed or recovered
  lastMode,   \* history: the mode of the last packet decoded, not concealed
  seam,       \* history: what joined the last frame to the one before
  joins,      \* history: what the last step's CELT decode of audio joined
  across      \* history: SILK predicted from before a gap

setup == <<fullRate, channels>>
decoderVars == <<setup, dec, call, sent, lossy, lastMode, seam, joins, across>>

(***************************************************************************)
(* A new decoder (new and, in place, reset_state).  Of the histories,      *)
(* "fresh" is a layer's reset state; for SILK, "stale" is one that frames  *)
(* it had no part in came after.                                           *)
(***************************************************************************)
NewDecoder ==
  [prevMode |-> "none", prevRedundancy |-> FALSE, lastDuration |-> 0,
   celtEndBand |-> 21, silkRate |-> 16, resamplerRate |-> 0,
   silkChannels |-> channels, mid |-> "fresh", side |-> "fresh", celt |-> "fresh"]

Aged(history) == IF history = "current" THEN "stale" ELSE history

(***************************************************************************)
(* The layers.                                                             *)
(***************************************************************************)
(* setup_silk_channels: going stereo resets the side channel.              *)
SetupSilkChannels(d, count) ==
  [d EXCEPT !.side = IF count > d.silkChannels THEN "fresh" ELSE @,
            !.silkChannels = count]

(* The resampler is started again at another internal rate.                *)
SetupSilkRate(d, rate) == [d EXCEPT !.resamplerRate = rate, !.silkRate = rate]

KeepSilkHistory(d) == d    \* mutant of the next
ResetSilkAfterCeltOnly(d) ==
  IF d.prevMode = "celt" THEN [d EXCEPT !.mid = "fresh", !.side = "fresh"] ELSE d

(* SILK decodes or conceals: the mid channel, and the side if it is stereo.*)
SilkRuns(d) ==
  [d EXCEPT !.mid = "current",
            !.side = IF d.silkChannels = 2 THEN "current" ELSE Aged(@)]

SilkContinuesStale(d) == d.mid = "stale" \/ (d.silkChannels = 2 /\ d.side = "stale")

CeltDecodes(d, what) == [d EXCEPT !.celt = what]
CeltResets(d) == CeltDecodes(d, "fresh")

(* Extrapolating a redundant frame makes it history of the mode concealed. *)
CeltConceals(d, mode) == [d EXCEPT !.celt = IF @ = "toCelt" THEN mode ELSE @]

(***************************************************************************)
(* decode_plc.  Longer than 20 ms, it runs piece by piece; SILK conceals   *)
(* 10 ms (and less, by dropping the end) or 20 ms, and fails on the rest.  *)
(***************************************************************************)
LongestPlc == 8    \* 20 ms

ConcealMode(d) == IF d.prevRedundancy THEN "celt" ELSE d.prevMode

PlcFails(d, length) == ConcealMode(d) \in SilkModes /\ length % LongestPlc \in 5 .. 7

Concealed(d) ==
  LET mode  == ConcealMode(d)
      silky == IF mode \in SilkModes
               THEN SilkRuns([d EXCEPT !.resamplerRate = d.silkRate]) ELSE d
      both  == IF mode = "silk" THEN silky ELSE CeltConceals(silky, mode)
  IN IF d.prevMode = "none" THEN d ELSE [both EXCEPT !.prevMode = mode]

Plc(d, length) ==
  IF PlcFails(d, length) /\ length < LongestPlc THEN d ELSE Concealed(d)

(* fill_transition: 5 ms of the outgoing mode, with the end band it was    *)
(* decoded with; the bookkeeping is put back.                              *)
FillTransition(d, band) ==
  [Plc([d EXCEPT !.celtEndBand = band], 2) EXCEPT
     !.prevMode = d.prevMode, !.prevRedundancy = d.prevRedundancy,
     !.celtEndBand = d.celtEndBand]

(***************************************************************************)
(* decode_impl: up to the first frame.                                     *)
(***************************************************************************)
NoSeam == [mode |-> "none", after |-> "none", by |-> {}]

Idle == [pkt |-> <<>>, at |-> 0, transition |-> FALSE, prevBand |-> 0, before |-> "none"]
Free == call = Idle

(* Whether the outgoing mode is to be cross-faded over this packet's head. *)
(* (Mutant: even if the encoder has led into CELT.)                        *)
TransitionThoughPrimed(d, mode) ==
  \/ mode = "celt" /\ d.prevMode \in SilkModes
  \/ mode # "celt" /\ d.prevMode = "celt"

Transition(d, mode) ==
  \/ mode = "celt" /\ d.prevMode \in SilkModes /\ ~d.prevRedundancy
  \/ mode # "celt" /\ d.prevMode = "celt"

(* What every frame of the packet finds set.  A mode change discards what  *)
(* CELT knows before a CELT-only packet, unless it was primed; a hybrid    *)
(* one does so only in its first frame, after SILK.                        *)
Prologue(d, pkt) ==
  LET noted == [d EXCEPT !.lastDuration = Len(pkt.frames) * pkt.span,
                         !.celtEndBand = pkt.band]
      silky == SetupSilkChannels(
                 ResetSilkAfterCeltOnly(SetupSilkRate(noted, pkt.rate)), pkt.channels)
      faded == IF Transition(d, "celt") THEN FillTransition(noted, d.celtEndBand) ELSE noted
      clean == IF d.prevMode \in SilkModes /\ ~d.prevRedundancy THEN CeltResets(faded) ELSE faded
  IN IF pkt.mode = "celt" THEN [clean EXCEPT !.prevRedundancy = FALSE] ELSE silky

(* The streams a sender makes.  It announces a switch to CELT in the last  *)
(* frame before it, never in the first frame after one; it fades CELT out  *)
(* in the first frame after CELT, or after a change of SILK's rate.        *)
Placed(frames) ==
  \A i \in DOMAIN frames :
    (frames[i] = "toSilk" => i = 1) /\ (frames[i] = "toCelt" => i = Len(frames))

Legal(pkt) ==
  /\ Placed(pkt.frames)
  /\ sent.promised => pkt.mode = "celt"
  /\ pkt.frames[1] = "toCelt" => sent.mode \in SilkModes
  /\ pkt.frames[1] = "toSilk" => sent.mode # "none" /\ {sent.mode, pkt.mode} # {"hybrid"}

Sent(pkt) == [mode |-> pkt.mode, promised |-> pkt.frames[Len(pkt.frames)] = "toCelt"]

(* (A packet that does not parse, or that the caller has no room for, is   *)
(* refused before anything is touched.)                                    *)
DecodePacket(pkt) ==
  /\ Free /\ Legal(pkt)
  /\ dec' = Prologue(dec, pkt)
  /\ call' = [pkt |-> pkt, at |-> 1, transition |-> Transition(dec, pkt.mode),
              prevBand |-> dec.celtEndBand, before |-> dec.prevMode]
  /\ sent' = Sent(pkt)
  /\ lastMode' = pkt.mode
  /\ seam' = [mode  |-> pkt.mode,
              after |-> lastMode,
              by    |-> {b \in {"fade", "primed"} :
                           /\ pkt.mode = "celt" /\ dec.prevMode \in SilkModes
                           /\ b = "fade" => Transition(dec, "celt")
                           /\ b = "primed" => dec.prevRedundancy}]
  /\ joins' = {}
  /\ UNCHANGED <<setup, lossy, across>>

(***************************************************************************)
(* decode_impl: a frame.                                                   *)
(***************************************************************************)
Decoding(mode) == call.at > 0 /\ call.pkt.mode = mode
FirstFrame == call.at = 1
FrameInHand == call.pkt.frames[call.at]

(* The frame is done, and with the last one the packet.                    *)
FrameDone(d, mode) ==
  LET last == call.at = Len(call.pkt.frames)
  IN /\ dec' = IF last THEN [d EXCEPT !.prevMode = mode] ELSE d
     /\ call' = IF last THEN Idle ELSE [call EXCEPT !.at = @ + 1, !.before = mode]
     /\ UNCHANGED <<setup, sent, lossy, lastMode>>

If(cond, d, otherwise) == IF cond THEN d ELSE otherwise

(* Fades and redundant frames that join this frame to the one before.      *)
Bridges(fade, fadeOut) ==
  seam' = [seam EXCEPT !.by = @ \cup (IF fade THEN {"fade"} ELSE {})
                               \cup (IF FirstFrame /\ fadeOut THEN {"toSilk"} ELSE {})]

(* The SILK-only arm.  Below 48 kHz the redundant frame is not looked for. *)
(* After a hybrid frame CELT decodes a frame of silence, to let its        *)
(* overlap out.  The steps are in the order they touch CELT's history.     *)
SilkFrame ==
  /\ Decoding("silk")
  /\ LET red     == IF fullRate THEN FrameInHand ELSE "none"
         fade    == call.transition /\ FirstFrame /\ red = "none"
         silence == /\ fullRate /\ call.before = "hybrid"
                    /\ ~(red = "toSilk" /\ dec.prevRedundancy)
         spoken  == SilkRuns(dec)
         faded   == If(fade, FillTransition(spoken, call.prevBand), spoken)
         faded2  == If(red = "toSilk", CeltDecodes(faded, "toSilk"), faded)
         quiet   == If(silence, CeltDecodes(faded2, "silence"), faded2)
         primed  == If(red = "toCelt", CeltDecodes(CeltResets(quiet), "toCelt"), quiet)
     IN /\ FrameDone([primed EXCEPT !.prevRedundancy = (red = "toCelt")], "silk")
        /\ Bridges(fade, red = "toSilk")
  /\ joins' = {}
  /\ across' = (across \/ SilkContinuesStale(dec))

(* CELT decodes audio of a mode.                                           *)
Joins(d, mode) == joins' = {[onto |-> d.celt, mode |-> mode, before |-> call.before]}

(* The CELT-only arm.  What SILK knows is now of before it.                *)
CeltFrame ==
  /\ Decoding("celt")
  /\ Joins(dec, "celt")
  /\ FrameDone([CeltDecodes(dec, "celt") EXCEPT !.mid = Aged(@), !.side = Aged(@)], "celt")
  /\ UNCHANGED <<seam, across>>

(* The hybrid arm.  The redundant frame is found at any rate, and decoded  *)
(* at 48 kHz only.  (Mutant: CELT is not reset.)                           *)
ResetForHybridNever(d) == FALSE
ResetForHybrid(d) ==
  FirstFrame /\ call.before \notin {"none", "hybrid"} /\ ~d.prevRedundancy

HybridFrame ==
  /\ Decoding("hybrid")
  /\ LET fade   == call.transition /\ FirstFrame /\ FrameInHand = "none"
         fadeOut == fullRate /\ FrameInHand = "toSilk"
         spoken == SilkRuns(dec)
         faded  == If(fade, FillTransition(spoken, call.prevBand), spoken)
         faded2 == If(fadeOut, CeltDecodes(faded, "toSilk"), faded)
         clean  == If(ResetForHybrid(dec), CeltResets(faded2), faded2)
         coded  == CeltDecodes(clean, "hybrid")
         primed == If(fullRate /\ FrameInHand = "toCelt",
                      CeltDecodes(CeltResets(coded), "toCelt"), coded)
     IN /\ FrameDone([primed EXCEPT !.prevRedundancy = (FrameInHand = "toCelt")], "hybrid")
        /\ Bridges(fade, fadeOut)
        /\ Joins(clean, "hybrid")
  /\ across' = (across \/ SilkContinuesStale(dec))

(***************************************************************************)
(* A lost packet: concealed, or recovered from the next one.               *)
(***************************************************************************)
(* The sender sent a packet that did not arrive.                           *)
Misses == sent' \in {Sent(pkt) : pkt \in {p \in Packets : Legal(p)}}

ConcealsStale(d) == ConcealMode(d) \in SilkModes /\ SilkContinuesStale(d)

(* decode with no input.                                                   *)
Conceal(room) ==
  /\ Free /\ Misses
  /\ dec' = Plc(dec, room)
  /\ lossy' = TRUE /\ seam' = NoSeam /\ joins' = {}
  /\ across' = (across \/ ConcealsStale(dec))
  /\ UNCHANGED <<setup, call, lastMode>>

(* decode_fec_impl: what the packet's redundant copy does not reach is     *)
(* concealed first; a packet that then does not parse leaves it at that.   *)
FecFallsBack(pkt, room) ==
  pkt.mode = "celt" \/ dec.prevMode = "celt" \/ room < pkt.span

(* What of a packet it looks at.                                           *)
Heads == {[mode |-> p.mode, channels |-> p.channels, rate |-> p.rate, span |-> p.span] :
            p \in Packets}

Recovered(d, pkt) ==
  LET silky == SilkRuns(SetupSilkChannels(SetupSilkRate(d, pkt.rate), pkt.channels))
      both  == If(pkt.mode = "hybrid", CeltConceals(silky, "hybrid"), silky)
  IN [both EXCEPT !.prevMode = pkt.mode, !.prevRedundancy = FALSE]

DecodeFec(pkt, room, parses) ==
  /\ Free /\ Misses
  /\ LET lead  == room - pkt.span
         ahead == If(lead > 0, Plc(dec, lead), dec)
         fails == (lead > 0 /\ PlcFails(dec, lead)) \/ ~parses
         ready == SetupSilkChannels(SetupSilkRate(ahead, pkt.rate), pkt.channels)
     IN IF FecFallsBack(pkt, room)
        THEN /\ dec' = Plc(dec, room)
             /\ across' = (across \/ ConcealsStale(dec))
        ELSE /\ dec' = If(fails, ahead, Recovered(ahead, pkt))
             /\ across' = \/ across
                          \/ lead > 0 /\ ConcealsStale(dec)
                          \/ ~fails /\ SilkContinuesStale(ready)
  /\ lossy' = TRUE /\ seam' = NoSeam /\ joins' = {}
  /\ UNCHANGED <<setup, call, lastMode>>

(***************************************************************************)
(* The specification.                                                      *)
(***************************************************************************)
(* A used decoder is given another stream.                                 *)
ResetState ==
  /\ Free
  /\ dec' = NewDecoder
  /\ sent' = [mode |-> "none", promised |-> FALSE]
  /\ lossy' = FALSE /\ lastMode' = "none" /\ seam' = NoSeam /\ joins' = {}
  /\ across' = FALSE
  /\ UNCHANGED <<setup, call>>

DecoderInit ==
  /\ fullRate \in FullRates
  /\ channels \in {1, 2}
  /\ dec = NewDecoder
  /\ call = Idle
  /\ sent = [mode |-> "none", promised |-> FALSE]
  /\ lossy = FALSE /\ lastMode = "none" /\ seam = NoSeam /\ joins = {}
  /\ across = FALSE

DecoderNext ==
  \/ \E pkt \in Packets : DecodePacket(pkt)
  \/ SilkFrame \/ CeltFrame \/ HybridFrame
  \/ \E room \in Rooms : Conceal(room)
  \/ \E pkt \in Heads, room \in Rooms, parses \in BOOLEAN : DecodeFec(pkt, room, parses)
  \/ ResetState

DecoderSpec == DecoderInit /\ [][DecoderNext]_decoderVars

(***************************************************************************)
(* Properties.                                                             *)
(***************************************************************************)
(* Of a stream received whole and decoded at 48 kHz, every CELT decode of  *)
(* a packet's audio goes onto history of its own mode, onto a reset state, *)
(* or onto the redundant frame that was sent to lead in - whatever modes   *)
(* and redundant frames follow each other.                                 *)
ReceivedJoinsItsOwn ==
  (fullRate /\ ~lossy) =>
    \A join \in joins : join.onto \in {"fresh", "toCelt", join.mode}

(* "the SILK layer carries no state across a CELT-only stretch"            *)
(* (decoder.rs:517-520), nor its side channel across a mono one: no SILK   *)
(* frame, decoded, recovered or concealed, predicts from before a gap.     *)
SilkNeverAcrossAGap == ~across

(* A switch between CELT and the other modes is joined exactly once: by    *)
(* the redundant frame of this packet or of the one before, or by the      *)
(* cross-fade the redundant frame "replaces ... rather than stacking with  *)
(* it" (decoder.rs:1262-1264); and nothing is cross-faded without one.     *)
SeamJoinedOnce ==
  (fullRate /\ ~lossy /\ call.at # 1) =>
    IF seam.after # "none" /\ (seam.mode = "celt") # (seam.after = "celt")
    THEN Cardinality(seam.by) = 1
    ELSE "fade" \notin seam.by
=============================================================================
