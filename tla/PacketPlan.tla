----------------------------- MODULE PacketPlan -----------------------------
(***************************************************************************)
(* What the encoder decides about a packet before it codes a sample of it  *)
(* (encoder.rs: encode_native), and how the table-of-contents byte tells   *)
(* the decoder (toc.rs).  Rates are bits per second, durations half        *)
(* milliseconds, so that 2.5 ms is 5; the tables are the code's.           *)
(***************************************************************************)
EXTENDS Integers, Sequences, FiniteSetsExt

NB == 1
MB == 2
WB == 3
SWB == 4
FB == 5
Unset == 0    \* nothing detected, nothing forced
Durations == {5, 10, 20, 40, 80, 120, 160, 200, 240}

Least(a, b) == IF a < b THEN a ELSE b
Most(a, b)  == IF a > b THEN a ELSE b
Quotient(a, b) == IF a >= 0 THEN a \div b ELSE -((-a) \div b)

(* Packets, or frames, a second.                                           *)
RateOf(duration) == 2000 \div duration

(***************************************************************************)
(* A stream is [rate, channels, app]; the settings a caller may change     *)
(* between packets are [bitrate, cbr, complexity, loss, fec, dtx, force,   *)
(* max, signal].  The bit rate every threshold below is met with: short    *)
(* packets, constant rate, low complexity and loss each cost some of it.   *)
(***************************************************************************)
EquivRate(stream, s, packetRate) ==
  LET framed == IF packetRate > 50
                THEN s.bitrate - (40 * stream.channels + 20) * (packetRate - 50)
                ELSE s.bitrate
      steady == IF s.cbr THEN framed - Quotient(framed, 12) ELSE framed
      worked == Quotient(steady * (90 + s.complexity), 100)
  IN IF s.loss = 0 THEN worked
     ELSE worked - Quotient(worked * s.loss, 12 * s.loss + 20)

(* How much the packet is taken for speech, of 127: the caller's word, the *)
(* analysis' (0..100, or -1 when there is none), or the application's.     *)
VoiceEst(stream, s, voiceRatio) ==
  CASE s.signal = "voice" -> 127
    [] s.signal = "music" -> 0
    [] s.signal = "auto" /\ voiceRatio >= 0 ->
         Least((voiceRatio * 327) \div 256, IF stream.app = "audio" THEN 115 ELSE 127)
    [] OTHER -> CASE stream.app = "voip" -> 115
                  [] stream.app = "audio" -> 48
                  [] stream.app = "lowdelay" -> 0

(* CELT from this rate on; what the last packet was coded in weighs in.    *)
ModeThreshold(stream, prev, voice) ==
  10000 + ((voice * voice * (IF stream.channels = 1 THEN 54000 ELSE 34000)) \div 16384)
    + (IF stream.app = "voip" THEN 8000 ELSE 0)
    + (CASE prev = "none" -> 0 [] prev = "celt" -> -4000 [] OTHER -> 4000)

FirstMode(stream, prev, voice, equiv) ==
  IF stream.app = "lowdelay" \/ equiv >= ModeThreshold(stream, prev, voice)
  THEN "celt" ELSE "silk"

(* The widest bandwidth the rate affords, with the hysteresis around the   *)
(* last packet's.                                                          *)
MusicThreshold == <<9000, 9000, 11000, 12000>>
VoiceExtra     == <<0, 0, 2500, 2000>>
Hysteresis     == <<700, 700, 1000, 2000>>

AffordedBandwidth(first, auto, voice, equiv) ==
  LET threshold(bw) == MusicThreshold[bw - 1]
                         + ((voice * voice * VoiceExtra[bw - 1]) \div 16384)
      leaning(bw) == CASE first -> 0
                       [] ~first /\ auto >= bw -> -Hysteresis[bw - 1]
                       [] OTHER -> Hysteresis[bw - 1]
      widest == Max({NB} \cup {bw \in MB .. FB : equiv >= threshold(bw) + leaning(bw)})
  IN IF widest = MB THEN WB ELSE widest

(* clamp_bandwidth_to_rate: nothing the input cannot contain.              *)
Carried(rate) ==
  CASE rate <= 8000 -> NB
    [] rate > 8000 /\ rate <= 12000 -> MB
    [] rate > 12000 /\ rate <= 16000 -> WB
    [] rate > 16000 /\ rate <= 24000 -> SWB
    [] OTHER -> FB

(* Then the caps, in their order.                                          *)
LeastDetected(stream, equiv) ==
  IF equiv <= 30000 * stream.channels THEN WB
  ELSE IF equiv <= 44000 * stream.channels THEN SWB ELSE FB

CappedBandwidth(stream, s, mode, auto, detected, equiv) ==
  LET speech  == mode # "celt"
      floor   == IF speech /\ stream.rate > 16000 THEN WB ELSE NB
      fed     == IF speech /\ s.cbr /\ s.bitrate < 15000 THEN Least(auto, WB) ELSE auto
      input   == Least(Most(fed, floor), Carried(stream.rate))
      widened == IF input = MB /\ stream.rate > 12000 THEN WB ELSE input
      heard   == IF detected # Unset /\ s.force = Unset /\ speech
                 THEN Least(widened, Most(detected, LeastDetected(stream, equiv)))
                 ELSE widened
      allowed == Least(heard, Most(s.max, floor))
  IN IF ~speech /\ allowed = MB THEN NB ELSE allowed

ChosenBandwidth(stream, s, mode, auto, detected, equiv) ==
  Least(IF s.force # Unset THEN s.force
        ELSE CappedBandwidth(stream, s, mode, auto, detected, equiv),
        Carried(stream.rate))

(* decide_fec: whether a copy of the packet before goes along, and the     *)
(* bandwidth given up for it when losses are high.                         *)
FecThreshold == <<12000, 14000, 16000, 20000, 22000>>

DecideFec(s, last, mode, bw, equiv) ==
  LET threshold(b) == FecThreshold[b] + (IF last THEN -1000 ELSE 1000)
      affords(b) == equiv > (threshold(b) * (125 - Least(s.loss, 25)) * 655) \div 65536
      tried == IF s.loss <= 5 THEN {bw} ELSE NB .. bw
      good  == {b \in tried : affords(b)}
  IN IF ~s.fec \/ s.loss = 0 \/ mode = "celt" \/ good = {}
     THEN [fec |-> FALSE, bandwidth |-> bw]
     ELSE [fec |-> TRUE, bandwidth |-> Max(good)]

(***************************************************************************)
(* The mode that goes with the bandwidth: hybrid above wideband; CELT for  *)
(* stereo hybrid at a rate where it sounds better, and for the durations   *)
(* SILK has no frame for.                                                  *)
(***************************************************************************)
LayerFor(mode, bw) ==
  IF mode = "celt" THEN "celt" ELSE IF bw >= SWB THEN "hybrid" ELSE "silk"

FallsBack(stream, s, mode) ==
  stream.channels = 2 /\ mode = "hybrid" /\ s.bitrate > 28000

CoercedMode(mode, packetRate) == IF packetRate \in {400, 200} THEN "celt" ELSE mode

(* Mutant: the layer is chosen before FEC narrows the bandwidth.           *)
PlanLayerBeforeFec(stream, s, enc, duration, detected, voiceRatio) ==
  LET equiv == EquivRate(stream, s, RateOf(duration))
      voice == VoiceEst(stream, s, voiceRatio)
      first == FirstMode(stream, enc.prev, voice, equiv)
      auto  == AffordedBandwidth(enc.first, enc.auto, voice, equiv)
      bw    == ChosenBandwidth(stream, s, first, auto, detected, equiv)
      fec   == DecideFec(s, enc.lbrr, first, bw, equiv)
      layer == LayerFor(first, bw)
      mode  == CoercedMode(IF FallsBack(stream, s, layer) THEN "celt" ELSE layer,
                           RateOf(duration))
      wide  == IF FallsBack(stream, s, layer) THEN FB ELSE fec.bandwidth
  IN [mode |-> mode, auto |-> auto, lbrr |-> fec.fec,
      bandwidth |-> IF mode = "celt" /\ wide = MB THEN WB ELSE wide]

(* All of it: the packet's mode and bandwidth, and what the encoder        *)
(* remembers for the next.                                                 *)
Plan(stream, s, enc, duration, detected, voiceRatio) ==
  LET equiv == EquivRate(stream, s, RateOf(duration))
      voice == VoiceEst(stream, s, voiceRatio)
      first == FirstMode(stream, enc.prev, voice, equiv)
      auto  == AffordedBandwidth(enc.first, enc.auto, voice, equiv)
      bw    == ChosenBandwidth(stream, s, first, auto, detected, equiv)
      fec   == DecideFec(s, enc.lbrr, first, bw, equiv)
      layer == LayerFor(first, fec.bandwidth)
      mode  == CoercedMode(IF FallsBack(stream, s, layer) THEN "celt" ELSE layer,
                           RateOf(duration))
      wide  == IF FallsBack(stream, s, layer) THEN FB ELSE fec.bandwidth
  IN [mode |-> mode, auto |-> auto, lbrr |-> fec.fec,
      bandwidth |-> IF mode = "celt" /\ wide = MB THEN WB ELSE wide]

(***************************************************************************)
(* PacketDuration::layout: how long each of the packet's frames is.        *)
(***************************************************************************)
FrameDuration(duration, mode) ==
  CASE duration <= 40 -> duration
    [] mode = "silk" /\ duration \in {80, 160} -> 80
    [] mode = "silk" /\ duration \in {120, 240} -> 120
    [] OTHER -> 40

(* What encode_frame refuses to code.                                      *)
Codable(mode, duration) ==
  CASE mode = "celt" -> RateOf(duration) \in {400, 200, 100, 50} /\ duration \in {5, 10, 20, 40}
    [] mode = "hybrid" -> RateOf(duration) \in {100, 50} /\ duration \in {5, 10, 20, 40}
    [] mode = "silk" -> RateOf(duration) \in {100, 50, 25, 16}

(***************************************************************************)
(* The table of contents: gen_toc writes a configuration of 0..31, and the *)
(* decoder reads the mode, the duration and the bandwidth off it.          *)
(***************************************************************************)
Doublings == <<1, 2, 4, 8, 16, 32>>
Period(rate) == Min({k \in 0 .. 5 : rate * Doublings[k + 1] >= 400})

GenToc(mode, rate, bw) ==
  CASE mode = "silk"   -> 4 * (bw - NB) + Period(rate) - 2
    [] mode = "celt"   -> 16 + 4 * Most(bw - MB, 0) + Period(rate)
    [] mode = "hybrid" -> (IF bw = SWB THEN 12 ELSE 14) + (IF rate >= 100 THEN 0 ELSE 1)

ModeFromToc(toc) ==
  IF toc >= 16 THEN "celt" ELSE IF toc >= 12 THEN "hybrid" ELSE "silk"

DurationFromToc(toc) ==
  CASE ModeFromToc(toc) = "silk"   -> <<20, 40, 80, 120>>[(toc % 4) + 1]
    [] ModeFromToc(toc) = "hybrid" -> <<20, 40>>[(toc % 2) + 1]
    [] ModeFromToc(toc) = "celt"   -> <<5, 10, 20, 40>>[(toc % 4) + 1]

BandwidthFromToc(toc) ==
  CASE ModeFromToc(toc) = "silk"   -> Least(NB + (toc \div 4), WB)
    [] ModeFromToc(toc) = "hybrid" -> IF toc < 14 THEN SWB ELSE FB
    [] ModeFromToc(toc) = "celt"   -> MB + ((toc - 16) \div 4)

(* The bands CELT codes up to: what the encoder goes by, and what the      *)
(* decoder reads off the TOC for a payload.                                *)
EndBand(bw) ==
  CASE bw = NB -> 13 [] bw \in {MB, WB} -> 17 [] bw = SWB -> 19 [] OTHER -> 21

EndBandFromToc(toc) ==
  CASE ModeFromToc(toc) = "celt" -> 21 - 2 * <<4, 2, 1, 0>>[((toc - 16) \div 4) + 1]
    [] ModeFromToc(toc) = "hybrid" /\ BandwidthFromToc(toc) = SWB -> 19
    [] OTHER -> 21

(* The rate SILK runs at, in kHz: on the encoder's side and the decoder's. *)
SilkKhz(stream, mode, bw) ==
  IF mode = "hybrid" THEN 16
  ELSE Least(IF bw = NB THEN 8 ELSE IF bw = MB THEN 12 ELSE 16, stream.rate \div 1000)

SilkKhzFromToc(toc) ==
  IF ModeFromToc(toc) = "hybrid" THEN 16
  ELSE CASE BandwidthFromToc(toc) = NB -> 8
         [] BandwidthFromToc(toc) = MB -> 12
         [] OTHER -> 16
=============================================================================
