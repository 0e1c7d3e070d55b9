---------------------------- MODULE SilkSynthesis ----------------------------
(***************************************************************************)
(* What the SILK decoder makes sound from, from frame to frame: the pitch  *)
(* lags, filters and background it keeps, how a lost frame is extrapolated *)
(* from them, and how the frame after it is joined on (decode_frame.rs,    *)
(* decode_core.rs, decode_parameters.rs, plc.rs, cng.rs, and the part of   *)
(* dec_api.rs that decides which channel is decoded).                      *)
(*                                                                         *)
(* Lags and lengths are the decoder's numbers, in samples; a filter, a     *)
(* spectrum or a background is abstracted to the rate it was coded at (0:  *)
(* none), and a channel also remembers, as history, what became of it.     *)
(***************************************************************************)
EXTENDS Integers, Sequences

CONSTANTS
  Shapes,        \* what a packet holds: [khz, subframes, frames]
  Spoken(_, _),  \* per channel and shape: frames that may be coded
  MaxFrames      \* bound: frames decoded or concealed

(* SILK's internal rates and frame lengths, and frames as they are parsed. *)
Rates == {8, 12, 16}
Types == {"inactive", "unvoiced", "voiced"}

IsFrame(f, subframes) ==
  /\ f.type \in Types /\ f.lag \in Int /\ f.best \in Nat
  /\ f.blend \in BOOLEAN /\ (f.blend => subframes = 4)
  /\ \A k \in 1 .. subframes : f.contour[k] \in Int

ASSUME SilkAssumption ==
  \A shape \in Shapes :
    /\ shape.khz \in Rates /\ shape.subframes \in {2, 4} /\ shape.frames \in Nat \ {0}
    /\ \A channel \in 1 .. 2 : \A f \in Spoken(channel, shape) : IsFrame(f, shape.subframes)

VARIABLES
  ch,        \* per channel (1: mid, 2: side), SilkDecoderState
  stereo,    \* the rest of SilkDecoder
  packet,    \* the packet being decoded
  did,       \* history: what the last frame was made from, per channel
  frames     \* history: frames so far

silkVars == <<ch, stereo, packet, did, frames>>

Max2(a, b) == IF a > b THEN a ELSE b
Min2(a, b) == IF a < b THEN a ELSE b

(***************************************************************************)
(* Lengths, in samples.                                                    *)
(***************************************************************************)
SubframeLength(khz) == 5 * khz
LtpMemory(khz)      == 20 * khz
LpcOrder(khz)       == IF khz \in {8, 12} THEN 10 ELSE 16
ShortestLag(khz)    == 2 * khz
LongestLag(khz)     == 18 * khz
HalfTaps            == 2      \* LTP_ORDER / 2

(* Where the long-term memory begins to be filtered, for a lag.            *)
Rewhitened(khz, lag) == LtpMemory(khz) - lag - LpcOrder(khz) - HalfTaps

(***************************************************************************)
(* A channel.                                                              *)
(***************************************************************************)
NoPlc == [khz |-> 0, pitch |-> 0, lpc |-> 0, lost |-> FALSE]
NoCng == [khz |-> 0, learnt |-> 0]

(* history: what the channel's last frame was, and whether frames have     *)
(* gone by without it since.                                               *)
NoPast == [was |-> "none", lag |-> 0, gap |-> FALSE]

(* silk_init_decoder, silk_reset_decoder: all but the rate.                *)
Initialised(c) ==
  [c EXCEPT !.lagPrev = 100, !.first = TRUE, !.nlsf = 0, !.losses = 0,
            !.prev = "inactive", !.plc = NoPlc, !.cng = NoCng, !.past = NoPast]

NewChannel ==
  Initialised([khz |-> 0, subframes |-> 4, lagPrev |-> 100, first |-> TRUE, nlsf |-> 0,
               losses |-> 0, prev |-> "inactive", plc |-> NoPlc, cng |-> NoCng,
               past |-> NoPast])

(* silk_decoder_set_fs: another rate clears what the samples are predicted *)
(* from; another number of subframes does not.  (Mutant: nothing is.)      *)
SetFsKeepingLags(c, khz) == [c EXCEPT !.khz = khz]
SetFs(c, khz) ==
  IF c.khz = khz THEN c
  ELSE [c EXCEPT !.khz = khz, !.lagPrev = 100, !.prev = "inactive", !.first = TRUE]

(* The side's return (dec_api.rs 221).                                     *)
SideReset(c) == [c EXCEPT !.lagPrev = 100, !.prev = "inactive", !.first = TRUE]

(***************************************************************************)
(* A coded frame.  f: [type, lag, contour, best, blend]: a voiced frame's  *)
(* first lag, how it moves, and the subframe (from the last) whose gain is *)
(* highest; whether its filter is to be blended with the one before.       *)
(***************************************************************************)
Clamped(khz, lag) == Max2(ShortestLag(khz), Min2(LongestLag(khz), lag))

(* silk_decode_pitch, and none for what is not voiced.                     *)
Lags(c, f) ==
  [k \in 1 .. c.subframes |->
     IF f.type = "voiced" THEN Clamped(c.khz, f.lag + f.contour[k]) ELSE 0]

Blends(c, f) == f.blend /\ ~c.first

(* silk_decode_core: an unvoiced frame after voiced concealment fades it   *)
(* out: its first half is voiced at the concealment's lag.                 *)
Fades(c, f) == c.losses > 0 /\ c.prev = "voiced" /\ f.type # "voiced"

Heard(c, f) ==
  [k \in 1 .. c.subframes |-> IF Fades(c, f) /\ k <= 2 THEN c.lagPrev ELSE Lags(c, f)[k]]

(* The subframes whose prediction starts over from filtered samples.       *)
Starting(c, f) ==
  {k \in 1 .. c.subframes : Heard(c, f)[k] # 0 /\ (k = 1 \/ (k = 3 /\ Blends(c, f)))}

(* silk_plc_update: of the subframes the last pitch pulse may lie in.      *)
Pulsing(c, lags) ==
  {j \in 0 .. c.subframes - 1 : j * SubframeLength(c.khz) < lags[c.subframes]}

PitchToKeep(c, f) ==
  IF f.type = "voiced"
  THEN LET tried == {j \in Pulsing(c, Lags(c, f)) : j <= f.best}
           best  == CHOOSE j \in tried : \A i \in tried : i <= j
       IN Lags(c, f)[c.subframes - best] * 256
  ELSE LongestLag(c.khz) * 256

(***************************************************************************)
(* Concealment.                                                            *)
(***************************************************************************)
(* silk_plc, silk_plc_reset.                                               *)
PlcReady(c) ==
  IF c.plc.khz = c.khz THEN c
  ELSE [c EXCEPT !.plc.khz = c.khz,
                 !.plc.pitch = SubframeLength(c.khz) * c.subframes * 128]

PlcUpdated(c, f) ==
  [PlcReady(c) EXCEPT !.plc.pitch = PitchToKeep(c, f), !.plc.lpc = c.khz]

Rounded(pitch) == (pitch + 128) \div 256

(* A hundredth a subframe, up to 18 ms.                                    *)
Drift(khz, pitch) == Min2(pitch + (pitch * 655) \div 65536, LongestLag(khz) * 256)

Drifted(c, pitch) ==
  LET twice(p) == Drift(c.khz, Drift(c.khz, p))
  IN IF c.subframes = 2 THEN twice(pitch) ELSE twice(twice(pitch))

(* silk_plc_conceal: no filter is extrapolated over a reset.               *)
FilterToExtend(c) == IF c.first THEN 0 ELSE c.plc.lpc

Concealed(c) ==
  LET ready == PlcReady(c)
      pitch == Drifted(ready, ready.plc.pitch)
  IN [ready EXCEPT !.plc.lpc = FilterToExtend(c), !.plc.pitch = pitch,
                   !.losses = 1, !.lagPrev = Rounded(pitch)]

(***************************************************************************)
(* Comfort noise (silk_cng): learnt from received inactive frames, and     *)
(* laid over lost ones.                                                    *)
(***************************************************************************)
CngReady(c) == IF c.cng.khz = c.khz THEN c ELSE [c EXCEPT !.cng = [khz |-> c.khz, learnt |-> 0]]

CngLearnt(c) ==
  IF c.losses = 0 /\ c.prev = "inactive" THEN [c EXCEPT !.cng.learnt = c.nlsf] ELSE c

Cng(c) == CngLearnt(CngReady(c))

(* silk_plc_glue_frames: a lost frame leaves its energy, and the next good *)
(* one is brought down to it.                                              *)
Glued(c) == [c EXCEPT !.plc.lost = c.losses # 0]

(***************************************************************************)
(* silk_decode_frame, with what the frame was made from.                   *)
(***************************************************************************)
NothingDone ==
  [from |-> NoPast, as |-> "absent", starts |-> {}, fades |-> 0, glues |-> FALSE,
   rates |-> {}, khz |-> 0]

NothingSaid == [mid |-> NothingDone, side |-> NothingDone, ends |-> {}]

(* Good: the frame is decoded.  (Mutant: it is joined on before the loss   *)
(* is over.)                                                               *)
GoodGluedEarly(c, f) ==
  LET made == PlcUpdated(c, f)
      done == Cng([Glued(made) EXCEPT !.losses = 0, !.prev = f.type, !.first = FALSE,
                                      !.nlsf = c.khz])
  IN [done EXCEPT !.lagPrev = Heard(c, f)[c.subframes]]
Good(c, f) ==
  LET made == PlcUpdated(c, f)
      done == Cng([made EXCEPT !.losses = 0, !.prev = f.type, !.first = FALSE,
                               !.nlsf = c.khz])
  IN [Glued(done) EXCEPT !.lagPrev = Heard(c, f)[c.subframes]]

GoodPart(c, f) ==
  [from |-> c.past, as |-> "coded", khz |-> c.khz,
   starts |-> {Rewhitened(c.khz, Heard(c, f)[k]) : k \in Starting(c, f)},
   fades  |-> IF Fades(c, f) THEN c.lagPrev ELSE 0,
   glues  |-> c.plc.lost /\ ~Good(c, f).plc.lost,
   rates  |-> IF Blends(c, f) THEN {c.nlsf} ELSE {}]

(* Lost: it is extrapolated.                                               *)
Lost(c) == Glued(Cng(Concealed(c)))

LostPart(c) ==
  [from |-> c.past, as |-> "concealed", khz |-> c.khz,
   starts |-> {Rewhitened(c.khz, Rounded(PlcReady(c).plc.pitch))}, fades |-> 0,
   glues |-> FALSE, rates |-> {FilterToExtend(c), CngReady(c).cng.learnt} \ {0}]

(* silk_decode_frame: f is a frame, or "lost".                             *)
NotCoded == [type |-> "lost"]

DecodeFrame(c, f) ==
  IF f = NotCoded
  THEN [Lost(c) EXCEPT !.past = [was |-> IF c.prev = "voiced" THEN "voicedLoss" ELSE "loss",
                                 lag |-> Lost(c).lagPrev, gap |-> FALSE]]
  ELSE [Good(c, f) EXCEPT !.past = [was |-> "coded", lag |-> 0, gap |-> FALSE]]

Part(c, f) == IF f = NotCoded THEN LostPart(c) ELSE GoodPart(c, f)

(***************************************************************************)
(* SilkDecoder::decode.  how: "normal", "lost" or "lbrr"; mid, side: what  *)
(* is coded of this frame (NotCoded: nothing is).                          *)
(***************************************************************************)
Stereo == stereo.channels = 2

(* The mid-only flag, where there is one: a copy without a side may say    *)
(* either.                                                                 *)
OnlyMiddles(how, mid, side) ==
  IF ~Stereo \/ side # NotCoded \/ how = "lost" \/ mid = NotCoded THEN {FALSE}
  ELSE IF how = "normal" THEN {TRUE} ELSE BOOLEAN

(* "On a concealed or FEC frame there is no mid-only flag to read".        *)
HasSide(how, only, side) ==
  /\ Stereo
  /\ IF how = "normal" THEN ~only
     ELSE ~stereo.onlyMiddle \/ (how = "lbrr" /\ side # NotCoded)

(* silk_stereo_ms_to_lr, or the mono frame's tail: whose end the mid and   *)
(* side histories are.  (Mutant: a mono frame's is not kept.)              *)
AfterMono(end) == IF end = "none" THEN end ELSE "older"
UnmixedKeepingMid(how) ==
  IF Stereo THEN [stereo EXCEPT !.mid = "last", !.side = "last"]
  ELSE [stereo EXCEPT !.mid = AfterMono(@), !.side = AfterMono(@)]
Unmixed(how) ==
  IF Stereo THEN [stereo EXCEPT !.mid = "last", !.side = "last"]
  ELSE [stereo EXCEPT !.mid = "last", !.side = AfterMono(@)]

(* A side that comes back after frames without starts over.                *)
SideFor(c, only) == IF Stereo /\ ~only /\ stereo.onlyMiddle THEN SideReset(c) ELSE c

Absent(c) == [c EXCEPT !.past.gap = TRUE]

DecodeCall(cs, how, mid, side, only) ==
  LET sided == HasSide(how, only, side)
      other == SideFor(cs[2], only)
  IN /\ ch' = [cs EXCEPT ![1] = DecodeFrame(cs[1], mid),
                         ![2] = IF sided THEN DecodeFrame(other, side) ELSE Absent(other)]
     /\ did' = [mid  |-> Part(cs[1], mid),
                side |-> IF sided THEN Part(other, side) ELSE NothingDone,
                ends |-> IF Stereo THEN {stereo.mid, stereo.side} ELSE {}]
     /\ frames' = frames + 1
     /\ stereo' = [Unmixed(how) EXCEPT !.onlyMiddle = IF how = "lost" THEN @ ELSE only]

(***************************************************************************)
(* Packets.  One is decoded a frame a step.                                *)
(***************************************************************************)
NoPacket == [how |-> "none", left |-> 0, shape |-> [khz |-> 0]]

(* setup_silk_channels: going stereo starts the side over.                 *)
Switched(count) ==
  [stereo EXCEPT !.channels = count, !.side = IF count > stereo.channels THEN "none" ELSE @]

SideOf(count) == IF count > stereo.channels THEN Initialised(ch[2]) ELSE ch[2]

Shaped(c, shape) == SetFs([c EXCEPT !.subframes = shape.subframes], shape.khz)

(* A packet arrives ("normal"), or one is to be recovered from its copy in *)
(* the next ("lbrr").                                                      *)
Start(shape, count, how) ==
  /\ packet = NoPacket
  /\ packet' = [how |-> how, left |-> shape.frames, shape |-> shape]
  /\ stereo' = Switched(count)
  /\ ch' = [ch EXCEPT ![1] = Shaped(@, shape),
                      ![2] = IF count = 2 THEN Shaped(SideOf(count), shape) ELSE @]
  /\ frames + shape.frames <= MaxFrames
  /\ did' = NothingSaid
  /\ UNCHANGED frames

(* A frame of it; of a copy, either channel's may be missing.              *)
Coded(channel) ==
  Spoken(channel, packet.shape)
    \cup (IF channel = 2 \/ packet.how = "lbrr" THEN {NotCoded} ELSE {})

Frame ==
  /\ packet # NoPacket
  /\ \E mid \in Coded(1), side \in IF Stereo THEN Coded(2) ELSE {NotCoded} :
       \E only \in OnlyMiddles(packet.how, mid, side) :
         DecodeCall(ch, packet.how, mid, side, only)
  /\ packet' = IF packet.left = 1 THEN NoPacket ELSE [packet EXCEPT !.left = @ - 1]

(* conceal_silk: 10 or 20 ms at the last rate, in as many channels.        *)
Conceal(subframes) ==
  /\ packet = NoPacket /\ ch[1].khz # 0 /\ frames < MaxFrames
  /\ DecodeCall([n \in 1 .. 2 |-> IF n <= stereo.channels THEN [ch[n] EXCEPT !.subframes = subframes]
                                  ELSE ch[n]],
                "lost", NotCoded, NotCoded, FALSE)
  /\ UNCHANGED packet

(* reset_silk_after_celt_only.                                             *)
NewStereo == [channels |-> 1, onlyMiddle |-> FALSE, mid |-> "none", side |-> "none"]

ResetAfterCelt ==
  /\ packet = NoPacket
  /\ ch' = [n \in 1 .. 2 |-> Initialised(ch[n])]
  /\ stereo' = [NewStereo EXCEPT !.channels = stereo.channels]
  /\ did' = NothingSaid
  /\ UNCHANGED <<packet, frames>>

(***************************************************************************)
(* The specification.                                                      *)
(***************************************************************************)
SilkInit ==
  /\ ch = [n \in 1 .. 2 |-> NewChannel]
  /\ stereo = NewStereo
  /\ packet = NoPacket
  /\ did = NothingSaid
  /\ frames = 0

SilkNext ==
  \/ \E shape \in Shapes, count \in 1 .. 2, how \in {"normal", "lbrr"} : Start(shape, count, how)
  \/ Frame
  \/ \E subframes \in {2, 4} : Conceal(subframes)
  \/ ResetAfterCelt

SilkSpec == SilkInit /\ [][SilkNext]_silkVars

(***************************************************************************)
(* Properties.                                                             *)
(***************************************************************************)
Parts == {did.mid, did.side}

(* Whatever rates, lengths, losses and returns of the side have come       *)
(* before, long-term prediction is started from inside the memory there    *)
(* is (the debug_asserts at plc.rs:231 and decode_core.rs:177): no lag is  *)
(* carried to a rate at which it does not fit.  And a filter that is       *)
(* extrapolated over a loss, a spectrum that is blended into the next, and *)
(* the background that noise is made from were coded at the rate they are  *)
(* used at.                                                                *)
KeepsToTheRate ==
  \A part \in Parts :
    /\ \A start \in part.starts : start > 0
    /\ part.rates \subseteq {0, part.khz}

(* A frame is joined to what was heard just before it.  It is faded out of *)
(* the pitch of a concealed voiced frame only if that is the channel's     *)
(* last frame and at that frame's lag (decode_core.rs:125-133); and it is  *)
(* brought down to the energy of a concealed frame if and only if one is   *)
(* the channel's last, for the middle channel the very frame before.       *)
JoinedToTheLoss ==
  /\ \A part \in Parts : part.fades # 0 =>
       part.from = [was |-> "voicedLoss", lag |-> part.fades, gap |-> FALSE]
  /\ \A part \in Parts : part.as = "coded" =>
       (part.glues <=> part.from.was \in {"loss", "voicedLoss"})
  /\ ~did.mid.from.gap

(* A stereo frame is unmixed onto the ends of the frames just before it,   *)
(* the mono ones' too (dec_api.rs:345-351), or onto silence.               *)
UnmixedOntoTheLast == "older" \notin did.ends
=============================================================================
