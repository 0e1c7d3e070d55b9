------------------------------ MODULE SilkPacket ------------------------------
(***************************************************************************)
(* A stream of SILK packets between silk_encode (silk/enc_api.rs) and the  *)
(* SILK decoder (silk/dec_api.rs), over a channel that loses packets.  A   *)
(* packet holds the flags of its frames, a coarser copy of what the packet *)
(* before it said (LBRR), and one to three frames of a channel or of a mid *)
(* and a side.  A lost packet is concealed, or recovered from the copy in  *)
(* the packet after it, which is then decoded itself.                      *)
(*                                                                         *)
(* What is left out: the signal.  How a frame sounds is a choice (Says);   *)
(* the rate loop that may quantize it again is a choice of final levels.   *)
(***************************************************************************)
EXTENDS SilkIndices

CONSTANTS
  Uses,        \* streams: names
  Setups(_),   \* per use: [khz, ms, channels, samples] a packet may have
  Plans(_, _), \* per use and setup: what its frames say, one record each
  Fec(_),      \* per use: whether copies are asked for, packet by packet
  Bumps        \* lbrr_gain_increases while FEC stays on

ASSUME PacketAssumption == Uses # {} /\ Bumps \subseteq 3 .. 7

VARIABLES
  use,      \* the stream
  enc,      \* SilkEncoder
  dec,      \* SilkDecoder
  wire,     \* the packet sent last
  arrived,  \* whether that packet is still to be given to the decoder
  missing,  \* a packet was lost and the decoder was not called for it yet
  blurred,  \* the levels are off since an unlike copy was decoded
  heard     \* what the last call returned

vars == <<use, enc, dec, wire, arrived, missing, blurred, heard>>

NoFrame  == [none |-> TRUE]
NoPacket == [setup |-> [khz |-> 0, ms |-> 0], frames |-> <<>>]
Nothing  == [as |-> "nothing"]
MostFrames == 3    \* MAX_FRAMES_PER_PACKET

Frames(setup) == 1 .. FramesOf(setup)
Chans(setup)  == 1 .. setup.channels
Stereo(setup) == setup.channels = 2

(***************************************************************************)
(* The encoder.  ch: per channel, what it predicts from; lbrr: the copies  *)
(* made of the last packet's frames; pred, only: its stereo information.   *)
(***************************************************************************)
FreshChannel == [type |-> Inactive, lag |-> 0, gain |-> 0, fresh |-> FALSE, lbrrGain |-> 0]
FreshEncoder ==
  [khz |-> 0, ms |-> 0, fec |-> FALSE, onlyMid |-> FALSE,
   ch   |-> [c \in 1 .. 2 |-> FreshChannel],
   lbrr |-> [c \in 1 .. 2 |-> [i \in 1 .. MostFrames |-> NoFrame]],
   pred |-> [i \in 1 .. MostFrames |-> 0], only |-> [i \in 1 .. MostFrames |-> FALSE]]

(* silk_setup_fs.                                                          *)
Restarted(channel) == [channel EXCEPT !.gain = StartLevel, !.fresh = TRUE]
SetupFs(e, setup) ==
  IF e.khz = setup.khz THEN e
  ELSE [e EXCEPT !.khz = setup.khz,
                 !.ch = [c \in 1 .. 2 |-> IF c \in Chans(setup) THEN Restarted(@[c]) ELSE @[c]]]

(* Mutant: a new packet duration is not looked at.                         *)
StillFitsAnyLength(e, setup, c) == ~e.ch[c].fresh

(* Copies that no longer match the packet they would go into are dropped.  *)
StillFits(e, setup, c) == e.ms = setup.ms /\ ~e.ch[c].fresh
Copies(e, setup, c) ==
  [i \in 1 .. MostFrames |-> IF StillFits(e, setup, c) /\ i \in Frames(setup)
                             THEN e.lbrr[c][i] ELSE NoFrame]

HasCopy(copies, i) == i > 0 /\ copies[i] # NoFrame

(* Mutant: the libopus constant that leaves the scaling symbol out.        *)
CopyCodingUnscaled(copies, i) == IF HasCopy(copies, i - 1) THEN Conditionally ELSE NoLtpScaling

CopyCoding(copies, i) == IF HasCopy(copies, i - 1) THEN Conditionally ELSE Independently

Symbols(setup, frame, redundant, cond, before) ==
  EncodeIndices(setup, frame, redundant, cond, before)
  \o EncodePulses(frame.type, frame.offset, frame.mark, frame.pulses)

(* Frame by frame, and in each the mid before the side.                    *)
Slots(setup) ==
  FlattenSeq([i \in Frames(setup) |-> [c \in Chans(setup) |-> [i |-> i, c |-> c]]])

FlagsTable(setup) == <<"lbrr_flags", FramesOf(setup)>>
CopyFlags(setup, copies) ==
  FlattenSeq([c \in Chans(setup) |->
    LET flags == [i \in Frames(setup) |-> HasCopy(copies[c], i)]
    IN IF FramesOf(setup) > 1 /\ (\E i \in Frames(setup) : flags[i])
       THEN Sym(FlagsTable(setup), flags) ELSE <<>>])

(* The copies of all frames: [e, symbols].                                 *)
CopyStereo(e, setup, copies, s) ==
  IF ~(Stereo(setup) /\ s.c = 1) THEN <<>>
  ELSE Sym("pred", e.pred[s.i])
       \o (IF HasCopy(copies[2], s.i) THEN <<>> ELSE Sym("mid_only", e.only[s.i]))
EncodeCopies(e, setup, copies) ==
  Over(LAMBDA acc, s :
         IF ~HasCopy(copies[s.c], s.i) THEN acc
         ELSE With(copies[s.c][s.i].frame, LAMBDA frame : With(acc.e.ch[s.c], LAMBDA before :
                [e |-> [acc.e EXCEPT !.ch[s.c] = Remembered(frame, before) @@ before],
                 symbols |-> acc.symbols \o CopyStereo(e, setup, copies, s)
                   \o Symbols(setup, frame, TRUE, CopyCoding(copies[s.c], s.i), before)])),
       [e |-> e, symbols |-> <<>>], Slots(setup))

(* A frame of a channel (silk_encode_frame).  says: what it is to say;     *)
(* first and final: the levels its gains lie at, before and after the rate *)
(* loop, which may also give up (final = <<>>): level gains, no pulses.    *)
FrameCoding(e, i, c) ==
  IF i = 1 THEN Independently
  ELSE IF c = 2 /\ e.onlyMid THEN NoLtpScaling ELSE Conditionally

GivenUp(says) == says.final = <<>>
Quantized(levels, gain, cond) == GainsQuant(levels, gain, cond = Conditionally)
Squeezed(n, gain, cond) ==
  [indices |-> [k \in 1 .. n |-> IF k = 1 /\ cond # Conditionally THEN gain ELSE -MinStep],
   levels  |-> [k \in 1 .. n |-> gain]]

FinalGains(says, gain, cond) ==
  IF GivenUp(says) THEN Squeezed(Len(says.first), gain, cond)
  ELSE Quantized(says.final, gain, cond)

FrameSaying(says, gains, cond) ==
  [type |-> says.type, offset |-> says.offset, lag |-> says.lag, mark |-> says.mark, gains |-> gains,
   scale  |-> IF cond = Independently THEN says.scale ELSE 0,
   pulses |-> IF GivenUp(says) THEN [k \in DOMAIN says.pulses |-> 0] ELSE says.pulses]

(* silk_lbrr_encode: the frame with the gains it had before the rate loop, *)
(* the first of a run of copies raised; levels: what its pulses were       *)
(* quantized for.                                                          *)
CopyOf(says, quantized, cond, channel, follows, bump) ==
  LET gains == IF follows THEN quantized.indices
               ELSE [quantized.indices EXCEPT ![1] = Limit(@ + bump, 0, TopLevel)]
      start == IF follows THEN channel.lbrrGain ELSE Last(quantized.levels)
  IN [frame  |-> FrameSaying([says EXCEPT !.final = says.first], gains, cond),
      levels |-> GainsDequant(gains, start, cond = Conditionally)]

CopyMade(e, i, c, says, cond, bump) ==
  CopyOf(says, Quantized(says.first, e.ch[c].gain, cond), cond, e.ch[c], HasCopy(e.lbrr[c], i - 1), bump)
WithCopy(e, i, c, says, cond, bump) ==
  IF ~(e.fec /\ says.active) THEN e
  ELSE With(CopyMade(e, i, c, says, cond, bump), LAMBDA copy :
         [e EXCEPT !.ch[c].lbrrGain = Last(copy.levels), !.lbrr[c][i] = copy])

EncodeFrame(acc, setup, i, c, says, bump) ==
  With(FrameCoding(acc.e, i, c), LAMBDA cond : With(acc.e.ch[c], LAMBDA channel :
    With(FinalGains(says, channel.gain, cond), LAMBDA final :
      With(FrameSaying(says, final.indices, cond), LAMBDA frame :
        [e |-> [WithCopy(acc.e, i, c, says, cond, bump)
                  EXCEPT !.ch[c] = [Remembered(frame, channel) @@ @ EXCEPT !.gain = Last(final.levels), !.fresh = FALSE]],
         symbols |-> acc.symbols \o Symbols(setup, frame, FALSE, cond, channel),
         frames  |-> [acc.frames EXCEPT ![i][c] = [frame |-> frame, levels |-> final.levels,
                                                   settled |-> says.final = says.first]]]))))

(* The stereo information of a frame; a side that comes back starts anew   *)
(* (reset_side_encoder).                                                   *)
SideVad(plan) == ~plan.only /\ plan.says[2].type # Inactive
StereoSymbols(plan) ==
  Sym("pred", plan.pred) \o (IF SideVad(plan) THEN <<>> ELSE Sym("mid_only", plan.only))
EncodeStereo(acc, i, plan) ==
  [acc EXCEPT !.symbols = @ \o StereoSymbols(plan),
              !.e.pred[i] = plan.pred, !.e.only[i] = plan.only,
              !.e.ch[2] = IF ~plan.only /\ acc.e.onlyMid THEN Restarted(@) ELSE @]

CodesChannel(plan, c) == c = 1 \/ ~plan.only
EncodeOne(acc, setup, i, plan, bump) ==
  With(Over(LAMBDA a, c : IF CodesChannel(plan, c) THEN EncodeFrame(a, setup, i, c, plan.says[c], bump) ELSE a,
            IF Stereo(setup) THEN EncodeStereo(acc, i, plan) ELSE acc, Upto(setup.channels)),
    LAMBDA coded : [coded EXCEPT !.e.onlyMid = Stereo(setup) /\ plan.only])

(* silk_encode: [e, packet].  The flags are filled in when all is coded.   *)
Vad(setup, plans, c) ==
  [i \in Frames(setup) |-> IF c = 2 THEN SideVad(plans[i]) ELSE plans[i].says[1].type # Inactive]
Flags(setup, plans, copies) ==
  FlattenSeq([c \in Chans(setup) |->
    Sym(<<"flags", FramesOf(setup)>>,
        [vad |-> Vad(setup, plans, c), lbrr |-> \E i \in Frames(setup) : HasCopy(copies[c], i)])])

NoCopies(e, setup) ==
  [e EXCEPT !.lbrr = [c \in 1 .. 2 |-> IF c \in Chans(setup) THEN [i \in 1 .. MostFrames |-> NoFrame] ELSE @[c]]]

SilkEncode(e0, setup, fec, loss, plans) ==
  With([SetupFs(e0, setup) EXCEPT !.fec = fec], LAMBDA tuned :
    With([c \in 1 .. 2 |-> Copies(tuned, setup, c)], LAMBDA copies :
      With(EncodeCopies([tuned EXCEPT !.ms = setup.ms], setup, copies), LAMBDA copied :
        With(Over(LAMBDA acc, i : EncodeOne(acc, setup, i, plans[i], IF e0.fec THEN loss ELSE 7),
                  [e |-> NoCopies(copied.e, setup), symbols |-> <<>>,
                   frames |-> [i \in Frames(setup) |-> [c \in Chans(setup) |-> NoFrame]]],
                  Upto(FramesOf(setup))), LAMBDA all :
          [e |-> all.e,
           packet |-> [setup |-> setup, frames |-> all.frames,
                       copies |-> [i \in Frames(setup) |-> [c \in Chans(setup) |-> copies[c][i]]],
                       symbols |-> Flags(setup, plans, copies) \o CopyFlags(setup, copies)
                                   \o copied.symbols \o all.symbols]]))))

(***************************************************************************)
(* The decoder.                                                            *)
(***************************************************************************)
FreshDecoder ==
  [khz |-> 0, onlyMid |-> FALSE, ch |-> [c \in 1 .. 2 |-> [type |-> Inactive, lag |-> 0, gain |-> 0]]]

(* silk_decoder_set_fs.                                                    *)
SetFs(d, setup) ==
  IF d.khz = setup.khz THEN d
  ELSE [d EXCEPT !.khz = setup.khz,
                 !.ch = [c \in 1 .. 2 |-> IF c \in Chans(setup) THEN [@[c] EXCEPT !.gain = StartLevel]
                                          ELSE @[c]]]

(* The head of a packet: [r, vad, lbrr], per channel and frame.            *)
ReadPerChannel(One(_, _), r, setup) ==
  Over(LAMBDA acc, c : With(One(acc.r, c), LAMBDA x : Had(x.r, Append(acc.v, x.v))),
       Had(r, <<>>), Upto(setup.channels))
ReadCopyFlags(r, setup, any) ==
  IF ~any THEN Had(r, [i \in Frames(setup) |-> FALSE])
  ELSE IF FramesOf(setup) = 1 THEN Had(r, <<TRUE>>)
  ELSE Read(r, FlagsTable(setup))
ReadFlags(r, setup) ==
  With(ReadPerChannel(LAMBDA q, c : Read(q, <<"flags", FramesOf(setup)>>), r, setup), LAMBDA flags :
    With(ReadPerChannel(LAMBDA q, c : ReadCopyFlags(q, setup, flags.v[c].lbrr), flags.r, setup), LAMBDA lbrr :
      [r |-> lbrr.r, vad |-> [c \in Chans(setup) |-> flags.v[c].vad], lbrr |-> lbrr.v]))

ReadFrame(r, setup, redundant, vad, cond, before) ==
  With(DecodeIndices(r, setup, redundant, vad, cond, before), LAMBDA x :
    With(DecodePulses(x.r, x.frame.type, x.frame.offset, setup.samples), LAMBDA p :
      Had(p.r, [pulses |-> p.v] @@ x.frame)))

(* [r, pred, only]                                                         *)
ReadStereo(r, silent) ==
  With(Read(r, "pred"), LAMBDA pred :
    With(IF silent THEN Read(pred.r, "mid_only") ELSE Had(pred.r, FALSE), LAMBDA only :
      [r |-> only.r, pred |-> pred.v, only |-> only.v]))

LbrrCoding(lbrr, i) == IF i > 1 /\ lbrr[i - 1] THEN Conditionally ELSE Independently

(* A packet decoded for itself passes over the copies.                     *)
SkipCopies(r, d, setup, lbrr) ==
  Over(LAMBDA acc, s :
         IF ~lbrr[s.c][s.i] THEN acc
         ELSE With(IF Stereo(setup) /\ s.c = 1 THEN ReadStereo(acc.r, ~lbrr[2][s.i]).r ELSE acc.r, LAMBDA r1 :
                With(ReadFrame(r1, setup, TRUE, TRUE, LbrrCoding(lbrr[s.c], s.i), acc.d.ch[s.c]), LAMBDA x :
                  [r |-> x.r, d |-> [acc.d EXCEPT !.ch[s.c] = Remembered(x.v, @) @@ @]])),
       [r |-> r, d |-> d], Slots(setup))

DecodeCoding(normal, lbrr, i, c, d) ==
  IF i = 1 THEN Independently
  ELSE IF ~normal THEN LbrrCoding(lbrr, i)
  ELSE IF c = 2 /\ d.onlyMid THEN NoLtpScaling ELSE Conditionally

(* silk_decode_frame: a frame without a copy is extrapolated.              *)
DecodeFrame(acc, setup, head, normal, i, c, cond) ==
  LET before == acc.d.ch[c]
  IN IF ~normal /\ ~head.lbrr[c][i] THEN acc
     ELSE With(ReadFrame(acc.r, setup, ~normal, head.vad[c][i], cond, before), LAMBDA x :
            With(IF x.r.ok THEN GainsDequant(x.v.gains, before.gain, cond = Conditionally) ELSE <<before.gain>>,
              LAMBDA levels :
                [acc EXCEPT !.r = x.r,
                            !.d.ch[c] = [Remembered(x.v, @) @@ @ EXCEPT !.gain = Last(levels)],
                            !.frames[i][c] = [frame |-> x.v, levels |-> levels]]))

HasSide(setup, head, normal, i, only, was) ==
  Stereo(setup) /\ IF normal THEN ~only ELSE ~was \/ head.lbrr[2][i]
Silent(head, normal, i) == IF normal THEN ~head.vad[2][i] ELSE ~head.lbrr[2][i]
StereoOf(acc, setup, head, normal, i) ==
  IF Stereo(setup) /\ (normal \/ head.lbrr[1][i]) THEN ReadStereo(acc.r, Silent(head, normal, i))
  ELSE [r |-> acc.r, only |-> FALSE]

DecodeOne(acc, setup, head, normal, i) ==
  With(acc.d.onlyMid, LAMBDA was : With(StereoOf(acc, setup, head, normal, i), LAMBDA stereo :
    With([acc EXCEPT !.r = stereo.r,
                     !.d.ch[2].gain = IF Stereo(setup) /\ ~stereo.only /\ was THEN StartLevel ELSE @],
      LAMBDA sided :
        With(Over(LAMBDA a, c : DecodeFrame(a, setup, head, normal, i, c,
                                            DecodeCoding(normal, head.lbrr[c], i, c, acc.d)),
                  sided, IF HasSide(setup, head, normal, i, stereo.only, was) THEN <<1, 2>> ELSE <<1>>),
          LAMBDA done : [done EXCEPT !.d.onlyMid = stereo.only]))))

(* SilkDecoder::decode, called until the packet is used up: [d, heard].    *)
SilkDecode(d0, packet, normal) ==
  With(packet.setup, LAMBDA setup : With(ReadFlags(ReaderOf(packet.symbols), setup), LAMBDA head :
    With(IF normal THEN SkipCopies(head.r, SetFs(d0, setup), setup, head.lbrr)
         ELSE [r |-> head.r, d |-> SetFs(d0, setup)], LAMBDA start :
      With(Over(LAMBDA acc, i : DecodeOne(acc, setup, head, normal, i),
                [r |-> start.r, d |-> start.d,
                 frames |-> [i \in Frames(setup) |-> [c \in Chans(setup) |-> NoFrame]]],
                Upto(FramesOf(setup))), LAMBDA all :
        [d |-> all.d,
         heard |-> [as |-> IF normal THEN "packet" ELSE "copy", ok |-> all.r.ok,
                    over |-> all.r.left, frames |-> all.frames]]))))

(* Mutant: the gains go on from before the loss.                           *)
ConcealedKeepingGain(d, channels) == d

(* A call for a packet that is not there.  Before the first packet there   *)
(* is nothing to go on from, and SILK is not called.                       *)
Concealed(d, channels) ==
  IF d.khz = 0 THEN d
  ELSE [d EXCEPT !.ch = [c \in 1 .. 2 |-> IF c <= channels THEN [@[c] EXCEPT !.gain = StartLevel] ELSE @[c]]]

(***************************************************************************)
Init ==
  /\ use \in Uses
  /\ enc = FreshEncoder /\ dec = FreshDecoder
  /\ wire = NoPacket /\ arrived = FALSE /\ missing = FALSE /\ blurred = FALSE
  /\ heard = Nothing

Send ==
  /\ ~arrived
  /\ \E setup \in Setups(use), fec \in Fec(use), loss \in Bumps :
       \E plans \in Plans(use, setup) :
         \E sent \in {SilkEncode(enc, setup, fec, loss, plans)} :
            /\ enc' = sent.e
            /\ wire' = sent.packet @@ [before |-> [setup |-> wire.setup, frames |-> wire.frames]]
  /\ arrived' = TRUE
  /\ heard' = Nothing
  /\ UNCHANGED <<use, dec, missing, blurred>>

Levels(said) ==
  [i \in DOMAIN said.frames |-> [c \in DOMAIN said.frames[i] |->
     IF said.frames[i][c] = NoFrame THEN <<>> ELSE said.frames[i][c].levels]]
Deliver ==
  /\ arrived /\ ~missing
  /\ \E got \in {SilkDecode(dec, wire, TRUE)} :
     dec' = got.d /\ heard' = got.heard /\ blurred' = (blurred /\ Levels(got.heard) # Levels(wire))
  /\ arrived' = FALSE
  /\ UNCHANGED <<use, enc, wire, missing>>

Lose ==
  /\ arrived /\ ~missing
  /\ arrived' = FALSE /\ missing' = TRUE
  /\ heard' = Nothing
  /\ UNCHANGED <<use, enc, dec, wire, blurred>>

Conceal ==
  /\ missing
  /\ dec' = Concealed(dec, (CHOOSE s \in Setups(use) : TRUE).channels)
  /\ missing' = FALSE /\ blurred' = FALSE
  /\ heard' = Nothing
  /\ UNCHANGED <<use, enc, wire, arrived>>

(* The copy of the lost packet is taken from the packet after it.  It is   *)
(* like the packet when every frame has one, made at the gains it kept.    *)
CopyIsLike(packet) ==
  \A i \in Frames(packet.setup), c \in Chans(packet.setup) :
    packet.copies[i][c] # NoFrame /\ packet.before.frames[i][c].settled
Recover ==
  /\ missing /\ arrived
  /\ \E got \in {SilkDecode(dec, wire, FALSE)} :
     dec' = got.d /\ heard' = got.heard
  /\ missing' = FALSE /\ blurred' = (blurred \/ ~CopyIsLike(wire))
  /\ UNCHANGED <<use, enc, wire, arrived>>

Next == Send \/ Deliver \/ Lose \/ Conceal \/ Recover
Spec == Init /\ [][Next]_vars
=============================================================================
