----------------------------- MODULE SilkIndices -----------------------------
(***************************************************************************)
(* The side information of a SILK frame (silk/encode_indices.rs,           *)
(* decode_indices.rs): which symbols are there, in which order and from    *)
(* which tables.  A frame is                                               *)
(*   type (0 inactive, 1 unvoiced, 2 voiced), offset, gains, lag, scale,   *)
(*   mark, pulses                                                          *)
(* where mark stands for all that is coded the same way in every frame:    *)
(* the filter's vector and residuals, its interpolation, the pitch         *)
(* contour, the codebook and taps of the predictor, the seed.              *)
(***************************************************************************)
EXTENDS SilkPulses, SilkGains

Independently == "independently"              \* CODE_INDEPENDENTLY
NoLtpScaling  == "independently, no scaling"  \* CODE_INDEPENDENTLY_NO_LTP_SCALING
Conditionally == "conditionally"              \* CODE_CONDITIONALLY

Inactive == 0
Unvoiced == 1
Voiced   == 2

(* A frame of 10 ms has two subframes, any other four.                     *)
Subframes(setup) == IF setup.ms = 10 THEN 2 ELSE 4
FramesOf(setup)  == IF setup.ms <= 20 THEN 1 ELSE setup.ms \div 20
Wide(setup)      == setup.khz = 16

(* A residual of the filter's quantiser: 4 either way, and beyond it a     *)
(* second symbol.                                                          *)
MaxResidual == 4     \* NLSF_QUANT_MAX_AMPLITUDE
ResidualOf(mark) == <<3, -7, 4>>[mark + 1]
Residual(setup, mark) ==
  LET table == <<"residual", Wide(setup), mark>>
      value == ResidualOf(mark)
  IN CASE value >= MaxResidual  -> Sym(table, 2 * MaxResidual) \o Sym("more", value - MaxResidual)
       [] value <= -MaxResidual -> Sym(table, 0) \o Sym("more", -value - MaxResidual)
       [] OTHER                 -> Sym(table, value + MaxResidual)

ContourTable(setup) == <<"contour", Subframes(setup), setup.khz = 8>>
LowLagTable(setup)  == <<"uniform", setup.khz \div 2>>
TapsTable(setup, mark) == <<"ltp", mark, Subframes(setup)>>

HalfRate(setup) == setup.khz \div 2
CodedLag(setup, lag) == IF lag > 32 * HalfRate(setup) - 1 THEN 32 * HalfRate(setup) - 1 ELSE lag

(* The lag: a step from the last frame's, if that was voiced and the lag   *)
(* is near; 0 steps mean that it follows as it is.                         *)
LagSymbols(setup, frame, cond, before) ==
  LET follows == cond = Conditionally /\ before.type = Voiced
      step    == frame.lag - before.lag
      near    == follows /\ step \in -8 .. 11
  IN (IF follows THEN Sym("lag_delta", IF near THEN step + 9 ELSE 0) ELSE <<>>)
     \o (IF near THEN <<>>
         ELSE Sym("lag_high", CodedLag(setup, frame.lag) \div HalfRate(setup))
              \o Sym(LowLagTable(setup), CodedLag(setup, frame.lag) % HalfRate(setup)))

VoicedSymbols(setup, frame, cond, before) ==
  LagSymbols(setup, frame, cond, before)
  \o Sym(ContourTable(setup), frame.mark)
  \o Sym("periodicity", frame.mark) \o Sym(TapsTable(setup, frame.mark), frame.mark)
  \o (IF cond = Independently THEN Sym("ltp_scale", frame.scale) ELSE <<>>)

(* silk_encode_indices.  before is the frame of its channel coded last, a  *)
(* redundant one included: its type, and the last lag.                     *)
EncodeIndices(setup, frame, redundant, cond, before) ==
  LET typeOffset == 2 * frame.type + frame.offset
  IN (IF redundant \/ typeOffset >= 2 THEN Sym("type_vad", typeOffset - 2)
      ELSE Sym("type_no_vad", typeOffset))
     \o (IF cond = Conditionally THEN Sym("delta_gain", frame.gains[1])
         ELSE Sym(<<"gain", frame.type>>, frame.gains[1] \div 8)
              \o Sym("uniform8", frame.gains[1] % 8))
     \o Sym(<<"delta_gains", Subframes(setup)>>, Tail(frame.gains))
     \o Sym(<<"vector", Wide(setup), frame.type \div 2>>, frame.mark)
     \o Residual(setup, frame.mark)
     \o (IF Subframes(setup) = 4 THEN Sym("interpolation", frame.mark) ELSE <<>>)
     \o (IF frame.type = Voiced THEN VoicedSymbols(setup, frame, cond, before) ELSE <<>>)
     \o Sym("seed", frame.mark)

(* What a channel goes on from.                                            *)
Remembered(frame, before) ==
  [type |-> frame.type, lag |-> IF frame.type = Voiced THEN frame.lag ELSE before.lag]

(***************************************************************************)
(* silk_decode_indices.                                                    *)
(***************************************************************************)
ReadGain(r, type, cond) ==
  IF cond = Conditionally THEN Read(r, "delta_gain")
  ELSE With(Read(r, <<"gain", type>>), LAMBDA high :
         With(Read(high.r, "uniform8"), LAMBDA low : Had(low.r, 8 * high.v + low.v)))

ReadResidual(r, setup, mark) ==
  With(Read(r, <<"residual", Wide(setup), mark>>), LAMBDA x :
    IF x.v \in {0, 2 * MaxResidual}
    THEN With(Read(x.r, "more"), LAMBDA y :
           Had(y.r, (IF x.v = 0 THEN -y.v ELSE x.v + y.v) - MaxResidual))
    ELSE Had(x.r, x.v - MaxResidual))

ReadWholeLag(r, setup) ==
  With(Read(r, "lag_high"), LAMBDA high :
    With(Read(high.r, LowLagTable(setup)), LAMBDA low : Had(low.r, high.v * HalfRate(setup) + low.v)))
ReadLag(r, setup, cond, before) ==
  With(IF cond = Conditionally /\ before.type = Voiced THEN Read(r, "lag_delta") ELSE Had(r, 0), LAMBDA delta :
    IF delta.v > 0 THEN Had(delta.r, before.lag + delta.v - 9) ELSE ReadWholeLag(delta.r, setup))

(* What is read of a frame, piece by piece: [r, frame].  Of its marks      *)
(* there is one when all agree.                                            *)
Also(x, frame) == [r |-> x.r, frame |-> frame]
Marked(x, frame) == Also(x, [frame EXCEPT !.marks = @ \cup {x.v}])

ReadHead(r, setup, vad, cond) ==
  With(IF vad THEN With(Read(r, "type_vad"), LAMBDA x : Had(x.r, x.v + 2)) ELSE Read(r, "type_no_vad"), LAMBDA type :
    With(ReadGain(type.r, type.v \div 2, cond), LAMBDA gain :
      With(Read(gain.r, <<"delta_gains", Subframes(setup)>>), LAMBDA deltas :
        Also(deltas, [type |-> type.v \div 2, offset |-> type.v % 2, lag |-> 0, scale |-> 0, marks |-> {},
                      gains |-> <<gain.v>> \o (IF deltas.r.ok THEN deltas.v ELSE <<>>)]))))

ReadFilter(h, setup) ==
  With(Read(h.r, <<"vector", Wide(setup), h.frame.type \div 2>>), LAMBDA vector :
    With(ReadResidual(vector.r, setup, vector.v), LAMBDA resid :
      With(IF Subframes(setup) = 4 THEN Read(resid.r, "interpolation") ELSE Had(resid.r, vector.v), LAMBDA interp :
        Marked(interp, [residual |-> resid.v] @@ [h.frame EXCEPT !.marks = {vector.v}]))))

ReadVoiced(h, setup, cond, before) ==
  IF h.frame.type # Voiced THEN h
  ELSE With(ReadLag(h.r, setup, cond, before), LAMBDA lag :
         With(Read(lag.r, ContourTable(setup)), LAMBDA contour :
           With(Read(contour.r, "periodicity"), LAMBDA period :
             With(Read(period.r, TapsTable(setup, period.v)), LAMBDA taps :
               With(IF cond = Independently THEN Read(taps.r, "ltp_scale") ELSE Had(taps.r, 0), LAMBDA scale :
                 Also(scale, [h.frame EXCEPT !.lag = lag.v, !.scale = scale.v,
                                             !.marks = @ \cup {contour.v, period.v, taps.v}]))))))

DecodeIndices(r, setup, redundant, vad, cond, before) ==
  With(ReadHead(r, setup, redundant \/ vad, cond), LAMBDA head :
    With(ReadFilter(head, setup), LAMBDA filter :
      With(ReadVoiced(filter, setup, cond, before), LAMBDA voiced :
        With(Read(voiced.r, "seed"), LAMBDA seed : Marked(seed, voiced.frame)))))
=============================================================================
