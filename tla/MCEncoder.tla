------------------------------ MODULE MCEncoder ------------------------------
(***************************************************************************)
(* Three uses of an encoder: one whose caller changes its mind about       *)
(* everything, one with pauses, one with buffers of every awkward size.    *)
(***************************************************************************)
EXTENDS Encoder

For(use, rate, channels, app) ==
  [use |-> use, rate |-> rate, channels |-> channels, app |-> app]
Default == [bitrate |-> 64000, cbr |-> FALSE, complexity |-> 9, loss |-> 0, fec |-> FALSE,
            dtx |-> FALSE, force |-> Unset, max |-> FB, signal |-> "auto"]
Call(s, duration, buffer) == [settings |-> s, duration |-> duration, buffer |-> buffer]

Plain    == [silence |-> FALSE, analysed |-> FALSE, voice |-> 0, bandwidth |-> NB]
Silence  == [Plain EXCEPT !.silence = TRUE]
Music(b) == [Plain EXCEPT !.analysed = TRUE, !.bandwidth = b]
Speech(b) == [Music(b) EXCEPT !.voice = 100]

(* Rates around the thresholds of the mode, bandwidth and FEC decisions.   *)
Wavering ==
  {[Default EXCEPT !.bitrate = b, !.cbr = c] : b \in {9000, 28001}, c \in BOOLEAN}
  \cup {[Default EXCEPT !.bitrate = b, !.fec = TRUE, !.loss = 20] : b \in {11000, 24000}}
  \cup {[Default EXCEPT !.bitrate = 24000, !.force = f] : f \in {NB, MB}}
  \cup {[Default EXCEPT !.bitrate = 24000, !.max = MB, !.fec = TRUE, !.loss = 5],
        [Default EXCEPT !.bitrate = 60000, !.complexity = 11, !.loss = -1]}

MCStreams ==
  {For("minds", 24000, 2, "audio"), For("minds", 12000, 1, "voip"), For("minds", 8000, 2, "lowdelay"),
   For("pauses", 48000, 1, "voip"), For("pauses", 48000, 2, "audio"),
   For("tight", 48000, 2, "audio"), For("tight", 16000, 1, "voip")}

MCCalls == [s \in MCStreams |->
  CASE s.use = "minds" ->
         {Call(w, d, 8000) : w \in Wavering, d \in {5, 40, 80}}
    [] s.use = "pauses" ->
         {Call([Default EXCEPT !.bitrate = 40000, !.cbr = TRUE, !.dtx = x], d, 8000) :
            x \in BOOLEAN, d \in {40, 120, 200}}
    [] s.use = "tight" ->
         {Call([Default EXCEPT !.bitrate = b, !.cbr = c], d, r) :
            b \in {-1, 6000, 510000}, c \in BOOLEAN,
            d \in IF s.channels = 2 THEN {20, 60, 80, 120} ELSE {160, 240},
            r \in {1, 2, 7, 12, 802}}]

MCAudio == [s \in MCStreams |->
  CASE s.use = "minds"  -> {Plain, Silence, Music(FB), Speech(WB)}
    [] s.use = "pauses" -> {Plain, Silence, Music(FB), Speech(FB)}
    [] s.use = "tight"  -> {Plain}]

MCPayloadSizes == [s \in MCStreams |-> IF s.use = "tight" THEN {1, 252, 265, 9999} ELSE {9999}]
=============================================================================
