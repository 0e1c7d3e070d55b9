----------------------------- MODULE MCSilkPacket -----------------------------
(***************************************************************************)
(* SilkPacket on five small streams, each of which varies one thing:       *)
(*   lags     mono, 40 ms: voiced frames and their pitch lags;             *)
(*   gains    mono, 40 ms: levels that rise and fall, with and without FEC;*)
(*   sides    stereo, 40 ms: which frames have a side, and a voice;        *)
(*   lengths  mono: every packet length at every rate;                     *)
(*   pulses   mono, 20 ms: one block and a half of four samples a block.   *)
(***************************************************************************)
EXTENDS SilkPacket

MCUses  == {"lags", "gains", "sides", "lengths", "pulses"}
MCShell == <<3, 4>>     \* up to 3 pulses in two samples, 4 in four
MCBumps == {4}
MCFec(u) == {TRUE} \cup IF u = "gains" THEN {FALSE} ELSE {}

Setup(khz, ms, channels, samples) ==
  [khz |-> khz, ms |-> ms, channels |-> channels, samples |-> samples]
MCSetups(u) ==
  CASE u = "lags"    -> {Setup(16, 40, 1, 0)}
    [] u = "gains"   -> {Setup(8, 40, 1, 0)}
    [] u = "sides"   -> {Setup(16, 40, 2, 0), Setup(16, 20, 2, 0)}
    [] u = "lengths" -> {Setup(khz, ms, 1, 0) : khz \in {8, 12, 16}, ms \in {10, 20, 40, 60}}
    [] u = "pulses"  -> {Setup(12, 20, 1, 6)}

Plain(setup, type, lag, mark) ==
  LET level == [k \in 1 .. Subframes(setup) |-> 20]
  IN [type |-> type, offset |-> IF type = Unvoiced THEN 1 ELSE 0, lag |-> lag, mark |-> mark,
      scale |-> mark, active |-> type # Inactive, first |-> level, final |-> level,
      pulses |-> [k \in 1 .. setup.samples |-> 0]]
Mono(says) == [only |-> FALSE, pred |-> 0, says |-> <<says>>]

(* Lags a step up and down reaches (43, 35) and does not (44, 34).         *)
LagFrames(setup) ==
  LET V(lag) == Plain(setup, Voiced, lag, 2)
      rest   == Plain(setup, Inactive, 0, 0)
  IN { <<V(32), V(43)>>, <<V(32), V(44)>>, <<V(43), V(35)>>, <<V(43), V(34)>>, <<V(32), V(32)>>,
       <<rest, V(43)>>, <<V(43), rest>>, <<rest, rest>> }

(* Falling by more than a step, rising past the double steps; given up.    *)
Level(setup, a, b) == [k \in 1 .. Subframes(setup) |-> IF k = 1 THEN a ELSE b]
GainFrames(setup) ==
  LET G(first, final, active) ==
        [Plain(setup, Unvoiced, 0, 0) EXCEPT !.first = first, !.final = final, !.active = active]
      low  == Level(setup, 0, 0)
      high == Level(setup, 62, 62)
      down == Level(setup, 60, 30)
  IN { <<G(low, low, TRUE), G(high, high, TRUE)>>, <<G(high, high, TRUE), G(low, low, TRUE)>>,
       <<G(high, high, FALSE), G(down, down, TRUE)>>,
       <<G(down, Level(setup, 45, 20), TRUE), G(high, <<>>, TRUE)>> }

(* Mid and side of two frames.                                             *)
SidePlan(setup, mid, side) ==
  [only |-> side = "none", pred |-> 1,
   says |-> <<Plain(setup, mid, 40, 1), Plain(setup, IF side = "voiced" THEN Voiced ELSE Inactive, 40, 2)>>]
SidePlans(setup) ==
  LET P(side)   == SidePlan(setup, Voiced, side)
      quietMid  == SidePlan(setup, Inactive, "voiced")
  IN IF FramesOf(setup) = 1 THEN {<<P("none")>>, <<P("voiced")>>} ELSE
     {<<P(p[1]), P(p[2])>> : p \in { <<"none", "none">>, <<"none", "voiced">>, <<"voiced", "none">>,
                                     <<"voiced", "silent">>, <<"silent", "voiced">> }}
     \cup {<<quietMid, P("voiced")>>}

(* In 60 ms the second frame is the first with a copy.                     *)
LengthFrames(setup) ==
  {[i \in Frames(setup) |-> Plain(setup, IF setup.ms = 60 /\ i = 1 THEN Inactive ELSE Voiced, 50, 2)]}

PulseFrames(setup) ==
  {<<[Plain(setup, f[1], 40, 1) EXCEPT !.pulses = f[2]]>> :
     f \in { <<Inactive, <<1, -1, 0, 0, 0, 0>> >>, <<Voiced, <<0, 2, -1, 0, 0, 1>> >>,
             <<Voiced, <<0, 4, 0, 0, 0, 0>> >>, <<Inactive, <<0, -9, 4, 1, 6, 0>> >>,
             <<Voiced, <<2, 2, 2, 2, 13, -1>> >> }}

MCPlans(u, setup) ==
  LET Of(frames) == {[i \in DOMAIN f |-> Mono(f[i])] : f \in frames}
  IN CASE u = "lags"    -> Of(LagFrames(setup))
       [] u = "gains"   -> Of(GainFrames(setup))
       [] u = "sides"   -> SidePlans(setup)
       [] u = "lengths" -> Of(LengthFrames(setup))
       [] u = "pulses"  -> Of(PulseFrames(setup))

(***************************************************************************)
(* What should hold.                                                       *)
(***************************************************************************)
(* A frame got is the frame meant, but for its gains and pulses.           *)
Alike(setup, got, meant) ==
  /\ got.type = meant.type /\ got.offset = meant.offset
  /\ got.marks = {meant.mark} /\ got.residual = ResidualOf(meant.mark)
  /\ meant.type = Voiced => got.lag = CodedLag(setup, meant.lag) /\ got.scale = meant.scale
Same(setup, got, meant) ==
  Alike(setup, got, meant) /\ got.gains = meant.gains /\ got.pulses = meant.pulses

Agree(setup, got, meant) ==
  \A i \in Frames(setup), c \in Chans(setup) :
    IF meant[i][c] = NoFrame THEN got[i][c] = NoFrame
    ELSE got[i][c] # NoFrame /\ Same(setup, got[i][c].frame, meant[i][c].frame)

(* Every symbol is read from the table it was coded with, and every frame  *)
(* is the one that was coded, for its own packet or as a copy: whatever    *)
(* was lost before, and whichever channels and copies are there.  The two  *)
(* sides agree on all that decides which symbol comes next (flags, coding  *)
(* of the first gain, scaling, last lag) without a word being sent of it.  *)
ParsedAsCoded ==
  /\ heard.as = "packet" => heard.ok /\ heard.over = <<>> /\ Agree(wire.setup, heard.frames, wire.frames)
  /\ heard.as = "copy"   => heard.ok /\ Agree(wire.setup, heard.frames, wire.copies)

(* Gains are steps from gains the decoder may have lost: the first packet  *)
(* received after a loss is nevertheless heard at the levels it was coded  *)
(* at (the gains start from a fixed level, low enough not to hold the      *)
(* first one up), unless what stood in for the lost one was a copy with    *)
(* holes, or made before the rate loop moved the gains.                    *)
GainsRejoin ==
  heard.as = "packet" /\ ~blurred => Levels(heard) = Levels(wire)

(* What is recovered is the packet before: of its length and rate, frame   *)
(* for frame and channel for channel.                                      *)
RecoversThePacketBefore ==
  heard.as = "copy" =>
    \A i \in Frames(wire.setup), c \in Chans(wire.setup) :
      heard.frames[i][c] # NoFrame =>
        /\ wire.before.setup = wire.setup
        /\ wire.before.frames[i][c] # NoFrame
        /\ Alike(wire.setup, heard.frames[i][c].frame, wire.before.frames[i][c].frame)
=============================================================================
