------------------------------ MODULE MCHistory ------------------------------
(***************************************************************************)
(* What is kept of the signal from frame to frame: SILK's decoder, CELT's  *)
(* two sides, or, within a frame, the quantizer with delayed decision.     *)
(***************************************************************************)
EXTENDS SilkSynthesis, DelayedDecision, CeltHistory

VARIABLE use   \* which of the three

(* SILK.                                                                   *)
MCShapes == {[khz |-> 16, subframes |-> 4, frames |-> 1], [khz |-> 16, subframes |-> 4, frames |-> 2],
             [khz |-> 16, subframes |-> 2, frames |-> 1], [khz |-> 8, subframes |-> 4, frames |-> 1]}

Voice(lag, contour, best, blend) ==
  [type |-> "voiced", lag |-> lag, contour |-> contour, best |-> best, blend |-> blend]
Other(type, blend) ==
  [type |-> type, lag |-> 0, contour |-> <<0, 0, 0, 0>>, best |-> 0, blend |-> blend]

MCSpoken(channel, shape) ==
  LET long == shape.subframes = 4 IN
  IF channel = 1
  THEN {Other("inactive", long), Other("unvoiced", FALSE),
        Voice(ShortestLag(shape.khz), <<0, 0, 0, 0>>, 0, FALSE),
        Voice(LongestLag(shape.khz), <<-9, -2, 3, 12>>, 3, long)}
  ELSE {Other("inactive", FALSE), Voice(LongestLag(shape.khz), <<0, 0, 0, 0>>, 0, long)}

(* The quantizer.                                                          *)
MCFrameKinds ==
  {[lags |-> <<6, 5, 7, 5>>, voiced |-> TRUE, blends |-> TRUE],
   [lags |-> <<5, 4, 6, 4>>, voiced |-> TRUE, blends |-> FALSE],
   [lags |-> <<9, 9>>, voiced |-> FALSE, blends |-> FALSE]}
MCCosts == {<<0, 0>>, <<0, 2>>, <<1, 1>>}

(* CELT.                                                                   *)
Full(blocks, filter) == [blocks |-> blocks, start |-> 1, room |-> TRUE, filter |-> filter]
Hybrid == [blocks |-> 2, start |-> 2, room |-> TRUE, filter |-> Off]

MCCeltFrames == {Full(blocks, filter) : blocks \in {1, 2}, filter \in {Off, 1, 2}} \cup {Hybrid}

(* And one too small for a prefilter.                                      *)
MCCeltFramesStarved == MCCeltFrames \cup {[Full(1, Off) EXCEPT !.room = FALSE]}

MCInit ==
  /\ use \in {"silk", "quantizer", "celt"}
  /\ SilkInit /\ NsqInit /\ CeltInit
  /\ use = "quantizer" \/ frame = CHOOSE f \in FrameKinds : TRUE

MCNext ==
  \/ use = "silk" /\ SilkNext /\ UNCHANGED <<use, nsqVars, celtVars>>
  \/ use = "quantizer" /\ NsqNext /\ UNCHANGED <<use, silkVars, celtVars>>
  \/ use = "celt" /\ CeltNext /\ UNCHANGED <<use, silkVars, nsqVars>>

MCSpec == MCInit /\ [][MCNext]_<<use, silkVars, nsqVars, celtVars>>
=============================================================================
