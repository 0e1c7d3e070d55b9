-------------------------------- MODULE Trim --------------------------------
(***************************************************************************)
(* Trim: what of each decoded packet is audio.  Counts are samples per     *)
(* channel at the decode rate, granules are 48 kHz ticks; a decode rate is *)
(* given by the ticks one of its samples lasts.  The packets and granules  *)
(* handed to Keep are whatever the file says, so they are arbitrary here;  *)
(* Gapless draws them from files.                                          *)
(***************************************************************************)
EXTENDS Integers

CONSTANT PreSkips    \* pre-skips a header may state, in ticks

ASSUME PreSkipAssumption == PreSkips \subseteq Nat

VARIABLES
  ticks,          \* granule ticks per output sample
  preSkip,        \* the header's pre-skip
  skipRemaining,  \* samples of encoder delay still to discard
  emitted,        \* samples handed back
  fed,            \* history: samples decoded
  lastGranule,    \* history: the granule of the last packet
  honest          \* history: every granule covered the samples decoded so far

trimVars == <<ticks, preSkip, skipRemaining, emitted, fed, lastGranule, honest>>

(* 48 000 over each rate check_rate admits: 48, 24, 16, 12 and 8 kHz.      *)
TickValues == {1, 2, 3, 4, 6}

FloorLead(a, b) == a \div b            \* mutant: the pre-skip is rounded down
CeilDiv(a, b) == (a + b - 1) \div b

(* The encoder delay in whole output samples.                              *)
Lead == CeilDiv(preSkip, ticks)

(***************************************************************************)
(* Trim::new.                                                              *)
(***************************************************************************)
TrimInit ==
  /\ ticks \in TickValues
  /\ preSkip \in PreSkips
  /\ skipRemaining = CeilDiv(preSkip, ticks)
  /\ emitted = 0
  /\ fed = 0 /\ lastGranule = -1 /\ honest = TRUE

(***************************************************************************)
(* keep_range: the front of the packet goes to the encoder delay, and the  *)
(* back is clamped to what the page's granule says can have been played.   *)
(***************************************************************************)
Least(a, b) == IF a <= b THEN a ELSE b
SatSub(a, b) == IF a > b THEN a - b ELSE 0

Start(total) == Least(skipRemaining, total)

Playable(granule) == SatSub(granule, preSkip) \div ticks

Kept(total, granule) ==
  IF granule >= 0
  THEN Least(SatSub(Playable(granule), emitted), total - Start(total))
  ELSE total - Start(total)

Keep(total, granule) ==
  /\ skipRemaining' = skipRemaining - Start(total)
  /\ emitted' = emitted + Kept(total, granule)
  /\ fed' = fed + total
  /\ lastGranule' = granule
  /\ honest' = (honest /\ (granule < 0 \/ granule >= fed' * ticks))
  /\ UNCHANGED <<ticks, preSkip>>

TrimNext == \E total \in Nat, granule \in Int : Keep(total, granule)

TrimSpec == TrimInit /\ [][TrimNext]_trimVars

(***************************************************************************)
(* Properties.                                                             *)
(***************************************************************************)
(* The counters are natural numbers: keep_range's subtractions on unsigned *)
(* integers never wrap.                                                    *)
TrimTypeOK ==
  /\ ticks \in TickValues /\ preSkip \in Nat
  /\ skipRemaining \in Nat /\ emitted \in Nat
  /\ fed \in Nat /\ lastGranule \in Int /\ honest \in BOOLEAN

(* Nothing is invented, whatever the file claims: the delay discarded and  *)
(* the audio handed back are never more than what was decoded, and the     *)
(* delay is discarded first.                                               *)
NothingInvented ==
  /\ emitted + (Lead - skipRemaining) <= fed
  /\ skipRemaining > 0 => emitted = 0

(* "The two identities are equal" (trim.rs:118-127): while every page's    *)
(* granule covers its packets, the granule clamps nothing, at any rate and *)
(* for any pre-skip: what comes out is everything but the delay.           *)
HonestIsExact == honest => emitted = SatSub(fed, Lead)

(* "Such a file loses audio rather than gaining silence" (trim.rs:52-55):  *)
(* audio handed back never runs past the granule of the packet it is from. *)
NeverPastTheGranule ==
  [][emitted' > emitted /\ lastGranule' >= 0
       => emitted' * ticks + preSkip <= lastGranule']_trimVars
=============================================================================
