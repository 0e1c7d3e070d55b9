----------------------------- MODULE CeltFrame -----------------------------
(***************************************************************************)
(* One CELT frame, written by CeltEncoder::encode_impl and read by         *)
(* CeltDecoder::decode_impl_from_rc (celt/mod.rs).  There are no lengths   *)
(* or presence flags in a frame: each side decides from the position it    *)
(* has reached and from what it knows of the frame's size whether the next *)
(* section is there at all, and in what model.  The encoder does not even  *)
(* know the size while it writes the first half: it picks it after the     *)
(* trim (Size), and everything before was decided by the larger one.       *)
(*                                                                         *)
(* What the encoder's analysis of the signal may come to is a choice of    *)
(* each section, from the sets of the constants.                           *)
(***************************************************************************)
EXTENDS FrameSections

CONSTANTS
  Frames,       \* the frames: bands, channels, length, size and what SILK wrote
  Pitches,      \* what the prefilter may be: <<octave, tapset>>
  Energies,     \* the energy steps of the bands
  Resolutions,  \* what the bands' time resolutions may be: <<by band, select>>
  Boosts,       \* how often each band is boosted
  Trims,
  Targets,      \* the sizes in bytes a variable rate may ask for
  Stereos,      \* <<first intensity band, dual>>
  Shapes        \* what the bands' spectra look like: [angle, sign] by band

VARIABLES
  f,       \* the frame
  enc,     \* the encoder's coder
  dec,     \* the decoder's
  said,    \* what the encoder decided
  heard,   \* what the decoder understood
  section  \* what comes next

vars == <<f, enc, dec, said, heard, section>>

Unknown ==
  [silence |-> FALSE, pitch |-> <<>>, transient |-> FALSE, short |-> FALSE, intra |-> FALSE, steps |-> <<>>,
   tf |-> <<>>, spread |-> 2, offsets |-> <<>>, all |-> 0, trim |-> 5, total |-> 0, rsv |-> 0,
   given |-> 0, division |-> <<>>, antiCollapse |-> 0]

Cbr == f.vbr = FALSE
Hybrid == f.start # 0
Said(c, next) == enc' = c /\ section' = next /\ UNCHANGED <<f, dec, heard>>
Heard(c, next) == dec' = c /\ section' = next /\ UNCHANGED <<f, enc, said>>

(* A frame SILK wrote nothing of starts with 1 bit told.                   *)
Init ==
  /\ f \in {[x EXCEPT !.cap = [j \in Bands |-> Cap(j, x.channels, x.lm)]] : x \in Frames}
  /\ enc = [Writer(f.bytes) EXCEPT !.at = f.before * BitRes]
  /\ dec = Reader(<<>>, 0)
  /\ said = [Unknown EXCEPT !.total = f.bytes * BitRes]
  /\ heard = Unknown
  /\ section = "silence"

(***************************************************************************)
(* The encoder.                                                            *)
(***************************************************************************)
(* A silent frame says so, is cut to 2 bytes at a variable rate, and       *)
(* counts as full: no later section finds room.                            *)
Cut(c, bytes) == [c EXCEPT !.storage = bytes]
Full(c, total) == [c EXCEPT !.at = @ + BitRes * (total - Tell(c))]
SilentSize(c, total) ==
  IF Cbr THEN total
  ELSE AtLeast(AtMost(total \div 8, (Tell(c) + 7) \div 8 + 2), 2) * 8

SaySilence ==
  /\ section = "silence"
  /\ \E silent \in BOOLEAN :
       IF Tell(enc) # 1
       THEN said' = said /\ Said(enc, "prefilter")
       ELSE LET c     == Put(enc, Bit(15), Flag(silent)).c
                total == SilentSize(c, said.total)
            IN IF silent
               THEN /\ said' = [said EXCEPT !.silence = TRUE, !.total = total]
                    /\ Said(Full(Cut(c, total \div 8), total), "prefilter")
               ELSE said' = said /\ Said(c, "prefilter")

(* The prefilter: its period in octaves and what remains, gain and tapset. *)
PutPitch(c, pitch) ==
  Over(LAMBDA x, s : Put(x, s[1], s[2]).c, Put(c, Bit(1), 1).c,
           << <<Uint(6), pitch[1]>>, <<Raw(4 + pitch[1]), 0>>, <<Raw(3), 0>>,
              <<Table("tapset"), pitch[2]>> >>)
SayPrefilter ==
  /\ section = "prefilter"
  /\ IF Hybrid \/ said.silence \/ ~Fits(enc, 16, said.total)
     THEN said' = said /\ Said(enc, "transient")
     ELSE \/ said' = said /\ Said(Put(enc, Bit(1), 0).c, "transient")
          \/ \E pitch \in Pitches :
               said' = [said EXCEPT !.pitch = pitch] /\ Said(PutPitch(enc, pitch), "transient")

(* The flag is only coded, and the blocks shortened, where there are blocks *)
(* to shorten and room, but what the analysis found stands all the same.   *)
(* (Silence has no attacks.)                                               *)
SayTransient ==
  /\ section = "transient"
  /\ \E transient \in IF said.silence THEN {FALSE} ELSE f.transients :
       LET coded == f.lm > 0 /\ Fits(enc, 3, said.total)
       IN /\ said' = [said EXCEPT !.transient = transient, !.short = coded /\ transient]
          /\ Said(IF coded THEN Put(enc, Bit(3), Flag(transient)).c ELSE enc, "energy")

(* A transient's energies are never predicted from the frame before.       *)
SayEnergy ==
  /\ section = "energy"
  /\ \E steps \in Energies, intra \in BOOLEAN :
       LET room  == Fits(enc, 3, said.total)
           alone == room /\ (intra \/ said.transient)
           coded == QuantCoarseEnergy(f, IF room THEN Put(enc, Bit(3), Flag(alone)).c ELSE enc,
                                      said.total, alone, steps)
       IN /\ said.transient => intra
          /\ said' = [said EXCEPT !.intra = alone, !.steps = coded.steps]
          /\ Said(coded.c, "resolution")

(* Only a rich frame that is all CELT's chooses its resolutions freely.    *)
Chosen(short) ==
  IF AtLeast(said.total \div 8, 1) >= 15 * f.channels /\ ~Hybrid THEN Resolutions
  ELSE {<<[j \in Bands |-> Flag(short)], 0>>}
         \cup (IF Hybrid THEN {<<[j \in Bands |-> 1], 0>>, <<[j \in Bands |-> 0], Flag(short)>>}
               ELSE {})
SayResolution ==
  /\ section = "resolution"
  /\ \E res \in Chosen(said.transient) :
       LET coded == TfEncode(f, enc, said.transient, res[1], res[2])
       IN said' = [said EXCEPT !.tf = coded.tf] /\ Said(coded.c, "spread")

Spread4 == Table("spread")
SaySpread ==
  /\ section = "spread"
  /\ \E spread \in {2, 3} :
       IF Fits(enc, 4, said.total)
       THEN said' = [said EXCEPT !.spread = spread] /\ Said(Put(enc, Spread4, spread).c, "boost")
       ELSE said' = said /\ Said(enc, "boost")

SayBoost ==
  /\ section = "boost"
  /\ \E boosts \in Boosts :
       LET coded == BoostEncode(f, enc, said.total, boosts)
       IN /\ said' = [said EXCEPT !.offsets = coded.offsets, !.all = coded.all]
          /\ Said(coded.c, "trim")

SayTrim ==
  /\ section = "trim"
  /\ \E trim \in Trims :
       IF TrimFits(enc, said.total, said.all)
       THEN said' = [said EXCEPT !.trim = trim] /\ Said(Put(enc, Trim, trim).c, "size")
       ELSE said' = said /\ Said(enc, "size")

(* The size, never less than what is coded and boosted and 2 bytes, nor    *)
(* than 37 bits after SILK's part.                                         *)
MinAllowedTold(c, all) == (TellFrac(c) + 63) \div 64
MinAllowed(c, all) ==
  AtLeast((TellFrac(c) + all + 63) \div 64 + 2,
          IF Hybrid THEN (f.before * BitRes + 37 * BitRes + all + 63) \div 64 ELSE 0)
CapBytes(total) == AtMost(total \div 8, 1275 \div 2 ^ (3 - f.lm))
SizeFor(c, all, total, target) ==
  AtLeast(2, AtMost(AtLeast(target, MinAllowed(c, all)), CapBytes(total)))
Size ==
  /\ section = "size"
  /\ IF Cbr THEN said' = said /\ Said(enc, "division")
     ELSE \E target \in Targets :
            LET bytes == SizeFor(enc, said.all, said.total, target)
            IN said' = [said EXCEPT !.total = bytes * 8] /\ Said(Cut(enc, bytes), "division")

SayDivision ==
  /\ section = "division"
  /\ \E stereo \in IF f.channels = 2 THEN Stereos ELSE {<<0, 0>>} :
       LET rsv   == AntiCollapse(f, enc, said.total, said.transient)
           given == said.total * BitRes - TellFrac(enc) - 1 - rsv
           a     == Allocation(f, enc, said.total, said.trim, said.offsets, rsv,
                               Clamped(f.start, stereo[1], f.end), stereo[2])
       IN /\ said' = [said EXCEPT !.rsv = rsv, !.given = given, !.division = [a EXCEPT !.c = 0]]
          /\ Said(FineEnergy(f, a.c, a.parts, 0), "shapes")

SayShapes ==
  /\ section = "shapes"
  /\ \E shape \in Shapes :
       Said(QuantAllBands(f, enc, said.division, said.tf, shape,
              said.short, said.total * BitRes - said.rsv), "rest")
  /\ UNCHANGED said

(* The last bits; then the decoder has the frame.                          *)
Closed(c) == EnergyFinalise(f, c, said.division.parts, said.total - Tell(c), 1)
SayRest ==
  /\ section = "rest"
  /\ \E on \in {0, 1} :
       /\ said.rsv = 0 => on = 0
       /\ enc' = Closed(IF said.rsv > 0 THEN Put(enc, Raw(1), on).c ELSE enc)
       /\ said' = [said EXCEPT !.antiCollapse = on]
  /\ dec' = [Reader(enc'.log, enc.storage) EXCEPT !.at = f.before * BitRes]
  /\ heard' = [Unknown EXCEPT !.total = enc.storage * 8]
  /\ section' = "hear silence"
  /\ UNCHANGED f

(***************************************************************************)
(* The decoder.                                                            *)
(***************************************************************************)
HearSilence ==
  /\ section = "hear silence"
  /\ LET got    == IF Tell(dec) = 1 /\ heard.total > 1 THEN Get(dec, Bit(15)) ELSE Took(dec, 0)
         silent == Tell(dec) >= heard.total \/ got.value = 1
     IN /\ heard' = [heard EXCEPT !.silence = silent]
        /\ Heard(IF silent THEN Full(got.c, heard.total) ELSE got.c, "hear prefilter")

GetPitch(c, total) ==
  LET octave == Get(c, Uint(6))
      gain   == Get(Get(octave.c, Raw(4 + octave.value)).c, Raw(3))
      tapset == IF Fits(gain.c, 2, total) THEN Get(gain.c, Table("tapset")) ELSE Took(gain.c, 0)
  IN [c |-> tapset.c, pitch |-> <<octave.value, tapset.value>>]
HearPitch(on) ==
  IF on.value = 0 THEN heard' = heard /\ Heard(on.c, "hear transient")
  ELSE LET got == GetPitch(on.c, heard.total)
       IN heard' = [heard EXCEPT !.pitch = got.pitch] /\ Heard(got.c, "hear transient")
HearPrefilter ==
  /\ section = "hear prefilter"
  /\ IF Hybrid \/ heard.silence \/ ~Fits(dec, 16, heard.total)
     THEN heard' = heard /\ Heard(dec, "hear transient")
     ELSE HearPitch(Get(dec, Bit(1)))

HearTransient ==
  /\ section = "hear transient"
  /\ LET got == IF f.lm > 0 /\ Fits(dec, 3, heard.total) THEN Get(dec, Bit(3)) ELSE Took(dec, 0)
     IN heard' = [heard EXCEPT !.transient = got.value = 1, !.short = got.value = 1]
        /\ Heard(got.c, "hear energy")

HearEnergy ==
  /\ section = "hear energy"
  /\ LET got   == IF Fits(dec, 3, heard.total) THEN Get(dec, Bit(3)) ELSE Took(dec, 0)
         coded == UnquantCoarseEnergy(f, got.c, got.value = 1)
     IN /\ heard' = [heard EXCEPT !.intra = got.value = 1, !.steps = coded.steps]
        /\ Heard(coded.c, "hear resolution")

HearResolution ==
  /\ section = "hear resolution"
  /\ LET got == TfDecode(f, dec, heard.transient)
     IN heard' = [heard EXCEPT !.tf = got.tf] /\ Heard(got.c, "hear spread")

HearSpread ==
  /\ section = "hear spread"
  /\ LET got == IF Fits(dec, 4, heard.total) THEN Get(dec, Spread4) ELSE Took(dec, 2)
     IN heard' = [heard EXCEPT !.spread = got.value] /\ Heard(got.c, "hear boost")

HearBoost ==
  /\ section = "hear boost"
  /\ LET got == BoostDecode(f, dec, heard.total)
     IN /\ heard' = [heard EXCEPT !.offsets = got.offsets, !.all = got.all]
        /\ Heard(got.c, "hear trim")

HearTrim ==
  /\ section = "hear trim"
  /\ LET got == IF TrimFits(dec, heard.total, heard.all) THEN Get(dec, Trim) ELSE Took(dec, 5)
     IN heard' = [heard EXCEPT !.trim = got.value] /\ Heard(got.c, "hear division")

HearDivision ==
  /\ section = "hear division"
  /\ LET rsv   == AntiCollapse(f, dec, heard.total, heard.transient)
         given == heard.total * BitRes - TellFrac(dec) - 1 - rsv
         a     == Allocation(f, dec, heard.total, heard.trim, heard.offsets, rsv, 0,
                             Flag(f.channels = 2))
     IN /\ heard' = [heard EXCEPT !.rsv = rsv, !.given = given, !.division = [a EXCEPT !.c = 0]]
        /\ Heard(FineEnergy(f, a.c, a.parts, 0), "hear shapes")

HearShapes ==
  /\ section = "hear shapes"
  /\ Heard(QuantAllBands(f, dec, heard.division, heard.tf,
             [j \in Bands |-> [angle |-> 0, sign |-> 0]], heard.short,
             heard.total * BitRes - heard.rsv), "hear rest")
  /\ UNCHANGED heard

HearRest ==
  /\ section = "hear rest"
  /\ LET on == IF heard.rsv > 0 THEN Get(dec, Raw(1)) ELSE Took(dec, 0)
     IN /\ heard' = [heard EXCEPT !.antiCollapse = on.value]
        /\ Heard(EnergyFinalise(f, on.c, heard.division.parts, heard.total - Tell(on.c), 1), "end")

Next ==
  \/ SaySilence \/ SayPrefilter \/ SayTransient \/ SayEnergy \/ SayResolution \/ SaySpread
  \/ SayBoost \/ SayTrim \/ Size \/ SayDivision \/ SayShapes \/ SayRest
  \/ HearSilence \/ HearPrefilter \/ HearTransient \/ HearEnergy \/ HearResolution \/ HearSpread
  \/ HearBoost \/ HearTrim \/ HearDivision \/ HearShapes \/ HearRest

Spec == Init /\ [][Next]_vars

-----------------------------------------------------------------------------
(* The decoder asks for every symbol under the model it was written under, *)
(* whatever the encoder found and whatever size it chose after the fact.   *)
SameModels == dec.ok

(* At the end the decoder has read it all, is where the encoder was and    *)
(* has understood what the encoder decided.                                *)
SameFrame ==
  section = "end" => dec.log = <<>> /\ TellFrac(dec) = TellFrac(enc) /\ heard = said

(* The bits that are divided are there: bands, fine energy and what is     *)
(* handed on are no more than what the frame had left, none is negative;   *)
(* and nothing but the last eighth of a bit is ever coded beyond the size  *)
(* that was chosen.                                                        *)
SpendsWhatIsThere ==
  /\ said.division # <<>> /\ said.given > 0 =>
       /\ said.division.room >= 0 /\ said.division.balance >= 0
       /\ \A k \in DOMAIN said.division.parts :
            said.division.parts[k].pulses >= 0 /\ said.division.parts[k].ebits \in 0 .. MaxFineBits
       /\ Over(LAMBDA sum, p : sum + p.pulses + f.channels * BitRes * p.ebits,
                   said.division.balance, said.division.parts) <= said.given
  /\ section \in {"rest", "hear silence"} => Tell(enc) <= said.total
=============================================================================
