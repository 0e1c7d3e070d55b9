------------------------------ MODULE MCCoding ------------------------------
(***************************************************************************)
(* The bits of a frame: the coder that packs them, symbol by symbol, and   *)
(* the sections of a CELT frame that are coded with it.                    *)
(***************************************************************************)
EXTENDS EntropyCoding, CeltFrame

VARIABLE use   \* the one or the other

(***************************************************************************)
(* Symbols of every kind, in a coder of bytes of 2 bits.                   *)
(***************************************************************************)
MCSizes == {3, 9}
MCFlagBits == {0, 1, 2}
Vectors == {<<-2, 0>>, <<0, -1, 1>>}
Norm(y) == FoldLeft(LAMBDA sum, x : sum + Abs(x), 0, y)

MCSymbols ==
  {[kind |-> "bit", value |-> v, logp |-> 3] : v \in {0, 1}}
    \cup {[kind |-> "icdf", value |-> v, icdf |-> <<5, 1, 0>>, ftb |-> 3] : v \in {1, 2}}
    \cup {[kind |-> "freq", value |-> v, ft |-> 7] : v \in {0, 6}}
    \cup {[kind |-> "uint", value |-> v, ft |-> 21] : v \in {0, 20}}
    \cup {[kind |-> "raw", value |-> 5, bits |-> 3], [kind |-> "raw", value |-> 341, bits |-> 9]}
    \cup {[kind |-> "laplace", value |-> v, fs |-> 20, decay |-> 16] : v \in {-1, 4}}
    \cup {[kind |-> "pulses", value |-> y, n |-> Len(y), k |-> Norm(y)] : y \in Vectors}

(***************************************************************************)
(* CELT frames of each kind the encoder makes: stereo and mono, long and   *)
(* short, with and without SILK's part, of fixed and of variable size.     *)
(***************************************************************************)
Kind(start, end, channels, lm, before, transients) ==
  [start |-> start, end |-> end, channels |-> channels, lm |-> lm, before |-> before,
   transients |-> transients, cap |-> <<>>, bytes |-> 0, vbr |-> FALSE]
Sized(kind, bytes, vbr) == [kind EXCEPT !.bytes = bytes, !.vbr = vbr]

Stereo20 == Kind(0, 13, 2, 3, 1, BOOLEAN)
Mono5 == Kind(0, 13, 1, 1, 1, BOOLEAN)
Mono2 == Kind(0, 13, 1, 0, 1, {FALSE})
Hybrid20 == Kind(17, 19, 1, 3, 40, BOOLEAN)

MCFrames == {Sized(Mono2, 12, FALSE), Sized(Mono2, 50, FALSE),
      Sized(Mono5, 3, FALSE), Sized(Mono5, 50, FALSE)}
  \cup {Sized(Stereo20, 4, FALSE), Sized(Stereo20, 80, TRUE)}
  \cup {Sized(Hybrid20, 60, TRUE), Sized(Hybrid20, 6, FALSE),
      Sized(Hybrid20, 12, FALSE)}

(* A frame of 2.5 ms in which the analysis finds an attack.                *)
MCShortAttacks == {Sized([Mono2 EXCEPT !.transients = BOOLEAN], b, FALSE) : b \in {12, 50}}

MCPitches == {<<2, 1>>}
Level(n) == [j \in Bands |-> n]
MCEnergies == {Level(0), [j \in Bands |-> IF j % 2 = 0 THEN 2 ELSE -2]}
MCResolutions == {<<Level(0), 0>>, <<[j \in Bands |-> j % 2], 1>>}
MCBoosts == {Level(0), [j \in Bands |-> IF j \in {3, 18} THEN 2 ELSE 0]}
MCTrims == {3, 8}
MCTargets == {2, 25, 70}
MCStereos == {<<0, 0>>, <<6, 1>>, <<21, 0>>}
MCShapes == {[j \in Bands |-> [angle |-> (j * 3000) % 16385, sign |-> j % 2]]}

MCInit ==
  /\ use \in {"coder", "frame"}
  /\ CodingInit /\ Init
  /\ use = "coder" \/ <<coder, log>> = <<NewEncoder(3), <<>>>>
  /\ use = "frame" \/ f.bytes = 3

MCNext ==
  \/ use = "coder" /\ CodingNext /\ UNCHANGED <<use, vars>>
  \/ use = "frame" /\ Next /\ UNCHANGED <<use, codingVars>>

MCSpec == MCInit /\ [][MCNext]_<<use, codingVars, vars>>
=============================================================================
