----------------------------- MODULE MCPlayback -----------------------------
(***************************************************************************)
(* What a player makes of a stream: how the decoder goes from packet to    *)
(* packet, and which samples of a whole clip come out.                     *)
(***************************************************************************)
EXTENDS Decoder, Gapless

VARIABLE use   \* the one or the other

(***************************************************************************)
(* Packets for the decoder: one or two frames in every mode, mono and      *)
(* stereo, SILK at two rates, with every placing of redundant frames that  *)
(* a sender makes.                                                         *)
(***************************************************************************)
Plain     == {<<"none">>, <<"none", "none">>}
Redundant == {<<"toSilk">>, <<"toCelt">>, <<"toSilk", "none">>, <<"none", "toCelt">>}

Packet(mode, count, rate, band, span, frames) ==
  [mode |-> mode, channels |-> count, rate |-> rate, band |-> band, span |-> span,
   frames |-> frames]

MCPackets ==
  {Packet("silk", c, 8, 13, 8, f) : c \in {1, 2}, f \in Plain \cup Redundant}
    \cup {Packet("hybrid", 1, 16, 19, 4, f) : f \in Plain \cup Redundant}
    \cup {Packet("silk", 1, 16, 17, 4, <<"none">>), Packet("hybrid", 2, 16, 19, 4, <<"none">>)}
    \cup {Packet("celt", 2, 16, 21, 2, f) : f \in Plain}

(* 5, 10, 15, 20, 25 and 35 ms.                                            *)
MCRooms == {2, 4, 6, 8, 10, 14}

(***************************************************************************)
(* Clips in frames of 12 ticks, the shortest every rate divides; pre-skips *)
(* and clips up to several frames, the values at and around a frame        *)
(* included.  A foreign file has three packets, of one frame or two, and   *)
(* granules that are honest, short, long, running backwards, or -1.        *)
(***************************************************************************)
MCPreSkips == {0, 1, 5, 7, 12, 13}
MCClips    == 1 .. 7 \cup {12, 13}

MCPages        == [packets: {1}, span: {12, 24}, granule: {-1, 0, 13, 20, 36, 60}]
MCForeignFiles == {<<p, q, r>> : p, q, r \in MCPages}

MCInit ==
  /\ use \in {"packets", "clip"}
  /\ DecoderInit /\ Init
  /\ use = "clip" \/ <<ticks, preSkip, encTicks, clip>> = <<1, 0, 1, 1>>
  /\ use = "packets" \/ setup = <<TRUE, 1>>

MCNext ==
  \/ use = "packets" /\ DecoderNext /\ UNCHANGED <<use, vars>>
  \/ use = "clip" /\ Next /\ UNCHANGED <<use, decoderVars>>

MCSpec == MCInit /\ [][MCNext]_<<use, decoderVars, vars>>
=============================================================================
