------------------------------ MODULE MCPackets ------------------------------
(***************************************************************************)
(* Packets of bytes of 16 values: sizes from 12 on take two bytes, 15 of   *)
(* padding two.  Of two configurations' frames a packet holds three and    *)
(* two.                                                                    *)
(***************************************************************************)
EXTENDS Repacketizer, Multistream

VARIABLE use   \* a repacketizer, or a surround stream

MCSpans == [c \in 0 .. 3 |-> IF c % 2 = 0 THEN 2 ELSE 3]

(***************************************************************************)
(* The repacketizer.                                                       *)
(***************************************************************************)

Toc(c, code) == 4 * c + code
Fill(byte, n) == [i \in 1 .. n |-> byte]

(* One frame; two of code 1 and 2; three, constant and variable.           *)
Usual ==
  {<<Toc(0, 0)>>, <<Toc(0, 0)>> \o Fill(5, 30), <<Toc(1, 1), 6, 7>>, <<Toc(0, 1), 6, 7>>}
    \cup {<<Toc(0, 2), 13, 0>> \o Fill(6, 13) \o <<7>>}
    \cup {<<Toc(0, 3), 3, 7, 6, 7>>, <<Toc(0, 3), VbrFlag + 3, 0, 1, 7, 6>>}

(* Framed otherwise than the repacketizer would: code 3 for one frame and  *)
(* for two equal ones, with padding of one byte and of several length      *)
(* bytes.                                                                  *)
Odd ==
  {<<Toc(0, 3), 1, 6>>, <<Toc(0, 3), VbrFlag + 2, 1, 6, 7>>,
   <<Toc(0, 3), PadFlag + 1, 0, 7>>,
   <<Toc(0, 3), PadFlag + VbrFlag + 2, 2, 1, 6, 7, 7, 0, 0>>,
   <<Toc(0, 3), PadFlag + 1, 15, 1>> \o <<6>> \o Fill(0, 15)}

(* Not packets: empty, odd halves, no frames or too many of them, sizes    *)
(* cut off or beyond the end, padding cut off or longer than the packet, a *)
(* frame above the limit.                                                  *)
Broken ==
  {<<>>, <<Toc(0, 1), 6>>, <<Toc(0, 3)>>, <<Toc(0, 3), 0>>, <<Toc(1, 3), 3, 6, 7, 8>>,
   <<Toc(0, 2)>>, <<Toc(0, 2), 13>>, <<Toc(0, 2), 3, 6>>, <<Toc(0, 3), 2, 6>>,
   <<Toc(0, 3), PadFlag + 1>>, <<Toc(0, 3), PadFlag + 1, 15>>,
   <<Toc(0, 3), PadFlag + 1, 2, 0>>, <<Toc(0, 0)>> \o Fill(5, MaxFrame + 1)}

MCPackets == Usual \cup Odd \cup Broken

(* The same out of another multistream encoder.                            *)
MCDelimited ==
  {<<Toc(0, 0), 2, 5, 6>>, <<Toc(0, 1), 1, 6, 7>>, <<Toc(0, 2), 1, 0, 6>>,
   <<Toc(0, 3), 1, 2, 5, 6>>, <<Toc(0, 3), VbrFlag + 2, 1, 1, 6, 7>>,
   <<Toc(0, 3), 3, 13, 0>> \o Fill(5, 39)}

MCPadded ==
  {<<Toc(0, 3), PadFlag + 1, 2, 1, 5, 0, 0>>,
   <<Toc(0, 3), PadFlag + VbrFlag + 2, 0, 1, 1, 6, 7>>}

(* Both are packets; only those of the first end with their last frame.    *)
ASSUME MCSentPackets ==
  /\ \A data \in MCDelimited \cup MCPadded : ParsePacket(data, TRUE).ok
  /\ \A data \in MCDelimited : ParsePacket(data, TRUE).consumed = Len(data)

MCTrailers == {<<>>, <<Toc(0, 3), 3, 15, 15>>}
MCLengths  == {3, 6, 17, 18, 19, 34}

(***************************************************************************)
(* Surround: every layout, and small ones at several rates, applications   *)
(* and gains.                                                              *)
(***************************************************************************)
(* "ab", "AB", "b" and names that cannot be pushed.                        *)
Entry(name, value) == [name |-> name, value |-> value]
Found   == <<Entry(<<97, 98>>, <<49>>), Entry(<<98>>, <<>>), Entry(<<65, 66>>, <<61, 50>>)>>
Refused == <<Entry(<<>>, <<49>>), Entry(<<97, 61>>, <<49>>), Entry(<<98>>, <<51, 52>>)>>

File(channels, family, rate, app, gain, comments) ==
  [layout |-> Surround(channels, family), rate |-> rate, app |-> app, gain |-> gain,
   comments |-> comments]

MCSetups ==
  {File(c, 1, 48000, "audio", 0, <<>>) : c \in 1 .. 8}
    \cup {File(1, 0, rate, "lowdelay", 1, Found) : rate \in {8000, 24000}}
    \cup {File(2, 0, 12000, "voip", -32768, Refused), File(3, 1, 16000, "audio", 32767, Found)}

(* One frame; two equal ones; two and three of different sizes, one that   *)
(* takes two bytes for its length; padded; nothing coded.  The streams of  *)
(* a call are framed in every order of these.                              *)
Style(sizes, padTo)  == [dropped |-> FALSE, sizes |-> sizes, padTo |-> padTo]
Quiet(count)         == [dropped |-> TRUE, sizes |-> [i \in 1 .. count |-> 0], padTo |-> NoPadding]
Framings == <<Style(<<0>>, NoPadding), Style(<<1, 1>>, NoPadding), Quiet(1), Style(<<12, 0>>, NoPadding),
              Style(<<0, 2, 11>>, NoPadding), Style(<<2, 2>>, 30), Quiet(2)>>

MCStyles ==
  {[i \in 1 .. 5 |-> Framings[((i + from) % Len(Framings)) + 1]] : from \in 0 .. Len(Framings) - 1}

MCRooms  == {20, 999}
MCSpoilt == {<<>>, <<3, 0>>, <<2, 13>>}

MCInit ==
  /\ use \in {"repacketizer", "surround"}
  /\ Init /\ SurroundInit
  /\ use = "surround" \/ setup = CHOOSE s \in Setups : TRUE

MCNext ==
  \/ use = "repacketizer" /\ Next /\ UNCHANGED <<use, surroundVars>>
  \/ use = "surround" /\ SurroundNext /\ UNCHANGED <<use, vars>>

MCSpec == MCInit /\ [][MCNext]_<<use, vars, surroundVars>>
=============================================================================
