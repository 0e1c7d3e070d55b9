------------------------------ MODULE Gapless ------------------------------
(***************************************************************************)
(* A clip encoded to a file and decoded back: the recipe of                *)
(* examples/encode.rs ("Ending the file exactly") over the muxer, and the  *)
(* loop of examples/decode.rs over the demuxer and Trim.  The container is *)
(* what OggWriter and OggReader are checked to make of it: packets in      *)
(* order, each with the granule through the last packet of its page, page  *)
(* boundaries falling anywhere.  The loop may also be given a file of      *)
(* another muxer, which can state any granules (the clip is then none).    *)
(*                                                                         *)
(* The clip's rate and the decode rate are independent of each other.      *)
(***************************************************************************)
EXTENDS Trim, Sequences

CONSTANTS
  FrameTicks,   \* ticks in a frame (960), a whole number of samples at any rate
  Clips,        \* lengths of clips, in samples per channel
  ForeignFiles  \* the pages a file from elsewhere may have

ASSUME ClipAssumption ==
  /\ FrameTicks \in Nat \ {0}
  /\ \A t \in TickValues : FrameTicks % t = 0
  /\ Clips \subseteq Nat \ {0}

(* A page: how many packets, the ticks each of them lasts, its granule.    *)
PageType == [packets: Nat \ {0}, span: Nat, granule: Int]

ASSUME FileAssumption ==
  /\ ForeignFiles \subseteq Seq(PageType)
  /\ \A file \in ForeignFiles : \A i \in DOMAIN file :
       \A t \in TickValues : file[i].span % t = 0

VARIABLES
  encTicks,   \* ticks per sample at the clip's rate
  clip,       \* samples in the clip, 0 for a file from elsewhere
  encoded,    \* frames encoded so far
  granule,    \* OggOpusWriter::granule
  pages,      \* the pages of audio packets
  filling,    \* packets on the page being assembled
  sealed,     \* the writer has finished
  reading     \* packets decoded so far, as <<pages read, packets of the next>>

fileVars == <<encTicks, clip, encoded, granule, pages, filling, sealed, reading>>
vars == <<trimVars, fileVars>>

(***************************************************************************)
(* The encoder's side.                                                     *)
(***************************************************************************)
Frame == FrameTicks \div encTicks

(* Enough frames to flush the encoder's delay.                             *)
Frames == CeilDiv(clip + CeilDiv(preSkip, encTicks), Frame)

FinalGranule == preSkip + clip * encTicks

(* The duration a packet is written with: its own, but for the last, which *)
(* is what the file still lacks.                                           *)
(* (Mutant: the last packet states its own, too.)                          *)
FullDuration == FrameTicks
Duration == IF encoded + 1 = Frames THEN FinalGranule - granule ELSE FrameTicks

PageNow == [packets |-> filling, span |-> FrameTicks, granule |-> granule]

(* One packet, after a full page is flushed.                               *)
EncodeFrame(full) ==
  /\ ~sealed /\ encoded < Frames
  /\ full => filling > 0
  /\ encoded' = encoded + 1
  /\ pages' = IF full THEN Append(pages, PageNow) ELSE pages
  /\ filling' = IF full THEN 1 ELSE filling + 1
  /\ granule' = granule + Duration
  /\ UNCHANGED <<trimVars, encTicks, clip, sealed, reading>>

(* finish: the last page, which always has a packet on it.                 *)
Seal ==
  /\ ~sealed /\ encoded = Frames
  /\ sealed' = TRUE
  /\ pages' = Append(pages, PageNow)
  /\ filling' = 0
  /\ UNCHANGED <<trimVars, encTicks, clip, encoded, granule, reading>>

(***************************************************************************)
(* The decoder's side: each packet decodes whole, and is then trimmed.     *)
(***************************************************************************)
Decode ==
  /\ sealed /\ reading.page <= Len(pages)
  /\ Keep(pages[reading.page].span \div ticks, pages[reading.page].granule)
  /\ reading' = IF reading.packet < pages[reading.page].packets
                THEN [reading EXCEPT !.packet = @ + 1]
                ELSE [page |-> reading.page + 1, packet |-> 1]
  /\ UNCHANGED <<encTicks, clip, encoded, granule, pages, filling, sealed>>

Init ==
  /\ TrimInit
  /\ \/ /\ encTicks \in TickValues /\ clip \in Clips
        /\ pages = <<>> /\ sealed = FALSE
     \/ /\ encTicks = 1 /\ clip = 0
        /\ pages \in ForeignFiles /\ sealed = TRUE
  /\ encoded = 0 /\ granule = 0 /\ filling = 0
  /\ reading = [page |-> 1, packet |-> 1]

Next == (\E full \in BOOLEAN : EncodeFrame(full)) \/ Seal \/ Decode

Spec == Init /\ [][Next]_vars

(***************************************************************************)
(* Properties.                                                             *)
(***************************************************************************)
Done == sealed /\ reading.page > Len(pages)
Ours == clip > 0

TypeOK ==
  /\ TrimTypeOK
  /\ encTicks \in TickValues /\ clip \in Clips \cup {0}
  /\ encoded \in Nat /\ granule \in Nat
  /\ pages \in Seq(PageType)
  /\ filling \in Nat /\ sealed \in BOOLEAN
  /\ reading \in [page: Nat \ {0}, packet: Nat \ {0}]

(* The clip comes back sample for sample: at its own rate exactly as many  *)
(* samples as went in, at another rate as many as fit in its time.         *)
ComesBackExact == (Ours /\ Done) => emitted = (clip * encTicks) \div ticks

(* The last packet's duration is "always between 1 and one frame's worth"  *)
(* (encode.rs:69-70), which the unsigned subtraction and the 120 ms limit  *)
(* of write_packet_with_duration both rely on.                             *)
LastDurationFits ==
  (~sealed /\ encoded < Frames) => Duration \in 1 .. FrameTicks
=============================================================================
