----------------------------- MODULE OggWriter -----------------------------
(***************************************************************************)
(* The Ogg Opus muxer (OggOpusWriter).                                     *)
(*                                                                         *)
(* A packet is cut into lacing segments; segments gather in a page that is *)
(* written to the sink when the next packet finds it full, when its        *)
(* segment table fills in the middle of a packet, or when the stream ends. *)
(* The sink may refuse any write, leaving a torn page behind or nothing,   *)
(* and the caller may then go on, finish, or drop the writer.              *)
(*                                                                         *)
(* A call is a short run of steps (`call' says how far it has got): each   *)
(* write to the sink is a step of its own, because it is where a call can  *)
(* stop half-way.  Bytes are abstracted to whose they are: a segment names *)
(* its packet, its place in the packet and its lacing value.               *)
(***************************************************************************)
EXTENDS Integers, SequencesExt

CONSTANTS
  LaceMax,      \* the lacing value that says "more follows" (255)
  MaxSegments,  \* lacing values a page can carry (255)
  MaxDuration,  \* samples at 48 kHz in the longest packet (5760)
  HeadSize,     \* bytes in OpusHead
  TagsSizes,    \* bytes OpusTags may have
  Sizes,        \* bytes an audio packet may have, 0 included
  Durations,    \* durations callers state, one above MaxDuration included
  Targets,      \* page targets callers ask for, 0 included
  MaxPackets,   \* bound: packets pushed, the two headers included
  MaxFailures   \* bound: writes the sink refuses

ASSUME LacingAssumption   == /\ LaceMax \in Nat \ {0}
                             /\ MaxSegments \in Nat \ {0}
ASSUME SizeAssumption     == /\ HeadSize \in Nat
                             /\ TagsSizes \subseteq Nat
                             /\ Sizes \subseteq Nat
                             /\ Targets \subseteq Nat
ASSUME DurationAssumption == MaxDuration \in Nat /\ Durations \subseteq Nat
ASSUME BoundAssumption    == MaxPackets \in Nat /\ MaxFailures \in Nat

VARIABLES
  sink,         \* the pages in the sink, torn ones included
  sequence,     \* number of the next page
  pageTarget,   \* payload bytes that make a page full
  segments,     \* lacing segments of the page being assembled
  payload,      \* bytes those segments carry
  granule,      \* 48 kHz samples in every packet written so far
  pageGranule,  \* granule after the last packet completed on this page
  continued,    \* the page being assembled resumes a packet
  finished,     \* finish_in_place has run
  call,         \* the call in progress
  opened,       \* the constructor has returned a writer
  accepted,     \* history: the audio packets write_packet returned Ok for
  endsAt,       \* history: the granule a completed packet ends at
  pushed,       \* history: packets given to push_packet_bytes
  orphan,       \* history: a refused write cut a packet in the middle
  failures      \* history: writes the sink refused

page == <<segments, payload, pageGranule, continued>>
vars == <<sink, sequence, pageTarget, page, granule, finished, call, opened,
          accepted, endsAt, pushed, orphan, failures>>

NoGranule == -1      \* what a page on which no packet completes must report
NoPacket  == -1      \* whose segment the bare end-of-stream page carries
FirstAudio == 2      \* packets 0 and 1 are OpusHead and OpusTags

LeastOf(a, b) == IF a <= b THEN a ELSE b
Clamp(x, lo, hi) == IF x < lo THEN lo ELSE LeastOf(x, hi)

(* No call is running: the caller holds the writer.                        *)
Idle == [op |-> "idle", pkt |-> 0, part |-> 0, left |-> 0, dur |-> 0]

(* push_packet_bytes is about to append a packet of `size' bytes.          *)
Pushing(pkt, size, dur) ==
  [op |-> "push", pkt |-> pkt, part |-> 0, left |-> size, dur |-> dur]

(***************************************************************************)
(* flush_page: one write_all of one page.                                  *)
(***************************************************************************)
PageWith(bos, eos, g, segs) ==
  [whole |-> TRUE, bos |-> bos, eos |-> eos, continued |-> continued,
   granule |-> g, sequence |-> sequence, segments |-> segs]

(* The sink takes the page; the next one starts empty.  (Mutants: a reset  *)
(* is missing.)                                                            *)
WrittenStillContinued(pg, resumes) ==
  /\ sink' = Append(sink, pg)
  /\ sequence' = sequence + 1
  /\ segments' = <<>>
  /\ payload' = 0
  /\ pageGranule' = NoGranule
  /\ continued' = (continued \/ resumes)
  /\ UNCHANGED failures

WrittenKeepingGranule(pg, resumes) ==
  /\ sink' = Append(sink, pg)
  /\ sequence' = sequence + 1
  /\ segments' = <<>>
  /\ payload' = 0
  /\ continued' = resumes
  /\ UNCHANGED <<pageGranule, failures>>

Written(pg, resumes) ==
  /\ sink' = Append(sink, pg)
  /\ sequence' = sequence + 1
  /\ segments' = <<>>
  /\ payload' = 0
  /\ pageGranule' = NoGranule
  /\ continued' = resumes
  /\ UNCHANGED failures

(* The sink refuses: write_all has written some of the page, or none, and  *)
(* flush_page returns before it resets anything.  (Mutant: the table is   *)
(* cleared before the write.)                                              *)
RefusedAfterClearing(pg) ==
  /\ failures < MaxFailures
  /\ failures' = failures + 1
  /\ sink' \in {sink, Append(sink, [pg EXCEPT !.whole = FALSE])}
  /\ segments' = <<>>
  /\ UNCHANGED <<sequence, payload, pageGranule, continued>>

Refused(pg) ==
  /\ failures < MaxFailures
  /\ failures' = failures + 1
  /\ sink' \in {sink, Append(sink, [pg EXCEPT !.whole = FALSE])}
  /\ segments' = pg.segments
  /\ UNCHANGED <<sequence, payload, pageGranule, continued>>

(***************************************************************************)
(* push_packet_bytes, one lacing value at a time.                          *)
(***************************************************************************)
Segment(lace) == [pkt |-> call.pkt, part |-> call.part, lace |-> lace]

TableFull == Len(segments) = MaxSegments

(* A value of LaceMax: the packet goes on.                                 *)
PushLace ==
  /\ call.op = "push" /\ ~TableFull
  /\ call.left >= LaceMax
  /\ segments' = Append(segments, Segment(LaceMax))
  /\ payload' = payload + LaceMax
  /\ call' = [call EXCEPT !.left = @ - LaceMax, !.part = @ + 1]
  /\ UNCHANGED <<sink, sequence, pageTarget, granule, pageGranule, continued,
                 finished, opened, accepted, endsAt, pushed, orphan, failures>>

(* A value below LaceMax, 0 after an exact multiple: the packet is         *)
(* complete.  An audio packet now counts; a header is flushed next.        *)
PushLast ==
  /\ call.op = "push" /\ ~TableFull
  /\ call.left < LaceMax
  /\ segments' = Append(segments, Segment(call.left))
  /\ payload' = payload + call.left
  /\ endsAt' = [endsAt EXCEPT ![call.pkt] = granule + call.dur]
  /\ IF call.pkt >= FirstAudio
     THEN /\ granule' = granule + call.dur
          /\ pageGranule' = granule'
          /\ accepted' = Append(accepted, call.pkt)
          /\ call' = Idle
     ELSE /\ call' = [call EXCEPT !.op = "header"]
          /\ UNCHANGED <<granule, pageGranule, accepted>>
  /\ UNCHANGED <<sink, sequence, pageTarget, continued, finished, opened,
                 pushed, orphan, failures>>

(* The segment table is full and the packet is not: flush, and say that    *)
(* the next page resumes it.  A refusal ends the call with the packet's    *)
(* first segments still in the table.                                      *)
FlushMidPacket ==
  /\ call.op = "push" /\ TableFull
  /\ LET pg == PageWith(FALSE, FALSE, pageGranule, segments)
     IN \/ Written(pg, TRUE) /\ UNCHANGED <<call, orphan>>
        \/ Refused(pg) /\ call' = Idle /\ orphan' = TRUE
  /\ UNCHANGED <<pageTarget, granule, finished, opened, accepted, endsAt, pushed>>

(***************************************************************************)
(* The constructor: OpusHead alone on a first page, OpusTags from a new    *)
(* one, both at granule 0.  If either flush is refused no writer comes     *)
(* back, and dropping the half-built one still runs finish_in_place.       *)
(***************************************************************************)
FlushHead ==
  /\ call.op = "header" /\ call.pkt = 0
  /\ LET pg == PageWith(TRUE, FALSE, 0, segments)
     IN \/ /\ Written(pg, FALSE)
           /\ \E size \in TagsSizes : call' = Pushing(1, size, 0)
           /\ pushed' = pushed + 1
        \/ Refused(pg) /\ call' = Idle /\ UNCHANGED pushed
  /\ UNCHANGED <<pageTarget, granule, finished, opened, accepted, endsAt, orphan>>

FlushTags ==
  /\ call.op = "header" /\ call.pkt = 1
  /\ LET pg == PageWith(FALSE, FALSE, 0, segments)
     IN \/ Written(pg, FALSE) /\ opened' = TRUE
        \/ Refused(pg) /\ UNCHANGED opened
  /\ call' = Idle
  /\ UNCHANGED <<pageTarget, granule, finished, accepted, endsAt, pushed, orphan>>

(***************************************************************************)
(* The caller's operations.                                                *)
(***************************************************************************)
Ready == call.op = "idle" /\ opened /\ ~finished

SetPageTarget(bytes) ==
  /\ Ready
  /\ pageTarget' = Clamp(bytes, 1, MaxSegments * LaceMax)
  /\ UNCHANGED <<sink, sequence, page, granule, finished, call, opened,
                 accepted, endsAt, pushed, orphan, failures>>

PageFull == payload >= pageTarget \/ TableFull

(* write_packet_with_duration up to its push.  An empty packet, or one     *)
(* longer than 120 ms, is an error that changes nothing.  A full page is   *)
(* flushed before the packet, so that finish always has one to flag.       *)
WritePacket(size, dur) ==
  /\ Ready
  /\ pushed < MaxPackets
  /\ size # 0
  /\ dur <= MaxDuration
  /\ IF PageFull
     THEN Written(PageWith(FALSE, FALSE, pageGranule, segments), FALSE)
     ELSE UNCHANGED <<sink, sequence, page, failures>>
  /\ call' = Pushing(pushed, size, dur)
  /\ pushed' = pushed + 1
  /\ UNCHANGED <<pageTarget, granule, finished, opened, accepted, endsAt, orphan>>

(* The same call when that flush is refused: the packet was not touched.   *)
WritePacketRefused ==
  /\ Ready
  /\ pushed < MaxPackets
  /\ PageFull
  /\ Refused(PageWith(FALSE, FALSE, pageGranule, segments))
  /\ UNCHANGED <<pageTarget, granule, finished, call, opened, accepted, endsAt,
                 pushed, orphan>>

(* finish, or Drop: finish_in_place.  A page must carry a lacing value, so *)
(* a stream with nothing pending ends on one empty segment.  A second run  *)
(* (the drop after finish) returns at once.  (Mutant: it does not.)        *)
FinishAgain ==
  /\ call.op = "idle"
  /\ Len(sink) <= MaxPackets    \* keeps the mutant finite
  /\ finished' = TRUE
  /\ LET bare == <<[pkt |-> NoPacket, part |-> 0, lace |-> 0]>>
         segs == IF segments = <<>> THEN bare ELSE segments
     IN Written(PageWith(FALSE, TRUE, pageGranule, segs), FALSE)
  /\ UNCHANGED <<pageTarget, granule, call, opened, accepted, endsAt, pushed, orphan>>

FinishInPlace ==
  /\ call.op = "idle" /\ ~finished
  /\ finished' = TRUE
  /\ LET bare == <<[pkt |-> NoPacket, part |-> 0, lace |-> 0]>>
         segs == IF segments = <<>> THEN bare ELSE segments
         pg   == PageWith(FALSE, TRUE, pageGranule, segs)
     IN Written(pg, FALSE) \/ Refused(pg)
  /\ UNCHANGED <<pageTarget, granule, call, opened, accepted, endsAt, pushed, orphan>>

(***************************************************************************)
(* The specification.                                                      *)
(***************************************************************************)
Init ==
  /\ sink = <<>> /\ sequence = 0
  /\ pageTarget \in {Clamp(t, 1, MaxSegments * LaceMax) : t \in Targets}
  /\ segments = <<>> /\ payload = 0
  /\ granule = 0 /\ pageGranule = NoGranule
  /\ continued = FALSE /\ finished = FALSE
  /\ call = Pushing(0, HeadSize, 0)
  /\ opened = FALSE
  /\ accepted = <<>> /\ endsAt = [p \in 0 .. MaxPackets + 1 |-> NoGranule]
  /\ pushed = 1 /\ orphan = FALSE /\ failures = 0

Next ==
  \/ PushLace \/ PushLast \/ FlushMidPacket
  \/ FlushHead \/ FlushTags
  \/ \E bytes \in Targets : SetPageTarget(bytes)
  \/ \E size \in Sizes, dur \in Durations : WritePacket(size, dur)
  \/ WritePacketRefused
  \/ FinishInPlace

Spec == Init /\ [][Next]_vars

(***************************************************************************)
(* What the sink holds, read back.                                         *)
(***************************************************************************)
Completes(seg) == seg.lace < LaceMax /\ seg.pkt # NoPacket

(* The packets that segments, or a page, complete.                         *)
CompletedBy(segs) == {segs[i].pkt : i \in {j \in DOMAIN segs : Completes(segs[j])}}
CompletedOn(pg)   == CompletedBy(pg.segments)

EndsInsidePacket(pg) == pg.segments[Len(pg.segments)].lace = LaceMax

(* The audio packets that segments complete, in order, and those whose     *)
(* last segment is in the sink.                                            *)
AudioEnd(seg) == IF Completes(seg) /\ seg.pkt >= FirstAudio THEN <<seg.pkt>> ELSE <<>>
AudioOf(segs) ==
  LET audio[i \in 0 .. Len(segs)] ==
        IF i = 0 THEN <<>> ELSE audio[i - 1] \o AudioEnd(segs[i])
  IN audio[Len(segs)]

AudioOn(pg) == IF pg.whole THEN AudioOf(pg.segments) ELSE <<>>
StoredIn(pages) ==
  LET stored[i \in 0 .. Len(pages)] ==
        IF i = 0 THEN <<>> ELSE stored[i - 1] \o AudioOn(pages[i])
  IN stored[Len(pages)]

StoredPackets == StoredIn(sink)

(***************************************************************************)
(* Properties.                                                             *)
(***************************************************************************)
SegmentType == [pkt: Int, part: Nat, lace: 0 .. LaceMax]

PageType ==
  [whole: BOOLEAN, bos: BOOLEAN, eos: BOOLEAN, continued: BOOLEAN,
   granule: Int, sequence: Nat, segments: Seq(SegmentType) \ {<<>>}]

(* Every variable holds what its declaration says, the segment table never *)
(* outgrows a page, and the page target stays one a page can meet.         *)
TypeOK ==
  /\ sink \in Seq(PageType) /\ sequence \in Nat
  /\ pageTarget \in 1 .. MaxSegments * LaceMax
  /\ segments \in Seq(SegmentType) /\ Len(segments) <= MaxSegments
  /\ payload \in 0 .. MaxSegments * LaceMax
  /\ granule \in Nat /\ pageGranule \in Nat \cup {NoGranule}
  /\ continued \in BOOLEAN /\ finished \in BOOLEAN /\ opened \in BOOLEAN
  /\ call \in [op: {"idle", "push", "header"}, pkt: 0 .. MaxPackets + 1,
               part: Nat, left: Nat, dur: Nat]
  /\ accepted \in Seq(Nat) /\ endsAt \in [0 .. MaxPackets + 1 -> Int]
  /\ pushed \in 1 .. MaxPackets + 2
  /\ orphan \in BOOLEAN /\ failures \in 0 .. MaxFailures

(* The whole pages in the sink are numbered 0, 1, 2, ... with no gap and   *)
(* no repeat, however many writes were refused and retried in between: the *)
(* page after a whole one takes the next number, the page after a torn one *)
(* (its retry) takes the same number again.                                *)
PagesNumbered ==
  \A i \in DOMAIN sink :
    sink[i].sequence =
      IF i = 1 THEN 0
      ELSE sink[i - 1].sequence + (IF sink[i - 1].whole THEN 1 ELSE 0)

(* A page says it resumes a packet exactly when the page before it stopped *)
(* inside one - the test OggOpusReader::read_page applies - and the retry  *)
(* of a torn page repeats its claim.  It can only fail after the sink      *)
(* refused a write in the middle of a packet.                              *)
ContinuationExact ==
  ~orphan =>
    \A i \in DOMAIN sink :
      sink[i].continued <=>
        /\ i > 1
        /\ IF sink[i - 1].whole THEN EndsInsidePacket(sink[i - 1])
                                ELSE sink[i - 1].continued

(* A page's granule is the count of samples through the last packet that   *)
(* completes on it, and -1 when none does: never the running count of a    *)
(* packet that is still being pushed, nor that of a page already written.  *)
(* (A constructor that fails drops its half-built writer, which then ends  *)
(* the stream on a header page with granule -1.)                           *)
GranuleIsOfLastCompleted ==
  opened => \A i \in DOMAIN sink :
    LET done == CompletedOn(sink[i])
    IN IF done = {}
       THEN sink[i].granule = NoGranule
       ELSE \E p \in done : /\ sink[i].granule = endsAt[p]
                            /\ \A q \in done : q <= p

(* Nothing follows the end-of-stream page, and when audio was written and  *)
(* no packet was cut, it completes the last packet and carries the final   *)
(* granule: the end-trim has nowhere else to go.                           *)
EosClosesTheStream ==
  \A i \in DOMAIN sink :
    sink[i].eos =>
      /\ i = Len(sink) /\ finished
      /\ (~orphan /\ accepted # <<>>) =>
            /\ sink[i].granule = granule
            /\ accepted[Len(accepted)] \in CompletedOn(sink[i])

(* The muxer implements a log of packets: what is in the sink is always a  *)
(* prefix of what write_packet accepted, it only grows, and finishing      *)
(* leaves nothing behind unless the sink refused a write.                  *)
Log == INSTANCE PacketLog WITH
         Packet <- 0 .. MaxPackets + 1, log <- accepted, stored <- StoredPackets,
         closed <- finished, failed <- failures > 0

ImplementsLog == Log!LogSpec
=============================================================================
