----------------------------- MODULE OggReader -----------------------------
(***************************************************************************)
(* The Ogg Opus demuxer (OggOpusReader).                                   *)
(*                                                                         *)
(* The source is a sequence of pages, each whole or damaged in one way; a  *)
(* call of next_packet runs as steps, one per page it reads, until it has  *)
(* an answer.  A packet is the sequence of lacing segments it was put      *)
(* together from, so that a packet spliced from two can be told from a     *)
(* genuine one.  What the reader has answered is kept as history, this     *)
(* pass and the pass before the last rewind.                               *)
(***************************************************************************)
EXTENDS Integers, SequencesExt, FiniteSetsExt

CONSTANTS
  Sources,          \* the sequences of pages a source may hold
  LaceMax,          \* the lacing value that says "more follows" (255)
  MaxPacketBytes,   \* MAX_OGG_PACKET_BYTES
  MaxAnswers,       \* bound: calls the caller makes in a pass
  MaxRewinds,       \* bound: calls of rewind
  MaxIoFailures     \* bound: reads the source fails

ASSUME LacingAssumption == LaceMax \in Nat \ {0} /\ MaxPacketBytes \in Nat
ASSUME BoundAssumption  == {MaxAnswers, MaxRewinds, MaxIoFailures} \subseteq Nat

VARIABLES
  source,         \* the pages being read
  pos,            \* the page the source stands at, or inside
  stage,          \* which header the constructor wants, or "audio", "refused"
  serial,         \* serial number of the logical stream
  pending,        \* segments of the packet still being reassembled
  ready,          \* completed packets not yet handed out (packets, ends, taken)
  pageGranule,    \* granule of the last page read
  lastIsEos,      \* the last ready packet completed the final page
  sawEos,         \* the last page carried the end-of-stream flag
  exhausted,      \* the source returned end of file
  audioStart,     \* where the first audio page starts
  audioStartEos,  \* sawEos as it stood there
  calling,        \* next_packet is running
  answers,        \* history: what this pass has answered
  firstPass,      \* history: what the pass before the rewind answered
  rewinds,        \* history: calls of rewind
  ioFailures      \* history: reads the source failed

buffers == <<pending, ready, pageGranule, lastIsEos, sawEos, exhausted>>
start   == <<audioStart, audioStartEos>>
history == <<firstPass, rewinds, ioFailures>>
vars == <<source, pos, stage, serial, buffers, start, calling, answers, history>>

(***************************************************************************)
(* Pages.  damage is "none"; "flipped", a bit of the page is wrong and its *)
(* capture pattern is not, so that the page is refused (usually by its     *)
(* CRC) and the reader then stands where `lands' says, a flipped lacing    *)
(* value having misled it about the page's length; "capture", the capture  *)
(* pattern itself is wrong; "cut", the source ends inside the page; or     *)
(* "junk", RESYNC_LIMIT bytes or more without a capture pattern.           *)
(***************************************************************************)
Positions == [page : Nat \ {0}, inside : BOOLEAN]
Segments == [pkt : Nat, part : Nat, lace : 0 .. LaceMax]
Pages ==
  [damage : {"none", "flipped", "capture", "cut", "junk"}, lands : Positions,
   bos : BOOLEAN, eos : BOOLEAN, continued : BOOLEAN, serial : Nat, granule : Int,
   segs : Seq(Segments)]

ASSUME SourceAssumption == Sources \subseteq Seq(Pages)

AtPage(p)     == [page |-> p, inside |-> FALSE]
InsidePage(p) == [page |-> p, inside |-> TRUE]
SourceEnd     == AtPage(Len(source) + 1)

(* Where read_page_header stops from here: at the page it stands on, else  *)
(* at the next one whose capture pattern the window finds, else at the end *)
(* of the source.                                                          *)
Found ==
  LET from == IF pos.inside THEN pos.page + 1 ELSE pos.page
      hits == {p \in from .. Len(source) : source[p].damage # "capture"}
  IN IF hits = {} THEN Len(source) + 1 ELSE Min(hits)

(***************************************************************************)
(* Packets.                                                                *)
(***************************************************************************)
Bytes(packet) ==
  LET sum[n \in 0 .. Len(packet)] == IF n = 0 THEN 0 ELSE sum[n - 1] + packet[n].lace
  IN sum[Len(packet)]

(* A packet as it was written: one packet's segments, from the first on.   *)
Genuine(packet) ==
  /\ packet # <<>>
  /\ \A i \in DOMAIN packet : packet[i].pkt = packet[1].pkt /\ packet[i].part = i - 1

HeadPkt == 0    \* the packet OpusHead::parse accepts
TagsPkt == 1    \* the packet OpusTags::parse accepts

(* read_page's walk over the segment table, from the packet left pending:  *)
(* a segment below LaceMax completes a packet, an empty one is dropped,    *)
(* and one that outgrows the limit ends the walk.                          *)
TakeSegment(walk, seg) ==
  LET grown == Append(walk.partial, seg)
  IN IF walk.over THEN walk
     ELSE IF Bytes(grown) > MaxPacketBytes
       THEN [walk EXCEPT !.partial = <<>>, !.over = TRUE, !.ended = FALSE]
     ELSE IF seg.lace = LaceMax
       THEN [walk EXCEPT !.partial = grown, !.ended = FALSE]
     ELSE IF Bytes(grown) = 0
       THEN [walk EXCEPT !.partial = <<>>, !.ended = FALSE]
     ELSE [walk EXCEPT !.done = Append(@, grown), !.partial = <<>>, !.ended = TRUE]

Split(partial, segs) ==
  LET walk[n \in 0 .. Len(segs)] ==
        IF n = 0 THEN [done |-> <<>>, partial |-> partial, over |-> FALSE, ended |-> FALSE]
        ELSE TakeSegment(walk[n - 1], segs[n])
  IN walk[Len(segs)]

(***************************************************************************)
(* Answers.  An error ends the call, and ends the constructor for good.    *)
(***************************************************************************)
Packet(segs, granule, eos) ==
  [kind |-> "packet", segs |-> segs, granule |-> granule, eos |-> eos]
Error == [kind |-> "error", segs |-> <<>>, granule |-> -1, eos |-> FALSE]
End   == [kind |-> "end", segs |-> <<>>, granule |-> -1, eos |-> FALSE]

Answer(a) ==
  /\ calling' = FALSE
  /\ IF stage = "audio"
     THEN answers' = Append(answers, a) /\ UNCHANGED stage
     ELSE stage' = "refused" /\ UNCHANGED answers

(***************************************************************************)
(* next_packet.                                                            *)
(***************************************************************************)
Drained == calling /\ ready = <<>>
Over == sawEos \/ exhausted

(* A packet is ready: the constructor parses the first two, the caller     *)
(* gets the others.  The tags must finish their page.                      *)
TakePacket ==
  /\ calling /\ ready # <<>>
  /\ ready' = Tail(ready)
  /\ LET packet == ready[1]
         parses(pkt) == Genuine(packet) /\ packet[1].pkt = pkt
     IN CASE stage = "audio" ->
               /\ Answer(Packet(packet, pageGranule, lastIsEos /\ ready' = <<>>))
               /\ UNCHANGED start
          [] stage = "head" ->
               /\ stage' = IF parses(HeadPkt) THEN "tags" ELSE "refused"
               /\ calling' = (stage' = "tags")
               /\ UNCHANGED <<answers, start>>
          [] stage = "tags" ->
               /\ stage' = IF parses(TagsPkt) /\ ready' = <<>> /\ pending = <<>>
                           THEN "audio" ELSE "refused"
               /\ calling' = FALSE
               /\ audioStart' = pos /\ audioStartEos' = sawEos
               /\ UNCHANGED answers
  /\ UNCHANGED <<source, pos, serial, pending, pageGranule, lastIsEos, sawEos,
                 exhausted, history>>

(* The stream is over.  A packet it cut off is reported, once.             *)
(* (Mutant: it is never cleared.)                                          *)
StreamIsOverForgetful ==
  /\ Drained /\ Over
  /\ Answer(IF pending = <<>> THEN End ELSE Error)
  /\ UNCHANGED <<source, pos, serial, buffers, start, history>>

StreamIsOver ==
  /\ Drained /\ Over
  /\ Answer(IF pending = <<>> THEN End ELSE Error)
  /\ pending' = <<>>
  /\ UNCHANGED <<source, pos, serial, ready, pageGranule, lastIsEos, sawEos,
                 exhausted, start, history>>

(***************************************************************************)
(* read_page, by what it meets.  It starts with no ready packet left, and  *)
(* whatever it meets the last packet's end-of-stream mark is gone.         *)
(***************************************************************************)
Reading == Drained /\ ~Over

(* End of file on a page boundary ends the stream.                         *)
ReadEof ==
  /\ Reading
  /\ pos = SourceEnd
  /\ exhausted' = TRUE
  /\ lastIsEos' = FALSE
  /\ UNCHANGED <<source, pos, stage, serial, pending, ready, pageGranule, sawEos,
                 start, calling, answers, history>>

(* End of file inside a page, or no capture pattern within the limit.      *)
ReadNoPage ==
  /\ Reading
  /\ pos # SourceEnd
  /\ IF Found > Len(source)
     THEN pos' = SourceEnd
     ELSE /\ source[Found].damage \in {"cut", "junk"}
          /\ pos' = AtPage(Found + 1)
  /\ Answer(Error)
  /\ lastIsEos' = FALSE
  /\ UNCHANGED <<source, serial, pending, ready, pageGranule, sawEos, exhausted,
                 start, history>>

(* A page that does not check.  (Mutant: it is skipped in silence.)        *)
SkipFlippedPage ==
  /\ Reading
  /\ Found <= Len(source) /\ source[Found].damage = "flipped"
  /\ pos' = source[Found].lands
  /\ lastIsEos' = FALSE
  /\ UNCHANGED <<source, stage, serial, pending, ready, pageGranule, sawEos,
                 exhausted, start, calling, answers, history>>

ReadFlippedPage ==
  /\ Reading
  /\ Found <= Len(source) /\ source[Found].damage = "flipped"
  /\ pos' = source[Found].lands
  /\ Answer(Error)
  /\ lastIsEos' = FALSE
  /\ UNCHANGED <<source, serial, pending, ready, pageGranule, sawEos, exhausted,
                 start, history>>

(* A page that checks.  A first page names the stream, whichever stream    *)
(* was being read; a page of another stream is refused and what is pending *)
(* kept; one that disagrees about a pending packet is refused, and the     *)
(* packet dropped.  (Mutant: the two are not compared.)                    *)
Belongs(pg) == pg.bos \/ pg.serial = serial
ContinuesUnchecked(pg) == TRUE
Continues(pg) == pg.continued <=> pending # <<>>

ReadPage ==
  /\ Reading
  /\ Found <= Len(source) /\ source[Found].damage = "none"
  /\ pos' = AtPage(Found + 1)
  /\ LET pg   == source[Found]
         walk == Split(pending, pg.segs)
     IN /\ serial' = IF pg.bos THEN pg.serial ELSE serial
        /\ IF Belongs(pg) /\ Continues(pg)
           THEN /\ sawEos' = pg.eos
                /\ pageGranule' = pg.granule
                /\ ready' = walk.done
                /\ pending' = walk.partial
                /\ lastIsEos' = (pg.eos /\ walk.ended)
                /\ IF walk.over
                   THEN Answer(Error)
                   ELSE UNCHANGED <<stage, calling, answers>>
           ELSE /\ Answer(Error)
                /\ pending' = IF Belongs(pg) THEN <<>> ELSE pending
                /\ lastIsEos' = FALSE
                /\ UNCHANGED <<ready, pageGranule, sawEos>>
  /\ UNCHANGED <<source, exhausted, start, history>>

(* The source fails a read: before it gave a byte, or inside any page the  *)
(* reader was taking or scanning over, whose bytes so far are lost.        *)
IoFails ==
  /\ Reading
  /\ ioFailures < MaxIoFailures
  /\ ioFailures' = ioFailures + 1
  /\ pos' \in {pos} \cup {InsidePage(p) : p \in pos.page .. Min({Found, Len(source)})}
  /\ Answer(Error)
  /\ lastIsEos' = FALSE
  /\ UNCHANGED <<source, serial, pending, ready, pageGranule, sawEos, exhausted,
                 start, firstPass, rewinds>>

(***************************************************************************)
(* The caller.                                                             *)
(***************************************************************************)
Holding == stage = "audio" /\ ~calling

Read ==
  /\ Holding
  /\ Len(answers) < MaxAnswers
  /\ calling' = TRUE
  /\ UNCHANGED <<source, pos, stage, serial, buffers, start, answers, history>>

(* rewind: back to the first audio page, with nothing pending.  (Mutant:   *)
(* the end of the stream is remembered.)                                   *)
RewindStillOver ==
  /\ Holding
  /\ rewinds < MaxRewinds
  /\ pos' = audioStart
  /\ pending' = <<>> /\ ready' = <<>>
  /\ lastIsEos' = FALSE
  /\ exhausted' = FALSE
  /\ answers' = <<>> /\ firstPass' = answers
  /\ rewinds' = rewinds + 1
  /\ UNCHANGED <<source, stage, serial, pageGranule, sawEos, start, calling, ioFailures>>

Rewind ==
  /\ Holding
  /\ rewinds < MaxRewinds
  /\ pos' = audioStart
  /\ pending' = <<>> /\ ready' = <<>>
  /\ lastIsEos' = FALSE
  /\ sawEos' = audioStartEos
  /\ exhausted' = FALSE
  /\ answers' = <<>> /\ firstPass' = answers
  /\ rewinds' = rewinds + 1
  /\ UNCHANGED <<source, stage, serial, pageGranule, start, calling, ioFailures>>

(***************************************************************************)
(* The specification.  A call runs to its answer on its caller's thread,   *)
(* and liveness is about a caller that keeps calling.                      *)
(***************************************************************************)
Init ==
  /\ source \in Sources
  /\ pos = AtPage(1)
  /\ stage = "head" /\ serial = 0
  /\ pending = <<>> /\ ready = <<>>
  /\ pageGranule = -1
  /\ lastIsEos = FALSE /\ sawEos = FALSE /\ exhausted = FALSE
  /\ audioStart = AtPage(1) /\ audioStartEos = FALSE
  /\ calling = TRUE
  /\ answers = <<>> /\ firstPass = <<>>
  /\ rewinds = 0 /\ ioFailures = 0

Step == \/ TakePacket \/ StreamIsOver
        \/ ReadEof \/ ReadNoPage \/ ReadFlippedPage \/ ReadPage

Next == Step \/ IoFails \/ Read \/ Rewind

Spec == Init /\ [][Next]_vars /\ WF_vars(Step) /\ WF_vars(Read)

(***************************************************************************)
(* What a source holds: its packets up to the first damaged page or the    *)
(* page that ends the stream, cut from the segments of all its pages laid  *)
(* in a row.  A place is <<page, index into its segments>>; a packet goes  *)
(* by the place in the row of the segment it ends with.                    *)
(***************************************************************************)
Stops(pages, p) == pages[p].damage # "none" \/ (p > 1 /\ pages[p - 1].eos)

IntactPages(pages) ==
  LET stops == {p \in DOMAIN pages : Stops(pages, p)}
  IN IF stops = {} THEN Len(pages) ELSE Min(stops) - 1

Places(pages) ==
  FlattenSeq([p \in 1 .. IntactPages(pages) |-> [i \in DOMAIN pages[p].segs |-> <<p, i>>]])

Row(pages, at) == [k \in DOMAIN at |-> pages[at[k][1]].segs[at[k][2]]]

BeginsAt(row, k) ==
  LET before == {j \in 1 .. k - 1 : row[j].lace < LaceMax}
  IN IF before = {} THEN 1 ELSE Max(before) + 1

PacketEnds(row) ==
  {k \in DOMAIN row : row[k].lace < LaceMax /\ (BeginsAt(row, k) < k \/ row[k].lace > 0)}

EndsUpTo(row, k) == {j \in PacketEnds(row) : j <= k}
NthEnd(row, n) == CHOOSE k \in PacketEnds(row) : Cardinality(EndsUpTo(row, k)) = n

PacketTo(pages, at, row, k) ==
  LET pg == pages[at[k][1]]
  IN Packet(SubSeq(row, BeginsAt(row, k), k), pg.granule,
            pg.eos /\ at[k][2] = Len(pg.segs))

SourcePackets(pages) ==
  LET at  == Places(pages)
      row == Row(pages, at)
  IN [n \in 1 .. Cardinality(PacketEnds(row)) |-> PacketTo(pages, at, row, NthEnd(row, n))]

AudioPackets(pages) == SubSeq(SourcePackets(pages), 3, Len(SourcePackets(pages)))

(***************************************************************************)
(* Properties.                                                             *)
(***************************************************************************)
Errored == \E i \in DOMAIN answers : answers[i] = Error
Ended   == \E i \in DOMAIN answers : answers[i] = End

(* "a truncated or corrupt file should not decode as if it were fine"      *)
(* (reader.rs:79-80).  Until a pass reports an error, it has delivered the *)
(* source's audio packets from the first one on, whole, in order, each     *)
(* with the granule of the page it completes on, and marked as the end     *)
(* where it is; it tells of the end after the last of them and of nothing  *)
(* but the end from there on, and only of a source with no damaged page    *)
(* before the one that ends it.  A page whose capture pattern is damaged   *)
(* is not noticed: it is scanned over like junk (read_page_header).        *)
PassedOver == \E p \in DOMAIN source : source[p].damage = "capture"

FaithfulUntilError ==
  ~Errored /\ ~PassedOver =>
    LET audio  == AudioPackets(source)
        intact == IntactPages(source)
    IN /\ \A n \in DOMAIN answers : answers[n] = IF n \in DOMAIN audio THEN audio[n] ELSE End
       /\ Ended => \A p \in DOMAIN source : p > intact => \/ source[p].damage = "none"
                                                         \/ source[intact].eos

(* What of a packet follows a segment, and whether that was damaged.       *)
GoesOn(seg, other) == other.pkt = seg.pkt /\ other.part = seg.part + 1
RestIsLost(seg) ==
  \A p \in DOMAIN source :
    (\E i \in DOMAIN source[p].segs : GoesOn(seg, source[p].segs[i]))
      => source[p].damage # "none"
WholeOrSpliced(segs) ==
  /\ segs[1].part = 0
  /\ \A i \in 1 .. Len(segs) - 1 : GoesOn(segs[i], segs[i + 1]) \/ RestIsLost(segs[i])

(* Whatever is damaged, and while no read has failed: a delivered packet   *)
(* begins at a packet's first segment, and where two of its segments do    *)
(* not belong together, the page that held the missing one was damaged     *)
(* (read_page's check of the continuation flag).                           *)
SplicedOnlyOverLostPages ==
  ioFailures = 0 =>
    \A n \in DOMAIN answers :
      answers[n].kind = "packet" => WholeOrSpliced(answers[n].segs)

(* "as if the reader had just been constructed" (rewind, reader.rs:478):   *)
(* a pass after a rewind repeats the answers of the one before.            *)
RewindReplays ==
  ioFailures = 0 =>
    \A i \in DOMAIN answers \cap DOMAIN firstPass : answers[i] = firstPass[i]

(* No error repeats for ever: a caller that keeps reading is told the      *)
(* stream has ended, or was refused a reader.                              *)
EndIsReached == <>(stage = "refused" \/ Ended)
=============================================================================
