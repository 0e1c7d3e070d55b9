---------------------------- MODULE MCOggReader ----------------------------
(* Sources for the demuxer: a few well-formed streams, laid out the way    *)
(* the muxer lays them out, and every way of damaging one page of them.    *)
(* Lacing values stop at 2, a packet at 7 bytes.                           *)
EXTENDS OggReader

Seg(pkt, part, lace) == [pkt |-> pkt, part |-> part, lace |-> lace]
Laces(pkt, from, n)  == [i \in 1 .. n |-> Seg(pkt, from + i - 1, 2)]

Page(flags, link, granule, segs) ==
  [damage |-> "none", lands |-> AtPage(1), bos |-> "bos" \in flags,
   eos |-> "eos" \in flags, continued |-> "cont" \in flags, serial |-> link,
   granule |-> granule, segs |-> segs]

HeadPage(link) == Page({"bos"}, link, 0, <<Seg(HeadPkt, 0, 1)>>)
TagsPage(link) == Page({}, link, 0, <<Seg(TagsPkt, 0, 1)>>)
Headers(link)  == <<HeadPage(link), TagsPage(link)>>

(* Two packets on a page, then one that ends the stream.                   *)
Plain == Headers(1) \o
  <<Page({}, 1, 2, <<Seg(2, 0, 1), Seg(3, 0, 1)>>),
    Page({"eos"}, 1, 3, <<Seg(4, 0, 1)>>)>>

(* A packet over three pages, one over two, tags over two.                 *)
Spanning ==
  <<HeadPage(1),
    Page({}, 1, -1, Laces(TagsPkt, 0, 2)),
    Page({"cont"}, 1, 0, <<Seg(TagsPkt, 2, 1)>>),
    Page({}, 1, 1, <<Seg(2, 0, 1)>> \o Laces(3, 0, 1)),
    Page({"cont"}, 1, -1, Laces(3, 1, 1)),
    Page({"cont"}, 1, 2, <<Seg(3, 2, 1)>> \o Laces(4, 0, 1)),
    Page({"cont", "eos"}, 1, 3, <<Seg(4, 1, 0)>>)>>

(* No audio but a bare end-of-stream page; a bare page after the audio; an *)
(* empty packet after the last.                                            *)
Silent  == Headers(1) \o <<Page({"eos"}, 1, -1, <<Seg(2, 0, 0)>>)>>
BareEos == Headers(1) \o
  <<Page({}, 1, 1, <<Seg(2, 0, 1)>>), Page({"eos"}, 1, -1, <<Seg(3, 0, 0)>>)>>
Trailing == Headers(1) \o
  <<Page({"eos"}, 1, 1, <<Seg(2, 0, 1), Seg(3, 0, 0)>>)>>

(* The stream ends inside a packet; ends with its headers; has no end.     *)
CutPacket == Headers(1) \o
  <<Page({"eos"}, 1, 1, <<Seg(2, 0, 1)>> \o Laces(3, 0, 1))>>
HeadersOnly == <<HeadPage(1), [TagsPage(1) EXCEPT !.eos = TRUE],
                 Page({}, 1, 1, <<Seg(2, 0, 1)>>)>>
Endless == Headers(1) \o <<Page({}, 1, 1, <<Seg(2, 0, 1)>>)>>

(* A packet longer than the limit, between two that are not.               *)
Oversize == Headers(1) \o
  <<Page({}, 1, 1, <<Seg(2, 0, 1)>> \o Laces(3, 0, 2)),
    Page({"cont"}, 1, 2, Laces(3, 2, 2) \o <<Seg(3, 4, 1), Seg(4, 0, 1)>>),
    Page({"eos"}, 1, 3, <<Seg(5, 0, 1)>>)>>

(* Streams that are refused: audio on the tags' page, no tags, no header.  *)
SharedPage == <<HeadPage(1), Page({}, 1, 1, <<Seg(TagsPkt, 0, 1), Seg(2, 0, 1)>>)>>
NoTags     == <<HeadPage(1), Page({"eos"}, 1, 1, <<Seg(2, 0, 1)>>)>>
NoHead     == <<Page({"bos"}, 1, 1, <<Seg(2, 0, 1)>>)>>

(* A second logical stream after the end of the first, between its pages,  *)
(* and after a first one that has no end-of-stream page.                   *)
Appended    == Plain \o Headers(2)
Multiplexed == Headers(1) \o
  <<Page({}, 1, 1, <<Seg(2, 0, 1)>> \o Laces(3, 0, 1)),
    Page({}, 2, 7, <<Seg(8, 0, 1)>>),
    Page({"cont", "eos"}, 1, 2, <<Seg(3, 1, 1)>>)>>
Chained == Endless \o Headers(2) \o <<Page({"eos"}, 2, 1, <<Seg(8, 0, 1)>>)>>

Whole == {Plain, Spanning, Silent, BareEos, Trailing, CutPacket, HeadersOnly,
          Endless, Oversize, SharedPage, NoTags, NoHead, Appended, Multiplexed}

(* Damage.                                                                 *)
FlipAt(s, p, lands) == [s EXCEPT ![p].damage = "flipped", ![p].lands = lands]
Flipped(s) ==
  {FlipAt(s, p, AtPage(p + 1)) : p \in DOMAIN s}
    \cup {FlipAt(s, p, InsidePage(q)) : p \in DOMAIN s, q \in DOMAIN s}
Landed(s) == {d \in Flipped(s) :
                \A p \in DOMAIN d : d[p].damage = "flipped" => d[p].lands.page >= p}
Cut(s) == {SubSeq(s, 1, p) : p \in 0 .. Len(s)}
            \cup {[SubSeq(s, 1, p) EXCEPT ![p].damage = "cut"] : p \in DOMAIN s}
Junk == [HeadPage(1) EXCEPT !.damage = "junk"]
Junked(s) == {SubSeq(s, 1, p) \o <<Junk>> \o SubSeq(s, p + 1, Len(s)) : p \in 0 .. Len(s)}
Uncaptured(s) == {[s EXCEPT ![p].damage = "capture"] : p \in DOMAIN s}

MCChained == {Chained}

MCSources == Whole \cup UNION {Landed(s) \cup Cut(s) \cup Junked(s) \cup Uncaptured(s) : s \in {Plain, Spanning}}
=============================================================================
