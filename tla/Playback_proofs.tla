-------------------------- MODULE Playback_proofs --------------------------
(***************************************************************************)
(* What a player makes of a stream.  First the decoder's control, for      *)
(* every set of packets and every loss: what SILK predicts from, what      *)
(* CELT's audio is joined onto, and what bridges a switch between them.    *)
(*                                                                         *)
(* Then which samples come out: Trim for every pre-skip, every packet      *)
(* length and every granule; and the recipe of examples/encode.rs, for     *)
(* every clip, rate and pre-skip: the last packet's duration always fits,  *)
(* whatever file is decoded the loop of examples/decode.rs is a behaviour  *)
(* of Trim, and the clip comes back.                                       *)
(***************************************************************************)
EXTENDS Decoder, Gapless, FiniteSetTheorems, TLAPS


(***************************************************************************)
(* What every decoder has.                                                 *)
(***************************************************************************)
IsDecoder(d) ==
  /\ DOMAIN d = {"prevMode", "prevRedundancy", "lastDuration", "celtEndBand", "silkRate",
                 "resamplerRate", "silkChannels", "mid", "side", "celt"}
  /\ d.prevMode \in Modes \cup {"none"}
  /\ d.prevRedundancy \in BOOLEAN
  /\ d.silkChannels \in {1, 2}

LEMMA NewDecoderFact ==
  ASSUME channels \in {1, 2}
  PROVE
  /\ IsDecoder(NewDecoder) /\ ~SilkContinuesStale(NewDecoder)
  /\ NewDecoder.prevMode = "none" /\ NewDecoder.prevRedundancy = FALSE
  /\ NewDecoder.celt = "fresh"
BY DEF NewDecoder, IsDecoder, SilkContinuesStale

(* What leaves the mode, the promise and CELT's history alone, and SILK    *)
(* with no more from before a gap than it had.                             *)
Keeps(d, r) ==
  /\ IsDecoder(r)
  /\ r.prevMode = d.prevMode /\ r.prevRedundancy = d.prevRedundancy
  /\ SilkContinuesStale(r) => SilkContinuesStale(d)

LEMMA SilkRunsFact ==
  ASSUME NEW d, IsDecoder(d)
  PROVE  /\ Keeps(d, SilkRuns(d)) /\ SilkRuns(d).celt = d.celt
         /\ ~SilkContinuesStale(SilkRuns(d))
<1>. DEFINE r == SilkRuns(d)
<1>1. /\ IsDecoder(r) /\ r.prevMode = d.prevMode /\ r.prevRedundancy = d.prevRedundancy
      /\ r.celt = d.celt /\ r.silkChannels = d.silkChannels
      /\ r.mid = "current"
      /\ d.silkChannels = 2 => r.side = "current"
  BY DEF SilkRuns, IsDecoder
<1>. HIDE DEF r
<1>2. ~SilkContinuesStale(r)
  BY <1>1 DEF SilkContinuesStale
<1>. QED
  BY <1>1, <1>2 DEF r, Keeps

LEMMA SetupRateFact ==
  ASSUME NEW d, IsDecoder(d), NEW rate
  PROVE  Keeps(d, SetupSilkRate(d, rate)) /\ SetupSilkRate(d, rate).celt = d.celt
<1>. DEFINE q == SetupSilkRate(d, rate)
<1>1. /\ IsDecoder(q) /\ q.prevMode = d.prevMode /\ q.prevRedundancy = d.prevRedundancy
      /\ q.celt = d.celt /\ q.silkChannels = d.silkChannels
      /\ q.mid = d.mid /\ q.side = d.side
  BY DEF SetupSilkRate, IsDecoder
<1>. HIDE DEF q
<1>2. SilkContinuesStale(q) => SilkContinuesStale(d)
  BY <1>1 DEF SilkContinuesStale
<1>. QED
  BY <1>1, <1>2 DEF q, Keeps

LEMMA SetupChannelsFact ==
  ASSUME NEW d, IsDecoder(d), NEW count \in {1, 2}
  PROVE  /\ Keeps(d, SetupSilkChannels(d, count))
         /\ SetupSilkChannels(d, count).celt = d.celt
<1>. DEFINE r == SetupSilkChannels(d, count)
<1>1. /\ IsDecoder(r) /\ r.prevMode = d.prevMode /\ r.prevRedundancy = d.prevRedundancy
      /\ r.celt = d.celt /\ r.silkChannels = count /\ r.mid = d.mid
      /\ r.side = IF count > d.silkChannels THEN "fresh" ELSE d.side
  BY DEF SetupSilkChannels, IsDecoder
<1>. HIDE DEF r
<1>2. SilkContinuesStale(r) => SilkContinuesStale(d)
  BY <1>1 DEF SilkContinuesStale, IsDecoder
<1>. QED
  BY <1>1, <1>2 DEF r, Keeps

LEMMA SetupFact ==
  ASSUME NEW d, IsDecoder(d), NEW rate, NEW count \in {1, 2}
  PROVE  Keeps(d, SetupSilkChannels(SetupSilkRate(d, rate), count))
BY SetupRateFact, SetupChannelsFact DEF Keeps

(* SILK starts over after CELT.                                            *)
LEMMA ResetSilkFact ==
  ASSUME NEW d, IsDecoder(d)
  PROVE  LET r == ResetSilkAfterCeltOnly(d)
         IN /\ Keeps(d, r) /\ r.celt = d.celt
            /\ d.prevMode = "celt" => ~SilkContinuesStale(r)
<1>. DEFINE r == ResetSilkAfterCeltOnly(d)
<1>1. CASE d.prevMode = "celt"
  <2>1. /\ IsDecoder(r) /\ r.prevMode = d.prevMode /\ r.prevRedundancy = d.prevRedundancy
        /\ r.celt = d.celt /\ r.mid = "fresh" /\ r.side = "fresh"
    BY <1>1 DEF ResetSilkAfterCeltOnly, IsDecoder
  <2>. HIDE DEF r
  <2>2. ~SilkContinuesStale(r)
    BY <2>1 DEF SilkContinuesStale
  <2>. QED
    BY <2>1, <2>2 DEF r, Keeps
<1>2. CASE d.prevMode # "celt"
  BY <1>2 DEF ResetSilkAfterCeltOnly, Keeps
<1>. QED
  BY <1>1, <1>2

LEMMA CeltDecodesFact ==
  ASSUME NEW d, IsDecoder(d), NEW what
  PROVE  Keeps(d, CeltDecodes(d, what)) /\ CeltDecodes(d, what).celt = what
<1>. DEFINE r == CeltDecodes(d, what)
<1>1. /\ IsDecoder(r) /\ r.prevMode = d.prevMode /\ r.prevRedundancy = d.prevRedundancy
      /\ r.silkChannels = d.silkChannels /\ r.mid = d.mid /\ r.side = d.side /\ r.celt = what
  BY DEF CeltDecodes, IsDecoder
<1>. HIDE DEF r
<1>2. SilkContinuesStale(r) => SilkContinuesStale(d)
  BY <1>1 DEF SilkContinuesStale
<1>. QED
  BY <1>1, <1>2 DEF r, Keeps

LEMMA CeltConcealsFact ==
  ASSUME NEW d, IsDecoder(d), NEW mode
  PROVE  Keeps(d, CeltConceals(d, mode))
<1>. DEFINE r == CeltConceals(d, mode)
<1>1. /\ IsDecoder(r) /\ r.prevMode = d.prevMode /\ r.prevRedundancy = d.prevRedundancy
      /\ r.silkChannels = d.silkChannels /\ r.mid = d.mid /\ r.side = d.side
  BY DEF CeltConceals, IsDecoder
<1>. HIDE DEF r
<1>2. SilkContinuesStale(r) => SilkContinuesStale(d)
  BY <1>1 DEF SilkContinuesStale
<1>. QED
  BY <1>1, <1>2 DEF r, Keeps

(* Other fields than SILK's may change.                                    *)
LEMMA SameSilk ==
  ASSUME NEW d, NEW r, r.silkChannels = d.silkChannels, r.mid = d.mid, r.side = d.side
  PROVE  SilkContinuesStale(r) <=> SilkContinuesStale(d)
BY DEF SilkContinuesStale

(* Concealment goes over to the mode concealed, and runs SILK if it is one *)
(* of SILK's.                                                              *)
LEMMA PlcFact ==
  ASSUME NEW d, IsDecoder(d), NEW length
  PROVE  LET r == Plc(d, length)
         IN /\ IsDecoder(r) /\ r.prevRedundancy = d.prevRedundancy
            /\ r.prevMode \in {d.prevMode, ConcealMode(d)}
            /\ SilkContinuesStale(r) => SilkContinuesStale(d)
<1>. DEFINE mode  == ConcealMode(d)
            ready == [d EXCEPT !.resamplerRate = d.silkRate]
            silky == IF mode \in SilkModes THEN SilkRuns(ready) ELSE d
            both  == IF mode = "silk" THEN silky ELSE CeltConceals(silky, mode)
            r     == IF d.prevMode = "none" THEN d ELSE [both EXCEPT !.prevMode = mode]
<1>1. mode \in Modes \cup {"none"} /\ (d.prevMode # "none" => mode \in Modes)
  BY DEF ConcealMode, IsDecoder, Modes
<1>. HIDE DEF mode
<1>2. Keeps(d, ready)
  <2>1. /\ IsDecoder(ready) /\ ready.prevMode = d.prevMode
        /\ ready.prevRedundancy = d.prevRedundancy
        /\ ready.silkChannels = d.silkChannels /\ ready.mid = d.mid /\ ready.side = d.side
    BY DEF IsDecoder
  <2>. HIDE DEF ready
  <2>. QED
    BY <2>1, SameSilk DEF Keeps
<1>. HIDE DEF ready
<1>3. Keeps(d, silky)
  <2>1. Keeps(d, d)
    BY DEF Keeps
  <2>2. Keeps(ready, SilkRuns(ready))
    BY <1>2, SilkRunsFact DEF Keeps
  <2>3. Keeps(d, SilkRuns(ready))
    BY <1>2, <2>2 DEF Keeps
  <2>. QED
    BY <2>1, <2>3
<1>. HIDE DEF silky
<1>4. Keeps(d, both)
  <2>1. Keeps(silky, CeltConceals(silky, mode))
    BY <1>3, CeltConcealsFact DEF Keeps
  <2>2. Keeps(d, CeltConceals(silky, mode))
    BY <1>3, <2>1 DEF Keeps
  <2>. QED
    BY <1>3, <2>2
<1>. HIDE DEF both
<1>5. /\ IsDecoder(r) /\ r.prevRedundancy = d.prevRedundancy
      /\ r.prevMode \in {d.prevMode, mode}
      /\ SilkContinuesStale(r) => SilkContinuesStale(d)
  <2>1. CASE d.prevMode = "none"
    BY <2>1
  <2>2. CASE d.prevMode # "none"
    <3>. DEFINE s == [both EXCEPT !.prevMode = mode]
    <3>1. /\ IsDecoder(s) /\ s.prevRedundancy = d.prevRedundancy /\ s.prevMode = mode
          /\ s.silkChannels = both.silkChannels /\ s.mid = both.mid /\ s.side = both.side
      BY <1>1, <1>4, <2>2 DEF IsDecoder, Keeps
    <3>2. r = s
      BY <2>2
    <3>. HIDE DEF s, r
    <3>3. SilkContinuesStale(s) => SilkContinuesStale(d)
      BY <1>4, <3>1, SameSilk DEF Keeps
    <3>. QED
      BY <3>1, <3>2, <3>3
  <2>. QED
    BY <2>1, <2>2
<1>6. Concealed(d) = r
  BY DEF Concealed, r, both, silky, ready, mode
<1>. HIDE DEF r
<1>7. Plc(d, length) \in {d, r}
  BY <1>6 DEF Plc
<1>. QED
  BY <1>5, <1>7 DEF mode

LEMMA FillTransitionFact ==
  ASSUME NEW d, IsDecoder(d), NEW band
  PROVE  Keeps(d, FillTransition(d, band))
<1>. DEFINE q == [d EXCEPT !.celtEndBand = band]
            p == Plc(q, 2)
            r == FillTransition(d, band)
<1>1. /\ IsDecoder(q)
      /\ q.silkChannels = d.silkChannels /\ q.mid = d.mid /\ q.side = d.side
  BY DEF IsDecoder
<1>2. r = [p EXCEPT !.prevMode = d.prevMode, !.prevRedundancy = d.prevRedundancy,
                    !.celtEndBand = d.celtEndBand]
  BY DEF FillTransition
<1>. HIDE DEF q, r
<1>3. IsDecoder(p) /\ (SilkContinuesStale(p) => SilkContinuesStale(q))
  BY <1>1, PlcFact
<1>4. SilkContinuesStale(q) <=> SilkContinuesStale(d)
  BY <1>1, SameSilk
<1>. HIDE DEF p
<1>5. /\ IsDecoder(r) /\ r.prevMode = d.prevMode /\ r.prevRedundancy = d.prevRedundancy
      /\ r.silkChannels = p.silkChannels /\ r.mid = p.mid /\ r.side = p.side
  BY <1>2, <1>3 DEF IsDecoder
<1>6. SilkContinuesStale(r) <=> SilkContinuesStale(p)
  BY <1>5, SameSilk
<1>. QED
  BY <1>3, <1>4, <1>5, <1>6 DEF r, Keeps

LEMMA PacketFact ==
  ASSUME NEW pkt \in Packets
  PROVE  /\ pkt.mode \in Modes /\ pkt.channels \in {1, 2}
         /\ pkt.frames \in Seq(Redundancy) /\ Len(pkt.frames) \in Nat \ {0}
         /\ 1 \in DOMAIN pkt.frames
<1>1. pkt \in PacketType
  BY PacketAssumption
<1>2. pkt.frames \in Seq(Redundancy) /\ pkt.frames # <<>>
  BY <1>1 DEF PacketType
<1>. QED
  BY <1>1, <1>2 DEF PacketType

(* What a packet of CELT's finds, and one of SILK's or a hybrid one.       *)
LEMMA PrologueFact ==
  ASSUME NEW d, IsDecoder(d), NEW pkt \in Packets
  PROVE  LET r == Prologue(d, pkt)
         IN /\ IsDecoder(r) /\ r.prevMode = d.prevMode
            /\ pkt.mode = "celt" =>
                 /\ r.prevRedundancy = FALSE
                 /\ r.celt = IF d.prevMode \in SilkModes /\ ~d.prevRedundancy
                             THEN "fresh" ELSE d.celt
            /\ pkt.mode # "celt" =>
                 /\ r.prevRedundancy = d.prevRedundancy /\ r.celt = d.celt
                 /\ SilkContinuesStale(r) => SilkContinuesStale(d) /\ d.prevMode # "celt"
<1>. DEFINE noted == [d EXCEPT !.lastDuration = Len(pkt.frames) * pkt.span,
                               !.celtEndBand = pkt.band]
            rated == SetupSilkRate(noted, pkt.rate)
            again == ResetSilkAfterCeltOnly(rated)
            silky == SetupSilkChannels(again, pkt.channels)
            faded == IF Transition(d, "celt") THEN FillTransition(noted, d.celtEndBand)
                     ELSE noted
            clean == IF d.prevMode \in SilkModes /\ ~d.prevRedundancy
                     THEN CeltResets(faded) ELSE faded
            began == [clean EXCEPT !.prevRedundancy = FALSE]
<1>1. Keeps(d, noted) /\ noted.celt = d.celt
  <2>1. /\ IsDecoder(noted) /\ noted.prevMode = d.prevMode
        /\ noted.prevRedundancy = d.prevRedundancy /\ noted.celt = d.celt
        /\ noted.silkChannels = d.silkChannels /\ noted.mid = d.mid /\ noted.side = d.side
    BY DEF IsDecoder
  <2>. HIDE DEF noted
  <2>2. SilkContinuesStale(noted) <=> SilkContinuesStale(d)
    BY <2>1, SameSilk
  <2>. QED
    BY <2>1, <2>2 DEF Keeps
<1>. HIDE DEF noted
<1>2. Keeps(noted, rated) /\ rated.celt = noted.celt
  BY <1>1, SetupRateFact DEF Keeps
<1>. HIDE DEF rated
<1>3. /\ Keeps(rated, again) /\ again.celt = rated.celt
      /\ rated.prevMode = "celt" => ~SilkContinuesStale(again)
  BY <1>2, ResetSilkFact DEF Keeps
<1>. HIDE DEF again
<1>4. Keeps(again, silky) /\ silky.celt = again.celt
  BY <1>3, PacketFact, SetupChannelsFact DEF Keeps
<1>. HIDE DEF silky
<1>5. /\ IsDecoder(silky) /\ silky.prevMode = d.prevMode
      /\ silky.prevRedundancy = d.prevRedundancy /\ silky.celt = d.celt
      /\ SilkContinuesStale(silky) => SilkContinuesStale(d) /\ d.prevMode # "celt"
  BY <1>1, <1>2, <1>3, <1>4 DEF Keeps
<1>6. /\ Keeps(noted, faded)
      /\ ~(d.prevMode \in SilkModes /\ ~d.prevRedundancy) => faded.celt = d.celt
  <2>1. CASE Transition(d, "celt")
    <3>1. d.prevMode \in SilkModes /\ ~d.prevRedundancy
      BY <2>1 DEF Transition
    <3>2. Keeps(noted, FillTransition(noted, d.celtEndBand))
      BY <1>1, FillTransitionFact DEF Keeps
    <3>. QED
      BY <2>1, <3>1, <3>2
  <2>2. CASE ~Transition(d, "celt")
    BY <1>1, <2>2 DEF Keeps
  <2>. QED
    BY <2>1, <2>2
<1>. HIDE DEF faded
<1>7. /\ IsDecoder(clean) /\ clean.prevMode = d.prevMode
      /\ clean.celt = IF d.prevMode \in SilkModes /\ ~d.prevRedundancy
                      THEN "fresh" ELSE d.celt
  BY <1>1, <1>6, CeltDecodesFact DEF Keeps, CeltResets
<1>. HIDE DEF clean
<1>8. /\ IsDecoder(began) /\ began.prevMode = clean.prevMode /\ began.celt = clean.celt
      /\ began.prevRedundancy = FALSE
  BY <1>7 DEF IsDecoder
<1>. HIDE DEF began
<1>9. Prologue(d, pkt) = IF pkt.mode = "celt" THEN began ELSE silky
  BY DEF Prologue, began, clean, faded, silky, again, rated, noted
<1>. QED
  BY <1>5, <1>7, <1>8, <1>9

IsCall ==
  \/ call = Idle
  \/ /\ call.pkt \in Packets /\ call.at \in 1 .. Len(call.pkt.frames)
     /\ DOMAIN call = {"pkt", "at", "transition", "prevBand", "before"}
     /\ call.before \in Modes \cup {"none"}

(***************************************************************************)
(* What SILK knows may be from before a gap only while CELT is at it: in   *)
(* a packet of CELT's, and between packets after one.                      *)
(***************************************************************************)
GapInv ==
  /\ channels \in {1, 2} /\ IsDecoder(dec) /\ IsCall /\ ~across
  /\ SilkContinuesStale(dec) =>
       IF Free THEN dec.prevMode = "celt" ELSE call.pkt.mode = "celt"

(***************************************************************************)
(* What a frame leaves.                                                    *)
(***************************************************************************)
LEMMA IfKeeps ==
  ASSUME NEW d, NEW x, NEW y, Keeps(d, x), Keeps(d, y), NEW cond
  PROVE  Keeps(d, If(cond, x, y))
BY DEF If

LEMMA KeepsTransitive ==
  ASSUME NEW d, NEW x, NEW y, Keeps(d, x), Keeps(x, y)
  PROVE  Keeps(d, y)
BY DEF Keeps

LEMMA KeepsItself == ASSUME NEW d, IsDecoder(d) PROVE Keeps(d, d)
BY DEF Keeps

(* A redundant frame decoded, CELT started over or led in.                 *)
LEMMA IfCeltFact ==
  ASSUME NEW d, NEW x, Keeps(d, x), NEW cond, NEW what
  PROVE  LET r == If(cond, CeltDecodes(x, what), x)
         IN Keeps(d, r) /\ r.celt = IF cond THEN what ELSE x.celt
<1>1. Keeps(x, CeltDecodes(x, what)) /\ CeltDecodes(x, what).celt = what
  BY CeltDecodesFact DEF Keeps
<1>2. Keeps(d, CeltDecodes(x, what))
  BY <1>1, KeepsTransitive
<1>. QED
  BY <1>1, <1>2 DEF If

LEMMA IfPrimedFact ==
  ASSUME NEW d, NEW x, Keeps(d, x), NEW cond
  PROVE  LET r == If(cond, CeltDecodes(CeltResets(x), "toCelt"), x)
         IN Keeps(d, r) /\ r.celt = IF cond THEN "toCelt" ELSE x.celt
<1>. DEFINE y == CeltResets(x)
            z == CeltDecodes(y, "toCelt")
<1>1. Keeps(x, y)
  BY CeltDecodesFact DEF Keeps, CeltResets
<1>. HIDE DEF y
<1>2. Keeps(y, z) /\ z.celt = "toCelt"
  BY <1>1, CeltDecodesFact DEF Keeps
<1>. HIDE DEF z
<1>3. Keeps(d, z)
  BY <1>1, <1>2, KeepsTransitive
<1>. QED
  BY <1>2, <1>3 DEF If, z, y

LEMMA IfFadedFact ==
  ASSUME NEW d, NEW x, Keeps(d, x), NEW cond, NEW band
  PROVE  LET r == If(cond, FillTransition(x, band), x)
         IN Keeps(d, r) /\ (~cond => r.celt = x.celt)
<1>1. Keeps(x, FillTransition(x, band))
  BY FillTransitionFact DEF Keeps
<1>2. Keeps(d, FillTransition(x, band))
  BY <1>1, KeepsTransitive
<1>. QED
  BY <1>2 DEF If

(* What has been promised is set last.                                     *)
LEMMA PromisingFact ==
  ASSUME NEW d, IsDecoder(d), NEW promise \in BOOLEAN
  PROVE  LET r == [d EXCEPT !.prevRedundancy = promise]
         IN /\ IsDecoder(r) /\ r.prevMode = d.prevMode /\ r.prevRedundancy = promise
            /\ r.celt = d.celt
            /\ SilkContinuesStale(r) <=> SilkContinuesStale(d)
<1>. DEFINE r == [d EXCEPT !.prevRedundancy = promise]
<1>1. /\ IsDecoder(r) /\ r.prevMode = d.prevMode /\ r.prevRedundancy = promise
      /\ r.celt = d.celt
      /\ r.silkChannels = d.silkChannels /\ r.mid = d.mid /\ r.side = d.side
  BY DEF IsDecoder
<1>. HIDE DEF r
<1>2. SilkContinuesStale(r) <=> SilkContinuesStale(d)
  BY <1>1, SameSilk
<1>. QED
  BY <1>1, <1>2 DEF r

RedundantOfSilk == IF fullRate THEN FrameInHand ELSE "none"

LEMMA SilkFrameFact ==
  ASSUME IsDecoder(dec), SilkFrame
  PROVE  \E d : /\ IsDecoder(d) /\ d.prevMode = dec.prevMode /\ ~SilkContinuesStale(d)
                /\ d.prevRedundancy = (RedundantOfSilk = "toCelt")
                /\ RedundantOfSilk = "toCelt" => d.celt = "toCelt"
                /\ FrameDone(d, "silk")
<1>. DEFINE red     == RedundantOfSilk
            fade    == call.transition /\ FirstFrame /\ red = "none"
            silence == /\ fullRate /\ call.before = "hybrid"
                       /\ ~(red = "toSilk" /\ dec.prevRedundancy)
            spoken  == SilkRuns(dec)
            faded   == If(fade, FillTransition(spoken, call.prevBand), spoken)
            faded2  == If(red = "toSilk", CeltDecodes(faded, "toSilk"), faded)
            quiet   == If(silence, CeltDecodes(faded2, "silence"), faded2)
            primed  == If(red = "toCelt", CeltDecodes(CeltResets(quiet), "toCelt"), quiet)
            d       == [primed EXCEPT !.prevRedundancy = (red = "toCelt")]
<1>1. FrameDone(d, "silk")
  BY DEF SilkFrame, RedundantOfSilk
<1>2. Keeps(dec, spoken) /\ ~SilkContinuesStale(spoken)
  BY SilkRunsFact
<1>. HIDE DEF spoken, fade, silence, red
<1>3. Keeps(spoken, faded)
  BY <1>2, IfFadedFact, KeepsItself DEF Keeps
<1>. HIDE DEF faded
<1>4. Keeps(spoken, faded2)
  BY <1>3, IfCeltFact
<1>. HIDE DEF faded2
<1>5. Keeps(spoken, quiet)
  BY <1>4, IfCeltFact
<1>. HIDE DEF quiet
<1>6. Keeps(spoken, primed) /\ (red = "toCelt" => primed.celt = "toCelt")
  BY <1>5, IfPrimedFact
<1>. HIDE DEF primed
<1>7. /\ IsDecoder(primed) /\ primed.prevMode = dec.prevMode
      /\ ~SilkContinuesStale(primed)
  BY <1>2, <1>6 DEF Keeps
<1>8. /\ IsDecoder(d) /\ d.prevMode = primed.prevMode
      /\ d.prevRedundancy = (red = "toCelt") /\ d.celt = primed.celt
      /\ SilkContinuesStale(d) <=> SilkContinuesStale(primed)
  <2>. DEFINE promise == (red = "toCelt")
  <2>1. promise \in BOOLEAN /\ d = [primed EXCEPT !.prevRedundancy = promise]
    OBVIOUS
  <2>. HIDE DEF promise, d
  <2>2. /\ IsDecoder(d) /\ d.prevMode = primed.prevMode
        /\ d.prevRedundancy = promise /\ d.celt = primed.celt
        /\ SilkContinuesStale(d) <=> SilkContinuesStale(primed)
    BY <1>7, <2>1, PromisingFact
  <2>. QED
    BY <2>2, Zenon DEF promise
<1>. HIDE DEF d
<1>9. /\ IsDecoder(d) /\ d.prevMode = dec.prevMode /\ ~SilkContinuesStale(d)
      /\ d.prevRedundancy = (red = "toCelt") /\ (red = "toCelt" => d.celt = "toCelt")
  BY <1>6, <1>7, <1>8
<1>. QED
  BY <1>1, <1>9 DEF red

(* A hybrid frame's audio is joined onto a reset state, the redundant      *)
(* frame before it, or what CELT had, if nothing was faded.                *)
FadesHybrid == call.transition /\ FirstFrame /\ FrameInHand = "none"
FadesOutHybrid == fullRate /\ FrameInHand = "toSilk"

LEMMA HybridFrameFact ==
  ASSUME IsDecoder(dec), HybridFrame
  PROVE  \E d, onto :
           /\ IsDecoder(d) /\ d.prevMode = dec.prevMode /\ ~SilkContinuesStale(d)
           /\ d.prevRedundancy = (FrameInHand = "toCelt")
           /\ d.celt = IF fullRate /\ FrameInHand = "toCelt" THEN "toCelt" ELSE "hybrid"
           /\ FrameDone(d, "hybrid")
           /\ joins' = {[onto |-> onto, mode |-> "hybrid", before |-> call.before]}
           /\ ResetForHybrid(dec) => onto = "fresh"
           /\ ~ResetForHybrid(dec) /\ ~FadesHybrid /\ ~FadesOutHybrid => onto = dec.celt
<1>. DEFINE fade   == FadesHybrid
            out    == FadesOutHybrid
            led    == fullRate /\ FrameInHand = "toCelt"
            spoken == SilkRuns(dec)
            faded  == If(fade, FillTransition(spoken, call.prevBand), spoken)
            faded2 == If(out, CeltDecodes(faded, "toSilk"), faded)
            clean  == If(ResetForHybrid(dec), CeltResets(faded2), faded2)
            coded  == CeltDecodes(clean, "hybrid")
            primed == If(led, CeltDecodes(CeltResets(coded), "toCelt"), coded)
            d      == [primed EXCEPT !.prevRedundancy = (FrameInHand = "toCelt")]
<1>1. /\ FrameDone(d, "hybrid")
      /\ joins' = {[onto |-> clean.celt, mode |-> "hybrid", before |-> call.before]}
  BY DEF HybridFrame, FadesHybrid, FadesOutHybrid, Joins
<1>2. Keeps(dec, spoken) /\ ~SilkContinuesStale(spoken) /\ spoken.celt = dec.celt
  BY SilkRunsFact
<1>. HIDE DEF spoken, fade, out
<1>3. Keeps(spoken, faded) /\ (~fade => faded.celt = dec.celt)
  BY <1>2, IfFadedFact, KeepsItself DEF Keeps
<1>. HIDE DEF faded
<1>4. Keeps(spoken, faded2) /\ faded2.celt = IF out THEN "toSilk" ELSE faded.celt
  BY <1>3, IfCeltFact
<1>. HIDE DEF faded2
<1>5. /\ Keeps(spoken, clean)
      /\ clean.celt = IF ResetForHybrid(dec) THEN "fresh" ELSE faded2.celt
  BY <1>4, IfCeltFact DEF CeltResets
<1>. HIDE DEF clean
<1>6. Keeps(spoken, coded) /\ coded.celt = "hybrid"
  BY <1>5, CeltDecodesFact, KeepsTransitive DEF Keeps
<1>. HIDE DEF coded, led
<1>7. Keeps(spoken, primed) /\ primed.celt = IF led THEN "toCelt" ELSE "hybrid"
  BY <1>6, IfPrimedFact
<1>. HIDE DEF primed
<1>8. /\ IsDecoder(primed) /\ primed.prevMode = dec.prevMode
      /\ ~SilkContinuesStale(primed)
  BY <1>2, <1>7 DEF Keeps
<1>9. /\ IsDecoder(d) /\ d.prevMode = primed.prevMode
      /\ d.prevRedundancy = (FrameInHand = "toCelt") /\ d.celt = primed.celt
      /\ SilkContinuesStale(d) <=> SilkContinuesStale(primed)
  <2>. DEFINE promise == (FrameInHand = "toCelt")
  <2>1. promise \in BOOLEAN /\ d = [primed EXCEPT !.prevRedundancy = promise]
    OBVIOUS
  <2>. HIDE DEF promise, d
  <2>2. /\ IsDecoder(d) /\ d.prevMode = primed.prevMode
        /\ d.prevRedundancy = promise /\ d.celt = primed.celt
        /\ SilkContinuesStale(d) <=> SilkContinuesStale(primed)
    BY <1>8, <2>1, PromisingFact
  <2>. QED
    BY <2>2, Zenon DEF promise
<1>. HIDE DEF d
<1>10. /\ IsDecoder(d) /\ d.prevMode = dec.prevMode /\ ~SilkContinuesStale(d)
       /\ d.prevRedundancy = (FrameInHand = "toCelt")
       /\ d.celt = IF led THEN "toCelt" ELSE "hybrid"
  BY <1>7, <1>8, <1>9
<1>11. /\ ResetForHybrid(dec) => clean.celt = "fresh"
       /\ ~ResetForHybrid(dec) /\ ~fade /\ ~out => clean.celt = dec.celt
  BY <1>3, <1>4, <1>5
<1>. QED
  BY <1>1, <1>10, <1>11 DEF fade, out, led

LEMMA CeltFrameFact ==
  ASSUME IsDecoder(dec), CeltFrame
  PROVE  \E d : /\ IsDecoder(d) /\ d.prevMode = dec.prevMode
                /\ d.prevRedundancy = dec.prevRedundancy /\ d.celt = "celt"
                /\ FrameDone(d, "celt")
<1>. DEFINE q == CeltDecodes(dec, "celt")
            d == [q EXCEPT !.mid = Aged(@), !.side = Aged(@)]
<1>1. FrameDone(d, "celt")
  BY DEF CeltFrame
<1>2. Keeps(dec, q) /\ q.celt = "celt"
  BY CeltDecodesFact
<1>. HIDE DEF q
<1>3. /\ IsDecoder(d) /\ d.prevMode = dec.prevMode
      /\ d.prevRedundancy = dec.prevRedundancy /\ d.celt = "celt"
  BY <1>2 DEF Keeps, IsDecoder
<1>. HIDE DEF d
<1>. QED
  BY <1>1, <1>3

LEMMA FrameDoneFact ==
  ASSUME NEW d, IsDecoder(d), NEW mode \in Modes, FrameDone(d, mode), IsCall, ~Free
  PROVE  /\ IsDecoder(dec') /\ IsCall' /\ UNCHANGED <<setup, sent, lossy, lastMode>>
         /\ dec'.prevRedundancy = d.prevRedundancy /\ dec'.celt = d.celt
         /\ SilkContinuesStale(dec') <=> SilkContinuesStale(d)
         /\ IF call.at = Len(call.pkt.frames)
            THEN call' = Idle /\ dec'.prevMode = mode
            ELSE /\ ~Free' /\ dec'.prevMode = d.prevMode
                 /\ call'.pkt = call.pkt /\ call'.at = call.at + 1
                 /\ call'.before = mode /\ call'.transition = call.transition
<1>1. /\ call.pkt \in Packets /\ call.at \in 1 .. Len(call.pkt.frames)
      /\ DOMAIN call = {"pkt", "at", "transition", "prevBand", "before"}
  BY DEF IsCall, Free
<1>2. Len(call.pkt.frames) \in Nat
  BY <1>1, PacketFact
<1>3. UNCHANGED <<setup, sent, lossy, lastMode>>
  BY DEF FrameDone
<1>4. CASE call.at = Len(call.pkt.frames)
  <2>1. call' = Idle /\ dec' = [d EXCEPT !.prevMode = mode]
    BY <1>4 DEF FrameDone
  <2>2. /\ IsDecoder(dec') /\ dec'.prevMode = mode
        /\ dec'.prevRedundancy = d.prevRedundancy /\ dec'.celt = d.celt
        /\ dec'.silkChannels = d.silkChannels /\ dec'.mid = d.mid /\ dec'.side = d.side
    BY <2>1 DEF IsDecoder
  <2>3. SilkContinuesStale(dec') <=> SilkContinuesStale(d)
    BY <2>2, SameSilk
  <2>. QED
    BY <1>3, <1>4, <2>1, <2>2, <2>3 DEF IsCall
<1>5. CASE call.at # Len(call.pkt.frames)
  <2>1. dec' = d /\ call' = [call EXCEPT !.at = @ + 1, !.before = mode]
    BY <1>5 DEF FrameDone
  <2>2. /\ call'.pkt = call.pkt /\ call'.at = call.at + 1 /\ call'.before = mode
        /\ call'.transition = call.transition
        /\ DOMAIN call' = {"pkt", "at", "transition", "prevBand", "before"}
    BY <1>1, <2>1
  <2>3. call'.at \in 1 .. Len(call.pkt.frames)
    BY <1>1, <1>2, <1>5, <2>2
  <2>4. IsCall'
    BY <1>1, <2>2, <2>3 DEF IsCall
  <2>5. ~Free'
    BY <1>1, <2>2 DEF Free, Idle
  <2>. QED
    BY <1>3, <1>5, <2>1, <2>2, <2>4, <2>5
<1>. QED
  BY <1>4, <1>5

(***************************************************************************)
(* SILK never predicts from before a gap.                                  *)
(***************************************************************************)
LEMMA InitGap == DecoderInit => GapInv
BY NewDecoderFact DEF DecoderInit, GapInv, IsCall, Free

LEMMA IdleFact == IsCall /\ call.at > 0 => ~Free
BY DEF IsCall, Free, Idle

LEMMA PacketGap ==
  ASSUME GapInv, NEW pkt \in Packets, DecodePacket(pkt)
  PROVE  GapInv'
<1>1. Free /\ IsDecoder(dec) /\ ~across /\ channels \in {1, 2}
  BY DEF DecodePacket, GapInv
<1>2. /\ IsDecoder(dec') /\ dec' = Prologue(dec, pkt)
      /\ pkt.mode # "celt" /\ SilkContinuesStale(dec') =>
           SilkContinuesStale(dec) /\ dec.prevMode # "celt"
  BY <1>1, PrologueFact DEF DecodePacket
<1>3. call' = [pkt |-> pkt, at |-> 1, transition |-> Transition(dec, pkt.mode),
               prevBand |-> dec.celtEndBand, before |-> dec.prevMode]
  BY DEF DecodePacket
<1>4. IsCall' /\ ~Free' /\ call'.pkt = pkt
  BY <1>1, <1>3, PacketFact DEF IsCall, IsDecoder, Free, Idle
<1>5. UNCHANGED <<channels, across>>
  BY DEF DecodePacket, setup
<1>6. SilkContinuesStale(dec') => pkt.mode = "celt"
  BY <1>1, <1>2 DEF GapInv
<1>. QED
  BY <1>1, <1>2, <1>4, <1>5, <1>6 DEF GapInv

(* After any frame but CELT's SILK has just run.                           *)
LEMMA SilkFrameGap ==
  ASSUME GapInv, SilkFrame \/ HybridFrame
  PROVE  GapInv'
<1>1. ~Free /\ IsCall /\ IsDecoder(dec) /\ call.pkt.mode \in SilkModes
  BY IdleFact DEF SilkFrame, HybridFrame, Decoding, GapInv, SilkModes
<1>2. ~SilkContinuesStale(dec) /\ ~across /\ channels \in {1, 2}
  BY <1>1 DEF GapInv, SilkModes
<1>3. CASE SilkFrame
  <2>1. PICK d : IsDecoder(d) /\ ~SilkContinuesStale(d) /\ FrameDone(d, "silk")
    BY <1>1, <1>3, SilkFrameFact
  <2>2. IsDecoder(dec') /\ ~SilkContinuesStale(dec') /\ IsCall' /\ UNCHANGED setup
    BY <1>1, <2>1, FrameDoneFact DEF Modes
  <2>. QED
    BY <1>2, <1>3, <2>2 DEF SilkFrame, GapInv, setup
<1>4. CASE HybridFrame
  <2>1. PICK d : IsDecoder(d) /\ ~SilkContinuesStale(d) /\ FrameDone(d, "hybrid")
    BY <1>1, <1>4, HybridFrameFact
  <2>2. IsDecoder(dec') /\ ~SilkContinuesStale(dec') /\ IsCall' /\ UNCHANGED setup
    BY <1>1, <2>1, FrameDoneFact DEF Modes
  <2>. QED
    BY <1>2, <1>4, <2>2 DEF HybridFrame, GapInv, setup
<1>. QED
  BY <1>3, <1>4

LEMMA CeltFrameGap ==
  ASSUME GapInv, CeltFrame
  PROVE  GapInv'
<1>1. ~Free /\ IsCall /\ IsDecoder(dec) /\ call.pkt.mode = "celt"
  BY IdleFact DEF CeltFrame, Decoding, GapInv
<1>2. ~across /\ channels \in {1, 2} /\ UNCHANGED across
  BY DEF GapInv, CeltFrame
<1>3. PICK d : IsDecoder(d) /\ FrameDone(d, "celt")
  BY <1>1, CeltFrameFact
<1>4. /\ IsDecoder(dec') /\ IsCall' /\ UNCHANGED setup
      /\ IF call.at = Len(call.pkt.frames) THEN call' = Idle /\ dec'.prevMode = "celt"
         ELSE ~Free' /\ call'.pkt = call.pkt
  BY <1>1, <1>3, FrameDoneFact DEF Modes
<1>5. IF Free' THEN dec'.prevMode = "celt" ELSE call'.pkt.mode = "celt"
  BY <1>1, <1>4 DEF Free
<1>. QED
  BY <1>2, <1>4, <1>5 DEF GapInv, setup

(* Between packets nothing of SILK's is concealed from before a gap: after *)
(* CELT, CELT is concealed.                                                *)
LEMMA PlcGap ==
  ASSUME GapInv, Free, NEW length
  PROVE  /\ IsDecoder(Plc(dec, length)) /\ ~ConcealsStale(dec)
         /\ SilkContinuesStale(Plc(dec, length)) =>
              SilkContinuesStale(dec) /\ Plc(dec, length).prevMode = "celt"
<1>1. /\ IsDecoder(dec)
      /\ SilkContinuesStale(dec) => dec.prevMode = "celt" /\ ConcealMode(dec) = "celt"
  BY DEF GapInv, ConcealMode
<1>2. ~ConcealsStale(dec)
  BY <1>1 DEF ConcealsStale, SilkModes
<1>3. /\ IsDecoder(Plc(dec, length))
      /\ Plc(dec, length).prevMode \in {dec.prevMode, ConcealMode(dec)}
      /\ SilkContinuesStale(Plc(dec, length)) => SilkContinuesStale(dec)
  BY <1>1, PlcFact
<1>. QED
  BY <1>1, <1>2, <1>3

LEMMA ConcealGap ==
  ASSUME GapInv, NEW room \in Rooms, Conceal(room)
  PROVE  GapInv'
<1>1. Free /\ dec' = Plc(dec, room) /\ UNCHANGED <<setup, call>>
  BY DEF Conceal
<1>2. /\ IsDecoder(dec') /\ ~ConcealsStale(dec)
      /\ SilkContinuesStale(dec') => dec'.prevMode = "celt"
  BY <1>1, PlcGap
<1>3. ~across'
  BY <1>2 DEF Conceal, GapInv
<1>. QED
  BY <1>1, <1>2, <1>3 DEF GapInv, IsCall, Free, setup

LEMMA RecoveredFact ==
  ASSUME NEW d, IsDecoder(d), NEW pkt \in Heads, pkt.mode # "celt"
  PROVE  IsDecoder(Recovered(d, pkt)) /\ ~SilkContinuesStale(Recovered(d, pkt))
<1>. DEFINE ready == SetupSilkChannels(SetupSilkRate(d, pkt.rate), pkt.channels)
            silky == SilkRuns(ready)
            both  == If(pkt.mode = "hybrid", CeltConceals(silky, "hybrid"), silky)
            r     == [both EXCEPT !.prevMode = pkt.mode, !.prevRedundancy = FALSE]
<1>1. pkt.mode \in Modes /\ pkt.channels \in {1, 2}
  BY PacketFact DEF Heads
<1>2. Recovered(d, pkt) = r
  BY DEF Recovered
<1>3. IsDecoder(ready)
  BY <1>1, SetupFact DEF Keeps
<1>. HIDE DEF ready
<1>4. IsDecoder(silky) /\ ~SilkContinuesStale(silky)
  BY <1>3, SilkRunsFact DEF Keeps
<1>. HIDE DEF silky
<1>5. Keeps(silky, both)
  BY <1>4, CeltConcealsFact, KeepsItself DEF If
<1>. HIDE DEF both
<1>6. /\ IsDecoder(r)
      /\ r.silkChannels = both.silkChannels /\ r.mid = both.mid /\ r.side = both.side
  BY <1>1, <1>5 DEF Keeps, IsDecoder
<1>. HIDE DEF r
<1>7. SilkContinuesStale(r) <=> SilkContinuesStale(both)
  BY <1>6, SameSilk
<1>. QED
  BY <1>2, <1>4, <1>5, <1>6, <1>7 DEF Keeps

LEMMA FecGap ==
  ASSUME GapInv, NEW pkt \in Heads, NEW room \in Rooms, NEW parses \in BOOLEAN,
         DecodeFec(pkt, room, parses)
  PROVE  GapInv'
<1>1. Free /\ UNCHANGED <<setup, call>>
  BY DEF DecodeFec
<1>2. CASE FecFallsBack(pkt, room)
  <2>1. dec' = Plc(dec, room) /\ across' = (across \/ ConcealsStale(dec))
    BY <1>2 DEF DecodeFec
  <2>2. /\ IsDecoder(dec') /\ ~ConcealsStale(dec)
        /\ SilkContinuesStale(dec') => dec'.prevMode = "celt"
    BY <1>1, <2>1, PlcGap
  <2>. QED
    BY <1>1, <2>1, <2>2 DEF GapInv, IsCall, Free, setup
<1>3. CASE ~FecFallsBack(pkt, room)
  <2>. DEFINE lead  == room - pkt.span
              ahead == If(lead > 0, Plc(dec, lead), dec)
              fails == (lead > 0 /\ PlcFails(dec, lead)) \/ ~parses
              ready == SetupSilkChannels(SetupSilkRate(ahead, pkt.rate), pkt.channels)
  <2>1. /\ dec' = If(fails, ahead, Recovered(ahead, pkt))
        /\ across' = \/ across
                     \/ lead > 0 /\ ConcealsStale(dec)
                     \/ ~fails /\ SilkContinuesStale(ready)
    BY <1>3 DEF DecodeFec
  <2>2. pkt.mode # "celt" /\ dec.prevMode # "celt" /\ pkt.channels \in {1, 2}
    BY <1>3, PacketFact DEF FecFallsBack, Heads
  <2>3. /\ IsDecoder(dec) /\ ~SilkContinuesStale(dec) /\ ~across /\ ~ConcealsStale(dec)
        /\ IsDecoder(Plc(dec, lead)) /\ ~SilkContinuesStale(Plc(dec, lead))
    BY <1>1, <2>2, PlcGap DEF GapInv
  <2>4. IsDecoder(ahead) /\ ~SilkContinuesStale(ahead)
    BY <2>3 DEF If
  <2>. HIDE DEF ahead, fails
  <2>5. IsDecoder(ready) /\ ~SilkContinuesStale(ready)
    BY <2>2, <2>4, SetupFact DEF Keeps
  <2>. HIDE DEF ready
  <2>6. IsDecoder(Recovered(ahead, pkt)) /\ ~SilkContinuesStale(Recovered(ahead, pkt))
    BY <2>2, <2>4, RecoveredFact
  <2>7. IsDecoder(dec') /\ ~SilkContinuesStale(dec')
    BY <2>1, <2>4, <2>6 DEF If
  <2>8. ~across'
    BY <2>1, <2>3, <2>5
  <2>. QED
    BY <1>1, <2>7, <2>8 DEF GapInv, IsCall, setup
<1>. QED
  BY <1>2, <1>3

LEMMA GapStep == GapInv /\ [DecoderNext]_decoderVars => GapInv'
<1>. SUFFICES ASSUME GapInv, [DecoderNext]_decoderVars PROVE GapInv'
  OBVIOUS
<1>1. ASSUME NEW pkt \in Packets, DecodePacket(pkt) PROVE GapInv'
  BY <1>1, PacketGap
<1>2. CASE SilkFrame \/ HybridFrame
  BY <1>2, SilkFrameGap
<1>3. CASE CeltFrame
  BY <1>3, CeltFrameGap
<1>4. ASSUME NEW room \in Rooms, Conceal(room) PROVE GapInv'
  BY <1>4, ConcealGap
<1>5. ASSUME NEW pkt \in Heads, NEW room \in Rooms, NEW parses \in BOOLEAN,
             DecodeFec(pkt, room, parses)
      PROVE  GapInv'
  BY <1>5, FecGap
<1>6. CASE ResetState
  <2>1. IsDecoder(NewDecoder) /\ ~SilkContinuesStale(NewDecoder)
    BY NewDecoderFact DEF GapInv
  <2>. QED
    BY <1>6, <2>1 DEF ResetState, GapInv, IsCall, Free, setup
<1>7. CASE UNCHANGED decoderVars
  BY <1>7 DEF decoderVars, setup, GapInv, IsDecoder, IsCall, Free, SilkContinuesStale
<1>. QED
  BY <1>1, <1>2, <1>3, <1>4, <1>5, <1>6, <1>7 DEF DecoderNext

(* "The SILK layer carries no state across a CELT-only stretch", for any   *)
(* packets in any order, lost, recovered or not (decoder.rs:517-520).      *)
THEOREM SilkStartsOver == DecoderSpec => []SilkNeverAcrossAGap
<1>1. GapInv => SilkNeverAcrossAGap
  BY DEF GapInv, SilkNeverAcrossAGap
<1>. QED
  BY InitGap, GapStep, <1>1, PTL DEF DecoderSpec

(***************************************************************************)
(* Of a stream received whole: between packets the decoder knows the mode  *)
(* that was sent last and the switch that was promised, and CELT's history *)
(* is what the promise led into, or of that mode.                          *)
(***************************************************************************)
Whole == fullRate /\ ~lossy

Promised == sent.mode \in SilkModes /\ sent.promised

BetweenPackets ==
  /\ lastMode \in Modes \cup {"none"}
  /\ sent.mode = lastMode /\ dec.prevMode = lastMode
  /\ dec.prevRedundancy = Promised
  /\ lastMode = "none" => dec.celt = "fresh"
  /\ lastMode = "celt" => dec.celt = "celt"
  /\ lastMode \in SilkModes /\ Promised => dec.celt = "toCelt"
  /\ lastMode = "hybrid" /\ ~Promised => dec.celt = "hybrid"

(* In a packet: what was sent is what is in hand; the frame before is of   *)
(* the packet before for the first frame, and of this one for the others;  *)
(* no switch is promised but by the last frame.                            *)
InPacket ==
  /\ DOMAIN seam = {"mode", "after", "by"}
  /\ sent = Sent(call.pkt) /\ lastMode = call.pkt.mode /\ seam.mode = call.pkt.mode
  /\ seam.after \in Modes \cup {"none"}
  /\ call.before = IF call.at = 1 THEN seam.after ELSE call.pkt.mode
  /\ Placed(call.pkt.frames)
  /\ call.pkt.frames[1] = "toCelt" => seam.after \in SilkModes
  /\ call.pkt.frames[1] = "toSilk" =>
       seam.after # "none" /\ {seam.after, call.pkt.mode} # {"hybrid"}
  /\ ~dec.prevRedundancy

CeltInPacket ==
  /\ call.pkt.mode = "celt" =>
       dec.celt \in IF call.at = 1 THEN {"fresh", "toCelt", "celt"} ELSE {"celt"}
  /\ call.pkt.mode = "hybrid" =>
       IF call.at # 1 \/ seam.after = "hybrid" THEN dec.celt = "hybrid"
       ELSE seam.after = "none" => dec.celt = "fresh"

SeamHolds ==
  IF seam.after # "none" /\ (seam.mode = "celt") # (seam.after = "celt")
  THEN Cardinality(seam.by) = 1
  ELSE "fade" \notin seam.by

(* A seam into CELT is joined before its first frame is decoded, any other *)
(* by its first frame.                                                     *)
SeamInPacket ==
  /\ SeamHolds \/ (call.pkt.mode # "celt" /\ call.at = 1)
  /\ call.pkt.mode # "celt" /\ call.at = 1 =>
       seam.by = {} /\ call.transition = (seam.after = "celt")

WholeInv ==
  Whole =>
    /\ \A join \in joins : join.onto \in {"fresh", "toCelt", join.mode}
    /\ Free => BetweenPackets /\ SeamHolds
    /\ ~Free => InPacket /\ CeltInPacket /\ SeamInPacket

LEMMA InitWhole == DecoderInit => WholeInv
<1>. SUFFICES ASSUME DecoderInit PROVE WholeInv
  OBVIOUS
<1>1. /\ dec.prevMode = "none" /\ dec.prevRedundancy = FALSE /\ dec.celt = "fresh"
      /\ Free /\ joins = {} /\ lastMode = "none"
      /\ sent.mode = "none" /\ sent.promised = FALSE
      /\ seam.after = "none" /\ seam.by = {}
  BY NewDecoderFact DEF DecoderInit, Free, NoSeam
<1>2. BetweenPackets
  BY <1>1 DEF BetweenPackets, Promised, SilkModes
<1>3. SeamHolds
  BY <1>1 DEF SeamHolds
<1>. QED
  BY <1>1, <1>2, <1>3 DEF WholeInv

LEMMA OneBridge == ASSUME NEW b PROVE Cardinality({b}) = 1
BY FS_Singleton

(* A packet is begun.  A switch to CELT is faded, or has been led into.    *)
LEMMA PacketSeam ==
  ASSUME GapInv, BetweenPackets, NEW pkt \in Packets, DecodePacket(pkt)
  PROVE  /\ DOMAIN seam' = {"mode", "after", "by"}
         /\ seam'.mode = pkt.mode /\ seam'.after = lastMode
         /\ pkt.mode = "celt" => SeamHolds'
         /\ pkt.mode # "celt" => seam'.by = {}
<1>. DEFINE by == {b \in {"fade", "primed"} :
                     /\ pkt.mode = "celt" /\ dec.prevMode \in SilkModes
                     /\ b = "fade" => Transition(dec, "celt")
                     /\ b = "primed" => dec.prevRedundancy}
<1>1. seam' = [mode |-> pkt.mode, after |-> lastMode, by |-> by]
  BY DEF DecodePacket
<1>2. dec.prevMode = lastMode /\ lastMode \in Modes \cup {"none"}
      /\ pkt.mode \in Modes /\ dec.prevRedundancy \in BOOLEAN
  BY PacketFact DEF BetweenPackets, GapInv, IsDecoder
<1>3. pkt.mode # "celt" => by = {}
  OBVIOUS
<1>4. ASSUME pkt.mode = "celt" PROVE SeamHolds'
  <2>1. CASE lastMode \in SilkModes
    <3>1. Transition(dec, "celt") <=> ~dec.prevRedundancy
      BY <1>2, <2>1 DEF Transition
    <3>2. by = {"primed"} \/ by = {"fade"}
      BY <1>2, <1>4, <2>1, <3>1
    <3>3. Cardinality(by) = 1
      BY <3>2, OneBridge
    <3>. HIDE DEF by
    <3>. QED
      BY <1>1, <1>4, <2>1, <3>3 DEF SeamHolds, SilkModes
  <2>2. CASE lastMode \notin SilkModes
    <3>1. by = {} /\ lastMode \in {"none", "celt"}
      BY <1>2, <2>2 DEF SilkModes, Modes
    <3>. HIDE DEF by
    <3>. QED
      BY <1>1, <1>4, <3>1 DEF SeamHolds
  <2>. QED
    BY <2>1, <2>2
<1>. HIDE DEF by
<1>. QED
  BY <1>1, <1>3, <1>4

LEMMA PacketWhole ==
  ASSUME GapInv, WholeInv, NEW pkt \in Packets, DecodePacket(pkt)
  PROVE  WholeInv'
<1>. SUFFICES ASSUME Whole' PROVE (WholeInv!2)'
  BY DEF WholeInv
<1>1. Whole /\ Free
  BY DEF Whole, DecodePacket, setup
<1>2. BetweenPackets /\ IsDecoder(dec)
  BY <1>1 DEF WholeInv, GapInv
<1>3. /\ call' = [pkt |-> pkt, at |-> 1, transition |-> Transition(dec, pkt.mode),
                  prevBand |-> dec.celtEndBand, before |-> dec.prevMode]
      /\ dec' = Prologue(dec, pkt) /\ Legal(pkt)
      /\ sent' = Sent(pkt) /\ lastMode' = pkt.mode /\ joins' = {}
  BY DEF DecodePacket
<1>4. /\ call'.pkt = pkt /\ call'.at = 1 /\ call'.before = lastMode
      /\ pkt.mode # "celt" => call'.transition = (lastMode = "celt")
  BY <1>2, <1>3 DEF BetweenPackets, Transition
<1>5. ~Free'
  BY <1>4 DEF Free, Idle
<1>6. /\ DOMAIN seam' = {"mode", "after", "by"}
      /\ seam'.mode = pkt.mode /\ seam'.after = lastMode
      /\ pkt.mode = "celt" => SeamHolds'
      /\ pkt.mode # "celt" => seam'.by = {}
  BY <1>2, PacketSeam
<1>7. pkt.mode # "celt" => ~Promised /\ ~dec.prevRedundancy
  BY <1>2, <1>3 DEF Legal, Promised, BetweenPackets, IsDecoder
<1>8. InPacket'
  <2>1. ~dec'.prevRedundancy
    BY <1>2, <1>3, <1>7, PrologueFact
  <2>2. /\ Placed(pkt.frames)
        /\ pkt.frames[1] = "toCelt" => lastMode \in SilkModes
        /\ pkt.frames[1] = "toSilk" => lastMode # "none" /\ {lastMode, pkt.mode} # {"hybrid"}
    BY <1>2, <1>3 DEF Legal, BetweenPackets
  <2>3. lastMode \in Modes \cup {"none"}
    BY <1>2 DEF BetweenPackets
  <2>. QED
    BY <1>3, <1>4, <1>6, <2>1, <2>2, <2>3 DEF InPacket
<1>9. CeltInPacket'
  <2>1. /\ pkt.mode = "celt" =>
             dec'.celt = IF dec.prevMode \in SilkModes /\ ~dec.prevRedundancy
                         THEN "fresh" ELSE dec.celt
        /\ pkt.mode # "celt" => dec'.celt = dec.celt
    BY <1>2, <1>3, PrologueFact
  <2>2. pkt.mode = "celt" => dec'.celt \in {"fresh", "toCelt", "celt"}
    BY <1>2, <2>1 DEF BetweenPackets, Promised, SilkModes, Modes
  <2>3. /\ pkt.mode = "hybrid" /\ lastMode = "hybrid" => dec'.celt = "hybrid"
        /\ pkt.mode = "hybrid" /\ lastMode = "none" => dec'.celt = "fresh"
    BY <1>2, <1>7, <2>1 DEF BetweenPackets
  <2>. QED
    BY <1>4, <1>6, <2>2, <2>3 DEF CeltInPacket
<1>10. SeamInPacket'
  BY <1>4, <1>6 DEF SeamInPacket
<1>. QED
  BY <1>3, <1>5, <1>8, <1>9, <1>10

(* The first frame of a packet of SILK's or a hybrid one joins the seam:   *)
(* the redundant frame it begins with, or the fade for want of one.        *)
LEMMA BridgesFact ==
  ASSUME InPacket, SeamInPacket, IsCall, ~Free, call.pkt.mode # "celt",
         NEW fade, fade = (call.transition /\ FirstFrame /\ FrameInHand = "none"),
         NEW out, out = (FrameInHand = "toSilk"), Bridges(fade, out)
  PROVE  /\ DOMAIN seam' = {"mode", "after", "by"}
         /\ seam'.mode = seam.mode /\ seam'.after = seam.after
         /\ SeamHolds'
<1>1. /\ DOMAIN seam' = {"mode", "after", "by"}
      /\ seam'.mode = seam.mode /\ seam'.after = seam.after
      /\ seam'.by = seam.by \cup (IF fade THEN {"fade"} ELSE {})
                            \cup (IF FirstFrame /\ out THEN {"toSilk"} ELSE {})
  BY DEF Bridges, InPacket
<1>2. CASE call.at # 1
  <2>1. seam'.by = seam.by
    BY <1>1, <1>2 DEF FirstFrame
  <2>. QED
    BY <1>1, <1>2, <2>1 DEF SeamInPacket, SeamHolds
<1>3. CASE call.at = 1
  <2>1. /\ seam.by = {} /\ call.transition = (seam.after = "celt")
        /\ seam.mode # "celt" /\ FrameInHand = call.pkt.frames[1]
    BY <1>3 DEF SeamInPacket, InPacket, FrameInHand
  <2>2. FrameInHand \in Redundancy
    <3>1. call.pkt \in Packets
      BY DEF IsCall, Free
    <3>. QED
      BY <2>1, <3>1, PacketFact
  <2>3. CASE seam.after = "celt"
    <3>1. FrameInHand # "toCelt"
      BY <2>1, <2>3 DEF InPacket, SilkModes
    <3>2. seam'.by = {"fade"} \/ seam'.by = {"toSilk"}
      BY <1>1, <1>3, <2>1, <2>2, <2>3, <3>1 DEF FirstFrame, Redundancy
    <3>3. Cardinality(seam'.by) = 1
      BY <3>2, OneBridge
    <3>. QED
      BY <1>1, <2>1, <2>3, <3>3 DEF SeamHolds
  <2>4. CASE seam.after # "celt"
    <3>1. "fade" \notin seam'.by
      BY <1>1, <2>1, <2>4
    <3>. QED
      BY <1>1, <2>1, <2>4, <3>1 DEF SeamHolds
  <2>. QED
    BY <2>3, <2>4
<1>. QED
  BY <1>1, <1>2, <1>3

(* Only the last frame of a packet promises.                               *)
LEMMA PromiseFact ==
  ASSUME InPacket, IsCall, ~Free
  PROVE  /\ call.pkt \in Packets /\ call.at \in 1 .. Len(call.pkt.frames)
         /\ Len(call.pkt.frames) \in Nat
         /\ call.at # Len(call.pkt.frames) => FrameInHand # "toCelt"
         /\ call.at # 1 => FrameInHand # "toSilk"
         /\ call.at = Len(call.pkt.frames) => sent.promised = (FrameInHand = "toCelt")
         /\ sent.mode = call.pkt.mode
<1>1. call.pkt \in Packets /\ call.at \in 1 .. Len(call.pkt.frames)
  BY DEF IsCall, Free
<1>2. Len(call.pkt.frames) \in Nat /\ DOMAIN call.pkt.frames = 1 .. Len(call.pkt.frames)
  BY <1>1, PacketFact
<1>3. Placed(call.pkt.frames) /\ sent = Sent(call.pkt)
  BY DEF InPacket
<1>. QED
  BY <1>1, <1>2, <1>3 DEF Placed, Sent, FrameInHand

(* What a frame leaves keeps the invariant: between packets after the last *)
(* frame of one, and before the next after another.                        *)
LEMMA FrameWhole ==
  ASSUME GapInv, InPacket, ~Free, NEW d, IsDecoder(d), FrameDone(d, call.pkt.mode),
         d.prevRedundancy = (call.pkt.mode # "celt" /\ FrameInHand = "toCelt"),
         call.pkt.mode = "celt" => d.celt = "celt",
         call.pkt.mode # "celt" /\ FrameInHand = "toCelt" => d.celt = "toCelt",
         call.pkt.mode = "hybrid" /\ FrameInHand # "toCelt" => d.celt = "hybrid",
         DOMAIN seam' = {"mode", "after", "by"}, seam'.mode = seam.mode,
         seam'.after = seam.after, SeamHolds',
         \A join \in joins' : join.onto \in {"fresh", "toCelt", join.mode}
  PROVE  WholeInv'
<1>. DEFINE mode == call.pkt.mode
<1>1. /\ IsCall /\ call.pkt \in Packets /\ call.at \in 1 .. Len(call.pkt.frames)
      /\ Len(call.pkt.frames) \in Nat
      /\ call.at # Len(call.pkt.frames) => FrameInHand # "toCelt"
      /\ call.at = Len(call.pkt.frames) => sent.promised = (FrameInHand = "toCelt")
      /\ sent.mode = mode /\ lastMode = mode /\ mode \in Modes
  BY PromiseFact, PacketFact DEF GapInv, InPacket
<1>. HIDE DEF mode
<1>2. /\ IsDecoder(dec') /\ UNCHANGED <<setup, sent, lossy, lastMode>>
      /\ dec'.prevRedundancy = d.prevRedundancy /\ dec'.celt = d.celt
      /\ IF call.at = Len(call.pkt.frames)
         THEN call' = Idle /\ dec'.prevMode = mode
         ELSE /\ ~Free' /\ dec'.prevMode = d.prevMode
              /\ call'.pkt = call.pkt /\ call'.at = call.at + 1
              /\ call'.before = mode /\ call'.transition = call.transition
  BY <1>1, FrameDoneFact DEF mode
<1>3. CASE call.at = Len(call.pkt.frames)
  <2>1. Free'
    BY <1>2, <1>3 DEF Free
  <2>2. Promised' = d.prevRedundancy
    BY <1>1, <1>2, <1>3 DEF Promised, SilkModes, Modes, mode
  <2>3. /\ lastMode' = mode /\ sent'.mode = mode /\ dec'.prevMode = mode
        /\ dec'.prevRedundancy = Promised'
    BY <1>1, <1>2, <1>3, <2>2
  <2>4. /\ mode = "celt" => dec'.celt = "celt"
        /\ mode \in SilkModes /\ Promised' => dec'.celt = "toCelt"
        /\ mode = "hybrid" /\ ~Promised' => dec'.celt = "hybrid"
    BY <1>1, <1>2, <2>2 DEF mode, SilkModes
  <2>5. BetweenPackets'
    BY <1>1, <2>3, <2>4 DEF BetweenPackets, Modes
  <2>. QED
    BY <2>1, <2>5 DEF WholeInv
<1>4. CASE call.at # Len(call.pkt.frames)
  <2>1. /\ ~Free' /\ call'.pkt = call.pkt /\ call'.at # 1 /\ call'.before = call'.pkt.mode
    BY <1>1, <1>2, <1>4 DEF mode
  <2>2. InPacket'
    BY <1>1, <1>2, <1>4, <2>1 DEF InPacket, mode
  <2>3. CeltInPacket'
    BY <1>1, <1>2, <1>4, <2>1 DEF CeltInPacket, mode
  <2>4. SeamInPacket'
    BY <2>1 DEF SeamInPacket
  <2>. QED
    BY <2>1, <2>2, <2>3, <2>4 DEF WholeInv
<1>. QED
  BY <1>3, <1>4

LEMMA SilkFrameWhole ==
  ASSUME GapInv, WholeInv, SilkFrame
  PROVE  WholeInv'
<1>1. ~Free /\ IsCall /\ IsDecoder(dec) /\ call.pkt.mode = "silk"
  BY IdleFact DEF SilkFrame, Decoding, GapInv
<1>2. PICK d : /\ IsDecoder(d) /\ d.prevRedundancy = (RedundantOfSilk = "toCelt")
               /\ RedundantOfSilk = "toCelt" => d.celt = "toCelt"
               /\ FrameDone(d, "silk")
  BY <1>1, SilkFrameFact
<1>3. Whole' => Whole
  BY <1>2 DEF Whole, FrameDone, setup
<1>4. ASSUME Whole PROVE WholeInv'
  <2>1. InPacket /\ SeamInPacket /\ RedundantOfSilk = FrameInHand
    BY <1>1, <1>4 DEF WholeInv, Whole, RedundantOfSilk
  <2>. DEFINE fade == call.transition /\ FirstFrame /\ RedundantOfSilk = "none"
              out  == RedundantOfSilk = "toSilk"
  <2>2. Bridges(fade, out) /\ joins' = {}
    BY DEF SilkFrame, RedundantOfSilk
  <2>3. /\ fade = (call.transition /\ FirstFrame /\ FrameInHand = "none")
        /\ out = (FrameInHand = "toSilk")
    BY <2>1
  <2>. HIDE DEF fade, out
  <2>4. /\ DOMAIN seam' = {"mode", "after", "by"}
        /\ seam'.mode = seam.mode /\ seam'.after = seam.after /\ SeamHolds'
    BY <1>1, <2>1, <2>2, <2>3, BridgesFact
  <2>. QED
    BY <1>1, <1>2, <2>1, <2>2, <2>4, FrameWhole
<1>. QED
  BY <1>3, <1>4 DEF WholeInv

(* A hybrid frame's audio goes onto what is CELT's own.                    *)
LEMMA HybridJoin ==
  ASSUME InPacket, CeltInPacket, SeamInPacket, IsCall, ~Free, call.pkt.mode = "hybrid",
         NEW onto, ResetForHybrid(dec) => onto = "fresh",
         ~ResetForHybrid(dec) /\ ~FadesHybrid /\ ~FadesOutHybrid => onto = dec.celt
  PROVE  onto \in {"fresh", "hybrid"}
<1>1. CASE call.at # 1
  <2>1. ~ResetForHybrid(dec) /\ ~FadesHybrid /\ ~FadesOutHybrid
    BY <1>1, PromiseFact DEF ResetForHybrid, FadesHybrid, FadesOutHybrid, FirstFrame
  <2>2. dec.celt = "hybrid"
    BY <1>1 DEF CeltInPacket
  <2>. QED
    BY <2>1, <2>2
<1>2. CASE call.at = 1 /\ seam.after \in {"none", "hybrid"}
  <2>1. call.before = seam.after
    BY <1>2 DEF InPacket
  <2>2. ~ResetForHybrid(dec) /\ ~FadesHybrid
    BY <1>2, <2>1 DEF ResetForHybrid, FadesHybrid, SeamInPacket
  <2>3. ~FadesOutHybrid
    BY <1>2 DEF FadesOutHybrid, FrameInHand, InPacket
  <2>4. dec.celt \in {"fresh", "hybrid"}
    BY <1>2 DEF CeltInPacket
  <2>. QED
    BY <2>2, <2>3, <2>4
<1>3. CASE call.at = 1 /\ seam.after \notin {"none", "hybrid"}
  BY <1>3 DEF InPacket, ResetForHybrid, FirstFrame
<1>. QED
  BY <1>1, <1>2, <1>3

LEMMA HybridFrameWhole ==
  ASSUME GapInv, WholeInv, HybridFrame
  PROVE  WholeInv'
<1>1. ~Free /\ IsCall /\ IsDecoder(dec) /\ call.pkt.mode = "hybrid"
  BY IdleFact DEF HybridFrame, Decoding, GapInv
<1>2. PICK d, onto :
        /\ IsDecoder(d) /\ d.prevRedundancy = (FrameInHand = "toCelt")
        /\ d.celt = IF fullRate /\ FrameInHand = "toCelt" THEN "toCelt" ELSE "hybrid"
        /\ FrameDone(d, "hybrid")
        /\ joins' = {[onto |-> onto, mode |-> "hybrid", before |-> call.before]}
        /\ ResetForHybrid(dec) => onto = "fresh"
        /\ ~ResetForHybrid(dec) /\ ~FadesHybrid /\ ~FadesOutHybrid => onto = dec.celt
  BY <1>1, HybridFrameFact
<1>3. Whole' => Whole
  BY <1>2 DEF Whole, FrameDone, setup
<1>4. ASSUME Whole PROVE WholeInv'
  <2>1. InPacket /\ CeltInPacket /\ SeamInPacket /\ fullRate
    BY <1>1, <1>4 DEF WholeInv, Whole
  <2>. DEFINE fade == call.transition /\ FirstFrame /\ FrameInHand = "none"
              out  == fullRate /\ FrameInHand = "toSilk"
  <2>2. Bridges(fade, out)
    BY DEF HybridFrame
  <2>3. out = (FrameInHand = "toSilk")
    BY <2>1
  <2>. HIDE DEF out
  <2>4. /\ DOMAIN seam' = {"mode", "after", "by"}
        /\ seam'.mode = seam.mode /\ seam'.after = seam.after /\ SeamHolds'
    BY <1>1, <2>1, <2>2, <2>3, BridgesFact
  <2>5. \A join \in joins' : join.onto \in {"fresh", "toCelt", join.mode}
    <3>1. onto \in {"fresh", "hybrid"}
      BY <1>1, <1>2, <2>1, HybridJoin
    <3>. QED
      BY <1>2, <3>1
  <2>. QED
    BY <1>1, <1>2, <2>1, <2>4, <2>5, FrameWhole
<1>. QED
  BY <1>3, <1>4 DEF WholeInv

LEMMA CeltFrameWhole ==
  ASSUME GapInv, WholeInv, CeltFrame
  PROVE  WholeInv'
<1>1. ~Free /\ IsCall /\ IsDecoder(dec) /\ call.pkt.mode = "celt"
  BY IdleFact DEF CeltFrame, Decoding, GapInv
<1>2. PICK d : /\ IsDecoder(d) /\ d.prevRedundancy = dec.prevRedundancy
               /\ d.celt = "celt" /\ FrameDone(d, "celt")
  BY <1>1, CeltFrameFact
<1>3. Whole' => Whole
  BY <1>2 DEF Whole, FrameDone, setup
<1>4. ASSUME Whole PROVE WholeInv'
  <2>1. InPacket /\ CeltInPacket /\ SeamInPacket
    BY <1>1, <1>4 DEF WholeInv
  <2>2. d.prevRedundancy = FALSE
    BY <1>1, <1>2, <2>1 DEF InPacket, IsDecoder
  <2>3. UNCHANGED seam /\ SeamHolds /\ DOMAIN seam = {"mode", "after", "by"}
    BY <1>1, <2>1 DEF CeltFrame, SeamInPacket, InPacket
  <2>4. SeamHolds'
    BY <2>3 DEF SeamHolds
  <2>5. dec.celt \in {"fresh", "toCelt", "celt"}
    BY <1>1, <2>1 DEF CeltInPacket
  <2>6. joins' = {[onto |-> dec.celt, mode |-> "celt", before |-> call.before]}
    BY DEF CeltFrame, Joins
  <2>7. \A join \in joins' : join.onto \in {"fresh", "toCelt", join.mode}
    BY <2>5, <2>6
  <2>. QED
    BY <1>1, <1>2, <2>1, <2>2, <2>3, <2>4, <2>7, FrameWhole
<1>. QED
  BY <1>3, <1>4 DEF WholeInv

LEMMA WholeStep == GapInv /\ WholeInv /\ [DecoderNext]_decoderVars => WholeInv'
<1>. SUFFICES ASSUME GapInv, WholeInv, [DecoderNext]_decoderVars PROVE WholeInv'
  OBVIOUS
<1>1. ASSUME NEW pkt \in Packets, DecodePacket(pkt) PROVE WholeInv'
  BY <1>1, PacketWhole
<1>2. CASE SilkFrame
  BY <1>2, SilkFrameWhole
<1>3. CASE HybridFrame
  BY <1>3, HybridFrameWhole
<1>4. CASE CeltFrame
  BY <1>4, CeltFrameWhole
<1>5. ASSUME NEW room, Conceal(room) PROVE WholeInv'
  BY <1>5 DEF Conceal, WholeInv, Whole
<1>6. ASSUME NEW pkt, NEW room, NEW parses, DecodeFec(pkt, room, parses) PROVE WholeInv'
  BY <1>6 DEF DecodeFec, WholeInv, Whole
<1>7. CASE ResetState
  <2>1. NewDecoder.prevMode = "none" /\ NewDecoder.prevRedundancy = FALSE
        /\ NewDecoder.celt = "fresh"
    BY NewDecoderFact DEF GapInv
  <2>. QED
    BY <1>7, <2>1
    DEF ResetState, WholeInv, BetweenPackets, Promised, SeamHolds, NoSeam, SilkModes, Free
<1>8. CASE UNCHANGED decoderVars
  BY <1>8
  DEF decoderVars, setup, WholeInv, Whole, BetweenPackets, Promised, SeamHolds, InPacket,
      CeltInPacket, SeamInPacket, Free
<1>. QED
  BY <1>1, <1>2, <1>3, <1>4, <1>5, <1>6, <1>7, <1>8 DEF DecoderNext

LEMMA WholeInvariance == DecoderSpec => [](GapInv /\ WholeInv)
<1>1. DecoderInit => GapInv /\ WholeInv
  BY InitGap, InitWhole
<1>2. GapInv /\ WholeInv /\ [DecoderNext]_decoderVars => (GapInv /\ WholeInv)'
  BY GapStep, WholeStep
<1>. QED
  BY <1>1, <1>2, PTL DEF DecoderSpec

(* Whatever modes and redundant frames follow each other in a stream that  *)
(* is received whole, CELT's audio goes onto its own.                      *)
THEOREM OwnIsJoined == DecoderSpec => []ReceivedJoinsItsOwn
<1>1. GapInv /\ WholeInv => ReceivedJoinsItsOwn
  BY DEF WholeInv, Whole, ReceivedJoinsItsOwn
<1>. QED
  BY WholeInvariance, <1>1, PTL

(* The redundant frame "replaces the cross-fade rather than stacking with  *)
(* it" (decoder.rs:1262-1264), and where there is none it is not missed.   *)
THEOREM SeamsAreJoinedOnce == DecoderSpec => []SeamJoinedOnce
<1>1. GapInv /\ WholeInv => SeamJoinedOnce
  <2>. SUFFICES ASSUME GapInv, WholeInv, Whole, call.at # 1 PROVE SeamHolds
    BY DEF SeamJoinedOnce, SeamHolds, Whole
  <2>. QED
    BY DEF WholeInv, SeamInPacket
<1>. QED
  BY WholeInvariance, <1>1, PTL

(***************************************************************************)
(* Trim and Gapless.  A decode rate is one of five numbers of ticks, so    *)
(* every division is by one of five constants; the lemmas about division   *)
(* are proved by cases.                                                    *)
(***************************************************************************)
(* Division by a number of ticks is a natural number, and the lead is the  *)
(* least number of samples that covers the pre-skip.                       *)
LEMMA CeilDivFact ==
  ASSUME NEW t \in TickValues, NEW p \in Nat
  PROVE  /\ CeilDiv(p, t) \in Nat
         /\ CeilDiv(p, t) * t >= p
         /\ CeilDiv(p, t) * t < p + t
  BY DEF TickValues, CeilDiv

(* What n samples may have played, less the pre-skip, is n less the lead:  *)
(* rounding one down and the other up agree.                               *)
LEMMA PlayableOfHonest ==
  ASSUME NEW t \in TickValues, NEW p \in Nat, NEW n \in Nat, NEW g \in Nat, g >= n * t
  PROVE  SatSub(g, p) \div t >= SatSub(n, CeilDiv(p, t))
  BY DEF TickValues, CeilDiv, SatSub

LEMMA DivFact ==
  ASSUME NEW t \in TickValues, NEW a \in Nat
  PROVE  /\ a \div t \in Nat
         /\ (a \div t) * t <= a
  BY DEF TickValues

LEMMA TimesFact ==
  ASSUME NEW t \in TickValues, NEW a \in Nat, NEW b \in Nat, a <= b
  PROVE  /\ a * t \in Nat /\ b * t \in Nat /\ a * t <= b * t
         /\ b > 0 => b * t > 0
  BY DEF TickValues

(* What keep_range gives back is what it does not take off the front, less *)
(* what the granule takes off the back.                                    *)
LEMMA KeptFact ==
  ASSUME TrimTypeOK, NEW total \in Nat, NEW stated \in Int
  PROVE  /\ Start(total) \in 0 .. total /\ Start(total) <= skipRemaining
         /\ Kept(total, stated) \in 0 .. total - Start(total)
         /\ stated >= 0 => Playable(stated) \in Nat
         /\ stated >= 0 => Kept(total, stated) <= SatSub(Playable(stated), emitted)
<1>1. /\ Start(total) \in 0 .. total
      /\ Start(total) <= skipRemaining
  BY DEF TrimTypeOK, Start, Least
<1>2. stated >= 0 => Playable(stated) \in Nat
  BY DivFact DEF TrimTypeOK, Playable, SatSub
<1>. QED
  BY <1>1, <1>2 DEF TrimTypeOK, Kept, Least, SatSub

(***************************************************************************)
(* The inductive invariant: the delay still to discard is what the samples *)
(* decoded so far have not covered, and what was emitted is no more than   *)
(* what they have covered beyond it.                                       *)
(***************************************************************************)
TrimInv ==
  /\ TrimTypeOK
  /\ skipRemaining = SatSub(Lead, fed)
  /\ emitted <= SatSub(fed, Lead)
  /\ HonestIsExact

LEMMA TrimInitInv == TrimInit => TrimInv
  BY CeilDivFact, PreSkipAssumption
  DEF TrimInit, TrimInv, TrimTypeOK, Lead, SatSub, HonestIsExact

LEMMA KeepInv ==
  ASSUME TrimInv, NEW total \in Nat, NEW stated \in Int, Keep(total, stated)
  PROVE  TrimInv'
<1>. DEFINE rest == total - Start(total)
<1>0. /\ TrimTypeOK
      /\ Start(total) \in Nat /\ Start(total) <= skipRemaining
      /\ rest \in Nat /\ Kept(total, stated) \in 0 .. rest
  <2>1. TrimTypeOK
    BY DEF TrimInv
  <2>2. /\ Start(total) \in 0 .. total /\ Start(total) <= skipRemaining
        /\ Kept(total, stated) \in 0 .. rest
    BY <2>1, KeptFact
  <2>. QED
    BY <2>1, <2>2
<1>1. /\ ticks' = ticks /\ preSkip' = preSkip
      /\ Lead' = Lead /\ Lead \in Nat
  BY CeilDivFact DEF Keep, TrimInv, TrimTypeOK, Lead
<1>2. TrimTypeOK'
  BY <1>0 DEF Keep, TrimTypeOK
<1>3. skipRemaining' = SatSub(Lead, fed')
  BY <1>1 DEF Keep, TrimInv, TrimTypeOK, Start, Least, SatSub
<1>4. SatSub(fed', Lead) = SatSub(fed, Lead) + rest /\ SatSub(fed, Lead) \in Nat
  BY <1>1 DEF Keep, TrimInv, TrimTypeOK, Start, Least, SatSub
<1>5. emitted' <= SatSub(fed', Lead)
  <2>1. emitted' = emitted + Kept(total, stated) /\ emitted <= SatSub(fed, Lead)
    BY DEF Keep, TrimInv
  <2>. QED
    BY <1>0, <1>1, <1>4, <2>1 DEF TrimTypeOK
<1>6. HonestIsExact'
  <2>. SUFFICES ASSUME honest' PROVE emitted' = SatSub(fed', Lead)
    BY <1>1 DEF HonestIsExact
  <2>1. /\ emitted = SatSub(fed, Lead)
        /\ stated < 0 \/ stated >= fed' * ticks
    BY DEF Keep, TrimInv, HonestIsExact
  <2>2. CASE stated < 0
    BY <2>1, <2>2, <1>0, <1>1, <1>4 DEF Keep, Kept, TrimInv, TrimTypeOK
  <2>3. CASE stated >= 0
    <3>1. stated >= fed' * ticks /\ fed' \in Nat
      BY <2>1, <2>3, <1>2 DEF TrimTypeOK
    <3>2. Playable(stated) >= SatSub(fed', Lead) /\ Playable(stated) \in Nat
      BY <3>1, <2>3, PlayableOfHonest, KeptFact DEF Playable, Lead, TrimInv, TrimTypeOK
    <3>3. Kept(total, stated) = rest
      BY <3>2, <2>1, <2>3, <1>0, <1>1, <1>4 DEF Kept, Least, SatSub, TrimInv, TrimTypeOK
    <3>. QED
      BY <3>3, <2>1, <1>4 DEF Keep
  <2>. QED
    BY <2>2, <2>3
<1>. QED
  BY <1>1, <1>2, <1>3, <1>5, <1>6 DEF TrimInv

LEMMA TrimStutter ==
  ASSUME TrimInv, UNCHANGED trimVars PROVE TrimInv'
  BY DEF TrimInv, trimVars, TrimTypeOK, HonestIsExact, Lead

LEMMA KeepNeverPast ==
  ASSUME TrimInv, NEW total \in Nat, NEW stated \in Int, Keep(total, stated),
         emitted' > emitted, lastGranule' >= 0
  PROVE  emitted' * ticks + preSkip <= lastGranule'
<1>1. TrimTypeOK /\ lastGranule' = stated /\ stated >= 0
  BY DEF Keep, TrimInv
<1>2. /\ Playable(stated) \in Nat /\ Kept(total, stated) \in Nat
      /\ Kept(total, stated) <= SatSub(Playable(stated), emitted)
  BY <1>1, KeptFact DEF TrimTypeOK
<1>3. Kept(total, stated) > 0 /\ emitted' = emitted + Kept(total, stated)
  BY <1>1, <1>2 DEF Keep, TrimTypeOK
<1>4. /\ emitted' \in Nat /\ emitted' <= Playable(stated)
      /\ Playable(stated) > 0
  BY <1>1, <1>2, <1>3 DEF SatSub, TrimTypeOK
<1>5. SatSub(stated, preSkip) \in Nat
  BY <1>1 DEF SatSub, TrimTypeOK
<1>6. Playable(stated) * ticks <= SatSub(stated, preSkip)
  BY <1>1, <1>5, DivFact DEF Playable, TrimTypeOK
<1>7. /\ emitted' * ticks <= Playable(stated) * ticks
      /\ Playable(stated) * ticks > 0
      /\ emitted' * ticks \in Nat /\ Playable(stated) * ticks \in Nat
  BY <1>1, <1>2, <1>4, TimesFact DEF TrimTypeOK
<1>. QED
  BY <1>1, <1>5, <1>6, <1>7 DEF SatSub, TrimTypeOK

(***************************************************************************)
(* Trim's theorems.                                                        *)
(***************************************************************************)
(* The inductive invariant holds of every behaviour.                       *)
THEOREM TrimInvariance == TrimSpec => []TrimInv
<1>1. TrimInit => TrimInv
  BY TrimInitInv
<1>2. TrimInv /\ [TrimNext]_trimVars => TrimInv'
  BY KeepInv, TrimStutter DEF TrimNext
<1>. QED
  BY <1>1, <1>2, PTL DEF TrimSpec

(* The counters of Trim never wrap, whatever a file says.                  *)
THEOREM TrimTyping == TrimSpec => []TrimTypeOK
<1>1. TrimInv => TrimTypeOK
  BY DEF TrimInv
<1>. QED
  BY <1>1, TrimInvariance, PTL

(* No sample is handed back that was not decoded, or that is delay.        *)
THEOREM NothingIsInvented == TrimSpec => []NothingInvented
<1>1. TrimInv => NothingInvented
  BY CeilDivFact DEF TrimInv, TrimTypeOK, NothingInvented, SatSub, Lead
<1>. QED
  BY <1>1, TrimInvariance, PTL

(* Honest granules clamp nothing, at every decode rate and pre-skip.       *)
THEOREM HonestExactness == TrimSpec => []HonestIsExact
<1>1. TrimInv => HonestIsExact
  BY DEF TrimInv
<1>. QED
  BY <1>1, TrimInvariance, PTL

(* Audio handed back never runs past the granule of its page.              *)
THEOREM GranuleBounds == TrimSpec => NeverPastTheGranule
<1>1. TrimInv /\ [TrimNext]_trimVars =>
        [emitted' > emitted /\ lastGranule' >= 0
           => emitted' * ticks + preSkip <= lastGranule']_trimVars
  BY KeepNeverPast DEF TrimNext
<1>. QED
  BY <1>1, TrimInvariance, PTL DEF TrimSpec, NeverPastTheGranule

(***************************************************************************)
(* The recipe: how many frames a clip takes.                               *)
(***************************************************************************)
LEMMA CeilDivBounds ==
  ASSUME NEW a \in Nat, NEW b \in Nat \ {0}
  PROVE  /\ CeilDiv(a, b) \in Nat
         /\ a <= CeilDiv(a, b) * b
         /\ CeilDiv(a, b) * b <= a + b - 1
  BY DEF CeilDiv

LEMMA FrameFact ==
  ASSUME NEW e \in TickValues
  PROVE  /\ FrameTicks \div e \in Nat \ {0}
         /\ (FrameTicks \div e) * e = FrameTicks
  BY ClipAssumption DEF TickValues

LEMMA MonotoneTimes ==
  ASSUME NEW e \in TickValues, NEW a \in Int, NEW b \in Int, a <= b
  PROVE  a * e <= b * e
  BY DEF TickValues

(* The number of frames is the least that holds the clip and the delay     *)
(* before it, so the file lacks, before the last of them, at least one     *)
(* tick and at most a frame.                                               *)
LEMMA FramesFact ==
  ASSUME encTicks \in TickValues, clip \in Nat \ {0}, preSkip \in Nat
  PROVE  /\ Frames \in Nat \ {0}
         /\ FinalGranule \in Nat
         /\ FinalGranule - (Frames - 1) * FrameTicks \in 1 .. FrameTicks
<1>. DEFINE lead == CeilDiv(preSkip, encTicks)
<1>1. /\ lead \in Nat
      /\ lead * encTicks >= preSkip
      /\ lead * encTicks < preSkip + encTicks
  BY CeilDivFact
<1>2. Frame \in Nat \ {0} /\ Frame * encTicks = FrameTicks
  BY FrameFact DEF Frame
<1>3. /\ Frames \in Nat
      /\ clip + lead <= Frames * Frame
      /\ Frames * Frame <= clip + lead + Frame - 1
  <2>1. Frames = CeilDiv(clip + lead, Frame) /\ clip + lead \in Nat
    BY <1>1 DEF Frames
  <2>. QED
    BY <1>2, <2>1, CeilDivBounds
<1>4. Frames # 0
  BY <1>1, <1>2, <1>3
<1>5. clip * encTicks \in Nat /\ lead * encTicks \in Nat /\ encTicks \in Nat
  BY <1>1 DEF TickValues
<1>6. (clip + lead) * encTicks = clip * encTicks + lead * encTicks
  BY <1>1, <1>5 DEF TickValues
<1>7. (Frames * Frame) * encTicks = Frames * FrameTicks
  BY <1>2, <1>3, ClipAssumption DEF TickValues
<1>8. clip * encTicks + lead * encTicks <= Frames * FrameTicks
  BY <1>1, <1>2, <1>3, <1>6, <1>7, MonotoneTimes
<1>9. Frames * FrameTicks <= clip * encTicks + lead * encTicks + FrameTicks - encTicks
  <2>1. (Frames * Frame) * encTicks <= (clip + lead + Frame - 1) * encTicks
    BY <1>1, <1>2, <1>3, MonotoneTimes
  <2>2. (clip + lead + Frame - 1) * encTicks
          = clip * encTicks + lead * encTicks + Frame * encTicks - encTicks
    BY <1>1, <1>2 DEF TickValues
  <2>. QED
    BY <2>1, <2>2, <1>2, <1>7
<1>10. (Frames - 1) * FrameTicks = Frames * FrameTicks - FrameTicks
  BY <1>3, ClipAssumption
<1>11. Frames * FrameTicks \in Nat /\ FrameTicks \in Nat
  BY <1>3, ClipAssumption
<1>. QED
  BY <1>1, <1>3, <1>4, <1>5, <1>8, <1>9, <1>10, <1>11 DEF FinalGranule

(***************************************************************************)
(* The inductive invariant: until its last packet the file holds a whole   *)
(* frame for every packet, and after it exactly what it should.            *)
(***************************************************************************)
GranuleSoFar ==
  Ours => /\ encoded <= Frames
          /\ encoded < Frames => granule = encoded * FrameTicks
          /\ encoded > 0 /\ ~sealed => filling > 0

GaplessInv == TypeOK /\ GranuleSoFar /\ (~sealed => Ours)

LEMMA InitGaplessInv == Init => GaplessInv
<1>. SUFFICES ASSUME Init PROVE GaplessInv
  OBVIOUS
<1>1. TrimTypeOK
  BY TrimInitInv DEF Init, TrimInv
<1>2. /\ clip \in Clips \cup {0} /\ encTicks \in TickValues
      /\ pages \in Seq(PageType) /\ sealed \in BOOLEAN /\ (~sealed => Ours)
  <2>1. CASE encTicks \in TickValues /\ clip \in Clips /\ pages = <<>> /\ sealed = FALSE
    <3>1. clip \in Nat \ {0} /\ clip \in Clips \cup {0}
      BY <2>1, ClipAssumption
    <3>2. Ours
      BY <3>1 DEF Ours
    <3>3. pages \in Seq(PageType)
      BY <2>1
    <3>. QED
      BY <2>1, <3>1, <3>2, <3>3, Zenon
  <2>2. CASE encTicks = 1 /\ clip = 0 /\ pages \in ForeignFiles /\ sealed = TRUE
    BY <2>2, FileAssumption DEF TickValues
  <2>. QED
    BY <2>1, <2>2 DEF Init
<1>3. TypeOK
  <2>1. /\ encoded = 0 /\ granule = 0 /\ filling = 0
        /\ reading = [page |-> 1, packet |-> 1]
    BY DEF Init
  <2>. QED
    BY <1>1, <1>2, <2>1 DEF TypeOK
<1>4. Ours => clip \in Nat \ {0} /\ preSkip \in Nat
  BY <1>1, <1>2, ClipAssumption DEF Ours, TrimTypeOK
<1>5. Ours => Frames \in Nat \ {0}
  BY <1>2, <1>4, FramesFact
<1>6. GranuleSoFar
  BY <1>5, ClipAssumption DEF Init, GranuleSoFar
<1>. QED
  BY <1>2, <1>3, <1>6 DEF GaplessInv

(* What the invariant says of a file being written.                        *)
LEMMA WritingFact ==
  ASSUME GaplessInv, ~sealed
  PROVE  /\ encTicks \in TickValues /\ clip \in Nat \ {0} /\ preSkip \in Nat
         /\ Frames \in Nat \ {0} /\ encoded \in 0 .. Frames
         /\ encoded < Frames => granule = encoded * FrameTicks
         /\ encoded < Frames => Duration \in 1 .. FrameTicks
         /\ encoded > 0 => filling > 0
<1>1. /\ encTicks \in TickValues /\ clip \in Nat \ {0} /\ preSkip \in Nat
      /\ encoded \in Nat
  BY ClipAssumption DEF GaplessInv, TypeOK, TrimTypeOK, Ours
<1>2. /\ Frames \in Nat \ {0}
      /\ FinalGranule - (Frames - 1) * FrameTicks \in 1 .. FrameTicks
  BY <1>1, FramesFact
<1>3. /\ encoded <= Frames
      /\ encoded < Frames => granule = encoded * FrameTicks
      /\ encoded > 0 => filling > 0
  BY DEF GaplessInv, GranuleSoFar
<1>4. encoded < Frames => Duration \in 1 .. FrameTicks
  <2>1. CASE encoded + 1 = Frames
    BY <1>1, <1>2, <1>3, <2>1 DEF Duration
  <2>2. CASE encoded + 1 # Frames
    BY <1>1, <1>2, <2>2, ClipAssumption DEF Duration
  <2>. QED
    BY <2>1, <2>2
<1>. QED
  BY <1>1, <1>2, <1>3, <1>4

(* The clip is not touched, so neither is what follows from it.            *)
LEMMA SameClip ==
  ASSUME UNCHANGED <<encTicks, clip, preSkip>>
  PROVE  UNCHANGED <<Frames, FinalGranule, Ours>>
  BY DEF Frames, Frame, FinalGranule, Ours

LEMMA EncodeFrameInv ==
  ASSUME GaplessInv, NEW full \in BOOLEAN, EncodeFrame(full)
  PROVE  GaplessInv'
<1>1. ~sealed /\ encoded < Frames /\ UNCHANGED <<trimVars, encTicks, clip, sealed, reading>>
  BY DEF EncodeFrame
<1>2. UNCHANGED <<Frames, FinalGranule, Ours>> /\ UNCHANGED preSkip
  BY <1>1, SameClip DEF trimVars
<1>3. /\ granule' = granule + Duration /\ encoded' = encoded + 1
      /\ Duration \in 1 .. FrameTicks /\ granule = encoded * FrameTicks
      /\ encoded \in Nat /\ Frames \in Nat
  BY <1>1, WritingFact DEF EncodeFrame
<1>4. granule \in Nat /\ granule' \in Nat /\ encoded' \in Nat /\ encoded' <= Frames
  BY <1>1, <1>3 DEF GaplessInv, TypeOK
<1>5. encoded' < Frames => granule' = encoded' * FrameTicks
  BY <1>3, ClipAssumption DEF Duration
<1>6. filling' \in Nat \ {0} /\ pages' \in Seq(PageType)
  <2>1. filling \in Nat /\ pages \in Seq(PageType)
    BY DEF GaplessInv, TypeOK
  <2>2. full => PageNow \in PageType
    BY <1>4, <2>1, ClipAssumption DEF EncodeFrame, PageNow, PageType
  <2>. QED
    BY <2>1, <2>2 DEF EncodeFrame
<1>7. TrimTypeOK'
  BY <1>1 DEF GaplessInv, TypeOK, TrimTypeOK, trimVars
<1>8. TypeOK'
  BY <1>1, <1>4, <1>6, <1>7 DEF GaplessInv, TypeOK
<1>9. GranuleSoFar'
  BY <1>2, <1>4, <1>5, <1>6 DEF GranuleSoFar
<1>. QED
  BY <1>1, <1>2, <1>8, <1>9 DEF GaplessInv

LEMMA SealInv ==
  ASSUME GaplessInv, Seal
  PROVE  GaplessInv'
<1>1. ~sealed /\ encoded = Frames /\ sealed'
      /\ UNCHANGED <<trimVars, encTicks, clip, encoded, granule, reading>>
  BY DEF Seal
<1>2. UNCHANGED <<Frames, FinalGranule, Ours>>
  BY <1>1, SameClip DEF trimVars
<1>3. filling > 0
  BY <1>1, WritingFact
<1>4. pages' \in Seq(PageType)
  <2>1. PageNow \in PageType /\ pages \in Seq(PageType)
    BY <1>3, ClipAssumption DEF GaplessInv, TypeOK, PageNow, PageType
  <2>. QED
    BY <2>1 DEF Seal
<1>5. TrimTypeOK'
  BY <1>1 DEF GaplessInv, TypeOK, TrimTypeOK, trimVars
<1>6. TypeOK'
  BY <1>1, <1>4, <1>5 DEF GaplessInv, TypeOK, Seal
<1>7. GranuleSoFar'
  BY <1>1, <1>2 DEF GaplessInv, GranuleSoFar
<1>. QED
  BY <1>1, <1>6, <1>7 DEF GaplessInv

(* A decoded packet is one Trim may be given.                              *)
LEMMA DecodeKeeps ==
  ASSUME GaplessInv, Decode
  PROVE  \E total \in Nat, granul \in Int : Keep(total, granul)
<1>1. pages[reading.page] \in PageType
  <2>1. pages \in Seq(PageType) /\ reading.page \in 1 .. Len(pages)
    BY DEF GaplessInv, TypeOK, Decode
  <2>. QED
    BY <2>1
<1>2. /\ pages[reading.page].span \in Nat /\ pages[reading.page].granule \in Int
      /\ ticks \in TickValues
  BY <1>1 DEF PageType, GaplessInv, TypeOK, TrimTypeOK
<1>3. pages[reading.page].span \div ticks \in Nat
  BY <1>2, DivFact
<1>. QED
  BY <1>2, <1>3 DEF Decode

LEMMA DecodeInv ==
  ASSUME GaplessInv, TrimInv, Decode
  PROVE  GaplessInv'
<1>1. UNCHANGED <<encTicks, clip, encoded, granule, pages, filling, sealed>> /\ sealed
  BY DEF Decode
<1>2. TrimTypeOK'
  BY DecodeKeeps, KeepInv DEF TrimInv
<1>3. reading' \in [page: Nat \ {0}, packet: Nat \ {0}]
  BY DEF Decode, GaplessInv, TypeOK
<1>4. UNCHANGED preSkip
  BY DEF Decode, Keep
<1>5. UNCHANGED <<Frames, FinalGranule, Ours>>
  BY <1>1, <1>4, SameClip
<1>6. TypeOK'
  BY <1>1, <1>2, <1>3 DEF GaplessInv, TypeOK
<1>7. GranuleSoFar'
  BY <1>1, <1>5 DEF GaplessInv, GranuleSoFar
<1>. QED
  BY <1>1, <1>6, <1>7 DEF GaplessInv

LEMMA StutterGaplessInv ==
  ASSUME GaplessInv, UNCHANGED vars
  PROVE  GaplessInv'
<1>1. UNCHANGED <<trimVars, encTicks, clip, encoded, granule, pages, filling, sealed, reading>>
  BY DEF vars, fileVars
<1>2. UNCHANGED <<Frames, FinalGranule, Ours>>
  BY <1>1, SameClip DEF trimVars
<1>3. TypeOK'
  BY <1>1 DEF GaplessInv, TypeOK, TrimTypeOK, trimVars
<1>4. GranuleSoFar'
  BY <1>1, <1>2 DEF GaplessInv, GranuleSoFar
<1>. QED
  BY <1>1, <1>2, <1>3, <1>4 DEF GaplessInv

LEMMA GaplessStep == GaplessInv /\ TrimInv /\ [Next]_vars => GaplessInv'
<1>. SUFFICES ASSUME GaplessInv, TrimInv, [Next]_vars PROVE GaplessInv'
  OBVIOUS
<1>1. CASE \E full \in BOOLEAN : EncodeFrame(full)
  BY <1>1, EncodeFrameInv
<1>2. CASE Seal
  BY <1>2, SealInv
<1>3. CASE Decode
  BY <1>3, DecodeInv
<1>4. CASE UNCHANGED vars
  BY <1>4, StutterGaplessInv
<1>. QED
  BY <1>1, <1>2, <1>3, <1>4 DEF Next

(* Every step of the recipe and of the loop is a step of Trim, or leaves   *)
(* Trim alone.                                                             *)
LEMMA StepOfTrim == GaplessInv /\ [Next]_vars => [TrimNext]_trimVars
<1>. SUFFICES ASSUME GaplessInv, [Next]_vars PROVE [TrimNext]_trimVars
  OBVIOUS
<1>1. CASE \E full \in BOOLEAN : EncodeFrame(full)
  BY <1>1 DEF EncodeFrame
<1>2. CASE Seal
  BY <1>2 DEF Seal
<1>3. CASE Decode
  BY <1>3, DecodeKeeps DEF TrimNext
<1>4. CASE UNCHANGED vars
  BY <1>4 DEF vars
<1>. QED
  BY <1>1, <1>2, <1>3, <1>4 DEF Next

LEMMA TrimInvStep == TrimInv /\ [TrimNext]_trimVars => TrimInv'
  BY KeepInv, TrimStutter DEF TrimNext

(***************************************************************************)
(* The file's theorems.                                                    *)
(***************************************************************************)
LEMMA GaplessInvariance == Spec => [](GaplessInv /\ TrimInv)
<1>1. Init => GaplessInv /\ TrimInv
  BY InitGaplessInv, TrimInitInv DEF Init
<1>2. GaplessInv /\ TrimInv /\ [Next]_vars => (GaplessInv /\ TrimInv)'
  BY GaplessStep, StepOfTrim, TrimInvStep
<1>. QED
  BY <1>1, <1>2, PTL DEF Spec

(* The recipe and the loop are well typed.                                 *)
THEOREM GaplessTyping == Spec => []TypeOK
<1>1. GaplessInv => TypeOK
  BY DEF GaplessInv
<1>. QED
  BY <1>1, GaplessInvariance, PTL

(* The last packet's duration is between 1 and one frame's worth, for      *)
(* every clip, rate, frame length and pre-skip: the recipe's subtraction   *)
(* does not wrap, and the writer does not refuse the packet.               *)
THEOREM LastDurationAlwaysFits == Spec => []LastDurationFits
<1>1. GaplessInv => LastDurationFits
  BY WritingFact DEF LastDurationFits
<1>. QED
  BY <1>1, GaplessInvariance, PTL

(* Reading any file is a behaviour of Trim ...                             *)
THEOREM GaplessImplementsTrim == Spec => TrimSpec
<1>1. Init => TrimInit
  BY DEF Init
<1>. QED
  BY <1>1, StepOfTrim, GaplessInvariance, PTL DEF Spec, TrimSpec

(* ... so that what holds of Trim holds of it: nothing is invented,        *)
THEOREM FileInventsNothing == Spec => []NothingInvented
  BY GaplessImplementsTrim, NothingIsInvented, PTL

(* honest granules clamp nothing,                                          *)
THEOREM HonestFileIsExact == Spec => []HonestIsExact
  BY GaplessImplementsTrim, HonestExactness, PTL

(* and no audio comes from past its page's granule.                        *)
THEOREM FileBounds == Spec => NeverPastTheGranule
  BY GaplessImplementsTrim, GranuleBounds, PTL

(***************************************************************************)
(* The clip comes back.  The invariant: through[i] packets are on the      *)
(* first i pages; every page states a whole frame for each packet through  *)
(* it, but the last, which states the length of the clip.  The loop has    *)
(* decoded the packets of the pages behind it and some of the next; until  *)
(* the last one no granule clamps anything, and that one clamps exactly.   *)
(***************************************************************************)
TicksOf(packets) == packets * FrameTicks

Paged(through) ==
  /\ through \in [0 .. Len(pages) -> Nat] /\ through[0] = 0
  /\ \A i \in 1 .. Len(pages) :
       /\ pages[i].span = FrameTicks
       /\ through[i] = through[i - 1] + pages[i].packets
       /\ pages[i].granule = IF sealed /\ i = Len(pages) THEN FinalGranule
                             ELSE TicksOf(through[i])
  /\ \A i \in 0 .. Len(pages) - 1 : through[i] < through[Len(pages)]
  /\ through[Len(pages)] + filling = encoded
  /\ encoded = Frames => granule = FinalGranule
  /\ sealed => encoded = Frames /\ filling = 0

Audio == (clip * encTicks) \div ticks

ReadTo(through) ==
  LET read == through[reading.page - 1] + reading.packet - 1
  IN /\ reading.page \in 1 .. Len(pages) + 1
     /\ reading.packet \in 1 .. IF reading.page > Len(pages) THEN 1
                                ELSE pages[reading.page].packets
     /\ fed * ticks = TicksOf(read)
     /\ read < Frames => honest
     /\ read = Frames => emitted = Audio
     /\ ~sealed => reading = [page |-> 1, packet |-> 1]

ClipInv == Ours => \E through : Paged(through) /\ ReadTo(through)

LEMMA ProductFact ==
  ASSUME NEW a \in Nat, NEW b \in Nat, NEW c \in Nat, a <= b
  PROVE  /\ a * c \in Nat /\ b * c \in Nat /\ a * c <= b * c
         /\ (a + 1) * c = a * c + c
<1>. DEFINE k == b - a
<1>1. k \in Nat /\ b = a + k
  OBVIOUS
<1>. HIDE DEF k
<1>2. a * c \in Nat /\ k * c \in Nat /\ (a + k) * c = a * c + k * c
  BY <1>1
<1>3. (a + 1) * c = a * c + c
  OBVIOUS
<1>. QED
  BY <1>1, <1>2, <1>3

LEMMA OursFact ==
  ASSUME GaplessInv, Ours
  PROVE  /\ encTicks \in TickValues /\ clip \in Nat \ {0} /\ preSkip \in Nat
         /\ Frames \in Nat \ {0} /\ FinalGranule \in Nat
         /\ FinalGranule - (Frames - 1) * FrameTicks \in 1 .. FrameTicks
         /\ ticks \in TickValues /\ fed \in Nat /\ emitted \in Nat
         /\ FrameTicks \in Nat \ {0}
<1>1. /\ encTicks \in TickValues /\ clip \in Nat \ {0} /\ preSkip \in Nat
      /\ ticks \in TickValues /\ fed \in Nat /\ emitted \in Nat
  BY ClipAssumption DEF GaplessInv, TypeOK, TrimTypeOK, Ours
<1>. QED
  BY <1>1, FramesFact, ClipAssumption

LEMMA PageFact ==
  ASSUME NEW s \in Seq(PageType), NEW i \in 1 .. Len(s)
  PROVE  s[i].packets \in Nat \ {0} /\ s[i].span \in Nat /\ s[i].granule \in Int
<1>1. s[i] \in PageType
  OBVIOUS
<1>. QED
  BY <1>1 DEF PageType

LEMMA InitClip == Init => ClipInv
<1>. SUFFICES ASSUME Init, Ours PROVE \E through : Paged(through) /\ ReadTo(through)
  BY DEF ClipInv
<1>1. /\ pages = <<>> /\ sealed = FALSE /\ encoded = 0 /\ filling = 0
      /\ reading = [page |-> 1, packet |-> 1] /\ fed = 0 /\ honest = TRUE
      /\ ticks \in TickValues
  BY ClipAssumption DEF Init, Ours, TrimInit
<1>2. Frames \in Nat \ {0}
  BY InitGaplessInv, OursFact
<1>. DEFINE through == [i \in {0} |-> 0]
<1>3. Len(pages) = 0 /\ 0 .. Len(pages) = {0} /\ 1 .. Len(pages) = {}
      /\ 0 .. Len(pages) - 1 = {}
  BY <1>1
<1>4. through \in [{0} -> Nat] /\ through[0] = 0
  OBVIOUS
<1>. HIDE DEF through
<1>5. Paged(through)
  BY <1>1, <1>2, <1>3, <1>4 DEF Paged
<1>6. ReadTo(through)
  <2>1. fed * ticks = 0 /\ TicksOf(0) = 0
    BY <1>1, ClipAssumption DEF TickValues, TicksOf
  <2>. QED
    BY <1>1, <1>2, <1>3, <1>4, <2>1 DEF ReadTo
<1>. QED
  BY <1>5, <1>6

(* One more page, of what has been filled.                                 *)
NextPage(through, more) ==
  /\ Len(pages') = Len(pages) + 1 /\ Len(pages) \in Nat
  /\ more \in [0 .. Len(pages') -> Nat] /\ more[0] = 0
  /\ more[Len(pages')] = encoded
  /\ \A i \in 0 .. Len(pages') - 1 : more[i] < more[Len(pages')] /\ more[i] = through[i]
  /\ \A i \in 1 .. Len(pages') :
       /\ pages'[i].span = FrameTicks
       /\ more[i] = more[i - 1] + pages'[i].packets
       /\ i # Len(pages') => pages'[i].granule = TicksOf(more[i])
       /\ i = Len(pages') => pages'[i].granule = granule

LEMMA PageWritten ==
  ASSUME GaplessInv, ~sealed, filling \in Nat \ {0}, NEW through, Paged(through),
         pages' = Append(pages, PageNow)
  PROVE  \E more : NextPage(through, more)
<1>. DEFINE more == [i \in 0 .. Len(pages) + 1 |->
                       IF i = Len(pages) + 1 THEN through[Len(pages)] + filling ELSE through[i]]
<1>1. /\ pages \in Seq(PageType) /\ Len(pages) \in Nat
      /\ through \in [0 .. Len(pages) -> Nat] /\ through[0] = 0
  BY DEF GaplessInv, TypeOK, Paged
<1>2. /\ Len(pages') = Len(pages) + 1 /\ pages'[Len(pages) + 1] = PageNow
      /\ \A i \in 1 .. Len(pages) : pages'[i] = pages[i]
  BY <1>1
<1>0. /\ through[Len(pages)] + filling = encoded
      /\ \A i \in 0 .. Len(pages) - 1 : through[i] < through[Len(pages)]
  BY Zenon DEF Paged
<1>3. /\ \A i \in 0 .. Len(pages) : more[i] = through[i]
      /\ more[Len(pages) + 1] = through[Len(pages)] + filling
      /\ through[Len(pages)] + filling = encoded /\ through[Len(pages)] \in Nat
      /\ DOMAIN more = 0 .. Len(pages) + 1
  BY <1>0, <1>1
<1>4. \A i \in 0 .. Len(pages) : more[i] \in Nat /\ more[i] < encoded
  <2>1. \A i \in 0 .. Len(pages) : through[i] \in Nat
    BY <1>1
  <2>2. \A i \in 0 .. Len(pages) : through[i] <= through[Len(pages)]
    <3>. TAKE i \in 0 .. Len(pages)
    <3>1. i = Len(pages) \/ i \in 0 .. Len(pages) - 1
      BY <1>1
    <3>. QED
      BY <1>0, <1>1, <2>1, <3>1
  <2>. QED
    BY <1>1, <1>3, <2>1, <2>2
<1>5. more \in [0 .. Len(pages') -> Nat]
  BY <1>1, <1>2, <1>3, <1>4
<1>6. ASSUME NEW i \in 1 .. Len(pages')
      PROVE  /\ pages'[i].span = FrameTicks
             /\ more[i] = more[i - 1] + pages'[i].packets
             /\ i # Len(pages') => pages'[i].granule = TicksOf(more[i])
             /\ i = Len(pages') => pages'[i].granule = granule
  <2>1. CASE i = Len(pages) + 1
    <3>1. pages'[i] = PageNow /\ more[i] = through[Len(pages)] + filling
          /\ more[i - 1] = through[Len(pages)]
      BY <1>1, <1>2, <1>3, <2>1
    <3>. QED
      BY <1>1, <1>2, <2>1, <3>1 DEF PageNow
  <2>2. CASE i # Len(pages) + 1
    <3>1. i \in 1 .. Len(pages) /\ i - 1 \in 0 .. Len(pages) /\ i \in 0 .. Len(pages)
      BY <1>1, <1>2, <2>2
    <3>2. pages'[i] = pages[i] /\ more[i] = through[i] /\ more[i - 1] = through[i - 1]
      BY <1>2, <1>3, <3>1
    <3>. QED
      BY <1>2, <2>2, <3>1, <3>2 DEF Paged
  <2>. QED
    BY <2>1, <2>2
<1>7. Len(pages') \in Nat /\ Len(pages') - 1 = Len(pages) /\ more[Len(pages')] = encoded
  BY <1>1, <1>2, <1>3
<1>8. \A i \in 0 .. Len(pages') - 1 : more[i] < more[Len(pages')] /\ more[i] = through[i]
  BY <1>3, <1>4, <1>7
<1>9. more[0] = 0
  BY <1>1, <1>3
<1>. HIDE DEF more
<1>10. NextPage(through, more)
  BY <1>1, <1>2, <1>5, <1>6, <1>7, <1>8, <1>9, Zenon DEF NextPage
<1>. QED
  BY <1>10

(* Writing does not touch what the loop has read.                          *)
LEMMA UnreadFact ==
  ASSUME GaplessInv, Ours, ~sealed, UNCHANGED <<trimVars, encTicks, clip, reading>>,
         NEW through, Paged(through), ReadTo(through),
         NEW more, more[0] = 0, Len(pages') \in Nat,
         \A i \in 1 .. Len(pages') : pages'[i].packets \in Nat \ {0}
  PROVE  ReadTo(more)'
<1>1. /\ reading.page = 1 /\ reading.packet = 1 /\ through[0] = 0
      /\ fed * ticks = TicksOf(through[0] + 1 - 1)
      /\ through[0] + 1 - 1 < Frames => honest
  BY DEF ReadTo, Paged
<1>2. through[0] + 1 - 1 = 0 /\ Frames \in Nat \ {0}
  BY <1>1, OursFact
<1>3. Frames' = Frames
  BY SameClip DEF trimVars
<1>4. /\ reading' = reading /\ reading = [page |-> 1, packet |-> 1] /\ fed' = fed
      /\ ticks' = ticks /\ honest' = honest
  BY DEF ReadTo, trimVars
<1>5. /\ reading'.page = 1 /\ reading'.packet = 1 /\ more[0] + 1 - 1 = 0
  BY <1>4
<1>. QED
  BY <1>1, <1>2, <1>3, <1>4, <1>5 DEF ReadTo

LEMMA EncodeFrameClip ==
  ASSUME GaplessInv, ClipInv, NEW full \in BOOLEAN, EncodeFrame(full)
  PROVE  ClipInv'
<1>1. ~sealed /\ encoded < Frames /\ UNCHANGED <<trimVars, encTicks, clip, sealed, reading>>
  BY DEF EncodeFrame
<1>2. UNCHANGED <<Frames, FinalGranule, Ours>>
  BY <1>1, SameClip DEF trimVars
<1>. SUFFICES ASSUME Ours PROVE \E through : Paged(through)' /\ ReadTo(through)'
  BY <1>2 DEF ClipInv
<1>3. PICK through : Paged(through) /\ ReadTo(through)
  BY DEF ClipInv
<1>4. /\ granule' = granule + Duration /\ encoded' = encoded + 1
      /\ granule = TicksOf(encoded) /\ encoded \in Nat /\ Frames \in Nat
      /\ filling \in Nat /\ pages \in Seq(PageType)
  BY <1>1, WritingFact DEF EncodeFrame, GaplessInv, TypeOK, TicksOf
<1>5. encoded' = Frames' => granule' = FinalGranule'
  BY <1>2, <1>4, OursFact DEF Duration, GaplessInv, TypeOK
<1>6. GaplessInv'
  BY EncodeFrameInv
<1>7. \A i \in 1 .. Len(pages') : pages'[i].packets \in Nat \ {0}
  <2>1. pages' \in Seq(PageType)
    BY <1>6 DEF GaplessInv, TypeOK
  <2>. QED
    BY <2>1, PageFact
<1>10. UNCHANGED <<trimVars, encTicks, clip, reading>>
  BY <1>1
<1>8. CASE ~full
  <2>1. pages' = pages /\ filling' = filling + 1
    BY <1>8 DEF EncodeFrame
  <2>2. through[Len(pages)] \in Nat /\ through[Len(pages)] + filling = encoded
    <3>1. through \in [0 .. Len(pages) -> Nat] /\ Len(pages) \in 0 .. Len(pages)
      BY <1>3, <1>4 DEF Paged
    <3>2. through[Len(pages)] + filling = encoded
      BY <1>3, Zenon DEF Paged
    <3>. QED
      BY <3>1, <3>2
  <2>3. through[Len(pages')] + filling' = encoded'
    BY <1>4, <2>1, <2>2
  <2>4. Paged(through)'
    BY <1>1, <1>2, <1>3, <1>5, <2>1, <2>3 DEF Paged
  <2>5. through[0] = 0 /\ Len(pages') \in Nat
    BY <1>3, <1>4, <2>1 DEF Paged
  <2>6. ReadTo(through)'
    BY <1>1, <1>3, <1>7, <1>10, <2>5, UnreadFact
  <2>. QED
    BY <2>4, <2>6
<1>9. CASE full
  <2>1. pages' = Append(pages, PageNow) /\ filling' = 1 /\ filling \in Nat \ {0}
    BY <1>4, <1>9 DEF EncodeFrame
  <2>2. PICK more : NextPage(through, more)
    BY <1>1, <1>3, <2>1, PageWritten
  <2>3. \A i \in 1 .. Len(pages') : pages'[i].granule = TicksOf(more[i])
    BY <1>4, <2>2, Zenon DEF NextPage
  <2>4. more[Len(pages')] + filling' = encoded'
    BY <1>4, <2>1, <2>2 DEF NextPage
  <2>5. Paged(more)'
    BY <1>1, <1>2, <1>5, <2>2, <2>3, <2>4 DEF Paged, NextPage
  <2>6. more[0] = 0 /\ Len(pages') \in Nat
    BY <2>2 DEF NextPage
  <2>7. ReadTo(more)'
    BY <1>1, <1>3, <1>7, <1>10, <2>6, UnreadFact
  <2>. QED
    BY <2>5, <2>7
<1>. QED
  BY <1>8, <1>9

LEMMA SealClip ==
  ASSUME GaplessInv, ClipInv, Seal
  PROVE  ClipInv'
<1>1. /\ ~sealed /\ encoded = Frames /\ sealed' /\ filling' = 0
      /\ pages' = Append(pages, PageNow)
      /\ UNCHANGED <<trimVars, encTicks, clip, encoded, granule, reading>>
  BY DEF Seal
<1>2. UNCHANGED <<Frames, FinalGranule, Ours>>
  BY <1>1, SameClip DEF trimVars
<1>. SUFFICES ASSUME Ours PROVE \E through : Paged(through)' /\ ReadTo(through)'
  BY <1>2 DEF ClipInv
<1>3. PICK through : Paged(through) /\ ReadTo(through)
  BY DEF ClipInv
<1>4. filling \in Nat \ {0} /\ encoded \in Nat
  BY <1>1, WritingFact DEF GaplessInv, TypeOK
<1>5. PICK more : NextPage(through, more)
  BY <1>1, <1>3, <1>4, PageWritten
<1>6. granule' = FinalGranule' /\ granule = FinalGranule
  BY <1>1, <1>2, <1>3, Zenon DEF Paged
<1>7. more[Len(pages')] + filling' = encoded' /\ encoded' = Frames'
  BY <1>1, <1>2, <1>4, <1>5 DEF NextPage
<1>8. Paged(more)'
  BY <1>1, <1>2, <1>5, <1>6, <1>7 DEF Paged, NextPage
<1>9. \A i \in 1 .. Len(pages') : pages'[i].packets \in Nat \ {0}
  <2>1. GaplessInv'
    BY SealInv
  <2>2. pages' \in Seq(PageType)
    BY <2>1 DEF GaplessInv, TypeOK
  <2>. QED
    BY <2>2, PageFact
<1>10. Len(pages') \in Nat /\ more[0] = 0
  BY <1>5 DEF NextPage
<1>11. ReadTo(more)'
  <2>1. UNCHANGED <<trimVars, encTicks, clip, reading>>
    BY <1>1
  <2>. QED
    BY <1>1, <1>3, <1>9, <1>10, <2>1, UnreadFact
<1>. QED
  BY <1>8, <1>11

(***************************************************************************)
(* The loop.  What one sample more or less is at the other rate: the clip  *)
(* lacks nothing of what is decoded before its last packet, and has no     *)
(* more than what is decoded with it.                                      *)
(***************************************************************************)
LEMMA AudioFact ==
  ASSUME NEW t \in TickValues, NEW p \in Nat, NEW c \in Nat, NEW n \in Nat
  PROVE  /\ c \div t \in Nat
         /\ n * t >= p + c => CeilDiv(p, t) + c \div t <= n
         /\ n * t < p + c => n <= CeilDiv(p, t) + c \div t
BY DEF TickValues, CeilDiv

LEMMA PlayableFact ==
  ASSUME GaplessInv, Ours
  PROVE  Playable(FinalGranule) = Audio /\ Audio \in Nat /\ FinalGranule >= 0
<1>1. /\ clip * encTicks \in Nat \ {0} /\ preSkip \in Nat /\ ticks \in TickValues
      /\ FinalGranule = preSkip + clip * encTicks
  BY OursFact DEF FinalGranule, TickValues
<1>. DEFINE c == clip * encTicks
<1>2. SatSub(FinalGranule, preSkip) = c
  BY <1>1 DEF SatSub
<1>3. c \div ticks \in Nat
  BY <1>1, DivFact
<1>. QED
  BY <1>1, <1>2, <1>3 DEF Playable, Audio

(* What Kept makes of the last packet.                                     *)
LEMMA LastKept ==
  ASSUME GaplessInv, TrimInv, Ours, NEW total \in Nat, Keep(total, FinalGranule),
         emitted = SatSub(fed, Lead),
         fed * ticks < FinalGranule, fed' * ticks >= FinalGranule
  PROVE  emitted' = Audio
<1>1. /\ ticks \in TickValues /\ preSkip \in Nat /\ fed \in Nat /\ emitted \in Nat
      /\ FinalGranule = preSkip + clip * encTicks /\ clip * encTicks \in Nat
  BY OursFact DEF FinalGranule, TickValues
<1>2. TrimTypeOK /\ skipRemaining = SatSub(Lead, fed) /\ fed' = fed + total
      /\ emitted' = emitted + Kept(total, FinalGranule)
  BY DEF TrimInv, Keep
<1>3. Lead \in Nat /\ Lead = CeilDiv(preSkip, ticks)
  BY <1>1, CeilDivFact DEF Lead
<1>4. /\ Audio \in Nat
      /\ Lead + Audio <= fed'
      /\ fed <= Lead + Audio
  <2>1. fed' \in Nat
    BY <1>1, <1>2
  <2>2. fed' * ticks >= preSkip + clip * encTicks /\ fed * ticks < preSkip + clip * encTicks
    BY <1>1
  <2>. HIDE DEF Lead
  <2>. QED
    BY <1>1, <1>3, <2>1, <2>2, AudioFact DEF Audio
<1>5. Kept(total, FinalGranule)
        = Least(SatSub(Audio, emitted), total - Start(total))
  BY PlayableFact DEF Kept
<1>6. emitted + (total - Start(total)) = SatSub(fed', Lead)
  BY <1>1, <1>2, <1>3 DEF Start, Least, SatSub
<1>7. Audio >= emitted /\ Audio <= SatSub(fed', Lead)
  BY <1>1, <1>2, <1>3, <1>4 DEF SatSub
<1>8. Start(total) \in Nat
  BY <1>1, <1>2, <1>3 DEF Start, Least, SatSub
<1>. QED
  BY <1>1, <1>2, <1>4, <1>5, <1>6, <1>7, <1>8 DEF Least, SatSub

LEMMA TicksFact ==
  ASSUME NEW a \in Nat, NEW b \in Nat, a <= b
  PROVE  /\ TicksOf(a) \in Nat /\ TicksOf(b) \in Nat /\ TicksOf(a) <= TicksOf(b)
         /\ TicksOf(a + 1) = TicksOf(a) + FrameTicks
<1>1. FrameTicks \in Nat
  BY ClipAssumption
<1>. QED
  BY <1>1, ProductFact DEF TicksOf

(* Where the loop is: a page that is there, and no further than its last   *)
(* packet.                                                                 *)
LEMMA PlaceFact ==
  ASSUME GaplessInv, Ours, NEW through, Paged(through), ReadTo(through), Decode
  PROVE  LET i == reading.page
             read == through[i - 1] + reading.packet - 1
         IN /\ i \in 1 .. Len(pages) /\ Len(pages) \in Nat
            /\ reading.packet \in 1 .. pages[i].packets /\ pages[i].packets \in Nat \ {0}
            /\ read \in Nat /\ read + 1 <= through[i] /\ through[i] <= Frames
            /\ through[i] = through[i - 1] + pages[i].packets /\ through[i - 1] \in Nat
            /\ i < Len(pages) => through[i] < Frames
            /\ pages[i].span = FrameTicks
            /\ pages[i].granule = IF i = Len(pages) THEN FinalGranule ELSE TicksOf(through[i])
            /\ fed * ticks = TicksOf(read)
            /\ honest /\ read < Frames
<1>. DEFINE i == reading.page
            read == through[i - 1] + reading.packet - 1
<1>1. /\ sealed /\ pages \in Seq(PageType) /\ i \in Nat \ {0} /\ i <= Len(pages)
      /\ Frames \in Nat \ {0}
  BY OursFact DEF Decode, GaplessInv, TypeOK
<1>2. i \in 1 .. Len(pages) /\ Len(pages) \in Nat /\ pages[i].packets \in Nat \ {0}
  BY <1>1, PageFact
<1>3. /\ through \in [0 .. Len(pages) -> Nat]
      /\ \A j \in 1 .. Len(pages) :
           /\ pages[j].span = FrameTicks
           /\ through[j] = through[j - 1] + pages[j].packets
           /\ pages[j].granule = IF j = Len(pages) THEN FinalGranule ELSE TicksOf(through[j])
      /\ \A j \in 0 .. Len(pages) - 1 : through[j] < through[Len(pages)]
      /\ through[Len(pages)] + filling = encoded /\ encoded = Frames /\ filling = 0
  BY <1>1 DEF Paged
<1>4. /\ reading.packet \in 1 .. pages[i].packets
      /\ fed * ticks = TicksOf(read) /\ (read < Frames => honest)
  BY <1>2 DEF ReadTo
<1>5. through[i] \in Nat /\ through[i - 1] \in Nat /\ through[Len(pages)] \in Nat
  BY <1>2, <1>3
<1>6. through[Len(pages)] = Frames
  BY <1>1, <1>3, <1>5
<1>7. /\ through[i] = through[i - 1] + pages[i].packets /\ pages[i].span = FrameTicks
      /\ pages[i].granule = IF i = Len(pages) THEN FinalGranule ELSE TicksOf(through[i])
  BY <1>2, <1>3
<1>8. /\ i < Len(pages) => through[i] < Frames
      /\ through[i] <= Frames
  <2>1. CASE i < Len(pages)
    BY <1>1, <1>2, <1>3, <1>5, <1>6, <2>1
  <2>2. CASE i = Len(pages)
    BY <1>1, <1>6, <2>2
  <2>. QED
    BY <1>2, <2>1, <2>2
<1>9. read \in Nat /\ read + 1 <= through[i] /\ read < Frames
  <2>. DEFINE before == through[i - 1]
              upTo   == through[i]
              inside == reading.packet
              within == pages[i].packets
  <2>1. /\ before \in Nat /\ upTo = before + within /\ upTo <= Frames
        /\ read = before + inside - 1
    BY <1>5, <1>7, <1>8, Zenon
  <2>2. inside \in 1 .. within /\ within \in Nat \ {0} /\ Frames \in Nat
    BY <1>1, <1>2, <1>4
  <2>. HIDE DEF before, upTo, inside, within, read
  <2>3. read \in Nat /\ read + 1 <= upTo /\ read < Frames
    BY <2>1, <2>2
  <2>. QED
    BY <2>3 DEF upTo
<1>. QED
  BY <1>2, <1>4, <1>5, <1>7, <1>8, <1>9

LEMMA DecodeClip ==
  ASSUME GaplessInv, TrimInv, ClipInv, Decode
  PROVE  ClipInv'
<1>1. /\ UNCHANGED <<encTicks, clip, encoded, granule, pages, filling, sealed>>
      /\ UNCHANGED <<ticks, preSkip>> /\ sealed
  BY DEF Decode, Keep
<1>2. UNCHANGED <<Frames, FinalGranule, Ours, Audio>>
  BY <1>1, SameClip DEF Audio
<1>. SUFFICES ASSUME Ours PROVE \E through : Paged(through)' /\ ReadTo(through)'
  BY <1>2 DEF ClipInv
<1>3. PICK through : Paged(through) /\ ReadTo(through)
  BY DEF ClipInv
<1>4. Paged(through)'
  BY <1>1, <1>2, <1>3 DEF Paged
<1>. DEFINE i     == reading.page
            read  == through[i - 1] + reading.packet - 1
            read2 == through[reading'.page - 1] + reading'.packet - 1
            total == FrameTicks \div ticks
<1>5. /\ i \in 1 .. Len(pages) /\ Len(pages) \in Nat
      /\ reading.packet \in 1 .. pages[i].packets /\ pages[i].packets \in Nat \ {0}
      /\ read \in Nat /\ read + 1 <= through[i] /\ through[i] <= Frames
      /\ through[i] = through[i - 1] + pages[i].packets /\ through[i - 1] \in Nat
      /\ i < Len(pages) => through[i] < Frames
      /\ pages[i].span = FrameTicks
      /\ pages[i].granule = IF i = Len(pages) THEN FinalGranule ELSE TicksOf(through[i])
      /\ fed * ticks = TicksOf(read)
      /\ honest /\ read < Frames
  BY <1>3, PlaceFact
<1>6. /\ ticks \in TickValues /\ fed \in Nat /\ Frames \in Nat \ {0} /\ FrameTicks \in Nat \ {0}
      /\ FinalGranule \in Nat /\ through \in [0 .. Len(pages) -> Nat]
      /\ FinalGranule - TicksOf(Frames - 1) \in 1 .. FrameTicks
  BY <1>3, OursFact DEF TicksOf, Paged
<1>7. total \in Nat /\ total * ticks = FrameTicks
  BY <1>6, FrameFact
<1>8. Keep(total, pages[i].granule)
  BY <1>5 DEF Decode
<1>9. /\ reading' = IF reading.packet < pages[i].packets
                    THEN [reading EXCEPT !.packet = @ + 1]
                    ELSE [page |-> i + 1, packet |-> 1]
      /\ reading \in [page: Nat \ {0}, packet: Nat \ {0}]
  BY DEF Decode, GaplessInv, TypeOK
<1>10. /\ reading'.page \in 1 .. Len(pages) + 1
       /\ reading'.packet \in 1 .. IF reading'.page > Len(pages) THEN 1
                                   ELSE pages[reading'.page].packets
       /\ read2 = read + 1
  <2>. DEFINE m == pages[i].packets
              p == reading.packet
              b == through[i - 1]
  <2>0. /\ i \in Nat \ {0} /\ i <= Len(pages) /\ Len(pages) \in Nat
        /\ p \in Nat \ {0} /\ p <= m /\ m \in Nat \ {0}
        /\ b \in Nat /\ through[i] = b + m /\ read = b + p - 1
    <3>1. i \in Nat \ {0} /\ i <= Len(pages) /\ Len(pages) \in Nat
      BY <1>5
    <3>2. p \in Nat \ {0} /\ p <= m /\ m \in Nat \ {0}
      BY <1>5
    <3>3. b \in Nat /\ through[i] = b + m /\ read = b + p - 1
      BY <1>5, Zenon
    <3>. QED
      BY <3>1, <3>2, <3>3
  <2>1. CASE p < m
    <3>1. reading'.page = i /\ reading'.packet = p + 1
      BY <1>9, <2>1
    <3>2. read2 = b + (p + 1) - 1
      BY <3>1
    <3>. HIDE DEF m, b, p, read, read2
    <3>3. reading'.page \in 1 .. Len(pages) + 1 /\ ~(i > Len(pages)) /\ p + 1 \in 1 .. m
      BY <2>0, <2>1, <3>1
    <3>4. read2 = read + 1
      BY <2>0, <3>2
    <3>. QED
      BY <3>1, <3>3, <3>4 DEF m
  <2>2. CASE ~(p < m)
    <3>1. reading'.page = i + 1 /\ reading'.packet = 1
      BY <1>9, <2>2
    <3>2. i + 1 <= Len(pages) => pages[i + 1].packets \in Nat \ {0}
      BY <2>0, PageFact DEF GaplessInv, TypeOK
    <3>3. read2 = through[i] /\ i + 1 - 1 = i
      BY <2>0, <3>1
    <3>. HIDE DEF m, b, p, read, read2
    <3>4. read2 = read + 1
      BY <2>0, <2>2, <3>3
    <3>5. reading'.page \in 1 .. Len(pages) + 1
      BY <2>0, <3>1
    <3>6. 1 \in 1 .. IF i + 1 > Len(pages) THEN 1 ELSE pages[i + 1].packets
      BY <2>0, <3>2
    <3>. QED
      BY <3>1, <3>4, <3>5, <3>6
  <2>. QED
    BY <2>1, <2>2
<1>. HIDE DEF total, read2
<1>11. /\ fed' = fed + total /\ lastGranule' = pages[i].granule
       /\ honest' = (honest /\ (pages[i].granule < 0 \/ pages[i].granule >= fed' * ticks))
  BY <1>8 DEF Keep
<1>12. /\ fed' * ticks = fed * ticks + FrameTicks
       /\ fed * ticks \in Nat
  <2>1. ASSUME NEW a \in Nat, NEW b \in Nat, NEW t \in TickValues
        PROVE  (a + b) * t = a * t + b * t /\ a * t \in Nat
    BY DEF TickValues
  <2>2. (fed + total) * ticks = fed * ticks + total * ticks /\ fed * ticks \in Nat
    BY <1>6, <1>7, <2>1
  <2>. QED
    BY <1>7, <1>11, <2>2
<1>. HIDE DEF read
<1>13. fed' * ticks = TicksOf(read + 1)
  BY <1>5, <1>12, TicksFact
<1>14. ASSUME read + 1 < Frames PROVE honest'
  <2>1. pages[i].granule >= TicksOf(read + 1)
    <3>1. CASE i = Len(pages)
      <4>1. TicksOf(read + 1) <= TicksOf(Frames - 1) /\ TicksOf(Frames - 1) \in Nat
            /\ TicksOf(read + 1) \in Nat
        BY <1>5, <1>6, <1>14, TicksFact
      <4>. QED
        BY <1>5, <1>6, <3>1, <4>1
    <3>2. CASE i # Len(pages)
      <4>1. through[i] \in Nat /\ pages[i].granule = TicksOf(through[i])
        BY <1>5, <1>6, <3>2
      <4>. QED
        BY <1>5, <4>1, TicksFact
    <3>. QED
      BY <3>1, <3>2
  <2>. QED
    BY <1>5, <1>11, <1>13, <2>1
<1>15. ASSUME read + 1 = Frames PROVE emitted' = Audio
  <2>1. i = Len(pages) /\ pages[i].granule = FinalGranule
    BY <1>5, <1>6, <1>15
  <2>2. emitted = SatSub(fed, Lead)
    BY <1>5 DEF TrimInv, HonestIsExact
  <2>3. read = Frames - 1 /\ TicksOf(Frames - 1) \in Nat
        /\ TicksOf(Frames - 1 + 1) = TicksOf(Frames - 1) + FrameTicks
    BY <1>5, <1>6, <1>15, TicksFact
  <2>4. fed * ticks < FinalGranule /\ fed' * ticks >= FinalGranule
    BY <1>5, <1>6, <1>12, <2>3
  <2>. QED
    BY <1>7, <1>8, <2>1, <2>2, <2>4, LastKept
<1>16. ReadTo(through)'
  <2>1. read2 < Frames' => honest'
    BY <1>2, <1>10, <1>14
  <2>2. read2 = Frames' => emitted' = Audio'
    BY <1>2, <1>10, <1>15
  <2>3. fed' * ticks' = TicksOf(read2)
    BY <1>1, <1>10, <1>13
  <2>. QED
    BY <1>1, <1>10, <2>1, <2>2, <2>3 DEF ReadTo, read2
<1>. QED
  BY <1>4, <1>16

LEMMA ClipStep == GaplessInv /\ TrimInv /\ ClipInv /\ [Next]_vars => ClipInv'
<1>. SUFFICES ASSUME GaplessInv, TrimInv, ClipInv, [Next]_vars PROVE ClipInv'
  OBVIOUS
<1>1. ASSUME NEW full \in BOOLEAN, EncodeFrame(full) PROVE ClipInv'
  BY <1>1, EncodeFrameClip
<1>2. CASE Seal
  BY <1>2, SealClip
<1>3. CASE Decode
  BY <1>3, DecodeClip
<1>4. CASE UNCHANGED vars
  <2>1. UNCHANGED <<trimVars, encTicks, clip, encoded, granule, pages, filling, sealed, reading>>
    BY <1>4 DEF vars, fileVars
  <2>2. UNCHANGED <<Frames, FinalGranule, Ours, Audio>>
    BY <2>1, SameClip DEF Audio, trimVars
  <2>. QED
    BY <2>1, <2>2 DEF ClipInv, Paged, ReadTo, trimVars
<1>. QED
  BY <1>1, <1>2, <1>3, <1>4 DEF Next

(* Every clip, encoded at any rate with any pre-skip and read at any rate, *)
(* comes back: at its own rate exactly as many samples as went in, at      *)
(* another as many as fit in its time.                                     *)
THEOREM EveryClipComesBack == Spec => []ComesBackExact
<1>1. GaplessInv /\ TrimInv /\ ClipInv => ComesBackExact
  <2>. SUFFICES ASSUME GaplessInv, ClipInv, Ours, Done PROVE emitted = Audio
    BY DEF ComesBackExact, Audio
  <2>1. PICK through : Paged(through) /\ ReadTo(through)
    BY DEF ClipInv
  <2>2. sealed /\ reading.page > Len(pages) /\ pages \in Seq(PageType)
    BY DEF Done, GaplessInv, TypeOK
  <2>3. reading.page = Len(pages) + 1 /\ reading.packet = 1
    BY <2>1, <2>2 DEF ReadTo
  <2>4. /\ through \in [0 .. Len(pages) -> Nat] /\ Len(pages) \in 0 .. Len(pages)
        /\ through[Len(pages)] + filling = encoded /\ encoded = Frames /\ filling = 0
    BY <2>1, <2>2 DEF Paged
  <2>5. through[reading.page - 1] + reading.packet - 1 = Frames
    BY <2>2, <2>3, <2>4
  <2>. QED
    BY <2>1, <2>5 DEF ReadTo
<1>2. Init => GaplessInv /\ TrimInv /\ ClipInv
  BY InitGaplessInv, TrimInitInv, InitClip DEF Init
<1>3. GaplessInv /\ TrimInv /\ ClipInv /\ [Next]_vars => (GaplessInv /\ TrimInv /\ ClipInv)'
  BY GaplessStep, StepOfTrim, TrimInvStep, ClipStep
<1>. QED
  BY <1>1, <1>2, <1>3, PTL DEF Spec
=============================================================================
