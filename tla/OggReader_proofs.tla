-------------------------- MODULE OggReader_proofs --------------------------
(***************************************************************************)
(* The demuxer, however the pages of its source are damaged and whenever   *)
(* the caller rewinds.  Of a source of one logical stream a pass after a   *)
(* rewind repeats the pass before; of one that was laid out as a muxer     *)
(* lays one out, splices are of lost pages; and of any source, what is     *)
(* handed out before an error is what the source holds.                    *)
(*                                                                         *)
(* What a call does depends on what the reader remembers and on nothing    *)
(* else, so it is first written once more as a function of that memory,    *)
(* and a pass is a run of the function.  What has to be shown is that the  *)
(* memory a rewind leaves is the one the constructor left.                 *)
(***************************************************************************)
EXTENDS OggReader, SequenceFacts, FiniteSetTheorems

(* A source of one logical stream: every first page names it, and the      *)
(* number the reader has before it met one (0) is no other stream's.  A    *)
(* chained source, whose second stream renames the one being read, is not  *)
(* replayed: the run reader_chained.                                       *)
Names(link, pages) ==
  \A p \in DOMAIN pages : /\ pages[p].bos => pages[p].serial = link
                          /\ pages[p].serial = 0 => link = 0
OneStream(pages) == \E link : Names(link, pages)
Link(pages) == CHOOSE link : Names(link, pages)

LEMMA LinkNames ==
  ASSUME NEW pages, OneStream(pages)
  PROVE  Names(Link(pages), pages)
BY DEF OneStream, Link

(***************************************************************************)
(* A pass as a run of a function.                                          *)
(***************************************************************************)
(* What the reader remembers, the stream's number apart.  The granule and  *)
(* the mark of the last page count while a packet of it is ready.          *)
Memory(place, partial, queue, granule, final, over, dry, busy, said) ==
  [pos |-> place, pending |-> partial, ready |-> queue,
   granule |-> IF queue = <<>> THEN -1 ELSE granule,
   final |-> IF queue = <<>> THEN FALSE ELSE final,
   over |-> over, dry |-> dry, busy |-> busy, said |-> said]

Present == Memory(pos, pending, ready, pageGranule, lastIsEos, sawEos, exhausted,
                  calling, answers)
Start   == Memory(audioStart, <<>>, <<>>, -1, FALSE, audioStartEos, FALSE, FALSE, <<>>)

FoundFrom(pages, place) ==
  LET from == IF place.inside THEN place.page + 1 ELSE place.page
      hits == {p \in from .. Len(pages) : pages[p].damage # "capture"}
  IN IF hits = {} THEN Len(pages) + 1 ELSE Min(hits)

Fails(s, place, partial) ==
  Memory(place, partial, <<>>, -1, FALSE, s.over, s.dry, FALSE, Append(s.said, Error))

TakesPage(s, pg, next, link) ==
  LET walk    == Split(s.pending, pg.segs)
      belongs == pg.bos \/ pg.serial = link
  IN IF belongs /\ (pg.continued <=> s.pending # <<>>)
     THEN Memory(next, walk.partial, walk.done, pg.granule, (pg.eos /\ walk.ended), pg.eos,
                 s.dry, IF walk.over THEN FALSE ELSE TRUE,
                 IF walk.over THEN Append(s.said, Error) ELSE s.said)
     ELSE Fails(s, next, IF belongs THEN <<>> ELSE s.pending)

Reads(pages, s) ==
  LET at == FoundFrom(pages, s.pos)
  IN IF s.pos = AtPage(Len(pages) + 1)
       THEN Memory(s.pos, s.pending, <<>>, -1, FALSE, s.over, TRUE, TRUE, s.said)
     ELSE IF at > Len(pages) THEN Fails(s, AtPage(Len(pages) + 1), s.pending)
     ELSE IF pages[at].damage = "none" THEN TakesPage(s, pages[at], AtPage(at + 1), Link(pages))
     ELSE IF pages[at].damage = "flipped" THEN Fails(s, pages[at].lands, s.pending)
     ELSE Fails(s, AtPage(at + 1), s.pending)

After(pages, s) ==
  IF ~s.busy
    THEN Memory(s.pos, s.pending, s.ready, s.granule, s.final, s.over, s.dry, TRUE, s.said)
  ELSE IF s.ready # <<>>
    THEN Memory(s.pos, s.pending, Tail(s.ready), s.granule, s.final, s.over, s.dry, FALSE,
                Append(s.said, Packet(s.ready[1], s.granule,
                                      (s.final /\ Tail(s.ready) = <<>>))))
  ELSE IF s.over \/ s.dry
    THEN Memory(s.pos, <<>>, <<>>, -1, FALSE, s.over, s.dry, FALSE,
                Append(s.said, IF s.pending = <<>> THEN End ELSE Error))
  ELSE Reads(pages, s)

Follows(pages, run, n) == \A i \in 0 .. n - 1 : run[i + 1] = After(pages, run[i])

Leads(pages, a, b) ==
  \E n \in Nat : \E run : run[0] = a /\ run[n] = b /\ Follows(pages, run, n)

(* Answers are only ever added to.                                         *)
IsAnswers(said) == \E S : said \in Seq(S)
Extends(longer, said) ==
  DOMAIN said \subseteq DOMAIN longer /\ \A i \in DOMAIN said : longer[i] = said[i]

LEMMA AppendExtends ==
  ASSUME NEW said, IsAnswers(said), NEW a
  PROVE  IsAnswers(Append(said, a)) /\ Extends(Append(said, a), said)
<1>1. PICK S : said \in Seq(S)
  BY DEF IsAnswers
<1>. DEFINE T == S \cup {a}
<1>2. said \in Seq(T) /\ a \in T
  BY <1>1
<1>3. Append(said, a) \in Seq(T) /\ Extends(Append(said, a), said)
  <2>. HIDE DEF T
  <2>. QED
    BY <1>2 DEF Extends
<1>. QED
  BY <1>3 DEF IsAnswers

(* A step adds an answer or none.                                          *)
LEMMA AfterSaid ==
  ASSUME NEW pages, NEW s
  PROVE  \/ After(pages, s).said = s.said
         \/ \E a : After(pages, s).said = Append(s.said, a)
<1>1. ASSUME NEW place, NEW partial
      PROVE  Fails(s, place, partial).said = Append(s.said, Error)
  BY DEF Fails, Memory
<1>2. ASSUME NEW pg, NEW next, NEW link
      PROVE  TakesPage(s, pg, next, link).said \in {s.said, Append(s.said, Error)}
  BY <1>1 DEF TakesPage, Memory
<1>3. Reads(pages, s).said \in {s.said, Append(s.said, Error)}
  BY <1>1, <1>2 DEF Reads, Memory
<1>. QED
  BY <1>3 DEF After, Memory

LEMMA AfterExtends ==
  ASSUME NEW pages, NEW s, IsAnswers(s.said)
  PROVE  IsAnswers(After(pages, s).said) /\ Extends(After(pages, s).said, s.said)
<1>1. Extends(s.said, s.said)
  BY DEF Extends
<1>. QED
  BY <1>1, AfterSaid, AppendExtends

(* A run goes on by one step.                                              *)
LEMMA RunGoesOn ==
  ASSUME NEW pages, NEW a, NEW b, Leads(pages, a, b)
  PROVE  Leads(pages, a, After(pages, b))
<1>1. PICK n, run : n \in Nat /\ run[0] = a /\ run[n] = b /\ Follows(pages, run, n)
  BY DEF Leads
<1>. DEFINE longer == [i \in 0 .. n + 1 |-> IF i <= n THEN run[i] ELSE After(pages, b)]
<1>2. n \in Nat
  BY <1>1
<1>3. longer[0] = a /\ longer[n + 1] = After(pages, b)
  BY <1>1, <1>2
<1>4. ASSUME NEW i \in 0 .. n PROVE longer[i + 1] = After(pages, longer[i])
  <2>1. longer[i] = run[i]
    BY <1>2
  <2>2. CASE i = n
    BY <1>1, <1>3, <2>1, <2>2
  <2>3. CASE i # n
    <3>1. longer[i + 1] = run[i + 1] /\ i \in 0 .. n - 1
      BY <1>2, <2>3
    <3>. QED
      BY <1>1, <2>1, <3>1 DEF Follows
  <2>. QED
    BY <2>2, <2>3
<1>. HIDE DEF longer
<1>5. n + 1 \in Nat /\ Follows(pages, longer, n + 1)
  BY <1>2, <1>4 DEF Follows
<1>. QED
  BY <1>3, <1>5 DEF Leads

LEMMA RunStarts ==
  ASSUME NEW pages, NEW a
  PROVE  Leads(pages, a, a)
<1>. DEFINE run == [i \in 0 .. 0 |-> a]
<1>1. run[0] = a /\ Follows(pages, run, 0)
  BY DEF Follows
<1>. HIDE DEF run
<1>. QED
  BY <1>1 DEF Leads

(* Along a run, answers extend those before them.                          *)
LEMMA RunExtends ==
  ASSUME NEW pages, NEW n \in Nat, NEW run, IsAnswers(run[0].said), Follows(pages, run, n)
  PROVE  \A i, j \in 0 .. n : i <= j => Extends(run[j].said, run[i].said)
<1>. DEFINE T == {k \in Nat : k <= n => /\ IsAnswers(run[k].said)
                                        /\ \A i \in 0 .. k : Extends(run[k].said, run[i].said)}
<1>1. 0 \in T
  BY DEF Extends
<1>2. ASSUME NEW k \in Nat, k \in T PROVE k + 1 \in T
  <2>1. CASE k + 1 <= n
    <3>1. run[k + 1] = After(pages, run[k]) /\ IsAnswers(run[k].said)
      BY <1>2, <2>1 DEF Follows
    <3>2. IsAnswers(run[k + 1].said) /\ Extends(run[k + 1].said, run[k].said)
      BY <3>1, AfterExtends
    <3>3. ASSUME NEW i \in 0 .. k + 1 PROVE Extends(run[k + 1].said, run[i].said)
      <4>1. CASE i = k + 1
        BY <4>1 DEF Extends
      <4>2. CASE i # k + 1
        <5>1. Extends(run[k].said, run[i].said)
          BY <1>2, <2>1, <4>2
        <5>. QED
          BY <3>2, <5>1 DEF Extends
      <4>. QED
        BY <4>1, <4>2
    <3>. QED
      BY <3>2, <3>3
  <2>2. CASE ~(k + 1 <= n)
    BY <2>2
  <2>. QED
    BY <2>1, <2>2
<1>3. \A k \in Nat : k \in T
  <2>. HIDE DEF T
  <2>. QED
    BY <1>1, <1>2, Induction
<1>. QED
  BY <1>3

(* Two runs from one memory go the same way as far as both go.             *)
LEMMA RunsAgree ==
  ASSUME NEW pages, NEW n \in Nat, NEW m \in Nat, NEW run, NEW other, run[0] = other[0],
         Follows(pages, run, n), Follows(pages, other, m)
  PROVE  \A k \in Nat : k <= n /\ k <= m => run[k] = other[k]
<1>. DEFINE T == {k \in Nat : k <= n /\ k <= m => run[k] = other[k]}
<1>1. 0 \in T
  OBVIOUS
<1>2. ASSUME NEW k \in Nat, k \in T PROVE k + 1 \in T
  <2>1. CASE k + 1 <= n /\ k + 1 <= m
    <3>1. run[k + 1] = After(pages, run[k]) /\ other[k + 1] = After(pages, other[k])
      BY <2>1 DEF Follows
    <3>2. run[k] = other[k]
      BY <1>2, <2>1
    <3>. QED
      BY <3>1, <3>2
  <2>. QED
    BY <2>1
<1>3. \A k \in Nat : k \in T
  <2>. HIDE DEF T
  <2>. QED
    BY <1>1, <1>2, Induction
<1>. QED
  BY <1>3

(* So of two memories one start leads to, the answers are the same where   *)
(* both have any.                                                          *)
LEMMA AnswersAgree ==
  ASSUME NEW pages, NEW a, IsAnswers(a.said), NEW b, NEW c,
         Leads(pages, a, b), Leads(pages, a, c)
  PROVE  \A i \in DOMAIN b.said \cap DOMAIN c.said : b.said[i] = c.said[i]
<1>1. PICK n \in Nat : \E run : run[0] = a /\ run[n] = b /\ Follows(pages, run, n)
  BY DEF Leads
<1>2. PICK run : run[0] = a /\ run[n] = b /\ Follows(pages, run, n)
  BY <1>1
<1>3. PICK m \in Nat : \E other : other[0] = a /\ other[m] = c /\ Follows(pages, other, m)
  BY DEF Leads
<1>4. PICK other : other[0] = a /\ other[m] = c /\ Follows(pages, other, m)
  BY <1>3
<1>5. \A k \in Nat : k <= n /\ k <= m => run[k] = other[k]
  BY <1>2, <1>4, RunsAgree
<1>6. CASE n <= m
  <2>1. other[n] = b
    BY <1>2, <1>5, <1>6
  <2>2. \A i, j \in 0 .. m : i <= j => Extends(other[j].said, other[i].said)
    BY <1>4, RunExtends
  <2>3. Extends(c.said, b.said)
    BY <1>4, <1>6, <2>1, <2>2
  <2>. QED
    BY <2>3 DEF Extends
<1>7. CASE m <= n
  <2>1. run[m] = c
    BY <1>4, <1>5, <1>7
  <2>2. \A i, j \in 0 .. n : i <= j => Extends(run[j].said, run[i].said)
    BY <1>2, RunExtends
  <2>3. Extends(b.said, c.said)
    BY <1>2, <1>7, <2>1, <2>2
  <2>. QED
    BY <2>3 DEF Extends
<1>. QED
  BY <1>6, <1>7

(***************************************************************************)
(* The reader.                                                             *)
(***************************************************************************)
(* Where the next page is found is a page of the source or past its end.   *)
LEMMA FoundIsAPage ==
  ASSUME NEW pages, pages \in Seq(Pages), NEW place \in Positions
  PROVE  /\ FoundFrom(pages, place) \in Nat \ {0}
         /\ FoundFrom(pages, place) <= Len(pages) =>
              FoundFrom(pages, place) \in DOMAIN pages
<1>. DEFINE from == IF place.inside THEN place.page + 1 ELSE place.page
            hits == {p \in from .. Len(pages) : pages[p].damage # "capture"}
<1>1. from \in Nat \ {0} /\ Len(pages) \in Nat /\ DOMAIN pages = 1 .. Len(pages)
  BY DEF Positions
<1>2. hits \subseteq 1 .. Len(pages)
  BY <1>1
<1>3. CASE hits = {}
  BY <1>1, <1>3 DEF FoundFrom
<1>4. CASE hits # {}
  <2>1. \E p \in hits : \A q \in hits : p <= q
    <3>1. hits \subseteq Nat
      BY <1>1, <1>2
    <3>. HIDE DEF hits
    <3>. QED
      BY <1>4, <3>1, LeastNumber
  <2>2. Min(hits) \in hits
    <3>. HIDE DEF hits
    <3>. QED
      BY <2>1 DEF Min
  <2>3. FoundFrom(pages, place) = Min(hits)
    BY <1>4 DEF FoundFrom
  <2>4. Min(hits) \in 1 .. Len(pages)
    <3>. HIDE DEF hits
    <3>. QED
      BY <1>2, <2>2
  <2>. HIDE DEF hits
  <2>. QED
    BY <1>1, <2>3, <2>4
<1>. QED
  BY <1>3, <1>4

(* What holds of the reader while no read has failed.  The number it goes  *)
(* by is the stream's from the first packet on; an exhausted source has    *)
(* nothing ready; nothing is answered before the audio.                    *)
ReaderInv ==
  /\ source \in Seq(Pages) /\ OneStream(source)
  /\ pos \in Positions /\ audioStart \in Positions
  /\ calling \in BOOLEAN
  /\ stage \in {"head", "tags", "audio", "refused"}
  /\ stage = "refused" => ~calling
  /\ exhausted \in BOOLEAN /\ (exhausted => ready = <<>>)
  /\ serial \in {0, Link(source)}
  /\ ready # <<>> \/ stage \in {"tags", "audio"} => serial = Link(source)
  /\ stage # "audio" => answers = <<>> /\ firstPass = <<>>

(* A pass is a run from the memory the constructor left, and so was the    *)
(* pass before.                                                            *)
ReplayInv ==
  stage = "audio" =>
    /\ Leads(source, Start, Present)
    /\ \E b : Leads(source, Start, b) /\ b.said = firstPass

RewindInv ==
  /\ ioFailures \in Nat
  /\ ioFailures = 0 => ReaderInv /\ ReplayInv

(* A step in the audio is a step of the function.                          *)
Onwards ==
  stage = "audio" => /\ stage' = "audio" /\ UNCHANGED <<start, firstPass>>
                     /\ Present' = After(source, Present)

LEMMA PresentIs ==
  /\ Present.pos = pos /\ Present.pending = pending /\ Present.ready = ready
  /\ ready # <<>> => Present.granule = pageGranule /\ Present.final = lastIsEos
  /\ Present.over = sawEos /\ Present.dry = exhausted
  /\ Present.busy = calling /\ Present.said = answers
BY DEF Present, Memory

LEMMA GoingOn ==
  ASSUME ReplayInv, UNCHANGED source, Onwards, stage # "audio" => stage' # "audio"
  PROVE  ReplayInv'
<1>1. SUFFICES ASSUME stage' = "audio" PROVE ReplayInv'
  BY DEF ReplayInv
<1>2. stage = "audio" /\ Start' = Start /\ firstPass' = firstPass /\ source' = source
  BY <1>1 DEF Onwards, Start, start
<1>3. Present' = After(source, Present)
  BY <1>2 DEF Onwards
<1>4. Leads(source, Start, Present')
  BY <1>2, <1>3, RunGoesOn DEF ReplayInv
<1>5. \E b : Leads(source, Start, b) /\ b.said = firstPass
  BY <1>2 DEF ReplayInv
<1>. QED
  BY <1>2, <1>4, <1>5 DEF ReplayInv

(* An error's answer.                                                      *)
LEMMA AnswerFact ==
  ASSUME NEW a, Answer(a), ReaderInv
  PROVE  /\ calling' = FALSE
         /\ stage = "audio" => stage' = "audio" /\ answers' = Append(answers, a)
         /\ stage # "audio" => stage' = "refused" /\ answers' = answers
BY DEF Answer, ReaderInv

LEMMA FailedIs ==
  ASSUME ready' = <<>>, sawEos' = sawEos, exhausted' = exhausted, calling' = FALSE,
         answers' = Append(answers, Error)
  PROVE  Present' = Fails(Present, pos', pending')
<1>1. Present' = Memory(pos', pending', <<>>, -1, FALSE, sawEos, exhausted, FALSE,
                        Append(answers, Error))
  BY DEF Present, Memory
<1>. QED
  BY <1>1, PresentIs DEF Fails

(* The reading steps: nothing is ready, and the stream is not over.        *)
LEMMA ReadingIs ==
  ASSUME ReaderInv, Reading
  PROVE  /\ After(source, Present) = Reads(source, Present)
         /\ calling /\ ready = <<>> /\ ~sawEos /\ ~exhausted
         /\ Found = FoundFrom(source, pos) /\ SourceEnd = AtPage(Len(source) + 1)
         /\ Found \in Nat \ {0}
         /\ Found <= Len(source) => source[Found] \in Pages /\ pos # AtPage(Len(source) + 1)
<1>1. calling /\ ready = <<>> /\ ~sawEos /\ ~exhausted
  BY DEF Reading, Drained, Over
<1>2. After(source, Present) = Reads(source, Present)
  BY <1>1, PresentIs DEF After
<1>3. Found = FoundFrom(source, pos)
  BY DEF Found, FoundFrom
<1>4. Found \in Nat \ {0} /\ (Found <= Len(source) => Found \in DOMAIN source)
  BY <1>3, FoundIsAPage DEF ReaderInv
<1>5. source \in Seq(Pages)
  BY DEF ReaderInv
<1>6. ASSUME pos = AtPage(Len(source) + 1) PROVE Found = Len(source) + 1
  <2>1. Len(source) \in Nat /\ ~pos.inside /\ pos.page = Len(source) + 1
    BY <1>5, <1>6 DEF AtPage
  <2>2. {p \in Len(source) + 1 .. Len(source) : source[p].damage # "capture"} = {}
    BY <2>1
  <2>. QED
    BY <2>1, <2>2 DEF Found
<1>. QED
  BY <1>1, <1>2, <1>3, <1>4, <1>5, <1>6 DEF SourceEnd

LEMMA TakeKeeps ==
  ASSUME ReaderInv, TakePacket
  PROVE  /\ ReaderInv'
         /\ stage = "audio" => Onwards
         /\ stage # "audio" /\ stage' = "audio" =>
              Present' = Start' /\ firstPass' = <<>> /\ source' = source
<1>1. /\ calling /\ ready # <<>> /\ ready' = Tail(ready)
      /\ UNCHANGED <<source, pos, serial, pending, pageGranule, lastIsEos, sawEos,
                     exhausted, firstPass, rewinds, ioFailures>>
  BY DEF TakePacket, history
<1>2. ~exhausted /\ serial = Link(source)
  BY <1>1 DEF ReaderInv
<1>3. CASE stage = "audio"
  <2>1. /\ Answer(Packet(ready[1], pageGranule, (lastIsEos /\ ready' = <<>>)))
        /\ UNCHANGED start
    BY <1>3 DEF TakePacket
  <2>2. /\ calling' = FALSE /\ stage' = "audio"
        /\ answers' = Append(answers, Packet(ready[1], pageGranule,
                                             (lastIsEos /\ Tail(ready) = <<>>)))
    BY <1>1, <1>3, <2>1 DEF Answer
  <2>3. Present' = After(source, Present)
    <3>1. Present' = Memory(pos, pending, Tail(ready), pageGranule, lastIsEos, sawEos,
                            exhausted, FALSE, answers')
      BY <1>1, <2>2 DEF Present, Memory
    <3>2. After(source, Present)
            = Memory(pos, pending, Tail(ready), pageGranule, lastIsEos, sawEos, exhausted,
                     FALSE, Append(answers, Packet(ready[1], pageGranule,
                                             (lastIsEos /\ Tail(ready) = <<>>))))
      BY <1>1, PresentIs DEF After
    <3>. QED
      BY <2>2, <3>1, <3>2
  <2>4. ReaderInv'
    BY <1>1, <1>2, <1>3, <2>1, <2>2 DEF ReaderInv, start
  <2>. QED
    BY <1>1, <1>3, <2>1, <2>2, <2>3, <2>4 DEF Onwards
<1>4. CASE stage = "head"
  <2>1. stage' \in {"tags", "refused"} /\ calling' = (stage' = "tags")
        /\ UNCHANGED <<answers, audioStart, audioStartEos>>
    BY <1>4 DEF TakePacket, start
  <2>. QED
    BY <1>1, <1>2, <1>4, <2>1 DEF ReaderInv
<1>5. CASE stage = "tags"
  <2>1. /\ stage' \in {"audio", "refused"}
        /\ stage' = "audio" => ready' = <<>> /\ pending = <<>>
        /\ calling' = FALSE /\ audioStart' = pos /\ audioStartEos' = sawEos
        /\ UNCHANGED answers
    BY <1>5 DEF TakePacket
  <2>2. ReaderInv'
    BY <1>1, <1>2, <1>5, <2>1 DEF ReaderInv
  <2>3. ASSUME stage' = "audio" PROVE Present' = Start'
    <3>1. Present' = Memory(pos, <<>>, <<>>, pageGranule, lastIsEos, sawEos, exhausted,
                            FALSE, <<>>)
      BY <1>1, <1>5, <2>1, <2>3 DEF ReaderInv, Present, Memory
    <3>2. Start' = Memory(pos, <<>>, <<>>, -1, FALSE, sawEos, FALSE, FALSE, <<>>)
      BY <2>1 DEF Start
    <3>3. exhausted = FALSE
      BY <1>2
    <3>. QED
      BY <3>1, <3>2, <3>3 DEF Present, Memory
  <2>. QED
    BY <1>1, <1>5, <2>2, <2>3 DEF ReaderInv
<1>. QED
  BY <1>1, <1>3, <1>4, <1>5 DEF ReaderInv

LEMMA EndKeeps ==
  ASSUME ReaderInv, StreamIsOver
  PROVE  ReaderInv' /\ Onwards /\ (stage # "audio" => stage' # "audio")
<1>. DEFINE a == IF pending = <<>> THEN End ELSE Error
<1>1. /\ calling /\ ready = <<>> /\ (sawEos \/ exhausted) /\ Answer(a) /\ pending' = <<>>
      /\ UNCHANGED <<source, pos, serial, ready, pageGranule, lastIsEos, sawEos, exhausted,
                     start, audioStart, audioStartEos, firstPass, rewinds, ioFailures>>
  BY DEF StreamIsOver, Drained, Over, start, history
<1>2. /\ calling' = FALSE
      /\ stage = "audio" => stage' = "audio" /\ answers' = Append(answers, a)
      /\ stage # "audio" => stage' = "refused" /\ answers' = answers
  <2>. HIDE DEF a
  <2>. QED
    BY <1>1, AnswerFact
<1>3. ReaderInv'
  BY <1>1, <1>2 DEF ReaderInv
<1>4. ASSUME stage = "audio" PROVE Present' = After(source, Present)
  <2>1. Present' = Memory(pos, <<>>, <<>>, -1, FALSE, sawEos, exhausted, FALSE,
                          Append(answers, a))
    BY <1>1, <1>2, <1>4 DEF Present, Memory
  <2>2. After(source, Present) = Memory(pos, <<>>, <<>>, -1, FALSE, sawEos, exhausted, FALSE,
                                        Append(answers, a))
    BY <1>1, PresentIs DEF After
  <2>. QED
    BY <2>1, <2>2
<1>. QED
  BY <1>1, <1>2, <1>3, <1>4 DEF Onwards

LEMMA EofKeeps ==
  ASSUME ReaderInv, ReadEof
  PROVE  ReaderInv' /\ Onwards /\ (stage # "audio" => stage' # "audio")
<1>1. /\ Reading /\ pos = SourceEnd /\ exhausted' = TRUE
      /\ UNCHANGED <<source, pos, stage, serial, pending, ready, pageGranule, sawEos, start,
                     audioStart, audioStartEos, calling, answers, firstPass, rewinds, ioFailures>>
  BY DEF ReadEof, start, history
<1>2. /\ After(source, Present) = Reads(source, Present) /\ calling /\ ready = <<>>
      /\ SourceEnd = AtPage(Len(source) + 1)
  BY <1>1, ReadingIs
<1>3. ReaderInv'
  BY <1>1, <1>2 DEF ReaderInv
<1>4. Present' = After(source, Present)
  <2>1. calling = TRUE
    BY <1>2 DEF ReaderInv
  <2>2. Present' = Memory(pos, pending, <<>>, -1, FALSE, sawEos, TRUE, TRUE, answers)
    BY <1>1, <1>2, <2>1 DEF Present, Memory
  <2>3. Reads(source, Present) = Memory(pos, pending, <<>>, -1, FALSE, sawEos, TRUE, TRUE, answers)
    BY <1>1, <1>2, PresentIs DEF Reads
  <2>. QED
    BY <1>2, <2>2, <2>3
<1>. QED
  BY <1>1, <1>3, <1>4 DEF Onwards

(* A page that cannot be taken: the call fails, and what was pending is    *)
(* kept or, where two pages disagree about it, dropped.                    *)
LEMMA FailingKeeps ==
  ASSUME ReaderInv, Reading, Answer(Error), pos' \in Positions,
         serial' \in {0, Link(source)},
         serial = Link(source) => serial' = Link(source),
         UNCHANGED <<source, ready, sawEos, exhausted, start, firstPass>>
  PROVE  /\ ReaderInv'
         /\ stage # "audio" => stage' # "audio"
         /\ stage = "audio" => stage' = "audio" /\ Present' = Fails(Present, pos', pending')
<1>1. calling /\ ready = <<>> /\ ~exhausted
  BY ReadingIs
<1>2. /\ calling' = FALSE
      /\ stage = "audio" => stage' = "audio" /\ answers' = Append(answers, Error)
      /\ stage # "audio" => stage' = "refused" /\ answers' = answers
  BY AnswerFact
<1>3. ReaderInv'
  BY <1>1, <1>2 DEF ReaderInv, start
<1>4. ASSUME stage = "audio" PROVE Present' = Fails(Present, pos', pending')
  BY <1>1, <1>2, <1>4, FailedIs
<1>. QED
  BY <1>2, <1>3, <1>4

LEMMA NoPageKeeps ==
  ASSUME ReaderInv, ReadNoPage
  PROVE  ReaderInv' /\ Onwards /\ (stage # "audio" => stage' # "audio")
<1>1. /\ Reading /\ pos # SourceEnd /\ Answer(Error)
      /\ UNCHANGED <<source, serial, pending, ready, sawEos, exhausted, start, firstPass>>
  BY DEF ReadNoPage, history
<1>2. /\ After(source, Present) = Reads(source, Present) /\ Found = FoundFrom(source, pos)
      /\ SourceEnd = AtPage(Len(source) + 1) /\ Found \in Nat \ {0}
      /\ Found <= Len(source) => source[Found] \in Pages
  BY <1>1, ReadingIs
<1>3. Len(source) \in Nat
  BY DEF ReaderInv
<1>4. /\ pos' \in Positions
      /\ Reads(source, Present) = Fails(Present, pos', pending')
  <2>1. CASE Found > Len(source)
    <3>1. pos' = AtPage(Len(source) + 1)
      BY <1>2, <2>1 DEF ReadNoPage
    <3>2. pos' \in Positions
      BY <1>3, <3>1 DEF Positions, AtPage
    <3>3. Reads(source, Present) = Fails(Present, AtPage(Len(source) + 1), pending)
      BY <1>1, <1>2, <2>1, PresentIs DEF Reads
    <3>. QED
      BY <1>1, <3>1, <3>2, <3>3
  <2>2. CASE ~(Found > Len(source))
    <3>1. source[Found].damage \in {"cut", "junk"} /\ pos' = AtPage(Found + 1)
      BY <2>2 DEF ReadNoPage
    <3>2. pos' \in Positions
      BY <1>2, <3>1 DEF Positions, AtPage
    <3>3. Reads(source, Present) = Fails(Present, AtPage(Found + 1), pending)
      BY <1>1, <1>2, <2>2, <3>1, PresentIs DEF Reads
    <3>. QED
      BY <1>1, <3>1, <3>2, <3>3
  <2>. QED
    BY <2>1, <2>2
<1>5. serial' \in {0, Link(source)} /\ (serial = Link(source) => serial' = Link(source))
  BY <1>1 DEF ReaderInv
<1>6. /\ ReaderInv' /\ (stage # "audio" => stage' # "audio")
      /\ stage = "audio" => stage' = "audio" /\ Present' = Fails(Present, pos', pending')
  BY <1>1, <1>4, <1>5, FailingKeeps
<1>. QED
  BY <1>1, <1>2, <1>4, <1>6 DEF Onwards

LEMMA FlippedKeeps ==
  ASSUME ReaderInv, ReadFlippedPage
  PROVE  ReaderInv' /\ Onwards /\ (stage # "audio" => stage' # "audio")
<1>1. /\ Reading /\ Found <= Len(source) /\ source[Found].damage = "flipped"
      /\ pos' = source[Found].lands /\ Answer(Error)
      /\ UNCHANGED <<source, serial, pending, ready, sawEos, exhausted, start, firstPass>>
  BY DEF ReadFlippedPage, history
<1>2. /\ After(source, Present) = Reads(source, Present) /\ Found = FoundFrom(source, pos)
      /\ Found \in Nat \ {0} /\ source[Found] \in Pages
  BY <1>1, ReadingIs
<1>3. Len(source) \in Nat
  BY DEF ReaderInv
<1>4. pos' \in Positions
  BY <1>1, <1>2 DEF Pages
<1>5. Reads(source, Present) = Fails(Present, pos', pending')
  <2>1. ~(Found > Len(source)) /\ pending' = pending
    BY <1>1, <1>2, <1>3
  <2>2. pos # AtPage(Len(source) + 1)
    BY <1>1, ReadingIs
  <2>. QED
    BY <1>1, <1>2, <2>1, <2>2, PresentIs DEF Reads
<1>6. serial' \in {0, Link(source)} /\ (serial = Link(source) => serial' = Link(source))
  BY <1>1 DEF ReaderInv
<1>7. /\ ReaderInv' /\ (stage # "audio" => stage' # "audio")
      /\ stage = "audio" => stage' = "audio" /\ Present' = Fails(Present, pos', pending')
  BY <1>1, <1>4, <1>6, FailingKeeps
<1>. QED
  BY <1>1, <1>2, <1>5, <1>7 DEF Onwards

(* A page's number is the stream's, if it is taken.                        *)
LEMMA PageNames ==
  ASSUME ReaderInv, Reading, Found <= Len(source), NEW pg, pg = source[Found],
         serial' = IF pg.bos THEN pg.serial ELSE serial
  PROVE  /\ serial' \in {0, Link(source)}
         /\ serial = Link(source) => serial' = Link(source)
         /\ Belongs(pg) => serial' = Link(source)
<1>1. Found \in DOMAIN source
  BY ReadingIs, FoundIsAPage DEF ReaderInv
<1>2. (pg.bos => pg.serial = Link(source)) /\ (pg.serial = 0 => Link(source) = 0)
  BY <1>1, LinkNames DEF ReaderInv, Names
<1>3. serial \in {0, Link(source)}
  BY DEF ReaderInv
<1>. QED
  BY <1>2, <1>3 DEF Belongs

LEMMA PageKeeps ==
  ASSUME ReaderInv, ReadPage
  PROVE  ReaderInv' /\ Onwards /\ (stage # "audio" => stage' # "audio")
<1>. DEFINE pg   == source[Found]
            walk == Split(pending, pg.segs)
            next == AtPage(Found + 1)
<1>1. /\ Reading /\ Found <= Len(source) /\ pg.damage = "none" /\ pos' = next
      /\ serial' = IF pg.bos THEN pg.serial ELSE serial
      /\ UNCHANGED <<source, exhausted, start, audioStart, audioStartEos, firstPass>>
  BY DEF ReadPage, history, start
<1>2. /\ After(source, Present) = Reads(source, Present) /\ Found = FoundFrom(source, pos)
      /\ Found \in Nat \ {0} /\ pg \in Pages /\ pos # AtPage(Len(source) + 1)
      /\ calling /\ ready = <<>> /\ ~exhausted
  BY <1>1, ReadingIs
<1>3. pos' \in Positions
  BY <1>1, <1>2 DEF Positions, AtPage
<1>4. /\ serial' \in {0, Link(source)}
      /\ serial = Link(source) => serial' = Link(source)
      /\ Belongs(pg) => serial' = Link(source)
  <2>. HIDE DEF walk, next
  <2>. QED
    BY <1>1, PageNames
<1>5. Reads(source, Present) = TakesPage(Present, pg, next, Link(source))
  <2>1. ~(Found > Len(source))
    BY <1>1, <1>2 DEF ReaderInv
  <2>. HIDE DEF walk, next
  <2>. QED
    BY <1>1, <1>2, <2>1, PresentIs DEF Reads, next
<1>6. stage = "audio" => (Belongs(pg) <=> pg.bos \/ pg.serial = Link(source))
  BY DEF Belongs, ReaderInv
<1>7. CASE Belongs(pg) /\ Continues(pg)
  <2>1. /\ sawEos' = pg.eos /\ pageGranule' = pg.granule /\ ready' = walk.done
        /\ pending' = walk.partial /\ lastIsEos' = (pg.eos /\ walk.ended)
        /\ IF walk.over THEN Answer(Error) ELSE UNCHANGED <<stage, calling, answers>>
    BY <1>7 DEF ReadPage
  <2>2. /\ calling' = IF walk.over THEN FALSE ELSE TRUE
        /\ stage = "audio" => /\ stage' = "audio"
                              /\ answers' = IF walk.over THEN Append(answers, Error) ELSE answers
        /\ stage # "audio" => stage' \in {stage, "refused"} /\ answers' = answers
        /\ stage' = "refused" => ~calling'
    <3>. HIDE DEF walk, pg, next
    <3>1. CASE walk.over
      BY <2>1, <3>1, AnswerFact
    <3>2. CASE ~walk.over
      BY <1>2, <2>1, <3>2 DEF ReaderInv
    <3>. QED
      BY <3>1, <3>2
  <2>3. ReaderInv'
    <3>. HIDE DEF walk, pg, next
    <3>. QED
      BY <1>1, <1>2, <1>3, <1>4, <1>7, <2>2 DEF ReaderInv, start
  <2>4. ASSUME stage = "audio" PROVE Present' = TakesPage(Present, pg, next, Link(source))
    <3>. HIDE DEF pg, next
    <3>1. /\ pg.bos \/ pg.serial = Link(source)
          /\ pg.continued <=> pending # <<>>
      BY <1>6, <1>7, <2>4 DEF Continues
    <3>2. TakesPage(Present, pg, next, Link(source))
            = Memory(next, walk.partial, walk.done, pg.granule, (pg.eos /\ walk.ended), pg.eos,
                     exhausted, IF walk.over THEN FALSE ELSE TRUE,
                     IF walk.over THEN Append(answers, Error) ELSE answers)
      BY <3>1, PresentIs DEF TakesPage
    <3>3. Present' = Memory(next, walk.partial, walk.done, pg.granule, (pg.eos /\ walk.ended),
                     pg.eos, exhausted, IF walk.over THEN FALSE ELSE TRUE,
                     IF walk.over THEN Append(answers, Error) ELSE answers)
      <4>. HIDE DEF walk
      <4>. QED
        BY <1>1, <2>1, <2>2, <2>4 DEF Present, Memory
    <3>. QED
      BY <3>2, <3>3
  <2>. QED
    BY <1>1, <1>2, <1>5, <1>7, <2>2, <2>3, <2>4 DEF Onwards, ReaderInv
<1>8. CASE ~(Belongs(pg) /\ Continues(pg))
  <2>1. /\ Answer(Error) /\ pending' = (IF Belongs(pg) THEN <<>> ELSE pending)
        /\ UNCHANGED <<ready, pageGranule, sawEos>>
    BY <1>8 DEF ReadPage
  <2>2. /\ ReaderInv' /\ (stage # "audio" => stage' # "audio")
        /\ stage = "audio" => stage' = "audio" /\ Present' = Fails(Present, pos', pending')
    BY <1>1, <1>3, <1>4, <2>1, FailingKeeps
  <2>3. ASSUME stage = "audio"
        PROVE  TakesPage(Present, pg, next, Link(source)) = Fails(Present, pos', pending')
    <3>. HIDE DEF pg, next
    <3>1. ~((pg.bos \/ pg.serial = Link(source)) /\ (pg.continued <=> pending # <<>>))
      BY <1>6, <1>8, <2>3 DEF Continues
    <3>. QED
      BY <1>1, <1>6, <2>1, <2>3, <3>1, PresentIs DEF TakesPage
  <2>. QED
    BY <1>1, <1>2, <1>5, <2>2, <2>3 DEF Onwards
<1>. QED
  BY <1>7, <1>8

(***************************************************************************)
(* The caller.                                                             *)
(***************************************************************************)
LEMMA CallKeeps ==
  ASSUME ReaderInv, Read
  PROVE  ReaderInv' /\ Onwards /\ (stage # "audio" => stage' # "audio")
<1>1. /\ stage = "audio" /\ ~calling /\ calling' = TRUE
      /\ UNCHANGED <<source, pos, stage, serial, pending, ready, pageGranule, lastIsEos, sawEos,
                     exhausted, start, audioStart, audioStartEos, answers, firstPass>>
  BY DEF Read, Holding, buffers, start, history
<1>2. ReaderInv'
  BY <1>1 DEF ReaderInv
<1>3. Present' = Memory(pos, pending, ready, pageGranule, lastIsEos, sawEos, exhausted, TRUE,
                        answers)
  BY <1>1 DEF Present, Memory
<1>4. After(source, Present) = Memory(pos, pending, ready, Present.granule, Present.final, sawEos,
                                      exhausted, TRUE, answers)
  BY <1>1, PresentIs DEF After
<1>5. Present' = After(source, Present)
  <2>1. CASE ready = <<>>
    BY <1>3, <1>4, <2>1 DEF Memory
  <2>2. CASE ready # <<>>
    BY <1>3, <1>4, <2>2, PresentIs
  <2>. QED
    BY <2>1, <2>2
<1>. QED
  BY <1>1, <1>2, <1>5 DEF Onwards

(* A rewind starts the run over, and the pass it ends is the pass before.  *)
LEMMA RewindKeeps ==
  ASSUME ReaderInv, ReplayInv, Rewind
  PROVE  ReaderInv' /\ ReplayInv'
<1>1. /\ stage = "audio" /\ ~calling
      /\ pos' = audioStart /\ pending' = <<>> /\ ready' = <<>> /\ sawEos' = audioStartEos
      /\ exhausted' = FALSE /\ answers' = <<>> /\ firstPass' = answers
      /\ UNCHANGED <<source, stage, serial, audioStart, audioStartEos, calling>>
  BY DEF Rewind, Holding, start
<1>2. ReaderInv'
  BY <1>1 DEF ReaderInv
<1>3. Start' = Start /\ Present' = Start
  <2>1. Start' = Start
    BY <1>1 DEF Start
  <2>2. calling = FALSE
    BY <1>1 DEF ReaderInv
  <2>3. Present' = Memory(audioStart, <<>>, <<>>, pageGranule', lastIsEos', audioStartEos, FALSE,
                          FALSE, <<>>)
    BY <1>1, <2>2 DEF Present, Memory
  <2>. QED
    BY <2>1, <2>3 DEF Start, Memory, Present
<1>4. Leads(source, Start, Present) /\ Present.said = answers
  BY <1>1, PresentIs DEF ReplayInv
<1>5. Leads(source, Start, Start)
  BY RunStarts
<1>. QED
  BY <1>1, <1>2, <1>3, <1>4, <1>5 DEF ReplayInv

LEMMA StepKeeps ==
  ASSUME ReaderInv, ReplayInv, Step \/ Read
  PROVE  ReaderInv' /\ ReplayInv'
<1>1. CASE TakePacket
  <2>1. /\ ReaderInv'
        /\ stage = "audio" => Onwards
        /\ stage # "audio" /\ stage' = "audio" =>
             Present' = Start' /\ firstPass' = <<>> /\ source' = source
    BY <1>1, TakeKeeps
  <2>2. CASE stage = "audio"
    BY <1>1, <2>1, <2>2, GoingOn DEF TakePacket
  <2>3. CASE stage # "audio" /\ stage' = "audio"
    <3>1. Present' = Start' /\ firstPass' = <<>>
      BY <2>1, <2>3
    <3>2. Leads(source', Start', Start') /\ Start'.said = <<>>
      BY RunStarts DEF Start, Memory
    <3>. QED
      BY <2>1, <3>1, <3>2 DEF ReplayInv
  <2>4. CASE stage' # "audio"
    BY <2>1, <2>4 DEF ReplayInv
  <2>. QED
    BY <2>2, <2>3, <2>4
<1>2. CASE StreamIsOver
  BY <1>2, EndKeeps, GoingOn DEF StreamIsOver
<1>3. CASE ReadEof
  BY <1>3, EofKeeps, GoingOn DEF ReadEof
<1>4. CASE ReadNoPage
  BY <1>4, NoPageKeeps, GoingOn DEF ReadNoPage
<1>5. CASE ReadFlippedPage
  BY <1>5, FlippedKeeps, GoingOn DEF ReadFlippedPage
<1>6. CASE ReadPage
  BY <1>6, PageKeeps, GoingOn DEF ReadPage
<1>7. CASE Read
  BY <1>7, CallKeeps, GoingOn DEF Read
<1>. QED
  BY <1>1, <1>2, <1>3, <1>4, <1>5, <1>6, <1>7 DEF Step

LEMMA RewindStep ==
  ASSUME RewindInv, [Next]_vars
  PROVE  RewindInv'
<1>1. CASE IoFails
  BY <1>1 DEF IoFails, RewindInv
<1>2. CASE Rewind
  BY <1>2, RewindKeeps DEF Rewind, RewindInv
<1>3. CASE Step \/ Read
  <2>1. UNCHANGED ioFailures
    BY <1>3 DEF Step, Read, TakePacket, StreamIsOver, ReadEof, ReadNoPage, ReadFlippedPage,
                ReadPage, history
  <2>. QED
    BY <1>3, <2>1, StepKeeps DEF RewindInv
<1>4. CASE UNCHANGED vars
  BY <1>4 DEF vars, buffers, start, history, RewindInv, ReaderInv, ReplayInv, Start, Present
<1>. QED
  BY <1>1, <1>2, <1>3, <1>4 DEF Next

(* A pass after a rewind repeats the answers of the pass before: packets,  *)
(* granules, ends and errors, from any source of one logical stream and    *)
(* whatever is wrong with its pages (rewind, next_packet).                 *)
THEOREM RewindsRepeat ==
  ASSUME \A pages \in Sources : OneStream(pages)
  PROVE  Spec => []RewindReplays
<1>1. Init => RewindInv
  <2>. SUFFICES ASSUME Init PROVE RewindInv
    OBVIOUS
  <2>1. source \in Seq(Pages) /\ OneStream(source)
    BY SourceAssumption DEF Init
  <2>2. pos \in Positions /\ audioStart \in Positions
    BY DEF Init, Positions, AtPage
  <2>3. ReaderInv
    BY <2>1, <2>2 DEF Init, ReaderInv
  <2>. QED
    BY <2>3 DEF Init, RewindInv, ReplayInv
<1>2. RewindInv /\ [Next]_vars => RewindInv'
  BY RewindStep
<1>3. RewindInv => RewindReplays
  <2>. SUFFICES ASSUME RewindInv, ioFailures = 0
                PROVE  \A i \in DOMAIN answers \cap DOMAIN firstPass : answers[i] = firstPass[i]
    BY DEF RewindReplays
  <2>1. CASE stage # "audio"
    BY <2>1 DEF RewindInv, ReaderInv
  <2>2. CASE stage = "audio"
    <3>1. PICK b : Leads(source, Start, b) /\ b.said = firstPass
      BY <2>2 DEF RewindInv, ReplayInv
    <3>2. Leads(source, Start, Present) /\ Present.said = answers
      BY <2>2, PresentIs DEF RewindInv, ReplayInv
    <3>3. IsAnswers(Start.said)
      <4>1. Start.said = <<>> /\ <<>> \in Seq({})
        BY DEF Start, Memory
      <4>. QED
        BY <4>1 DEF IsAnswers
    <3>. QED
      BY <3>1, <3>2, <3>3, AnswersAgree
  <2>. QED
    BY <2>1, <2>2
<1>. QED
  BY <1>1, <1>2, <1>3, PTL DEF Spec

(***************************************************************************)
(* Splices.                                                                *)
(***************************************************************************)
(* A source as a muxer lays it out: of one stream, no page empty, every    *)
(* segment after the one it continues or after a packet's end, from page   *)
(* to page as within one, and the pages say so.  Junk between its pages    *)
(* is not of it, and any page may be damaged.                              *)
Succeeds(seg, other) ==
  IF seg.lace = LaceMax THEN GoesOn(seg, other) ELSE other.part = 0
FirstOf(page) == page.segs[1]
LastOf(page)  == page.segs[Len(page.segs)]
Genuines(pages) == {p \in DOMAIN pages : pages[p].damage # "junk"}
OnlyJunk(pages, first, last) == \A j \in first .. last : pages[j].damage = "junk"

Laid(pages) ==
  /\ \A p \in Genuines(pages) :
       /\ pages[p].segs # <<>>
       /\ \A i \in 1 .. Len(pages[p].segs) - 1 : Succeeds(pages[p].segs[i], pages[p].segs[i + 1])
       /\ pages[p].continued <=> FirstOf(pages[p]).part # 0
  /\ \A p, q \in Genuines(pages) :
       /\ pages[p].serial = pages[q].serial
       /\ p < q /\ OnlyJunk(pages, p + 1, q - 1) => Succeeds(LastOf(pages[p]), FirstOf(pages[q]))
       /\ \A i \in DOMAIN pages[p].segs, j \in DOMAIN pages[q].segs :
            /\ pages[p].segs[i].pkt = pages[q].segs[j].pkt
            /\ pages[p].segs[i].part = pages[q].segs[j].part
            => p = q

(* One more segment.                                                       *)
Ending(partial) == partial[Len(partial)]
Joins(partial, seg) ==
  IF partial = <<>> THEN seg.part = 0
  ELSE GoesOn(Ending(partial), seg) \/ RestIsLost(Ending(partial))

LEMMA GrownIsSound ==
  ASSUME NEW partial \in Seq(Segments), NEW seg \in Segments,
         partial # <<>> => WholeOrSpliced(partial), Joins(partial, seg)
  PROVE  /\ Append(partial, seg) \in Seq(Segments) /\ Append(partial, seg) # <<>>
         /\ Ending(Append(partial, seg)) = seg
         /\ WholeOrSpliced(Append(partial, seg))
<1>. DEFINE grown == Append(partial, seg)
            n     == Len(partial)
<1>1. /\ grown \in Seq(Segments) /\ Len(grown) = n + 1 /\ n \in Nat
      /\ grown[n + 1] = seg /\ \A i \in 1 .. n : grown[i] = partial[i]
  OBVIOUS
<1>. HIDE DEF grown
<1>2. grown # <<>> /\ Ending(grown) = seg
  BY <1>1 DEF Ending
<1>3. WholeOrSpliced(grown)
  <2>1. CASE partial = <<>>
    BY <1>1, <2>1 DEF WholeOrSpliced, Joins
  <2>2. CASE partial # <<>>
    <3>1. n >= 1 /\ partial[n] = Ending(partial)
      BY <2>2 DEF Ending
    <3>2. grown[1].part = 0
      BY <1>1, <2>2, <3>1 DEF WholeOrSpliced
    <3>3. ASSUME NEW i \in 1 .. n
          PROVE  GoesOn(grown[i], grown[i + 1]) \/ RestIsLost(grown[i])
      <4>1. CASE i = n
        <5>1. grown[i] = Ending(partial) /\ grown[i + 1] = seg
          BY <1>1, <3>1, <4>1
        <5>. QED
          BY <2>2, <5>1 DEF Joins
      <4>2. CASE i # n
        <5>1. grown[i] = partial[i] /\ grown[i + 1] = partial[i + 1] /\ i \in 1 .. n - 1
          BY <1>1, <4>2
        <5>. QED
          BY <2>2, <5>1 DEF WholeOrSpliced
      <4>. QED
        BY <4>1, <4>2
    <3>. QED
      BY <1>1, <3>2, <3>3 DEF WholeOrSpliced
  <2>. QED
    BY <2>1, <2>2
<1>. QED
  BY <1>1, <1>2, <1>3 DEF grown

(* The walk over a page's segments: what it has done, what it has begun,   *)
(* and, of a walk that has not been ended, how it stands to the last       *)
(* segment it took.                                                        *)
IsWalk(walk) ==
  /\ DOMAIN walk = {"done", "partial", "over", "ended"}
  /\ walk.done \in Seq(Seq(Segments)) /\ walk.partial \in Seq(Segments)
  /\ walk.over \in BOOLEAN
  /\ \A i \in DOMAIN walk.done : WholeOrSpliced(walk.done[i])
  /\ walk.partial # <<>> => WholeOrSpliced(walk.partial)
  /\ walk.over => walk.partial = <<>>

Took(walk, seg) ==
  /\ walk.partial # <<>> => Ending(walk.partial) = seg /\ seg.lace = LaceMax
  /\ ~walk.over /\ walk.partial = <<>> => seg.lace # LaceMax

LEMMA SegmentTaken ==
  ASSUME NEW walk, IsWalk(walk), NEW seg \in Segments, ~walk.over => Joins(walk.partial, seg)
  PROVE  IsWalk(TakeSegment(walk, seg)) /\ Took(TakeSegment(walk, seg), seg)
<1>. DEFINE grown == Append(walk.partial, seg)
            next  == TakeSegment(walk, seg)
<1>1. CASE walk.over
  <2>1. next = walk
    BY <1>1 DEF TakeSegment
  <2>. QED
    BY <1>1, <2>1 DEF IsWalk, Took
<1>2. CASE ~walk.over
  <2>1. /\ grown \in Seq(Segments) /\ grown # <<>> /\ Ending(grown) = seg
        /\ WholeOrSpliced(grown)
    BY <1>2, GrownIsSound DEF IsWalk
  <2>2. CASE Bytes(grown) > MaxPacketBytes
    <3>1. next = [walk EXCEPT !.partial = <<>>, !.over = TRUE, !.ended = FALSE]
      BY <1>2, <2>2 DEF TakeSegment
    <3>. HIDE DEF next, grown
    <3>. QED
      BY <3>1 DEF IsWalk, Took, next
  <2>3. CASE ~(Bytes(grown) > MaxPacketBytes) /\ seg.lace = LaceMax
    <3>1. next = [walk EXCEPT !.partial = grown, !.ended = FALSE]
      BY <1>2, <2>3 DEF TakeSegment
    <3>. HIDE DEF next, grown
    <3>. QED
      BY <1>2, <2>1, <2>3, <3>1 DEF IsWalk, Took, next
  <2>4. CASE ~(Bytes(grown) > MaxPacketBytes) /\ seg.lace # LaceMax /\ Bytes(grown) = 0
    <3>1. next = [walk EXCEPT !.partial = <<>>, !.ended = FALSE]
      BY <1>2, <2>4 DEF TakeSegment
    <3>. HIDE DEF next, grown
    <3>. QED
      BY <1>2, <2>4, <3>1 DEF IsWalk, Took, next
  <2>5. CASE ~(Bytes(grown) > MaxPacketBytes) /\ seg.lace # LaceMax /\ Bytes(grown) # 0
    <3>1. next = [walk EXCEPT !.done = Append(@, grown), !.partial = <<>>, !.ended = TRUE]
      BY <1>2, <2>5 DEF TakeSegment
    <3>. HIDE DEF next, grown
    <3>2. /\ Append(walk.done, grown) \in Seq(Seq(Segments))
          /\ \A i \in DOMAIN Append(walk.done, grown) : WholeOrSpliced(Append(walk.done, grown)[i])
      BY <2>1 DEF IsWalk
    <3>. QED
      BY <1>2, <2>5, <3>1, <3>2 DEF IsWalk, Took, next
  <2>. QED
    BY <2>2, <2>3, <2>4, <2>5
<1>. QED
  BY <1>1, <1>2

Walked(w, n, partial, segs) ==
  w = [i \in 0 .. n |->
         IF i = 0 THEN [done |-> <<>>, partial |-> partial, over |-> FALSE, ended |-> FALSE]
         ELSE TakeSegment(w[i - 1], segs[i])]

LEMMA WalkExists ==
  ASSUME NEW n \in Nat, NEW partial, NEW segs
  PROVE  \E w : Walked(w, n, partial, segs)
<1>. DEFINE first == [done |-> <<>>, partial |-> partial, over |-> FALSE, ended |-> FALSE]
            T == {k \in Nat : \E w : Walked(w, k, partial, segs)}
<1>1. 0 \in T
  <2>. DEFINE g == [i \in 0 .. 0 |-> first]
  <2>1. Walked(g, 0, partial, segs)
    BY DEF Walked
  <2>. HIDE DEF g
  <2>. QED
    BY <2>1
<1>2. ASSUME NEW k \in Nat, k \in T PROVE k + 1 \in T
  <2>1. PICK f : Walked(f, k, partial, segs)
    BY <1>2
  <2>. DEFINE g == [i \in 0 .. k + 1 |-> IF i <= k THEN f[i] ELSE TakeSegment(f[k], segs[k + 1])]
  <2>2. \A i \in 0 .. k : f[i] = IF i = 0 THEN first ELSE TakeSegment(f[i - 1], segs[i])
    BY <2>1 DEF Walked
  <2>. HIDE DEF first
  <2>3. ASSUME NEW i \in 0 .. k + 1
        PROVE  g[i] = IF i = 0 THEN first ELSE TakeSegment(g[i - 1], segs[i])
    <3>1. CASE i <= k
      <4>1. g[i] = f[i] /\ i \in 0 .. k
        BY <3>1
      <4>2. i # 0 => g[i - 1] = f[i - 1]
        BY <3>1
      <4>. HIDE DEF g
      <4>. QED
        BY <2>2, <4>1, <4>2
    <3>2. CASE i = k + 1
      <4>1. i - 1 = k /\ i # 0 /\ segs[i] = segs[k + 1]
        BY <3>2
      <4>2. g[i] = TakeSegment(f[k], segs[k + 1]) /\ g[k] = f[k]
        BY <3>2
      <4>. HIDE DEF g
      <4>. QED
        BY <4>1, <4>2, Zenon
    <3>. QED
      BY <3>1, <3>2
  <2>4. Walked(g, k + 1, partial, segs)
    BY <2>3 DEF Walked, first
  <2>. HIDE DEF g
  <2>. QED
    BY <2>4
<1>3. n \in T
  <2>. HIDE DEF T
  <2>. QED
    BY <1>1, <1>2, Induction
<1>. QED
  BY <1>3

(* What read_page makes of a page that goes on where the last one ended,   *)
(* or where a page is missing.                                             *)
LEMMA SplitIsSound ==
  ASSUME NEW partial \in Seq(Segments), NEW segs \in Seq(Segments), segs # <<>>,
         partial # <<>> => WholeOrSpliced(partial), Joins(partial, segs[1]),
         \A i \in 1 .. Len(segs) - 1 : Succeeds(segs[i], segs[i + 1])
  PROVE  IsWalk(Split(partial, segs)) /\ Took(Split(partial, segs), segs[Len(segs)])
<1>. DEFINE n     == Len(segs)
            first == [done |-> <<>>, partial |-> partial, over |-> FALSE, ended |-> FALSE]
            w     == CHOOSE f : Walked(f, n, partial, segs)
            T     == {k \in Nat : k <= n => IsWalk(w[k]) /\ (k # 0 => Took(w[k], segs[k]))}
<1>1. Split(partial, segs) = w[n]
  BY DEF Split, Walked
<1>2. n \in Nat \ {0} /\ \A i \in 1 .. n : segs[i] \in Segments
  OBVIOUS
<1>3. Walked(w, n, partial, segs)
  BY <1>2, WalkExists
<1>. HIDE DEF w
<1>4. \A i \in 0 .. n : w[i] = IF i = 0 THEN first ELSE TakeSegment(w[i - 1], segs[i])
  BY <1>3 DEF Walked
<1>5. 0 \in T
  <2>1. w[0] = first
    <3>1. 0 \in 0 .. n
      BY <1>2
    <3>. HIDE DEF first
    <3>. QED
      BY <1>4, <3>1
  <2>2. IsWalk(first)
    BY DEF IsWalk
  <2>. QED
    BY <2>1, <2>2
<1>. HIDE DEF first
<1>6. ASSUME NEW k \in Nat, k \in T PROVE k + 1 \in T
  <2>. SUFFICES ASSUME k + 1 <= n PROVE IsWalk(w[k + 1]) /\ Took(w[k + 1], segs[k + 1])
    OBVIOUS
  <2>1. IsWalk(w[k]) /\ (k # 0 => Took(w[k], segs[k]))
    BY <1>2, <1>6
  <2>2. w[k + 1] = TakeSegment(w[k], segs[k + 1])
    <3>1. k + 1 \in 0 .. n /\ k + 1 # 0 /\ (k + 1) - 1 = k
      BY <1>2
    <3>. QED
      BY <1>4, <3>1, Zenon
  <2>3. segs[k + 1] \in Segments
    BY <1>2
  <2>4. ~w[k].over => Joins(w[k].partial, segs[k + 1])
    <3>1. CASE k = 0
      <4>1. w[k].partial = partial
        BY <1>2, <1>4, <3>1 DEF first
      <4>. QED
        BY <3>1, <4>1
    <3>2. CASE k # 0
      <4>1. Succeeds(segs[k], segs[k + 1])
        BY <1>2, <3>2
      <4>. QED
        BY <2>1, <3>2, <4>1 DEF Joins, Took, Succeeds
    <3>. QED
      BY <3>1, <3>2
  <2>. QED
    BY <2>1, <2>2, <2>3, <2>4, SegmentTaken
<1>7. n \in T
  <2>. HIDE DEF T
  <2>. QED
    BY <1>2, <1>5, <1>6, Induction
<1>. QED
  BY <1>1, <1>2, <1>7

(* Where the packet left pending stands: it ends with the last segment of  *)
(* a page, the reader goes by that page's number, and it stands before the *)
(* page that follows or that page is damaged.                              *)
Before(q) ==
  \E k \in q + 1 .. Len(source) + 1 : pos = AtPage(k) /\ OnlyJunk(source, q + 1, k - 1)
Stands(seg) ==
  /\ seg.lace = LaceMax
  /\ \A p \in Genuines(source) : source[p].serial = serial
  /\ \E q \in Genuines(source) : /\ seg = LastOf(source[q])
                                 /\ RestIsLost(seg) \/ Before(q)

SoundAnswers(said) ==
  /\ IsAnswers(said)
  /\ \A n \in DOMAIN said : said[n].kind = "packet" => WholeOrSpliced(said[n].segs)

LaidInv ==
  /\ source \in Seq(Pages) /\ Laid(source)
  /\ pos \in Positions /\ audioStart \in Positions
  /\ calling => stage \in {"head", "tags", "audio"}
  /\ ready \in Seq(Seq(Segments)) /\ pending \in Seq(Segments)
  /\ \A i \in DOMAIN ready : WholeOrSpliced(ready[i])
  /\ SoundAnswers(answers)
  /\ pending # <<>> => WholeOrSpliced(pending) /\ Stands(Ending(pending))

SpliceInv == ioFailures \in Nat /\ (ioFailures = 0 => LaidInv)

(* A damaged page that follows held what the packet lacks.                 *)
LEMMA DamagedIsLost ==
  ASSUME LaidInv, NEW q \in Genuines(source), NEW k \in DOMAIN source, q < k,
         OnlyJunk(source, q + 1, k - 1), LastOf(source[q]).lace = LaceMax,
         source[k].damage \notin {"none", "junk"}
  PROVE  RestIsLost(LastOf(source[q]))
<1>. DEFINE seg == LastOf(source[q])
<1>1. k \in Genuines(source) /\ source[k].segs # <<>> /\ source[k] \in Pages
  BY DEF Genuines, LaidInv, Laid
<1>2. GoesOn(seg, FirstOf(source[k]))
  <2>1. Succeeds(seg, FirstOf(source[k]))
    BY <1>1 DEF LaidInv, Laid
  <2>. QED
    BY <2>1 DEF Succeeds
<1>3. 1 \in DOMAIN source[k].segs
  <2>1. source[k].segs \in Seq(Segments)
    BY <1>1 DEF Pages
  <2>. QED
    BY <1>1, <2>1
<1>. HIDE DEF seg
<1>4. ASSUME NEW p \in DOMAIN source, NEW i \in DOMAIN source[p].segs,
             GoesOn(seg, source[p].segs[i]), source[p].damage = "none"
      PROVE  FALSE
  <2>1. p \in Genuines(source)
    BY <1>4 DEF Genuines
  <2>2. /\ source[p].segs[i].pkt = source[k].segs[1].pkt
        /\ source[p].segs[i].part = source[k].segs[1].part
    BY <1>2, <1>4 DEF GoesOn, FirstOf
  <2>3. \A g \in DOMAIN source[p].segs, h \in DOMAIN source[k].segs :
          /\ source[p].segs[g].pkt = source[k].segs[h].pkt
          /\ source[p].segs[g].part = source[k].segs[h].part
          => p = k
    BY <1>1, <2>1 DEF LaidInv, Laid
  <2>4. p = k
    BY <1>3, <1>4, <2>2, <2>3
  <2>. QED
    BY <1>1, <1>4, <2>4
<1>5. RestIsLost(seg)
  BY <1>4 DEF RestIsLost
<1>. QED
  BY <1>5 DEF seg

(* The page the reader stands at is the next it finds, if its capture      *)
(* pattern is not damaged.                                                 *)
LEMMA FindsThePage ==
  ASSUME LaidInv, NEW k \in DOMAIN source, pos = AtPage(k), source[k].damage # "capture"
  PROVE  Found = k
<1>. DEFINE hits == {p \in k .. Len(source) : source[p].damage # "capture"}
<1>1. Len(source) \in Nat /\ k \in 1 .. Len(source)
  BY DEF LaidInv
<1>2. ~pos.inside /\ pos.page = k
  BY DEF AtPage
<1>3. k \in hits /\ \A p \in hits : k <= p
  BY <1>1
<1>4. Found = Min(hits)
  BY <1>2, <1>3 DEF Found
<1>. HIDE DEF hits
<1>5. Min(hits) = k
  <2>1. ASSUME NEW x \in hits, \A y \in hits : x <= y PROVE x = k
    <3>1. x <= k /\ k <= x /\ x \in Int
      BY <1>1, <1>3, <2>1 DEF hits
    <3>. QED
      BY <1>1, <3>1
  <2>2. \E x \in hits : \A y \in hits : x <= y
    BY <1>3
  <2>. QED
    BY <2>1, <2>2 DEF Min
<1>. QED
  BY <1>4, <1>5

(* So where something is pending, a read finds the page after, or junk     *)
(* before it, or the end of the source, or what the packet lacks is lost.  *)
LEMMA NextIsFound ==
  ASSUME LaidInv, pending # <<>>
  PROVE  \/ RestIsLost(Ending(pending))
         \/ pos = SourceEnd
         \/ /\ Found \in DOMAIN source /\ source[Found].damage \in {"none", "junk"}
            /\ \E q \in Genuines(source) :
                 /\ Ending(pending) = LastOf(source[q]) /\ q < Found
                 /\ OnlyJunk(source, q + 1, Found - 1)
<1>. DEFINE seg == Ending(pending)
<1>1. seg.lace = LaceMax /\ Len(source) \in Nat /\ DOMAIN source = 1 .. Len(source)
  BY DEF LaidInv, Stands
<1>2. PICK q \in Genuines(source) : seg = LastOf(source[q]) /\ (RestIsLost(seg) \/ Before(q))
  BY DEF LaidInv, Stands
<1>. HIDE DEF seg
<1>3. CASE RestIsLost(seg)
  BY <1>3 DEF seg
<1>4. CASE Before(q)
  <2>1. q \in 1 .. Len(source)
    BY <1>1 DEF Genuines
  <2>2. PICK k \in q + 1 .. Len(source) + 1 : pos = AtPage(k) /\ OnlyJunk(source, q + 1, k - 1)
    BY <1>4 DEF Before
  <2>3. CASE k = Len(source) + 1
    BY <2>2, <2>3 DEF SourceEnd
  <2>4. CASE k # Len(source) + 1
    <3>1. k \in DOMAIN source /\ q < k
      BY <1>1, <2>1, <2>4
    <3>2. CASE source[k].damage \in {"none", "junk"}
      <4>1. Found = k
        BY <2>2, <3>1, <3>2, FindsThePage
      <4>. QED
        BY <1>2, <2>2, <3>1, <3>2, <4>1 DEF seg
    <3>3. CASE source[k].damage \notin {"none", "junk"}
      <4>1. RestIsLost(LastOf(source[q]))
        BY <1>1, <1>2, <2>2, <3>1, <3>3, DamagedIsLost
      <4>. QED
        BY <1>2, <4>1 DEF seg
    <3>. QED
      BY <3>2, <3>3
  <2>. QED
    BY <2>3, <2>4
<1>. QED
  BY <1>2, <1>3, <1>4

LEMMA ErrorIsSound ==
  ASSUME NEW said, SoundAnswers(said), NEW a,
         a.kind = "packet" => WholeOrSpliced(a.segs)
  PROVE  SoundAnswers(Append(said, a))
<1>1. PICK S : said \in Seq(S)
  BY DEF SoundAnswers, IsAnswers
<1>2. /\ DOMAIN said = 1 .. Len(said) /\ Len(said) \in Nat
      /\ DOMAIN Append(said, a) = 1 .. Len(said) + 1
      /\ \A n \in 1 .. Len(said) : Append(said, a)[n] = said[n]
      /\ Append(said, a)[Len(said) + 1] = a
  BY <1>1
<1>3. IsAnswers(Append(said, a))
  BY AppendExtends DEF SoundAnswers
<1>4. ASSUME NEW n \in 1 .. Len(said) + 1, Append(said, a)[n].kind = "packet"
      PROVE  WholeOrSpliced(Append(said, a)[n].segs)
  <2>1. CASE n = Len(said) + 1
    BY <1>2, <1>4, <2>1
  <2>2. CASE n # Len(said) + 1
    <3>1. n \in DOMAIN said /\ Append(said, a)[n] = said[n]
      BY <1>2, <2>2
    <3>. QED
      BY <1>4, <3>1 DEF SoundAnswers
  <2>. QED
    BY <2>1, <2>2
<1>. QED
  BY <1>2, <1>3, <1>4 DEF SoundAnswers

(* A call that ends with an answer.                                        *)
LEMMA AnsweredSoundly ==
  ASSUME LaidInv, calling, NEW a, Answer(a), a.kind = "packet" => WholeOrSpliced(a.segs)
  PROVE  calling' = FALSE /\ SoundAnswers(answers')
<1>1. CASE stage = "audio"
  BY <1>1, ErrorIsSound DEF Answer, LaidInv
<1>2. CASE stage # "audio"
  BY <1>2 DEF Answer, LaidInv
<1>. QED
  BY <1>1, <1>2

(***************************************************************************)
(* What the steps do to it.                                                *)
(***************************************************************************)
LEMMA SoundNext ==
  ASSUME LaidInv, source' = source, pos' \in Positions, audioStart' \in Positions,
         calling' => stage' \in {"head", "tags", "audio"},
         ready' \in Seq(Seq(Segments)), pending' \in Seq(Segments),
         \A i \in DOMAIN ready' : WholeOrSpliced(ready'[i]),
         SoundAnswers(answers'),
         pending' # <<>> => WholeOrSpliced(pending') /\ Stands(Ending(pending))'
  PROVE  LaidInv'
<1>1. \A seg : RestIsLost(seg)' <=> RestIsLost(seg)
  BY DEF RestIsLost
<1>2. \A segs : WholeOrSpliced(segs)' <=> WholeOrSpliced(segs)
  BY <1>1 DEF WholeOrSpliced
<1>3. \A said : SoundAnswers(said)' <=> SoundAnswers(said)
  BY <1>2 DEF SoundAnswers
<1>4. source' \in Seq(Pages) /\ Laid(source')
  BY DEF LaidInv
<1>. QED
  BY <1>2, <1>3, <1>4 DEF LaidInv

LEMMA PendingStands ==
  ASSUME LaidInv, pending # <<>>, UNCHANGED <<source, pending, serial>>,
         \/ RestIsLost(Ending(pending))
         \/ UNCHANGED pos
         \/ /\ Found \in DOMAIN source /\ source[Found].damage = "junk" /\ pos' = AtPage(Found + 1)
            /\ \E q \in Genuines(source) :
                 /\ Ending(pending) = LastOf(source[q]) /\ q < Found
                 /\ OnlyJunk(source, q + 1, Found - 1)
  PROVE  Stands(Ending(pending))'
<1>1. PICK seg : seg = Ending(pending)
  OBVIOUS
<1>2. Stands(seg) /\ Ending(pending') = seg /\ source' = source /\ serial' = serial
  BY <1>1 DEF LaidInv
<1>3. \A x : RestIsLost(x)' <=> RestIsLost(x)
  BY DEF RestIsLost
<1>4. \E q \in Genuines(source) : seg = LastOf(source[q]) /\ (RestIsLost(seg) \/ Before(q)')
  <2>1. CASE RestIsLost(seg)
    BY <1>2, <2>1 DEF Stands
  <2>2. CASE UNCHANGED pos
    <3>1. \A q : Before(q)' <=> Before(q)
      BY <1>2, <2>2 DEF Before
    <3>. QED
      BY <1>2, <3>1 DEF Stands
  <2>3. CASE /\ Found \in DOMAIN source /\ source[Found].damage = "junk"
             /\ pos' = AtPage(Found + 1)
             /\ \E q \in Genuines(source) :
                  seg = LastOf(source[q]) /\ q < Found /\ OnlyJunk(source, q + 1, Found - 1)
    <3>1. PICK q \in Genuines(source) :
            seg = LastOf(source[q]) /\ q < Found /\ OnlyJunk(source, q + 1, Found - 1)
      BY <2>3
    <3>2. q \in 1 .. Len(source) /\ Found \in 1 .. Len(source) /\ Len(source) \in Nat
      BY <2>3 DEF Genuines, LaidInv
    <3>3. Found + 1 \in q + 1 .. Len(source) + 1
      BY <3>1, <3>2
    <3>4. OnlyJunk(source, q + 1, (Found + 1) - 1)
      BY <2>3, <3>1, <3>2 DEF OnlyJunk
    <3>5. Before(q)'
      BY <1>2, <2>3, <3>3, <3>4 DEF Before
    <3>. QED
      BY <3>1, <3>5
  <2>. QED
    BY <1>1, <2>1, <2>2, <2>3
<1>5. Stands(seg)'
  BY <1>2, <1>3, <1>4 DEF Stands
<1>. QED
  BY <1>2, <1>5

LEMMA TakingIsSound ==
  ASSUME LaidInv, TakePacket
  PROVE  LaidInv'
<1>1. /\ calling /\ ready # <<>> /\ ready' = Tail(ready)
      /\ UNCHANGED <<source, pos, serial, pending>>
  BY DEF TakePacket
<1>2. /\ ready' \in Seq(Seq(Segments)) /\ WholeOrSpliced(ready[1])
      /\ \A i \in DOMAIN ready' : WholeOrSpliced(ready'[i])
  <2>. DEFINE S == Seq(Segments)
  <2>1. ready \in Seq(S) /\ ready # <<>> /\ ready' = Tail(ready)
    BY <1>1 DEF LaidInv
  <2>. HIDE DEF S
  <2>2. /\ Len(ready) \in Nat \ {0} /\ DOMAIN ready = 1 .. Len(ready)
        /\ ready' \in Seq(S) /\ DOMAIN ready' = 1 .. Len(ready) - 1
        /\ \A i \in 1 .. Len(ready) - 1 : ready'[i] = ready[i + 1]
    BY <2>1
  <2>3. 1 \in DOMAIN ready /\ \A i \in 1 .. Len(ready) - 1 : i + 1 \in DOMAIN ready
    BY <2>2
  <2>4. \A i \in DOMAIN ready : WholeOrSpliced(ready[i])
    BY DEF LaidInv
  <2>5. \A i \in DOMAIN ready' : WholeOrSpliced(ready'[i])
    BY <2>2, <2>3, <2>4
  <2>. QED
    BY <2>2, <2>3, <2>4, <2>5 DEF S
<1>3. pending' # <<>> => WholeOrSpliced(pending') /\ Stands(Ending(pending))'
  BY <1>1, PendingStands DEF LaidInv
<1>4. CASE stage = "audio"
  <2>1. PICK eos : Answer(Packet(ready[1], pageGranule, eos)) /\ UNCHANGED start
    BY <1>4 DEF TakePacket
  <2>. DEFINE a == Packet(ready[1], pageGranule, eos)
  <2>2. a.segs = ready[1]
    BY DEF Packet
  <2>. HIDE DEF a
  <2>3. calling' = FALSE /\ SoundAnswers(answers')
    BY <1>1, <1>2, <2>1, <2>2, AnsweredSoundly DEF a
  <2>4. audioStart' = audioStart /\ pos' \in Positions /\ pending' \in Seq(Segments)
    BY <1>1, <2>1 DEF start, LaidInv
  <2>5. audioStart' \in Positions
    BY <2>4 DEF LaidInv
  <2>. QED
    BY <1>1, <1>2, <1>3, <2>3, <2>4, <2>5, SoundNext
<1>5. CASE stage = "head"
  <2>1. /\ stage' \in {"tags", "refused"} /\ calling' = (stage' = "tags")
        /\ UNCHANGED <<answers, start>>
    BY <1>5 DEF TakePacket
  <2>2. /\ audioStart' \in Positions /\ pos' \in Positions /\ pending' \in Seq(Segments)
        /\ SoundAnswers(answers') /\ (calling' => stage' \in {"head", "tags", "audio"})
    BY <1>1, <2>1 DEF start, LaidInv
  <2>. QED
    BY <1>1, <1>2, <1>3, <2>2, SoundNext
<1>6. CASE stage = "tags"
  <2>1. calling' = FALSE /\ audioStart' = pos /\ UNCHANGED answers
    BY <1>6 DEF TakePacket
  <2>2. /\ audioStart' \in Positions /\ pos' \in Positions /\ pending' \in Seq(Segments)
        /\ SoundAnswers(answers') /\ ~calling'
    BY <1>1, <2>1 DEF LaidInv
  <2>. QED
    BY <1>1, <1>2, <1>3, <2>2, SoundNext
<1>. QED
  BY <1>1, <1>4, <1>5, <1>6 DEF LaidInv

(* A step that ends with an error, or with the end, and drops what was     *)
(* pending or keeps it where it stands.                                    *)
LEMMA ErrorsAreSound ==
  ASSUME LaidInv, calling, NEW a \in {Error, End}, Answer(a), pos' \in Positions,
         UNCHANGED <<source, ready, audioStart>>,
         \/ pending' = <<>>
         \/ pending' = pending /\ (pending # <<>> => Stands(Ending(pending))')
  PROVE  LaidInv'
<1>1. a.kind # "packet"
  BY DEF Error, End
<1>2. calling' = FALSE /\ SoundAnswers(answers')
  BY <1>1, AnsweredSoundly
<1>3. /\ ready' \in Seq(Seq(Segments)) /\ audioStart' \in Positions
      /\ \A i \in DOMAIN ready' : WholeOrSpliced(ready'[i])
  <2>1. ready' = ready /\ audioStart' = audioStart
    OBVIOUS
  <2>. QED
    BY <2>1, Zenon DEF LaidInv
<1>4. pending' \in Seq(Segments)
  <2>1. <<>> \in Seq(Segments)
    OBVIOUS
  <2>. QED
    BY <2>1, Zenon DEF LaidInv
<1>5. pending' # <<>> => WholeOrSpliced(pending') /\ Stands(Ending(pending))'
  BY DEF LaidInv
<1>. QED
  BY <1>2, <1>3, <1>4, <1>5, SoundNext

LEMMA FoundInSource ==
  ASSUME LaidInv
  PROVE  /\ Found \in Nat \ {0} /\ Len(source) \in Nat
         /\ Found <= Len(source) => Found \in DOMAIN source /\ source[Found] \in Pages
         /\ AtPage(Found + 1) \in Positions /\ SourceEnd \in Positions
         /\ pos = SourceEnd => Found > Len(source)
<1>1. Found = FoundFrom(source, pos)
  BY DEF Found, FoundFrom
<1>2. /\ Found \in Nat \ {0} /\ Len(source) \in Nat
      /\ Found <= Len(source) => Found \in DOMAIN source /\ source[Found] \in Pages
  BY <1>1, FoundIsAPage DEF LaidInv
<1>3. AtPage(Found + 1) \in Positions /\ SourceEnd \in Positions
  BY <1>2 DEF AtPage, SourceEnd, Positions
<1>4. ASSUME pos = SourceEnd PROVE Found = Len(source) + 1
  <2>1. ~pos.inside /\ pos.page = Len(source) + 1
    BY <1>4 DEF AtPage, SourceEnd
  <2>2. {p \in Len(source) + 1 .. Len(source) : source[p].damage # "capture"} = {}
    BY <1>2
  <2>. QED
    BY <2>1, <2>2 DEF Found
<1>. QED
  BY <1>2, <1>3, <1>4

LEMMA NoPageIsSound ==
  ASSUME LaidInv, ReadNoPage
  PROVE  LaidInv'
<1>1. /\ Reading /\ pos # SourceEnd /\ Answer(Error)
      /\ UNCHANGED <<source, serial, pending, ready, audioStart>>
  BY DEF ReadNoPage, start
<1>2. calling
  BY <1>1 DEF Reading, Drained
<1>3. \/ Found > Len(source) /\ pos' = SourceEnd
      \/ /\ Found <= Len(source) /\ source[Found].damage \in {"cut", "junk"}
         /\ pos' = AtPage(Found + 1)
  BY FoundInSource DEF ReadNoPage
<1>4. pos' \in Positions
  BY <1>3, FoundInSource
<1>5. ASSUME pending # <<>> PROVE Stands(Ending(pending))'
  <2>1. CASE RestIsLost(Ending(pending))
    BY <1>1, <1>5, <2>1, PendingStands
  <2>2. CASE ~RestIsLost(Ending(pending))
    <3>1. /\ Found \in DOMAIN source /\ source[Found].damage \in {"none", "junk"}
          /\ \E q \in Genuines(source) :
               /\ Ending(pending) = LastOf(source[q]) /\ q < Found
               /\ OnlyJunk(source, q + 1, Found - 1)
      BY <1>1, <1>5, <2>2, NextIsFound
    <3>2. Found <= Len(source)
      BY <3>1 DEF LaidInv
    <3>3. source[Found].damage = "junk" /\ pos' = AtPage(Found + 1)
      BY <1>3, <3>1, <3>2, FoundInSource
    <3>. QED
      BY <1>1, <1>5, <3>1, <3>3, PendingStands
  <2>. QED
    BY <2>1, <2>2
<1>. QED
  BY <1>1, <1>2, <1>4, <1>5, ErrorsAreSound

LEMMA FlippedIsSound ==
  ASSUME LaidInv, ReadFlippedPage
  PROVE  LaidInv'
<1>1. /\ Reading /\ Found <= Len(source) /\ source[Found].damage = "flipped"
      /\ pos' = source[Found].lands /\ Answer(Error)
      /\ UNCHANGED <<source, serial, pending, ready, audioStart>>
  BY DEF ReadFlippedPage, start
<1>2. calling /\ pos' \in Positions
  BY <1>1, FoundInSource DEF Reading, Drained, Pages
<1>3. pos # SourceEnd
  BY <1>1, FoundInSource
<1>4. ASSUME pending # <<>> PROVE Stands(Ending(pending))'
  <2>1. RestIsLost(Ending(pending))
    BY <1>1, <1>3, <1>4, NextIsFound
  <2>. QED
    BY <1>1, <1>4, <2>1, PendingStands
<1>. QED
  BY <1>1, <1>2, <1>4, ErrorsAreSound

(* A page that is taken goes on where the packet pending ended, or what    *)
(* was between them is lost.                                               *)
LEMMA TakenPageJoins ==
  ASSUME LaidInv, Reading, Found <= Len(source), source[Found].damage = "none",
         Continues(source[Found])
  PROVE  Joins(pending, FirstOf(source[Found]))
<1>1. Found \in DOMAIN source /\ pos # SourceEnd
  BY FoundInSource
<1>2. Found \in Genuines(source)
  BY <1>1 DEF Genuines
<1>3. CASE pending = <<>>
  <2>1. ~source[Found].continued
    BY <1>3 DEF Continues
  <2>2. FirstOf(source[Found]).part = 0
    BY <1>2, <2>1 DEF LaidInv, Laid
  <2>. QED
    BY <1>3, <2>2 DEF Joins
<1>4. CASE pending # <<>>
  <2>1. CASE RestIsLost(Ending(pending))
    BY <1>4, <2>1 DEF Joins
  <2>2. CASE ~RestIsLost(Ending(pending))
    <3>1. PICK q \in Genuines(source) :
            /\ Ending(pending) = LastOf(source[q]) /\ q < Found
            /\ OnlyJunk(source, q + 1, Found - 1)
      BY <1>1, <1>4, <2>2, NextIsFound
    <3>2. Succeeds(LastOf(source[q]), FirstOf(source[Found]))
      BY <1>2, <3>1 DEF LaidInv, Laid
    <3>3. Ending(pending).lace = LaceMax
      BY <1>4 DEF LaidInv, Stands
    <3>. QED
      BY <1>4, <3>1, <3>2, <3>3 DEF Succeeds, Joins
  <2>. QED
    BY <2>1, <2>2
<1>. QED
  BY <1>3, <1>4

LEMMA PageIsSound ==
  ASSUME LaidInv, ReadPage
  PROVE  LaidInv'
<1>. DEFINE pg   == source[Found]
            walk == Split(pending, pg.segs)
<1>1. /\ Reading /\ Found <= Len(source) /\ pg.damage = "none" /\ pos' = AtPage(Found + 1)
      /\ serial' = IF pg.bos THEN pg.serial ELSE serial
      /\ UNCHANGED <<source, audioStart>>
  BY DEF ReadPage, start
<1>2. /\ Found \in DOMAIN source /\ pg \in Pages /\ pos' \in Positions
      /\ Found \in Nat \ {0} /\ Len(source) \in Nat
  BY <1>1, FoundInSource
<1>3. calling /\ ready = <<>> /\ audioStart' \in Positions
  BY <1>1 DEF Reading, Drained, LaidInv
<1>4. Found \in Genuines(source)
  BY <1>1, <1>2 DEF Genuines
<1>5. CASE Belongs(pg) /\ Continues(pg)
  <2>1. /\ ready' = walk.done /\ pending' = walk.partial
        /\ IF walk.over THEN Answer(Error) ELSE UNCHANGED <<stage, calling, answers>>
    BY <1>5 DEF ReadPage
  <2>2. /\ pg.segs \in Seq(Segments) /\ pg.segs # <<>> /\ pending \in Seq(Segments)
        /\ pending # <<>> => WholeOrSpliced(pending)
        /\ \A i \in 1 .. Len(pg.segs) - 1 : Succeeds(pg.segs[i], pg.segs[i + 1])
    <3>1. pg.segs \in Seq(Segments)
      <4>. HIDE DEF pg
      <4>. QED
        BY <1>2 DEF Pages
    <3>. QED
      BY <1>4, <3>1 DEF LaidInv, Laid
  <2>3. Joins(pending, pg.segs[1])
    BY <1>1, <1>5, TakenPageJoins DEF FirstOf
  <2>4. IsWalk(walk) /\ Took(walk, LastOf(pg))
    <3>. HIDE DEF pg
    <3>. QED
      BY <2>2, <2>3, SplitIsSound DEF LastOf
  <2>. HIDE DEF walk
  <2>5. /\ ready' \in Seq(Seq(Segments)) /\ pending' \in Seq(Segments)
        /\ \A i \in DOMAIN ready' : WholeOrSpliced(ready'[i])
        /\ pending' # <<>> => WholeOrSpliced(pending')
    BY <2>1, <2>4 DEF IsWalk
  <2>6. (calling' => stage' \in {"head", "tags", "audio"}) /\ SoundAnswers(answers')
    <3>1. CASE walk.over
      <4>1. Error.kind # "packet"
        BY DEF Error
      <4>. QED
        BY <1>3, <2>1, <3>1, <4>1, AnsweredSoundly
    <3>2. CASE ~walk.over
      BY <2>1, <3>2 DEF LaidInv
    <3>. QED
      BY <3>1, <3>2
  <2>7. ASSUME pending' # <<>> PROVE Stands(Ending(pending))'
    <3>1. PICK seg : seg = LastOf(pg)
      OBVIOUS
    <3>4. Ending(pending') = seg /\ seg.lace = LaceMax
      BY <2>1, <2>4, <2>7, <3>1 DEF Took
    <3>2. \A p \in Genuines(source) : source[p].serial = serial'
      <4>1. \A p \in Genuines(source) : source[p].serial = pg.serial
        BY <1>4 DEF LaidInv, Laid
      <4>2. serial' = pg.serial
        BY <1>1, <1>5 DEF Belongs
      <4>. QED
        BY <4>1, <4>2
    <3>3. PICK q : q = Found
      OBVIOUS
    <3>5. Before(q)'
      <4>1. q \in 1 .. Len(source) /\ source' = source /\ pos' = AtPage(q + 1)
        BY <1>1, <1>2, <3>3
      <4>2. q + 1 \in q + 1 .. Len(source') + 1
        BY <4>1
      <4>3. OnlyJunk(source', q + 1, (q + 1) - 1)
        BY <4>1 DEF OnlyJunk
      <4>. QED
        BY <4>1, <4>2, <4>3 DEF Before
    <3>6. q \in Genuines(source) /\ seg = LastOf(source[q]) /\ source' = source
      BY <1>1, <1>4, <3>1, <3>3
    <3>7. Stands(seg)'
      BY <3>2, <3>4, <3>5, <3>6 DEF Stands
    <3>. QED
      BY <3>4, <3>7
  <2>. QED
    BY <1>1, <1>2, <1>3, <2>5, <2>6, <2>7, SoundNext
<1>6. CASE ~(Belongs(pg) /\ Continues(pg))
  <2>1. /\ Answer(Error) /\ pending' = (IF Belongs(pg) THEN <<>> ELSE pending)
        /\ UNCHANGED ready
    BY <1>6 DEF ReadPage
  <2>2. pending # <<>> => Belongs(pg)
    BY <1>4 DEF LaidInv, Stands, Belongs
  <2>3. pending' = <<>>
    BY <2>1, <2>2
  <2>. QED
    BY <1>1, <1>2, <1>3, <2>1, <2>3, ErrorsAreSound
<1>. QED
  BY <1>5, <1>6

LEMMA OthersAreSound ==
  ASSUME LaidInv, StreamIsOver \/ ReadEof \/ Read \/ Rewind
  PROVE  LaidInv'
<1>1. CASE StreamIsOver
  <2>1. /\ calling /\ (Answer(End) \/ Answer(Error)) /\ pending' = <<>>
        /\ UNCHANGED <<source, pos, ready, audioStart>>
    BY <1>1 DEF StreamIsOver, Drained, start
  <2>2. pos' \in Positions
    BY <2>1 DEF LaidInv
  <2>. QED
    BY <2>1, <2>2, ErrorsAreSound
<1>2. CASE ReadEof \/ Read
  <2>1. /\ UNCHANGED <<source, pos, stage, serial, pending, ready, audioStart, answers>>
        /\ calling' => stage \in {"head", "tags", "audio"}
    BY <1>2 DEF ReadEof, Read, Holding, buffers, start, LaidInv
  <2>2. pending # <<>> => Stands(Ending(pending))'
    BY <2>1, PendingStands
  <2>. QED
    BY <2>1, <2>2, SoundNext DEF LaidInv
<1>3. CASE Rewind
  <2>1. /\ pos' = audioStart /\ pending' = <<>> /\ ready' = <<>> /\ answers' = <<>> /\ ~calling'
        /\ UNCHANGED <<source, audioStart>>
    BY <1>3 DEF Rewind, Holding, start
  <2>2. /\ ready' \in Seq(Seq(Segments)) /\ pending' \in Seq(Segments)
        /\ \A i \in DOMAIN ready' : WholeOrSpliced(ready'[i])
    <3>1. \A S : <<>> \in Seq(S) /\ DOMAIN <<>> = {}
      OBVIOUS
    <3>. QED
      BY <2>1, <3>1
  <2>3. SoundAnswers(answers')
    <3>1. <<>> \in Seq({}) /\ DOMAIN <<>> = {}
      OBVIOUS
    <3>. QED
      BY <2>1, <3>1 DEF SoundAnswers, IsAnswers
  <2>4. pos' \in Positions /\ audioStart' \in Positions
    BY <2>1 DEF LaidInv
  <2>. QED
    BY <2>1, <2>2, <2>3, <2>4, SoundNext
<1>. QED
  BY <1>1, <1>2, <1>3

LEMMA SpliceStep ==
  ASSUME SpliceInv, [Next]_vars
  PROVE  SpliceInv'
<1>1. CASE IoFails
  BY <1>1 DEF IoFails, SpliceInv
<1>2. CASE UNCHANGED vars
  <2>1. UNCHANGED ioFailures
    BY <1>2 DEF vars, history
  <2>2. ASSUME LaidInv PROVE LaidInv'
    <3>1. UNCHANGED <<source, pos, stage, serial, pending, ready, audioStart, answers, calling>>
      BY <1>2 DEF vars, buffers, start
    <3>2. pending # <<>> => Stands(Ending(pending))'
      BY <2>2, <3>1, PendingStands
    <3>. QED
      BY <2>2, <3>1, <3>2, SoundNext DEF LaidInv
  <2>. QED
    BY <2>1, <2>2 DEF SpliceInv
<1>3. CASE Step \/ Read \/ Rewind
  <2>1. UNCHANGED ioFailures
    BY <1>3 DEF Step, Read, Rewind, TakePacket, StreamIsOver, ReadEof, ReadNoPage,
                ReadFlippedPage, ReadPage, history
  <2>2. LaidInv => LaidInv'
    BY <1>3, TakingIsSound, NoPageIsSound, FlippedIsSound, PageIsSound, OthersAreSound DEF Step
  <2>. QED
    BY <2>1, <2>2 DEF SpliceInv
<1>. QED
  BY <1>1, <1>2, <1>3 DEF Next

(* From a source a muxer laid out, whatever is wrong with its pages, no    *)
(* packet handed out is spliced from two unless the page that held what is *)
(* missing was damaged: a reader never joins what it could have told apart *)
(* (read_page: the continuation flag, and the pending packet it is checked *)
(* against).                                                               *)
THEOREM SplicesAreOfLostPages ==
  ASSUME \A pages \in Sources : Laid(pages)
  PROVE  Spec => []SplicedOnlyOverLostPages
<1>1. Init => SpliceInv
  <2>. SUFFICES ASSUME Init PROVE SpliceInv
    OBVIOUS
  <2>1. source \in Seq(Pages) /\ Laid(source)
    BY SourceAssumption DEF Init
  <2>2. pos \in Positions /\ audioStart \in Positions
    BY DEF Init, Positions, AtPage
  <2>3. \A S : <<>> \in Seq(S) /\ DOMAIN <<>> = {}
    OBVIOUS
  <2>4. SoundAnswers(<<>>)
    BY <2>3 DEF SoundAnswers, IsAnswers
  <2>5. ready = <<>> /\ pending = <<>> /\ answers = <<>> /\ stage = "head"
    BY DEF Init
  <2>6. LaidInv
    BY <2>1, <2>2, <2>3, <2>4, <2>5 DEF LaidInv
  <2>. QED
    BY <2>6 DEF Init, SpliceInv
<1>2. SpliceInv /\ [Next]_vars => SpliceInv'
  BY SpliceStep
<1>3. SpliceInv => SplicedOnlyOverLostPages
  BY DEF SpliceInv, LaidInv, SoundAnswers, SplicedOnlyOverLostPages
<1>. QED
  BY <1>1, <1>2, <1>3, PTL DEF Spec

(***************************************************************************)
(* Faithful until an error.                                                *)
(*                                                                         *)
(* What a source holds is cut from all its segments at once, and what the  *)
(* reader has taken is a walk over the first so many of them.  First what  *)
(* the cut is, one segment on: where a packet begins, how many have ended. *)
(***************************************************************************)
IsRow(row) == row \in Seq(Segments)
Final(row, k) == row[k].lace < LaceMax

(* A packet begins behind the last final segment before.                   *)
Begins(row, k, b) ==
  /\ b \in 1 .. k
  /\ b = 1 \/ Final(row, b - 1)
  /\ \A j \in b .. k - 1 : ~Final(row, j)

LEMMA BeginsOnce ==
  ASSUME NEW row, NEW k \in Nat, NEW b, NEW c, Begins(row, k, b), Begins(row, k, c)
  PROVE  b = c
<1>1. /\ b \in 1 .. k /\ c \in 1 .. k
      /\ b = 1 \/ Final(row, b - 1)
      /\ c = 1 \/ Final(row, c - 1)
      /\ \A j \in b .. k - 1 : ~Final(row, j)
      /\ \A j \in c .. k - 1 : ~Final(row, j)
  BY DEF Begins
<1>2. CASE b < c
  <2>1. c - 1 \in b .. k - 1 /\ c # 1
    BY <1>1, <1>2
  <2>. QED
    BY <1>1, <2>1
<1>3. CASE c < b
  <2>1. b - 1 \in c .. k - 1 /\ b # 1
    BY <1>1, <1>3
  <2>. QED
    BY <1>1, <2>1
<1>. QED
  BY <1>1, <1>2, <1>3

LEMMA BeginsThere ==
  ASSUME NEW row, NEW k \in Nat \ {0}
  PROVE  Begins(row, k, BeginsAt(row, k))
<1>. DEFINE before == {j \in 1 .. k - 1 : row[j].lace < LaceMax}
<1>1. CASE before = {}
  <2>1. BeginsAt(row, k) = 1
    BY <1>1 DEF BeginsAt
  <2>2. \A j \in 1 .. k - 1 : ~Final(row, j)
    BY <1>1 DEF Final
  <2>. QED
    BY <2>1, <2>2 DEF Begins
<1>2. CASE before # {}
  <2>. DEFINE T == {n \in Nat : n <= k /\ k - n \in before}
  <2>1. T \subseteq Nat /\ T # {}
    <3>1. PICK j \in before : TRUE
      BY <1>2
    <3>2. k - j \in Nat /\ k - j <= k /\ k - (k - j) = j
      BY <3>1
    <3>. QED
      BY <3>1, <3>2
  <2>2. PICK n \in T : \A m \in T : n <= m
    <3>. HIDE DEF T
    <3>. QED
      BY <2>1, LeastNumber
  <2>3. k - n \in before /\ \A y \in before : k - n >= y
    <3>1. ASSUME NEW y \in before PROVE k - n >= y
      <4>1. k - y \in T
        <5>1. y \in 1 .. k - 1
          OBVIOUS
        <5>2. k - y \in Nat /\ k - y <= k /\ k - (k - y) = y
          BY <5>1
        <5>3. k - (k - y) \in before
          BY <5>2
        <5>. HIDE DEF before
        <5>. QED
          BY <5>2, <5>3
      <4>2. n <= k - y /\ n \in Nat
        BY <2>2, <4>1
      <4>3. y \in Nat
        OBVIOUS
      <4>. QED
        BY <4>2, <4>3
    <3>. QED
      BY <2>2, <3>1
  <2>4. Max(before) \in before /\ \A y \in before : Max(before) >= y
    <3>. DEFINE best(x) == x \in before /\ \A y \in before : x >= y
    <3>1. best(k - n)
      BY <2>3
    <3>. HIDE DEF before
    <3>. QED
      BY <3>1 DEF Max
  <2>5. BeginsAt(row, k) = Max(before) + 1
    BY <1>2 DEF BeginsAt
  <2>. DEFINE m == Max(before)
  <2>6. m \in 1 .. k - 1 /\ Final(row, m)
    BY <2>4 DEF Final
  <2>7. ASSUME NEW j \in m + 1 .. k - 1 PROVE ~Final(row, j)
    <3>1. j \in 1 .. k - 1 /\ ~(m >= j)
      BY <2>6
    <3>2. j \notin before
      BY <2>4, <3>1
    <3>. QED
      BY <3>1, <3>2 DEF Final
  <2>. HIDE DEF m
  <2>8. m + 1 \in 1 .. k /\ (m + 1) - 1 = m
    BY <2>6
  <2>. QED
    BY <2>5, <2>6, <2>7, <2>8 DEF Begins, m
<1>. QED
  BY <1>1, <1>2

LEMMA BeginsNext ==
  ASSUME NEW row, NEW k \in Nat \ {0}
  PROVE  /\ BeginsAt(row, 1) = 1
         /\ BeginsAt(row, k) \in 1 .. k
         /\ BeginsAt(row, k + 1) = IF Final(row, k) THEN k + 1 ELSE BeginsAt(row, k)
<1>1. Begins(row, k, BeginsAt(row, k)) /\ Begins(row, k + 1, BeginsAt(row, k + 1))
  BY BeginsThere
<1>2. Begins(row, 1, BeginsAt(row, 1))
  BY BeginsThere
<1>3. CASE Final(row, k)
  <2>1. Begins(row, k + 1, k + 1)
    BY <1>3 DEF Begins
  <2>. QED
    BY <1>1, <1>2, <1>3, <2>1, BeginsOnce DEF Begins
<1>4. CASE ~Final(row, k)
  <2>1. Begins(row, k + 1, BeginsAt(row, k))
    BY <1>1, <1>4 DEF Begins
  <2>. QED
    BY <1>1, <1>2, <1>4, <2>1, BeginsOnce DEF Begins
<1>. QED
  BY <1>3, <1>4

(* How many packets have ended, one segment on.                            *)
Count(row, k) == Cardinality(EndsUpTo(row, k))

LEMMA CountNext ==
  ASSUME NEW row, IsRow(row)
  PROVE  /\ Count(row, 0) = 0
         /\ \A k \in 1 .. Len(row) :
              /\ Count(row, k - 1) \in Nat
              /\ Count(row, k) = Count(row, k - 1) + (IF k \in PacketEnds(row) THEN 1 ELSE 0)
         /\ Count(row, Len(row)) = Cardinality(PacketEnds(row))
<1>. DEFINE ends == PacketEnds(row)
<1>1. /\ ends \subseteq 1 .. Len(row) /\ Len(row) \in Nat
      /\ \A j \in ends : j \in Nat /\ 1 <= j /\ j <= Len(row)
  BY DEF PacketEnds, IsRow
<1>2. IsFiniteSet(ends)
  <2>1. IsFiniteSet(1 .. Len(row))
    BY <1>1, FS_Interval
  <2>. QED
    BY <1>1, <2>1, FS_Subset
<1>. HIDE DEF ends
<1>3. \A k \in Nat : EndsUpTo(row, k) = {j \in ends : j <= k}
  BY DEF EndsUpTo, ends
<1>4. Count(row, 0) = 0
  <2>1. EndsUpTo(row, 0) = {j \in ends : j <= 0}
    BY <1>3
  <2>2. \A j \in ends : ~(j <= 0)
    BY <1>1
  <2>3. EndsUpTo(row, 0) = {}
    BY <2>1, <2>2
  <2>. QED
    BY <2>3, FS_EmptySet DEF Count
<1>5. Count(row, Len(row)) = Cardinality(PacketEnds(row))
  <2>1. EndsUpTo(row, Len(row)) = {j \in ends : j <= Len(row)}
    BY <1>1, <1>3
  <2>2. EndsUpTo(row, Len(row)) = ends
    BY <1>1, <2>1
  <2>. QED
    BY <2>2 DEF Count, ends
<1>6. ASSUME NEW k \in 1 .. Len(row)
      PROVE  /\ Count(row, k - 1) \in Nat
             /\ Count(row, k) = Count(row, k - 1) + (IF k \in ends THEN 1 ELSE 0)
  <2>. DEFINE less == EndsUpTo(row, k - 1)
  <2>1. k \in Nat /\ k - 1 \in Nat
    BY <1>1
  <2>2. less = {j \in ends : j <= k - 1} /\ EndsUpTo(row, k) = {j \in ends : j <= k}
    BY <1>3, <2>1
  <2>3. IsFiniteSet(less)
    BY <1>2, <2>2, FS_Subset
  <2>4. k \notin less
    BY <2>1, <2>2
  <2>5. EndsUpTo(row, k) = IF k \in ends THEN less \cup {k} ELSE less
    <3>1. \A j \in ends : j <= k <=> j <= k - 1 \/ j = k
      BY <1>1, <2>1
    <3>. QED
      BY <2>2, <3>1
  <2>. HIDE DEF less
  <2>6. Cardinality(less) \in Nat
    BY <2>3, FS_CardinalityType
  <2>7. Cardinality(less \cup {k}) = Cardinality(less) + 1
    BY <2>3, <2>4, FS_AddElement
  <2>. QED
    BY <2>5, <2>6, <2>7 DEF Count, less
<1>. QED
  BY <1>4, <1>5, <1>6 DEF ends

LEMMA CountGrows ==
  ASSUME NEW row, IsRow(row), NEW k \in 0 .. Len(row), NEW n \in 0 .. Len(row), k <= n
  PROVE  Count(row, n) \in Nat /\ Count(row, k) \in Nat /\ Count(row, k) <= Count(row, n)
<1>. DEFINE T == {m \in Nat : m <= Len(row) /\ k <= m => Count(row, k) <= Count(row, m)}
<1>1. Len(row) \in Nat
  BY DEF IsRow
<1>5. \A m \in 0 .. Len(row) : Count(row, m) \in Nat
  <2>. TAKE m \in 0 .. Len(row)
  <2>1. CASE m = 0
    BY <2>1, CountNext
  <2>2. CASE m # 0
    <3>1. m \in 1 .. Len(row)
      BY <2>2
    <3>2. /\ Count(row, m - 1) \in Nat
          /\ Count(row, m) = Count(row, m - 1) + (IF m \in PacketEnds(row) THEN 1 ELSE 0)
      BY <3>1, CountNext
    <3>. QED
      BY <3>2
  <2>. QED
    BY <2>1, <2>2
<1>2. 0 \in T
  <2>1. k <= 0 => Count(row, k) <= Count(row, 0)
    BY CountNext
  <2>. QED
    BY <2>1
<1>3. ASSUME NEW m \in Nat, m \in T PROVE m + 1 \in T
  <2>. SUFFICES ASSUME m + 1 <= Len(row), k <= m + 1
                PROVE  Count(row, k) <= Count(row, m + 1)
    OBVIOUS
  <2>1. m + 1 \in 1 .. Len(row) /\ (m + 1) - 1 = m /\ m <= Len(row) /\ k \in 0 .. Len(row)
    BY <1>1
  <2>2. /\ Count(row, m) \in Nat
        /\ Count(row, m + 1) = Count(row, m) + (IF m + 1 \in PacketEnds(row) THEN 1 ELSE 0)
    BY <2>1, CountNext
  <2>3. Count(row, m) <= Count(row, m + 1) /\ Count(row, m + 1) \in Nat
    BY <2>2
  <2>4. CASE k <= m
    <3>1. Count(row, k) <= Count(row, m) /\ Count(row, k) \in Nat
      BY <1>3, <1>5, <2>1, <2>4
    <3>. QED
      BY <2>2, <2>3, <3>1
  <2>5. CASE k = m + 1
    BY <2>3, <2>5
  <2>. QED
    BY <2>4, <2>5
<1>4. n \in T
  <2>. HIDE DEF T
  <2>. QED
    BY <1>1, <1>2, <1>3, Induction
<1>. QED
  BY <1>4, <1>5

LEMMA NthEndIs ==
  ASSUME NEW row, IsRow(row), NEW k \in PacketEnds(row)
  PROVE  NthEnd(row, Count(row, k)) = k
<1>1. k \in 1 .. Len(row) /\ Len(row) \in Nat
  BY DEF PacketEnds, IsRow
<1>2. ASSUME NEW j \in PacketEnds(row), Count(row, j) = Count(row, k) PROVE j = k
  <2>1. j \in 1 .. Len(row)
    BY DEF PacketEnds, IsRow
  <2>2. /\ Count(row, k) = Count(row, k - 1) + 1 /\ Count(row, k - 1) \in Nat
        /\ Count(row, j) = Count(row, j - 1) + 1 /\ Count(row, j - 1) \in Nat
    BY <1>1, <2>1, CountNext
  <2>3. CASE j < k
    <3>1. j <= k - 1 /\ k - 1 \in 0 .. Len(row) /\ j \in 0 .. Len(row)
      BY <1>1, <2>1, <2>3
    <3>2. Count(row, j) <= Count(row, k - 1)
      BY <3>1, CountGrows
    <3>. QED
      BY <1>2, <2>2, <3>2
  <2>4. CASE k < j
    <3>1. k <= j - 1 /\ j - 1 \in 0 .. Len(row) /\ k \in 0 .. Len(row)
      BY <1>1, <2>1, <2>4
    <3>2. Count(row, k) <= Count(row, j - 1)
      BY <3>1, CountGrows
    <3>. QED
      BY <1>2, <2>2, <3>2
  <2>. QED
    BY <1>1, <2>1, <2>3, <2>4
<1>. DEFINE is(j) == j \in PacketEnds(row) /\ Cardinality(EndsUpTo(row, j)) = Count(row, k)
<1>3. is(k)
  BY DEF Count
<1>4. is(NthEnd(row, Count(row, k)))
  BY <1>3 DEF NthEnd
<1>. QED
  BY <1>2, <1>4 DEF Count

(* The packet that ends at a segment, and what is open behind one.         *)
PacketAt(row, k) == SubSeq(row, BeginsAt(row, k), k)
OpenAfter(row, k) == SubSeq(row, BeginsAt(row, k + 1), k)

LEMMA OpenNext ==
  ASSUME NEW row, IsRow(row)
  PROVE  /\ OpenAfter(row, 0) = <<>>
         /\ \A k \in 1 .. Len(row) :
              /\ Append(OpenAfter(row, k - 1), row[k]) = PacketAt(row, k)
              /\ OpenAfter(row, k) = IF Final(row, k) THEN <<>> ELSE PacketAt(row, k)
              /\ row[k] \in Segments
<1>1. row \in Seq(Segments) /\ Len(row) \in Nat
  BY DEF IsRow
<1>2. OpenAfter(row, 0) = <<>>
  <2>1. BeginsAt(row, 0 + 1) = 1
    BY BeginsNext
  <2>. QED
    BY <1>1, <2>1 DEF OpenAfter
<1>3. ASSUME NEW k \in 1 .. Len(row)
      PROVE  /\ Append(OpenAfter(row, k - 1), row[k]) = PacketAt(row, k)
             /\ OpenAfter(row, k) = IF Final(row, k) THEN <<>> ELSE PacketAt(row, k)
             /\ row[k] \in Segments
  <2>1. k \in Nat \ {0} /\ (k - 1) + 1 = k
    BY <1>1
  <2>2. /\ BeginsAt(row, k) \in 1 .. k
        /\ BeginsAt(row, k + 1) = IF Final(row, k) THEN k + 1 ELSE BeginsAt(row, k)
    BY <2>1, BeginsNext
  <2>. DEFINE b == BeginsAt(row, k)
  <2>. HIDE DEF b
  <2>3. Append(SubSeq(row, b, k - 1), row[k]) = SubSeq(row, b, k)
    <3>1. b \in 1 .. k
      BY <2>2 DEF b
    <3>2. /\ SubSeq(row, b, k - 1) \in Seq(Segments) /\ SubSeq(row, b, k) \in Seq(Segments)
          /\ Len(SubSeq(row, b, k - 1)) = k - b /\ Len(SubSeq(row, b, k)) = k - b + 1
          /\ \A i \in 1 .. k - b : SubSeq(row, b, k - 1)[i] = row[b + i - 1]
          /\ \A i \in 1 .. k - b + 1 : SubSeq(row, b, k)[i] = row[b + i - 1]
      BY <1>1, <2>1, <3>1
    <3>3. row[k] \in Segments
      BY <1>1
    <3>. QED
      BY <3>1, <3>2, <3>3
  <2>4. OpenAfter(row, k - 1) = SubSeq(row, b, k - 1)
    BY <2>1 DEF OpenAfter, b
  <2>5. OpenAfter(row, k) = IF Final(row, k) THEN SubSeq(row, k + 1, k) ELSE SubSeq(row, b, k)
    BY <2>2 DEF OpenAfter, b
  <2>6. SubSeq(row, k + 1, k) = <<>>
    BY <1>1
  <2>7. row[k] \in Segments
    BY <1>1
  <2>. QED
    BY <2>3, <2>4, <2>5, <2>6, <2>7 DEF PacketAt, b
<1>. QED
  BY <1>2, <1>3

(* A packet has no bytes when every one of its segments has none.          *)
LEMMA BytesAre ==
  ASSUME NEW packet \in Seq(Segments)
  PROVE  /\ Bytes(packet) \in Nat
         /\ Bytes(packet) = 0 <=> \A i \in 1 .. Len(packet) : packet[i].lace = 0
<1>. DEFINE n == Len(packet)
            IsSum(s, k) == s = [i \in 0 .. k |-> IF i = 0 THEN 0 ELSE s[i - 1] + packet[i].lace]
            T == {k \in Nat : \E s : IsSum(s, k)}
<1>1. n \in Nat /\ \A i \in 1 .. n : packet[i].lace \in Nat
  <2>1. \A i \in 1 .. n : packet[i] \in Segments
    OBVIOUS
  <2>2. \A seg \in Segments : seg.lace \in Nat
    BY LacingAssumption DEF Segments
  <2>. QED
    BY <2>1, <2>2
<1>2. \E s : IsSum(s, n)
  <2>1. 0 \in T
    <3>. DEFINE g == [i \in 0 .. 0 |-> 0]
    <3>1. IsSum(g, 0)
      OBVIOUS
    <3>. HIDE DEF g, IsSum
    <3>. QED
      BY <3>1
  <2>2. ASSUME NEW k \in Nat, k \in T PROVE k + 1 \in T
    <3>1. PICK f : IsSum(f, k)
      BY <2>2
    <3>. DEFINE g == [i \in 0 .. k + 1 |-> IF i <= k THEN f[i] ELSE f[k] + packet[k + 1].lace]
    <3>2. \A i \in 0 .. k : f[i] = IF i = 0 THEN 0 ELSE f[i - 1] + packet[i].lace
      BY <3>1
    <3>3. ASSUME NEW i \in 0 .. k + 1
          PROVE  g[i] = IF i = 0 THEN 0 ELSE g[i - 1] + packet[i].lace
      <4>1. CASE i <= k
        <5>1. g[i] = f[i] /\ i \in 0 .. k /\ (i # 0 => g[i - 1] = f[i - 1])
          BY <4>1
        <5>. HIDE DEF g
        <5>. QED
          BY <3>2, <5>1
      <4>2. CASE i = k + 1
        <5>1. i - 1 = k /\ i # 0 /\ g[i] = f[k] + packet[k + 1].lace /\ g[k] = f[k]
          BY <4>2
        <5>. HIDE DEF g
        <5>. QED
          BY <4>2, <5>1
      <4>. QED
        BY <4>1, <4>2
    <3>4. IsSum(g, k + 1)
      BY <3>3
    <3>. HIDE DEF g
    <3>5. \E s : IsSum(s, k + 1)
      BY <3>4
    <3>. HIDE DEF IsSum
    <3>. QED
      BY <3>5
  <2>3. n \in T
    <3>. HIDE DEF T
    <3>. QED
      BY <1>1, <2>1, <2>2, Induction
  <2>. QED
    BY <2>3
<1>. DEFINE sum == CHOOSE s : IsSum(s, n)
<1>3. IsSum(sum, n)
  BY <1>2
<1>4. Bytes(packet) = sum[n]
  BY DEF Bytes
<1>. HIDE DEF sum
<1>5. /\ sum[0] = 0
      /\ \A i \in 1 .. n : sum[i] = sum[i - 1] + packet[i].lace
  <2>1. \A i \in 0 .. n : sum[i] = IF i = 0 THEN 0 ELSE sum[i - 1] + packet[i].lace
    BY <1>3
  <2>2. 0 \in 0 .. n /\ \A i \in 1 .. n : i \in 0 .. n /\ i # 0
    BY <1>1
  <2>. QED
    BY <2>1, <2>2, Zenon
<1>. DEFINE S == {k \in Nat : k <= n => /\ sum[k] \in Nat
                                        /\ sum[k] = 0 <=> \A i \in 1 .. k : packet[i].lace = 0}
<1>6. 0 \in S
  BY <1>5
<1>7. ASSUME NEW k \in Nat, k \in S PROVE k + 1 \in S
  <2>. SUFFICES ASSUME k + 1 <= n
                PROVE  /\ sum[k + 1] \in Nat
                       /\ sum[k + 1] = 0 <=> \A i \in 1 .. k + 1 : packet[i].lace = 0
    OBVIOUS
  <2>1. k + 1 \in 1 .. n /\ (k + 1) - 1 = k /\ k <= n
    BY <1>1
  <2>2. /\ sum[k] \in Nat
        /\ sum[k] = 0 <=> \A i \in 1 .. k : packet[i].lace = 0
    BY <1>7, <2>1
  <2>3. sum[k + 1] = sum[k] + packet[k + 1].lace /\ packet[k + 1].lace \in Nat
    BY <1>1, <1>5, <2>1
  <2>4. (\A i \in 1 .. k + 1 : packet[i].lace = 0) <=>
           (\A i \in 1 .. k : packet[i].lace = 0) /\ packet[k + 1].lace = 0
    <3>1. \A i \in 1 .. k + 1 : i \in 1 .. k \/ i = k + 1
      OBVIOUS
    <3>2. \A i \in 1 .. k : i \in 1 .. k + 1
      OBVIOUS
    <3>3. k + 1 \in 1 .. k + 1
      OBVIOUS
    <3>. QED
      BY <3>1, <3>2, <3>3, Zenon
  <2>5. sum[k + 1] \in Nat /\ (sum[k + 1] = 0 <=> sum[k] = 0 /\ packet[k + 1].lace = 0)
    BY <2>2, <2>3
  <2>. QED
    BY <2>2, <2>4, <2>5
<1>8. n \in S
  <2>. HIDE DEF S
  <2>. QED
    BY <1>1, <1>6, <1>7, Induction
<1>. QED
  BY <1>1, <1>4, <1>8

(* A packet that has been cut has bytes: read_page drops it else.          *)
LEMMA EmptyPacket ==
  ASSUME NEW row, IsRow(row), NEW k \in 1 .. Len(row), Final(row, k)
  PROVE  k \in PacketEnds(row) <=> Bytes(PacketAt(row, k)) # 0
<1>. DEFINE b == BeginsAt(row, k)
            packet == PacketAt(row, k)
<1>1. row \in Seq(Segments) /\ Len(row) \in Nat /\ k \in Nat \ {0}
  BY DEF IsRow
<1>2. b \in 1 .. k /\ \A j \in b .. k - 1 : ~Final(row, j)
  BY <1>1, BeginsThere DEF Begins
<1>3. \A j \in 1 .. Len(row) : row[j].lace \in 0 .. LaceMax
  <2>1. \A j \in 1 .. Len(row) : row[j] \in Segments
    BY <1>1
  <2>. QED
    BY <2>1 DEF Segments
<1>. HIDE DEF b
<1>4. packet = SubSeq(row, b, k)
  BY DEF PacketAt, b
<1>5. /\ packet \in Seq(Segments) /\ Len(packet) = k - b + 1
      /\ \A i \in 1 .. k - b + 1 : packet[i] = row[b + i - 1]
  BY <1>1, <1>2, <1>4
<1>. HIDE DEF packet
<1>6. Bytes(packet) = 0 <=> \A i \in 1 .. k - b + 1 : packet[i].lace = 0
  BY <1>5, BytesAre
<1>7. k \in PacketEnds(row) <=> b < k \/ row[k].lace > 0
  BY <1>1 DEF PacketEnds, Final, b
<1>8. CASE b < k
  <2>1. row[b].lace = LaceMax
    <3>1. ~Final(row, b) /\ b \in 1 .. Len(row)
      BY <1>1, <1>2, <1>8
    <3>. QED
      BY <1>3, <3>1, LacingAssumption DEF Final
  <2>2. 1 \in 1 .. k - b + 1 /\ b + 1 - 1 = b
    BY <1>2
  <2>3. packet[1] = row[b]
    BY <1>5, <2>2
  <2>. QED
    BY <1>6, <1>7, <1>8, <2>1, <2>2, <2>3, LacingAssumption DEF packet
<1>9. CASE b = k
  <2>1. \A i \in 1 .. k - b + 1 : i = 1 /\ packet[i] = row[k]
    BY <1>1, <1>2, <1>5, <1>9
  <2>2. 1 \in 1 .. k - b + 1
    BY <1>2, <1>9
  <2>3. Bytes(packet) = 0 <=> row[k].lace = 0
    BY <1>6, <2>1, <2>2
  <2>4. row[k].lace \in Nat
    BY <1>3, LacingAssumption
  <2>. QED
    BY <1>2, <1>7, <1>9, <2>3, <2>4 DEF packet
<1>. QED
  BY <1>2, <1>8, <1>9

(* read_page's walk over segments K + 1 to k of the row: what it has done  *)
(* are the packets that end there, and it is left with what is open.       *)
Walking(walk) ==
  /\ DOMAIN walk = {"done", "partial", "over", "ended"}
  /\ walk.done \in Seq(Seq(Segments)) /\ walk.partial \in Seq(Segments)
  /\ walk.over \in BOOLEAN

EndsAs(row, j, n, packet) ==
  j \in PacketEnds(row) /\ Count(row, j) = n /\ packet = PacketAt(row, j)

Cuts(walk, row, K, k) ==
  /\ Walking(walk)
  /\ ~walk.over =>
       /\ walk.partial = OpenAfter(row, k)
       /\ walk.ended <=> k # K /\ k \in PacketEnds(row)
       /\ Len(walk.done) = Count(row, k) - Count(row, K)
       /\ \A d \in 1 .. Len(walk.done) :
            \E j \in K + 1 .. k : EndsAs(row, j, Count(row, K) + d, walk.done[d])

LEMMA SegmentCut ==
  ASSUME NEW row, IsRow(row), NEW K \in 0 .. Len(row), NEW k \in K + 1 .. Len(row),
         NEW walk, Cuts(walk, row, K, k - 1)
  PROVE  Cuts(TakeSegment(walk, row[k]), row, K, k)
<1>. DEFINE seg   == row[k]
            grown == Append(walk.partial, seg)
            next  == TakeSegment(walk, seg)
<1>1. /\ row \in Seq(Segments) /\ Len(row) \in Nat /\ k \in 1 .. Len(row) /\ k \in Nat
      /\ K \in Nat /\ K < k
  BY DEF IsRow
<1>2. Walking(walk) /\ seg \in Segments
  BY <1>1, OpenNext DEF Cuts
<1>3. /\ walk.done \in Seq(Seq(Segments)) /\ walk.partial \in Seq(Segments)
      /\ grown \in Seq(Segments)
  BY <1>2 DEF Walking
<1>4. CASE walk.over
  <2>1. next = walk
    BY <1>4 DEF TakeSegment
  <2>. QED
    BY <1>2, <1>4, <2>1 DEF Cuts
<1>5. CASE ~walk.over
  <2>1. /\ walk.partial = OpenAfter(row, k - 1)
        /\ Len(walk.done) = Count(row, k - 1) - Count(row, K)
        /\ \A d \in 1 .. Len(walk.done) :
             \E j \in K + 1 .. k - 1 : EndsAs(row, j, Count(row, K) + d, walk.done[d])
    BY <1>5 DEF Cuts
  <2>2. grown = PacketAt(row, k)
    BY <1>1, <2>1, OpenNext
  <2>3. /\ Count(row, k) = Count(row, k - 1) + (IF k \in PacketEnds(row) THEN 1 ELSE 0)
        /\ Count(row, k - 1) \in Nat /\ Count(row, K) \in Nat
        /\ Count(row, K) <= Count(row, k - 1)
    <3>1. k - 1 \in 0 .. Len(row) /\ K <= k - 1
      BY <1>1
    <3>. QED
      BY <1>1, <3>1, CountNext, CountGrows
  <2>4. \A d \in 1 .. Len(walk.done) :
          \E j \in K + 1 .. k : EndsAs(row, j, Count(row, K) + d, walk.done[d])
    <3>1. \A j \in K + 1 .. k - 1 : j \in K + 1 .. k
      BY <1>1
    <3>. QED
      BY <2>1, <3>1
  <2>5. OpenAfter(row, k) = IF Final(row, k) THEN <<>> ELSE PacketAt(row, k)
    BY <1>1, OpenNext
  <2>6. Final(row, k) <=> seg.lace # LaceMax
    <3>1. seg.lace \in 0 .. LaceMax
      BY <1>2 DEF Segments
    <3>. QED
      BY <3>1, LacingAssumption DEF Final
  <2>7. k \in PacketEnds(row) => Final(row, k)
    BY DEF PacketEnds, Final
  <2>8. CASE Bytes(grown) > MaxPacketBytes
    <3>1. next = [walk EXCEPT !.partial = <<>>, !.over = TRUE, !.ended = FALSE]
      BY <1>5, <2>8 DEF TakeSegment
    <3>. HIDE DEF next
    <3>2. next.over /\ Walking(next)
      BY <1>2, <3>1 DEF Walking
    <3>. QED
      BY <3>2 DEF Cuts, next
  <2>9. CASE ~(Bytes(grown) > MaxPacketBytes) /\ seg.lace = LaceMax
    <3>1. next = [walk EXCEPT !.partial = grown, !.ended = FALSE]
      BY <1>5, <2>9 DEF TakeSegment
    <3>2. k \notin PacketEnds(row) /\ ~Final(row, k)
      BY <2>6, <2>7, <2>9
    <3>. HIDE DEF next, grown
    <3>3. /\ Walking(next) /\ next.done = walk.done /\ next.partial = grown
          /\ next.ended = FALSE
      BY <1>2, <1>3, <3>1 DEF Walking
    <3>4. Len(next.done) = Count(row, k) - Count(row, K)
      BY <2>1, <2>3, <3>2, <3>3
    <3>. QED
      BY <2>2, <2>4, <2>5, <3>2, <3>3, <3>4 DEF Cuts, next
  <2>10. CASE ~(Bytes(grown) > MaxPacketBytes) /\ seg.lace # LaceMax /\ Bytes(grown) = 0
    <3>1. next = [walk EXCEPT !.partial = <<>>, !.ended = FALSE]
      BY <1>5, <2>10 DEF TakeSegment
    <3>2. k \notin PacketEnds(row) /\ Final(row, k)
      BY <1>1, <2>2, <2>6, <2>10, EmptyPacket
    <3>. HIDE DEF next, grown
    <3>3. /\ Walking(next) /\ next.done = walk.done /\ next.partial = <<>>
          /\ next.ended = FALSE
      BY <1>2, <1>3, <3>1 DEF Walking
    <3>4. Len(next.done) = Count(row, k) - Count(row, K)
      BY <2>1, <2>3, <3>2, <3>3
    <3>. QED
      BY <2>4, <2>5, <3>2, <3>3, <3>4 DEF Cuts, next
  <2>11. CASE ~(Bytes(grown) > MaxPacketBytes) /\ seg.lace # LaceMax /\ Bytes(grown) # 0
    <3>1. next = [walk EXCEPT !.done = Append(@, grown), !.partial = <<>>, !.ended = TRUE]
      BY <1>5, <2>11 DEF TakeSegment
    <3>2. k \in PacketEnds(row) /\ Final(row, k)
      BY <1>1, <2>2, <2>6, <2>11, EmptyPacket
    <3>. HIDE DEF next, grown
    <3>. DEFINE more == Append(walk.done, grown)
                n    == Len(walk.done)
    <3>3. /\ more \in Seq(Seq(Segments)) /\ n \in Nat /\ Len(more) = n + 1
          /\ \A d \in 1 .. n : more[d] = walk.done[d]
          /\ more[n + 1] = grown
      BY <1>3
    <3>4. /\ Walking(next) /\ next.done = more /\ next.partial = <<>>
          /\ next.ended = TRUE
      BY <1>2, <1>3, <3>1, <3>3 DEF Walking
    <3>. HIDE DEF more
    <3>5. Len(more) = Count(row, k) - Count(row, K)
      BY <2>1, <2>3, <3>2, <3>3
    <3>6. ASSUME NEW d \in 1 .. Len(more)
          PROVE  \E j \in K + 1 .. k : EndsAs(row, j, Count(row, K) + d, more[d])
      <4>1. CASE d \in 1 .. n
        <5>1. more[d] = walk.done[d]
          BY <3>3, <4>1
        <5>. QED
          BY <2>4, <4>1, <5>1
      <4>2. CASE d = n + 1
        <5>1. Count(row, k) = Count(row, K) + d
          BY <2>1, <2>3, <3>2, <3>3, <4>2
        <5>2. EndsAs(row, k, Count(row, K) + d, more[d])
          BY <2>2, <3>2, <3>3, <4>2, <5>1 DEF EndsAs
        <5>3. k \in K + 1 .. k
          BY <1>1
        <5>. QED
          BY <5>2, <5>3
      <4>3. d \in 1 .. n \/ d = n + 1
        BY <3>3
      <4>. QED
        BY <4>1, <4>2, <4>3
    <3>. QED
      BY <1>1, <2>5, <3>2, <3>4, <3>5, <3>6 DEF Cuts, next
  <2>. QED
    BY <2>8, <2>9, <2>10, <2>11
<1>. QED
  BY <1>4, <1>5

LEMMA PageCut ==
  ASSUME NEW row, IsRow(row), NEW K \in 0 .. Len(row), NEW segs \in Seq(Segments),
         K + Len(segs) <= Len(row), \A i \in 1 .. Len(segs) : row[K + i] = segs[i]
  PROVE  Cuts(Split(OpenAfter(row, K), segs), row, K, K + Len(segs))
<1>. DEFINE n       == Len(segs)
            partial == OpenAfter(row, K)
            first   == [done |-> <<>>, partial |-> partial, over |-> FALSE, ended |-> FALSE]
            w       == CHOOSE f : Walked(f, n, partial, segs)
            T       == {k \in Nat : k <= n => Cuts(w[k], row, K, K + k)}
<1>1. Split(partial, segs) = w[n]
  BY DEF Split, Walked
<1>2. n \in Nat /\ K \in Nat /\ Len(row) \in Nat /\ row \in Seq(Segments)
  BY DEF IsRow
<1>3. Walked(w, n, partial, segs)
  BY <1>2, WalkExists
<1>. HIDE DEF w
<1>4. \A i \in 0 .. n : w[i] = IF i = 0 THEN first ELSE TakeSegment(w[i - 1], segs[i])
  BY <1>3 DEF Walked
<1>5. 0 \in T
  <2>1. w[0] = first
    <3>1. 0 \in 0 .. n
      BY <1>2
    <3>. HIDE DEF first
    <3>. QED
      BY <1>4, <3>1
  <2>2. partial \in Seq(Segments)
    <3>1. CASE K = 0
      <4>1. partial = <<>>
        BY <3>1, OpenNext
      <4>. QED
        BY <4>1
    <3>2. CASE K # 0
      <4>1. K \in Nat \ {0} /\ K + 1 \in Nat \ {0} /\ K \in 1 .. Len(row)
        BY <1>2, <3>2
      <4>2. BeginsAt(row, K + 1) \in 1 .. K + 1
        BY <4>1, BeginsNext
      <4>. QED
        BY <1>2, <4>1, <4>2 DEF OpenAfter
    <3>. QED
      BY <3>1, <3>2
  <2>3. Count(row, K) \in Nat /\ Count(row, K) - Count(row, K) = 0
    <3>1. Count(row, K) \in Nat
      BY <1>2, CountGrows
    <3>. QED
      BY <3>1
  <2>. HIDE DEF partial
  <2>4. Cuts(first, row, K, K)
    <3>1. Walking(first) /\ Len(first.done) = 0 /\ first.partial = partial
          /\ first.ended = FALSE
      BY <2>2 DEF Walking
    <3>. HIDE DEF first
    <3>. QED
      BY <2>3, <3>1 DEF Cuts, partial
  <2>5. K + 0 = K
    BY <1>2
  <2>. QED
    BY <2>1, <2>4, <2>5
<1>. HIDE DEF first, partial
<1>6. ASSUME NEW k \in Nat, k \in T PROVE k + 1 \in T
  <2>. SUFFICES ASSUME k + 1 <= n PROVE Cuts(w[k + 1], row, K, K + (k + 1))
    OBVIOUS
  <2>1. Cuts(w[k], row, K, K + k)
    BY <1>2, <1>6
  <2>2. w[k + 1] = TakeSegment(w[k], segs[k + 1])
    <3>1. k + 1 \in 0 .. n /\ k + 1 # 0 /\ (k + 1) - 1 = k
      BY <1>2
    <3>. QED
      BY <1>4, <3>1, Zenon
  <2>3. segs[k + 1] = row[K + (k + 1)] /\ K + (k + 1) \in K + 1 .. Len(row)
        /\ (K + (k + 1)) - 1 = K + k
    BY <1>2
  <2>. QED
    BY <2>1, <2>2, <2>3, SegmentCut
<1>7. n \in T
  <2>. HIDE DEF T
  <2>. QED
    BY <1>2, <1>5, <1>6, Induction
<1>. QED
  BY <1>1, <1>2, <1>7 DEF partial

(***************************************************************************)
(* The pages of a source, laid in a row.                                   *)
(***************************************************************************)
(* b[q] is where page q ends in the row of the first r pages' segments.    *)
LaidOut(pages, r, at, b) ==
  /\ at \in Seq(Nat \X Nat)
  /\ b[0] = 0 /\ b[r] = Len(at)
  /\ \A q \in 1 .. r :
       /\ b[q - 1] \in Nat
       /\ b[q] = b[q - 1] + Len(pages[q].segs)
       /\ b[q] <= Len(at)
       /\ \A i \in 1 .. Len(pages[q].segs) : at[b[q - 1] + i] = <<q, i>>
  /\ \A k \in 1 .. Len(at) :
       \E q \in 1 .. r : \E i \in 1 .. Len(pages[q].segs) : at[k] = <<q, i>>

LEMMA OneMorePage ==
  ASSUME NEW pages, pages \in Seq(Pages), NEW r \in 0 .. Len(pages) - 1, NEW at, NEW b,
         LaidOut(pages, r, at, b)
  PROVE  LET part == [i \in DOMAIN pages[r + 1].segs |-> <<r + 1, i>>]
             c    == [q \in 0 .. r + 1 |-> IF q <= r THEN b[q] ELSE b[r] + Len(pages[r + 1].segs)]
         IN LaidOut(pages, r + 1, at \o part, c)
<1>. DEFINE n    == Len(pages[r + 1].segs)
            part == [i \in DOMAIN pages[r + 1].segs |-> <<r + 1, i>>]
            c    == [q \in 0 .. r + 1 |-> IF q <= r THEN b[q] ELSE b[r] + Len(pages[r + 1].segs)]
            all  == at \o part
            m    == Len(at)
<1>1. r \in Nat /\ Len(pages) \in Nat /\ pages[r + 1].segs \in Seq(Segments)
  <2>1. r + 1 \in 1 .. Len(pages)
    OBVIOUS
  <2>2. pages[r + 1] \in Pages
    BY <2>1
  <2>. QED
    BY <2>2 DEF Pages
<1>2. n \in Nat /\ part = [i \in 1 .. n |-> <<r + 1, i>>]
  BY <1>1
<1>. HIDE DEF n
<1>3. part \in Seq(Nat \X Nat) /\ Len(part) = n /\ \A i \in 1 .. n : part[i] = <<r + 1, i>>
  <2>1. \A i \in 1 .. n : <<r + 1, i>> \in Nat \X Nat
    BY <1>1
  <2>. QED
    BY <1>2, <2>1
<1>4. at \in Seq(Nat \X Nat) /\ m \in Nat /\ b[0] = 0 /\ b[r] = m
  BY DEF LaidOut
<1>. HIDE DEF part
<1>5. /\ all \in Seq(Nat \X Nat) /\ Len(all) = m + n
      /\ \A k \in 1 .. m : all[k] = at[k]
      /\ \A i \in 1 .. n : all[m + i] = <<r + 1, i>>
  BY <1>2, <1>3, <1>4
<1>. HIDE DEF all, m
<1>6. /\ \A q \in 0 .. r : c[q] = b[q]
      /\ c[r + 1] = m + n
  BY <1>1, <1>4 DEF n
<1>. HIDE DEF c
<1>7. ASSUME NEW q \in 1 .. r + 1
      PROVE  /\ c[q - 1] \in Nat
             /\ c[q] = c[q - 1] + Len(pages[q].segs)
             /\ c[q] <= Len(all)
             /\ \A i \in 1 .. Len(pages[q].segs) : all[c[q - 1] + i] = <<q, i>>
  <2>1. CASE q = r + 1
    <3>1. q - 1 \in 0 .. r /\ q - 1 = r
      BY <1>1, <2>1
    <3>2. c[q - 1] = m /\ c[q] = m + n /\ Len(pages[q].segs) = n
      BY <1>4, <1>6, <2>1, <3>1 DEF n
    <3>3. \A i \in 1 .. n : all[c[q - 1] + i] = <<q, i>>
      BY <1>5, <2>1, <3>2
    <3>4. c[q - 1] \in Nat /\ c[q] = c[q - 1] + n /\ c[q] <= Len(all)
      BY <1>2, <1>4, <1>5, <3>2
    <3>. QED
      BY <3>2, <3>3, <3>4
  <2>2. CASE q # r + 1
    <3>1. q \in 1 .. r /\ q \in 0 .. r /\ q - 1 \in 0 .. r
      BY <1>1, <2>2
    <3>2. c[q - 1] = b[q - 1] /\ c[q] = b[q]
      BY <1>6, <3>1
    <3>3. /\ b[q - 1] \in Nat
          /\ b[q] = b[q - 1] + Len(pages[q].segs)
          /\ b[q] <= m
          /\ \A i \in 1 .. Len(pages[q].segs) : at[b[q - 1] + i] = <<q, i>>
      BY <3>1 DEF LaidOut, m
    <3>4. Len(pages[q].segs) \in Nat
      <4>1. q \in 1 .. Len(pages)
        BY <1>1, <3>1
      <4>2. pages[q] \in Pages
        BY <4>1
      <4>. QED
        BY <4>2 DEF Pages
    <3>. DEFINE s == Len(pages[q].segs)
    <3>. HIDE DEF s
    <3>5. s \in Nat /\ b[q] = b[q - 1] + s /\ \A i \in 1 .. s : at[b[q - 1] + i] = <<q, i>>
      BY <3>3, <3>4 DEF s
    <3>6. ASSUME NEW i \in 1 .. s PROVE b[q - 1] + i \in 1 .. m
      <4>. DEFINE K == b[q - 1]
      <4>1. K \in Nat /\ K + s <= m
        BY <3>3, <3>5
      <4>. HIDE DEF K
      <4>2. K + i \in 1 .. m
        BY <1>4, <3>5, <4>1
      <4>. QED
        BY <4>2 DEF K
    <3>7. \A i \in 1 .. s : all[b[q - 1] + i] = <<q, i>>
      BY <1>5, <3>5, <3>6
    <3>8. b[q] <= Len(all)
      <4>1. b[q] \in Nat
        BY <3>3, <3>5
      <4>. QED
        BY <1>2, <1>4, <1>5, <3>3, <4>1
    <3>. QED
      BY <3>2, <3>3, <3>5, <3>7, <3>8 DEF s
  <2>. QED
    BY <2>1, <2>2
<1>8. ASSUME NEW k \in 1 .. Len(all)
      PROVE  \E q \in 1 .. r + 1 : \E i \in 1 .. Len(pages[q].segs) : all[k] = <<q, i>>
  <2>1. CASE k <= m
    <3>1. k \in 1 .. m
      BY <1>4, <2>1
    <3>2. PICK q \in 1 .. r : \E i \in 1 .. Len(pages[q].segs) : at[k] = <<q, i>>
      BY <3>1 DEF LaidOut, m
    <3>3. all[k] = at[k] /\ q \in 1 .. r + 1
      BY <1>1, <1>5, <3>1
    <3>. QED
      BY <3>2, <3>3
  <2>2. CASE ~(k <= m)
    <3>1. k - m \in 1 .. n /\ m + (k - m) = k
      BY <1>2, <1>4, <1>5, <2>2
    <3>2. all[k] = <<r + 1, k - m>>
      BY <1>5, <3>1
    <3>3. r + 1 \in 1 .. r + 1
      BY <1>1
    <3>. QED
      BY <3>1, <3>2, <3>3 DEF n
  <2>. QED
    BY <2>1, <2>2
<1>9. c[0] = 0 /\ c[r + 1] = Len(all)
  <2>1. 0 \in 0 .. r
    BY <1>1
  <2>2. c[0] = b[0]
    BY <1>6, <2>1
  <2>. QED
    BY <1>4, <1>5, <1>6, <2>2
<1>10. LaidOut(pages, r + 1, all, c)
  BY <1>5, <1>7, <1>8, <1>9 DEF LaidOut
<1>. QED
  BY <1>10 DEF all, c, part

(* The intact pages are the first ones of the source, up to the first that *)
(* is damaged or follows one that ends the stream.                         *)
LEMMA IntactAre ==
  ASSUME NEW pages, pages \in Seq(Pages)
  PROVE  /\ IntactPages(pages) \in 0 .. Len(pages)
         /\ \A p \in 1 .. IntactPages(pages) : ~Stops(pages, p)
         /\ IntactPages(pages) < Len(pages) => Stops(pages, IntactPages(pages) + 1)
<1>. DEFINE stops == {p \in DOMAIN pages : Stops(pages, p)}
            Q     == IntactPages(pages)
<1>1. Len(pages) \in Nat /\ DOMAIN pages = 1 .. Len(pages)
  OBVIOUS
<1>2. CASE stops = {}
  <2>1. Q = Len(pages)
    BY <1>2 DEF IntactPages
  <2>2. \A p \in 1 .. Len(pages) : ~Stops(pages, p)
    BY <1>1, <1>2
  <2>. QED
    BY <1>1, <2>1, <2>2
<1>3. CASE stops # {}
  <2>1. stops \subseteq Nat /\ stops \subseteq 1 .. Len(pages)
    BY <1>1
  <2>2. \E p \in stops : \A q \in stops : p <= q
    <3>. HIDE DEF stops
    <3>. QED
      BY <1>3, <2>1, LeastNumber
  <2>. DEFINE least == Min(stops)
  <2>3. least \in stops /\ \A q \in stops : least <= q
    <3>. DEFINE best(x) == x \in stops /\ \A y \in stops : x =< y
    <3>1. \E x : best(x)
      BY <2>2
    <3>. HIDE DEF stops
    <3>. QED
      BY <3>1 DEF Min
  <2>4. Q = least - 1
    BY <1>3 DEF IntactPages
  <2>5. least \in 1 .. Len(pages) /\ Stops(pages, least)
    BY <1>1, <2>3
  <2>6. \A p \in 1 .. Len(pages) : p < least => ~Stops(pages, p)
    <3>. TAKE p \in 1 .. Len(pages)
    <3>. HAVE p < least
    <3>1. ~(least <= p)
      BY <2>5
    <3>2. p \notin stops
      BY <2>3, <3>1
    <3>. QED
      BY <1>1, <3>2
  <2>. HIDE DEF least, stops
  <2>7. Q \in 0 .. Len(pages) /\ Q + 1 = least
    BY <1>1, <2>4, <2>5
  <2>8. \A p \in 1 .. Q : p \in 1 .. Len(pages) /\ p < least
    BY <1>1, <2>5, <2>7
  <2>. QED
    BY <2>5, <2>6, <2>7, <2>8
<1>. QED
  BY <1>2, <1>3

LEMMA PlacesLaidOut ==
  ASSUME NEW pages, pages \in Seq(Pages)
  PROVE  \E b : LaidOut(pages, IntactPages(pages), Places(pages), b)
<1>. DEFINE Q     == IntactPages(pages)
            part(q) == [i \in DOMAIN pages[q].segs |-> <<q, i>>]
            parts == [q \in 1 .. Q |-> part(q)]
<1>1. Q \in 0 .. Len(pages) /\ Len(pages) \in Nat
  BY IntactAre
<1>2. Places(pages) = FlattenSeq(parts)
  BY DEF Places
<1>. HIDE DEF Q
<1>3. Len(parts) = Q
  BY <1>1
<1>4. \A q \in 1 .. Q : parts[q] = part(q)
  OBVIOUS
<1>5. LaidOut(pages, 0, <<>>, [q \in 0 .. 0 |-> 0])
  BY DEF LaidOut
<1>6. CASE Q = 0
  <2>1. parts = <<>>
    BY <1>6
  <2>2. FlattenSeq(parts) = <<>>
    BY <2>1 DEF FlattenSeq
  <2>. QED
    BY <1>2, <1>5, <1>6, <2>2 DEF Q
<1>7. CASE Q # 0
  <2>. HIDE DEF parts, part
  <2>1. PICK f : /\ f[1] = parts[1]
                 /\ \A i \in 2 .. Q : f[i] = f[i - 1] \o parts[i]
                 /\ FlattenSeq(parts) = f[Q]
    <3>1. Len(parts) \in Nat \ {0}
      BY <1>1, <1>3, <1>7
    <3>2. \E f : /\ f[1] = parts[1]
                 /\ \A i \in 2 .. Len(parts) : f[i] = f[i - 1] \o parts[i]
                 /\ FlattenSeq(parts) = f[Len(parts)]
      BY <3>1, FlattenUnfolds
    <3>. QED
      BY <1>3, <3>2
  <2>. DEFINE T == {r \in Nat : r + 1 <= Q => \E b : LaidOut(pages, r + 1, f[r + 1], b)}
  <2>2. 0 \in T
    <3>1. 0 \in 0 .. Len(pages) - 1 /\ 1 \in 1 .. Q
      BY <1>1, <1>7
    <3>2. \E b : LaidOut(pages, 0 + 1, <<>> \o part(0 + 1), b)
      BY <1>5, <3>1, OneMorePage DEF part
    <3>3. <<>> \o part(0 + 1) = f[0 + 1]
      <4>1. part(1) \in Seq(Nat \X Nat)
        <5>1. pages[1] \in Pages
          BY <1>1, <1>7
        <5>2. pages[1].segs \in Seq(Segments)
          BY <5>1 DEF Pages
        <5>3. part(1) = [i \in 1 .. Len(pages[1].segs) |-> <<1, i>>] /\ Len(pages[1].segs) \in Nat
          BY <5>2 DEF part
        <5>4. \A i \in 1 .. Len(pages[1].segs) : <<1, i>> \in Nat \X Nat
          OBVIOUS
        <5>. QED
          BY <5>3, <5>4
      <4>2. part(1) = f[1]
        BY <1>4, <2>1, <3>1
      <4>. QED
        BY <4>1, <4>2
    <3>. QED
      BY <3>2, <3>3
  <2>3. ASSUME NEW r \in Nat, r \in T PROVE r + 1 \in T
    <3>. SUFFICES ASSUME (r + 1) + 1 <= Q
                  PROVE  \E b : LaidOut(pages, (r + 1) + 1, f[(r + 1) + 1], b)
      OBVIOUS
    <3>1. PICK b : LaidOut(pages, r + 1, f[r + 1], b)
      BY <1>1, <2>3
    <3>2. r + 1 \in 0 .. Len(pages) - 1 /\ (r + 1) + 1 \in 2 .. Q /\ (r + 1) + 1 \in 1 .. Q
          /\ ((r + 1) + 1) - 1 = r + 1
      BY <1>1
    <3>3. \E c : LaidOut(pages, (r + 1) + 1, f[r + 1] \o part((r + 1) + 1), c)
      BY <3>1, <3>2, OneMorePage DEF part
    <3>4. f[(r + 1) + 1] = f[r + 1] \o part((r + 1) + 1)
      BY <1>4, <2>1, <3>2
    <3>. QED
      BY <3>3, <3>4
  <2>4. Q - 1 \in T /\ (Q - 1) + 1 = Q
    <3>. HIDE DEF T
    <3>. QED
      BY <1>1, <1>7, <2>2, <2>3, Induction
  <2>5. \E b : LaidOut(pages, Q, f[Q], b)
    BY <2>4
  <2>. QED
    BY <1>2, <2>1, <2>5 DEF Q
<1>. QED
  BY <1>6, <1>7

RowOf(pages) == Row(pages, Places(pages))
Edge(pages)  == CHOOSE b : LaidOut(pages, IntactPages(pages), Places(pages), b)

(* Where page q's segments are in the row.                                 *)
OnRow(pages, q) ==
  /\ Edge(pages)[q - 1] \in 0 .. Len(RowOf(pages))
  /\ Edge(pages)[q] \in 0 .. Len(RowOf(pages))
  /\ Edge(pages)[q] = Edge(pages)[q - 1] + Len(pages[q].segs)
  /\ \A i \in 1 .. Len(pages[q].segs) :
       /\ RowOf(pages)[Edge(pages)[q - 1] + i] = pages[q].segs[i]
       /\ Places(pages)[Edge(pages)[q - 1] + i] = <<q, i>>

LEMMA EdgesAre ==
  ASSUME NEW pages, pages \in Seq(Pages)
  PROVE  /\ IsRow(RowOf(pages))
         /\ Edge(pages)[0] = 0 /\ Edge(pages)[IntactPages(pages)] = Len(RowOf(pages))
         /\ \A q \in 1 .. IntactPages(pages) : OnRow(pages, q) /\ pages[q] \in Pages
<1>. DEFINE Q   == IntactPages(pages)
            at  == Places(pages)
            row == RowOf(pages)
            b   == Edge(pages)
            N   == Len(at)
<1>1. LaidOut(pages, Q, at, b)
  BY PlacesLaidOut DEF Edge
<1>2. Q \in 0 .. Len(pages) /\ Len(pages) \in Nat
  BY IntactAre
<1>. HIDE DEF Q, at, b
<1>3. /\ at \in Seq(Nat \X Nat) /\ N \in Nat /\ DOMAIN at = 1 .. N
      /\ b[0] = 0 /\ b[Q] = N
  BY <1>1 DEF LaidOut
<1>4. \A q \in 1 .. Q : pages[q] \in Pages /\ pages[q].segs \in Seq(Segments)
  <2>. TAKE q \in 1 .. Q
  <2>1. q \in 1 .. Len(pages)
    BY <1>2
  <2>2. pages[q] \in Pages
    BY <2>1
  <2>. QED
    BY <2>2 DEF Pages
<1>5. row = [k \in 1 .. N |-> pages[at[k][1]].segs[at[k][2]]]
  BY <1>3 DEF RowOf, Row, at
<1>. HIDE DEF row, N
<1>6. \A k \in 1 .. N : row[k] \in Segments
  <2>. TAKE k \in 1 .. N
  <2>1. PICK q \in 1 .. Q : \E i \in 1 .. Len(pages[q].segs) : at[k] = <<q, i>>
    BY <1>1 DEF LaidOut, N
  <2>2. PICK i \in 1 .. Len(pages[q].segs) : at[k] = <<q, i>>
    BY <2>1
  <2>3. row[k] = pages[q].segs[i]
    BY <1>5, <2>2
  <2>4. pages[q].segs \in Seq(Segments)
    BY <1>4
  <2>. QED
    BY <2>3, <2>4
<1>7. row \in Seq(Segments) /\ Len(row) = N
  BY <1>3, <1>5, <1>6
<1>8. ASSUME NEW q \in 1 .. Q
      PROVE  /\ b[q - 1] \in 0 .. N /\ b[q] \in 0 .. N
             /\ b[q] = b[q - 1] + Len(pages[q].segs)
             /\ \A i \in 1 .. Len(pages[q].segs) :
                  row[b[q - 1] + i] = pages[q].segs[i] /\ at[b[q - 1] + i] = <<q, i>>
  <2>. DEFINE s == Len(pages[q].segs)
  <2>1. pages[q].segs \in Seq(Segments) /\ s \in Nat
    BY <1>4
  <2>2. /\ b[q - 1] \in Nat /\ b[q] = b[q - 1] + s /\ b[q] <= N
        /\ \A i \in 1 .. s : at[b[q - 1] + i] = <<q, i>>
    BY <1>1 DEF LaidOut, N
  <2>. HIDE DEF s
  <2>3. b[q - 1] \in 0 .. N /\ b[q] \in 0 .. N
    BY <1>3, <2>1, <2>2
  <2>. DEFINE K == b[q - 1]
  <2>4. K \in Nat /\ K + s <= N /\ \A i \in 1 .. s : at[K + i] = <<q, i>>
    BY <2>2
  <2>. HIDE DEF K
  <2>5. \A i \in 1 .. s : row[K + i] = pages[q].segs[i]
    <3>. TAKE i \in 1 .. s
    <3>1. K + i \in 1 .. N
      BY <1>3, <2>1, <2>4
    <3>2. row[K + i] = pages[at[K + i][1]].segs[at[K + i][2]]
      BY <1>5, <3>1
    <3>. QED
      BY <2>4, <3>2
  <2>. QED
    BY <2>2, <2>3, <2>5 DEF s, K
<1>. QED
  BY <1>3, <1>4, <1>7, <1>8 DEF IsRow, OnRow, Q, at, b, row, N

(* The packet that ends at a place of page q.                              *)
LEMMA PacketOnPage ==
  ASSUME NEW pages, pages \in Seq(Pages), NEW q \in 1 .. IntactPages(pages),
         NEW j \in Edge(pages)[q - 1] + 1 .. Edge(pages)[q], j \in PacketEnds(RowOf(pages))
  PROVE  LET n == Count(RowOf(pages), j)
         IN /\ n \in 1 .. Len(SourcePackets(pages))
            /\ SourcePackets(pages)[n]
                 = Packet(PacketAt(RowOf(pages), j), pages[q].granule,
                          (pages[q].eos /\ j = Edge(pages)[q]))
<1>. DEFINE row == RowOf(pages)
            at  == Places(pages)
            b   == Edge(pages)
            n   == Count(row, j)
            s   == Len(pages[q].segs)
<1>1. IsRow(row) /\ OnRow(pages, q) /\ pages[q] \in Pages
  BY EdgesAre
<1>2. Len(row) \in Nat /\ j \in 1 .. Len(row)
  BY <1>1 DEF IsRow, PacketEnds
<1>3. pages[q].segs \in Seq(Segments)
  BY <1>1 DEF Pages
<1>4. s \in Nat /\ b[q - 1] \in Nat /\ b[q] = b[q - 1] + s
      /\ \A i \in 1 .. s : at[b[q - 1] + i] = <<q, i>>
  BY <1>1, <1>2, <1>3 DEF OnRow
<1>. HIDE DEF s, b, at, row
<1>5. at[j] = <<q, j - b[q - 1]>>
  <2>1. j - b[q - 1] \in 1 .. s /\ b[q - 1] + (j - b[q - 1]) = j
    BY <1>4 DEF b
  <2>. QED
    BY <1>4, <2>1
<1>6. at[j][1] = q /\ (at[j][2] = s <=> j = b[q])
  <2>1. at[j][1] = q /\ at[j][2] = j - b[q - 1]
    BY <1>5
  <2>2. j \in Int
    BY <1>2
  <2>. QED
    BY <1>4, <2>1, <2>2
<1>7. n \in 1 .. Cardinality(PacketEnds(row))
  <2>1. /\ Count(row, j) = Count(row, j - 1) + 1 /\ Count(row, j - 1) \in Nat
        /\ Cardinality(PacketEnds(row)) = Count(row, Len(row))
    BY <1>1, <1>2, CountNext DEF row
  <2>2. Count(row, j) <= Count(row, Len(row)) /\ Count(row, Len(row)) \in Nat
    BY <1>1, <1>2, CountGrows DEF row
  <2>. QED
    BY <2>1, <2>2
<1>8. NthEnd(row, n) = j
  BY <1>1, NthEndIs DEF row
<1>. DEFINE total == Cardinality(PacketEnds(row))
<1>. HIDE DEF n, total
<1>9. SourcePackets(pages) = [m \in 1 .. total |-> PacketTo(pages, at, row, NthEnd(row, m))]
  BY DEF SourcePackets, RowOf, row, at, total
<1>10. total \in Nat
  BY <1>1, <1>2, CountGrows, CountNext DEF total, row
<1>11. n \in 1 .. Len(SourcePackets(pages))
       /\ SourcePackets(pages)[n] = PacketTo(pages, at, row, j)
  BY <1>7, <1>8, <1>9, <1>10 DEF total
<1>12. PacketTo(pages, at, row, j)
         = Packet(PacketAt(row, j), pages[q].granule, (pages[q].eos /\ j = b[q]))
  <2>1. PacketTo(pages, at, row, j)
          = Packet(SubSeq(row, BeginsAt(row, j), j), pages[q].granule,
                   (pages[q].eos /\ at[j][2] = s))
    BY <1>6 DEF PacketTo, s
  <2>. QED
    BY <1>6, <2>1 DEF PacketAt
<1>. QED
  BY <1>11, <1>12 DEF row, b, n

(***************************************************************************)
(* The reader behind page q of the row.                                    *)
(***************************************************************************)
EosOf(pages, q)   == IF q = 0 THEN FALSE ELSE pages[q].eos
EndedBy(pages, q) == Count(RowOf(pages), Edge(pages)[q])
Expected(i) == Packet(ready[i], pageGranule, (lastIsEos /\ i = Len(ready)))

(* Of the packets that end on the pages read the first n have been taken,  *)
(* two of them by the constructor, and the rest are ready.                 *)
Handed(n) ==
  /\ stage = "head" => n = 0
  /\ stage = "tags" => n = 1
  /\ stage = "audio" =>
       /\ n \in 2 .. Len(answers) + 2
       /\ \A m \in 1 .. Len(answers) :
            answers[m] = IF m <= n - 2 THEN SourcePackets(source)[m + 2] ELSE End
       /\ n - 2 < Len(answers) => ready = <<>> /\ pending = <<>> /\ Over
ReadyAre(q, n) ==
  /\ n + Len(ready) = EndedBy(source, q)
  /\ \A i \in 1 .. Len(ready) : /\ n + i \in 1 .. Len(SourcePackets(source))
                                /\ SourcePackets(source)[n + i] = Expected(i)

Behind(q, n) ==
  /\ pos = AtPage(q + 1)
  /\ sawEos = EosOf(source, q)
  /\ exhausted => q = Len(source)
  /\ pending = OpenAfter(RowOf(source), Edge(source)[q])
  /\ ready \in Seq(Seq(Segments))
  /\ Handed(n)
  /\ ReadyAre(q, n)
OnTrack == \E q \in 0 .. IntactPages(source) : \E n \in Nat : Behind(q, n)

(* Where a rewind goes back to: behind the page the tags finish, with two  *)
(* packets ended and none open.                                            *)
StartsWell ==
  \E q \in 0 .. IntactPages(source) :
    /\ audioStart = AtPage(q + 1)
    /\ audioStartEos = EosOf(source, q)
    /\ OpenAfter(RowOf(source), Edge(source)[q]) = <<>>
    /\ EndedBy(source, q) = 2

FaithfulInv ==
  /\ source \in Seq(Pages)
  /\ stage \in {"head", "tags", "audio", "refused"}
  /\ stage = "refused" => ~calling
  /\ IsAnswers(answers)
  /\ stage # "audio" => answers = <<>>
  /\ ~PassedOver => /\ stage # "refused" /\ ~Errored => OnTrack
                    /\ stage = "audio" => StartsWell

(* What the source should deliver, by index.                               *)
LEMMA SourcePacketsAre ==
  ASSUME NEW pages, pages \in Seq(Pages)
  PROVE  /\ Len(SourcePackets(pages)) = EndedBy(pages, IntactPages(pages))
         /\ Len(SourcePackets(pages)) \in Nat
         /\ \A m \in 1 .. Len(SourcePackets(pages)) : SourcePackets(pages)[m] # End
         /\ DOMAIN AudioPackets(pages) = {m \in Nat \ {0} : m + 2 <= Len(SourcePackets(pages))}
         /\ \A m \in DOMAIN AudioPackets(pages) :
              AudioPackets(pages)[m] = SourcePackets(pages)[m + 2]
<1>. DEFINE row   == RowOf(pages)
            at    == Places(pages)
            total == Cardinality(PacketEnds(row))
            sp    == SourcePackets(pages)
            to(m) == PacketTo(pages, at, row, NthEnd(row, m))
<1>1. IsRow(row) /\ Edge(pages)[IntactPages(pages)] = Len(row)
  BY EdgesAre
<1>2. total = Count(row, Len(row)) /\ total \in Nat
  <2>1. Len(row) \in 0 .. Len(row)
    BY <1>1 DEF IsRow
  <2>. HIDE DEF row
  <2>. QED
    BY <1>1, <2>1, CountNext, CountGrows
<1>. HIDE DEF total
<1>3. sp = [m \in 1 .. total |-> to(m)]
  BY DEF SourcePackets, RowOf, total
<1>. HIDE DEF to, sp
<1>4. Len(sp) = total /\ \A m \in 1 .. total : sp[m] = to(m)
  BY <1>2, <1>3
<1>5. \A m \in 1 .. total : to(m) # End
  BY DEF to, PacketTo, Packet, End
<1>6. sp \in Seq({to(m) : m \in 1 .. total})
  BY <1>2, <1>3
<1>7. AudioPackets(pages) = SubSeq(sp, 3, total)
  BY <1>4 DEF AudioPackets, sp
<1>8. /\ DOMAIN SubSeq(sp, 3, total) = {m \in Nat \ {0} : m + 2 <= total}
      /\ \A m \in DOMAIN SubSeq(sp, 3, total) : SubSeq(sp, 3, total)[m] = sp[m + 2]
  <2>. DEFINE tail == SubSeq(sp, 3, total)
  <2>1. CASE total < 3
    <3>1. tail = <<>>
      BY <1>2, <1>4, <1>6, <2>1
    <3>2. DOMAIN tail = {} /\ {m \in Nat \ {0} : m + 2 <= total} = {}
      BY <1>2, <2>1, <3>1
    <3>. QED
      BY <3>2
  <2>2. CASE total >= 3
    <3>1. /\ DOMAIN tail = 1 .. total - 2
          /\ \A m \in 1 .. total - 2 : tail[m] = sp[3 + m - 1]
      BY <1>2, <1>4, <1>6, <2>2
    <3>2. 1 .. total - 2 = {m \in Nat \ {0} : m + 2 <= total}
      BY <1>2, <2>2
    <3>3. \A m \in 1 .. total - 2 : 3 + m - 1 = m + 2
      OBVIOUS
    <3>. QED
      BY <3>1, <3>2, <3>3
  <2>. QED
    BY <1>2, <2>1, <2>2
<1>. QED
  BY <1>1, <1>2, <1>4, <1>5, <1>7, <1>8 DEF EndedBy, sp, row

(* A stream that is over has been read to its last intact page.            *)
LEMMA OverAtTheEnd ==
  ASSUME source \in Seq(Pages), NEW q \in 0 .. IntactPages(source), NEW n, Behind(q, n), Over
  PROVE  /\ q = IntactPages(source)
         /\ exhausted => q = Len(source)
         /\ sawEos => source[q].eos
<1>1. IntactPages(source) \in 0 .. Len(source) /\ Len(source) \in Nat
  BY IntactAre
<1>2. sawEos = EosOf(source, q) /\ (exhausted => q = Len(source))
  BY DEF Behind
<1>3. CASE exhausted
  BY <1>1, <1>2, <1>3 DEF EosOf
<1>4. CASE sawEos
  <2>1. q # 0 /\ source[q].eos
    BY <1>2, <1>4 DEF EosOf
  <2>2. Stops(source, q + 1)
    <3>1. q + 1 > 1 /\ (q + 1) - 1 = q
      BY <1>1, <2>1
    <3>. QED
      BY <2>1, <3>1 DEF Stops
  <2>3. ~(q + 1 \in 1 .. IntactPages(source))
    BY <2>2, IntactAre
  <2>. QED
    BY <1>1, <1>2, <2>1, <2>3
<1>. QED
  BY <1>3, <1>4 DEF Over

LEMMA CountsAt ==
  ASSUME NEW pages, pages \in Seq(Pages), NEW q \in 0 .. IntactPages(pages)
  PROVE  /\ Edge(pages)[q] \in 0 .. Len(RowOf(pages))
         /\ EndedBy(pages, q) \in Nat
         /\ EndedBy(pages, q) <= Len(SourcePackets(pages))
<1>1. IsRow(RowOf(pages)) /\ Len(RowOf(pages)) \in Nat
  BY EdgesAre DEF IsRow
<1>2. Edge(pages)[q] \in 0 .. Len(RowOf(pages))
  <2>1. CASE q = 0
    BY <1>1, <2>1, EdgesAre
  <2>2. CASE q # 0
    <3>1. q \in 1 .. IntactPages(pages)
      BY <2>2
    <3>. QED
      BY <3>1, EdgesAre DEF OnRow
  <2>. QED
    BY <2>1, <2>2
<1>3. Len(SourcePackets(pages)) = Count(RowOf(pages), Len(RowOf(pages)))
  BY SourcePacketsAre, EdgesAre DEF EndedBy
<1>. DEFINE row == RowOf(pages)
            k   == Edge(pages)[q]
<1>. HIDE DEF row, k
<1>4. Count(row, k) \in Nat /\ Count(row, k) <= Count(row, Len(row))
  <2>1. k \in 0 .. Len(row) /\ Len(row) \in 0 .. Len(row) /\ k <= Len(row) /\ IsRow(row)
    BY <1>1, <1>2 DEF row, k
  <2>. QED
    BY <2>1, CountGrows
<1>. QED
  BY <1>2, <1>3, <1>4 DEF EndedBy, row, k

LEMMA FaithfulNow ==
  ASSUME FaithfulInv
  PROVE  FaithfulUntilError
<1>. SUFFICES ASSUME ~Errored, ~PassedOver
              PROVE  /\ \A m \in DOMAIN answers :
                          answers[m] = IF m \in DOMAIN AudioPackets(source)
                                       THEN AudioPackets(source)[m] ELSE End
                     /\ Ended => \A p \in DOMAIN source :
                                   p > IntactPages(source) =>
                                     \/ source[p].damage = "none"
                                     \/ source[IntactPages(source)].eos
  BY DEF FaithfulUntilError
<1>1. source \in Seq(Pages) /\ Len(source) \in Nat /\ IsAnswers(answers)
  BY DEF FaithfulInv
<1>2. CASE stage # "audio"
  <2>1. answers = <<>>
    BY <1>2 DEF FaithfulInv
  <2>. QED
    BY <2>1 DEF Ended
<1>3. CASE stage = "audio"
  <2>1. OnTrack
    BY <1>3 DEF FaithfulInv
  <2>2. PICK q \in 0 .. IntactPages(source) : \E n \in Nat : Behind(q, n)
    BY <2>1 DEF OnTrack
  <2>3. PICK n \in Nat : Behind(q, n)
    BY <2>2
  <2>. DEFINE Q  == IntactPages(source)
              sp == SourcePackets(source)
  <2>4. /\ n \in 2 .. Len(answers) + 2
        /\ \A m \in 1 .. Len(answers) : answers[m] = IF m <= n - 2 THEN sp[m + 2] ELSE End
        /\ n - 2 < Len(answers) => ready = <<>> /\ Over
    BY <1>3, <2>3 DEF Behind, Handed
  <2>5. n + Len(ready) = EndedBy(source, q) /\ ready \in Seq(Seq(Segments))
    BY <2>3 DEF Behind, ReadyAre
  <2>6. /\ Len(sp) = EndedBy(source, Q) /\ Len(sp) \in Nat
        /\ \A m \in 1 .. Len(sp) : sp[m] # End
        /\ DOMAIN AudioPackets(source) = {m \in Nat \ {0} : m + 2 <= Len(sp)}
        /\ \A m \in DOMAIN AudioPackets(source) : AudioPackets(source)[m] = sp[m + 2]
    BY <1>1, SourcePacketsAre
  <2>7. n <= Len(sp)
    <3>1. EndedBy(source, q) \in Nat /\ EndedBy(source, q) <= Len(sp) /\ Len(ready) \in Nat
      BY <1>1, <2>5, CountsAt
    <3>. QED
      BY <2>5, <2>6, <3>1
  <2>8. n - 2 < Len(answers) => n = Len(sp) /\ q = Q /\ Over
    <3>. HAVE n - 2 < Len(answers)
    <3>1. ready = <<>> /\ Over
      BY <2>4
    <3>2. q = Q
      BY <1>1, <2>3, <3>1, OverAtTheEnd
    <3>. QED
      BY <2>5, <2>6, <3>1, <3>2
  <2>9. DOMAIN answers = 1 .. Len(answers) /\ Len(answers) \in Nat
    BY <1>1 DEF IsAnswers
  <2>. HIDE DEF sp, Q
  <2>10. ASSUME NEW m \in DOMAIN answers
         PROVE  answers[m] = IF m \in DOMAIN AudioPackets(source)
                             THEN AudioPackets(source)[m] ELSE End
    <3>1. CASE m <= n - 2
      <4>1. m \in Nat \ {0} /\ m + 2 <= Len(sp)
        BY <2>6, <2>7, <2>9, <3>1
      <4>. QED
        BY <2>4, <2>6, <2>9, <3>1, <4>1
    <3>2. CASE ~(m <= n - 2)
      <4>1. n - 2 < Len(answers)
        BY <2>9, <3>2
      <4>2. ~(m + 2 <= Len(sp))
        BY <2>8, <2>9, <3>2, <4>1
      <4>. QED
        BY <2>4, <2>6, <2>9, <3>2, <4>2
    <3>. QED
      BY <3>1, <3>2
  <2>11. ASSUME Ended, NEW p \in DOMAIN source, p > Q
         PROVE  source[p].damage = "none" \/ source[Q].eos
    <3>1. PICK m \in DOMAIN answers : answers[m] = End
      BY <2>11 DEF Ended
    <3>2. ~(m <= n - 2)
      <4>. SUFFICES ASSUME m <= n - 2 PROVE FALSE
        OBVIOUS
      <4>1. m + 2 \in 1 .. Len(sp)
        BY <2>6, <2>7, <2>9
      <4>. QED
        BY <2>4, <2>6, <2>9, <3>1, <4>1
    <3>3. n - 2 < Len(answers)
      BY <2>9, <3>2
    <3>4. q = Q /\ Over
      BY <2>8, <3>3
    <3>5. (exhausted => q = Len(source)) /\ (sawEos => source[q].eos)
      BY <1>1, <2>3, <3>4, OverAtTheEnd
    <3>6. ~(q = Len(source))
      BY <1>1, <2>11, <3>4
    <3>. QED
      BY <3>4, <3>5, <3>6 DEF Over
  <2>. QED
    BY <2>10, <2>11 DEF Q
<1>. QED
  BY <1>2, <1>3

(***************************************************************************)
(* What the steps do to it.                                                *)
(***************************************************************************)
(* An error ends the promise, for this pass; the start is as it was.       *)
LEMMA ErrorKeeps ==
  ASSUME FaithfulInv, calling, Answer(Error), UNCHANGED <<source, audioStart, audioStartEos>>
  PROVE  FaithfulInv'
<1>1. /\ source \in Seq(Pages) /\ source' = source /\ IsAnswers(answers)
      /\ stage \in {"head", "tags", "audio"} /\ calling' = FALSE
      /\ stage # "audio" => answers = <<>>
      /\ PassedOver' = PassedOver
  BY DEF FaithfulInv, Answer, PassedOver
<1>2. CASE stage = "audio"
  <2>1. stage' = "audio" /\ answers' = Append(answers, Error)
    BY <1>2 DEF Answer
  <2>2. IsAnswers(answers')
    BY <1>1, <2>1, AppendExtends
  <2>3. Errored'
    <3>1. PICK S : answers \in Seq(S)
      BY <1>1 DEF IsAnswers
    <3>2. /\ Len(answers) + 1 \in DOMAIN Append(answers, Error)
          /\ Append(answers, Error)[Len(answers) + 1] = Error
      BY <3>1
    <3>. QED
      BY <2>1, <3>2 DEF Errored
  <2>4. StartsWell' <=> StartsWell
    BY <1>1 DEF StartsWell
  <2>. QED
    BY <1>1, <1>2, <2>1, <2>2, <2>3, <2>4 DEF FaithfulInv
<1>3. CASE stage # "audio"
  <2>1. stage' = "refused" /\ answers' = answers
    BY <1>3 DEF Answer
  <2>. QED
    BY <1>1, <1>3, <2>1 DEF FaithfulInv
<1>. QED
  BY <1>2, <1>3

(* A step that answers nothing, or anything, does not take an error back.  *)
LEMMA ErrorStays ==
  ASSUME IsAnswers(answers), Errored, NEW a, answers' \in {answers, Append(answers, a)}
  PROVE  Errored'
<1>1. PICK S : answers \in Seq(S)
  BY DEF IsAnswers
<1>2. PICK i \in DOMAIN answers : answers[i] = Error
  BY DEF Errored
<1>3. i \in 1 .. Len(answers) /\ DOMAIN answers = 1 .. Len(answers) /\ Len(answers) \in Nat
  BY <1>1
<1>4. /\ DOMAIN Append(answers, a) = 1 .. Len(answers) + 1
      /\ Append(answers, a)[i] = answers[i]
  BY <1>1, <1>3
<1>5. i \in DOMAIN answers' /\ answers'[i] = Error
  BY <1>2, <1>3, <1>4
<1>. QED
  BY <1>5 DEF Errored

(* A step that stays on the track keeps the rest.                          *)
LEMMA TrackKeeps ==
  ASSUME FaithfulInv, UNCHANGED source, stage' = stage, IsAnswers(answers'),
         stage # "audio" => answers' = <<>>, stage' = "refused" => ~calling',
         UNCHANGED <<audioStart, audioStartEos>>, Errored => Errored',
         ~PassedOver /\ stage # "refused" /\ ~Errored => OnTrack'
  PROVE  FaithfulInv'
<1>1. PassedOver' = PassedOver /\ (StartsWell' <=> StartsWell)
  BY DEF PassedOver, StartsWell
<1>. QED
  BY <1>1 DEF FaithfulInv

LEMMA TrackIs ==
  ASSUME FaithfulInv, ~PassedOver, stage # "refused", ~Errored
  PROVE  \E q \in 0 .. IntactPages(source) : \E n \in Nat : Behind(q, n)
BY DEF FaithfulInv, OnTrack

(* A ready packet is taken.                                                *)
LEMMA ReadyTaken ==
  ASSUME NEW q, NEW n \in Nat, ready \in Seq(Seq(Segments)), ReadyAre(q, n), ready # <<>>,
         EndedBy(source, q) \in Nat,
         ready' = Tail(ready), UNCHANGED <<source, pageGranule, lastIsEos>>
  PROVE  /\ ReadyAre(q, n + 1)' /\ ready' \in Seq(Seq(Segments))
         /\ n + 1 \in 1 .. Len(SourcePackets(source))
         /\ SourcePackets(source)[n + 1]
              = Packet(ready[1], pageGranule, (lastIsEos /\ Tail(ready) = <<>>))
         /\ Tail(ready) = <<>> => EndedBy(source, q) = n + 1
<1>. DEFINE r == Len(ready)
            left == Tail(ready)
<1>1. /\ r \in Nat \ {0} /\ left \in Seq(Seq(Segments)) /\ Len(left) = r - 1
      /\ \A i \in 1 .. r - 1 : left[i] = ready[i + 1]
      /\ left = <<>> <=> r = 1
  <2>1. r \in Nat \ {0}
    OBVIOUS
  <2>2. left \in Seq(Seq(Segments)) /\ Len(left) = r - 1
    OBVIOUS
  <2>3. \A i \in 1 .. r - 1 : left[i] = ready[i + 1]
    OBVIOUS
  <2>. HIDE DEF left, r
  <2>4. left = <<>> <=> Len(left) = 0
    <3>1. left = <<>> => Len(left) = 0
      OBVIOUS
    <3>2. ASSUME Len(left) = 0 PROVE left = <<>>
      BY <2>2, <3>2
    <3>. QED
      BY <3>1, <3>2
  <2>. QED
    BY <2>1, <2>2, <2>3, <2>4
<1>. HIDE DEF left, r
<1>2. /\ n + r = EndedBy(source, q)
      /\ \A i \in 1 .. r : /\ n + i \in 1 .. Len(SourcePackets(source))
                           /\ SourcePackets(source)[n + i]
                                = Packet(ready[i], pageGranule, (lastIsEos /\ i = r))
  BY DEF ReadyAre, Expected, r
<1>3. (n + 1) + Len(left) = EndedBy(source, q)
  BY <1>1, <1>2
<1>4. ASSUME NEW i \in 1 .. Len(left)
      PROVE  /\ (n + 1) + i \in 1 .. Len(SourcePackets(source))
             /\ SourcePackets(source)[(n + 1) + i]
                  = Packet(left[i], pageGranule, (lastIsEos /\ i = Len(left)))
  <2>1. i + 1 \in 1 .. r /\ n + (i + 1) = (n + 1) + i /\ left[i] = ready[i + 1]
        /\ (i + 1 = r <=> i = Len(left))
    BY <1>1
  <2>2. /\ n + (i + 1) \in 1 .. Len(SourcePackets(source))
        /\ SourcePackets(source)[n + (i + 1)]
             = Packet(ready[i + 1], pageGranule, (lastIsEos /\ i + 1 = r))
    BY <1>2, <2>1
  <2>. QED
    BY <2>1, <2>2
<1>5. ReadyAre(q, n + 1)'
  <2>1. ready' = left
    BY DEF left
  <2>. QED
    BY <1>3, <1>4, <2>1 DEF ReadyAre, Expected, EndedBy
<1>6. /\ n + 1 \in 1 .. Len(SourcePackets(source))
      /\ SourcePackets(source)[n + 1] = Packet(ready[1], pageGranule, (lastIsEos /\ left = <<>>))
  <2>1. 1 \in 1 .. r /\ (1 = r <=> left = <<>>)
    BY <1>1
  <2>2. /\ n + 1 \in 1 .. Len(SourcePackets(source))
        /\ SourcePackets(source)[n + 1] = Packet(ready[1], pageGranule, (lastIsEos /\ 1 = r))
    BY <1>2, <2>1
  <2>. QED
    BY <2>1, <2>2
<1>. QED
  BY <1>1, <1>2, <1>5, <1>6 DEF left

LEMMA TakingIsFaithful ==
  ASSUME FaithfulInv, TakePacket
  PROVE  FaithfulInv'
<1>1. /\ calling /\ ready # <<>> /\ ready' = Tail(ready)
      /\ UNCHANGED <<source, pos, serial, pending, pageGranule, lastIsEos, sawEos, exhausted>>
  BY DEF TakePacket
<1>2. /\ source \in Seq(Pages) /\ IsAnswers(answers)
      /\ stage \in {"head", "tags", "audio"}
      /\ stage # "audio" => answers = <<>>
      /\ PassedOver' = PassedOver
  BY <1>1 DEF FaithfulInv, PassedOver
<1>3. CASE stage = "audio"
  <2>. DEFINE a == Packet(ready[1], pageGranule, (lastIsEos /\ Tail(ready) = <<>>))
  <2>1. UNCHANGED <<audioStart, audioStartEos>>
    BY <1>3 DEF TakePacket, start
  <2>2. Answer(a)
    BY <1>1, <1>3 DEF TakePacket
  <2>. HIDE DEF a
  <2>3. stage' = "audio" /\ answers' = Append(answers, a)
    BY <1>3, <2>2 DEF Answer
  <2>4. IsAnswers(answers')
    BY <1>2, <2>3, AppendExtends
  <2>5. Errored => Errored'
    BY <1>2, <2>3, ErrorStays
  <2>6. ASSUME ~PassedOver, ~Errored PROVE OnTrack'
    <3>1. PICK q \in 0 .. IntactPages(source) : \E n \in Nat : Behind(q, n)
      BY <1>3, <2>6, TrackIs
    <3>2. PICK n \in Nat : Behind(q, n)
      BY <3>1
    <3>3. ready \in Seq(Seq(Segments)) /\ ReadyAre(q, n) /\ EndedBy(source, q) \in Nat
      BY <1>2, <3>2, CountsAt DEF Behind
    <3>4. /\ ReadyAre(q, n + 1)' /\ ready' \in Seq(Seq(Segments))
          /\ SourcePackets(source)[n + 1] = a
      BY <1>1, <3>3, ReadyTaken DEF a
    <3>5. PICK S : answers \in Seq(S)
      BY <1>2 DEF IsAnswers
    <3>6. /\ n \in 2 .. Len(answers) + 2
          /\ \A m \in 1 .. Len(answers) :
               answers[m] = IF m <= n - 2 THEN SourcePackets(source)[m + 2] ELSE End
          /\ ~(n - 2 < Len(answers))
      BY <1>1, <1>3, <3>2 DEF Behind, Handed
    <3>7. n = Len(answers) + 2 /\ Len(answers) \in Nat
      BY <3>5, <3>6
    <3>8. /\ Len(answers') = Len(answers) + 1
          /\ \A m \in 1 .. Len(answers) : answers'[m] = answers[m]
          /\ answers'[Len(answers) + 1] = a
      BY <2>3, <3>5
    <3>9. \A m \in 1 .. Len(answers') :
            answers'[m] = IF m <= (n + 1) - 2 THEN SourcePackets(source)[m + 2] ELSE End
      <4>. TAKE m \in 1 .. Len(answers')
      <4>1. CASE m = Len(answers) + 1
        <5>1. m <= (n + 1) - 2 /\ m + 2 = n + 1
          BY <3>7, <4>1
        <5>. QED
          BY <3>4, <3>8, <4>1, <5>1
      <4>2. CASE m # Len(answers) + 1
        <5>1. m \in 1 .. Len(answers) /\ m <= n - 2 /\ m <= (n + 1) - 2
          BY <3>7, <3>8, <4>2
        <5>. QED
          BY <3>6, <3>8, <5>1
      <4>. QED
        BY <4>1, <4>2
    <3>10. n + 1 \in 2 .. Len(answers') + 2 /\ ~((n + 1) - 2 < Len(answers'))
      BY <3>7, <3>8
    <3>11. Handed(n + 1)'
      BY <1>1, <2>3, <3>9, <3>10 DEF Handed
    <3>12. Behind(q, n + 1)'
      BY <1>1, <3>2, <3>4, <3>11 DEF Behind
    <3>13. q \in 0 .. IntactPages(source') /\ n + 1 \in Nat
      BY <1>1
    <3>. QED
      BY <3>12, <3>13 DEF OnTrack
  <2>. QED
    BY <1>1, <1>3, <2>1, <2>3, <2>4, <2>5, <2>6, TrackKeeps
<1>4. CASE stage = "head"
  <2>1. /\ stage' \in {"tags", "refused"} /\ calling' = (stage' = "tags")
        /\ UNCHANGED <<answers, audioStart, audioStartEos>>
    BY <1>4 DEF TakePacket, start
  <2>2. answers = <<>> /\ ~Errored
    BY <1>2, <1>4 DEF Errored
  <2>3. ASSUME ~PassedOver, stage' = "tags" PROVE OnTrack'
    <3>1. PICK q \in 0 .. IntactPages(source) : \E n \in Nat : Behind(q, n)
      BY <1>4, <2>2, <2>3, TrackIs
    <3>2. PICK n \in Nat : Behind(q, n)
      BY <3>1
    <3>3. ready \in Seq(Seq(Segments)) /\ ReadyAre(q, n) /\ EndedBy(source, q) \in Nat
      BY <1>2, <3>2, CountsAt DEF Behind
    <3>4. ReadyAre(q, n + 1)' /\ ready' \in Seq(Seq(Segments))
      BY <1>1, <3>3, ReadyTaken
    <3>5. n = 0
      BY <1>4, <3>2 DEF Behind, Handed
    <3>6. Handed(n + 1)'
      BY <2>3, <3>5 DEF Handed
    <3>7. Behind(q, n + 1)'
      BY <1>1, <3>2, <3>4, <3>6 DEF Behind
    <3>8. q \in 0 .. IntactPages(source') /\ n + 1 \in Nat
      BY <1>1
    <3>. QED
      BY <3>7, <3>8 DEF OnTrack
  <2>. QED
    BY <1>1, <1>2, <2>1, <2>2, <2>3 DEF FaithfulInv
<1>5. CASE stage = "tags"
  <2>1. /\ stage' \in {"audio", "refused"}
        /\ stage' = "audio" => ready' = <<>> /\ pending = <<>>
        /\ calling' = FALSE /\ audioStart' = pos /\ audioStartEos' = sawEos
        /\ UNCHANGED answers
    BY <1>5 DEF TakePacket
  <2>2. answers = <<>> /\ ~Errored
    BY <1>2, <1>5 DEF Errored
  <2>3. ASSUME ~PassedOver, stage' = "audio" PROVE OnTrack' /\ StartsWell'
    <3>1. PICK q \in 0 .. IntactPages(source) : \E n \in Nat : Behind(q, n)
      BY <1>5, <2>2, <2>3, TrackIs
    <3>2. PICK n \in Nat : Behind(q, n)
      BY <3>1
    <3>3. ready \in Seq(Seq(Segments)) /\ ReadyAre(q, n) /\ EndedBy(source, q) \in Nat
      BY <1>2, <3>2, CountsAt DEF Behind
    <3>4. n = 1
      BY <1>5, <3>2 DEF Behind, Handed
    <3>5. /\ ReadyAre(q, n + 1)' /\ ready' \in Seq(Seq(Segments))
          /\ EndedBy(source, q) = 2
      BY <1>1, <2>1, <2>3, <3>3, <3>4, ReadyTaken
    <3>6. Handed(n + 1)'
      <4>1. answers' = <<>> /\ Len(<<>>) = 0 /\ n + 1 = 2 /\ stage' = "audio"
        BY <2>1, <2>2, <2>3, <3>4
      <4>. QED
        BY <4>1 DEF Handed
    <3>7. Behind(q, n + 1)'
      BY <1>1, <3>2, <3>5, <3>6 DEF Behind
    <3>8. q \in 0 .. IntactPages(source') /\ n + 1 \in Nat
      BY <1>1
    <3>9. StartsWell'
      <4>1. /\ audioStart' = AtPage(q + 1) /\ audioStartEos' = EosOf(source, q)
            /\ OpenAfter(RowOf(source), Edge(source)[q]) = <<>>
        BY <2>1, <2>3, <3>2 DEF Behind
      <4>. QED
        BY <1>1, <3>5, <3>8, <4>1 DEF StartsWell
    <3>. QED
      BY <3>7, <3>8, <3>9 DEF OnTrack
  <2>. QED
    BY <1>1, <1>2, <2>1, <2>2, <2>3 DEF FaithfulInv
<1>. QED
  BY <1>2, <1>3, <1>4, <1>5

LEMMA EndIsFaithful ==
  ASSUME FaithfulInv, StreamIsOver
  PROVE  FaithfulInv'
<1>1. /\ calling /\ ready = <<>> /\ Over
      /\ Answer(IF pending = <<>> THEN End ELSE Error)
      /\ pending' = <<>>
      /\ UNCHANGED <<source, pos, ready, pageGranule, lastIsEos, sawEos, exhausted,
                     audioStart, audioStartEos>>
  BY DEF StreamIsOver, Drained, start
<1>2. CASE pending # <<>>
  <2>1. Answer(Error)
    BY <1>1, <1>2
  <2>. QED
    BY <1>1, <2>1, ErrorKeeps
<1>3. CASE pending = <<>>
  <2>1. Answer(End)
    BY <1>1, <1>3
  <2>2. CASE stage = "audio"
    <3>1. stage' = "audio" /\ answers' = Append(answers, End) /\ IsAnswers(answers)
      BY <2>1, <2>2 DEF Answer, FaithfulInv
    <3>2. IsAnswers(answers') /\ (Errored => Errored')
      BY <3>1, AppendExtends, ErrorStays
    <3>3. ASSUME ~PassedOver, ~Errored PROVE OnTrack'
      <4>1. PICK q \in 0 .. IntactPages(source) : \E n \in Nat : Behind(q, n)
        BY <2>2, <3>3, TrackIs
      <4>2. PICK n \in Nat : Behind(q, n)
        BY <4>1
      <4>3. PICK S : answers \in Seq(S)
        BY <3>1 DEF IsAnswers
      <4>4. /\ n \in 2 .. Len(answers) + 2
            /\ \A m \in 1 .. Len(answers) :
                 answers[m] = IF m <= n - 2 THEN SourcePackets(source)[m + 2] ELSE End
        BY <2>2, <4>2 DEF Behind, Handed
      <4>5. /\ Len(answers) \in Nat /\ Len(answers') = Len(answers) + 1
            /\ \A m \in 1 .. Len(answers) : answers'[m] = answers[m]
            /\ answers'[Len(answers) + 1] = End
        BY <3>1, <4>3
      <4>6. \A m \in 1 .. Len(answers') :
              answers'[m] = IF m <= n - 2 THEN SourcePackets(source)[m + 2] ELSE End
        <5>. TAKE m \in 1 .. Len(answers')
        <5>1. CASE m = Len(answers) + 1
          <6>1. ~(m <= n - 2)
            BY <4>4, <4>5, <5>1
          <6>. QED
            BY <4>5, <5>1, <6>1
        <5>2. CASE m # Len(answers) + 1
          <6>1. m \in 1 .. Len(answers)
            BY <4>5, <5>2
          <6>. QED
            BY <4>4, <4>5, <6>1
        <5>. QED
          BY <5>1, <5>2
      <4>7. n \in 2 .. Len(answers') + 2
        BY <4>4, <4>5
      <4>8. Over'
        BY <1>1 DEF Over
      <4>9. Handed(n)'
        BY <1>1, <3>1, <4>6, <4>7, <4>8 DEF Handed
      <4>10. Behind(q, n)'
        BY <1>1, <1>3, <4>2, <4>9 DEF Behind, ReadyAre, Expected, EndedBy
      <4>11. q \in 0 .. IntactPages(source')
        BY <1>1
      <4>. QED
        BY <4>10, <4>11 DEF OnTrack
    <3>. QED
      BY <1>1, <2>2, <3>1, <3>2, <3>3, TrackKeeps
  <2>3. CASE stage # "audio"
    <3>1. stage' = "refused" /\ answers' = answers /\ calling' = FALSE
      BY <2>1, <2>3 DEF Answer
    <3>2. PassedOver' = PassedOver
      BY <1>1 DEF PassedOver
    <3>. QED
      BY <1>1, <2>3, <3>1, <3>2 DEF FaithfulInv
  <2>. QED
    BY <2>2, <2>3
<1>. QED
  BY <1>2, <1>3

LEMMA EofIsFaithful ==
  ASSUME FaithfulInv, ReadEof
  PROVE  FaithfulInv'
<1>1. /\ calling /\ ready = <<>> /\ pos = SourceEnd /\ exhausted' = TRUE
      /\ UNCHANGED <<source, pos, stage, pending, ready, pageGranule, sawEos,
                     audioStart, audioStartEos, calling, answers>>
  BY DEF ReadEof, Reading, Drained, start
<1>2. stage # "refused" /\ source \in Seq(Pages) /\ Len(source) \in Nat
  BY <1>1 DEF FaithfulInv
<1>3. ASSUME ~PassedOver, ~Errored PROVE OnTrack'
  <2>1. PICK q \in 0 .. IntactPages(source) : \E n \in Nat : Behind(q, n)
    BY <1>2, <1>3, TrackIs
  <2>2. PICK n \in Nat : Behind(q, n)
    BY <2>1
  <2>3. q = Len(source)
    <3>1. AtPage(q + 1) = AtPage(Len(source) + 1)
      BY <1>1, <2>2 DEF Behind, SourceEnd
    <3>2. AtPage(q + 1).page = q + 1 /\ AtPage(Len(source) + 1).page = Len(source) + 1
      BY DEF AtPage
    <3>. QED
      BY <1>2, <3>1, <3>2
  <2>4. Handed(n)'
    BY <1>1, <2>2 DEF Behind, Handed, Over
  <2>5. Len(ready) = 0
    BY <1>1
  <2>6. ReadyAre(q, n)'
    BY <1>1, <2>2, <2>5 DEF Behind, ReadyAre, EndedBy
  <2>7. Behind(q, n)'
    BY <1>1, <2>2, <2>3, <2>4, <2>6 DEF Behind
  <2>8. q \in 0 .. IntactPages(source')
    BY <1>1
  <2>. QED
    BY <2>7, <2>8 DEF OnTrack
<1>4. Errored => Errored'
  BY <1>1 DEF Errored
<1>5. IsAnswers(answers') /\ (stage # "audio" => answers' = <<>>)
  BY <1>1 DEF FaithfulInv
<1>. QED
  BY <1>1, <1>2, <1>3, <1>4, <1>5, TrackKeeps

LEMMA CallIsFaithful ==
  ASSUME FaithfulInv, Read
  PROVE  FaithfulInv'
<1>1. /\ stage = "audio"
      /\ UNCHANGED <<source, pos, stage, pending, ready, pageGranule, lastIsEos, sawEos,
                     exhausted, audioStart, audioStartEos, answers>>
  BY DEF Read, Holding, buffers, start
<1>2. ASSUME ~PassedOver, ~Errored PROVE OnTrack'
  <2>1. PICK q \in 0 .. IntactPages(source) : \E n \in Nat : Behind(q, n)
    BY <1>1, <1>2, TrackIs
  <2>2. PICK n \in Nat : Behind(q, n)
    BY <2>1
  <2>3. Handed(n)'
    BY <1>1, <2>2 DEF Behind, Handed, Over
  <2>4. Behind(q, n)'
    BY <1>1, <2>2, <2>3 DEF Behind, ReadyAre, Expected, EndedBy
  <2>5. q \in 0 .. IntactPages(source')
    BY <1>1
  <2>. QED
    BY <2>4, <2>5 DEF OnTrack
<1>3. Errored => Errored'
  BY <1>1 DEF Errored
<1>4. IsAnswers(answers')
  BY <1>1 DEF FaithfulInv
<1>. QED
  BY <1>1, <1>2, <1>3, <1>4, TrackKeeps

LEMMA RewindIsFaithful ==
  ASSUME FaithfulInv, Rewind
  PROVE  FaithfulInv'
<1>1. /\ stage = "audio" /\ ~calling
      /\ pos' = audioStart /\ pending' = <<>> /\ ready' = <<>>
      /\ sawEos' = audioStartEos /\ exhausted' = FALSE /\ answers' = <<>>
      /\ UNCHANGED <<source, stage, audioStart, audioStartEos>>
  BY DEF Rewind, Holding, start
<1>2. PassedOver' = PassedOver /\ source \in Seq(Pages)
  BY <1>1 DEF PassedOver, FaithfulInv
<1>3. <<>> \in Seq({}) /\ Len(<<>>) = 0 /\ <<>> \in Seq(Seq(Segments))
  OBVIOUS
<1>4. ASSUME ~PassedOver PROVE OnTrack' /\ StartsWell'
  <2>1. PICK q \in 0 .. IntactPages(source) :
          /\ audioStart = AtPage(q + 1)
          /\ audioStartEos = EosOf(source, q)
          /\ OpenAfter(RowOf(source), Edge(source)[q]) = <<>>
          /\ EndedBy(source, q) = 2
    BY <1>1, <1>4 DEF FaithfulInv, StartsWell
  <2>2. Handed(2)'
    BY <1>1, <1>3 DEF Handed
  <2>3. ReadyAre(q, 2)'
    <3>1. EndedBy(source', q) = 2 /\ Len(ready') = 0
      BY <1>1, <1>3, <2>1
    <3>. QED
      BY <3>1 DEF ReadyAre
  <2>4. Behind(q, 2)'
    BY <1>1, <1>3, <2>1, <2>2, <2>3 DEF Behind
  <2>5. q \in 0 .. IntactPages(source')
    BY <1>1
  <2>6. OnTrack'
    BY <2>4, <2>5 DEF OnTrack
  <2>7. StartsWell'
    BY <1>1, <2>1, <2>5 DEF StartsWell
  <2>. QED
    BY <2>6, <2>7
<1>5. IsAnswers(answers')
  BY <1>1, <1>3 DEF IsAnswers
<1>. QED
  BY <1>1, <1>2, <1>4, <1>5 DEF FaithfulInv

(* Where no capture pattern is damaged a page is found where the reader    *)
(* stands.                                                                 *)
LEMMA FoundHere ==
  ASSUME source \in Seq(Pages), ~PassedOver, NEW q \in Nat, q + 1 <= Len(source) + 1,
         pos = AtPage(q + 1), Found <= Len(source)
  PROVE  Found = q + 1 /\ q + 1 \in 1 .. Len(source)
<1>. DEFINE hits == {p \in q + 1 .. Len(source) : source[p].damage # "capture"}
<1>1. ~pos.inside /\ pos.page = q + 1 /\ Len(source) \in Nat
  BY DEF AtPage
<1>2. Found = IF hits = {} THEN Len(source) + 1 ELSE Min(hits)
  BY <1>1 DEF Found
<1>3. hits # {}
  BY <1>1, <1>2
<1>4. q + 1 \in 1 .. Len(source)
  BY <1>1, <1>3
<1>5. q + 1 \in hits /\ \A p \in hits : q + 1 <= p
  <2>1. source[q + 1].damage # "capture"
    BY <1>4 DEF PassedOver
  <2>. QED
    BY <1>4, <2>1
<1>6. \A p \in hits : p \in Int
  OBVIOUS
<1>. DEFINE least == Min(hits)
<1>. HIDE DEF hits
<1>7. least \in hits /\ \A p \in hits : least <= p
  <2>1. \E x : x \in hits /\ \A y \in hits : x =< y
    BY <1>5
  <2>. QED
    BY <2>1 DEF Min
<1>. HIDE DEF least
<1>8. least = q + 1
  <2>1. least \in Int /\ q + 1 <= least /\ least <= q + 1
    BY <1>5, <1>6, <1>7
  <2>. QED
    BY <2>1
<1>. USE DEF least
<1>. QED
  BY <1>2, <1>3, <1>4, <1>8

LEMMA TakenPageIsNext ==
  ASSUME source \in Seq(Pages), NEW q \in 0 .. IntactPages(source), NEW n, Behind(q, n),
         ~Over, q + 1 \in 1 .. Len(source), source[q + 1].damage = "none"
  PROVE  q + 1 \in 1 .. IntactPages(source)
<1>1. IntactPages(source) \in 0 .. Len(source) /\ Len(source) \in Nat
  BY IntactAre
<1>2. ~EosOf(source, q)
  BY DEF Behind, Over
<1>3. ~Stops(source, q + 1)
  <2>1. q # 0 => ~source[q].eos
    BY <1>2 DEF EosOf
  <2>2. (q + 1) - 1 = q /\ (q + 1 > 1 <=> q # 0)
    BY <1>1
  <2>. QED
    BY <2>1, <2>2 DEF Stops
<1>4. q # IntactPages(source)
  <2>. SUFFICES ASSUME q = IntactPages(source) PROVE FALSE
    OBVIOUS
  <2>1. q < Len(source)
    BY <1>1
  <2>. QED
    BY <1>3, <2>1, IntactAre
<1>. QED
  BY <1>1, <1>4

LEMMA PageIsFaithful ==
  ASSUME FaithfulInv, ReadPage
  PROVE  FaithfulInv'
<1>. DEFINE pg   == source[Found]
            walk == Split(pending, pg.segs)
<1>1. /\ calling /\ ready = <<>> /\ ~Over
      /\ Found <= Len(source) /\ pg.damage = "none"
      /\ pos' = AtPage(Found + 1)
      /\ UNCHANGED <<source, exhausted, audioStart, audioStartEos>>
  BY DEF ReadPage, Reading, Drained, start
<1>2. source \in Seq(Pages) /\ stage # "refused" /\ IsAnswers(answers)
  BY <1>1 DEF FaithfulInv
<1>3. CASE ~(Belongs(pg) /\ Continues(pg))
  <2>1. Answer(Error)
    BY <1>3 DEF ReadPage
  <2>. QED
    BY <1>1, <2>1, ErrorKeeps
<1>4. CASE Belongs(pg) /\ Continues(pg)
  <2>1. /\ sawEos' = pg.eos /\ pageGranule' = pg.granule
        /\ ready' = walk.done /\ pending' = walk.partial
        /\ lastIsEos' = (pg.eos /\ walk.ended)
        /\ IF walk.over THEN Answer(Error) ELSE UNCHANGED <<stage, calling, answers>>
    BY <1>4 DEF ReadPage
  <2>2. CASE walk.over
    BY <1>1, <2>1, <2>2, ErrorKeeps
  <2>3. CASE ~walk.over
    <3>1. UNCHANGED <<stage, calling, answers>>
      BY <2>1, <2>3
    <3>2. ASSUME ~PassedOver, ~Errored PROVE OnTrack'
      <4>1. PICK q \in 0 .. IntactPages(source) : \E n \in Nat : Behind(q, n)
        BY <1>2, <3>2, TrackIs
      <4>2. PICK n \in Nat : Behind(q, n)
        BY <4>1
      <4>3. IntactPages(source) \in 0 .. Len(source) /\ Len(source) \in Nat
        BY <1>2, IntactAre
      <4>4. Found = q + 1 /\ q + 1 \in 1 .. Len(source)
        <5>1. q \in Nat /\ q + 1 <= Len(source) + 1 /\ pos = AtPage(q + 1)
          BY <4>2, <4>3 DEF Behind
        <5>. QED
          BY <1>1, <1>2, <3>2, <5>1, FoundHere
      <4>5. q + 1 \in 1 .. IntactPages(source)
        BY <1>1, <1>2, <4>2, <4>4, TakenPageIsNext
      <4>. DEFINE row == RowOf(source)
                  K   == Edge(source)[q]
                  E   == Edge(source)[q + 1]
                  sp  == SourcePackets(source)
      <4>6. /\ IsRow(row) /\ pg \in Pages /\ pg.segs \in Seq(Segments)
            /\ K \in 0 .. Len(row) /\ E \in 0 .. Len(row)
            /\ E = K + Len(pg.segs)
            /\ \A i \in 1 .. Len(pg.segs) : row[K + i] = pg.segs[i]
        <5>1. OnRow(source, q + 1) /\ source[q + 1] \in Pages /\ IsRow(row)
          BY <1>2, <4>5, EdgesAre
        <5>2. (q + 1) - 1 = q
          BY <4>3
        <5>3. source[q + 1].segs \in Seq(Segments)
          BY <5>1 DEF Pages
        <5>. QED
          BY <4>4, <5>1, <5>2, <5>3 DEF OnRow
      <4>7. pending = OpenAfter(row, K) /\ Handed(n) /\ n + Len(ready) = Count(row, K)
        BY <4>2 DEF Behind, ReadyAre, EndedBy
      <4>8. Cuts(walk, row, K, E)
        <5>. HIDE DEF row, K, E
        <5>1. Len(row) \in Nat
          BY <4>6 DEF IsRow
        <5>2. K + Len(pg.segs) <= Len(row)
          BY <4>6, <5>1
        <5>3. Cuts(Split(OpenAfter(row, K), pg.segs), row, K, K + Len(pg.segs))
          BY <4>6, <5>2, PageCut
        <5>. QED
          BY <4>6, <4>7, <5>3
      <4>. HIDE DEF walk, row, K, E, sp, pg
      <4>9. /\ Walking(walk)
            /\ walk.partial = OpenAfter(row, E)
            /\ walk.ended <=> E # K /\ E \in PacketEnds(row)
            /\ Len(walk.done) = Count(row, E) - Count(row, K)
            /\ \A d \in 1 .. Len(walk.done) :
                 \E j \in K + 1 .. E : EndsAs(row, j, Count(row, K) + d, walk.done[d])
        BY <2>3, <4>8 DEF Cuts
      <4>10. n = Count(row, K) /\ Count(row, E) \in Nat
        <5>1. Len(ready) = 0
          BY <1>1
        <5>2. Count(row, E) \in Nat
          BY <4>6, CountGrows
        <5>. QED
          BY <4>7, <5>1, <5>2
      <4>11. n + Len(walk.done) = Count(row, E)
        BY <4>9, <4>10
      <4>12. ASSUME NEW d \in 1 .. Len(walk.done)
             PROVE  /\ n + d \in 1 .. Len(sp)
                    /\ sp[n + d] = Packet(walk.done[d], pg.granule,
                                          ((pg.eos /\ walk.ended) /\ d = Len(walk.done)))
        <5>1. PICK j \in K + 1 .. E : EndsAs(row, j, Count(row, K) + d, walk.done[d])
          BY <4>9
        <5>2. j \in PacketEnds(row) /\ Count(row, j) = n + d /\ walk.done[d] = PacketAt(row, j)
          BY <4>10, <5>1 DEF EndsAs
        <5>3. /\ n + d \in 1 .. Len(sp)
              /\ sp[n + d] = Packet(PacketAt(row, j), source[q + 1].granule,
                                    (source[q + 1].eos /\ j = E))
          <6>1. (q + 1) - 1 = q
            BY <4>3
          <6>2. j \in Edge(source)[(q + 1) - 1] + 1 .. Edge(source)[q + 1]
            BY <5>1, <6>1 DEF K, E
          <6>. QED
            BY <1>2, <4>5, <5>2, <6>2, PacketOnPage DEF row, E, sp
        <5>4. source[q + 1] = pg
          BY <4>4 DEF pg
        <5>5. j = E <=> walk.ended /\ d = Len(walk.done)
          <6>1. ASSUME j = E PROVE walk.ended /\ d = Len(walk.done)
            <7>1. E # K /\ K \in Nat
              BY <4>6, <5>1, <6>1
            <7>2. Len(walk.done) \in Nat
              BY <4>9 DEF Walking
            <7>. QED
              BY <4>9, <4>11, <4>10, <5>2, <6>1, <7>1, <7>2
          <6>2. ASSUME walk.ended, d = Len(walk.done) PROVE j = E
            <7>1. E \in PacketEnds(row) /\ Count(row, E) = Count(row, j)
              BY <4>9, <4>11, <5>2, <6>2
            <7>2. NthEnd(row, Count(row, E)) = E /\ NthEnd(row, Count(row, j)) = j
              BY <4>6, <5>2, <7>1, NthEndIs
            <7>. QED
              BY <7>1, <7>2
          <6>. QED
            BY <6>1, <6>2
        <5>6. (pg.eos /\ j = E) = ((pg.eos /\ walk.ended) /\ d = Len(walk.done))
          <6>1. (pg.eos /\ j = E) <=> ((pg.eos /\ walk.ended) /\ d = Len(walk.done))
            BY <5>5
          <6>. QED
            BY <6>1
        <5>. QED
          BY <5>2, <5>3, <5>4, <5>6
      <4>13. source' = source /\ RowOf(source') = row /\ Edge(source')[q + 1] = E
             /\ SourcePackets(source') = sp
        BY <1>1 DEF row, E, sp
      <4>14. /\ ready' = walk.done /\ pending' = walk.partial /\ pageGranule' = pg.granule
             /\ lastIsEos' = (pg.eos /\ walk.ended) /\ sawEos' = pg.eos
        BY <2>1 DEF walk, pg
      <4>15. ReadyAre(q + 1, n)'
        BY <4>11, <4>12, <4>13, <4>14 DEF ReadyAre, Expected, EndedBy
      <4>16. Handed(n)'
        <5>1. stage = "audio" => ~(n - 2 < Len(answers))
          BY <1>1, <4>7 DEF Handed
        <5>. QED
          BY <1>1, <3>1, <4>7, <5>1 DEF Handed
      <4>17. /\ pos' = AtPage((q + 1) + 1)
             /\ sawEos' = EosOf(source', q + 1)
             /\ exhausted' => q + 1 = Len(source')
             /\ pending' = OpenAfter(RowOf(source'), Edge(source')[q + 1])
             /\ ready' \in Seq(Seq(Segments))
        <5>1. EosOf(source, q + 1) = pg.eos
          <6>1. q + 1 # 0
            BY <4>4
          <6>. QED
            BY <4>4, <6>1 DEF EosOf, pg
        <5>2. ~exhausted'
          BY <1>1 DEF Over
        <5>. QED
          BY <1>1, <4>4, <4>9, <4>13, <4>14, <5>1, <5>2 DEF Walking
      <4>18. Behind(q + 1, n)'
        BY <4>15, <4>16, <4>17 DEF Behind
      <4>19. q + 1 \in 0 .. IntactPages(source')
        BY <1>1, <4>5
      <4>. QED
        BY <4>18, <4>19 DEF OnTrack
    <3>3. Errored => Errored'
      BY <3>1 DEF Errored
    <3>4. IsAnswers(answers') /\ (stage # "audio" => answers' = <<>>)
      BY <3>1 DEF FaithfulInv
    <3>. QED
      BY <1>1, <1>2, <3>1, <3>2, <3>3, <3>4, TrackKeeps
  <2>. QED
    BY <2>2, <2>3
<1>. QED
  BY <1>3, <1>4

LEMMA FaithfulStep ==
  ASSUME FaithfulInv, [Next]_vars
  PROVE  FaithfulInv'
<1>1. CASE TakePacket
  BY <1>1, TakingIsFaithful
<1>2. CASE StreamIsOver
  BY <1>2, EndIsFaithful
<1>3. CASE ReadEof
  BY <1>3, EofIsFaithful
<1>4. CASE ReadNoPage \/ ReadFlippedPage \/ IoFails
  <2>1. calling /\ Answer(Error) /\ UNCHANGED <<source, audioStart, audioStartEos>>
    BY <1>4 DEF ReadNoPage, ReadFlippedPage, IoFails, Reading, Drained, start
  <2>. QED
    BY <2>1, ErrorKeeps
<1>5. CASE ReadPage
  BY <1>5, PageIsFaithful
<1>6. CASE Read
  BY <1>6, CallIsFaithful
<1>7. CASE Rewind
  BY <1>7, RewindIsFaithful
<1>8. CASE UNCHANGED vars
  <2>1. UNCHANGED <<source, pos, stage, calling, pending, ready, pageGranule, lastIsEos,
                    sawEos, exhausted, audioStart, audioStartEos, answers>>
    BY <1>8 DEF vars, buffers, start
  <2>2. (OnTrack' <=> OnTrack) /\ (StartsWell' <=> StartsWell)
    BY <2>1 DEF OnTrack, StartsWell, Behind, Handed, ReadyAre, Expected, Over
  <2>3. (PassedOver' <=> PassedOver) /\ (Errored' <=> Errored)
    BY <2>1 DEF PassedOver, Errored
  <2>. QED
    BY <2>1, <2>2, <2>3 DEF FaithfulInv
<1>. QED
  BY <1>1, <1>2, <1>3, <1>4, <1>5, <1>6, <1>7, <1>8 DEF Next, Step

(* "a truncated or corrupt file should not decode as if it were fine"      *)
(* (reader.rs:79-80).  Of any source of pages, whatever they hold and      *)
(* however they are damaged, as long as every capture pattern is whole;    *)
(* for any segments, limit of a packet, number of calls, of rewinds and of *)
(* failed reads: until a pass reports an error it has delivered the        *)
(* source's audio packets in order, each whole, with its page's granule    *)
(* and the end marked where it is, and has told of the end behind the last *)
(* of them and nowhere else.                                               *)
THEOREM FaithfulAtAllTimes == Spec => []FaithfulUntilError
<1>1. Init => FaithfulInv
  <2>. SUFFICES ASSUME Init PROVE FaithfulInv
    OBVIOUS
  <2>1. /\ source \in Seq(Pages) /\ pos = AtPage(1) /\ stage = "head"
        /\ pending = <<>> /\ ready = <<>> /\ sawEos = FALSE /\ exhausted = FALSE
        /\ answers = <<>>
    BY SourceAssumption DEF Init
  <2>2. <<>> \in Seq({}) /\ Len(<<>>) = 0 /\ <<>> \in Seq(Seq(Segments))
    OBVIOUS
  <2>3. IntactPages(source) \in Nat /\ 0 \in 0 .. IntactPages(source)
    BY <2>1, IntactAre
  <2>4. Edge(source)[0] = 0 /\ IsRow(RowOf(source))
    BY <2>1, EdgesAre
  <2>5. EndedBy(source, 0) = 0 /\ OpenAfter(RowOf(source), Edge(source)[0]) = <<>>
    BY <2>4, CountNext, OpenNext DEF EndedBy
  <2>6. Handed(0) /\ ReadyAre(0, 0)
    BY <2>1, <2>2, <2>5 DEF Handed, ReadyAre
  <2>7. Behind(0, 0)
    <3>1. EosOf(source, 0) = FALSE /\ 0 + 1 = 1
      BY DEF EosOf
    <3>2. pos = AtPage(0 + 1)
      BY <2>1, <3>1
    <3>3. ready \in Seq(Seq(Segments))
      BY <2>1, <2>2
    <3>. QED
      BY <2>1, <2>5, <2>6, <3>1, <3>2, <3>3 DEF Behind
  <2>8. OnTrack
    BY <2>3, <2>7 DEF OnTrack
  <2>9. IsAnswers(answers)
    BY <2>1, <2>2 DEF IsAnswers
  <2>. QED
    BY <2>1, <2>8, <2>9 DEF FaithfulInv
<1>2. FaithfulInv /\ [Next]_vars => FaithfulInv'
  BY FaithfulStep
<1>3. FaithfulInv => FaithfulUntilError
  BY FaithfulNow
<1>. QED
  BY <1>1, <1>2, <1>3, PTL DEF Spec
=============================================================================
