----------------------------- MODULE CeltHistory -----------------------------
(***************************************************************************)
(* What CELT keeps of the signal from frame to frame (celt/mod.rs): the    *)
(* encoder's pitch prefilter (run_prefilter) and the decoder's postfilter  *)
(* that undoes it, the overlap between frames, and the concealment that    *)
(* stands in for a lost frame (conceal_lost_bands).                        *)
(*                                                                         *)
(* Time is in blocks of 2.5 ms, the length of the overlap and of a short   *)
(* transform; the decoder is a block behind the encoder.  A block of       *)
(* samples is the number of the frame it is of; a filter is a setting, 0   *)
(* for none, and what is done to a block the pair of settings faded        *)
(* between.                                                                *)
(***************************************************************************)
EXTENDS Integers, Sequences

CONSTANTS
  CeltFrames,    \* frames: [blocks, start, room, filter]
  NoiseAfter,    \* PLC_NOISE_AFTER
  Memory,        \* blocks of COMBFILTER_MAXPERIOD
  MaxCeltFrames  \* bound: frames sent

ASSUME CeltAssumption ==
  /\ Memory \in Nat /\ NoiseAfter \in Nat /\ MaxCeltFrames \in Nat
  /\ \A f \in CeltFrames : f.blocks \in Nat \ {0} /\ f.start \in {1, 2}

VARIABLES
  enc,      \* CeltEncoder, and what it did to the last frame
  dec,      \* CeltDecoder
  celtDid,  \* history: what the decoder's last frame was made from
  link,     \* history: what arrived
  sent      \* history: frames sent

celtVars == <<enc, dec, celtDid, link, sent>>

(* start: 1 for a frame all of CELT's, 2 for a hybrid's; 0 for no frame.   *)
Longer(f) == f.blocks > 1                        \* lm > 0
Off    == 0
Silent == [j \in 1 .. Memory |-> 0]

(* comb_filter: over a block, from one setting to another.                 *)
Faded(from, to) == <<from, to>>

(* A memory that a frame's blocks slide into.                              *)
Slid(memory, blocks) ==
  SubSeq(memory \o [j \in 1 .. blocks |-> sent + 1], blocks + 1, Memory + blocks)

(***************************************************************************)
(* The encoder.  past: history, what it was given to send (the prefill of  *)
(* a new one, of 2.5 ms and 2 bytes, does not pass the gate).              *)
(***************************************************************************)
NewEncoder == [start |-> 0, filter |-> Off, memory |-> Silent, past |-> Silent, did |-> <<>>]

(* A mode switch starts it over (encoder.rs 1633).                         *)
EncoderFor(f) == IF enc.start \in {0, f.start} THEN enc ELSE NewEncoder

(* The gate of the prefilter: all of the band CELT's, and room.            *)
Gate(f) == f.start = 1 /\ f.room
Signalled(f) == IF Gate(f) THEN f.filter ELSE Off

(* run_prefilter: over the first block it goes from the last setting to    *)
(* the new one.                                                            *)
Applied(e, f) ==
  IF ~Gate(f) THEN [j \in 1 .. f.blocks |-> Faded(Off, Off)]
  ELSE [j \in 1 .. f.blocks |-> Faded(IF j = 1 THEN e.filter ELSE f.filter, f.filter)]

Encoded(e, f) ==
  [start  |-> f.start, filter |-> Signalled(f), did |-> Applied(e, f),
   memory |-> IF Gate(f) THEN Slid(e.memory, f.blocks) ELSE e.memory,
   past   |-> Slid(e.past, f.blocks)]

(***************************************************************************)
(* The decoder.                                                            *)
(***************************************************************************)
Overlap == [raw |-> FALSE, folds |-> 0, off |-> <<>>]
Raw     == [raw |-> TRUE, folds |-> 0, off |-> <<>>]

(* CeltDecoder::new, reset.                                                *)
NewDecoder ==
  [start |-> 0, memory |-> Silent, post |-> Silent, tail |-> Overlap, fold |-> FALSE,
   old |-> Off, now |-> Off, loss |-> 0, plc |-> 0, skip |-> TRUE, last |-> "none",
   lag |-> <<>>]

(* A mode switch resets it (decoder.rs 1360, 1583).                        *)
Switches(f) == dec.start \notin {0, f.start}
DecoderFor(f) == IF Switches(f) THEN NewDecoder ELSE dec

(* prefilter_and_fold: a raw overlap, extrapolated from filtered samples,  *)
(* has the filter taken off and is folded.  (Mutant: only the new one.)    *)
FoldedByTheNew(d) ==
  IF d.fold THEN [d.tail EXCEPT !.folds = @ + 1, !.off = Faded(d.now, d.now)] ELSE d.tail
Folded(d) ==
  IF d.fold THEN [d.tail EXCEPT !.folds = @ + 1, !.off = Faded(d.old, d.now)] ELSE d.tail

(* "Two consecutive packets have to arrive before the pitch-based          *)
(* concealment is trusted again".  (Mutant: one is enough.)                *)
TrustedAtOnce(d) == [d EXCEPT !.skip = FALSE]
Trusted(d) == IF d.loss = 0 THEN [d EXCEPT !.skip = FALSE] ELSE d

(* Hybrid has no filter.                                                   *)
Opened(d, f) == IF f.start # 1 THEN [d EXCEPT !.now = Off] ELSE d

(* The postfilter goes over to the last setting in the first block and to  *)
(* the new one in the next.                                                *)
Removed(d, f) ==
  [j \in 1 .. f.blocks |->
     CASE j = 1 -> Faded(d.old, d.now) [] j = 2 -> Faded(d.now, Signalled(f))
       [] OTHER -> Faded(Signalled(f), Signalled(f))]

(* decode_impl_from_rc.                                                    *)
Decoded(d0, f) ==
  LET d == Opened(Trusted(d0), f)
      memory == Slid(d.memory, f.blocks)
  IN [d EXCEPT !.start = f.start, !.memory = memory,
               !.post = Slid(d.post, f.blocks),
               !.tail = Overlap, !.fold = FALSE,
               !.old = IF Longer(f) THEN Signalled(f) ELSE d.now, !.now = Signalled(f),
               !.loss = 0, !.plc = 0, !.last = "normal"]

(***************************************************************************)
(* Concealment.                                                            *)
(***************************************************************************)
NoiseBased(d) == d.plc >= NoiseAfter \/ d.start # 1 \/ d.skip

Lasted(d, blocks) == [d EXCEPT !.loss = @ + blocks, !.plc = @ + blocks]

(* The window the postfilter looks back into follows.  (Mutant: it stays.) *)
RefreshedNever(d) == d
Refreshed(d) == [d EXCEPT !.post = d.memory]

(* conceal_fill_noise.                                                     *)
Noise(d, blocks) ==
  [d EXCEPT !.memory = Slid(@, blocks), !.tail = Overlap, !.fold = FALSE, !.skip = TRUE,
            !.old = d.now, !.last = "noise"]

(* conceal_fill_pitch: the lag is searched for at the first lost frame, in *)
(* what is remembered then.                                                *)
Lag(d) == IF d.last # "periodic" THEN d.memory ELSE d.lag
Periodic(d, blocks) ==
  [d EXCEPT !.lag = Lag(d), !.memory = Slid(@, blocks), !.tail = Raw, !.fold = TRUE,
            !.last = "periodic"]

CeltConcealed(d, blocks) ==
  Lasted(Refreshed(IF NoiseBased(d) THEN Noise(d, blocks) ELSE Periodic(d, blocks)), blocks)

(***************************************************************************)
(* A frame is sent, and arrives or not.  link.row: how many in a row have  *)
(* arrived up to the last, 2 standing for more, and for a start that both  *)
(* sides made together; link.noisy: noise since two in a row; link.heard:  *)
(* what the decoder remembered when the last arrived.                      *)
(***************************************************************************)
NothingJoined == [as |-> "none", tail |-> Overlap, on |-> <<>>, removed |-> <<>>, applied |-> <<>>,
                  looksBack |-> TRUE, lag |-> <<>>]

(* What was done to the blocks the decoder puts out: a block behind.       *)
Behind(e, f) ==
  SubSeq(<<IF e.did = <<>> THEN Faded(Off, Off) ELSE e.did[Len(e.did)]>> \o Applied(e, f), 1, f.blocks)

Synthesised(d) == [NothingJoined EXCEPT !.tail = Folded(d), !.on = Faded(d.old, d.now)]

Receive(f) ==
  LET d == Opened(DecoderFor(f), f)
      e == EncoderFor(f)
      row == IF e.start = 0 THEN (IF d.start = 0 THEN 2 ELSE 0) ELSE link.row
  IN /\ dec' = Decoded(DecoderFor(f), f)
     /\ celtDid' = [Synthesised(d) EXCEPT !.as = "decoded", !.removed = Removed(d, f),
                       !.applied = IF row = 2 THEN Behind(e, f) ELSE Removed(d, f),
                       !.looksBack = Signalled(f) = Off \/ e.memory = e.past]
     /\ link' = [row |-> IF row = 0 THEN 1 ELSE 2, heard |-> dec'.memory,
                 noisy |-> link.noisy /\ ~Switches(f) /\ link.row = 0]

CeltConceal(f) ==
  LET d == CeltConcealed(dec, f.blocks)
  IN /\ dec.start # 0
     /\ dec' = d
     /\ celtDid' = [(IF d.last = "noise" THEN Synthesised(dec) ELSE NothingJoined) EXCEPT
                       !.as = d.last, !.lag = d.lag]
     /\ link' = [link EXCEPT !.row = 0, !.noisy = @ \/ d.last = "noise"]

(* Nothing is concealed before anything was decoded.                       *)
LoseFirst == dec.start = 0 /\ link' = [link EXCEPT !.row = 0] /\ UNCHANGED <<dec, celtDid>>

Send(f) == sent < MaxCeltFrames /\ sent' = sent + 1 /\ enc' = Encoded(EncoderFor(f), f)

CeltInit ==
  /\ enc = NewEncoder /\ dec = NewDecoder /\ celtDid = NothingJoined /\ sent = 0
  /\ link = [row |-> 2, noisy |-> FALSE, heard |-> Silent]

CeltNext == \E f \in CeltFrames : Send(f) /\ (Receive(f) \/ CeltConceal(f) \/ LoseFirst)
CeltSpec == CeltInit /\ [][CeltNext]_celtVars

(***************************************************************************)
(* Properties.                                                             *)
(***************************************************************************)
(* "Encoder pitch prefilter (the inverse of the decoder postfilter)"       *)
(* (celt/mod.rs 2187): of a frame that arrives after two others, the       *)
(* decoder takes off, block by block, the filter that was put on, across   *)
(* frame lengths, losses before that and mode switches; and both filters   *)
(* look back into what came just before, concealment included.             *)
PostfilterUndoesPrefilter ==
  /\ celtDid.removed = celtDid.applied
  /\ celtDid.looksBack
  /\ dec.post = dec.memory

(* "whatever decodes next folds it" (celt/mod.rs 4168): every synthesis    *)
(* overlaps with a folded block; one that a concealed frame left raw is    *)
(* folded exactly once, with the filter taken off that the synthesis puts  *)
(* on again.                                                               *)
OverlapsWithTheFolded ==
  IF celtDid.tail.raw THEN celtDid.tail.folds = 1 /\ celtDid.tail.off = celtDid.on
  ELSE celtDid.tail.folds = 0

(* Pitch is extrapolated by a lag found in what was last received, not in  *)
(* an earlier burst's; and once there was noise only after two packets in  *)
(* a row (celt/mod.rs 2969-2971).                                          *)
PitchOfWhatWasHeard ==
  celtDid.as = "periodic" => celtDid.lag = link.heard /\ ~link.noisy
=============================================================================
