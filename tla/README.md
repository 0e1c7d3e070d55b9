# opus-pure: specifications and proofs

TLA+ models of the stateful parts of opus-pure, TLC configurations that check
them on small instances, and TLAPS proofs of the properties that matter most.
Paths are relative to the repository, as in `src/ogg/writer.rs`.

1. [What the system is](#1-what-the-system-is)
2. [Modules](#2-modules)
3. [Runs and bounds](#3-runs-and-bounds)
4. [Fairness](#4-fairness)
5. [Proofs](#5-proofs)
6. [Where code and documentation part](#6-where-code-and-documentation-part)
7. [What is abstracted, and what is not modelled](#7-what-is-abstracted-and-what-is-not-modelled)
8. [Plan](#8-plan)

## 1. What the system is

opus-pure is a Rust port of libopus (encoder, decoder, multistream,
repacketizer) with an Ogg Opus muxer and demuxer and an API that encodes a clip
on several threads.

| part | state it keeps | operations | what is hard |
|---|---|---|---|
| **Ogg muxer** `ogg/writer.rs`, `ogg/page.rs` | page being assembled (segment table, payload, granule, continued), sequence number, running granule, `finished` | constructor, `set_page_target`, `write_packet[_with_duration]`, `finish`, `Drop` | the sink may refuse any page, also inside a call; packets that span pages; the end-of-stream page |
| **Ogg demuxer** `ogg/reader.rs`, `ogg/crc.rs` | packets completed and pending, serial, granule, end flags, position of the first audio page | `new`, `read_packet[_into]`, `packets`, `rewind` | damaged and lost pages, resynchronisation, reads that fail in the middle of a page, rewinding from any state |
| **Trim** `ogg/trim.rs` | delay still to skip, samples emitted | `new`, `keep`, `keep_range` | rounding at rates the pre-skip does not divide; granules that lie; unsigned arithmetic |
| **Headers** `ogg/header.rs` | comments | `OpusHead`, `OpusTags`: made for an encoder, written, parsed; comments pushed and found | the pre-skip of every rate and application; the layout a player builds its decoders from |
| **Parallel encode** `parallel.rs` | a plan; one encoder per thread | `plan`, `encode_parallel` | partition arithmetic, threads in any order, errors and panics among them |
| **Encoder control** `encoder.rs`, `toc.rs` | mode, bandwidth, DTX counter, copy decision, the mode each layer was last in | `encode*`, `reset_state`, settings | settings changed between calls; restarts on a switch; packets of several frames within one budget; pauses |
| **Decoder control** `decoder.rs` | previous mode, `prev_redundancy`, end band, SILK rates and channels, the history in each layer | `decode*`, `decode_fec*`, `reset_state` | which layer is reset, primed, cross-faded or concealed at each mode switch, with losses between |
| **Repacketizer** `repacketizer.rs`; **packets** `packet.rs`, `toc.rs` | frames gathered, TOC | `cat`, `out*`, `pad_packet`, `unpad_packet`, `parse_packet` | framing codes 0-3, length coding at its edges, self-delimited framing |
| **Multistream** `multistream.rs` | a codec per stream, a channel mapping | `encode*`, `decode*`, `reset_state` | where one stream's packet ends and the next begins; one stream failing after others advanced |
| **Range coder** `range_coder.rs`; **pulse indices** `celt/pvq.rs` | range, low, carry run, raw bits from the back | `enc_*`, `dec_*`, `shrink`, `pad_to_bits`, `done` | carry propagation, front and back meeting |
| **CELT frame** `celt/mod.rs`, `celt/rate.rs`, `celt/bands.rs`, `celt/quant_bands.rs` | the coder's position, which decides what is coded next | the sections of a frame | both sides derive the same models and the same division of bits from what is left |
| **CELT history** `celt/mod.rs` | pre- and postfilter settings and what they look back into, the overlap, the state of concealment | `run_prefilter`, `prefilter_and_fold`, `conceal_lost_bands` | settings two frames old; losses; frame lengths that change |
| **SILK packet** `silk/enc_api.rs`, `silk/dec_api.rs`, index, pulse and gain coding | last gains, lags and types; copies of the packet before | `silk_encode`, `SilkDecoder::decode` | symbols whose presence depends on frames that may have been lost or never coded |
| **SILK synthesis** `silk/plc.rs`, `cng.rs`, `decode_core.rs`, ... | lags, filters, backgrounds per channel | decode, conceal, glue, unmix | rates and channels that change under them |
| **SILK quantizer** `silk/nsq_del_dec.rs` | candidates and their last samples | `silk_nsq_del_dec` | samples decided before the candidates are |
| **Signal processing** rest of `silk/`, `celt/` | filter memories | MDCT, FFT, pitch, LPC, resampler | numerical; compared with libopus bit by bit |
| **Analysis, soft clip, CPU features** | feature history; clip memory; none | numerical | none of it is control |

How they interact. The encoder decides a packet, has its layers code the frames
into one range coder, and frames them; the muxer is given the packets and reads their
duration from their TOC; the demuxer hands packets to the decoder, with the
granule of the page they completed on, which `Trim` turns into the range of the
decoded samples to keep. Multistream joins the packets of several encoders into
one, self-delimited but for the last. `encode_parallel` owns one encoder per thread and joins
them in order. `OpusDecoder` drives a SILK decoder and a CELT decoder which share
no state but the range decoder of a hybrid frame. The only concurrency is that of
`encode_parallel`; everything else is a sequential object whose difficulty is the
order of the calls, which of them failed part-way, what was lost on the way, and
two sides that must work the same thing out from different state.

What makes each part correct, in a line: the muxer's sink always holds a
well-formed prefix of what was accepted; the demuxer delivers what was written or
says that it did not; `Trim` gives back exactly the clip for an honest file and
invents nothing for another; a parallel encode is one packet per frame in order
or an error; what the encoder announces is what it codes, within its budget; the
decoder joins every frame to history it may be joined to; every symbol is read
under the model it was written under; repacketized frames keep their meaning.

## 2. Modules

| module | models | notes |
|---|---|---|
| `PacketLog` | the promise of a muxer | abstract: packets are taken, stored in order, and the log is closed once |
| `OggWriter` | `OggOpusWriter` | implements `PacketLog` |
| `OggReader` | `OggOpusReader` | over sources of whole, damaged and chained pages |
| `Trim` | `Trim` | its input is arbitrary: `TrimSpec` holds for any file |
| `Gapless` | `examples/encode.rs` -> container -> `examples/decode.rs` | composes `Trim` with the encode recipe; implements `TrimSpec` |
| `Parallel` | `encode_parallel` and `ParallelConfig::plan` | one step per frame and thread |
| `PacketPlan` | the decisions of `encode_native`, the TOC | operators |
| `Encoder` | `OpusEncoder` | over `PacketPlan`; one step per frame |
| `Decoder` | `OpusDecoder` | one step per frame, concealment or recovery |
| `Framing` | `parse_packet`, `emit_packet`, `take_self_delimited_into` | operators on packets as sequences of bytes |
| `Repacketizer` | `Repacketizer`, `pad_packet`, `unpad_packet` | over `Framing` |
| `OpusHeaders` | `OpusHead`, `OpusTags`, `ChannelLayout` | operators on bytes |
| `Multistream` | `OpusMSEncoder`, `OpusMSDecoder` | composes `Framing` and `OpusHeaders`: microphones to loudspeakers |
| `RangeCoder`, `PulseIndex` | `RangeCoder`; `icwrs`, `cwrsi` | operators on a coder; word width is a parameter |
| `EntropyCoding` | one frame through the coder | encoder, cut, padding, decoder |
| `BitStream` | the coder as the syntax sees it | abstract coder: a position, and symbols with their models |
| `CeltMode`, `BitAllocation`, `BandCoding`, `FrameSections` | `modes.rs`; `rate.rs`; `bands.rs`; the sections of `celt/mod.rs` and `quant_bands.rs` | operators, written once for both sides |
| `CeltFrame` | one CELT frame on both sides | one action per section and side |
| `CeltHistory` | the filters, overlap and concealment of CELT | encoder, channel and decoder |
| `SilkGains`, `SilkPulses`, `SilkIndices` | `gain_quant.rs`; `encode_pulses.rs`, `shell_coder.rs`; `encode_indices.rs`, and their decoders | operators |
| `SilkPacket` | `silk_encode` to `SilkDecoder::decode` | composes them over a channel that loses packets |
| `SilkSynthesis` | `decode_frame.rs` and below, `dec_api.rs` | what each frame is made from |
| `DelayedDecision` | `nsq_del_dec.rs` | one step per sample |
| `*_proofs` | theorems of the modules they extend | section 5 |
| `SequenceFacts` | induction over the natural numbers, and what it says of sequences joined | lemmas for the proofs |
| `MC*` | values for the constants, and which machines share a run | section 3 |

`PROJECT.json` maps every definition to the lines it stands for. Definitions
marked "mutant" state what a plausible bug would do in place of the definition
that follows them; nothing uses them except the check that each property
notices its bug.

**OggWriter.** A segment is `<<packet, part, lacing value>>`; a page is its flags,
granule, number and segments, and `whole = FALSE` if the sink took only some of
its bytes. A call of the writer is a run of steps (`call`): `PushLace`/`PushLast`
are the loop of `push_packet_bytes`, `FlushMidPacket` its flush of a full table,
`FlushHead`/`FlushTags` the constructor, `WritePacket` what precedes the push.
Every write may be `Refused`: the call then ends where `?` ends it, with the
state the code leaves (which is why `flush_page` resets after writing). Drop is
`FinishInPlace`: it also runs when the constructor fails, and then writes an
end-of-stream page with granule -1 over the header still pending. A refused
mid-packet flush leaves the first segments of a packet in the table with no end
to them (`orphan`); the code promises nothing about the next packet's page, so
`ContinuationExact` and the last part of `EosClosesTheStream` do not either.

**OggReader.** A source is a sequence of pages. Damage is per page: `flipped` (a
wrong bit that leaves the capture pattern alone: the page fails its CRC, and if
it was a lacing value the reader then stands anywhere later: `lands`), `cut`,
`junk` (a megabyte without a pattern, the resynchronisation limit), `capture` (the
pattern itself, over which the reader scans without an error: `PassedOver`, which
`FaithfulUntilError` excepts). A packet is the sequence of segments it was put together from,
so that a splice of two is visible. The constructor's two reads are the first
two passes of the same steps (`stage`). The model has no false capture pattern
inside a payload.

**Trim, Gapless.** Samples and ticks as integers. The five decode rates are 1, 2, 3,
4 or 6 ticks a sample; clip rate and decode rate are independent. The muxer may
break pages anywhere. A foreign file states any granules.

**Parallel.** A packet is `<<frame, frame its encoder started from>>`. A verdict per
frame says whether encoding it succeeds, fails or panics; it belongs to the
frame, so a frame met in two warm-ups fails in both.

**PacketPlan, Encoder.** `Plan` follows `encode_native` decision by decision with the
code's tables and integer arithmetic: equivalent rate, mode, bandwidth, copy of the
packet before, duration and split. The actions are the refusals, the packet with
no room to be framed, the packet that is only a TOC (`Starved`), a frame coded, a
frame dropped by DTX, the framing of several (`Emit`) and `reset_state`. What the
signal is, what the analysis says of it and how many bytes a layer takes are
choices. `decoder` and `astray` follow the decoder of the same packets: which
frames each side restarts its CELT coder at.

**Decoder.** Sample values are replaced by where they come from: for CELT, what its
overlap and prediction history is the end of (a mode's audio, a redundant frame,
silence, reset state); for SILK, whether the history of each channel is reset,
current or from before a gap. Methods are operators from a decoder to a decoder, in the
order in which the code touches its layers. `Legal` is the sender: libopus
announces a switch to CELT in the last frame before it and fades CELT out in the
first after it. A lost packet advances the sender only.

**Framing, Repacketizer.** A packet is a sequence of bytes, but of bytes with `Base`
values instead of 256: the TOC is a configuration and a code, the count byte
keeps its two flags in its top two digits, sizes from `Base - Step` on take two
bytes and a byte of `Base - 1` continues the padding's length, as 252, 4 and 255 do
in the code. `TakeSize` is the loop body that reads one size; the two ways of
finding the last frame's are `PlainSizes` and `DelimitedSizes`. The state machine
has a repacketizer and one packet in hand, with what the packet means as history.
`cat` of a packet that is refused may still
take the packet's configuration on (`repacketizer.rs:331`), as the code does.

**OpusHeaders, Multistream.** Header packets are real bytes (base 256), stream
packets those of `Framing`. A coded frame says which call and which input
channels it is of, so that a channel that comes out of another loudspeaker, or
of another call, is visible. `Open` builds the decoders from the parsed header.
A packet may be lost, or have one stream's packet replaced by bytes that are none
(`Spoil`): the decoders before that stream have then advanced (`heard`).

**RangeCoder, PulseIndex, EntropyCoding.** The coder at any width of byte and code
word; a decoder reads what `done` closed, told the kinds of the symbols but not
their values. Between, the encoder may have had its buffer cut (`shrink`), padded
(`pad_to_bits`) and its first bits patched.

**BitStream to CeltFrame.** Here the coder is abstract: `tell_frac` and, per symbol,
the model it is coded under, with prices from the code's tables where the code
takes decisions on prices (allocation, pulses, angles) and fixed small prices for the
entropy tables. A read under another model than the write makes `ok` false. The
operators of the allocation (`rate.rs`) and of the band loop (`bands.rs`) are
written once with a coder that writes or reads, as the code's are. The
encoder's side of a frame is `Say*`, the decoder's `Hear*`; between them the
variable rate `Size`.

**CeltHistory.** Time is in blocks of 2.5 ms. A block is the number of the frame it
is of; a filter is a setting, and what is done to a block is the pair of settings
faded between. Every frame sent is received, or concealed; frames of one or two
blocks, CELT-only or hybrid (where each side restarts).

**SilkGains to SilkPacket.** A packet is its symbols, each with the table it is coded
from. What all frames code alike (filter vector and residuals, contour, taps,
seed) is one `mark`. `Send` takes a plan of what the frames say; the channel
delivers, loses, or loses and recovers from the copy in the next packet.

**SilkSynthesis.** Lags and lengths are the decoder's numbers; a filter, spectrum or
background is the rate it was coded at. Per part of a frame, what it starts
long-term prediction from, what it fades from and whether it is glued.

**DelayedDecision.** A candidate's random state is the pulses it has been through.
Costs are choices. The delay follows from the lags as in the code.

**Machines that share a run.** The MC modules put independent machines side by side,
with a variable `use` that says which one runs while the others stay where they
are: `MCPlayback` (`Decoder`, `Gapless`), `MCPackets` (`Repacketizer`,
`Multistream`), `MCCoding` (`EntropyCoding`, `CeltFrame`), `MCHistory`
(`SilkSynthesis`, `DelayedDecision`, `CeltHistory`). `MCClipFile` composes: a clip
is encoded by `Parallel`, and if it came back without an error the `OggWriter` runs.

## 3. Runs and bounds

| run | expects | question | bounds, and why they reach the hard cases |
|---|---|---|---|
| `clip_file` | pass | is a parallel encode right whichever thread runs first and whatever fails; does any order of sizes, durations, page targets, refusals, finish and drop break framing, granules or the log? | clips up to 13 frames, up to 3 threads, warm-up of none, a frame, and a third of a frame, 2 faulty frames. Lacing stops at 2 and a page holds 3 segments: sizes 0, 1, 4 (exact multiple, zero terminator), 7 (longer than a page); tags of 6 bytes whose terminator spills; 3 audio packets; 2 refusals, so that a retry fails too. The writer does not look at the clip, so it runs for one of them |
| `reader` | pass | is what is delivered what was written, until an error; is the end reached? | 14 whole streams (spanning packets and tags, bare end-of-stream pages, empty and oversize packets, cut, multiplexed, refused headers), and every flip, cut, junk and lost capture pattern of a page of two of them; one failing read anywhere; one rewind anywhere |
| `playback` | pass | what does each layer decode onto, over every sequence of packets, losses and recoveries; does a clip come back exactly; what can a lying file do? | packets of one or two frames, 3 modes, mono and stereo, two SILK rates, every legal placing of redundancy, no bound on the number of packets. Frames of 12 ticks (divisible by every rate), pre-skips and clips below, at and above a frame, all 25 pairs of rates; all files of 3 pages over 12 kinds of page |
| `packets` | pass | do frames survive any order of gathering, splitting, padding, stripping and self-delimiting; does every channel of a surround stream come out of its own loudspeaker, the streams in step? | bytes of 16 values; frames of sizes of one and two bytes and one above the limit; every code, constant and variable; padding lengths of one and two bytes; 13 packets that are none. All 8 surround layouts and 5 others over rates, applications, gains and comments; 3 calls; 7 framings over the streams in rotation; one stream spoiled, a packet lost or a buffer too small at any of them |
| `coding` | pass | is every symbol read as it was written, under the model it was written under, and are bits divided alike and within the frame? | bytes of 2 bits in a code word of 12, buffers of 3 and 9 bytes, up to 3 symbols of every kind before and after a cut or padding: runs of full bytes and a shared last byte happen in two. CELT frames of 2.5, 5 and 20 ms, mono, stereo and hybrid, from 3 bytes (nothing fits) to 80 at a variable rate (everything does) |
| `encoder` | pass | is every decision one the frames can be coded in and the TOC can say; does the budget hold; do pauses end; do both sides restart together? | three uses: a caller who changes everything between packets, at rates around the thresholds, at 8, 12 and 24 kHz; pauses at 48 kHz over packets of 20, 60 and 100 ms; buffers of 1, 2, 7, 12 and 802 bytes. No bound on the number of packets |
| `silk` | pass | is a SILK packet parsed as it was coded; do gains rejoin; is what is recovered the packet before? | five uses that each vary one thing: lags at and beyond a step, gains from one end to the other, which frames have a side, every length at every rate, pulses at shell limits. No bound on the number of packets |
| `history` | pass | is each frame joined to what was just before it; is what the quantizer decides one candidate's? | SILK: 4 frames, 8 and 16 kHz, 10 and 20 ms, shortest and longest lag with contours beyond them, one or two channels. Quantizer: 3 candidates, a buffer of 3 samples, subframes of 2, so a delay of 2, and lags that bring it down to 1 (13 to 40 in the code); three costs. CELT: 8 frames of 1 or 2 blocks; `NoiseAfter` 3 for 40 blocks and `Memory` 3 for the 1024 samples, so that a burst turns to noise |
| `reader_chained` | violation | `RewindReplays` over a chained stream | section 6 |
| `frame_transient` | violation | `SameModels` with an attack in 2.5 ms | section 6 |
| `repacketizer_padded` | violation | `TakenWhole` when a self-delimited packet is padded | section 6 |
| `history_starved` | violation | `PostfilterUndoesPrefilter` when a frame has no room for a filter | section 6 |

Two bounds leave something out. `EntropyCoding` is not padded while raw bits are pending
in a way that splits them (`PadPending`, section 6). The frames of `coding` leave out
a hybrid frame with exactly one bit of room in its first band and an energy step of
-2 or less: one bit says -1 to the decoder while the encoder goes on with its own
step (the clamps of `quant_bands.rs:134-141` skip the first band).

`CHECK_DEADLOCK FALSE` is set wherever the system really ends: a finished stream, a
returned call, a frame read to its end and a caller that stops calling are ends,
not deadlocks. `silk` is checked for deadlock. That nothing gets stuck before
its end is what `EndIsReached` and `EveryCallReturns` say.

## 4. Fairness

`OggReader`: weak fairness of `Step`, the loop of a call (it runs on its caller's
thread without waiting for anyone), and of `Read` - liveness is about a caller
that keeps calling until the end. Failing reads are bounded by `MaxIoFailures`: a
source that fails for ever gives no end. `Parallel` (in `clip_file`): weak fairness of the caller's
thread and of the threads together (some thread that can run does), the least the
operating system's scheduler gives; every thread's work is finite, so this is
enough. The other modules state no liveness: nothing happens there
until somebody calls. That a pause ends (`PausesEnd`) is a bound, not a liveness
property: within so many milliseconds of packets.

## 5. Proofs

All theorems hold for every value of the constants that satisfies the ASSUMEs of
the module: any lacing limit and table size, any packet sizes, clip lengths,
pre-skips and granules, any frames and packets in any order, any number of
losses, refusals and faults. An argument usually has two halves: lemmas that say, operator by
operator, what a method of the code does to the state (`...Fields`, `...Leaves`,
`...Keeps`), and one step per action that cites them.

**`ClipFile_proofs`**, of `Parallel`: `OnePacketForEveryFrame`, `FaultsAreNeverLost`, for any number of
frames and threads, any warm-up and any verdicts. The first half is the plan's
arithmetic (chunks cover the clip without overlap, whatever the rounding); the second `ParallelInv`: each
thread has kept exactly the frames of its chunk it has passed (`KeptInOrder`),
stands at the frame that ended it (`Ended`), and the joined result is put together from all of
them (`ResultInv`). The concatenation of the chunks is by induction
(`SequenceFacts`).

Of `OggWriter`: `WriterTyping`, `PagesAreNumbered`, `ContinuationIsExact`,
`EosIsLast`, `GranulesAreExact`, and the refinement `WriterImplementsLog`. None of the
invariants is inductive alone.
- `ShapeInv` = `TypeOK` with `PayloadBound` (the payload is at most 255 bytes a
  segment, which is what keeps it within a page) and `HeadersFirst` (where the
  constructor has got to).
- `TableInv` says how the segment table stands to the call in progress: it ends
  inside a packet only while that packet is being pushed or after an orphan
  (`TableEnds`), and the last audio packet is on the pending page unless the
  stream is finished (`LastIsPending`) - the reason for flushing before a packet
  and not after it.
- `WriterInv` adds what the last page in the sink says of the next
  (`NextPage`): the number it must carry and whether it must be a continuation.
  Steps touch the sink in two ways only (`SinkStep`): not at all, or by one page
  carrying the current number and flag. `Grows` reduces each property of the
  whole sink to its last page.
- `StampInv` carries `GranulesAreExact`: the granule of the pending page is that of the last
  packet its table completes, `NoGranule` if it completes none, and packets complete in order
  (`Stamped`, of the table as of every page).
- `WriterImplementsLog` is the promise of `PacketLog`: what has been accepted is what is stored,
  followed by what the table still holds (`NothingLost`), so that a step of the
  writer stores, accepts, closes or is invisible.

**`OggReader_proofs`**: `RewindsRepeat`, `SplicesAreOfLostPages` and `FaithfulAtAllTimes`, for any source
of pages with any damage; the first two are about readers whose reads have not failed, as the
properties are, the third about any.
- `RewindsRepeat` needs a source of one logical stream (`OneStream`): over a chained one it is false,
  which is what the run `reader_chained` shows. What a call does is written once more as
  a function of what the reader remembers (`After`); a pass is a run of it from the memory the constructor
  left (`ReplayInv`), and two runs from one memory agree (`AnswersAgree`). `ReaderInv` holds what makes the
  memory after a rewind that one: the serial number is the stream's from the first
  packet on, and nothing is ready when the source is exhausted.
- `SplicesAreOfLostPages` needs a source laid out as a muxer lays it out before it is damaged (`Laid`: 104 of the
  106 sources of the run). `LaidInv` says where the packet left pending stands: it ends
  with the last segment of a page, and the reader is before the page that
  follows, with only junk between, or that page is damaged. `SplitIsSound` is the walk over a page's
  segments, by induction.
- `FaithfulAtAllTimes` needs no more than that no capture pattern is damaged, which the property
  excepts itself. What the source holds is cut from the segments of all its
  intact pages in one row (`SourcePackets`), the reader walks page by page: `BeginsNext` and `CountNext` say how the
  cut goes on by one segment, `PageCut`, by induction, that `read_page`'s walk does the same,
  packets without bytes dropped by both (`EmptyPacket`), and `PlacesLaidOut` where
  a page stands in the row. `FaithfulInv` then has, until an error, the reader behind some
  intact page (`Behind`) with what is open in the row there pending, and of the packets that end on the pages
  read the first `n` taken, two by the constructor, and the others ready in
  order with granule and end-of-stream mark. For a rewind it keeps that the first audio page starts
  behind exactly two packets with none open, which is why the constructor has to refuse tags that
  share their last page.

**`Playback_proofs`**, of the decoder: `SilkStartsOver`, `OwnIsJoined`, `SeamsAreJoinedOnce`, for any set of packets.
- `GapInv`: what SILK knows may be from before a gap only while CELT is at it. This
  is why it is enough to reset SILK when it takes over from CELT, and it holds
  with losses and recoveries anywhere.
- `WholeInv` is about streams received whole: between packets, and frame by frame
  inside one, what the history of CELT is the end of, given the mode before and the redundant frames
  the sender placed. The sender is `Legal`; that a packet's redundant frames are where libopus
  puts them (`Placed`) is an assumption about the input, as in the run.

Of `Trim` for any file, `TrimTyping`, `NothingIsInvented`,
`HonestExactness`, `GranuleBounds`; of the composition, `GaplessImplementsTrim` (every
step is a step of `TrimSpec` or leaves its variables alone) and hence
`FileInventsNothing`, `HonestFileIsExact`, `FileBounds`; `GaplessTyping`,
`LastDurationAlwaysFits`; and `EveryClipComesBack`.
- `TrimInv` relates the counters (`skipRemaining`, `emitted`, `fed`) and says that
  the delay is gone before anything is emitted. It rests on two lemmas of integer
  division: rounding the pre-skip up is what makes the clamped length equal to
  the length decoded.
- `GaplessInv` fixes the writer's granule as `encoded * FrameTicks` until the last frame.
- `EveryClipComesBack`: a clip of any length, encoded at any rate, paged in any way
  and decoded at any rate comes back with exactly its length. `ClipInv` says that
  the pages hold the frames in order (`Paged`: with the number of frames through
  each page as a witness) and that the reader has been fed what lies before its place
  (`ReadTo`); the last page's granule is the only one that clamps.

**`History_proofs`**, of `CeltHistory`: `OverlapsAreFolded` (`OverlapInv`: the overlap is raw exactly
when it is still to be folded), `PitchIsOfWhatWasHeard` (`PitchInv`: while pitch is trusted no
noise has been played since two packets in a row), and `PostfilterIsTheInverse`.
The last assumes `RoomForAll`, that every frame of CELT alone has room for a prefilter: the
run `history_starved` is its counterexample without (section 6). `FiltersFollow` is its
invariant: after one packet the decoder is to fade from the encoder's setting, after two
it also undoes what was done to the block still in the overlap.

Of `SilkSynthesis`: `LagsFitTheRate`, `LossesAreJoined`, `EndsAreRecent`, for any frames a
sender can code (`SilkAssumption`: rates of 8, 12 and 16 kHz, 2 or 4 subframes, and an interpolated filter
only with 4). `SilkInv` holds for each channel at every time: the lag
and pitch it remembers fit the rate noted beside them - not the rate the channel runs at, which may
have changed since - its filters are of its own rate unless it has been
initialised, and what a loss left behind names that loss (`LagsKept`, `FiltersKept`, `LossKept`).
That a side that was away while the middle went on does not fade from its old end
needs one more fact, `Fadeless`.

Of `DelayedDecision`: `OnePathIsDecided`, for 1 to 4 candidates, any lengths of the ring and of
a subframe, any lags and any costs. That what is decided is never taken back is a race of costs, so
`NsqInv` puts a number to it (`NsqBehind`): whoever differs from the
best candidate in what is decided is behind it by the penalty less `Spread` - the most that the costs
of one sample can differ - for each sample tried since the last decision. `RoundKeeps` is
the step: who is that far behind cannot become best in a sample, even by way of the worst candidate
making way for the best second offer, and a round that decides a sample renews the penalty. The rest
is bookkeeping: each ring holds the last samples with what led up to them
(`NsqHolds`), each slot the gain of its sample's subframe (`NsqGains`), and all a lag can
reach is decided and at the present subframe's gain (`NsqScale`). The assumptions are what the code
fixes: `PenaltyAssumption` (a residual is limited to 31 before it is squared and weighed,
`nsq_del_dec.rs:665`, so a sample costs less than 2^20, and the 41 of them that a race lasts at
most less than the penalty, `i32::MAX >> 4`), a candidate's first offer the cheaper
(`nsq_del_dec.rs:713-723`), 2 or 4 subframes, and lags of more than three samples.

**`Encoder_proofs`**: `EncoderReadAsCoded`, `EncoderKeepsItsBudget`, `EncoderPausesEnd`,
`EncoderAstrayOnlyWhenStarved`, for any settings a caller may put into the public fields,
changed between packets in any way (`EncoderAssumption` gives them their types and the
rates and channel counts the constructor takes, nothing more).
- `EncoderInv` (`EncoderKeepsItsInv`). What is decided goes together
  (`DecidedTogether`): a mode, a bandwidth the input carries, and a frame length of that mode. It
  follows `Plan` decision by decision (`ChosenFits`, `FecFits`, `PlanFits`), and what goes
  together the table of contents can say (`TogetherIsSaid`). This invariant is also why
  the errors of `encode_frame` cannot be reached.
- The same invariant keeps the budget: each frame coded so far took at most a fair
  share of the packet's bytes (`Budget`), so what is left is a fair share for each of the
  others, and that is three bytes or more (`RoomFact`). `FramedFits` is the bytes of framing: with two frames padded
  at a constant rate the sizes differ, and then the frames were not all as large as
  they might have been; otherwise what was set aside is enough.
- `PauseInv` relates DTX's counter to how long nothing has been coded: a pause is at least
  140 ms behind the counter, which starts over after 600.
- `RestartInv`: between packets and frames, the mode the encoder remembers is the one the
  decoder was last in.

**`Framing_proofs`**, for bytes of any number of values and any table of durations.
- `SizeRoundTrip` (what `encode_size` writes `parse_size` reads, for every size),
  `SizesAreBounded`, and `PaddingRoundTrip` (the padding announced is the padding taken
  off, for every amount): arithmetic of division. `PaddingLength` names the quotient
  and the rest of an amount, `TwoBytes` the two digits of a size.
- `EmittedIsParsed`: `parse_packet` takes what `emit_packet` makes apart into the frames
  it was made of, for any frames that make up a packet (`FitFrames`: 120 ms at most, none
  above the largest size). A packet is four parts one behind the other - head, sizes
  given, last size, frames (`EmittedParts`) - and `Lies(part, data, at)` says where in
  the data each is. Then the reader is followed: `HeaderReads`, `GivenRead` by induction
  over the sizes, `PlainRead` and `DelimitedRead`, `CutsOut`.
- `WhateverFollows`: a self-delimited packet that parses, whoever made it, parses alike with
  anything behind it. It goes the other way: from the reader's success to what
  the bytes must be (`StepTaken`, `GivenTaken`, `PaddingTaken`, `HeaderTaken`), each with the
  same for something longer. The frames of any packet that parses make up a
  packet again (`ParsedIsFit`), and padded out with code 3 it is one byte longer at most
  (`PadFits`: why `pad_packet` to any greater length reaches it).

**`Packets_proofs`**, of `Repacketizer`: `MeaningIsKept` and `SelfDelimitedTakenWhole`, for any packets
from elsewhere, malformed ones included, and any sequence of calls.
- `HandInv` is inductive: the packet in hand means what it parses to, the frames held
  make up a packet, and the length is the one promised. `ShortestBody` says that
  without padding no other code or way of giving the sizes is shorter.
- Both rest on `SentWell`: the self-delimited packets from elsewhere are packets. A cut one
  could be completed by what follows it and be taken for something else.
  `SelfDelimitedTakenWhole` rests on `SentWhole` as well: they end with their last
  frame, as those of the crate's own encoder do. The run `repacketizer_padded` is its
  counterexample without (section 6). Both hold of the packets of the run (`MCSentPackets`).

Of `Multistream`: `SurroundStaysTogether`, for any channel layout, packets and damage. A
packet that is refused half-way has moved the decoders of a first few streams and no others,
and one that decodes has moved all (`MovedFirst`, by induction over the streams of
`DecodeAll`). With that `TogetherInv` is inductive: no decoder is ahead of one before it, and
none ahead of the encoder.

And `EveryChannelItsOwn`: what a channel plays is a frame of that channel, or a dropped or
concealed one, of the call all streams have come to. `ChannelInv` adds to `TogetherInv` that the
packet on its way is the streams of one call, joined, and that the player has the encoder's
layout (`HeadReads`: the header says the channels and the family, and those give the layout). A call
is followed stream by stream (by induction over the streams): what lies in front is taken by
`EmittedIsParsed`, whatever lies behind by `WhateverFollows`. A spoiled stream ends there, and
what was decoded before it is not played. It is proved for files made for a surround layout
(`SetupAssumption`: `OpusMSEncoder::new` makes no other, `multistream.rs:193`), for styles that
`encode` can choose (`StyleAssumption`: a frame or more in each stream's packet, at most 120 ms, none above
1275 bytes) and for damage a stream's parser sees (`SpoiltAssumption`: damage that is a packet again is not
told from a packet by any decoder; Ogg's CRC is in front of it).

**`SequenceFacts`**. The library states induction for an operator parameter, which the
installed provers cannot instantiate. Stated for a set of numbers (`Induction`, from the
well-foundedness of `<`) it can be used, and gives what the proofs need of
sequences joined one after the other. It takes a lemma of its own for every definition by
recursion, so what the longer recursions compute stays with TLC.

Some definitions are kept for the proofs alone and checked by
no run: the `TypeOK` of `OggWriter`, `Gapless` and `Trim`, `PagesNumbered`,
`LastDurationFits`, `NeverPastTheGranule` and `NothingInvented` - proved for every
value of the constants, they gain nothing from a small instance.

Only model-checked:
- liveness (`EndIsReached`, `EveryCallReturns`): fairness and ENABLED are outside the prover's reach;
- `HeadersDescribeTheStream` of `Multistream`: it looks for comments by `SelectSeq` and refuses every
  prefix of the headers. That the player's layout is the encoder's is part of
  `ChannelInv`, and so is proved;
- `EntropyCoding`: range and value of the two coders are related by divisions
  and shifts of numbers that carry through the bytes already written, step by step of
  a recursion over the symbols;
- `BandCoding`, `SilkPulses` and the modules over them (`FrameSections`, `CeltFrame`,
  `SilkIndices`, `SilkPacket`): they are recursive in the way the code is - a band is
  split in halves, a block of pulses in halves - with RECURSIVE operators, which
  the prover does not take.

## 6. Where code and documentation part

The violation runs; each stops at the first counterexample.

- `reader_chained`. "as if the reader had just been constructed"
  (`src/ogg/reader.rs:478`, of `rewind`). A page flagged as the beginning of a stream
  replaces the serial at any time (`reader.rs:397`), so that a second stream's pages,
  headers included, come out as packets of the first, if the first had no
  end-of-stream page ("Chained streams ... are rejected rather than silently
  mis-read", `src/ogg/mod.rs:28-31`). `rewind` (`reader.rs:491`) does not put the serial
  back: after it, the first stream's own pages are refused as another's.
- `frame_transient`. The budget rule "keeps the encoder in lockstep with the decoder's
  mirror of this" (`src/celt/mod.rs:2340`). With 2.5 ms, or no room, the transient
  flag is not coded (`mod.rs:2374`), but `is_transient` stays set and chooses
  the models of the time-frequency changes: the decoder reads them under others.
- `repacketizer_padded`. "`packet_offset = off; // for self-delimited multistream
  advancement`" (`src/repacketizer.rs:246`). The offset is the end of the last frame
  and leaves the padding of a code 3 packet out, so `take_self_delimited_into`,
  documented as "returning how many bytes of `data` it consumed", returns too few
  and the multistream decoder reads the next stream out of the padding. The crate's
  own encoder never pads a self-delimited packet; another's may. Unpadded packets
  are taken whole: `packets` checks the same property for them.
- `history_starved`. "Encoder pitch prefilter (the inverse of the decoder postfilter)"
  (`src/celt/mod.rs:2187`). A frame that fails the gate (complexity below 5, or no
  more than 12 bytes a channel) skips `run_prefilter` altogether, so the encoder does
  not fade its last filter out, nor move the filter's memory on; the decoder fades
  its postfilter to none over the first block. libopus runs the prefilter with a gain
  of 0. A constant rate at which frames become shorter, or a changed rate or
  complexity, is enough. With room in every frame `history` shows that the property holds.

Seen while modelling, each modelled as the code does it or kept out of a
property's way, none a run of its own:

- Reader: a page whose capture pattern is damaged is scanned over
  (`reader.rs:457-470`) and its packets are missing without an error, unless a packet
  spanned it; "a truncated or corrupt file should not decode as if it were fine"
  (`reader.rs:79-80`).
- Writer: the documentation says that dropping it leaves the stream without its
  end-of-stream page (`writer.rs:23-25`); its `Drop` writes one, as `FinishInPlace` does.
- Decoder: in SILK and hybrid mode, concealing 15 ms (and 35 ms, after its first 20)
  is an error (`decoder.rs:753`). `prev_redundancy` survives a loss, so that hybrid after
  it keeps CELT's history (`decoder.rs:1583`). Below 48 kHz the hybrid arm notes a
  redundant frame it has not decoded (`decoder.rs:1642`), so the properties about seams
  are stated at 48 kHz. `decode_fec` of a hybrid packet after SILK does not reset CELT.
- Encoder: "the decoder resets ... the encoder must mirror both"
  (`encoder.rs:1625-1627`): a starved packet is one TOC, which the decoder takes for a frame
  of its mode, while the encoder's modes stay where they were
  (`AstrayOnlyWhenStarved`). A variable-rate frame in a buffer of 2 bytes is cut. From CELT to SILK
  the decoder resets what the encoder's SILK predicts from. The prefill
  of a CELT encoder that starts over does not pass the prefilter's gate.
- Range coder: `pad_to_bits` writes its zero bytes to the back at once (`range_coder.rs:223`), while
  whole bytes of raw bits may still be in the window: those land in front of the zeros.
- SILK: a copy of a frame carries the levels before the rate loop moved them, so what is
  recovered is not at the levels it was coded at, and the levels that follow start
  from it (`blurred`). In recovering a packet, a frame of which there is no copy
  is concealed with its side, had it one or not (`dec_api.rs:236-238`).
- Multistream: a buffer found too small (`multistream.rs:291`: the error says what is
  needed) is found so after the encoders have advanced: a retry codes the next frame. `decode(&[])` of several streams is an error and no
  concealment. `OpusMSDecoder::new` takes its layout from its arguments, not from
  the header.
- CELT: "not cleared by a single good frame" (`celt/mod.rs:2965`) - every good frame
  clears `plc_duration` (`mod.rs:3764`); what keeps concealment on the noise
  branch is `skip_plc`, which a decoder that has decoded one packet since it was new clears.

## 7. What is abstracted, and what is not modelled

Abstracted everywhere: bytes to whose they are, sample values to where they come
from, serial numbers to the stream, CRC to "a changed page fails". In `Decoder`:
stereo prediction, the CELT stream's channel count, output gain, the soft clip's
memory, `final_range`; packets that are refused before anything is touched are
left out because they change nothing. `Packets`, the iterator, is a caller that
stops at the first error, and so one of the callers modelled. In `CeltHistory`: the
energies and the noise floor of concealment, silent frames, redundant frames; a
frame whose gate is open is taken to have room to signal its filter. In
`SilkPacket`: the values of the stereo predictors, and why a side is coded or not.
In `CeltFrame`: how the encoder comes by what it says (transients, spreading,
time-frequency analysis, dynamic allocation, stereo).

Not modelled, and why:
- SILK and CELT signal processing (transforms, filters, pitch and vector searches,
  resampler, voice activity), content analysis, the soft clip and CPU detection are
  numerical: correct means equal to libopus, sample by sample, which the repository's
  tests compare.
- Of the encoder, the sample histories: resampler, CELT's delay line, what
  a prefill contains, the high-pass filter, the rates handed to SILK.
- Of multistream, how `set_bitrate` divides a rate, `streams_mut`, and the encoder's `reset_state`.
- Benches, fuzz targets and the comparisons with libopus are harnesses.

## 8. Plan

1. done: `OggWriter` (with `PacketLog`), `OggReader`, `Trim`/`Gapless`, `Parallel`,
   `Decoder`, `Framing`, `Repacketizer`; first proofs of `OggWriter`, `Trim`, `Gapless`,
   and the length codings.
2. done: `PacketPlan`/`Encoder`, `RangeCoder`/`EntropyCoding`, `BitStream` to `CeltFrame`,
   `SilkGains` to `SilkPacket`, `OpusHeaders`/`Multistream`, `SilkSynthesis`,
   `DelayedDecision`, `CeltHistory`.
3. done: proofs of the remaining properties of `OggWriter` with the refinement of
   `PacketLog`, of `Gapless` (`ComesBackExact`), and of `Parallel`, `Decoder`,
   `CeltHistory`, `SilkSynthesis`, `Encoder`, `Framing`, `Repacketizer`, `Multistream` and
   `DelayedDecision`.
4. Proofs left: `HeadersDescribeTheStream` of `Multistream`, for which the lookup of a comment
   would have to be written without `SelectSeq`.
