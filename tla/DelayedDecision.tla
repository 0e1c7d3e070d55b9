--------------------------- MODULE DelayedDecision ---------------------------
(***************************************************************************)
(* SILK's noise-shaping quantizer with delayed decision (nsq_del_dec.rs):  *)
(* a few candidate quantizations of a frame are kept, each from a seed of  *)
(* its own, and a sample is decided only when later ones have been tried.  *)
(* The decoder knows one seed and the pulses, so what is decided, sample   *)
(* by sample, must be one candidate's.                                     *)
(*                                                                         *)
(* How good a candidate is is a choice: each offers two pulses a sample,   *)
(* the cheaper first, at any of a set of costs.  What a candidate has been *)
(* through (its seed and its pulses) stands for the random state that it   *)
(* is told apart by; that two of them agree in 32 bits by chance is left   *)
(* out.  A sample is known by the subframe whose gain it is scaled by.     *)
(***************************************************************************)
EXTENDS Integers, Sequences, FiniteSets

CONSTANTS
  Candidates,       \* n_states_delayed_decision
  BufferLength,     \* DECISION_DELAY
  SubframeSamples,  \* subfr_length
  FrameKinds,       \* frames: [lags, voiced, blends], one lag a subframe
  Costs             \* costs of a candidate's two pulses

Penalty  == 1000         \* i32::MAX >> 4

ASSUME CandidatesAssumption == Candidates \in 1 .. 4
ASSUME LengthsAssumption == {BufferLength, SubframeSamples} \subseteq Nat \ {0}
ASSUME FramesAssumption ==
  \A f \in FrameKinds :
    f.lags \in Seq(Nat) /\ Len(f.lags) \in {2, 4} /\ \A k \in DOMAIN f.lags : f.lags[k] > 3
ASSUME CostsAssumption ==
  Costs \subseteq Int \X Int /\ \A cost \in Costs : cost[1] <= cost[2]

(* Within a decision delay no costs of samples make up for a penalty: the  *)
(* code limits a residual to 31 (r_q10_signed), so that a sample costs     *)
(* less than 2^20, and 41 samples less than i32::MAX >> 4.                 *)
ASSUME PenaltyAssumption ==
  \E spread \in 0 .. Penalty :
    /\ (BufferLength + 1) * spread < Penalty
    /\ \A c, d \in Costs : c[1] - d[1] <= spread

VARIABLES
  frame,   \* the frame
  states,  \* per candidate: NSQDelDecStruct
  gains,   \* delayed_ga_q10
  slot,    \* smpl_buf_idx
  at,      \* the sample: [k: subframe, i: sample in it, nsq: subfr_nsq]
  out,     \* what is decided: [pulse, gain] in order
  scale,   \* s_ltp_q15: the gain each past sample is at; 0 if it holds none
  reads    \* history: the newest sample the last prediction was from, and
           \* the gains of all of them, other than its own

nsqVars == <<frame, states, gains, slot, at, out, scale, reads>>

Ids      == 1 .. Candidates
Slots    == 0 .. BufferLength - 1
Subframes == Len(frame.lags)
Undone   == [pulse |-> 0, rand |-> <<>>]

(* Op of a value that is worked out once.                                  *)
With(value, Op(_)) == CHOOSE r \in {Op(v) : v \in {value}} : TRUE

(* The first of the candidates that are least, or most, by a measure.      *)
FirstLeast(measure) ==
  CHOOSE k \in Ids : \A j \in Ids :
    measure[k] < measure[j] \/ (measure[k] = measure[j] /\ k <= j)
FirstMost(measure) ==
  CHOOSE k \in Ids : \A j \in Ids :
    measure[k] > measure[j] \/ (measure[k] = measure[j] /\ k <= j)

Rds == [k \in Ids |-> states[k].rd]
Winner == FirstLeast(Rds)

(* decision_delay: what a lag reads must be decided before.                *)
Least(s) == CHOOSE x \in s : \A y \in s : x <= y
Delay(f) == Least({BufferLength, SubframeSamples} \cup {f.lags[k] - 3 : k \in DOMAIN f.lags})

(* silk_nsq_del_dec, up to the first subframe.                             *)
Fresh(k) == [seed |-> k - 1, rd |-> 0, rand |-> <<k - 1>>, ring |-> [s \in Slots |-> Undone]]

(***************************************************************************)
(* A sample (silk_noise_shape_quantizer_del_dec).  Penalised: candidates   *)
(* that were through something else than the best one until the sample to  *)
(* be decided can no longer win.  (Mutant: they can.)                      *)
(***************************************************************************)
Offers(costs) ==
  [k \in Ids |-> [j \in 1 .. 2 |-> [rd |-> states[k].rd + costs[k][j], pulse |-> j - 1]]]

PenalisedNever(offers, last, winner) == offers
Penalised(offers, last, winner) ==
  [k \in Ids |->
     IF states[k].ring[last].rand = states[winner].ring[last].rand THEN offers[k]
     ELSE [j \in 1 .. 2 |-> [offers[k][j] EXCEPT !.rd = @ + Penalty]]]

(* The worst candidate makes way for the best second offer.                *)
Replaced(offers) ==
  LET worst == FirstMost([k \in Ids |-> offers[k][1].rd])
      best  == FirstLeast([k \in Ids |-> offers[k][2].rd])
  IN IF offers[best][2].rd < offers[worst][1].rd
     THEN [from |-> [states EXCEPT ![worst] = states[best]],
           taken |-> [k \in Ids |-> IF k = worst THEN offers[best][2] ELSE offers[k][1]]]
     ELSE [from |-> states, taken |-> [k \in Ids |-> offers[k][1]]]

(* What is taken becomes the candidate's newest sample.                    *)
Advanced(state, offer, to) ==
  LET rand == Append(state.rand, offer.pulse)
  IN [state EXCEPT !.rd = offer.rd, !.rand = rand,
                   !.ring = [@ EXCEPT ![to] = [pulse |-> offer.pulse, rand |-> rand]]]

(* Only differences of costs count.                                        *)
Levelled(all) ==
  LET base == all[FirstLeast([k \in Ids |-> all[k].rd])].rd
  IN [k \in Ids |-> [all[k] EXCEPT !.rd = @ - base]]

(* Who wins, and what becomes of the candidates.                           *)
Round(costs, to, last) ==
  With(Offers(costs), LAMBDA offers :
    With(FirstLeast([k \in Ids |-> offers[k][1].rd]), LAMBDA winner :
      With(With(Penalised(offers, last, winner), Replaced), LAMBDA next :
        [winner |-> next.from[winner],
         states |-> With([k \in Ids |-> Advanced(next.from[k], next.taken[k], to)], Levelled)])))

Decided(state, s) == [pulse |-> state.ring[s].pulse, gain |-> gains[s]]

(* smpl_buf_idx runs down.                                                 *)
Deciding(to) == (to + Delay(frame)) % BufferLength

(* What a voiced sample is predicted from: five taps around its lag.       *)
NotPredicted == [past |-> -1, gains |-> {}]
Predicted ==
  LET from == (at.k - 1) * SubframeSamples + at.i - frame.lags[at.k]
  IN [past |-> from + 2 - Len(out), gains |-> {scale[p] : p \in from - 2 .. from + 2} \ {at.k}]

Sample ==
  /\ at.k <= Subframes /\ at.i < SubframeSamples
  /\ LET to   == (slot - 1 + BufferLength) % BufferLength
         last == Deciding(to)
     IN \E costs \in [Ids -> Costs] : \E round \in {Round(costs, to, last)} :
          /\ slot' = to
          /\ out' = IF at.nsq > 0 \/ at.i >= Delay(frame)
                    THEN Append(out, Decided(round.winner, last)) ELSE out
          /\ states' = round.states
          /\ gains' = [gains EXCEPT ![to] = at.k]
  /\ reads' = IF frame.voiced THEN Predicted ELSE NotPredicted
  /\ scale' = [p \in DOMAIN scale |-> IF p = Len(out') - 1 /\ out' # out THEN at.k ELSE scale[p]]
  /\ at' = [at EXCEPT !.i = @ + 1]
  /\ UNCHANGED frame

(***************************************************************************)
(* The subframes (silk_nsq_del_dec).                                       *)
(***************************************************************************)
(* What the winner has not been decided on, oldest first, at a gain.       *)
Rest(gain) ==
  [j \in 1 .. Delay(frame) |->
     [pulse |-> states[Winner].ring[(slot + Delay(frame) - j) % BufferLength].pulse,
      gain |-> gain]]

(* With a new filter in the middle of a voiced frame, its past is decided  *)
(* first, and the others are out.                                          *)
FlushesAt(k) == frame.voiced /\ frame.blends /\ k = 3

(* silk_nsq_del_dec_scale_states: where prediction starts over, the past   *)
(* is filtered again; else what is decided of it is brought to the new     *)
(* gain (and, with the candidates, what is not).                           *)
ScaledAt(k, past) ==
  LET start == (k - 1) * SubframeSamples
      end   == IF k = 1 \/ FlushesAt(k) THEN start ELSE start - Delay(frame)
  IN [p \in DOMAIN past |->
        IF frame.voiced /\ p \in start - frame.lags[k] - 2 .. end - 1 THEN k ELSE past[p]]

OthersOut ==
  [k \in Ids |-> IF k = Winner THEN states[k] ELSE [states[k] EXCEPT !.rd = @ + Penalty]]

NextSubframe ==
  /\ at.k < Subframes /\ at.i = SubframeSamples
  /\ IF FlushesAt(at.k + 1)
     THEN /\ out' = out \o Rest(2)
          /\ states' = OthersOut
          /\ at' = [k |-> at.k + 1, i |-> 0, nsq |-> 0]
     ELSE /\ at' = [k |-> at.k + 1, i |-> 0, nsq |-> at.nsq + 1]
          /\ UNCHANGED <<out, states>>
  /\ scale' = ScaledAt(at.k + 1, scale)
  /\ reads' = NotPredicted
  /\ UNCHANGED <<frame, gains, slot>>

Over == at.k > Subframes

(* The end of the frame: the winner's seed goes into the packet.           *)
Finish ==
  /\ at.k = Subframes /\ at.i = SubframeSamples
  /\ out' = out \o Rest(Subframes)
  /\ at' = [at EXCEPT !.k = @ + 1]
  /\ reads' = NotPredicted
  /\ UNCHANGED <<frame, states, gains, slot, scale>>

(* How far back a lag reaches.                                             *)
Reach(f) == 2 + CHOOSE lag \in {f.lags[k] : k \in DOMAIN f.lags} :
                  \A k \in DOMAIN f.lags : f.lags[k] <= lag

NsqInit ==
  /\ frame \in FrameKinds
  /\ states = [k \in Ids |-> Fresh(k)]
  /\ gains = [s \in Slots |-> 0]
  /\ slot = 0
  /\ at = [k |-> 1, i |-> 0, nsq |-> 0]
  /\ out = <<>>
  /\ scale = ScaledAt(1, [p \in -Reach(frame) .. Subframes * SubframeSamples |-> 0])
  /\ reads = NotPredicted

NsqNext == Sample \/ NextSubframe \/ Finish
NsqSpec == NsqInit /\ [][NsqNext]_nsqVars

(***************************************************************************)
(* Properties.                                                             *)
(***************************************************************************)
(* What is decided is what the decoder will make: it is always how the     *)
(* candidate that would be chosen now began, each sample at the gain of    *)
(* its own subframe; and in the end, all of it.  And as long-term          *)
(* prediction reads what the decoder will: no sample that is not decided   *)
(* yet, nor one at the gain of another subframe, however the lag moves.    *)
DecidedAreOnePath ==
  /\ Over => Len(out) = Subframes * SubframeSamples
  /\ \A j \in DOMAIN out :
       /\ out[j].pulse = states[Winner].rand[j + 1]
       /\ out[j].gain = (j - 1) \div SubframeSamples + 1
  /\ reads.past < 0 /\ reads.gains = {}
=============================================================================
