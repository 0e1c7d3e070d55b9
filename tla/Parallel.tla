------------------------------ MODULE Parallel ------------------------------
(***************************************************************************)
(* encode_parallel: a clip cut into contiguous ranges of frames, each      *)
(* encoded by a thread of its own from a fresh encoder, which is first     *)
(* primed with the frames just before its range.  The caller joins the     *)
(* threads in range order.                                                 *)
(*                                                                         *)
(* What an encoder makes of a frame depends on the frames it has had, so a *)
(* packet is its frame and the frame its encoder started from.  A frame    *)
(* may make the encoder fail, or panic.                                    *)
(***************************************************************************)
EXTENDS Integers, SequencesExt, FiniteSetsExt

CONSTANTS
  Totals,      \* frames a clip may have
  Requests,    \* threads a caller may ask for, or the machine has
  WarmupsMs,   \* ParallelConfig::warmup_ms
  FramesUs,    \* microseconds in a frame
  MaxFaults    \* bound: frames that fail or panic

ASSUME ParallelAssumption ==
  /\ Totals \subseteq Nat /\ Requests \subseteq Nat
  /\ WarmupsMs \subseteq Nat /\ FramesUs \subseteq Nat \ {0}
  /\ MaxFaults \in Nat

VARIABLES
  total,     \* whole frames in the clip
  requested, \* threads asked for
  warmupMs,  \* priming asked for
  frameUs,   \* length of a frame
  verdict,   \* what the encoder does with each frame: "ok", "err" or "panic"
  spawned,   \* threads started
  at,        \* the frame each thread encodes next
  packets,   \* the packets each thread has kept
  discarded, \* history: the packets each thread has thrown away
  status,    \* "running", then "ok", "err" or "panic"
  joined,    \* threads joined, in range order
  result     \* what the call returned, or "none" so far

input == <<total, requested, warmupMs, frameUs, verdict>>
parallelVars == <<input, spawned, at, packets, discarded, status, joined, result>>

(***************************************************************************)
(* ParallelConfig::warmup_frames and ParallelConfig::plan.                 *)
(***************************************************************************)
MinChunkWarmups == 4

CeilDiv(a, b)  == (a + b - 1) \div b
Least(a, b)    == IF a <= b THEN a ELSE b
Greatest(a, b) == IF a >= b THEN a ELSE b

WarmupFrames == CeilDiv(warmupMs * 1000, frameUs)

MinChunk == Greatest(WarmupFrames * MinChunkWarmups, 1)

Workers == Least(Greatest(requested, 1), Greatest(total \div MinChunk, 1))

Base == total \div Workers
Rem  == total % Workers

(* The range of worker w is First(w) .. First(w + 1) - 1: the first Rem    *)
(* workers have a frame more than the others.                              *)
First(w) == w * Base + Least(w, Rem)

WorkerIds == 0 .. Workers - 1

WarmStart(w) == Greatest(First(w) - WarmupFrames, 0)

RedundantFrames ==
  LET upTo[w \in 0 .. Workers] ==
        IF w = 0 THEN 0 ELSE upTo[w - 1] + Least(First(w - 1), WarmupFrames)
  IN upTo[Workers]

(***************************************************************************)
(* encode_chunk, frame by frame, on a thread of its own.  encode_serial is *)
(* the same loop over the whole clip on the caller's thread.               *)
(***************************************************************************)
Serial == Workers <= 1
Running(w) == w < spawned /\ status[w] = "running"

Encoded(w) == [frame |-> at[w], from |-> WarmStart(w)]

(* (Mutant: the packets of the warm-up are kept.)                          *)
EncodeFrameKeepingAll(w) ==
  /\ Running(w)
  /\ at[w] < First(w + 1)
  /\ at' = [at EXCEPT ![w] = @ + 1]
  /\ packets' = [packets EXCEPT ![w] = Append(@, Encoded(w))]
  /\ UNCHANGED <<input, spawned, discarded, status, joined, result>>

EncodeFrame(w) ==
  /\ Running(w)
  /\ at[w] < First(w + 1)
  /\ IF verdict[at[w]] = "ok"
     THEN /\ at' = [at EXCEPT ![w] = @ + 1]
          /\ IF at[w] >= First(w)
             THEN /\ packets' = [packets EXCEPT ![w] = Append(@, Encoded(w))]
                  /\ UNCHANGED discarded
             ELSE /\ discarded' = [discarded EXCEPT ![w] = @ + 1]
                  /\ UNCHANGED packets
          /\ UNCHANGED status
     ELSE /\ status' = [status EXCEPT ![w] = verdict[at[w]]]
          /\ UNCHANGED <<at, packets, discarded>>
  /\ UNCHANGED <<input, spawned, joined, result>>

ChunkDone(w) ==
  /\ Running(w)
  /\ at[w] = First(w + 1)
  /\ status' = [status EXCEPT ![w] = "ok"]
  /\ UNCHANGED <<input, spawned, at, packets, discarded, joined, result>>

(***************************************************************************)
(* The caller's thread.                                                    *)
(***************************************************************************)
Return(kind, out, frame) == result' = [kind |-> kind, out |-> out, frame |-> frame]

Spawn ==
  /\ spawned < Workers
  /\ spawned' = spawned + 1
  /\ UNCHANGED <<input, at, packets, discarded, status, joined, result>>

(* Every thread is spawned before the first is joined, and each is waited  *)
(* for in turn.  A panic is resumed, once the scope has seen every thread  *)
(* out.  (Mutant: only a thread that succeeds is ever seen out.)           *)
JoinOnlyIfOk ==
  /\ spawned = Workers /\ joined < Workers /\ result.kind = "none"
  /\ status[joined] = "ok"
  /\ joined' = joined + 1
  /\ UNCHANGED <<input, spawned, at, packets, discarded, status, result>>

Join ==
  /\ spawned = Workers /\ joined < Workers /\ result.kind = "none"
  /\ status[joined] # "running"
  /\ IF status[joined] = "panic"
     THEN /\ \A w \in WorkerIds : status[w] # "running"
          /\ Return("panic", <<>>, at[joined])
          /\ UNCHANGED joined
     ELSE joined' = joined + 1 /\ UNCHANGED result
  /\ UNCHANGED <<input, spawned, at, packets, discarded, status>>

(* The chunks are put together in range order; the first error is the      *)
(* call's.  (Mutant: a failed chunk is left out.)                          *)
Failed == {w \in WorkerIds : status[w] = "err"}

ConcatenateSkipping ==
  /\ joined = Workers /\ result.kind = "none"
  /\ Return("ok", FlattenSeq([w \in 1 .. Workers |-> packets[w - 1]]), 0)
  /\ UNCHANGED <<input, spawned, at, packets, discarded, status, joined>>

Concatenate ==
  /\ joined = Workers /\ result.kind = "none"
  /\ IF Failed = {}
     THEN Return("ok", FlattenSeq([w \in 1 .. Workers |-> packets[w - 1]]), 0)
     ELSE Return("err", <<>>, at[Min(Failed)])
  /\ UNCHANGED <<input, spawned, at, packets, discarded, status, joined>>

(***************************************************************************)
(* The specification.  Threads run; the caller's thread too.               *)
(***************************************************************************)
Verdicts(n) ==
  UNION {{[f \in 0 .. n - 1 |-> IF f \in bad THEN how[f] ELSE "ok"] :
            how \in [bad -> {"err", "panic"}]} :
          bad \in UNION {kSubset(k, 0 .. n - 1) : k \in 0 .. MaxFaults}}

ParallelInit ==
  /\ total \in Totals \ {0} /\ requested \in Requests
  /\ warmupMs \in WarmupsMs /\ frameUs \in FramesUs
  /\ verdict \in Verdicts(total)
  /\ spawned = IF Serial THEN 1 ELSE 0
  /\ at = [w \in WorkerIds |-> WarmStart(w)]
  /\ packets = [w \in WorkerIds |-> <<>>]
  /\ discarded = [w \in WorkerIds |-> 0]
  /\ status = [w \in WorkerIds |-> "running"]
  /\ joined = 0
  /\ result = [kind |-> "none", out |-> <<>>, frame |-> 0]

Thread(w) == EncodeFrame(w) \/ ChunkDone(w)
Caller == Spawn \/ Join \/ Concatenate

ParallelNext == (\E w \in WorkerIds : Thread(w)) \/ Caller

ParallelSpec ==
  /\ ParallelInit /\ [][ParallelNext]_parallelVars
  /\ WF_parallelVars(Caller) /\ WF_parallelVars(\E w \in WorkerIds : Thread(w))

(***************************************************************************)
(* Properties.                                                             *)
(***************************************************************************)
(* "Output is deterministic and always the same length as a serial         *)
(* encode": a successful call returns one packet per frame, in order,      *)
(* whichever thread ran first, each from an encoder that has had all the   *)
(* warm-up asked for, in time, or the clip from its start; and for all     *)
(* that "redundancy stays at or below a quarter of the useful work"        *)
(* (parallel.rs:68-70), each thread's of its chunk and all of the clip.    *)
OnePacketPerFrame ==
  /\ result.kind = "ok" =>
       /\ Len(result.out) = total
       /\ \A i \in 1 .. total :
            LET p == result.out[i]
            IN /\ p.frame = i - 1
               /\ p.from = 0 \/ (p.frame - p.from) * frameUs >= warmupMs * 1000
  /\ \A w \in WorkerIds :
        MinChunkWarmups * discarded[w] <= First(w + 1) - First(w)
  /\ MinChunkWarmups * RedundantFrames <= total

(* A gap is never a result: the call succeeds only when no frame fails,    *)
(* and an error is of the first frame of the clip that fails, whichever    *)
(* thread found its own first.                                             *)
FaultsAreReported ==
  LET bad == {f \in 0 .. total - 1 : verdict[f] # "ok"}
  IN /\ result.kind = "ok" => bad = {}
     /\ result.kind = "err" => /\ verdict[result.frame] = "err"
                               /\ result.frame = Min(bad)

(* Every call returns, faults or none.                                     *)
EveryCallReturns == <>(result.kind # "none")
=============================================================================
