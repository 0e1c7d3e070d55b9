--------------------------- MODULE ClipFile_proofs ---------------------------
(***************************************************************************)
(* How a clip becomes a file.  encode_parallel, for every clip, thread     *)
(* count, warm-up and frame length, every pattern of failing frames and    *)
(* every order the threads run in: what a successful call returns, and     *)
(* what a failed one reports.  The muxer, for every lacing limit, page     *)
(* limit, packet size and pattern of refused writes: its types, the        *)
(* numbering of its pages, the continuation flag, the end-of-stream page   *)
(* and the granules.                                                       *)
(***************************************************************************)
EXTENDS Parallel, OggWriter, SequenceFacts

(***************************************************************************)
(* The plan.                                                               *)
(***************************************************************************)
InputInv ==
  /\ total \in Nat \ {0} /\ requested \in Nat
  /\ warmupMs \in Nat /\ frameUs \in Nat \ {0}
  /\ verdict \in [0 .. total - 1 -> {"ok", "err", "panic"}]

LEMMA Division ==
  ASSUME NEW a \in Nat, NEW d \in Nat \ {0}
  PROVE  /\ a \div d \in Nat /\ a % d \in 0 .. d - 1
         /\ a = d * (a \div d) + (a % d)
  BY SMT

LEMMA Products ==
  ASSUME NEW a \in Nat, NEW b \in Nat, NEW c \in Nat, a <= b
  PROVE  /\ a * c \in Nat /\ a * c <= b * c /\ c * a <= c * b
         /\ (a + 1) * c = a * c + c
  BY SMT

(* The warm-up, in frames, is the least number that lasts as long.         *)
LEMMA WarmupFact ==
  ASSUME InputInv
  PROVE  WarmupFrames \in Nat /\ WarmupFrames * frameUs >= warmupMs * 1000
<1> DEFINE us == warmupMs * 1000
<1>1. us \in Nat /\ frameUs \in Nat \ {0}
  BY DEF InputInv
<1> HIDE DEF us
<1>2. us + frameUs - 1 \in Nat
  BY <1>1
<1>3. (us + frameUs - 1) \div frameUs \in Nat
  BY <1>1, <1>2, Division
<1>4. us + frameUs - 1 < frameUs * ((us + frameUs - 1) \div frameUs) + frameUs
  BY <1>1, <1>2, Division
<1>5. WarmupFrames = (us + frameUs - 1) \div frameUs
  BY DEF WarmupFrames, CeilDiv, us
<1>6. us < frameUs * WarmupFrames + 1
  BY <1>1, <1>3, <1>4, <1>5
<1> QED BY <1>1, <1>3, <1>5, <1>6 DEF us

(* There is a worker, and no more than there are chunks worth starting.    *)
LEMMA WorkersFact ==
  ASSUME InputInv
  PROVE  /\ Workers \in Nat \ {0} /\ MinChunk \in Nat \ {0}
         /\ Workers > 1 => Workers <= total \div MinChunk
<1>1. MinChunk \in Nat \ {0}
  BY WarmupFact DEF MinChunk, Greatest, MinChunkWarmups
<1>2. total \div MinChunk \in Nat
  BY <1>1, Division DEF InputInv
<1> QED BY <1>1, <1>2 DEF Workers, Least, Greatest, InputInv

LEMMA BaseFact ==
  ASSUME InputInv
  PROVE  /\ Base \in Nat /\ Rem \in 0 .. Workers - 1
         /\ total = Workers * Base + Rem
  BY WorkersFact, Division DEF Base, Rem, InputInv

(* Of several workers each has MinChunk frames at least.                   *)
LEMMA BaseIsLong ==
  ASSUME InputInv, Workers > 1
  PROVE  MinChunk <= Base
<1>1. /\ Workers \in Nat \ {0} /\ MinChunk \in Nat \ {0} /\ total \in Nat
      /\ Workers <= total \div MinChunk
  BY WorkersFact DEF InputInv
<1>2. MinChunk * (total \div MinChunk) <= total /\ total \div MinChunk \in Nat
  BY <1>1, Division
<1>3. MinChunk * Workers <= total
  BY <1>1, <1>2, Products
<1> SUFFICES ASSUME Base + 1 <= MinChunk PROVE FALSE
  BY <1>1, BaseFact
<1>4. Workers * (Base + 1) <= Workers * MinChunk
  BY <1>1, BaseFact, Products
<1>5. Workers * (Base + 1) = Workers * Base + Workers
  BY <1>1, BaseFact
<1> QED BY <1>1, <1>3, <1>4, <1>5, BaseFact

(* The ranges follow each other from the first frame to the last, none     *)
(* backwards, and what is encoded twice is at most a quarter of a range.   *)
LEMMA RangesFact ==
  ASSUME InputInv
  PROVE  /\ First(0) = 0 /\ First(Workers) = total
         /\ \A w \in 0 .. Workers : First(w) \in 0 .. total
         /\ \A v, w \in 0 .. Workers : v <= w => First(v) <= First(w)
         /\ \A w \in WorkerIds : First(w + 1) - First(w) \in {Base, Base + 1}
<1> USE BaseFact, WorkersFact
<1>1. First(0) = 0 /\ First(Workers) = total
  BY DEF First, Least
<1>2. ASSUME NEW v \in 0 .. Workers, NEW w \in 0 .. Workers, v <= w
      PROVE  First(v) \in Nat /\ First(v) <= First(w)
  <2>1. v * Base \in Nat /\ w * Base \in Nat /\ v * Base <= w * Base
    BY <1>2, Products
  <2> QED BY <1>2, <2>1 DEF First, Least
<1>3. ASSUME NEW w \in WorkerIds PROVE First(w + 1) - First(w) \in {Base, Base + 1}
  <2>1. w \in Nat /\ (w + 1) * Base = w * Base + Base /\ w * Base \in Nat
    BY Products DEF WorkerIds
  <2>4. Rem \in Nat /\ w \in Nat
    BY <2>1
  <2>2. Least(w + 1, Rem) - Least(w, Rem) \in {0, 1} /\ Least(w, Rem) \in Nat /\ Least(w + 1, Rem) \in Nat
    BY ONLY <2>4 DEF Least
  <2>3. First(w) = w * Base + Least(w, Rem) /\ First(w + 1) = w * Base + Base + Least(w + 1, Rem)
    BY <2>1 DEF First
  <2> QED BY <2>1, <2>2, <2>3
<1>4. ASSUME NEW w \in 0 .. Workers PROVE First(w) \in 0 .. total
  BY <1>1, <1>2
<1> QED BY <1>1, <1>2, <1>3, <1>4

LEMMA WarmStartFact ==
  ASSUME InputInv, NEW w \in WorkerIds
  PROVE  /\ First(w) \in Nat /\ First(w + 1) \in Nat /\ WarmStart(w) \in Nat
         /\ WarmStart(w) <= First(w) /\ First(w) <= First(w + 1) /\ First(w + 1) <= total
         /\ WarmStart(w) = 0 \/ First(w) - WarmStart(w) = WarmupFrames
         /\ MinChunkWarmups * (First(w) - WarmStart(w)) <= First(w + 1) - First(w)
<1>1. w \in 0 .. Workers /\ w + 1 \in 0 .. Workers /\ Workers \in Nat \ {0}
  BY WorkersFact DEF WorkerIds
<1>2. /\ First(w) \in 0 .. total /\ First(w + 1) \in 0 .. total /\ First(w) <= First(w + 1)
      /\ total \in Nat
  BY <1>1, RangesFact DEF InputInv
<1>3. /\ WarmStart(w) \in Nat /\ WarmStart(w) <= First(w)
      /\ WarmStart(w) = 0 \/ First(w) - WarmStart(w) = WarmupFrames
      /\ First(w) - WarmStart(w) <= WarmupFrames
  BY <1>2, WarmupFact DEF WarmStart, Greatest
<1>4. CASE Workers = 1
  <2>1. w = 0 /\ First(w) = 0
    BY <1>4, RangesFact DEF WorkerIds
  <2> QED BY <1>2, <1>3, <2>1 DEF MinChunkWarmups
<1>5. CASE Workers > 1
  <2>1. MinChunkWarmups * WarmupFrames <= MinChunk
    BY WarmupFact DEF MinChunk, Greatest, MinChunkWarmups
  <2>2. MinChunk <= First(w + 1) - First(w)
    BY <1>2, <1>5, BaseFact, BaseIsLong, RangesFact, WorkersFact
  <2> QED BY <1>2, <1>3, <2>1, <2>2, WarmupFact, WorkersFact DEF MinChunkWarmups
<1> QED BY <1>1, <1>2, <1>3, <1>4, <1>5

(* Every frame is in some worker's range.                                  *)
LEMMA EveryFrameHasAWorker ==
  ASSUME InputInv, NEW f \in 0 .. total - 1
  PROVE  \E w \in WorkerIds : First(w) <= f /\ f < First(w + 1)
<1> DEFINE Past == {w \in Nat : w <= Workers /\ f < First(w)}
<1>1. Workers \in Nat \ {0} /\ total \in Nat \ {0}
  BY WorkersFact DEF InputInv
<1>2. \A w \in 0 .. Workers : First(w) \in 0 .. total
  BY RangesFact
<1>3. Workers \in Past
  BY <1>1, RangesFact
<1>4. PICK w \in Past : \A v \in Past : w <= v
  BY <1>3, LeastNumber
<1>5. w # 0 /\ w \in 1 .. Workers
  BY <1>1, <1>4, RangesFact
<1>6. w - 1 \in WorkerIds /\ w - 1 \notin Past /\ w - 1 \in Nat /\ w - 1 <= Workers
  BY <1>1, <1>4, <1>5 DEF WorkerIds
<1>7. First(w - 1) <= f
  BY <1>2, <1>6, <1>1
<1>8. (w - 1) + 1 = w
  BY <1>5
<1> QED BY <1>4, <1>6, <1>7, <1>8

(***************************************************************************)
(* What is encoded twice, of the whole clip: no more than a warm-up for    *)
(* each worker, and so no more than a quarter of what there is to do.      *)
(***************************************************************************)
LEMMA RedundantUnfolds ==
  ASSUME InputInv
  PROVE  \E f : /\ f[0] = 0
                /\ \A w \in 1 .. Workers : f[w] = f[w - 1] + Least(First(w - 1), WarmupFrames)
                /\ RedundantFrames = f[Workers]
<1> DEFINE Sums(f, n) ==
             f = [w \in 0 .. n |-> IF w = 0 THEN 0
                                   ELSE f[w - 1] + Least(First(w - 1), WarmupFrames)]
           T == {n \in Nat : \E j : Sums(j, n)}
<1>1. 0 \in T
  <2> DEFINE g == [w \in 0 .. 0 |-> 0]
  <2>1. Sums(g, 0)
    OBVIOUS
  <2> HIDE DEF g, Sums
  <2> QED BY <2>1
<1>2. ASSUME NEW n \in Nat, n \in T PROVE n + 1 \in T
  <2>1. PICK f : Sums(f, n)
    BY <1>2
  <2> DEFINE g == [w \in 0 .. n + 1 |->
                     IF w <= n THEN f[w] ELSE f[n] + Least(First(n), WarmupFrames)]
  <2>2. \A w \in 0 .. n : f[w] = IF w = 0 THEN 0
                                 ELSE f[w - 1] + Least(First(w - 1), WarmupFrames)
    BY <2>1
  <2>3. ASSUME NEW w \in 0 .. n + 1
        PROVE  g[w] = IF w = 0 THEN 0 ELSE g[w - 1] + Least(First(w - 1), WarmupFrames)
    <3>1. CASE w <= n
      BY <2>2, <3>1
    <3>2. CASE w = n + 1
      <4>1. w - 1 = n /\ w # 0
        BY <3>2
      <4> QED BY <3>2, <4>1
    <3> QED BY <3>1, <3>2
  <2>4. Sums(g, n + 1)
    BY <2>3
  <2> HIDE DEF g
  <2>5. \E j : Sums(j, n + 1)
    BY <2>4
  <2> HIDE DEF Sums
  <2> QED BY <2>5
<1>3. PICK h : Sums(h, Workers)
  <2> HIDE DEF T
  <2>1. Workers \in T
    BY <1>1, <1>2, Induction, WorkersFact
  <2> QED BY <2>1 DEF T
<1> DEFINE f == CHOOSE g : Sums(g, Workers)
<1>4. Sums(f, Workers)
  BY <1>3
<1>5. RedundantFrames = f[Workers]
  BY DEF RedundantFrames
<1>6. f[0] = 0 /\ \A w \in 1 .. Workers : f[w] = f[w - 1] + Least(First(w - 1), WarmupFrames)
  <2> HIDE DEF f
  <2>1. \A w \in 0 .. Workers : f[w] = IF w = 0 THEN 0
                                       ELSE f[w - 1] + Least(First(w - 1), WarmupFrames)
    BY <1>4
  <2> HIDE DEF Sums
  <2>2. Workers \in Nat
    BY WorkersFact
  <2>3. f[0] = 0
    BY <2>1, <2>2
  <2> QED BY <2>1, <2>2, <2>3
<1> QED BY <1>5, <1>6

LEMMA RedundancyFact ==
  ASSUME InputInv
  PROVE  MinChunkWarmups * RedundantFrames <= total
<1>1. Workers \in Nat \ {0} /\ WarmupFrames \in Nat /\ total \in Nat
  BY WorkersFact, WarmupFact DEF InputInv
<1>2. PICK f : /\ f[0] = 0
               /\ \A w \in 1 .. Workers : f[w] = f[w - 1] + Least(First(w - 1), WarmupFrames)
               /\ RedundantFrames = f[Workers]
  BY RedundantUnfolds
<1> DEFINE T == {n \in Nat : n <= Workers => f[n] \in Nat /\ f[n] <= n * WarmupFrames}
<1>3. 0 \in T
  BY <1>1, <1>2
<1>4. ASSUME NEW n \in Nat, n \in T PROVE n + 1 \in T
  <2> SUFFICES ASSUME n + 1 <= Workers
               PROVE  f[n + 1] \in Nat /\ f[n + 1] <= (n + 1) * WarmupFrames
    OBVIOUS
  <2>1. f[n] \in Nat /\ f[n] <= n * WarmupFrames
    BY <1>1, <1>4
  <2>2. n + 1 \in 1 .. Workers /\ (n + 1) - 1 = n
    BY <1>1
  <2>3. f[n + 1] = f[n] + Least(First(n), WarmupFrames)
    BY <1>2, <2>2
  <2>4. First(n) \in Nat
    BY <1>1, <2>2, RangesFact
  <2>5. Least(First(n), WarmupFrames) \in Nat /\ Least(First(n), WarmupFrames) <= WarmupFrames
    BY <1>1, <2>4 DEF Least
  <2>6. (n + 1) * WarmupFrames = n * WarmupFrames + WarmupFrames /\ n * WarmupFrames \in Nat
    BY <1>1, Products
  <2> QED BY <1>1, <2>1, <2>3, <2>5, <2>6
<1>5. Workers \in T
  <2> HIDE DEF T
  <2> QED BY <1>1, <1>3, <1>4, Induction
<1>6. RedundantFrames \in Nat /\ RedundantFrames <= Workers * WarmupFrames
  BY <1>1, <1>2, <1>5
<1>7. CASE Workers = 1
  <2>1. 1 - 1 = 0 /\ 1 \in 1 .. Workers
    BY <1>7
  <2>2. f[1] = f[0] + Least(First(0), WarmupFrames)
    BY <1>2, <2>1
  <2>3. RedundantFrames = 0
    BY <1>1, <1>2, <1>7, <2>2, RangesFact DEF Least
  <2> QED BY <1>1, <2>3 DEF MinChunkWarmups
<1>8. CASE Workers > 1
  <2>1. 4 * WarmupFrames <= Base /\ Base \in Nat /\ 4 * WarmupFrames \in Nat
    BY <1>1, <1>8, BaseFact, BaseIsLong DEF MinChunk, Greatest, MinChunkWarmups
  <2>2. Workers * (4 * WarmupFrames) <= Workers * Base
    BY <1>1, <2>1, Products
  <2>3. Workers * (4 * WarmupFrames) = 4 * (Workers * WarmupFrames)
    BY <1>1
  <2>4. Workers * Base <= total
    BY <1>1, BaseFact
  <2>5. Workers * WarmupFrames \in Nat /\ Workers * Base \in Nat
    BY <1>1, <2>1
  <2> QED BY <1>1, <1>6, <2>2, <2>3, <2>4, <2>5 DEF MinChunkWarmups
<1> QED BY <1>1, <1>7, <1>8

(***************************************************************************)
(* The threads.  A thread has encoded the frames from its warm-up's start  *)
(* up to `at', all of which went well; it has thrown away what it made     *)
(* before its range and kept, in order, what it made in it; and where it   *)
(* stopped short, it stopped at a frame that failed as it says.            *)
(***************************************************************************)
PacketType == [frame: Int, from: Int]

ThreadsTyped ==
  /\ spawned \in 0 .. Workers /\ joined \in 0 .. Workers
  /\ at \in [WorkerIds -> Int] /\ discarded \in [WorkerIds -> Int]
  /\ packets \in [WorkerIds -> Seq(PacketType)]
  /\ status \in [WorkerIds -> {"running", "ok", "err", "panic"}]

(* How far, and that all went well so far.                                 *)
Advanced(w) ==
  /\ WarmStart(w) <= at[w] /\ at[w] <= First(w + 1)
  /\ \A f \in 0 .. total - 1 : WarmStart(w) <= f /\ f < at[w] => verdict[f] = "ok"

(* How it ended.                                                           *)
Ended(w) ==
  /\ status[w] = "ok" => at[w] = First(w + 1)
  /\ status[w] \in {"err", "panic"} => at[w] < First(w + 1) /\ verdict[at[w]] = status[w]

(* What it kept and what it threw away.                                    *)
KeptInOrder(w) ==
  /\ Len(packets[w]) = Greatest(at[w] - First(w), 0)
  /\ \A k \in 1 .. Len(packets[w]) :
        packets[w][k] = [frame |-> First(w) + k - 1, from |-> WarmStart(w)]
  /\ discarded[w] = Least(at[w], First(w)) - WarmStart(w)

ThreadsInv == \A w \in WorkerIds : Advanced(w) /\ Ended(w) /\ KeptInOrder(w)

(* Who has been joined is done, and did not panic; and what is returned    *)
(* once everyone has been joined is put together from all of them.         *)
JoinedInv == \A w \in WorkerIds : w < joined => status[w] \in {"ok", "err"}

ResultInv ==
  /\ result.kind \in {"none", "ok", "err", "panic"}
  /\ result.kind \in {"ok", "err"} => joined = Workers
  /\ result.kind = "ok" =>
        /\ Failed = {}
        /\ result.out = FlattenSeq([w \in 1 .. Workers |-> packets[w - 1]])
  /\ result.kind = "err" => Failed # {} /\ result.frame = at[Min(Failed)]

ParallelInv == InputInv /\ ThreadsTyped /\ ThreadsInv /\ JoinedInv /\ ResultInv

LEMMA VerdictFact ==
  ASSUME NEW n \in Nat, NEW v \in Verdicts(n)
  PROVE  v \in [0 .. n - 1 -> {"ok", "err", "panic"}]
<1>1. PICK bad \in UNION {kSubset(k, 0 .. n - 1) : k \in 0 .. MaxFaults} :
         \E how \in [bad -> {"err", "panic"}] :
           v = [f \in 0 .. n - 1 |-> IF f \in bad THEN how[f] ELSE "ok"]
  BY DEF Verdicts
<1>2. PICK how \in [bad -> {"err", "panic"}] :
         v = [f \in 0 .. n - 1 |-> IF f \in bad THEN how[f] ELSE "ok"]
  BY <1>1
<1> QED BY <1>2

LEMMA InitParallel == ParallelInit => ParallelInv
<1> SUFFICES ASSUME ParallelInit PROVE ParallelInv
  OBVIOUS
<1>1. InputInv
  BY ParallelAssumption, VerdictFact DEF ParallelInit, InputInv
<1>2. Workers \in Nat \ {0}
  BY <1>1, WorkersFact
<1>3. ASSUME NEW w \in WorkerIds PROVE WarmStart(w) \in Int
  BY <1>1, WarmStartFact
<1>4. ThreadsTyped
  BY <1>2, <1>3 DEF ParallelInit, ThreadsTyped, Serial
<1>5. ASSUME NEW w \in WorkerIds PROVE Advanced(w) /\ Ended(w) /\ KeptInOrder(w)
  <2>1. /\ at[w] = WarmStart(w) /\ status[w] = "running"
        /\ packets[w] = <<>> /\ discarded[w] = 0
    BY DEF ParallelInit
  <2> QED BY <1>1, <2>1, WarmStartFact DEF Advanced, Ended, KeptInOrder, Least, Greatest
<1>6. JoinedInv /\ ResultInv
  BY <1>2 DEF ParallelInit, JoinedInv, ResultInv, WorkerIds
<1> QED BY <1>1, <1>4, <1>5, <1>6 DEF ParallelInv, ThreadsInv

(* The plan is made once.                                                  *)
LEMMA SamePlan ==
  ASSUME UNCHANGED input
  PROVE  /\ Workers' = Workers /\ WorkerIds' = WorkerIds /\ (InputInv' <=> InputInv)
         /\ verdict' = verdict /\ total' = total
         /\ \A w \in Int : First(w)' = First(w) /\ WarmStart(w)' = WarmStart(w)
BY DEF input, InputInv, Workers, WorkerIds, First, WarmStart, WarmupFrames, Base, Rem, MinChunk

(* A step of one thread leaves what is said of another.                    *)
LEMMA OtherThreads ==
  ASSUME UNCHANGED input, NEW w \in WorkerIds,
         at'[w] = at[w], status'[w] = status[w], packets'[w] = packets[w],
         discarded'[w] = discarded[w], Advanced(w), Ended(w), KeptInOrder(w), InputInv
  PROVE  Advanced(w)' /\ Ended(w)' /\ KeptInOrder(w)'
<1>1. w \in Int /\ w + 1 \in Int
  BY WorkersFact DEF WorkerIds
<1>2. /\ First(w)' = First(w) /\ First(w + 1)' = First(w + 1) /\ WarmStart(w)' = WarmStart(w)
      /\ verdict' = verdict /\ total' = total
  BY <1>1, SamePlan
<1>3. Advanced(w)'
  BY <1>2 DEF Advanced
<1>4. Ended(w)'
  BY <1>2 DEF Ended
<1>5. KeptInOrder(w)'
  BY <1>2 DEF KeptInOrder
<1> QED BY <1>3, <1>4, <1>5

(* While a thread is running nobody has been told how the call ended.      *)
LEMMA NotYetOver ==
  ASSUME ParallelInv, NEW w \in WorkerIds, Running(w)
  PROVE  w >= joined /\ result.kind \notin {"ok", "err"}
<1>1. w >= joined
  BY DEF ParallelInv, JoinedInv, Running, ThreadsTyped, WorkerIds
<1> QED BY <1>1, WorkersFact DEF ParallelInv, ResultInv, WorkerIds

(* A thread's step that leaves the caller and the other threads alone, and *)
(* keeps what is said of it, keeps the invariant.                          *)
LEMMA ThreadKeeps ==
  ASSUME ParallelInv, NEW w \in WorkerIds, Running(w),
         UNCHANGED <<input, spawned, joined, result>>,
         ThreadsTyped',
         \A v \in WorkerIds : v # w => /\ at'[v] = at[v] /\ status'[v] = status[v]
                                      /\ packets'[v] = packets[v]
                                      /\ discarded'[v] = discarded[v],
         Advanced(w)' /\ Ended(w)' /\ KeptInOrder(w)'
  PROVE  ParallelInv'
<1>1. UNCHANGED input /\ InputInv /\ WorkerIds' = WorkerIds
  BY SamePlan DEF ParallelInv
<1>2. InputInv'
  BY <1>1, SamePlan
<1>3. ASSUME NEW v \in WorkerIds PROVE Advanced(v)' /\ Ended(v)' /\ KeptInOrder(v)'
  <2>1. Advanced(v) /\ Ended(v) /\ KeptInOrder(v)
    BY DEF ParallelInv, ThreadsInv
  <2> QED BY <1>1, <2>1, OtherThreads
<1>4. ThreadsInv'
  BY <1>1, <1>3 DEF ThreadsInv
<1>5. JoinedInv'
  <2>1. ASSUME NEW v \in WorkerIds, v < joined PROVE status'[v] \in {"ok", "err"}
    <3>1. v # w
      BY <2>1, NotYetOver DEF ParallelInv, ThreadsTyped, WorkerIds
    <3> QED BY <2>1, <3>1 DEF ParallelInv, JoinedInv
  <2> QED BY <1>1, <2>1 DEF JoinedInv
<1>6. ResultInv'
  BY NotYetOver DEF ParallelInv, ResultInv
<1> QED BY <1>2, <1>4, <1>5, <1>6 DEF ParallelInv

LEMMA EncodeFrameKeeps ==
  ASSUME ParallelInv, NEW w \in WorkerIds, EncodeFrame(w)
  PROVE  ParallelInv'
<1> USE DEF EncodeFrame
<1>1. /\ InputInv /\ ThreadsTyped /\ Advanced(w) /\ Ended(w) /\ KeptInOrder(w)
      /\ UNCHANGED input /\ Running(w) /\ status[w] = "running"
  BY DEF ParallelInv, ThreadsInv, Running
<1>2. /\ Workers' = Workers /\ WorkerIds' = WorkerIds /\ verdict' = verdict /\ total' = total
      /\ First(w)' = First(w) /\ First(w + 1)' = First(w + 1) /\ WarmStart(w)' = WarmStart(w)
  BY <1>1, SamePlan, WorkersFact DEF WorkerIds
<1>3. /\ First(w) \in Nat /\ First(w + 1) \in Nat /\ WarmStart(w) \in Nat
      /\ WarmStart(w) <= First(w) /\ First(w) <= First(w + 1) /\ First(w + 1) <= total
  BY <1>1, WarmStartFact
<1>4. at[w] \in Nat /\ at[w] \in 0 .. total - 1
  BY <1>1, <1>3 DEF Advanced, ThreadsTyped, InputInv
<1>5. \A v \in WorkerIds : v # w => /\ at'[v] = at[v] /\ status'[v] = status[v]
                                   /\ packets'[v] = packets[v] /\ discarded'[v] = discarded[v]
  BY <1>1 DEF ThreadsTyped
<1>6. verdict[at[w]] \in {"ok", "err", "panic"}
  BY <1>1, <1>4 DEF InputInv
<1>7. CASE verdict[at[w]] = "ok" /\ at[w] >= First(w)
  <2>1. /\ at' = [at EXCEPT ![w] = @ + 1]
        /\ packets' = [packets EXCEPT ![w] = Append(@, Encoded(w))]
        /\ UNCHANGED <<discarded, status>>
    BY <1>7
  <2>2. Encoded(w) \in PacketType
    BY <1>3, <1>4 DEF Encoded, PacketType
  <2>3. ThreadsTyped'
    BY <1>1, <1>2, <1>4, <2>1, <2>2 DEF ThreadsTyped
  <2>4. at'[w] = at[w] + 1 /\ packets'[w] = Append(packets[w], Encoded(w))
    BY <1>1, <2>1 DEF ThreadsTyped
  <2>5. Advanced(w)'
    BY <1>1, <1>2, <1>3, <1>4, <1>7, <2>4 DEF Advanced
  <2>6. Ended(w)'
    BY <1>1, <2>1 DEF Ended
  <2>7. packets[w] \in Seq(PacketType) /\ Len(packets[w]) = at[w] - First(w)
    BY <1>1, <1>3, <1>4, <1>7 DEF ThreadsTyped, KeptInOrder, Greatest
  <2>8. Len(packets'[w]) = at'[w] - First(w)
    BY <1>3, <1>4, <2>2, <2>4, <2>7
  <2>9. ASSUME NEW k \in 1 .. Len(packets'[w])
        PROVE  packets'[w][k] = [frame |-> First(w) + k - 1, from |-> WarmStart(w)]
    <3>1. CASE k <= Len(packets[w])
      <4>1. packets'[w][k] = packets[w][k]
        BY <2>2, <2>4, <2>7, <3>1
      <4> QED BY <1>1, <2>7, <3>1, <4>1 DEF KeptInOrder
    <3>2. CASE k = Len(packets[w]) + 1
      <4>1. packets'[w][k] = Encoded(w) /\ First(w) + k - 1 = at[w]
        BY <1>3, <1>4, <2>2, <2>4, <2>7, <3>2, SMTT(30)
      <4> QED BY <4>1 DEF Encoded
    <3>3. Len(packets'[w]) = Len(packets[w]) + 1 /\ Len(packets[w]) \in Nat
      BY <2>2, <2>4, <2>7
    <3>4. k <= Len(packets[w]) \/ k = Len(packets[w]) + 1
      BY <3>3
    <3> QED BY <3>1, <3>2, <3>4
  <2>10. KeptInOrder(w)'
    <3>1. discarded'[w] = Least(at'[w], First(w)) - WarmStart(w)
      BY <1>1, <1>3, <1>4, <1>7, <2>1, <2>4 DEF KeptInOrder, Least
    <3> QED BY <1>2, <1>3, <1>4, <1>7, <2>4, <2>8, <2>9, <3>1, SMTT(30) DEF KeptInOrder, Greatest
  <2> QED BY <1>1, <1>5, <2>3, <2>5, <2>6, <2>10, ThreadKeeps
<1>8. CASE verdict[at[w]] = "ok" /\ at[w] < First(w)
  <2>1. /\ at' = [at EXCEPT ![w] = @ + 1]
        /\ discarded' = [discarded EXCEPT ![w] = @ + 1]
        /\ UNCHANGED <<packets, status>>
    BY <1>3, <1>4, <1>8
  <2>2. ThreadsTyped'
    BY <1>1, <1>2, <1>4, <2>1 DEF ThreadsTyped
  <2>3. at'[w] = at[w] + 1 /\ discarded'[w] = discarded[w] + 1
    BY <1>1, <2>1 DEF ThreadsTyped
  <2>4. Advanced(w)'
    BY <1>1, <1>2, <1>3, <1>4, <1>8, <2>3 DEF Advanced
  <2>5. Ended(w)'
    BY <1>1, <2>1 DEF Ended
  <2>6. Len(packets[w]) = 0 /\ packets' = packets
    BY <1>1, <1>3, <1>4, <1>8, <2>1 DEF KeptInOrder, Greatest
  <2>7. KeptInOrder(w)'
    <3>1. discarded'[w] = Least(at'[w], First(w)) - WarmStart(w)
      BY <1>1, <1>3, <1>4, <1>8, <2>3 DEF KeptInOrder, Least
    <3>2. Greatest(at'[w] - First(w), 0) = 0
      BY <1>3, <1>4, <1>8, <2>3 DEF Greatest
    <3> QED BY <1>2, <2>6, <3>1, <3>2 DEF KeptInOrder
  <2> QED BY <1>1, <1>5, <2>2, <2>4, <2>5, <2>7, ThreadKeeps
<1>9. CASE verdict[at[w]] # "ok"
  <2>1. status' = [status EXCEPT ![w] = verdict[at[w]]] /\ UNCHANGED <<at, packets, discarded>>
    BY <1>9
  <2>2. ThreadsTyped'
    BY <1>1, <1>2, <1>6, <2>1 DEF ThreadsTyped
  <2>3. Advanced(w)' /\ KeptInOrder(w)'
    BY <1>1, <1>2, <2>1 DEF Advanced, KeptInOrder
  <2>4. status'[w] = verdict[at[w]]
    BY <1>1, <2>1 DEF ThreadsTyped
  <2>5. Ended(w)'
    BY <1>2, <1>9, <2>1, <2>4 DEF Ended
  <2> QED BY <1>1, <1>5, <2>2, <2>3, <2>5, ThreadKeeps
<1> QED BY <1>3, <1>4, <1>7, <1>8, <1>9

LEMMA ChunkDoneKeeps ==
  ASSUME ParallelInv, NEW w \in WorkerIds, ChunkDone(w)
  PROVE  ParallelInv'
<1> USE DEF ChunkDone
<1>1. /\ InputInv /\ ThreadsTyped /\ Advanced(w) /\ KeptInOrder(w)
      /\ UNCHANGED input /\ Running(w)
  BY DEF ParallelInv, ThreadsInv
<1>2. /\ Workers' = Workers /\ WorkerIds' = WorkerIds /\ verdict' = verdict /\ total' = total
      /\ First(w)' = First(w) /\ First(w + 1)' = First(w + 1) /\ WarmStart(w)' = WarmStart(w)
  BY <1>1, SamePlan, WorkersFact DEF WorkerIds
<1>3. ThreadsTyped' /\ status'[w] = "ok"
  BY <1>1, <1>2 DEF ThreadsTyped
<1>4. Advanced(w)' /\ KeptInOrder(w)'
  BY <1>1, <1>2 DEF Advanced, KeptInOrder
<1>5. Ended(w)'
  BY <1>2, <1>3 DEF Ended
<1>6. \A v \in WorkerIds : v # w => /\ at'[v] = at[v] /\ status'[v] = status[v]
                                   /\ packets'[v] = packets[v] /\ discarded'[v] = discarded[v]
  BY <1>1 DEF ThreadsTyped
<1> QED BY <1>1, <1>3, <1>4, <1>5, <1>6, ThreadKeeps

(* A step of the caller that keeps its own part keeps the invariant.       *)
LEMMA CallerKeeps ==
  ASSUME ParallelInv, UNCHANGED <<input, at, packets, discarded, status>>,
         spawned' \in 0 .. Workers, joined' \in 0 .. Workers,
         JoinedInv', ResultInv'
  PROVE  ParallelInv'
<1>1. UNCHANGED input /\ InputInv /\ Workers' = Workers /\ WorkerIds' = WorkerIds
  BY SamePlan DEF ParallelInv
<1>2. InputInv'
  BY <1>1, SamePlan
<1>3. ThreadsTyped'
  BY <1>1 DEF ParallelInv, ThreadsTyped
<1>4. ASSUME NEW w \in WorkerIds PROVE Advanced(w)' /\ Ended(w)' /\ KeptInOrder(w)'
  BY <1>1, OtherThreads DEF ParallelInv, ThreadsInv
<1>5. ThreadsInv'
  BY <1>1, <1>4 DEF ThreadsInv
<1> QED BY <1>2, <1>3, <1>5 DEF ParallelInv

LEMMA SpawnKeeps ==
  ASSUME ParallelInv, Spawn
  PROVE  ParallelInv'
<1>1. UNCHANGED input /\ Workers' = Workers /\ WorkerIds' = WorkerIds /\ Workers \in Nat
  BY SamePlan, WorkersFact DEF ParallelInv, Spawn
<1>2. JoinedInv' /\ ResultInv'
  BY <1>1 DEF ParallelInv, JoinedInv, ResultInv, Spawn, Failed
<1> QED BY <1>1, <1>2, CallerKeeps DEF Spawn, ParallelInv, ThreadsTyped

LEMMA JoinKeeps ==
  ASSUME ParallelInv, Join
  PROVE  ParallelInv'
<1> USE DEF Join
<1>1. UNCHANGED input /\ Workers' = Workers /\ WorkerIds' = WorkerIds /\ Workers \in Nat \ {0}
  BY SamePlan, WorkersFact DEF ParallelInv
<1>2. joined \in WorkerIds /\ status[joined] \in {"ok", "err", "panic"}
  BY <1>1 DEF ParallelInv, ThreadsTyped, WorkerIds
<1>3. CASE status[joined] = "panic"
  <2>1. joined' = joined /\ result'.kind = "panic"
    BY <1>3 DEF Return
  <2>2. JoinedInv' /\ ResultInv'
    BY <1>1, <2>1 DEF ParallelInv, JoinedInv, ResultInv
  <2> QED BY <1>1, <2>1, <2>2, CallerKeeps DEF ParallelInv, ThreadsTyped
<1>4. CASE status[joined] # "panic"
  <2>1. joined' = joined + 1 /\ result' = result /\ result.kind = "none"
    BY <1>4
  <2>2. ASSUME NEW w \in WorkerIds, w < joined' PROVE status[w] \in {"ok", "err"}
    <3>1. w < joined \/ w = joined
      BY <1>2, <2>1, <2>2 DEF WorkerIds
    <3> QED BY <1>2, <1>4, <3>1 DEF ParallelInv, JoinedInv
  <2>3. JoinedInv' /\ ResultInv'
    BY <1>1, <2>1, <2>2 DEF JoinedInv, ResultInv
  <2> QED BY <1>1, <1>2, <2>1, <2>3, CallerKeeps DEF ParallelInv, ThreadsTyped, WorkerIds
<1> QED BY <1>3, <1>4

LEMMA ConcatenateKeeps ==
  ASSUME ParallelInv, Concatenate
  PROVE  ParallelInv'
<1> USE DEF Concatenate
<1>1. UNCHANGED input /\ Workers' = Workers /\ WorkerIds' = WorkerIds
  BY SamePlan DEF ParallelInv
<1>2. JoinedInv'
  BY <1>1 DEF ParallelInv, JoinedInv
<1>3. Failed' = Failed
  BY <1>1 DEF Failed
<1>4. ResultInv'
  <2>1. CASE Failed = {}
    BY <1>1, <1>3, <2>1 DEF ResultInv, Return
  <2>2. CASE Failed # {}
    BY <1>1, <1>3, <2>2 DEF ResultInv, Return
  <2> QED BY <2>1, <2>2
<1> QED BY <1>1, <1>2, <1>4, CallerKeeps DEF ParallelInv, ThreadsTyped

LEMMA ParallelStep == ParallelInv /\ [ParallelNext]_parallelVars => ParallelInv'
<1> SUFFICES ASSUME ParallelInv, [ParallelNext]_parallelVars PROVE ParallelInv'
  OBVIOUS
<1>1. ASSUME NEW w \in WorkerIds, Thread(w) PROVE ParallelInv'
  BY <1>1, EncodeFrameKeeps, ChunkDoneKeeps DEF Thread
<1>2. CASE Caller
  BY <1>2, SpawnKeeps, JoinKeeps, ConcatenateKeeps DEF Caller
<1>3. CASE UNCHANGED parallelVars
  <2>1. UNCHANGED input /\ WorkerIds' = WorkerIds /\ Workers' = Workers
    BY <1>3, SamePlan DEF parallelVars
  <2>2. JoinedInv' /\ ResultInv'
    BY <1>3, <2>1 DEF ParallelInv, JoinedInv, ResultInv, parallelVars, Failed
  <2> QED BY <1>3, <2>1, <2>2, CallerKeeps DEF parallelVars, ParallelInv, ThreadsTyped
<1> QED BY <1>1, <1>2, <1>3 DEF ParallelNext

LEMMA ParallelInvariance == ParallelSpec => []ParallelInv
BY InitParallel, ParallelStep, PTL DEF ParallelSpec

(***************************************************************************)
(* What is returned.                                                       *)
(***************************************************************************)
(* When all threads went well, what they kept, joined, is a packet for     *)
(* every frame up to the end of each range, in order, each from an encoder *)
(* primed as asked.                                                        *)
Primed(p) == p.from = 0 \/ (p.frame - p.from) * frameUs >= warmupMs * 1000

LEMMA KeptWhole ==
  ASSUME ParallelInv, NEW w \in WorkerIds, status[w] = "ok"
  PROVE  /\ packets[w] \in Seq(PacketType)
         /\ Len(packets[w]) = First(w + 1) - First(w)
         /\ \A k \in 1 .. Len(packets[w]) :
              packets[w][k].frame = First(w) + k - 1 /\ Primed(packets[w][k])
<1>1. InputInv /\ at[w] = First(w + 1) /\ KeptInOrder(w) /\ packets[w] \in Seq(PacketType)
  BY DEF ParallelInv, ThreadsInv, Ended, ThreadsTyped
<1>2. /\ First(w) \in Nat /\ First(w + 1) \in Nat /\ WarmStart(w) \in Nat
      /\ First(w) <= First(w + 1)
      /\ WarmStart(w) = 0 \/ First(w) - WarmStart(w) = WarmupFrames
  BY <1>1, WarmStartFact
<1>3. Len(packets[w]) = First(w + 1) - First(w)
  BY <1>1, <1>2 DEF KeptInOrder, Greatest
<1>4. ASSUME NEW k \in 1 .. Len(packets[w])
      PROVE  packets[w][k].frame = First(w) + k - 1 /\ Primed(packets[w][k])
  <2>1. packets[w][k] = [frame |-> First(w) + k - 1, from |-> WarmStart(w)]
    BY <1>1 DEF KeptInOrder
  <2>2. packets[w][k].frame = First(w) + k - 1 /\ packets[w][k].from = WarmStart(w) /\ k \in Nat
    BY <1>2, <1>3, <2>1
  <2>3. CASE First(w) - WarmStart(w) = WarmupFrames
    <3>1. WarmupFrames \in Nat /\ WarmupFrames * frameUs >= warmupMs * 1000
      BY <1>1, WarmupFact
    <3>2. frameUs \in Nat /\ warmupMs \in Nat
      BY <1>1 DEF InputInv
    <3> DEFINE d == First(w) + k - 1 - WarmStart(w)
    <3>3. d \in Nat /\ WarmupFrames <= d
      BY <1>2, <2>2, <2>3, <3>1, SMTT(30)
    <3>4. WarmupFrames * frameUs <= d * frameUs /\ WarmupFrames * frameUs \in Nat
      <4> HIDE DEF d
      <4> QED BY <3>1, <3>2, <3>3, Products
    <3>5. d * frameUs >= warmupMs * 1000
      <4> HIDE DEF d
      <4> QED BY <3>1, <3>2, <3>3, <3>4
    <3>6. packets[w][k].frame - packets[w][k].from = d
      BY <1>2, <2>2
    <3> QED BY <2>2, <3>5, <3>6 DEF Primed
  <2> QED BY <1>2, <2>2, <2>3 DEF Primed
<1> QED BY <1>1, <1>3, <1>4

LEMMA ConcatFact ==
  ASSUME NEW s \in Seq(PacketType), NEW t \in Seq(PacketType)
  PROVE  /\ s \o t \in Seq(PacketType) /\ Len(s \o t) = Len(s) + Len(t)
         /\ \A i \in 1 .. Len(s) : (s \o t)[i] = s[i]
         /\ \A i \in Len(s) + 1 .. Len(s) + Len(t) : (s \o t)[i] = t[i - Len(s)]
OBVIOUS

LEMMA JoinedWhole ==
  ASSUME ParallelInv, \A w \in WorkerIds : status[w] = "ok"
  PROVE  LET out == FlattenSeq([w \in 1 .. Workers |-> packets[w - 1]])
         IN /\ Len(out) = total
            /\ \A i \in 1 .. total : out[i].frame = i - 1 /\ Primed(out[i])
<1> DEFINE chunks == [w \in 1 .. Workers |-> packets[w - 1]]
<1>1. Workers \in Nat \ {0} /\ InputInv
  BY WorkersFact DEF ParallelInv
<1>2. Len(chunks) = Workers /\ \A w \in 1 .. Workers : chunks[w] = packets[w - 1]
  <2>1. \A w \in 1 .. Workers : w - 1 \in WorkerIds
    BY <1>1 DEF WorkerIds
  <2>2. chunks \in Seq(Seq(PacketType))
    BY <1>1, <2>1 DEF ParallelInv, ThreadsTyped
  <2> QED BY <1>1, <2>2
<1> HIDE DEF chunks
<1>3. PICK f : /\ f[1] = chunks[1]
               /\ \A i \in 2 .. Workers : f[i] = f[i - 1] \o chunks[i]
               /\ FlattenSeq(chunks) = f[Workers]
  BY <1>1, <1>2, FlattenUnfolds
<1> DEFINE Whole(out, n) == /\ out \in Seq(PacketType) /\ Len(out) = n
                            /\ \A i \in 1 .. n : out[i].frame = i - 1 /\ Primed(out[i])
           T == {n \in Nat : n + 1 <= Workers => Whole(f[n + 1], First(n + 1))}
<1>4. \A w \in WorkerIds :
        /\ First(w) \in Nat /\ First(w + 1) \in Nat /\ First(w) <= First(w + 1)
        /\ chunks[w + 1] \in Seq(PacketType) /\ Len(chunks[w + 1]) = First(w + 1) - First(w)
        /\ \A k \in 1 .. Len(chunks[w + 1]) :
             chunks[w + 1][k].frame = First(w) + k - 1 /\ Primed(chunks[w + 1][k])
  <2> TAKE w \in WorkerIds
  <2>1. w + 1 \in 1 .. Workers /\ (w + 1) - 1 = w
    BY <1>1 DEF WorkerIds
  <2>2. chunks[w + 1] = packets[w]
    BY <1>2, <2>1
  <2> QED BY <1>1, <2>2, KeptWhole, WarmStartFact
<1>5. 0 \in T
  <2>1. 0 \in WorkerIds /\ First(0) = 0 /\ 0 + 1 = 1
    BY <1>1, RangesFact DEF WorkerIds
  <2> QED BY <1>3, <1>4, <2>1
<1>6. ASSUME NEW n \in Nat, n \in T PROVE n + 1 \in T
  <2> SUFFICES ASSUME n + 2 <= Workers PROVE Whole(f[n + 2], First(n + 2))
    OBVIOUS
  <2>1. Whole(f[n + 1], First(n + 1))
    BY <1>1, <1>6
  <2>2. n + 1 \in WorkerIds /\ n + 2 \in 2 .. Workers /\ (n + 1) + 1 = n + 2 /\ (n + 2) - 1 = n + 1
    BY <1>1 DEF WorkerIds
  <2>3. f[n + 2] = f[n + 1] \o chunks[n + 2]
    BY <1>3, <2>2
  <2> DEFINE s == f[n + 1]
             t == chunks[n + 2]
             a == First(n + 1)
             b == First(n + 2)
  <2>4. /\ a \in Nat /\ b \in Nat /\ a <= b /\ t \in Seq(PacketType) /\ Len(t) = b - a
        /\ \A k \in 1 .. Len(t) : t[k].frame = a + k - 1 /\ Primed(t[k])
    BY <1>4, <2>2
  <2>5. s \in Seq(PacketType) /\ Len(s) = a /\ \A i \in 1 .. a : s[i].frame = i - 1 /\ Primed(s[i])
    BY <2>1
  <2>6. f[n + 2] = s \o t
    BY <2>3
  <2> HIDE DEF s, t, a, b
  <2>10. /\ s \o t \in Seq(PacketType) /\ Len(s \o t) = Len(s) + Len(t)
         /\ \A i \in 1 .. Len(s) : (s \o t)[i] = s[i]
         /\ \A i \in Len(s) + 1 .. Len(s) + Len(t) : (s \o t)[i] = t[i - Len(s)]
    BY <2>4, <2>5, ConcatFact
  <2>7. s \o t \in Seq(PacketType) /\ Len(s \o t) = b
    BY <2>4, <2>5, <2>10
  <2>8. ASSUME NEW i \in 1 .. b PROVE (s \o t)[i].frame = i - 1 /\ Primed((s \o t)[i])
    <3>1. CASE i <= a
      <4>1. (s \o t)[i] = s[i]
        BY <2>4, <2>5, <3>1, <2>10
      <4> QED BY <2>4, <2>5, <3>1, <4>1
    <3>2. CASE i > a
      <4>1. (s \o t)[i] = t[i - a] /\ i - a \in 1 .. Len(t)
        BY <2>4, <2>5, <3>2, <2>10, SMTT(30)
      <4>2. t[i - a].frame = a + (i - a) - 1 /\ Primed(t[i - a])
        BY <2>4, <4>1
      <4>3. a + (i - a) - 1 = i - 1
        BY <2>4
      <4> QED BY <4>1, <4>2, <4>3, Zenon
    <3>3. i <= a \/ i > a
      BY <2>4
    <3> QED BY <3>1, <3>2, <3>3, Zenon
  <2>9. Whole(s \o t, b)
    BY <2>7, <2>8
  <2> HIDE DEF Whole
  <2> QED BY <2>6, <2>9 DEF b
<1>7. Whole(f[Workers], First(Workers))
  <2>1. Workers - 1 \in Nat /\ (Workers - 1) + 1 = Workers
    BY <1>1
  <2>2. Workers - 1 \in T
    <3> HIDE DEF T
    <3> QED BY <1>5, <1>6, <2>1, Induction
  <2> HIDE DEF Whole
  <2> QED BY <1>1, <2>1, <2>2
<1>8. FlattenSeq(chunks) = f[Workers] /\ First(Workers) = total
  BY <1>1, <1>3, RangesFact
<1> QED BY <1>7, <1>8 DEF chunks

(* "Output is deterministic and always the same length as a serial         *)
(* encode" (parallel.rs), and what is encoded twice stays below a quarter: *)
(* for every clip, plan, pattern of faults and order of the threads.       *)
THEOREM OnePacketForEveryFrame == ParallelSpec => []OnePacketPerFrame
<1>1. ASSUME ParallelInv PROVE OnePacketPerFrame
  <2>1. InputInv /\ MinChunkWarmups * RedundantFrames <= total
    BY <1>1, RedundancyFact DEF ParallelInv
  <2>2. ASSUME NEW w \in WorkerIds
        PROVE  MinChunkWarmups * discarded[w] <= First(w + 1) - First(w)
    <3>1. /\ discarded[w] = Least(at[w], First(w)) - WarmStart(w)
          /\ at[w] \in Int
      BY <1>1 DEF ParallelInv, ThreadsInv, KeptInOrder, ThreadsTyped
    <3>2. /\ First(w) \in Nat /\ First(w + 1) \in Nat /\ WarmStart(w) \in Nat
          /\ MinChunkWarmups * (First(w) - WarmStart(w)) <= First(w + 1) - First(w)
      BY <2>1, WarmStartFact
    <3>3. discarded[w] \in Int /\ discarded[w] <= First(w) - WarmStart(w)
      BY <3>1, <3>2 DEF Least
    <3> QED BY <3>2, <3>3 DEF MinChunkWarmups
  <2>3. ASSUME result.kind = "ok"
        PROVE  /\ Len(result.out) = total
               /\ \A i \in 1 .. total : result.out[i].frame = i - 1 /\ Primed(result.out[i])
    <3>1. /\ joined = Workers /\ Failed = {}
          /\ result.out = FlattenSeq([w \in 1 .. Workers |-> packets[w - 1]])
      BY <1>1, <2>3 DEF ParallelInv, ResultInv
    <3>2. \A w \in WorkerIds : status[w] = "ok"
      BY <1>1, <3>1, WorkersFact DEF ParallelInv, JoinedInv, Failed, WorkerIds
    <3> QED BY <1>1, <3>1, <3>2, JoinedWhole
  <2> QED BY <2>1, <2>2, <2>3 DEF OnePacketPerFrame, Primed
<1> QED BY <1>1, ParallelInvariance, PTL

(* A gap is never a result: for every clip, plan, pattern of faults and    *)
(* order of the threads, the call succeeds only when no frame fails, and   *)
(* an error is of the first frame that failed, later threads' included.    *)
THEOREM FaultsAreNeverLost == ParallelSpec => []FaultsAreReported
<1> DEFINE bad == {f \in 0 .. total - 1 : verdict[f] # "ok"}
<1>1. ASSUME ParallelInv PROVE FaultsAreReported
  <2>1. /\ InputInv /\ Workers \in Nat \ {0} /\ total \in Nat \ {0}
    BY <1>1, WorkersFact DEF ParallelInv, InputInv
  (* A frame of a range that went well did not fail.                       *)
  <2>2. ASSUME NEW w \in WorkerIds, status[w] = "ok", NEW f \in 0 .. total - 1,
               First(w) <= f, f < First(w + 1)
        PROVE  verdict[f] = "ok"
    <3>1. at[w] = First(w + 1) /\ Advanced(w)
      BY <1>1, <2>2 DEF ParallelInv, ThreadsInv, Ended
    <3>2. WarmStart(w) <= f
      BY <2>1, <2>2, WarmStartFact
    <3> QED BY <2>2, <3>1, <3>2 DEF Advanced
  <2>3. ASSUME result.kind = "ok" PROVE bad = {}
    <3>1. \A w \in WorkerIds : status[w] = "ok"
      BY <1>1, <2>3, WorkersFact DEF ParallelInv, ResultInv, JoinedInv, Failed, WorkerIds
    <3>2. ASSUME NEW f \in 0 .. total - 1 PROVE verdict[f] = "ok"
      <4>1. PICK w \in WorkerIds : First(w) <= f /\ f < First(w + 1)
        BY <2>1, EveryFrameHasAWorker
      <4> QED BY <2>2, <3>1, <4>1
    <3> QED BY <3>2
  <2>4. ASSUME result.kind = "err"
        PROVE  verdict[result.frame] = "err" /\ result.frame = Min(bad)
    <3> DEFINE m == Min(Failed)
    <3>1. joined = Workers /\ Failed # {} /\ result.frame = at[m]
      BY <1>1, <2>4 DEF ParallelInv, ResultInv
    <3>2. Failed \subseteq Nat /\ \A w \in WorkerIds : status[w] \in {"ok", "err"}
      BY <1>1, <2>1, <3>1 DEF ParallelInv, JoinedInv, Failed, WorkerIds
    <3>3. m \in Failed /\ \A w \in Failed : m <= w
      <4>1. \E x \in Failed : \A y \in Failed : x <= y
        BY <3>1, <3>2, LeastNumber
      <4> QED BY <4>1 DEF Min
    <3> HIDE DEF m
    <3>4. m \in WorkerIds /\ status[m] = "err" /\ Advanced(m) /\ at[m] \in Int
      BY <1>1, <3>3 DEF Failed, ParallelInv, ThreadsInv, ThreadsTyped
    <3>5. at[m] < First(m + 1) /\ verdict[at[m]] = "err"
      BY <1>1, <3>4 DEF ParallelInv, ThreadsInv, Ended
    <3>6. /\ WarmStart(m) \in Nat /\ First(m + 1) \in Nat /\ First(m + 1) <= total
          /\ WarmStart(m) <= First(m)
      BY <2>1, <3>4, WarmStartFact
    <3>7. at[m] \in bad
      BY <2>1, <3>4, <3>5, <3>6 DEF Advanced
    <3>8. ASSUME NEW f \in bad PROVE at[m] <= f
      <4> SUFFICES ASSUME f < at[m] PROVE FALSE
        BY <3>4
      <4>1. f \in 0 .. total - 1 /\ verdict[f] # "ok"
        OBVIOUS
      <4>2. PICK w \in WorkerIds : First(w) <= f /\ f < First(w + 1)
        BY <2>1, <4>1, EveryFrameHasAWorker
      <4>3. status[w] = "err"
        BY <2>2, <3>2, <4>1, <4>2
      <4>4. m <= w /\ w \in Nat /\ m \in Nat
        BY <2>1, <3>3, <3>4, <4>3 DEF Failed, WorkerIds
      <4>5. CASE w = m
        <5>1. First(m) \in Nat /\ WarmStart(m) <= f
          BY <2>1, <3>4, <3>6, <4>1, <4>2, <4>5, WarmStartFact
        <5> QED BY <3>4, <4>1, <5>1 DEF Advanced
      <4>6. CASE m + 1 <= w
        <5>1. m + 1 \in 0 .. Workers /\ w \in 0 .. Workers
          BY <2>1, <3>4 DEF WorkerIds
        <5>2. First(m + 1) <= First(w) /\ First(w) \in 0 .. total
          BY <2>1, <4>6, <5>1, RangesFact
        <5> QED BY <3>4, <3>5, <3>6, <4>1, <4>2, <5>2
      <4> QED BY <4>4, <4>5, <4>6
    <3>9. at[m] = Min(bad)
      <4>1. \A x \in bad : (\A y \in bad : x <= y) => x = at[m]
        BY <3>4, <3>7, <3>8
      <4> QED BY <3>7, <3>8, <4>1 DEF Min
    <3> QED BY <3>1, <3>5, <3>9
  <2> QED BY <2>3, <2>4 DEF FaultsAreReported
<1> QED BY <1>1, ParallelInvariance, PTL
(***************************************************************************)
(* Types.  The page being assembled carries no more than its segments say, *)
(* so a page that is full by its payload has a segment to write; the       *)
(* headers go before any audio, each flushed with something on its page;   *)
(* a call left half-way by the end of the stream does not exist.           *)
(***************************************************************************)
PayloadBound == payload <= Len(segments) * LaceMax

HeadersFirst ==
  /\ call.op # "idle" => pushed = call.pkt + 1
  /\ call.op = "header" => call.pkt < FirstAudio /\ segments # <<>>
  /\ call.op # "idle" => (call.pkt < FirstAudio <=> ~opened)
  /\ opened => pushed >= FirstAudio
  /\ ~opened => accepted = <<>>
  /\ finished => call.op = "idle"

ShapeInv == TypeOK /\ PayloadBound /\ HeadersFirst

LEMMA CapacityFact ==
  ASSUME NEW n \in Nat, n <= MaxSegments
  PROVE  /\ MaxSegments * LaceMax \in Nat
         /\ n * LaceMax \in Nat
         /\ n * LaceMax <= MaxSegments * LaceMax
  BY LacingAssumption

LEMMA ClampFact ==
  ASSUME NEW t \in Nat
  PROVE  Clamp(t, 1, MaxSegments * LaceMax) \in 1 .. MaxSegments * LaceMax
<1>1. MaxSegments * LaceMax \in Nat \ {0}
  BY LacingAssumption
<1>. QED
  BY <1>1 DEF Clamp, LeastOf

(* A full page, by its table or by its payload, carries a segment.         *)
LEMMA FullPageFact ==
  ASSUME ShapeInv, PageFull
  PROVE  segments # <<>>
<1>1. CASE segments = <<>>
  <2>1. Len(segments) = 0 /\ payload <= 0
    BY <1>1, LacingAssumption DEF ShapeInv, PayloadBound
  <2>2. pageTarget >= 1 /\ MaxSegments >= 1
    BY LacingAssumption, CapacityFact DEF ShapeInv, TypeOK
  <2>3. payload \in Nat /\ pageTarget \in Nat
    BY LacingAssumption, CapacityFact DEF ShapeInv, TypeOK
  <2>. QED
    BY <2>1, <2>2, <2>3, LacingAssumption DEF PageFull, TableFull
<1>. QED
  BY <1>1

(* Every page handed to the sink is a page.                                *)
LEMMA PageFact ==
  ASSUME TypeOK, NEW bos \in BOOLEAN, NEW eos \in BOOLEAN, NEW g \in Int,
         NEW segs \in Seq(SegmentType) \ {<<>>}
  PROVE  /\ PageWith(bos, eos, g, segs) \in PageType
         /\ [PageWith(bos, eos, g, segs) EXCEPT !.whole = FALSE] \in PageType
<1>1. continued \in BOOLEAN /\ sequence \in Nat
  BY DEF TypeOK
<1>. QED
  BY <1>1 DEF PageWith, PageType

(* What either outcome of flush_page leaves of the types.                  *)
LEMMA WrittenFact ==
  ASSUME TypeOK, NEW pg \in PageType, NEW resumes \in BOOLEAN,
         Written(pg, resumes)
  PROVE  /\ sink' \in Seq(PageType) /\ sequence' \in Nat
         /\ segments' = <<>> /\ payload' = 0
         /\ segments' \in Seq(SegmentType)
         /\ Len(segments') = 0 /\ Len(segments') <= MaxSegments
         /\ payload' \in 0 .. MaxSegments * LaceMax
         /\ payload' <= Len(segments') * LaceMax
         /\ pageGranule' \in Nat \cup {NoGranule}
         /\ continued' \in BOOLEAN /\ failures' \in 0 .. MaxFailures
<1>1. /\ sink \in Seq(PageType) /\ sequence \in Nat
      /\ failures \in 0 .. MaxFailures
  BY DEF TypeOK
<1>2. segments' = <<>> /\ payload' = 0 /\ Len(segments') = 0
  BY DEF Written
<1>3. MaxSegments * LaceMax \in Nat /\ 0 * LaceMax = 0 /\ 0 <= MaxSegments
  BY LacingAssumption
<1>. QED
  BY <1>1, <1>2, <1>3 DEF Written

LEMMA RefusedFact ==
  ASSUME ShapeInv, NEW pg \in PageType, [pg EXCEPT !.whole = FALSE] \in PageType,
         Refused(pg), Len(pg.segments) <= MaxSegments,
         payload <= Len(pg.segments) * LaceMax
  PROVE  /\ sink' \in Seq(PageType) /\ sequence' \in Nat
         /\ segments' = pg.segments
         /\ segments' \in Seq(SegmentType) /\ segments' # <<>>
         /\ Len(segments') <= MaxSegments
         /\ payload' \in 0 .. MaxSegments * LaceMax
         /\ payload' <= Len(segments') * LaceMax
         /\ pageGranule' \in Nat \cup {NoGranule}
         /\ continued' \in BOOLEAN /\ failures' \in 0 .. MaxFailures
<1>1. /\ sink \in Seq(PageType) /\ sequence \in Nat
      /\ failures \in 0 .. MaxFailures
      /\ payload \in 0 .. MaxSegments * LaceMax
      /\ pageGranule \in Nat \cup {NoGranule} /\ continued \in BOOLEAN
  BY DEF ShapeInv, TypeOK
<1>2. failures' \in 0 .. MaxFailures
  BY <1>1, BoundAssumption DEF Refused
<1>3. sink' \in Seq(PageType)
  BY <1>1, SMTT(30) DEF Refused
<1>4. segments' = pg.segments /\ pg.segments \in Seq(SegmentType) \ {<<>>}
  BY DEF Refused, PageType
<1>. QED
  BY <1>1, <1>2, <1>3, <1>4 DEF Refused

CallType == [op: {"idle", "push", "header"}, pkt: 0 .. MaxPackets + 1,
             part: Nat, left: Nat, dur: Nat]

LEMMA CallFact ==
  /\ Idle \in CallType
  /\ \A pkt \in 0 .. MaxPackets + 1, size \in Nat, dur \in Nat :
       Pushing(pkt, size, dur) \in CallType
  BY BoundAssumption DEF CallType, Idle, Pushing

LEMMA InitShape == Init => ShapeInv
<1>. SUFFICES ASSUME Init PROVE ShapeInv
  OBVIOUS
<1>1. call \in CallType
  BY CallFact, SizeAssumption, BoundAssumption DEF Init
<1>2. pageTarget \in 1 .. MaxSegments * LaceMax
  BY ClampFact, SizeAssumption DEF Init
<1>3. segments = <<>> /\ payload = 0 /\ Len(segments) = 0
  BY DEF Init
<1>4. payload \in 0 .. MaxSegments * LaceMax /\ payload <= Len(segments) * LaceMax
      /\ Len(segments) <= MaxSegments
  BY <1>3, LacingAssumption, CapacityFact
<1>5. TypeOK
  <2>1. endsAt \in [0 .. MaxPackets + 1 -> Int] /\ pageGranule \in Nat \cup {NoGranule}
    BY DEF Init, NoGranule
  <2>2. sink \in Seq(PageType) /\ segments \in Seq(SegmentType) /\ accepted \in Seq(Nat)
    BY DEF Init
  <2>3. pushed \in 1 .. MaxPackets + 2 /\ failures \in 0 .. MaxFailures
    BY BoundAssumption DEF Init
  <2>. QED
    BY <1>1, <1>2, <1>4, <2>1, <2>2, <2>3 DEF Init, TypeOK, CallType
<1>6. HeadersFirst
  BY DEF Init, HeadersFirst, Pushing, FirstAudio
<1>. QED
  BY <1>4, <1>5, <1>6 DEF ShapeInv, PayloadBound

(* A lacing value goes into a table that has room for it.                  *)
LEMMA SegmentFact ==
  ASSUME ShapeInv, call.op = "push", ~TableFull,
         NEW lace \in 0 .. LaceMax,
         segments' = Append(segments, Segment(lace)), payload' = payload + lace
  PROVE  /\ segments' \in Seq(SegmentType) /\ segments' # <<>>
         /\ Len(segments') = Len(segments) + 1
         /\ Len(segments') <= MaxSegments
         /\ segments'[Len(segments')] = Segment(lace)
         /\ payload' \in 0 .. MaxSegments * LaceMax
         /\ payload' <= Len(segments') * LaceMax
<1>1. /\ segments \in Seq(SegmentType) /\ Len(segments) <= MaxSegments
      /\ payload \in 0 .. MaxSegments * LaceMax
      /\ payload <= Len(segments) * LaceMax
      /\ call \in CallType
  BY DEF ShapeInv, TypeOK, PayloadBound, CallType
<1>2. Segment(lace) \in SegmentType
  BY <1>1 DEF Segment, SegmentType, CallType
<1>3. /\ segments' \in Seq(SegmentType) /\ Len(segments') = Len(segments) + 1
      /\ segments'[Len(segments')] = Segment(lace) /\ segments' # <<>>
  BY <1>1, <1>2
<1>4. Len(segments) \in Nat /\ Len(segments) + 1 <= MaxSegments
  BY <1>1, LacingAssumption DEF TableFull
<1>5. (Len(segments) + 1) * LaceMax = Len(segments) * LaceMax + LaceMax
  BY <1>4, LacingAssumption
<1>6. payload' <= (Len(segments) + 1) * LaceMax /\ payload' \in Nat
  BY <1>1, <1>4, <1>5, CapacityFact, LacingAssumption
<1>7. (Len(segments) + 1) * LaceMax <= MaxSegments * LaceMax
  BY <1>4, CapacityFact
<1>8. payload' \in 0 .. MaxSegments * LaceMax
  BY <1>4, <1>6, <1>7, CapacityFact
<1>. QED
  BY <1>3, <1>4, <1>6, <1>8

LEMMA PushLaceShape ==
  ASSUME ShapeInv, PushLace
  PROVE  ShapeInv'
<1>1. /\ call.op = "push" /\ ~TableFull /\ call.left >= LaceMax
      /\ segments' = Append(segments, Segment(LaceMax))
      /\ payload' = payload + LaceMax
      /\ call' = [call EXCEPT !.left = @ - LaceMax, !.part = @ + 1]
      /\ UNCHANGED <<sink, sequence, pageTarget, granule, pageGranule, continued,
                     finished, opened, accepted, endsAt, pushed, orphan, failures>>
  BY DEF PushLace
<1>2. LaceMax \in 0 .. LaceMax
  BY LacingAssumption
<1>3. /\ segments' \in Seq(SegmentType) /\ Len(segments') <= MaxSegments
      /\ payload' \in 0 .. MaxSegments * LaceMax
      /\ payload' <= Len(segments') * LaceMax
  BY <1>1, <1>2, SegmentFact
<1>4. call' \in CallType /\ call'.op = "push" /\ call'.pkt = call.pkt
  <2>1. call \in CallType
    BY DEF ShapeInv, TypeOK, CallType
  <2>2. call.left - LaceMax \in Nat /\ call.part + 1 \in Nat
    BY <1>1, <2>1, LacingAssumption DEF CallType
  <2>. QED
    BY <1>1, <2>1, <2>2 DEF CallType
<1>5. TypeOK'
  BY <1>1, <1>3, <1>4 DEF ShapeInv, TypeOK, CallType
<1>6. HeadersFirst'
  BY <1>1, <1>4 DEF ShapeInv, HeadersFirst
<1>. QED
  BY <1>3, <1>5, <1>6 DEF ShapeInv, PayloadBound

LEMMA PushLastShape ==
  ASSUME ShapeInv, PushLast
  PROVE  ShapeInv'
<1>1. /\ call.op = "push" /\ ~TableFull /\ call.left < LaceMax
      /\ segments' = Append(segments, Segment(call.left))
      /\ payload' = payload + call.left
      /\ endsAt' = [endsAt EXCEPT ![call.pkt] = granule + call.dur]
      /\ UNCHANGED <<sink, sequence, pageTarget, continued, finished, opened,
                     pushed, orphan, failures>>
  BY DEF PushLast
<1>2. call \in CallType /\ granule \in Nat /\ accepted \in Seq(Nat)
      /\ endsAt \in [0 .. MaxPackets + 1 -> Int]
      /\ pageGranule \in Nat \cup {NoGranule}
  BY DEF ShapeInv, TypeOK, CallType
<1>3. call.left \in 0 .. LaceMax /\ call.dur \in Nat /\ call.pkt \in 0 .. MaxPackets + 1
  BY <1>1, <1>2, LacingAssumption DEF CallType
<1>4. /\ segments' \in Seq(SegmentType) /\ Len(segments') <= MaxSegments
      /\ segments' # <<>>
      /\ payload' \in 0 .. MaxSegments * LaceMax
      /\ payload' <= Len(segments') * LaceMax
  BY <1>1, <1>3, SegmentFact
<1>5. endsAt' \in [0 .. MaxPackets + 1 -> Int]
  <2>1. granule + call.dur \in Int
    BY <1>2, <1>3
  <2>. QED
    BY <1>1, <1>2, <2>1
<1>6. /\ call' \in CallType /\ granule' \in Nat
      /\ pageGranule' \in Nat \cup {NoGranule} /\ accepted' \in Seq(Nat)
      /\ call'.op = "idle" \/ (call'.op = "header" /\ call'.pkt = call.pkt
                               /\ call.pkt < FirstAudio /\ accepted' = accepted)
      /\ call.pkt >= FirstAudio => call'.op = "idle"
  <2>1. CASE call.pkt >= FirstAudio
    <3>1. /\ granule' = granule + call.dur /\ pageGranule' = granule'
          /\ accepted' = Append(accepted, call.pkt) /\ call' = Idle
      BY <2>1 DEF PushLast
    <3>2. call' \in CallType /\ call'.op = "idle"
      BY <3>1, CallFact DEF Idle
    <3>3. granule' \in Nat /\ call.pkt \in Nat
      BY <1>2, <1>3, <3>1
    <3>. QED
      BY <1>2, <3>1, <3>2, <3>3
  <2>2. CASE ~(call.pkt >= FirstAudio)
    <3>1. /\ call' = [call EXCEPT !.op = "header"]
          /\ UNCHANGED <<granule, pageGranule, accepted>>
      BY <2>2 DEF PushLast
    <3>2. call' \in CallType /\ call'.op = "header" /\ call'.pkt = call.pkt
      BY <1>2, <3>1 DEF CallType
    <3>3. call.pkt < FirstAudio
      BY <1>3, <2>2 DEF FirstAudio
    <3>. QED
      BY <1>2, <2>2, <3>1, <3>2, <3>3
  <2>. QED
    BY <2>1, <2>2
<1>7. TypeOK'
  BY <1>1, <1>4, <1>5, <1>6 DEF ShapeInv, TypeOK, CallType
<1>8. HeadersFirst'
  <2>1. /\ pushed = call.pkt + 1
        /\ call.pkt < FirstAudio <=> ~opened
        /\ opened => pushed >= FirstAudio
        /\ ~opened => accepted = <<>>
        /\ ~finished
    BY <1>1 DEF ShapeInv, HeadersFirst
  <2>2. CASE call.pkt >= FirstAudio
    <3>1. call'.op = "idle"
      BY <1>6, <2>2
    <3>2. ~(call.pkt < FirstAudio)
      BY <1>3, <2>2 DEF FirstAudio
    <3>3. opened
      BY <2>1, <3>2
    <3>. QED
      BY <1>1, <2>1, <3>1, <3>3 DEF HeadersFirst
  <2>3. CASE ~(call.pkt >= FirstAudio)
    <3>1. call' = [call EXCEPT !.op = "header"] /\ accepted' = accepted
      BY <2>3 DEF PushLast
    <3>2. call'.op = "header" /\ call'.pkt = call.pkt
      BY <1>2, <3>1 DEF CallType
    <3>3. call.pkt < FirstAudio
      BY <1>6, <3>2
    <3>. QED
      BY <1>1, <1>4, <2>1, <3>1, <3>2, <3>3 DEF HeadersFirst
  <2>. QED
    BY <2>2, <2>3
<1>. QED
  BY <1>4, <1>7, <1>8 DEF ShapeInv, PayloadBound

(* Every flush: what it writes is a page, and whichever way it goes the    *)
(* assembled page stays within its limits.                                 *)
LEMMA FlushFact ==
  ASSUME ShapeInv, NEW bos \in BOOLEAN, NEW eos \in BOOLEAN, NEW g \in Int,
         NEW segs \in Seq(SegmentType) \ {<<>>}, NEW resumes \in BOOLEAN,
         Len(segs) <= MaxSegments, payload <= Len(segs) * LaceMax,
         \/ Written(PageWith(bos, eos, g, segs), resumes)
         \/ Refused(PageWith(bos, eos, g, segs))
  PROVE  /\ sink' \in Seq(PageType) /\ sequence' \in Nat
         /\ segments' \in Seq(SegmentType) /\ Len(segments') <= MaxSegments
         /\ payload' \in 0 .. MaxSegments * LaceMax
         /\ payload' <= Len(segments') * LaceMax
         /\ pageGranule' \in Nat \cup {NoGranule}
         /\ continued' \in BOOLEAN /\ failures' \in 0 .. MaxFailures
<1>. DEFINE pg == PageWith(bos, eos, g, segs)
<1>1. TypeOK
  BY DEF ShapeInv
<1>2. /\ pg \in PageType /\ [pg EXCEPT !.whole = FALSE] \in PageType
      /\ pg.segments = segs
  BY <1>1, PageFact DEF PageWith
<1>. HIDE DEF pg
<1>3. CASE Written(pg, resumes)
  BY <1>1, <1>2, <1>3, WrittenFact
<1>4. CASE Refused(pg)
  BY <1>2, <1>4, RefusedFact
<1>. QED
  BY <1>3, <1>4 DEF pg

(* The page being assembled, when there is one.                            *)
LEMMA TableFact ==
  ASSUME ShapeInv, segments # <<>>
  PROVE  /\ segments \in Seq(SegmentType) \ {<<>>} /\ Len(segments) <= MaxSegments
         /\ payload <= Len(segments) * LaceMax /\ pageGranule \in Int
  BY DEF ShapeInv, TypeOK, PayloadBound, NoGranule

(* What the flushing actions share: the granule count and the target stay. *)
LEMMA FlushShape ==
  ASSUME ShapeInv,
         /\ sink' \in Seq(PageType) /\ sequence' \in Nat
         /\ segments' \in Seq(SegmentType) /\ Len(segments') <= MaxSegments
         /\ payload' \in 0 .. MaxSegments * LaceMax
         /\ payload' <= Len(segments') * LaceMax
         /\ pageGranule' \in Nat \cup {NoGranule}
         /\ continued' \in BOOLEAN /\ failures' \in 0 .. MaxFailures,
         UNCHANGED <<granule, pageTarget, accepted, endsAt>>,
         call' \in CallType, finished' \in BOOLEAN, opened' \in BOOLEAN,
         pushed' \in 1 .. MaxPackets + 2, orphan' \in BOOLEAN, HeadersFirst'
  PROVE  ShapeInv'
<1>1. TypeOK'
  BY DEF ShapeInv, TypeOK, CallType
<1>. QED
  BY <1>1 DEF ShapeInv, PayloadBound

LEMMA FlushMidPacketShape ==
  ASSUME ShapeInv, FlushMidPacket
  PROVE  ShapeInv'
<1>1. /\ call.op = "push" /\ TableFull
      /\ UNCHANGED <<pageTarget, granule, finished, opened, accepted, endsAt, pushed>>
      /\ \/ UNCHANGED <<call, orphan>>
         \/ call' = Idle /\ orphan' = TRUE
      /\ \/ Written(PageWith(FALSE, FALSE, pageGranule, segments), TRUE)
         \/ Refused(PageWith(FALSE, FALSE, pageGranule, segments))
  BY DEF FlushMidPacket
<1>2. segments # <<>>
  BY <1>1, LacingAssumption DEF TableFull
<1>3. /\ sink' \in Seq(PageType) /\ sequence' \in Nat
      /\ segments' \in Seq(SegmentType) /\ Len(segments') <= MaxSegments
      /\ payload' \in 0 .. MaxSegments * LaceMax
      /\ payload' <= Len(segments') * LaceMax
      /\ pageGranule' \in Nat \cup {NoGranule}
      /\ continued' \in BOOLEAN /\ failures' \in 0 .. MaxFailures
  BY <1>1, <1>2, TableFact, FlushFact
<1>4. /\ call' \in CallType /\ orphan' \in BOOLEAN /\ finished' \in BOOLEAN
      /\ opened' \in BOOLEAN /\ pushed' \in 1 .. MaxPackets + 2
  BY <1>1, CallFact DEF ShapeInv, TypeOK, CallType
<1>5. HeadersFirst'
  BY <1>1 DEF ShapeInv, HeadersFirst, Idle
<1>. QED
  BY <1>1, <1>3, <1>4, <1>5, FlushShape

LEMMA FlushHeadShape ==
  ASSUME ShapeInv, FlushHead
  PROVE  ShapeInv'
<1>1. /\ call.op = "header" /\ call.pkt = 0
      /\ UNCHANGED <<pageTarget, granule, finished, opened, accepted, endsAt, orphan>>
      /\ \/ /\ \E size \in TagsSizes : call' = Pushing(1, size, 0)
            /\ pushed' = pushed + 1
         \/ call' = Idle /\ UNCHANGED pushed
      /\ \/ Written(PageWith(TRUE, FALSE, 0, segments), FALSE)
         \/ Refused(PageWith(TRUE, FALSE, 0, segments))
  BY DEF FlushHead
<1>2. segments # <<>> /\ pushed = 1 /\ ~opened /\ accepted = <<>> /\ ~finished
  BY <1>1 DEF ShapeInv, HeadersFirst, FirstAudio
<1>3. /\ sink' \in Seq(PageType) /\ sequence' \in Nat
      /\ segments' \in Seq(SegmentType) /\ Len(segments') <= MaxSegments
      /\ payload' \in 0 .. MaxSegments * LaceMax
      /\ payload' <= Len(segments') * LaceMax
      /\ pageGranule' \in Nat \cup {NoGranule}
      /\ continued' \in BOOLEAN /\ failures' \in 0 .. MaxFailures
  <2>1. /\ segments \in Seq(SegmentType) \ {<<>>} /\ Len(segments) <= MaxSegments
        /\ payload <= Len(segments) * LaceMax /\ 0 \in Int
    BY <1>2, TableFact
  <2>2. CASE Written(PageWith(TRUE, FALSE, 0, segments), FALSE)
    BY <2>1, <2>2, FlushFact
  <2>3. CASE Refused(PageWith(TRUE, FALSE, 0, segments))
    BY <2>1, <2>3, FlushFact
  <2>. QED
    BY <1>1, <2>2, <2>3
<1>4. /\ call' \in CallType /\ orphan' \in BOOLEAN /\ finished' \in BOOLEAN
      /\ opened' \in BOOLEAN /\ pushed' \in 1 .. MaxPackets + 2
  <2>1. call' \in CallType
    BY <1>1, CallFact, SizeAssumption, BoundAssumption
  <2>2. pushed' \in 1 .. MaxPackets + 2
    BY <1>1, <1>2, BoundAssumption
  <2>. QED
    BY <1>1, <2>1, <2>2 DEF ShapeInv, TypeOK
<1>5. HeadersFirst'
  BY <1>1, <1>2 DEF HeadersFirst, Idle, Pushing, FirstAudio
<1>. QED
  BY <1>1, <1>3, <1>4, <1>5, FlushShape

LEMMA FlushTagsShape ==
  ASSUME ShapeInv, FlushTags
  PROVE  ShapeInv'
<1>1. /\ call.op = "header" /\ call.pkt = 1 /\ call' = Idle
      /\ UNCHANGED <<pageTarget, granule, finished, accepted, endsAt, pushed, orphan>>
      /\ opened' = TRUE \/ UNCHANGED opened
      /\ \/ Written(PageWith(FALSE, FALSE, 0, segments), FALSE)
         \/ Refused(PageWith(FALSE, FALSE, 0, segments))
  BY DEF FlushTags
<1>2. segments # <<>> /\ pushed >= FirstAudio /\ ~opened /\ accepted = <<>> /\ ~finished
  BY <1>1 DEF ShapeInv, HeadersFirst, FirstAudio
<1>3. /\ sink' \in Seq(PageType) /\ sequence' \in Nat
      /\ segments' \in Seq(SegmentType) /\ Len(segments') <= MaxSegments
      /\ payload' \in 0 .. MaxSegments * LaceMax
      /\ payload' <= Len(segments') * LaceMax
      /\ pageGranule' \in Nat \cup {NoGranule}
      /\ continued' \in BOOLEAN /\ failures' \in 0 .. MaxFailures
  <2>1. /\ segments \in Seq(SegmentType) \ {<<>>} /\ Len(segments) <= MaxSegments
        /\ payload <= Len(segments) * LaceMax /\ 0 \in Int
    BY <1>2, TableFact
  <2>2. CASE Written(PageWith(FALSE, FALSE, 0, segments), FALSE)
    BY <2>1, <2>2, FlushFact
  <2>3. CASE Refused(PageWith(FALSE, FALSE, 0, segments))
    BY <2>1, <2>3, FlushFact
  <2>. QED
    BY <1>1, <2>2, <2>3
<1>4. /\ call' \in CallType /\ orphan' \in BOOLEAN /\ finished' \in BOOLEAN
      /\ opened' \in BOOLEAN /\ pushed' \in 1 .. MaxPackets + 2
  BY <1>1, CallFact DEF ShapeInv, TypeOK
<1>5. HeadersFirst'
  BY <1>1, <1>2 DEF HeadersFirst, Idle
<1>. QED
  BY <1>1, <1>3, <1>4, <1>5, FlushShape

LEMMA SetPageTargetShape ==
  ASSUME ShapeInv, NEW bytes \in Targets, SetPageTarget(bytes)
  PROVE  ShapeInv'
<1>1. pageTarget' \in 1 .. MaxSegments * LaceMax
  BY ClampFact, SizeAssumption DEF SetPageTarget
<1>2. UNCHANGED <<sink, sequence, page, granule, finished, call, opened,
                  accepted, endsAt, pushed, orphan, failures>>
  BY DEF SetPageTarget
<1>. QED
  BY <1>1, <1>2 DEF ShapeInv, TypeOK, PayloadBound, HeadersFirst, page

LEMMA WritePacketShape ==
  ASSUME ShapeInv, NEW size \in Sizes, NEW dur \in Durations, WritePacket(size, dur)
  PROVE  ShapeInv'
<1>1. /\ opened /\ ~finished /\ pushed < MaxPackets
      /\ IF PageFull
         THEN Written(PageWith(FALSE, FALSE, pageGranule, segments), FALSE)
         ELSE UNCHANGED <<sink, sequence, page, failures>>
      /\ call' = Pushing(pushed, size, dur)
      /\ pushed' = pushed + 1
      /\ UNCHANGED <<pageTarget, granule, finished, opened, accepted, endsAt, orphan>>
  BY DEF WritePacket, Ready
<1>2. /\ sink' \in Seq(PageType) /\ sequence' \in Nat
      /\ segments' \in Seq(SegmentType) /\ Len(segments') <= MaxSegments
      /\ payload' \in 0 .. MaxSegments * LaceMax
      /\ payload' <= Len(segments') * LaceMax
      /\ pageGranule' \in Nat \cup {NoGranule}
      /\ continued' \in BOOLEAN /\ failures' \in 0 .. MaxFailures
  <2>1. CASE PageFull
    BY <1>1, <2>1, FullPageFact, TableFact, FlushFact
  <2>2. CASE ~PageFull
    BY <1>1, <2>2 DEF ShapeInv, TypeOK, PayloadBound, page
  <2>. QED
    BY <2>1, <2>2
<1>3. /\ call' \in CallType /\ pushed' \in 1 .. MaxPackets + 2
      /\ finished' \in BOOLEAN /\ opened' \in BOOLEAN /\ orphan' \in BOOLEAN
  <2>1. pushed \in 1 .. MaxPackets + 2
    BY DEF ShapeInv, TypeOK
  <2>2. pushed \in 0 .. MaxPackets + 1 /\ pushed' \in 1 .. MaxPackets + 2
    BY <1>1, <2>1, BoundAssumption
  <2>3. call' \in CallType
    BY <1>1, <2>2, CallFact, SizeAssumption, DurationAssumption
  <2>. QED
    BY <1>1, <2>2, <2>3 DEF ShapeInv, TypeOK
<1>4. HeadersFirst'
  <2>1. pushed \in Nat /\ pushed >= FirstAudio
    BY <1>1 DEF ShapeInv, TypeOK, HeadersFirst
  <2>2. call'.op = "push" /\ call'.pkt = pushed
    BY <1>1 DEF Pushing
  <2>. QED
    BY <1>1, <2>1, <2>2 DEF HeadersFirst, FirstAudio
<1>. QED
  BY <1>1, <1>2, <1>3, <1>4, FlushShape

LEMMA WritePacketRefusedShape ==
  ASSUME ShapeInv, WritePacketRefused
  PROVE  ShapeInv'
<1>1. /\ PageFull /\ opened /\ call.op = "idle"
      /\ Refused(PageWith(FALSE, FALSE, pageGranule, segments))
      /\ UNCHANGED <<pageTarget, granule, finished, call, opened, accepted, endsAt,
                     pushed, orphan>>
  BY DEF WritePacketRefused, Ready
<1>2. /\ sink' \in Seq(PageType) /\ sequence' \in Nat
      /\ segments' \in Seq(SegmentType) /\ Len(segments') <= MaxSegments
      /\ payload' \in 0 .. MaxSegments * LaceMax
      /\ payload' <= Len(segments') * LaceMax
      /\ pageGranule' \in Nat \cup {NoGranule}
      /\ continued' \in BOOLEAN /\ failures' \in 0 .. MaxFailures
  BY <1>1, FullPageFact, TableFact, FlushFact
<1>3. HeadersFirst'
  BY <1>1 DEF ShapeInv, HeadersFirst
<1>. QED
  BY <1>1, <1>2, <1>3, FlushShape DEF ShapeInv, TypeOK, CallType

(* The segment table a stream ends on: what is pending, or one empty       *)
(* segment.                                                                *)
LastSegments ==
  IF segments = <<>> THEN <<[pkt |-> NoPacket, part |-> 0, lace |-> 0]>> ELSE segments

LEMMA LastSegmentsFact ==
  ASSUME ShapeInv
  PROVE  /\ LastSegments \in Seq(SegmentType) \ {<<>>}
         /\ Len(LastSegments) <= MaxSegments
         /\ payload <= Len(LastSegments) * LaceMax
         /\ pageGranule \in Int
<1>1. CASE segments # <<>>
  BY <1>1, TableFact DEF LastSegments
<1>2. CASE segments = <<>>
  <2>. DEFINE bare == [pkt |-> NoPacket, part |-> 0, lace |-> 0]
  <2>1. bare \in SegmentType
    BY LacingAssumption DEF SegmentType, NoPacket
  <2>2. LastSegments = <<bare>>
    BY <1>2 DEF LastSegments
  <2>3. Len(segments) = 0 /\ Len(segments) * LaceMax = 0
    BY <1>2, LacingAssumption
  <2>4. payload <= 0 /\ 0 <= LaceMax /\ payload \in Int /\ 1 <= MaxSegments
    BY <2>3, LacingAssumption, CapacityFact DEF ShapeInv, PayloadBound, TypeOK
  <2>5. Len(LastSegments) = 1 /\ 1 * LaceMax = LaceMax
    BY <2>2, LacingAssumption
  <2>6. pageGranule \in Int
    BY DEF ShapeInv, TypeOK, NoGranule
  <2>7. LastSegments \in Seq(SegmentType) \ {<<>>}
    BY <2>1, <2>2
  <2>. QED
    BY <2>4, <2>5, <2>6, <2>7, LacingAssumption
<1>. QED
  BY <1>1, <1>2

LEMMA FinishSteps ==
  ASSUME FinishInPlace
  PROVE  /\ call.op = "idle" /\ ~finished /\ finished' = TRUE
         /\ UNCHANGED <<pageTarget, granule, call, opened, accepted, endsAt, pushed, orphan>>
         /\ \/ Written(PageWith(FALSE, TRUE, pageGranule, LastSegments), FALSE)
            \/ Refused(PageWith(FALSE, TRUE, pageGranule, LastSegments))
  BY DEF FinishInPlace, LastSegments

LEMMA FinishShape ==
  ASSUME ShapeInv, FinishInPlace
  PROVE  ShapeInv'
<1>1. /\ sink' \in Seq(PageType) /\ sequence' \in Nat
      /\ segments' \in Seq(SegmentType) /\ Len(segments') <= MaxSegments
      /\ payload' \in 0 .. MaxSegments * LaceMax
      /\ payload' <= Len(segments') * LaceMax
      /\ pageGranule' \in Nat \cup {NoGranule}
      /\ continued' \in BOOLEAN /\ failures' \in 0 .. MaxFailures
  BY FinishSteps, LastSegmentsFact, FlushFact
<1>2. HeadersFirst'
  BY FinishSteps DEF ShapeInv, HeadersFirst
<1>. QED
  BY FinishSteps, <1>1, <1>2, FlushShape DEF ShapeInv, TypeOK, CallType

LEMMA ShapeStep == ShapeInv /\ [Next]_vars => ShapeInv'
<1>. SUFFICES ASSUME ShapeInv, [Next]_vars PROVE ShapeInv'
  OBVIOUS
<1>1. CASE PushLace
  BY <1>1, PushLaceShape
<1>2. CASE PushLast
  BY <1>2, PushLastShape
<1>3. CASE FlushMidPacket
  BY <1>3, FlushMidPacketShape
<1>4. CASE FlushHead
  BY <1>4, FlushHeadShape
<1>5. CASE FlushTags
  BY <1>5, FlushTagsShape
<1>6. ASSUME NEW bytes \in Targets, SetPageTarget(bytes) PROVE ShapeInv'
  BY <1>6, SetPageTargetShape
<1>7. ASSUME NEW size \in Sizes, NEW dur \in Durations, WritePacket(size, dur)
      PROVE  ShapeInv'
  BY <1>7, WritePacketShape
<1>8. CASE WritePacketRefused
  BY <1>8, WritePacketRefusedShape
<1>9. CASE FinishInPlace
  BY <1>9, FinishShape
<1>10. CASE UNCHANGED vars
  BY <1>10 DEF vars, page, ShapeInv, TypeOK, PayloadBound, HeadersFirst
<1>. QED
  BY <1>1, <1>2, <1>3, <1>4, <1>5, <1>6, <1>7, <1>8, <1>9, <1>10 DEF Next

(* The muxer's types, its page limits and its page target, for every       *)
(* lacing limit and every pattern of refused writes.                       *)
THEOREM WriterTyping == Spec => []TypeOK
<1>1. ShapeInv => TypeOK
  BY DEF ShapeInv
<1>. QED
  BY InitShape, ShapeStep, <1>1, PTL DEF Spec

(***************************************************************************)
(* What the assembled page ends on.  Until a packet has been cut by a      *)
(* refused write: between calls the page ends on a complete packet, a push *)
(* starts with room in the table, and one that is under way has just put a *)
(* full lacing value there.  A stream with audio in it has its last packet *)
(* still pending, so that finish has a page to flag.                       *)
(***************************************************************************)
LastSegment == segments[Len(segments)]

TableEnds ==
  ~orphan =>
    /\ call.op # "push" => segments = <<>> \/ LastSegment.lace < LaceMax
    /\ call.op = "push" /\ call.part = 0 => ~TableFull
    /\ call.op = "push" /\ call.part # 0 => segments = <<>> \/ LastSegment.lace = LaceMax

LastIsPending ==
  (~orphan /\ ~finished /\ call.op = "idle" /\ accepted # <<>>) =>
    /\ segments # <<>>
    /\ LastSegment.pkt = accepted[Len(accepted)]
    /\ pageGranule = granule

TableInv == TableEnds /\ LastIsPending

LEMMA InitTable == Init => TableInv
  BY LacingAssumption
  DEF Init, TableInv, TableEnds, LastIsPending, TableFull, Pushing, LastSegment

LEMMA PushLaceTable ==
  ASSUME ShapeInv, PushLace
  PROVE  TableInv'
<1>1. /\ call.op = "push" /\ ~TableFull
      /\ segments' = Append(segments, Segment(LaceMax))
      /\ payload' = payload + LaceMax
      /\ call' = [call EXCEPT !.left = @ - LaceMax, !.part = @ + 1]
  BY DEF PushLace
<1>2. segments'[Len(segments')] = Segment(LaceMax)
  BY <1>1, SegmentFact, LacingAssumption
<1>3. call'.op = "push" /\ call'.part # 0
  <2>1. call \in CallType
    BY DEF ShapeInv, TypeOK, CallType
  <2>2. call'.op = "push" /\ call'.part = call.part + 1 /\ call.part \in Nat
    BY <1>1, <2>1 DEF CallType
  <2>. QED
    BY <2>2
<1>4. LastSegment'.lace = LaceMax
  BY <1>2 DEF LastSegment, Segment
<1>. QED
  BY <1>3, <1>4 DEF TableInv, TableEnds, LastIsPending

LEMMA PushLastTable ==
  ASSUME ShapeInv, PushLast
  PROVE  TableInv'
<1>1. /\ call.op = "push" /\ ~TableFull /\ call.left < LaceMax
      /\ segments' = Append(segments, Segment(call.left))
      /\ payload' = payload + call.left
  BY DEF PushLast
<1>2. call \in CallType /\ accepted \in Seq(Nat)
  BY DEF ShapeInv, TypeOK, CallType
<1>3. call.left \in 0 .. LaceMax
  BY <1>1, <1>2, LacingAssumption DEF CallType
<1>4. /\ segments' # <<>> /\ LastSegment' = Segment(call.left)
  BY <1>1, <1>3, SegmentFact DEF LastSegment
<1>5. LastSegment'.lace < LaceMax /\ LastSegment'.pkt = call.pkt
  BY <1>1, <1>4 DEF Segment
<1>6. CASE call.pkt >= FirstAudio
  <2>1. /\ pageGranule' = granule' /\ call' = Idle
        /\ accepted' = Append(accepted, call.pkt)
    BY <1>6 DEF PushLast
  <2>2. call.pkt \in Nat
    BY <1>2 DEF CallType
  <2>3. accepted'[Len(accepted')] = call.pkt
    BY <1>2, <2>1, <2>2
  <2>4. call'.op = "idle"
    BY <2>1 DEF Idle
  <2>. QED
    BY <1>4, <1>5, <2>1, <2>3, <2>4 DEF TableInv, TableEnds, LastIsPending
<1>7. CASE ~(call.pkt >= FirstAudio)
  <2>1. call' = [call EXCEPT !.op = "header"]
    BY <1>7 DEF PushLast
  <2>2. call'.op = "header"
    BY <1>2, <2>1 DEF CallType
  <2>. QED
    BY <1>5, <2>2 DEF TableInv, TableEnds, LastIsPending
<1>. QED
  BY <1>6, <1>7

LEMMA FlushMidPacketTable ==
  ASSUME FlushMidPacket
  PROVE  TableInv'
<1>1. CASE /\ Written(PageWith(FALSE, FALSE, pageGranule, segments), TRUE)
           /\ UNCHANGED <<call, orphan>>
  <2>1. segments' = <<>> /\ call'.op = "push"
    BY <1>1 DEF FlushMidPacket, Written
  <2>. QED
    BY <2>1, LacingAssumption DEF TableInv, TableEnds, LastIsPending, TableFull
<1>2. CASE orphan' = TRUE
  BY <1>2 DEF TableInv, TableEnds, LastIsPending
<1>. QED
  BY <1>1, <1>2 DEF FlushMidPacket

LEMMA FlushHeadTable ==
  ASSUME ShapeInv, TableInv, FlushHead
  PROVE  TableInv'
<1>1. accepted' = <<>>
  BY DEF FlushHead, ShapeInv, HeadersFirst, FirstAudio
<1>2. CASE Written(PageWith(TRUE, FALSE, 0, segments), FALSE)
  <2>1. segments' = <<>>
    BY <1>2 DEF Written
  <2>. QED
    BY <1>1, <2>1, LacingAssumption DEF TableInv, TableEnds, LastIsPending, TableFull
<1>3. CASE Refused(PageWith(TRUE, FALSE, 0, segments)) /\ call' = Idle
  <2>1. segments' = segments /\ call'.op = "idle" /\ call.op = "header" /\ orphan' = orphan
    BY <1>3 DEF Refused, PageWith, Idle, FlushHead
  <2>. QED
    BY <1>1, <2>1 DEF TableInv, TableEnds, LastIsPending, LastSegment
<1>. QED
  BY <1>2, <1>3 DEF FlushHead

LEMMA FlushTagsTable ==
  ASSUME ShapeInv, TableInv, FlushTags
  PROVE  TableInv'
<1>1. accepted' = <<>> /\ call'.op = "idle" /\ call.op = "header" /\ orphan' = orphan
  BY DEF FlushTags, ShapeInv, HeadersFirst, FirstAudio, Idle
<1>2. segments' = <<>> \/ segments' = segments
  BY DEF FlushTags, Written, Refused, PageWith
<1>. QED
  BY <1>1, <1>2 DEF TableInv, TableEnds, LastIsPending, LastSegment

LEMMA WritePacketTable ==
  ASSUME TableInv, NEW size \in Sizes, NEW dur \in Durations, WritePacket(size, dur)
  PROVE  TableInv'
<1>1. call'.op = "push" /\ call'.part = 0 /\ orphan' = orphan
  BY DEF WritePacket, Pushing
<1>2. ~TableFull'
  <2>1. CASE PageFull
    BY <2>1, LacingAssumption DEF WritePacket, Written, TableFull
  <2>2. CASE ~PageFull
    BY <2>2 DEF WritePacket, PageFull, TableFull, page
  <2>. QED
    BY <2>1, <2>2
<1>. QED
  BY <1>1, <1>2 DEF TableInv, TableEnds, LastIsPending

LEMMA FinishTable ==
  ASSUME TableInv, FinishInPlace
  PROVE  TableInv'
<1>1. finished' = TRUE /\ call'.op = "idle" /\ call.op = "idle" /\ orphan' = orphan
  BY FinishSteps
<1>2. segments' = <<>> \/ segments' = LastSegments
  BY FinishSteps DEF Written, Refused, PageWith
<1>3. ~orphan' => segments' = <<>> \/ LastSegment'.lace < LaceMax
  BY <1>1, <1>2, LacingAssumption DEF TableInv, TableEnds, LastSegment, LastSegments
<1>. QED
  BY <1>1, <1>3 DEF TableInv, TableEnds, LastIsPending

LEMMA TableStep == ShapeInv /\ TableInv /\ [Next]_vars => TableInv'
<1>. SUFFICES ASSUME ShapeInv, TableInv, [Next]_vars PROVE TableInv'
  OBVIOUS
<1>1. CASE PushLace
  BY <1>1, PushLaceTable
<1>2. CASE PushLast
  BY <1>2, PushLastTable
<1>3. CASE FlushMidPacket
  BY <1>3, FlushMidPacketTable
<1>4. CASE FlushHead
  BY <1>4, FlushHeadTable
<1>5. CASE FlushTags
  BY <1>5, FlushTagsTable
<1>6. ASSUME NEW bytes \in Targets, SetPageTarget(bytes) PROVE TableInv'
  BY <1>6 DEF SetPageTarget, page, TableInv, TableEnds, LastIsPending, LastSegment, TableFull
<1>7. ASSUME NEW size \in Sizes, NEW dur \in Durations, WritePacket(size, dur)
      PROVE  TableInv'
  BY <1>7, WritePacketTable
<1>8. CASE WritePacketRefused
  BY <1>8 DEF WritePacketRefused, Refused, PageWith,
              TableInv, TableEnds, LastIsPending, LastSegment, TableFull
<1>9. CASE FinishInPlace
  BY <1>9, FinishTable
<1>10. CASE UNCHANGED vars
  BY <1>10 DEF vars, page, TableInv, TableEnds, LastIsPending, LastSegment, TableFull
<1>. QED
  BY <1>1, <1>2, <1>3, <1>4, <1>5, <1>6, <1>7, <1>8, <1>9, <1>10 DEF Next

(***************************************************************************)
(* The sink.  A step leaves it alone or adds one page, numbered and        *)
(* flagged as the writer stands; only a whole page moves the writer on.    *)
(***************************************************************************)
LastPage == sink[Len(sink)]

Closes(pg) ==
  /\ pg.granule = granule
  /\ accepted # <<>> /\ accepted[Len(accepted)] \in CompletedOn(pg)

Grows(pg) ==
  /\ pg \in PageType /\ pg.sequence = sequence /\ pg.continued = continued
  /\ sink' = Append(sink, pg)
  /\ IF pg.whole
     THEN /\ sequence' = sequence + 1
          /\ ~orphan' => (continued' <=> EndsInsidePacket(pg))
     ELSE UNCHANGED <<sequence, continued>>
  /\ ~finished /\ (pg.eos <=> finished')
  /\ (pg.eos /\ ~orphan /\ accepted # <<>>) => Closes(pg)
  /\ pg.eos => UNCHANGED <<granule, accepted, orphan>>

SinkStep ==
  /\ orphan => orphan'
  /\ UNCHANGED <<sink, sequence, continued>> \/ \E pg \in PageType : Grows(pg)

(* One flush, whichever way it goes.                                       *)
LEMMA FlushSink ==
  ASSUME ShapeInv, ~finished, orphan => orphan',
         NEW bos \in BOOLEAN, NEW eos \in BOOLEAN, NEW g \in Int,
         NEW segs \in Seq(SegmentType) \ {<<>>}, NEW resumes \in BOOLEAN,
         \/ /\ Written(PageWith(bos, eos, g, segs), resumes)
            /\ ~orphan' => (resumes <=> segs[Len(segs)].lace = LaceMax)
         \/ Refused(PageWith(bos, eos, g, segs)),
         eos <=> finished',
         (eos /\ ~orphan /\ accepted # <<>>) =>
            /\ g = granule
            /\ segs[Len(segs)].lace < LaceMax
            /\ segs[Len(segs)].pkt = accepted[Len(accepted)],
         eos => UNCHANGED <<granule, accepted, orphan>>
  PROVE  SinkStep
<1>. DEFINE pg   == PageWith(bos, eos, g, segs)
            torn == [pg EXCEPT !.whole = FALSE]
<1>1. pg \in PageType /\ torn \in PageType
  BY PageFact DEF ShapeInv
<1>2. /\ pg.sequence = sequence /\ pg.continued = continued /\ pg.whole = TRUE
      /\ pg.eos = eos /\ pg.segments = segs /\ pg.granule = g
      /\ torn.sequence = sequence /\ torn.continued = continued /\ torn.whole = FALSE
      /\ torn.eos = eos /\ torn.segments = segs /\ torn.granule = g
  BY DEF PageWith
<1>3. EndsInsidePacket(pg) <=> segs[Len(segs)].lace = LaceMax
  BY <1>2 DEF EndsInsidePacket
<1>4. ASSUME NEW q \in {pg, torn}, eos, ~orphan, accepted # <<>> PROVE Closes(q)
  <2>. DEFINE n == Len(segs)
  <2>1. q.granule = granule /\ q.segments = segs
    BY <1>2, <1>4
  <2>2. n \in DOMAIN segs
    OBVIOUS
  <2>3. accepted[Len(accepted)] # NoPacket
    <3>1. accepted \in Seq(Nat) /\ accepted # <<>>
      BY <1>4 DEF ShapeInv, TypeOK
    <3>2. accepted[Len(accepted)] \in Nat
      BY <3>1
    <3>. QED
      BY <3>2 DEF NoPacket
  <2>4. Completes(segs[n])
    BY <1>4, <2>3 DEF Completes
  <2>5. accepted[Len(accepted)] \in CompletedOn(q)
    BY <1>4, <2>1, <2>2, <2>4 DEF CompletedOn, CompletedBy
  <2>. QED
    BY <1>4, <2>1, <2>5 DEF Closes
<1>. HIDE DEF pg, torn
<1>5. CASE Written(pg, resumes) /\ (~orphan' => (resumes <=> segs[Len(segs)].lace = LaceMax))
  <2>1. sink' = Append(sink, pg) /\ sequence' = sequence + 1 /\ continued' = resumes
    BY <1>5 DEF Written
  <2>2. Grows(pg)
    BY <1>1, <1>2, <1>3, <1>4, <1>5, <2>1 DEF Grows
  <2>. QED
    BY <1>1, <2>2 DEF SinkStep
<1>6. CASE Refused(pg)
  <2>1. UNCHANGED <<sequence, continued>> /\ sink' \in {sink, Append(sink, torn)}
    BY <1>6 DEF Refused, torn
  <2>2. CASE sink' = Append(sink, torn)
    <3>1. Grows(torn)
      BY <1>1, <1>2, <1>4, <2>1, <2>2 DEF Grows
    <3>. QED
      BY <1>1, <3>1 DEF SinkStep
  <2>3. CASE sink' = sink
    BY <2>1, <2>3 DEF SinkStep
  <2>. QED
    BY <2>1, <2>2, <2>3
<1>. QED
  BY <1>5, <1>6 DEF pg

LEMMA FlushMidPacketSink ==
  ASSUME ShapeInv, TableInv, FlushMidPacket
  PROVE  SinkStep
<1>1. /\ call.op = "push" /\ TableFull /\ finished' = finished
      /\ \/ /\ Written(PageWith(FALSE, FALSE, pageGranule, segments), TRUE)
            /\ UNCHANGED <<call, orphan>>
         \/ /\ Refused(PageWith(FALSE, FALSE, pageGranule, segments))
            /\ call' = Idle /\ orphan' = TRUE
  BY DEF FlushMidPacket
<1>2. /\ segments # <<>> /\ ~finished
  BY <1>1, LacingAssumption DEF TableFull, ShapeInv, HeadersFirst
<1>3. ~orphan => LastSegment.lace = LaceMax
  BY <1>1, <1>2 DEF TableInv, TableEnds
<1>4. /\ orphan => orphan'
      /\ \/ /\ Written(PageWith(FALSE, FALSE, pageGranule, segments), TRUE)
            /\ ~orphan' => (TRUE <=> segments[Len(segments)].lace = LaceMax)
         \/ Refused(PageWith(FALSE, FALSE, pageGranule, segments))
  <2>1. CASE /\ Written(PageWith(FALSE, FALSE, pageGranule, segments), TRUE)
             /\ UNCHANGED <<call, orphan>>
    <3>1. orphan' = orphan
      BY <2>1
    <3>2. ~orphan' => (TRUE <=> segments[Len(segments)].lace = LaceMax)
      BY <1>3, <3>1 DEF LastSegment
    <3>3. orphan => orphan'
      BY <3>1
    <3>4. Written(PageWith(FALSE, FALSE, pageGranule, segments), TRUE)
      BY <2>1
    <3>. QED
      BY <3>2, <3>3, <3>4, Zenon
  <2>2. CASE /\ Refused(PageWith(FALSE, FALSE, pageGranule, segments))
             /\ call' = Idle /\ orphan' = TRUE
    BY <2>2, Zenon
  <2>. QED
    BY <1>1, <2>1, <2>2
<1>. QED
  BY <1>1, <1>2, <1>4, TableFact, FlushSink

(* A flush that ends the page on a complete packet.                        *)
LEMMA WholePacketsSink ==
  ASSUME ShapeInv, TableInv, ~finished, ~finished', orphan' = orphan,
         call.op # "push", segments # <<>>,
         NEW bos \in BOOLEAN, NEW g \in Int,
         \/ Written(PageWith(bos, FALSE, g, segments), FALSE)
         \/ Refused(PageWith(bos, FALSE, g, segments))
  PROVE  SinkStep
<1>1. ~orphan => LastSegment.lace < LaceMax
  BY DEF TableInv, TableEnds
<1>2. LastSegment \in SegmentType
  BY TableFact DEF LastSegment
<1>3. ~orphan' => (FALSE <=> segments[Len(segments)].lace = LaceMax)
  BY <1>1, <1>2, LacingAssumption DEF LastSegment, SegmentType
<1>4. CASE Written(PageWith(bos, FALSE, g, segments), FALSE)
  BY <1>3, <1>4, TableFact, FlushSink
<1>5. CASE Refused(PageWith(bos, FALSE, g, segments))
  BY <1>5, TableFact, FlushSink
<1>. QED
  BY <1>4, <1>5

LEMMA FinishSink ==
  ASSUME ShapeInv, TableInv, FinishInPlace
  PROVE  SinkStep
<1>1. /\ ~finished /\ finished' = TRUE /\ call.op = "idle"
      /\ UNCHANGED <<granule, accepted, orphan>>
      /\ \/ Written(PageWith(FALSE, TRUE, pageGranule, LastSegments), FALSE)
         \/ Refused(PageWith(FALSE, TRUE, pageGranule, LastSegments))
  BY FinishSteps
<1>. DEFINE last == LastSegments[Len(LastSegments)]
<1>2. ~orphan => last.lace < LaceMax
  BY <1>1, LacingAssumption DEF TableInv, TableEnds, LastSegment, LastSegments
<1>3. last \in SegmentType
  BY LastSegmentsFact
<1>4. ~orphan' => (FALSE <=> last.lace = LaceMax)
  BY <1>1, <1>2, <1>3, LacingAssumption DEF SegmentType
<1>5. (~orphan /\ accepted # <<>>) =>
         pageGranule = granule /\ last.lace < LaceMax /\ last.pkt = accepted[Len(accepted)]
  <2>. SUFFICES ASSUME ~orphan, accepted # <<>>
                PROVE  pageGranule = granule /\ last.pkt = accepted[Len(accepted)]
    BY <1>2
  <2>1. /\ segments # <<>> /\ LastSegment.pkt = accepted[Len(accepted)]
        /\ pageGranule = granule
    BY <1>1 DEF TableInv, LastIsPending
  <2>. QED
    BY <2>1 DEF LastSegments, LastSegment
<1>6. CASE Written(PageWith(FALSE, TRUE, pageGranule, LastSegments), FALSE)
  BY <1>1, <1>4, <1>5, <1>6, LastSegmentsFact, FlushSink
<1>7. CASE Refused(PageWith(FALSE, TRUE, pageGranule, LastSegments))
  BY <1>1, <1>5, <1>7, LastSegmentsFact, FlushSink
<1>. QED
  BY <1>1, <1>6, <1>7

LEMMA EveryStepSink == ShapeInv /\ TableInv /\ [Next]_vars => SinkStep
<1>. SUFFICES ASSUME ShapeInv, TableInv, [Next]_vars PROVE SinkStep
  OBVIOUS
<1>1. CASE PushLace
  BY <1>1 DEF PushLace, SinkStep
<1>2. CASE PushLast
  BY <1>2 DEF PushLast, SinkStep
<1>3. CASE FlushMidPacket
  BY <1>3, FlushMidPacketSink
<1>4. CASE FlushHead
  <2>1. /\ call.op = "header" /\ UNCHANGED <<finished, orphan>>
        /\ \/ Written(PageWith(TRUE, FALSE, 0, segments), FALSE)
           \/ Refused(PageWith(TRUE, FALSE, 0, segments))
    BY <1>4 DEF FlushHead
  <2>2. segments # <<>> /\ ~finished /\ 0 \in Int
    BY <2>1 DEF ShapeInv, HeadersFirst
  <2>. QED
    BY <2>1, <2>2, WholePacketsSink
<1>5. CASE FlushTags
  <2>1. /\ call.op = "header" /\ UNCHANGED <<finished, orphan>>
        /\ \/ Written(PageWith(FALSE, FALSE, 0, segments), FALSE)
           \/ Refused(PageWith(FALSE, FALSE, 0, segments))
    BY <1>5 DEF FlushTags
  <2>2. segments # <<>> /\ ~finished /\ 0 \in Int
    BY <2>1 DEF ShapeInv, HeadersFirst
  <2>. QED
    BY <2>1, <2>2, WholePacketsSink
<1>6. ASSUME NEW bytes \in Targets, SetPageTarget(bytes) PROVE SinkStep
  BY <1>6 DEF SetPageTarget, page, SinkStep
<1>7. ASSUME NEW size \in Sizes, NEW dur \in Durations, WritePacket(size, dur)
      PROVE  SinkStep
  <2>1. CASE PageFull
    <3>1. segments # <<>> /\ pageGranule \in Int
      BY <2>1, FullPageFact, TableFact
    <3>2. /\ call.op # "push" /\ ~finished /\ UNCHANGED <<finished, orphan>>
          /\ Written(PageWith(FALSE, FALSE, pageGranule, segments), FALSE)
      BY <1>7, <2>1 DEF WritePacket, Ready
    <3>. QED
      BY <3>1, <3>2, WholePacketsSink
  <2>2. CASE ~PageFull
    BY <1>7, <2>2 DEF WritePacket, page, SinkStep
  <2>. QED
    BY <2>1, <2>2
<1>8. CASE WritePacketRefused
  <2>1. segments # <<>> /\ pageGranule \in Int
    BY <1>8, FullPageFact, TableFact DEF WritePacketRefused
  <2>2. /\ call.op # "push" /\ ~finished /\ UNCHANGED <<finished, orphan>>
        /\ Refused(PageWith(FALSE, FALSE, pageGranule, segments))
    BY <1>8 DEF WritePacketRefused, Ready
  <2>. QED
    BY <2>1, <2>2, WholePacketsSink
<1>9. CASE FinishInPlace
  BY <1>9, FinishSink
<1>10. CASE UNCHANGED vars
  BY <1>10 DEF vars, page, SinkStep
<1>. QED
  BY <1>1, <1>2, <1>3, <1>4, <1>5, <1>6, <1>7, <1>8, <1>9, <1>10 DEF Next

(* Once finished, always finished: nothing is left to step.                *)
LEMMA FinishedIsFinal ==
  ASSUME ShapeInv, finished, [Next]_vars
  PROVE  UNCHANGED vars
<1>1. call.op = "idle"
  BY DEF ShapeInv, HeadersFirst
<1>. QED
  BY <1>1 DEF Next, PushLace, PushLast, FlushMidPacket, FlushHead, FlushTags,
              SetPageTarget, WritePacket, WritePacketRefused, FinishInPlace, Ready

(***************************************************************************)
(* The inductive invariant of the sink.  The writer's own counters and     *)
(* flag describe the page that would come next.                            *)
(***************************************************************************)
NextPage ==
  IF sink = <<>>
  THEN sequence = 0 /\ continued = FALSE
  ELSE /\ sequence = LastPage.sequence + (IF LastPage.whole THEN 1 ELSE 0)
       /\ ~orphan => (continued <=> IF LastPage.whole THEN EndsInsidePacket(LastPage)
                                                      ELSE LastPage.continued)

WriterInv ==
  /\ ShapeInv /\ TableInv
  /\ NextPage /\ PagesNumbered /\ ContinuationExact /\ EosClosesTheStream

LEMMA InitWriter == Init => WriterInv
<1>. SUFFICES ASSUME Init PROVE WriterInv
  OBVIOUS
<1>1. sink = <<>> /\ DOMAIN sink = {}
  BY DEF Init
<1>2. NextPage
  BY <1>1 DEF Init, NextPage
<1>3. PagesNumbered /\ ContinuationExact /\ EosClosesTheStream
  BY <1>1 DEF PagesNumbered, ContinuationExact, EosClosesTheStream
<1>. QED
  BY <1>2, <1>3, InitShape, InitTable DEF WriterInv

(* The pages of a sink that has grown by one.                              *)
LEMMA GrownSink ==
  ASSUME NEW s \in Seq(PageType), NEW pg \in PageType
  PROVE  /\ Append(s, pg) \in Seq(PageType) /\ Append(s, pg) # <<>>
         /\ Len(Append(s, pg)) = Len(s) + 1 /\ Len(s) \in Nat
         /\ DOMAIN Append(s, pg) = DOMAIN s \cup {Len(s) + 1}
         /\ DOMAIN s = 1 .. Len(s)
         /\ \A i \in DOMAIN s : Append(s, pg)[i] = s[i]
         /\ Append(s, pg)[Len(s) + 1] = pg
         /\ s = <<>> <=> Len(s) = 0
  OBVIOUS

LEMMA GrowsInv ==
  ASSUME WriterInv, [Next]_vars, orphan => orphan',
         NEW pg \in PageType, Grows(pg)
  PROVE  NextPage' /\ PagesNumbered' /\ ContinuationExact' /\ EosClosesTheStream'
<1>. DEFINE n == Len(sink)
<1>1. sink \in Seq(PageType) /\ sink' = Append(sink, pg) /\ sequence \in Nat
  BY DEF WriterInv, ShapeInv, TypeOK, Grows
<1>2. /\ sink' # <<>> /\ Len(sink') = n + 1 /\ n \in Nat
      /\ DOMAIN sink' = DOMAIN sink \cup {n + 1} /\ DOMAIN sink = 1 .. n
      /\ \A i \in DOMAIN sink : sink'[i] = sink[i]
      /\ sink'[n + 1] = pg
      /\ sink = <<>> <=> n = 0
  BY <1>1, GrownSink
<1>3. LastPage' = pg
  BY <1>2 DEF LastPage
<1>4. NextPage'
  BY <1>1, <1>2, <1>3, SMTT(30) DEF Grows, NextPage, PageType
<1>5. PagesNumbered'
  <2>. SUFFICES ASSUME NEW i \in DOMAIN sink'
                PROVE  sink'[i].sequence =
                         IF i = 1 THEN 0
                         ELSE sink'[i - 1].sequence + (IF sink'[i - 1].whole THEN 1 ELSE 0)
    BY DEF PagesNumbered
  <2>1. CASE i \in DOMAIN sink
    <3>1. sink'[i] = sink[i] /\ (i # 1 => i - 1 \in DOMAIN sink /\ sink'[i - 1] = sink[i - 1])
      BY <1>2, <2>1
    <3>. QED
      BY <2>1, <3>1 DEF WriterInv, PagesNumbered
  <2>2. CASE i = n + 1 /\ n = 0
    BY <1>2, <2>2 DEF WriterInv, NextPage, Grows
  <2>3. CASE i = n + 1 /\ n # 0
    <3>1. sink'[i] = pg /\ i # 1 /\ i - 1 = n /\ sink'[n] = LastPage /\ sink # <<>>
      BY <1>2, <2>3 DEF LastPage
    <3>. QED
      BY <3>1 DEF WriterInv, NextPage, Grows
  <2>. QED
    BY <1>2, <2>1, <2>2, <2>3
<1>6. ContinuationExact'
  <2>. SUFFICES ASSUME ~orphan', NEW i \in DOMAIN sink'
                PROVE  sink'[i].continued <=>
                         /\ i > 1
                         /\ IF sink'[i - 1].whole THEN EndsInsidePacket(sink'[i - 1])
                                                  ELSE sink'[i - 1].continued
    BY DEF ContinuationExact, EndsInsidePacket
  <2>1. CASE i \in DOMAIN sink
    <3>1. sink'[i] = sink[i] /\ (i > 1 => i - 1 \in DOMAIN sink /\ sink'[i - 1] = sink[i - 1])
      BY <1>2, <2>1
    <3>. QED
      BY <2>1, <3>1 DEF WriterInv, ContinuationExact
  <2>2. CASE i = n + 1 /\ n = 0
    <3>1. sink'[i] = pg /\ ~(i > 1) /\ sink = <<>>
      BY <1>2, <2>2
    <3>. QED
      BY <3>1 DEF WriterInv, NextPage, Grows
  <2>3. CASE i = n + 1 /\ n # 0
    <3>1. sink'[i] = pg /\ i > 1 /\ i - 1 = n /\ sink'[n] = LastPage /\ sink # <<>>
      BY <1>2, <2>3 DEF LastPage
    <3>. QED
      BY <3>1 DEF WriterInv, NextPage, Grows
  <2>. QED
    BY <1>2, <2>1, <2>2, <2>3
<1>7. EosClosesTheStream'
  <2>. SUFFICES ASSUME NEW i \in DOMAIN sink', sink'[i].eos
                PROVE  /\ i = Len(sink') /\ finished'
                       /\ (~orphan' /\ accepted' # <<>>) =>
                             /\ sink'[i].granule = granule'
                             /\ accepted'[Len(accepted')] \in CompletedOn(sink'[i])
    BY DEF EosClosesTheStream, CompletedOn, CompletedBy, Completes
  <2>1. ~finished
    BY DEF Grows
  <2>2. i \notin DOMAIN sink
    BY <1>2, <2>1 DEF WriterInv, EosClosesTheStream
  <2>3. i = n + 1 /\ sink'[i] = pg /\ pg.eos
    BY <1>2, <2>2
  <2>4. UNCHANGED <<granule, accepted, orphan>> /\ finished'
    BY <2>3 DEF Grows
  <2>. QED
    BY <1>2, <2>3, <2>4 DEF Grows, Closes
<1>. QED
  BY <1>4, <1>5, <1>6, <1>7

LEMMA WriterStep == WriterInv /\ [Next]_vars => WriterInv'
<1>. SUFFICES ASSUME WriterInv, [Next]_vars PROVE WriterInv'
  OBVIOUS
<1>1. ShapeInv' /\ TableInv'
  BY ShapeStep, TableStep DEF WriterInv
<1>2. SinkStep
  BY EveryStepSink DEF WriterInv
<1>3. ASSUME NEW pg \in PageType, Grows(pg)
      PROVE  NextPage' /\ PagesNumbered' /\ ContinuationExact' /\ EosClosesTheStream'
  BY <1>2, <1>3, GrowsInv DEF SinkStep
<1>4. CASE UNCHANGED <<sink, sequence, continued>>
  <2>1. NextPage' /\ PagesNumbered' /\ ContinuationExact'
    BY <1>2, <1>4 DEF SinkStep, WriterInv, NextPage, LastPage, PagesNumbered,
                      ContinuationExact, EndsInsidePacket
  <2>2. EosClosesTheStream'
    <3>1. CASE finished
      <4>1. UNCHANGED vars
        BY <3>1, FinishedIsFinal DEF WriterInv
      <4>. QED
        BY <4>1 DEF vars, WriterInv, EosClosesTheStream, CompletedOn, CompletedBy, Completes
    <3>2. CASE ~finished
      BY <1>4, <3>2 DEF WriterInv, EosClosesTheStream
    <3>. QED
      BY <3>1, <3>2
  <2>. QED
    BY <1>1, <2>1, <2>2 DEF WriterInv
<1>. QED
  BY <1>1, <1>2, <1>3, <1>4 DEF SinkStep, WriterInv

(* The whole pages in the sink are numbered without gap or repeat, however *)
(* many writes the sink refuses and the caller retries.                    *)
THEOREM PagesAreNumbered == Spec => []PagesNumbered
<1>1. WriterInv => PagesNumbered
  BY DEF WriterInv
<1>. QED
  BY InitWriter, WriterStep, <1>1, PTL DEF Spec

(* A page says it resumes a packet exactly when the one before it stopped  *)
(* inside one, until a refused write has cut a packet.                     *)
THEOREM ContinuationIsExact == Spec => []ContinuationExact
<1>1. WriterInv => ContinuationExact
  BY DEF WriterInv
<1>. QED
  BY InitWriter, WriterStep, <1>1, PTL DEF Spec

(* Nothing follows the end-of-stream page, and it completes the last       *)
(* packet at the final granule.                                            *)
THEOREM EosIsLast == Spec => []EosClosesTheStream
<1>1. WriterInv => EosClosesTheStream
  BY DEF WriterInv
<1>. QED
  BY InitWriter, WriterStep, <1>1, PTL DEF Spec

(***************************************************************************)
(* Granules.  A page, written or being assembled, is stamped with the end  *)
(* of the last packet its segments complete; the packet that will complete *)
(* next, and so be given an end, is not on it.                             *)
(***************************************************************************)
Stamped(g, segs, next, ends) ==
  /\ \A p \in CompletedBy(segs) : p < next
  /\ IF CompletedBy(segs) = {} THEN g = NoGranule
     ELSE \E p \in CompletedBy(segs) : g = ends[p] /\ \A q \in CompletedBy(segs) : q <= p

NextToComplete == IF call.op = "push" THEN call.pkt ELSE pushed

PagesStamped ==
  (finished => opened) =>
    \A i \in DOMAIN sink :
      Stamped(sink[i].granule, sink[i].segments, NextToComplete, endsAt)

(* The table before there is a writer holds a header or the start of one.  *)
TableStamped ==
  /\ opened => Stamped(pageGranule, segments, NextToComplete, endsAt)
  /\ (~opened /\ call.op # "idle") => granule = 0 /\ pageGranule = NoGranule /\ call.dur = 0
  /\ (~opened /\ call.op = "push") => CompletedBy(segments) = {}
  /\ call.op = "header" => Stamped(0, segments, NextToComplete, endsAt)

StampInv == PagesStamped /\ TableStamped

LEMMA CompletedFact ==
  ASSUME NEW segs \in Seq(SegmentType)
  PROVE  /\ CompletedBy(<<>>) = {}
         /\ CompletedBy(segs) \subseteq Int
         /\ \A seg \in SegmentType :
              CompletedBy(Append(segs, seg)) =
                IF Completes(seg) THEN CompletedBy(segs) \cup {seg.pkt} ELSE CompletedBy(segs)
<1>1. CompletedBy(segs) \subseteq Int
  <2>. SUFFICES ASSUME NEW i \in DOMAIN segs PROVE segs[i].pkt \in Int
    BY DEF CompletedBy
  <2>1. segs[i] \in SegmentType
    OBVIOUS
  <2>. QED
    BY <2>1 DEF SegmentType
<1>2. ASSUME NEW seg \in SegmentType
      PROVE  CompletedBy(Append(segs, seg)) =
               IF Completes(seg) THEN CompletedBy(segs) \cup {seg.pkt} ELSE CompletedBy(segs)
  <2>. DEFINE more == Append(segs, seg)
              n    == Len(segs) + 1
  <2>1. /\ DOMAIN more = DOMAIN segs \cup {n} /\ more[n] = seg
        /\ \A i \in DOMAIN segs : more[i] = segs[i]
    OBVIOUS
  <2>. HIDE DEF more, n
  <2>2. ASSUME NEW p
        PROVE  p \in CompletedBy(more) <=>
                 p \in CompletedBy(segs) \/ (Completes(seg) /\ p = seg.pkt)
    <3>1. p \in CompletedBy(more) <=> \E i \in DOMAIN more : Completes(more[i]) /\ p = more[i].pkt
      BY Zenon DEF CompletedBy
    <3>2. p \in CompletedBy(segs) <=> \E i \in DOMAIN segs : Completes(segs[i]) /\ p = segs[i].pkt
      BY Zenon DEF CompletedBy
    <3>. QED
      BY <2>1, <3>1, <3>2, Zenon
  <2>. QED
    BY <2>2 DEF more
<1>3. CompletedBy(<<>>) = {}
  BY DEF CompletedBy
<1>. QED
  BY <1>1, <1>2, <1>3

LEMMA InitStamp == Init => StampInv
<1>. SUFFICES ASSUME Init PROVE StampInv
  OBVIOUS
<1>1. /\ sink = <<>> /\ segments = <<>> /\ ~opened /\ granule = 0 /\ pageGranule = NoGranule
      /\ call.op = "push" /\ call.dur = 0 /\ CompletedBy(segments) = {}
  BY DEF Init, Pushing, CompletedBy
<1>. QED
  BY <1>1 DEF StampInv, PagesStamped, TableStamped

(* Ends given to later packets change no stamp, and a page without a       *)
(* complete packet carries none.                                           *)
LEMMA StampStays ==
  ASSUME NEW segs \in Seq(SegmentType), NEW g, NEW n \in Nat, NEW m \in Nat, n <= m,
         NEW ends, NEW more, \A p \in Int : p < n => more[p] = ends[p],
         Stamped(g, segs, n, ends)
  PROVE  Stamped(g, segs, m, more)
<1>1. CompletedBy(segs) \subseteq Int
  BY CompletedFact
<1>2. \A p \in CompletedBy(segs) : p < n /\ p < m /\ more[p] = ends[p]
  BY <1>1 DEF Stamped
<1>. QED
  BY <1>2 DEF Stamped

LEMMA BareStamp ==
  ASSUME NEW segs \in Seq(SegmentType), CompletedBy(segs) = {}, NEW n, NEW ends
  PROVE  Stamped(NoGranule, segs, n, ends)
BY DEF Stamped

(* No step turns back to an earlier packet, or changes the end of one.     *)
LEMMA NextFact ==
  ASSUME ShapeInv
  PROVE  /\ call \in CallType /\ pushed \in Nat /\ call.pkt \in 0 .. MaxPackets + 1
         /\ call.pkt \in Nat /\ call.dur \in Nat /\ NextToComplete \in Nat
         /\ call.op # "idle" => pushed = call.pkt + 1
<1>1. call \in CallType /\ pushed \in 1 .. MaxPackets + 2
  BY DEF ShapeInv, TypeOK, CallType
<1>2. call.pkt \in 0 .. MaxPackets + 1 /\ call.dur \in Nat
  BY <1>1 DEF CallType
<1>3. call.pkt \in Nat /\ pushed \in Nat
  BY <1>1, <1>2, BoundAssumption
<1>. QED
  BY <1>1, <1>2, <1>3 DEF ShapeInv, HeadersFirst, NextToComplete

Onward ==
  /\ NextToComplete' \in Nat /\ NextToComplete <= NextToComplete'
  /\ \A p \in Int : p < NextToComplete => endsAt'[p] = endsAt[p]

LEMMA PushesOnward ==
  ASSUME ShapeInv, PushLace \/ PushLast
  PROVE  Onward
<1>1. /\ call.op = "push" /\ pushed' = pushed /\ NextToComplete = call.pkt
      /\ pushed = call.pkt + 1
  BY NextFact DEF PushLace, PushLast, NextToComplete
<1>2. CASE PushLace
  <2>1. call'.op = "push" /\ call'.pkt = call.pkt /\ endsAt' = endsAt
    BY <1>2, NextFact DEF PushLace, CallType
  <2>. QED
    BY <1>1, <2>1, NextFact DEF Onward, NextToComplete
<1>3. CASE PushLast
  <2>1. call'.op # "push"
    <3>1. CASE call.pkt >= FirstAudio
      BY <1>3, <3>1 DEF PushLast, Idle
    <3>2. CASE ~(call.pkt >= FirstAudio)
      BY <1>3, <3>2, NextFact DEF PushLast, CallType
    <3>. QED
      BY <3>1, <3>2
  <2>2. NextToComplete' = call.pkt + 1
    BY <1>1, <2>1 DEF NextToComplete
  <2>3. \A p \in Int : p < call.pkt => endsAt'[p] = endsAt[p]
    <3>1. endsAt' = [endsAt EXCEPT ![call.pkt] = granule + call.dur]
          /\ endsAt \in [0 .. MaxPackets + 1 -> Int]
      BY <1>3 DEF PushLast, ShapeInv, TypeOK
    <3>. QED
      BY <3>1, NextFact
  <2>. QED
    BY <1>1, <2>2, <2>3, NextFact DEF Onward
<1>. QED
  BY <1>2, <1>3

LEMMA FlushesOnward ==
  ASSUME ShapeInv, endsAt' = endsAt, pushed' \in Nat, pushed <= pushed',
         \/ call' = call \/ call' = Idle
         \/ /\ call'.op = "push" /\ call'.pkt = pushed /\ call.op # "push"
  PROVE  Onward
BY NextFact DEF Onward, NextToComplete, Idle

(* Pages that were stamped stay so when the sink gains nothing, or one     *)
(* more that is.                                                           *)
LEMMA PagesStay ==
  ASSUME ShapeInv, StampInv, Onward, ~finished, opened => opened',
         NEW g, NEW segs,
         \/ sink' = sink
         \/ /\ \E pg \in PageType :
                 pg.granule = g /\ pg.segments = segs /\ sink' = Append(sink, pg)
            /\ (finished' => opened') => Stamped(g, segs, NextToComplete', endsAt')
  PROVE  PagesStamped'
<1>1. sink \in Seq(PageType) /\ NextToComplete \in Nat
  BY NextFact DEF ShapeInv, TypeOK
<1>2. ASSUME NEW i \in DOMAIN sink
      PROVE  Stamped(sink[i].granule, sink[i].segments, NextToComplete', endsAt')
  <2>1. sink[i] \in PageType
    BY <1>1
  <2>2. sink[i].segments \in Seq(SegmentType)
    BY <2>1 DEF PageType
  <2>3. Stamped(sink[i].granule, sink[i].segments, NextToComplete, endsAt)
    BY DEF StampInv, PagesStamped
  <2>. QED
    BY <1>1, <2>2, <2>3, StampStays DEF Onward
<1>3. CASE sink' = sink
  BY <1>2, <1>3 DEF PagesStamped
<1>4. ASSUME NEW pg \in PageType,
             pg.granule = g, pg.segments = segs, sink' = Append(sink, pg),
             (finished' => opened') => Stamped(g, segs, NextToComplete', endsAt')
      PROVE  PagesStamped'
  <2>1. /\ DOMAIN sink' = DOMAIN sink \cup {Len(sink) + 1}
        /\ \A i \in DOMAIN sink : sink'[i] = sink[i]
        /\ sink'[Len(sink) + 1] = pg
    BY <1>1, <1>4, GrownSink
  <2>. SUFFICES ASSUME finished' => opened', NEW i \in DOMAIN sink'
                PROVE  Stamped(sink'[i].granule, sink'[i].segments, NextToComplete', endsAt')
    BY DEF PagesStamped
  <2>. QED
    BY <1>2, <1>4, <2>1
<1>. QED
  BY <1>3, <1>4

LEMMA FlushPages ==
  ASSUME ShapeInv, StampInv, Onward, ~finished, opened => opened',
         NEW bos \in BOOLEAN, NEW eos \in BOOLEAN, NEW g \in Int,
         NEW segs \in Seq(SegmentType) \ {<<>>}, NEW resumes,
         \/ Written(PageWith(bos, eos, g, segs), resumes)
         \/ Refused(PageWith(bos, eos, g, segs)),
         (finished' => opened') => Stamped(g, segs, NextToComplete', endsAt')
  PROVE  PagesStamped'
<1>. DEFINE pg   == PageWith(bos, eos, g, segs)
            torn == [pg EXCEPT !.whole = FALSE]
<1>1. pg \in PageType /\ torn \in PageType
  BY PageFact DEF ShapeInv
<1>2. /\ pg.segments = segs /\ pg.granule = g
      /\ torn.segments = segs /\ torn.granule = g
  BY DEF PageWith
<1>3. sink' = sink \/ sink' = Append(sink, pg) \/ sink' = Append(sink, torn)
  BY DEF Written, Refused
<1>. HIDE DEF pg, torn
<1>4. sink' = sink \/ \E q \in PageType :
                         q.granule = g /\ q.segments = segs /\ sink' = Append(sink, q)
  BY <1>1, <1>2, <1>3
<1>. QED
  BY <1>4, PagesStay

(* A written page leaves nothing to stamp; a refused one leaves it all.    *)
LEMMA WrittenTable ==
  ASSUME NEW pg, NEW resumes, Written(pg, resumes), call'.op # "header",
         (~opened' /\ call'.op # "idle") => granule' = 0 /\ call'.dur = 0
  PROVE  TableStamped'
<1>1. segments' = <<>> /\ pageGranule' = NoGranule /\ CompletedBy(<<>>) = {}
  BY DEF Written, CompletedBy
<1>2. CompletedBy(segments') = {} /\ <<>> \in Seq(SegmentType)
  BY <1>1
<1>3. Stamped(pageGranule', segments', NextToComplete', endsAt')
  BY <1>1, <1>2, BareStamp
<1>. QED
  BY <1>1, <1>2, <1>3 DEF TableStamped

LEMMA CompletedByLast ==
  ASSUME ShapeInv
  PROVE  CompletedBy(LastSegments) = CompletedBy(segments)
<1>1. CASE segments = <<>>
  <2>. DEFINE bare == [pkt |-> NoPacket, part |-> 0, lace |-> 0]
  <2>1. LastSegments = <<bare>> /\ DOMAIN <<bare>> = {1} /\ <<bare>>[1] = bare
    BY <1>1 DEF LastSegments
  <2>2. ~Completes(bare)
    BY DEF Completes
  <2>3. CompletedBy(<<bare>>) = {}
    <3>. HIDE DEF bare
    <3>. QED
      BY <2>1, <2>2, Zenon DEF CompletedBy
  <2>4. CompletedBy(segments) = {}
    BY <1>1 DEF CompletedBy
  <2>. QED
    BY <2>1, <2>3, <2>4
<1>. QED
  BY <1>1 DEF LastSegments

LEMMA RefusedTable ==
  ASSUME ShapeInv, StampInv, Onward, segments' \in {segments, LastSegments},
         pageGranule' = pageGranule,
         call'.op = "idle", opened' = opened
  PROVE  TableStamped'
<1>1. segments \in Seq(SegmentType)
  BY DEF ShapeInv, TypeOK
<1>2. opened => Stamped(pageGranule, segments, NextToComplete, endsAt)
  BY DEF StampInv, TableStamped
<1>3. opened => Stamped(pageGranule, segments, NextToComplete', endsAt')
  BY <1>1, <1>2, StampStays, NextFact DEF Onward
<1>4. CompletedBy(segments') = CompletedBy(segments)
  BY CompletedByLast
<1>. QED
  BY <1>3, <1>4 DEF TableStamped, Stamped

LEMMA PushLaceStamp ==
  ASSUME ShapeInv, StampInv, PushLace
  PROVE  StampInv'
<1>1. /\ call.op = "push" /\ sink' = sink /\ segments' = Append(segments, Segment(LaceMax))
      /\ UNCHANGED <<granule, pageGranule, finished, opened, endsAt>>
      /\ call' = [call EXCEPT !.left = @ - LaceMax, !.part = @ + 1]
  BY DEF PushLace
<1>2. call'.op = "push" /\ call'.pkt = call.pkt /\ call'.dur = call.dur
  BY <1>1, NextFact DEF CallType
<1>3. NextToComplete' = NextToComplete
  BY <1>1, <1>2 DEF NextToComplete
<1>4. segments \in Seq(SegmentType) /\ Segment(LaceMax) \in SegmentType
  BY NextFact, LacingAssumption DEF ShapeInv, TypeOK, Segment, SegmentType, CallType
<1>5. ~Completes(Segment(LaceMax))
  BY LacingAssumption DEF Completes, Segment
<1>6. CompletedBy(segments') = CompletedBy(segments)
  BY <1>1, <1>4, <1>5, CompletedFact
<1>7. TableStamped'
  BY <1>1, <1>2, <1>3, <1>6 DEF StampInv, TableStamped, Stamped
<1>8. PagesStamped'
  BY <1>1, <1>3 DEF StampInv, PagesStamped
<1>. QED
  BY <1>7, <1>8 DEF StampInv

(* The packet completes after all that the table completes already.        *)
LEMMA PushLastStamp ==
  ASSUME ShapeInv, StampInv, PushLast
  PROVE  StampInv'
<1>. DEFINE p == call.pkt
            e == granule + call.dur
<1>1. /\ call.op = "push" /\ call.left < LaceMax /\ sink' = sink
      /\ segments' = Append(segments, Segment(call.left))
      /\ endsAt' = [endsAt EXCEPT ![p] = e]
      /\ UNCHANGED <<finished, opened>>
  BY DEF PushLast
<1>2. /\ segments \in Seq(SegmentType) /\ endsAt \in [0 .. MaxPackets + 1 -> Int]
      /\ p \in Nat /\ p \in 0 .. MaxPackets + 1 /\ NextToComplete = p
      /\ ~finished /\ (p < FirstAudio <=> ~opened)
  BY <1>1, NextFact DEF ShapeInv, TypeOK, HeadersFirst, NextToComplete
<1>3. call.left \in 0 .. LaceMax /\ Segment(call.left) \in SegmentType
  BY <1>1, NextFact, LacingAssumption DEF Segment, SegmentType, CallType
<1>4. Completes(Segment(call.left)) /\ Segment(call.left).pkt = p
  BY <1>1, <1>2 DEF Completes, Segment, NoPacket
<1>5. CompletedBy(segments') = CompletedBy(segments) \cup {p}
  BY <1>1, <1>2, <1>3, <1>4, CompletedFact
<1>6. \A q \in CompletedBy(segments) : q < p /\ q \in Int
  <2>1. CASE opened
    BY <1>2, <2>1, CompletedFact DEF StampInv, TableStamped, Stamped
  <2>2. CASE ~opened
    BY <1>1, <2>2 DEF StampInv, TableStamped
  <2>. QED
    BY <2>1, <2>2
<1>7. Onward
  BY PushesOnward
<1>8. call'.op # "push" /\ NextToComplete' = p + 1
  <2>1. call'.op # "push"
    <3>1. CASE p >= FirstAudio
      BY <3>1 DEF PushLast, Idle
    <3>2. CASE ~(p >= FirstAudio)
      BY <3>2, NextFact DEF PushLast, CallType
    <3>. QED
      BY <3>1, <3>2
  <2>. QED
    BY <1>1, <2>1, NextFact DEF PushLast, NextToComplete
<1>9. endsAt'[p] = e
  BY <1>1, <1>2
<1>. HIDE DEF e, p
<1>10. Stamped(e, segments', NextToComplete', endsAt')
  BY <1>2, <1>5, <1>6, <1>8, <1>9 DEF Stamped
<1>11. TableStamped'
  <2>1. CASE p >= FirstAudio
    <3>1. pageGranule' = e /\ call'.op = "idle" /\ opened
      BY <1>2, <2>1 DEF PushLast, Idle, FirstAudio, e, p
    <3>. QED
      BY <1>1, <1>10, <3>1 DEF TableStamped
  <2>2. CASE ~(p >= FirstAudio)
    <3>1. /\ ~opened /\ UNCHANGED <<granule, pageGranule>>
          /\ call' = [call EXCEPT !.op = "header"]
      BY <1>2, <2>2 DEF PushLast, FirstAudio, p
    <3>2. granule = 0 /\ pageGranule = NoGranule /\ call.dur = 0
      BY <1>1, <3>1 DEF StampInv, TableStamped
    <3>3. e = 0 /\ call'.op = "header" /\ call'.dur = 0
      BY <3>1, <3>2, NextFact DEF e, CallType
    <3>. QED
      BY <1>1, <1>10, <3>1, <3>2, <3>3 DEF TableStamped
  <2>. QED
    BY <2>1, <2>2
<1>12. PagesStamped'
  BY <1>1, <1>2, <1>7, PagesStay
<1>. QED
  BY <1>11, <1>12 DEF StampInv

LEMMA FlushMidPacketStamp ==
  ASSUME ShapeInv, StampInv, FlushMidPacket
  PROVE  StampInv'
<1>1. /\ call.op = "push" /\ TableFull
      /\ UNCHANGED <<granule, finished, opened, endsAt, pushed>>
      /\ \/ /\ Written(PageWith(FALSE, FALSE, pageGranule, segments), TRUE)
            /\ call' = call
         \/ Refused(PageWith(FALSE, FALSE, pageGranule, segments)) /\ call' = Idle
  BY DEF FlushMidPacket
<1>2. segments # <<>> /\ ~finished
  BY <1>1, LacingAssumption DEF TableFull, ShapeInv, HeadersFirst
<1>3. segments \in Seq(SegmentType) \ {<<>>} /\ pageGranule \in Int
  BY <1>2, TableFact
<1>4. Onward
  <2>1. pushed' \in Nat /\ pushed <= pushed' /\ endsAt' = endsAt
    BY <1>1, NextFact
  <2>2. call' = call \/ call' = Idle
    BY <1>1
  <2>. QED
    BY <2>1, <2>2, FlushesOnward
<1>5. Stamped(pageGranule, segments, NextToComplete, endsAt)
  <2>1. CASE opened
    BY <2>1 DEF StampInv, TableStamped
  <2>2. CASE ~opened
    <3>1. pageGranule = NoGranule /\ CompletedBy(segments) = {}
      BY <1>1, <2>2 DEF StampInv, TableStamped
    <3>. QED
      BY <1>3, <3>1, BareStamp
  <2>. QED
    BY <2>1, <2>2
<1>6. Stamped(pageGranule, segments, NextToComplete', endsAt')
  BY <1>3, <1>4, <1>5, StampStays, NextFact DEF Onward
<1>7. PagesStamped'
  BY <1>1, <1>2, <1>3, <1>4, <1>6, FlushPages
<1>8. TableStamped'
  <2>1. CASE /\ Written(PageWith(FALSE, FALSE, pageGranule, segments), TRUE)
             /\ call' = call
    <3>1. (~opened' /\ call'.op # "idle") => granule' = 0 /\ call'.dur = 0
      BY <1>1, <2>1 DEF StampInv, TableStamped
    <3>. QED
      BY <1>1, <2>1, <3>1, WrittenTable
  <2>2. CASE /\ Refused(PageWith(FALSE, FALSE, pageGranule, segments))
             /\ call' = Idle
    <3>1. segments' = segments /\ pageGranule' = pageGranule /\ call'.op = "idle"
      BY <2>2 DEF Refused, PageWith, Idle
    <3>. QED
      BY <1>1, <1>4, <3>1, RefusedTable
  <2>. QED
    BY <1>1, <2>1, <2>2
<1>. QED
  BY <1>7, <1>8 DEF StampInv

LEMMA HeaderStamp ==
  ASSUME ShapeInv, StampInv, FlushHead \/ FlushTags
  PROVE  StampInv'
<1>1. PICK b \in BOOLEAN :
        \/ Written(PageWith(b, FALSE, 0, segments), FALSE)
        \/ /\ Refused(PageWith(b, FALSE, 0, segments))
           /\ call' = Idle /\ opened' = opened
  <2>1. CASE FlushHead
    BY <2>1, Zenon DEF FlushHead
  <2>2. CASE FlushTags
    BY <2>2, Zenon DEF FlushTags
  <2>. QED
    BY <2>1, <2>2
<1>2. /\ call.op = "header" /\ UNCHANGED <<granule, finished, endsAt>>
      /\ opened => opened'
  <2>1. CASE FlushHead
    BY <2>1, Zenon DEF FlushHead
  <2>2. CASE FlushTags
    <3>1. opened' = TRUE \/ opened' = opened
      BY <2>2, Zenon DEF FlushTags
    <3>2. call.op = "header" /\ UNCHANGED <<granule, finished, endsAt>>
      BY <2>2 DEF FlushTags
    <3>3. opened => opened'
      BY <3>1, Zenon
    <3>. QED
      BY <3>2, <3>3, Zenon
  <2>. QED
    BY <2>1, <2>2
<1>3. /\ segments \in Seq(SegmentType) \ {<<>>} /\ ~finished /\ 0 \in Int
  BY <1>2, TableFact DEF ShapeInv, HeadersFirst
<1>4. ~opened /\ granule = 0
  BY <1>2 DEF ShapeInv, HeadersFirst, StampInv, TableStamped
<1>5. /\ pushed' \in Nat /\ pushed <= pushed' /\ call'.op # "header"
      /\ call' = Idle \/ (call'.op = "push" /\ call'.pkt = pushed /\ call'.dur = 0)
  <2>1. CASE FlushHead
    <3>1. pushed = 1
      BY <2>1, NextFact DEF FlushHead
    <3>2. \/ \E size \in TagsSizes : call' = Pushing(1, size, 0) /\ pushed' = pushed + 1
          \/ call' = Idle /\ pushed' = pushed
      BY <2>1 DEF FlushHead
    <3>. QED
      BY <3>1, <3>2 DEF Pushing, Idle
  <2>2. CASE FlushTags
    BY <2>2, NextFact DEF FlushTags, Idle
  <2>. QED
    BY <2>1, <2>2
<1>6. Onward
  BY <1>2, <1>5, FlushesOnward
<1>7. Stamped(0, segments, NextToComplete', endsAt')
  BY <1>2, <1>3, <1>6, StampStays, NextFact DEF Onward, StampInv, TableStamped
<1>8. PagesStamped'
  BY <1>1, <1>2, <1>3, <1>6, <1>7, FlushPages
<1>9. TableStamped'
  <2>1. CASE Written(PageWith(b, FALSE, 0, segments), FALSE)
    <3>1. call'.op # "idle" => granule' = 0 /\ call'.dur = 0
      BY <1>2, <1>4, <1>5 DEF Idle
    <3>. QED
      BY <1>5, <2>1, <3>1, WrittenTable
  <2>2. CASE call' = Idle /\ opened' = opened
    BY <1>4, <2>2 DEF TableStamped, Idle
  <2>. QED
    BY <1>1, <2>1, <2>2
<1>. QED
  BY <1>8, <1>9 DEF StampInv

LEMMA WritePacketStamp ==
  ASSUME ShapeInv, StampInv, NEW size \in Sizes, NEW dur \in Durations, WritePacket(size, dur)
  PROVE  StampInv'
<1>1. /\ call.op = "idle" /\ opened /\ ~finished /\ call' = Pushing(pushed, size, dur)
      /\ pushed' = pushed + 1 /\ UNCHANGED <<granule, finished, opened, endsAt>>
  BY DEF WritePacket, Ready
<1>2. call'.op = "push" /\ call'.pkt = pushed
  BY <1>1 DEF Pushing
<1>3. Onward
  BY <1>1, <1>2, NextFact, FlushesOnward
<1>4. Stamped(pageGranule, segments, NextToComplete', endsAt')
  <2>1. segments \in Seq(SegmentType)
    BY DEF ShapeInv, TypeOK
  <2>. QED
    BY <1>1, <1>3, <2>1, StampStays, NextFact DEF Onward, StampInv, TableStamped
<1>5. CASE PageFull
  <2>1. Written(PageWith(FALSE, FALSE, pageGranule, segments), FALSE)
    BY <1>5 DEF WritePacket
  <2>2. segments \in Seq(SegmentType) \ {<<>>} /\ pageGranule \in Int
    BY <1>5, FullPageFact, TableFact
  <2>3. PagesStamped'
    BY <1>1, <1>3, <1>4, <2>1, <2>2, FlushPages
  <2>4. TableStamped'
    BY <1>1, <1>2, <2>1, WrittenTable
  <2>. QED
    BY <2>3, <2>4 DEF StampInv
<1>6. CASE ~PageFull
  <2>1. sink' = sink /\ segments' = segments /\ pageGranule' = pageGranule
    BY <1>6 DEF WritePacket, page
  <2>2. PagesStamped'
    BY <1>1, <1>3, <2>1, PagesStay
  <2>3. TableStamped'
    BY <1>1, <1>2, <1>4, <2>1 DEF TableStamped
  <2>. QED
    BY <2>2, <2>3 DEF StampInv
<1>. QED
  BY <1>5, <1>6

LEMMA WritePacketRefusedStamp ==
  ASSUME ShapeInv, StampInv, WritePacketRefused
  PROVE  StampInv'
<1>1. /\ PageFull /\ call.op = "idle" /\ opened /\ ~finished
      /\ Refused(PageWith(FALSE, FALSE, pageGranule, segments))
      /\ UNCHANGED <<finished, call, opened, endsAt, pushed>>
  BY DEF WritePacketRefused, Ready
<1>2. segments \in Seq(SegmentType) \ {<<>>} /\ pageGranule \in Int
  BY <1>1, FullPageFact, TableFact
<1>3. Onward
  BY <1>1, NextFact, FlushesOnward
<1>4. Stamped(pageGranule, segments, NextToComplete', endsAt')
  BY <1>1, <1>2, <1>3, StampStays, NextFact DEF Onward, StampInv, TableStamped
<1>5. PagesStamped'
  BY <1>1, <1>2, <1>3, <1>4, FlushPages
<1>6. segments' = segments /\ pageGranule' = pageGranule
  BY <1>1 DEF Refused, PageWith
<1>7. TableStamped'
  BY <1>1, <1>3, <1>6, RefusedTable
<1>. QED
  BY <1>5, <1>7 DEF StampInv

LEMMA FinishStamp ==
  ASSUME ShapeInv, StampInv, FinishInPlace
  PROVE  StampInv'
<1>1. /\ call.op = "idle" /\ ~finished
      /\ UNCHANGED <<call, opened, endsAt, pushed, granule>>
      /\ \/ Written(PageWith(FALSE, TRUE, pageGranule, LastSegments), FALSE)
         \/ Refused(PageWith(FALSE, TRUE, pageGranule, LastSegments))
  BY FinishSteps
<1>2. Onward
  BY <1>1, NextFact, FlushesOnward
<1>3. opened' => Stamped(pageGranule, LastSegments, NextToComplete', endsAt')
  <2>1. segments \in Seq(SegmentType) /\ CompletedBy(LastSegments) = CompletedBy(segments)
    BY CompletedByLast DEF ShapeInv, TypeOK
  <2>2. opened => Stamped(pageGranule, segments, NextToComplete', endsAt')
    BY <1>2, <2>1, StampStays, NextFact DEF Onward, StampInv, TableStamped
  <2>. QED
    BY <1>1, <2>1, <2>2 DEF Stamped
<1>4. PagesStamped'
  <2>1. finished' /\ LastSegments \in Seq(SegmentType) \ {<<>>} /\ pageGranule \in Int
    BY FinishSteps, LastSegmentsFact
  <2>2. (finished' => opened') => Stamped(pageGranule, LastSegments, NextToComplete', endsAt')
    BY <1>3, <2>1
  <2>. QED
    BY <1>1, <1>2, <2>1, <2>2, FlushPages
<1>5. TableStamped'
  <2>1. CASE Written(PageWith(FALSE, TRUE, pageGranule, LastSegments), FALSE)
    BY <1>1, <2>1, WrittenTable
  <2>2. CASE Refused(PageWith(FALSE, TRUE, pageGranule, LastSegments))
    <3>1. segments' = LastSegments /\ pageGranule' = pageGranule
      BY <2>2 DEF Refused, PageWith
    <3>. QED
      BY <1>1, <1>2, <3>1, RefusedTable
  <2>. QED
    BY <1>1, <2>1, <2>2
<1>. QED
  BY <1>4, <1>5 DEF StampInv

LEMMA StampStep == ShapeInv /\ StampInv /\ [Next]_vars => StampInv'
<1>. SUFFICES ASSUME ShapeInv, StampInv, [Next]_vars PROVE StampInv'
  OBVIOUS
<1>1. CASE PushLace
  BY <1>1, PushLaceStamp
<1>2. CASE PushLast
  BY <1>2, PushLastStamp
<1>3. CASE FlushMidPacket
  BY <1>3, FlushMidPacketStamp
<1>4. CASE FlushHead \/ FlushTags
  BY <1>4, HeaderStamp
<1>5. ASSUME NEW bytes \in Targets, SetPageTarget(bytes) PROVE StampInv'
  BY <1>5 DEF SetPageTarget, page, StampInv, PagesStamped, TableStamped, Stamped, NextToComplete
<1>6. ASSUME NEW size \in Sizes, NEW dur \in Durations, WritePacket(size, dur)
      PROVE  StampInv'
  BY <1>6, WritePacketStamp
<1>7. CASE WritePacketRefused
  BY <1>7, WritePacketRefusedStamp
<1>8. CASE FinishInPlace
  BY <1>8, FinishStamp
<1>9. CASE UNCHANGED vars
  BY <1>9 DEF vars, page, StampInv, PagesStamped, TableStamped, Stamped, NextToComplete
<1>. QED
  BY <1>1, <1>2, <1>3, <1>4, <1>5, <1>6, <1>7, <1>8, <1>9 DEF Next

(* A page is stamped with the end of the last packet it completes, and     *)
(* with -1 when it completes none, however its packets were cut and its    *)
(* writes refused.                                                         *)
THEOREM GranulesAreExact == Spec => []GranuleIsOfLastCompleted
<1>1. StampInv => GranuleIsOfLastCompleted
  BY DEF StampInv, PagesStamped, Stamped, GranuleIsOfLastCompleted, CompletedOn
<1>. QED
  BY InitShape, ShapeStep, InitStamp, StampStep, <1>1, PTL DEF Spec

(***************************************************************************)
(* The log.  What is in the sink and what the page being assembled still   *)
(* completes is, in order, what was accepted.                              *)
(***************************************************************************)
NothingLost == StoredPackets \o AudioOf(segments) = accepted

LEMMA AudioEndFact ==
  ASSUME NEW seg \in SegmentType
  PROVE  AudioEnd(seg) \in Seq(Int)
BY DEF AudioEnd, SegmentType

LEMMA AudioUnfolds ==
  ASSUME NEW segs \in Seq(SegmentType)
  PROVE  \E f : /\ f[0] = <<>>
                /\ \A i \in 1 .. Len(segs) : f[i] = f[i - 1] \o AudioEnd(segs[i])
                /\ AudioOf(segs) = f[Len(segs)]
<1>. DEFINE n     == Len(segs)
            parts == [i \in 1 .. n |-> AudioEnd(segs[i])]
            Joins(f) == f = [i \in 0 .. n |-> IF i = 0 THEN <<>>
                                              ELSE f[i - 1] \o AudioEnd(segs[i])]
            audio == CHOOSE f : Joins(f)
<1>1. n \in Nat
  OBVIOUS
<1>2. PICK f : f = [i \in 0 .. n |-> IF i = 0 THEN <<>> ELSE f[i - 1] \o parts[i]]
  BY <1>1, JoinsExist
<1>3. Joins(f)
  <2>1. \A i \in 0 .. n : i # 0 => i \in 1 .. n /\ parts[i] = AudioEnd(segs[i])
    BY <1>1
  <2>. HIDE DEF parts
  <2>. QED
    BY <1>2, <2>1
<1>4. Joins(audio)
  BY <1>3
<1>5. AudioOf(segs) = audio[n]
  BY DEF AudioOf
<1>. HIDE DEF audio
<1>6. \A i \in 0 .. n : audio[i] = IF i = 0 THEN <<>> ELSE audio[i - 1] \o AudioEnd(segs[i])
  BY <1>4
<1>7. audio[0] = <<>>
  BY <1>1, <1>6
<1>8. ASSUME NEW i \in 1 .. n PROVE audio[i] = audio[i - 1] \o AudioEnd(segs[i])
  <2>1. i \in 0 .. n /\ i # 0
    BY <1>1
  <2>. QED
    BY <1>6, <2>1, Zenon
<1>. QED
  BY <1>5, <1>7, <1>8

(* A segment more adds the packet it completes, if it is an audio packet.  *)
LEMMA AudioAppend ==
  ASSUME NEW segs \in Seq(SegmentType), NEW seg \in SegmentType
  PROVE  /\ AudioOf(segs) \in Seq(Int)
         /\ AudioOf(Append(segs, seg)) = AudioOf(segs) \o AudioEnd(seg)
<1>. DEFINE more == Append(segs, seg)
            n    == Len(segs)
            parts == [i \in 1 .. n |-> AudioEnd(segs[i])]
<1>1. /\ more \in Seq(SegmentType) /\ n \in Nat /\ Len(more) = n + 1 /\ more[n + 1] = seg
      /\ \A i \in 1 .. n : more[i] = segs[i] /\ segs[i] \in SegmentType
  OBVIOUS
<1>2. PICK f : /\ f[0] = <<>>
               /\ \A i \in 1 .. n : f[i] = f[i - 1] \o AudioEnd(segs[i])
               /\ AudioOf(segs) = f[n]
  BY AudioUnfolds
<1>. HIDE DEF more
<1>3. PICK g : /\ g[0] = <<>>
               /\ \A i \in 1 .. n + 1 : g[i] = g[i - 1] \o AudioEnd(more[i])
               /\ AudioOf(more) = g[n + 1]
  <2>1. \E g : /\ g[0] = <<>>
               /\ \A i \in 1 .. Len(more) : g[i] = g[i - 1] \o AudioEnd(more[i])
               /\ AudioOf(more) = g[Len(more)]
    BY <1>1, AudioUnfolds
  <2>. QED
    BY <1>1, <2>1
<1>4. ASSUME NEW i \in 1 .. n
      PROVE  /\ parts[i] \in Seq(Int)
             /\ f[i] = f[i - 1] \o parts[i] /\ g[i] = g[i - 1] \o parts[i]
  <2>1. i \in 1 .. n + 1 /\ more[i] = segs[i] /\ segs[i] \in SegmentType
    BY <1>1
  <2>2. parts[i] = AudioEnd(segs[i])
    OBVIOUS
  <2>. QED
    BY <1>2, <1>3, <2>1, <2>2, AudioEndFact
<1>. HIDE DEF parts
<1>5. f[n] = g[n] /\ f[n] \in Seq(Int)
  <2>1. JoinsUpTo(f, n, parts, Int) /\ JoinsUpTo(g, n, parts, Int)
    BY <1>2, <1>3, <1>4 DEF JoinsUpTo
  <2>. HIDE DEF n
  <2>. QED
    BY <1>1, <2>1, JoinsAgree
<1>6. g[n + 1] = g[n] \o AudioEnd(seg)
  <2>1. n + 1 \in 1 .. n + 1 /\ (n + 1) - 1 = n
    BY <1>1
  <2>. QED
    BY <1>1, <1>3, <2>1
<1>. QED
  BY <1>2, <1>3, <1>5, <1>6 DEF more

LEMMA AudioEmpty == AudioOf(<<>>) = <<>>
<1>1. <<>> \in Seq(SegmentType) /\ Len(<<>>) = 0
  OBVIOUS
<1>. QED
  BY <1>1, AudioUnfolds

LEMMA StoredUnfolds ==
  ASSUME NEW pages \in Seq(PageType)
  PROVE  \E f : /\ f[0] = <<>>
                /\ \A i \in 1 .. Len(pages) : f[i] = f[i - 1] \o AudioOn(pages[i])
                /\ StoredIn(pages) = f[Len(pages)]
<1>. DEFINE n     == Len(pages)
            parts == [i \in 1 .. n |-> AudioOn(pages[i])]
            Joins(f) == f = [i \in 0 .. n |-> IF i = 0 THEN <<>>
                                              ELSE f[i - 1] \o AudioOn(pages[i])]
            stored == CHOOSE f : Joins(f)
<1>1. n \in Nat
  OBVIOUS
<1>2. PICK f : f = [i \in 0 .. n |-> IF i = 0 THEN <<>> ELSE f[i - 1] \o parts[i]]
  BY <1>1, JoinsExist
<1>3. Joins(f)
  <2>1. \A i \in 0 .. n : i # 0 => i \in 1 .. n /\ parts[i] = AudioOn(pages[i])
    BY <1>1
  <2>. HIDE DEF parts
  <2>. QED
    BY <1>2, <2>1
<1>4. Joins(stored)
  BY <1>3
<1>5. StoredIn(pages) = stored[n]
  BY DEF StoredIn
<1>. HIDE DEF stored
<1>6. \A i \in 0 .. n : stored[i] = IF i = 0 THEN <<>> ELSE stored[i - 1] \o AudioOn(pages[i])
  BY <1>4
<1>7. stored[0] = <<>>
  BY <1>1, <1>6
<1>8. ASSUME NEW i \in 1 .. n PROVE stored[i] = stored[i - 1] \o AudioOn(pages[i])
  <2>1. i \in 0 .. n /\ i # 0
    BY <1>1
  <2>. QED
    BY <1>6, <2>1, Zenon
<1>. QED
  BY <1>5, <1>7, <1>8

LEMMA AudioOnFact ==
  ASSUME NEW pg \in PageType
  PROVE  AudioOn(pg) \in Seq(Int)
<1>1. pg.segments \in Seq(SegmentType) \ {<<>>}
  BY DEF PageType
<1>2. \E seg \in SegmentType : TRUE
  BY <1>1
<1>3. AudioOf(pg.segments) \in Seq(Int)
  BY <1>1, <1>2, AudioAppend
<1>. QED
  BY <1>3 DEF AudioOn

(* A page more adds what it completes, unless it was torn.                 *)
LEMMA StoredAppend ==
  ASSUME NEW pages \in Seq(PageType), NEW pg \in PageType
  PROVE  /\ StoredIn(pages) \in Seq(Int)
         /\ StoredIn(Append(pages, pg)) = StoredIn(pages) \o AudioOn(pg)
<1>. DEFINE more == Append(pages, pg)
            n    == Len(pages)
            parts == [i \in 1 .. n |-> AudioOn(pages[i])]
<1>1. /\ more \in Seq(PageType) /\ n \in Nat /\ Len(more) = n + 1 /\ more[n + 1] = pg
      /\ \A i \in 1 .. n : more[i] = pages[i] /\ pages[i] \in PageType
  OBVIOUS
<1>2. PICK f : /\ f[0] = <<>>
               /\ \A i \in 1 .. n : f[i] = f[i - 1] \o AudioOn(pages[i])
               /\ StoredIn(pages) = f[n]
  BY StoredUnfolds
<1>. HIDE DEF more
<1>3. PICK g : /\ g[0] = <<>>
               /\ \A i \in 1 .. n + 1 : g[i] = g[i - 1] \o AudioOn(more[i])
               /\ StoredIn(more) = g[n + 1]
  <2>1. \E g : /\ g[0] = <<>>
               /\ \A i \in 1 .. Len(more) : g[i] = g[i - 1] \o AudioOn(more[i])
               /\ StoredIn(more) = g[Len(more)]
    BY <1>1, StoredUnfolds
  <2>. QED
    BY <1>1, <2>1
<1>4. ASSUME NEW i \in 1 .. n
      PROVE  /\ parts[i] \in Seq(Int)
             /\ f[i] = f[i - 1] \o parts[i] /\ g[i] = g[i - 1] \o parts[i]
  <2>1. i \in 1 .. n + 1 /\ more[i] = pages[i] /\ pages[i] \in PageType
    BY <1>1
  <2>2. parts[i] = AudioOn(pages[i])
    OBVIOUS
  <2>. QED
    BY <1>2, <1>3, <2>1, <2>2, AudioOnFact
<1>. HIDE DEF parts
<1>5. f[n] = g[n] /\ f[n] \in Seq(Int)
  <2>1. JoinsUpTo(f, n, parts, Int) /\ JoinsUpTo(g, n, parts, Int)
    BY <1>2, <1>3, <1>4 DEF JoinsUpTo
  <2>. HIDE DEF n
  <2>. QED
    BY <1>1, <2>1, JoinsAgree
<1>6. g[n + 1] = g[n] \o AudioOn(pg)
  <2>1. n + 1 \in 1 .. n + 1 /\ (n + 1) - 1 = n
    BY <1>1
  <2>. QED
    BY <1>1, <1>3, <2>1
<1>. QED
  BY <1>2, <1>3, <1>5, <1>6 DEF more

LEMMA InitLog == Init => NothingLost
<1>. SUFFICES ASSUME Init PROVE NothingLost
  OBVIOUS
<1>1. sink = <<>> /\ segments = <<>> /\ accepted = <<>>
  BY DEF Init
<1>2. StoredIn(<<>>) = <<>>
  <2>1. <<>> \in Seq(PageType) /\ Len(<<>>) = 0
    OBVIOUS
  <2>. QED
    BY <2>1, StoredUnfolds
<1>. QED
  BY <1>1, <1>2, AudioEmpty DEF NothingLost, StoredPackets

(* The segments a stream ends on complete what the table does.             *)
LEMMA AudioOfLast ==
  AudioOf(LastSegments) = AudioOf(segments)
<1>1. CASE segments = <<>>
  <2>. DEFINE bare == [pkt |-> NoPacket, part |-> 0, lace |-> 0]
  <2>1. bare \in SegmentType /\ <<>> \in Seq(SegmentType)
    BY LacingAssumption DEF SegmentType, NoPacket
  <2>2. AudioEnd(bare) = <<>>
    BY DEF AudioEnd, Completes
  <2>3. LastSegments = Append(<<>>, bare)
    BY <1>1 DEF LastSegments
  <2>. HIDE DEF bare
  <2>4. AudioOf(LastSegments) = AudioOf(<<>>) \o <<>>
    BY <2>1, <2>2, <2>3, AudioAppend
  <2>. QED
    BY <1>1, <2>4, AudioEmpty
<1>. QED
  BY <1>1 DEF LastSegments

(* What the steps of a call do to the log: a packet is taken into the      *)
(* table, the table goes into the sink, or neither.                        *)
Takes  == /\ AudioOf(segments') = AudioOf(segments) \o <<call.pkt>>
          /\ accepted' = Append(accepted, call.pkt) /\ sink' = sink

Stores(pg) == /\ sink' = Append(sink, pg) /\ AudioOn(pg) = AudioOf(segments)
              /\ AudioOf(segments') = <<>> /\ accepted' = accepted

Keeps  == /\ sink' = sink \/ \E pg \in PageType : sink' = Append(sink, pg) /\ ~pg.whole
          /\ AudioOf(segments') = AudioOf(segments) /\ accepted' = accepted

LogTypes ==
  /\ AudioOf(segments) \in Seq(Int) /\ StoredPackets \in Seq(Int) /\ sink \in Seq(PageType)
  /\ accepted \in Seq(Nat) /\ failures \in Nat /\ call.pkt \in 0 .. MaxPackets + 1
  /\ call.pkt \in Nat /\ finished \in BOOLEAN

LEMMA LogTyped == ShapeInv => LogTypes
<1>. SUFFICES ASSUME ShapeInv PROVE LogTypes
  OBVIOUS
<1>1. /\ segments \in Seq(SegmentType) /\ sink \in Seq(PageType) /\ accepted \in Seq(Nat)
      /\ failures \in Nat /\ finished \in BOOLEAN
  BY DEF ShapeInv, TypeOK
<1>2. \E seg \in SegmentType : TRUE
  <2>1. [pkt |-> 0, part |-> 0, lace |-> 0] \in SegmentType
    BY LacingAssumption DEF SegmentType
  <2>. QED
    BY <2>1
<1>3. AudioOf(segments) \in Seq(Int)
  BY <1>1, <1>2, AudioAppend
<1>4. \E pg \in PageType : TRUE
  <2>1. PICK seg \in SegmentType : TRUE
    BY <1>2
  <2>2. <<seg>> \in Seq(SegmentType) \ {<<>>}
    OBVIOUS
  <2>3. TypeOK /\ FALSE \in BOOLEAN /\ 0 \in Int
    BY DEF ShapeInv
  <2>4. PageWith(FALSE, FALSE, 0, <<seg>>) \in PageType
    BY <2>2, <2>3, PageFact
  <2>. QED
    BY <2>4
<1>5. StoredPackets \in Seq(Int)
  BY <1>1, <1>4, StoredAppend DEF StoredPackets
<1>. QED
  BY <1>1, <1>3, <1>5, NextFact DEF LogTypes

LEMMA TakesLog ==
  ASSUME LogTypes, NothingLost, Takes
  PROVE  NothingLost' /\ StoredPackets' = StoredPackets
<1>1. StoredPackets' = StoredPackets
  BY DEF Takes, StoredPackets
<1>2. ASSUME NEW s \in Seq(Int), NEW t \in Seq(Int), NEW p \in Int
      PROVE  s \o (t \o <<p>>) = Append(s \o t, p)
  OBVIOUS
<1>3. StoredPackets \o AudioOf(segments') = Append(accepted, call.pkt)
  <2>1. StoredPackets \in Seq(Int) /\ AudioOf(segments) \in Seq(Int) /\ call.pkt \in Int
    BY DEF LogTypes
  <2>2. StoredPackets \o (AudioOf(segments) \o <<call.pkt>>)
          = Append(StoredPackets \o AudioOf(segments), call.pkt)
    BY <1>2, <2>1
  <2>. QED
    BY <2>2 DEF NothingLost, Takes
<1>. QED
  BY <1>1, <1>3 DEF NothingLost, Takes

LEMMA StoresLog ==
  ASSUME LogTypes, NothingLost, NEW pg \in PageType, Stores(pg)
  PROVE  /\ NothingLost' /\ StoredPackets' = accepted
         /\ IsPrefix(StoredPackets, StoredPackets') /\ IsPrefix(StoredPackets', accepted)
<1>1. StoredPackets' = StoredPackets \o AudioOf(segments)
  <2>1. StoredPackets' = StoredIn(Append(sink, pg))
    BY DEF Stores, StoredPackets
  <2>. QED
    BY <2>1, StoredAppend DEF Stores, StoredPackets, LogTypes
<1>2. StoredPackets' = accepted
  BY <1>1 DEF NothingLost
<1>3. NothingLost'
  <2>1. accepted \o <<>> = accepted
    BY DEF LogTypes
  <2>. QED
    BY <1>2, <2>1 DEF NothingLost, Stores
<1>. QED
  BY <1>1, <1>2, <1>3, PrefixOfJoin DEF LogTypes

LEMMA KeepsLog ==
  ASSUME LogTypes, NothingLost, Keeps
  PROVE  NothingLost' /\ StoredPackets' = StoredPackets
<1>1. StoredPackets' = StoredPackets
  <2>1. CASE sink' = sink
    BY <2>1 DEF StoredPackets
  <2>2. ASSUME NEW pg \in PageType, sink' = Append(sink, pg), ~pg.whole
        PROVE  StoredPackets' = StoredPackets
    <3>1. StoredPackets' = StoredPackets \o AudioOn(pg)
      BY <2>2, StoredAppend DEF StoredPackets, LogTypes
    <3>2. AudioOn(pg) = <<>> /\ StoredPackets \o <<>> = StoredPackets
      BY <2>2 DEF AudioOn, LogTypes
    <3>. QED
      BY <3>1, <3>2
  <2>. QED
    BY <2>1, <2>2 DEF Keeps
<1>. QED
  BY <1>1 DEF NothingLost, Keeps

(* The two outcomes of a flush.                                            *)
LEMMA WrittenStores ==
  ASSUME ShapeInv, accepted' = accepted,
         NEW bos \in BOOLEAN, NEW eos \in BOOLEAN, NEW g \in Int,
         NEW segs \in Seq(SegmentType) \ {<<>>}, AudioOf(segs) = AudioOf(segments),
         NEW resumes, Written(PageWith(bos, eos, g, segs), resumes)
  PROVE  \E pg \in PageType : Stores(pg)
<1>. DEFINE pg == PageWith(bos, eos, g, segs)
<1>1. pg \in PageType
  BY PageFact DEF ShapeInv
<1>2. AudioOn(pg) = AudioOf(segs)
  BY DEF PageWith, AudioOn
<1>3. sink' = Append(sink, pg) /\ segments' = <<>>
  BY DEF Written
<1>4. AudioOf(segments') = <<>>
  BY <1>3, AudioEmpty
<1>. HIDE DEF pg
<1>. QED
  BY <1>1, <1>2, <1>3, <1>4 DEF Stores

LEMMA RefusedKeeps ==
  ASSUME ShapeInv, accepted' = accepted,
         NEW bos \in BOOLEAN, NEW eos \in BOOLEAN, NEW g \in Int,
         NEW segs \in Seq(SegmentType) \ {<<>>}, AudioOf(segs) = AudioOf(segments),
         Refused(PageWith(bos, eos, g, segs))
  PROVE  Keeps /\ failures' = failures + 1
<1>. DEFINE pg   == PageWith(bos, eos, g, segs)
            torn == [pg EXCEPT !.whole = FALSE]
<1>1. torn \in PageType /\ torn.whole = FALSE /\ pg.segments = segs
  BY PageFact DEF ShapeInv, PageWith
<1>2. sink' \in {sink, Append(sink, torn)} /\ segments' = segs /\ failures' = failures + 1
  BY <1>1 DEF Refused
<1>. HIDE DEF pg, torn
<1>. QED
  BY <1>1, <1>2 DEF Keeps

(* Every step of the muxer is a step of the log, or none of its business.  *)
LogState == <<accepted, StoredPackets, finished, failures > 0>>

LogStep == NothingLost' /\ (Log!LogNext \/ UNCHANGED LogState)

LEMMA TakeStep ==
  ASSUME LogTypes, NothingLost, Takes, ~finished, finished' = finished, failures' = failures
  PROVE  LogStep
<1>1. NothingLost' /\ StoredPackets' = StoredPackets
  BY TakesLog
<1>2. Log!Take
  BY <1>1 DEF Log!Take, Takes, LogTypes
<1>. QED
  BY <1>1, <1>2 DEF LogStep, Log!LogNext

LEMMA StoreStep ==
  ASSUME LogTypes, NothingLost, \E pg \in PageType : Stores(pg), failures' = failures,
         finished' = finished \/ (~finished /\ finished' = TRUE)
  PROVE  LogStep
<1>1. PICK pg \in PageType : Stores(pg)
  OBVIOUS
<1>2. /\ NothingLost' /\ StoredPackets' = accepted
      /\ IsPrefix(StoredPackets, StoredPackets') /\ IsPrefix(StoredPackets', accepted)
  BY <1>1, StoresLog
<1>3. accepted' = accepted
  BY <1>1 DEF Stores
<1>4. CASE finished' = finished
  <2>1. Log!Store
    BY <1>2, <1>3, <1>4 DEF Log!Store, Log!IsPrefix, IsPrefix
  <2>. QED
    BY <1>2, <2>1 DEF LogStep, Log!LogNext
<1>5. CASE ~finished /\ finished' = TRUE
  <2>1. Log!Close
    BY <1>2, <1>3, <1>5 DEF Log!Close
  <2>. QED
    BY <1>2, <2>1 DEF LogStep, Log!LogNext
<1>. QED
  BY <1>4, <1>5

LEMMA KeepStep ==
  ASSUME LogTypes, NothingLost, Keeps,
         \/ finished' = finished /\ failures' = failures
         \/ failures' = failures + 1 /\ (finished' = finished \/ finished' = TRUE)
  PROVE  LogStep
<1>1. NothingLost' /\ StoredPackets' = StoredPackets /\ accepted' = accepted
  BY KeepsLog DEF Keeps
<1>2. CASE finished' = finished /\ failures' = failures
  BY <1>1, <1>2 DEF LogStep, LogState
<1>3. CASE failures' = failures + 1 /\ (finished' = finished \/ finished' = TRUE)
  <2>1. failures' > 0
    BY <1>3 DEF LogTypes
  <2>2. finished => finished'
    BY <1>3, Zenon
  <2>3. Log!Fail
    BY <1>1, <2>1, <2>2, Zenon DEF Log!Fail
  <2>. QED
    BY <1>1, <2>3 DEF LogStep, Log!LogNext
<1>. QED
  BY <1>2, <1>3

LEMMA PushesLog ==
  ASSUME ShapeInv, NothingLost, PushLace \/ PushLast
  PROVE  LogStep
<1>1. LogTypes
  BY LogTyped
<1>2. /\ call.op = "push" /\ ~finished /\ call.pkt \in Nat
      /\ segments \in Seq(SegmentType)
      /\ sink' = sink /\ UNCHANGED <<finished, failures>>
  BY NextFact DEF ShapeInv, TypeOK, HeadersFirst, PushLace, PushLast
<1>3. CASE PushLace
  <2>1. /\ segments' = Append(segments, Segment(LaceMax)) /\ accepted' = accepted
        /\ Segment(LaceMax) \in SegmentType /\ AudioEnd(Segment(LaceMax)) = <<>>
    BY <1>3, NextFact, LacingAssumption
    DEF PushLace, Segment, SegmentType, CallType, AudioEnd, Completes
  <2>2. AudioOf(segments') = AudioOf(segments)
    <3>1. AudioOf(segments') = AudioOf(segments) \o <<>>
      BY <1>2, <2>1, AudioAppend
    <3>. QED
      BY <1>1, <3>1 DEF LogTypes
  <2>3. Keeps
    BY <1>2, <2>1, <2>2 DEF Keeps
  <2>. QED
    BY <1>1, <1>2, <2>3, KeepStep
<1>4. CASE PushLast
  <2>1. /\ segments' = Append(segments, Segment(call.left))
        /\ Segment(call.left) \in SegmentType
        /\ AudioEnd(Segment(call.left)) = IF call.pkt >= FirstAudio THEN <<call.pkt>> ELSE <<>>
    BY <1>2, <1>4, NextFact, LacingAssumption
    DEF PushLast, Segment, SegmentType, CallType, AudioEnd, Completes, NoPacket
  <2>2. AudioOf(segments') = AudioOf(segments) \o AudioEnd(Segment(call.left))
    BY <1>2, <2>1, AudioAppend
  <2>3. CASE call.pkt >= FirstAudio
    <3>1. accepted' = Append(accepted, call.pkt)
      BY <1>4, <2>3 DEF PushLast
    <3>2. Takes
      BY <1>2, <2>1, <2>2, <2>3, <3>1 DEF Takes
    <3>. QED
      BY <1>1, <1>2, <3>2, TakeStep
  <2>4. CASE ~(call.pkt >= FirstAudio)
    <3>1. accepted' = accepted /\ AudioOf(segments') = AudioOf(segments)
      BY <1>1, <1>4, <2>1, <2>2, <2>4 DEF PushLast, LogTypes
    <3>2. Keeps
      BY <1>2, <3>1 DEF Keeps
    <3>. QED
      BY <1>1, <1>2, <3>2, KeepStep
  <2>. QED
    BY <2>3, <2>4
<1>. QED
  BY <1>3, <1>4

(* A flush, of the table or of the segments a stream ends on.              *)
LEMMA FlushLog ==
  ASSUME ShapeInv, NothingLost, accepted' = accepted,
         NEW bos \in BOOLEAN, NEW eos \in BOOLEAN, NEW g \in Int,
         NEW segs \in Seq(SegmentType) \ {<<>>}, AudioOf(segs) = AudioOf(segments),
         NEW resumes,
         \/ Written(PageWith(bos, eos, g, segs), resumes)
         \/ Refused(PageWith(bos, eos, g, segs)),
         finished' = finished \/ (~finished /\ finished' = TRUE)
  PROVE  LogStep
<1>1. LogTypes
  BY LogTyped
<1>2. CASE Written(PageWith(bos, eos, g, segs), resumes)
  <2>1. \E pg \in PageType : Stores(pg)
    BY <1>2, WrittenStores
  <2>2. failures' = failures
    BY <1>2 DEF Written
  <2>. QED
    BY <1>1, <2>1, <2>2, StoreStep
<1>3. CASE Refused(PageWith(bos, eos, g, segs))
  <2>1. Keeps /\ failures' = failures + 1
    BY <1>3, RefusedKeeps
  <2>. QED
    BY <1>1, <2>1, KeepStep
<1>. QED
  BY <1>2, <1>3

LEMMA EveryStepLog == ShapeInv /\ NothingLost /\ [Next]_vars => LogStep
<1>. SUFFICES ASSUME ShapeInv, NothingLost, [Next]_vars PROVE LogStep
  OBVIOUS
<1>1. LogTypes
  BY LogTyped
<1>2. CASE PushLace \/ PushLast
  BY <1>2, PushesLog
<1>3. CASE FlushMidPacket
  <2>1. /\ segments # <<>> /\ accepted' = accepted /\ finished' = finished
        /\ \/ Written(PageWith(FALSE, FALSE, pageGranule, segments), TRUE)
           \/ Refused(PageWith(FALSE, FALSE, pageGranule, segments))
    BY <1>3, LacingAssumption DEF FlushMidPacket, TableFull
  <2>. QED
    BY <2>1, TableFact, FlushLog
<1>4. CASE FlushHead
  <2>1. segments # <<>> /\ accepted' = accepted /\ finished' = finished /\ 0 \in Int
    BY <1>4 DEF FlushHead, ShapeInv, HeadersFirst
  <2>2. \/ Written(PageWith(TRUE, FALSE, 0, segments), FALSE)
        \/ Refused(PageWith(TRUE, FALSE, 0, segments))
    BY <1>4, Zenon DEF FlushHead
  <2>. QED
    BY <2>1, <2>2, TableFact, FlushLog
<1>5. CASE FlushTags
  <2>1. segments # <<>> /\ accepted' = accepted /\ finished' = finished /\ 0 \in Int
    BY <1>5 DEF FlushTags, ShapeInv, HeadersFirst
  <2>2. \/ Written(PageWith(FALSE, FALSE, 0, segments), FALSE)
        \/ Refused(PageWith(FALSE, FALSE, 0, segments))
    BY <1>5, Zenon DEF FlushTags
  <2>. QED
    BY <2>1, <2>2, TableFact, FlushLog
<1>6. ASSUME UNCHANGED <<sink, segments, accepted, finished, failures>> PROVE LogStep
  <2>1. Keeps
    BY <1>6 DEF Keeps
  <2>. QED
    BY <1>1, <1>6, <2>1, KeepStep
<1>7. ASSUME NEW bytes \in Targets, SetPageTarget(bytes) PROVE LogStep
  BY <1>6, <1>7 DEF SetPageTarget, page
<1>8. ASSUME NEW size \in Sizes, NEW dur \in Durations, WritePacket(size, dur)
      PROVE  LogStep
  <2>1. CASE PageFull
    <3>1. /\ accepted' = accepted /\ finished' = finished
          /\ Written(PageWith(FALSE, FALSE, pageGranule, segments), FALSE)
      BY <1>8, <2>1 DEF WritePacket
    <3>. QED
      BY <2>1, <3>1, FullPageFact, TableFact, FlushLog
  <2>2. CASE ~PageFull
    BY <1>6, <1>8, <2>2 DEF WritePacket, page
  <2>. QED
    BY <2>1, <2>2
<1>9. CASE WritePacketRefused
  <2>1. /\ PageFull /\ accepted' = accepted /\ finished' = finished
        /\ Refused(PageWith(FALSE, FALSE, pageGranule, segments))
    BY <1>9 DEF WritePacketRefused
  <2>. QED
    BY <2>1, FullPageFact, TableFact, FlushLog
<1>10. CASE FinishInPlace
  <2>1. /\ accepted' = accepted /\ ~finished /\ finished' = TRUE
        /\ \/ Written(PageWith(FALSE, TRUE, pageGranule, LastSegments), FALSE)
           \/ Refused(PageWith(FALSE, TRUE, pageGranule, LastSegments))
    BY <1>10, FinishSteps
  <2>. QED
    BY <2>1, LastSegmentsFact, AudioOfLast, FlushLog
<1>11. CASE UNCHANGED vars
  BY <1>6, <1>11 DEF vars, page
<1>. QED
  BY <1>2, <1>3, <1>4, <1>5, <1>7, <1>8, <1>9, <1>10, <1>11 DEF Next

(* The muxer implements the log: what it has put in the sink is always a   *)
(* prefix of what it accepted, only grows, and is all of it once it is     *)
(* closed, unless the sink refused a write.                                *)
THEOREM WriterImplementsLog == Spec => ImplementsLog
<1>1. Init => Log!LogInit
  <2>. SUFFICES ASSUME Init PROVE Log!LogInit
    OBVIOUS
  <2>1. accepted = <<>> /\ finished = FALSE /\ failures = 0 /\ sink = <<>>
    BY DEF Init
  <2>2. StoredPackets = <<>>
    <3>1. <<>> \in Seq(PageType) /\ Len(<<>>) = 0
      OBVIOUS
    <3>. QED
      BY <2>1, <3>1, StoredUnfolds DEF StoredPackets
  <2>. QED
    BY <2>1, <2>2 DEF Log!LogInit
<1>2. ShapeInv /\ NothingLost /\ [Next]_vars => NothingLost'
  BY EveryStepLog DEF LogStep
<1>3. ShapeInv /\ NothingLost /\ [Next]_vars => [Log!LogNext]_(Log!logVars)
  BY EveryStepLog DEF LogStep, LogState, Log!logVars
<1>. QED
  BY InitShape, ShapeStep, InitLog, <1>1, <1>2, <1>3, PTL DEF Spec, ImplementsLog, Log!LogSpec
=============================================================================
