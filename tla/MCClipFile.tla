----------------------------- MODULE MCClipFile -----------------------------
(***************************************************************************)
(* A clip is encoded, by one thread or several, and what comes back is     *)
(* written to a file.                                                      *)
(***************************************************************************)
EXTENDS Parallel, OggWriter

(* Clips up to three chunks; no warm-up, and one of a frame or of a third  *)
(* of a frame.                                                             *)
MCTotals    == {1, 3, 9, 13}
MCRequests  == {0, 3}
MCWarmupsMs == {0, 20}
MCFramesUs  == {20000, 60000}

(* Lacing values stop at 2 and a page takes 3, so a packet of 6 bytes      *)
(* fills a page and its terminator spills, and one of 7 is cut in two.     *)
(* Tags of 5 bytes fill their page to the last slot, tags of 6 spill.      *)
MCSizes     == {0, 1, 4, 7}
MCTagsSizes == {1, 6}
MCDurations == {0, 2, 4}
MCTargets   == {0, 100}

(* The packets a writer is given are of any sizes and durations, whatever  *)
(* the clip was: one clip is enough to be written.                         *)
Writable == total = 1 /\ requested = 0 /\ warmupMs = 0 /\ frameUs = 20000

MCInit ==
  /\ ParallelInit /\ Init
  /\ Writable \/ pageTarget = 1

MCNext ==
  \/ ParallelNext /\ UNCHANGED vars
  \/ Writable /\ result.kind = "ok" /\ Next /\ UNCHANGED parallelVars

MCSpec ==
  /\ MCInit /\ [][MCNext]_<<parallelVars, vars>>
  /\ WF_parallelVars(Caller /\ UNCHANGED vars)
  /\ WF_parallelVars((\E w \in WorkerIds : Thread(w)) /\ UNCHANGED vars)
=============================================================================
