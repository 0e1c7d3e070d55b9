----------------------------- MODULE PacketLog -----------------------------
(***************************************************************************)
(* What a container writer promises its caller, without pages: a log of    *)
(* the packets it has taken, of which a growing prefix is in the sink.     *)
(* Buffering may hold any suffix back, a refused write may stop the prefix *)
(* from growing, but nothing in the sink is lost, repeated or overtaken,   *)
(* and closing without a refused write leaves nothing behind.              *)
(***************************************************************************)
EXTENDS Naturals, SequencesExt

CONSTANT Packet

VARIABLES
  log,      \* the packets taken, in order
  stored,   \* the packets in the sink, in order
  closed,   \* no more packets are taken
  failed    \* the sink has refused a write

logVars == <<log, stored, closed, failed>>

LogInit == log = <<>> /\ stored = <<>> /\ closed = FALSE /\ failed = FALSE

Take ==
  /\ ~closed
  /\ \E p \in Packet : log' = Append(log, p)
  /\ UNCHANGED <<stored, closed, failed>>

Store ==
  /\ IsPrefix(stored, stored') /\ IsPrefix(stored', log)
  /\ UNCHANGED <<log, closed, failed>>

Close ==
  /\ ~closed /\ closed'
  /\ stored' = log
  /\ UNCHANGED <<log, failed>>

(* The sink refuses, in the middle of the stream or at its end.            *)
Fail ==
  /\ failed'
  /\ closed => closed'
  /\ UNCHANGED <<log, stored>>

LogNext == Take \/ Store \/ Close \/ Fail

LogSpec == LogInit /\ [][LogNext]_logVars
=============================================================================
