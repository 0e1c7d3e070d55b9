----------------------------- MODULE BitStream -----------------------------
(***************************************************************************)
(* The entropy coder as the codec's syntax sees it: a budget, a position   *)
(* (tell_frac, in eighths of a bit) and the symbols so far, each with the  *)
(* model it is coded under.  What EntropyCoding shows of the coder itself  *)
(* is taken here: a decoder that asks for the same models gets the same    *)
(* values and is at the same position after each of them.                  *)
(***************************************************************************)
EXTENDS Integers, SequencesExt, FiniteSetsExt

(* Op of v, and a fold from the left, with v and each intermediate result   *)
(* evaluated before they are used.                                         *)
With(v, Op(_)) == CHOOSE r \in {Op(x) : x \in {v}} : TRUE
Over(Op(_, _), base, seq) == FoldLeft(LAMBDA acc, x : With(acc, LAMBDA a : Op(a, x)), base, seq)

BitRes == 8                     \* eighths of a bit (BITRES = 3)

(* The models: a bit of probability 2^-logp, a number below ft, raw bits,  *)
(* a symbol of a table or a distribution, named, an angle of qn steps, and *)
(* a vector of k pulses at a price.                                        *)
Bit(logp)   == <<"bit", logp>>
Uint(ft)    == <<"uint", ft>>
Raw(bits)   == <<"raw", bits>>
Table(name) == <<"table", name>>
Angle(shape, qn) == <<shape, qn>>
Pulses(k, price) == <<"pulses", k, price>>

(* What a symbol costs, in eighths of a bit: a likely 0 nearly nothing, a  *)
(* choice among n what LOG2_FRAC_TABLE (rate.rs) says and 8 for each       *)
(* doubling beyond it, a vector of pulses what its band's table allows.    *)
ZeroCost == <<8, 3, 2, 1, 1>>
Log2Frac == <<0, 8, 13, 16, 19, 21, 23, 24, 26, 27, 28, 29,
              30, 31, 32, 32, 33, 34, 34, 35, 36, 36, 37, 37>>
LogOf[n \in 1 .. 2 ^ 15] ==
  IF n <= Len(Log2Frac) THEN Log2Frac[n] ELSE BitRes + LogOf[(n + 1) \div 2]

(* The angle of a split, of qn steps: its first half thrice as likely as   *)
(* the second ("step"), or likelier the nearer to the middle ("triangle"). *)
StepTotal(qn) == 3 * (qn \div 2 + 1) + qn \div 2
StepCost(qn, value) ==
  LogOf[StepTotal(qn)] - (IF value <= qn \div 2 THEN LogOf[3] ELSE 0)
TriangleCost(qn, value) ==
  LogOf[(qn \div 2 + 1) ^ 2]
    - LogOf[IF value <= qn \div 2 THEN value + 1 ELSE qn + 1 - value]

TableCost(value) == 12 + 4 * value
Cost(model, value) ==
  CASE model[1] = "bit"   -> IF value = 1 THEN BitRes * model[2]
                             ELSE IF model[2] <= Len(ZeroCost) THEN ZeroCost[model[2]] ELSE 0
    [] model[1] = "uint"     -> LogOf[model[2]]
    [] model[1] = "raw"      -> BitRes * model[2]
    [] model[1] = "table"    -> TableCost(value)
    [] model[1] = "step"     -> StepCost(model[2], value)
    [] model[1] = "triangle" -> TriangleCost(model[2], value)
    [] model[1] = "pulses"   -> model[3]

(* A coder that has 1 bit of tell at the start, as both sides do.          *)
Writer(bytes) == [writes |-> TRUE, at |-> BitRes, storage |-> bytes, log |-> <<>>, ok |-> TRUE]
Reader(log, bytes) == [writes |-> FALSE, at |-> BitRes, storage |-> bytes, log |-> log, ok |-> TRUE]

Tell(c) == (c.at + BitRes - 1) \div BitRes
TellFrac(c) == c.at
Bytes(c) == BitRes * c.storage      \* the storage in bits

Took(c, value) == [c |-> c, value |-> value]

Put(c, model, value) ==
  Took([c EXCEPT !.log = Append(@, <<model, value>>), !.at = @ + Cost(model, value)], value)

(* ok is lost when the next symbol was written under another model.        *)
Get(c, model) ==
  IF c.log # <<>> /\ Head(c.log)[1] = model
  THEN Took([c EXCEPT !.log = Tail(@), !.at = @ + Cost(model, Head(c.log)[2])], Head(c.log)[2])
  ELSE Took([c EXCEPT !.ok = FALSE], 0)

(* Where one function serves both sides: value is the encoder's to choose. *)
Code(c, model, value) == IF c.writes THEN Put(c, model, value) ELSE Get(c, model)
=============================================================================
