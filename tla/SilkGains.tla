------------------------------ MODULE SilkGains ------------------------------
(***************************************************************************)
(* The gains of a SILK frame (silk/gain_quant.rs): one level of 0..63 per  *)
(* subframe, coded as a step from the one before, or, for the first of an  *)
(* independently coded frame, as it is.  Steps upward count double beyond  *)
(* a threshold.  A level stands for the gain it is read as (its logarithm  *)
(* scaled); converting samples' gains to levels is not modelled.           *)
(***************************************************************************)
EXTENDS Integers, SequencesExt

TopLevel == 63     \* N_LEVELS_QGAIN - 1
MinStep  == -4     \* MIN_DELTA_GAIN_QUANT
MaxStep  == 36     \* MAX_DELTA_GAIN_QUANT
StartLevel == 10   \* of a channel that has been reset

Limit(x, low, high) == IF x < low THEN low ELSE IF x > high THEN high ELSE x
Larger(a, b)  == IF a > b THEN a ELSE b

DoubleStep(prev) == 2 * MaxStep - (TopLevel + 1) + prev

(* silk_gains_quant, a subframe: level is where its gain lies on the scale *)
(* (which it is rounded up from when that is below the last one).          *)
Wanted(level, prev) == Limit(IF level < prev THEN level + 1 ELSE level, 0, TopLevel)

Shortened(step, prev) ==
  Limit(IF step > DoubleStep(prev)
        THEN DoubleStep(prev) + (step - DoubleStep(prev) + 1) \div 2 ELSE step,
        MinStep, MaxStep)

(* Where a step leads: the same on both sides, but for the cap.            *)
Climb(prev, step) ==
  IF step > DoubleStep(prev) THEN prev + 2 * step - DoubleStep(prev) ELSE prev + step

QuantAbsolute(level, prev) == Limit(Wanted(level, prev), prev + MinStep, TopLevel)
QuantStep(level, prev) == Shortened(Wanted(level, prev) - prev, prev)
QuantClimb(prev, step) ==
  IF step > DoubleStep(prev) /\ Climb(prev, step) > TopLevel THEN TopLevel ELSE Climb(prev, step)

(* silk_gains_dequant, a subframe.                                         *)
DequantAbsolute(index, prev) == Limit(Larger(index, prev - 16), 0, TopLevel)
DequantStep(index, prev) == Limit(Climb(prev, index + MinStep), 0, TopLevel)

(* Both over a frame: [indices, levels], the last of which is remembered.  *)
GainsQuant(wanted, prev, conditional) ==
  LET Next(acc, k) ==
        LET before == IF k = 1 THEN prev ELSE Last(acc.levels)
            step   == QuantStep(wanted[k], before)
            absolute == k = 1 /\ ~conditional
        IN [indices |-> Append(acc.indices, IF absolute THEN QuantAbsolute(wanted[k], before)
                                            ELSE step - MinStep),
            levels  |-> Append(acc.levels, IF absolute THEN QuantAbsolute(wanted[k], before)
                                           ELSE QuantClimb(before, step))]
  IN FoldLeft(Next, [indices |-> <<>>, levels |-> <<>>], [k \in 1 .. Len(wanted) |-> k])

GainsDequant(indices, prev, conditional) ==
  LET Next(levels, k) ==
        LET before == IF k = 1 THEN prev ELSE Last(levels)
        IN Append(levels, IF k = 1 /\ ~conditional THEN DequantAbsolute(indices[k], before)
                          ELSE DequantStep(indices[k], before))
  IN FoldLeft(Next, <<>>, [k \in 1 .. Len(indices) |-> k])
=============================================================================
