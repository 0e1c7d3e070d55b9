----------------------------- MODULE PulseIndex -----------------------------
(***************************************************************************)
(* The index of a vector of n integers whose absolute values come to k     *)
(* (celt/pvq.rs: icwrs and cwrsi): its place among all such vectors, which *)
(* is what a band's shape is coded as.                                     *)
(***************************************************************************)
EXTENDS Integers, SequencesExt

CONSTANTS MaxLength, MaxPulses    \* the longest vector and the most pulses

ASSUME PulseAssumption == MaxLength \in Nat \ {0, 1} /\ MaxPulses \in Nat \ {0}

Abs(x) == IF x < 0 THEN -x ELSE x
Signed(magnitude, negative) == IF negative THEN -magnitude ELSE magnitude

(* celt_pvq_u_lookup: the vectors of length n and k pulses, a pulse of the *)
(* first one's put aside (the table holds its values; compute_u makes them *)
(* row by row).                                                            *)
U[n \in 0 .. MaxLength + MaxPulses + 1, k \in 0 .. MaxLength + MaxPulses + 1] ==
  IF n = 0 THEN (IF k = 0 THEN 1 ELSE 0)
  ELSE IF k = 0 THEN 0
  ELSE IF n = 1 THEN 1
  ELSE U[n - 1, k] + U[n, k - 1] + U[n - 1, k - 1]

(* celt_pvq_v: how many vectors there are.                                 *)
V(n, k) == U[n, k] + U[n, k + 1]

(* icwrs: from the last element forwards.                                  *)
IndexFrom(y, state, j) ==
  LET n == Len(y) - j + 1
      k == state.k + Abs(y[j])
  IN [k |-> k, i |-> state.i + U[n, state.k] + (IF y[j] < 0 THEN U[n, k + 1] ELSE 0)]

Icwrs(y) ==
  LET n == Len(y)
      last == [k |-> Abs(y[n]), i |-> IF y[n] < 0 THEN 1 ELSE 0]
  IN FoldLeft(LAMBDA state, m : IndexFrom(y, state, n - m), last, [m \in 1 .. n - 1 |-> m]).i

(* cwrsi: the elements one after another; the pulses left after an element *)
(* are as many as fit below the index that is left.                        *)
Left(n, k, i) ==
  LET fits == {m \in 0 .. k : U[n, m] <= i}
  IN CHOOSE m \in fits : \A o \in fits : o <= m

NextElement(state, n) ==
  LET negative == state.i >= U[n, state.k + 1]
      i    == IF negative THEN state.i - U[n, state.k + 1] ELSE state.i
      left == Left(n, state.k, i)
  IN [k |-> left, i |-> i - U[n, left],
      y |-> Append(state.y, Signed(state.k - left, negative))]

(* The last two, and a vector of one.                                      *)
LastButOne(state) ==
  LET negative == state.i >= 2 * state.k + 1
      i    == IF negative THEN state.i - (2 * state.k + 1) ELSE state.i
      left == (i + 1) \div 2
  IN [k |-> left, i |-> IF left > 0 THEN i - (2 * left - 1) ELSE i,
      y |-> Append(state.y, Signed(state.k - left, negative))]

LastElement(state) == Append(state.y, Signed(state.k, state.i = 1))

Cwrsi(n, k, i) ==
  LET start == [k |-> k, i |-> i, y |-> <<>>]
  IN IF n = 1 THEN LastElement(start)
     ELSE LastElement(LastButOne(
            FoldLeft(LAMBDA state, m : NextElement(state, n + 1 - m), start,
                     [m \in 1 .. n - 2 |-> m])))
=============================================================================
