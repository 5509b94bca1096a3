------------------------------ MODULE RlcWindow ------------------------------
(***************************************************************************)
(* Block sequence number arithmetic of the RLC layer.  The source keeps    *)
(* every state variable V(S), V(A), V(R), V(Q) in 0 .. RLC_MOD_VAL-1 and   *)
(* steps it with "x = ++x % RLC_MOD_VAL"; the operators below are that     *)
(* arithmetic, written without % so that it stays linear for the provers.  *)
(***************************************************************************)
EXTENDS Integers

CONSTANTS
    RLC_MOD_VAL,    \* sequence number space (128 in the product)
    K               \* window size of both directions (64 in the product)

ASSUME WindowAssumption ==
    /\ RLC_MOD_VAL \in Nat
    /\ K \in Nat
    /\ 1 <= K
    /\ 2 * K <= RLC_MOD_VAL

BSN == 0 .. RLC_MOD_VAL - 1

\* "++i % RLC_MOD_VAL" for an index that is in range.
IncNoWrap(i) == i + 1
Inc(i) == IF i = RLC_MOD_VAL - 1 THEN 0 ELSE i + 1

\* "(i + d) % RLC_MOD_VAL" for an index in range and 0 <= d <= RLC_MOD_VAL.
Plus(i, d) == IF i + d >= RLC_MOD_VAL THEN i + d - RLC_MOD_VAL ELSE i + d

\* How many increments lead from a to b.
Dist(a, b) == IF a <= b THEN b - a ELSE b - a + RLC_MOD_VAL

\* The indices a loop "for (i = a; i != b; i = ++i % RLC_MOD_VAL)" visits.
Span(a, b) == {i \in BSN : Dist(a, i) < Dist(a, b)}

\* The index of the non-empty set S that such a loop meets first.
FirstFrom(a, S) == CHOOSE i \in S : \A j \in S : Dist(a, i) <= Dist(a, j)
==============================================================================
