---------------------------- MODULE StrideArith ----------------------------
(***************************************************************************)
(* The arithmetic of kern/schedule/default_sched_stride.c: a stride is an  *)
(* uint32_t that wraps around, and two strides are compared by the sign of *)
(* their difference as an int32_t.                                         *)
(***************************************************************************)
EXTENDS Integers

CONSTANT BigStride      \* BIG_STRIDE, (1 << 30) in the code

ASSUME BigStrideAssumption == BigStride \in Nat \ {0}

\* 2^32 is four times BIG_STRIDE.
Modulus == 4 * BigStride
Strides == 0 .. Modulus - 1

\* stride += d.
Plus(s, d) == IF s + d >= Modulus THEN s + d - Modulus ELSE s + d

\* int32_t c = s - t.  Mutation: the strides are compared without wraparound.
MutDiff(s, t) == s - t
Diff(s, t) ==
    IF s - t >= 2 * BigStride THEN s - t - Modulus
    ELSE IF s - t < -(2 * BigStride) THEN s - t + Modulus
    ELSE s - t

\* proc_stride_comp_f() returns -1.
Before(s, t) == Diff(s, t) < 0

\* What a process of priority v is charged when it is picked.  Mutation:
\* BIG_STRIDE is chosen as 1 << 31.
MutPass(v) == (2 * BigStride) \div v
Pass(v) == BigStride \div v

\* At most BIG_STRIDE apart: where the comparison is right for all pairs.
Near(s, t) == -BigStride <= Diff(s, t) /\ Diff(s, t) <= BigStride
=============================================================================
