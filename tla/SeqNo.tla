------------------------------- MODULE SeqNo -------------------------------
(***************************************************************************)
(* The 32-bit sequence numbers that the kernel stamps on every record, and *)
(* the comparisons ftsort makes on them.  SeqMod stands for 2^32 and       *)
(* LookAhead for LOOK_AHEAD (1024); OverflowCutoff stands for              *)
(* OVERFLOW_CUTOFF (UINT16_MAX / 2 = 32767).                               *)
(***************************************************************************)
EXTENDS Integers

CONSTANTS SeqMod, LookAhead, OverflowCutoff

ASSUME SeqNoAssumption ==
    /\ SeqMod \in Nat /\ LookAhead \in Nat \ {0} /\ OverflowCutoff \in Nat
    /\ LookAhead <= OverflowCutoff
    /\ LookAhead + OverflowCutoff <= SeqMod

SeqNumbers == 0 .. (SeqMod - 1)

(***************************************************************************)
(* Unsigned 32-bit arithmetic: the value kept of one addition or           *)
(* subtraction of two sequence numbers.                                    *)
(***************************************************************************)
U32(x) == IF x >= SeqMod THEN x - SeqMod ELSE IF x < 0 THEN x + SeqMod ELSE x

\* The conversion of an unsigned number to int32_t, for the call of is_lower_seqno.
S32(x) == IF 2 * x >= SeqMod THEN x - SeqMod ELSE x

next_seq_number(seqno) == U32(seqno + 1)

\* True when candidate is at most LookAhead - 1 increments after seqno.
in_range(seqno, candidate) ==
    LET upper_bound == U32(seqno + LookAhead)
        diff        == U32(candidate - seqno)
    IN  \/ upper_bound < seqno /\ candidate < seqno /\ candidate < upper_bound
        \/ candidate >= seqno /\ diff < LookAhead

\* Mutant: a comparison of signed numbers that forgets that they wrap around.
is_lower_signed(candidate, least) == S32(candidate) <= S32(least)

\* True when candidate comes no later than least, across the signed boundary too.
is_lower_seqno(candidate, least) ==
    LET delta == S32(least) - S32(candidate)
    IN  \/ delta >= 0 /\ delta <= OverflowCutoff
        \/ delta < -OverflowCutoff

-----------------------------------------------------------------------------
\* The reference notion: how many increments lead from one number to another.
Dist(from, to) == U32(to - from)
=============================================================================
