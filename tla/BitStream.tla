------------------------------ MODULE BitStream ------------------------------
(***************************************************************************)
(* bs.h of h264bitstream: a cursor over a buffer, bit by bit, and the      *)
(* Exp-Golomb codes on top of it.  A cursor for reading is the bits of the *)
(* buffer and the number of bits behind it, b.p and b.bits_left in one; it *)
(* goes on counting behind the end, where every bit reads as 0.  Writing   *)
(* is done on the sequence of bits written so far.                         *)
(***************************************************************************)
EXTENDS Integers, Sequences, SequencesExt

\* n bits of v, the high one first; v is below 2^31.
BitsOf(n, v) == [i \in 1..n |-> IF n - i > 30 THEN 0 ELSE (v \div 2^(n - i)) % 2]

BitsOfBytes(bytes) == FlattenSeq([i \in DOMAIN bytes |-> BitsOf(8, bytes[i])])

ValueOf(bits) == FoldLeft(LAMBDA v, bit: 2 * v + bit, 0, bits)

\* Whole bytes only: bs_pos leaves out a byte that is not full.
BytesOfBits(bits) ==
    [i \in 1..(Len(bits) \div 8) |-> ValueOf(SubSeq(bits, 8 * i - 7, 8 * i))]

bs_new(bytes) == [bits |-> BitsOfBytes(bytes), pos |-> 0]

bs_eof(b) == b.pos >= Len(b.bits)
bs_overrun_late(b) == b.pos \div 8 > (Len(b.bits) \div 8) + 1
bs_overrun(b) == b.pos \div 8 > Len(b.bits) \div 8

BitAt(b, i) == IF i < Len(b.bits) THEN b.bits[i + 1] ELSE 0
bs_peek_u1(b) == BitAt(b, b.pos)

\* What a read of n bits returns; bs_read_u1, bs_read_f and bs_read_u8 are
\* the same for n = 1 and n = 8.
bs_next_bits(b, n) == ValueOf([i \in 1..n |-> BitAt(b, b.pos + i - 1)])
bs_skip_u(b, n) == [b EXCEPT !.pos = @ + n]

\* bs_read_ue counts zeros up to a one, but also stops behind the 33rd zero
\* and behind a zero that is the last bit of the buffer, which it does not
\* count.
LeadingZeros(b) ==
    LET stops(i) == \/ BitAt(b, b.pos + i) = 1
                    \/ i = 32
                    \/ b.pos + i + 1 >= Len(b.bits)
    IN CHOOSE i \in 0..32 : stops(i) /\ \A j \in 0..(i - 1) : ~stops(j)

ue_length(b) == 2 * LeadingZeros(b) + 1
ue_value(b) ==
    LET zeros == LeadingZeros(b)
    IN bs_next_bits(bs_skip_u(b, zeros + 1), zeros) + 2^zeros - 1

SignedOf_rounded(code) == IF code % 2 = 1 THEN code \div 2 ELSE -(code \div 2)
SignedOf(code) == IF code % 2 = 1 THEN (code + 1) \div 2 ELSE -(code \div 2)

\* bs_read_u, bs_read_ue and bs_read_se by the kind of the syntax element.
bs_read(b, kind, n) ==
    CASE kind = "u"  -> bs_next_bits(b, n)
      [] kind = "ue" -> ue_value(b)
      [] kind = "se" -> SignedOf(ue_value(b))

bs_behind(b, kind, n) == bs_skip_u(b, IF kind = "u" THEN n ELSE ue_length(b))

\* How many bits v needs, len_table of bs_write_ue.
BitLength(v) == CHOOSE n \in 1..31 : v < 2^n /\ (n = 1 \/ v >= 2^(n - 1))

bs_write_ue(v) == BitsOf(2 * BitLength(v + 1) - 1, v + 1)
bs_write_se(v) == bs_write_ue(IF v <= 0 THEN -v * 2 ELSE v * 2 - 1)

bs_write(kind, n, v) ==
    CASE kind = "u"  -> BitsOf(n, v)
      [] kind = "ue" -> bs_write_ue(v)
      [] kind = "se" -> bs_write_se(v)

\* bs_read_bytes and bs_skip_bytes: what is there of n bytes at an aligned
\* cursor; the cursor moves by n all the same.
bs_read_bytes(b, n) ==
    BytesOfBits(SubSeq(b.bits, b.pos + 1,
                       IF b.pos + 8 * n < Len(b.bits) THEN b.pos + 8 * n ELSE Len(b.bits)))
=============================================================================
