----------------------------- MODULE SparseInt -----------------------------
(***************************************************************************)
(* The variable-length integers of base/basetypes.cpp, which << and >> of  *)
(* marshal.hpp use for v32, v64 and lengths.  An i64 is wider than         *)
(* TLC's integers, so a value is its bytes pv[0] .. pv[7] in two's         *)
(* complement, lowest first; an i32 is a value that fits in 32 bits.  A    *)
(* buffer is the sequence of its bytes.                                    *)
(***************************************************************************)
EXTENDS Integers, Sequences, FiniteSetsExt

Int64 == [0 .. 7 -> 0 .. 255]

Bit(v, k) == (v[k \div 8] \div 2 ^ (k % 8)) % 2

\* -2^b <= v <= 2^b - 1
Fits(v, b) == \A k \in b .. 62 : Bit(v, k) = Bit(v, 63)

\* Fault: the bound of each size is one bit too high.
val_size_late(v) == Min({s \in 1 .. 8 : Fits(v, 7 * s)} \cup {9})

val_size(v) == Min({s \in 1 .. 8 : Fits(v, 7 * s - 1)} \cup {9})

\* One more than the number of leading ones.
buf_size(byte0) == Min({s \in 1 .. 8 : byte0 \div 2 ^ (8 - s) = 2 ^ s - 2} \cup {9})

\* The bits that say there are s bytes.
Prefix(s) == 256 - 2 ^ (9 - s)

\* The s lowest bytes, highest first, the first one sharing its byte with the prefix.
Short(v, s) ==
    [i \in 1 .. s |-> IF i = 1 THEN (v[s - 1] % 2 ^ (8 - s)) + Prefix(s) ELSE v[s - i]]

\* What dump(i64) returns of the buffer: for 8 bytes it lays out 9 and returns 8.
dump_i64(v) ==
    LET s == val_size(v) IN
    IF s < 8 THEN Short(v, s) ELSE [i \in 1 .. s |-> IF i = 1 THEN Prefix(s) ELSE v[9 - i]]

dump_i32(v) ==
    LET s == val_size(v) IN
    IF s < 5 THEN Short(v, s)
    ELSE << IF Bit(v, 63) = 1 THEN 247 ELSE 240, v[3], v[2], v[1], v[0] >>

\* The value in a buffer of s bytes; the bit under the prefix is the sign.
LoadShort(b, s) ==
    LET top == b[1] % 2 ^ (8 - s)
        sign == top \div 2 ^ (7 - s)
        high == IF sign = 1 THEN (top % 2 ^ (7 - s)) + 256 - 2 ^ (7 - s) ELSE top IN
    [i \in 0 .. 7 |-> IF i >= s THEN sign * 255 ELSE IF i = s - 1 THEN high ELSE b[s - i]]

\* A buffer of 8 bytes is read like one of 9, the last of which was never written
\* and holds anything.
load_i64(b, junk) ==
    LET s == buf_size(b[1]) IN
    IF s < 8 THEN LoadShort(b, s) ELSE [i \in 0 .. 7 |-> IF 9 - i > s THEN junk ELSE b[9 - i]]

load_i32(b) ==
    LET s == buf_size(b[1]) IN
    IF s < 5 THEN LoadShort(b, s)
    ELSE [i \in 0 .. 7 |-> IF i < 4 THEN b[5 - i] ELSE (b[2] \div 128) * 255]
=============================================================================
