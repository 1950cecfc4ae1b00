-------------------------------- MODULE Bytes --------------------------------
(***************************************************************************)
(* Byte strings: sequences of numbers below 256, and the big-endian        *)
(* integers in them (src/crates/protocol/src/basic/integer.rs and the      *)
(* limits of constant.rs).                                                 *)
(***************************************************************************)
EXTENDS Integers, Sequences

Byte == 0..255

MAX_SESSIONS == 8
TPM_MAX_COMMAND_SIZE == 4096

\* The w bytes of n, most significant first.
Be(w, n) == [i \in 1..w |-> (n \div 256 ^ (w - i)) % 256]

\* The number that one, two or four bytes spell.  A word with its top bit set is
\* given as the largest number TLC has: it is only compared with lengths.
MAX_NUMBER == 2147483647
Number(s) ==
    IF Len(s) = 1 THEN s[1]
    ELSE IF Len(s) = 2 THEN 256 * s[1] + s[2]
    ELSE IF s[1] > 127 THEN MAX_NUMBER
    ELSE 256 * (256 * (256 * s[1] + s[2]) + s[3]) + s[4]

Take(s, n) == SubSeq(s, 1, n)
Drop(s, n) == SubSeq(s, n + 1, Len(s))
=============================================================================
