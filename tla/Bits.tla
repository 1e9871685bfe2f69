-------------------------------- MODULE Bits ---------------------------------
(***************************************************************************)
(* Numbers of 16 bits and the operator ^ of C on them, in arithmetic.      *)
(***************************************************************************)
EXTENDS Naturals

Bit(a, i) == (a \div 2^i) % 2

(* The number with these bits.                                             *)
Number(bit) ==
  LET n[i \in 0..16] == IF i = 0 THEN 0 ELSE bit[16 - i] + 2 * n[i - 1]
  IN n[16]

Xor(a, b) == Number([i \in 0..15 |-> IF Bit(a, i) = Bit(b, i) THEN 0 ELSE 1])
=============================================================================
