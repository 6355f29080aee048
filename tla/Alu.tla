--------------------------------- MODULE Alu ---------------------------------
(***************************************************************************)
(* The arithmetic unit of core_8051: add, sub and da work on a byte in     *)
(* three slices, bits 3 .. 0, bits 6 .. 4 and bit 7, because the carry     *)
(* between the slices gives the flags AC and OV.                           *)
(***************************************************************************)
EXTENDS Integers

Byte == 0 .. 255

Low(a) == a % 16
Middle(a) == (a \div 16) % 8
Top(a) == a \div 128

\* One of two carries, and not both.
Xor(c, d) == (c + d) % 2

\* The byte of three slices, whatever stands above each of them.
Join(top, middle, low) == 128 * (top % 2) + 16 * (middle % 8) + (low % 16)

add(a, b, c) ==
    LET ad1 == Low(a) + Low(b) + c
        bac == ad1 \div 16
        ad2 == Middle(a) + Middle(b) + bac
        bov == ad2 \div 8
        ad3 == Top(a) + Top(b) + bov
        bcf == ad3 \div 2
    IN  [res |-> Join(ad3, ad2, ad1), AC |-> bac, CF |-> bcf, OV |-> Xor(bcf, bov)]

\* A bit above each slice is lent to it; the flag says that it is gone.
sub(a, b, c) ==
    LET su1 == 16 + Low(a) - Low(b) - c
        bac == 1 - (su1 \div 16)
        su2 == 8 + Middle(a) - Middle(b) - bac
        bov == 1 - (su2 \div 8)
        su3 == 2 + Top(a) - Top(b) - bov
        bcf == 1 - (su3 \div 2)
    IN  [res |-> Join(su3, su2, su1), AC |-> bac, CF |-> bcf, OV |-> Xor(bcf, bov)]

\* A decimal digit that has become too large, or has lost a carry.
Adjusted(digit, lost) == IF lost \/ digit > 9 THEN digit + 6 ELSE digit

\* CF is a signal of one bit.
da(a, cf, ac) ==
    LET da1 == Adjusted(a % 16, ac = 1)
        da2 == Adjusted(16 * cf + (a \div 16) + (da1 \div 16), FALSE)
    IN  [res |-> 16 * (da2 % 16) + (da1 % 16), CF |-> (da2 \div 16) % 2]
==============================================================================
