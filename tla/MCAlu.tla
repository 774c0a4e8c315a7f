------------------------------- MODULE MCAlu -------------------------------
(* Words of 4 bits: halves of 2 bits, double words of 8; numbers of a sign,  *)
(* a characteristic of 3 bits and a mantissa of two digits in base 4.        *)
EXTENDS Alu

MCOperands == {0, 1, 6, 7, 8, 9, 15}
MCCounts == {0, 1, 3, 4, 7}
MCIndexes == {0, 5, 15}
MCNumbers == {0, 17, 36, 68, 79, 91, 107, 185, 200, 241}
=============================================================================
