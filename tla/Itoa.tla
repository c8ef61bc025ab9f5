-------------------------------- MODULE Itoa --------------------------------
(***************************************************************************)
(* Numbers to text: itoa, ulltoa and strrev (src/src/libk).  Characters    *)
(* are their codes and a string is a sequence without its NUL.  The width  *)
(* of int and of uint64_t is a constant.                                   *)
(***************************************************************************)
EXTENDS Integers, Sequences

CONSTANTS INT_BITS, LONG_BITS  \* 32 and 64 in the code

(* An int is half of its range below 0, and is no wider than a uint64_t.   *)
ASSUME WidthAssumption ==
  /\ 2^(INT_BITS - 1) \in Nat \ {0}
  /\ 2^INT_BITS = 2^(INT_BITS - 1) + 2^(INT_BITS - 1)
  /\ 2^LONG_BITS \in Nat /\ 2^INT_BITS <= 2^LONG_BITS

Zero  == 48
Minus == 45

(* A value converted to int, and one converted to uint64_t.                *)
ToInt(v) ==
  LET low == v % 2^INT_BITS IN IF low < 2^(INT_BITS - 1) THEN low ELSE low - 2^INT_BITS

ToLong(v) == v % 2^LONG_BITS

(* The remainder in C has the sign of the dividend.                        *)
Rem(n, base) == IF n >= 0 THEN n % base ELSE - ((- n) % base)

(* r + '0', or r + 'a' - 10: a negative remainder is no digit.             *)
Digit(r) == IF r < 10 THEN r + Zero ELSE r + 97 - 10

(* The loop: at least one digit, the least significant first, until the    *)
(* quotient, which is n or less, is not positive.                          *)
LowDigits(n, base) ==
  LET from[m \in {n} \cup 0 .. n] ==
        << Digit(Rem(m, base)) >> \o (IF m >= base THEN from[m \div base] ELSE << >>)
  IN  from[n]

strrev(str) == [k \in 1 .. Len(str) |-> str[(Len(str) - k) + 1]]

(* Fault: a sign in every base.                                            *)
FaultSigned(sign, base) == IF sign < 0 THEN << Minus >> ELSE << >>

Signed(sign, base) == IF sign < 0 /\ base = 10 THEN << Minus >> ELSE << >>

(* Fault: the digits are left in the order in which they are found.        *)
FaultNotReversed(n, base) == Signed(n, base) \o LowDigits(IF n < 0 THEN - n ELSE n, base)

(* - n of the least int is that int again.                                 *)
itoa(n, base) ==
  IF n = 0 THEN << Zero >>
  ELSE strrev(LowDigits(IF n < 0 /\ base = 10 THEN ToInt(- n) ELSE n, base) \o Signed(n, base))

(* The sign is that of the low half of n, taken as an int.                 *)
ulltoa(n, base) ==
  LET sign == ToInt(n)
  IN  IF n = 0 THEN << Zero >>
      ELSE strrev(LowDigits(IF sign < 0 /\ base = 10 THEN ToLong(- n) ELSE n, base)
                  \o Signed(sign, base))
=============================================================================
