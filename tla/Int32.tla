-------------------------------- MODULE Int32 --------------------------------
(***************************************************************************)
(* The 32-bit int arithmetic of the host and kernel size computations.  An *)
(* addition that leaves the int range wraps, which is what the compiled    *)
(* code does with the undefined signed overflow.                          *)
(***************************************************************************)
EXTENDS Integers

INT_MAX == 2147483647

\* int + int, wrapping past INT_MAX and below -INT_MAX - 1.
AddInt(a, b) ==
  CASE b > 0 /\ a > INT_MAX - b -> (a - INT_MAX - 1) + (b - INT_MAX - 1)
    [] b < 0 /\ a < -INT_MAX - 1 - b -> (a + INT_MAX + 1) + (b + INT_MAX + 1)
    [] OTHER -> a + b
\* int - int; -b is representable for every b but -INT_MAX - 1.
SubInt(a, b) == IF b = -INT_MAX - 1 THEN AddInt(AddInt(a, INT_MAX), 1)
                ELSE AddInt(a, -b)
\* C's / on int: truncation toward zero (-a is formed as -(a + 1) + 1).
DivInt(a, b) ==
  IF a >= 0 THEN a \div b
  ELSE LET m == -(a + 1) IN -((m \div b) + (IF m % b = b - 1 THEN 1 ELSE 0))
Min2(a, b) == IF a < b THEN a ELSE b
\* An unsigned int is kept as the int with the same 32 bits, so unsigned +
\* and - are AddInt and SubInt.  UDiv(a, y): the unsigned a / y for a
\* divisor 2 <= y <= INT_MAX; a negative a stands for a + 2^32, which is
\* split into (a + 2^31) + 2^31 to stay inside TLC's integers.
UDiv(a, y) ==
  IF a >= 0 THEN a \div y
  ELSE LET h == a + INT_MAX + 1
       IN h \div y + INT_MAX \div y + ((h % y) + (INT_MAX % y) + 1) \div y
====
