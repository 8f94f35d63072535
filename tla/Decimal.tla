------------------------------ MODULE Decimal -------------------------------
(***************************************************************************)
(* The order of decimal strings.                                           *)
(***************************************************************************)
EXTENDS Integers

(* The decimal string of x sorts before that of y: x is a proper prefix    *)
(* of y, or they differ first in a digit in which x is smaller.  10^9 is   *)
(* the largest power of ten TLC can compute.                               *)
DecimalBefore(x, y) ==
    \E i, j \in 0..9 :
        LET p == x \div 10^i
            q == y \div 10^j
        IN  /\ p # 0 \/ i = 0
            /\ q # 0 \/ j = 0
            /\ \/ p \div 10 = q \div 10 /\ p < q
               \/ i = 0 /\ j > 0 /\ p = q

(* The numbers whose digits it compares, all of them.                      *)
TenDigits == {x \in Nat : x \div 10^9 < 10}

=============================================================================
