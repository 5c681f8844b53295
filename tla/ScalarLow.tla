------------------------------ MODULE ScalarLow ------------------------------
(***************************************************************************)
(* Scalars as single numbers below the group order, as the library's       *)
(* exhaustive tests replace them (scalar_low_impl.h), and sequences of     *)
(* calls on them: what scalar.h promises of every representation.  Those   *)
(* tests are about the real arithmetic only if it implements this module.  *)
(***************************************************************************)
EXTENDS Integers, Limbs

CONSTANTS Order, Scalars

LowSetB32(x) == x % Order

LowAdd(a, b) == LET r == (a + b) % Order
                IN  [r |-> r, overflow |-> IF r < b THEN 1 ELSE 0]

LowCAddBit(r, bit, flag) == IF flag = 1 THEN r + 2^bit ELSE r

LowNegate(a) == IF a = 0 THEN 0 ELSE Order - a

LowIsHigh(a) == a > Order \div 2

LowCondNegate(r, flag) == IF flag = 1 THEN [r |-> LowNegate(r), sign |-> -1]
                                      ELSE [r |-> r, sign |-> 1]

LowMul(a, b) == MulMod(a, b, Order)

LowShrInt(r, n) == [r |-> r \div 2^n, low |-> r % 2^n]

LowGetBits(a, offset, count) == (a \div 2^offset) % 2^count

-----------------------------------------------------------------------------
VARIABLES val,      \* the number of each scalar
          last      \* the last call, with what it returned

Call(name, r, a, b, k, out) ==
    [name |-> name, r |-> r, a |-> a, b |-> b, k |-> k, out |-> out]

SomeScalar == CHOOSE r \in Scalars : TRUE
NoCall == Call("none", SomeScalar, SomeScalar, SomeScalar, 0, 0)

\* What a call leaves in r, and what it returns.
Outcome(c) ==
    LET v == val[c.r]   a == val[c.a]   b == val[c.b]
        R(r, out) == [r |-> r, out |-> out]
    IN  CASE c.name = "clear"   -> R(0, 0)
          [] c.name = "set_int" -> R(c.k, 0)
          \* scalar.h: overflow says whether the number was reduced
          [] c.name = "set_b32" -> R(LowSetB32(c.k), IF c.k >= Order THEN 1 ELSE 0)
          [] c.name = "add"     -> R(LowAdd(a, b).r, LowAdd(a, b).overflow)
          [] c.name = "negate"  -> R(LowNegate(a), 0)
          [] c.name = "cond_negate" -> R(LowCondNegate(v, c.k).r, LowCondNegate(v, c.k).sign)
          [] c.name = "cadd_bit"    -> R(LowCAddBit(v, c.k, 1), 0)
          [] c.name = "cadd_bit_no" -> R(LowCAddBit(v, c.k, 0), 0)
          [] c.name = "mul"     -> R(LowMul(a, b), 0)
          [] c.name = "sqr"     -> R(LowMul(a, a), 0)
          [] c.name = "shr_int" -> R(LowShrInt(v, c.k).r, LowShrInt(v, c.k).low)

Init == val \in [Scalars -> 0 .. Order - 1] /\ last = NoCall

Next == /\ last'.name # "none"
        /\ val' = [val EXCEPT ![last'.r] = Outcome(last').r]
        /\ last'.out = Outcome(last').out

Spec == Init /\ [][Next]_<<val, last>>
=============================================================================
