------------------------------ MODULE GroupSpec ------------------------------
(***************************************************************************)
(* What group.h, ecmult.h, ecmult_const.h and ecmult_gen.h promise: points *)
(* are the multiples of the generator, and every operation on them is an   *)
(* operation on those multiples modulo the order.  The only thing said     *)
(* here about coordinates is the textbook addition that defines the        *)
(* multiples.                                                              *)
(***************************************************************************)
EXTENDS Integers

CONSTANTS p, CurveB, n, GX, GY, Points

InverseOf == [a \in 1 .. p - 1 |-> CHOOSE i \in 1 .. p - 1 : (a * i) % p = 1]

\* Chord and tangent, for points that are not opposite.
TextbookAdd(q, s) ==
    LET slope == IF q = s THEN (3 * q[1] * q[1] * InverseOf[(2 * q[2]) % p]) % p
                 ELSE ((s[2] - q[2]) * InverseOf[(s[1] - q[1]) % p]) % p
        x == (slope * slope - q[1] - s[1]) % p
    IN  <<x, (slope * (q[1] - x) - q[2]) % p>>

\* k times the generator, for k in 1 .. n-1.
Multiple ==
    LET f[k \in 1 .. n - 1] ==
            IF k = 1 THEN <<GX, GY>> ELSE TextbookAdd(f[k - 1], <<GX, GY>>)
    IN  f

VARIABLES log,      \* the multiple of the generator each point is
          last      \* the last call, with what it returned

Call(name, r, a, b, k, g, out) ==
    [name |-> name, r |-> r, a |-> a, b |-> b, k |-> k, g |-> g, out |-> out]

SomePoint == CHOOSE r \in Points : TRUE
NoCall == Call("none", SomePoint, SomePoint, SomePoint, 0, 0, TRUE)

Sum(c) ==
    CASE c.name = "double" -> 2 * log[c.a]
      [] c.name = "add"    -> log[c.a] + log[c.b]
      [] c.name = "sub"    -> log[c.a] - log[c.b]
      [] c.name = "neg"    -> - log[c.a]
      [] c.name = "same"   -> log[c.a]
      [] c.name = "mul"    -> c.k * log[c.a] + c.g

\* Is there a point with this x?
OnCurve(x) == \E k \in 1 .. n - 1 : Multiple[k][1] = x

Lifted(c) ==
    /\ c.out = OnCurve(c.k)
    /\ IF c.out
       THEN \E k \in 1 .. n - 1 :
               /\ Multiple[k][1] = c.k /\ Multiple[k][2] % 2 = c.g
               /\ log' = [log EXCEPT ![c.r] = k]
       ELSE log' = log

Init == log \in [Points -> 0 .. n - 1] /\ last = NoCall

Next ==
    /\ last'.name # "none"
    /\ IF last'.name = "lift" THEN Lifted(last')
       ELSE /\ last'.out = TRUE
            /\ log' = [log EXCEPT ![last'.r] = Sum(last') % n]

Spec == Init /\ [][Next]_<<log, last>>
=============================================================================
