-------------------------------- MODULE Group --------------------------------
(***************************************************************************)
(* Points of the curve y^2 = x^3 + CurveB over the integers modulo p, as   *)
(* group_impl.h computes with them: affine (ge) and Jacobian (gej), where  *)
(* (x, y, z) stands for (x / z^2, y / z^3).                                *)
(*                                                                         *)
(* A field element is [v, m]: its number, and the magnitude field.h tracks *)
(* for it.  What an operation of the field asks of the magnitudes of its   *)
(* operands is part of its definition here: an element made by a call that *)
(* must not be made has the magnitude Broken, and so has what is made from *)
(* it.  (The field's own modules show the numbers right for the calls that *)
(* may be made.)                                                           *)
(***************************************************************************)
EXTENDS Integers, Sequences, FiniteSetsExt

CONSTANTS p, CurveB

Fe     == 0 .. p - 1
Broken == 99

Elem(v, m) == [v |-> v % p, m |-> m]

Fits(m) == IF m <= 32 THEN m ELSE Broken

FeMul(a, b) == Elem(a.v * b.v, IF a.m <= 8 /\ b.m <= 8 THEN 1 ELSE Broken)

FeSqr(a) == FeMul(a, a)

FeAdd(a, b) == Elem(a.v + b.v, Fits(a.m + b.m))

FeMulInt(a, k) == Elem(a.v * k, Fits(a.m * k))

\* The caller says how large a may be.
FeNegate(a, m) == Elem(p - a.v, IF a.m <= m THEN Fits(m + 1) ELSE Broken)

FeNormalize(a) == Elem(a.v, IF a.m <= 32 THEN 1 ELSE Broken)

FeSetInt(k) == Elem(k, 1)

FeCMov(r, a, flag) == Elem(IF flag THEN a.v ELSE r.v, Max({r.m, a.m}))

FeIsOdd(a) == a.v % 2 = 1

\* fe_equal_var negates a with magnitude 1.
FeEqual(a, b) ==
    FeAdd(FeNegate(a, 1), b).v = 0 /\ FeAdd(FeNegate(a, 1), b).m # Broken

\* x^e, through the squarings and multiplications of a chain.
PowerOf(x, e) ==
    LET f[k \in 0 .. e] == IF k = 0 THEN 1 ELSE (f[k - 1] * x) % p IN f[e]

Inverse0 == [x \in Fe |-> PowerOf(x, p - 2)]
Root     == [x \in Fe |-> PowerOf(x, (p + 1) \div 4)]

FeInv(a) == Elem(Inverse0[a.v], IF a.m <= 8 THEN 1 ELSE Broken)

\* The candidate, and whether its square is a.
FeSqrt(a) ==
    LET r == Elem(Root[a.v], IF a.m <= 8 THEN 1 ELSE Broken)
    IN  [r |-> r, ok |-> FeEqual(FeSqr(r), a)]

FeIsQuadVar(a) == FeSqrt(a).ok

\* All inverses with one: running products, the inverse of the last, and the
\* way back.
FeInvAllVar(a) ==
    IF a = <<>> THEN <<>>
    ELSE LET len == Len(a)
             run[i \in 1 .. len] == IF i = 1 THEN a[1] ELSE FeMul(run[i - 1], a[i])
             u[i \in 1 .. len] == IF i = len THEN FeInv(run[len]) ELSE FeMul(u[i + 1], a[i + 1])
         IN  [i \in 1 .. len |-> IF i = 1 THEN u[1] ELSE FeMul(run[i - 1], u[i])]

-----------------------------------------------------------------------------
Zero == Elem(0, 0)

Ge(x, y)     == [x |-> x, y |-> y, infinity |-> FALSE]
Gej(x, y, z) == [x |-> x, y |-> y, z |-> z, infinity |-> FALSE]

\* The coordinates of a point at infinity are never looked at.
GeInfinity == [x |-> Zero, y |-> Zero, infinity |-> TRUE]

GeClear == Ge(Zero, Zero)

GejSetInfinity == [x |-> Zero, y |-> Zero, z |-> Zero, infinity |-> TRUE]

GejClear == Gej(Zero, Zero, Zero)

GeSetXY(x, y) == Ge(x, y)

GeSetGejZinv(a, zi) ==
    LET zi2 == FeSqr(zi)
    IN  [x |-> FeMul(a.x, zi2), y |-> FeMul(a.y, FeMul(zi2, zi)),
         infinity |-> a.infinity]

GeNeg(a) == [a EXCEPT !.y = FeNegate(FeNormalize(a.y), 1)]

\* The Jacobian point is brought to z = 1 as well.
GeSetGej(a) == GeSetGejZinv(a, FeInv(a.z))

GeSetGejVar(a) == IF a.infinity THEN GeInfinity ELSE GeSetGej(a)

\* Where the points of `a' are that are not at infinity.
FiniteOnes(a) ==
    LET f[i \in 0 .. Len(a)] ==
            IF i = 0 THEN <<>> ELSE IF a[i].infinity THEN f[i - 1] ELSE Append(f[i - 1], i)
    IN  f[Len(a)]

\* Points at infinity are left out of the batch `at'.
GesFrom(a, at, azi) ==
    [i \in 1 .. Len(a) |->
        IF a[i].infinity THEN GeInfinity
        ELSE GeSetGejZinv(a[i], azi[CHOOSE k \in 1 .. Len(at) : at[k] = i])]

GesOf(a, at) == GesFrom(a, at, FeInvAllVar([k \in 1 .. Len(at) |-> a[at[k]].z]))

GeSetAllGejVar(a) == GesOf(a, FiniteOnes(a))

\* zr[i] is the ratio of the z of a[i] to that of a[i-1].
GeSetTableGejVar(a, zr) ==
    LET len == Len(a)
        zi[i \in 1 .. len] == IF i = len THEN FeInv(a[len].z) ELSE FeMul(zi[i + 1], zr[i + 1])
    IN  [i \in 1 .. len |-> GeSetGejZinv(a[i], zi[i])]

\* The same without an inverse: every point gets the z of the last one.
GeGlobalzSetTableGej(a, zr) ==
    LET len == Len(a)
        zs[i \in 1 .. len - 1] == IF i = len - 1 THEN zr[len] ELSE FeMul(zs[i + 1], zr[i + 1])
    IN  [r |-> [i \in 1 .. len |-> IF i = len THEN Ge(a[len].x, a[len].y)
                                          ELSE GeSetGejZinv(a[i], zs[i])],
         globalz |-> a[len].z]

\* y is the square root that is itself a square.
GeSetXquad(x) ==
    LET s == FeSqrt(FeAdd(FeSetInt(CurveB), FeMul(x, FeSqr(x))))
    IN  [r |-> Ge(x, s.r), ok |-> s.ok]

\* The root q that was found, or its opposite.
WithOddness(q, odd) ==
    LET y == FeNormalize(q.r.y)
    IN  IF ~q.ok THEN q
        ELSE [q EXCEPT !.r.y = IF FeIsOdd(y) # odd THEN FeNegate(y, 1) ELSE y]

GeSetXoVar(x, odd) == WithOddness(GeSetXquad(x), odd)

GejSetGe(a) == [x |-> a.x, y |-> a.y, z |-> FeSetInt(1), infinity |-> a.infinity]

GejEqXVar(x, a) == FeEqual(FeMul(FeSqr(a.z), x), FeNormalize(a.x))

\* Mutant: y is not normalized first.
GejNegWeak(a) == [a EXCEPT !.y = FeNegate(a.y, 1)]

GejNeg(a) == [a EXCEPT !.y = FeNegate(FeNormalize(a.y), 1)]

GejIsValidVar(a) ==
    LET z2 == FeSqr(a.z)
        z6 == FeMulInt(FeMul(FeSqr(z2), z2), CurveB)
    IN  /\ ~a.infinity
        /\ FeEqual(FeSqr(a.y), FeNormalize(FeAdd(FeMul(FeSqr(a.x), a.x), z6)))

GeIsValidVar(a) ==
    /\ ~a.infinity
    /\ FeEqual(FeSqr(a.y),
               FeNormalize(FeAdd(FeMul(FeSqr(a.x), a.x), FeSetInt(CurveB))))

\* t1 = 3*X^2, t2 = t1^2, t3 = 2*X*Y^2, t4 = 8*Y^4
DoubledFrom(a, t1, t2, t3, t4) ==
    Gej(FeAdd(FeNegate(FeMulInt(t3, 4), 4), t2),
        FeAdd(FeMul(t1, FeAdd(FeMulInt(t3, 6), FeNegate(t2, 1))), FeNegate(t4, 2)),
        FeMulInt(FeMul(a.z, a.y), 2))

\* y2 = 2*Y^2
Doubled(a, t1, y2) ==
    DoubledFrom(a, t1, FeSqr(t1), FeMul(y2, a.x), FeMulInt(FeSqr(y2), 2))

\* rzr is the ratio of the z of the result to that of a.
GejDoubleVar(a) ==
    IF a.infinity THEN [r |-> GejSetInfinity, rzr |-> FeSetInt(1)]
    ELSE [r   |-> Doubled(a, FeMulInt(FeSqr(a.x), 3), FeMulInt(FeSqr(a.y), 2)),
          rzr |-> FeMulInt(FeNormalize(a.y), 2)]

GejDoubleNonzero(a) == GejDoubleVar(a)

\* The sum of two points with different x.
AddDifferent(a, s1, i, h3, t, z) ==
    LET x == FeAdd(FeNegate(FeAdd(FeMulInt(t, 2), h3), 3), FeSqr(i))
    IN  [r |-> Gej(x, FeAdd(FeMul(FeAdd(FeNegate(x, 5), t), i), FeNegate(FeMul(h3, s1), 1)),
                   FeMul(a.z, z)),
         rzr |-> z]

\* h and i are the differences of the coordinates.  When both are zero the
\* points are equal; when h alone is, they are opposite.
AddByDifference(a, u1, s1, h, i, bz) ==
    IF h.v = 0
    THEN IF i.v = 0 THEN GejDoubleVar(a)
         ELSE [r |-> GejSetInfinity, rzr |-> FeSetInt(0)]
    ELSE AddDifferent(a, s1, i, FeMul(h, FeSqr(h)), FeMul(u1, FeSqr(h)),
                      IF bz = <<>> THEN h ELSE FeMul(h, bz[1]))

\* What the variable-time additions share: u and s are the coordinates over a
\* common z.  bz is <<z of b>>, or <<>> where that is 1 and the multiplication
\* is left out.
AddFinish(a, u1, s1, u2, s2, bz) ==
    AddByDifference(a, u1, s1, FeAdd(FeNegate(u1, 1), u2), FeAdd(FeNegate(s1, 1), s2), bz)

\* rzr may not be asked for when a is at infinity.
GejAddVar(a, b) ==
    LET z22 == FeSqr(b.z)   z12 == FeSqr(a.z)
    IN  CASE a.infinity -> [r |-> b, rzr |-> Elem(0, Broken)]
          [] ~a.infinity /\ b.infinity -> [r |-> a, rzr |-> FeSetInt(1)]
          [] OTHER ->
                AddFinish(a, FeMul(a.x, z22), FeMul(FeMul(a.y, z22), b.z),
                             FeMul(b.x, z12), FeMul(FeMul(b.y, z12), a.z),
                          <<b.z>>)

GejAddGeVar(a, b) ==
    LET z12 == FeSqr(a.z)
    IN  CASE a.infinity -> [r |-> GejSetGe(b), rzr |-> Elem(0, Broken)]
          [] ~a.infinity /\ b.infinity -> [r |-> a, rzr |-> FeSetInt(1)]
          [] OTHER ->
                AddFinish(a, FeNormalize(a.x), FeNormalize(a.y),
                             FeMul(b.x, z12), FeMul(FeMul(b.y, z12), a.z),
                          <<>>)

\* b stands for (b.x, b.y, 1 / bzinv).
GejAddZinvVar(a, b, bzinv) ==
    LET az == FeMul(a.z, bzinv)   z12 == FeSqr(az)
    IN  CASE b.infinity -> a
          [] a.infinity /\ ~b.infinity -> GejSetGe(GeSetGejZinv(b, bzinv))
          [] OTHER ->
                AddFinish(a, FeNormalize(a.x), FeNormalize(a.y),
                             FeMul(b.x, z12), FeMul(FeMul(b.y, z12), az),
                          <<>>).r

\* Mutant: the unified formula alone.
NeverDegenerate(m, rr) == FALSE

\* Is rr / m 0/0?
Degenerate(m, rr) == m.v = 0 /\ rr.v = 0

\* The constant-time addition, from its end: the sum, or b when a is at
\* infinity.
PickSum(a, b, x, y, z) ==
    [x |-> FeCMov(FeMulInt(x, 4), b.x, a.infinity),
     y |-> FeCMov(FeMulInt(FeNormalize(y), 4), b.y, a.infinity),
     z |-> FeCMov(FeMulInt(z, 2), FeSetInt(1), a.infinity),
     infinity |-> z.v = 0 /\ ~a.infinity]

\* lambda is rrAlt / mAlt
SumOfSlope(a, b, rrAlt, q, n4, z) ==
    LET x == FeNormalize(FeAdd(FeSqr(rrAlt), q))
    IN  PickSum(a, b, x, FeNegate(FeAdd(FeMul(FeAdd(FeMulInt(x, 2), q), rrAlt), n4), 3), z)

WithSlope(a, b, t, m, rrAlt, mAlt, degenerate) ==
    LET sq == FeSqr(mAlt)
    IN  SumOfSlope(a, b, rrAlt, FeNegate(FeMul(sq, t), 1),
                   FeCMov(FeSqr(sq), m, degenerate), FeMul(a.z, mAlt))

ChooseSlope(a, b, u1, s1, t, m, minusU2, rr) ==
    LET degenerate == Degenerate(m, rr)
    IN  WithSlope(a, b, t, m, FeCMov(FeMulInt(s1, 2), rr, ~degenerate),
                  FeCMov(FeAdd(minusU2, u1), m, ~degenerate), degenerate)

AddCommonZ(a, b, u1, u2, s1, s2) ==
    LET t == FeAdd(u1, u2)   minusU2 == FeNegate(u2, 1)
    IN  ChooseSlope(a, b, u1, s1, t, FeAdd(s1, s2), minusU2,
                    FeAdd(FeSqr(t), FeMul(u1, minusU2)))

\* b is not at infinity.  lambda is rr / m, or where that is 0/0 (y1 = -y2 but
\* x1 # x2) the alternative (y1 - y2) / (x1 - x2); everything is computed, the
\* answer is picked at the end.
GejAddGe(a, b) ==
    LET zz == FeSqr(a.z)
    IN  AddCommonZ(a, b, FeNormalize(a.x), FeMul(b.x, zz),
                   FeNormalize(a.y), FeMul(FeMul(b.y, zz), a.z))

GejRescale(r, s) ==
    LET zz == FeSqr(s)
    IN  [r EXCEPT !.x = FeMul(@, zz), !.y = FeMul(FeMul(@, zz), s), !.z = FeMul(@, s)]

\* The storage form holds two normalized coordinates.
GeToStorage(a) == [x |-> FeNormalize(a.x), y |-> FeNormalize(a.y)]

GeFromStorage(s) == Ge(s.x, s.y)

GeStorageCMov(r, a, flag) == IF flag THEN a ELSE r

\* 1 / z^3 is a square exactly when z is.
GejHasQuadYVar(a) == ~a.infinity /\ FeIsQuadVar(FeMul(a.y, a.z))
=============================================================================
