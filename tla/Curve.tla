-------------------------------- MODULE Curve --------------------------------
(***************************************************************************)
(* Sequences of calls on points, each point in whatever coordinates and    *)
(* magnitudes the calls before left it, with a signing context that is     *)
(* blinded anew at any time.  An affine operand is taken from a Jacobian   *)
(* one, as the callers of the library do.                                  *)
(***************************************************************************)
EXTENDS Ecmult

CONSTANTS Points,       \* the points, 1 .. k
          StartLogs,    \* the multiples of the generator they start as
          StartZ,       \* and their z, by which they may be rescaled
          LiftX,        \* x of points to be found
          Multipliers,  \* scalars
          Seeds,        \* for blinding; <<>> is none
          MaxPointCalls,    \* bound: calls in a sequence
          MaxMultiplied     \* bound: the call that may still be a multiplication

ASSUME CurveAssumption ==
    /\ Multipliers \subseteq 0 .. n - 1 /\ LiftX \subseteq Nat /\ StartZ \subseteq Nat
    /\ IsFiniteSet(Points) /\ Points = 1 .. Cardinality(Points)
    /\ StartLogs \subseteq [Points -> 0 .. n - 1]

VARIABLES pt,           \* Jacobian points
          gen,          \* the context of ecmult_gen
          lastCall, pointCalls

curveVars == <<pt, gen, lastCall, pointCalls>>

\* The number a Jacobian point stands for; n if it is not on the curve.
Multiples == INSTANCE GroupSpec WITH log <- 0, last <- 0

MultipleOf == [k \in 1 .. n - 1 |-> Multiples!Multiple[k]]

\* The textbook addition never divides by zero before the order is reached.
ASSUME MultiplesAssumption == \A k \in 1 .. n - 1 : MultipleOf[k] \in Fe \X Fe

LogTable == [x \in Fe |-> [y \in Fe |->
                IF \E k \in 1 .. n - 1 : MultipleOf[k] = <<x, y>>
                THEN CHOOSE k \in 1 .. n - 1 : MultipleOf[k] = <<x, y>> ELSE n]]

LogOf(a) ==
    LET zi == Inverse0[a.z.v]
    IN  IF a.infinity THEN 0
        ELSE LogTable[(a.x.v * zi * zi) % p][(((a.y.v * zi) % p) * zi * zi) % p]

Abstract == INSTANCE GroupSpec WITH log <- [r \in Points |-> LogOf(pt[r])],
                                    last <- lastCall

PointCall(name, r, a, b, k, g, out) == Multiples!Call(name, r, a, b, k, g, out)

\* k * G in Jacobian coordinates with this z.
Scaled(k, z) ==
    IF k = 0 THEN GejSetInfinity
    ELSE LET q == MultipleOf[k]
         IN  Gej(Elem(q[1] * z * z, 1), Elem(((q[2] * z) % p) * z * z, 1), Elem(z, 1))

CurveStart(logs) ==
    /\ \E f \in logs, z \in [Points -> StartZ] :
          pt = [r \in Points |-> Scaled(f[r], z[r])]
    /\ gen = GenContextBuild(GenContextInit)
    /\ lastCall = Multiples!NoCall
    /\ pointCalls = 0

Gives(c, point) ==
    /\ pointCalls < MaxPointCalls
    /\ pointCalls' = pointCalls + 1
    /\ lastCall' = c
    /\ pt' = [pt EXCEPT ![c.r] = point]

Double(r, a) ==
    /\ Gives(PointCall("double", r, a, a, 0, 0, TRUE), GejDoubleVar(pt[a]).r)
    /\ UNCHANGED gen

AddVar(r, a, b) ==
    /\ Gives(PointCall("add", r, a, b, 0, 0, TRUE), GejAddVar(pt[a], pt[b]).r)
    /\ UNCHANGED gen

AddGeVar(r, a, b) ==
    /\ Gives(PointCall("add", r, a, b, 0, 0, TRUE), GejAddGeVar(pt[a], GeSetGejVar(pt[b])).r)
    /\ UNCHANGED gen

\* b keeps its x and y, the inverse of its z is given.
AddZinvVar(r, a, b) ==
    /\ Gives(PointCall("add", r, a, b, 0, 0, TRUE),
             GejAddZinvVar(pt[a],
                           [x |-> FeNormalize(pt[b].x), y |-> FeNormalize(pt[b].y),
                            infinity |-> pt[b].infinity],
                           FeInv(pt[b].z)))
    /\ UNCHANGED gen

AddGe(r, a, b) ==
    /\ ~pt[b].infinity
    /\ Gives(PointCall("add", r, a, b, 0, 0, TRUE), GejAddGe(pt[a], GeSetGej(pt[b])))
    /\ UNCHANGED gen

SubtractGe(r, a, b) ==
    /\ ~pt[b].infinity
    /\ Gives(PointCall("sub", r, a, b, 0, 0, TRUE), GejAddGe(pt[a], GeNeg(GeSetGej(pt[b]))))
    /\ UNCHANGED gen

NegateJ(r, a) ==
    /\ Gives(PointCall("neg", r, a, a, 0, 0, TRUE), GejNeg(pt[a]))
    /\ UNCHANGED gen

Rescale(r, s) ==
    /\ Gives(PointCall("same", r, r, r, 0, 0, TRUE), GejRescale(pt[r], FeSetInt(s)))
    /\ UNCHANGED gen

\* All points at once.
ToAffine(r) ==
    /\ Gives(PointCall("same", r, r, r, 0, 0, TRUE), GejSetGe(GeSetAllGejVar(pt)[r]))
    /\ UNCHANGED gen

Lift(r, x, odd) ==
    LET q == GeSetXoVar(FeSetInt(x), odd)
    IN  /\ Gives(PointCall("lift", r, r, r, x, IF odd THEN 1 ELSE 0, q.ok),
                 IF q.ok THEN GejSetGe(q.r) ELSE pt[r])
        /\ UNCHANGED gen

MultiplyAdd(r, a, na, ng) ==
    /\ ~pt[a].infinity /\ pointCalls < MaxMultiplied
    /\ Gives(PointCall("mul", r, a, a, na, ng, TRUE), SecpEcmult(pt[a], na, ng))
    /\ UNCHANGED gen

MultiplyConst(r, a, k) ==
    /\ ~pt[a].infinity /\ pointCalls < MaxMultiplied /\ k # 0
    /\ Gives(PointCall("mul", r, a, a, k, 0, TRUE), EcmultConst(GeSetGej(pt[a]), k))
    /\ UNCHANGED gen

MultiplyGen(r, k) ==
    /\ pointCalls < MaxMultiplied
    /\ Gives(PointCall("mul", r, r, r, 0, k, TRUE), EcmultGen(gen, k))
    /\ UNCHANGED gen

Blind(r, seed) ==
    /\ Gives(PointCall("same", r, r, r, 0, 0, TRUE), pt[r])
    /\ gen' = EcmultGenBlind(gen, seed)

CurveNext ==
    \E r \in Points :
        \/ \E a \in Points :
              \/ Double(r, a)
              \/ NegateJ(r, a)
              \/ \E b \in Points : \/ AddVar(r, a, b) \/ AddGeVar(r, a, b)
                                   \/ AddZinvVar(r, a, b) \/ AddGe(r, a, b)
                                   \/ SubtractGe(r, a, b)
              \/ \E na, ng \in Multipliers : MultiplyAdd(r, a, na, ng)
              \/ \E k \in Multipliers : MultiplyConst(r, a, k)
        \/ ToAffine(r)
        \/ \E s \in StartZ : Rescale(r, s)
        \/ \E x \in LiftX, odd \in BOOLEAN : Lift(r, x, odd)
        \/ \E k \in Multipliers : MultiplyGen(r, k)
        \/ \E seed \in Seeds : Blind(r, seed)

-----------------------------------------------------------------------------
\* Every group operation computes the group law, whatever coordinates its
\* operands come in: equal, opposite, at infinity, related by a cube root of
\* one; and so do the multiplications, under any blinding.
PointsAreMultiples == Abstract!Spec

\* No formula asks the field for a call it does not allow: the magnitudes the
\* group code hands on fit, from call to call.
MagnitudesFit ==
    \A r \in Points : \A e \in {pt[r].x, pt[r].y, pt[r].z} : e.m <= 32

\* The multiplications build a table of odd multiples of their operand; the z
\* ratios it needs are unset next to a point at infinity, so that no entry may
\* be one.
TablesAreFinite ==
    \A r \in Points : ~pt[r].infinity =>
        /\ TableIsFinite(TableSize(WindowA), pt[r])
        /\ TableIsFinite(TableSize(WindowA), GejSetGe(GeSetGej(pt[r])))

\* The number of `len' digits, each of which weighs 2^w times the one before.
DigitSum(d, len, w) ==
    LET sum[k \in 0 .. len] ==
            IF k = 0 THEN 0 ELSE sum[k - 1] + d[k - 1] * 2^((k - 1) * w)
    IN  sum[len]

\* The digits of both representations stand for the scalar (with its skew),
\* nothing of it is left over, they are what the tables hold, and sparse digits
\* are w apart.
DigitsStand(s) ==
    LET v == Wnaf(s, Bits, WindowA)
        c == WnafConst(s, WindowA - 1)
        odd(d, w) == d % 2 = 1 /\ -2^(w - 1) < d /\ d < 2^(w - 1)
    IN  s < n =>
        /\ DigitSum(v.d, Bits, 1) % n = s
        /\ v.carry = 0
        /\ \A i \in DOMAIN v.d : v.d[i] # 0 =>
              /\ odd(v.d[i], WindowA) /\ i < v.used
              /\ \A j \in i + 1 .. i + WindowA - 1 : j \in DOMAIN v.d => v.d[j] = 0
        /\ DigitSum(c.d, WnafSize(WindowA - 1) + 1, WindowA - 1) % n = (s + c.skew) % n
        /\ c.rest = 0
        /\ \A i \in DOMAIN c.d : odd(c.d[i], WindowA)

\* So it is with every scalar that a call is given.
DigitsStandForTheScalar == DigitsStand(lastCall.k) /\ DigitsStand(lastCall.g)

\* Blinding never shows: the context computes with a blinding value and the
\* matching point, and the questions about a point are answered as its
\* coordinates demand.
BlindingMatches ==
    /\ LogOf(gen.initial) = Negate(gen.blind)
    /\ \A r \in Points : ~pt[r].infinity =>
          LET q == MultipleOf[LogOf(pt[r])]
          IN  /\ GejIsValidVar(pt[r]) /\ GeIsValidVar(GeSetGej(pt[r]))
              /\ \A s \in Points : ~pt[s].infinity =>
                    (GejEqXVar(FeSetInt(q[1]), pt[s])
                        <=> MultipleOf[LogOf(pt[s])][1] = q[1])
              /\ GejHasQuadYVar(pt[r]) <=> \E y \in Fe : (y * y) % p = q[2]
=============================================================================
