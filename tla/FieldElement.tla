---------------------------- MODULE FieldElement ----------------------------
(***************************************************************************)
(* Sequences of calls on field elements, as the group code makes them: the *)
(* elements `ten' in the 10x26 representation and the elements `five' in   *)
(* the 5x52 one go through the same calls.  A call is made only where the  *)
(* library's VERIFY_CHECKs allow it.                                       *)
(***************************************************************************)
EXTENDS Field10x26

CONSTANTS W5, T5, C5, WordBits5, AccBits5,  \* those of 5x52
          MulMagnitude, \* 8: the magnitude a product's operands may have
          Regs,         \* the elements
          Inputs,       \* numbers given to set_b32
          Ints,         \* integers given to set_int and mul_int
          MaxCalls      \* bound: calls in a sequence

Five == INSTANCE Field5x52
            WITH W <- W5, T <- T5, C <- C5, WordBits <- WordBits5, AccBits <- AccBits5

\* The two representations are scaled to different primes, so a number for
\* set_b32 is a pair; either both numbers are below their prime or none is.
ASSUME FieldElementAssumption ==
    /\ Five!Field5x52Assumption
    /\ \A x \in Inputs : {x.ten, x.five} \subseteq Nat /\ (x.ten < p <=> x.five < Five!p)
    /\ Ints \subseteq 0 .. B - 1 /\ Ints \subseteq 0 .. Five!B - 1
    /\ MulMagnitude \in Nat
    /\ LastCarryFits(2 * MulMagnitude * (B - 1), 2 * MulMagnitude * (TopB - 1))
    /\ Five!LastCarryFits(2 * MulMagnitude * (Five!B - 1), 2 * MulMagnitude * (Five!TopB - 1))

VARIABLES ten, five, defined, last, calls

fieldVars == <<ten, five, defined, last, calls>>

Value10(e) == LimbValueMod(e.n, W, p)
Value5(e)  == LimbValueMod(e.n, W5, Five!p)

Both(k) == [ten |-> k, five |-> k]

\* A call: what each element of the pair below sees is a call of FieldSpec.
FieldCall(name, r, a, b, k) == [name |-> name, r |-> r, a |-> a, b |-> b, k |-> k]

Field  == INSTANCE FieldSpec WITH val  <- [r \in Regs |-> Value10(ten[r])],
                                  last <- [last EXCEPT !.k = @.ten]
Field5 == INSTANCE FieldSpec WITH p    <- Five!p,
                                  val  <- [r \in Regs |-> Value5(five[r])],
                                  last <- [last EXCEPT !.k = @.five]

ByteArray(x) == ToLimbs(x, Bytes, ByteBits)

\* Does set_b32 take x?
TakenAs10(x) == FeSetB32(FeClear, ByteArray(x.ten)).ok
TakenAs5(x)  == Five!FeSetB32(Five!FeClear, ByteArray(x.five)).ok
Taken(x)     == TakenAs10(x) /\ TakenAs5(x)

\* The elements start as numbers of `inputs'.
FieldStart(inputs) ==
    /\ \E f \in [Regs -> {x \in inputs : Taken(x)}] :
          /\ ten  = [r \in Regs |-> FeSetB32(FeClear, ByteArray(f[r].ten)).r]
          /\ five = [r \in Regs |-> Five!FeSetB32(Five!FeClear, ByteArray(f[r].five)).r]
    /\ defined = Regs
    /\ last = [Field!NoCall EXCEPT !.k = Both(0)]
    /\ calls = 0

FieldInit == FieldStart(Inputs)

\* r gets the value e10 in the one representation and e5 in the other.
Made(c, e10, e5) ==
    /\ calls < MaxCalls
    /\ calls' = calls + 1
    /\ ten'  = [ten EXCEPT ![c.r] = e10]
    /\ five' = [five EXCEPT ![c.r] = e5]
    /\ last' = c

Leaves(r) == defined' = defined \cup {r}

Normalize(r) ==
    /\ r \in defined
    /\ Made(FieldCall("normalize", r, r, r, Both(0)),
            FeNormalize(ten[r]), Five!FeNormalize(five[r]))
    /\ Leaves(r)

NormalizeWeak(r) ==
    /\ r \in defined
    /\ Made(FieldCall("normalize_weak", r, r, r, Both(0)),
            FeNormalizeWeak(ten[r]), Five!FeNormalizeWeak(five[r]))
    /\ Leaves(r)

NormalizeVar(r) ==
    /\ r \in defined
    /\ Made(FieldCall("normalize_var", r, r, r, Both(0)),
            FeNormalizeVar(ten[r]), Five!FeNormalizeVar(five[r]))
    /\ Leaves(r)

SetInt(r, k) ==
    /\ Made(FieldCall("set_int", r, r, r, Both(k)), FeSetInt(k), Five!FeSetInt(k))
    /\ Leaves(r)

Clear(r) ==
    /\ Made(FieldCall("clear", r, r, r, Both(0)), FeClear, Five!FeClear)
    /\ Leaves(r)

SetB32(r, x) ==
    /\ Made(FieldCall("set_b32", r, r, r, x),
            FeSetB32(ten[r], ByteArray(x.ten)).r,
            Five!FeSetB32(five[r], ByteArray(x.five)).r)
    /\ defined' = IF Taken(x) THEN defined \cup {r} ELSE defined \ {r}

\* The callers pass the magnitude they know of, here the exact one.
Negate(r, a) ==
    /\ a \in defined
    /\ ten[a].magnitude < MaxMagnitude
    /\ Made(FieldCall("negate", r, a, a, Both(0)),
            FeNegate(ten[a], ten[a].magnitude),
            Five!FeNegate(five[a], five[a].magnitude))
    /\ Leaves(r)

MulInt(r, k) ==
    /\ r \in defined
    /\ ten[r].magnitude * k <= MaxMagnitude
    /\ Made(FieldCall("mul_int", r, r, r, Both(k)),
            FeMulInt(ten[r], k), Five!FeMulInt(five[r], k))
    /\ Leaves(r)

AddTo(r, a) ==
    /\ {r, a} \subseteq defined
    /\ ten[r].magnitude + ten[a].magnitude <= MaxMagnitude
    /\ Made(FieldCall("add", r, a, a, Both(0)),
            FeAdd(ten[r], ten[a]), Five!FeAdd(five[r], five[a]))
    /\ Leaves(r)

Mul(r, a, b) ==
    /\ {a, b} \subseteq defined /\ r # b
    /\ ten[a].magnitude <= MulMagnitude /\ ten[b].magnitude <= MulMagnitude
    /\ Made(FieldCall("mul", r, a, b, Both(0)),
            FeMul(ten[a], ten[b]), Five!FeMul(five[a], five[b]))
    /\ Leaves(r)

Sqr(r, a) ==
    /\ a \in defined /\ ten[a].magnitude <= MulMagnitude
    /\ Made(FieldCall("sqr", r, a, a, Both(0)), FeSqr(ten[a]), Five!FeSqr(five[a]))
    /\ Leaves(r)

CMov(r, a, flag) ==
    /\ {r, a} \subseteq defined
    /\ Made(FieldCall("cmov", r, a, a, Both(flag)),
            FeCMov(ten[r], ten[a], flag), Five!FeCMov(five[r], five[a], flag))
    /\ Leaves(r)

\* Through the storage form, as the tables of ecmult do.
StorageCMov(r, a, flag) ==
    /\ {r, a} \subseteq defined
    /\ ten[r].normalized /\ ten[a].normalized
    /\ Made(FieldCall("storage_cmov", r, a, a, Both(flag)),
            FeFromStorage(FeStorageCMov(FeToStorage(ten[r]), FeToStorage(ten[a]), flag)),
            Five!FeFromStorage(Five!FeStorageCMov(Five!FeToStorage(five[r]),
                                                  Five!FeToStorage(five[a]), flag)))
    /\ Leaves(r)

FieldNext ==
    \E r, a \in Regs :
        \/ Normalize(r)
        \/ NormalizeWeak(r)
        \/ NormalizeVar(r)
        \/ Clear(r)
        \/ \E k \in Ints : SetInt(r, k) \/ MulInt(r, k)
        \/ \E x \in Inputs : SetB32(r, x)
        \/ Negate(r, a)
        \/ AddTo(r, a)
        \/ \E b \in Regs : Mul(r, a, b)
        \/ Sqr(r, a)
        \/ \E flag \in {0, 1} : CMov(r, a, flag) \/ StorageCMov(r, a, flag)

FieldSpecification == FieldInit /\ [][FieldNext]_fieldVars

-----------------------------------------------------------------------------
\* The comparison of field_impl.h; a has magnitude 1.
FeEqual(a, b) == FeNormalizesToZero(FeAdd(FeNegate(a, 1), b))

FeEqualVar(a, b) == FeNormalizesToZeroVar(FeAdd(FeNegate(a, 1), b))

\* The bounds on the limbs that every element's magnitude promises, and that
\* a normalized element is below p, hold in both representations: a call that
\* its checks admit never leaves the next one with limbs that overflow.
MagnitudesHold ==
    \A r \in defined : FeVerify(ten[r]) /\ Five!FeVerify(five[r])

\* Whatever the limbs, what the library answers about an element is a fact
\* about its number: zero or not, odd or not, equal, the order, the bytes; and
\* it takes the numbers below p.
AnswersAreAboutTheNumber ==
    /\ \A x \in Inputs : TakenAs10(x) <=> x.ten < p
    /\ \A r, s \in defined :
        LET e == ten[r]   v == Value10(e)   w == Value10(ten[s])
        IN  /\ FeNormalizesToZero(e) <=> v = 0
            /\ FeNormalizesToZeroVar(e) <=> v = 0
            /\ e.magnitude <= 1 /\ ten[s].magnitude + 2 <= MaxMagnitude =>
                  /\ FeEqual(e, ten[s]) <=> v = w
                  /\ FeEqualVar(e, ten[s]) <=> v = w
            /\ e.normalized =>
                  /\ FeIsZero(e) <=> v = 0
                  /\ FeIsOdd(e) <=> v % 2 = 1
                  /\ FeGetB32(e) = ByteArray(v)
                  /\ ten[s].normalized => (FeCmpVar(e, ten[s]) > 0 <=> v > w)

\* The same of the 5x52 representation, and its two products agree: the
\* assembler version, which keeps only the low register after a shift, and
\* the C one.
AnswersAgree5 ==
    /\ \A x \in Inputs : TakenAs5(x) <=> x.five < Five!p
    /\ \A r, s \in defined :
        LET e == five[r]   v == Value5(e)   w == Value5(five[s])
        IN  /\ Five!FeNormalizesToZero(e) <=> v = 0
            /\ Five!FeNormalizesToZeroVar(e) <=> v = 0
            /\ e.normalized =>
                  /\ Five!FeIsZero(e) <=> v = 0
                  /\ Five!FeIsOdd(e) <=> v % 2 = 1
                  /\ Five!FeGetB32(e) = ByteArray(v)
                  /\ five[s].normalized => (Five!FeCmpVar(e, five[s]) > 0 <=> v > w)
            /\ e.magnitude <= MulMagnitude /\ five[s].magnitude <= MulMagnitude =>
                  Five!FeMulInnerAsm(e.n, five[s].n) = Five!FeMulInner(e.n, five[s].n)
            /\ e.magnitude <= MulMagnitude =>
                  Five!FeSqrInnerAsm(e.n) = Five!FeSqrInner(e.n)

\* The 10x26 arithmetic implements arithmetic modulo p.
TenImplementsField == Field!Spec

\* So does the 5x52 arithmetic, through the same calls.
FiveImplementsField == Field5!Spec
=============================================================================
