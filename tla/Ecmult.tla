-------------------------------- MODULE Ecmult --------------------------------
(***************************************************************************)
(* Multiples of points: ecmult_impl.h (na*A + ng*G, variable time),        *)
(* ecmult_const_impl.h (constant time, for Diffie-Hellman) and             *)
(* ecmult_gen_impl.h (constant time, of the generator, blinded, for        *)
(* signing).  The windows of the code are the constants: WINDOW_A = 5,     *)
(* WINDOW_G = 16, 64 groups of 4 bits in ecmult_gen, scalars of 256 bits.  *)
(***************************************************************************)
EXTENDS Group, Hash

CONSTANTS n,                    \* the group order
          Bits,                 \* of a scalar
          WindowA, WindowG,
          GenGroups, GenBits,   \* ecmult_gen takes GenBits bits at a time
          GX, GY,               \* the generator
          NumsX,                \* "The scalar for this x is unknown"
          MaxDraws              \* bound: draws from a generator until one is in range

ASSUME EcmultAssumption ==
    /\ p \in Nat /\ n \in Nat /\ n < p /\ p < 2 * n /\ 4 < n /\ n % 2 = 1
    /\ Bits \in Nat /\ WindowA \in Nat /\ WindowG \in Nat
    /\ GenGroups \in Nat \ {0} /\ GenBits \in Nat
    /\ GenGroups * GenBits = Bits /\ n < 2^Bits /\ 2^(Bits - 1) > n \div 2
    /\ WindowA >= 3 /\ WindowG >= 2
    /\ CurveB \in Nat /\ GX \in Fe /\ GY \in Fe /\ NumsX \in Fe /\ MaxDraws \in Nat
    /\ PowersOfTwo(2 * (Bits + WindowA + WindowG))

TableSize(w) == 2^(w - 2)

GeneratorGe == Ge(FeSetInt(GX), FeSetInt(GY))

GetBits(s, offset, count) == (s \div 2^offset) % 2^count

IsHigh(s) == s > n \div 2

Negate(s) == (n - s) % n

-----------------------------------------------------------------------------
\* The table of the multiples e and their z ratios; only the last z is put
\* right.
OddMultiplesRows(size, e, z) ==
    [prej |-> [i \in 1 .. size |->
                 IF i = size THEN [e[i].r EXCEPT !.z = FeMul(@, z)] ELSE e[i].r],
     zr   |-> [i \in 1 .. size |-> e[i].rzr]]

OddMultiplesOf(size, a, d, age) ==
    LET e[i \in 1 .. size] ==
            IF i = 1 THEN [r |-> Gej(age.x, age.y, a.z), rzr |-> d.z]
                     ELSE GejAddGeVar(e[i - 1].r, Ge(d.x, d.y))
    IN  OddMultiplesRows(size, e, d.z)

\* a, 3a, 5a .. in a scale where d = 2a has z = 1.
OddMultiplesFrom(size, a, d) == OddMultiplesOf(size, a, d, GeSetGejZinv(a, d.z))

OddMultiplesTable(size, a) == OddMultiplesFrom(size, a, GejDoubleVar(a).r)

Globalz(t) == GeGlobalzSetTableGej(t.prej, t.zr)

OddMultiplesGlobalz(a) == Globalz(OddMultiplesTable(TableSize(WindowA), a))

InStorage(t) ==
    LET pre == GeSetTableGejVar(t.prej, t.zr)
    IN  [i \in DOMAIN t.prej |-> GeToStorage(pre[i])]

OddMultiplesStorage(size, a) == InStorage(OddMultiplesTable(size, a))

\* Entry i of a table is the odd multiple 2*i - 1.
TableGetGe(pre, d) ==
    IF d > 0 THEN pre[(d + 1) \div 2] ELSE GeNeg(pre[(1 - d) \div 2])

TableGetGeStorage(pre, d) ==
    IF d > 0 THEN GeFromStorage(pre[(d + 1) \div 2])
             ELSE GeNeg(GeFromStorage(pre[(1 - d) \div 2]))

\* The context: the table of the generator, or none.
PreG == OddMultiplesStorage(TableSize(WindowG), GejSetGe(GeneratorGe))

\* None of these multiples is the point at infinity.
TableIsFinite(size, a) ==
    \A i \in 1 .. size : ~OddMultiplesTable(size, a).prej[i].infinity

ASSUME GeneratorAssumption == TableIsFinite(TableSize(WindowG), GejSetGe(GeneratorGe))

EcmultContextInit == [built |-> FALSE]

EcmultContextBuild(ctx) == [ctx EXCEPT !.built = TRUE]

EcmultContextClone(src) == src

EcmultContextIsBuilt(ctx) == ctx.built

EcmultContextClear == EcmultContextInit

\* w bits of s are taken with the carry, a digit of their own; half or more of
\* 2^w is carried on.
WnafTake(q, s, sign, len, w) ==
    LET now   == Min({w, len - q.bit})
        word  == GetBits(s, q.bit, now) + q.carry
        carry == (word \div 2^(w - 1)) % 2
    IN  [bit |-> q.bit + now, carry |-> carry, used |-> q.bit + 1,
         d |-> [q.d EXCEPT ![q.bit] = sign * (word - carry * 2^w)]]

\* Mutant: only zeros are passed over, whatever the carry.
WnafStepNoCarry(q, s, sign, len, w) ==
    IF q.bit >= len THEN q
    ELSE IF GetBits(s, q.bit, 1) = 0 THEN [q EXCEPT !.bit = @ + 1]
    ELSE WnafTake(q, s, sign, len, w)

\* A bit equal to the carry is passed over.
WnafStep(q, s, sign, len, w) ==
    IF q.bit >= len THEN q
    ELSE IF GetBits(s, q.bit, 1) = q.carry THEN [q EXCEPT !.bit = @ + 1]
    ELSE WnafTake(q, s, sign, len, w)

WnafStart(len) == [bit |-> 0, carry |-> 0, used |-> 0, d |-> [i \in 0 .. len - 1 |-> 0]]

WnafWalk(s, sign, len, w) ==
    LET walk[k \in 0 .. len] ==
            IF k = 0 THEN WnafStart(len) ELSE WnafStep(walk[k - 1], s, sign, len, w)
    IN  walk[len]

\* Digits of a, zero or odd and below 2^(w-1), and how many are in use.
\* A scalar with its top bit set is negated first.
Wnaf(a, len, w) ==
    IF GetBits(a, Bits - 1, 1) = 1 THEN WnafWalk(Negate(a), -1, len, w)
                                   ELSE WnafWalk(a, 1, len, w)

\* The table of a is kept in the scale of one z as if that were 1.
FromGlobalz(r, z) == IF r.infinity THEN r ELSE [r EXCEPT !.z = FeMul(@, z)]

\* The digits from the highest one down; points of the generator's table are
\* added in the scale of globalz.
EcmultDigits(pre, wa, wg) ==
    LET bits == Max({wa.used, wg.used})
        addA(r, d) == IF d = 0 THEN r ELSE GejAddGeVar(r, TableGetGe(pre.r, d)).r
        addG(r, d) == IF d = 0 THEN r
                      ELSE GejAddZinvVar(r, TableGetGeStorage(PreG, d), pre.globalz)
        r[i \in 0 .. bits] ==
            IF i = bits THEN GejSetInfinity
            ELSE addG(addA(GejDoubleVar(r[i + 1]).r, wa.d[i]), wg.d[i])
    IN  FromGlobalz(r[0], pre.globalz)

\* r = na * a + ng * G.
SecpEcmult(a, na, ng) ==
    EcmultDigits(OddMultiplesGlobalz(a), Wnaf(na, Bits, WindowA), Wnaf(ng, Bits, WindowG))

-----------------------------------------------------------------------------
WnafSize(w) == (Bits + w - 1) \div w

\* u, the next w bits, is even: move one up from it, or down, so that both
\* digits are odd.
WnafConstStep(q, w) ==
    LET u    == q.s % 2^w
        even == IF u % 2 = 0 THEN 1 ELSE 0
        sign == IF q.last > 0 THEN 1 ELSE -1
    IN  [s |-> q.s \div 2^w, last |-> u + sign * even, digit |-> q.last - sign * even * 2^w]

WnafConstWalk(t, w) ==
    LET q[k \in 0 .. WnafSize(w)] ==
            IF k = 0 THEN [s |-> t \div 2^w, last |-> t % 2^w, digit |-> 0]
            ELSE WnafConstStep(q[k - 1], w)
    IN  q

\* What is added to s so that it, or its negative, is odd.
Skew(s) == IF IsHigh(s) # (s % 2 = 1) THEN 2 ELSE 1

WnafConstDigits(q, sign, skew, w) ==
    [d |-> [k \in 0 .. WnafSize(w) |->
              sign * (IF k = WnafSize(w) THEN q[k].last ELSE q[k + 1].digit)],
     rest |-> q[WnafSize(w)].s,
     skew |-> skew]

\* Digits that are all odd, for a scalar to which the skew was added.  Scalars
\* above n/2 are negated; -1 cannot take the addition and is negated only.
WnafConst(s, w) ==
    LET notNegOne == Negate(s) # 1
        skewed == IF notNegOne THEN s + Skew(s) ELSE s
        t      == IF IsHigh(s) THEN Negate(skewed) ELSE skewed
        sign   == (IF IsHigh(s) THEN -1 ELSE 1) * (IF notNegOne THEN 1 ELSE -1)
    IN  WnafConstDigits(WnafConstWalk(t, w), sign, Skew(s), w)

\* Every entry is looked at; a negative digit takes the negated y.
ConstTableGetGe(pre, d) ==
    LET abs == IF d > 0 THEN d ELSE -d
        chosen[m \in 0 .. Len(pre)] ==
            IF m = 0 THEN GeClear
            ELSE [x |-> FeCMov(chosen[m - 1].x, pre[m].x, m - 1 = abs \div 2),
                  y |-> FeCMov(chosen[m - 1].y, pre[m].y, m - 1 = abs \div 2),
                  infinity |-> FALSE]
        r == chosen[Len(pre)]
    IN  [r EXCEPT !.y = FeCMov(@, FeNegate(@, 1), d # abs)]

\* Doubled w times.
DoubledNonzero(a, w) ==
    LET f[j \in 0 .. w] == IF j = 0 THEN a ELSE GejDoubleNonzero(f[j - 1]).r
    IN  f[w]

ConstDigits(pre, d, w) ==
    LET r[i \in 0 .. WnafSize(w)] ==
            IF i = WnafSize(w) THEN GejSetGe(ConstTableGetGe(pre, d[i]))
            ELSE GejAddGe(DoubledNonzero(r[i + 1], w), ConstTableGetGe(pre, d[i]))
    IN  r[0]

\* 2a, or a.
Correction(a, skew) ==
    GeFromStorage(GeStorageCMov(GeToStorage(a),
                                GeToStorage(GeSetGej(GejDoubleVar(GejSetGe(a)).r)), skew = 2))

\* The skew is taken off at the end.
EcmultConstDigits(a, wnaf, tbl) ==
    LET pre == [i \in 1 .. TableSize(WindowA) |-> [tbl.r[i] EXCEPT !.y = FeNormalize(@)]]
    IN  GejAddGe([ConstDigits(pre, wnaf.d, WindowA - 1) EXCEPT !.z = FeMul(@, tbl.globalz)],
                 GeNeg(Correction(a, wnaf.skew)))

EcmultConst(a, scalar) ==
    EcmultConstDigits(a, WnafConst(scalar, WindowA - 1), OddMultiplesGlobalz(GejSetGe(a)))

-----------------------------------------------------------------------------
\* prec[j][i] is i * 2^(GenBits * j) * G, plus an offset that no one knows the
\* scalar of; the offsets of all groups add up to nothing.
DoubledVar(a, k) ==
    LET f[j \in 0 .. k] == IF j = 0 THEN a ELSE GejDoubleVar(f[j - 1]).r
    IN  f[k]

Nums == GejAddGeVar(GejSetGe(GeSetXoVar(FeSetInt(NumsX), FALSE).r), GeneratorGe).r

\* The offset of group j, from that of group 0 and its multiple by 2^j.
NumsBase(j, nums, multiple) ==
    IF j < GenGroups - 1 THEN multiple ELSE GejAddVar(GejNeg(multiple), nums).r

GenRow(gbase, numsbase) ==
    LET f[i \in 0 .. 2^GenBits - 1] ==
            IF i = 0 THEN numsbase ELSE GejAddVar(f[i - 1], gbase).r
    IN  f

GenTableFrom(g, nums) ==
    LET row(j) == GenRow(DoubledVar(g, GenBits * j), NumsBase(j, nums, DoubledVar(nums, j)))
        prec == GeSetAllGejVar([k \in 1 .. GenGroups * 2^GenBits |->
                    row((k - 1) \div 2^GenBits)[(k - 1) % 2^GenBits]])
    IN  [j \in 0 .. GenGroups - 1 |-> [i \in 0 .. 2^GenBits - 1 |->
            GeToStorage(prec[j * 2^GenBits + i + 1])]]

GenTable == GenTableFrom(GejSetGe(GeneratorGe), Nums)

\* Every entry of a row is looked at.
GenEntry(row, bits) ==
    LET f[i \in 0 .. 2^GenBits] ==
            IF i = 0 THEN GeToStorage(GeClear)
                     ELSE GeStorageCMov(f[i - 1], row[i - 1], i - 1 = bits)
    IN  f[2^GenBits]

\* gn * G as (gn + blind) * G + initial.
EcmultGen(ctx, gn) ==
    LET gnb == (gn + ctx.blind) % n
        r[j \in 0 .. GenGroups] ==
            IF j = 0 THEN ctx.initial
            ELSE GejAddGe(r[j - 1],
                          GeFromStorage(GenEntry(GenTable[j - 1],
                                                 GetBits(gnb, (j - 1) * GenBits, GenBits))))
    IN  r[GenGroups]

\* Numbers that fill a digest, from a generator with this key.
Draw(key, i) == NumberOf(Rfc6979Output(key, i))

\* The first of these draws, from the i-th on, that is one of S.
FirstIn(draws, i, S) ==
    CHOOSE k \in i .. MaxDraws : draws[k] \in S /\ \A j \in i .. k - 1 : draws[j] \notin S

\* Mutant: the new value is in place before the new point is computed with it.
BlindedEarly(ctx, s, b) ==
    [ctx EXCEPT !.blind = Negate(b),
                !.initial = EcmultGen([ctx EXCEPT !.initial = GejRescale(@, FeSetInt(s)),
                                                  !.blind = Negate(b)], b)]

\* The point that -b multiplies is rescaled by s first.
Blinded(ctx, s, b) ==
    [ctx EXCEPT !.blind = Negate(b),
                !.initial = EcmultGen([ctx EXCEPT !.initial = GejRescale(@, FeSetInt(s))], b)]

BlindedBy(ctx, draws) ==
    LET si == FirstIn(draws, 1, 1 .. p - 1)
    IN  Blinded(ctx, draws[si], draws[FirstIn(draws, si + 1, 1 .. n - 1)])

BlindFrom(ctx, seed) ==
    LET draws[k \in 1 .. MaxDraws] ==
            Draw(BytesOf(ctx.blind, DigestBytes) \o seed, k)
    IN  BlindedBy(ctx, draws)

\* A new blinding value, from the old one and a seed.  Without a seed the
\* values start over from 1 and -G.
EcmultGenBlind(ctx, seed) ==
    BlindFrom(IF seed = <<>>
              THEN [ctx EXCEPT !.initial = GejNeg(GejSetGe(GeneratorGe)), !.blind = 1]
              ELSE ctx,
              seed)

GenContextInit == [built |-> FALSE, blind |-> 0, initial |-> GejClear]

GenContextBuild(ctx) ==
    IF ctx.built THEN ctx ELSE EcmultGenBlind([ctx EXCEPT !.built = TRUE], <<>>)

GenContextIsBuilt(ctx) == ctx.built

\* Without a table the blinding values of the clone are left unset.
GenContextClone(src) == IF src.built THEN src ELSE GenContextInit

GenContextClear == GenContextInit
=============================================================================
