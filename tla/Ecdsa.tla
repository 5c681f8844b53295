-------------------------------- MODULE Ecdsa --------------------------------
(***************************************************************************)
(* Signatures: their DER encoding, signing, verification and recovery      *)
(* (ecdsa_impl.h, the recovery module), and keys as bytes (eckey_impl.h).  *)
(*                                                                         *)
(* A key as bytes is <<tag, x>> (33 bytes in the code) or <<tag, x, y>>    *)
(* (65).  DER has bytes of its own: DerBits bits each, of which the        *)
(* highest marks a length of several bytes or a negative integer.          *)
(***************************************************************************)
EXTENDS Ecmult

CONSTANTS DerBits, DerBytes,            \* a scalar takes DerBytes of them
          SizeBytes,                    \* of a size_t
          SequenceTag, IntegerTag       \* 0x30 and 0x02

DerHigh == 2^(DerBits - 1)
DerAll  == 2^DerBits - 1

\* Scalars fit into their bytes, and the length of a signature into one byte.
ASSUME EcdsaAssumption ==
    /\ DerBits \in Nat \ {0} /\ DerBytes \in Nat \ {0} /\ SizeBytes \in Nat
    /\ Bits <= DerBits * DerBytes /\ DerBits * DerBytes <= 2 * Bits
    /\ 6 + 2 * DerBytes < DerHigh
    /\ SequenceTag \in 0 .. DerAll /\ IntegerTag \in 0 .. DerAll

\* The most significant byte comes first.
DerNumber(b) ==
    LET f[i \in 0 .. Len(b)] == IF i = 0 THEN 0 ELSE f[i - 1] * 2^DerBits + b[i]
    IN  f[Len(b)]

DerBytesOf(x) == [i \in 1 .. DerBytes |-> (x \div 2^(DerBits * (DerBytes - i))) % 2^DerBits]

\* The length that starts at byte i (-1 if there is none), and where it ends.
DerReadLen(b, i) ==
    LET left == b[i] - DerHigh
        long == DerNumber(SubSeq(b, i + 1, i + left))
        none == [len |-> -1, at |-> i]
    IN  IF i > Len(b) \/ b[i] \in {DerAll, DerHigh} THEN none
        ELSE IF b[i] < DerHigh THEN [len |-> b[i], at |-> i + 1]
        ELSE IF \/ left > Len(b) - i
                \/ b[i + 1] = 0                  \* not the shortest
                \/ left > SizeBytes
                \/ long > Len(b) - i - left
                \/ long < DerHigh                \* not the shortest
             THEN none
        ELSE [len |-> long, at |-> i + 1 + left]

\* The bytes without their leading zeros.
Significant(body) ==
    SubSeq(body, Min({j \in DOMAIN body : body[j] # 0} \cup {Len(body) + 1}), Len(body))

\* What is negative, or not below the order, is read as zero.
DerValue(negative, rest) ==
    IF negative \/ Len(rest) > DerBytes \/ DerNumber(rest) >= n THEN 0 ELSE DerNumber(rest)

\* At least one byte, and no more than needed.
DerInteger1(body, at) ==
    IF /\ Len(body) > 1
       /\ \/ body[1] = 0 /\ body[2] < DerHigh
          \/ body[1] = DerAll /\ body[2] >= DerHigh
    THEN [ok |-> FALSE]
    ELSE [ok |-> TRUE, v |-> DerValue(body[1] >= DerHigh, Significant(body)), at |-> at]

DerBody(b, i, l) ==
    IF i > Len(b) \/ b[i] # IntegerTag \/ l.len <= 0 \/ l.at + l.len - 1 > Len(b)
    THEN [ok |-> FALSE]
    ELSE DerInteger1(SubSeq(b, l.at, l.at + l.len - 1), l.at + l.len)

DerParseInteger(b, i) == DerBody(b, i, DerReadLen(b, i + 1))

NoSig == [ok |-> FALSE, r |-> 0, s |-> 0]

\* Nothing may follow the second integer.
SigOf(b, r, s) ==
    IF s.ok /\ s.at = Len(b) + 1 THEN [ok |-> TRUE, r |-> r.v, s |-> s.v] ELSE NoSig

SecondInteger(b, r) == IF r.ok THEN SigOf(b, r, DerParseInteger(b, r.at)) ELSE NoSig

SequenceBody(b, l) ==
    IF l.len >= 0 /\ l.at + l.len - 1 = Len(b)
    THEN SecondInteger(b, DerParseInteger(b, l.at)) ELSE NoSig

EcdsaSigParse(b) ==
    IF b # <<>> /\ b[1] = SequenceTag THEN SequenceBody(b, DerReadLen(b, 2)) ELSE NoSig

\* The least bytes that say x and are not negative.
DerInteger(x) ==
    LET b == <<0>> \o DerBytesOf(x)
        first == Min({j \in 1 .. DerBytes + 1 :
                        j = DerBytes + 1 \/ b[j] # 0 \/ b[j + 1] >= DerHigh})
    IN  SubSeq(b, first, DerBytes + 1)

EcdsaSigSerialize(r, s, size) ==
    LET rp == DerInteger(r)
        sp == DerInteger(s)
        length == 6 + Len(rp) + Len(sp)
    IN  IF size < length THEN [ret |-> 0, size |-> length, out |-> <<>>]
        ELSE [ret |-> 1, size |-> length,
              out |-> <<SequenceTag, length - 2, IntegerTag, Len(rp)>> \o rp
                        \o <<IntegerTag, Len(sp)>> \o sp]

-----------------------------------------------------------------------------
ScalarInverse ==
    [x \in 0 .. n - 1 |->
        LET f[k \in 0 .. n - 2] == IF k = 0 THEN 1 ELSE (f[k - 1] * x) % n IN f[n - 2]]

ReadScalar(b) == [v |-> b % n, overflow |-> b >= n]

OrderAsFe == FeSetInt(n)

\* Mutant: x is taken to be below the order.
HasXNear(xr, pr) == ~pr.infinity /\ GejEqXVar(xr, pr)

\* Is xr the x of pr modulo the order?
HasX(xr, pr) ==
    /\ ~pr.infinity
    /\ GejEqXVar(xr, pr) \/ (xr.v < p - n /\ GejEqXVar(FeAdd(xr, OrderAsFe), pr))

EcdsaSigVerify(sigr, sigs, pubkey, message) ==
    LET sn == ScalarInverse[sigs]
    IN  /\ sigr # 0 /\ sigs # 0
        /\ HasX(FeSetInt(sigr),
                SecpEcmult(GejSetGe(pubkey), (sn * sigr) % n, (sn * message) % n))

\* recid tells which of the points with this r was meant: 2 for an x not below
\* the order, 1 for an odd y.
SignedWith(r, seckey, message, nonce) ==
    LET x   == ReadScalar(FeNormalize(r.x).v)
        odd == FeIsOdd(FeNormalize(r.y))
        s   == (ScalarInverse[nonce] * (x.v * seckey + message)) % n
    IN  [ret |-> s # 0, r |-> x.v,
         s |-> IF IsHigh(s) THEN Negate(s) ELSE s,
         recid |-> (IF x.overflow THEN 2 ELSE 0) + (IF odd # IsHigh(s) THEN 1 ELSE 0)]

EcdsaSigSign(gen, seckey, message, nonce) ==
    SignedWith(GeSetGej(EcmultGen(gen, nonce)), seckey, message, nonce)

Recovered(qj) == [ret |-> ~qj.infinity, q |-> GeSetGejVar(qj)]

\* x is the point the signature was made with, if there is one.
RecoveredFrom(x, sigr, sigs, message) ==
    LET rn == ScalarInverse[sigr]
    IN  IF x.ok THEN Recovered(SecpEcmult(GejSetGe(x.r), (rn * sigs) % n,
                                          Negate((rn * message) % n)))
        ELSE [ret |-> FALSE, q |-> GeInfinity]

EcdsaSigRecover(sigr, sigs, message, recid) ==
    LET far == recid \div 2 = 1
        fx  == IF far THEN FeAdd(FeSetInt(sigr), OrderAsFe) ELSE FeSetInt(sigr)
    IN  IF sigr # 0 /\ sigs # 0 /\ (far => sigr < p - n)
        THEN RecoveredFrom(GeSetXoVar(fx, recid % 2 = 1), sigr, sigs, message)
        ELSE [ret |-> FALSE, q |-> GeInfinity]

-----------------------------------------------------------------------------
EckeyPubkeyParse(pub) ==
    LET short == GeSetXoVar(FeSetInt(pub[2]), pub[1] = 3)
        full  == GeSetXY(FeSetInt(pub[2]), FeSetInt(pub[3]))
    IN  CASE Len(pub) = 2 /\ pub[1] \in {2, 3} ->
                IF pub[2] < p THEN short ELSE [ok |-> FALSE, r |-> GeInfinity]
          [] Len(pub) = 3 /\ pub[1] \in {4, 6, 7} ->
                [ok |-> /\ pub[2] < p /\ pub[3] < p
                        /\ pub[1] \in {6, 7} => (FeIsOdd(full.y) <=> pub[1] = 7)
                        /\ GeIsValidVar(full),
                 r |-> full]
          [] OTHER -> [ok |-> FALSE, r |-> GeInfinity]

EckeyPubkeySerialize(elem, compressed) ==
    LET x == FeNormalize(elem.x)   y == FeNormalize(elem.y)
    IN  IF elem.infinity THEN [ret |-> 0, out |-> <<>>]
        ELSE [ret |-> 1, out |-> IF compressed THEN <<IF FeIsOdd(y) THEN 3 ELSE 2, x.v>>
                                               ELSE <<4, x.v, y.v>>]

EckeyPrivkeyTweakAdd(key, tweak) ==
    LET k == (key + tweak) % n IN [ret |-> k # 0, key |-> k]

Tweaked(key, pt) ==
    IF pt.infinity THEN [ret |-> FALSE, key |-> key]
                   ELSE [ret |-> TRUE, key |-> GeSetGej(pt)]

EckeyPubkeyTweakAdd(key, tweak) ==
    Tweaked(key, SecpEcmult(GejSetGe(key), 1, tweak))

EckeyPrivkeyTweakMul(key, tweak) == [ret |-> tweak # 0, key |-> (key * tweak) % n]

EckeyPubkeyTweakMul(key, tweak) ==
    IF tweak = 0 THEN [ret |-> FALSE, key |-> key]
    ELSE [ret |-> TRUE, key |-> GeSetGej(SecpEcmult(GejSetGe(key), tweak, 0))]
=============================================================================
