------------------------------ MODULE Secp256k1 ------------------------------
(***************************************************************************)
(* The public functions of the library, secp256k1.c with its ECDH and      *)
(* recovery modules.  A call returns [ret, out, illegal]: illegal is set   *)
(* where an ARG_CHECK of the function fails, and the context's callback    *)
(* is called, which by default aborts the program: what a function would   *)
(* go on to do if that callback returned is left out.                      *)
(* Arguments that are NULL are left out.                                   *)
(*                                                                         *)
(* A public key inside the library is a point in storage form, and zero    *)
(* where a call failed; a secret key, a message or a tweak is the number   *)
(* of its bytes, which need not be below the order.                        *)
(***************************************************************************)
EXTENDS Ecdsa

Ok(out)      == [ret |-> 1, out |-> out, illegal |-> FALSE]
No(out)      == [ret |-> 0, out |-> out, illegal |-> FALSE]
Illegal(out) == [ret |-> 0, out |-> out, illegal |-> TRUE]

ZeroPubkey == [x |-> Zero, y |-> Zero]
ZeroSignature == [r |-> 0, s |-> 0]

ContextCreate(flags) ==
    [ecmult |-> IF "verify" \in flags THEN EcmultContextBuild(EcmultContextInit)
                                      ELSE EcmultContextInit,
     gen    |-> IF "sign" \in flags THEN GenContextBuild(GenContextInit)
                                    ELSE GenContextInit]

ContextClone(ctx) ==
    [ecmult |-> EcmultContextClone(ctx.ecmult), gen |-> GenContextClone(ctx.gen)]

ContextDestroy == [ecmult |-> EcmultContextClear, gen |-> GenContextClear]

ContextRandomize(ctx, seed) ==
    IF ~GenContextIsBuilt(ctx.gen) THEN Illegal(ctx)
    ELSE Ok([ctx EXCEPT !.gen = EcmultGenBlind(@, seed)])

\* A key of zeros, left by a call that failed, may not be used again.
PubkeyLoad(pubkey) ==
    LET q == GeFromStorage(pubkey)
    IN  IF q.x.v = 0 THEN Illegal(q) ELSE Ok(q)

PubkeySave(q) == GeToStorage(q)

SavedParsed(q) == IF q.ok THEN Ok(PubkeySave(q.r)) ELSE No(ZeroPubkey)

EcPubkeyParse(input) == SavedParsed(EckeyPubkeyParse(input))

\* size is the room there is, 2 and 3 for the 33 and 65 bytes of the code.
EcPubkeySerialize(pubkey, size, compressed) ==
    LET q == PubkeyLoad(pubkey)
        k == EckeyPubkeySerialize(q.out, compressed)
    IN  IF size < (IF compressed THEN 2 ELSE 3) \/ q.illegal THEN Illegal(<<>>)
        ELSE IF k.ret = 1 THEN Ok(k.out) ELSE No(<<>>)

ParsedDer(q) == IF q.ok THEN Ok([r |-> q.r, s |-> q.s]) ELSE No(ZeroSignature)

SignatureParseDer(input) == ParsedDer(EcdsaSigParse(input))

SignatureParseCompact(r, s) ==
    IF ReadScalar(r).overflow \/ ReadScalar(s).overflow THEN No(ZeroSignature)
    ELSE Ok([r |-> r, s |-> s])

SignatureSerializeDer(sig, size) == EcdsaSigSerialize(sig.r, sig.s, size)

SignatureSerializeCompact(sig) == Ok(<<sig.r, sig.s>>)

\* Was it high?
SignatureNormalize(sig) ==
    IF IsHigh(sig.s) THEN Ok([sig EXCEPT !.s = Negate(@)]) ELSE No(sig)

\* Mutant: a high s is as good as a low one.
EcdsaVerifyAnyS(ctx, sig, msg, pubkey) ==
    LET q == PubkeyLoad(pubkey)
    IN  IF ~EcmultContextIsBuilt(ctx.ecmult) THEN Illegal(0)
        ELSE IF q.illegal THEN Illegal(0)
        ELSE IF EcdsaSigVerify(sig.r, sig.s, q.out, ReadScalar(msg).v) THEN Ok(0) ELSE No(0)

EcdsaVerify(ctx, sig, msg, pubkey) ==
    LET q == PubkeyLoad(pubkey)
    IN  IF ~EcmultContextIsBuilt(ctx.ecmult) THEN Illegal(0)
        ELSE IF IsHigh(sig.s) THEN No(0)
        ELSE IF q.illegal THEN Illegal(0)
        ELSE IF EcdsaSigVerify(sig.r, sig.s, q.out, ReadScalar(msg).v) THEN Ok(0) ELSE No(0)

\* What the generator of nonces is keyed with; the counter is the number of
\* outputs passed over.  data is <<>> for none, and so is the name of the
\* algorithm, which no caller gives.
NonceFunctionRfc6979(msg, key, data, counter) ==
    Draw(BytesOf(key, DigestBytes) \o BytesOf(msg, DigestBytes) \o data, counter + 1)

NoNonce == [ret |-> FALSE, r |-> 0, s |-> 0, recid |-> 0]

\* A nonce that is out of range is passed over, and so is an s of zero.
Attempt(ctx, sec, msg, non) ==
    IF non \in 1 .. n - 1 THEN EcdsaSigSign(ctx.gen, sec, msg, non) ELSE NoNonce

GoodOr(q, next) == IF q.ret THEN q ELSE next

\* The loop both signing functions share: nonces are drawn until one is good.
FirstSigned(ctx, sec, msg, seckey, data) ==
    LET signed[c \in 0 .. MaxDraws] ==
            IF c = MaxDraws THEN NoNonce
            ELSE GoodOr(Attempt(ctx, sec.v, ReadScalar(msg).v,
                                NonceFunctionRfc6979(msg, seckey, data, c)),
                        signed[c + 1])
    IN  IF sec.overflow \/ sec.v = 0 THEN No(ZeroSignature) ELSE Ok(signed[0])

\* The draws did not reach their bound: no good signature has an s of zero.
WithinDraws(res) == res.ret = 1 => res.out.s # 0

SignLoop(ctx, msg, seckey, data) ==
    FirstSigned(ctx, ReadScalar(seckey), msg, seckey, data)

EcdsaSign(ctx, msg, seckey, data) ==
    IF ~GenContextIsBuilt(ctx.gen) THEN Illegal(ZeroSignature)
    ELSE [SignLoop(ctx, msg, seckey, data) EXCEPT !.out = [r |-> @.r, s |-> @.s]]

-----------------------------------------------------------------------------
EcSeckeyVerify(seckey) ==
    LET sec == ReadScalar(seckey) IN IF sec.overflow \/ sec.v = 0 THEN No(0) ELSE Ok(0)

EcPubkeyCreate(ctx, seckey) ==
    LET sec == ReadScalar(seckey)
    IN  IF ~GenContextIsBuilt(ctx.gen) THEN Illegal(ZeroPubkey)
        ELSE IF sec.overflow \/ sec.v = 0 THEN No(ZeroPubkey)
        ELSE Ok(PubkeySave(GeSetGej(EcmultGen(ctx.gen, sec.v))))

\* The functions that change a secret key do not look whether it is in range.
EcPrivkeyNegate(seckey) == Ok(Negate(ReadScalar(seckey).v))

EcPubkeyNegate(pubkey) ==
    LET q == PubkeyLoad(pubkey)
    IN  IF q.illegal THEN Illegal(ZeroPubkey) ELSE Ok(PubkeySave(GeNeg(q.out)))

EcPrivkeyTweakAdd(seckey, tweak) ==
    LET term == ReadScalar(tweak)
        k == EckeyPrivkeyTweakAdd(ReadScalar(seckey).v, term.v)
    IN  IF ~term.overflow /\ k.ret THEN Ok(k.key) ELSE No(0)

SavedTweaked(k) == IF k.ret THEN Ok(PubkeySave(k.key)) ELSE No(ZeroPubkey)

\* Mutant: a tweak that is not below the order is reduced.
EcPubkeyTweakAddReduced(ctx, pubkey, tweak) ==
    LET q == PubkeyLoad(pubkey)
    IN  IF ~EcmultContextIsBuilt(ctx.ecmult) THEN Illegal(pubkey)
        ELSE IF q.illegal THEN Illegal(ZeroPubkey)
        ELSE SavedTweaked(EckeyPubkeyTweakAdd(q.out, ReadScalar(tweak).v))

EcPubkeyTweakAdd(ctx, pubkey, tweak) ==
    LET term == ReadScalar(tweak)
        q == PubkeyLoad(pubkey)
    IN  IF ~EcmultContextIsBuilt(ctx.ecmult) THEN Illegal(pubkey)
        ELSE IF term.overflow THEN No(ZeroPubkey)
        ELSE IF q.illegal THEN Illegal(ZeroPubkey)
        ELSE SavedTweaked(EckeyPubkeyTweakAdd(q.out, term.v))

EcPrivkeyTweakMul(seckey, tweak) ==
    LET factor == ReadScalar(tweak)
        k == EckeyPrivkeyTweakMul(ReadScalar(seckey).v, factor.v)
    IN  IF ~factor.overflow /\ k.ret THEN Ok(k.key) ELSE No(0)

EcPubkeyTweakMul(ctx, pubkey, tweak) ==
    LET factor == ReadScalar(tweak)
        q == PubkeyLoad(pubkey)
    IN  IF ~EcmultContextIsBuilt(ctx.ecmult) THEN Illegal(pubkey)
        ELSE IF factor.overflow THEN No(ZeroPubkey)
        ELSE IF q.illegal THEN Illegal(ZeroPubkey)
        ELSE SavedTweaked(EckeyPubkeyTweakMul(q.out, factor.v))

\* Whether a key could be loaded is not looked at.
SavedSum(q) == IF q.infinity THEN No(ZeroPubkey) ELSE Ok(PubkeySave(GeSetGej(q)))

EcPubkeyCombine(pubkeys) ==
    LET sum[i \in 0 .. Len(pubkeys)] ==
            IF i = 0 THEN GejSetInfinity
            ELSE GejAddGe(sum[i - 1], PubkeyLoad(pubkeys[i]).out)
    IN  IF pubkeys = <<>> \/ \E i \in DOMAIN pubkeys : PubkeyLoad(pubkeys[i]).illegal
        THEN Illegal(ZeroPubkey)
        ELSE SavedSum(sum[Len(pubkeys)])

-----------------------------------------------------------------------------
\* The hash of a point, in compressed form.
HashOfPoint(res) ==
    LET y == <<IF FeIsOdd(FeNormalize(res.y)) THEN 3 ELSE 2>>
        x == BytesOf(FeNormalize(res.x).v, DigestBytes)
    IN  Sha256Finalize(Sha256Write(Sha256Write(Sha256Initialize, y), x))

Ecdh(pubkey, scalar) ==
    LET pt == PubkeyLoad(pubkey)
        s  == ReadScalar(scalar)
    IN  IF pt.illegal THEN Illegal(<<>>)
        ELSE IF s.overflow \/ s.v = 0 THEN No(<<>>)
        ELSE Ok(HashOfPoint(GeSetGej(EcmultConst(pt.out, s.v))))

ZeroRecoverable == [r |-> 0, s |-> 0, recid |-> 0]

RecoverableParseCompact(r, s, recid) ==
    IF recid \notin 0 .. 3 THEN Illegal(ZeroRecoverable)
    ELSE IF ReadScalar(r).overflow \/ ReadScalar(s).overflow THEN No(ZeroRecoverable)
    ELSE Ok([r |-> r, s |-> s, recid |-> recid])

RecoverableSerializeCompact(sig) == Ok(<<sig.r, sig.s, sig.recid>>)

RecoverableConvert(sig) == Ok([r |-> sig.r, s |-> sig.s])

Recoverable(q) ==
    IF q.ret = 0 THEN No(ZeroRecoverable)
    ELSE Ok([r |-> q.out.r, s |-> q.out.s, recid |-> q.out.recid])

EcdsaSignRecoverable(ctx, msg, seckey, data) ==
    IF ~GenContextIsBuilt(ctx.gen) THEN Illegal(ZeroRecoverable)
    ELSE Recoverable(SignLoop(ctx, msg, seckey, data))

SavedRecovered(q) == IF q.ret THEN Ok(PubkeySave(q.q)) ELSE No(ZeroPubkey)

EcdsaRecover(ctx, sig, msg) ==
    IF ~EcmultContextIsBuilt(ctx.ecmult) THEN Illegal(ZeroPubkey)
    ELSE SavedRecovered(EcdsaSigRecover(sig.r, sig.s, ReadScalar(msg).v, sig.recid))
=============================================================================
