--------------------------- MODULE NativeSecp256k1 ---------------------------
(***************************************************************************)
(* The library as the wallet calls it: org_bitcoin_NativeSecp256k1.c on a  *)
(* context made once with both flags and perhaps cloned, together with the *)
(* functions of secp256k1.c that have no native method.  Each wallet has a *)
(* secret key and a public key as bytes, changed by calls of their own;    *)
(* there is one signature, which someone may also alter on its way.        *)
(*                                                                         *)
(* A native method gives back an array it filled only if the call it made  *)
(* returned 1: otherwise Garbage, whatever was on the stack.               *)
(***************************************************************************)
EXTENDS Secp256k1

CONSTANTS Wallets,
          StartSecs,        \* secret keys of the first wallet, in range or not
          OtherSec,         \* that of the others
          Messages, Tweaks, SeedBuffers,
          ForeignDer,       \* signatures that come from elsewhere
          EditedBytes,      \* bytes that replace one of a signature
          Garbage,
          MaxSignCalls, MaxKeyCalls     \* bounds: calls about signatures, keys

ASSUME NativeAssumption ==
    /\ 1 \in Wallets /\ StartSecs \subseteq Nat /\ OtherSec \in Nat /\ Messages \subseteq Nat
    /\ EditedBytes \subseteq 0 .. DerAll /\ ForeignDer \subseteq Seq(0 .. DerAll)

VARIABLES contexts,     \* the context and its clone
          wallet,       \* keys, and the changes made to each half so far
          der,          \* the signature, as bytes
          rsig,         \* the recoverable signature
          made,         \* the key and message `der' and `rsig' were made for
          answer,       \* what the last call returned, and its arguments
          aborted,      \* the illegal callback was called
          nativeCalls

nativeVars == <<contexts, wallet, der, rsig, made, answer, aborted, nativeCalls>>

NoContext == [none |-> TRUE]
NoPub  == <<>>
NoMade == [sec |-> 0, msg |-> 0]
NoAnswer == [name |-> "none", w |-> 0, v |-> 0, ret |-> 0, out |-> Garbage]

DerRoom == 6 + 2 * (DerBytes + 1)
PubRoom == 3

\* What a native method hands over of the result of a call that fills bytes.
Handed(res, bytes) == IF res.ret = 1 THEN bytes ELSE Garbage

InitContext == ContextCreate({"sign", "verify"})

PubkeyBytes(pubkey, compressed) == EcPubkeySerialize(pubkey, PubRoom, compressed).out

StartWallet(sec, created) ==
    [sec |-> sec, pub |-> IF created.ret = 1 THEN PubkeyBytes(created.out, TRUE) ELSE NoPub,
     secDid |-> <<>>, pubDid |-> <<>>]

NativeStart(secs) ==
    /\ contexts = [original |-> InitContext, clone |-> NoContext]
    /\ \E sec \in secs :
          wallet = [w \in Wallets |->
                      LET s == IF w = 1 THEN sec ELSE OtherSec
                      IN  StartWallet(s, EcPubkeyCreate(contexts.original, s))]
    /\ der = <<>> /\ rsig = ZeroRecoverable /\ made = NoMade
    /\ answer = NoAnswer
    /\ aborted = FALSE
    /\ nativeCalls = 0

Alive(c) == contexts[c] # NoContext

\* A call with its result; a context that was destroyed is not used again.
Called(c, name, w, v, res, out) ==
    /\ ~aborted /\ Alive(c)
    /\ nativeCalls' = nativeCalls + 1
    /\ aborted' = res.illegal
    /\ answer' = [name |-> name, w |-> w, v |-> v, ret |-> res.ret, out |-> out]

KeysUnchanged == UNCHANGED wallet
SignaturesUnchanged == UNCHANGED <<der, rsig, made>>

-----------------------------------------------------------------------------
CtxClone ==
    /\ ~Alive("clone")
    /\ Called("original", "ctx_clone", 0, 0, Ok(0), 0)
    /\ contexts' = [contexts EXCEPT !.clone = ContextClone(contexts.original)]
    /\ KeysUnchanged /\ SignaturesUnchanged

Randomized(c, res) ==
    /\ Called(c, "randomize", 0, 0, res, 0)
    /\ contexts' = [contexts EXCEPT ![c] = res.out]
    /\ KeysUnchanged /\ SignaturesUnchanged

Randomize(c, seed) == Randomized(c, ContextRandomize(contexts[c], seed))

\* The memory of the context is freed.
DestroyContext(c) ==
    /\ Called(c, "destroy", 0, 0, Ok(ContextDestroy), 0)
    /\ contexts' = [contexts EXCEPT ![c] = NoContext]
    /\ KeysUnchanged /\ SignaturesUnchanged

NativeSigned(c, w, msg, res) ==
    LET ser == SignatureSerializeDer(res.out, DerRoom)
    IN  /\ Called(c, "sign", w, msg, res, Handed(res, ser.out))
        /\ WithinDraws(res)
        /\ IF res.ret = 1
           THEN der' = ser.out /\ made' = [sec |-> wallet[w].sec, msg |-> msg]
           ELSE UNCHANGED <<der, made>>
        /\ rsig' = ZeroRecoverable
        /\ KeysUnchanged /\ UNCHANGED contexts

NativeSign(c, w, msg) ==
    NativeSigned(c, w, msg, EcdsaSign(contexts[c], msg, wallet[w].sec, <<>>))

Verified(ctx, sig, msg, key) ==
    IF sig.ret = 0 THEN sig ELSE IF key.ret = 0 THEN key
    ELSE EcdsaVerify(ctx, sig.out, msg, key.out)

NativeVerify(c, w, msg) ==
    /\ der # <<>> /\ wallet[w].pub # NoPub
    /\ Called(c, "verify", w, msg,
              Verified(contexts[c], SignatureParseDer(der), msg, EcPubkeyParse(wallet[w].pub)),
              0)
    /\ KeysUnchanged /\ SignaturesUnchanged /\ UNCHANGED contexts

\* Bytes that were altered, cut, extended, or are someone else's.
Edits(b) ==
    {[b EXCEPT ![i] = x] : i \in DOMAIN b, x \in EditedBytes} \cup ForeignDer
        \cup {SubSeq(b, 1, Len(b) - 1)} \cup {Append(b, x) : x \in EditedBytes}

Receive(b) ==
    /\ answer.name = "sign" /\ b # der
    /\ der' = b /\ made' = NoMade /\ rsig' = ZeroRecoverable
    /\ answer' = NoAnswer
    /\ UNCHANGED <<contexts, wallet, aborted, nativeCalls>>

Normalized(twin, res) ==
    /\ Called("original", "normalize", 0, IF IsHigh(twin.s) THEN 1 ELSE 0, res, 0)
    /\ der' = SignatureSerializeDer(res.out, DerRoom).out
    /\ KeysUnchanged /\ UNCHANGED <<contexts, rsig, made>>

Twin(parsed) ==
    LET sig == parsed.out
    IN  SignatureParseCompact(SignatureSerializeCompact(sig).out[1], Negate(sig.s)).out

\* The other signature with the same r, through its compact form, and back.
NormalizeTwin ==
    /\ SignatureParseDer(der).ret = 1
    /\ LET twin == Twin(SignatureParseDer(der))
       IN  Normalized(twin, SignatureNormalize(twin))

RecoverablySigned(c, w, msg, res) ==
    /\ Called(c, "sign_recoverable", w, msg, res, 0)
    /\ WithinDraws(res)
    /\ rsig' = res.out
    /\ made' = IF res.ret = 1 THEN [sec |-> wallet[w].sec, msg |-> msg] ELSE NoMade
    /\ der' = <<>>
    /\ KeysUnchanged /\ UNCHANGED contexts

SignRecoverable(c, w, msg) ==
    RecoverablySigned(c, w, msg, EcdsaSignRecoverable(contexts[c], msg, wallet[w].sec, <<>>))

\* As two numbers and a recid, which may be any other.
ReadRecoverable(recid) ==
    LET b   == RecoverableSerializeCompact(rsig).out
        res == RecoverableParseCompact(b[1], b[2], recid)
    IN  /\ rsig # ZeroRecoverable
        /\ Called("original", "parse_recoverable", 0, 0, res, 0)
        /\ rsig' = res.out
        /\ made' = IF recid = b[3] THEN made ELSE NoMade
        /\ UNCHANGED der /\ KeysUnchanged /\ UNCHANGED contexts

\* A key was computed from what the call was given.
GivesKey(c, name, w, v, res) ==
    /\ Called(c, name, w, v, res, Handed(res, PubkeyBytes(res.out, FALSE)))
    /\ KeysUnchanged /\ SignaturesUnchanged /\ UNCHANGED contexts

NativeRecover(c, msg) ==
    /\ rsig # ZeroRecoverable
    /\ GivesKey(c, "recover", 0, msg, EcdsaRecover(contexts[c], rsig, msg))

ConvertRecoverable ==
    LET res == RecoverableConvert(rsig)
    IN  /\ rsig # ZeroRecoverable
        /\ Called("original", "convert", 0, 0, res, 0)
        /\ der' = SignatureSerializeDer(res.out, DerRoom).out
        /\ rsig' = ZeroRecoverable
        /\ UNCHANGED made /\ KeysUnchanged /\ UNCHANGED contexts

-----------------------------------------------------------------------------
SeckeyVerify(w) ==
    LET res == EcSeckeyVerify(wallet[w].sec)
    IN  /\ Called("original", "seckey_verify", w, w, res, 0)
        /\ KeysUnchanged /\ SignaturesUnchanged /\ UNCHANGED contexts

\* The public key a wallet has now, and what it went through; the caller has
\* no key any more when the call failed.
NewPub(name, w, res, out, did) ==
    /\ Called("original", name, w, w, res, out)
    /\ wallet' = [wallet EXCEPT ![w].pub = IF res.ret = 1 THEN out ELSE NoPub,
                                ![w].pubDid = did]
    /\ SignaturesUnchanged /\ UNCHANGED contexts

PubHanded(name, w, res, compressed, did) ==
    NewPub(name, w, res, Handed(res, PubkeyBytes(res.out, compressed)), did)

NativePubkeyCreate(w, compressed) ==
    PubHanded("pubkey_create", w, EcPubkeyCreate(contexts.original, wallet[w].sec),
              compressed, wallet[w].secDid)

\* The secret key is changed in the caller's buffer, to zeros if that failed.
ChangeSec(w, what, res) ==
    /\ Called("original", what[1], w, w, res, res.out)
    /\ wallet' = [wallet EXCEPT ![w].sec = res.out, ![w].secDid = Append(@, what)]
    /\ SignaturesUnchanged /\ UNCHANGED contexts

PrivkeyTweakAdd(w, t) ==
    ChangeSec(w, <<"tweak_add", t>>, EcPrivkeyTweakAdd(wallet[w].sec, t))

PrivkeyTweakMul(w, t) ==
    ChangeSec(w, <<"tweak_mul", t>>, EcPrivkeyTweakMul(wallet[w].sec, t))

PrivkeyNegate(w) == ChangeSec(w, <<"negate", 0>>, EcPrivkeyNegate(wallet[w].sec))

\* The key is parsed first, in each of these.
ChangePub(w, what, res, compressed) ==
    /\ wallet[w].pub # NoPub
    /\ PubHanded(what[1], w, res, compressed, Append(wallet[w].pubDid, what))

TweakAdded(ctx, key, t) == IF key.ret = 0 THEN key ELSE EcPubkeyTweakAdd(ctx, key.out, t)
TweakMuled(ctx, key, t) == IF key.ret = 0 THEN key ELSE EcPubkeyTweakMul(ctx, key.out, t)
Negated(key)            == IF key.ret = 0 THEN key ELSE EcPubkeyNegate(key.out)

PubkeyTweakAdd(w, t, compressed) ==
    ChangePub(w, <<"tweak_add", t>>,
              TweakAdded(contexts.original, EcPubkeyParse(wallet[w].pub), t), compressed)

PubkeyTweakMul(w, t, compressed) ==
    ChangePub(w, <<"tweak_mul", t>>,
              TweakMuled(contexts.original, EcPubkeyParse(wallet[w].pub), t), compressed)

PubkeyNegate(w, compressed) ==
    ChangePub(w, <<"negate", 0>>, Negated(EcPubkeyParse(wallet[w].pub)), compressed)

PubkeyDecompress(w) ==
    /\ wallet[w].pub # NoPub
    /\ PubHanded("decompress", w, EcPubkeyParse(wallet[w].pub), FALSE, wallet[w].pubDid)

\* As the native method would, were it not empty.
PubkeyCombine(w, v) ==
    /\ wallet[w].pub # NoPub /\ wallet[v].pub # NoPub
    /\ GivesKey("original", "combine", w, v,
                EcPubkeyCombine(<<EcPubkeyParse(wallet[w].pub).out,
                                  EcPubkeyParse(wallet[v].pub).out>>))

Shared(key, sec) == IF key.ret = 0 THEN key ELSE Ecdh(key.out, sec)

HashHanded(w, v, res) ==
    /\ Called("original", "ecdh", w, v, res, Handed(res, res.out))
    /\ KeysUnchanged /\ SignaturesUnchanged /\ UNCHANGED contexts

NativeEcdh(w, v) ==
    /\ wallet[v].pub # NoPub
    /\ HashHanded(w, v, Shared(EcPubkeyParse(wallet[v].pub), wallet[w].sec))

-----------------------------------------------------------------------------
SignNext ==
    /\ nativeCalls < MaxSignCalls
    /\ \/ CtxClone \/ NormalizeTwin \/ ConvertRecoverable
       \/ \E c \in DOMAIN contexts :
            \/ DestroyContext(c)
            \/ \E seed \in SeedBuffers : Randomize(c, seed)
            \/ \E msg \in Messages :
                  \/ NativeSign(c, 1, msg) \/ SignRecoverable(c, 1, msg)
                  \/ NativeRecover(c, msg)
                  \/ \E w \in Wallets : NativeVerify(c, w, msg)
       \/ \E b \in Edits(der) : Receive(b)
       \/ \E recid \in 0 .. 3 : ReadRecoverable(recid)

KeyNext ==
    /\ nativeCalls < MaxKeyCalls
    /\ \/ \E w, v \in Wallets : w # v /\ (PubkeyCombine(w, v) \/ NativeEcdh(w, v))
       \/ SeckeyVerify(1) \/ PrivkeyNegate(1) \/ PubkeyDecompress(1)
       \/ \E compressed \in BOOLEAN :
             NativePubkeyCreate(1, compressed) \/ PubkeyNegate(1, compressed)
       \/ \E t \in Tweaks : \/ PrivkeyTweakAdd(1, t) \/ PrivkeyTweakMul(1, t)
                            \/ PubkeyTweakAdd(1, t, TRUE) \/ PubkeyTweakMul(1, t, TRUE)
=============================================================================
