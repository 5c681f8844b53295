------------------------------- MODULE Library -------------------------------
(***************************************************************************)
(* secp256k1 above its arithmetic: points, the hash, signatures and keys.  *)
(* A behaviour exercises one of them, `part', and the others stand still.  *)
(***************************************************************************)
EXTENDS Curve, HashStream, NativeSecp256k1

VARIABLE part

libraryVars == <<part, curveVars, hashVars, nativeVars>>

LibraryInit ==
    /\ part \in {"points", "hash", "signatures", "keys"}
    /\ CurveStart(IF part = "points" THEN StartLogs ELSE {[r \in Points |-> 0]})
    /\ HashStart(IF part = "hash" THEN HashKeys ELSE {<<>>})
    /\ NativeStart(IF part \in {"signatures", "keys"} THEN StartSecs ELSE {OtherSec})

LibraryNext ==
    /\ UNCHANGED part
    /\ \/ part = "points"     /\ CurveNext /\ UNCHANGED <<hashVars, nativeVars>>
       \/ part = "hash"       /\ HashNext  /\ UNCHANGED <<curveVars, nativeVars>>
       \/ part = "signatures" /\ SignNext  /\ UNCHANGED <<curveVars, hashVars>>
       \/ part = "keys"       /\ KeyNext   /\ UNCHANGED <<curveVars, hashVars>>

\* Blinding never runs out of draws: MaxDraws is no limit here.
ASSUME DrawsAssumption ==
    \A blind \in 0 .. n - 1, seed \in Seeds \cup SeedBuffers \cup {<<>>} :
        LET draws == [k \in 1 .. MaxDraws |-> Draw(BytesOf(blind, DigestBytes) \o seed, k)]
        IN  \E i, k \in 1 .. MaxDraws :
                i < k /\ draws[i] \in 1 .. p - 1 /\ draws[k] \in 1 .. n - 1

LibrarySpec == LibraryInit /\ [][LibraryNext]_libraryVars

-----------------------------------------------------------------------------
\* The textbook: a signature is good if the point it names has x = r.
TextbookVerifies(key, msg, r, s) ==
    /\ r \in 1 .. n - 1 /\ s \in 1 .. n - 1
    /\ LET w == CHOOSE i \in 1 .. n - 1 : (i * s) % n = 1
           k == (w * (msg + r * key)) % n
       IN  k # 0 /\ MultipleOf[k][1] % n = r

Compressed(k) == <<2 + (MultipleOf[k][2] % 2), MultipleOf[k][1]>>
Uncompressed(k) == <<4>> \o MultipleOf[k]

InRange(sec) == sec \in 1 .. n - 1

\* The secret key of a public key.
KeyOf(pub) == CHOOSE k \in 1 .. n - 1 : pub \in {Compressed(k), Uncompressed(k)}

VerifyIsRight(sig) ==
    answer.ret = 1 <=>
        /\ sig.ok /\ ~IsHigh(sig.s)
        /\ TextbookVerifies(KeyOf(wallet[answer.w].pub), answer.v % n, sig.r, sig.s)

RecoverIsRight ==
    /\ answer.ret = 1 =>
          \E k \in 1 .. n - 1 : /\ answer.out = Uncompressed(k)
                                /\ TextbookVerifies(k, answer.v % n, rsig.r, rsig.s)
    /\ made # NoMade /\ answer.v = made.msg =>
          answer.ret = 1 /\ answer.out = Uncompressed(made.sec)

\* Bytes that are read as a signature are the only ones it has.
EncodingIsUnique(b) ==
    LET sig == EcdsaSigParse(b)
    IN  sig.ok /\ sig.r # 0 /\ sig.s # 0 =>
            EcdsaSigSerialize(sig.r, sig.s, DerRoom).out = b

\* A signature made in any context, cloned or blinded anew, is readable and low
\* after every conversion; what verifies is readable and low too, whatever
\* arrived; bytes that are read as a signature are the only bytes it has; and
\* signing fails exactly for a key that is out of range.
SignaturesAreCanonical ==
    part = "signatures" =>
        LET sig == EcdsaSigParse(der)
        IN  /\ made # NoMade /\ der # <<>> => sig.ok /\ ~IsHigh(sig.s)
            /\ made # NoMade /\ rsig # ZeroRecoverable => ~IsHigh(rsig.s)
            /\ answer.name = "verify" /\ answer.ret = 1 =>
                  sig.ok /\ sig.r # 0 /\ sig.s # 0 /\ ~IsHigh(sig.s)
            /\ EncodingIsUnique(der)
            /\ answer.name = "sign" =>
                  (answer.ret = 1 <=> InRange(wallet[answer.w].sec))
            /\ answer.name = "normalize" => answer.ret = answer.v

\* A signature is good for its key and message, in any context and after every
\* conversion; and verification and recovery say what the textbook says of
\* whatever arrives.
SignaturesHold ==
    part = "signatures" =>
        LET sig == EcdsaSigParse(der)
        IN  /\ made # NoMade /\ der # <<>> =>
                  TextbookVerifies(made.sec, made.msg % n, sig.r, sig.s)
            /\ answer.name = "verify" => VerifyIsRight(sig)
            /\ answer.name = "recover" => RecoverIsRight

SharedDigest(k) == Digest(<<Compressed(k)[1]>> \o BytesOf(Compressed(k)[2], DigestBytes))

\* What is computed from the keys of two wallets.
AnswerIsRight ==
    LET a == wallet[answer.w]   b == wallet[answer.v]
        sum == (KeyOf(a.pub) + KeyOf(b.pub)) % n
    IN  CASE answer.name = "seckey_verify" -> answer.ret = 1 <=> InRange(a.sec)
          [] answer.name = "ecdh" ->
                IF InRange(a.sec)
                THEN answer.ret = 1 /\ answer.out = SharedDigest((a.sec * KeyOf(b.pub)) % n)
                ELSE answer.ret = 0
          [] answer.name = "combine" ->
                IF sum = 0 THEN answer.ret = 0
                ELSE answer.ret = 1 /\ answer.out = Uncompressed(sum)
          [] OTHER -> TRUE

\* The halves of a key that went through the same changes still belong
\* together, or are both gone; what two wallets compute from them is what the
\* textbook computes; and nothing a wallet does aborts the program or takes
\* for a result what was left on the stack.
KeysStayPaired ==
    part = "keys" =>
        /\ \A w \in Wallets : wallet[w].secDid = wallet[w].pubDid =>
              IF InRange(wallet[w].sec)
              THEN wallet[w].pub \in {Compressed(wallet[w].sec), Uncompressed(wallet[w].sec)}
              ELSE wallet[w].pub = NoPub
        /\ answer.name # "none" => AnswerIsRight
        /\ ~aborted
        /\ answer.ret = 1 => answer.out # Garbage

\* Points, their tables of multiples and the blinding.
PointsAnswer == part = "points" => TablesAreFinite /\ BlindingMatches

\* Digests and HMACs are of the whole message.
StreamsAreOfTheWhole == part = "hash" => DigestsAreOfTheWhole
=============================================================================
