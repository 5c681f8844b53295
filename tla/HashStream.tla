----------------------------- MODULE HashStream -----------------------------
(***************************************************************************)
(* A message that reaches the hash and the HMAC of hash_impl.h in chunks,  *)
(* as the generator of RFC 6979 and the Diffie-Hellman module write it.    *)
(***************************************************************************)
EXTENDS Hash

CONSTANTS Chunks,       \* what one write may bring
          HashKeys,     \* keys of the HMAC
          MaxWrites     \* bound: writes before the digest is taken

ASSUME StreamAssumption == Chunks \subseteq Seq(Byte) /\ HashKeys \subseteq Seq(Byte)

VARIABLES stream,       \* a secp256k1_sha256_t
          hmac,         \* a secp256k1_hmac_sha256_t
          written,      \* all that was written to either
          hashKey,
          writes

hashVars == <<stream, hmac, written, hashKey, writes>>

HashStart(keys) ==
    /\ hashKey \in keys
    /\ stream = Sha256Initialize
    /\ hmac = HmacInitialize(hashKey)
    /\ written = <<>>
    /\ writes = 0

HashWrite(data) ==
    /\ writes < MaxWrites
    /\ writes' = writes + 1
    /\ stream' = Sha256Write(stream, data)
    /\ hmac' = HmacWrite(hmac, data)
    /\ written' = written \o data
    /\ UNCHANGED hashKey

HashNext == \E data \in Chunks : HashWrite(data)

\* The standard: pad the whole message, then compress block after block.
Digest(m) ==
    LET zeros  == CHOOSE z \in 0 .. BlockBytes - 1 :
                      (Len(m) + 1 + z + LengthBytes) % BlockBytes = 0
        padded == m \o <<2^(ByteBits - 1)>> \o Repeat(0, zeros)
                    \o BytesOf(Len(m) * ByteBits, LengthBytes)
        s[k \in 0 .. Len(padded) \div BlockBytes] ==
            IF k = 0 THEN InitialState
            ELSE Compress(s[k - 1], SubSeq(padded, (k - 1) * BlockBytes + 1, k * BlockBytes))
    IN  s[Len(padded) \div BlockBytes]

\* RFC 2104: H((K xor opad) H((K xor ipad) m)), long keys hashed first.
KeyedDigest(key, m) ==
    LET k0 == IF Len(key) > BlockBytes THEN Digest(key) ELSE key
        xor(pad) == [i \in 1 .. BlockBytes |->
                        XorByte(IF i <= Len(k0) THEN k0[i] ELSE 0, pad)]
    IN  Digest(xor(OuterPad) \o Digest(xor(InnerPad) \o m))

\* However a message is cut into writes, its digest and its HMAC are those of
\* the whole message.
DigestsAreOfTheWhole ==
    /\ Sha256Finalize(stream) = Digest(written)
    /\ HmacFinalize(hmac) = KeyedDigest(hashKey, written)
=============================================================================
