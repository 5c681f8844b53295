--------------------------------- MODULE Hash ---------------------------------
(***************************************************************************)
(* hash_impl.h: SHA-256 as a stream of bytes, the HMAC built on it, and    *)
(* the generator of RFC 6979 from which nonces and blinding values come.   *)
(* In the code a block has 64 bytes, a digest 32, the length at the end of *)
(* the padding 8, and a byte 8 bits.                                       *)
(*                                                                         *)
(* The 64 rounds over a block are the constant Compress: the modules say   *)
(* what is hashed and in which order, for any such function.               *)
(***************************************************************************)
EXTENDS Integers, Sequences, FiniteSetsExt

CONSTANTS BlockBytes, DigestBytes, LengthBytes, ByteBits,
          InitialState,         \* the eight words of s
          Compress(_, _),       \* state and block to state
          InnerPad, OuterPad    \* 0x36 and 0x5c

\* Powers of two are what they are: the provers know none of their laws.
PowersOfTwo(k) == \A i \in 0 .. k : 2^i \in Nat \ {0} /\ 2^(i + 1) = 2 * 2^i

Byte    == 0 .. 2^ByteBits - 1
Digests == [1 .. DigestBytes -> Byte]

\* The state of the hash is a digest, and compressing a block makes another.
ASSUME HashAssumption ==
    /\ BlockBytes \in Nat \ {0} /\ ByteBits \in Nat \ {0}
    /\ DigestBytes \in 0 .. BlockBytes /\ LengthBytes \in 0 .. BlockBytes
    /\ InnerPad \in Byte /\ OuterPad \in Byte
    /\ InitialState \in Digests
    /\ \A s \in Digests, b \in [1 .. BlockBytes -> Byte] : Compress(s, b) \in Digests
    /\ PowersOfTwo(ByteBits * BlockBytes)

Repeat(x, k) == [i \in 1 .. k |-> x]

\* The bytes of a number, most significant first.
BytesOf(x, k) == [i \in 1 .. k |-> (x \div 2^(ByteBits * (k - i))) % 2^ByteBits]

NumberOf(b) ==
    MapThenSumSet(LAMBDA i : b[i] * 2^(ByteBits * (Len(b) - i)), DOMAIN b)

\* The lowest k bits, one by one.
XorBits[k \in 0 .. ByteBits] ==
    [a \in Nat |-> [b \in Nat |->
        IF k = 0 THEN 0
        ELSE 2 * XorBits[k - 1][a \div 2][b \div 2] + ((a + b) % 2)]]

XorByte(a, b) == XorBits[ByteBits][a][b]

Sha256Transform(s, chunk) == Compress(s, chunk)

Sha256Initialize == [s |-> InitialState, buf |-> <<>>, bytes |-> 0]

\* Blocks are processed as they fill up; `buf' keeps what is left, its length
\* is what the code takes from `bytes'.
Absorb(hash, all, count) ==
    LET full == Len(all) \div BlockBytes
        s[k \in 0 .. full] ==
            IF k = 0 THEN hash.s
            ELSE Sha256Transform(s[k - 1],
                                 SubSeq(all, (k - 1) * BlockBytes + 1, k * BlockBytes))
    IN  [s |-> s[full], buf |-> SubSeq(all, full * BlockBytes + 1, Len(all)),
         bytes |-> hash.bytes + count]

Sha256Write(hash, data) == Absorb(hash, hash.buf \o data, Len(data))

\* Mutant: no second block when the length does not fit into this one.
PadLengthShort(bytes) == 1 + ((BlockBytes - LengthBytes - (bytes % BlockBytes)) % BlockBytes)

\* A one bit and zeros up to where the length ends a block.
PadLength(bytes) ==
    1 + ((2 * BlockBytes - 1 - LengthBytes - (bytes % BlockBytes)) % BlockBytes)

Sha256Finalize(hash) ==
    LET pad == <<2^(ByteBits - 1)>> \o Repeat(0, PadLength(hash.bytes) - 1)
        length == BytesOf(hash.bytes * ByteBits, LengthBytes)
    IN  Sha256Write(Sha256Write(hash, pad), length).s

-----------------------------------------------------------------------------
\* The inner pad is xored over the outer one.
PaddedKey(outer) ==
    [outer |-> Sha256Write(Sha256Initialize, outer),
     inner |-> Sha256Write(Sha256Initialize,
                  [i \in 1 .. BlockBytes |-> XorByte(outer[i], XorByte(OuterPad, InnerPad))])]

BlockKey(rkey) == PaddedKey([i \in 1 .. BlockBytes |-> XorByte(rkey[i], OuterPad)])

\* A key longer than a block is hashed first.
HmacInitialize(key) ==
    BlockKey(IF Len(key) > BlockBytes
             THEN Sha256Finalize(Sha256Write(Sha256Initialize, key))
                  \o Repeat(0, BlockBytes - DigestBytes)
             ELSE key \o Repeat(0, BlockBytes - Len(key)))

HmacWrite(hash, data) == [hash EXCEPT !.inner = Sha256Write(@, data)]

HmacFinalize(hash) == Sha256Finalize(Sha256Write(hash.outer, Sha256Finalize(hash.inner)))

\* The calls that always come together.
Hmac(key, data) == HmacFinalize(HmacWrite(HmacInitialize(key), data))

-----------------------------------------------------------------------------
\* k, and v replaced under it.
Keyed(k, v, retry) == [k |-> k, v |-> Hmac(k, v), retry |-> retry]

\* k is replaced, then v under the new k.
Stir(rng, more) == Keyed(Hmac(rng.k, rng.v \o more), rng.v, rng.retry)

Rfc6979Initialize(key) ==
    LET rounds[i \in 0 .. 2] ==
            IF i = 0 THEN [k |-> Repeat(0, DigestBytes), v |-> Repeat(1, DigestBytes),
                           retry |-> FALSE]
            ELSE Stir(rounds[i - 1], <<i - 1>> \o key)
    IN  rounds[2]

\* One digest of output, which is also the next v; from the second on, k and v
\* are stirred first.
Generated(rng) == Keyed(rng.k, rng.v, TRUE)

Rfc6979Generate(rng) == Generated(IF rng.retry THEN Stir(rng, <<0>>) ELSE rng)

\* The output of the i-th call.
Rfc6979Output(key, i) ==
    LET g[j \in 1 .. i] ==
            Rfc6979Generate(IF j = 1 THEN Rfc6979Initialize(key) ELSE g[j - 1])
    IN  g[i].v
=============================================================================
