--------------------------- MODULE AdditionChains ---------------------------
(***************************************************************************)
(* Inverses and square roots are powers, computed by fixed sequences of    *)
(* squarings and multiplications: secp256k1_fe_inv (x^(p-2)),              *)
(* secp256k1_fe_sqrt (x^((p+1)/4)) and secp256k1_scalar_inverse (x^(n-2)). *)
(* Here, at their full 256 bits, a variable of the code is the exponent it *)
(* stands for, an exponent is the set of its one bits.                     *)
(***************************************************************************)
EXTENDS Integers, Sequences

\* Sum of two numbers as sets of bits.
Plus(S, T) ==
    LET add[n \in 0 .. 256] ==
            IF n = 0 THEN [sum |-> S, carry |-> T]
            ELSE LET q == add[n - 1]
                 IN  [sum   |-> (q.sum \cup q.carry) \ (q.sum \cap q.carry),
                      carry |-> {i + 1 : i \in q.sum \cap q.carry}]
    IN  IF S \cap T = {} THEN S \cup T
        ELSE LET n == CHOOSE m \in 0 .. 256 : add[m].carry = {} IN add[n].sum

ShiftedLeft(S, k) == {i + k : i \in S}

\* One step of a chain: to := from squared k times, then times `by'.
Step(to, from, k, by) == [to |-> to, from |-> from, k |-> k, by |-> by]

\* The blocks of ones that both field chains build: xk is x^(2^k - 1).
FeBlocks ==
    << Step("x2", "x", 1, "x"),       Step("x3", "x2", 1, "x"),
       Step("x6", "x3", 3, "x3"),     Step("x9", "x6", 3, "x3"),
       Step("x11", "x9", 2, "x2"),    Step("x22", "x11", 11, "x11"),
       Step("x44", "x22", 22, "x22"), Step("x88", "x44", 44, "x44"),
       Step("x176", "x88", 88, "x88"),
       Step("x220", "x176", 44, "x44"), Step("x223", "x220", 3, "x3") >>

FeSqrt ==
    FeBlocks \o
    << Step("t", "x223", 23, "x22"), Step("t", "t", 6, "x2"), Step("t", "t", 1, "one"),
       Step("r", "t", 1, "one") >>

\* Mutant: one squaring too few before the last multiplication.
FeInvShort ==
    FeBlocks \o
    << Step("t", "x223", 23, "x22"), Step("t", "t", 5, "x"), Step("t", "t", 3, "x2"),
       Step("r", "t", 1, "x") >>

FeInv ==
    FeBlocks \o
    << Step("t", "x223", 23, "x22"), Step("t", "t", 5, "x"), Step("t", "t", 3, "x2"),
       Step("r", "t", 2, "x") >>

\* uk is x^k.
ScalarInverse ==
    << Step("u2", "x", 1, "one"), Step("x2", "u2", 0, "x"), Step("u5", "u2", 0, "x2"),
       Step("x3", "u5", 0, "u2"), Step("u9", "x3", 0, "u2"), Step("u11", "u9", 0, "u2"),
       Step("u13", "u11", 0, "u2"),
       Step("x6", "u13", 2, "u11"),   Step("x8", "x6", 2, "x2"),
       Step("x14", "x8", 6, "x6"),    Step("x28", "x14", 14, "x14"),
       Step("x56", "x28", 28, "x28"), Step("x112", "x56", 56, "x56"),
       Step("x126", "x112", 14, "x14"),
       Step("t", "x126", 3, "u5") >> \o
    LET windows == << <<4, "x3">>, <<4, "u5">>, <<5, "u11">>, <<4, "u11">>, <<4, "x3">>,
                      <<5, "x3">>, <<6, "u13">>, <<4, "u5">>, <<3, "x3">>, <<5, "u9">>,
                      <<6, "u5">>, <<10, "x3">>, <<4, "x3">>, <<9, "x8">>, <<5, "u9">>,
                      <<6, "u11">>, <<4, "u13">>, <<5, "x2">>, <<6, "u13">>,
                      <<10, "u13">>, <<4, "u9">>, <<6, "x">>, <<8, "x6">> >>
    IN  [i \in 1 .. Len(windows) |->
            Step(IF i = Len(windows) THEN "r" ELSE "t", "t", windows[i][1], windows[i][2])]

Chains == [fe_sqrt |-> FeSqrt, fe_inv |-> FeInv, scalar_inverse |-> ScalarInverse]

-----------------------------------------------------------------------------
\* The exponents the chains are for.  A number 2^256 - c has the bits that
\* c - 1 has not.
BelowPower(S) == (0 .. 255) \ S
BitsOf(v)     == {i \in 0 .. 29 : (v \div 2^i) % 2 = 1}

\* p = 2^256 - 2^32 - 977
PMinus2     == BelowPower({32} \cup BitsOf(977 + 1))
PPlus1Over4 == {i - 2 : i \in BelowPower({32} \cup BitsOf(977 - 2)) \ {0, 1}}

\* The words SECP256K1_N_0 .. N_7 of the order, in halves of 16 bits.
OrderHalves ==
    << \h4141, \hD036, \h5E8C, \hBFD2, \hA03B, \hAF48, \hDCE6, \hBAAE,
       \hFFFE, \hFFFF, \hFFFF, \hFFFF, \hFFFF, \hFFFF, \hFFFF, \hFFFF >>
NMinus2 ==
    UNION {ShiftedLeft(BitsOf(OrderHalves[i] - (IF i = 1 THEN 2 ELSE 0)), 16 * (i - 1)) :
              i \in 1 .. 16}

Target == [fe_sqrt |-> PPlus1Over4, fe_inv |-> PMinus2, scalar_inverse |-> NMinus2]

VARIABLES chain,    \* the function that runs
          pc,       \* the steps it has done
          power     \* the exponent each of its variables holds

chainVars == <<chain, pc, power>>

\* One of the functions `fs' is called.
ChainStart(fs) ==
    /\ chain \in fs
    /\ pc = 0
    /\ power = [x |-> {0}, one |-> {}]

ChainInit == ChainStart(DOMAIN Chains)

ChainStep ==
    /\ pc < Len(Chains[chain])
    /\ LET s == Chains[chain][pc + 1]
           e == Plus(ShiftedLeft(power[s.from], s.k), power[s.by])
       IN  power' = [v \in DOMAIN power \cup {s.to} |-> IF v = s.to THEN e ELSE power[v]]
    /\ pc' = pc + 1
    /\ UNCHANGED chain

ChainNext == ChainStep

Blocks == [x2 |-> 2, x3 |-> 3, x6 |-> 6, x8 |-> 8, x9 |-> 9, x11 |-> 11, x14 |-> 14,
           x22 |-> 22, x28 |-> 28, x44 |-> 44, x56 |-> 56, x88 |-> 88, x112 |-> 112,
           x126 |-> 126, x176 |-> 176, x220 |-> 220, x223 |-> 223]

\* Every intermediate power is the one its name says, and when a chain is
\* done its result is the exponent that inverts, or takes the root.
ChainsAreRight ==
    /\ \A v \in DOMAIN power \cap DOMAIN Blocks : power[v] = 0 .. Blocks[v] - 1
    /\ pc = Len(Chains[chain]) => power["r"] = Target[chain]
=============================================================================
