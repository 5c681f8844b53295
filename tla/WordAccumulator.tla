--------------------------- MODULE WordAccumulator ---------------------------
(***************************************************************************)
(* The three-word accumulator (c0, c1, c2) of the scalar arithmetic: the   *)
(* macros muladd, muladd2, sumadd and extract of scalar_8x32_impl.h.  Every *)
(* word wraps at 2^W and the carries are found the way the code finds      *)
(* them, by comparing a wrapped sum with what was added.                   *)
(***************************************************************************)
EXTENDS Integers, SequencesExt

CONSTANT W

Base    == 2^W
Wrap(x) == x % Base

Carry(sum, added) == IF sum < added THEN 1 ELSE 0

Empty == [c0 |-> 0, c1 |-> 0, c2 |-> 0]

\* The high word th of a product goes to c1, its carry to c2.
HighAdded(s, c0, c1, th) == [c0 |-> c0, c1 |-> c1, c2 |-> Wrap(s.c2 + Carry(c1, th))]

LowAdded(s, c0, th) == HighAdded(s, c0, Wrap(s.c1 + th), th)

\* muladd(x, y); sumadd(x) is muladd(x, 1).
MulAdd(s, x, y) ==
    LET tl == (x * y) % Base
    IN  LowAdded(s, Wrap(s.c0 + tl),
                 Wrap(((x * y) \div Base) + Carry(Wrap(s.c0 + tl), tl)))

\* The fast forms do not carry into c2.
MulAddFast(s, x, y) == [MulAdd(s, x, y) EXCEPT !.c2 = s.c2]

\* muladd2 doubles the product word by word before it adds it.
DoubleAdded(s, carry, tl2, c0, th2) ==
    LET c1 == Wrap(s.c1 + th2)
    IN  [c0 |-> c0, c1 |-> c1,
         c2 |-> Wrap(s.c2 + carry
                     + (IF c0 < tl2 /\ th2 = 0 THEN 1 ELSE 0) + Carry(c1, th2))]

WordsDoubled(s, tl, th, tl2, d) ==
    LET c0 == Wrap(s.c0 + tl2)
    IN  DoubleAdded(s, Carry(d, th), tl2, c0,
                    Wrap(Wrap(d + Carry(tl2, tl)) + Carry(c0, tl2)))

MulAdd2(s, x, y) ==
    LET tl == (x * y) % Base
        th == (x * y) \div Base
    IN  WordsDoubled(s, tl, th, Wrap(tl + tl), Wrap(th + th))

\* extract: the low word leaves, the others move down.
Extracted(s) == [c0 |-> s.c1, c1 |-> s.c2, c2 |-> 0]

\* A term of a column: the macro and its arguments.
Product(x, y)     == [op |-> "muladd", x |-> x, y |-> y]
ProductFast(x, y) == [op |-> "muladd_fast", x |-> x, y |-> y]
ProductTwice(x, y) == [op |-> "muladd2", x |-> x, y |-> y]

Accumulate(s, t) ==
    CASE t.op = "muladd"      -> MulAdd(s, t.x, t.y)
      [] t.op = "muladd_fast" -> MulAddFast(s, t.x, t.y)
      [] t.op = "muladd2"     -> MulAdd2(s, t.x, t.y)

\* The assembler of scalar_4x64_impl.h adds the two words of a product with
\* addq, adcq, adcq $0; its registers change their roles at each extraction.
WithCarries(s, a, b) ==
    [c0 |-> Wrap(a), c1 |-> Wrap(b), c2 |-> Wrap(s.c2 + (b \div Base))]

AddCarry(s, x, y) ==
    LET a == s.c0 + ((x * y) % Base)
    IN  WithCarries(s, a, s.c1 + ((x * y) \div Base) + (a \div Base))

\* Where only two registers are added to, the last carry is lost.
AddTwo(s, x, y) == [AddCarry(s, x, y) EXCEPT !.c2 = s.c2]

AsmAccumulate(s, t) ==
    CASE t.op = "muladd"      -> AddCarry(s, t.x, t.y)
      [] t.op = "muladd_fast" -> AddTwo(s, t.x, t.y)
      [] t.op = "muladd2"     -> AddCarry(AddCarry(s, t.x, t.y), t.x, t.y)

\* Columns 0 .. len-1, each the sequence terms[k], added in C or in
\* assembler and extracted: the words, and the low word that is left over.
Added(s, terms, code) ==
    FoldLeft(LAMBDA a, t : IF code = "asm" THEN AsmAccumulate(a, t) ELSE Accumulate(a, t),
             s, terms)

Extract(words, sum) == [words |-> Append(words, sum.c0), s |-> Extracted(sum)]

Column(prev, terms, code) == Extract(prev.words, Added(prev.s, terms, code))

WordsOf(end, len) ==
    [words |-> [k \in 0 .. len - 1 |-> end.words[k + 1]], rest |-> end.s.c0]

Columns(terms, len, code) ==
    LET run[k \in 0 .. len] ==
            IF k = 0 THEN [words |-> <<>>, s |-> Empty]
                     ELSE Column(run[k - 1], terms[k - 1], code)
    IN  WordsOf(run[len], len)
=============================================================================
