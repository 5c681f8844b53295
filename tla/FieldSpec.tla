------------------------------ MODULE FieldSpec ------------------------------
(***************************************************************************)
(* What field.h promises of a field element: a number modulo p, whatever   *)
(* its representation.  A call names its operation, the element r it       *)
(* writes, its operands a and b and its integer k.                         *)
(***************************************************************************)
EXTENDS Integers, Limbs

CONSTANTS p, Regs

VARIABLES val,      \* the number each element stands for
          defined,  \* the elements the last calls left with a meaning
          last      \* the last call

Call(name, r, a, b, k) == [name |-> name, r |-> r, a |-> a, b |-> b, k |-> k]

NoCall == Call("none", CHOOSE r \in Regs : TRUE, CHOOSE r \in Regs : TRUE,
               CHOOSE r \in Regs : TRUE, 0)

\* The number that the call leaves in r.
Outcome(c) ==
    CASE c.name \in {"normalize", "normalize_weak", "normalize_var"} -> val[c.r]
      [] c.name \in {"set_int", "set_b32"} -> c.k % p
      [] c.name = "clear"      -> 0
      [] c.name = "negate"     -> (p - val[c.a]) % p
      [] c.name = "mul_int"    -> MulMod(val[c.r], c.k, p)
      [] c.name = "add"        -> (val[c.r] + val[c.a]) % p
      [] c.name = "mul"        -> MulMod(val[c.a], val[c.b], p)
      [] c.name = "sqr"        -> MulMod(val[c.a], val[c.a], p)
      [] c.name \in {"cmov", "storage_cmov"} ->
            IF c.k = 1 THEN val[c.a] ELSE val[c.r]

Init == /\ val \in [Regs -> 0 .. p - 1]
        /\ defined = Regs
        /\ last = NoCall

\* set_b32 fails on a number that is not below p, and leaves no element.
Next == /\ last'.name # "none"
        /\ val' = [val EXCEPT ![last'.r] = Outcome(last')]
        /\ defined' = IF last'.name = "set_b32" /\ last'.k >= p
                      THEN defined \ {last'.r}
                      ELSE defined \cup {last'.r}

Spec == Init /\ [][Next]_<<val, defined, last>>
=============================================================================
