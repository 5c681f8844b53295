------------------------------ MODULE Arithmetic ------------------------------
(***************************************************************************)
(* The arithmetic of secp256k1: field elements, scalars and the powers that *)
(* invert them.  The three share no state, so a behaviour exercises one of *)
(* them, `part', and the other two stand still.                            *)
(***************************************************************************)
EXTENDS FieldElement, ScalarElement, AdditionChains

VARIABLE part

arithmeticVars == <<part, fieldVars, scalarVars, chainVars>>

Idle == [field |-> [ten |-> 0, five |-> 0], scalar |-> 0, chain |-> "fe_inv"]

ArithmeticInit ==
    /\ part \in DOMAIN Idle
    /\ FieldStart(IF part = "field" THEN Inputs ELSE {Idle.field})
    /\ ScalarStart(IF part = "scalar" THEN ScalarInputs ELSE {Idle.scalar})
    /\ ChainStart(IF part = "chain" THEN DOMAIN Chains ELSE {Idle.chain})

ArithmeticNext ==
    \/ part = "field"  /\ FieldNext  /\ UNCHANGED <<part, scalarVars, chainVars>>
    \/ part = "scalar" /\ ScalarNext /\ UNCHANGED <<part, fieldVars, chainVars>>
    \/ part = "chain"  /\ ChainNext  /\ UNCHANGED <<part, fieldVars, scalarVars>>

ArithmeticSpec == ArithmeticInit /\ [][ArithmeticNext]_arithmeticVars

-----------------------------------------------------------------------------
\* Every question the library answers about a field element, in either
\* representation and in the variable-time forms, is answered as its number
\* demands.  Scalars stay below the order, their questions are answered as
\* their numbers demand, and the C and assembler products of both
\* representations agree.  The addition chains reach exactly p-2, (p+1)/4 and
\* n-2, through variables that hold what their names say.
ArithmeticAnswers ==
    /\ part = "field" => AnswersAreAboutTheNumber /\ AnswersAgree5
    /\ part = "scalar" => ScalarAnswers /\ ProductsAgree
    /\ part = "chain" => ChainsAreRight

\* Both representations of the field compute in the integers modulo p, and
\* set_b32 refuses what is not below p.  Both representations of scalars compute
\* what the one-word scalars of the exhaustive tests compute, with the same
\* overflow, sign and low bits.
NumbersAreImplemented == Field!Spec /\ Field5!Spec /\ Low8!Spec /\ Low4!Spec
=============================================================================
