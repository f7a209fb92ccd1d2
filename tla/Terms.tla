-------------------------------- MODULE Terms --------------------------------
(***************************************************************************)
(* How parser.c brings an expression into its flat form: an operand that   *)
(* is there already adds to the coefficient of its term, and at the end    *)
(* the terms are sorted.                                                   *)
(***************************************************************************)
EXTENDS Ast, SequencesExt

CONSTANT OperandEq(_, _)  \* is_operand_eq

(* The places where terms have an operand that counts as equal to op.       *)
Matches(terms, op) ==
  {i \in DOMAIN terms : OperandEq(terms[i].operand, op)}

(* Mutant: the coefficient has more bits than an int.                       *)
terms_add_operand_Wide(terms, op, sign) ==
  IF Matches(terms, op) = {} THEN Append(terms, Term(sign, op))
  ELSE [terms EXCEPT ![Min(Matches(terms, op))].coefficient = @ + sign]

(* Mutant: the coefficient is set, not added to.                            *)
terms_add_operand_Sets(terms, op, sign) ==
  IF Matches(terms, op) = {} THEN Append(terms, Term(sign, op))
  ELSE [terms EXCEPT ![Min(Matches(terms, op))].coefficient = sign]

terms_add_operand(terms, op, sign) ==
  IF Matches(terms, op) = {} THEN Append(terms, Term(sign, op))
  ELSE [terms EXCEPT ![Min(Matches(terms, op))].coefficient = Wrap(@ + sign)]

(* What qsort may leave: it need not keep equal terms in their order.       *)
optimize_expr(e, declIdx) ==
  {f \in {[e EXCEPT !.terms = [i \in DOMAIN e.terms |-> e.terms[order[i]]]] :
            order \in SetToSeqs(DOMAIN e.terms)} :
     Sorted(f, declIdx)}
=============================================================================
