----------------------------- MODULE MCStrPool ------------------------------
(* StrPool with texts that are prefixes of each other, differ in the last   *)
(* character only, are empty (the lexer interns that for a _), fill the     *)
(* memory pool exactly or are longer than it.                               *)
EXTENDS StrPool

CONSTANTS c1, c2

MCTexts ==
  {<<>>, <<c1>>, <<c1, c2>>, <<c1, c1>>, <<c1, c2, c1>>,
   <<c1, c2, c1, c2, c1, c2, c1, c1>>}
=============================================================================
