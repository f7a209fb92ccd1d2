------------------------------ MODULE MCDynArr ------------------------------
(* DynArr with items of three bytes and a 5-bit usize.                      *)
EXTENDS DynArr
=============================================================================
