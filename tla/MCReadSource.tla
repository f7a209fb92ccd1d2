---------------------------- MODULE MCReadSource ----------------------------
(* ReadSource with inputs around every capacity that 4 doubles to, some of  *)
(* them with a NUL in the middle.                                           *)
EXTENDS ReadSource

CONSTANTS c, d

MCInputs ==
  UNION {{[i \in 1 .. n |-> IF i % 3 = 0 THEN d ELSE c],
          [i \in 1 .. n |-> IF i = n \div 2 + 1 THEN NUL ELSE c]} : n \in 0 .. 33}
=============================================================================
