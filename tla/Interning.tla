----------------------------- MODULE Interning ------------------------------
(***************************************************************************)
(* What the lexer and the parser count on when they compare names by their *)
(* pointers (operand_finder does): a text has one pointer, no two texts    *)
(* have the same, and both stay so until the pool is released.             *)
(***************************************************************************)
EXTENDS Functions

CONSTANTS Text, Pointer

VARIABLES
  known,   \* the pointer of each text interned so far
  answer,  \* the text asked for last and its pointer, or nothing
  open     \* the pool has not been released

Init == known = <<>> /\ answer = <<>> /\ open = TRUE

Again(t) ==
  /\ open
  /\ t \in DOMAIN known
  /\ answer' = <<t, known[t]>>
  /\ UNCHANGED <<known, open>>

New(t) ==
  /\ open
  /\ t \notin DOMAIN known
  /\ t \in DOMAIN known'
  /\ known' = [u \in DOMAIN known \cup {t} |-> IF u = t THEN known'[t] ELSE known[u]]
  /\ known'[t] \in Pointer \ Range(known)
  /\ answer' = <<t, known'[t]>>
  /\ UNCHANGED open

Release == open /\ open' = FALSE /\ known' = <<>> /\ answer' = <<>>

Next == (\E t \in Text : Again(t) \/ New(t)) \/ Release

Spec == Init /\ [][Next]_<<known, answer, open>>
=============================================================================
