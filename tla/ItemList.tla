------------------------------ MODULE ItemList ------------------------------
(***************************************************************************)
(* What a dynamic array promises its callers: a list.  Items are appended, *)
(* overwritten in place and cut off at the end, and nothing else changes   *)
(* what it holds.                                                          *)
(***************************************************************************)
EXTENDS Naturals, Sequences

CONSTANT Item

VARIABLE list

Init == list = <<>>

Add == \E v \in Item : list' = Append(list, v)

Replace == \E i \in DOMAIN list, v \in Item : list' = [list EXCEPT ![i] = v]

Cut == \E n \in 0 .. Len(list) : list' = SubSeq(list, 1, n)

Next == Add \/ Replace \/ Cut

Spec == Init /\ [][Next]_list
=============================================================================
