------------------------------- MODULE DynArr -------------------------------
(***************************************************************************)
(* The dynamic array of utils.h and utils.c with the operations its        *)
(* callers use: appending an item and writing it, writing an item that is  *)
(* there, and lowering the count (codegen.c does, when it fuses            *)
(* instructions).  Sizes and counts are usize, an unsigned 32-bit int.     *)
(***************************************************************************)
EXTENDS Integers, Sequences

CONSTANTS
  Item,          \* what is stored
  Garbage,       \* what memory holds before it is written
  ItemSize,      \* item_size, in bytes
  InitCapacity,  \* the capacity given to da_init
  Usize          \* usize is 0 .. Usize-1 (2^32)

ASSUME ItemAssumption == Garbage \notin Item

(* Every item type of the program has two bytes or more, and what da_init   *)
(* asks for is less than usize holds.                                       *)
ASSUME SizeAssumption ==
  /\ ItemSize \in Nat /\ ItemSize >= 2
  /\ InitCapacity \in Nat \ {0}
  /\ Usize \in Nat
  /\ InitCapacity * ItemSize < Usize

VARIABLES
  items,      \* dyn_arr->items, numbered from 0
  item_cnts,  \* dyn_arr->item_cnts
  capacity,   \* dyn_arr->capacity
  status      \* "live", "freed", "no_memory" (realloc failed) or
              \* "undefined" (an item outside the allocation was written)

vars == <<items, item_cnts, capacity, status>>

-----------------------------------------------------------------------------
(* Products of usizes are usizes.                                           *)
Bytes(n) == (n * ItemSize) % Usize

(* Item i lies inside the memory allocated for a capacity.                  *)
Allocated(i, cap) == Bytes(i) + ItemSize <= Bytes(cap)

(* Mutant: the array grows one item too late.                               *)
Full_Late == item_cnts > capacity

Full == item_cnts >= capacity

(* Mutant: the old items are not copied.                                    *)
Realloc_Fresh(cap) == [i \in 0 .. (cap - 1) |-> Garbage]

Realloc(cap) ==
  [i \in 0 .. (cap - 1) |-> IF i \in DOMAIN items THEN items[i] ELSE Garbage]

Extended == (capacity * 2) % Usize

da_init ==
  /\ items = [i \in 0 .. (InitCapacity - 1) |-> Garbage]
  /\ item_cnts = 0
  /\ capacity = InitCapacity
  /\ status = "live"

Init == da_init

(* The item goes where da_try_push_back says.                               *)
Write(v) ==
  \/ /\ Allocated(item_cnts, capacity')
     /\ items' = [Realloc(capacity') EXCEPT ![item_cnts] = v]
     /\ UNCHANGED status
  \/ /\ ~Allocated(item_cnts, capacity')
     /\ status' = "undefined"
     /\ UNCHANGED items

da_try_push_back(v) ==
  /\ status = "live"
  /\ capacity' = IF Full THEN Extended ELSE capacity
  /\ item_cnts' = (item_cnts + 1) % Usize
  /\ Write(v)

(* realloc yields NULL; nobody looks.                                       *)
NoMemory ==
  /\ status = "live" /\ Full
  /\ status' = "no_memory"
  /\ UNCHANGED <<items, item_cnts, capacity>>

(* Through the pointer da_get returns.                                      *)
Set(i, v) ==
  /\ status = "live"
  /\ i < item_cnts
  /\ items' = [items EXCEPT ![i] = v]
  /\ UNCHANGED <<item_cnts, capacity, status>>

(* Mutant: more items are dropped than there are, and usize wraps.          *)
Shrink_Unguarded(k) ==
  /\ status = "live"
  /\ item_cnts' = item_cnts - k
  /\ UNCHANGED <<items, capacity, status>>

(* item_cnts -= k, in gen_store_operand.                                    *)
Shrink(k) ==
  /\ status = "live"
  /\ k <= item_cnts
  /\ item_cnts' = item_cnts - k
  /\ UNCHANGED <<items, capacity, status>>

da_free ==
  /\ status = "live"
  /\ status' = "freed"
  /\ UNCHANGED <<items, item_cnts, capacity>>

Next ==
  \/ \E v \in Item : da_try_push_back(v)
  \/ \E i \in DOMAIN items, v \in Item : Set(i, v)
  \/ \E k \in {1, 2} : Shrink(k)
  \/ NoMemory
  \/ da_free

Spec == Init /\ [][Next]_vars

-----------------------------------------------------------------------------
(* The count and the capacity are usizes, and there is an item for every    *)
(* index below the capacity.                                                *)
TypeOK ==
  /\ item_cnts \in 0 .. (Usize - 1)
  /\ capacity \in 0 .. (Usize - 1)
  /\ status \in {"live", "freed", "no_memory", "undefined"}
  /\ status # "undefined" => items \in [0 .. (capacity - 1) -> Item \cup {Garbage}]

(* "Index shouldn't exceed it" and "How many items should allocate", as the *)
(* fields item_cnts and capacity of utils.h say: there is always room for   *)
(* what is counted.                                                         *)
RoomForItems == item_cnts <= capacity

(* An item lands outside the allocation only when doubling the capacity     *)
(* asks for more bytes than a usize can hold.                               *)
UndefinedOnlyAtUsize ==
  status = "undefined" => 2 * (item_cnts - 1) * ItemSize >= Usize

(* Growing, shrinking and writing in place, the array is a list: items      *)
(* survive every reallocation at their index.  The item that was to be      *)
(* written when it got undefined does not count.                            *)
Count == IF status = "undefined" THEN item_cnts - 1 ELSE item_cnts
Contents == [i \in 1 .. Count |-> items[i - 1]]
L == INSTANCE ItemList WITH list <- Contents
ImplementsList == L!Spec
=============================================================================
