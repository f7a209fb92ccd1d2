---------------------------- MODULE DynArrProofs ----------------------------
(***************************************************************************)
(* For every item type, item size, first capacity and width of usize, the  *)
(* dynamic array has room for what it counts, and it is a list.            *)
(***************************************************************************)
EXTENDS DynArr, SequenceTheorems, TLAPS

(* The type of items tells nothing about what is below the count, and that  *)
(* doubling makes room needs a capacity that is not 0 and whose bytes a     *)
(* usize can hold.                                                          *)
CapacityFits ==
  status # "undefined" => capacity >= 1 /\ capacity * ItemSize < Usize

ItemsBelow ==
  /\ Count \in Nat
  /\ \A i \in 0 .. (Count - 1) : i \in DOMAIN items /\ items[i] \in Item

Inv == TypeOK /\ RoomForItems /\ UndefinedOnlyAtUsize /\ CapacityFits /\ ItemsBelow

-----------------------------------------------------------------------------
(* A number below Usize is itself as a usize, one below twice of it loses   *)
(* Usize.                                                                   *)
LEMMA Small == ASSUME NEW n \in Nat, n < Usize PROVE n % Usize = n
  BY SizeAssumption

LEMMA Wrapped ==
  ASSUME NEW n \in Nat, Usize <= n, n < 2 * Usize PROVE n % Usize = n - Usize
  BY SizeAssumption

LEMMA Doubled ==
  ASSUME NEW n \in Nat PROVE (n * 2) * ItemSize = 2 * (n * ItemSize)
  BY SizeAssumption

(* An array of n items takes at least twice as many bytes.                  *)
LEMMA TwoBytes ==
  ASSUME NEW n \in Nat, n >= 1
  PROVE  n * ItemSize \in Nat /\ n * ItemSize >= 2 * n /\ n * ItemSize >= ItemSize
  BY SizeAssumption

(* Between two counts lies a whole item.                                    *)
LEMMA Below ==
  ASSUME NEW m \in Nat, NEW n \in Nat, m < n
  PROVE  m * ItemSize + ItemSize <= n * ItemSize
  <1>1. n >= m + 1
    OBVIOUS
  <1>2. (m + 1) * ItemSize = m * ItemSize + ItemSize
    BY SizeAssumption
  <1>3. \A d \in Nat : (m + 1 + d) * ItemSize >= (m + 1) * ItemSize
    BY SizeAssumption
  <1>4. PICK d \in Nat : n = m + 1 + d
    <2>1. n - (m + 1) \in Nat /\ n = m + 1 + (n - (m + 1))
      BY <1>1
    <2>2. QED
      BY <2>1
  <1>5. QED
    BY <1>2, <1>3, <1>4, SizeAssumption

(* What is below a count lies inside a greater capacity.                    *)
LEMMA Indexed ==
  ASSUME NEW n \in Nat, NEW cap \in Nat, n < cap, NEW i \in 0 .. n
  PROVE  i \in 0 .. (cap - 1)
  OBVIOUS

-----------------------------------------------------------------------------
(* The bytes of a capacity that fits, and the items it has room for.        *)
LEMMA RoomWhenFits ==
  ASSUME NEW cap \in Nat, cap * ItemSize < Usize, NEW i \in Nat, i < cap
  PROVE  Allocated(i, cap)
  <1>1. cap * ItemSize \in Nat /\ i * ItemSize \in Nat
    BY SizeAssumption
  <1>2. i * ItemSize + ItemSize <= cap * ItemSize
    BY Below
  <1>3. Bytes(cap) = cap * ItemSize
    BY <1>1, Small DEF Bytes
  <1>4. Bytes(i) = i * ItemSize
    <2>1. i * ItemSize < Usize
      BY <1>1, <1>2, SizeAssumption
    <2>2. QED
      BY <1>1, <2>1, Small DEF Bytes
  <1>5. QED
    BY <1>2, <1>3, <1>4 DEF Allocated

(* A full array whose doubled capacity fits has room for one more item.     *)
LEMMA Grown ==
  ASSUME NEW cap \in Nat, cap >= 1, cap * ItemSize < Usize
  PROVE  /\ (cap * 2) % Usize = cap * 2
         /\ 2 * (cap * ItemSize) < Usize =>
              Allocated(cap, cap * 2) /\ (cap * 2) * ItemSize < Usize
         /\ 2 * (cap * ItemSize) >= Usize => ~Allocated(cap, cap * 2)
  <1> DEFINE bytes == cap * ItemSize
  <1>1. bytes \in Nat /\ bytes >= 2 * cap /\ bytes >= ItemSize
    BY TwoBytes
  <1>2. (cap * 2) * ItemSize = 2 * bytes
    BY Doubled
  <1>3. (cap * 2) % Usize = cap * 2
    <2>1. cap * 2 \in Nat /\ cap * 2 < Usize
      BY <1>1, SizeAssumption
    <2>2. QED
      BY <2>1, Small
  <1>4. ASSUME 2 * bytes < Usize
        PROVE  Allocated(cap, cap * 2) /\ (cap * 2) * ItemSize < Usize
    BY <1>2, <1>4, RoomWhenFits
  <1>5. ASSUME 2 * bytes >= Usize PROVE ~Allocated(cap, cap * 2)
    <2>1. Bytes(cap) = bytes
      BY <1>1, Small DEF Bytes
    <2>2. Bytes(cap * 2) = 2 * bytes - Usize
      BY <1>1, <1>2, <1>5, Wrapped, SizeAssumption DEF Bytes
    <2>3. QED
      BY <1>1, <2>1, <2>2, SizeAssumption DEF Allocated
  <1>6. QED
    BY <1>3, <1>4, <1>5

-----------------------------------------------------------------------------
LEMMA InitInv == Init => Inv
  <1> SUFFICES ASSUME Init PROVE Inv
    OBVIOUS
  <1>1. InitCapacity < Usize
    BY TwoBytes, SizeAssumption
  <1>2. TypeOK
    BY <1>1, SizeAssumption DEF Init, da_init, TypeOK
  <1>3. RoomForItems /\ UndefinedOnlyAtUsize /\ CapacityFits /\ ItemsBelow
    BY SizeAssumption DEF Init, da_init, RoomForItems, UndefinedOnlyAtUsize,
                          CapacityFits, ItemsBelow, Count
  <1>4. QED
    BY <1>2, <1>3 DEF Inv

(* What the invariant says while the array is in use.                       *)
LEMMA Live ==
  ASSUME Inv, status # "undefined"
  PROVE  /\ item_cnts \in Nat /\ capacity \in Nat
         /\ item_cnts <= capacity /\ capacity >= 1 /\ capacity < Usize
         /\ capacity * ItemSize < Usize
         /\ items \in [0 .. (capacity - 1) -> Item \cup {Garbage}]
         /\ Count = item_cnts
         /\ \A i \in 0 .. (item_cnts - 1) : items[i] \in Item
  BY SizeAssumption DEF Inv, TypeOK, RoomForItems, CapacityFits, ItemsBelow, Count

(* Appending: either the item is written, where there is room for it, or    *)
(* the bytes of the doubled capacity were too many.                         *)
LEMMA Appending ==
  ASSUME Inv, NEW v \in Item, da_try_push_back(v)
  PROVE  /\ item_cnts' = item_cnts + 1
         /\ capacity' \in Nat /\ capacity' < Usize /\ item_cnts' <= capacity'
         /\ \/ /\ status' = "live"
               /\ capacity' * ItemSize < Usize
               /\ items' = [Realloc(capacity') EXCEPT ![item_cnts] = v]
            \/ /\ status' = "undefined"
               /\ 2 * (item_cnts * ItemSize) >= Usize
               /\ items' = items
  <1>1. status = "live"
    BY DEF da_try_push_back
  <1>2. /\ item_cnts \in Nat /\ capacity \in Nat
        /\ item_cnts <= capacity /\ capacity >= 1 /\ capacity < Usize
        /\ capacity * ItemSize < Usize
    BY <1>1, Live
  <1>3. item_cnts' = item_cnts + 1
    <2>1. item_cnts + 1 < Usize
      BY <1>2, TwoBytes, SizeAssumption
    <2>2. QED
      BY <1>2, <2>1, Small DEF da_try_push_back
  <1>4. CASE Full
    <2>1. item_cnts = capacity
      BY <1>2, <1>4 DEF Full
    <2>2. capacity' = capacity * 2
      BY <1>2, <1>4, Grown DEF da_try_push_back, Extended
    <2>3. capacity' \in Nat /\ item_cnts' <= capacity'
      BY <1>2, <1>3, <2>1, <2>2
    <2>4. capacity' < Usize
      BY <1>2, <2>2, TwoBytes, SizeAssumption
    <2>5. capacity * ItemSize \in Nat
      BY <1>2, TwoBytes
    <2>6. CASE 2 * (capacity * ItemSize) < Usize
      <3>1. Allocated(item_cnts, capacity') /\ capacity' * ItemSize < Usize
        BY <1>2, <2>1, <2>2, <2>6, Grown
      <3>2. QED
        BY <1>1, <1>3, <2>3, <2>4, <3>1 DEF da_try_push_back, Write
    <2>7. CASE 2 * (capacity * ItemSize) >= Usize
      <3>1. ~Allocated(item_cnts, capacity')
        BY <1>2, <2>1, <2>2, <2>7, Grown
      <3>2. QED
        BY <1>3, <2>1, <2>3, <2>4, <2>7, <3>1 DEF da_try_push_back, Write
    <2>8. QED
      BY <2>5, <2>6, <2>7, SizeAssumption
  <1>5. CASE ~Full
    <2>1. item_cnts < capacity
      BY <1>2, <1>5 DEF Full
    <2>2. capacity' = capacity
      BY <1>5 DEF da_try_push_back
    <2>3. Allocated(item_cnts, capacity')
      BY <1>2, <2>1, <2>2, RoomWhenFits
    <2>4. QED
      BY <1>1, <1>2, <1>3, <2>1, <2>2, <2>3 DEF da_try_push_back, Write
  <1>6. QED
    BY <1>4, <1>5

LEMMA PushInv == ASSUME Inv, NEW v \in Item, da_try_push_back(v) PROVE Inv'
  <1>1. status = "live"
    BY DEF da_try_push_back
  <1>2. /\ item_cnts \in Nat /\ capacity \in Nat
        /\ items \in [0 .. (capacity - 1) -> Item \cup {Garbage}]
        /\ Count = item_cnts
        /\ item_cnts <= capacity
        /\ \A i \in 0 .. (item_cnts - 1) : items[i] \in Item
    BY <1>1, Live
  <1>3. item_cnts' \in 0 .. (Usize - 1) /\ capacity' \in 0 .. (Usize - 1)
    BY <1>2, Appending, SizeAssumption
  <1>4. RoomForItems'
    BY Appending DEF RoomForItems
  <1>5. CASE /\ status' = "live"
             /\ capacity' * ItemSize < Usize
             /\ items' = [Realloc(capacity') EXCEPT ![item_cnts] = v]
    <2>1. Realloc(capacity') \in [0 .. (capacity' - 1) -> Item \cup {Garbage}]
      BY <1>2 DEF Realloc
    <2>2. items' \in [0 .. (capacity' - 1) -> Item \cup {Garbage}]
      BY <1>5, <2>1
    <2>3. TypeOK'
      BY <1>3, <1>5, <2>2 DEF TypeOK
    <2>4. CapacityFits'
      BY <1>2, <1>5, Appending DEF CapacityFits
    <2>5. Count' = item_cnts + 1
      BY <1>5, Appending DEF Count
    <2>6. item_cnts \in 0 .. (capacity' - 1)
      BY <1>2, Appending
    <2>7. ASSUME NEW i \in 0 .. item_cnts
          PROVE  i \in DOMAIN items' /\ items'[i] \in Item
      <3>0. item_cnts \in Nat /\ capacity' \in Nat /\ item_cnts < capacity'
        BY <1>2, Appending
      <3>1. i \in 0 .. (capacity' - 1)
        BY <3>0, Indexed
      <3>2. CASE i = item_cnts
        BY <1>5, <2>1, <2>2, <2>6, <3>2
      <3>3. CASE i # item_cnts
        <4>1. i \in 0 .. (item_cnts - 1) /\ i \in 0 .. (capacity - 1)
          BY <1>2, <3>3
        <4>2. Realloc(capacity')[i] = items[i]
          BY <1>2, <3>1, <4>1 DEF Realloc
        <4>3. items'[i] = items[i]
          BY <1>5, <2>1, <2>6, <3>1, <3>3, <4>2
        <4>4. QED
          BY <1>2, <2>2, <3>1, <4>1, <4>3
      <3>4. QED
        BY <3>2, <3>3
    <2>8. ItemsBelow'
      BY <1>2, <2>5, <2>7 DEF ItemsBelow
    <2>9. UndefinedOnlyAtUsize'
      BY <1>5 DEF UndefinedOnlyAtUsize
    <2>10. QED
      BY <1>4, <2>3, <2>4, <2>8, <2>9 DEF Inv
  <1>6. CASE /\ status' = "undefined"
             /\ 2 * (item_cnts * ItemSize) >= Usize
             /\ items' = items
    <2>1. item_cnts' - 1 = item_cnts
      BY <1>2, Appending
    <2>2. Count' = item_cnts
      BY <1>6, <2>1 DEF Count
    <2>3. TypeOK' /\ CapacityFits'
      BY <1>3, <1>6 DEF TypeOK, CapacityFits
    <2>4. 2 * item_cnts * ItemSize >= Usize
      BY <1>2, <1>6, SizeAssumption
    <2>5. UndefinedOnlyAtUsize'
      BY <2>1, <2>4 DEF UndefinedOnlyAtUsize
    <2>6. ItemsBelow'
      BY <1>2, <1>6, <2>2 DEF ItemsBelow
    <2>7. QED
      BY <1>4, <2>3, <2>5, <2>6 DEF Inv
  <1>7. QED
    BY <1>5, <1>6, Appending

LEMMA SetInv ==
  ASSUME Inv, NEW i \in DOMAIN items, NEW v \in Item, Set(i, v) PROVE Inv'
  <1>1. status = "live" /\ status' = "live" /\ item_cnts' = item_cnts
        /\ capacity' = capacity /\ items' = [items EXCEPT ![i] = v]
    BY DEF Set
  <1>2. items' \in [0 .. (capacity - 1) -> Item \cup {Garbage}]
    BY <1>1, Live
  <1>3. TypeOK'
    BY <1>1, <1>2 DEF Inv, TypeOK
  <1>4. RoomForItems' /\ UndefinedOnlyAtUsize' /\ CapacityFits'
    BY <1>1 DEF Inv, RoomForItems, UndefinedOnlyAtUsize, CapacityFits
  <1>5. ItemsBelow'
    BY <1>1, <1>2, Live DEF Inv, ItemsBelow, Count
  <1>6. QED
    BY <1>3, <1>4, <1>5 DEF Inv

LEMMA ShrinkInv == ASSUME Inv, NEW k \in {1, 2}, Shrink(k) PROVE Inv'
  <1>1. status = "live" /\ status' = "live" /\ item_cnts' = item_cnts - k
        /\ capacity' = capacity /\ items' = items /\ k <= item_cnts
    BY DEF Shrink
  <1>2. item_cnts \in Nat /\ item_cnts' \in Nat /\ item_cnts' <= item_cnts
    BY <1>1, Live
  <1>3. TypeOK'
    BY <1>1, <1>2, SizeAssumption DEF Inv, TypeOK
  <1>4. RoomForItems' /\ UndefinedOnlyAtUsize' /\ CapacityFits'
    BY <1>1, <1>2, Live DEF Inv, RoomForItems, UndefinedOnlyAtUsize, CapacityFits
  <1>5. ItemsBelow'
    BY <1>1, <1>2, Live DEF Inv, ItemsBelow, Count
  <1>6. QED
    BY <1>3, <1>4, <1>5 DEF Inv

(* Failing to allocate, freeing and stuttering leave everything but the     *)
(* status alone.                                                            *)
LEMMA StatusInv ==
  ASSUME Inv, UNCHANGED <<items, item_cnts, capacity>>,
         \/ status' = status
         \/ status = "live" /\ status' \in {"freed", "no_memory"}
  PROVE  Inv'
  <1>1. TypeOK' /\ RoomForItems' /\ UndefinedOnlyAtUsize' /\ CapacityFits'
    BY DEF Inv, TypeOK, RoomForItems, UndefinedOnlyAtUsize, CapacityFits
  <1>2. Count' = Count
    BY DEF Count
  <1>3. QED
    BY <1>1, <1>2 DEF Inv, ItemsBelow

LEMMA NextInv == Inv /\ [Next]_vars => Inv'
  <1> SUFFICES ASSUME Inv, [Next]_vars PROVE Inv'
    OBVIOUS
  <1>1. CASE \E v \in Item : da_try_push_back(v)
    BY <1>1, PushInv
  <1>2. CASE \E i \in DOMAIN items, v \in Item : Set(i, v)
    BY <1>2, SetInv
  <1>3. CASE \E k \in {1, 2} : Shrink(k)
    BY <1>3, ShrinkInv
  <1>4. CASE NoMemory
    BY <1>4, StatusInv DEF NoMemory
  <1>5. CASE da_free
    BY <1>5, StatusInv DEF da_free
  <1>6. CASE UNCHANGED vars
    BY <1>6, StatusInv DEF vars
  <1>7. QED
    BY <1>1, <1>2, <1>3, <1>4, <1>5, <1>6 DEF Next

(* The array never counts items it has no room for, and writes outside its  *)
(* memory only where twice its bytes are more than a usize holds.           *)
THEOREM Safety == Spec => [](RoomForItems /\ UndefinedOnlyAtUsize)
  <1>1. Inv => RoomForItems /\ UndefinedOnlyAtUsize
    BY DEF Inv
  <1>2. QED
    BY <1>1, InitInv, NextInv, PTL DEF Spec

(* No item lands outside the memory until doubling asks for more bytes than *)
(* a usize holds.                                                           *)
THEOREM OutsideOnlyAtUsize == Spec => []UndefinedOnlyAtUsize
  <1>1. Inv => UndefinedOnlyAtUsize
    BY DEF Inv
  <1>2. QED
    BY <1>1, InitInv, NextInv, PTL DEF Spec

(* Its fields keep their types.                                             *)
THEOREM TypeCorrect == Spec => []TypeOK
  <1>1. Inv => TypeOK
    BY DEF Inv
  <1>2. QED
    BY <1>1, InitInv, NextInv, PTL DEF Spec

-----------------------------------------------------------------------------
(* Every step appends an item, writes one, cuts the list off or leaves it.  *)
LEMMA PushIsAdd ==
  ASSUME Inv, NEW v \in Item, da_try_push_back(v) PROVE [L!Next]_Contents
  <1>1. status = "live"
    BY DEF da_try_push_back
  <1>2. /\ item_cnts \in Nat /\ capacity \in Nat
        /\ items \in [0 .. (capacity - 1) -> Item \cup {Garbage}]
        /\ Count = item_cnts
        /\ item_cnts <= capacity
        /\ \A i \in 0 .. (item_cnts - 1) : items[i] \in Item
    BY <1>1, Live
  <1>3. Contents = [j \in 1 .. item_cnts |-> items[j - 1]]
    BY <1>2 DEF Contents
  <1>4. CASE /\ status' = "live"
             /\ items' = [Realloc(capacity') EXCEPT ![item_cnts] = v]
    <2>1. Contents' = [j \in 1 .. (item_cnts + 1) |-> items'[j - 1]]
      BY <1>4, Appending DEF Contents, Count
    <2>2. ASSUME NEW j \in 1 .. item_cnts PROVE items'[j - 1] = items[j - 1]
      <3>1. j - 1 \in 0 .. (capacity' - 1) /\ j - 1 # item_cnts
            /\ j - 1 \in 0 .. (capacity - 1)
        BY <1>2, Appending
      <3>2. QED
        BY <1>2, <1>4, <3>1 DEF Realloc
    <2>3. items'[item_cnts] = v
      <3>1. item_cnts \in 0 .. (capacity' - 1)
        BY <1>2, Appending
      <3>2. QED
        BY <1>4, <3>1 DEF Realloc
    <2>4. Contents \in Seq(Item) /\ Len(Contents) = item_cnts
      <3>1. \A j \in 1 .. item_cnts : j - 1 \in 0 .. (item_cnts - 1)
        BY <1>2
      <3>2. QED
        BY <1>2, <1>3, <3>1
    <2>5. Contents' = Append(Contents, v)
      <3>1. \A j \in 1 .. (item_cnts + 1) :
              j \in 1 .. item_cnts \/ j = item_cnts + 1
        BY <1>2
      <3>2. ASSUME NEW j \in 1 .. (item_cnts + 1)
            PROVE  Contents'[j] = Append(Contents, v)[j]
        <4>1. CASE j \in 1 .. item_cnts
          BY <1>2, <1>3, <2>1, <2>2, <2>4, <4>1
        <4>2. CASE j = item_cnts + 1
          BY <1>2, <2>1, <2>3, <2>4, <4>2
        <4>3. QED
          BY <3>1, <4>1, <4>2
      <3>3. /\ Append(Contents, v) \in Seq(Item)
            /\ Len(Append(Contents, v)) = item_cnts + 1
        BY <2>4
      <3>4. Contents' \in Seq(Item) /\ Len(Contents') = item_cnts + 1
        <4>1. \A j \in 1 .. (item_cnts + 1) : Contents'[j] \in Item
          <5>1. \A j \in 1 .. item_cnts : Append(Contents, v)[j] = Contents[j]
            BY <2>4
          <5>2. Append(Contents, v)[item_cnts + 1] = v
            BY <2>4
          <5>3. \A j \in 1 .. item_cnts : Contents[j] \in Item
            BY <2>4
          <5>4. QED
            BY <3>1, <3>2, <5>1, <5>2, <5>3
        <4>2. item_cnts + 1 \in Nat
          BY <1>2
        <4>3. QED
          BY <2>1, <4>1, <4>2
      <3>5. QED
        BY <3>2, <3>3, <3>4, SeqEqual
    <2>6. QED
      BY <2>5 DEF L!Next, L!Add
  <1>5. CASE status' = "undefined" /\ items' = items
    <2>1. Count' = Count
      BY <1>2, <1>5, Appending DEF Count
    <2>2. Contents' = Contents
      BY <1>5, <2>1 DEF Contents
    <2>3. QED
      BY <2>2
  <1>6. QED
    BY <1>4, <1>5, Appending

LEMMA SetIsReplace ==
  ASSUME Inv, NEW i \in DOMAIN items, NEW v \in Item, Set(i, v) PROVE L!Replace
  <1>1. status = "live" /\ status' = "live" /\ item_cnts' = item_cnts
        /\ items' = [items EXCEPT ![i] = v] /\ i < item_cnts
    BY DEF Set
  <1>2. item_cnts \in Nat /\ capacity \in Nat /\ item_cnts <= capacity
        /\ items \in [0 .. (capacity - 1) -> Item \cup {Garbage}]
        /\ Count = item_cnts
    BY <1>1, Live
  <1>3. Contents = [j \in 1 .. item_cnts |-> items[j - 1]]
    BY <1>2 DEF Contents
  <1>4. Contents' = [j \in 1 .. item_cnts |-> items'[j - 1]]
    BY <1>1 DEF Contents, Count
  <1>5. i + 1 \in 1 .. item_cnts
    BY <1>1, <1>2
  <1>6. \A j \in 1 .. item_cnts :
          items'[j - 1] = IF j = i + 1 THEN v ELSE items[j - 1]
    BY <1>1, <1>2
  <1>7. Contents' = [Contents EXCEPT ![i + 1] = v]
    BY <1>3, <1>4, <1>5, <1>6
  <1>8. i + 1 \in DOMAIN Contents
    BY <1>3, <1>5
  <1>9. QED
    BY <1>7, <1>8 DEF L!Replace

LEMMA ShrinkIsCut == ASSUME Inv, NEW k \in {1, 2}, Shrink(k) PROVE L!Cut
  <1>1. status = "live" /\ status' = "live" /\ item_cnts' = item_cnts - k
        /\ items' = items /\ k <= item_cnts
    BY DEF Shrink
  <1>2. item_cnts \in Nat /\ Count = item_cnts
        /\ \A i \in 0 .. (item_cnts - 1) : items[i] \in Item
    BY <1>1, Live
  <1>3. Contents = [j \in 1 .. item_cnts |-> items[j - 1]]
    BY <1>2 DEF Contents
  <1>4. Contents' = [j \in 1 .. (item_cnts - k) |-> items[j - 1]]
    BY <1>1 DEF Contents, Count
  <1>5. Contents \in Seq(Item) /\ Len(Contents) = item_cnts
    <2>1. \A j \in 1 .. item_cnts : j - 1 \in 0 .. (item_cnts - 1)
      BY <1>2
    <2>2. QED
      BY <1>2, <1>3, <2>1
  <1>6. item_cnts - k \in 0 .. Len(Contents)
    BY <1>1, <1>2, <1>5
  <1>7. SubSeq(Contents, 1, item_cnts - k) =
          [j \in 1 .. (item_cnts - k) |-> Contents[j]]
    BY <1>2, <1>5, <1>6
  <1>8. \A j \in 1 .. (item_cnts - k) : Contents[j] = items[j - 1]
    BY <1>1, <1>2, <1>3
  <1>9. QED
    BY <1>4, <1>6, <1>7, <1>8 DEF L!Cut

LEMMA NextRefines == Inv /\ [Next]_vars => [L!Next]_Contents
  <1> SUFFICES ASSUME Inv, [Next]_vars PROVE [L!Next]_Contents
    OBVIOUS
  <1>1. CASE \E v \in Item : da_try_push_back(v)
    BY <1>1, PushIsAdd
  <1>2. CASE \E i \in DOMAIN items, v \in Item : Set(i, v)
    BY <1>2, SetIsReplace DEF L!Next
  <1>3. CASE \E k \in {1, 2} : Shrink(k)
    BY <1>3, ShrinkIsCut DEF L!Next
  <1>4. CASE NoMemory \/ da_free
    <2>1. Count' = Count /\ items' = items
      BY <1>4 DEF NoMemory, da_free, Count
    <2>2. QED
      BY <2>1 DEF Contents
  <1>5. CASE UNCHANGED vars
    BY <1>5 DEF vars, Contents, Count
  <1>6. QED
    BY <1>1, <1>2, <1>3, <1>4, <1>5 DEF Next

(* The dynamic array implements a list.                                     *)
THEOREM Refinement == Spec => ImplementsList
  <1>1. Init => L!Init
    BY DEF Init, da_init, L!Init, Contents, Count
  <1>2. QED
    BY <1>1, InitInv, NextInv, NextRefines, PTL DEF Spec, ImplementsList, L!Spec
=============================================================================
