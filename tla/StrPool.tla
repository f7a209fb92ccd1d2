------------------------------ MODULE StrPool -------------------------------
(***************************************************************************)
(* The string pool of utils.c, down to the characters in memory.  A new    *)
(* string is copied to the end of one memory pool while there is room, and *)
(* to a block of its own after that; str_pool_free gives back what was     *)
(* allocated.  The dynamic array of the nodes is the list DynArr shows it  *)
(* to be.                                                                  *)
(***************************************************************************)
EXTENDS Integers, Sequences

CONSTANTS
  Char,         \* what a source text is made of
  NUL,          \* the character '\0'
  Garbage,      \* what memory holds before it is written
  Texts,        \* the texts that may be interned
  MempoolSize   \* mempool_size

ASSUME CharAssumption == NUL \notin Char /\ Garbage \notin Char \cup {NUL}

ASSUME TextAssumption == Texts \subseteq Seq(Char)

ASSUME PoolAssumption == MempoolSize \in Nat \ {0}

VARIABLES
  pool_nodes,      \* a sequence of [str, len, alloc_by_pool]; the last is 1 or 0
  mempool_offset,
  mem,             \* the allocated blocks of characters; the pool is block 0
  status,          \* "live", "freeing", "freed", "no_memory" (malloc failed)
                   \* or "undefined" (an access outside a block)
  freeing,         \* the node str_pool_free has come to
  result           \* what str_pool_intern was last asked and returned

vars == <<pool_nodes, mempool_offset, mem, status, freeing, result>>

-----------------------------------------------------------------------------
Pool == 0
Ptr(block, offset) == [block |-> block, offset |-> offset]
malloc(n) == [k \in 0 .. (n - 1) |-> Garbage]

At(p, i) == mem[p.block][p.offset + i]

(* lexer_init sets the whole pool to zero first.                            *)
Init ==
  /\ pool_nodes = <<>>
  /\ mempool_offset = 0
  /\ mem = [b \in {Pool} |-> malloc(MempoolSize)]
  /\ status = "live"
  /\ freeing = 1
  /\ result = <<>>

(* Mutant: the count is used up one character too early.                    *)
lite_strncmp_LastFree(p, t, n) == \A i \in 0 .. (n - 2) : At(p, i) = t[i + 1]

(* It stops at the n-th character, at a NUL and at a difference, and what   *)
(* stands there decides: TRUE where the code yields 0.                      *)
lite_strncmp(p, t, n) ==
  n # 0 =>
    \E stop \in 0 .. (n - 1) :
      /\ \A i \in 0 .. (stop - 1) : At(p, i) # NUL /\ At(p, i) = t[i + 1]
      /\ stop = n - 1 \/ At(p, stop) = NUL \/ At(p, stop) # t[stop + 1]
      /\ At(p, stop) = t[stop + 1]

Found(i, t) ==
  /\ pool_nodes[i].len = Len(t)
  /\ lite_strncmp(pool_nodes[i].str, t, Len(t))

(* Mutant: only the string, not its NUL, has to fit.                        *)
FromPool_NoNul(len) == len <= MempoolSize - mempool_offset

(* The last string that would fit exactly goes to a block of its own.       *)
FromPool(len) == len + 1 < MempoolSize - mempool_offset

(* memcpy, and the NUL behind it.                                           *)
Copied(block, offset, t) ==
  [k \in DOMAIN block |->
     IF k - offset \in 0 .. (Len(t) - 1) THEN t[k - offset + 1]
     ELSE IF k = offset + Len(t) THEN NUL ELSE block[k]]

Append_node(t, p, by_pool) ==
  pool_nodes' = Append(pool_nodes, [str |-> p, len |-> Len(t), alloc_by_pool |-> by_pool])

(* The text has a node already: the first that matches.                     *)
intern_again(t) ==
  /\ \E i \in DOMAIN pool_nodes :
       /\ Found(i, t)
       /\ \A j \in 1 .. (i - 1) : ~Found(j, t)
       /\ result' = <<t, pool_nodes[i].str>>
  /\ UNCHANGED <<pool_nodes, mempool_offset, mem, status>>

intern_in_pool(t) ==
  LET p == Ptr(Pool, mempool_offset)
  IN  /\ FromPool(Len(t))
      /\ Append_node(t, p, 1)
      /\ mempool_offset' = mempool_offset + Len(t) + 1
      /\ \/ /\ mempool_offset + Len(t) \in DOMAIN mem[Pool]
            /\ mem' = [mem EXCEPT ![Pool] = Copied(@, mempool_offset, t)]
            /\ UNCHANGED status
         \/ /\ mempool_offset + Len(t) \notin DOMAIN mem[Pool]
            /\ status' = "undefined"
            /\ UNCHANGED mem
      /\ result' = <<t, p>>

(* The block of a node has the number of the node.                          *)
intern_allocated(t) ==
  LET b == Len(pool_nodes) + 1
  IN  /\ ~FromPool(Len(t))
      /\ Append_node(t, Ptr(b, 0), 0)
      /\ mem' = [c \in DOMAIN mem \cup {b} |->
                   IF c = b THEN Copied(malloc(Len(t) + 1), 0, t) ELSE mem[c]]
      /\ result' = <<t, Ptr(b, 0)>>
      /\ UNCHANGED <<mempool_offset, status>>

str_pool_intern(t) ==
  /\ status = "live"
  /\ \/ intern_again(t)
     \/ /\ \A i \in DOMAIN pool_nodes : ~Found(i, t)
        /\ intern_in_pool(t) \/ intern_allocated(t)
  /\ UNCHANGED freeing

(* malloc yields NULL; nobody looks.                                        *)
NoMemory ==
  /\ status = "live"
  /\ \E t \in Texts : ~FromPool(Len(t)) /\ \A i \in DOMAIN pool_nodes : ~Found(i, t)
  /\ status' = "no_memory"
  /\ UNCHANGED <<pool_nodes, mempool_offset, mem, freeing, result>>

(* free of what is not, or no longer, an allocated block is undefined.      *)
free(p) ==
  \/ /\ p.block \in DOMAIN mem /\ p.offset = 0
     /\ mem' = [b \in DOMAIN mem \ {p.block} |-> mem[b]]
     /\ status' = "freeing"
  \/ /\ ~(p.block \in DOMAIN mem /\ p.offset = 0)
     /\ status' = "undefined"
     /\ UNCHANGED mem

(* Mutant: the choice the node remembers is read the wrong way.             *)
FreesNode_Swapped(i) == pool_nodes[i].alloc_by_pool # 0

FreesNode(i) == pool_nodes[i].alloc_by_pool = 0

free_node ==
  /\ status \in {"live", "freeing"}
  /\ freeing \in DOMAIN pool_nodes
  /\ freeing' = freeing + 1
  /\ \/ FreesNode(freeing) /\ free(pool_nodes[freeing].str)
     \/ ~FreesNode(freeing) /\ status' = "freeing" /\ UNCHANGED mem
  /\ result' = <<>>
  /\ UNCHANGED <<pool_nodes, mempool_offset>>

(* The nodes themselves and the memory pool.                                *)
free_mempool ==
  /\ status \in {"live", "freeing"}
  /\ freeing \notin DOMAIN pool_nodes
  /\ mem' = [b \in DOMAIN mem \ {Pool} |-> mem[b]]
  /\ status' = "freed"
  /\ result' = <<>>
  /\ UNCHANGED <<pool_nodes, mempool_offset, freeing>>

str_pool_free == free_node \/ free_mempool

Next == (\E t \in Texts : str_pool_intern(t)) \/ NoMemory \/ str_pool_free

Spec == Init /\ [][Next]_vars

-----------------------------------------------------------------------------
(* Nodes point into blocks, and the pool is used up to its offset.          *)
TypeOK ==
  /\ mempool_offset \in 0 .. MempoolSize
  /\ \A i \in DOMAIN pool_nodes :
       /\ pool_nodes[i].len \in Nat
       /\ pool_nodes[i].str.block \in {Pool, i}
       /\ pool_nodes[i].alloc_by_pool = IF pool_nodes[i].str.block = Pool THEN 1 ELSE 0
  /\ \A b \in DOMAIN mem : mem[b] \in [DOMAIN mem[b] -> Char \cup {NUL, Garbage}]
  /\ status \in {"live", "freeing", "freed", "no_memory", "undefined"}
  /\ freeing \in 1 .. (Len(pool_nodes) + 1)

(* Whatever is interned after it, wherever it went: the text of a node can  *)
(* be read back, up to its NUL, as the debug printer and strtol do.         *)
Reads(p, t) ==
  /\ \A i \in 1 .. Len(t) : At(p, i - 1) = t[i]
  /\ At(p, Len(t)) = NUL

(* The pool is an interning table: equal texts get equal pointers,          *)
(* different texts different ones, and no later string disturbs that.  The  *)
(* table is read from memory.                                               *)
Open == status \notin {"freeing", "freed"}
Stored == {t \in Texts : \E i \in DOMAIN pool_nodes : Reads(pool_nodes[i].str, t)}
Known ==
  IF ~Open THEN <<>>
  ELSE [t \in Stored |-> pool_nodes[CHOOSE i \in DOMAIN pool_nodes :
                                       Reads(pool_nodes[i].str, t)].str]
Pointers == [block : Nat, offset : Nat]
I == INSTANCE Interning WITH
       Text <- Texts, Pointer <- Pointers,
       known <- Known, answer <- result, open <- Open
ImplementsInterning == I!Spec

(* Every block is freed once and only what was allocated is freed; the room *)
(* left decided at the time of the call which blocks there are.             *)
FreedAsAllocated ==
  /\ status # "undefined"
  /\ status = "freed" => DOMAIN mem = {}
=============================================================================
