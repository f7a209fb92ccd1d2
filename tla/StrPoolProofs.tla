---------------------------- MODULE StrPoolProofs ----------------------------
(***************************************************************************)
(* Proofs about the string pool: for every set of texts, every size of the *)
(* memory pool and every sequence of calls, it is an interning table, no   *)
(* character is read or written outside a block, and what was allocated is *)
(* what is freed.                                                          *)
(***************************************************************************)
EXTENDS StrPool, SequenceTheorems, TLAPS

Chars == Char \cup {NUL, Garbage}
Node == [str : Pointers, len : Nat, alloc_by_pool : {0, 1}]

-----------------------------------------------------------------------------
(* The invariant.                                                           *)

(* A node in the pool lies below its offset, another has its own block.     *)
Placed ==
  /\ pool_nodes \in Seq(Node)
  /\ mempool_offset \in 0 .. MempoolSize
  /\ \A i \in DOMAIN pool_nodes :
       LET node == pool_nodes[i] IN
         \/ /\ node.alloc_by_pool = 1 /\ node.str.block = Pool
            /\ node.str.offset + node.len + 1 <= mempool_offset
         \/ node.alloc_by_pool = 0 /\ node.str.block = i /\ node.str.offset = 0

(* The blocks that have not been freed, and how many characters they hold.  *)
Blocks ==
  IF status = "freed" THEN {}
  ELSE {Pool} \cup {i \in DOMAIN pool_nodes :
                      pool_nodes[i].alloc_by_pool = 0 /\ i >= freeing}

Allocated ==
  /\ DOMAIN mem = Blocks
  /\ Pool \in Blocks => mem[Pool] \in [0 .. (MempoolSize - 1) -> Chars]
  /\ \A i \in DOMAIN pool_nodes :
       i \in Blocks => mem[i] \in [0 .. pool_nodes[i].len -> Chars]

Phase ==
  /\ status \in {"live", "freeing", "freed", "no_memory"}
  /\ freeing \in 1 .. (Len(pool_nodes) + 1)
  /\ Open => freeing = 1
  /\ ~Open => result = <<>>

(* Every node has a text, and every text one node.                          *)
Holds(i, t) == pool_nodes[i].len = Len(t) /\ Reads(pool_nodes[i].str, t)

Written == \A i \in DOMAIN pool_nodes : \E t \in Texts : Holds(i, t)

Distinct ==
  \A i, j \in DOMAIN pool_nodes : \A t \in Texts : Holds(i, t) /\ Holds(j, t) => i = j

Inv == Placed /\ Allocated /\ Phase /\ (Open => Written /\ Distinct)

(* Where a text is looked up.                                               *)
KnownFacts ==
  Placed /\ Open /\ Written /\ Distinct =>
    /\ Known = [u \in Stored |-> Known[u]]
    /\ \A i \in DOMAIN pool_nodes : \A u \in Texts :
         Holds(i, u) => u \in Stored /\ Known[u] = pool_nodes[i].str
    /\ \A u \in Stored : u \in Texts /\ \E i \in DOMAIN pool_nodes : Holds(i, u)

-----------------------------------------------------------------------------
(* Texts in memory.                                                         *)
LEMMA TextTyped ==
  ASSUME NEW t \in Texts
  PROVE  /\ t \in Seq(Char) /\ Len(t) \in Nat
         /\ \A k \in 1 .. Len(t) : t[k] \in Char /\ t[k] # NUL
  <1>1. t \in Seq(Char)
    BY TextAssumption
  <1>2. QED
    BY <1>1, CharAssumption

(* The NUL decides where a text ends.                                       *)
LEMMA ReadsOne ==
  ASSUME NEW p, NEW u \in Texts, NEW v \in Texts, Reads(p, u), Reads(p, v)
  PROVE  u = v
  <1>1. /\ u \in Seq(Char) /\ v \in Seq(Char) /\ Len(u) \in Nat /\ Len(v) \in Nat
        /\ \A k \in 1 .. Len(u) : u[k] # NUL
        /\ \A k \in 1 .. Len(v) : v[k] # NUL
    BY TextTyped
  <1>2. /\ \A k \in 1 .. Len(u) : At(p, k - 1) = u[k]
        /\ \A k \in 1 .. Len(v) : At(p, k - 1) = v[k]
        /\ At(p, Len(u)) = NUL /\ At(p, Len(v)) = NUL
    BY DEF Reads
  <1>3. ~(Len(u) < Len(v))
    <2>1. SUFFICES ASSUME Len(u) < Len(v) PROVE FALSE
      OBVIOUS
    <2>2. Len(u) + 1 \in 1 .. Len(v) /\ (Len(u) + 1) - 1 = Len(u)
      BY <1>1, <2>1
    <2>3. At(p, Len(u)) = v[Len(u) + 1]
      BY <1>2, <2>2
    <2>4. QED
      BY <1>1, <1>2, <2>2, <2>3
  <1>4. ~(Len(v) < Len(u))
    <2>1. SUFFICES ASSUME Len(v) < Len(u) PROVE FALSE
      OBVIOUS
    <2>2. Len(v) + 1 \in 1 .. Len(u) /\ (Len(v) + 1) - 1 = Len(v)
      BY <1>1, <2>1
    <2>3. At(p, Len(v)) = u[Len(v) + 1]
      BY <1>2, <2>2
    <2>4. QED
      BY <1>1, <1>2, <2>2, <2>3
  <1>5. Len(u) = Len(v)
    BY <1>1, <1>3, <1>4
  <1>6. \A k \in 1 .. Len(u) : u[k] = v[k]
    BY <1>2, <1>5
  <1>7. QED
    BY <1>1, <1>5, <1>6

(* lite_strncmp finds the node that holds the text.                         *)
LEMMA FoundIsHolds ==
  ASSUME NEW i, NEW u \in Texts, Holds(i, u), NEW t \in Texts
  PROVE  Found(i, t) <=> u = t
  <1> DEFINE p == pool_nodes[i].str
             n == Len(t)
  <1>1. /\ pool_nodes[i].len = Len(u)
        /\ \A k \in 1 .. Len(u) : At(p, k - 1) = u[k]
    BY DEF Holds, Reads
  <1>2. /\ u \in Seq(Char) /\ t \in Seq(Char) /\ Len(u) \in Nat /\ n \in Nat
        /\ \A k \in 1 .. Len(u) : u[k] # NUL
    BY TextTyped
  <1> HIDE DEF p, n
  <1>3. \A k \in 0 .. (Len(u) - 1) : At(p, k) = u[k + 1] /\ At(p, k) # NUL
    <2> TAKE k \in 0 .. (Len(u) - 1)
    <2>1. k + 1 \in 1 .. Len(u) /\ (k + 1) - 1 = k
      BY <1>2
    <2>2. QED
      BY <1>1, <1>2, <2>1
  <1>4. ASSUME u = t PROVE lite_strncmp(p, t, n)
    <2>1. Len(u) = n
      BY <1>4 DEF n
    <2>2. CASE n = 0
      BY <2>2 DEF lite_strncmp
    <2>3. CASE n # 0
      <3>1. n - 1 \in 0 .. (n - 1) /\ \A k \in 0 .. ((n - 1) - 1) : k \in 0 .. (n - 1)
        BY <1>2, <2>3
      <3>2. \A k \in 0 .. (n - 1) : At(p, k) = t[k + 1] /\ At(p, k) # NUL
        BY <1>3, <1>4, <2>1
      <3>3. QED
        BY <3>1, <3>2 DEF lite_strncmp
    <2>4. QED
      BY <2>2, <2>3
  <1>5. ASSUME Len(u) = n, lite_strncmp(p, t, n) PROVE u = t
    <2>1. CASE n = 0
      BY <1>2, <1>5, <2>1 DEF n
    <2>2. CASE n # 0
      <3>1. PICK stop \in 0 .. (n - 1) :
              /\ \A k \in 0 .. (stop - 1) : At(p, k) # NUL /\ At(p, k) = t[k + 1]
              /\ stop = n - 1 \/ At(p, stop) = NUL \/ At(p, stop) # t[stop + 1]
              /\ At(p, stop) = t[stop + 1]
        BY <1>5, <2>2 DEF lite_strncmp
      <3>2. stop = n - 1
        BY <1>3, <1>5, <3>1
      <3>3. \A k \in 0 .. (n - 1) : At(p, k) = t[k + 1]
        <4>1. \A k \in 0 .. (n - 1) : k = stop \/ k \in 0 .. (stop - 1)
          BY <1>2, <3>2
        <4>2. QED
          BY <3>1, <4>1
      <3>4. \A k \in 1 .. n : u[k] = t[k]
        <4> TAKE k \in 1 .. n
        <4>1. k - 1 \in 0 .. (n - 1) /\ (k - 1) + 1 = k
          BY <1>2
        <4>2. At(p, k - 1) = u[(k - 1) + 1] /\ At(p, k - 1) = t[(k - 1) + 1]
          BY <1>3, <1>5, <3>3, <4>1
        <4>3. QED
          BY <4>1, <4>2
      <3>5. QED
        BY <1>2, <1>5, <3>4 DEF n
    <2>3. QED
      BY <2>1, <2>2
  <1>6. Found(i, t) <=> Len(u) = n /\ lite_strncmp(p, t, n)
    BY <1>1 DEF Found, p, n
  <1>7. QED
    BY <1>4, <1>5, <1>6 DEF n

LEMMA ReadsIsHolds ==
  ASSUME Written, NEW i \in DOMAIN pool_nodes, NEW u \in Texts
  PROVE  Reads(pool_nodes[i].str, u) <=> Holds(i, u)
  <1>1. PICK v \in Texts : Holds(i, v)
    BY DEF Written
  <1>2. Reads(pool_nodes[i].str, u) => u = v
    BY <1>1, ReadsOne DEF Holds
  <1>3. QED
    BY <1>1, <1>2 DEF Holds

(* The pointer a text is looked up by is that of its node.                  *)
LEMMA KnownIs == KnownFacts
  <1>1. SUFFICES ASSUME Placed, Open, Written, Distinct
                 PROVE  /\ Known = [u \in Stored |-> Known[u]]
                        /\ \A i \in DOMAIN pool_nodes : \A u \in Texts :
                             Holds(i, u) => u \in Stored /\ Known[u] = pool_nodes[i].str
                        /\ \A u \in Stored :
                             u \in Texts /\ \E i \in DOMAIN pool_nodes : Holds(i, u)
    BY DEF KnownFacts
  <1>2. Known = [u \in Stored |-> pool_nodes[CHOOSE i \in DOMAIN pool_nodes :
                                               Reads(pool_nodes[i].str, u)].str]
    BY <1>1 DEF Known
  <1>3. \A u \in Stored : u \in Texts /\ \E i \in DOMAIN pool_nodes : Holds(i, u)
    BY <1>1, ReadsIsHolds DEF Stored
  <1>4. ASSUME NEW i \in DOMAIN pool_nodes, NEW u \in Texts, Holds(i, u)
        PROVE  u \in Stored /\ Known[u] = pool_nodes[i].str
    <2> DEFINE c == CHOOSE j \in DOMAIN pool_nodes : Reads(pool_nodes[j].str, u)
    <2>1. Reads(pool_nodes[i].str, u)
      BY <1>4 DEF Holds
    <2>2. c \in DOMAIN pool_nodes /\ Reads(pool_nodes[c].str, u)
      BY <2>1
    <2>3. u \in Stored
      BY <2>1 DEF Stored
    <2>4. Known[u] = pool_nodes[c].str
      BY <1>2, <2>3
    <2> HIDE DEF c
    <2>5. Holds(c, u)
      BY <1>1, <2>2, ReadsIsHolds
    <2>6. c = i
      BY <1>1, <1>4, <2>2, <2>5 DEF Distinct
    <2>7. QED
      BY <2>3, <2>4, <2>6
  <1>5. Known = [u \in Stored |-> Known[u]]
    BY <1>2
  <1>6. QED
    BY <1>3, <1>4, <1>5

LEMMA KnownNext == KnownFacts'
  BY KnownIs, PTL

ReadsOneFact ==
  \A p : \A u, v \in Texts : Reads(p, u) /\ Reads(p, v) => u = v

LEMMA ReadsOneNext == ReadsOneFact'
  <1>1. ReadsOneFact
    BY ReadsOne DEF ReadsOneFact
  <1>2. QED
    BY <1>1, PTL

-----------------------------------------------------------------------------
(* A node for a text that had none, at p.                                   *)
Adds(t, p, f) ==
  /\ Inv /\ Open
  /\ \A i \in DOMAIN pool_nodes : ~Found(i, t)
  /\ p \in Pointers
  /\ pool_nodes' = Append(pool_nodes, [str |-> p, len |-> Len(t), alloc_by_pool |-> f])
  /\ Reads(p, t)'
  /\ \A i \in DOMAIN pool_nodes : \A k \in 0 .. pool_nodes[i].len :
       At(pool_nodes[i].str, k)' = At(pool_nodes[i].str, k)
  /\ status' = status
  /\ Placed'

LEMMA Appended ==
  ASSUME NEW t, NEW p, NEW f, pool_nodes \in Seq(Node),
         pool_nodes' = Append(pool_nodes, [str |-> p, len |-> Len(t), alloc_by_pool |-> f])
  PROVE  /\ Len(pool_nodes) \in Nat /\ DOMAIN pool_nodes = 1 .. Len(pool_nodes)
         /\ DOMAIN pool_nodes' = 1 .. (Len(pool_nodes) + 1)
         /\ Len(pool_nodes') = Len(pool_nodes) + 1
         /\ \A i \in 1 .. Len(pool_nodes) : pool_nodes'[i] = pool_nodes[i] /\ i # Len(pool_nodes) + 1
         /\ \A i \in 1 .. (Len(pool_nodes) + 1) :
              i \in 1 .. Len(pool_nodes) \/ i = Len(pool_nodes) + 1
         /\ Len(pool_nodes) + 1 \in 1 .. (Len(pool_nodes) + 1)
         /\ pool_nodes'[Len(pool_nodes) + 1].str = p
         /\ pool_nodes'[Len(pool_nodes) + 1].len = Len(t)
         /\ pool_nodes'[Len(pool_nodes) + 1].alloc_by_pool = f
  <1> DEFINE node == [str |-> p, len |-> Len(t), alloc_by_pool |-> f]
             n == Len(pool_nodes)
  <1>1. node.str = p /\ node.len = Len(t) /\ node.alloc_by_pool = f
    OBVIOUS
  <1>2. pool_nodes' = Append(pool_nodes, node)
    OBVIOUS
  <1> HIDE DEF node
  <1>3. n \in Nat /\ DOMAIN pool_nodes = 1 .. n /\ DOMAIN pool_nodes' = 1 .. (n + 1)
        /\ Len(pool_nodes') = n + 1
    BY <1>2
  <1>4. \A i \in 1 .. n : pool_nodes'[i] = pool_nodes[i] /\ i # n + 1
    BY <1>2, <1>3
  <1>5. pool_nodes'[n + 1] = node /\ n + 1 \in 1 .. (n + 1)
    BY <1>2, <1>3
  <1>6. \A i \in 1 .. (n + 1) : i \in 1 .. n \/ i = n + 1
    BY <1>3
  <1>7. QED
    BY <1>1, <1>3, <1>4, <1>5, <1>6

(* The new node holds the text, and the others what they held.              *)
LEMMA Added ==
  ASSUME NEW t \in Texts, NEW p, NEW f, Adds(t, p, f)
  PROVE  /\ Written' /\ Distinct'
         /\ t \in Stored' /\ Stored' = Stored \cup {t} /\ t \notin Stored
         /\ Known' = [u \in Stored \cup {t} |-> IF u = t THEN p ELSE Known[u]]
         /\ \A u \in Stored : Known[u] # p
  <1>0. PICK n : n = Len(pool_nodes)
    OBVIOUS
  <1>1. /\ Placed /\ Written /\ Distinct /\ Open /\ pool_nodes \in Seq(Node)
        /\ \A i \in DOMAIN pool_nodes : ~Found(i, t)
        /\ pool_nodes' = Append(pool_nodes, [str |-> p, len |-> Len(t), alloc_by_pool |-> f])
        /\ Reads(p, t)'
        /\ status' = status
        /\ Placed'
    BY DEF Adds, Inv, Placed
  <1>2. \A i \in DOMAIN pool_nodes : \A k \in 0 .. pool_nodes[i].len :
          At(pool_nodes[i].str, k)' = At(pool_nodes[i].str, k)
    BY DEF Adds
  <1>3. /\ n \in Nat /\ DOMAIN pool_nodes = 1 .. n
        /\ DOMAIN pool_nodes' = 1 .. (n + 1)
        /\ \A i \in 1 .. n : pool_nodes'[i] = pool_nodes[i] /\ i # n + 1
        /\ \A i \in 1 .. (n + 1) : i \in 1 .. n \/ i = n + 1
        /\ n + 1 \in 1 .. (n + 1)
        /\ pool_nodes'[n + 1].str = p
        /\ pool_nodes'[n + 1].len = Len(t)
    BY <1>0, <1>1, Appended
  <1>4. ASSUME NEW i \in 1 .. n, NEW u \in Texts
        PROVE  Holds(i, u)' <=> Holds(i, u)
    <2>1. pool_nodes'[i] = pool_nodes[i]
      BY <1>3
    <2>2. CASE pool_nodes[i].len # Len(u)
      BY <2>1, <2>2 DEF Holds
    <2>3. CASE pool_nodes[i].len = Len(u)
      <3> DEFINE q == pool_nodes[i].str
      <3>1. \A k \in 0 .. Len(u) : At(q, k)' = At(q, k)
        BY <1>2, <1>3, <2>3
      <3>2. Len(u) \in Nat
        BY TextTyped
      <3>3. Len(u) \in 0 .. Len(u) /\ \A k \in 1 .. Len(u) : k - 1 \in 0 .. Len(u)
        BY <3>2
      <3>4. Reads(q, u)' <=> Reads(q, u)
        <4> HIDE DEF q
        <4> QED
          BY <3>1, <3>3 DEF Reads
      <3>5. QED
        BY <2>1, <2>3, <3>4 DEF Holds
    <2>4. QED
      BY <2>2, <2>3
  <1>5. Holds(n + 1, t)'
    BY <1>1, <1>3 DEF Holds
  <1>6. \A u \in Texts : Holds(n + 1, u)' => u = t
    <2>1. \A u \in Texts : Holds(n + 1, u)' => Reads(p, u)'
      BY <1>3 DEF Holds
    <2>2. QED
      BY <1>1, <2>1, ReadsOneNext DEF ReadsOneFact
  <1>7. \A i \in 1 .. n : ~Holds(i, t)
    BY <1>1, <1>3, FoundIsHolds
  <1>8. Written'
    <2>1. ASSUME NEW i \in 1 .. (n + 1) PROVE \E u \in Texts : Holds(i, u)'
      <3>1. CASE i \in 1 .. n
        BY <1>1, <1>3, <1>4, <3>1 DEF Written
      <3>2. QED
        BY <1>3, <1>5, <3>1
    <2>2. QED
      BY <1>3, <2>1 DEF Written
  <1>9. Distinct'
    <2>1. ASSUME NEW i \in 1 .. (n + 1), NEW j \in 1 .. (n + 1), NEW u \in Texts,
                 Holds(i, u)', Holds(j, u)'
          PROVE  i = j
      <3>1. CASE i \in 1 .. n /\ j \in 1 .. n
        <4>1. Holds(i, u) /\ Holds(j, u)
          BY <1>4, <2>1, <3>1
        <4>2. QED
          BY <1>1, <1>3, <3>1, <4>1 DEF Distinct
      <3>2. CASE i = n + 1 /\ j \in 1 .. n
        BY <1>4, <1>6, <1>7, <2>1, <3>2
      <3>3. CASE i \in 1 .. n /\ j = n + 1
        BY <1>4, <1>6, <1>7, <2>1, <3>3
      <3>4. QED
        BY <1>3, <3>1, <3>2, <3>3
    <2>2. QED
      BY <1>3, <2>1 DEF Distinct
  <1>10. /\ Known = [u \in Stored |-> Known[u]]
         /\ \A i \in 1 .. n : \A u \in Texts :
              Holds(i, u) => u \in Stored /\ Known[u] = pool_nodes[i].str
         /\ \A u \in Stored : u \in Texts /\ \E i \in 1 .. n : Holds(i, u)
    BY <1>1, <1>3, KnownIs DEF KnownFacts
  <1>11. /\ Known' = [u \in Stored' |-> Known'[u]]
         /\ \A i \in 1 .. (n + 1) : \A u \in Texts :
              Holds(i, u)' => u \in Stored' /\ Known'[u] = pool_nodes'[i].str
         /\ \A u \in Stored' : u \in Texts /\ \E i \in 1 .. (n + 1) : Holds(i, u)'
    <2>1. Open'
      BY <1>1 DEF Open
    <2>2. QED
      BY <1>1, <1>3, <1>8, <1>9, <2>1, KnownNext DEF KnownFacts
  <1>12. t \notin Stored
    BY <1>7, <1>10
  <1>13. t \in Stored' /\ Known'[t] = p
    BY <1>3, <1>5, <1>11
  <1>14. \A u \in Stored : u \in Stored' /\ Known'[u] = Known[u] /\ Known[u] # p
    <2> TAKE u \in Stored
    <2>1. u \in Texts
      BY <1>10
    <2>2. PICK i \in 1 .. n : Holds(i, u)
      BY <1>10
    <2>3. Holds(i, u)' /\ i \in 1 .. (n + 1) /\ pool_nodes'[i] = pool_nodes[i]
      BY <1>3, <1>4, <2>1, <2>2
    <2>4. Known'[u] = pool_nodes[i].str /\ Known[u] = pool_nodes[i].str /\ u \in Stored'
      BY <1>10, <1>11, <2>1, <2>2, <2>3
    <2>5. pool_nodes[i].str # p
      <3>1. SUFFICES ASSUME pool_nodes[i].str = p PROVE FALSE
        OBVIOUS
      <3>2. Reads(p, u)'
        BY <2>3, <3>1 DEF Holds
      <3>3. u = t
        BY <1>1, <2>1, <3>2, ReadsOneNext DEF ReadsOneFact
      <3>4. QED
        BY <1>12, <3>3
    <2>6. QED
      BY <2>4, <2>5
  <1>15. Stored' = Stored \cup {t}
    <2>1. ASSUME NEW u \in Stored' PROVE u \in Stored \cup {t}
      <3>1. u \in Texts
        BY <1>11
      <3>2. PICK i \in 1 .. (n + 1) : Holds(i, u)'
        BY <1>11
      <3>3. CASE i \in 1 .. n
        BY <1>4, <1>10, <3>1, <3>2, <3>3
      <3>4. CASE i = n + 1
        BY <1>6, <3>1, <3>2, <3>4
      <3>5. QED
        BY <1>3, <3>3, <3>4
    <2>2. QED
      BY <1>13, <1>14, <2>1
  <1>16. Known' = [u \in Stored \cup {t} |-> IF u = t THEN p ELSE Known[u]]
    <2>1. Known' = [u \in Stored \cup {t} |-> Known'[u]]
      BY <1>11, <1>15
    <2>2. \A u \in Stored \cup {t} : Known'[u] = IF u = t THEN p ELSE Known[u]
      BY <1>13, <1>14
    <2> DEFINE k == Known'
    <2>3. k = [u \in Stored \cup {t} |-> k[u]]
      BY <2>1
    <2>4. \A u \in Stored \cup {t} : k[u] = IF u = t THEN p ELSE Known[u]
      BY <2>2
    <2> HIDE DEF k
    <2>5. k = [u \in Stored \cup {t} |-> IF u = t THEN p ELSE Known[u]]
      BY <2>3, <2>4
    <2>6. QED
      BY <2>5 DEF k
  <1>17. QED
    BY <1>8, <1>9, <1>12, <1>13, <1>14, <1>15, <1>16

-----------------------------------------------------------------------------
(* memcpy of a text and the NUL behind it.                                  *)
LEMMA CopiedIs ==
  ASSUME NEW m \in Nat, NEW block \in [0 .. (m - 1) -> Chars], NEW off \in Nat,
         NEW t \in Texts, off + Len(t) < m
  PROVE  /\ Copied(block, off, t) \in [0 .. (m - 1) -> Chars]
         /\ \A k \in 1 .. Len(t) : Copied(block, off, t)[off + (k - 1)] = t[k]
         /\ Copied(block, off, t)[off + Len(t)] = NUL
         /\ \A k \in 0 .. (m - 1) : k < off => Copied(block, off, t)[k] = block[k]
  <1> DEFINE L == Len(t)
             c == [k \in 0 .. (m - 1) |->
                     IF k - off \in 0 .. (L - 1) THEN t[k - off + 1]
                     ELSE IF k = off + L THEN NUL ELSE block[k]]
  <1>1. L \in Nat /\ \A k \in 1 .. L : t[k] \in Char
    BY TextTyped
  <1>2. Copied(block, off, t) = c
    BY DEF Copied
  <1> HIDE DEF L
  <1>3. \A k \in 1 .. L : c[off + (k - 1)] = t[k]
    <2> TAKE k \in 1 .. L
    <2>1. /\ off + (k - 1) \in 0 .. (m - 1)
          /\ (off + (k - 1)) - off \in 0 .. (L - 1)
          /\ (off + (k - 1)) - off + 1 = k
      BY <1>1 DEF L
    <2>2. QED
      BY <2>1
  <1>4. c[off + L] = NUL
    <2>1. off + L \in 0 .. (m - 1) /\ (off + L) - off \notin 0 .. (L - 1)
      BY <1>1 DEF L
    <2>2. QED
      BY <2>1
  <1>5. \A k \in 0 .. (m - 1) : k < off => c[k] = block[k]
    <2> TAKE k \in 0 .. (m - 1)
    <2> HAVE k < off
    <2>1. k - off \notin 0 .. (L - 1) /\ k # off + L
      BY <1>1
    <2>2. QED
      BY <2>1
  <1>6. \A k \in 0 .. (m - 1) : c[k] \in Chars
    <2> TAKE k \in 0 .. (m - 1)
    <2>1. CASE k - off \in 0 .. (L - 1)
      <3>1. k - off + 1 \in 1 .. L
        BY <1>1, <2>1
      <3>2. QED
        BY <1>1, <2>1, <3>1 DEF Chars
    <2>2. CASE k - off \notin 0 .. (L - 1)
      BY <2>2 DEF Chars
    <2>3. QED
      BY <2>1, <2>2
  <1>7. c \in [0 .. (m - 1) -> Chars]
    <2>1. c = [k \in 0 .. (m - 1) |-> c[k]]
      OBVIOUS
    <2> HIDE DEF c
    <2>2. QED
      BY <1>6, <2>1
  <1> HIDE DEF c
  <1>8. QED
    BY <1>2, <1>3, <1>4, <1>5, <1>7 DEF L

(* A node as the invariant describes it.                                    *)
LEMMA NodeTyped ==
  ASSUME Inv, Open, NEW i \in DOMAIN pool_nodes
  PROVE  /\ i \in 1 .. Len(pool_nodes) /\ i \in Nat /\ i # Pool
         /\ pool_nodes[i].len \in Nat /\ pool_nodes[i].str.offset \in Nat
         /\ \/ /\ pool_nodes[i].alloc_by_pool = 1 /\ pool_nodes[i].str.block = Pool
               /\ pool_nodes[i].str.offset + pool_nodes[i].len + 1 <= mempool_offset
            \/ /\ pool_nodes[i].alloc_by_pool = 0 /\ pool_nodes[i].str.block = i
               /\ pool_nodes[i].str.offset = 0 /\ i \in DOMAIN mem
               /\ mem[i] \in [0 .. pool_nodes[i].len -> Chars]
  <1>1. pool_nodes \in Seq(Node) /\ freeing = 1 /\ status # "freed"
    BY DEF Inv, Placed, Phase, Open
  <1>2. i \in 1 .. Len(pool_nodes) /\ i \in Nat /\ i # Pool /\ i >= freeing
    BY <1>1 DEF Pool
  <1>3. pool_nodes[i] \in Node
    BY <1>1
  <1>4. pool_nodes[i].len \in Nat /\ pool_nodes[i].str.offset \in Nat
    BY <1>3 DEF Node, Pointers
  <1>5. pool_nodes[i].alloc_by_pool = 0 => i \in Blocks
    BY <1>1, <1>2 DEF Blocks
  <1>6. i \in Blocks => i \in DOMAIN mem /\ mem[i] \in [0 .. pool_nodes[i].len -> Chars]
    BY DEF Inv, Allocated
  <1>7. \/ /\ pool_nodes[i].alloc_by_pool = 1 /\ pool_nodes[i].str.block = Pool
           /\ pool_nodes[i].str.offset + pool_nodes[i].len + 1 <= mempool_offset
        \/ /\ pool_nodes[i].alloc_by_pool = 0 /\ pool_nodes[i].str.block = i
           /\ pool_nodes[i].str.offset = 0
    BY DEF Inv, Placed
  <1>8. QED
    BY <1>2, <1>4, <1>5, <1>6, <1>7

(* The pool while it is open.                                               *)
LEMMA PoolTyped ==
  ASSUME Inv, Open
  PROVE  /\ Pool \in DOMAIN mem /\ DOMAIN mem = Blocks /\ Pool \in Blocks
         /\ mem[Pool] \in [0 .. (MempoolSize - 1) -> Chars]
         /\ mempool_offset \in Nat /\ mempool_offset <= MempoolSize /\ MempoolSize \in Nat
         /\ pool_nodes \in Seq(Node) /\ freeing = 1 /\ status # "freed"
  <1>1. status # "freed" /\ freeing = 1
    BY DEF Inv, Phase, Open
  <1>2. Pool \in Blocks
    BY <1>1 DEF Blocks
  <1>3. QED
    BY <1>1, <1>2, PoolAssumption DEF Inv, Allocated, Placed

(* A text that fits is copied into the pool,                                *)
LEMMA InPoolStep ==
  ASSUME Inv, status = "live", NEW t \in Texts,
         \A i \in DOMAIN pool_nodes : ~Found(i, t),
         intern_in_pool(t), freeing' = freeing
  PROVE  \E p : Adds(t, p, 1) /\ Allocated' /\ Phase' /\ result' = <<t, p>>
  <1>1. PICK off, n, p : off = mempool_offset /\ n = Len(pool_nodes) /\ p = Ptr(Pool, off)
    OBVIOUS
  <1>2. Open
    BY DEF Open
  <1>3. /\ Pool \in DOMAIN mem /\ DOMAIN mem = Blocks
        /\ mem[Pool] \in [0 .. (MempoolSize - 1) -> Chars]
        /\ off \in Nat /\ MempoolSize \in Nat /\ pool_nodes \in Seq(Node) /\ freeing = 1
    BY <1>1, <1>2, PoolTyped
  <1>4. Len(t) \in Nat
    BY TextTyped
  <1>5. off + Len(t) < MempoolSize /\ off + Len(t) + 1 <= MempoolSize
    BY <1>1, <1>3, <1>4 DEF intern_in_pool, FromPool
  <1>6. off + Len(t) \in DOMAIN mem[Pool]
    BY <1>3, <1>4, <1>5
  <1>7. p.block = Pool /\ p.offset = off /\ p \in Pointers
    BY <1>1, <1>3 DEF Ptr, Pointers, Pool
  <1> DEFINE c == Copied(mem[Pool], off, t)
  <1>8. /\ pool_nodes' = Append(pool_nodes, [str |-> p, len |-> Len(t), alloc_by_pool |-> 1])
        /\ mempool_offset' = off + Len(t) + 1
        /\ mem' = [mem EXCEPT ![Pool] = c] /\ status' = status
        /\ result' = <<t, p>>
    BY <1>1, <1>6 DEF intern_in_pool, Append_node
  <1>9. /\ c \in [0 .. (MempoolSize - 1) -> Chars]
        /\ \A k \in 1 .. Len(t) : c[off + (k - 1)] = t[k]
        /\ c[off + Len(t)] = NUL
        /\ \A k \in 0 .. (MempoolSize - 1) : k < off => c[k] = mem[Pool][k]
    BY <1>3, <1>5, CopiedIs
  <1> HIDE DEF c
  <1>10. /\ DOMAIN mem' = DOMAIN mem /\ mem'[Pool] = c
         /\ \A b \in DOMAIN mem : b # Pool => mem'[b] = mem[b]
    BY <1>3, <1>8
  <1>11. /\ n \in Nat /\ DOMAIN pool_nodes = 1 .. n
         /\ DOMAIN pool_nodes' = 1 .. (n + 1) /\ Len(pool_nodes') = n + 1
         /\ \A i \in 1 .. n : pool_nodes'[i] = pool_nodes[i] /\ i # n + 1
         /\ \A i \in 1 .. (n + 1) : i \in 1 .. n \/ i = n + 1
         /\ pool_nodes'[n + 1].str = p
         /\ pool_nodes'[n + 1].len = Len(t)
         /\ pool_nodes'[n + 1].alloc_by_pool = 1
    BY <1>1, <1>3, <1>8, Appended
  <1>12. Reads(p, t)'
    <2>1. \A k \in 1 .. Len(t) : At(p, k - 1)' = t[k]
      BY <1>7, <1>9, <1>10 DEF At
    <2>2. At(p, Len(t))' = NUL
      BY <1>7, <1>9, <1>10 DEF At
    <2>3. QED
      BY <2>1, <2>2 DEF Reads
  <1>13. ASSUME NEW i \in DOMAIN pool_nodes, NEW k \in 0 .. pool_nodes[i].len
         PROVE  At(pool_nodes[i].str, k)' = At(pool_nodes[i].str, k)
    <2>1. pool_nodes'[i] = pool_nodes[i]
      BY <1>11
    <2>2. /\ i # Pool /\ pool_nodes[i].len \in Nat /\ pool_nodes[i].str.offset \in Nat
          /\ \/ /\ pool_nodes[i].str.block = Pool
                /\ pool_nodes[i].str.offset + pool_nodes[i].len + 1 <= off
             \/ pool_nodes[i].str.block = i /\ i \in DOMAIN mem
      BY <1>1, <1>2, NodeTyped
    <2>3. CASE pool_nodes[i].str.block = Pool
      <3>1. /\ pool_nodes[i].str.offset + k \in 0 .. (MempoolSize - 1)
            /\ pool_nodes[i].str.offset + k < off
        BY <1>3, <1>4, <1>5, <2>2, <2>3
      <3>2. QED
        BY <1>9, <1>10, <2>1, <2>3, <3>1 DEF At
    <2>4. CASE pool_nodes[i].str.block = i /\ i \in DOMAIN mem
      BY <1>10, <2>1, <2>2, <2>4 DEF At
    <2>5. QED
      BY <2>2, <2>3, <2>4
  <1>14. Placed'
    <2>1. pool_nodes' \in Seq(Node)
      <3>1. [str |-> p, len |-> Len(t), alloc_by_pool |-> 1] \in Node
        BY <1>4, <1>7 DEF Node
      <3>2. QED
        BY <1>3, <1>8, <3>1
    <2>2. mempool_offset' \in 0 .. MempoolSize
      BY <1>3, <1>4, <1>5, <1>8
    <2>3. ASSUME NEW i \in 1 .. (n + 1)
          PROVE  \/ /\ pool_nodes'[i].alloc_by_pool = 1 /\ pool_nodes'[i].str.block = Pool
                    /\ pool_nodes'[i].str.offset + pool_nodes'[i].len + 1 <= mempool_offset'
                 \/ /\ pool_nodes'[i].alloc_by_pool = 0 /\ pool_nodes'[i].str.block = i
                    /\ pool_nodes'[i].str.offset = 0
      <3>1. CASE i \in 1 .. n
        <4>1. /\ pool_nodes[i].len \in Nat /\ pool_nodes[i].str.offset \in Nat
              /\ \/ /\ pool_nodes[i].alloc_by_pool = 1 /\ pool_nodes[i].str.block = Pool
                    /\ pool_nodes[i].str.offset + pool_nodes[i].len + 1 <= off
                 \/ /\ pool_nodes[i].alloc_by_pool = 0 /\ pool_nodes[i].str.block = i
                    /\ pool_nodes[i].str.offset = 0
          BY <1>1, <1>2, <1>11, <3>1, NodeTyped
        <4>2. off <= mempool_offset' /\ mempool_offset' \in Nat
          BY <1>3, <1>4, <1>8
        <4>3. pool_nodes'[i] = pool_nodes[i]
          BY <1>11, <3>1
        <4>4. QED
          BY <1>3, <4>1, <4>2, <4>3
      <3>2. CASE i = n + 1
        BY <1>3, <1>4, <1>7, <1>8, <1>11, <3>2
      <3>3. QED
        BY <1>11, <3>1, <3>2
    <2>4. QED
      BY <1>11, <2>1, <2>2, <2>3 DEF Placed
  <1>15. Blocks' = Blocks
    <2>1. \A i \in 1 .. (n + 1) :
            pool_nodes'[i].alloc_by_pool = 0 => i \in 1 .. n /\ pool_nodes[i].alloc_by_pool = 0
      BY <1>11
    <2>2. \A i \in 1 .. n : i \in 1 .. (n + 1) /\ pool_nodes'[i] = pool_nodes[i]
      BY <1>11
    <2>3. status' # "freed" /\ status # "freed"
      BY <1>8
    <2>4. QED
      BY <1>11, <2>1, <2>2, <2>3 DEF Blocks
  <1>16. Allocated'
    <2>1. ASSUME NEW i \in 1 .. (n + 1), i \in Blocks
          PROVE  mem'[i] \in [0 .. pool_nodes'[i].len -> Chars]
      <3>1. i # Pool /\ i \in 1 .. n
        <4>1. i # Pool
          BY <1>11 DEF Pool
        <4>2. i \in DOMAIN pool_nodes
          BY <2>1, <4>1 DEF Blocks
        <4>3. QED
          BY <1>11, <4>1, <4>2
      <3>2. mem[i] \in [0 .. pool_nodes[i].len -> Chars]
        BY <1>11, <2>1, <3>1 DEF Inv, Allocated
      <3>3. mem'[i] = mem[i]
        BY <1>3, <1>10, <2>1, <3>1
      <3>4. QED
        BY <1>11, <3>1, <3>2, <3>3
    <2>2. QED
      BY <1>3, <1>9, <1>10, <1>11, <1>15, <2>1 DEF Allocated
  <1>17. Phase'
    BY <1>3, <1>8, <1>11 DEF Phase, Open
  <1>18. Adds(t, p, 1)
    BY <1>2, <1>7, <1>8, <1>12, <1>13, <1>14 DEF Adds
  <1>19. QED
    BY <1>8, <1>16, <1>17, <1>18

(* one that does not, into a block of its own.                              *)
LEMMA OwnBlockStep ==
  ASSUME Inv, status = "live", NEW t \in Texts,
         \A i \in DOMAIN pool_nodes : ~Found(i, t),
         intern_allocated(t), freeing' = freeing
  PROVE  \E p : Adds(t, p, 0) /\ Allocated' /\ Phase' /\ result' = <<t, p>>
  <1>1. PICK n, b, p : n = Len(pool_nodes) /\ b = Len(pool_nodes) + 1 /\ p = Ptr(b, 0)
    OBVIOUS
  <1>2. Open
    BY DEF Open
  <1>3. /\ Pool \in DOMAIN mem /\ DOMAIN mem = Blocks /\ Pool \in Blocks
        /\ mem[Pool] \in [0 .. (MempoolSize - 1) -> Chars]
        /\ pool_nodes \in Seq(Node) /\ freeing = 1 /\ mempool_offset \in 0 .. MempoolSize
    BY <1>2, PoolTyped DEF Inv, Placed
  <1>4. Len(t) \in Nat
    BY TextTyped
  <1>5. n \in Nat /\ b \in Nat /\ b = n + 1 /\ b # Pool
    BY <1>1, <1>3 DEF Pool
  <1>6. p.block = b /\ p.offset = 0 /\ p \in Pointers
    BY <1>1, <1>5 DEF Ptr, Pointers
  <1> DEFINE c == Copied(malloc(Len(t) + 1), 0, t)
  <1>7. /\ pool_nodes' = Append(pool_nodes, [str |-> p, len |-> Len(t), alloc_by_pool |-> 0])
        /\ mem' = [d \in DOMAIN mem \cup {b} |-> IF d = b THEN c ELSE mem[d]]
        /\ result' = <<t, p>> /\ UNCHANGED <<mempool_offset, status>>
    BY <1>1 DEF intern_allocated, Append_node
  <1>8. /\ c \in [0 .. Len(t) -> Chars]
        /\ \A k \in 1 .. Len(t) : c[k - 1] = t[k]
        /\ c[Len(t)] = NUL
    <2>1. (Len(t) + 1) - 1 = Len(t) /\ Len(t) + 1 \in Nat /\ 0 + Len(t) < Len(t) + 1
      BY <1>4
    <2>2. malloc(Len(t) + 1) \in [0 .. ((Len(t) + 1) - 1) -> Chars]
      BY DEF malloc, Chars
    <2>3. /\ c \in [0 .. ((Len(t) + 1) - 1) -> Chars]
          /\ \A k \in 1 .. Len(t) : c[0 + (k - 1)] = t[k]
          /\ c[0 + Len(t)] = NUL
      BY <2>1, <2>2, CopiedIs
    <2> HIDE DEF c
    <2>4. 0 + Len(t) = Len(t) /\ \A k \in 1 .. Len(t) : 0 + (k - 1) = k - 1
      BY <1>4
    <2>5. QED
      BY <2>1, <2>3, <2>4
  <1> HIDE DEF c
  <1>9. b \notin DOMAIN mem
    <2>1. b \notin DOMAIN pool_nodes
      BY <1>3, <1>5, <1>1
    <2>2. QED
      BY <1>3, <1>5, <2>1 DEF Blocks
  <1>10. /\ DOMAIN mem' = DOMAIN mem \cup {b} /\ mem'[b] = c
         /\ \A d \in DOMAIN mem : mem'[d] = mem[d]
    BY <1>7, <1>9
  <1>11. /\ n \in Nat /\ DOMAIN pool_nodes = 1 .. n
         /\ DOMAIN pool_nodes' = 1 .. (n + 1) /\ Len(pool_nodes') = n + 1
         /\ \A i \in 1 .. n : pool_nodes'[i] = pool_nodes[i] /\ i # n + 1
         /\ \A i \in 1 .. (n + 1) : i \in 1 .. n \/ i = n + 1
         /\ n + 1 \in 1 .. (n + 1)
         /\ pool_nodes'[n + 1].str = p
         /\ pool_nodes'[n + 1].len = Len(t)
         /\ pool_nodes'[n + 1].alloc_by_pool = 0
    BY <1>1, <1>3, <1>7, Appended
  <1>12. Reads(p, t)'
    <2>1. \A k \in 1 .. Len(t) : 0 + (k - 1) = k - 1
      BY <1>4
    <2>2. \A k \in 1 .. Len(t) : At(p, k - 1)' = t[k]
      BY <1>6, <1>8, <1>10, <2>1 DEF At
    <2>3. At(p, Len(t))' = NUL
      BY <1>4, <1>6, <1>8, <1>10 DEF At
    <2>4. QED
      BY <2>2, <2>3 DEF Reads
  <1>13. ASSUME NEW i \in DOMAIN pool_nodes, NEW k \in 0 .. pool_nodes[i].len
         PROVE  At(pool_nodes[i].str, k)' = At(pool_nodes[i].str, k)
    <2>1. pool_nodes'[i] = pool_nodes[i]
      BY <1>11
    <2>2. pool_nodes[i].str.block \in DOMAIN mem
      BY <1>2, <1>3, NodeTyped
    <2>3. QED
      BY <1>10, <2>1, <2>2 DEF At
  <1>14. Placed'
    <2>1. pool_nodes' \in Seq(Node)
      <3>1. [str |-> p, len |-> Len(t), alloc_by_pool |-> 0] \in Node
        BY <1>4, <1>6 DEF Node
      <3>2. QED
        BY <1>3, <1>7, <3>1
    <2>2. ASSUME NEW i \in 1 .. (n + 1)
          PROVE  \/ /\ pool_nodes'[i].alloc_by_pool = 1 /\ pool_nodes'[i].str.block = Pool
                    /\ pool_nodes'[i].str.offset + pool_nodes'[i].len + 1 <= mempool_offset'
                 \/ /\ pool_nodes'[i].alloc_by_pool = 0 /\ pool_nodes'[i].str.block = i
                    /\ pool_nodes'[i].str.offset = 0
      <3>1. CASE i \in 1 .. n
        <4>1. \/ /\ pool_nodes[i].alloc_by_pool = 1 /\ pool_nodes[i].str.block = Pool
                 /\ pool_nodes[i].str.offset + pool_nodes[i].len + 1 <= mempool_offset
              \/ /\ pool_nodes[i].alloc_by_pool = 0 /\ pool_nodes[i].str.block = i
                 /\ pool_nodes[i].str.offset = 0
          BY <1>2, <1>11, <3>1, NodeTyped
        <4>2. QED
          BY <1>7, <1>11, <3>1, <4>1
      <3>2. CASE i = n + 1
        BY <1>5, <1>6, <1>11, <3>2
      <3>3. QED
        BY <1>11, <3>1, <3>2
    <2>3. QED
      BY <1>3, <1>7, <1>11, <2>1, <2>2 DEF Placed
  <1>15. Blocks' = Blocks \cup {b}
    <2>1. \A i \in 1 .. (n + 1) :
            (i \in 1 .. n /\ pool_nodes'[i] = pool_nodes[i]) \/ i = b
      BY <1>5, <1>11
    <2>2. \A i \in 1 .. n : i \in 1 .. (n + 1) /\ pool_nodes'[i] = pool_nodes[i]
      BY <1>11
    <2>3. status' # "freed" /\ status # "freed" /\ freeing' = freeing
      BY <1>7
    <2>4. b \in 1 .. (n + 1) /\ b >= freeing /\ pool_nodes'[b].alloc_by_pool = 0
      BY <1>3, <1>5, <1>11
    <2>5. QED
      BY <1>11, <2>1, <2>2, <2>3, <2>4 DEF Blocks
  <1>16. Allocated'
    <2>1. ASSUME NEW i \in 1 .. (n + 1), i \in Blocks'
          PROVE  mem'[i] \in [0 .. pool_nodes'[i].len -> Chars]
      <3>1. CASE i \in 1 .. n
        <4>1. i \in Blocks
          BY <1>5, <1>11, <1>15, <2>1, <3>1
        <4>2. mem[i] \in [0 .. pool_nodes[i].len -> Chars]
          BY <1>11, <3>1, <4>1 DEF Inv, Allocated
        <4>3. QED
          BY <1>3, <1>10, <1>11, <3>1, <4>1, <4>2
      <3>2. CASE i = n + 1
        BY <1>5, <1>8, <1>10, <1>11, <3>2
      <3>3. QED
        BY <1>11, <3>1, <3>2
    <2>2. mem'[Pool] \in [0 .. (MempoolSize - 1) -> Chars]
      BY <1>3, <1>10
    <2>3. DOMAIN mem' = Blocks'
      BY <1>3, <1>10, <1>15
    <2>4. QED
      BY <1>11, <2>1, <2>2, <2>3 DEF Allocated
  <1>17. Phase'
    BY <1>3, <1>7, <1>11 DEF Phase, Open
  <1>18. Adds(t, p, 0)
    BY <1>2, <1>6, <1>7, <1>12, <1>13, <1>14 DEF Adds
  <1>19. QED
    BY <1>7, <1>16, <1>17, <1>18

-----------------------------------------------------------------------------
(* The steps.                                                               *)
LEMMA SameTexts ==
  ASSUME pool_nodes' = pool_nodes, mem' = mem
  PROVE  (Written' <=> Written) /\ (Distinct' <=> Distinct)
  <1>1. \A p, k : At(p, k)' = At(p, k)
    BY DEF At
  <1>2. \A i, t : Holds(i, t)' <=> Holds(i, t)
    <2> TAKE i, t
    <2> DEFINE p == pool_nodes[i].str
    <2>1. p' = p
      OBVIOUS
    <2>2. Reads(p, t)' <=> Reads(p, t)
      BY <2>1 DEF Reads, At
    <2>3. QED
      BY <2>2 DEF Holds
  <1>3. QED
    BY <1>2 DEF Written, Distinct

(* The three outcomes of str_pool_intern.                                   *)
LEMMA InternStep ==
  ASSUME Inv, NEW t \in Texts, str_pool_intern(t)
  PROVE  Inv' /\ (I!Again(t) \/ I!New(t))
  <1>1. status = "live" /\ freeing' = freeing
    BY DEF str_pool_intern
  <1>2. Open /\ Placed /\ Written /\ Distinct
    BY <1>1 DEF Inv, Open
  <1>3. CASE intern_again(t)
    <2>1. /\ pool_nodes' = pool_nodes /\ mempool_offset' = mempool_offset
          /\ mem' = mem /\ status' = status
      BY <1>3 DEF intern_again
    <2>2. PICK i \in DOMAIN pool_nodes : Found(i, t) /\ result' = <<t, pool_nodes[i].str>>
      BY <1>3 DEF intern_again
    <2>3. PICK u \in Texts : Holds(i, u)
      BY <1>2 DEF Written
    <2>4. Holds(i, t)
      BY <2>2, <2>3, FoundIsHolds
    <2>5. t \in Stored /\ Known[t] = pool_nodes[i].str /\ DOMAIN Known = Stored
      BY <1>2, <2>4, KnownIs DEF KnownFacts
    <2>6. Known' = Known /\ Open' = Open /\ Open'
      BY <1>2, <2>1 DEF Known, Stored, Reads, At, Open
    <2>7. I!Again(t)
      BY <1>2, <2>2, <2>5, <2>6 DEF I!Again
    <2>8. Placed' /\ Allocated' /\ Phase' /\ Written' /\ Distinct'
      <3>1. Placed'
        BY <2>1 DEF Inv, Placed
      <3>2. Allocated'
        BY <1>1, <2>1 DEF Inv, Allocated, Blocks
      <3>3. Phase'
        BY <1>1, <1>2, <2>1, <2>6 DEF Inv, Phase
      <3>4. Written' /\ Distinct'
        BY <1>2, <2>1, SameTexts
      <3>5. QED
        BY <3>1, <3>2, <3>3, <3>4
    <2>9. QED
      BY <2>7, <2>8 DEF Inv
  <1>4. CASE /\ \A i \in DOMAIN pool_nodes : ~Found(i, t)
             /\ intern_in_pool(t) \/ intern_allocated(t)
    <2>1. PICK p, f : Adds(t, p, f) /\ Allocated' /\ Phase' /\ result' = <<t, p>>
      BY <1>1, <1>4, InPoolStep, OwnBlockStep
    <2>2. /\ Written' /\ Distinct'
          /\ t \in Stored' /\ Stored' = Stored \cup {t} /\ t \notin Stored
          /\ Known' = [u \in Stored \cup {t} |-> IF u = t THEN p ELSE Known[u]]
          /\ \A u \in Stored : Known[u] # p
      BY <2>1, Added
    <2>3. Placed' /\ status' = status /\ p \in Pointers
      BY <2>1 DEF Adds
    <2>4. Inv'
      BY <2>1, <2>2, <2>3 DEF Inv
    <2>5. Open' = Open /\ Open'
      BY <1>2, <2>3 DEF Open
    <2>6. Known = [u \in Stored |-> Known[u]] /\ DOMAIN Known = Stored
      BY <1>2, KnownIs DEF KnownFacts
    <2>7. Known'[t] = p /\ DOMAIN Known' = Stored \cup {t}
      BY <2>2
    <2>8. Known' = [u \in DOMAIN Known \cup {t} |-> IF u = t THEN Known'[t] ELSE Known[u]]
      BY <2>2, <2>6, <2>7
    <2>9. Known'[t] \in Pointers \ I!Range(Known)
      BY <2>2, <2>3, <2>6, <2>7 DEF I!Range
    <2>10. I!New(t)
      BY <1>2, <2>1, <2>2, <2>5, <2>6, <2>7, <2>8, <2>9 DEF I!New
    <2>11. QED
      BY <2>4, <2>10
  <1>5. QED
    BY <1>3, <1>4 DEF str_pool_intern

(* malloc fails, and nothing else happens.                                  *)
LEMMA NoMemoryStep ==
  ASSUME Inv, NoMemory
  PROVE  Inv' /\ Known' = Known /\ result' = result /\ Open' = Open
  <1>1. /\ status = "live" /\ status' = "no_memory" /\ Open /\ Open'
        /\ pool_nodes' = pool_nodes /\ mempool_offset' = mempool_offset
        /\ mem' = mem /\ freeing' = freeing /\ result' = result
    BY DEF NoMemory, Open
  <1>2. Placed' /\ Allocated'
    BY <1>1 DEF Inv, Placed, Allocated, Blocks
  <1>3. Phase'
    BY <1>1 DEF Inv, Phase
  <1>4. Written' /\ Distinct'
    BY <1>1, SameTexts DEF Inv
  <1>5. Known' = Known
    BY <1>1 DEF Known, Stored, Reads, At
  <1>6. QED
    BY <1>1, <1>2, <1>3, <1>4, <1>5 DEF Inv

(* A step of the release, from what was open or is being released.          *)
Releases == ~Open' /\ Known' = <<>> /\ result' = <<>> /\ status \in {"live", "freeing"}

LEMMA ReleaseStep ==
  ASSUME Inv, Releases
  PROVE  I!Release \/ (Known' = Known /\ result' = result /\ Open' = Open)
  <1>1. Known' = <<>> /\ result' = <<>> /\ Open' = FALSE
    BY DEF Releases, Open
  <1>2. CASE status = "live"
    <2>1. Open
      BY <1>2 DEF Open
    <2>2. QED
      BY <1>1, <2>1 DEF I!Release
  <1>3. CASE status = "freeing"
    <2>1. Open = FALSE
      BY <1>3 DEF Open
    <2>2. Known = <<>> /\ result = <<>>
      BY <2>1 DEF Known, Inv, Phase
    <2>3. QED
      BY <1>1, <2>1, <2>2
  <1>4. QED
    BY <1>2, <1>3 DEF Releases

(* One round of the loop of str_pool_free frees a block exactly if the node *)
(* has one.                                                                 *)
LEMMA FreeNodeStep ==
  ASSUME Inv, free_node PROVE Inv' /\ Releases
  <1> DEFINE node == pool_nodes[freeing]
  <1>1. /\ status \in {"live", "freeing"} /\ freeing \in DOMAIN pool_nodes
        /\ freeing' = freeing + 1 /\ result' = <<>>
        /\ pool_nodes' = pool_nodes /\ mempool_offset' = mempool_offset
    BY DEF free_node
  <1>2. pool_nodes \in Seq(Node) /\ freeing \in Nat /\ freeing # Pool
        /\ freeing \in 1 .. Len(pool_nodes) /\ DOMAIN pool_nodes = 1 .. Len(pool_nodes)
        /\ Len(pool_nodes) \in Nat /\ DOMAIN mem = Blocks
    BY <1>1 DEF Inv, Placed, Allocated, Pool
  <1>3. \/ node.alloc_by_pool = 1
        \/ node.alloc_by_pool = 0 /\ node.str.block = freeing /\ node.str.offset = 0
    BY <1>1 DEF Inv, Placed
  <1>4. /\ status' = "freeing"
        /\ \/ node.alloc_by_pool = 1 /\ mem' = mem
           \/ /\ node.alloc_by_pool = 0
              /\ mem' = [b \in DOMAIN mem \ {freeing} |-> mem[b]]
    <2>1. CASE node.alloc_by_pool = 0
      <3>1. freeing \in DOMAIN mem
        BY <1>1, <1>2, <2>1 DEF Blocks
      <3>2. free(node.str)
        BY <2>1 DEF free_node, FreesNode
      <3>3. QED
        BY <1>3, <2>1, <3>1, <3>2 DEF free
    <2>2. CASE node.alloc_by_pool # 0
      BY <1>3, <2>2 DEF free_node, FreesNode
    <2>3. QED
      BY <2>1, <2>2
  <1>5. ~Open' /\ Known' = <<>>
    BY <1>4 DEF Open, Known
  <1>6. Placed'
    BY <1>1 DEF Inv, Placed
  <1>7. Blocks' = IF node.alloc_by_pool = 0 THEN Blocks \ {freeing} ELSE Blocks
    <2>1. \A i \in 1 .. Len(pool_nodes) : i >= freeing + 1 <=> i >= freeing /\ i # freeing
      BY <1>2
    <2>2. Blocks' = {Pool} \cup {i \in 1 .. Len(pool_nodes) :
                       pool_nodes[i].alloc_by_pool = 0 /\ i >= freeing /\ i # freeing}
      BY <1>1, <1>2, <1>4, <2>1 DEF Blocks
    <2>3. Blocks = {Pool} \cup {i \in 1 .. Len(pool_nodes) :
                       pool_nodes[i].alloc_by_pool = 0 /\ i >= freeing}
      BY <1>1, <1>2 DEF Blocks
    <2> HIDE DEF node
    <2>4. node = pool_nodes[freeing]
      BY DEF node
    <2>5. QED
      BY <1>2, <2>2, <2>3, <2>4
  <1>8. Allocated'
    <2>1. DOMAIN mem' = Blocks'
      BY <1>2, <1>4, <1>7
    <2>2. Blocks' \subseteq Blocks /\ \A b \in Blocks' : mem'[b] = mem[b]
      BY <1>2, <1>4, <1>7
    <2>3. QED
      BY <1>1, <2>1, <2>2 DEF Inv, Allocated
  <1>9. Phase'
    BY <1>1, <1>2, <1>4, <1>5 DEF Phase
  <1>10. QED
    BY <1>1, <1>5, <1>6, <1>8, <1>9 DEF Inv, Releases

(* The pool itself is freed last.                                           *)
LEMMA FreePoolStep ==
  ASSUME Inv, free_mempool PROVE Inv' /\ Releases
  <1>1. /\ status \in {"live", "freeing"} /\ freeing \notin DOMAIN pool_nodes
        /\ status' = "freed" /\ result' = <<>>
        /\ mem' = [b \in DOMAIN mem \ {Pool} |-> mem[b]]
        /\ pool_nodes' = pool_nodes /\ mempool_offset' = mempool_offset
        /\ freeing' = freeing
    BY DEF free_mempool
  <1>2. ~Open' /\ Known' = <<>>
    BY <1>1 DEF Open, Known
  <1>3. Blocks = {Pool} /\ DOMAIN mem = Blocks
    <2>1. pool_nodes \in Seq(Node) /\ freeing \in 1 .. (Len(pool_nodes) + 1)
      BY DEF Inv, Placed, Phase
    <2>2. \A i \in DOMAIN pool_nodes : ~(i >= freeing)
      BY <1>1, <2>1
    <2>3. QED
      BY <1>1, <2>2 DEF Blocks, Inv, Allocated
  <1>4. DOMAIN mem' = {} /\ Blocks' = {}
    BY <1>1, <1>3 DEF Blocks
  <1>5. Placed' /\ Allocated'
    BY <1>1, <1>4 DEF Inv, Placed, Allocated
  <1>6. Phase'
    BY <1>1, <1>2 DEF Inv, Phase
  <1>7. QED
    BY <1>1, <1>2, <1>5, <1>6 DEF Inv, Releases

LEMMA InitInv ==
  ASSUME Init PROVE Inv /\ I!Init
  <1>1. /\ pool_nodes = <<>> /\ mempool_offset = 0 /\ status = "live" /\ freeing = 1
        /\ result = <<>> /\ mem = [b \in {Pool} |-> malloc(MempoolSize)]
    BY DEF Init
  <1>2. DOMAIN pool_nodes = {} /\ Len(pool_nodes) = 0 /\ Open
    BY <1>1 DEF Open
  <1>3. DOMAIN mem = {Pool} /\ Blocks = {Pool}
    BY <1>1, <1>2 DEF Blocks
  <1>4. mem[Pool] \in [0 .. (MempoolSize - 1) -> Chars]
    BY <1>1 DEF malloc, Chars
  <1>5. Placed
    BY <1>1, <1>2, PoolAssumption DEF Placed
  <1>6. Allocated
    BY <1>2, <1>3, <1>4 DEF Allocated
  <1>7. Phase
    BY <1>1, <1>2 DEF Phase
  <1>8. Written /\ Distinct /\ Stored = {}
    BY <1>2 DEF Written, Distinct, Stored
  <1>9. Known = <<>>
    <2>1. Known = [u \in Stored |-> Known[u]]
      BY <1>2, <1>5, <1>8, KnownIs DEF KnownFacts
    <2>2. \A f : [u \in {} |-> f[u]] = <<>>
      OBVIOUS
    <2>3. QED
      BY <1>8, <2>1, <2>2
  <1>10. QED
    BY <1>1, <1>2, <1>5, <1>6, <1>7, <1>8, <1>9 DEF Inv, I!Init

(* Every step keeps the invariant and is a step of interning or none.       *)
LEMMA NextInv ==
  ASSUME Inv, [Next]_vars
  PROVE  Inv' /\ [I!Next]_<<Known, result, Open>>
  <1>1. CASE \E t \in Texts : str_pool_intern(t)
    BY <1>1, InternStep DEF I!Next
  <1>2. CASE NoMemory
    BY <1>2, NoMemoryStep
  <1>3. CASE free_node
    BY <1>3, FreeNodeStep, ReleaseStep DEF I!Next
  <1>4. CASE free_mempool
    BY <1>4, FreePoolStep, ReleaseStep DEF I!Next
  <1>5. CASE UNCHANGED vars
    <2>1. /\ pool_nodes' = pool_nodes /\ mempool_offset' = mempool_offset
          /\ mem' = mem /\ status' = status /\ freeing' = freeing /\ result' = result
      BY <1>5 DEF vars
    <2>2. Placed' /\ Allocated' /\ Phase' /\ Open' = Open
      BY <2>1 DEF Inv, Placed, Allocated, Blocks, Phase, Open
    <2>3. (Written' <=> Written) /\ (Distinct' <=> Distinct)
      BY <2>1, SameTexts
    <2>4. Known' = Known
      BY <2>1 DEF Known, Stored, Reads, At, Open
    <2>5. QED
      BY <2>1, <2>2, <2>3, <2>4 DEF Inv
  <1>6. QED
    BY <1>1, <1>2, <1>3, <1>4, <1>5 DEF Next, str_pool_free

(* Every node of the pool holds its text, in the pool or in a block of its  *)
(* own, whatever str_pool_intern put after it.                              *)
THEOREM Safety == Spec => []Inv
  <1>1. Init => Inv
    BY InitInv
  <1>2. Inv /\ [Next]_vars => Inv'
    BY NextInv
  <1>3. QED
    BY <1>1, <1>2, PTL DEF Spec

(* Nodes point into blocks, and the pool is used up to its offset.          *)
THEOREM TypeCorrect == Spec => []TypeOK
  <1>1. Inv => TypeOK
    <2> SUFFICES ASSUME Inv PROVE TypeOK
      OBVIOUS
    <2>1. /\ mempool_offset \in 0 .. MempoolSize
          /\ status \in {"live", "freeing", "freed", "no_memory", "undefined"}
          /\ freeing \in 1 .. (Len(pool_nodes) + 1)
      BY DEF Inv, Placed, Phase
    <2>2. ASSUME NEW i \in DOMAIN pool_nodes
          PROVE  /\ pool_nodes[i].len \in Nat
                 /\ pool_nodes[i].str.block \in {Pool, i}
                 /\ pool_nodes[i].alloc_by_pool = IF pool_nodes[i].str.block = Pool THEN 1 ELSE 0
      <3>1. pool_nodes \in Seq(Node)
        BY DEF Inv, Placed
      <3>2. pool_nodes[i] \in Node /\ i # Pool
        BY <3>1 DEF Pool
      <3>3. pool_nodes[i].len \in Nat
        BY <3>2 DEF Node
      <3>4. QED
        BY <3>2, <3>3 DEF Inv, Placed
    <2>3. ASSUME NEW b \in DOMAIN mem
          PROVE  mem[b] \in [DOMAIN mem[b] -> Char \cup {NUL, Garbage}]
      <3>1. \E S : mem[b] \in [S -> Chars]
        <4>1. b \in Blocks
          BY DEF Inv, Allocated
        <4>2. b = Pool \/ b \in DOMAIN pool_nodes
          BY <4>1 DEF Blocks
        <4>3. QED
          BY <4>1, <4>2 DEF Inv, Allocated
      <3>2. QED
        BY <3>1 DEF Chars
    <2>4. QED
      BY <2>1, <2>2, <2>3 DEF TypeOK
  <1>2. QED
    BY <1>1, Safety, PTL

(* str_pool_free frees what malloc returned, each block once, and nothing   *)
(* stays behind.                                                            *)
THEOREM FreesWhatItAllocated == Spec => []FreedAsAllocated
  <1>1. Inv => FreedAsAllocated
    BY DEF Inv, Phase, Allocated, Blocks, FreedAsAllocated
  <1>2. QED
    BY <1>1, Safety, PTL

(* The pool is the interning table that operand_finder takes it for: equal  *)
(* texts have equal pointers, different texts different ones.               *)
THEOREM Interns == Spec => ImplementsInterning
  <1>1. Init => I!Init
    BY InitInv
  <1>2. Inv /\ [Next]_vars => [I!Next]_<<Known, result, Open>>
    BY NextInv
  <1>3. QED
    BY <1>1, <1>2, Safety, PTL DEF Spec, ImplementsInterning, I!Spec
=============================================================================
